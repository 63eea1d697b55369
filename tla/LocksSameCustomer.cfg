CONSTANTS
    s1 = s1  s2 = s2  s3 = s3  c1 = c1  c2 = c2  o1 = o1
    Sessions = {s1, s2}
    Customers = {c1, c2}
    Products = {1, 2}
    Orders = {o1}
    Admins = {1, 2}
    Owner <- OwnerOfAll
    Lines <- BothProducts
    Shoppers = {c1}
    Kinds = {"checkout", "cancel"}
SPECIFICATION Spec
INVARIANTS NoDeadlock
SYMMETRY Alike
