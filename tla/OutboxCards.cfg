CONSTANTS
    o1 = o1  a1 = a1  a2 = a2  w1 = w1  w2 = w2  h1 = h1  h2 = h2
    Gateway = Gateway  Nobody = Nobody  Customer = Customer  NoClaim = NoClaim  NoEdit = NoEdit
    Orders = {o1}
    Admins = {a1}
    Workers = {w1}
    Handlers = {h1, h2}
    BatchSize = 2
    MaxSteps = 2
    MaxFaults = 0
SPECIFICATION Spec
CHECK_DEADLOCK FALSE
PROPERTIES NeverBack
SYMMETRY Alike
