CONSTANTS
    x1 = x1  x2 = x2  x3 = x3  c1 = c1  c2 = c2  z1 = z1  z2 = z2  z3 = z3  f1 = f1  f2 = f2
    Unset = Unset  EmptyCart = EmptyCart  NoHandler = NoHandler
    NoPost = NoPost  NoWork = NoWork  NoVisit = NoVisit  NoLink = NoLink  Stranger = Stranger
    NoBatch = NoBatch  NoTab = NoTab  Guest = Guest  NoEntry = NoEntry  NoRequest = NoRequest
    NoCaller = NoCaller
    Sessions = {x1, x2, x3}
    Customers = {c1, c2}
    Products = {1, 2}
    Orders = {z1}
    Admins = {1, 2}
    Owner <- OwnerOfAll
    Lines <- BothProducts
    Shoppers = {c2}
    Kinds <- EveryKind
    Names = {f1}
    Addresses = {f2}
    Comments = {}
    OrderTypes = {"delivery", "preorder"}
    Methods = {"card"}
    Carts = {z1}
    Tariffs = {f1, f2}
    Handlers = {x1, x2}
    MaxKeys = 2
    MaxChanges = 1
    MaxPasses = 2
    Workers = {x1, x2}
    LastDay = 2
    MaxAttempts = 3
    Visits = {x1, x2}
    People = {z1, z2}
    Links = {z1, z2}
    MaxVisits = 2
    Batches = {x1, x2}
    Tabs = {z1, z2}
    Browsers = {z1, z2}
    Buyers = {z1, z2}
    MaxEvents = 2
    Entries = {z1, z2, z3}
    Clients = {x1, x2}
    Limit = 2
    Calls = {x1, x2}
    CallKinds = {"update", "recheck", "code"}
    Allowed = 1
SPECIFICATION FrontSpec
INVARIANTS NoDeadlock OneAdvertADay AddressesInOrder NobodyShutOut
PROPERTIES ShownIsOrdered CampaignsAddUp SessionsStand
SYMMETRY Same
CHECK_DEADLOCK FALSE
