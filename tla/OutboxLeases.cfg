CONSTANTS
    o1 = o1  a1 = a1  a2 = a2  w1 = w1  w2 = w2  h1 = h1  h2 = h2
    Gateway = Gateway  Nobody = Nobody  Customer = Customer  NoClaim = NoClaim  NoEdit = NoEdit
    Orders = {o1}
    Admins = {a1}
    Workers = {w1, w2}
    Handlers = {}
    BatchSize = 2
    MaxSteps = 0
    MaxFaults = 2
SPECIFICATION FairSpec
CHECK_DEADLOCK FALSE
INVARIANTS OneSendPerLease
PROPERTIES SettledForGood AllSettle
