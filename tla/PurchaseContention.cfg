CONSTANTS
    u1 = u1  u2 = u2  k1 = k1  w1 = w1  w2 = w2
    NoKey = NoKey  NoQuote = NoQuote  NoForm = NoForm  NoCard = NoCard  Keep = Keep
    Users = {u1, u2}
    Products <- OneProduct
    Keys = {k1}
    Workers = {w1, w2}
    Settings <- TrackingSettings
    InitialSettings <- Base
    Kinds = {"delivery"}
    Methods = {"cash"}
    Edits <- None
    CartOps = {"add", "set"}
    Office = {"delete", "advance"}
    Corrections <- None
    InitialRow <- LastRow
    MaxQty = 1
    MaxOrders = 2
    MaxVersion = 2
    MaxSent = 2
    MaxCartEdits = 0
SPECIFICATION Spec
PROPERTIES KeepsLedger
SYMMETRY Clients
