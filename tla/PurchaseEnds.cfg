CONSTANTS
    u1 = u1  u2 = u2  k1 = k1  w1 = w1  w2 = w2
    NoKey = NoKey  NoQuote = NoQuote  NoForm = NoForm  NoCard = NoCard  Keep = Keep
    Users = {u1, u2}
    Products <- TwoProducts
    Keys = {}
    Workers = {w1, w2}
    Settings <- Fixed
    InitialSettings <- HighMinimum
    Kinds = {"preorder"}
    Methods = {"cash"}
    Edits <- None
    CartOps = {"add"}
    Office = {"delete"}
    Corrections <- None
    InitialRow <- PairRow
    MaxQty = 1
    MaxOrders = 2
    MaxVersion = 3
    MaxSent = 2
    MaxCartEdits = 1
SPECIFICATION FairSpec
INVARIANTS CheckoutSound OnlyOwnCircles
PROPERTIES TransactionsEnd
