CONSTANTS
    o1 = o1  o2 = o2  o3 = o3  o4 = o4  w1 = w1  w2 = w2
    a1 = a1  a2 = a2  t1 = t1  t2 = t2  v1 = v1
    NoTx = NoTx  NoReceipt = NoReceipt  NoAdmin = NoAdmin  NoView = NoView
    Orders = {o1, o2, o3, o4}
    Workers = {w1, w2}
    Admins = {a1, a2}
    Method <- OneEach
    Total <- Price
    Amounts = {1, 2}
    Transactions = {t1, t2}
    Variants = {v1}
    MaxTx = 2
    MaxObjects = 2
SPECIFICATION HalfSpec
INVARIANTS ChargedOnce ConfirmedStands PaidHasEvidence ReceiptsStored
PROPERTIES ChargedWhileOpen SettledStands
SYMMETRY Same
