CONSTANTS
    u1 = u1  u2 = u2  k1 = k1  w1 = w1  w2 = w2
    NoKey = NoKey  NoQuote = NoQuote  NoForm = NoForm  NoCard = NoCard  Keep = Keep
    Users = {u1}
    Products <- OneProduct
    Keys = {k1}
    Workers = {w1, w2}
    Settings <- QuoteSettings
    InitialSettings <- Base
    Kinds = {"delivery"}
    Methods = {"cash", "card_transfer"}
    Edits <- ProductEdits
    CartOps = {"add", "set"}
    Office = {"form", "hide"}
    Corrections <- TakeOne
    InitialRow <- ScarceRow
    MaxQty = 2
    MaxOrders = 2
    MaxVersion = 2
    MaxSent = 2
    MaxCartEdits = 1
SPECIFICATION Spec
INVARIANTS OneOrderPerKey AnswersAgree StockLedger QuoteHonoured
SYMMETRY Processes
PROPERTIES AddOncePerKey
