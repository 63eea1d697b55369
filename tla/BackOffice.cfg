CONSTANTS
    x1 = x1  x2 = x2  y1 = y1  y2 = y2  z1 = z1  z2 = z2  z3 = z3  f1 = f1  f2 = f2
    NoCall = NoCall  NoLogin = NoLogin  NoRow = NoRow  NoParent = NoParent
    NoSku = NoSku  NoDesk = NoDesk  NoCode = NoCode  NoOwner = NoOwner  NoIssue = NoIssue
    NoFile = NoFile  NoManifest = NoManifest  NoScreen = NoScreen  Unread = Unread
    NoErrand = NoErrand  Blank = Blank  NoTap = NoTap
    Staff = {z1, z2, z3}
    Founders = {z1, z2}
    Calls = {x1, x2}
    Logins = {f1}
    MaxWithdrawals = 2
    Categories = {z1, z2, z3}
    Products = {f1}
    Skus = {f2}
    Images = {1, 2}
    Editors = {x1, x2}
    Owners = {z1, z2}
    Customers = {z1, z2}
    Codes = {y1, y2}
    Issues = {x1, x2}
    Tickets = {1, 2}
    Errands = {x1, x2}
    Texts = {1, 2}
    MaxPrompts = 2
    Orders = {1, 2}
    Contents = {f1, f2}
    MaxFiles = 3
    Runs = {z1, z2}
    Legacy <- BeforeTheMove
    Panels = {z3}
    Chats = {f1}
    Fields = {y1, y2}
    Values = {f1, f2}
    MaxVersion = 2
    Adverts = {f1}
    Captions = {f1}
    Targets = {f1}
    Listeners = {f1}
    Taps = {x1, x2}
    MaxPreviews = 2
    MaxDrafts = 1
SPECIFICATION OfficeSpec
INVARIANTS SuperadminRemains WithdrawnStaysOut CatalogConsistent NewestCodeWorks OnePerPrompt LaunchedAsShown
PROPERTIES ActsWithAuthority ReceiptsKept VerifiedIsPrivate SavedAsSeen
SYMMETRY Same
CHECK_DEADLOCK FALSE
