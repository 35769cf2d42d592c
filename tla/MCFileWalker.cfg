\* Two path and two content regexes, two content checkers and channels of capacity two.
SPECIFICATION Spec
CONSTANTS
    Path <- MCPath
    RootPath = "/"
    Dir <- MCDir
    Regular <- MCRegular
    Children <- MCChildren
    Place <- MCPlace
    ExcludedPaths = {"/x"}
    PathRegexes = {"etc", "conf"}
    ContentRegexes <- MCContentRegexes
    PathMatch <- MCPathMatch
    ContentMatch <- MCContentMatch
    TooLarge = {}
    Damaged = {"/d/b"}
    MaxInFlight = 2
    AnyPath = ""
INVARIANTS
    TypeOK NoPanic GoroutinesAgree ResultComplete ErrorHandedOver
PROPERTIES ImplementsInventory AllEnd
