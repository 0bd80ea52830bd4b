\* One more load after the start, of the same files or others.
SPECIFICATION Spec
CHECK_DEADLOCK FALSE
CONSTANTS
    Null = Null
    Btn = {0, 1}
    EventKey <- MCEventKey
    Words <- MCWords
    MaxDepth = 3
    ButtonWord <- MCButtonWord
    Operators = {"or", "wheel"}
    Names = {"user", "other", "default", "C:/more"}
    RcNames <- MCRcNames
    ConfFile = Null
    Dirs <- MCDirs
    Absolute = {"C:/more"}
    Root = "root"
    Disks <- MCDisks
    MAX_INCLUDE = 3
    MaxReloads = 1
    MaxRestarts = 2
INVARIANTS
    LastSettingWins
    TablesUsable
    IconNotLost
PROPERTIES
    IncludesEnd
