SPECIFICATION InitramfsSpec
CONSTANTS
    Paths <- MCPaths
    Texts <- MCTexts
    Chars <- MCChars
    Entries = 2
    LowSize = 2
    MaxNodes = 5
    MaxFiles = 2
    Archives <- MCArchives
    Dir <- MCTmp
INVARIANTS
    TypeOK
    NamesUnique
    TreeShaped
    LookupFinds
PROPERTIES
    PathsStable
    OpenFinds
    MkdirMakes
    MountComplete
CHECK_DEADLOCK FALSE
