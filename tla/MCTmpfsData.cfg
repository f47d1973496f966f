SPECIFICATION InitramfsSpec
CONSTANTS
    Paths <- MCPaths
    Texts <- MCTexts
    Chars <- MCChars
    Entries = 2
    LowSize = 2
    MaxNodes = 5
    MaxFiles = 2
    Archives <- MCArchives
    Dir <- MCTmp
PROPERTIES
    WritesOwnData
CHECK_DEADLOCK FALSE
