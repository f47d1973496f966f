SPECIFICATION PlainSpec
CONSTANTS
    Supply <- MCSupply
    MaxParPages = 2
    Requests <- MCRequests
INVARIANTS
    TypeOK
    LiveDisjoint
    MarkedIsHeld
    BitsInPage
    ChunkCountExact
PROPERTIES
    NoNeedlessPage
