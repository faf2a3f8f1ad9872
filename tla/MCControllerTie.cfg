CONSTANTS
    Block <- MCBlock
    Genesis <- MCGenesis
    Prev <- MCPrev
    Num <- MCNum
    Ancestry <- MCAncestry
    Lib <- MCLib
    Rank <- MCRankTie
    BadSets <- MCBadSets
SPECIFICATION ControllerSpec
PROPERTY InitAccepts
