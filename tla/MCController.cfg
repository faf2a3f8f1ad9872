CONSTANTS
    Block <- MCBlock
    Genesis <- MCGenesis
    Prev <- MCPrev
    Num <- MCNum
    Ancestry <- MCAncestry
    Lib <- MCLib
    Rank <- MCRank
    BadSets <- MCBadSets
SPECIFICATION ControllerSpec
INVARIANTS
    OneTree HeadIsBest ValidatedPrefix StoresSound
PROPERTIES
    RestartSound CallsFinish UsesForkDatabase
