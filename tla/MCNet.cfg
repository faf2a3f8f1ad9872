CONSTANTS
    Peers = 2
    Dialled = {1}
    Span = 1
    Lag = 1
    MaxBlock = 3
    PeerHeads <- MCPeerHeads
    MaxRejected = 1
    MaxTroubles = 1
    MaxWaiting = 1
    MaxMessages = 3
    MaxBlockNum = 2
    MaxRequests = 1
    MaxSockets = 2
    MaxSize = 2
    Topologies <- MCTopologies
    Transactions = {"t"}
    Chain = 2
    Irreversible = 1
    MaxItems <- MCMaxItems
SPECIFICATION Spec
INVARIANTS AwaitsSomeone WritesSound Reaches
PROPERTY NodeCatchesUp
CHECK_DEADLOCK FALSE
