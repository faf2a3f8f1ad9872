CONSTANTS
    Parts = {"format", "validation", "injection", "arithmetic", "async", "sync", "timer", "tables", "actions"}
    Handlers = {"signal", "thread"}
    MaxDepth = 5
SPECIFICATION Spec
INVARIANTS CodeKeepsMeaning NativeCodeSound ContractsSound
CHECK_DEADLOCK FALSE
