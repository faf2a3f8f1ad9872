CONSTANT Parts = {"http", "socket", "wallets", "mongo", "query", "history", "start", "api", "abi", "cleos", "line", "launcher"}
SPECIFICATION Spec
INVARIANTS ServersSound CopiesAgree StartupSound  ClientSound LauncherSound
PROPERTIES ServicesProgress BlocksKept
CHECK_DEADLOCK FALSE
