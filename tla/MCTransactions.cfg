SPECIFICATION Spec
CONSTANTS
  Parts = {"execution", "permissions", "contracts", "features"}
  Accounts = {"eosio", "alice", "bob", "carol"}
  NoAccount = "none"
  rate_limiting_precision = 10
  average_window = 3
  elastic <- MCElastic
  Inputs <- MCInputs
  Deferred <- MCDeferred
  OnError <- MCOnError
  resource_greylist = {"bob"}
  greylist_limit = 4
  actor_whitelist = {}
  actor_blacklist = {"carol"}
  sender_bypass_whiteblacklist = {"bob"}
  max_transaction_cpu_usage = 3
  min_transaction_cpu_usage = 1
  max_transaction_net_usage = 3
  net_usage_leeway = 1
  subjective_cpu_leeway = 1
  max_transaction_lifetime = 4
  deferred_trx_expiration_window = 1
  MaxTime = 3
  Elapsed = {1, 3}
  OnErrorElapsed = {0, 1}
  Deadlines = {1}
  Estimates = {0, 2}
  MaxActions = 3
  MaxReceipts = 2
INVARIANTS BlocksReplay PermissionsSound FeaturesSound
PROPERTIES OnlyByHolders ActivationsKept
CHECK_DEADLOCK FALSE
