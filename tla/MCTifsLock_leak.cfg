CONSTANTS
  Owners = {o1, o2, o3}
  Backend = "tikv"
  Env <- EnvExitHolding
SPECIFICATION LiveSpec
\* Every owner may close its file; the system then has nothing to serve.
CHECK_DEADLOCK FALSE
PROPERTIES
  WaitEventuallyReturns
