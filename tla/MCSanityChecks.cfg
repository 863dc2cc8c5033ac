\* One validation task against the bundler and new blocks.
CONSTANTS
  a1 = a1  a2 = a2  a3 = a3
  h1 = h1  h2 = h2  h3 = h3  h4 = h4
  t1 = t1  t2 = t2
  Addrs = {a1, a2, a3}
  Hashes = {h1, h2, h3, h4}
  NONE = NONE
  CodeHashVals = {}
  Uo <- MCUo
  CallGasLimit <- MCCallGasLimit
  Tasks = {t1}
  GasUsed = {1}
  ExecutionGas = {0, 1}
  BaseFees = {1, 2}
  CALL_STIPEND = 1
  THROTTLED_ENTITY_MEMPOOL_COUNT = 2
  Banned = {a3}
  Throttled = {a2}
  SimulationMayFail = TRUE
SPECIFICATION Spec
INVARIANTS ThrottledWithinLimit
