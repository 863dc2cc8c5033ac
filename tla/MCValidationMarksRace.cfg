\* Two tasks validating the same operation: h5, whose factory a2 is staked.
CONSTANTS
  a1 = a1  a2 = a2  a3 = a3
  h1 = h1  h2 = h2  h3 = h3  h4 = h4  h5 = h5  h6 = h6  h7 = h7
  t1 = t1  t2 = t2
  Addrs = {a1, a2, a3}
  Hashes = {h1, h2, h3, h4, h5, h6, h7}
  NONE = NONE
  CodeHashVals = {}
  Uo <- MCUo
  Gas <- MCGas
  CalculatedPreVerificationGas <- MCCalculatedPreVerificationGas
  Deposit <- MCDeposit
  Tasks = {t1, t2}
  Deployed = {a1, a2}
  Staked = {a2}
  Banned = {}
  MaxVerificationGas = 1
  MinPriorityFee = 1
  GasEstimates = {1, 2}
  GasPrices = {1, 3}
  ProviderMayFail = TRUE
SPECIFICATION Spec
INVARIANT MarksKept
