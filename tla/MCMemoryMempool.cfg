CONSTANTS
  a1 = a1
  a2 = a2
  h1 = h1
  h2 = h2
  h3 = h3
  h4 = h4
  c1 = c1
  c2 = c2
  NONE = NONE
  Addrs = {a1, a2}
  Hashes = {h1, h2, h3, h4}
  CodeHashVals = {c1, c2}
  Uo <- MCUo
  CodeHashInputs <- MCCodeHashInputs
SPECIFICATION Spec
INVARIANTS
  SortLaw
  SenderCountMatchesList
  IndexConsistency
PROPERTIES
  AbstractSpec
