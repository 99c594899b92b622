SPECIFICATION Spec
CONSTANTS
  Calls = {c1, c2}
  Admins = {}
  Verifiers = {v1}
  Limits <- MCLimits
  PageCap = 2
  MaxTampers = 2
  GENESIS_SENTINEL = genesis
INVARIANT BrokenMeansTampered
CHECK_DEADLOCK FALSE
