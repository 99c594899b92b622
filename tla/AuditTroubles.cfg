SPECIFICATION Spec
CONSTANTS
  Calls = {c1, c2, c3}
  Admins = {c3}
  Verifiers = {v1}
  Limits <- MCLimits
  PageCap = 2
  MaxTampers = 2
  GENESIS_SENTINEL = genesis
INVARIANTS RecordedOnce LinksPointBack OkMeansComplete NoFalseAlarm PageCapped
SYMMETRY Symmetry
CHECK_DEADLOCK FALSE
