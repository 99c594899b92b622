SPECIFICATION ViewSpec
CONSTANTS
  junior = junior
  senior = senior
  admin = admin
  Roles = {junior, senior, admin}
  PRIVILEGED_ROLES = {admin}
  Files = {}
  NoFile = NoFile
  MaxSends = 3
  MaxChats = 2
  MaxSwitches = 0
INVARIANT InspectsSelected
CHECK_DEADLOCK FALSE
