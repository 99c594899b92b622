SPECIFICATION FairViewSpec
CONSTANTS
  junior = junior
  senior = senior
  admin = admin
  Roles = {junior, senior, admin}
  PRIVILEGED_ROLES = {admin}
  Files = {f1}
  NoFile = NoFile
  MaxSends = 3
  MaxChats = 2
  MaxSwitches = 2
INVARIANTS OneAtATime ToldAsShown StrayComesFirst StoredTogether PersonaFollows MarkerTells
PROPERTY LoadingEnds
CHECK_DEADLOCK FALSE
