SPECIFICATION Spec
CONSTANTS
  Calls = {c1, c2}
  Routes = {"token", "register", "login", "configure", "audit", "chat"}
  Emails = {alice, bob}
  Roles = {junior, vp, admin}
  PRIVILEGED_ROLES = {vp, admin}
  ADMIN = admin
  DEFAULT = default
  Minted <- ThreeTokens
  Granted <- AliceGranted
  TokenEndpoint = TRUE
  NoRole = NoRole
  NoToken = NoToken
  Forged = Forged
  NoOwner = NoOwner
  alice = alice
  bob = bob
  junior = junior
  vp = vp
  admin = admin
  default = default
  other = other
  j1 = j1
  j2 = j2
  j3 = j3
INVARIANTS OnlyOwners LoggedFirst PiiLogged RevokedShutOut TenantScoped PrivilegeGranted
CHECK_DEADLOCK FALSE
