SPECIFICATION Spec
CONSTANTS
  junior_analyst = junior_analyst
  admin = admin
  ann = ann
  bob = bob
  ui_user = ui_user
  None = None
  m1 = m1
  m2 = m2
  u1 = u1
  u2 = u2
  d1 = d1
  d2 = d2
  Roles = {junior_analyst, admin}
  PRIVILEGED_ROLES = {admin}
  Users = {ann, bob}
  Accounts <- MCAccounts
  Models = {m1, m2}
  NoModel = NoModel
  Offers <- MCOffers
  DefaultUrl = u1
  RequiresToken = TRUE
  Dates = {d1, d2}
  Today = d1
  NoLogs = NoLogs
  cyan = cyan
  rose = rose
  Themes = {cyan, rose}
  DefaultTheme = cyan
  Bounds <- MCBounds
  DEMO_SAMPLE <- MCSample
  DemoTexts <- MCDemoTexts
  DemoMatches <- MCDemoMatches
  NoPreview = NoPreview
  TOTAL = 3
  STEP_TICKS = 3
  Jane = Jane
  Smith = Smith
  Credit = Credit
  Score = Score
  jane = jane
  smith = smith
  credit = credit
  score = score
  Scoreby = Scoreby
  scoreby = scoreby
  LOAN = LOAN
  loan = loan
  ssn = ssn
  word = word
  NoResult = NoResult
  Fragments <- MCFragments
  Lower <- MCLower
  Title <- MCTitle
  Matches <- MCMatches
  NonNames <- MCNonNames
  SAMPLE <- MCSample
  Texts <- MCTexts
INVARIANT ReadyToGo
CHECK_DEADLOCK FALSE
