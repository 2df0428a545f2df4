SPECIFICATION Spec
CONSTANTS
  u1 = u1
  u2 = u2
  u3 = u3
  u4 = u4
  u5 = u5
  g1 = g1
  g2 = g2
  g3 = g3
  i1 = i1
  i2 = i2
  root = root
  ann = ann
  bob = bob
  bea = bea
  d1 = d1
  d2 = d2
  dg = dg
  staff = staff
  crew = crew
  auth_admins = auth_admins
  own = own
  abroad = abroad
  site = site
  other = other
  exact = exact
  wild = wild
  r1 = r1
  r2 = r2
  j1 = j1
  j2 = j2
  j3 = j3
  j4 = j4
  k1 = k1
  k2 = k2
  k3 = k3
  k4 = k4
  claim = claim
  claim2 = claim2
  app = app
  api = api
  c1 = c1
  c2 = c2
  ours = ours
  theirs = theirs
  yes = yes
  None = None
  UserIds = {u1, u2, u3, u4, u5}
  GroupIds = {g1, g2, g3}
  InvitationIds = {i1, i2}
  Usernames = {root, ann, bob, bea}
  DNs = {d1, d2, dg}
  UserUpdates <- MCUserUpdates
  ManyUsers <- MCManyUsers
  GroupUpserts <- MCGroupUpserts
  InvitationUpserts <- MCInvitationUpserts
  ChangeBound = 1
  Cycles = {1, 2}
  ADMIN_USER = root
  DirectoryStates <- MCDirectoryStates
  SyncConfigs <- MCSyncConfigs
  CycleBound = 3
  MishapBound = 2
  Groups = {staff, crew, auth_admins}
  ADMIN_GROUP = auth_admins
  MfaGroups = {}
  MFA_REQUIRED = FALSE
  EMAIL_VERIFICATION = TRUE
  SIGNUP_REQUIRES_APPROVAL = TRUE
  Ceremonies = {1, 2}
  SIGNUP = TRUE
  UserBound = 4
  Visitors = {u1, u2}
  Visits <- MCVisits
  OwnUrls = {own}
  ReachedUrls = {site, other}
  Covers <- MCCovers
  RuleIds = {r1, r2}
  RuleUpserts <- MCRuleUpserts
  CACHE_TTL = 1
  FETCH_TIME = 1
  KeyIds = {j1, j2, j3, j4, k1, k2, k3, k4}
  KindOf <- MCKindOf
  KEY_TTL = 3
  TOKEN_TTL = 1
  Claims = {claim, claim2}
  Clients = {app}
  RotationBound = 2
  StopBound = 2
  EditBound = 1
  FaultBound = 1
  SettingNames <- MCSettingNames
  Unset = Unset
  Empty = Empty
  No = No
  Hour = Hour
  Texts = {ours, theirs, yes, No, Hour}
  Understood <- MCUnderstood
  Environment <- MCEnvironment
  Defaults <- MCDefaults
  Bodies <- MCBodies
  Logos <- MCLogos
  SaveBound = 2
  RunBound = 2
  FailureBound = 1
  AppIds = {app, api}
  EnvironmentDeclares = {app}
  Containers = {c1, c2}
  LabelsDeclare <- MCLabelsDeclare
  ContainerBound = 3
  StoreBound = 2
  DomainInputs <- MCDomainInputs
  Collation <- MCCollation
  ListBound = 3
PROPERTIES AdminsNeverLinked
CHECK_DEADLOCK FALSE
