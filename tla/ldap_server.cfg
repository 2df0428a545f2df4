SPECIFICATION MCSpec
CONSTANTS
  c1 = c1
  c2 = c2
  alice = alice
  service = service
  nobody = nobody
  home = home
  staff = staff
  auth_admins = auth_admins
  unknown = unknown
  NoAccount = NoAccount
  NoWorker = NoWorker
  w1 = w1
  w2 = w2
  Conns = {c1}
  Loops = {1, 2}
  Users = {alice}
  RemoteUsers = {alice}
  Service = service
  Anonymous = nobody
  Chunks <- MCChunks
  InitialAccounts <- MCAccounts
  AddressOf <- MCAddressOf
  AdminFields = {"approved"}
  MAX_CONNECTIONS = 1
  MAX_BUFFER = 2
  FrameBound = 3
  ChangeBound = 1
  Jobs <- MCJobs
  Workers = {w1, w2}
  WORKER_COUNT = 2
  MAX_PENDING_JOBS = 1
  Addresses = {home, unknown}
  BIND_FAILURES_BEFORE_BACKOFF = 2
  BIND_BACKOFF_MAX = 2
  FailureBound = 3
  Groups = {staff, auth_admins}
  ADMIN_GROUP = auth_admins
  MfaGroups = {}
  MFA_REQUIRED = FALSE
  EMAIL_VERIFICATION = TRUE
  SIGNUP_REQUIRES_APPROVAL = TRUE
  MAX_FRAME_SIZE = 65536
  Lengths <- MCLengths
  Ids <- MCIds
  Names <- MCNames
  Texts <- MCTexts
  Parts <- MCParts
INVARIANTS TypeOK PoolAccounts BackoffLimitsGuesses ShowsWhoMayLogIn
  MessagesSurvive SearchesFindNames
PROPERTIES KeepsAccessPromise BindsAreCurrent NoGuessWhileBlocked RequestsAnswered
CHECK_DEADLOCK FALSE
