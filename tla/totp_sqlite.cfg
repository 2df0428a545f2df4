SPECIFICATION Spec
CONSTANTS
  Requests = {r1, r2, r3}
  Authenticators = {phone}
  WrongToken = WrongToken
  NoTimestep = NoTimestep
  SERIALIZED = TRUE
  TOTP_MAX_FAILED_ATTEMPTS = 2
  TOTP_FAILED_ATTEMPT_WINDOW = 2
  TOTP_LOCKOUT = 2
  TTL_FAILED_ATTEMPT = 6
  TTL_VERIFICATION = 2
  MaxTime = 5
SYMMETRY AnyOrder
INVARIANTS TypeOK LockoutHolds
PROPERTIES NeverReplayed FreshCodeAccepted
CHECK_DEADLOCK FALSE
