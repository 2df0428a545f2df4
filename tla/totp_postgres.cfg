SPECIFICATION Spec
CONSTANTS
  Requests = {r1, r2, r3}
  Authenticators = {phone}
  WrongToken = WrongToken
  NoTimestep = NoTimestep
  SERIALIZED = FALSE
  TOTP_MAX_FAILED_ATTEMPTS = 2
  TOTP_FAILED_ATTEMPT_WINDOW = 2
  TOTP_LOCKOUT = 2
  TTL_FAILED_ATTEMPT = 6
  TTL_VERIFICATION = 2
  MaxTime = 5
SYMMETRY AnyOrder

PROPERTIES NeverReplayed
CHECK_DEADLOCK FALSE
