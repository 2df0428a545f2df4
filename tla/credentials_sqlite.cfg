SPECIFICATION Spec
CONSTANTS
  Requests = {r1, r2, r3}
  Passkeys = {k1, k2}
  Tokens = {t1, t2}
  Sessions = {s1, s2}
  Nothing = Nothing
  InitialPasskeys <- MCInitialPasskeys
  SERIALIZED = TRUE
SYMMETRY AnyOrder
INVARIANTS TypeOK LoginMethodRemains SignedOutForGood OneResetPerToken
PROPERTIES ReplacesProvenPassword
CHECK_DEADLOCK FALSE
