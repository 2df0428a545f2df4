SPECIFICATION Spec
CONSTANTS
  Requests = {r1, r2}
  Passkeys = {k1, k2}
  Tokens = {t1}
  Sessions = {s1, s2}
  Nothing = Nothing
  InitialPasskeys <- MCInitialPasskeys
  SERIALIZED = FALSE
SYMMETRY AnyOrder
INVARIANTS SignedOutForGood

CHECK_DEADLOCK FALSE
