--------------------------- MODULE MCCredentials ---------------------------
(* Instances of Credentials for TLC.                                       *)
EXTENDS Credentials, TLC

AnyOrder ==
  Permutations(Requests) \cup Permutations(Passkeys) \cup Permutations(Tokens)
    \cup Permutations(Sessions)

(* None, one or all of the passkeys, beside the password.                  *)
MCInitialPasskeys == SUBSET Passkeys
=============================================================================
