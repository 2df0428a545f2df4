---------------------------- MODULE BindBackoff ----------------------------
(***************************************************************************)
(* Failed binds by source address (ldap/hardening.ts).  Time is counted in *)
(* units of BIND_BACKOFF_BASE_MS; an entry of bindFailures is there as     *)
(* long as failures is not 0.                                              *)
(***************************************************************************)
EXTENDS Naturals

CONSTANTS
  Addresses,                     \* clientAddress, "unknown" among them
  BIND_FAILURES_BEFORE_BACKOFF,
  BIND_BACKOFF_MAX,              \* in units of the base
  FailureBound                   \* failures are not counted beyond it

ASSUME BackoffAssumption ==
  /\ BIND_FAILURES_BEFORE_BACKOFF \in Nat \ {0}
  /\ BIND_BACKOFF_MAX \in Nat \ {0}
  /\ FailureBound \in Nat /\ FailureBound >= BIND_FAILURES_BEFORE_BACKOFF

VARIABLES
  failures,      \* [Addresses -> failed binds since the last good one]
  blockedFor     \* [Addresses -> what is left of the back-off]

backoffVars == <<failures, blockedFor>>

BackoffInit ==
  /\ failures = [a \in Addresses |-> 0]
  /\ blockedFor = [a \in Addresses |-> 0]

(* Mistaken by one: the last unit of a back-off is not waited for.         *)
isBindBlockedShort(a) == blockedFor[a] > 1

isBindBlocked(a) == blockedFor[a] > 0

powerOfTwo[n \in 0..FailureBound] == IF n = 0 THEN 1 ELSE 2 * powerOfTwo[n - 1]

backoff(n) ==
  LET grown == powerOfTwo[n - BIND_FAILURES_BEFORE_BACKOFF]
  IN IF grown < BIND_BACKOFF_MAX THEN grown ELSE BIND_BACKOFF_MAX

(* Mistaken by one: the back-off starts a failure late.                    *)
recordBindFailureLate(a) ==
  LET n == IF failures[a] < FailureBound THEN failures[a] + 1 ELSE FailureBound
  IN /\ failures' = [failures EXCEPT ![a] = n]
     /\ blockedFor' = [blockedFor EXCEPT
          ![a] = IF n > BIND_FAILURES_BEFORE_BACKOFF THEN backoff(n) ELSE @]

recordBindFailure(a) ==
  LET n == IF failures[a] < FailureBound THEN failures[a] + 1 ELSE FailureBound
  IN /\ failures' = [failures EXCEPT ![a] = n]
     /\ blockedFor' = [blockedFor EXCEPT
          ![a] = IF n >= BIND_FAILURES_BEFORE_BACKOFF THEN backoff(n) ELSE @]

recordBindSuccess(a) ==
  /\ failures' = [failures EXCEPT ![a] = 0]
  /\ blockedFor' = [blockedFor EXCEPT ![a] = 0]

(* One base unit of time passes.                                           *)
BackoffPasses ==
  /\ \E a \in Addresses : blockedFor[a] > 0
  /\ blockedFor' = [a \in Addresses |-> IF blockedFor[a] > 0 THEN blockedFor[a] - 1 ELSE 0]
  /\ UNCHANGED failures

(***************************************************************************)
(* The interval of startFailureCleanup: it drops every entry that is not   *)
(* blocked at that moment, the ones still counting up included.            *)
(***************************************************************************)
FailureCleanup ==
  /\ \E a \in Addresses : failures[a] > 0
  /\ failures' = [a \in Addresses |-> IF blockedFor[a] > 0 THEN failures[a] ELSE 0]
  /\ UNCHANGED blockedFor

-----------------------------------------------------------------------------
BackoffTypeOK ==
  /\ failures \in [Addresses -> 0..FailureBound]
  /\ blockedFor \in [Addresses -> 0..BIND_BACKOFF_MAX]
=============================================================================
