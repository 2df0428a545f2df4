----------------------------- MODULE TotpLogin -----------------------------
(***************************************************************************)
(* POST /interaction/totp of one user, as several browsers, tabs or        *)
(* retries send it at the same time: the lockout, the replay check and the *)
(* row updates of server/db/totp.ts, read and written inside the database  *)
(* transaction which every writing request opens.                          *)
(*                                                                         *)
(* On SQLite the pool has one connection, so a second transaction begins   *)
(* only when the first has ended (SERIALIZED).  On Postgres transactions   *)
(* run side by side under READ COMMITTED: a read sees what is committed,   *)
(* an update waits for the row lock of another open transaction and then   *)
(* overwrites.  A transaction commits after its response was sent.         *)
(*                                                                         *)
(* Time is counted in periods of a code (30 s).  A code is known by its    *)
(* authenticator and its timestep.  The guards of the route are those of   *)
(* LoginFlow.                                                              *)
(***************************************************************************)
EXTENDS Integers, FiniteSets, Sequences

CONSTANTS
  Requests,                     \* each of them sent once
  Authenticators,               \* each of them enrolled once
  WrongToken,                   \* a code of none of them
  NoTimestep,                   \* the null of lastUsedTimestep
  SERIALIZED,                   \* SQLite rather than Postgres
  TOTP_MAX_FAILED_ATTEMPTS,
  TOTP_FAILED_ATTEMPT_WINDOW,
  TOTP_LOCKOUT,
  TTL_FAILED_ATTEMPT,           \* TTLs.TOTP_FAILED_ATTEMPT
  TTL_VERIFICATION,             \* TTLs.TOTP_VERIFICATION
  MaxTime                       \* bound on the clock

ASSUME TotpLoginAssumption ==
  /\ SERIALIZED \in BOOLEAN
  /\ NoTimestep \notin Int
  /\ TOTP_MAX_FAILED_ATTEMPTS \in Nat \ {0}
  /\ {TOTP_FAILED_ATTEMPT_WINDOW, TOTP_LOCKOUT, TTL_FAILED_ATTEMPT,
      TTL_VERIFICATION, MaxTime} \subseteq Nat

(* A lockout lasts as long as the window, at least, and an attempt is kept *)
(* while getTotpLockoutUntil looks back on it.                             *)
ASSUME LimitsAssumption ==
  /\ TOTP_FAILED_ATTEMPT_WINDOW <= TOTP_LOCKOUT
  /\ TOTP_LOCKOUT + TOTP_FAILED_ATTEMPT_WINDOW <= TTL_FAILED_ATTEMPT

VARIABLES
  clock,
  totp,         \* the table totp, a row per authenticator, once committed
  attempts,     \* the table totp_failed_attempt: <<request, createdAt>>
  request,      \* the requests, with what their transactions have read
  log           \* history: the logins committed, as in OneTimeCodes

vars == <<clock, totp, attempts, request, log>>

Times == 0..MaxTime
Timesteps == -1..(MaxTime + 1)
Tokens == [of : Authenticators, timestep : Timesteps]

(* A pending row has an expiresAt; "gone" rows were deleted.               *)
TotpRow ==
  [state : {"none", "pending", "confirmed", "gone"}, expiresAt : Nat,
   lastUsedTimestep : Timesteps \cup {NoTimestep}]

(* How far a request has come.  An accepted or a rejected one has written  *)
(* and answered; what it wrote is seen once it is done.                    *)
Phases == {"unsent", "begun", "unlocked", "matched", "accepted", "failed",
           "rejected", "done"}

Request ==
  [at : Phases,
   token : Tokens \cup {WrongToken},
   pending : BOOLEAN,           \* the row it matched was still pending
   createdAt : Times]           \* of the failure it records

NewRequest ==
  [at |-> "unsent", token |-> WrongToken, pending |-> FALSE, createdAt |-> 0]

Init ==
  /\ clock = 0
  /\ totp = [a \in Authenticators |->
               [state |-> "none", expiresAt |-> 0, lastUsedTimestep |-> NoTimestep]]
  /\ attempts = {}
  /\ request = [r \in Requests |-> NewRequest]
  /\ log = <<>>

-----------------------------------------------------------------------------
open(r) == request[r].at \notin {"unsent", "done"}

(* A statement or transaction of someone else gets the connection.         *)
connectionFree == SERIALIZED => \A r \in Requests : ~open(r)

(* The row of authenticator a is not locked by a transaction which wrote it. *)
rowFree(a) ==
  \A r \in Requests : request[r].at = "accepted" => request[r].token.of # a

(* Mistaken: only the window is looked back on, not the lockout before it. *)
attemptsInWindow ==
  {x \in attempts : /\ x[2] > clock - TOTP_FAILED_ATTEMPT_WINDOW
                    /\ x[2] + TTL_FAILED_ATTEMPT > clock}

(***************************************************************************)
(* getTotpLockoutUntil: of the attempts it looks back on, the newest that  *)
(* is the last of MAX_FAILED_ATTEMPTS within the window starts a lockout.  *)
(* It is the latest to end, so some lockout lasts iff that one does.       *)
(***************************************************************************)
recentAttempts ==
  {x \in attempts : /\ x[2] > clock - (TOTP_LOCKOUT + TOTP_FAILED_ATTEMPT_WINDOW)
                    /\ x[2] + TTL_FAILED_ATTEMPT > clock}

endsBurst(x, among) ==
  Cardinality({y \in among : y[2] \in (x[2] - TOTP_FAILED_ATTEMPT_WINDOW)..x[2]})
    >= TOTP_MAX_FAILED_ATTEMPTS

lockedOut ==
  \E x \in recentAttempts :
    endsBurst(x, recentAttempts) /\ x[2] + TOTP_LOCKOUT > clock

(***************************************************************************)
(* getUserTOTPs and the loop of validateTOTP: the code is one of a window  *)
(* around now, of a row in force, and newer than the last one used.        *)
(***************************************************************************)
inForce(a) ==
  \/ totp[a].state = "confirmed"
  \/ totp[a].state = "pending" /\ totp[a].expiresAt > clock

current(token) ==
  /\ token # WrongToken
  /\ inForce(token.of)
  /\ token.timestep \in (clock - 1)..(clock + 1)

(* Mistaken by one: the last code used is as good as a newer one.          *)
notOlder(token) ==
  \/ totp[token.of].lastUsedTimestep = NoTimestep
  \/ token.timestep >= totp[token.of].lastUsedTimestep

notReplayed(token) ==
  \/ totp[token.of].lastUsedTimestep = NoTimestep
  \/ token.timestep > totp[token.of].lastUsedTimestep

-----------------------------------------------------------------------------
Begin(r, token) ==
  /\ request[r].at = "unsent"
  /\ connectionFree
  /\ request' = [request EXCEPT ![r].at = "begun", ![r].token = token]
  /\ UNCHANGED <<clock, totp, attempts, log>>

(* Locked out: 423, and nothing to commit.                                 *)
CheckLockout(r) ==
  /\ request[r].at = "begun"
  /\ request' = [request EXCEPT ![r].at = IF lockedOut THEN "done" ELSE "unlocked"]
  /\ UNCHANGED <<clock, totp, attempts, log>>

MatchToken(r) ==
  /\ request[r].at = "unlocked"
  /\ LET token == request[r].token
     IN request' = IF current(token) /\ notReplayed(token)
                   THEN [request EXCEPT ![r].at = "matched",
                           ![r].pending = totp[token.of].state = "pending"]
                   ELSE [request EXCEPT ![r].at = "failed"]
  /\ UNCHANGED <<clock, totp, attempts, log>>

(* The update of the row, which waits for the row.                         *)
MarkUsed(r) ==
  /\ request[r].at = "matched"
  /\ rowFree(request[r].token.of)
  /\ request' = [request EXCEPT ![r].at = "accepted"]
  /\ UNCHANGED <<clock, totp, attempts, log>>

(* recordTotpFailure.                                                      *)
RecordFailure(r) ==
  /\ request[r].at = "failed"
  /\ request' = [request EXCEPT ![r].at = "rejected", ![r].createdAt = clock]
  /\ UNCHANGED <<clock, totp, attempts, log>>

(* Mistaken: the delta is added to a timestep that includes it.            *)
usedRowDeltaTwice(row, token, pending) ==
  IF row.state \in {"none", "gone"} THEN row
  ELSE [row EXCEPT !.state = "confirmed",
                   !.lastUsedTimestep = token.timestep + (token.timestep - clock)]

(* Mistaken: confirming an authenticator consumes the code.                *)
usedRowByConfirmation(row, token, pending) ==
  IF row.state \in {"none", "gone"} THEN row
  ELSE [row EXCEPT !.state = "confirmed", !.lastUsedTimestep = token.timestep]

(***************************************************************************)
(* What the update leaves in the row; it does nothing to a deleted row.    *)
(* Confirming a pending authenticator does not consume the code.           *)
(***************************************************************************)
usedRow(row, token, pending) ==
  IF row.state \in {"none", "gone"} THEN row
  ELSE [row EXCEPT !.state = "confirmed",
                   !.lastUsedTimestep = IF pending THEN NoTimestep ELSE token.timestep]

CommitAccepted(r) ==
  LET token == request[r].token
      pending == request[r].pending
  IN /\ request[r].at = "accepted"
     /\ totp' = [totp EXCEPT ![token.of] = usedRow(@, token, pending)]
     /\ log' = IF pending THEN log ELSE Append(log, <<token.of, token.timestep>>)
     /\ request' = [request EXCEPT ![r].at = "done"]
     /\ UNCHANGED <<clock, attempts>>

CommitRejected(r) ==
  /\ request[r].at = "rejected"
  /\ attempts' = attempts \cup {<<r, request[r].createdAt>>}
  /\ request' = [request EXCEPT ![r].at = "done"]
  /\ UNCHANGED <<clock, totp, log>>

(* A database error answers 500, and the transaction is rolled back.       *)
Rollback(r) ==
  /\ request[r].at \in {"begun", "unlocked", "matched", "failed"}
  /\ request' = [request EXCEPT ![r].at = "done"]
  /\ UNCHANGED <<clock, totp, attempts, log>>

-----------------------------------------------------------------------------
(* createTOTP: POST /interaction/totp/registration.                        *)
Enroll(a) ==
  /\ connectionFree
  /\ totp[a].state = "none"
  /\ totp' = [totp EXCEPT ![a].state = "pending",
                          ![a].expiresAt = clock + TTL_VERIFICATION]
  /\ UNCHANGED <<clock, attempts, request, log>>

(* DELETE /user/totp deletes all of them.                                  *)
DeleteTotps ==
  /\ connectionFree
  /\ \A a \in Authenticators : rowFree(a)
  /\ \E a \in Authenticators : totp[a].state = "confirmed"
  /\ totp' = [a \in Authenticators |->
               IF totp[a].state = "none" THEN totp[a]
               ELSE [totp[a] EXCEPT !.state = "gone"]]
  /\ UNCHANGED <<clock, attempts, request, log>>

(* clearAllExpiredEntries; the attempts it deletes are read by nobody.     *)
ClearExpired(a) ==
  /\ connectionFree
  /\ rowFree(a)
  /\ totp[a].state = "pending" /\ totp[a].expiresAt < clock
  /\ totp' = [totp EXCEPT ![a].state = "gone"]
  /\ UNCHANGED <<clock, attempts, request, log>>

Tick ==
  /\ clock < MaxTime
  /\ clock' = clock + 1
  /\ UNCHANGED <<totp, attempts, request, log>>

(* A user types what an authenticator shows, perhaps with a skewed clock.  *)
Typed ==
  {WrongToken} \cup {token \in Tokens : token.timestep \in (clock - 1)..(clock + 1)}

Next ==
  \/ \E r \in Requests, token \in Typed : Begin(r, token)
  \/ \E r \in Requests : CheckLockout(r)
  \/ \E r \in Requests : MatchToken(r)
  \/ \E r \in Requests : MarkUsed(r)
  \/ \E r \in Requests : RecordFailure(r)
  \/ \E r \in Requests : CommitAccepted(r)
  \/ \E r \in Requests : CommitRejected(r)
  \/ \E r \in Requests : Rollback(r)
  \/ \E a \in Authenticators : Enroll(a)
  \/ DeleteTotps
  \/ \E a \in Authenticators : ClearExpired(a)
  \/ Tick

Spec == Init /\ [][Next]_vars

-----------------------------------------------------------------------------
TypeOK ==
  /\ clock \in Times
  /\ totp \in [Authenticators -> TotpRow]
  /\ attempts \subseteq Requests \X Times
  /\ request \in [Requests -> Request]
  /\ log \in Seq(Authenticators \X Timesteps)

(***************************************************************************)
(* "A valid code must never be replayable within or across its validity    *)
(* window": the logins committed are those of a verifier of one-time codes. *)
(***************************************************************************)
Codes == INSTANCE OneTimeCodes

NeverReplayed == Codes!Spec

(***************************************************************************)
(* Guessing is slowed down: in any window at most MAX_FAILED_ATTEMPTS      *)
(* failures are recorded, and none while the lockout that the last of      *)
(* them starts lasts, although getTotpLockoutUntil looks back on the table *)
(* only so far and forgets older attempts.                                 *)
(***************************************************************************)
LockoutHolds ==
  \A x \in attempts :
    /\ Cardinality({y \in attempts :
                     y[2] \in x[2]..(x[2] + TOTP_FAILED_ATTEMPT_WINDOW - 1)})
         <= TOTP_MAX_FAILED_ATTEMPTS
    /\ endsBurst(x, attempts) =>
         ~\E y \in attempts : x[2] < y[2] /\ y[2] < x[2] + TOTP_LOCKOUT

(***************************************************************************)
(* The converse: a current code is rejected only if the user has logged in *)
(* with it, or with a newer one; confirming an authenticator uses up none. *)
(***************************************************************************)
FreshCodeAccepted ==
  [][\A r \in Requests :
       LET token == request[r].token
       IN request[r].at = "unlocked" /\ request'[r].at = "failed" /\ current(token) =>
            \E i \in DOMAIN log : log[i][1] = token.of /\ log[i][2] >= token.timestep]_vars
=============================================================================
