-------------------------- MODULE TotpLoginProofs --------------------------
(* For any number of requests and authenticators: on either database fresh *)
(* codes are accepted; with serialized transactions TotpLogin implements   *)
(* OneTimeCodes, and lockouts hold.                                        *)
EXTENDS TotpLogin, FiniteSetTheorems, WellFoundedInduction, TLAPS

-----------------------------------------------------------------------------
(***************************************************************************)
(* The inductive invariant.  One transaction is open at a time, so what it *)
(* has read still holds; and the row of an authenticator remembers the     *)
(* newest code that has logged in.                                         *)
(***************************************************************************)
OneOpen == \A r1, r2 \in Requests : open(r1) /\ open(r2) => r1 = r2

MatchHolds ==
  \A r \in Requests :
    request[r].at \in {"matched", "accepted"} =>
      LET token == request[r].token
      IN /\ token \in Tokens
         /\ totp[token.of].state = IF request[r].pending THEN "pending" ELSE "confirmed"
         /\ notReplayed(token)

LogRemembered ==
  \A i \in DOMAIN log :
    LET row == totp[log[i][1]]
    IN /\ row.state \in {"confirmed", "gone"}
       /\ row.lastUsedTimestep \in Int
       /\ log[i][2] <= row.lastUsedTimestep

IInv == TypeOK /\ OneOpen /\ MatchHolds /\ LogRemembered

(***************************************************************************)
(* What holds on either database, however transactions interleave: only a  *)
(* code of an authenticator is accepted, and the last code a row has seen  *)
(* has logged in.                                                          *)
(***************************************************************************)
CodesMatched ==
  \A r \in Requests :
    request[r].at \in {"matched", "accepted"} => request[r].token \in Tokens

UsedAreLogged ==
  \A a \in Authenticators :
    totp[a].lastUsedTimestep # NoTimestep =>
      \E i \in DOMAIN log : log[i] = <<a, totp[a].lastUsedTimestep>>

RowsInv == TypeOK /\ CodesMatched /\ UsedAreLogged

-----------------------------------------------------------------------------
(* Types.                                                                  *)

LEMMA RequestStepType ==
  ASSUME TypeOK, NEW r \in Requests, NEW q \in Request,
         request' = [request EXCEPT ![r] = q],
         UNCHANGED <<clock, totp, attempts, log>>
  PROVE  TypeOK'
BY DEF TypeOK

LEMMA PhaseType ==
  ASSUME TypeOK, NEW r \in Requests, NEW phase \in Phases
  PROVE  [request[r] EXCEPT !.at = phase] \in Request
BY DEF TypeOK, Request

LEMMA RequestActionsType ==
  ASSUME TypeOK, NEW r \in Requests
  PROVE  /\ \A token \in Typed : Begin(r, token) => TypeOK'
         /\ CheckLockout(r) => TypeOK'
         /\ MatchToken(r) => TypeOK'
         /\ MarkUsed(r) => TypeOK'
         /\ RecordFailure(r) => TypeOK'
         /\ Rollback(r) => TypeOK'
<1>1. ASSUME NEW token \in Typed, Begin(r, token)
      PROVE  TypeOK'
  <2>1. [request[r] EXCEPT !.at = "begun", !.token = token] \in Request
    BY DEF TypeOK, Request, Typed, Phases
  <2>2. request' = [request EXCEPT ![r] = [request[r] EXCEPT !.at = "begun", !.token = token]]
    BY <1>1 DEF Begin
  <2>3. QED BY <1>1, <2>1, <2>2, RequestStepType DEF Begin
<1>2. ASSUME CheckLockout(r)
      PROVE  TypeOK'
  <2>1. PICK phase \in Phases : request' = [request EXCEPT ![r] = [request[r] EXCEPT !.at = phase]]
    BY <1>2 DEF CheckLockout, Phases
  <2>2. QED BY <1>2, <2>1, PhaseType, RequestStepType DEF CheckLockout
<1>3. ASSUME MatchToken(r)
      PROVE  TypeOK'
  <2>1. PICK q \in Request : request' = [request EXCEPT ![r] = q]
    <3>1. \A pending \in BOOLEAN :
            [request[r] EXCEPT !.at = "matched", !.pending = pending] \in Request
      BY DEF TypeOK, Request, Phases
    <3>2. [request[r] EXCEPT !.at = "failed"] \in Request
      BY PhaseType DEF Phases
    <3>3. \/ \E pending \in BOOLEAN :
               request' = [request EXCEPT ![r] =
                             [request[r] EXCEPT !.at = "matched", !.pending = pending]]
          \/ request' = [request EXCEPT ![r] = [request[r] EXCEPT !.at = "failed"]]
      BY <1>3 DEF MatchToken
    <3>4. QED BY <3>1, <3>2, <3>3
  <2>2. QED BY <1>3, <2>1, RequestStepType DEF MatchToken
<1>4. ASSUME MarkUsed(r) \/ Rollback(r)
      PROVE  TypeOK'
  <2>1. PICK phase \in Phases : request' = [request EXCEPT ![r] = [request[r] EXCEPT !.at = phase]]
    BY <1>4 DEF MarkUsed, Rollback, Phases
  <2>2. QED BY <1>4, <2>1, PhaseType, RequestStepType DEF MarkUsed, Rollback
<1>5. ASSUME RecordFailure(r)
      PROVE  TypeOK'
  <2>1. [request[r] EXCEPT !.at = "rejected", !.createdAt = clock] \in Request
    BY DEF TypeOK, Request, Phases
  <2>2. request' = [request EXCEPT ![r] =
                      [request[r] EXCEPT !.at = "rejected", !.createdAt = clock]]
    BY <1>5 DEF RecordFailure
  <2>3. QED BY <1>5, <2>1, <2>2, RequestStepType DEF RecordFailure
<1>6. QED BY <1>1, <1>2, <1>3, <1>4, <1>5

LEMMA CommitAcceptedType ==
  ASSUME TypeOK, CodesMatched, NEW r \in Requests, CommitAccepted(r)
  PROVE  TypeOK'
<1> DEFINE token == request[r].token
           row == usedRow(totp[token.of], token, request[r].pending)
<1>1. token \in Tokens /\ request[r].pending \in BOOLEAN
  BY DEF CommitAccepted, CodesMatched, TypeOK, Request
<1>2. totp[token.of] \in TotpRow
  BY <1>1 DEF Tokens, TypeOK
<1>3. row \in TotpRow
  BY <1>1, <1>2 DEF usedRow, TotpRow, Tokens
<1>4. totp' = [totp EXCEPT ![token.of] = row]
  BY DEF CommitAccepted
<1>5. totp' \in [Authenticators -> TotpRow]
  <2> HIDE DEF row
  <2> QED BY <1>3, <1>4 DEF TypeOK
<1>6. log' \in Seq(Authenticators \X Timesteps)
  <2>1. <<token.of, token.timestep>> \in Authenticators \X Timesteps
    BY <1>1 DEF Tokens
  <2>2. \/ log' = log
        \/ log' = Append(log, <<token.of, token.timestep>>)
    BY DEF CommitAccepted
  <2> HIDE DEF token
  <2>3. QED BY <2>1, <2>2 DEF TypeOK
<1>7. request' \in [Requests -> Request]
  <2>1. request' = [request EXCEPT ![r] = [request[r] EXCEPT !.at = "done"]]
    BY DEF CommitAccepted
  <2>2. QED BY <2>1, PhaseType DEF Phases, TypeOK
<1>8. QED BY <1>5, <1>6, <1>7 DEF TypeOK, CommitAccepted

LEMMA OtherActionsType ==
  ASSUME TypeOK, CodesMatched, [Next]_vars
  PROVE  TypeOK'
<1>1. ASSUME NEW r \in Requests, CommitRejected(r)
      PROVE  TypeOK'
  <2>1. attempts' \subseteq Requests \X Times
    <3>1. request[r].createdAt \in Times
      BY DEF TypeOK, Request
    <3>2. QED BY <1>1, <3>1 DEF CommitRejected, TypeOK
  <2>2. request' \in [Requests -> Request]
    <3>1. request' = [request EXCEPT ![r] = [request[r] EXCEPT !.at = "done"]]
      BY <1>1 DEF CommitRejected
    <3>2. QED BY <3>1, PhaseType DEF Phases, TypeOK
  <2>3. QED BY <1>1, <2>1, <2>2 DEF CommitRejected, TypeOK
<1>2. ASSUME NEW a \in Authenticators, Enroll(a)
      PROVE  TypeOK'
  <2>1. clock + TTL_VERIFICATION \in Nat
    BY TotpLoginAssumption DEF TypeOK, Times
  <2>2. totp' \in [Authenticators -> TotpRow]
    BY <1>2, <2>1 DEF Enroll, TypeOK, TotpRow
  <2>3. QED BY <1>2, <2>2 DEF Enroll, TypeOK
<1>3. ASSUME DeleteTotps
      PROVE  TypeOK'
  <2>1. totp' \in [Authenticators -> TotpRow]
    BY <1>3 DEF DeleteTotps, TypeOK, TotpRow
  <2>2. QED BY <1>3, <2>1 DEF DeleteTotps, TypeOK
<1>4. ASSUME NEW a \in Authenticators, ClearExpired(a)
      PROVE  TypeOK'
  <2>1. totp' \in [Authenticators -> TotpRow]
    BY <1>4 DEF ClearExpired, TypeOK, TotpRow
  <2>2. QED BY <1>4, <2>1 DEF ClearExpired, TypeOK
<1>5. ASSUME Tick
      PROVE  TypeOK'
  BY <1>5, TotpLoginAssumption DEF Tick, TypeOK, Times
<1>6. CASE UNCHANGED vars
  BY <1>6 DEF vars, TypeOK
<1>7. QED
  BY <1>1, <1>2, <1>3, <1>4, <1>5, <1>6, RequestActionsType, CommitAcceptedType DEF Next

-----------------------------------------------------------------------------
(* What a step leaves of the other requests.                               *)

LEMMA OthersKept ==
  ASSUME TypeOK, NEW r \in Requests, NEW q, request' = [request EXCEPT ![r] = q]
  PROVE  /\ request'[r] = q
         /\ \A o \in Requests \ {r} : request'[o] = request[o]
BY DEF TypeOK

(* A request in progress goes on, and nobody else has begun.               *)
LEMMA OneOpenStep ==
  ASSUME TypeOK, OneOpen, SERIALIZED, [Next]_vars
  PROVE  OneOpen'
<1>1. ASSUME NEW r \in Requests, NEW q, request' = [request EXCEPT ![r] = q], open(r)
      PROVE  OneOpen'
  <2>1. \A o \in Requests : open(o)' => open(o)
    BY <1>1, OthersKept DEF open
  <2>2. QED BY <2>1 DEF OneOpen
<1>2. ASSUME NEW r \in Requests, NEW token \in Typed, Begin(r, token)
      PROVE  OneOpen'
  <2>1. \A o \in Requests \ {r} : request'[o] = request[o]
    <3>1. request' = [request EXCEPT ![r] = [request[r] EXCEPT !.at = "begun",
                                                               !.token = token]]
      BY <1>2 DEF Begin
    <3>2. QED BY <3>1, OthersKept
  <2>2. \A o \in Requests : ~open(o)
    BY <1>2 DEF Begin, connectionFree
  <2>3. \A o \in Requests \ {r} : ~open(o)'
    BY <2>1, <2>2 DEF open
  <2>4. QED BY <2>3 DEF OneOpen
<1>3. ASSUME NEW r \in Requests,
             CheckLockout(r) \/ MarkUsed(r) \/ RecordFailure(r) \/ CommitAccepted(r)
               \/ CommitRejected(r) \/ Rollback(r)
      PROVE  OneOpen'
  <2>1. open(r)
    BY <1>3 DEF open, CheckLockout, MarkUsed, RecordFailure, CommitAccepted,
                CommitRejected, Rollback
  <2>2. \E q : request' = [request EXCEPT ![r] = q]
    BY <1>3 DEF CheckLockout, MarkUsed, RecordFailure, CommitAccepted,
                CommitRejected, Rollback
  <2>3. QED BY <1>1, <2>1, <2>2
<1>4. ASSUME NEW r \in Requests, MatchToken(r)
      PROVE  OneOpen'
  <2>1. \E q : request' = [request EXCEPT ![r] = q]
    BY <1>4 DEF MatchToken
  <2>2. QED BY <1>1, <1>4, <2>1 DEF MatchToken, open
<1>5. CASE request' = request
  BY <1>5 DEF OneOpen, open
<1>6. QED
  BY <1>2, <1>3, <1>4, <1>5 DEF Next, Enroll, DeleteTotps, ClearExpired, Tick, vars

-----------------------------------------------------------------------------
(* What a request has matched still holds when it commits.                 *)

LEMMA MatchHoldsStep ==
  ASSUME IInv, SERIALIZED, [Next]_vars
  PROVE  MatchHolds'
<1> USE DEF IInv
<1>1. ASSUME NEW r \in Requests, NEW q, request' = [request EXCEPT ![r] = q],
             UNCHANGED totp,
             q.at \in {"matched", "accepted"} =>
               /\ q.token \in Tokens
               /\ totp[q.token.of].state = IF q.pending THEN "pending" ELSE "confirmed"
               /\ notReplayed(q.token)
      PROVE  MatchHolds'
  BY <1>1, OthersKept DEF MatchHolds, notReplayed
<1>2. ASSUME NEW r \in Requests, NEW token \in Typed, Begin(r, token)
      PROVE  MatchHolds'
  <2>1. [request[r] EXCEPT !.at = "begun", !.token = token].at = "begun"
    BY DEF TypeOK, Request
  <2>2. QED BY <1>1, <1>2, <2>1 DEF Begin
<1>3. ASSUME NEW r \in Requests,
             CheckLockout(r) \/ RecordFailure(r) \/ CommitRejected(r) \/ Rollback(r)
      PROVE  MatchHolds'
  <2>1. \E q : /\ request' = [request EXCEPT ![r] = q]
               /\ q.at \notin {"matched", "accepted"}
    BY <1>3 DEF CheckLockout, RecordFailure, CommitRejected, Rollback, TypeOK, Request
  <2>2. QED BY <1>1, <1>3, <2>1 DEF CheckLockout, RecordFailure, CommitRejected, Rollback
<1>4. ASSUME NEW r \in Requests, MatchToken(r)
      PROVE  MatchHolds'
  <2> DEFINE token == request[r].token
  <2>1. CASE current(token) /\ notReplayed(token)
    <3> DEFINE q == [request[r] EXCEPT !.at = "matched",
                                       !.pending = totp[token.of].state = "pending"]
    <3>1. request' = [request EXCEPT ![r] = q]
      BY <1>4, <2>1 DEF MatchToken
    <3>2. token \in Tokens
      BY <2>1 DEF current, TypeOK, Request
    <3>3. q.token = token
      BY DEF TypeOK, Request
    <3>4. totp[token.of].state = IF q.pending THEN "pending" ELSE "confirmed"
      <4>1. q.pending = (totp[token.of].state = "pending")
        BY DEF TypeOK, Request
      <4>2. totp[token.of].state \in {"pending", "confirmed"}
        BY <2>1 DEF current, inForce
      <4>3. CASE totp[token.of].state = "pending"
        BY <4>1, <4>3
      <4>4. CASE totp[token.of].state # "pending"
        BY <4>1, <4>2, <4>4
      <4>5. QED BY <4>3, <4>4
    <3>5. QED
      <4>1. UNCHANGED totp
        BY <1>4 DEF MatchToken
      <4>2. notReplayed(q.token)
        BY <2>1, <3>3
      <4> HIDE DEF q
      <4>3. QED BY <1>1, <3>1, <3>2, <3>3, <3>4, <4>1, <4>2
  <2>2. CASE ~(current(token) /\ notReplayed(token))
    <3>1. request' = [request EXCEPT ![r] = [request[r] EXCEPT !.at = "failed"]]
      BY <1>4, <2>2 DEF MatchToken
    <3>2. [request[r] EXCEPT !.at = "failed"].at = "failed"
      BY DEF TypeOK, Request
    <3>3. QED BY <1>1, <1>4, <3>1, <3>2 DEF MatchToken
  <2>3. QED BY <2>1, <2>2
<1>5. ASSUME NEW r \in Requests, MarkUsed(r)
      PROVE  MatchHolds'
  <2> DEFINE q == [request[r] EXCEPT !.at = "accepted"]
  <2>1. request' = [request EXCEPT ![r] = q] /\ UNCHANGED totp
    BY <1>5 DEF MarkUsed
  <2>2. q.token = request[r].token /\ q.pending = request[r].pending
    BY DEF TypeOK, Request
  <2>3. request[r].at = "matched"
    BY <1>5 DEF MarkUsed
  <2>4. QED
    <3> HIDE DEF q
    <3> QED BY <1>1, <2>1, <2>2, <2>3 DEF MatchHolds
<1>6. ASSUME NEW r \in Requests, CommitAccepted(r)
      PROVE  MatchHolds'
  <2>1. \A o \in Requests \ {r} : ~open(o)
    BY <1>6 DEF CommitAccepted, OneOpen, open
  <2>2. \A o \in Requests : request'[o].at \notin {"matched", "accepted"}
    <3>1. request' = [request EXCEPT ![r] = [request[r] EXCEPT !.at = "done"]]
      BY <1>6 DEF CommitAccepted
    <3>2. [request[r] EXCEPT !.at = "done"].at = "done"
      BY DEF TypeOK, Request
    <3>3. QED BY <2>1, <3>1, <3>2, OthersKept DEF open
  <2>3. QED BY <2>2 DEF MatchHolds
<1>7. ASSUME connectionFree, UNCHANGED request
      PROVE  MatchHolds'
  BY <1>7 DEF connectionFree, open, MatchHolds
<1>8. ASSUME Tick \/ UNCHANGED vars
      PROVE  MatchHolds'
  BY <1>8 DEF Tick, vars, MatchHolds, notReplayed
<1>9. QED
  BY <1>2, <1>3, <1>4, <1>5, <1>6, <1>7, <1>8
  DEF Next, Enroll, DeleteTotps, ClearExpired

-----------------------------------------------------------------------------
(* A login is a step of the verifier of one-time codes.                    *)

(* The code that commits is newer than those which logged in before it.    *)
LEMMA CommitIsNewer ==
  ASSUME IInv, NEW r \in Requests, CommitAccepted(r)
  PROVE  LET token == request[r].token
         IN \A i \in DOMAIN log :
              log[i][1] = token.of => ~request[r].pending /\ log[i][2] < token.timestep
<1> DEFINE token == request[r].token
<1> SUFFICES ASSUME NEW i \in DOMAIN log, log[i][1] = token.of
             PROVE  ~request[r].pending /\ log[i][2] < token.timestep
  OBVIOUS
<1>1. /\ token \in Tokens
      /\ totp[token.of].state = IF request[r].pending THEN "pending" ELSE "confirmed"
      /\ notReplayed(token)
  BY DEF IInv, MatchHolds, CommitAccepted
<1>2. /\ totp[token.of].state \in {"confirmed", "gone"}
      /\ totp[token.of].lastUsedTimestep \in Int
      /\ log[i][2] <= totp[token.of].lastUsedTimestep
  BY DEF IInv, LogRemembered
<1>3. ~request[r].pending
  BY <1>1, <1>2
<1>4. log[i][2] \in Int /\ token.timestep \in Int
  <2>1. log[i] \in Authenticators \X Timesteps
    BY DEF IInv, TypeOK
  <2>2. QED BY <1>1, <2>1 DEF Tokens, Timesteps, Times
<1>5. token.timestep > totp[token.of].lastUsedTimestep
  BY <1>1, <1>2, TotpLoginAssumption DEF notReplayed
<1>6. QED BY <1>2, <1>3, <1>4, <1>5

(* A row remembers the newest code that has logged in, whatever becomes of it. *)
LEMMA LogRememberedStep ==
  ASSUME IInv, [Next]_vars
  PROVE  LogRemembered'
<1> USE DEF IInv
<1>1. ASSUME NEW r \in Requests, CommitAccepted(r)
      PROVE  LogRemembered'
  <2> DEFINE token == request[r].token
             row == usedRow(totp[token.of], token, request[r].pending)
  <2>1. /\ token \in Tokens
        /\ totp[token.of].state = IF request[r].pending THEN "pending" ELSE "confirmed"
    BY <1>1 DEF MatchHolds, CommitAccepted
  <2>2. token.of \in Authenticators /\ token.timestep \in Int
    BY <2>1 DEF Tokens, Timesteps, Times
  <2>3. totp' = [totp EXCEPT ![token.of] = row]
    BY <1>1 DEF CommitAccepted
  <2>4. ~request[r].pending => /\ row.state = "confirmed"
                               /\ row.lastUsedTimestep = token.timestep
    BY <2>1, <2>2 DEF usedRow, TypeOK, TotpRow
  <2>5. \A a \in Authenticators : totp'[a] = IF a = token.of THEN row ELSE totp[a]
    <3> HIDE DEF row
    <3> QED BY <2>3 DEF TypeOK
  <2>6. \A i \in DOMAIN log :
          /\ log[i] \in Authenticators \X Timesteps
          /\ log[i][1] \in Authenticators /\ log[i][2] \in Int
    BY DEF TypeOK, Timesteps, Times
  <2>7. \A i \in DOMAIN log :
          LET now == totp'[log[i][1]]
          IN /\ now.state \in {"confirmed", "gone"}
             /\ now.lastUsedTimestep \in Int
             /\ log[i][2] <= now.lastUsedTimestep
    <3> SUFFICES ASSUME NEW i \in DOMAIN log
                 PROVE  LET now == totp'[log[i][1]]
                        IN /\ now.state \in {"confirmed", "gone"}
                           /\ now.lastUsedTimestep \in Int
                           /\ log[i][2] <= now.lastUsedTimestep
      OBVIOUS
    <3>1. CASE log[i][1] = token.of
      <4>1. ~request[r].pending /\ log[i][2] < token.timestep
        BY <1>1, <3>1, CommitIsNewer
      <4> HIDE DEF row, token
      <4>2. QED BY <2>2, <2>4, <2>5, <2>6, <3>1, <4>1
    <3>2. CASE log[i][1] # token.of
      <4> HIDE DEF row, token
      <4> QED BY <2>5, <2>6, <3>2 DEF LogRemembered
    <3>3. QED BY <3>1, <3>2
  <2>8. CASE request[r].pending
    BY <1>1, <2>7, <2>8 DEF CommitAccepted, LogRemembered
  <2>9. CASE ~request[r].pending
    <3> DEFINE login == <<token.of, token.timestep>>
    <3>1. log' = Append(log, login) /\ log \in Seq(Authenticators \X Timesteps)
      BY <1>1, <2>9 DEF CommitAccepted, TypeOK
    <3>2. login[1] = token.of /\ login[2] = token.timestep
      OBVIOUS
    <3> HIDE DEF login, row, token
    <3>3. \A i \in DOMAIN log' : (i \in DOMAIN log /\ log'[i] = log[i]) \/ log'[i] = login
      BY <3>1
    <3>4. /\ totp'[token.of].state \in {"confirmed", "gone"}
          /\ totp'[token.of].lastUsedTimestep \in Int
          /\ token.timestep <= totp'[token.of].lastUsedTimestep
      BY <2>2, <2>4, <2>5, <2>9
    <3>5. QED BY <2>7, <3>2, <3>3, <3>4 DEF LogRemembered
  <2>10. QED BY <2>8, <2>9
<1>2. ASSUME UNCHANGED log,
             \A a \in Authenticators :
               totp[a].state \in {"confirmed", "gone"} =>
                 /\ totp'[a].state \in {"confirmed", "gone"}
                 /\ totp'[a].lastUsedTimestep = totp[a].lastUsedTimestep
      PROVE  LogRemembered'
  <2>1. \A i \in DOMAIN log : log[i][1] \in Authenticators
    BY DEF TypeOK
  <2>2. QED BY <1>2, <2>1 DEF LogRemembered
<1>3. ASSUME UNCHANGED <<totp, log>>
      PROVE  LogRemembered'
  BY <1>2, <1>3
<1>4. ASSUME NEW a \in Authenticators, Enroll(a)
      PROVE  LogRemembered'
  BY <1>2, <1>4 DEF Enroll, TypeOK, TotpRow
<1>5. ASSUME DeleteTotps
      PROVE  LogRemembered'
  BY <1>2, <1>5 DEF DeleteTotps, TypeOK, TotpRow
<1>6. ASSUME NEW a \in Authenticators, ClearExpired(a)
      PROVE  LogRemembered'
  BY <1>2, <1>6 DEF ClearExpired, TypeOK, TotpRow
<1>7. QED
  BY <1>1, <1>3, <1>4, <1>5, <1>6
  DEF Next, Begin, CheckLockout, MatchToken, MarkUsed, RecordFailure,
      CommitRejected, Rollback, Tick, vars

LEMMA InitEstablishes == Init => IInv
<1> SUFFICES ASSUME Init PROVE IInv
  OBVIOUS
<1>1. TypeOK
  <2>1. 0 \in Times
    BY TotpLoginAssumption DEF Times
  <2>2. NewRequest \in Request
    BY <2>1 DEF NewRequest, Request, Phases
  <2>3. totp \in [Authenticators -> TotpRow]
    BY DEF Init, TotpRow
  <2>4. QED BY <2>1, <2>2, <2>3 DEF Init, TypeOK
<1>2. OneOpen /\ MatchHolds
  BY DEF Init, OneOpen, MatchHolds, open, NewRequest
<1>3. LogRemembered
  BY DEF Init, LogRemembered
<1>4. QED BY <1>1, <1>2, <1>3 DEF IInv

LEMMA StepPreserves ==
  ASSUME SERIALIZED
  PROVE  IInv /\ [Next]_vars => IInv'
<1> SUFFICES ASSUME IInv, [Next]_vars PROVE IInv'
  OBVIOUS
<1>1. CodesMatched
  BY DEF IInv, MatchHolds, CodesMatched
<1>2. QED
  BY <1>1, OtherActionsType, OneOpenStep, MatchHoldsStep, LogRememberedStep DEF IInv

(***************************************************************************)
(* A step logs nobody in, or it is an Accept of the abstract verifier.     *)
(***************************************************************************)
LEMMA StepRefines == IInv /\ [Next]_vars => [Codes!Next]_log
<1> SUFFICES ASSUME IInv, [Next]_vars, log' # log
             PROVE  Codes!Next
  OBVIOUS
<1>1. PICK r \in Requests : CommitAccepted(r)
  BY DEF Next, Begin, CheckLockout, MatchToken, MarkUsed, RecordFailure,
         CommitRejected, Rollback, Enroll, DeleteTotps, ClearExpired, Tick, vars
<1> DEFINE token == request[r].token
<1>2. token \in Tokens
  BY <1>1 DEF IInv, MatchHolds, CommitAccepted
<1>3. log' = Append(log, <<token.of, token.timestep>>)
  BY <1>1 DEF CommitAccepted
<1>4. \A i \in DOMAIN log : log[i][1] = token.of => log[i][2] < token.timestep
  BY <1>1, CommitIsNewer
<1>5. Codes!Accept(token.of, token.timestep)
  BY <1>3, <1>4 DEF Codes!Accept
<1>6. token.of \in Authenticators /\ token.timestep \in Timesteps
  BY <1>2 DEF Tokens
<1>7. QED BY <1>5, <1>6 DEF Codes!Next

(***************************************************************************)
(* With transactions one at a time (SQLite) no code is accepted twice, nor *)
(* an older one after a newer, for any number of requests and enrolled     *)
(* authenticators: TotpLogin implements OneTimeCodes.                      *)
(***************************************************************************)
THEOREM NeverReplayedHolds ==
  ASSUME SERIALIZED
  PROVE  Spec => NeverReplayed
<1>1. Init => Codes!Init
  BY DEF Init, Codes!Init
<1>2. QED
  BY <1>1, InitEstablishes, StepPreserves, StepRefines, PTL
  DEF Spec, NeverReplayed, Codes!Spec

-----------------------------------------------------------------------------
(* Either database.                                                        *)

LEMMA CodesMatchedStep ==
  ASSUME TypeOK, CodesMatched, [Next]_vars
  PROVE  CodesMatched'
<1>1. ASSUME NEW r \in Requests, NEW q, request' = [request EXCEPT ![r] = q],
             q.at \in {"matched", "accepted"} => q.token \in Tokens
      PROVE  CodesMatched'
  BY <1>1, OthersKept DEF CodesMatched
<1>2. ASSUME NEW r \in Requests,
             \/ \E token \in Typed : Begin(r, token)
             \/ CheckLockout(r) \/ RecordFailure(r) \/ CommitRejected(r) \/ Rollback(r)
             \/ CommitAccepted(r)
      PROVE  CodesMatched'
  <2>1. \E q : /\ request' = [request EXCEPT ![r] = q]
               /\ q.at \notin {"matched", "accepted"}
    BY <1>2 DEF Begin, CheckLockout, RecordFailure, CommitRejected, Rollback, CommitAccepted,
                TypeOK, Request
  <2>2. QED BY <1>1, <2>1
<1>3. ASSUME NEW r \in Requests, MatchToken(r)
      PROVE  CodesMatched'
  <2> DEFINE token == request[r].token
  <2>1. CASE current(token) /\ notReplayed(token)
    <3> DEFINE q == [request[r] EXCEPT !.at = "matched",
                                       !.pending = totp[token.of].state = "pending"]
    <3>1. request' = [request EXCEPT ![r] = q]
      BY <1>3, <2>1 DEF MatchToken
    <3>2. token \in Tokens
      BY <2>1 DEF current, TypeOK, Request
    <3>3. q.token = token
      BY DEF TypeOK, Request
    <3> HIDE DEF q
    <3>4. QED BY <1>1, <3>1, <3>2, <3>3
  <2>2. CASE ~(current(token) /\ notReplayed(token))
    <3>1. request' = [request EXCEPT ![r] = [request[r] EXCEPT !.at = "failed"]]
      BY <1>3, <2>2 DEF MatchToken
    <3>2. [request[r] EXCEPT !.at = "failed"].at = "failed"
      BY DEF TypeOK, Request
    <3>3. QED BY <1>1, <3>1, <3>2
  <2>3. QED BY <2>1, <2>2
<1>4. ASSUME NEW r \in Requests, MarkUsed(r)
      PROVE  CodesMatched'
  <2> DEFINE q == [request[r] EXCEPT !.at = "accepted"]
  <2>1. request' = [request EXCEPT ![r] = q]
    BY <1>4 DEF MarkUsed
  <2>2. q.token = request[r].token /\ request[r].token \in Tokens
    BY <1>4 DEF MarkUsed, CodesMatched, TypeOK, Request
  <2> HIDE DEF q
  <2>3. QED BY <1>1, <2>1, <2>2
<1>5. CASE UNCHANGED request
  BY <1>5 DEF CodesMatched
<1>6. QED
  BY <1>2, <1>3, <1>4, <1>5 DEF Next, Enroll, DeleteTotps, ClearExpired, Tick, vars

LEMMA UsedAreLoggedStep ==
  ASSUME TypeOK, CodesMatched, UsedAreLogged, [Next]_vars
  PROVE  UsedAreLogged'
<1>1. ASSUME UNCHANGED log,
             \A a \in Authenticators :
               totp'[a].lastUsedTimestep = totp[a].lastUsedTimestep
      PROVE  UsedAreLogged'
  BY <1>1 DEF UsedAreLogged
<1>2. ASSUME NEW r \in Requests, CommitAccepted(r)
      PROVE  UsedAreLogged'
  <2> DEFINE token == request[r].token
             row == usedRow(totp[token.of], token, request[r].pending)
             login == <<token.of, token.timestep>>
  <2>1. token.of \in Authenticators /\ totp[token.of] \in TotpRow
    BY <1>2 DEF CommitAccepted, CodesMatched, Tokens, TypeOK
  <2>2. \/ row.lastUsedTimestep = totp[token.of].lastUsedTimestep
        \/ request[r].pending /\ row.lastUsedTimestep = NoTimestep
        \/ ~request[r].pending /\ row.lastUsedTimestep = token.timestep
    BY <2>1 DEF usedRow, TotpRow
  <2>3. \A a \in Authenticators : totp'[a] = IF a = token.of THEN row ELSE totp[a]
    <3>1. totp' = [totp EXCEPT ![token.of] = row]
      BY <1>2 DEF CommitAccepted
    <3> HIDE DEF row
    <3>2. QED BY <3>1 DEF TypeOK
  <2>4. log' = IF request[r].pending THEN log ELSE Append(log, login)
    BY <1>2 DEF CommitAccepted
  <2>5. \A i \in DOMAIN log : i \in DOMAIN log' /\ log'[i] = log[i]
    <3>1. log \in Seq(Authenticators \X Timesteps)
      BY DEF TypeOK
    <3> HIDE DEF login
    <3>2. QED BY <2>4, <3>1
  <2>6. ~request[r].pending => \E i \in DOMAIN log' : log'[i] = login
    <3>1. log \in Seq(Authenticators \X Timesteps)
      BY DEF TypeOK
    <3> HIDE DEF login
    <3>2. ASSUME ~request[r].pending
          PROVE  Len(log) + 1 \in DOMAIN log' /\ log'[Len(log) + 1] = login
      BY <2>4, <3>1, <3>2
    <3>3. QED BY <3>2
  <2>7. ASSUME NEW a \in Authenticators, totp'[a].lastUsedTimestep # NoTimestep
        PROVE  \E i \in DOMAIN log' : log'[i] = <<a, totp'[a].lastUsedTimestep>>
    <3>1. CASE totp'[a].lastUsedTimestep = totp[a].lastUsedTimestep
      <4>1. PICK i \in DOMAIN log : log[i] = <<a, totp[a].lastUsedTimestep>>
        BY <2>7, <3>1 DEF UsedAreLogged
      <4>2. QED BY <2>5, <3>1, <4>1
    <3>2. CASE totp'[a].lastUsedTimestep # totp[a].lastUsedTimestep
      <4>1. a = token.of /\ totp'[a] = row
        BY <2>3, <3>2
      <4>2. ~request[r].pending /\ totp'[a].lastUsedTimestep = token.timestep
        <5> HIDE DEF row
        <5> QED BY <2>2, <2>7, <3>2, <4>1
      <4>3. QED BY <2>6, <4>1, <4>2
    <3>3. QED BY <3>1, <3>2
  <2>8. QED BY <2>7 DEF UsedAreLogged
<1>3. ASSUME NEW a \in Authenticators, Enroll(a) \/ ClearExpired(a)
      PROVE  UsedAreLogged'
  <2>1. UNCHANGED log
    BY <1>3 DEF Enroll, ClearExpired
  <2>2. \A b \in Authenticators : totp'[b].lastUsedTimestep = totp[b].lastUsedTimestep
    <3>1. \/ totp' = [totp EXCEPT ![a] = [totp[a] EXCEPT !.state = "pending",
                                          !.expiresAt = clock + TTL_VERIFICATION]]
          \/ totp' = [totp EXCEPT ![a] = [totp[a] EXCEPT !.state = "gone"]]
      BY <1>3 DEF Enroll, ClearExpired
    <3>2. ASSUME NEW row, totp' = [totp EXCEPT ![a] = row],
                 row.lastUsedTimestep = totp[a].lastUsedTimestep
          PROVE  \A b \in Authenticators : totp'[b].lastUsedTimestep = totp[b].lastUsedTimestep
      BY <3>2 DEF TypeOK
    <3>3. /\ [totp[a] EXCEPT !.state = "pending", !.expiresAt = clock + TTL_VERIFICATION]
               .lastUsedTimestep = totp[a].lastUsedTimestep
          /\ [totp[a] EXCEPT !.state = "gone"].lastUsedTimestep = totp[a].lastUsedTimestep
      BY DEF TypeOK, TotpRow
    <3>4. QED BY <3>1, <3>2, <3>3
  <2>3. QED BY <1>1, <2>1, <2>2
<1>4. ASSUME DeleteTotps
      PROVE  UsedAreLogged'
  <2>1. UNCHANGED log
    BY <1>4 DEF DeleteTotps
  <2>2. \A b \in Authenticators : totp'[b].lastUsedTimestep = totp[b].lastUsedTimestep
    BY <1>4 DEF DeleteTotps, TypeOK, TotpRow
  <2>3. QED BY <1>1, <2>1, <2>2
<1>5. CASE UNCHANGED <<totp, log>>
  BY <1>1, <1>5
<1>6. QED
  BY <1>2, <1>3, <1>4, <1>5
  DEF Next, Begin, CheckLockout, MatchToken, MarkUsed, RecordFailure, CommitRejected,
      Rollback, Tick, vars

LEMMA RowsInvariant == Spec => []RowsInv
<1>1. Init => RowsInv
  <2> SUFFICES ASSUME Init PROVE RowsInv
    OBVIOUS
  <2>1. TypeOK
    BY InitEstablishes DEF IInv
  <2>2. CodesMatched
    BY DEF Init, NewRequest, CodesMatched
  <2>3. UsedAreLogged
    BY DEF Init, UsedAreLogged
  <2>4. QED BY <2>1, <2>2, <2>3 DEF RowsInv
<1>2. RowsInv /\ [Next]_vars => RowsInv'
  BY OtherActionsType, CodesMatchedStep, UsedAreLoggedStep DEF RowsInv
<1>3. QED BY <1>1, <1>2, PTL DEF Spec

(* The types the rows and the requests keep, on either database.           *)
THEOREM TotpTypeInvariant == Spec => []TypeOK
<1>1. RowsInv => TypeOK
  BY DEF RowsInv
<1>2. QED BY <1>1, RowsInvariant, PTL

(***************************************************************************)
(* On either database: validateTOTP rejects a current code only if that    *)
(* code or a newer one has logged in.                                      *)
(***************************************************************************)
THEOREM FreshCodeAcceptedHolds == Spec => FreshCodeAccepted
<1> DEFINE accepted ==
             \A r \in Requests :
               LET token == request[r].token
               IN request[r].at = "unlocked" /\ request'[r].at = "failed" /\ current(token) =>
                    \E i \in DOMAIN log : log[i][1] = token.of /\ log[i][2] >= token.timestep
<1>1. RowsInv /\ [Next]_vars => [accepted]_vars
  <2> SUFFICES ASSUME RowsInv, [Next]_vars, NEW r \in Requests,
                      request[r].at = "unlocked", request'[r].at = "failed",
                      current(request[r].token)
               PROVE  \E i \in DOMAIN log : /\ log[i][1] = request[r].token.of
                                            /\ log[i][2] >= request[r].token.timestep
    OBVIOUS
  <2> DEFINE token == request[r].token
  <2>1. ~notReplayed(token)
    <3> SUFFICES ASSUME notReplayed(token) PROVE FALSE
      OBVIOUS
    <3>1. ASSUME NEW o \in Requests, MatchToken(o)
          PROVE  FALSE
      <4>1. request' = [request EXCEPT ![o] = request'[o]]
        BY <3>1 DEF MatchToken, RowsInv, TypeOK
      <4>2. o = r
        BY <4>1 DEF RowsInv, TypeOK
      <4>3. request'[r].at = "matched"
        BY <3>1, <4>2 DEF MatchToken, RowsInv, TypeOK, Request
      <4>4. QED BY <4>3
    <3>2. QED
      BY <3>1 DEF Next, Begin, CheckLockout, MarkUsed, RecordFailure, CommitAccepted,
                  CommitRejected, Rollback, Enroll, DeleteTotps, ClearExpired, Tick, vars,
                  RowsInv, TypeOK, Request
  <2>2. token \in Tokens
    BY DEF current, RowsInv, TypeOK, Request
  <2>3. /\ totp[token.of].lastUsedTimestep # NoTimestep
        /\ ~(token.timestep > totp[token.of].lastUsedTimestep)
    BY <2>1 DEF notReplayed
  <2>4. totp[token.of].lastUsedTimestep \in Int /\ token.timestep \in Int
    BY <2>2, <2>3 DEF RowsInv, TypeOK, TotpRow, Tokens, Timesteps, Times
  <2>5. PICK i \in DOMAIN log : log[i] = <<token.of, totp[token.of].lastUsedTimestep>>
    BY <2>2, <2>3 DEF RowsInv, UsedAreLogged, Tokens
  <2>6. QED BY <2>3, <2>4, <2>5
<1>2. QED
  BY <1>1, RowsInvariant, PTL DEF Spec, FreshCodeAccepted

-----------------------------------------------------------------------------
(***************************************************************************)
(* Lockouts.  A request that is let through has seen that no lockout was   *)
(* in force, and nobody records a failure until it has recorded its own,   *)
(* if it fails.  So its failure comes after all others and after every     *)
(* lockout which they start.                                               *)
(***************************************************************************)
clearedBy(among, t) ==
  \A x \in among : endsBurst(x, among) => x[2] + TOTP_LOCKOUT <= t

Clear(q, among, t) ==
  /\ q.at \in {"unlocked", "failed"} => clearedBy(among, t)
  /\ q.at = "rejected" =>
       /\ clearedBy(among, q.createdAt)
       /\ \A x \in among : x[2] <= q.createdAt
       /\ q.createdAt <= t

FailuresClear == \A r \in Requests : Clear(request[r], attempts, clock)

AttemptsPast == IsFiniteSet(attempts) /\ \A x \in attempts : x[2] <= clock

LockInv == IInv /\ AttemptsPast /\ FailuresClear /\ LockoutHolds

(* Among some attempts there is a latest.                                  *)
LEMMA Latest ==
  ASSUME NEW S \in SUBSET (Requests \X Times), S # {}
  PROVE  \E m \in S : \A y \in S : y[2] <= m[2]
<1> DEFINE later == {p \in Times \X Times : p[2] < p[1]}
           left == {p \in Nat \X Nat : p[1] < p[2]}
           ages == {MaxTime - y[2] : y \in S}
<1>1. ages \in SUBSET Nat /\ ages # {}
  BY TotpLoginAssumption DEF Times
<1>2. IsWellFoundedOn(left, Nat)
  BY NatLessThanWellFounded DEF OpToRel
<1>3. PICK n \in ages : \A k \in ages : <<k, n>> \notin left
  <2> HIDE DEF left, ages
  <2> QED BY <1>1, <1>2, WFMin
<1>4. \A k \in ages : n <= k
  <2>1. \A k \in ages : k \in Nat /\ ~(k < n)
    BY <1>1, <1>3
  <2> HIDE DEF ages
  <2>2. QED BY <1>1, <2>1
<1>5. PICK m \in S : n = MaxTime - m[2]
  BY DEF ages
<1>6. \A y \in S : MaxTime - m[2] <= MaxTime - y[2]
  BY <1>4, <1>5
<1>7. \A y \in S : y[2] \in Int
  BY DEF Times
<1>8. QED BY <1>6, <1>7, TotpLoginAssumption

(* getTotpLockoutUntil looks back far enough.                              *)
LEMMA LockoutSeen ==
  ASSUME TypeOK, AttemptsPast, ~lockedOut
  PROVE  clearedBy(attempts, clock)
<1> SUFFICES ASSUME NEW x \in attempts, endsBurst(x, attempts),
                    ~(x[2] + TOTP_LOCKOUT <= clock)
             PROVE  FALSE
  BY DEF clearedBy
<1>1. \A y \in attempts : y[2] \in Int
  BY DEF TypeOK, Times
<1>2. /\ clock \in Int /\ TOTP_LOCKOUT \in Nat /\ TOTP_FAILED_ATTEMPT_WINDOW \in Nat
      /\ TTL_FAILED_ATTEMPT \in Nat
      /\ TOTP_LOCKOUT + TOTP_FAILED_ATTEMPT_WINDOW <= TTL_FAILED_ATTEMPT
  BY TotpLoginAssumption, LimitsAssumption DEF TypeOK, Times
<1>3. x[2] + TOTP_LOCKOUT > clock
  BY <1>1, <1>2
<1>4. \A y \in attempts :
        y[2] >= x[2] - TOTP_FAILED_ATTEMPT_WINDOW => y \in recentAttempts
  BY <1>1, <1>2, <1>3 DEF recentAttempts
<1>5. x \in recentAttempts
  BY <1>1, <1>2, <1>4
<1>6. {y \in recentAttempts : y[2] \in (x[2] - TOTP_FAILED_ATTEMPT_WINDOW)..x[2]}
        = {y \in attempts : y[2] \in (x[2] - TOTP_FAILED_ATTEMPT_WINDOW)..x[2]}
  <2>1. recentAttempts \subseteq attempts
    BY DEF recentAttempts
  <2>2. \A y \in attempts :
          y[2] \in (x[2] - TOTP_FAILED_ATTEMPT_WINDOW)..x[2] => y \in recentAttempts
    BY <1>1, <1>2, <1>4
  <2>3. QED BY <2>1, <2>2
<1>7. endsBurst(x, recentAttempts)
  BY <1>6 DEF endsBurst
<1>8. QED BY <1>3, <1>5, <1>7 DEF lockedOut

(***************************************************************************)
(* A window that a cleared failure falls into has room for it: else the    *)
(* latest of the others would end a burst, whose lockout is as long as the *)
(* window.                                                                 *)
(***************************************************************************)
LEMMA WindowHasRoom ==
  ASSUME TypeOK, IsFiniteSet(attempts), NEW t \in Times, clearedBy(attempts, t),
         \A x \in attempts : x[2] <= t,
         NEW first \in Times, first <= t, t <= first + TOTP_FAILED_ATTEMPT_WINDOW - 1
  PROVE  LET inWindow == {y \in attempts :
                            y[2] \in first..(first + TOTP_FAILED_ATTEMPT_WINDOW - 1)}
         IN /\ IsFiniteSet(inWindow)
            /\ Cardinality(inWindow) \in Nat
            /\ Cardinality(inWindow) < TOTP_MAX_FAILED_ATTEMPTS
<1> DEFINE inWindow == {y \in attempts :
                          y[2] \in first..(first + TOTP_FAILED_ATTEMPT_WINDOW - 1)}
<1>1. IsFiniteSet(inWindow) /\ Cardinality(inWindow) \in Nat
  BY FS_Subset, FS_CardinalityType, inWindow \subseteq attempts
<1>2. ASSUME ~(Cardinality(inWindow) < TOTP_MAX_FAILED_ATTEMPTS)
      PROVE  FALSE
  <2>1. Cardinality(inWindow) >= TOTP_MAX_FAILED_ATTEMPTS /\ TOTP_MAX_FAILED_ATTEMPTS >= 1
    BY <1>1, <1>2, TotpLoginAssumption
  <2>2. inWindow # {}
    <3> HIDE DEF inWindow
    <3> QED BY <1>1, <2>1, FS_EmptySet, TotpLoginAssumption
  <2>3. inWindow \in SUBSET (Requests \X Times)
    BY DEF TypeOK
  <2>4. PICK m \in inWindow : \A y \in inWindow : y[2] <= m[2]
    <3> HIDE DEF inWindow
    <3> QED BY <2>2, <2>3, Latest
  <2> DEFINE burst == {y \in attempts :
                         y[2] \in (m[2] - TOTP_FAILED_ATTEMPT_WINDOW)..m[2]}
  <2>5. /\ \A y \in attempts : y[2] \in Int
        /\ TOTP_FAILED_ATTEMPT_WINDOW \in Nat /\ TOTP_LOCKOUT \in Nat
        /\ first \in Int /\ t \in Int
    BY TotpLoginAssumption DEF TypeOK, Times
  <2>6. m \in attempts /\ m[2] >= first
    BY <2>5
  <2>7. inWindow \subseteq burst
    BY <2>4, <2>5, <2>6
  <2>8. IsFiniteSet(burst) /\ Cardinality(burst) \in Nat
    BY FS_Subset, FS_CardinalityType, burst \subseteq attempts
  <2>9. Cardinality(inWindow) <= Cardinality(burst)
    <3> HIDE DEF inWindow, burst
    <3> QED BY <2>7, <2>8, FS_Subset
  <2>10. Cardinality(burst) >= TOTP_MAX_FAILED_ATTEMPTS
    <3> HIDE DEF inWindow, burst
    <3> QED BY <1>1, <2>1, <2>8, <2>9, TotpLoginAssumption
  <2>11. endsBurst(m, attempts)
    BY <2>10 DEF endsBurst
  <2>12. m[2] + TOTP_LOCKOUT <= t
    BY <2>6, <2>11 DEF clearedBy
  <2>13. QED BY <2>5, <2>6, <2>12, LimitsAssumption
<1>3. QED BY <1>1, <1>2

LEMMA FailureKeepsLockout ==
  ASSUME TypeOK, IsFiniteSet(attempts), LockoutHolds, NEW r \in Requests, NEW t \in Times,
         clearedBy(attempts, t), \A x \in attempts : x[2] <= t,
         attempts' = attempts \cup {<<r, t>>}
  PROVE  LockoutHolds'
<1> DEFINE z == <<r, t>>
           window(first) == first..(first + TOTP_FAILED_ATTEMPT_WINDOW - 1)
<1>1. /\ z[2] = t
      /\ \A y \in attempts : y[2] \in Times
      /\ TOTP_FAILED_ATTEMPT_WINDOW \in Nat /\ TOTP_LOCKOUT \in Nat
      /\ TOTP_MAX_FAILED_ATTEMPTS \in Nat /\ Times \subseteq Int
  BY TotpLoginAssumption DEF TypeOK, Times
<1>2. ASSUME NEW x \in attempts \cup {z}
      PROVE  Cardinality({y \in attempts \cup {z} : y[2] \in window(x[2])})
               <= TOTP_MAX_FAILED_ATTEMPTS
  <2> DEFINE before == {y \in attempts : y[2] \in window(x[2])}
             after == {y \in attempts \cup {z} : y[2] \in window(x[2])}
  <2> SUFFICES Cardinality(after) <= TOTP_MAX_FAILED_ATTEMPTS
    OBVIOUS
  <2>1. CASE t \in window(x[2])
    <3>1. x[2] \in Times /\ x[2] <= t /\ t <= x[2] + TOTP_FAILED_ATTEMPT_WINDOW - 1
      BY <1>1, <2>1
    <3>2. /\ IsFiniteSet(before) /\ Cardinality(before) \in Nat
          /\ Cardinality(before) < TOTP_MAX_FAILED_ATTEMPTS
      BY <3>1, WindowHasRoom
    <3>3. after = before \cup {z}
      BY <1>1, <2>1
    <3> HIDE DEF before, after, z
    <3>4. \/ Cardinality(after) = Cardinality(before)
          \/ Cardinality(after) = Cardinality(before) + 1
      BY <3>2, <3>3, FS_AddElement
    <3>5. QED BY <1>1, <3>2, <3>4
  <2>2. CASE t \notin window(x[2])
    <3>1. after = before
      BY <1>1, <2>2
    <3>2. CASE x \in attempts
      BY <3>1, <3>2 DEF LockoutHolds
    <3>3. CASE x = z
      <4>1. TOTP_FAILED_ATTEMPT_WINDOW = 0
        BY <1>1, <2>2, <3>3
      <4>2. before = {}
        BY <1>1, <3>3, <4>1
      <4> HIDE DEF before, after
      <4>3. QED BY <1>1, <3>1, <4>2, FS_EmptySet
    <3>4. QED BY <3>2, <3>3
  <2>3. QED BY <2>1, <2>2
<1>3. ASSUME NEW x \in attempts \cup {z}, endsBurst(x, attempts \cup {z}),
             NEW y \in attempts \cup {z}, x[2] < y[2], y[2] < x[2] + TOTP_LOCKOUT
      PROVE  FALSE
  <2>1. x[2] \in Int /\ y[2] \in Int /\ t \in Int /\ y[2] <= t
    BY <1>1
  <2>2. x[2] < t
    BY <1>3, <2>1
  <2>3. x \in attempts
    BY <1>1, <2>1, <2>2
  <2>4. {w \in attempts \cup {z} : w[2] \in (x[2] - TOTP_FAILED_ATTEMPT_WINDOW)..x[2]}
          = {w \in attempts : w[2] \in (x[2] - TOTP_FAILED_ATTEMPT_WINDOW)..x[2]}
    BY <1>1, <2>1, <2>2
  <2>5. endsBurst(x, attempts)
    BY <1>3, <2>4 DEF endsBurst
  <2>6. CASE y \in attempts
    BY <1>3, <2>3, <2>5, <2>6 DEF LockoutHolds
  <2>7. CASE y = z
    <3>1. x[2] + TOTP_LOCKOUT <= t
      BY <2>3, <2>5 DEF clearedBy
    <3>2. t < x[2] + TOTP_LOCKOUT
      BY <1>1, <1>3, <2>7
    <3>3. QED BY <1>1, <2>1, <3>1, <3>2
  <2>8. QED BY <2>6, <2>7
<1>4. QED
  <2> HIDE DEF z
  <2>1. attempts' = attempts \cup {z}
    BY DEF z
  <2>2. QED
    <3>1. \A x \in attempts' : endsBurst(x, attempts)' => endsBurst(x, attempts \cup {z})
      BY <2>1 DEF endsBurst
    <3>2. QED BY <1>2, <1>3, <2>1, <3>1 DEF LockoutHolds

LEMMA ClearLater ==
  ASSUME TypeOK, NEW q, NEW t \in Int, Clear(q, attempts, clock), clock <= t,
         q.createdAt \in Int
  PROVE  Clear(q, attempts, t)
<1>1. /\ clock \in Int /\ TOTP_LOCKOUT \in Nat /\ \A x \in attempts : x[2] \in Int
  BY TotpLoginAssumption DEF TypeOK, Times
<1>2. clearedBy(attempts, clock) => clearedBy(attempts, t)
  BY <1>1 DEF clearedBy
<1>3. q.createdAt <= clock => q.createdAt <= t
  BY <1>1
<1>4. QED BY <1>2, <1>3 DEF Clear

(* One request goes on to q, and nobody's failure is committed.            *)
LEMMA ClearStep ==
  ASSUME TypeOK, FailuresClear, NEW r \in Requests, NEW q,
         request' = [request EXCEPT ![r] = q], UNCHANGED <<clock, attempts>>,
         Clear(q, attempts, clock)
  PROVE  FailuresClear'
<1>1. \A o \in Requests : Clear(request'[o], attempts, clock)
  BY OthersKept DEF FailuresClear
<1>2. \A o \in Requests : Clear(request[o], attempts, clock)'
                           <=> Clear(request'[o], attempts, clock)
  BY DEF Clear, clearedBy, endsBurst
<1>3. QED BY <1>1, <1>2 DEF FailuresClear

LEMMA LockoutStay ==
  ASSUME AttemptsPast, LockoutHolds, UNCHANGED <<clock, attempts>>
  PROVE  AttemptsPast' /\ LockoutHolds'
BY DEF AttemptsPast, LockoutHolds, endsBurst

LEMMA LockSteps ==
  ASSUME LockInv, SERIALIZED, [Next]_vars
  PROVE  AttemptsPast' /\ FailuresClear' /\ LockoutHolds'
<1> USE DEF LockInv, IInv
<1>1. ASSUME NEW r \in Requests, NEW q, request' = [request EXCEPT ![r] = q],
             UNCHANGED <<clock, attempts>>, q.at \notin {"unlocked", "failed", "rejected"}
      PROVE  AttemptsPast' /\ FailuresClear' /\ LockoutHolds'
  BY <1>1, ClearStep, LockoutStay DEF Clear
<1>2. ASSUME NEW r \in Requests,
             \/ \E token \in Typed : Begin(r, token)
             \/ MarkUsed(r) \/ Rollback(r) \/ CommitAccepted(r)
      PROVE  AttemptsPast' /\ FailuresClear' /\ LockoutHolds'
  <2>1. \E q : /\ request' = [request EXCEPT ![r] = q]
               /\ q.at \notin {"unlocked", "failed", "rejected"}
    BY <1>2 DEF Begin, MarkUsed, Rollback, CommitAccepted, TypeOK, Request
  <2>2. UNCHANGED <<clock, attempts>>
    BY <1>2 DEF Begin, MarkUsed, Rollback, CommitAccepted
  <2>3. QED BY <1>1, <2>1, <2>2
<1>3. ASSUME NEW r \in Requests, CheckLockout(r)
      PROVE  AttemptsPast' /\ FailuresClear' /\ LockoutHolds'
  <2>1. PICK phase \in {"done", "unlocked"} :
          /\ request' = [request EXCEPT ![r] = [request[r] EXCEPT !.at = phase]]
          /\ phase = "unlocked" => ~lockedOut
    BY <1>3 DEF CheckLockout
  <2> DEFINE q == [request[r] EXCEPT !.at = phase]
  <2>2. q.at = phase
    BY DEF TypeOK, Request
  <2>3. Clear(q, attempts, clock)
    BY <2>1, <2>2, LockoutSeen DEF Clear
  <2>4. UNCHANGED <<clock, attempts>>
    BY <1>3 DEF CheckLockout
  <2> HIDE DEF q
  <2>5. request' = [request EXCEPT ![r] = q]
    BY <2>1 DEF q
  <2>6. QED BY <2>3, <2>4, <2>5, ClearStep, LockoutStay
<1>4. ASSUME NEW r \in Requests, MatchToken(r)
      PROVE  AttemptsPast' /\ FailuresClear' /\ LockoutHolds'
  <2>1. PICK q : request' = [request EXCEPT ![r] = q] /\ q.at \in {"matched", "failed"}
    <3>1. \/ \E p : request' = [request EXCEPT ![r] = [request[r] EXCEPT !.at = "matched",
                                                                       !.pending = p]]
          \/ request' = [request EXCEPT ![r] = [request[r] EXCEPT !.at = "failed"]]
      BY <1>4 DEF MatchToken
    <3>2. \A p : [request[r] EXCEPT !.at = "matched", !.pending = p].at = "matched"
      BY DEF TypeOK, Request
    <3>3. [request[r] EXCEPT !.at = "failed"].at = "failed"
      BY DEF TypeOK, Request
    <3>4. QED BY <3>1, <3>2, <3>3
  <2>2. clearedBy(attempts, clock)
    BY <1>4 DEF MatchToken, FailuresClear, Clear
  <2>3. Clear(q, attempts, clock)
    BY <2>1, <2>2 DEF Clear
  <2>4. UNCHANGED <<clock, attempts>>
    BY <1>4 DEF MatchToken
  <2>5. QED BY <2>1, <2>3, <2>4, ClearStep, LockoutStay
<1>5. ASSUME NEW r \in Requests, RecordFailure(r)
      PROVE  AttemptsPast' /\ FailuresClear' /\ LockoutHolds'
  <2>1. PICK q : /\ request' = [request EXCEPT ![r] = q]
                 /\ q.at = "rejected" /\ q.createdAt = clock
    <3>1. request' = [request EXCEPT ![r] = [request[r] EXCEPT !.at = "rejected",
                                                                !.createdAt = clock]]
      BY <1>5 DEF RecordFailure
    <3>2. [request[r] EXCEPT !.at = "rejected", !.createdAt = clock].at = "rejected"
      BY DEF TypeOK, Request
    <3>3. [request[r] EXCEPT !.at = "rejected", !.createdAt = clock].createdAt = clock
      BY DEF TypeOK, Request
    <3>4. QED BY <3>1, <3>2, <3>3
  <2>2. clearedBy(attempts, clock)
    BY <1>5 DEF RecordFailure, FailuresClear, Clear
  <2>3. clock <= clock
    BY DEF TypeOK, Times
  <2>4. Clear(q, attempts, clock)
    BY <2>1, <2>2, <2>3 DEF Clear, AttemptsPast
  <2>5. UNCHANGED <<clock, attempts>>
    BY <1>5 DEF RecordFailure
  <2>6. QED BY <2>1, <2>4, <2>5, ClearStep, LockoutStay
<1>6. ASSUME NEW r \in Requests, CommitRejected(r)
      PROVE  AttemptsPast' /\ FailuresClear' /\ LockoutHolds'
  <2> DEFINE t == request[r].createdAt
  <2>1. /\ request[r].at = "rejected" /\ UNCHANGED clock
        /\ attempts' = attempts \cup {<<r, t>>}
        /\ request' = [request EXCEPT ![r] = [request[r] EXCEPT !.at = "done"]]
    BY <1>6 DEF CommitRejected
  <2>2. /\ clearedBy(attempts, t) /\ t <= clock
        /\ \A x \in attempts : x[2] <= t
    BY <2>1 DEF FailuresClear, Clear
  <2>3. t \in Times
    BY DEF TypeOK, Request
  <2>4. LockoutHolds'
    <3> HIDE DEF t
    <3> QED BY <2>1, <2>2, <2>3, FailureKeepsLockout DEF AttemptsPast
  <2>5. AttemptsPast'
    <3> HIDE DEF t
    <3>1. IsFiniteSet(attempts')
      BY <2>1, FS_AddElement DEF AttemptsPast
    <3>2. \A x \in attempts' : x \in attempts \/ x[2] = t
      BY <2>1
    <3>3. \A x \in attempts' : x[2] <= clock'
      BY <2>1, <2>2, <3>2 DEF AttemptsPast
    <3>4. QED BY <3>1, <3>3 DEF AttemptsPast
  <2>6. \A o \in Requests : request'[o].at \notin {"unlocked", "failed", "rejected"}
    <3>1. \A o \in Requests \ {r} : ~open(o)
      BY <2>1 DEF OneOpen, open
    <3>2. [request[r] EXCEPT !.at = "done"].at = "done"
      BY DEF TypeOK, Request
    <3>3. QED BY <2>1, <3>1, <3>2, OthersKept DEF open
  <2>7. FailuresClear'
    BY <2>6 DEF FailuresClear, Clear
  <2>8. QED BY <2>4, <2>5, <2>7
<1>7. CASE Tick
  <2>1. UNCHANGED <<attempts, request>> /\ clock' = clock + 1
    BY <1>7 DEF Tick
  <2>2. clock' \in Int /\ clock <= clock' /\ clock \in Int
    BY <2>1 DEF TypeOK, Times
  <2>3. FailuresClear'
    <3>1. ASSUME NEW o \in Requests
          PROVE  Clear(request[o], attempts, clock')
      <4>1. request[o].createdAt \in Int
        BY DEF TypeOK, Request, Times
      <4>2. QED BY <2>2, <4>1, ClearLater DEF FailuresClear
    <3>2. \A o \in Requests : Clear(request[o], attempts, clock)'
                               <=> Clear(request[o], attempts, clock')
      BY <2>1 DEF Clear, clearedBy, endsBurst
    <3>3. QED BY <3>1, <3>2 DEF FailuresClear
  <2>4. LockoutHolds'
    BY <2>1 DEF LockoutHolds, endsBurst
  <2>5. AttemptsPast'
    <3>1. \A x \in attempts : x[2] \in Int
      BY DEF TypeOK, Times
    <3>2. QED BY <2>1, <2>2, <3>1 DEF AttemptsPast
  <2>6. QED BY <2>3, <2>4, <2>5
<1>8. CASE UNCHANGED <<clock, attempts, request>>
  BY <1>8, LockoutStay DEF FailuresClear, Clear, clearedBy, endsBurst
<1>9. QED
  BY <1>2, <1>3, <1>4, <1>5, <1>6, <1>7, <1>8 DEF Next, Enroll, DeleteTotps, ClearExpired, vars

(***************************************************************************)
(* With transactions one at a time guessing is slowed down, for any number *)
(* of requests, any limits of that order and any passage of time within    *)
(* and between transactions.                                               *)
(***************************************************************************)
THEOREM LockoutHoldsAlways ==
  ASSUME SERIALIZED
  PROVE  Spec => []LockoutHolds
<1>1. Init => LockInv
  <2> SUFFICES ASSUME Init PROVE LockInv
    OBVIOUS
  <2>1. IInv
    BY InitEstablishes
  <2>2. AttemptsPast /\ LockoutHolds
    BY FS_EmptySet DEF Init, AttemptsPast, LockoutHolds
  <2>3. FailuresClear
    BY DEF Init, NewRequest, FailuresClear, Clear
  <2>4. QED BY <2>1, <2>2, <2>3 DEF LockInv
<1>2. LockInv /\ [Next]_vars => LockInv'
  BY StepPreserves, LockSteps DEF LockInv
<1>3. LockInv => LockoutHolds
  BY DEF LockInv
<1>4. QED BY <1>1, <1>2, <1>3, PTL DEF Spec
=============================================================================
