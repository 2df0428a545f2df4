-------------------------- MODULE CredentialsProofs --------------------------
(* The properties of Credentials with transactions one at a time, for any  *)
(* number of requests, passkeys, tokens and sessions.                      *)
EXTENDS Credentials, FiniteSetTheorems, TLAPS

-----------------------------------------------------------------------------
(***************************************************************************)
(* The inductive invariant.  One transaction is open at a time, so what    *)
(* its request has read and checked still holds when it commits.           *)
(***************************************************************************)
OpenPhases == {"begun", "checked", "wrote", "droppedTokens", "endedSessions"}

OneOpen == \A r1, r2 \in Requests : open(r1) /\ open(r2) => r1 = r2

(* What a request q of each kind has written, whatever the tables hold.    *)
Progress(q) ==
  /\ q.at \in {"unsent", "begun", "checked"} => q.newPassword = 0
  /\ q.at = "unsent" => q.dropPasskeys = {} /\ q.dropSessions = {}
  /\ q.at \in {"wrote", "droppedTokens", "endedSessions"}
       /\ q.kind \in {"changePassword", "resetPassword"} => q.newPassword # 0
  /\ q.dropPasskeys # {} => q.kind \in {"deletePasskey", "deletePasskeys"}
  /\ q.dropSessions # {} => q.kind \in {"changePassword", "resetPassword", "signOut"}
  /\ q.kind = "deletePasskey" => q.dropPasskeys \subseteq {q.passkey}
  /\ q.at = "betweenTransactions" => q.kind = "resetPasskey"
  /\ q.at # "unsent" /\ q.kind = "resetPasskey" => q.passkey \in Passkeys

(* What it has seen, and has been allowed to do because of it.             *)
Seen(q) ==
  /\ q.kind \notin Resets \cup ByAdmin =>
       (q.sawPassword <=> password # 0) /\ (q.sawPasskeys <=> passkeys # {})
  /\ q.kind \in Resets => q.token \in tokens

Allowed(q) ==
  /\ q.kind = "deletePassword" => passkeys # {}
  /\ q.kind = "deletePasskeys" => password # 0
  /\ q.kind = "deletePasskey" => password # 0 \/ Cardinality(passkeys) >= 2
  /\ q.kind = "changePassword" => password \in {0, q.oldPassword}
  /\ q.kind = "finishLogin" => q.session \in sessions

Held(q) ==
  /\ q.at \in OpenPhases => Seen(q)
  /\ q.at \in OpenPhases \ {"begun"} => Allowed(q)
  /\ q.at \in {"droppedTokens", "endedSessions"} /\ q.kind \in Resets => q.token \in q.dropTokens

(* The token of a reset is spent once its deletion has been committed.     *)
spends(q) == q.kind \in Resets /\ q.at \in {"betweenTransactions", "succeeded"}

TokensSpent ==
  /\ \A r \in Requests : spends(request[r]) => request[r].token \notin tokens
  /\ \A r1, r2 \in Requests :
       spends(request[r1]) /\ spends(request[r2]) /\ request[r1].token = request[r2].token
         => r1 = r2

RequestsHold == \A r \in Requests : Progress(request[r]) /\ Held(request[r])

IInv ==
  /\ TypeOK /\ OneOpen /\ RequestsHold /\ TokensSpent
  /\ LoginMethodRemains /\ SignedOutForGood

-----------------------------------------------------------------------------
(* One request goes on to q, and the tables stay.                          *)
LEMMA RequestStep ==
  ASSUME IInv, NEW r \in Requests, NEW q \in Request,
         request' = [request EXCEPT ![r] = q],
         UNCHANGED <<password, passkeys, tokens, sessions, signedOut>>,
         Progress(q), Held(q), ~spends(q),
         q.at \in OpenPhases => \A o \in Requests \ {r} : ~open(o)
  PROVE  IInv'
<1>1. request'[r] = q /\ \A o \in Requests \ {r} : request'[o] = request[o]
  BY DEF IInv, TypeOK
<1>2. TypeOK'
  BY DEF IInv, TypeOK
<1>3. OneOpen'
  <2>1. open(r)' => q.at \in OpenPhases
    BY <1>1 DEF open, OpenPhases
  <2>2. \A o \in Requests \ {r} : open(o)' => open(o)
    BY <1>1 DEF open
  <2>3. QED BY <2>1, <2>2 DEF IInv, OneOpen
<1>4. RequestsHold'
  <2>1. ASSUME NEW o \in Requests
        PROVE  Progress(request'[o]) /\ Held(request'[o])
    BY <1>1 DEF IInv, RequestsHold
  <2>2. \A o \in Requests : Held(request[o])' <=> Held(request'[o])
    BY DEF Held, Seen, Allowed
  <2>3. \A o \in Requests : Progress(request[o])' <=> Progress(request'[o])
    BY DEF Progress
  <2>4. QED BY <2>1, <2>2, <2>3 DEF RequestsHold
<1>5. TokensSpent'
  <2>1. \A o \in Requests : spends(request[o])' => o # r /\ spends(request[o])
    BY <1>1 DEF spends
  <2>2. QED BY <1>1, <2>1 DEF IInv, TokensSpent
<1>6. LoginMethodRemains' /\ SignedOutForGood'
  BY DEF IInv, LoginMethodRemains, SignedOutForGood
<1>7. QED BY <1>2, <1>3, <1>4, <1>5, <1>6 DEF IInv

(* An open request: its record, and that it is the only one.               *)
LEMMA TheOpenOne ==
  ASSUME IInv, NEW r \in Requests, open(r)
  PROVE  /\ request[r] \in Request
         /\ request[r].at \in OpenPhases
         /\ Progress(request[r]) /\ Held(request[r])
         /\ \A o \in Requests \ {r} : ~open(o)
BY DEF IInv, TypeOK, OneOpen, RequestsHold, open, OpenPhases

-----------------------------------------------------------------------------
(* The start of a request.                                                 *)
LEMMA BeginPreserves ==
  ASSUME IInv, SERIALIZED, NEW r \in Requests, NEW kind \in Kinds, NEW s \in Sessions,
         NEW k \in Passkeys \cup {Nothing}, NEW old \in Versions,
         Begin(r, kind, s, k, old)
  PROVE  IInv'
<1> DEFINE q == [request[r] EXCEPT !.kind = kind, !.at = "begun", !.session = s,
                   !.passkey = k, !.oldPassword = old, !.sawPassword = password # 0,
                   !.sawPasskeys = passkeys # {}]
<1>1. request[r] \in Request /\ request[r].at = "unsent" /\ Progress(request[r])
  BY DEF IInv, TypeOK, RequestsHold, Begin
<1>2. q \in Request
  BY <1>1 DEF Request
<1>3. /\ q.kind = kind /\ q.at = "begun"
      /\ q.sawPassword = (password # 0) /\ q.sawPasskeys = (passkeys # {})
      /\ q.newPassword = request[r].newPassword
      /\ q.dropPasskeys = request[r].dropPasskeys
      /\ q.dropSessions = request[r].dropSessions
  BY <1>1 DEF Request
<1>4. request' = [request EXCEPT ![r] = q]
  BY DEF Begin
<1>5. kind \notin Resets \cup ByAdmin
  BY DEF Begin
<1>6. \A o \in Requests : ~open(o)
  BY DEF Begin, connectionFree
<1> HIDE DEF q
<1>7. Progress(q)
  BY <1>1, <1>3, <1>5 DEF Progress, Resets
<1>8. Held(q)
  BY <1>3, <1>5 DEF Held, Seen, OpenPhases
<1>9. QED BY <1>2, <1>3, <1>4, <1>6, <1>7, <1>8, RequestStep DEF Begin, spends

LEMMA BeginResetPreserves ==
  ASSUME IInv, SERIALIZED, NEW r \in Requests, NEW kind \in Resets, NEW t \in Tokens,
         NEW k \in Passkeys \cup {Nothing}, BeginReset(r, kind, t, k)
  PROVE  IInv'
<1> DEFINE q == [request[r] EXCEPT !.kind = kind, !.at = "begun", !.token = t,
                   !.passkey = k, !.outstanding = tokens]
<1>1. request[r] \in Request /\ request[r].at = "unsent" /\ Progress(request[r])
  BY DEF IInv, TypeOK, RequestsHold, BeginReset
<1>2. q \in Request
  BY <1>1 DEF Request, Resets, Kinds, IInv, TypeOK
<1>3. /\ q.kind = kind /\ q.at = "begun" /\ q.token = t /\ q.passkey = k
      /\ q.newPassword = request[r].newPassword
      /\ q.dropPasskeys = request[r].dropPasskeys
      /\ q.dropSessions = request[r].dropSessions
  BY <1>1 DEF Request
<1>4. /\ request' = [request EXCEPT ![r] = q] /\ t \in tokens
      /\ kind = "resetPasskey" => k \in Passkeys
  BY DEF BeginReset
<1>5. \A o \in Requests : ~open(o)
  BY DEF BeginReset, connectionFree
<1> HIDE DEF q
<1>6. Progress(q)
  BY <1>1, <1>3, <1>4 DEF Progress
<1>7. Held(q)
  BY <1>3, <1>4 DEF Held, Seen, OpenPhases
<1>8. QED BY <1>2, <1>3, <1>4, <1>5, <1>6, <1>7, RequestStep DEF BeginReset, spends

LEMMA BeginByAdminPreserves ==
  ASSUME IInv, SERIALIZED, NEW r \in Requests, NEW kind \in ByAdmin,
         NEW t \in tokens \cup {Nothing}, BeginByAdmin(r, kind, t)
  PROVE  IInv'
<1> DEFINE q == [request[r] EXCEPT !.kind = kind, !.at = "begun", !.token = t]
<1>1. request[r] \in Request /\ request[r].at = "unsent" /\ Progress(request[r])
  BY DEF IInv, TypeOK, RequestsHold, BeginByAdmin
<1>2. q \in Request
  BY <1>1 DEF Request, ByAdmin, Kinds, IInv, TypeOK
<1>3. /\ q.kind = kind /\ q.at = "begun"
      /\ q.newPassword = request[r].newPassword
      /\ q.dropPasskeys = request[r].dropPasskeys
      /\ q.dropSessions = request[r].dropSessions
  BY <1>1 DEF Request
<1>4. request' = [request EXCEPT ![r] = q]
  BY DEF BeginByAdmin
<1>5. \A o \in Requests : ~open(o)
  BY DEF BeginByAdmin, connectionFree
<1> HIDE DEF q
<1>6. Progress(q)
  BY <1>1, <1>3 DEF Progress, ByAdmin
<1>7. Held(q)
  BY <1>3 DEF Held, Seen, OpenPhases, ByAdmin, Resets
<1>8. QED BY <1>2, <1>3, <1>4, <1>5, <1>6, <1>7, RequestStep DEF BeginByAdmin, spends

-----------------------------------------------------------------------------
(* The checks of a handler: what allowed reads stays so until it commits.  *)
LEMMA CheckPreserves ==
  ASSUME IInv, NEW r \in Requests, Check(r)
  PROVE  IInv'
<1> DEFINE phase == IF allowed(r) THEN "checked" ELSE "refused"
           q == [request[r] EXCEPT !.at = phase]
<1>1. open(r) /\ request[r].at = "begun"
  BY DEF Check, open
<1>2. /\ request[r] \in Request /\ Progress(request[r]) /\ Seen(request[r])
      /\ \A o \in Requests \ {r} : ~open(o)
  BY <1>1, TheOpenOne DEF Held, OpenPhases
<1>3. request' = [request EXCEPT ![r] = q]
  BY DEF Check
<1>4. /\ q \in Request /\ q.at = phase /\ q.kind = request[r].kind
      /\ q.newPassword = request[r].newPassword /\ q.dropPasskeys = request[r].dropPasskeys
      /\ q.dropSessions = request[r].dropSessions /\ q.passkey = request[r].passkey
      /\ q.token = request[r].token /\ q.session = request[r].session
      /\ q.oldPassword = request[r].oldPassword
      /\ q.sawPassword = request[r].sawPassword /\ q.sawPasskeys = request[r].sawPasskeys
  BY <1>2 DEF Request
<1>5. allowed(r) => Allowed(request[r])
  <2>1. request[r].kind \in Kinds
    BY <1>2 DEF Request
  <2>2. CASE request[r].kind = "deletePassword"
    BY <1>2, <2>2 DEF allowed, Allowed, Seen, Resets, ByAdmin
  <2>3. CASE request[r].kind = "deletePasskeys"
    BY <1>2, <2>3 DEF allowed, Allowed, Seen, Resets, ByAdmin
  <2>4. CASE request[r].kind = "deletePasskey"
    BY <1>2, <2>4 DEF allowed, Allowed, Seen, Resets, ByAdmin
  <2>5. CASE request[r].kind = "changePassword"
    BY <1>2, <2>5 DEF allowed, Allowed, Seen, Resets, ByAdmin
  <2>6. CASE request[r].kind = "finishLogin"
    BY <1>2, <2>6 DEF allowed, Allowed, Resets, ByAdmin
  <2>7. CASE request[r].kind \in Resets \cup ByAdmin
    BY <2>7 DEF Allowed, Resets, ByAdmin
  <2>8. QED BY <2>1, <2>2, <2>3, <2>4, <2>5, <2>6, <2>7 DEF Kinds, Resets, ByAdmin
<1>6. phase \in {"checked", "refused"} /\ (phase = "checked" => allowed(r))
  OBVIOUS
<1> HIDE DEF q, phase
<1>7. Progress(q)
  BY <1>1, <1>2, <1>4, <1>6 DEF Progress
<1>8. Held(q)
  BY <1>2, <1>4, <1>5, <1>6 DEF Held, Seen, Allowed, OpenPhases
<1>9. QED
  BY <1>2, <1>3, <1>4, <1>6, <1>7, <1>8, RequestStep DEF Check, spends

-----------------------------------------------------------------------------
(* There is a version for every write: who is about to write has none yet. *)
LEMMA FreshVersion ==
  ASSUME TypeOK, NEW r \in Requests, request[r].newPassword = 0
  PROVE  freshVersion \in Versions \ {0}
<1> DEFINE given == {o \in Requests : request[o].newPassword # 0}
<1>1. IsFiniteSet(Requests)
  BY CredentialsAssumption
<1>2. /\ IsFiniteSet(Requests \ {r})
      /\ Cardinality(Requests \ {r}) = Cardinality(Requests) - 1
      /\ Cardinality(Requests) \in Nat
  BY <1>1, FS_RemoveElement, FS_CardinalityType
<1>3. given \subseteq Requests \ {r}
  OBVIOUS
<1>4. /\ Cardinality(given) \in Nat
      /\ Cardinality(given) <= Cardinality(Requests \ {r})
  <2> HIDE DEF given
  <2> QED BY <1>2, <1>3, FS_Subset, FS_CardinalityType
<1>5. freshVersion = 1 + Cardinality(given) + 1
  BY DEF freshVersion
<1> HIDE DEF given
<1>6. QED BY <1>2, <1>4, <1>5 DEF Versions

-----------------------------------------------------------------------------
(* The writes.                                                             *)
LEMMA WritePasswordPreserves ==
  ASSUME IInv, NEW r \in Requests, WritePassword(r)
  PROVE  IInv'
<1> DEFINE version == IF request[r].kind = "deletePassword" THEN 0 ELSE freshVersion
           q == [request[r] EXCEPT !.at = "wrote", !.newPassword = version]
<1>1. open(r) /\ request[r].at = "checked"
  BY DEF WritePassword, open
<1>2. /\ request[r] \in Request /\ Progress(request[r]) /\ Held(request[r])
      /\ \A o \in Requests \ {r} : ~open(o)
  BY <1>1, TheOpenOne
<1>3. request[r].newPassword = 0
  BY <1>1, <1>2 DEF Progress
<1>4. /\ version \in Versions
      /\ request[r].kind \in {"changePassword", "resetPassword"} => version # 0
  <2>1. freshVersion \in Versions \ {0}
    BY <1>3, FreshVersion DEF IInv
  <2>2. 0 \in Versions
    BY <1>2, <1>3 DEF Request
  <2>3. QED BY <2>1, <2>2
<1>5. request' = [request EXCEPT ![r] = q]
  BY DEF WritePassword
<1> HIDE DEF version
<1>6. /\ q \in Request /\ q.at = "wrote" /\ q.kind = request[r].kind
      /\ q.newPassword = version /\ q.dropPasskeys = request[r].dropPasskeys
      /\ q.dropSessions = request[r].dropSessions /\ q.passkey = request[r].passkey
      /\ q.token = request[r].token /\ q.session = request[r].session
      /\ q.oldPassword = request[r].oldPassword
      /\ q.sawPassword = request[r].sawPassword /\ q.sawPasskeys = request[r].sawPasskeys
  BY <1>2, <1>4 DEF Request
<1> HIDE DEF q
<1>7. Progress(q)
  BY <1>1, <1>2, <1>4, <1>6 DEF Progress
<1>8. Held(q)
  BY <1>1, <1>2, <1>6 DEF Held, Seen, Allowed, OpenPhases
<1>9. QED
  BY <1>2, <1>5, <1>6, <1>7, <1>8, RequestStep DEF WritePassword, spends

LEMMA DeletePasskeysPreserves ==
  ASSUME IInv, NEW r \in Requests, DeletePasskeys(r)
  PROVE  IInv'
<1> DEFINE rows == IF request[r].kind = "deletePasskey"
                   THEN {request[r].passkey} \cap passkeys ELSE passkeys
           phase == IF rows = {} THEN "refused" ELSE "wrote"
           q == [request[r] EXCEPT !.dropPasskeys = rows, !.at = phase]
<1>1. open(r) /\ request[r].at = "checked"
  BY DEF DeletePasskeys, open
<1>2. /\ request[r] \in Request /\ Progress(request[r]) /\ Held(request[r])
      /\ \A o \in Requests \ {r} : ~open(o)
  BY <1>1, TheOpenOne
<1>3. /\ request' = [request EXCEPT ![r] = q]
      /\ request[r].kind \in {"deletePasskey", "deletePasskeys"}
  BY DEF DeletePasskeys
<1>4. /\ rows \in SUBSET Passkeys /\ phase \in {"refused", "wrote"}
      /\ request[r].kind = "deletePasskey" => rows \subseteq {request[r].passkey}
  BY DEF IInv, TypeOK
<1> HIDE DEF rows, phase
<1>5. /\ q \in Request /\ q.at = phase /\ q.kind = request[r].kind
      /\ q.newPassword = request[r].newPassword /\ q.dropPasskeys = rows
      /\ q.dropSessions = request[r].dropSessions /\ q.passkey = request[r].passkey
      /\ q.token = request[r].token /\ q.session = request[r].session
      /\ q.oldPassword = request[r].oldPassword
      /\ q.sawPassword = request[r].sawPassword /\ q.sawPasskeys = request[r].sawPasskeys
  BY <1>2, <1>4 DEF Request
<1> HIDE DEF q
<1>6. Progress(q)
  BY <1>2, <1>3, <1>4, <1>5 DEF Progress
<1>7. Held(q)
  BY <1>1, <1>2, <1>4, <1>5 DEF Held, Seen, Allowed, OpenPhases
<1>8. QED
  BY <1>2, <1>3, <1>4, <1>5, <1>6, <1>7, RequestStep DEF DeletePasskeys, spends, Resets

LEMMA DeleteTokensPreserves ==
  ASSUME IInv, NEW r \in Requests, DeleteTokens(r)
  PROVE  IInv'
<1> DEFINE rows == IF request[r].kind = "resetPassword" THEN tokens
                   ELSE {request[r].token} \cap tokens
           phase == IF request[r].kind = "deleteReset" /\ rows = {} THEN "refused"
                    ELSE "droppedTokens"
           q == [request[r] EXCEPT !.dropTokens = rows, !.at = phase]
<1>1. /\ open(r) /\ request[r].at \in {"checked", "wrote"}
      /\ request[r].kind \in {"resetPassword", "resetPasskey", "deleteReset"}
      /\ request[r].kind = "resetPassword" => request[r].at = "wrote"
  BY DEF DeleteTokens, open
<1>2. /\ request[r] \in Request /\ Progress(request[r]) /\ Held(request[r])
      /\ \A o \in Requests \ {r} : ~open(o)
  BY <1>1, TheOpenOne
<1>3. request' = [request EXCEPT ![r] = q]
  BY DEF DeleteTokens
<1>4. /\ rows \in SUBSET Tokens /\ phase \in {"refused", "droppedTokens"}
      /\ request[r].kind \in Resets => request[r].token \in rows
  BY <1>1, <1>2 DEF IInv, TypeOK, Held, Seen, OpenPhases
<1> HIDE DEF rows, phase
<1>5. /\ q \in Request /\ q.at = phase /\ q.kind = request[r].kind
      /\ q.newPassword = request[r].newPassword /\ q.dropPasskeys = request[r].dropPasskeys
      /\ q.dropTokens = rows
      /\ q.dropSessions = request[r].dropSessions /\ q.passkey = request[r].passkey
      /\ q.token = request[r].token /\ q.session = request[r].session
      /\ q.oldPassword = request[r].oldPassword
      /\ q.sawPassword = request[r].sawPassword /\ q.sawPasskeys = request[r].sawPasskeys
  BY <1>2, <1>4 DEF Request
<1> HIDE DEF q
<1>6. Progress(q)
  BY <1>1, <1>2, <1>4, <1>5 DEF Progress
<1>7. Held(q)
  BY <1>1, <1>2, <1>4, <1>5 DEF Held, Seen, Allowed, OpenPhases
<1>8. QED
  BY <1>2, <1>3, <1>4, <1>5, <1>6, <1>7, RequestStep DEF DeleteTokens, spends

LEMMA EndSessionsPreserves ==
  ASSUME IInv, NEW r \in Requests, EndSessions(r)
  PROVE  IInv'
<1> DEFINE q == [request[r] EXCEPT !.dropSessions = sessions, !.at = "endedSessions"]
<1>1. /\ open(r) /\ request[r].at \in {"checked", "wrote", "droppedTokens"}
      /\ request[r].kind \in {"changePassword", "resetPassword", "signOut"}
      /\ request[r].kind = "changePassword" => request[r].at = "wrote"
      /\ request[r].kind = "resetPassword" => request[r].at = "droppedTokens"
  BY DEF EndSessions, open
<1>2. /\ request[r] \in Request /\ Progress(request[r]) /\ Held(request[r])
      /\ \A o \in Requests \ {r} : ~open(o)
  BY <1>1, TheOpenOne
<1>3. request' = [request EXCEPT ![r] = q]
  BY DEF EndSessions
<1>4. sessions \in SUBSET Sessions
  BY DEF IInv, TypeOK
<1>5. /\ q \in Request /\ q.at = "endedSessions" /\ q.kind = request[r].kind
      /\ q.newPassword = request[r].newPassword /\ q.dropPasskeys = request[r].dropPasskeys
      /\ q.dropTokens = request[r].dropTokens /\ q.passkey = request[r].passkey
      /\ q.token = request[r].token /\ q.session = request[r].session
      /\ q.oldPassword = request[r].oldPassword
      /\ q.sawPassword = request[r].sawPassword /\ q.sawPasskeys = request[r].sawPasskeys
  BY <1>2, <1>4 DEF Request
<1> HIDE DEF q
<1>6. Progress(q)
  BY <1>1, <1>2, <1>5 DEF Progress
<1>7. Held(q)
  BY <1>1, <1>2, <1>5 DEF Held, Seen, Allowed, OpenPhases, Resets
<1>8. QED
  BY <1>2, <1>3, <1>5, <1>6, <1>7, RequestStep DEF EndSessions, spends

LEMMA SaveSessionPreserves ==
  ASSUME IInv, NEW r \in Requests, SaveSession(r)
  PROVE  IInv'
<1> DEFINE q == [request[r] EXCEPT !.at = "wrote"]
<1>1. open(r) /\ request[r].at = "checked" /\ request[r].kind = "finishLogin"
  BY DEF SaveSession, open
<1>2. /\ request[r] \in Request /\ Progress(request[r]) /\ Held(request[r])
      /\ \A o \in Requests \ {r} : ~open(o)
  BY <1>1, TheOpenOne
<1>3. request' = [request EXCEPT ![r] = q]
  BY DEF SaveSession
<1>4. /\ q \in Request /\ q.at = "wrote" /\ q.kind = request[r].kind
      /\ q.newPassword = request[r].newPassword /\ q.dropPasskeys = request[r].dropPasskeys
      /\ q.dropSessions = request[r].dropSessions /\ q.passkey = request[r].passkey
      /\ q.token = request[r].token /\ q.session = request[r].session
      /\ q.oldPassword = request[r].oldPassword
      /\ q.sawPassword = request[r].sawPassword /\ q.sawPasskeys = request[r].sawPasskeys
  BY <1>2 DEF Request
<1> HIDE DEF q
<1>5. Progress(q)
  BY <1>1, <1>2, <1>4 DEF Progress
<1>6. Held(q)
  BY <1>1, <1>2, <1>4 DEF Held, Seen, Allowed, OpenPhases
<1>7. QED
  BY <1>2, <1>3, <1>4, <1>5, <1>6, RequestStep DEF SaveSession, spends, Resets

(* A transaction is rolled back.                                           *)
LEMMA RollbackPreserves ==
  ASSUME IInv, NEW r \in Requests, Rollback(r)
  PROVE  IInv'
<1> DEFINE q == [request[r] EXCEPT !.at = "refused", !.dropPasskeys = {},
                                   !.dropTokens = {}, !.dropSessions = {}]
<1>1. request[r] \in Request /\ Progress(request[r]) /\ request[r].at # "unsent"
  BY TheOpenOne DEF Rollback, OpenPhases
<1>2. request' = [request EXCEPT ![r] = q]
  BY DEF Rollback
<1>3. /\ q \in Request /\ q.at = "refused" /\ q.dropPasskeys = {} /\ q.dropSessions = {}
      /\ q.kind = request[r].kind /\ q.passkey = request[r].passkey
  BY <1>1 DEF Request
<1> HIDE DEF q
<1>4. Progress(q) /\ Held(q)
  BY <1>1, <1>3 DEF Progress, Held, OpenPhases
<1>5. QED
  BY <1>2, <1>3, <1>4, RequestStep DEF Rollback, spends, OpenPhases

-----------------------------------------------------------------------------
(* With no transaction open, the requests hold whatever the tables are.    *)
LEMMA NobodyOpen ==
  ASSUME TypeOK', \A r \in Requests : ~open(r)', \A r \in Requests : Progress(request'[r]),
         TokensSpent', LoginMethodRemains', SignedOutForGood'
  PROVE  IInv'
<1>1. OneOpen'
  BY DEF OneOpen
<1>2. \A r \in Requests : request'[r].at \notin OpenPhases
  BY DEF open, OpenPhases
<1>3. RequestsHold'
  <2>1. \A r \in Requests : Held(request[r])'
    BY <1>2 DEF Held, Seen, Allowed, OpenPhases
  <2>2. \A r \in Requests : Progress(request[r])'
    BY DEF Progress
  <2>3. QED BY <2>1, <2>2 DEF RequestsHold
<1>4. QED BY <1>1, <1>3 DEF IInv

(* What a commit leaves of the request, and of the others.                 *)
LEMMA OthersStay ==
  ASSUME IInv, NEW r \in Requests, NEW q \in Request, q.at \notin OpenPhases,
         Progress(q), \A o \in Requests \ {r} : ~open(o),
         request' = [request EXCEPT ![r] = q]
  PROVE  /\ request' \in [Requests -> Request]
         /\ request'[r] = q /\ \A o \in Requests \ {r} : request'[o] = request[o]
         /\ \A o \in Requests : ~open(o)' /\ Progress(request'[o])
<1>1. request'[r] = q /\ \A o \in Requests \ {r} : request'[o] = request[o]
  BY DEF IInv, TypeOK
<1>2. request' \in [Requests -> Request]
  BY DEF IInv, TypeOK
<1>3. ASSUME NEW o \in Requests
      PROVE  ~open(o)' /\ Progress(request'[o])
  <2>1. CASE o = r
    BY <1>1, <2>1 DEF open, OpenPhases
  <2>2. CASE o # r
    BY <1>1, <2>2 DEF IInv, RequestsHold, open
  <2>3. QED BY <2>1, <2>2
<1>4. QED BY <1>1, <1>2, <1>3

(* Who deletes the token of its link has spent it, and nobody before it.   *)
LEMMA TokenIsSpent ==
  ASSUME IInv, NEW r \in Requests, NEW q,
         request'[r] = q /\ \A o \in Requests \ {r} : request'[o] = request[o],
         tokens' \subseteq tokens,
         spends(q) => q.token \in tokens \ tokens'
  PROVE  TokensSpent'
<1>1. \A o \in Requests : spends(request[o])' = spends(request'[o])
  BY DEF spends
<1>2. \A o \in Requests \ {r} :
        spends(request'[o]) => spends(request[o]) /\ request[o].token \notin tokens
  BY DEF IInv, TokensSpent
<1>3. \A o \in Requests : spends(request'[o]) => request'[o].token \notin tokens'
  <2>1. spends(request'[r]) => request'[r].token \notin tokens'
    OBVIOUS
  <2>2. \A o \in Requests \ {r} : spends(request'[o]) => request'[o].token \notin tokens'
    BY <1>2
  <2>3. QED BY <2>1, <2>2
<1>4. ASSUME NEW r1 \in Requests, NEW r2 \in Requests,
             spends(request'[r1]), spends(request'[r2]),
             request'[r1].token = request'[r2].token
      PROVE  r1 = r2
  <2>1. CASE r1 # r /\ r2 # r
    BY <1>2, <1>4, <2>1 DEF IInv, TokensSpent
  <2>2. CASE r1 = r /\ r2 # r
    BY <1>2, <1>4, <2>2
  <2>3. CASE r1 # r /\ r2 = r
    BY <1>2, <1>4, <2>3
  <2>4. QED BY <2>1, <2>2, <2>3
<1>5. QED BY <1>1, <1>3, <1>4 DEF TokensSpent

-----------------------------------------------------------------------------
(* The commit.  What it deletes still leaves a way to log in, because what *)
(* its handler has counted is what it finds.                               *)
LEMMA CommitLeavesMethod ==
  ASSUME IInv, NEW r \in Requests, Commit(r)
  PROVE  LoginMethodRemains'
<1> DEFINE q == request[r]
<1>1. open(r) /\ q.at \in OpenPhases \ {"begun", "checked"}
  BY DEF Commit, complete, open, OpenPhases
<1>2. /\ q \in Request /\ Progress(q) /\ Allowed(q)
  BY <1>1, TheOpenOne DEF Held
<1>3. password # 0 \/ passkeys # {}
  BY DEF IInv, LoginMethodRemains
<1>4. /\ password' = IF q.kind \in {"deletePassword", "changePassword", "resetPassword"}
                     THEN q.newPassword ELSE password
      /\ passkeys' = passkeys \ q.dropPasskeys
  BY <1>1 DEF Commit, hasWritten, OpenPhases
<1>5. CASE q.kind = "deletePassword"
  BY <1>2, <1>4, <1>5 DEF Progress, Allowed, LoginMethodRemains
<1>6. CASE q.kind \in {"changePassword", "resetPassword"}
  BY <1>1, <1>2, <1>4, <1>6 DEF Progress, OpenPhases, LoginMethodRemains
<1>7. CASE q.kind = "deletePasskeys"
  BY <1>2, <1>4, <1>7 DEF Allowed, LoginMethodRemains
<1>8. CASE q.kind = "deletePasskey"
  <2>1. password' = password
    BY <1>4, <1>8
  <2>2. q.dropPasskeys \subseteq {q.passkey}
    BY <1>2, <1>8 DEF Progress
  <2>3. CASE password # 0
    BY <2>1, <2>3 DEF LoginMethodRemains
  <2>4. CASE Cardinality(passkeys) >= 2
    <3>1. passkeys \notin {{}, {q.passkey}}
      <4>1. Cardinality({}) = 0
        BY FS_EmptySet
      <4>2. Cardinality({q.passkey}) = 1
        BY FS_Singleton
      <4>3. QED BY <2>4, <4>1, <4>2
    <3>2. passkeys \ q.dropPasskeys # {}
      BY <2>2, <3>1
    <3>3. QED BY <1>4, <3>2 DEF LoginMethodRemains
  <2>5. QED BY <1>2, <1>8, <2>3, <2>4 DEF Allowed
<1>9. CASE q.kind \in ByAdmin \cup {"finishLogin"}
  BY <1>2, <1>3, <1>4, <1>9 DEF Progress, ByAdmin, LoginMethodRemains
<1>10. QED
  BY <1>5, <1>6, <1>7, <1>8, <1>9 DEF Commit, complete, ByAdmin

LEMMA CommitPreserves ==
  ASSUME IInv, NEW r \in Requests, Commit(r)
  PROVE  IInv'
<1> DEFINE q == [request[r] EXCEPT !.at = "succeeded", !.dropPasskeys = {},
                                   !.dropTokens = {}, !.dropSessions = {}]
<1>1. open(r) /\ request[r].at \in OpenPhases \ {"begun", "checked"}
  BY DEF Commit, complete, open, OpenPhases
<1>2. /\ request[r] \in Request /\ Progress(request[r]) /\ Held(request[r])
      /\ \A o \in Requests \ {r} : ~open(o)
  BY <1>1, TheOpenOne
<1>3. request' = [request EXCEPT ![r] = q]
  BY DEF Commit
<1>4. /\ q \in Request /\ q.at = "succeeded" /\ q.dropPasskeys = {} /\ q.dropSessions = {}
      /\ q.kind = request[r].kind /\ q.token = request[r].token
      /\ q.passkey = request[r].passkey
  BY <1>2 DEF Request
<1> HIDE DEF q
<1>5. q.at \notin OpenPhases /\ Progress(q)
  BY <1>1, <1>2, <1>4 DEF OpenPhases, Progress
<1>6. /\ request' \in [Requests -> Request]
      /\ request'[r] = q /\ \A o \in Requests \ {r} : request'[o] = request[o]
      /\ \A o \in Requests : ~open(o)' /\ Progress(request'[o])
  BY <1>2, <1>3, <1>4, <1>5, OthersStay
<1>7. TypeOK'
  <2>1. /\ password' \in Versions /\ passkeys' \subseteq Passkeys /\ tokens' \subseteq Tokens
    BY <1>2 DEF Commit, IInv, TypeOK, Request
  <2>2. request[r].kind = "finishLogin" => request[r].session \in sessions
    BY <1>1, <1>2 DEF Held, Allowed
  <2>3. sessions' \subseteq Sessions /\ signedOut' \subseteq Sessions
    BY <1>2, <2>2 DEF Commit, IInv, TypeOK, Request
  <2>4. QED BY <1>6, <2>1, <2>3 DEF TypeOK
<1>8. TokensSpent'
  <2>1. tokens' = tokens \ request[r].dropTokens
    BY DEF Commit
  <2>2. spends(q) => request[r].at \in {"droppedTokens", "endedSessions"}
    BY <1>4 DEF Commit, complete, spends, Resets
  <2>3. spends(q) => q.token \in request[r].dropTokens /\ q.token \in tokens
    BY <1>1, <1>2, <1>4, <2>2 DEF Held, Seen, spends
  <2>4. QED BY <1>6, <2>1, <2>3, TokenIsSpent
<1>9. SignedOutForGood'
  <2>1. CASE request[r].kind = "finishLogin"
    <3>1. request[r].dropSessions = {} /\ request[r].session \in sessions
      BY <1>1, <1>2, <2>1 DEF Progress, Held, Allowed
    <3>2. sessions' = sessions \cup {request[r].session}
      BY <2>1 DEF Commit
    <3>3. signedOut' = signedOut \cup request[r].dropSessions
      BY DEF Commit
    <3>4. QED BY <3>1, <3>2, <3>3 DEF IInv, SignedOutForGood
  <2>2. CASE request[r].kind # "finishLogin"
    BY <2>2 DEF Commit, IInv, SignedOutForGood
  <2>3. QED BY <2>1, <2>2
<1>10. QED
  BY <1>6, <1>7, <1>8, <1>9, CommitLeavesMethod, NobodyOpen

(* The first transaction of a passkey reset.                               *)
LEMMA CommitChallengePreserves ==
  ASSUME IInv, NEW r \in Requests, CommitChallenge(r)
  PROVE  IInv'
<1> DEFINE q == [request[r] EXCEPT !.at = "betweenTransactions", !.dropTokens = {}]
<1>1. open(r) /\ request[r].at = "droppedTokens" /\ request[r].kind = "resetPasskey"
  BY DEF CommitChallenge, open
<1>2. /\ request[r] \in Request /\ Progress(request[r]) /\ Held(request[r])
      /\ \A o \in Requests \ {r} : ~open(o)
  BY <1>1, TheOpenOne
<1>3. request' = [request EXCEPT ![r] = q]
  BY DEF CommitChallenge
<1>4. /\ q \in Request /\ q.at = "betweenTransactions"
      /\ q.kind = request[r].kind /\ q.token = request[r].token
      /\ q.passkey = request[r].passkey
      /\ q.dropPasskeys = request[r].dropPasskeys /\ q.dropSessions = request[r].dropSessions
  BY <1>2 DEF Request
<1> HIDE DEF q
<1>5. q.at \notin OpenPhases /\ Progress(q)
  BY <1>1, <1>2, <1>4 DEF OpenPhases, Progress
<1>6. /\ request' \in [Requests -> Request]
      /\ request'[r] = q /\ \A o \in Requests \ {r} : request'[o] = request[o]
      /\ \A o \in Requests : ~open(o)' /\ Progress(request'[o])
  BY <1>2, <1>3, <1>4, <1>5, OthersStay
<1>7. tokens' = tokens \ request[r].dropTokens
  BY DEF CommitChallenge
<1>8. q.token \in request[r].dropTokens /\ q.token \in tokens
  BY <1>1, <1>2, <1>4 DEF Held, Seen, Resets, OpenPhases
<1>9. TokensSpent'
  BY <1>6, <1>7, <1>8, TokenIsSpent
<1>10. TypeOK' /\ LoginMethodRemains' /\ SignedOutForGood'
  BY <1>6, <1>7 DEF CommitChallenge, IInv, TypeOK, LoginMethodRemains, SignedOutForGood
<1>11. QED
  BY <1>6, <1>9, <1>10, NobodyOpen

(* The second one, which nobody else's open transaction overlaps.          *)
LEMMA AddPasskeyPreserves ==
  ASSUME IInv, SERIALIZED, NEW r \in Requests, NEW verified \in BOOLEAN,
         AddPasskey(r, verified)
  PROVE  IInv'
<1> DEFINE phase == IF verified THEN "succeeded" ELSE "refused"
           q == [request[r] EXCEPT !.at = phase]
<1>1. /\ request[r] \in Request /\ Progress(request[r])
      /\ request[r].at = "betweenTransactions"
      /\ \A o \in Requests : ~open(o)
  BY DEF IInv, TypeOK, RequestsHold, AddPasskey, connectionFree
<1>2. request' = [request EXCEPT ![r] = q]
  BY DEF AddPasskey
<1>3. phase \in {"succeeded", "refused"}
  OBVIOUS
<1> HIDE DEF phase
<1>4. /\ q \in Request /\ q.at = phase /\ q.kind = request[r].kind
      /\ q.token = request[r].token /\ q.passkey = request[r].passkey
      /\ q.dropPasskeys = request[r].dropPasskeys /\ q.dropSessions = request[r].dropSessions
  BY <1>1, <1>3 DEF Request
<1> HIDE DEF q
<1>5. q.at \notin OpenPhases /\ Progress(q)
  BY <1>1, <1>3, <1>4 DEF OpenPhases, Progress
<1>6. /\ request' \in [Requests -> Request]
      /\ request'[r] = q /\ \A o \in Requests \ {r} : request'[o] = request[o]
      /\ \A o \in Requests : ~open(o)' /\ Progress(request'[o])
  BY <1>1, <1>2, <1>4, <1>5, OthersStay
<1>7. TokensSpent'
  <2>1. \A o \in Requests : spends(request'[o]) =>
          spends(request[o]) /\ request'[o].token = request[o].token
    BY <1>1, <1>4, <1>6 DEF spends
  <2>2. \A o \in Requests : spends(request[o])' = spends(request'[o])
    BY DEF spends
  <2>3. tokens' = tokens
    BY DEF AddPasskey
  <2>4. QED BY <2>1, <2>2, <2>3 DEF IInv, TokensSpent
<1>8. TypeOK'
  <2>1. passkeys' \subseteq Passkeys
    <3>1. request[r].passkey \in Passkeys
      BY <1>1 DEF Progress
    <3>2. QED BY <3>1 DEF AddPasskey, IInv, TypeOK
  <2>2. QED BY <1>6, <2>1 DEF AddPasskey, IInv, TypeOK
<1>9. LoginMethodRemains' /\ SignedOutForGood'
  BY DEF AddPasskey, IInv, LoginMethodRemains, SignedOutForGood
<1>10. QED
  BY <1>6, <1>7, <1>8, <1>9, NobodyOpen

-----------------------------------------------------------------------------
(* A link is sent with a new challenge; a login opens a session.           *)
LEMMA CreatePasswordResetPreserves ==
  ASSUME IInv, SERIALIZED, NEW t \in Tokens, createPasswordReset(t)
  PROVE  IInv'
<1>1. \A o \in Requests : ~open(o) /\ request[o].token # t
  BY DEF createPasswordReset, connectionFree
<1>2. tokens' = tokens \cup {t} /\ request' = request
  BY DEF createPasswordReset
<1>3. \A o \in Requests : ~open(o)' /\ Progress(request'[o])
  BY <1>1, <1>2 DEF open, IInv, RequestsHold
<1>4. TokensSpent'
  <2>1. \A o \in Requests : spends(request[o])' = spends(request[o])
    BY <1>2 DEF spends
  <2>2. QED BY <1>1, <1>2, <2>1 DEF IInv, TokensSpent
<1>5. TypeOK' /\ LoginMethodRemains' /\ SignedOutForGood'
  BY <1>2 DEF createPasswordReset, IInv, TypeOK, LoginMethodRemains, SignedOutForGood
<1>6. QED BY <1>3, <1>4, <1>5, NobodyOpen

LEMMA LoginPreserves ==
  ASSUME IInv, SERIALIZED, NEW s \in Sessions, Login(s)
  PROVE  IInv'
<1>1. \A o \in Requests : ~open(o)
  BY DEF Login, connectionFree
<1>2. /\ sessions' = sessions \cup {s} /\ s \notin signedOut
      /\ UNCHANGED <<password, passkeys, tokens, request, signedOut>>
  BY DEF Login
<1>3. \A o \in Requests : ~open(o)' /\ Progress(request'[o])
  BY <1>1, <1>2 DEF open, IInv, RequestsHold
<1>4. TokensSpent'
  BY <1>2 DEF IInv, TokensSpent, spends
<1>5. TypeOK' /\ LoginMethodRemains' /\ SignedOutForGood'
  BY <1>2 DEF IInv, TypeOK, LoginMethodRemains, SignedOutForGood
<1>6. QED BY <1>3, <1>4, <1>5, NobodyOpen

-----------------------------------------------------------------------------
(* The invariant.                                                          *)
LEMMA InitHolds ==
  Init => IInv
<1> SUFFICES ASSUME Init PROVE IInv
  OBVIOUS
<1>1. Cardinality(Requests) \in Nat
  BY CredentialsAssumption, FS_CardinalityType
<1>2. 0 \in Versions /\ 1 \in Versions
  BY <1>1 DEF Versions
<1>3. NewRequest \in Request
  BY <1>2 DEF NewRequest, Request, Kinds
<1>4. TypeOK
  BY <1>2, <1>3, CredentialsAssumption DEF Init, TypeOK
<1>5. \A r \in Requests : request[r] = NewRequest
  BY DEF Init
<1>6. Progress(NewRequest) /\ Held(NewRequest) /\ ~spends(NewRequest)
  BY DEF NewRequest, Progress, Held, OpenPhases, spends
<1>7. OneOpen
  BY <1>5 DEF OneOpen, open, NewRequest
<1>8. RequestsHold /\ TokensSpent
  BY <1>5, <1>6 DEF RequestsHold, TokensSpent
<1>9. LoginMethodRemains /\ SignedOutForGood
  BY DEF Init, LoginMethodRemains, SignedOutForGood
<1>10. QED BY <1>4, <1>7, <1>8, <1>9 DEF IInv

LEMMA StutterPreserves ==
  ASSUME IInv, UNCHANGED vars
  PROVE  IInv'
<1> USE DEF vars
<1>1. TypeOK' /\ OneOpen' /\ LoginMethodRemains' /\ SignedOutForGood'
  BY DEF IInv, TypeOK, OneOpen, open, LoginMethodRemains, SignedOutForGood
<1>2. TokensSpent'
  BY DEF IInv, TokensSpent, spends
<1>3. \A r \in Requests : Progress(request[r])' /\ Held(request[r])'
  BY DEF IInv, RequestsHold, Progress, Held, Seen, Allowed
<1>4. RequestsHold'
  BY <1>3 DEF RequestsHold
<1>5. QED BY <1>1, <1>2, <1>4 DEF IInv

LEMMA IInvInductive ==
  ASSUME SERIALIZED, IInv, [Next]_vars
  PROVE  IInv'
<1>1. ASSUME NEW r \in Requests, NEW kind \in Kinds, NEW s \in Sessions,
             NEW k \in Passkeys \cup {Nothing}, NEW old \in Versions,
             Begin(r, kind, s, k, old)
      PROVE  IInv'
  BY <1>1, BeginPreserves
<1>2. ASSUME NEW r \in Requests, NEW kind \in Resets, NEW t \in Tokens,
             NEW k \in Passkeys \cup {Nothing}, BeginReset(r, kind, t, k)
      PROVE  IInv'
  BY <1>2, BeginResetPreserves
<1>3. ASSUME NEW r \in Requests, NEW kind \in ByAdmin, NEW t \in tokens \cup {Nothing},
             BeginByAdmin(r, kind, t)
      PROVE  IInv'
  BY <1>3, BeginByAdminPreserves
<1>4. ASSUME NEW r \in Requests,
             \/ Check(r) \/ WritePassword(r) \/ DeletePasskeys(r) \/ DeleteTokens(r)
             \/ EndSessions(r) \/ SaveSession(r) \/ Commit(r) \/ CommitChallenge(r)
             \/ Rollback(r)
      PROVE  IInv'
  BY <1>4, CheckPreserves, WritePasswordPreserves, DeletePasskeysPreserves,
     DeleteTokensPreserves, EndSessionsPreserves, SaveSessionPreserves, CommitPreserves,
     CommitChallengePreserves, RollbackPreserves
<1>5. ASSUME NEW r \in Requests, NEW verified \in BOOLEAN, AddPasskey(r, verified)
      PROVE  IInv'
  BY <1>5, AddPasskeyPreserves
<1>6. ASSUME NEW t \in Tokens, SendPasswordReset(t) \/ CreatePasswordReset(t)
      PROVE  IInv'
  BY <1>6, CreatePasswordResetPreserves DEF SendPasswordReset, CreatePasswordReset
<1>7. ASSUME NEW s \in Sessions, Login(s)
      PROVE  IInv'
  BY <1>7, LoginPreserves
<1>8. CASE UNCHANGED vars
  BY <1>8, StutterPreserves
<1>9. QED
  BY <1>1, <1>2, <1>3, <1>4, <1>5, <1>6, <1>7, <1>8 DEF Next

(* With transactions one at a time, what a request of this user has read,  *)
(* checked and written stays true until its transaction ends.              *)
THEOREM CredentialsInvariant ==
  ASSUME SERIALIZED PROVE Spec => []IInv
BY InitHolds, IInvInductive, PTL DEF Spec

(* Every table, request and history has its type: in particular versions   *)
(* of the password never run out.                                          *)
THEOREM CredentialsTypeInvariant ==
  ASSUME SERIALIZED PROVE Spec => []TypeOK
<1>1. IInv => TypeOK
  BY DEF IInv
<1>2. QED BY <1>1, CredentialsInvariant, PTL

(* Deletions of the password and of passkeys, in whatever order the        *)
(* handlers of routes/user.ts commit them, leave the user a login method.  *)
THEOREM LoginMethodRemainsHolds ==
  ASSUME SERIALIZED PROVE Spec => []LoginMethodRemains
<1>1. IInv => LoginMethodRemains
  BY DEF IInv
<1>2. QED BY <1>1, CredentialsInvariant, PTL

(* A session that endSessions has deleted is never saved again by a login  *)
(* that was finishing meanwhile.                                           *)
THEOREM SignedOutForGoodHolds ==
  ASSUME SERIALIZED PROVE Spec => []SignedOutForGood
<1>1. IInv => SignedOutForGood
  BY DEF IInv
<1>2. QED BY <1>1, CredentialsInvariant, PTL

(* One link of a password reset serves one reset, of either kind, although *)
(* that of a passkey spans two transactions.                               *)
THEOREM OneResetPerTokenHolds ==
  ASSUME SERIALIZED PROVE Spec => []OneResetPerToken
<1>1. IInv => OneResetPerToken
  BY DEF IInv, TokensSpent, spends, OneResetPerToken
<1>2. QED BY <1>1, CredentialsInvariant, PTL

-----------------------------------------------------------------------------
(* Only a commit makes a request succeed.                                  *)
LEMMA WhoSucceeds ==
  ASSUME TypeOK, Next, NEW r \in Requests,
         request[r].at # "succeeded", request'[r].at = "succeeded"
  PROVE  Commit(r) \/ \E verified \in BOOLEAN : AddPasskey(r, verified)
<1>1. ASSUME NEW o \in Requests \ {r}, NEW q, request' = [request EXCEPT ![o] = q]
      PROVE  FALSE
  BY <1>1 DEF TypeOK
<1>2. request[r] \in Request
  BY DEF TypeOK
<1>3. ASSUME NEW q, q.at = "begun", request' = [request EXCEPT ![r] = q]
      PROVE  FALSE
  BY <1>3 DEF TypeOK
<1>4. ASSUME NEW kind, NEW s, NEW k, NEW old, Begin(r, kind, s, k, old)
      PROVE  FALSE
  <2> DEFINE q == [request[r] EXCEPT !.kind = kind, !.at = "begun", !.session = s,
                     !.passkey = k, !.oldPassword = old, !.sawPassword = password # 0,
                     !.sawPasskeys = passkeys # {}]
  <2>1. q.at = "begun"
    BY <1>2 DEF Request
  <2>2. request' = [request EXCEPT ![r] = q]
    BY <1>4 DEF Begin
  <2> HIDE DEF q
  <2>3. QED BY <1>3, <2>1, <2>2
<1>5. ASSUME NEW kind, NEW t, NEW k, BeginReset(r, kind, t, k) \/ BeginByAdmin(r, kind, t)
      PROVE  FALSE
  <2> DEFINE q == [request[r] EXCEPT !.kind = kind, !.at = "begun", !.token = t,
                     !.passkey = k, !.outstanding = tokens]
             a == [request[r] EXCEPT !.kind = kind, !.at = "begun", !.token = t]
  <2>1. q.at = "begun" /\ a.at = "begun"
    BY <1>2 DEF Request
  <2>2. request' = [request EXCEPT ![r] = q] \/ request' = [request EXCEPT ![r] = a]
    BY <1>5 DEF BeginReset, BeginByAdmin
  <2> HIDE DEF q, a
  <2>3. QED BY <1>3, <2>1, <2>2
<1>6. ~Check(r) /\ ~WritePassword(r) /\ ~DeletePasskeys(r) /\ ~DeleteTokens(r)
  BY <1>2 DEF Check, WritePassword, DeletePasskeys, DeleteTokens, TypeOK, Request
<1>7. ~EndSessions(r) /\ ~SaveSession(r) /\ ~CommitChallenge(r) /\ ~Rollback(r)
  BY <1>2 DEF EndSessions, SaveSession, CommitChallenge, Rollback, TypeOK, Request
<1>8. ASSUME NEW o \in Requests \ {r}
      PROVE  /\ \A kind, s, k, old : ~Begin(o, kind, s, k, old)
             /\ \A kind, t, k : ~BeginReset(o, kind, t, k)
             /\ \A kind, t : ~BeginByAdmin(o, kind, t)
             /\ \A verified : ~AddPasskey(o, verified)
  BY <1>1 DEF Begin, BeginReset, BeginByAdmin, AddPasskey, TypeOK
<1>9. ASSUME NEW o \in Requests \ {r},
              \/ Check(o) \/ WritePassword(o) \/ DeletePasskeys(o) \/ DeleteTokens(o)
              \/ EndSessions(o) \/ SaveSession(o) \/ Commit(o) \/ CommitChallenge(o)
              \/ Rollback(o)
       PROVE  FALSE
  BY <1>9 DEF Check, WritePassword, DeletePasskeys, DeleteTokens, EndSessions, SaveSession,
               Commit, CommitChallenge, Rollback, TypeOK
<1>10. \A t : ~SendPasswordReset(t) /\ ~CreatePasswordReset(t) /\ ~Login(t)
  BY DEF SendPasswordReset, CreatePasswordReset, createPasswordReset, Login
<1>11. PICK o \in Requests :
         \/ \E kind, s, k, old : Begin(o, kind, s, k, old)
         \/ \E kind, t, k : BeginReset(o, kind, t, k)
         \/ \E kind, t : BeginByAdmin(o, kind, t)
         \/ \E verified \in BOOLEAN : AddPasskey(o, verified)
         \/ Check(o) \/ WritePassword(o) \/ DeletePasskeys(o) \/ DeleteTokens(o)
         \/ EndSessions(o) \/ SaveSession(o) \/ Commit(o) \/ CommitChallenge(o)
         \/ Rollback(o)
  BY <1>10 DEF Next
<1>12. o = r
  BY <1>8, <1>9, <1>11
<1>13. QED BY <1>4, <1>5, <1>6, <1>7, <1>11, <1>12

(* changePassword replaces the very password whose hash it has compared.   *)
THEOREM ReplacesProvenPasswordHolds ==
  ASSUME SERIALIZED PROVE Spec => ReplacesProvenPassword
<1> DEFINE replaces ==
             \A r \in Requests :
               /\ request[r].kind = "changePassword"
               /\ request[r].at # "succeeded" /\ request'[r].at = "succeeded"
               => password \in {0, request[r].oldPassword}
<1>1. ASSUME IInv, [Next]_vars
      PROVE  [replaces]_vars
  <2> SUFFICES ASSUME Next, NEW r \in Requests, request[r].kind = "changePassword",
                      request[r].at # "succeeded", request'[r].at = "succeeded"
               PROVE  password \in {0, request[r].oldPassword}
    BY <1>1
  <2>1. Commit(r) \/ \E verified \in BOOLEAN : AddPasskey(r, verified)
    BY <1>1, WhoSucceeds DEF IInv
  <2>2. ~\E verified \in BOOLEAN : AddPasskey(r, verified)
    BY <1>1 DEF IInv, RequestsHold, Progress, AddPasskey
  <2>3. open(r) /\ request[r].at = "endedSessions"
    BY <2>1, <2>2 DEF Commit, complete, open
  <2>4. Allowed(request[r])
    BY <1>1, <2>3, TheOpenOne DEF Held, OpenPhases
  <2>5. QED BY <2>4 DEF Allowed
<1>2. QED BY <1>1, CredentialsInvariant, PTL DEF Spec, ReplacesProvenPassword
=============================================================================
