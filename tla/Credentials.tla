---------------------------- MODULE Credentials ----------------------------
(***************************************************************************)
(* The ways one user logs in, and what concurrent requests do to them: the *)
(* password, the passkeys, the outstanding password reset tokens and the   *)
(* sessions, as the handlers of routes/user.ts, routes/public.ts and       *)
(* routes/admin.ts, and loginResult, check and change them.                *)
(*                                                                         *)
(* Each request runs in a database transaction: one at a time on SQLite    *)
(* (SERIALIZED); side by side under READ COMMITTED on Postgres, where a    *)
(* statement sees what is committed, waits for the rows another open       *)
(* transaction has written, and then writes.  What a transaction has       *)
(* written is kept in its request until it commits.                        *)
(*                                                                         *)
(* The privileges the routes ask for are those of LoginFlow.               *)
(***************************************************************************)
EXTENDS Naturals, FiniteSets

CONSTANTS
  Requests,         \* each of them sent once
  Passkeys,
  Tokens,           \* challenges of the password_reset table
  Sessions,
  Nothing,          \* no passkey, token or session
  InitialPasskeys,  \* the sets of passkeys the user may start with
  SERIALIZED        \* SQLite rather than Postgres

ASSUME CredentialsAssumption ==
  /\ Nothing \notin Passkeys \cup Tokens \cup Sessions
  /\ InitialPasskeys \subseteq SUBSET Passkeys
  /\ SERIALIZED \in BOOLEAN
  /\ IsFiniteSet(Requests)

VARIABLES
  password,     \* the version of the password hash, 0 for none
  passkeys,     \* rows of the passkey table
  tokens,       \* unexpired rows of the password_reset table
  sessions,     \* rows of oidc_payloads of type Session
  request,
  signedOut     \* history: the sessions which endSessions has deleted

vars == <<password, passkeys, tokens, sessions, request, signedOut>>

(* Every write sets another password; there is at most one per request.    *)
Versions == 0..(Cardinality(Requests) + 1)

Kinds == {"deletePassword", "deletePasskey", "deletePasskeys", "changePassword",
          "resetPassword", "resetPasskey", "finishLogin", "signOut", "deleteReset"}
ByAdmin == {"signOut", "deleteReset"}
Resets == {"resetPassword", "resetPasskey"}

(***************************************************************************)
(* A request: what it is for, the user as its middleware or its first read *)
(* saw it, and the uncommitted writes of its transaction.                  *)
(***************************************************************************)
Request ==
  [kind : Kinds,
   at : {"unsent", "begun", "checked", "wrote", "droppedTokens", "endedSessions",
         "betweenTransactions", "refused", "succeeded"},
   passkey : Passkeys \cup {Nothing},
   token : Tokens \cup {Nothing},
   session : Sessions \cup {Nothing},
   oldPassword : Versions,
   sawPassword : BOOLEAN,
   sawPasskeys : BOOLEAN,
   newPassword : Versions,
   dropPasskeys : SUBSET Passkeys,
   outstanding : SUBSET Tokens,
   dropTokens : SUBSET Tokens,
   dropSessions : SUBSET Sessions]

NewRequest ==
  [kind |-> "finishLogin", at |-> "unsent", passkey |-> Nothing,
   token |-> Nothing, session |-> Nothing, oldPassword |-> 0,
   sawPassword |-> FALSE, sawPasskeys |-> FALSE, newPassword |-> 0,
   dropPasskeys |-> {}, outstanding |-> {}, dropTokens |-> {},
   dropSessions |-> {}]

Init ==
  /\ passkeys \in InitialPasskeys
  /\ password = 1
  /\ tokens = {}
  /\ sessions = {}
  /\ request = [r \in Requests |-> NewRequest]
  /\ signedOut = {}

-----------------------------------------------------------------------------
open(r) ==
  request[r].at \in {"begun", "checked", "wrote", "droppedTokens", "endedSessions"}
(* Mistaken: a pool of several connections, whatever the database.         *)
connectionPooled == TRUE

connectionFree == SERIALIZED => \A r \in Requests : ~open(r)

(* Rows written by another open transaction, for which a writer waits.     *)
others(r) == {o \in Requests \ {r} : open(o)}
hasWritten(o, kinds) ==
  request[o].kind \in kinds /\ request[o].at \in {"wrote", "droppedTokens", "endedSessions"}

userRowFree(r) ==
  \A o \in others(r) :
    ~hasWritten(o, {"deletePassword", "changePassword", "resetPassword"})
passkeysFree(r, rows) == \A o \in others(r) : request[o].dropPasskeys \cap rows = {}
tokensFree(r, rows) == \A o \in others(r) : request[o].dropTokens \cap rows = {}
sessionsFree(r, rows) ==
  \A o \in others(r) :
    /\ request[o].dropSessions \cap rows = {}
    /\ hasWritten(o, {"finishLogin"}) => request[o].session \notin rows

(* Versions are never reused, not even by a transaction that has not       *)
(* committed: two passwords hash differently.                              *)
freshVersion ==
  1 + Cardinality({r \in Requests : request[r].newPassword # 0}) + 1

-----------------------------------------------------------------------------
(***************************************************************************)
(* The start of a request: its transaction and req.user, from its session. *)
(***************************************************************************)
Begin(r, kind, s, k, old) ==
  /\ request[r].at = "unsent"
  /\ connectionFree
  /\ kind \in Kinds \ (Resets \cup ByAdmin)
  /\ s \in sessions
  /\ (k # Nothing) <=> (kind = "deletePasskey")
  /\ old # 0 => kind = "changePassword"
  /\ request' = [request EXCEPT ![r] =
       [@ EXCEPT !.kind = kind, !.at = "begun", !.session = s, !.passkey = k,
                 !.oldPassword = old, !.sawPassword = password # 0,
                 !.sawPasskeys = passkeys # {}]]
  /\ UNCHANGED <<password, passkeys, tokens, sessions, signedOut>>

(* Mistaken: a reset need not come with the passkey it is to add.          *)
BeginResetWithNothing(r, kind, t, k) ==
  /\ request[r].at = "unsent"
  /\ connectionFree
  /\ kind \in Resets
  /\ t \in tokens
  /\ request' = [request EXCEPT ![r] =
       [@ EXCEPT !.kind = kind, !.at = "begun", !.token = t, !.passkey = k,
                 !.outstanding = tokens]]
  /\ UNCHANGED <<password, passkeys, tokens, sessions, signedOut>>

(* A reset starts from the token of the link; k is the passkey it will add. *)
BeginReset(r, kind, t, k) ==
  /\ request[r].at = "unsent"
  /\ connectionFree
  /\ kind \in Resets
  /\ t \in tokens
  /\ (k # Nothing) <=> (kind = "resetPasskey")
  /\ request' = [request EXCEPT ![r] =
       [@ EXCEPT !.kind = kind, !.at = "begun", !.token = t, !.passkey = k,
                 !.outstanding = tokens]]
  /\ UNCHANGED <<password, passkeys, tokens, sessions, signedOut>>

(* An administrator signs the user out, or withdraws a link.               *)
BeginByAdmin(r, kind, t) ==
  /\ request[r].at = "unsent"
  /\ connectionFree
  /\ kind \in ByAdmin
  /\ (t # Nothing) <=> (kind = "deleteReset")
  /\ request' = [request EXCEPT ![r] = [@ EXCEPT !.kind = kind, !.at = "begun", !.token = t]]
  /\ UNCHANGED <<password, passkeys, tokens, sessions, signedOut>>

(* Mistaken by one: the last passkey may go.                               *)
allowedLastPasskey(r) ==
  LET q == request[r]
  IN CASE q.kind = "deletePasskey" -> q.sawPassword \/ Cardinality(passkeys) >= 1
       [] q.kind = "deletePassword" -> q.sawPasskeys /\ q.sawPassword
       [] q.kind = "deletePasskeys" -> q.sawPassword /\ q.sawPasskeys
       [] q.kind = "changePassword" -> q.sawPassword => q.oldPassword = password
       [] q.kind \in Resets \cup ByAdmin \cup {"finishLogin"} -> TRUE

(* Mistaken: an old password is asked for and not compared.                *)
allowedAnyPassword(r) ==
  LET q == request[r]
  IN CASE q.kind = "deletePasskey" -> q.sawPassword \/ Cardinality(passkeys) >= 2
       [] q.kind = "deletePassword" -> q.sawPasskeys /\ q.sawPassword
       [] q.kind = "deletePasskeys" -> q.sawPassword /\ q.sawPasskeys
       [] q.kind = "changePassword" -> q.sawPassword => q.oldPassword # 0
       [] q.kind \in Resets \cup ByAdmin \cup {"finishLogin"} -> TRUE

(***************************************************************************)
(* The checks of each handler.  Those of deletePassword and deletePasskeys *)
(* look at req.user; deletePasskey counts the rows again, and              *)
(* changePassword compares with the hash as it is now.                     *)
(***************************************************************************)
allowed(r) ==
  LET q == request[r]
  IN CASE q.kind = "deletePassword" -> q.sawPasskeys /\ q.sawPassword
       [] q.kind = "deletePasskeys" -> q.sawPassword /\ q.sawPasskeys
       [] q.kind = "deletePasskey" -> q.sawPassword \/ Cardinality(passkeys) >= 2
       [] q.kind = "changePassword" ->
            q.sawPassword => password # 0 /\ q.oldPassword = password
       [] q.kind = "finishLogin" -> q.session \in sessions
       [] q.kind \in Resets \cup ByAdmin -> TRUE

Check(r) ==
  /\ request[r].at = "begun"
  /\ request' = [request EXCEPT ![r].at = IF allowed(r) THEN "checked" ELSE "refused"]
  /\ UNCHANGED <<password, passkeys, tokens, sessions, signedOut>>

-----------------------------------------------------------------------------
(* The writes, one statement each.                                         *)

(* passwordHash: null, or the hash of another password.                    *)
WritePassword(r) ==
  /\ request[r].at = "checked"
  /\ request[r].kind \in {"deletePassword", "changePassword", "resetPassword"}
  /\ userRowFree(r)
  /\ request' = [request EXCEPT
       ![r].at = "wrote",
       ![r].newPassword = IF request[r].kind = "deletePassword" THEN 0 ELSE freshVersion]
  /\ UNCHANGED <<password, passkeys, tokens, sessions, signedOut>>

(* One passkey, which may be gone by now (404), or all there are.          *)
DeletePasskeys(r) ==
  LET rows == IF request[r].kind = "deletePasskey"
              THEN {request[r].passkey} \cap passkeys ELSE passkeys
  IN /\ request[r].at = "checked"
     /\ request[r].kind \in {"deletePasskey", "deletePasskeys"}
     /\ passkeysFree(r, rows)
     /\ request' = [request EXCEPT ![r].dropPasskeys = rows,
          ![r].at = IF rows = {} THEN "refused" ELSE "wrote"]
     /\ UNCHANGED <<password, passkeys, tokens, sessions, signedOut>>

(* A password reset deletes the tokens of the user, a passkey reset its    *)
(* own, and an administrator one that may be gone by now (404).            *)
DeleteTokens(r) ==
  LET rows == IF request[r].kind = "resetPassword" THEN tokens
              ELSE {request[r].token} \cap tokens
  IN /\ \/ request[r].kind = "resetPassword" /\ request[r].at = "wrote"
        \/ request[r].kind \in {"resetPasskey", "deleteReset"} /\ request[r].at = "checked"
     /\ tokensFree(r, rows)
     /\ request' = [request EXCEPT ![r].dropTokens = rows,
          ![r].at = IF request[r].kind = "deleteReset" /\ rows = {} THEN "refused"
                    ELSE "droppedTokens"]
     /\ UNCHANGED <<password, passkeys, tokens, sessions, signedOut>>

(* endSessions.                                                            *)
EndSessions(r) ==
  /\ \/ request[r].kind = "changePassword" /\ request[r].at = "wrote"
     \/ request[r].kind = "resetPassword" /\ request[r].at = "droppedTokens"
     \/ request[r].kind = "signOut" /\ request[r].at = "checked"
  /\ sessionsFree(r, sessions)
  /\ request' = [request EXCEPT ![r].dropSessions = sessions, ![r].at = "endedSessions"]
  /\ UNCHANGED <<password, passkeys, tokens, sessions, signedOut>>

(* loginResult: session.save inserts the row, or overwrites it.            *)
SaveSession(r) ==
  /\ request[r].kind = "finishLogin"
  /\ request[r].at = "checked"
  /\ sessionsFree(r, {request[r].session})
  /\ request' = [request EXCEPT ![r].at = "wrote"]
  /\ UNCHANGED <<password, passkeys, tokens, sessions, signedOut>>

-----------------------------------------------------------------------------
(* Everything has been written, and the response was sent.                 *)
complete(r) ==
  \/ /\ request[r].kind \in {"deletePassword", "deletePasskey", "deletePasskeys", "finishLogin"}
     /\ request[r].at = "wrote"
  \/ /\ request[r].kind \in {"changePassword", "resetPassword", "signOut"}
     /\ request[r].at = "endedSessions"
  \/ request[r].kind = "deleteReset" /\ request[r].at = "droppedTokens"

Commit(r) ==
  LET q == request[r]
  IN /\ complete(r)
     /\ password' = IF hasWritten(r, {"deletePassword", "changePassword", "resetPassword"})
                    THEN q.newPassword ELSE password
     /\ passkeys' = passkeys \ q.dropPasskeys
     /\ tokens' = tokens \ q.dropTokens
     /\ sessions' = IF q.kind = "finishLogin" THEN sessions \cup {q.session}
                    ELSE sessions \ q.dropSessions
     /\ signedOut' = signedOut \cup q.dropSessions
     /\ request' = [request EXCEPT ![r].at = "succeeded", ![r].dropPasskeys = {},
                                   ![r].dropTokens = {}, ![r].dropSessions = {}]

(* Mistaken: the first transaction is given up, with what it deleted.      *)
RollbackChallenge(r) ==
  /\ request[r].kind = "resetPasskey"
  /\ request[r].at = "droppedTokens"
  /\ request' = [request EXCEPT ![r].at = "betweenTransactions", ![r].dropTokens = {}]
  /\ UNCHANGED <<password, passkeys, tokens, sessions, signedOut>>

(* getRegistrationInfo commits, so that a challenge is used once whatever  *)
(* comes of it, and goes on in a second transaction.                       *)
CommitChallenge(r) ==
  /\ request[r].kind = "resetPasskey"
  /\ request[r].at = "droppedTokens"
  /\ tokens' = tokens \ request[r].dropTokens
  /\ request' = [request EXCEPT ![r].at = "betweenTransactions", ![r].dropTokens = {}]
  /\ UNCHANGED <<password, passkeys, sessions, signedOut>>

(* The second transaction: the passkey is verified and saved, or is not.   *)
AddPasskey(r, verified) ==
  /\ request[r].at = "betweenTransactions"
  /\ connectionFree
  /\ passkeys' = IF verified THEN passkeys \cup {request[r].passkey} ELSE passkeys
  /\ request' = [request EXCEPT ![r].at = IF verified THEN "succeeded" ELSE "refused"]
  /\ UNCHANGED <<password, tokens, sessions, signedOut>>

(* A database error answers 500, and the transaction is rolled back.       *)
Rollback(r) ==
  /\ open(r)
  /\ request' = [request EXCEPT ![r].at = "refused", ![r].dropPasskeys = {},
                                ![r].dropTokens = {}, ![r].dropSessions = {}]
  /\ UNCHANGED <<password, passkeys, tokens, sessions, signedOut>>

-----------------------------------------------------------------------------
(* createPasswordReset, each time with a new challenge.                    *)
createPasswordReset(t) ==
  /\ connectionFree
  /\ t \notin tokens
  /\ \A r \in Requests : request[r].token # t
  /\ tokens' = tokens \cup {t}
  /\ UNCHANGED <<password, passkeys, sessions, request, signedOut>>

(* By the user, POST /public/send_password_reset, or an administrator.     *)
SendPasswordReset(t) == createPasswordReset(t)
CreatePasswordReset(t) == createPasswordReset(t)

(* A completed login opens a session with a new id.                        *)
Login(s) ==
  /\ connectionFree
  /\ password # 0 \/ passkeys # {}
  /\ s \notin sessions \cup signedOut
  /\ sessions' = sessions \cup {s}
  /\ UNCHANGED <<password, passkeys, tokens, request, signedOut>>

Next ==
  \/ \E r \in Requests, kind \in Kinds, s \in Sessions,
        k \in Passkeys \cup {Nothing}, old \in Versions : Begin(r, kind, s, k, old)
  \/ \E r \in Requests, kind \in Resets, t \in Tokens,
        k \in Passkeys \cup {Nothing} : BeginReset(r, kind, t, k)
  \/ \E r \in Requests, kind \in ByAdmin, t \in tokens \cup {Nothing} : BeginByAdmin(r, kind, t)
  \/ \E r \in Requests : Check(r)
  \/ \E r \in Requests : WritePassword(r)
  \/ \E r \in Requests : DeletePasskeys(r)
  \/ \E r \in Requests : DeleteTokens(r)
  \/ \E r \in Requests : EndSessions(r)
  \/ \E r \in Requests : SaveSession(r)
  \/ \E r \in Requests : Commit(r)
  \/ \E r \in Requests : CommitChallenge(r)
  \/ \E r \in Requests, verified \in BOOLEAN : AddPasskey(r, verified)
  \/ \E r \in Requests : Rollback(r)
  \/ \E t \in Tokens : SendPasswordReset(t) \/ CreatePasswordReset(t)
  \/ \E s \in Sessions : Login(s)

Spec == Init /\ [][Next]_vars

-----------------------------------------------------------------------------
TypeOK ==
  /\ password \in Versions
  /\ passkeys \subseteq Passkeys
  /\ tokens \subseteq Tokens
  /\ sessions \subseteq Sessions
  /\ request \in [Requests -> Request]
  /\ signedOut \subseteq Sessions

(***************************************************************************)
(* "Either user has password or will have passkey(s) remaining after       *)
(* delete": no sequence of deletions leaves the user without a way to log  *)
(* in, although each handler looks at only one half of the condition.      *)
(***************************************************************************)
LoginMethodRemains == password # 0 \/ passkeys # {}

(***************************************************************************)
(* "Changing your password now signs out all other sessions": a session    *)
(* which endSessions has deleted does not come back.                       *)
(***************************************************************************)
SignedOutForGood == sessions \cap signedOut = {}

(* A reset link works once, for either kind of reset.                      *)
OneResetPerToken ==
  \A r1, r2 \in Requests :
    /\ request[r1].kind \in Resets /\ request[r1].at = "succeeded"
    /\ request[r2].kind \in Resets /\ request[r2].at = "succeeded"
    /\ request[r1].token = request[r2].token
    => r1 = r2

(***************************************************************************)
(* A password changed with the old one replaces that very password, never  *)
(* one which somebody has set since.                                       *)
(***************************************************************************)
ReplacesProvenPassword ==
  [][\A r \in Requests :
       /\ request[r].kind = "changePassword"
       /\ request[r].at # "succeeded" /\ request'[r].at = "succeeded"
       => password \in {0, request[r].oldPassword}]_vars

(***************************************************************************)
(* "Successful reset deletes all outstanding tokens for the user": none of *)
(* the links which existed when a reset began works after it.              *)
(***************************************************************************)
ResetSpendsAllTokens ==
  [][\A r \in Requests :
       /\ request[r].kind \in Resets
       /\ request[r].at # "succeeded" /\ request'[r].at = "succeeded"
       => tokens' \cap request[r].outstanding = {}]_vars
=============================================================================
