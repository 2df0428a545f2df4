---------------------------- MODULE LdapServer ----------------------------
(***************************************************************************)
(* The LDAP directory (ldap/server.ts, ldap/directory.ts): connections     *)
(* admitted up to a limit, frames read from each connection's buffer, and  *)
(* binds, searches and compares answered out of the user tables.           *)
(*                                                                         *)
(* Every piece of data that arrives starts a loop over the buffer          *)
(* (processBuffer).  A loop that waits for the database or for a password  *)
(* check does not keep the next one from taking the frames behind: the     *)
(* requests of one connection are answered side by side.                   *)
(*                                                                         *)
(* A loop's turn between two frames is a step of its own, so is every      *)
(* await; the event loop may let fewer other steps in between.             *)
(***************************************************************************)
EXTENDS ArgonPool, BindBackoff, AuthFactors, Sequences

CONSTANTS
  Conns,              \* names for sockets, reused once all about them is over
  Loops,              \* numbers for the loops of one connection
  Users,
  RemoteUsers,        \* the accounts a synchronisation may link
  Service,            \* LDAP_BIND_DN
  Anonymous,
  NoAccount,
  Chunks,             \* what may arrive at once: sequences of frames
  InitialAccounts,
  AddressOf,          \* [Conns -> Addresses]
  unknown,            \* clientAddress of a destroyed socket
  AdminFields,        \* the fields of an account that may change
  MAX_CONNECTIONS,
  MAX_BUFFER,         \* MAX_BUFFER_SIZE, in frames
  FrameBound,         \* frames that arrive in a behaviour
  ChangeBound         \* changes of accounts in a behaviour

Identities == Users \cup {Service}

(* "unequal" is as many characters as LDAP_BIND_PASSWORD, but not as many  *)
(* bytes; the service account's password is "old".                         *)
Passwords == {"", "old", "new", "wrong", "unequal"}

(***************************************************************************)
(* Frames.  "partial" is the beginning of a frame whose rest has not come; *)
(* "malformed" is none at all; "unusable" stands for a message that cannot *)
(* be read, an unknown operation, a bind of another version or method, an  *)
(* extended request: answered at once, with no effect.                     *)
(***************************************************************************)
Frame ==
  [op : {"bind"}, dn : Identities \cup {Anonymous}, password : Passwords]
    \cup [op : {"search"}, root : BOOLEAN]
    \cup [op : {"compare", "unbind", "unusable", "malformed", "partial"}]

ASSUME ServerAssumption ==
  /\ Service \notin Users /\ Anonymous \notin Identities
  /\ NoAccount \notin UserRow
  /\ RemoteUsers \subseteq Users
  /\ Loops \subseteq Nat \ {0}
  /\ Jobs = Conns \X Loops
  /\ Chunks \subseteq Seq(Frame)
  /\ AddressOf \in [Conns -> Addresses]
  /\ unknown \in Addresses
  /\ MAX_CONNECTIONS \in Nat /\ MAX_BUFFER \in Nat /\ FrameBound \in Nat
  /\ ChangeBound \in Nat
  /\ \A f \in InitialAccounts : f \in [Users -> UserRow]
  /\ AdminFields \subseteq {"approved", "expired", "emailVerified"}

VARIABLES
  socket,       \* [Conns -> "none", "open", "ended" or "destroyed"]
  buffer,       \* [Conns -> Seq(Frame)]
  bindDN,       \* [Conns -> Identities \cup {Anonymous}]
  loop,         \* [Conns \X Loops -> Loop]
  account,      \* [Users -> UserRow \cup {NoAccount}]
  password,     \* [Users -> the password that is right]
  linked,       \* the accounts whose password another directory checks
  arrived,      \* frames so far
  changes,      \* changes so far
  proven,       \* history: the identities proven on each connection
  disclosed,    \* history: the connections which were sent entries
  guesses,      \* history: binds each address has failed, less what a
                \* success, the cleanup or the end of a back-off forgives
  consecutive,  \* history: the same, but the cleanup forgives none
  loose         \* history: the addresses a bind of which failed after its
                \* connection

serverVars == <<socket, buffer, bindDN, loop, account, password, linked, arrived, changes>>
guessVars == <<guesses, consecutive, loose>>
historyVars == <<proven, disclosed, guessVars>>
vars == <<serverVars, historyVars, poolVars, backoffVars>>

(***************************************************************************)
(* A loop of processBuffer: where it is, the frame it is at, what it has   *)
(* read of the account, and the outcome of the password check.  usable and *)
(* known are history: whether the account could log in, and the password   *)
(* was right, at some moment since the frame was taken.                    *)
(***************************************************************************)
Loop ==
  [at : {"idle", "turn", "lookup", "hash", "remote", "verify", "verified",
         "entries", "members"},
   msg : Frame, acct : UserRow \cup {NoAccount}, right : BOOLEAN,
   hash : Passwords, usable : BOOLEAN, known : BOOLEAN]

Unusable == [op |-> "unusable"]
idle ==
  [at |-> "idle", msg |-> Unusable, acct |-> NoAccount, right |-> FALSE,
   hash |-> "", usable |-> FALSE, known |-> FALSE]
turn == [idle EXCEPT !.at = "turn"]

Init ==
  /\ socket = [c \in Conns |-> "none"]
  /\ buffer = [c \in Conns |-> <<>>]
  /\ bindDN = [c \in Conns |-> Anonymous]
  /\ loop = [l \in Conns \X Loops |-> idle]
  /\ account \in InitialAccounts
  /\ password = [u \in Users |-> "old"]
  /\ linked = {}
  /\ arrived = 0 /\ changes = 0
  /\ proven = [c \in Conns |-> {}]
  /\ disclosed = {}
  /\ guesses = [a \in Addresses |-> 0]
  /\ consecutive = [a \in Addresses |-> 0]
  /\ loose = {}
  /\ PoolInit /\ BackoffInit

closed(c) == socket[c] \in {"destroyed", "none"}

clientAddress(c) == IF closed(c) THEN unknown ELSE AddressOf[c]

-----------------------------------------------------------------------------
(* Connections.                                                            *)

(* activeConnections: admitted and not closed yet.                         *)
activeConnections == {c \in Conns : socket[c] # "none"}

admitConnection == Cardinality(activeConnections) < MAX_CONNECTIONS

handleConnection(c) ==
  /\ socket[c] = "none"
  /\ \A i \in Loops : loop[<<c, i>>] = idle
  /\ admitConnection
  /\ arrived < FrameBound
  /\ socket' = [socket EXCEPT ![c] = "open"]
  /\ buffer' = [buffer EXCEPT ![c] = <<>>]
  /\ bindDN' = [bindDN EXCEPT ![c] = Anonymous]
  /\ proven' = [proven EXCEPT ![c] = {}]
  /\ disclosed' = disclosed \ {c}
  /\ UNCHANGED <<loop, account, password, linked, arrived, changes, guessVars,
                 poolVars, backoffVars>>

(* The client goes away, or is idle for IDLE_TIMEOUT_MS.                   *)
ConnectionEnds(c) ==
  /\ \/ socket[c] \in {"open", "ended"} /\ socket' = [socket EXCEPT ![c] = "destroyed"]
     \/ socket[c] = "destroyed" /\ socket' = [socket EXCEPT ![c] = "none"]
  /\ UNCHANGED <<buffer, bindDN, loop, account, password, linked, arrived, changes,
                 historyVars, poolVars, backoffVars>>

(***************************************************************************)
(* Data arrives: the rest of a frame begun before, then whole frames.  Too *)
(* much of it at once is answered with an error and ends the connection.   *)
(***************************************************************************)
rest(c) ==
  LET s == buffer[c]
  IN IF s # <<>> /\ s[Len(s)].op = "partial" THEN SubSeq(s, 1, Len(s) - 1) ELSE s

freeLoop(c) ==
  LET free == {i \in Loops : loop[<<c, i>>].at = "idle"}
  IN IF free = {} THEN 0 ELSE CHOOSE i \in free : \A k \in free : i <= k

(* Mistaken: only what arrives is measured.                                *)
tooMuchAtOnce(c, chunk) == Len(chunk) > MAX_BUFFER

tooMuch(c, chunk) == Len(buffer[c]) + Len(chunk) > MAX_BUFFER

DataArrives(c, i, chunk) ==
  /\ socket[c] \in {"open", "ended"}
  /\ i = freeLoop(c)
  /\ arrived + Len(chunk) <= FrameBound
  /\ arrived' = arrived + Len(chunk)
  /\ IF tooMuch(c, chunk)
     THEN /\ socket' = [socket EXCEPT ![c] = "destroyed"]
          /\ UNCHANGED <<buffer, loop>>
     ELSE /\ buffer' = [buffer EXCEPT ![c] = rest(c) \o chunk]
          /\ loop' = [loop EXCEPT ![<<c, i>>] = turn]
          /\ UNCHANGED socket
  /\ UNCHANGED <<bindDN, account, password, linked, changes, historyVars, poolVars,
                 backoffVars>>

-----------------------------------------------------------------------------
(* Binds.                                                                  *)

bindInFlight(l) == loop[l].at \in {"lookup", "hash", "remote", "verify", "verified"}

(* What remains to be done of a bind once its outcome is known.  One whose *)
(* connection is gone is put down to no address.                           *)
counted(n) == IF n <= FailureBound THEN n + 1 ELSE n

bindFails(c, i) ==
  /\ recordBindFailure(clientAddress(c))
  /\ guesses' = [guesses EXCEPT ![AddressOf[c]] = counted(@)]
  /\ consecutive' = [consecutive EXCEPT ![AddressOf[c]] = counted(@)]
  /\ loose' = IF closed(c) THEN loose \cup {AddressOf[c]} ELSE loose
  /\ loop' = [loop EXCEPT ![<<c, i>>] = turn]
  /\ UNCHANGED <<bindDN, proven>>

bindSucceeds(c, i, id, justified) ==
  /\ recordBindSuccess(clientAddress(c))
  /\ guesses' = [guesses EXCEPT ![clientAddress(c)] = 0]
  /\ consecutive' = [consecutive EXCEPT ![clientAddress(c)] = 0]
  /\ bindDN' = [bindDN EXCEPT ![c] = id]
  /\ proven' = IF justified THEN [proven EXCEPT ![c] = @ \cup {id}] ELSE proven
  /\ loop' = [loop EXCEPT ![<<c, i>>] = turn]
  /\ UNCHANGED loose

(* Answered, with nothing recorded.                                        *)
bindAnswered(c, i) ==
  /\ loop' = [loop EXCEPT ![<<c, i>>] = turn]
  /\ UNCHANGED <<bindDN, proven, guessVars, backoffVars>>

userBinds(u) ==
  u \in Users /\ account[u] # NoAccount /\ userCanLogin(account[u], {"pwd"})

userKnows(u, pw) == u \in Users /\ pw = password[u]

(***************************************************************************)
(* handleBind as far as it goes without waiting.  A source that is blocked *)
(* is answered as if the password were wrong.  The service account's       *)
(* password is compared byte by byte, and the comparison of unequal        *)
(* lengths throws.  Any other name is looked up as a user's, the empty one *)
(* with a password included.                                               *)
(***************************************************************************)
handleBind(c, i, msg) ==
  /\ msg.op = "bind"
  /\ \/ /\ isBindBlocked(clientAddress(c))
        /\ bindAnswered(c, i)
     \/ /\ ~isBindBlocked(clientAddress(c))
        /\ msg.dn = Anonymous /\ msg.password = ""
        /\ bindDN' = [bindDN EXCEPT ![c] = Anonymous]
        /\ loop' = [loop EXCEPT ![<<c, i>>] = turn]
        /\ UNCHANGED <<proven, guessVars, backoffVars>>
     \/ /\ ~isBindBlocked(clientAddress(c))
        /\ msg.dn = Service
        /\ \/ msg.password = "old" /\ bindSucceeds(c, i, Service, TRUE)
           \/ msg.password = "unequal" /\ bindAnswered(c, i)
           \/ msg.password \notin {"old", "unequal"} /\ bindFails(c, i)
     \/ /\ ~isBindBlocked(clientAddress(c))
        /\ msg.dn \in Users \/ (msg.dn = Anonymous /\ msg.password # "")
        /\ loop' = [loop EXCEPT ![<<c, i>>] =
             [turn EXCEPT !.at = "lookup", !.msg = msg, !.usable = userBinds(msg.dn),
                          !.known = userKnows(msg.dn, msg.password)]]
        /\ UNCHANGED <<bindDN, proven, guessVars, backoffVars>>
  /\ UNCHANGED <<socket, disclosed, poolVars>>

(* getLDAPUserIdByDN has read the account, if the name is a user's.        *)
userFound(u, pw) == u \in Users /\ account[u] # NoAccount /\ pw # ""

UserFound(c, i) ==
  LET u == loop[<<c, i>>].msg.dn
  IN /\ loop[<<c, i>>].at = "lookup"
     /\ \/ /\ ~userFound(u, loop[<<c, i>>].msg.password)
           /\ bindFails(c, i)
        \/ /\ userFound(u, loop[<<c, i>>].msg.password)
           /\ loop' = [loop EXCEPT ![<<c, i>>].at = "hash", ![<<c, i>>].acct = account[u]]
           /\ UNCHANGED <<bindDN, proven, guessVars, backoffVars>>
     /\ UNCHANGED <<socket, buffer, account, password, linked, arrived, changes,
                    disclosed, poolVars>>

(* argon2.verify of the hash that was read.                                *)
verify(c, i, hash) ==
  IF hash = "" \/ queueIsFull
  THEN /\ loop' = [loop EXCEPT ![<<c, i>>].at = "verified", ![<<c, i>>].right = FALSE]
       /\ UNCHANGED poolVars
  ELSE /\ runInPool(<<c, i>>)
       /\ loop' = [loop EXCEPT ![<<c, i>>].at = "verify",
                               ![<<c, i>>].right = loop[<<c, i>>].msg.password = hash]

(* checkPasswordHash reads the row again, then asks another directory or   *)
(* the pool.                                                               *)
checkPasswordHash(c, i) ==
  LET u == loop[<<c, i>>].msg.dn
      hash == IF account[u].hasPassword THEN password[u] ELSE ""
  IN /\ loop[<<c, i>>].at = "hash"
     /\ \/ /\ account[u] = NoAccount
           /\ loop' = [loop EXCEPT ![<<c, i>>].at = "verified"]
           /\ UNCHANGED poolVars
        \/ /\ account[u] # NoAccount /\ u \in linked
           /\ loop' = [loop EXCEPT ![<<c, i>>].at = "remote", ![<<c, i>>].hash = hash]
           /\ UNCHANGED poolVars
        \/ /\ account[u] # NoAccount /\ u \notin linked
           /\ verify(c, i, hash)
     /\ UNCHANGED <<socket, buffer, bindDN, account, password, linked, arrived, changes,
                    historyVars, backoffVars>>

(* The other directory accepts the password; or it refuses it or cannot be *)
(* reached, and a password kept here decides.                              *)
verifyLDAPPassword(c, i) ==
  /\ loop[<<c, i>>].at = "remote"
  /\ \/ /\ loop[<<c, i>>].msg.password = password[loop[<<c, i>>].msg.dn]
        /\ loop' = [loop EXCEPT ![<<c, i>>].at = "verified", ![<<c, i>>].right = TRUE]
        /\ UNCHANGED poolVars
     \/ verify(c, i, loop[<<c, i>>].hash)
  /\ UNCHANGED <<socket, buffer, bindDN, account, password, linked, arrived, changes,
                 historyVars, backoffVars>>

(* A worker answers, or cannot do the job.                                 *)
PoolAnswers(c, i) ==
  /\ loop[<<c, i>>].at = "verify"
  /\ workerMessage(<<c, i>>)
  /\ \/ loop' = [loop EXCEPT ![<<c, i>>].at = "verified"]
     \/ loop' = [loop EXCEPT ![<<c, i>>].at = "verified", ![<<c, i>>].right = FALSE]
  /\ UNCHANGED <<socket, buffer, bindDN, account, password, linked, arrived, changes,
                 historyVars, backoffVars>>

(* A worker is lost: each of its jobs counts as a wrong password.          *)
WorkerFails(w) ==
  /\ failPoolWorker(w)
  /\ loop' = [l \in Conns \X Loops |->
       IF pendingJobs[l] # NoWorker /\ pendingJobs'[l] = NoWorker
       THEN [loop[l] EXCEPT !.at = "verified", !.right = FALSE] ELSE loop[l]]
  /\ UNCHANGED <<socket, buffer, bindDN, account, password, linked, arrived, changes,
                 historyVars, backoffVars>>

(* Mistaken: a right password is enough.                                   *)
BindDecidedByPassword(c, i) ==
  /\ loop[<<c, i>>].at = "verified"
  /\ \/ /\ loop[<<c, i>>].right
        /\ bindSucceeds(c, i, loop[<<c, i>>].msg.dn,
                        loop[<<c, i>>].usable /\ loop[<<c, i>>].known)
     \/ /\ ~loop[<<c, i>>].right
        /\ bindFails(c, i)
  /\ UNCHANGED <<socket, buffer, account, password, linked, arrived, changes, disclosed,
                 poolVars>>

(* The rest of handleBind: it decides on the account as UserFound read it. *)
BindDecided(c, i) ==
  /\ loop[<<c, i>>].at = "verified"
  /\ \/ /\ loop[<<c, i>>].right /\ userCanLogin(loop[<<c, i>>].acct, {"pwd"})
        /\ bindSucceeds(c, i, loop[<<c, i>>].msg.dn,
                        loop[<<c, i>>].usable /\ loop[<<c, i>>].known)
     \/ /\ ~(loop[<<c, i>>].right /\ userCanLogin(loop[<<c, i>>].acct, {"pwd"}))
        /\ bindFails(c, i)
  /\ UNCHANGED <<socket, buffer, account, password, linked, arrived, changes, disclosed,
                 poolVars>>

-----------------------------------------------------------------------------
(* Searches and compares.                                                  *)

(* Mistaken: any bind will do.                                             *)
canSearchBound(c) == bindDN[c] # Anonymous

canSearch(c) == bindDN[c] = Service

(* The root entry is given to anyone.                                      *)
aboutRoot(msg) == msg.op = "search" /\ msg.root

handleSearch(c, i, msg) ==
  /\ msg.op \in {"search", "compare"}
  /\ loop' = [loop EXCEPT ![<<c, i>>] =
       IF canSearch(c) \/ aboutRoot(msg) THEN [turn EXCEPT !.at = "entries", !.msg = msg]
                                         ELSE turn]
  /\ UNCHANGED <<socket, bindDN, historyVars, poolVars, backoffVars>>

(* Mistaken: the admins are held to the conditions, too.                   *)
visibleUnprivileged(row) ==
  /\ ~row.expired
  /\ SIGNUP_REQUIRES_APPROVAL => row.approved
  /\ EMAIL_VERIFICATION => row.emailVerified

(* getLDAPVisibleUsers, a condition in SQL.                                *)
visible(row) ==
  \/ isAdmin(row)
  \/ /\ ~row.expired
     /\ SIGNUP_REQUIRES_APPROVAL => row.approved
     /\ EMAIL_VERIFICATION => row.emailVerified

(* getLDAPEntries: users and groups first, then their memberships.         *)
UsersRead(c, i) ==
  /\ loop[<<c, i>>].at = "entries"
  /\ loop' = [loop EXCEPT ![<<c, i>>].at = "members"]
  /\ UNCHANGED <<socket, buffer, bindDN, account, password, linked, arrived, changes,
                 historyVars, poolVars, backoffVars>>

(* The answer is written, unless the connection is gone.                   *)
EntriesSent(c, i) ==
  /\ loop[<<c, i>>].at = "members"
  /\ IF aboutRoot(loop[<<c, i>>].msg) \/ closed(c)
     THEN UNCHANGED disclosed
     ELSE disclosed' = disclosed \cup {c}
  /\ loop' = [loop EXCEPT ![<<c, i>>] = turn]
  /\ UNCHANGED <<socket, buffer, bindDN, account, password, linked, arrived, changes, proven,
                 guessVars, poolVars, backoffVars>>

(***************************************************************************)
(* A query fails: the request is answered with an error, and a bind counts *)
(* as no failure (the catch of each handler).  No query is made for a name *)
(* that cannot be a user's.                                                *)
(***************************************************************************)
DatabaseFails(c, i) ==
  /\ \/ loop[<<c, i>>].at \in {"hash", "entries", "members"}
     \/ loop[<<c, i>>].at = "lookup" /\ loop[<<c, i>>].msg.dn \in Users
  /\ loop' = [loop EXCEPT ![<<c, i>>] = turn]
  /\ UNCHANGED <<socket, buffer, bindDN, account, password, linked, arrived, changes,
                 historyVars, poolVars, backoffVars>>

-----------------------------------------------------------------------------
(* One turn of a loop: the next frame is taken off the buffer and handled  *)
(* as far as that goes without waiting.                                    *)

handleMessage(c, i, msg) ==
  \/ handleBind(c, i, msg)
  \/ handleSearch(c, i, msg)
  \/ /\ msg.op \in {"unbind", "unusable"}
     /\ socket' = [socket EXCEPT ![c] =
          IF msg.op = "unbind" /\ @ = "open" THEN "ended" ELSE @]
     /\ loop' = [loop EXCEPT ![<<c, i>>] = turn]
     /\ UNCHANGED <<bindDN, historyVars, poolVars, backoffVars>>

frameReady(c) == buffer[c] # <<>> /\ Head(buffer[c]).op # "partial"

LoopTurn(c, i) ==
  /\ loop[<<c, i>>].at = "turn"
  /\ \/ /\ frameReady(c)
        /\ Head(buffer[c]).op # "malformed"
        /\ buffer' = [buffer EXCEPT ![c] = Tail(@)]
        /\ handleMessage(c, i, Head(buffer[c]))
     \/ /\ frameReady(c)
        /\ Head(buffer[c]).op = "malformed"
        /\ socket' = [socket EXCEPT ![c] = IF @ = "none" THEN @ ELSE "destroyed"]
        /\ loop' = [loop EXCEPT ![<<c, i>>] = idle]
        /\ UNCHANGED <<buffer, bindDN, historyVars, poolVars, backoffVars>>
     \/ /\ ~frameReady(c)
        /\ loop' = [loop EXCEPT ![<<c, i>>] = idle]
        /\ UNCHANGED <<socket, buffer, bindDN, historyVars, poolVars, backoffVars>>
  /\ UNCHANGED <<account, password, linked, arrived, changes>>

-----------------------------------------------------------------------------
(* The accounts change meanwhile, through the rest of VoidAuth.            *)

AccountChanges(u) ==
  /\ account[u] # NoAccount
  /\ changes < ChangeBound
  /\ changes' = changes + 1
  /\ \/ /\ \E field \in AdminFields : account' = [account EXCEPT ![u][field] = ~@]
        /\ UNCHANGED <<password, linked>>
     \/ /\ account' = [account EXCEPT ![u] = NoAccount]
        /\ UNCHANGED <<password, linked>>
     \/ /\ password' = [password EXCEPT ![u] = "new"]
        /\ UNCHANGED <<account, linked>>
     \/ /\ u \in RemoteUsers
        /\ linked' = linked \cup {u}
        /\ UNCHANGED <<account, password>>
  /\ loop' = [l \in Conns \X Loops |->
       IF bindInFlight(l) /\ loop[l].msg.dn = u
       THEN [loop[l] EXCEPT !.usable = @ \/ userBinds(u)',
                            !.known = @ \/ loop[l].msg.password = password'[u]]
       ELSE loop[l]]
  /\ UNCHANGED <<socket, buffer, bindDN, arrived, historyVars, poolVars, backoffVars>>

(* The end of a back-off leaves the address one failure from the next.     *)
afterBackoff(n, a) == IF blockedFor[a] = 1 THEN BIND_FAILURES_BEFORE_BACKOFF - 1 ELSE n

TimePasses ==
  /\ BackoffPasses
  /\ guesses' = [a \in Addresses |-> afterBackoff(guesses[a], a)]
  /\ consecutive' = [a \in Addresses |-> afterBackoff(consecutive[a], a)]
  /\ UNCHANGED <<serverVars, proven, disclosed, loose, poolVars>>

CleanupRuns ==
  /\ FailureCleanup
  /\ guesses' = [a \in Addresses |-> IF blockedFor[a] > 0 THEN guesses[a] ELSE 0]
  /\ UNCHANGED <<serverVars, proven, disclosed, consecutive, loose, poolVars>>

(* What a loop does, or what it waits for.                                 *)
LoopStep(c, i) ==
  \/ LoopTurn(c, i)
  \/ UserFound(c, i)
  \/ checkPasswordHash(c, i)
  \/ verifyLDAPPassword(c, i)
  \/ PoolAnswers(c, i)
  \/ BindDecided(c, i)
  \/ UsersRead(c, i)
  \/ EntriesSent(c, i)
  \/ DatabaseFails(c, i)

Next ==
  \/ \E c \in Conns : handleConnection(c)
  \/ \E c \in Conns : ConnectionEnds(c)
  \/ \E c \in Conns, i \in Loops, chunk \in Chunks : DataArrives(c, i, chunk)
  \/ \E c \in Conns, i \in Loops : LoopStep(c, i)
  \/ \E w \in Workers : WorkerFails(w)
  \/ \E u \in Users : AccountChanges(u)
  \/ TimePasses
  \/ CleanupRuns

Spec == Init /\ [][Next]_vars

(* The database, the other directory (or its timeout) and the workers      *)
(* answer, and the event loop runs what is ready.                          *)
FairSpec == Spec /\ \A c \in Conns, i \in Loops : WF_vars(LoopStep(c, i))
-----------------------------------------------------------------------------
TypeOK ==
  /\ socket \in [Conns -> {"none", "open", "ended", "destroyed"}]
  /\ Cardinality(activeConnections) <= MAX_CONNECTIONS
  /\ \A c \in Conns : buffer[c] \in Seq(Frame) /\ Len(buffer[c]) <= MAX_BUFFER
  /\ bindDN \in [Conns -> Identities \cup {Anonymous}]
  /\ loop \in [Conns \X Loops -> Loop]
  /\ account \in [Users -> UserRow \cup {NoAccount}]
  /\ password \in [Users -> Passwords]
  /\ linked \subseteq RemoteUsers
  /\ arrived \in 0..FrameBound
  /\ changes \in 0..ChangeBound
  /\ proven \in [Conns -> SUBSET Identities]
  /\ disclosed \subseteq Conns
  /\ guesses \in [Addresses -> 0..(FailureBound + 1)]
  /\ consecutive \in [Addresses -> 0..(FailureBound + 1)]
  /\ loose \subseteq Addresses
  /\ PoolTypeOK /\ BackoffTypeOK

(***************************************************************************)
(* The directory keeps the promise of DirectoryAccess, also when binds and *)
(* searches of a connection run side by side and while accounts change: a  *)
(* connection acts under an identity, and is sent entries, only after it   *)
(* has proven what that takes (handleBind, canSearch).                     *)
(***************************************************************************)
Access ==
  INSTANCE DirectoryAccess WITH holder <- bindDN

KeepsAccessPromise == Access!Spec

(***************************************************************************)
(* An account that could not log in all the while a bind was under way, or *)
(* whose password was another one all that time, is not bound to: what     *)
(* handleBind read before waiting for the password check may be old, but   *)
(* never older than the request.                                           *)
(***************************************************************************)
BindsAreCurrent ==
  [][\A c \in Conns, i \in Loops :
       loop[<<c, i>>].at = "verified" /\ loop'[<<c, i>>] = turn
         /\ loop[<<c, i>>].msg.dn \in proven'[c] \cup {bindDN'[c]}
         /\ bindDN' # bindDN
       => loop[<<c, i>>].usable /\ loop[<<c, i>>].known]_vars

(***************************************************************************)
(* An address that is not blocked has failed fewer binds than the limit,   *)
(* however its binds overlap with each other and with the end of a         *)
(* back-off: what recordBindFailure counts after the password was awaited  *)
(* is neither lost nor put down to another address (server.ts:303, :311).  *)
(* Left out is a bind that fails after its connection.                     *)
(***************************************************************************)
BackoffLimitsGuesses ==
  \A a \in Addresses \ loose :
    ~isBindBlocked(a) => guesses[a] < BIND_FAILURES_BEFORE_BACKOFF

(***************************************************************************)
(* While an address is blocked no further guess of it is taken up: those   *)
(* that overlapped when the block began may still fail, but those made and *)
(* those under way are together never more than they were (isBindBlocked   *)
(* at server.ts:259).                                                      *)
(***************************************************************************)
bindsUnderWay(a) ==
  Cardinality({l \in Conns \X Loops :
                 bindInFlight(l) /\ ~closed(l[1]) /\ AddressOf[l[1]] = a})

NoGuessWhileBlocked ==
  [][\A a \in Addresses \ loose' :
       blockedFor[a] > 0 /\ blockedFor'[a] > 0
         => guesses'[a] + bindsUnderWay(a)' <= guesses[a] + bindsUnderWay(a)]_vars

(***************************************************************************)
(* What the comment at hardening.ts:15 says: "After                        *)
(* BIND_FAILURES_BEFORE_BACKOFF consecutive failed binds from one source   *)
(* address, further binds are refused".  The cleanup interval begins the   *)
(* count anew in the middle of it.                                         *)
(***************************************************************************)
ConsecutiveFailuresRefused ==
  \A a \in Addresses \ loose :
    ~isBindBlocked(a) => consecutive[a] < BIND_FAILURES_BEFORE_BACKOFF

(***************************************************************************)
(* The directory shows exactly the accounts which the login would let in   *)
(* given enough factors: the condition of getLDAPVisibleUsers in SQL and   *)
(* those of shared/user.ts in TypeScript are one and the same, for every   *)
(* account that has an address.                                            *)
(***************************************************************************)
ShowsWhoMayLogIn ==
  \A u \in Users :
    (IF account[u] = NoAccount THEN FALSE ELSE account[u].hasEmail)
      => (visible(account[u]) <=> userCanLogin(account[u], {"email"}))

(***************************************************************************)
(* Every request is answered in the end, also when a worker is lost or the *)
(* pool is full: no loop waits for ever (processBuffer).                   *)
(***************************************************************************)
RequestsAnswered ==
  \A c \in Conns, i \in Loops : loop[<<c, i>>].at # "idle" ~> loop[<<c, i>>].at = "idle"
=============================================================================
