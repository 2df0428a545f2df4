--------------------------- MODULE LdapServerProofs ---------------------------
(* The LDAP directory implements DirectoryAccess and keeps the accounts of *)
(* its password workers, for any number of connections, requests, users    *)
(* and workers.                                                            *)
EXTENDS LdapServer, FiniteSetTheorems, WellFoundedInduction, TLAPS

-----------------------------------------------------------------------------
(***************************************************************************)
(* The inductive invariant.  A loop that handles a bind remembers that the *)
(* account was usable and the password right if they are so now, or were   *)
(* so when it read them; one that collects entries had its connection      *)
(* bound by the service account; and it waits for the pool exactly as long *)
(* as its job is pending.                                                  *)
(***************************************************************************)
BindPhases == {"lookup", "hash", "remote", "verify", "verified"}

BindHolds(p, accounts, passwords) ==
  p.at \in BindPhases =>
    /\ p.msg.dn \in Users \/ p.at = "lookup"
    /\ p.msg.dn \in Users /\ p.msg.password = passwords[p.msg.dn] => p.known
    /\ p.msg.dn \in Users /\ accounts[p.msg.dn] # NoAccount
         /\ userCanLogin(accounts[p.msg.dn], {"pwd"}) => p.usable
    /\ p.right => p.known
    /\ p.at # "lookup" /\ userCanLogin(p.acct, {"pwd"}) => p.usable
    /\ p.at = "remote" /\ p.hash # "" /\ p.msg.password = p.hash => p.known

SearchHolds(p, identities) ==
  p.at \in {"entries", "members"} => aboutRoot(p.msg) \/ Service \in identities

LoopsHold ==
  \A c \in Conns, i \in Loops :
    /\ BindHolds(loop[<<c, i>>], account, password)
    /\ SearchHolds(loop[<<c, i>>], proven[c])

JobsOfLoops ==
  \A c \in Conns, i \in Loops : pendingJobs[<<c, i>>] # NoWorker <=> loop[<<c, i>>].at = "verify"

HoldersProven == \A c \in Conns : bindDN[c] \in proven[c] \cup {Anonymous}

Types ==
  /\ buffer \in [Conns -> Seq(Frame)]
  /\ bindDN \in [Conns -> Identities \cup {Anonymous}]
  /\ loop \in [Conns \X Loops -> Loop]
  /\ account \in [Users -> UserRow \cup {NoAccount}]
  /\ password \in [Users -> Passwords]
  /\ proven \in [Conns -> SUBSET Identities]

(* A worker that is gone has no jobs, and its name starts from 0 again.    *)
PoolHolds ==
  /\ PoolTypeOK
  /\ PoolAccounts
  /\ \A w \in Workers \ pool : inflight[w] = 0

IInv == Types /\ LoopsHold /\ JobsOfLoops /\ HoldersProven /\ PoolHolds

-----------------------------------------------------------------------------
(* The pool.                                                               *)

LEMMA JobsCounted ==
  ASSUME NEW S \in SUBSET Jobs
  PROVE  IsFiniteSet(S) /\ Cardinality(S) \in Nat
BY PoolAssumption, FS_Subset, FS_CardinalityType

LEMMA PoolWorker ==
  ASSUME PoolHolds, NEW w \in poolWorker, ~queueIsFull
  PROVE  w \in Workers /\ pool \subseteq {w}
<1> DEFINE free == {v \in pool : inflight[v] < MAX_PENDING_JOBS}
<1>1. free # {} \/ pool = {}
  <2> SUFFICES ASSUME NEW v \in pool, inflight[v] >= MAX_PENDING_JOBS
               PROVE  FALSE
    BY PoolAssumption DEF PoolHolds, PoolTypeOK
  <2>1. jobsOf(v) \subseteq {j \in Jobs : pendingJobs[j] # NoWorker}
    BY PoolAssumption DEF jobsOf, PoolHolds, PoolTypeOK
  <2>2. Cardinality(jobsOf(v)) <= pendingSize
    BY <2>1, JobsCounted, FS_Subset DEF pendingSize
  <2>3. inflight[v] = Cardinality(jobsOf(v))
    BY DEF PoolHolds, PoolAccounts
  <2>4. Cardinality(jobsOf(v)) \in Nat /\ pendingSize \in Nat
    BY JobsCounted DEF jobsOf, pendingSize
  <2>5. QED BY <2>2, <2>3, <2>4, PoolAssumption DEF queueIsFull
<1>2. CASE free # {}
  <2>1. w \in leastLoaded(free)
    BY <1>2 DEF poolWorker
  <2>2. w \in pool
    BY <2>1 DEF leastLoaded
  <2>3. QED BY <2>2 DEF PoolHolds, PoolTypeOK, PoolAccounts
<1>3. CASE pool = {}
  <2>1. free = {} /\ Cardinality(pool) < WORKER_COUNT
    BY <1>3, FS_EmptySet, PoolAssumption
  <2>2. w = CHOOSE v \in Workers : v \notin pool
    BY <2>1 DEF poolWorker
  <2>3. \E v \in Workers : v \notin pool
    BY <1>3, PoolAssumption
  <2>4. QED BY <1>3, <2>2, <2>3
<1>4. QED BY <1>1, <1>2, <1>3

LEMMA RunInPoolHolds ==
  ASSUME PoolHolds, NEW j \in Jobs, runInPool(j), pendingJobs[j] = NoWorker
  PROVE  /\ PoolHolds'
         /\ pendingJobs'[j] # NoWorker
         /\ \A k \in Jobs \ {j} : pendingJobs'[k] = pendingJobs[k]
<1>1. PICK w \in poolWorker :
        /\ pool' = pool \cup {w}
        /\ inflight' = [inflight EXCEPT ![w] = @ + 1]
        /\ pendingJobs' = [pendingJobs EXCEPT ![j] = w]
  BY DEF runInPool
<1>2. w \in Workers /\ pool \subseteq {w}
  BY PoolWorker DEF runInPool
<1>3. pool' = {w}
  BY <1>1, <1>2
<1>4. /\ pendingJobs'[j] = w
      /\ \A k \in Jobs \ {j} : pendingJobs'[k] = pendingJobs[k]
      /\ pendingJobs' \in [Jobs -> Workers \cup {NoWorker}]
  BY <1>1, <1>2 DEF PoolHolds, PoolTypeOK
<1>5. PoolTypeOK'
  BY <1>1, <1>2, <1>3, <1>4 DEF PoolHolds, PoolTypeOK
<1>6. inflight[w] = Cardinality(jobsOf(w))
  <2>1. CASE w \in pool
    BY <2>1 DEF PoolHolds, PoolAccounts
  <2>2. CASE w \notin pool
    <3>1. pool = {}
      BY <1>2, <2>2
    <3>2. jobsOf(w) = {}
      BY <1>2, <3>1, PoolAssumption DEF jobsOf, PoolHolds, PoolAccounts
    <3>3. QED BY <1>2, <2>2, <3>2, FS_EmptySet DEF PoolHolds
  <2>3. QED BY <2>1, <2>2
<1>7. inflight'[w] = Cardinality(jobsOf(w))'
  <2>1. jobsOf(w)' = jobsOf(w) \cup {j}
    BY <1>2, <1>4, PoolAssumption DEF jobsOf
  <2>2. j \notin jobsOf(w) /\ jobsOf(w) \in SUBSET Jobs
    BY <1>2, PoolAssumption DEF jobsOf
  <2>3. Cardinality(jobsOf(w) \cup {j}) = Cardinality(jobsOf(w)) + 1
    BY <2>2, JobsCounted, FS_AddElement
  <2>4. inflight'[w] = inflight[w] + 1
    BY <1>1, <1>2 DEF PoolHolds, PoolTypeOK
  <2>5. QED BY <1>6, <2>1, <2>3, <2>4
<1>8. PoolAccounts'
  <2>1. \A k \in Jobs : pendingJobs'[k] \in pool' \cup {NoWorker}
    BY <1>2, <1>3, <1>4 DEF PoolHolds, PoolAccounts
  <2>2. QED BY <1>3, <1>7, <2>1 DEF PoolAccounts
<1>9. \A v \in Workers \ pool' : inflight'[v] = 0
  BY <1>1, <1>2, <1>3 DEF PoolHolds, PoolTypeOK
<1>10. pendingJobs'[j] # NoWorker
  BY <1>2, <1>4, PoolAssumption
<1>11. QED BY <1>4, <1>5, <1>8, <1>9, <1>10 DEF PoolHolds

LEMMA WorkerMessageHolds ==
  ASSUME PoolHolds, NEW j \in Jobs, workerMessage(j)
  PROVE  /\ PoolHolds'
         /\ pendingJobs'[j] = NoWorker
         /\ \A k \in Jobs \ {j} : pendingJobs'[k] = pendingJobs[k]
<1>1. PICK w \in Workers : w = pendingJobs[j] /\ w \in pool
  BY DEF workerMessage, PoolHolds, PoolTypeOK
<1>2. /\ pendingJobs'[j] = NoWorker
      /\ \A k \in Jobs \ {j} : pendingJobs'[k] = pendingJobs[k]
      /\ pendingJobs' \in [Jobs -> Workers \cup {NoWorker}]
  BY DEF workerMessage, PoolHolds, PoolTypeOK
<1>3. inflight' = [inflight EXCEPT ![w] = @ - 1] /\ pool' = pool
  BY <1>1 DEF workerMessage
<1>4. pool = {w} /\ inflight[w] = Cardinality(jobsOf(w))
  BY <1>1 DEF PoolHolds, PoolAccounts
<1>5. jobsOf(w)' = jobsOf(w) \ {j}
  BY <1>1, <1>2, PoolAssumption DEF jobsOf
<1>6. inflight'[w] = Cardinality(jobsOf(w))' /\ inflight'[w] \in Nat
  <2>1. j \in jobsOf(w) /\ jobsOf(w) \in SUBSET Jobs
    BY <1>1 DEF jobsOf
  <2>2. Cardinality(jobsOf(w) \ {j}) = Cardinality(jobsOf(w)) - 1
    BY <2>1, JobsCounted, FS_RemoveElement
  <2>3. Cardinality(jobsOf(w) \ {j}) \in Nat
    BY <2>1, JobsCounted
  <2>4. inflight'[w] = inflight[w] - 1
    BY <1>3 DEF PoolHolds, PoolTypeOK
  <2>5. QED BY <1>4, <1>5, <2>2, <2>3, <2>4
<1>7. PoolTypeOK'
  BY <1>2, <1>3, <1>6 DEF PoolHolds, PoolTypeOK
<1>8. PoolAccounts'
  <2>1. \A k \in Jobs : pendingJobs'[k] \in pool' \cup {NoWorker}
    BY <1>2, <1>3 DEF PoolHolds, PoolAccounts
  <2>2. QED BY <1>3, <1>4, <1>6, <2>1 DEF PoolAccounts
<1>9. \A v \in Workers \ pool' : inflight'[v] = 0
  BY <1>1, <1>3 DEF PoolHolds, PoolTypeOK
<1>10. QED BY <1>2, <1>7, <1>8, <1>9 DEF PoolHolds

LEMMA FailPoolWorkerHolds ==
  ASSUME PoolHolds, NEW w \in Workers, failPoolWorker(w)
  PROVE  /\ PoolHolds'
         /\ \A k \in Jobs : pendingJobs'[k] \in {pendingJobs[k], NoWorker}
<1>1. /\ w \in pool
      /\ pendingJobs' = [j \in Jobs |-> IF j \in jobsOf(w) THEN NoWorker ELSE pendingJobs[j]]
      /\ pool' = pool \ {w}
      /\ inflight' = [inflight EXCEPT ![w] = 0]
  BY DEF failPoolWorker
<1>2. pool = {w} /\ pool' = {}
  BY <1>1 DEF PoolHolds, PoolAccounts
<1>3. \A k \in Jobs : pendingJobs'[k] = NoWorker
  BY <1>1, <1>2 DEF jobsOf, PoolHolds, PoolAccounts
<1>4. PoolTypeOK'
  BY <1>1, <1>2, <1>3 DEF PoolHolds, PoolTypeOK
<1>5. \A v \in Workers : inflight'[v] = 0
  BY <1>1, <1>2 DEF PoolHolds, PoolTypeOK
<1>6. QED BY <1>2, <1>3, <1>4, <1>5 DEF PoolHolds, PoolAccounts

-----------------------------------------------------------------------------
(* The loops.  One loop goes on as p, the others stay; passwords are only  *)
(* changed by AccountChanges, and identities are forgotten only by         *)
(* handleConnection.                                                       *)
LEMMA LoopMoves ==
  ASSUME IInv, NEW c \in Conns, NEW i \in Loops, NEW p \in Loop,
         loop' = [loop EXCEPT ![<<c, i>>] = p],
         UNCHANGED <<account, password>>,
         \A d \in Conns : proven[d] \subseteq proven'[d],
         BindHolds(p, account, password),
         SearchHolds(p, proven[c])
  PROVE  LoopsHold' /\ loop' \in [Conns \X Loops -> Loop]
<1>1. /\ loop'[<<c, i>>] = p
      /\ \A l \in (Conns \X Loops) \ {<<c, i>>} : loop'[l] = loop[l]
      /\ loop' \in [Conns \X Loops -> Loop]
  BY DEF IInv, Types
<1>2. ASSUME NEW d \in Conns, NEW k \in Loops
      PROVE  BindHolds(loop'[<<d, k>>], account, password) /\ SearchHolds(loop'[<<d, k>>], proven[d])
  <2>1. CASE <<d, k>> = <<c, i>>
    BY <1>1, <2>1
  <2>2. CASE <<d, k>> # <<c, i>>
    <3>1. loop'[<<d, k>>] = loop[<<d, k>>]
      BY <1>1, <2>2
    <3>2. QED BY <3>1 DEF IInv, LoopsHold
  <2>3. QED BY <2>1, <2>2
<1>3. \A q, S, T : S \subseteq T /\ SearchHolds(q, S) => SearchHolds(q, T)
  BY DEF SearchHolds
<1>4. ASSUME NEW d \in Conns, NEW k \in Loops
      PROVE  /\ BindHolds(loop'[<<d, k>>], account', password')
             /\ SearchHolds(loop'[<<d, k>>], proven'[d])
  <2>1. BindHolds(loop'[<<d, k>>], account', password')
    BY <1>2
  <2>2. SearchHolds(loop'[<<d, k>>], proven'[d])
    BY <1>2, <1>3
  <2>3. QED BY <2>1, <2>2
<1>5. LoopsHold'
  BY <1>4 DEF LoopsHold
<1>6. QED BY <1>1, <1>5

(* As far as the pool is concerned.                                        *)
LEMMA JobStays ==
  ASSUME IInv, NEW c \in Conns, NEW i \in Loops, NEW p \in Loop,
         loop' = [loop EXCEPT ![<<c, i>>] = p],
         loop[<<c, i>>].at # "verify", p.at # "verify",
         UNCHANGED poolVars
  PROVE  JobsOfLoops' /\ PoolHolds'
<1>1. PoolHolds'
  BY DEF IInv, PoolHolds, PoolTypeOK, PoolAccounts, jobsOf, poolVars
<1>2. ASSUME NEW d \in Conns, NEW k \in Loops
      PROVE  pendingJobs'[<<d, k>>] # NoWorker <=> loop'[<<d, k>>].at = "verify"
  BY DEF IInv, Types, JobsOfLoops, poolVars
<1>3. QED BY <1>1, <1>2 DEF JobsOfLoops

-----------------------------------------------------------------------------
(* What most steps have in common: a loop moves on, and not by the pool.   *)
LEMMA LoopGoesOn ==
  ASSUME IInv, NEW c \in Conns, NEW i \in Loops, NEW p \in Loop,
         loop' = [loop EXCEPT ![<<c, i>>] = p],
         loop[<<c, i>>].at # "verify", p.at # "verify",
         BindHolds(p, account, password), SearchHolds(p, proven[c]),
         UNCHANGED <<account, password, poolVars>>,
         \A d \in Conns : proven[d] \subseteq proven'[d],
         buffer' \in [Conns -> Seq(Frame)],
         bindDN' \in [Conns -> Identities \cup {Anonymous}],
         proven' \in [Conns -> SUBSET Identities],
         HoldersProven'
  PROVE  IInv'
<1>1. LoopsHold' /\ loop' \in [Conns \X Loops -> Loop]
  BY LoopMoves
<1>2. JobsOfLoops' /\ PoolHolds'
  BY JobStays
<1>3. Types'
  BY <1>1 DEF IInv, Types
<1>4. QED BY <1>1, <1>2, <1>3 DEF IInv

(* The same, when nothing but the loop and the buffer changes here.        *)
LEMMA OnlyLoop ==
  ASSUME IInv, NEW c \in Conns, NEW i \in Loops, NEW p \in Loop,
         loop' = [loop EXCEPT ![<<c, i>>] = p],
         loop[<<c, i>>].at # "verify", p.at # "verify",
         BindHolds(p, account, password), SearchHolds(p, proven[c]),
         UNCHANGED <<account, password, poolVars, bindDN, proven>>,
         buffer' \in [Conns -> Seq(Frame)]
  PROVE  IInv'
BY LoopGoesOn DEF IInv, Types, HoldersProven

LEMMA TurnHolds ==
  /\ turn \in Loop /\ turn.at = "turn" /\ turn.right = FALSE
  /\ idle \in Loop /\ idle.at = "idle"
  /\ \A accounts, passwords : BindHolds(turn, accounts, passwords) /\ BindHolds(idle, accounts, passwords)
  /\ \A S : SearchHolds(turn, S) /\ SearchHolds(idle, S)
<1>1. idle \in Loop /\ idle.at = "idle"
  BY DEF idle, Loop, Unusable, Frame, Passwords
<1>2. turn \in Loop /\ turn.at = "turn" /\ turn.right = FALSE
  BY <1>1 DEF turn, idle, Loop
<1>3. QED BY <1>1, <1>2 DEF BindHolds, BindPhases, SearchHolds

LEMMA BuffersStay ==
  ASSUME IInv, UNCHANGED buffer
  PROVE  buffer' \in [Conns -> Seq(Frame)]
BY DEF IInv, Types

(* The outcome of a bind.                                                  *)
LEMMA BindFails ==
  ASSUME IInv, NEW c \in Conns, NEW i \in Loops, bindFails(c, i),
         loop[<<c, i>>].at # "verify",
         UNCHANGED <<account, password, poolVars, disclosed>>,
         buffer' \in [Conns -> Seq(Frame)]
  PROVE  IInv' /\ UNCHANGED Access!vars
<1>1. loop' = [loop EXCEPT ![<<c, i>>] = turn] /\ UNCHANGED <<bindDN, proven>>
  BY DEF bindFails
<1>2. IInv'
  BY <1>1, TurnHolds, OnlyLoop
<1>3. QED BY <1>1, <1>2 DEF Access!vars

LEMMA BindSucceeds ==
  ASSUME IInv, NEW c \in Conns, NEW i \in Loops, NEW id \in Identities,
         bindSucceeds(c, i, id, TRUE),
         loop[<<c, i>>].at # "verify",
         UNCHANGED <<account, password, poolVars, disclosed>>,
         buffer' \in [Conns -> Seq(Frame)]
  PROVE  IInv' /\ Access!Prove(c, id)
<1>1. /\ loop' = [loop EXCEPT ![<<c, i>>] = turn]
      /\ bindDN' = [bindDN EXCEPT ![c] = id]
      /\ proven' = [proven EXCEPT ![c] = @ \cup {id}]
  BY DEF bindSucceeds
<1>2. /\ bindDN' \in [Conns -> Identities \cup {Anonymous}]
      /\ proven' \in [Conns -> SUBSET Identities]
      /\ \A d \in Conns : proven[d] \subseteq proven'[d]
      /\ HoldersProven'
  BY <1>1 DEF IInv, Types, HoldersProven
<1>3. IInv'
  BY <1>1, <1>2, TurnHolds, LoopGoesOn
<1>4. Access!Prove(c, id)
  BY <1>1 DEF Access!Prove
<1>5. QED BY <1>3, <1>4

-----------------------------------------------------------------------------
(* The steps of a loop.                                                    *)
LEMMA HandleBind ==
  ASSUME IInv, NEW c \in Conns, NEW i \in Loops, NEW msg \in Frame,
         handleBind(c, i, msg),
         loop[<<c, i>>].at = "turn",
         UNCHANGED <<account, password>>,
         buffer' \in [Conns -> Seq(Frame)]
  PROVE  IInv' /\ [Access!Next]_(Access!vars)
<1>1. UNCHANGED <<poolVars, disclosed>>
  BY DEF handleBind
<1>2. CASE loop' = [loop EXCEPT ![<<c, i>>] = turn] /\ UNCHANGED <<bindDN, proven>>
  <2>1. IInv'
    BY <1>1, <1>2, TurnHolds, OnlyLoop
  <2>2. QED BY <1>1, <1>2, <2>1 DEF Access!vars
<1>3. CASE /\ loop' = [loop EXCEPT ![<<c, i>>] = turn]
           /\ bindDN' = [bindDN EXCEPT ![c] = Anonymous] /\ UNCHANGED proven
  <2>1. /\ bindDN' \in [Conns -> Identities \cup {Anonymous}]
        /\ proven' \in [Conns -> SUBSET Identities]
        /\ \A d \in Conns : proven[d] \subseteq proven'[d]
        /\ HoldersProven'
    BY <1>3 DEF IInv, Types, HoldersProven
  <2>2. IInv'
    BY <1>1, <1>3, <2>1, TurnHolds, LoopGoesOn
  <2>3. Access!Renounce(c)
    BY <1>1, <1>3 DEF Access!Renounce
  <2>4. QED BY <2>2, <2>3 DEF Access!Next
<1>4. CASE bindFails(c, i)
  BY <1>1, <1>4, BindFails
<1>5. CASE bindSucceeds(c, i, Service, TRUE)
  <2>1. Service \in Identities
    BY DEF Identities
  <2>2. IInv' /\ Access!Prove(c, Service)
    BY <1>1, <1>5, <2>1, BindSucceeds
  <2>3. QED BY <2>1, <2>2 DEF Access!Next
<1>6. CASE /\ loop' = [loop EXCEPT ![<<c, i>>] =
                [turn EXCEPT !.at = "lookup", !.msg = msg, !.usable = userBinds(msg.dn),
                             !.known = userKnows(msg.dn, msg.password)]]
           /\ UNCHANGED <<bindDN, proven>>
  <2> DEFINE usable == userBinds(msg.dn)
             known == userKnows(msg.dn, msg.password)
             p == [turn EXCEPT !.at = "lookup", !.msg = msg, !.usable = usable,
                               !.known = known]
  <2>1. usable \in BOOLEAN /\ known \in BOOLEAN
    BY DEF userBinds, userKnows
  <2>2. /\ usable <=> /\ msg.dn \in Users /\ account[msg.dn] # NoAccount
                      /\ userCanLogin(account[msg.dn], {"pwd"})
        /\ known <=> msg.dn \in Users /\ msg.password = password[msg.dn]
    BY DEF userBinds, userKnows
  <2>3. loop' = [loop EXCEPT ![<<c, i>>] = p]
    BY <1>6
  <2>4. /\ p \in Loop /\ p.at = "lookup" /\ p.msg = msg /\ p.usable = usable
        /\ p.known = known /\ p.right = FALSE
    <3> HIDE DEF usable, known
    <3>1. turn \in Loop /\ turn.right = FALSE
      BY TurnHolds
    <3>2. QED BY <2>1, <3>1 DEF Loop
  <2> HIDE DEF p
  <2>5. BindHolds(p, account, password) /\ SearchHolds(p, proven[c])
    <3> HIDE DEF usable, known
    <3>1. QED BY <2>2, <2>4 DEF BindHolds, SearchHolds
  <2>6. IInv'
    BY <1>1, <1>6, <2>3, <2>4, <2>5, OnlyLoop
  <2>7. QED BY <1>1, <1>6, <2>6 DEF Access!vars
<1>7. QED BY <1>2, <1>3, <1>4, <1>5, <1>6 DEF handleBind, bindAnswered

LEMMA HandleSearch ==
  ASSUME IInv, NEW c \in Conns, NEW i \in Loops, NEW msg \in Frame,
         handleSearch(c, i, msg),
         loop[<<c, i>>].at = "turn",
         UNCHANGED <<account, password>>,
         buffer' \in [Conns -> Seq(Frame)]
  PROVE  IInv' /\ UNCHANGED Access!vars
<1> DEFINE p == [turn EXCEPT !.at = "entries", !.msg = msg]
<1>1. UNCHANGED <<bindDN, proven, disclosed, poolVars>>
  BY DEF handleSearch, historyVars
<1>2. p \in Loop /\ p.at = "entries" /\ p.msg = msg
  BY TurnHolds DEF Loop
<1> HIDE DEF p
<1>3. CASE loop' = [loop EXCEPT ![<<c, i>>] = turn]
  <2>1. IInv'
    BY <1>1, <1>3, TurnHolds, OnlyLoop
  <2>2. QED BY <1>1, <2>1 DEF Access!vars
<1>4. CASE (canSearch(c) \/ aboutRoot(msg)) /\ loop' = [loop EXCEPT ![<<c, i>>] = p]
  <2>1. canSearch(c) => Service \in proven[c]
    BY ServerAssumption DEF canSearch, IInv, HoldersProven, Identities
  <2>2. BindHolds(p, account, password) /\ SearchHolds(p, proven[c])
    BY <1>2, <1>4, <2>1 DEF BindHolds, BindPhases, SearchHolds
  <2>3. IInv'
    BY <1>1, <1>2, <1>4, <2>2, OnlyLoop
  <2>4. QED BY <1>1, <2>3 DEF Access!vars
<1>5. QED BY <1>3, <1>4 DEF handleSearch, p

LEMMA LoopTurnSteps ==
  ASSUME IInv, NEW c \in Conns, NEW i \in Loops, LoopTurn(c, i)
  PROVE  IInv' /\ [Access!Next]_(Access!vars)
<1>1. loop[<<c, i>>].at = "turn" /\ UNCHANGED <<account, password>>
  BY DEF LoopTurn
<1>2. CASE /\ frameReady(c)
           /\ buffer' = [buffer EXCEPT ![c] = Tail(@)]
           /\ handleMessage(c, i, Head(buffer[c]))
  <2>1. buffer[c] \in Seq(Frame) /\ buffer[c] # <<>>
    BY <1>2 DEF frameReady, IInv, Types
  <2>2. Head(buffer[c]) \in Frame /\ Tail(buffer[c]) \in Seq(Frame)
    BY <2>1
  <2>3. buffer' \in [Conns -> Seq(Frame)]
    BY <1>2, <2>2 DEF IInv, Types
  <2>4. CASE handleBind(c, i, Head(buffer[c]))
    BY <1>1, <2>2, <2>3, <2>4, HandleBind
  <2>5. CASE handleSearch(c, i, Head(buffer[c]))
    BY <1>1, <2>2, <2>3, <2>5, HandleSearch
  <2>6. CASE /\ loop' = [loop EXCEPT ![<<c, i>>] = turn]
             /\ UNCHANGED <<bindDN, historyVars, poolVars>>
    <3>1. IInv'
      BY <1>1, <2>3, <2>6, TurnHolds, OnlyLoop DEF historyVars
    <3>2. QED BY <2>6, <3>1 DEF Access!vars, historyVars
  <2>7. QED BY <1>2, <2>4, <2>5, <2>6 DEF handleMessage
<1>3. CASE /\ loop' = [loop EXCEPT ![<<c, i>>] = idle]
           /\ UNCHANGED <<buffer, bindDN, historyVars, poolVars>>
  <2>1. buffer' \in [Conns -> Seq(Frame)]
    BY <1>3, BuffersStay
  <2>2. IInv'
    BY <1>1, <1>3, <2>1, TurnHolds, OnlyLoop DEF historyVars
  <2>3. QED BY <1>3, <2>2 DEF Access!vars, historyVars
<1>4. QED BY <1>2, <1>3 DEF LoopTurn

LEMMA LoopType ==
  ASSUME IInv, NEW c \in Conns, NEW i \in Loops
  PROVE  /\ loop[<<c, i>>] \in Loop
         /\ BindHolds(loop[<<c, i>>], account, password)
         /\ SearchHolds(loop[<<c, i>>], proven[c])
BY DEF IInv, Types, LoopsHold

LEMMA UserFoundSteps ==
  ASSUME IInv, NEW c \in Conns, NEW i \in Loops, UserFound(c, i)
  PROVE  IInv' /\ UNCHANGED Access!vars
<1> DEFINE l == loop[<<c, i>>]
           u == l.msg.dn
           p == [l EXCEPT !.at = "hash", !.acct = account[u]]
<1>1. /\ l.at = "lookup" /\ UNCHANGED <<account, password, poolVars, disclosed>>
      /\ buffer' \in [Conns -> Seq(Frame)]
  BY BuffersStay DEF UserFound
<1>2. CASE bindFails(c, i)
  BY <1>1, <1>2, BindFails
<1>3. CASE /\ u \in Users /\ account[u] # NoAccount
           /\ loop' = [loop EXCEPT ![<<c, i>>] = p]
           /\ UNCHANGED <<bindDN, proven>>
  <2>1. l \in Loop /\ BindHolds(l, account, password)
    BY LoopType
  <2>2. account[u] \in UserRow \cup {NoAccount}
    BY <1>3 DEF IInv, Types
  <2>3. /\ p \in Loop /\ p.at = "hash" /\ p.acct = account[u]
        /\ p.msg = l.msg /\ p.usable = l.usable /\ p.known = l.known /\ p.right = l.right
    <3> HIDE DEF l, u
    <3>1. QED BY <2>1, <2>2 DEF Loop
  <2> HIDE DEF p
  <2>4. BindHolds(p, account, password) /\ SearchHolds(p, proven[c])
    BY <1>1, <1>3, <2>1, <2>3 DEF BindHolds, BindPhases, SearchHolds
  <2>5. IInv'
    BY <1>1, <1>3, <2>3, <2>4, OnlyLoop
  <2>6. QED BY <1>1, <1>3, <2>5 DEF Access!vars
<1>4. QED BY <1>2, <1>3 DEF UserFound, userFound

-----------------------------------------------------------------------------
(* The password check.                                                     *)

(* A loop that waits for a job, and one whose job has been answered.       *)
LEMMA LoopAndPool ==
  ASSUME IInv, NEW c \in Conns, NEW i \in Loops, NEW p \in Loop,
         loop' = [loop EXCEPT ![<<c, i>>] = p],
         BindHolds(p, account, password), SearchHolds(p, proven[c]),
         PoolHolds',
         pendingJobs'[<<c, i>>] # NoWorker <=> p.at = "verify",
         \A j \in Jobs \ {<<c, i>>} : pendingJobs'[j] = pendingJobs[j],
         UNCHANGED <<account, password, buffer, bindDN, proven>>
  PROVE  IInv'
<1>1. LoopsHold' /\ loop' \in [Conns \X Loops -> Loop]
  BY LoopMoves
<1>2. JobsOfLoops'
  <2>1. ASSUME NEW d \in Conns, NEW k \in Loops
        PROVE  pendingJobs'[<<d, k>>] # NoWorker <=> loop'[<<d, k>>].at = "verify"
    <3>1. <<d, k>> \in Jobs
      BY ServerAssumption
    <3>2. CASE <<d, k>> = <<c, i>>
      BY <3>2 DEF IInv, Types
    <3>3. CASE <<d, k>> # <<c, i>>
      BY <3>1, <3>3 DEF IInv, Types, JobsOfLoops
    <3>4. QED BY <3>2, <3>3
  <2>2. QED BY <2>1 DEF JobsOfLoops
<1>3. Types' /\ HoldersProven'
  BY <1>1 DEF IInv, Types, HoldersProven
<1>4. QED BY <1>1, <1>2, <1>3 DEF IInv

(* A loop that handles a bind keeps what it has read and may learn that    *)
(* the password is right, if it knows so.                                  *)
LEMMA BindGoesOn ==
  ASSUME NEW p \in Loop, NEW at \in {"remote", "verify", "verified"}, NEW right \in BOOLEAN,
         NEW accounts, NEW passwords, BindHolds(p, accounts, passwords),
         p.at \in BindPhases \ {"lookup"}, right => p.known
  PROVE  LET q == [p EXCEPT !.at = at, !.right = right]
         IN /\ q \in Loop /\ q.at = at /\ q.msg = p.msg /\ q.hash = p.hash
            /\ at # "remote" => BindHolds(q, accounts, passwords)
            /\ \A S : SearchHolds(q, S)
<1> DEFINE q == [p EXCEPT !.at = at, !.right = right]
<1>1. /\ q \in Loop /\ q.at = at /\ q.right = right /\ q.msg = p.msg /\ q.hash = p.hash
      /\ q.acct = p.acct /\ q.usable = p.usable /\ q.known = p.known
  BY DEF Loop
<1> HIDE DEF q
<1>2. at # "remote" => BindHolds(q, accounts, passwords)
  BY <1>1 DEF BindHolds, BindPhases
<1>3. \A S : SearchHolds(q, S)
  BY <1>1 DEF SearchHolds
<1>4. QED BY <1>1, <1>2, <1>3 DEF q

LEMMA VerifySteps ==
  ASSUME IInv, NEW c \in Conns, NEW i \in Loops, NEW hash,
         verify(c, i, hash),
         loop[<<c, i>>].at \in {"hash", "remote"},
         hash # "" /\ loop[<<c, i>>].msg.password = hash => loop[<<c, i>>].known,
         UNCHANGED <<account, password, buffer, bindDN, proven>>
  PROVE  IInv'
<1> DEFINE l == loop[<<c, i>>]
           q(at, right) == [l EXCEPT !.at = at, !.right = right]
<1>1. l \in Loop /\ BindHolds(l, account, password) /\ l.at \in BindPhases \ {"lookup"}
  BY LoopType DEF BindPhases
<1>2. <<c, i>> \in Jobs
  BY ServerAssumption
<1>3. pendingJobs[<<c, i>>] = NoWorker
  BY DEF IInv, JobsOfLoops
<1>4. CASE hash = "" \/ queueIsFull
  <2>1. loop' = [loop EXCEPT ![<<c, i>>] = q("verified", FALSE)] /\ UNCHANGED poolVars
    BY <1>4 DEF verify
  <2>2. /\ q("verified", FALSE) \in Loop /\ q("verified", FALSE).at = "verified"
        /\ BindHolds(q("verified", FALSE), account, password)
        /\ SearchHolds(q("verified", FALSE), proven[c])
    BY <1>1, BindGoesOn
  <2>3. buffer' \in [Conns -> Seq(Frame)]
    BY BuffersStay
  <2> HIDE DEF q, l
  <2>4. QED BY <2>1, <2>2, <2>3, OnlyLoop DEF l
<1>5. CASE hash # "" /\ ~queueIsFull
  <2> DEFINE right == l.msg.password = hash
  <2>1. loop' = [loop EXCEPT ![<<c, i>>] = q("verify", right)] /\ runInPool(<<c, i>>)
    BY <1>5 DEF verify
  <2>2. right \in BOOLEAN /\ (right => l.known)
    BY <1>5
  <2>3. /\ q("verify", right) \in Loop /\ q("verify", right).at = "verify"
        /\ BindHolds(q("verify", right), account, password)
        /\ SearchHolds(q("verify", right), proven[c])
    <3> HIDE DEF right
    <3>1. QED BY <1>1, <2>2, BindGoesOn
  <2>4. /\ PoolHolds' /\ pendingJobs'[<<c, i>>] # NoWorker
        /\ \A k \in Jobs \ {<<c, i>>} : pendingJobs'[k] = pendingJobs[k]
    BY <1>2, <1>3, <2>1, RunInPoolHolds DEF IInv
  <2> HIDE DEF q, l, right
  <2>5. QED BY <2>1, <2>3, <2>4, LoopAndPool
<1>6. QED BY <1>4, <1>5

LEMMA CheckPasswordHashSteps ==
  ASSUME IInv, NEW c \in Conns, NEW i \in Loops, checkPasswordHash(c, i)
  PROVE  IInv' /\ UNCHANGED Access!vars
<1> DEFINE l == loop[<<c, i>>]
           u == l.msg.dn
           hash == IF account[u].hasPassword THEN password[u] ELSE ""
<1>1. /\ l.at = "hash"
      /\ UNCHANGED <<buffer, bindDN, account, password, historyVars>>
  BY DEF checkPasswordHash
<1>2. UNCHANGED Access!vars /\ UNCHANGED proven /\ buffer' \in [Conns -> Seq(Frame)]
  BY <1>1, BuffersStay DEF historyVars, Access!vars
<1>3. l \in Loop /\ BindHolds(l, account, password) /\ u \in Users
  BY <1>1, LoopType DEF BindHolds, BindPhases
<1>4. hash \in Passwords /\ (hash # "" => hash = password[u])
  BY <1>3 DEF IInv, Types, Passwords
<1>5. hash # "" /\ l.msg.password = hash => l.known
  BY <1>1, <1>3, <1>4 DEF BindHolds, BindPhases
<1>6. CASE loop' = [loop EXCEPT ![<<c, i>>].at = "verified"] /\ UNCHANGED poolVars
  <2> DEFINE q == [l EXCEPT !.at = "verified"]
  <2>1. loop' = [loop EXCEPT ![<<c, i>>] = q]
    BY <1>6
  <2>2. /\ q \in Loop /\ q.at = "verified" /\ q.msg = l.msg /\ q.acct = l.acct
        /\ q.usable = l.usable /\ q.known = l.known /\ q.right = l.right
    BY <1>3 DEF Loop
  <2> HIDE DEF q
  <2>3. BindHolds(q, account, password) /\ SearchHolds(q, proven[c])
    BY <1>1, <1>3, <2>2 DEF BindHolds, BindPhases, SearchHolds
  <2>4. QED BY <1>1, <1>2, <1>6, <2>1, <2>2, <2>3, OnlyLoop
<1>7. CASE /\ loop' = [loop EXCEPT ![<<c, i>>].at = "remote", ![<<c, i>>].hash = hash]
           /\ UNCHANGED poolVars
  <2> DEFINE q == [l EXCEPT !.at = "remote", !.hash = hash]
  <2>1. loop' = [loop EXCEPT ![<<c, i>>] = q]
    BY <1>7
  <2>2. /\ q \in Loop /\ q.at = "remote" /\ q.hash = hash /\ q.msg = l.msg /\ q.acct = l.acct
        /\ q.usable = l.usable /\ q.known = l.known /\ q.right = l.right
    <3> HIDE DEF hash
    <3>1. QED BY <1>3, <1>4 DEF Loop
  <2> HIDE DEF q, hash
  <2>3. BindHolds(q, account, password) /\ SearchHolds(q, proven[c])
    BY <1>1, <1>3, <1>5, <2>2 DEF BindHolds, BindPhases, SearchHolds
  <2>4. QED BY <1>1, <1>2, <1>7, <2>1, <2>2, <2>3, OnlyLoop
<1>8. CASE verify(c, i, hash)
  <2> HIDE DEF hash
  <2>1. QED BY <1>1, <1>2, <1>5, <1>8, VerifySteps
<1>9. QED BY <1>2, <1>6, <1>7, <1>8 DEF checkPasswordHash

LEMMA VerifyLDAPPasswordSteps ==
  ASSUME IInv, NEW c \in Conns, NEW i \in Loops, verifyLDAPPassword(c, i)
  PROVE  IInv' /\ UNCHANGED Access!vars
<1> DEFINE l == loop[<<c, i>>]
<1>1. /\ l.at = "remote"
      /\ UNCHANGED <<buffer, bindDN, account, password, historyVars>>
  BY DEF verifyLDAPPassword
<1>2. UNCHANGED Access!vars /\ UNCHANGED proven /\ buffer' \in [Conns -> Seq(Frame)]
  BY <1>1, BuffersStay DEF historyVars, Access!vars
<1>3. l \in Loop /\ BindHolds(l, account, password) /\ l.at \in BindPhases \ {"lookup"}
  BY <1>1, LoopType DEF BindPhases
<1>4. CASE /\ l.msg.password = password[l.msg.dn]
           /\ loop' = [loop EXCEPT ![<<c, i>>].at = "verified", ![<<c, i>>].right = TRUE]
           /\ UNCHANGED poolVars
  <2> DEFINE q == [l EXCEPT !.at = "verified", !.right = TRUE]
  <2>1. loop' = [loop EXCEPT ![<<c, i>>] = q]
    BY <1>4
  <2>2. l.known
    BY <1>3, <1>4 DEF BindHolds
  <2>3. /\ q \in Loop /\ q.at = "verified"
        /\ BindHolds(q, account, password) /\ SearchHolds(q, proven[c])
    BY <1>3, <2>2, BindGoesOn
  <2> HIDE DEF q
  <2>4. QED BY <1>1, <1>2, <1>4, <2>1, <2>3, OnlyLoop
<1>5. CASE verify(c, i, l.hash)
  <2>1. l.hash # "" /\ l.msg.password = l.hash => l.known
    BY <1>1, <1>3 DEF BindHolds
  <2>2. QED BY <1>1, <1>2, <1>5, <2>1, VerifySteps
<1>6. QED BY <1>4, <1>5 DEF verifyLDAPPassword

LEMMA PoolAnswersSteps ==
  ASSUME IInv, NEW c \in Conns, NEW i \in Loops, PoolAnswers(c, i)
  PROVE  IInv' /\ UNCHANGED Access!vars
<1> DEFINE l == loop[<<c, i>>]
<1>1. /\ l.at = "verify" /\ workerMessage(<<c, i>>)
      /\ UNCHANGED <<buffer, bindDN, account, password, historyVars>>
  BY DEF PoolAnswers
<1>2. UNCHANGED Access!vars /\ UNCHANGED proven
  BY <1>1 DEF historyVars, Access!vars
<1>3. l \in Loop /\ BindHolds(l, account, password) /\ l.at \in BindPhases \ {"lookup"}
  BY <1>1, LoopType DEF BindPhases
<1>4. l.right \in BOOLEAN /\ (l.right => l.known)
  BY <1>3 DEF Loop, BindHolds
<1>5. PICK right \in {l.right, FALSE} :
        loop' = [loop EXCEPT ![<<c, i>>] = [l EXCEPT !.at = "verified", !.right = right]]
  <2>1. [l EXCEPT !.at = "verified"] = [l EXCEPT !.at = "verified", !.right = l.right]
    BY <1>3 DEF Loop
  <2>2. \/ loop' = [loop EXCEPT ![<<c, i>>] = [l EXCEPT !.at = "verified"]]
        \/ loop' = [loop EXCEPT ![<<c, i>>] = [l EXCEPT !.at = "verified", !.right = FALSE]]
    BY DEF PoolAnswers
  <2>3. QED BY <2>1, <2>2
<1>6. right \in BOOLEAN /\ (right => l.known)
  BY <1>4, <1>5
<1> DEFINE q == [l EXCEPT !.at = "verified", !.right = right]
<1>7. /\ q \in Loop /\ q.at = "verified"
      /\ BindHolds(q, account, password) /\ SearchHolds(q, proven[c])
  BY <1>3, <1>6, BindGoesOn
<1>8. /\ PoolHolds' /\ pendingJobs'[<<c, i>>] = NoWorker
      /\ \A k \in Jobs \ {<<c, i>>} : pendingJobs'[k] = pendingJobs[k]
  BY <1>1, ServerAssumption, WorkerMessageHolds DEF IInv
<1>9. loop' = [loop EXCEPT ![<<c, i>>] = q]
  BY <1>5
<1> HIDE DEF q
<1>10. IInv'
  BY <1>1, <1>2, <1>7, <1>8, <1>9, LoopAndPool
<1>11. QED BY <1>2, <1>10

LEMMA BindDecidedSteps ==
  ASSUME IInv, NEW c \in Conns, NEW i \in Loops, BindDecided(c, i)
  PROVE  IInv' /\ [Access!Next]_(Access!vars)
<1> DEFINE l == loop[<<c, i>>]
<1>1. /\ l.at = "verified" /\ UNCHANGED <<account, password, poolVars, disclosed>>
      /\ buffer' \in [Conns -> Seq(Frame)]
  BY BuffersStay DEF BindDecided
<1>2. l \in Loop /\ BindHolds(l, account, password)
  BY LoopType
<1>3. CASE /\ l.right /\ userCanLogin(l.acct, {"pwd"})
           /\ bindSucceeds(c, i, l.msg.dn, l.usable /\ l.known)
  <2>1. /\ l.msg.dn \in Users
        /\ (l.usable /\ l.known) = TRUE
    BY <1>1, <1>2, <1>3 DEF BindHolds, BindPhases
  <2>2. bindSucceeds(c, i, l.msg.dn, TRUE) /\ l.msg.dn \in Identities
    BY <1>3, <2>1 DEF Identities
  <2>3. IInv' /\ Access!Prove(c, l.msg.dn)
    <3> HIDE DEF l
    <3>1. QED BY <1>1, <2>2, BindSucceeds DEF l
  <2>4. QED BY <2>2, <2>3 DEF Access!Next
<1>4. CASE bindFails(c, i)
  BY <1>1, <1>4, BindFails
<1>5. QED BY <1>3, <1>4 DEF BindDecided

-----------------------------------------------------------------------------
(* The entries.                                                            *)
LEMMA UsersReadSteps ==
  ASSUME IInv, NEW c \in Conns, NEW i \in Loops, UsersRead(c, i)
  PROVE  IInv' /\ UNCHANGED Access!vars
<1> DEFINE l == loop[<<c, i>>]
           q == [l EXCEPT !.at = "members"]
<1>1. /\ l.at = "entries" /\ loop' = [loop EXCEPT ![<<c, i>>] = q]
      /\ UNCHANGED <<bindDN, account, password, historyVars, poolVars>>
      /\ buffer' \in [Conns -> Seq(Frame)]
  BY BuffersStay DEF UsersRead
<1>2. l \in Loop /\ SearchHolds(l, proven[c])
  BY LoopType
<1>3. q \in Loop /\ q.at = "members" /\ q.msg = l.msg
  BY <1>2 DEF Loop
<1> HIDE DEF q
<1>4. BindHolds(q, account, password) /\ SearchHolds(q, proven[c])
  BY <1>1, <1>2, <1>3 DEF BindHolds, BindPhases, SearchHolds
<1>5. IInv'
  BY <1>1, <1>3, <1>4, OnlyLoop DEF historyVars
<1>6. QED BY <1>1, <1>5 DEF historyVars, Access!vars

LEMMA EntriesSentSteps ==
  ASSUME IInv, NEW c \in Conns, NEW i \in Loops, EntriesSent(c, i)
  PROVE  IInv' /\ [Access!Next]_(Access!vars)
<1> DEFINE l == loop[<<c, i>>]
<1>1. /\ l.at = "members" /\ loop' = [loop EXCEPT ![<<c, i>>] = turn]
      /\ UNCHANGED <<bindDN, account, password, proven, poolVars>>
      /\ buffer' \in [Conns -> Seq(Frame)]
  BY BuffersStay DEF EntriesSent
<1>2. IInv'
  BY <1>1, TurnHolds, OnlyLoop
<1>3. CASE UNCHANGED disclosed
  BY <1>1, <1>2, <1>3 DEF Access!vars
<1>4. CASE ~aboutRoot(l.msg) /\ disclosed' = disclosed \cup {c}
  <2>1. Service \in proven[c]
    BY <1>1, <1>4, LoopType DEF SearchHolds
  <2>2. Access!Disclose(c)
    BY <1>1, <1>4, <2>1 DEF Access!Disclose
  <2>3. QED BY <1>2, <2>2 DEF Access!Next
<1>5. QED BY <1>3, <1>4 DEF EntriesSent

(* A request that is given up.                                             *)
LEMMA DatabaseFailsSteps ==
  ASSUME IInv, NEW c \in Conns, NEW i \in Loops, DatabaseFails(c, i)
  PROVE  IInv' /\ UNCHANGED Access!vars
<1>1. /\ loop[<<c, i>>].at # "verify" /\ loop' = [loop EXCEPT ![<<c, i>>] = turn]
      /\ UNCHANGED <<bindDN, account, password, historyVars, poolVars>>
      /\ buffer' \in [Conns -> Seq(Frame)]
  BY BuffersStay DEF DatabaseFails
<1>2. IInv'
  BY <1>1, TurnHolds, OnlyLoop DEF historyVars
<1>3. QED BY <1>1, <1>2 DEF historyVars, Access!vars

-----------------------------------------------------------------------------
(* Connections.                                                            *)
LEMMA HandleConnectionSteps ==
  ASSUME IInv, NEW c \in Conns, handleConnection(c)
  PROVE  IInv' /\ Access!Reopen(c)
<1>1. /\ \A i \in Loops : loop[<<c, i>>] = idle
      /\ buffer' = [buffer EXCEPT ![c] = <<>>]
      /\ bindDN' = [bindDN EXCEPT ![c] = Anonymous]
      /\ proven' = [proven EXCEPT ![c] = {}]
      /\ disclosed' = disclosed \ {c}
      /\ UNCHANGED <<loop, account, password, poolVars>>
  BY DEF handleConnection
<1>2. <<>> \in Seq(Frame)
  OBVIOUS
<1>3. Types'
  BY <1>1, <1>2 DEF IInv, Types
<1>4. LoopsHold'
  <2>1. ASSUME NEW d \in Conns, NEW k \in Loops
        PROVE  /\ BindHolds(loop[<<d, k>>], account, password)
               /\ SearchHolds(loop[<<d, k>>], proven'[d])
    <3>1. CASE d = c
      BY <1>1, <3>1, TurnHolds
    <3>2. CASE d # c
      BY <1>1, <3>2 DEF IInv, LoopsHold, Types
    <3>3. QED BY <3>1, <3>2
  <2>2. QED BY <1>1, <2>1 DEF LoopsHold
<1>5. JobsOfLoops' /\ PoolHolds'
  BY <1>1 DEF IInv, JobsOfLoops, PoolHolds, PoolTypeOK, PoolAccounts, jobsOf, poolVars
<1>6. HoldersProven'
  BY <1>1 DEF IInv, HoldersProven, Types
<1>7. Access!Reopen(c)
  BY <1>1 DEF Access!Reopen
<1>8. QED BY <1>3, <1>4, <1>5, <1>6, <1>7 DEF IInv

(* Steps in which no loop, no identity and no account takes part.          *)
LEMMA NothingHere ==
  ASSUME IInv, UNCHANGED <<bindDN, loop, account, password, proven, disclosed, poolVars>>,
         buffer' \in [Conns -> Seq(Frame)]
  PROVE  IInv' /\ UNCHANGED Access!vars
<1>1. Types' /\ LoopsHold' /\ HoldersProven'
  BY DEF IInv, Types, LoopsHold, HoldersProven
<1>2. JobsOfLoops' /\ PoolHolds'
  BY DEF IInv, JobsOfLoops, PoolHolds, PoolTypeOK, PoolAccounts, jobsOf, poolVars
<1>3. QED BY <1>1, <1>2 DEF IInv, Access!vars

LEMMA Least ==
  ASSUME NEW S \in SUBSET Nat, S # {}
  PROVE  \E n \in S : \A k \in S : n <= k
<1> DEFINE less == {p \in Nat \X Nat : p[1] < p[2]}
<1>1. IsWellFoundedOn(less, Nat)
  BY NatLessThanWellFounded DEF OpToRel
<1> HIDE DEF less
<1>2. PICK n \in S : \A k \in S : <<k, n>> \notin less
  BY <1>1, WFMin
<1>3. \A k \in S : ~(k < n)
  BY <1>2 DEF less
<1>4. QED BY <1>3

LEMMA FreeLoop ==
  ASSUME NEW c \in Conns, NEW i \in Loops, i = freeLoop(c)
  PROVE  loop[<<c, i>>].at = "idle"
<1> DEFINE free == {k \in Loops : loop[<<c, k>>].at = "idle"}
<1>1. free # {}
  BY ServerAssumption DEF freeLoop
<1>2. i = CHOOSE n \in free : \A k \in free : n <= k
  BY <1>1 DEF freeLoop
<1>3. \E n \in free : \A k \in free : n <= k
  <2>1. free \in SUBSET Nat
    BY ServerAssumption
  <2> HIDE DEF free
  <2>2. QED BY <1>1, <2>1, Least
<1>4. i \in free
  BY <1>2, <1>3
<1>5. QED BY <1>4

LEMMA DataArrivesSteps ==
  ASSUME IInv, NEW c \in Conns, NEW i \in Loops, NEW chunk \in Chunks,
         DataArrives(c, i, chunk)
  PROVE  IInv' /\ UNCHANGED Access!vars
<1>1. UNCHANGED <<bindDN, account, password, historyVars, poolVars>>
  BY DEF DataArrives
<1>2. CASE UNCHANGED <<buffer, loop>>
  BY <1>1, <1>2, BuffersStay, NothingHere DEF historyVars
<1>3. CASE /\ buffer' = [buffer EXCEPT ![c] = rest(c) \o chunk]
           /\ loop' = [loop EXCEPT ![<<c, i>>] = turn]
  <2>1. buffer[c] \in Seq(Frame) /\ chunk \in Seq(Frame)
    BY ServerAssumption DEF IInv, Types
  <2>2. rest(c) \in Seq(Frame)
    <3> DEFINE s == buffer[c]
    <3>1. CASE rest(c) = s
      BY <2>1, <3>1
    <3>2. CASE s # <<>> /\ rest(c) = SubSeq(s, 1, Len(s) - 1)
      <4>1. Len(s) \in Nat /\ Len(s) # 0
        BY <2>1, <3>2
      <4>2. \A k \in 1..(Len(s) - 1) : s[k] \in Frame
        BY <2>1, <4>1
      <4>3. SubSeq(s, 1, Len(s) - 1) \in Seq(Frame)
        BY <2>1, <4>1, <4>2
      <4>4. QED BY <3>2, <4>3
    <3>3. QED BY <3>1, <3>2 DEF rest
  <2>3. rest(c) \o chunk \in Seq(Frame)
    BY <2>1, <2>2
  <2>4. buffer' \in [Conns -> Seq(Frame)]
    BY <1>3, <2>3 DEF IInv, Types
  <2>5. loop[<<c, i>>].at = "idle"
    BY FreeLoop DEF DataArrives
  <2>6. IInv'
    BY <1>1, <1>3, <2>4, <2>5, TurnHolds, OnlyLoop DEF historyVars
  <2>7. QED BY <1>1, <2>6 DEF historyVars, Access!vars
<1>4. QED BY <1>2, <1>3 DEF DataArrives

-----------------------------------------------------------------------------
(* Workers are lost, accounts change, time passes.                         *)
LEMMA WorkerFailsSteps ==
  ASSUME IInv, NEW w \in Workers, WorkerFails(w)
  PROVE  IInv' /\ UNCHANGED Access!vars
<1>1. /\ PoolHolds'
      /\ \A k \in Jobs : pendingJobs'[k] \in {pendingJobs[k], NoWorker}
  BY FailPoolWorkerHolds DEF IInv, WorkerFails
<1>2. UNCHANGED <<buffer, bindDN, account, password, historyVars>>
  BY DEF WorkerFails
<1>3. UNCHANGED Access!vars /\ UNCHANGED proven
  BY <1>2 DEF historyVars, Access!vars
<1>4. ASSUME NEW c \in Conns, NEW i \in Loops
      PROVE  /\ loop'[<<c, i>>] \in Loop
             /\ BindHolds(loop'[<<c, i>>], account, password)
             /\ SearchHolds(loop'[<<c, i>>], proven[c])
             /\ pendingJobs'[<<c, i>>] # NoWorker <=> loop'[<<c, i>>].at = "verify"
  <2> DEFINE l == loop[<<c, i>>]
             q == [l EXCEPT !.at = "verified", !.right = FALSE]
  <2>1. <<c, i>> \in Jobs /\ pendingJobs'[<<c, i>>] \in {pendingJobs[<<c, i>>], NoWorker}
    BY <1>1, ServerAssumption
  <2>2. /\ l \in Loop /\ BindHolds(l, account, password) /\ SearchHolds(l, proven[c])
        /\ pendingJobs[<<c, i>>] # NoWorker <=> l.at = "verify"
    BY LoopType DEF IInv, JobsOfLoops
  <2>3. loop'[<<c, i>>] = IF pendingJobs[<<c, i>>] # NoWorker /\ pendingJobs'[<<c, i>>] = NoWorker
                          THEN q ELSE l
    BY DEF WorkerFails
  <2>4. CASE pendingJobs[<<c, i>>] # NoWorker /\ pendingJobs'[<<c, i>>] = NoWorker
    <3>1. l.at \in BindPhases \ {"lookup"}
      BY <2>2, <2>4 DEF BindPhases
    <3>2. /\ q \in Loop /\ q.at = "verified"
          /\ BindHolds(q, account, password) /\ SearchHolds(q, proven[c])
      BY <2>2, <3>1, BindGoesOn
    <3> HIDE DEF q
    <3>3. QED BY <2>3, <2>4, <3>2
  <2>5. CASE ~(pendingJobs[<<c, i>>] # NoWorker /\ pendingJobs'[<<c, i>>] = NoWorker)
    <3>1. loop'[<<c, i>>] = l /\ pendingJobs'[<<c, i>>] = pendingJobs[<<c, i>>]
      BY <2>1, <2>3, <2>5
    <3>2. QED BY <2>2, <3>1
  <2>6. QED BY <2>4, <2>5
<1>5. LoopsHold' /\ JobsOfLoops'
  BY <1>2, <1>3, <1>4 DEF LoopsHold, JobsOfLoops
<1>6. loop' \in [Conns \X Loops -> Loop]
  <2>1. \A l \in Conns \X Loops : loop'[l] \in Loop
    BY <1>4
  <2>2. loop' = [l \in Conns \X Loops |-> loop'[l]]
    BY DEF WorkerFails
  <2>3. QED BY <2>1, <2>2
<1>7. Types' /\ HoldersProven'
  BY <1>2, <1>3, <1>6 DEF IInv, Types, HoldersProven
<1>8. QED BY <1>1, <1>3, <1>5, <1>7 DEF IInv

LEMMA AccountChangesSteps ==
  ASSUME IInv, NEW u \in Users, AccountChanges(u)
  PROVE  IInv' /\ UNCHANGED Access!vars
<1>1. UNCHANGED <<buffer, bindDN, historyVars, poolVars>>
  BY DEF AccountChanges
<1>2. UNCHANGED Access!vars /\ UNCHANGED proven
  BY <1>1 DEF historyVars, Access!vars
<1>3. /\ account' \in [Users -> UserRow \cup {NoAccount}]
      /\ \A v \in Users \ {u} : account'[v] = account[v]
  <2>1. CASE UNCHANGED account
    BY <2>1 DEF IInv, Types
  <2>2. CASE account' = [account EXCEPT ![u] = NoAccount]
    BY <2>2 DEF IInv, Types
  <2>3. ASSUME NEW field \in AdminFields, account' = [account EXCEPT ![u][field] = ~@]
        PROVE  /\ account' \in [Users -> UserRow \cup {NoAccount}]
               /\ \A v \in Users \ {u} : account'[v] = account[v]
    <3>1. account[u] \in UserRow
      BY DEF AccountChanges, IInv, Types
    <3>2. field \in {"approved", "expired", "emailVerified"}
      BY ServerAssumption
    <3>3. [account[u] EXCEPT ![field] = ~@] \in UserRow
      BY <3>1, <3>2 DEF UserRow
    <3>4. account' = [account EXCEPT ![u] = [account[u] EXCEPT ![field] = ~@]]
      BY <2>3
    <3>5. QED BY <3>3, <3>4 DEF IInv, Types
  <2>4. QED BY <2>1, <2>2, <2>3 DEF AccountChanges
<1>4. /\ password' \in [Users -> Passwords]
      /\ \A v \in Users \ {u} : password'[v] = password[v]
  BY DEF AccountChanges, IInv, Types, Passwords
<1>5. ASSUME NEW c \in Conns, NEW i \in Loops
      PROVE  /\ loop'[<<c, i>>] \in Loop
             /\ BindHolds(loop'[<<c, i>>], account', password')
             /\ SearchHolds(loop'[<<c, i>>], proven[c])
             /\ loop'[<<c, i>>].at = loop[<<c, i>>].at
  <2> DEFINE l == loop[<<c, i>>]
  <2>1. /\ l \in Loop /\ BindHolds(l, account, password) /\ SearchHolds(l, proven[c])
    BY LoopType
  <2>2. bindInFlight(<<c, i>>) <=> l.at \in BindPhases
    BY DEF bindInFlight, BindPhases
  <2>3. CASE l.at \in BindPhases /\ l.msg.dn = u
    <3>1. PICK usable \in BOOLEAN, known \in BOOLEAN :
            /\ usable <=> l.usable \/ (account'[u] # NoAccount /\ userCanLogin(account'[u], {"pwd"}))
            /\ known <=> l.known \/ l.msg.password = password'[u]
            /\ loop'[<<c, i>>] = [l EXCEPT !.usable = usable, !.known = known]
      <4> DEFINE usable == l.usable \/ userBinds(u)'
                 known == l.known \/ l.msg.password = password'[u]
      <4>1. loop'[<<c, i>>] = [l EXCEPT !.usable = usable, !.known = known]
        BY <2>2, <2>3 DEF AccountChanges
      <4>2. usable \in BOOLEAN /\ known \in BOOLEAN
        OBVIOUS
      <4>3. usable <=> l.usable \/ (account'[u] # NoAccount /\ userCanLogin(account'[u], {"pwd"}))
        BY DEF userBinds
      <4> HIDE DEF usable
      <4>4. QED BY <4>1, <4>2, <4>3
    <3> DEFINE q == [l EXCEPT !.usable = usable, !.known = known]
    <3>2. /\ q \in Loop /\ q.usable = usable /\ q.known = known /\ q.at = l.at
          /\ q.msg = l.msg /\ q.acct = l.acct /\ q.right = l.right /\ q.hash = l.hash
      BY <2>1 DEF Loop
    <3>3. loop'[<<c, i>>] = q
      BY <3>1
    <3> HIDE DEF q, l
    <3>4. BindHolds(q, account', password') /\ SearchHolds(q, proven[c])
      BY <2>1, <2>3, <3>1, <3>2 DEF BindHolds, SearchHolds
    <3>5. QED BY <3>2, <3>3, <3>4 DEF l
  <2>4. CASE ~(l.at \in BindPhases /\ l.msg.dn = u)
    <3>1. loop'[<<c, i>>] = l
      BY <2>2, <2>4 DEF AccountChanges
    <3>2. BindHolds(l, account', password')
      BY <1>3, <1>4, <2>1, <2>4 DEF BindHolds
    <3>3. QED BY <2>1, <3>1, <3>2
  <2>5. QED BY <2>3, <2>4
<1>6. LoopsHold'
  BY <1>2, <1>5 DEF LoopsHold
<1>7. JobsOfLoops' /\ PoolHolds'
  BY <1>1, <1>5 DEF IInv, JobsOfLoops, PoolHolds, PoolTypeOK, PoolAccounts, jobsOf, poolVars
<1>8. loop' \in [Conns \X Loops -> Loop]
  <2>1. \A l \in Conns \X Loops : loop'[l] \in Loop
    BY <1>5
  <2>2. loop' = [l \in Conns \X Loops |-> loop'[l]]
    BY DEF AccountChanges
  <2>3. QED BY <2>1, <2>2
<1>9. Types' /\ HoldersProven'
  BY <1>1, <1>2, <1>3, <1>4, <1>8 DEF IInv, Types, HoldersProven
<1>10. QED BY <1>2, <1>6, <1>7, <1>9 DEF IInv

-----------------------------------------------------------------------------
(* The invariant and the refinement.                                       *)
LEMMA InitHolds ==
  Init => IInv /\ Access!Init
<1> SUFFICES ASSUME Init PROVE IInv /\ Access!Init
  OBVIOUS
<1>1. <<>> \in Seq(Frame) /\ "old" \in Passwords
  BY DEF Passwords
<1>2. Types
  BY <1>1, TurnHolds, ServerAssumption DEF Init, Types
<1>3. \A c \in Conns, i \in Loops : loop[<<c, i>>] = idle /\ pendingJobs[<<c, i>>] = NoWorker
  BY ServerAssumption DEF Init, PoolInit
<1>4. LoopsHold /\ JobsOfLoops
  BY <1>3, TurnHolds DEF LoopsHold, JobsOfLoops
<1>5. PoolHolds
  BY DEF Init, PoolInit, PoolHolds, PoolTypeOK, PoolAccounts
<1>6. HoldersProven /\ Access!Init
  BY DEF Init, HoldersProven, Access!Init
<1>7. QED BY <1>2, <1>4, <1>5, <1>6 DEF IInv

LEMMA LoopStepSteps ==
  ASSUME IInv, NEW c \in Conns, NEW i \in Loops, LoopStep(c, i)
  PROVE  IInv' /\ [Access!Next]_(Access!vars)
BY LoopTurnSteps, UserFoundSteps, CheckPasswordHashSteps, VerifyLDAPPasswordSteps,
   PoolAnswersSteps, BindDecidedSteps, UsersReadSteps, EntriesSentSteps,
   DatabaseFailsSteps DEF LoopStep

LEMMA NextSteps ==
  ASSUME IInv, [Next]_vars
  PROVE  IInv' /\ [Access!Next]_(Access!vars)
<1>1. ASSUME NEW c \in Conns, handleConnection(c)
      PROVE  IInv' /\ [Access!Next]_(Access!vars)
  BY <1>1, HandleConnectionSteps DEF Access!Next
<1>2. CASE UNCHANGED <<buffer, bindDN, loop, account, password, proven, disclosed, poolVars>>
  BY <1>2, BuffersStay, NothingHere
<1>3. ASSUME NEW c \in Conns, ConnectionEnds(c)
      PROVE  IInv' /\ [Access!Next]_(Access!vars)
  BY <1>2, <1>3 DEF ConnectionEnds, historyVars
<1>4. ASSUME NEW c \in Conns, NEW i \in Loops, NEW chunk \in Chunks, DataArrives(c, i, chunk)
      PROVE  IInv' /\ [Access!Next]_(Access!vars)
  BY <1>4, DataArrivesSteps
<1>5. ASSUME NEW c \in Conns, NEW i \in Loops, LoopStep(c, i)
      PROVE  IInv' /\ [Access!Next]_(Access!vars)
  BY <1>5, LoopStepSteps
<1>6. ASSUME NEW w \in Workers, WorkerFails(w)
      PROVE  IInv' /\ [Access!Next]_(Access!vars)
  BY <1>6, WorkerFailsSteps
<1>7. ASSUME NEW u \in Users, AccountChanges(u)
      PROVE  IInv' /\ [Access!Next]_(Access!vars)
  BY <1>7, AccountChangesSteps
<1>8. CASE TimePasses \/ CleanupRuns
  BY <1>2, <1>8 DEF TimePasses, CleanupRuns, serverVars
<1>9. CASE UNCHANGED vars
  BY <1>2, <1>9 DEF vars, serverVars, historyVars
<1>10. QED
  BY <1>1, <1>3, <1>4, <1>5, <1>6, <1>7, <1>8, <1>9 DEF Next

(* A bind under way knows what it may rely on, and a job is pending for    *)
(* exactly the loops that wait for one.                                    *)
THEOREM LdapServerInvariant == Spec => []IInv
BY InitHolds, NextSteps, PTL DEF Spec

(* The workers' counters are exact, no job is left with a dead worker, and *)
(* there is at most one worker, whatever WORKER_COUNT and MAX_PENDING_JOBS *)
(* are (argon2id.ts).                                                      *)
THEOREM PoolAccountsHolds == Spec => []PoolAccounts
<1>1. IInv => PoolAccounts
  BY DEF IInv, PoolHolds
<1>2. QED BY <1>1, LdapServerInvariant, PTL

(* The server implements DirectoryAccess: every step of it proves or       *)
(* renounces an identity, reopens a connection, discloses entries to one   *)
(* on which the service account was proven, or is none of its business.    *)
THEOREM KeepsAccessPromiseHolds == Spec => KeepsAccessPromise
<1>1. Init => Access!Init
  BY InitHolds
<1>2. IInv /\ [Next]_vars => [Access!Next]_(Access!vars)
  BY NextSteps
<1>3. QED
  BY <1>1, <1>2, LdapServerInvariant, PTL DEF Spec, KeepsAccessPromise, Access!Spec

-----------------------------------------------------------------------------
(* Who may log in.                                                         *)
LEMMA VisibleMayLogIn ==
  ASSUME NEW row \in UserRow, row.hasEmail
  PROVE  visible(row) <=> userCanLogin(row, {"email"})
<1>1. loginFactors({"email"}) = 2
  BY DEF loginFactors, multiFactors
<1>2. userMfaComplete(row, {"email"})
  BY <1>1 DEF userMfaComplete
<1>3. QED
  BY <1>2 DEF visible, userCanLogin, isUnapproved, isExpired, isUnverifiedEmail, UserRow

(* getLDAPVisibleUsers shows exactly the accounts with an address that the *)
(* conditions of shared/user.ts would let in, whatever the settings.       *)
THEOREM ShowsWhoMayLogInHolds == Spec => []ShowsWhoMayLogIn
<1>1. IInv => ShowsWhoMayLogIn
  <2> SUFFICES ASSUME IInv, NEW u \in Users, account[u] # NoAccount, account[u].hasEmail
               PROVE  visible(account[u]) <=> userCanLogin(account[u], {"email"})
    BY DEF ShowsWhoMayLogIn
  <2>1. account[u] \in UserRow
    BY DEF IInv, Types
  <2>2. QED BY <2>1, VisibleMayLogIn
<1>2. QED BY <1>1, LdapServerInvariant, PTL

-----------------------------------------------------------------------------
(* What a bind rests on.                                                   *)

(* Whoever binds is the loop that has just decided on its bind.            *)
LEMMA WhoBinds ==
  ASSUME IInv, Next, NEW c \in Conns, NEW i \in Loops,
         loop[<<c, i>>].at = "verified", loop'[<<c, i>>] = turn, bindDN' # bindDN
  PROVE  BindDecided(c, i)
<1>1. loop'[<<c, i>>] # loop[<<c, i>>]
  BY TurnHolds
<1>2. loop \in [Conns \X Loops -> Loop]
  BY DEF IInv, Types
<1>3. ASSUME NEW d \in Conns, NEW k \in Loops, NEW p, loop' = [loop EXCEPT ![<<d, k>>] = p]
      PROVE  d = c /\ k = i
  BY <1>1, <1>2, <1>3
<1>4. ASSUME NEW d \in Conns, NEW k \in Loops, LoopTurn(d, k)
      PROVE  FALSE
  <2>1. loop[<<d, k>>].at = "turn"
    BY <1>4 DEF LoopTurn
  <2>2. ASSUME NEW msg, handleMessage(d, k, msg)
        PROVE  \E p : loop' = [loop EXCEPT ![<<d, k>>] = p]
    BY <2>2 DEF handleMessage, handleBind, bindSucceeds, bindFails, bindAnswered, handleSearch
  <2>3. \E p : loop' = [loop EXCEPT ![<<d, k>>] = p]
    BY <1>4, <2>2 DEF LoopTurn
  <2>4. QED BY <1>3, <2>1, <2>3
<1>5. ASSUME NEW d \in Conns, NEW k \in Loops, BindDecided(d, k)
      PROVE  d = c /\ k = i
  <2>1. loop' = [loop EXCEPT ![<<d, k>>] = turn]
    BY <1>5 DEF BindDecided, bindSucceeds, bindFails
  <2>2. QED BY <1>3, <2>1
<1>6. ASSUME NEW d \in Conns, NEW k \in Loops,
             \/ UserFound(d, k) \/ checkPasswordHash(d, k) \/ verifyLDAPPassword(d, k)
             \/ PoolAnswers(d, k) \/ UsersRead(d, k) \/ EntriesSent(d, k)
             \/ DatabaseFails(d, k)
      PROVE  FALSE
  BY <1>6 DEF UserFound, bindFails, checkPasswordHash, verifyLDAPPassword, PoolAnswers,
              UsersRead, EntriesSent, DatabaseFails
<1>7. QED
  BY <1>1, <1>4, <1>5, <1>6 DEF Next, LoopStep, handleConnection, ConnectionEnds, DataArrives,
     WorkerFails, AccountChanges, TimePasses, CleanupRuns, serverVars

(* handleBind never lets a client in on what was true only before the      *)
(* request came: the account was usable, and the password right, at some   *)
(* moment while it was handled.                                            *)
THEOREM BindsAreCurrentHolds == Spec => BindsAreCurrent
<1> DEFINE current ==
             \A c \in Conns, i \in Loops :
               loop[<<c, i>>].at = "verified" /\ loop'[<<c, i>>] = turn
                 /\ loop[<<c, i>>].msg.dn \in proven'[c] \cup {bindDN'[c]}
                 /\ bindDN' # bindDN
               => loop[<<c, i>>].usable /\ loop[<<c, i>>].known
<1>1. ASSUME IInv, [Next]_vars
      PROVE  [current]_vars
  <2> SUFFICES ASSUME Next, NEW c \in Conns, NEW i \in Loops,
                      loop[<<c, i>>].at = "verified", loop'[<<c, i>>] = turn,
                      bindDN' # bindDN
               PROVE  loop[<<c, i>>].usable /\ loop[<<c, i>>].known
    BY <1>1
  <2>1. BindDecided(c, i)
    BY <1>1, WhoBinds
  <2>2. loop[<<c, i>>].right /\ userCanLogin(loop[<<c, i>>].acct, {"pwd"})
    BY <2>1 DEF BindDecided, bindFails
  <2>3. BindHolds(loop[<<c, i>>], account, password)
    BY <1>1, LoopType
  <2>4. QED BY <2>2, <2>3 DEF BindHolds, BindPhases
<1>2. QED BY <1>1, LdapServerInvariant, PTL DEF Spec, BindsAreCurrent

-----------------------------------------------------------------------------
(***************************************************************************)
(* The rest of the types, and what the back-off rests on: a blocked        *)
(* address has reached the limit, and the guesses of one that is not, if   *)
(* none of its binds outlived its connection, are all counted as failures  *)
(* and below the limit.                                                    *)
(***************************************************************************)
SocketTypes ==
  /\ socket \in [Conns -> {"none", "open", "ended", "destroyed"}]
  /\ IsFiniteSet(activeConnections)
  /\ Cardinality(activeConnections) <= MAX_CONNECTIONS
  /\ \A c \in Conns : Len(buffer[c]) <= MAX_BUFFER
  /\ linked \subseteq RemoteUsers
  /\ arrived \in 0..FrameBound
  /\ changes \in 0..ChangeBound
  /\ disclosed \subseteq Conns

GuessTypes ==
  /\ guesses \in [Addresses -> 0..(FailureBound + 1)]
  /\ consecutive \in [Addresses -> 0..(FailureBound + 1)]
  /\ loose \subseteq Addresses
  /\ BackoffTypeOK

GuessesCounted ==
  /\ \A a \in Addresses : blockedFor[a] > 0 => failures[a] >= BIND_FAILURES_BEFORE_BACKOFF
  /\ \A a \in Addresses \ loose :
       blockedFor[a] = 0
         => guesses[a] <= failures[a] /\ guesses[a] < BIND_FAILURES_BEFORE_BACKOFF

GuessInv == GuessTypes /\ GuessesCounted

-----------------------------------------------------------------------------
(* Powers of two, by the least exponent that would go wrong.               *)
LEMMA PowersExist ==
  \A n \in Nat :
    \E f \in [0..n -> Nat \ {0}] : \A k \in 0..n : f[k] = IF k = 0 THEN 1 ELSE 2 * f[k - 1]
<1> DEFINE has(n) == \E f \in [0..n -> Nat \ {0}] :
                       \A k \in 0..n : f[k] = IF k = 0 THEN 1 ELSE 2 * f[k - 1]
           wrong == {n \in Nat : ~has(n)}
<1>1. SUFFICES wrong = {}
  OBVIOUS
<1>2. SUFFICES ASSUME NEW n \in wrong, \A k \in wrong : n <= k
               PROVE  FALSE
  <2>1. wrong \in SUBSET Nat
    OBVIOUS
  <2> HIDE DEF wrong
  <2>2. QED BY <2>1, Least
<1>3. n # 0
  <2>1. SUFFICES has(0)
    BY <1>2
  <2>2. [k \in 0..0 |-> 1] \in [0..0 -> Nat \ {0}]
    OBVIOUS
  <2>3. \A k \in 0..0 : [j \in 0..0 |-> 1][k] = IF k = 0 THEN 1 ELSE 2 * [j \in 0..0 |-> 1][k - 1]
    OBVIOUS
  <2>4. QED BY <2>2, <2>3
<1>4. n \in Nat /\ n - 1 \in Nat /\ ~has(n)
  BY <1>2, <1>3
<1>5. has(n - 1)
  <2>1. n - 1 \notin wrong
    <3> HIDE DEF wrong, has
    <3>1. n - 1 \in wrong => n <= n - 1
      BY <1>2
    <3>2. QED BY <1>4, <3>1
  <2>2. QED BY <1>4, <2>1
<1>6. PICK f \in [0..(n - 1) -> Nat \ {0}] :
        \A k \in 0..(n - 1) : f[k] = IF k = 0 THEN 1 ELSE 2 * f[k - 1]
  BY <1>5
<1> DEFINE g == [k \in 0..n |-> IF k = n THEN 2 * f[n - 1] ELSE f[k]]
<1>7. f[n - 1] \in Nat \ {0}
  BY <1>4
<1>8. g \in [0..n -> Nat \ {0}]
  BY <1>4, <1>7
<1>9. ASSUME NEW k \in 0..n
      PROVE  g[k] = IF k = 0 THEN 1 ELSE 2 * g[k - 1]
  <2>1. CASE k = n
    <3>1. g[k] = 2 * f[n - 1] /\ g[k - 1] = f[n - 1]
      BY <1>4, <2>1
    <3>2. QED BY <1>3, <2>1, <3>1
  <2>2. CASE k # n
    <3>1. k \in 0..(n - 1) /\ g[k] = f[k]
      BY <1>4, <2>2
    <3>2. k # 0 => k - 1 \in 0..n /\ k - 1 # n
      BY <1>4, <2>2
    <3>3. k # 0 => g[k - 1] = f[k - 1]
      BY <3>2
    <3>4. QED BY <1>6, <3>1, <3>3
  <2>3. QED BY <2>1, <2>2
<1>10. QED
  <2> HIDE DEF g
  <2>1. has(n)
    BY <1>8, <1>9
  <2>2. QED BY <1>4, <2>1

LEMMA PowersOfTwo ==
  \A k \in 0..FailureBound : powerOfTwo[k] \in Nat \ {0}
<1> DEFINE is(f) == f = [k \in 0..FailureBound |-> IF k = 0 THEN 1 ELSE 2 * f[k - 1]]
<1>1. FailureBound \in Nat
  BY BackoffAssumption
<1>2. powerOfTwo = CHOOSE f : is(f)
  BY DEF powerOfTwo
<1>3. \E f : is(f)
  <2>1. PICK f \in [0..FailureBound -> Nat \ {0}] :
          \A k \in 0..FailureBound : f[k] = IF k = 0 THEN 1 ELSE 2 * f[k - 1]
    BY <1>1, PowersExist
  <2>2. is(f)
    BY <2>1
  <2>3. QED BY <2>2
<1>4. is(powerOfTwo)
  BY <1>2, <1>3
<1>5. \A k \in 0..FailureBound : powerOfTwo[k] = IF k = 0 THEN 1 ELSE 2 * powerOfTwo[k - 1]
  <2>1. QED BY <1>4
<1> DEFINE wrong == {k \in 0..FailureBound : powerOfTwo[k] \notin Nat \ {0}}
<1>6. SUFFICES ASSUME NEW n \in wrong, \A k \in wrong : n <= k
               PROVE  FALSE
  <2>1. wrong \in SUBSET Nat
    BY <1>1
  <2> HIDE DEF wrong
  <2>2. wrong = {} => \A k \in 0..FailureBound : powerOfTwo[k] \in Nat \ {0}
    BY DEF wrong
  <2>3. QED BY <2>1, <2>2, Least
<1>7. CASE n = 0
  BY <1>1, <1>5, <1>7
<1>8. CASE n # 0
  <2>1. n - 1 \in 0..FailureBound /\ n - 1 \notin wrong
    BY <1>1, <1>6, <1>8
  <2>2. powerOfTwo[n - 1] \in Nat \ {0}
    BY <2>1
  <2>3. powerOfTwo[n] = 2 * powerOfTwo[n - 1]
    BY <1>5, <1>8
  <2>4. QED BY <2>2, <2>3
<1>9. QED BY <1>7, <1>8

LEMMA BackoffRange ==
  ASSUME NEW n \in BIND_FAILURES_BEFORE_BACKOFF..FailureBound
  PROVE  backoff(n) \in 1..BIND_BACKOFF_MAX
<1>1. n - BIND_FAILURES_BEFORE_BACKOFF \in 0..FailureBound
  BY BackoffAssumption
<1>2. powerOfTwo[n - BIND_FAILURES_BEFORE_BACKOFF] \in Nat \ {0}
  BY <1>1, PowersOfTwo
<1>3. QED BY <1>2, BackoffAssumption DEF backoff

-----------------------------------------------------------------------------
(* A failure is recorded for an address: it counts on or is blocked.       *)
LEMMA FailureRecorded ==
  ASSUME BackoffTypeOK, NEW a \in Addresses, recordBindFailure(a)
  PROVE  /\ BackoffTypeOK'
         /\ \A b \in Addresses \ {a} : failures'[b] = failures[b] /\ blockedFor'[b] = blockedFor[b]
         /\ \/ blockedFor'[a] > 0 /\ failures'[a] >= BIND_FAILURES_BEFORE_BACKOFF
            \/ /\ failures'[a] = failures[a] + 1 /\ failures'[a] < BIND_FAILURES_BEFORE_BACKOFF
               /\ blockedFor'[a] = blockedFor[a]
<1> DEFINE n == IF failures[a] < FailureBound THEN failures[a] + 1 ELSE FailureBound
<1>1. /\ failures' = [failures EXCEPT ![a] = n]
      /\ blockedFor' = [blockedFor EXCEPT
           ![a] = IF n >= BIND_FAILURES_BEFORE_BACKOFF THEN backoff(n) ELSE blockedFor[a]]
  BY DEF recordBindFailure
<1>2. /\ failures[a] \in 0..FailureBound /\ blockedFor[a] \in 0..BIND_BACKOFF_MAX
      /\ failures \in [Addresses -> 0..FailureBound]
      /\ blockedFor \in [Addresses -> 0..BIND_BACKOFF_MAX]
  BY DEF BackoffTypeOK
<1>3. /\ n \in 0..FailureBound
      /\ n < BIND_FAILURES_BEFORE_BACKOFF => n = failures[a] + 1
  BY <1>2, BackoffAssumption
<1> HIDE DEF n
<1>4. n >= BIND_FAILURES_BEFORE_BACKOFF => backoff(n) \in 1..BIND_BACKOFF_MAX
  BY <1>3, BackoffRange, BackoffAssumption
<1>5. (IF n >= BIND_FAILURES_BEFORE_BACKOFF THEN backoff(n) ELSE blockedFor[a]) \in 0..BIND_BACKOFF_MAX
  BY <1>2, <1>4, BackoffAssumption
<1>6. BackoffTypeOK'
  BY <1>1, <1>2, <1>3, <1>5 DEF BackoffTypeOK
<1>7. failures'[a] = n
      /\ blockedFor'[a] = IF n >= BIND_FAILURES_BEFORE_BACKOFF THEN backoff(n) ELSE blockedFor[a]
  BY <1>1, <1>2
<1>8. \/ blockedFor'[a] > 0 /\ failures'[a] >= BIND_FAILURES_BEFORE_BACKOFF
      \/ /\ failures'[a] = failures[a] + 1 /\ failures'[a] < BIND_FAILURES_BEFORE_BACKOFF
         /\ blockedFor'[a] = blockedFor[a]
  <2>1. CASE n >= BIND_FAILURES_BEFORE_BACKOFF
    BY <1>4, <1>7, <2>1
  <2>2. CASE n < BIND_FAILURES_BEFORE_BACKOFF
    BY <1>3, <1>7, <2>2, BackoffAssumption
  <2>3. QED BY <1>3, <2>1, <2>2, BackoffAssumption
<1>9. QED BY <1>1, <1>2, <1>6, <1>8

(* Steps that count nothing.                                               *)
LEMMA NothingCounted ==
  ASSUME GuessInv, UNCHANGED <<guessVars, backoffVars>>
  PROVE  GuessInv'
BY DEF GuessInv, GuessTypes, GuessesCounted, BackoffTypeOK, guessVars, backoffVars

LEMMA ClientAddress ==
  ASSUME NEW c \in Conns
  PROVE  /\ clientAddress(c) \in Addresses /\ AddressOf[c] \in Addresses
         /\ ~closed(c) => clientAddress(c) = AddressOf[c]
BY ServerAssumption DEF clientAddress

(* A bind fails: the guess is counted where it came from, and the failure  *)
(* there, too, unless the connection is gone.                              *)
LEMMA GuessFails ==
  ASSUME GuessInv, NEW c \in Conns, NEW i \in Loops, bindFails(c, i)
  PROVE  GuessInv'
<1> DEFINE home == AddressOf[c]
           here == clientAddress(c)
<1>1. home \in Addresses /\ here \in Addresses /\ (~closed(c) => here = home)
  BY ClientAddress
<1>2. /\ guesses' = [guesses EXCEPT ![home] = counted(@)]
      /\ consecutive' = [consecutive EXCEPT ![home] = counted(@)]
      /\ loose' = IF closed(c) THEN loose \cup {home} ELSE loose
      /\ recordBindFailure(here)
  BY DEF bindFails
<1>3. /\ BIND_FAILURES_BEFORE_BACKOFF \in Nat \ {0} /\ FailureBound \in Nat
      /\ BIND_FAILURES_BEFORE_BACKOFF <= FailureBound
  BY BackoffAssumption
<1>4. \A n \in 0..(FailureBound + 1) :
        counted(n) \in 0..(FailureBound + 1) /\ counted(n) \in n..(n + 1)
  BY <1>3 DEF counted
<1> HIDE DEF home, here
<1>5. /\ BackoffTypeOK'
      /\ \A b \in Addresses \ {here} : failures'[b] = failures[b] /\ blockedFor'[b] = blockedFor[b]
      /\ \/ blockedFor'[here] > 0 /\ failures'[here] >= BIND_FAILURES_BEFORE_BACKOFF
         \/ /\ failures'[here] = failures[here] + 1
            /\ failures'[here] < BIND_FAILURES_BEFORE_BACKOFF
            /\ blockedFor'[here] = blockedFor[here]
  BY <1>1, <1>2, FailureRecorded DEF GuessInv, GuessTypes
<1>6. GuessTypes'
  BY <1>1, <1>2, <1>4, <1>5 DEF GuessInv, GuessTypes
<1>7. /\ \A b \in Addresses : guesses[b] \in 0..(FailureBound + 1)
      /\ \A b \in Addresses : failures[b] \in Nat /\ blockedFor[b] \in Nat
      /\ \A b \in Addresses : guesses'[b] = IF b = home THEN counted(guesses[b]) ELSE guesses[b]
  BY <1>1, <1>2, <1>3, BackoffAssumption DEF GuessInv, GuessTypes, BackoffTypeOK
<1>8. \A a \in Addresses : blockedFor'[a] > 0 => failures'[a] >= BIND_FAILURES_BEFORE_BACKOFF
  <2>1. blockedFor'[here] > 0 => failures'[here] >= BIND_FAILURES_BEFORE_BACKOFF
    BY <1>1, <1>3, <1>5, <1>7 DEF GuessInv, GuessesCounted
  <2>2. QED BY <1>5, <2>1 DEF GuessInv, GuessesCounted
<1>9. ASSUME NEW a \in Addresses \ loose', blockedFor'[a] = 0
      PROVE  guesses'[a] <= failures'[a] /\ guesses'[a] < BIND_FAILURES_BEFORE_BACKOFF
  <2>1. a \notin loose /\ (closed(c) => a # home)
    BY <1>2, <1>9
  <2>2. /\ blockedFor[a] = 0
        /\ a = here => failures'[a] = failures[a] + 1
                       /\ failures'[a] < BIND_FAILURES_BEFORE_BACKOFF
        /\ a # here => failures'[a] = failures[a]
    BY <1>5, <1>9
  <2>3. guesses[a] <= failures[a] /\ guesses[a] < BIND_FAILURES_BEFORE_BACKOFF
    BY <2>1, <2>2 DEF GuessInv, GuessesCounted
  <2>4. CASE a = home
    <3>1. a = here
      BY <1>1, <2>1, <2>4
    <3>2. guesses'[a] \in guesses[a]..(guesses[a] + 1)
      BY <1>4, <1>7, <2>4
    <3>3. QED BY <1>3, <1>7, <2>2, <2>3, <3>1, <3>2
  <2>5. CASE a # home
    <3>1. guesses'[a] = guesses[a]
      BY <1>7, <2>5
    <3>2. QED BY <1>3, <1>7, <2>2, <2>3, <3>1
  <2>6. QED BY <2>4, <2>5
<1>10. QED BY <1>6, <1>8, <1>9 DEF GuessInv, GuessesCounted

(* A bind succeeds: its address starts afresh.                             *)
LEMMA GuessSucceeds ==
  ASSUME GuessInv, NEW c \in Conns, NEW i \in Loops, NEW id, NEW justified,
         bindSucceeds(c, i, id, justified)
  PROVE  GuessInv'
<1> DEFINE here == clientAddress(c)
<1>1. here \in Addresses
  BY ClientAddress
<1>2. /\ guesses' = [guesses EXCEPT ![here] = 0]
      /\ consecutive' = [consecutive EXCEPT ![here] = 0]
      /\ failures' = [failures EXCEPT ![here] = 0]
      /\ blockedFor' = [blockedFor EXCEPT ![here] = 0]
      /\ UNCHANGED loose
  BY DEF bindSucceeds, recordBindSuccess
<1> HIDE DEF here
<1>3. GuessTypes'
  BY <1>1, <1>2, BackoffAssumption DEF GuessInv, GuessTypes, BackoffTypeOK
<1>4. BIND_FAILURES_BEFORE_BACKOFF \in Nat \ {0}
  BY BackoffAssumption
<1>5. ASSUME NEW a \in Addresses
      PROVE  \/ /\ failures'[a] = failures[a] /\ blockedFor'[a] = blockedFor[a]
                /\ guesses'[a] = guesses[a]
             \/ failures'[a] = 0 /\ blockedFor'[a] = 0 /\ guesses'[a] = 0
  BY <1>2 DEF GuessInv, GuessTypes, BackoffTypeOK
<1>6. GuessesCounted'
  BY <1>2, <1>4, <1>5 DEF GuessInv, GuessesCounted
<1>7. QED BY <1>3, <1>6 DEF GuessInv

LEMMA GuessLoopTurn ==
  ASSUME GuessInv, NEW c \in Conns, NEW i \in Loops, LoopTurn(c, i)
  PROVE  GuessInv'
<1>1. ASSUME NEW msg, handleBind(c, i, msg)
      PROVE  GuessInv'
  <2>1. \/ bindFails(c, i) \/ bindSucceeds(c, i, Service, TRUE)
        \/ UNCHANGED <<guessVars, backoffVars>>
    BY <1>1 DEF handleBind, bindAnswered
  <2>2. QED BY <2>1, GuessFails, GuessSucceeds, NothingCounted
<1>2. \/ \E msg : handleBind(c, i, msg)
      \/ UNCHANGED <<guessVars, backoffVars>>
  BY DEF LoopTurn, handleMessage, handleSearch, historyVars
<1>3. QED BY <1>1, <1>2, NothingCounted

LEMMA GuessLoopStep ==
  ASSUME GuessInv, NEW c \in Conns, NEW i \in Loops, LoopStep(c, i)
  PROVE  GuessInv'
<1>1. CASE UserFound(c, i)
  <2>1. bindFails(c, i) \/ UNCHANGED <<guessVars, backoffVars>>
    BY <1>1 DEF UserFound
  <2>2. QED BY <2>1, GuessFails, NothingCounted
<1>2. CASE BindDecided(c, i)
  <2>1. bindFails(c, i) \/ \E id, justified : bindSucceeds(c, i, id, justified)
    BY <1>2 DEF BindDecided
  <2>2. QED BY <2>1, GuessFails, GuessSucceeds
<1>3. CASE checkPasswordHash(c, i) \/ verifyLDAPPassword(c, i) \/ PoolAnswers(c, i)
           \/ UsersRead(c, i) \/ EntriesSent(c, i) \/ DatabaseFails(c, i)
  BY <1>3, NothingCounted
     DEF checkPasswordHash, verifyLDAPPassword, PoolAnswers, UsersRead, EntriesSent,
         DatabaseFails, historyVars
<1>4. QED BY <1>1, <1>2, <1>3, GuessLoopTurn DEF LoopStep

(* Time forgives: the last unit of a back-off leaves one guess, and the    *)
(* cleanup forgets an address that is not blocked.                         *)
LEMMA GuessForgiven ==
  ASSUME GuessInv, UNCHANGED loose, GuessTypes',
         \A a \in Addresses :
           \/ /\ blockedFor[a] > 0 /\ blockedFor'[a] > 0 /\ failures'[a] = failures[a]
           \/ /\ blockedFor[a] = 0 /\ blockedFor'[a] = 0
              /\ failures'[a] = failures[a] /\ guesses'[a] = guesses[a]
           \/ /\ blockedFor'[a] = 0
              /\ guesses'[a] <= failures'[a] /\ guesses'[a] < BIND_FAILURES_BEFORE_BACKOFF
  PROVE  GuessInv'
<1>1. \A a \in Addresses : blockedFor[a] \in Nat /\ blockedFor'[a] \in Nat
  BY BackoffAssumption DEF GuessInv, GuessTypes, BackoffTypeOK
<1>2. GuessesCounted'
  BY <1>1 DEF GuessInv, GuessesCounted
<1>3. QED BY <1>2 DEF GuessInv

LEMMA GuessTimePasses ==
  ASSUME GuessInv, TimePasses
  PROVE  GuessInv'
<1>1. /\ UNCHANGED <<loose, failures>>
      /\ guesses' = [a \in Addresses |-> afterBackoff(guesses[a], a)]
      /\ consecutive' = [a \in Addresses |-> afterBackoff(consecutive[a], a)]
      /\ blockedFor' = [a \in Addresses |-> IF blockedFor[a] > 0 THEN blockedFor[a] - 1 ELSE 0]
  BY DEF TimePasses, BackoffPasses
<1>2. /\ BIND_FAILURES_BEFORE_BACKOFF \in Nat \ {0} /\ BIND_BACKOFF_MAX \in Nat
      /\ FailureBound \in Nat /\ BIND_FAILURES_BEFORE_BACKOFF <= FailureBound
  BY BackoffAssumption
<1>3. GuessTypes
  BY DEF GuessInv
<1>4. ASSUME NEW a \in Addresses
      PROVE  /\ blockedFor[a] \in 0..BIND_BACKOFF_MAX
             /\ afterBackoff(guesses[a], a) \in 0..(FailureBound + 1)
             /\ afterBackoff(consecutive[a], a) \in 0..(FailureBound + 1)
  BY <1>2, <1>3 DEF GuessTypes, BackoffTypeOK, afterBackoff
<1>5. GuessTypes'
  BY <1>1, <1>2, <1>3, <1>4 DEF GuessTypes, BackoffTypeOK
<1>6. ASSUME NEW a \in Addresses
      PROVE  \/ blockedFor[a] > 0 /\ blockedFor'[a] > 0 /\ failures'[a] = failures[a]
             \/ /\ blockedFor[a] = 0 /\ blockedFor'[a] = 0
                /\ failures'[a] = failures[a] /\ guesses'[a] = guesses[a]
             \/ /\ blockedFor'[a] = 0
                /\ guesses'[a] <= failures'[a] /\ guesses'[a] < BIND_FAILURES_BEFORE_BACKOFF
  <2>1. CASE blockedFor[a] = 1
    <3>1. failures[a] >= BIND_FAILURES_BEFORE_BACKOFF /\ failures[a] \in Nat
      BY <1>2, <1>3, <2>1 DEF GuessInv, GuessesCounted, GuessTypes, BackoffTypeOK
    <3>2. QED BY <1>1, <1>2, <2>1, <3>1 DEF afterBackoff
  <2>2. CASE blockedFor[a] # 1
    BY <1>1, <1>2, <1>4, <2>2 DEF afterBackoff
  <2>3. QED BY <2>1, <2>2
<1>7. QED BY <1>1, <1>5, <1>6, GuessForgiven

LEMMA GuessCleanupRuns ==
  ASSUME GuessInv, CleanupRuns
  PROVE  GuessInv'
<1>1. /\ UNCHANGED <<loose, consecutive, blockedFor>>
      /\ guesses' = [a \in Addresses |-> IF blockedFor[a] > 0 THEN guesses[a] ELSE 0]
      /\ failures' = [a \in Addresses |-> IF blockedFor[a] > 0 THEN failures[a] ELSE 0]
  BY DEF CleanupRuns, FailureCleanup
<1>2. BIND_FAILURES_BEFORE_BACKOFF \in Nat \ {0} /\ FailureBound \in Nat /\ BIND_BACKOFF_MAX \in Nat
  BY BackoffAssumption
<1>3. GuessTypes'
  BY <1>1, <1>2 DEF GuessInv, GuessTypes, BackoffTypeOK
<1>4. \A a \in Addresses : blockedFor[a] \in Nat
  BY <1>2 DEF GuessInv, GuessTypes, BackoffTypeOK
<1>5. QED BY <1>1, <1>2, <1>3, <1>4, GuessForgiven

LEMMA GuessNext ==
  ASSUME GuessInv, [Next]_vars
  PROVE  GuessInv'
<1>1. CASE UNCHANGED <<guessVars, backoffVars>>
  BY <1>1, NothingCounted
<1>2. ASSUME NEW c \in Conns,
             \/ handleConnection(c) \/ ConnectionEnds(c)
             \/ \E i \in Loops, chunk \in Chunks : DataArrives(c, i, chunk)
      PROVE  GuessInv'
  BY <1>1, <1>2 DEF handleConnection, ConnectionEnds, DataArrives, historyVars
<1>3. CASE \/ \E w \in Workers : WorkerFails(w)
           \/ \E u \in Users : AccountChanges(u)
           \/ UNCHANGED vars
  BY <1>1, <1>3 DEF WorkerFails, AccountChanges, vars, historyVars
<1>4. QED
  BY <1>2, <1>3, GuessLoopStep, GuessTimePasses, GuessCleanupRuns DEF Next

LEMMA GuessInit ==
  Init => GuessInv
BY BackoffAssumption
   DEF Init, BackoffInit, GuessInv, GuessTypes, GuessesCounted, BackoffTypeOK

(* An address that is not blocked has failed fewer binds than the limit,   *)
(* whatever the limits, and however its binds interleave with each other   *)
(* and with those of others, with time and with the cleanup.               *)
THEOREM BackoffLimitsGuessesHolds == Spec => []BackoffLimitsGuesses
<1>1. GuessInv => BackoffLimitsGuesses
  BY BackoffAssumption
     DEF GuessInv, GuessTypes, GuessesCounted, BackoffTypeOK, BackoffLimitsGuesses, isBindBlocked
<1>2. Spec => []GuessInv
  BY GuessInit, GuessNext, PTL DEF Spec
<1>3. QED BY <1>1, <1>2, PTL

-----------------------------------------------------------------------------
(* The sockets and the counters.                                           *)
LEMMA SocketsStay ==
  ASSUME IInv, SocketTypes, UNCHANGED <<linked, arrived, changes, disclosed>>,
         socket' \in [Conns -> {"none", "open", "ended", "destroyed"}],
         \A c \in Conns : socket[c] = "none" => socket'[c] = "none",
         \A c \in Conns : Len(buffer'[c]) <= MAX_BUFFER
  PROVE  SocketTypes'
<1>1. activeConnections' \subseteq activeConnections
  BY DEF activeConnections
<1>2. /\ IsFiniteSet(activeConnections') /\ Cardinality(activeConnections') \in Nat
      /\ Cardinality(activeConnections) \in Nat
      /\ Cardinality(activeConnections') <= Cardinality(activeConnections)
  BY <1>1, FS_Subset, FS_CardinalityType DEF SocketTypes
<1>3. Cardinality(activeConnections') <= MAX_CONNECTIONS
  BY <1>2, ServerAssumption DEF SocketTypes
<1>4. QED BY <1>2, <1>3 DEF SocketTypes

LEMMA SocketsUnchanged ==
  ASSUME IInv, SocketTypes, UNCHANGED <<socket, buffer>>,
         linked' \subseteq RemoteUsers, arrived' \in 0..FrameBound,
         changes' \in 0..ChangeBound, disclosed' \subseteq Conns
  PROVE  SocketTypes'
BY DEF SocketTypes, activeConnections

LEMMA SocketsHandleConnection ==
  ASSUME IInv, SocketTypes, NEW c \in Conns, handleConnection(c)
  PROVE  SocketTypes'
<1>1. /\ socket[c] = "none" /\ Cardinality(activeConnections) < MAX_CONNECTIONS
      /\ socket' = [socket EXCEPT ![c] = "open"]
      /\ buffer' = [buffer EXCEPT ![c] = <<>>]
      /\ disclosed' = disclosed \ {c}
      /\ UNCHANGED <<linked, arrived, changes>>
  BY DEF handleConnection, admitConnection
<1>2. activeConnections' = activeConnections \cup {c} /\ c \notin activeConnections
  BY <1>1 DEF activeConnections, SocketTypes
<1>3. /\ IsFiniteSet(activeConnections')
      /\ Cardinality(activeConnections') = Cardinality(activeConnections) + 1
      /\ Cardinality(activeConnections) \in Nat
  BY <1>2, FS_AddElement, FS_CardinalityType DEF SocketTypes
<1>4. Cardinality(activeConnections') <= MAX_CONNECTIONS
  BY <1>1, <1>3, ServerAssumption
<1>5. \A d \in Conns : Len(buffer'[d]) <= MAX_BUFFER
  <2>1. Len(<<>>) = 0 /\ MAX_BUFFER \in Nat
    BY ServerAssumption
  <2>2. ASSUME NEW d \in Conns PROVE buffer'[d] \in {<<>>, buffer[d]} /\ (d # c => buffer'[d] = buffer[d])
    BY <1>1 DEF IInv, Types
  <2>3. buffer'[c] = <<>>
    BY <1>1 DEF IInv, Types
  <2>4. QED BY <2>1, <2>2, <2>3 DEF SocketTypes
<1>6. QED BY <1>1, <1>3, <1>4, <1>5 DEF SocketTypes

LEMMA SocketsDataArrives ==
  ASSUME IInv, SocketTypes, NEW c \in Conns, NEW i \in Loops, NEW chunk \in Chunks,
         DataArrives(c, i, chunk)
  PROVE  SocketTypes'
<1>1. /\ chunk \in Seq(Frame) /\ buffer[c] \in Seq(Frame)
      /\ Len(chunk) \in Nat /\ Len(buffer[c]) \in Nat
  BY ServerAssumption DEF IInv, Types
<1>2. /\ socket[c] \in {"open", "ended"}
      /\ arrived' = arrived + Len(chunk) /\ arrived + Len(chunk) <= FrameBound
      /\ UNCHANGED <<linked, changes, disclosed>>
  BY DEF DataArrives, historyVars
<1>3. arrived' \in 0..FrameBound
  BY <1>1, <1>2, ServerAssumption DEF SocketTypes
<1>4. CASE /\ socket' = [socket EXCEPT ![c] = "destroyed"] /\ UNCHANGED buffer
  <2>1. activeConnections' = activeConnections
    BY <1>2, <1>4 DEF activeConnections, SocketTypes
  <2>2. QED BY <1>2, <1>3, <1>4, <2>1 DEF SocketTypes
<1>5. CASE /\ ~tooMuch(c, chunk)
           /\ buffer' = [buffer EXCEPT ![c] = rest(c) \o chunk] /\ UNCHANGED socket
  <2>1. rest(c) \in Seq(Frame) /\ Len(rest(c)) <= Len(buffer[c])
    <3> DEFINE s == buffer[c]
    <3>1. CASE rest(c) = s
      BY <1>1, <3>1
    <3>2. CASE s # <<>> /\ rest(c) = SubSeq(s, 1, Len(s) - 1)
      <4>1. Len(s) \in Nat \ {0} /\ \A k \in 1..(Len(s) - 1) : s[k] \in Frame
        BY <1>1, <3>2
      <4>2. SubSeq(s, 1, Len(s) - 1) \in Seq(Frame) /\ Len(SubSeq(s, 1, Len(s) - 1)) = Len(s) - 1
        BY <1>1, <4>1
      <4>3. QED BY <3>2, <4>1, <4>2
    <3>3. QED BY <3>1, <3>2 DEF rest
  <2>2. Len(rest(c) \o chunk) <= MAX_BUFFER
    <3>1. Len(rest(c) \o chunk) = Len(rest(c)) + Len(chunk) /\ Len(rest(c)) \in Nat
      BY <1>1, <2>1
    <3>2. QED BY <1>1, <1>5, <2>1, <3>1, ServerAssumption DEF tooMuch
  <2>3. \A d \in Conns : Len(buffer'[d]) <= MAX_BUFFER
    BY <1>5, <2>2 DEF IInv, Types, SocketTypes
  <2>4. activeConnections' = activeConnections
    BY <1>5 DEF activeConnections
  <2>5. QED BY <1>2, <1>3, <1>5, <2>3, <2>4 DEF SocketTypes
<1>6. QED BY <1>4, <1>5 DEF DataArrives

LEMMA SocketsLoopTurn ==
  ASSUME IInv, SocketTypes, NEW c \in Conns, NEW i \in Loops, LoopTurn(c, i)
  PROVE  SocketTypes'
<1>1. UNCHANGED <<linked, arrived, changes, disclosed>>
  BY DEF LoopTurn, handleMessage, handleBind, handleSearch, historyVars
<1>2. \/ UNCHANGED socket
      \/ socket' = [socket EXCEPT ![c] = IF @ = "none" THEN @ ELSE "destroyed"]
      \/ \E msg : socket' = [socket EXCEPT ![c] = IF msg.op = "unbind" /\ @ = "open" THEN "ended" ELSE @]
  BY DEF LoopTurn, handleMessage, handleBind, handleSearch
<1>3. /\ socket' \in [Conns -> {"none", "open", "ended", "destroyed"}]
      /\ \A d \in Conns : socket[d] = "none" => socket'[d] = "none"
  BY <1>2 DEF SocketTypes
<1>4. \A d \in Conns : Len(buffer'[d]) <= MAX_BUFFER
  <2>1. CASE UNCHANGED buffer
    BY <2>1 DEF SocketTypes
  <2>2. CASE frameReady(c) /\ buffer' = [buffer EXCEPT ![c] = Tail(@)]
    <3>1. buffer[c] \in Seq(Frame) /\ buffer[c] # <<>> /\ Len(buffer[c]) <= MAX_BUFFER
      BY <2>2 DEF frameReady, IInv, Types, SocketTypes
    <3>2. Len(Tail(buffer[c])) <= MAX_BUFFER
      BY <3>1, ServerAssumption
    <3>3. QED BY <2>2, <3>2 DEF IInv, Types, SocketTypes
  <2>3. QED BY <2>1, <2>2 DEF LoopTurn
<1>5. QED BY <1>1, <1>3, <1>4, SocketsStay

LEMMA SocketsNext ==
  ASSUME IInv, SocketTypes, [Next]_vars
  PROVE  SocketTypes'
<1>1. CASE UNCHANGED <<socket, buffer, linked, arrived, changes, disclosed>>
  BY <1>1, SocketsUnchanged DEF SocketTypes
<1>2. ASSUME NEW c \in Conns, ConnectionEnds(c)
      PROVE  SocketTypes'
  <2>1. /\ socket' \in [Conns -> {"none", "open", "ended", "destroyed"}]
        /\ \A d \in Conns : socket[d] = "none" => socket'[d] = "none"
        /\ UNCHANGED <<buffer, linked, arrived, changes, disclosed>>
    BY <1>2 DEF ConnectionEnds, SocketTypes, historyVars
  <2>2. QED BY <2>1, SocketsStay DEF SocketTypes
<1>3. ASSUME NEW c \in Conns, NEW i \in Loops, LoopStep(c, i)
      PROVE  SocketTypes'
  <2>1. CASE UserFound(c, i) \/ checkPasswordHash(c, i) \/ verifyLDAPPassword(c, i)
             \/ PoolAnswers(c, i) \/ BindDecided(c, i) \/ UsersRead(c, i)
             \/ DatabaseFails(c, i)
    BY <1>1, <2>1 DEF UserFound, checkPasswordHash, verifyLDAPPassword, PoolAnswers, BindDecided,
                      UsersRead, DatabaseFails, historyVars
  <2>2. CASE EntriesSent(c, i)
    <3>1. disclosed' \subseteq Conns /\ UNCHANGED <<socket, buffer, linked, arrived, changes>>
      BY <2>2 DEF EntriesSent, SocketTypes
    <3>2. QED BY <3>1, SocketsUnchanged DEF SocketTypes
  <2>3. QED BY <1>3, <2>1, <2>2, SocketsLoopTurn DEF LoopStep
<1>4. ASSUME NEW w \in Workers, WorkerFails(w)
      PROVE  SocketTypes'
  BY <1>1, <1>4 DEF WorkerFails, historyVars
<1>5. ASSUME NEW u \in Users, AccountChanges(u)
      PROVE  SocketTypes'
  <2>1. /\ linked' \subseteq RemoteUsers /\ UNCHANGED <<socket, buffer, arrived, disclosed>>
        /\ changes < ChangeBound /\ changes' = changes + 1
    BY <1>5 DEF AccountChanges, SocketTypes, historyVars
  <2>2. changes' \in 0..ChangeBound
    BY <2>1, ServerAssumption DEF SocketTypes
  <2>3. QED BY <2>1, <2>2, SocketsUnchanged DEF SocketTypes
<1>6. CASE TimePasses \/ CleanupRuns
  BY <1>1, <1>6 DEF TimePasses, CleanupRuns, serverVars
<1>7. CASE UNCHANGED vars
  BY <1>1, <1>7 DEF vars, serverVars, historyVars
<1>8. QED
  BY <1>2, <1>3, <1>4, <1>5, <1>6, <1>7, SocketsHandleConnection, SocketsDataArrives DEF Next

LEMMA SocketsInit ==
  Init => SocketTypes
<1> SUFFICES ASSUME Init PROVE SocketTypes
  OBVIOUS
<1>1. activeConnections = {}
  BY DEF Init, activeConnections
<1>2. IsFiniteSet({}) /\ Cardinality({}) = 0
  BY FS_EmptySet
<1>3. Len(<<>>) = 0
  OBVIOUS
<1>4. QED BY <1>1, <1>2, <1>3, ServerAssumption DEF Init, SocketTypes

(* Every variable keeps its type, for any constants: no more connections   *)
(* than MAX_CONNECTIONS, no buffer over MAX_BUFFER_SIZE, no counter past   *)
(* its bound.                                                              *)
THEOREM LdapServerTypeInvariant == Spec => []TypeOK
<1>1. IInv /\ GuessInv /\ SocketTypes => TypeOK
  BY DEF IInv, Types, PoolHolds, GuessInv, GuessTypes, SocketTypes, TypeOK
<1>2. Spec => []GuessInv
  BY GuessInit, GuessNext, PTL DEF Spec
<1>3. Spec => []SocketTypes
  BY LdapServerInvariant, SocketsInit, SocketsNext, PTL DEF Spec
<1>4. QED BY <1>1, <1>2, <1>3, LdapServerInvariant, PTL

-----------------------------------------------------------------------------
(***************************************************************************)
(* No further guess while blocked.  A step either brings no bind of the    *)
(* address under way and counts none, or it ends one that was and counts   *)
(* it.                                                                     *)
(***************************************************************************)
underWay(a) == {l \in Conns \X Loops : bindInFlight(l) /\ ~closed(l[1]) /\ AddressOf[l[1]] = a}

NoneTakenUp(a) == underWay(a)' \subseteq underWay(a) /\ guesses'[a] <= guesses[a]

OneGivenUp(a) ==
  \E l \in underWay(a) : underWay(a)' \subseteq underWay(a) \ {l} /\ guesses'[a] <= guesses[a] + 1

LEMMA SumOfGuesses ==
  ASSUME GuessInv, GuessInv', NEW a \in Addresses, NoneTakenUp(a) \/ OneGivenUp(a)
  PROVE  guesses'[a] + bindsUnderWay(a)' <= guesses[a] + bindsUnderWay(a)
<1>1. /\ \A S \in SUBSET (Conns \X Loops) : IsFiniteSet(S) /\ Cardinality(S) \in Nat
      /\ underWay(a) \in SUBSET (Conns \X Loops)
      /\ underWay(a)' \in SUBSET (Conns \X Loops)
  BY JobsCounted, ServerAssumption DEF underWay
<1>2. bindsUnderWay(a) = Cardinality(underWay(a)) /\ bindsUnderWay(a)' = Cardinality(underWay(a)')
  BY DEF bindsUnderWay, underWay
<1>3. guesses[a] \in Nat /\ guesses'[a] \in Nat
  BY BackoffAssumption DEF GuessInv, GuessTypes
<1>4. CASE NoneTakenUp(a)
  <2>1. Cardinality(underWay(a)') <= Cardinality(underWay(a))
    BY <1>1, <1>4, FS_Subset DEF NoneTakenUp
  <2>2. QED BY <1>1, <1>2, <1>3, <1>4, <2>1 DEF NoneTakenUp
<1>5. CASE OneGivenUp(a)
  <2>1. PICK l \in underWay(a) :
          underWay(a)' \subseteq underWay(a) \ {l} /\ guesses'[a] <= guesses[a] + 1
    BY <1>5 DEF OneGivenUp
  <2>2. Cardinality(underWay(a) \ {l}) = Cardinality(underWay(a)) - 1
    BY <1>1, <2>1, FS_RemoveElement
  <2>3. underWay(a) \ {l} \in SUBSET (Conns \X Loops)
    BY <1>1
  <2>4. Cardinality(underWay(a)') <= Cardinality(underWay(a) \ {l})
    BY <1>1, <2>1, <2>3, FS_Subset
  <2>5. QED BY <1>1, <1>2, <1>3, <2>1, <2>2, <2>4
<1>6. QED BY <1>4, <1>5

(* What is not under way afterwards need not have been before.             *)
LEMMA NoneTakenUpIf ==
  ASSUME GuessInv, NEW a \in Addresses, guesses'[a] = guesses[a] \/ guesses'[a] = 0,
         \A l \in Conns \X Loops :
           bindInFlight(l)' /\ ~closed(l[1])' /\ AddressOf[l[1]] = a
             => bindInFlight(l) /\ ~closed(l[1])
  PROVE  NoneTakenUp(a)
<1>1. guesses[a] \in Nat
  BY BackoffAssumption DEF GuessInv, GuessTypes
<1>2. QED BY <1>1 DEF NoneTakenUp, underWay

(* The end of a bind: the loop that has it takes its next turn.            *)
LEMMA LoopTakesTurn ==
  ASSUME IInv, NEW c \in Conns, NEW i \in Loops, loop' = [loop EXCEPT ![<<c, i>>] = turn]
  PROVE  \A l \in Conns \X Loops : bindInFlight(l)' <=> bindInFlight(l) /\ l # <<c, i>>
<1>1. loop'[<<c, i>>].at = "turn" /\ \A l \in (Conns \X Loops) \ {<<c, i>>} : loop'[l] = loop[l]
  BY TurnHolds DEF IInv, Types
<1>2. QED BY <1>1 DEF bindInFlight

LEMMA OpenStays ==
  ASSUME UNCHANGED socket
  PROVE  \A d : closed(d)' <=> closed(d)
BY DEF closed

(* A bind that has been under way, or has not, is decided.                 *)
LEMMA DecidedWhileBlocked ==
  ASSUME IInv, GuessInv, NEW c \in Conns, NEW i \in Loops, UNCHANGED socket,
         NEW a \in Addresses \ loose', blockedFor'[a] > 0,
         \/ bindFails(c, i) /\ (~closed(c) /\ a = AddressOf[c] => bindInFlight(<<c, i>>))
         \/ \E id, justified : bindSucceeds(c, i, id, justified)
  PROVE  NoneTakenUp(a) \/ OneGivenUp(a)
<1>1. guesses[a] \in 0..(FailureBound + 1) /\ guesses \in [Addresses -> 0..(FailureBound + 1)]
  BY DEF GuessInv, GuessTypes
<1>2. loop' = [loop EXCEPT ![<<c, i>>] = turn]
  BY DEF bindFails, bindSucceeds
<1>3. \A l \in Conns \X Loops : bindInFlight(l)' <=> bindInFlight(l) /\ l # <<c, i>>
  BY <1>2, LoopTakesTurn
<1>4. CASE bindFails(c, i) /\ ~closed(c) /\ a = AddressOf[c] /\ bindInFlight(<<c, i>>)
  <2>1. guesses'[a] <= guesses[a] + 1
    BY <1>1, <1>4, BackoffAssumption DEF bindFails, counted
  <2>2. <<c, i>> \in underWay(a) /\ underWay(a)' \subseteq underWay(a) \ {<<c, i>>}
    BY <1>3, <1>4, OpenStays DEF underWay
  <2>3. QED BY <2>1, <2>2 DEF OneGivenUp
<1>5. CASE guesses'[a] = guesses[a]
  BY <1>3, <1>5, OpenStays, NoneTakenUpIf
<1>6. CASE bindFails(c, i) /\ a # AddressOf[c]
  BY <1>1, <1>5, <1>6 DEF bindFails
<1>7. CASE bindFails(c, i) /\ closed(c)
  BY <1>6, <1>7 DEF bindFails
<1>8. ASSUME NEW id, NEW justified, bindSucceeds(c, i, id, justified)
      PROVE  guesses'[a] = guesses[a]
  <2>1. a # clientAddress(c)
    BY <1>8 DEF bindSucceeds, recordBindSuccess, GuessInv, GuessTypes, BackoffTypeOK
  <2>2. QED BY <1>1, <1>8, <2>1 DEF bindSucceeds
<1>9. QED BY <1>4, <1>5, <1>6, <1>7, <1>8

LEMMA TurnWhileBlocked ==
  ASSUME IInv, GuessInv, SocketTypes, NEW c \in Conns, NEW i \in Loops, LoopTurn(c, i),
         NEW a \in Addresses \ loose', blockedFor[a] > 0, blockedFor'[a] > 0
  PROVE  NoneTakenUp(a) \/ OneGivenUp(a)
<1>1. ~bindInFlight(<<c, i>>)
  BY DEF LoopTurn, bindInFlight
<1>2. ~closed(c) /\ a = AddressOf[c] => isBindBlocked(clientAddress(c))
  BY ClientAddress DEF isBindBlocked
<1>3. CASE UNCHANGED guessVars /\ loop' \in {[loop EXCEPT ![<<c, i>>] = p] : p \in {q \in Loop : q.at \notin BindPhases}}
  <2>1. PICK p \in Loop : p.at \notin BindPhases /\ loop' = [loop EXCEPT ![<<c, i>>] = p]
    BY <1>3
  <2>2. /\ loop'[<<c, i>>].at \notin BindPhases
        /\ \A l \in (Conns \X Loops) \ {<<c, i>>} : loop'[l] = loop[l]
    BY <2>1 DEF IInv, Types
  <2>3. \A l \in Conns \X Loops : bindInFlight(l)' => bindInFlight(l)
    BY <2>2 DEF bindInFlight, BindPhases
  <2>4. \A d \in Conns : ~closed(d)' => ~closed(d)
    BY DEF LoopTurn, handleMessage, handleBind, handleSearch, closed, SocketTypes
  <2>5. QED BY <1>3, <2>3, <2>4, NoneTakenUpIf DEF guessVars
<1>4. ASSUME NEW msg, handleBind(c, i, msg)
      PROVE  NoneTakenUp(a) \/ OneGivenUp(a)
  <2>1. UNCHANGED socket
    BY <1>4 DEF handleBind
  <2>2. CASE loop' = [loop EXCEPT ![<<c, i>>] = turn] /\ UNCHANGED guessVars
    BY <1>3, <2>2, TurnHolds DEF BindPhases
  <2>3. CASE ~isBindBlocked(clientAddress(c)) /\ bindFails(c, i)
    BY <1>2, <2>1, <2>3, DecidedWhileBlocked
  <2>4. CASE bindSucceeds(c, i, Service, TRUE)
    BY <2>1, <2>4, DecidedWhileBlocked
  <2>5. CASE /\ ~isBindBlocked(clientAddress(c)) /\ UNCHANGED guessVars
             /\ \E p : loop' = [loop EXCEPT ![<<c, i>>] = p]
    <3>1. \A l \in (Conns \X Loops) \ {<<c, i>>} : loop'[l] = loop[l]
      BY <2>5 DEF IInv, Types
    <3>2. \A l \in Conns \X Loops :
            bindInFlight(l)' /\ ~closed(l[1])' /\ AddressOf[l[1]] = a
              => bindInFlight(l) /\ ~closed(l[1])
      <4> SUFFICES ASSUME NEW d \in Conns, NEW k \in Loops,
                          bindInFlight(<<d, k>>)', ~closed(d)', AddressOf[d] = a
                   PROVE  bindInFlight(<<d, k>>) /\ ~closed(d)
        OBVIOUS
      <4>1. ~closed(d) /\ d # c
        BY <1>2, <2>1, <2>5, OpenStays
      <4>2. QED BY <3>1, <4>1 DEF bindInFlight
    <3>3. QED BY <2>5, <3>2, NoneTakenUpIf DEF guessVars
  <2>6. QED BY <1>4, <2>2, <2>3, <2>4, <2>5 DEF handleBind, bindAnswered
<1>5. CASE handleSearch(c, i, Head(buffer[c]))
  <2> DEFINE msg == Head(buffer[c])
             p == IF canSearch(c) \/ aboutRoot(msg) THEN [turn EXCEPT !.at = "entries", !.msg = msg]
                                                    ELSE turn
  <2>1. CASE frameReady(c)
    <3>1. msg \in Frame
      BY <2>1 DEF frameReady, IInv, Types
    <3>2. p \in Loop /\ p.at \notin BindPhases
      BY <3>1, TurnHolds DEF BindPhases, turn, idle, Loop
    <3>3. loop' = [loop EXCEPT ![<<c, i>>] = p] /\ UNCHANGED guessVars
      BY <1>5 DEF handleSearch, historyVars
    <3> HIDE DEF p
    <3>4. QED BY <1>3, <3>2, <3>3
  <2>2. CASE ~frameReady(c)
    BY <1>3, <2>2, TurnHolds DEF LoopTurn, BindPhases, historyVars
  <2>3. QED BY <2>1, <2>2
<1>6. CASE /\ loop' = [loop EXCEPT ![<<c, i>>] = turn] \/ loop' = [loop EXCEPT ![<<c, i>>] = idle]
           /\ UNCHANGED historyVars
  BY <1>3, <1>6, TurnHolds DEF BindPhases, historyVars
<1>7. QED
  BY <1>4, <1>5, <1>6 DEF LoopTurn, handleMessage

LEMMA StepWhileBlocked ==
  ASSUME IInv, GuessInv, SocketTypes, NEW c \in Conns, NEW i \in Loops, LoopStep(c, i),
         NEW a \in Addresses \ loose', blockedFor[a] > 0, blockedFor'[a] > 0
  PROVE  NoneTakenUp(a) \/ OneGivenUp(a)
<1>1. CASE UNCHANGED <<socket, guesses>>
           /\ \A l \in Conns \X Loops : bindInFlight(l)' => bindInFlight(l)
  BY <1>1, OpenStays, NoneTakenUpIf
<1>2. CASE UserFound(c, i)
  <2>1. bindInFlight(<<c, i>>) /\ UNCHANGED socket
    BY <1>2 DEF UserFound, bindInFlight
  <2>2. CASE bindFails(c, i)
    BY <2>1, <2>2, DecidedWhileBlocked
  <2>3. CASE UNCHANGED guessVars /\ \A l \in (Conns \X Loops) \ {<<c, i>>} : loop'[l] = loop[l]
    BY <1>1, <2>1, <2>3 DEF bindInFlight, guessVars
  <2>4. QED BY <1>2, <2>2, <2>3 DEF UserFound, IInv, Types
<1>3. CASE BindDecided(c, i)
  <2>1. bindInFlight(<<c, i>>) /\ UNCHANGED socket
    BY <1>3 DEF BindDecided, bindInFlight
  <2>2. bindFails(c, i) \/ \E id, justified : bindSucceeds(c, i, id, justified)
    BY <1>3 DEF BindDecided
  <2>3. QED BY <2>1, <2>2, DecidedWhileBlocked
<1>4. CASE checkPasswordHash(c, i) \/ verifyLDAPPassword(c, i) \/ PoolAnswers(c, i)
  <2>1. bindInFlight(<<c, i>>)
    BY <1>4 DEF checkPasswordHash, verifyLDAPPassword, PoolAnswers, bindInFlight
  <2>2. UNCHANGED <<socket, guesses>>
    BY <1>4 DEF checkPasswordHash, verifyLDAPPassword, PoolAnswers, historyVars, guessVars
  <2>3. \A l \in (Conns \X Loops) \ {<<c, i>>} : loop'[l] = loop[l]
    BY <1>4 DEF checkPasswordHash, verifyLDAPPassword, PoolAnswers, verify, IInv, Types
  <2>4. QED BY <1>1, <2>1, <2>2, <2>3 DEF bindInFlight
<1>5. CASE EntriesSent(c, i) \/ DatabaseFails(c, i)
  <2>1. loop' = [loop EXCEPT ![<<c, i>>] = turn] /\ UNCHANGED <<socket, guesses>>
    BY <1>5 DEF EntriesSent, DatabaseFails, historyVars, guessVars
  <2>2. QED BY <1>1, <2>1, LoopTakesTurn
<1>6. CASE UsersRead(c, i)
  <2>1. loop' = [loop EXCEPT ![<<c, i>>].at = "members"] /\ UNCHANGED <<socket, guesses>>
    BY <1>6 DEF UsersRead, historyVars, guessVars
  <2>2. /\ loop'[<<c, i>>].at = "members"
        /\ \A l \in (Conns \X Loops) \ {<<c, i>>} : loop'[l] = loop[l]
    BY <2>1, LoopType DEF IInv, Types, Loop
  <2>3. QED BY <1>1, <2>1, <2>2 DEF bindInFlight
<1>7. QED BY <1>2, <1>3, <1>4, <1>5, <1>6, TurnWhileBlocked DEF LoopStep

LEMMA NextWhileBlocked ==
  ASSUME IInv, GuessInv, SocketTypes, [Next]_vars,
         NEW a \in Addresses \ loose', blockedFor[a] > 0, blockedFor'[a] > 0
  PROVE  NoneTakenUp(a) \/ OneGivenUp(a)
<1>1. CASE /\ UNCHANGED <<socket, loop>> /\ guesses'[a] \in {guesses[a], 0}
  BY <1>1, OpenStays, NoneTakenUpIf DEF bindInFlight
<1>2. ASSUME NEW c \in Conns, handleConnection(c)
      PROVE  NoneTakenUp(a)
  <2>1. /\ \A i \in Loops : loop[<<c, i>>] = idle
        /\ \A d \in Conns \ {c} : socket'[d] = socket[d]
        /\ UNCHANGED <<loop, guesses>>
    BY <1>2 DEF handleConnection, guessVars
  <2>2. \A l \in Conns \X Loops : bindInFlight(l) => l[1] # c
    BY <2>1, TurnHolds DEF bindInFlight
  <2>3. QED BY <2>1, <2>2, NoneTakenUpIf DEF bindInFlight, closed
<1>3. ASSUME NEW c \in Conns, ConnectionEnds(c)
      PROVE  NoneTakenUp(a)
  <2>1. UNCHANGED <<loop, guesses>> /\ \A d \in Conns : ~closed(d)' => ~closed(d)
    BY <1>3 DEF ConnectionEnds, historyVars, guessVars, closed, SocketTypes
  <2>2. QED BY <2>1, NoneTakenUpIf DEF bindInFlight
<1>4. ASSUME NEW c \in Conns, NEW i \in Loops, NEW chunk \in Chunks, DataArrives(c, i, chunk)
      PROVE  NoneTakenUp(a)
  <2>1. UNCHANGED guesses /\ \A d \in Conns : ~closed(d)' => ~closed(d)
    BY <1>4 DEF DataArrives, historyVars, guessVars, closed, SocketTypes
  <2>2. \A l \in Conns \X Loops : bindInFlight(l)' => bindInFlight(l)
    <3>1. CASE UNCHANGED loop
      BY <3>1 DEF bindInFlight
    <3>2. CASE loop' = [loop EXCEPT ![<<c, i>>] = turn]
      BY <3>2, LoopTakesTurn
    <3>3. QED BY <1>4, <3>1, <3>2 DEF DataArrives
  <2>3. QED BY <2>1, <2>2, NoneTakenUpIf
<1>5. ASSUME NEW w \in Workers, WorkerFails(w)
      PROVE  NoneTakenUp(a)
  <2>1. ASSUME NEW c \in Conns, NEW i \in Loops, bindInFlight(<<c, i>>)'
        PROVE  bindInFlight(<<c, i>>)
    <3>1. CASE pendingJobs[<<c, i>>] # NoWorker
      BY <3>1 DEF IInv, JobsOfLoops, bindInFlight
    <3>2. CASE pendingJobs[<<c, i>>] = NoWorker
      BY <1>5, <2>1, <3>2 DEF WorkerFails, bindInFlight
    <3>3. QED BY <3>1, <3>2
  <2>2. UNCHANGED <<socket, guesses>>
    BY <1>5 DEF WorkerFails, historyVars, guessVars
  <2>3. QED BY <2>1, <2>2, OpenStays, NoneTakenUpIf
<1>6. ASSUME NEW u \in Users, AccountChanges(u)
      PROVE  NoneTakenUp(a)
  <2>1. ASSUME NEW c \in Conns, NEW i \in Loops, bindInFlight(<<c, i>>)'
        PROVE  bindInFlight(<<c, i>>)
    <3>1. CASE ~bindInFlight(<<c, i>>)
      BY <1>6, <2>1, <3>1 DEF AccountChanges, bindInFlight
    <3>2. QED BY <3>1
  <2>2. UNCHANGED <<socket, guesses>>
    BY <1>6 DEF AccountChanges, historyVars, guessVars
  <2>3. QED BY <2>1, <2>2, OpenStays, NoneTakenUpIf
<1>7. CASE TimePasses
  <2>1. blockedFor[a] # 1
    BY <1>7 DEF TimePasses, BackoffPasses
  <2>2. QED BY <1>1, <1>7, <2>1 DEF TimePasses, afterBackoff, serverVars
<1>8. CASE CleanupRuns
  BY <1>1, <1>8 DEF CleanupRuns, serverVars
<1>9. CASE UNCHANGED vars
  BY <1>1, <1>9 DEF vars, serverVars, historyVars, guessVars
<1>10. QED
  BY <1>2, <1>3, <1>4, <1>5, <1>6, <1>7, <1>8, <1>9, StepWhileBlocked DEF Next

(* While an address is blocked its guesses and its binds under way are     *)
(* never more than they were, for any number of connections and of binds   *)
(* side by side: what the server still has to answer are binds it took up  *)
(* before the block.                                                       *)
THEOREM NoGuessWhileBlockedHolds == Spec => NoGuessWhileBlocked
<1> DEFINE kept ==
             \A a \in Addresses \ loose' :
               blockedFor[a] > 0 /\ blockedFor'[a] > 0
                 => guesses'[a] + bindsUnderWay(a)' <= guesses[a] + bindsUnderWay(a)
<1>1. ASSUME IInv, GuessInv, SocketTypes, [Next]_vars
      PROVE  [kept]_vars
  <2>1. GuessInv'
    BY <1>1, GuessNext
  <2>2. QED BY <1>1, <2>1, NextWhileBlocked, SumOfGuesses
<1>2. Spec => []GuessInv
  BY GuessInit, GuessNext, PTL DEF Spec
<1>3. Spec => []SocketTypes
  BY LdapServerInvariant, SocketsInit, SocketsNext, PTL DEF Spec
<1>4. QED BY <1>1, <1>2, <1>3, LdapServerInvariant, PTL DEF Spec, NoGuessWhileBlocked
=============================================================================
