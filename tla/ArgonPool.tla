----------------------------- MODULE ArgonPool -----------------------------
(***************************************************************************)
(* The worker threads that verify password hashes (util/argon2id.ts).  A   *)
(* job is posted to a worker and stays in pendingJobs until the worker     *)
(* answers it or fails.  Job ids are the callers here: a caller waits for  *)
(* its job before it posts another.                                        *)
(***************************************************************************)
EXTENDS Naturals, FiniteSets

CONSTANTS
  Jobs,
  Workers,            \* names for worker threads, reused once they are gone
  NoWorker,
  WORKER_COUNT,
  MAX_PENDING_JOBS

ASSUME PoolAssumption ==
  /\ NoWorker \notin Workers /\ Workers # {}
  /\ WORKER_COUNT \in Nat \ {0} /\ MAX_PENDING_JOBS \in Nat \ {0}
  /\ IsFiniteSet(Jobs)

VARIABLES
  pool,               \* the workers in use
  inflight,           \* the jobs each believes to be working on
  pendingJobs         \* [Jobs -> the worker that has the job, or NoWorker]

poolVars == <<pool, inflight, pendingJobs>>

PoolInit ==
  /\ pool = {}
  /\ inflight = [w \in Workers |-> 0]
  /\ pendingJobs = [j \in Jobs |-> NoWorker]

jobsOf(w) == {j \in Jobs : pendingJobs[j] = w}
pendingSize == Cardinality({j \in Jobs : pendingJobs[j] # NoWorker})

leastLoaded(S) == {w \in S : \A v \in S : inflight[w] <= inflight[v]}

(* The workers the next job may go to.  One outside the pool is created:   *)
(* any will do, they do not differ.                                        *)
poolWorker ==
  LET free == {w \in pool : inflight[w] < MAX_PENDING_JOBS}
  IN IF free # {} THEN leastLoaded(free)
     ELSE IF Cardinality(pool) < WORKER_COUNT THEN {CHOOSE w \in Workers : w \notin pool}
     ELSE leastLoaded(pool)

(* Jobs beyond MAX_PENDING_JOBS are refused, however many workers there    *)
(* could be.                                                               *)
queueIsFull == pendingSize >= MAX_PENDING_JOBS \/ poolWorker = {}

runInPool(j) ==
  /\ ~queueIsFull
  /\ \E w \in poolWorker :
       /\ pool' = pool \cup {w}
       /\ inflight' = [inflight EXCEPT ![w] = @ + 1]
       /\ pendingJobs' = [pendingJobs EXCEPT ![j] = w]

(* Mistaken: an answered job still counts as in flight.                    *)
workerMessageUncounted(j) ==
  /\ pendingJobs[j] \in pool
  /\ pendingJobs' = [pendingJobs EXCEPT ![j] = NoWorker]
  /\ UNCHANGED <<pool, inflight>>

(* A worker answers job j, with a value or with an error.                  *)
workerMessage(j) ==
  /\ pendingJobs[j] \in pool
  /\ pendingJobs' = [pendingJobs EXCEPT ![j] = NoWorker]
  /\ inflight' = [inflight EXCEPT ![pendingJobs[j]] = @ - 1]
  /\ UNCHANGED pool

(* Mistaken: nobody tells those who wait.                                  *)
failPoolWorkerSilently(w) ==
  /\ w \in pool
  /\ pool' = pool \ {w}
  /\ inflight' = [inflight EXCEPT ![w] = 0]
  /\ UNCHANGED pendingJobs

(* A worker reports an error or exits: its jobs are rejected.              *)
failPoolWorker(w) ==
  /\ w \in pool
  /\ pendingJobs' = [j \in Jobs |-> IF j \in jobsOf(w) THEN NoWorker ELSE pendingJobs[j]]
  /\ pool' = pool \ {w}
  /\ inflight' = [inflight EXCEPT ![w] = 0]

-----------------------------------------------------------------------------
PoolTypeOK ==
  /\ pool \subseteq Workers
  /\ inflight \in [Workers -> Nat]
  /\ pendingJobs \in [Jobs -> Workers \cup {NoWorker}]

(***************************************************************************)
(* Every pending job is with a worker that is there to answer it, and a    *)
(* worker's counter is the number of its jobs: a counter left too high by  *)
(* an error would in time close the worker to all password checks, and a   *)
(* job left with a dead worker would never be answered (argon2id.ts:106,   *)
(* :131).  And there is never more than one worker, whatever WORKER_COUNT: *)
(* a second is created only for a first with MAX_PENDING_JOBS jobs, and    *)
(* then no job is taken any more (argon2id.ts:152, :156).                  *)
(***************************************************************************)
PoolAccounts ==
  /\ \A j \in Jobs : pendingJobs[j] \in pool \cup {NoWorker}
  /\ \A w \in pool : inflight[w] = Cardinality(jobsOf(w))
  /\ \A v, w \in pool : v = w
=============================================================================
