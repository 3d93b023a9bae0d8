----------------------------- MODULE ThreadPool -----------------------------
(***************************************************************************)
(* The thread pool of threadpool.c, composed of the queue of Queue.tla and *)
(* the threads of Thread.tla.  Workers are threads started by the pool;    *)
(* jobs are threads that are put in its queue and run by a worker.  The    *)
(* pool's owner constructs it, submits jobs, and drops the last reference, *)
(* which runs deinit_ThreadPool.                                           *)
(*                                                                         *)
(* A running job may submit other jobs, and may call yield_ThreadPool,     *)
(* which runs another queued job inside it (threadpool.h recommends it in  *)
(* place of sleeping); stack[w] holds the jobs worker w is inside of.      *)
(***************************************************************************)
EXTENDS Naturals, Sequences, FiniteSets, FiniteSetTheorems, SequenceTheorems, TLAPS

CONSTANTS Workers,       \* the threads startThreads_ThreadPool_ creates
          Jobs,          \* the threads given to run_ThreadPool
          YieldingJobs,  \* the jobs that call yield_ThreadPool with a timeout
          SpawnedJobs,   \* the jobs submitted by a running job, not by the owner
          Pool           \* the pool object itself, which stopThreads_ puts in the queue

ASSUME ThreadPoolAssumption ==
  /\ IsFiniteSet(Workers) /\ Workers # {}
  /\ Workers \cap Jobs = {}
  /\ Pool \notin Jobs
  /\ YieldingJobs \subseteq Jobs
  /\ SpawnedJobs \subseteq Jobs

VARIABLES items, waiting, op,                                   \* Queue
          state, exec, pooled, starting, registered, refs, owner, join,  \* Thread
          stack,      \* stack[w]: the jobs worker w is running, innermost last
          retired,    \* the workers whose loop has ended
          phase,      \* of the pool's owner
          sentinels,  \* how many sentinels stopThreads_ has still to put
          swallowed,  \* sentinels that a job's yield_ThreadPool took
          late        \* the jobs submitted after the shutdown began

Q == INSTANCE Queue WITH Threads <- Workers, Items <- Jobs \cup {Pool}, MaxItems <- 0
T == INSTANCE Thread WITH Threads <- Workers \cup Jobs

queueVars == <<items, waiting, op>>
threadVars == <<state, exec, pooled, starting, registered, refs, owner, join>>
ownVars == <<stack, retired, phase, sentinels, swallowed, late>>
poolVars == <<queueVars, threadVars, ownVars>>

Init == /\ Q!Init
        /\ T!Init
        /\ stack = [w \in Workers |-> <<>>]
        /\ retired = {}
        /\ phase = "starting"
        /\ sentinels = 0
        /\ swallowed = 0
        /\ late = {}

Top(w) == stack[w][Len(stack[w])]
Push(w, j) == stack' = [stack EXCEPT ![w] = Append(@, j)]
Pop(w) == stack' = [stack EXCEPT ![w] = SubSeq(@, 1, Len(@) - 1)]

-----------------------------------------------------------------------------
(* startThreads_ThreadPool_: create, start and register one after another. *)

StartWorker(w) == /\ phase = "starting" /\ starting = {}
                  /\ T!StartThread(w)
                  /\ UNCHANGED <<queueVars, ownVars>>

RegisterWorker(w) ==
  /\ T!Register(w)
  /\ phase' = IF \E v \in Workers : exec[v] = "none" THEN phase ELSE "open"
  /\ UNCHANGED <<queueVars, stack, retired, sentinels, swallowed, late>>

-----------------------------------------------------------------------------
(* run_ThreadPool, by the owner or by a job that is running.               *)

Submit(j) == /\ \/ phase = "open" /\ j \notin SpawnedJobs
                \/ /\ j \in SpawnedJobs
                   /\ \E w \in Workers : /\ stack[w] # <<>> /\ op[w] = "idle"
                                         /\ exec[Top(w)] = "running"
             /\ T!run_ThreadPool(j)
             /\ Q!put_Queue(j)
             /\ late' = IF phase = "open" THEN late ELSE late \cup {j}
             /\ UNCHANGED <<stack, retired, phase, sentinels, swallowed>>

-----------------------------------------------------------------------------
(* A worker: run_PooledThread_ calls yield_ThreadPool without a timeout    *)
(* until it returns iFalse.                                                *)

EnterWorker(w) == T!Enter(w) /\ UNCHANGED <<queueVars, ownVars>>

Loop(w) == /\ exec[w] = "running" /\ w \notin retired
           /\ stack[w] = <<>>
           /\ Q!Call(w, "take")
           /\ UNCHANGED <<threadVars, ownVars>>

\* The job on top calls yield_ThreadPool.
Yield(w) == /\ stack[w] # <<>> /\ Top(w) \in YieldingJobs
            /\ exec[Top(w)] = "running"
            /\ Q!Call(w, "takeTimeout")
            /\ UNCHANGED <<threadVars, ownVars>>

(* yield_ThreadPool gets a job: it is marked running and run, here.        *)
TakeJob(w) == /\ Q!TakeFront(w)
              /\ Head(items) \in Jobs
              /\ T!RunJob(Head(items))
              /\ Push(w, Head(items))
              /\ UNCHANGED <<retired, phase, sentinels, swallowed, late>>

\* Mutant: the loop does not look at what yield_ThreadPool returned.
IgnoresSentinel(w) == /\ Q!TakeFront(w)
                      /\ Head(items) = Pool
                      /\ UNCHANGED <<threadVars, ownVars>>

(* yield_ThreadPool gets the pool itself and returns iFalse.  The worker's *)
(* loop ends; but a job that yielded just goes on, and the sentinel is     *)
(* used up.                                                                *)
TakeSentinel(w) == /\ Q!TakeFront(w)
                   /\ Head(items) = Pool
                   /\ IF stack[w] = <<>>
                        THEN retired' = retired \cup {w} /\ UNCHANGED swallowed
                        ELSE swallowed' = swallowed + 1 /\ UNCHANGED retired
                   /\ UNCHANGED <<threadVars, stack, phase, sentinels, late>>

Block(w) == Q!wait_Condition(w) /\ UNCHANGED <<threadVars, ownVars>>

YieldTimesOut(w) == Q!TimeOut(w) /\ UNCHANGED <<threadVars, ownVars>>

(* The job on top returns; finish_Thread_ marks it finished.               *)
JobReturns(w) == /\ stack[w] # <<>> /\ op[w] = "idle"
                 /\ T!Finish(Top(w))
                 /\ UNCHANGED <<queueVars, ownVars>>

(* Its audience has been notified, and the worker releases it.             *)
JobReleased(w) == /\ stack[w] # <<>>
                  /\ T!Leave(Top(w))
                  /\ Pop(w)
                  /\ UNCHANGED <<queueVars, retired, phase, sentinels, swallowed, late>>

WorkerExits(w) == /\ w \in retired
                  /\ T!Deregister(w) \/ T!Finish(w) \/ T!Leave(w) \/ T!Exit(w)
                  /\ UNCHANGED <<queueVars, ownVars>>

-----------------------------------------------------------------------------
(* deinit_ThreadPool: a sentinel per worker, then join each.               *)

BeginStop == /\ phase = "open"
             /\ phase' = "stopping"
             /\ sentinels' = Cardinality(Workers)
             /\ UNCHANGED <<queueVars, threadVars, stack, retired, swallowed, late>>

\* Mutant: the loop ends one sentinel short.
PutSentinelShort == /\ phase = "stopping" /\ sentinels > 0
                    /\ Q!put_Queue(Pool)
                    /\ sentinels' = sentinels - 1
                    /\ phase' = IF sentinels <= 2 THEN "joining" ELSE phase
                    /\ UNCHANGED <<threadVars, stack, retired, swallowed, late>>

\* Mutant: the sentinels jump the queue.
PutSentinelFirst == /\ phase = "stopping" /\ sentinels > 0
                    /\ items' = <<Pool>> \o items
                    /\ Q!signal_Condition
                    /\ sentinels' = sentinels - 1
                    /\ phase' = IF sentinels = 1 THEN "joining" ELSE phase
                    /\ UNCHANGED <<threadVars, stack, retired, swallowed, late>>

PutSentinel == /\ phase = "stopping" /\ sentinels > 0
               /\ Q!put_Queue(Pool)
               /\ sentinels' = sentinels - 1
               /\ phase' = IF sentinels = 1 THEN "joining" ELSE phase
               /\ UNCHANGED <<threadVars, stack, retired, swallowed, late>>

JoinWorker(w) == /\ phase = "joining"
                 /\ \A v \in Workers : join[v] \in {"none", "joined"}
                 /\ join[w] = "none"
                 /\ T!join_Thread(w)
                 /\ UNCHANGED <<queueVars, ownVars>>

WorkerJoined(w) == T!OsJoin(w) /\ UNCHANGED <<queueVars, ownVars>>

\* Mutant: the pool is freed without joining its threads.
DestroyUnjoined == /\ phase = "joining"
                   /\ phase' = "gone"
                   /\ UNCHANGED <<queueVars, threadVars, stack, retired,
                                  sentinels, swallowed, late>>

(* All joined: the thread list and the queue are destroyed.                *)
Destroy == /\ phase = "joining"
           /\ \A w \in Workers : join[w] = "joined"
           /\ phase' = "gone"
           /\ UNCHANGED <<queueVars, threadVars, stack, retired,
                          sentinels, swallowed, late>>

Spurious(w) == \/ Q!SpuriousWakeup(w) /\ UNCHANGED <<threadVars, ownVars>>
               \/ T!SpuriousWakeup(w) /\ UNCHANGED <<queueVars, ownVars>>

-----------------------------------------------------------------------------

\* The steps a worker's processor takes by itself.
WorkerStep(w) == \/ EnterWorker(w) \/ Loop(w) \/ TakeJob(w) \/ TakeSentinel(w)
                 \/ Block(w) \/ YieldTimesOut(w) \/ JobReleased(w) \/ WorkerExits(w)

OwnerStep == \/ \E w \in Workers : \/ StartWorker(w) \/ RegisterWorker(w)
                                   \/ JoinWorker(w) \/ WorkerJoined(w)
             \/ PutSentinel
             \/ Destroy

Next == \/ OwnerStep
        \/ BeginStop
        \/ \E j \in Jobs : Submit(j)
        \/ \E w \in Workers : \/ WorkerStep(w)
                              \/ Yield(w)
                              \/ JobReturns(w)
                              \/ Spurious(w)

(* Threads that can run do.  A job's run function returns in the end,      *)
(* though it may yield any number of times before; and a yield times out   *)
(* in the end however often its thread is woken, for takeTimeout_Queue     *)
(* computes its deadline once.                                             *)
Spec == /\ Init
        /\ [][Next]_poolVars
        /\ WF_poolVars(OwnerStep)
        /\ \A w \in Workers : /\ WF_poolVars(WorkerStep(w))
                              /\ SF_poolVars(YieldTimesOut(w))
                              /\ SF_poolVars(JobReturns(w))

-----------------------------------------------------------------------------

Elems(s) == {s[i] : i \in 1..Len(s)}
Queued(x) == Cardinality(Q!Positions(items, x))
RunBy(j) == {w \in Workers : j \in Elems(stack[w])}

(* The values the state takes; the jobs in the queue have not been run (the*)
(* assertion of yield_ThreadPool), and each is in one place: once in the   *)
(* queue, or on one worker's stack, or neither.                            *)
TypeOK ==
  /\ Q!TypeOK
  /\ T!TypeOK
  /\ stack \in [Workers -> Seq(Jobs)]
  /\ retired \subseteq Workers
  /\ phase \in {"starting", "open", "stopping", "joining", "gone"}
  /\ sentinels \in 0..Cardinality(Workers)
  /\ \A j \in Jobs :
       /\ Queued(j) = IF exec[j] = "queued" THEN 1 ELSE 0
       /\ Cardinality(RunBy(j)) = IF exec[j] \in {"running", "notifying"} THEN 1 ELSE 0

(* When deinit_ThreadPool destroys the queue and its mutex, no thread is   *)
(* inside them or will be: all workers have exited.                        *)
GoneIsQuiet == phase = "gone" =>
  /\ waiting = {}
  /\ \A w \in Workers : exec[w] = "exited" /\ op[w] = "idle" /\ stack[w] = <<>>

(* Each sentinel put ends one worker, unless a job's yield took it.        *)
SentinelBalance == TypeOK /\ (phase \notin {"starting", "open"} =>
  sentinels + Queued(Pool) + Cardinality(retired) + swallowed = Cardinality(Workers))

(* The destructor returns, provided no sentinel was taken by a job.        *)
DeinitCompletesUnlessSwallowed == phase = "stopping" ~> phase = "gone" \/ swallowed > 0

(* The destructor returns.  yield_ThreadPool is there for jobs to use in   *)
(* place of sleeping (threadpool.h), so a job that uses it must not keep   *)
(* the pool from being destroyed.                                          *)
DeinitCompletes == phase = "stopping" ~> phase = "gone"

Progress(j) == CASE exec[j] = "none" -> "new"
                 [] exec[j] = "queued" -> IF j \in late THEN "late" ELSE "accepted"
                 [] exec[j] \in {"running", "notifying"} -> "running"
                 [] OTHER -> "done"

Openness == CASE phase \in {"starting", "open"} -> "open"
              [] phase = "gone" -> "gone"
              [] OTHER -> "closing"

Promise == INSTANCE JobPool WITH job <- [j \in Jobs |-> Progress(j)], pool <- Openness

(* The pool keeps its promise to every job.                                *)
ImplementsJobPool == Promise!Spec

-----------------------------------------------------------------------------
(* GoneIsQuiet holds for any sets of workers and jobs.  A joined worker has *)
(* exited; one that has left its loop is in no function of the queue and    *)
(* runs no job; and no other than a worker in its loop ever is.             *)

Fields == /\ exec \in [Workers \cup Jobs -> T!Execs]
          /\ pooled \in [Workers \cup Jobs -> BOOLEAN]
          /\ join \in [Workers \cup Jobs -> T!Joins]
          /\ op \in [Workers -> {"idle", "take", "takeTimeout"}]
          /\ stack \in [Workers -> Seq(Jobs)]

Quiet(w) == w \notin waiting /\ op[w] = "idle" /\ stack[w] = <<>>

InLoop(w) == exec[w] = "running" /\ w \notin retired

Lives(w) == /\ ~pooled[w] /\ exec[w] # "queued"
            /\ ~InLoop(w) => Quiet(w)
            /\ w \in waiting => op[w] # "idle"
            /\ join[w] = "joined" => exec[w] = "exited"
            /\ phase = "gone" => join[w] = "joined"

IInv == Fields /\ waiting \subseteq Workers /\ \A w \in Workers : Lives(w)

LEMMA InitIInv == Init => IInv
<1> SUFFICES ASSUME Init PROVE IInv
  OBVIOUS
<1>1. <<>> \in Seq(Jobs)
  OBVIOUS
<1> QED BY <1>1 DEF Init, Q!Init, T!Init, IInv, Fields, Lives, InLoop, Quiet, T!Execs, T!Joins

\* What puts an item in the queue wakes at most a worker.
LEMMA PutKeepsOps == ASSUME IInv, NEW x, Q!put_Queue(x)
                     PROVE  op' = op /\ waiting' \subseteq waiting
<1>1. ASSUME NEW t \in waiting, Q!Resume(t) PROVE op' = op /\ waiting' \subseteq waiting
  BY <1>1 DEF Q!Resume, IInv, Fields
<1> QED BY <1>1 DEF Q!put_Queue, Q!signal_Condition

\* A step of one job's thread leaves those of the workers alone.
LEMMA JobStep == ASSUME IInv, NEW j \in Jobs, 
                        T!run_ThreadPool(j) \/ T!RunJob(j) \/ T!Finish(j) \/ T!Leave(j)
                 PROVE  /\ exec' \in [Workers \cup Jobs -> T!Execs]
                        /\ pooled' \in [Workers \cup Jobs -> BOOLEAN]
                        /\ join' \in [Workers \cup Jobs -> T!Joins]
                        /\ \A w \in Workers : /\ exec'[w] = exec[w] /\ pooled'[w] = pooled[w]
                                              /\ join'[w] = join[w]
<1> USE ThreadPoolAssumption DEF IInv, Fields, T!Execs, T!Joins
<1>1. CASE T!run_ThreadPool(j)
  BY <1>1 DEF T!run_ThreadPool
<1>2. CASE T!RunJob(j)
  BY <1>2 DEF T!RunJob
<1>3. CASE T!Finish(j)
  BY <1>3 DEF T!Finish
<1>4. CASE T!Leave(j)
  BY <1>4 DEF T!Leave
<1> QED BY <1>1, <1>2, <1>3, <1>4

LEMMA TopIsJob == ASSUME IInv, NEW w \in Workers, stack[w] # <<>> PROVE Top(w) \in Jobs
BY DEF Top, IInv, Fields

LEMMA OwnerKeeps == IInv /\ OwnerStep => IInv'
<1> SUFFICES ASSUME IInv, OwnerStep PROVE IInv'
  OBVIOUS
<1> USE ThreadPoolAssumption DEF IInv, Fields, Lives, InLoop, Quiet, T!Execs, T!Joins, queueVars, threadVars, ownVars
<1>1. ASSUME NEW w \in Workers, StartWorker(w) PROVE IInv'
  BY <1>1 DEF StartWorker, T!StartThread
<1>2. ASSUME NEW w \in Workers, RegisterWorker(w) PROVE IInv'
  BY <1>2 DEF RegisterWorker, T!Register
<1>3. ASSUME NEW w \in Workers, JoinWorker(w) PROVE IInv'
  BY <1>3 DEF JoinWorker, T!join_Thread
<1>4. ASSUME NEW w \in Workers, WorkerJoined(w) PROVE IInv'
  BY <1>4 DEF WorkerJoined, T!OsJoin
<1>5. CASE PutSentinel
  BY <1>5, PutKeepsOps DEF PutSentinel
<1>6. CASE Destroy
  BY <1>6 DEF Destroy
<1> QED BY <1>1, <1>2, <1>3, <1>4, <1>5, <1>6 DEF OwnerStep

LEMMA WorkerKeeps == ASSUME IInv, NEW w \in Workers, WorkerStep(w) PROVE IInv'
<1> USE ThreadPoolAssumption DEF IInv, Fields, Lives, InLoop, Quiet, T!Execs, T!Joins, queueVars, threadVars, ownVars
<1>1. CASE EnterWorker(w)
  BY <1>1 DEF EnterWorker, T!Enter
<1>2. CASE Loop(w)
  BY <1>2 DEF Loop, Q!Call
<1>3. CASE TakeJob(w)
  <2>1. InLoop(w) /\ op' = [op EXCEPT ![w] = "idle"] /\ waiting' = waiting /\ w \notin waiting
    BY <1>3 DEF TakeJob, Q!TakeFront, Q!Taking
  <2>2. Head(items) \in Jobs /\ stack' = [stack EXCEPT ![w] = Append(@, Head(items))]
    BY <1>3 DEF TakeJob, Push
  <2>3. Append(stack[w], Head(items)) \in Seq(Jobs)
    BY <2>2
  <2>4. stack' \in [Workers -> Seq(Jobs)] /\ \A v \in Workers \ {w} : stack'[v] = stack[v]
    BY <2>2, <2>3
  <2>5. /\ exec' \in [Workers \cup Jobs -> T!Execs] /\ pooled' \in [Workers \cup Jobs -> BOOLEAN]
        /\ join' \in [Workers \cup Jobs -> T!Joins]
        /\ \A v \in Workers : exec'[v] = exec[v] /\ pooled'[v] = pooled[v] /\ join'[v] = join[v]
    BY <1>3, <2>2, JobStep DEF TakeJob
  <2>6. retired' = retired /\ phase' = phase
    BY <1>3 DEF TakeJob
  <2>7. ASSUME NEW v \in Workers PROVE Lives(v)'
    BY <2>1, <2>4, <2>5, <2>6
  <2> QED BY <2>1, <2>4, <2>5, <2>7
<1>4. CASE TakeSentinel(w)
  BY <1>4 DEF TakeSentinel, Q!TakeFront, Q!Taking
<1>5. CASE Block(w)
  BY <1>5 DEF Block, Q!wait_Condition, Q!Taking
<1>6. CASE YieldTimesOut(w)
  BY <1>6 DEF YieldTimesOut, Q!TimeOut
<1>7. CASE JobReleased(w)
  <2>1. Top(w) \in Jobs
    BY <1>7, TopIsJob DEF JobReleased
  <2>2. InLoop(w)
    BY <1>7 DEF JobReleased
  <2>3. stack' \in [Workers -> Seq(Jobs)] /\ \A v \in Workers \ {w} : stack'[v] = stack[v]
    BY <1>7 DEF JobReleased, Pop
  <2> QED BY <1>7, <2>1, <2>2, <2>3, JobStep DEF JobReleased
<1>8. CASE WorkerExits(w)
  <2>1. CASE T!Deregister(w)
    BY <1>8, <2>1 DEF WorkerExits, T!Deregister
  <2>2. CASE T!Finish(w)
    BY <1>8, <2>2 DEF WorkerExits, T!Finish, T!Returned
  <2>3. CASE T!Leave(w)
    BY <1>8, <2>3 DEF WorkerExits, T!Leave
  <2>4. CASE T!Exit(w)
    BY <1>8, <2>4 DEF WorkerExits, T!Exit
  <2> QED BY <1>8, <2>1, <2>2, <2>3, <2>4 DEF WorkerExits
<1> QED BY <1>1, <1>2, <1>3, <1>4, <1>5, <1>6, <1>7, <1>8 DEF WorkerStep

LEMMA IInvStep == IInv /\ [Next]_poolVars => IInv'
<1> SUFFICES ASSUME IInv, [Next]_poolVars PROVE IInv'
  OBVIOUS
<1> USE ThreadPoolAssumption DEF IInv, Fields, Lives, InLoop, Quiet, T!Execs, T!Joins, queueVars, threadVars, ownVars
<1>1. CASE OwnerStep
  BY <1>1, OwnerKeeps
<1>2. CASE BeginStop
  BY <1>2 DEF BeginStop
<1>3. ASSUME NEW j \in Jobs, Submit(j) PROVE IInv'
  BY <1>3, PutKeepsOps, JobStep DEF Submit
<1>4. ASSUME NEW w \in Workers, WorkerStep(w) PROVE IInv'
  BY <1>4, WorkerKeeps
<1>5. ASSUME NEW w \in Workers, Yield(w) PROVE IInv'
  BY <1>5 DEF Yield, Q!Call
<1>6. ASSUME NEW w \in Workers, JobReturns(w) PROVE IInv'
  <2>1. Top(w) \in Jobs
    BY <1>6, TopIsJob DEF JobReturns
  <2> QED BY <1>6, <2>1, JobStep DEF JobReturns
<1>7. ASSUME NEW w \in Workers, Spurious(w) PROVE IInv'
  <2>1. CASE Q!SpuriousWakeup(w) /\ UNCHANGED <<threadVars, ownVars>>
    BY <2>1 DEF Q!SpuriousWakeup, Q!Resume
  <2>2. CASE T!SpuriousWakeup(w) /\ UNCHANGED <<queueVars, ownVars>>
    BY <2>2 DEF T!SpuriousWakeup
  <2> QED BY <1>7, <2>1, <2>2 DEF Spurious
<1>8. CASE UNCHANGED poolVars
  BY <1>8 DEF poolVars
<1> QED BY <1>1, <1>2, <1>3, <1>4, <1>5, <1>6, <1>7, <1>8 DEF Next

(* The queue and its mutex are destroyed only when all workers have exited  *)
(* and none is inside a function of the queue (threadpool.c).               *)
THEOREM DestroyedWhenQuiet == Spec => []GoneIsQuiet
<1>1. IInv => GoneIsQuiet
  BY DEF IInv, Fields, Lives, InLoop, Quiet, GoneIsQuiet
<1> QED BY <1>1, InitIInv, IInvStep, PTL DEF Spec

-----------------------------------------------------------------------------
(* SentinelBalance holds for them too.  The life of each thread is that of  *)
(* Thread.tla, whose invariant is the pool's.  What is added: before the    *)
(* shutdown there are no sentinels; a worker that takes one was not retired;*)
(* and a job is on one stack, once, just while it is running.               *)

NoTwice(s) == \A i, k \in 1..Len(s) : s[i] = s[k] => i = k

InPlace(j) == /\ Queued(j) = IF exec[j] = "queued" THEN 1 ELSE 0
              /\ exec[j] \in {"running", "notifying"} <=> \E w \in Workers : j \in Elems(stack[w])
              /\ \A v, w \in Workers : j \in Elems(stack[v]) /\ j \in Elems(stack[w]) => v = w

Places == (\A j \in Jobs : InPlace(j)) /\ \A w \in Workers : NoTwice(stack[w])

Total == IF phase \in {"starting", "open"} THEN 0 ELSE Cardinality(Workers)

Account == /\ items \in Seq(Jobs \cup {Pool}) /\ retired \subseteq Workers
           /\ sentinels \in Nat /\ swallowed \in Nat
           /\ phase \in {"starting", "open", "stopping", "joining", "gone"}
           /\ sentinels + Queued(Pool) + Cardinality(retired) + swallowed = Total

Launching == /\ starting \subseteq Workers
             /\ \A v, w \in starting : v = w
             /\ phase # "starting" => starting = {}

Balance == T!IInv /\ Account /\ Launching /\ Places

\* What it takes to use the lemmas of Queue.tla here.
LEMMA QueueFacts == /\ \A S : Q!Cardinality(S) = Cardinality(S) /\ (Q!IsFiniteSet(S) <=> IsFiniteSet(S))
                    /\ Q!IsFiniteSet(Workers) /\ 0 \in Nat
<1>1. ASSUME NEW S PROVE Q!Cardinality(S) = Cardinality(S)
  BY DEF Q!Cardinality, Cardinality
<1>2. ASSUME NEW S PROVE Q!IsFiniteSet(S) <=> IsFiniteSet(S)
  BY DEF Q!IsFiniteSet, IsFiniteSet
<1> QED BY <1>1, <1>2, ThreadPoolAssumption

LEMMA QueuedIsNat == ASSUME items \in Seq(Jobs \cup {Pool}), NEW x PROVE Queued(x) \in Nat
BY Q!Counted, QueueFacts DEF Queued

\* What becomes of the list, and of how often an item is in it.
LEMMA QueuedSame == ASSUME items' = items, NEW x PROVE Queued(x)' = Queued(x)
BY DEF Queued, Q!Positions

LEMMA QueuedPut ==
  ASSUME items \in Seq(Jobs \cup {Pool}), NEW y \in Jobs \cup {Pool}, Q!put_Queue(y)
  PROVE  /\ items' \in Seq(Jobs \cup {Pool})
         /\ \A x : Queued(x)' = Queued(x) + (IF x = y THEN 1 ELSE 0)
<1>1. items' = Append(items, y)
  BY DEF Q!put_Queue
<1>2. ASSUME NEW x PROVE Queued(x)' = Queued(x) + (IF x = y THEN 1 ELSE 0)
  <2>1. Queued(x)' = Cardinality(Q!Positions(Append(items, y), x))
    BY <1>1 DEF Queued, Q!Positions
  <2>2. Queued(x) = Cardinality(Q!Positions(items, x))
    BY DEF Queued
  <2> QED BY <2>1, <2>2, Q!AppendCounts, QueueFacts
<1> QED BY <1>1, <1>2, AppendProperties

LEMMA QueuedTaken ==
  ASSUME items \in Seq(Jobs \cup {Pool}), NEW w, Q!TakeFront(w)
  PROVE  /\ items' \in Seq(Jobs \cup {Pool})
         /\ \A x : /\ Queued(x) = Queued(x)' + (IF x = Head(items) THEN 1 ELSE 0)
                   /\ Queued(x)' \in Nat
<1>1. items # <<>> /\ items' = Tail(items) /\ Tail(items) \in Seq(Jobs \cup {Pool})
  BY HeadTailProperties DEF Q!TakeFront
<1>2. ASSUME NEW x PROVE /\ Queued(x) = Queued(x)' + (IF x = Head(items) THEN 1 ELSE 0)
                         /\ Queued(x)' \in Nat
  <2>1. Queued(x)' = Cardinality(Q!Positions(Tail(items), x))
    BY <1>1 DEF Queued, Q!Positions
  <2>2. Queued(x) = Cardinality(Q!Positions(items, x))
    BY DEF Queued
  <2> QED BY <1>1, <2>1, <2>2, Q!TailCounts, Q!Counted, QueueFacts
<1> QED BY <1>1, <1>2

\* What becomes of a stack.
LEMMA Pushed == ASSUME NEW s \in Seq(Jobs), NEW k \in Jobs
                PROVE  /\ Elems(Append(s, k)) = Elems(s) \cup {k}
                       /\ NoTwice(s) /\ k \notin Elems(s) => NoTwice(Append(s, k))
<1>1. /\ Len(s) \in Nat /\ Len(Append(s, k)) = Len(s) + 1
      /\ \A i \in 1..Len(s) : Append(s, k)[i] = s[i]
      /\ Append(s, k)[Len(s) + 1] = k
  BY LenProperties, AppendProperties
<1>2. \A i : i \in 1..(Len(s) + 1) <=> i \in 1..Len(s) \/ i = Len(s) + 1
  BY <1>1
<1>3. Elems(Append(s, k)) = Elems(s) \cup {k}
  BY <1>1, <1>2 DEF Elems
<1>4. ASSUME NoTwice(s), k \notin Elems(s) PROVE NoTwice(Append(s, k))
  BY <1>1, <1>2, <1>4 DEF NoTwice, Elems
<1> QED BY <1>3, <1>4

LEMMA Popped == ASSUME NEW s \in Seq(Jobs), s # <<>>, NoTwice(s)
                PROVE  /\ Elems(SubSeq(s, 1, Len(s) - 1)) = Elems(s) \ {s[Len(s)]}
                       /\ NoTwice(SubSeq(s, 1, Len(s) - 1))
<1> DEFINE f == SubSeq(s, 1, Len(s) - 1)
<1>1. Len(s) \in Nat \ {0}
  BY LenProperties, EmptySeq
<1>2. Len(f) = Len(s) - 1 /\ \A i \in 1..(Len(s) - 1) : f[i] = s[i]
  <2>1. 1 \in Int /\ Len(s) - 1 \in Int /\ \A i \in 1..(Len(s) - 1) : s[i] \in Jobs
    BY <1>1
  <2>2. /\ Len(f) = IF 1 <= Len(s) - 1 THEN (Len(s) - 1) - 1 + 1 ELSE 0
        /\ \A i \in 1..((Len(s) - 1) - 1 + 1) : f[i] = s[1 + i - 1]
    BY <2>1, SubSeqProperties
  <2> QED BY <1>1, <2>2
<1>3. \A i : i \in 1..Len(s) <=> i \in 1..(Len(s) - 1) \/ i = Len(s)
  BY <1>1
<1> HIDE DEF f
<1>4. Elems(f) = Elems(s) \ {s[Len(s)]}
  BY <1>1, <1>2, <1>3 DEF Elems, NoTwice
<1>5. NoTwice(f)
  BY <1>1, <1>2, <1>3 DEF NoTwice
<1> QED BY <1>4, <1>5 DEF f

LEMMA ThreadStep == IInv /\ [Next]_poolVars => [T!Next]_(T!threadVars)
<1> SUFFICES ASSUME IInv, [Next]_poolVars PROVE T!Next \/ UNCHANGED threadVars
  BY DEF threadVars, T!threadVars
<1> USE DEF T!Next, T!Runs, T!Owner
<1>1. ASSUME NEW w \in Workers,
             \/ StartWorker(w) \/ RegisterWorker(w) \/ JoinWorker(w) \/ WorkerJoined(w)
             \/ EnterWorker(w) \/ WorkerExits(w)
      PROVE  T!Next
  BY <1>1 DEF StartWorker, RegisterWorker, JoinWorker, WorkerJoined, EnterWorker, WorkerExits
<1>2. ASSUME NEW w \in Workers, Spurious(w) PROVE T!Next \/ UNCHANGED threadVars
  BY <1>2 DEF Spurious
<1>3. ASSUME NEW j \in Jobs, Submit(j) PROVE T!Next
  BY <1>3 DEF Submit
<1>4. ASSUME NEW w \in Workers, TakeJob(w) PROVE T!Next
  BY <1>4 DEF TakeJob
<1>5. ASSUME NEW w \in Workers,
             \/ Loop(w) \/ TakeSentinel(w) \/ Block(w) \/ YieldTimesOut(w) \/ Yield(w)
             \/ PutSentinel \/ Destroy \/ BeginStop
      PROVE  UNCHANGED threadVars
  BY <1>5 DEF Loop, TakeSentinel, Block, YieldTimesOut, Yield, PutSentinel, Destroy, BeginStop
<1>6. ASSUME NEW w \in Workers, JobReleased(w) \/ JobReturns(w) PROVE T!Next
  <2>1. Top(w) \in Jobs
    BY <1>6, TopIsJob DEF JobReleased, JobReturns
  <2> QED BY <1>6, <2>1 DEF JobReleased, JobReturns
<1> QED BY <1>1, <1>2, <1>3, <1>4, <1>5, <1>6, ThreadPoolAssumption
        DEF Next, OwnerStep, WorkerStep, poolVars

\* What is left of a step that is not the owner's, nor takes from the queue.
LEMMA AsideStep ==
  ASSUME NEW w \in Workers,
         \/ JoinWorker(w) \/ WorkerJoined(w) \/ EnterWorker(w) \/ Loop(w) \/ Yield(w) \/ Block(w)
         \/ YieldTimesOut(w) \/ JobReleased(w) \/ JobReturns(w) \/ WorkerExits(w) \/ Spurious(w)
         \/ UNCHANGED poolVars
  PROVE  UNCHANGED <<items, retired, phase, sentinels, swallowed, starting, late>>
<1> USE DEF queueVars, threadVars, ownVars, poolVars
<1>1. CASE JoinWorker(w) \/ WorkerJoined(w) \/ EnterWorker(w)
  BY <1>1 DEF JoinWorker, WorkerJoined, EnterWorker, T!join_Thread, T!OsJoin, T!Enter
<1>2. CASE Loop(w) \/ Yield(w) \/ Block(w) \/ YieldTimesOut(w)
  BY <1>2 DEF Loop, Yield, Block, YieldTimesOut, Q!Call, Q!wait_Condition, Q!TimeOut
<1>3. CASE JobReleased(w) \/ JobReturns(w)
  BY <1>3 DEF JobReleased, JobReturns, T!Leave, T!Finish
<1>4. CASE WorkerExits(w)
  BY <1>4 DEF WorkerExits, T!Deregister, T!Finish, T!Leave, T!Exit
<1>5. CASE Spurious(w)
  BY <1>5 DEF Spurious, Q!SpuriousWakeup, T!SpuriousWakeup
<1> QED BY <1>1, <1>2, <1>3, <1>4, <1>5

\* A sentinel that is taken ends a worker, or is swallowed.
LEMMA OneMoves ==
  ASSUME NEW s \in Nat, NEW q \in Nat, NEW p \in Nat, NEW r \in Nat, NEW t \in Nat, 
         NEW m \in Nat, NEW n \in Nat, q = p + 1, t + n = r + m + 1
  PROVE  s + p + t + n = s + q + r + m
OBVIOUS

LEMMA AccountStep == IInv /\ Account /\ Launching /\ [Next]_poolVars => Account' /\ Launching'
<1> SUFFICES ASSUME IInv, Account, Launching, [Next]_poolVars PROVE Account' /\ Launching'
  OBVIOUS
<1>a. /\ Queued(Pool) \in Nat /\ Cardinality(Workers) \in Nat /\ Cardinality(retired) \in Nat
      /\ IsFiniteSet(retired)
  BY QueuedIsNat, ThreadPoolAssumption, FS_CardinalityType, FS_Subset DEF Account
<1>b. phase \in {"starting", "open"} => Queued(Pool) = 0 /\ Cardinality(retired) = 0
                                          /\ sentinels = 0 /\ swallowed = 0
  BY <1>a DEF Account, Total
<1> USE DEF Account, Launching, Total
<1>1. ASSUME NEW w \in Workers, StartWorker(w) PROVE Account' /\ Launching'
  BY <1>1, QueuedSame DEF StartWorker, T!StartThread, queueVars, ownVars
<1>2. ASSUME NEW w \in Workers, RegisterWorker(w) PROVE Account' /\ Launching'
  <2>1. starting' = {} /\ phase = "starting"
    BY <1>2 DEF RegisterWorker, T!Register
  <2>2. phase' \in {"starting", "open"} /\ UNCHANGED <<items, retired, sentinels, swallowed>>
    BY <1>2, <2>1 DEF RegisterWorker, queueVars
  <2> QED BY <2>1, <2>2, QueuedSame
<1>3. CASE BeginStop
  <2>1. UNCHANGED <<items, retired, swallowed, starting>>
    BY <1>3 DEF BeginStop, queueVars, threadVars
  <2> QED BY <1>3, <1>a, <1>b, <2>1, QueuedSame DEF BeginStop
<1>4. CASE PutSentinel
  <2>1. UNCHANGED <<retired, swallowed, starting>>
    BY <1>4 DEF PutSentinel, threadVars
  <2>2. items' \in Seq(Jobs \cup {Pool}) /\ Queued(Pool)' = Queued(Pool) + 1
    BY <1>4, QueuedPut DEF PutSentinel
  <2>3. /\ phase = "stopping" /\ phase' \in {"stopping", "joining"}
        /\ sentinels > 0 /\ sentinels' = sentinels - 1
    BY <1>4 DEF PutSentinel
  <2>4. sentinels + Queued(Pool) + Cardinality(retired) + swallowed = Cardinality(Workers)
    BY <2>3
  <2>5. sentinels' \in Nat /\ sentinels' + Queued(Pool)' = sentinels + Queued(Pool)
    BY <1>a, <2>2, <2>3
  <2>6. sentinels' + Queued(Pool)' + Cardinality(retired') + swallowed' = Cardinality(Workers)
    BY <2>1, <2>4, <2>5
  <2>7. Account'
    BY <2>1, <2>2, <2>3, <2>5, <2>6
  <2> QED BY <2>1, <2>3, <2>7
<1>5. CASE Destroy
  <2>1. UNCHANGED <<items, retired, sentinels, swallowed, starting>>
    BY <1>5 DEF Destroy, queueVars, threadVars
  <2> QED BY <1>5, <2>1, QueuedSame DEF Destroy
<1>6. ASSUME NEW j \in Jobs, Submit(j) PROVE Account' /\ Launching'
  <2>1. UNCHANGED <<retired, phase, sentinels, swallowed, starting>>
    BY <1>6 DEF Submit, T!run_ThreadPool
  <2>2. items' \in Seq(Jobs \cup {Pool}) /\ Queued(Pool)' = Queued(Pool)
    BY <1>6, <1>a, QueuedPut, ThreadPoolAssumption DEF Submit
  <2> QED BY <1>a, <2>1, <2>2
<1>7. ASSUME NEW w \in Workers, TakeJob(w) PROVE Account' /\ Launching'
  <2>1. UNCHANGED <<retired, phase, sentinels, swallowed, starting>>
    BY <1>7 DEF TakeJob, T!RunJob
  <2>2. items' \in Seq(Jobs \cup {Pool}) /\ Queued(Pool)' = Queued(Pool)
    BY <1>7, <1>a, QueuedTaken, ThreadPoolAssumption DEF TakeJob
  <2> QED BY <1>a, <2>1, <2>2
<1>8. ASSUME NEW w \in Workers, TakeSentinel(w) PROVE Account' /\ Launching'
  <2>1. UNCHANGED <<phase, sentinels, starting>>
    BY <1>8 DEF TakeSentinel, threadVars
  <2>2. /\ items' \in Seq(Jobs \cup {Pool})
        /\ Queued(Pool) = Queued(Pool)' + 1 /\ Queued(Pool)' \in Nat
    BY <1>8, QueuedTaken DEF TakeSentinel
  <2>3. w \notin retired
    BY <1>8 DEF TakeSentinel, Q!TakeFront, Q!Taking, IInv, Lives, InLoop, Quiet
  <2>4. Cardinality(retired \cup {w}) = Cardinality(retired) + 1
    BY <1>a, <2>3, FS_AddElement
  <2>5. /\ sentinels \in Nat /\ swallowed \in Nat /\ retired \subseteq Workers
        /\ sentinels + Queued(Pool) + Cardinality(retired) + swallowed = Total
        /\ sentinels' = sentinels /\ Total \in Nat
    BY <1>a, <2>1
  <2> HIDE DEF Account, Launching, Total
  <2>6. /\ Cardinality(retired') + swallowed' = Cardinality(retired) + swallowed + 1
        /\ retired' \subseteq Workers /\ swallowed' \in Nat /\ Cardinality(retired') \in Nat
    <3>1. CASE retired' = retired \cup {w} /\ swallowed' = swallowed
      <4>1. Cardinality(retired') = Cardinality(retired) + 1
        BY <2>4, <3>1
      <4> QED BY <1>a, <2>5, <3>1, <4>1
    <3>2. CASE retired' = retired /\ swallowed' = swallowed + 1
      BY <1>a, <2>5, <3>2
    <3> QED BY <1>8, <3>1, <3>2 DEF TakeSentinel
  <2>7. sentinels' + Queued(Pool)' + Cardinality(retired') + swallowed' = Total
    <3>1. /\ sentinels \in Nat /\ Queued(Pool) \in Nat /\ Queued(Pool)' \in Nat
          /\ Cardinality(retired) \in Nat /\ Cardinality(retired') \in Nat
          /\ swallowed \in Nat /\ swallowed' \in Nat
          /\ Queued(Pool) = Queued(Pool)' + 1
          /\ Cardinality(retired') + swallowed' = Cardinality(retired) + swallowed + 1
      BY <1>a, <2>2, <2>5, <2>6
    <3>2. sentinels + Queued(Pool)' + Cardinality(retired') + swallowed' = Total
      BY <2>5, <3>1, OneMoves
    <3> QED BY <2>5, <3>2
  <2> USE DEF Account, Launching, Total
  <2>8. Total' = Total /\ Launching'
    BY <2>1
  <2> QED BY <2>1, <2>2, <2>6, <2>7, <2>8
<1>9. CASE UNCHANGED <<items, retired, phase, sentinels, swallowed, starting>>
  BY <1>9, QueuedSame
<1> QED BY <1>1, <1>2, <1>3, <1>4, <1>5, <1>6, <1>7, <1>8, <1>9, AsideStep, ThreadPoolAssumption
        DEF Next, OwnerStep, WorkerStep

\* The worker's own steps, and the owner's, leave the jobs where they are.
LEMMA JobsStay ==
  ASSUME IInv, NEW w \in Workers,
         \/ StartWorker(w) \/ RegisterWorker(w) \/ JoinWorker(w) \/ WorkerJoined(w)
         \/ EnterWorker(w) \/ Loop(w) \/ Yield(w) \/ Block(w) \/ YieldTimesOut(w)
         \/ WorkerExits(w) \/ Spurious(w) \/ TakeSentinel(w)
         \/ PutSentinel \/ BeginStop \/ Destroy \/ UNCHANGED poolVars
  PROVE  stack' = stack /\ \A j \in Jobs : exec'[j] = exec[j]
<1> USE ThreadPoolAssumption DEF IInv, Fields, queueVars, threadVars, ownVars, poolVars
<1>1. CASE StartWorker(w) \/ RegisterWorker(w) \/ JoinWorker(w) \/ WorkerJoined(w) \/ EnterWorker(w)
  BY <1>1 DEF StartWorker, RegisterWorker, JoinWorker, WorkerJoined, EnterWorker,
              T!StartThread, T!Register, T!join_Thread, T!OsJoin, T!Enter
<1>2. CASE Loop(w) \/ Yield(w) \/ Block(w) \/ YieldTimesOut(w) \/ TakeSentinel(w)
  BY <1>2 DEF Loop, Yield, Block, YieldTimesOut, TakeSentinel
<1>3. CASE WorkerExits(w)
  BY <1>3 DEF WorkerExits, T!Deregister, T!Finish, T!Leave, T!Exit
<1>4. CASE Spurious(w)
  BY <1>4 DEF Spurious, T!SpuriousWakeup
<1>5. CASE PutSentinel \/ BeginStop \/ Destroy \/ UNCHANGED poolVars
  BY <1>5 DEF PutSentinel, BeginStop, Destroy
<1> QED BY <1>1, <1>2, <1>3, <1>4, <1>5

LEMMA PlacesKept ==
  ASSUME Places, stack' = stack,
         \A j \in Jobs : exec'[j] = exec[j] /\ Queued(j)' = Queued(j)
  PROVE  Places'
BY DEF Places, InPlace

LEMMA SubmitPlaces == ASSUME IInv, Account, Places, NEW k \in Jobs, Submit(k) PROVE Places'
<1>1. /\ stack' = stack /\ exec[k] = "none" /\ exec'[k] = "queued"
      /\ \A j \in Jobs \ {k} : exec'[j] = exec[j]
  BY DEF Submit, T!run_ThreadPool, IInv, Fields
<1>2. \A j \in Jobs : Queued(j)' = Queued(j) + (IF j = k THEN 1 ELSE 0)
  BY QueuedPut DEF Submit, Account
<1>3. \A j \in Jobs : Queued(j) \in Nat
  BY QueuedIsNat DEF Account
<1>4. ASSUME NEW j \in Jobs PROVE InPlace(j)'
  <2>1. CASE j = k
    BY <1>1, <1>2, <2>1 DEF Places, InPlace
  <2>2. CASE j # k
    BY <1>1, <1>2, <1>3, <2>2 DEF Places, InPlace
  <2> QED BY <2>1, <2>2
<1> QED BY <1>1, <1>4 DEF Places

LEMMA TakePlaces == ASSUME IInv, Account, Places, NEW w \in Workers, TakeJob(w) PROVE Places'
<1> DEFINE k == Head(items)
<1>1. /\ k \in Jobs /\ exec[k] = "queued" /\ exec'[k] = "running"
      /\ \A j \in Jobs \ {k} : exec'[j] = exec[j]
  BY DEF TakeJob, T!RunJob, IInv, Fields
<1>2. \A j \in Jobs : Queued(j) = Queued(j)' + (IF j = k THEN 1 ELSE 0) /\ Queued(j)' \in Nat
  BY QueuedTaken DEF TakeJob, Account
<1>3. stack[w] \in Seq(Jobs) /\ stack'[w] = Append(stack[w], k)
      /\ \A v \in Workers \ {w} : stack'[v] = stack[v]
  BY DEF TakeJob, Push, IInv, Fields
<1>4. \A v \in Workers : k \notin Elems(stack[v])
  BY <1>1 DEF Places, InPlace
<1> HIDE DEF k
<1>5. Elems(stack'[w]) = Elems(stack[w]) \cup {k} /\ NoTwice(stack'[w])
  BY <1>1, <1>3, <1>4, Pushed DEF Places
<1>6. ASSUME NEW j \in Jobs PROVE InPlace(j)'
  <2>1. CASE j = k
    <3>1. Queued(j)' = 0
      BY <1>1, <1>2, <2>1 DEF Places, InPlace
    <3>2. \A v \in Workers : j \in Elems(stack'[v]) <=> v = w
      BY <1>3, <1>4, <1>5, <2>1
    <3> QED BY <1>1, <2>1, <3>1, <3>2 DEF InPlace
  <2>2. CASE j # k
    <3>1. Queued(j)' = Queued(j)
      BY <1>2, <2>2
    <3>2. \A v \in Workers : j \in Elems(stack'[v]) <=> j \in Elems(stack[v])
      BY <1>3, <1>5, <2>2
    <3> QED BY <1>1, <2>2, <3>1, <3>2 DEF Places, InPlace
  <2> QED BY <2>1, <2>2
<1>7. ASSUME NEW v \in Workers PROVE NoTwice(stack'[v])
  BY <1>3, <1>5 DEF Places
<1> QED BY <1>6, <1>7 DEF Places

LEMMA TopPlace == ASSUME IInv, Places, NEW w \in Workers, stack[w] # <<>>
                  PROVE  /\ Top(w) \in Jobs /\ Top(w) \in Elems(stack[w])
                         /\ exec[Top(w)] \in {"running", "notifying"}
                         /\ \A v \in Workers : Top(w) \in Elems(stack[v]) => v = w
<1>1. Top(w) \in Jobs
  BY TopIsJob
<1>2. Len(stack[w]) \in 1..Len(stack[w])
  BY LenProperties, EmptySeq DEF IInv, Fields
<1>3. Top(w) \in Elems(stack[w])
  BY <1>2 DEF Top, Elems
<1> QED BY <1>1, <1>3 DEF Places, InPlace

LEMMA ReleasePlaces == ASSUME IInv, Places, NEW w \in Workers, JobReleased(w) PROVE Places'
<1> DEFINE k == Top(w)
<1>1. /\ k \in Jobs /\ k \in Elems(stack[w]) /\ stack[w] # <<>>
      /\ \A v \in Workers : k \in Elems(stack[v]) => v = w
  BY TopPlace DEF JobReleased
<1>2. /\ exec[k] = "notifying" /\ exec'[k] \in {"exited", "leaving"}
      /\ \A j \in Jobs \ {k} : exec'[j] = exec[j]
  BY <1>1 DEF JobReleased, T!Leave, IInv, Fields
<1>3. \A j \in Jobs : Queued(j)' = Queued(j)
  BY QueuedSame DEF JobReleased, queueVars
<1>4. /\ stack[w] \in Seq(Jobs) /\ stack'[w] = SubSeq(stack[w], 1, Len(stack[w]) - 1)
      /\ \A v \in Workers \ {w} : stack'[v] = stack[v]
  BY DEF JobReleased, Pop, IInv, Fields
<1>5. Elems(stack'[w]) = Elems(stack[w]) \ {k} /\ NoTwice(stack'[w])
  BY <1>1, <1>4, Popped DEF Places, Top
<1> HIDE DEF k
<1>6. ASSUME NEW j \in Jobs PROVE InPlace(j)'
  <2>1. CASE j = k
    <3>1. \A v \in Workers : j \notin Elems(stack'[v])
      BY <1>1, <1>4, <1>5, <2>1
    <3> QED BY <1>1, <1>2, <1>3, <2>1, <3>1 DEF Places, InPlace
  <2>2. CASE j # k
    <3>1. \A v \in Workers : j \in Elems(stack'[v]) <=> j \in Elems(stack[v])
      BY <1>4, <1>5, <2>2
    <3> QED BY <1>2, <1>3, <2>2, <3>1 DEF Places, InPlace
  <2> QED BY <2>1, <2>2
<1>7. ASSUME NEW v \in Workers PROVE NoTwice(stack'[v])
  BY <1>4, <1>5 DEF Places
<1> QED BY <1>6, <1>7 DEF Places

LEMMA ReturnPlaces == ASSUME IInv, Places, NEW w \in Workers, JobReturns(w) PROVE Places'
<1>1. /\ Top(w) \in Jobs /\ exec[Top(w)] \in {"running", "notifying"}
      /\ stack' = stack
  BY TopPlace DEF JobReturns, ownVars
<1>2. /\ exec[Top(w)] = "running" /\ exec'[Top(w)] = "notifying"
      /\ \A j \in Jobs \ {Top(w)} : exec'[j] = exec[j]
  BY <1>1 DEF JobReturns, T!Finish, T!Returned, IInv, Fields
<1>3. \A j \in Jobs : Queued(j)' = Queued(j)
  BY QueuedSame DEF JobReturns, queueVars
<1>4. ASSUME NEW j \in Jobs PROVE InPlace(j)'
  BY <1>1, <1>2, <1>3 DEF Places, InPlace
<1> QED BY <1>1, <1>4 DEF Places

LEMMA PlacesStep == IInv /\ Account /\ Places /\ [Next]_poolVars => Places'
<1> SUFFICES ASSUME IInv, Account, Places, [Next]_poolVars PROVE Places'
  OBVIOUS
<1>1. CASE PutSentinel
  <2>1. \A j \in Jobs : Queued(j) \in Nat /\ Queued(j)' = Queued(j) + 0
    BY <1>1, QueuedPut, QueuedIsNat, ThreadPoolAssumption DEF PutSentinel, Account
  <2> QED BY <1>1, <2>1, JobsStay, PlacesKept, ThreadPoolAssumption
<1>2. ASSUME NEW w \in Workers, TakeSentinel(w) PROVE Places'
  <2>1. \A j \in Jobs : Queued(j)' \in Nat /\ Queued(j) = Queued(j)' + 0
    BY <1>2, QueuedTaken, ThreadPoolAssumption DEF TakeSentinel, Account
  <2> QED BY <1>2, <2>1, JobsStay, PlacesKept
<1>3. ASSUME NEW w \in Workers, StartWorker(w) PROVE Places'
  BY <1>3, JobsStay, PlacesKept, QueuedSame DEF StartWorker, queueVars
<1>4. ASSUME NEW w \in Workers, RegisterWorker(w) PROVE Places'
  BY <1>4, JobsStay, PlacesKept, QueuedSame DEF RegisterWorker, queueVars
<1>5. CASE BeginStop \/ Destroy
  BY <1>5, JobsStay, PlacesKept, QueuedSame, ThreadPoolAssumption DEF BeginStop, Destroy, queueVars
<1>6. ASSUME NEW w \in Workers,
             \/ JoinWorker(w) \/ WorkerJoined(w) \/ EnterWorker(w) \/ Loop(w) \/ Yield(w)
             \/ Block(w) \/ YieldTimesOut(w) \/ WorkerExits(w) \/ Spurious(w)
             \/ UNCHANGED poolVars
      PROVE  Places'
  BY <1>6, AsideStep, JobsStay, PlacesKept, QueuedSame
<1> QED BY <1>1, <1>2, <1>3, <1>4, <1>5, <1>6, SubmitPlaces, TakePlaces, ReleasePlaces,
           ReturnPlaces, ThreadPoolAssumption DEF Next, OwnerStep, WorkerStep

LEMMA InitBalance == Init => Balance
<1> SUFFICES ASSUME Init PROVE Balance
  OBVIOUS
<1>1. T!IInv
  BY T!InitIInv DEF Init
<1>2. items = <<>> /\ Len(items) = 0 /\ items \in Seq(Jobs \cup {Pool})
  BY EmptySeq DEF Init, Q!Init
<1>3. \A x : Queued(x) = 0
  BY <1>2, FS_EmptySet DEF Queued, Q!Positions
<1>4. Account
  BY <1>2, <1>3, FS_EmptySet DEF Init, Account, Total
<1>5. \A w \in Workers : stack[w] = <<>> /\ Len(stack[w]) = 0
  BY EmptySeq DEF Init
<1>6. Places
  BY <1>3, <1>5 DEF Init, T!Init, Places, InPlace, Elems, NoTwice
<1>7. Launching
  BY DEF Init, T!Init, Launching
<1> QED BY <1>1, <1>4, <1>6, <1>7 DEF Balance

LEMMA BalanceStep == IInv /\ Balance /\ [Next]_poolVars => Balance'
BY ThreadStep, T!IInvStep, AccountStep, PlacesStep DEF Balance

LEMMA BalanceUse == IInv /\ Balance => SentinelBalance
<1> SUFFICES ASSUME IInv, Balance PROVE SentinelBalance
  OBVIOUS
<1>1. Q!TypeOK
  BY DEF Q!TypeOK, Q!Ops, Q!Taking, IInv, Fields, Lives, Balance, Account
<1>2. T!TypeOK
  BY DEF Balance, T!IInv, T!RefsBalance
<1>3. /\ Queued(Pool) \in Nat /\ Cardinality(retired) \in Nat /\ Cardinality(Workers) \in Nat
  BY QueuedIsNat, ThreadPoolAssumption, FS_CardinalityType, FS_Subset DEF Balance, Account
<1>4. sentinels \in 0..Cardinality(Workers)
  BY <1>3 DEF Balance, Account, Total
<1>5. ASSUME NEW j \in Jobs
      PROVE  Cardinality(RunBy(j)) = IF exec[j] \in {"running", "notifying"} THEN 1 ELSE 0
  <2>1. CASE exec[j] \in {"running", "notifying"}
    <3>1. PICK w \in Workers : j \in Elems(stack[w])
      BY <2>1 DEF Balance, Places, InPlace
    <3>2. RunBy(j) = {w}
      BY <3>1 DEF RunBy, Balance, Places, InPlace
    <3> QED BY <2>1, <3>2, FS_Singleton
  <2>2. CASE exec[j] \notin {"running", "notifying"}
    <3>1. RunBy(j) = {}
      BY <2>2 DEF RunBy, Balance, Places, InPlace
    <3> QED BY <2>2, <3>1, FS_EmptySet
  <2> QED BY <2>1, <2>2
<1>6. TypeOK
  BY <1>1, <1>2, <1>4, <1>5 DEF TypeOK, IInv, Fields, Balance, Account, Places, InPlace
<1> QED BY <1>6 DEF SentinelBalance, Balance, Account, Total

(* Of the sentinels stopThreads_ puts, one per worker, each is still to be  *)
(* put, or in the queue, or has ended one worker's loop, or was taken by a  *)
(* job's yield_ThreadPool; and no job is queued twice, run by two workers,  *)
(* or left out (threadpool.c).                                              *)
THEOREM SentinelsAreAccountedFor == Spec => []SentinelBalance
<1> QED BY InitIInv, IInvStep, InitBalance, BalanceStep, BalanceUse, PTL DEF Spec

-----------------------------------------------------------------------------
(* The pool implements JobPool as far as steps go, for any sets of workers  *)
(* and jobs.  The argument is the queue's order: behind a sentinel there are*)
(* only sentinels and late jobs, so once one has been taken nothing else is *)
(* left; and a worker that has exited has taken one.                        *)

OnlyLate(s) == \A k \in 1..Len(s) : s[k] \in late \cup {Pool}

Fifo == /\ \A i, k \in 1..Len(items) : i < k /\ items[i] = Pool => items[k] \in late \cup {Pool}
        /\ retired # {} \/ swallowed > 0 => OnlyLate(items)
        /\ phase \in {"starting", "open"} => /\ \A k \in 1..Len(items) : items[k] # Pool
                                             /\ retired = {} /\ swallowed = 0 /\ late = {}
        /\ phase = "starting" => \A j \in Jobs : exec[j] = "none"
        /\ late \subseteq Jobs /\ \A j \in late : exec[j] # "none"
        /\ \A w \in Workers : exec[w] \in {"none", "born", "running"} \/ w \in retired

LEMMA AppendAt == ASSUME NEW S, NEW s \in Seq(S), NEW x \in S
                  PROVE  /\ Len(s) \in Nat /\ Len(Append(s, x)) = Len(s) + 1
                         /\ \A i \in 1..(Len(s) + 1) :
                              Append(s, x)[i] = IF i = Len(s) + 1 THEN x ELSE s[i]
BY LenProperties, AppendProperties

LEMMA TailAt == ASSUME NEW S, NEW s \in Seq(S), s # <<>>
                PROVE  /\ Len(s) \in Nat \ {0} /\ Len(Tail(s)) = Len(s) - 1 /\ s[1] = Head(s)
                       /\ \A i \in 1..(Len(s) - 1) : Tail(s)[i] = s[i + 1]
BY LenProperties, EmptySeq, HeadTailProperties

LEMMA FifoSubmit == ASSUME IInv, Account, Places, Fifo, NEW j \in Jobs, Submit(j) PROVE Fifo'
<1>1. /\ UNCHANGED <<retired, phase, swallowed>> /\ exec[j] = "none" /\ exec'[j] = "queued"
      /\ \A t \in (Workers \cup Jobs) \ {j} : exec'[t] = exec[t]
  BY DEF Submit, T!run_ThreadPool, IInv, Fields
<1>2. items' = Append(items, j) /\ items \in Seq(Jobs \cup {Pool})
  BY DEF Submit, Q!put_Queue, Account
<1>3. late' = IF phase = "open" THEN late ELSE late \cup {j}
  BY DEF Submit
<1>4. phase # "starting"
  <2>1. ASSUME NEW w \in Workers, stack[w] # <<>> PROVE \E k \in Jobs : exec[k] # "none"
    BY <2>1, TopPlace
  <2> QED BY <2>1 DEF Submit, Fifo
<1>5. /\ Len(items) \in Nat /\ Len(items') = Len(items) + 1
      /\ \A i \in 1..(Len(items) + 1) : items'[i] = IF i = Len(items) + 1 THEN j ELSE items[i]
  BY <1>2, AppendAt
<1>6. \A i, k \in 1..Len(items') : i < k /\ items'[i] = Pool => items'[k] \in late' \cup {Pool}
  <2> SUFFICES ASSUME NEW i \in 1..Len(items'), NEW k \in 1..Len(items'), i < k, items'[i] = Pool
               PROVE  items'[k] \in late' \cup {Pool}
    OBVIOUS
  <2>1. i \in 1..Len(items) /\ items[i] = Pool
    BY <1>5
  <2>2. phase # "open"
    BY <2>1 DEF Fifo
  <2>3. CASE k = Len(items) + 1
    BY <1>3, <1>5, <2>2, <2>3
  <2>4. CASE k # Len(items) + 1
    <3>1. k \in 1..Len(items) /\ items'[k] = items[k]
      BY <1>5, <2>4
    <3> QED BY <1>3, <2>1, <3>1 DEF Fifo
  <2> QED BY <2>3, <2>4
<1>7. retired' # {} \/ swallowed' > 0 => OnlyLate(items)'
  <2> SUFFICES ASSUME retired # {} \/ swallowed > 0, NEW k \in 1..Len(items')
               PROVE  items'[k] \in late' \cup {Pool}
    BY <1>1 DEF OnlyLate
  <2>1. phase # "open" /\ OnlyLate(items)
    BY DEF Fifo
  <2>2. k = Len(items) + 1 \/ k \in 1..Len(items)
    BY <1>5
  <2> QED BY <1>3, <1>5, <2>1, <2>2 DEF OnlyLate
<1>8. phase' \in {"starting", "open"} => /\ \A k \in 1..Len(items') : items'[k] # Pool
                                         /\ retired' = {} /\ swallowed' = 0 /\ late' = {}
  <2>1. ASSUME phase' \in {"starting", "open"}, NEW k \in 1..Len(items') PROVE items'[k] # Pool
    <3>1. k = Len(items) + 1 \/ k \in 1..Len(items)
      BY <1>5
    <3> QED BY <1>1, <1>5, <2>1, <3>1, ThreadPoolAssumption DEF Fifo
  <2> QED BY <1>1, <1>3, <1>4, <2>1 DEF Fifo
<1>9. \A w \in Workers : exec'[w] = exec[w]
  BY <1>1, ThreadPoolAssumption
<1> QED BY <1>1, <1>3, <1>4, <1>6, <1>7, <1>8, <1>9 DEF Fifo

LEMMA FifoPutSentinel == ASSUME IInv, Account, Fifo, PutSentinel PROVE Fifo'
<1>1. /\ UNCHANGED <<retired, swallowed, late, exec>>
      /\ phase = "stopping" /\ phase' \in {"stopping", "joining"}
      /\ items' = Append(items, Pool) /\ items \in Seq(Jobs \cup {Pool})
  BY DEF PutSentinel, threadVars, Q!put_Queue, Account
<1>2. /\ Len(items) \in Nat /\ Len(items') = Len(items) + 1
      /\ \A i \in 1..(Len(items) + 1) : items'[i] = IF i = Len(items) + 1 THEN Pool ELSE items[i]
  BY <1>1, AppendAt
<1>3. \A i, k \in 1..Len(items') : i < k /\ items'[i] = Pool => items'[k] \in late' \cup {Pool}
  <2> SUFFICES ASSUME NEW i \in 1..Len(items'), NEW k \in 1..Len(items'), i < k, items'[i] = Pool
               PROVE  items'[k] \in late \cup {Pool}
    BY <1>1
  <2>1. i \in 1..Len(items) /\ items[i] = Pool
    BY <1>2
  <2>2. k = Len(items) + 1 \/ k \in 1..Len(items)
    BY <1>2
  <2> QED BY <1>2, <2>1, <2>2 DEF Fifo
<1>4. retired # {} \/ swallowed > 0 => OnlyLate(items)'
  <2> SUFFICES ASSUME retired # {} \/ swallowed > 0, NEW k \in 1..Len(items')
               PROVE  items'[k] \in late \cup {Pool}
    BY <1>1 DEF OnlyLate
  <2>1. k = Len(items) + 1 \/ k \in 1..Len(items)
    BY <1>2
  <2> QED BY <1>2, <2>1 DEF Fifo, OnlyLate
<1> QED BY <1>1, <1>3, <1>4 DEF Fifo

\* What the list looks like when its first item has been taken.
LEMMA TakenAt ==
  ASSUME Account, Fifo, NEW w, Q!TakeFront(w), late' = late
  PROVE  /\ Head(items) \in Jobs \cup {Pool}
         /\ \A i, k \in 1..Len(items') : i < k /\ items'[i] = Pool => items'[k] \in late \cup {Pool}
         /\ OnlyLate(items) \/ Head(items) = Pool => OnlyLate(items)'
         /\ (\A k \in 1..Len(items) : items[k] # Pool)
              => Head(items) # Pool /\ \A k \in 1..Len(items') : items'[k] # Pool
<1>1. items # <<>> /\ items' = Tail(items) /\ items \in Seq(Jobs \cup {Pool})
  BY DEF Q!TakeFront, Account
<1>2. /\ Len(items) \in Nat \ {0} /\ Len(items') = Len(items) - 1 /\ items[1] = Head(items)
      /\ \A i \in 1..(Len(items) - 1) : items'[i] = items[i + 1]
  BY <1>1, TailAt
<1>3. \A i \in 1..Len(items') : /\ i + 1 \in 1..Len(items) /\ items'[i] = items[i + 1]
                                /\ 1 < i + 1 /\ \A k \in 1..Len(items') : i < k => i + 1 < k + 1
  BY <1>2
<1>4. 1 \in 1..Len(items) /\ Head(items) \in Jobs \cup {Pool}
  BY <1>1, <1>2
<1>5. \A i, k \in 1..Len(items') : i < k /\ items'[i] = Pool => items'[k] \in late \cup {Pool}
  BY <1>3 DEF Fifo
<1>6. OnlyLate(items) \/ Head(items) = Pool => OnlyLate(items)'
  BY <1>2, <1>3, <1>4 DEF Fifo, OnlyLate
<1>7. (\A k \in 1..Len(items) : items[k] # Pool)
        => Head(items) # Pool /\ \A k \in 1..Len(items') : items'[k] # Pool
  BY <1>2, <1>3, <1>4
<1> QED BY <1>4, <1>5, <1>6, <1>7

LEMMA FifoTakeJob == ASSUME IInv, Account, Fifo, NEW w \in Workers, TakeJob(w) PROVE Fifo'
<1>1. /\ UNCHANGED <<retired, phase, swallowed, late>> /\ Q!TakeFront(w) /\ Head(items) \in Jobs
      /\ exec[Head(items)] = "queued" /\ exec'[Head(items)] = "running"
      /\ \A t \in (Workers \cup Jobs) \ {Head(items)} : exec'[t] = exec[t]
  BY DEF TakeJob, T!RunJob, IInv, Fields
<1>2. \A v \in Workers : exec'[v] = exec[v]
  BY <1>1, ThreadPoolAssumption
<1>3. phase # "starting" /\ \A j \in late : exec'[j] # "none"
  BY <1>1 DEF Fifo
<1> QED BY <1>1, <1>2, <1>3, TakenAt DEF Fifo

LEMMA FifoTakeSentinel == ASSUME IInv, Account, Fifo, NEW w \in Workers, TakeSentinel(w) PROVE Fifo'
<1>1. /\ UNCHANGED <<phase, late, exec>> /\ Q!TakeFront(w) /\ Head(items) = Pool
      /\ retired \subseteq retired'
  BY DEF TakeSentinel, threadVars
<1>2. phase \notin {"starting", "open"} /\ OnlyLate(items)'
  BY <1>1, TakenAt DEF Fifo
<1> QED BY <1>1, <1>2, TakenAt DEF Fifo

\* A step that leaves the list and the pool alone, and lets no worker go.
LEMMA FifoKept ==
  ASSUME Fifo, UNCHANGED <<items, retired, phase, swallowed, late>>,
         \A j \in Jobs : exec[j] = "none" <=> exec'[j] = "none",
         \A w \in Workers : exec[w] = exec'[w] \/ exec'[w] \in {"none", "born", "running"} \/ w \in retired
  PROVE  Fifo'
BY DEF Fifo, OnlyLate

\* How a worker's thread gets on.
LEMMA WorkerExec ==
  ASSUME IInv, NEW w \in Workers,
         \/ StartWorker(w) \/ RegisterWorker(w) \/ JoinWorker(w) \/ WorkerJoined(w)
         \/ EnterWorker(w) \/ Loop(w) \/ Yield(w) \/ Block(w) \/ YieldTimesOut(w)
         \/ WorkerExits(w) \/ Spurious(w) \/ BeginStop \/ Destroy \/ UNCHANGED poolVars
  PROVE  \A v \in Workers : exec[v] = exec'[v] \/ exec'[v] \in {"none", "born", "running"} \/ v \in retired
<1> USE DEF IInv, Fields, queueVars, threadVars, ownVars, poolVars
<1>1. CASE StartWorker(w) \/ RegisterWorker(w) \/ JoinWorker(w) \/ WorkerJoined(w) \/ EnterWorker(w)
  BY <1>1 DEF StartWorker, RegisterWorker, JoinWorker, WorkerJoined, EnterWorker,
              T!StartThread, T!Register, T!join_Thread, T!OsJoin, T!Enter
<1>2. CASE Loop(w) \/ Yield(w) \/ Block(w) \/ YieldTimesOut(w)
  BY <1>2 DEF Loop, Yield, Block, YieldTimesOut
<1>3. CASE WorkerExits(w)
  BY <1>3 DEF WorkerExits, T!Deregister, T!Finish, T!Leave, T!Exit
<1>4. CASE Spurious(w)
  BY <1>4 DEF Spurious, T!SpuriousWakeup
<1>5. CASE BeginStop \/ Destroy \/ UNCHANGED poolVars
  BY <1>5 DEF BeginStop, Destroy
<1> QED BY <1>1, <1>2, <1>3, <1>4, <1>5

\* How a job gets on when its worker leaves run() or releases it.
LEMMA JobExec ==
  ASSUME IInv, Places, NEW w \in Workers, JobReturns(w) \/ JobReleased(w)
  PROVE  /\ Top(w) \in Jobs
         /\ \A t \in (Workers \cup Jobs) \ {Top(w)} : exec'[t] = exec[t]
         /\ JobReturns(w) => exec[Top(w)] = "running" /\ exec'[Top(w)] = "notifying"
         /\ JobReleased(w) => exec[Top(w)] = "notifying" /\ exec'[Top(w)] \in {"exited", "leaving"}
<1>1. Top(w) \in Jobs /\ exec[Top(w)] \in {"running", "notifying"}
  BY TopPlace DEF JobReturns, JobReleased
<1>2. CASE JobReturns(w)
  BY <1>1, <1>2 DEF JobReturns, JobReleased, T!Finish, T!Leave, T!Returned, IInv, Fields
<1>3. CASE JobReleased(w)
  BY <1>1, <1>3 DEF JobReturns, JobReleased, T!Finish, T!Leave, T!Returned, IInv, Fields
<1> QED BY <1>1, <1>2, <1>3

LEMMA InitFifo == Init => Fifo
<1> SUFFICES ASSUME Init PROVE Fifo
  OBVIOUS
<1>1. items = <<>> /\ Len(items) = 0
  BY EmptySeq DEF Init, Q!Init
<1> QED BY <1>1 DEF Init, T!Init, Fifo, OnlyLate

LEMMA FifoStep == IInv /\ Account /\ Launching /\ Places /\ Fifo /\ [Next]_poolVars => Fifo'
<1> SUFFICES ASSUME IInv, Account, Launching, Places, Fifo, [Next]_poolVars PROVE Fifo'
  OBVIOUS
<1>1. ASSUME NEW w \in Workers, StartWorker(w) PROVE Fifo'
  <2>1. UNCHANGED <<items, retired, phase, swallowed, late>>
    BY <1>1 DEF StartWorker, queueVars, ownVars
  <2> QED BY <1>1, <2>1, JobsStay, WorkerExec, FifoKept
<1>2. ASSUME NEW w \in Workers, RegisterWorker(w) PROVE Fifo'
  <2>1. /\ UNCHANGED <<items, retired, swallowed, late>>
        /\ phase = "starting" /\ phase' \in {"starting", "open"}
    BY <1>2 DEF RegisterWorker, queueVars, T!Register, Launching
  <2>2. /\ \A j \in Jobs : exec'[j] = exec[j]
        /\ \A v \in Workers : exec[v] = exec'[v] \/ exec'[v] \in {"none", "born", "running"}
                                                 \/ v \in retired
    BY <1>2, JobsStay, WorkerExec
  <2> QED BY <2>1, <2>2 DEF Fifo, OnlyLate
<1>3. CASE BeginStop
  <2>1. UNCHANGED <<items, retired, swallowed, late, exec>> /\ phase' = "stopping"
    BY <1>3 DEF BeginStop, queueVars, threadVars
  <2> QED BY <2>1 DEF Fifo, OnlyLate
<1>4. CASE Destroy
  <2>1. UNCHANGED <<items, retired, swallowed, late, exec>> /\ phase' = "gone"
    BY <1>4 DEF Destroy, queueVars, threadVars
  <2> QED BY <2>1 DEF Fifo, OnlyLate
<1>5. ASSUME NEW w \in Workers, JobReturns(w) \/ JobReleased(w) PROVE Fifo'
  <2>1. UNCHANGED <<items, retired, phase, swallowed, late>>
    BY <1>5, AsideStep
  <2>2. \A v \in Workers : exec'[v] = exec[v]
    BY <1>5, JobExec, ThreadPoolAssumption
  <2>3. \A j \in Jobs : exec[j] = "none" <=> exec'[j] = "none"
    BY <1>5, JobExec
  <2> QED BY <2>1, <2>2, <2>3, FifoKept
<1>6. ASSUME NEW w \in Workers,
             \/ JoinWorker(w) \/ WorkerJoined(w) \/ EnterWorker(w) \/ Loop(w) \/ Yield(w)
             \/ Block(w) \/ YieldTimesOut(w) \/ WorkerExits(w) \/ Spurious(w)
             \/ UNCHANGED poolVars
      PROVE  Fifo'
  BY <1>6, AsideStep, JobsStay, WorkerExec, FifoKept
<1> QED BY <1>1, <1>2, <1>3, <1>4, <1>5, <1>6, FifoSubmit, FifoPutSentinel, FifoTakeJob,
           FifoTakeSentinel, ThreadPoolAssumption DEF Next, OwnerStep, WorkerStep

-----------------------------------------------------------------------------

Known == IInv /\ Balance /\ Fifo

\* A step in which no job and not the pool gets on, as JobPool sees it.
LEMMA PromiseStutters ==
  ASSUME \A j \in Jobs : Progress(j)' = Progress(j), Openness' = Openness
  PROVE  UNCHANGED Promise!jobPoolVars
BY DEF Promise!jobPoolVars

\* One in which just one job gets on.
LEMMA PromiseMoves ==
  ASSUME NEW k \in Jobs, \A j \in Jobs \ {k} : Progress(j)' = Progress(j),
         Openness' = Openness, Openness # "gone",
         \/ /\ Progress(k) = "new"
            /\ Progress(k)' = IF Openness = "open" THEN "accepted" ELSE "late"
         \/ Progress(k) \in {"accepted", "late"} /\ Progress(k)' = "running"
         \/ Progress(k) = "running" /\ Progress(k)' = "done"
  PROVE  Promise!Next
<1> DEFINE a == [j \in Jobs |-> Progress(j)]
           b == [j \in Jobs |-> Progress(j)']
<1>1. b = [a EXCEPT ![k] = Progress(k)']
  OBVIOUS
<1>2. a[k] = Progress(k)
  OBVIOUS
<1> QED BY <1>1, <1>2 DEF Promise!Next, Promise!Accept, Promise!Run, Promise!Complete

\* A worker that is in a function of the queue, or runs a job: the pool is there.
LEMMA NotGone == ASSUME IInv, NEW w \in Workers, op[w] # "idle" \/ stack[w] # <<>>
                 PROVE  phase # "gone"
BY DEF IInv, Lives, InLoop, Quiet

LEMMA SubmitAccepts == ASSUME Known, NEW k \in Jobs, Submit(k) PROVE Promise!Next
<1>1. /\ phase' = phase /\ exec[k] = "none" /\ exec'[k] = "queued"
      /\ \A j \in Jobs \ {k} : exec'[j] = exec[j]
  BY DEF Submit, T!run_ThreadPool, Known, IInv, Fields
<1>2. late' = IF phase = "open" THEN late ELSE late \cup {k}
  BY DEF Submit
<1>3. k \notin late
  BY <1>1 DEF Known, Fifo
<1>4. phase # "gone"
  BY NotGone DEF Submit, Known
<1>5. phase # "starting"
  <2>1. ASSUME NEW w \in Workers, stack[w] # <<>> PROVE \E j \in Jobs : exec[j] # "none"
    BY <2>1, TopPlace DEF Known, Balance
  <2> QED BY <2>1 DEF Submit, Known, Fifo
<1>6. \A j \in Jobs \ {k} : Progress(j)' = Progress(j)
  BY <1>1, <1>2 DEF Progress
<1>7. Progress(k) = "new"
  BY <1>1 DEF Progress
<1>8. Progress(k)' = IF Openness = "open" THEN "accepted" ELSE "late"
  BY <1>1, <1>2, <1>3, <1>4, <1>5 DEF Progress, Openness
<1>9. Openness' = Openness /\ Openness # "gone"
  BY <1>1, <1>4 DEF Openness
<1> QED BY <1>6, <1>7, <1>8, <1>9, PromiseMoves

LEMMA TakeRuns == ASSUME Known, NEW w \in Workers, TakeJob(w) PROVE Promise!Next
<1>a. PICK k \in Jobs : k = Head(items)
  BY DEF TakeJob
<1>1. /\ UNCHANGED <<phase, late>> /\ op[w] # "idle"
      /\ exec[k] = "queued" /\ exec'[k] = "running"
      /\ \A j \in Jobs \ {k} : exec'[j] = exec[j]
  BY <1>a DEF TakeJob, T!RunJob, Q!TakeFront, Q!Taking, Known, IInv, Fields
<1>2. Openness' = Openness /\ Openness # "gone"
  BY <1>1, NotGone DEF Openness, Known
<1>3. Progress(k) \in {"accepted", "late"} /\ Progress(k)' = "running"
  BY <1>1 DEF Progress
<1>4. \A j \in Jobs \ {k} : Progress(j)' = Progress(j)
  BY <1>1 DEF Progress
<1> QED BY <1>1, <1>2, <1>3, <1>4, PromiseMoves

LEMMA ReleaseCompletes == ASSUME Known, NEW w \in Workers, JobReleased(w) PROVE Promise!Next
<1>1. PICK k \in Jobs : /\ exec[k] = "notifying" /\ exec'[k] \in {"exited", "leaving"}
                        /\ \A j \in Jobs \ {k} : exec'[j] = exec[j]
  BY JobExec DEF Known, Balance
<1>2. UNCHANGED <<phase, late>> /\ stack[w] # <<>>
  BY DEF JobReleased
<1>3. Openness' = Openness /\ Openness # "gone"
  BY <1>2, NotGone DEF Openness, Known
<1>4. Progress(k) = "running" /\ Progress(k)' = "done"
  BY <1>1 DEF Progress
<1>5. \A j \in Jobs \ {k} : Progress(j)' = Progress(j)
  BY <1>1, <1>2 DEF Progress
<1> QED BY <1>1, <1>3, <1>4, <1>5, PromiseMoves

LEMMA DestroyCloses == ASSUME Known, Destroy PROVE Promise!Next
<1>1. /\ phase = "joining" /\ phase' = "gone" /\ UNCHANGED <<exec, late>>
      /\ \A w \in Workers : join[w] = "joined"
  BY DEF Destroy, threadVars
<1>2. \A w \in Workers : exec[w] = "exited" /\ stack[w] = <<>>
  BY <1>1 DEF Known, IInv, Lives, InLoop, Quiet
<1>3. OnlyLate(items)
  BY <1>2, ThreadPoolAssumption DEF Known, Fifo
<1>4. ASSUME NEW j \in Jobs PROVE Progress(j) \notin {"accepted", "running"}
  <2>1. exec[j] \notin {"running", "notifying"}
    <3>1. \A w \in Workers : Elems(stack[w]) = {}
      BY <1>2, EmptySeq DEF Elems
    <3> QED BY <3>1 DEF Known, Balance, Places, InPlace
  <2>2. ASSUME exec[j] = "queued" PROVE j \in late
    <3>1. Cardinality(Q!Positions(items, j)) # 0
      BY <2>2 DEF Known, Balance, Places, InPlace, Queued
    <3>2. PICK k \in 1..Len(items) : items[k] = j
      BY <3>1, FS_EmptySet DEF Q!Positions
    <3> QED BY <1>3, <3>2, ThreadPoolAssumption DEF OnlyLate
  <2> QED BY <2>1, <2>2 DEF Progress
<1>5. \A j \in Jobs : Progress(j)' = Progress(j)
  BY <1>1 DEF Progress
<1>6. Openness = "closing" /\ Openness' = "gone"
  BY <1>1 DEF Openness
<1> QED BY <1>4, <1>5, <1>6 DEF Promise!Next, Promise!Close

LEMMA BeginStopCloses == ASSUME BeginStop PROVE Promise!Next
<1>1. phase = "open" /\ phase' = "stopping" /\ UNCHANGED <<exec, late>>
  BY DEF BeginStop, threadVars
<1>2. \A j \in Jobs : Progress(j)' = Progress(j)
  BY <1>1 DEF Progress
<1>3. Openness = "open" /\ Openness' = "closing"
  BY <1>1 DEF Openness
<1> QED BY <1>2, <1>3 DEF Promise!Next, Promise!StartClosing

LEMMA PromiseStep == Known /\ [Next]_poolVars => [Promise!Next]_(Promise!jobPoolVars)
<1> SUFFICES ASSUME Known, [Next]_poolVars PROVE [Promise!Next]_(Promise!jobPoolVars)
  OBVIOUS
<1> USE DEF Known, Balance
<1>1. ASSUME NEW w \in Workers, StartWorker(w) PROVE UNCHANGED Promise!jobPoolVars
  <2>1. UNCHANGED <<phase, late>>
    BY <1>1 DEF StartWorker, ownVars
  <2> QED BY <1>1, <2>1, JobsStay, PromiseStutters DEF Progress, Openness
<1>2. ASSUME NEW w \in Workers, RegisterWorker(w) PROVE UNCHANGED Promise!jobPoolVars
  <2>1. late' = late /\ phase = "starting" /\ phase' \in {"starting", "open"}
    BY <1>2 DEF RegisterWorker, T!Register, Launching
  <2> QED BY <1>2, <2>1, JobsStay, PromiseStutters DEF Progress, Openness
<1>3. CASE PutSentinel
  <2>1. UNCHANGED <<late, exec>> /\ phase = "stopping" /\ phase' \in {"stopping", "joining"}
    BY <1>3 DEF PutSentinel, threadVars
  <2> QED BY <2>1, PromiseStutters DEF Progress, Openness
<1>4. ASSUME NEW w \in Workers, TakeSentinel(w) PROVE UNCHANGED Promise!jobPoolVars
  <2>1. UNCHANGED <<late, exec, phase>>
    BY <1>4 DEF TakeSentinel, threadVars
  <2> QED BY <2>1, PromiseStutters DEF Progress, Openness
<1>5. ASSUME NEW w \in Workers, JobReturns(w) PROVE UNCHANGED Promise!jobPoolVars
  <2>1. UNCHANGED <<late, phase>>
    BY <1>5, AsideStep
  <2>2. \A j \in Jobs : Progress(j)' = Progress(j)
    BY <1>5, <2>1, JobExec DEF Progress
  <2> QED BY <2>1, <2>2, PromiseStutters DEF Openness
<1>6. ASSUME NEW w \in Workers,
             \/ JoinWorker(w) \/ WorkerJoined(w) \/ EnterWorker(w) \/ Loop(w) \/ Yield(w)
             \/ Block(w) \/ YieldTimesOut(w) \/ WorkerExits(w) \/ Spurious(w)
             \/ UNCHANGED poolVars
      PROVE  UNCHANGED Promise!jobPoolVars
  BY <1>6, AsideStep, JobsStay, PromiseStutters DEF Progress, Openness
<1> QED BY <1>1, <1>2, <1>3, <1>4, <1>5, <1>6, SubmitAccepts, TakeRuns, ReleaseCompletes,
           DestroyCloses, BeginStopCloses, ThreadPoolAssumption DEF Next, OwnerStep, WorkerStep

(* Every job is run at most once, and the pool is not gone before each job  *)
(* it accepted while open has been run and has returned: every step of the  *)
(* pool is one JobPool allows (threadpool.c).                               *)
THEOREM PoolImplementsJobPool == Spec => Promise!SafeSpec
<1>1. Init => Promise!Init
  BY DEF Init, T!Init, Promise!Init, Progress, Openness
<1>2. Known /\ [Next]_poolVars => Known'
  BY IInvStep, BalanceStep, FifoStep DEF Known, Balance
<1>3. Init => Known
  BY InitIInv, InitBalance, InitFifo DEF Known
<1> QED BY <1>1, <1>2, <1>3, PromiseStep, PTL DEF Spec, Promise!SafeSpec
=============================================================================
