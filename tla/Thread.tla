------------------------------- MODULE Thread -------------------------------
(***************************************************************************)
(* The life of an iThread (thread.c): started on an operating-system       *)
(* thread of its own, or run as a pooled job by yield_ThreadPool           *)
(* (threadpool.c); its registration in runningThreads_; the references     *)
(* that keep the object alive; and a caller of join_Thread.                *)
(*                                                                         *)
(* Each thread object has one owner, who created it, hands it over once,   *)
(* may join it, and releases it.  One action is one region under           *)
(* d->mutex or the registry's mutex, or one step outside them.             *)
(***************************************************************************)
EXTENDS Naturals, TLAPS

CONSTANT Threads

VARIABLES state,        \* d->state
          exec,         \* how far the execution of the thread has come
          pooled,       \* handed to a pool, not to start_Thread: d->id stays 0
          starting,     \* start_Thread is between its two mutex regions
          registered,   \* the thread has an entry in runningThreads_
          refs,         \* d->object.refCount
          owner,        \* the owner holds its reference
          join          \* how far the owner's join_Thread has come

threadVars == <<state, exec, pooled, starting, registered, refs, owner, join>>

States == {"created", "running", "finished"}

(* none: not handed over.  queued: in a pool's queue.  born: the new       *)
(* thread has not yet referenced d.  stopping: past run().  notifying:     *)
(* state is finished, the audience is being told.  leaving: dereferenced.  *)
Execs == {"none", "queued", "born", "running", "stopping", "notifying",
          "leaving", "exited"}

Joins == {"none", "waiting", "osJoin", "joined"}

Init == /\ state = [t \in Threads |-> "created"]
        /\ exec = [t \in Threads |-> "none"]
        /\ pooled = [t \in Threads |-> FALSE]
        /\ starting = {}
        /\ registered = {}
        /\ refs = [t \in Threads |-> 1]
        /\ owner = [t \in Threads |-> TRUE]
        /\ join = [t \in Threads |-> "none"]

Alive(t) == refs[t] > 0

ref_Object(t) == refs' = [refs EXCEPT ![t] = @ + 1]
deref_Object(t) == refs' = [refs EXCEPT ![t] = @ - 1]

-----------------------------------------------------------------------------
(* start_Thread: the region under d->mutex, then the registration.         *)

StartThread(t) == /\ owner[t] /\ exec[t] = "none"
                  /\ state' = [state EXCEPT ![t] = "running"]
                  /\ exec' = [exec EXCEPT ![t] = "born"]
                  /\ starting' = starting \cup {t}
                  /\ UNCHANGED <<pooled, registered, refs, owner, join>>

Register(t) == /\ t \in starting
               /\ starting' = starting \ {t}
               /\ registered' = registered \cup {t}
               /\ ref_Object(t)
               /\ UNCHANGED <<state, exec, pooled, owner, join>>

-----------------------------------------------------------------------------
(* run_Threads_: reference d, run, deregister, finish_Thread_, dereference,*)
(* exit.  The new thread does not wait for the registration.               *)

Enter(t) == /\ exec[t] = "born"
            /\ exec' = [exec EXCEPT ![t] = "running"]
            /\ ref_Object(t)
            /\ UNCHANGED <<state, pooled, starting, registered, owner, join>>

\* Mutant: drops the registry's reference, be it registered yet or not.
DeregisterBlindly(t) == /\ exec[t] = "running" /\ ~pooled[t]
                        /\ exec' = [exec EXCEPT ![t] = "stopping"]
                        /\ registered' = registered \ {t}
                        /\ deref_Object(t)
                        /\ UNCHANGED <<state, pooled, starting, owner, join>>

Deregister(t) == /\ exec[t] = "running" /\ ~pooled[t]
                 /\ exec' = [exec EXCEPT ![t] = "stopping"]
                 /\ registered' = registered \ {t}
                 /\ IF t \in registered THEN deref_Object(t) ELSE UNCHANGED refs
                 /\ UNCHANGED <<state, pooled, starting, owner, join>>

Returned(t) == IF pooled[t] THEN exec[t] = "running" ELSE exec[t] = "stopping"

(* The region of finish_Thread_ under d->mutex.                            *)
Finish(t) == /\ Returned(t)
             /\ state' = [state EXCEPT ![t] = "finished"]
             /\ exec' = [exec EXCEPT ![t] = "notifying"]
             /\ join' = [join EXCEPT ![t] = IF @ = "waiting" THEN "osJoin" ELSE @]
             /\ UNCHANGED <<pooled, starting, registered, refs, owner>>

(* The audience has been notified: run_Threads_ drops its own reference,   *)
(* yield_ThreadPool the one that came with the job.                        *)
Leave(t) == /\ exec[t] = "notifying"
            /\ exec' = [exec EXCEPT ![t] = IF pooled[t] THEN "exited" ELSE "leaving"]
            /\ deref_Object(t)
            /\ UNCHANGED <<state, pooled, starting, registered, owner, join>>

Exit(t) == /\ exec[t] = "leaving"
           /\ exec' = [exec EXCEPT ![t] = "exited"]
           /\ UNCHANGED <<state, pooled, starting, registered, refs, owner, join>>

-----------------------------------------------------------------------------
(* The other way to run: run_ThreadPool puts the thread in the pool's      *)
(* queue, which references it, and a worker runs it in its own thread.     *)

run_ThreadPool(t) == /\ owner[t] /\ exec[t] = "none"
                     /\ exec' = [exec EXCEPT ![t] = "queued"]
                     /\ pooled' = [pooled EXCEPT ![t] = TRUE]
                     /\ ref_Object(t)
                     /\ UNCHANGED <<state, starting, registered, owner, join>>

RunJob(t) == /\ exec[t] = "queued"
             /\ state' = [state EXCEPT ![t] = "running"]
             /\ exec' = [exec EXCEPT ![t] = "running"]
             /\ UNCHANGED <<pooled, starting, registered, refs, owner, join>>

-----------------------------------------------------------------------------
(* The owner, once start_Thread or run_ThreadPool has returned.            *)

HandedOver(t) == owner[t] /\ exec[t] # "none" /\ t \notin starting

(* Also called by result_Thread, and so any number of times.               *)
join_Thread(t) == /\ HandedOver(t) /\ join[t] \in {"none", "joined"}
                  /\ join' = [join EXCEPT ![t] = IF state[t] = "running"
                                                 THEN "waiting" ELSE "osJoin"]
                  /\ UNCHANGED <<state, exec, pooled, starting, registered, refs, owner>>

(* finishedCond wakes the caller for no reason, and join_Thread does not   *)
(* look at the state again.                                                *)
SpuriousWakeup(t) == /\ join[t] = "waiting"
                     /\ join' = [join EXCEPT ![t] = "osJoin"]
                     /\ UNCHANGED <<state, exec, pooled, starting, registered, refs, owner>>

(* thrd_join returns when the operating-system thread has exited.  A       *)
(* pooled job has none (d->id is 0) and a thread that was joined before is *)
(* gone: the call is then assumed to fail at once, as pthread_join may.    *)
OsJoin(t) == /\ join[t] = "osJoin"
             /\ pooled[t] \/ exec[t] = "exited"
             /\ join' = [join EXCEPT ![t] = "joined"]
             /\ UNCHANGED <<state, exec, pooled, starting, registered, refs, owner>>

Release(t) == /\ HandedOver(t) /\ join[t] \in {"none", "joined"}
              /\ owner' = [owner EXCEPT ![t] = FALSE]
              /\ deref_Object(t)
              /\ UNCHANGED <<state, exec, pooled, starting, registered, join>>

-----------------------------------------------------------------------------

\* Steps that a running processor takes; the owner's calls are its own choice.
Runs(t) == \/ Register(t) \/ Enter(t) \/ Deregister(t) \/ Finish(t) \/ Leave(t)
           \/ Exit(t) \/ RunJob(t) \/ OsJoin(t)

Owner(t) == StartThread(t) \/ run_ThreadPool(t) \/ join_Thread(t) \/ Release(t)

Next == \E t \in Threads : Runs(t) \/ Owner(t) \/ SpuriousWakeup(t)

Fairness == \A t \in Threads : WF_threadVars(Runs(t))

Spec == Init /\ [][Next]_threadVars /\ Fairness

-----------------------------------------------------------------------------

\* The references the code holds on t, each by a name.
Held(t) ==
  LET one(b) == IF b THEN 1 ELSE 0
  IN  one(owner[t]) + one(t \in registered)
      + one(IF pooled[t] THEN exec[t] \in {"queued", "running", "notifying"}
                         ELSE exec[t] \in {"running", "stopping", "notifying"})

(* The values the state takes, and how state, exec, pooled and starting    *)
(* go together.                                                            *)
TypeOK ==
  /\ state \in [Threads -> States]
  /\ exec \in [Threads -> Execs]
  /\ pooled \in [Threads -> BOOLEAN]
  /\ starting \subseteq Threads
  /\ registered \subseteq Threads
  /\ refs \in [Threads -> Nat]
  /\ owner \in [Threads -> BOOLEAN]
  /\ join \in [Threads -> Joins]
  /\ \A t \in Threads :
       /\ exec[t] \in {"none", "queued"} <=> state[t] = "created"
       /\ exec[t] \in {"notifying", "leaving", "exited"} <=> state[t] = "finished"
       /\ exec[t] = "none" => ~pooled[t] /\ owner[t] /\ join[t] = "none"
       /\ exec[t] = "queued" => pooled[t]
       /\ pooled[t] => exec[t] \notin {"born", "stopping", "leaving"}
       /\ pooled[t] \/ exec[t] = "none" => t \notin starting /\ t \notin registered

(* The reference count of a thread is the number of references held on it: *)
(* its owner's, the registry's, and one for whoever executes it.           *)
RefsBalance == TypeOK /\ \A t \in Threads : refs[t] = Held(t)

(* No code touches a thread object that has been freed: not start_Thread   *)
(* when it registers it, not the new thread before it has referenced it,   *)
(* not join_Thread, not the worker.  deinit_Thread therefore never sees a  *)
(* running thread (its assertion).                                         *)
NeverFreedInUse ==
  \A t \in Threads :
    \/ exec[t] \notin {"leaving", "exited"}
    \/ t \in starting
    \/ join[t] \in {"waiting", "osJoin"}
    => Alive(t)

(* A caller of join_Thread gets out of it: the broadcast of finish_Thread_ *)
(* is not lost.                                                            *)
JoinReturns == \A t \in Threads : join[t] = "waiting" ~> join[t] = "joined"

-----------------------------------------------------------------------------
(* References balance and no freed thread is used, for any set of threads. *)
(* For the second it takes who keeps the object while the code that uses   *)
(* it has no reference: start_Thread's caller, then the registry.          *)

Kept(t) == /\ t \in starting => owner[t] /\ t \notin registered
           /\ exec[t] = "born" => t \in starting \/ t \in registered
           /\ join[t] \in {"waiting", "osJoin"} => owner[t]

IInv == RefsBalance /\ \A t \in Threads : Kept(t)

LEMMA InitIInv == Init => IInv
BY DEF Init, IInv, RefsBalance, TypeOK, Held, Kept, States, Execs, Joins

\* Also used where more than these steps refer to the threads (Future.tla).
LEMMA TypeStep == TypeOK /\ refs' \in [Threads -> Nat] /\ [Next]_threadVars => TypeOK'
<1> SUFFICES ASSUME TypeOK, refs' \in [Threads -> Nat], [Next]_threadVars PROVE TypeOK'
  OBVIOUS
<1> USE DEF TypeOK, States, Execs, Joins
<1>1. ASSUME NEW t \in Threads, StartThread(t) PROVE TypeOK'
  BY <1>1 DEF StartThread
<1>2. ASSUME NEW t \in Threads, Register(t) PROVE TypeOK'
  BY <1>2 DEF Register
<1>3. ASSUME NEW t \in Threads, Enter(t) PROVE TypeOK'
  BY <1>3 DEF Enter
<1>4. ASSUME NEW t \in Threads, Deregister(t) PROVE TypeOK'
  BY <1>4 DEF Deregister
<1>5. ASSUME NEW t \in Threads, Finish(t) PROVE TypeOK'
  BY <1>5 DEF Finish, Returned
<1>6. ASSUME NEW t \in Threads, Leave(t) PROVE TypeOK'
  BY <1>6 DEF Leave
<1>7. ASSUME NEW t \in Threads, Exit(t) PROVE TypeOK'
  BY <1>7 DEF Exit
<1>8. ASSUME NEW t \in Threads, run_ThreadPool(t) PROVE TypeOK'
  BY <1>8 DEF run_ThreadPool
<1>9. ASSUME NEW t \in Threads, RunJob(t) PROVE TypeOK'
  BY <1>9 DEF RunJob
<1>10. ASSUME NEW t \in Threads, join_Thread(t) PROVE TypeOK'
  BY <1>10 DEF join_Thread, HandedOver
<1>11. ASSUME NEW t \in Threads, SpuriousWakeup(t) \/ OsJoin(t) PROVE TypeOK'
  BY <1>11 DEF SpuriousWakeup, OsJoin
<1>12. ASSUME NEW t \in Threads, Release(t) PROVE TypeOK'
  BY <1>12 DEF Release, HandedOver
<1>13. CASE UNCHANGED threadVars
  BY <1>13 DEF threadVars
<1> QED BY <1>1, <1>2, <1>3, <1>4, <1>5, <1>6, <1>7, <1>8, <1>9, <1>10, <1>11, <1>12, <1>13
        DEF Next, Runs, Owner

\* Whoever drops a reference holds one.
LEMMA CountStep == IInv /\ [Next]_threadVars => refs' \in [Threads -> Nat]
<1> SUFFICES ASSUME IInv, [Next]_threadVars PROVE refs' \in [Threads -> Nat]
  OBVIOUS
<1> USE DEF IInv, RefsBalance, TypeOK
<1>1. \A t \in Threads : refs[t] = Held(t)
  OBVIOUS
<1>2. ASSUME NEW t \in Threads, Deregister(t) \/ Leave(t) \/ Release(t)
      PROVE  refs' \in [Threads -> Nat]
  BY <1>1, <1>2 DEF Deregister, Leave, Release, HandedOver, deref_Object, Held, Execs
<1>3. ASSUME NEW t \in Threads, Register(t) \/ Enter(t) \/ run_ThreadPool(t)
      PROVE  refs' \in [Threads -> Nat]
  BY <1>3 DEF Register, Enter, run_ThreadPool, ref_Object
<1>4. ASSUME NEW t \in Threads,
             \/ StartThread(t) \/ Finish(t) \/ Exit(t) \/ RunJob(t)
             \/ join_Thread(t) \/ SpuriousWakeup(t) \/ OsJoin(t)
      PROVE  refs' \in [Threads -> Nat]
  BY <1>4 DEF StartThread, Finish, Exit, RunJob, join_Thread, SpuriousWakeup, OsJoin
<1> QED BY <1>2, <1>3, <1>4 DEF Next, Runs, Owner, threadVars

LEMMA BalanceStep == IInv /\ [Next]_threadVars => \A u \in Threads : (refs[u] = Held(u) /\ Kept(u))'
<1> SUFFICES ASSUME IInv, [Next]_threadVars, NEW u \in Threads
             PROVE  (refs[u] = Held(u) /\ Kept(u))'
  OBVIOUS
<1> DEFINE Goal == (refs[u] = Held(u) /\ Kept(u))'
<1> USE DEF IInv, RefsBalance, TypeOK, States, Execs, Joins, Held, Kept
<1>1. ASSUME NEW t \in Threads, StartThread(t) PROVE Goal
  BY <1>1 DEF StartThread
<1>2. ASSUME NEW t \in Threads, Register(t) PROVE Goal
  BY <1>2 DEF Register, ref_Object
<1>3. ASSUME NEW t \in Threads, Enter(t) PROVE Goal
  BY <1>3 DEF Enter, ref_Object
<1>4. ASSUME NEW t \in Threads, Deregister(t) PROVE Goal
  BY <1>4 DEF Deregister, deref_Object
<1>5. ASSUME NEW t \in Threads, Finish(t) PROVE Goal
  BY <1>5 DEF Finish, Returned
<1>6. ASSUME NEW t \in Threads, Leave(t) PROVE Goal
  BY <1>6 DEF Leave, deref_Object
<1>7. ASSUME NEW t \in Threads, Exit(t) PROVE Goal
  BY <1>7 DEF Exit
<1>8. ASSUME NEW t \in Threads, run_ThreadPool(t) PROVE Goal
  BY <1>8 DEF run_ThreadPool, ref_Object
<1>9. ASSUME NEW t \in Threads, RunJob(t) PROVE Goal
  BY <1>9 DEF RunJob
<1>10. ASSUME NEW t \in Threads, join_Thread(t) PROVE Goal
  BY <1>10 DEF join_Thread, HandedOver
<1>11. ASSUME NEW t \in Threads, SpuriousWakeup(t) \/ OsJoin(t) PROVE Goal
  BY <1>11 DEF SpuriousWakeup, OsJoin
<1>12. ASSUME NEW t \in Threads, Release(t) PROVE Goal
  BY <1>12 DEF Release, HandedOver, deref_Object
<1>13. ASSUME UNCHANGED threadVars PROVE Goal
  BY <1>13 DEF threadVars
<1> QED BY <1>1, <1>2, <1>3, <1>4, <1>5, <1>6, <1>7, <1>8, <1>9, <1>10, <1>11, <1>12, <1>13
        DEF Next, Runs, Owner

LEMMA IInvStep == IInv /\ [Next]_threadVars => IInv'
BY TypeStep, CountStep, BalanceStep DEF IInv, RefsBalance

(* The reference count of a thread is the number of references held on it, *)
(* however start_Thread races the thread it started.                       *)
THEOREM ReferencesBalance == Spec => []RefsBalance
<1>1. IInv => RefsBalance
  BY DEF IInv
<1> QED BY <1>1, InitIInv, IInvStep, PTL DEF Spec

LEMMA IInvUse == IInv => NeverFreedInUse
BY DEF IInv, RefsBalance, NeverFreedInUse, TypeOK, Execs, Joins, Held, Kept, Alive

(* No code touches a thread object that has been freed.                    *)
THEOREM NoUseAfterFree == Spec => []NeverFreedInUse
BY IInvUse, InitIInv, IInvStep, PTL DEF Spec
=============================================================================
