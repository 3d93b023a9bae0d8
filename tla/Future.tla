------------------------------- MODULE Future -------------------------------
(***************************************************************************)
(* Futures (future.c): each waits for a set of threads and learns of their *)
(* completion as an observer of their `finished' audience.  Composed with  *)
(* the life of the threads in Thread.tla; finish_Thread_ first sets the    *)
(* state under the thread's mutex and only then, holding the audience's    *)
(* mutex, calls the observers one by one.                                  *)
(*                                                                         *)
(* One caller per future: it adds threads that have not been started, and  *)
(* calls wait_Future, nextResult_Future and at last releases the future.   *)
(* A region under a future's mutex is one action (a wait on d->ready ends  *)
(* it).  The audience mutex of a thread is held from BeginNotify to        *)
(* EndNotify; whoever needs it then waits.                                 *)
(***************************************************************************)
EXTENDS Naturals, FiniteSets, FiniteSetTheorems, TLAPS

CONSTANTS Futures, Threads

ASSUME FutureAssumption == IsFiniteSet(Threads)

VARIABLES state, exec, pooled, starting, registered, refs, owner, join,  \* Thread
          audience,  \* audience[t]: the futures observing t->finished
          locked,    \* the threads whose audience mutex the notifier holds
          toNotify,  \* toNotify[t]: the observers it has still to call
          threads,   \* threads[f]: d->threads of future f
          pending,   \* pending[f]: d->pendingCount
          blocked,   \* the futures whose caller is blocked on d->ready
          call,      \* call[f]: the function f's caller is inside of
          result,    \* result[f]: threads returned to f's caller, which keeps them
          added,     \* added[f]: the threads ever added to f
          heard      \* heard[f]: those whose notification has reached f

T == INSTANCE Thread

threadVars == <<state, exec, pooled, starting, registered, refs, owner, join>>
audienceVars == <<audience, locked, toNotify>>
futureVars == <<threads, pending, blocked, call, result, added, heard>>
vars == <<threadVars, audienceVars, futureVars>>

Calls == {"none", "wait", "next", "disconnect", "deinit", "unhook", "gone"}

Init == /\ T!Init
        /\ audience = [t \in Threads |-> {}]
        /\ locked = {}
        /\ toNotify = [t \in Threads |-> {}]
        /\ threads = [f \in Futures |-> {}]
        /\ pending = [f \in Futures |-> 0]
        /\ blocked = {}
        /\ call = [f \in Futures |-> "none"]
        /\ result = [f \in Futures |-> {}]
        /\ added = [f \in Futures |-> {}]
        /\ heard = [f \in Futures |-> {}]

\* References taken or dropped by this module; the rest of a thread stays.
Rereference(r) == /\ refs' = r
                  /\ UNCHANGED <<state, exec, pooled, starting, registered, owner, join>>

Go(f, c) == call' = [call EXCEPT ![f] = c]

-----------------------------------------------------------------------------
(* add_Future: the thread has not been started (future.h).                 *)

Add(f, t) == /\ call[f] = "none" /\ t \notin added[f]
             /\ owner[t] /\ exec[t] = "none"
             /\ pending' = [pending EXCEPT ![f] = @ + 1]
             /\ audience' = [audience EXCEPT ![t] = @ \cup {f}]
             /\ threads' = [threads EXCEPT ![f] = @ \cup {t}]
             /\ added' = [added EXCEPT ![f] = @ \cup {t}]
             /\ Rereference([refs EXCEPT ![t] = @ + 1])
             /\ UNCHANGED <<locked, toNotify, blocked, call, result, heard>>

(* Once added, the thread is given to a pool or started on its own.        *)
Launch(t) == /\ audience[t] # {}
             /\ T!run_ThreadPool(t)
             /\ UNCHANGED <<audienceVars, futureVars>>

-----------------------------------------------------------------------------
(* The thread: it runs, finishes and notifies its audience.                *)

RunThread(t) == /\ T!RunJob(t) \/ T!Finish(t)
                /\ UNCHANGED <<audienceVars, futureVars>>

BeginNotify(t) == /\ exec[t] = "notifying" /\ t \notin locked
                  /\ locked' = locked \cup {t}
                  /\ toNotify' = [toNotify EXCEPT ![t] = audience[t]]
                  /\ UNCHANGED <<audience, threadVars, futureVars>>

\* Mutant: the count goes down and nobody is woken.
CountsSilently(t, f) ==
  /\ t \in locked /\ f \in toNotify[t]
  /\ toNotify' = [toNotify EXCEPT ![t] = @ \ {f}]
  /\ pending' = [pending EXCEPT ![f] = @ - 1]
  /\ heard' = [heard EXCEPT ![f] = @ \cup {t}]
  /\ UNCHANGED <<audience, locked, threadVars, threads, blocked, call, result, added>>

(* threadFinished_Future_: count down and wake the future's caller.        *)
threadFinished_Future(t, f) ==
  /\ t \in locked /\ f \in toNotify[t]
  /\ toNotify' = [toNotify EXCEPT ![t] = @ \ {f}]
  /\ pending' = [pending EXCEPT ![f] = @ - 1]
  /\ blocked' = blocked \ {f}
  /\ heard' = [heard EXCEPT ![f] = @ \cup {t}]
  /\ UNCHANGED <<audience, locked, threadVars, threads, call, result, added>>

(* The audience's mutex is released, and then the worker's reference.      *)
EndNotify(t) == /\ t \in locked /\ toNotify[t] = {}
                /\ locked' = locked \ {t}
                /\ T!Leave(t)
                /\ UNCHANGED <<audience, toNotify, futureVars>>

-----------------------------------------------------------------------------
(* The future's caller.                                                    *)

Begin(f, c) == /\ call[f] = "none"
               /\ Go(f, c)
               /\ UNCHANGED <<threadVars, audienceVars, threads, pending, blocked,
                              result, added, heard>>

Block(f) == /\ blocked' = blocked \cup {f}
            /\ UNCHANGED <<threadVars, audienceVars, threads, pending, call,
                           result, added, heard>>

(* wait_Future, on its own or as the first step of deinit_Future.          *)
WaitBlocks(f) == /\ call[f] \in {"wait", "deinit"} /\ f \notin blocked
                 /\ pending[f] > 0
                 /\ Block(f)

\* Mutant: wait_Future waits once (an `if' for a loop).
WaitEndsEarly(f) == /\ call[f] \in {"wait", "deinit"} /\ f \notin blocked
                    /\ pending[f] = 0 \/ heard[f] # {}
                    /\ Go(f, IF call[f] = "wait" THEN "none" ELSE "unhook")
                    /\ UNCHANGED <<threadVars, audienceVars, threads, pending, blocked,
                                   result, added, heard>>

WaitEnds(f) == /\ call[f] \in {"wait", "deinit"} /\ f \notin blocked
               /\ pending[f] = 0
               /\ Go(f, IF call[f] = "wait" THEN "none" ELSE "unhook")
               /\ UNCHANGED <<threadVars, audienceVars, threads, pending, blocked,
                              result, added, heard>>

FinishedIn(f) == {t \in threads[f] : state[t] = "finished"}

(* nextResult_Future: a thread of the list that isFinished_Thread is       *)
(* referenced, removed from the list and, without the mutex, disconnected. *)
NextFinds(f) == /\ call[f] = "next" /\ f \notin blocked
                /\ \E t \in FinishedIn(f) :
                     /\ threads' = [threads EXCEPT ![f] = @ \ {t}]
                     /\ result' = [result EXCEPT ![f] = @ \cup {t}]
                /\ Go(f, "disconnect")
                /\ UNCHANGED <<threadVars, audienceVars, pending, blocked, added, heard>>

\* Mutant: wait before looking.
BlocksFirst(f) == /\ call[f] = "next" /\ f \notin blocked
                  /\ threads[f] # {}
                  /\ Block(f)

NextBlocks(f) == /\ call[f] = "next" /\ f \notin blocked
                 /\ threads[f] # {} /\ FinishedIn(f) = {}
                 /\ Block(f)

NextIsNull(f) == /\ call[f] = "next" /\ f \notin blocked
                 /\ threads[f] = {}
                 /\ Go(f, "none")
                 /\ UNCHANGED <<threadVars, audienceVars, threads, pending, blocked,
                                result, added, heard>>

\* The thread just taken out of the list.
Taken(f) == {t \in result[f] : f \in audience[t]}

\* Mutant: the disconnected thread is no longer counted, heard of or not.
DisconnectUncounts(f) ==
  /\ call[f] = "disconnect"
  /\ Taken(f) \cap locked = {}
  /\ audience' = [t \in Threads |-> audience[t] \ IF t \in Taken(f) THEN {f} ELSE {}]
  /\ pending' = [pending EXCEPT ![f] = IF @ > 0 THEN @ - 1 ELSE @]
  /\ Go(f, "none")
  /\ UNCHANGED <<threadVars, locked, toNotify, threads, blocked, result, added, heard>>

Disconnect(f) == /\ call[f] = "disconnect"
                 /\ Taken(f) \cap locked = {}
                 /\ audience' = [t \in Threads |-> IF t \in Taken(f) THEN audience[t] \ {f}
                                                                     ELSE audience[t]]
                 /\ Go(f, "none")
                 /\ UNCHANGED <<threadVars, locked, toNotify, threads, pending,
                                blocked, result, added, heard>>

(* deinit_Future: past its wait, disconnect from the remaining threads one *)
(* by one, then release the list.                                          *)
Unhook(f) == /\ call[f] = "unhook"
             /\ \E t \in threads[f] \ locked :
                  /\ f \in audience[t]
                  /\ audience' = [audience EXCEPT ![t] = @ \ {f}]
             /\ UNCHANGED <<threadVars, locked, toNotify, futureVars>>

\* Mutant: the list is released and the observers stay connected.
FreeHooked(f) == /\ call[f] = "unhook"
                 /\ Rereference([t \in Threads |-> IF t \in threads[f] THEN refs[t] - 1
                                                                       ELSE refs[t]])
                 /\ threads' = [threads EXCEPT ![f] = {}]
                 /\ Go(f, "gone")
                 /\ UNCHANGED <<audienceVars, pending, blocked, result, added, heard>>

Free(f) == /\ call[f] = "unhook"
           /\ \A t \in threads[f] : f \notin audience[t]
           /\ Rereference([t \in Threads |-> IF t \in threads[f] THEN refs[t] - 1
                                                                 ELSE refs[t]])
           /\ threads' = [threads EXCEPT ![f] = {}]
           /\ Go(f, "gone")
           /\ UNCHANGED <<audienceVars, pending, blocked, result, added, heard>>

SpuriousWakeup(f) == /\ f \in blocked
                     /\ blocked' = blocked \ {f}
                     /\ UNCHANGED <<threadVars, audienceVars, threads, pending, call,
                                    result, added, heard>>

-----------------------------------------------------------------------------

ThreadStep(t) == \/ RunThread(t)
                 \/ BeginNotify(t)
                 \/ \E f \in Futures : threadFinished_Future(t, f)
                 \/ EndNotify(t)

CallerStep(f) == \/ WaitBlocks(f) \/ WaitEnds(f)
                 \/ NextFinds(f) \/ NextBlocks(f) \/ NextIsNull(f)
                 \/ Disconnect(f) \/ Unhook(f) \/ Free(f)

Next == \/ \E f \in Futures : \/ \E t \in Threads : Add(f, t)
                              \/ \E c \in {"wait", "next", "deinit"} : Begin(f, c)
                              \/ CallerStep(f)
                              \/ SpuriousWakeup(f)
        \/ \E t \in Threads : Launch(t) \/ ThreadStep(t)

(* Threads and callers that can run do.  Weak fairness is enough: a mutex  *)
(* that a caller waits for is taken at most once by the thread's notifier. *)
Spec == /\ Init
        /\ [][Next]_vars
        /\ \A t \in Threads : WF_vars(ThreadStep(t))
        /\ \A f \in Futures : WF_vars(CallerStep(f))

-----------------------------------------------------------------------------

\* The notifications that f counts on and that no one will send any more.
Lost(f) == {t \in added[f] \ heard[f] : f \notin audience[t] \cup toNotify[t]}

(* The values the state takes; the audience's mutex is held only while the *)
(* thread is notifying, and only then are observers left to call.          *)
TypeOK ==
  /\ T!TypeOK
  /\ audience \in [Threads -> SUBSET Futures]
  /\ toNotify \in [Threads -> SUBSET Futures]
  /\ locked \subseteq Threads
  /\ threads \in [Futures -> SUBSET Threads]
  /\ pending \in [Futures -> Nat]
  /\ blocked \subseteq Futures
  /\ call \in [Futures -> Calls]
  /\ result \in [Futures -> SUBSET Threads]
  /\ added \in [Futures -> SUBSET Threads]
  /\ heard \in [Futures -> SUBSET Threads]
  /\ \A t \in Threads : /\ toNotify[t] # {} => t \in locked
                        /\ t \in locked => exec[t] = "notifying"

(* pendingCount is the number of added threads whose notification has not  *)
(* arrived, and only finished threads notify.                              *)
PendingBalance ==
  TypeOK /\ \A f \in Futures : /\ pending[f] = Cardinality(added[f] \ heard[f])
                     /\ \A t \in heard[f] : state[t] = "finished"

(* A future that counts nothing pending (isReady_Future) has only finished *)
(* threads, and so has one whose wait has ended in deinit_Future.          *)
ReadyMeansFinished ==
  \A f \in Futures : pending[f] = 0 \/ call[f] \in {"unhook", "gone"} =>
    \A t \in added[f] : state[t] = "finished"

(* No thread holds a future that has been freed among its observers, nor   *)
(* is about to call one.                                                   *)
NoDanglingObserver ==
  \A t \in Threads : \A f \in audience[t] \cup toNotify[t] : call[f] # "gone"

(* nextResult_Future returns if one of its threads runs: no wake-up is     *)
(* lost between the scan and the wait.                                     *)
NextReturns ==
  \A f \in Futures :
    call[f] = "next" /\ (\E t \in threads[f] : exec[t] # "none") ~> call[f] # "next"

(* wait_Future and deinit_Future return once all threads have been         *)
(* started, unless nextResult_Future has cut off a notification.           *)
WaitReturnsUnlessLost ==
  \A f \in Futures :
    call[f] \in {"wait", "deinit"} /\ (\A t \in added[f] : exec[t] # "none")
      ~> call[f] \in {"none", "gone"} \/ Lost(f) # {}

(* A future can be released once all its results are out, as the program   *)
(* t_threading.c does.                                                     *)
ReleaseCompletes ==
  \A f \in Futures :
    call[f] = "deinit" /\ (\A t \in added[f] : exec[t] # "none") ~> call[f] = "gone"

-----------------------------------------------------------------------------
(* ReadyMeansFinished and NoDanglingObserver hold for any futures and any  *)
(* finite set of threads.  They rest on the count: a notification is sent  *)
(* once and only to a future that counts on it, and a future goes only     *)
(* when it counts on none and has disconnected from the threads it lists.  *)

Types == /\ exec \in [Threads -> T!Execs]
         /\ state \in [Threads -> T!States]
         /\ audience \in [Threads -> SUBSET Futures]
         /\ toNotify \in [Threads -> SUBSET Futures]
         /\ locked \subseteq Threads
         /\ pending \in [Futures -> Nat]
         /\ call \in [Futures -> Calls]
         /\ threads \in [Futures -> SUBSET Threads]
         /\ result \in [Futures -> SUBSET Threads]
         /\ added \in [Futures -> SUBSET Threads]
         /\ heard \in [Futures -> SUBSET Threads]

Ended(t) == exec[t] \in {"notifying", "leaving", "exited"}

Finishing(t) == /\ Ended(t) => state[t] = "finished"
                /\ t \in locked => exec[t] = "notifying"

\* How future f and thread t are connected.
Link(f, t) ==
  /\ f \in toNotify[t] => t \in locked /\ t \in added[f] \ heard[f]
  /\ f \in audience[t] => \/ t \in threads[f]
                          \/ call[f] = "disconnect" /\ t \in result[f]
  /\ t \in threads[f] \cup result[f] \cup heard[f] => t \in added[f]
  /\ t \in heard[f] => Ended(t) /\ (exec[t] = "notifying" => t \in locked)

Count(f) == pending[f] = Cardinality(added[f] \ heard[f])

Going(f) == call[f] \in {"unhook", "gone"} => /\ added[f] \subseteq heard[f]
                                              /\ call[f] = "gone" => threads[f] = {}

IInv == /\ Types
        /\ \A t \in Threads : Finishing(t)
        /\ \A f \in Futures : Count(f) /\ Going(f) /\ \A t \in Threads : Link(f, t)

LEMMA InitIInv == Init => IInv
<1> SUFFICES ASSUME Init PROVE IInv
  OBVIOUS
<1>1. Cardinality({}) = 0 /\ {} \ {} = {}
  BY FS_EmptySet
<1> QED BY <1>1 DEF Init, T!Init, IInv, Types, Finishing, Ended, Link, Count, Going, T!Execs, T!States, Calls

LEMMA CountIsFinite == ASSUME IInv, NEW f \in Futures
                       PROVE  /\ IsFiniteSet(added[f] \ heard[f])
                              /\ pending[f] = 0 <=> added[f] \subseteq heard[f]
<1>1. IsFiniteSet(added[f] \ heard[f])
  BY FutureAssumption, FS_Subset DEF IInv, Types
<1>2. Cardinality(added[f] \ heard[f]) = 0 <=> added[f] \ heard[f] = {}
  BY <1>1, FS_EmptySet
<1> QED BY <1>1, <1>2 DEF IInv, Count

LEMMA AddKeeps == ASSUME IInv, NEW f \in Futures, NEW t \in Threads, Add(f, t) PROVE IInv'
<1>a. IsFiniteSet(added[f] \ heard[f])
  BY CountIsFinite
<1> USE DEF IInv, Types, Finishing, Ended, Link, Going, Calls
<1>1. Count(f)'
  <2>1. added'[f] \ heard'[f] = (added[f] \ heard[f]) \cup {t} /\ t \notin added[f] \ heard[f]
    BY DEF Add
  <2>2. Cardinality((added[f] \ heard[f]) \cup {t}) = Cardinality(added[f] \ heard[f]) + 1
    BY <1>a, <2>1, FS_AddElement
  <2>3. pending'[f] = pending[f] + 1
    BY DEF Add
  <2> QED BY <2>1, <2>2, <2>3 DEF Count
<1>2. ASSUME NEW g \in Futures PROVE Count(g)'
  <2>1. CASE g # f
    BY <2>1 DEF Add, Count
  <2> QED BY <1>1, <2>1
<1>3. Types'
  BY DEF Add, Rereference
<1>4. ASSUME NEW u \in Threads PROVE Finishing(u)'
  BY DEF Add, Rereference
<1>5. ASSUME NEW g \in Futures, NEW u \in Threads PROVE Link(g, u)'
  BY DEF Add, Rereference
<1>6. ASSUME NEW g \in Futures PROVE Going(g)'
  BY DEF Add
<1> QED BY <1>2, <1>3, <1>4, <1>5, <1>6

LEMMA NotificationKeeps ==
  ASSUME IInv, NEW f \in Futures, NEW t \in Threads, threadFinished_Future(t, f) PROVE IInv'
<1>0. t \in added[f] \ heard[f]
  BY DEF threadFinished_Future, IInv, Link
<1>a. IsFiniteSet(added[f] \ heard[f])
  BY CountIsFinite
<1>b. pending[f] # 0
  BY <1>0, CountIsFinite
<1> USE DEF IInv, Types, Finishing, Ended, Link, Going, Calls
<1>1. Count(f)' /\ pending[f] - 1 \in Nat
  <2>1. added'[f] \ heard'[f] = (added[f] \ heard[f]) \ {t}
    BY DEF threadFinished_Future
  <2>2. Cardinality((added[f] \ heard[f]) \ {t}) = Cardinality(added[f] \ heard[f]) - 1
    <3>1. \A S : IsFiniteSet(S) /\ t \in S => Cardinality(S \ {t}) = Cardinality(S) - 1
      BY FS_RemoveElement
    <3> QED BY <1>0, <1>a, <3>1
  <2>3. pending'[f] = pending[f] - 1 /\ pending[f] - 1 \in Nat
    <3>1. pending' = [pending EXCEPT ![f] = @ - 1]
      BY DEF threadFinished_Future
    <3>2. pending'[f] = pending[f] - 1
      BY <3>1
    <3>3. \A n \in Nat : n # 0 => n - 1 \in Nat
      OBVIOUS
    <3> QED BY <1>b, <3>2, <3>3
  <2> QED BY <2>1, <2>2, <2>3 DEF Count
<1>2. ASSUME NEW g \in Futures PROVE Count(g)'
  <2>1. CASE g # f
    BY <2>1 DEF threadFinished_Future, Count
  <2> QED BY <1>1, <2>1
<1>3. Types'
  BY <1>1 DEF threadFinished_Future, threadVars
<1>4. ASSUME NEW u \in Threads PROVE Finishing(u)'
  BY DEF threadFinished_Future, threadVars
<1>5. ASSUME NEW g \in Futures, NEW u \in Threads PROVE Link(g, u)'
  BY <1>0 DEF threadFinished_Future, threadVars
<1>6. ASSUME NEW g \in Futures PROVE Going(g)'
  BY DEF threadFinished_Future, threadVars
<1> QED BY <1>2, <1>3, <1>4, <1>5, <1>6

LEMMA ThreadKeeps == ASSUME IInv, NEW t \in Threads,
                            Launch(t) \/ RunThread(t) \/ BeginNotify(t) \/ EndNotify(t)
                     PROVE  IInv'
<1>t. Types
  BY DEF IInv
<1>h. \A u \in Threads : Finishing(u)
  BY DEF IInv
<1>c. \A g \in Futures : Count(g) /\ Going(g)
  BY DEF IInv
<1>l. \A g \in Futures, u \in Threads : Link(g, u)
  BY DEF IInv
<1> USE DEF Types, Finishing, Ended, T!Execs, T!States, audienceVars, futureVars, threadVars
<1>1. CASE Launch(t)
  <2>1. Types'
    BY <1>1, <1>t DEF Launch, T!run_ThreadPool
  <2>2. ASSUME NEW u \in Threads PROVE Finishing(u)'
    BY <1>1, <1>t, <1>h DEF Launch, T!run_ThreadPool
  <2>3. ASSUME NEW g \in Futures PROVE Count(g)' /\ Going(g)'
    BY <1>1, <1>t, <1>c DEF Launch, T!run_ThreadPool, Count, Going
  <2>4. ASSUME NEW g \in Futures, NEW u \in Threads PROVE Link(g, u)'
    <3>1. Link(g, u)
      BY <1>l
    <3> QED BY <1>1, <1>t, <1>h, <3>1 DEF Launch, T!run_ThreadPool, Link
  <2> QED BY <2>1, <2>2, <2>3, <2>4 DEF IInv
<1>2. CASE T!RunJob(t) /\ UNCHANGED <<audienceVars, futureVars>>
  <2>1. Types'
    BY <1>2, <1>t DEF T!RunJob
  <2>2. ASSUME NEW u \in Threads PROVE Finishing(u)'
    BY <1>2, <1>t, <1>h DEF T!RunJob
  <2>3. ASSUME NEW g \in Futures PROVE Count(g)' /\ Going(g)'
    BY <1>2, <1>t, <1>c DEF T!RunJob, Count, Going
  <2>4. ASSUME NEW g \in Futures, NEW u \in Threads PROVE Link(g, u)'
    <3>1. Link(g, u)
      BY <1>l
    <3> QED BY <1>2, <1>t, <1>h, <3>1 DEF T!RunJob, Link
  <2> QED BY <2>1, <2>2, <2>3, <2>4 DEF IInv
<1>3. CASE T!Finish(t) /\ UNCHANGED <<audienceVars, futureVars>>
  <2>1. Types'
    BY <1>3, <1>t DEF T!Finish, T!Returned
  <2>2. ASSUME NEW u \in Threads PROVE Finishing(u)'
    BY <1>3, <1>t, <1>h DEF T!Finish, T!Returned
  <2>3. ASSUME NEW g \in Futures PROVE Count(g)' /\ Going(g)'
    BY <1>3, <1>t, <1>c DEF T!Finish, T!Returned, Count, Going
  <2>4. ASSUME NEW g \in Futures, NEW u \in Threads PROVE Link(g, u)'
    <3>1. Link(g, u)
      BY <1>l
    <3> QED BY <1>3, <1>t, <1>h, <3>1 DEF T!Finish, T!Returned, Link
  <2> QED BY <2>1, <2>2, <2>3, <2>4 DEF IInv
<1>4. CASE BeginNotify(t)
  <2>1. Types'
    BY <1>4, <1>t DEF BeginNotify
  <2>2. ASSUME NEW u \in Threads PROVE Finishing(u)'
    BY <1>4, <1>t, <1>h DEF BeginNotify
  <2>3. ASSUME NEW g \in Futures PROVE Count(g)' /\ Going(g)'
    BY <1>4, <1>t, <1>c DEF BeginNotify, Count, Going
  <2>4. ASSUME NEW g \in Futures, NEW u \in Threads PROVE Link(g, u)'
    <3>1. Link(g, u)
      BY <1>l
    <3> QED BY <1>4, <1>t, <1>h, <3>1 DEF BeginNotify, Link
  <2> QED BY <2>1, <2>2, <2>3, <2>4 DEF IInv
<1>5. CASE EndNotify(t)
  <2>1. Types'
    BY <1>5, <1>t DEF EndNotify, T!Leave
  <2>2. ASSUME NEW u \in Threads PROVE Finishing(u)'
    BY <1>5, <1>t, <1>h DEF EndNotify, T!Leave
  <2>3. ASSUME NEW g \in Futures PROVE Count(g)' /\ Going(g)'
    BY <1>5, <1>t, <1>c DEF EndNotify, T!Leave, Count, Going
  <2>4. ASSUME NEW g \in Futures, NEW u \in Threads PROVE Link(g, u)'
    <3>1. Link(g, u)
      BY <1>l
    <3> QED BY <1>5, <1>t, <1>h, <3>1 DEF EndNotify, T!Leave, Link
  <2> QED BY <2>1, <2>2, <2>3, <2>4 DEF IInv
<1> QED BY <1>1, <1>2, <1>3, <1>4, <1>5 DEF RunThread

LEMMA CallerKeeps == ASSUME IInv, NEW f \in Futures,
                            (\E c \in {"wait", "next", "deinit"} : Begin(f, c))
                              \/ CallerStep(f) \/ SpuriousWakeup(f)
                     PROVE  IInv'
<1>a. pending[f] = 0 => added[f] \subseteq heard[f]
  BY CountIsFinite
<1>t. Types
  BY DEF IInv
<1>h. \A u \in Threads : Finishing(u)
  BY DEF IInv
<1>c. \A g \in Futures : Count(g) /\ Going(g)
  BY DEF IInv
<1>l. \A g \in Futures, u \in Threads : Link(g, u)
  BY DEF IInv
<1> USE DEF Types, Finishing, Ended, Calls, Go, audienceVars, futureVars, threadVars
<1>1. ASSUME NEW c \in {"wait", "next", "deinit"}, Begin(f, c) PROVE IInv'
  <2>1. Types'
    BY <1>1, <1>t DEF Begin
  <2>2. ASSUME NEW u \in Threads PROVE Finishing(u)'
    BY <1>1, <1>t, <1>h DEF Begin
  <2>3. ASSUME NEW g \in Futures PROVE Count(g)' /\ Going(g)'
    BY <1>1, <1>t, <1>c DEF Begin, Count, Going
  <2>4. ASSUME NEW g \in Futures, NEW u \in Threads PROVE Link(g, u)'
    <3>1. Link(g, u)
      BY <1>l
    <3> QED BY <1>1, <1>t, <1>h, <3>1 DEF Begin, Link
  <2> QED BY <2>1, <2>2, <2>3, <2>4 DEF IInv
<1>2. CASE WaitBlocks(f) \/ NextBlocks(f) \/ SpuriousWakeup(f)
  <2>1. Types'
    BY <1>2, <1>t DEF WaitBlocks, NextBlocks, Block, SpuriousWakeup
  <2>2. ASSUME NEW u \in Threads PROVE Finishing(u)'
    BY <1>2, <1>t, <1>h DEF WaitBlocks, NextBlocks, Block, SpuriousWakeup
  <2>3. ASSUME NEW g \in Futures PROVE Count(g)' /\ Going(g)'
    BY <1>2, <1>t, <1>c DEF WaitBlocks, NextBlocks, Block, SpuriousWakeup, Count, Going
  <2>4. ASSUME NEW g \in Futures, NEW u \in Threads PROVE Link(g, u)'
    <3>1. Link(g, u)
      BY <1>l
    <3> QED BY <1>2, <1>t, <1>h, <3>1 DEF WaitBlocks, NextBlocks, Block, SpuriousWakeup, Link
  <2> QED BY <2>1, <2>2, <2>3, <2>4 DEF IInv
<1>3. CASE WaitEnds(f)
  <2>1. Types'
    BY <1>3, <1>a, <1>t DEF WaitEnds
  <2>2. ASSUME NEW u \in Threads PROVE Finishing(u)'
    BY <1>3, <1>a, <1>t, <1>h DEF WaitEnds
  <2>3. ASSUME NEW g \in Futures PROVE Count(g)' /\ Going(g)'
    BY <1>3, <1>a, <1>t, <1>c DEF WaitEnds, Count, Going
  <2>4. ASSUME NEW g \in Futures, NEW u \in Threads PROVE Link(g, u)'
    <3>1. Link(g, u)
      BY <1>l
    <3> QED BY <1>3, <1>a, <1>t, <1>h, <3>1 DEF WaitEnds, Link
  <2> QED BY <2>1, <2>2, <2>3, <2>4 DEF IInv
<1>4. CASE NextFinds(f)
  <2>1. Types'
    BY <1>4, <1>t DEF NextFinds, FinishedIn
  <2>2. ASSUME NEW u \in Threads PROVE Finishing(u)'
    BY <1>4, <1>t, <1>h DEF NextFinds, FinishedIn
  <2>3. ASSUME NEW g \in Futures PROVE Count(g)' /\ Going(g)'
    <3>1. Count(g) /\ Going(g)
      BY <1>c
    <3>2. Count(g)'
      BY <1>4, <3>1 DEF NextFinds, Count
    <3>3. call'[g] \in {"unhook", "gone"} => g # f /\ call[g] = call'[g]
      BY <1>4, <1>t DEF NextFinds
    <3>4. g # f => threads'[g] = threads[g]
      BY <1>4, <1>t DEF NextFinds
    <3> QED BY <1>4, <3>1, <3>2, <3>3, <3>4 DEF NextFinds, Going
  <2>4. ASSUME NEW g \in Futures, NEW u \in Threads PROVE Link(g, u)'
    <3>1. Link(g, u)
      BY <1>l
    <3> QED BY <1>4, <1>t, <1>h, <3>1 DEF NextFinds, FinishedIn, Link
  <2> QED BY <2>1, <2>2, <2>3, <2>4 DEF IInv
<1>5. CASE NextIsNull(f)
  <2>1. Types'
    BY <1>5, <1>t DEF NextIsNull
  <2>2. ASSUME NEW u \in Threads PROVE Finishing(u)'
    BY <1>5, <1>t, <1>h DEF NextIsNull
  <2>3. ASSUME NEW g \in Futures PROVE Count(g)' /\ Going(g)'
    BY <1>5, <1>t, <1>c DEF NextIsNull, Count, Going
  <2>4. ASSUME NEW g \in Futures, NEW u \in Threads PROVE Link(g, u)'
    <3>1. Link(g, u)
      BY <1>l
    <3> QED BY <1>5, <1>t, <1>h, <3>1 DEF NextIsNull, Link
  <2> QED BY <2>1, <2>2, <2>3, <2>4 DEF IInv
<1>6. CASE Disconnect(f)
  <2>1. Types'
    BY <1>6, <1>t DEF Disconnect, Taken
  <2>2. ASSUME NEW u \in Threads PROVE Finishing(u)'
    BY <1>6, <1>t, <1>h DEF Disconnect, Taken
  <2>3. ASSUME NEW g \in Futures PROVE Count(g)' /\ Going(g)'
    BY <1>6, <1>t, <1>c DEF Disconnect, Taken, Count, Going
  <2>4. ASSUME NEW g \in Futures, NEW u \in Threads PROVE Link(g, u)'
    <3>1. Link(g, u)
      BY <1>l
    <3> QED BY <1>6, <1>t, <1>h, <3>1 DEF Disconnect, Taken, Link
  <2> QED BY <2>1, <2>2, <2>3, <2>4 DEF IInv
<1>7. CASE Unhook(f)
  <2>1. Types'
    BY <1>7, <1>t DEF Unhook
  <2>2. ASSUME NEW u \in Threads PROVE Finishing(u)'
    BY <1>7, <1>t, <1>h DEF Unhook
  <2>3. ASSUME NEW g \in Futures PROVE Count(g)' /\ Going(g)'
    BY <1>7, <1>t, <1>c DEF Unhook, Count, Going
  <2>4. ASSUME NEW g \in Futures, NEW u \in Threads PROVE Link(g, u)'
    <3>1. Link(g, u)
      BY <1>l
    <3> QED BY <1>7, <1>t, <1>h, <3>1 DEF Unhook, Link
  <2> QED BY <2>1, <2>2, <2>3, <2>4 DEF IInv
<1>8. CASE Free(f)
  <2>1. Types'
    BY <1>8, <1>t DEF Free, Rereference
  <2>2. ASSUME NEW u \in Threads PROVE Finishing(u)'
    BY <1>8, <1>t, <1>h DEF Free, Rereference
  <2>3. ASSUME NEW g \in Futures PROVE Count(g)' /\ Going(g)'
    BY <1>8, <1>t, <1>c DEF Free, Rereference, Count, Going
  <2>4. ASSUME NEW g \in Futures, NEW u \in Threads PROVE Link(g, u)'
    <3>1. Link(g, u)
      BY <1>l
    <3> QED BY <1>8, <1>t, <1>h, <3>1 DEF Free, Rereference, Link
  <2> QED BY <2>1, <2>2, <2>3, <2>4 DEF IInv
<1> QED BY <1>1, <1>2, <1>3, <1>4, <1>5, <1>6, <1>7, <1>8 DEF CallerStep

LEMMA IInvStep == IInv /\ [Next]_vars => IInv'
<1> SUFFICES ASSUME IInv, [Next]_vars PROVE IInv'
  OBVIOUS
<1>1. CASE Next
  BY <1>1, AddKeeps, NotificationKeeps, ThreadKeeps, CallerKeeps DEF Next, ThreadStep
<1>2. CASE UNCHANGED vars
  BY <1>2 DEF vars, IInv, Types, Finishing, Ended, Link, Count, Going, audienceVars, futureVars, threadVars
<1> QED BY <1>1, <1>2

-----------------------------------------------------------------------------
(* PendingBalance adds the types of all variables, the references of the   *)
(* threads among them: they stay numbers because a future refers to each   *)
(* thread it lists and to each it has returned, once.                      *)

Holding(t) == {f \in Futures : t \in threads[f] \cup result[f]}

Referenced(t) == /\ IsFiniteSet(Holding(t))
                 /\ refs[t] = T!Held(t) + Cardinality(Holding(t))

Balance == /\ TypeOK
           /\ \A f \in Futures : threads[f] \cap result[f] = {}
           /\ \A t \in Threads : Referenced(t)

LEMMA InitBalance == Init => Balance
<1> SUFFICES ASSUME Init PROVE Balance
  OBVIOUS
<1>1. TypeOK /\ \A f \in Futures : threads[f] \cap result[f] = {}
  BY DEF Init, T!Init, TypeOK, T!TypeOK, T!States, T!Execs, T!Joins, Calls
<1>2. ASSUME NEW t \in Threads PROVE Referenced(t)
  <2>1. Holding(t) = {}
    BY DEF Init, Holding
  <2>2. refs[t] = 1 /\ T!Held(t) = 1
    BY DEF Init, T!Init, T!Held
  <2> QED BY <2>1, <2>2, FS_EmptySet DEF Referenced
<1> QED BY <1>1, <1>2 DEF Balance

\* The references that Thread.tla names.
LEMMA HeldIsNat == \A t \in Threads : T!Held(t) \in Nat /\ T!Held(t)' \in Nat
BY DEF T!Held

\* A step of a thread changes its references and what it is known to hold alike.
LEMMA ThreadBalances ==
  ASSUME Balance, NEW t \in Threads,
         T!run_ThreadPool(t) \/ T!RunJob(t) \/ T!Finish(t) \/ T!Leave(t),
         UNCHANGED <<threads, result>>
  PROVE  refs' \in [Threads -> Nat] /\ \A u \in Threads : Referenced(u)'
<1>t. /\ refs \in [Threads -> Nat] /\ exec \in [Threads -> T!Execs]
      /\ pooled \in [Threads -> BOOLEAN]
      /\ exec[t] = "none" => ~pooled[t]
      /\ exec[t] = "queued" => pooled[t]
  BY DEF Balance, TypeOK, T!TypeOK
<1>1. ASSUME NEW u \in Threads
      PROVE  /\ refs' \in [Threads -> Int]
             /\ refs'[u] - T!Held(u)' = refs[u] - T!Held(u)
  <2> USE DEF T!Held, T!Execs
  <2>1. CASE T!run_ThreadPool(t)
    BY <2>1, <1>t DEF T!run_ThreadPool, T!ref_Object
  <2>2. CASE T!RunJob(t)
    BY <2>2, <1>t DEF T!RunJob
  <2>3. CASE T!Finish(t)
    BY <2>3, <1>t DEF T!Finish, T!Returned
  <2>4. CASE T!Leave(t)
    BY <2>4, <1>t DEF T!Leave, T!deref_Object
  <2> QED BY <2>1, <2>2, <2>3, <2>4
<1>2. ASSUME NEW u \in Threads PROVE Referenced(u)' /\ refs'[u] \in Nat
  <2>1. Holding(u)' = Holding(u)
    BY DEF Holding
  <2>2. Referenced(u) /\ refs[u] \in Nat /\ Cardinality(Holding(u)) \in Nat
    BY <1>t, FS_CardinalityType DEF Balance, Referenced
  <2>3. refs'[u] - T!Held(u)' = refs[u] - T!Held(u) /\ refs'[u] \in Int
    BY <1>1
  <2>4. refs'[u] = T!Held(u)' + Cardinality(Holding(u))
    BY <2>2, <2>3, HeldIsNat DEF Referenced
  <2> QED BY <2>1, <2>2, <2>4, HeldIsNat DEF Referenced
<1> QED BY <1>1, <1>2

LEMMA AddBalances ==
  ASSUME IInv, Balance, NEW f \in Futures, NEW t \in Threads, Add(f, t)
  PROVE  refs' \in [Threads -> Nat] /\ \A u \in Threads : Referenced(u)'
<1>t. refs \in [Threads -> Nat] /\ \A u \in Threads : Referenced(u)
  BY DEF Balance, TypeOK, T!TypeOK
<1>1. refs' = [refs EXCEPT ![t] = @ + 1] /\ \A u \in Threads : T!Held(u)' = T!Held(u)
  BY DEF Add, Rereference, T!Held
<1>2. f \notin Holding(t)
  BY DEF Add, IInv, Link, Holding
<1>3. ASSUME NEW u \in Threads, u # t PROVE Referenced(u)'
  <2>1. Holding(u)' = Holding(u)
    BY <1>3 DEF Add, Holding, IInv, Types
  <2> QED BY <1>t, <1>1, <1>3, <2>1 DEF Referenced
<1>4. Referenced(t)'
  <2>1. Holding(t)' = Holding(t) \cup {f}
    BY DEF Add, Holding, IInv, Types
  <2>2. /\ IsFiniteSet(Holding(t) \cup {f})
        /\ Cardinality(Holding(t) \cup {f}) = Cardinality(Holding(t)) + 1
    BY <1>t, <1>2, FS_AddElement DEF Referenced
  <2>3. refs[t] = T!Held(t) + Cardinality(Holding(t)) /\ Cardinality(Holding(t)) \in Nat
    BY <1>t, FS_CardinalityType DEF Referenced
  <2> QED BY <1>t, <1>1, <2>1, <2>2, <2>3, HeldIsNat DEF Referenced
<1> QED BY <1>t, <1>1, <1>3, <1>4

LEMMA FreeBalances ==
  ASSUME IInv, Balance, NEW f \in Futures, Free(f)
  PROVE  refs' \in [Threads -> Nat] /\ \A u \in Threads : Referenced(u)'
<1>t. /\ refs \in [Threads -> Nat] /\ \A u \in Threads : Referenced(u)
      /\ threads \in [Futures -> SUBSET Threads]
      /\ threads[f] \cap result[f] = {}
  BY DEF Balance, TypeOK, T!TypeOK
<1>1. /\ refs' = [t \in Threads |-> IF t \in threads[f] THEN refs[t] - 1 ELSE refs[t]]
      /\ threads' = [threads EXCEPT ![f] = {}] /\ result' = result
      /\ \A u \in Threads : T!Held(u)' = T!Held(u)
  BY DEF Free, Rereference, T!Held
<1>2. ASSUME NEW u \in Threads PROVE Referenced(u)' /\ refs'[u] \in Nat
  <2>0. refs[u] = T!Held(u) + Cardinality(Holding(u)) /\ Cardinality(Holding(u)) \in Nat
    BY <1>t, FS_CardinalityType DEF Referenced
  <2>1. CASE u \notin threads[f]
    <3>1. Holding(u)' = Holding(u)
      BY <1>t, <1>1, <2>1 DEF Holding
    <3> QED BY <1>t, <1>1, <2>1, <3>1 DEF Referenced
  <2>2. CASE u \in threads[f]
    <3>1. Holding(u)' = Holding(u) \ {f} /\ f \in Holding(u)
      BY <1>t, <1>1, <2>2 DEF Holding
    <3>2. \A S : IsFiniteSet(S) /\ f \in S => /\ IsFiniteSet(S \ {f})
                                          /\ Cardinality(S \ {f}) = Cardinality(S) - 1
      BY FS_RemoveElement
    <3>3. /\ IsFiniteSet(Holding(u) \ {f})
          /\ Cardinality(Holding(u) \ {f}) = Cardinality(Holding(u)) - 1
      BY <1>t, <3>1, <3>2 DEF Referenced
    <3>4. Cardinality(Holding(u) \ {f}) \in Nat /\ refs'[u] = refs[u] - 1
      BY <1>1, <2>2, <3>3, FS_CardinalityType
    <3>5. refs'[u] = T!Held(u) + Cardinality(Holding(u) \ {f})
      BY <2>0, <3>3, <3>4, HeldIsNat
    <3> QED BY <1>1, <3>1, <3>3, <3>4, <3>5, HeldIsNat DEF Referenced
  <2> QED BY <2>1, <2>2
<1> QED BY <1>1, <1>2

LEMMA OthersBalance ==
  ASSUME IInv, Balance, UNCHANGED threadVars,
         UNCHANGED <<threads, result>> \/ \E f \in Futures : NextFinds(f)
  PROVE  refs' \in [Threads -> Nat] /\ \A u \in Threads : Referenced(u)'
<1>t. refs \in [Threads -> Nat] /\ \A u \in Threads : Referenced(u)
  BY DEF Balance, TypeOK, T!TypeOK
<1>1. \A u \in Threads : T!Held(u)' = T!Held(u) /\ refs'[u] = refs[u]
  BY DEF threadVars, T!Held
<1>2. ASSUME NEW u \in Threads PROVE Holding(u)' = Holding(u)
  <2>1. CASE UNCHANGED <<threads, result>>
    BY <2>1 DEF Holding
  <2>2. ASSUME NEW f \in Futures, NextFinds(f) PROVE Holding(u)' = Holding(u)
    BY <2>2 DEF NextFinds, FinishedIn, Holding, IInv, Types
  <2> QED BY <2>1, <2>2
<1> QED BY <1>t, <1>1, <1>2 DEF Referenced, threadVars

LEMMA ReferenceStep ==
  ASSUME IInv, Balance, [Next]_vars
  PROVE  /\ refs' \in [Threads -> Nat] /\ \A u \in Threads : Referenced(u)'
         /\ [T!Next]_(T!threadVars) \/ \E r : Rereference(r)
<1> USE DEF audienceVars, futureVars, T!threadVars
<1>1. ASSUME NEW f \in Futures, NEW t \in Threads, Add(f, t)
      PROVE  /\ refs' \in [Threads -> Nat] /\ \A u \in Threads : Referenced(u)'
             /\ \E r : Rereference(r)
  BY <1>1, AddBalances DEF Add
<1>2. ASSUME NEW f \in Futures, Free(f)
      PROVE  /\ refs' \in [Threads -> Nat] /\ \A u \in Threads : Referenced(u)'
             /\ \E r : Rereference(r)
  BY <1>2, FreeBalances DEF Free
<1>3. ASSUME NEW t \in Threads, Launch(t) \/ RunThread(t) \/ EndNotify(t)
      PROVE  /\ refs' \in [Threads -> Nat] /\ \A u \in Threads : Referenced(u)'
             /\ T!Next
  <2>1. T!run_ThreadPool(t) \/ T!RunJob(t) \/ T!Finish(t) \/ T!Leave(t)
    BY <1>3 DEF Launch, RunThread, EndNotify
  <2>2. UNCHANGED <<threads, result>>
    BY <1>3 DEF Launch, RunThread, EndNotify
  <2>3. T!Next
    BY <2>1 DEF T!Next, T!Runs, T!Owner
  <2> QED BY <2>1, <2>2, <2>3, ThreadBalances
<1>4. ASSUME UNCHANGED threadVars,
             UNCHANGED <<threads, result>> \/ \E f \in Futures : NextFinds(f)
      PROVE  /\ refs' \in [Threads -> Nat] /\ \A u \in Threads : Referenced(u)'
             /\ UNCHANGED T!threadVars
  BY <1>4, OthersBalance DEF threadVars
<1>5. ASSUME NEW f \in Futures,
             \/ \E c \in {"wait", "next", "deinit"} : Begin(f, c)
             \/ WaitBlocks(f) \/ WaitEnds(f) \/ NextFinds(f) \/ NextBlocks(f) \/ NextIsNull(f)
             \/ Disconnect(f) \/ Unhook(f) \/ SpuriousWakeup(f)
      PROVE  /\ UNCHANGED threadVars
             /\ UNCHANGED <<threads, result>> \/ NextFinds(f)
  BY <1>5 DEF Begin, WaitBlocks, WaitEnds, NextFinds, NextBlocks, NextIsNull, Block,
              Disconnect, Unhook, SpuriousWakeup
<1>6. ASSUME NEW t \in Threads,
             BeginNotify(t) \/ \E f \in Futures : threadFinished_Future(t, f)
      PROVE  UNCHANGED threadVars /\ UNCHANGED <<threads, result>>
  BY <1>6 DEF BeginNotify, threadFinished_Future
<1>7. CASE UNCHANGED vars
  BY <1>4, <1>7 DEF vars
<1> QED BY <1>1, <1>2, <1>3, <1>4, <1>5, <1>6, <1>7 DEF Next, CallerStep, ThreadStep

LEMMA BalanceStep == IInv /\ Balance /\ [Next]_vars => Balance'
<1> SUFFICES ASSUME IInv, Balance, [Next]_vars PROVE Balance'
  OBVIOUS
<1>0. IInv'
  BY IInvStep
<1>1. refs' \in [Threads -> Nat] /\ \A u \in Threads : Referenced(u)'
  BY ReferenceStep
<1>2. T!TypeOK'
  <2>1. CASE [T!Next]_(T!threadVars)
    BY <1>1, <2>1, T!TypeStep DEF Balance, TypeOK
  <2>2. ASSUME NEW r, Rereference(r) PROVE T!TypeOK'
    BY <1>1, <2>2 DEF Rereference, Balance, TypeOK, T!TypeOK
  <2> QED BY <2>1, <2>2, ReferenceStep
<1>3. blocked' \subseteq Futures
  BY DEF Balance, TypeOK, Next, vars, futureVars, Add, Launch, RunThread, BeginNotify,
         threadFinished_Future, EndNotify, ThreadStep, Begin, CallerStep, WaitBlocks,
         NextBlocks, Block, WaitEnds, NextFinds, NextIsNull, Disconnect, Unhook, Free,
         SpuriousWakeup
<1>4. \A f \in Futures : threads'[f] \cap result'[f] = {}
  <2> SUFFICES ASSUME NEW f \in Futures PROVE threads'[f] \cap result'[f] = {}
    OBVIOUS
  <2>t. /\ threads \in [Futures -> SUBSET Threads] /\ result \in [Futures -> SUBSET Threads]
        /\ \A g \in Futures : threads[g] \cap result[g] = {} /\ result[g] \subseteq added[g]
    BY DEF Balance, IInv, Types, Link
  <2>1. ASSUME NEW g \in Futures, NEW t \in Threads, Add(g, t) PROVE threads'[f] \cap result'[f] = {}
    BY <2>1, <2>t DEF Add
  <2>2. ASSUME NEW g \in Futures, NextFinds(g) PROVE threads'[f] \cap result'[f] = {}
    BY <2>2, <2>t DEF NextFinds
  <2>3. ASSUME NEW g \in Futures, Free(g) PROVE threads'[f] \cap result'[f] = {}
    BY <2>3, <2>t DEF Free
  <2>4. CASE UNCHANGED <<threads, result>>
    BY <2>4, <2>t
  <2> QED BY <2>1, <2>2, <2>3, <2>4
          DEF Next, vars, futureVars, Launch, RunThread, BeginNotify, threadFinished_Future,
              EndNotify, ThreadStep, Begin, CallerStep, WaitBlocks, NextBlocks, Block, WaitEnds,
              NextIsNull, Disconnect, Unhook, SpuriousWakeup
<1>5. TypeOK'
  BY <1>0, <1>2, <1>3 DEF TypeOK, IInv, Types, Finishing, Link
<1> QED BY <1>1, <1>4, <1>5 DEF Balance

(* pendingCount is the number of added threads that have not notified the  *)
(* future, and those that have are finished; all along, the references to  *)
(* the threads are those of their life, of the lists and of the results.   *)
THEOREM PendingIsCounted == Spec => []PendingBalance
<1>1. IInv /\ Balance => PendingBalance
  <2> SUFFICES ASSUME IInv, Balance, NEW f \in Futures
               PROVE  /\ pending[f] = Cardinality(added[f] \ heard[f])
                      /\ \A t \in heard[f] : state[t] = "finished"
    BY DEF PendingBalance, Balance
  <2>1. \A t \in heard[f] : t \in Threads /\ Link(f, t) /\ Finishing(t)
    BY DEF IInv, Types
  <2> QED BY <2>1 DEF IInv, Count, Link, Finishing, Ended
<1> QED BY <1>1, InitIInv, IInvStep, InitBalance, BalanceStep, PTL DEF Spec

(* A future that counts nothing pending has only finished threads.         *)
THEOREM ReadyIsFinished == Spec => []ReadyMeansFinished
<1>1. IInv => ReadyMeansFinished
  <2> SUFFICES ASSUME IInv, NEW f \in Futures, NEW t \in added[f],
                      pending[f] = 0 \/ call[f] \in {"unhook", "gone"}
               PROVE  state[t] = "finished"
    BY DEF ReadyMeansFinished
  <2>1. t \in heard[f]
    BY CountIsFinite DEF IInv, Going
  <2>2. t \in Threads
    BY DEF IInv, Types
  <2>3. Link(f, t) /\ Finishing(t)
    BY <2>2 DEF IInv
  <2> QED BY <2>1, <2>3 DEF Link, Finishing, Ended
<1> QED BY <1>1, InitIInv, IInvStep, PTL DEF Spec

(* No thread is about to call a future that has been freed, or will.       *)
THEOREM NobodyCallsFreed == Spec => []NoDanglingObserver
<1>1. IInv => NoDanglingObserver
  BY DEF IInv, Types, Link, Going, NoDanglingObserver
<1> QED BY <1>1, InitIInv, IInvStep, PTL DEF Spec
=============================================================================
