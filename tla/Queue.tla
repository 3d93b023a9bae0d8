------------------------------- MODULE Queue -------------------------------
(***************************************************************************)
(* The blocking queue of queue.c.  The item list is only touched with      *)
(* d->mutex held, and wait_Condition releases the mutex while it blocks,   *)
(* so one action is one region between lock (or wake-up) and unlock (or    *)
(* wait).  d->cond may also wake a thread for no reason, as POSIX allows.  *)
(*                                                                         *)
(* The operations are actions of this module for other modules to use.     *)
(* Init, Next and Spec let any thread call any of them in any order, in    *)
(* the way the library does: a caller of waitForItems_Queue goes on to     *)
(* tryTake_Queue (address.c).                                              *)
(***************************************************************************)
EXTENDS Naturals, Sequences, FiniteSets, FiniteSetTheorems, FunctionTheorems,
        SequenceTheorems, TLAPS

CONSTANTS Threads,   \* the threads that call the queue
          Items,     \* the objects that may be put in it
          MaxItems   \* bound of the models: clients stop putting at this length

ASSUME QueueAssumption == IsFiniteSet(Threads) /\ MaxItems \in Nat

VARIABLES items,     \* d->items, oldest first
          waiting,   \* the threads blocked on d->cond
          op         \* op[t]: the queue function thread t is inside of

queueVars == <<items, waiting, op>>

\* Functions that return with an item, unless their time runs out.
Taking == {"take", "takeTimeout"}

\* "waited": waitForItems_Queue is past its wait, or found items at once.
Ops == Taking \cup {"idle", "waitForItems", "waited"}

Init == /\ items = <<>>
        /\ waiting = {}
        /\ op = [t \in Threads |-> "idle"]

-----------------------------------------------------------------------------

(* A blocked thread gets the mutex back.  take and takeTimeout look at the *)
(* list again, waitForItems does not (an `if', not a loop).                *)
Resume(t) == /\ waiting' = waiting \ {t}
             /\ op' = [op EXCEPT ![t] = IF @ = "waitForItems" THEN "waited" ELSE @]

signal_Condition == \/ waiting = {} /\ UNCHANGED <<waiting, op>>
                    \/ \E t \in waiting : Resume(t)

\* Mutant: wake a thread only when the queue was empty.
SignalWhenEmpty(x) == /\ items' = Append(items, x)
                      /\ IF items = <<>> THEN signal_Condition
                                         ELSE UNCHANGED <<waiting, op>>

put_Queue(x) == /\ items' = Append(items, x)
                /\ signal_Condition

SpuriousWakeup(t) == /\ t \in waiting
                     /\ Resume(t)
                     /\ UNCHANGED items

Call(t, function) == /\ op[t] = "idle"
                     /\ op' = [op EXCEPT ![t] = function]
                     /\ UNCHANGED <<items, waiting>>

\* Mutant: hand out the newest item.
TakeBack(t) == /\ op[t] \in Taking
               /\ t \notin waiting
               /\ items # <<>>
               /\ items' = SubSeq(items, 1, Len(items) - 1)
               /\ op' = [op EXCEPT ![t] = "idle"]
               /\ UNCHANGED waiting

(* take_Queue and takeTimeout_Queue find an item and return with it.       *)
TakeFront(t) == /\ op[t] \in Taking
                /\ t \notin waiting
                /\ items # <<>>
                /\ items' = Tail(items)
                /\ op' = [op EXCEPT ![t] = "idle"]
                /\ UNCHANGED waiting

(* Any of the three waiting functions finds the list empty and blocks.     *)
wait_Condition(t) == /\ op[t] \in Taking \cup {"waitForItems"}
                     /\ t \notin waiting
                     /\ items = <<>>
                     /\ waiting' = waiting \cup {t}
                     /\ UNCHANGED <<items, op>>

\* Mutant: the call returns and the thread stays on the condition's list.
ForgetsToLeave(t) == /\ t \in waiting
                     /\ op[t] = "takeTimeout"
                     /\ op' = [op EXCEPT ![t] = "idle"]
                     /\ UNCHANGED <<items, waiting>>

(* The wait times out: takeTimeout_Queue returns NULL, whatever the list   *)
(* holds by then.                                                          *)
TimeOut(t) == /\ t \in waiting
              /\ op[t] = "takeTimeout"
              /\ waiting' = waiting \ {t}
              /\ op' = [op EXCEPT ![t] = "idle"]
              /\ UNCHANGED items

(* waitForItems_Queue finds items and returns without waiting.             *)
ItemsPresent(t) == /\ op[t] = "waitForItems"
                   /\ t \notin waiting
                   /\ items # <<>>
                   /\ op' = [op EXCEPT ![t] = "waited"]
                   /\ UNCHANGED <<items, waiting>>

tryTake_Queue(t) == /\ op[t] \in {"idle", "waited"}
                    /\ items' = IF items = <<>> THEN items ELSE Tail(items)
                    /\ op' = [op EXCEPT ![t] = "idle"]
                    /\ UNCHANGED waiting

-----------------------------------------------------------------------------

Put(t) == /\ op[t] = "idle"
          /\ Len(items) < MaxItems
          /\ \E x \in Items : put_Queue(x)

\* What a thread does of its own accord.
Client(t) == \/ Put(t)
             \/ \E function \in Taking \cup {"waitForItems"} : Call(t, function)
             \/ op[t] = "idle" /\ tryTake_Queue(t)

\* What a thread inside a queue function goes on to do once it has the mutex.
Proceed(t) == \/ TakeFront(t)
              \/ wait_Condition(t)
              \/ ItemsPresent(t)
              \/ op[t] = "waited" /\ tryTake_Queue(t)

Next == \E t \in Threads : \/ Client(t)
                           \/ Proceed(t)
                           \/ TimeOut(t)
                           \/ SpuriousWakeup(t)

(* A thread that can run inside a queue function runs.  Nothing makes a    *)
(* thread call the queue, and nothing wakes it but a signal or a timeout.  *)
Spec == /\ Init
        /\ [][Next]_queueVars
        /\ \A t \in Threads : WF_queueVars(Proceed(t)) /\ WF_queueVars(TimeOut(t))

-----------------------------------------------------------------------------

(* The values the state takes; a thread blocked on d->cond is inside a     *)
(* function that waits.                                                    *)
TypeOK == /\ items \in Seq(Items)
          /\ waiting \subseteq Threads
          /\ op \in [Threads -> Ops]
          /\ \A t \in waiting : op[t] \in Taking \cup {"waitForItems"}

\* Threads on their way to the list: each removes an item if there is one.
Contending == {t \in Threads \ waiting : op[t] \in Taking \cup {"waited"}}

(* No lost wake-up: while a thread sleeps on d->cond, every item in the    *)
(* list is matched by a thread that is awake and about to take one.  It    *)
(* needs put_Queue to signal on every put, and callers of                  *)
(* waitForItems_Queue to take what they waited for: the signal they        *)
(* consumed is then not missed by a sleeping taker.                        *)
NoLostWakeup == waiting # {} => Len(items) <= Cardinality(Contending)

request == [t \in Threads |-> IF op[t] = "take" THEN "blocking"
                              ELSE IF op[t] = "takeTimeout" THEN "timed"
                              ELSE "none"]

Promise == INSTANCE Channel WITH chan <- items, request <- request

(* The queue implements the channel: FIFO order, each item to one taker,   *)
(* take_Queue never returns without an item, and under the fairness above  *)
(* the items are received as long as a taker asks for one.                 *)
ImplementsChannel == Promise!Spec
-----------------------------------------------------------------------------
(* What the runs check on three threads, proved for every finite set of    *)
(* threads, every set of items and every bound on the length.  First, for  *)
(* the modules that use the queue, how often an item is in the list.       *)

\* Where an item is in a sequence, and how often.
Positions(s, a) == {i \in 1..Len(s) : s[i] = a}

LEMMA Counted == ASSUME NEW s \in Seq(Items), NEW a
                 PROVE  /\ IsFiniteSet(Positions(s, a)) /\ Cardinality(Positions(s, a)) \in Nat
                        /\ \A i : i \in Positions(s, a) <=> i \in 1..Len(s) /\ s[i] = a
<1>1. Len(s) \in Nat
  BY LenProperties
<1>2. IsFiniteSet(1..Len(s))
  BY <1>1, FS_Interval
<1>3. Positions(s, a) \in SUBSET (1..Len(s))
  BY DEF Positions
<1>4. IsFiniteSet(Positions(s, a))
  BY <1>2, <1>3, FS_Subset
<1>5. Cardinality(Positions(s, a)) \in Nat
  BY <1>4, FS_CardinalityType
<1> QED BY <1>4, <1>5 DEF Positions

LEMMA AppendCounts ==
  ASSUME NEW s \in Seq(Items), NEW b \in Items, NEW a
  PROVE  Cardinality(Positions(Append(s, b), a))
           = Cardinality(Positions(s, a)) + (IF a = b THEN 1 ELSE 0)
<1> DEFINE C == Positions(s, a)
           D == Positions(Append(s, b), a)
<1>1. /\ Len(s) \in Nat /\ Len(Append(s, b)) = Len(s) + 1 /\ Append(s, b) \in Seq(Items)
      /\ \A i \in 1..Len(s) : Append(s, b)[i] = s[i]
      /\ Append(s, b)[Len(s) + 1] = b
  BY LenProperties, AppendProperties
<1>2. /\ IsFiniteSet(C) /\ Cardinality(C) \in Nat
      /\ \A i : i \in C <=> i \in 1..Len(s) /\ s[i] = a
      /\ \A i : i \in D <=> i \in 1..Len(Append(s, b)) /\ Append(s, b)[i] = a
  BY <1>1, Counted
<1>3. Len(s) + 1 \notin C
  BY <1>1, <1>2
<1> HIDE DEF C, D
<1>4. CASE a = b
  <2>1. \A i : i \in D <=> i \in C \cup {Len(s) + 1}
    BY <1>1, <1>2, <1>4
  <2>2. D = C \cup {Len(s) + 1}
    BY <2>1
  <2>3. Cardinality(D) = Cardinality(C) + 1
    BY <1>2, <1>3, <2>2, FS_AddElement
  <2> QED BY <1>4, <2>3 DEF C, D
<1>5. CASE a # b
  <2>1. \A i : i \in D <=> i \in C
    BY <1>1, <1>2, <1>5
  <2>2. D = C
    BY <2>1
  <2> QED BY <1>2, <1>5, <2>2 DEF C, D
<1> QED BY <1>4, <1>5

LEMMA TailCounts ==
  ASSUME NEW s \in Seq(Items), s # <<>>, NEW a
  PROVE  Cardinality(Positions(s, a))
           = Cardinality(Positions(Tail(s), a)) + (IF a = Head(s) THEN 1 ELSE 0)
<1> DEFINE C == Positions(s, a)
           D == Positions(Tail(s), a)
           E == C \ {1}
<1>1. /\ Len(s) \in Nat \ {0} /\ Len(Tail(s)) = Len(s) - 1 /\ Head(s) = s[1]
      /\ Tail(s) \in Seq(Items)
      /\ \A i \in 1..Len(Tail(s)) : Tail(s)[i] = s[i + 1]
  BY EmptySeq, HeadTailProperties
<1>2. /\ IsFiniteSet(C) /\ Cardinality(C) \in Nat
      /\ IsFiniteSet(D) /\ Cardinality(D) \in Nat
      /\ \A i : i \in C <=> i \in 1..Len(s) /\ s[i] = a
      /\ \A i : i \in D <=> i \in 1..Len(Tail(s)) /\ Tail(s)[i] = a
  BY <1>1, Counted
<1> HIDE DEF C, D
<1>3. Cardinality(E) = Cardinality(D)
  <2> DEFINE next == [i \in D |-> i + 1]
  <2>1. next \in [D -> E]
    BY <1>1, <1>2
  <2>2. \A i, j \in D : next[i] = next[j] => i = j
    BY <1>1, <1>2
  <2>3. ASSUME NEW j \in E PROVE \E i \in D : next[i] = j
    <3>1. j - 1 \in D
      BY <1>1, <1>2, <2>3
    <3>2. j \in Nat /\ (j - 1) + 1 = j
      BY <1>1, <1>2, <2>3
    <3> QED BY <3>1, <3>2
  <2>4. next \in Bijection(D, E)
    BY <2>1, <2>2, <2>3, Fun_IsBij
  <2> QED BY <1>2, <2>4, FS_Bijection DEF ExistsBijection
<1>4. 1 \in C <=> a = Head(s)
  BY <1>1, <1>2
<1>5. Cardinality(E) = IF 1 \in C THEN Cardinality(C) - 1 ELSE Cardinality(C)
  BY <1>2, FS_RemoveElement
<1> QED BY <1>2, <1>3, <1>4, <1>5 DEF C, D

-----------------------------------------------------------------------------
(* Type correctness.  Every step is one of seven actions; each is checked  *)
(* on its own.                                                             *)

LEMMA InitType == Init => TypeOK
  BY EmptySeq DEF Init, TypeOK, Ops, Taking

LEMMA ResumeType ==
  ASSUME NEW t \in waiting, waiting \subseteq Threads, op \in [Threads -> Ops],
         \A u \in waiting : op[u] \in Taking \cup {"waitForItems"},
         Resume(t)
  PROVE  /\ waiting' \subseteq Threads
         /\ op' \in [Threads -> Ops]
         /\ \A u \in waiting' : op'[u] \in Taking \cup {"waitForItems"}
  BY DEF Resume, Ops, Taking

LEMMA PutType ==
  ASSUME TypeOK, NEW x \in Items, put_Queue(x)
  PROVE  TypeOK'
<1>1. items' \in Seq(Items)
  BY AppendProperties DEF TypeOK, put_Queue
<1>2. CASE waiting = {} /\ UNCHANGED <<waiting, op>>
  BY <1>1, <1>2 DEF TypeOK
<1>3. ASSUME NEW t \in waiting, Resume(t)
      PROVE  TypeOK'
  BY <1>1, <1>3, ResumeType DEF TypeOK
<1>4. QED
  BY <1>2, <1>3 DEF put_Queue, signal_Condition

LEMMA TailType ==
  ASSUME items \in Seq(Items), items # <<>>
  PROVE  Tail(items) \in Seq(Items)
  BY HeadTailProperties

LEMMA StepType == TypeOK /\ [Next]_queueVars => TypeOK'
<1> SUFFICES ASSUME TypeOK, [Next]_queueVars
             PROVE  TypeOK'
  OBVIOUS
<1>1. CASE UNCHANGED queueVars
  BY <1>1 DEF TypeOK, queueVars
<1>2. ASSUME NEW t \in Threads, Put(t)
      PROVE  TypeOK'
  BY <1>2, PutType DEF Put
<1>3. ASSUME NEW t \in Threads, NEW function \in Taking \cup {"waitForItems"},
             Call(t, function)
      PROVE  TypeOK'
  BY <1>3 DEF Call, TypeOK, Ops, Taking
<1>4. ASSUME NEW t \in Threads, tryTake_Queue(t)
      PROVE  TypeOK'
  <2>1. items' \in Seq(Items)
    BY <1>4, TailType DEF tryTake_Queue, TypeOK
  <2>2. QED
    BY <1>4, <2>1 DEF tryTake_Queue, TypeOK, Ops, Taking
<1>5. ASSUME NEW t \in Threads, TakeFront(t)
      PROVE  TypeOK'
  <2>1. items' \in Seq(Items)
    BY <1>5, TailType DEF TakeFront, TypeOK
  <2>2. QED
    BY <1>5, <2>1 DEF TakeFront, TypeOK, Ops, Taking
<1>6. ASSUME NEW t \in Threads, wait_Condition(t)
      PROVE  TypeOK'
  BY <1>6 DEF wait_Condition, TypeOK, Ops, Taking
<1>7. ASSUME NEW t \in Threads, ItemsPresent(t)
      PROVE  TypeOK'
  BY <1>7 DEF ItemsPresent, TypeOK, Ops, Taking
<1>8. ASSUME NEW t \in Threads, TimeOut(t)
      PROVE  TypeOK'
  BY <1>8 DEF TimeOut, TypeOK, Ops, Taking
<1>9. ASSUME NEW t \in Threads, SpuriousWakeup(t)
      PROVE  TypeOK'
  BY <1>9, ResumeType DEF SpuriousWakeup, TypeOK
<1>10. QED
  BY <1>1, <1>2, <1>3, <1>4, <1>5, <1>6, <1>7, <1>8, <1>9
  DEF Next, Client, Proceed

(* The state of the queue keeps its types, and a thread blocked on d->cond *)
(* is inside one of the three functions that wait.                         *)
THEOREM TypeCorrect == Spec => []TypeOK
  BY InitType, StepType, PTL DEF Spec

-----------------------------------------------------------------------------
(* No lost wake-up.  With the types NoLostWakeup is inductive: a step that *)
(* adds an item while a thread sleeps moves a sleeper to Contending, and a *)
(* step that takes a thread out of Contending takes an item with it or     *)
(* finds the list empty.                                                   *)

LEMMA ContendingFinite ==
  /\ IsFiniteSet(Contending)
  /\ Cardinality(Contending) \in Nat
<1>1. Contending \in SUBSET Threads
  BY DEF Contending
<1>2. IsFiniteSet(Contending)
  BY <1>1, FS_Subset, QueueAssumption
<1>3. QED
  BY <1>2, FS_CardinalityType

LEMMA ContendingFiniteNext ==
  /\ IsFiniteSet(Contending')
  /\ Cardinality(Contending') \in Nat
<1>1. Contending' \in SUBSET Threads
  BY DEF Contending
<1>2. IsFiniteSet(Contending')
  BY <1>1, FS_Subset, QueueAssumption
<1>3. QED
  BY <1>2, FS_CardinalityType

(* A step that leaves the list alone and sends no thread away from it      *)
(* keeps the invariant.                                                    *)
LEMMA MoreContending ==
  ASSUME TypeOK, NoLostWakeup, items' = items, waiting' \subseteq waiting,
         Contending \subseteq Contending'
  PROVE  NoLostWakeup'
<1>1. Cardinality(Contending) <= Cardinality(Contending')
  BY ContendingFiniteNext, FS_Subset
<1>2. Len(items) \in Nat
  BY LenProperties DEF TypeOK
<1>3. QED
  BY <1>1, <1>2, ContendingFinite, ContendingFiniteNext DEF NoLostWakeup

(* An empty list needs no thread.                                          *)
LEMMA EmptyList ==
  ASSUME items' = <<>>
  PROVE  NoLostWakeup'
  BY ContendingFiniteNext, EmptySeq DEF NoLostWakeup

(* One item and one thread leave together.                                 *)
LEMMA TakerLeaves ==
  ASSUME TypeOK, NoLostWakeup, NEW t,
         items # <<>>, items' = Tail(items), waiting' = waiting,
         Contending' = Contending \ {t}
  PROVE  NoLostWakeup'
<1>1. Len(items') = Len(items) - 1 /\ Len(items) \in Nat
  BY HeadTailProperties, LenProperties DEF TypeOK
<1>2. Cardinality(Contending') >= Cardinality(Contending) - 1
  <2>1. Cardinality(Contending \ {t}) =
           IF t \in Contending THEN Cardinality(Contending) - 1
                              ELSE Cardinality(Contending)
    BY ContendingFinite, FS_RemoveElement
  <2>2. QED
    BY <2>1, ContendingFinite
<1>3. QED
  BY <1>1, <1>2, ContendingFinite, ContendingFiniteNext DEF NoLostWakeup

LEMMA PutWakes ==
  ASSUME TypeOK, NoLostWakeup, NEW x \in Items, put_Queue(x)
  PROVE  NoLostWakeup'
<1>1. CASE waiting = {} /\ UNCHANGED <<waiting, op>>
  BY <1>1 DEF NoLostWakeup
<1>2. ASSUME NEW t \in waiting, Resume(t)
      PROVE  NoLostWakeup'
  <2>1. Len(items') = Len(items) + 1 /\ Len(items) \in Nat
    BY AppendProperties, LenProperties DEF TypeOK, put_Queue
  <2>2. Contending' = Contending \cup {t} /\ t \notin Contending
    BY <1>2 DEF TypeOK, Resume, Contending, Taking, Ops
  <2>3. Cardinality(Contending') = Cardinality(Contending) + 1
    BY <2>2, ContendingFinite, FS_AddElement
  <2>4. QED
    BY <1>2, <2>1, <2>3, ContendingFinite DEF NoLostWakeup
<1>3. QED
  BY <1>1, <1>2 DEF put_Queue, signal_Condition

LEMMA TryTakeKeeps ==
  ASSUME TypeOK, NoLostWakeup, NEW t \in Threads, tryTake_Queue(t)
  PROVE  NoLostWakeup'
<1>1. CASE items = <<>>
  BY <1>1, EmptyList DEF tryTake_Queue
<1>2. CASE items # <<>>
  <2>1. Contending' = Contending \ {t}
    BY DEF tryTake_Queue, Contending, TypeOK, Ops, Taking
  <2>2. QED
    BY <1>2, <2>1, TakerLeaves DEF tryTake_Queue
<1>3. QED
  BY <1>1, <1>2

LEMMA StepNoLostWakeup ==
  TypeOK /\ NoLostWakeup /\ [Next]_queueVars => NoLostWakeup'
<1> SUFFICES ASSUME TypeOK, NoLostWakeup, [Next]_queueVars
             PROVE  NoLostWakeup'
  OBVIOUS
<1>1. CASE UNCHANGED queueVars
  BY <1>1, MoreContending DEF queueVars, Contending
<1>2. ASSUME NEW t \in Threads, Put(t)
      PROVE  NoLostWakeup'
  BY <1>2, PutWakes DEF Put
<1>3. ASSUME NEW t \in Threads, NEW function \in Taking \cup {"waitForItems"},
             Call(t, function)
      PROVE  NoLostWakeup'
  <2>1. Contending \subseteq Contending'
    BY <1>3 DEF Call, Contending, TypeOK, Ops, Taking
  <2>2. QED
    BY <1>3, <2>1, MoreContending DEF Call
<1>4. ASSUME NEW t \in Threads, tryTake_Queue(t)
      PROVE  NoLostWakeup'
  BY <1>4, TryTakeKeeps
<1>5. ASSUME NEW t \in Threads, TakeFront(t)
      PROVE  NoLostWakeup'
  <2>1. Contending' = Contending \ {t}
    BY <1>5 DEF TakeFront, Contending, TypeOK, Ops, Taking
  <2>2. QED
    BY <1>5, <2>1, TakerLeaves DEF TakeFront
<1>6. ASSUME NEW t \in Threads, wait_Condition(t)
      PROVE  NoLostWakeup'
  BY <1>6, EmptyList DEF wait_Condition
<1>7. ASSUME NEW t \in Threads, ItemsPresent(t)
      PROVE  NoLostWakeup'
  <2>1. Contending \subseteq Contending'
    BY <1>7 DEF ItemsPresent, Contending, TypeOK, Ops, Taking
  <2>2. QED
    BY <1>7, <2>1, MoreContending DEF ItemsPresent
<1>8. ASSUME NEW t \in Threads, TimeOut(t)
      PROVE  NoLostWakeup'
  <2>1. Contending \subseteq Contending'
    BY <1>8 DEF TimeOut, Contending, TypeOK, Ops, Taking
  <2>2. QED
    BY <1>8, <2>1, MoreContending DEF TimeOut
<1>9. ASSUME NEW t \in Threads, SpuriousWakeup(t)
      PROVE  NoLostWakeup'
  <2>1. Contending \subseteq Contending'
    BY <1>9 DEF SpuriousWakeup, Resume, Contending, TypeOK, Ops, Taking
  <2>2. QED
    BY <1>9, <2>1, MoreContending DEF SpuriousWakeup, Resume
<1>10. QED
  BY <1>1, <1>2, <1>3, <1>4, <1>5, <1>6, <1>7, <1>8, <1>9
  DEF Next, Client, Proceed

(* However many threads use the queue: while one sleeps, every item in the *)
(* list has a thread awake that is about to take it.                       *)
THEOREM WakeupsAreNotLost == Spec => []NoLostWakeup
<1>1. Init => NoLostWakeup
  BY DEF Init, NoLostWakeup
<1>2. QED
  BY <1>1, StepNoLostWakeup, TypeCorrect, PTL DEF Spec

-----------------------------------------------------------------------------
(* Refinement.  Each step of the queue is a step of the channel or leaves  *)
(* the channel's variables as they are.                                    *)

LEMMA ResumeKeepsRequest ==
  ASSUME TypeOK, NEW t \in Threads, Resume(t)
  PROVE  request' = request
<1>1. \A u \in Threads : /\ op'[u] = "take" <=> op[u] = "take"
                         /\ op'[u] = "takeTimeout" <=> op[u] = "takeTimeout"
  BY DEF Resume, TypeOK
<1>2. QED
  BY <1>1 DEF request

LEMMA StepChannel ==
  TypeOK /\ [Next]_queueVars => [Promise!Next]_<<items, request>>
<1> SUFFICES ASSUME TypeOK, [Next]_queueVars
             PROVE  [Promise!Next]_<<items, request>>
  OBVIOUS
<1> USE DEF TypeOK, Ops, Taking
<1>1. CASE UNCHANGED queueVars
  BY <1>1 DEF queueVars, request
<1>2. ASSUME NEW t \in Threads, Put(t)
      PROVE  [Promise!Next]_<<items, request>>
  <2>1. PICK x \in Items : put_Queue(x)
    BY <1>2 DEF Put
  <2>2. request' = request
    <3>1. CASE waiting = {} /\ UNCHANGED <<waiting, op>>
      BY <3>1 DEF request
    <3>2. ASSUME NEW u \in waiting, Resume(u)
          PROVE  request' = request
      BY <3>2, ResumeKeepsRequest
    <3>3. QED
      BY <2>1, <3>1, <3>2 DEF put_Queue, signal_Condition
  <2>3. Promise!Send(x)
    BY <2>1, <2>2 DEF Promise!Send, put_Queue
  <2>4. QED
    BY <2>3 DEF Promise!Next
<1>3. ASSUME NEW t \in Threads, NEW function \in Taking \cup {"waitForItems"},
             Call(t, function)
      PROVE  [Promise!Next]_<<items, request>>
  <2>1. CASE function = "waitForItems"
    <3>1. request' = request
      BY <1>3, <2>1 DEF Call, request
    <3>2. QED
      BY <1>3, <3>1 DEF Call
  <2>2. CASE function \in Taking
    <3>1. request[t] = "none"
      BY <1>3 DEF Call, request
    <3>2. \E r \in {"blocking", "timed"} : request' = [request EXCEPT ![t] = r]
      BY <1>3, <2>2 DEF Call, request
    <3>3. Promise!Ask(t)
      BY <1>3, <3>1, <3>2 DEF Promise!Ask, Call
    <3>4. QED
      BY <3>3 DEF Promise!Next
  <2>3. QED
    BY <2>1, <2>2
<1>4. ASSUME NEW t \in Threads, tryTake_Queue(t)
      PROVE  [Promise!Next]_<<items, request>>
  <2>1. request' = request
    BY <1>4 DEF tryTake_Queue, request
  <2>2. CASE items = <<>>
    BY <1>4, <2>1, <2>2 DEF tryTake_Queue
  <2>3. CASE items # <<>>
    BY <1>4, <2>1, <2>3 DEF tryTake_Queue, Promise!Poll, Promise!Next
  <2>4. QED
    BY <2>2, <2>3
<1>5. ASSUME NEW t \in Threads, TakeFront(t)
      PROVE  [Promise!Next]_<<items, request>>
  <2>1. request[t] # "none"
    BY <1>5 DEF TakeFront, request
  <2>2. request' = [request EXCEPT ![t] = "none"]
    BY <1>5 DEF TakeFront, request
  <2>3. Promise!Deliver(t)
    BY <1>5, <2>1, <2>2 DEF Promise!Deliver, TakeFront
  <2>4. QED
    BY <2>3 DEF Promise!Next
<1>6. ASSUME NEW t \in Threads, wait_Condition(t)
      PROVE  [Promise!Next]_<<items, request>>
  BY <1>6 DEF wait_Condition, request
<1>7. ASSUME NEW t \in Threads, ItemsPresent(t)
      PROVE  [Promise!Next]_<<items, request>>
  BY <1>7 DEF ItemsPresent, request
<1>8. ASSUME NEW t \in Threads, TimeOut(t)
      PROVE  [Promise!Next]_<<items, request>>
  <2>1. request[t] = "timed"
    BY <1>8 DEF TimeOut, request
  <2>2. request' = [request EXCEPT ![t] = "none"]
    BY <1>8 DEF TimeOut, request
  <2>3. Promise!GiveUp(t)
    BY <1>8, <2>1, <2>2 DEF Promise!GiveUp, TimeOut
  <2>4. QED
    BY <2>3 DEF Promise!Next
<1>9. ASSUME NEW t \in Threads, SpuriousWakeup(t)
      PROVE  [Promise!Next]_<<items, request>>
  BY <1>9, ResumeKeepsRequest DEF SpuriousWakeup
<1>10. QED
  BY <1>1, <1>2, <1>3, <1>4, <1>5, <1>6, <1>7, <1>8, <1>9
  DEF Next, Client, Proceed

(* The safety part of the channel's promise, for any number of threads and *)
(* items: FIFO, exactly once, and no answer without an item but to a timed *)
(* request.                                                                *)
THEOREM QueueImplementsChannel == Spec => Promise!SafeSpec
<1>1. Init => Promise!Init
  BY DEF Init, Promise!Init, request
<1>2. QED
  BY <1>1, StepChannel, TypeCorrect, PTL
  DEF Spec, Promise!SafeSpec, Promise!channelVars
=============================================================================
