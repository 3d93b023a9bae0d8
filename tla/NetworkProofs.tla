---------------------------- MODULE NetworkProofs ----------------------------
(* What is proved of the lookups and the TLS requests in MCNetwork, for any  *)
(* addresses, any length of the lookup queue and any number of records.      *)
EXTENDS MCNetwork, FiniteSetTheorems, FunctionTheorems, SequenceTheorems, TLAPS

-----------------------------------------------------------------------------
(* Lookups.                                                                  *)

\* What it takes to use the lemmas of Queue.tla here.
LEMMA QueueFacts == /\ \A S : Q!Cardinality(S) = Cardinality(S) /\ (Q!IsFiniteSet(S) <=> IsFiniteSet(S))
                    /\ Q!IsFiniteSet({Lookup}) /\ MaxItems \in Nat
<1>1. ASSUME NEW S PROVE Q!Cardinality(S) = Cardinality(S)
  BY DEF Q!Cardinality, Cardinality
<1>2. ASSUME NEW S PROVE Q!IsFiniteSet(S) <=> IsFiniteSet(S)
  BY DEF Q!IsFiniteSet, IsFiniteSet
<1> QED BY <1>1, <1>2, FS_Singleton, AddressLookupAssumption

\* Steps that leave the queue's list alone, and the three that do not.
LEMMA QueuedSame == ASSUME items' = items, NEW a PROVE Queued(a)' = Queued(a)
BY DEF Queued, Q!Positions

LEMMA QueuedPut == ASSUME items \in Seq(Addresses), NEW b \in Addresses, NEW a,
                          items' = Append(items, b)
                   PROVE  Queued(a)' = Queued(a) + (IF a = b THEN 1 ELSE 0)
<1>1. Queued(a)' = Cardinality(Q!Positions(Append(items, b), a))
  BY DEF Queued, Q!Positions
<1>2. Queued(a) = Cardinality(Q!Positions(items, a))
  BY DEF Queued
<1> QED BY <1>1, <1>2, Q!AppendCounts, QueueFacts

LEMMA QueuedTaken ==
  ASSUME items \in Seq(Addresses), items # <<>>, NEW a, items' = Tail(items)
  PROVE  /\ Queued(a) = Queued(a)' + (IF a = Head(items) THEN 1 ELSE 0)
         /\ Queued(a)' \in Nat
<1>1. Queued(a)' = Cardinality(Q!Positions(Tail(items), a))
  BY DEF Queued, Q!Positions
<1>2. Tail(items) \in Seq(Addresses)
  BY HeadTailProperties
<1>3. Queued(a) = Cardinality(Q!Positions(items, a))
  BY DEF Queued
<1> QED BY <1>1, <1>2, <1>3, Q!TailCounts, Q!Counted, QueueFacts

LEMMA QueuedNone == ASSUME items' = <<>>, NEW a PROVE Queued(a)' = 0
<1>1. Q!Positions(items', a) = {}
  BY EmptySeq DEF Q!Positions
<1> QED BY <1>1, FS_EmptySet DEF Queued, Q!Positions

LEMMA QueuedIsNat == ASSUME TypeOK, NEW a PROVE Queued(a) \in Nat
BY Q!Counted, QueueFacts DEF TypeOK, Q!TypeOK, Queued

LEMMA InitIInv == Init => IInv
<1> SUFFICES ASSUME Init PROVE IInv
  OBVIOUS
<1>1. TypeOK
  BY EmptySeq DEF Init, Q!Init, TypeOK, Q!TypeOK, Q!Ops, Q!Taking
<1>2. \A a \in Addresses : Queued(a) = 0
  <2>1. ASSUME NEW a \in Addresses PROVE Q!Positions(items, a) = {}
    BY EmptySeq DEF Init, Q!Init, Q!Positions
  <2> QED BY <2>1, FS_EmptySet DEF Queued
<1> QED BY <1>1, <1>2 DEF Init, IInv, One, Pending, Referenced, Caller, Startable

\* Callers past their wait are in none of the other functions' waits.
LEMMA PastTypes == ASSUME TypeOK, NEW W \in SUBSET Addresses, Past(W),
                          \A a \in W : call[a] \in {"wait", "lookup"}
                   PROVE  /\ call' \in [Addresses -> {"none", "wait", "lookup", "reset", "put"}]
                          /\ blocked' \subseteq Addresses /\ early' \subseteq Addresses
                          /\ \A a \in blocked' : call'[a] \in {"wait", "lookup"}
BY DEF Past, TypeOK

\* The callers' own steps, but for the one that queues an address.
LEMMA CallerKeeps == ASSUME IInv, NEW a \in Addresses,
                            \/ Begin(a, "lookup") \/ Begin(a, "wait") \/ Reset(a) \/ Release(a)
                            \/ waitForFinished_Address(a) \/ SpuriousWakeup(a)
                     PROVE  IInv'
<1>t. TypeOK
  BY DEF IInv
<1>s. Startable
  BY DEF IInv
<1>o. \A b \in Addresses : One(b) /\ Referenced(b) /\ Caller(b)
  BY DEF IInv
<1>n. \A b \in Addresses : Queued(b) \in Nat /\ refs[b] \in Nat
  BY <1>t, QueuedIsNat DEF TypeOK
<1> USE DEF queueVars, threadVars, callerVars, Q!queueVars
<1>1. ASSUME NEW c \in {"wait", "lookup"}, Begin(a, c) PROVE IInv'
  <2>1. TypeOK'
    BY <1>1, <1>t DEF Begin, TypeOK, Q!TypeOK
  <2>2. Startable'
    BY <1>1, <1>t, <1>s DEF Begin, TypeOK, Startable
  <2>3. \A b \in Addresses : Queued(b)' = Queued(b)
    BY <1>1, QueuedSame DEF Begin
  <2>4. ASSUME NEW b \in Addresses PROVE (One(b) /\ Referenced(b) /\ Caller(b))'
    BY <1>1, <1>t, <1>n, <1>o, <2>3 DEF Begin, TypeOK, One, Pending, Referenced, Caller
  <2> QED BY <2>1, <2>2, <2>4 DEF IInv
<1>2. CASE waitForFinished_Address(a)
  <2>1. TypeOK'
    BY <1>2, <1>t, PastTypes DEF waitForFinished_Address, TypeOK, Q!TypeOK
  <2>2. Startable'
    BY <1>2, <1>t, <1>s DEF waitForFinished_Address, TypeOK, Startable
  <2>3. \A b \in Addresses : Queued(b)' = Queued(b)
    BY <1>2, QueuedSame DEF waitForFinished_Address
  <2>4. ASSUME NEW b \in Addresses PROVE (One(b) /\ Referenced(b) /\ Caller(b))'
    BY <1>2, <1>t, <1>n, <1>o, <2>3
       DEF waitForFinished_Address, Past, TypeOK, One, Pending, Referenced, Caller
  <2> QED BY <2>1, <2>2, <2>4 DEF IInv
<1>3. CASE SpuriousWakeup(a)
  <2>1. TypeOK'
    BY <1>3, <1>t, PastTypes DEF SpuriousWakeup, TypeOK, Q!TypeOK
  <2>2. Startable'
    BY <1>3, <1>t, <1>s DEF SpuriousWakeup, TypeOK, Startable
  <2>3. \A b \in Addresses : Queued(b)' = Queued(b)
    BY <1>3, QueuedSame DEF SpuriousWakeup
  <2>4. ASSUME NEW b \in Addresses PROVE (One(b) /\ Referenced(b) /\ Caller(b))'
    BY <1>3, <1>t, <1>n, <1>o, <2>3
       DEF SpuriousWakeup, Past, TypeOK, One, Pending, Referenced, Caller
  <2> QED BY <2>1, <2>2, <2>4 DEF IInv
<1>4. CASE Reset(a)
  <2>1. TypeOK'
    BY <1>4, <1>t DEF Reset, TypeOK, Q!TypeOK
  <2>2. Startable'
    BY <1>4, <1>t, <1>s DEF Reset, TypeOK, Startable
  <2>3. \A b \in Addresses : Queued(b)' = Queued(b)
    BY <1>4, QueuedSame DEF Reset
  <2>4. ASSUME NEW b \in Addresses PROVE (One(b) /\ Referenced(b) /\ Caller(b))'
    BY <1>4, <1>t, <1>n, <1>o, <2>3 DEF Reset, TypeOK, One, Pending, Referenced, Caller
  <2> QED BY <2>1, <2>2, <2>4 DEF IInv
<1>5. CASE Release(a)
  <2>1. TypeOK'
    <3>1. refs[a] - 1 \in Nat
      BY <1>5, <1>n, <1>o DEF Release, Referenced
    <3> QED BY <1>5, <1>t, <3>1 DEF Release, TypeOK, Q!TypeOK
  <2>2. Startable'
    BY <1>5, <1>t, <1>s DEF Release, TypeOK, Startable
  <2>3. \A b \in Addresses : Queued(b)' = Queued(b)
    BY <1>5, QueuedSame DEF Release
  <2>4. ASSUME NEW b \in Addresses PROVE (One(b) /\ Referenced(b) /\ Caller(b))'
    BY <1>5, <1>t, <1>n, <1>o, <2>3 DEF Release, TypeOK, One, Pending, Referenced, Caller
  <2> QED BY <2>1, <2>2, <2>4 DEF IInv
<1> QED BY <1>1, <1>2, <1>3, <1>4, <1>5

\* A signal leaves the queue's functions where they were or past their wait.
LEMMA SignalKeeps == ASSUME TypeOK, Q!signal_Condition
                     PROVE  /\ waiting' \subseteq {Lookup} /\ op' \in [{Lookup} -> Q!Ops]
                            /\ \A t \in waiting' : op'[t] \in Q!Taking \cup {"waitForItems"}
                            /\ op'[Lookup] # "idle" <=> op[Lookup] # "idle"
<1>1. ASSUME NEW t \in waiting, Q!Resume(t)
      PROVE  /\ waiting' = waiting \ {t} /\ t = Lookup
             /\ op' = [op EXCEPT ![Lookup] = IF @ = "waitForItems" THEN "waited" ELSE @]
  BY <1>1 DEF Q!Resume, TypeOK, Q!TypeOK
<1>2. CASE waiting = {} /\ UNCHANGED <<waiting, op>>
  BY <1>2 DEF TypeOK, Q!TypeOK
<1>3. CASE \E t \in waiting : Q!Resume(t)
  BY <1>1, <1>3 DEF TypeOK, Q!TypeOK, Q!Ops, Q!Taking
<1> QED BY <1>2, <1>3 DEF Q!signal_Condition

\* Queueing an address: one more is queued, none is about to be.
LEMMA EnqueueKeeps == ASSUME IInv, NEW a \in Addresses, Enqueue(a) PROVE IInv'
<1>t. TypeOK
  BY DEF IInv
<1>s. Startable
  BY DEF IInv
<1>o. \A b \in Addresses : One(b) /\ Referenced(b) /\ Caller(b)
  BY DEF IInv
<1>n. \A b \in Addresses : Queued(b) \in Nat /\ refs[b] \in Nat
  BY <1>t, QueuedIsNat DEF TypeOK
<1> USE DEF queueVars, threadVars, callerVars, Q!queueVars
<1>1. items' = Append(items, a) /\ items' \in Seq(Addresses)
  BY <1>t, AppendProperties DEF Enqueue, Q!put_Queue, TypeOK, Q!TypeOK
<1>2. phase = "open" /\ (~lookupThread => thd = "none")
  BY <1>s, <1>o DEF Enqueue, Startable, Caller
<1>3. TypeOK'
  BY <1>t, <1>1, <1>2, SignalKeeps DEF Enqueue, Q!put_Queue, TypeOK, Q!TypeOK
<1>4. Startable'
  BY <1>2 DEF Enqueue, Startable
<1>5. \A b \in Addresses : Queued(b)' = Queued(b) + (IF b = a THEN 1 ELSE 0)
  BY <1>t, <1>1, QueuedPut DEF TypeOK, Q!TypeOK
<1>6. ASSUME NEW b \in Addresses PROVE (One(b) /\ Referenced(b) /\ Caller(b))'
  <2>1. One(b)'
    BY <1>t, <1>n, <1>o, <1>2, <1>5 DEF Enqueue, One, Pending, TypeOK
  <2>2. Referenced(b)'
    BY <1>t, <1>n, <1>o, <1>5 DEF Enqueue, Referenced, TypeOK
  <2>3. Caller(b)'
    BY <1>t, <1>o DEF Enqueue, Caller, TypeOK
  <2> QED BY <2>1, <2>2, <2>3
<1> QED BY <1>3, <1>4, <1>6 DEF IInv

\* The lookup thread.
LEMMA ThreadKeeps == ASSUME IInv, LookupStep \/ QueueSpurious PROVE IInv'
<1>t. TypeOK
  BY DEF IInv
<1>s. Startable
  BY DEF IInv
<1>o. \A b \in Addresses : One(b) /\ Referenced(b) /\ Caller(b)
  BY DEF IInv
<1>n. \A b \in Addresses : Queued(b) \in Nat /\ refs[b] \in Nat
  BY <1>t, QueuedIsNat DEF TypeOK
<1> USE DEF queueVars, threadVars, callerVars, Q!queueVars
<1>1. CASE Check
  <2>1. TypeOK'
    BY <1>1, <1>t DEF Check, Q!Call, TypeOK, Q!TypeOK, Q!Ops, Q!Taking
  <2>2. Startable'
    BY <1>1, <1>t, <1>s DEF Check, Q!Call, TypeOK, Startable
  <2>3. \A b \in Addresses : Queued(b)' = Queued(b)
    BY <1>1, QueuedSame DEF Check, Q!Call
  <2>4. ASSUME NEW b \in Addresses PROVE (One(b) /\ Referenced(b) /\ Caller(b))'
    BY <1>1, <1>t, <1>n, <1>o, <2>3
       DEF Check, Q!Call, TypeOK, One, Pending, Referenced, Caller
  <2> QED BY <2>1, <2>2, <2>4 DEF IInv
<1>2. CASE Wait
  <2>1. TypeOK'
    BY <1>2, <1>t
       DEF Wait, Q!wait_Condition, Q!ItemsPresent, TypeOK, Q!TypeOK, Q!Ops, Q!Taking
  <2>2. Startable'
    BY <1>2, <1>t, <1>s DEF Wait, Q!wait_Condition, Q!ItemsPresent, TypeOK, Startable
  <2>3. \A b \in Addresses : Queued(b)' = Queued(b)
    BY <1>2, QueuedSame DEF Wait, Q!wait_Condition, Q!ItemsPresent
  <2>4. ASSUME NEW b \in Addresses PROVE (One(b) /\ Referenced(b) /\ Caller(b))'
    BY <1>2, <1>t, <1>n, <1>o, <2>3
       DEF Wait, Q!wait_Condition, Q!ItemsPresent, TypeOK, One, Pending, Referenced,
           Caller
  <2> QED BY <2>1, <2>2, <2>4 DEF IInv
<1>3. CASE QueueSpurious
  <2>1. TypeOK'
    BY <1>3, <1>t
       DEF QueueSpurious, Q!SpuriousWakeup, Q!Resume, TypeOK, Q!TypeOK, Q!Ops, Q!Taking
  <2>2. Startable'
    BY <1>3, <1>t, <1>s DEF QueueSpurious, Q!SpuriousWakeup, Q!Resume, TypeOK, Startable
  <2>3. \A b \in Addresses : Queued(b)' = Queued(b)
    BY <1>3, QueuedSame DEF QueueSpurious, Q!SpuriousWakeup, Q!Resume
  <2>4. ASSUME NEW b \in Addresses PROVE (One(b) /\ Referenced(b) /\ Caller(b))'
    BY <1>3, <1>t, <1>n, <1>o, <2>3
       DEF QueueSpurious, Q!SpuriousWakeup, Q!Resume, TypeOK, One, Pending, Referenced,
           Caller
  <2> QED BY <2>1, <2>2, <2>4 DEF IInv
<1>4. CASE Take
  <2>e. thd = "take" /\ current = {}
    BY <1>4, <1>t DEF Take, TypeOK
  <2>1. CASE items = <<>>
    <3>1. \A b \in Addresses : Queued(b)' = Queued(b)
      BY <1>4, <2>1, QueuedSame DEF Take, Q!tryTake_Queue
    <3>2. TypeOK'
      BY <1>4, <1>t, <2>1, <2>e
         DEF Take, Q!tryTake_Queue, TypeOK, Q!TypeOK, Q!Ops, Q!Taking
    <3>3. Startable'
      BY <1>4, <1>s, <2>1, <2>e DEF Take, Startable
    <3>4. ASSUME NEW b \in Addresses PROVE (One(b) /\ Referenced(b) /\ Caller(b))'
      BY <1>4, <1>t, <1>n, <1>o, <2>1, <2>e, <3>1
         DEF Take, One, Pending, Referenced, Caller
    <3> QED BY <3>2, <3>3, <3>4 DEF IInv
  <2>2. CASE items # <<>>
    <3>1. Head(items) \in Addresses /\ Tail(items) \in Seq(Addresses) /\ items' = Tail(items)
      BY <1>4, <1>t, <2>2, HeadTailProperties DEF Take, Q!tryTake_Queue, TypeOK, Q!TypeOK
    <3>2. \A b \in Addresses : /\ Queued(b) = Queued(b)' + (IF b = Head(items) THEN 1 ELSE 0)
                               /\ Queued(b)' \in Nat
      BY <1>t, <2>2, <3>1, QueuedTaken DEF TypeOK, Q!TypeOK
    <3>3. TypeOK'
      BY <1>4, <1>t, <2>2, <2>e, <3>1
         DEF Take, Q!tryTake_Queue, TypeOK, Q!TypeOK, Q!Ops, Q!Taking
    <3>4. Startable'
      BY <1>4, <1>s, <2>2, <2>e DEF Take, Startable
    <3>5. ASSUME NEW b \in Addresses PROVE (One(b) /\ Referenced(b) /\ Caller(b))'
      BY <1>4, <1>t, <1>n, <1>o, <2>2, <2>e, <3>1, <3>2
         DEF Take, One, Pending, Referenced, Caller
    <3> QED BY <3>3, <3>4, <3>5 DEF IInv
  <2> QED BY <2>1, <2>2
<1>5. CASE Publish
  <2>1. TypeOK'
    BY <1>5, <1>t DEF Publish, TypeOK, Q!TypeOK
  <2>2. Startable'
    BY <1>5, <1>t, <1>s DEF Publish, TypeOK, Startable
  <2>3. \A b \in Addresses : Queued(b)' = Queued(b)
    BY <1>5, QueuedSame DEF Publish
  <2>4. ASSUME NEW b \in Addresses PROVE (One(b) /\ Referenced(b) /\ Caller(b))'
    BY <1>5, <1>t, <1>n, <1>o, <2>3 DEF Publish, TypeOK, One, Pending, Referenced, Caller
  <2> QED BY <2>1, <2>2, <2>4 DEF IInv
<1>6. CASE signalAll_Condition
  <2>1. TypeOK'
    BY <1>6, <1>t, PastTypes DEF signalAll_Condition, TypeOK, Q!TypeOK
  <2>2. Startable'
    BY <1>6, <1>t, <1>s DEF signalAll_Condition, TypeOK, Startable
  <2>3. \A b \in Addresses : Queued(b)' = Queued(b)
    BY <1>6, QueuedSame DEF signalAll_Condition
  <2>4. ASSUME NEW b \in Addresses PROVE (One(b) /\ Referenced(b) /\ Caller(b))'
    BY <1>6, <1>t, <1>n, <1>o, <2>3
       DEF signalAll_Condition, Past, TypeOK, One, Pending, Referenced, Caller
  <2> QED BY <2>1, <2>2, <2>4 DEF IInv
<1>7. CASE ReleaseItem
  <2>1. TypeOK'
    <3>1. refs' \in [Addresses -> Nat]
      BY <1>7, <1>n, <1>o DEF ReleaseItem, Referenced
    <3> QED BY <1>7, <1>t, <3>1 DEF ReleaseItem, TypeOK, Q!TypeOK
  <2>2. Startable'
    BY <1>7, <1>t, <1>s DEF ReleaseItem, TypeOK, Startable
  <2>3. \A b \in Addresses : Queued(b)' = Queued(b)
    BY <1>7, QueuedSame DEF ReleaseItem
  <2>4. ASSUME NEW b \in Addresses PROVE (One(b) /\ Referenced(b) /\ Caller(b))'
    BY <1>7, <1>t, <1>n, <1>o, <2>3
       DEF ReleaseItem, TypeOK, One, Pending, Referenced, Caller
  <2> QED BY <2>1, <2>2, <2>4 DEF IInv
<1> QED BY <1>1, <1>2, <1>3, <1>4, <1>5, <1>6, <1>7 DEF LookupStep

\* The end of the library.
LEMMA DeinitKeeps == ASSUME IInv, BeginDeinit \/ DeinitStep PROVE IInv'
<1>t. TypeOK
  BY DEF IInv
<1>s. Startable
  BY DEF IInv
<1>o. \A b \in Addresses : One(b) /\ Referenced(b) /\ Caller(b)
  BY DEF IInv
<1>n. \A b \in Addresses : Queued(b) \in Nat /\ refs[b] \in Nat
  BY <1>t, QueuedIsNat DEF TypeOK
<1> USE DEF queueVars, threadVars, callerVars, Q!queueVars
<1>1. CASE BeginDeinit
  <2>1. TypeOK'
    BY <1>1, <1>t DEF BeginDeinit, TypeOK, Q!TypeOK
  <2>2. Startable'
    BY <1>1, <1>t, <1>s DEF BeginDeinit, TypeOK, Startable
  <2>3. \A b \in Addresses : Queued(b)' = Queued(b)
    BY <1>1, QueuedSame DEF BeginDeinit
  <2>4. ASSUME NEW b \in Addresses PROVE (One(b) /\ Referenced(b) /\ Caller(b))'
    BY <1>1, <1>t, <1>n, <1>o, <2>3
       DEF BeginDeinit, TypeOK, One, Pending, Referenced, Caller
  <2> QED BY <2>1, <2>2, <2>4 DEF IInv
<1>2. CASE SignalStop
  <2>1. TypeOK'
    BY <1>2, <1>t, SignalKeeps DEF SignalStop, TypeOK, Q!TypeOK
  <2>2. Startable'
    BY <1>2, <1>t, <1>s DEF SignalStop, TypeOK, Startable
  <2>3. \A b \in Addresses : Queued(b)' = Queued(b)
    BY <1>2, QueuedSame DEF SignalStop
  <2>4. ASSUME NEW b \in Addresses PROVE (One(b) /\ Referenced(b) /\ Caller(b))'
    BY <1>2, <1>t, <1>n, <1>o, <2>3
       DEF SignalStop, TypeOK, One, Pending, Referenced, Caller
  <2> QED BY <2>1, <2>2, <2>4 DEF IInv
<1>3. CASE EndDeinit
  <2>1. \A b \in Addresses : Queued(b)' = 0
    BY <1>3, QueuedNone DEF EndDeinit
  <2>2. TypeOK'
    <3>1. refs' \in [Addresses -> Nat]
      BY <1>3, <1>n, <1>o DEF EndDeinit, Referenced
    <3>2. items' \in Seq(Addresses)
      BY <1>3, EmptySeq DEF EndDeinit
    <3> QED BY <1>3, <1>t, <3>1, <3>2 DEF EndDeinit, TypeOK, Q!TypeOK
  <2>3. Startable'
    BY <1>3 DEF EndDeinit, Startable
  <2>4. ASSUME NEW b \in Addresses PROVE (One(b) /\ Referenced(b) /\ Caller(b))'
    BY <1>3, <1>t, <1>n, <1>o, <2>1 DEF EndDeinit, One, Referenced, Caller
  <2> QED BY <2>2, <2>3, <2>4 DEF IInv
<1> QED BY <1>1, <1>2, <1>3 DEF DeinitStep

LEMMA IInvStep == IInv /\ [Next]_vars => IInv'
<1> SUFFICES ASSUME IInv, [Next]_vars PROVE IInv'
  OBVIOUS
<1>1. CASE Next
  BY <1>1, CallerKeeps, EnqueueKeeps, ThreadKeeps, DeinitKeeps DEF Next, CallerStep
<1>2. CASE UNCHANGED vars
  <2>1. \A b \in Addresses : Queued(b)' = Queued(b)
    BY <1>2, QueuedSame DEF vars, queueVars
  <2> QED BY <1>2, <2>1 DEF vars, queueVars, threadVars, callerVars, IInv, TypeOK, Q!TypeOK,
             Startable, One, Pending, Referenced, Caller
<1> QED BY <1>1, <1>2

-----------------------------------------------------------------------------
(* TLS requests.  First what the sequences of records come to.               *)

LEMMA DataIsNat == ASSUME NEW s \in Seq(T!Records)
                   PROVE  /\ IsFiniteSet({i \in 1..Len(s) : s[i] = "data"})
                          /\ T!DataIn(s) = Cardinality({i \in 1..Len(s) : s[i] = "data"})
                          /\ T!DataIn(s) \in Nat
<1> DEFINE D == {i \in 1..Len(s) : s[i] = "data"}
<1>1. IsFiniteSet(1..Len(s))
  BY LenProperties, FS_Interval
<1>2. D \in SUBSET (1..Len(s))
  OBVIOUS
<1>3. IsFiniteSet(D) /\ Cardinality(D) \in Nat
  BY <1>1, <1>2, FS_Subset, FS_CardinalityType
<1>4. T!DataIn(s) = Cardinality(D)
  BY DEF T!DataIn, T!Cardinality, Cardinality
<1> QED BY <1>3, <1>4

LEMMA DataInEmpty == T!DataIn(<<>>) = 0
<1>1. {i \in 1..Len(<<>>) : <<>>[i] = "data"} = {}
  BY EmptySeq
<1> QED BY <1>1, FS_EmptySet, DataIsNat, EmptySeq

LEMMA DataInConcat ==
  ASSUME NEW s \in Seq(T!Records), NEW t \in Seq(T!Records)
  PROVE  T!DataIn(s \o t) = T!DataIn(s) + T!DataIn(t)
<1> DEFINE C == {i \in 1..Len(s) : s[i] = "data"}
           D == {i \in 1..Len(t) : t[i] = "data"}
           E == {i \in 1..Len(s \o t) : (s \o t)[i] = "data"}
           F == E \ C
<1>1. /\ Len(s) \in Nat /\ Len(t) \in Nat /\ s \o t \in Seq(T!Records)
      /\ Len(s \o t) = Len(s) + Len(t)
      /\ \A i \in 1..(Len(s) + Len(t)) : (s \o t)[i] = IF i <= Len(s) THEN s[i] ELSE t[i - Len(s)]
  BY LenProperties, ConcatProperties
<1>2. /\ IsFiniteSet(C) /\ IsFiniteSet(D) /\ IsFiniteSet(E)
      /\ T!DataIn(s) = Cardinality(C) /\ T!DataIn(t) = Cardinality(D)
      /\ T!DataIn(s \o t) = Cardinality(E)
      /\ Cardinality(C) \in Nat /\ Cardinality(D) \in Nat
  BY <1>1, DataIsNat
<1>3. /\ \A i : i \in C <=> i \in 1..Len(s) /\ s[i] = "data"
      /\ \A i : i \in D <=> i \in 1..Len(t) /\ t[i] = "data"
      /\ \A i : i \in E <=> i \in 1..(Len(s) + Len(t)) /\ (s \o t)[i] = "data"
  BY <1>1
<1> HIDE DEF C, D, E
<1>4. \A i : i \in C => i \in E
  BY <1>1, <1>3
<1>5. \A i : i \in F <=> i \in (Len(s) + 1)..(Len(s) + Len(t)) /\ t[i - Len(s)] = "data"
  BY <1>1, <1>3
<1>6. E \cap C = C
  BY <1>4
<1>7. Cardinality(F) = Cardinality(E) - Cardinality(C) /\ Cardinality(E) \in Nat
  <2>1. Cardinality(E \ C) = Cardinality(E) - Cardinality(E \cap C)
    BY <1>2, FS_Difference
  <2> QED BY <1>2, <1>6, <2>1, FS_CardinalityType
<1> HIDE DEF F
<1>8. Cardinality(F) = Cardinality(D)
  <2> DEFINE shift == [i \in D |-> Len(s) + i]
  <2>1. shift \in [D -> F]
    <3>1. ASSUME NEW i \in D PROVE Len(s) + i \in F
      <4>1. i \in 1..Len(t) /\ t[i] = "data" /\ (Len(s) + i) - Len(s) = i
        BY <1>1, <1>3
      <4> QED BY <1>1, <1>5, <4>1
    <3> QED BY <3>1
  <2>2. \A i, j \in D : shift[i] = shift[j] => i = j
    BY <1>1, <1>3
  <2>3. ASSUME NEW j \in F PROVE \E i \in D : shift[i] = j
    <3>1. j - Len(s) \in D /\ Len(s) + (j - Len(s)) = j
      <4>1. j \in (Len(s) + 1)..(Len(s) + Len(t)) /\ t[j - Len(s)] = "data"
        BY <1>5, <2>3
      <4>2. j - Len(s) \in 1..Len(t) /\ Len(s) + (j - Len(s)) = j
        BY <1>1, <4>1
      <4> QED BY <1>3, <4>1, <4>2
    <3>2. shift[j - Len(s)] = Len(s) + (j - Len(s))
      BY <3>1
    <3> QED BY <3>1, <3>2
  <2>4. shift \in Bijection(D, F)
    BY <2>1, <2>2, <2>3, Fun_IsBij
  <2> QED BY <1>2, <2>4, FS_Bijection DEF ExistsBijection
<1> QED BY <1>2, <1>7, <1>8

LEMMA Contained ==
  /\ \A r : ~T!Contains(<<>>, r)
  /\ \A s, t \in Seq(T!Records) : /\ s \o t \in Seq(T!Records)
       /\ \A r : T!Contains(s \o t, r) <=> T!Contains(s, r) \/ T!Contains(t, r)
  /\ \A s \in Seq(T!Records), q \in T!Records : /\ Append(s, q) \in Seq(T!Records)
       /\ \A r : T!Contains(Append(s, q), r) <=> T!Contains(s, r) \/ r = q
<1>1. ASSUME NEW r PROVE ~T!Contains(<<>>, r)
  BY EmptySeq DEF T!Contains
<1>2. ASSUME NEW s \in Seq(T!Records), NEW t \in Seq(T!Records)
      PROVE  /\ s \o t \in Seq(T!Records)
             /\ \A r : T!Contains(s \o t, r) <=> T!Contains(s, r) \/ T!Contains(t, r)
  <2>1. /\ Len(s) \in Nat /\ Len(t) \in Nat /\ s \o t \in Seq(T!Records)
        /\ Len(s \o t) = Len(s) + Len(t)
        /\ \A i \in 1..(Len(s) + Len(t)) : (s \o t)[i] = IF i <= Len(s) THEN s[i] ELSE t[i - Len(s)]
    BY LenProperties, ConcatProperties
  <2>2. ASSUME NEW r, NEW i \in 1..Len(t), t[i] = r
        PROVE  \E k \in 1..Len(s \o t) : (s \o t)[k] = r
    <3>1. /\ Len(s) + i \in 1..(Len(s) + Len(t)) /\ ~(Len(s) + i <= Len(s))
          /\ (Len(s) + i) - Len(s) = i
      BY <2>1
    <3>2. (s \o t)[Len(s) + i] = r
      BY <2>1, <2>2, <3>1
    <3> QED BY <2>1, <3>1, <3>2
  <2>3. ASSUME NEW r, NEW i \in 1..Len(s), s[i] = r
        PROVE  \E k \in 1..Len(s \o t) : (s \o t)[k] = r
    <3>1. i \in 1..(Len(s) + Len(t)) /\ i <= Len(s)
      BY <2>1
    <3> QED BY <2>1, <2>3, <3>1
  <2>4. ASSUME NEW r, NEW k \in 1..Len(s \o t), (s \o t)[k] = r
        PROVE  (\E i \in 1..Len(s) : s[i] = r) \/ (\E i \in 1..Len(t) : t[i] = r)
    <3>1. CASE k <= Len(s)
      BY <2>1, <2>4, <3>1
    <3>2. CASE ~(k <= Len(s))
      <4>1. k - Len(s) \in 1..Len(t) /\ t[k - Len(s)] = r
        BY <2>1, <2>4, <3>2
      <4> QED BY <4>1
    <3> QED BY <3>1, <3>2
  <2> QED BY <2>1, <2>2, <2>3, <2>4 DEF T!Contains
<1>3. ASSUME NEW s \in Seq(T!Records), NEW q \in T!Records
      PROVE  /\ Append(s, q) \in Seq(T!Records)
             /\ \A r : T!Contains(Append(s, q), r) <=> T!Contains(s, r) \/ r = q
  <2>1. /\ Append(s, q) \in Seq(T!Records) /\ Len(s) \in Nat
        /\ Len(Append(s, q)) = Len(s) + 1 /\ Append(s, q)[Len(s) + 1] = q
        /\ \A i \in 1..Len(s) : Append(s, q)[i] = s[i]
    BY LenProperties, AppendProperties
  <2>2. Len(s) + 1 \in 1..(Len(s) + 1)
        /\ \A i : i \in 1..(Len(s) + 1) <=> i \in 1..Len(s) \/ i = Len(s) + 1
    BY <2>1
  <2> QED BY <2>1, <2>2 DEF T!Contains
<1> QED BY <1>1, <1>2, <1>3


LEMMA Singly == ASSUME NEW s \in Seq(T!Records), NEW r \in T!Records
                PROVE  /\ T!DataIn(Append(s, r)) = T!DataIn(s) + T!DataIn(<<r>>)
                       /\ T!DataIn(<<r>>) \in Nat
<1>1. <<r>> \in Seq(T!Records) /\ Append(s, r) = s \o <<r>>
  BY AppendIsConcat
<1> QED BY <1>1, DataInConcat, DataIsNat

LEMMA RequestInit == T!Init => T!IInv
<1> SUFFICES ASSUME T!Init PROVE T!IInv
  OBVIOUS
<1> USE DEF T!Init
<1>1. T!Flags
  BY DEF T!Flags
<1>2. <<>> \in Seq(T!Records)
  BY EmptySeq
<1>3. T!TypeOK
  BY <1>1, <1>2 DEF T!TypeOK
<1>4. T!Conserved
  BY DataInEmpty DEF T!Conserved
<1>5. T!Arrived
  BY Contained DEF T!Arrived
<1>6. T!Order /\ T!Told
  BY Contained DEF T!Order, T!Told, T!Ended
<1> QED BY <1>3, <1>4, <1>5, <1>6 DEF T!IInv

\* The Boolean variables keep their type.
LEMMA RequestFlags == ASSUME T!Flags, T!Next PROVE T!Flags'
<1> USE DEF T!Flags, T!sslVars, T!peerVars, T!callVars
<1>1. CASE T!RunStep \/ T!SpuriousWakeup
  BY <1>1 DEF T!RunStep, T!SpuriousWakeup, T!RunStart, T!Encrypt, T!ReadIncoming, T!CheckStatus,
              T!WaitIncoming, T!ReadLast, T!NotifyFinished, T!readIncoming_TlsRequest_, T!ThreadGoes
<1>2. CASE T!ConnStep
  BY <1>2 DEF T!ConnStep, T!Connects, T!Fails, T!GivesUp, T!connected_TlsRequest_,
              T!handleError_TlsRequest_, T!NotifyFailed, T!ConnGoes
<1>3. CASE T!IoStep
  BY <1>3 DEF T!IoStep, T!gotIncoming_TlsRequest_, T!Send, T!PeerClosed,
              T!disconnected_TlsRequest_, T!IoSignal, T!IoStops, T!IoGoes
<1>4. CASE (\E r \in T!Records : T!PeerSends(r)) \/ T!PeerHangsUp
  BY <1>4 DEF T!PeerSends, T!PeerHangsUp
<1>5. CASE T!waitForFinished_TlsRequest \/ T!WaiterWakesEarly
  BY <1>5 DEF T!waitForFinished_TlsRequest, T!WaiterWakesEarly
<1>6. CASE T!submit_TlsRequest \/ T!cancel_TlsRequest \/ T!deinit_TlsRequest \/ T!FlushWakesEarly
  BY <1>6 DEF T!submit_TlsRequest, T!cancel_TlsRequest, T!deinit_TlsRequest, T!FlushWakesEarly,
              T!CallerGoes
<1>7. CASE T!CallerStep
  BY <1>7 DEF T!CallerStep, T!Close, T!StopIo, T!Disconnecting, T!JoinConn, T!Shutdown,
              T!CallerSignal, T!JoinThread, T!DeinitStatus, T!ReleaseSocket, T!CallerGoes
<1> QED BY <1>1, <1>2, <1>3, <1>4, <1>5, <1>6, <1>7 DEF T!Next

\* A step that leaves the records where they are.
LEMMA RecordsStay ==
  ASSUME T!IInv, UNCHANGED <<incoming, net, sent, result>>
  PROVE  T!Conserved' /\ T!Arrived'
BY DEF T!IInv, T!Conserved, T!Arrived

LEMMA RunKeeps ==
  ASSUME T!IInv, T!Flags',
         \/ T!RunStart \/ T!Encrypt \/ T!CheckStatus \/ T!WaitIncoming \/ T!NotifyFinished
         \/ T!SpuriousWakeup
  PROVE  T!IInv'
<1> USE DEF T!IInv, T!TypeOK, T!Order, T!NoMore, T!Told, T!Ended, T!sslVars, T!peerVars,
            T!callVars, T!ThreadGoes
<1>1. UNCHANGED <<incoming, net, sent, result>>
  BY DEF T!RunStart, T!Encrypt, T!CheckStatus, T!WaitIncoming, T!NotifyFinished, T!SpuriousWakeup
<1>2. CASE T!RunStart
  BY <1>1, <1>2, RecordsStay DEF T!RunStart
<1>3. CASE T!Encrypt
  BY <1>1, <1>3, RecordsStay DEF T!Encrypt, T!SetStatus
<1>4. CASE T!CheckStatus
  BY <1>1, <1>4, RecordsStay DEF T!CheckStatus
<1>5. CASE T!WaitIncoming \/ T!SpuriousWakeup
  BY <1>1, <1>5, RecordsStay DEF T!WaitIncoming, T!SpuriousWakeup
<1>6. CASE T!NotifyFinished
  BY <1>1, <1>6, RecordsStay DEF T!NotifyFinished
<1> QED BY <1>2, <1>3, <1>4, <1>5, <1>6

LEMMA ConnKeeps == ASSUME T!IInv, T!Flags', T!ConnStep PROVE T!IInv'
<1> USE DEF T!IInv, T!TypeOK, T!Order, T!NoMore, T!Told, T!Ended, T!sslVars, T!peerVars,
            T!callVars, T!ConnGoes
<1>1. UNCHANGED <<incoming, net, sent, result>>
  BY DEF T!ConnStep, T!Connects, T!Fails, T!GivesUp, T!connected_TlsRequest_,
         T!handleError_TlsRequest_, T!NotifyFailed
<1>2. CASE T!Connects
  BY <1>1, <1>2, RecordsStay DEF T!Connects
<1>3. CASE T!Fails
  BY <1>1, <1>3, RecordsStay DEF T!Fails
<1>4. CASE T!GivesUp
  BY <1>1, <1>4, RecordsStay DEF T!GivesUp
<1>5. CASE T!connected_TlsRequest_
  BY <1>1, <1>5, RecordsStay DEF T!connected_TlsRequest_
<1>6. CASE T!handleError_TlsRequest_
  BY <1>1, <1>6, RecordsStay DEF T!handleError_TlsRequest_, T!SetStatus
<1>7. CASE T!NotifyFailed
  BY <1>1, <1>7, RecordsStay DEF T!NotifyFailed
<1> QED BY <1>2, <1>3, <1>4, <1>5, <1>6, <1>7 DEF T!ConnStep

LEMMA IoKeeps ==
  ASSUME T!IInv, T!Flags',
         \/ T!Send \/ T!PeerClosed \/ T!disconnected_TlsRequest_ \/ T!IoSignal \/ T!IoStops
         \/ T!PeerHangsUp
  PROVE  T!IInv'
<1> USE DEF T!IInv, T!TypeOK, T!Order, T!NoMore, T!Told, T!Ended, T!sslVars, T!peerVars,
            T!callVars, T!IoGoes
<1>1. UNCHANGED <<incoming, net, sent, result>>
  BY DEF T!Send, T!PeerClosed, T!disconnected_TlsRequest_, T!IoSignal, T!IoStops, T!PeerHangsUp
<1>2. CASE T!Send
  BY <1>1, <1>2, RecordsStay DEF T!Send
<1>3. CASE T!PeerClosed
  BY <1>1, <1>3, RecordsStay DEF T!PeerClosed
<1>4. CASE T!disconnected_TlsRequest_
  BY <1>1, <1>4, RecordsStay DEF T!disconnected_TlsRequest_, T!AfterDisconnect, T!SetStatus
<1>5. CASE T!IoSignal
  BY <1>1, <1>5, RecordsStay DEF T!IoSignal, T!Signal
<1>6. CASE T!IoStops
  BY <1>1, <1>6, RecordsStay DEF T!IoStops
<1>7. CASE T!PeerHangsUp
  BY <1>1, <1>7, RecordsStay DEF T!PeerHangsUp
<1> QED BY <1>2, <1>3, <1>4, <1>5, <1>6, <1>7

LEMMA RequestCallerKeeps ==
  ASSUME T!IInv, T!Flags',
         \/ T!submit_TlsRequest \/ T!cancel_TlsRequest \/ T!deinit_TlsRequest \/ T!CallerStep
         \/ T!waitForFinished_TlsRequest \/ T!WaiterWakesEarly \/ T!FlushWakesEarly
  PROVE  T!IInv'
<1> USE DEF T!IInv, T!TypeOK, T!Order, T!NoMore, T!Told, T!Ended, T!sslVars, T!peerVars,
            T!callVars, T!CallerGoes
<1>1. UNCHANGED <<incoming, net, sent, result>>
  BY DEF T!submit_TlsRequest, T!cancel_TlsRequest, T!deinit_TlsRequest, T!CallerStep,
         T!waitForFinished_TlsRequest, T!WaiterWakesEarly, T!FlushWakesEarly, T!Close, T!StopIo,
         T!Disconnecting, T!JoinConn, T!Shutdown, T!CallerSignal, T!JoinThread, T!DeinitStatus,
         T!ReleaseSocket
<1>2. CASE T!submit_TlsRequest
  BY <1>1, <1>2, RecordsStay DEF T!submit_TlsRequest
<1>3. CASE T!cancel_TlsRequest
  BY <1>1, <1>3, RecordsStay DEF T!cancel_TlsRequest
<1>4. CASE T!deinit_TlsRequest
  BY <1>1, <1>4, RecordsStay DEF T!deinit_TlsRequest, T!Signal
<1>5. CASE T!waitForFinished_TlsRequest \/ T!WaiterWakesEarly
  BY <1>1, <1>5, RecordsStay DEF T!waitForFinished_TlsRequest, T!WaiterWakesEarly
<1>6. CASE T!FlushWakesEarly \/ T!Close \/ T!StopIo
  BY <1>1, <1>6, RecordsStay DEF T!FlushWakesEarly, T!Close, T!StopIo
<1>7. CASE T!Disconnecting
  BY <1>1, <1>7, RecordsStay DEF T!Disconnecting
<1>8. CASE T!JoinConn
  BY <1>1, <1>8, RecordsStay DEF T!JoinConn
<1>9. CASE T!Shutdown
  BY <1>1, <1>9, RecordsStay DEF T!Shutdown, T!AfterDisconnect, T!SetStatus
<1>10. CASE T!CallerSignal
  BY <1>1, <1>10, RecordsStay DEF T!CallerSignal, T!Signal
<1>11. CASE T!JoinThread
  BY <1>1, <1>11, RecordsStay DEF T!JoinThread
<1>12. CASE T!DeinitStatus
  BY <1>1, <1>12, RecordsStay DEF T!DeinitStatus
<1>13. CASE T!ReleaseSocket
  BY <1>1, <1>13, RecordsStay DEF T!ReleaseSocket
<1> QED BY <1>2, <1>3, <1>4, <1>5, <1>6, <1>7, <1>8, <1>9, <1>10, <1>11, <1>12, <1>13
        DEF T!CallerStep

(* readIncoming_TlsRequest_: the data goes to the result; a record with the  *)
(* end in it is the last.                                                    *)
LEMMA ReadKeeps == ASSUME T!IInv, T!Flags', T!ReadIncoming \/ T!ReadLast PROVE T!IInv'
<1> USE DEF T!ReadIncoming, T!ReadLast, T!readIncoming_TlsRequest_, T!processIncoming_TlsRequest_,
            T!ThreadGoes, T!peerVars, T!callVars
<1>1. /\ incoming' = <<>> /\ <<>> \in Seq(T!Records)
      /\ UNCHANGED <<net, sent, told, sending, output, link, conn, io, got, hungUp, caller, cancelled>>
      /\ result' = result + T!DataIn(incoming)
      /\ run \in {"read", "last"} /\ run' \in {"check", "encrypt", "notify"}
      /\ run' = "notify" => run = "last"
  BY EmptySeq
<1>2. /\ ssl' \in {ssl, "failed", "closed", "open"}
      /\ ssl = "failed" => ssl' = "failed"
      /\ ssl' = "closed" => ssl = "closed" \/ T!Contains(incoming, "close")
      /\ ssl' = "open" => \/ ssl \notin {"handshake", "failed", "closed"}
                          \/ T!Contains(incoming, "handshake")
      /\ ssl = "closed" => ssl' = "closed"
  BY DEF T!Handshaken
<1>3. /\ status' \in {status, "error", "finished"} /\ waiter' \in {waiter, "done"}
      /\ status' = status \/ ssl' = "failed" \/ (ssl' = "closed" /\ status' = "finished")
  BY DEF T!SetStatus
<1> HIDE DEF T!ReadIncoming, T!ReadLast, T!readIncoming_TlsRequest_, T!processIncoming_TlsRequest_,
             T!ThreadGoes, T!peerVars, T!callVars
<1> USE DEF T!IInv
<1>4. T!NoMore => T!NoMore'
  BY <1>1 DEF T!NoMore
<1>5. T!Conserved'
  <2>1. /\ result \in Nat /\ T!DataIn(incoming) \in Nat /\ T!DataIn(net) \in Nat
        /\ T!DataIn(sent) \in Nat
    BY DataIsNat DEF T!TypeOK
  <2>2. (result + T!DataIn(incoming)) + 0 + T!DataIn(net) = T!DataIn(sent)
    BY <2>1 DEF T!Conserved
  <2> QED BY <1>1, <2>2, DataInEmpty DEF T!Conserved
<1>6. T!Arrived'
  BY <1>1, Contained DEF T!Arrived
<1>7. T!TypeOK'
  <2>1. result' \in Nat
    <3>1. result \in Nat /\ T!DataIn(incoming) \in Nat
      BY DataIsNat DEF T!TypeOK
    <3> QED BY <1>1, <3>1
  <2>2. ssl' \in {"open", "closed"} => T!Contains(sent, "handshake")
    BY <1>2 DEF T!TypeOK, T!Arrived, T!Records
  <2> QED BY <1>1, <1>2, <1>3, <2>1, <2>2 DEF T!TypeOK
<1>8. T!Order'
  <2>1. ssl' = "closed" => T!NoMore'
    BY <1>2, <1>4 DEF T!Order
  <2>2. ~T!Contains(incoming', "close")
    BY <1>1, Contained
  <2> QED BY <1>1, <1>3, <1>4, <2>1, <2>2 DEF T!Order
<1>9. T!Told'
  <2>1. T!Ended' => T!NoMore'
    <3>1. SUFFICES ASSUME T!Ended' PROVE T!NoMore
      BY <1>4
    <3>2. CASE status' = status
      BY <1>1, <1>2, <3>1, <3>2 DEF T!Ended, T!Told
    <3>3. CASE ssl' = "closed"
      BY <1>2, <3>3 DEF T!Order
    <3> QED BY <1>3, <3>1, <3>2, <3>3 DEF T!Ended
  <2>2. run' = "notify" => status' # "submitted"
    BY <1>1, <1>3 DEF T!Told
  <2> QED BY <1>1, <2>1, <2>2 DEF T!Told
<1> QED BY <1>5, <1>6, <1>7, <1>8, <1>9

LEMMA GotKeeps == ASSUME T!IInv, T!Flags', T!gotIncoming_TlsRequest_ PROVE T!IInv'
<1>1. /\ net # <<>> /\ net' = <<>> /\ incoming' = incoming \o net
      /\ UNCHANGED <<ssl, sending, result, told, conn, cancelled, io, status, link, output,
                     got, sent, hungUp, caller, waiter>>
      /\ run' = IF run = "waiting" THEN "encrypt" ELSE run
      /\ incoming \in Seq(T!Records) /\ net \in Seq(T!Records) /\ <<>> \in Seq(T!Records)
      /\ incoming \o net \in Seq(T!Records)
  BY EmptySeq, ConcatProperties
     DEF T!gotIncoming_TlsRequest_, T!IoGoes, T!sslVars, T!peerVars, T!Signal, T!IInv, T!TypeOK
<1> USE DEF T!IInv
<1>2. ~T!NoMore
  BY <1>1 DEF T!NoMore
<1>3. \A r : T!Contains(incoming', r) <=> T!Contains(incoming, r) \/ T!Contains(net, r)
  BY <1>1, Contained
<1>4. T!Conserved'
  <2>1. /\ result \in Nat /\ T!DataIn(incoming) \in Nat /\ T!DataIn(net) \in Nat
        /\ T!DataIn(incoming') = T!DataIn(incoming) + T!DataIn(net)
    BY <1>1, DataIsNat, DataInConcat DEF T!TypeOK
  <2>2. result + (T!DataIn(incoming) + T!DataIn(net)) + 0 = T!DataIn(sent)
    BY <2>1 DEF T!Conserved
  <2> QED BY <1>1, <2>1, <2>2, DataInEmpty DEF T!Conserved
<1>5. T!Arrived'
  BY <1>1, <1>3, Contained DEF T!Arrived
<1>6. T!TypeOK'
  BY <1>1 DEF T!TypeOK
<1>7. T!Order'
  <2>1. T!Contains(incoming', "close") => T!NoMore'
    <3>1. T!Contains(incoming', "close") => T!Contains(sent, "close")
      BY <1>3 DEF T!Arrived, T!Records
    <3> QED BY <1>1, <3>1 DEF T!NoMore
  <2> QED BY <1>1, <1>2, <2>1 DEF T!Order
<1>8. T!Told'
  <2>1. run \in {"notify", "exited"} /\ ~cancelled /\ ssl # "failed" => T!Ended
    BY DEF T!Told, T!Ended, T!Order, T!TypeOK
  <2> QED BY <1>1, <1>2, <2>1 DEF T!Told, T!Ended
<1> QED BY <1>4, <1>5, <1>6, <1>7, <1>8

LEMMA PeerKeeps == ASSUME T!IInv, T!Flags', NEW r \in T!Records, T!PeerSends(r) PROVE T!IInv'
<1>1. /\ ~hungUp /\ ~T!Contains(sent, "close") /\ ~T!Contains(sent, "garbled")
      /\ r = "handshake" <=> sent = <<>> /\ r # "garbled"
  BY DEF T!PeerSends
<1>2. /\ sent' = Append(sent, r) /\ net' = Append(net, r)
      /\ UNCHANGED <<status, run, ssl, sending, result, incoming, told, link, conn, io, output,
                     got, hungUp, caller, cancelled, waiter>>
  BY DEF T!PeerSends, T!sslVars, T!callVars
<1>3. /\ sent \in Seq(T!Records) /\ net \in Seq(T!Records)
      /\ sent' \in Seq(T!Records) /\ net' \in Seq(T!Records)
      /\ \A q : T!Contains(sent', q) <=> T!Contains(sent, q) \/ q = r
      /\ \A q : T!Contains(net', q) <=> T!Contains(net, q) \/ q = r
  BY <1>2, Contained DEF T!IInv, T!TypeOK
<1> USE DEF T!IInv
<1>4. ~T!NoMore
  BY <1>1 DEF T!NoMore
<1>5. T!Conserved'
  <2>1. /\ result \in Nat /\ T!DataIn(incoming) \in Nat /\ T!DataIn(net) \in Nat
        /\ T!DataIn(sent) \in Nat /\ T!DataIn(<<r>>) \in Nat
        /\ T!DataIn(sent') = T!DataIn(sent) + T!DataIn(<<r>>)
        /\ T!DataIn(net') = T!DataIn(net) + T!DataIn(<<r>>)
    BY <1>2, <1>3, DataIsNat, Singly DEF T!TypeOK
  <2>2. result + T!DataIn(incoming) + (T!DataIn(net) + T!DataIn(<<r>>))
          = T!DataIn(sent) + T!DataIn(<<r>>)
    BY <2>1 DEF T!Conserved
  <2> QED BY <1>2, <2>1, <2>2 DEF T!Conserved
<1>6. T!Arrived'
  <2>1. T!Contains(sent', "handshake") \/ T!Contains(sent', "garbled")
    BY <1>1, <1>3 DEF T!Arrived
  <2>2. T!Contains(sent', "close") => T!Contains(sent', "handshake")
    BY <1>1, <1>3 DEF T!Arrived
  <2> QED BY <1>2, <1>3, <2>1, <2>2 DEF T!Arrived
<1>7. T!TypeOK'
  BY <1>2, <1>3 DEF T!TypeOK
<1>8. T!Order'
  BY <1>2, <1>4 DEF T!Order
<1>9. T!Told'
  BY <1>2, <1>4 DEF T!Told, T!Ended
<1> QED BY <1>5, <1>6, <1>7, <1>8, <1>9

LEMMA RequestStep == T!IInv /\ [T!Next]_(T!vars) => T!IInv'
<1>1. ASSUME T!IInv, UNCHANGED T!vars PROVE T!IInv'
  BY <1>1, RecordsStay DEF T!vars, T!sslVars, T!peerVars, T!callVars, T!IInv, T!TypeOK, T!Flags,
              T!Order, T!NoMore, T!Told, T!Ended
<1>2. T!IInv => T!Flags
  BY DEF T!IInv, T!TypeOK
<1>3. ASSUME T!IInv, T!Next PROVE T!IInv'
  <2>1. T!Flags'
    BY <1>2, <1>3, RequestFlags
  <2>2. CASE T!RunStep \/ T!SpuriousWakeup
    BY <1>3, <2>1, <2>2, RunKeeps, ReadKeeps DEF T!RunStep
  <2>3. CASE T!IoStep \/ (\E r \in T!Records : T!PeerSends(r)) \/ T!PeerHangsUp
    BY <1>3, <2>1, <2>3, IoKeeps, GotKeeps, PeerKeeps DEF T!IoStep
  <2>4. CASE T!ConnStep
    BY <1>3, <2>1, <2>4, ConnKeeps
  <2> QED BY <1>3, <2>1, <2>2, <2>3, <2>4, RequestCallerKeeps DEF T!Next
<1> QED BY <1>1, <1>3

LEMMA RequestUse == T!IInv => CompleteWhenNotified
<1> SUFFICES ASSUME T!IInv PROVE T!CompleteWhenNotified
  BY DEF CompleteWhenNotified
<1> USE DEF T!IInv
<1>1. ASSUME run = "exited", ~cancelled, ssl # "failed" PROVE result = T!DataIn(sent)
  <2>1. status \in {"finished", "error"}
    BY <1>1 DEF T!Told, T!Order, T!TypeOK
  <2>2. incoming = <<>> /\ net = <<>>
    BY <1>1, <2>1 DEF T!Told, T!Ended, T!NoMore
  <2>3. result + 0 + 0 = T!DataIn(sent) /\ result \in Nat
    BY <2>2, DataInEmpty DEF T!Conserved, T!TypeOK
  <2> QED BY <2>3
<1> QED BY <1>1 DEF T!CompleteWhenNotified

-----------------------------------------------------------------------------

LEMMA MCStep == [MCNext]_<<subject, vars, requestVars>> => [Next]_vars /\ [T!Next]_(T!vars)
BY DEF MCNext, requestVars, T!vars, T!sslVars, T!peerVars, T!callVars

(* An address has its finished flag exactly when no lookup of it is under    *)
(* way, and never has two, unless its caller was woken early (address.c).    *)
THEOREM LookupsDoNotOverlap == MCSpec => []OneLookupAtATime
<1>1. MCInit => IInv
  BY InitIInv DEF MCInit
<1>2. IInv /\ [MCNext]_<<subject, vars, requestVars>> => IInv'
  BY IInvStep, MCStep
<1>3. IInv => OneLookupAtATime
  BY DEF IInv, One, OneLookupAtATime
<1> QED BY <1>1, <1>2, <1>3, PTL DEF MCSpec

(* When the audience of a request is told that it has finished, and it was   *)
(* neither cancelled nor failed, the result holds all the data the peer has  *)
(* sent, for any number of records and whichever end came first              *)
(* (tlsrequest.c).                                                           *)
THEOREM ResultIsComplete == MCSpec => []CompleteWhenNotified
<1>1. MCInit => T!IInv
  BY RequestInit DEF MCInit
<1>2. T!IInv /\ [MCNext]_<<subject, vars, requestVars>> => T!IInv'
  BY RequestStep, MCStep
<1> QED BY <1>1, <1>2, RequestUse, PTL DEF MCSpec
=============================================================================
