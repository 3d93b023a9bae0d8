---------------------------- MODULE AddressLookup ----------------------------
(***************************************************************************)
(* Host name lookups (address.c): callers put iAddress objects in a queue  *)
(* and one thread, started by the first lookup, resolves them one after    *)
(* another with getaddrinfo.  The queue is that of Queue.tla; the lookup   *)
(* thread is its only taker.  deinit_Address_ stops the thread when the    *)
(* library is shut down.                                                   *)
(*                                                                         *)
(* Every address has one caller: it starts lookups, waits for them, and    *)
(* releases the address in the end.  A caller looks at d->flags under      *)
(* d->mutex when it waits, but lookupCStr_Address clears them without it.  *)
(***************************************************************************)
EXTENDS Naturals, Sequences, FiniteSets

CONSTANTS Addresses,
          Lookup,             \* the lookup thread
          MaxItems            \* bound of the models: no lookup begins at this length

ASSUME AddressLookupAssumption == MaxItems \in Nat

VARIABLES items, waiting, op,  \* lookupQueue_
          lookupThread,  \* lookupThread_ is set
          thd,           \* how far the lookup thread has come
          current,       \* the address it has taken from the queue, in a set
          refs,          \* d->object.refCount
          finished,      \* the addresses with finished_AddressFlag
          call,          \* call[a]: the function the caller of a is inside of
          blocked,       \* the addresses whose caller is blocked on lookupDidFinish
          owner,         \* the addresses whose caller has not released them
          phase,         \* "open", or how far deinit_Address_ has come
          early,         \* the addresses whose caller once woke up too soon
          missed         \* deinit_Address_ signalled before the thread slept

Q == INSTANCE Queue WITH Threads <- {Lookup}, Items <- Addresses

queueVars == <<items, waiting, op>>
threadVars == <<lookupThread, thd, current>>
callerVars == <<call, blocked, owner, early>>
vars == <<queueVars, threadVars, refs, finished, callerVars, phase, missed>>

Init == /\ Q!Init
        /\ lookupThread = FALSE
        /\ thd = "none"
        /\ current = {}
        /\ refs = [a \in Addresses |-> 1]
        /\ finished = Addresses
        /\ call = [a \in Addresses |-> "none"]
        /\ blocked = {}
        /\ owner = Addresses
        /\ phase = "open"
        /\ early = {}
        /\ missed = FALSE

-----------------------------------------------------------------------------
(* The callers.                                                            *)

Begin(a, function) == /\ phase = "open" /\ a \in owner /\ call[a] = "none"
                      /\ function = "lookup" => Len(items) < MaxItems
                      /\ call' = [call EXCEPT ![a] = function]
                      /\ UNCHANGED <<queueVars, threadVars, refs, finished, blocked,
                                     owner, phase, early, missed>>

(* The callers in W are past their wait_Condition, which they do not       *)
(* repeat (an `if', not a loop).                                           *)
Past(W) == /\ blocked' = blocked \ W
           /\ call' = [a \in Addresses |-> IF a \notin W THEN call[a]
                                           ELSE IF call[a] = "wait" THEN "none"
                                           ELSE "reset"]
           /\ early' = early \cup (W \ finished)

(* waitForFinished_Address, on its own or as the start of a lookup.        *)
waitForFinished_Address(a) ==
  /\ call[a] \in {"wait", "lookup"} /\ a \notin blocked
  /\ IF a \in finished THEN Past({a})
                       ELSE /\ blocked' = blocked \cup {a}
                            /\ UNCHANGED <<call, early>>
  /\ UNCHANGED <<queueVars, threadVars, refs, finished, owner, phase, missed>>

SpuriousWakeup(a) == /\ a \in blocked
                     /\ Past({a})
                     /\ UNCHANGED <<queueVars, threadVars, refs, finished, owner,
                                    phase, missed>>

\* Mutant: the flag of the previous lookup stays.
ResetKeepsFlag(a) == /\ call[a] = "reset"
                     /\ call' = [call EXCEPT ![a] = "put"]
                     /\ UNCHANGED <<queueVars, threadVars, refs, finished, blocked,
                                    owner, phase, early, missed>>

(* lookupCStr_Address, past its wait: the old result and flag are cleared. *)
Reset(a) == /\ call[a] = "reset"
            /\ finished' = finished \ {a}
            /\ call' = [call EXCEPT ![a] = "put"]
            /\ UNCHANGED <<queueVars, threadVars, refs, blocked, owner, phase,
                           early, missed>>

(* startLookupThread_Address_, once, then put_Queue, which references a.   *)
Enqueue(a) == /\ call[a] = "put"
              /\ lookupThread' = TRUE
              /\ thd' = IF lookupThread THEN thd ELSE "check"
              /\ Q!put_Queue(a)
              /\ refs' = [refs EXCEPT ![a] = @ + 1]
              /\ call' = [call EXCEPT ![a] = "none"]
              /\ UNCHANGED <<current, finished, blocked, owner, phase, early, missed>>

Release(a) == /\ a \in owner /\ call[a] = "none"
              /\ owner' = owner \ {a}
              /\ refs' = [refs EXCEPT ![a] = @ - 1]
              /\ UNCHANGED <<queueVars, threadVars, finished, call, blocked, phase,
                             early, missed>>

-----------------------------------------------------------------------------
(* runAddressLookup_.                                                      *)

Check == /\ thd = "check"
         /\ IF lookupThread THEN thd' = "take" /\ Q!Call(Lookup, "waitForItems")
                            ELSE thd' = "exited" /\ UNCHANGED queueVars
         /\ UNCHANGED <<lookupThread, current, refs, finished, callerVars, phase, missed>>

(* waitForItems_Queue: the list is empty or it is not.                     *)
Wait == /\ Q!wait_Condition(Lookup) \/ Q!ItemsPresent(Lookup)
        /\ UNCHANGED <<threadVars, refs, finished, callerVars, phase, missed>>

QueueSpurious == /\ Q!SpuriousWakeup(Lookup)
                 /\ UNCHANGED <<threadVars, refs, finished, callerVars, phase, missed>>

(* tryTake_Queue and the break: the thread gives up for good when there is *)
(* nothing in the queue, or the library is being shut down; an address it  *)
(* has just taken is then neither resolved nor released.                   *)
Take == /\ op[Lookup] = "waited"
        /\ Q!tryTake_Queue(Lookup)
        /\ current' = IF items = <<>> THEN {} ELSE {Head(items)}
        /\ thd' = IF lookupThread /\ items # <<>> THEN "resolving" ELSE "exited"
        /\ UNCHANGED <<lookupThread, refs, finished, callerVars, phase, missed>>

(* getaddrinfo has returned; its result and the flag are published.        *)
Publish == /\ thd = "resolving"
           /\ thd' = "notifying"
           /\ finished' = finished \cup current
           /\ UNCHANGED <<queueVars, lookupThread, current, refs, callerVars, phase, missed>>

(* The lookupFinished audience is notified, and then the waiters, without  *)
(* d->mutex: whoever waits by now for another lookup is woken as well.     *)
signalAll_Condition == /\ thd = "notifying"
                       /\ thd' = "releasing"
                       /\ Past(blocked \cap current)
                       /\ UNCHANGED <<queueVars, lookupThread, current, refs, finished,
                                      owner, phase, missed>>

ReleaseItem == /\ thd = "releasing"
               /\ thd' = "check"
               /\ current' = {}
               /\ refs' = [a \in Addresses |-> IF a \in current THEN refs[a] - 1 ELSE refs[a]]
               /\ UNCHANGED <<queueVars, lookupThread, finished, callerVars, phase, missed>>

-----------------------------------------------------------------------------
(* deinit_Address_: lookupThread_ is cleared, the queue's condition is     *)
(* signalled without its mutex, and the thread is joined.  The program has *)
(* returned from all its calls; lookups may be pending.                    *)

BeginDeinit == /\ phase = "open"
               /\ \A a \in Addresses : call[a] = "none"
               /\ phase' = IF lookupThread THEN "clearing" ELSE "gone"
               /\ lookupThread' = FALSE
               /\ UNCHANGED <<queueVars, thd, current, refs, finished, callerVars, missed>>

SignalStop == /\ phase = "clearing"
              /\ phase' = "joining"
              /\ Q!signal_Condition
              /\ missed' = (op[Lookup] = "waitForItems" /\ waiting = {} /\ items = <<>>)
              /\ UNCHANGED <<items, threadVars, refs, finished, callerVars>>

Queued(a) == Cardinality(Q!Positions(items, a))

(* Joined: the queue goes, with its references to what is left in it.      *)
EndDeinit == /\ phase = "joining" /\ thd = "exited"
             /\ phase' = "gone"
             /\ items' = <<>>
             /\ refs' = [a \in Addresses |->
                           refs[a] - Queued(a)]
             /\ UNCHANGED <<waiting, op, threadVars, finished, callerVars, missed>>

-----------------------------------------------------------------------------

LookupStep == Check \/ Wait \/ Take \/ Publish \/ signalAll_Condition \/ ReleaseItem

CallerStep(a) == waitForFinished_Address(a) \/ Reset(a) \/ Enqueue(a)

DeinitStep == SignalStop \/ EndDeinit

Next == \/ \E a \in Addresses : \/ Begin(a, "lookup") \/ Begin(a, "wait")
                                \/ CallerStep(a) \/ SpuriousWakeup(a) \/ Release(a)
        \/ LookupStep \/ QueueSpurious
        \/ BeginDeinit \/ DeinitStep

(* Threads that can run do, and getaddrinfo returns.                       *)
Fairness == /\ WF_vars(LookupStep) /\ WF_vars(DeinitStep)
            /\ \A a \in Addresses : WF_vars(CallerStep(a))

Spec == Init /\ [][Next]_vars /\ Fairness

-----------------------------------------------------------------------------

\* Lookups of a that have been started and whose result is not out.
Pending(a) == Queued(a) + (IF call[a] = "put" THEN 1 ELSE 0)
              + (IF a \in current /\ thd \in {"resolving", "exited"} THEN 1 ELSE 0)

(* The values the state takes; the lookup thread sleeps only in the queue, *)
(* and callers only in waitForFinished_Address.                            *)
TypeOK ==
  /\ Q!TypeOK
  /\ thd \in {"none", "check", "take", "resolving", "notifying", "releasing", "exited"}
  /\ current \subseteq Addresses
  /\ refs \in [Addresses -> Nat]
  /\ finished \subseteq Addresses /\ owner \subseteq Addresses /\ early \subseteq Addresses
  /\ call \in [Addresses -> {"none", "wait", "lookup", "reset", "put"}]
  /\ phase \in {"open", "clearing", "joining", "gone"}
  /\ lookupThread \in BOOLEAN /\ missed \in BOOLEAN
  /\ op[Lookup] # "idle" <=> thd = "take"
  /\ current # {} => thd \in {"resolving", "notifying", "releasing", "exited"}
  /\ blocked \subseteq Addresses /\ \A a \in blocked : call[a] \in {"wait", "lookup"}

(* The finished flag of an address is set exactly when none of its lookups *)
(* is pending, and no more than one ever is, so that getaddrinfo never     *)
(* fills in a result that the caller is freeing or reading.  It takes a    *)
(* caller that is not woken up early.                                      *)
OneLookupAtATime ==
  /\ TypeOK
  /\ phase # "gone" =>
       \A a \in Addresses \ early : Pending(a) = IF a \in finished THEN 0 ELSE 1

\* The lookup thread has given up while the library is in use.
Stranded == lookupThread /\ thd = "exited"

(* A caller that waits gets its answer: unless the lookup thread is gone,  *)
(* no waiter is left behind.                                               *)
WaitReturns ==
  \A a \in Addresses : call[a] = "wait" ~> call[a] = "none" \/ Stranded

(* Shutting down ends, whatever is pending, provided the lookup thread was *)
(* not about to fall asleep when it was signalled.                         *)
DeinitReturnsUnlessMissed == phase = "clearing" ~> phase = "gone" \/ missed
-----------------------------------------------------------------------------
(* OneLookupAtATime holds for any addresses and any length of the queue     *)
(* (NetworkProofs.tla).  It is inductive with the balance of references,    *)
(* with what a caller past its wait may rely on, and with who may still     *)
(* start the lookup thread.                                                 *)

Referenced(a) == refs[a] = (IF a \in owner THEN 1 ELSE 0) + Queued(a)
                             + (IF a \in current THEN 1 ELSE 0)

Caller(a) == /\ call[a] = "reset" => a \in finished \cup early
             /\ phase # "open" => call[a] = "none"

One(a) == phase # "gone" /\ a \notin early => Pending(a) = IF a \in finished THEN 0 ELSE 1

Startable == /\ phase = "open" /\ ~lookupThread => thd = "none"
             /\ phase = "gone" => thd \in {"none", "exited"}

IInv == TypeOK /\ Startable /\ \A a \in Addresses : One(a) /\ Referenced(a) /\ Caller(a)
=============================================================================
