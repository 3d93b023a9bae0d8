------------------------------ MODULE Channel ------------------------------
(***************************************************************************)
(* What a blocking queue promises, without a mutex or a condition          *)
(* variable: items come out in the order they went in, an item goes to one *)
(* receiver, a blocking request is answered only with an item, a timed one *)
(* may also be given up, and requests do not stay unanswered while the     *)
(* channel holds items.                                                    *)
(***************************************************************************)
EXTENDS Sequences

CONSTANTS Threads, Items

VARIABLES chan,     \* the items sent and not yet received
          request   \* request[t]: what thread t has asked for

channelVars == <<chan, request>>

Requests == {"none", "blocking", "timed"}

Init == /\ chan = <<>>
        /\ request = [t \in Threads |-> "none"]

Send(x) == /\ chan' = Append(chan, x)
           /\ UNCHANGED request

Ask(t) == /\ request[t] = "none"
          /\ \E r \in {"blocking", "timed"} : request' = [request EXCEPT ![t] = r]
          /\ UNCHANGED chan

Deliver(t) == /\ request[t] # "none"
              /\ chan # <<>>
              /\ chan' = Tail(chan)
              /\ request' = [request EXCEPT ![t] = "none"]

GiveUp(t) == /\ request[t] = "timed"
             /\ request' = [request EXCEPT ![t] = "none"]
             /\ UNCHANGED chan

\* A thread that does not wait helps itself to the oldest item.
Poll == /\ chan # <<>>
        /\ chan' = Tail(chan)
        /\ UNCHANGED request

Next == \/ \E x \in Items : Send(x)
        \/ \E t \in Threads : Ask(t) \/ Deliver(t) \/ GiveUp(t)
        \/ Poll

\* Items in the channel and a request outstanding: some item is received.
Receive == /\ \E t \in Threads : request[t] # "none"
           /\ Poll \/ \E t \in Threads : Deliver(t)

SafeSpec == Init /\ [][Next]_channelVars

Spec == SafeSpec /\ WF_channelVars(Receive)
=============================================================================
