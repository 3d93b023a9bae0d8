------------------------------ MODULE Service ------------------------------
(* A listening service (platform/posix/service.c): its owner opens it,      *)
(* closes it, opens it again and destroys it; each opening has a thread of  *)
(* its own that waits in select() for connections and for a byte in the     *)
(* stop pipe.  A descriptor and its thread are known by the number of the   *)
(* opening.  No lock protects the service: an action is a step between two  *)
(* reads or writes of its fields.                                           *)
EXTENDS Integers

CONSTANTS MaxOpens,       \* bound on the openings
          MaxPeers        \* bound on the connections that come in

None == 0
Openings == 1..MaxOpens

VARIABLES d,              \* fd, listening (or None), bytes in the stop pipe
          listener,       \* where the thread of each opening is
          watched,        \* the descriptor in the set of its select()
          net,            \* peers that came and wait; accept() has failed
          owner           \* where the owner is, opened so often, destroying

serviceVars == <<d, listener, watched, net, owner>>

Init == /\ d = [fd |-> None, listening |-> None, stop |-> 0]
        /\ listener = [o \in Openings |-> "none"]
        /\ watched = [o \in Openings |-> None]
        /\ net = [peers |-> 0, backlog |-> 0, rejected |-> FALSE]
        /\ owner = [at |-> "idle", opened |-> 0, destroying |-> FALSE]

Move(o, place) == listener' = [listener EXCEPT ![o] = place]

-----------------------------------------------------------------------------
(* listen_Service_: test the descriptor, put it in the set, select(), look  *)
(* at the stop pipe, look at the descriptor, accept, notify; at the end     *)
(* drop the service's reference to the thread.                              *)

Test(o) == /\ listener[o] = "top"
           /\ Move(o, IF d.fd = None THEN "leaving" ELSE "setup")
           /\ UNCHANGED <<d, watched, net, owner>>

(* d->fd is read again: when it was closed since, FD_SET is given -1, a     *)
(* write outside of the set, assumed to do no harm.                         *)
Setup(o) == /\ listener[o] = "setup"
            /\ Move(o, "select")
            /\ watched' = [watched EXCEPT ![o] = d.fd]
            /\ UNCHANGED <<d, net, owner>>

\* Mutant: a byte in the stop pipe is not looked for.
SelectDescriptor(o) ==
  /\ listener[o] = "select" /\ watched[o] = d.fd /\ net.backlog > 0
  /\ Move(o, "ready")
  /\ UNCHANGED <<d, watched, net, owner>>

(* select() fails when it is called with a descriptor that was closed.      *)
Select(o) == /\ listener[o] = "select"
             /\ \/ watched[o] \notin {None, d.fd} /\ Move(o, "leaving")
                \/ d.stop > 0 /\ Move(o, "leaving")
                \/ d.stop = 0 /\ watched[o] = d.fd /\ net.backlog > 0 /\ Move(o, "ready")
             /\ UNCHANGED <<d, watched, net, owner>>

(* The descriptor may be closed by now; an error of accept() ends the loop. *)
Accept(o) ==
  /\ listener[o] = "ready"
  /\ \/ d.fd # None /\ Move(o, "notify") /\ net' = [net EXCEPT !.backlog = @ - 1]
     \/ Move(o, "leaving") /\ net' = [net EXCEPT !.rejected = TRUE]
     \/ d.fd = None /\ Move(o, "top") /\ UNCHANGED net
  /\ UNCHANGED <<d, watched, owner>>

Notify(o) == /\ listener[o] = "notify"
             /\ Move(o, "top")
             /\ UNCHANGED <<d, watched, net, owner>>

Leave(o) == /\ listener[o] = "leaving"
            /\ Move(o, "gone")
            /\ d' = [d EXCEPT !.listening = None]
            /\ UNCHANGED <<watched, net, owner>>

listen_Service_(o) == Test(o) \/ Setup(o) \/ Select(o) \/ Accept(o) \/ Notify(o) \/ Leave(o)

-----------------------------------------------------------------------------
(* The owner.                                                               *)

OwnerAt(from, to) == owner.at = from /\ owner' = [owner EXCEPT !.at = to]

open_Service ==
  /\ owner.at = "idle" /\ d.fd = None /\ owner.opened < MaxOpens
  /\ owner' = [owner EXCEPT !.at = "starting", !.opened = @ + 1]
  /\ d' = [d EXCEPT !.fd = owner.opened + 1]
  /\ net' = [net EXCEPT !.backlog = 0, !.rejected = FALSE]
  /\ UNCHANGED <<listener, watched>>

start_Thread == /\ OwnerAt("starting", "idle")
                /\ d' = [d EXCEPT !.listening = owner.opened]
                /\ Move(owner.opened, "top")
                /\ UNCHANGED <<watched, net>>

(* close_Service, also the first step of deinit_Service; nothing happens    *)
(* when nobody listens.                                                     *)
close_Service(destroying) ==
  /\ owner.at = "idle"
  /\ owner' = [owner EXCEPT !.destroying = destroying,
                            !.at = IF d.listening = None THEN "done" ELSE "stop"]
  /\ UNCHANGED <<d, listener, watched, net>>

writeByte_Pipe == /\ OwnerAt("stop", "close")
                  /\ d' = [d EXCEPT !.stop = @ + 1]
                  /\ UNCHANGED <<listener, watched, net>>

CloseFd == /\ OwnerAt("close", "join")
           /\ d' = [d EXCEPT !.fd = None]
           /\ net' = [net EXCEPT !.backlog = 0]
           /\ UNCHANGED <<listener, watched>>

\* Mutant: close_Service does not join the thread.
ReturnAtOnce == /\ OwnerAt("join", "done")
                /\ UNCHANGED <<d, listener, watched, net>>

(* d->listening is read again: NULL when the thread has dropped itself.     *)
join_Thread == /\ OwnerAt("join", "done")
               /\ d.listening # None => listener[d.listening] = "gone"
               /\ UNCHANGED <<d, listener, watched, net>>

Return == /\ OwnerAt("done", "idle") /\ ~owner.destroying
          /\ UNCHANGED <<d, listener, watched, net>>

(* A client connects to the listening socket.                               *)
Connect == /\ d.fd # None /\ net.peers < MaxPeers
           /\ net' = [net EXCEPT !.backlog = @ + 1, !.peers = @ + 1]
           /\ UNCHANGED <<d, listener, watched, owner>>

OwnerStep == start_Thread \/ writeByte_Pipe \/ CloseFd \/ join_Thread \/ Return

Next == \/ \E o \in Openings : listen_Service_(o)
        \/ open_Service \/ OwnerStep \/ Connect
        \/ \E destroying \in BOOLEAN : close_Service(destroying)

Fairness == /\ \A o \in Openings : WF_serviceVars(listen_Service_(o))
            /\ WF_serviceVars(OwnerStep)

Spec == Init /\ [][Next]_serviceVars /\ Fairness

-----------------------------------------------------------------------------

(* close_Service returns, and the destructor with it, whatever the          *)
(* listening thread is doing: the join waits for a thread that sees the     *)
(* byte, the closed descriptor or both.                                     *)
CloseReturns == owner.at = "stop" ~> owner.at = "done"

(* While a listening thread lives it can be heard of (d->listening), so no  *)
(* other is alive: openings never overlap.  When close_Service has returned *)
(* nobody listens (its assertion); the descriptor is closed too, as         *)
(* deinit_Service asserts, unless the thread had left by itself: accept()   *)
(* had failed, or the byte of an earlier close_Service was in the pipe.     *)
OneListener ==
  /\ \A o \in Openings : listener[o] \notin {"none", "gone"} => d.listening = o
  /\ owner.at = "done" => /\ d.listening = None
                          /\ d.fd = None \/ net.rejected \/ owner.opened > 1

(* A connection to an open service is accepted, or the service closed,      *)
(* unless accept() has failed or the byte of an earlier close_Service is    *)
(* still in the stop pipe.                                                  *)
AcceptsUnlessDeaf == net.backlog > 0 ~> net.backlog = 0 \/ net.rejected \/ d.stop > 0

----------------------------------------------------------------------------
(* OneListener holds for any number of openings and of peers.  It rests on  *)
(* where the owner can be while a thread is listening, and on the reasons   *)
(* there are for a thread to leave.                                         *)

Places == {"none", "top", "setup", "select", "ready", "notify", "leaving", "gone"}
OwnerPlaces == {"idle", "starting", "stop", "close", "join", "done"}
Lives(o) == listener[o] \notin {"none", "gone"}

Fields == [fd : Nat, listening : Nat, stop : Nat]
Nets == [peers : Nat, backlog : Int, rejected : BOOLEAN]
Owners == [at : OwnerPlaces, opened : Nat, destroying : BOOLEAN]

TypeOK == /\ d \in Fields
          /\ listener \in [Openings -> Places]
          /\ watched \in [Openings -> Nat]
          /\ net \in Nets
          /\ owner \in Owners

\* A second opening may meet the byte of the first; else a thread leaves for
\* one of these.
Excused == net.rejected \/ owner.opened > 1 \/ d.fd = None

Listens(o) == /\ Lives(o) => d.listening = o
              /\ watched[o] <= owner.opened
              /\ listener[o] = "leaving" => Excused \/ owner.at = "close"
              /\ o > owner.opened => listener[o] = "none"

Owns == /\ owner.opened <= MaxOpens /\ d.fd <= owner.opened
        /\ d.listening # None => d.listening \in Openings /\ Lives(d.listening)
        /\ owner.at = "starting" => d.listening = None /\ d.fd = owner.opened /\ owner.opened > 0
        /\ owner.at \in {"idle", "done"} /\ d.listening = None => Excused
        /\ owner.at = "done" => d.listening = None
        /\ owner.at = "join" => d.fd = None
        /\ owner.at = "stop" \/ d.stop > 0 => owner.opened > 0
        /\ d.fd = None /\ d.listening # None => owner.at = "join"
        /\ d.stop > 0 => owner.opened > 1 \/ d.fd = None \/ owner.at = "close"

IInv == TypeOK /\ Owns /\ \A o \in Openings : Listens(o)
=============================================================================
