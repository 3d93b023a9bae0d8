------------------------------ MODULE Datagram ------------------------------
(* Datagram sockets (platform/posix/datagram.c): one thread of the library   *)
(* receives and sends for every open datagram, woken from its select() by a  *)
(* byte in a pipe.  Each datagram is used by one caller, which opens it,     *)
(* sends, flushes, closes it and may open it again.  One action is one       *)
(* region under datagramIO_->mutex or under a datagram's mutex, or one call  *)
(* between them.  An output queue is the number of its messages; the input   *)
(* queue is Queue.tla's.                                                     *)
EXTENDS Integers, FiniteSets

CONSTANTS Datagrams,
          MaxOpens,         \* bound on the openings
          MaxMessages       \* bound on the messages sent or received

None == 0
Fds == 1..Cardinality(Datagrams)

VARIABLES d,                \* per datagram: fd; messages to send, and come in
          members,          \* datagramIO_->datagrams
          wakeup,           \* bytes in the wake-up pipe
          mode,             \* datagramIO_->mode
          io,               \* the I/O thread
          caller,           \* where the caller of each datagram is
          used              \* openings and messages so far

datagramVars == <<d, members, wakeup, mode, io, caller, used>>

(* at: the step of run_DatagramThread_.  fds: those in the set of select(),  *)
(* then those it found ready.  todo: the datagrams the current loop has yet  *)
(* to visit.  busy: the one with didSend.                                    *)
Init == /\ d = [g \in Datagrams |-> [fd |-> None, output |-> 0, pending |-> 0]]
        /\ members = {} /\ wakeup = 0 /\ mode = "run"
        /\ io = [at |-> "top", fds |-> {}, todo |-> {}, busy |-> {}]
        /\ caller = [g \in Datagrams |-> "idle"]
        /\ used = [opens |-> 0, messages |-> 0]

isOpen_Datagram(g) == d[g].fd # None
OpenFds == {d[g].fd : g \in Datagrams} \ {None}
Unlocked == io.at \notin {"receive", "send"}      \* datagramIO_->mutex is free
Goto(place) == io' = [io EXCEPT !.at = place]
Goes(g, place) == caller' = [caller EXCEPT ![g] = place]

-----------------------------------------------------------------------------
(* run_DatagramThread_.                                                      *)

WatchMembers == /\ io.at = "top"
                /\ io' = IF mode = "run"
                         THEN [io EXCEPT !.at = "select", !.fds = {d[g].fd : g \in members}]
                         ELSE [io EXCEPT !.at = "gone"]
                /\ UNCHANGED <<d, members, wakeup, mode, caller, used>>

Ready == {f \in io.fds : \E g \in Datagrams : d[g].fd = f /\ d[g].pending > 0}

(* select() fails when one of the descriptors was closed in the meantime,    *)
(* and the thread ends.                                                      *)
Select == /\ io.at = "select"
          /\ UNCHANGED <<d, members, mode, caller, used>>
          /\ \/ ~(io.fds \subseteq OpenFds) /\ Goto("gone") /\ UNCHANGED wakeup
             \/ /\ io.fds \subseteq OpenFds
                /\ wakeup > 0 \/ Ready # {}
                /\ io' = [io EXCEPT !.at = "receive", !.fds = Ready]
                /\ wakeup' = IF wakeup > 0 THEN wakeup - 1 ELSE 0

(* recvfrom() blocks, the mutex locked, when the descriptor found ready is   *)
(* by now that of another datagram for which nothing has come.  An error is  *)
(* kept as a message too.  The mutex is unlocked and locked again after it.  *)
Receive ==
  /\ io.at = "receive"
  /\ \A g \in members : d[g].fd \in io.fds => d[g].pending > 0
  /\ d' = [g \in Datagrams |->
             IF g \in members /\ d[g].fd \in io.fds
             THEN [d[g] EXCEPT !.pending = @ - 1] ELSE d[g]]
  /\ io' = [io EXCEPT !.at = "between", !.fds = {}]
  /\ UNCHANGED <<members, wakeup, mode, caller, used>>

BeginSend == /\ io.at = "between"
             /\ io' = [io EXCEPT !.at = "send", !.todo = members]
             /\ UNCHANGED <<d, members, wakeup, mode, caller, used>>

(* tryTake_Queue gives a message, which is sent.                             *)
Send(g) == /\ io.at = "send" /\ g \in io.todo /\ io.busy \subseteq {g}
           /\ d[g].output > 0
           /\ d' = [d EXCEPT ![g].output = @ - 1]
           /\ io' = [io EXCEPT !.busy = {g}]
           /\ UNCHANGED <<members, wakeup, mode, caller, used>>

(* tryTake_Queue gives NULL; allSent is signalled in a step of its own, when *)
(* something was sent.                                                       *)
SeeEmpty(g) == /\ io.at = "send" /\ g \in io.todo /\ io.busy \subseteq {g}
               /\ d[g].output = 0
               /\ io' = [io EXCEPT !.todo = @ \ {g}]
               /\ UNCHANGED <<d, members, wakeup, mode, caller, used>>

SignalAllSent(g) == /\ io.at = "send" /\ io.busy = {g} /\ g \notin io.todo
                    /\ io' = [io EXCEPT !.busy = {}]
                    /\ caller' = [caller EXCEPT ![g] = CASE @ = "flushing" -> "idle"
                                                        [] @ = "closing" -> "flushed"
                                                        [] OTHER -> @]
                    /\ UNCHANGED <<d, members, wakeup, mode, used>>

EndSend == /\ io.at = "send" /\ io.todo = {} /\ io.busy = {}
           /\ Goto("top")
           /\ UNCHANGED <<d, members, wakeup, mode, caller, used>>

-----------------------------------------------------------------------------
(* The callers.  The lookups of addresses that precede are not modelled.     *)

(* socket() gives a number that is free, often that of the last one closed.  *)
FreeFds == Fds \ OpenFds

(* Nobody else can tell the opening of the descriptor from the insertion.    *)
open_Datagram(g) == /\ caller[g] = "idle" /\ mode = "run" /\ ~isOpen_Datagram(g) /\ Unlocked
                    /\ used.opens < MaxOpens
                    /\ used' = [used EXCEPT !.opens = @ + 1]
                    /\ \E f \in FreeFds : d' = [d EXCEPT ![g].fd = f, ![g].pending = 0]
                    /\ members' = members \cup {g}
                    /\ Goes(g, "waking")
                    /\ UNCHANGED <<wakeup, mode, io>>

\* Mutant: no byte for a single message.
WakeUpForMore(g) == /\ caller[g] = "waking"
                    /\ wakeup' = (IF d[g].output > 1 THEN wakeup + 1 ELSE wakeup)
                    /\ Goes(g, "idle")
                    /\ UNCHANGED <<d, members, mode, io, used>>

WakeUp(g) == /\ caller[g] = "waking"
             /\ wakeup' = wakeup + 1
             /\ Goes(g, "idle")
             /\ UNCHANGED <<d, members, mode, io, used>>

(* The message goes into the queue before the byte goes into the pipe.  A    *)
(* datagram that is not open keeps its messages.                             *)
send_Datagram(g) == /\ caller[g] = "idle" /\ mode = "run" /\ used.messages < MaxMessages
                    /\ used' = [used EXCEPT !.messages = @ + 1]
                    /\ d' = [d EXCEPT ![g].output = @ + 1]
                    /\ Goes(g, "waking")
                    /\ UNCHANGED <<members, wakeup, mode, io>>

(* One look at the queue and one wait, under the datagram's mutex; a wake-up *)
(* for no reason ends it.                                                    *)
flush_Datagram(g) ==
  /\ caller[g] = "idle" /\ isOpen_Datagram(g)
  /\ \/ d[g].output > 0 /\ Goes(g, "flushing")
     \/ Goes(g, IF d[g].output > 0 THEN "closing" ELSE "flushed")    \* of close_Datagram
  /\ UNCHANGED <<d, members, wakeup, mode, io, used>>

SpuriousWakeup(g) ==
  /\ caller[g] \in {"flushing", "closing"}
  /\ Goes(g, IF caller[g] = "flushing" THEN "idle" ELSE "flushed")
  /\ UNCHANGED <<d, members, wakeup, mode, io, used>>

\* Mutant: the descriptor is closed while the datagram is a member.
RemoveLate(g) == /\ caller[g] = "flushed" /\ Unlocked
                 /\ d' = [d EXCEPT ![g].fd = None]
                 /\ Goes(g, "removed")
                 /\ UNCHANGED <<members, wakeup, mode, io, used>>

RemoveMember(g) == /\ caller[g] = "flushed" /\ Unlocked
                   /\ members' = members \ {g}
                   /\ Goes(g, "removed")
                   /\ UNCHANGED <<d, wakeup, mode, io, used>>

(* A byte for the I/O thread, and the end of the descriptor.                 *)
CloseFd(g) == /\ caller[g] = "removed"
              /\ wakeup' = wakeup + 1
              /\ d' = [d EXCEPT ![g].fd = None, ![g].pending = 0]
              /\ Goes(g, "idle")
              /\ UNCHANGED <<members, mode, io, used>>

Arrive(g) == /\ isOpen_Datagram(g) /\ used.messages < MaxMessages
             /\ used' = [used EXCEPT !.messages = @ + 1]
             /\ d' = [d EXCEPT ![g].pending = @ + 1]
             /\ UNCHANGED <<members, wakeup, mode, io, caller>>

(* deinit_DatagramThreads_, once every datagram is closed: set the mode,     *)
(* write the byte; the join is the end of the I/O thread.                    *)
Stop == /\ mode = "run" /\ \A g \in Datagrams : caller[g] = "idle" /\ ~isOpen_Datagram(g)
        /\ mode' = "stop"
        /\ UNCHANGED <<d, members, wakeup, io, caller, used>>

StopWakeUp == /\ mode = "stop"
              /\ mode' = "join"
              /\ wakeup' = wakeup + 1
              /\ UNCHANGED <<d, members, io, caller, used>>

-----------------------------------------------------------------------------

IoStep == \/ WatchMembers \/ Select \/ Receive \/ BeginSend \/ EndSend
          \/ \E g \in Datagrams : Send(g) \/ SeeEmpty(g) \/ SignalAllSent(g)

CallerStep(g) == WakeUp(g) \/ RemoveMember(g) \/ CloseFd(g)

Next == \/ IoStep \/ Stop \/ StopWakeUp
        \/ \E g \in Datagrams :
             \/ CallerStep(g) \/ open_Datagram(g) \/ send_Datagram(g)
             \/ flush_Datagram(g) \/ SpuriousWakeup(g) \/ Arrive(g)

Fairness == /\ WF_datagramVars(IoStep) /\ WF_datagramVars(StopWakeUp)
            /\ \A g \in Datagrams : WF_datagramVars(CallerStep(g))

Spec == Init /\ [][Next]_datagramVars /\ Fairness

-----------------------------------------------------------------------------

(* The I/O thread is beyond help: a closed descriptor was in its select(),   *)
(* or it waits in recvfrom() for a message that has not come.                *)
IoLost == \/ io.at = "gone"
          \/ io.at = "receive" /\ \E g \in members : d[g].fd \in io.fds /\ d[g].pending = 0

(* The I/O thread uses the descriptor of every member, and so a member has   *)
(* one that is open, and no two the same; and it touches no datagram that    *)
(* its caller may be closing.                                                *)
MembersAreOpen ==
  /\ \A g \in members : d[g].fd \in Fds
  /\ \A g, h \in members : d[g].fd = d[h].fd => g = h
  /\ io.at = "send" => io.todo \subseteq members

(* A message put in the queue of an open datagram is sent, if the datagram   *)
(* is not closed first, nor the I/O thread lost.                             *)
OutputIsSentUnlessIoLost ==
  \A g \in Datagrams :
    d[g].output > 0 /\ isOpen_Datagram(g)
      ~> d[g].output = 0 \/ ~isOpen_Datagram(g) \/ IoLost

(* A flush, and the one in close_Datagram, comes to its end, unless the I/O  *)
(* thread is lost; and so does the shutdown of the library.                  *)
FlushReturnsUnlessIoLost ==
  /\ \A g \in Datagrams : caller[g] \in {"flushing", "closing"}
                            ~> caller[g] \notin {"flushing", "closing"} \/ IoLost
  /\ mode = "join" ~> io.at = "gone" \/ IoLost

-----------------------------------------------------------------------------
(* MembersAreOpen holds for any set of datagrams.  It takes what the callers *)
(* do to a datagram before and after it is a member, and that the mutex keep *)
(* the members while the I/O thread visits them.                             *)

Field == [fd : Nat, output : Int, pending : Int]

Places == {"idle", "waking", "flushing", "closing", "flushed", "removed"}

Types == /\ d \in [Datagrams -> Field]
         /\ caller \in [Datagrams -> Places]
         /\ members \subseteq Datagrams
         /\ DOMAIN io = {"at", "fds", "todo", "busy"}

Own(g) == /\ isOpen_Datagram(g) => d[g].fd \in Fds
          /\ \A h \in Datagrams : isOpen_Datagram(g) /\ d[h].fd = d[g].fd => h = g
          /\ caller[g] = "removed" => g \notin members
          /\ g \in members => isOpen_Datagram(g)

IInv == /\ Types
        /\ \A g \in Datagrams : Own(g)
        /\ io.at = "send" => io.todo \subseteq members
=============================================================================
