------------------------------- MODULE Socket -------------------------------
(***************************************************************************)
(* A TCP socket (platform/posix/socket.c) and the four threads that meet   *)
(* in it: its caller; the lookup thread of address.c, which reports that   *)
(* the host is resolved; the thread that connects (connectAsync_Socket_);  *)
(* and the I/O thread (run_SocketThread_).  Regions under d->mutex are     *)
(* single actions; d->fd, d->thread and d->connecting are also read        *)
(* without it, and those reads are actions of their own.                   *)
(*                                                                         *)
(* Data is counted in writes.  Incoming data, which only goes to the input *)
(* buffer, is left out.                                                    *)
(***************************************************************************)
EXTENDS Naturals

CONSTANTS Hosts,      \* how many addresses the lookup finds
          PipeSize,   \* how many bytes fit in the wake-up pipe
          MaxTake,    \* how much the I/O thread takes to send at a time, 0x10000 bytes
          MaxWrites,  \* bound of the models: writes by the caller
          MaxOpens    \* bound of the models: calls of open_Socket

VARIABLES status,      \* d->status
          fd,          \* d->fd is an open descriptor
          lookup,      \* of d->address: pending, flagged (observers not told), told
          observing,   \* addressLookedUp_Socket_ is connected to the address
          connecting,  \* how far d->connecting has come ("none": NULL)
          tries,       \* the addresses it has not tried
          stop,        \* the stopConnect pipe
          io,          \* how far the I/O thread has come
          thread,      \* d->thread is set
          mode,        \* of the I/O thread
          wake,        \* bytes in the I/O thread's wake-up pipe
          output,      \* d->output, in writes
          sending,     \* what the I/O thread has taken from it to send
          peer,        \* the other end: "ok", "closed", "reset"
          call,        \* how far the caller has come in the function it called
          flushed,     \* close_Socket found the socket connected, flushed it in full
          opens,       \* calls of open_Socket
          aborted      \* an assertion failed

connectVars == <<connecting, tries, stop>>
ioVars == <<io, mode, sending, peer>>
callVars == <<call, flushed, opens>>
vars == <<status, fd, lookup, observing, connectVars, ioVars, thread, wake, output,
          callVars, aborted>>

(* new_Socket, newAddress_Socket and newExisting_Socket (an accepted one). *)
Init == /\ status \in {"addressLookup", "initialized", "connected"}
        /\ observing = (status = "addressLookup")
        /\ lookup = IF observing THEN "pending" ELSE "told"
        /\ fd = (status = "connected")
        /\ thread = (status = "connected")
        /\ io = IF thread THEN "start" ELSE "none"
        /\ connecting = "none" /\ tries = 0 /\ stop = "empty"
        /\ mode = "run" /\ wake = 0
        /\ output = 0 /\ sending = 0 /\ peer = "ok"
        /\ call = "idle" /\ flushed = FALSE /\ opens = 0 /\ aborted = FALSE

\* The program goes on until an assertion fails.
Running == ~aborted

\* A writer blocked on the full pipe keeps d->mutex.
Unlocked == Running /\ call # "writing"

-----------------------------------------------------------------------------
(* Opening.                                                                *)

(* open_Socket_, called with the mutex held.                               *)
open_Socket_ ==
  IF lookup = "pending" THEN /\ status' = "connecting"
                             /\ UNCHANGED <<connecting, tries, aborted>>
  ELSE IF connecting # "none" THEN UNCHANGED <<status, connecting, tries, aborted>>
  ELSE /\ aborted' = fd      \* iAssert(d->fd == -1)
       /\ status' = "connecting"
       /\ connecting' = "trying"
       /\ tries' = Hosts

open_Socket == /\ Running /\ call \in {"idle", "closed"} /\ opens < MaxOpens
               /\ opens' = opens + 1
               /\ call' = "idle"
               /\ IF status \in {"connecting", "connected"}
                    THEN UNCHANGED <<status, connecting, tries, aborted>>
                    ELSE open_Socket_
               /\ UNCHANGED <<fd, lookup, observing, stop, ioVars, thread, wake, output,
                              flushed>>

(* The lookup thread sets the flag of the address ...                      *)
AddressFinishes == /\ Running /\ lookup = "pending"
                   /\ lookup' = "flagged"
                   /\ UNCHANGED <<status, fd, observing, connectVars, ioVars, thread,
                                  wake, output, callVars, aborted>>

\* Mutant: an open socket is not taken further.
LooksUpOnly ==
  /\ lookup = "flagged" /\ Unlocked
  /\ lookup' = "told"
  /\ status' = IF observing /\ status = "addressLookup" THEN "initialized" ELSE status
  /\ UNCHANGED <<connecting, tries, aborted, fd, observing, stop, ioVars, thread, wake,
                 output, callVars>>

(* ... and then notifies the socket, if that still observes it.            *)
addressLookedUp_Socket_ ==
  /\ lookup = "flagged" /\ Unlocked
  /\ lookup' = "told"
  /\ IF observing /\ status = "connecting" THEN open_Socket_
     ELSE /\ status' = IF observing /\ status = "addressLookup" THEN "initialized"
                                                               ELSE status
          /\ UNCHANGED <<connecting, tries, aborted>>
  /\ UNCHANGED <<fd, observing, stop, ioVars, thread, wake, output, callVars>>

-----------------------------------------------------------------------------
(* connectAsync_Socket_.                                                   *)

(* The next address: a new descriptor replaces the last one; connect()     *)
(* fails at once, or is waited for.                                        *)
TryAddress == /\ Running /\ connecting = "trying" /\ tries > 0
              /\ tries' = tries - 1
              /\ fd' = TRUE
              /\ connecting' \in {"trying", "waiting"}
              /\ aborted' = (connecting' = "waiting" /\ stop = "deleted")
              /\ UNCHANGED <<status, lookup, observing, stop, ioVars, thread, wake, output,
                             callVars>>

(* select(): told to stop, an error or the timeout, or connected.          *)
Selected == /\ Running /\ connecting = "waiting"
            /\ connecting' \in IF stop = "byte" THEN {"failed"} ELSE {"trying", "linked"}
            /\ UNCHANGED <<status, fd, lookup, observing, tries, stop, ioVars, thread, wake,
                           output, callVars, aborted>>

(* startThread_Socket_.                                                    *)
startThread_Socket_ ==
  IF thread THEN aborted' = TRUE /\ UNCHANGED <<io, mode, peer, thread, wake>>
            ELSE /\ thread' = TRUE /\ io' = "start" /\ mode' = "run" /\ wake' = 0
                 /\ peer' = "ok"
                 /\ UNCHANGED aborted

(* Connected: the I/O thread is started, unless the socket is being closed.*)
Connected ==
  /\ connecting = "linked" /\ Unlocked
  /\ connecting' = "exited"
  /\ IF status = "connecting"
       THEN status' = "connected" /\ startThread_Socket_
       ELSE UNCHANGED <<status, io, mode, peer, thread, wake, aborted>>
  /\ UNCHANGED <<fd, lookup, observing, tries, stop, sending, output, callVars>>

(* All addresses have failed, or the stop was seen: setError_Socket_.  The *)
(* descriptor stays open.                                                  *)
Failed == /\ connecting = "failed" \/ (connecting = "trying" /\ tries = 0)
          /\ Unlocked
          /\ connecting' = "exited"
          /\ status' = "disconnected"
          /\ UNCHANGED <<fd, lookup, observing, tries, stop, ioVars, thread, wake, output,
                         callVars, aborted>>

-----------------------------------------------------------------------------
(* run_SocketThread_.                                                      *)

IoGoes(pc) == /\ Running
              /\ io' = pc
              /\ UNCHANGED <<fd, lookup, observing, connecting, tries, mode, peer, thread,
                             flushed, opens, aborted>>

IoStart == /\ io = "start" /\ Unlocked
           /\ stop' = "deleted"
           /\ IoGoes("top")
           /\ UNCHANGED <<status, wake, output, sending, call>>

(* The loop's condition, and a byte so that select() will not wait while   *)
(* there is data to send; the pipe may be full.                            *)
IoTop == /\ io = "top" /\ Unlocked
         /\ \/ mode = "stop" /\ IoGoes("exited") /\ UNCHANGED wake
            \/ mode = "run" /\ output = 0 /\ IoGoes("select") /\ UNCHANGED wake
            \/ /\ mode = "run" /\ output > 0 /\ wake < PipeSize
               /\ wake' = wake + 1 /\ IoGoes("select")
         /\ UNCHANGED <<status, stop, output, sending, call>>

(* select() and recv(): a descriptor that is closed is an error; the peer  *)
(* has closed or reset the connection; or there is a byte in the pipe.     *)
IoSelect ==
  /\ io = "select"
  /\ ~fd \/ peer # "ok" \/ wake > 0
  /\ wake' = IF fd /\ wake > 0 THEN wake - 1 ELSE wake
  /\ IoGoes(IF ~fd \/ (peer = "reset" /\ status # "connected") THEN "exited"
            ELSE IF peer = "ok" THEN "check" ELSE "shut1")
  /\ UNCHANGED <<status, stop, output, sending, call>>

Taken == IF output < MaxTake THEN output ELSE MaxTake

IoTake == /\ io = "check" /\ Unlocked
          /\ IF mode = "run" /\ output > 0
               THEN sending' = Taken /\ output' = output - Taken /\ IoGoes("send")
               ELSE UNCHANGED <<sending, output>> /\ IoGoes("top")
          /\ UNCHANGED <<status, stop, wake, call>>

(* send(): all of the block, or an error, which is ignored.                *)
IoSend == /\ io = "send"
          /\ sending' = 0
          /\ IoGoes("sent")
          /\ UNCHANGED <<status, stop, wake, output, call>>

\* The caller is past its wait_Condition (an `if', not a loop).
Awake == [flushing |-> "idle", closeFlushing |-> "stop"]

\* Mutant: allSent is not signalled.
SentSilently == /\ io = "sent" /\ Unlocked
                /\ IoGoes("top")
                /\ UNCHANGED <<status, stop, wake, output, sending, call>>

IoSent == /\ io = "sent" /\ Unlocked
          /\ call' = IF output = 0 /\ call \in DOMAIN Awake THEN Awake[call] ELSE call
          /\ IoGoes("top")
          /\ UNCHANGED <<status, stop, wake, output, sending>>

(* shutdown_Socket_, by the I/O thread: its two regions.                   *)
IoShutdown == /\ io = "shut1" /\ Unlocked
              /\ status' = "disconnecting"
              /\ IoGoes("shut2")
              /\ UNCHANGED <<stop, wake, output, sending, call>>

IoClosed == /\ io = "shut2" /\ Unlocked
            /\ fd' = FALSE /\ status' = "disconnected" /\ io' = "exited"
            /\ UNCHANGED <<lookup, observing, connectVars, mode, sending, peer, thread,
                           wake, output, callVars, aborted>>

PeerLeaves == /\ Running /\ peer = "ok" /\ status = "connected"
              /\ peer' \in {"closed", "reset"}
              /\ UNCHANGED <<status, fd, lookup, observing, connectVars, io, mode, sending,
                             thread, wake, output, callVars, aborted>>

-----------------------------------------------------------------------------
(* The caller: writing, flushing, closing, releasing.                      *)

CallerGoes(pc) == /\ Running
                  /\ call' = pc
                  /\ UNCHANGED <<lookup, tries, io, sending, peer, opens, aborted>>

\* Mutant: the I/O thread is not told.
WritesQuietly == /\ call = "idle" /\ output + sending < MaxWrites
                 /\ output' = output + 1
                 /\ CallerGoes("idle")
                 /\ UNCHANGED <<status, fd, observing, connecting, stop, mode, thread,
                                wake, flushed>>

(* write_Socket_: the I/O thread is woken with a byte in its pipe; when    *)
(* that is full, the caller waits for room with the mutex locked.          *)
write_Socket_ ==
  /\ call = "idle" /\ output + sending < MaxWrites
  /\ output' = output + 1
  /\ wake' = IF thread /\ wake < PipeSize THEN wake + 1 ELSE wake
  /\ CallerGoes(IF thread /\ wake = PipeSize THEN "writing" ELSE "idle")
  /\ UNCHANGED <<status, fd, observing, connecting, stop, mode, thread, flushed>>

WakeUp == /\ call = "writing" /\ wake < PipeSize
          /\ wake' = wake + 1
          /\ CallerGoes("idle")
          /\ UNCHANGED <<status, fd, observing, connecting, stop, mode, thread,
                         output, flushed>>

flush_Socket == /\ call = "idle"
                /\ CallerGoes(IF output > 0 THEN "flushing" ELSE "idle")
                /\ UNCHANGED <<status, fd, observing, connecting, stop, mode, thread,
                               wake, output, flushed>>

SpuriousWakeup == /\ call \in DOMAIN Awake
                  /\ flushed' = FALSE
                  /\ CallerGoes(Awake[call])
                  /\ UNCHANGED <<status, fd, observing, connecting, stop, mode, thread,
                                 wake, output>>

\* Mutant: the output is dropped.
CloseUnflushed == /\ call = "idle"
                  /\ observing' = FALSE
                  /\ flushed' = (status = "connected")
                  /\ CallerGoes("stop")
                  /\ UNCHANGED <<status, fd, connecting, stop, mode, thread, wake, output>>

(* close_Socket: the address is no longer observed; a connected socket is  *)
(* to be flushed first.                                                    *)
close_Socket == /\ call = "idle"
                /\ observing' = FALSE
                /\ flushed' = (status = "connected")
                /\ CallerGoes(IF status = "connected" THEN "closeFlush" ELSE "stop")
                /\ UNCHANGED <<status, fd, connecting, stop, mode, thread, wake, output>>

CloseFlush == /\ call = "closeFlush"
              /\ CallerGoes(IF output > 0 THEN "closeFlushing" ELSE "stop")
              /\ UNCHANGED <<status, fd, observing, connecting, stop, mode, thread,
                             wake, output, flushed>>

(* stopThread_Socket_: d->thread is read without the mutex.                *)
StopIo == /\ call = "stop"
          /\ IF thread THEN /\ wake < PipeSize
                            /\ mode' = "stop" /\ wake' = wake + 1
                            /\ CallerGoes("joinIo")
                       ELSE UNCHANGED <<mode, wake>> /\ CallerGoes("region")
          /\ UNCHANGED <<status, fd, observing, connecting, stop, thread, output, flushed>>

JoinIo == /\ call = "joinIo" /\ io = "exited"
          /\ thread' = FALSE
          /\ CallerGoes("region")
          /\ UNCHANGED <<status, fd, observing, connecting, stop, mode, wake, output, flushed>>

(* The region in the middle of close_Socket.                               *)
BeginDisconnect ==
  /\ call = "region"
  /\ IF status \in {"disconnecting", "disconnected"}
       THEN UNCHANGED <<status, stop>> /\ CallerGoes("joinAndReturn")
       ELSE /\ status' = "disconnecting"
            /\ stop' = IF status = "connecting" /\ stop = "empty" THEN "byte" ELSE stop
            /\ CallerGoes("join")
  /\ UNCHANGED <<fd, observing, connecting, mode, thread, wake, output, flushed>>

JoinConnecting == /\ call \in {"join", "joinAndReturn"}
                  /\ connecting \in {"none", "exited"}
                  /\ connecting' = "none"
                  /\ CallerGoes(IF call = "join" THEN "shut1" ELSE "closed")
                  /\ UNCHANGED <<status, fd, observing, stop, mode, thread, wake, output, flushed>>

Shutdown == /\ call = "shut1"
            /\ status' = "disconnecting"
            /\ CallerGoes("shut2")
            /\ UNCHANGED <<fd, observing, connecting, stop, mode, thread, wake, output, flushed>>

Closed == /\ call = "shut2"
          /\ status' = "disconnected" /\ fd' = FALSE
          /\ CallerGoes("closed")
          /\ UNCHANGED <<observing, connecting, stop, mode, thread, wake, output, flushed>>

(* deinit_Socket: past its close_Socket, it waits for the address and      *)
(* frees the rest.                                                         *)
deinit_Socket == /\ call = "closed" /\ lookup # "pending"
                 /\ CallerGoes("gone")
                 /\ UNCHANGED <<status, fd, observing, connecting, stop, mode, thread, wake,
                                output, flushed>>

-----------------------------------------------------------------------------

LookupStep == AddressFinishes \/ addressLookedUp_Socket_

ConnectStep == TryAddress \/ Selected \/ Connected \/ Failed

IoStep == \/ IoStart \/ IoTop \/ IoSelect \/ IoTake \/ IoSend \/ IoSent
          \/ IoShutdown \/ IoClosed

CallerStep == \/ WakeUp \/ CloseFlush \/ StopIo \/ JoinIo \/ BeginDisconnect
              \/ JoinConnecting \/ Shutdown \/ Closed

Next == \/ open_Socket \/ write_Socket_ \/ flush_Socket \/ close_Socket \/ deinit_Socket
        \/ CallerStep \/ LookupStep \/ ConnectStep \/ IoStep
        \/ SpuriousWakeup \/ PeerLeaves

(* Threads that can run do, the lookup ends, and select() in the           *)
(* connecting thread has a timeout.  Strong fairness is that of the mutex: *)
(* a caller that keeps writing locks it time and again.  Nothing is        *)
(* assumed of the peer, of what the caller does next, or of spurious       *)
(* wake-ups.                                                               *)
Fairness == /\ SF_vars(LookupStep) /\ SF_vars(ConnectStep) /\ SF_vars(IoStep)
            /\ WF_vars(CallerStep)

Spec == Init /\ [][Next]_vars /\ Fairness

-----------------------------------------------------------------------------

Closing == {"join", "joinAndReturn", "shut1", "shut2", "closed", "gone"}

Flags == /\ fd \in BOOLEAN /\ observing \in BOOLEAN /\ thread \in BOOLEAN
         /\ flushed \in BOOLEAN /\ aborted \in BOOLEAN

(* The values the state takes, and how they go together: a connected       *)
(* socket has a descriptor, and one that is being closed never becomes     *)
(* connected.                                                              *)
TypeOK ==
  /\ status \in {"addressLookup", "initialized", "connecting", "connected",
                 "disconnecting", "disconnected"}
  /\ lookup \in {"pending", "flagged", "told"}
  /\ connecting \in {"none", "trying", "waiting", "linked", "failed", "exited"}
  /\ tries \in 0..Hosts
  /\ stop \in {"empty", "byte", "deleted"}
  /\ io \in {"none", "start", "top", "select", "check", "send", "sent", "shut1", "shut2",
            "exited"}
  /\ mode \in {"run", "stop"} /\ peer \in {"ok", "closed", "reset"}
  /\ wake \in 0..PipeSize
  /\ output \in Nat /\ sending \in Nat
  /\ call \in Closing \cup DOMAIN Awake
             \cup {"idle", "writing", "closeFlush", "stop", "joinIo", "region"}
  /\ Flags
  /\ opens \in 0..MaxOpens
  /\ thread => io # "none"
  /\ sending > 0 => io = "send"
  /\ status = "connected" => fd
  /\ call \in Closing => status \in {"disconnecting", "disconnected"}

(* Written data does not lie while the I/O thread sleeps: when it waits in *)
(* select() with nothing in its pipe, there is nothing to send.            *)
NoStuckOutput ==
  /\ TypeOK
  /\ io = "select" /\ wake = 0 /\ thread => (output = 0 \/ call = "writing")

(* close_Socket sends what was written to a connected socket before it     *)
(* disconnects, if the peer stays and the wait is not cut short.           *)
CloseLosesNothing ==
  call = "region" /\ flushed /\ peer = "ok" => output = 0 /\ sending = 0 /\ fd

(* The inductive invariant of the two above.  Without an I/O thread none of *)
(* its steps is under way; a descriptor the connecting thread still works   *)
(* on is there unless the socket has been disconnected meanwhile; an I/O    *)
(* thread shuts the socket down only when the peer has left.                *)
Joined == /\ ~thread => io \in {"none", "exited"}
          /\ lookup = "pending" => connecting = "none"
          /\ connecting \in {"waiting", "linked"} /\ status = "connecting" => fd
          /\ status = "connected" => /\ connecting \in {"none", "exited"}
                                     /\ thread \/ call = "region"
          /\ peer = "ok" => io \notin {"shut1", "shut2"}

(* From close_Socket's look at the status to the region in its middle.      *)
Flushing ==
  flushed /\ call \in {"closeFlush", "closeFlushing", "stop", "joinIo", "region"} =>
    /\ ~observing /\ status \in {"connected", "disconnecting", "disconnected"}
    /\ peer = "ok" => /\ status = "connected"
                      /\ call \in {"stop", "joinIo", "region"} => output = 0
                      /\ IF call = "region" THEN sending = 0 ELSE thread

IInv == NoStuckOutput /\ Joined /\ Flushing

\* Someone waits for room in the pipe that the I/O thread will not make.
Jammed == /\ wake = PipeSize
          /\ \/ call = "writing" /\ io # "select"
             \/ call = "stop" /\ io = "exited"
             \/ io = "top" /\ output > 0

\* A flush waits for data that nobody will send.
Unsent == call \in DOMAIN Awake /\ io = "exited"

\* close_Socket has disconnected the socket from its pending lookup for good.
Unheard == ~observing /\ connecting = "none"

(* An opened socket does not stay connecting (the comment in open_Socket_  *)
(* on a lookup that finishes at that moment), unless it was closed before. *)
OpenSettles ==
  status = "connecting" ~> status # "connecting" \/ aborted \/ Jammed \/ Unheard

(* close_Socket returns, whichever threads are running and however far     *)
(* they have come, but for a flush after the I/O thread has ended or a     *)
(* full pipe.                                                              *)
CloseReturns ==
  call \in {"closeFlush", "stop"} ~> call = "closed" \/ aborted \/ Jammed \/ Unsent

(* The assertions of open_Socket_, startThread_Socket_ and                 *)
(* connectAsync_Socket_ hold, also when a socket is opened once more.      *)
AssertionsHold == ~aborted
=============================================================================
