----------------------------- MODULE MCTransfer -----------------------------
(* What hands data from one thread to another, on small instances, one of    *)
(* them in each behaviour: a queue that three threads use, and a socket that *)
(* is opened twice, whose host has two addresses.                            *)
EXTENDS Queue

CONSTANTS Hosts, PipeSize, MaxTake, MaxWrites, MaxOpens

ASSUME MCAssumption == {Hosts, PipeSize, MaxTake, MaxOpens} \subseteq Nat

VARIABLES subject,
          status, fd, lookup, observing, connecting, tries, stop, io, thread, mode, wake,
          output, sending, peer, call, flushed, opens, aborted

S == INSTANCE Socket

socketVars == <<status, fd, lookup, observing, connecting, tries, stop, io, thread, mode,
                wake, output, sending, peer, call, flushed, opens, aborted>>

MCInit == /\ Init /\ S!Init /\ subject \in {"queue", "socket"}
          /\ IF subject = "socket" THEN TRUE ELSE status = "initialized"

(* A socket may come to rest; a queue never does.                            *)
MCNext == /\ UNCHANGED subject
          /\ \/ subject = "queue" /\ Next /\ UNCHANGED socketVars
             \/ subject = "socket" /\ S!Next /\ UNCHANGED queueVars
             \/ subject = "socket" /\ UNCHANGED <<queueVars, socketVars>>

(* In the behaviours of the other subject these steps are never enabled.     *)
MCSpec == /\ MCInit /\ [][MCNext]_<<subject, queueVars, socketVars>> /\ S!Fairness
          /\ \A t \in Threads : WF_queueVars(Proceed(t)) /\ WF_queueVars(TimeOut(t))

NoStuckOutput == S!NoStuckOutput
CloseLosesNothing == S!CloseLosesNothing
OpenSettles == S!OpenSettles
CloseReturns == S!CloseReturns

-----------------------------------------------------------------------------
(* What is proved of the socket, for any number of addresses, any size of    *)
(* the wake-up pipe, and any writes and reopenings.                          *)

\* The Boolean variables keep their type.
LEMMA FlagsStep == ASSUME S!Flags, S!Next PROVE S!Flags'
<1> USE DEF S!Flags
<1>1. CASE S!open_Socket
  BY <1>1 DEF S!open_Socket, S!open_Socket_
<1>2. CASE S!LookupStep
  <2>1. CASE S!AddressFinishes
    BY <2>1 DEF S!AddressFinishes, S!callVars
  <2>2. CASE S!addressLookedUp_Socket_
    BY <2>2 DEF S!addressLookedUp_Socket_, S!open_Socket_, S!callVars
  <2> QED BY <1>2, <2>1, <2>2 DEF S!LookupStep
<1>3. CASE S!ConnectStep
  <2>1. CASE S!TryAddress \/ S!Selected \/ S!Failed
    BY <2>1 DEF S!TryAddress, S!Selected, S!Failed, S!callVars
  <2>2. CASE S!Connected
    BY <2>2 DEF S!Connected, S!startThread_Socket_, S!callVars
  <2> QED BY <1>3, <2>1, <2>2 DEF S!ConnectStep
<1>4. CASE S!IoStep \/ S!PeerLeaves
  <2>1. CASE S!IoStart \/ S!IoTop \/ S!IoSelect \/ S!IoTake \/ S!IoSend \/ S!IoSent \/ S!IoShutdown
    BY <2>1 DEF S!IoStart, S!IoTop, S!IoSelect, S!IoTake, S!IoSend, S!IoSent, S!IoShutdown, S!IoGoes
  <2>2. CASE S!IoClosed \/ S!PeerLeaves
    BY <2>2 DEF S!IoClosed, S!PeerLeaves, S!callVars
  <2> QED BY <1>4, <2>1, <2>2 DEF S!IoStep
<1>5. CASE \/ S!write_Socket_ \/ S!flush_Socket \/ S!close_Socket \/ S!deinit_Socket
           \/ S!CallerStep \/ S!SpuriousWakeup
  BY <1>5 DEF S!write_Socket_, S!flush_Socket, S!close_Socket, S!deinit_Socket, S!CallerStep,
              S!SpuriousWakeup, S!WakeUp, S!CloseFlush, S!StopIo, S!JoinIo, S!BeginDisconnect,
              S!JoinConnecting, S!Shutdown, S!Closed, S!CallerGoes
<1> QED BY <1>1, <1>2, <1>3, <1>4, <1>5 DEF S!Next

LEMMA SocketInit == S!Init => S!IInv
<1> SUFFICES ASSUME S!Init PROVE S!IInv
  OBVIOUS
<1> USE MCAssumption DEF S!Init, S!Closing, S!Awake
<1>1. S!Flags
  <2>1. fd \in BOOLEAN /\ observing \in BOOLEAN /\ thread \in BOOLEAN
    OBVIOUS
  <2>2. flushed \in BOOLEAN /\ aborted \in BOOLEAN
    OBVIOUS
  <2> QED BY <2>1, <2>2 DEF S!Flags
<1>2. S!NoStuckOutput
  <2>1. /\ io \in {"none", "start"}
        /\ thread => io # "none"
        /\ status = "connected" => fd
    OBVIOUS
  <2>2. /\ lookup \in {"pending", "told"} /\ output = 0 /\ sending = 0 /\ wake = 0 /\ tries = 0
        /\ opens = 0 /\ call = "idle" /\ mode = "run" /\ stop = "empty" /\ peer = "ok"
        /\ connecting = "none" /\ status \in {"addressLookup", "initialized", "connected"}
    OBVIOUS
  <2>3. 0 \in 0..PipeSize /\ 0 \in 0..Hosts /\ 0 \in 0..MaxOpens
    OBVIOUS
  <2>4. "idle" \in S!Closing \cup DOMAIN S!Awake
                 \cup {"idle", "writing", "closeFlush", "stop", "joinIo", "region"}
    OBVIOUS
  <2> HIDE DEF S!Init, S!Closing, S!Awake
  <2>5. /\ tries \in 0..Hosts /\ wake \in 0..PipeSize /\ opens \in 0..MaxOpens
        /\ output \in Nat /\ sending \in Nat /\ ~(sending > 0)
    BY <2>2, <2>3
  <2>6. call \notin S!Closing
    BY <2>2 DEF S!Closing
  <2>7. S!TypeOK
    BY <1>1, <2>1, <2>2, <2>4, <2>5, <2>6 DEF S!TypeOK
  <2> QED BY <2>2, <2>7 DEF S!NoStuckOutput
<1>3. S!Joined
  BY DEF S!Joined
<1>4. S!Flushing
  BY DEF S!Flushing
<1> QED BY <1>2, <1>3, <1>4 DEF S!IInv

LEMMA OpenStep == ASSUME S!IInv, S!Flags', S!open_Socket PROVE S!IInv'
<1> USE MCAssumption DEF S!IInv, S!NoStuckOutput, S!TypeOK, S!Joined, S!Flushing,
                         S!Closing, S!Awake, S!ioVars
<1>1. CASE status \in {"connecting", "connected"}
  BY <1>1 DEF S!open_Socket
<1>2. CASE status \notin {"connecting", "connected"}
  BY <1>2 DEF S!open_Socket, S!open_Socket_
<1> QED BY <1>1, <1>2

LEMMA LookupStep == ASSUME S!IInv, S!Flags', S!LookupStep PROVE S!IInv'
<1> USE MCAssumption DEF S!IInv, S!NoStuckOutput, S!TypeOK, S!Joined, S!Flushing,
                         S!Closing, S!Awake, S!ioVars, S!connectVars, S!callVars
<1>1. CASE S!AddressFinishes
  BY <1>1 DEF S!AddressFinishes
<1>2. CASE S!addressLookedUp_Socket_
  <2>1. CASE observing /\ status = "connecting"
    BY <1>2, <2>1 DEF S!addressLookedUp_Socket_, S!open_Socket_
  <2>2. CASE ~(observing /\ status = "connecting")
    BY <1>2, <2>2 DEF S!addressLookedUp_Socket_
  <2> QED BY <2>1, <2>2
<1> QED BY <1>1, <1>2 DEF S!LookupStep

LEMMA ConnectStep == ASSUME S!IInv, S!Flags', S!ConnectStep PROVE S!IInv'
<1> USE MCAssumption DEF S!IInv, S!NoStuckOutput, S!TypeOK, S!Joined, S!Flushing,
                         S!Closing, S!Awake, S!ioVars, S!callVars
<1>1. CASE S!TryAddress
  BY <1>1 DEF S!TryAddress
<1>2. CASE S!Selected
  BY <1>2 DEF S!Selected
<1>3. CASE S!Connected
  BY <1>3 DEF S!Connected, S!startThread_Socket_
<1>4. CASE S!Failed
  BY <1>4 DEF S!Failed
<1> QED BY <1>1, <1>2, <1>3, <1>4 DEF S!ConnectStep

LEMMA IoStep == ASSUME S!IInv, S!Flags', S!IoStep \/ S!PeerLeaves PROVE S!IInv'
<1> USE MCAssumption DEF S!IInv, S!NoStuckOutput, S!TypeOK, S!Joined, S!Flushing,
                         S!Closing, S!Awake, S!connectVars, S!callVars, S!IoGoes
<1>1. CASE S!IoStart
  BY <1>1 DEF S!IoStart
<1>2. CASE S!IoTop
  BY <1>2 DEF S!IoTop
<1>3. CASE S!IoSelect
  BY <1>3 DEF S!IoSelect
<1>4. CASE S!IoTake
  <2>1. S!Taken \in Nat /\ output - S!Taken \in Nat /\ (output = 0 => S!Taken = 0)
    BY DEF S!Taken
  <2> QED BY <1>4, <2>1 DEF S!IoTake
<1>5. CASE S!IoSend
  BY <1>5 DEF S!IoSend
<1>6. CASE S!IoSent
  BY <1>6 DEF S!IoSent
<1>7. CASE S!IoShutdown
  BY <1>7 DEF S!IoShutdown
<1>8. CASE S!IoClosed
  BY <1>8 DEF S!IoClosed
<1>9. CASE S!PeerLeaves
  BY <1>9 DEF S!PeerLeaves
<1> QED BY <1>1, <1>2, <1>3, <1>4, <1>5, <1>6, <1>7, <1>8, <1>9 DEF S!IoStep

LEMMA CallerStep ==
  ASSUME S!IInv, S!Flags',
         \/ S!write_Socket_ \/ S!flush_Socket \/ S!close_Socket \/ S!deinit_Socket
         \/ S!CallerStep \/ S!SpuriousWakeup
  PROVE  S!IInv'
<1> USE MCAssumption DEF S!IInv, S!NoStuckOutput, S!TypeOK, S!Joined, S!Flushing,
                         S!Closing, S!Awake, S!CallerGoes
<1>1. CASE S!write_Socket_
  BY <1>1 DEF S!write_Socket_
<1>2. CASE S!WakeUp
  BY <1>2 DEF S!WakeUp
<1>3. CASE S!flush_Socket
  BY <1>3 DEF S!flush_Socket
<1>4. CASE S!SpuriousWakeup
  BY <1>4 DEF S!SpuriousWakeup
<1>5. CASE S!close_Socket
  <2> USE DEF S!close_Socket
  <2>1. S!TypeOK'
    BY <1>5
  <2>2. (io = "select" /\ wake = 0 /\ thread => (output = 0 \/ call = "writing"))'
    BY <1>5
  <2>3. S!Joined' /\ S!Flushing'
    BY <1>5
  <2> QED BY <2>1, <2>2, <2>3
<1>6. CASE S!CloseFlush
  BY <1>6 DEF S!CloseFlush
<1>7. CASE S!StopIo
  BY <1>7 DEF S!StopIo
<1>8. CASE S!JoinIo
  BY <1>8 DEF S!JoinIo
<1>9. CASE S!BeginDisconnect
  BY <1>9 DEF S!BeginDisconnect
<1>10. CASE S!JoinConnecting
  BY <1>10 DEF S!JoinConnecting
<1>11. CASE S!Shutdown
  BY <1>11 DEF S!Shutdown
<1>12. CASE S!Closed
  BY <1>12 DEF S!Closed
<1>13. CASE S!deinit_Socket
  BY <1>13 DEF S!deinit_Socket
<1> QED BY <1>1, <1>2, <1>3, <1>4, <1>5, <1>6, <1>7, <1>8, <1>9, <1>10, <1>11, <1>12, <1>13
        DEF S!CallerStep

LEMMA SocketStep == S!IInv /\ [S!Next]_(S!vars) => S!IInv'
<1>1. ASSUME S!IInv, UNCHANGED S!vars PROVE S!IInv'
  BY <1>1 DEF S!vars, S!connectVars, S!ioVars, S!callVars,
              S!IInv, S!NoStuckOutput, S!TypeOK, S!Flags, S!Joined, S!Flushing
<1>2. S!IInv => S!Flags
  BY DEF S!IInv, S!NoStuckOutput, S!TypeOK
<1> QED BY <1>1, <1>2, FlagsStep, OpenStep, LookupStep, ConnectStep, IoStep, CallerStep DEF S!Next

(* A step of the whole is a step of the queue and one of the socket, or      *)
(* leaves them alone.                                                        *)
LEMMA MCStep == [MCNext]_<<subject, queueVars, socketVars>>
                  => [Next]_queueVars /\ [S!Next]_(S!vars)
BY DEF MCNext, socketVars, S!vars, S!connectVars, S!ioVars, S!callVars

(* The I/O thread of a socket does not sleep in select() over data that was  *)
(* written: the byte in its pipe is there, or its writer is about to put it. *)
THEOREM OutputIsNotStuck == MCSpec => []NoStuckOutput
<1>1. MCInit => S!IInv
  BY SocketInit DEF MCInit
<1>2. S!IInv /\ [MCNext]_<<subject, queueVars, socketVars>> => S!IInv'
  BY SocketStep, MCStep
<1>3. S!IInv => NoStuckOutput
  BY DEF S!IInv, NoStuckOutput
<1> QED BY <1>1, <1>2, <1>3, PTL DEF MCSpec

(* close_Socket has sent all that was written to a connected socket when it  *)
(* disconnects, if the peer stayed and the wait was not cut short.           *)
THEOREM CloseSendsAll == MCSpec => []CloseLosesNothing
<1>1. MCInit => S!IInv
  BY SocketInit DEF MCInit
<1>2. S!IInv /\ [MCNext]_<<subject, queueVars, socketVars>> => S!IInv'
  BY SocketStep, MCStep
<1>3. S!IInv => CloseLosesNothing
  BY DEF S!IInv, S!NoStuckOutput, S!TypeOK, S!Flushing, CloseLosesNothing, S!CloseLosesNothing
<1> QED BY <1>1, <1>2, <1>3, PTL DEF MCSpec
=============================================================================
