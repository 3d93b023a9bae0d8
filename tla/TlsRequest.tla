----------------------------- MODULE TlsRequest -----------------------------
(***************************************************************************)
(* A TLS request (tlsrequest.c): one submission, from submit_TlsRequest to *)
(* its release.  Five threads meet: one that cancels and releases the      *)
(* request, one in waitForFinished_TlsRequest, the request's own           *)
(* (run_TlsRequest_), and the two of its socket, which call it back.  The  *)
(* socket is reduced to the order in which it calls (platform/posix/       *)
(* socket.c); Socket.tla has the rest of it.                               *)
(*                                                                         *)
(* d->mtx guards the status and d->incomingMtx the incoming bytes;         *)
(* setStatus_TlsRequest_ is in two steps because it takes one after the    *)
(* other.  What the peer sends comes in records: its handshake, data, the  *)
(* close notification, and one that cannot be decrypted.                   *)
(***************************************************************************)
EXTENDS Naturals, Sequences, FiniteSets, SequencesExt

CONSTANT MaxRecords   \* bound of the models: records sent by the peer

VARIABLES status,     \* d->status
          run,        \* how far run_TlsRequest_ has come ("none": d->thread is NULL)
          ssl,        \* d->ssl: in the handshake, open, closed by the peer, failed
          sending,    \* d->sending is not empty
          incoming,   \* d->incoming, in records
          result,     \* d->result, in records
          told,       \* how often the audience `finished' has been notified
          link,       \* the socket's status
          conn,       \* how far the socket's connecting thread has come
          io,         \* how far the socket's I/O thread has come
          output,     \* the socket's output, in writes
          net,        \* records on their way
          got,        \* writes that have reached the peer
          sent,       \* all records the peer has sent
          hungUp,     \* the peer has closed the connection
          call,       \* how far the caller has come in the function it called
          cancelled,  \* cancel_TlsRequest closed the socket
          waiter      \* in waitForFinished_TlsRequest

sslVars == <<ssl, sending, result>>
peerVars == <<got, sent, hungUp>>
callVars == <<call, cancelled>>
vars == <<status, run, sslVars, incoming, told, link, conn, io, output, net, peerVars,
          callVars, waiter>>

Records == {"handshake", "data", "close", "garbled"}

\* How many records of a sequence are data.
DataIn(s) == Cardinality({i \in 1..Len(s) : s[i] = "data"})

Init == /\ status = "initialized" /\ run = "none"
        /\ ssl = "handshake" /\ sending = TRUE /\ result = 0
        /\ incoming = <<>> /\ told = 0
        /\ link = "none" /\ conn = "none" /\ io = "none" /\ output = 0
        /\ net = <<>> /\ got = 0 /\ sent = <<>> /\ hungUp = FALSE
        /\ call = "idle" /\ cancelled = FALSE /\ waiter = "idle"

-----------------------------------------------------------------------------
(* What several of the threads do.                                         *)

\* Mutant: those who wait for the end are not told.
StatusOnly(st) == status' = st /\ UNCHANGED waiter

(* setStatus_TlsRequest_, the region under d->mtx, for the two statuses it *)
(* is called with: whoever waits for the end is woken.                     *)
SetStatus(st) == /\ status' = st
                 /\ waiter' = IF status # st /\ waiter = "waiting" THEN "done" ELSE waiter

(* signal_Condition(&d->gotIncoming): past its wait, the thread goes round *)
(* its loop without another look at what it waited for.                    *)
Signal == run' = IF run = "waiting" THEN "encrypt" ELSE run

(* The caller's disconnected_TlsRequest_ and the I/O thread's: the status  *)
(* is final; if it was not before, the next step is to signal.             *)
AfterDisconnect(signal, otherwise) ==
  IF status = "finished" THEN otherwise ELSE signal

-----------------------------------------------------------------------------
(* run_TlsRequest_.                                                        *)

ThreadGoes(from, to) ==
  /\ run = from /\ run' = to
  /\ UNCHANGED <<link, conn, io, net, peerVars, callVars>>

RunStart == /\ ThreadGoes("start", "encrypt")
            /\ output' = output + 1          \* doHandshake_TlsRequest_
            /\ UNCHANGED <<status, sslVars, incoming, told, waiter>>

(* encrypt_TlsRequest_: after the handshake, what is to be sent is written *)
(* to the socket, or fails.                                                *)
Encrypt == /\ ThreadGoes("encrypt", "read")
           /\ IF ssl = "handshake" \/ ~sending
                THEN UNCHANGED <<status, ssl, sending, output, waiter>>
                ELSE \/ /\ ssl # "failed"
                        /\ sending' = FALSE /\ output' = output + 1
                        /\ UNCHANGED <<status, ssl, waiter>>
                     \/ /\ ssl' = "failed" /\ SetStatus("error")
                        /\ UNCHANGED <<sending, output>>
           /\ UNCHANGED <<result, incoming, told>>

Handshaken == ssl # "handshake" \/ Contains(incoming, "handshake")

(* processIncoming_TlsRequest_, with d->incoming as it is, which may be    *)
(* empty: what the peer closed or garbled stays so, and sets the status    *)
(* again each time.                                                        *)
processIncoming_TlsRequest_ ==
  /\ ssl' = IF ssl \in {"failed", "closed"} THEN ssl
            ELSE IF Contains(incoming, "garbled") THEN "failed"
            ELSE IF Contains(incoming, "close") THEN "closed"
            ELSE IF Handshaken THEN "open" ELSE ssl
  /\ result' = result + DataIn(incoming)
  /\ CASE ssl' = "failed" -> SetStatus("error")
       [] ssl' = "closed" -> SetStatus("finished")
       [] OTHER           -> UNCHANGED <<status, waiter>>

(* readIncoming_TlsRequest_.                                               *)
readIncoming_TlsRequest_ ==
  /\ processIncoming_TlsRequest_
  /\ incoming' = <<>>
  /\ UNCHANGED <<sending, output, told>>

ReadIncoming == /\ ThreadGoes("read", IF incoming = <<>> THEN "check" ELSE "encrypt")
                /\ readIncoming_TlsRequest_

CheckStatus == /\ ThreadGoes("check", IF status = "submitted" THEN "sleep" ELSE "last")
               /\ UNCHANGED <<status, sslVars, incoming, told, output, waiter>>

(* d->mtx has been unlocked: the status may be another by now.             *)
WaitIncoming == /\ ThreadGoes("sleep", IF incoming = <<>> THEN "waiting" ELSE "encrypt")
                /\ UNCHANGED <<status, sslVars, incoming, told, output, waiter>>

SpuriousWakeup == /\ ThreadGoes("waiting", "encrypt")
                  /\ UNCHANGED <<status, sslVars, incoming, told, output, waiter>>

\* Mutant: what has come since the last look is left.
SkipLast == /\ ThreadGoes("last", "notify")
            /\ UNCHANGED <<status, sslVars, incoming, told, output, waiter>>

ReadLast == ThreadGoes("last", "notify") /\ readIncoming_TlsRequest_

NotifyFinished == /\ ThreadGoes("notify", "exited")
                  /\ told' = told + 1
                  /\ UNCHANGED <<status, sslVars, incoming, output, waiter>>

RunStep == \/ RunStart \/ Encrypt \/ ReadIncoming \/ CheckStatus \/ WaitIncoming
           \/ ReadLast \/ NotifyFinished

-----------------------------------------------------------------------------
(* The socket's connecting thread.                                         *)

ConnGoes(from, to) ==
  /\ conn = from /\ conn' = to
  /\ UNCHANGED <<sslVars, incoming, output, net, peerVars, callVars>>

(* connectAsync_Socket_: the I/O thread is running before the audience     *)
(* `connected' is told; a socket that is being closed fails or goes quiet. *)
Connects == /\ link = "connecting" /\ ConnGoes("trying", "linked")
            /\ link' = "connected" /\ io' = "idle"
            /\ UNCHANGED <<status, run, told, waiter>>

Fails == /\ ConnGoes("trying", "failed")
         /\ link' = "disconnected"
         /\ UNCHANGED <<status, run, told, io, waiter>>

GivesUp == /\ link # "connecting" /\ ConnGoes("trying", "exited")
           /\ UNCHANGED <<status, run, told, link, io, waiter>>

connected_TlsRequest_ == /\ ConnGoes("linked", "exited")
                         /\ run' = "start"
                         /\ UNCHANGED <<status, told, link, io, waiter>>

(* handleError_TlsRequest_: the status, then the audience, as there is no  *)
(* thread that would do it.                                                *)
handleError_TlsRequest_ == /\ ConnGoes("failed", "erred")
                           /\ SetStatus("error")
                           /\ UNCHANGED <<run, told, link, io>>

\* Mutant: the audience is left to the request's thread, which there is not.
LeavesItToThread == /\ ConnGoes("erred", "exited")
                    /\ told' = IF run = "none" THEN told ELSE told + 1
                    /\ UNCHANGED <<status, run, link, io, waiter>>

NotifyFailed == /\ ConnGoes("erred", "exited")
                /\ told' = IF run = "none" THEN told + 1 ELSE told
                /\ UNCHANGED <<status, run, link, io, waiter>>

ConnStep == \/ Connects \/ Fails \/ GivesUp \/ connected_TlsRequest_
            \/ handleError_TlsRequest_ \/ NotifyFailed

-----------------------------------------------------------------------------
(* The socket's I/O thread, and the peer.                                  *)

IoGoes(from, to) == /\ io = from /\ io' = to
                    /\ UNCHANGED <<sslVars, told, conn, cancelled>>

gotIncoming_TlsRequest_ == /\ net # <<>> /\ IoGoes("idle", "idle")
                           /\ incoming' = incoming \o net /\ net' = <<>>
                           /\ Signal
                           /\ UNCHANGED <<status, link, output, peerVars, call, waiter>>

(* The output is sent; a flush of the socket waits for that.               *)
Send == /\ output > 0 /\ IoGoes("idle", "idle")
        /\ output' = 0 /\ got' = got + output
        /\ call' = IF call = "flush" THEN "stopIo" ELSE call
        /\ UNCHANGED <<status, run, incoming, link, net, sent, hungUp, waiter>>

(* recv() returns 0 when all has been received: shutdown_Socket_.          *)
PeerClosed == /\ hungUp /\ net = <<>> /\ link \in {"connected", "disconnecting"}
              /\ IoGoes("idle", "closing")
              /\ link' = "disconnected"
              /\ UNCHANGED <<status, run, incoming, output, net, peerVars, call, waiter>>

disconnected_TlsRequest_ ==
  /\ IoGoes("closing", AfterDisconnect("signal", "exited"))
  /\ SetStatus("finished")
  /\ UNCHANGED <<run, incoming, link, output, net, peerVars, call>>

IoSignal == /\ IoGoes("signal", "exited")
            /\ Signal
            /\ UNCHANGED <<status, incoming, link, output, net, peerVars, call, waiter>>

(* Told to stop, or the descriptor is closed.                              *)
IoStops == /\ call \in {"stopIo", "freeing"} \/ link \in {"disconnecting", "disconnected"}
           /\ IoGoes("idle", "exited")
           /\ UNCHANGED <<status, run, incoming, link, output, net, peerVars, call, waiter>>

IoStep == \/ gotIncoming_TlsRequest_ \/ Send \/ PeerClosed \/ disconnected_TlsRequest_
          \/ IoSignal \/ IoStops

(* The peer answers the handshake and then the request, and may say that   *)
(* it has finished; or it sends what cannot be understood; or leaves.      *)
PeerSends(r) ==
  /\ ~hungUp /\ Len(sent) < MaxRecords
  /\ ~Contains(sent, "close") /\ ~Contains(sent, "garbled")
  /\ r = "handshake" <=> sent = <<>> /\ r # "garbled"
  /\ got >= (IF sent = <<>> THEN 1 ELSE 2)
  /\ sent' = Append(sent, r) /\ net' = Append(net, r)
  /\ UNCHANGED <<status, run, sslVars, incoming, told, link, conn, io, output, got,
                 hungUp, callVars, waiter>>

PeerHangsUp ==
  /\ ~hungUp /\ link # "none"
  /\ hungUp' = TRUE
  /\ UNCHANGED <<status, run, sslVars, incoming, told, link, conn, io, output, net, got,
                 sent, callVars, waiter>>

-----------------------------------------------------------------------------
(* The caller, and the thread that waits.                                  *)

CallerGoes(from, to) ==
  /\ call = from /\ call' = to
  /\ UNCHANGED <<sslVars, incoming, told, io, output, net, peerVars>>

(* submit_TlsRequest of a new request.                                     *)
submit_TlsRequest == /\ status = "initialized" /\ CallerGoes("idle", "idle")
                     /\ status' = "submitted" /\ link' = "connecting" /\ conn' = "trying"
                     /\ UNCHANGED <<run, cancelled, waiter>>

waitForFinished_TlsRequest ==
  /\ waiter = "idle" /\ status # "initialized"
  /\ waiter' = IF status = "submitted" THEN "waiting" ELSE "done"
  /\ UNCHANGED <<status, run, sslVars, incoming, told, link, conn, io, output, net,
                 peerVars, callVars>>

WaiterWakesEarly == /\ waiter = "waiting"
                    /\ waiter' = "done"
                    /\ UNCHANGED <<status, run, sslVars, incoming, told, link, conn, io,
                                   output, net, peerVars, callVars>>

(* cancel_TlsRequest.                                                      *)
cancel_TlsRequest ==
  /\ status # "initialized"
  /\ IF status = "submitted"
       THEN CallerGoes("idle", "close") /\ status' = "error" /\ cancelled' = TRUE
       ELSE CallerGoes("idle", "wake") /\ UNCHANGED <<status, cancelled>>
  /\ UNCHANGED <<run, link, conn, waiter>>

(* Its close_Socket: flush, stop the I/O thread, stop the connecting one,  *)
(* shut down.                                                              *)
Close == /\ CallerGoes("close", IF link = "connected" /\ output > 0 THEN "flush" ELSE "stopIo")
         /\ UNCHANGED <<status, run, link, conn, cancelled, waiter>>

StopIo == /\ io \in {"none", "exited"} /\ CallerGoes("stopIo", "region")
          /\ UNCHANGED <<status, run, link, conn, cancelled, waiter>>

Disconnecting ==
  /\ IF link = "disconnected" THEN CallerGoes("region", "joinOnly") /\ UNCHANGED link
                              ELSE CallerGoes("region", "joinConn") /\ link' = "disconnecting"
  /\ UNCHANGED <<status, run, conn, cancelled, waiter>>

JoinConn == /\ conn = "exited"
            /\ \/ CallerGoes("joinConn", "shutdown")
               \/ CallerGoes("joinOnly", "wake")
            /\ UNCHANGED <<status, run, link, conn, cancelled, waiter>>

Shutdown == /\ CallerGoes("shutdown", AfterDisconnect("signal", "wake"))
            /\ link' = "disconnected"
            /\ SetStatus("finished")
            /\ UNCHANGED <<run, conn, cancelled>>

(* The signal of disconnected_TlsRequest_, and then cancel's own, which is *)
(* sent without the mutex.                                                 *)
CallerSignal == /\ \/ CallerGoes("signal", "wake")
                   \/ CallerGoes("wake", "join")
                /\ Signal
                /\ UNCHANGED <<status, link, conn, cancelled, waiter>>

JoinThread == /\ run \in {"none", "exited"}
              /\ \/ CallerGoes("join", "cancelled")
                 \/ CallerGoes("joinLast", "freeing")
              /\ run' = "none"
              /\ UNCHANGED <<status, link, conn, cancelled, waiter>>

(* deinit_TlsRequest, of a request that is not under way and that no one   *)
(* waits for: the signal, the status, the thread, the socket.              *)
deinit_TlsRequest == /\ status # "submitted" /\ waiter # "waiting"
                     /\ \/ CallerGoes("idle", "deinit")
                        \/ CallerGoes("cancelled", "deinit")
                     /\ Signal
                     /\ UNCHANGED <<status, link, conn, cancelled, waiter>>

DeinitStatus == /\ CallerGoes("deinit", "joinLast")
                /\ status' = "finished"
                /\ UNCHANGED <<run, link, conn, cancelled, waiter>>

ReleaseSocket == /\ conn \in {"none", "exited"} /\ io \in {"none", "exited"}
                 /\ CallerGoes("freeing", "gone")
                 /\ UNCHANGED <<status, run, link, conn, cancelled, waiter>>

FlushWakesEarly == /\ CallerGoes("flush", "stopIo")
                   /\ UNCHANGED <<status, run, link, conn, cancelled, waiter>>

CallerStep == \/ Close \/ StopIo \/ Disconnecting \/ JoinConn \/ Shutdown \/ CallerSignal
              \/ JoinThread \/ DeinitStatus \/ ReleaseSocket

-----------------------------------------------------------------------------

Next == \/ submit_TlsRequest \/ cancel_TlsRequest \/ deinit_TlsRequest \/ CallerStep
        \/ waitForFinished_TlsRequest \/ WaiterWakesEarly \/ FlushWakesEarly
        \/ RunStep \/ SpuriousWakeup
        \/ ConnStep \/ IoStep
        \/ (\E r \in Records : PeerSends(r)) \/ PeerHangsUp

(* Threads that can run do.  Nothing is assumed of the peer, of what the   *)
(* caller does next, or of spurious wake-ups.                              *)
Fairness == /\ WF_vars(CallerStep) /\ WF_vars(RunStep)
            /\ WF_vars(ConnStep) /\ WF_vars(IoStep)

-----------------------------------------------------------------------------

Flags == sending \in BOOLEAN /\ hungUp \in BOOLEAN /\ cancelled \in BOOLEAN

(* The values the state takes, and how they go together: only the peer's   *)
(* handshake opens the TLS connection.                                     *)
TypeOK ==
  /\ status \in {"initialized", "submitted", "finished", "error"}
  /\ run \in {"none", "start", "encrypt", "read", "check", "sleep", "waiting", "last",
              "notify", "exited"}
  /\ ssl \in {"handshake", "open", "closed", "failed"}
  /\ incoming \in Seq(Records) /\ net \in Seq(Records) /\ sent \in Seq(Records)
  /\ result \in Nat /\ told \in Nat /\ output \in Nat /\ got \in Nat
  /\ Flags
  /\ link \in {"none", "connecting", "connected", "disconnecting", "disconnected"}
  /\ conn \in {"none", "trying", "linked", "failed", "erred", "exited"}
  /\ io \in {"none", "idle", "closing", "signal", "exited"}
  /\ call \in {"idle", "close", "flush", "stopIo", "region", "joinConn", "joinOnly",
               "shutdown", "signal", "wake", "join", "cancelled", "deinit", "joinLast",
               "freeing", "gone"}
  /\ waiter \in {"idle", "waiting", "done"}
  /\ ssl \in {"open", "closed"} => Contains(sent, "handshake")

(* When the observers of a request are told that it has finished, and it   *)
(* was neither cancelled nor failed, the result has all that was sent.     *)
CompleteWhenNotified ==
  /\ TypeOK
  /\ run = "exited" /\ ~cancelled /\ ssl # "failed" => result = DataIn(sent)

(* The inductive invariant of it.  No data is lost on its way, and a peer  *)
(* that has sent its last record or hung up sends no more; what the caller *)
(* does in cancel_TlsRequest it does to a cancelled request.               *)
Conserved == result + DataIn(incoming) + DataIn(net) = DataIn(sent)

Arrived == /\ \A r \in Records : Contains(incoming, r) \/ Contains(net, r) => Contains(sent, r)
           /\ sent # <<>> => Contains(sent, "handshake") \/ Contains(sent, "garbled")
           /\ Contains(sent, "close") => Contains(sent, "handshake")

NoMore == net = <<>> /\ (hungUp \/ Contains(sent, "close"))

Order == /\ Contains(incoming, "close") => NoMore
         /\ ssl = "closed" => NoMore
         /\ io \in {"closing", "signal"} => NoMore
         /\ status = "initialized" => conn = "none"
         /\ conn \in {"none", "trying"} => io = "none"
         /\ conn = "trying" => status = "submitted" \/ cancelled
         /\ conn \in {"none", "trying", "linked", "failed", "erred"} => run = "none"
         /\ call \in {"deinit", "joinLast", "freeing", "gone"} => status # "submitted"
         /\ call \in {"close", "flush", "stopIo", "region", "joinConn", "joinOnly",
                       "shutdown", "signal"} => cancelled
         /\ cancelled => status \in {"finished", "error"}

\* Whose end came from the peer, or from the data it sent.
Ended == /\ status \in {"finished", "error"} /\ ~cancelled /\ ssl # "failed"
         /\ run # "none" \/ conn = "linked"

Told == /\ run \in {"last", "notify", "exited"} => status # "submitted"
        /\ Ended => NoMore
        /\ run \in {"notify", "exited"} /\ ~cancelled /\ ssl # "failed" => incoming = <<>>

IInv == TypeOK /\ Conserved /\ Arrived /\ Order /\ Told

\* A flush waits for output that nobody will send.
Unsent == call = "flush" /\ io = "exited"

\* The request's thread tested the status before it changed, and went to sleep after
\* the last signal.
Missed == /\ run = "waiting" /\ status # "submitted" /\ io # "signal"
          /\ call \in {"idle", "join", "deinit", "joinLast"} \/ Unsent

\* cancel_TlsRequest has set the status, which tells nobody, and its close_Socket found
\* nothing left to disconnect.
Silenced == cancelled /\ status = "error" /\ call \in {"wake", "join", "cancelled"}

\* Cancelled before it was connected.
NeverConnected == cancelled /\ run = "none" /\ conn = "exited"

(* A thread in waitForFinished_TlsRequest returns when the connection has  *)
(* ended, however it ended, but for a cancellation at that moment.         *)
WaitReturnsUnlessSilenced ==
  waiter = "waiting" /\ link = "disconnected" ~> waiter # "waiting" \/ Silenced

(* The observers are told of the end of each connection, unless the        *)
(* request's thread missed it.                                             *)
EndIsToldUnlessMissed ==
  link = "disconnected" ~> told > 0 \/ Missed \/ NeverConnected

(* cancel_TlsRequest and deinit_TlsRequest return, whatever the request's  *)
(* thread and the socket's are doing, unless that thread missed the end.   *)
CancelReturnsUnlessMissed ==
  call \in {"close", "wake", "deinit"} ~> call \in {"cancelled", "gone"} \/ Missed \/ Unsent
=============================================================================
