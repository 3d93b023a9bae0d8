------------------------------ MODULE MCNetwork ------------------------------
(* TLS requests and host name lookups on small instances, one of them in     *)
(* each behaviour: a peer that sends its handshake, two pieces of data and   *)
(* one record more; two addresses, looked up any number of times.            *)
EXTENDS AddressLookup

CONSTANT MaxRecords

VARIABLES subject, status, run, ssl, sending, incoming, result, told, link, conn, io,
          output, net, got, sent, hungUp, caller, cancelled, waiter

T == INSTANCE TlsRequest WITH call <- caller

requestVars == <<status, run, ssl, sending, incoming, result, told, link, conn, io,
                 output, net, got, sent, hungUp, caller, cancelled, waiter>>

MCInit == Init /\ T!Init /\ subject \in {"request", "lookup"}

MCNext == /\ UNCHANGED subject
          /\ \/ subject = "request" /\ T!Next /\ UNCHANGED vars
             \/ subject = "lookup" /\ Next /\ UNCHANGED requestVars

(* In the behaviours of the other subject these steps are never enabled.     *)
MCSpec == MCInit /\ [][MCNext]_<<subject, vars, requestVars>> /\ Fairness /\ T!Fairness

(* What the observers of `finished' find is all that the peer sent, and they *)
(* are told of the end, unless the signal is missed (tlsrequest.c).          *)
CompleteWhenNotified == T!CompleteWhenNotified
EndIsToldUnlessMissed == T!EndIsToldUnlessMissed

(* Every wait ends: those of waitForFinished_Address and                     *)
(* waitForFinished_TlsRequest, of cancelling and destroying a request and of *)
(* shutting the lookups down, each under the conditions its module gives.    *)
WaitsEnd == /\ T!WaitReturnsUnlessSilenced /\ T!CancelReturnsUnlessMissed
            /\ WaitReturns /\ DeinitReturnsUnlessMissed
=============================================================================
