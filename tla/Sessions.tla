------------------------------ MODULE Sessions ------------------------------
(* The sessions that TLS requests have in common (iContext in tlsrequest.c), *)
(* and the certificates they hold. A server's certificate is a number, higher*)
(* after it has been renewed. A session is known by the certificates of the  *)
(* handshake it comes from, the server's and the client's. A request is      *)
(* submitted once; TlsRequest.tla has its threads.                           *)
EXTENDS Integers, FiniteSets

CONSTANTS Requests, Hosts,
          Client,                          \* the client certificate of each request, or None
          None,                            \* no certificate, session or entry
          maxSessionAge_CachedSession_,
          MaxClock, MaxRenewals, MaxOverwritten    \* bounds of the models

VARIABLES clock,
          server,      \* the certificate of each host
          cache,       \* what is cached for each host
          requests,
          certs,       \* how many iTlsCertificates of servers there are
          overwritten  \* how many of them were lost, where an iAssert() is compiled out

sessionVars == <<clock, server, cache, requests, certs, overwritten>>

New == [status |-> "initialized", hostName |-> None, clientCert |-> None, cert |-> None,
        certVerifyFailed |-> FALSE, offered |-> None, reused |-> FALSE, peer |-> None]

Init == /\ clock = 0 /\ server = [h \in Hosts |-> 1] /\ cache = [h \in Hosts |-> None]
        /\ requests = [r \in Requests |-> New] /\ certs = 0 /\ overwritten = 0

Becomes(r, q) == requests' = [requests EXCEPT ![r] = q]

(* A copy of a certificate, where there is one.                              *)
Copies(cert) == IF cert = None THEN 0 ELSE 1

-----------------------------------------------------------------------------
(* The cache; all of it is under d->cacheMutex.                              *)

Size(c) == Cardinality({h \in Hosts : c[h] # None})

isExpired_CachedSession_(entry) == clock - entry.timestamp > maxSessionAge_CachedSession_

(* Whoever looks for a session removes the old ones, of all hosts.           *)
Unexpired == [h \in Hosts |-> IF cache[h] # None /\ isExpired_CachedSession_(cache[h])
                              THEN None ELSE cache[h]]

Reusable(h, client) == Unexpired[h] # None /\ Unexpired[h].clientHash = client

(* The certificate is not sent when a session is reused: it is the cached    *)
(* one, before anyone knows whether the server will.                         *)
maybeReuseSession_Context_(r, q) ==
  LET h == q.hostName
      found == Reusable(h, q.clientCert)
  IN  /\ cache' = Unexpired
      /\ Becomes(r, IF found THEN [q EXCEPT !.offered = cache[h].session, !.cert = cache[h].cert] ELSE q)
      /\ certs' = certs - (Size(cache) - Size(Unexpired)) + (IF found THEN 1 ELSE 0)

submit_TlsRequest(r, h, sessionCacheEnabled) ==
  LET q == [New EXCEPT !.status = "submitted", !.hostName = h, !.clientCert = Client[r]]
  IN  /\ requests[r].status = "initialized"
      /\ IF sessionCacheEnabled THEN maybeReuseSession_Context_(r, q)
                                ELSE Becomes(r, q) /\ UNCHANGED <<cache, certs>>
      /\ UNCHANGED <<clock, server, overwritten>>

(* There is a session once there is a handshake, though one that failed is   *)
(* of no use; before it, the one that is offered, and it is saved as new.    *)
SessionOf(q) == IF q.peer = None THEN q.offered
                ELSE [cert |-> q.peer, client |-> q.clientCert, resumable |-> ~q.certVerifyFailed]

(* The entry that was there is released.                                     *)
saveSession_Context_(q) ==
  /\ cache' = [cache EXCEPT ![q.hostName] = [session |-> SessionOf(q), cert |-> q.cert, timestamp |-> clock,
                                             clientHash |-> q.clientCert]]
  /\ certs' = certs + 1 - Copies(cache[q.hostName])

-----------------------------------------------------------------------------
(* Requests.                                                                 *)

Shaking(q) == q.status = "submitted" /\ q.peer = None

(* The server takes the session it is offered, and sends no certificate.     *)
Resume(r) == LET q == requests[r]
             IN  /\ Shaking(q) /\ q.offered # None /\ q.offered.resumable
                 /\ Becomes(r, [q EXCEPT !.reused = TRUE, !.peer = q.offered.cert])
                 /\ UNCHANGED <<clock, server, cache, certs, overwritten>>

(* It does not, or is not offered one: its certificate is accepted, and kept *)
(* if there is none (processIncoming_TlsRequest_).                           *)
Handshake(r) == LET q == requests[r]
                    peer == server[q.hostName]
                IN  /\ Shaking(q)
                    /\ Becomes(r, [q EXCEPT !.peer = peer, !.cert = IF @ = None THEN peer ELSE @])
                    /\ certs' = certs + 1 - Copies(q.cert)
                    /\ UNCHANGED <<clock, server, cache, overwritten>>

(* The user's function rejects it (verifyCallback_Context_), which ends the  *)
(* handshake. The certificate of a session is asserted not to be there.      *)
certificateVerifyFailed_TlsRequest_(r) ==
  LET q == requests[r]
      peer == server[q.hostName]
  IN  /\ Shaking(q)
      /\ Becomes(r, [q EXCEPT !.peer = peer, !.cert = peer, !.certVerifyFailed = TRUE, !.status = "error"])
      /\ certs' = certs + 1
      /\ overwritten' = overwritten + Copies(q.cert) /\ overwritten' <= MaxOverwritten
      /\ UNCHANGED <<clock, server, cache>>

(* The end of run_TlsRequest_. The connection may end before the handshake;  *)
(* and that it has ended makes even a failed request a finished one.         *)
Finish(r) == LET q == requests[r]
             IN  /\ q.status \in {"submitted", "error"}
                 /\ \/ /\ Becomes(r, [q EXCEPT !.status = "failed"]) /\ UNCHANGED <<cache, certs>>
                    \/ /\ Becomes(r, [q EXCEPT !.status = "finished"])
                       /\ IF ~q.reused /\ SessionOf(q) # None /\ q.cert # None
                          THEN saveSession_Context_(q) ELSE UNCHANGED <<cache, certs>>
                 /\ UNCHANGED <<clock, server, overwritten>>

deinit_TlsRequest(r) == LET q == requests[r]
                        IN  /\ q.status \in {"finished", "failed"}
                            /\ Becomes(r, New)
                            /\ certs' = certs - Copies(q.cert)
                            /\ UNCHANGED <<clock, server, cache, overwritten>>

Tick == clock < MaxClock /\ clock' = clock + 1 /\ UNCHANGED <<server, cache, requests, certs, overwritten>>
Renew(h) == /\ server[h] <= MaxRenewals /\ server' = [server EXCEPT ![h] = @ + 1]
            /\ UNCHANGED <<clock, cache, requests, certs, overwritten>>

Next == \/ \E r \in Requests :
             \/ \E h \in Hosts, enabled \in BOOLEAN : submit_TlsRequest(r, h, enabled)
             \/ Resume(r) \/ Handshake(r) \/ certificateVerifyFailed_TlsRequest_(r)
             \/ Finish(r) \/ deinit_TlsRequest(r)
        \/ Tick \/ \E h \in Hosts : Renew(h)

Spec == Init /\ [][Next]_sessionVars

-----------------------------------------------------------------------------

(* A session is offered only for the client certificate it was made with. A  *)
(* request that was offered none shows the certificate of its connection,    *)
(* any other one that is not newer, as a server that has renewed its         *)
(* certificate may take no session from before; a connection that reuses a   *)
(* session is one whose certificate was accepted. Every certificate belongs  *)
(* to a request or to the cache, but for those overwritten.                  *)
SessionsAreTheirs ==
  /\ certs = Size(cache) + Cardinality({r \in Requests : requests[r].cert # None}) + overwritten
  /\ \A r \in Requests :
       LET q == requests[r]
       IN  /\ q.offered # None => q.offered.client = q.clientCert
           /\ q.peer # None => q.cert # None /\ q.cert <= q.peer
           /\ q.peer # None /\ q.offered = None => q.cert = q.peer
           /\ q.reused => ~q.certVerifyFailed

(* The assertion in certificateVerifyFailed_TlsRequest_ (tlsrequest.c:1169): *)
(* a request has no certificate when the server's is rejected.               *)
NoneWhenRejected == overwritten = 0

-----------------------------------------------------------------------------
(* What makes SessionsAreTheirs inductive: a host's certificate only gets    *)
(* newer, and what is cached for it, offered to it or shown by it is none    *)
(* that it has yet to get.                                                   *)

Clients == {Client[r] : r \in Requests} \cup {None}
AllSessions == [cert : Nat, client : Clients, resumable : BOOLEAN]
Entries == [session : AllSessions, cert : Nat, timestamp : Nat, clientHash : Clients]
States == [status : {"initialized", "submitted", "error", "finished", "failed"},
           hostName : Hosts \cup {None}, clientCert : Clients, cert : Nat \cup {None},
           certVerifyFailed : BOOLEAN, offered : AllSessions \cup {None}, reused : BOOLEAN,
           peer : Nat \cup {None}]

TypeOK == /\ clock \in Nat /\ server \in [Hosts -> Nat] /\ cache \in [Hosts -> Entries \cup {None}]
          /\ requests \in [Requests -> States] /\ certs \in Int /\ overwritten \in Nat

Owned == certs = Size(cache) + Cardinality({r \in Requests : requests[r].cert # None}) + overwritten

Cached(h) == LET e == cache[h]
             IN  e # None => /\ e.session.client = e.clientHash
                             /\ e.cert <= e.session.cert /\ e.session.cert <= server[h]

Submitted(q) ==
  IF q.status = "initialized" THEN q = New
  ELSE /\ q.hostName \in Hosts
       /\ q.status = "submitted" => ~q.certVerifyFailed
       /\ q.peer = None => ~q.reused /\ (q.cert = None <=> q.offered = None)
       /\ q.offered # None => /\ q.offered.client = q.clientCert
                              /\ q.offered.cert <= server[q.hostName]
                              /\ q.peer = None => q.cert <= q.offered.cert
       /\ q.peer # None => q.cert # None /\ q.cert <= q.peer /\ q.peer <= server[q.hostName]
       /\ q.peer # None /\ q.offered = None => q.cert = q.peer
       /\ q.reused => ~q.certVerifyFailed

IInv == /\ TypeOK /\ Owned /\ \A h \in Hosts : Cached(h)
        /\ \A r \in Requests : Submitted(requests[r])
=============================================================================
