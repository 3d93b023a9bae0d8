---------------------------- MODULE MCServices ----------------------------
(* The small concurrent components on small instances, one of them in each *)
(* behaviour.                                                              *)
EXTENDS Thread, SequenceTheorems

CONSTANTS Datagrams, Objects, Audiences, Funcs,
          MaxOpens, MaxPeers, MaxMessages, MaxRefs, MaxCollected, MaxHeld,  \* bounds, as in the modules
          iGarbageNodeMax

ASSUME MCAssumption == MaxOpens \in Nat

VARIABLES subject,
          service, listener, watched, net, opener,
          datagram, members, wakeup, mode, io, caller, used,
          counts, observers, memberOf, audiences, careless,
          nodes, busy, deleter, at, base, deleted, lost, count,
          pin, pout, inputOpen, child, produced, known, parent, written, got,
          web, curl, phase, reply, ready, taken, unclear, performed

S == INSTANCE Service WITH d <- service, owner <- opener
D == INSTANCE Datagram WITH d <- datagram
A == INSTANCE Audience WITH refs <- counts
G == INSTANCE Garbage
P == INSTANCE Process WITH PipeSize <- 2, Input <- 3, Output <- 3
W == INSTANCE WebRequest WITH iWebRequestProgressMinSize <- 1, MaxSize <- 3, MaxRequests <- 2,
                              careless <- unclear

MCInit == /\ Init /\ S!Init /\ D!Init /\ A!Init /\ G!Init /\ P!Init /\ W!Init
          /\ subject \in {"thread", "service", "datagram", "audience", "garbage", "process",
                         "web"}

services == <<service, listener, watched, net, opener>>
datagrams == <<datagram, members, wakeup, mode, io, caller, used>>
audience == <<counts, observers, memberOf, audiences, careless>>
garbage == <<nodes, busy, deleter, at, base, deleted, lost, count>>
process == <<pin, pout, inputOpen, child, produced, known, parent, written, got>>
response == <<web, curl, phase, reply, ready, taken, unclear, performed>>
others == <<audience, garbage, process, response>>

MCNext ==
  /\ UNCHANGED subject
  /\ \/ /\ subject = "thread" /\ Next
        /\ UNCHANGED <<services, datagrams, others>>
     \/ /\ subject = "service" /\ S!Next
        /\ UNCHANGED <<threadVars, datagrams, others>>
     \/ /\ subject = "datagram" /\ D!Next
        /\ UNCHANGED <<threadVars, services, others>>
     \/ /\ subject = "audience" /\ A!Next
        /\ UNCHANGED <<threadVars, services, datagrams, garbage, process, response>>
     \/ /\ subject = "garbage" /\ G!Next
        /\ UNCHANGED <<threadVars, services, datagrams, audience, process, response>>
     \/ /\ subject = "process" /\ P!Next
        /\ UNCHANGED <<threadVars, services, datagrams, audience, garbage, response>>
     \/ /\ subject = "web" /\ W!Next
        /\ UNCHANGED <<threadVars, services, datagrams, audience, garbage, process>>

vars == <<subject, threadVars, services, datagrams, others>>

(* In the behaviours of another subject these steps are never enabled, but *)
(* for the first of the datagrams' I/O thread.                             *)
MCFairness == /\ Fairness /\ S!Fairness /\ P!Fairness /\ W!Fairness
              /\ WF_datagrams(subject = "datagram" /\ D!IoStep)
              /\ WF_datagrams(D!StopWakeUp)
              /\ \A g \in Datagrams : WF_datagrams(D!CallerStep(g))

MCSpec == MCInit /\ [][MCNext]_vars /\ MCFairness

OneListener == S!OneListener
MembersAreOpen == D!MembersAreOpen
DeletedOnce == G!DeletedOnce
ScopeEndsWhereItBegan == G!ScopeEndsWhereItBegan

(* No pointer outlives what it points to: a thread object is not used after *)
(* it was freed, and neither observers nor memberships dangle.              *)
NothingDangles == NeverFreedInUse /\ A!NothingDangles

(* Every call that waits returns: join_Thread, close_Service,               *)
(* flush_Datagram, deinit_DatagramThreads_, and those that wait for a child *)
(* process; each under the conditions its module gives.                     *)
CallsReturn == /\ JoinReturns /\ S!CloseReturns
               /\ D!FlushReturnsUnlessIoLost /\ P!ChildIsAwaited

(* What has come to a service is accepted, and what was given to a datagram *)
(* is sent, unless the thread in charge is lost; the response to a web      *)
(* request is read, and whole, and while it is on its way the headers of    *)
(* the post are there, unless one that was not cleared is followed by a get. *)
WorkIsDone == /\ S!AcceptsUnlessDeaf /\ D!OutputIsSentUnlessIoLost
              /\ W!AllIsRead /\ [](W!ResponseIsWhole /\ W!ListIsThere)

-----------------------------------------------------------------------------
(* What is proved of the components, in any behaviour of the whole: from the *)
(* inductive invariant of Thread, whose proof is there, and those of         *)
(* Service, Datagram, Audience and Garbage, whose proofs are here.           *)

(* A step of the whole is a step of each component, or leaves it alone.      *)
LEMMA MCStep == [MCNext]_vars => /\ [Next]_threadVars
                                 /\ [S!Next]_(S!serviceVars)
                                 /\ [D!Next]_(D!datagramVars)
                                 /\ [A!Next]_(A!audienceVars)
                                 /\ [G!Next]_(G!garbageVars)
<1>1. UNCHANGED vars => /\ UNCHANGED threadVars /\ UNCHANGED S!serviceVars
                        /\ UNCHANGED D!datagramVars /\ UNCHANGED A!audienceVars
                        /\ UNCHANGED G!garbageVars
  BY DEF vars, services, datagrams, others, audience, garbage,
         S!serviceVars, D!datagramVars, A!audienceVars, G!garbageVars
<1>2. UNCHANGED services <=> UNCHANGED S!serviceVars
  BY DEF services, S!serviceVars
<1>3. UNCHANGED datagrams <=> UNCHANGED D!datagramVars
  BY DEF datagrams, D!datagramVars
<1>4. UNCHANGED audience <=> UNCHANGED A!audienceVars
  BY DEF audience, A!audienceVars
<1>5. UNCHANGED garbage <=> UNCHANGED G!garbageVars
  BY DEF garbage, G!garbageVars
<1>6. UNCHANGED others <=> UNCHANGED audience /\ UNCHANGED <<garbage, process, response>>
  BY DEF others
<1> QED BY <1>1, <1>2, <1>3, <1>4, <1>5, <1>6 DEF MCNext, others

-----------------------------------------------------------------------------
(* Service.                                                                  *)

LEMMA ServiceInit == MaxOpens \in Nat /\ S!Init => S!IInv
BY DEF S!Fields, S!Nets, S!Owners, S!Init, S!IInv, S!Owns, S!Listens, S!TypeOK, S!Places,
    S!OwnerPlaces, S!Lives, S!Excused, S!Openings, S!None

\* An assignment to a field of the service, of its descriptor's queue or of
\* the owner leaves the record in its set.
LEMMA FieldSet == ASSUME service \in S!Fields, NEW n \in Nat
                  PROVE /\ [service EXCEPT !.fd = n] \in S!Fields
                        /\ [service EXCEPT !.listening = n] \in S!Fields
                        /\ [service EXCEPT !.stop = @ + n] \in S!Fields
<1>1. [service EXCEPT !.fd = n] \in S!Fields
  BY DEF S!Fields
<1>2. [service EXCEPT !.listening = n] \in S!Fields
  BY DEF S!Fields
<1>3. [service EXCEPT !.stop = @ + n] \in S!Fields
  <2>1. service.stop + n \in Nat
    BY DEF S!Fields
  <2> QED BY <2>1 DEF S!Fields
<1> QED BY <1>1, <1>2, <1>3

LEMMA NetSet == ASSUME net \in S!Nets, NEW b \in Int, NEW p \in Nat, NEW r \in BOOLEAN
                PROVE /\ [net EXCEPT !.backlog = b] \in S!Nets
                      /\ [net EXCEPT !.rejected = r] \in S!Nets
                      /\ [net EXCEPT !.backlog = b, !.rejected = r] \in S!Nets
                      /\ [net EXCEPT !.backlog = b, !.peers = p] \in S!Nets
<1>1. [net EXCEPT !.backlog = b] \in S!Nets
  BY DEF S!Nets
<1>2. [net EXCEPT !.rejected = r] \in S!Nets
  BY DEF S!Nets
<1>3. [net EXCEPT !.backlog = b, !.rejected = r] \in S!Nets
  BY DEF S!Nets
<1>4. [net EXCEPT !.backlog = b, !.peers = p] \in S!Nets
  BY DEF S!Nets
<1> QED BY <1>1, <1>2, <1>3, <1>4

LEMMA OwnerSet == ASSUME opener \in S!Owners, NEW n \in Nat, NEW p \in S!OwnerPlaces, NEW b \in BOOLEAN
                  PROVE /\ [opener EXCEPT !.at = p] \in S!Owners
                        /\ [opener EXCEPT !.at = p, !.opened = n] \in S!Owners
                        /\ [opener EXCEPT !.destroying = b, !.at = p] \in S!Owners
<1>1. [opener EXCEPT !.at = p] \in S!Owners
  BY DEF S!Owners
<1>2. [opener EXCEPT !.at = p, !.opened = n] \in S!Owners
  BY DEF S!Owners
<1>3. [opener EXCEPT !.destroying = b, !.at = p] \in S!Owners
  BY DEF S!Owners
<1> QED BY <1>1, <1>2, <1>3

LEMMA FieldTypes == S!TypeOK =>
  /\ service.fd \in Nat /\ service.listening \in Nat /\ service.stop \in Nat
  /\ net.backlog \in Int /\ net.peers \in Nat /\ opener.opened \in Nat
BY DEF S!TypeOK, S!Fields, S!Nets, S!Owners

LEMMA ServiceTypeStep == MaxOpens \in Nat /\ S!TypeOK /\ [S!Next]_(S!serviceVars) => S!TypeOK'
<1> SUFFICES ASSUME MaxOpens \in Nat, S!TypeOK, [S!Next]_(S!serviceVars) PROVE S!TypeOK'
  OBVIOUS
<1>f. /\ service.fd \in Nat /\ service.listening \in Nat /\ service.stop \in Nat
      /\ net.backlog \in Int /\ net.peers \in Nat /\ opener.opened \in Nat
  BY FieldTypes
<1>n. /\ opener.opened + 1 \in Nat /\ net.peers + 1 \in Nat
      /\ net.backlog - 1 \in Int /\ net.backlog + 1 \in Int
      /\ 0 \in Nat /\ 0 \in Int /\ 1 \in Nat
  BY <1>f
<1> USE <1>f, FieldSet, NetSet, OwnerSet DEF S!TypeOK, S!Places, S!Openings, S!None, S!Move,
    S!OwnerAt
<1>a. \A p \in {"idle", "starting", "stop", "close", "join", "done"} : p \in S!OwnerPlaces
  BY DEF S!OwnerPlaces
<1>1. ASSUME NEW o \in S!Openings, S!listen_Service_(o) PROVE S!TypeOK'
  <2>1. CASE S!Test(o)
    BY <2>1 DEF S!Test
  <2>2. CASE S!Setup(o)
    BY <2>2 DEF S!Setup
  <2>3. CASE S!Select(o)
    BY <2>3 DEF S!Select
  <2>4. CASE S!Accept(o)
    BY <2>4, <1>n DEF S!Accept
  <2>5. CASE S!Notify(o)
    BY <2>5 DEF S!Notify
  <2>6. CASE S!Leave(o)
    BY <2>6 DEF S!Leave
  <2> QED BY <1>1, <2>1, <2>2, <2>3, <2>4, <2>5, <2>6 DEF S!listen_Service_
<1>2. CASE S!open_Service
  <2>2. service' \in S!Fields
    BY <1>2, <1>n DEF S!open_Service
  <2>3. net' \in S!Nets
    <3>1. FALSE \in BOOLEAN
      OBVIOUS
    <3> QED BY <1>2, <1>n, <3>1, NetSet DEF S!open_Service
  <2>4. opener' \in S!Owners
    BY <1>2, <1>a, <1>n DEF S!open_Service
  <2> QED BY <1>2, <2>2, <2>3, <2>4 DEF S!open_Service
<1>3. CASE S!start_Thread
  BY <1>3, <1>a DEF S!start_Thread
<1>4. CASE S!writeByte_Pipe
  BY <1>4, <1>a DEF S!writeByte_Pipe
<1>5. CASE S!CloseFd
  BY <1>5, <1>a, <1>n DEF S!CloseFd
<1>6. CASE S!join_Thread
  BY <1>6, <1>a DEF S!join_Thread
<1>7. CASE S!Return
  BY <1>7, <1>a DEF S!Return
<1>8. CASE S!Connect
  BY <1>8, <1>n DEF S!Connect
<1>9. ASSUME NEW destroying \in BOOLEAN, S!close_Service(destroying) PROVE S!TypeOK'
  BY <1>9, <1>a DEF S!close_Service
<1>10. CASE UNCHANGED S!serviceVars
  BY <1>10 DEF S!serviceVars
<1> QED BY <1>1, <1>2, <1>3, <1>4, <1>5, <1>6, <1>7, <1>8, <1>9, <1>10 DEF S!Next, S!OwnerStep

\* A thread that moves on, while its descriptor's owner does nothing.
LEMMA ListenerMoves ==
  ASSUME MaxOpens \in Nat, S!IInv, S!TypeOK',
         NEW o \in S!Openings, NEW p \in S!Places \ {"none", "gone"}, S!Lives(o), S!Move(o, p),
         UNCHANGED <<service, opener>>, net.rejected => net'.rejected,
         p = "leaving" => (S!Excused \/ opener.at = "close")',
         \A u \in S!Openings : watched'[u] \in {watched[u], service.fd}
  PROVE  S!IInv'
<1>t. S!TypeOK /\ S!Owns /\ \A u \in S!Openings : S!Listens(u)
  BY DEF S!IInv
<1>1. \A u \in S!Openings : listener'[u] = IF u = o THEN p ELSE listener[u]
  BY <1>t DEF S!Move, S!TypeOK
<1>2. \A u \in S!Openings : S!Lives(u)' <=> S!Lives(u)
  BY <1>1 DEF S!Lives
<1>3. S!Excused => S!Excused'
  BY DEF S!Excused
<1>4. S!Owns'
  <2>1. service.listening # S!None => service.listening \in S!Openings /\ S!Lives(service.listening)'
    BY <1>t, <1>2 DEF S!Owns
  <2> HIDE DEF S!Excused, S!Lives
  <2> QED BY <1>t, <1>3, <2>1 DEF S!Owns, S!None, S!Openings
<1>5. service.fd <= opener.opened
  BY <1>t DEF S!Owns
<1>6. ASSUME NEW u \in S!Openings PROVE S!Listens(u)'
  <2>1. S!Listens(u) /\ watched'[u] \in {watched[u], service.fd}
    BY <1>t
  <2>2. CASE u = o
    <3>1. S!Lives(u) /\ listener'[u] = p /\ listener[u] # "none"
      BY <1>1, <2>2 DEF S!Lives
    <3> QED BY <1>2, <1>5, <2>1, <2>2, <3>1 DEF S!Listens
  <2>3. CASE u # o
    <3>1. listener'[u] = listener[u]
      BY <1>1, <2>3
    <3> QED BY <1>2, <1>3, <1>5, <2>1, <3>1 DEF S!Listens
  <2> QED BY <2>2, <2>3
<1> QED BY <1>4, <1>6 DEF S!IInv, S!Openings

LEMMA ServiceStep == MaxOpens \in Nat /\ S!IInv /\ [S!Next]_(S!serviceVars) => S!IInv'
<1> SUFFICES ASSUME MaxOpens \in Nat, S!IInv, [S!Next]_(S!serviceVars) PROVE S!IInv'
  OBVIOUS
<1>t. S!TypeOK'
  BY ServiceTypeStep DEF S!IInv
<1> USE <1>t DEF S!Fields, S!Nets, S!Owners, S!IInv, S!Owns, S!Listens, S!TypeOK, S!Places,
    S!OwnerPlaces, S!Lives, S!Excused, S!Openings, S!None, S!Move, S!OwnerAt
<1>1. ASSUME NEW o \in S!Openings, S!Test(o) PROVE S!IInv'
  BY <1>1, ListenerMoves DEF S!Test
<1>2. ASSUME NEW o \in S!Openings, S!Setup(o) PROVE S!IInv'
  <2>1. opener' = opener /\ service' = service /\ net' = net /\ S!Lives(o) /\ S!Move(o, "select")
    BY <1>2 DEF S!Setup
  <2>2. \A u \in S!Openings : watched'[u] \in {watched[u], service.fd}
    BY <1>2 DEF S!Setup
  <2>3. "select" \in S!Places \ {"none", "gone"}
    OBVIOUS
  <2> HIDE DEF S!IInv, S!TypeOK, S!Lives, S!Excused, S!Move, S!Places
  <2> QED BY <2>1, <2>2, <2>3, ListenerMoves
<1>3. ASSUME NEW o \in S!Openings, S!Select(o) PROVE S!IInv'
  <2>1. opener' = opener /\ service' = service /\ net' = net /\ watched' = watched /\ S!Lives(o)
    BY <1>3 DEF S!Select
  <2>2. PICK p \in {"leaving", "ready"} :
          /\ S!Move(o, p)
          /\ p = "leaving" => watched[o] \notin {S!None, service.fd} \/ service.stop > 0
    BY <1>3 DEF S!Select
  <2>3. p = "leaving" => S!Excused \/ opener.at = "close"
    <3>1. service.fd \in Nat /\ watched[o] \in Nat /\ opener.opened \in Nat
      OBVIOUS
    <3>2. service.fd <= opener.opened /\ watched[o] <= opener.opened
      OBVIOUS
    <3>3. service.stop > 0 => S!Excused \/ opener.at = "close"
      OBVIOUS
    <3>4. watched[o] # 0 /\ watched[o] # service.fd => service.fd = 0 \/ opener.opened > 1
      BY ONLY <3>1, <3>2
    <3> QED BY <2>2, <3>3, <3>4
  <2>4. p = "leaving" => (S!Excused \/ opener.at = "close")'
    BY <2>1, <2>3
  <2> HIDE DEF S!IInv, S!TypeOK, S!Lives, S!Excused, S!Move
  <2> QED BY <2>1, <2>2, <2>4, ListenerMoves
<1>4. ASSUME NEW o \in S!Openings, S!Accept(o) PROVE S!IInv'
  <2>1. opener' = opener /\ service' = service /\ watched' = watched /\ S!Lives(o)
    BY <1>4 DEF S!Accept
  <2>2. net'.rejected = net.rejected \/ net'.rejected = TRUE
    BY <1>4 DEF S!Accept
  <2>3. PICK p \in {"notify", "leaving", "top"} : S!Move(o, p) /\ (p = "leaving" => net'.rejected)
    BY <1>4 DEF S!Accept
  <2> QED BY <2>1, <2>2, <2>3, ListenerMoves
<1>5. ASSUME NEW o \in S!Openings, S!Notify(o) PROVE S!IInv'
  BY <1>5, ListenerMoves DEF S!Notify
<1>6. ASSUME NEW o \in S!Openings, S!Leave(o) PROVE S!IInv'
  <2>2. S!Owns'
    BY <1>6 DEF S!Leave
  <2>3. ASSUME NEW u \in S!Openings PROVE S!Listens(u)'
    <3>1. listener'[u] = IF u = o THEN "gone" ELSE listener[u]
      BY <1>6 DEF S!Leave
    <3>2. u # o => ~S!Lives(u)
      BY <1>6 DEF S!Leave
    <3>3. listener[o] = "leaving" /\ watched' = watched /\ opener' = opener
      BY <1>6 DEF S!Leave
    <3>4. S!Lives(u)' => FALSE
      BY <3>1, <3>2
    <3>5. watched'[u] <= opener'.opened /\ listener'[u] # "leaving"
      BY <3>1, <3>2, <3>3
    <3>6. u > opener.opened => listener'[u] = "none"
      <4>1. u > opener.opened => listener[u] = "none" /\ u # o
        BY <3>3
      <4> QED BY <3>1, <4>1
    <3> HIDE DEF S!Lives
    <3> QED BY ONLY <3>3, <3>4, <3>5, <3>6 DEF S!Listens
  <2> QED BY <1>t, <2>2, <2>3
<1>7. ASSUME S!open_Service PROVE S!IInv'
  <2>2. S!Owns'
    <3>1. service.listening = S!None /\ service'.listening = S!None
      BY <1>7 DEF S!open_Service
    <3>2. opener'.at = "starting" /\ opener'.opened = opener.opened + 1 /\ service'.fd = opener'.opened
      BY <1>7 DEF S!open_Service
    <3>3. opener'.opened <= MaxOpens
      BY <1>7, <3>2 DEF S!open_Service
    <3>4. service'.stop = service.stop /\ (service.stop > 0 => opener.opened > 0)
      BY <1>7, FieldTypes DEF S!open_Service
    <3>5. service'.stop > 0 => opener'.opened > 1
      BY <3>2, <3>4, FieldTypes
    <3>6. opener'.opened \in Nat /\ opener'.opened > 0
      BY <3>2, FieldTypes
    <3> QED BY ONLY <3>1, <3>2, <3>3, <3>5, <3>6 DEF S!Owns, S!None
  <2>3. ASSUME NEW u \in S!Openings PROVE S!Listens(u)'
    BY <1>7 DEF S!open_Service
  <2> QED BY <1>t, <2>2, <2>3
<1>8. ASSUME S!start_Thread PROVE S!IInv'
  <2>2. S!Owns'
    BY <1>8 DEF S!start_Thread
  <2>3. ASSUME NEW u \in S!Openings PROVE S!Listens(u)'
    BY <1>8 DEF S!start_Thread
  <2> QED BY <1>t, <2>2, <2>3
<1>9. ASSUME NEW destroying \in BOOLEAN, S!close_Service(destroying) PROVE S!IInv'
  BY <1>9 DEF S!close_Service
<1>10. ASSUME S!writeByte_Pipe PROVE S!IInv'
  <2>2. S!Owns'
    BY <1>10 DEF S!writeByte_Pipe
  <2>3. ASSUME NEW u \in S!Openings PROVE S!Listens(u)'
    BY <1>10 DEF S!writeByte_Pipe
  <2> QED BY <1>t, <2>2, <2>3
<1>11. ASSUME S!CloseFd PROVE S!IInv'
  <2>2. S!Owns'
    BY <1>11 DEF S!CloseFd
  <2>3. ASSUME NEW u \in S!Openings PROVE S!Listens(u)'
    BY <1>11 DEF S!CloseFd
  <2> QED BY <1>t, <2>2, <2>3
<1>12. ASSUME S!join_Thread PROVE S!IInv'
  BY <1>12 DEF S!join_Thread
<1>13. ASSUME S!Return PROVE S!IInv'
  BY <1>13 DEF S!Return
<1>15. ASSUME S!Connect PROVE S!IInv'
  <2>2. S!Owns'
    BY <1>15 DEF S!Connect
  <2>3. ASSUME NEW u \in S!Openings PROVE S!Listens(u)'
    BY <1>15 DEF S!Connect
  <2> QED BY <1>t, <2>2, <2>3
<1>14. ASSUME UNCHANGED S!serviceVars PROVE S!IInv'
  BY <1>14 DEF S!serviceVars
<1> HIDE DEF S!IInv, S!TypeOK, S!Openings
<1> QED BY <1>1, <1>2, <1>3, <1>4, <1>5, <1>6, <1>7, <1>8, <1>9, <1>10, <1>11, <1>12, <1>13, <1>14, <1>15
        DEF S!Next, S!OwnerStep, S!listen_Service_

LEMMA ServiceUse == S!IInv => S!OneListener
BY DEF S!IInv, S!Owns, S!Listens, S!OneListener, S!Lives, S!Excused, S!TypeOK

-----------------------------------------------------------------------------
(* Datagram.                                                                 *)

LEMMA DatagramInit == D!Init => D!IInv
BY DEF D!Init, D!IInv, D!Types, D!Own, D!Field, D!Places, D!isOpen_Datagram, D!None

\* The messages of a datagram are not its descriptor.
LEMMA KeepsFd == ASSUME NEW r \in D!Field, NEW n \in Int
                 PROVE  /\ [r EXCEPT !.output = n] \in D!Field /\ [r EXCEPT !.output = n].fd = r.fd
                        /\ [r EXCEPT !.pending = n] \in D!Field /\ [r EXCEPT !.pending = n].fd = r.fd
<1>1. [r EXCEPT !.output = n] \in D!Field /\ [r EXCEPT !.output = n].fd = r.fd
  BY DEF D!Field
<1>2. [r EXCEPT !.pending = n] \in D!Field /\ [r EXCEPT !.pending = n].fd = r.fd
  BY DEF D!Field
<1> QED BY <1>1, <1>2

LEMMA NewFd == ASSUME NEW r \in D!Field, NEW f \in Nat, NEW p \in Int
               PROVE  /\ [r EXCEPT !.fd = f, !.pending = p] \in D!Field
                      /\ [r EXCEPT !.fd = f, !.pending = p].fd = f
<1>1. [r EXCEPT !.fd = f, !.pending = p] \in D!Field
  BY DEF D!Field
<1>2. [r EXCEPT !.fd = f, !.pending = p].fd = f
  BY DEF D!Field
<1> QED BY <1>1, <1>2

LEMMA OneSameFd ==
  ASSUME D!Types, NEW g \in Datagrams, NEW r \in D!Field, r.fd = datagram[g].fd,
         datagram' = [datagram EXCEPT ![g] = r]
  PROVE  datagram' \in [Datagrams -> D!Field] /\ \A h \in Datagrams : datagram'[h].fd = datagram[h].fd
BY DEF D!Types

\* What a step does to the descriptors, the members and the places of callers
\* decides about the invariant.
LEMMA SameFds ==
  ASSUME D!IInv, datagram' \in [Datagrams -> D!Field], \A g \in Datagrams : datagram'[g].fd = datagram[g].fd,
         members' = members, caller' = caller \/ \E g \in Datagrams, p \in D!Places :
                               p # "removed" /\ caller' = [caller EXCEPT ![g] = p],
         DOMAIN io' = {"at", "fds", "todo", "busy"},
         io'.at = "send" => io'.todo \subseteq members
  PROVE  D!IInv'
<1> USE DEF D!IInv, D!Types, D!Own, D!isOpen_Datagram, D!Places
<1>1. caller' \in [Datagrams -> D!Places]
  OBVIOUS
<1>2. \A g \in Datagrams : caller'[g] = "removed" => caller[g] = "removed"
  OBVIOUS
<1>3. ASSUME NEW g \in Datagrams PROVE D!Own(g)'
  BY <1>2
<1> QED BY <1>1, <1>3

LEMMA IoKeeps == D!IInv /\ D!IoStep => D!IInv'
<1> SUFFICES ASSUME D!IInv, D!IoStep PROVE D!IInv'
  OBVIOUS
<1>t. D!Types /\ (io.at = "send" => io.todo \subseteq members)
  BY DEF D!IInv
<1>1. CASE D!WatchMembers
  BY <1>1, <1>t, SameFds DEF D!WatchMembers, D!Types
<1>2. CASE D!Select
  BY <1>2, <1>t, SameFds DEF D!Select, D!Goto, D!Types
<1>3. CASE D!Receive
  <2>1. ASSUME NEW g \in Datagrams PROVE datagram'[g] \in D!Field /\ datagram'[g].fd = datagram[g].fd
    <3>1. datagram[g] \in D!Field /\ datagram[g].pending - 1 \in Int
      BY <1>t DEF D!Types, D!Field
    <3> QED BY <1>3, <3>1, KeepsFd DEF D!Receive
  <2>2. datagram' \in [Datagrams -> D!Field]
    BY <1>3, <2>1 DEF D!Receive
  <2> QED BY <1>3, <1>t, <2>1, <2>2, SameFds DEF D!Receive, D!Types
<1>4. CASE D!BeginSend
  BY <1>4, <1>t, SameFds DEF D!BeginSend, D!Types
<1>5. CASE D!EndSend
  BY <1>5, <1>t, SameFds DEF D!EndSend, D!Goto, D!Types
<1>6. ASSUME NEW g \in Datagrams, D!Send(g) PROVE D!IInv'
  <2>1. datagram[g] \in D!Field /\ datagram[g].output - 1 \in Int
    BY <1>t DEF D!Types, D!Field
  <2>2. datagram' = [datagram EXCEPT ![g] = [datagram[g] EXCEPT !.output = datagram[g].output - 1]]
    BY <1>6 DEF D!Send
  <2>3. datagram' \in [Datagrams -> D!Field] /\ \A h \in Datagrams : datagram'[h].fd = datagram[h].fd
    <3>1. /\ [datagram[g] EXCEPT !.output = datagram[g].output - 1] \in D!Field
          /\ [datagram[g] EXCEPT !.output = datagram[g].output - 1].fd = datagram[g].fd
      BY <2>1, KeepsFd
    <3> QED BY <1>t, <2>2, <3>1, OneSameFd
  <2>4. members' = members /\ caller' = caller /\ DOMAIN io' = {"at", "fds", "todo", "busy"}
        /\ io'.at = io.at /\ io'.todo = io.todo
    BY <1>6, <1>t DEF D!Send, D!Types
  <2> QED BY <1>t, <2>3, <2>4, SameFds
<1>7. ASSUME NEW g \in Datagrams, D!SeeEmpty(g) PROVE D!IInv'
  BY <1>7, <1>t, SameFds DEF D!SeeEmpty, D!Types
<1>8. ASSUME NEW g \in Datagrams, D!SignalAllSent(g) PROVE D!IInv'
  <2>1. \E p \in D!Places : /\ caller' = [caller EXCEPT ![g] = p]
                            /\ p = "removed" => caller[g] = "removed"
    BY <1>8, <1>t DEF D!SignalAllSent, D!Types, D!Places
  <2>2. caller[g] = "removed" => caller' = caller
    BY <1>8, <1>t DEF D!SignalAllSent, D!Types
  <2>3. datagram' = datagram /\ members' = members /\ DOMAIN io' = {"at", "fds", "todo", "busy"}
        /\ io'.at = io.at /\ io'.todo = io.todo
    BY <1>8, <1>t DEF D!SignalAllSent, D!Types
  <2> QED BY <1>t, <2>1, <2>2, <2>3, SameFds DEF D!Types
<1> QED BY <1>1, <1>2, <1>3, <1>4, <1>5, <1>6, <1>7, <1>8 DEF D!IoStep

LEMMA CallerKeeps == ASSUME D!IInv, NEW g \in Datagrams,
                            \/ D!WakeUp(g) \/ D!send_Datagram(g) \/ D!flush_Datagram(g)
                            \/ D!SpuriousWakeup(g) \/ D!Arrive(g)
                     PROVE  D!IInv'
<1>t. D!Types /\ (io.at = "send" => io.todo \subseteq members)
  BY DEF D!IInv
<1>f. datagram[g] \in D!Field /\ datagram[g].output + 1 \in Int /\ datagram[g].pending + 1 \in Int
  BY <1>t DEF D!Types, D!Field
<1>d. DOMAIN io = {"at", "fds", "todo", "busy"}
  BY <1>t DEF D!Types
<1> USE DEF D!Places, D!Goes
<1>1. CASE D!WakeUp(g)
  BY <1>1, <1>t, SameFds DEF D!WakeUp, D!Types
<1>2. CASE D!send_Datagram(g)
  <2>1. datagram' = [datagram EXCEPT ![g] = [datagram[g] EXCEPT !.output = datagram[g].output + 1]]
    BY <1>2 DEF D!send_Datagram
  <2>2. datagram' \in [Datagrams -> D!Field] /\ \A h \in Datagrams : datagram'[h].fd = datagram[h].fd
    <3>1. /\ [datagram[g] EXCEPT !.output = datagram[g].output + 1] \in D!Field
          /\ [datagram[g] EXCEPT !.output = datagram[g].output + 1].fd = datagram[g].fd
      BY <1>f, KeepsFd
    <3> QED BY <1>t, <2>1, <3>1, OneSameFd
  <2>3. members' = members /\ io' = io
        /\ \E p \in D!Places : p # "removed" /\ caller' = [caller EXCEPT ![g] = p]
    BY <1>2 DEF D!send_Datagram
  <2> HIDE DEF D!Places
  <2> QED BY <1>t, <1>d, <2>2, <2>3, SameFds
<1>3. CASE D!flush_Datagram(g)
  BY <1>3, <1>t, SameFds DEF D!flush_Datagram, D!Types
<1>4. CASE D!SpuriousWakeup(g)
  BY <1>4, <1>t, SameFds DEF D!SpuriousWakeup, D!Types
<1>5. CASE D!Arrive(g)
  <2>1. datagram' = [datagram EXCEPT ![g] = [datagram[g] EXCEPT !.pending = datagram[g].pending + 1]]
    BY <1>5 DEF D!Arrive
  <2>2. datagram' \in [Datagrams -> D!Field] /\ \A h \in Datagrams : datagram'[h].fd = datagram[h].fd
    <3>1. /\ [datagram[g] EXCEPT !.pending = datagram[g].pending + 1] \in D!Field
          /\ [datagram[g] EXCEPT !.pending = datagram[g].pending + 1].fd = datagram[g].fd
      BY <1>f, KeepsFd
    <3> QED BY <1>t, <2>1, <3>1, OneSameFd
  <2>3. members' = members /\ io' = io /\ caller' = caller
    BY <1>5 DEF D!Arrive
  <2> HIDE DEF D!Places
  <2> QED BY <1>t, <1>d, <2>2, <2>3, SameFds
<1> QED BY <1>1, <1>2, <1>3, <1>4, <1>5

LEMMA OpeningKeeps == ASSUME D!IInv, NEW g \in Datagrams,
                             D!open_Datagram(g) \/ D!RemoveMember(g) \/ D!CloseFd(g)
                      PROVE  D!IInv'
<1>t. D!Types /\ (io.at = "send" => io.todo \subseteq members) /\ datagram[g] \in D!Field
  BY DEF D!IInv, D!Types
<1>o. \A h \in Datagrams : D!Own(h)
  BY DEF D!IInv
<1>1. CASE D!open_Datagram(g)
  <2>1. PICK f \in D!FreeFds : datagram' = [datagram EXCEPT ![g] = [datagram[g] EXCEPT !.fd = f, !.pending = 0]]
    BY <1>1 DEF D!open_Datagram
  <2>2. f \in Nat /\ 0 \in Int /\ f \in D!Fds /\ f # D!None /\ \A h \in Datagrams : datagram[h].fd # f
    BY DEF D!FreeFds, D!Fds, D!OpenFds, D!None
  <2>3. /\ datagram' \in [Datagrams -> D!Field] /\ datagram'[g].fd = f
        /\ \A h \in Datagrams \ {g} : datagram'[h] = datagram[h]
    BY <1>t, <2>1, <2>2, NewFd DEF D!Types
  <2>4. D!Types' /\ (io'.at = "send" => io'.todo \subseteq members')
    BY <1>1, <1>t, <2>3 DEF D!open_Datagram, D!Types, D!Goes, D!Places, D!Unlocked
  <2>5. ASSUME NEW h \in Datagrams PROVE D!Own(h)'
    <3>1. members' = members \cup {g} /\ caller'[g] = "waking"
          /\ \A i \in Datagrams \ {g} : caller'[i] = caller[i]
      BY <1>1, <1>t DEF D!open_Datagram, D!Types, D!Goes
    <3>2. CASE h = g
      BY <3>1, <3>2, <2>2, <2>3 DEF D!Own, D!isOpen_Datagram
    <3>3. CASE h # g
      BY <3>1, <3>3, <1>o, <2>2, <2>3 DEF D!Own, D!isOpen_Datagram
    <3> QED BY <3>2, <3>3
  <2> QED BY <2>4, <2>5 DEF D!IInv
<1>2. CASE D!RemoveMember(g)
  <2>1. D!Types' /\ (io'.at = "send" => io'.todo \subseteq members')
    BY <1>2, <1>t DEF D!RemoveMember, D!Types, D!Goes, D!Places, D!Unlocked
  <2>2. ASSUME NEW h \in Datagrams PROVE D!Own(h)'
    BY <1>2, <1>t, <1>o DEF D!RemoveMember, D!Types, D!Own, D!isOpen_Datagram, D!Goes
  <2> QED BY <2>1, <2>2 DEF D!IInv
<1>3. CASE D!CloseFd(g)
  <2>0. D!None \in Nat /\ 0 \in Int
    BY DEF D!None
  <2>1. datagram' = [datagram EXCEPT ![g] = [datagram[g] EXCEPT !.fd = D!None, !.pending = 0]]
    BY <1>3 DEF D!CloseFd
  <2>2. /\ datagram' \in [Datagrams -> D!Field] /\ datagram'[g].fd = D!None
        /\ \A h \in Datagrams \ {g} : datagram'[h] = datagram[h]
    BY <1>t, <2>0, <2>1, NewFd DEF D!Types
  <2>3. D!Types' /\ (io'.at = "send" => io'.todo \subseteq members')
    BY <1>3, <1>t, <2>2 DEF D!CloseFd, D!Types, D!Goes, D!Places
  <2>4. ASSUME NEW h \in Datagrams PROVE D!Own(h)'
    BY <1>3, <1>t, <1>o, <2>2 DEF D!CloseFd, D!Types, D!Own, D!isOpen_Datagram, D!Goes
  <2> QED BY <2>3, <2>4 DEF D!IInv
<1> QED BY <1>1, <1>2, <1>3

LEMMA DatagramStep == D!IInv /\ [D!Next]_(D!datagramVars) => D!IInv'
<1> SUFFICES ASSUME D!IInv, [D!Next]_(D!datagramVars) PROVE D!IInv'
  OBVIOUS
<1>1. CASE D!Next
  <2>1. CASE D!Stop \/ D!StopWakeUp
    BY <2>1 DEF D!Stop, D!StopWakeUp, D!IInv, D!Types, D!Own, D!isOpen_Datagram
  <2> QED BY <1>1, <2>1, IoKeeps, CallerKeeps, OpeningKeeps DEF D!Next, D!CallerStep
<1>2. CASE UNCHANGED D!datagramVars
  BY <1>2 DEF D!datagramVars, D!IInv, D!Types, D!Own, D!isOpen_Datagram
<1> QED BY <1>1, <1>2

LEMMA DatagramUse == D!IInv => D!MembersAreOpen
BY DEF D!IInv, D!Types, D!Own, D!isOpen_Datagram, D!MembersAreOpen

-----------------------------------------------------------------------------
(* Audience.                                                                 *)

LEMMA AudienceInit == A!Init => A!IInv
BY DEF A!Init, A!IInv, A!TypeOK, A!NothingDangles, A!LossIsKnown, A!Observing, A!Alive

LEMMA AudienceTypeStep == A!TypeOK /\ [A!Next]_(A!audienceVars) => A!TypeOK'
<1> SUFFICES ASSUME A!TypeOK, [A!Next]_(A!audienceVars) PROVE A!TypeOK'
  OBVIOUS
<1> USE DEF A!TypeOK
<1>1. ASSUME NEW a \in Audiences, NEW o \in Objects, NEW f \in Funcs, A!insert_Audience(a, o, f)
      PROVE  A!TypeOK'
  BY <1>1 DEF A!insert_Audience
<1>2. ASSUME NEW a \in Audiences, NEW o \in Objects, NEW fs \in SUBSET Funcs, A!remove_Audience(a, o, fs)
      PROVE  A!TypeOK'
  <2>1. observers' \in [Audiences -> SUBSET (Objects \X Funcs)] /\ memberOf' \in [Objects -> SUBSET Audiences]
    BY <1>2 DEF A!remove_Audience
  <2>2. careless' \subseteq Objects
    BY <1>2 DEF A!remove_Audience
  <2> QED BY <1>2, <2>1, <2>2 DEF A!remove_Audience
<1>3. ASSUME NEW a \in Audiences, A!deinit_Audience(a) PROVE A!TypeOK'
  BY <1>3 DEF A!deinit_Audience
<1>4. ASSUME NEW o \in Objects, A!ref_Object(o) PROVE A!TypeOK'
  BY <1>4 DEF A!ref_Object
<1>5. ASSUME NEW o \in Objects, A!deref_Object(o) PROVE A!TypeOK'
  <2>1. counts' \in [Objects -> Nat]
    BY <1>5 DEF A!deref_Object, A!Alive
  <2>2. /\ observers' \in [Audiences -> SUBSET (Objects \X Funcs)]
        /\ memberOf' \in [Objects -> SUBSET Audiences]
    BY <1>5 DEF A!deref_Object
  <2> QED BY <1>5, <2>1, <2>2 DEF A!deref_Object
<1>6. ASSUME UNCHANGED A!audienceVars PROVE A!TypeOK'
  BY <1>6 DEF A!audienceVars
<1> QED BY <1>1, <1>2, <1>3, <1>4, <1>5, <1>6 DEF A!Next

LEMMA AudienceDangleStep == A!IInv /\ [A!Next]_(A!audienceVars) => (A!NothingDangles /\ A!LossIsKnown)'
<1> SUFFICES ASSUME A!IInv, [A!Next]_(A!audienceVars), NEW o \in Objects, NEW a \in Audiences
             PROVE  /\ A!Observing(o, a)' => a \in audiences' /\ (A!Alive(o)' \/ o \in careless')
                    /\ a \in memberOf'[o] => a \in audiences' /\ A!Alive(o)' /\ A!Observing(o, a)'
                    /\ A!Observing(o, a)' /\ a \notin memberOf'[o] => o \in careless'
  BY DEF A!NothingDangles, A!LossIsKnown
<1> DEFINE Goal == /\ A!Observing(o, a)' => a \in audiences' /\ (A!Alive(o)' \/ o \in careless')
                   /\ a \in memberOf'[o] => a \in audiences' /\ A!Alive(o)' /\ A!Observing(o, a)'
                   /\ A!Observing(o, a)' /\ a \notin memberOf'[o] => o \in careless'
<1> USE DEF A!IInv, A!TypeOK, A!NothingDangles, A!LossIsKnown, A!Alive, A!Observing, Goal
<1>1. ASSUME NEW b \in Audiences, NEW p \in Objects, NEW f \in Funcs, A!insert_Audience(b, p, f)
      PROVE  Goal
  BY <1>1 DEF A!insert_Audience
<1>2. ASSUME NEW b \in Audiences, NEW p \in Objects, NEW fs \in SUBSET Funcs, A!remove_Audience(b, p, fs)
      PROVE  Goal
  BY <1>2 DEF A!remove_Audience
<1>3. ASSUME NEW b \in Audiences, A!deinit_Audience(b) PROVE Goal
  BY <1>3 DEF A!deinit_Audience
<1>4. ASSUME NEW p \in Objects, A!ref_Object(p) PROVE Goal
  <2>1. counts'[o] >= counts[o] /\ counts[o] \in Nat /\ counts'[o] \in Nat
    BY <1>4 DEF A!ref_Object
  <2>2. UNCHANGED <<observers, memberOf, audiences, careless>>
    BY <1>4 DEF A!ref_Object
  <2>3. A!Alive(o) => A!Alive(o)'
    BY <2>1
  <2>4. A!Observing(o, a)' <=> A!Observing(o, a)
    BY <2>2
  <2> HIDE DEF A!Alive, A!Observing
  <2> QED BY <2>2, <2>3, <2>4
<1>5. ASSUME NEW p \in Objects, A!deref_Object(p) PROVE Goal
  <2>1. UNCHANGED <<audiences, careless>>
    BY <1>5 DEF A!deref_Object
  <2>2. CASE o # p
    <3>1. counts'[o] = counts[o] /\ memberOf'[o] = memberOf[o]
      BY <1>5, <2>2 DEF A!deref_Object
    <3>2. \A f \in Funcs : <<o, f>> \in observers'[a] <=> <<o, f>> \in observers[a]
      BY <1>5, <2>2 DEF A!deref_Object
    <3> QED BY <2>1, <3>1, <3>2
  <2>3. CASE o = p /\ counts[p] > 1
    <3>1. counts'[o] > 0
      BY <1>5, <2>3 DEF A!deref_Object
    <3>2. UNCHANGED <<observers, memberOf>>
      BY <1>5, <2>3 DEF A!deref_Object
    <3> QED BY <2>1, <3>1, <3>2
  <2>4. CASE o = p /\ ~(counts[p] > 1)
    <3>1. memberOf'[o] = {}
      BY <1>5, <2>4 DEF A!deref_Object
    <3>2. \A f \in Funcs : <<o, f>> \in observers'[a] =>
             <<o, f>> \in observers[a] /\ a \notin memberOf[o]
      BY <1>5, <2>4 DEF A!deref_Object
    <3> QED BY <2>1, <3>1, <3>2
  <2> QED BY <2>2, <2>3, <2>4
<1>6. ASSUME UNCHANGED A!audienceVars PROVE Goal
  BY <1>6 DEF A!audienceVars
<1> QED BY <1>1, <1>2, <1>3, <1>4, <1>5, <1>6 DEF A!Next

LEMMA AudienceStep == A!IInv /\ [A!Next]_(A!audienceVars) => A!IInv'
BY AudienceTypeStep, AudienceDangleStep DEF A!IInv

-----------------------------------------------------------------------------
(* Garbage.  The entries are named by their places: entry k of node n.       *)

\* Node n has an entry k; all that is below is said of any nodes ns.
At(ns, n, k) == n \in 1..Len(ns) /\ k \in 1..Len(ns[n])

Sorted(ns) == \A n, m, k, l \in Nat :
  At(ns, n, k) /\ At(ns, m, l) /\ (n < m \/ (n = m /\ k < l)) => ns[m][l] = 0 \/ ns[n][k] < ns[m][l]

HeldIn(ns, c) == {e \in 1..c : \E n, k \in Nat : At(ns, n, k) /\ ns[n][k] = e}

Shape(ns, c) == /\ ns \in Seq(Seq(Nat)) /\ c \in Nat /\ Sorted(ns)
                /\ \A n, k \in Nat : At(ns, n, k) => ns[n][k] <= c

\* Each pointer is in one place: held, deleted or lost.
Account(held, dl, ls, c) == /\ dl \in Seq(Nat) /\ G!IsInjective(dl)
                            /\ held \cup G!ToSet(dl) \cup ls = 1..c
                            /\ held \cap G!ToSet(dl) = {}
                            /\ (held \cup G!ToSet(dl)) \cap ls = {}

Books(ns, dl, ls, c) == Shape(ns, c) /\ Account(HeldIn(ns, c), dl, ls, c)

LEMMA SortedPlaces ==
  ASSUME NEW ns \in Seq(Seq(Nat))
  PROVE  Sorted(ns) <=>
           \A n, m \in 1..Len(ns) : \A k \in 1..Len(ns[n]), l \in 1..Len(ns[m]) :
             n < m \/ (n = m /\ k < l) => ns[m][l] = G!Marker \/ ns[n][k] < ns[m][l]
<1> DEFINE Ordered == \A n, m \in 1..Len(ns) : \A k \in 1..Len(ns[n]), l \in 1..Len(ns[m]) :
             n < m \/ (n = m /\ k < l) => ns[m][l] = G!Marker \/ ns[n][k] < ns[m][l]
<1>1. \A n \in 1..Len(ns) : n \in Nat /\ Len(ns[n]) \in Nat
  OBVIOUS
<1>2. ASSUME Ordered, NEW n \in Nat, NEW m \in Nat, NEW k \in Nat, NEW l \in Nat,
             At(ns, n, k), At(ns, m, l), n < m \/ (n = m /\ k < l)
      PROVE  ns[m][l] = 0 \/ ns[n][k] < ns[m][l]
  BY <1>2 DEF At, G!Marker
<1>3. ASSUME Sorted(ns), NEW n \in 1..Len(ns), NEW m \in 1..Len(ns),
             NEW k \in 1..Len(ns[n]), NEW l \in 1..Len(ns[m]), n < m \/ (n = m /\ k < l)
      PROVE  ns[m][l] = G!Marker \/ ns[n][k] < ns[m][l]
  <2>1. n \in Nat /\ m \in Nat /\ k \in Nat /\ l \in Nat
    BY <1>1
  <2>2. At(ns, n, k) /\ At(ns, m, l)
    BY DEF At
  <2> QED BY <1>3, <2>1, <2>2 DEF Sorted, G!Marker
<1> QED BY <1>2, <1>3 DEF Sorted

\* The invariant of Garbage, and its next value, in these words.
LEMMA Restated ==
  /\ G!Types /\ G!DeletedOnce <=> Books(nodes, deleted, lost, count)
  /\ (G!Types /\ G!DeletedOnce)' <=> Books(nodes', deleted', lost', count')
<1>1. G!Held = HeldIn(nodes, count) /\ (G!Held)' = HeldIn(nodes', count')
  BY DEF G!Held, HeldIn, At
<1>2. /\ nodes \in Seq(Seq(Nat)) => (G!InOrder <=> Sorted(nodes))
      /\ nodes' \in Seq(Seq(Nat)) => ((G!InOrder)' <=> Sorted(nodes'))
  <2>1. ASSUME nodes \in Seq(Seq(Nat)) PROVE G!InOrder <=> Sorted(nodes)
    BY <2>1, SortedPlaces DEF G!InOrder
  <2>2. ASSUME nodes' \in Seq(Seq(Nat)) PROVE (G!InOrder)' <=> Sorted(nodes')
    BY <2>2, SortedPlaces DEF G!InOrder
  <2> QED BY <2>1, <2>2
<1>3. ASSUME NEW ns, NEW c
      PROVE  (\A n \in 1..Len(ns) : \A k \in 1..Len(ns[n]) : ns[n][k] <= c)
             <=> \A n, k \in Nat : At(ns, n, k) => ns[n][k] <= c
  BY DEF At
<1>4. G!Types /\ G!DeletedOnce <=> Books(nodes, deleted, lost, count)
  BY <1>1, <1>2, <1>3 DEF G!Types, G!DeletedOnce, Books, Shape, Account
<1>5. (G!Types /\ G!DeletedOnce)' <=> Books(nodes', deleted', lost', count')
  BY <1>1, <1>2, <1>3 DEF G!Types, G!DeletedOnce, Books, Shape, Account
<1> QED BY <1>4, <1>5

\* ms is ns with one more entry e at the end, at place i, j.
Grown(ns, ms, i, j, e) ==
  /\ ms \in Seq(Seq(Nat)) /\ i \in Nat /\ j \in Nat /\ At(ms, i, j) /\ ms[i][j] = e
  /\ \A n, k \in Nat : At(ms, n, k) => \/ n = i /\ k = j
                                       \/ At(ns, n, k) /\ (n < i \/ (n = i /\ k < j))
  /\ \A n, k \in Nat : At(ns, n, k) => At(ms, n, k) /\ ms[n][k] = ns[n][k]

\* ms is ns without its last entry, the e at place i, j.
Shrunk(ns, ms, i, j, e) ==
  /\ ms \in Seq(Seq(Nat)) /\ i \in Nat /\ j \in Nat /\ At(ns, i, j) /\ ns[i][j] = e
  /\ \A n, k \in Nat : At(ns, n, k) => \/ n = i /\ k = j
                                       \/ At(ms, n, k) /\ (n < i \/ (n = i /\ k < j))
  /\ \A n, k \in Nat : At(ms, n, k) => At(ns, n, k) /\ ms[n][k] = ns[n][k] /\ ~(n = i /\ k = j)

\* Arithmetic that the steps below need.
LEMMA Positive == /\ \A x, y \in Nat : x # 0 /\ x <= y => x \in 1..y
                  /\ \A x, y \in Nat : x < y => x # y
                  /\ \A y \in Nat : \A x \in 1..y : x # 0 /\ x \in Nat
OBVIOUS

LEMMA UpTo == /\ \A y \in Nat : \A x \in 1..(y + 1) : x = y + 1 \/ (x \in 1..y /\ x < y + 1)
              /\ \A x \in 1..1 : x = 1
OBVIOUS

LEMMA Values == \A ns \in Seq(Seq(Nat)) : \A n, k \in Nat : At(ns, n, k) => ns[n][k] \in Nat
BY DEF At

\* The same entries at the same places.
LEMMA SameEntries ==
  ASSUME NEW ns, NEW ms \in Seq(Seq(Nat)), NEW c, Shape(ns, c),
         \A n, k \in Nat : At(ms, n, k) <=> At(ns, n, k),
         \A n, k \in Nat : At(ns, n, k) => ms[n][k] = ns[n][k]
  PROVE  Shape(ms, c) /\ HeldIn(ms, c) = HeldIn(ns, c)
<1>1. Sorted(ms)
  <2> SUFFICES ASSUME NEW n \in Nat, NEW m \in Nat, NEW k \in Nat, NEW l \in Nat,
                      At(ms, n, k), At(ms, m, l), n < m \/ (n = m /\ k < l)
               PROVE  ms[m][l] = 0 \/ ms[n][k] < ms[m][l]
    BY DEF Sorted
  <2>1. Sorted(ns) /\ At(ns, n, k) /\ At(ns, m, l)
    BY DEF Shape
  <2>2. ns[m][l] = 0 \/ ns[n][k] < ns[m][l]
    BY <2>1 DEF Sorted
  <2>3. ms[n][k] = ns[n][k] /\ ms[m][l] = ns[m][l]
    BY <2>1
  <2> QED BY <2>2, <2>3
<1> QED BY <1>1 DEF Shape, HeldIn

\* One more entry, at the end: the next pointer or a marker.
LEMMA OneMore ==
  ASSUME NEW ns, NEW ms, NEW c \in Nat, NEW d \in Nat, NEW e \in Nat,
         Shape(ns, c), c <= d, e <= d, e = 0 \/ c < e,
         NEW i, NEW j, Grown(ns, ms, i, j, e)
  PROVE  Shape(ms, d) /\ HeldIn(ms, d) = HeldIn(ns, c) \cup (IF e = 0 THEN {} ELSE {e})
<1> USE DEF Grown
<1>0. ns \in Seq(Seq(Nat)) /\ \A n, k \in Nat : At(ns, n, k) => ns[n][k] <= c
  BY DEF Shape
<1>n. \A n, k \in Nat : At(ms, n, k) => ms[n][k] \in Nat
  BY Values
<1>o. \A n, k \in Nat : At(ms, n, k) => (n = i /\ k = j) \/ ms[n][k] <= c
  BY <1>0
<1>t. /\ \A x \in Nat : x <= c => x <= d
      /\ \A x \in Nat : x <= c /\ c < e => x < e
  OBVIOUS
<1>1. \A n, k \in Nat : At(ms, n, k) => ms[n][k] <= d
  <2> SUFFICES ASSUME NEW n \in Nat, NEW k \in Nat, At(ms, n, k) PROVE ms[n][k] <= d
    OBVIOUS
  <2>1. CASE n = i /\ k = j
    BY <2>1
  <2>2. CASE ms[n][k] <= c
    BY <2>2, <1>n, <1>t
  <2> QED BY <2>1, <2>2, <1>o
<1>2. Sorted(ms)
  <2> SUFFICES ASSUME NEW n \in Nat, NEW m \in Nat, NEW k \in Nat, NEW l \in Nat,
                      At(ms, n, k), At(ms, m, l), n < m \/ (n = m /\ k < l)
               PROVE  ms[m][l] = 0 \/ ms[n][k] < ms[m][l]
    BY DEF Sorted
  <2>1. ~(n = i /\ k = j)
    OBVIOUS
  <2>2. At(ns, n, k) /\ ms[n][k] = ns[n][k] /\ ms[n][k] <= c
    BY <2>1, <1>o
  <2>3. CASE m = i /\ l = j
    <3>1. ms[m][l] = e
      BY <2>3
    <3>2. ms[n][k] \in Nat /\ ms[n][k] <= c
      BY <2>2, <1>n
    <3>3. e = 0 \/ c < e
      OBVIOUS
    <3>4. CASE e = 0
      BY <3>1, <3>4
    <3>5. CASE c < e
      <4>1. ms[n][k] < e
        BY <3>2, <3>5, <1>t
      <4> QED BY <3>1, <4>1
    <3> QED BY <3>3, <3>4, <3>5
  <2>4. CASE ~(m = i /\ l = j)
    <3>1. At(ns, m, l) /\ ms[m][l] = ns[m][l]
      BY <2>4
    <3>2. Sorted(ns)
      BY DEF Shape
    <3>3. ns[m][l] = 0 \/ ns[n][k] < ns[m][l]
      BY <2>2, <3>1, <3>2 DEF Sorted
    <3> QED BY <2>2, <3>1, <3>3
  <2> QED BY <2>3, <2>4
<1>3. ASSUME NEW x \in HeldIn(ms, d), x # e PROVE x \in HeldIn(ns, c)
  <2>1. PICK n \in Nat, k \in Nat : At(ms, n, k) /\ ms[n][k] = x
    BY DEF HeldIn
  <2>2. At(ns, n, k) /\ ns[n][k] = x /\ x <= c
    <3>1. ~(n = i /\ k = j)
      BY <2>1, <1>3
    <3>2. At(ns, n, k) /\ ns[n][k] = x
      BY <2>1, <3>1
    <3> QED BY <3>2, <1>0
  <2>3. x \in Nat /\ x # 0
    BY Positive DEF HeldIn
  <2>4. x \in 1..c
    BY <2>2, <2>3, Positive
  <2> QED BY <2>2, <2>4 DEF HeldIn
<1>4. ASSUME NEW x \in HeldIn(ns, c) PROVE x \in HeldIn(ms, d) /\ x # 0
  <2>1. PICK n \in Nat, k \in Nat : At(ns, n, k) /\ ns[n][k] = x
    BY DEF HeldIn
  <2>2. At(ms, n, k) /\ ms[n][k] = x
    BY <2>1
  <2>3. x \in Nat /\ x # 0 /\ x <= d
    BY <2>2, <1>1, Positive DEF HeldIn
  <2>4. x \in 1..d
    BY <2>3, Positive
  <2> QED BY <2>2, <2>3, <2>4 DEF HeldIn
<1>5. ASSUME e # 0 PROVE e \in HeldIn(ms, d)
  <2>1. e \in 1..d
    BY <1>5, Positive
  <2> QED BY <2>1 DEF HeldIn
<1>6. 0 \notin HeldIn(ms, d)
  BY Positive DEF HeldIn
<1> QED BY <1>0, <1>1, <1>2, <1>3, <1>4, <1>5, <1>6 DEF Shape

\* The last entry is taken.
LEMMA OneLess ==
  ASSUME NEW ns, NEW ms, NEW c, Shape(ns, c), NEW i, NEW j, NEW e, Shrunk(ns, ms, i, j, e)
  PROVE  /\ Shape(ms, c) /\ HeldIn(ms, c) = HeldIn(ns, c) \ {e}
         /\ e \in Nat /\ (e # 0 => e \in HeldIn(ns, c))
<1> USE DEF Shrunk
<1>0. c \in Nat /\ ns \in Seq(Seq(Nat)) /\ \A n, k \in Nat : At(ns, n, k) => ns[n][k] <= c
  BY DEF Shape
<1>n. \A n, k \in Nat : At(ns, n, k) => ns[n][k] \in Nat
  BY <1>0, Values
<1>1. Sorted(ms)
  <2> SUFFICES ASSUME NEW n \in Nat, NEW m \in Nat, NEW k \in Nat, NEW l \in Nat,
                      At(ms, n, k), At(ms, m, l), n < m \/ (n = m /\ k < l)
               PROVE  ms[m][l] = 0 \/ ms[n][k] < ms[m][l]
    BY DEF Sorted
  <2>1. Sorted(ns) /\ At(ns, n, k) /\ At(ns, m, l)
    BY DEF Shape
  <2>2. ns[m][l] = 0 \/ ns[n][k] < ns[m][l]
    BY <2>1 DEF Sorted
  <2>3. ms[n][k] = ns[n][k] /\ ms[m][l] = ns[m][l]
    BY <2>1
  <2> QED BY <2>2, <2>3
<1>2. \A n, k \in Nat : At(ms, n, k) => ns[i][j] = 0 \/ ns[n][k] < ns[i][j]
  BY DEF Shape, Sorted
<1>3. ASSUME NEW x \in HeldIn(ms, c) PROVE x \in HeldIn(ns, c) /\ x # ns[i][j]
  <2>1. PICK n \in Nat, k \in Nat : At(ms, n, k) /\ ms[n][k] = x
    BY DEF HeldIn
  <2>2. At(ns, n, k) /\ ns[n][k] = x
    BY <2>1
  <2>3. x # 0 /\ x \in Nat /\ x \in 1..c /\ ns[i][j] \in Nat
    BY <1>n, <1>0, Positive DEF HeldIn
  <2>4. ns[i][j] = 0 \/ x < ns[i][j]
    BY <2>1, <2>2, <1>2
  <2>5. x # ns[i][j]
    BY <2>3, <2>4, Positive
  <2> QED BY <2>2, <2>3, <2>5 DEF HeldIn
<1>4. ASSUME NEW x \in HeldIn(ns, c), x # ns[i][j] PROVE x \in HeldIn(ms, c)
  <2>1. PICK n \in Nat, k \in Nat : At(ns, n, k) /\ ns[n][k] = x
    BY DEF HeldIn
  <2>2. ~(n = i /\ k = j)
    BY <1>4, <2>1
  <2>3. At(ms, n, k) /\ ms[n][k] = x
    BY <2>1, <2>2
  <2> QED BY <2>3 DEF HeldIn
<1>5. ns[i][j] # 0 => ns[i][j] \in HeldIn(ns, c)
  <2>1. ns[i][j] \in Nat /\ ns[i][j] <= c
    BY <1>0, <1>n
  <2>2. ns[i][j] # 0 => ns[i][j] \in 1..c
    BY <2>1, <1>0, Positive
  <2> QED BY <2>2 DEF HeldIn
<1>6. Shape(ms, c)
  <2>1. \A n, k \in Nat : At(ms, n, k) => ms[n][k] <= c
    BY <1>0
  <2> QED BY <1>0, <1>1, <2>1 DEF Shape
<1> QED BY <1>3, <1>4, <1>5, <1>6, <1>n

\* A pointer that is deleted moves from the held ones to the deleted ones.
LEMMA Moves ==
  ASSUME NEW held, NEW dl, NEW ls, NEW c \in Nat, Account(held, dl, ls, c), NEW x \in held
  PROVE  Account(held \ {x}, Append(dl, x), ls, c)
<1>1. dl \in Seq(Nat) /\ x \in Nat
  <2>1. x \in 1..c
    BY DEF Account
  <2> QED BY <2>1 DEF Account
<1>2. Append(dl, x) \in Seq(Nat)
  BY <1>1
<1>3. G!ToSet(Append(dl, x)) = G!ToSet(dl) \cup {x}
  <2>1. DOMAIN Append(dl, x) = 1..(Len(dl) + 1) /\ DOMAIN dl = 1..Len(dl) /\ Len(dl) \in Nat
    BY <1>1
  <2>2. \A k \in 1..Len(dl) : Append(dl, x)[k] = dl[k]
    BY <1>1
  <2>3. Append(dl, x)[Len(dl) + 1] = x
    BY <1>1
  <2>4. \A k \in 1..(Len(dl) + 1) : k \in 1..Len(dl) \/ k = Len(dl) + 1
    BY <2>1
  <2>5. 1..Len(dl) \subseteq 1..(Len(dl) + 1) /\ Len(dl) + 1 \in 1..(Len(dl) + 1)
    BY <2>1
  <2> QED BY <2>1, <2>2, <2>3, <2>4, <2>5 DEF G!ToSet
<1>4. G!IsInjective(Append(dl, x))
  <2>1. x \notin G!ToSet(dl)
    BY DEF Account
  <2>2. \A k \in 1..Len(dl) : dl[k] # x
    BY <1>1, <2>1 DEF G!ToSet
  <2>3. \A k, l \in 1..Len(dl) : dl[k] = dl[l] => k = l
    BY <1>1 DEF Account, G!IsInjective
  <2>4. \A k \in 1..Len(dl) : Append(dl, x)[k] = dl[k]
    BY <1>1
  <2>5. Append(dl, x)[Len(dl) + 1] = x /\ DOMAIN Append(dl, x) = 1..(Len(dl) + 1)
    BY <1>1
  <2>6. SUFFICES ASSUME NEW k \in 1..(Len(dl) + 1), NEW l \in 1..(Len(dl) + 1),
                        Append(dl, x)[k] = Append(dl, x)[l]
                 PROVE  k = l
    BY <2>5 DEF G!IsInjective
  <2> QED BY <1>1, <2>2, <2>3, <2>4, <2>5, <2>6
<1> QED BY <1>2, <1>3, <1>4 DEF Account

\* A new pointer is held, or lost.
LEMMA Arrives ==
  ASSUME NEW held, NEW dl, NEW ls, NEW c \in Nat, Account(held, dl, ls, c)
  PROVE  /\ Account(held \cup {c + 1}, dl, ls, c + 1)
         /\ Account(held, dl, ls \cup {c + 1}, c + 1)
<1>1. 1..(c + 1) = 1..c \cup {c + 1} /\ c + 1 \notin 1..c
  OBVIOUS
<1> QED BY <1>1 DEF Account

\* What Pushed does to the nodes.
LEMMA PushedEntries ==
  ASSUME nodes \in Seq(Seq(Nat)), NEW e \in Nat, NEW ms, ms = G!Pushed(e)
  PROVE  \E i, j : Grown(nodes, ms, i, j, e)
<1> DEFINE N == Len(nodes)
<1>0. N \in Nat /\ \A n \in 1..N : nodes[n] \in Seq(Nat) /\ Len(nodes[n]) \in Nat
  OBVIOUS
<1>1. CASE nodes = <<>> \/ G!Full(G!Last(nodes))
  <2>1. ms = Append(nodes, <<e>>)
    BY <1>1 DEF G!Pushed
  <2>2. ms \in Seq(Seq(Nat)) /\ Len(ms) = N + 1 /\ ms[N + 1] = <<e>> /\ \A n \in 1..N : ms[n] = nodes[n]
    BY <2>1
  <2>3. Len(<<e>>) = 1 /\ <<e>>[1] = e
    OBVIOUS
  <2>4. At(ms, N + 1, 1) /\ ms[N + 1][1] = e
    BY <1>0, <2>2, <2>3 DEF At
  <2>5. ASSUME NEW n \in Nat, NEW k \in Nat, At(ms, n, k)
        PROVE  (n = N + 1 /\ k = 1) \/ (At(nodes, n, k) /\ n < N + 1)
    <3>1. n \in 1..(N + 1) /\ k \in 1..Len(ms[n])
      BY <2>2, <2>5 DEF At
    <3>2. CASE n = N + 1
      <4>1. k \in 1..1
        BY <2>2, <2>3, <3>1, <3>2
      <4> QED BY <3>2, <4>1, UpTo
    <3>3. CASE n # N + 1
      <4>1. n \in 1..N /\ n < N + 1
        BY <1>0, <3>1, <3>3, UpTo
      <4> QED BY <2>2, <3>1, <4>1 DEF At
    <3> QED BY <3>2, <3>3
  <2>6. ASSUME NEW n \in Nat, NEW k \in Nat, At(nodes, n, k)
        PROVE  At(ms, n, k) /\ ms[n][k] = nodes[n][k]
    <3>1. n \in 1..N /\ n \in 1..(N + 1) /\ k \in 1..Len(nodes[n])
      BY <1>0, <2>6 DEF At
    <3> QED BY <2>2, <3>1 DEF At
  <2>7. N + 1 \in Nat /\ 1 \in Nat /\ N + 1 >= N
    BY <1>0
  <2> HIDE DEF N
  <2>8. Grown(nodes, ms, N + 1, 1, e)
    BY <2>2, <2>4, <2>5, <2>6, <2>7 DEF Grown
  <2> QED BY <2>8
<1>2. CASE ~(nodes = <<>> \/ G!Full(G!Last(nodes)))
  <2> DEFINE t == nodes[N]
  <2>1. ms = [nodes EXCEPT ![N] = Append(@, e)]
    BY <1>2 DEF G!Pushed
  <2>2. N \in 1..N /\ t \in Seq(Nat) /\ Len(t) \in Nat
    BY <1>2
  <2>3. Append(t, e) \in Seq(Nat)
    BY <2>2
  <2>4. ms \in Seq(Seq(Nat)) /\ Len(ms) = N
    BY <2>1, <2>2, <2>3
  <2>5. ms[N] = Append(t, e) /\ \A n \in 1..N : n # N => ms[n] = nodes[n]
    BY <2>1, <2>2
  <2>6. Len(ms[N]) = Len(t) + 1 /\ ms[N][Len(t) + 1] = e /\ \A k \in 1..Len(t) : ms[N][k] = t[k]
    BY <2>2, <2>5
  <2> HIDE DEF t
  <2>7. At(ms, N, Len(t) + 1)
    BY <1>0, <2>2, <2>4, <2>6 DEF At
  <2>8. ASSUME NEW n \in Nat, NEW k \in Nat, At(ms, n, k)
        PROVE  \/ n = N /\ k = Len(t) + 1
               \/ At(nodes, n, k) /\ (n < N \/ (n = N /\ k < Len(t) + 1))
    <3>1. CASE n = N
      <4>1. k \in 1..(Len(t) + 1) /\ n \in 1..N
        BY <2>4, <2>6, <2>8, <3>1 DEF At
      <4>2. k = Len(t) + 1 \/ (k \in 1..Len(t) /\ k < Len(t) + 1)
        BY <2>2, <4>1, UpTo
      <4> QED BY <3>1, <4>1, <4>2 DEF At, t
    <3>2. CASE n # N
      BY <1>0, <2>2, <2>4, <2>5, <2>8, <3>2 DEF At
    <3> QED BY <3>1, <3>2
  <2>9. ASSUME NEW n \in Nat, NEW k \in Nat, At(nodes, n, k)
        PROVE  At(ms, n, k) /\ ms[n][k] = nodes[n][k]
    <3>1. CASE n = N
      <4>1. k \in 1..Len(t) /\ n \in 1..Len(ms)
        BY <2>2, <2>4, <2>9, <3>1 DEF At, t
      <4>2. k \in 1..Len(ms[n])
        BY <2>2, <2>6, <3>1, <4>1
      <4>3. ms[n][k] = t[k]
        BY <2>6, <3>1, <4>1
      <4> QED BY <3>1, <4>1, <4>2, <4>3 DEF At, t
    <3>2. CASE n # N
      BY <1>0, <2>2, <2>4, <2>5, <2>9, <3>2 DEF At
    <3> QED BY <3>1, <3>2
  <2>10. Len(t) + 1 \in Nat /\ N >= N
    BY <1>0, <2>2
  <2> HIDE DEF N
  <2>11. Grown(nodes, ms, N, Len(t) + 1, e)
    BY <1>0, <2>4, <2>6, <2>7, <2>8, <2>9, <2>10 DEF Grown
  <2> QED BY <2>11
<1> QED BY <1>1, <1>2

LEMMA FrontOf ==
  ASSUME NEW Entry, NEW s \in Seq(Entry), s # <<>>
  PROVE  /\ G!Front(s) \in Seq(Entry) /\ Len(G!Front(s)) = Len(s) - 1
         /\ \A k \in 1..(Len(s) - 1) : G!Front(s)[k] = s[k]
<1>1. Len(s) \in Nat /\ Len(s) >= 1
  OBVIOUS
<1>2. G!Front(s) = SubSeq(s, 1, Len(s) - 1)
  BY DEF G!Front
<1>3. \A k \in 1..(Len(s) - 1) : s[k] \in Entry
  BY <1>1
<1>4. /\ SubSeq(s, 1, Len(s) - 1) \in Seq(Entry)
      /\ Len(SubSeq(s, 1, Len(s) - 1)) = IF 1 <= Len(s) - 1 THEN (Len(s) - 1) - 1 + 1 ELSE 0
  <2>1. 1 \in Int /\ Len(s) - 1 \in Int
    BY <1>1
  <2> QED BY <1>3, <2>1, SubSeqProperties
<1>6. Len(SubSeq(s, 1, Len(s) - 1)) = Len(s) - 1
  <2>1. (IF 1 <= Len(s) - 1 THEN (Len(s) - 1) - 1 + 1 ELSE 0) = Len(s) - 1
    BY <1>1
  <2> QED BY <1>4, <2>1
<1>5. \A k \in 1..(Len(s) - 1) : SubSeq(s, 1, Len(s) - 1)[k] = s[k]
  BY <1>1
<1> QED BY <1>2, <1>4, <1>5, <1>6

\* What taking the last entry of a node does, when only empty nodes follow.
LEMMA TakenEntries ==
  ASSUME NEW ns \in Seq(Seq(Nat)), NEW i \in 1..Len(ns), ns[i] # <<>>,
         \A n \in 1..Len(ns) : n > i => ns[n] = <<>>
  PROVE  Shrunk(ns, [ns EXCEPT ![i] = G!Front(@)], i, Len(ns[i]), G!Last(ns[i]))
<1> DEFINE s == ns[i]
           ms == [ns EXCEPT ![i] = G!Front(@)]
<1>1. s \in Seq(Nat) /\ s # <<>> /\ Len(s) \in Nat /\ Len(s) >= 1
  OBVIOUS
<1>2. G!Front(s) \in Seq(Nat) /\ Len(G!Front(s)) = Len(s) - 1
      /\ \A k \in 1..(Len(s) - 1) : G!Front(s)[k] = s[k]
  <2> HIDE DEF s
  <2> QED BY <1>1, FrontOf
<1>3. G!Last(s) = s[Len(s)]
  BY DEF G!Last
<1>4. ms \in Seq(Seq(Nat)) /\ Len(ms) = Len(ns) /\ ms[i] = G!Front(s)
      /\ \A n \in 1..Len(ns) : n # i => ms[n] = ns[n]
  BY <1>2
<1>5. Len(<<>>) = 0 /\ Len(ns) \in Nat
  OBVIOUS
<1>6. \A n, k \in Nat : At(ns, n, k) => n <= i
  BY <1>5 DEF At
<1> HIDE DEF ms
<1>7. ASSUME NEW n \in Nat, NEW k \in Nat, At(ns, n, k)
      PROVE  \/ n = i /\ k = Len(s)
             \/ At(ms, n, k) /\ (n < i \/ (n = i /\ k < Len(s)))
  <2>1. CASE n = i
    <3>1. k \in 1..Len(s) /\ n \in 1..Len(ns) /\ Len(ms[n]) = Len(s) - 1
      BY <1>2, <1>4, <1>7, <2>1 DEF At
    <3>2. k = Len(s) \/ (k \in 1..(Len(s) - 1) /\ k < Len(s))
      BY <1>1, <3>1
    <3> QED BY <1>4, <2>1, <3>1, <3>2 DEF At
  <2>2. CASE n # i
    <3>1. n \in 1..Len(ns)
      BY <1>7 DEF At
    <3>2. n \in 1..Len(ms) /\ ms[n] = ns[n]
      BY <1>4, <2>2, <3>1
    <3>3. n < i
      <4>1. n <= i
        BY <1>6, <1>7
      <4> QED BY <2>2, <3>1, <4>1
    <3> QED BY <1>7, <3>2, <3>3 DEF At
  <2> QED BY <2>1, <2>2
<1>8. ASSUME NEW n \in Nat, NEW k \in Nat, At(ms, n, k)
      PROVE  At(ns, n, k) /\ ms[n][k] = ns[n][k] /\ ~(n = i /\ k = Len(s))
  <2>1. CASE n = i
    <3>1. k \in 1..(Len(s) - 1) /\ n \in 1..Len(ns)
      BY <1>2, <1>4, <1>8, <2>1 DEF At
    <3>2. k \in 1..Len(s) /\ k # Len(s)
      BY <1>1, <3>1
    <3>3. ms[n][k] = ns[n][k]
      BY <1>2, <1>4, <2>1, <3>1
    <3> QED BY <2>1, <3>1, <3>2, <3>3 DEF At
  <2>2. CASE n # i
    <3>1. n \in 1..Len(ns) /\ k \in 1..Len(ms[n])
      BY <1>4, <1>8 DEF At
    <3>2. ms[n] = ns[n]
      BY <3>1, <1>4, <2>2
    <3> QED BY <3>1, <3>2, <2>2 DEF At
  <2> QED BY <2>1, <2>2
<1>9. i \in Nat /\ At(ns, i, Len(s))
  BY <1>1, <1>5 DEF At
<1>10. Shrunk(ns, ms, i, Len(s), G!Last(s))
  BY <1>1, <1>3, <1>4, <1>7, <1>8, <1>9 DEF Shrunk
<1> QED BY <1>10 DEF ms

LEMMA Collects ==
  ASSUME NEW ms, Books(nodes, deleted, lost, count), ms = G!Pushed(count + 1)
  PROVE  Books(ms, deleted, lost, count + 1)
<1>1. nodes \in Seq(Seq(Nat)) /\ count \in Nat /\ Shape(nodes, count)
  BY DEF Books, Shape
<1>2. count + 1 \in Nat /\ count <= count + 1 /\ count + 1 # 0 /\ count < count + 1
  BY <1>1
<1>3. Shape(ms, count + 1)
      /\ HeldIn(ms, count + 1) = HeldIn(nodes, count) \cup (IF count + 1 = 0 THEN {} ELSE {count + 1})
  <2> DEFINE e == count + 1
  <2>1. e \in Nat /\ e <= e
    BY <1>2
  <2>2. PICK i, j : Grown(nodes, ms, i, j, e)
    BY <1>1, <2>1, PushedEntries
  <2>3. count <= e /\ count < e
    BY <1>2
  <2> HIDE DEF e
  <2>4. Shape(ms, e) /\ HeldIn(ms, e) = HeldIn(nodes, count) \cup (IF e = 0 THEN {} ELSE {e})
    BY <1>1, <2>1, <2>2, <2>3, OneMore
  <2> QED BY <2>4 DEF e
<1>4. Account(HeldIn(nodes, count) \cup {count + 1}, deleted, lost, count + 1)
  BY <1>1, Arrives DEF Books
<1> QED BY <1>2, <1>3, <1>4 DEF Books

LEMMA Marks ==
  ASSUME NEW ms, Books(nodes, deleted, lost, count), ms = G!Pushed(G!Marker)
  PROVE  Books(ms, deleted, lost, count)
<1>1. nodes \in Seq(Seq(Nat)) /\ count \in Nat /\ Shape(nodes, count)
  BY DEF Books, Shape
<1>2. G!Marker = 0 /\ 0 \in Nat
  BY DEF G!Marker
<1>3. PICK i, j : Grown(nodes, ms, i, j, 0)
  BY <1>1, <1>2, PushedEntries
<1>4. count <= count /\ 0 <= count /\ (0 = 0 \/ count < 0)
  BY <1>1
<1>5. Shape(ms, count) /\ HeldIn(ms, count) = HeldIn(nodes, count) \cup {}
  <2> DEFINE e == 0
  <2>1. e \in Nat /\ e <= count /\ (e = 0 \/ count < e) /\ Grown(nodes, ms, i, j, e)
    BY <1>2, <1>3, <1>4
  <2> HIDE DEF e
  <2>2. Shape(ms, count) /\ HeldIn(ms, count) = HeldIn(nodes, count) \cup (IF e = 0 THEN {} ELSE {e})
    BY <1>1, <1>4, <2>1, OneMore
  <2> QED BY <2>2 DEF e
<1>6. HeldIn(ms, count) = HeldIn(nodes, count)
  BY <1>5
<1> QED BY <1>5, <1>6 DEF Books

LEMMA Loses ==
  ASSUME NEW ns, NEW dl, NEW ls, NEW c, Books(ns, dl, ls, c)
  PROVE  Books(ns, dl, ls \cup {c + 1}, c + 1)
<1>1. c \in Nat /\ ns \in Seq(Seq(Nat)) /\ Sorted(ns) /\ \A n, k \in Nat : At(ns, n, k) => ns[n][k] <= c
  BY DEF Books, Shape
<1>2. c + 1 \in Nat /\ \A x \in Nat : x <= c => x <= c + 1
  BY <1>1
<1>3. \A n, k \in Nat : At(ns, n, k) => ns[n][k] <= c + 1
  <2> SUFFICES ASSUME NEW n \in Nat, NEW k \in Nat, At(ns, n, k) PROVE ns[n][k] <= c + 1
    OBVIOUS
  <2>1. ns[n][k] \in Nat /\ ns[n][k] <= c
    BY <1>1, Values
  <2> QED BY <2>1, <1>2
<1>4. HeldIn(ns, c + 1) = HeldIn(ns, c)
  <2>1. ASSUME NEW x \in HeldIn(ns, c + 1) PROVE x \in HeldIn(ns, c)
    <3>1. PICK n \in Nat, k \in Nat : At(ns, n, k) /\ ns[n][k] = x
      BY DEF HeldIn
    <3>2. x # 0 /\ x \in Nat /\ x <= c
      BY <1>1, <1>2, <3>1, Positive DEF HeldIn
    <3>3. x \in 1..c
      BY <1>1, <3>2, Positive
    <3> QED BY <3>1, <3>3 DEF HeldIn
  <2>2. 1..c \subseteq 1..(c + 1)
    BY <1>1
  <2>3. ASSUME NEW x \in HeldIn(ns, c) PROVE x \in HeldIn(ns, c + 1)
    BY <2>2 DEF HeldIn
  <2> QED BY <2>1, <2>3
<1>5. Account(HeldIn(ns, c), dl, ls \cup {c + 1}, c + 1)
  BY <1>1, Arrives DEF Books
<1> QED BY <1>1, <1>2, <1>3, <1>4, <1>5 DEF Books, Shape

\* The last entry is taken: a pointer is deleted, a marker is not.
LEMMA Takes ==
  ASSUME NEW ns, NEW dl, NEW ls, NEW c, Books(ns, dl, ls, c),
         NEW ms, NEW i, NEW j, NEW e, Shrunk(ns, ms, i, j, e)
  PROVE  Books(ms, IF e = G!Marker THEN dl ELSE Append(dl, e), ls, c)
<1>1. ns \in Seq(Seq(Nat)) /\ c \in Nat /\ Shape(ns, c)
  BY DEF Books, Shape
<1>3. /\ Shape(ms, c) /\ HeldIn(ms, c) = HeldIn(ns, c) \ {e}
      /\ e \in Nat /\ (e # 0 => e \in HeldIn(ns, c))
  BY <1>1, OneLess
<1>4. CASE e = 0
  <2>1. 0 \notin HeldIn(ns, c)
    BY <1>1, Positive DEF HeldIn
  <2>2. HeldIn(ms, c) = HeldIn(ns, c)
    BY <1>3, <1>4, <2>1
  <2> QED BY <1>3, <1>4, <2>2 DEF Books, G!Marker
<1>5. CASE e # 0
  <2>1. Account(HeldIn(ns, c) \ {e}, Append(dl, e), ls, c)
    BY <1>1, <1>3, <1>5, Moves DEF Books
  <2> QED BY <1>3, <1>5, <2>1 DEF Books, G!Marker
<1> QED BY <1>4, <1>5

\* Nodes without entries come or go.
LEMMA Keeps ==
  ASSUME NEW ns, NEW ms \in Seq(Seq(Nat)), NEW dl, NEW ls, NEW c, Books(ns, dl, ls, c),
         \A n, k \in Nat : At(ms, n, k) <=> At(ns, n, k),
         \A n, k \in Nat : At(ns, n, k) => ms[n][k] = ns[n][k]
  PROVE  Books(ms, dl, ls, c)
BY SameEntries DEF Books

LEMMA GarbageInit == G!Init => G!IInv
<1> SUFFICES ASSUME G!Init PROVE G!IInv
  OBVIOUS
<1>1. nodes = <<>> /\ deleted = <<>> /\ lost = {} /\ count = 0 /\ busy = "idle"
  BY DEF G!Init
<1>2. Len(<<>>) = 0 /\ 1..0 = {} /\ <<>> \in Seq(Seq(Nat)) /\ <<>> \in Seq(Nat)
      /\ DOMAIN <<>> = {}
  OBVIOUS
<1>3. \A n, k \in Nat : ~At(<<>>, n, k)
  BY <1>2 DEF At
<1>4. Shape(<<>>, 0)
  BY <1>2, <1>3 DEF Shape, Sorted
<1>5. HeldIn(<<>>, 0) = {}
  BY <1>2 DEF HeldIn
<1>6. G!ToSet(<<>>) = {} /\ G!IsInjective(<<>>)
  BY <1>2 DEF G!ToSet, G!IsInjective
<1>7. Account({}, <<>>, {}, 0)
  BY <1>2, <1>6 DEF Account
<1> QED BY <1>1, <1>4, <1>5, <1>7, Restated DEF Books, G!IInv, G!Recycled


LEMMA GarbageStep == G!IInv /\ [G!Next]_(G!garbageVars) => G!IInv'
<1> SUFFICES ASSUME G!IInv, [G!Next]_(G!garbageVars) PROVE G!IInv'
  OBVIOUS
<1>b. Books(nodes, deleted, lost, count)
  BY Restated DEF G!IInv, Books
<1>t. nodes \in Seq(Seq(Nat)) /\ deleted \in Seq(Nat) /\ count \in Nat /\ Len(nodes) \in Nat
  BY DEF G!IInv, G!Types
<1>r. busy = "recycle" => at \in 1..Len(nodes) /\ \A n \in 1..Len(nodes) : n > at => nodes[n] = <<>>
  BY DEF G!IInv, G!Recycled
<1>g. ASSUME Books(nodes', deleted', lost', count'), G!Recycled' PROVE G!IInv'
  BY <1>g, Restated DEF Books, G!IInv
<1>e. Len(<<>>) = 0 /\ <<>> \in Seq(Nat)
  OBVIOUS
<1>1. CASE G!collect_Garbage
  <2>1. CASE busy = "recycle" /\ (at < Len(nodes) \/ G!Full(nodes[at]))
    <3>1. count' = count + 1 /\ lost' = lost \cup {count + 1} /\ deleted' = deleted
          /\ busy' = busy /\ at' = at /\ nodes' = IF at < Len(nodes) THEN nodes ELSE Append(nodes, <<>>)
      BY <1>1, <2>1 DEF G!collect_Garbage
    <3>2. CASE at < Len(nodes)
      <4>1. nodes' = nodes
        BY <3>1, <3>2
      <4>2. Books(nodes', deleted', lost', count')
        BY <1>b, <3>1, <4>1, Loses
      <4>3. G!Recycled'
        BY <1>r, <2>1, <3>1, <4>1 DEF G!Recycled
      <4> QED BY <1>g, <4>2, <4>3
    <3>3. CASE ~(at < Len(nodes))
      <4>1. nodes' = Append(nodes, <<>>) /\ at = Len(nodes)
        BY <1>t, <1>r, <2>1, <3>1, <3>3
      <4>2. nodes' \in Seq(Seq(Nat)) /\ Len(nodes') = Len(nodes) + 1 /\ nodes'[Len(nodes) + 1] = <<>>
            /\ \A n \in 1..Len(nodes) : nodes'[n] = nodes[n]
        BY <1>t, <1>e, <4>1
      <4>3. ASSUME NEW n \in Nat, NEW k \in Nat
            PROVE  At(nodes', n, k) <=> At(nodes, n, k)
        <5>1. CASE n = Len(nodes) + 1
          <6>1. ~At(nodes', n, k) /\ ~At(nodes, n, k)
            BY <1>t, <1>e, <4>2, <5>1 DEF At
          <6> QED BY <6>1
        <5>2. CASE n # Len(nodes) + 1
          <6>1. n \in 1..Len(nodes') <=> n \in 1..Len(nodes)
            BY <1>t, <4>2, <5>2
          <6> QED BY <4>2, <6>1 DEF At
        <5> QED BY <5>1, <5>2
      <4>4. \A n, k \in Nat : At(nodes, n, k) => nodes'[n][k] = nodes[n][k]
        BY <4>2 DEF At
      <4>5. Books(nodes', deleted, lost, count)
        BY <1>b, <4>2, <4>3, <4>4, Keeps
      <4>6. Books(nodes', deleted', lost', count')
        BY <3>1, <4>5, Loses
      <4>7. G!Recycled'
        <5>1. at' \in 1..Len(nodes') /\ at' = Len(nodes)
          BY <1>t, <1>r, <2>1, <3>1, <4>1, <4>2
        <5>2. ASSUME NEW n \in 1..Len(nodes'), n > at' PROVE nodes'[n] = <<>>
          <6>1. n = Len(nodes) + 1
            BY <1>t, <4>2, <5>1, <5>2
          <6> QED BY <4>2, <6>1
        <5> QED BY <5>1, <5>2 DEF G!Recycled
      <4> QED BY <1>g, <4>6, <4>7
    <3> QED BY <3>2, <3>3
  <2>2. CASE ~(busy = "recycle" /\ (at < Len(nodes) \/ G!Full(nodes[at])))
    <3>1. count' = count + 1 /\ lost' = lost /\ deleted' = deleted
          /\ busy' = busy /\ at' = at /\ nodes' = G!Pushed(count + 1)
      BY <1>1, <2>2 DEF G!collect_Garbage
    <3>2. Books(nodes', deleted', lost', count')
      BY <1>b, <3>1, Collects
    <3>3. G!Recycled'
      <4> SUFFICES ASSUME busy = "recycle" PROVE G!Recycled'
        BY <3>1 DEF G!Recycled
      <4>1. at = Len(nodes) /\ at \in 1..Len(nodes) /\ ~G!Full(nodes[at])
        BY <1>t, <1>r, <2>2
      <4>2. nodes # <<>> /\ G!Last(nodes) = nodes[at]
        BY <1>e, <4>1 DEF G!Last
      <4>3. nodes' = [nodes EXCEPT ![at] = Append(@, count + 1)]
        BY <3>1, <4>1, <4>2 DEF G!Pushed
      <4>4. Len(nodes') = Len(nodes)
        BY <1>t, <4>1, <4>3
      <4>5. \A n \in 1..Len(nodes') : ~(n > at)
        BY <1>t, <4>1, <4>4
      <4> QED BY <3>1, <4>1, <4>4, <4>5 DEF G!Recycled
    <3> QED BY <1>g, <3>2, <3>3
  <2> QED BY <2>1, <2>2
<1>2. CASE G!beginScope_Garbage
  <2>1. nodes' = G!Pushed(G!Marker) /\ busy = "idle" /\ UNCHANGED <<busy, deleted, lost, count>>
    BY <1>2 DEF G!beginScope_Garbage
  <2>2. Books(nodes', deleted', lost', count')
    BY <1>b, <2>1, Marks
  <2> QED BY <1>g, <2>1, <2>2 DEF G!Recycled
<1>3. CASE G!endScope_Garbage
  <2>1. busy' = "endScope" /\ UNCHANGED <<nodes, deleted, lost, count>>
    BY <1>3 DEF G!endScope_Garbage
  <2> QED BY <1>b, <1>g, <2>1 DEF G!Recycled
<1>4. CASE G!pop_Collected_
  <2> DEFINE rest == IF Len(nodes) > 1 /\ G!Last(nodes) = <<>> THEN G!Front(nodes) ELSE nodes
             N == Len(rest)
  <2>0. busy = "endScope" /\ busy' \in {"idle", "endScope"} /\ lost' = lost /\ count' = count
    BY <1>4 DEF G!pop_Collected_
  <2>1. G!Recycled'
    BY <2>0 DEF G!Recycled
  <2>2. rest \in Seq(Seq(Nat)) /\ Books(rest, deleted, lost, count)
    <3>1. CASE ~(Len(nodes) > 1 /\ G!Last(nodes) = <<>>)
      BY <1>t, <1>b, <3>1
    <3>2. CASE Len(nodes) > 1 /\ G!Last(nodes) = <<>>
      <4> DEFINE ms == G!Front(nodes)
      <4>1. rest = ms
        BY <3>2
      <4>2. ms \in Seq(Seq(Nat)) /\ Len(ms) = Len(nodes) - 1
            /\ \A n \in 1..(Len(nodes) - 1) : ms[n] = nodes[n]
        BY <1>t, <3>2, FrontOf
      <4>3. nodes[Len(nodes)] = <<>>
        BY <3>2 DEF G!Last
      <4> HIDE DEF ms
      <4>4. ASSUME NEW n \in Nat, NEW k \in Nat
            PROVE  At(ms, n, k) <=> At(nodes, n, k)
        <5>1. CASE n = Len(nodes)
          <6>1. ~At(ms, n, k) /\ ~At(nodes, n, k)
            BY <1>t, <1>e, <4>2, <4>3, <5>1 DEF At
          <6> QED BY <6>1
        <5>2. CASE n # Len(nodes)
          <6>1. n \in 1..Len(ms) <=> n \in 1..Len(nodes)
            BY <1>t, <4>2, <5>2
          <6> QED BY <4>2, <6>1 DEF At
        <5> QED BY <5>1, <5>2
      <4>5. \A n, k \in Nat : At(nodes, n, k) => ms[n][k] = nodes[n][k]
        BY <4>2, <4>4 DEF At
      <4>6. Books(ms, deleted, lost, count)
        BY <1>b, <4>2, <4>4, <4>5, Keeps
      <4> QED BY <4>1, <4>2, <4>6
    <3> QED BY <3>1, <3>2
  <2>3. \/ nodes' = rest /\ deleted' = deleted
        \/ /\ rest # <<>> /\ G!Last(rest) # <<>>
           /\ nodes' = [rest EXCEPT ![N] = G!Front(@)]
           /\ deleted' = IF G!Last(G!Last(rest)) = G!Marker THEN deleted
                         ELSE Append(deleted, G!Last(G!Last(rest)))
    BY <1>4 DEF G!pop_Collected_
  <2> HIDE DEF rest
  <2>4. CASE nodes' = rest /\ deleted' = deleted
    <3>1. Books(nodes', deleted', lost', count')
      BY <2>0, <2>2, <2>4
    <3> QED BY <1>g, <2>1, <3>1
  <2>5. CASE /\ rest # <<>> /\ G!Last(rest) # <<>>
             /\ nodes' = [rest EXCEPT ![N] = G!Front(@)]
             /\ deleted' = IF G!Last(G!Last(rest)) = G!Marker THEN deleted
                           ELSE Append(deleted, G!Last(G!Last(rest)))
    <3>1. N \in Nat /\ N \in 1..N /\ G!Last(rest) = rest[N]
      BY <2>2, <2>5 DEF G!Last
    <3>2. \A n \in 1..N : ~(n > N)
      BY <3>1
    <3>3. Shrunk(rest, [rest EXCEPT ![N] = G!Front(@)], N, Len(rest[N]), G!Last(rest[N]))
      BY <2>2, <2>5, <3>1, <3>2, TakenEntries
    <3>4. Books(nodes', deleted', lost', count')
      BY <2>0, <2>2, <2>5, <3>1, <3>3, Takes
    <3> QED BY <1>g, <2>1, <3>4
  <2> QED BY <2>3, <2>4, <2>5
<1>5. CASE G!recycle_Garbage
  <2>1. nodes # <<>> /\ at' = Len(nodes) /\ UNCHANGED <<nodes, deleted, lost, count>>
    BY <1>5 DEF G!recycle_Garbage
  <2>2. at' \in 1..Len(nodes) /\ \A n \in 1..Len(nodes) : ~(n > at')
    BY <1>t, <2>1
  <2> QED BY <1>b, <1>g, <2>1, <2>2 DEF G!Recycled
<1>6. CASE G!delete_GarbageNode_
  <2>0. busy = "recycle" /\ at \in 1..Len(nodes) /\ lost' = lost /\ count' = count
        /\ \A n \in 1..Len(nodes) : n > at => nodes[n] = <<>>
    BY <1>6, <1>r DEF G!delete_GarbageNode_
  <2>1. CASE nodes[at] # <<>>
    <3>1. /\ nodes' = [nodes EXCEPT ![at] = G!Front(@)] /\ busy' = busy /\ at' = at
          /\ deleted' = IF G!Last(nodes[at]) = G!Marker THEN deleted
                        ELSE Append(deleted, G!Last(nodes[at]))
      BY <1>6, <2>1 DEF G!delete_GarbageNode_
    <3>2. Shrunk(nodes, [nodes EXCEPT ![at] = G!Front(@)], at, Len(nodes[at]), G!Last(nodes[at]))
      BY <1>t, <2>0, <2>1, TakenEntries
    <3>3. Books(nodes', deleted', lost', count')
      BY <1>b, <2>0, <3>1, <3>2, Takes
    <3>4. G!Recycled'
      <4>1. Len(nodes') = Len(nodes) /\ \A n \in 1..Len(nodes) : n # at => nodes'[n] = nodes[n]
        BY <1>t, <2>0, <3>1
      <4>2. \A n \in 1..Len(nodes) : n > at => n # at
        BY <1>t, <2>0
      <4> QED BY <2>0, <3>1, <4>1, <4>2 DEF G!Recycled
    <3> QED BY <1>g, <3>3, <3>4
  <2>2. CASE nodes[at] = <<>>
    <3>1. /\ at' = at - 1 /\ busy' = IF at = 1 THEN "idle" ELSE busy
          /\ nodes' = IF at = 1 THEN <<>> ELSE nodes
          /\ deleted' = deleted
      BY <1>6, <2>2 DEF G!delete_GarbageNode_
    <3>2. CASE at = 1
      <4>1. nodes' = <<>> /\ busy' = "idle" /\ nodes' \in Seq(Seq(Nat))
        BY <3>1, <3>2
      <4>2. \A n \in 1..Len(nodes) : nodes[n] = <<>>
        <5> SUFFICES ASSUME NEW n \in 1..Len(nodes) PROVE nodes[n] = <<>>
          OBVIOUS
        <5>1. n = at \/ n > at
          BY <1>t, <3>2
        <5> QED BY <2>0, <2>2, <5>1
      <4>3. ASSUME NEW n \in Nat, NEW k \in Nat
            PROVE  ~At(nodes', n, k) /\ ~At(nodes, n, k)
        BY <1>e, <4>1, <4>2 DEF At
      <4>4. Books(nodes', deleted, lost, count)
        BY <1>b, <4>1, <4>3, Keeps
      <4> QED BY <1>g, <2>0, <3>1, <4>1, <4>4 DEF G!Recycled
    <3>3. CASE at # 1
      <4>1. nodes' = nodes /\ at' \in 1..Len(nodes)
        BY <1>t, <2>0, <3>1, <3>3
      <4>2. ASSUME NEW n \in 1..Len(nodes), n > at' PROVE nodes[n] = <<>>
        <5>1. n = at \/ n > at
          BY <1>t, <2>0, <3>1, <4>2
        <5> QED BY <2>0, <2>2, <5>1
      <4>3. G!Recycled'
        BY <4>1, <4>2 DEF G!Recycled
      <4> QED BY <1>b, <1>g, <2>0, <3>1, <4>1, <4>3
    <3> QED BY <3>2, <3>3
  <2> QED BY <2>1, <2>2
<1>7. CASE UNCHANGED G!garbageVars
  BY <1>7, <1>b, <1>g DEF G!garbageVars, G!IInv, G!Recycled
<1> QED BY <1>1, <1>2, <1>3, <1>4, <1>5, <1>6, <1>7 DEF G!Next

-----------------------------------------------------------------------------

(* The reference count of a thread object is the number of references held   *)
(* on it, however start_Thread races the thread it started (thread.c).       *)
THEOREM ReferenceCountsBalance == MCSpec => []RefsBalance
<1>1. MCInit => IInv
  BY InitIInv DEF MCInit
<1>2. IInv /\ [MCNext]_vars => IInv'
  BY IInvStep, MCStep
<1>3. IInv => RefsBalance
  BY DEF IInv
<1> QED BY <1>1, <1>2, <1>3, PTL DEF MCSpec

(* No two listening threads of a service overlap, and nobody listens when    *)
(* close_Service has returned, however often the service is opened           *)
(* (service.c).                                                              *)
THEOREM ListenersNeverOverlap == MCSpec => []OneListener
<1>1. MCInit => S!IInv
  BY ServiceInit, MCAssumption DEF MCInit
<1>2. S!IInv /\ [MCNext]_vars => S!IInv'
  BY ServiceStep, MCStep, MCAssumption
<1>3. S!IInv => OneListener
  BY ServiceUse DEF OneListener
<1> QED BY <1>1, <1>2, <1>3, PTL DEF MCSpec

(* The I/O thread finds each member open and no two on one descriptor, for   *)
(* any set of datagrams (datagram.c).                                        *)
THEOREM MembersAreAlwaysOpen == MCSpec => []MembersAreOpen
<1>1. MCInit => D!IInv
  BY DatagramInit DEF MCInit
<1>2. D!IInv /\ [MCNext]_vars => D!IInv'
  BY DatagramStep, MCStep
<1>3. D!IInv => MembersAreOpen
  BY DatagramUse DEF MembersAreOpen
<1> QED BY <1>1, <1>2, <1>3, PTL DEF MCSpec

(* No code touches a thread object that has been freed, and no pointer       *)
(* between an object and an audience outlives either of them, for any sets   *)
(* of threads, objects, audiences and functions (thread.c, audience.c).      *)
THEOREM NoPointerDangles == MCSpec => []NothingDangles
<1>1. MCInit => IInv /\ A!IInv
  BY InitIInv, AudienceInit DEF MCInit
<1>2. IInv /\ A!IInv /\ [MCNext]_vars => IInv' /\ A!IInv'
  BY IInvStep, AudienceStep, MCStep
<1>3. IInv /\ A!IInv => NothingDangles
  BY IInvUse DEF NothingDangles, A!IInv
<1> QED BY <1>1, <1>2, <1>3, PTL DEF MCSpec

(* Every collected pointer is held, was deleted once or is lost, and what is *)
(* held lies in the order it was collected, for nodes of any size, though    *)
(* deleters collect again while a scope ends or a recycling runs (garbage.c).*)
THEOREM GarbageIsDeletedOnce == MCSpec => []DeletedOnce
<1>1. MCInit => G!IInv
  BY GarbageInit DEF MCInit
<1>2. G!IInv /\ [MCNext]_vars => G!IInv'
  BY GarbageStep, MCStep
<1>3. G!IInv => DeletedOnce
  BY DEF G!IInv, DeletedOnce
<1> QED BY <1>1, <1>2, <1>3, PTL DEF MCSpec
=============================================================================
