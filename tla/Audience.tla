------------------------------ MODULE Audience ------------------------------
(* Audiences and the objects that observe them (audience.c, object.c).  An   *)
(* audience keeps <<object, function>> pairs; an object remembers, without   *)
(* counting, the audiences it is a member of, so that whichever of the two   *)
(* is destroyed first can tell the other.  Sorting is left out: only what    *)
(* the sets hold is told apart.                                              *)
EXTENDS Naturals

CONSTANTS Objects, Audiences, Funcs,
          MaxRefs                     \* bound on the references to an object

VARIABLES refs,        \* per object: refCount, 0 once it was freed
          observers,   \* per audience: the observers
          memberOf,    \* per object: memberOf->audiences
          audiences,   \* the audiences that exist
          careless     \* objects that lost a membership while still observing

audienceVars == <<refs, observers, memberOf, audiences, careless>>

Init == /\ refs = [o \in Objects |-> 1]
        /\ observers = [a \in Audiences |-> {}]
        /\ memberOf = [o \in Objects |-> {}]
        /\ audiences = Audiences
        /\ careless = {}

Alive(o) == refs[o] > 0
Observing(o, a) == \E f \in Funcs : <<o, f>> \in observers[a]

insert_Audience(a, o, f) ==
  /\ a \in audiences /\ Alive(o)
  /\ memberOf' = [memberOf EXCEPT ![o] = @ \cup {a}]
  /\ observers' = [observers EXCEPT ![a] = @ \cup {<<o, f>>}]
  /\ UNCHANGED <<refs, audiences, careless>>

(* fs is one function, or all of them when the caller passes NULL.  Whatever *)
(* it was, the membership ends.                                              *)
remove_Audience(a, o, fs) ==
  /\ a \in audiences /\ Alive(o)
  /\ memberOf' = [memberOf EXCEPT ![o] = @ \ {a}]
  /\ observers' = [observers EXCEPT ![a] = @ \ ({o} \X fs)]
  /\ careless' = IF \E f \in Funcs \ fs : <<o, f>> \in observers[a]
                 THEN careless \cup {o} ELSE careless
  /\ UNCHANGED <<refs, audiences>>

\* Mutant: the members are not told.
DeleteSilently(a) == /\ a \in audiences
                     /\ audiences' = audiences \ {a}
                     /\ observers' = [observers EXCEPT ![a] = {}]
                     /\ UNCHANGED <<refs, memberOf, careless>>

(* Reading memberOf of an observer that was freed is left undefined.         *)
deinit_Audience(a) ==
  /\ a \in audiences
  /\ \A o \in Objects : Observing(o, a) => Alive(o)
  /\ audiences' = audiences \ {a}
  /\ observers' = [observers EXCEPT ![a] = {}]
  /\ memberOf' = [o \in Objects |-> IF Observing(o, a) THEN memberOf[o] \ {a}
                                                       ELSE memberOf[o]]
  /\ UNCHANGED <<refs, careless>>

ref_Object(o) == /\ Alive(o) /\ refs[o] < MaxRefs
                 /\ refs' = [refs EXCEPT ![o] = @ + 1]
                 /\ UNCHANGED <<observers, memberOf, audiences, careless>>

(* The last reference frees the object: deinit_AudienceMember takes it, with *)
(* all its functions, out of the audiences it is a member of.                *)
deref_Object(o) ==
  /\ Alive(o)
  /\ refs' = [refs EXCEPT ![o] = @ - 1]
  /\ IF refs[o] > 1 THEN UNCHANGED <<observers, memberOf>>
     ELSE /\ observers' = [a \in Audiences |->
                             IF a \in memberOf[o] THEN observers[a] \ ({o} \X Funcs)
                                                  ELSE observers[a]]
          /\ memberOf' = [memberOf EXCEPT ![o] = {}]
  /\ UNCHANGED <<audiences, careless>>

Next == \/ \E o \in Objects : ref_Object(o) \/ deref_Object(o)
        \/ \E a \in Audiences : deinit_Audience(a)
        \/ \E a \in Audiences, o \in Objects :
             \/ \E f \in Funcs : insert_Audience(a, o, f) \/ remove_Audience(a, o, {f})
             \/ remove_Audience(a, o, Funcs)

(* Neither side keeps a pointer to the other once it is gone: a freed object *)
(* observes nothing (unless it had been taken off an audience it went on     *)
(* observing with another function), and no object remembers an audience     *)
(* that was deleted, which its own destruction would lock.                   *)
NothingDangles ==
  \A o \in Objects, a \in Audiences :
    /\ Observing(o, a) => a \in audiences /\ (Alive(o) \/ o \in careless)
    /\ a \in memberOf[o] => a \in audiences /\ Alive(o) /\ Observing(o, a)

-----------------------------------------------------------------------------
(* What NothingDangles rests on, and is inductive with (ServicesProofs): an  *)
(* object that observes an audience without being its member has lost the    *)
(* membership.                                                               *)

Spec == Init /\ [][Next]_audienceVars

TypeOK == /\ refs \in [Objects -> Nat]
          /\ observers \in [Audiences -> SUBSET (Objects \X Funcs)]
          /\ memberOf \in [Objects -> SUBSET Audiences]
          /\ audiences \subseteq Audiences
          /\ careless \subseteq Objects

LossIsKnown ==
  \A o \in Objects, a \in Audiences : Observing(o, a) /\ a \notin memberOf[o] => o \in careless

IInv == TypeOK /\ NothingDangles /\ LossIsKnown
=============================================================================
