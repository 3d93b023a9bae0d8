------------------------------- MODULE Holders -------------------------------
(* Containers that hold references to what is put in them: a BlockHash or    *)
(* StringHash (nodes found by the CRC-32 of their key), an ObjectList with   *)
(* its iterators, and a StringSet, whose strings share their data with the   *)
(* ones inserted. (blockhash.c, stringhash.c, objectlist.c, stringset.c,     *)
(* sortedarray.c)                                                            *)
EXTENDS Integers, Sequences, SequencesExt

CONSTANTS Objects,       \* what is put in the containers
          Keys,          \* keys of the hash
          Crc(_),        \* the hash key of a key
          Text(_),       \* the text of an object, as a string
          MaxItems,      \* bound on the size of a list
          MaxLost        \* bound on the references lost

VARIABLES refs, hash, list, cursor, set, lost

holderVars == <<refs, hash, list, cursor, set, lost>>

Free == [object |-> "none"]
End == [at |-> "end"]

(* The program holds one reference to each object until it drops it. A list  *)
(* node is [id, object]; a cursor the nodes [value, next] of an iterator.    *)
Init == /\ refs = [o \in Objects |-> 1]
        /\ hash = [k \in {Crc(x) : x \in Keys} |-> Free]
        /\ list = <<>>
        /\ cursor = [value |-> End, next |-> End]
        /\ set = {}
        /\ lost = [o \in Objects |-> 0]

Live(o) == refs[o] > 0
Plus(o, n) == refs' = [refs EXCEPT ![o] = @ + n]

-----------------------------------------------------------------------------
(* BlockHash: the new node takes its reference before the old one goes.      *)

insert_BlockHash(k, o) ==
  LET old == hash[Crc(k)]
      more == [refs EXCEPT ![o] = @ + 1]
  IN  /\ Live(o)
      /\ hash' = [hash EXCEPT ![Crc(k)] = [key |-> k, object |-> o]]
      /\ refs' = IF old = Free THEN more ELSE [more EXCEPT ![old.object] = @ - 1]
      /\ UNCHANGED <<list, cursor, set, lost>>

remove_BlockHash(k) ==
  /\ hash[Crc(k)] # Free
  /\ Plus(hash[Crc(k)].object, -1)
  /\ hash' = [hash EXCEPT ![Crc(k)] = Free]
  /\ UNCHANGED <<list, cursor, set, lost>>

clear_BlockHash ==
  /\ refs' = [o \in Objects |-> refs[o] - Cardinality({c \in DOMAIN hash : hash[c] # Free /\ hash[c].object = o})]
  /\ hash' = [c \in DOMAIN hash |-> Free]
  /\ UNCHANGED <<list, cursor, set, lost>>

-----------------------------------------------------------------------------
(* ObjectList.                                                               *)

NewId == CHOOSE id \in 1..MaxItems : \A i \in DOMAIN list : list[i].id # id
Node(o) == [id |-> NewId, object |-> o]
IndexOf(node) == CHOOSE i \in DOMAIN list : list[i] = node
After(s, node) ==
  LET i == CHOOSE i \in DOMAIN s : s[i] = node IN IF i = Len(s) THEN End ELSE s[i + 1]

(* pushBack, pushFront, insertAfter and insertBefore.                        *)
Put(pos, o) ==
  /\ Live(o) /\ Len(list) < MaxItems
  /\ list' = InsertAt(list, pos, Node(o)) /\ Plus(o, 1)
  /\ UNCHANGED <<hash, cursor, set, lost>>

(* The object may be the last that the node kept.                            *)
Removed(node) == list' = RemoveAt(list, IndexOf(node)) /\ Plus(node.object, -1)

(* popFront and popBack too; while an iterator stands on a node or is bound  *)
(* for it, the caller does not remove it but through the iterator.           *)
removeNode_ObjectList(node) == /\ node \notin {cursor.value, cursor.next}
                               /\ Removed(node) /\ UNCHANGED <<hash, cursor, set, lost>>

clear_ObjectList ==
  /\ cursor.value = End
  /\ refs' = [o \in Objects |-> refs[o] - Cardinality({i \in DOMAIN list : list[i].object = o})]
  /\ list' = <<>> /\ cursor' = [value |-> End, next |-> End]
  /\ UNCHANGED <<hash, set, lost>>

init_ObjectListIterator ==
  /\ list # <<>> /\ cursor.value = End
  /\ cursor' = [value |-> list[1], next |-> After(list, list[1])]
  /\ UNCHANGED <<refs, hash, list, set, lost>>

next_ObjectListIterator ==
  /\ cursor.value # End
  /\ cursor' = [value |-> cursor.next,
                next |-> IF cursor.next = End THEN End ELSE After(list, cursor.next)]
  /\ UNCHANGED <<refs, hash, list, set, lost>>

\* Mutant: the iterator looks for the next node after it has removed one.
RemoveThenLook ==
  /\ cursor.value # End /\ Removed(cursor.value)
  /\ cursor' = [value |-> cursor.value, next |-> cursor.next]
  /\ UNCHANGED <<hash, set, lost>>

(* The next node was noted before; the step that follows leaves the removed. *)
remove_ObjectListIterator ==
  /\ cursor.value # End /\ Removed(cursor.value)
  /\ cursor' = [value |-> cursor.next,
                next |-> IF cursor.next = End THEN End ELSE After(list, cursor.next)]
  /\ UNCHANGED <<hash, set, lost>>

-----------------------------------------------------------------------------
(* StringSet: an equal string is overwritten and its data never let go.      *)

Same(o) == {p \in set : Text(p) = Text(o)}

insert_StringSet(o) ==
  /\ Live(o) /\ Plus(o, 1)
  /\ set' = (set \ Same(o)) \cup {o}
  /\ lost' = [p \in Objects |-> IF p \in Same(o) THEN lost[p] + 1 ELSE lost[p]]
  /\ \A p \in Objects : lost'[p] <= MaxLost
  /\ UNCHANGED <<hash, list, cursor>>
remove_StringSet(o) ==
  /\ Same(o) # {} /\ set' = set \ Same(o)
  /\ refs' = [p \in Objects |-> IF p \in Same(o) THEN refs[p] - 1 ELSE refs[p]]
  /\ UNCHANGED <<hash, list, cursor, lost>>

-----------------------------------------------------------------------------

HeldBy(o) == Cardinality({c \in DOMAIN hash : hash[c] # Free /\ hash[c].object = o})
             + Cardinality({i \in DOMAIN list : list[i].object = o})
             + Cardinality(set \cap {o})

(* The program drops its reference, once.                                    *)
deref_Object(o) == /\ refs[o] = HeldBy(o) + lost[o] + 1 /\ Plus(o, -1)
                   /\ UNCHANGED <<hash, list, cursor, set, lost>>

Next ==
  \/ clear_BlockHash \/ clear_ObjectList \/ init_ObjectListIterator
  \/ next_ObjectListIterator \/ remove_ObjectListIterator
  \/ \E k \in Keys : remove_BlockHash(k) \/ \E o \in Objects : insert_BlockHash(k, o)
  \/ \E i \in DOMAIN list : removeNode_ObjectList(list[i])
  \/ \E o \in Objects : \/ insert_StringSet(o) \/ remove_StringSet(o) \/ deref_Object(o)
                        \/ \E pos \in 1..Len(list) + 1 : Put(pos, o)

-----------------------------------------------------------------------------

(* A container's references are those of what it holds: an object lives as   *)
(* long as one holds it and no longer than that and the program's own        *)
(* reference, except for the strings that a set overwrote; an iterator never *)
(* stands on, or is bound for, a node that is gone.                          *)
HoldersBalance ==
  /\ \A o \in Objects : refs[o] - HeldBy(o) - lost[o] \in {0, 1}
  /\ \A node \in {cursor.value, cursor.next} \ {End} : Contains(list, node)
=============================================================================
