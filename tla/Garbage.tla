------------------------------ MODULE Garbage ------------------------------
(* The garbage of one thread (garbage.c): pointers collected with a deleter  *)
(* in nodes of a fixed size, markers for scopes among them, and two ways to  *)
(* delete them: at the end of a scope, and all at once.  A deleter may       *)
(* collect again.  Pointers are numbered as they are collected.              *)
EXTENDS Naturals, Sequences, SequencesExt

CONSTANTS iGarbageNodeMax,
          MaxCollected,                 \* bound on the pointers
          MaxHeld                       \* bound on the entries when a scope begins

Marker == 0

VARIABLES nodes,      \* the list of nodes, each the sequence of its entries
          busy,       \* what goes on: "idle", "endScope", "recycle"
          deleter,    \* a deleter was called and has not returned
          at,         \* the node being recycled; those behind it are freed
          base,       \* what was collected before the scope that is ending
          deleted,    \* the pointers whose deleter was called, in order
          lost,       \* pointers written to a freed node, or to a forgotten one
          count       \* pointers so far

garbageVars == <<nodes, busy, deleter, at, base, deleted, lost, count>>

Init == /\ nodes = <<>> /\ busy = "idle" /\ deleter = FALSE /\ at = 0 /\ base = <<>>
        /\ deleted = <<>> /\ lost = {} /\ count = 0

Entries == FlattenSeq(nodes)
Full(node) == Len(node) = iGarbageNodeMax

Pushed(entry) ==
  IF nodes = <<>> \/ Full(Last(nodes)) THEN Append(nodes, <<entry>>)
  ELSE [nodes EXCEPT ![Len(nodes)] = Append(@, entry)]

(* collect_Garbage, by the program or by a deleter.  While a node that is    *)
(* not the last is recycled, the last is freed memory, or one that was added *)
(* during the recycling, which will be forgotten.                            *)
collect_Garbage ==
  /\ busy = "idle" \/ deleter
  /\ count < MaxCollected
  /\ count' = count + 1
  /\ IF busy = "recycle" /\ (at < Len(nodes) \/ Full(nodes[at]))
     THEN /\ lost' = lost \cup {count'}
          /\ nodes' = IF at < Len(nodes) THEN nodes ELSE Append(nodes, <<>>)
     ELSE nodes' = Pushed(count') /\ UNCHANGED lost
  /\ UNCHANGED <<busy, deleter, at, base, deleted>>

beginScope_Garbage == /\ busy = "idle" /\ Len(Entries) < MaxHeld
                      /\ nodes' = Pushed(Marker)
                      /\ UNCHANGED <<busy, deleter, at, base, deleted, lost, count>>

endScope_Garbage ==
  /\ busy = "idle"
  /\ busy' = "endScope"
  /\ base' = LET m == SelectLastInSeq(Entries, LAMBDA e : e = Marker)
             IN  SubSeq(Entries, 1, m - 1)
  /\ UNCHANGED <<nodes, deleter, at, deleted, lost, count>>

\* Mutant: an empty node is not dropped.
PopLastNode == /\ busy = "endScope"
               /\ IF nodes = <<>> \/ Last(nodes) = <<>> \/ Last(Last(nodes)) = Marker
                  THEN busy' = "idle" /\ UNCHANGED deleted
                  ELSE busy' = busy /\ deleted' = Append(deleted, Last(Last(nodes)))
               /\ nodes' = IF nodes = <<>> \/ Last(nodes) = <<>> THEN nodes
                           ELSE [nodes EXCEPT ![Len(nodes)] = Front(@)]
               /\ deleter' = (deleted' # deleted)
               /\ UNCHANGED <<at, base, lost, count>>

(* pop_Collected_: an empty node is dropped, unless it is the only one; the  *)
(* last entry is taken and deleted.  The scope ends at its marker, or when   *)
(* nothing is left.                                                          *)
pop_Collected_ ==
  LET rest == IF Len(nodes) > 1 /\ Last(nodes) = <<>> THEN Front(nodes) ELSE nodes
  IN  /\ busy = "endScope"
      /\ IF rest = <<>> \/ Last(rest) = <<>>
         THEN busy' = "idle" /\ nodes' = rest /\ UNCHANGED deleted
         ELSE LET entry == Last(Last(rest)) IN
              /\ nodes' = [rest EXCEPT ![Len(rest)] = Front(@)]
              /\ busy' = IF entry = Marker THEN "idle" ELSE busy
              /\ deleted' = IF entry = Marker THEN deleted ELSE Append(deleted, entry)
      /\ deleter' = (deleted' # deleted)
      /\ UNCHANGED <<at, base, lost, count>>

(* recycle_Collected_, also when the thread ends.  A deleter that recycles   *)
(* finds isRecycling set.                                                    *)
recycle_Garbage == /\ busy = "idle" /\ nodes # <<>>
                   /\ busy' = "recycle"
                   /\ at' = Len(nodes)
                   /\ UNCHANGED <<nodes, deleter, base, deleted, lost, count>>

\* Mutant: the count of entries does not go down.
DeleteUncounted == /\ busy = "recycle" /\ nodes[at] # <<>>
                   /\ deleted' = Append(deleted, Last(nodes[at]))
                   /\ deleter' = TRUE
                   /\ UNCHANGED <<nodes, busy, at, base, lost, count>>

(* delete_GarbageNode_: its entries from the last, then the node; the list   *)
(* is cleared once at the end.                                               *)
delete_GarbageNode_ ==
  /\ busy = "recycle"
  /\ IF nodes[at] # <<>>
     THEN /\ nodes' = [nodes EXCEPT ![at] = Front(@)]
          /\ deleted' = IF Last(nodes[at]) = Marker THEN deleted
                        ELSE Append(deleted, Last(nodes[at]))
          /\ UNCHANGED <<busy, at>>
     ELSE /\ at' = at - 1
          /\ busy' = IF at = 1 THEN "idle" ELSE busy
          /\ nodes' = IF at = 1 THEN <<>> ELSE nodes
          /\ UNCHANGED deleted
  /\ deleter' = (deleted' # deleted)
  /\ UNCHANGED <<base, lost, count>>

Next == \/ collect_Garbage \/ beginScope_Garbage \/ endScope_Garbage
        \/ pop_Collected_ \/ recycle_Garbage \/ delete_GarbageNode_

Held == {e \in 1..count : \E n \in 1..Len(nodes) : \E k \in 1..Len(nodes[n]) : nodes[n][k] = e}

InOrder == \A n, m \in 1..Len(nodes) : \A k \in 1..Len(nodes[n]), l \in 1..Len(nodes[m]) :
             n < m \/ (n = m /\ k < l) => nodes[m][l] = Marker \/ nodes[n][k] < nodes[m][l]

(* Every collected pointer is held once, was deleted once or is lost; those  *)
(* that are held lie in the order they were collected.  A pointer is lost    *)
(* only when a deleter collected it during a recycling.                      *)
DeletedOnce == /\ InOrder /\ IsInjective(deleted)
               /\ Held \cup ToSet(deleted) \cup lost = 1..count
               /\ Held \cap ToSet(deleted) = {}
               /\ (Held \cup ToSet(deleted)) \cap lost = {}

(* The end of a scope deletes what was collected since its beginning, by the *)
(* program or by the deleters it calls, and nothing else, though the entries *)
(* are spread over nodes; a recycling leaves nothing.                        *)
ScopeEndsWhereItBegan ==
  [][busy # "idle" /\ busy' = "idle"
       => Entries' = IF busy = "endScope" THEN base ELSE <<>>]_garbageVars

-----------------------------------------------------------------------------
(* DeletedOnce holds for any number of pointers and any size of the nodes.   *)
(* Behind the node that is being recycled there is nothing any more.         *)

Types == /\ nodes \in Seq(Seq(Nat)) /\ deleted \in Seq(Nat) /\ count \in Nat
         /\ \A n \in 1..Len(nodes) : \A k \in 1..Len(nodes[n]) : nodes[n][k] <= count

Recycled == busy = "recycle" => /\ at \in 1..Len(nodes)
                                /\ \A n \in 1..Len(nodes) : n > at => nodes[n] = <<>>

IInv == Types /\ Recycled /\ DeletedOnce
=============================================================================
