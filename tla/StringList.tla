----------------------------- MODULE StringList -----------------------------
(* A list of strings kept in nodes that hold a limited number each and are   *)
(* split and merged as strings come and go (stringlist.c). "strings" is the  *)
(* list as its user sees it. Positions count from zero, as in C.             *)
EXTENDS Integers, Sequences, SequencesExt

CONSTANTS Strings,       \* the strings; which string is where matters
          MaxPerNode,    \* iStringListMaxStringsPerNode, 512 in the code
          MaxStrings     \* bound on the size of the list

VARIABLES nodes, strings

stringListVars == <<nodes, strings>>

Init == nodes = <<>> /\ strings = <<>>

Size(list) == Len(FlattenSeq(list))
Before(list, n) == Len(FlattenSeq(SubSeq(list, 1, n - 1)))
Half == MaxPerNode \div 2

(* The search starts from the nearer end; a node without strings is passed.  *)
RECURSIVE Forwards(_, _, _), Backwards(_, _, _)
Forwards(list, n, pos) ==
  IF pos < Before(list, n) + Len(list[n]) THEN n ELSE Forwards(list, n + 1, pos)
Backwards(list, n, pos) == IF pos >= Before(list, n) THEN n ELSE Backwards(list, n - 1, pos)
locateNode_StringList_(list, pos) ==
  IF pos < Size(list) \div 2 THEN Forwards(list, 1, pos) ELSE Backwards(list, Len(list), pos)

constAt_StringList(list, pos) ==
  LET n == locateNode_StringList_(list, pos) IN list[n][pos - Before(list, n) + 1]

splitNode_StringList_(list, n) ==
  LET s == list[n]
      half == Len(s) \div 2
  IN  IF Len(s) <= MaxPerNode THEN list
      ELSE SubSeq(list, 1, n - 1) \o <<SubSeq(s, 1, half), SubSeq(s, half + 1, Len(s))>>
           \o SubSeq(list, n + 1, Len(list))

\* Mutant: the strings always go behind those of the other node.
MergeBehind(list, n, to) ==
  RemoveAt([list EXCEPT ![to] = list[to] \o list[n]], n)

mergeIntoAndRemoveNode_StringList_(list, n, to) ==
  RemoveAt([list EXCEPT ![to] = IF to < n THEN list[to] \o list[n] ELSE list[n] \o list[to]], n)

(* A small node joins its next or else its previous one, if that is small.   *)
mergeNode_StringList_(list, n) ==
  LET small(k) == k \in DOMAIN list /\ Len(list[k]) < Half
  IN  IF ~small(n) THEN list
      ELSE IF small(n + 1) THEN mergeIntoAndRemoveNode_StringList_(list, n, n + 1)
      ELSE IF small(n - 1) THEN mergeIntoAndRemoveNode_StringList_(list, n, n - 1)
      ELSE list

Filled == IF nodes = <<>> THEN <<<<>>>> ELSE nodes

pushBack_StringList(s) ==
  splitNode_StringList_([Filled EXCEPT ![Len(Filled)] = Append(@, s)], Len(Filled))
pushFront_StringList(s) ==
  splitNode_StringList_([Filled EXCEPT ![1] = <<s>> \o @], 1)

take_(list, pos) ==
  LET n == locateNode_StringList_(list, pos)
  IN  mergeNode_StringList_([list EXCEPT ![n] = RemoveAt(@, pos - Before(list, n) + 1)], n)

-----------------------------------------------------------------------------

insert_StringList(pos, s) ==
  LET n == locateNode_StringList_(nodes, pos)
  IN  /\ Len(strings) < MaxStrings
      /\ nodes' = (IF pos = 0 THEN pushFront_StringList(s)
                   ELSE IF pos >= Size(nodes) THEN pushBack_StringList(s)
                   ELSE splitNode_StringList_(
                          [nodes EXCEPT ![n] = InsertAt(@, pos - Before(nodes, n) + 1, s)], n))
      /\ strings' = InsertAt(strings, pos + 1, s)

(* Also remove, popBack and popFront.                                        *)
take_StringList(pos) == /\ nodes' = take_(nodes, pos)
                        /\ strings' = RemoveAt(strings, pos + 1)

clear_StringList == nodes' = <<>> /\ strings' = <<>>

Next == \/ \E pos \in 0..Len(strings), s \in Strings : insert_StringList(pos, s)
        \/ \E pos \in 0..Len(strings) - 1 : take_StringList(pos)
        \/ clear_StringList

Spec == Init /\ [][Next]_stringListVars

-----------------------------------------------------------------------------
(* Iteration: i.pos, i.node and i.nodePos, in a list from which the strings  *)
(* in T are taken through the iterator. After taking one it stands before    *)
(* the position that was taken, found anew among the nodes. What is left and *)
(* what was seen, or Outside when a node is read beyond its strings.         *)

Outside == [inside |-> FALSE]

(* The const iterator does not count: its end is where there are no more     *)
(* nodes.                                                                    *)
next_StringListIterator(i) ==
  LET on == [i EXCEPT !.pos = @ + 1, !.nodePos = @ + 1]
      past == on.nodePos = Len(i.list[i.node])
  IN  IF i.end \/ (~i.const /\ on.pos >= Size(i.list)) THEN [on EXCEPT !.end = TRUE]
      ELSE IF ~past THEN on
      ELSE [on EXCEPT !.node = @ + 1, !.nodePos = 0, !.end = i.node = Len(i.list)]

take_StringListIterator(i) ==
  LET rest == take_(i.list, i.pos)
      n == locateNode_StringList_(rest, IF i.pos > 0 THEN i.pos - 1 ELSE 0)
  IN  IF Size(rest) = 0 THEN [i EXCEPT !.list = rest, !.end = TRUE]
      ELSE [i EXCEPT !.list = rest, !.pos = @ - 1, !.node = n, !.nodePos = i.pos - 1 - Before(rest, n)]

RECURSIVE VisitFrom(_, _, _)
VisitFrom(i, seen, T) ==
  IF i.nodePos >= Len(i.list[i.node]) THEN Outside
  ELSE LET s == i.list[i.node][i.nodePos + 1]
           next == next_StringListIterator(IF s \in T THEN take_StringListIterator(i) ELSE i)
       IN  IF next.end THEN [inside |-> TRUE, left |-> FlattenSeq(next.list), seen |-> Append(seen, s)]
           ELSE VisitFrom(next, Append(seen, s), T)

init_StringListIterator(list, const) ==
  [list |-> list, const |-> const, end |-> list = <<>>, pos |-> 0, node |-> 1, nodePos |-> 0]

Iterated(list, const, T) ==
  IF Size(list) = 0 THEN [inside |-> TRUE, left |-> <<>>, seen |-> <<>>]
  ELSE VisitFrom(init_StringListIterator(list, const), <<>>, T)
Visited(list, T) == Iterated(list, FALSE, T)

HasEmptyNode == \E n \in DOMAIN nodes : nodes[n] = <<>>

(* The list is the sequence its user sees, however its strings are spread    *)
(* over nodes and from whichever end a node is looked for; an iteration,     *)
(* const or not, visits every string in order, and what it takes and nothing *)
(* else is gone, unless it comes upon a node that was left empty beside a    *)
(* large one.                                                                *)
ListIsASequence ==
  /\ FlattenSeq(nodes) = strings
  /\ \A pos \in 0..Len(strings) - 1 : constAt_StringList(nodes, pos) = strings[pos + 1]
  /\ \A n \in DOMAIN nodes : Len(nodes[n]) <= MaxPerNode
  /\ \A T \in SUBSET Strings :
       LET v == Visited(nodes, T)
       IN  IF v.inside THEN v.left = SelectSeq(strings, LAMBDA s : s \notin T) /\ v.seen = strings
           ELSE T # {} \/ HasEmptyNode
  /\ LET v == Iterated(nodes, TRUE, {})
     IN  IF v.inside THEN v.seen = strings ELSE HasEmptyNode

(* An iteration reads no node beyond its strings: constAt_Array() asserts    *)
(* that the position is less than the size (array.c).                        *)
IteratorStaysInside == Visited(nodes, {}).inside
=============================================================================
