-------------------------------- MODULE List --------------------------------
(***************************************************************************)
(* An iList (list.c): a ring of the caller's nodes through the root, with  *)
(* a quicksort that moves nodes from link to link.                         *)
(***************************************************************************)
EXTENDS Integers, FiniteSets, Sequences

CONSTANTS Nodes,   \* the caller's nodes
          Rank,    \* what the caller compares them by
          Root,    \* the list's own node
          NULL     \* the links of a node that is in no list

VARIABLE list      \* [next, prev, size]

EmptyList ==
  [next |-> [n \in Nodes \cup {Root} |-> IF n = Root THEN Root ELSE NULL],
   prev |-> [n \in Nodes \cup {Root} |-> IF n = Root THEN Root ELSE NULL], size |-> 0]

Init == list = EmptyList

\* The nodes of the list.
Members == {n \in Nodes : list.next[n] # NULL}

-----------------------------------------------------------------------------
(* Links.                                                                  *)

insertAfter_ListNode_(l, d, after) ==
  LET behind == l.next[after]
  IN  [l EXCEPT !.next = [@ EXCEPT ![d] = behind, ![after] = d],
                !.prev = [@ EXCEPT ![behind] = d, ![d] = after]]

insertBefore_ListNode_(l, d, before) ==
  LET ahead == l.prev[before]
  IN  [l EXCEPT !.prev = [@ EXCEPT ![d] = ahead, ![before] = d],
                !.next = [@ EXCEPT ![ahead] = d, ![d] = before]]

remove_ListNode_(l, d) ==
  [l EXCEPT !.prev = [@ EXCEPT ![l.next[d]] = l.prev[d], ![d] = NULL],
            !.next = [@ EXCEPT ![l.prev[d]] = l.next[d], ![d] = NULL]]

-----------------------------------------------------------------------------
(* Sorting.  A part of the list is [list, low, high].                      *)

Exceeds(n, pivot) == Rank[n] > Rank[pivot]

\* Mutant: the end of the part stays where it was.
MoveBehindEnd(part, n, pivot) ==
  [part EXCEPT !.list = insertAfter_ListNode_(remove_ListNode_(@, n), n, pivot)]

\* Node n to the place just after the pivot.
MoveBehind(part, n, pivot) ==
  [part EXCEPT !.list = insertAfter_ListNode_(remove_ListNode_(@, n), n, pivot),
               !.high = IF @ = pivot THEN n ELSE @]

RECURSIVE Sift(_, _, _)
Sift(part, n, pivot) ==
  IF n = part.low THEN part
  ELSE Sift(IF Exceeds(n, pivot) THEN MoveBehind(part, n, pivot) ELSE part,
            part.list.prev[n], pivot)

quicksortPartition_ListNode_(part) ==
  LET pivot  == part.high
      sifted == Sift(part, part.list.prev[pivot], pivot)
      low    == sifted.low
  IN  IF Exceeds(low, pivot)
        THEN MoveBehind([sifted EXCEPT !.low = sifted.list.next[low]], low, pivot)
        ELSE sifted

RECURSIVE quicksort_ListNode_(_)
quicksort_ListNode_(part) ==
  LET p     == part.high
      split == quicksortPartition_ListNode_(part)
      left  == IF p = split.low THEN split.list
               ELSE quicksort_ListNode_([split EXCEPT !.high = split.list.prev[p]])
  IN  IF part.low = part.high THEN part.list
      ELSE IF p = split.high THEN left
      ELSE quicksort_ListNode_([list |-> left, low |-> left.next[p], high |-> split.high])

-----------------------------------------------------------------------------
(* Operations.                                                             *)

\* After NULL: at the end.  Pushing is inserting beside the root.
insertAfter_List(after, n) ==
  list' = [insertAfter_ListNode_(list, n, IF after = NULL THEN list.prev[Root] ELSE after)
             EXCEPT !.size = @ + 1]

\* Before NULL: at the front.
insertBefore_List(before, n) ==
  list' = [insertBefore_ListNode_(list, n, IF before = NULL THEN list.next[Root] ELSE before)
             EXCEPT !.size = @ + 1]

remove_List(n) == list' = [remove_ListNode_(list, n) EXCEPT !.size = @ - 1]

clear_List == list' = EmptyList

sort_List ==
  /\ list.size >= 2
  /\ list' = quicksort_ListNode_([list |-> list, low |-> list.next[Root],
                                  high |-> list.prev[Root]])

Next == \/ \E n \in Nodes \ Members, at \in Members \cup {Root, NULL} :
             insertAfter_List(at, n) \/ insertBefore_List(at, n)
        \/ \E n \in Members : remove_List(n)
        \/ clear_List
        \/ sort_List

-----------------------------------------------------------------------------

RECURSIVE Walk(_, _)
Walk(links, n) == IF n = Root THEN <<>> ELSE <<n>> \o Walk(links, links[n])

(* A sort that relinks nodes while it walks over them leaves all of them,  *)
(* in order, the same forwards and backwards.                              *)
SortLeavesInOrder ==
  [][sort_List =>
       LET forth == Walk(list'.next, list'.next[Root])
           back  == Walk(list'.prev, list'.prev[Root])
           n     == list.size
       IN  /\ Len(forth) = n /\ Len(back) = n
           /\ {forth[i] : i \in 1..n} = Members
           /\ \A i \in 1..n : back[i] = forth[n + 1 - i]
           /\ \A i \in 1..(n - 1) : ~Exceeds(forth[i], forth[i + 1])]_list
=============================================================================
