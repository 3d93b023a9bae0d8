------------------------------ MODULE PtrArray ------------------------------
(* Iterators over arrays (array.c) and what arrays of pointers do with them  *)
(* (ptrarray.c). The elements of an array are a sequence, as they are in     *)
(* ElementSequence; each is a pointer and a number that tells it from the    *)
(* others that are equal. Positions count from zero; -1 is the iInvalidPos   *)
(* that a position wraps to below zero.                                      *)
EXTENDS Integers, Sequences, SequencesExt

CONSTANTS Pointers, MaxItems           \* bound on the elements

VARIABLES items, iter,
          given, visited               \* the elements when the iteration began; those it was at

iInvalidPos == -1
NULL == [ptr |-> "NULL"]
Items == [ptr : Pointers, id : 1..MaxItems]
size_Array(s) == Len(s)
at_Array(s, pos) == s[pos + 1]

Idle == [kind |-> "none", pos |-> 0, value |-> NULL]
Init == items = <<>> /\ iter = Idle /\ given = <<>> /\ visited = <<>>

(* insert_PtrArray; the program does not insert during an iteration.         *)
insert_PtrArray(pos, item) ==
  /\ iter = Idle /\ Len(items) < MaxItems /\ item \notin Range(items) /\ pos <= Len(items)
  /\ items' = InsertAt(items, pos + 1, item) /\ UNCHANGED <<iter, given, visited>>

-----------------------------------------------------------------------------
(* The four kinds of iterators; those of a const array have an address in    *)
(* place of the position, which is compared with that of the end.            *)

init_ArrayIterator(s) ==
  [kind |-> "forward", pos |-> 0, value |-> IF s # <<>> THEN at_Array(s, 0) ELSE NULL]
init_ArrayConstIterator(s) == [init_ArrayIterator(s) EXCEPT !.kind = "const"]
init_ArrayReverseIterator(s) ==
  LET last == size_Array(s) - 1
  IN  [kind |-> "reverse", pos |-> last, value |-> IF s # <<>> THEN at_Array(s, last) ELSE NULL]
init_ArrayReverseConstIterator(s) == [init_ArrayReverseIterator(s) EXCEPT !.kind = "reverse const"]

next_ArrayIterator(i, s) ==
  [i EXCEPT !.pos = @ + 1,
            !.value = IF i.pos + 1 < size_Array(s) THEN at_Array(s, i.pos + 1) ELSE NULL]
next_ArrayReverseIterator(i, s) ==
  IF i.pos > 0 THEN [i EXCEPT !.pos = @ - 1, !.value = at_Array(s, i.pos - 1)]
  ELSE [i EXCEPT !.pos = iInvalidPos, !.value = NULL]
next_ArrayConstIterator(i, s) ==
  LET address == i.pos + 1
  IN  [i EXCEPT !.pos = address,
                !.value = IF address >= size_Array(s) THEN NULL ELSE at_Array(s, address)]
next_ArrayReverseConstIterator(i, s) ==
  LET address == i.pos - 1
  IN  [i EXCEPT !.pos = address, !.value = IF address < 0 THEN NULL ELSE at_Array(s, address)]

Iterate == /\ iter = Idle
           /\ iter' \in {init_ArrayIterator(items), init_ArrayConstIterator(items),
                         init_ArrayReverseIterator(items), init_ArrayReverseConstIterator(items)}
           /\ given' = items
           /\ visited' = IF iter'.value = NULL THEN <<>> ELSE <<iter'.value>>
           /\ UNCHANGED items

Step == /\ iter.value # NULL
        /\ iter' = CASE iter.kind = "forward" -> next_ArrayIterator(iter, items)
                     [] iter.kind = "const"   -> next_ArrayConstIterator(iter, items)
                     [] iter.kind = "reverse" -> next_ArrayReverseIterator(iter, items)
                     [] OTHER -> next_ArrayReverseConstIterator(iter, items)
        /\ visited' = (IF iter'.value = NULL THEN visited ELSE Append(visited, iter'.value))
        /\ UNCHANGED <<items, given>>

\* Mutant: the iterator stays where the next element has moved to.
RemovedInPlace(s, i) == <<RemoveAt(s, i.pos + 1), i>>

(* The position goes back by one, from zero to where one more wraps.         *)
remove_ArrayIterator(s, i) == <<RemoveAt(s, i.pos + 1), [i EXCEPT !.pos = @ - 1]>>

\* Once for each element.
RemoveHere == /\ iter.kind = "forward" /\ iter.value # NULL /\ iter.value \in Range(items)
              /\ LET removed == remove_ArrayIterator(items, iter)
                 IN  items' = removed[1] /\ iter' = removed[2]
              /\ UNCHANGED <<given, visited>>

Leave == /\ iter # Idle /\ iter' = Idle /\ given' = <<>> /\ visited' = <<>> /\ UNCHANGED items

-----------------------------------------------------------------------------
(* Searching and removing, by iterators.                                     *)

RECURSIVE IndexFrom(_, _, _), RemoveFrom(_, _, _, _)
IndexFrom(i, s, ptr) == IF i.value = NULL THEN iInvalidPos
                        ELSE IF i.value.ptr = ptr THEN i.pos
                        ELSE IndexFrom(next_ArrayConstIterator(i, s), s, ptr)
indexOf_PtrArray(s, ptr) == IndexFrom(init_ArrayConstIterator(s), s, ptr)

RemoveFrom(i, s, ptr, all) ==
  IF i.value = NULL THEN s
  ELSE IF i.value.ptr # ptr THEN RemoveFrom(next_ArrayIterator(i, s), s, ptr, all)
  ELSE LET removed == remove_ArrayIterator(s, i)
       IN  IF all THEN RemoveFrom(next_ArrayIterator(removed[2], removed[1]), removed[1], ptr, all)
           ELSE removed[1]
removeOne_PtrArray(s, ptr) == RemoveFrom(init_ArrayIterator(s), s, ptr, FALSE)
removeAll_PtrArray(s, ptr) == RemoveFrom(init_ArrayIterator(s), s, ptr, TRUE)

RemoveEqual == /\ iter = Idle
               /\ \E ptr \in Pointers : \/ items' = removeOne_PtrArray(items, ptr)
                                        \/ items' = removeAll_PtrArray(items, ptr)
               /\ UNCHANGED <<iter, given, visited>>

Next == \/ \E pos \in 0..MaxItems, item \in Items : insert_PtrArray(pos, item)
        \/ Iterate \/ Step \/ RemoveHere \/ Leave \/ RemoveEqual

-----------------------------------------------------------------------------

(* An iterator visits every element that was there, once and in its order,   *)
(* whichever of them are removed on the way; a search finds the first of     *)
(* equal pointers, and removing takes that one, or all of them and nothing   *)
(* else.                                                                     *)
VisitsAll ==
  /\ iter # Idle =>
       LET order == IF iter.kind \in {"forward", "const"} THEN given ELSE Reverse(given)
       IN  visited = (IF iter.value = NULL THEN order ELSE SubSeq(order, 1, Len(visited)))
  /\ iter = Idle => \A ptr \in Pointers :
       LET first == SelectInSeq(items, LAMBDA item : item.ptr = ptr)
       IN  /\ indexOf_PtrArray(items, ptr) = first - 1
           /\ removeOne_PtrArray(items, ptr) = IF first = 0 THEN items ELSE RemoveAt(items, first)
           /\ removeAll_PtrArray(items, ptr) = SelectSeq(items, LAMBDA item : item.ptr # ptr)
=============================================================================
