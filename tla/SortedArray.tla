---------------------------- MODULE SortedArray ----------------------------
(***************************************************************************)
(* An iSortedArray (sortedarray.c): elements in the order of a comparison, *)
(* no two equal, found by halving.  An element is [major, minor, tag]: the *)
(* array's own comparison looks at major and minor, a relaxed one at major *)
(* only, and none at the tag.                                              *)
(***************************************************************************)
EXTENDS Integers, Sequences

CONSTANTS Majors, Minors, Tags

VARIABLE values   \* the elements; positions count from zero, as in C

Elements == [major : Majors, minor : Minors, tag : Tags]

Init == values = <<>>

at_SortedArray(pos) == values[pos + 1]

Strict(a, b) == IF a.major # b.major THEN a.major - b.major ELSE a.minor - b.minor

cmpFunc(relaxed, a, b) == IF relaxed THEN a.major - b.major ELSE Strict(a, b)

-----------------------------------------------------------------------------

RECURSIVE locate_SortedArray(_, _, _)
locate_SortedArray(value, start, end) ==
  LET mid == (start + end) \div 2
      cmp == Strict(value, at_SortedArray(mid))
  IN  IF start = end THEN [found |-> FALSE, pos |-> start]
      ELSE IF cmp = 0 THEN [found |-> TRUE, pos |-> mid]
      ELSE IF cmp > 0 THEN locate_SortedArray(value, mid + 1, end)
      ELSE locate_SortedArray(value, start, mid)

\* The first position in a span whose element compares at least as given.
RECURSIVE Halve(_, _, _, _, _)
Halve(value, relaxed, least, start, end) ==
  LET mid == (start + end) \div 2
  IN  IF start = end THEN start
      ELSE IF cmpFunc(relaxed, at_SortedArray(mid), value) >= least
        THEN Halve(value, relaxed, least, start, mid)
      ELSE Halve(value, relaxed, least, mid + 1, end)

locateRange_SortedArray(value, relaxed) ==
  LET n == Len(values)
  IN  IF n = 0 THEN [start |-> 0, end |-> 0]
      ELSE IF cmpFunc(relaxed, value, at_SortedArray(0)) < 0 THEN [start |-> 0, end |-> 0]
      ELSE IF cmpFunc(relaxed, value, at_SortedArray(n - 1)) > 0
        THEN [start |-> n, end |-> n]
      ELSE [start |-> Halve(value, relaxed, 0, 0, n), end |-> Halve(value, relaxed, 1, 0, n)]

-----------------------------------------------------------------------------

Without(start, end) == SubSeq(values, 1, start) \o SubSeq(values, end + 1, Len(values))

\* The caller's predicate decides whether an equal element is replaced.
insertIf_SortedArray(value, replaces) ==
  LET at == locate_SortedArray(value, 0, Len(values))
  IN  IF ~at.found THEN values' = SubSeq(values, 1, at.pos) \o <<value>>
                                  \o SubSeq(values, at.pos + 1, Len(values))
      ELSE IF replaces THEN values' = [values EXCEPT ![at.pos + 1] = value]
      ELSE UNCHANGED values

remove_SortedArray(value) ==
  LET at == locate_SortedArray(value, 0, Len(values))
  IN  /\ at.found
      /\ values' = Without(at.pos, at.pos + 1)

\* The callers remove the range they have located.
removeRange_SortedArray(value) ==
  LET range == locateRange_SortedArray(value, TRUE)
  IN  values' = Without(range.start, range.end)

clear_SortedArray == values' = <<>>

Next == \/ \E value \in Elements : \/ \E replaces \in BOOLEAN :
                                        insertIf_SortedArray(value, replaces)
                                   \/ remove_SortedArray(value)
                                   \/ removeRange_SortedArray(value)
        \/ clear_SortedArray

-----------------------------------------------------------------------------

Matching(value, relaxed) ==
  {pos \in 0..(Len(values) - 1) : cmpFunc(relaxed, value, at_SortedArray(pos)) = 0}

(* The elements are in order with none equal, and a search by either       *)
(* comparison finds just the elements that match, an empty range if none   *)
(* does (sortedarray.h).                                                   *)
SearchIsExact ==
  /\ \A i \in 1..(Len(values) - 1) : Strict(values[i], values[i + 1]) < 0
  /\ \A v \in Elements, relaxed \in BOOLEAN :
       LET range == locateRange_SortedArray(v, relaxed)
       IN  Matching(v, relaxed) = range.start..(range.end - 1)
=============================================================================
