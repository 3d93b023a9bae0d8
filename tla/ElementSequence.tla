--------------------------- MODULE ElementSequence ---------------------------
(***************************************************************************)
(* What an iArray promises (array.h): a sequence of elements, in which     *)
(* runs of elements are inserted, removed and overwritten anywhere, and    *)
(* which can be cut or padded with zeros.  Positions count from zero.      *)
(***************************************************************************)
EXTENDS Naturals, Sequences

CONSTANTS Runs,   \* the runs of elements that are added at once
          Zero,   \* what a sequence is padded with
          Sizes   \* the lengths it can be given

VARIABLE elements

Positions == 0..Len(elements)

Init == elements = <<>>

Insert(pos, run) == elements' = SubSeq(elements, 1, pos) \o run
                                \o SubSeq(elements, pos + 1, Len(elements))

Remove(pos, count) ==
  /\ pos + count <= Len(elements)
  /\ elements' = SubSeq(elements, 1, pos) \o SubSeq(elements, pos + count + 1, Len(elements))

Overwrite(pos, run) ==
  /\ pos + Len(run) <= Len(elements)
  /\ elements' = [i \in 1..Len(elements) |->
                    IF i - pos \in 1..Len(run) THEN run[i - pos] ELSE elements[i]]

Resize(size) ==
  elements' = [i \in 1..size |-> IF i <= Len(elements) THEN elements[i] ELSE Zero]

Next == \/ \E pos \in Positions, run \in Runs : Insert(pos, run) \/ Overwrite(pos, run)
        \/ \E pos, count \in Positions : Remove(pos, count)
        \/ \E size \in Sizes : Resize(size)

Spec == Init /\ [][Next]_elements
=============================================================================
