------------------------------- MODULE Array -------------------------------
(***************************************************************************)
(* An iArray (array.c): a window of elements in an allocation, which moves *)
(* in it and grows at both ends.  Positions count from zero, as in C.      *)
(***************************************************************************)
EXTENDS Integers, Sequences, FiniteSetsExt

CONSTANTS Values,    \* the elements
          Zero,      \* the one whose bytes are all zero
          Garbage,   \* memory outside the window
          MaxRun,    \* bound of the models: elements added at once
          MaxSize    \* bound of the models: elements

ASSUME ArrayAssumption == /\ Zero \in Values /\ Garbage \notin Values
                          /\ MaxRun \in Nat /\ MaxSize \in Nat

VARIABLE array       \* [alloc, start, end, mem]: allocSize, range, data

iArrayMinAlloc == 4

Runs == UNION {[1..n -> Values] : n \in 1..MaxRun}

size_Array(d) == d.end - d.start

Elements(d) == [i \in 1..size_Array(d) |-> d.mem[d.start + i - 1]]

Init == array = [alloc |-> 0, start |-> 0, end |-> 0, mem |-> <<>>]

-----------------------------------------------------------------------------
(* Memory.                                                                 *)

(* moveElements_Array_: memmove() of the elements in from..to-1.           *)
moveElements_Array_(mem, from, to, delta) ==
  [i \in DOMAIN mem |-> IF i - delta \in from..(to - 1) THEN mem[i - delta] ELSE mem[i]]

Write(mem, at, run) ==
  [i \in DOMAIN mem |-> IF i - at + 1 \in DOMAIN run THEN run[i - at + 1] ELSE mem[i]]

shift_Array_(d, delta) ==
  [d EXCEPT !.start = @ + delta, !.end = @ + delta,
            !.mem = moveElements_Array_(@, d.start, d.end, delta)]

(* reserve_Array: the allocation is doubled until it suffices.             *)
reserve_Array(d, reserved) ==
  LET least   == IF d.alloc = 0 THEN iArrayMinAlloc ELSE d.alloc
      newSize == Min({s \in {least * 2^k : k \in 0..reserved} : s >= reserved})
  IN  IF newSize > d.alloc
        THEN [d EXCEPT !.alloc = newSize,
                       !.mem = [i \in 0..(newSize - 1) |->
                                  IF i < d.alloc THEN d.mem[i] ELSE Garbage]]
        ELSE d

\* Division as in C, towards zero.
Half(n) == IF n >= 0 THEN n \div 2 ELSE -((-n) \div 2)

imbalance_Array_(d) ==
  LET left == d.start  right == d.alloc - d.end
  IN  IF /\ left > iArrayMinAlloc \/ right > iArrayMinAlloc
         /\ left > 2 * right \/ right > 2 * left
        THEN Half(right - left) ELSE 0

rebalance_Array_(d) ==
  IF size_Array(d) > 0 /\ (d.end = d.alloc \/ d.start = 0)
    THEN shift_Array_(d, imbalance_Array_(d)) ELSE d

-----------------------------------------------------------------------------
(* Operations on arrays.                                                   *)

AppendRun(d, run) ==
  LET overrun == d.end + Len(run) - d.alloc
      e       == IF overrun > 0 THEN shift_Array_(d, -overrun) ELSE d
  IN  [e EXCEPT !.end = @ + Len(run), !.mem = Write(@, e.end, run)]

PrependRun(d, run) ==
  LET overrun == Len(run) - d.start
      e       == IF overrun > 0 THEN shift_Array_(d, overrun) ELSE d
  IN  [e EXCEPT !.start = @ - Len(run), !.mem = Write(@, e.start - Len(run), run)]

\* Mutant: the last element before the split stays behind.
SplitLeavesOne(d, split, run) ==
  LET n     == Len(run)
      right == IF n < d.start THEN 0 ELSE Min({n, d.alloc - d.end})
      left  == Min({n - right, d.start})
      moved == moveElements_Array_(moveElements_Array_(d.mem, d.start, split - 1, -left),
                                   split, d.end, right)
  IN  [d EXCEPT !.start = @ - left, !.end = @ + right,
                !.mem = Write(moved, split - left, run)]

(* In the middle: the shorter half makes room if it has more than enough   *)
(* of it, and else the second half as far as it can, then the first.       *)
SplitRun(d, split, run) ==
  LET n     == Len(run)
      first == split - d.start <= d.end - split /\ n < d.start
      right == IF first THEN 0 ELSE Min({n, d.alloc - d.end})
      left  == Min({n - right, d.start})
      moved == moveElements_Array_(moveElements_Array_(d.mem, d.start, split, -left),
                                   split, d.end, right)
  IN  [d EXCEPT !.start = @ - left, !.end = @ + right,
                !.mem = Write(moved, split - left, run)]

insertN_Array(d, pos, run) ==
  LET e     == reserve_Array(d, size_Array(d) + Len(run))
      split == e.start + pos
  IN  rebalance_Array_(IF split = e.end THEN AppendRun(e, run)
                       ELSE IF split = e.start THEN PrependRun(e, run)
                       ELSE SplitRun(e, split, run))

(* removeN_Array: a run at one end is cut off; else the part after it, if  *)
(* that is shorter, or the part before it is moved over it.                *)
removeN_Array(d, pos, count) ==
  LET at == d.start + pos
  IN  IF count = 0 THEN d
      ELSE IF at = d.end - count THEN [d EXCEPT !.end = @ - count]
      ELSE IF at = d.start THEN [d EXCEPT !.start = @ + count]
      ELSE IF pos > d.end - at
        THEN [d EXCEPT !.end = @ - count,
                       !.mem = moveElements_Array_(@, at + count, d.end, -count)]
        ELSE [d EXCEPT !.start = @ + count,
                       !.mem = moveElements_Array_(@, d.start, at, count)]

resize_Array(d, size) ==
  LET old   == size_Array(d)
      e     == reserve_Array(d, size)
      moved == IF e.start + size > e.alloc
                 THEN shift_Array_(e, (e.alloc - size) \div 2 - e.start) ELSE e
  IN  IF size <= old THEN [d EXCEPT !.end = d.start + size]
      ELSE [moved EXCEPT !.end = moved.start + size,
                         !.mem = [i \in DOMAIN @ |->
                                    IF i - moved.start \in old..(size - 1) THEN Zero ELSE @[i]]]

(* move_Array, at the destination: the run comes from another array, which *)
(* removes it.                                                             *)
move_Array(d, pos, run) ==
  LET e    == resize_Array(d, size_Array(d) + Len(run))
      room == moveElements_Array_(e.mem, e.start + pos, e.start + size_Array(d), Len(run))
  IN  [e EXCEPT !.mem = Write(room, e.start + pos, run)]

clear_Array(d) == [d EXCEPT !.start = d.alloc \div 2, !.end = d.alloc \div 2]

-----------------------------------------------------------------------------

(* The new state; what has been left outside the window is not kept.       *)
Becomes(d) ==
  array' = [d EXCEPT !.mem = [i \in DOMAIN @ |->
                                IF i \in d.start..(d.end - 1) THEN @[i] ELSE Garbage]]

Grow == \E pos \in 0..size_Array(array), run \in Runs :
          /\ size_Array(array) + Len(run) <= MaxSize
          /\ Becomes(insertN_Array(array, pos, run)) \/ Becomes(move_Array(array, pos, run))

Shrink == \E pos, count \in 0..size_Array(array) :
            /\ pos + count <= size_Array(array)
            /\ Becomes(removeN_Array(array, pos, count))

Set == \E pos \in 0..size_Array(array), run \in Runs :
         /\ pos + Len(run) <= size_Array(array)
         /\ Becomes([array EXCEPT !.mem = Write(@, array.start + pos, run)])

Resize == \E size \in 0..MaxSize : Becomes(resize_Array(array, size))

Clear == Becomes(clear_Array(array))

Next == Grow \/ Shrink \/ Set \/ Resize \/ Clear

Spec == Init /\ [][Next]_array

-----------------------------------------------------------------------------

Promise == INSTANCE ElementSequence
             WITH elements <- Elements(array), Sizes <- 0..MaxSize

(* Whatever is moved where in the allocation, the elements are those of a  *)
(* sequence with the same operations (array.h), and no other memory shows. *)
ImplementsSequence == Promise!Spec

-----------------------------------------------------------------------------
(* What makes it so: the window lies in the allocation, and has been       *)
(* written everywhere.                                                     *)

Shaped(d) == /\ d = [alloc |-> d.alloc, start |-> d.start, end |-> d.end, mem |-> d.mem]
             /\ {d.alloc, d.start, d.end} \subseteq Nat
             /\ d.start <= d.end /\ d.end <= d.alloc
             /\ d.mem \in [0..(d.alloc - 1) -> Values \cup {Garbage}]
             /\ \A i \in d.start..(d.end - 1) : d.mem[i] \in Values

WindowIsInside == Shaped(array)
=============================================================================
