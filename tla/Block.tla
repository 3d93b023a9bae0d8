------------------------------- MODULE Block -------------------------------
(* Blocks of bytes that share their data until one of them is changed        *)
(* (block.c): a handle points to a reference-counted cell with its bytes and *)
(* the room allocated for them; the empty cell is static and never written.  *)
(* Every function that changes a block first detaches it from a shared cell. *)
(* Each action is a function of the file; "want" is what the block should    *)
(* hold, were every block a value of its own.                                *)
EXTENDS Naturals, Sequences, SequencesExt

CONSTANTS Handles,        \* the program's blocks
          Bytes,          \* the values of a byte; 0 is one
          MaxSize,        \* bound on the size of a block
          FirstAlloc      \* the first power of two allocated, 8 in the code

VARIABLES mem, want       \* cells and handles; the expected values

blockVars == <<mem, want>>

Empty == 0
Cells == 1..Cardinality(Handles)
Dead == Cardinality(Handles) + 1     \* no cell

Data == UNION {[1..n -> Bytes] : n \in 0..MaxSize}
Zeros(n) == [i \in 1..n |-> 0]
Least(m, n) == IF m < n THEN m ELSE n
Most(m, n) == IF m > n THEN m ELSE n

Init == /\ mem = [cell |-> [c \in {Empty} \cup Cells |->
                              [refs |-> IF c = Empty THEN 1 ELSE 0, bytes |-> <<>>, alloc |-> 1]],
                  handle |-> [h \in Handles |-> Dead]]
        /\ want = [h \in Handles |-> <<>>]

(* A cell without references is not there, whatever it holds.                *)
Free(m) == CHOOSE c \in Cells : m.cell[c].refs = 0
CellOf(m, h) == m.cell[m.handle[h]]
ValueOf(m, h) == IF m.handle[h] = Dead THEN <<>> ELSE CellOf(m, h).bytes

allocSize_(n) == CHOOSE s \in {FirstAlloc * 2^k : k \in 0..MaxSize} :
                   s > n /\ (s = FirstAlloc \/ s \div 2 <= n)

addRef(m, h, c) == [m EXCEPT !.cell[c].refs = @ + 1, !.handle[h] = c]

(* The last reference frees the cell.                                        *)
deref_BlockData_(m, h) ==
  LET c == m.handle[h]
      one == [m EXCEPT !.cell[c].refs = @ - 1, !.handle[h] = Dead]
  IN  IF one.cell[c].refs = 0 THEN [one EXCEPT !.cell[c].bytes = <<>>, !.cell[c].alloc = 1]
      ELSE one

new_BlockData_(m, h, s, alloc) ==
  LET c == Free(m)
  IN  [m EXCEPT !.handle[h] = c,
                !.cell[c] = [refs |-> 1, bytes |-> s, alloc |-> Most(Len(s) + 1, alloc)]]

init_Block(m, h, s) ==
  IF s = <<>> THEN addRef(m, h, Empty) ELSE new_BlockData_(m, h, s, 0)

\* Mutant: data that has the room is changed where it is.
DetachToGrow(m, h, alloc) ==
  IF CellOf(m, h).refs > 1 /\ alloc > CellOf(m, h).alloc
  THEN new_BlockData_(deref_BlockData_(m, h), h, CellOf(m, h).bytes, alloc) ELSE m

detach_Block_(m, h, alloc) ==
  IF CellOf(m, h).refs > 1
  THEN new_BlockData_(deref_BlockData_(m, h), h, CellOf(m, h).bytes, alloc) ELSE m

reserve_Block(m, h, n) ==
  LET own == detach_Block_(m, h, allocSize_(n))
  IN  IF CellOf(own, h).alloc >= n + 1 THEN own
      ELSE [own EXCEPT !.cell[own.handle[h]].alloc = allocSize_(n)]

(* Writes in place: whoever shares the cell sees it.                         *)
Write(m, h, s) == [m EXCEPT !.cell[m.handle[h]].bytes = s]

-----------------------------------------------------------------------------
(* The operations: the block h becomes s by way of the memory m.             *)

Becomes(h, s, m) == mem' = m /\ want' = [want EXCEPT ![h] = s]
Live(h) == mem.handle[h] # Dead
Value(h) == ValueOf(mem, h)
Fits(s) == Len(s) <= MaxSize

(* A literal, a copy of a block that shares its data, and the results that   *)
(* are new blocks.                                                           *)
initData_Block(h, s) == ~Live(h) /\ Becomes(h, s, init_Block(mem, h, s))
initCopy_Block(h, g) == ~Live(h) /\ Live(g) /\ Becomes(h, want[g], addRef(mem, h, mem.handle[g]))
deinit_Block(h) == Live(h) /\ Becomes(h, <<>>, deref_BlockData_(mem, h))

mid_Block(h, g, start, count) ==
  /\ ~Live(h) /\ Live(g)
  /\ LET n == Len(Value(g))
         size == IF start >= n THEN 0 ELSE Least(count, n - start)
     IN  Becomes(h, SubSeq(want[g], start + 1, Least(start + count, Len(want[g]))),
                 init_Block(mem, h, [i \in 1..size |-> Value(g)[start + i]]))

concat_Block(h, f, g) == /\ ~Live(h) /\ Live(f) /\ Live(g) /\ Fits(Value(f) \o Value(g))
                         /\ Becomes(h, want[f] \o want[g], init_Block(mem, h, Value(f) \o Value(g)))

set_Block(h, g) == /\ Live(h) /\ Live(g)
                   /\ Becomes(h, want[g], IF mem.handle[h] = mem.handle[g] THEN mem
                                          ELSE addRef(deref_BlockData_(mem, h), h, mem.handle[g]))

clear_Block(h) == Live(h) /\ Becomes(h, <<>>, addRef(deref_BlockData_(mem, h), h, Empty))

setData_Block(h, s) == /\ Live(h) /\ s # <<>>
                       /\ Becomes(h, s, Write(reserve_Block(mem, h, Len(s)), h, s))

truncate_Block(h, n) == /\ Live(h)
                        /\ Becomes(h, SubSeq(want[h], 1, Least(n, Len(want[h]))),
                                   IF n >= Len(Value(h)) THEN mem
                                   ELSE Write(detach_Block_(mem, h, 0), h, SubSeq(Value(h), 1, n)))

resize_Block(h, n) == /\ Live(h) /\ n >= Len(Value(h))
                      /\ Becomes(h, want[h] \o Zeros(n - Len(want[h])),
                                 Write(reserve_Block(mem, h, n), h,
                                       Value(h) \o Zeros(n - Len(Value(h)))))

(* Also popBack_Block, at the end; a count that is too large is cut.         *)
remove_Block(h, start, count) ==
  LET end == Least(start + count, Len(Value(h)))
      rest(s) == SubSeq(s, 1, start) \o SubSeq(s, end + 1, Len(s))
  IN  /\ Live(h) /\ start <= Len(Value(h))
      /\ Becomes(h, rest(want[h]), Write(detach_Block_(mem, h, 0), h, rest(Value(h))))

(* fill_Block, setByte_Block and replace_Block: each byte becomes f of it.   *)
MapBytes(h, f) == /\ Live(h)
                  /\ Becomes(h, [i \in DOMAIN want[h] |-> f[want[h][i]]],
                             Write(detach_Block_(mem, h, 0), h,
                                   [i \in DOMAIN Value(h) |-> f[Value(h)[i]]]))

fill_Block(h, b) == MapBytes(h, [c \in Bytes |-> b])
replace_Block(h, a, b) == MapBytes(h, [c \in Bytes |-> IF c = a THEN b ELSE c])

(* Also pushBack_Block and appendData_Block, at the end.                     *)
insertData_Block(h, pos, s) ==
  LET new(t) == SubSeq(t, 1, pos) \o s \o SubSeq(t, pos + 1, Len(t))
  IN  /\ Live(h) /\ pos <= Len(Value(h)) /\ Fits(new(Value(h)))
      /\ Becomes(h, new(want[h]),
                 Write(reserve_Block(mem, h, Len(Value(h)) + Len(s)), h, new(Value(h))))

(* The source is the other block's cell, located before the room is made.    *)
(* Appended to itself, a block that is not shared must have the room         *)
(* already: the reallocation would take the source away.                     *)
append_Block(h, g) ==
  LET n == Len(Value(h)) + Len(Value(g))
      m == reserve_Block(mem, h, n)
  IN  /\ Live(h) /\ Live(g) /\ n <= MaxSize
      /\ h = g /\ CellOf(mem, h).refs = 1 => CellOf(mem, h).alloc > n
      /\ Becomes(h, want[h] \o want[g],
                 Write(m, h, CellOf(m, h).bytes \o m.cell[mem.handle[g]].bytes))

setSubData_Block(h, pos, s) ==
  LET new(t) == SubSeq(t, 1, pos) \o s \o SubSeq(t, pos + Len(s) + 1, Len(t))
  IN  /\ Live(h) /\ pos <= Len(Value(h)) /\ pos + Len(s) <= MaxSize
      /\ Becomes(h, new(want[h]),
                 Write(reserve_Block(mem, h, pos + Len(s)), h, new(Value(h))))

Next ==
  \E h \in Handles :
    \/ deinit_Block(h) \/ clear_Block(h)
    \/ \E s \in Data : \/ initData_Block(h, s) \/ setData_Block(h, s)
                       \/ \E pos \in 0..MaxSize : insertData_Block(h, pos, s)
                                                  \/ setSubData_Block(h, pos, s)
    \/ \E n \in 0..MaxSize : \/ truncate_Block(h, n) \/ resize_Block(h, n)
                             \/ \E k \in 0..MaxSize : remove_Block(h, n, k)
    \/ \E b \in Bytes : fill_Block(h, b) \/ \E a \in Bytes : replace_Block(h, a, b)
    \/ \E g \in Handles : \/ initCopy_Block(h, g) \/ set_Block(h, g) \/ append_Block(h, g)
                          \/ \E f \in Handles : concat_Block(h, f, g)
                          \/ \E n, k \in 0..MaxSize : mid_Block(h, g, n, k)

-----------------------------------------------------------------------------

(* Sharing is invisible: a block holds what it would hold if every block     *)
(* were a value of its own, whatever was done to the blocks it was copied    *)
(* from or to; references are counted, the static empty cell stays empty,    *)
(* and there is room for the terminating zero.                               *)
BlocksAreValues ==
  /\ \A h \in Handles : Value(h) = want[h]
  /\ \A c \in Cells : mem.cell[c].refs = Cardinality({h \in Handles : mem.handle[h] = c})
  /\ mem.cell[Empty].bytes = <<>>
  /\ \A c \in Cells : mem.cell[c].alloc > Len(mem.cell[c].bytes)
=============================================================================
