----------------------------- MODULE Collections -----------------------------
(* Arrays of strings (stringarray.c), sets of numbers (intset.c) and sets of *)
(* objects (ptrset.c), and how they are written to a stream and read again   *)
(* (stream.c, block.c). A number in a stream is one cell, as is a byte of a  *)
(* string. Strings have a reference each from where they are: "live" is how  *)
(* many are initialised, "taken" those the caller has been given.            *)
EXTENDS Integers, Sequences, SequencesExt

CONSTANTS Texts,             \* what a string may hold: sequences of bytes
          Ints,              \* the numbers
          Addresses,         \* of objects
          MaxStrings         \* bound on the strings of an array

VARIABLES strings, dest,     \* the array, and one strings are moved to
          live, taken,
          ints,              \* in their order
          pointers           \* the set of objects: a function from addresses to what they hold

stringVars == <<strings, dest, live, taken>>
Undefined == -1              \* a byte that was not read

Init == /\ strings = <<>> /\ dest = <<>> /\ live = 0 /\ taken = 0
        /\ ints = <<>> /\ pointers = [a \in {} |-> 0]

-----------------------------------------------------------------------------
(* Arrays of strings.                                                        *)

insert_StringArray(pos, s) ==      \* and pushBack_, pushFront_StringArray
  /\ strings' = InsertAt(strings, pos, s) /\ live' = live + 1 /\ UNCHANGED <<dest, taken>>

set_StringArray(pos, s) == strings' = [strings EXCEPT ![pos] = s] /\ UNCHANGED <<dest, live, taken>>

(* The caller gets a copy, and the array's own string ends.                  *)
take_StringArray(pos) ==
  /\ strings' = RemoveAt(strings, pos) /\ taken' = taken + 1 /\ UNCHANGED <<dest, live>>
remove_StringArray(pos) ==
  /\ strings' = RemoveAt(strings, pos) /\ live' = live - 1 /\ UNCHANGED <<dest, taken>>
delete_String == taken > 0 /\ taken' = taken - 1 /\ live' = live - 1 /\ UNCHANGED <<strings, dest>>

resize_StringArray(size) ==
  LET n == Len(strings)
  IN  /\ strings' = IF size < n THEN SubSeq(strings, 1, size)
                    ELSE strings \o [i \in 1..size - n |-> <<>>]
      /\ live' = IF size < n THEN live - Cardinality(size + 1..n) ELSE live + Cardinality(n + 1..size)
      /\ UNCHANGED <<dest, taken>>
clear_StringArray == strings' = <<>> /\ live' = live - Len(strings) /\ UNCHANGED <<dest, taken>>

(* The strings go without being copied.                                      *)
move_StringArray(start, end, pos) ==
  /\ dest' = SubSeq(dest, 1, pos) \o SubSeq(strings, start + 1, end) \o SubSeq(dest, pos + 1, Len(dest))
  /\ strings' = SubSeq(strings, 1, start) \o SubSeq(strings, end + 1, Len(strings))
  /\ UNCHANGED <<live, taken>>

StringStep ==
  LET n == Len(strings)
      hasRoom == n + Len(dest) + taken < MaxStrings
  IN  \/ hasRoom /\ \E pos \in 1..n + 1, s \in Texts : insert_StringArray(pos, s)
      \/ \E pos \in 1..n : (\E s \in Texts : set_StringArray(pos, s)) \/ take_StringArray(pos)
                           \/ remove_StringArray(pos)
      \/ \E size \in 0..MaxStrings - Len(dest) - taken : resize_StringArray(size)
      \/ \E start \in 0..n, end \in 0..n, pos \in 0..Len(dest) : start < end /\ move_StringArray(start, end, pos)
      \/ clear_StringArray \/ delete_String

-----------------------------------------------------------------------------
(* Sets. Numbers are in the order of a comparison, by default their own.     *)

insert_IntSet(set, i) == LET before == SelectSeq(set, LAMBDA j : j < i)
                         IN  before \o <<i>> \o SelectSeq(set, LAMBDA j : j > i)
remove_IntSet(set, i) == SelectSeq(set, LAMBDA j : j # i)

insert_PtrSet(set, a, x) == [b \in DOMAIN set \cup {a} |-> IF b = a THEN x ELSE set[b]]
remove_PtrSet(set, a) == [b \in DOMAIN set \ {a} |-> set[b]]

SetStep == \/ \E i \in Ints : /\ \/ ints' = insert_IntSet(ints, i) \/ ints' = remove_IntSet(ints, i)
                              /\ UNCHANGED pointers
           \/ \E a \in Addresses : /\ \/ \E i \in Ints : pointers' = insert_PtrSet(pointers, a, i)
                                      \/ pointers' = remove_PtrSet(pointers, a)
                                   /\ UNCHANGED ints

(* The model has strings or sets, not both.                                  *)
Next == \/ ints = <<>> /\ DOMAIN pointers = {} /\ StringStep /\ UNCHANGED <<ints, pointers>>
        \/ live = 0 /\ SetStep /\ UNCHANGED stringVars

-----------------------------------------------------------------------------
(* Writing and reading. Past the end a number is read as 0.                  *)

Number(stream, pos) == IF pos <= Len(stream) THEN stream[pos] ELSE 0

serialize_Block(s) == <<Len(s)>> \o s
deserialize_Block(stream, pos) ==
  [i \in 1..Number(stream, pos) |-> IF pos + i <= Len(stream) THEN stream[pos + i] ELSE Undefined]

serialize_StringArray == <<Len(strings)>> \o FlattenSeq([i \in DOMAIN strings |-> serialize_Block(strings[i])])
RECURSIVE StringsFrom(_, _, _)
StringsFrom(stream, pos, n) ==
  IF n = 0 \/ pos > Len(stream) THEN <<>>
  ELSE LET s == deserialize_Block(stream, pos)
       IN  <<s>> \o StringsFrom(stream, pos + 1 + Len(s), n - 1)
deserialize_StringArray(stream) == StringsFrom(stream, 2, Number(stream, 1))

serialize_IntSet == <<Len(ints)>> \o ints
deserialize_IntSet(stream) ==
  FoldLeft(insert_IntSet, <<>>, [i \in 1..Number(stream, 1) |-> Number(stream, i + 1)])

(* The objects are written in the order of their addresses, and each is read *)
(* into a new one, at the address "at" gives.                                *)
serializeObjects_PtrSet ==
  LET order == SetToSortSeq(DOMAIN pointers, <)
  IN  <<Len(order)>> \o [i \in DOMAIN order |-> pointers[order[i]]]
deserializeObjects_PtrSet(stream, at) ==
  FoldLeft(LAMBDA set, i : insert_PtrSet(set, at[i], Number(stream, i + 1)),
           [a \in {} |-> 0], [i \in 1..Number(stream, 1) |-> i])

Count(set, x) == Cardinality({a \in DOMAIN set : set[a] = x})

-----------------------------------------------------------------------------

(* Every string that was initialised is in an array or the caller's; an      *)
(* array or a set that was written is read as it was, objects at whatever    *)
(* addresses; and from a stream that lost its end come only strings that     *)
(* were written, but for the last, and no number but 0 that was not in the   *)
(* set.                                                                      *)
CollectionsAreKept ==
  LET written == serialize_StringArray
      numbers == serialize_IntSet
      objects == serializeObjects_PtrSet
  IN  /\ live = Len(strings) + Len(dest) + taken
      /\ deserialize_StringArray(written) = strings
      /\ \A k \in 0..Len(written) - 1 :
           LET got == deserialize_StringArray(SubSeq(written, 1, k))
           IN  Len(got) <= Len(strings) /\ (got # <<>> => IsPrefix(Front(got), strings))
      /\ deserialize_IntSet(numbers) = ints
      /\ \A k \in 0..Len(numbers) - 1 :
           Range(deserialize_IntSet(SubSeq(numbers, 1, k))) \subseteq Range(ints) \cup {0}
      /\ \A at \in Permutations(Addresses) :
           LET place == [i \in 1..Cardinality(Addresses) |-> at[SetToSortSeq(Addresses, <)[i]]]
               got == deserializeObjects_PtrSet(objects, place)
           IN  \A x \in Ints : Count(got, x) = Count(pointers, x)
=============================================================================
