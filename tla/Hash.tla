-------------------------------- MODULE Hash --------------------------------
(***************************************************************************)
(* An iHash (hash.c): a trie of buckets.  A bucket is named by the way to  *)
(* it, the digits of a key from the lowest; a full one is split into       *)
(* children, and children are trimmed when all of them are empty.          *)
(***************************************************************************)
EXTENDS Integers, SequencesExt, FiniteSetsExt

CONSTANTS Nodes,         \* the caller's nodes
          Key,           \* the key of each: two nodes may have the same
          Fanout,        \* iHashBucketChildCount
          iHashMaxNodes,
          KeyDigits,     \* how many digits a key has
          None           \* no node

VARIABLES buckets,   \* the list of nodes of each bucket
          size,
          cursor,    \* the iterator: [value, next, bucket]
          present,   \* the nodes the caller has put in and not got back
          ahead      \* those that the iterator has yet to visit

hashVars == <<buckets, size, cursor, present, ahead>>

Root == <<>>
Digits == 0..(Fanout - 1)

Idle == [value |-> None, next |-> None, bucket |-> Root]

Init == /\ buckets = (Root :> <<>>) /\ size = 0
        /\ cursor = Idle /\ present = {} /\ ahead = {}

-----------------------------------------------------------------------------
(* Buckets.                                                                *)

Digit(key, depth) == (key \div Fanout^depth) % Fanout

Way(key, depth) == [i \in 1..depth |-> Digit(key, i - 1)]

Children(b) == {Append(b, i) : i \in Digits}

isBranch_HashBucket_(bs, b) == Append(b, 0) \in DOMAIN bs

isEmpty_HashBucket_(bs, b) == bs[b] = <<>> /\ ~isBranch_HashBucket_(bs, b)

find_HashBucket_(bs, key) ==
  Way(key, Max({d \in 0..KeyDigits : Way(key, d) \in DOMAIN bs}))

Matches(list, key) == SelectSeq(list, LAMBDA n : Key[n] = key)
Others(list, key) == SelectSeq(list, LAMBDA n : Key[n] # key)

value_Hash(key) ==
  LET found == Matches(buckets[find_HashBucket_(buckets, key)], key)
  IN  IF found = <<>> THEN None ELSE Head(found)

\* Each node goes to the front of the list of its child.
split_HashBucket_(bs, b) ==
  LET moved(i) == Reverse(SelectSeq(bs[b], LAMBDA n : Digit(Key[n], Len(b)) = i))
  IN  [c \in DOMAIN bs \cup Children(b) |->
         IF c = b THEN <<>> ELSE IF c \in Children(b) THEN moved(Last(c)) ELSE bs[c]]

\* The buckets without the empty ones beside b, and what is left of b.
RECURSIVE trim_HashBucket_(_, _)
trim_HashBucket_(bs, b) ==
  IF b # Root /\ \A c \in Children(Front(b)) : isEmpty_HashBucket_(bs, c)
    THEN trim_HashBucket_([c \in DOMAIN bs \ Children(Front(b)) |-> bs[c]], Front(b))
    ELSE [buckets |-> bs, bucket |-> b]

remove_HashBucket_(b, key) ==
  LET bs == [buckets EXCEPT ![b] = Others(@, key)]
  IN  IF bs[b] = <<>> /\ buckets[b] # <<>> THEN trim_HashBucket_(bs, b)
      ELSE [buckets |-> bs, bucket |-> b]

-----------------------------------------------------------------------------
(* Operations.                                                             *)

\* The nodes before the one that makes way decide whether to split.
insert_Hash(n) ==
  LET key      == Key[n]
      b        == find_HashBucket_(buckets, key)
      at       == SelectInSeq(buckets[b], LAMBDA m : Key[m] = key)
      nodeSize == IF at = 0 THEN Len(buckets[b]) ELSE at - 1
      cleared  == [buckets EXCEPT ![b] = Others(@, key)]
      room     == IF nodeSize >= iHashMaxNodes THEN split_HashBucket_(cleared, b) ELSE cleared
  IN  /\ buckets' = [room EXCEPT ![find_HashBucket_(room, key)] = <<n>> \o @]
      /\ size' = IF at = 0 THEN size + 1 ELSE size
      /\ present' = (present \ {value_Hash(key)}) \cup {n}
      /\ UNCHANGED <<cursor, ahead>>

remove_Hash(key) ==
  /\ buckets' = remove_HashBucket_(find_HashBucket_(buckets, key), key).buckets
  /\ size' = IF value_Hash(key) = None THEN size ELSE size - 1
  /\ present' = present \ {value_Hash(key)}
  /\ UNCHANGED <<cursor, ahead>>

clear_Hash == /\ buckets' = (Root :> <<>>) /\ size' = 0 /\ present' = {}
              /\ UNCHANGED <<cursor, ahead>>

-----------------------------------------------------------------------------
(* Iteration.                                                              *)

Before(b, c) == \E i \in 1..Min({Len(b), Len(c)}) :
                  b[i] < c[i] /\ \A j \in 1..(i - 1) : b[j] = c[j]

\* The first bucket with nodes among some, in the order of the digits.
firstInOrder_HashBucket_(some) ==
  LET listed == {b \in some : buckets[b] # <<>>}
  IN  {b \in listed : \A c \in listed \ {b} : Before(b, c)}

nextInOrder_HashBucket_(b) ==
  firstInOrder_HashBucket_({c \in DOMAIN buckets : Before(b, c)})

\* The node after n in the list of a bucket.
NextOf(b, n) ==
  LET at == SelectInSeq(buckets[b], LAMBDA m : m = n)
  IN  IF at < Len(buckets[b]) THEN buckets[b][at + 1] ELSE None

\* The iterator at the start of the bucket in a set of at most one.
Enter(bs) ==
  IF bs = {} THEN Idle
  ELSE LET b == CHOOSE c \in bs : TRUE
       IN  [value |-> Head(buckets[b]), bucket |-> b, next |-> NextOf(b, Head(buckets[b]))]

init_HashIterator ==
  /\ cursor' = Enter(firstInOrder_HashBucket_(DOMAIN buckets))
  /\ ahead' = present \ {cursor'.value}
  /\ UNCHANGED <<buckets, size, present>>

next_HashIterator ==
  /\ cursor.value # None
  /\ cursor' = IF cursor.next # None
                 THEN [cursor EXCEPT !.value = cursor.next,
                                     !.next = NextOf(cursor.bucket, cursor.next)]
               ELSE Enter(nextInOrder_HashBucket_(cursor.bucket))
  /\ ahead' = ahead \ {cursor'.value}
  /\ UNCHANGED <<buckets, size, present>>

\* The bucket may be trimmed away, and the iterator goes up with it.
remove_HashIterator ==
  /\ cursor.value \in present
  /\ LET r == remove_HashBucket_(cursor.bucket, Key[cursor.value])
     IN  buckets' = r.buckets /\ cursor' = [cursor EXCEPT !.bucket = r.bucket]
  /\ size' = size - 1
  /\ present' = present \ {cursor.value}
  /\ UNCHANGED ahead

-----------------------------------------------------------------------------

\* While it iterates, the caller changes the hash through the iterator only.
Next == \/ /\ cursor.value = None
           /\ \/ \E n \in Nodes \ present : insert_Hash(n)
              \/ \E n \in Nodes : remove_Hash(Key[n])
              \/ clear_Hash
              \/ init_HashIterator
        \/ next_HashIterator
        \/ remove_HashIterator

-----------------------------------------------------------------------------

(* value_Hash finds exactly the caller's nodes, however their buckets were *)
(* split and trimmed, and the size is their number; no bucket is deeper    *)
(* than a key has digits, where the shift of split_HashBucket_ is void.    *)
HashFindsPresent ==
  /\ size = Cardinality(present)
  /\ \A n \in Nodes : LET k == Key[n]
                      IN  {m \in present : Key[m] = k} = {value_Hash(k)} \ {None}
  /\ \A b \in DOMAIN buckets : Len(b) <= KeyDigits

(* An iteration comes to every node once, and ends when it has been at all *)
(* of them, though nodes are removed and buckets trimmed on the way.       *)
VisitsEach ==
  [][next_HashIterator => IF cursor'.value = None THEN ahead = {}
                          ELSE cursor'.value \in ahead]_hashVars
=============================================================================
