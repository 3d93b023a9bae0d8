-------------------------------- MODULE Map --------------------------------
(***************************************************************************)
(* An iMap (map.c): a red-black tree of the caller's nodes, kept by key,   *)
(* and the iterators that remove nodes as they go.  The loops of the code  *)
(* are the recursive operators.                                            *)
(***************************************************************************)
EXTENDS Integers, FiniteSets

CONSTANTS Nodes,   \* the caller's nodes, positive numbers
          Key      \* the key of each: two nodes may have the same

VARIABLES map,       \* root, size, and the links and colours of the nodes
          iterator,  \* [dir, value, next]: dir 1 is forward, 0 is reverse
          held       \* the nodes the caller has put in and not got back

mapVars == <<map, iterator, held>>

NULL == 0
Sides == 0..1      \* 0 is left
NoLinks == [s \in Sides |-> NULL]

EmptyMap == [root |-> NULL, size |-> 0, red |-> [n \in Nodes |-> FALSE],
             parent |-> [n \in Nodes |-> NULL], child |-> [n \in Nodes |-> NoLinks]]

Init == /\ map = EmptyMap
        /\ iterator = [dir |-> 1, value |-> NULL, next |-> NULL]
        /\ held = {}

-----------------------------------------------------------------------------
(* Links and colours.                                                      *)

isRed_MapNode_(t, n) == n # NULL /\ t.red[n]
isBlack_MapNode_(t, n) == ~isRed_MapNode_(t, n)
BothChildrenBlack(t, n) == n = NULL \/ \A s \in Sides : isBlack_MapNode_(t, t.child[n][s])

\* The side of its parent that a node is on.
Side(t, n) == IF t.parent[n] # NULL /\ t.child[t.parent[n]][0] = n THEN 0 ELSE 1

sibling_MapNode_(t, n) ==
  IF t.parent[n] = NULL THEN NULL ELSE t.child[t.parent[n]][1 - Side(t, n)]

grandParent_MapNode_(t, n) == IF t.parent[n] = NULL THEN NULL ELSE t.parent[t.parent[n]]

Paint(t, n, isRed) == IF n = NULL THEN t ELSE [t EXCEPT !.red[n] = isRed]

setChild_MapNode_(t, n, s, c) ==
  [t EXCEPT !.child  = IF n = NULL THEN @ ELSE [@ EXCEPT ![n][s] = c],
            !.parent = IF c = NULL THEN @ ELSE [@ EXCEPT ![c] = n]]

\* The child of n on the side s goes up, n down to the other side.
rotate_MapNode_(t, n, s) ==
  LET new     == t.child[n][s]
      inner   == setChild_MapNode_(t, n, s, t.child[new][1 - s])
      lowered == setChild_MapNode_(inner, new, 1 - s, n)
  IN  setChild_MapNode_(lowered, t.parent[n], Side(t, n), new)

\* Mutant: the root is no special case.
ReplacesBelow(t, n, replacement) ==
  setChild_MapNode_(t, t.parent[n], Side(t, n), replacement)

replaceNode_Map_(t, n, replacement) ==
  LET linked == setChild_MapNode_(t, t.parent[n], Side(t, n), replacement)
  IN  IF t.parent[n] = NULL THEN [linked EXCEPT !.root = replacement] ELSE linked

\* The links of a node out of the map are dead: insert_Map writes them anew.
Forget(t, n) == [t EXCEPT !.parent[n] = NULL, !.child[n] = NoLinks, !.red[n] = FALSE]

RECURSIVE Farthest(_, _, _)
Farthest(t, n, s) == IF t.child[n][s] = NULL THEN n ELSE Farthest(t, t.child[n][s], s)

adjacent_MapNode_(t, n, s) ==
  IF t.child[n][s] = NULL THEN NULL ELSE Farthest(t, t.child[n][s], 1 - s)

RECURSIVE Top(_, _)
Top(t, n) == IF t.parent[n] = NULL THEN n ELSE Top(t, t.parent[n])

\* The last node on the way to a key.
RECURSIVE Descend(_, _, _)
Descend(t, n, k) ==
  LET below == t.child[n][IF k < Key[n] THEN 0 ELSE 1]
  IN  IF Key[n] = k \/ below = NULL THEN n ELSE Descend(t, below, k)

value_Map(t, k) ==
  LET n == IF t.root = NULL THEN NULL ELSE Descend(t, t.root, k)
  IN  IF n # NULL /\ Key[n] = k THEN n ELSE NULL

-----------------------------------------------------------------------------
(* Insertion.                                                              *)

\* Mutant: a red uncle is the end of the repair.
RepairsOnce(t, n) ==
  LET p     == t.parent[n]
      g     == grandParent_MapNode_(t, n)
      uncle == sibling_MapNode_(t, p)
      inner == Side(t, n) # Side(t, p)
      low   == IF inner THEN rotate_MapNode_(t, p, 1 - Side(t, p)) ELSE t
  IN  IF p = NULL THEN Paint(t, n, FALSE)
      ELSE IF isBlack_MapNode_(t, p) THEN t
      ELSE IF isRed_MapNode_(t, uncle)
        THEN Paint(Paint(t, p, FALSE), uncle, FALSE)
      ELSE Paint(Paint(rotate_MapNode_(low, g, Side(t, p)), IF inner THEN n ELSE p, FALSE),
                 g, TRUE)

RECURSIVE repairAfterInsert_MapNode_(_, _)
repairAfterInsert_MapNode_(t, n) ==
  LET p     == t.parent[n]
      g     == grandParent_MapNode_(t, n)
      uncle == sibling_MapNode_(t, p)
      s     == Side(t, p)
  IN  IF p = NULL THEN Paint(t, n, FALSE)
      ELSE IF isBlack_MapNode_(t, p) THEN t
      ELSE IF isRed_MapNode_(t, uncle)
        THEN repairAfterInsert_MapNode_(
               Paint(Paint(Paint(t, p, FALSE), uncle, FALSE), g, TRUE), g)
      ELSE LET inner == Side(t, n) # s
               low   == IF inner THEN rotate_MapNode_(t, p, 1 - s) ELSE t
               mid   == IF inner THEN n ELSE p
           IN  Paint(Paint(rotate_MapNode_(low, g, s), mid, FALSE), g, TRUE)

insertNode_Map_(t, n) ==
  LET at    == Descend(t, t.root, Key[n])
      taken == setChild_MapNode_(setChild_MapNode_(replaceNode_Map_(t, at, n),
                                                   n, 0, t.child[at][0]),
                                 n, 1, t.child[at][1])
      fresh == Paint([t EXCEPT !.child[n] = NoLinks], n, TRUE)
  IN  IF t.root = NULL THEN [fresh EXCEPT !.parent[n] = NULL]
      ELSE IF Key[at] = Key[n] THEN Forget(Paint(taken, n, t.red[at]), at)
      ELSE setChild_MapNode_(fresh, at, IF Key[n] < Key[at] THEN 0 ELSE 1, n)

InsertInto(t, n) ==
  LET linked == insertNode_Map_(t, n)
      sound  == repairAfterInsert_MapNode_(linked, n)
  IN  IF value_Map(t, Key[n]) # NULL THEN linked
      ELSE [sound EXCEPT !.root = Top(sound, n), !.size = @ + 1]

insert_Map(n) == /\ map' = InsertInto(map, n)
                 /\ held' = (held \ {value_Map(map, Key[n])}) \cup {n}
                 /\ UNCHANGED iterator

-----------------------------------------------------------------------------
(* Removal.                                                                *)

\* Node n and the other one, below it, change places: nodes are the values.
swapNodes_Map_(t, n, other) ==
  LET X(m)    == IF m = n THEN other ELSE IF m = other THEN n ELSE m
      colours == [t EXCEPT !.root = X(@), !.red[n] = t.red[other], !.red[other] = t.red[n]]
      up      == setChild_MapNode_(colours, X(t.parent[n]), Side(t, n), other)
      down    == setChild_MapNode_(up, X(t.parent[other]), Side(t, other), n)
      left    == setChild_MapNode_(down, other, 0, X(t.child[n][0]))
      right   == setChild_MapNode_(left, other, 1, X(t.child[n][1]))
      below   == setChild_MapNode_(right, n, 0, t.child[other][0])
  IN  setChild_MapNode_(below, n, 1, t.child[other][1])

\* The sibling s of n goes up if it is red; else, for a red node below it, its
\* inner child goes up unless the outer one is red, and then s itself.
LiftRed(t, n, s) ==
  LET p == t.parent[n]
  IN  IF isRed_MapNode_(t, s)
        THEN rotate_MapNode_(Paint(Paint(t, p, TRUE), s, FALSE), p, 1 - Side(t, n)) ELSE t
LiftInner(t, s, near) ==
  IF isRed_MapNode_(t, t.child[s][1 - near]) THEN t
  ELSE rotate_MapNode_(Paint(Paint(t, s, TRUE), t.child[s][near], FALSE), s, near)
LiftOuter(t, n, s) ==
  LET p   == t.parent[n]
      far == 1 - Side(t, n)
  IN  rotate_MapNode_(Paint(Paint(Paint(t, s, t.red[p]), p, FALSE), t.child[s][far], FALSE),
                      p, far)

RECURSIVE repairAfterRemoval_MapNode_(_, _), RepairBeside(_, _, _)
RepairBeside(t, n, s) ==
  LET p     == t.parent[n]
      outer == LiftInner(t, s, Side(t, n))
  IN  IF ~BothChildrenBlack(t, s) THEN LiftOuter(outer, n, sibling_MapNode_(outer, n))
      ELSE IF isRed_MapNode_(t, p) THEN Paint(Paint(t, s, TRUE), p, FALSE)
      ELSE repairAfterRemoval_MapNode_(Paint(t, s, TRUE), p)
repairAfterRemoval_MapNode_(t, n) ==
  LET lifted == LiftRed(t, n, sibling_MapNode_(t, n))
  IN  IF t.parent[n] = NULL THEN t ELSE RepairBeside(lifted, n, sibling_MapNode_(lifted, n))

Unlink(t, n) == setChild_MapNode_(t, t.parent[n], Side(t, n), NULL)
Rooted(t) == [t EXCEPT !.root = Top(t, @)]

removeNodeWithZeroOrOneChild_Map_(t, n) ==
  LET child  == t.child[n][IF t.child[n][0] # NULL THEN 0 ELSE 1]
      lifted == replaceNode_Map_(t, n, child)
  IN  IF child = NULL
        THEN IF n = t.root THEN [t EXCEPT !.root = NULL]
             ELSE Rooted(Unlink(IF t.red[n] THEN t ELSE repairAfterRemoval_MapNode_(t, n), n))
      ELSE Rooted(IF t.red[n] THEN lifted
                  ELSE IF t.red[child] THEN Paint(lifted, child, FALSE)
                  ELSE repairAfterRemoval_MapNode_(lifted, child))

removeNode_Map(t, n) ==
  LET pred == adjacent_MapNode_(t, n, 0)
      low  == IF NULL \in {t.child[n][s] : s \in Sides} THEN t ELSE swapNodes_Map_(t, n, pred)
  IN  IF n = NULL THEN t
      ELSE [removeNodeWithZeroOrOneChild_Map_(low, n) EXCEPT !.size = @ - 1]

remove_Map(k) ==
  LET n == value_Map(map, k)
  IN  /\ map' = IF n = NULL THEN map ELSE Forget(removeNode_Map(map, n), n)
      /\ held' = held \ {n}
      /\ UNCHANGED iterator

clear_Map == map' = EmptyMap /\ held' = {} /\ UNCHANGED iterator

-----------------------------------------------------------------------------
(* Iteration.                                                              *)

firstInOrder_MapNode_(t, dir) == IF t.root = NULL THEN NULL ELSE Farthest(t, t.root, 1 - dir)

RECURSIVE ClimbInOrder(_, _, _)
ClimbInOrder(t, n, dir) ==
  LET p == t.parent[n]
  IN  IF p = NULL \/ (t.child[p][1 - dir] = n /\ t.child[p][dir] # NULL) THEN p
      ELSE ClimbInOrder(t, p, dir)

nextInOrder_MapNode_(t, n, dir) ==
  IF n = NULL THEN NULL
  ELSE IF t.child[n][dir] # NULL THEN adjacent_MapNode_(t, n, dir)
  ELSE ClimbInOrder(t, n, dir)

init_MapIterator(dir) ==
  /\ LET first == firstInOrder_MapNode_(map, dir)
     IN  iterator' = [dir |-> dir, value |-> first,
                      next |-> nextInOrder_MapNode_(map, first, dir)]
  /\ UNCHANGED <<map, held>>

\* The iterator moves on; if it leaves a removed node, that is forgotten.
MoveTo(n) ==
  /\ iterator.value # NULL
  /\ iterator' = [iterator EXCEPT !.value = n,
                                  !.next  = nextInOrder_MapNode_(map, n, iterator.dir)]
  /\ map' = IF iterator.value \in held THEN map ELSE Forget(map, iterator.value)
  /\ UNCHANGED held

\* Mutant: the next node is looked for only when it is needed.
NextTooLate == MoveTo(nextInOrder_MapNode_(map, iterator.value, iterator.dir))

next_MapIterator == MoveTo(iterator.next)

remove_MapIterator ==
  /\ iterator.value \in held
  /\ map' = removeNode_Map(map, iterator.value)
  /\ held' = held \ {iterator.value}
  /\ UNCHANGED iterator

-----------------------------------------------------------------------------

\* While it iterates, the caller changes the map through the iterator only.
Next == \/ /\ iterator.value = NULL
           /\ \/ \E n \in Nodes \ held : insert_Map(n)
              \/ \E n \in Nodes : remove_Map(Key[n])
              \/ clear_Map
              \/ \E dir \in Sides : init_MapIterator(dir)
        \/ next_MapIterator
        \/ remove_MapIterator

-----------------------------------------------------------------------------
(* Properties.                                                             *)

\* The black nodes on the way from n down, -1 if that depends on the way.
RECURSIVE BlackDepth(_, _)
BlackDepth(t, n) ==
  LET depths == {BlackDepth(t, t.child[n][s]) : s \in Sides}
  IN  IF n = NULL THEN 1
      ELSE IF Cardinality(depths) = 1 /\ -1 \notin depths
        THEN (CHOOSE d \in depths : TRUE) + IF t.red[n] THEN 0 ELSE 1
      ELSE -1

(* verify_MapNode_ and the asserts on the root: the tree is balanced, no   *)
(* red node has a red child, and every link down has its link up, however  *)
(* many repairs went up the tree.                                          *)
RedBlack ==
  /\ isBlack_MapNode_(map, map.root)
  /\ map.root # NULL => map.parent[map.root] = NULL
  /\ BlackDepth(map, map.root) # -1
  /\ \A n \in held : /\ map.red[n] => BothChildrenBlack(map, n)
                     /\ \A s \in Sides : LET c == map.child[n][s]
                                         IN  c # NULL => map.parent[c] = n

(* value_Map finds exactly the caller's nodes, whatever replacements, swaps *)
(* and rotations have moved them, and the size is their number.            *)
FindsHeld ==
  /\ map.size = Cardinality(held)
  /\ \A n \in Nodes : LET k == Key[n]
                      IN  {m \in held : Key[m] = k} = {value_Map(map, k)} \ {NULL}

(* The iterator stays on the caller's nodes, in order, though each one it  *)
(* was on may have been removed with the tree repaired around it: the      *)
(* comment in remove_MapIterator says that next stays valid.               *)
IteratorGoesOn ==
  [][next_MapIterator =>
       iterator'.value \in held \cup {NULL} /\
       (iterator'.value # NULL =>
          IF iterator.dir = 1 THEN Key[iterator.value] < Key[iterator'.value]
                              ELSE Key[iterator.value] > Key[iterator'.value])]_mapVars

RECURSIVE Visited(_, _, _)
Visited(t, n, dir) ==
  IF n = NULL THEN {} ELSE {n} \cup Visited(t, nextInOrder_MapNode_(t, n, dir), dir)

(* An iteration visits every node, in both directions (map.c: go back up   *)
(* until there's a forward node).  The code does not see to it.            *)
IterationVisitsAll ==
  \A dir \in Sides : Visited(map, firstInOrder_MapNode_(map, dir), dir) = held
=============================================================================
