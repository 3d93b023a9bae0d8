-------------------------------- MODULE Rect --------------------------------
(* Rectangles of points (rect.c, rect.h), and the iterator over the points.  *)
EXTENDS Integers, FiniteSets

CONSTANTS Lines,             \* the coordinates, and
          Sizes              \* the widths and heights that are tried

VARIABLES rect,
          iter,              \* the iterator: its position, and whether that is valid
          visited            \* the points it has stood on

I2 == [x : Lines, y : Lines]
Rects == {d \in [pos : I2, size : [x : Sizes, y : Sizes]] :
            d.pos.x + d.size.x \in Lines /\ d.pos.y + d.size.y \in Lines}
init_I2(x, y) == [x |-> x, y |-> y]
add_I2(a, b) == init_I2(a.x + b.x, a.y + b.y)
sub_I2(a, b) == init_I2(a.x - b.x, a.y - b.y)
Lesser(a, b) == IF a < b THEN a ELSE b
Greater(a, b) == IF a > b THEN a ELSE b
min_I2(a, b) == init_I2(Lesser(a.x, b.x), Lesser(a.y, b.y))
max_I2(a, b) == init_I2(Greater(a.x, b.x), Greater(a.y, b.y))

zero_Rect == [pos |-> init_I2(0, 0), size |-> init_I2(0, 0)]
initCorners_Rect(topLeft, bottomRight) == [pos |-> topLeft, size |-> sub_I2(bottomRight, topLeft)]
bottomRight_Rect(d) == add_I2(d.pos, d.size)
right_Rect(d) == d.pos.x + d.size.x
bottom_Rect(d) == d.pos.y + d.size.y
isEmpty_Rect(d) == d.size.x * d.size.y = 0

contains_Rect(d, p) == LET br == bottomRight_Rect(d)
                       IN  p.x >= d.pos.x /\ p.y >= d.pos.y /\ p.x < br.x /\ p.y < br.y
containsRect_Rect(d, other) ==
  LET br == sub_I2(bottomRight_Rect(other), init_I2(1, 1))
  IN  /\ contains_Rect(d, other.pos) /\ contains_Rect(d, init_I2(br.x, other.pos.y))
      /\ contains_Rect(d, br) /\ contains_Rect(d, init_I2(other.pos.x, br.y))
isOverlapping_Rect(d, other) ==
  /\ other.pos.x < right_Rect(d) /\ other.pos.y < bottom_Rect(d)
  /\ right_Rect(other) > d.pos.x /\ bottom_Rect(other) > d.pos.y

union_Rect(d, other) ==
  IF isEmpty_Rect(d) THEN other
  ELSE IF isEmpty_Rect(other) THEN d
  ELSE initCorners_Rect(min_I2(d.pos, other.pos), max_I2(bottomRight_Rect(d), bottomRight_Rect(other)))
intersect_Rect(d, other) ==
  IF ~isOverlapping_Rect(d, other) THEN zero_Rect
  ELSE initCorners_Rect(max_I2(d.pos, other.pos), min_I2(bottomRight_Rect(d), bottomRight_Rect(other)))
expand_Rect(d, value) == [pos |-> sub_I2(d.pos, value), size |-> add_I2(add_I2(d.size, value), value)]
adjustEdges_Rect(d, top, right, bottom, left) ==
  [pos |-> add_I2(d.pos, init_I2(left, top)), size |-> add_I2(d.size, init_I2(right - left, bottom - top))]

-----------------------------------------------------------------------------
(* The points of the edge, clockwise from the top left corner.               *)
edgeLength_Rect_(d) == (2 * (d.size.x - 1)) + (2 * (d.size.y - 1))
edgePos_Rect(d, pos) ==
  LET down == pos - (d.size.x - 1)
      back == down - (d.size.y - 1)
      up   == back - (d.size.x - 1)
  IN  IF pos < d.size.x THEN init_I2(d.pos.x + pos, d.pos.y)
      ELSE IF down < d.size.y THEN init_I2(right_Rect(d) - 1, d.pos.y + down)
      ELSE IF back < d.size.x THEN init_I2(right_Rect(d) - 1 - back, bottom_Rect(d) - 1)
      ELSE init_I2(d.pos.x, bottom_Rect(d) - 1 - up)
(* What may be picked; the code tries until it is one of these.              *)
randomEdgePos_Rect(d) ==
  LET dim == sub_I2(d.size, init_I2(1, 1))
  IN  {edgePos_Rect(d, i) : i \in (1..edgeLength_Rect_(d) - 1)
                                    \ {dim.x, dim.x + dim.y, (2 * dim.x) + dim.y}}

-----------------------------------------------------------------------------
init_RectConstIterator(d) == [pos |-> d.pos, valid |-> ~isEmpty_Rect(d)]
next_RectConstIterator(i, d) ==
  LET wraps == i.pos.x + 1 = right_Rect(d)
      pos == IF wraps THEN init_I2(d.pos.x, i.pos.y + 1) ELSE init_I2(i.pos.x + 1, i.pos.y)
  IN  [pos |-> pos, valid |-> pos.y < bottom_Rect(d)]
Idle == [pos |-> init_I2(0, 0), valid |-> FALSE]

Init == rect \in Rects /\ iter = Idle /\ visited = {}

(* A rectangle is changed between iterations; the bounds keep its corners to *)
(* the grid, and its size from falling below nothing.                        *)
Become(d) == /\ ~iter.valid /\ d \in Rects /\ rect' = d /\ iter' = Idle /\ visited' = {}
Start == /\ ~iter.valid /\ iter' = init_RectConstIterator(rect)
         /\ visited' = (IF iter'.valid THEN {rect.pos} ELSE {}) /\ UNCHANGED rect
Step == /\ iter.valid /\ iter' = next_RectConstIterator(iter, rect)
        /\ visited' = (IF iter'.valid THEN visited \cup {iter'.pos} ELSE visited) /\ UNCHANGED rect

Next == \/ Start \/ Step
        \/ \E value \in [x : {-1, 1}, y : {0, 1}] : Become(expand_Rect(rect, value))
        \/ \E top, left \in {0, 1}, right, bottom \in {-1, 1} :
             Become(adjustEdges_Rect(rect, top, right, bottom, left))
        \/ \E other \in Rects : Become(union_Rect(rect, other)) \/ Become(intersect_Rect(rect, other))

-----------------------------------------------------------------------------
Points(d) == [x : d.pos.x..right_Rect(d) - 1, y : d.pos.y..bottom_Rect(d) - 1]
Border(d) == {p \in Points(d) : \/ p.x \in {d.pos.x, right_Rect(d) - 1}
                                \/ p.y \in {d.pos.y, bottom_Rect(d) - 1}}
Corners(d) == {p \in Points(d) : /\ p.x \in {d.pos.x, right_Rect(d) - 1}
                                 /\ p.y \in {d.pos.y, bottom_Rect(d) - 1}}
Hull(set) == {p \in I2 : /\ \E a, b \in set : a.x <= p.x /\ p.x <= b.x
                         /\ \E a, b \in set : a.y <= p.y /\ p.y <= b.y}

(* A rectangle is its points: two overlap, contain one another, have an      *)
(* intersection and a union as their points do; going around the edge meets  *)
(* each of its points, once where it is not folded, and what is picked there *)
(* is never a corner; and an iteration has stood on every point when it      *)
(* ends, and before that on those above and to the left.                     *)
RectIsItsPoints ==
  /\ iter = Idle /\ visited = {} => \A other \in Rects :
       LET mine == Points(rect)
           theirs == Points(other)
       IN  /\ Points(intersect_Rect(rect, other)) = mine \cap theirs
           /\ Points(union_Rect(rect, other)) = Hull(mine \cup theirs)
           /\ mine # {} /\ theirs # {} =>
                /\ isOverlapping_Rect(rect, other) <=> (mine \cap theirs # {})
                /\ containsRect_Rect(rect, other) <=> (theirs \subseteq mine)
  /\ edgeLength_Rect_(rect) > 0 /\ ~isEmpty_Rect(rect) =>
       LET around == 0..edgeLength_Rect_(rect) - 1
       IN  /\ {edgePos_Rect(rect, i) : i \in around} = Border(rect)
           /\ rect.size.x > 1 /\ rect.size.y > 1 => Cardinality(around) = Cardinality(Border(rect))
           /\ randomEdgePos_Rect(rect) = Border(rect) \ Corners(rect)
  /\ IF iter.valid
     THEN visited = {p \in Points(rect) : p.y < iter.pos.y \/ (p.y = iter.pos.y /\ p.x <= iter.pos.x)}
     ELSE iter # Idle => visited = Points(rect)
=============================================================================
