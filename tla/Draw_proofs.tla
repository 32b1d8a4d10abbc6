---------------------------- MODULE Draw_proofs -----------------------------
(***************************************************************************)
(* For every set of points and radii: the loop of draw_line stays in the   *)
(* box of its two points and within half a pixel of the line, outlines are *)
(* drawn as OutlineDrawn says, and the memory map is spared.               *)
(*                                                                         *)
(* err alone does not say where the cursor is.  The invariant ties it to   *)
(* the steps taken: k along x and j along y give (j+1)*dx + (k+1)*dy.      *)
(***************************************************************************)
EXTENDS Draw, TLAPS

\* The distance of the cursor from the line, times the line's length.
Off == Abs(y0 - pt1.y) * dx + Abs(x0 - pt1.x) * dy
InLoop ==
  plotting =>
    /\ pt1.x # pt2.x /\ pt1.y # pt2.y
    /\ err = Off + dx + dy
IInv == TypeOK /\ InLoop /\ CursorInBox /\ CursorNearLine

-----------------------------------------------------------------------------
\* What a stroke is made of.
StrokeSet == [arc : BOOLEAN, from : Point, to : Point]

\* The four moves lead from point to point.
LEMMA MovesType ==
  ASSUME NEW p \in Point, NEW k \in Int
  PROVE  Left(p, k) \in Point /\ Up(p, k) \in Point /\ Right(p, k) \in Point /\ Down(p, k) \in Point
  BY DEF Left, Up, Right, Down, Point

LEMMA RectsType == ASSUME NEW r \in Rects PROVE r \in [x : Int, y : Int, w : Nat, h : Nat]
<1>1. PICK p \in Points, q \in Points : r = FromLtrb(p.x, p.y, q.x, q.y)
  BY DEF Rects
<1>2. p \in Point /\ q \in Point
  BY PointsAssumption
<1> QED
  BY <1>1, <1>2 DEF FromLtrb, Lesser, Abs, Point

LEMMA CornersType ==
  ASSUME NEW r \in Rects
  PROVE  Tl(r) \in Point /\ Tr(r) \in Point /\ Bl(r) \in Point /\ Br(r) \in Point
<1>1. r \in [x : Int, y : Int, w : Nat, h : Nat]
  BY RectsType
<1>2. Tl(r) \in Point
  BY <1>1 DEF Tl, Point
<1>3. Tr(r) \in Point /\ Bl(r) \in Point
  BY <1>1, <1>2, MovesType DEF Tr, Bl
<1> QED
  BY <1>1, <1>2, <1>3, MovesType DEF Br

LEMMA LineType == ASSUME NEW p \in Point, NEW q \in Point PROVE Line(p, q) \in StrokeSet
  BY DEF Line, StrokeSet

LEMMA ArcType ==
  ASSUME NEW c \in Point, NEW k \in Nat, NEW quarter \in 0..3
  PROVE  Arc(c, k, quarter) \in StrokeSet
<1>1. \A i \in 0..3 : OnCircle(c, k, i) \in Point
  BY MovesType DEF OnCircle
<1>2. (quarter + 1) % 4 \in 0..3
  OBVIOUS
<1> QED
  BY <1>1, <1>2 DEF Arc, StrokeSet

\* Every stroke of every shape joins two points.
LEMMA StrokesType ==
  ASSUME NEW s \in Shapes, NEW i \in 1..Len(Strokes(s))
  PROVE  Strokes(s)[i] \in StrokeSet
<1>1. CASE s.kind = "line"
  <2>1. s.from \in Point /\ s.to \in Point
    BY <1>1, PointsAssumption DEF Shapes
  <2>2. Line(s.from, s.to) \in StrokeSet
    BY <2>1, LineType
  <2> QED
    BY <1>1, <2>2 DEF Strokes
<1>2. CASE s.kind = "rect"
  <2> DEFINE r == s.rect
  <2>1. r \in Rects
    BY <1>2 DEF Shapes
  <2>2. Tl(r) \in Point /\ Tr(r) \in Point /\ Bl(r) \in Point /\ Br(r) \in Point
    BY <2>1, CornersType
  <2> HIDE DEF r
  <2>3. /\ Line(Tl(r), Bl(r)) \in StrokeSet /\ Line(Bl(r), Br(r)) \in StrokeSet
        /\ Line(Br(r), Tr(r)) \in StrokeSet /\ Line(Tr(r), Tl(r)) \in StrokeSet
    BY <2>2, LineType
  <2>4. Strokes(s) = RectStrokes(r)
    BY <1>2 DEF Strokes, r
  <2> QED
    BY <2>3, <2>4 DEF RectStrokes
<1>3. CASE s.kind = "rounded"
  <2> DEFINE r == s.rect  k == s.radius
  <2>1. r \in Rects /\ k \in Nat
    BY <1>3, RadiiAssumption DEF Shapes
  <2>2. Tl(r) \in Point /\ Tr(r) \in Point /\ Bl(r) \in Point /\ Br(r) \in Point
    BY <2>1, CornersType
  <2> HIDE DEF r, k
  <2>3. \A p \in Point :
          Left(p, k) \in Point /\ Up(p, k) \in Point /\ Right(p, k) \in Point /\ Down(p, k) \in Point
    BY <2>1, MovesType
  <2>4. /\ Arc(Down(Right(Tl(r), k), k), k, 1) \in StrokeSet
        /\ Arc(Up(Right(Bl(r), k), k), k, 2) \in StrokeSet
        /\ Arc(Up(Left(Br(r), k), k), k, 3) \in StrokeSet
        /\ Arc(Down(Left(Tr(r), k), k), k, 0) \in StrokeSet
    BY <2>1, <2>2, <2>3, ArcType
  <2>5. /\ Line(Down(Tl(r), k), Up(Bl(r), k)) \in StrokeSet
        /\ Line(Right(Bl(r), k), Left(Br(r), k)) \in StrokeSet
        /\ Line(Up(Br(r), k), Down(Tr(r), k)) \in StrokeSet
        /\ Line(Left(Tr(r), k), Right(Tl(r), k)) \in StrokeSet
    BY <2>2, <2>3, LineType
  <2>6. Strokes(s) = RoundedStrokes(r, k)
    BY <1>3 DEF Strokes, r, k
  <2> QED
    BY <2>4, <2>5, <2>6 DEF RoundedStrokes
<1> QED
  BY <1>1, <1>2, <1>3 DEF Shapes

-----------------------------------------------------------------------------
\* One pass of the loop, k of D steps done along x and j of E along y: it
\* takes no step along an axis that is done, and the distance from the line
\* stays within half of the longer side.
LEMMA LoopStep ==
  ASSUME NEW D \in Nat \ {0}, NEW E \in Nat \ {0}, NEW k \in 0..D, NEW j \in 0..E,
         NEW f \in Int, f = j * D - k * E, NEW m \in Nat, m = IF D > E THEN D ELSE E,
         -m <= 2 * f, 2 * f <= m, ~(k = D /\ j = E),
         NEW e \in Int, e = f + D - E
  PROVE  /\ 2 * e >= -E => k < D
         /\ 2 * e <= D => j < E
         /\ LET g == f - (IF 2 * e >= -E THEN E ELSE 0) + (IF 2 * e <= D THEN D ELSE 0)
            IN  -m <= 2 * g /\ 2 * g <= m
<1>1. ASSUME k = D, 2 * e >= -E PROVE FALSE
  <2>1. j + 1 <= E
    BY <1>1
  <2>2. (j + 1) * D <= E * D
    BY <2>1
  <2>3. (j + 1) * D = j * D + D /\ D * E = E * D
    OBVIOUS
  <2> QED
    BY <1>1, <2>2, <2>3
<1>2. ASSUME j = E, 2 * e <= D PROVE FALSE
  <2>1. k + 1 <= D
    BY <1>2
  <2>2. (k + 1) * E <= D * E
    BY <2>1
  <2>3. (k + 1) * E = k * E + E /\ D * E = E * D
    OBVIOUS
  <2> QED
    BY <1>2, <2>2, <2>3
<1>3. LET g == f - (IF 2 * e >= -E THEN E ELSE 0) + (IF 2 * e <= D THEN D ELSE 0)
      IN  -m <= 2 * g /\ 2 * g <= m
  <2>1. CASE D > E
    BY <2>1
  <2>2. CASE D <= E
    BY <2>2
  <2> QED
    BY <2>1, <2>2
<1> QED
  BY <1>1, <1>2, <1>3
-----------------------------------------------------------------------------
\* The points of the stroke in hand, when there is one.
LEMMA StrokeType == ASSUME TypeOK, ~Done PROVE pt1 \in Point /\ pt2 \in Point
<1>1. n \in 1..Len(Strokes(shape))
  BY DEF TypeOK, Done
<1> QED
  BY <1>1, StrokesType DEF TypeOK, Stroke, pt1, pt2, StrokeSet

LEMMA Initially == Init => IInv
<1> SUFFICES ASSUME Init PROVE IInv
  OBVIOUS
<1>1. plotting = FALSE
  BY DEF Init
<1>2. shape \in Shapes /\ n \in Nat \ {0} /\ x0 \in Int /\ y0 \in Int /\ err \in Int
  BY DEF Init
<1>3. TypeOK
  BY <1>1, <1>2 DEF TypeOK
<1> QED
  BY <1>1, <1>3 DEF IInv, InLoop, CursorInBox, CursorNearLine

\* The loop starts at the first point, on the line.
LEMMA StartKeeps == ASSUME IInv, DrawSlantedLine PROVE IInv'
<1>1. ~Done /\ ~Stroke.arc /\ pt1.x # pt2.x /\ pt1.y # pt2.y /\ TypeOK
  BY DEF IInv, DrawSlantedLine, Begins
<1>2. pt1 \in Point /\ pt2 \in Point
  BY <1>1, StrokeType
<1>3. /\ pt1.x \in Int /\ pt1.y \in Int /\ pt2.x \in Int /\ pt2.y \in Int
  BY <1>2 DEF Point
<1>4. dx \in Nat \ {0} /\ -dy \in Nat \ {0} /\ dy \in Int
  BY <1>1, <1>3 DEF dx, dy, Abs
<1>5. shape' = shape /\ n' = n /\ Stroke' = Stroke /\ pt1' = pt1 /\ pt2' = pt2 /\ dx' = dx /\ dy' = dy
  BY DEF DrawSlantedLine, Stroke, pt1, pt2, dx, dy
<1>6. x0' = pt1.x /\ y0' = pt1.y /\ err' = dx + dy /\ plotting' = TRUE
  BY DEF DrawSlantedLine, ErrAtStart
<1>7. TypeOK'
  BY <1>1, <1>3, <1>4, <1>5, <1>6 DEF TypeOK, Done
<1>8. Abs(x0' - pt1.x) = 0 /\ Abs(y0' - pt1.y) = 0
  BY <1>3, <1>6 DEF Abs
<1>9. Off' = 0
  BY <1>4, <1>5, <1>8 DEF Off
<1>10. InLoop'
  BY <1>1, <1>4, <1>5, <1>6, <1>9 DEF InLoop
<1>11. CursorInBox'
  BY <1>3, <1>5, <1>6 DEF CursorInBox, Between
<1>12. 2 * Abs(Off') <= (IF dx > -dy THEN dx ELSE -dy)
  BY <1>4, <1>9 DEF Abs
<1>13. CursorNearLine'
  BY <1>5, <1>12 DEF CursorNearLine, Off
<1> QED
  BY <1>7, <1>10, <1>11, <1>13 DEF IInv

\* A pass that does not find the second point steps, and stays near.
LEMMA PassKeeps ==
  ASSUME IInv, Plot, ~(x0 = pt2.x /\ y0 = pt2.y)
  PROVE  IInv'
<1>1. /\ TypeOK /\ plotting /\ ~Done /\ ~Stroke.arc /\ pt1.x # pt2.x /\ pt1.y # pt2.y
      /\ x0 \in Int /\ y0 \in Int /\ err \in Int
  BY DEF IInv, Plot, TypeOK, InLoop
<1>2. pt1 \in Point /\ pt2 \in Point
  BY <1>1, StrokeType
<1>3. pt1.x \in Int /\ pt1.y \in Int /\ pt2.x \in Int /\ pt2.y \in Int
  BY <1>2 DEF Point
<1> DEFINE D == dx
           E == -dy
           k == Abs(x0 - pt1.x)
           j == Abs(y0 - pt1.y)
           f == j * D - k * E
           m == IF D > E THEN D ELSE E
           stepX == 2 * err >= -E
           stepY == 2 * err <= D
<1>4. D \in Nat \ {0} /\ E \in Nat \ {0} /\ dy \in Int /\ dy = -E
  BY <1>1, <1>3 DEF dx, dy, Abs
<1>5. k \in 0..D /\ j \in 0..E
  BY <1>1, <1>3 DEF IInv, CursorInBox, Between, Abs, dx, dy
<1>6. f \in Int /\ k * dy = -(k * E) /\ Off = f
  BY <1>4, <1>5 DEF Off
<1>7. m \in Nat /\ -m <= 2 * f /\ 2 * f <= m
  BY <1>1, <1>4, <1>6 DEF IInv, CursorNearLine, Off, Abs
<1>8. err = f + D - E
  BY <1>1, <1>4, <1>6 DEF IInv, InLoop
<1>9. ~(k = D /\ j = E)
  BY <1>1, <1>3 DEF IInv, CursorInBox, Between, Abs, dx, dy
<1>10. /\ shape' = shape /\ n' = n /\ plotting' = plotting
       /\ Stroke' = Stroke /\ pt1' = pt1 /\ pt2' = pt2 /\ dx' = dx /\ dy' = dy
  BY DEF Plot, Stroke, pt1, pt2, dx, dy
<1>11. /\ x0' = IF stepX THEN x0 + sx ELSE x0
       /\ y0' = IF stepY THEN y0 + sy ELSE y0
       /\ err' = err - (IF stepX THEN E ELSE 0) + (IF stepY THEN D ELSE 0)
  <2>1. (StepsX <=> stepX) /\ (StepsY <=> stepY)
    BY <1>1, <1>4 DEF StepsX, StepsY
  <2>2. /\ x0' = IF StepsX THEN x0 + sx ELSE x0
        /\ y0' = IF StepsY THEN y0 + sy ELSE y0
        /\ err' = err + (IF StepsX THEN dy ELSE 0) + (IF StepsY THEN dx ELSE 0)
    BY DEF Plot
  <2>3. err' = err - (IF stepX THEN E ELSE 0) + (IF stepY THEN D ELSE 0)
    <3> HIDE DEF stepX, stepY
    <3> QED
      BY <2>1, <2>2, <1>1, <1>4
  <2> QED
    BY <2>1, <2>2, <2>3
<1>12. /\ stepX => k < D
       /\ stepY => j < E
       /\ LET g == f - (IF stepX THEN E ELSE 0) + (IF stepY THEN D ELSE 0)
          IN  -m <= 2 * g /\ 2 * g <= m
  <2> HIDE DEF D, E, k, j
  <2> QED
    BY <1>1, <1>4, <1>5, <1>6, <1>7, <1>8, <1>9, LoopStep
<1>13. /\ x0' \in Int /\ Between(x0', pt1.x, pt2.x)
       /\ Abs(x0' - pt1.x) = IF stepX THEN k + 1 ELSE k
  BY <1>1, <1>3, <1>5, <1>11, <1>12 DEF IInv, CursorInBox, Between, Abs, dx, sx
<1>14. /\ y0' \in Int /\ Between(y0', pt1.y, pt2.y)
       /\ Abs(y0' - pt1.y) = IF stepY THEN j + 1 ELSE j
  BY <1>1, <1>3, <1>5, <1>11, <1>12 DEF IInv, CursorInBox, Between, Abs, dy, sy
<1>15. Off' = f - (IF stepX THEN E ELSE 0) + (IF stepY THEN D ELSE 0)
  <2>1. Off' = (IF stepY THEN j + 1 ELSE j) * D + (IF stepX THEN k + 1 ELSE k) * dy
    BY <1>10, <1>13, <1>14 DEF Off
  <2> HIDE DEF D, E, k, j
  <2>2. (j + 1) * D = j * D + D /\ (k + 1) * dy = k * dy - E
    BY <1>4, <1>5
  <2>3. j * D \in Int /\ k * dy \in Int /\ k * E \in Int
    BY <1>4, <1>5
  <2> QED
    BY <2>1, <2>2, <2>3, <1>4, <1>6
<1>16. err' \in Int /\ err' = Off' + dx' + dy'
  <2> HIDE DEF D, E, k, j, f
  <2>1. err' = Off' + D - E /\ Off' \in Int
    BY <1>4, <1>6, <1>8, <1>11, <1>15
  <2> QED
    BY <2>1, <1>4, <1>10 DEF D
<1>17. TypeOK'
  BY <1>1, <1>10, <1>13, <1>14, <1>16 DEF TypeOK, Done
<1>18. InLoop'
  BY <1>1, <1>10, <1>16 DEF InLoop
<1>19. CursorInBox'
  BY <1>10, <1>13, <1>14 DEF CursorInBox
<1>20. 2 * Abs(Off') <= m
  <2> HIDE DEF D, E, k, j, f
  <2> QED
    BY <1>4, <1>6, <1>12, <1>15 DEF Abs
<1>21. CursorNearLine'
  BY <1>10, <1>20 DEF CursorNearLine, Off
<1> QED
  BY <1>17, <1>18, <1>19, <1>21 DEF IInv

\* Every other step leaves the loop or never was in it.
LEMMA OutsideKeeps ==
  ASSUME IInv, plotting' = FALSE, shape' = shape, n' = n + 1,
         x0' = x0, y0' = y0, err' = err
  PROVE  IInv'
<1>1. shape' \in Shapes /\ n' \in Nat \ {0} /\ x0' \in Int /\ y0' \in Int /\ err' \in Int
  BY DEF IInv, TypeOK
<1>2. TypeOK'
  BY <1>1 DEF TypeOK
<1> QED
  BY <1>2 DEF IInv, InLoop, CursorInBox, CursorNearLine

LEMMA StepKeeps == ASSUME IInv, [Next]_vars PROVE IInv'
<1>1. CASE DrawArc
  BY <1>1, OutsideKeeps DEF DrawArc, Begins, Drawn, IInv, TypeOK
<1>2. CASE DrawPoint
  BY <1>2, OutsideKeeps DEF DrawPoint, Begins, IInv, TypeOK
<1>3. CASE DrawVerticalLine
  BY <1>3, OutsideKeeps DEF DrawVerticalLine, Begins, Drawn, IInv, TypeOK
<1>4. CASE DrawHorizontalLine
  BY <1>4, OutsideKeeps DEF DrawHorizontalLine, Begins, Drawn, IInv, TypeOK
<1>5. CASE DrawSlantedLine
  BY <1>5, StartKeeps
<1>6. CASE Plot
  <2>1. CASE x0 = pt2.x /\ y0 = pt2.y
    BY <1>6, <2>1, OutsideKeeps DEF Plot
  <2>2. CASE ~(x0 = pt2.x /\ y0 = pt2.y)
    BY <1>6, <2>2, PassKeeps
  <2> QED
    BY <2>1, <2>2
<1>7. CASE UNCHANGED vars
  BY <1>7 DEF vars, IInv, TypeOK, InLoop, Off, CursorInBox, CursorNearLine,
     Done, Stroke, pt1, pt2, dx, dy
<1> QED
  BY <1>1, <1>2, <1>3, <1>4, <1>5, <1>6, <1>7 DEF Next

\* The error term of draw_line measures how far the cursor is off the line, at
\* each turn of its loop: all the results below follow from it.
THEOREM Inductive == Spec => []IInv
  BY Initially, StepKeeps, PTL DEF Spec

\* Whatever points and radii a caller names, every variable keeps its type and
\* the loop runs for a line only (draw.rs:126-187).
THEOREM TypeCorrect == Spec => []TypeOK
  BY Inductive, PTL DEF IInv

\* The loop never steps past its second point along either axis, so its exit
\* on equality is enough (draw.rs:175-186).
THEOREM CursorStaysInBox == Spec => []CursorInBox
  BY Inductive, PTL DEF IInv

\* Each pixel of a slanted line is within half a pixel of it (draw.rs:165-187).
THEOREM CursorStaysNear == Spec => []CursorNearLine
  BY Inductive, PTL DEF IInv

-----------------------------------------------------------------------------
\* A pixel by its coordinates, and what a stroke along an axis writes.
At(x, y) == [x |-> x, y |-> y]
Ink(st) ==
  CASE st.arc -> {st.from, st.to}
    [] ~st.arc /\ st.from = st.to -> {}
    [] ~st.arc /\ st.from # st.to /\ st.from.x = st.to.x ->
         LET top == IF st.from.y < st.to.y THEN st.from ELSE st.to
         IN  Pixels(top, Down(top, Abs(st.to.y - st.from.y) - 1))
    [] OTHER ->
         LET first == IF st.from.x < st.to.x THEN st.from ELSE st.to
         IN  Pixels(first, Right(first, Abs(st.to.x - st.from.x) - 1))
AlongAxis(st) == st.arc \/ st.from.x = st.to.x \/ st.from.y = st.to.y

\* Of shapes other than lines, the strokes before the one in hand are drawn,
\* and nothing else.
Inked ==
  shape.kind # "line" =>
    /\ ~plotting
    /\ drawn = UNION {Ink(Strokes(shape)[m]) : m \in 1..n - 1}
    /\ n <= Len(Strokes(shape)) + 1

\* Where the moves lead, in coordinates.
LEMMA MovesAt ==
  ASSUME NEW x \in Int, NEW y \in Int, NEW k \in Int
  PROVE  /\ At(x, y) \in Point /\ At(x, y).x = x /\ At(x, y).y = y
         /\ Left(At(x, y), k) = At(x - k, y) /\ Right(At(x, y), k) = At(x + k, y)
         /\ Up(At(x, y), k) = At(x, y - k) /\ Down(At(x, y), k) = At(x, y + k)
  BY DEF At, Point, Left, Right, Up, Down

LEMMA CornersAt ==
  ASSUME NEW r \in Rects
  PROVE  /\ r.x \in Int /\ r.y \in Int /\ r.w \in Nat /\ r.h \in Nat
         /\ Tl(r) = At(r.x, r.y) /\ Tr(r) = At(r.x + r.w, r.y)
         /\ Bl(r) = At(r.x, r.y + r.h) /\ Br(r) = At(r.x + r.w, r.y + r.h)
<1>1. r.x \in Int /\ r.y \in Int /\ r.w \in Nat /\ r.h \in Nat /\ r.x + r.w \in Int
  BY RectsType
<1>2. Tl(r) = At(r.x, r.y)
  BY DEF Tl, At
<1>3. Tr(r) = At(r.x + r.w, r.y) /\ Bl(r) = At(r.x, r.y + r.h)
  BY <1>2 DEF Tr, Bl, At, Right, Down
<1>4. Br(r) = At(r.x + r.w, r.y + r.h)
  BY <1>3 DEF Br, At, Down
<1> QED
  BY <1>1, <1>2, <1>3, <1>4

\* A line along an axis writes its pixels but for the lower or right end,
\* whichever way it goes.
Column(x, a, b) == {p \in Point : p.x = x /\ a <= p.y /\ p.y < b}
Row(y, a, b) == {p \in Point : p.y = y /\ a <= p.x /\ p.x < b}
LEMMA ColumnDrawn ==
  ASSUME NEW x \in Int, NEW a \in Int, NEW b \in Int, a < b
  PROVE  /\ Ink(Line(At(x, a), At(x, b))) = Column(x, a, b)
         /\ Ink(Line(At(x, b), At(x, a))) = Column(x, a, b)
<1> DEFINE down == Line(At(x, a), At(x, b))
           up == Line(At(x, b), At(x, a))
<1>1. /\ At(x, a) \in Point /\ At(x, a).x = x /\ At(x, a).y = a
      /\ At(x, b) \in Point /\ At(x, b).x = x /\ At(x, b).y = b
  BY MovesAt
<1>2. /\ down.arc = FALSE /\ down.from = At(x, a) /\ down.to = At(x, b)
      /\ up.arc = FALSE /\ up.from = At(x, b) /\ up.to = At(x, a)
  BY DEF Line
<1>3. /\ Ink(down) = Pixels(At(x, a), Down(At(x, a), Abs(b - a) - 1))
      /\ Ink(up) = Pixels(At(x, a), Down(At(x, a), Abs(a - b) - 1))
  <2> HIDE DEF down, up
  <2> QED
    BY <1>1, <1>2 DEF Ink
<1>4. Abs(b - a) - 1 = b - a - 1 /\ Abs(a - b) - 1 = b - a - 1
  BY DEF Abs
<1>5. Down(At(x, a), b - a - 1) = At(x, b - 1)
  <2>1. b - a - 1 \in Int /\ a + (b - a - 1) = b - 1
    OBVIOUS
  <2> QED
    BY <2>1, MovesAt
<1>6. Pixels(At(x, a), At(x, b - 1)) = Column(x, a, b)
  <2>1. At(x, b - 1).x = x /\ At(x, b - 1).y = b - 1
    BY DEF At
  <2>2. Pixels(At(x, a), At(x, b - 1)) = [x : x..x, y : a..b - 1]
    BY <1>1, <2>1 DEF Pixels
  <2>3. ASSUME NEW p PROVE p \in [x : x..x, y : a..b - 1] <=> p \in Column(x, a, b)
    BY DEF Column, Point
  <2> QED
    BY <2>2, <2>3
<1> QED
  BY <1>3, <1>4, <1>5, <1>6

LEMMA RowDrawn ==
  ASSUME NEW y \in Int, NEW a \in Int, NEW b \in Int, a < b
  PROVE  /\ Ink(Line(At(a, y), At(b, y))) = Row(y, a, b)
         /\ Ink(Line(At(b, y), At(a, y))) = Row(y, a, b)
<1> DEFINE right == Line(At(a, y), At(b, y))
           left == Line(At(b, y), At(a, y))
<1>1. /\ At(a, y) \in Point /\ At(a, y).x = a /\ At(a, y).y = y
      /\ At(b, y) \in Point /\ At(b, y).x = b /\ At(b, y).y = y
  BY MovesAt
<1>2. /\ right.arc = FALSE /\ right.from = At(a, y) /\ right.to = At(b, y)
      /\ left.arc = FALSE /\ left.from = At(b, y) /\ left.to = At(a, y)
  BY DEF Line
<1>3. /\ Ink(right) = Pixels(At(a, y), Right(At(a, y), Abs(b - a) - 1))
      /\ Ink(left) = Pixels(At(a, y), Right(At(a, y), Abs(a - b) - 1))
  <2> HIDE DEF right, left
  <2> QED
    BY <1>1, <1>2 DEF Ink
<1>4. Abs(b - a) - 1 = b - a - 1 /\ Abs(a - b) - 1 = b - a - 1
  BY DEF Abs
<1>5. Right(At(a, y), b - a - 1) = At(b - 1, y)
  <2>1. b - a - 1 \in Int /\ a + (b - a - 1) = b - 1
    OBVIOUS
  <2> QED
    BY <2>1, MovesAt
<1>6. Pixels(At(a, y), At(b - 1, y)) = Row(y, a, b)
  <2>1. At(b - 1, y).x = b - 1 /\ At(b - 1, y).y = y
    BY DEF At
  <2>2. Pixels(At(a, y), At(b - 1, y)) = [x : a..b - 1, y : y..y]
    BY <1>1, <2>1 DEF Pixels
  <2>3. ASSUME NEW p PROVE p \in [x : a..b - 1, y : y..y] <=> p \in Row(y, a, b)
    BY DEF Row, Point
  <2> QED
    BY <2>2, <2>3
<1> QED
  BY <1>3, <1>4, <1>5, <1>6

\* The strokes of a rectangle and of a rounded one, in coordinates.
LEMMA RectStrokesAt ==
  ASSUME NEW s \in Shapes, s.kind = "rect"
  PROVE  LET r == s.rect IN
         /\ Len(Strokes(s)) = 4
         /\ Strokes(s)[1] = Line(At(r.x, r.y), At(r.x, r.y + r.h))
         /\ Strokes(s)[2] = Line(At(r.x, r.y + r.h), At(r.x + r.w, r.y + r.h))
         /\ Strokes(s)[3] = Line(At(r.x + r.w, r.y + r.h), At(r.x + r.w, r.y))
         /\ Strokes(s)[4] = Line(At(r.x + r.w, r.y), At(r.x, r.y))
<1> DEFINE r == s.rect
<1>1. r \in Rects
  BY DEF Shapes
<1>2. Strokes(s) = RectStrokes(r)
  BY DEF Strokes
<1> HIDE DEF r
<1>3. /\ Len(RectStrokes(r)) = 4
      /\ RectStrokes(r)[1] = Line(Tl(r), Bl(r)) /\ RectStrokes(r)[2] = Line(Bl(r), Br(r))
      /\ RectStrokes(r)[3] = Line(Br(r), Tr(r)) /\ RectStrokes(r)[4] = Line(Tr(r), Tl(r))
  BY DEF RectStrokes
<1> QED
  BY <1>1, <1>2, <1>3, CornersAt DEF r

LEMMA RoundedStrokesAt ==
  ASSUME NEW s \in Shapes, s.kind = "rounded"
  PROVE  LET l == s.rect.x  t == s.rect.y
             right == s.rect.x + s.rect.w  b == s.rect.y + s.rect.h  k == s.radius
         IN
         /\ l \in Int /\ t \in Int /\ right \in Int /\ b \in Int /\ k \in Nat
         /\ Len(Strokes(s)) = 8
         /\ Strokes(s)[1] = Arc(At(l + k, t + k), k, 1)
         /\ Strokes(s)[2] = Line(At(l, t + k), At(l, b - k))
         /\ Strokes(s)[3] = Arc(At(l + k, b - k), k, 2)
         /\ Strokes(s)[4] = Line(At(l + k, b), At(right - k, b))
         /\ Strokes(s)[5] = Arc(At(right - k, b - k), k, 3)
         /\ Strokes(s)[6] = Line(At(right, b - k), At(right, t + k))
         /\ Strokes(s)[7] = Arc(At(right - k, t + k), k, 0)
         /\ Strokes(s)[8] = Line(At(right - k, t), At(l + k, t))
<1> DEFINE r == s.rect  k == s.radius
           l == r.x  t == r.y  right == r.x + r.w  b == r.y + r.h
<1>1. r \in Rects /\ k \in Nat
  BY RadiiAssumption DEF Shapes
<1>2. Strokes(s) = RoundedStrokes(r, k)
  BY DEF Strokes
<1> HIDE DEF r, k
<1>3. /\ l \in Int /\ t \in Int /\ right \in Int /\ b \in Int
      /\ Tl(r) = At(l, t) /\ Tr(r) = At(right, t) /\ Bl(r) = At(l, b) /\ Br(r) = At(right, b)
  BY <1>1, CornersAt
<1> HIDE DEF l, t, right, b
<1>4. /\ Right(Tl(r), k) = At(l + k, t) /\ Down(Tl(r), k) = At(l, t + k)
      /\ Right(Bl(r), k) = At(l + k, b) /\ Up(Bl(r), k) = At(l, b - k)
      /\ Left(Br(r), k) = At(right - k, b) /\ Up(Br(r), k) = At(right, b - k)
      /\ Left(Tr(r), k) = At(right - k, t) /\ Down(Tr(r), k) = At(right, t + k)
  BY <1>3 DEF At, Right, Down, Left, Up
<1>5. /\ Down(At(l + k, t), k) = At(l + k, t + k) /\ Up(At(l + k, b), k) = At(l + k, b - k)
      /\ Up(At(right - k, b), k) = At(right - k, b - k)
      /\ Down(At(right - k, t), k) = At(right - k, t + k)
  BY DEF At, Down, Up
<1>6. LET q == RoundedStrokes(r, k) IN
      /\ Len(q) = 8
      /\ q[1] = Arc(At(l + k, t + k), k, 1) /\ q[2] = Line(At(l, t + k), At(l, b - k))
      /\ q[3] = Arc(At(l + k, b - k), k, 2) /\ q[4] = Line(At(l + k, b), At(right - k, b))
      /\ q[5] = Arc(At(right - k, b - k), k, 3) /\ q[6] = Line(At(right, b - k), At(right, t + k))
      /\ q[7] = Arc(At(right - k, t + k), k, 0) /\ q[8] = Line(At(right - k, t), At(l + k, t))
  BY <1>4, <1>5 DEF RoundedStrokes
<1> QED
  BY <1>1, <1>2, <1>3, <1>6 DEF r, k, l, t, right, b

-----------------------------------------------------------------------------
\* Only a line is ever slanted.
LEMMA StrokesAlongAxes ==
  ASSUME NEW s \in Shapes, s.kind # "line", NEW m \in 1..Len(Strokes(s))
  PROVE  AlongAxis(Strokes(s)[m])
<1>1. \A p, q : /\ Line(p, q).arc = FALSE /\ Line(p, q).from = p /\ Line(p, q).to = q
  BY DEF Line
<1>2. \A x, y : At(x, y).x = x /\ At(x, y).y = y
  BY DEF At
<1>3. \A c, k, quarter : Arc(c, k, quarter).arc
  BY DEF Arc
<1>4. CASE s.kind = "rect"
  <2>1. m \in 1..4
    BY <1>4, RectStrokesAt
  <2> QED
    BY <2>1, <1>1, <1>2, <1>4, RectStrokesAt DEF AlongAxis
<1>5. CASE s.kind = "rounded"
  <2>1. m \in 1..8
    BY <1>5, RoundedStrokesAt
  <2>2. CASE m \in {1, 3, 5, 7}
    BY <2>2, <1>3, <1>5, RoundedStrokesAt DEF AlongAxis
  <2>3. CASE m \in {2, 4, 6, 8}
    BY <2>3, <1>1, <1>2, <1>5, RoundedStrokesAt DEF AlongAxis
  <2> QED
    BY <2>1, <2>2, <2>3
<1> QED
  BY <1>4, <1>5 DEF Shapes

LEMMA InkedFirst == Init => Inked
<1> SUFFICES ASSUME Init PROVE Inked
  OBVIOUS
<1>1. UNION {Ink(Strokes(shape)[m]) : m \in 1..1 - 1} = {}
  OBVIOUS
<1>2. n = 1 /\ drawn = {} /\ plotting = FALSE /\ shape \in Shapes
  BY DEF Init
<1>3. shape.kind # "line" => Len(Strokes(shape)) \in Nat
  BY <1>2, RectStrokesAt, RoundedStrokesAt DEF Shapes
<1> QED
  BY <1>1, <1>2, <1>3 DEF Inked

\* One stroke more is drawn.
LEMMA InkedKeeps == ASSUME IInv, Inked, [Next]_vars PROVE Inked'
<1>1. CASE UNCHANGED vars
  BY <1>1 DEF vars, Inked
<1>2. CASE shape.kind = "line"
  BY <1>2 DEF Next, DrawArc, DrawPoint, DrawVerticalLine, DrawHorizontalLine, DrawSlantedLine,
     Plot, Drawn, vars, Inked
<1>3. CASE Next /\ shape.kind # "line"
  <2>1. /\ shape \in Shapes /\ n \in Nat \ {0} /\ ~plotting
        /\ drawn = UNION {Ink(Strokes(shape)[m]) : m \in 1..n - 1}
        /\ n <= Len(Strokes(shape)) + 1
    BY <1>3 DEF Inked, IInv, TypeOK
  <2>2. Len(Strokes(shape)) \in Nat
    BY <1>3, <2>1, RectStrokesAt, RoundedStrokesAt DEF Shapes
  <2>3. ~Plot
    BY <2>1 DEF Plot
  <2>4. ~Done
    BY <1>3, <2>3 DEF Next, DrawArc, DrawPoint, DrawVerticalLine, DrawHorizontalLine,
       DrawSlantedLine, Begins
  <2>5. n \in 1..Len(Strokes(shape))
    BY <2>1, <2>2, <2>4 DEF Done
  <2>6. AlongAxis(Stroke)
    BY <1>3, <2>1, <2>5, StrokesAlongAxes DEF Stroke
  <2>7. /\ shape' = shape /\ n' = n + 1 /\ plotting' = plotting
        /\ drawn' = drawn \cup Ink(Stroke)
    <3>1. CASE DrawArc
      BY <3>1 DEF DrawArc, Begins, Drawn, Ink, pt1, pt2
    <3>2. CASE DrawPoint
      BY <3>2 DEF DrawPoint, Begins, Ink, pt1, pt2
    <3>3. CASE DrawVerticalLine
      BY <3>3 DEF DrawVerticalLine, Begins, Drawn, Ink, pt1, pt2
    <3>4. CASE DrawHorizontalLine
      <4>1. pt1.x # pt2.x
        <5>1. pt1 \in Point /\ pt2 \in Point
          BY <2>4, StrokeType DEF IInv
        <5> QED
          BY <3>4, <5>1 DEF DrawHorizontalLine, Point
      <4> QED
        BY <3>4, <4>1 DEF DrawHorizontalLine, Begins, Drawn, Ink, pt1, pt2
    <3>5. CASE DrawSlantedLine
      BY <3>5, <2>6 DEF DrawSlantedLine, Begins, AlongAxis, pt1, pt2
    <3> QED
      BY <1>3, <2>3, <3>1, <3>2, <3>3, <3>4, <3>5 DEF Next
  <2> DEFINE before == UNION {Ink(Strokes(shape)[m]) : m \in 1..n - 1}
             all == UNION {Ink(Strokes(shape)[m]) : m \in 1..n}
  <2>8. all = before \cup Ink(Stroke)
    <3>1. \A x : x \in all <=> \E m \in 1..n : x \in Ink(Strokes(shape)[m])
      OBVIOUS
    <3>2. \A x : x \in before <=> \E m \in 1..n - 1 : x \in Ink(Strokes(shape)[m])
      OBVIOUS
    <3>3. 1..n = (1..n - 1) \cup {n}
      BY <2>1
    <3>4. Stroke = Strokes(shape)[n]
      BY DEF Stroke
    <3> HIDE DEF all, before
    <3>5. ASSUME NEW x PROVE x \in all <=> x \in before \/ x \in Ink(Stroke)
      BY <3>1, <3>2, <3>3, <3>4
    <3> QED
      BY <3>5
  <2>9. n' - 1 = n
    BY <2>1, <2>7
  <2> QED
    BY <2>1, <2>2, <2>5, <2>7, <2>8, <2>9 DEF Inked, Stroke
<1> QED
  BY <1>1, <1>2, <1>3

-----------------------------------------------------------------------------
\* What lies on a rectangle's outline.
LEMMA OutlineAt ==
  ASSUME NEW r \in Rects, NEW p
  PROVE  p \in Outline(r) <=>
           /\ p \in Point
           /\ r.x <= p.x /\ p.x <= r.x + r.w /\ r.y <= p.y /\ p.y <= r.y + r.h
           /\ \/ p.x = r.x \/ p.x = r.x + r.w
              \/ p.y = r.y \/ p.y = r.y + r.h
<1>1. /\ r.x \in Int /\ r.y \in Int /\ r.w \in Nat /\ r.h \in Nat
      /\ Tl(r).x = r.x /\ Tl(r).y = r.y /\ Br(r).x = r.x + r.w /\ Br(r).y = r.y + r.h
  BY CornersAt DEF At
<1>2. Pixels(Tl(r), Br(r)) = [x : r.x..r.x + r.w, y : r.y..r.y + r.h]
  BY <1>1 DEF Pixels
<1>3. p \in Pixels(Tl(r), Br(r)) <=>
        /\ p \in Point
        /\ r.x <= p.x /\ p.x <= r.x + r.w /\ r.y <= p.y /\ p.y <= r.y + r.h
  BY <1>1, <1>2 DEF Point
<1> QED
  BY <1>3 DEF Outline

\* The four lines of a rectangle leave out its lower right corner only.
LEMMA RectInk ==
  ASSUME NEW s \in Shapes, s.kind = "rect", s.rect.w > 0, s.rect.h > 0
  PROVE  UNION {Ink(Strokes(s)[m]) : m \in 1..Len(Strokes(s))} = Outline(s.rect) \ {Br(s.rect)}
<1> DEFINE r == s.rect
           l == r.x  t == r.y  right == r.x + r.w  b == r.y + r.h
<1>1. r \in Rects
  BY DEF Shapes
<1>2. /\ l \in Int /\ t \in Int /\ right \in Int /\ b \in Int /\ l < right /\ t < b
      /\ Br(r) = At(right, b)
  BY <1>1, CornersAt
<1>3. UNION {Ink(Strokes(s)[m]) : m \in 1..Len(Strokes(s))} =
        Ink(Strokes(s)[1]) \cup Ink(Strokes(s)[2]) \cup Ink(Strokes(s)[3]) \cup Ink(Strokes(s)[4])
  <2>1. Len(Strokes(s)) = 4
    BY RectStrokesAt
  <2>2. 1..4 = {1, 2, 3, 4}
    OBVIOUS
  <2> QED
    BY <2>1, <2>2
<1>4. /\ Strokes(s)[1] = Line(At(l, t), At(l, b)) /\ Strokes(s)[2] = Line(At(l, b), At(right, b))
      /\ Strokes(s)[3] = Line(At(right, b), At(right, t))
      /\ Strokes(s)[4] = Line(At(right, t), At(l, t))
  BY RectStrokesAt
<1>5. /\ Ink(Strokes(s)[1]) = Column(l, t, b) /\ Ink(Strokes(s)[2]) = Row(b, l, right)
      /\ Ink(Strokes(s)[3]) = Column(right, t, b) /\ Ink(Strokes(s)[4]) = Row(t, l, right)
  <2> HIDE DEF l, t, right, b
  <2> QED
    BY <1>2, <1>4, ColumnDrawn, RowDrawn
<1>6. ASSUME NEW p
      PROVE  p \in Column(l, t, b) \cup Row(b, l, right) \cup Column(right, t, b) \cup Row(t, l, right)
               <=> p \in Outline(r) \ {Br(r)}
  <2>1. p \in Outline(r) <=>
          /\ p \in Point
          /\ l <= p.x /\ p.x <= right /\ t <= p.y /\ p.y <= b
          /\ p.x = l \/ p.x = right \/ p.y = t \/ p.y = b
    BY <1>1, OutlineAt
  <2>2. p \in Point => (p = Br(r) <=> p.x = right /\ p.y = b)
    BY <1>2 DEF At, Point
  <2>3. p \in Point => p.x \in Int /\ p.y \in Int
    BY DEF Point
  <2> HIDE DEF l, t, right, b
  <2> QED
    BY <1>2, <2>1, <2>2, <2>3 DEF Column, Row
<1> QED
  BY <1>3, <1>5, <1>6 DEF r

\* A rounded rectangle whose corners leave something of each side: its lines
\* and the ends of its arcs hold every side from end to end.
LEMMA RoundedInk ==
  ASSUME NEW s \in Shapes, s.kind = "rounded",
         2 * s.radius < s.rect.w, 2 * s.radius < s.rect.h
  PROVE  Sides(s.rect, s.radius) \subseteq
           UNION {Ink(Strokes(s)[m]) : m \in 1..Len(Strokes(s))}
<1> DEFINE r == s.rect  k == s.radius
           l == r.x  t == r.y  right == r.x + r.w  b == r.y + r.h
           all == UNION {Ink(Strokes(s)[m]) : m \in 1..Len(Strokes(s))}
<1>1. r \in Rects /\ r.w \in Nat /\ r.h \in Nat
  BY CornersAt DEF Shapes
<1>2. /\ l \in Int /\ t \in Int /\ right \in Int /\ b \in Int /\ k \in Nat
      /\ l + k < right - k /\ t + k < b - k
  BY <1>1, RoundedStrokesAt
<1>3. \A m \in 1..8 : Ink(Strokes(s)[m]) \subseteq all
  <2>1. Len(Strokes(s)) = 8
    BY RoundedStrokesAt
  <2> QED
    BY <2>1
<1>4. /\ Strokes(s)[2] = Line(At(l, t + k), At(l, b - k))
      /\ Strokes(s)[3] = Arc(At(l + k, b - k), k, 2)
      /\ Strokes(s)[4] = Line(At(l + k, b), At(right - k, b))
      /\ Strokes(s)[5] = Arc(At(right - k, b - k), k, 3)
      /\ Strokes(s)[6] = Line(At(right, b - k), At(right, t + k))
      /\ Strokes(s)[7] = Arc(At(right - k, t + k), k, 0)
      /\ Strokes(s)[8] = Line(At(right - k, t), At(l + k, t))
  BY RoundedStrokesAt
<1> HIDE DEF all
<1>5. /\ Column(l, t + k, b - k) \subseteq all /\ Column(right, t + k, b - k) \subseteq all
      /\ Row(b, l + k, right - k) \subseteq all /\ Row(t, l + k, right - k) \subseteq all
  <2> HIDE DEF l, t, right, b, k
  <2>1. l + k \in Int /\ right - k \in Int /\ t + k \in Int /\ b - k \in Int
    BY <1>2
  <2>2. Ink(Strokes(s)[2]) = Column(l, t + k, b - k) /\ Ink(Strokes(s)[6]) = Column(right, t + k, b - k)
    BY <1>2, <1>4, <2>1, ColumnDrawn
  <2>3. Ink(Strokes(s)[4]) = Row(b, l + k, right - k) /\ Ink(Strokes(s)[8]) = Row(t, l + k, right - k)
    BY <1>2, <1>4, <2>1, RowDrawn
  <2> QED
    BY <1>3, <2>2, <2>3
\* The arcs end where the lines stop.
<1>6. At(l, b - k) \in all /\ At(right - k, b) \in all /\ At(right, b - k) \in all
      /\ At(right, t + k) \in all /\ At(right - k, t) \in all
  <2> HIDE DEF l, t, right, b, k
  <2>1. \A m \in 1..8 : Strokes(s)[m].arc =>
          Strokes(s)[m].from \in all /\ Strokes(s)[m].to \in all
    BY <1>3 DEF Ink
  <2>2. \A c : /\ Arc(c, k, 2).arc /\ Arc(c, k, 2).from = Left(c, k)
               /\ Arc(c, k, 3).arc /\ Arc(c, k, 3).from = Down(c, k) /\ Arc(c, k, 3).to = Right(c, k)
               /\ Arc(c, k, 0).arc /\ Arc(c, k, 0).from = Right(c, k) /\ Arc(c, k, 0).to = Up(c, k)
    BY DEF Arc, OnCircle
  <2>3. /\ Left(At(l + k, b - k), k) = At(l, b - k)
        /\ Down(At(right - k, b - k), k) = At(right - k, b)
        /\ Right(At(right - k, b - k), k) = At(right, b - k)
        /\ Right(At(right - k, t + k), k) = At(right, t + k)
        /\ Up(At(right - k, t + k), k) = At(right - k, t)
    <3>1. /\ (l + k) - k = l /\ (right - k) + k = right /\ (b - k) + k = b /\ (t + k) - k = t
      BY <1>2
    <3>2. \A x, y : /\ Left(At(x, y), k) = At(x - k, y) /\ Right(At(x, y), k) = At(x + k, y)
                    /\ Up(At(x, y), k) = At(x, y - k) /\ Down(At(x, y), k) = At(x, y + k)
      BY DEF At, Left, Right, Up, Down
    <3>3. Left(At(l + k, b - k), k) = At((l + k) - k, b - k)
      BY <3>2, Zenon
    <3>4. Down(At(right - k, b - k), k) = At(right - k, (b - k) + k)
      BY <3>2, Zenon
    <3>5. Right(At(right - k, b - k), k) = At((right - k) + k, b - k)
      BY <3>2, Zenon
    <3>6. Right(At(right - k, t + k), k) = At((right - k) + k, t + k)
      BY <3>2, Zenon
    <3>7. Up(At(right - k, t + k), k) = At(right - k, (t + k) - k)
      BY <3>2, Zenon
    <3> QED
      BY <3>1, <3>3, <3>4, <3>5, <3>6, <3>7
  <2>4. Strokes(s)[3].from = At(l, b - k) /\ Strokes(s)[3].arc
    BY <1>4, <2>2, <2>3
  <2>5. /\ Strokes(s)[5].from = At(right - k, b) /\ Strokes(s)[5].to = At(right, b - k)
        /\ Strokes(s)[5].arc
    BY <1>4, <2>2, <2>3
  <2>6. /\ Strokes(s)[7].from = At(right, t + k) /\ Strokes(s)[7].to = At(right - k, t)
        /\ Strokes(s)[7].arc
    BY <1>4, <2>2, <2>3
  <2> QED
    BY <2>1, <2>4, <2>5, <2>6
<1>7. ASSUME NEW p \in Sides(r, k) PROVE p \in all
  <2>1. /\ p \in Point /\ p.x \in Int /\ p.y \in Int
        /\ l <= p.x /\ p.x <= right /\ t <= p.y /\ p.y <= b
        /\ p.x = l \/ p.x = right \/ p.y = t \/ p.y = b
    BY <1>1, <1>7, OutlineAt DEF Sides, Point
  <2>2. \/ l + k <= p.x /\ p.x <= right - k
        \/ t + k <= p.y /\ p.y <= b - k
    BY <1>1, <1>2, <1>7, <2>1 DEF Sides
  <2>3. p = At(p.x, p.y)
    BY <2>1 DEF At, Point
  <2> HIDE DEF l, t, right, b, k
  <2>4. \/ /\ p.x = l \/ p.x = right
           /\ t + k <= p.y /\ p.y <= b - k
        \/ /\ p.y = t \/ p.y = b
           /\ l + k <= p.x /\ p.x <= right - k
    BY <1>2, <2>1, <2>2
  <2>5. CASE (p.x = l \/ p.x = right) /\ t + k <= p.y /\ p.y < b - k
    BY <1>5, <2>1, <2>5 DEF Column
  <2>6. CASE (p.x = l \/ p.x = right) /\ p.y = b - k
    BY <1>6, <2>3, <2>6
  <2>7. CASE (p.y = t \/ p.y = b) /\ l + k <= p.x /\ p.x < right - k
    BY <1>5, <2>1, <2>7 DEF Row
  <2>8. CASE (p.y = t \/ p.y = b) /\ p.x = right - k
    BY <1>6, <2>3, <2>8
  <2> QED
    BY <1>2, <2>1, <2>4, <2>5, <2>6, <2>7, <2>8
<1> QED
  BY <1>7 DEF r, k, all

\* Of every rectangle with two sides the outline is drawn but for the lower
\* right corner, and nothing beside it; of every rounded one whose corners
\* leave something of each side, the sides from end to end.
THEOREM OutlineComplete == Spec => []OutlineDrawn
<1>1. ASSUME IInv, Inked PROVE OutlineDrawn
  <2> SUFFICES ASSUME Done
               PROVE  /\ shape.kind = "rect" /\ shape.rect.w > 0 /\ shape.rect.h > 0 =>
                           drawn = Outline(shape.rect) \ {Br(shape.rect)}
                      /\ shape.kind = "rounded" =>
                           (2 * shape.radius < shape.rect.w /\ 2 * shape.radius < shape.rect.h =>
                              Sides(shape.rect, shape.radius) \subseteq drawn)
    BY DEF OutlineDrawn
  <2>1. shape \in Shapes /\ n \in Nat
    BY <1>1 DEF IInv, TypeOK
  <2>2. ASSUME shape.kind # "line"
        PROVE  drawn = UNION {Ink(Strokes(shape)[m]) : m \in 1..Len(Strokes(shape))}
    <3>1. Len(Strokes(shape)) \in Nat
      BY <2>1, <2>2, RectStrokesAt, RoundedStrokesAt DEF Shapes
    <3>2. n - 1 = Len(Strokes(shape))
      BY <1>1, <2>1, <2>2, <3>1 DEF Inked, Done
    <3> QED
      BY <1>1, <2>2, <3>2 DEF Inked
  <2> QED
    BY <2>1, <2>2, RectInk, RoundedInk
<1>2. Init => IInv /\ Inked
  BY Initially, InkedFirst
<1>3. IInv /\ Inked /\ [Next]_vars => (IInv /\ Inked)'
  BY StepKeeps, InkedKeeps
<1> QED
  BY <1>1, <1>2, <1>3, PTL DEF Spec

-----------------------------------------------------------------------------
\* A line between two equal points is one of a shape with a side of no length.
LEMMA PointHasNoSide ==
  ASSUME NEW s \in Shapes, NEW m \in 1..Len(Strokes(s)), ~Strokes(s)[m].arc,
         Strokes(s)[m].from = Strokes(s)[m].to
  PROVE  CASE s.kind = "line" -> s.from = s.to
           [] s.kind = "rect" -> s.rect.w = 0 \/ s.rect.h = 0
           [] s.kind = "rounded" -> 2 * s.radius \in {s.rect.w, s.rect.h}
<1>1. \A p, q : Line(p, q).arc = FALSE /\ Line(p, q).from = p /\ Line(p, q).to = q
  BY DEF Line
<1>2. \A x, y, z, w : At(x, y) = At(z, w) => x = z /\ y = w
  <2> TAKE x, y, z, w
  <2>1. At(x, y).x = x /\ At(x, y).y = y /\ At(z, w).x = z /\ At(z, w).y = w
    BY DEF At
  <2> QED
    BY <2>1
<1>3. CASE s.kind = "line"
  <2>1. Len(Strokes(s)) = 1 /\ Strokes(s)[1] = Line(s.from, s.to)
    BY <1>3 DEF Strokes
  <2> QED
    BY <2>1, <1>1, <1>3
<1>4. CASE s.kind = "rect"
  <2> DEFINE r == s.rect
  <2>1. r.x \in Int /\ r.y \in Int /\ r.w \in Nat /\ r.h \in Nat
    BY <1>4, CornersAt DEF Shapes
  <2>2. m \in 1..4
    BY <1>4, RectStrokesAt
  <2>3. r.y = r.y + r.h \/ r.x = r.x + r.w
    BY <1>1, <1>2, <1>4, <2>2, RectStrokesAt
  <2>4. r.w = 0 \/ r.h = 0
    BY <2>1, <2>3
  <2> QED
    BY <1>4, <2>4
<1>5. CASE s.kind = "rounded"
  <2> DEFINE r == s.rect  k == s.radius
             l == r.x  t == r.y  right == r.x + r.w  b == r.y + r.h
  <2>1. r.x \in Int /\ r.y \in Int /\ r.w \in Nat /\ r.h \in Nat /\ k \in Nat
    BY <1>5, CornersAt, RoundedStrokesAt DEF Shapes
  <2>2. m \in {2, 4, 6, 8}
    <3>1. m \in 1..8
      BY <1>5, RoundedStrokesAt
    <3>2. \A c, j, quarter : Arc(c, j, quarter).arc
      BY DEF Arc
    <3> QED
      BY <1>5, <3>1, <3>2, RoundedStrokesAt
  <2>3. t + k = b - k \/ l + k = right - k
    <3>1. /\ Strokes(s)[2] = Line(At(l, t + k), At(l, b - k))
          /\ Strokes(s)[4] = Line(At(l + k, b), At(right - k, b))
          /\ Strokes(s)[6] = Line(At(right, b - k), At(right, t + k))
          /\ Strokes(s)[8] = Line(At(right - k, t), At(l + k, t))
      BY <1>5, RoundedStrokesAt
    <3> HIDE DEF l, t, right, b, k
    <3>2. CASE m = 2
      <4>1. At(l, t + k) = At(l, b - k)
        BY <1>1, <3>1, <3>2
      <4> QED
        BY <1>2, <4>1, Zenon
    <3>3. CASE m = 4
      <4>1. At(l + k, b) = At(right - k, b)
        BY <1>1, <3>1, <3>3
      <4> QED
        BY <1>2, <4>1, Zenon
    <3>4. CASE m = 6
      <4>1. At(right, b - k) = At(right, t + k)
        BY <1>1, <3>1, <3>4
      <4> QED
        BY <1>2, <4>1, Zenon
    <3>5. CASE m = 8
      <4>1. At(right - k, t) = At(l + k, t)
        BY <1>1, <3>1, <3>5
      <4> QED
        BY <1>2, <4>1, Zenon
    <3> QED
      BY <2>2, <3>2, <3>3, <3>4, <3>5
  <2>4. 2 * k \in {r.w, r.h}
    <3>1. t = r.y /\ b = r.y + r.h /\ l = r.x /\ right = r.x + r.w
      OBVIOUS
    <3> HIDE DEF l, t, right, b, k, r
    <3>2. CASE t + k = b - k
      BY <2>1, <3>1, <3>2
    <3>3. CASE l + k = right - k
      <4>1. r.x + k = (r.x + r.w) - k
        BY <3>1, <3>3
      <4>2. 2 * k = r.w
        BY <2>1, <4>1
      <4> QED
        BY <4>2
    <3> QED
      BY <2>3, <3>2, <3>3
  <2> QED
    BY <1>5, <2>4
<1> QED
  BY <1>3, <1>4, <1>5 DEF Shapes

\* Nothing is written over the memory map unless a side has no length
\* (draw.rs:128-133).
THEOREM MapIsSpared == Spec => []MapSpared
<1> USE DEF MapSpared
<1>1. Init => MapSpared
  BY DEF Init
<1>2. ASSUME IInv, MapSpared, [Next]_vars PROVE MapSpared'
  <2>1. CASE DrawPoint
    <3>1. /\ n \in 1..Len(Strokes(shape)) /\ shape \in Shapes /\ shape' = shape
          /\ ~Strokes(shape)[n].arc /\ Strokes(shape)[n].from = Strokes(shape)[n].to
      BY <1>2, <2>1 DEF DrawPoint, Begins, IInv, TypeOK, Done, Stroke, pt1, pt2
    <3> QED
      BY <3>1, PointHasNoSide
  <2>2. CASE ~DrawPoint
    <3>1. shape' = shape /\ spoiled' = spoiled
      BY <1>2, <2>2 DEF Next, DrawArc, DrawVerticalLine, DrawHorizontalLine, DrawSlantedLine,
         Plot, Drawn, vars
    <3> QED
      BY <1>2, <3>1
  <2> QED
    BY <2>1, <2>2
<1> QED
  BY <1>1, <1>2, Inductive, PTL DEF Spec
=============================================================================
