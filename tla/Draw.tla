-------------------------------- MODULE Draw --------------------------------
(***************************************************************************)
(* kiss/draw.rs: lines, rectangles and rounded rectangles.                 *)
(*                                                                         *)
(* A shape is a sequence of strokes, lines and arcs.  A pixel is a point;  *)
(* colour and width play no part.  Of an arc only its two ends are kept:   *)
(* the points between come from cosf and sinf.                             *)
(***************************************************************************)
EXTENDS Integers, Sequences

CONSTANTS
  Points,  \* points a caller may name
  Radii    \* radii of rounded corners

Point == [x : Int, y : Int]
ASSUME PointsAssumption == Points \subseteq Point
ASSUME RadiiAssumption == Radii \subseteq Nat

VARIABLES
  shape,   \* what the caller asked for
  n,       \* the stroke being drawn
  x0, y0, err,  \* the loop of draw_line
  plotting,     \* it is in the loop of draw_line
  drawn,   \* pixels written
  spoiled  \* pixels written from memory_map_addr on instead of the screen
vars == <<shape, n, x0, y0, err, plotting, drawn, spoiled>>

-----------------------------------------------------------------------------
Abs(k) == IF k < 0 THEN -k ELSE k
Lesser(a, b) == IF a < b THEN a ELSE b

LeftOneMore(p, k) == [p EXCEPT !.x = @ - k - 1]  \* mutant
UpDown(p, k) == [p EXCEPT !.y = @ + k]  \* mutant: the wrong way
Left(p, k) == [p EXCEPT !.x = @ - k]
Up(p, k) == [p EXCEPT !.y = @ - k]
Right(p, k) == [p EXCEPT !.x = @ + k]
Down(p, k) == [p EXCEPT !.y = @ + k]

FromLtrb(l, t, r, b) ==
  [x |-> Lesser(l, r), y |-> Lesser(t, b), w |-> Abs(r - l), h |-> Abs(b - t)]
Tl(r) == [x |-> r.x, y |-> r.y]
Tr(r) == Right(Tl(r), r.w)
Bl(r) == Down(Tl(r), r.h)
Br(r) == Down(Tr(r), r.h)

Line(p, q) == [arc |-> FALSE, from |-> p, to |-> q]
\* A quarter of the circle round c, by the number of its first 90 degrees.
OnCircle(c, radius, quarter) ==
  CASE quarter = 0 -> Right(c, radius)
    [] quarter = 1 -> Up(c, radius)
    [] quarter = 2 -> Left(c, radius)
    [] quarter = 3 -> Down(c, radius)
Arc(c, radius, quarter) ==
  [arc |-> TRUE, from |-> OnCircle(c, radius, quarter),
   to |-> OnCircle(c, radius, (quarter + 1) % 4)]

RectStrokes(r) ==
  <<Line(Tl(r), Bl(r)), Line(Bl(r), Br(r)), Line(Br(r), Tr(r)), Line(Tr(r), Tl(r))>>
RoundedStrokes(r, k) ==
  <<Arc(Down(Right(Tl(r), k), k), k, 1), Line(Down(Tl(r), k), Up(Bl(r), k)),
    Arc(Up(Right(Bl(r), k), k), k, 2), Line(Right(Bl(r), k), Left(Br(r), k)),
    Arc(Up(Left(Br(r), k), k), k, 3), Line(Up(Br(r), k), Down(Tr(r), k)),
    Arc(Down(Left(Tr(r), k), k), k, 0), Line(Left(Tr(r), k), Right(Tl(r), k))>>

\* Any two corners; _from_ltrb puts them in order.
Rects == {FromLtrb(p.x, p.y, q.x, q.y) : p \in Points, q \in Points}
Shapes ==
  [kind : {"line"}, from : Points, to : Points]
  \cup [kind : {"rect"}, rect : Rects]
  \cup [kind : {"rounded"}, rect : Rects, radius : Radii]
Strokes(s) ==
  CASE s.kind = "line" -> <<Line(s.from, s.to)>>
    [] s.kind = "rect" -> RectStrokes(s.rect)
    [] s.kind = "rounded" -> RoundedStrokes(s.rect, s.radius)

Done == n > Len(Strokes(shape))
Stroke == Strokes(shape)[n]
pt1 == Stroke.from
pt2 == Stroke.to

Init ==
  /\ shape \in Shapes /\ n = 1
  /\ x0 = 0 /\ y0 = 0 /\ err = 0 /\ plotting = FALSE
  /\ drawn = {} /\ spoiled = {}

-----------------------------------------------------------------------------
BeginsAny(arc) == ~Done /\ ~plotting  \* mutant: an arc is taken for a line
Begins(arc) == ~Done /\ ~plotting /\ Stroke.arc = arc
Drawn(pixels) ==
  /\ drawn' = drawn \cup pixels /\ n' = n + 1
  /\ UNCHANGED <<shape, x0, y0, err, plotting, spoiled>>

DrawArc == Begins(TRUE) /\ Drawn({pt1, pt2})

\* Two equal points: one pixel, its address counted from the memory map's.
DrawPoint ==
  /\ Begins(FALSE) /\ pt1 = pt2
  /\ spoiled' = spoiled \cup {pt1} /\ n' = n + 1
  /\ UNCHANGED <<shape, x0, y0, err, plotting, drawn>>
\* 0..h and 0..w leave the lower or right end out.
Pixels(first, last) == [x : first.x .. last.x, y : first.y .. last.y]
DrawVerticalLine ==
  /\ Begins(FALSE) /\ pt1 # pt2 /\ pt1.x = pt2.x
  /\ LET top == IF pt1.y < pt2.y THEN pt1 ELSE pt2
     IN  Drawn(Pixels(top, Down(top, Abs(pt2.y - pt1.y) - 1)))
DrawHorizontalLine ==
  /\ Begins(FALSE) /\ pt1 # pt2 /\ pt1.y = pt2.y
  /\ LET first == IF pt1.x < pt2.x THEN pt1 ELSE pt2
     IN  Drawn(Pixels(first, Right(first, Abs(pt2.x - pt1.x) - 1)))

\* The loop: one pixel, then a step along x, along y, or both.
dx == Abs(pt2.x - pt1.x)
dy == -Abs(pt2.y - pt1.y)
sx == IF pt1.x < pt2.x THEN 1 ELSE -1
sy == IF pt1.y < pt2.y THEN 1 ELSE -1
ErrAtStartDx == dx  \* mutant
ErrAtStart == dx + dy
DrawSlantedLine ==
  /\ Begins(FALSE) /\ pt1.x # pt2.x /\ pt1.y # pt2.y
  /\ plotting' = TRUE
  /\ x0' = pt1.x /\ y0' = pt1.y /\ err' = ErrAtStart
  /\ UNCHANGED <<shape, n, drawn, spoiled>>
StepsX == 2 * err >= dy
StepsY == 2 * err <= dx
Plot ==
  /\ plotting
  /\ drawn' = drawn \cup {[x |-> x0, y |-> y0]}
  /\ IF x0 = pt2.x /\ y0 = pt2.y
     THEN /\ plotting' = FALSE /\ n' = n + 1
          /\ UNCHANGED <<x0, y0, err>>
     ELSE /\ x0' = IF StepsX THEN x0 + sx ELSE x0
          /\ y0' = IF StepsY THEN y0 + sy ELSE y0
          /\ err' = err + (IF StepsX THEN dy ELSE 0) + (IF StepsY THEN dx ELSE 0)
          /\ UNCHANGED <<plotting, n>>
  /\ UNCHANGED <<shape, spoiled>>

Next ==
  \/ DrawArc \/ DrawPoint \/ DrawVerticalLine \/ DrawHorizontalLine
  \/ DrawSlantedLine \/ Plot

Spec == Init /\ [][Next]_vars

-----------------------------------------------------------------------------
TypeOK ==
  /\ shape \in Shapes /\ n \in Nat \ {0}
  /\ x0 \in Int /\ y0 \in Int /\ err \in Int /\ plotting \in BOOLEAN
  /\ plotting => ~Done /\ ~Stroke.arc

\* draw_line never steps past its second point, in x or in y: it would leave
\* the screen, and never find the end it compares with.
Between(a, p, q) == (p <= a /\ a <= q) \/ (q <= a /\ a <= p)
CursorInBox ==
  plotting => Between(x0, pt1.x, pt2.x) /\ Between(y0, pt1.y, pt2.y)

\* The pixel it draws is never more than half a pixel off the line, measured
\* along y for a flat line and along x for a steep one.
CursorNearLine ==
  plotting =>
    LET k == Abs(x0 - pt1.x)  j == Abs(y0 - pt1.y)
    IN  2 * Abs(j * dx + k * dy) <= (IF dx > -dy THEN dx ELSE -dy)

\* A rectangle of some height and width gets its whole outline but for the
\* lower right corner, which each of its two lines leaves to the other.  The
\* sides of a rounded one meet its arcs: their ends are drawn and all between.
Outline(r) ==
  {p \in Pixels(Tl(r), Br(r)) :
     p.x \in {r.x, r.x + r.w} \/ p.y \in {r.y, r.y + r.h}}
Sides(r, k) ==
  {p \in Outline(r) : p.x - r.x \in k .. r.w - k \/ p.y - r.y \in k .. r.h - k}
OutlineDrawn ==
  Done =>
    /\ shape.kind = "rect" /\ shape.rect.w > 0 /\ shape.rect.h > 0 =>
         drawn = Outline(shape.rect) \ {Br(shape.rect)}
    /\ shape.kind = "rounded" =>
         (2 * shape.radius < shape.rect.w /\ 2 * shape.radius < shape.rect.h =>
            Sides(shape.rect, shape.radius) \subseteq drawn)

\* The memory map is spared unless a side has no length: a point, a
\* rectangle that is a line, corners that take up a whole side.
MapSpared ==
  spoiled # {} =>
    CASE shape.kind = "line" -> shape.from = shape.to
      [] shape.kind = "rect" -> shape.rect.w = 0 \/ shape.rect.h = 0
      [] shape.kind = "rounded" -> 2 * shape.radius \in {shape.rect.w, shape.rect.h}
=============================================================================
