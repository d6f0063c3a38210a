------------------------------- MODULE Strokes ------------------------------
(***************************************************************************)
(* The rasterizer of cosmetic strokes (rasterize_polyline and what it      *)
(* calls, client display/canvas.rs), one line of a path at a time, on the  *)
(* coverage of the destination area.                                       *)
(*                                                                         *)
(* The code computes in f64.  A number here is a multiple of 2^-Scale with *)
(* at most Precision significant bits, and every operation rounds to the   *)
(* nearest such number, ties to even: f64 is this format with 53 bits.     *)
(* Lines are axis-parallel between whole pixels, where hypot is exact.     *)
(***************************************************************************)
EXTENDS Integers, Sequences, FiniteSetsExt, SequencesExt

CONSTANTS
  Precision, Scale,            \* the number format
  WorkMultiplier, WorkFloor,   \* STROKE_WORK_MULTIPLIER, and the constant of work_limit
  Destination,                 \* the area: [x, y, width, height]
  Vertices,                    \* points of the paths
  Dashes,                      \* styles: sequences of lengths in sixteenths of a pixel
  MaxLines                     \* bound: lines of a path

VARIABLES
  path,   \* the points so far
  style,  \* [dash, gap]
  plot    \* [coverage, dash, work, failed]; coverage: 1 foreground, 2 background

strokeVars == <<path, style, plot>>

One == 2 ^ Scale
Abs(n) == IF n < 0 THEN -n ELSE n
-----------------------------------------------------------------------------
(* The operations of the number format. *)

\* The number nearest to n / d, for d > 0.
RoundedUp(n, d) ==
  LET ulp  == 2 ^ (CHOOSE e \in 0..Scale : n \div d < 2 ^ (Precision + e)
                                           /\ (e = 0 \/ n \div d >= 2 ^ (Precision + e - 1)))
      q    == n \div (d * ulp)
      rest == 2 * (n % (d * ulp)) IN
  ulp * (IF rest > d * ulp \/ (rest = d * ulp /\ q % 2 = 1) THEN q + 1 ELSE q)
Rounded(n, d) == IF n < 0 THEN -RoundedUp(-n, d) ELSE RoundedUp(n, d)

Plus(a, b) == Rounded(a + b, 1)
Minus(a, b) == Rounded(a - b, 1)
Times(a, b) == Rounded(a * b, One)
Over(a, b) == IF b < 0 THEN Rounded(-a * One, -b) ELSE Rounded(a * One, b)
Floor(a) == a \div One
Ceiling(a) == -((-a) \div One)
-----------------------------------------------------------------------------
(* Dashes. *)

DashLengths(c) == [k \in DOMAIN c.dash |-> Over(c.dash[k] * One, 16 * One)]
DashStart(c) == [index |-> 0, remaining |-> IF c.dash = <<>> THEN 0 ELSE DashLengths(c)[1]]
Foreground(c, dash) == c.dash = <<>> \/ (dash.index % 2 = 0) # c.gap

RECURSIVE AdvanceLate(_, _, _), Advance(_, _, _)
\* Mutant: a dash ends after its last point.
AdvanceLate(c, dash, distance) ==
  IF c.dash = <<>> THEN dash
  ELSE IF distance > dash.remaining
       THEN LET next == (dash.index + 1) % Len(c.dash) IN
            AdvanceLate(c, [index |-> next, remaining |-> DashLengths(c)[next + 1]], Minus(distance, dash.remaining))
       ELSE [dash EXCEPT !.remaining = Minus(@, distance)]

Advance(c, dash, distance) ==
  IF c.dash = <<>> THEN dash
  ELSE IF distance >= dash.remaining
       THEN LET next == (dash.index + 1) % Len(c.dash) IN
            Advance(c, [index |-> next, remaining |-> DashLengths(c)[next + 1]], Minus(distance, dash.remaining))
       ELSE [dash EXCEPT !.remaining = Minus(@, distance)]
-----------------------------------------------------------------------------
(* Lines. *)

\* destination_index, as membership and as an index.
Inside(box, p) == p[1] \in box.x..(box.x + box.width - 1) /\ p[2] \in box.y..(box.y + box.height - 1)
IndexIn(box, p) == (p[2] - box.y) * box.width + (p[1] - box.x)
Blank(box) == [i \in 0..(box.width * box.height - 1) |-> 0]

\* clip_line_to_bounds: the fractions of the line at which it enters and leaves.
Clipped(a, b, box) ==
  LET low   == <<box.x, box.y>>
      high  == <<box.x + box.width, box.y + box.height>>
      \* the four <<p, q>> of the code, of the edges of one axis each
      edges == UNION {{<<(a[k] - b[k]) * One, (a[k] - low[k]) * One>>,
                       <<(b[k] - a[k]) * One, (high[k] - a[k]) * One>>} : k \in 1..2}
      lower == Max({0} \cup {Over(e[2], e[1]) : e \in {e \in edges : e[1] < 0}})
      upper == Min({One} \cup {Over(e[2], e[1]) : e \in {e \in edges : e[1] > 0}}) IN
  [hit |-> lower <= upper /\ \A e \in edges : e[1] = 0 => e[2] >= 0, lower |-> lower, upper |-> upper]

\* Mutant: the whole line counts, however little of it is inside.
StepsUnclipped(length, run) == Max({1, Ceiling(length)})
Steps(length, run) == Max({1, Ceiling(Max({Abs(run[1]), Abs(run[2])}))})

WorkLimit(box) == WorkMultiplier * box.width * box.height + WorkFloor

\* The point at a fraction of the way from start along run, and the pixel it is in.
PointAt(start, run, f) == <<Plus(start[1], Times(run[1], f)), Plus(start[2], Times(run[2], f))>>
PixelAt(start, run, f) == <<Floor(PointAt(start, run, f)[1]), Floor(PointAt(start, run, f)[2])>>
Way(start, end) == <<Minus(end[1], start[1]), Minus(end[2], start[2])>>

\* rasterize_line, the part inside: as many steps as the longer way has pixels.
Traced(c, s, box, length, cut, start, run, steps, stride) ==
  LET step(t, k) ==
        LET p == PixelAt(start, run, Over(k * One, steps * One))
            ink == IF Foreground(c, t.dash) THEN 1 ELSE 2 IN
        [t EXCEPT !.coverage = IF Inside(box, p) THEN [@ EXCEPT ![IndexIn(box, p)] = ink] ELSE @,
                  !.dash = Advance(c, @, stride)]
      entered == [s EXCEPT !.dash = Advance(c, @, Times(length, cut.lower)), !.work = @ + steps]
      plotted == FoldLeft(step, entered, [k \in 1..steps |-> k - 1]) IN
  IF s.work + steps > WorkLimit(box) THEN [s EXCEPT !.work = @ + steps, !.failed = TRUE]
  ELSE [plotted EXCEPT !.dash = Advance(c, @, Times(length, Minus(One, cut.upper)))]

Entered(c, s, box, length, cut, start, run) ==
  LET steps == Steps(length, run) IN
  Traced(c, s, box, length, cut, start, run, steps,
         Over(Times(length, Minus(cut.upper, cut.lower)), steps * One))

\* rasterize_line.
Line(c, s, a, b, box) ==
  LET from   == <<a[1] * One, a[2] * One>>
      delta  == <<(b[1] - a[1]) * One, (b[2] - a[2]) * One>>
      length == Abs(delta[1]) + Abs(delta[2])
      visible(cut) ==
        LET start == PointAt(from, delta, cut.lower) IN
        IF cut.hit THEN Entered(c, s, box, length, cut, start, Way(start, PointAt(from, delta, cut.upper)))
        ELSE [s EXCEPT !.dash = Advance(c, @, length)] IN
  IF a = b THEN s ELSE visible(Clipped(a, b, box))

NoStroke(c, box) == [coverage |-> Blank(box), dash |-> DashStart(c), work |-> 0, failed |-> FALSE]

\* rasterize_polyline, with the closing line.
Coverage(c, box) ==
  LET points == IF c.close /\ Len(c.path) > 1 THEN Append(c.path, c.path[1]) ELSE c.path IN
  FoldLeft(LAMBDA s, k : IF s.failed THEN s ELSE Line(c, s, points[k], points[k + 1], box),
           NoStroke(c, box), [k \in 1..(Len(points) - 1) |-> k])
-----------------------------------------------------------------------------
(* A path drawn line by line. *)

Parallel(a, b) == a # b /\ (a[1] = b[1] \/ a[2] = b[2])

StrokesInit ==
  /\ \E v \in Vertices : path = <<v>>
  /\ style \in [dash : Dashes, gap : BOOLEAN]
  /\ plot = NoStroke(style, Destination)

LineTo(v) ==
  /\ ~plot.failed /\ Len(path) <= MaxLines /\ Parallel(Last(path), v)
  /\ plot' = Line(style, plot, Last(path), v, Destination)
  /\ path' = Append(path, v)
  /\ UNCHANGED style

StrokesNext == \E v \in Vertices : LineTo(v)
-----------------------------------------------------------------------------
(* What a stroke means, in whole pixels. *)

Sign(n) == IF n = 0 THEN 0 ELSE n \div Abs(n)
Span(a, b) == Abs(b[1] - a[1]) + Abs(b[2] - a[2])
Along(a, b, k) == <<a[1] + Sign(b[1] - a[1]) * k, a[2] + Sign(b[2] - a[2]) * k>>
Lines == 1..(Len(path) - 1)
Pixels == (Destination.x..(Destination.x + Destination.width - 1))
            \X (Destination.y..(Destination.y + Destination.height - 1))
Ink(p) == plot.coverage[IndexIn(Destination, p)]

\* Where line j enters and leaves the area, as distances from its start; both
\* edges of an axis belong to the area.
Reach(j) ==
  LET a == path[j]
      b == path[j + 1]
      axis == IF a[1] # b[1] THEN 1 ELSE 2
      low == <<Destination.x, Destination.y>>[axis]
      high == low + <<Destination.width, Destination.height>>[axis]
      within(n) == Max({low, Min({high, n})}) IN
  [from |-> Abs(within(a[axis]) - a[axis]), shown |-> Abs(within(b[axis]) - within(a[axis]))]

\* The pixels of line j, as distances: from where it enters to the one before
\* where it leaves, at least one.  A line that leaves through the left or upper
\* edge therefore spares the pixel at that edge, and one that comes from outside
\* and ends there covers its end.
Places(j) ==
  LET r == Reach(j) IN
  IF r.from > Span(path[j], path[j + 1]) THEN {}
  ELSE {k \in r.from..(r.from + Max({1, r.shown}) - 1) : Along(path[j], path[j + 1], k) \in Pixels}

\* The distances from the start of the path at which it passes p, and whether it
\* is in a dash at a distance.
Travelled(j) == FoldLeft(LAMBDA n, k : n + Span(path[k], path[k + 1]), 0, [k \in 1..(j - 1) |-> k])
Visits(p) ==
  UNION {{Travelled(j) + k : k \in {k \in Places(j) : Along(path[j], path[j + 1], k) = p}} : j \in Lines}
Dashed(distance) ==
  style.dash = <<>> \/
    LET before(m) == FoldLeft(LAMBDA n, k : n + k, 0, SubSeq(style.dash, 1, m))
        rest == (16 * distance) % before(Len(style.dash))
        at == CHOOSE m \in 0..(Len(style.dash) - 1) : before(m) <= rest /\ rest < before(m + 1) IN
    (at % 2 = 0) # style.gap

\* n = 2^i + 2^j: dividing by n and multiplying by it again loses nothing.
TwoBits(n) == n = 0 \/ \E i, j \in 0..Precision : n = 2 ^ i + 2 ^ j
PowerOfTwo(n) == \E i \in 0..Precision : n = 2 ^ i
Representable(j) ==
  LET span == Span(path[j], path[j + 1]) IN
  /\ TwoBits(span) /\ TwoBits(Reach(j).shown)
  /\ style.dash = <<>> \/ Reach(j).shown = span \/ PowerOfTwo(span)

\* rasterize_line covers no pixel off the path.
OnItsPath ==
  \A p \in Pixels : Ink(p) # 0 =>
    \E j \in Lines : \E k \in 0..Span(path[j], path[j + 1]) : Along(path[j], path[j + 1], k) = p

\* Rounding may drop a pixel of a line, never two successive ones.
NeverTwoMissed ==
  ~plot.failed => \A j \in Lines : \A k \in Places(j) : k + 1 \in Places(j) =>
    \E n \in {k, k + 1} : Ink(Along(path[j], path[j + 1], n)) # 0

\* Where no ratio is rounded away, a stroke covers exactly the pixels of its
\* lines, dashed by the distance from the start of the path, a later line over
\* an earlier one.
ExactWhenRepresentable ==
  ~plot.failed /\ (\A j \in Lines : Representable(j)) =>
    \A p \in Pixels :
      Ink(p) = IF Visits(p) = {} THEN 0 ELSE IF Dashed(Max(Visits(p))) THEN 1 ELSE 2

\* The work limit of a stroke counts what is inside the area: a stroke is
\* refused only when its lines are too many for the area, however long they are.
RefusedByShownWork ==
  plot.failed => (Len(path) - 1) * (Max({Destination.width, Destination.height}) + 1) > WorkLimit(Destination)

(* The coverage of a stroke: on its path, without two successive pixels    *)
(* missing, exact where nothing is rounded, refused only for what is shown.*)
StrokesFaithful ==
  OnItsPath /\ NeverTwoMissed /\ ExactWhenRepresentable /\ RefusedByShownWork

\* The test cosmetic_stroke_is_endpoint_exclusive_and_bounded_to_destination: a
\* stroke leaves the end point of its path uncovered, unless a line passes it.
Passes(p) ==
  \E j \in Lines : \E k \in 0..(Span(path[j], path[j + 1]) - 1) : Along(path[j], path[j + 1], k) = p
EndpointExclusive ==
  Last(path) \in Pixels /\ ~Passes(Last(path)) => Ink(Last(path)) = 0

\* Every pixel of the area that a line passes is covered.
EveryPixelCovered ==
  ~plot.failed => \A p \in Pixels : Passes(p) => Ink(p) # 0
=============================================================================
