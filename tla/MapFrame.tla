------------------------------- MODULE MapFrame -------------------------------
(***************************************************************************)
(* The pictures of internal/preview: the preview of a mission (Generate)   *)
(* and the small picture of one waypoint (RenderWaypoint), on satellite    *)
(* tiles that are fetched one by one, or on a dark ground if any of them   *)
(* cannot be fetched.                                                      *)
(*                                                                         *)
(* Places are world pixels at the deepest zoom, Sub units to the pixel; a  *)
(* pixel of zoom z is Unit(z) units wide.  The projection itself is left   *)
(* out but for what it does to the middle: the middle latitude of a box is *)
(* not the middle of its pixels, by up to the padding (some twenty degrees *)
(* of latitude, at 60 degrees).  int(x) of Go rounds towards zero.         *)
(***************************************************************************)
EXTENDS Integers, Sequences, FiniteSetsExt

CONSTANTS
  Places,         \* where waypoints are: numbers of pixels at the deepest zoom
  MaxWaypoints,   \* bound: waypoints of a mission
  MinZoom, MaxZoom,   \* 1 and 19
  Tile,           \* the side of a tile, 256 pixels
  Width, Height,  \* the picture
  Margin,         \* DefaultPadding
  PointSpan       \* the span given to a box without one, in units

Sub == 40   \* so that 15 % of a span is whole units

ASSUME FrameAssumption ==
  /\ Places \subseteq Nat /\ MaxWaypoints \in Nat \ {0}
  /\ MinZoom \in Nat /\ MaxZoom \in Nat /\ MinZoom <= MaxZoom
  /\ {Tile, Width, Height} \subseteq Nat \ {0}
  /\ Margin \in Nat /\ 2 * Margin <= Width /\ 2 * Margin <= Height
  /\ PointSpan \in Nat /\ PointSpan % 20 = 0 /\ PointSpan > 0

VARIABLES
  picture,   \* "mission" or "waypoint"
  points,    \* the waypoints
  skew,      \* of the vertical middle: -1, 0 or 1 times the padding
  todo,      \* the tiles to fetch, in order
  ground,    \* what the canvas is: "blank", "tiles", "dark"
  painted,   \* the tiles on it
  marks,     \* where the markers are drawn, in Sub units to the pixel
  drawing    \* "tiles", "markers", "done"

frameVars == <<picture, points, skew, todo, ground, painted, marks, drawing>>

-----------------------------------------------------------------------------
(* Pure parts, for one axis: "x", or "y" from the north.                    *)

Unit(z) == Sub * 2^(MaxZoom - z)
Side(axis) == IF axis = "x" THEN Width ELSE Height

Low(pts, axis) == Sub * Min({pts[i][axis] : i \in DOMAIN pts})
High(pts, axis) == Sub * Max({pts[i][axis] : i \in DOMAIN pts})

\* bbox with 15 % of padding, and a box of its own around a single point.
Span(pts, axis) ==
  IF High(pts, axis) = Low(pts, axis) THEN PointSpan ELSE High(pts, axis) - Low(pts, axis)
Padding(pts, axis) == (3 * Span(pts, axis)) \div 20
PaddedSpan(pts, axis) == High(pts, axis) - Low(pts, axis) + 2 * Padding(pts, axis)

\* The deepest zoom at which the box fits.
FitsAt(pts, z) == \A axis \in {"x", "y"} : PaddedSpan(pts, axis) <= Side(axis) * Unit(z)
BugWidthOnly(pts) ==
  LET fits == {z \in MinZoom..MaxZoom : PaddedSpan(pts, "x") <= Width * Unit(z)}
  IN  IF fits = {} THEN MinZoom ELSE Max(fits)
chooseZoom(pts) ==
  LET fits == {z \in MinZoom..MaxZoom : FitsAt(pts, z)}
  IN  IF fits = {} THEN MinZoom ELSE Max(fits)

\* canvasLeft and canvasTop, in units.
Corner(axis) ==
  (Low(points, axis) + High(points, axis)) \div 2
  + (IF axis = "y" THEN skew * Padding(points, axis) ELSE 0)
  - (Side(axis) * Unit(chooseZoom(points))) \div 2

\* The tiles under the canvas, math.Floor: \div rounds down.
TileRange(axis) ==
  LET u == Unit(chooseZoom(points))
  IN  (Corner(axis) \div (Tile * u)) .. ((Corner(axis) + (Side(axis) - 1) * u) \div (Tile * u))
TilesUnder ==
  LET xs == TileRange("x")
      n == Max(xs) - Min(xs) + 1
  IN  [k \in 1..(n * (Max(TileRange("y")) - Min(TileRange("y")) + 1)) |->
         [x |-> Min(xs) + ((k - 1) % n), y |-> Min(TileRange("y")) + ((k - 1) \div n)]]

\* int(dx): the canvas column, or row, at which a tile begins.
Truncated(n, d) == IF n >= 0 THEN n \div d ELSE -((-n) \div d)
Begins(t, axis) ==
  LET u == Unit(chooseZoom(points)) IN Truncated(t[axis] * Tile * u - Corner(axis), u)

\* The world has 2^z tiles each way; the server has no others.
OnEarth(t) == {t.x, t.y} \subseteq 0 .. 2^chooseZoom(points) - 1

\* A marker on the map, and on the dark ground.
OnMap(p, axis) ==
  ((Sub * p[axis] - Corner(axis)) * Sub) \div Unit(chooseZoom(points))
OnDark(p, axis) ==
  LET d == High(points, axis) - Low(points, axis)
      room == (Side(axis) - 2 * Margin) * Sub
  IN  Margin * Sub + (IF d # 0 THEN ((Sub * p[axis] - Low(points, axis)) * room) \div d
                      ELSE IF axis = "x" THEN 0 ELSE room)

MarkOf(p) ==
  [axis \in {"x", "y"} |-> IF ground = "tiles" THEN OnMap(p, axis) ELSE OnDark(p, axis)]

-----------------------------------------------------------------------------
FrameInit ==
  /\ picture \in {"mission", "waypoint"}
  /\ \E n \in 0..MaxWaypoints : points \in [1..n -> [x : Places, y : Places]]
  /\ picture = "waypoint" => Len(points) = 1
  /\ skew \in {-1, 0, 1} /\ (picture = "waypoint" \/ points = <<>> => skew = 0)
  /\ todo = (IF points = <<>> THEN <<>> ELSE TilesUnder)
  /\ ground = "blank" /\ painted = {} /\ marks = <<>>
  /\ drawing = "tiles"

\* fetchTile and DrawImage.
FetchTile ==
  /\ drawing = "tiles" /\ todo # <<>> /\ OnEarth(Head(todo))
  /\ painted' = painted \cup {Head(todo)} /\ todo' = Tail(todo)
  /\ ground' = "tiles"
  /\ UNCHANGED <<picture, points, skew, marks, drawing>>

\* The first tile that fails ends the fetching: what has been drawn is painted
\* over.  So does a tile that is not on the map.
BugKeepsTiles ==
  /\ drawing = "tiles" /\ todo # <<>>
  /\ todo' = <<>> /\ ground' = "dark" /\ drawing' = "markers"
  /\ UNCHANGED <<picture, points, skew, painted, marks>>
FetchFails ==
  /\ drawing = "tiles" /\ todo # <<>>
  /\ todo' = <<>> /\ painted' = {} /\ ground' = "dark" /\ drawing' = "markers"
  /\ UNCHANGED <<picture, points, skew, marks>>

AllFetched ==
  /\ drawing = "tiles" /\ todo = <<>>
  /\ drawing' = "markers"
  /\ ground' = IF points = <<>> THEN "dark" ELSE ground   \* a mission without waypoints
  /\ UNCHANGED <<picture, points, skew, todo, painted, marks>>

\* overlayWaypoints and overlayWaypointsFallback; the picture of a waypoint has
\* a banner only.
Overlay ==
  /\ drawing = "markers" /\ drawing' = "done"
  /\ marks' = IF picture = "waypoint" THEN <<>>
              ELSE [i \in DOMAIN points |-> MarkOf(points[i])]
  /\ UNCHANGED <<picture, points, skew, todo, ground, painted>>

FrameNext == FetchTile \/ FetchFails \/ AllFetched \/ Overlay

FrameSpec == FrameInit /\ [][FrameNext]_frameVars

FrameTypeOK ==
  /\ picture \in {"mission", "waypoint"} /\ skew \in {-1, 0, 1}
  /\ \A i \in DOMAIN points : points[i] \in [x : Places, y : Places]
  /\ ground \in {"blank", "tiles", "dark"}
  /\ drawing \in {"tiles", "markers", "done"}
  /\ \A t \in painted : t.x \in Int /\ t.y \in Int
  /\ \A i \in DOMAIN marks : marks[i].x \in Int /\ marks[i].y \in Int

-----------------------------------------------------------------------------
(* Properties.                                                              *)

\* The picture is of one piece: either whole tiles without a hole, but for one
\* row and one column of pixels at the far edges that int(dx) may leave, and with
\* every waypoint of a mission that fits at some zoom on it; or nothing of a tile,
\* and every waypoint within the margin (generator.go:157-176, 217-243).
Covered(i, j) ==
  \E t \in painted : i - Begins(t, "x") \in 0..Tile - 1 /\ j - Begins(t, "y") \in 0..Tile - 1
Inside(m, axis, margin) == m[axis] \in margin * Sub .. (Side(axis) - margin) * Sub
PictureWhole ==
  drawing = "done" =>
    \/ /\ ground = "tiles"
       /\ \A i \in 0..Width - 2, j \in 0..Height - 2 : Covered(i, j)
       /\ (\E z \in MinZoom..MaxZoom : FitsAt(points, z)) =>
            \A i \in DOMAIN marks : \A axis \in {"x", "y"} : Inside(marks[i], axis, 0)
    \/ /\ ground = "dark" /\ painted = {}
       /\ \A i \in DOMAIN marks : \A axis \in {"x", "y"} : Inside(marks[i], axis, Margin)

=============================================================================
