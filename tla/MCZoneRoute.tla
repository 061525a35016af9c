---------------------------- MODULE MCZoneRoute ----------------------------
(***************************************************************************)
(* ZoneRoute against the floor plan: zones on a grid, each turned its own  *)
(* way, and every path of neighbouring zones that never steps back to      *)
(* where it came from.  The reference is the compass: what ZoneRoute says  *)
(* in a zone's own terms must be the way the package really travels.       *)
(***************************************************************************)
EXTENDS ZoneRoute, Integers, Sequences

CONSTANTS
  Cols, Rows,   \* the grid of zones
  MaxLen        \* the longest path

(* FINAL_CAR is the number of no zone.                                     *)
ASSUME GridAssumption ==
  /\ Cols \in Nat \ {0} /\ Rows \in Nat \ {0} /\ MaxLen \in Nat
  /\ Cols * Rows < FinalCar

Zone == 1 .. Cols * Rows
Col(z) == (z - 1) % Cols
Row(z) == (z - 1) \div Cols

(* Compass points in clockwise order; a zone's `turn` is where its front is.*)
Compass == 0 .. 3
Opposite(c) == (c + 2) % 4

(* The neighbour in a compass direction, or none at the edge of the grid.  *)
Towards(z, c) ==
  LET col == Col(z) + (CASE c = 1 -> 1 [] c = 3 -> -1 [] OTHER -> 0)
      row == Row(z) + (CASE c = 0 -> -1 [] c = 2 -> 1 [] OTHER -> 0)
  IN  IF col \in 0 .. Cols - 1 /\ row \in 0 .. Rows - 1
      THEN 1 + col + row * Cols ELSE FinalCar

VARIABLES
  turn,      \* [zones -> where the front of each is]
  path,      \* the package's path so far
  headings   \* the compass direction of each hop of the path

vars == <<turn, path, headings>>

(* The side of a zone that looks in a compass direction, and back.         *)
SideAt(z, c) ==
  LET r == (c - turn[z] + 4) % 4
  IN  CASE r = 0 -> "front" [] r = 1 -> "right"
        [] r = 2 -> "behind" [] r = 3 -> "left"

CompassOf(z, s) == CHOOSE c \in Compass : SideAt(z, c) = s

Layout ==
  [z \in Zone |->
     LET at(s) == Towards(z, CompassOf(z, s))
     IN  [front_zone |-> at("front"), rear_zone |-> at("behind"),
          left_zone |-> at("left"), right_zone |-> at("right")]]

Init ==
  /\ turn \in [Zone -> Compass]
  /\ \E z \in Zone : path = <<z>>
  /\ headings = <<>>

(* The server's path goes on to a neighbour, but not straight back.        *)
Extend(c) ==
  /\ Len(path) < MaxLen
  /\ LET here == path[Len(path)]
     IN  /\ Towards(here, c) # FinalCar
         /\ headings # <<>> => c # Opposite(headings[Len(headings)])
         /\ path' = Append(path, Towards(here, c))
  /\ headings' = Append(headings, c)
  /\ UNCHANGED turn

Next == \E c \in Compass : Extend(c)

Spec == Init /\ [][Next]_vars

-----------------------------------------------------------------------------
Dir(k) == ZoneDir(Layout, path, Len(path), k)

(* The side a direction drives a package to, and the side it takes it from,*)
(* as its name says (logic_ctrl.h: RUN_<from>_TO<to>).                     *)
LeavesBy(dir) ==
  CASE dir \in ToBack -> "behind" [] dir \in ToAhead -> "front"
    [] dir \in ToLeft -> "left"   [] dir \in ToRight -> "right"
    [] OTHER -> "none"

EntersBy(dir) ==
  CASE dir \in {"AHEAD_TOBACK", "AHEAD_TOLEFT", "AHEAD_TORIGHT"} -> "front"
    [] dir \in {"BACK_TOAHEAD", "BACK_TOLEFT", "BACK_TORIGHT"}   -> "behind"
    [] dir \in {"LEFT_TORIGHT", "LEFT_TOAHEAD", "LEFT_TOBACK"}   -> "left"
    [] dir \in {"RIGHT_TOLEFT", "RIGHT_TOAHEAD", "RIGHT_TOBACK"} -> "right"
    [] OTHER -> "none"

(* The way the package travels through zone k of the path: in on the last  *)
(* hop, out on the next; straight through at either end of the path.       *)
HeadingIn(k)  == IF k = 1 THEN headings[1] ELSE headings[k - 1]
HeadingOut(k) == IF k = Len(path) THEN headings[k - 1] ELSE headings[k]

(* However the zones along a path are turned, the directions computed for  *)
(* them one at a time fit together: each zone drives the package out       *)
(* towards the zone that follows and takes it in from the one before.      *)
DirectionsChain ==
  Len(path) > 1 =>
    \A k \in 1 .. Len(path) :
      /\ EntersBy(Dir(k)) = SideAt(path[k], Opposite(HeadingIn(k)))
      /\ LeavesBy(Dir(k)) = SideAt(path[k], HeadingOut(k))

(* Where the photo sensors of a zone are, bit by bit of zoneState: those   *)
(* at which drivethree (moto.c:639-676) stops its rollers, read as corners.*)
Corner(bit) ==
  CASE bit = 1 -> {"behind", "right"} [] bit = 2 -> {"front", "left"}
    [] bit = 3 -> {"behind", "left"}  [] bit = 4 -> {"front", "right"}

(* The bits taken for "about to leave" are those of the two corners on the *)
(* side that faces the next zone, and on a straight run never one that a   *)
(* package just coming in covers.                                          *)
ExitBitsFaceNextZone ==
  Len(path) > 1 =>
    \A k \in 1 .. Len(path) :
      LET out == SideAt(path[k], HeadingOut(k))
          in  == SideAt(path[k], Opposite(HeadingIn(k)))
      IN  /\ ExitBits(Dir(k)) = {b \in 1 .. 4 : out \in Corner(b)}
          /\ HeadingIn(k) = HeadingOut(k) =>
               \A b \in ExitBits(Dir(k)) : in \notin Corner(b)

(* Straightening a direction half way through a zone neither changes where *)
(* the package goes nor at which sensors it is expected.                   *)
StraighteningKeepsExit ==
  Len(path) > 1 =>
    \A k \in 1 .. Len(path) :
      /\ LeavesBy(Straightened(Dir(k))) = SideAt(path[k], HeadingOut(k))
      /\ ExitBits(Straightened(Dir(k))) = ExitBits(Dir(k))
=============================================================================
