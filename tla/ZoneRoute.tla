----------------------------- MODULE ZoneRoute -----------------------------
(***************************************************************************)
(* How the master turns a package's path, a list of zone numbers, into     *)
(* roller directions and into the photo sensors at which the package       *)
(* leaves a zone: the pure part of logic_pkg_trans_process and the helpers *)
(* of data.c it calls.  A zone knows its neighbours by side, and every     *)
(* zone has its own idea of which side is its front.                       *)
(***************************************************************************)
EXTENDS Naturals

Side == {"front", "behind", "left", "right"}

(* FINAL_CAR, the default of every unset zone number: no such neighbour.   *)
FinalCar == 65535

(* The side of `node` on which zone `next` lies; the first match wins.     *)
data_find_nearzone_direction(node, next) ==
  IF next = FinalCar THEN "none"
  ELSE IF node.front_zone = next THEN "front"
  ELSE IF node.rear_zone = next THEN "behind"
  ELSE IF node.left_zone = next THEN "left"
  ELSE IF node.right_zone = next THEN "right"
  ELSE "none"

(* MUTANT of data_config_moudle_rundir: two rows of the table exchanged.   *)
RunDirSwapped(predir, nextdir) ==
  IF <<predir, nextdir>> = <<"left", "behind">> THEN "RIGHT_TOBACK"
  ELSE IF <<predir, nextdir>> = <<"right", "behind">> THEN "LEFT_TOBACK"
  ELSE CASE predir = "behind" /\ nextdir \in {"front", "none"} -> "BACK_TOAHEAD"
         [] predir = "front" /\ nextdir \in {"behind", "none"} -> "AHEAD_TOBACK"
         [] predir = "left" /\ nextdir \in {"right", "none"} -> "LEFT_TORIGHT"
         [] predir = "right" /\ nextdir \in {"left", "none"} -> "RIGHT_TOLEFT"
         [] OTHER -> "DIRDEFAULT"

(* The roller direction of a zone entered from side predir and left        *)
(* towards side nextdir; the end of the path is "none".                    *)
data_config_moudle_rundir(predir, nextdir) ==
  CASE predir = "behind" /\ nextdir \in {"front", "none"} -> "BACK_TOAHEAD"
    [] predir = "behind" /\ nextdir = "left"              -> "BACK_TOLEFT"
    [] predir = "behind" /\ nextdir = "right"             -> "BACK_TORIGHT"
    [] predir = "front" /\ nextdir \in {"behind", "none"} -> "AHEAD_TOBACK"
    [] predir = "front" /\ nextdir = "left"               -> "AHEAD_TOLEFT"
    [] predir = "front" /\ nextdir = "right"              -> "AHEAD_TORIGHT"
    [] predir = "left" /\ nextdir = "behind"              -> "LEFT_TOBACK"
    [] predir = "left" /\ nextdir = "front"               -> "LEFT_TOAHEAD"
    [] predir = "left" /\ nextdir \in {"right", "none"}   -> "LEFT_TORIGHT"
    [] predir = "right" /\ nextdir = "behind"             -> "RIGHT_TOBACK"
    [] predir = "right" /\ nextdir = "front"              -> "RIGHT_TOAHEAD"
    [] predir = "right" /\ nextdir \in {"left", "none"}   -> "RIGHT_TOLEFT"
    [] predir = "none" /\ nextdir = "behind"              -> "AHEAD_TOBACK"
    [] predir = "none" /\ nextdir = "front"               -> "BACK_TOAHEAD"
    [] predir = "none" /\ nextdir = "right"               -> "LEFT_TORIGHT"
    [] predir = "none" /\ nextdir = "left"                -> "RIGHT_TOLEFT"
    [] OTHER                                              -> "DIRDEFAULT"

(* The direction in zone number k of a path, counted from 1.               *)
ZoneDir(layout, path, last, k) ==
  data_config_moudle_rundir(
    data_find_nearzone_direction(layout[path[k]],
                                 IF k = 1 THEN FinalCar ELSE path[k - 1]),
    data_find_nearzone_direction(layout[path[k]],
                                 IF k = last THEN FinalCar ELSE path[k + 1]))

ToBack  == {"AHEAD_TOBACK", "LEFT_TOBACK", "RIGHT_TOBACK"}
ToAhead == {"BACK_TOAHEAD", "LEFT_TOAHEAD", "RIGHT_TOAHEAD"}
ToLeft  == {"RIGHT_TOLEFT", "AHEAD_TOLEFT", "BACK_TOLEFT"}
ToRight == {"LEFT_TORIGHT", "AHEAD_TORIGHT", "BACK_TORIGHT"}

(* MUTANT of ExitBits: the left and the right pair exchanged.              *)
ExitBitsMirrored(dir) ==
  CASE dir \in ToBack  -> {1, 3}
    [] dir \in ToAhead -> {2, 4}
    [] dir \in ToLeft  -> {1, 4}
    [] dir \in ToRight -> {2, 3}
    [] OTHER           -> {}

(* The bits of zoneState that mean "the package is about to leave", for a  *)
(* zone running in direction dir.                                          *)
ExitBits(dir) ==
  CASE dir \in ToBack  -> {1, 3}
    [] dir \in ToAhead -> {2, 4}
    [] dir \in ToLeft  -> {2, 3}
    [] dir \in ToRight -> {1, 4}
    [] OTHER           -> {}

(* MUTANT of Straightened: a turn keeps its first leg instead of its last. *)
FirstLeg(dir) ==
  CASE dir \in {"AHEAD_TOBACK", "AHEAD_TOLEFT", "AHEAD_TORIGHT"} -> "AHEAD_TOBACK"
    [] dir \in {"BACK_TOAHEAD", "BACK_TOLEFT", "BACK_TORIGHT"}   -> "BACK_TOAHEAD"
    [] dir \in {"RIGHT_TOLEFT", "RIGHT_TOAHEAD", "RIGHT_TOBACK"} -> "RIGHT_TOLEFT"
    [] dir \in {"LEFT_TORIGHT", "LEFT_TOAHEAD", "LEFT_TOBACK"}   -> "LEFT_TORIGHT"
    [] OTHER                                                     -> dir

(* Once the state of the next zone has changed, the current zone is only   *)
(* driven towards the side the package leaves by, no turn is begun again.  *)
Straightened(dir) ==
  CASE dir \in ToBack  -> "AHEAD_TOBACK"
    [] dir \in ToAhead -> "BACK_TOAHEAD"
    [] dir \in ToLeft  -> "RIGHT_TOLEFT"
    [] dir \in ToRight -> "LEFT_TORIGHT"
    [] OTHER           -> dir
=============================================================================
