--------------------------- MODULE ZoneRouteProofs ---------------------------
(***************************************************************************)
(* The directions of ZoneRoute against the compass, for a grid of any      *)
(* size, its zones turned in any way, and paths of any length.             *)
(***************************************************************************)
EXTENDS MCZoneRoute, TLAPS

LEMMA GridIs ==
  /\ Cols \in Nat /\ Cols > 0 /\ Rows \in Nat /\ Rows > 0
  /\ Cols * Rows \in Nat /\ Cols * Rows < FinalCar /\ FinalCar \in Nat
<1>1. /\ Cols \in Nat /\ Cols > 0 /\ Rows \in Nat /\ Rows > 0
      /\ Cols * Rows < FinalCar
  BY GridAssumption
<1>2. FinalCar \in Nat
  BY DEF FinalCar
<1>3. Cols * Rows \in Nat
  BY <1>1
<1> QED
  BY <1>1, <1>2, <1>3

(* A product grows with its factors.                                       *)
LEMMA Grows ==
  ASSUME NEW n \in Nat, NEW a \in Nat, NEW b \in Nat, a <= b
  PROVE  a * n <= b * n
<1> DEFINE d == b - a
<1>1. d \in Nat /\ b = a + d
  OBVIOUS
<1> HIDE DEF d
<1>2. b * n = a * n + d * n /\ d * n >= 0
  BY <1>1
<1>3. a * n \in Nat /\ d * n \in Nat
  BY <1>1
<1> QED
  BY <1>2, <1>3

(* Zones are numbered along the rows.                                      *)
LEMMA PlaceOf ==
  ASSUME NEW z \in Zone
  PROVE  /\ Col(z) \in 0 .. Cols - 1 /\ Row(z) \in 0 .. Rows - 1
         /\ z = 1 + Col(z) + Row(z) * Cols
<1>1. PICK n \in Nat \ {0} : n = Cols
  BY GridIs
<1>2. PICK m \in Nat : m = Rows
  BY GridIs
<1>3. PICK a \in Nat : a = z - 1 /\ a < n * m
  <2>1. z \in Nat /\ z >= 1 /\ z <= n * m /\ n * m \in Nat
    BY <1>1, <1>2, GridIs DEF Zone
  <2>2. z - 1 \in Nat /\ z - 1 < n * m
    BY <2>1
  <2> QED
    BY <2>2
<1>4. PICK q \in Nat : q = a \div n
  <2>1. a \div n \in Nat
    OBVIOUS
  <2> QED
    BY <2>1
<1>5. PICK r \in 0 .. n - 1 : r = a % n
  <2>1. a % n \in 0 .. n - 1
    OBVIOUS
  <2> QED
    BY <2>1
<1>6. a = n * q + r
  BY <1>4, <1>5
<1>7. q < m
  <2> SUFFICES ASSUME m <= q PROVE FALSE
    OBVIOUS
  <2>1. m * n <= q * n
    BY Grows
  <2>2. m * n = n * m /\ q * n = n * q /\ n * m \in Nat /\ n * q \in Nat
    OBVIOUS
  <2> QED
    BY <1>3, <1>6, <2>1, <2>2
<1>8. Col(z) = r /\ Row(z) = q
  BY <1>1, <1>3, <1>4, <1>5 DEF Col, Row
<1>9. z = 1 + r + q * n
  <2>1. q * n = n * q /\ n * q \in Nat /\ z \in Nat
    BY GridIs DEF Zone
  <2> QED
    BY <1>3, <1>6, <2>1
<1> QED
  BY <1>1, <1>2, <1>7, <1>8, <1>9

LEMMA ZoneAt ==
  ASSUME NEW col \in 0 .. Cols - 1, NEW row \in 0 .. Rows - 1
  PROVE  /\ 1 + col + row * Cols \in Zone
         /\ Col(1 + col + row * Cols) = col
         /\ Row(1 + col + row * Cols) = row
<1>1. PICK n \in Nat \ {0} : n = Cols
  BY GridIs
<1>2. PICK m \in Nat \ {0} : m = Rows
  BY GridIs
<1>3. row \in Nat /\ col \in Nat /\ col < n /\ row + 1 <= m /\ row + 1 \in Nat
  BY <1>1, <1>2
<1>4. PICK a \in Nat : a = n * row + col
  <2>1. n * row \in Nat
    BY <1>3
  <2>2. n * row + col \in Nat
    BY <1>3, <2>1
  <2> QED
    BY <2>2
<1>5. a \div n = row /\ a % n = col
  <2>1. col \in 0 .. n - 1
    BY <1>1
  <2>2. a \div n = row
    BY <1>3, <1>4, <2>1
  <2>3. a % n = col
    BY <1>3, <1>4, <2>1
  <2> QED
    BY <2>2, <2>3
<1>6. 1 + col + row * Cols = a + 1 /\ (a + 1) - 1 = a
  <2>1. row * n = n * row /\ n * row \in Nat
    BY <1>3
  <2> QED
    BY <1>1, <1>3, <1>4, <2>1
<1>7. a + 1 \in 1 .. n * m
  <2>1. (row + 1) * n <= m * n
    BY <1>3, Grows
  <2>2. /\ (row + 1) * n = n * row + n /\ m * n = n * m
        /\ n * row \in Nat /\ n * m \in Nat
    BY <1>3
  <2> QED
    BY <1>3, <1>4, <2>1, <2>2
<1> QED
  BY <1>1, <1>2, <1>5, <1>6, <1>7 DEF Zone, Col, Row

(* The neighbours of a zone, by number.                                    *)
LEMMA TowardsIs ==
  ASSUME NEW z \in Zone
  PROVE  /\ Towards(z, 0) = IF Row(z) > 0 THEN z - Cols ELSE FinalCar
         /\ Towards(z, 1) = IF Col(z) < Cols - 1 THEN z + 1 ELSE FinalCar
         /\ Towards(z, 2) = IF Row(z) < Rows - 1 THEN z + Cols ELSE FinalCar
         /\ Towards(z, 3) = IF Col(z) > 0 THEN z - 1 ELSE FinalCar
<1> DEFINE by(x, y) ==
             IF Col(z) + x \in 0 .. Cols - 1 /\ Row(z) + y \in 0 .. Rows - 1
             THEN 1 + (Col(z) + x) + (Row(z) + y) * Cols ELSE FinalCar
<1>1. /\ Towards(z, 0) = by(0, -1) /\ Towards(z, 1) = by(1, 0)
      /\ Towards(z, 2) = by(0, 1)  /\ Towards(z, 3) = by(-1, 0)
  BY DEF Towards
<1>2. PICK col \in 0 .. Cols - 1 : col = Col(z)
  BY PlaceOf
<1>3. PICK row \in 0 .. Rows - 1 : row = Row(z)
  BY PlaceOf
<1>4. PICK n \in Nat \ {0} : n = Cols
  BY GridIs
<1>5. PICK m \in Nat \ {0} : m = Rows
  BY GridIs
<1>6. /\ z = 1 + col + row * n /\ z \in Nat
      /\ col \in Nat /\ col <= n - 1 /\ row \in Nat /\ row <= m - 1
      /\ row * n \in Nat
  BY <1>2, <1>3, <1>4, <1>5, PlaceOf, GridIs DEF Zone
<1>7. /\ (row + -1) * n = row * n - n /\ (row + 0) * n = row * n
      /\ (row + 1) * n = row * n + n
  BY <1>6
<1>8. by(0, -1) = IF row > 0 THEN z - n ELSE FinalCar
  <2>1. by(0, -1) = IF col + 0 \in 0 .. n - 1 /\ row + -1 \in 0 .. m - 1
                    THEN 1 + (col + 0) + (row + -1) * n ELSE FinalCar
    BY <1>2, <1>3, <1>4, <1>5
  <2>2. 1 + (col + 0) + (row + -1) * n = z - n
    BY <1>6, <1>7
  <2>3. col + 0 \in 0 .. n - 1 /\ (row + -1 \in 0 .. m - 1 <=> row > 0)
    BY <1>6
  <2> HIDE DEF by
  <2> QED
    BY <2>1, <2>2, <2>3
<1>9. by(1, 0) = IF col < n - 1 THEN z + 1 ELSE FinalCar
  <2>1. by(1, 0) = IF col + 1 \in 0 .. n - 1 /\ row + 0 \in 0 .. m - 1
                   THEN 1 + (col + 1) + (row + 0) * n ELSE FinalCar
    BY <1>2, <1>3, <1>4, <1>5
  <2>2. 1 + (col + 1) + (row + 0) * n = z + 1
    BY <1>6, <1>7
  <2>3. row + 0 \in 0 .. m - 1 /\ (col + 1 \in 0 .. n - 1 <=> col < n - 1)
    BY <1>6
  <2> HIDE DEF by
  <2> QED
    BY <2>1, <2>2, <2>3
<1>10. by(0, 1) = IF row < m - 1 THEN z + n ELSE FinalCar
  <2>1. by(0, 1) = IF col + 0 \in 0 .. n - 1 /\ row + 1 \in 0 .. m - 1
                   THEN 1 + (col + 0) + (row + 1) * n ELSE FinalCar
    BY <1>2, <1>3, <1>4, <1>5
  <2>2. 1 + (col + 0) + (row + 1) * n = z + n
    BY <1>6, <1>7
  <2>3. col + 0 \in 0 .. n - 1 /\ (row + 1 \in 0 .. m - 1 <=> row < m - 1)
    BY <1>6
  <2> HIDE DEF by
  <2> QED
    BY <2>1, <2>2, <2>3
<1>11. by(-1, 0) = IF col > 0 THEN z - 1 ELSE FinalCar
  <2>1. by(-1, 0) = IF col + -1 \in 0 .. n - 1 /\ row + 0 \in 0 .. m - 1
                    THEN 1 + (col + -1) + (row + 0) * n ELSE FinalCar
    BY <1>2, <1>3, <1>4, <1>5
  <2>2. 1 + (col + -1) + (row + 0) * n = z - 1
    BY <1>6, <1>7
  <2>3. row + 0 \in 0 .. m - 1 /\ (col + -1 \in 0 .. n - 1 <=> col > 0)
    BY <1>6
  <2> HIDE DEF by
  <2> QED
    BY <2>1, <2>2, <2>3
<1> HIDE DEF by
<1> QED
  BY <1>1, <1>2, <1>3, <1>4, <1>5, <1>8, <1>9, <1>10, <1>11

(* The neighbour of a zone is a zone, and has it as its neighbour on the   *)
(* opposite side.                                                          *)
LEMMA TowardsBack ==
  ASSUME NEW z \in Zone, NEW c \in Compass, Towards(z, c) # FinalCar
  PROVE  /\ Towards(z, c) \in Zone
         /\ Opposite(c) \in Compass
         /\ Towards(Towards(z, c), Opposite(c)) = z
<1> DEFINE y == Towards(z, c)
<1>1. PICK col \in 0 .. Cols - 1 : col = Col(z)
  BY PlaceOf
<1>2. PICK row \in 0 .. Rows - 1 : row = Row(z)
  BY PlaceOf
<1>3. PICK n \in Nat \ {0} : n = Cols
  BY GridIs
<1>4. PICK m \in Nat \ {0} : m = Rows
  BY GridIs
<1>5. /\ z = 1 + col + row * n /\ z \in Nat
      /\ col \in Nat /\ col <= n - 1 /\ row \in Nat /\ row <= m - 1
      /\ row * n \in Nat
  BY <1>1, <1>2, <1>3, <1>4, PlaceOf, GridIs DEF Zone
<1>6. /\ Towards(z, 0) = IF row > 0 THEN z - n ELSE FinalCar
      /\ Towards(z, 1) = IF col < n - 1 THEN z + 1 ELSE FinalCar
      /\ Towards(z, 2) = IF row < m - 1 THEN z + n ELSE FinalCar
      /\ Towards(z, 3) = IF col > 0 THEN z - 1 ELSE FinalCar
  BY <1>1, <1>2, <1>3, <1>4, TowardsIs
<1>7. /\ (row - 1) * n = row * n - n
      /\ (row + 1) * n = row * n + n
  BY <1>5
<1>8. ASSUME NEW i \in 0 .. n - 1, NEW j \in 0 .. m - 1, y = 1 + i + j * n
      PROVE  y \in Zone /\ Col(y) = i /\ Row(y) = j
  BY <1>3, <1>4, <1>8, ZoneAt
<1> HIDE DEF y
<1>9. CASE c = 0
  <2>1. row > 0 /\ y = z - n
    BY <1>6, <1>9 DEF y
  <2>2. row - 1 \in 0 .. m - 1 /\ y = 1 + col + (row - 1) * n
    BY <1>5, <1>7, <2>1
  <2>3. y \in Zone /\ Row(y) = row - 1
    BY <1>3, <1>8, <2>2
  <2>4. Towards(y, 2) = IF row - 1 < m - 1 THEN y + n ELSE FinalCar
    BY <1>3, <1>4, <2>3, TowardsIs
  <2>5. y + n = z /\ row - 1 < m - 1 /\ Opposite(c) = 2
    BY <1>5, <1>9, <2>1 DEF Opposite
  <2> QED
    BY <2>3, <2>4, <2>5 DEF y, Compass
<1>10. CASE c = 1
  <2>1. col < n - 1 /\ y = z + 1
    BY <1>6, <1>10 DEF y
  <2>2. col + 1 \in 0 .. n - 1 /\ y = 1 + (col + 1) + row * n
    BY <1>5, <2>1
  <2>3. y \in Zone /\ Col(y) = col + 1
    BY <1>4, <1>8, <2>2
  <2>4. Towards(y, 3) = IF col + 1 > 0 THEN y - 1 ELSE FinalCar
    BY <2>3, TowardsIs
  <2>5. y - 1 = z /\ col + 1 > 0 /\ Opposite(c) = 3
    BY <1>5, <1>10, <2>1 DEF Opposite
  <2> QED
    BY <2>3, <2>4, <2>5 DEF y, Compass
<1>11. CASE c = 2
  <2>1. row < m - 1 /\ y = z + n
    BY <1>6, <1>11 DEF y
  <2>2. row + 1 \in 0 .. m - 1 /\ y = 1 + col + (row + 1) * n
    BY <1>5, <1>7, <2>1
  <2>3. y \in Zone /\ Row(y) = row + 1
    BY <1>3, <1>8, <2>2
  <2>4. Towards(y, 0) = IF row + 1 > 0 THEN y - n ELSE FinalCar
    BY <1>3, <2>3, TowardsIs
  <2>5. y - n = z /\ row + 1 > 0 /\ Opposite(c) = 0
    BY <1>5, <1>11, <2>1 DEF Opposite
  <2> QED
    BY <2>3, <2>4, <2>5 DEF y, Compass
<1>12. CASE c = 3
  <2>1. col > 0 /\ y = z - 1
    BY <1>6, <1>12 DEF y
  <2>2. col - 1 \in 0 .. n - 1 /\ y = 1 + (col - 1) + row * n
    BY <1>5, <2>1
  <2>3. y \in Zone /\ Col(y) = col - 1
    BY <1>4, <1>8, <2>2
  <2>4. Towards(y, 1) = IF col - 1 < n - 1 THEN y + 1 ELSE FinalCar
    BY <1>3, <2>3, TowardsIs
  <2>5. y + 1 = z /\ col - 1 < n - 1 /\ Opposite(c) = 1
    BY <1>5, <1>12, <2>1 DEF Opposite
  <2> QED
    BY <2>3, <2>4, <2>5 DEF y, Compass
<1> QED
  BY <1>9, <1>10, <1>11, <1>12 DEF Compass

(* The neighbours of a zone differ.                                        *)
LEMMA TowardsDiffer ==
  ASSUME NEW z \in Zone, NEW c \in Compass, NEW d \in Compass, c # d,
         Towards(z, c) # FinalCar
  PROVE  Towards(z, c) # Towards(z, d)
<1>1. PICK n \in Nat \ {0} : n = Cols
  BY GridIs
<1>2. PICK col \in Nat : col = Col(z) /\ col <= n - 1
  BY <1>1, PlaceOf
<1>3. z \in Nat
  BY GridIs DEF Zone
<1>4. /\ Towards(z, 0) \in {z - n, FinalCar}
      /\ Towards(z, 1) = IF col < n - 1 THEN z + 1 ELSE FinalCar
      /\ Towards(z, 2) \in {z + n, FinalCar}
      /\ Towards(z, 3) = IF col > 0 THEN z - 1 ELSE FinalCar
  BY <1>1, <1>2, TowardsIs
<1>5. CASE n > 1
  <2>1. /\ z - n # z + 1 /\ z - n # z + n /\ z - n # z - 1
        /\ z + 1 # z + n /\ z + 1 # z - 1 /\ z + n # z - 1
    BY <1>3, <1>5
  <2> QED
    BY <1>4, <2>1 DEF Compass
<1>6. CASE n = 1
  <2>1. ~(col < n - 1) /\ ~(col > 0) /\ z - n # z + n
    BY <1>2, <1>3, <1>6
  <2> QED
    BY <1>4, <2>1 DEF Compass
<1> QED
  BY <1>5, <1>6

-----------------------------------------------------------------------------
(* A zone's sides look in the four compass directions, one in each.        *)
LEMMA SidesAre ==
  ASSUME turn \in [Zone -> Compass], NEW z \in Zone, NEW c \in Compass
  PROVE  /\ SideAt(z, c) \in Side
         /\ \A d \in Compass : SideAt(z, d) = SideAt(z, c) => d = c
<1>1. turn[z] \in {0, 1, 2, 3} /\ c \in {0, 1, 2, 3}
  BY DEF Compass
<1>2. SideAt(z, c) \in Side
  BY <1>1 DEF SideAt, Side
<1>3. ASSUME NEW d \in Compass, SideAt(z, d) = SideAt(z, c) PROVE d = c
  <2>1. d \in {0, 1, 2, 3}
    BY DEF Compass
  <2> QED
    BY <1>1, <1>3, <2>1 DEF SideAt
<1> QED
  BY <1>2, <1>3

LEMMA SideLooks ==
  ASSUME turn \in [Zone -> Compass], NEW z \in Zone, NEW s \in Side
  PROVE  CompassOf(z, s) \in Compass /\ SideAt(z, CompassOf(z, s)) = s
<1>1. turn[z] \in {0, 1, 2, 3}
  BY DEF Compass
<1>2. /\ SideAt(z, (turn[z] + 0) % 4) = "front"
      /\ SideAt(z, (turn[z] + 1) % 4) = "right"
      /\ SideAt(z, (turn[z] + 2) % 4) = "behind"
      /\ SideAt(z, (turn[z] + 3) % 4) = "left"
  BY <1>1 DEF SideAt
<1>3. \A i \in {0, 1, 2, 3} : (turn[z] + i) % 4 \in Compass
  BY <1>1 DEF Compass
<1>4. \E c \in Compass : SideAt(z, c) = s
  BY <1>2, <1>3 DEF Side
<1> QED
  BY <1>4 DEF CompassOf

(* Opposite directions are looked in by opposite sides.                    *)
Across(s) ==
  CASE s = "front" -> "behind" [] s = "behind" -> "front"
    [] s = "left"  -> "right"  [] s = "right"  -> "left"

LEMMA SideAcross ==
  ASSUME turn \in [Zone -> Compass], NEW z \in Zone, NEW c \in Compass
  PROVE  SideAt(z, Opposite(c)) = Across(SideAt(z, c))
<1>1. turn[z] \in {0, 1, 2, 3} /\ c \in {0, 1, 2, 3}
  BY DEF Compass
<1> QED
  BY <1>1 DEF SideAt, Opposite, Across

(* The side found for a neighbour is the one that looks towards it: no     *)
(* neighbour is taken for another, whichever side is tried first.          *)
LEMMA NearIs ==
  ASSUME turn \in [Zone -> Compass], NEW z \in Zone, NEW c \in Compass,
         Towards(z, c) # FinalCar
  PROVE  data_find_nearzone_direction(Layout[z], Towards(z, c)) = SideAt(z, c)
<1> DEFINE at(s) == Towards(z, CompassOf(z, s))
           node == Layout[z]
           next == Towards(z, c)
<1>1. /\ node.front_zone = at("front") /\ node.rear_zone = at("behind")
      /\ node.left_zone = at("left")   /\ node.right_zone = at("right")
  BY DEF Layout
<1>2. ASSUME NEW s \in Side PROVE at(s) = next <=> s = SideAt(z, c)
  <2>1. CompassOf(z, s) \in Compass /\ SideAt(z, CompassOf(z, s)) = s
    BY SideLooks
  <2>2. CASE CompassOf(z, s) = c
    BY <2>1, <2>2
  <2>3. CASE CompassOf(z, s) # c
    <3>1. at(s) # next
      BY <2>1, <2>3, TowardsDiffer
    <3>2. s # SideAt(z, c)
      BY <2>1, <2>3, SidesAre
    <3> QED
      BY <3>1, <3>2
  <2> QED
    BY <2>2, <2>3
<1>3. SideAt(z, c) \in Side
  BY SidesAre
<1> HIDE DEF at, node, next
<1>4. next # FinalCar
  BY DEF next
<1>5. data_find_nearzone_direction(node, next) = SideAt(z, c)
  <2>1. /\ node.front_zone = next <=> "front" = SideAt(z, c)
        /\ node.rear_zone = next <=> "behind" = SideAt(z, c)
        /\ node.left_zone = next <=> "left" = SideAt(z, c)
        /\ node.right_zone = next <=> "right" = SideAt(z, c)
    BY <1>1, <1>2 DEF Side
  <2> QED
    BY <1>3, <1>4, <2>1 DEF data_find_nearzone_direction, Side
<1> QED
  BY <1>5 DEF node, next

LEMMA NoneNear ==
  ASSUME NEW node
  PROVE  data_find_nearzone_direction(node, FinalCar) = "none"
BY DEF data_find_nearzone_direction

-----------------------------------------------------------------------------
(* The table of directions: in by one side and out by another, and         *)
(* straight through at the ends of a path.                                 *)
LEMMA TableTurns ==
  ASSUME NEW p \in Side, NEW s \in Side, p # s
  PROVE  /\ EntersBy(data_config_moudle_rundir(p, s)) = p
         /\ LeavesBy(data_config_moudle_rundir(p, s)) = s
<1>1. CASE p = "front"
  BY <1>1 DEF Side, data_config_moudle_rundir, EntersBy, LeavesBy,
              ToBack, ToAhead, ToLeft, ToRight
<1>2. CASE p = "behind"
  BY <1>2 DEF Side, data_config_moudle_rundir, EntersBy, LeavesBy,
              ToBack, ToAhead, ToLeft, ToRight
<1>3. CASE p = "left"
  BY <1>3 DEF Side, data_config_moudle_rundir, EntersBy, LeavesBy,
              ToBack, ToAhead, ToLeft, ToRight
<1>4. CASE p = "right"
  BY <1>4 DEF Side, data_config_moudle_rundir, EntersBy, LeavesBy,
              ToBack, ToAhead, ToLeft, ToRight
<1> QED
  BY <1>1, <1>2, <1>3, <1>4 DEF Side

LEMMA TableBegins ==
  ASSUME NEW s \in Side
  PROVE  /\ EntersBy(data_config_moudle_rundir("none", s)) = Across(s)
         /\ LeavesBy(data_config_moudle_rundir("none", s)) = s
BY DEF Side, data_config_moudle_rundir, EntersBy, LeavesBy,
       ToBack, ToAhead, ToLeft, ToRight, Across

LEMMA TableEnds ==
  ASSUME NEW p \in Side
  PROVE  /\ EntersBy(data_config_moudle_rundir(p, "none")) = p
         /\ LeavesBy(data_config_moudle_rundir(p, "none")) = Across(p)
BY DEF Side, data_config_moudle_rundir, EntersBy, LeavesBy,
       ToBack, ToAhead, ToLeft, ToRight, Across

(* The sensors of a direction are those on the side it leaves by ...       *)
LEMMA ExitBitsAre ==
  ASSUME NEW dir, LeavesBy(dir) \in Side
  PROVE  ExitBits(dir) = {b \in 1 .. 4 : LeavesBy(dir) \in Corner(b)}
<1>1. 1 .. 4 = {1, 2, 3, 4}
  OBVIOUS
<1>2. /\ LeavesBy(dir) = "behind" => ExitBits(dir) = {1, 3}
      /\ LeavesBy(dir) = "front" => ExitBits(dir) = {2, 4}
      /\ LeavesBy(dir) = "left" => ExitBits(dir) = {2, 3}
      /\ LeavesBy(dir) = "right" => ExitBits(dir) = {1, 4}
  BY DEF LeavesBy, ExitBits
<1>3. /\ Corner(1) = {"behind", "right"} /\ Corner(2) = {"front", "left"}
      /\ Corner(3) = {"behind", "left"}  /\ Corner(4) = {"front", "right"}
  BY DEF Corner
<1> QED
  BY <1>1, <1>2, <1>3 DEF Side

(* ... and no corner touches two sides that lie across.                    *)
LEMMA CornersApart ==
  ASSUME NEW s \in Side, NEW b \in 1 .. 4, s \in Corner(b)
  PROVE  Across(s) \notin Corner(b)
<1>1. b \in {1, 2, 3, 4}
  OBVIOUS
<1>2. /\ Corner(1) = {"behind", "right"} /\ Corner(2) = {"front", "left"}
      /\ Corner(3) = {"behind", "left"}  /\ Corner(4) = {"front", "right"}
  BY DEF Corner
<1> QED
  BY <1>1, <1>2 DEF Across, Side

(* A straightened direction leaves by the same side.                       *)
LEMMA StraightLeaves ==
  ASSUME NEW dir, LeavesBy(dir) \in Side
  PROVE  LeavesBy(Straightened(dir)) = LeavesBy(dir)
BY DEF LeavesBy, Straightened, ToBack, ToAhead, ToLeft, ToRight, Side

-----------------------------------------------------------------------------
(* A path goes from neighbour to neighbour by its headings and never       *)
(* straight back.                                                          *)
PathInv ==
  /\ turn \in [Zone -> Compass]
  /\ path \in Seq(Zone)
  /\ headings \in Seq(Compass)
  /\ Len(path) = Len(headings) + 1
  /\ \A k \in 1 .. Len(headings) :
       /\ path[k + 1] = Towards(path[k], headings[k])
       /\ path[k + 1] # FinalCar
  /\ \A k \in 2 .. Len(headings) : headings[k] # Opposite(headings[k - 1])

LEMMA PathBegins == Init => PathInv
<1> SUFFICES ASSUME Init PROVE PathInv
  OBVIOUS
<1>1. PICK z \in Zone : path = <<z>>
  BY DEF Init
<1>2. headings = <<>> /\ turn \in [Zone -> Compass]
  BY DEF Init
<1> QED
  BY <1>1, <1>2 DEF PathInv

LEMMA PathGrows ==
  ASSUME PathInv, NEW c \in Compass, Extend(c)
  PROVE  PathInv'
<1> DEFINE n == Len(path)
           next == Towards(path[n], c)
<1>1. /\ path \in Seq(Zone) /\ headings \in Seq(Compass)
      /\ n = Len(headings) + 1 /\ Len(headings) \in Nat
  BY DEF PathInv
<1>2. path[n] \in Zone
  BY <1>1
<1>3. next # FinalCar /\ next \in Zone
  BY <1>2, TowardsBack DEF Extend
<1>4. path' = Append(path, next) /\ headings' = Append(headings, c)
  BY DEF Extend
<1>5. turn' = turn
  BY DEF Extend
<1> HIDE DEF next
<1>6. /\ path' \in Seq(Zone) /\ Len(path') = n + 1
      /\ \A k \in 1 .. n : path'[k] = path[k]
      /\ path'[n + 1] = next
  BY <1>1, <1>3, <1>4
<1>7. /\ headings' \in Seq(Compass) /\ Len(headings') = n
      /\ \A k \in 1 .. Len(headings) : headings'[k] = headings[k]
      /\ headings'[n] = c
  BY <1>1, <1>4
<1>8. ASSUME NEW k \in 1 .. n
      PROVE  /\ path'[k + 1] = Towards(path'[k], headings'[k])
             /\ path'[k + 1] # FinalCar
  <2>1. CASE k = n
    BY <1>1, <1>3, <1>6, <1>7, <2>1 DEF next
  <2>2. CASE k # n
    <3>1. k \in 1 .. Len(headings) /\ k + 1 \in 1 .. n
      BY <1>1, <2>2
    <3>2. path[k + 1] = Towards(path[k], headings[k]) /\ path[k + 1] # FinalCar
      BY <3>1 DEF PathInv
    <3> QED
      BY <1>6, <1>7, <3>1, <3>2
  <2> QED
    BY <2>1, <2>2
<1>9. ASSUME NEW k \in 2 .. n
      PROVE  headings'[k] # Opposite(headings'[k - 1])
  <2>1. k - 1 \in 1 .. Len(headings)
    BY <1>1
  <2>2. CASE k = n
    <3>1. k - 1 = Len(headings) /\ headings # <<>>
      BY <1>1, <2>1, <2>2
    <3>2. c # Opposite(headings[Len(headings)])
      BY <3>1 DEF Extend
    <3> QED
      BY <1>7, <2>1, <2>2, <3>1, <3>2
  <2>3. CASE k # n
    <3>1. k \in 2 .. Len(headings)
      BY <1>1, <2>3
    <3>2. headings[k] # Opposite(headings[k - 1])
      BY <3>1 DEF PathInv
    <3> QED
      BY <1>7, <2>1, <3>1, <3>2
  <2> QED
    BY <2>2, <2>3
<1>10. turn' \in [Zone -> Compass]
  BY <1>5 DEF PathInv
<1>11. Len(path') = Len(headings') + 1
  BY <1>1, <1>6, <1>7
<1>12. /\ \A k \in 1 .. Len(headings') :
            /\ path'[k + 1] = Towards(path'[k], headings'[k])
            /\ path'[k + 1] # FinalCar
       /\ \A k \in 2 .. Len(headings') : headings'[k] # Opposite(headings'[k - 1])
  BY <1>7, <1>8, <1>9
<1> QED
  BY <1>6, <1>7, <1>10, <1>11, <1>12 DEF PathInv

LEMMA PathKept == PathInv /\ [Next]_vars => PathInv'
<1> SUFFICES ASSUME PathInv, [Next]_vars PROVE PathInv'
  OBVIOUS
<1>1. CASE Next
  <2>1. PICK c \in Compass : Extend(c)
    BY <1>1 DEF Next
  <2> QED
    BY <2>1, PathGrows
<1>2. CASE UNCHANGED vars
  BY <1>2 DEF vars, PathInv
<1> QED
  BY <1>1, <1>2

(* What the code makes of a zone of a path, read as sides: where the       *)
(* package comes from and where it goes on to.                             *)
LEMMA DirIs ==
  ASSUME PathInv, Len(path) > 1, NEW k \in 1 .. Len(path)
  PROVE  /\ path[k] \in Zone
         /\ HeadingIn(k) \in Compass /\ HeadingOut(k) \in Compass
         /\ EntersBy(Dir(k)) = SideAt(path[k], Opposite(HeadingIn(k)))
         /\ LeavesBy(Dir(k)) = SideAt(path[k], HeadingOut(k))
<1> DEFINE n == Len(path)
           z == path[k]
           pre == data_find_nearzone_direction(Layout[z],
                    IF k = 1 THEN FinalCar ELSE path[k - 1])
           nxt == data_find_nearzone_direction(Layout[z],
                    IF k = n THEN FinalCar ELSE path[k + 1])
<1>1. /\ path \in Seq(Zone) /\ headings \in Seq(Compass)
      /\ n = Len(headings) + 1 /\ Len(headings) \in Nat /\ n > 1
      /\ turn \in [Zone -> Compass]
  BY DEF PathInv
<1>2. \A i \in 1 .. n : path[i] \in Zone
  BY <1>1
<1>3. \A i \in 1 .. Len(headings) : headings[i] \in Compass
  BY <1>1
<1>4. \A c \in Compass : Opposite(c) \in Compass /\ Opposite(Opposite(c)) = c
  BY DEF Compass, Opposite
<1>5. Dir(k) = data_config_moudle_rundir(pre, nxt)
  BY DEF Dir, ZoneDir
<1>6. z \in Zone /\ z # FinalCar
  BY <1>2, GridIs DEF Zone
<1>7. ASSUME k # 1
      PROVE  /\ headings[k - 1] \in Compass
             /\ pre = SideAt(z, Opposite(headings[k - 1]))
             /\ pre \in Side
  <2>1. k - 1 \in 1 .. Len(headings) /\ k - 1 \in 1 .. n /\ (k - 1) + 1 = k
    BY <1>1, <1>7
  <2>2. z = Towards(path[k - 1], headings[k - 1])
    BY <2>1 DEF PathInv
  <2>3. headings[k - 1] \in Compass /\ path[k - 1] \in Zone
    BY <1>2, <1>3, <2>1
  <2>4. Towards(z, Opposite(headings[k - 1])) = path[k - 1]
    BY <1>6, <2>2, <2>3, TowardsBack
  <2>5. path[k - 1] # FinalCar
    BY <2>3, GridIs DEF Zone
  <2>6. pre = data_find_nearzone_direction(Layout[z], path[k - 1])
    BY <1>7
  <2>7. Opposite(headings[k - 1]) \in Compass
    BY <1>4, <2>3
  <2> HIDE DEF pre, nxt, z, n
  <2>8. pre = SideAt(z, Opposite(headings[k - 1]))
    BY <1>1, <1>6, <2>4, <2>5, <2>6, <2>7, NearIs
  <2>9. SideAt(z, Opposite(headings[k - 1])) \in Side
    BY <1>1, <1>6, <2>7, SidesAre
  <2> QED
    BY <2>3, <2>8, <2>9
<1>8. ASSUME k # n
      PROVE  /\ headings[k] \in Compass
             /\ nxt = SideAt(z, headings[k])
             /\ nxt \in Side
  <2>1. k \in 1 .. Len(headings)
    BY <1>1, <1>8
  <2>2. path[k + 1] = Towards(z, headings[k]) /\ path[k + 1] # FinalCar
    BY <2>1 DEF PathInv
  <2>3. headings[k] \in Compass
    BY <1>3, <2>1
  <2>4. nxt = data_find_nearzone_direction(Layout[z], path[k + 1])
    BY <1>8
  <2> HIDE DEF pre, nxt, z, n
  <2>5. nxt = SideAt(z, headings[k])
    BY <1>1, <1>6, <2>2, <2>3, <2>4, NearIs
  <2>6. SideAt(z, headings[k]) \in Side
    BY <1>1, <1>6, <2>3, SidesAre
  <2> QED
    BY <2>3, <2>5, <2>6
<1>9. (k = 1 => pre = "none") /\ (k = n => nxt = "none")
  BY NoneNear
<1>10. /\ HeadingIn(k) = IF k = 1 THEN headings[1] ELSE headings[k - 1]
       /\ HeadingOut(k) = IF k = n THEN headings[k - 1] ELSE headings[k]
  BY DEF HeadingIn, HeadingOut
<1> HIDE DEF pre, nxt, z, n
<1>11. /\ EntersBy(Dir(k)) = SideAt(z, Opposite(HeadingIn(k)))
       /\ LeavesBy(Dir(k)) = SideAt(z, HeadingOut(k))
       /\ HeadingIn(k) \in Compass /\ HeadingOut(k) \in Compass
  <2>1. CASE k = 1
    <3>1. k # n
      BY <1>1, <2>1
    <3>2. HeadingIn(k) = headings[k] /\ HeadingOut(k) = headings[k]
      BY <1>10, <2>1, <3>1
    <3>3. pre = "none" /\ nxt = SideAt(z, headings[k]) /\ nxt \in Side
          /\ headings[k] \in Compass
      BY <1>8, <1>9, <2>1, <3>1
    <3>4. /\ EntersBy(Dir(k)) = Across(nxt)
          /\ LeavesBy(Dir(k)) = nxt
      BY <1>5, <3>3, TableBegins
    <3>5. SideAt(z, Opposite(headings[k])) = Across(nxt)
      BY <1>1, <1>6, <3>3, SideAcross
    <3> QED
      BY <3>2, <3>3, <3>4, <3>5
  <2>2. CASE k = n
    <3>1. k # 1
      BY <1>1, <2>2
    <3>2. HeadingIn(k) = headings[k - 1] /\ HeadingOut(k) = headings[k - 1]
      BY <1>10, <2>2, <3>1
    <3> DEFINE h == headings[k - 1]
    <3>3. nxt = "none" /\ pre = SideAt(z, Opposite(h)) /\ pre \in Side
          /\ h \in Compass
      BY <1>7, <1>9, <2>2, <3>1
    <3>4. /\ EntersBy(Dir(k)) = pre
          /\ LeavesBy(Dir(k)) = Across(pre)
      BY <1>5, <3>3, TableEnds
    <3>5. SideAt(z, Opposite(Opposite(h))) = Across(pre)
      BY <1>1, <1>4, <1>6, <3>3, SideAcross
    <3>6. Opposite(Opposite(h)) = h
      BY <1>4, <3>3
    <3> QED
      BY <3>2, <3>3, <3>4, <3>5, <3>6
  <2>3. CASE k # 1 /\ k # n
    <3>1. HeadingIn(k) = headings[k - 1] /\ HeadingOut(k) = headings[k]
      BY <1>10, <2>3
    <3>2. /\ pre = SideAt(z, Opposite(headings[k - 1])) /\ pre \in Side
          /\ nxt = SideAt(z, headings[k]) /\ nxt \in Side
          /\ headings[k - 1] \in Compass /\ headings[k] \in Compass
      BY <1>7, <1>8, <2>3
    <3>3. headings[k] # Opposite(headings[k - 1])
      <4>1. k \in 2 .. Len(headings)
        BY <1>1, <2>3 DEF n
      <4> QED
        BY <4>1 DEF PathInv
    <3>4. pre # nxt
      <4>1. Opposite(headings[k - 1]) \in Compass
        BY <1>4, <3>2
      <4> QED
        BY <1>1, <1>6, <3>2, <3>3, <4>1, SidesAre
    <3>5. /\ EntersBy(Dir(k)) = pre
          /\ LeavesBy(Dir(k)) = nxt
      BY <1>5, <3>2, <3>4, TableTurns
    <3> QED
      BY <3>1, <3>2, <3>5
  <2> QED
    BY <2>1, <2>2, <2>3
<1> QED
  BY <1>6, <1>11 DEF z

-----------------------------------------------------------------------------
LEMMA PathSound == Spec => []PathInv
BY PathBegins, PathKept, PTL DEF Spec

LEMMA PathChains == PathInv => DirectionsChain
BY DirIs DEF DirectionsChain

LEMMA PathExits == PathInv => ExitBitsFaceNextZone
<1> SUFFICES ASSUME PathInv, Len(path) > 1, NEW k \in 1 .. Len(path)
             PROVE
               LET out == SideAt(path[k], HeadingOut(k))
                   in  == SideAt(path[k], Opposite(HeadingIn(k)))
               IN  /\ ExitBits(Dir(k)) = {b \in 1 .. 4 : out \in Corner(b)}
                   /\ HeadingIn(k) = HeadingOut(k) =>
                        \A b \in ExitBits(Dir(k)) : in \notin Corner(b)
  BY DEF ExitBitsFaceNextZone
<1> DEFINE out == SideAt(path[k], HeadingOut(k))
           in  == SideAt(path[k], Opposite(HeadingIn(k)))
<1>1. /\ path[k] \in Zone /\ HeadingOut(k) \in Compass
      /\ LeavesBy(Dir(k)) = out
  BY DirIs
<1>2. turn \in [Zone -> Compass]
  BY DEF PathInv
<1>3. out \in Side
  BY <1>1, <1>2, SidesAre
<1>4. HeadingIn(k) = HeadingOut(k) => in = Across(out)
  BY <1>1, <1>2, SideAcross
<1> HIDE DEF out, in
<1>5. ExitBits(Dir(k)) = {b \in 1 .. 4 : out \in Corner(b)}
  BY <1>1, <1>3, ExitBitsAre
<1>6. HeadingIn(k) = HeadingOut(k) =>
        \A b \in ExitBits(Dir(k)) : in \notin Corner(b)
  BY <1>3, <1>4, <1>5, CornersApart
<1> QED
  BY <1>5, <1>6 DEF out, in

LEMMA PathStraightens == PathInv => StraighteningKeepsExit
<1> SUFFICES ASSUME PathInv, Len(path) > 1, NEW k \in 1 .. Len(path)
             PROVE  /\ LeavesBy(Straightened(Dir(k))) =
                         SideAt(path[k], HeadingOut(k))
                    /\ ExitBits(Straightened(Dir(k))) = ExitBits(Dir(k))
  BY DEF StraighteningKeepsExit
<1> DEFINE out == SideAt(path[k], HeadingOut(k))
<1>1. /\ path[k] \in Zone /\ HeadingOut(k) \in Compass
      /\ LeavesBy(Dir(k)) = out
  BY DirIs
<1>2. out \in Side
  BY <1>1, SidesAre DEF PathInv
<1> HIDE DEF out
<1>3. LeavesBy(Straightened(Dir(k))) = out
  BY <1>1, <1>2, StraightLeaves
<1>4. /\ ExitBits(Dir(k)) = {b \in 1 .. 4 : out \in Corner(b)}
      /\ ExitBits(Straightened(Dir(k))) = {b \in 1 .. 4 : out \in Corner(b)}
  BY <1>1, <1>2, <1>3, ExitBitsAre
<1> QED
  BY <1>3, <1>4 DEF out

(* However the zones of a floor plan are turned and however long a path    *)
(* is, the directions the master computes zone by zone (data.c, the table  *)
(* of data_config_moudle_rundir) fit together along the path.              *)
THEOREM DirectionsFit == Spec => []DirectionsChain
BY PathSound, PathChains, PTL

(* The sensors a zone is watched at for a leaving package (logic_ctrl.c,   *)
(* logic_pkg_trans_process) are those of the side facing the next zone.    *)
THEOREM ExitBitsRight == Spec => []ExitBitsFaceNextZone
BY PathSound, PathExits, PTL

(* Straightening a direction half way through a zone changes neither the   *)
(* side the package leaves by nor the sensors it is expected at.           *)
THEOREM StraighteningSafe == Spec => []StraighteningKeepsExit
BY PathSound, PathStraightens, PTL
=============================================================================
