--------------------------- MODULE ConveyorProofs ---------------------------
(***************************************************************************)
(* Types, and that no box is driven off the end of the line: for every     *)
(* number of zones, slots and packages and any number of lost frames.      *)
(*                                                                         *)
(* And for a server that sends one package at a time, over a chain that    *)
(* loses nothing (OneAtATime): no two boxes share a zone, the master knows *)
(* the zone of every box, and results are true.                            *)
(*                                                                         *)
(* And for a server that waits for the result of a package before it sends *)
(* the next (AfterDelivery), with any number of lost frames: the master    *)
(* knows the zone of every box, and results are true.                      *)
(***************************************************************************)
EXTENDS Conveyor, FiniteSetTheorems, TLAPS

Last == NZone - 1

(* On a line every direction is straight ahead, and the last belt is never *)
(* told to run on past its photo sensor.                                   *)
Safe(c) == /\ c.dir = "BACK_TOAHEAD"
           /\ c.zone = Last /\ c.cmd = "run" => c.type = "trigstop"

Commands == [zone : Zone, fresh : BOOLEAN, cmd : {"run", "stop"},
             type : {"continue", "trigstop"},
             dir : {"AHEAD_TOBACK", "BACK_TOAHEAD"}]
SafeCommand == {c \in Commands : Safe(c)}
SafeFrame   == {f \in Frame : Safe(f)}

Belt == [status : {"default", "run", "stop"}, type : {"continue", "trigstop"},
         dir : {"DIRDEFAULT", "AHEAD_TOBACK", "BACK_TOAHEAD"}]

(* The state of the master, and that of the chain, the boards and boxes.   *)
MasterTyped ==
  /\ node \in [Slot -> Node] /\ at \in Slot
  /\ zoneState \in [Zone -> SUBSET {1, 2}]
  /\ cnt \in [Zone -> 0 .. FrameMod - 1]
  /\ delivered \subseteq Pkg

LineTyped ==
  /\ lost \in 0 .. MaxLoss
  /\ belt \in [Zone -> Belt]
  /\ motor \in [Zone -> BOOLEAN]
  /\ lastFrame \in [Zone -> NoFrame .. FrameMod - 1]
  /\ box \in [Pkg -> Away .. Taken] /\ hold \in 0 .. 2
  /\ asked \subseteq Board /\ passes \in 0 .. 2

(* The last belt runs up to its photo sensor only, and a belt that was     *)
(* never commanded does not run.                                           *)
BeltsSafe ==
  /\ belt[Last].status = "run" =>
       belt[Last].type = "trigstop" /\ belt[Last].dir = "BACK_TOAHEAD"
  /\ \A z \in Zone : belt[z].status = "default" => motor[z] = FALSE

(* Once the boards have had the time a box needs for a quarter of a zone,  *)
(* the last belt does not run under a box at the end of the line.          *)
EndStopped ==
  /\ \A p \in Pkg : box[p] = AtEnd /\ hold < 2 => motor[Last] = FALSE
  /\ \A p \in Pkg : box[p] # Fallen

IInv == /\ MasterTyped /\ LineTyped /\ canq \in Seq(SafeFrame)
        /\ BeltsSafe /\ EndStopped

-----------------------------------------------------------------------------
LEMMA Numbered ==
  /\ NZone \in Nat /\ NZone > 1 /\ NZone <= 65535 /\ FinalCar = 65535
  /\ NSlot \in Nat /\ NSlot > 0 /\ SendCnt \in Nat /\ SendCnt > 0
  /\ MaxLoss \in Nat /\ FrameMod \in Nat /\ FrameMod > 1
  /\ NoPkg \notin Pkg
BY ConveyorAssumption DEF FinalCar

LEMMA LastIs == Last \in Zone /\ Last \in Int
BY Numbered DEF Last, Zone

(* The rollers of every zone of a line drive ahead.                        *)
LEMMA AheadEverywhere ==
  ASSUME NEW z \in Zone
  PROVE  Dir[z] = "BACK_TOAHEAD"
<1> DEFINE n == Layout[z]
           find(x) == data_find_nearzone_direction(n, x)
<1>1. z \in Nat /\ z < NZone
  BY Numbered DEF Zone
<1>2. /\ Path[z + 1] = z
      /\ z # 0 => Path[z] = z - 1
      /\ z # NZone - 1 => Path[z + 2] = z + 1
  BY <1>1, Numbered DEF Path
<1>3. /\ n.front_zone = IF z < NZone - 1 THEN z + 1 ELSE FinalCar
      /\ n.rear_zone = IF z > 0 THEN z - 1 ELSE FinalCar
  BY DEF Layout
<1>4. Dir[z] = ZoneDir(Layout, Path, NZone, z + 1)
  BY DEF Dir
<1>5. find(FinalCar) = "none"
  BY DEF data_find_nearzone_direction
<1>6. z # 0 => find(z - 1) = "behind"
  <2> HIDE DEF n
  <2> QED
    BY <1>1, <1>3, Numbered DEF data_find_nearzone_direction
<1>7. z # NZone - 1 => find(z + 1) = "front"
  <2> HIDE DEF n
  <2> QED
    BY <1>1, <1>3, Numbered DEF data_find_nearzone_direction
<1>8. CASE z = 0
  <2>1. ZoneDir(Layout, Path, NZone, z + 1) =
          data_config_moudle_rundir(find(FinalCar), find(z + 1))
    BY <1>1, <1>2, <1>8, Numbered DEF ZoneDir
  <2> HIDE DEF find
  <2> QED
    BY <1>4, <1>5, <1>7, <1>8, <2>1, Numbered DEF data_config_moudle_rundir
<1>9. CASE z # 0 /\ z # NZone - 1
  <2>1. ZoneDir(Layout, Path, NZone, z + 1) =
          data_config_moudle_rundir(find(z - 1), find(z + 1))
    BY <1>1, <1>2, <1>9, Numbered DEF ZoneDir
  <2> HIDE DEF find
  <2> QED
    BY <1>4, <1>6, <1>7, <1>9, <2>1 DEF data_config_moudle_rundir
<1>10. CASE z = NZone - 1
  <2>1. ZoneDir(Layout, Path, NZone, z + 1) =
          data_config_moudle_rundir(find(z - 1), find(FinalCar))
    BY <1>1, <1>2, <1>10, Numbered DEF ZoneDir
  <2> HIDE DEF find
  <2> QED
    BY <1>4, <1>5, <1>6, <1>10, <2>1, Numbered DEF data_config_moudle_rundir
<1> QED
  BY <1>8, <1>9, <1>10

(* A command to run or to stop that is safe.                               *)
LEMMA CommandIs ==
  ASSUME NEW z \in Zone, NEW fresh \in BOOLEAN, NEW cmd \in {"run", "stop"},
         NEW type \in {"continue", "trigstop"},
         z = Last /\ cmd = "run" => type = "trigstop"
  PROVE  Command(z, fresh, cmd, type) \in SafeCommand
<1>1. Dir[z] = "BACK_TOAHEAD"
  BY AheadEverywhere
<1> QED
  BY <1>1 DEF Command, SafeCommand, Commands, Safe

LEMMA StopPreviousIs ==
  ASSUME NEW cur \in Zone
  PROVE  StopPrevious(cur) \in Seq(SafeCommand)
<1>1. CASE cur = 0
  BY <1>1 DEF StopPrevious
<1>2. CASE cur # 0
  <2>1. cur - 1 \in Zone
    BY <1>2, Numbered DEF Zone
  <2>2. Command(cur - 1, TRUE, "stop", "continue") \in SafeCommand
    BY <2>1, CommandIs
  <2> DEFINE c == Command(cur - 1, TRUE, "stop", "continue")
  <2>3. StopPrevious(cur) = <<c>>
    BY <1>2 DEF StopPrevious
  <2>4. c \in SafeCommand
    BY <2>2
  <2> HIDE DEF c
  <2> QED
    BY <2>3, <2>4
<1> QED
  BY <1>1, <1>2

(* A package's own belt and the next one are told nothing unsafe.          *)
LEMMA CurrentAndNextIs ==
  ASSUME NEW n \in Node, NEW fresh \in BOOLEAN
  PROVE  CurrentAndNext(n, fresh) \in Seq(SafeCommand)
<1> DEFINE dir == IF n.changenum >= 1 THEN Straightened(Dir[n.cur])
                  ELSE Dir[n.cur]
           cur(type) == [Command(n.cur, fresh, "run", type) EXCEPT !.dir = dir]
           next(cmd, type) == Command(n.cur + 1, fresh, cmd, type)
<1>1. n.cur \in Zone
  BY DEF Node
<1>2. Dir[n.cur] = "BACK_TOAHEAD" /\ dir = "BACK_TOAHEAD"
  <2>1. Dir[n.cur] = "BACK_TOAHEAD"
    BY <1>1, AheadEverywhere
  <2>2. Straightened("BACK_TOAHEAD") = "BACK_TOAHEAD"
    BY DEF Straightened, ToBack, ToAhead, ToLeft, ToRight
  <2> QED
    BY <2>1, <2>2
<1>3. ASSUME NEW type \in {"continue", "trigstop"},
             n.cur = Last => type = "trigstop"
      PROVE  cur(type) \in SafeCommand
  <2>1. Command(n.cur, fresh, "run", type) \in SafeCommand
    BY <1>1, <1>3, CommandIs
  <2>2. cur(type) = Command(n.cur, fresh, "run", type)
    BY <1>2 DEF Command
  <2> QED
    BY <2>1, <2>2
<1>4. ASSUME ~IsLast(n), NEW cmd \in {"run", "stop"},
             NEW type \in {"continue", "trigstop"},
             n.cur = NZone - 2 /\ cmd = "run" => type = "trigstop"
      PROVE  next(cmd, type) \in SafeCommand
  <2>1. n.cur + 1 \in Zone /\ (n.cur + 1 = Last => n.cur = NZone - 2)
    BY <1>1, <1>4, Numbered DEF IsLast, Zone, Last
  <2> QED
    BY <1>4, <2>1, CommandIs
<1>5. ~IsLast(n) => n.cur # Last
  BY DEF IsLast, Last
<1>6. CASE IsLast(n)
  <2>1. cur("trigstop") \in SafeCommand
    BY <1>3
  <2>2. CurrentAndNext(n, fresh) = <<cur("trigstop")>>
    BY <1>6 DEF CurrentAndNext
  <2> HIDE DEF cur
  <2> QED
    BY <2>1, <2>2
<1>7. CASE ~IsLast(n) /\ n.cur = NZone - 2
  <2>1. /\ cur("trigstop") \in SafeCommand /\ cur("continue") \in SafeCommand
        /\ next("stop", "trigstop") \in SafeCommand
        /\ next("run", "trigstop") \in SafeCommand
    BY <1>3, <1>4, <1>5, <1>7
  <2>2. CurrentAndNext(n, fresh) =
          IF n.nextstat THEN <<cur("trigstop"), next("stop", "trigstop")>>
          ELSE <<cur("continue"), next("run", "trigstop")>>
    BY <1>7 DEF CurrentAndNext
  <2> HIDE DEF cur, next
  <2> QED
    BY <2>1, <2>2
<1>8. CASE ~IsLast(n) /\ n.cur # NZone - 2
  <2>1. /\ cur("trigstop") \in SafeCommand /\ cur("continue") \in SafeCommand
        /\ next("stop", "continue") \in SafeCommand
        /\ next("run", "continue") \in SafeCommand
    BY <1>3, <1>4, <1>5, <1>8
  <2>2. CurrentAndNext(n, fresh) =
          IF n.nextstat THEN <<cur("trigstop"), next("stop", "continue")>>
          ELSE <<cur("continue"), next("run", "continue")>>
    BY <1>8 DEF CurrentAndNext
  <2> HIDE DEF cur, next
  <2> QED
    BY <2>1, <2>2
<1> QED
  BY <1>6, <1>7, <1>8

(* The frames they become, and what is counted for them.                   *)
LEMMA RaisedIs ==
  ASSUME NEW cmds \in Seq(SafeCommand), NEW z \in Zone
  PROVE  Raised(cmds, z) \in Nat
<1> DEFINE S == {j \in DOMAIN cmds : cmds[j].zone = z /\ cmds[j].fresh}
<1>1. DOMAIN cmds = 1 .. Len(cmds) /\ Len(cmds) \in Nat
  OBVIOUS
<1>2. IsFiniteSet(1 .. Len(cmds))
  BY <1>1, FS_Interval
<1>3. IsFiniteSet(S)
  BY <1>1, <1>2, FS_Subset
<1>4. Cardinality(S) \in Nat
  BY <1>3, FS_CardinalityType
<1>5. Raised(cmds, z) = Cardinality(S)
  BY DEF Raised
<1> QED
  BY <1>4, <1>5

LEMMA Wrapped ==
  ASSUME NEW n \in Nat
  PROVE  n % FrameMod \in 0 .. FrameMod - 1
BY Numbered

LEMMA FramesIs ==
  ASSUME MasterTyped, NEW cmds \in Seq(SafeCommand)
  PROVE  Frames(cmds) \in Seq(SafeFrame)
<1> DEFINE fr(k) == (cnt[cmds[k].zone]
                       + Raised(SubSeq(cmds, 1, k), cmds[k].zone)) % FrameMod
           f(k) == [zone |-> cmds[k].zone, cmd |-> cmds[k].cmd,
                    type |-> cmds[k].type, dir |-> cmds[k].dir,
                    frame |-> fr(k)]
<1>1. ASSUME NEW k \in 1 .. Len(cmds)
      PROVE  f(k) \in SafeFrame
  <2>1. cmds[k] \in SafeCommand
    OBVIOUS
  <2>2. cmds[k] \in Commands /\ Safe(cmds[k]) /\ cmds[k].zone \in Zone
    BY <2>1 DEF SafeCommand, Commands
  <2>3. SubSeq(cmds, 1, k) \in Seq(SafeCommand)
    OBVIOUS
  <2>4. Raised(SubSeq(cmds, 1, k), cmds[k].zone) \in Nat
    BY <2>2, <2>3, RaisedIs
  <2>5. cnt[cmds[k].zone] \in Nat
    BY <2>2, Numbered DEF MasterTyped
  <2>6. fr(k) \in 0 .. FrameMod - 1
    BY <2>4, <2>5, Wrapped
  <2> HIDE DEF fr
  <2> QED
    BY <2>2, <2>6 DEF SafeFrame, Frame, Commands, Safe
<1>2. Frames(cmds) = [k \in 1 .. Len(cmds) |-> f(k)]
  BY DEF Frames
<1> HIDE DEF f
<1> QED
  BY <1>1, <1>2

(* A visit's commands leave the chain and the counters as they should be.  *)
LEMMA SendIs ==
  ASSUME MasterTyped, canq \in Seq(SafeFrame),
         NEW cmds \in Seq(SafeCommand), Send(cmds)
  PROVE  /\ canq' \in Seq(SafeFrame)
         /\ cnt' \in [Zone -> 0 .. FrameMod - 1]
<1>1. canq' \in Seq(SafeFrame)
  <2>1. Frames(cmds) \in Seq(SafeFrame)
    BY FramesIs
  <2>2. canq' = canq \o Frames(cmds)
    BY DEF Send
  <2> QED
    BY <2>1, <2>2
<1>2. ASSUME NEW z \in Zone
      PROVE  (cnt[z] + Raised(cmds, z)) % FrameMod \in 0 .. FrameMod - 1
  <2>1. Raised(cmds, z) \in Nat
    BY RaisedIs
  <2>2. cnt[z] + Raised(cmds, z) \in Nat
    BY <2>1, Numbered DEF MasterTyped
  <2> QED
    BY <2>2, Wrapped
<1> QED
  BY <1>1, <1>2 DEF Send

-----------------------------------------------------------------------------
(* A step that leaves belts, boxes and the wait for them alone.            *)
LEMMA LineKept ==
  ASSUME LineTyped, BeltsSafe, EndStopped,
         UNCHANGED <<lost, belt, motor, lastFrame, box, asked, hold>>,
         passes' \in 0 .. 2
  PROVE  LineTyped' /\ BeltsSafe' /\ EndStopped'
BY DEF LineTyped, BeltsSafe, EndStopped

LEMMA FreeNodeIs ==
  /\ FreeNode \in Node
  /\ \A p \in Pkg : [FreeNode EXCEPT !.pkg = p] \in Node
<1>1. 0 \in Zone /\ 0 \in 0 .. SendCnt
  BY Numbered DEF Zone
<1> QED
  BY <1>1 DEF FreeNode, Node

LEMMA PassOnIs ==
  ASSUME at \in Slot, passes \in 0 .. 2, PassOn, CountPass
  PROVE  at' \in Slot /\ passes' \in 0 .. 2
<1>1. (at + 1) % NSlot \in 0 .. NSlot - 1
  BY Numbered DEF Slot
<1>2. at' \in Slot
  BY <1>1 DEF PassOn, Slot
<1> QED
  BY <1>2 DEF CountPass

(* What a visit sees of the next zone.                                     *)
LEMMA ObservedIs ==
  ASSUME NEW n \in Node
  PROVE  /\ Observed(n) \in Node
         /\ Observed(n).cur = n.cur /\ Observed(n).pkg = n.pkg
<1>1. ExitSeen(n.cur + 1) \in BOOLEAN
  BY DEF ExitSeen
<1> QED
  BY <1>1 DEF Observed, Node

-----------------------------------------------------------------------------
(* The visits.                                                             *)
LEMMA VisitFreeSafe == IInv /\ VisitFree => IInv'
<1> SUFFICES ASSUME IInv, VisitFree PROVE IInv'
  OBVIOUS
<1>1. at' \in Slot /\ passes' \in 0 .. 2
  BY PassOnIs DEF VisitFree, IInv, MasterTyped, LineTyped
<1>2. LineTyped' /\ BeltsSafe' /\ EndStopped'
  BY <1>1, LineKept DEF VisitFree, IInv, beltVars
<1> QED
  BY <1>1, <1>2 DEF VisitFree, IInv, MasterTyped

LEMMA VisitDeliversSafe == IInv /\ VisitDelivers => IInv'
<1> SUFFICES ASSUME IInv, VisitDelivers PROVE IInv'
  OBVIOUS
<1> DEFINE n == node[at]
           c == Command(n.cur, TRUE, "stop", "continue")
           cmds == <<c>> \o StopPrevious(n.cur)
<1>1. at' \in Slot /\ passes' \in 0 .. 2
  BY PassOnIs DEF VisitDelivers, IInv, MasterTyped, LineTyped
<1>2. LineTyped' /\ BeltsSafe' /\ EndStopped'
  BY <1>1, LineKept DEF VisitDelivers, IInv, beltVars
<1>3. n \in Node /\ n.cur \in Zone /\ n.pkg \in Pkg /\ MasterTyped
  BY DEF VisitDelivers, IInv, MasterTyped, Node
<1>4. c \in SafeCommand /\ StopPrevious(n.cur) \in Seq(SafeCommand)
  BY <1>3, CommandIs, StopPreviousIs
<1>5. Send(cmds)
  BY DEF VisitDelivers
<1>6. cmds \in Seq(SafeCommand)
  <2> HIDE DEF c
  <2> QED
    BY <1>4
<1>7. canq' \in Seq(SafeFrame) /\ cnt' \in [Zone -> 0 .. FrameMod - 1]
  <2> HIDE DEF cmds
  <2> QED
    BY <1>3, <1>5, <1>6, SendIs DEF IInv
<1>8. node' \in [Slot -> Node] /\ zoneState' \in [Zone -> SUBSET {1, 2}]
  BY FreeNodeIs DEF VisitDelivers, IInv, MasterTyped
<1>9. delivered' \subseteq Pkg
  BY <1>3 DEF VisitDelivers, MasterTyped
<1> QED
  BY <1>1, <1>2, <1>7, <1>8, <1>9 DEF IInv, MasterTyped

LEMMA VisitAdvancesSafe == IInv /\ VisitAdvances => IInv'
<1> SUFFICES ASSUME IInv, VisitAdvances PROVE IInv'
  OBVIOUS
<1> DEFINE n == Observed(node[at])
           arriving == IF Arrives(n) THEN StopPrevious(n.cur) ELSE <<>>
           cmds == arriving \o StopPrevious(n.cur)
           m == [n EXCEPT !.cur = n.cur + 1, !.arrive = FALSE,
                          !.changenum = 0, !.cnt = Counted(n)]
<1>1. at' \in Slot /\ passes' \in 0 .. 2
  BY PassOnIs DEF VisitAdvances, IInv, MasterTyped, LineTyped
<1>2. LineTyped' /\ BeltsSafe' /\ EndStopped'
  BY <1>1, LineKept DEF VisitAdvances, IInv, beltVars
<1>3. n \in Node /\ n.cur \in Zone /\ n.cnt \in 0 .. SendCnt /\ MasterTyped
  <2>1. n \in Node
    BY ObservedIs DEF IInv, MasterTyped
  <2> HIDE DEF n
  <2> QED
    BY <2>1 DEF IInv, Node
<1>4. /\ Send(cmds) /\ ~IsLast(n)
      /\ node' = [node EXCEPT ![at] = m]
      /\ UNCHANGED <<zoneState, delivered>>
  BY DEF VisitAdvances, Advances
<1> HIDE DEF n
<1>5. cmds \in Seq(SafeCommand)
  <2>1. StopPrevious(n.cur) \in Seq(SafeCommand)
    BY <1>3, StopPreviousIs
  <2>2. arriving \in Seq(SafeCommand)
    BY <2>1
  <2> HIDE DEF arriving
  <2> QED
    BY <2>1, <2>2
<1>6. canq' \in Seq(SafeFrame) /\ cnt' \in [Zone -> 0 .. FrameMod - 1]
  <2> HIDE DEF cmds
  <2> QED
    BY <1>3, <1>4, <1>5, SendIs DEF IInv
<1>7. m \in Node
  <2>1. n.cur + 1 \in Zone
    BY <1>3, <1>4, Numbered DEF IsLast, Zone
  <2>2. Counted(n) \in 0 .. SendCnt
    BY <1>3, Numbered DEF Counted
  <2> QED
    BY <1>3, <2>1, <2>2 DEF Node
<1> HIDE DEF m
<1>8. node' \in [Slot -> Node]
  BY <1>3, <1>4, <1>7 DEF MasterTyped
<1> QED
  BY <1>1, <1>2, <1>3, <1>4, <1>6, <1>8 DEF IInv, MasterTyped

LEMMA VisitKeepsSafe == IInv /\ VisitKeeps => IInv'
<1> SUFFICES ASSUME IInv, VisitKeeps PROVE IInv'
  OBVIOUS
<1> DEFINE n == Observed(node[at])
           entered == n.cur # n.last
           count == IF entered THEN 0 ELSE Counted(n)
           resend == count >= SendCnt
           A == IF Arrives(n) THEN StopPrevious(n.cur) ELSE <<>>
           B == IF entered THEN CurrentAndNext(n, TRUE) ELSE <<>>
           C == IF n.changed THEN CurrentAndNext(n, TRUE) ELSE <<>>
           D == IF resend THEN CurrentAndNext(n, FALSE) ELSE <<>>
           cmds == A \o B \o C \o D
           m == [n EXCEPT !.last = n.cur, !.changed = FALSE,
                          !.arrive = n.arrive \/ Arrives(n),
                          !.cnt = IF resend THEN 0 ELSE count]
<1>1. at' \in Slot /\ passes' \in 0 .. 2
  BY PassOnIs DEF VisitKeeps, IInv, MasterTyped, LineTyped
<1>2. LineTyped' /\ BeltsSafe' /\ EndStopped'
  BY <1>1, LineKept DEF VisitKeeps, IInv, beltVars
<1>3. n \in Node /\ n.cur \in Zone /\ n.cnt \in 0 .. SendCnt /\ MasterTyped
  <2>1. n \in Node
    BY ObservedIs DEF IInv, MasterTyped
  <2> HIDE DEF n
  <2> QED
    BY <2>1 DEF IInv, Node
<1>4. /\ Send(cmds)
      /\ node' = [node EXCEPT ![at] = m]
      /\ UNCHANGED <<zoneState, delivered>>
  BY DEF VisitKeeps
<1> HIDE DEF n
<1>5. cmds \in Seq(SafeCommand)
  <2>1. A \in Seq(SafeCommand)
    BY <1>3, StopPreviousIs
  <2>2. /\ B \in Seq(SafeCommand) /\ C \in Seq(SafeCommand)
        /\ D \in Seq(SafeCommand)
    <3>1. /\ CurrentAndNext(n, TRUE) \in Seq(SafeCommand)
          /\ CurrentAndNext(n, FALSE) \in Seq(SafeCommand)
      BY <1>3, CurrentAndNextIs
    <3>2. <<>> \in Seq(SafeCommand)
      OBVIOUS
    <3> QED
      BY <3>1, <3>2, Zenon
  <2> HIDE DEF A, B, C, D
  <2> QED
    BY <2>1, <2>2
<1>6. canq' \in Seq(SafeFrame) /\ cnt' \in [Zone -> 0 .. FrameMod - 1]
  <2> HIDE DEF cmds
  <2> QED
    BY <1>3, <1>4, <1>5, SendIs DEF IInv
<1>7. m \in Node
  <2>1. count \in 0 .. SendCnt /\ 0 \in 0 .. SendCnt
    BY <1>3, Numbered DEF Counted
  <2>2. (n.arrive \/ Arrives(n)) \in BOOLEAN
    OBVIOUS
  <2> HIDE DEF count
  <2> QED
    BY <1>3, <2>1, <2>2 DEF Node
<1> HIDE DEF m
<1>8. node' \in [Slot -> Node]
  BY <1>3, <1>4, <1>7 DEF MasterTyped
<1> QED
  BY <1>1, <1>2, <1>3, <1>4, <1>6, <1>8 DEF IInv, MasterTyped

-----------------------------------------------------------------------------
(* The chain, the boards and the boxes.                                    *)
LEMMA RecvPkgTransSafe ==
  ASSUME IInv, NEW p \in Pkg, RecvPkgTrans(p) PROVE IInv'
<1>1. node' \in [Slot -> Node]
  BY FreeNodeIs DEF RecvPkgTrans, IInv, MasterTyped
<1>2. /\ box' \in [Pkg -> Away .. Taken]
      /\ \A q \in Pkg : box'[q] # box[q] => box'[q] \in {1, 2}
  <2>1. box \in [Pkg -> Away .. Taken] /\ {1, 2} \subseteq Away .. Taken
    BY Numbered DEF IInv, LineTyped, Away, Taken
  <2>2. PICK start \in {1, 2} : box' = [box EXCEPT ![p] = start]
    BY DEF RecvPkgTrans
  <2> QED
    BY <2>1, <2>2
<1>3. hold' = 2 /\ AtEnd > 2 /\ Fallen > 2 /\ EndStopped
  BY Numbered DEF RecvPkgTrans, AtEnd, Fallen, IInv
<1>4. EndStopped'
  BY <1>2, <1>3 DEF EndStopped
<1> QED
  BY <1>1, <1>2, <1>3, <1>4
     DEF RecvPkgTrans, IInv, MasterTyped, LineTyped, BeltsSafe, beltVars

LEMMA LineSteps ==
  ASSUME IInv, canq # <<>>, canq' = Tail(canq)
  PROVE  canq' \in Seq(SafeFrame) /\ Head(canq) \in SafeFrame
<1>1. canq \in Seq(SafeFrame)
  BY DEF IInv
<1> QED
  BY <1>1

LEMMA RecvStartCmdSafe == IInv /\ RecvStartCmd => IInv'
<1> SUFFICES ASSUME IInv, RecvStartCmd PROVE IInv'
  OBVIOUS
<1> DEFINE f == Head(canq)
           b == [status |-> f.cmd, type |-> f.type, dir |-> f.dir]
<1>1. canq' \in Seq(SafeFrame) /\ f \in SafeFrame
  BY LineSteps DEF RecvStartCmd
<1>2. /\ UNCHANGED <<masterVars, lost, motor, box, timeVars>>
      /\ \/ UNCHANGED <<belt, lastFrame>>
         \/ /\ lastFrame' = [lastFrame EXCEPT ![f.zone] = f.frame]
            /\ belt' = [belt EXCEPT ![f.zone] = b]
  BY DEF RecvStartCmd
<1> HIDE DEF f
<1>3. f \in Frame /\ Safe(f)
  BY <1>1 DEF SafeFrame
<1>4. b \in Belt /\ b.status # "default"
  BY <1>3 DEF Frame, Belt
<1>5. f.zone \in Zone /\ f.frame \in NoFrame .. FrameMod - 1
  BY <1>3, Numbered DEF Frame, NoFrame
<1>6. f.zone = Last /\ b.status = "run" =>
        b.type = "trigstop" /\ b.dir = "BACK_TOAHEAD"
  BY <1>3 DEF Safe
<1> HIDE DEF b
<1>7. belt' \in [Zone -> Belt]
  BY <1>2, <1>4, <1>5 DEF IInv, LineTyped
<1>8. lastFrame' \in [Zone -> NoFrame .. FrameMod - 1]
  BY <1>2, <1>5 DEF IInv, LineTyped
<1>9. \A z \in Zone : belt'[z] = belt[z] \/ (z = f.zone /\ belt'[z] = b)
  BY <1>2, <1>5 DEF IInv, LineTyped
<1>10. BeltsSafe'
  BY <1>2, <1>4, <1>6, <1>9, LastIs DEF IInv, BeltsSafe
<1>11. EndStopped'
  BY <1>2 DEF IInv, EndStopped, timeVars
<1> QED
  BY <1>1, <1>2, <1>7, <1>8, <1>10, <1>11
     DEF IInv, MasterTyped, LineTyped, masterVars, timeVars

LEMMA LoseStartCmdSafe == IInv /\ LoseStartCmd => IInv'
<1> SUFFICES ASSUME IInv, LoseStartCmd PROVE IInv'
  OBVIOUS
<1>1. canq' \in Seq(SafeFrame)
  BY LineSteps DEF LoseStartCmd
<1>2. lost' \in 0 .. MaxLoss
  BY Numbered DEF LoseStartCmd, IInv, LineTyped
<1> QED
  BY <1>1, <1>2 DEF LoseStartCmd, IInv, MasterTyped, LineTyped, BeltsSafe,
     EndStopped, masterVars, timeVars, beltVars

LEMMA TriggerStopSafe ==
  ASSUME IInv, NEW z \in Zone, TriggerStop(z) PROVE IInv'
<1>1. /\ belt' \in [Zone -> Belt] /\ motor' \in [Zone -> BOOLEAN]
      /\ belt'[z].status = "stop" /\ motor'[z] = FALSE
      /\ \A y \in Zone \ {z} : belt'[y] = belt[y] /\ motor'[y] = motor[y]
  <2> DEFINE b == [belt[z] EXCEPT !.status = "stop", !.type = "continue"]
  <2>1. belt \in [Zone -> Belt] /\ motor \in [Zone -> BOOLEAN]
    BY DEF IInv, LineTyped
  <2>2. belt' = [belt EXCEPT ![z] = b] /\ motor' = [motor EXCEPT ![z] = FALSE]
    BY <2>1 DEF TriggerStop
  <2>3. b \in Belt /\ b.status = "stop"
    BY <2>1 DEF Belt
  <2> HIDE DEF b
  <2> QED
    BY <2>1, <2>2, <2>3
<1>2. UNCHANGED <<masterVars, canq, lost, lastFrame, box, timeVars>>
  BY DEF TriggerStop
<1>3. BeltsSafe'
  BY <1>1, LastIs DEF IInv, BeltsSafe
<1>4. EndStopped'
  BY <1>1, <1>2, LastIs DEF IInv, EndStopped, timeVars
<1> QED
  BY <1>1, <1>2, <1>3, <1>4
     DEF IInv, MasterTyped, LineTyped, masterVars, timeVars

(* A belt whose sensor a box covers, and that is not triggered, stands or  *)
(* is about to.                                                            *)
LEMMA EndOfLine ==
  ASSUME IInv, NEW p \in Pkg, box[p] = AtEnd, ~Triggered(Last)
  PROVE  Applied(Last) = FALSE
<1>1. 2 \in Covered(Last)
  <2>1. box[p] \in {4 * Last + 3, 4 * (Last + 1)} \cap (0 .. Fallen)
    BY Numbered DEF Last, AtEnd, Fallen
  <2>2. box[p] \in IF 2 = 1 THEN {4 * Last, 4 * Last + 1}
                   ELSE {4 * Last + 3, 4 * (Last + 1)} \cap (0 .. Fallen)
    BY <2>1
  <2> QED
    BY <2>2, Zenon DEF Covered
<1>2. belt[Last].status # "run"
  BY <1>1 DEF Triggered, IInv, BeltsSafe
<1>3. belt[Last].status = "default" => motor[Last] = FALSE
  BY LastIs DEF IInv, BeltsSafe
<1> QED
  BY <1>2, <1>3 DEF Applied

LEMMA ApplyMotorSafe ==
  ASSUME IInv, NEW z \in Zone, ApplyMotor(z) PROVE IInv'
<1>1. Applied(z) \in BOOLEAN
  BY DEF Applied, IInv, LineTyped
<1>2. /\ motor' \in [Zone -> BOOLEAN] /\ motor'[z] = Applied(z)
      /\ \A y \in Zone \ {z} : motor'[y] = motor[y]
  BY <1>1 DEF ApplyMotor, IInv, LineTyped
<1>3. UNCHANGED <<masterVars, canq, lost, belt, lastFrame, box, timeVars>>
  BY DEF ApplyMotor
<1>4. belt[z].status # "default"
  BY DEF ApplyMotor, Applied
<1>5. BeltsSafe'
  BY <1>2, <1>3, <1>4 DEF IInv, BeltsSafe
<1>6. ASSUME NEW p \in Pkg, box[p] = AtEnd, hold < 2
      PROVE  motor'[Last] = FALSE
  <2>1. CASE z = Last
    BY <1>2, <1>6, <2>1, EndOfLine DEF ApplyMotor
  <2>2. CASE z # Last
    BY <1>2, <1>6, <2>2, LastIs DEF IInv, EndStopped
  <2> QED
    BY <2>1, <2>2
<1>7. EndStopped'
  BY <1>3, <1>6 DEF IInv, EndStopped, timeVars
<1> QED
  BY <1>2, <1>3, <1>5, <1>7
     DEF IInv, MasterTyped, LineTyped, masterVars, timeVars

LEMMA AskModuleStateSafe == IInv /\ AskModuleState => IInv'
<1> SUFFICES ASSUME IInv, AskModuleState PROVE IInv'
  OBVIOUS
<1>1. UNCHANGED <<masterVars, canq, lost, beltVars, box>>
  BY DEF AskModuleState
<1>2. asked' \subseteq Board /\ passes' \in 0 .. 2 /\ hold' \in 0 .. 2
  BY DEF AskModuleState, IInv, LineTyped
<1>3. ~Triggered(Last) /\ motor[Last] = Applied(Last)
  BY LastIs DEF AskModuleState, Settled
<1>4. \A p \in Pkg : box[p] = AtEnd => motor[Last] = FALSE
  BY <1>3, EndOfLine
<1>5. EndStopped'
  BY <1>1, <1>4 DEF IInv, EndStopped, beltVars
<1> QED
  BY <1>1, <1>2, <1>5
     DEF IInv, MasterTyped, LineTyped, BeltsSafe, masterVars, beltVars

LEMMA ModuleStatusSafe ==
  ASSUME IInv, NEW b \in Board, ModuleStatus(b) PROVE IInv'
<1>1. zoneState' \in [Zone -> SUBSET {1, 2}]
  BY DEF ModuleStatus, IInv, MasterTyped, Covered
<1> QED
  BY <1>1 DEF ModuleStatus, IInv, MasterTyped, LineTyped, BeltsSafe,
     EndStopped, beltVars

LEMMA MoveSafe == IInv /\ Move => IInv'
<1> SUFFICES ASSUME IInv, Move PROVE IInv'
  OBVIOUS
<1>1. PICK moving \in SUBSET (Driven \cup Pulled) :
        box' = [p \in Pkg |-> IF p \in moving THEN box[p] + 1 ELSE box[p]]
  BY DEF Move
<1>2. ASSUME NEW p \in Pkg, box[p] = AtEnd
      PROVE  p \notin moving
  <2>1. Under(p) = {Last}
    BY <1>2, Numbered DEF Under, AtEnd, Last
  <2>2. motor[Last] = FALSE
    BY <1>2 DEF IInv, EndStopped, Move
  <2> QED
    BY <2>1, <2>2 DEF Driven, Pulled
<1>3. ASSUME NEW p \in Pkg, p \in moving
      PROVE  box[p] \in 0 .. AtEnd - 1
  <2>1. box[p] \in 0 .. AtEnd
    BY <1>3 DEF Driven, Pulled, OnLine
  <2> QED
    BY <1>2, <1>3, <2>1, Numbered DEF AtEnd
<1>4. ASSUME NEW p \in Pkg
      PROVE  box'[p] \in Away .. Taken /\ box'[p] # Fallen
  <2>1. box[p] \in Away .. Taken /\ box[p] # Fallen
    BY DEF IInv, LineTyped, EndStopped
  <2>2. CASE p \in moving
    BY <1>1, <1>3, <2>2, Numbered DEF Away, AtEnd, Fallen, Taken
  <2>3. CASE p \notin moving
    BY <1>1, <2>1, <2>3
  <2> QED
    BY <2>2, <2>3
<1>5. box' \in [Pkg -> Away .. Taken]
  BY <1>1, <1>4
<1>6. hold' = 2
  BY DEF Move
<1>7. EndStopped'
  BY <1>4, <1>6 DEF EndStopped
<1> QED
  BY <1>5, <1>6, <1>7
     DEF Move, IInv, MasterTyped, LineTyped, BeltsSafe, masterVars, beltVars

LEMMA TakeOffSafe ==
  ASSUME IInv, NEW p \in Pkg, TakeOff(p) PROVE IInv'
<1>1. Taken \in Away .. Taken /\ Taken # Fallen /\ Taken # AtEnd
  BY Numbered DEF Away, Taken, Fallen, AtEnd
<1>2. /\ box' \in [Pkg -> Away .. Taken]
      /\ \A q \in Pkg : box'[q] = box[q] \/ box'[q] = Taken
  BY <1>1 DEF TakeOff, IInv, LineTyped
<1>3. UNCHANGED <<masterVars, canq, lost, beltVars, timeVars>>
  BY DEF TakeOff
<1>4. EndStopped'
  BY <1>1, <1>2, <1>3 DEF IInv, EndStopped, beltVars, timeVars
<1> QED
  BY <1>2, <1>3, <1>4
     DEF IInv, MasterTyped, LineTyped, BeltsSafe, masterVars, beltVars, timeVars

-----------------------------------------------------------------------------
LEMMA InitSafe == Init => IInv
<1> SUFFICES ASSUME Init PROVE IInv
  OBVIOUS
<1>1. 0 \in Slot /\ 0 \in 0 .. FrameMod - 1 /\ 0 \in 0 .. MaxLoss
  BY Numbered DEF Slot
<1>2. MasterTyped
  BY <1>1, FreeNodeIs DEF Init, MasterTyped
<1>3. /\ NoFrame \in NoFrame .. FrameMod - 1 /\ Away \in Away .. Taken
      /\ Away # AtEnd /\ Away # Fallen
  BY Numbered DEF NoFrame, Away, Taken, AtEnd, Fallen
<1>4. LineTyped
  BY <1>1, <1>3 DEF Init, LineTyped, Belt
<1>5. canq \in Seq(SafeFrame)
  BY DEF Init
<1>6. BeltsSafe
  BY LastIs DEF Init, BeltsSafe
<1>7. EndStopped
  BY <1>3 DEF Init, EndStopped
<1> QED
  BY <1>2, <1>4, <1>5, <1>6, <1>7 DEF IInv

LEMMA NextSafe == IInv /\ [Next]_vars => IInv'
<1> SUFFICES ASSUME IInv, [Next]_vars PROVE IInv'
  OBVIOUS
<1>1. CASE \E p \in Pkg : RecvPkgTrans(p)
  BY <1>1, RecvPkgTransSafe
<1>2. CASE VisitFree
  BY <1>2, VisitFreeSafe
<1>3. CASE VisitDelivers
  BY <1>3, VisitDeliversSafe
<1>4. CASE VisitAdvances
  BY <1>4, VisitAdvancesSafe
<1>5. CASE VisitKeeps
  BY <1>5, VisitKeepsSafe
<1>6. CASE RecvStartCmd
  BY <1>6, RecvStartCmdSafe
<1>7. CASE LoseStartCmd
  BY <1>7, LoseStartCmdSafe
<1>8. CASE \E z \in Zone : TriggerStop(z) \/ ApplyMotor(z)
  BY <1>8, TriggerStopSafe, ApplyMotorSafe
<1>9. CASE AskModuleState
  BY <1>9, AskModuleStateSafe
<1>10. CASE \E b \in Board : ModuleStatus(b)
  BY <1>10, ModuleStatusSafe
<1>11. CASE Move
  BY <1>11, MoveSafe
<1>12. CASE \E p \in Pkg : TakeOff(p)
  BY <1>12, TakeOffSafe
<1>13. CASE UNCHANGED vars
  BY <1>13 DEF vars, masterVars, beltVars, timeVars, IInv, MasterTyped,
     LineTyped, BeltsSafe, EndStopped
<1> QED
  BY <1>1, <1>2, <1>3, <1>4, <1>5, <1>6, <1>7, <1>8, <1>9, <1>10, <1>11,
     <1>12, <1>13 DEF Next

LEMMA IInvTypes == IInv => TypeOK
<1> SUFFICES ASSUME IInv PROVE TypeOK
  OBVIOUS
<1>1. SafeFrame \subseteq Frame
  BY DEF SafeFrame
<1>2. canq \in Seq(Frame)
  <2>1. canq \in Seq(SafeFrame)
    BY DEF IInv
  <2> QED
    BY <1>1, <2>1
<1> QED
  BY <1>2 DEF IInv, MasterTyped, LineTyped, Belt, TypeOK

(* The state of the master, the chain, the boards and the boxes keeps its  *)
(* types, whatever the length of the line and the number of packages.      *)
THEOREM TypeCorrect == Spec => []TypeOK
<1>1. Init => IInv
  BY InitSafe
<1>2. IInv /\ [Next]_vars => IInv'
  BY NextSafe
<1>3. IInv => TypeOK
  BY IInvTypes
<1> QED
  BY <1>1, <1>2, <1>3, PTL DEF Spec

(* No box is driven off the end of the line, however many frames are lost: *)
(* every run command to the last belt is up to its photo sensor.           *)
THEOREM NothingFalls == Spec => []NothingFallsOff
<1>1. Init => IInv
  BY InitSafe
<1>2. IInv /\ [Next]_vars => IInv'
  BY NextSafe
<1>3. IInv => NothingFallsOff
  BY DEF IInv, EndStopped, NothingFallsOff
<1> QED
  BY <1>1, <1>2, <1>3, PTL DEF Spec
-----------------------------------------------------------------------------
(* One package at a time: the server sends the next one when those before  *)
(* are in the last zone, and the chain loses nothing.                      *)
OneAtATime == NZone >= 4 /\ Spacing >= Last /\ MaxLoss = 0

Before == NZone - 2

Carries(s) == node[s].pkg # NoPkg
Pos(s)     == box[node[s].pkg]
Ahead(s)   == Carries(s) /\ node[s].cur = Last
Behind(s)  == Carries(s) /\ node[s].cur < Last
Nears(s)   == Carries(s) /\ node[s].cur = Before

(* What moved last has been reported by the board of zone z; a visit to    *)
(* slot s that knows all reports is still to come before the next move.    *)
Told(z)  == hold = 0 \/ (hold = 1 /\ z \div 2 \notin asked)
Knows(s) == asked = {} /\ (passes = 2 \/ (passes = 1 /\ at > s))
Due(s)   == hold = 2 \/ (hold = 1 /\ ~Knows(s))

(* Packages and boxes.                                                     *)
Owners == \A s, t \in Slot : Carries(s) /\ node[s].pkg = node[t].pkg => s = t

Alone == \A s, t \in Slot :
  (Ahead(s) /\ Ahead(t)) \/ (Behind(s) /\ Behind(t)) => s = t

Idle == \A p \in Pkg :
  /\ p \in delivered => box[p] \in {AtEnd, Taken} /\ ~Carried(p)
  /\ p \notin delivered /\ ~Carried(p) => box[p] = Away

Places == \A s \in Slot :
  /\ node[s].last <= node[s].cur
  /\ Ahead(s) => Pos(s) \in 4 * Last .. AtEnd
  /\ Behind(s) => Pos(s) \in 4 * node[s].cur .. 4 * node[s].cur + 4

Follows == \A s \in Slot :
  /\ node[s].last <= node[s].cur
  /\ Ahead(s) => Pos(s) \in 4 * Last .. AtEnd
  /\ Behind(s) => Pos(s) \in 4 * node[s].cur .. 4 * node[s].cur + 5

OneAtEnd == \A p, q \in Pkg :
  box[p] \in 4 * Last .. AtEnd /\ box[q] \in 4 * Last .. AtEnd => p = q

(* The package on its way does not catch up with the one in the last zone. *)
Lockstep == \A s, t \in Slot : Ahead(s) /\ Behind(t) =>
  /\ Pos(t) <= 5
  /\ Pos(s) < AtEnd => Pos(t) <= Pos(s) - 4 * Last + 2

Line == Owners /\ Alone /\ Idle /\ Places /\ OneAtEnd /\ Lockstep

(* What the master has heard of the sensors, and what it can not have.     *)
EntryHeard == \A z \in Zone : 1 \in zoneState[z] =>
  \E s \in Slot : /\ Carries(s) /\ Pos(s) \in 4 * z .. 4 * z + 2
                  /\ Told(z) => Pos(s) <= 4 * z + 1

ExitHeard == \A z \in Zone \ {Last} : 2 \in zoneState[z] =>
  \E s \in Slot : /\ Carries(s) /\ Pos(s) \in 4 * z + 3 .. 4 * z + 5
                  /\ Told(z) => Pos(s) <= 4 * z + 4

EntryTold == \A z \in Zone, s \in Slot :
  Carries(s) /\ Told(z) /\ Pos(s) \in 4 * z .. 4 * z + 1 => 1 \in zoneState[z]

EndHeard == \A s \in Slot : 2 \in zoneState[Last] =>
  /\ Ahead(s) => Pos(s) = AtEnd
  /\ Behind(s) => Pos(s) < 4 * Last

EndSeen == \A s \in Slot : Ahead(s) /\ 2 \in zoneState[Last] => Pos(s) = AtEnd

EndTold == \A s \in Slot :
  Ahead(s) /\ Pos(s) = AtEnd /\ Told(Last) => 2 \in zoneState[Last]

(* A delivered box at the end that the master no longer knows of.          *)
EndBlind == \A p \in delivered : box[p] = AtEnd /\ 2 \notin zoneState[Last] =>
  /\ hold = 0 => Last \div 2 \in asked
  /\ \A t \in Slot : Behind(t) =>
       Pos(t) <= 5 \/ (Pos(t) = 6 /\ hold = 2 /\ Last \div 2 \in asked)

Sensors == EntryHeard /\ ExitHeard /\ EntryTold /\ EndHeard /\ EndTold
           /\ EndBlind

(* A package is visited in time, between two moves of its box.             *)
Timely(s) ==
  /\ Behind(s) /\ Pos(s) = 4 * node[s].cur + 4 => Due(s)
  /\ Ahead(s) /\ Pos(s) = AtEnd => Due(s)
  /\ Nears(s) /\ Pos(s) > 4 * Before /\ ~Due(s) => node[s].last = Before
  /\ Nears(s) /\ Pos(s) > 4 * Before + 1 => node[s].last = Before

(* nextstat of a package before the last zone.                             *)
Heeding(s) ==
  /\ node[s].last = Before /\ 2 \in zoneState[Last] => node[s].nextstat
  /\ Pos(s) = 4 * Last => ~node[s].nextstat

InTime == \A s \in Slot : Timely(s)
Heeds  == \A s \in Slot : Nears(s) => Heeding(s)

(* Frames.  Number(z, j) is that of the j-th frame, or of the last one the *)
(* board took; Latest(z, j, i) says that among the frames below i, j is    *)
(* the latest to zone z, 0 standing for none.                              *)
Kind(c)      == <<c.cmd, c.type>>
State(z)     == <<belt[z].status, belt[z].type>>
Number(z, j) == IF j = 0 THEN lastFrame[z] ELSE canq[j].frame

Latest(z, j, i) ==
  /\ j # 0 => canq[j].zone = z
  /\ \A k \in 1 .. i - 1 : k > j => canq[k].zone # z

Numbers == \A z \in Zone, j \in 0 .. Len(canq) : Latest(z, j, Len(canq) + 1) =>
  Number(z, j) = cnt[z] \/ (j = 0 /\ lastFrame[z] = NoFrame)

(* Every frame from i on, and what is in force when i is 0, is in T, and   *)
(* the i-th one is taken.                                                  *)
From(z, T, i) ==
  /\ i = 0 => State(z) \in T
  /\ i # 0 => /\ canq[i].zone = z
              /\ \A j \in 0 .. i - 1 : Latest(z, j, i) =>
                                         Number(z, j) # canq[i].frame
  /\ \A k \in 1 .. Len(canq) : k >= i /\ canq[k].zone = z
                               => Kind(canq[k]) \in T

Ends(z, T) == \E i \in 0 .. Len(canq) : From(z, T, i)
Runs(z, T) == From(z, T, 0)

Tame == {<<"default", "continue">>, <<"stop", "continue">>,
         <<"stop", "trigstop">>, <<"run", "trigstop">>}
Go   == {<<"run", "continue">>}
UpTo == {<<"run", "trigstop">>}
Halt == {<<"stop", "continue">>, <<"stop", "trigstop">>}

(* The belt before the last zone holds a box while the last zone is taken; *)
(* else both run, and carry the box to the end.                            *)
Holding(s) ==
  /\ Ends(Before, Tame)
  /\ Pos(s) = 4 * Before + 3 /\ hold < 2 =>
       motor[Before] = FALSE /\ Runs(Before, Tame)

Passing == Ends(Before, Go) /\ Ends(Last, UpTo)

Carrying(s) ==
  /\ Ends(Last, UpTo)
  /\ hold = 0 => motor[Last] = TRUE /\ Runs(Last, UpTo)
  /\ Pos(s) = 4 * Last =>
       /\ Ends(Before, Go)
       /\ hold = 0 => motor[Before] = TRUE /\ Runs(Before, Go)

Obeys == \A s \in Slot :
  /\ Nears(s) /\ node[s].last = Before =>
       IF node[s].nextstat THEN Holding(s) ELSE Passing
  /\ Ahead(s) /\ Pos(s) < AtEnd => Carrying(s)

BeltsAhead == \A z \in Zone :
  belt[z].status # "default" => belt[z].dir = "BACK_TOAHEAD"

OInv == Line /\ Sensors /\ InTime /\ Heeds /\ Numbers /\ BeltsAhead /\ Obeys
-----------------------------------------------------------------------------
LEMMA Geometry ==
  /\ Last \in Int /\ Last >= 1 /\ AtEnd = 4 * Last + 3
  /\ Fallen = 4 * Last + 4 /\ Taken = 4 * Last + 5 /\ Away = -1
BY ConveyorAssumption DEF Last, AtEnd, Fallen, Taken, Away

LEMMA Sizes ==
  ASSUME OneAtATime
  PROVE  /\ Last \in Int /\ Before \in Int /\ Before = Last - 1 /\ Before >= 2
         /\ AtEnd = 4 * Last + 3 /\ Fallen = 4 * Last + 4
         /\ Taken = 4 * Last + 5 /\ Away = -1
         /\ MaxLoss = 0 /\ Spacing \in Nat /\ Spacing >= Last
BY ConveyorAssumption
   DEF OneAtATime, Last, Before, AtEnd, Fallen, Taken, Away

LEMMA ZoneIs ==
  \A z : z \in Zone <=> z \in Int /\ 0 <= z /\ z <= Last
BY Numbered DEF Zone, Last

(* What is in a slot.                                                      *)
LEMMA Typed ==
  ASSUME IInv, NEW s \in Slot
  PROVE  /\ node[s] \in Node
         /\ node[s].cur \in Zone /\ node[s].cur \in Int
         /\ 0 <= node[s].cur /\ node[s].cur <= Last
         /\ node[s].last \in Int /\ node[s].nextstat \in BOOLEAN
         /\ node[s].changed \in BOOLEAN
         /\ Carries(s) => node[s].pkg \in Pkg /\ Pos(s) \in Int
<1>1. node[s] \in Node
  BY DEF IInv, MasterTyped
<1>2. /\ node[s].cur \in Zone /\ node[s].last \in Zone \cup {NoFrame}
      /\ node[s].nextstat \in BOOLEAN /\ node[s].changed \in BOOLEAN
      /\ node[s].pkg \in Pkg \cup {NoPkg}
  BY <1>1 DEF Node
<1>3. Carries(s) => node[s].pkg \in Pkg
  BY <1>2 DEF Carries
<1>4. \A p \in Pkg : box[p] \in Int
  BY Numbered DEF IInv, LineTyped, Away, Taken
<1> QED
  BY <1>1, <1>2, <1>3, <1>4, Numbered DEF Zone, NoFrame, Last, Pos

LEMMA BoxTyped ==
  ASSUME IInv, NEW p \in Pkg
  PROVE  box[p] \in Int /\ box[p] >= Away /\ box[p] <= Taken /\ box[p] # Fallen
BY Numbered DEF IInv, LineTyped, EndStopped, Away, Taken

LEMMA TimeTyped ==
  ASSUME IInv
  PROVE  /\ hold \in {0, 1, 2} /\ passes \in {0, 1, 2} /\ asked \subseteq Board
         /\ at \in Int /\ 0 <= at /\ at < NSlot /\ at \in Slot
         /\ \A s \in Slot : s \in Int /\ 0 <= s /\ s < NSlot
BY Numbered DEF IInv, LineTyped, MasterTyped, Slot

(* A package carried is in its zone or in the last.                        *)
LEMMA AheadOrBehind ==
  ASSUME IInv, NEW s \in Slot
  PROVE  /\ Carries(s) => Ahead(s) \/ Behind(s)
         /\ ~(Ahead(s) /\ Behind(s))
         /\ Ahead(s) \/ Behind(s) => Carries(s)
BY Typed, LastIs DEF Ahead, Behind

(* Nobody nears the last zone while a package is carried in it.            *)
LEMMA NotBoth ==
  ASSUME OneAtATime, IInv, Line, NEW s \in Slot, NEW t \in Slot, Ahead(s)
  PROVE  /\ Behind(t) => Pos(t) <= 5 /\ node[t].cur <= 1
         /\ ~Nears(t)
<1>1. Behind(t) => Pos(t) <= 5 /\ Pos(t) \in 4 * node[t].cur .. 4 * node[t].cur + 4
  BY DEF Line, Lockstep, Places
<1>2. node[t].cur \in Int
  BY Typed
<1>3. Nears(t) => Behind(t)
  BY Sizes DEF Nears, Behind
<1> QED
  BY <1>1, <1>2, <1>3, Sizes DEF Nears

(* The cursor of a pass.                                                   *)
LEMMA CursorIs ==
  ASSUME IInv, PassOn
  PROVE  at' = IF at = NSlot - 1 THEN 0 ELSE at + 1
<1>1. at \in Int /\ 0 <= at /\ at < NSlot /\ NSlot \in Nat /\ NSlot > 0
  BY TimeTyped, Numbered
<1>2. at' = (at + 1) % NSlot
  BY DEF PassOn
<1>3. CASE at = NSlot - 1
  <2>1. NSlot % NSlot = 0
    BY <1>1
  <2> QED
    BY <1>1, <1>2, <1>3, <2>1
<1>4. CASE at # NSlot - 1
  <2>1. (at + 1) % NSlot = at + 1
    BY <1>1, <1>4
  <2> QED
    BY <1>2, <1>4, <2>1
<1> QED
  BY <1>3, <1>4

(* A visit to one slot leaves it to the others to know what they know.     *)
LEMMA DueKept ==
  ASSUME IInv, PassOn, CountPass, UNCHANGED <<asked, hold>>, NEW s \in Slot
  PROVE  Due(s) => Due(s)' \/ (s = at /\ hold = 1 /\ asked = {})
<1>1. at' = IF at = NSlot - 1 THEN 0 ELSE at + 1
  BY CursorIs
<1>2. passes' = IF at = NSlot - 1 /\ passes < 2 THEN passes + 1 ELSE passes
  BY DEF CountPass
<1>3. /\ hold \in {0, 1, 2} /\ passes \in {0, 1, 2} /\ at \in Int /\ NSlot \in Int
      /\ s \in Int /\ 0 <= s /\ s < NSlot
  BY TimeTyped, Numbered
<1> QED
  BY <1>1, <1>2, <1>3 DEF Due, Knows

(* A slot that a step changes, and the others.                             *)
LEMMA OtherSlots ==
  ASSUME IInv, NEW m, node' = [node EXCEPT ![at] = m], NEW s \in Slot
  PROVE  node'[s] = IF s = at THEN m ELSE node[s]
BY DEF IInv, MasterTyped
-----------------------------------------------------------------------------
(* What a step that leaves them alone keeps.                               *)
LEMMA SlotSame ==
  ASSUME NEW s \in Slot, node'[s] = node[s], UNCHANGED box
  PROVE  /\ Carries(s)' = Carries(s) /\ Pos(s)' = Pos(s)
         /\ Ahead(s)' = Ahead(s) /\ Behind(s)' = Behind(s)
         /\ Nears(s)' = Nears(s)
BY DEF Carries, Pos, Ahead, Behind, Nears

LEMMA LineSame ==
  ASSUME Line, UNCHANGED <<node, box, delivered>>
  PROVE  Line'
BY DEF Line, Owners, Alone, Idle, Places, OneAtEnd, Lockstep, Carries, Pos,
   Ahead, Behind, Carried

LEMMA SensorsSame ==
  ASSUME Sensors, UNCHANGED <<node, box, delivered, zoneState, hold, asked>>
  PROVE  Sensors'
BY DEF Sensors, EntryHeard, ExitHeard, EntryTold, EndHeard, EndTold, EndBlind,
   Carries, Pos, Ahead, Behind, Told

LEMMA HeedsSame ==
  ASSUME Heeds, UNCHANGED <<node, box, zoneState>>
  PROVE  Heeds'
BY DEF Heeds, Heeding, Nears, Carries, Pos

LEMMA InTimeSame ==
  ASSUME InTime, UNCHANGED <<node, box, hold, asked, passes, at>>
  PROVE  InTime'
BY DEF InTime, Timely, Nears, Ahead, Behind, Carries, Pos, Due, Knows

LEMMA ObeysSame ==
  ASSUME Numbers, BeltsAhead, Obeys,
         UNCHANGED <<node, box, hold, canq, beltVars, cnt>>
  PROVE  Numbers' /\ BeltsAhead' /\ Obeys'
<1>1. /\ belt' = belt /\ motor' = motor /\ lastFrame' = lastFrame
      /\ canq' = canq /\ cnt' = cnt /\ hold' = hold
      /\ node' = node /\ box' = box
  BY DEF beltVars
<1>2. Numbers' /\ BeltsAhead'
  BY <1>1 DEF Numbers, BeltsAhead, Latest, Number
<1>3. \A z, T : Ends(z, T)' = Ends(z, T) /\ Runs(z, T)' = Runs(z, T)
  <2>1. \A z, T, i : From(z, T, i)' = From(z, T, i)
    BY <1>1 DEF From, Latest, Number, State, Kind
  <2> QED
    BY <1>1, <2>1 DEF Ends, Runs
<1>4. \A s \in Slot : /\ Nears(s)' = Nears(s) /\ Ahead(s)' = Ahead(s)
                     /\ Pos(s)' = Pos(s) /\ node'[s] = node[s]
  BY <1>1, SlotSame
<1>5. \A s \in Slot : Holding(s)' = Holding(s) /\ Carrying(s)' = Carrying(s)
  BY <1>1, <1>3, <1>4 DEF Holding, Carrying
<1>6. Passing' = Passing
  BY <1>3 DEF Passing
<1> QED
  BY <1>2, <1>4, <1>5, <1>6 DEF Obeys

(* A visit leaves the other slots in time.                                 *)
LEMMA TimelyKept ==
  ASSUME IInv, InTime, PassOn, CountPass, UNCHANGED <<asked, hold, box>>,
         NEW s \in Slot, s # at, node'[s] = node[s]
  PROVE  Timely(s)'
<1>1. Due(s) => Due(s)'
  BY DueKept
<1>2. Timely(s)
  BY DEF InTime
<1>3. /\ Carries(s)' = Carries(s) /\ Pos(s)' = Pos(s)
      /\ Ahead(s)' = Ahead(s) /\ Behind(s)' = Behind(s)
      /\ Nears(s)' = Nears(s)
  BY SlotSame
<1> QED
  BY <1>1, <1>2, <1>3 DEF Timely

(* A visit to a package leaves the packages where they are.                *)
LEMMA SamePackages ==
  ASSUME IInv, NEW m, m.pkg = node[at].pkg, node' = [node EXCEPT ![at] = m],
         UNCHANGED box
  PROVE  /\ \A s \in Slot : /\ node'[s].pkg = node[s].pkg
                            /\ Carries(s)' = Carries(s) /\ Pos(s)' = Pos(s)
         /\ \A p \in Pkg : Carried(p)' = Carried(p)
<1>1. ASSUME NEW s \in Slot PROVE node'[s].pkg = node[s].pkg
  BY OtherSlots
<1>2. ASSUME NEW s \in Slot
      PROVE  Carries(s)' = Carries(s) /\ Pos(s)' = Pos(s)
  BY <1>1 DEF Carries, Pos
<1>3. ASSUME NEW p \in Pkg PROVE Carried(p)' = Carried(p)
  BY <1>1 DEF Carried
<1> QED
  BY <1>1, <1>2, <1>3

(* The sensors of a zone, all of which run ahead.                          *)
LEMMA SeenIs ==
  ASSUME IInv, NEW z \in Zone
  PROVE  /\ ExitSeen(z) <=> 2 \in zoneState[z]
         /\ AnySeen(z) <=> 1 \in zoneState[z] \/ 2 \in zoneState[z]
<1>1. zoneState[z] \subseteq {1, 2}
  BY DEF IInv, MasterTyped
<1>2. ExitBits(Dir[z]) = {2, 4}
  <2>1. Dir[z] = "BACK_TOAHEAD"
    BY AheadEverywhere
  <2>2. ExitBits("BACK_TOAHEAD") = {2, 4}
    BY DEF ExitBits, ToBack, ToAhead, ToLeft, ToRight
  <2> QED
    BY <2>1, <2>2
<1>3. zoneState[z] \cap {2, 4} # {} <=> 2 \in zoneState[z]
  BY <1>1
<1>4. zoneState[z] \cap (1 .. 4) # {} <=> 1 \in zoneState[z] \/ 2 \in zoneState[z]
  BY <1>1
<1> QED
  BY <1>2, <1>3, <1>4 DEF ExitSeen, AnySeen

(* What a visit finds out about the next zone.                             *)
LEMMA ObservedSees ==
  ASSUME IInv, NEW s \in Slot
  PROVE  LET n == Observed(node[s])
         IN  /\ n \in Node /\ n.cur = node[s].cur /\ n.pkg = node[s].pkg
             /\ n.last = node[s].last
             /\ IsLast(n) <=> n.cur = Last
             /\ n.cur < Last => (n.nextstat <=> 2 \in zoneState[n.cur + 1])
             /\ n.nextstat = node[s].nextstat \/ n.changed = TRUE
             /\ Advances(n) <=> /\ n.cur < Last /\ ~n.nextstat
                                /\ 1 \in zoneState[n.cur + 1]
<1> DEFINE n == Observed(node[s])
           stat == ExitSeen(n.cur + 1)
<1>1. /\ node[s] \in Node /\ node[s].cur \in Int /\ 0 <= node[s].cur
      /\ node[s].cur <= Last /\ node[s].nextstat \in BOOLEAN
  BY Typed
<1>2. n \in Node /\ n.cur = node[s].cur /\ n.pkg = node[s].pkg
  BY <1>1, ObservedIs
<1>3. n.last = node[s].last
  BY <1>1 DEF Observed, Node
<1>4. IsLast(n) <=> n.cur = Last
  BY DEF IsLast, Last
<1>5. IsLast(node[s]) <=> node[s].cur = Last
  BY DEF IsLast, Last
<1>6. n.cur < Last => n.cur + 1 \in Zone
  BY <1>1, <1>2, Numbered DEF Zone, Last
<1>7. n.cur < Last => (stat <=> 2 \in zoneState[n.cur + 1])
  BY <1>6, SeenIs
<1>8. n.cur < Last => n.nextstat = stat
  BY <1>1, <1>2, <1>5 DEF Observed, Node
<1>9. n.nextstat = node[s].nextstat \/ n.changed = TRUE
  BY <1>1 DEF Observed, Node
<1>10. n.cur <= Last /\ n.cur \in Int /\ Last \in Int
  BY <1>1, <1>2, LastIs
<1>11. n.cur < Last => (AnySeen(n.cur + 1) <=>
          1 \in zoneState[n.cur + 1] \/ 2 \in zoneState[n.cur + 1])
  BY <1>6, SeenIs
<1>12. Advances(n) <=> /\ n.cur < Last /\ ~n.nextstat
                       /\ 1 \in zoneState[n.cur + 1]
  <2> HIDE DEF n
  <2> QED
    BY <1>4, <1>7, <1>8, <1>10, <1>11 DEF Advances
<1> HIDE DEF n
<1> QED
  BY <1>2, <1>3, <1>4, <1>7, <1>8, <1>9, <1>12 DEF n

LEMMA DestinationIs ==
  ASSUME IInv, NEW s \in Slot
  PROVE  AtDestination(node[s]) <=>
           node[s].cur = Last /\ 2 \in zoneState[Last]
BY AheadEverywhere, LastIs, Typed DEF AtDestination, IsLast, Last
-----------------------------------------------------------------------------
(* Visits that find nothing, or a package that stays in its zone.          *)
LEMMA VisitFreeKeeps ==
  ASSUME IInv, OInv, VisitFree
  PROVE  OInv'
<1>1. ASSUME NEW s \in Slot PROVE Timely(s)'
  <2>1. CASE s = at
    <3>1. ~Carries(s)'
      BY <2>1 DEF VisitFree, Carries
    <3> QED
      BY <3>1 DEF Timely, Ahead, Behind, Nears
  <2>2. CASE s # at
    BY <2>2, TimelyKept DEF VisitFree, OInv
  <2> QED
    BY <2>1, <2>2
<1>2. Line' /\ Sensors' /\ Heeds'
  BY LineSame, SensorsSame, HeedsSame DEF VisitFree, OInv
<1>3. Numbers' /\ BeltsAhead' /\ Obeys'
  BY ObeysSame DEF VisitFree, OInv
<1> QED
  BY <1>1, <1>2, <1>3 DEF OInv, InTime

(* A step that leaves packages, boxes and reports where they are.          *)
LEMMA ZonesSame ==
  ASSUME Line, Sensors, UNCHANGED <<box, delivered, zoneState, hold, asked>>,
         \A s \in Slot : /\ node'[s].pkg = node[s].pkg
                         /\ node'[s].cur = node[s].cur
                         /\ node'[s].last <= node'[s].cur
  PROVE  /\ Line' /\ Sensors'
         /\ \A s \in Slot :
              /\ Carries(s)' = Carries(s) /\ Pos(s)' = Pos(s)
              /\ Ahead(s)' = Ahead(s) /\ Behind(s)' = Behind(s)
              /\ Nears(s)' = Nears(s)
<1>1. ASSUME NEW s \in Slot
      PROVE  /\ Carries(s)' = Carries(s) /\ Pos(s)' = Pos(s)
             /\ Ahead(s)' = Ahead(s) /\ Behind(s)' = Behind(s)
             /\ Nears(s)' = Nears(s)
  BY DEF Carries, Pos, Ahead, Behind, Nears
<1>2. Owners' /\ Alone'
  BY <1>1 DEF Line, Owners, Alone
<1>3. Idle'
  <2>1. ASSUME NEW p \in Pkg PROVE Carried(p)' = Carried(p)
    BY DEF Carried
  <2> QED
    BY <2>1 DEF Line, Idle
<1>4. Places'
  BY <1>1 DEF Line, Places
<1>5. OneAtEnd'
  BY DEF Line, OneAtEnd
<1>6. Lockstep'
  BY <1>1 DEF Line, Lockstep
<1>7. \A z \in Zone : Told(z)' = Told(z)
  BY DEF Told
<1>8. EntryHeard' /\ ExitHeard' /\ EntryTold'
  BY <1>1, <1>7 DEF Sensors, EntryHeard, ExitHeard, EntryTold
<1>9. EndHeard' /\ EndTold' /\ EndBlind'
  BY <1>1, <1>7, LastIs DEF Sensors, EndHeard, EndTold, EndBlind
<1> QED
  BY <1>1, <1>2, <1>3, <1>4, <1>5, <1>6, <1>8, <1>9 DEF Line, Sensors

LEMMA KeepsIs ==
  ASSUME IInv, VisitKeeps
  PROVE  /\ at \in Slot /\ Carries(at)
         /\ node' = [node EXCEPT ![at] = node'[at]]
         /\ node'[at].pkg = node[at].pkg /\ node'[at].cur = node[at].cur
         /\ node'[at].last = node[at].cur
         /\ node'[at].nextstat = Observed(node[at]).nextstat
         /\ node[at].cur < Last =>
              /\ node'[at].nextstat <=> 2 \in zoneState[node[at].cur + 1]
              /\ 1 \in zoneState[node[at].cur + 1] => node'[at].nextstat
         /\ node[at].cur = Last => 2 \notin zoneState[Last]
         /\ \A s \in Slot \ {at} : node'[s] = node[s]
         /\ PassOn /\ CountPass
         /\ UNCHANGED <<zoneState, delivered, lost, belt, motor, lastFrame, box,
                        asked, hold>>
<1> DEFINE n == Observed(node[at])
           entered == n.cur # n.last
           count == IF entered THEN 0 ELSE Counted(n)
           resend == count >= SendCnt
           m == [n EXCEPT !.last = n.cur, !.changed = FALSE,
                          !.arrive = n.arrive \/ Arrives(n),
                          !.cnt = IF resend THEN 0 ELSE count]
<1>1. at \in Slot
  BY TimeTyped
<1>2. /\ n \in Node /\ n.cur = node[at].cur /\ n.pkg = node[at].pkg
      /\ n.cur < Last => (n.nextstat <=> 2 \in zoneState[n.cur + 1])
      /\ Advances(n) <=> /\ n.cur < Last /\ ~n.nextstat
                         /\ 1 \in zoneState[n.cur + 1]
  BY <1>1, ObservedSees
<1>3. n.pkg # NoPkg /\ ~AtDestination(n) /\ ~Advances(n)
  BY DEF VisitKeeps
<1>4. node' = [node EXCEPT ![at] = m]
  BY DEF VisitKeeps
<1>5. PassOn /\ CountPass /\ UNCHANGED <<zoneState, delivered, lost, belt, motor,
                                        lastFrame, box, asked, hold>>
  BY DEF VisitKeeps, beltVars
<1>6. n.cur = Last => 2 \notin zoneState[Last]
  BY <1>3, AheadEverywhere, LastIs DEF AtDestination, IsLast, Last
<1> HIDE DEF n
<1>7. /\ m.pkg = n.pkg /\ m.cur = n.cur /\ m.last = n.cur
      /\ m.nextstat = n.nextstat
  BY <1>2 DEF Node
<1> HIDE DEF m
<1>8. node'[at] = m /\ \A s \in Slot \ {at} : node'[s] = node[s]
  BY <1>1, <1>4 DEF IInv, MasterTyped
<1>9. Carries(at)
  BY <1>2, <1>3 DEF Carries
<1> QED
  BY <1>1, <1>2, <1>3, <1>4, <1>5, <1>6, <1>7, <1>8, <1>9 DEF n

LEMMA VisitKeepsHeard ==
  ASSUME OneAtATime, IInv, OInv, VisitKeeps
  PROVE  Line' /\ Sensors' /\ InTime' /\ Heeds'
<1>0. PICK a \in Slot : a = at
  BY TimeTyped
<1> DEFINE c == node[a].cur
<1>1. /\ a = at /\ Carries(a)
      /\ node'[a].pkg = node[a].pkg /\ node'[a].cur = c
      /\ node'[a].last = c
      /\ c < Last => /\ node'[a].nextstat <=> 2 \in zoneState[c + 1]
                     /\ 1 \in zoneState[c + 1] => node'[a].nextstat
      /\ c = Last => 2 \notin zoneState[Last]
      /\ \A s \in Slot \ {a} : node'[s] = node[s]
      /\ PassOn /\ CountPass
      /\ UNCHANGED <<zoneState, delivered, box, asked, hold>>
  BY <1>0, KeepsIs
<1>2. Line /\ Sensors /\ InTime /\ Heeds
  BY DEF OInv
<1>3. c \in Zone /\ c \in Int /\ 0 <= c /\ c <= Last
  BY <1>1, Typed
<1>4. /\ Line' /\ Sensors'
      /\ \A s \in Slot :
           /\ Carries(s)' = Carries(s) /\ Pos(s)' = Pos(s)
           /\ Ahead(s)' = Ahead(s) /\ Behind(s)' = Behind(s)
           /\ Nears(s)' = Nears(s)
  <2>1. ASSUME NEW s \in Slot
        PROVE  /\ node'[s].pkg = node[s].pkg /\ node'[s].cur = node[s].cur
               /\ node'[s].last <= node'[s].cur
    BY <1>1, <1>2, <1>3 DEF Line, Places
  <2> QED
    BY <1>1, <1>2, <2>1, ZonesSame
<1>5. \A z \in Zone : hold = 1 /\ asked = {} => Told(z)
  BY DEF Told
<1>6. ASSUME Behind(a), Pos(a) = 4 * c + 4, hold = 1, asked = {}
      PROVE  FALSE
  <2>1. c < Last /\ c + 1 \in Zone /\ Told(c + 1)
    BY <1>3, <1>5, <1>6, ZoneIs, LastIs DEF Behind
  <2>2. 1 \in zoneState[c + 1]
    BY <1>1, <1>2, <1>6, <2>1, <1>3 DEF Sensors, EntryTold
  <2>3. 2 \in zoneState[c + 1]
    BY <1>1, <2>1, <2>2
  <2>4. CASE c = Before
    <3>1. Pos(a) < 4 * Last
      BY <1>1, <1>2, <1>6, <2>3, <2>4, Sizes DEF Sensors, EndHeard
    <3> QED
      BY <1>6, <2>4, <3>1, Sizes
  <2>5. CASE c # Before
    <3>1. c + 1 \in Zone \ {Last}
      BY <1>3, <2>1, <2>5, Sizes, ZoneIs
    <3>2. PICK s \in Slot : /\ Carries(s)
                            /\ Pos(s) \in 4 * (c + 1) + 3 .. 4 * (c + 1) + 5
                            /\ Pos(s) <= 4 * (c + 1) + 4
      BY <1>2, <2>1, <2>3, <3>1 DEF Sensors, ExitHeard
    <3>3. s # a
      BY <1>3, <1>6, <3>2
    <3>4. Ahead(s)
      BY <1>1, <1>2, <1>6, <3>2, <3>3, AheadOrBehind DEF Line, Alone
    <3>5. Pos(a) <= 5 /\ Pos(s) \in 4 * Last .. AtEnd
      BY <1>1, <1>2, <1>6, <3>4, NotBoth DEF Line, Places
    <3> QED
      BY <1>3, <1>6, <3>1, <3>2, <3>5, Sizes
  <2> QED
    BY <2>4, <2>5
<1>7. ASSUME Ahead(a), Pos(a) = AtEnd, hold = 1, asked = {}
      PROVE  FALSE
  <2>1. 2 \in zoneState[Last]
    BY <1>1, <1>2, <1>5, <1>7, LastIs DEF Sensors, EndTold
  <2> QED
    BY <1>1, <1>7, <2>1 DEF Ahead
<1>8. Timely(a)'
  <2>1. Timely(a) /\ (Due(a) => Due(a)' \/ (hold = 1 /\ asked = {}))
    BY <1>1, <1>2, DueKept DEF InTime
  <2>2. Nears(a) => c = Before
    BY DEF Nears
  <2> QED
    BY <1>1, <1>4, <1>6, <1>7, <2>1, <2>2 DEF Timely
<1>9. ASSUME NEW s \in Slot, s # a PROVE Timely(s)'
  BY <1>1, <1>2, <1>9, TimelyKept
<1>10. ASSUME Nears(a) PROVE Heeding(a)'
  <2>1. c = Before /\ Behind(a) /\ c + 1 = Last
    BY <1>10, Sizes DEF Nears, Behind
  <2>2. node'[a].nextstat <=> 2 \in zoneState[Last]
    BY <1>1, <2>1, Sizes
  <2>3. 2 \in zoneState[Last] => Pos(a) < 4 * Last
    BY <1>1, <1>2, <2>1 DEF Sensors, EndHeard
  <2> QED
    BY <1>1, <1>4, <2>2, <2>3, Sizes DEF Heeding
<1>11. ASSUME NEW s \in Slot, s # a, Nears(s) PROVE Heeding(s)'
  <2>1. Heeding(s)
    BY <1>2, <1>11 DEF Heeds
  <2> QED
    BY <1>1, <1>4, <1>11, <2>1 DEF Heeding
<1> QED
  BY <1>4, <1>8, <1>9, <1>10, <1>11 DEF InTime, Heeds
-----------------------------------------------------------------------------
(* A package that is taken to have reached the next zone.                  *)
LEMMA AdvancesWhen ==
  ASSUME IInv, VisitAdvances, NEW a \in Slot, a = at
  PROVE  LET c == node[a].cur
         IN  /\ Carries(a) /\ c \in Int /\ 0 <= c /\ c < Last
             /\ Behind(a) /\ c + 1 \in Zone
             /\ 1 \in zoneState[c + 1] /\ 2 \notin zoneState[c + 1]
             /\ node' = [node EXCEPT ![at] = node'[at]]
             /\ node'[a].pkg = node[a].pkg /\ node'[a].cur = c + 1
             /\ node'[a].last = node[a].last
             /\ \A s \in Slot \ {a} : node'[s] = node[s]
             /\ PassOn /\ CountPass
             /\ UNCHANGED <<zoneState, delivered, lost, belt, motor, lastFrame,
                            box, asked, hold>>
<1> DEFINE n == Observed(node[a])
           m == [n EXCEPT !.cur = n.cur + 1, !.arrive = FALSE,
                          !.changenum = 0, !.cnt = Counted(n)]
           c == node[a].cur
<1>1. /\ n \in Node /\ n.cur = c /\ n.pkg = node[a].pkg
      /\ n.last = node[a].last
      /\ n.cur < Last => (n.nextstat <=> 2 \in zoneState[n.cur + 1])
      /\ Advances(n) <=> /\ n.cur < Last /\ ~n.nextstat
                         /\ 1 \in zoneState[n.cur + 1]
  BY ObservedSees
<1>2. n.pkg # NoPkg /\ Advances(n) /\ node' = [node EXCEPT ![a] = m]
  BY DEF VisitAdvances
<1>3. PassOn /\ CountPass /\ UNCHANGED <<zoneState, delivered, lost, belt, motor,
                                        lastFrame, box, asked, hold>>
  BY DEF VisitAdvances, beltVars
<1>4. c \in Int /\ 0 <= c /\ c <= Last
  BY Typed
<1> HIDE DEF n
<1>5. m.pkg = n.pkg /\ m.cur = n.cur + 1 /\ m.last = n.last
  BY <1>1 DEF Node
<1> HIDE DEF m
<1>6. node'[a] = m /\ \A s \in Slot \ {a} : node'[s] = node[s]
  BY <1>2 DEF IInv, MasterTyped
<1>7. /\ Carries(a) /\ c < Last /\ Behind(a)
      /\ 1 \in zoneState[c + 1] /\ 2 \notin zoneState[c + 1]
  BY <1>1, <1>2 DEF Carries, Behind
<1>8. c + 1 \in Zone
  BY <1>4, <1>7, ZoneIs, LastIs
<1> QED
  BY <1>1, <1>2, <1>3, <1>4, <1>5, <1>6, <1>7, <1>8

(* The sensor that says so is covered by its own box.                      *)
LEMMA AdvancesIs ==
  ASSUME OneAtATime, IInv, OInv, VisitAdvances, NEW a \in Slot, a = at
  PROVE  LET c == node[a].cur
         IN  /\ Carries(a) /\ c \in Int /\ 0 <= c /\ c < Last
             /\ Behind(a) /\ Pos(a) = 4 * c + 4
             /\ node' = [node EXCEPT ![at] = node'[at]]
             /\ node'[a].pkg = node[a].pkg /\ node'[a].cur = c + 1
             /\ node'[a].last = node[a].last
             /\ 2 \notin zoneState[c + 1]
             /\ \A s \in Slot \ {a} : node'[s] = node[s]
             /\ PassOn /\ CountPass
             /\ UNCHANGED <<zoneState, delivered, lost, belt, motor, lastFrame,
                            box, asked, hold>>
<1> DEFINE c == node[a].cur
<1>1. /\ Carries(a) /\ c \in Int /\ 0 <= c /\ c < Last /\ Behind(a)
      /\ c + 1 \in Zone /\ 1 \in zoneState[c + 1]
  BY AdvancesWhen
<1>2. PICK s \in Slot : /\ Carries(s)
                        /\ Pos(s) \in 4 * (c + 1) .. 4 * (c + 1) + 2
  BY <1>1 DEF OInv, Sensors, EntryHeard
<1>3. s = a
  <2>1. CASE Behind(s)
    BY <1>1, <2>1 DEF OInv, Line, Alone
  <2>2. CASE Ahead(s)
    <3>1. Pos(s) >= 4 * Last
      BY <2>2, Sizes DEF OInv, Line, Places
    <3>2. c = Before
      BY <1>1, <1>2, <3>1, Sizes
    <3> QED
      BY <1>1, <2>2, <3>2, NotBoth DEF OInv, Nears
  <2> QED
    BY <1>2, <2>1, <2>2, AheadOrBehind
<1>4. Pos(a) = 4 * c + 4
  <2>1. Pos(a) \in 4 * c .. 4 * c + 4
    BY <1>1 DEF OInv, Line, Places
  <2> QED
    BY <1>1, <1>2, <1>3, <2>1
<1> QED
  BY <1>4, AdvancesWhen

LEMMA VisitAdvancesHeard ==
  ASSUME OneAtATime, IInv, OInv, VisitAdvances
  PROVE  Line' /\ Sensors' /\ InTime' /\ Heeds'
<1>0. PICK a \in Slot : a = at
  BY TimeTyped
<1> DEFINE c == node[a].cur
<1>1. /\ Carries(a) /\ c \in Int /\ 0 <= c /\ c < Last
      /\ Behind(a) /\ Pos(a) = 4 * c + 4
      /\ node' = [node EXCEPT ![at] = node'[at]]
      /\ node'[a].pkg = node[a].pkg /\ node'[a].cur = c + 1
      /\ node'[a].last = node[a].last
      /\ 2 \notin zoneState[c + 1]
      /\ \A s \in Slot \ {a} : node'[s] = node[s]
      /\ PassOn /\ CountPass
      /\ UNCHANGED <<zoneState, delivered, box, asked, hold>>
  BY <1>0, AdvancesIs
<1>2. Line /\ Sensors /\ InTime /\ Heeds
  BY DEF OInv
<1>3. /\ \A s \in Slot : Carries(s)' = Carries(s) /\ Pos(s)' = Pos(s)
      /\ \A p \in Pkg : Carried(p)' = Carried(p)
  BY <1>0, <1>1, SamePackages
<1>4. ASSUME NEW s \in Slot, s # a
      PROVE  /\ Ahead(s)' = Ahead(s) /\ Behind(s)' = Behind(s)
             /\ Nears(s)' = Nears(s) /\ node'[s] = node[s]
  BY <1>1, <1>4, SlotSame
<1>5. /\ Ahead(a)' <=> c = Before
      /\ Behind(a)' <=> c + 1 < Last
      /\ Nears(a)' <=> c + 1 = Before
  BY <1>1, <1>3, Sizes DEF Ahead, Behind, Nears
<1>6. ASSUME NEW s \in Slot PROVE Behind(s)' => Behind(s)
  BY <1>1, <1>4
<1>7. ASSUME c = Before, NEW s \in Slot PROVE ~Ahead(s)
  BY <1>1, <1>2, <1>7, NotBoth DEF Nears
<1>8. Owners' /\ Idle' /\ OneAtEnd'
  <2>1. \A s \in Slot : node'[s].pkg = node[s].pkg
    BY <1>1
  <2> QED
    BY <1>1, <1>2, <1>3, <2>1 DEF Line, Owners, Idle, OneAtEnd
<1>9. Alone'
  BY <1>2, <1>4, <1>5, <1>6, <1>7 DEF Line, Alone
<1>10. Places'
  <2>1. ASSUME NEW s \in Slot
        PROVE  /\ node'[s].last <= node'[s].cur
               /\ Ahead(s)' => Pos(s)' \in 4 * Last .. AtEnd
               /\ Behind(s)' =>
                    Pos(s)' \in 4 * node'[s].cur .. 4 * node'[s].cur + 4
    <3>1. node[s].last <= node[s].cur /\ node[s].last \in Int
      BY <1>2, Typed DEF Line, Places
    <3>2. CASE s = a
      <4>1. node'[s].last <= node'[s].cur
        BY <1>1, <3>1, <3>2
      <4>2. Pos(s)' = 4 * c + 4
        BY <1>1, <1>3, <3>2
      <4> QED
        BY <1>1, <1>5, <3>2, <4>1, <4>2, Sizes
    <3>3. CASE s # a
      <4>1. /\ Ahead(s)' = Ahead(s) /\ Behind(s)' = Behind(s)
            /\ node'[s] = node[s] /\ Pos(s)' = Pos(s)
        BY <1>3, <1>4, <3>3
      <4> QED
        BY <1>2, <4>1 DEF Line, Places
    <3> QED
      BY <3>2, <3>3
  <2> QED
    BY <2>1 DEF Places
<1>11. Lockstep'
  <2>1. ASSUME NEW s \in Slot, NEW t \in Slot, Ahead(s)', Behind(t)'
        PROVE  Ahead(s) /\ Behind(t)
    <3>1. Behind(t)
      BY <1>6, <2>1
    <3>2. ASSUME s = a PROVE FALSE
      <4>1. c = Before /\ ~Behind(a)'
        BY <1>5, <2>1, <3>2, Sizes
      <4>2. t = a
        BY <1>1, <1>2, <3>1 DEF Line, Alone
      <4> QED
        BY <2>1, <4>1, <4>2
    <3> QED
      BY <1>4, <2>1, <3>1, <3>2
  <2> QED
    BY <1>2, <1>3, <2>1, <1>1 DEF Line, Lockstep
<1>12. \A z \in Zone : Told(z)' = Told(z)
  BY <1>1 DEF Told
<1>13. EntryHeard' /\ ExitHeard' /\ EntryTold'
  BY <1>1, <1>2, <1>3, <1>12 DEF Sensors, EntryHeard, ExitHeard, EntryTold
<1>14. EndHeard'
  <2>1. ASSUME NEW s \in Slot, 2 \in zoneState[Last]
        PROVE  /\ Ahead(s)' => Ahead(s)
               /\ Pos(s)' = Pos(s)
    BY <1>1, <1>3, <1>4, <1>5, <2>1, Sizes
  <2> QED
    BY <1>1, <1>2, <1>6, <2>1 DEF Sensors, EndHeard
<1>15. EndTold'
  <2>1. ASSUME NEW s \in Slot, Pos(s) = AtEnd
        PROVE  Ahead(s)' => Ahead(s)
    BY <1>1, <1>4, <1>5, <2>1, Sizes
  <2> QED
    BY <1>1, <1>2, <1>3, <1>12, <2>1, LastIs DEF Sensors, EndTold
<1>16. EndBlind'
  BY <1>1, <1>2, <1>3, <1>6 DEF Sensors, EndBlind
<1>17. Timely(a)'
  BY <1>1, <1>3, <1>5, Sizes DEF Timely
<1>18. ASSUME NEW s \in Slot, s # a PROVE Timely(s)'
  BY <1>0, <1>1, <1>2, <1>18, TimelyKept
<1>19. ASSUME Nears(a)' PROVE Heeding(a)'
  <2>1. node[a].last <= c /\ node[a].last \in Int
    BY <1>2, Typed DEF Line, Places
  <2> QED
    BY <1>1, <1>3, <1>5, <1>19, <2>1, Sizes DEF Heeding
<1>20. ASSUME NEW s \in Slot, s # a, Nears(s)' PROVE Heeding(s)'
  <2>1. Heeding(s)
    BY <1>2, <1>4, <1>20 DEF Heeds
  <2> QED
    BY <1>1, <1>3, <1>4, <1>20, <2>1 DEF Heeding
<1>21. Line' /\ Sensors'
  BY <1>8, <1>9, <1>10, <1>11, <1>13, <1>14, <1>15, <1>16 DEF Line, Sensors
<1>22. InTime' /\ Heeds'
  BY <1>17, <1>18, <1>19, <1>20 DEF InTime, Heeds
<1> QED
  BY <1>21, <1>22
-----------------------------------------------------------------------------
(* A package that is delivered: its box is the one at the end.             *)
LEMMA DeliversIs ==
  ASSUME IInv, EndSeen, VisitDelivers, NEW a \in Slot, a = at
  PROVE  /\ Ahead(a) /\ Pos(a) = AtEnd /\ node[a].pkg \in Pkg
         /\ delivered' = delivered \cup {node[a].pkg}
         /\ zoneState' = [zoneState EXCEPT ![Last] = {}]
         /\ ~Carries(a)' /\ node'[a].last <= node'[a].cur
         /\ \A s \in Slot \ {a} : node'[s] = node[s]
         /\ PassOn /\ CountPass
         /\ UNCHANGED <<lost, belt, motor, lastFrame, box, asked, hold>>
<1>1. /\ node[a].pkg # NoPkg /\ AtDestination(node[a])
      /\ delivered' = delivered \cup {node[a].pkg}
      /\ zoneState' = [zoneState EXCEPT ![node[a].cur] = {}]
      /\ node' = [node EXCEPT ![a] = FreeNode]
      /\ PassOn /\ CountPass
      /\ UNCHANGED <<lost, belt, motor, lastFrame, box, asked, hold>>
  BY DEF VisitDelivers, beltVars
<1>2. node[a].cur = Last /\ 2 \in zoneState[Last]
  BY <1>1, DestinationIs
<1>3. Ahead(a) /\ Pos(a) = AtEnd
  BY <1>1, <1>2 DEF Ahead, Carries, EndSeen
<1>4. node'[a] = FreeNode /\ \A s \in Slot \ {a} : node'[s] = node[s]
  BY <1>1 DEF IInv, MasterTyped
<1>5. ~Carries(a)' /\ node'[a].last <= node'[a].cur
  BY <1>4 DEF Carries, FreeNode, NoFrame
<1>6. node[a].pkg \in Pkg
  BY <1>3, Typed DEF Ahead
<1> QED
  BY <1>1, <1>2, <1>3, <1>4, <1>5, <1>6

LEMMA VisitDeliversHeard ==
  ASSUME OneAtATime, IInv, OInv, VisitDelivers
  PROVE  /\ Line' /\ Sensors' /\ InTime' /\ Heeds'
         /\ \A s \in Slot : ~Nears(s)' /\ ~Ahead(s)'
<1>0. PICK a \in Slot : a = at
  BY TimeTyped
<1>1. /\ Ahead(a) /\ Pos(a) = AtEnd /\ node[a].pkg \in Pkg
      /\ delivered' = delivered \cup {node[a].pkg}
      /\ zoneState' = [zoneState EXCEPT ![Last] = {}]
      /\ ~Carries(a)' /\ node'[a].last <= node'[a].cur
      /\ \A s \in Slot \ {a} : node'[s] = node[s]
      /\ PassOn /\ CountPass
      /\ UNCHANGED <<box, asked, hold>>
  BY <1>0, DeliversIs DEF OInv, Sensors, EndHeard, EndSeen
<1>2. Line /\ Sensors /\ InTime /\ Heeds
  BY DEF OInv
<1>3. ASSUME NEW s \in Slot, Carries(s)'
      PROVE  /\ s # a /\ node'[s] = node[s] /\ Pos(s)' = Pos(s) /\ Carries(s)
             /\ ~Ahead(s) /\ Behind(s) /\ Pos(s) <= 5
             /\ ~Ahead(s)' /\ Behind(s)' /\ ~Nears(s)'
  <2>1. s # a /\ node'[s] = node[s]
    BY <1>1, <1>3
  <2>2. /\ Carries(s)' = Carries(s) /\ Pos(s)' = Pos(s)
        /\ Ahead(s)' = Ahead(s) /\ Behind(s)' = Behind(s)
        /\ Nears(s)' = Nears(s)
    BY <1>1, <2>1, SlotSame
  <2>3. ~Ahead(s)
    BY <1>1, <1>2, <2>1 DEF Line, Alone
  <2>4. Behind(s) /\ Carries(s)
    BY <1>3, <2>2, <2>3, AheadOrBehind
  <2>5. Pos(s) <= 5 /\ ~Nears(s)
    BY <1>1, <1>2, <2>4, NotBoth
  <2> QED
    BY <2>1, <2>2, <2>3, <2>4, <2>5
<1>4. \A s \in Slot : (Ahead(s)' => Carries(s)') /\ (Behind(s)' => Carries(s)')
                      /\ (Nears(s)' => Carries(s)')
  BY DEF Ahead, Behind, Nears
<1>5. Owners' /\ Alone' /\ Lockstep'
  <2>1. ASSUME NEW s \in Slot, NEW t \in Slot, Carries(s)',
               node'[s].pkg = node'[t].pkg
        PROVE  s = t
    <3>1. Carries(t)'
      BY <2>1 DEF Carries
    <3>2. Carries(s) /\ node[s].pkg = node[t].pkg
      BY <1>3, <2>1, <3>1
    <3> QED
      BY <1>2, <3>2 DEF Line, Owners
  <2>2. Owners'
    BY <2>1 DEF Owners
  <2>3. Alone' /\ Lockstep'
    BY <1>2, <1>3, <1>4 DEF Line, Alone, Lockstep
  <2> QED
    BY <2>2, <2>3
<1>6. Idle'
  <2>1. ASSUME NEW p \in Pkg
        PROVE  Carried(p)' <=> Carried(p) /\ p # node[a].pkg
    <3>1. ASSUME NEW s \in Slot, node'[s].pkg = p
          PROVE  node[s].pkg = p /\ p # node[a].pkg
      <4>1. Carries(s)'
        BY <3>1, Numbered DEF Carries
      <4>2. s # a /\ node[s].pkg = p /\ Carries(s)
        BY <1>3, <3>1, <4>1
      <4> QED
        BY <1>2, <4>2 DEF Line, Owners
    <3>2. ASSUME NEW s \in Slot, node[s].pkg = p, p # node[a].pkg
          PROVE  node'[s].pkg = p
      BY <1>1, <3>2
    <3> QED
      BY <3>1, <3>2 DEF Carried
  <2>2. Carried(node[a].pkg)
    BY <1>1 DEF Carried
  <2>3. box[node[a].pkg] = AtEnd
    BY <1>1 DEF Pos
  <2> QED
    BY <1>1, <1>2, <2>1, <2>2, <2>3 DEF Line, Idle
<1>7. Places'
  <2>1. ASSUME NEW s \in Slot
        PROVE  /\ node'[s].last <= node'[s].cur
               /\ ~Ahead(s)'
               /\ Behind(s)' =>
                    Pos(s)' \in 4 * node'[s].cur .. 4 * node'[s].cur + 4
    <3>1. node'[s].last <= node'[s].cur
      BY <1>1, <1>2 DEF Line, Places
    <3>2. ASSUME Behind(s)'
          PROVE  Pos(s)' \in 4 * node'[s].cur .. 4 * node'[s].cur + 4
      BY <1>2, <1>3, <1>4, <3>2 DEF Line, Places
    <3> QED
      BY <1>3, <1>4, <3>1, <3>2
  <2> QED
    BY <2>1 DEF Places
<1>8. OneAtEnd'
  BY <1>1, <1>2 DEF Line, OneAtEnd
<1>9. \A z \in Zone : Told(z)' = Told(z)
  BY <1>1 DEF Told
<1>10. zoneState'[Last] = {} /\ \A z \in Zone \ {Last} : zoneState'[z] = zoneState[z]
  BY <1>1, LastIs DEF IInv, MasterTyped
<1>11. ASSUME NEW s \in Slot, Carries(s), NEW z \in Zone \ {Last},
              Pos(s) <= 4 * z + 5
       PROVE  Carries(s)' /\ Pos(s)' = Pos(s)
  <2>1. s # a
    BY <1>1, <1>11, ZoneIs, Sizes
  <2>2. node'[s] = node[s]
    BY <1>1, <2>1
  <2> QED
    BY <1>1, <1>11, <2>2, SlotSame
<1>12. EntryHeard'
  <2> SUFFICES ASSUME NEW z \in Zone, 1 \in zoneState'[z]
               PROVE  \E s \in Slot :
                        /\ Carries(s)' /\ Pos(s)' \in 4 * z .. 4 * z + 2
                        /\ Told(z)' => Pos(s)' <= 4 * z + 1
    BY DEF EntryHeard
  <2>1. z # Last /\ 1 \in zoneState[z]
    BY <1>10
  <2>2. PICK s \in Slot : /\ Carries(s) /\ Pos(s) \in 4 * z .. 4 * z + 2
                          /\ Told(z) => Pos(s) <= 4 * z + 1
    BY <1>2, <2>1 DEF Sensors, EntryHeard
  <2>3. Pos(s) <= 4 * z + 5
    BY <2>2, ZoneIs
  <2> QED
    BY <1>9, <1>11, <2>1, <2>2, <2>3
<1>13. ExitHeard'
  <2> SUFFICES ASSUME NEW z \in Zone \ {Last}, 2 \in zoneState'[z]
               PROVE  \E s \in Slot :
                        /\ Carries(s)' /\ Pos(s)' \in 4 * z + 3 .. 4 * z + 5
                        /\ Told(z)' => Pos(s)' <= 4 * z + 4
    BY DEF ExitHeard
  <2>1. PICK s \in Slot : /\ Carries(s) /\ Pos(s) \in 4 * z + 3 .. 4 * z + 5
                          /\ Told(z) => Pos(s) <= 4 * z + 4
    BY <1>2, <1>10 DEF Sensors, ExitHeard
  <2>2. Pos(s) <= 4 * z + 5
    BY <2>1, ZoneIs
  <2> QED
    BY <1>9, <1>11, <2>1, <2>2
<1>14. EntryTold'
  <2> SUFFICES ASSUME NEW z \in Zone, NEW s \in Slot, Carries(s)', Told(z)',
                      Pos(s)' \in 4 * z .. 4 * z + 1
               PROVE  1 \in zoneState'[z]
    BY DEF EntryTold
  <2>1. Carries(s) /\ Pos(s)' = Pos(s) /\ Pos(s) <= 5
    BY <1>3
  <2>2. z # Last
    BY <2>1, Sizes
  <2> QED
    BY <1>2, <1>9, <1>10, <2>1, <2>2 DEF Sensors, EntryTold
<1>15. EndHeard' /\ EndTold'
  BY <1>3, <1>4, <1>10 DEF EndHeard, EndTold
<1>16. EndBlind'
  <2>1. hold # 0
    BY <1>1, <1>2 DEF InTime, Timely, Due
  <2>2. \A t \in Slot : Behind(t)' => Pos(t)' <= 5
    BY <1>3, <1>4
  <2> QED
    BY <1>1, <2>1, <2>2 DEF EndBlind
<1>17. ASSUME NEW s \in Slot PROVE Timely(s)'
  <2>1. CASE s = a
    BY <1>1, <1>4, <2>1 DEF Timely
  <2>2. CASE s # a
    BY <1>0, <1>1, <1>2, <2>2, TimelyKept
  <2> QED
    BY <2>1, <2>2
<1>18. \A s \in Slot : ~Nears(s)' /\ ~Ahead(s)'
  BY <1>3, <1>4
<1>19. Line' /\ Sensors'
  BY <1>5, <1>6, <1>7, <1>8, <1>12, <1>13, <1>14, <1>15, <1>16 DEF Line, Sensors
<1>20. InTime' /\ Heeds'
  BY <1>17, <1>18 DEF InTime, Heeds
<1> QED
  BY <1>18, <1>19, <1>20
-----------------------------------------------------------------------------
(* A new package: every other one is in the last zone.                     *)
LEMMA NewPackageHeard ==
  ASSUME OneAtATime, IInv, OInv, NEW p \in Pkg, RecvPkgTrans(p)
  PROVE  /\ Line' /\ Sensors' /\ InTime' /\ Heeds'
         /\ \A s \in Slot : /\ ~Nears(s)'
                            /\ Ahead(s)' => Ahead(s) /\ Pos(s)' = Pos(s)
<1>1. PICK a \in Slot \ InTransport :
        node' = [node EXCEPT ![a] = [FreeNode EXCEPT !.pkg = p]]
  BY DEF RecvPkgTrans
<1>2. /\ box[p] = Away /\ \A s \in InTransport : node[s].cur >= Spacing
      /\ hold' = 2 /\ UNCHANGED <<zoneState, delivered, asked>>
  BY DEF RecvPkgTrans
<1>3. /\ box'[p] \in {1, 2} /\ \A q \in Pkg \ {p} : box'[q] = box[q]
  BY DEF RecvPkgTrans, IInv, LineTyped
<1>4. Line /\ Sensors /\ InTime /\ Heeds
  BY DEF OInv
<1>5. /\ node'[a].pkg = p /\ node'[a].cur = 0 /\ node'[a].last = NoFrame
      /\ \A s \in Slot \ {a} : node'[s] = node[s]
  BY <1>1 DEF FreeNode, IInv, MasterTyped
<1>6. ~Carries(a)
  BY <1>1 DEF InTransport, Carries
<1>7. /\ Carries(a)' /\ Behind(a)' /\ ~Ahead(a)' /\ ~Nears(a)'
      /\ Pos(a)' \in {1, 2}
  BY <1>3, <1>5, Sizes, Numbered DEF Carries, Pos, Ahead, Behind, Nears
<1>8. ASSUME NEW s \in Slot, Carries(s)
      PROVE  /\ s # a /\ Ahead(s) /\ ~Behind(s) /\ Pos(s) >= 4 * Last
             /\ node[s].pkg # p
             /\ Carries(s)' /\ Ahead(s)' /\ ~Behind(s)' /\ ~Nears(s)'
             /\ Pos(s)' = Pos(s)
  <2>1. s # a /\ s \in InTransport
    BY <1>6, <1>8 DEF Carries, InTransport
  <2>2. node[s].cur >= Last /\ node[s].cur <= Last /\ node[s].cur \in Int
    BY <1>2, <2>1, Typed, Sizes
  <2>3. Ahead(s) /\ ~Behind(s)
    BY <1>8, <2>2, LastIs DEF Ahead, Behind
  <2>4. Pos(s) >= 4 * Last
    BY <1>4, <2>3, LastIs DEF Line, Places
  <2>5. node[s].pkg # p
    BY <1>2, <2>4, Sizes DEF Pos
  <2>6. node'[s] = node[s]
    BY <1>5, <2>1
  <2>7. node[s].pkg \in Pkg
    BY <1>8, Typed
  <2>8. Pos(s)' = Pos(s)
    BY <1>3, <2>5, <2>6, <2>7 DEF Pos
  <2>9. ~Nears(s)' /\ Ahead(s)' /\ ~Behind(s)' /\ Carries(s)'
    BY <1>8, <2>2, <2>6, Sizes DEF Nears, Ahead, Behind, Carries
  <2> QED
    BY <2>1, <2>3, <2>4, <2>5, <2>8, <2>9
<1>9. ASSUME NEW s \in Slot, Carries(s)', s # a
      PROVE  Carries(s) /\ node'[s] = node[s]
  BY <1>5, <1>9 DEF Carries
<1>10. \A s \in Slot : (Ahead(s)' => Carries(s)') /\ (Behind(s)' => Carries(s)')
                       /\ (Nears(s)' => Carries(s)')
  BY DEF Ahead, Behind, Nears
<1>11. Owners'
  <2>1. ASSUME NEW s \in Slot, NEW t \in Slot, Carries(s)',
               node'[s].pkg = node'[t].pkg
        PROVE  s = t
    <3>1. Carries(t)'
      BY <2>1 DEF Carries
    <3>2. CASE s # a /\ t # a
      BY <1>4, <1>9, <2>1, <3>1, <3>2 DEF Line, Owners
    <3>3. CASE s = a /\ t # a
      BY <1>5, <1>8, <1>9, <2>1, <3>1, <3>3
    <3>4. CASE s # a /\ t = a
      BY <1>5, <1>8, <1>9, <2>1, <3>1, <3>4
    <3> QED
      BY <3>2, <3>3, <3>4
  <2> QED
    BY <2>1 DEF Owners
<1>12. Alone'
  <2>1. ASSUME NEW s \in Slot, NEW t \in Slot, Ahead(s)', Ahead(t)'
        PROVE  s = t
    BY <1>4, <1>7, <1>8, <1>9, <1>10, <2>1 DEF Line, Alone
  <2>2. ASSUME NEW s \in Slot, Behind(s)'
        PROVE  s = a
    BY <1>8, <1>9, <1>10, <2>2
  <2> QED
    BY <2>1, <2>2 DEF Alone
<1>13. Idle'
  <2>1. p \notin delivered
    BY <1>2, <1>4, Sizes DEF Line, Idle
  <2>2. Carried(p)'
    BY <1>5 DEF Carried
  <2>3. ASSUME NEW q \in Pkg, q # p PROVE Carried(q)' <=> Carried(q)
    <3>1. ASSUME NEW s \in Slot, node'[s].pkg = q PROVE node[s].pkg = q
      BY <1>5, <2>3, <3>1
    <3>2. ASSUME NEW s \in Slot, node[s].pkg = q PROVE node'[s].pkg = q
      <4>1. Carries(s)
        BY <3>2, Numbered DEF Carries
      <4> QED
        BY <1>5, <1>8, <3>2, <4>1
    <3> QED
      BY <3>1, <3>2 DEF Carried
  <2> QED
    BY <1>2, <1>3, <1>4, <2>1, <2>2, <2>3 DEF Line, Idle
<1>14. Places'
  <2>1. ASSUME NEW s \in Slot
        PROVE  /\ node'[s].last <= node'[s].cur
               /\ Ahead(s)' => Pos(s)' \in 4 * Last .. AtEnd
               /\ Behind(s)' =>
                    Pos(s)' \in 4 * node'[s].cur .. 4 * node'[s].cur + 4
    <3>1. CASE s = a
      BY <1>5, <1>7, <3>1 DEF NoFrame
    <3>2. CASE s # a
      <4>1. node'[s].last <= node'[s].cur
        BY <1>4, <1>5, <3>2 DEF Line, Places
      <4>2. ASSUME Carries(s)'
            PROVE  ~Behind(s)' /\ Pos(s)' \in 4 * Last .. AtEnd
        <5>1. Carries(s)
          BY <1>9, <3>2, <4>2
        <5> QED
          BY <1>4, <1>8, <5>1 DEF Line, Places
      <4> QED
        BY <1>10, <4>1, <4>2
    <3> QED
      BY <3>1, <3>2
  <2> QED
    BY <2>1 DEF Places
<1>15. OneAtEnd'
  <2>1. ASSUME NEW q \in Pkg, box'[q] \in 4 * Last .. AtEnd
        PROVE  box[q] \in 4 * Last .. AtEnd
    BY <1>3, <2>1, Sizes
  <2> QED
    BY <1>4, <2>1 DEF Line, OneAtEnd
<1>16. Lockstep'
  <2>1. ASSUME NEW s \in Slot, NEW t \in Slot, Ahead(s)', Behind(t)'
        PROVE  /\ Pos(t)' <= 5
               /\ Pos(s)' < AtEnd => Pos(t)' <= Pos(s)' - 4 * Last + 2
    <3>1. t = a
      BY <1>8, <1>9, <1>10, <2>1
    <3>2. Carries(s) /\ Pos(s)' >= 4 * Last /\ Pos(s)' \in Int
      BY <1>7, <1>8, <1>9, <1>10, <2>1, Typed
    <3> QED
      BY <1>7, <3>1, <3>2, Sizes
  <2> QED
    BY <2>1 DEF Lockstep
<1>17. \A z \in Zone : ~Told(z)'
  BY <1>2 DEF Told
<1>18. EntryHeard' /\ ExitHeard' /\ EntryTold'
  BY <1>2, <1>4, <1>8, <1>17 DEF Sensors, EntryHeard, ExitHeard, EntryTold
<1>19. EndHeard' /\ EndTold'
  <2>1. ASSUME NEW s \in Slot, 2 \in zoneState[Last], Ahead(s)'
        PROVE  Pos(s)' = AtEnd
    BY <1>4, <1>7, <1>8, <1>9, <1>10, <2>1 DEF Sensors, EndHeard
  <2>2. ASSUME NEW s \in Slot, Behind(s)' PROVE Pos(s)' < 4 * Last
    <3>1. s = a
      BY <1>8, <1>9, <1>10, <2>2
    <3> QED
      BY <1>7, <3>1, Sizes
  <2> QED
    BY <1>2, <1>17, <2>1, <2>2, LastIs DEF EndHeard, EndTold
<1>20. EndBlind'
  <2>1. ASSUME NEW t \in Slot, Behind(t)' PROVE Pos(t)' <= 5
    <3>1. t = a
      BY <1>8, <1>9, <1>10, <2>1
    <3> QED
      BY <1>7, <3>1
  <2> QED
    BY <1>2, <2>1 DEF EndBlind
<1>21. \A s \in Slot : Timely(s)'
  <2>1. \A s \in Slot : ~Nears(s)'
    BY <1>7, <1>8, <1>9, <1>10
  <2>2. \A s \in Slot : Due(s)'
    BY <1>2 DEF Due
  <2> QED
    BY <2>1, <2>2 DEF Timely
<1>22. \A s \in Slot : ~Nears(s)'
  BY <1>7, <1>8, <1>9, <1>10
<1>23. Line' /\ Sensors'
  BY <1>11, <1>12, <1>13, <1>14, <1>15, <1>16, <1>18, <1>19, <1>20
     DEF Line, Sensors
<1>24. InTime' /\ Heeds'
  BY <1>21, <1>22 DEF InTime, Heeds
<1>25. ASSUME NEW s \in Slot, Ahead(s)' PROVE Ahead(s) /\ Pos(s)' = Pos(s)
  BY <1>7, <1>8, <1>9, <1>10, <1>25
<1> QED
  BY <1>22, <1>23, <1>24, <1>25
-----------------------------------------------------------------------------
(* The status requests and the answers.                                    *)
LEMMA AskHeard ==
  ASSUME OneAtATime, IInv, OInv, AskModuleState
  PROVE  Line' /\ Sensors' /\ InTime' /\ Heeds'
<1>1. /\ asked = {} /\ passes = 2 /\ asked' = Board /\ passes' = 0
      /\ hold' = IF hold > 0 THEN hold - 1 ELSE 0
      /\ UNCHANGED <<node, at, zoneState, delivered, box>>
  BY DEF AskModuleState, Settled, masterVars
<1>2. Line /\ Sensors /\ InTime /\ Heeds
  BY DEF OInv
<1>3. hold \in {0, 1, 2}
  BY TimeTyped
<1>4. Line' /\ Heeds'
  BY <1>1, <1>2, LineSame, HeedsSame
<1>5. \A z \in Zone : z \div 2 \in Board
  BY DEF Board
<1>6. Board # {}
  BY <1>5, LastIs
<1>7. ASSUME NEW s \in Slot
      PROVE  /\ Carries(s)' = Carries(s) /\ Pos(s)' = Pos(s)
             /\ Ahead(s)' = Ahead(s) /\ Behind(s)' = Behind(s)
             /\ Nears(s)' = Nears(s)
  BY <1>1, SlotSame
<1>8. ASSUME NEW s \in Slot PROVE Due(s) <=> Due(s)'
  BY <1>1, <1>3, <1>6 DEF Due, Knows
<1>9. InTime'
  <2>1. ASSUME NEW s \in Slot PROVE Timely(s)'
    <3>1. Timely(s) /\ node'[s] = node[s]
      BY <1>1, <1>2 DEF InTime
    <3> QED
      BY <1>7, <1>8, <3>1 DEF Timely
  <2> QED
    BY <2>1 DEF InTime
<1>10. ASSUME NEW z \in Zone PROVE Told(z)' => Told(z)
  BY <1>1, <1>3, <1>5 DEF Told
<1>11. EntryHeard' /\ ExitHeard' /\ EntryTold'
  BY <1>1, <1>2, <1>7, <1>10 DEF Sensors, EntryHeard, ExitHeard, EntryTold
<1>12. EndHeard' /\ EndTold'
  BY <1>1, <1>2, <1>7, <1>10, LastIs DEF Sensors, EndHeard, EndTold
<1>13. EndBlind'
  <2>1. ASSUME NEW p \in delivered', box'[p] = AtEnd, 2 \notin zoneState'[Last]
        PROVE  /\ Last \div 2 \in asked'
               /\ \A t \in Slot : Behind(t)' => Pos(t)' <= 5
    <3>1. Last \div 2 \in asked'
      BY <1>1, <1>5, LastIs
    <3>2. p \in delivered /\ box[p] = AtEnd /\ 2 \notin zoneState[Last]
      BY <1>1, <2>1
    <3>3. \A t \in Slot : Behind(t) => Pos(t) <= 5
      BY <1>1, <1>2, <3>2 DEF Sensors, EndBlind
    <3> QED
      BY <1>7, <3>1, <3>3
  <2> QED
    BY <2>1 DEF EndBlind
<1>14. Sensors'
  BY <1>11, <1>12, <1>13 DEF Sensors
<1> QED
  BY <1>4, <1>9, <1>14

(* The box that covers a sensor.                                           *)
LEMMA CoveredIs ==
  ASSUME IInv, NEW z \in Zone
  PROVE  /\ 1 \in Covered(z) <=> \E p \in Pkg : box[p] \in 4 * z .. 4 * z + 1
         /\ 2 \in Covered(z) <=>
              \E p \in Pkg : /\ box[p] \in 4 * z + 3 .. 4 * z + 4
                             /\ z = Last => box[p] = AtEnd
<1>1. z \in Int /\ 0 <= z /\ z <= Last
  BY ZoneIs
<1>2. Covered(z) =
        {b \in {1, 2} : \E p \in Pkg :
           box[p] \in IF b = 1 THEN {4 * z, 4 * z + 1}
                      ELSE {4 * z + 3, 4 * (z + 1)} \cap (0 .. Fallen)}
  BY DEF Covered
<1>3. ASSUME NEW p \in Pkg
      PROVE  /\ box[p] \in {4 * z, 4 * z + 1} <=> box[p] \in 4 * z .. 4 * z + 1
             /\ box[p] \in {4 * z + 3, 4 * (z + 1)} \cap (0 .. Fallen) <=>
                  /\ box[p] \in 4 * z + 3 .. 4 * z + 4
                  /\ z = Last => box[p] = AtEnd
  <2>1. box[p] \in Int /\ box[p] # Fallen
    BY BoxTyped
  <2> QED
    BY <1>1, <2>1, Geometry
<1>4. 1 \in Covered(z) <=> \E p \in Pkg : box[p] \in {4 * z, 4 * z + 1}
  BY <1>2, Zenon
<1>5. 2 \in Covered(z) <=> \E p \in Pkg :
        box[p] \in {4 * z + 3, 4 * (z + 1)} \cap (0 .. Fallen)
  <2>1. 2 # 1
    OBVIOUS
  <2> QED
    BY <1>2, <2>1, Zenon
<1> QED
  BY <1>3, <1>4, <1>5

(* A box on the line short of its end belongs to a package carried.        *)
LEMMA BoxOf ==
  ASSUME IInv, Idle, NEW p \in Pkg, box[p] >= 0, box[p] < AtEnd
  PROVE  \E s \in Slot : Carries(s) /\ node[s].pkg = p /\ Pos(s) = box[p]
<1>1. Carried(p)
  BY Geometry DEF Idle
<1>2. PICK s \in Slot : node[s].pkg = p
  BY <1>1 DEF Carried
<1> QED
  BY <1>2, Numbered DEF Carries, Pos

(* Who nears the last zone has heard of the box that lies at its end.      *)
LEMMA EndTakenIs ==
  ASSUME OneAtATime, IInv, OInv, NEW p \in Pkg, box[p] = AtEnd, NEW s \in Slot
  PROVE  /\ Nears(s) => 2 \in zoneState[Last]
         /\ Ahead(s) => Pos(s) = AtEnd
<1>1. Line /\ Sensors
  BY DEF OInv
<1>2. ASSUME NEW t \in Slot, Carries(t), Pos(t) >= 4 * Last
      PROVE  node[t].pkg = p
  <2>1. /\ node[t].cur \in Int /\ node[t].cur <= Last /\ node[t].pkg \in Pkg
        /\ Pos(t) \in Int /\ Pos(t) = box[node[t].pkg]
    BY <1>2, Typed DEF Pos
  <2>2. Pos(t) <= AtEnd
    BY <1>1, <1>2, <2>1, AheadOrBehind, Sizes DEF Line, Places, Behind
  <2>3. box[node[t].pkg] \in 4 * Last .. AtEnd /\ AtEnd \in 4 * Last .. AtEnd
    BY <1>2, <2>1, <2>2, Sizes
  <2> QED
    BY <1>1, <2>1, <2>3 DEF Line, OneAtEnd
<1>3. Ahead(s) => Pos(s) = AtEnd
  <2>1. Ahead(s) => Carries(s) /\ Pos(s) >= 4 * Last
    BY <1>1, AheadOrBehind, LastIs DEF Line, Places
  <2> QED
    BY <1>2, <2>1 DEF Pos
<1>4. ASSUME Nears(s) PROVE 2 \in zoneState[Last]
  <2>1. Behind(s) /\ Pos(s) >= 8 /\ Pos(s) \in Int
    BY <1>1, <1>4, Typed, Sizes DEF Nears, Behind, Line, Places
  <2>2. ~Carried(p)
    <3>1. ASSUME NEW t \in Slot, node[t].pkg = p PROVE FALSE
      <4>1. Carries(t) /\ Pos(t) = AtEnd
        BY <3>1, Numbered DEF Carries, Pos
      <4>2. Behind(t)
        BY <1>1, <1>4, <4>1, NotBoth, AheadOrBehind
      <4>3. /\ Pos(t) \in 4 * node[t].cur .. 4 * node[t].cur + 4
            /\ node[t].cur < Last /\ node[t].cur \in Int
        BY <1>1, <4>2, Typed DEF Line, Places, Behind
      <4> QED
        BY <4>1, <4>3, Sizes
    <3> QED
      BY <3>1 DEF Carried
  <2>3. p \in delivered
    BY <1>1, <2>2, Sizes DEF Line, Idle
  <2>4. 2 \notin zoneState[Last] => Pos(s) <= 6
    BY <1>1, <2>1, <2>3 DEF Sensors, EndBlind
  <2> QED
    BY <2>1, <2>4
<1> QED
  BY <1>3, <1>4

LEMMA StatusHeard ==
  ASSUME OneAtATime, IInv, OInv, NEW b \in Board, ModuleStatus(b)
  PROVE  Line' /\ Sensors' /\ InTime' /\ Heeds'
<1>1. /\ asked' = asked \ {b} /\ passes' = 0 /\ b \in asked
      /\ zoneState' = [z \in Zone |-> IF z \div 2 = b THEN Covered(z)
                                      ELSE zoneState[z]]
      /\ UNCHANGED <<node, at, delivered, box, hold>>
  BY DEF ModuleStatus
<1>2. Line /\ Sensors /\ InTime /\ Heeds
  BY DEF OInv
<1>3. hold \in {0, 1, 2}
  BY TimeTyped
<1>4. Line'
  BY <1>1, <1>2, LineSame
<1>5. ASSUME NEW s \in Slot
      PROVE  /\ Carries(s)' = Carries(s) /\ Pos(s)' = Pos(s)
             /\ Ahead(s)' = Ahead(s) /\ Behind(s)' = Behind(s)
             /\ Nears(s)' = Nears(s)
  BY <1>1, SlotSame
<1>6. InTime'
  <2>1. ASSUME NEW s \in Slot PROVE Timely(s)'
    <3>1. Timely(s) /\ node'[s] = node[s]
      BY <1>1, <1>2 DEF InTime
    <3>2. Due(s) => Due(s)'
      BY <1>1 DEF Due, Knows
    <3> QED
      BY <1>5, <3>1, <3>2 DEF Timely
  <2> QED
    BY <2>1 DEF InTime
<1>7. ASSUME NEW z \in Zone
      PROVE  \/ z \div 2 = b /\ zoneState'[z] = Covered(z)
             \/ /\ z \div 2 # b /\ zoneState'[z] = zoneState[z]
                /\ Told(z)' = Told(z)
  BY <1>1 DEF Told
<1>8. EntryHeard'
  <2> SUFFICES ASSUME NEW z \in Zone, 1 \in zoneState'[z]
               PROVE  \E s \in Slot :
                        /\ Carries(s)' /\ Pos(s)' \in 4 * z .. 4 * z + 2
                        /\ Told(z)' => Pos(s)' <= 4 * z + 1
    BY DEF EntryHeard
  <2>1. CASE zoneState'[z] = Covered(z)
    <3>1. PICK p \in Pkg : box[p] \in 4 * z .. 4 * z + 1
      BY <2>1, CoveredIs
    <3>2. z \in Int /\ box[p] >= 0 /\ box[p] < AtEnd
      BY <3>1, ZoneIs, Sizes
    <3>3. PICK s \in Slot : Carries(s) /\ Pos(s) = box[p]
      BY <1>2, <3>2, BoxOf DEF Line
    <3> QED
      BY <1>5, <3>1, <3>2, <3>3
  <2>2. CASE zoneState'[z] = zoneState[z] /\ Told(z)' = Told(z)
    BY <1>2, <1>5, <2>2 DEF Sensors, EntryHeard
  <2> QED
    BY <1>7, <2>1, <2>2
<1>9. ExitHeard'
  <2> SUFFICES ASSUME NEW z \in Zone \ {Last}, 2 \in zoneState'[z]
               PROVE  \E s \in Slot :
                        /\ Carries(s)' /\ Pos(s)' \in 4 * z + 3 .. 4 * z + 5
                        /\ Told(z)' => Pos(s)' <= 4 * z + 4
    BY DEF ExitHeard
  <2>1. CASE zoneState'[z] = Covered(z)
    <3>1. PICK p \in Pkg : box[p] \in 4 * z + 3 .. 4 * z + 4
      BY <2>1, CoveredIs
    <3>2. z \in Int /\ box[p] >= 0 /\ box[p] < AtEnd
      BY <3>1, ZoneIs, Sizes
    <3>3. PICK s \in Slot : Carries(s) /\ Pos(s) = box[p]
      BY <1>2, <3>2, BoxOf DEF Line
    <3> QED
      BY <1>5, <3>1, <3>2, <3>3
  <2>2. CASE zoneState'[z] = zoneState[z] /\ Told(z)' = Told(z)
    BY <1>2, <1>5, <2>2 DEF Sensors, ExitHeard
  <2> QED
    BY <1>7, <2>1, <2>2
<1>10. EntryTold'
  <2> SUFFICES ASSUME NEW z \in Zone, NEW s \in Slot, Carries(s), Told(z)',
                      Pos(s) \in 4 * z .. 4 * z + 1
               PROVE  1 \in zoneState'[z]
    BY <1>5 DEF EntryTold
  <2>1. node[s].pkg \in Pkg /\ box[node[s].pkg] \in 4 * z .. 4 * z + 1
    BY Typed DEF Pos
  <2>2. CASE zoneState'[z] = Covered(z)
    BY <2>1, <2>2, CoveredIs
  <2>3. CASE zoneState'[z] = zoneState[z] /\ Told(z)' = Told(z)
    BY <1>2, <2>3 DEF Sensors, EntryTold
  <2> QED
    BY <1>7, <2>2, <2>3
<1>11. ASSUME NEW s \in Slot, Carries(s)
       PROVE  node[s].pkg \in Pkg /\ Pos(s) = box[node[s].pkg] /\ Pos(s) \in Int
  BY <1>11, Typed DEF Pos
<1>12. ASSUME 2 \in Covered(Last)
       PROVE  \E p \in Pkg : box[p] = AtEnd
  BY <1>12, CoveredIs, LastIs
<1>13. ASSUME NEW s \in Slot, NEW p \in Pkg, Carries(s), Pos(s) >= 4 * Last,
              Pos(s) <= AtEnd, box[p] = AtEnd
       PROVE  Pos(s) = AtEnd
  <2>1. AtEnd \in 4 * Last .. AtEnd
    BY Sizes
  <2>2. node[s].pkg \in Pkg /\ box[node[s].pkg] \in 4 * Last .. AtEnd
    BY <1>11, <1>13, Sizes
  <2>3. node[s].pkg = p
    BY <1>2, <1>13, <2>1, <2>2 DEF Line, OneAtEnd
  <2> QED
    BY <1>13, <2>3 DEF Pos
<1>14. EndHeard'
  <2> SUFFICES ASSUME NEW s \in Slot, 2 \in zoneState'[Last]
               PROVE  /\ Ahead(s) => Pos(s) = AtEnd
                      /\ Behind(s) => Pos(s) < 4 * Last
    BY <1>5 DEF EndHeard
  <2>1. CASE zoneState'[Last] = Covered(Last)
    <3>1. PICK p \in Pkg : box[p] = AtEnd
      BY <1>12, <2>1
    <3>2. Ahead(s) => Pos(s) = AtEnd
      BY <1>2, <1>13, <3>1, AheadOrBehind, LastIs DEF Line, Places
    <3>3. ASSUME Behind(s), Pos(s) >= 4 * Last
          PROVE  FALSE
      <4>1. /\ Pos(s) \in 4 * node[s].cur .. 4 * node[s].cur + 4 /\ Carries(s)
            /\ node[s].cur < Last /\ node[s].cur \in Int
        BY <1>2, <3>3, Typed DEF Line, Places, Behind
      <4>2. Pos(s) <= 4 * Last
        BY <4>1, LastIs
      <4>3. Pos(s) = AtEnd
        BY <1>13, <3>1, <3>3, <4>1, <4>2, Sizes
      <4> QED
        BY <4>2, <4>3, Sizes
    <3> QED
      BY <1>11, <3>2, <3>3, AheadOrBehind, LastIs
  <2>2. CASE zoneState'[Last] = zoneState[Last]
    BY <1>2, <2>2 DEF Sensors, EndHeard
  <2> QED
    BY <1>7, <2>1, <2>2, LastIs
<1>15. EndTold'
  <2> SUFFICES ASSUME NEW s \in Slot, Ahead(s), Pos(s) = AtEnd, Told(Last)'
               PROVE  2 \in zoneState'[Last]
    BY <1>5 DEF EndTold
  <2>1. CASE zoneState'[Last] = Covered(Last)
    <3>1. node[s].pkg \in Pkg /\ box[node[s].pkg] = AtEnd
      BY <1>11, AheadOrBehind
    <3>2. AtEnd \in 4 * Last + 3 .. 4 * Last + 4
      BY Sizes
    <3> QED
      BY <2>1, <3>1, <3>2, CoveredIs, LastIs
  <2>2. CASE zoneState'[Last] = zoneState[Last] /\ Told(Last)' = Told(Last)
    BY <1>2, <2>2 DEF Sensors, EndTold
  <2> QED
    BY <1>7, <2>1, <2>2, LastIs
<1>16. ASSUME NEW p \in delivered, box[p] = AtEnd, zoneState'[Last] = Covered(Last)
       PROVE  2 \in zoneState'[Last]
  <2>1. AtEnd \in 4 * Last + 3 .. 4 * Last + 4 /\ p \in Pkg
    BY Sizes DEF IInv, MasterTyped
  <2> QED
    BY <1>16, <2>1, CoveredIs, LastIs
<1>17. EndBlind'
  <2> SUFFICES ASSUME NEW p \in delivered, box[p] = AtEnd, 2 \notin zoneState'[Last]
               PROVE  /\ hold = 0 => Last \div 2 \in asked'
                      /\ \A t \in Slot : Behind(t) => Pos(t) <= 5 \/
                           (Pos(t) = 6 /\ hold = 2 /\ Last \div 2 \in asked')
    BY <1>1, <1>5 DEF EndBlind
  <2>1. Last \div 2 # b /\ zoneState'[Last] = zoneState[Last]
    BY <1>7, <1>16, LastIs
  <2>2. Last \div 2 \in asked' <=> Last \div 2 \in asked
    BY <1>1, <2>1
  <2> QED
    BY <1>2, <2>1, <2>2 DEF Sensors, EndBlind
<1>18. Heeds'
  <2> SUFFICES ASSUME NEW s \in Slot, Nears(s)
               PROVE  Heeding(s)'
    BY <1>5 DEF Heeds
  <2>1. Heeding(s) /\ node'[s] = node[s]
    BY <1>1, <1>2 DEF Heeds
  <2>2. ASSUME 2 \in zoneState'[Last] PROVE 2 \in zoneState[Last]
    <3>1. CASE zoneState'[Last] = Covered(Last)
      <4>1. PICK p \in Pkg : box[p] = AtEnd
        BY <1>12, <2>2, <3>1
      <4> QED
        BY <4>1, EndTakenIs
    <3>2. CASE zoneState'[Last] = zoneState[Last]
      BY <2>2, <3>2
    <3> QED
      BY <1>7, <3>1, <3>2, LastIs
  <2> QED
    BY <1>5, <2>1, <2>2 DEF Heeding
<1>19. Sensors'
  BY <1>8, <1>9, <1>10, <1>14, <1>15, <1>17 DEF Sensors
<1> QED
  BY <1>4, <1>6, <1>18, <1>19

(* A delivered box that is taken off.                                      *)
LEMMA TakeOffHeard ==
  ASSUME OneAtATime, IInv, OInv, NEW p \in Pkg, TakeOff(p)
  PROVE  Line' /\ Sensors' /\ InTime' /\ Heeds'
<1>1. /\ p \in delivered /\ box[p] = AtEnd /\ box' = [box EXCEPT ![p] = Taken]
      /\ UNCHANGED <<node, at, zoneState, delivered, hold, asked, passes>>
  BY DEF TakeOff, masterVars, timeVars
<1>2. box'[p] = Taken /\ \A q \in Pkg \ {p} : box'[q] = box[q]
  BY <1>1 DEF IInv, LineTyped
<1>3. Line /\ Sensors /\ InTime /\ Heeds
  BY DEF OInv
<1>4. ~Carried(p)
  BY <1>1, <1>3 DEF Line, Idle
<1>5. ASSUME NEW s \in Slot
      PROVE  /\ Carries(s)' = Carries(s) /\ Ahead(s)' = Ahead(s)
             /\ Behind(s)' = Behind(s) /\ Nears(s)' = Nears(s)
             /\ Carries(s) => Pos(s)' = Pos(s)
  <2>1. node'[s] = node[s] /\ node[s].pkg # p
    BY <1>1, <1>4 DEF Carried
  <2>2. Carries(s) => node[s].pkg \in Pkg
    BY Typed
  <2> QED
    BY <1>2, <2>1, <2>2 DEF Carries, Ahead, Behind, Nears, Pos
<1>6. \A s \in Slot : (Ahead(s) => Carries(s)) /\ (Behind(s) => Carries(s))
                      /\ (Nears(s) => Carries(s))
  BY DEF Ahead, Behind, Nears
<1>7. Owners' /\ Alone' /\ Lockstep' /\ Places'
  BY <1>1, <1>3, <1>5, <1>6 DEF Line, Owners, Alone, Lockstep, Places
<1>8. ASSUME NEW q \in Pkg PROVE Carried(q)' = Carried(q)
  BY <1>1 DEF Carried
<1>9. Idle'
  BY <1>1, <1>2, <1>3, <1>8 DEF Line, Idle
<1>10. OneAtEnd'
  <2>1. Taken \notin 4 * Last .. AtEnd
    BY Sizes
  <2> QED
    BY <1>2, <1>3, <2>1 DEF Line, OneAtEnd
<1>11. \A z \in Zone : Told(z)' = Told(z)
  BY <1>1 DEF Told
<1>12. EntryHeard' /\ ExitHeard' /\ EntryTold'
  BY <1>1, <1>3, <1>5, <1>11 DEF Sensors, EntryHeard, ExitHeard, EntryTold
<1>13. EndHeard' /\ EndTold'
  BY <1>1, <1>3, <1>5, <1>6, <1>11, LastIs DEF Sensors, EndHeard, EndTold
<1>14. EndBlind'
  <2>1. ASSUME NEW q \in delivered, box'[q] = AtEnd PROVE box[q] = AtEnd
    <3>1. q \in Pkg /\ Taken # AtEnd
      BY Sizes DEF IInv, MasterTyped
    <3> QED
      BY <1>2, <2>1, <3>1
  <2> QED
    BY <1>1, <1>3, <1>5, <1>6, <2>1 DEF Sensors, EndBlind
<1>15. \A s \in Slot : Due(s)' = Due(s)
  BY <1>1 DEF Due, Knows
<1>16. InTime' /\ Heeds'
  BY <1>1, <1>3, <1>5, <1>6, <1>15 DEF InTime, Timely, Heeds, Heeding
<1>17. Line' /\ Sensors'
  BY <1>7, <1>9, <1>10, <1>12, <1>13, <1>14 DEF Line, Sensors
<1> QED
  BY <1>16, <1>17
-----------------------------------------------------------------------------
(* The boxes move.                                                         *)
LEMMA MoveIs ==
  ASSUME IInv, Move
  PROVE  /\ hold = 0 /\ hold' = 2
         /\ UNCHANGED <<node, at, zoneState, delivered, cnt, canq, lost, belt,
                        motor, lastFrame, asked, passes>>
         /\ \A p \in Pkg : \/ box'[p] = box[p] /\ p \notin Driven
                           \/ /\ box'[p] = box[p] + 1 /\ box[p] >= 0
                              /\ box[p] < AtEnd
                              /\ \E z \in Under(p) : motor[z] = TRUE
<1>1. /\ hold = 0 /\ hold' = 2
      /\ UNCHANGED <<node, at, zoneState, delivered, cnt, canq, lost, belt,
                     motor, lastFrame, asked, passes>>
  BY DEF Move, masterVars, beltVars
<1>2. PICK moving \in SUBSET (Driven \cup Pulled) :
        /\ Driven \subseteq moving
        /\ box' = [p \in Pkg |-> IF p \in moving THEN box[p] + 1 ELSE box[p]]
  BY DEF Move
<1>3. ASSUME NEW p \in Pkg, p \in moving
      PROVE  /\ box'[p] = box[p] + 1 /\ box[p] >= 0 /\ box[p] < AtEnd
             /\ \E z \in Under(p) : motor[z] = TRUE
  <2>1. p \in Driven \/ p \in Pulled
    BY <1>2, <1>3
  <2>2. OnLine(p) /\ (p \in Driven => \A z \in Under(p) : motor[z])
    BY <2>1 DEF Driven, Pulled
  <2>3. box[p] \in 0 .. AtEnd
    BY <2>2 DEF OnLine
  <2>4. box[p] \div 4 \in Under(p) /\ \A z \in Under(p) : z \in Zone
    <3>1. /\ box[p] \in Int /\ 0 <= box[p] /\ box[p] <= 4 * Last + 3
          /\ Last \in Int
      BY <2>3, Geometry
    <3>2. /\ 0 <= box[p] \div 4 /\ box[p] \div 4 <= Last
          /\ box[p] \div 4 \in Int
      BY <3>1
    <3> DEFINE q == box[p] \div 4
    <3>3. Under(p) = {q} \/ (q > 0 /\ Under(p) = {q - 1, q})
      BY DEF Under
    <3>4. q \in Int /\ 0 <= q /\ q <= Last
      BY <3>2
    <3> HIDE DEF q
    <3>5. \A z \in Under(p) : z \in Zone
      BY <3>1, <3>3, <3>4, ZoneIs
    <3>6. q \in Under(p)
      BY <3>3
    <3> QED
      BY <3>5, <3>6 DEF q
  <2>5. \E z \in Under(p) : motor[z]
    BY <2>1, <2>2, <2>4 DEF Pulled
  <2>6. \E z \in Under(p) : motor[z] = TRUE
    BY <2>4, <2>5 DEF IInv, LineTyped
  <2>7. box[p] # AtEnd
    <3>1. ASSUME box[p] = AtEnd PROVE FALSE
      <4>1. Under(p) = {Last}
        BY <3>1, Numbered DEF Under, AtEnd, Last
      <4>2. motor[Last] = FALSE
        BY <1>1, <3>1 DEF IInv, EndStopped
      <4> QED
        BY <2>6, <4>1, <4>2
    <3> QED
      BY <3>1
  <2> QED
    BY <1>2, <1>3, <2>3, <2>6, <2>7, Geometry
<1>4. ASSUME NEW p \in Pkg, p \notin moving
      PROVE  box'[p] = box[p] /\ p \notin Driven
  BY <1>2, <1>4
<1> QED
  BY <1>1, <1>3, <1>4

(* The zones whose motors move a box.                                      *)
LEMMA UnderIs ==
  ASSUME NEW p \in Pkg, NEW z \in Int, 0 < z, box[p] \in Int
  PROVE  /\ box[p] = 4 * z => Under(p) = {z - 1, z}
         /\ box[p] > 4 * z /\ box[p] < 4 * z + 4 => Under(p) = {z}
<1>1. ASSUME box[p] = 4 * z PROVE Under(p) = {z - 1, z}
  <2>1. box[p] \div 4 = z /\ box[p] % 4 = 0
    BY <1>1
  <2> QED
    BY <2>1 DEF Under
<1>2. ASSUME box[p] > 4 * z, box[p] < 4 * z + 4 PROVE Under(p) = {z}
  <2>1. box[p] \div 4 = z /\ box[p] % 4 # 0
    BY <1>2
  <2> QED
    BY <2>1 DEF Under
<1> QED
  BY <1>1, <1>2

LEMMA MoveHeard ==
  ASSUME OneAtATime, IInv, OInv, Move
  PROVE  Line' /\ Sensors' /\ InTime' /\ Heeds'
<1>1. /\ hold = 0 /\ hold' = 2
      /\ UNCHANGED <<node, at, zoneState, delivered, motor, asked, passes>>
      /\ \A p \in Pkg : \/ box'[p] = box[p] /\ p \notin Driven
                        \/ /\ box'[p] = box[p] + 1 /\ box[p] >= 0
                           /\ box[p] < AtEnd
                           /\ \E z \in Under(p) : motor[z] = TRUE
  BY MoveIs
<1>2. Line /\ Sensors /\ InTime /\ Heeds /\ Obeys
  BY DEF OInv
<1>3. ASSUME NEW s \in Slot
      PROVE  /\ Carries(s)' = Carries(s) /\ Ahead(s)' = Ahead(s)
             /\ Behind(s)' = Behind(s) /\ Nears(s)' = Nears(s)
             /\ node'[s] = node[s] /\ ~Due(s) /\ Due(s)'
             /\ Ahead(s) => Carries(s)
             /\ Behind(s) => Carries(s)
             /\ Nears(s) => Carries(s) /\ Behind(s)
  BY <1>1, Sizes DEF Carries, Ahead, Behind, Nears, Due
<1>4. \A z \in Zone : Told(z) /\ ~Told(z)'
  BY <1>1 DEF Told
<1>5. ASSUME NEW s \in Slot, Carries(s)
      PROVE  /\ node[s].pkg \in Pkg /\ Pos(s) = box[node[s].pkg]
             /\ Pos(s)' = box'[node[s].pkg] /\ Pos(s) \in Int
             /\ Pos(s)' = Pos(s) \/ Pos(s)' = Pos(s) + 1
  BY <1>1, <1>5, Typed DEF Pos
(* The package in the last zone moves. *)
<1>6. ASSUME NEW s \in Slot, Ahead(s)
      PROVE  /\ Pos(s) \in 4 * Last .. AtEnd - 1
             /\ Pos(s)' = Pos(s) + 1
  <2> DEFINE p == node[s].pkg
  <2>1. p \in Pkg /\ box[p] = Pos(s) /\ Pos(s)' = box'[p] /\ Pos(s) \in Int
    BY <1>3, <1>5, <1>6
  <2>2. Pos(s) \in 4 * Last .. AtEnd - 1
    BY <1>2, <1>3, <1>6, Sizes DEF Line, Places, InTime, Timely
  <2>3. /\ motor[Last] = TRUE
        /\ Pos(s) = 4 * Last => motor[Before] = TRUE
    BY <1>1, <1>2, <1>6, <2>2, Sizes DEF Obeys, Carrying
  <2>4. \A z \in Under(p) : motor[z] = TRUE
    <3>1. CASE Pos(s) = 4 * Last
      <4>1. Last \in Int /\ 0 < Last /\ Before = Last - 1
        BY Sizes
      <4>2. Under(p) = {Last - 1, Last}
        <5> HIDE DEF p
        <5> QED
          BY <2>1, <3>1, <4>1, UnderIs
      <4> QED
        BY <2>3, <3>1, <4>1, <4>2
    <3>2. CASE Pos(s) # 4 * Last
      <4>1. Last \in Int /\ 0 < Last /\ AtEnd - 1 < 4 * Last + 4
        BY Sizes
      <4>2. /\ box[p] \in Int /\ p \in Pkg
            /\ box[p] > 4 * Last /\ box[p] < 4 * Last + 4
        <5> HIDE DEF p
        <5> QED
          BY <2>1, <2>2, <3>2, <4>1, Sizes
      <4>3. Under(p) = {Last}
        <5> HIDE DEF p
        <5> QED
          BY <4>1, <4>2, UnderIs
      <4> QED
        BY <2>3, <4>3
    <3> QED
      BY <3>1, <3>2
  <2>5. OnLine(p)
    BY <2>1, <2>2, Sizes DEF OnLine
  <2>6. p \in Driven
    BY <2>1, <2>4, <2>5 DEF Driven
  <2> QED
    BY <1>1, <2>1, <2>2, <2>6
(* The one behind it stays in its zone's reach. *)
<1>7. ASSUME NEW s \in Slot, Behind(s)
      PROVE  /\ Pos(s) \in 4 * node[s].cur .. 4 * node[s].cur + 3
             /\ Pos(s)' \in 4 * node[s].cur .. 4 * node[s].cur + 4
             /\ node[s].cur \in Int /\ 0 <= node[s].cur /\ node[s].cur < Last
  <2>1. /\ Pos(s) \in 4 * node[s].cur .. 4 * node[s].cur + 4
        /\ Pos(s) # 4 * node[s].cur + 4
    BY <1>2, <1>3, <1>7 DEF Line, Places, InTime, Timely
  <2>2. node[s].cur \in Int /\ 0 <= node[s].cur /\ node[s].cur < Last
    BY <1>7, Typed DEF Behind
  <2> QED
    BY <1>3, <1>5, <1>7, <2>1, <2>2
(* It enters the last zone only when nobody is there. *)
<1>8. ASSUME NEW s \in Slot, Behind(s), Pos(s)' >= 4 * Last
      PROVE  /\ 2 \notin zoneState[Last] /\ ~node[s].nextstat
             /\ \A t \in Slot : ~Ahead(t)
             /\ \A p \in delivered : box[p] # AtEnd
             /\ Pos(s) = 4 * Last - 1
  <2> DEFINE q == node[s].pkg
  <2>1. Pos(s) = 4 * Before + 3 /\ node[s].cur = Before
    BY <1>3, <1>5, <1>7, <1>8, Sizes
  <2>2. Nears(s) /\ node[s].last = Before
    BY <1>2, <1>3, <1>8, <2>1, Sizes DEF Nears, InTime, Timely
  <2>3. q \in Pkg /\ box[q] = 4 * Before + 3 /\ box'[q] # box[q]
    BY <1>3, <1>5, <1>8, <2>1, Sizes
  <2>4. Under(q) = {Before}
    BY <2>3, UnderIs, Sizes
  <2>5. motor[Before] = TRUE
    BY <1>1, <2>3, <2>4
  <2>6. ~node[s].nextstat
    BY <1>1, <1>2, <2>1, <2>2, <2>5 DEF Obeys, Holding
  <2>7. 2 \notin zoneState[Last]
    BY <1>2, <2>2, <2>6 DEF Heeds, Heeding
  <2>8. \A t \in Slot : ~Ahead(t)
    BY <1>2, <2>2, NotBoth
  <2>9. \A p \in delivered : box[p] # AtEnd
    BY <1>1, <1>2, <1>8, <2>1, <2>7, Sizes DEF Sensors, EndBlind
  <2> QED
    BY <2>1, <2>6, <2>7, <2>8, <2>9, Sizes
(* A delivered box does not move. *)
<1>9. ASSUME NEW p \in Pkg, ~Carried(p)
      PROVE  box'[p] = box[p]
  <2>1. box[p] \in {AtEnd, Taken, Away}
    BY <1>2, <1>9 DEF Line, Idle
  <2> QED
    BY <1>1, <2>1, Sizes
<1>10. ASSUME NEW p \in Pkg, Carried(p)
       PROVE  \E s \in Slot : /\ Carries(s) /\ node[s].pkg = p
                              /\ Pos(s) = box[p] /\ Pos(s)' = box'[p]
  <2>1. PICK s \in Slot : node[s].pkg = p
    BY <1>10 DEF Carried
  <2> QED
    BY <1>1, <2>1, Numbered DEF Carries, Pos
<1>11. Owners' /\ Alone'
  BY <1>1, <1>2, <1>3 DEF Line, Owners, Alone
<1>12. Idle'
  <2>1. ASSUME NEW p \in Pkg PROVE Carried(p)' = Carried(p)
    BY <1>1 DEF Carried
  <2> QED
    BY <1>1, <1>2, <1>9, <2>1 DEF Line, Idle
<1>13. Places'
  BY <1>2, <1>3, <1>6, <1>7, Sizes DEF Line, Places
<1>14. OneAtEnd'
  <2>1. ASSUME NEW p \in Pkg, box'[p] \in 4 * Last .. AtEnd,
               box[p] \notin 4 * Last .. AtEnd
        PROVE  \E s \in Slot : Behind(s) /\ node[s].pkg = p /\ Pos(s)' >= 4 * Last
    <3>1. Carried(p)
      BY <1>9, <2>1
    <3>2. PICK s \in Slot : /\ Carries(s) /\ node[s].pkg = p
                            /\ Pos(s) = box[p] /\ Pos(s)' = box'[p]
      BY <1>10, <3>1
    <3>3. ~Ahead(s)
      BY <1>6, <2>1, <3>2, Sizes
    <3> QED
      BY <2>1, <3>2, <3>3, AheadOrBehind, Sizes
  <2>2. ASSUME NEW p \in Pkg, NEW q \in Pkg, box'[p] \in 4 * Last .. AtEnd,
               box'[q] \in 4 * Last .. AtEnd, box[p] \notin 4 * Last .. AtEnd
        PROVE  p = q
    <3>1. PICK s \in Slot : Behind(s) /\ node[s].pkg = p /\ Pos(s)' >= 4 * Last
      BY <2>1, <2>2
    <3>2. /\ \A t \in Slot : ~Ahead(t)
          /\ \A r \in delivered : box[r] # AtEnd
      BY <1>8, <3>1
    <3>3. Carried(q)
      <4>1. ASSUME ~Carried(q) PROVE FALSE
        <5>1. box[q] = box'[q]
          BY <1>9, <4>1
        <5>2. q \in delivered /\ box[q] = AtEnd
          BY <1>2, <2>2, <4>1, <5>1, Sizes DEF Line, Idle
        <5> QED
          BY <3>2, <5>2
      <4> QED
        BY <4>1
    <3>4. PICK t \in Slot : Carries(t) /\ node[t].pkg = q
      BY <1>10, <3>3
    <3>5. Behind(t)
      BY <3>2, <3>4, AheadOrBehind
    <3>6. s = t
      BY <1>2, <3>1, <3>5 DEF Line, Alone
    <3> QED
      BY <3>1, <3>4, <3>6
  <2>3. ASSUME NEW p \in Pkg, NEW q \in Pkg, box'[p] \in 4 * Last .. AtEnd,
               box'[q] \in 4 * Last .. AtEnd
        PROVE  p = q
    <3>1. CASE box[p] \notin 4 * Last .. AtEnd
      BY <2>2, <2>3, <3>1
    <3>2. CASE box[q] \notin 4 * Last .. AtEnd
      BY <2>2, <2>3, <3>2
    <3>3. CASE box[p] \in 4 * Last .. AtEnd /\ box[q] \in 4 * Last .. AtEnd
      BY <1>2, <3>3 DEF Line, OneAtEnd
    <3> QED
      BY <3>1, <3>2, <3>3
  <2> QED
    BY <2>3 DEF OneAtEnd
<1>15. Lockstep'
  <2>1. ASSUME NEW s \in Slot, NEW t \in Slot, Ahead(s), Behind(t)
        PROVE  /\ Pos(t)' <= 5
               /\ Pos(s)' < AtEnd => Pos(t)' <= Pos(s)' - 4 * Last + 2
    <3>1. /\ Pos(s) \in 4 * Last .. AtEnd - 1
          /\ Pos(s)' = Pos(s) + 1
      BY <1>6, <2>1
    <3>2. Pos(t) <= 5 /\ Pos(t) <= Pos(s) - 4 * Last + 2
      BY <1>2, <2>1, <3>1, Sizes DEF Line, Lockstep
    <3>3. Pos(t) \in Int /\ (Pos(t)' = Pos(t) \/ Pos(t)' = Pos(t) + 1)
      BY <1>3, <1>5, <2>1
    <3> QED
      BY <3>1, <3>2, <3>3, Sizes
  <2> QED
    BY <1>3, <2>1 DEF Lockstep
<1>16. EntryHeard'
  <2> SUFFICES ASSUME NEW z \in Zone, 1 \in zoneState[z]
               PROVE  \E s \in Slot :
                        Carries(s)' /\ Pos(s)' \in 4 * z .. 4 * z + 2
    BY <1>1, <1>4 DEF EntryHeard
  <2>1. PICK s \in Slot : Carries(s) /\ Pos(s) \in 4 * z .. 4 * z + 1
    <3>1. PICK s \in Slot : /\ Carries(s) /\ Pos(s) \in 4 * z .. 4 * z + 2
                            /\ Pos(s) <= 4 * z + 1
      BY <1>2, <1>4 DEF Sensors, EntryHeard
    <3> QED
      BY <3>1, ZoneIs
  <2> QED
    BY <1>3, <1>5, <2>1, ZoneIs
<1>17. ExitHeard'
  <2> SUFFICES ASSUME NEW z \in Zone \ {Last}, 2 \in zoneState[z]
               PROVE  \E s \in Slot :
                        Carries(s)' /\ Pos(s)' \in 4 * z + 3 .. 4 * z + 5
    BY <1>1, <1>4 DEF ExitHeard
  <2>1. PICK s \in Slot : Carries(s) /\ Pos(s) \in 4 * z + 3 .. 4 * z + 4
    <3>1. PICK s \in Slot : /\ Carries(s) /\ Pos(s) \in 4 * z + 3 .. 4 * z + 5
                            /\ Pos(s) <= 4 * z + 4
      BY <1>2, <1>4 DEF Sensors, ExitHeard
    <3> QED
      BY <3>1, ZoneIs
  <2> QED
    BY <1>3, <1>5, <2>1, ZoneIs
<1>18. EntryTold' /\ EndTold'
  BY <1>4, LastIs DEF EntryTold, EndTold
<1>19. EndHeard'
  <2>1. ASSUME NEW s \in Slot, 2 \in zoneState[Last], Ahead(s) PROVE FALSE
    BY <1>2, <1>6, <2>1, Sizes DEF Sensors, EndHeard
  <2>2. ASSUME NEW s \in Slot, 2 \in zoneState[Last], Behind(s)
        PROVE  Pos(s)' < 4 * Last
    BY <1>3, <1>5, <1>8, <2>2, Sizes
  <2> QED
    BY <1>1, <1>3, <2>1, <2>2 DEF EndHeard
<1>20. EndBlind'
  <2> SUFFICES ASSUME NEW p \in delivered, box'[p] = AtEnd,
                      2 \notin zoneState[Last]
               PROVE  \A t \in Slot : Behind(t)' => Pos(t)' <= 5 \/
                        (Pos(t)' = 6 /\ Last \div 2 \in asked)
    BY <1>1 DEF EndBlind
  <2>1. box[p] = AtEnd
    <3>1. p \in Pkg /\ ~Carried(p)
      BY <1>2 DEF IInv, MasterTyped, Line, Idle
    <3> QED
      BY <1>9, <3>1
  <2>2. Last \div 2 \in asked /\ \A t \in Slot : Behind(t) => Pos(t) <= 5
    BY <1>1, <1>2, <2>1 DEF Sensors, EndBlind
  <2> QED
    BY <1>3, <1>5, <2>2
<1>21. InTime'
  <2>1. ASSUME NEW s \in Slot, Nears(s), Pos(s)' > 4 * Before + 1
        PROVE  node[s].last = Before
    <3>1. Pos(s) > 4 * Before
      BY <1>3, <1>5, <2>1, Sizes
    <3> QED
      BY <1>2, <1>3, <2>1, <3>1 DEF InTime, Timely
  <2> QED
    BY <1>3, <2>1 DEF InTime, Timely
<1>22. Heeds'
  <2>1. ASSUME NEW s \in Slot, Nears(s) PROVE Heeding(s)'
    <3>1. Pos(s)' = 4 * Last => ~node[s].nextstat
      BY <1>3, <1>5, <1>8, <2>1, Sizes
    <3> QED
      BY <1>1, <1>2, <2>1, <3>1 DEF Heeds, Heeding
  <2> QED
    BY <1>3, <2>1 DEF Heeds
<1>23. Line' /\ Sensors'
  BY <1>11, <1>12, <1>13, <1>14, <1>15, <1>16, <1>17, <1>18, <1>19, <1>20
     DEF Line, Sensors
<1> QED
  BY <1>21, <1>22, <1>23
-----------------------------------------------------------------------------
(* How many fresh commands go to a zone.                                   *)
LEMMA RaisedNone ==
  ASSUME NEW cmds \in Seq(SafeCommand), NEW z \in Zone,
         \A k \in 1 .. Len(cmds) : cmds[k].zone # z
  PROVE  Raised(cmds, z) = 0
<1>1. {j \in DOMAIN cmds : cmds[j].zone = z /\ cmds[j].fresh} = {}
  OBVIOUS
<1> QED
  BY <1>1, FS_EmptySet DEF Raised

LEMMA RaisedFirst ==
  ASSUME NEW cmds \in Seq(SafeCommand), NEW z \in Zone,
         NEW k \in 1 .. Len(cmds), cmds[k].zone = z, cmds[k].fresh,
         \A j \in 1 .. k - 1 : cmds[j].zone # z
  PROVE  Raised(SubSeq(cmds, 1, k), z) = 1
<1> DEFINE c == SubSeq(cmds, 1, k)
<1>1. Len(c) = k /\ DOMAIN c = 1 .. k /\ \A j \in 1 .. k : c[j] = cmds[j]
  OBVIOUS
<1>2. {j \in DOMAIN c : c[j].zone = z /\ c[j].fresh} = {k}
  BY <1>1
<1> QED
  BY <1>2, FS_Singleton DEF Raised

LEMMA RaisedLast ==
  ASSUME NEW cmds \in Seq(SafeCommand), NEW z \in Zone,
         NEW k \in 1 .. Len(cmds),
         \A j \in k + 1 .. Len(cmds) : cmds[j].zone # z
  PROVE  Raised(SubSeq(cmds, 1, k), z) = Raised(cmds, z)
<1> DEFINE c == SubSeq(cmds, 1, k)
<1>1. Len(c) = k /\ DOMAIN c = 1 .. k /\ \A j \in 1 .. k : c[j] = cmds[j]
  OBVIOUS
<1>2. DOMAIN cmds = 1 .. Len(cmds) /\ Len(cmds) \in Nat
  OBVIOUS
<1>3. {j \in DOMAIN c : c[j].zone = z /\ c[j].fresh}
        = {j \in DOMAIN cmds : cmds[j].zone = z /\ cmds[j].fresh}
  BY <1>1, <1>2
<1> QED
  BY <1>3 DEF Raised

LEMMA CanqTyped ==
  ASSUME IInv
  PROVE  /\ canq \in Seq(SafeFrame) /\ Len(canq) \in Nat
         /\ \A i \in 1 .. Len(canq) : canq[i] \in SafeFrame
<1>1. canq \in Seq(SafeFrame)
  BY DEF IInv
<1> QED
  BY <1>1

LEMMA Joined ==
  ASSUME NEW S, NEW s \in Seq(S), NEW t \in Seq(S), NEW k \in 1 .. Len(t)
  PROVE  (s \o t)[Len(s) + k] = t[k]
<1>1. /\ Len(s) \in Nat /\ Len(t) \in Nat /\ k \in Nat /\ 1 <= k /\ k <= Len(t)
  OBVIOUS
<1>2. Len(s) + k \in 1 .. Len(s) + Len(t) /\ Len(s) + k > Len(s)
  BY <1>1
<1>3. (Len(s) + k) - Len(s) = k
  BY <1>1
<1> QED
  BY <1>2, <1>3

(* The frames a visit adds.                                                *)
LEMMA SentIs ==
  ASSUME IInv, NEW cmds \in Seq(SafeCommand), Send(cmds)
  PROVE  /\ Len(canq) \in Nat /\ Len(cmds) \in Nat
         /\ Len(canq') = Len(canq) + Len(cmds)
         /\ \A i \in 1 .. Len(canq) : canq'[i] = canq[i]
         /\ \A k \in 1 .. Len(cmds) :
              LET f == canq'[Len(canq) + k]
                  z == cmds[k].zone
              IN  /\ f.zone = z /\ Kind(f) = Kind(cmds[k]) /\ z \in Zone
                  /\ f.frame = (cnt[z] + Raised(SubSeq(cmds, 1, k), z)) % FrameMod
         /\ \A z \in Zone : cnt'[z] = (cnt[z] + Raised(cmds, z)) % FrameMod
<1> DEFINE F == Frames(cmds)
<1>1. canq \in Seq(SafeFrame) /\ F \in Seq(SafeFrame)
  BY FramesIs DEF IInv
<1>2. /\ Len(F) = Len(cmds)
      /\ \A k \in 1 .. Len(cmds) :
           /\ F[k].zone = cmds[k].zone /\ F[k].cmd = cmds[k].cmd
           /\ F[k].type = cmds[k].type
           /\ F[k].frame = (cnt[cmds[k].zone]
                 + Raised(SubSeq(cmds, 1, k), cmds[k].zone)) % FrameMod
  <2>1. DOMAIN F = 1 .. Len(cmds) /\ Len(cmds) \in Nat
    BY DEF Frames
  <2>2. Len(F) = Len(cmds)
    BY <1>1, <2>1
  <2> QED
    BY <2>1, <2>2 DEF Frames
<1>3. canq' = canq \o F
  BY DEF Send
<1> HIDE DEF F
<1>4. /\ Len(canq) \in Nat /\ Len(cmds) \in Nat
      /\ Len(canq') = Len(canq) + Len(cmds)
      /\ \A i \in 1 .. Len(canq) : canq'[i] = canq[i]
      /\ \A k \in 1 .. Len(cmds) : canq'[Len(canq) + k] = F[k]
  <2>1. Len(canq) \in Nat /\ Len(cmds) \in Nat /\ Len(F) = Len(cmds)
    BY <1>1, <1>2
  <2>2. Len(canq') = Len(canq) + Len(cmds)
    <3>1. Len(canq \o F) = Len(canq) + Len(F)
      BY <1>1
    <3> QED
      BY <1>3, <2>1, <3>1
  <2>3. ASSUME NEW i \in 1 .. Len(canq) PROVE canq'[i] = canq[i]
    BY <1>1, <1>3
  <2>4. ASSUME NEW k \in 1 .. Len(cmds) PROVE canq'[Len(canq) + k] = F[k]
    <3>1. k \in 1 .. Len(F)
      BY <2>1
    <3> QED
      BY <1>1, <1>3, <3>1, Joined
  <2> QED
    BY <2>1, <2>2, <2>3, <2>4
<1>5. \A k \in 1 .. Len(cmds) : cmds[k].zone \in Zone
  BY DEF SafeCommand, Commands
<1>6. \A z \in Zone : cnt'[z] = (cnt[z] + Raised(cmds, z)) % FrameMod
  BY DEF Send
<1> QED
  BY <1>2, <1>4, <1>5, <1>6 DEF Kind

LEMMA CountNew ==
  ASSUME NEW c \in 0 .. FrameMod - 1
  PROVE  (c + 1) % FrameMod # c /\ (c + 1) % FrameMod # NoFrame
         /\ (c + 0) % FrameMod = c
<1>1. FrameMod \in Nat /\ FrameMod > 1 /\ c \in Int /\ 0 <= c /\ c < FrameMod
  BY Numbered
<1>2. (c + 0) % FrameMod = c
  BY <1>1
<1>3. CASE c + 1 = FrameMod
  <2>1. FrameMod % FrameMod = 0
    BY <1>1
  <2> QED
    BY <1>1, <1>2, <1>3, <2>1 DEF NoFrame
<1>4. CASE c + 1 < FrameMod
  <2>1. (c + 1) % FrameMod = c + 1
    BY <1>1, <1>4
  <2> QED
    BY <1>1, <1>2, <2>1 DEF NoFrame
<1> QED
  BY <1>1, <1>3, <1>4

(* All commands to zone z are of a kind in T; the first of them is fresh.  *)
Only(cmds, z, T) ==
  \A k \in 1 .. Len(cmds) : cmds[k].zone = z => Kind(cmds[k]) \in T

Opens(cmds, z) ==
  \E k \in 1 .. Len(cmds) : /\ cmds[k].zone = z /\ cmds[k].fresh
                            /\ \A j \in 1 .. k - 1 : cmds[j].zone # z

LEMMA SentOnly ==
  ASSUME IInv, NEW cmds \in Seq(SafeCommand), Send(cmds), NEW z, NEW T,
         Only(canq, z, T), Only(cmds, z, T)
  PROVE  Only(canq, z, T)'
<1>0. PICK Q \in Nat : Q = Len(canq)
  BY CanqTyped
<1>1. /\ Len(cmds) \in Nat /\ Len(canq') = Q + Len(cmds)
      /\ \A i \in 1 .. Q : canq'[i] = canq[i]
      /\ \A k \in 1 .. Len(cmds) : /\ canq'[Q + k].zone = cmds[k].zone
                                   /\ Kind(canq'[Q + k]) = Kind(cmds[k])
  BY <1>0, SentIs
<1>2. ASSUME NEW i \in 1 .. Q + Len(cmds), canq'[i].zone = z
      PROVE  Kind(canq'[i]) \in T
  <2>1. CASE i <= Q
    <3>1. i \in 1 .. Q /\ canq'[i] = canq[i]
      BY <1>1, <2>1
    <3> QED
      BY <1>0, <1>2, <3>1 DEF Only
  <2>2. CASE i > Q
    <3>1. PICK k \in 1 .. Len(cmds) : i = Q + k
      <4>1. i - Q \in 1 .. Len(cmds) /\ i = Q + (i - Q)
        BY <1>1, <2>2
      <4> QED
        BY <4>1
    <3> QED
      BY <1>1, <1>2, <3>1 DEF Only
  <2> QED
    BY <2>1, <2>2
<1> QED
  BY <1>0, <1>1, <1>2 DEF Only, Kind

LEMMA SentNumbers ==
  ASSUME IInv, NEW cmds \in Seq(SafeCommand), Send(cmds), Numbers,
         UNCHANGED lastFrame
  PROVE  Numbers'
<1>0. PICK Q \in Nat : Q = Len(canq)
  BY CanqTyped
<1>1. /\ Q \in Nat /\ Len(cmds) \in Nat
      /\ Len(canq') = Q + Len(cmds)
      /\ \A i \in 1 .. Q : canq'[i] = canq[i]
      /\ \A k \in 1 .. Len(cmds) :
           LET f == canq'[Q + k]
               z == cmds[k].zone
           IN  /\ f.zone = z /\ z \in Zone
               /\ f.frame = (cnt[z] + Raised(SubSeq(cmds, 1, k), z)) % FrameMod
      /\ \A z \in Zone : cnt'[z] = (cnt[z] + Raised(cmds, z)) % FrameMod
  BY <1>0, SentIs
<1> SUFFICES ASSUME NEW z \in Zone, NEW j \in 0 .. Q + Len(cmds),
                    Latest(z, j, Q + Len(cmds) + 1)'
             PROVE  \/ Number(z, j)' = cnt'[z]
                    \/ j = 0 /\ lastFrame'[z] = NoFrame
  BY <1>1 DEF Numbers
<1>2. /\ j # 0 => canq'[j].zone = z
      /\ \A k \in 1 .. Q + Len(cmds) : k > j => canq'[k].zone # z
  BY <1>1 DEF Latest
<1>3. CASE j > Q
  <2> DEFINE k == j - Q
  <2>1. k \in 1 .. Len(cmds) /\ j = Q + k
    BY <1>1, <1>3
  <2>2. cmds[k].zone = z /\ \A i \in k + 1 .. Len(cmds) : cmds[i].zone # z
    <3>1. ASSUME NEW i \in k + 1 .. Len(cmds) PROVE cmds[i].zone # z
      <4>1. i \in 1 .. Len(cmds) /\ Q + i \in 1 .. Q + Len(cmds) /\ Q + i > j
        BY <1>1, <1>3
      <4> QED
        BY <1>1, <1>2, <4>1
    <3>2. cmds[k].zone = z
      BY <1>1, <1>2, <2>1
    <3> QED
      BY <3>1, <3>2
  <2> HIDE DEF k
  <2>3. Raised(SubSeq(cmds, 1, k), z) = Raised(cmds, z)
    BY <2>1, <2>2, RaisedLast
  <2>4. canq'[j].frame = cnt'[z]
    BY <1>1, <2>1, <2>2, <2>3
  <2> QED
    BY <1>1, <1>3, <2>4 DEF Number
<1>4. CASE j <= Q
  <2>1. ASSUME NEW k \in 1 .. Len(cmds) PROVE cmds[k].zone # z
    <3>1. Q + k \in 1 .. Q + Len(cmds) /\ Q + k > j
      BY <1>1, <1>4
    <3> QED
      BY <1>1, <1>2, <3>1
  <2>2. Raised(cmds, z) = 0
    BY <2>1, RaisedNone
  <2>3. cnt'[z] = cnt[z]
    BY <1>1, <2>2, CountNew DEF IInv, MasterTyped
  <2>4. Latest(z, j, Q + 1)
    BY <1>1, <1>2, <1>4 DEF Latest
  <2>5. Number(z, j) = cnt[z] \/ (j = 0 /\ lastFrame[z] = NoFrame)
    BY <1>0, <1>4, <2>4 DEF Numbers
  <2>6. Number(z, j)' = Number(z, j)
    BY <1>1, <1>4 DEF Number
  <2> QED
    BY <2>3, <2>5, <2>6
<1> QED
  BY <1>1, <1>3, <1>4

LEMMA SentKeeps ==
  ASSUME IInv, NEW cmds \in Seq(SafeCommand), Send(cmds), NEW z, NEW T,
         Only(cmds, z, T), UNCHANGED <<belt, lastFrame>>
  PROVE  (Ends(z, T) => Ends(z, T)') /\ (Runs(z, T) => Runs(z, T)')
<1>0. PICK Q \in Nat : Q = Len(canq)
  BY CanqTyped
<1>1. /\ Q \in Nat /\ Len(cmds) \in Nat
      /\ Len(canq') = Q + Len(cmds)
      /\ \A i \in 1 .. Q : canq'[i] = canq[i]
      /\ \A k \in 1 .. Len(cmds) :
           canq'[Q + k].zone = cmds[k].zone /\ Kind(canq'[Q + k]) = Kind(cmds[k])
  BY <1>0, SentIs
<1>2. ASSUME NEW i \in 0 .. Q, From(z, T, i)
      PROVE  From(z, T, i)'
  <2>1. i = 0 => State(z)' \in T
    BY <1>2 DEF From, State
  <2>2. ASSUME i # 0
        PROVE  /\ canq'[i].zone = z
               /\ \A j \in 0 .. i - 1 : Latest(z, j, i)' =>
                                          Number(z, j)' # canq'[i].frame
    <3>1. i \in 1 .. Q /\ canq'[i] = canq[i]
      BY <1>1, <2>2
    <3>2. ASSUME NEW j \in 0 .. i - 1
          PROVE  /\ Latest(z, j, i)' => Latest(z, j, i)
                 /\ Number(z, j)' = Number(z, j)
      <4>1. j = 0 \/ (j \in 1 .. Q /\ canq'[j] = canq[j])
        BY <1>1, <3>1
      <4>2. \A k \in 1 .. i - 1 : canq'[k] = canq[k]
        BY <1>1, <3>1
      <4> QED
        BY <4>1, <4>2 DEF Latest, Number
    <3> QED
      BY <1>2, <2>2, <3>1, <3>2 DEF From
  <2>3. ASSUME NEW k \in 1 .. Len(canq'), k >= i, canq'[k].zone = z
        PROVE  Kind(canq'[k]) \in T
    <3>1. CASE k <= Q
      <4>1. k \in 1 .. Q /\ canq'[k] = canq[k]
        BY <1>1, <3>1
      <4> QED
        BY <1>0, <1>2, <2>3, <4>1 DEF From
    <3>2. CASE k > Q
      <4> DEFINE h == k - Q
      <4>1. h \in 1 .. Len(cmds) /\ k = Q + h
        BY <1>1, <3>2
      <4> QED
        BY <1>1, <2>3, <4>1 DEF Only
    <3> QED
      BY <1>1, <3>1, <3>2
  <2> QED
    BY <2>1, <2>2, <2>3 DEF From
<1>3. 0 \in 0 .. Q /\ \A i \in 0 .. Q : i \in 0 .. Len(canq')
  BY <1>1
<1> QED
  BY <1>0, <1>2, <1>3 DEF Ends, Runs

LEMMA SentOpens ==
  ASSUME IInv, NEW cmds \in Seq(SafeCommand), Send(cmds), NEW z \in Zone, NEW T,
         Only(cmds, z, T), Opens(cmds, z), Numbers, UNCHANGED <<belt, lastFrame>>
  PROVE  Ends(z, T)'
<1>0. PICK Q \in Nat : Q = Len(canq)
  BY CanqTyped
<1>1. /\ Q \in Nat /\ Len(cmds) \in Nat
      /\ Len(canq') = Q + Len(cmds)
      /\ \A i \in 1 .. Q : canq'[i] = canq[i]
      /\ \A k \in 1 .. Len(cmds) :
           LET f == canq'[Q + k]
               y == cmds[k].zone
           IN  /\ f.zone = y /\ Kind(f) = Kind(cmds[k])
               /\ f.frame = (cnt[y] + Raised(SubSeq(cmds, 1, k), y)) % FrameMod
  BY <1>0, SentIs
<1>2. PICK k \in 1 .. Len(cmds) : /\ cmds[k].zone = z /\ cmds[k].fresh
                                  /\ \A j \in 1 .. k - 1 : cmds[j].zone # z
  BY DEF Opens
<1>3. Raised(SubSeq(cmds, 1, k), z) = 1
  BY <1>2, RaisedFirst
<1>4. cnt[z] \in 0 .. FrameMod - 1
  BY DEF IInv, MasterTyped
<1> DEFINE i == Q + k
<1>5. i \in 1 .. Len(canq') /\ i \in Int /\ Q \in Int /\ k >= 1
  BY <1>1
<1>6. /\ canq'[i].zone = z /\ canq'[i].frame # cnt[z]
      /\ canq'[i].frame # NoFrame
  BY <1>1, <1>2, <1>3, <1>4, CountNew
<1>7. ASSUME NEW j \in 0 .. i - 1, Latest(z, j, i)'
      PROVE  Number(z, j)' # canq'[i].frame
  <2>1. /\ j # 0 => canq'[j].zone = z
        /\ \A h \in 1 .. i - 1 : h > j => canq'[h].zone # z
    BY <1>7 DEF Latest
  <2>2. j <= Q
    <3>1. ASSUME j > Q PROVE FALSE
      <4> DEFINE h == j - Q
      <4>1. h \in 1 .. k - 1 /\ h \in 1 .. Len(cmds) /\ j = Q + h
        BY <1>1, <1>5, <3>1
      <4>2. canq'[j].zone = cmds[h].zone
        BY <1>1, <4>1
      <4> QED
        BY <1>2, <1>5, <2>1, <3>1, <4>1, <4>2
    <3> QED
      BY <1>5, <3>1
  <2>3. Latest(z, j, Q + 1)
    <3>1. j # 0 => canq[j].zone = z
      BY <1>1, <2>1, <2>2
    <3>2. ASSUME NEW h \in 1 .. Q, h > j PROVE canq[h].zone # z
      <4>1. h \in 1 .. i - 1 /\ canq'[h] = canq[h]
        BY <1>1, <1>5
      <4> QED
        BY <2>1, <3>2, <4>1
    <3> QED
      BY <1>5, <3>1, <3>2 DEF Latest
  <2>4. j \in 0 .. Q
    BY <1>5, <2>2
  <2>5. Number(z, j) = cnt[z] \/ (j = 0 /\ lastFrame[z] = NoFrame)
    BY <1>0, <2>3, <2>4 DEF Numbers
  <2>6. Number(z, j)' = Number(z, j)
    BY <1>1, <2>4 DEF Number
  <2>7. Number(z, j) = cnt[z] \/ Number(z, j) = NoFrame
    BY <2>5 DEF Number
  <2> QED
    BY <1>6, <2>6, <2>7
<1>8. ASSUME NEW h \in 1 .. Len(canq'), h >= i, canq'[h].zone = z
      PROVE  Kind(canq'[h]) \in T
  <2> DEFINE g == h - Q
  <2>1. g \in 1 .. Len(cmds) /\ h = Q + g
    BY <1>1, <1>5, <1>8
  <2> QED
    BY <1>1, <1>8, <2>1 DEF Only
<1>9. From(z, T, i)'
  BY <1>5, <1>6, <1>7, <1>8 DEF From
<1> QED
  BY <1>1, <1>5, <1>9 DEF Ends
-----------------------------------------------------------------------------
(* A frame that is received: what the others end in stays the same.        *)
LEMMA ReceivedIs ==
  ASSUME IInv, Numbers, BeltsAhead, RecvStartCmd
  PROVE  /\ Numbers' /\ BeltsAhead'
         /\ \A z \in Zone : \A T : /\ Ends(z, T) => Ends(z, T)'
                                   /\ Runs(z, T) => Runs(z, T)'
<1>0. PICK Q \in Nat : Q = Len(canq)
  BY CanqTyped
<1>1. PICK f \in SafeFrame : f = Head(canq)
  BY LineSteps DEF RecvStartCmd
<1>2. f.zone \in Zone /\ f.dir = "BACK_TOAHEAD" /\ f.frame \in 0 .. FrameMod - 1
  BY DEF SafeFrame, Frame, Safe
<1>3. /\ Q >= 1 /\ canq[1] = f /\ Len(canq') = Q - 1
      /\ \A i \in 1 .. Q - 1 : canq'[i] = canq[i + 1]
  <2>1. canq \in Seq(SafeFrame) /\ canq # <<>> /\ canq' = Tail(canq)
    BY CanqTyped DEF RecvStartCmd
  <2>2. Q >= 1 /\ canq[1] = f
    BY <1>0, <1>1, <2>1
  <2>3. Len(Tail(canq)) = Q - 1 /\ \A i \in 1 .. Q - 1 : Tail(canq)[i] = canq[i + 1]
    BY <1>0, <2>1
  <2> QED
    BY <2>1, <2>2, <2>3
<1>4. /\ UNCHANGED cnt
      /\ \/ f.frame = lastFrame[f.zone] /\ UNCHANGED <<belt, lastFrame>>
         \/ /\ f.frame # lastFrame[f.zone]
            /\ lastFrame' = [lastFrame EXCEPT ![f.zone] = f.frame]
            /\ belt' = [belt EXCEPT ![f.zone] =
                          [status |-> f.cmd, type |-> f.type, dir |-> f.dir]]
  BY <1>1 DEF RecvStartCmd, masterVars
<1>5. /\ lastFrame'[f.zone] = f.frame
      /\ \A z \in Zone \ {f.zone} : /\ lastFrame'[z] = lastFrame[z]
                                    /\ belt'[z] = belt[z]
      /\ \/ belt'[f.zone] = belt[f.zone] /\ f.frame = lastFrame[f.zone]
         \/ /\ belt'[f.zone].status = f.cmd /\ belt'[f.zone].type = f.type
            /\ belt'[f.zone].dir = f.dir
  BY <1>2, <1>4 DEF IInv, LineTyped
<1>6. /\ State(f.zone)' = State(f.zone) \/ State(f.zone)' = Kind(f)
      /\ f.frame # lastFrame[f.zone] => State(f.zone)' = Kind(f)
      /\ \A z \in Zone \ {f.zone} : State(z)' = State(z)
  <2>1. belt'[f.zone] = belt[f.zone] => State(f.zone)' = State(f.zone)
    BY DEF State
  <2>2. belt'[f.zone].status = f.cmd /\ belt'[f.zone].type = f.type
          => State(f.zone)' = Kind(f)
    BY DEF State, Kind
  <2>3. \A z \in Zone \ {f.zone} : State(z)' = State(z)
    BY <1>5 DEF State
  <2> QED
    BY <1>5, <2>1, <2>2, <2>3
<1>7. BeltsAhead'
  <2>1. ASSUME NEW z \in Zone, belt'[z].status # "default"
        PROVE  belt'[z].dir = "BACK_TOAHEAD"
    BY <1>2, <1>5, <2>1 DEF BeltsAhead
  <2> QED
    BY <2>1 DEF BeltsAhead
<1>8. ASSUME NEW z \in Zone, NEW i \in 1 .. Q, NEW j \in 0 .. i - 1,
             Latest(z, j, i)'
      PROVE  \E h \in 0 .. i : /\ Latest(z, h, i + 1)
                               /\ Number(z, h) = Number(z, j)'
                               /\ h = 0 => j = 0
  <2>1. /\ j # 0 => canq'[j].zone = z
        /\ \A k \in 1 .. i - 1 : k > j => canq'[k].zone # z
    BY <1>8 DEF Latest
  <2>2. ASSUME NEW k \in 1 .. i, k > j + 1 PROVE canq[k].zone # z
    <3>1. k - 1 \in 1 .. Q - 1 /\ k - 1 \in 1 .. i - 1 /\ k - 1 > j /\ k - 1 + 1 = k
      BY <1>3, <2>2
    <3>2. canq'[k - 1] = canq[k]
      BY <1>3, <3>1
    <3> QED
      BY <2>1, <3>1, <3>2
  <2>3. CASE j # 0
    <3>1. j \in 1 .. Q - 1 /\ canq'[j] = canq[j + 1]
      BY <1>3, <2>3
    <3>2. Latest(z, j + 1, i + 1)
      BY <2>1, <2>2, <2>3, <3>1 DEF Latest
    <3>3. Number(z, j + 1) = Number(z, j)' /\ j + 1 \in 0 .. i /\ j + 1 # 0
      BY <2>3, <3>1 DEF Number
    <3> QED
      BY <3>2, <3>3
  <2>4. CASE j = 0 /\ f.zone = z
    <3>1. Latest(z, 1, i + 1)
      BY <1>3, <2>2, <2>4 DEF Latest
    <3>2. Number(z, 1) = Number(z, j)'
      BY <1>3, <1>5, <2>4 DEF Number
    <3>3. 1 \in 0 .. i /\ 1 # 0
      OBVIOUS
    <3> QED
      BY <3>1, <3>2, <3>3
  <2>5. CASE j = 0 /\ f.zone # z
    <3>1. ASSUME NEW k \in 1 .. i, k > 0 PROVE canq[k].zone # z
      <4>1. CASE k = 1
        BY <1>3, <2>5, <4>1
      <4>2. CASE k # 1
        BY <2>2, <2>5, <4>2
      <4> QED
        BY <4>1, <4>2
    <3>2. Latest(z, 0, i + 1)
      BY <3>1 DEF Latest
    <3>3. Number(z, 0) = Number(z, j)' /\ 0 \in 0 .. i
      BY <1>5, <2>5 DEF Number
    <3> QED
      BY <2>5, <3>2, <3>3
  <2> QED
    BY <2>3, <2>4, <2>5
<1>9. Numbers'
  <2> SUFFICES ASSUME NEW z \in Zone, NEW j \in 0 .. Q - 1, Latest(z, j, Q)'
               PROVE  \/ Number(z, j)' = cnt'[z]
                      \/ j = 0 /\ lastFrame'[z] = NoFrame
    BY <1>3 DEF Numbers
  <2>1. PICK h \in 0 .. Q : /\ Latest(z, h, Q + 1)
                            /\ Number(z, h) = Number(z, j)'
                            /\ h = 0 => j = 0
    BY <1>3, <1>8
  <2>2. Number(z, h) = cnt[z] \/ (h = 0 /\ lastFrame[z] = NoFrame)
    BY <1>0, <2>1 DEF Numbers
  <2>3. CASE Number(z, h) = cnt[z]
    BY <1>4, <2>1, <2>3
  <2>4. CASE h = 0 /\ lastFrame[z] = NoFrame
    BY <2>1, <2>4 DEF Number
  <2> QED
    BY <2>2, <2>3, <2>4
<1>10. ASSUME NEW z \in Zone, NEW T, NEW i \in 0 .. Q, From(z, T, i)
       PROVE  IF i = 0 THEN From(z, T, 0)' ELSE From(z, T, i - 1)'
  <2>1. /\ i = 0 => State(z) \in T
        /\ i # 0 => /\ canq[i].zone = z
                    /\ \A j \in 0 .. i - 1 : Latest(z, j, i) =>
                                               Number(z, j) # canq[i].frame
        /\ \A k \in 1 .. Q : k >= i /\ canq[k].zone = z
                               => Kind(canq[k]) \in T
    BY <1>0, <1>10 DEF From
  <2>2. ASSUME NEW k \in 1 .. Q - 1, k >= i - 1, canq'[k].zone = z
        PROVE  Kind(canq'[k]) \in T
    <3>1. canq'[k] = canq[k + 1] /\ k + 1 \in 1 .. Q /\ k + 1 >= i
      BY <1>3, <2>2
    <3> QED
      BY <2>1, <2>2, <3>1
  <2>3. CASE i = 0
    <3>1. State(z)' \in T
      <4>1. CASE z = f.zone
        <5>1. Kind(f) \in T
          BY <1>3, <2>1, <2>3, <4>1
        <5> QED
          BY <1>6, <2>1, <2>3, <4>1, <5>1
      <4>2. CASE z # f.zone
        BY <1>6, <2>1, <2>3, <4>2
      <4> QED
        BY <4>1, <4>2
    <3> QED
      BY <1>3, <2>2, <2>3, <3>1 DEF From
  <2>4. CASE i = 1
    <3>1. z = f.zone /\ Kind(f) \in T
      BY <1>3, <2>1, <2>4
    <3>2. Latest(z, 0, 1)
      BY DEF Latest
    <3>3. f.frame # lastFrame[z]
      BY <1>3, <2>1, <2>4, <3>2 DEF Number
    <3>4. State(z)' \in T
      BY <1>6, <3>1, <3>3
    <3> QED
      BY <1>3, <2>2, <2>4, <3>4 DEF From
  <2>5. CASE i > 1
    <3>1. i - 1 \in 1 .. Q - 1 /\ canq'[i - 1] = canq[i] /\ i - 1 # 0
      BY <1>3, <2>5
    <3>2. ASSUME NEW j \in 0 .. (i - 1) - 1, Latest(z, j, i - 1)'
          PROVE  Number(z, j)' # canq'[i - 1].frame
      <4>1. PICK h \in 0 .. i - 1 : /\ Latest(z, h, (i - 1) + 1)
                                    /\ Number(z, h) = Number(z, j)'
        BY <1>8, <3>1, <3>2
      <4> QED
        BY <2>1, <2>5, <3>1, <4>1
    <3> QED
      BY <1>3, <2>1, <2>2, <2>5, <3>1, <3>2 DEF From
  <2> QED
    BY <2>3, <2>4, <2>5
<1>11. ASSUME NEW z \in Zone, NEW T, Ends(z, T) PROVE Ends(z, T)'
  <2>1. PICK i \in 0 .. Q : From(z, T, i)
    BY <1>0, <1>11 DEF Ends
  <2>2. CASE i = 0
    BY <1>3, <1>10, <2>1, <2>2 DEF Ends
  <2>3. CASE i # 0
    <3>1. From(z, T, i - 1)' /\ i - 1 \in 0 .. Q - 1
      BY <1>10, <2>1, <2>3
    <3> QED
      BY <1>3, <3>1 DEF Ends
  <2> QED
    BY <2>2, <2>3
<1>12. ASSUME NEW z \in Zone, NEW T, Runs(z, T) PROVE Runs(z, T)'
  <2>1. From(z, T, 0) /\ 0 \in 0 .. Q
    BY <1>12 DEF Runs
  <2> QED
    BY <1>10, <2>1 DEF Runs
<1> QED
  BY <1>7, <1>9, <1>11, <1>12
-----------------------------------------------------------------------------
(* What the belts obey, step by step.                                      *)
LEMMA RecvStartCmdObeyed ==
  ASSUME OneAtATime, IInv, OInv, RecvStartCmd
  PROVE  OInv'
<1>1. /\ UNCHANGED <<node, at, zoneState, delivered, motor, box, asked, passes,
                     hold>>
  BY DEF RecvStartCmd, masterVars, timeVars
<1>2. Line' /\ Sensors' /\ InTime' /\ Heeds'
  BY <1>1, LineSame, SensorsSame, InTimeSame, HeedsSame DEF OInv
<1>3. /\ Numbers' /\ BeltsAhead'
      /\ \A z \in Zone : \A T : /\ Ends(z, T) => Ends(z, T)'
                                /\ Runs(z, T) => Runs(z, T)'
  BY ReceivedIs DEF OInv
<1>4. Before \in Zone /\ Last \in Zone
  BY Sizes, ZoneIs
<1>5. ASSUME NEW s \in Slot
      PROVE  /\ Ahead(s)' = Ahead(s) /\ Nears(s)' = Nears(s)
             /\ Pos(s)' = Pos(s) /\ node'[s] = node[s]
  BY <1>1, SlotSame
<1>6. Obeys'
  BY <1>1, <1>3, <1>4, <1>5 DEF OInv, Obeys, Holding, Passing, Carrying
<1> QED
  BY <1>2, <1>3, <1>6 DEF OInv

(* A belt told at most to run up to its sensor stands under a box on it.   *)
LEMMA HeldStill ==
  ASSUME OneAtATime, IInv, OInv, NEW s \in Slot, Carries(s),
         Pos(s) = 4 * Before + 3, State(Before) \in Tame, ~Triggered(Before)
  PROVE  Applied(Before) = FALSE
<1>1. Before \in Zone /\ Before # Last
  BY Sizes, ZoneIs
<1>2. 2 \in Covered(Before)
  <2>1. node[s].pkg \in Pkg /\ box[node[s].pkg] = 4 * Before + 3
    BY Typed DEF Pos
  <2>2. 4 * Before + 3 \in 4 * Before + 3 .. 4 * Before + 4
    BY Sizes
  <2> QED
    BY <1>1, <2>1, <2>2, CoveredIs
<1>3. belt[Before].status = "run" => belt[Before].type = "trigstop"
  BY DEF State, Tame
<1>4. belt[Before].status = "run" => belt[Before].dir = "BACK_TOAHEAD"
  BY <1>1 DEF OInv, BeltsAhead
<1>5. belt[Before].status # "run"
  BY <1>2, <1>3, <1>4 DEF Triggered
<1>6. belt[Before].status = "default" => motor[Before] = FALSE
  BY <1>1 DEF IInv, BeltsSafe
<1> QED
  BY <1>5, <1>6 DEF Applied

(* A belt told to run does.                                                *)
LEMMA RunsOn ==
  ASSUME NEW z \in Zone, State(z) \in Go \cup UpTo
  PROVE  Applied(z) = TRUE
<1>1. belt[z].status = "run"
  BY DEF State, Go, UpTo
<1> QED
  BY <1>1 DEF Applied

LEMMA TriggerStopObeyed ==
  ASSUME OneAtATime, IInv, OInv, NEW z \in Zone, TriggerStop(z)
  PROVE  OInv'
<1>1. /\ belt[z].type = "trigstop" /\ belt[z].status = "run"
      /\ belt' = [belt EXCEPT ![z].status = "stop", ![z].type = "continue"]
      /\ motor' = [motor EXCEPT ![z] = FALSE]
      /\ UNCHANGED <<node, at, zoneState, delivered, cnt, canq, lastFrame, box,
                     asked, passes, hold>>
  BY DEF TriggerStop, Triggered, masterVars, timeVars
<1>2. Line' /\ Sensors' /\ InTime' /\ Heeds'
  BY <1>1, LineSame, SensorsSame, InTimeSame, HeedsSame DEF OInv
<1>3. /\ belt'[z].status = "stop" /\ belt'[z].type = "continue"
      /\ belt'[z].dir = belt[z].dir /\ motor'[z] = FALSE
      /\ \A y \in Zone \ {z} : belt'[y] = belt[y] /\ motor'[y] = motor[y]
  BY <1>1 DEF IInv, LineTyped, Belt
<1>4. Numbers'
  BY <1>1 DEF OInv, Numbers, Latest, Number
<1>5. BeltsAhead'
  BY <1>1, <1>3 DEF OInv, BeltsAhead
<1>6. Before \in Zone /\ Last \in Zone /\ Before # Last
  BY Sizes, ZoneIs
<1>7. ASSUME NEW s \in Slot
      PROVE  /\ Ahead(s)' = Ahead(s) /\ Nears(s)' = Nears(s)
             /\ Pos(s)' = Pos(s) /\ node'[s] = node[s]
  BY <1>1, SlotSame
<1>8. State(z) = <<"run", "trigstop">> /\ State(z)' = <<"stop", "continue">>
  BY <1>1, <1>3 DEF State
<1>9. ASSUME NEW y \in Zone, NEW T, NEW i, From(y, T, i),
             y # z \/ T = Tame \/ T = Go
      PROVE  From(y, T, i)'
  <2>1. i = 0 => State(y)' \in T
    <3>1. CASE y # z
      BY <1>3, <1>9, <3>1 DEF From, State
    <3>2. CASE y = z /\ T = Tame
      BY <1>8, <3>2 DEF Tame
    <3>3. CASE y = z /\ T = Go
      BY <1>8, <1>9, <3>3 DEF From, Go
    <3> QED
      BY <1>9, <3>1, <3>2, <3>3
  <2> QED
    BY <1>1, <1>9, <2>1 DEF From, Latest, Number
<1>10. ASSUME NEW y \in Zone, NEW T, y # z \/ T = Tame \/ T = Go
       PROVE  (Ends(y, T) => Ends(y, T)') /\ (Runs(y, T) => Runs(y, T)')
  BY <1>1, <1>9, <1>10 DEF Ends, Runs
<1>11. z = Last => \E p \in Pkg : box[p] = AtEnd
  <2>1. ASSUME z = Last PROVE \E p \in Pkg : box[p] = AtEnd
    <3>1. belt[Last].dir = "BACK_TOAHEAD" /\ Triggered(Last)
      BY <1>1, <2>1 DEF TriggerStop, IInv, BeltsSafe
    <3>2. 2 \in Covered(Last)
      BY <3>1 DEF Triggered
    <3> QED
      BY <1>6, <3>2, CoveredIs
  <2> QED
    BY <2>1
<1>12. ASSUME NEW s \in Slot, z = Last, Nears(s), node[s].last = Before
       PROVE  node[s].nextstat
  BY <1>11, <1>12, EndTakenIs DEF OInv, Heeds, Heeding
<1>13. ASSUME NEW s \in Slot, z = Last, Ahead(s)
       PROVE  ~(Pos(s) < AtEnd)
  BY <1>11, <1>13, EndTakenIs, Sizes
<1>14. ASSUME NEW s \in Slot, Nears(s), node[s].last = Before, node[s].nextstat
       PROVE  Holding(s)'
  <2>1. Holding(s)
    BY <1>14 DEF OInv, Obeys
  <2> QED
    BY <1>1, <1>3, <1>6, <1>7, <1>10, <2>1 DEF Holding
<1>15. ASSUME NEW s \in Slot, Nears(s), node[s].last = Before,
              ~node[s].nextstat
       PROVE  Passing'
  <2>1. Passing /\ z # Last
    BY <1>12, <1>15 DEF OInv, Obeys
  <2> QED
    BY <1>6, <1>10, <2>1 DEF Passing
<1>16. ASSUME NEW s \in Slot, Ahead(s), Pos(s) < AtEnd
       PROVE  Carrying(s)'
  <2>1. Carrying(s) /\ z # Last
    BY <1>13, <1>16 DEF OInv, Obeys
  <2>2. Runs(Before, Go) => z # Before
    BY <1>8 DEF Runs, From, Go
  <2> QED
    BY <1>1, <1>3, <1>6, <1>7, <1>10, <2>1, <2>2 DEF Carrying
<1>17. Obeys'
  BY <1>7, <1>14, <1>15, <1>16 DEF Obeys
<1> QED
  BY <1>2, <1>4, <1>5, <1>17 DEF OInv

LEMMA ApplyMotorObeyed ==
  ASSUME OneAtATime, IInv, OInv, NEW z \in Zone, ApplyMotor(z)
  PROVE  OInv'
<1>1. /\ ~Triggered(z)
      /\ motor' = [motor EXCEPT ![z] = Applied(z)]
      /\ UNCHANGED <<node, at, zoneState, delivered, cnt, canq, belt, lastFrame,
                     box, asked, passes, hold>>
  BY DEF ApplyMotor, masterVars, timeVars
<1>2. Line' /\ Sensors' /\ InTime' /\ Heeds'
  BY <1>1, LineSame, SensorsSame, InTimeSame, HeedsSame DEF OInv
<1>3. motor'[z] = Applied(z) /\ \A y \in Zone \ {z} : motor'[y] = motor[y]
  BY <1>1 DEF IInv, LineTyped
<1>4. Numbers' /\ BeltsAhead'
  BY <1>1 DEF OInv, Numbers, Latest, Number, BeltsAhead
<1>5. Before \in Zone /\ Last \in Zone
  BY Sizes, ZoneIs
<1>6. ASSUME NEW s \in Slot
      PROVE  /\ Ahead(s)' = Ahead(s) /\ Nears(s)' = Nears(s)
             /\ Carries(s)' = Carries(s)
             /\ Pos(s)' = Pos(s) /\ node'[s] = node[s]
  BY <1>1, SlotSame
<1>7. ASSUME NEW y, NEW T
      PROVE  Ends(y, T)' = Ends(y, T) /\ Runs(y, T)' = Runs(y, T)
  BY <1>1 DEF Ends, Runs, From, Latest, Number, State
<1>8. ASSUME NEW s \in Slot, Nears(s), Holding(s)
      PROVE  Holding(s)'
  <2>1. ASSUME Pos(s) = 4 * Before + 3, hold < 2
        PROVE  motor'[Before] = FALSE
    <3>1. State(Before) \in Tame /\ motor[Before] = FALSE /\ Carries(s)
      BY <1>8, <2>1 DEF Holding, Runs, From, Nears
    <3>2. CASE z = Before
      BY <1>1, <1>3, <2>1, <3>1, <3>2, HeldStill
    <3>3. CASE z # Before
      BY <1>3, <1>5, <3>1, <3>3
    <3> QED
      BY <3>2, <3>3
  <2> QED
    BY <1>1, <1>6, <1>7, <1>8, <2>1 DEF Holding
<1>9. ASSUME NEW y \in Zone, NEW T \in {Go, UpTo}, Runs(y, T), motor[y] = TRUE
      PROVE  motor'[y] = TRUE
  <2>1. State(y) \in Go \cup UpTo
    BY <1>9 DEF Runs, From
  <2>2. Applied(y) = TRUE
    BY <2>1, RunsOn
  <2> QED
    BY <1>3, <1>9, <2>2
<1>10. ASSUME NEW s \in Slot, Carrying(s) PROVE Carrying(s)'
  BY <1>1, <1>5, <1>6, <1>7, <1>9, <1>10 DEF Carrying
<1>11. Passing' = Passing
  BY <1>7 DEF Passing
<1>12. Obeys'
  BY <1>6, <1>8, <1>10, <1>11 DEF OInv, Obeys
<1> QED
  BY <1>2, <1>4, <1>12 DEF OInv

LEMMA AskObeyed ==
  ASSUME OneAtATime, IInv, OInv, AskModuleState
  PROVE  OInv'
<1>1. /\ canq = <<>>
      /\ \A z \in Zone : ~Triggered(z) /\ motor[z] = Applied(z)
      /\ UNCHANGED <<node, cnt, canq, belt, motor, lastFrame, box>>
  BY DEF AskModuleState, Settled, masterVars, beltVars
<1>2. Line' /\ Sensors' /\ InTime' /\ Heeds'
  BY AskHeard
<1>3. Numbers' /\ BeltsAhead'
  BY <1>1 DEF OInv, Numbers, Latest, Number, BeltsAhead
<1>4. Before \in Zone /\ Last \in Zone
  BY Sizes, ZoneIs
<1>5. ASSUME NEW s \in Slot
      PROVE  /\ Ahead(s)' = Ahead(s) /\ Nears(s)' = Nears(s)
             /\ Pos(s)' = Pos(s) /\ node'[s] = node[s]
  BY <1>1, SlotSame
<1>6. ASSUME NEW y, NEW T
      PROVE  /\ Ends(y, T)' = Ends(y, T) /\ Runs(y, T)' = Runs(y, T)
             /\ Ends(y, T) => Runs(y, T) /\ State(y) \in T
  <2>1. Ends(y, T)' = Ends(y, T) /\ Runs(y, T)' = Runs(y, T)
    BY <1>1 DEF Ends, Runs, From, Latest, Number, State
  <2>2. Len(canq) = 0
    BY <1>1
  <2>3. Ends(y, T) => From(y, T, 0)
    BY <2>2 DEF Ends
  <2> QED
    BY <2>1, <2>3 DEF Runs, From
<1>7. ASSUME NEW s \in Slot, Nears(s), Holding(s)
      PROVE  Holding(s)'
  <2>1. ASSUME Pos(s) = 4 * Before + 3 PROVE motor[Before] = FALSE
    <3>1. State(Before) \in Tame /\ Carries(s)
      BY <1>6, <1>7 DEF Holding, Nears
    <3> QED
      BY <1>1, <1>4, <2>1, <3>1, HeldStill
  <2> QED
    BY <1>1, <1>5, <1>6, <1>7, <2>1 DEF Holding
<1>8. ASSUME NEW y \in Zone, NEW T \in {Go, UpTo}, Ends(y, T)
      PROVE  motor[y] = TRUE
  <2>1. State(y) \in Go \cup UpTo
    BY <1>6, <1>8
  <2> QED
    BY <1>1, <2>1, RunsOn
<1>9. ASSUME NEW s \in Slot, Carrying(s) PROVE Carrying(s)'
  BY <1>1, <1>4, <1>5, <1>6, <1>8, <1>9 DEF Carrying
<1>10. Passing' = Passing
  BY <1>6 DEF Passing
<1>11. Obeys'
  BY <1>5, <1>7, <1>9, <1>10 DEF OInv, Obeys
<1> QED
  BY <1>2, <1>3, <1>11 DEF OInv

LEMMA StatusObeyed ==
  ASSUME OneAtATime, IInv, OInv, NEW b \in Board, ModuleStatus(b)
  PROVE  OInv'
<1>1. UNCHANGED <<node, box, hold, canq, beltVars, cnt>>
  BY DEF ModuleStatus
<1>2. Numbers' /\ BeltsAhead' /\ Obeys'
  BY <1>1, ObeysSame DEF OInv
<1> QED
  BY <1>2, StatusHeard DEF OInv

(* A step of the boxes: those in the last zone keep what carries them.     *)
LEMMA BoxesObeyed ==
  ASSUME OneAtATime, IInv, OInv, UNCHANGED <<cnt, canq, belt, motor, lastFrame>>,
         \A s \in Slot :
           /\ Nears(s)' /\ node'[s].last = Before =>
                /\ Nears(s) /\ node'[s] = node[s]
                /\ hold' = 2 \/ (hold' = hold /\ Pos(s)' = Pos(s))
           /\ Ahead(s)' /\ Pos(s)' < AtEnd =>
                /\ Ahead(s) /\ Pos(s) < AtEnd
                /\ Pos(s)' = 4 * Last => Pos(s) = 4 * Last
                /\ hold' = 2 \/ hold' = hold
  PROVE  Numbers' /\ BeltsAhead' /\ Obeys'
<1>1. Numbers' /\ BeltsAhead'
  BY DEF OInv, Numbers, Latest, Number, BeltsAhead
<1>2. ASSUME NEW y, NEW T
      PROVE  Ends(y, T)' = Ends(y, T) /\ Runs(y, T)' = Runs(y, T)
  BY DEF Ends, Runs, From, Latest, Number, State
<1>3. ASSUME NEW s \in Slot, Nears(s)', node'[s].last = Before
      PROVE  IF node'[s].nextstat THEN Holding(s)' ELSE Passing'
  BY <1>2, <1>3 DEF OInv, Obeys, Holding, Passing
<1>4. ASSUME NEW s \in Slot, Ahead(s)', Pos(s)' < AtEnd
      PROVE  Carrying(s)'
  BY <1>2, <1>4 DEF OInv, Obeys, Carrying
<1> QED
  BY <1>1, <1>3, <1>4 DEF Obeys

LEMMA MoveObeyed ==
  ASSUME OneAtATime, IInv, OInv, Move
  PROVE  OInv'
<1>1. /\ hold' = 2
      /\ UNCHANGED <<node, cnt, canq, belt, motor, lastFrame>>
      /\ \A p \in Pkg : box'[p] = box[p] \/ box'[p] = box[p] + 1
  BY MoveIs
<1>2. ASSUME NEW s \in Slot, Ahead(s), Pos(s)' < AtEnd
      PROVE  /\ Pos(s) < AtEnd
             /\ Pos(s)' = 4 * Last => Pos(s) = 4 * Last
  <2>1. node[s].pkg \in Pkg /\ Pos(s) \in Int /\ Pos(s) >= 4 * Last
    BY <1>2, AheadOrBehind, Typed, LastIs DEF OInv, Line, Places
  <2>2. Pos(s)' = Pos(s) \/ Pos(s)' = Pos(s) + 1
    BY <1>1, <2>1 DEF Pos
  <2> QED
    BY <1>2, <2>1, <2>2, Sizes
<1>3. ASSUME NEW s \in Slot
      PROVE  Ahead(s)' = Ahead(s) /\ Nears(s)' = Nears(s)
  BY <1>1 DEF Ahead, Nears, Carries
<1>4. Numbers' /\ BeltsAhead' /\ Obeys'
  BY <1>1, <1>2, <1>3, BoxesObeyed
<1> QED
  BY <1>4, MoveHeard DEF OInv

LEMMA TakeOffObeyed ==
  ASSUME OneAtATime, IInv, OInv, NEW p \in Pkg, TakeOff(p)
  PROVE  OInv'
<1>1. /\ p \in delivered /\ box' = [box EXCEPT ![p] = Taken]
      /\ UNCHANGED <<node, cnt, canq, belt, motor, lastFrame, hold>>
  BY DEF TakeOff, masterVars, beltVars, timeVars
<1>2. ASSUME NEW s \in Slot
      PROVE  /\ Ahead(s)' = Ahead(s) /\ Nears(s)' = Nears(s)
             /\ node'[s] = node[s]
             /\ Carries(s) => Pos(s)' = Pos(s)
  <2>1. node[s].pkg # p
    BY <1>1 DEF OInv, Line, Idle, Carried
  <2>2. \A q \in Pkg \ {p} : box'[q] = box[q]
    BY <1>1 DEF IInv, LineTyped
  <2>3. Carries(s) => node[s].pkg \in Pkg
    BY Typed
  <2> QED
    BY <1>1, <2>1, <2>2, <2>3 DEF Ahead, Nears, Carries, Pos
<1>3. \A s \in Slot : (Ahead(s) => Carries(s)) /\ (Nears(s) => Carries(s))
  BY DEF Ahead, Nears
<1>4. Numbers' /\ BeltsAhead' /\ Obeys'
  BY <1>1, <1>2, <1>3, BoxesObeyed
<1> QED
  BY <1>4, TakeOffHeard DEF OInv

LEMMA NewPackageObeyed ==
  ASSUME OneAtATime, IInv, OInv, NEW p \in Pkg, RecvPkgTrans(p)
  PROVE  OInv'
<1>1. hold' = 2 /\ UNCHANGED <<cnt, canq, belt, motor, lastFrame>>
  BY DEF RecvPkgTrans, beltVars
<1>2. /\ Line' /\ Sensors' /\ InTime' /\ Heeds'
      /\ \A s \in Slot : /\ ~Nears(s)'
                         /\ Ahead(s)' => Ahead(s) /\ Pos(s)' = Pos(s)
  BY NewPackageHeard
<1>3. Numbers' /\ BeltsAhead' /\ Obeys'
  BY <1>1, <1>2, BoxesObeyed
<1> QED
  BY <1>2, <1>3 DEF OInv
-----------------------------------------------------------------------------
(* What a visit tells a zone, command by command.                          *)
LEMMA OnlyWider ==
  ASSUME NEW cmds, NEW z, Only(cmds, z, {}), NEW T
  PROVE  Only(cmds, z, T)
BY DEF Only

LEMMA OnlyBoth ==
  ASSUME NEW s \in Seq(SafeCommand), NEW t \in Seq(SafeCommand), NEW z, NEW T,
         Only(s, z, T), Only(t, z, T)
  PROVE  Only(s \o t, z, T)
<1>1. /\ Len(s) \in Nat /\ Len(t) \in Nat /\ Len(s \o t) = Len(s) + Len(t)
      /\ \A k \in 1 .. Len(s) : (s \o t)[k] = s[k]
  OBVIOUS
<1>2. ASSUME NEW k \in 1 .. Len(s) + Len(t), (s \o t)[k].zone = z
      PROVE  Kind((s \o t)[k]) \in T
  <2>1. CASE k <= Len(s)
    <3>1. k \in 1 .. Len(s)
      BY <1>1, <2>1
    <3> QED
      BY <1>1, <1>2, <3>1 DEF Only
  <2>2. CASE k > Len(s)
    <3> DEFINE h == k - Len(s)
    <3>1. h \in 1 .. Len(t) /\ k = Len(s) + h
      BY <1>1, <2>2
    <3>2. (s \o t)[Len(s) + h] = t[h]
      BY <3>1, Joined
    <3> QED
      BY <1>2, <3>1, <3>2 DEF Only
  <2> QED
    BY <1>1, <2>1, <2>2
<1> QED
  BY <1>1, <1>2 DEF Only

LEMMA OpensBoth ==
  ASSUME NEW s \in Seq(SafeCommand), NEW t \in Seq(SafeCommand), NEW z,
         Opens(s, z) \/ (Only(s, z, {}) /\ Opens(t, z))
  PROVE  Opens(s \o t, z)
<1>1. /\ Len(s) \in Nat /\ Len(t) \in Nat /\ Len(s \o t) = Len(s) + Len(t)
      /\ \A k \in 1 .. Len(s) : (s \o t)[k] = s[k]
  OBVIOUS
<1>2. CASE Opens(s, z)
  <2>1. PICK k \in 1 .. Len(s) : /\ s[k].zone = z /\ s[k].fresh
                                 /\ \A j \in 1 .. k - 1 : s[j].zone # z
    BY <1>2 DEF Opens
  <2>2. k \in 1 .. Len(s \o t) /\ \A j \in 1 .. k - 1 : j \in 1 .. Len(s)
    BY <1>1
  <2> QED
    BY <1>1, <2>1, <2>2 DEF Opens
<1>3. CASE Only(s, z, {}) /\ Opens(t, z)
  <2>1. PICK k \in 1 .. Len(t) : /\ t[k].zone = z /\ t[k].fresh
                                 /\ \A j \in 1 .. k - 1 : t[j].zone # z
    BY <1>3 DEF Opens
  <2> DEFINE i == Len(s) + k
  <2>2. i \in 1 .. Len(s \o t) /\ (s \o t)[i] = t[k]
    BY <1>1, Joined
  <2>3. ASSUME NEW j \in 1 .. i - 1 PROVE (s \o t)[j].zone # z
    <3>1. CASE j <= Len(s)
      <4>1. j \in 1 .. Len(s)
        BY <1>1, <3>1
      <4> QED
        BY <1>1, <1>3, <4>1 DEF Only
    <3>2. CASE j > Len(s)
      <4> DEFINE h == j - Len(s)
      <4>1. h \in 1 .. k - 1 /\ h \in 1 .. Len(t) /\ j = Len(s) + h
        BY <1>1, <3>2
      <4>2. (s \o t)[Len(s) + h] = t[h]
        BY <4>1, Joined
      <4> QED
        BY <2>1, <4>1, <4>2
    <3> QED
      BY <1>1, <3>1, <3>2
  <2> HIDE DEF i
  <2> QED
    BY <2>1, <2>2, <2>3 DEF Opens
<1> QED
  BY <1>2, <1>3

LEMMA OnlyNone == \A z, T : Only(<<>>, z, T)
<1>1. Len(<<>>) = 0
  OBVIOUS
<1> QED
  BY <1>1 DEF Only

(* Only the zone behind is stopped.                                        *)
LEMMA StopPreviousTells ==
  ASSUME NEW c \in Zone, NEW z \in Zone, z # c - 1
  PROVE  Only(StopPrevious(c), z, {})
<1>1. CASE c = 0
  BY <1>1, OnlyNone DEF StopPrevious
<1>2. CASE c # 0
  <2> DEFINE x == Command(c - 1, TRUE, "stop", "continue")
  <2>1. StopPrevious(c) = <<x>> /\ x.zone = c - 1
    BY <1>2 DEF StopPrevious, Command
  <2> HIDE DEF x
  <2>2. Len(<<x>>) = 1 /\ <<x>>[1] = x
    OBVIOUS
  <2>3. \A k \in 1 .. Len(<<x>>) : <<x>>[k].zone = c - 1
    BY <2>1, <2>2
  <2> QED
    BY <2>1, <2>3 DEF Only
<1> QED
  BY <1>1, <1>2

(* One command, or two, of a visit to a package that stays in its zone.    *)
LEMMA OneCommand ==
  ASSUME NEW x, NEW z
  PROVE  /\ x.zone # z => Only(<<x>>, z, {})
         /\ \A T : Kind(x) \in T => Only(<<x>>, z, T)
<1>1. Len(<<x>>) = 1 /\ <<x>>[1] = x
  OBVIOUS
<1>2. \A k \in 1 .. Len(<<x>>) : <<x>>[k] = x
  BY <1>1
<1> QED
  BY <1>2 DEF Only

LEMMA TwoCommands ==
  ASSUME NEW x, NEW y, x.zone # y.zone, NEW z
  PROVE  /\ x.zone # z /\ y.zone # z => Only(<<x, y>>, z, {})
         /\ \A T : Kind(x) \in T => Only(<<x, y>>, x.zone, T)
         /\ \A T : Kind(y) \in T => Only(<<x, y>>, y.zone, T)
         /\ x.fresh => Opens(<<x, y>>, x.zone)
         /\ y.fresh => Opens(<<x, y>>, y.zone)
<1> DEFINE q == <<x, y>>
<1>1. Len(q) = 2 /\ q[1] = x /\ q[2] = y
  OBVIOUS
<1> HIDE DEF q
<1>2. \A k \in 1 .. Len(q) : k = 1 \/ k = 2
  BY <1>1
<1>3. 1 \in 1 .. Len(q) /\ 2 \in 1 .. Len(q)
      /\ 1 .. 1 - 1 = {} /\ 1 .. 2 - 1 = {1}
  BY <1>1
<1>4. /\ x.zone # z /\ y.zone # z => Only(q, z, {})
      /\ \A T : Kind(x) \in T => Only(q, x.zone, T)
      /\ \A T : Kind(y) \in T => Only(q, y.zone, T)
  BY <1>1, <1>2 DEF Only
<1>5. x.fresh => Opens(q, x.zone)
  <2>1. \A j \in 1 .. 1 - 1 : q[j].zone # x.zone
    BY <1>3
  <2> QED
    BY <1>1, <1>3, <2>1 DEF Opens
<1>6. y.fresh => Opens(q, y.zone)
  <2>1. \A j \in 1 .. 2 - 1 : q[j].zone # y.zone
    BY <1>1, <1>3
  <2> QED
    BY <1>1, <1>3, <2>1 DEF Opens
<1> QED
  BY <1>4, <1>5, <1>6 DEF q

LEMMA CurrentAndNextTells ==
  ASSUME NEW n \in Node, NEW fresh \in BOOLEAN
  PROVE  LET q == CurrentAndNext(n, fresh)
             c == n.cur
         IN  /\ \A z \in Zone : z # c /\ (c = Last \/ z # c + 1)
                                => Only(q, z, {})
             /\ c = Last => Only(q, Last, UpTo)
             /\ c = Before /\ n.nextstat => /\ Only(q, Before, Tame)
                                            /\ Only(q, Last, Halt)
             /\ c = Before /\ ~n.nextstat => /\ Only(q, Before, Go)
                                             /\ Only(q, Last, UpTo)
             /\ c = Before /\ fresh => Opens(q, Before) /\ Opens(q, Last)
<1> DEFINE c == n.cur
           dir == IF n.changenum >= 1 THEN Straightened(Dir[c]) ELSE Dir[c]
           cur(type) == [Command(c, fresh, "run", type) EXCEPT !.dir = dir]
           next(cmd, type) == Command(c + 1, fresh, cmd, type)
           q == CurrentAndNext(n, fresh)
<1>1. /\ c \in Int /\ Last \in Int /\ Before \in Int /\ Before = Last - 1
      /\ NZone = Last + 1 /\ c \in Zone /\ c <= Last
  BY ZoneIs, Numbered DEF Node, Last, Before
<1>2. ASSUME NEW type
      PROVE  /\ cur(type).zone = c /\ cur(type).fresh = fresh
             /\ Kind(cur(type)) = <<"run", type>>
  BY DEF Command, Kind
<1>3. ASSUME NEW cmd, NEW type
      PROVE  /\ next(cmd, type).zone = c + 1 /\ next(cmd, type).fresh = fresh
             /\ Kind(next(cmd, type)) = <<cmd, type>>
  BY DEF Command, Kind
<1>4. CASE c = Last
  <2>1. q = <<cur("trigstop")>>
    BY <1>1, <1>4 DEF CurrentAndNext, IsLast
  <2>2. /\ cur("trigstop").zone = c
        /\ Kind(cur("trigstop")) = <<"run", "trigstop">>
    BY <1>2
  <2> HIDE DEF q, cur
  <2>3. \A z \in Zone : z # c => Only(q, z, {})
    BY <2>1, <2>2, OneCommand
  <2>4. Only(q, Last, UpTo)
    BY <2>1, <2>2, OneCommand DEF UpTo
  <2> HIDE DEF c
  <2>5. c # Before
    BY <1>1, <1>4
  <2> QED
    BY <1>4, <2>3, <2>4, <2>5 DEF q, c
<1>5. CASE c = Before /\ n.nextstat
  <2>1. q = <<cur("trigstop"), next("stop", "trigstop")>>
    BY <1>1, <1>5 DEF CurrentAndNext, IsLast
  <2>2. /\ cur("trigstop").zone = c /\ cur("trigstop").fresh = fresh
        /\ Kind(cur("trigstop")) = <<"run", "trigstop">>
    BY <1>2
  <2>3. /\ next("stop", "trigstop").zone = c + 1
        /\ next("stop", "trigstop").fresh = fresh
        /\ Kind(next("stop", "trigstop")) = <<"stop", "trigstop">>
    BY <1>3
  <2>4. c # c + 1 /\ c # Last /\ c + 1 = Last
    BY <1>1, <1>5
  <2> HIDE DEF q, cur, next, c
  <2>5. \A z \in Zone : z # c /\ z # c + 1 => Only(q, z, {})
    BY <2>1, <2>2, <2>3, <2>4, TwoCommands
  <2>6. Only(q, Before, Tame)
    BY <1>5, <2>1, <2>2, <2>3, <2>4, TwoCommands DEF Tame
  <2>8. Only(q, Last, Halt)
    BY <2>1, <2>2, <2>3, <2>4, TwoCommands DEF Halt
  <2>7. fresh => Opens(q, Before) /\ Opens(q, Last)
    BY <1>5, <2>1, <2>2, <2>3, <2>4, TwoCommands
  <2> QED
    BY <1>5, <2>4, <2>5, <2>6, <2>7, <2>8 DEF q, c
<1>6. CASE c = Before /\ ~n.nextstat
  <2>1. q = <<cur("continue"), next("run", "trigstop")>>
    BY <1>1, <1>6 DEF CurrentAndNext, IsLast
  <2>2. /\ cur("continue").zone = c /\ cur("continue").fresh = fresh
        /\ Kind(cur("continue")) = <<"run", "continue">>
    BY <1>2
  <2>3. /\ next("run", "trigstop").zone = c + 1
        /\ next("run", "trigstop").fresh = fresh
        /\ Kind(next("run", "trigstop")) = <<"run", "trigstop">>
    BY <1>3
  <2>4. c # c + 1 /\ c # Last /\ c + 1 = Last
    BY <1>1, <1>6
  <2> HIDE DEF q, cur, next, c
  <2>5. \A z \in Zone : z # c /\ z # c + 1 => Only(q, z, {})
    BY <2>1, <2>2, <2>3, <2>4, TwoCommands
  <2>6. Only(q, Before, Go)
    BY <1>6, <2>1, <2>2, <2>3, <2>4, TwoCommands DEF Go
  <2>7. Only(q, Last, UpTo)
    BY <1>6, <2>1, <2>2, <2>3, <2>4, TwoCommands DEF UpTo
  <2>8. fresh => Opens(q, Before) /\ Opens(q, Last)
    BY <1>6, <2>1, <2>2, <2>3, <2>4, TwoCommands
  <2> QED
    BY <1>6, <2>4, <2>5, <2>6, <2>7, <2>8 DEF q, c
<1>7. CASE c # Last /\ c # Before
  <2>1. q = IF n.nextstat THEN <<cur("trigstop"), next("stop", "continue")>>
            ELSE <<cur("continue"), next("run", "continue")>>
    BY <1>1, <1>7 DEF CurrentAndNext, IsLast
  <2>2. cur("trigstop").zone = c /\ cur("continue").zone = c
    BY <1>2
  <2>3. next("stop", "continue").zone = c + 1 /\ next("run", "continue").zone = c + 1
    BY <1>3
  <2>4. c # c + 1
    BY <1>1
  <2> HIDE DEF q, cur, next, c
  <2>5. \A z \in Zone : z # c /\ z # c + 1 => Only(q, z, {})
    BY <2>1, <2>2, <2>3, <2>4, TwoCommands
  <2> QED
    BY <1>7, <2>5 DEF q, c
<1> QED
  BY <1>4, <1>5, <1>6, <1>7

LEMMA KeepsSends ==
  ASSUME IInv, VisitKeeps, NEW a \in Slot, a = at
  PROVE  LET n == Observed(node[a])
         IN  \E cmds \in Seq(SafeCommand) :
               /\ Send(cmds)
               /\ \A z \in Zone : \A T :
                    /\ n.cur = Last \/ z # n.cur - 1
                    /\ Only(CurrentAndNext(n, TRUE), z, T)
                    /\ Only(CurrentAndNext(n, FALSE), z, T)
                    => Only(cmds, z, T)
               /\ \A z \in Zone :
                    /\ z # n.cur - 1
                    /\ n.cur # n.last \/ n.changed
                    /\ Opens(CurrentAndNext(n, TRUE), z)
                    => Opens(cmds, z)
<1> DEFINE n == Observed(node[a])
           entered == n.cur # n.last
           count == IF entered THEN 0 ELSE Counted(n)
           resend == count >= SendCnt
           A == IF Arrives(n) THEN StopPrevious(n.cur) ELSE <<>>
           B == IF entered THEN CurrentAndNext(n, TRUE) ELSE <<>>
           C == IF n.changed THEN CurrentAndNext(n, TRUE) ELSE <<>>
           D == IF resend THEN CurrentAndNext(n, FALSE) ELSE <<>>
           cmds == A \o B \o C \o D
<1>1. Send(cmds)
  BY DEF VisitKeeps
<1>2. n \in Node /\ n.cur \in Zone /\ n.changed \in BOOLEAN
      /\ (IsLast(n) <=> n.cur = Last)
  <2>1. n \in Node /\ (IsLast(n) <=> n.cur = Last)
    BY ObservedSees
  <2> HIDE DEF n
  <2> QED
    BY <2>1 DEF Node
<1> HIDE DEF n
<1>3. A \in Seq(SafeCommand)
  BY <1>2, StopPreviousIs
<1>4. /\ B \in Seq(SafeCommand) /\ C \in Seq(SafeCommand)
      /\ D \in Seq(SafeCommand)
  <2>1. /\ CurrentAndNext(n, TRUE) \in Seq(SafeCommand)
        /\ CurrentAndNext(n, FALSE) \in Seq(SafeCommand)
    BY <1>2, CurrentAndNextIs
  <2>2. <<>> \in Seq(SafeCommand)
    OBVIOUS
  <2> QED
    BY <2>1, <2>2, Zenon
<1>5. n.cur = Last => ~Arrives(n)
  BY <1>2 DEF Arrives
<1>6. ASSUME NEW z \in Zone, n.cur = Last \/ z # n.cur - 1
      PROVE  Only(A, z, {})
  BY <1>2, <1>5, <1>6, OnlyNone, StopPreviousTells
<1>7. ASSUME NEW z \in Zone, NEW T, Only(CurrentAndNext(n, TRUE), z, T),
             Only(CurrentAndNext(n, FALSE), z, T)
      PROVE  Only(B, z, T) /\ Only(C, z, T) /\ Only(D, z, T)
  BY <1>7, OnlyNone, Zenon
<1>8. /\ ~entered => \A z : Only(B, z, {})
      /\ entered => B = CurrentAndNext(n, TRUE)
      /\ n.changed => C = CurrentAndNext(n, TRUE)
  BY OnlyNone, Zenon
<1> HIDE DEF A, B, C, D
<1>9. /\ A \o B \in Seq(SafeCommand) /\ A \o B \o C \in Seq(SafeCommand)
      /\ cmds \in Seq(SafeCommand)
  BY <1>3, <1>4
<1>10. ASSUME NEW z \in Zone, NEW T, n.cur = Last \/ z # n.cur - 1,
              Only(CurrentAndNext(n, TRUE), z, T),
              Only(CurrentAndNext(n, FALSE), z, T)
       PROVE  Only(cmds, z, T)
  <2>1. Only(A, z, T) /\ Only(B, z, T) /\ Only(C, z, T) /\ Only(D, z, T)
    BY <1>6, <1>7, <1>10, OnlyWider
  <2>2. Only(A \o B, z, T)
    BY <1>3, <1>4, <2>1, OnlyBoth
  <2>3. Only(A \o B \o C, z, T)
    BY <1>4, <1>9, <2>1, <2>2, OnlyBoth
  <2> QED
    BY <1>4, <1>9, <2>1, <2>3, OnlyBoth
<1>11. ASSUME NEW z \in Zone, z # n.cur - 1, n.cur # n.last \/ n.changed,
              Opens(CurrentAndNext(n, TRUE), z)
       PROVE  Opens(cmds, z)
  <2>1. Only(A, z, {})
    BY <1>6, <1>11
  <2>2. CASE entered
    <3>1. Opens(A \o B, z)
      BY <1>3, <1>4, <1>8, <1>11, <2>1, <2>2, OpensBoth
    <3>2. Opens(A \o B \o C, z)
      BY <1>4, <1>9, <3>1, OpensBoth
    <3> QED
      BY <1>4, <1>9, <3>2, OpensBoth
  <2>3. CASE ~entered
    <3>1. Only(A \o B, z, {})
      BY <1>3, <1>4, <1>8, <2>1, <2>3, OnlyBoth
    <3>2. Opens(C, z)
      BY <1>8, <1>11, <2>3
    <3>3. Opens(A \o B \o C, z)
      BY <1>4, <1>9, <3>1, <3>2, OpensBoth
    <3> QED
      BY <1>4, <1>9, <3>3, OpensBoth
  <2> QED
    BY <2>2, <2>3
<1> HIDE DEF cmds
<1>12. /\ \A z \in Zone : \A T :
            /\ n.cur = Last \/ z # n.cur - 1
            /\ Only(CurrentAndNext(n, TRUE), z, T)
            /\ Only(CurrentAndNext(n, FALSE), z, T)
            => Only(cmds, z, T)
       /\ \A z \in Zone :
            /\ z # n.cur - 1
            /\ n.cur # n.last \/ n.changed
            /\ Opens(CurrentAndNext(n, TRUE), z)
            => Opens(cmds, z)
  BY <1>10, <1>11
<1> QED
  BY <1>1, <1>9, <1>12 DEF n

(* What a visit sends leaves the numbers and the belts' directions alone.  *)
LEMMA SentAlone ==
  ASSUME IInv, OInv, NEW cmds \in Seq(SafeCommand), Send(cmds),
         UNCHANGED <<belt, lastFrame>>
  PROVE  Numbers' /\ BeltsAhead'
BY SentNumbers DEF OInv, BeltsAhead

(* A result is queued: nobody is left that nears the end or is in it.      *)
LEMMA VisitDeliversObeyed ==
  ASSUME OneAtATime, IInv, OInv, VisitDelivers
  PROVE  OInv'
<1>1. /\ Line' /\ Sensors' /\ InTime' /\ Heeds'
      /\ \A s \in Slot : ~Nears(s)' /\ ~Ahead(s)'
  BY VisitDeliversHeard
<1>2. Obeys'
  BY <1>1 DEF Obeys
<1> DEFINE n == node[at]
           c == Command(n.cur, TRUE, "stop", "continue")
           cmds == <<c>> \o StopPrevious(n.cur)
<1>3. Send(cmds) /\ UNCHANGED <<belt, lastFrame>>
  BY DEF VisitDelivers, beltVars
<1>4. n.cur \in Zone
  BY TimeTyped, Typed
<1>5. c \in SafeCommand /\ StopPrevious(n.cur) \in Seq(SafeCommand)
  BY <1>4, CommandIs, StopPreviousIs
<1>6. cmds \in Seq(SafeCommand)
  <2> HIDE DEF c
  <2> QED
    BY <1>5
<1> HIDE DEF cmds
<1>7. Numbers' /\ BeltsAhead'
  BY <1>3, <1>6, SentAlone
<1> QED
  BY <1>1, <1>2, <1>7 DEF OInv

LEMMA AdvancesSends ==
  ASSUME IInv, VisitAdvances, NEW a \in Slot, a = at
  PROVE  \E cmds \in Seq(SafeCommand) :
           /\ Send(cmds)
           /\ \A z \in Zone : \A T : z # node[a].cur - 1 => Only(cmds, z, T)
<1> DEFINE n == Observed(node[a])
           A == IF Arrives(n) THEN StopPrevious(n.cur) ELSE <<>>
           cmds == A \o StopPrevious(n.cur)
<1>1. Send(cmds)
  BY DEF VisitAdvances
<1>2. n.cur \in Zone /\ n.cur = node[a].cur
  BY ObservedSees, Typed
<1> HIDE DEF n
<1>3. A \in Seq(SafeCommand) /\ StopPrevious(n.cur) \in Seq(SafeCommand)
  BY <1>2, StopPreviousIs
<1>4. ASSUME NEW z \in Zone, z # n.cur - 1
      PROVE  Only(A, z, {}) /\ Only(StopPrevious(n.cur), z, {})
  BY <1>2, <1>4, OnlyNone, StopPreviousTells
<1> HIDE DEF A
<1>5. cmds \in Seq(SafeCommand)
  BY <1>3
<1>6. ASSUME NEW z \in Zone, NEW T, z # n.cur - 1
      PROVE  Only(cmds, z, T)
  BY <1>3, <1>4, <1>6, OnlyBoth, OnlyWider
<1> QED
  BY <1>1, <1>2, <1>5, <1>6

(* A package moves on to the next zone: the last one, once it may.         *)
LEMMA VisitAdvancesObeyed ==
  ASSUME OneAtATime, IInv, OInv, VisitAdvances
  PROVE  OInv'
<1>0. PICK a \in Slot : a = at
  BY TimeTyped
<1>1. PICK c \in Zone : c = node[a].cur
  BY Typed
<1>2. /\ c \in Int /\ 0 <= c /\ c < Last
      /\ Behind(a) /\ Carries(a) /\ Pos(a) = 4 * c + 4
      /\ node'[a].pkg = node[a].pkg /\ node'[a].cur = c + 1
      /\ node'[a].last = node[a].last
      /\ \A s \in Slot \ {a} : node'[s] = node[s]
      /\ UNCHANGED <<belt, motor, lastFrame, box, hold>>
  BY <1>0, <1>1, AdvancesIs
<1>3. Line' /\ Sensors' /\ InTime' /\ Heeds'
  BY VisitAdvancesHeard
<1>4. Line /\ InTime /\ Heeds /\ Obeys
  BY DEF OInv
<1>5. PICK cmds \in Seq(SafeCommand) :
        /\ Send(cmds)
        /\ \A z \in Zone : \A T : z # c - 1 => Only(cmds, z, T)
  BY <1>0, <1>1, AdvancesSends
<1>6. ASSUME NEW z \in Zone, z # c - 1, NEW T
      PROVE  (Ends(z, T) => Ends(z, T)') /\ (Runs(z, T) => Runs(z, T)')
  BY <1>2, <1>5, <1>6, SentKeeps
<1>7. Numbers' /\ BeltsAhead'
  BY <1>2, <1>5, SentAlone
<1>8. /\ Before \in Zone /\ Last \in Zone /\ Before \in Int /\ Last \in Int
      /\ Before = Last - 1 /\ Before >= 2
  BY Sizes, ZoneIs
<1>9. ASSUME NEW s \in Slot, s # a
      PROVE  ~Nears(s)' /\ Ahead(s)' = Ahead(s) /\ Pos(s)' = Pos(s)
  <2>1. Nears(s)' = Nears(s) /\ Ahead(s)' = Ahead(s) /\ Pos(s)' = Pos(s)
    BY <1>2, <1>9, SlotSame
  <2>2. ~Nears(s)
    BY <1>2, <1>4, <1>8, <1>9 DEF Line, Alone, Nears, Behind
  <2> QED
    BY <2>1, <2>2
<1>10. ASSUME NEW s \in Slot, s # a, Ahead(s), Pos(s) < AtEnd
       PROVE  Carrying(s)'
  <2>1. c = 0
    <3>1. Pos(a) <= 5
      BY <1>2, <1>4, <1>10, NotBoth
    <3> QED
      BY <1>2, <3>1
  <2>2. Before # c - 1 /\ Last # c - 1
    BY <1>8, <2>1
  <2>3. Carrying(s)
    BY <1>4, <1>10 DEF Obeys
  <2>4. Pos(s)' = Pos(s)
    BY <1>9, <1>10
  <2> QED
    BY <1>2, <1>6, <1>8, <2>2, <2>3, <2>4 DEF Carrying
<1>11. ASSUME Nears(a)', node'[a].last = Before
       PROVE  FALSE
  <2>1. c + 1 = Before
    BY <1>2, <1>11 DEF Nears
  <2>2. node[a].last <= c
    BY <1>1, <1>4 DEF Line, Places
  <2> QED
    BY <1>2, <1>8, <1>11, <2>1, <2>2
<1>12. ASSUME Ahead(a)' PROVE Carrying(a)'
  <2>1. c = Before /\ Nears(a) /\ Pos(a) = 4 * Last
    <3>1. c + 1 = Last
      BY <1>2, <1>12 DEF Ahead
    <3>2. c = Before /\ Pos(a) = 4 * Last
      BY <1>2, <1>8, <3>1
    <3> QED
      BY <1>1, <1>2, <3>2 DEF Nears
  <2>2. Due(a) /\ node[a].last = Before
    <3>1. Timely(a)
      BY <1>4 DEF InTime
    <3>2. Due(a)
      BY <1>1, <1>2, <3>1 DEF Timely
    <3>3. 4 * Last > 4 * Before + 1
      BY <1>8
    <3> QED
      BY <2>1, <3>1, <3>2, <3>3 DEF Timely
  <2>3. ~node[a].nextstat
    BY <1>4, <2>1 DEF Heeds, Heeding
  <2>4. Passing
    BY <1>4, <2>1, <2>2, <2>3 DEF Obeys
  <2>5. hold # 0
    BY <2>2 DEF Due
  <2>6. Ends(Before, Go)' /\ Ends(Last, UpTo)'
    BY <1>6, <1>8, <2>1, <2>4 DEF Passing
  <2> QED
    BY <1>2, <2>5, <2>6 DEF Carrying
<1>13. Obeys'
  BY <1>9, <1>10, <1>11, <1>12 DEF Obeys
<1> QED
  BY <1>3, <1>7, <1>13 DEF OInv

(* A package stays in its zone: its belts are told to hold it, to pass it  *)
(* on to the last zone, or to carry it to the end.                         *)
LEMMA VisitKeepsObeyed ==
  ASSUME OneAtATime, IInv, OInv, VisitKeeps
  PROVE  OInv'
<1>0. PICK a \in Slot : a = at
  BY TimeTyped
<1>1. PICK c \in Zone : c = node[a].cur
  BY Typed
<1>2. PICK n \in Node : n = Observed(node[a])
  BY ObservedSees
<1>3. /\ Carries(a)
      /\ node'[a].pkg = node[a].pkg /\ node'[a].cur = c
      /\ node'[a].last = c /\ node'[a].nextstat = n.nextstat
      /\ \A s \in Slot \ {a} : node'[s] = node[s]
      /\ UNCHANGED <<belt, motor, lastFrame, box, hold>>
  BY <1>0, <1>1, <1>2, KeepsIs
<1>4. /\ n.cur = c /\ n.last = node[a].last
      /\ c < Last => (n.nextstat <=> 2 \in zoneState[c + 1])
      /\ n.nextstat = node[a].nextstat \/ n.changed = TRUE
  BY <1>1, <1>2, ObservedSees
<1>5. Line' /\ Sensors' /\ InTime' /\ Heeds'
  BY VisitKeepsHeard
<1>6. Line /\ InTime /\ Heeds /\ Obeys /\ Numbers
  BY DEF OInv
<1>7. PICK cmds \in Seq(SafeCommand) :
        /\ Send(cmds)
        /\ \A z \in Zone : \A T :
             /\ n.cur = Last \/ z # n.cur - 1
             /\ Only(CurrentAndNext(n, TRUE), z, T)
             /\ Only(CurrentAndNext(n, FALSE), z, T)
             => Only(cmds, z, T)
        /\ \A z \in Zone :
             /\ z # n.cur - 1
             /\ n.cur # n.last \/ n.changed
             /\ Opens(CurrentAndNext(n, TRUE), z)
             => Opens(cmds, z)
  BY <1>0, <1>2, KeepsSends
<1>8. /\ Before \in Zone /\ Last \in Zone /\ Before \in Int /\ Last \in Int
      /\ Before = Last - 1 /\ Before >= 2 /\ c \in Int /\ 0 <= c /\ c <= Last
  BY Sizes, ZoneIs
<1>9. Numbers' /\ BeltsAhead'
  BY <1>3, <1>7, SentAlone
<1>10. ASSUME NEW z \in Zone, NEW T, Only(cmds, z, T)
       PROVE  (Ends(z, T) => Ends(z, T)') /\ (Runs(z, T) => Runs(z, T)')
  BY <1>3, <1>7, <1>10, SentKeeps
<1>11. ASSUME NEW z \in Zone, NEW T, Only(cmds, z, T), Opens(cmds, z)
       PROVE  Ends(z, T)'
  BY <1>3, <1>6, <1>7, <1>11, SentOpens
<1>12. ASSUME NEW s \in Slot
       PROVE  /\ Nears(s)' = Nears(s) /\ Ahead(s)' = Ahead(s)
              /\ Pos(s)' = Pos(s)
              /\ s # a => node'[s] = node[s]
  <2>1. node'[s].pkg = node[s].pkg /\ node'[s].cur = node[s].cur
    BY <1>1, <1>3
  <2> QED
    BY <1>3, <2>1 DEF Nears, Ahead, Carries, Pos
<1>13. \A fresh \in BOOLEAN : LET q == CurrentAndNext(n, fresh)
         IN  /\ \A z \in Zone : z # c /\ (c = Last \/ z # c + 1)
                                => Only(q, z, {})
             /\ c = Last => Only(q, Last, UpTo)
             /\ c = Before /\ n.nextstat => Only(q, Before, Tame)
             /\ c = Before /\ ~n.nextstat => /\ Only(q, Before, Go)
                                             /\ Only(q, Last, UpTo)
             /\ c = Before /\ fresh => Opens(q, Before) /\ Opens(q, Last)
  BY <1>4, CurrentAndNextTells
<1>14. CASE c = Last
  <2>1. Ahead(a)
    BY <1>1, <1>3, <1>14 DEF Ahead
  <2>2. \A s \in Slot : ~Nears(s)
    BY <1>6, <2>1, NotBoth
  <2>3. \A s \in Slot : Ahead(s) => s = a
    BY <1>6, <2>1 DEF Line, Alone
  <2>4. Only(cmds, Last, UpTo)
    BY <1>4, <1>7, <1>8, <1>13, <1>14
  <2>5. Only(cmds, Before, Go)
    <3>1. \A fresh \in BOOLEAN : Only(CurrentAndNext(n, fresh), Before, Go)
      BY <1>8, <1>13, <1>14, OnlyWider
    <3> QED
      BY <1>4, <1>7, <1>8, <1>14, <3>1
  <2>6. ASSUME Pos(a) < AtEnd PROVE Carrying(a)'
    <3>1. Carrying(a)
      BY <1>6, <2>1, <2>6 DEF Obeys
    <3> QED
      BY <1>3, <1>8, <1>10, <1>12, <2>4, <2>5, <3>1 DEF Carrying
  <2>7. Obeys'
    BY <1>12, <2>2, <2>3, <2>6 DEF Obeys
  <2> QED
    BY <1>5, <1>9, <2>7 DEF OInv
<1>15. CASE c = Before
  <2>1. Nears(a) /\ Behind(a)
    BY <1>1, <1>3, <1>8, <1>15 DEF Nears, Behind
  <2>2. \A s \in Slot : ~Ahead(s)
    BY <1>6, <2>1, NotBoth
  <2>3. \A s \in Slot : Nears(s) => s = a
    BY <1>6, <1>8, <2>1 DEF Line, Alone, Nears, Behind
  <2>4. Before # n.cur - 1 /\ Last # n.cur - 1
    BY <1>4, <1>8, <1>15
  <2>5. \/ n.cur # n.last \/ n.changed
        \/ node[a].last = Before /\ node[a].nextstat = n.nextstat
    BY <1>4, <1>15
  <2>6. (n.cur # n.last \/ n.changed) => Opens(cmds, Before) /\ Opens(cmds, Last)
    BY <1>7, <1>8, <1>13, <1>15, <2>4
  <2>7. ASSUME n.nextstat PROVE Holding(a)'
    <3>1. Only(cmds, Before, Tame)
      BY <1>7, <1>8, <1>13, <1>15, <2>4, <2>7
    <3>2. Ends(Before, Tame)'
      <4>1. CASE n.cur # n.last \/ n.changed
        BY <1>8, <1>11, <2>6, <3>1, <4>1
      <4>2. CASE node[a].last = Before /\ node[a].nextstat = n.nextstat
        <5>1. Holding(a)
          BY <1>6, <2>1, <2>7, <4>2 DEF Obeys
        <5> QED
          BY <1>8, <1>10, <3>1, <5>1 DEF Holding
      <4> QED
        BY <2>5, <4>1, <4>2
    <3>3. ASSUME Pos(a) = 4 * Before + 3, hold < 2
          PROVE  motor[Before] = FALSE /\ Runs(Before, Tame)'
      <4>1. node[a].last = Before
        BY <1>6, <1>8, <2>1, <3>3 DEF InTime, Timely
      <4>2. 2 \in zoneState[Last]
        BY <1>4, <1>8, <1>15, <2>7
      <4>3. node[a].nextstat
        BY <1>6, <2>1, <4>1, <4>2 DEF Heeds, Heeding
      <4>4. Holding(a)
        BY <1>6, <2>1, <4>1, <4>3 DEF Obeys
      <4> QED
        BY <1>8, <1>10, <3>1, <3>3, <4>4 DEF Holding
    <3> QED
      BY <1>3, <1>12, <3>2, <3>3 DEF Holding
  <2>8. ASSUME ~n.nextstat PROVE Passing'
    <3>1. Only(cmds, Before, Go) /\ Only(cmds, Last, UpTo)
      BY <1>7, <1>8, <1>13, <1>15, <2>4, <2>8
    <3>2. CASE n.cur # n.last \/ n.changed
      BY <1>8, <1>11, <2>6, <3>1, <3>2 DEF Passing
    <3>3. CASE node[a].last = Before /\ node[a].nextstat = n.nextstat
      <4>1. Passing
        BY <1>6, <2>1, <2>8, <3>3 DEF Obeys
      <4> QED
        BY <1>8, <1>10, <3>1, <4>1 DEF Passing
    <3> QED
      BY <2>5, <3>2, <3>3
  <2>9. Obeys'
    BY <1>3, <1>12, <2>2, <2>3, <2>7, <2>8 DEF Obeys
  <2> QED
    BY <1>5, <1>9, <2>9 DEF OInv
<1>16. CASE c < Before
  <2>1. Behind(a)
    BY <1>1, <1>3, <1>8, <1>16 DEF Behind
  <2>2. \A s \in Slot : ~Nears(s)
    BY <1>1, <1>6, <1>8, <1>16, <2>1 DEF Line, Alone, Nears, Behind
  <2>3. ASSUME NEW z \in Zone, z # c - 1, z # c, z # c + 1, NEW T
        PROVE  Only(cmds, z, T)
    <3>1. \A fresh \in BOOLEAN : Only(CurrentAndNext(n, fresh), z, T)
      BY <1>13, <2>3, OnlyWider
    <3> QED
      BY <1>4, <1>7, <2>3, <3>1
  <2>4. Only(cmds, Last, UpTo)
    BY <1>8, <1>16, <2>3
  <2>5. ASSUME NEW s \in Slot, Ahead(s), Pos(s) < AtEnd
        PROVE  Carrying(s)'
    <3>1. Carrying(s) /\ s # a
      BY <1>6, <2>1, <2>5, AheadOrBehind DEF Obeys
    <3>2. ASSUME Pos(s) = 4 * Last PROVE Only(cmds, Before, Go)
      <4>1. Pos(a) <= 4 * Last - 4 * Last + 2
        BY <1>6, <2>1, <2>5, <3>2 DEF Line, Lockstep
      <4>2. Pos(a) \in 4 * c .. 4 * c + 4
        BY <1>1, <1>6, <2>1 DEF Line, Places
      <4>3. c = 0
        BY <1>8, <4>1, <4>2
      <4> QED
        BY <1>8, <2>3, <4>3
    <3> QED
      BY <1>3, <1>8, <1>10, <1>12, <2>4, <3>1, <3>2 DEF Carrying
  <2>6. Obeys'
    BY <1>12, <2>2, <2>5 DEF Obeys
  <2> QED
    BY <1>5, <1>9, <2>6 DEF OInv
<1> QED
  BY <1>8, <1>14, <1>15, <1>16

-----------------------------------------------------------------------------
LEMMA InitOrderly ==
  ASSUME OneAtATime, Init
  PROVE  OInv
<1>1. ASSUME NEW s \in Slot
      PROVE  /\ node[s].pkg = NoPkg /\ node[s].last <= node[s].cur
             /\ ~Carries(s) /\ ~Ahead(s) /\ ~Behind(s) /\ ~Nears(s)
  <2>1. node[s] = FreeNode
    BY DEF Init
  <2> QED
    BY <2>1 DEF FreeNode, NoFrame, Carries, Ahead, Behind, Nears
<1>2. Line
  <2>1. Idle
    BY <1>1, Numbered DEF Init, Idle, Carried
  <2>2. OneAtEnd
    BY Sizes DEF Init, OneAtEnd
  <2> QED
    BY <1>1, <2>1, <2>2 DEF Line, Owners, Alone, Places, Lockstep
<1>3. Sensors
  BY <1>1, LastIs DEF Init, Sensors, EntryHeard, ExitHeard, EntryTold, EndHeard,
     EndTold, EndBlind
<1>4. InTime /\ Heeds
  BY <1>1 DEF InTime, Timely, Heeds
<1>5. Numbers
  <2>1. canq = <<>> /\ \A z \in Zone : lastFrame[z] = NoFrame
    BY DEF Init
  <2>2. Len(canq) = 0
    BY <2>1
  <2> QED
    BY <2>1, <2>2 DEF Numbers
<1>6. BeltsAhead /\ Obeys
  BY <1>1 DEF Init, BeltsAhead, Obeys
<1> QED
  BY <1>2, <1>3, <1>4, <1>5, <1>6 DEF OInv

LEMMA NextOrderly ==
  ASSUME OneAtATime, IInv, OInv, [Next]_vars
  PROVE  OInv'
<1>1. CASE \E p \in Pkg : RecvPkgTrans(p)
  BY <1>1, NewPackageObeyed
<1>2. CASE VisitFree
  BY <1>2, VisitFreeKeeps
<1>3. CASE VisitDelivers
  BY <1>3, VisitDeliversObeyed
<1>4. CASE VisitAdvances
  BY <1>4, VisitAdvancesObeyed
<1>5. CASE VisitKeeps
  BY <1>5, VisitKeepsObeyed
<1>6. CASE RecvStartCmd
  BY <1>6, RecvStartCmdObeyed
<1>7. CASE LoseStartCmd
  <2>1. lost \in 0 .. 0 /\ lost < 0
    BY <1>7, Sizes DEF LoseStartCmd, IInv, LineTyped
  <2> QED
    BY <2>1
<1>8. CASE \E z \in Zone : TriggerStop(z) \/ ApplyMotor(z)
  BY <1>8, TriggerStopObeyed, ApplyMotorObeyed
<1>9. CASE AskModuleState
  BY <1>9, AskObeyed
<1>10. CASE \E b \in Board : ModuleStatus(b)
  BY <1>10, StatusObeyed
<1>11. CASE Move
  BY <1>11, MoveObeyed
<1>12. CASE \E p \in Pkg : TakeOff(p)
  BY <1>12, TakeOffObeyed
<1>13. CASE UNCHANGED vars
  <2>1. UNCHANGED <<node, at, zoneState, cnt, delivered, canq, belt, motor,
                    lastFrame, box, asked, passes, hold>>
    BY <1>13 DEF vars, masterVars, beltVars, timeVars
  <2>2. Line' /\ Sensors' /\ InTime' /\ Heeds'
    BY <2>1, LineSame, SensorsSame, InTimeSame, HeedsSame DEF OInv
  <2>3. Numbers' /\ BeltsAhead' /\ Obeys'
    BY <2>1, ObeysSame DEF OInv, beltVars
  <2> QED
    BY <2>2, <2>3 DEF OInv
<1> QED
  BY <1>1, <1>2, <1>3, <1>4, <1>5, <1>6, <1>7, <1>8, <1>9, <1>10, <1>11,
     <1>12, <1>13 DEF Next

LEMMA Quarters ==
  ASSUME NEW x \in Int, NEW y \in Int, NEW z \in Int, x \div 4 = y \div 4
  PROVE  x >= 4 * z <=> y >= 4 * z
OBVIOUS

LEMMA OrderlyApart ==
  ASSUME OneAtATime, IInv, OInv
  PROVE  NoCollision
<1> SUFFICES ASSUME NEW p \in Pkg, NEW q \in Pkg, p # q, OnLine(p), OnLine(q),
                    box[p] \div 4 = box[q] \div 4
             PROVE  FALSE
  BY DEF NoCollision
<1>1. /\ box[p] \in Int /\ 0 <= box[p] /\ box[p] <= AtEnd
      /\ box[q] \in Int /\ 0 <= box[q] /\ box[q] <= AtEnd
      /\ Last \in Int /\ AtEnd = 4 * Last + 3
  BY Sizes DEF OnLine
<1>2. Line
  BY DEF OInv
<1>3. box[p] >= 4 * Last <=> box[q] >= 4 * Last
  BY <1>1, Quarters
<1>4. CASE box[p] >= 4 * Last
  BY <1>1, <1>2, <1>3, <1>4 DEF Line, OneAtEnd
<1>5. CASE box[p] < 4 * Last
  <2>1. box[p] < AtEnd /\ box[q] < AtEnd /\ box[q] < 4 * Last
    BY <1>1, <1>3, <1>5
  <2>2. PICK s \in Slot : Carries(s) /\ node[s].pkg = p /\ Pos(s) = box[p]
    BY <1>1, <1>2, <2>1, BoxOf DEF Line
  <2>3. PICK t \in Slot : Carries(t) /\ node[t].pkg = q /\ Pos(t) = box[q]
    BY <1>1, <1>2, <2>1, BoxOf DEF Line
  <2>4. ~Ahead(s) /\ ~Ahead(t)
    BY <1>1, <1>2, <1>5, <2>1, <2>2, <2>3 DEF Line, Places
  <2>5. Behind(s) /\ Behind(t)
    BY <2>2, <2>3, <2>4, AheadOrBehind
  <2> QED
    BY <1>2, <2>2, <2>3, <2>5 DEF Line, Alone
<1> QED
  BY <1>1, <1>4, <1>5

LEMMA FollowsTracked ==
  ASSUME IInv, Follows
  PROVE  Tracked
<1> SUFFICES ASSUME NEW p \in Pkg, Carried(p)
             PROVE  box[p] \in 4 * Current(p) .. 4 * Current(p) + 5
  BY DEF Tracked
<1>1. PICK s \in Slot : s = CHOOSE t \in Slot : node[t].pkg = p
  BY DEF Carried
<1>2. node[s].pkg = p /\ Current(p) = node[s].cur
  BY <1>1 DEF Carried, Current
<1>3. Carries(s) /\ Pos(s) = box[p]
  BY <1>2, Numbered DEF Carries, Pos
<1>4. node[s].cur \in Int /\ box[p] \in Int /\ Follows
  BY Typed, BoxTyped
<1>5. CASE Ahead(s)
  BY <1>2, <1>3, <1>4, <1>5, Geometry DEF Follows, Ahead
<1>6. CASE Behind(s)
  BY <1>2, <1>3, <1>4, <1>6 DEF Follows
<1> QED
  BY <1>3, <1>5, <1>6, AheadOrBehind

LEMMA PlacesFollow ==
  ASSUME IInv, Places
  PROVE  Follows
<1>1. \A s \in Slot : node[s].cur \in Int
  BY Typed
<1> QED
  BY <1>1 DEF Places, Follows

LEMMA IdleTruthful ==
  ASSUME IInv, Idle
  PROVE  DeliveryTruthful
BY DEF Idle, IInv, MasterTyped, DeliveryTruthful

LEMMA Orderly ==
  ASSUME OneAtATime
  PROVE  Spec => [](IInv /\ OInv)
<1>1. Init => IInv /\ OInv
  BY InitSafe, InitOrderly
<1>2. (IInv /\ OInv) /\ [Next]_vars => (IInv /\ OInv)'
  BY NextSafe, NextOrderly
<1> QED
  BY <1>1, <1>2, PTL DEF Spec

(* One package at a time on its way, no two boxes ever share a zone: a     *)
(* package waits before the last zone for as long as the box delivered     *)
(* before it lies there (logic_ctrl.c 386-432, the boards' trigger stops). *)
THEOREM BoxesApart ==
  ASSUME OneAtATime
  PROVE  Spec => []NoCollision
<1>1. IInv /\ OInv => NoCollision
  BY OrderlyApart
<1> QED
  BY <1>1, Orderly, PTL

(* A package's box is in the zone the master takes it to be in, or just at *)
(* the edge of the next (curZonenum, data.h 129).                          *)
THEOREM ZoneTracked ==
  ASSUME OneAtATime
  PROVE  Spec => []Tracked
<1>1. IInv /\ OInv => Tracked
  BY PlacesFollow, FollowsTracked DEF OInv, Line
<1> QED
  BY <1>1, Orderly, PTL

(* The server is told of a package's success when its box lies at the end. *)
THEOREM ResultTrue ==
  ASSUME OneAtATime
  PROVE  Spec => []DeliveryTruthful
<1>1. IInv /\ OInv => DeliveryTruthful
  BY IdleTruthful DEF OInv, Line
<1> QED
  BY <1>1, Orderly, PTL
-----------------------------------------------------------------------------
(* After delivery: the server sends a package when the result of the one   *)
(* before has been queued, whose box may still lie at the end of the line. *)
(* Any number of frames may be lost then.                                  *)
AfterDelivery == Spacing >= NZone

Single == \A s, t \in Slot : Carries(s) /\ Carries(t) => s = t

EndTaken == \E p \in delivered : box[p] = AtEnd
EndClear == \A s \in Slot : Ahead(s) => ~EndTaken

Boxes == Single /\ Idle /\ Follows /\ EndClear

(* A delivered box at the end is reported before the next one gets near.   *)
EndKnown == \A s \in Slot : Behind(s) /\ EndTaken /\ 2 \notin zoneState[Last] =>
  /\ Pos(s) <= 2
  /\ hold = 2 \/ (hold = 1 /\ Last \div 2 \in asked)

Reports == EntryHeard /\ ExitHeard /\ EntryTold /\ EndSeen /\ EndKnown

(* The last belt does not run, and no frame is under way that starts it.   *)
Still ==
  /\ motor[Last] = FALSE /\ belt[Last].status # "run"
  /\ Only(canq, Last, Halt)

(* A package that has reached the last zone while it was taken: belts that *)
(* were not stopped in time may drive it on to the entry, but no further.  *)
Barred(s) == node[s].cur = Before /\ Still /\ zoneState[Last] # {}

Held == \A s \in Slot :
  /\ Behind(s) /\ Pos(s) >= 4 * Last
  /\ (EndTaken /\ hold < 2) \/ (Told(Last) /\ 2 \in zoneState[Last])
  => Still

OnTime == \A s \in Slot : Behind(s) =>
  /\ Pos(s) = 4 * node[s].cur + 4 => Due(s) \/ Barred(s)
  /\ Pos(s) = 4 * node[s].cur + 5 => Barred(s)

AInv == Boxes /\ Reports /\ Held /\ OnTime

LEMMA CarriedIs ==
  ASSUME IInv, Boxes, NEW s \in Slot, Carries(s)
  PROVE  /\ node[s].pkg \in Pkg /\ Pos(s) = box[node[s].pkg]
         /\ Pos(s) \in Int /\ 0 <= Pos(s) /\ Pos(s) <= AtEnd
         /\ node[s].pkg \notin delivered
         /\ Ahead(s) \/ Behind(s)
         /\ Behind(s) => Pos(s) <= 4 * Last + 1
         /\ \A t \in Slot : Carries(t) => t = s
<1>1. /\ node[s].pkg \in Pkg /\ Pos(s) \in Int /\ node[s].cur \in Int
      /\ 0 <= node[s].cur
  BY Typed
<1>2. Ahead(s) \/ Behind(s)
  BY AheadOrBehind
<1>3. 0 <= Pos(s) /\ Pos(s) <= AtEnd
  <2>1. CASE Ahead(s)
    <3>1. Pos(s) \in 4 * Last .. AtEnd
      BY <2>1 DEF Boxes, Follows
    <3> QED
      BY <1>1, <3>1, Geometry
  <2>2. CASE Behind(s)
    <3>1. Pos(s) \in 4 * node[s].cur .. 4 * node[s].cur + 5 /\ node[s].cur < Last
      BY <2>2 DEF Boxes, Follows, Behind
    <3> QED
      BY <1>1, <3>1, Geometry
  <2> QED
    BY <1>2, <2>1, <2>2
<1>4. Behind(s) => Pos(s) <= 4 * Last + 1
  <2>1. Behind(s) => /\ Pos(s) \in 4 * node[s].cur .. 4 * node[s].cur + 5
                     /\ node[s].cur < Last
    BY DEF Boxes, Follows, Behind
  <2> QED
    BY <1>1, <2>1, Geometry
<1>5. node[s].pkg \notin delivered
  BY <1>1 DEF Boxes, Idle, Carried
<1> QED
  BY <1>1, <1>2, <1>3, <1>4, <1>5 DEF Boxes, Single, Pos

(* A step that leaves packages, boxes and reports where they are.          *)
LEMMA AfterSame ==
  ASSUME Boxes, Reports,
         UNCHANGED <<box, delivered, zoneState, hold, asked>>,
         \A s \in Slot : /\ node'[s].pkg = node[s].pkg
                         /\ node'[s].cur = node[s].cur
                         /\ node'[s].last <= node'[s].cur
  PROVE  /\ Boxes' /\ Reports'
         /\ \A s \in Slot :
              /\ Carries(s)' = Carries(s) /\ Pos(s)' = Pos(s)
              /\ Ahead(s)' = Ahead(s) /\ Behind(s)' = Behind(s)
<1>1. ASSUME NEW s \in Slot
      PROVE  /\ Carries(s)' = Carries(s) /\ Pos(s)' = Pos(s)
             /\ Ahead(s)' = Ahead(s) /\ Behind(s)' = Behind(s)
  BY DEF Carries, Pos, Ahead, Behind
<1>2. Single'
  BY <1>1 DEF Boxes, Single
<1>3. EndTaken' = EndTaken
  BY DEF EndTaken
<1>4. Idle'
  <2>1. ASSUME NEW p \in Pkg PROVE Carried(p)' = Carried(p)
    BY DEF Carried
  <2> QED
    BY <2>1 DEF Boxes, Idle
<1>5. Follows' /\ EndClear'
  BY <1>1, <1>3 DEF Boxes, Follows, EndClear
<1>6. \A z : Told(z)' = Told(z)
  BY DEF Told
<1>7. EntryHeard' /\ ExitHeard' /\ EntryTold'
  BY <1>1, <1>6 DEF Reports, EntryHeard, ExitHeard, EntryTold
<1>8. EndSeen' /\ EndKnown'
  BY <1>1, <1>3 DEF Reports, EndSeen, EndKnown
<1> QED
  BY <1>1, <1>2, <1>4, <1>5, <1>7, <1>8 DEF Boxes, Reports

(* The belt that does not run stays so, whatever comes of the frames.      *)
LEMMA StillReceived ==
  ASSUME IInv, Still, RecvStartCmd \/ LoseStartCmd
  PROVE  Still'
<1>0. PICK Q \in Nat : Q = Len(canq)
  BY CanqTyped
<1>1. canq # <<>> /\ canq' = Tail(canq) /\ motor' = motor
  BY DEF RecvStartCmd, LoseStartCmd, beltVars
<1>2. /\ Q >= 1 /\ Len(canq') = Q - 1
      /\ \A k \in 1 .. Q - 1 : canq'[k] = canq[k + 1]
  BY <1>0, <1>1, CanqTyped
<1>3. Only(canq, Last, Halt)'
  BY <1>0, <1>2 DEF Only, Still
<1>4. belt'[Last].status # "run"
  <2>1. CASE belt' = belt
    BY <2>1 DEF Still
  <2>2. CASE belt' # belt
    <3> DEFINE f == canq[1]
    <3>1. belt' = [belt EXCEPT ![f.zone] =
                     [status |-> f.cmd, type |-> f.type, dir |-> f.dir]]
      BY <1>1, <2>2 DEF RecvStartCmd, LoseStartCmd, beltVars
    <3>2. f.zone = Last => f.cmd = "stop"
      <4>1. 1 \in 1 .. Len(canq)
        BY <1>0, <1>2
      <4>2. f.zone = Last => Kind(f) \in Halt
        BY <4>1 DEF Still, Only
      <4> HIDE DEF f
      <4> QED
        BY <4>2 DEF Kind, Halt
    <3> HIDE DEF f
    <3> QED
      BY <3>1, <3>2, LastIs DEF Still, IInv, LineTyped
  <2> QED
    BY <2>1, <2>2
<1> QED
  BY <1>1, <1>3, <1>4 DEF Still

LEMMA StillDriven ==
  ASSUME IInv, Still, NEW z \in Zone, TriggerStop(z) \/ ApplyMotor(z)
  PROVE  Still'
<1>1. canq' = canq
  BY DEF TriggerStop, ApplyMotor
<1>2. belt[Last] \in Belt /\ Last \in Zone
  BY LastIs DEF IInv, LineTyped
<1>3. CASE TriggerStop(z)
  <2>1. /\ belt' = [belt EXCEPT ![z].status = "stop", ![z].type = "continue"]
        /\ motor' = [motor EXCEPT ![z] = FALSE]
    BY <1>3 DEF TriggerStop
  <2>2. motor'[Last] = FALSE
    BY <1>2, <2>1 DEF Still, IInv, LineTyped
  <2>3. belt'[Last].status # "run"
    BY <1>2, <2>1 DEF Still, IInv, LineTyped, Belt
  <2> QED
    BY <1>1, <2>2, <2>3 DEF Still, Only
<1>4. CASE ApplyMotor(z)
  <2>1. belt' = belt /\ motor' = [motor EXCEPT ![z] = Applied(z)]
    BY <1>4 DEF ApplyMotor
  <2>2. Applied(Last) = FALSE
    BY DEF Applied, Still
  <2>3. motor'[Last] = FALSE
    BY <1>2, <2>1, <2>2 DEF Still, IInv, LineTyped
  <2> QED
    BY <1>1, <2>1, <2>3 DEF Still, Only
<1> QED
  BY <1>3, <1>4

(* Frames and belts: nothing depends on them but whether the last stands.  *)
LEMMA BeltsAfter ==
  ASSUME AInv, Still => Still',
         UNCHANGED <<node, at, zoneState, delivered, box, asked, passes, hold>>
  PROVE  AInv'
<1>1. /\ Boxes' /\ Reports'
      /\ \A s \in Slot : Pos(s)' = Pos(s) /\ Behind(s)' = Behind(s)
  BY AfterSame DEF AInv, Boxes, Follows
<1>2. /\ \A s \in Slot : Due(s)' = Due(s) /\ (Barred(s) => Barred(s)')
      /\ Told(Last)' = Told(Last) /\ EndTaken' = EndTaken
  BY DEF Due, Knows, Told, EndTaken, Barred
<1>3. OnTime'
  BY <1>1, <1>2 DEF AInv, OnTime
<1>4. Held'
  BY <1>1, <1>2 DEF AInv, Held
<1> QED
  BY <1>1, <1>3, <1>4 DEF AInv

LEMMA FreeAfter ==
  ASSUME IInv, AInv, VisitFree
  PROVE  AInv'
<1>1. /\ node' = node /\ node[at].pkg = NoPkg /\ PassOn /\ CountPass
      /\ UNCHANGED <<box, delivered, zoneState, hold, asked, canq, belt, motor>>
  BY DEF VisitFree, beltVars
<1>2. /\ Boxes' /\ Reports'
      /\ \A s \in Slot : /\ Carries(s)' = Carries(s) /\ Pos(s)' = Pos(s)
                         /\ Behind(s)' = Behind(s)
  BY <1>1, AfterSame DEF AInv, Boxes, Follows
<1>3. Still' = Still /\ EndTaken' = EndTaken /\ Told(Last)' = Told(Last)
  BY <1>1 DEF Still, Only, EndTaken, Told
<1>4. Held'
  BY <1>1, <1>2, <1>3 DEF AInv, Held
<1>5. ASSUME NEW s \in Slot, Behind(s) PROVE Due(s) => Due(s)'
  <2>1. s # at
    BY <1>1, <1>5 DEF Behind, Carries
  <2> QED
    BY <1>1, <2>1, DueKept
<1>6. OnTime'
  BY <1>1, <1>2, <1>3, <1>5 DEF AInv, OnTime, Barred
<1> QED
  BY <1>2, <1>4, <1>6 DEF AInv

(* A package kept out of the last zone does not start its belt.            *)
LEMMA StillKept ==
  ASSUME IInv, Still, VisitKeeps, node[at].cur = Before, zoneState[Last] # {}
  PROVE  Still'
<1>0. PICK a \in Slot : a = at
  BY TimeTyped
<1>1. PICK n \in Node : n = Observed(node[a])
  BY ObservedSees
<1>2. /\ Before \in Int /\ Before + 1 = Last /\ Before < Last /\ Last \in Int
      /\ Last \in Zone
  BY LastIs, Numbered DEF Before, Last
<1>3. n.cur = Before /\ node[a].cur = Before
  BY <1>0, <1>1, ObservedSees
<1>4. UNCHANGED <<belt, motor>>
  BY KeepsIs
<1>5. n.nextstat
  <2>1. 1 \in zoneState[Last] \/ 2 \in zoneState[Last]
    BY <1>2 DEF IInv, MasterTyped
  <2>2. /\ node'[at].nextstat = Observed(node[at]).nextstat
        /\ node'[at].nextstat <=> 2 \in zoneState[Last]
        /\ 1 \in zoneState[Last] => node'[at].nextstat
    BY <1>0, <1>2, <1>3, KeepsIs
  <2> QED
    BY <1>0, <1>1, <2>1, <2>2
<1>6. PICK cmds \in Seq(SafeCommand) :
        /\ Send(cmds)
        /\ \A z \in Zone : \A T :
             /\ n.cur = Last \/ z # n.cur - 1
             /\ Only(CurrentAndNext(n, TRUE), z, T)
             /\ Only(CurrentAndNext(n, FALSE), z, T)
             => Only(cmds, z, T)
  BY <1>0, <1>1, KeepsSends
<1>7. \A fresh \in BOOLEAN : Only(CurrentAndNext(n, fresh), Last, Halt)
  BY <1>3, <1>5, CurrentAndNextTells
<1>8. Only(cmds, Last, Halt)
  <2>1. Last # n.cur - 1
    BY <1>2, <1>3
  <2> QED
    BY <1>2, <1>6, <1>7, <2>1
<1>9. Only(canq, Last, Halt)'
  BY <1>6, <1>8, SentOnly DEF Still
<1> QED
  BY <1>4, <1>9 DEF Still

(* A package that stays in its zone could not have been moved on, unless   *)
(* the last zone is taken.                                                 *)
LEMMA KeepsAfter ==
  ASSUME IInv, AInv, VisitKeeps
  PROVE  AInv'
<1>0. PICK a \in Slot : a = at
  BY TimeTyped
<1> DEFINE c == node[a].cur
<1>1. /\ Carries(a) /\ node'[a].pkg = node[a].pkg /\ node'[a].cur = c
      /\ node'[a].last = c
      /\ c < Last => /\ node'[a].nextstat <=> 2 \in zoneState[c + 1]
                     /\ 1 \in zoneState[c + 1] => node'[a].nextstat
      /\ \A s \in Slot \ {a} : node'[s] = node[s]
      /\ PassOn /\ CountPass
      /\ UNCHANGED <<zoneState, delivered, box, asked, hold>>
  BY <1>0, KeepsIs
<1>2. c \in Int /\ 0 <= c /\ c <= Last
  BY Typed
<1>3. /\ Boxes' /\ Reports'
      /\ \A s \in Slot :
           /\ Carries(s)' = Carries(s) /\ Pos(s)' = Pos(s)
           /\ Ahead(s)' = Ahead(s) /\ Behind(s)' = Behind(s)
  <2>1. ASSUME NEW s \in Slot
        PROVE  /\ node'[s].pkg = node[s].pkg /\ node'[s].cur = node[s].cur
               /\ node'[s].last <= node'[s].cur
    BY <1>1, <1>2 DEF AInv, Boxes, Follows
  <2> QED
    BY <1>1, <2>1, AfterSame DEF AInv
<1>4. ASSUME NEW s \in Slot, Behind(s)
      PROVE  s = a /\ c < Last /\ Pos(a) \in 4 * c .. 4 * c + 5 /\ Behind(a)
  <2>1. s = a
    BY <1>1, <1>4, CarriedIs DEF AInv, Behind
  <2> QED
    BY <1>4, <2>1 DEF AInv, Boxes, Follows, Behind
<1>5. ASSUME c = Before, zoneState[Last] # {}, Still PROVE Still'
  BY <1>0, <1>5, StillKept
<1>6. ASSUME Behind(a), Pos(a) >= 4 * Last
      PROVE  c = Before
  BY <1>2, <1>4, <1>6, LastIs, Numbered DEF Last, Before
<1>7. Told(Last)' = Told(Last) /\ EndTaken' = EndTaken
  BY <1>1 DEF Told, EndTaken
<1>8. Held'
  <2> SUFFICES ASSUME Behind(a), Pos(a) >= 4 * Last,
                      \/ EndTaken /\ hold < 2
                      \/ Told(Last) /\ 2 \in zoneState[Last]
               PROVE  Still'
    BY <1>1, <1>3, <1>4, <1>7 DEF Held
  <2>1. Still
    BY DEF AInv, Held
  <2>2. 2 \in zoneState[Last]
    <3>1. Pos(a) > 2
      BY <1>1, Geometry, CarriedIs DEF AInv
    <3> QED
      BY <1>1, <3>1, CarriedIs DEF AInv, Reports, EndKnown
  <2> QED
    BY <1>5, <1>6, <2>1, <2>2
<1>9. ASSUME Behind(a), Pos(a) = 4 * c + 4, hold = 1, asked = {}
      PROVE  Barred(a)
  <2>1. c < Last /\ c + 1 \in Zone /\ Told(c + 1)
    BY <1>2, <1>9, ZoneIs, LastIs DEF Behind, Told
  <2>2. 1 \in zoneState[c + 1]
    BY <1>1, <1>2, <1>9, <2>1 DEF AInv, Reports, EntryTold
  <2>3. 2 \in zoneState[c + 1]
    BY <1>1, <2>1, <2>2
  <2>4. c + 1 = Last
    <3>1. ASSUME c + 1 # Last PROVE FALSE
      <4>1. PICK s \in Slot : /\ Carries(s)
                              /\ Pos(s) \in 4 * (c + 1) + 3 .. 4 * (c + 1) + 5
        BY <2>1, <2>3, <3>1 DEF AInv, Reports, ExitHeard
      <4>2. s = a
        BY <1>1, <4>1, CarriedIs DEF AInv
      <4> QED
        BY <1>2, <1>9, <4>1, <4>2
    <3> QED
      BY <3>1
  <2>5. Pos(a) >= 4 * Last
    BY <1>2, <1>9, <2>4
  <2>6. Still
    BY <1>9, <2>1, <2>3, <2>4, <2>5 DEF AInv, Held
  <2> QED
    BY <1>6, <1>9, <2>3, <2>4, <2>5, <2>6 DEF Barred
<1>10. Barred(a) => Barred(a)'
  BY <1>1, <1>5 DEF Barred
<1>11. OnTime'
  <2>1. ASSUME Behind(a), Pos(a) = 4 * c + 4 PROVE Due(a)' \/ Barred(a)'
    <3>1. Due(a) \/ Barred(a)
      BY <2>1 DEF AInv, OnTime
    <3>2. Due(a) => Due(a)' \/ (hold = 1 /\ asked = {})
      BY <1>1, DueKept
    <3> QED
      BY <1>9, <1>10, <2>1, <3>1, <3>2
  <2>2. ASSUME Behind(a), Pos(a) = 4 * c + 5 PROVE Barred(a)'
    BY <1>10, <2>2 DEF AInv, OnTime
  <2> QED
    BY <1>1, <1>3, <1>4, <2>1, <2>2 DEF OnTime
<1> QED
  BY <1>3, <1>8, <1>11 DEF AInv

(* A package that is moved on has its box on the next zone's entry; one    *)
(* moved on to the last zone finds no other box there.                     *)
LEMMA AdvancesAfter ==
  ASSUME IInv, AInv, VisitAdvances
  PROVE  AInv'
<1>0. PICK a \in Slot : a = at
  BY TimeTyped
<1> DEFINE c == node[a].cur
<1>1. /\ Carries(a) /\ c \in Int /\ 0 <= c /\ c < Last
      /\ Behind(a) /\ c + 1 \in Zone
      /\ 1 \in zoneState[c + 1] /\ 2 \notin zoneState[c + 1]
      /\ node' = [node EXCEPT ![at] = node'[at]]
      /\ node'[a].pkg = node[a].pkg /\ node'[a].cur = c + 1
      /\ node'[a].last = node[a].last
      /\ \A s \in Slot \ {a} : node'[s] = node[s]
      /\ PassOn /\ CountPass
      /\ UNCHANGED <<zoneState, delivered, box, asked, hold>>
  BY <1>0, AdvancesWhen
<1>2. Boxes /\ Reports /\ Last \in Int
  BY LastIs DEF AInv
<1>3. Pos(a) \in 4 * c + 4 .. 4 * c + 5
  <2>1. PICK s \in Slot : /\ Carries(s)
                          /\ Pos(s) \in 4 * (c + 1) .. 4 * (c + 1) + 2
    BY <1>1, <1>2 DEF Reports, EntryHeard
  <2>2. s = a
    BY <1>1, <1>2, <2>1, CarriedIs
  <2>3. Pos(a) \in 4 * c .. 4 * c + 5
    BY <1>1, <1>2 DEF Boxes, Follows
  <2> QED
    BY <1>1, <2>1, <2>2, <2>3
<1>4. /\ \A s \in Slot : /\ node'[s].pkg = node[s].pkg
                         /\ Carries(s)' = Carries(s) /\ Pos(s)' = Pos(s)
      /\ \A p \in Pkg : Carried(p)' = Carried(p)
  BY <1>0, <1>1, SamePackages
<1>5. ASSUME NEW s \in Slot, s # a
      PROVE  ~Carries(s)' /\ ~Ahead(s)' /\ ~Behind(s)' /\ node'[s] = node[s]
  <2>1. ~Carries(s)'
    BY <1>1, <1>2, <1>4, <1>5, CarriedIs
  <2> QED
    BY <1>1, <1>5, <2>1 DEF Ahead, Behind
<1>6. /\ Ahead(a)' <=> c + 1 = Last
      /\ Behind(a)' <=> c + 1 < Last
  BY <1>1, <1>4 DEF Ahead, Behind
<1>7. Single' /\ Idle'
  BY <1>1, <1>2, <1>4 DEF Boxes, Single, Idle
<1>8. Follows'
  <2>1. \A s \in Slot : node[s].last <= node[s].cur /\ node[s].last \in Int
    BY <1>2, Typed DEF Boxes, Follows
  <2>2. \A s \in Slot : node'[s].last <= node'[s].cur
    BY <1>1, <2>1
  <2>3. Pos(a)' \in 4 * (c + 1) .. 4 * (c + 1) + 1 /\ AtEnd = 4 * Last + 3
    BY <1>1, <1>3, <1>4, Geometry
  <2>4. /\ Ahead(a)' => Pos(a)' \in 4 * Last .. AtEnd
        /\ Behind(a)' => Pos(a)' \in 4 * node'[a].cur .. 4 * node'[a].cur + 5
    BY <1>1, <1>2, <1>6, <2>3
  <2> QED
    BY <1>5, <2>2, <2>4 DEF Follows
<1>9. EndTaken' = EndTaken /\ \A z : Told(z)' = Told(z)
  BY <1>1 DEF EndTaken, Told
<1>10. EndClear'
  <2>1. ASSUME c + 1 = Last PROVE ~EndTaken
    <3>1. EndTaken => Pos(a) <= 2
      BY <1>1, <1>2, <2>1 DEF Reports, EndKnown
    <3> QED
      BY <1>1, <1>3, <3>1
  <2> QED
    BY <1>5, <1>6, <1>9, <2>1 DEF EndClear
<1>11. EntryHeard' /\ ExitHeard' /\ EntryTold'
  BY <1>1, <1>2, <1>4, <1>9 DEF Reports, EntryHeard, ExitHeard, EntryTold
<1>12. EndSeen' /\ EndKnown'
  <2>1. 2 \in zoneState'[Last] => ~Ahead(a)'
    BY <1>1, <1>6
  <2>2. EndTaken' /\ 2 \notin zoneState'[Last]
          => Pos(a)' <= 2 /\ (hold' = 2 \/ (hold' = 1 /\ Last \div 2 \in asked'))
    BY <1>1, <1>2, <1>4, <1>9 DEF Reports, EndKnown
  <2> QED
    BY <1>5, <2>1, <2>2 DEF EndSeen, EndKnown
(* It is still behind only if it is far from the end.                      *)
<1>13. Held' /\ OnTime'
  <2>1. Behind(a)' => Pos(a)' < 4 * Last
    BY <1>1, <1>2, <1>3, <1>4, <1>6
  <2>2. Pos(a)' # 4 * node'[a].cur + 4 /\ Pos(a)' # 4 * node'[a].cur + 5
    BY <1>1, <1>3, <1>4
  <2>3. Pos(a)' \in Int
    BY <1>1, <1>3, <1>4
  <2> QED
    BY <1>2, <1>5, <2>1, <2>2, <2>3 DEF Held, OnTime
<1> QED
  BY <1>7, <1>8, <1>10, <1>11, <1>12, <1>13 DEF AInv, Boxes, Reports

(* A package that is delivered leaves nobody to be carried.                *)
LEMMA DeliversAfter ==
  ASSUME IInv, AInv, VisitDelivers
  PROVE  AInv'
<1>0. PICK a \in Slot : a = at
  BY TimeTyped
<1>1. /\ Ahead(a) /\ Pos(a) = AtEnd /\ node[a].pkg \in Pkg
      /\ delivered' = delivered \cup {node[a].pkg}
      /\ zoneState' = [zoneState EXCEPT ![Last] = {}]
      /\ ~Carries(a)' /\ node'[a].last <= node'[a].cur
      /\ \A s \in Slot \ {a} : node'[s] = node[s]
      /\ UNCHANGED <<box, asked, hold>>
  BY <1>0, DeliversIs DEF AInv, Reports
<1>2. Boxes /\ Reports /\ Carries(a)
  BY <1>1 DEF AInv, Ahead
<1>3. ASSUME NEW s \in Slot PROVE ~Carries(s)' /\ ~Ahead(s)' /\ ~Behind(s)'
  <2>1. s # a => ~Carries(s)
    BY <1>2, CarriedIs
  <2>2. ~Carries(s)'
    BY <1>1, <2>1 DEF Carries
  <2> QED
    BY <2>2 DEF Ahead, Behind
<1>4. Single' /\ EndClear'
  BY <1>3 DEF Single, EndClear
<1>5. Idle'
  <2>1. ASSUME NEW p \in Pkg PROVE ~Carried(p)'
    <3>1. ASSUME NEW s \in Slot, node'[s].pkg = p PROVE FALSE
      BY <1>3, <3>1, Numbered DEF Carries
    <3> QED
      BY <3>1 DEF Carried
  <2>2. ASSUME NEW p \in Pkg, Carried(p) PROVE p = node[a].pkg
    <3>1. PICK s \in Slot : node[s].pkg = p
      BY <2>2 DEF Carried
    <3>2. Carries(s)
      BY <3>1, Numbered DEF Carries
    <3> QED
      BY <1>2, <3>1, <3>2, CarriedIs
  <2>3. box[node[a].pkg] = AtEnd
    BY <1>1 DEF Pos
  <2> QED
    BY <1>1, <1>2, <2>1, <2>2, <2>3 DEF Boxes, Idle
<1>6. Follows'
  BY <1>1, <1>2, <1>3 DEF Boxes, Follows
<1>7. zoneState'[Last] = {} /\ \A z \in Zone \ {Last} : zoneState'[z] = zoneState[z]
  BY <1>1, LastIs DEF IInv, MasterTyped
<1>8. ASSUME NEW z \in Zone \ {Last}, NEW s \in Slot, Carries(s)
      PROVE  Pos(s) \in Int /\ Pos(s) > 4 * z + 5
  <2>1. s = a /\ z \in Int /\ z <= Last
    BY <1>2, <1>8, CarriedIs, ZoneIs
  <2> QED
    BY <1>1, <2>1, Geometry
<1>9. ASSUME NEW z \in Zone PROVE zoneState'[z] \cap {1, 2} = {}
  <2>1. CASE z = Last
    BY <1>7, <2>1
  <2>2. CASE z # Last
    <3>1. z \in Int
      BY ZoneIs
    <3>2. 1 \notin zoneState[z]
      BY <1>2, <1>8, <2>2, <3>1 DEF Reports, EntryHeard
    <3>3. 2 \notin zoneState[z]
      BY <1>2, <1>8, <2>2, <3>1 DEF Reports, ExitHeard
    <3> QED
      BY <1>7, <2>2, <3>2, <3>3
  <2> QED
    BY <2>1, <2>2
<1>10. Reports'
  BY <1>3, <1>9 DEF Reports, EntryHeard, ExitHeard, EntryTold, EndSeen, EndKnown
<1>11. Held' /\ OnTime'
  BY <1>3 DEF Held, OnTime
<1> QED
  BY <1>4, <1>5, <1>6, <1>10, <1>11 DEF AInv, Boxes

(* A new package finds none carried, and the report of none.               *)
LEMMA NewAfter ==
  ASSUME AfterDelivery, IInv, AInv, NEW p \in Pkg, RecvPkgTrans(p)
  PROVE  AInv'
<1>1. PICK a \in Slot :
        node' = [node EXCEPT ![a] = [FreeNode EXCEPT !.pkg = p]]
  BY DEF RecvPkgTrans
<1>2. /\ box[p] = Away /\ hold' = 2
      /\ \A s \in InTransport : node[s].cur >= Spacing
      /\ UNCHANGED <<zoneState, delivered, asked>>
  BY DEF RecvPkgTrans
<1>3. /\ box'[p] \in {1, 2} /\ \A q \in Pkg \ {p} : box'[q] = box[q]
  BY DEF RecvPkgTrans, IInv, LineTyped
<1>4. Boxes /\ Reports
  BY DEF AInv
<1>5. ASSUME NEW s \in Slot PROVE ~Carries(s)
  <2>1. Carries(s) => node[s].cur >= Spacing
    BY <1>2 DEF Carries, InTransport
  <2>2. node[s].cur \in Int /\ node[s].cur <= Last /\ Spacing \in Nat
        /\ Spacing >= Last + 1
    BY Typed, Numbered, ConveyorAssumption DEF AfterDelivery, Last
  <2> QED
    BY <2>1, <2>2, LastIs
<1>6. /\ node'[a].pkg = p /\ node'[a].cur = 0 /\ node'[a].last = NoFrame
      /\ \A s \in Slot \ {a} : node'[s] = node[s]
  BY <1>1 DEF FreeNode, IInv, MasterTyped
<1>7. ASSUME NEW s \in Slot, s # a
      PROVE  ~Carries(s)' /\ ~Ahead(s)' /\ ~Behind(s)'
  BY <1>5, <1>6, <1>7 DEF Carries, Ahead, Behind
<1>8. ~Ahead(a)' /\ Behind(a)' /\ Pos(a)' \in {1, 2}
  BY <1>3, <1>6, Numbered, Geometry DEF Ahead, Behind, Carries, Pos
<1>9. Single' /\ EndClear'
  BY <1>7, <1>8 DEF Single, EndClear
<1>10. Idle'
  <2>1. ASSUME NEW q \in Pkg PROVE ~Carried(q)
    BY <1>5, Numbered DEF Carried, Carries
  <2>2. Carried(p)'
    BY <1>6 DEF Carried
  <2>3. p \notin delivered
    BY <1>2, <1>4, Geometry DEF Boxes, Idle
  <2>4. ASSUME NEW q \in Pkg, q # p PROVE ~Carried(q)'
    <3>1. ASSUME NEW s \in Slot, node'[s].pkg = q PROVE FALSE
      BY <1>6, <2>1, <2>4, <3>1 DEF Carried
    <3> QED
      BY <3>1 DEF Carried
  <2> QED
    BY <1>2, <1>3, <1>4, <2>1, <2>2, <2>3, <2>4 DEF Boxes, Idle
<1>11. Follows'
  <2>1. \A s \in Slot \ {a} : node'[s].last <= node'[s].cur
    BY <1>4, <1>6 DEF Boxes, Follows
  <2>2. node'[a].last <= node'[a].cur
    BY <1>6 DEF NoFrame
  <2>3. Pos(a)' \in 4 * node'[a].cur .. 4 * node'[a].cur + 5
    BY <1>6, <1>8
  <2> QED
    BY <1>7, <1>8, <2>1, <2>2, <2>3 DEF Follows
<1>12. \A z : ~Told(z)'
  BY <1>2 DEF Told
<1>13. EntryHeard' /\ ExitHeard' /\ EntryTold'
  BY <1>2, <1>4, <1>5, <1>12 DEF Reports, EntryHeard, ExitHeard, EntryTold
<1>14. EndSeen' /\ EndKnown'
  BY <1>2, <1>7, <1>8 DEF EndSeen, EndKnown
<1>15. Held'
  <2>1. ~(Pos(a)' >= 4 * Last)
    BY <1>8, Geometry
  <2> QED
    BY <1>7, <2>1 DEF Held
<1>16. OnTime'
  <2>1. Pos(a)' # 4 * node'[a].cur + 4 /\ Pos(a)' # 4 * node'[a].cur + 5
    BY <1>6, <1>8
  <2> QED
    BY <1>7, <2>1 DEF OnTime
<1> QED
  BY <1>9, <1>10, <1>11, <1>13, <1>14, <1>15, <1>16 DEF AInv, Boxes, Reports

(* When the boards are asked, the last belt stands under a delivered box.  *)
LEMMA StillAsked ==
  ASSUME IInv, AskModuleState, EndTaken
  PROVE  Still'
<1>1. /\ canq = <<>> /\ canq' = canq /\ belt' = belt /\ motor' = motor
      /\ ~Triggered(Last) /\ motor[Last] = Applied(Last)
  BY LastIs DEF AskModuleState, Settled, beltVars
<1>2. 2 \in Covered(Last)
  <2>1. PICK p \in Pkg : box[p] = AtEnd
    BY DEF EndTaken, IInv, MasterTyped
  <2> QED
    BY <2>1, CoveredIs, LastIs, Geometry
<1>3. belt[Last].status # "run"
  BY <1>1, <1>2 DEF Triggered, IInv, BeltsSafe
<1>4. motor[Last] = FALSE
  BY <1>1, <1>3, LastIs DEF Applied, IInv, BeltsSafe
<1>5. Only(canq, Last, Halt)'
  BY <1>1, OnlyNone
<1> QED
  BY <1>1, <1>3, <1>4, <1>5 DEF Still

LEMMA AskAfter ==
  ASSUME IInv, AInv, AskModuleState
  PROVE  AInv'
<1>1. /\ asked = {} /\ passes = 2 /\ asked' = Board /\ passes' = 0
      /\ hold' = IF hold > 0 THEN hold - 1 ELSE 0
      /\ UNCHANGED <<node, at, zoneState, delivered, box, canq, belt, motor>>
  BY DEF AskModuleState, Settled, masterVars, beltVars
<1>2. Boxes /\ Reports /\ Held /\ OnTime
  BY DEF AInv
<1>3. hold \in {0, 1, 2}
  BY TimeTyped
<1>4. \A z \in Zone : z \div 2 \in Board
  BY DEF Board
<1>5. Board # {}
  BY <1>4, LastIs
<1>6. ASSUME NEW s \in Slot
      PROVE  /\ Carries(s)' = Carries(s) /\ Pos(s)' = Pos(s)
             /\ Ahead(s)' = Ahead(s) /\ Behind(s)' = Behind(s)
  BY <1>1, SlotSame
<1>7. EndTaken' = EndTaken /\ Still' = Still
  BY <1>1 DEF EndTaken, Still, Only
<1>8. Boxes'
  BY <1>1, <1>2, <1>6, <1>7
     DEF Boxes, Single, Idle, Carried, Follows, EndClear
<1>9. ASSUME NEW s \in Slot PROVE Due(s) <=> Due(s)'
  BY <1>1, <1>3, <1>5 DEF Due, Knows
<1>10. OnTime'
  BY <1>1, <1>2, <1>6, <1>7, <1>9 DEF OnTime, Barred
<1>11. ASSUME NEW z \in Zone PROVE Told(z)' => Told(z)
  BY <1>1, <1>3, <1>4 DEF Told
<1>12. EntryHeard' /\ ExitHeard' /\ EntryTold'
  BY <1>1, <1>2, <1>6, <1>11 DEF Reports, EntryHeard, ExitHeard, EntryTold
<1>13. EndSeen'
  BY <1>1, <1>2, <1>6 DEF Reports, EndSeen
<1>14. EndKnown'
  <2> SUFFICES ASSUME NEW s \in Slot, Behind(s), EndTaken,
                      2 \notin zoneState[Last]
               PROVE  /\ Pos(s) <= 2
                      /\ hold' = 2 \/ (hold' = 1 /\ Last \div 2 \in asked')
    BY <1>1, <1>6, <1>7 DEF EndKnown
  <2>1. Pos(s) <= 2 /\ hold = 2
    BY <1>1, <1>2 DEF Reports, EndKnown
  <2> QED
    BY <1>1, <1>4, <2>1, LastIs
<1>15. Held'
  <2>1. EndTaken => Still'
    BY StillAsked
  <2> QED
    BY <1>1, <1>2, <1>6, <1>7, <1>11, <2>1, LastIs DEF Held
<1> QED
  BY <1>8, <1>10, <1>12, <1>13, <1>14, <1>15 DEF AInv, Reports

LEMMA StatusAfter ==
  ASSUME IInv, AInv, NEW b \in Board, ModuleStatus(b)
  PROVE  AInv'
<1>1. /\ asked' = asked \ {b} /\ passes' = 0 /\ b \in asked
      /\ zoneState' = [z \in Zone |-> IF z \div 2 = b THEN Covered(z)
                                      ELSE zoneState[z]]
      /\ UNCHANGED <<node, at, delivered, box, hold, canq, belt, motor>>
  BY DEF ModuleStatus, beltVars
<1>2. Boxes /\ Reports /\ Held /\ OnTime
  BY DEF AInv
<1>3. hold \in {0, 1, 2}
  BY TimeTyped
<1>4. ASSUME NEW s \in Slot
      PROVE  /\ Carries(s)' = Carries(s) /\ Pos(s)' = Pos(s)
             /\ Ahead(s)' = Ahead(s) /\ Behind(s)' = Behind(s)
  BY <1>1, SlotSame
<1>5. EndTaken' = EndTaken /\ Still' = Still
  BY <1>1 DEF EndTaken, Still, Only
<1>6. Boxes'
  BY <1>1, <1>2, <1>4, <1>5
     DEF Boxes, Single, Idle, Carried, Follows, EndClear
<1>7. ASSUME NEW z \in Zone
      PROVE  \/ z \div 2 = b /\ zoneState'[z] = Covered(z)
             \/ /\ z \div 2 # b /\ zoneState'[z] = zoneState[z]
                /\ Told(z)' = Told(z)
  BY <1>1 DEF Told
<1>8. EntryHeard'
  <2> SUFFICES ASSUME NEW z \in Zone, 1 \in zoneState'[z]
               PROVE  \E s \in Slot :
                        /\ Carries(s)' /\ Pos(s)' \in 4 * z .. 4 * z + 2
                        /\ Told(z)' => Pos(s)' <= 4 * z + 1
    BY DEF EntryHeard
  <2>1. CASE zoneState'[z] = Covered(z)
    <3>1. PICK p \in Pkg : box[p] \in 4 * z .. 4 * z + 1
      BY <2>1, CoveredIs
    <3>2. z \in Int /\ box[p] >= 0 /\ box[p] < AtEnd
      BY <3>1, ZoneIs, Geometry
    <3>3. PICK s \in Slot : Carries(s) /\ Pos(s) = box[p]
      BY <1>2, <3>2, BoxOf DEF Boxes
    <3> QED
      BY <1>4, <3>1, <3>2, <3>3
  <2>2. CASE zoneState'[z] = zoneState[z] /\ Told(z)' = Told(z)
    BY <1>2, <1>4, <2>2 DEF Reports, EntryHeard
  <2> QED
    BY <1>7, <2>1, <2>2
<1>9. ExitHeard'
  <2> SUFFICES ASSUME NEW z \in Zone \ {Last}, 2 \in zoneState'[z]
               PROVE  \E s \in Slot :
                        /\ Carries(s)' /\ Pos(s)' \in 4 * z + 3 .. 4 * z + 5
                        /\ Told(z)' => Pos(s)' <= 4 * z + 4
    BY DEF ExitHeard
  <2>1. CASE zoneState'[z] = Covered(z)
    <3>1. PICK p \in Pkg : box[p] \in 4 * z + 3 .. 4 * z + 4
      BY <2>1, CoveredIs
    <3>2. z \in Int /\ box[p] >= 0 /\ box[p] < AtEnd
      BY <3>1, ZoneIs, Geometry
    <3>3. PICK s \in Slot : Carries(s) /\ Pos(s) = box[p]
      BY <1>2, <3>2, BoxOf DEF Boxes
    <3> QED
      BY <1>4, <3>1, <3>2, <3>3
  <2>2. CASE zoneState'[z] = zoneState[z] /\ Told(z)' = Told(z)
    BY <1>2, <1>4, <2>2 DEF Reports, ExitHeard
  <2> QED
    BY <1>7, <2>1, <2>2
<1>10. ASSUME NEW z \in Zone, zoneState'[z] = Covered(z), NEW s \in Slot,
              Carries(s), Pos(s) \in 4 * z .. 4 * z + 1
       PROVE  1 \in zoneState'[z]
  <2>1. node[s].pkg \in Pkg /\ box[node[s].pkg] \in 4 * z .. 4 * z + 1
    BY <1>10, Typed DEF Pos
  <2> QED
    BY <1>10, <2>1, CoveredIs
<1>11. EntryTold'
  <2> SUFFICES ASSUME NEW z \in Zone, NEW s \in Slot, Carries(s), Told(z)',
                      Pos(s) \in 4 * z .. 4 * z + 1
               PROVE  1 \in zoneState'[z]
    BY <1>4 DEF EntryTold
  <2>1. CASE zoneState'[z] = Covered(z)
    BY <1>10, <2>1
  <2>2. CASE zoneState'[z] = zoneState[z] /\ Told(z)' = Told(z)
    BY <1>2, <2>2 DEF Reports, EntryTold
  <2> QED
    BY <1>7, <2>1, <2>2
(* The board of the last zone sees the box carried or a delivered one.     *)
<1>12. 2 \in Covered(Last) <=> \E p \in Pkg : box[p] = AtEnd
  BY CoveredIs, LastIs, Geometry
<1>13. EndTaken => 2 \in Covered(Last)
  BY <1>12 DEF EndTaken, IInv, MasterTyped
<1>14. ASSUME NEW s \in Slot, Carries(s), 2 \in Covered(Last)
       PROVE  EndTaken \/ Pos(s) = AtEnd
  <2>1. PICK p \in Pkg : box[p] = AtEnd
    BY <1>12, <1>14
  <2>2. CASE p \in delivered
    BY <2>1, <2>2 DEF EndTaken
  <2>3. CASE p \notin delivered
    <3>1. Carried(p)
      BY <1>2, <2>1, <2>3, Geometry DEF Boxes, Idle
    <3>2. PICK t \in Slot : node[t].pkg = p
      BY <3>1 DEF Carried
    <3>3. t = s
      BY <1>2, <1>14, <3>2, CarriedIs, Numbered DEF Carries
    <3> QED
      BY <2>1, <3>2, <3>3 DEF Pos
  <2> QED
    BY <2>2, <2>3
<1>15. EndSeen'
  <2> SUFFICES ASSUME NEW s \in Slot, Ahead(s), 2 \in zoneState'[Last]
               PROVE  Pos(s) = AtEnd
    BY <1>4 DEF EndSeen
  <2>1. CASE zoneState'[Last] = Covered(Last)
    BY <1>2, <1>14, <2>1 DEF Boxes, EndClear, Ahead
  <2>2. CASE zoneState'[Last] = zoneState[Last]
    BY <1>2, <2>2 DEF Reports, EndSeen
  <2> QED
    BY <1>7, <2>1, <2>2, LastIs
<1>16. EndKnown'
  <2> SUFFICES ASSUME NEW s \in Slot, Behind(s), EndTaken,
                      2 \notin zoneState'[Last]
               PROVE  /\ Pos(s) <= 2
                      /\ hold = 2 \/ (hold = 1 /\ Last \div 2 \in asked')
    BY <1>1, <1>4, <1>5 DEF EndKnown
  <2>1. Last \div 2 # b /\ zoneState'[Last] = zoneState[Last]
    BY <1>7, <1>13, LastIs
  <2> QED
    BY <1>1, <1>2, <2>1 DEF Reports, EndKnown
<1>17. Held'
  <2> SUFFICES ASSUME NEW s \in Slot, Behind(s), Pos(s) >= 4 * Last,
                      \/ EndTaken /\ hold < 2
                      \/ Told(Last)' /\ 2 \in zoneState'[Last]
               PROVE  Still
    BY <1>1, <1>4, <1>5 DEF Held
  <2>1. CASE EndTaken /\ hold < 2
    BY <1>2, <2>1 DEF Held
  <2>2. CASE Told(Last)' /\ 2 \in zoneState'[Last]
    <3>1. CASE zoneState'[Last] = Covered(Last)
      <4>1. Carries(s) /\ Pos(s) # AtEnd
        BY <1>2, CarriedIs, Geometry DEF Behind
      <4>2. EndTaken
        BY <1>14, <2>2, <3>1, <4>1
      <4>3. hold < 2
        BY <1>1, <2>2 DEF Told
      <4> QED
        BY <1>2, <4>2, <4>3 DEF Held
    <3>2. CASE zoneState'[Last] = zoneState[Last] /\ Told(Last)' = Told(Last)
      BY <1>2, <2>2, <3>2 DEF Held
    <3> QED
      BY <1>7, <3>1, <3>2, LastIs
  <2> QED
    BY <2>1, <2>2
<1>18. OnTime'
  <2>1. \A s \in Slot : Due(s) => Due(s)'
    BY <1>1 DEF Due, Knows
  <2>2. ASSUME NEW s \in Slot, Behind(s), Barred(s),
               Pos(s) \in 4 * node[s].cur + 4 .. 4 * node[s].cur + 5
        PROVE  Barred(s)'
    <3>1. 4 * node[s].cur + 4 = 4 * Last /\ 4 * node[s].cur + 5 = 4 * Last + 1
      BY <2>2, Numbered DEF Barred, Before, Last
    <3>2. zoneState'[Last] # {}
      <4>1. CASE zoneState'[Last] = Covered(Last)
        <5>1. 1 \in zoneState'[Last]
          BY <1>10, <2>2, <3>1, <4>1, LastIs DEF Behind
        <5> QED
          BY <5>1
      <4>2. CASE zoneState'[Last] = zoneState[Last]
        BY <2>2, <4>2 DEF Barred
      <4> QED
        BY <1>7, <4>1, <4>2, LastIs
    <3> QED
      BY <1>1, <1>5, <2>2, <3>2 DEF Barred
  <2>3. \A s \in Slot : node[s].cur \in Int
    BY Typed
  <2> QED
    BY <1>1, <1>2, <1>4, <2>1, <2>2, <2>3 DEF OnTime
<1> QED
  BY <1>6, <1>8, <1>9, <1>11, <1>15, <1>16, <1>17, <1>18 DEF AInv, Reports

(* The box moves, if it does, by a quarter of a zone; at the entry of a    *)
(* last zone that was taken it does not.                                   *)
LEMMA MoveAfter ==
  ASSUME IInv, AInv, Move
  PROVE  AInv'
<1>1. /\ hold = 0 /\ hold' = 2
      /\ UNCHANGED <<node, at, zoneState, delivered, asked, passes, canq, belt,
                     motor>>
      /\ \A p \in Pkg : \/ box'[p] = box[p]
                        \/ /\ box'[p] = box[p] + 1 /\ box[p] >= 0
                           /\ box[p] < AtEnd
                           /\ \E z \in Under(p) : motor[z] = TRUE
  BY MoveIs
<1>2. Boxes /\ Reports /\ OnTime
  BY DEF AInv
<1>3. ASSUME NEW s \in Slot
      PROVE  /\ Carries(s)' = Carries(s) /\ Ahead(s)' = Ahead(s)
             /\ Behind(s)' = Behind(s) /\ node'[s] = node[s]
             /\ (Ahead(s) => Carries(s)) /\ (Behind(s) => Carries(s))
  BY <1>1 DEF Carries, Ahead, Behind
<1>4. ASSUME NEW s \in Slot, Carries(s)
      PROVE  /\ node[s].pkg \in Pkg /\ Pos(s) \in Int /\ Pos(s)' \in Int
             /\ \/ Pos(s)' = Pos(s)
                \/ Pos(s)' = Pos(s) + 1 /\ Pos(s) < AtEnd
  <2>1. node[s].pkg \in Pkg /\ Pos(s) \in Int /\ node'[s] = node[s]
    BY <1>3, <1>4, Typed
  <2>2. \/ Pos(s)' = Pos(s)
        \/ Pos(s)' = Pos(s) + 1 /\ Pos(s) < AtEnd
    BY <1>1, <2>1 DEF Pos
  <2> QED
    BY <2>1, <2>2
<1>5. Told(Last) /\ \A z : Told(z) /\ ~Told(z)'
  BY <1>1 DEF Told
<1>6. Still' = Still
  BY <1>1 DEF Still, Only
<1>7. Single'
  BY <1>2, <1>3 DEF Boxes, Single
<1>8. \A p \in Pkg : box[p] \in {AtEnd, Taken, Away} => box'[p] = box[p]
  BY <1>1, Geometry
<1>9. Idle'
  <2>1. \A p \in Pkg : Carried(p)' = Carried(p)
    BY <1>1 DEF Carried
  <2> QED
    BY <1>1, <1>2, <1>8, <2>1 DEF Boxes, Idle
<1>10. EndTaken' = EndTaken
  <2>1. \A p \in delivered : box'[p] = box[p]
    BY <1>2, <1>8 DEF IInv, MasterTyped, Boxes, Idle
  <2> QED
    BY <1>1, <2>1 DEF EndTaken
<1>11. ASSUME NEW s \in Slot, Behind(s)
       PROVE  /\ Pos(s)' \in 4 * node[s].cur .. 4 * node[s].cur + 5
              /\ Pos(s)' = 4 * node[s].cur + 5 => Barred(s)
  <2>1. /\ Pos(s) \in 4 * node[s].cur .. 4 * node[s].cur + 5
        /\ node[s].cur \in Int
    BY <1>2, <1>11, Typed DEF Boxes, Follows
  <2>2. CASE Pos(s) < 4 * node[s].cur + 4
    BY <1>3, <1>4, <1>11, <2>1, <2>2
  <2>3. CASE Pos(s) = 4 * node[s].cur + 4
    <3>1. Barred(s)
      BY <1>1, <1>2, <1>11, <2>3 DEF OnTime, Due
    <3> QED
      BY <1>3, <1>4, <1>11, <2>1, <2>3, <3>1
  <2>4. CASE Pos(s) = 4 * node[s].cur + 5
    <3>1. Barred(s)
      BY <1>2, <1>11, <2>4 DEF OnTime
    <3>2. motor[Last] = FALSE /\ node[s].cur = Before
      BY <3>1 DEF Barred, Still
    <3>3. Pos(s) = 4 * Last + 1 /\ box[node[s].pkg] = Pos(s)
      BY <2>4, <3>2, Numbered DEF Before, Last, Pos
    <3>4. Under(node[s].pkg) = {Last}
      BY <1>3, <1>4, <1>11, <3>3, UnderIs, Geometry
    <3>5. box'[node[s].pkg] = box[node[s].pkg]
      BY <1>1, <1>3, <1>4, <1>11, <3>2, <3>4
    <3>6. Pos(s)' = Pos(s)
      BY <1>1, <3>5 DEF Pos
    <3> QED
      BY <2>1, <3>1, <3>6
  <2>5. \/ Pos(s) < 4 * node[s].cur + 4 \/ Pos(s) = 4 * node[s].cur + 4
        \/ Pos(s) = 4 * node[s].cur + 5
    BY <2>1
  <2> QED
    BY <2>2, <2>3, <2>4, <2>5
<1>12. Follows'
  <2>1. ASSUME NEW s \in Slot, Ahead(s) PROVE Pos(s)' \in 4 * Last .. AtEnd
    <3>1. Pos(s) \in 4 * Last .. AtEnd
      BY <1>2, <2>1 DEF Boxes, Follows
    <3> QED
      BY <1>3, <1>4, <2>1, <3>1, Geometry
  <2>2. \A s \in Slot : node[s].last <= node[s].cur
    BY <1>2 DEF Boxes, Follows
  <2> QED
    BY <1>3, <1>11, <2>1, <2>2 DEF Follows
<1>13. EndClear'
  BY <1>2, <1>3, <1>10 DEF Boxes, EndClear
<1>14. EntryHeard'
  <2> SUFFICES ASSUME NEW z \in Zone, 1 \in zoneState[z]
               PROVE  \E s \in Slot :
                        Carries(s)' /\ Pos(s)' \in 4 * z .. 4 * z + 2
    BY <1>1, <1>5 DEF EntryHeard
  <2>1. PICK s \in Slot : Carries(s) /\ Pos(s) \in 4 * z .. 4 * z + 1
    <3>1. z \in Int
      BY ZoneIs
    <3> QED
      BY <1>2, <1>5, <3>1 DEF Reports, EntryHeard
  <2>2. Pos(s)' \in 4 * z .. 4 * z + 2
    BY <1>4, <2>1, ZoneIs
  <2> QED
    BY <1>3, <2>1, <2>2
<1>15. ExitHeard'
  <2> SUFFICES ASSUME NEW z \in Zone \ {Last}, 2 \in zoneState[z]
               PROVE  \E s \in Slot :
                        Carries(s)' /\ Pos(s)' \in 4 * z + 3 .. 4 * z + 5
    BY <1>1, <1>5 DEF ExitHeard
  <2>1. PICK s \in Slot : Carries(s) /\ Pos(s) \in 4 * z + 3 .. 4 * z + 4
    <3>1. z \in Int
      BY ZoneIs
    <3> QED
      BY <1>2, <1>5, <3>1 DEF Reports, ExitHeard
  <2>2. Pos(s)' \in 4 * z + 3 .. 4 * z + 5
    BY <1>4, <2>1, ZoneIs
  <2> QED
    BY <1>3, <2>1, <2>2
<1>16. EntryTold'
  BY <1>5 DEF EntryTold
<1>17. EndSeen'
  <2>1. ASSUME NEW s \in Slot, Ahead(s), 2 \in zoneState[Last]
        PROVE  Pos(s)' = AtEnd
    <3>1. Pos(s) = AtEnd
      BY <1>2, <2>1 DEF Reports, EndSeen
    <3> QED
      BY <1>3, <1>4, <2>1, <3>1, Geometry
  <2> QED
    BY <1>1, <1>3, <2>1 DEF EndSeen
<1>18. EndKnown'
  BY <1>1, <1>2, <1>3, <1>10 DEF Reports, EndKnown
<1>19. Held'
  BY <1>1, <1>5 DEF Held
<1>20. OnTime'
  <2>1. \A s \in Slot : Due(s)'
    BY <1>1 DEF Due
  <2>2. \A s \in Slot : Barred(s)' = Barred(s)
    BY <1>1, <1>6 DEF Barred
  <2> QED
    BY <1>3, <1>11, <2>1, <2>2 DEF OnTime
<1> QED
  BY <1>7, <1>9, <1>12, <1>13, <1>14, <1>15, <1>16, <1>17, <1>18, <1>19, <1>20
     DEF AInv, Boxes, Reports

LEMMA TakeOffAfter ==
  ASSUME IInv, AInv, NEW p \in Pkg, TakeOff(p)
  PROVE  AInv'
<1>1. /\ p \in delivered /\ box[p] = AtEnd /\ box' = [box EXCEPT ![p] = Taken]
      /\ UNCHANGED <<node, at, zoneState, delivered, hold, asked, passes, canq,
                     belt, motor>>
  BY DEF TakeOff, masterVars, timeVars, beltVars
<1>2. box'[p] = Taken /\ \A q \in Pkg \ {p} : box'[q] = box[q]
  BY <1>1 DEF IInv, LineTyped
<1>3. Boxes /\ Reports /\ Held /\ OnTime
  BY DEF AInv
<1>4. ~Carried(p)
  BY <1>1, <1>3 DEF Boxes, Idle
<1>5. ASSUME NEW s \in Slot
      PROVE  /\ Carries(s)' = Carries(s) /\ Ahead(s)' = Ahead(s)
             /\ Behind(s)' = Behind(s)
             /\ Carries(s) => Pos(s)' = Pos(s)
             /\ (Ahead(s) => Carries(s)) /\ (Behind(s) => Carries(s))
  <2>1. node'[s] = node[s] /\ node[s].pkg # p
    BY <1>1, <1>4 DEF Carried
  <2>2. Carries(s) => node[s].pkg \in Pkg
    BY Typed
  <2> QED
    BY <1>2, <2>1, <2>2 DEF Carries, Ahead, Behind, Pos
<1>6. EndTaken' => EndTaken
  <2>1. AtEnd # Taken
    BY Geometry
  <2> QED
    BY <1>1, <1>2, <2>1 DEF EndTaken, IInv, MasterTyped
<1>7. Still' = Still
  BY <1>1 DEF Still, Only
<1>8. Single' /\ Follows' /\ EndClear'
  BY <1>1, <1>3, <1>5, <1>6 DEF Boxes, Single, Follows, EndClear
<1>9. Idle'
  <2>1. \A q \in Pkg : Carried(q)' = Carried(q)
    BY <1>1 DEF Carried
  <2> QED
    BY <1>1, <1>2, <1>3, <2>1 DEF Boxes, Idle
<1>10. \A z : Told(z)' = Told(z)
  BY <1>1 DEF Told
<1>11. EntryHeard' /\ ExitHeard' /\ EntryTold'
  BY <1>1, <1>3, <1>5, <1>10 DEF Reports, EntryHeard, ExitHeard, EntryTold
<1>12. EndSeen' /\ EndKnown'
  BY <1>1, <1>3, <1>5, <1>6 DEF Reports, EndSeen, EndKnown
<1>13. Held'
  BY <1>1, <1>3, <1>5, <1>6, <1>7, <1>10 DEF Held
<1>14. OnTime'
  <2>1. \A s \in Slot : Due(s)' = Due(s) /\ Barred(s)' = Barred(s)
    BY <1>1, <1>7 DEF Due, Knows, Barred
  <2> QED
    BY <1>1, <1>3, <1>5, <2>1 DEF OnTime
<1> QED
  BY <1>8, <1>9, <1>11, <1>12, <1>13, <1>14 DEF AInv, Boxes, Reports

LEMMA InitAfter == Init => AInv
<1> SUFFICES ASSUME Init PROVE AInv
  OBVIOUS
<1>1. ASSUME NEW s \in Slot
      PROVE  /\ node[s].pkg = NoPkg /\ node[s].last <= node[s].cur
             /\ ~Carries(s) /\ ~Ahead(s) /\ ~Behind(s)
  <2>1. node[s] = FreeNode
    BY DEF Init
  <2> QED
    BY <2>1 DEF FreeNode, NoFrame, Carries, Ahead, Behind
<1>2. Idle
  BY <1>1, Numbered DEF Init, Idle, Carried
<1>3. Single /\ Follows /\ EndClear
  BY <1>1 DEF Single, Follows, EndClear
<1>4. Reports
  BY <1>1, LastIs DEF Init, Reports, EntryHeard, ExitHeard, EntryTold, EndSeen,
     EndKnown
<1>5. Held /\ OnTime
  BY <1>1 DEF Held, OnTime
<1> QED
  BY <1>2, <1>3, <1>4, <1>5 DEF AInv, Boxes

LEMMA NextAfter ==
  ASSUME AfterDelivery, IInv, AInv, [Next]_vars
  PROVE  AInv'
<1>1. CASE \E p \in Pkg : RecvPkgTrans(p)
  BY <1>1, NewAfter
<1>2. CASE VisitFree
  BY <1>2, FreeAfter
<1>3. CASE VisitDelivers
  BY <1>3, DeliversAfter
<1>4. CASE VisitAdvances
  BY <1>4, AdvancesAfter
<1>5. CASE VisitKeeps
  BY <1>5, KeepsAfter
<1>6. CASE RecvStartCmd
  BY <1>6, BeltsAfter, StillReceived DEF RecvStartCmd, masterVars, timeVars
<1>7. CASE LoseStartCmd
  BY <1>7, BeltsAfter, StillReceived DEF LoseStartCmd, masterVars, timeVars
<1>8. ASSUME NEW z \in Zone, TriggerStop(z) \/ ApplyMotor(z) PROVE AInv'
  <2>1. UNCHANGED <<node, at, zoneState, delivered, box, asked, passes, hold>>
    BY <1>8 DEF TriggerStop, ApplyMotor, masterVars, timeVars
  <2>2. Still => Still'
    BY <1>8, StillDriven
  <2> QED
    BY <2>1, <2>2, BeltsAfter
<1>9. CASE AskModuleState
  BY <1>9, AskAfter
<1>10. CASE \E b \in Board : ModuleStatus(b)
  BY <1>10, StatusAfter
<1>11. CASE Move
  BY <1>11, MoveAfter
<1>12. CASE \E p \in Pkg : TakeOff(p)
  BY <1>12, TakeOffAfter
<1>13. CASE UNCHANGED vars
  <2>1. /\ UNCHANGED <<node, at, zoneState, delivered, box, asked, passes, hold>>
        /\ Still' = Still
    BY <1>13 DEF vars, masterVars, timeVars, beltVars, Still, Only
  <2> QED
    BY <2>1, BeltsAfter
<1> QED
  BY <1>1, <1>2, <1>3, <1>4, <1>5, <1>6, <1>7, <1>8, <1>9, <1>10, <1>11,
     <1>12, <1>13 DEF Next

LEMMA LossyInvariant ==
  ASSUME AfterDelivery
  PROVE  Spec => [](IInv /\ AInv)
<1>1. Init => IInv /\ AInv
  BY InitSafe, InitAfter
<1>2. (IInv /\ AInv) /\ [Next]_vars => (IInv /\ AInv)'
  BY NextSafe, NextAfter
<1> QED
  BY <1>1, <1>2, PTL DEF Spec

(* Whatever frames are lost and however many, on a line of any length: if  *)
(* the server waits for the result of a package before it sends the next,  *)
(* the master's zone of a package is the one its box is in or has just     *)
(* reached, even if the box before it still lies at the end and belts were *)
(* not stopped in time (logic_ctrl.c 330-372).                             *)
THEOREM LossyTracked ==
  ASSUME AfterDelivery
  PROVE  Spec => []Tracked
<1>1. IInv /\ AInv => Tracked
  BY FollowsTracked DEF AInv, Boxes
<1> QED
  BY <1>1, LossyInvariant, PTL

(* Nor is the server told of a success before the box is at the end        *)
(* (logic_ctrl.c 147-158).                                                 *)
THEOREM LossyResultTrue ==
  ASSUME AfterDelivery
  PROVE  Spec => []DeliveryTruthful
<1>1. IInv /\ AInv => DeliveryTruthful
  BY IdleTruthful DEF AInv, Boxes
<1> QED
  BY <1>1, LossyInvariant, PTL
=============================================================================
