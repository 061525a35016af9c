------------------------------ MODULE Conveyor ------------------------------
(***************************************************************************)
(* Packages on a straight line of belt zones: the master's transport logic *)
(* (logic_ctrl.c, one action per package visited), the start/stop commands *)
(* on the CAN chain, the drivetwo boards that obey them and report their   *)
(* photo sensors, and the boxes that move while a belt runs.               *)
(*                                                                         *)
(* Zone z is the z-th of every path.  Board b drives zones 2b and 2b+1.    *)
(* A box's position counts quarters of zones: in zone z, 4z is its head on *)
(* the entry sensor and its tail still on the exit sensor of zone z-1, 4z+1*)
(* on the entry sensor alone, 4z+2 between the two, 4z+3 on the exit one.  *)
(***************************************************************************)
EXTENDS Integers, Sequences, FiniteSets, ZoneRoute

CONSTANTS
  NZone,      \* zones on the line
  NSlot,      \* MAX_PKG_NUM
  Pkg,        \* the packages the server sends, each once
  NoPkg,      \* what a free slot holds
  Spacing,    \* the server waits until no package is in the first zones
  SendCnt,    \* SEND_STARTCMD_CNT: visits between two resends
  FrameMod,   \* the frame counter's modulus (65536 in the code)
  MaxLoss     \* bound on the frames lost on the CAN chain

ASSUME ConveyorAssumption ==
  /\ NZone \in Nat \ {0, 1} /\ NZone <= FinalCar /\ NSlot \in Nat \ {0}
  /\ SendCnt \in Nat \ {0} /\ MaxLoss \in Nat /\ Spacing \in Nat
  /\ FrameMod \in Nat /\ FrameMod > MaxLoss + 1
  /\ NoPkg \notin Pkg

Zone  == 0 .. NZone - 1
Slot  == 0 .. NSlot - 1
Board == {z \div 2 : z \in Zone}

(* The floor plan: the next zone is in front, the previous one behind.     *)
Layout ==
  [z \in Zone |-> [front_zone |-> IF z < NZone - 1 THEN z + 1 ELSE FinalCar,
                   rear_zone  |-> IF z > 0 THEN z - 1 ELSE FinalCar,
                   left_zone  |-> FinalCar, right_zone |-> FinalCar]]
Path == [k \in 1 .. NZone |-> k - 1]

(* curZonedir of a package in zone z, nextZonedir of one in zone z - 1.    *)
Dir == [z \in Zone |-> ZoneDir(Layout, Path, NZone, z + 1)]

NoFrame == -1     \* 0xFFFF, the slave's last frame number at boot
Away    == -1     \* the box is not on the line yet
AtEnd   == 4 * NZone - 1
Fallen  == 4 * NZone
Taken   == 4 * NZone + 1

VARIABLES
  node,       \* [slots -> sData_pkg_node, its pkg NoPkg when it is free]
  at,         \* the next slot the pass visits
  zoneState,  \* [zones -> the sensor bits the master last heard of]
  cnt,        \* [zones -> cansend_framecnt_one / _two]
  delivered,  \* packages whose result TRANS_SUCCESS was queued
  canq,       \* start/stop frames on their way
  lost,       \* frames lost so far
  belt,       \* [zones -> moudle1_info / moudle2_info of its board]
  motor,      \* [zones -> does the motor run]
  lastFrame,  \* [zones -> the board's cansend_framecnt_one / _two]
  box,        \* [packages -> position of the box]
  asked,      \* boards that have not yet answered the last status request
  passes,     \* whole passes since the last answer, 2 standing for more
  hold        \* status requests before the boxes move on

masterVars == <<node, at, zoneState, cnt, delivered>>
beltVars   == <<belt, motor, lastFrame>>
timeVars   == <<asked, passes, hold>>
vars == <<masterVars, canq, lost, beltVars, box, timeVars>>

FreeNode == [pkg |-> NoPkg, cur |-> 0, last |-> NoFrame, arrive |-> FALSE,
             nextstat |-> FALSE, changed |-> FALSE, changenum |-> 0, cnt |-> 0]

Init ==
  /\ node = [s \in Slot |-> FreeNode]
  /\ at = 0
  /\ zoneState = [z \in Zone |-> {}]
  /\ cnt = [z \in Zone |-> 0]
  /\ delivered = {}
  /\ canq = <<>> /\ lost = 0
  /\ belt = [z \in Zone |-> [status |-> "default", type |-> "continue",
                             dir |-> "DIRDEFAULT"]]
  /\ motor = [z \in Zone |-> FALSE]
  /\ lastFrame = [z \in Zone |-> NoFrame]
  /\ box = [p \in Pkg |-> Away]
  /\ asked = {} /\ passes = 0
  /\ hold = 0

InTransport == {s \in Slot : node[s].pkg # NoPkg}

-----------------------------------------------------------------------------
(* The server: it sends a package (0x1005) once the ones before it have    *)
(* cleared the first zones, and the box lies in zone 0.                    *)
RecvPkgTrans(p) ==
  /\ at = 0
  /\ box[p] = Away
  /\ \A s \in InTransport : node[s].cur >= Spacing
  /\ \A q \in Pkg : box[q] \notin 0 .. 5
  /\ \E s \in Slot \ InTransport :
       /\ \A t \in Slot : t < s => t \in InTransport
       /\ node' = [node EXCEPT ![s] = [FreeNode EXCEPT !.pkg = p]]
  /\ \E start \in {1, 2} : box' = [box EXCEPT ![p] = start]
  /\ hold' = 2
  /\ UNCHANGED <<at, zoneState, cnt, delivered, canq, lost, beltVars, asked,
                 passes>>

-----------------------------------------------------------------------------
(* The commands of one visit, in order: zone, fresh or not, command.       *)
Command(z, fresh, cmd, type) ==
  [zone |-> z, fresh |-> fresh, cmd |-> cmd, type |-> type, dir |-> Dir[z]]

(* Mutant of Frames: every frame has the same number.                      *)
FramesUnnumbered(cmds) ==
  [k \in DOMAIN cmds |->
     LET c == cmds[k]
     IN  [zone |-> c.zone, cmd |-> c.cmd, type |-> c.type, dir |-> c.dir,
          frame |-> 0]]

(* The frames they become.  A fresh one counts the zone's counter up and   *)
(* carries it; a resend carries the counter as it stands.                  *)
Raised(cmds, z) == Cardinality({j \in DOMAIN cmds : cmds[j].zone = z
                                                      /\ cmds[j].fresh})

Frames(cmds) ==
  [k \in DOMAIN cmds |->
     LET c == cmds[k]
     IN  [zone |-> c.zone, cmd |-> c.cmd, type |-> c.type, dir |-> c.dir,
          frame |-> (cnt[c.zone] + Raised(SubSeq(cmds, 1, k), c.zone))
                      % FrameMod]]

(* Mutant of Send: the counter has no width.                               *)
SendUnwrapped(cmds) ==
  /\ canq' = canq \o Frames(cmds)
  /\ cnt' = [z \in Zone |-> cnt[z] + Raised(cmds, z)]

Send(cmds) ==
  /\ canq' = canq \o Frames(cmds)
  /\ cnt' = [z \in Zone |-> (cnt[z] + Raised(cmds, z)) % FrameMod]

(* Mutant of StopPrevious: the previous zone is left running.              *)
StopNone(cur) == <<>>

(* "Stop the previous zone", when there is one.                            *)
StopPrevious(cur) ==
  IF cur = 0 THEN <<>>
  ELSE <<Command(cur - 1, TRUE, "stop", "continue")>>

ExitSeen(z) == zoneState[z] \cap ExitBits(Dir[z]) # {}
AnySeen(z)  == zoneState[z] \cap (1 .. 4) # {}
IsLast(n)   == n.cur = NZone - 1

(* The node once the next zone has been looked at: an edge of its exit     *)
(* sensors is remembered.                                                  *)
Observed(n) ==
  LET stat == ExitSeen(n.cur + 1)
  IN  IF IsLast(n) \/ stat = n.nextstat THEN n
      ELSE [n EXCEPT !.nextstat = stat, !.changed = TRUE, !.changenum = 1]

(* Mutant of AtDestination: any sensor of the last zone will do.           *)
AtDestinationEarly(n) == IsLast(n) /\ AnySeen(n.cur)

(* The end of the path: sensor 2 for a package going ahead, 1 going back.  *)
AtDestination(n) ==
  /\ IsLast(n)
  /\ \/ 2 \in zoneState[n.cur] /\ Dir[n.cur] = "BACK_TOAHEAD"
     \/ 1 \in zoneState[n.cur] /\ Dir[n.cur] = "AHEAD_TOBACK"

(* The package is leaving its zone for the first time it is seen to.       *)
Arrives(n)  == ~IsLast(n) /\ ExitSeen(n.cur) /\ ~n.arrive
(* Mutant of Advances: an occupied next zone is taken for this package.    *)
AdvancesUnchecked(n) == ~IsLast(n) /\ AnySeen(n.cur + 1)

(* The next zone has it: a sensor is covered there, but not an exit one.   *)
Advances(n) == ~IsLast(n) /\ ~n.nextstat /\ AnySeen(n.cur + 1)

(* sendcmdcnt, counted up at each visit (it stays low, see VisitAdvances), *)
(* and its mutant.                                                         *)
CountedNot(n) == n.cnt

Counted(n) == IF n.cnt < SendCnt THEN n.cnt + 1 ELSE n.cnt

(* Mutants of CurrentAndNext: the next zone is not looked at ...           *)
CurrentAndNextHeedless(n, fresh) ==
  LET cur(type) == Command(n.cur, fresh, "run", type)
  IN  IF IsLast(n) THEN <<cur("trigstop")>>
      ELSE <<cur("continue"),
             Command(n.cur + 1, fresh, "run",
                     IF n.cur = NZone - 2 THEN "trigstop" ELSE "continue")>>

(* ... and the last zone is not told to stop at its photo sensor.          *)
CurrentAndNextUnending(n, fresh) ==
  LET next(cmd) == Command(n.cur + 1, fresh, cmd, "continue")
      cur       == Command(n.cur, fresh, "run", "continue")
  IN  IF IsLast(n) THEN <<cur>>
      ELSE <<cur, next(IF n.nextstat THEN "stop" ELSE "run")>>

(* The commands for the current and the next zone, as the path ahead is.   *)
CurrentAndNext(n, fresh) ==
  LET dir == IF n.changenum >= 1 THEN Straightened(Dir[n.cur]) ELSE Dir[n.cur]
      cur(type) == [Command(n.cur, fresh, "run", type) EXCEPT !.dir = dir]
      next(cmd, type) == Command(n.cur + 1, fresh, cmd, type)
  IN  IF IsLast(n) THEN <<cur("trigstop")>>
      ELSE IF n.cur = NZone - 2
      THEN IF n.nextstat THEN <<cur("trigstop"), next("stop", "trigstop")>>
           ELSE <<cur("continue"), next("run", "trigstop")>>
      ELSE IF n.nextstat THEN <<cur("trigstop"), next("stop", "continue")>>
           ELSE <<cur("continue"), next("run", "continue")>>

PassOn == at' = (at + 1) % NSlot

(* Whole passes are counted from the last answer: a pass that an answer    *)
(* interrupts counts as none.                                              *)
CountPass == passes' = IF at = NSlot - 1 /\ passes < 2 THEN passes + 1
                       ELSE passes

(* A pass begins when the frames of the one before have gone out.          *)
Visiting == at > 0 \/ canq = <<>>

(* No package in this slot.                                                *)
VisitFree ==
  /\ Visiting
  /\ node[at].pkg = NoPkg
  /\ PassOn /\ CountPass
  /\ UNCHANGED <<node, zoneState, cnt, delivered, canq, lost, beltVars, box,
                 asked, hold>>

(* The package is at the end of its path: result, two stops, slot free.    *)
VisitDelivers ==
  LET n == node[at]
  IN  /\ Visiting
      /\ n.pkg # NoPkg
      /\ AtDestination(n)
      /\ delivered' = delivered \cup {n.pkg}
      /\ Send(<<Command(n.cur, TRUE, "stop", "continue")>>
                \o StopPrevious(n.cur))
      /\ zoneState' = [zoneState EXCEPT ![n.cur] = {}]
      /\ node' = [node EXCEPT ![at] = FreeNode]
      /\ PassOn /\ CountPass
      /\ UNCHANGED <<lost, beltVars, box, asked, hold>>

(* The package has reached the next zone, which becomes its current one.   *)
VisitAdvances ==
  LET n == Observed(node[at])
  IN  /\ Visiting
      /\ n.pkg # NoPkg
      /\ Advances(n)
      /\ Send((IF Arrives(n) THEN StopPrevious(n.cur) ELSE <<>>)
                \o StopPrevious(n.cur))
      /\ node' = [node EXCEPT ![at] =
                    [n EXCEPT !.cur = n.cur + 1, !.arrive = FALSE,
                              !.changenum = 0,
                              !.cnt = Counted(n)]]
      /\ PassOn /\ CountPass
      /\ UNCHANGED <<zoneState, delivered, lost, beltVars, box, asked, hold>>

(* The package is still in its zone: its belts are told what to do, at     *)
(* once when something has changed, and again and again.                   *)
VisitKeeps ==
  LET n       == Observed(node[at])
      entered == n.cur # n.last
      count   == IF entered THEN 0 ELSE Counted(n)
      resend  == count >= SendCnt
  IN  /\ Visiting
      /\ n.pkg # NoPkg
      /\ ~AtDestination(n) /\ ~Advances(n)
      /\ Send((IF Arrives(n) THEN StopPrevious(n.cur) ELSE <<>>)
                \o (IF entered THEN CurrentAndNext(n, TRUE) ELSE <<>>)
                \o (IF n.changed THEN CurrentAndNext(n, TRUE) ELSE <<>>)
                \o (IF resend THEN CurrentAndNext(n, FALSE) ELSE <<>>))
      /\ node' = [node EXCEPT ![at] =
                    [n EXCEPT !.last = n.cur, !.changed = FALSE,
                              !.arrive = n.arrive \/ Arrives(n),
                              !.cnt = IF resend THEN 0 ELSE count]]
      /\ PassOn /\ CountPass
      /\ UNCHANGED <<zoneState, delivered, lost, beltVars, box, asked, hold>>

Visit == VisitFree \/ VisitDelivers \/ VisitAdvances \/ VisitKeeps

-----------------------------------------------------------------------------
(* A frame reaches the board of its zone.  canbus_recv_start_cmd ignores   *)
(* it when it carries the number of the last one.                          *)
RecvStartCmd ==
  /\ canq # <<>>
  /\ canq' = Tail(canq)
  /\ LET f == Head(canq)
     IN  IF f.frame = lastFrame[f.zone] THEN UNCHANGED <<belt, lastFrame>>
         ELSE /\ lastFrame' = [lastFrame EXCEPT ![f.zone] = f.frame]
              /\ belt' = [belt EXCEPT ![f.zone] =
                            [status |-> f.cmd, type |-> f.type, dir |-> f.dir]]
  /\ UNCHANGED <<masterVars, lost, motor, box, timeVars>>

(* A frame is lost: a full relay queue of a board on its way drops it.     *)
LoseStartCmd ==
  /\ canq # <<>>
  /\ lost < MaxLoss
  /\ lost' = lost + 1
  /\ canq' = Tail(canq)
  /\ UNCHANGED <<masterVars, beltVars, box, timeVars>>

(* The sensors of zone z that a box covers.                                *)
Covered(z) ==
  {b \in {1, 2} : \E p \in Pkg :
     box[p] \in IF b = 1 THEN {4 * z, 4 * z + 1}
                ELSE {4 * z + 3, 4 * (z + 1)} \cap (0 .. Fallen)}

(* moto_upload_moudle_status, one zone: a belt that runs up to the photo   *)
(* stops as soon as the exit sensor of its direction is covered ...        *)
Triggered(z) ==
  /\ belt[z].type = "trigstop" /\ belt[z].status = "run"
  /\ \/ 1 \in Covered(z) /\ belt[z].dir = "AHEAD_TOBACK"
     \/ 2 \in Covered(z) /\ belt[z].dir = "BACK_TOAHEAD"

TriggerStop(z) ==
  /\ Triggered(z)
  /\ belt' = [belt EXCEPT ![z].status = "stop", ![z].type = "continue"]
  /\ motor' = [motor EXCEPT ![z] = FALSE]
  /\ UNCHANGED <<masterVars, canq, lost, lastFrame, box, timeVars>>

(* ... and every so often the motor is given the state that was set.       *)
Applied(z) == IF belt[z].status = "default" THEN motor[z]
              ELSE belt[z].status = "run"

ApplyMotor(z) ==
  /\ ~Triggered(z)
  /\ motor[z] # Applied(z)
  /\ motor' = [motor EXCEPT ![z] = Applied(z)]
  /\ UNCHANGED <<masterVars, canq, lost, belt, lastFrame, box, timeVars>>

-----------------------------------------------------------------------------
(* vcanbus_send_askmodulestate_cmd, every 300 ms: by then the boards have  *)
(* answered the last request, the passes that followed have sent what they *)
(* had to, the frames have arrived and the motors obey.                    *)
Settled ==
  /\ asked = {} /\ passes = 2 /\ at = 0 /\ canq = <<>>
  /\ \A z \in Zone : ~Triggered(z) /\ motor[z] = Applied(z)

AskModuleState ==
  /\ Settled
  /\ asked' = Board
  /\ hold' = IF hold > 0 THEN hold - 1 ELSE 0
  /\ passes' = 0
  /\ UNCHANGED <<masterVars, canq, lost, beltVars, box>>

(* Mot_upload_all_state on a board, module_status_recv_process here.       *)
ModuleStatus(b) ==
  /\ b \in asked
  /\ asked' = asked \ {b}
  /\ zoneState' = [z \in Zone |-> IF z \div 2 = b THEN Covered(z)
                                  ELSE zoneState[z]]
  /\ passes' = 0
  /\ UNCHANGED <<node, at, cnt, delivered, canq, lost, beltVars, box, hold>>

-----------------------------------------------------------------------------
(* Boxes that lie on running belts move on a quarter of a zone, all at the *)
(* speed of the line; one that lies on two belts of which one stands still *)
(* may be driven on or held.  They move slowly: their positions are        *)
(* reported, and acted on, before they move again.                         *)
OnLine(p) == box[p] \in 0 .. AtEnd

Under(p) ==
  LET z == box[p] \div 4
  IN  IF box[p] % 4 = 0 /\ z > 0 THEN {z - 1, z} ELSE {z}

Driven == {p \in Pkg : OnLine(p) /\ \A z \in Under(p) : motor[z]}
Pulled == {p \in Pkg : OnLine(p) /\ \E z \in Under(p) : motor[z]} \ Driven

Move ==
  /\ hold = 0
  /\ \E held \in SUBSET Pulled :
       LET moving == Driven \cup (Pulled \ held)
       IN  /\ moving # {}
           /\ box' = [p \in Pkg |-> IF p \in moving THEN box[p] + 1 ELSE box[p]]
  /\ hold' = 2
  /\ UNCHANGED <<masterVars, canq, lost, beltVars, asked, passes>>

(* A delivered box is taken off the end of the line, sooner or later.      *)
TakeOff(p) ==
  /\ p \in delivered
  /\ box[p] = AtEnd
  /\ box' = [box EXCEPT ![p] = Taken]
  /\ UNCHANGED <<masterVars, canq, lost, beltVars, timeVars>>

-----------------------------------------------------------------------------
Next ==
  \/ \E p \in Pkg : RecvPkgTrans(p)
  \/ VisitFree \/ VisitDelivers \/ VisitAdvances \/ VisitKeeps
  \/ RecvStartCmd \/ LoseStartCmd
  \/ \E z \in Zone : TriggerStop(z) \/ ApplyMotor(z)
  \/ AskModuleState
  \/ \E b \in Board : ModuleStatus(b)
  \/ Move
  \/ \E p \in Pkg : TakeOff(p)

Spec == Init /\ [][Next]_vars

(* The main loops and the CAN chain do not stop; a box on belts that all   *)
(* run moves in the end, and a delivered one is taken off.                 *)
Fairness ==
  /\ WF_at(Visiting /\ PassOn)
  /\ WF_vars(RecvStartCmd)
  /\ SF_vars(AskModuleState)
  /\ WF_vars(\E b \in Board : ModuleStatus(b))
  /\ WF_vars(\E z \in Zone : TriggerStop(z) \/ ApplyMotor(z))
  /\ WF_vars(Driven # {} /\ Move)
  /\ WF_vars(\E p \in Pkg : TakeOff(p))

FairSpec == Spec /\ Fairness

-----------------------------------------------------------------------------
Node == [pkg : Pkg \cup {NoPkg}, cur : Zone, last : Zone \cup {NoFrame},
         arrive : BOOLEAN, nextstat : BOOLEAN, changed : BOOLEAN,
         changenum : {0, 1}, cnt : 0 .. SendCnt]

Frame == [zone : Zone, cmd : {"run", "stop"}, type : {"continue", "trigstop"},
          dir : {"AHEAD_TOBACK", "BACK_TOAHEAD"}, frame : 0 .. FrameMod - 1]

(* Types of the state of the master, the chain, the boards and the boxes.  *)
TypeOK ==
  /\ node \in [Slot -> Node] /\ at \in Slot
  /\ zoneState \in [Zone -> SUBSET {1, 2}]
  /\ cnt \in [Zone -> 0 .. FrameMod - 1]
  /\ delivered \subseteq Pkg
  /\ canq \in Seq(Frame) /\ lost \in 0 .. MaxLoss
  /\ belt \in [Zone -> [status : {"default", "run", "stop"},
                        type : {"continue", "trigstop"},
                        dir : {"DIRDEFAULT", "AHEAD_TOBACK", "BACK_TOAHEAD"}]]
  /\ motor \in [Zone -> BOOLEAN]
  /\ lastFrame \in [Zone -> NoFrame .. FrameMod - 1]
  /\ box \in [Pkg -> Away .. Taken] /\ hold \in 0 .. 2
  /\ asked \subseteq Board /\ passes \in 0 .. 2

Carried(p) == \E s \in Slot : node[s].pkg = p
Current(p) == node[CHOOSE s \in Slot : node[s].pkg = p].cur

(* No two boxes share a zone: a package waits in its zone for as long as   *)
(* the next one is taken, even by a delivered box nobody has lifted off    *)
(* (logic_ctrl.c 386-432, the trigger stops of the boards).                *)
NoCollision ==
  \A p, q \in Pkg : p # q /\ OnLine(p) /\ OnLine(q)
                    => box[p] \div 4 # box[q] \div 4

(* curZonenum, "the index of the zone the package is in" (data.h 129): the *)
(* box is in that zone or has just reached the next, never somewhere else, *)
(* so another package's box is never taken for it.                         *)
Tracked ==
  \A p \in Pkg : Carried(p) => box[p] \in 4 * Current(p) .. 4 * Current(p) + 5

(* The box of a delivered package is at the end of the line.               *)
DeliveryTruthful == \A p \in delivered : box[p] \in {AtEnd, Taken}

(* No box is driven off the end of the line: the last belt stops it, by    *)
(* its own sensor when the master's stop command is lost.                  *)
NothingFallsOff == \A p \in Pkg : box[p] # Fallen

(* A package under transport reaches the end of its path and the server is *)
(* told so: no run command is shadowed for ever by the frame counter, and  *)
(* a lost one is made good by the resends.                                 *)
AllDelivered == \A p \in Pkg : Carried(p) ~> p \in delivered

(* With nothing left to carry every motor comes to rest.                   *)
BeltsStop ==
  InTransport = {} ~> (InTransport # {} \/ \A z \in Zone : ~motor[z])
=============================================================================
