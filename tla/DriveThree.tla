----------------------------- MODULE DriveThree -----------------------------
(***************************************************************************)
(* The board of a rise-and-transfer zone (exp_ctrl_drivethree), and the    *)
(* start commands the master sends it.  Belts (module 1, MOT1) carry a box *)
(* forwards and backwards and want the jack (MOT3) up; rollers (module 2,  *)
(* MOT2) carry it left and right and want it down.  A turn is two legs:    *)
(* the first runs until a photo sensor stops it, then the second runs.     *)
(*                                                                         *)
(* The main loop calls the same functions every millisecond                *)
(* (main_onems_process); the CAN interrupt may store a command at any      *)
(* moment.  Only moto_ctrl_convey_process looks at it: in one step it      *)
(* reads the command, in another it writes it (ConveyWrite).               *)
(***************************************************************************)
EXTENDS Integers

CONSTANTS
  Dirs,         \* the directions that are commanded
  Period,       \* ms between two applications of the modules' state (5)
  Height,       \* ms the jack needs from one limit switch to the other
  Limit,        \* ms after which its search is given up (2000)
  Unnumbered,   \* the number of no command (0xFFFF)
  MaxCommands,  \* bound on the commands of the master
  MaxAlarms,    \* bound on the alarms of motors and supply
  MaxFaults     \* bound on the resets of the master and of the board

(* A direction is the pair of the side a box comes from and the side it    *)
(* goes to: RUN_AHEAD_TOLEFT is <<"AHEAD", "LEFT">>.                       *)
Sides == {"AHEAD", "BACK", "LEFT", "RIGHT"}

ASSUME DriveAssumption ==
  /\ Dirs \subseteq {d \in Sides \X Sides : d[1] # d[2]}
  /\ Period \in Nat /\ Height \in Nat \ {0} /\ Limit \in Nat
  /\ MaxCommands \in Nat /\ MaxAlarms \in Nat /\ MaxFaults \in Nat
  /\ Unnumbered \in Nat /\ Unnumbered > MaxCommands + 1

LegIn  == [AHEAD |-> "BK", BACK |-> "FW", LEFT |-> "RT", RIGHT |-> "LF"]
LegOut == [AHEAD |-> "FW", BACK |-> "BK", LEFT |-> "LF", RIGHT |-> "RT"]
Of(leg)     == IF leg \in {"FW", "BK"} THEN 1 ELSE 2
Straight(d) == LegIn[d[1]] = LegOut[d[2]]
Legs == {"FW", "BK", "LF", "RT"}

(* The corner sensors that stop a leg.                                     *)
Sensor == {"in1_1", "in1_2", "in2_1", "in2_2"}
Exit   == [BK |-> {"in2_1", "in1_1"}, FW |-> {"in1_2", "in2_2"},
           LF |-> {"in2_1", "in1_2"}, RT |-> {"in2_2", "in1_1"}]
Alarm  == {"none", "mot1", "mot2", "mot3", "volt"}

Module  == {1, 2}
Status  == {"RUN", "STOP"}
Type    == {"TYPEDEFAULT", "CONTINUE", "TRIGSTOP"}
Command == [cmd : {"RUN"}, dir : Dirs, type : {"CONTINUE", "TRIGSTOP"}]
             \cup [cmd : {"STOP"}]

VARIABLES
  moudle,    \* moudle1_info, moudle2_info: what each module has to do
  mot,       \* mot1_info, mot2_info, mot3_info: what the motors do
  position,  \* g_position_status, _set, _find_flag, _find_timeout
  uploadcnt, \* of both modules
  risecmd,   \* moudlerisecmd
  number,    \* canrecv_framecnt_rise, of the last command taken
  pc, writes,\* where the main loop is, which fields it is going to write
  jack,      \* height of the jack, 0 and Height at the limit switches
  master,    \* cansend_framecnt_rise and the command last sent
  count,     \* commands, alarms and resets so far
  taken,     \* the command last stored, "none" at the start
  raced,     \* was it stored between the reading and the writing of another
  ended,     \* what has ended the leg under way: "no", "sensor" or "alarm"
  restarted  \* has the master started anew since the board took a command

vars == <<moudle, mot, position, uploadcnt, risecmd, number, pc, writes, jack,
          master, count, taken, raced, ended, restarted>>

NoCommand == [cmd |-> "none"]

(* The board's variables when it starts (Mot_msg_init).                     *)
Moudle0   == [m \in Module |->
                [type |-> "TYPEDEFAULT", status |-> "STOP", dir |-> "FW"]]
Mot0      == [m \in 1 .. 3 |-> [run |-> FALSE, dir |-> "CW"]]
Position0 == [status |-> "INIT", set |-> "DOWN", find |-> FALSE, timeout |-> 0]
Risecmd0  == [value |-> FALSE, command |-> NoCommand]

Init ==
  /\ moudle = Moudle0 /\ mot = Mot0 /\ position = Position0 /\ uploadcnt = 0
  /\ risecmd = Risecmd0 /\ number = Unnumbered
  /\ pc = "error" /\ writes = {}
  /\ taken = NoCommand /\ raced = FALSE /\ ended = "no"
  /\ jack \in 0 .. Height
  /\ master = [framecnt |-> 0, command |-> NoCommand]
  /\ count = [commands |-> 0, alarms |-> 0, faults |-> 0]
  /\ restarted = FALSE

-----------------------------------------------------------------------------
(* The main loop, one action for each of its functions.                    *)
Halted(ms) == [m \in 1 .. 3 |->
                 IF m \in ms THEN [mot[m] EXCEPT !.run = FALSE] ELSE mot[m]]
Stopped(ms) == [m \in Module |->
                  IF m \in ms THEN [moudle[m] EXCEPT !.status = "STOP"]
                  ELSE moudle[m]]

(* The module whose leg the command last taken is at.                      *)
LegModule ==
  IF taken.cmd # "RUN" THEN 0
  ELSE IF risecmd.value /\ ~Straight(taken.dir) THEN Of(LegIn[taken.dir[1]])
  ELSE Of(LegOut[taken.dir[2]])

EndedBy(ms, why) ==
  IF LegModule \in ms /\ moudle[LegModule].status = "RUN" THEN why ELSE ended

(* The jack moves as its motor turned in the last millisecond.             *)
JackMoved ==
  IF ~mot[3].run THEN jack
  ELSE IF mot[3].dir = "CCW" THEN (IF jack = Height THEN jack ELSE jack + 1)
  ELSE IF jack = 0 THEN jack ELSE jack - 1

(* The running motors that an alarm is about.                              *)
Failing(alarm) ==
  {m \in Module : mot[m].run /\ alarm \in {<<"mot1", "mot2">>[m], "volt"}}

(* An alarm stops a motor that runs, and its module; the jack's motor it   *)
(* stops in any case.                                                      *)
MOT_Error_Detection_Process(alarm) ==
  /\ pc = "error" /\ pc' = "status"
  /\ alarm # "none" => count.alarms < MaxAlarms
  /\ count' = IF alarm = "none" THEN count ELSE [count EXCEPT !.alarms = @ + 1]
  /\ jack' = JackMoved
  /\ moudle' = Stopped(Failing(alarm))
  /\ mot' = Halted(Failing(alarm) \cup {m \in {3} : alarm = "mot3"})
  /\ ended' = EndedBy(Failing(alarm), "alarm")
  /\ UNCHANGED <<position, uploadcnt, risecmd, number, writes, master, taken,
                 raced, restarted>>

(* The modules that have come to a sensor they are to stop at.             *)
Triggered(covered) ==
  {m \in Module : /\ moudle[m].type = "TRIGSTOP" /\ moudle[m].status = "RUN"
                  /\ Exit[moudle[m].dir] \cap covered # {}}

(* moto_upload_moudle_status: they stop, and every Period ms all modules   *)
(* are applied to the motors (Select_Direction_Run, _Stop).  Belts want    *)
(* the jack up, rollers want it down; module 2 comes last.                 *)
moto_upload_moudle_status(covered) ==
  LET here == Triggered(covered)
      runs == {m \in Module \ here : moudle[m].status = "RUN"}
      due  == uploadcnt = Period
  IN  /\ pc = "status" /\ pc' = "find"
      /\ moudle' = [m \in Module |-> IF m \in here
                      THEN [Stopped(here)[m] EXCEPT !.type = "CONTINUE"]
                      ELSE moudle[m]]
      /\ ended' = EndedBy(here, "sensor")
      /\ uploadcnt' = IF due THEN 0 ELSE uploadcnt + 1
      /\ mot' = IF ~due THEN Halted(here)
                ELSE [m \in 1 .. 3 |->
                        IF m \in runs THEN [run |-> TRUE, dir |-> moudle[m].dir]
                        ELSE Halted(Module \ runs)[m]]
      /\ position' = [position EXCEPT !.set =
                        IF due /\ 2 \in runs THEN "DOWN"
                        ELSE IF due /\ 1 \in runs THEN "UP" ELSE @]
      /\ UNCHANGED <<risecmd, number, writes, jack, master, count, taken, raced,
                     restarted>>

(* Init_Find_Position_Process: find out where the jack is, ...             *)
AtSwitch == IF jack = 0 THEN "DOWN" ELSE IF jack = Height THEN "UP" ELSE "none"

Located ==
  IF position.status # "INIT" THEN position
  ELSE IF AtSwitch # "none" THEN [position EXCEPT !.status = AtSwitch]
  ELSE [position EXCEPT !.set = "DOWN"]

(* ... start it, ...                                                       *)
Starts(p) == p.status # p.set /\ ~p.find /\ p.set \in {"UP", "DOWN"}

(* Mutant of Watched: a search that takes too long is not given up.        *)
WatchedForever(p) ==
  IF p.set = AtSwitch
  THEN [p EXCEPT !.status = p.set, !.find = FALSE, !.timeout = 0]
  ELSE [p EXCEPT !.timeout = @ + 1]

(* Mutant of Watched: it is given up, but the flag stays.                  *)
WatchedOn(p) ==
  IF p.set = AtSwitch
  THEN [p EXCEPT !.status = p.set, !.find = FALSE, !.timeout = 0]
  ELSE IF p.timeout >= Limit
  THEN [p EXCEPT !.status = "ERROR", !.set = "ERROR", !.timeout = Limit + 1]
  ELSE [p EXCEPT !.timeout = @ + 1]

(* ... and watch for the switch and the time.                              *)
Watched(p) ==
  IF p.set = AtSwitch
  THEN [p EXCEPT !.status = p.set, !.find = FALSE, !.timeout = 0]
  ELSE IF p.timeout = Limit
  THEN [status |-> "ERROR", set |-> "ERROR", find |-> FALSE,
        timeout |-> Limit + 1]
  ELSE [p EXCEPT !.timeout = @ + 1]

Init_Find_Position_Process ==
  LET p == IF Starts(Located) THEN [Located EXCEPT !.find = TRUE, !.timeout = 0]
           ELSE Located
      q == IF p.find THEN Watched(p) ELSE p
  IN  /\ pc = "find" /\ pc' = "convey"
      /\ position' = q
      /\ mot' = [mot EXCEPT ![3] =
           [run |-> (@.run \/ Starts(Located)) /\ (p.find => q.find),
            dir |-> IF ~Starts(Located) THEN @.dir
                    ELSE IF p.set = "UP" THEN "CCW" ELSE "CW"]]
      /\ UNCHANGED <<moudle, uploadcnt, risecmd, number, writes, jack, master,
                     count, taken, raced, ended, restarted>>

-----------------------------------------------------------------------------
(* moto_set_run_cmd                                                        *)
moto_set_run_cmd(m, status, type, dir) ==
  moudle' = [moudle EXCEPT ![m] = [type |-> type, status |-> status, dir |-> dir]]

(* moto_ctrl_convey_process, what it does with the command it finds:       *)
(* nothing, ...                                                            *)
Idle ==
  /\ ~risecmd.value
  /\ UNCHANGED <<moudle, ended>>
  /\ pc' = "error" /\ writes' = {}

(* Mutant of StopBoth: the rollers are not stopped.                        *)
StopBelts ==
  /\ risecmd.value /\ risecmd.command.cmd = "STOP"
  /\ moudle' = [moudle EXCEPT ![1] = [type |-> "CONTINUE", status |-> "STOP",
                                     dir |-> "BK"]]
  /\ UNCHANGED ended
  /\ pc' = "write" /\ writes' = {"value"}

StopBoth ==
  /\ risecmd.value /\ risecmd.command.cmd = "STOP"
  /\ moudle' = [m \in Module |-> [type |-> "CONTINUE", status |-> "STOP",
                                  dir |-> IF m = 1 THEN "BK" ELSE "LF"]]
  /\ UNCHANGED ended
  /\ pc' = "write" /\ writes' = {"value"}

Turning == risecmd.value /\ risecmd.command.cmd = "RUN"
             /\ ~Straight(risecmd.command.dir)

(* A straight run; with a type that was overwritten nothing happens, and   *)
(* the command stays.                                                      *)
RunStraight ==
  LET c == risecmd.command
      leg == LegOut[c.dir[2]]
  IN  /\ risecmd.value /\ c.cmd = "RUN" /\ Straight(c.dir)
      /\ IF c.type = "TYPEDEFAULT"
         THEN pc' = "error" /\ writes' = {} /\ UNCHANGED <<moudle, ended>>
         ELSE /\ moto_set_run_cmd(Of(leg), "RUN", c.type, leg)
              /\ ended' = "no"
              /\ pc' = "write" /\ writes' = {"value"}

(* Mutant of FirstLeg: no sensor ends it.                                  *)
FirstLegContinues ==
  LET leg == LegIn[risecmd.command.dir[1]]
  IN  /\ Turning /\ risecmd.command.type = "CONTINUE"
      /\ moto_set_run_cmd(Of(leg), "RUN", "CONTINUE", leg)
      /\ ended' = "no"
      /\ pc' = "write" /\ writes' = {"type"}

(* A turn: the first leg ...                                               *)
FirstLeg ==
  LET leg == LegIn[risecmd.command.dir[1]]
  IN  /\ Turning /\ risecmd.command.type = "CONTINUE"
      /\ moto_set_run_cmd(Of(leg), "RUN", "TRIGSTOP", leg)
      /\ ended' = "no"
      /\ pc' = "write" /\ writes' = {"type"}

(* Mutant of FirstLegOver: the second leg follows at once.                 *)
FirstLegStarted == risecmd.command.type # "CONTINUE"

(* ... (its module stands still: it is over) ...                           *)
FirstLegOver ==
  /\ risecmd.command.type # "CONTINUE"
  /\ moudle[Of(LegIn[risecmd.command.dir[1]])].status = "STOP"

Underway ==
  /\ Turning /\ risecmd.command.type # "CONTINUE" /\ ~FirstLegOver
  /\ UNCHANGED <<moudle, ended>>
  /\ pc' = "error" /\ writes' = {}

(* ... and the second.                                                     *)
SecondLeg ==
  LET leg == LegOut[risecmd.command.dir[2]]
  IN  /\ Turning /\ FirstLegOver
      /\ moto_set_run_cmd(Of(leg), "RUN", "CONTINUE", leg)
      /\ ended' = "no"
      /\ pc' = "write" /\ writes' = {"value"}

moto_ctrl_convey_process ==
  /\ pc = "convey"
  /\ Idle \/ StopBoth \/ RunStraight \/ FirstLeg \/ Underway \/ SecondLeg
  /\ UNCHANGED <<mot, position, uploadcnt, risecmd, number, jack, master, count,
                 taken, raced, restarted>>

(* moudlerisecmd.type = RUN_TYPEDEFAULT, moudlerisecmd.value = INVALUE      *)
ConveyWrite ==
  /\ pc = "write"
  /\ risecmd' = IF "value" \in writes THEN [risecmd EXCEPT !.value = FALSE]
                ELSE IF risecmd.command.cmd = "RUN"
                THEN [risecmd EXCEPT !.command.type = "TYPEDEFAULT"]
                ELSE risecmd
  /\ pc' = "error" /\ writes' = {}
  /\ UNCHANGED <<moudle, mot, position, uploadcnt, number, jack, master, count,
                 taken, raced, ended, restarted>>

-----------------------------------------------------------------------------
(* A number that was not the last one taken is a new command's.            *)
IsNew(n) == n # number

(* canbus_recv_start_cmd: a frame reaches the board, or is lost.           *)
canbus_recv_start_cmd(n, c, arrives) ==
  IF arrives /\ IsNew(n)
  THEN /\ number' = n
       /\ risecmd' = [value |-> TRUE, command |-> c]
       /\ taken' = c
       /\ raced' = (pc = "write")
       /\ ended' = "no"
       /\ restarted' = FALSE
  ELSE UNCHANGED <<number, risecmd, taken, raced, ended, restarted>>

(* Mutant of NextNumber: the counter is not advanced.                      *)
SameNumber == master.framecnt

(* cansend_framecnt_rise is advanced for every new command ...             *)
NextNumber == master.framecnt + 1

(* ... which is sent with it (vcanbus_send_start_cmd).                     *)
SendCommand(c, arrives) ==
  /\ count.commands < MaxCommands
  /\ count' = [count EXCEPT !.commands = @ + 1]
  /\ master' = [framecnt |-> NextNumber, command |-> c]
  /\ canbus_recv_start_cmd(NextNumber, c, arrives)
  /\ UNCHANGED <<moudle, mot, position, uploadcnt, pc, writes, jack>>

(* A run command is sent again and again with its old number.              *)
Resend(arrives) ==
  /\ master.command.cmd = "RUN"
  /\ canbus_recv_start_cmd(master.framecnt, master.command, arrives)
  /\ UNCHANGED <<moudle, mot, position, uploadcnt, pc, writes, jack, master,
                 count>>

(* The master starts anew and has forgotten its counters.                  *)
MasterReset ==
  /\ count.faults < MaxFaults
  /\ count' = [count EXCEPT !.faults = @ + 1]
  /\ master' = [framecnt |-> 0, command |-> NoCommand]
  /\ restarted' = TRUE
  /\ UNCHANGED <<moudle, mot, position, uploadcnt, risecmd, number, pc, writes,
                 jack, taken, raced, ended>>

(* The board starts anew; the jack stays where it is.                      *)
BoardReset ==
  /\ count.faults < MaxFaults
  /\ count' = [count EXCEPT !.faults = @ + 1]
  /\ moudle' = Moudle0 /\ mot' = Mot0 /\ position' = Position0
  /\ uploadcnt' = 0
  /\ risecmd' = Risecmd0 /\ number' = Unnumbered
  /\ pc' = "error" /\ writes' = {}
  /\ taken' = NoCommand /\ raced' = FALSE /\ ended' = "no"
  /\ restarted' = FALSE
  /\ UNCHANGED <<jack, master>>

(* In a millisecond one corner sensor is covered, or none: any two legs    *)
(* share a corner, and each has one that the other has not.                *)
MainLoop ==
  \/ \E alarm \in Alarm : MOT_Error_Detection_Process(alarm)
  \/ \E covered \in {{}} \cup {{s} : s \in Sensor} :
       moto_upload_moudle_status(covered)
  \/ Init_Find_Position_Process
  \/ moto_ctrl_convey_process
  \/ ConveyWrite

Next ==
  \/ MainLoop
  \/ \E c \in Command, arrives \in BOOLEAN : SendCommand(c, arrives)
  \/ \E arrives \in BOOLEAN : Resend(arrives)
  \/ MasterReset
  \/ BoardReset

(* The board's main loop goes on for ever, a frame sent again and again    *)
(* arrives, and a box whose first leg runs comes to the end of the zone.   *)
Arrival ==
  \E m \in Module : /\ moudle[m].type = "TRIGSTOP" /\ moudle[m].status = "RUN"
                    /\ \E s \in Exit[moudle[m].dir] :
                         moto_upload_moudle_status({s})

Fairness ==
  /\ WF_vars(MainLoop)
  /\ SF_vars(Resend(TRUE))
  /\ SF_vars(Arrival)

Spec == Init /\ [][Next]_vars
FairSpec == Spec /\ Fairness

-----------------------------------------------------------------------------
(* Every variable has its type.                                            *)
TypeOK ==
  /\ moudle \in [Module -> [type : Type, status : Status, dir : Legs]]
  /\ mot \in [1 .. 3 -> [run : BOOLEAN, dir : Legs \cup {"CW", "CCW"}]]
  /\ position \in [status : {"INIT", "UP", "DOWN", "ERROR"},
                   set : {"UP", "DOWN", "ERROR"}, find : BOOLEAN,
                   timeout : 0 .. Limit + 1]
  /\ uploadcnt \in 0 .. Period
  /\ risecmd \in [value : BOOLEAN,
                  command : [cmd : {"RUN"}, dir : Dirs, type : Type]
                              \cup [cmd : {"STOP", "none"}]]
  /\ risecmd.value => risecmd.command.cmd # "none"
  /\ number \in 0 .. MaxCommands \cup {Unnumbered}
  /\ pc \in {"error", "status", "find", "convey", "write"}
  /\ writes \subseteq {"value", "type"}
  /\ jack \in 0 .. Height
  /\ master \in [framecnt : 0 .. MaxCommands,
                 command : Command \cup {NoCommand}]
  /\ count \in [commands : 0 .. MaxCommands, alarms : 0 .. MaxAlarms,
                faults : 0 .. MaxFaults]
  /\ taken \in Command \cup {NoCommand} /\ raced \in BOOLEAN
  /\ ended \in {"no", "sensor", "alarm"} /\ restarted \in BOOLEAN

(* Whenever the jack is not being moved its motor is off and               *)
(* g_position_status says where it is; and it is never moved without the   *)
(* clock running that gives its search up (moto.c 525-580).  Directions    *)
(* may change under way, alarms stop the motor, resets come at any time.   *)
JackKnown ==
  /\ ~position.find => ~mot[3].run
  /\ ~position.find /\ position.status = "UP" => jack = Height
  /\ ~position.find /\ position.status = "DOWN" => jack = 0
  /\ position.find => position.timeout <= Limit

(* Once a command has been dealt with, the modules do what the last one    *)
(* taken says: stand still, or run its last leg until a sensor (only where *)
(* it is one of type TRIGSTOP) or an alarm stops it.  One exception: it    *)
(* came between the reading and the writing of the one before it           *)
(* (moto.c 717-854) and was invalidated unread.                            *)
LastCommandWins ==
  pc = "error" /\ ~risecmd.value /\ taken.cmd # "none" /\ ~raced =>
    IF taken.cmd = "STOP"
    THEN \A m \in Module : moudle[m].status = "STOP"
    ELSE LET leg == LegOut[taken.dir[2]]
         IN  /\ moudle[Of(leg)].dir = leg
             /\ moudle[Of(leg)].status = "RUN" <=> ended = "no"
             /\ ended = "sensor" => Straight(taken.dir) /\ taken.type = "TRIGSTOP"

(* The second leg of a turn begins when the first one was stopped by a     *)
(* sensor, and not before: the box would be pushed off the side.  Three    *)
(* things break that, and only these: an alarm of the first leg's motor    *)
(* is taken for an arrival, a turn of type TRIGSTOP does not run its first *)
(* leg, and neither does one whose type was overwritten unread.            *)
SecondLegAfterArrival ==
  [][pc = "convey" /\ SecondLeg
       => \/ ended \in {"sensor", "alarm"}
          \/ taken.type = "TRIGSTOP"
          \/ raced]_vars

(* The number of the next command is not the one the board took last, or   *)
(* the board would ignore it, unless the master has lost its counters.     *)
NextNumberIsNew == IsNew(NextNumber) \/ restarted

(* A run command whose number the board has not seen is taken and carried  *)
(* out to its last leg, however many of its frames are lost and whatever   *)
(* alarms come, unless another command or a reset takes its place or the   *)
(* exceptions above meet it.                                               *)
CarriedOut ==
  \A n \in 1 .. MaxCommands :
    /\ master.framecnt = n /\ number # n /\ master.command.cmd = "RUN"
    /\ Straight(master.command.dir) \/ master.command.type = "CONTINUE"
    ~> \/ number = n /\ ~risecmd.value
       \/ master.framecnt # n
       \/ raced

(* The jack comes to where the running module needs it, also when it was   *)
(* sent the other way half way up or down and had to be given up first.    *)
JackFollows ==
  /\ moudle[2].status = "RUN" ~> jack = 0 \/ moudle[2].status = "STOP"
  /\ moudle[1].status = "RUN" /\ moudle[2].status = "STOP"
       ~> jack = Height \/ moudle[1].status = "STOP" \/ moudle[2].status = "RUN"
=============================================================================
