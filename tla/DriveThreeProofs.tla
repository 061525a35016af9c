-------------------------- MODULE DriveThreeProofs --------------------------
(***************************************************************************)
(* The safety properties of DriveThree for every set of directions, every  *)
(* period, height and time limit, and any number of commands, alarms and   *)
(* resets.                                                                 *)
(***************************************************************************)
EXTENDS DriveThree, TLAPS

(* The numbers the board has seen are ones the master has given since its  *)
(* last start, or it has been restarted since.                             *)
Numbered ==
  /\ master.framecnt <= count.commands
  /\ restarted = TRUE \/ number = Unnumbered \/ number <= master.framecnt

Modules   == [Module -> [type : Type, status : Status, dir : Legs]]
Motors    == [1 .. 3 -> [run : BOOLEAN, dir : Legs \cup {"CW", "CCW"}]]
Positions == [status : {"INIT", "UP", "DOWN", "ERROR"},
              set : {"UP", "DOWN", "ERROR"}, find : BOOLEAN,
              timeout : 0 .. Limit + 1]
Risecmds  == [value : BOOLEAN,
              command : [cmd : {"RUN"}, dir : Dirs, type : Type]
                          \cup [cmd : {"STOP", "none"}]]
Masters   == [framecnt : 0 .. MaxCommands, command : Command \cup {NoCommand}]
Counts    == [commands : 0 .. MaxCommands, alarms : 0 .. MaxAlarms,
              faults : 0 .. MaxFaults]

(* TypeOK with the large sets folded.                                      *)
Typed ==
  /\ moudle \in Modules /\ mot \in Motors /\ position \in Positions
  /\ uploadcnt \in 0 .. Period
  /\ risecmd \in Risecmds /\ (risecmd.value => risecmd.command.cmd # "none")
  /\ number \in 0 .. MaxCommands \cup {Unnumbered}
  /\ pc \in {"error", "status", "find", "convey", "write"}
  /\ writes \subseteq {"value", "type"}
  /\ jack \in 0 .. Height
  /\ master \in Masters /\ count \in Counts
  /\ taken \in Command \cup {NoCommand} /\ raced \in BOOLEAN
  /\ ended \in {"no", "sensor", "alarm"} /\ restarted \in BOOLEAN

(* What is inductive of types, jack and numbers.                           *)
Sound == Typed /\ JackKnown /\ Numbered
-----------------------------------------------------------------------------
(* The legs of a direction are legs, and a leg is one of module 1 or 2.    *)
LEMMA LegTypes ==
  ASSUME NEW d \in Dirs
  PROVE  /\ d[1] \in Sides /\ d[2] \in Sides
         /\ LegIn[d[1]] \in Legs /\ LegOut[d[2]] \in Legs
<1>1. d \in Sides \X Sides
  BY DriveAssumption
<1>2. d[1] \in Sides /\ d[2] \in Sides
  BY <1>1
<1> QED
  BY <1>2 DEF Sides, LegIn, LegOut, Legs

LEMMA OfType ==
  ASSUME NEW leg
  PROVE  Of(leg) \in Module
BY DEF Of, Module

LEMMA TypedIsTypeOK == Typed <=> TypeOK
BY DEF Typed, TypeOK, Modules, Motors, Positions, Risecmds, Masters, Counts

(* The constants are numbers.                                              *)
LEMMA Numbers ==
  /\ Period \in Nat /\ Height \in Nat /\ Height > 0 /\ Limit \in Nat
  /\ MaxCommands \in Nat /\ MaxAlarms \in Nat /\ MaxFaults \in Nat
  /\ Unnumbered \in Nat /\ Unnumbered > MaxCommands + 1
BY DriveAssumption

(* What halting and stopping do to motors and modules.                     *)
LEMMA HaltedIs ==
  ASSUME mot \in Motors, NEW ms
  PROVE  /\ Halted(ms) \in Motors
         /\ Halted(ms)[3].run => mot[3].run
         /\ 3 \notin ms => Halted(ms)[3] = mot[3]
<1>1. \A r \in [run : BOOLEAN, dir : Legs \cup {"CW", "CCW"}] :
        /\ [r EXCEPT !.run = FALSE]
             \in [run : BOOLEAN, dir : Legs \cup {"CW", "CCW"}]
        /\ ~[r EXCEPT !.run = FALSE].run
  OBVIOUS
<1>2. Halted(ms)[3] = IF 3 \in ms THEN [mot[3] EXCEPT !.run = FALSE] ELSE mot[3]
  BY DEF Halted
<1>3. mot[3] \in [run : BOOLEAN, dir : Legs \cup {"CW", "CCW"}]
  BY DEF Motors
<1>4. Halted(ms) \in Motors
  BY <1>1 DEF Halted, Motors
<1> QED
  BY <1>1, <1>2, <1>3, <1>4

LEMMA StoppedIs ==
  ASSUME moudle \in Modules, NEW ms
  PROVE  /\ Stopped(ms) \in Modules
         /\ \A m \in Module :
              /\ Stopped(ms)[m].type = moudle[m].type
              /\ Stopped(ms)[m].dir = moudle[m].dir
              /\ Stopped(ms)[m].status =
                   IF m \in ms THEN "STOP" ELSE moudle[m].status
BY DEF Stopped, Modules, Status

(* What starting a search and finding the switch do to the position.       *)
LEMMA PositionIs ==
  ASSUME NEW r \in Positions, NEW b \in BOOLEAN, NEW x \in {"UP", "DOWN", "ERROR"}
  PROVE  /\ [r EXCEPT !.find = b, !.timeout = 0] \in Positions
         /\ [r EXCEPT !.status = x, !.find = b, !.timeout = 0] \in Positions
<1>1. 0 \in 0 .. Limit + 1
  BY Numbers
<1> DEFINE Ticks == 0 .. Limit + 1
<1>2. 0 \in Ticks
  BY <1>1
<1>3. Positions = [status : {"INIT", "UP", "DOWN", "ERROR"},
                   set : {"UP", "DOWN", "ERROR"}, find : BOOLEAN,
                   timeout : Ticks]
  BY DEF Positions
<1> HIDE DEF Ticks
<1> QED
  BY <1>2, <1>3

LEMMA InitSound == Init => Sound
<1> SUFFICES ASSUME Init PROVE Sound
  OBVIOUS
<1>1. moudle \in Modules
  BY DEF Init, Modules, Moudle0, Module, Type, Status, Legs
<1>2. mot \in Motors /\ ~mot[3].run
  BY DEF Init, Motors, Mot0
<1>3. /\ position \in Positions /\ ~position.find /\ position.status = "INIT"
  BY Numbers DEF Init, Positions, Position0
<1>4. risecmd \in Risecmds /\ ~risecmd.value
  BY DEF Init, Risecmds, Risecmd0, NoCommand
<1>5. /\ master \in Masters /\ count \in Counts
      /\ master.framecnt = 0 /\ count.commands = 0
  BY Numbers DEF Init, Masters, Counts
<1>6. Typed
  <2>1. /\ uploadcnt \in 0 .. Period /\ jack \in 0 .. Height
        /\ number \in 0 .. MaxCommands \cup {Unnumbered}
        /\ pc \in {"error", "status", "find", "convey", "write"}
        /\ writes \subseteq {"value", "type"}
    BY Numbers DEF Init
  <2>2. /\ taken \in Command \cup {NoCommand}
        /\ ended \in {"no", "sensor", "alarm"}
    BY DEF Init
  <2>3. raced \in BOOLEAN /\ restarted \in BOOLEAN
    BY DEF Init
  <2> QED
    BY <1>1, <1>2, <1>3, <1>4, <1>5, <2>1, <2>2, <2>3 DEF Typed
<1>7. JackKnown
  BY <1>2, <1>3 DEF JackKnown
<1>8. Numbered
  BY <1>5 DEF Init, Numbered
<1> QED
  BY <1>6, <1>7, <1>8 DEF Sound
-----------------------------------------------------------------------------
(* The main loop.                                                          *)

LEMMA ErrorSound ==
  ASSUME Sound, NEW alarm \in Alarm, MOT_Error_Detection_Process(alarm)
  PROVE  Sound'
<1>1. moudle' \in Modules
  BY StoppedIs DEF Sound, Typed, MOT_Error_Detection_Process
<1>2. mot' \in Motors /\ (mot'[3].run => mot[3].run)
  BY HaltedIs DEF Sound, Typed, MOT_Error_Detection_Process
<1>3. jack' \in 0 .. Height /\ (~mot[3].run => jack' = jack)
  BY Numbers DEF Sound, Typed, MOT_Error_Detection_Process, JackMoved
<1>4. ended' \in {"no", "sensor", "alarm"}
  BY DEF Sound, Typed, MOT_Error_Detection_Process, EndedBy
<1>5. count' \in Counts /\ count'.commands = count.commands
  BY Numbers DEF Sound, Typed, MOT_Error_Detection_Process, Counts
<1>6. pc' = "status"
      /\ UNCHANGED <<position, uploadcnt, risecmd, number, writes, master,
                     taken, raced, restarted>>
  BY DEF MOT_Error_Detection_Process
<1>7. Typed'
  BY <1>1, <1>2, <1>3, <1>4, <1>5, <1>6 DEF Sound, Typed
<1>8. JackKnown'
  BY <1>2, <1>3, <1>6 DEF Sound, JackKnown
<1>9. Numbered'
  BY <1>5, <1>6 DEF Sound, Numbered
<1> QED
  BY <1>7, <1>8, <1>9 DEF Sound

LEMMA StatusSound ==
  ASSUME Sound, NEW covered, moto_upload_moudle_status(covered)
  PROVE  Sound'
<1> DEFINE here == Triggered(covered)
           runs == {m \in Module \ here : moudle[m].status = "RUN"}
           due  == uploadcnt = Period
<1>0. /\ moudle \in Modules /\ mot \in Motors /\ position \in Positions
      /\ uploadcnt \in 0 .. Period
  BY DEF Sound, Typed
<1>1. /\ pc' = "find"
      /\ moudle' = [m \in Module |-> IF m \in here
                      THEN [Stopped(here)[m] EXCEPT !.type = "CONTINUE"]
                      ELSE moudle[m]]
      /\ ended' = EndedBy(here, "sensor")
      /\ uploadcnt' = IF due THEN 0 ELSE uploadcnt + 1
      /\ mot' = IF ~due THEN Halted(here)
                ELSE [m \in 1 .. 3 |->
                        IF m \in runs THEN [run |-> TRUE, dir |-> moudle[m].dir]
                        ELSE Halted(Module \ runs)[m]]
      /\ position' = [position EXCEPT !.set =
                        IF due /\ 2 \in runs THEN "DOWN"
                        ELSE IF due /\ 1 \in runs THEN "UP" ELSE @]
      /\ UNCHANGED <<risecmd, number, writes, jack, master, count, taken, raced,
                     restarted>>
  BY DEF moto_upload_moudle_status
<1> HIDE DEF here
<1>2. moudle' \in Modules
  <2>1. \A r \in [type : Type, status : Status, dir : Legs] :
          [r EXCEPT !.type = "CONTINUE"]
            \in [type : Type, status : Status, dir : Legs]
    BY DEF Type
  <2>2. Stopped(here) \in Modules
    BY <1>0, StoppedIs
  <2> QED
    BY <1>0, <1>1, <2>1, <2>2 DEF Modules
<1>3. mot' \in Motors /\ mot'[3] = mot[3]
  <2>1. 3 \notin Module /\ 3 \notin here
    BY DEF Module, here, Triggered
  <2>2. CASE due
    <3> DEFINE rest == Halted(Module \ runs)
    <3>1. rest \in Motors /\ rest[3] = mot[3]
      BY <1>0, <2>1, HaltedIs
    <3>2. mot' = [m \in 1 .. 3 |->
                   IF m \in runs THEN [run |-> TRUE, dir |-> moudle[m].dir]
                   ELSE rest[m]]
      BY <1>1, <2>2
    <3>3. \A m \in runs : m \in Module /\ moudle[m].dir \in Legs
      BY <1>0 DEF Modules
    <3> HIDE DEF runs, rest
    <3> QED
      BY <2>1, <3>1, <3>2, <3>3 DEF Motors
  <2>3. CASE ~due
    BY <1>0, <1>1, <2>1, <2>3, HaltedIs
  <2> QED
    BY <2>2, <2>3
<1>4. /\ position' \in Positions
      /\ position'.status = position.status
      /\ position'.find = position.find
      /\ position'.timeout = position.timeout
  <2>1. PICK x \in {"UP", "DOWN", "ERROR"} :
          position' = [position EXCEPT !.set = x]
    BY <1>0, <1>1 DEF Positions
  <2> QED
    BY <1>0, <2>1 DEF Positions
<1>5. uploadcnt' \in 0 .. Period
  BY <1>0, <1>1, Numbers
<1>6. ended' \in {"no", "sensor", "alarm"}
  BY <1>1 DEF Sound, Typed, EndedBy
<1>7. Typed'
  BY <1>1, <1>2, <1>3, <1>4, <1>5, <1>6 DEF Sound, Typed
<1>8. JackKnown'
  BY <1>1, <1>3, <1>4 DEF Sound, JackKnown
<1>9. Numbered'
  BY <1>1 DEF Sound, Numbered
<1> QED
  BY <1>7, <1>8, <1>9 DEF Sound

LEMMA FindSound ==
  ASSUME Sound, Init_Find_Position_Process
  PROVE  Sound'
<1> DEFINE l == Located
           p == IF Starts(l) THEN [l EXCEPT !.find = TRUE, !.timeout = 0] ELSE l
           q == IF p.find THEN Watched(p) ELSE p
           run == (mot[3].run \/ Starts(l)) /\ (p.find => q.find)
           dir == IF ~Starts(l) THEN mot[3].dir
                  ELSE IF p.set = "UP" THEN "CCW" ELSE "CW"
<1>0. /\ mot \in Motors /\ position \in Positions /\ jack \in 0 .. Height
      /\ JackKnown
  BY DEF Sound, Typed
<1>1. /\ position' = q
      /\ mot' = [mot EXCEPT ![3] = [run |-> run, dir |-> dir]]
      /\ pc' = "convey"
      /\ UNCHANGED <<moudle, uploadcnt, risecmd, number, writes, jack, master,
                     count, taken, raced, ended, restarted>>
  BY DEF Init_Find_Position_Process
<1>2. /\ mot' \in Motors
      /\ mot'[3].run = run
  <2>1. run \in BOOLEAN /\ dir \in Legs \cup {"CW", "CCW"}
    BY <1>0 DEF Motors
  <2> HIDE DEF run, dir
  <2> QED
    BY <1>0, <1>1, <2>1 DEF Motors
<1>3. /\ l \in Positions /\ l.find = position.find
      /\ l.timeout = position.timeout
      /\ ~l.find => /\ l.status = "UP" => jack = Height
                    /\ l.status = "DOWN" => jack = 0
  BY <1>0 DEF Located, AtSwitch, Positions, JackKnown
<1> HIDE DEF l
<1>4. /\ p \in Positions /\ (p.find => p.timeout <= Limit)
      /\ (~p.find => p = l /\ ~Starts(l) /\ ~l.find)
  <2>1. CASE Starts(l)
    <3>1. p = [l EXCEPT !.find = TRUE, !.timeout = 0]
      BY <2>1
    <3>2. p \in Positions
      BY <1>3, <3>1, PositionIs
    <3>3. p.find /\ p.timeout = 0
      BY <1>3, <3>1 DEF Positions
    <3> HIDE DEF p
    <3> QED
      BY <3>2, <3>3, Numbers
  <2>2. CASE ~Starts(l)
    <3>1. p = l
      BY <2>2
    <3>2. l.find => l.timeout <= Limit
      BY <1>0, <1>3 DEF JackKnown
    <3> HIDE DEF p
    <3> QED
      BY <1>3, <2>2, <3>1, <3>2
  <2> QED
    BY <2>1, <2>2
<1> HIDE DEF p
<1>5. CASE ~p.find
  <2>1. q = l /\ ~Starts(l) /\ ~l.find
    BY <1>4, <1>5
  <2>2. ~mot[3].run
    BY <1>0, <1>3, <2>1 DEF JackKnown
  <2>3. ~mot'[3].run
    BY <1>2, <2>1, <2>2
  <2>4. Typed'
    BY <1>1, <1>2, <1>3, <2>1 DEF Sound, Typed
  <2>5. JackKnown'
    BY <1>1, <1>3, <2>1, <2>3 DEF JackKnown
  <2> QED
    BY <1>1, <2>4, <2>5 DEF Numbered, Sound
<1>6. CASE p.find
  <2>1. q = Watched(p)
    BY <1>6
  <2>2. /\ q \in Positions
        /\ ~q.find /\ q.status = "UP" => jack = Height
        /\ ~q.find /\ q.status = "DOWN" => jack = 0
        /\ q.find => q.timeout <= Limit
    <3>1. CASE p.set = AtSwitch
      <4>1. q = [p EXCEPT !.status = p.set, !.find = FALSE, !.timeout = 0]
        BY <2>1, <3>1 DEF Watched
      <4>2. p.set \in {"UP", "DOWN"}
        BY <1>4, <3>1 DEF AtSwitch, Positions
      <4>3. /\ p.set = "UP" => jack = Height
            /\ p.set = "DOWN" => jack = 0
        BY <3>1 DEF AtSwitch
      <4> HIDE DEF q
      <4>4. q \in Positions
        BY <1>4, <4>1, <4>2, PositionIs
      <4>5. ~q.find /\ q.status = p.set
        BY <1>4, <4>1 DEF Positions
      <4> QED
        BY <4>3, <4>4, <4>5
    <3>2. CASE p.set # AtSwitch /\ p.timeout = Limit
      BY <1>4, <2>1, <3>2, Numbers DEF Watched, Positions
    <3>3. CASE p.set # AtSwitch /\ p.timeout # Limit
      BY <1>4, <1>6, <2>1, <3>3, Numbers DEF Watched, Positions
    <3> QED
      BY <3>1, <3>2, <3>3
  <2>3. mot'[3].run => q.find
    BY <1>2, <1>6
  <2> HIDE DEF q
  <2>4. Typed'
    BY <1>1, <1>2, <2>2 DEF Sound, Typed
  <2>5. JackKnown'
    BY <1>1, <2>2, <2>3 DEF JackKnown
  <2> QED
    BY <1>1, <2>4, <2>5 DEF Numbered, Sound
<1> QED
  BY <1>5, <1>6

(* moto_set_run_cmd gives a module what it has to do.                      *)
LEMMA SetIs ==
  ASSUME moudle \in Modules, NEW m \in Module, NEW s \in Status, NEW t \in Type,
         NEW l \in Legs, moto_set_run_cmd(m, s, t, l)
  PROVE  /\ moudle' \in Modules
         /\ moudle'[m] = [type |-> t, status |-> s, dir |-> l]
         /\ \A k \in Module \ {m} : moudle'[k] = moudle[k]
BY DEF moto_set_run_cmd, Modules

(* A run command has a direction.                                          *)
LEMMA CommandTypes ==
  ASSUME Typed
  PROVE  /\ risecmd.value \in BOOLEAN
         /\ risecmd.command.cmd \in {"RUN", "STOP", "none"}
         /\ risecmd.command.cmd = "RUN" =>
              risecmd.command.dir \in Dirs /\ risecmd.command.type \in Type
         /\ taken.cmd \in {"RUN", "STOP", "none"}
         /\ taken.cmd = "RUN" =>
              taken.dir \in Dirs /\ taken.type \in {"CONTINUE", "TRIGSTOP"}
<1>1. risecmd.value \in BOOLEAN
  BY DEF Typed, Risecmds
<1>2. risecmd.command \in [cmd : {"RUN"}, dir : Dirs, type : Type]
                            \cup [cmd : {"STOP", "none"}]
  BY DEF Typed, Risecmds
<1>3. taken \in [cmd : {"RUN"}, dir : Dirs, type : {"CONTINUE", "TRIGSTOP"}]
                  \cup [cmd : {"STOP"}] \cup {NoCommand}
  BY DEF Typed, Command
<1> QED
  BY <1>1, <1>2, <1>3 DEF NoCommand

LEMMA ConveySound ==
  ASSUME Sound, moto_ctrl_convey_process
  PROVE  Sound'
<1>0. moudle \in Modules /\ Typed
  BY DEF Sound, Typed
<1>1. UNCHANGED <<mot, position, uploadcnt, risecmd, number, jack, master, count,
                  taken, raced, restarted>>
  BY DEF moto_ctrl_convey_process
<1>2. /\ moudle' \in Modules
      /\ ended' \in {ended, "no"}
      /\ pc' \in {"error", "write"} /\ writes' \subseteq {"value", "type"}
  <2>1. CASE Idle
    BY <1>0, <2>1 DEF Idle
  <2>2. CASE StopBoth
    BY <2>2 DEF StopBoth, Modules, Type, Status, Legs
  <2>3. CASE RunStraight
    <3> DEFINE c == risecmd.command
               leg == LegOut[c.dir[2]]
    <3>1. c.dir \in Dirs /\ c.type \in Type
      BY <1>0, <2>3, CommandTypes DEF RunStraight
    <3>2. leg \in Legs /\ Of(leg) \in Module /\ "RUN" \in Status
      BY <3>1, LegTypes, OfType DEF Status
    <3>3. CASE c.type = "TYPEDEFAULT"
      BY <1>0, <2>3, <3>3 DEF RunStraight
    <3>4. CASE c.type # "TYPEDEFAULT"
      <4>1. /\ moto_set_run_cmd(Of(leg), "RUN", c.type, leg) /\ ended' = "no"
            /\ pc' = "write" /\ writes' = {"value"}
        BY <2>3, <3>4 DEF RunStraight
      <4> HIDE DEF leg, c
      <4> QED
        BY <1>0, <3>1, <3>2, <4>1, SetIs
    <3> QED
      BY <3>3, <3>4
  <2>4. CASE FirstLeg
    <3> DEFINE leg == LegIn[risecmd.command.dir[1]]
    <3>1. /\ moto_set_run_cmd(Of(leg), "RUN", "TRIGSTOP", leg) /\ ended' = "no"
          /\ pc' = "write" /\ writes' = {"type"}
      BY <2>4 DEF FirstLeg
    <3>2. /\ leg \in Legs /\ Of(leg) \in Module /\ "RUN" \in Status
          /\ "TRIGSTOP" \in Type
      BY <1>0, <2>4, CommandTypes, LegTypes, OfType DEF FirstLeg, Turning, Status,
         Type
    <3> HIDE DEF leg
    <3> QED
      BY <1>0, <3>1, <3>2, SetIs
  <2>5. CASE Underway
    BY <1>0, <2>5 DEF Underway
  <2>6. CASE SecondLeg
    <3> DEFINE leg == LegOut[risecmd.command.dir[2]]
    <3>1. /\ moto_set_run_cmd(Of(leg), "RUN", "CONTINUE", leg) /\ ended' = "no"
          /\ pc' = "write" /\ writes' = {"value"}
      BY <2>6 DEF SecondLeg
    <3>2. /\ leg \in Legs /\ Of(leg) \in Module /\ "RUN" \in Status
          /\ "CONTINUE" \in Type
      BY <1>0, <2>6, CommandTypes, LegTypes, OfType DEF SecondLeg, Turning,
         Status, Type
    <3> HIDE DEF leg
    <3> QED
      BY <1>0, <3>1, <3>2, SetIs
  <2> QED
    BY <2>1, <2>2, <2>3, <2>4, <2>5, <2>6 DEF moto_ctrl_convey_process
<1>3. Typed'
  BY <1>0, <1>1, <1>2 DEF Typed
<1>4. JackKnown'
  BY <1>1 DEF Sound, JackKnown
<1>5. Numbered'
  BY <1>1 DEF Sound, Numbered
<1> QED
  BY <1>3, <1>4, <1>5 DEF Sound

LEMMA ConveyWriteSound ==
  ASSUME Sound, ConveyWrite
  PROVE  Sound'
<1>0. Typed
  BY DEF Sound
<1>1. /\ risecmd' = IF "value" \in writes THEN [risecmd EXCEPT !.value = FALSE]
                    ELSE IF risecmd.command.cmd = "RUN"
                    THEN [risecmd EXCEPT !.command.type = "TYPEDEFAULT"]
                    ELSE risecmd
      /\ pc' = "error" /\ writes' = {}
      /\ UNCHANGED <<moudle, mot, position, uploadcnt, number, jack, master, count,
                      taken, raced, ended, restarted>>
  BY DEF ConveyWrite
<1>2. risecmd' \in Risecmds /\ (risecmd'.value => risecmd'.command.cmd # "none")
  <2>1. risecmd \in Risecmds /\ (risecmd.value => risecmd.command.cmd # "none")
    BY <1>0 DEF Typed
  <2>2. CASE "value" \in writes
    <3>1. risecmd' = [risecmd EXCEPT !.value = FALSE]
      BY <1>1, <2>2
    <3> QED
      BY <2>1, <3>1 DEF Risecmds
  <2>3. CASE "value" \notin writes /\ risecmd.command.cmd = "RUN"
    <3>1. risecmd' = [risecmd EXCEPT !.command.type = "TYPEDEFAULT"]
      BY <1>1, <2>3
    <3>2. risecmd.command \in [cmd : {"RUN"}, dir : Dirs, type : Type]
      BY <2>1, <2>3 DEF Risecmds
    <3>3. [risecmd.command EXCEPT !.type = "TYPEDEFAULT"]
            \in [cmd : {"RUN"}, dir : Dirs, type : Type]
      BY <3>2 DEF Type
    <3>4. risecmd' =
            [risecmd EXCEPT !.command =
               [risecmd.command EXCEPT !.type = "TYPEDEFAULT"]]
      BY <3>1
    <3>5. [risecmd.command EXCEPT !.type = "TYPEDEFAULT"].cmd = "RUN"
      BY <2>3, <3>2
    <3> QED
      BY <2>1, <3>3, <3>4, <3>5 DEF Risecmds
  <2>4. CASE "value" \notin writes /\ risecmd.command.cmd # "RUN"
    BY <1>1, <2>1, <2>4
  <2> QED
    BY <2>2, <2>3, <2>4
<1>3. Typed'
  BY <1>0, <1>1, <1>2 DEF Typed
<1>4. JackKnown'
  BY <1>1 DEF Sound, JackKnown
<1>5. Numbered'
  BY <1>1 DEF Sound, Numbered
<1> QED
  BY <1>3, <1>4, <1>5 DEF Sound
-----------------------------------------------------------------------------
(* The master's commands, and resets.                                      *)

LEMMA RecvIs ==
  ASSUME Typed, NEW n \in 0 .. MaxCommands, NEW c \in Command,
         NEW arrives \in BOOLEAN, canbus_recv_start_cmd(n, c, arrives)
  PROVE  /\ number' \in 0 .. MaxCommands \cup {Unnumbered}
         /\ risecmd' \in Risecmds
         /\ risecmd'.value => risecmd'.command.cmd # "none"
         /\ taken' \in Command \cup {NoCommand} /\ raced' \in BOOLEAN
         /\ ended' \in {"no", "sensor", "alarm"} /\ restarted' \in BOOLEAN
         /\ number' = n \/ UNCHANGED <<number, restarted>>
<1>1. CASE arrives /\ IsNew(n)
  <2>1. /\ number' = n /\ risecmd' = [value |-> TRUE, command |-> c]
        /\ taken' = c /\ raced' = (pc = "write") /\ ended' = "no"
        /\ restarted' = FALSE
    BY <1>1 DEF canbus_recv_start_cmd
  <2>2. /\ c \in [cmd : {"RUN"}, dir : Dirs, type : Type]
                   \cup [cmd : {"STOP", "none"}]
        /\ c.cmd # "none"
    BY DEF Command, Type
  <2>3. risecmd' \in Risecmds /\ (risecmd'.value => risecmd'.command.cmd # "none")
    BY <2>1, <2>2 DEF Risecmds
  <2>4. raced' \in BOOLEAN /\ restarted' \in BOOLEAN
    BY <2>1
  <2> QED
    BY <2>1, <2>3, <2>4
<1>2. CASE ~(arrives /\ IsNew(n))
  <2>1. UNCHANGED <<number, risecmd, taken, raced, ended, restarted>>
    BY <1>2 DEF canbus_recv_start_cmd
  <2> QED
    BY <2>1 DEF Typed
<1> QED
  BY <1>1, <1>2

LEMMA SendSound ==
  ASSUME Sound, NEW c \in Command, NEW arrives \in BOOLEAN,
         SendCommand(c, arrives)
  PROVE  Sound'
<1>0. Typed /\ master \in Masters /\ count \in Counts
  BY DEF Sound, Typed
<1>1. /\ count.commands < MaxCommands
      /\ count' = [count EXCEPT !.commands = @ + 1]
      /\ master' = [framecnt |-> NextNumber, command |-> c]
      /\ canbus_recv_start_cmd(NextNumber, c, arrives)
      /\ UNCHANGED <<moudle, mot, position, uploadcnt, pc, writes, jack>>
  BY DEF SendCommand
<1>2. /\ master.framecnt \in 0 .. MaxCommands
      /\ count.commands \in 0 .. MaxCommands
      /\ master.framecnt <= count.commands
  BY <1>0 DEF Masters, Counts, Sound, Numbered
<1>3. NextNumber = master.framecnt + 1 /\ NextNumber \in 0 .. MaxCommands
  BY <1>1, <1>2, Numbers DEF NextNumber
<1>4. /\ count' \in Counts /\ count'.commands = count.commands + 1
  <2>1. count.commands + 1 \in 0 .. MaxCommands
    BY <1>1, <1>2, Numbers
  <2> QED
    BY <1>0, <1>1, <2>1 DEF Counts
<1>5. master' \in Masters /\ master'.framecnt = NextNumber
  BY <1>1, <1>3 DEF Masters
<1>6. /\ number' \in 0 .. MaxCommands \cup {Unnumbered}
      /\ risecmd' \in Risecmds
      /\ risecmd'.value => risecmd'.command.cmd # "none"
      /\ taken' \in Command \cup {NoCommand} /\ raced' \in BOOLEAN
      /\ ended' \in {"no", "sensor", "alarm"} /\ restarted' \in BOOLEAN
      /\ number' = NextNumber \/ UNCHANGED <<number, restarted>>
  BY <1>0, <1>1, <1>3, RecvIs
<1>7. Typed'
  BY <1>0, <1>1, <1>4, <1>5, <1>6 DEF Typed
<1>8. JackKnown'
  BY <1>1 DEF Sound, JackKnown
<1>9. Numbered'
  <2>1. master'.framecnt <= count'.commands
    BY <1>2, <1>3, <1>4, <1>5
  <2>2. CASE number' = NextNumber
    BY <1>3, <1>5, <2>1, <2>2 DEF Numbered
  <2>3. CASE UNCHANGED <<number, restarted>>
    <3>1. number <= master.framecnt => number' <= master'.framecnt
      BY <1>0, <1>2, <1>3, <1>5, <2>3, Numbers DEF Typed
    <3> QED
      BY <2>1, <2>3, <3>1 DEF Sound, Numbered
  <2> QED
    BY <1>6, <2>2, <2>3
<1> QED
  BY <1>7, <1>8, <1>9 DEF Sound

LEMMA ResendSound ==
  ASSUME Sound, NEW arrives \in BOOLEAN, Resend(arrives)
  PROVE  Sound'
<1>0. Typed /\ master \in Masters
  BY DEF Sound, Typed
<1>1. /\ master.command.cmd = "RUN"
      /\ canbus_recv_start_cmd(master.framecnt, master.command, arrives)
      /\ UNCHANGED <<moudle, mot, position, uploadcnt, pc, writes, jack, master,
                     count>>
  BY DEF Resend
<1>2. master.framecnt \in 0 .. MaxCommands /\ master.command \in Command
  BY <1>0, <1>1 DEF Masters, NoCommand
<1>3. /\ number' \in 0 .. MaxCommands \cup {Unnumbered}
      /\ risecmd' \in Risecmds
      /\ risecmd'.value => risecmd'.command.cmd # "none"
      /\ taken' \in Command \cup {NoCommand} /\ raced' \in BOOLEAN
      /\ ended' \in {"no", "sensor", "alarm"} /\ restarted' \in BOOLEAN
      /\ number' = master.framecnt \/ UNCHANGED <<number, restarted>>
  BY <1>0, <1>1, <1>2, RecvIs
<1>4. Typed'
  BY <1>0, <1>1, <1>3 DEF Typed
<1>5. JackKnown'
  BY <1>1 DEF Sound, JackKnown
<1>6. Numbered'
  BY <1>1, <1>2, <1>3 DEF Sound, Numbered
<1> QED
  BY <1>4, <1>5, <1>6 DEF Sound

LEMMA ResetSound ==
  ASSUME Sound, MasterReset \/ BoardReset
  PROVE  Sound'
<1>0. Typed /\ count \in Counts /\ JackKnown /\ Numbered
  BY DEF Sound, Typed
<1>1. /\ count.faults < MaxFaults
      /\ count' = [count EXCEPT !.faults = @ + 1]
  BY DEF MasterReset, BoardReset
<1>2. count' \in Counts /\ count'.commands = count.commands
  <2>1. count.faults + 1 \in 0 .. MaxFaults
    BY <1>0, <1>1, Numbers DEF Counts
  <2> QED
    BY <1>0, <1>1, <2>1 DEF Counts
<1>3. CASE MasterReset
  <2>1. /\ master' = [framecnt |-> 0, command |-> NoCommand]
        /\ restarted' = TRUE
        /\ UNCHANGED <<moudle, mot, position, uploadcnt, risecmd, number, pc,
                       writes, jack, taken, raced, ended>>
    BY <1>3 DEF MasterReset
  <2>2. master' \in Masters /\ master'.framecnt = 0
    BY <2>1, Numbers DEF Masters
  <2>3. Typed'
    BY <1>0, <1>2, <2>1, <2>2 DEF Typed
  <2>4. JackKnown'
    BY <1>0, <2>1 DEF JackKnown
  <2>5. Numbered'
    BY <1>0, <1>2, <2>1, <2>2 DEF Numbered, Counts
  <2> QED
    BY <2>3, <2>4, <2>5 DEF Sound
<1>4. CASE BoardReset
  <2>1. /\ moudle' = Moudle0 /\ mot' = Mot0 /\ position' = Position0
        /\ uploadcnt' = 0 /\ risecmd' = Risecmd0 /\ number' = Unnumbered
        /\ pc' = "error" /\ writes' = {}
        /\ taken' = NoCommand /\ raced' = FALSE /\ ended' = "no"
        /\ restarted' = FALSE
        /\ UNCHANGED <<jack, master>>
    BY <1>4 DEF BoardReset
  <2>2. moudle' \in Modules
    BY <2>1 DEF Modules, Moudle0, Module, Type, Status, Legs
  <2>3. mot' \in Motors /\ ~mot'[3].run
    BY <2>1 DEF Motors, Mot0
  <2>4. position' \in Positions /\ ~position'.find /\ position'.status = "INIT"
    BY <2>1, Numbers DEF Positions, Position0
  <2>5. risecmd' \in Risecmds /\ ~risecmd'.value
    BY <2>1 DEF Risecmds, Risecmd0, NoCommand
  <2>6. uploadcnt' \in 0 .. Period /\ raced' \in BOOLEAN /\ restarted' \in BOOLEAN
    <3>1. uploadcnt' \in 0 .. Period
      BY <2>1, Numbers
    <3>2. raced' \in BOOLEAN /\ restarted' \in BOOLEAN
      BY <2>1
    <3> QED
      BY <3>1, <3>2
  <2>7. Typed'
    BY <1>0, <1>2, <2>1, <2>2, <2>3, <2>4, <2>5, <2>6 DEF Typed
  <2>8. JackKnown'
    BY <2>3, <2>4 DEF JackKnown
  <2>9. Numbered'
    BY <1>0, <1>2, <2>1 DEF Numbered
  <2> QED
    BY <2>7, <2>8, <2>9 DEF Sound
<1> QED
  BY <1>3, <1>4

LEMMA StutterSound ==
  ASSUME Sound, UNCHANGED vars
  PROVE  Sound'
<1>1. Typed'
  BY DEF Sound, Typed, vars
<1>2. JackKnown' /\ Numbered'
  BY DEF Sound, JackKnown, Numbered, vars
<1> QED
  BY <1>1, <1>2 DEF Sound

LEMMA NextSound ==
  ASSUME Sound, [Next]_vars
  PROVE  Sound'
BY ErrorSound, StatusSound, FindSound, ConveySound, ConveyWriteSound, SendSound,
   ResendSound, ResetSound, StutterSound DEF Next, MainLoop

LEMMA AlwaysSound == Spec => []Sound
<1>1. Init => Sound
  BY InitSound
<1>2. Sound /\ [Next]_vars => Sound'
  BY NextSound
<1> QED
  BY <1>1, <1>2, PTL DEF Spec

(* Every variable has its type.                                            *)
THEOREM TypeCorrect == Spec => []TypeOK
<1>1. Sound => TypeOK
  BY TypedIsTypeOK DEF Sound
<1> QED
  BY <1>1, AlwaysSound, PTL

(* The jack is where g_position_status says whenever it is not moved, and  *)
(* is not moved without the clock running that gives its search up.        *)
THEOREM JackCorrect == Spec => []JackKnown
<1>1. Sound => JackKnown
  BY DEF Sound
<1> QED
  BY <1>1, AlwaysSound, PTL

(* The number of the master's next command is new to the board, unless the *)
(* master has been restarted since the board took one.                     *)
THEOREM NumbersNew == Spec => []NextNumberIsNew
<1>1. Sound => NextNumberIsNew
  <2> SUFFICES ASSUME Sound PROVE NextNumberIsNew
    OBVIOUS
  <2>1. /\ master.framecnt \in 0 .. MaxCommands
        /\ number \in 0 .. MaxCommands \cup {Unnumbered}
        /\ restarted \/ number = Unnumbered \/ number <= master.framecnt
    BY DEF Sound, Typed, Masters, Numbered
  <2>2. number # master.framecnt + 1 \/ restarted
    BY <2>1, Numbers
  <2> QED
    BY <2>2 DEF NextNumberIsNew, IsNew, NextNumber
<1> QED
  BY <1>1, AlwaysSound, PTL
-----------------------------------------------------------------------------
(* What the modules have to do with the command last taken.                *)

FirstModule == Of(LegIn[taken.dir[1]])
LastModule  == Of(LegOut[taken.dir[2]])

(* Its last leg runs until a sensor or an alarm stops it.                  *)
LegRuns ==
  /\ moudle[LastModule].dir = LegOut[taken.dir[2]]
  /\ moudle[LastModule].status = "RUN" <=> ended = "no"
  /\ ended = "sensor" => Straight(taken.dir) /\ taken.type = "TRIGSTOP"
  /\ moudle[LastModule].status = "RUN" /\ moudle[LastModule].type = "TRIGSTOP"
       => Straight(taken.dir) /\ taken.type = "TRIGSTOP"

(* It has been dealt with.                                                 *)
Done ==
  /\ taken.cmd = "STOP" => \A m \in Module : moudle[m].status = "STOP"
  /\ taken.cmd = "RUN" => LegRuns

(* It is the one that is stored; only the type of a turn is overwritten.   *)
Stored ==
  /\ risecmd.command.cmd = taken.cmd
  /\ taken.cmd = "RUN" =>
       /\ risecmd.command.dir = taken.dir
       /\ \/ risecmd.command.type = taken.type
          \/ risecmd.command.type = "TYPEDEFAULT" /\ ~Straight(taken.dir)

(* The first leg of a turn has been started.                               *)
FirstStarted ==
  /\ risecmd.value /\ "value" \notin writes
  /\ taken.cmd = "RUN" /\ ~Straight(taken.dir)
  /\ risecmd.command.type = "TYPEDEFAULT" \/ "type" \in writes

(* What the main loop is going to write, ...                               *)
Writing ==
  /\ pc = "write" <=> writes # {}
  /\ writes \in {{}, {"value"}, {"type"}}
  /\ taken.cmd = "none" => ~risecmd.value

(* ... and how far it has come with the last command, if it did not come   *)
(* between a reading and a writing.                                        *)
Progress ==
  /\ risecmd.value => Stored
  /\ taken.cmd # "none" /\ (~risecmd.value \/ "value" \in writes) => Done
  /\ pc = "write" => risecmd.value
  /\ "type" \in writes => taken.cmd = "RUN" /\ ~Straight(taken.dir)
  /\ FirstStarted /\ ended = "no" => moudle[FirstModule].status = "RUN"

Current == Writing /\ (~raced => Progress)

(* Nothing of it changes.                                                  *)
LEMMA SameCurrent ==
  ASSUME Current, UNCHANGED <<moudle, ended, taken, raced, risecmd, writes>>,
         pc = "write" <=> pc' = "write"
  PROVE  Current'
<1>1. Writing'
  BY DEF Current, Writing
<1>2. Progress => Progress'
  BY DEF Progress, Stored, Done, LegRuns, FirstStarted, FirstModule, LastModule
<1> QED
  BY <1>1, <1>2 DEF Current

(* Modules are stopped, and what has ended the leg under way is noted.     *)
LEMMA StopCurrent ==
  ASSUME Sound, Current, NEW ms, NEW why \in {"sensor", "alarm"},
         writes = {}, pc' # "write",
         \A m \in Module :
           /\ moudle'[m].dir = moudle[m].dir
           /\ moudle'[m].status = IF m \in ms THEN "STOP" ELSE moudle[m].status
           /\ moudle'[m].type \in {moudle[m].type, "CONTINUE"},
         why = "sensor" => \A m \in ms : moudle[m].type = "TRIGSTOP",
         ended' = EndedBy(ms, why),
         UNCHANGED <<taken, raced, risecmd, writes>>
  PROVE  Current'
<1>0. /\ FirstModule \in Module /\ LastModule \in Module
      /\ moudle \in Modules /\ ended \in {"no", "sensor", "alarm"}
      /\ risecmd.value \in BOOLEAN /\ taken.cmd \in {"RUN", "STOP", "none"}
  BY OfType, CommandTypes DEF FirstModule, LastModule, Sound, Typed
<1>1. Writing'
  BY DEF Current, Writing
<1>2. ASSUME Progress PROVE Progress'
  <2>1. (risecmd.value => Stored)'
    BY <1>2 DEF Progress, Stored
  <2>2. /\ FirstModule' = FirstModule /\ LastModule' = LastModule
        /\ FirstStarted' = FirstStarted
    BY DEF FirstModule, LastModule, FirstStarted
  <2>3. ASSUME taken.cmd # "none", ~risecmd.value PROVE Done'
    <3>1. Done
      BY <1>2, <2>3 DEF Progress
    <3>2. CASE taken.cmd = "STOP"
      BY <3>1, <3>2 DEF Done
    <3>3. CASE taken.cmd = "RUN"
      <4>1. LegRuns
        BY <3>1, <3>3 DEF Done
      <4>2. LegModule = LastModule
        BY <2>3, <3>3 DEF LegModule, LastModule
      <4>3. ended' = IF LastModule \in ms /\ moudle[LastModule].status = "RUN"
                     THEN why ELSE ended
        BY <4>2 DEF EndedBy
      <4> DEFINE L == LastModule
      <4>4. /\ moudle'[L].dir = moudle[L].dir
            /\ moudle'[L].status = IF L \in ms THEN "STOP" ELSE moudle[L].status
            /\ moudle'[L].type \in {moudle[L].type, "CONTINUE"}
            /\ moudle[L].status \in {"RUN", "STOP"}
            /\ why = "sensor" /\ L \in ms => moudle[L].type = "TRIGSTOP"
        BY <1>0 DEF Modules, Status
      <4>5. LegRuns'
        BY <1>0, <2>2, <4>1, <4>3, <4>4 DEF LegRuns
      <4> QED
        BY <3>3, <4>5 DEF Done
    <3> QED
      BY <1>0, <2>3, <3>2, <3>3
  <2>4. (FirstStarted /\ ended = "no" => moudle[FirstModule].status = "RUN")'
    <3> SUFFICES ASSUME FirstStarted, ended' = "no"
                 PROVE  moudle'[FirstModule].status = "RUN"
      BY <2>2
    <3>1. LegModule = FirstModule
      BY DEF FirstStarted, LegModule, FirstModule
    <3>2. /\ ended = "no"
          /\ ~(FirstModule \in ms /\ moudle[FirstModule].status = "RUN")
      BY <3>1 DEF EndedBy
    <3>3. moudle[FirstModule].status = "RUN"
      BY <1>2, <3>2 DEF Progress
    <3> QED
      BY <1>0, <3>2, <3>3
  <2> QED
    BY <2>1, <2>3, <2>4 DEF Progress
<1> QED
  BY <1>1, <1>2 DEF Current

LEMMA InitCurrent == Init => Current
BY DEF Init, Current, Writing, Progress, FirstStarted, NoCommand, Risecmd0

LEMMA ErrorCurrent ==
  ASSUME Sound, Current, NEW alarm \in Alarm, MOT_Error_Detection_Process(alarm)
  PROVE  Current'
<1>1. /\ pc = "error" /\ pc' = "status"
      /\ moudle' = Stopped(Failing(alarm))
      /\ ended' = EndedBy(Failing(alarm), "alarm")
      /\ UNCHANGED <<risecmd, writes, taken, raced>>
  BY DEF MOT_Error_Detection_Process
<1>2. writes = {}
  BY <1>1 DEF Current, Writing
<1>3. moudle \in Modules
  BY DEF Sound, Typed
<1>4. \A m \in Module :
        /\ moudle'[m].dir = moudle[m].dir
        /\ moudle'[m].status =
             IF m \in Failing(alarm) THEN "STOP" ELSE moudle[m].status
        /\ moudle'[m].type \in {moudle[m].type, "CONTINUE"}
  BY <1>1, <1>3, StoppedIs
<1> QED
  BY <1>1, <1>2, <1>4, StopCurrent

LEMMA StatusCurrent ==
  ASSUME Sound, Current, NEW covered, moto_upload_moudle_status(covered)
  PROVE  Current'
<1> DEFINE here == Triggered(covered)
<1>1. /\ pc = "status" /\ pc' = "find"
      /\ moudle' = [m \in Module |-> IF m \in here
                      THEN [Stopped(here)[m] EXCEPT !.type = "CONTINUE"]
                      ELSE moudle[m]]
      /\ ended' = EndedBy(here, "sensor")
      /\ UNCHANGED <<risecmd, writes, taken, raced>>
  BY DEF moto_upload_moudle_status
<1>2. writes = {}
  BY <1>1 DEF Current, Writing
<1>3. moudle \in Modules
  BY DEF Sound, Typed
<1>4. \A m \in here : moudle[m].type = "TRIGSTOP"
  BY DEF Triggered
<1> HIDE DEF here
<1>5. \A m \in Module :
        /\ moudle'[m].dir = moudle[m].dir
        /\ moudle'[m].status = IF m \in here THEN "STOP" ELSE moudle[m].status
        /\ moudle'[m].type \in {moudle[m].type, "CONTINUE"}
  <2> TAKE m \in Module
  <2>1. CASE m \in here
    <3>1. Stopped(here) \in Modules /\ Stopped(here)[m].dir = moudle[m].dir
          /\ Stopped(here)[m].status = "STOP"
      BY <1>3, <2>1, StoppedIs
    <3>2. moudle'[m] = [Stopped(here)[m] EXCEPT !.type = "CONTINUE"]
      BY <1>1, <2>1
    <3> QED
      BY <2>1, <3>1, <3>2 DEF Modules
  <2>2. CASE m \notin here
    BY <1>1, <2>2
  <2> QED
    BY <2>1, <2>2
<1> QED
  BY <1>1, <1>2, <1>4, <1>5, StopCurrent

LEMMA FindCurrent ==
  ASSUME Current, Init_Find_Position_Process
  PROVE  Current'
BY SameCurrent DEF Init_Find_Position_Process

(* A stored command is the last one, with a direction.                     *)
LEMMA StoredIs ==
  ASSUME Sound, Progress, risecmd.value
  PROVE  /\ risecmd.command.cmd = taken.cmd
         /\ taken.cmd = "RUN" =>
              /\ risecmd.command.dir = taken.dir
              /\ taken.dir \in Dirs /\ taken.type \in {"CONTINUE", "TRIGSTOP"}
              /\ risecmd.command.type \in Type
              /\ \/ risecmd.command.type = taken.type
                 \/ risecmd.command.type = "TYPEDEFAULT" /\ ~Straight(taken.dir)
              /\ LegOut[taken.dir[2]] \in Legs /\ LegIn[taken.dir[1]] \in Legs
              /\ FirstModule \in Module /\ LastModule \in Module
         /\ taken.cmd \in {"RUN", "STOP"}
<1>1. Typed
  BY DEF Sound
<1>2. Stored
  BY DEF Progress
<1>3. risecmd.command.cmd # "none"
  BY <1>1 DEF Typed
<1> QED
  BY <1>1, <1>2, <1>3, CommandTypes, LegTypes, OfType DEF Stored, FirstModule,
     LastModule

LEMMA ConveyCurrent ==
  ASSUME Sound, Current, moto_ctrl_convey_process
  PROVE  Current'
<1>0. moudle \in Modules
  BY DEF Sound, Typed
<1>1. pc = "convey" /\ UNCHANGED <<risecmd, taken, raced>>
  BY DEF moto_ctrl_convey_process
<1>2. writes = {}
  BY <1>1 DEF Current, Writing
<1>3. /\ FirstModule' = FirstModule /\ LastModule' = LastModule
      /\ Stored' = Stored
  BY <1>1 DEF FirstModule, LastModule, Stored
<1>4. CASE UNCHANGED <<moudle, ended>> /\ pc' = "error" /\ writes' = {}
  BY <1>1, <1>2, <1>4, SameCurrent
<1>5. ASSUME risecmd.value, pc' = "write", writes' = {"value"},
             Progress => Done'
      PROVE  Current'
  <2>1. Writing'
    BY <1>1, <1>5 DEF Current, Writing
  <2>2. ASSUME Progress PROVE Progress'
    <3>1. Stored'
      BY <1>3, <1>5, <2>2 DEF Progress
    <3>2. ~FirstStarted'
      BY <1>5 DEF FirstStarted
    <3>3. "type" \notin writes' /\ risecmd'.value
      BY <1>1, <1>5
    <3> QED
      BY <1>5, <2>2, <3>1, <3>2, <3>3 DEF Progress
  <2> QED
    BY <1>1, <2>1, <2>2 DEF Current
<1>6. CASE StopBoth
  <2>1. /\ risecmd.value /\ risecmd.command.cmd = "STOP"
        /\ pc' = "write" /\ writes' = {"value"}
        /\ \A m \in Module : moudle'[m].status = "STOP"
    BY <1>6 DEF StopBoth
  <2>2. Progress => Done'
    BY <1>1, <2>1, StoredIs DEF Done
  <2> QED
    BY <1>5, <2>1, <2>2
<1>7. CASE RunStraight
  <2> DEFINE c == risecmd.command
             leg == LegOut[c.dir[2]]
  <2>1. risecmd.value /\ c.cmd = "RUN" /\ Straight(c.dir)
    BY <1>7 DEF RunStraight
  <2>2. CASE c.type = "TYPEDEFAULT"
    BY <1>4, <1>7, <2>2 DEF RunStraight
  <2>3. CASE c.type # "TYPEDEFAULT"
    <3>1. /\ moto_set_run_cmd(Of(leg), "RUN", c.type, leg) /\ ended' = "no"
          /\ pc' = "write" /\ writes' = {"value"}
      BY <1>7, <2>3 DEF RunStraight
    <3>2. ASSUME Progress PROVE Done'
      <4>1. /\ taken.cmd = "RUN" /\ c.dir = taken.dir /\ c.type = taken.type
            /\ leg = LegOut[taken.dir[2]] /\ Of(leg) = LastModule
        BY <2>1, <2>3, <3>2, StoredIs DEF LastModule
      <4>2. c.type \in Type /\ leg \in Legs /\ LastModule \in Module
        BY <2>1, <3>2, <4>1, StoredIs
      <4> HIDE DEF leg, c
      <4>3. moudle'[LastModule] = [type |-> c.type, status |-> "RUN", dir |-> leg]
        BY <1>0, <3>1, <4>1, <4>2, SetIs DEF Status
      <4>4. LegRuns'
        BY <1>1, <1>3, <2>1, <3>1, <4>1, <4>3 DEF LegRuns
      <4> QED
        BY <1>1, <4>1, <4>4 DEF Done
    <3> QED
      BY <1>5, <2>1, <3>1, <3>2
  <2> QED
    BY <2>2, <2>3
<1>8. CASE FirstLeg
  <2> DEFINE leg == LegIn[risecmd.command.dir[1]]
  <2>1. /\ risecmd.value /\ risecmd.command.cmd = "RUN"
        /\ ~Straight(risecmd.command.dir) /\ risecmd.command.type = "CONTINUE"
        /\ moto_set_run_cmd(Of(leg), "RUN", "TRIGSTOP", leg) /\ ended' = "no"
        /\ pc' = "write" /\ writes' = {"type"}
    BY <1>8 DEF FirstLeg, Turning
  <2>2. Writing'
    BY <1>1, <2>1 DEF Current, Writing
  <2>3. ASSUME Progress PROVE Progress'
    <3>1. /\ taken.cmd = "RUN" /\ ~Straight(taken.dir)
          /\ leg = LegIn[taken.dir[1]] /\ leg \in Legs
          /\ Of(leg) = FirstModule /\ FirstModule \in Module
      BY <2>1, <2>3, StoredIs DEF FirstModule
    <3> HIDE DEF leg
    <3>2. moudle'[FirstModule] =
            [type |-> "TRIGSTOP", status |-> "RUN", dir |-> leg]
      BY <1>0, <2>1, <3>1, SetIs DEF Type, Status
    <3>3. Stored'
      BY <1>3, <2>1, <2>3 DEF Progress
    <3>4. (taken.cmd # "none" /\ (~risecmd.value \/ "value" \in writes) => Done)'
      BY <1>1, <2>1
    <3> QED
      BY <1>1, <1>3, <2>1, <3>1, <3>2, <3>3, <3>4 DEF Progress
  <2> QED
    BY <1>1, <2>2, <2>3 DEF Current
<1>9. CASE SecondLeg
  <2> DEFINE leg == LegOut[risecmd.command.dir[2]]
  <2>1. /\ risecmd.value /\ risecmd.command.cmd = "RUN"
        /\ moto_set_run_cmd(Of(leg), "RUN", "CONTINUE", leg) /\ ended' = "no"
        /\ pc' = "write" /\ writes' = {"value"}
    BY <1>9 DEF SecondLeg, Turning
  <2>2. ASSUME Progress PROVE Done'
    <3>1. /\ taken.cmd = "RUN"
          /\ leg = LegOut[taken.dir[2]] /\ leg \in Legs
          /\ Of(leg) = LastModule /\ LastModule \in Module
      BY <2>1, <2>2, StoredIs DEF LastModule
    <3> HIDE DEF leg
    <3>2. moudle'[LastModule] =
            [type |-> "CONTINUE", status |-> "RUN", dir |-> leg]
      BY <1>0, <2>1, <3>1, SetIs DEF Type, Status
    <3>3. LegRuns'
      BY <1>1, <1>3, <2>1, <3>1, <3>2 DEF LegRuns
    <3> QED
      BY <1>1, <3>1, <3>3 DEF Done
  <2> QED
    BY <1>5, <2>1, <2>2
<1> QED
  BY <1>4, <1>6, <1>7, <1>8, <1>9 DEF moto_ctrl_convey_process, Idle, Underway

LEMMA WriteCurrent ==
  ASSUME Sound, Current, ConveyWrite
  PROVE  Current'
<1>1. /\ pc = "write" /\ pc' = "error" /\ writes' = {}
      /\ risecmd' = IF "value" \in writes THEN [risecmd EXCEPT !.value = FALSE]
                    ELSE IF risecmd.command.cmd = "RUN"
                    THEN [risecmd EXCEPT !.command.type = "TYPEDEFAULT"]
                    ELSE risecmd
      /\ UNCHANGED <<moudle, taken, raced, ended>>
  BY DEF ConveyWrite
<1>2. risecmd \in Risecmds
  BY DEF Sound, Typed
<1>3. /\ FirstModule' = FirstModule /\ LastModule' = LastModule /\ Done' = Done
  BY <1>1 DEF FirstModule, LastModule, Done, LegRuns
<1>4. /\ writes \in {{"value"}, {"type"}}
      /\ taken.cmd = "none" => ~risecmd.value
  BY <1>1 DEF Current, Writing
<1>5. CASE writes = {"value"}
  <2>1. ~risecmd'.value
    BY <1>1, <1>2, <1>5 DEF Risecmds
  <2>2. Writing'
    BY <1>1, <2>1 DEF Writing
  <2>3. Progress => Progress'
    BY <1>1, <1>3, <1>5, <2>1 DEF Progress, FirstStarted
  <2> QED
    BY <1>1, <2>2, <2>3 DEF Current
<1>6. CASE writes = {"type"}
  <2>1. /\ risecmd'.value = risecmd.value
        /\ risecmd'.command.cmd = risecmd.command.cmd
        /\ risecmd'.command.cmd = "RUN" =>
             /\ risecmd'.command.dir = risecmd.command.dir
             /\ risecmd'.command.type = "TYPEDEFAULT"
    <3>1. CASE risecmd.command.cmd = "RUN"
      <4>1. risecmd' = [risecmd EXCEPT !.command.type = "TYPEDEFAULT"]
        BY <1>1, <1>6, <3>1
      <4>2. risecmd.command \in [cmd : {"RUN"}, dir : Dirs, type : Type]
        BY <1>2, <3>1 DEF Risecmds
      <4> QED
        BY <1>2, <4>1, <4>2 DEF Risecmds
    <3>2. CASE risecmd.command.cmd # "RUN"
      BY <1>1, <1>6, <3>2
    <3> QED
      BY <3>1, <3>2
  <2>2. Writing'
    BY <1>1, <1>4, <2>1 DEF Writing
  <2>3. ASSUME Progress PROVE Progress'
    <3>1. /\ risecmd.value /\ taken.cmd = "RUN" /\ ~Straight(taken.dir)
          /\ Stored
      BY <1>1, <1>6, <2>3 DEF Progress
    <3>2. risecmd'.value /\ Stored'
      <4>1. risecmd'.value
        BY <2>1, <3>1
      <4>2. ~Straight(taken'.dir)
        BY <1>1, <3>1
      <4>3. Stored'
        BY <1>1, <2>1, <3>1, <4>2 DEF Stored
      <4> QED
        BY <4>1, <4>3
    <3>3. ended = "no" => moudle[FirstModule].status = "RUN"
      BY <1>6, <2>3, <3>1 DEF Progress, FirstStarted
    <3> QED
      BY <1>1, <1>3, <3>1, <3>2, <3>3 DEF Progress
  <2> QED
    BY <1>1, <2>2, <2>3 DEF Current
<1> QED
  BY <1>4, <1>5, <1>6

LEMMA RecvCurrent ==
  ASSUME Sound, Current, NEW n, NEW c \in Command, NEW arrives \in BOOLEAN,
         canbus_recv_start_cmd(n, c, arrives),
         UNCHANGED <<moudle, pc, writes>>
  PROVE  Current'
<1>1. CASE arrives /\ IsNew(n)
  <2>1. /\ risecmd' = [value |-> TRUE, command |-> c]
        /\ taken' = c /\ ended' = "no"
    BY <1>1 DEF canbus_recv_start_cmd
  <2>2. raced' = (pc = "write")
    BY <1>1 DEF canbus_recv_start_cmd
  <2>3. /\ c.cmd # "none"
        /\ c.cmd = "RUN" => c.type \in {"CONTINUE", "TRIGSTOP"}
    BY DEF Command
  <2>4. Writing'
    BY <2>1, <2>3 DEF Current, Writing
  <2>5. ASSUME pc # "write" PROVE Progress'
    <3>1. pc' # "write" /\ writes' = {}
      BY <2>5 DEF Current, Writing
    <3>2. risecmd'.value /\ Stored' /\ ~FirstStarted'
      BY <2>1, <2>3, <3>1 DEF Stored, FirstStarted
    <3> QED
      BY <3>1, <3>2 DEF Progress
  <2>6. ~raced' => pc # "write"
    BY <2>2, Zenon
  <2> QED
    BY <2>4, <2>5, <2>6 DEF Current
<1>2. CASE ~(arrives /\ IsNew(n))
  <2>1. UNCHANGED <<risecmd, taken, raced, ended>>
    BY <1>2 DEF canbus_recv_start_cmd
  <2> QED
    BY <2>1, SameCurrent
<1> QED
  BY <1>1, <1>2

LEMMA ResendCurrent ==
  ASSUME Sound, Current, NEW arrives \in BOOLEAN, Resend(arrives)
  PROVE  Current'
<1>1. /\ master.command.cmd = "RUN"
      /\ canbus_recv_start_cmd(master.framecnt, master.command, arrives)
      /\ UNCHANGED <<moudle, pc, writes>>
  BY DEF Resend
<1>2. master.command \in Command
  BY <1>1 DEF Sound, Typed, Masters, NoCommand
<1> QED
  BY <1>1, <1>2, RecvCurrent

LEMMA ResetCurrent ==
  ASSUME Current, MasterReset \/ BoardReset
  PROVE  Current'
<1>1. CASE MasterReset
  BY <1>1, SameCurrent DEF MasterReset
<1>2. CASE BoardReset
  <2>1. /\ risecmd' = Risecmd0 /\ pc' = "error" /\ writes' = {}
        /\ taken' = NoCommand
    BY <1>2 DEF BoardReset
  <2> QED
    BY <2>1 DEF Current, Writing, Progress, FirstStarted, Risecmd0, NoCommand
<1> QED
  BY <1>1, <1>2

LEMMA NextCurrent ==
  ASSUME Sound, Current, [Next]_vars
  PROVE  Current'
<1>1. CASE MainLoop
  BY <1>1, ErrorCurrent, StatusCurrent, FindCurrent, ConveyCurrent, WriteCurrent
     DEF MainLoop
<1>2. CASE \E c \in Command, arrives \in BOOLEAN : SendCommand(c, arrives)
  BY <1>2, RecvCurrent DEF SendCommand
<1>3. CASE \E arrives \in BOOLEAN : Resend(arrives)
  BY <1>3, ResendCurrent
<1>4. CASE MasterReset \/ BoardReset
  BY <1>4, ResetCurrent
<1>5. CASE UNCHANGED vars
  BY <1>5, SameCurrent DEF vars
<1> QED
  BY <1>1, <1>2, <1>3, <1>4, <1>5 DEF Next

LEMMA AlwaysCurrent == Spec => [](Sound /\ Current)
<1>1. Init => Sound /\ Current
  BY InitSound, InitCurrent
<1>2. Sound /\ Current /\ [Next]_vars => (Sound /\ Current)'
  BY NextSound, NextCurrent
<1> QED
  BY <1>1, <1>2, PTL DEF Spec

(* Once a command has been dealt with the modules do what the last one     *)
(* taken says, unless it was stored between the reading and the writing of *)
(* the one before it.                                                      *)
THEOREM LastWins == Spec => []LastCommandWins
<1>1. Sound /\ Current => LastCommandWins
  <2> SUFFICES ASSUME Sound, Current, ~risecmd.value, taken.cmd # "none", ~raced
               PROVE  IF taken.cmd = "STOP"
                      THEN \A m \in Module : moudle[m].status = "STOP"
                      ELSE LegRuns
    BY DEF LastCommandWins, LegRuns, LastModule
  <2>1. Done
    BY DEF Current, Progress
  <2>2. taken.cmd \in {"RUN", "STOP"}
    BY CommandTypes DEF Sound
  <2> QED
    BY <2>1, <2>2 DEF Done
<1> QED
  BY <1>1, AlwaysCurrent, PTL

(* The second leg of a turn begins when a sensor or an alarm has ended the *)
(* first one, but for turns of type TRIGSTOP and commands that were stored *)
(* between the reading and the writing of another.                         *)
THEOREM ArrivalFirst == Spec => SecondLegAfterArrival
<1> DEFINE Over == pc = "convey" /\ SecondLeg
                     => \/ ended \in {"sensor", "alarm"}
                        \/ taken.type = "TRIGSTOP"
                        \/ raced
<1>1. Sound /\ Current => Over
  <2> SUFFICES ASSUME Sound, Current, pc = "convey", SecondLeg,
                      ended = "no", ~raced
               PROVE  taken.type = "TRIGSTOP"
    BY DEF Sound, Typed
  <2>1. Progress /\ writes = {}
    BY DEF Current, Writing
  <2>2. /\ risecmd.value /\ risecmd.command.cmd = "RUN"
        /\ ~Straight(risecmd.command.dir) /\ risecmd.command.type # "CONTINUE"
        /\ moudle[Of(LegIn[risecmd.command.dir[1]])].status = "STOP"
    BY DEF SecondLeg, Turning, FirstLegOver
  <2>3. /\ taken.cmd = "RUN" /\ risecmd.command.dir = taken.dir
        /\ taken.type \in {"CONTINUE", "TRIGSTOP"}
        /\ risecmd.command.type \in {taken.type, "TYPEDEFAULT"}
    BY <2>1, <2>2, StoredIs
  <2>4. moudle[FirstModule].status # "RUN"
    BY <2>2, <2>3 DEF FirstModule
  <2>5. ~FirstStarted
    BY <2>1, <2>4 DEF Progress
  <2>6. risecmd.command.type # "TYPEDEFAULT"
    BY <2>1, <2>2, <2>3, <2>5 DEF FirstStarted
  <2> QED
    BY <2>2, <2>3, <2>6
<1>2. [][Over]_vars => SecondLegAfterArrival
  BY DEF SecondLegAfterArrival
<1> HIDE DEF Over
<1>3. Sound /\ Current /\ [Next]_vars => [Over]_vars
  BY <1>1
<1> QED
  BY <1>2, <1>3, AlwaysCurrent, PTL DEF Spec
=============================================================================
