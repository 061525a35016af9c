------------------------------ MODULE BoardPara -----------------------------
(***************************************************************************)
(* The speed and ramp of a board's rollers: the server's settings reach    *)
(* the board through CanSegment, the CAN interrupt puts them in mototemp   *)
(* and answers, and the main loop stores them in flash and takes them over *)
(* (flash.c of drivetwo and drivethree).  The interrupt may come between   *)
(* any two steps of the storing, and so may a reset.                       *)
(*                                                                         *)
(* A set of parameters is a sequence with one record per module.  Its      *)
(* length field tells a receiver how many there are.  Function and         *)
(* direction are left out: nothing reads the first and every start command *)
(* replaces the second.                                                    *)
(***************************************************************************)
EXTENDS CanSegment

CONSTANTS
  Setting,     \* the sets of parameters the server sends
  StartCmd,    \* a message of a single frame
  Blank,       \* what an erased halfword reads as (0xFFFF)
  MaxFaults    \* bound on lost frames, resets and failed erasures

MAX_MOUDLE_NUM == 2
Mot   == 1 .. 2
Level == 0 .. 7                   \* the speeds and ramps there are
Boards == {"two", "three"}

(* canbus_send_user_moudlepara sends no set whose parameters are all 0.    *)
ASSUME ParaAssumption ==
  /\ MaxFaults \in Nat
  /\ Blank \in Nat \ Level
  /\ Message = Setting \cup {StartCmd} /\ StartCmd \notin Setting
  /\ \A s \in Setting :
       /\ s \in [1 .. 1 -> [spd : Level, ramp : Level]]
                  \cup [1 .. 2 -> [spd : Level, ramp : Level]]
       /\ \E i \in DOMAIN s : s[i].spd # 0 \/ s[i].ramp # 0
       /\ Bytes[s] = 7 + 10 * Len(s)
  /\ PackLen = 8 /\ Bytes[StartCmd] = 6

VARIABLES
  board,       \* which of the two firmwares this is
  mototemp,    \* what the interrupt has received: moudlenum and moudlepara
  flag,        \* flash_upload_flag
  pc, i,       \* where the main loop is in flash_upload_write_buff
  buff,        \* the halfwords it has collected
  page,        \* the halfwords at UserParaAddress
  motolocal,   \* moudlepara as the last flash_init read it
  force,       \* mot1_info and mot2_info: set_speed_sel and set_ramp_sel
  last,        \* the set handled last, <<>> before the first
  spoiled,     \* what was handled last was overtaken in mid-storing
  faults

paravars == <<board, mototemp, flag, pc, i, buff, page, motolocal, force,
              last, spoiled, faults>>
vars == <<segvars, paravars>>

Words == 1 + 3 * MAX_MOUDLE_NUM   \* a number, then index, speed, ramp each
NoPara == [idx |-> 0, spd |-> 0, ramp |-> 0]

(* Set_Mot_Roll_Paras of either board.                                     *)
Limited(p) ==
  IF board = "two"
  THEN [spd  |-> IF p.spd = 0 \/ p.spd > 7 THEN 7 ELSE p.spd,
        ramp |-> IF p.ramp = 0 \/ p.ramp > 7 THEN 7 ELSE p.ramp]
  ELSE [spd  |-> IF p.spd = 0 \/ p.spd >= 7 \/ p.ramp >= 7 THEN 7 ELSE p.spd,
        ramp |-> p.ramp]

Default == [spd |-> IF board = "two" THEN 5 ELSE 7, ramp |-> 2]

(* Mutant: an erased word is taken for a value.                            *)
KeptErased(word, old) == IF word = 0 THEN old ELSE word

(* flash_init: a 0 and an erased word leave the old value alone.           *)
Kept(word, old) == IF word \in {0, Blank} THEN old ELSE word

InitLocal(pg, old) ==
  [m \in Mot |->
     IF pg[1] \in {0, Blank} \/ m > pg[1] THEN old[m]
     ELSE [idx  |-> Kept(pg[3 * m - 1], old[m].idx),
           spd  |-> Kept(pg[3 * m], old[m].spd),
           ramp |-> Kept(pg[3 * m + 1], old[m].ramp)]]

(* flash_init: on drivetwo module m sets roller m, on drivethree the first *)
(* rise module sets both; without a number there are defaults.             *)
InitForce(pg, local, old) ==
  IF pg[1] \in {0, Blank} THEN [m \in Mot |-> Limited(Default)]
  ELSE IF board = "two"
  THEN [m \in Mot |-> IF m <= pg[1] /\ local[m].idx # 0
                      THEN Limited(local[m]) ELSE old[m]]
  ELSE IF \E m \in 1 .. pg[1] : local[m].idx # 0
  THEN LET f == CHOOSE m \in 1 .. pg[1] :
                  /\ local[m].idx # 0
                  /\ \A n \in 1 .. m - 1 : local[n].idx = 0
       IN [m \in Mot |-> Limited(local[f])]
  ELSE old

NoForce == [m \in Mot |-> [spd |-> 0, ramp |-> 0]]
AllOld  == [m \in Mot |-> NoPara]
Erased  == [w \in 1 .. Words |-> Blank]

Init ==
  /\ SegInit
  /\ board \in Boards
  /\ mototemp = [num |-> Blank, para |-> AllOld]
  /\ flag = FALSE
  /\ pc = "idle" /\ i = 0 /\ buff = <<>>
  /\ page = Erased
  /\ motolocal = AllOld
  /\ force = InitForce(Erased, AllOld, NoForce)
  /\ last = <<>> /\ spoiled = FALSE
  /\ faults = 0
-----------------------------------------------------------------------------
(* The CAN interrupt.                                                      *)

(* The message that part k of what was handled comes from: frame 0 holds   *)
(* the number, 1 the first module, 2 and 3 the second.                     *)
From(k) == handled'[k + 1][1]

Received ==
  LET head == From(0) IN
  [m \in 1 .. Len(head) |->
     [spd  |-> From(m)[m].spd, ramp |-> From(IF m = 1 THEN 1 ELSE 3)[m].ramp]]

(* para_data_recv_process: the length the message states.                  *)
IsPara ==
  /\ From(0) \in Setting
  /\ Bytes[From(0)] = g_SegBytes + DataLen(Msg, next)

(* can_recv_set_para.                                                      *)
can_recv_set_para ==
  LET s == Received IN
  /\ mototemp' = [num  |-> Len(s),
                  para |-> [m \in Mot |->
                     IF m <= Len(s)
                     THEN [idx |-> 1, spd |-> s[m].spd, ramp |-> s[m].ramp]
                     ELSE mototemp.para[m]]]
  /\ flag' = (flag \/ \E m \in DOMAIN s : s[m].spd # 0 \/ s[m].ramp # 0)
  /\ last' = s
  /\ spoiled' = (pc \notin {"idle", "take"})

Frame ==
  /\ Receive
  /\ IF Completes /\ IsPara
     THEN can_recv_set_para
     ELSE UNCHANGED <<mototemp, flag, last, spoiled>>
  /\ UNCHANGED <<board, pc, i, buff, page, motolocal, force, faults>>

FrameLost ==
  /\ faults < MaxFaults
  /\ Lose
  /\ faults' = faults + 1
  /\ UNCHANGED <<board, mototemp, flag, pc, i, buff, page, motolocal, force,
                 last, spoiled>>

(* A start command runs Set_Mot_Roll_Paras on the values in force, on      *)
(* drivetwo from the interrupt, on drivethree from the main loop.          *)
StartRuns ==
  /\ board = "two" \/ pc = "idle"
  /\ force' = [m \in Mot |-> Limited(force[m])]
  /\ UNCHANGED <<segvars, board, mototemp, flag, pc, i, buff, page, motolocal,
                 last, spoiled, faults>>
-----------------------------------------------------------------------------
(* The main loop: flash_upload_write_buff, once a millisecond.             *)

ClearFlag ==
  /\ pc = "idle" /\ pc' = "take"
  /\ flag
  /\ flag' = FALSE
  /\ UNCHANGED <<segvars, board, mototemp, i, buff, page, motolocal, force,
                 last, spoiled, faults>>

Refused(num) == num > MAX_MOUDLE_NUM

TakeNum ==
  /\ pc = "take"
  /\ IF Refused(mototemp.num)
     THEN pc' = "idle" /\ UNCHANGED buff
     ELSE pc' = "copy" /\ buff' = <<mototemp.num>>
  /\ i' = 0
  /\ UNCHANGED <<segvars, board, mototemp, flag, page, motolocal, force,
                 last, spoiled, faults>>

(* One halfword of module i + 1; the loop reads the number every time.     *)
Field(p, n) == CASE n = 0 -> p.idx [] n = 1 -> p.spd [] n = 2 -> p.ramp

CopyWord ==
  /\ pc = "copy"
  /\ LET n == (Len(buff) - 1) % 3 IN
     IF n # 0 \/ i < mototemp.num
     THEN /\ buff' = Append(buff, Field(mototemp.para[i + 1], n))
          /\ i' = IF n = 2 THEN i + 1 ELSE i
          /\ UNCHANGED pc
     ELSE pc' = "erase" /\ UNCHANGED <<buff, i>>
  /\ UNCHANGED <<segvars, board, mototemp, flag, page, motolocal, force,
                 last, spoiled, faults>>

Erase ==
  /\ pc = "erase" /\ pc' = "program"
  /\ page' = Erased
  /\ i' = 0
  /\ UNCHANGED <<segvars, board, mototemp, flag, buff, motolocal, force,
                 last, spoiled, faults>>

EraseFails ==
  /\ pc = "erase" /\ pc' = "init"
  /\ faults < MaxFaults
  /\ faults' = faults + 1
  /\ spoiled' = TRUE
  /\ UNCHANGED <<segvars, board, mototemp, flag, i, buff, page, motolocal,
                 force, last>>

(* Mutants: the address does not advance; the last halfword is left out.   *)
WordAtStart(n) == 1
LengthShort    == Len(buff) - 1

(* flash_write_buff: drivethree programs the halfwords one after the       *)
(* other, drivetwo all of them at UserParaAddress, and a module's worth    *)
(* beyond what it has collected.                                           *)
WordAt(n) == IF board = "two" THEN 1 ELSE n + 1
Length    == IF board = "two" THEN Len(buff) + 3 ELSE Len(buff)
Halfword(n) == IF n < Len(buff) THEN {buff[n + 1]} ELSE {0, 1}

(* The flash takes a halfword where it is erased, and 0 anywhere.          *)
Programmed(w, v) ==
  [page EXCEPT ![w] = IF @ = Blank \/ v = 0 THEN v ELSE @]

ProgramWord ==
  /\ pc = "program"
  /\ IF i < Length
     THEN /\ \E v \in Halfword(i) : page' = Programmed(WordAt(i), v)
          /\ i' = i + 1
          /\ UNCHANGED pc
     ELSE pc' = "init" /\ UNCHANGED <<page, i>>
  /\ UNCHANGED <<segvars, board, mototemp, flag, buff, motolocal, force,
                 last, spoiled, faults>>

(* flash_init also withdraws the number in mototemp, and with it a set     *)
(* that arrived since TakeNum.                                             *)
TakeOver ==
  /\ pc = "init" /\ pc' = "idle"
  /\ motolocal' = InitLocal(page, motolocal)
  /\ force' = InitForce(page, motolocal', force)
  /\ mototemp' = [mototemp EXCEPT !.num = Blank]
  /\ i' = 0 /\ buff' = <<>>
  /\ UNCHANGED <<segvars, board, flag, page, last, spoiled, faults>>

Upload == \/ ClearFlag \/ TakeNum \/ CopyWord \/ Erase
          \/ ProgramWord \/ TakeOver

(* The board loses its variables and reads its flash again.                *)
Reset ==
  /\ faults < MaxFaults
  /\ faults' = faults + 1
  /\ BoardStarts
  /\ mototemp' = [num |-> Blank, para |-> AllOld]
  /\ flag' = FALSE
  /\ pc' = "idle" /\ i' = 0 /\ buff' = <<>>
  /\ motolocal' = InitLocal(page, AllOld)
  /\ force' = InitForce(page, motolocal', NoForce)
  /\ spoiled' = (spoiled \/ flag \/ pc # "idle")
  /\ UNCHANGED <<board, page, last>>

Send == \E m \in Message : SendMsg(m) /\ UNCHANGED paravars

Next == Send \/ Frame \/ FrameLost \/ StartRuns \/ Upload \/ EraseFails \/ Reset

Spec == Init /\ [][Next]_vars

(* The main loop goes on whatever the interrupt does; an erasure is tried  *)
(* again by no one.                                                        *)
FairSpec == Spec /\ WF_vars(Upload)
-----------------------------------------------------------------------------
Halfwords == Level \cup {Blank}
Sets == [1 .. 1 -> [spd : Level, ramp : Level]]
          \cup [1 .. 2 -> [spd : Level, ramp : Level]] \cup {<<>>}

(* The types of the board's state; the frames' state is CanSegment's.      *)
TypeOK ==
  /\ board \in Boards
  /\ mototemp.num \in 1 .. MAX_MOUDLE_NUM \cup {Blank}
  /\ mototemp.para \in [Mot -> [idx : 0 .. 1, spd : Level, ramp : Level]]
  /\ flag \in BOOLEAN /\ spoiled \in BOOLEAN
  /\ pc \in {"idle", "take", "copy", "erase", "program", "init"}
  /\ i \in 0 .. Words + 3
  /\ Len(buff) <= Words /\ \A w \in DOMAIN buff : buff[w] \in Level
  /\ page \in [1 .. Words -> Halfwords]
  /\ motolocal \in [Mot -> [idx : 0 .. 1, spd : Level, ramp : Level]]
  /\ force \in [Mot -> [spd : Level, ramp : Level]]
  /\ last \in Sets

(* A reset changes nothing in how a drivethree runs its rollers: what the  *)
(* last storing took over, by way of variables that keep older values, is  *)
(* what the flash alone yields.  A 0 in the flash is the exception: it     *)
(* leaves the older value in force until a reset forgets it.               *)
InForceIsStored ==
  (/\ board = "three" /\ pc = "idle"
   /\ \A w \in DOMAIN page : page[w] # 0)
  => \A m \in Mot :
       Limited(force[m]) =
       Limited(InitForce(page, InitLocal(page, AllOld), NoForce)[m])

StoredWords(s) ==
  /\ page[1] = Len(s)
  /\ \A m \in DOMAIN s : /\ page[3 * m] = s[m].spd
                         /\ page[3 * m + 1] = s[m].ramp

(* A set that a drivethree has answered is stored, all of it, and in force *)
(* in the end: unless the storing failed or the next set came while it was *)
(* being stored (that one the code loses although it has answered it too:  *)
(* flash_init withdraws its number).                                       *)
SetTakesEffect ==
  \A s \in Setting :
    (board = "three" /\ last = s) ~>
      \/ last # s \/ spoiled
      \/ StoredWords(s)
         /\ (s[1].spd # 0 /\ s[1].ramp # 0
             => \A m \in Mot : force[m] = Limited(s[1]))
=============================================================================
