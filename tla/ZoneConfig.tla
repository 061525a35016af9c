----------------------------- MODULE ZoneConfig -----------------------------
(***************************************************************************)
(* How the master gets the zone configuration: the server sends it in      *)
(* packets (fun.c, funrec_zoneConfig_cmd), a second after the last one it  *)
(* is written to two flash pages, read back and announced (flash.c), and   *)
(* it is read again at every start.  The server repeats a packet until it  *)
(* is answered and may turn to another configuration at any time; a reset  *)
(* may come between any two steps of the writing.                          *)
(*                                                                         *)
(* A zone node is <<c, k>>: the k-th zone of configuration c, with all its *)
(* neighbours.  Zone numbers start at 1, as in the floor plans of          *)
(* document/, so a node that was never written (0) is told apart.          *)
(***************************************************************************)
EXTENDS Integers, Sequences, FiniteSets

CONSTANTS
  Conf,        \* the configurations' identifiers
  Cut,         \* Cut[c][k]: zones in the first k packets of c
  Half,        \* BELT_ZONE_NUM / 2, the nodes in a page
  Blank,       \* what an erased halfword reads as (0xFFFF)
  MaxUploads,  \* bound on the uploads the server begins
  MaxFaults    \* bound on the resets and failed erasures

N == 2 * Half
Packets(c)  == Len(Cut[c])
Total(c)    == Cut[c][Packets(c)]
Sent(c, k)  == IF k = 0 THEN 0 ELSE Cut[c][k]

ASSUME ConfigAssumption ==
  /\ Half \in Nat /\ MaxUploads \in Nat /\ MaxFaults \in Nat
  /\ Conf \subseteq Nat \ {0}
  /\ Blank \in Nat /\ Blank > N /\ Blank \notin Conf
  /\ Cut \in [Conf -> Seq(Nat \ {0})]
  /\ \A c \in Conf :
       /\ Packets(c) > 0
       /\ \A j, k \in DOMAIN Cut[c] : j < k => Cut[c][j] < Cut[c][k]
       /\ Total(c) <= N

(* A configuration fits even when two of its packets are taken twice.      *)
ASSUME RoomAssumption ==
  \A c \in Conf : \A k \in DOMAIN Cut[c] \ {1} :
    Total(c) + 2 * (Cut[c][k] - Cut[c][k - 1]) <= N

Unused == <<0, 0>>           \* a node of zonetmp nothing was written to
Absent == <<Blank, Blank>>   \* a node of zoneConfig that does not exist
Node   == {<<c, k>> : c \in Conf, k \in 1 .. N}
Place  == 0 .. N - 1
Page   == {1, 2}

VARIABLES
  zonetmp,     \* the configuration being received
  waiting,     \* zonetmp.flashcnt # 0
  zoneConfig,  \* the one in force
  online,      \* funOnlineCtrl.confid, the one announced
  page,        \* the two flash pages
  pc, at,      \* what flash_write_zone_conf is doing, to which page
  server,      \* the configuration the server sends, and its next packet
  uploads,     \* uploads begun so far
  faults,      \* resets and failed erasures so far
  mistaken,    \* has a packet been taken for one of another configuration
  quiet        \* was the upload begun at a quiet moment, and no fault since

vars == <<zonetmp, waiting, zoneConfig, online, page, pc, at, server, uploads,
          faults, mistaken, quiet>>

Empty  == [confid |-> 0, pkgtotalnum |-> 0, pkgcurnum |-> 0, pkgcal |-> 0,
           zonetotalnum |-> 0, zoneNode |-> [i \in Place |-> Unused]]
Erased == [confid |-> Blank, num |-> Blank, total |-> Blank, node |-> <<>>]

(* data_msg_init                                                           *)
NoConfig == [confid |-> 0, zoneNode |-> [i \in Place |-> Absent]]

Init ==
  /\ zonetmp = Empty /\ waiting = FALSE
  /\ zoneConfig = NoConfig /\ online = 0
  /\ page = [p \in Page |-> Erased]
  /\ pc = "loop" /\ at = 1
  /\ server = [confid |-> 0, next |-> 1]
  /\ uploads = 0 /\ faults = 0 /\ mistaken = FALSE
  /\ quiet = FALSE

-----------------------------------------------------------------------------
(* Nothing is half done, the master does not announce c already, and no    *)
(* larger configuration left its nodes in zonetmp.                         *)
QuietFor(c) ==
  /\ pc = "loop" /\ ~waiting
  /\ zonetmp.pkgcurnum # 1 /\ online # c
  /\ \A i \in Place : i >= Total(c) => zonetmp.zoneNode[i] = Unused

(* The server begins, or begins again, to send c.                          *)
BeginUpload(c) ==
  /\ uploads < MaxUploads
  /\ uploads' = uploads + 1
  /\ server' = [confid |-> c, next |-> 1]
  /\ quiet' = QuietFor(c)
  /\ UNCHANGED <<zonetmp, waiting, zoneConfig, online, page, pc, at, faults,
                 mistaken>>

(* Mutant of Restarts: a first packet starts nothing.                      *)
RestartsNever(k) == FALSE

(* A first packet starts afresh, unless it repeats the last packet taken.  *)
Restarts(k) == k = 1 /\ zonetmp.pkgcurnum # 1

(* Mutant of Drops: the configuration in force stays.                      *)
DropsNever(c, k) == FALSE

(* Then the configuration in force is dropped (data_msg_init).             *)
Drops(c, k) == online # c /\ Restarts(k)

(* Mutant of Repeats: repeated packets are not recognised.                 *)
RepeatsNever(t, k) == FALSE

(* The packet that was taken last.                                         *)
Repeats(t, k) == k = t.pkgcurnum

(* Mutant of Appended: the zones are taken from one place too early.       *)
AppendedEarly(t, c, k) ==
  LET size == Cut[c][k] - Sent(c, k - 1)
      last == t.zonetotalnum + size
  IN  [t EXCEPT !.zonetotalnum = last,
                !.zoneNode = [i \in Place |->
                  IF t.zonetotalnum <= i /\ i < last
                  THEN <<c, Sent(c, k - 1) + (i - t.zonetotalnum)>>
                  ELSE t.zoneNode[i]]]

(* zonetmp when packet k of c has been put in.                             *)
Appended(t, c, k) ==
  LET size == Cut[c][k] - Sent(c, k - 1)
      last == t.zonetotalnum + size
  IN  [t EXCEPT !.zonetotalnum = last,
                !.zoneNode = [i \in Place |->
                  IF t.zonetotalnum <= i /\ i < last
                  THEN <<c, Sent(c, k - 1) + (i - t.zonetotalnum) + 1>>
                  ELSE t.zoneNode[i]]]

(* Mutant of Complete: the packets are not counted.                        *)
CompleteUncounted(t) == t.pkgcurnum = t.pkgtotalnum

(* The last packet, and as many were taken as there are.                   *)
Complete(t) == t.pkgcurnum = t.pkgtotalnum /\ t.pkgcal = t.pkgtotalnum

(* Packet k of c is taken for one of the configuration zonetmp holds:      *)
(* either as the first packet of the other, repeated, or in the second for *)
(* which a complete one waits to be written.                               *)
TakenForOther(c, k) ==
  /\ zonetmp.zonetotalnum > 0 /\ zonetmp.zoneNode[0][1] # c
  /\ \/ waiting
     \/ k = 1 /\ zonetmp.pkgcurnum = 1 /\ online # c

(* funrec_zoneConfig_cmd: one packet.                                      *)
TakePacket(c, k) ==
  LET t0 == [zonetmp EXCEPT !.confid = c, !.pkgtotalnum = Packets(c)]
      t1 == IF Restarts(k)
            THEN [t0 EXCEPT !.zonetotalnum = 0, !.pkgcal = 0, !.pkgcurnum = 0]
            ELSE t0
      t2 == [t1 EXCEPT !.pkgcurnum = k, !.pkgcal = t1.pkgcal + 1]
      t3 == IF Complete(t2) THEN [t2 EXCEPT !.pkgcal = 0, !.pkgcurnum = 0]
            ELSE t2
      has == online = c
  IN  /\ zonetmp' = IF has THEN t0
                    ELSE IF Repeats(t1, k) THEN t1 ELSE Appended(t3, c, k)
      /\ zoneConfig' = IF Drops(c, k) THEN NoConfig ELSE zoneConfig
      /\ waiting' = (waiting \/ (~has /\ ~Repeats(t1, k) /\ Complete(t2)))
      /\ mistaken' = (mistaken \/ TakenForOther(c, k))

(* The packet arrives, and its answer does or does not.  A packet that     *)
(* does not arrive changes nothing.                                        *)
RecvZoneConfig(answered) ==
  /\ pc = "loop"
  /\ server.confid # 0 /\ server.next <= Packets(server.confid)
  /\ TakePacket(server.confid, server.next)
  /\ server' = IF answered THEN [server EXCEPT !.next = @ + 1] ELSE server
  /\ UNCHANGED <<online, page, pc, at, uploads, faults, quiet>>

-----------------------------------------------------------------------------
(* flash_upload: the second is over.                                       *)
FlashUpload ==
  /\ pc = "loop" /\ waiting
  /\ waiting' = FALSE
  /\ pc' = "erase" /\ at' = 1
  /\ UNCHANGED <<zonetmp, zoneConfig, online, page, server, uploads, faults,
                 mistaken, quiet>>

(* flash_write_zone_conf, for page 1 and then for page 2: erase ...        *)
ErasePage ==
  /\ pc = "erase"
  /\ page' = [page EXCEPT ![at] = Erased]
  /\ pc' = "program"
  /\ UNCHANGED <<zonetmp, waiting, zoneConfig, online, at, server, uploads,
                 faults, mistaken, quiet>>

(* ... (when that fails the page is left alone) ...                        *)
EraseFails ==
  /\ pc = "erase" /\ faults < MaxFaults
  /\ faults' = faults + 1 /\ quiet' = FALSE
  /\ IF at = 1 THEN at' = 2 /\ UNCHANGED pc
               ELSE pc' = "read" /\ UNCHANGED at
  /\ UNCHANGED <<zonetmp, waiting, zoneConfig, online, page, server, uploads,
                 mistaken>>

(* ... and program: identifier, number of nodes in this page, number of    *)
(* all nodes, then the nodes.                                              *)
First(p)  == (p - 1) * Half

(* Mutant of NumIn: only what was received counts.                         *)
NumInAll(p) == zonetmp.zonetotalnum

NumIn(p)  == Cardinality({i \in First(p) .. First(p) + Half - 1 :
                            zonetmp.zoneNode[i] # Unused})

Programmed(p, g) ==
  IF g.confid = Blank THEN [g EXCEPT !.confid = zonetmp.confid]
  ELSE IF g.num = Blank THEN [g EXCEPT !.num = NumIn(p)]
  ELSE IF g.total = Blank THEN [g EXCEPT !.total = zonetmp.zonetotalnum]
  ELSE [g EXCEPT !.node = Append(@, zonetmp.zoneNode[First(p) + Len(@)])]

ProgramPage ==
  /\ pc = "program" /\ Len(page[at].node) < Half
  /\ page' = [page EXCEPT ![at] = Programmed(at, @)]
  /\ UNCHANGED <<zonetmp, waiting, zoneConfig, online, pc, at, server, uploads,
                 faults, mistaken, quiet>>

PageDone ==
  /\ pc = "program" /\ Len(page[at].node) = Half
  /\ IF at = 1 THEN at' = 2 /\ pc' = "erase"
               ELSE pc' = "read" /\ UNCHANGED at
  /\ UNCHANGED <<zonetmp, waiting, zoneConfig, online, page, server, uploads,
                 faults, mistaken, quiet>>

-----------------------------------------------------------------------------
(* What flash_read_zone_conf accepts: both pages carry one identifier and  *)
(* one total, and together as many nodes as that.                          *)
Num(p) == IF page[p].num = Blank THEN 0 ELSE page[p].num

Accepted ==
  /\ page[1].confid = page[2].confid
  /\ page[1].total = page[2].total
  /\ Num(1) + Num(2) = page[2].total
  /\ page[2].total <= N

NodeAt(p, j) == IF j < Len(page[p].node) THEN page[p].node[j + 1] ELSE Absent

(* flash_read_zone_conf, on top of the configuration old.                  *)
ReadFrom(old) ==
  [confid   |-> page[1].confid,
   zoneNode |-> [i \in Place |->
     IF i < Num(1) THEN NodeAt(1, i)
     ELSE IF i < Num(1) + Num(2) THEN NodeAt(2, i - Num(1))
     ELSE old.zoneNode[i]]]

(* After the writing: read it back, and announce what was read.            *)
ReadBack ==
  /\ pc = "read"
  /\ pc' = "loop"
  /\ waiting' = FALSE
  /\ zoneConfig' = IF Accepted THEN ReadFrom(zoneConfig) ELSE zoneConfig
  /\ online' = IF Accepted THEN page[1].confid ELSE online
  /\ zonetmp' = [zonetmp EXCEPT
       !.confid = IF Accepted THEN page[1].confid ELSE 0,
       !.pkgcal = 0, !.pkgcurnum = 0]
  /\ UNCHANGED <<page, at, server, uploads, faults, mistaken, quiet>>

(* A reset, at any point: main_init_msg starts with the variables cleared. *)
Reset ==
  /\ faults < MaxFaults
  /\ faults' = faults + 1 /\ quiet' = FALSE
  /\ pc' = "loop" /\ at' = 1
  /\ waiting' = FALSE
  /\ zoneConfig' = IF Accepted THEN ReadFrom(NoConfig) ELSE NoConfig
  /\ online' = IF Accepted THEN page[1].confid ELSE 0
  /\ zonetmp' = [Empty EXCEPT
       !.confid = IF Accepted THEN page[1].confid ELSE 0]
  /\ UNCHANGED <<page, server, uploads, mistaken>>

-----------------------------------------------------------------------------
Next ==
  \/ \E c \in Conf : BeginUpload(c)
  \/ \E answered \in BOOLEAN : RecvZoneConfig(answered)
  \/ FlashUpload
  \/ ErasePage
  \/ EraseFails
  \/ ProgramPage
  \/ PageDone
  \/ ReadBack
  \/ Reset

(* The main loop and its tick go on for ever, and a server that repeats    *)
(* its packet is answered in the end.                                      *)
Fairness ==
  /\ WF_vars(FlashUpload) /\ WF_vars(ErasePage \/ EraseFails)
  /\ WF_vars(ProgramPage) /\ WF_vars(PageDone) /\ WF_vars(ReadBack)
  /\ SF_vars(RecvZoneConfig(TRUE))

Spec == Init /\ [][Next]_vars
FairSpec == Spec /\ Fairness

-----------------------------------------------------------------------------
(* Every variable has its type.                                            *)
TypeOK ==
  /\ zonetmp \in [confid : Conf \cup {0}, pkgtotalnum : Nat, pkgcurnum : Nat,
                  pkgcal : Nat, zonetotalnum : Nat,
                  zoneNode : [Place -> Node \cup {Unused}]]
  /\ waiting \in BOOLEAN /\ mistaken \in BOOLEAN /\ quiet \in BOOLEAN
  /\ zoneConfig \in [confid : Conf \cup {0},
                     zoneNode : [Place -> Node \cup {Unused, Absent}]]
  /\ online \in Conf \cup {0}
  /\ page \in [Page -> [confid : Conf \cup {Blank}, num : 0 .. N \cup {Blank},
                        total : Nat,
                        node : Seq(Node \cup {Unused})]]
  /\ pc \in {"loop", "erase", "program", "read"} /\ at \in Page
  /\ server \in [confid : Conf \cup {0}, next : Nat \ {0}]
  /\ uploads \in 0 .. MaxUploads /\ faults \in 0 .. MaxFaults

(* zoneNode is written without a look at its size (fun.c 125-141).  The    *)
(* packets that are taken twice still fit: each writing forgets which      *)
(* packet was the last, so one can be taken again after it, but no more    *)
(* than two writings come before the next first packet.                    *)
StageFits == ~mistaken => zonetmp.zonetotalnum <= N

(* The zones the transport logic can find.                                 *)
InForce(z) == {z.zoneNode[i] : i \in Place} \ {Absent}
Whole(c)   == {<<c, k>> : k \in 1 .. Total(c)}

(* A page whose numbers were written and whose nodes were not: the writing *)
(* was cut off in it.                                                      *)
Torn == \E p \in Page : /\ page[p].total # Blank
                        /\ Len(page[p].node) < page[p].num

(* A configuration in force is one the server sent, all of it and nothing  *)
(* else, whatever was repeated, begun anew, cut off by a reset or not      *)
(* erased.  Two things can break that, and only these: the server turned   *)
(* to another configuration when the master could not tell (TakenForOther),*)
(* or a reset fell into the programming of the nodes of a page (Torn).     *)
InForceWhole ==
  zoneConfig.confid # 0 /\ ~mistaken =>
    Torn \/ InForce(zoneConfig) = Whole(zoneConfig.confid)

(* A configuration in force survives a reset, unless another is just being *)
(* written (flash_read_zone_conf at the end of the writing and at start).  *)
InForceDurable ==
  [][Reset /\ pc = "loop" /\ zoneConfig.confid # 0
       => zoneConfig' = zoneConfig]_vars

(* No node of an earlier configuration is left behind the received ones.   *)
Fresh == \A i \in Place : i >= zonetmp.zonetotalnum
                            => zonetmp.zoneNode[i] = Unused

(* What page p holds once all of it was programmed.                        *)
Image(p) == [confid |-> zonetmp.confid, num |-> NumIn(p),
             total |-> zonetmp.zonetotalnum,
             node |-> [j \in 1 .. Half |-> zonetmp.zoneNode[First(p) + j - 1]]]

(* What was programmed is read back as it was received, split over the two *)
(* pages or not, if it fits (StageFits) and no larger configuration was    *)
(* received since the last reset (its nodes in zonetmp are counted as      *)
(* nodes of this one).                                                     *)
ReadBackIsReceived ==
  [][ReadBack /\ Fresh /\ zonetmp.zonetotalnum <= N
     /\ (\A p \in Page : page[p] = Image(p))
       => /\ zoneConfig'.confid = zonetmp.confid
          /\ \A i \in 0 .. zonetmp.zonetotalnum - 1 :
               zoneConfig'.zoneNode[i] = zonetmp.zoneNode[i]]_vars

(* A server that begins an upload at a quiet moment (QuietFor), repeats    *)
(* each packet until it is answered and then leaves the master alone gets  *)
(* its configuration in force, if no fault comes in between.               *)
UploadTakesEffect ==
  \A c \in Conf :
    (quiet /\ server.confid = c)
      ~> (zoneConfig.confid = c \/ ~quiet \/ server.confid # c)
=============================================================================
