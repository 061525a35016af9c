-------------------------- MODULE ZoneConfigProofs --------------------------
(***************************************************************************)
(* Types; that a configuration in force survives a reset; that what comes  *)
(* in packets fits in zoneNode; that a configuration in force is whole;    *)
(* and that what was programmed is read back as received: for every set of *)
(* configurations that fit, cut into packets in any way, and any number of *)
(* uploads, resets and failed erasures.                                    *)
(***************************************************************************)
EXTENDS ZoneConfig, FiniteSetTheorems, TLAPS

(* What flash_read_zone_conf would yield at a start.                       *)
Stored == ReadFrom(NoConfig)

(* Without a first packet no upload is complete: fewer packets were        *)
(* counted than the number of the last one says, and the server goes on    *)
(* from there, begins anew, or sends what the master announces already.    *)
Headless ==
  /\ zonetmp.pkgcurnum # 1
  /\ zonetmp.pkgcal = 0 \/ zonetmp.pkgcal < zonetmp.pkgcurnum
  /\ \/ server.confid = online
     \/ server.next = 1
     \/ server.next >= zonetmp.pkgcurnum

(* A configuration is in force only between two uploads, and then it is    *)
(* the one in the flash.                                                   *)
Durable ==
  \/ zoneConfig = NoConfig
  \/ /\ pc = "loop" /\ waiting = FALSE
     /\ Accepted /\ zoneConfig = Stored
     /\ Headless
-----------------------------------------------------------------------------
Stages  == [confid : Conf \cup {0}, pkgtotalnum : Nat, pkgcurnum : Nat,
            pkgcal : Nat, zonetotalnum : Nat,
            zoneNode : [Place -> Node \cup {Unused}]]
Configs == [confid : Conf \cup {0},
            zoneNode : [Place -> Node \cup {Unused, Absent}]]
Pages   == [confid : Conf \cup {Blank}, num : 0 .. N \cup {Blank},
            total : Nat, node : Seq(Node \cup {Unused})]
Servers == [confid : Conf \cup {0}, next : Nat \ {0}]

(* TypeOK with the large sets folded.                                      *)
Typed ==
  /\ zonetmp \in Stages
  /\ waiting \in BOOLEAN /\ mistaken \in BOOLEAN /\ quiet \in BOOLEAN
  /\ zoneConfig \in Configs /\ online \in Conf \cup {0}
  /\ page \in [Page -> Pages]
  /\ pc \in {"loop", "erase", "program", "read"} /\ at \in Page
  /\ server \in Servers
  /\ uploads \in 0 .. MaxUploads /\ faults \in 0 .. MaxFaults

(* What is to be written has an identifier, a page's nodes come after its  *)
(* numbers, and its numbers after its identifier.                          *)
Written ==
  /\ waiting \/ pc = "program" \/ pc = "erase" => zonetmp.confid \in Conf
  /\ \A p \in Page : page[p].confid = Blank => page[p].total = Blank

Sound == Typed /\ Written

LEMMA TypedIsTypeOK == Typed <=> TypeOK
BY DEF Typed, TypeOK, Stages, Configs, Pages, Servers

(* The constants are numbers, and an erased halfword is none of them.      *)
LEMMA Numbered ==
  /\ Half \in Nat /\ N \in Nat /\ N = 2 * Half
  /\ MaxUploads \in Nat /\ MaxFaults \in Nat
  /\ Conf \subseteq Nat /\ 0 \notin Conf
  /\ Blank \in Nat /\ Blank > N /\ Blank \notin Conf
BY ConfigAssumption DEF N

(* A packet has zones of its configuration, which has no more than fit.    *)
LEMMA PacketIs ==
  ASSUME NEW c \in Conf, NEW k \in 1 .. Packets(c)
  PROVE  /\ Packets(c) \in Nat
         /\ Sent(c, k - 1) \in Nat /\ Cut[c][k] \in Nat
         /\ Sent(c, k - 1) <= Cut[c][k] /\ Cut[c][k] <= N
<1>1. /\ Cut[c] \in Seq(Nat \ {0}) /\ Packets(c) > 0
      /\ \A j, l \in DOMAIN Cut[c] : j < l => Cut[c][j] < Cut[c][l]
      /\ Total(c) <= N
  BY ConfigAssumption
<1>2. /\ Packets(c) \in Nat /\ DOMAIN Cut[c] = 1 .. Packets(c)
      /\ \A j \in 1 .. Packets(c) : Cut[c][j] \in Nat
  BY <1>1 DEF Packets
<1>3. Cut[c][k] <= N
  <2>1. Packets(c) \in DOMAIN Cut[c] /\ k \in DOMAIN Cut[c]
    BY <1>1, <1>2
  <2>2. k = Packets(c) \/ Cut[c][k] < Cut[c][Packets(c)]
    BY <1>1, <1>2, <2>1
  <2> QED
    BY <1>1, <1>2, <2>1, <2>2, Numbered DEF Total
<1>4. Sent(c, k - 1) \in Nat /\ Sent(c, k - 1) <= Cut[c][k]
  <2>1. CASE k = 1
    BY <1>2, <2>1 DEF Sent
  <2>2. CASE k # 1
    <3>1. k - 1 \in 1 .. Packets(c) /\ k - 1 # 0 /\ k - 1 < k
      BY <1>2, <2>2
    <3>2. Cut[c][k - 1] < Cut[c][k] /\ Cut[c][k - 1] \in Nat
      BY <1>1, <1>2, <3>1
    <3> QED
      BY <1>2, <3>1, <3>2 DEF Sent
  <2> QED
    BY <2>1, <2>2
<1> QED
  BY <1>2, <1>3, <1>4

(* A packet's zones are put behind those received.                         *)
LEMMA AppendedIs ==
  ASSUME NEW t \in Stages, NEW c \in Conf, NEW k \in 1 .. Packets(c)
  PROVE  /\ Appended(t, c, k) \in Stages
         /\ Appended(t, c, k).confid = t.confid
         /\ Appended(t, c, k).pkgcurnum = t.pkgcurnum
         /\ Appended(t, c, k).pkgcal = t.pkgcal
<1> DEFINE from == Sent(c, k - 1)
           last == t.zonetotalnum + (Cut[c][k] - from)
           nodes == [i \in Place |->
                       IF t.zonetotalnum <= i /\ i < last
                       THEN <<c, from + (i - t.zonetotalnum) + 1>>
                       ELSE t.zoneNode[i]]
<1>1. /\ from \in Nat /\ Cut[c][k] \in Nat
      /\ from <= Cut[c][k] /\ Cut[c][k] <= N
  BY PacketIs
<1>2. t.zonetotalnum \in Nat /\ t.zoneNode \in [Place -> Node \cup {Unused}]
  BY DEF Stages
<1>3. last \in Nat
  BY <1>1, <1>2
<1>4. nodes \in [Place -> Node \cup {Unused}]
  <2>1. ASSUME NEW i \in Place, t.zonetotalnum <= i, i < last
        PROVE  from + (i - t.zonetotalnum) + 1 \in 1 .. N
    <3> HIDE DEF from, last
    <3>1. i \in Int /\ 0 <= i - t.zonetotalnum
      BY <1>2, <2>1, Numbered DEF Place
    <3>2. i - t.zonetotalnum < Cut[c][k] - from
      BY <1>1, <1>2, <2>1, <3>1 DEF last
    <3> DEFINE d == i - t.zonetotalnum
    <3>3. d \in Int /\ 0 <= d /\ d < Cut[c][k] - from
      BY <1>2, <3>1, <3>2
    <3> HIDE DEF d
    <3>4. from + d + 1 \in 1 .. N
      BY <1>1, <3>3, Numbered
    <3> QED
      BY <3>4 DEF d
  <2>2. ASSUME NEW i \in Place, t.zonetotalnum <= i, i < last
        PROVE  <<c, from + (i - t.zonetotalnum) + 1>> \in Node
    BY <2>1, <2>2 DEF Node
  <2> HIDE DEF from, last
  <2> QED
    BY <1>2, <2>2
<1>5. Appended(t, c, k) = [t EXCEPT !.zonetotalnum = last, !.zoneNode = nodes]
  BY DEF Appended
<1> HIDE DEF last, nodes
<1> QED
  BY <1>3, <1>4, <1>5 DEF Stages

(* What one packet does to what was received.                              *)
LEMMA TakePacketIs ==
  ASSUME Typed, NEW c \in Conf, NEW k \in 1 .. Packets(c), TakePacket(c, k)
  PROVE  /\ zonetmp' \in Stages /\ zonetmp'.confid = c
         /\ waiting' \in BOOLEAN /\ mistaken' \in BOOLEAN
         /\ zoneConfig' \in {zoneConfig, NoConfig}
         /\ Restarts(k) /\ online # c => zoneConfig' = NoConfig
         /\ online = c =>
              /\ zonetmp'.pkgcurnum = zonetmp.pkgcurnum
              /\ zonetmp'.pkgcal = zonetmp.pkgcal
              /\ waiting' = waiting
         /\ online # c /\ ~Restarts(k) /\ k = zonetmp.pkgcurnum =>
              /\ zonetmp'.pkgcurnum = zonetmp.pkgcurnum
              /\ zonetmp'.pkgcal = zonetmp.pkgcal
              /\ waiting' = waiting
         /\ (/\ online # c /\ ~Restarts(k)
             /\ k # zonetmp.pkgcurnum /\ k # zonetmp.pkgcal + 1) =>
              /\ zonetmp'.pkgcurnum = k
              /\ zonetmp'.pkgcal = zonetmp.pkgcal + 1
              /\ waiting' = waiting
<1> DEFINE t0 == [zonetmp EXCEPT !.confid = c, !.pkgtotalnum = Packets(c)]
           t1 == IF Restarts(k)
                 THEN [t0 EXCEPT !.zonetotalnum = 0, !.pkgcal = 0,
                                 !.pkgcurnum = 0]
                 ELSE t0
           t2 == [t1 EXCEPT !.pkgcurnum = k, !.pkgcal = t1.pkgcal + 1]
           t3 == IF Complete(t2) THEN [t2 EXCEPT !.pkgcal = 0, !.pkgcurnum = 0]
                 ELSE t2
           has == online = c
<1>1. /\ zonetmp' = IF has THEN t0
                    ELSE IF Repeats(t1, k) THEN t1 ELSE Appended(t3, c, k)
      /\ zoneConfig' = IF Drops(c, k) THEN NoConfig ELSE zoneConfig
      /\ waiting' = (waiting \/ (~has /\ ~Repeats(t1, k) /\ Complete(t2)))
      /\ mistaken' = (mistaken \/ TakenForOther(c, k))
  BY DEF TakePacket
<1>2. t0 \in Stages /\ t0.confid = c /\ t0.pkgtotalnum = Packets(c)
      /\ t0.pkgcurnum = zonetmp.pkgcurnum /\ t0.pkgcal = zonetmp.pkgcal
  BY PacketIs DEF Typed, Stages
<1> HIDE DEF t0
<1>3. /\ t1 \in Stages /\ t1.confid = c /\ t1.pkgtotalnum = Packets(c)
      /\ ~Restarts(k) => t1 = t0
  BY <1>2 DEF Stages
<1> HIDE DEF t1
<1>4. /\ t2 \in Stages /\ t2.confid = c /\ t2.pkgtotalnum = Packets(c)
      /\ t2.pkgcurnum = k /\ t2.pkgcal = t1.pkgcal + 1
  <2>1. k \in Nat /\ t1.pkgcal \in Nat
    BY <1>3, PacketIs DEF Stages
  <2>2. t1.pkgcal + 1 \in Nat
    BY <2>1
  <2> DEFINE n == t1.pkgcal + 1
  <2>3. t2 = [t1 EXCEPT !.pkgcurnum = k, !.pkgcal = n]
    OBVIOUS
  <2> HIDE DEF n, t2
  <2>4. /\ t2 \in Stages /\ t2.confid = c /\ t2.pkgtotalnum = Packets(c)
        /\ t2.pkgcurnum = k /\ t2.pkgcal = n
    BY <1>3, <2>1, <2>2, <2>3 DEF Stages, n
  <2> QED
    BY <2>4 DEF n
<1> HIDE DEF t2
<1>5. /\ t3 \in Stages /\ t3.confid = c
      /\ ~Complete(t2) => t3 = t2
  BY <1>4 DEF Stages
<1> HIDE DEF t3
<1>6. /\ Appended(t3, c, k) \in Stages /\ Appended(t3, c, k).confid = c
      /\ Appended(t3, c, k).pkgcurnum = t3.pkgcurnum
      /\ Appended(t3, c, k).pkgcal = t3.pkgcal
  BY <1>5, AppendedIs
<1>7. waiting' \in BOOLEAN /\ mistaken' \in BOOLEAN
  BY <1>1, Zenon
<1>8. zonetmp' \in Stages /\ zonetmp'.confid = c
  BY <1>1, <1>2, <1>3, <1>6
<1>9. /\ zoneConfig' \in {zoneConfig, NoConfig}
      /\ Restarts(k) /\ online # c => zoneConfig' = NoConfig
  BY <1>1 DEF Drops
<1>10. ASSUME online = c \/ Repeats(t1, k) \/ ~Complete(t2)
       PROVE  waiting' = waiting
  <2>1. waiting \in BOOLEAN
    BY DEF Typed
  <2> QED
    BY <1>1, <1>10, <2>1, Zenon
<1>11. ASSUME online = c
       PROVE  /\ zonetmp'.pkgcurnum = zonetmp.pkgcurnum
              /\ zonetmp'.pkgcal = zonetmp.pkgcal
              /\ waiting' = waiting
  BY <1>1, <1>2, <1>10, <1>11
<1>12. ASSUME online # c, ~Restarts(k), k = zonetmp.pkgcurnum
       PROVE  /\ zonetmp'.pkgcurnum = zonetmp.pkgcurnum
              /\ zonetmp'.pkgcal = zonetmp.pkgcal
              /\ waiting' = waiting
  <2>1. t1 = t0 /\ Repeats(t1, k)
    BY <1>2, <1>3, <1>12 DEF Repeats
  <2> QED
    BY <1>1, <1>2, <1>10, <1>12, <2>1
<1>13. ASSUME online # c, ~Restarts(k), k # zonetmp.pkgcurnum,
              k # zonetmp.pkgcal + 1
       PROVE  /\ zonetmp'.pkgcurnum = k
              /\ zonetmp'.pkgcal = zonetmp.pkgcal + 1
              /\ waiting' = waiting
  <2>1. t1 = t0 /\ ~Repeats(t1, k)
    BY <1>2, <1>3, <1>13 DEF Repeats
  <2>2. ~Complete(t2)
    BY <1>2, <1>4, <1>13, <2>1 DEF Complete
  <2>3. zonetmp' = Appended(t3, c, k) /\ t3 = t2
    BY <1>1, <1>5, <1>13, <2>1, <2>2
  <2> QED
    BY <1>2, <1>4, <1>6, <1>10, <2>1, <2>2, <2>3
<1> QED
  <2> HIDE DEF has
  <2>1. online = c =>
          /\ zonetmp'.pkgcurnum = zonetmp.pkgcurnum
          /\ zonetmp'.pkgcal = zonetmp.pkgcal
          /\ waiting' = waiting
    BY <1>11, Zenon
  <2>2. online # c /\ ~Restarts(k) /\ k = zonetmp.pkgcurnum =>
          /\ zonetmp'.pkgcurnum = zonetmp.pkgcurnum
          /\ zonetmp'.pkgcal = zonetmp.pkgcal
          /\ waiting' = waiting
    BY <1>12, Zenon
  <2>3. (/\ online # c /\ ~Restarts(k)
         /\ k # zonetmp.pkgcurnum /\ k # zonetmp.pkgcal + 1) =>
          /\ zonetmp'.pkgcurnum = k
          /\ zonetmp'.pkgcal = zonetmp.pkgcal + 1
          /\ waiting' = waiting
    BY <1>13, Zenon
  <2> QED
    BY <1>7, <1>8, <1>9, <2>1, <2>2, <2>3, Zenon

(* The nodes that count in a page.                                         *)
LEMMA NumInIs ==
  ASSUME Typed, NEW p \in Page
  PROVE  NumIn(p) \in 0 .. N
<1> DEFINE I == First(p) .. First(p) + Half - 1
           S == {i \in I : zonetmp.zoneNode[i] # Unused}
<1>1. First(p) \in Nat
  BY Numbered DEF First, Page
<1>2. IsFiniteSet(I) /\ Cardinality(I) <= Half
  <2> DEFINE a == First(p)
             b == First(p) + Half - 1
  <2>1. a \in Int /\ b \in Int /\ (a > b => Half = 0) /\ b - a + 1 = Half
    BY <1>1, Numbered
  <2> HIDE DEF a, b
  <2>2. /\ IsFiniteSet(a .. b)
        /\ Cardinality(a .. b) = IF a > b THEN 0 ELSE b - a + 1
    BY <2>1, FS_Interval
  <2>3. Cardinality(a .. b) <= Half
    BY <2>1, <2>2, Numbered
  <2> QED
    BY <2>2, <2>3 DEF a, b
<1>3. S \subseteq I
  OBVIOUS
<1>4. /\ IsFiniteSet(S) /\ Cardinality(S) <= Cardinality(I)
  BY <1>2, <1>3, FS_Subset
<1>5. Cardinality(S) \in Nat /\ Cardinality(I) \in Nat
  BY <1>2, <1>4, FS_CardinalityType
<1>6. NumIn(p) = Cardinality(S)
  BY DEF NumIn
<1> HIDE DEF S, I
<1> QED
  BY <1>2, <1>4, <1>5, <1>6, Numbered

(* One more halfword, or node, is programmed.                              *)
LEMMA ProgrammedIs ==
  ASSUME Typed, NEW p \in Page, NEW g \in Pages, Len(g.node) < Half,
         zonetmp.confid \in Conf, g.confid = Blank => g.total = Blank
  PROVE  /\ Programmed(p, g) \in Pages
         /\ Programmed(p, g).confid # Blank
<1>1. zonetmp \in Stages
  BY DEF Typed
<1>2. CASE g.confid = Blank
  <2>1. Programmed(p, g) = [g EXCEPT !.confid = zonetmp.confid]
    BY <1>2 DEF Programmed
  <2> QED
    BY <2>1, Numbered DEF Pages
<1>3. CASE g.confid # Blank /\ g.num = Blank
  <2>1. Programmed(p, g) = [g EXCEPT !.num = NumIn(p)]
    BY <1>3 DEF Programmed
  <2> QED
    BY <1>3, <2>1, NumInIs DEF Pages
<1>4. CASE g.confid # Blank /\ g.num # Blank /\ g.total = Blank
  <2>1. Programmed(p, g) = [g EXCEPT !.total = zonetmp.zonetotalnum]
    BY <1>4 DEF Programmed
  <2>2. zonetmp.zonetotalnum \in Nat
    BY <1>1 DEF Stages
  <2> QED
    BY <1>4, <2>1, <2>2 DEF Pages
<1>5. CASE g.confid # Blank /\ g.num # Blank /\ g.total # Blank
  <2> DEFINE x == zonetmp.zoneNode[First(p) + Len(g.node)]
  <2>1. Programmed(p, g) = [g EXCEPT !.node = Append(g.node, x)]
    BY <1>5 DEF Programmed
  <2>2. Len(g.node) \in Nat /\ g.node \in Seq(Node \cup {Unused})
    BY DEF Pages
  <2>3. First(p) + Len(g.node) \in Place
    <3>1. First(p) \in {0, Half}
      BY Numbered DEF First, Page
    <3> QED
      BY <2>2, <3>1, Numbered DEF Place
  <2>4. x \in Node \cup {Unused}
    BY <1>1, <2>3 DEF Stages
  <2>5. Append(g.node, x) \in Seq(Node \cup {Unused})
    BY <2>2, <2>4
  <2> HIDE DEF x
  <2> QED
    BY <1>5, <2>1, <2>5 DEF Pages
<1> QED
  BY <1>2, <1>3, <1>4, <1>5

(* What is read from the flash is a configuration.                         *)
LEMMA ReadIs ==
  ASSUME Sound, NEW old \in Configs, Accepted
  PROVE  page[1].confid \in Conf /\ ReadFrom(old) \in Configs
<1>1. /\ page[1] \in Pages /\ page[2] \in Pages /\ 1 \in Page /\ 2 \in Page
  BY DEF Sound, Typed, Page
<1>2. page[1].confid \in Conf
  <2>1. page[1].confid # Blank
    <3>1. page[1].total # Blank
      BY <1>1, Numbered DEF Accepted, Pages
    <3> QED
      BY <1>1, <3>1 DEF Sound, Written
  <2> QED
    BY <1>1, <2>1 DEF Pages
<1>3. Num(1) \in Nat /\ Num(2) \in Nat
  BY <1>1, Numbered DEF Num, Pages
<1>4. ASSUME NEW p \in Page, NEW j \in Nat
      PROVE  NodeAt(p, j) \in Node \cup {Unused, Absent}
  <2>1. page[p].node \in Seq(Node \cup {Unused})
    BY DEF Sound, Typed, Pages
  <2>2. j < Len(page[p].node) => page[p].node[j + 1] \in Node \cup {Unused}
    BY <2>1
  <2> QED
    BY <2>2 DEF NodeAt
<1>5. ASSUME NEW i \in Place
      PROVE  ReadFrom(old).zoneNode[i] \in Node \cup {Unused, Absent}
  <2>1. i \in Nat /\ old.zoneNode[i] \in Node \cup {Unused, Absent}
    <3>1. i \in Nat
      BY Numbered DEF Place
    <3>2. old.zoneNode \in [Place -> Node \cup {Unused, Absent}]
      BY DEF Configs
    <3> QED
      BY <3>1, <3>2
  <2>2. ReadFrom(old).zoneNode[i] =
          IF i < Num(1) THEN NodeAt(1, i)
          ELSE IF i < Num(1) + Num(2) THEN NodeAt(2, i - Num(1))
          ELSE old.zoneNode[i]
    BY DEF ReadFrom
  <2>3. ~(i < Num(1)) => i - Num(1) \in Nat
    BY <1>3, <2>1
  <2> QED
    BY <1>1, <1>4, <2>1, <2>2, <2>3
<1>6. ReadFrom(old) \in Configs
  BY <1>2, <1>5 DEF ReadFrom, Configs
<1> QED
  BY <1>2, <1>6

-----------------------------------------------------------------------------
LEMMA NoConfigIs == NoConfig \in Configs /\ NoConfig.confid = 0
BY DEF NoConfig, Configs

LEMMA EmptyIs == /\ Empty \in Stages
                 /\ \A c \in Conf \cup {0} :
                      [Empty EXCEPT !.confid = c] \in Stages
BY DEF Empty, Stages

LEMMA InitSound == Init => Sound
<1> SUFFICES ASSUME Init PROVE Sound
  OBVIOUS
<1>1. zonetmp \in Stages /\ zoneConfig \in Configs
  BY EmptyIs, NoConfigIs DEF Init
<1>2. Erased \in Pages
  BY Numbered DEF Erased, Pages
<1>3. /\ page \in [Page -> Pages]
      /\ \A p \in Page : page[p].confid = Blank => page[p].total = Blank
  BY <1>2 DEF Init, Erased
<1>4. server \in Servers
  BY DEF Init, Servers
<1>5. uploads \in 0 .. MaxUploads /\ faults \in 0 .. MaxFaults
  BY Numbered DEF Init
<1>6. Typed
  BY <1>1, <1>3, <1>4, <1>5 DEF Init, Typed, Page
<1>7. Written
  BY <1>3 DEF Init, Written
<1> QED
  BY <1>6, <1>7 DEF Sound

LEMMA BeginUploadSound ==
  ASSUME Sound, NEW c \in Conf, BeginUpload(c) PROVE Sound'
<1>1. server' \in Servers
  BY DEF BeginUpload, Servers
<1>2. uploads' \in 0 .. MaxUploads /\ quiet' \in BOOLEAN
  BY Numbered DEF BeginUpload, QuietFor, Sound, Typed
<1> QED
  BY <1>1, <1>2 DEF BeginUpload, Sound, Typed, Written

LEMMA RecvZoneConfigSound ==
  ASSUME Sound, NEW answered \in BOOLEAN, RecvZoneConfig(answered)
  PROVE  Sound'
<1> DEFINE c == server.confid
           k == server.next
<1>1. server \in Servers /\ c \in Conf /\ k \in 1 .. Packets(c)
  <2>1. server \in Servers /\ c \in Conf /\ k \in Nat \ {0} /\ k <= Packets(c)
    BY DEF RecvZoneConfig, Sound, Typed, Servers
  <2>2. Packets(c) \in Nat
    BY <2>1, ConfigAssumption DEF Packets
  <2> QED
    BY <2>1, <2>2
<1>2. /\ zonetmp' \in Stages /\ zonetmp'.confid = c
      /\ waiting' \in BOOLEAN /\ mistaken' \in BOOLEAN
      /\ zoneConfig' \in {zoneConfig, NoConfig}
  BY <1>1, TakePacketIs DEF RecvZoneConfig, Sound
<1>3. server' \in Servers
  BY <1>1 DEF RecvZoneConfig, Servers
<1>4. zoneConfig' \in Configs
  BY <1>2, NoConfigIs DEF Sound, Typed
<1> HIDE DEF c, k
<1> QED
  BY <1>1, <1>2, <1>3, <1>4 DEF RecvZoneConfig, Sound, Typed, Written

LEMMA FlashUploadSound == Sound /\ FlashUpload => Sound'
BY DEF FlashUpload, Sound, Typed, Written, Page

LEMMA ErasePageSound == Sound /\ ErasePage => Sound'
<1> SUFFICES ASSUME Sound, ErasePage PROVE Sound'
  OBVIOUS
<1>1. Erased \in Pages /\ Erased.total = Blank
  BY Numbered DEF Erased, Pages
<1>2. /\ page' \in [Page -> Pages]
      /\ \A p \in Page : page'[p].confid = Blank => page'[p].total = Blank
  BY <1>1 DEF ErasePage, Sound, Typed, Written
<1> QED
  BY <1>2 DEF ErasePage, Sound, Typed, Written

LEMMA EraseFailsSound == Sound /\ EraseFails => Sound'
<1> SUFFICES ASSUME Sound, EraseFails PROVE Sound'
  OBVIOUS
<1>1. faults' \in 0 .. MaxFaults
  BY Numbered DEF EraseFails, Sound, Typed
<1>2. at' \in Page /\ pc' \in {"loop", "erase", "program", "read"}
  BY DEF EraseFails, Sound, Typed, Page
<1>3. (waiting \/ pc = "program" \/ pc = "erase") => zonetmp.confid \in Conf
  BY DEF Sound, Written
<1> QED
  BY <1>1, <1>2, <1>3 DEF EraseFails, Sound, Typed, Written

LEMMA ProgramPageSound == Sound /\ ProgramPage => Sound'
<1> SUFFICES ASSUME Sound, ProgramPage PROVE Sound'
  OBVIOUS
<1>1. at \in Page /\ page \in [Page -> Pages] /\ page[at] \in Pages
  BY DEF Sound, Typed
<1>2. /\ Programmed(at, page[at]) \in Pages
      /\ Programmed(at, page[at]).confid # Blank
  BY <1>1, ProgrammedIs DEF ProgramPage, Sound, Written
<1>3. page' = [page EXCEPT ![at] = Programmed(at, page[at])]
  BY DEF ProgramPage
<1>4. /\ page' \in [Page -> Pages]
      /\ \A p \in Page : page'[p].confid = Blank => page'[p].total = Blank
  BY <1>1, <1>2, <1>3 DEF Sound, Written
<1> QED
  BY <1>4 DEF ProgramPage, Sound, Typed, Written

LEMMA PageDoneSound == Sound /\ PageDone => Sound'
BY DEF PageDone, Sound, Typed, Written, Page

LEMMA ReadBackSound == Sound /\ ReadBack => Sound'
<1> SUFFICES ASSUME Sound, ReadBack PROVE Sound'
  OBVIOUS
<1>1. zoneConfig' \in Configs /\ online' \in Conf \cup {0}
  BY ReadIs DEF ReadBack, Sound, Typed
<1>2. (IF Accepted THEN page[1].confid ELSE 0) \in Conf \cup {0}
  BY ReadIs, NoConfigIs
<1>3. zonetmp' \in Stages
  BY <1>2 DEF ReadBack, Sound, Typed, Stages
<1> QED
  BY <1>1, <1>3 DEF ReadBack, Sound, Typed, Written

LEMMA ResetSound == Sound /\ Reset => Sound'
<1> SUFFICES ASSUME Sound, Reset PROVE Sound'
  OBVIOUS
<1>1. zoneConfig' \in Configs /\ online' \in Conf \cup {0}
  BY ReadIs, NoConfigIs DEF Reset
<1>2. (IF Accepted THEN page[1].confid ELSE 0) \in Conf \cup {0}
  BY ReadIs, NoConfigIs
<1>3. zonetmp' \in Stages
  BY <1>2, EmptyIs DEF Reset
<1>4. faults' \in 0 .. MaxFaults
  BY Numbered DEF Reset, Sound, Typed
<1> QED
  BY <1>1, <1>3, <1>4 DEF Reset, Sound, Typed, Written, Page

LEMMA NextSound == Sound /\ [Next]_vars => Sound'
<1> SUFFICES ASSUME Sound, [Next]_vars PROVE Sound'
  OBVIOUS
<1>1. CASE \E c \in Conf : BeginUpload(c)
  BY <1>1, BeginUploadSound
<1>2. CASE \E answered \in BOOLEAN : RecvZoneConfig(answered)
  BY <1>2, RecvZoneConfigSound
<1>3. CASE FlashUpload
  BY <1>3, FlashUploadSound
<1>4. CASE ErasePage
  BY <1>4, ErasePageSound
<1>5. CASE EraseFails
  BY <1>5, EraseFailsSound
<1>6. CASE ProgramPage
  BY <1>6, ProgramPageSound
<1>7. CASE PageDone
  BY <1>7, PageDoneSound
<1>8. CASE ReadBack
  BY <1>8, ReadBackSound
<1>9. CASE Reset
  BY <1>9, ResetSound
<1>10. CASE UNCHANGED vars
  BY <1>10 DEF vars, Sound, Typed, Written
<1> QED
  BY <1>1, <1>2, <1>3, <1>4, <1>5, <1>6, <1>7, <1>8, <1>9, <1>10 DEF Next

(* Every variable keeps its type, whatever is sent, cut off or not erased. *)
THEOREM TypeCorrect == Spec => []TypeOK
<1>1. Init => Sound
  BY InitSound
<1>2. Sound /\ [Next]_vars => Sound'
  BY NextSound
<1>3. Sound => TypeOK
  BY TypedIsTypeOK DEF Sound
<1> QED
  BY <1>1, <1>2, <1>3, PTL DEF Spec

-----------------------------------------------------------------------------
(* While the pages stay, so does what a start would read from them.        *)
LEMMA PagesKept ==
  ASSUME page' = page
  PROVE  (Accepted' <=> Accepted) /\ Stored' = Stored
<1>1. Accepted' <=> Accepted
  BY DEF Accepted, Num
<1>2. Stored' = Stored
  BY DEF Stored, ReadFrom, NodeAt, Num
<1> QED
  BY <1>1, <1>2

(* A packet either drops the configuration in force or leaves the upload   *)
(* without a head.                                                         *)
LEMMA RecvZoneConfigDurable ==
  ASSUME Sound, Durable, NEW answered \in BOOLEAN, RecvZoneConfig(answered)
  PROVE  Durable'
<1> DEFINE c == server.confid
           k == server.next
           cur == zonetmp.pkgcurnum
           cal == zonetmp.pkgcal
<1>1. server \in Servers /\ c \in Conf /\ k \in 1 .. Packets(c) /\ k \in Nat
  <2>1. server \in Servers /\ c \in Conf /\ k \in Nat \ {0} /\ k <= Packets(c)
    BY DEF RecvZoneConfig, Sound, Typed, Servers
  <2>2. Packets(c) \in Nat
    BY <2>1, ConfigAssumption DEF Packets
  <2> QED
    BY <2>1, <2>2
<1>2. cur \in Nat /\ cal \in Nat
  BY DEF Sound, Typed, Stages
<1>3. TakePacket(c, k) /\ Typed
  BY DEF RecvZoneConfig, Sound
<1>4. CASE zoneConfig' = NoConfig
  BY <1>4 DEF Durable
<1>5. CASE zoneConfig' # NoConfig
  <2>1. /\ pc = "loop" /\ waiting = FALSE
        /\ Accepted /\ zoneConfig = Stored /\ Headless
        /\ zoneConfig' = zoneConfig
    BY <1>1, <1>3, <1>5, TakePacketIs DEF Durable
  <2>2. online = c \/ ~Restarts(k)
    BY <1>1, <1>3, <1>5, TakePacketIs
  <2>3. Accepted' /\ Stored' = Stored /\ pc' = "loop" /\ online' = online
    BY <2>1, PagesKept DEF RecvZoneConfig
  <2>4. server'.confid = c /\ server'.next \in {k, k + 1}
    BY <1>1 DEF RecvZoneConfig, Servers
  <2>5. cur # 1 /\ (cal = 0 \/ cal < cur)
    BY <2>1 DEF Headless
  <2>6. CASE online = c
    <3>1. zonetmp'.pkgcurnum = cur /\ zonetmp'.pkgcal = cal /\ waiting' = FALSE
      BY <1>1, <1>3, <2>1, <2>6, TakePacketIs
    <3>2. Headless'
      BY <2>3, <2>4, <2>5, <2>6, <3>1 DEF Headless
    <3> QED
      BY <2>1, <2>3, <3>1, <3>2 DEF Durable
  <2>7. CASE online # c /\ k = cur
    <3>1. zonetmp'.pkgcurnum = cur /\ zonetmp'.pkgcal = cal /\ waiting' = FALSE
      BY <1>1, <1>3, <2>1, <2>2, <2>7, TakePacketIs
    <3>2. server'.next >= cur
      BY <1>1, <2>4, <2>7
    <3>3. Headless'
      BY <2>5, <3>1, <3>2 DEF Headless
    <3> QED
      BY <2>1, <2>3, <3>1, <3>3 DEF Durable
  <2>8. CASE online # c /\ k # cur
    <3>1. k # 1
      BY <2>2, <2>5, <2>8 DEF Restarts
    <3>2. k > cur /\ k # cal + 1 /\ cal + 1 < k
      BY <1>1, <1>2, <2>1, <2>5, <2>8, <3>1 DEF Headless
    <3>3. /\ zonetmp'.pkgcurnum = k /\ zonetmp'.pkgcal = cal + 1
          /\ waiting' = FALSE
      BY <1>1, <1>3, <2>1, <2>2, <2>8, <3>2, TakePacketIs
    <3>4. server'.next >= k
      BY <1>1, <2>4
    <3>5. Headless'
      BY <3>1, <3>2, <3>3, <3>4 DEF Headless
    <3> QED
      BY <2>1, <2>3, <3>3, <3>5 DEF Durable
  <2> QED
    BY <2>6, <2>7, <2>8
<1> QED
  BY <1>4, <1>5

(* What was read back, or read at the start, is what a start would read.   *)
LEMMA ReadDurable ==
  ASSUME Sound, page' = page, pc' = "loop", waiting' = FALSE,
         zonetmp'.pkgcurnum = 0, zonetmp'.pkgcal = 0, server' = server,
         zoneConfig' = IF Accepted THEN Stored ELSE NoConfig
  PROVE  Durable'
<1>1. server.next >= 0
  BY DEF Sound, Typed, Servers
<1>2. Headless'
  BY <1>1 DEF Headless
<1> QED
  BY <1>2, PagesKept DEF Durable

LEMMA NextDurable == Sound /\ Durable /\ [Next]_vars => Durable'
<1> SUFFICES ASSUME Sound, Durable, [Next]_vars PROVE Durable'
  OBVIOUS
<1>1. CASE \E c \in Conf : BeginUpload(c)
  <2>1. /\ page' = page /\ zoneConfig' = zoneConfig /\ pc' = pc
        /\ waiting' = waiting /\ zonetmp' = zonetmp /\ server'.next = 1
    BY <1>1 DEF BeginUpload
  <2> QED
    BY <2>1, PagesKept DEF Durable, Headless
<1>2. CASE \E answered \in BOOLEAN : RecvZoneConfig(answered)
  BY <1>2, RecvZoneConfigDurable
<1>3. CASE FlashUpload \/ ErasePage \/ EraseFails \/ ProgramPage \/ PageDone
  <2>1. pc # "loop" \/ waiting
    BY <1>3 DEF FlashUpload, ErasePage, EraseFails, ProgramPage, PageDone
  <2>2. zoneConfig' = zoneConfig
    BY <1>3 DEF FlashUpload, ErasePage, EraseFails, ProgramPage, PageDone
  <2> QED
    BY <2>1, <2>2 DEF Durable
<1>4. CASE ReadBack
  <2>1. zoneConfig = NoConfig
    BY <1>4 DEF ReadBack, Durable
  <2>2. zonetmp'.pkgcurnum = 0 /\ zonetmp'.pkgcal = 0
    BY <1>4 DEF ReadBack, Sound, Typed, Stages
  <2> QED
    BY <1>4, <2>1, <2>2, ReadDurable DEF ReadBack, Stored
<1>5. CASE Reset
  <2>1. zonetmp'.pkgcurnum = 0 /\ zonetmp'.pkgcal = 0
    BY <1>5 DEF Reset, Empty
  <2> QED
    BY <1>5, <2>1, ReadDurable DEF Reset, Stored
<1>6. CASE UNCHANGED vars
  <2>1. /\ page' = page /\ zoneConfig' = zoneConfig /\ pc' = pc
        /\ waiting' = waiting /\ zonetmp' = zonetmp /\ server' = server
        /\ online' = online
    BY <1>6 DEF vars
  <2> QED
    BY <2>1, PagesKept DEF Durable, Headless
<1> QED
  BY <1>1, <1>2, <1>3, <1>4, <1>5, <1>6 DEF Next

(* A configuration in force is the one a start would read: it survives a   *)
(* reset at any moment but while another is being written.                 *)
THEOREM DurableInForce == Spec => InForceDurable
<1>1. Init => Sound /\ Durable
  BY InitSound DEF Init, Durable
<1>2. Sound /\ Durable /\ [Next]_vars => Sound' /\ Durable'
  BY NextSound, NextDurable
<1>3. Sound /\ Durable /\ [Next]_vars =>
        [Reset /\ pc = "loop" /\ zoneConfig.confid # 0
           => zoneConfig' = zoneConfig]_vars
  <2> SUFFICES ASSUME Durable, Reset, zoneConfig.confid # 0
               PROVE  zoneConfig' = zoneConfig
    OBVIOUS
  <2>1. Accepted /\ zoneConfig = Stored
    BY NoConfigIs DEF Durable
  <2> QED
    BY <2>1 DEF Reset, Stored
<1> QED
  BY <1>1, <1>2, <1>3, PTL DEF Spec, InForceDurable

-----------------------------------------------------------------------------
(* What is received, while no packet was taken for one of another          *)
(* configuration.                                                          *)

(* A writing is due or under way.                                          *)
Busy == waiting \/ pc # "loop"

(* The nodes received, from the first on, are the first n zones of c.      *)
Prefix(c, n) ==
  \A i \in Place : i < n => zonetmp.zoneNode[i] = <<c, i + 1>>

(* All nodes received are zones of c.                                      *)
OnlyOf(c) ==
  \A i \in Place : i < zonetmp.zonetotalnum => zonetmp.zoneNode[i] \in Whole(c)

(* The first j packets of c were taken in order, and none twice.           *)
Taking(c, j) ==
  /\ j < Packets(c)
  /\ zonetmp.pkgcurnum = j /\ zonetmp.pkgcal = j
  /\ zonetmp.zonetotalnum = Sent(c, j)
  /\ Prefix(c, Sent(c, j))

(* All packets of c were taken, or all and then the last one again.        *)
Taken(c) ==
  \/ /\ zonetmp.pkgcurnum = 0 /\ zonetmp.pkgcal = 0
     /\ zonetmp.zonetotalnum = Total(c)
  \/ /\ zonetmp.pkgcurnum = Packets(c) /\ zonetmp.pkgcal = 1
     /\ Packets(c) > 1
     /\ zonetmp.zonetotalnum
          = Total(c) + (Total(c) - Sent(c, Packets(c) - 1))

(* The server begins anew, or sends packet k of c again or the one after.  *)
Sends(c, k) ==
  \/ server.next = 1
  \/ server.confid = c /\ server.next \in {k, k + 1}

(* What is to be written is one configuration, all of it.                  *)
Full ==
  \E c \in Conf :
    /\ zonetmp.confid = c /\ online # c
    /\ Prefix(c, Total(c)) /\ OnlyOf(c)
    /\ \/ \E j \in 1 .. Packets(c) : Taking(c, j) /\ Sends(c, j)
       \/ Taken(c) /\ Sends(c, Packets(c))

(* The zones the server has yet to send for c when packet k is the next,   *)
(* and packet cur the last one taken.                                      *)
Left(c, k, cur) == Total(c) - Sent(c, IF k = cur THEN k ELSE k - 1)

(* No first packet was taken: what comes is not complete, and fits.        *)
Loose ==
  /\ zonetmp.pkgcurnum # 1
  /\ zonetmp.pkgcal = 0 \/ zonetmp.pkgcal < zonetmp.pkgcurnum
  /\ zonetmp.zonetotalnum <= N
  /\ \/ server.next = 1
     \/ server.confid = online
     \/ /\ server.next >= zonetmp.pkgcurnum
        /\ zonetmp.zonetotalnum
             + Left(server.confid, server.next, zonetmp.pkgcurnum) <= N

Partial ==
  \/ Loose
  \/ \E c \in Conf : \E j \in 1 .. Packets(c) :
       Taking(c, j) /\ (server.confid = online \/ Sends(c, j))

(* The packets the server sends are those of its configuration.            *)
Serves ==
  \/ server.next = 1
  \/ server.confid \in Conf /\ server.next \in 2 .. Packets(server.confid) + 1

Staged ==
  /\ Serves
  /\ \/ mistaken
     \/ Busy /\ Full
     \/ ~Busy /\ Partial

(* How many zones the packets of a configuration hold.                     *)
LEMMA SentIs ==
  ASSUME NEW c \in Conf
  PROVE  /\ Packets(c) \in Nat /\ Packets(c) > 0
         /\ Sent(c, 0) = 0 /\ Sent(c, Packets(c)) = Total(c)
         /\ Total(c) \in Nat /\ 0 < Total(c) /\ Total(c) <= N
         /\ \A k \in 0 .. Packets(c) :
              Sent(c, k) \in Nat /\ Sent(c, k) <= Total(c)
         /\ \A k \in 1 .. Packets(c) :
              /\ Sent(c, k) = Cut[c][k]
              /\ Sent(c, k - 1) < Sent(c, k)
         /\ \A k \in 2 .. Packets(c) :
              Total(c) + 2 * (Sent(c, k) - Sent(c, k - 1)) <= N
<1>1. /\ Cut[c] \in Seq(Nat \ {0}) /\ Packets(c) > 0
      /\ \A j, l \in DOMAIN Cut[c] : j < l => Cut[c][j] < Cut[c][l]
      /\ Total(c) <= N
  BY ConfigAssumption
<1>2. /\ Packets(c) \in Nat /\ DOMAIN Cut[c] = 1 .. Packets(c)
      /\ \A j \in 1 .. Packets(c) : Cut[c][j] \in Nat /\ Cut[c][j] > 0
  BY <1>1 DEF Packets
<1>3. \A k \in 1 .. Packets(c) : Sent(c, k) = Cut[c][k]
  BY <1>2 DEF Sent
<1>4. Sent(c, 0) = 0
  BY DEF Sent
<1>5. Packets(c) \in 1 .. Packets(c) /\ Sent(c, Packets(c)) = Total(c)
  BY <1>1, <1>2, <1>3 DEF Total
<1>6. \A k \in 1 .. Packets(c) : Sent(c, k) \in Nat /\ Sent(c, k) > 0
  BY <1>2, <1>3
<1>7. \A k \in 1 .. Packets(c) : Sent(c, k) <= Total(c)
  <2>1. ASSUME NEW k \in 1 .. Packets(c) PROVE Sent(c, k) <= Total(c)
    <3>1. CASE k = Packets(c)
      BY <1>5, <1>6, <3>1
    <3>2. CASE k # Packets(c)
      <4>1. k < Packets(c) /\ k \in DOMAIN Cut[c]
        BY <1>2, <3>2
      <4>2. Packets(c) \in DOMAIN Cut[c]
        BY <1>2, <1>5
      <4>3. Cut[c][k] < Cut[c][Packets(c)]
        BY <1>1, <4>1, <4>2
      <4> QED
        BY <1>3, <1>5, <1>6, <4>3
    <3> QED
      BY <3>1, <3>2
  <2> QED
    BY <2>1
<1>8. \A k \in 1 .. Packets(c) : Sent(c, k - 1) < Sent(c, k)
  <2>1. ASSUME NEW k \in 1 .. Packets(c) PROVE Sent(c, k - 1) < Sent(c, k)
    <3>1. CASE k = 1
      BY <1>4, <1>6, <3>1
    <3>2. CASE k # 1
      <4>1. k - 1 \in 1 .. Packets(c) /\ k - 1 < k
        BY <1>2, <3>2
      <4> QED
        BY <1>1, <1>2, <1>3, <4>1
    <3> QED
      BY <3>1, <3>2
  <2> QED
    BY <2>1
<1>9. \A k \in 2 .. Packets(c) :
        Total(c) + 2 * (Sent(c, k) - Sent(c, k - 1)) <= N
  <2>1. ASSUME NEW k \in 2 .. Packets(c)
        PROVE  Total(c) + 2 * (Sent(c, k) - Sent(c, k - 1)) <= N
    <3>1. k \in DOMAIN Cut[c] \ {1} /\ k - 1 \in 1 .. Packets(c)
      BY <1>2
    <3>2. Total(c) + 2 * (Cut[c][k] - Cut[c][k - 1]) <= N
      BY <3>1, RoomAssumption
    <3> QED
      BY <1>2, <1>3, <3>1, <3>2
  <2> QED
    BY <2>1
<1>10. \A k \in 0 .. Packets(c) : Sent(c, k) \in Nat /\ Sent(c, k) <= Total(c)
  <2>1. \A k \in 0 .. Packets(c) : k = 0 \/ k \in 1 .. Packets(c)
    BY <1>2
  <2>2. Total(c) \in Nat
    BY <1>5, <1>6
  <2> QED
    BY <1>4, <1>6, <1>7, <2>1, <2>2
<1>11. Total(c) \in Nat /\ 0 < Total(c)
  BY <1>5, <1>6
<1> QED
  BY <1>1, <1>2, <1>3, <1>4, <1>5, <1>8, <1>9, <1>10, <1>11

(* Packet k of c is not taken: it is announced already, or was the last.   *)
Ignores(c, k) == online = c \/ (~Restarts(k) /\ k = zonetmp.pkgcurnum)

(* Where packet k begins, as which it counts, and whether it completes.    *)
Base(k)     == IF Restarts(k) THEN 0 ELSE zonetmp.zonetotalnum
Count(k)    == IF Restarts(k) THEN 1 ELSE zonetmp.pkgcal + 1
Fills(c, k) == k = Packets(c) /\ Count(k) = Packets(c)

(* Packet k of c was put in at base.                                       *)
PutIn(c, k, base) ==
  /\ zonetmp'.zonetotalnum = base + (Sent(c, k) - Sent(c, k - 1))
  /\ \A i \in Place :
       zonetmp'.zoneNode[i] =
         IF base <= i /\ i < zonetmp'.zonetotalnum
         THEN <<c, Sent(c, k - 1) + (i - base) + 1>>
         ELSE zonetmp.zoneNode[i]

(* A packet that is not taken changes nothing but the identifier.          *)
LEMMA PacketIgnored ==
  ASSUME Typed, NEW c \in Conf, NEW k \in 1 .. Packets(c), TakePacket(c, k),
         Ignores(c, k)
  PROVE  /\ zonetmp'.confid = c
         /\ zonetmp'.pkgcurnum = zonetmp.pkgcurnum
         /\ zonetmp'.pkgcal = zonetmp.pkgcal
         /\ zonetmp'.zonetotalnum = zonetmp.zonetotalnum
         /\ zonetmp'.zoneNode = zonetmp.zoneNode
         /\ waiting' = waiting
<1> DEFINE t0 == [zonetmp EXCEPT !.confid = c, !.pkgtotalnum = Packets(c)]
           t1 == IF Restarts(k)
                 THEN [t0 EXCEPT !.zonetotalnum = 0, !.pkgcal = 0,
                                 !.pkgcurnum = 0]
                 ELSE t0
           t2 == [t1 EXCEPT !.pkgcurnum = k, !.pkgcal = t1.pkgcal + 1]
           t3 == IF Complete(t2) THEN [t2 EXCEPT !.pkgcal = 0, !.pkgcurnum = 0]
                 ELSE t2
<1>1. /\ zonetmp' = IF online = c THEN t0
                    ELSE IF Repeats(t1, k) THEN t1 ELSE Appended(t3, c, k)
      /\ waiting' = (waiting \/ (online # c /\ ~Repeats(t1, k) /\ Complete(t2)))
  BY DEF TakePacket
<1>2. /\ t0.confid = c /\ t0.pkgcurnum = zonetmp.pkgcurnum
      /\ t0.pkgcal = zonetmp.pkgcal /\ t0.zonetotalnum = zonetmp.zonetotalnum
      /\ t0.zoneNode = zonetmp.zoneNode
  BY DEF Typed, Stages
<1> HIDE DEF t0
<1>3. online # c => t1 = t0 /\ Repeats(t1, k)
  BY <1>2 DEF Ignores, Repeats
<1> HIDE DEF t1, t2, t3
<1>4. zonetmp' = t0
  BY <1>1, <1>3
<1>5. waiting' = waiting
  <2>1. waiting \in BOOLEAN
    BY DEF Typed
  <2> QED
    BY <1>1, <1>3, <2>1, Zenon
<1> QED
  BY <1>2, <1>4, <1>5

(* A packet that is taken is put in and counted, and the last of all       *)
(* starts the second before the writing.                                   *)
LEMMA PacketAdded ==
  ASSUME Typed, NEW c \in Conf, NEW k \in 1 .. Packets(c), TakePacket(c, k),
         ~Ignores(c, k)
  PROVE  /\ zonetmp'.confid = c
         /\ PutIn(c, k, Base(k))
         /\ Fills(c, k) => /\ zonetmp'.pkgcurnum = 0 /\ zonetmp'.pkgcal = 0
                           /\ waiting' = TRUE
         /\ ~Fills(c, k) => /\ zonetmp'.pkgcurnum = k
                            /\ zonetmp'.pkgcal = Count(k)
                            /\ waiting' = waiting
<1> DEFINE t0 == [zonetmp EXCEPT !.confid = c, !.pkgtotalnum = Packets(c)]
           t1 == IF Restarts(k)
                 THEN [t0 EXCEPT !.zonetotalnum = 0, !.pkgcal = 0,
                                 !.pkgcurnum = 0]
                 ELSE t0
           t2 == [t1 EXCEPT !.pkgcurnum = k, !.pkgcal = t1.pkgcal + 1]
           t3 == IF Complete(t2) THEN [t2 EXCEPT !.pkgcal = 0, !.pkgcurnum = 0]
                 ELSE t2
<1>1. /\ zonetmp' = IF online = c THEN t0
                    ELSE IF Repeats(t1, k) THEN t1 ELSE Appended(t3, c, k)
      /\ waiting' = (waiting \/ (online # c /\ ~Repeats(t1, k) /\ Complete(t2)))
  BY DEF TakePacket
<1>2. /\ t0 \in Stages /\ t0.confid = c /\ t0.pkgtotalnum = Packets(c)
      /\ t0.pkgcurnum = zonetmp.pkgcurnum /\ t0.pkgcal = zonetmp.pkgcal
      /\ t0.zonetotalnum = zonetmp.zonetotalnum
      /\ t0.zoneNode = zonetmp.zoneNode
  BY SentIs DEF Typed, Stages
<1> HIDE DEF t0
<1>3. /\ t1 \in Stages /\ t1.confid = c /\ t1.pkgtotalnum = Packets(c)
      /\ t1.zonetotalnum = Base(k) /\ t1.pkgcal + 1 = Count(k)
      /\ t1.zoneNode = zonetmp.zoneNode
      /\ t1.pkgcurnum = IF Restarts(k) THEN 0 ELSE zonetmp.pkgcurnum
  <2>1. CASE Restarts(k)
    <3>1. Base(k) = 0 /\ Count(k) = 1
      BY <2>1 DEF Base, Count
    <3>2. t1 = [t0 EXCEPT !.zonetotalnum = 0, !.pkgcal = 0, !.pkgcurnum = 0]
      BY <2>1
    <3> HIDE DEF t1
    <3>3. /\ t1 \in Stages /\ t1.confid = c /\ t1.pkgtotalnum = Packets(c)
          /\ t1.zonetotalnum = 0 /\ t1.pkgcal = 0 /\ t1.pkgcurnum = 0
          /\ t1.zoneNode = t0.zoneNode
      BY <1>2, <3>2 DEF Stages
    <3>4. t1.pkgcal + 1 = 1
      BY <3>3
    <3> QED
      BY <1>2, <2>1, <3>1, <3>3, <3>4
  <2>2. CASE ~Restarts(k)
    <3>1. /\ Base(k) = zonetmp.zonetotalnum
          /\ Count(k) = zonetmp.pkgcal + 1
      BY <2>2 DEF Base, Count
    <3>2. t1 = t0
      BY <2>2
    <3> HIDE DEF t1
    <3> QED
      BY <1>2, <2>2, <3>1, <3>2
  <2> QED
    BY <2>1, <2>2
<1> HIDE DEF t1
<1>4. ~Repeats(t1, k) /\ online # c
  BY <1>3 DEF Ignores, Repeats
<1>5. Count(k) \in Nat /\ k \in Nat
  BY <1>3, SentIs DEF Stages
<1>6. t2 = [t1 EXCEPT !.pkgcurnum = k, !.pkgcal = Count(k)]
  BY <1>3
<1> HIDE DEF t2
<1>7. /\ t2 \in Stages /\ t2.confid = c /\ t2.pkgtotalnum = Packets(c)
      /\ t2.pkgcurnum = k /\ t2.pkgcal = Count(k)
      /\ t2.zonetotalnum = Base(k) /\ t2.zoneNode = zonetmp.zoneNode
  BY <1>3, <1>5, <1>6 DEF Stages
<1>8. Complete(t2) <=> Fills(c, k)
  BY <1>7 DEF Complete, Fills
<1>9. /\ t3 \in Stages /\ t3.confid = c
      /\ t3.pkgcurnum = IF Fills(c, k) THEN 0 ELSE k
      /\ t3.pkgcal = IF Fills(c, k) THEN 0 ELSE Count(k)
      /\ t3.zonetotalnum = Base(k) /\ t3.zoneNode = zonetmp.zoneNode
  BY <1>7, <1>8 DEF Stages
<1> HIDE DEF t3
<1>10. zonetmp' = Appended(t3, c, k)
  BY <1>1, <1>4
<1> DEFINE size == Cut[c][k] - Sent(c, k - 1)
           last == t3.zonetotalnum + size
           nodes == [i \in Place |->
                       IF t3.zonetotalnum <= i /\ i < last
                       THEN <<c, Sent(c, k - 1) + (i - t3.zonetotalnum) + 1>>
                       ELSE t3.zoneNode[i]]
<1>11. zonetmp' = [t3 EXCEPT !.zonetotalnum = last, !.zoneNode = nodes]
  BY <1>10 DEF Appended
<1>12. /\ zonetmp'.zonetotalnum = last /\ zonetmp'.zoneNode = nodes
       /\ zonetmp'.confid = c
       /\ zonetmp'.pkgcurnum = t3.pkgcurnum /\ zonetmp'.pkgcal = t3.pkgcal
  <2> HIDE DEF last, nodes
  <2> QED
    BY <1>9, <1>11 DEF Stages
<1>13. Sent(c, k) = Cut[c][k]
  BY SentIs
<1>14. PutIn(c, k, Base(k))
  BY <1>9, <1>12, <1>13 DEF PutIn
<1>15. /\ Fills(c, k) => waiting' = TRUE
       /\ ~Fills(c, k) => waiting' = waiting
  <2>1. waiting \in BOOLEAN
    BY DEF Typed
  <2> QED
    BY <1>1, <1>4, <1>8, <2>1, Zenon
<1> HIDE DEF last, nodes
<1> QED
  BY <1>9, <1>12, <1>14, <1>15

(* A packet put in where it belongs in its configuration, or behind all of *)
(* it, leaves the zones of the configuration in their places.              *)
LEMMA ContentKept ==
  ASSUME NEW c \in Conf, NEW k \in 1 .. Packets(c), NEW base \in Nat,
         PutIn(c, k, base), Prefix(c, Total(c)), OnlyOf(c),
         base = Sent(c, k - 1) \/ base >= Total(c),
         base = 0 \/ base = zonetmp.zonetotalnum
  PROVE  Prefix(c, Total(c))' /\ OnlyOf(c)'
<1> DEFINE from == Sent(c, k - 1)
           upto == Sent(c, k)
           all  == Total(c)
<1>1. /\ from \in Nat /\ upto \in Nat /\ all \in Nat
      /\ from < upto /\ upto <= all
  <2>1. k \in 0 .. Packets(c) /\ k - 1 \in 0 .. Packets(c)
    BY SentIs
  <2> QED
    BY <2>1, SentIs
<1>2. zonetmp'.zonetotalnum = base + (upto - from)
  BY DEF PutIn
<1>3. Whole(c) = {<<c, n>> : n \in 1 .. all}
  BY DEF Whole
<1>4. Whole(c)' = Whole(c) /\ Total(c)' = Total(c)
  BY DEF Whole, Total, Packets
<1>5. ASSUME NEW i \in Place
      PROVE  /\ i < all => zonetmp'.zoneNode[i] = <<c, i + 1>>
             /\ i < zonetmp'.zonetotalnum => zonetmp'.zoneNode[i] \in Whole(c)
  <2>1. i \in Nat
    BY Numbered DEF Place
  <2>2. CASE base <= i /\ i < zonetmp'.zonetotalnum
    <3>1. zonetmp'.zoneNode[i] = <<c, from + (i - base) + 1>>
      BY <2>2 DEF PutIn
    <3>2. from + (i - base) + 1 \in 1 .. all
      <4> HIDE DEF from, upto, all
      <4> QED
        BY <1>1, <1>2, <2>1, <2>2
    <3>3. i < all => from + (i - base) = i
      <4>1. base = from \/ base >= all
        OBVIOUS
      <4> HIDE DEF from, upto, all
      <4> QED
        BY <1>1, <2>1, <2>2, <4>1
    <3>4. from + (i - base) + 1 = (from + (i - base)) + 1
      OBVIOUS
    <3> HIDE DEF from, upto, all
    <3> QED
      BY <1>3, <3>1, <3>2, <3>3
  <2>3. CASE ~(base <= i /\ i < zonetmp'.zonetotalnum)
    <3>1. zonetmp'.zoneNode[i] = zonetmp.zoneNode[i]
      BY <2>3 DEF PutIn
    <3>2. i < all => zonetmp.zoneNode[i] = <<c, i + 1>>
      BY DEF Prefix
    <3>3. i < zonetmp'.zonetotalnum => i < base
      BY <2>1, <2>3
    <3>4. i < base => zonetmp.zoneNode[i] \in Whole(c)
      BY <2>1 DEF OnlyOf
    <3> QED
      BY <3>1, <3>2, <3>3, <3>4
  <2> QED
    BY <2>2, <2>3
<1> QED
  BY <1>4, <1>5 DEF Prefix, OnlyOf

(* The next packet put in behind those before it makes the prefix longer.  *)
LEMMA PrefixGrows ==
  ASSUME NEW c \in Conf, NEW k \in 1 .. Packets(c), NEW base \in Nat,
         PutIn(c, k, base), base = Sent(c, k - 1), Prefix(c, base)
  PROVE  /\ zonetmp'.zonetotalnum = Sent(c, k)
         /\ Prefix(c, Sent(c, k))' /\ OnlyOf(c)'
<1> DEFINE upto == Sent(c, k)
           all  == Total(c)
<1>1. upto \in Nat /\ all \in Nat /\ base < upto /\ upto <= all
  <2>1. k \in 0 .. Packets(c)
    BY SentIs
  <2> QED
    BY <2>1, SentIs
<1>2. zonetmp'.zonetotalnum = upto
  <2>1. zonetmp'.zonetotalnum = base + (upto - base)
    BY DEF PutIn
  <2> HIDE DEF upto
  <2> QED
    BY <1>1, <2>1
<1>3. Whole(c)' = {<<c, n>> : n \in 1 .. all}
  BY DEF Whole, Total, Packets
<1>4. Sent(c, k)' = Sent(c, k)
  BY DEF Sent
<1>5. ASSUME NEW i \in Place, i < upto
      PROVE  /\ zonetmp'.zoneNode[i] = <<c, i + 1>>
             /\ zonetmp'.zoneNode[i] \in Whole(c)'
  <2>1. i \in Nat
    BY Numbered DEF Place
  <2>2. zonetmp'.zoneNode[i] = <<c, i + 1>>
    <3>1. CASE base <= i
      <4>1. zonetmp'.zoneNode[i] = <<c, base + (i - base) + 1>>
        BY <1>2, <1>5, <3>1 DEF PutIn
      <4>2. base + (i - base) + 1 = i + 1
        BY <2>1
      <4> QED
        BY <4>1, <4>2
    <3>2. CASE ~(base <= i)
      <4>1. zonetmp'.zoneNode[i] = zonetmp.zoneNode[i]
        BY <3>2 DEF PutIn
      <4>2. i < base
        BY <2>1, <3>2
      <4> QED
        BY <4>1, <4>2 DEF Prefix
    <3> QED
      BY <3>1, <3>2
  <2>3. i + 1 \in 1 .. all
    <3> HIDE DEF upto, all
    <3> QED
      BY <1>1, <1>5, <2>1
  <2> HIDE DEF all
  <2> QED
    BY <1>3, <2>2, <2>3
<1>6. Prefix(c, Sent(c, k))'
  BY <1>4, <1>5 DEF Prefix
<1>7. OnlyOf(c)'
  BY <1>2, <1>5 DEF OnlyOf
<1> QED
  BY <1>2, <1>6, <1>7

(* The first packet starts afresh ...                                      *)
LEMMA FirstTaken ==
  ASSUME Typed, NEW c \in Conf, TakePacket(c, 1), online # c, Restarts(1)
  PROVE  /\ zonetmp'.confid = c
         /\ PutIn(c, 1, 0)
         /\ Packets(c) = 1 => /\ waiting' = TRUE /\ Taken(c)'
                              /\ Prefix(c, Total(c))' /\ OnlyOf(c)'
         /\ Packets(c) > 1 => Taking(c, 1)' /\ waiting' = waiting
<1>1. /\ Packets(c) \in Nat /\ Packets(c) > 0 /\ 1 \in 1 .. Packets(c)
      /\ Sent(c, 0) = 0 /\ Sent(c, Packets(c)) = Total(c)
  <2>1. Packets(c) \in Nat /\ Packets(c) > 0
    BY SentIs
  <2> QED
    BY <2>1, SentIs
<1>2. ~Ignores(c, 1) /\ Base(1) = 0 /\ Count(1) = 1
  BY DEF Ignores, Base, Count
<1>3. /\ zonetmp'.confid = c /\ PutIn(c, 1, 0)
      /\ Fills(c, 1) => /\ zonetmp'.pkgcurnum = 0 /\ zonetmp'.pkgcal = 0
                        /\ waiting' = TRUE
      /\ ~Fills(c, 1) => /\ zonetmp'.pkgcurnum = 1 /\ zonetmp'.pkgcal = 1
                         /\ waiting' = waiting
  BY <1>1, <1>2, PacketAdded
<1>4. Fills(c, 1) <=> Packets(c) = 1
  BY <1>2 DEF Fills
<1>5. /\ zonetmp'.zonetotalnum = Sent(c, 1)
      /\ Prefix(c, Sent(c, 1))' /\ OnlyOf(c)'
  <2>1. Prefix(c, 0) /\ 0 = Sent(c, 1 - 1)
    BY <1>1, Numbered DEF Prefix, Place
  <2> QED
    BY <1>1, <1>3, <2>1, PrefixGrows
<1>6. /\ Total(c)' = Total(c) /\ Packets(c)' = Packets(c)
      /\ Sent(c, 1)' = Sent(c, 1)
  BY DEF Total, Packets, Sent
<1>7. CASE Packets(c) = 1
  <2>1. Sent(c, 1) = Total(c) /\ Sent(c, 1)' = Total(c)'
    BY <1>1, <1>6, <1>7
  <2>2. Prefix(c, Total(c))'
    BY <1>5, <2>1 DEF Prefix
  <2>3. Taken(c)'
    BY <1>3, <1>4, <1>5, <1>6, <1>7, <2>1 DEF Taken
  <2> QED
    BY <1>3, <1>4, <1>5, <1>7, <2>2, <2>3
<1>8. CASE Packets(c) > 1
  <2>1. Taking(c, 1)'
    BY <1>3, <1>4, <1>5, <1>6, <1>8 DEF Taking
  <2> QED
    BY <1>3, <1>4, <1>8, <2>1
<1>9. \/ Packets(c) = 1 /\ ~(Packets(c) > 1)
      \/ Packets(c) > 1 /\ Packets(c) # 1
  BY <1>1
<1> QED
  BY <1>3, <1>7, <1>8, <1>9, Zenon

(* ... and the one after the last taken continues.                         *)
LEMMA NextTaken ==
  ASSUME Typed, NEW c \in Conf, NEW j \in 1 .. Packets(c), Taking(c, j),
         TakePacket(c, j + 1), online # c
  PROVE  /\ zonetmp'.confid = c
         /\ PutIn(c, j + 1, Sent(c, j))
         /\ Packets(c) = j + 1 => /\ waiting' = TRUE /\ Taken(c)'
                                  /\ Prefix(c, Total(c))' /\ OnlyOf(c)'
         /\ Packets(c) > j + 1 => Taking(c, j + 1)' /\ waiting' = waiting
<1> DEFINE k == j + 1
<1>1. /\ Packets(c) \in Nat /\ j \in Nat /\ j < Packets(c) /\ j > 0
      /\ k \in 1 .. Packets(c) /\ k # 1 /\ k - 1 = j /\ k # j /\ k > 1
      /\ Sent(c, j) \in Nat /\ Sent(c, Packets(c)) = Total(c)
  <2>1. Packets(c) \in Nat /\ j < Packets(c)
    BY SentIs DEF Taking
  <2>2. j \in 0 .. Packets(c)
    BY <2>1
  <2> QED
    BY <2>1, <2>2, SentIs
<1>2. zonetmp.pkgcurnum = j /\ zonetmp.pkgcal = j
      /\ zonetmp.zonetotalnum = Sent(c, j) /\ Prefix(c, Sent(c, j))
  BY DEF Taking
<1> HIDE DEF k
<1>3. TakePacket(c, k)
  BY DEF k
<1>4. ~Restarts(k)
  BY <1>1 DEF Restarts
<1>5. ~Ignores(c, k) /\ Base(k) = Sent(c, j) /\ Count(k) = k
  <2>1. zonetmp.pkgcal + 1 = k
    BY <1>2 DEF k
  <2> QED
    BY <1>1, <1>2, <1>4, <2>1 DEF Ignores, Base, Count
<1>6. /\ zonetmp'.confid = c /\ PutIn(c, k, Sent(c, j))
      /\ Fills(c, k) => /\ zonetmp'.pkgcurnum = 0 /\ zonetmp'.pkgcal = 0
                        /\ waiting' = TRUE
      /\ ~Fills(c, k) => /\ zonetmp'.pkgcurnum = k /\ zonetmp'.pkgcal = k
                         /\ waiting' = waiting
  BY <1>1, <1>3, <1>5, PacketAdded
<1>7. Fills(c, k) <=> Packets(c) = k
  BY <1>5 DEF Fills
<1>8. /\ zonetmp'.zonetotalnum = Sent(c, k)
      /\ Prefix(c, Sent(c, k))' /\ OnlyOf(c)'
  BY <1>1, <1>2, <1>6, PrefixGrows
<1>9. /\ Total(c)' = Total(c) /\ Packets(c)' = Packets(c)
      /\ Sent(c, k)' = Sent(c, k)
  BY DEF Total, Packets, Sent, k
<1>10. ASSUME Packets(c) = k
       PROVE  waiting' = TRUE /\ Taken(c)' /\ Prefix(c, Total(c))' /\ OnlyOf(c)'
  <2>1. Sent(c, k) = Total(c) /\ Sent(c, k)' = Total(c)'
    BY <1>1, <1>9, <1>10
  <2>2. Prefix(c, Total(c))'
    BY <1>8, <2>1 DEF Prefix
  <2>3. Taken(c)'
    BY <1>6, <1>7, <1>8, <1>9, <1>10, <2>1 DEF Taken
  <2> QED
    BY <1>6, <1>7, <1>8, <1>10, <2>2, <2>3
<1>11. ASSUME Packets(c) > k
       PROVE  Taking(c, k)' /\ waiting' = waiting
  <2>1. Taking(c, k)'
    BY <1>1, <1>6, <1>7, <1>8, <1>9, <1>11 DEF Taking
  <2> QED
    BY <1>1, <1>6, <1>7, <1>11, <2>1
<1> QED
  BY <1>6, <1>10, <1>11, Zenon DEF k

(* While the nodes and the numbers stay, so does what was taken.           *)
LEMMA StageKept ==
  ASSUME zonetmp'.pkgcurnum = zonetmp.pkgcurnum,
         zonetmp'.pkgcal = zonetmp.pkgcal,
         zonetmp'.zonetotalnum = zonetmp.zonetotalnum,
         zonetmp'.zoneNode = zonetmp.zoneNode,
         NEW c \in Conf
  PROVE  /\ \A j \in Nat : Taking(c, j) => Taking(c, j)'
         /\ Taken(c) => Taken(c)'
         /\ Prefix(c, Total(c)) => Prefix(c, Total(c))'
         /\ OnlyOf(c) => OnlyOf(c)'
<1>1. /\ Total(c)' = Total(c) /\ Packets(c)' = Packets(c)
      /\ Whole(c)' = Whole(c)
      /\ Sent(c, Packets(c) - 1)' = Sent(c, Packets(c) - 1)
  BY DEF Total, Packets, Whole, Sent
<1>2. ASSUME NEW j \in Nat, Taking(c, j) PROVE Taking(c, j)'
  <2>1. Sent(c, j)' = Sent(c, j)
    BY DEF Sent
  <2> QED
    BY <1>1, <1>2, <2>1 DEF Taking, Prefix
<1>3. Taken(c) => Taken(c)'
  BY <1>1 DEF Taken
<1>4. Prefix(c, Total(c)) => Prefix(c, Total(c))'
  BY <1>1 DEF Prefix
<1>5. OnlyOf(c) => OnlyOf(c)'
  BY <1>1 DEF OnlyOf
<1> QED
  BY <1>2, <1>3, <1>4, <1>5

(* The packet received, and what the server sends next.                    *)
LEMMA Received ==
  ASSUME Sound, NEW answered \in BOOLEAN, RecvZoneConfig(answered)
  PROVE  /\ server.confid \in Conf
         /\ server.next \in 1 .. Packets(server.confid)
         /\ server.next \in Nat /\ server.next > 0
         /\ TakePacket(server.confid, server.next)
         /\ server'.confid = server.confid
         /\ server'.next \in {server.next, server.next + 1}
         /\ pc = "loop" /\ pc' = "loop" /\ online' = online
<1>1. /\ server \in Servers /\ server.confid \in Conf
      /\ server.next \in Nat \ {0}
      /\ server.next <= Packets(server.confid)
  BY DEF RecvZoneConfig, Sound, Typed, Servers
<1>2. Packets(server.confid) \in Nat
  BY <1>1, SentIs
<1>3. /\ server'.confid = server.confid
      /\ server'.next \in {server.next, server.next + 1}
  BY <1>1 DEF RecvZoneConfig, Servers
<1> QED
  BY <1>1, <1>2, <1>3 DEF RecvZoneConfig

(* A packet that comes while a configuration waits to be written is one of *)
(* it, if it is not taken for one, and leaves all of it in place.          *)
LEMMA FullRecv ==
  ASSUME Sound, waiting, Full, ~mistaken',
         NEW answered \in BOOLEAN, RecvZoneConfig(answered)
  PROVE  waiting' = TRUE /\ Full'
<1>1. PICK c \in Conf :
        /\ zonetmp.confid = c /\ online # c
        /\ Prefix(c, Total(c)) /\ OnlyOf(c)
        /\ \/ \E j \in 1 .. Packets(c) : Taking(c, j) /\ Sends(c, j)
           \/ Taken(c) /\ Sends(c, Packets(c))
  BY DEF Full
<1> DEFINE P == Packets(c)
<1>2. /\ P \in Nat /\ P > 0 /\ Total(c) \in Nat /\ Total(c) > 0
      /\ Total(c) <= N /\ Sent(c, P) = Total(c) /\ Sent(c, 0) = 0
      /\ \A j \in 1 .. P : Sent(c, j) \in Nat /\ Sent(c, j) > 0
      /\ Sent(c, P - 1) \in Nat /\ Sent(c, P - 1) < Total(c)
  <2>1. /\ P \in Nat /\ P > 0 /\ Total(c) \in Nat /\ Total(c) > 0
        /\ Total(c) <= N /\ Sent(c, P) = Total(c) /\ Sent(c, 0) = 0
        /\ \A j \in 0 .. P : Sent(c, j) \in Nat
        /\ \A j \in 1 .. P : Sent(c, j - 1) < Sent(c, j)
    BY <1>1, SentIs
  <2>2. \A j \in 1 .. P : j \in 0 .. P /\ j - 1 \in 0 .. P
    BY <2>1
  <2>3. P \in 1 .. P
    BY <2>1
  <2> HIDE DEF P
  <2> QED
    BY <2>1, <2>2, <2>3
<1>3. zonetmp.zonetotalnum > 0
  <2>1. CASE \E j \in 1 .. P : Taking(c, j)
    BY <1>2, <2>1 DEF Taking
  <2>2. CASE Taken(c)
    BY <1>2, <2>2 DEF Taken
  <2> QED
    BY <1>1, <2>1, <2>2
<1>4. server.confid = c
  <2>1. 0 \in Place /\ 0 < Total(c)
    BY <1>2, Numbered DEF Place
  <2>2. zonetmp.zoneNode[0] = <<c, 0 + 1>>
    BY <1>1, <2>1 DEF Prefix
  <2>3. zonetmp.zoneNode[0][1] = c
    BY <2>2
  <2>4. ~TakenForOther(server.confid, server.next)
    BY DEF RecvZoneConfig, TakePacket
  <2> QED
    BY <1>3, <2>3, <2>4 DEF TakenForOther
<1>5. PICK k \in 1 .. P : server.next = k
  BY <1>4, Received
<1>6. /\ k \in Nat /\ k > 0 /\ TakePacket(c, k)
      /\ server'.confid = c /\ server'.next \in {k, k + 1}
      /\ online' # c /\ Typed
  BY <1>1, <1>2, <1>4, <1>5, Received DEF Sound
<1>7. /\ Total(c)' = Total(c) /\ Packets(c)' = Packets(c)
      /\ Sent(c, P - 1)' = Sent(c, P - 1)
  BY DEF Total, Packets, Sent
<1>8. Sends(c, k)'
  BY <1>6 DEF Sends
<1>9. ASSUME zonetmp'.confid = c, waiting' = TRUE \/ waiting' = waiting,
             Prefix(c, Total(c))', OnlyOf(c)',
             (\E j \in 1 .. P : Taking(c, j)' /\ Sends(c, j)')
               \/ (Taken(c)' /\ k = P)
      PROVE  waiting' = TRUE /\ Full'
  <2>1. waiting' = TRUE
    BY <1>9 DEF Sound, Typed
  <2>2. (\E j \in 1 .. P : Taking(c, j)' /\ Sends(c, j)')
          \/ (Taken(c)' /\ Sends(c, Packets(c))')
    <3>1. k = P => Sends(c, Packets(c))'
      BY <1>6, <1>7 DEF Sends
    <3> QED
      BY <1>9, <3>1
  <2>3. Full'
    BY <1>6, <1>7, <1>9, <2>2 DEF Full
  <2> QED
    BY <2>1, <2>3
<1>10. ASSUME Ignores(c, k), (Taking(c, k) /\ k < P) \/ (Taken(c) /\ k = P)
       PROVE  waiting' = TRUE /\ Full'
  <2>1. /\ zonetmp'.confid = c
        /\ zonetmp'.pkgcurnum = zonetmp.pkgcurnum
        /\ zonetmp'.pkgcal = zonetmp.pkgcal
        /\ zonetmp'.zonetotalnum = zonetmp.zonetotalnum
        /\ zonetmp'.zoneNode = zonetmp.zoneNode
        /\ waiting' = waiting
    BY <1>6, <1>10, PacketIgnored
  <2>2. /\ Taking(c, k) => Taking(c, k)'
        /\ Taken(c) => Taken(c)'
        /\ Prefix(c, Total(c))' /\ OnlyOf(c)'
    BY <1>1, <1>6, <2>1, StageKept
  <2>3. (\E j \in 1 .. P : Taking(c, j)' /\ Sends(c, j)')
          \/ (Taken(c)' /\ k = P)
    <3> HIDE DEF P
    <3> QED
      BY <1>5, <1>8, <1>10, <2>2, Zenon
  <2> QED
    BY <1>9, <2>1, <2>2, <2>3
<1>11. ASSUME k = 1, ~Ignores(c, k)
       PROVE  waiting' = TRUE /\ Full'
  <2>1. Restarts(1) /\ TakePacket(c, 1)
    BY <1>1, <1>6, <1>11 DEF Ignores, Restarts
  <2>2. /\ zonetmp'.confid = c /\ PutIn(c, 1, 0)
        /\ P = 1 => waiting' = TRUE /\ Taken(c)'
        /\ P > 1 => Taking(c, 1)' /\ waiting' = waiting
    BY <1>1, <1>6, <2>1, FirstTaken
  <2>3. Prefix(c, Total(c))' /\ OnlyOf(c)'
    <3>1. 1 \in 1 .. P /\ 0 = Sent(c, 1 - 1)
      BY <1>2
    <3> QED
      BY <1>1, <2>2, <3>1, ContentKept
  <2>4. 1 \in 1 .. P /\ (P = 1 \/ P > 1)
    BY <1>2
  <2> QED
    BY <1>8, <1>9, <1>11, <2>2, <2>3, <2>4
<1>12. CASE \E j \in 1 .. P : Taking(c, j) /\ Sends(c, j)
  <2>1. PICK j \in 1 .. P : Taking(c, j) /\ Sends(c, j)
    BY <1>12
  <2>2. j < P /\ zonetmp.pkgcurnum = j /\ j \in Nat
    BY <1>2, <2>1 DEF Taking
  <2>3. k \in {1, j, j + 1}
    BY <1>5, <2>1 DEF Sends
  <2>4. CASE Ignores(c, k)
    <3>1. k = j
      BY <1>1, <2>2, <2>4 DEF Ignores
    <3> QED
      BY <1>10, <2>1, <2>2, <2>4, <3>1
  <2>5. CASE ~Ignores(c, k) /\ k # 1
    <3>1. k = j + 1 /\ ~Restarts(k)
      BY <1>1, <2>2, <2>3, <2>5 DEF Ignores, Restarts
    <3>2. /\ zonetmp'.confid = c /\ PutIn(c, k, Sent(c, j))
          /\ P = k => waiting' = TRUE /\ Taken(c)'
          /\ P > k => Taking(c, k)' /\ waiting' = waiting
      BY <1>1, <1>6, <2>1, <3>1, NextTaken
    <3>3. Prefix(c, Total(c))' /\ OnlyOf(c)'
      <4>1. /\ Sent(c, j) \in Nat /\ Sent(c, j) = Sent(c, k - 1)
            /\ Sent(c, j) = zonetmp.zonetotalnum
        <5>1. k - 1 = j
          BY <2>2, <3>1
        <5> QED
          BY <1>2, <2>1, <5>1 DEF Taking
      <4> QED
        BY <1>1, <1>5, <3>2, <4>1, ContentKept
    <3>4. P = k \/ P > k
      BY <1>2, <2>2, <3>1
    <3> QED
      BY <1>5, <1>8, <1>9, <3>2, <3>3, <3>4
  <2> QED
    BY <1>11, <2>4, <2>5
<1>13. CASE Taken(c) /\ Sends(c, P)
  <2>1. k \in {1, P}
    BY <1>2, <1>5, <1>13 DEF Sends
  <2>2. CASE Ignores(c, k)
    <3>1. k = P
      BY <1>1, <1>2, <1>6, <2>2, <1>13 DEF Ignores, Taken
    <3> QED
      BY <1>10, <1>13, <2>2, <3>1
  <2>3. CASE ~Ignores(c, k) /\ k # 1
    <3>1. /\ k = P /\ ~Restarts(k) /\ P > 1
          /\ zonetmp.pkgcurnum = 0 /\ zonetmp.pkgcal = 0
          /\ zonetmp.zonetotalnum = Total(c)
      BY <1>1, <1>2, <1>6, <1>13, <2>1, <2>3 DEF Ignores, Restarts, Taken
    <3>2. Base(k) = Total(c) /\ Count(k) = 1 /\ ~Fills(c, k)
      BY <3>1 DEF Base, Count, Fills
    <3>3. /\ zonetmp'.confid = c /\ PutIn(c, k, Total(c))
          /\ zonetmp'.pkgcurnum = P /\ zonetmp'.pkgcal = 1
          /\ waiting' = waiting
      BY <1>1, <1>6, <2>3, <3>1, <3>2, PacketAdded
    <3>4. Prefix(c, Total(c))' /\ OnlyOf(c)'
      BY <1>1, <1>2, <3>1, <3>3, ContentKept
    <3>5. zonetmp'.zonetotalnum = Total(c) + (Total(c) - Sent(c, P - 1))
      BY <1>2, <3>1, <3>3 DEF PutIn
    <3>6. Taken(c)'
      BY <1>7, <3>1, <3>3, <3>5 DEF Taken
    <3> QED
      BY <1>9, <3>1, <3>3, <3>4, <3>6
  <2> QED
    BY <1>11, <2>2, <2>3
<1> QED
  BY <1>1, <1>12, <1>13

(* A packet that comes while nothing waits to be written leaves part of a  *)
(* configuration, or all of it, which then waits; or the packets come      *)
(* without the first, and go on so.                                        *)
LEMMA LooseRecv ==
  ASSUME Sound, ~waiting, Loose,
         NEW answered \in BOOLEAN, RecvZoneConfig(answered)
  PROVE  \/ waiting' = TRUE /\ Full'
         \/ waiting' = FALSE /\ Partial'
<1>1. PICK c \in Conf : server.confid = c
  BY Received
<1> DEFINE P == Packets(c)
<1>2. PICK k \in 1 .. P : server.next = k
  BY <1>1, Received
<1>3. /\ k \in Nat /\ k > 0 /\ TakePacket(c, k)
      /\ server'.confid = c /\ server'.next \in {k, k + 1}
      /\ online' = online /\ Typed /\ waiting = FALSE
  BY <1>1, <1>2, Received DEF Sound, Typed
<1>4. Packets(c)' = Packets(c)
  BY DEF Packets
<1>5. /\ zonetmp.pkgcurnum # 1 /\ zonetmp.zonetotalnum <= N
      /\ zonetmp.pkgcal = 0 \/ zonetmp.pkgcal < zonetmp.pkgcurnum
      /\ zonetmp.pkgcal \in Nat /\ zonetmp.pkgcurnum \in Nat
      /\ zonetmp.zonetotalnum \in Nat
  BY DEF Loose, Sound, Typed, Stages
<1>6. P \in Nat /\ P > 0 /\ Total(c) \in Nat /\ N \in Nat
  BY SentIs, Numbered
<1>7. CASE online = c
  <2>1. /\ zonetmp'.pkgcurnum = zonetmp.pkgcurnum
        /\ zonetmp'.pkgcal = zonetmp.pkgcal
        /\ zonetmp'.zonetotalnum = zonetmp.zonetotalnum
        /\ waiting' = waiting
    BY <1>3, <1>7, PacketIgnored DEF Ignores
  <2>2. Loose'
    BY <1>3, <1>5, <1>7, <2>1 DEF Loose, N
  <2> QED
    BY <1>3, <2>1, <2>2 DEF Partial
<1>8. CASE online # c /\ k = 1
  <2>1. Restarts(1)
    BY <1>5 DEF Restarts
  <2>2. /\ zonetmp'.confid = c
        /\ P = 1 => /\ waiting' = TRUE /\ Taken(c)'
                    /\ Prefix(c, Total(c))' /\ OnlyOf(c)'
        /\ P > 1 => Taking(c, 1)' /\ waiting' = waiting
    BY <1>3, <1>8, <2>1, FirstTaken
  <2>3. Sends(c, 1)'
    BY <1>3, <1>8 DEF Sends
  <2>4. CASE P = 1
    <3>1. Sends(c, Packets(c))'
      BY <1>3, <1>4, <1>8, <2>4 DEF Sends
    <3>2. Full'
      BY <1>3, <1>8, <2>2, <2>4, <3>1 DEF Full
    <3> QED
      BY <2>2, <2>4, <3>2
  <2>5. CASE P > 1
    <3>1. 1 \in 1 .. Packets(c)'
      BY <1>4, <1>6
    <3>2. Partial'
      BY <2>2, <2>3, <2>5, <3>1 DEF Partial
    <3> QED
      BY <1>3, <2>2, <2>5, <3>2
  <2>6. P = 1 \/ P > 1
    BY <1>6
  <2> QED
    BY <2>4, <2>5, <2>6, Zenon
<1>9. CASE online # c /\ k # 1
  <2>1. /\ k \in 1 .. P /\ k \in 0 .. P /\ k - 1 \in 0 .. P /\ k > 1
        /\ Sent(c, k) \in Nat /\ Sent(c, k) <= Total(c)
        /\ Sent(c, k - 1) \in Nat /\ Sent(c, k - 1) < Sent(c, k)
    <3>1. k \in 0 .. P /\ k - 1 \in 0 .. P /\ k > 1
      BY <1>3, <1>6, <1>9
    <3> QED
      BY <3>1, SentIs
  <2>2. /\ k >= zonetmp.pkgcurnum
        /\ zonetmp.zonetotalnum + Left(c, k, zonetmp.pkgcurnum) <= N
    BY <1>1, <1>2, <1>9 DEF Loose
  <2>3. Left(c, k, k)' = Left(c, k, k) /\ Left(c, k + 1, k)' = Left(c, k + 1, k)
    BY DEF Left, Total, Packets, Sent
  <2>4. /\ Left(c, k, k) = Total(c) - Sent(c, k)
        /\ Left(c, k + 1, k) = Total(c) - Sent(c, k)
    <3>1. k + 1 # k /\ (k + 1) - 1 = k
      BY <1>3
    <3> QED
      BY <3>1 DEF Left
  <2>5. CASE Ignores(c, k)
    <3>1. k = zonetmp.pkgcurnum
      BY <1>9, <2>5 DEF Ignores
    <3>2. /\ zonetmp'.pkgcurnum = k
          /\ zonetmp'.pkgcal = zonetmp.pkgcal
          /\ zonetmp'.zonetotalnum = zonetmp.zonetotalnum
          /\ waiting' = waiting
      BY <1>3, <2>5, <3>1, PacketIgnored
    <3>3. /\ server'.next >= k
          /\ zonetmp.zonetotalnum + Left(c, server'.next, k) <= N
      BY <1>3, <2>2, <2>4, <3>1
    <3>4. Left(server.confid, server.next, zonetmp.pkgcurnum)'
            = Left(c, server'.next, k)
      BY <1>3, <3>2 DEF Left, Total, Packets, Sent
    <3>5. Loose'
      BY <1>5, <3>1, <3>2, <3>3, <3>4 DEF Loose, N
    <3> QED
      BY <1>3, <3>2, <3>5 DEF Partial
  <2>6. CASE ~Ignores(c, k)
    <3>1. ~Restarts(k) /\ k # zonetmp.pkgcurnum
      BY <1>9, <2>6 DEF Ignores, Restarts
    <3>2. /\ Base(k) = zonetmp.zonetotalnum /\ Count(k) = zonetmp.pkgcal + 1
          /\ Count(k) < k /\ ~Fills(c, k)
      <4>1. Base(k) = zonetmp.zonetotalnum /\ Count(k) = zonetmp.pkgcal + 1
        BY <3>1 DEF Base, Count
      <4>2. zonetmp.pkgcal + 1 < k
        BY <1>3, <1>5, <2>1, <2>2, <3>1
      <4> QED
        BY <1>3, <1>5, <4>1, <4>2 DEF Fills
    <3>3. /\ PutIn(c, k, zonetmp.zonetotalnum)
          /\ zonetmp'.pkgcurnum = k /\ zonetmp'.pkgcal = Count(k)
          /\ waiting' = waiting
      BY <1>3, <2>6, <3>2, PacketAdded
    <3>4. zonetmp'.zonetotalnum
            = zonetmp.zonetotalnum + (Sent(c, k) - Sent(c, k - 1))
      BY <3>3 DEF PutIn
    <3>5. Left(c, k, zonetmp.pkgcurnum) = Total(c) - Sent(c, k - 1)
      BY <3>1 DEF Left
    <3>6. zonetmp'.zonetotalnum + (Total(c) - Sent(c, k)) <= N
      BY <1>5, <1>6, <2>1, <2>2, <3>4, <3>5
    <3>7. zonetmp'.zonetotalnum <= N
      BY <1>5, <1>6, <2>1, <3>4, <3>6
    <3>8. /\ server'.next >= k
          /\ zonetmp'.zonetotalnum + Left(c, server'.next, k) <= N
      BY <1>3, <2>4, <3>6
    <3>9. Left(server.confid, server.next, zonetmp.pkgcurnum)'
            = Left(c, server'.next, k)
      BY <1>3, <3>3 DEF Left, Total, Packets, Sent
    <3>10. Loose'
      BY <1>9, <3>2, <3>3, <3>7, <3>8, <3>9 DEF Loose, N
    <3> QED
      BY <1>3, <3>3, <3>10 DEF Partial
  <2> QED
    BY <2>5, <2>6
<1> QED
  BY <1>7, <1>8, <1>9

LEMMA TakingRecv ==
  ASSUME Sound, ~waiting, ~mistaken',
         NEW e \in Conf, NEW j \in 1 .. Packets(e), Taking(e, j),
         server.confid = online \/ Sends(e, j),
         NEW answered \in BOOLEAN, RecvZoneConfig(answered)
  PROVE  \/ waiting' = TRUE /\ Full'
         \/ waiting' = FALSE /\ Partial'
<1>1. PICK c \in Conf : server.confid = c
  BY Received
<1> DEFINE P == Packets(c)
<1>2. PICK k \in 1 .. P : server.next = k
  BY <1>1, Received
<1>3. /\ k \in Nat /\ k > 0 /\ TakePacket(c, k)
      /\ server'.confid = c /\ server'.next \in {k, k + 1}
      /\ online' = online /\ Typed /\ waiting = FALSE
  BY <1>1, <1>2, Received DEF Sound, Typed
<1>4. Packets(c)' = Packets(c) /\ Packets(e)' = Packets(e)
  BY DEF Packets
<1>5. /\ P \in Nat /\ P > 0 /\ j \in Nat /\ j > 0 /\ j < Packets(e)
      /\ zonetmp.pkgcurnum = j
  BY SentIs DEF Taking
<1>6. Sends(c, k)'
  BY <1>3 DEF Sends
<1>7. CASE Ignores(c, k)
  <2>1. /\ Taking(e, j)' /\ waiting' = FALSE
    BY <1>3, <1>5, <1>7, PacketIgnored, StageKept
  <2>2. server'.confid = online' \/ Sends(e, j)'
    <3>1. CASE online = c
      BY <1>3, <3>1
    <3>2. CASE online # c
      <4>1. k = j
        BY <1>5, <1>7, <3>2 DEF Ignores
      <4>2. Sends(e, j)
        BY <1>1, <3>2
      <4>3. CASE k # 1
        <5>1. c = e
          BY <1>1, <1>2, <4>2, <4>3 DEF Sends
        <5> QED
          BY <1>6, <4>1, <5>1
      <4>4. CASE k = 1
        <5>1. zonetmp.zonetotalnum > 0 /\ zonetmp.zoneNode[0][1] = e
          <6>1. /\ zonetmp.zonetotalnum = Sent(e, 1) /\ Prefix(e, Sent(e, 1))
                /\ Sent(e, 1) \in Nat /\ Sent(e, 1) > 0 /\ Sent(e, 1) <= N
            <7>1. /\ 1 \in 1 .. Packets(e) /\ 1 \in 0 .. Packets(e)
                  /\ 1 - 1 = 0
              BY <1>5, <4>1, <4>4, SentIs
            <7>2. /\ Sent(e, 0) = 0 /\ Sent(e, 1 - 1) < Sent(e, 1)
                  /\ Sent(e, 1) \in Nat /\ Sent(e, 1) <= Total(e)
                  /\ Total(e) \in Nat /\ Total(e) <= N
              BY <7>1, SentIs
            <7>3. zonetmp.zonetotalnum = Sent(e, 1) /\ Prefix(e, Sent(e, 1))
              BY <4>1, <4>4 DEF Taking
            <7> QED
              BY <7>1, <7>2, <7>3, Numbered
          <6>2. 0 \in Place
            BY <6>1, Numbered DEF Place
          <6>3. zonetmp.zoneNode[0] = <<e, 0 + 1>>
            BY <6>1, <6>2 DEF Prefix
          <6> QED
            BY <6>1, <6>3
        <5>2. ~TakenForOther(c, k)
          BY <1>1, <1>2 DEF RecvZoneConfig, TakePacket
        <5>3. c = e
          BY <1>5, <3>2, <4>1, <4>4, <5>1, <5>2 DEF TakenForOther
        <5> QED
          BY <1>6, <4>1, <5>3
      <4> QED
        BY <4>3, <4>4
    <3> QED
      BY <3>1, <3>2
  <2>3. Partial'
    BY <1>4, <2>1, <2>2 DEF Partial
  <2> QED
    BY <2>1, <2>3
<1>8. CASE ~Ignores(c, k) /\ k = 1
  <2>1. Restarts(1) /\ online # c
    BY <1>8 DEF Ignores, Restarts
  <2>2. /\ zonetmp'.confid = c
        /\ P = 1 => /\ waiting' = TRUE /\ Taken(c)'
                    /\ Prefix(c, Total(c))' /\ OnlyOf(c)'
        /\ P > 1 => Taking(c, 1)' /\ waiting' = waiting
    BY <1>3, <1>8, <2>1, FirstTaken
  <2>3. CASE P = 1
    <3>1. Sends(c, Packets(c))'
      BY <1>3, <1>4, <1>8, <2>3 DEF Sends
    <3>2. Full'
      BY <1>3, <2>1, <2>2, <2>3, <3>1 DEF Full
    <3> QED
      BY <2>2, <2>3, <3>2
  <2>4. CASE P > 1
    <3>1. 1 \in 1 .. Packets(c)'
      BY <1>4, <1>5
    <3>2. Partial'
      BY <1>6, <1>8, <2>2, <2>4, <3>1 DEF Partial
    <3> QED
      BY <1>3, <2>2, <2>4, <3>2
  <2>5. P = 1 \/ P > 1
    BY <1>5
  <2> QED
    BY <2>3, <2>4, <2>5, Zenon
<1>9. CASE ~Ignores(c, k) /\ k # 1
  <2>1. online # c /\ k # j
    BY <1>5, <1>9 DEF Ignores, Restarts
  <2>2. c = e /\ k = j + 1
    BY <1>1, <1>2, <1>9, <2>1 DEF Sends
  <2>3. /\ zonetmp'.confid = c
        /\ P = k => /\ waiting' = TRUE /\ Taken(c)'
                    /\ Prefix(c, Total(c))' /\ OnlyOf(c)'
        /\ P > k => Taking(c, k)' /\ waiting' = waiting
    BY <1>3, <2>1, <2>2, NextTaken
  <2>4. CASE P = k
    <3>1. Sends(c, Packets(c))'
      BY <1>3, <1>4, <2>4 DEF Sends
    <3>2. Full'
      BY <1>3, <2>1, <2>3, <2>4, <3>1 DEF Full
    <3> QED
      BY <2>3, <2>4, <3>2
  <2>5. CASE P > k
    <3>1. k \in 1 .. Packets(c)'
      BY <1>4
    <3>2. Partial'
      BY <1>6, <2>3, <2>5, <3>1 DEF Partial
    <3> QED
      BY <1>3, <2>3, <2>5, <3>2
  <2>7. P = k \/ P > k
    BY <1>3, <1>5
  <2> QED
    BY <2>4, <2>5, <2>7, Zenon
<1> QED
  BY <1>7, <1>8, <1>9

LEMMA RecvZoneConfigStaged ==
  ASSUME Sound, Staged, NEW answered \in BOOLEAN, RecvZoneConfig(answered)
  PROVE  Staged'
<1>1. /\ server.confid \in Conf
      /\ server.next \in 1 .. Packets(server.confid)
      /\ server'.confid = server.confid
      /\ server'.next \in {server.next, server.next + 1}
      /\ pc = "loop" /\ pc' = "loop"
  BY Received
<1>2. Serves'
  <2>1. Packets(server.confid) \in Nat
    BY <1>1, SentIs
  <2>2. \/ server'.next = 1
        \/ server'.next \in 2 .. Packets(server.confid) + 1
    BY <1>1, <2>1
  <2>3. Packets(server.confid)' = Packets(server.confid)
    BY <1>1 DEF Packets
  <2> QED
    BY <1>1, <2>2, <2>3 DEF Serves
<1>3. CASE mistaken'
  BY <1>2, <1>3 DEF Staged
<1>4. CASE ~mistaken'
  <2>1. ~mistaken
    BY <1>4 DEF RecvZoneConfig, TakePacket
  <2>2. \/ waiting /\ Full
        \/ ~waiting /\ Partial
    BY <1>1, <2>1, Zenon DEF Staged, Busy
  <2>3. \/ waiting' = TRUE /\ Full'
        \/ waiting' = FALSE /\ Partial'
    <3>1. CASE waiting /\ Full
      BY <1>4, <3>1, FullRecv
    <3>2. CASE ~waiting /\ Loose
      BY <3>2, LooseRecv
    <3>3. CASE ~waiting /\ Partial /\ ~Loose
      <4>1. PICK c \in Conf : \E j \in 1 .. Packets(c) :
              Taking(c, j) /\ (server.confid = online \/ Sends(c, j))
        BY <3>3 DEF Partial
      <4>2. PICK j \in 1 .. Packets(c) :
              Taking(c, j) /\ (server.confid = online \/ Sends(c, j))
        BY <4>1
      <4> QED
        BY <1>4, <3>3, <4>2, TakingRecv
    <3> QED
      BY <2>2, <3>1, <3>2, <3>3
  <2> QED
    BY <1>1, <1>2, <2>3 DEF Staged, Busy
<1> QED
  BY <1>3, <1>4

(* After the writing, or the attempt, the server may send again what the   *)
(* master took already: that fits as well.                                 *)
LEMMA ReadBackStaged == Sound /\ Staged /\ ReadBack => Staged'
<1> SUFFICES ASSUME Sound, Staged, ReadBack PROVE Staged'
  OBVIOUS
<1>1. /\ server' = server /\ mistaken' = mistaken /\ pc = "read"
      /\ pc' = "loop" /\ waiting' = FALSE
  BY DEF ReadBack
<1>2. /\ zonetmp'.pkgcurnum = 0 /\ zonetmp'.pkgcal = 0
      /\ zonetmp'.zonetotalnum = zonetmp.zonetotalnum
  BY DEF ReadBack, Sound, Typed, Stages
<1>3. Serves'
  BY <1>1 DEF Staged, Serves, Packets
<1>4. CASE mistaken
  BY <1>1, <1>3, <1>4 DEF Staged
<1>5. CASE ~mistaken
  <2>1. Full
    BY <1>1, <1>5 DEF Staged, Busy
  <2>2. PICK c \in Conf :
          \/ \E j \in 1 .. Packets(c) : Taking(c, j) /\ Sends(c, j)
          \/ Taken(c) /\ Sends(c, Packets(c))
    BY <2>1 DEF Full
  <2> DEFINE P == Packets(c)
             k == server.next
             total == zonetmp.zonetotalnum
  <2>3. /\ P \in Nat /\ P > 0 /\ Total(c) \in Nat /\ Total(c) <= N
        /\ N \in Nat /\ Sent(c, P) = Total(c) /\ k \in Nat /\ k > 0
    BY SentIs, Numbered DEF Sound, Typed, Servers
  <2>4. \A j \in 1 .. P :
          /\ Sent(c, j) \in Nat /\ Sent(c, j) <= Total(c)
          /\ Sent(c, j - 1) \in Nat /\ Sent(c, j - 1) < Sent(c, j)
          /\ j # 1 => Total(c) + 2 * (Sent(c, j) - Sent(c, j - 1)) <= N
    <3>1. ASSUME NEW j \in 1 .. P
          PROVE  /\ Sent(c, j) \in Nat /\ Sent(c, j) <= Total(c)
                 /\ Sent(c, j - 1) \in Nat /\ Sent(c, j - 1) < Sent(c, j)
                 /\ j # 1 => Total(c) + 2 * (Sent(c, j) - Sent(c, j - 1)) <= N
      <4>1. j \in 0 .. P /\ j - 1 \in 0 .. P /\ (j # 1 => j \in 2 .. P)
        BY <2>3
      <4> QED
        BY <4>1, SentIs
    <3> QED
      BY <3>1
  <2>5. /\ total <= N
        /\ k = 1 \/ (server.confid = c /\ total + Total(c) - Sent(c, k - 1) <= N)
    <3>1. CASE \E j \in 1 .. P : Taking(c, j) /\ Sends(c, j)
      <4>1. PICK j \in 1 .. P : Taking(c, j) /\ Sends(c, j)
        BY <3>1
      <4>2. /\ total = Sent(c, j)
            /\ k = 1 \/ (server.confid = c /\ k \in {j, j + 1})
        BY <4>1 DEF Taking, Sends
      <4>3. CASE k = 1
        BY <2>3, <2>4, <4>2, <4>3
      <4>4. CASE k # 1 /\ k = j
        <5>1. /\ total = Sent(c, j) /\ server.confid = c
              /\ Sent(c, k - 1) = Sent(c, j - 1)
          BY <4>2, <4>4
        <5> HIDE DEF k, total, P
        <5> QED
          BY <2>3, <2>4, <4>4, <5>1
      <4>5. CASE k # 1 /\ k = j + 1
        <5>1. k - 1 = j
          BY <2>3, <4>5
        <5>2. /\ total = Sent(c, j) /\ server.confid = c
              /\ Sent(c, k - 1) = Sent(c, j)
          BY <4>2, <4>5, <5>1
        <5> HIDE DEF k, total, P
        <5> QED
          BY <2>3, <2>4, <5>2
      <4> QED
        BY <4>2, <4>3, <4>4, <4>5
    <3>2. CASE Taken(c) /\ Sends(c, P)
      <4>1. /\ k = 1 \/ (server.confid = c /\ k \in {P, P + 1})
            /\ total = Total(c)
                 \/ (P > 1 /\ total = Total(c) + (Total(c) - Sent(c, P - 1)))
        BY <3>2 DEF Taken, Sends
      <4>2. P \in 1 .. P /\ (P > 1 => P # 1)
        BY <2>3
      <4>3. /\ Sent(c, P - 1) \in Nat /\ Sent(c, P - 1) < Total(c)
            /\ P > 1 => Total(c) + 2 * (Total(c) - Sent(c, P - 1)) <= N
        BY <2>3, <2>4, <4>2
      <4>4. total <= N
        <5> HIDE DEF total, P
        <5> QED
          BY <2>3, <4>1, <4>3
      <4>5. CASE k = 1
        BY <4>4, <4>5
      <4>6. CASE k # 1 /\ k = P
        <5>1. Sent(c, k - 1) = Sent(c, P - 1) /\ server.confid = c /\ P > 1
          BY <2>3, <4>1, <4>6
        <5> HIDE DEF k, total, P
        <5> QED
          BY <2>3, <4>1, <4>3, <4>4, <5>1
      <4>7. CASE k # 1 /\ k = P + 1
        <5>1. k - 1 = P
          BY <2>3, <4>7
        <5>2. Sent(c, k - 1) = Total(c) /\ server.confid = c
          BY <2>3, <4>1, <4>7, <5>1
        <5> HIDE DEF k, total, P
        <5> QED
          BY <2>3, <4>1, <4>3, <4>4, <5>2
      <4> QED
        BY <4>1, <4>5, <4>6, <4>7
    <3> QED
      BY <2>2, <3>1, <3>2
  <2>6. Left(server.confid, server.next, zonetmp.pkgcurnum)'
          = Total(server.confid) - Sent(server.confid, k - 1)
    <3>1. k # 0
      BY <2>3
    <3> QED
      BY <1>1, <1>2, <3>1 DEF Left, Total, Packets, Sent
  <2>7. Loose'
    <3>1. k >= 0
      BY <2>3
    <3>2. CASE k = 1
      BY <1>1, <1>2, <2>5, <3>2 DEF Loose, N
    <3>3. CASE k # 1
      <4>1. /\ server.confid = c
            /\ total + Total(c) - Sent(c, k - 1) <= N
        BY <2>5, <3>3
      <4>2. total + (Total(c) - Sent(c, k - 1)) <= N
        <5>1. total \in Nat /\ Sent(c, k - 1) \in Nat
          <6>1. k - 1 \in 0 .. P
            BY <1>3, <2>3, <3>3, <4>1, <1>1 DEF Serves, Packets
          <6> QED
            BY <6>1, SentIs DEF Sound, Typed, Stages
        <5> HIDE DEF k, total
        <5> QED
          BY <2>3, <4>1, <5>1
      <4> QED
        BY <1>1, <1>2, <2>5, <2>6, <3>1, <4>1, <4>2 DEF Loose, N
    <3> QED
      BY <3>2, <3>3
  <2> QED
    BY <1>1, <1>3, <2>7 DEF Staged, Busy, Partial
<1> QED
  BY <1>4, <1>5

LEMMA ResetStaged == Sound /\ Staged /\ Reset => Staged'
<1> SUFFICES ASSUME Sound, Staged, Reset PROVE Staged'
  OBVIOUS
<1>1. server' = server /\ pc' = "loop" /\ waiting' = FALSE
  BY DEF Reset
<1>2. /\ zonetmp'.pkgcurnum = 0 /\ zonetmp'.pkgcal = 0
      /\ zonetmp'.zonetotalnum = 0
  BY DEF Reset, Empty
<1>3. Serves'
  BY <1>1 DEF Staged, Serves, Packets
<1>4. Loose'
  <2>1. server.next \in Nat /\ server.next > 0 /\ 0 <= N
    BY Numbered DEF Sound, Typed, Servers
  <2>2. CASE server.next = 1
    BY <1>1, <1>2, <2>1, <2>2 DEF Loose, N
  <2>3. CASE server.next # 1
    <3>1. PICK c \in Conf : server.confid = c
      BY <1>1, <1>3, <2>3 DEF Serves
    <3>2. server.next \in 2 .. Packets(c) + 1
      BY <2>3, <3>1 DEF Staged, Serves
    <3>3. server.next - 1 \in 0 .. Packets(c) /\ server.next # 0
      BY <3>2, SentIs
    <3>4. /\ Sent(c, server.next - 1) \in Nat /\ Total(c) \in Nat
          /\ Total(c) <= N /\ N \in Nat
      BY <3>3, SentIs, Numbered
    <3>5. Left(server.confid, server.next, zonetmp.pkgcurnum)'
            = Total(c) - Sent(c, server.next - 1)
      BY <1>1, <1>2, <3>1, <3>3 DEF Left, Total, Packets, Sent
    <3>6. 0 + (Total(c) - Sent(c, server.next - 1)) <= N
      BY <3>4
    <3> QED
      BY <1>1, <1>2, <2>1, <3>5, <3>6 DEF Loose, N
  <2> QED
    BY <2>2, <2>3
<1> QED
  BY <1>1, <1>3, <1>4 DEF Staged, Busy, Partial

LEMMA NextStaged == Sound /\ Staged /\ [Next]_vars => Staged'
<1> SUFFICES ASSUME Sound, Staged, [Next]_vars PROVE Staged'
  OBVIOUS
<1>1. CASE \E c \in Conf : BeginUpload(c)
  <2>1. /\ zonetmp' = zonetmp /\ waiting' = waiting /\ online' = online
        /\ pc' = pc /\ mistaken' = mistaken /\ server'.next = 1
    BY <1>1 DEF BeginUpload
  <2>2. Full => Full'
    BY <2>1 DEF Full, Sends, Taking, Taken, Prefix, OnlyOf, Packets, Total,
                Sent, Whole
  <2>3. Partial => Partial'
    BY <2>1 DEF Partial, Loose, Sends, Taking, Prefix, Packets, Sent, N
  <2> QED
    BY <2>1, <2>2, <2>3 DEF Staged, Busy, Serves
<1>2. CASE \E answered \in BOOLEAN : RecvZoneConfig(answered)
  BY <1>2, RecvZoneConfigStaged
<1>3. CASE FlashUpload \/ ErasePage \/ EraseFails \/ ProgramPage \/ PageDone
  <2>1. /\ zonetmp' = zonetmp /\ online' = online
        /\ mistaken' = mistaken /\ server' = server
    BY <1>3 DEF FlashUpload, ErasePage, EraseFails, ProgramPage, PageDone
  <2>2. Busy /\ Busy'
    BY <1>3 DEF FlashUpload, ErasePage, EraseFails, ProgramPage, PageDone, Busy
  <2>3. Full => Full'
    BY <2>1 DEF Full, Sends, Taking, Taken, Prefix, OnlyOf, Packets, Total,
                Sent, Whole
  <2> QED
    BY <2>1, <2>2, <2>3 DEF Staged, Serves, Packets
<1>4. CASE ReadBack
  BY <1>4, ReadBackStaged
<1>5. CASE Reset
  BY <1>5, ResetStaged
<1>6. CASE UNCHANGED vars
  <2>1. /\ zonetmp' = zonetmp /\ waiting' = waiting /\ online' = online
        /\ pc' = pc /\ mistaken' = mistaken /\ server' = server
    BY <1>6 DEF vars
  <2>2. Full => Full'
    BY <2>1 DEF Full, Sends, Taking, Taken, Prefix, OnlyOf, Packets, Total,
                Sent, Whole
  <2>3. Partial => Partial'
    BY <2>1 DEF Partial, Loose, Left, Sends, Taking, Prefix, Packets, Sent,
                Total, N
  <2> QED
    BY <2>1, <2>2, <2>3 DEF Staged, Busy, Serves, Packets
<1> QED
  BY <1>1, <1>2, <1>3, <1>4, <1>5, <1>6 DEF Next

LEMMA InitStaged == Init => Staged
<1> SUFFICES ASSUME Init PROVE Staged
  OBVIOUS
<1>1. Loose
  BY Numbered DEF Init, Loose, Empty
<1> QED
  BY <1>1 DEF Init, Staged, Serves, Busy, Partial

LEMMA StagedFits == Sound /\ Staged => StageFits
<1> SUFFICES ASSUME Sound, Staged, ~mistaken
             PROVE  zonetmp.zonetotalnum <= N
  BY DEF StageFits
<1>1. CASE Loose
  BY <1>1 DEF Loose
<1>2. CASE \E c \in Conf : \E j \in 1 .. Packets(c) : Taking(c, j)
  <2>1. PICK c \in Conf : \E j \in 1 .. Packets(c) : Taking(c, j)
    BY <1>2
  <2>2. PICK j \in 1 .. Packets(c) : Taking(c, j)
    BY <2>1
  <2>3. j \in 0 .. Packets(c)
    BY SentIs
  <2>4. /\ Sent(c, j) \in Nat /\ Sent(c, j) <= Total(c)
        /\ Total(c) \in Nat /\ Total(c) <= N /\ N \in Nat
    BY <2>3, SentIs, Numbered
  <2>5. zonetmp.zonetotalnum = Sent(c, j)
    BY <2>2 DEF Taking
  <2> QED
    BY <2>4, <2>5
<1>3. CASE \E c \in Conf : Taken(c)
  <2>1. PICK c \in Conf : Taken(c)
    BY <1>3
  <2> DEFINE P == Packets(c)
  <2>2. /\ P \in Nat /\ P > 0 /\ Total(c) \in Nat /\ Total(c) <= N
        /\ N \in Nat /\ Sent(c, P) = Total(c)
    BY SentIs, Numbered
  <2>3. P \in 1 .. P /\ P - 1 \in 0 .. P /\ (P > 1 => P \in 2 .. P)
    BY <2>2
  <2>4. /\ Sent(c, P - 1) \in Nat /\ Sent(c, P - 1) < Sent(c, P)
        /\ P > 1 => Total(c) + 2 * (Sent(c, P) - Sent(c, P - 1)) <= N
    BY <2>3, SentIs
  <2>5. zonetmp.zonetotalnum = Total(c)
          \/ (P > 1 /\ zonetmp.zonetotalnum
                        = Total(c) + (Total(c) - Sent(c, P - 1)))
    BY <2>1 DEF Taken
  <2> HIDE DEF P
  <2> QED
    BY <2>2, <2>4, <2>5
<1> QED
  BY <1>1, <1>2, <1>3 DEF Staged, Full, Partial

(* Nothing is written behind the end of zoneNode, whatever is repeated,    *)
(* begun anew, cut off or not erased, unless a packet is taken for one of  *)
(* another configuration.                                                  *)
THEOREM StageAlwaysFits == Spec => []StageFits
<1>1. Init => Sound /\ Staged
  BY InitSound, InitStaged
<1>2. Sound /\ Staged /\ [Next]_vars => Sound' /\ Staged'
  BY NextSound, NextStaged
<1>3. Sound /\ Staged => StageFits
  BY StagedFits
<1> QED
  BY <1>1, <1>2, <1>3, PTL DEF Spec

-----------------------------------------------------------------------------
(* What is in the pages, while no packet was taken for one of another      *)
(* configuration.                                                          *)

(* How many of the first n nodes are in page p.                            *)
Share(p, n) ==
  IF n <= First(p) THEN 0 ELSE IF n <= First(p) + Half THEN n - First(p)
                                                       ELSE Half

(* Node i is programmed in page p.                                         *)
Holds(p, i) == First(p) <= i /\ i < First(p) + Len(page[p].node)

(* Page p, when its numbers are programmed, counts all the nodes of a      *)
(* configuration it is to hold, and what it holds of them is theirs.       *)
Keeps(p, c) ==
  /\ page[p].confid = c
  /\ page[p].num # Blank /\ page[p].total <= N
  /\ page[p].num >= Share(p, Total(c))
  /\ page[p].num >= Share(p, page[p].total)
  /\ \A i \in Place : Holds(p, i) =>
       /\ i < Total(c) => page[p].node[i - First(p) + 1] = <<c, i + 1>>
       /\ i < page[p].total => page[p].node[i - First(p) + 1] \in Whole(c)

(* The page being programmed holds what is in zonetmp, in the order it is  *)
(* programmed.                                                             *)
Programming ==
  /\ page[at].confid \in {Blank, zonetmp.confid}
  /\ page[at].num \in {Blank, NumIn(at)}
  /\ page[at].total \in {Blank, zonetmp.zonetotalnum}
  /\ page[at].confid = Blank => page[at].num = Blank
  /\ page[at].num = Blank => page[at].total = Blank
  /\ page[at].total = Blank => page[at].node = <<>>

PagesKeep ==
  \/ mistaken
  \/ /\ pc = "program" => Programming
     /\ \A p \in Page : page[p].total # Blank => \E c \in Conf : Keeps(p, c)

LEMMA FirstIs == First(1) = 0 /\ First(2) = Half
BY Numbered DEF First

(* Of the first n nodes, all of them used, each page counts its own.       *)
LEMMA NumInCounts ==
  ASSUME Typed, NEW p \in Page, NEW n \in Nat, n <= N,
         \A i \in Place : i < n => zonetmp.zoneNode[i] # Unused
  PROVE  NumIn(p) >= Share(p, n)
<1> DEFINE a == First(p)
           m == Share(p, n)
           I == a .. a + Half - 1
           S == {i \in I : zonetmp.zoneNode[i] # Unused}
           J == a .. a + m - 1
<1>1. a \in Nat /\ a + Half <= N
  <2>1. p = 1 \/ p = 2
    BY DEF Page
  <2> QED
    BY <2>1, FirstIs, Numbered
<1>2. /\ m \in Nat /\ m <= Half
      /\ m > 0 => a + m <= n
  <2> HIDE DEF a
  <2> QED
    BY <1>1, Numbered DEF Share, a
<1> HIDE DEF m, a
<1>3. J \subseteq S
  <2> SUFFICES ASSUME NEW i \in J PROVE i \in S
    OBVIOUS
  <2>1. i \in Int /\ a <= i /\ i <= a + m - 1
    BY <1>1, <1>2
  <2>2. i <= a + Half - 1 /\ i <= N - 1 /\ 0 <= i /\ i < n
    BY <1>1, <1>2, <2>1, Numbered
  <2>3. i \in I /\ i \in Place
    BY <1>1, <2>1, <2>2, Numbered DEF Place
  <2> QED
    BY <2>2, <2>3
<1>4. IsFiniteSet(S)
  <2> DEFINE b == a + Half - 1
  <2>1. a \in Int /\ b \in Int
    BY <1>1, Numbered
  <2> HIDE DEF b
  <2>2. IsFiniteSet(a .. b)
    BY <2>1, FS_Interval
  <2>3. S \subseteq a .. b
    BY DEF b
  <2> QED
    BY <2>2, <2>3, FS_Subset
<1>5. Cardinality(J) = m
  <2> DEFINE b == a + m - 1
  <2>1. a \in Int /\ b \in Int /\ (IF a > b THEN 0 ELSE b - a + 1) = m
    BY <1>1, <1>2
  <2> HIDE DEF b
  <2>2. Cardinality(a .. b) = IF a > b THEN 0 ELSE b - a + 1
    BY <2>1, FS_Interval
  <2> QED
    BY <2>1, <2>2 DEF b
<1>6. Cardinality(J) <= Cardinality(S)
  <2> HIDE DEF J, S
  <2> QED
    BY <1>3, <1>4, FS_Subset
<1>7. NumIn(p) = Cardinality(S)
  BY DEF NumIn, a
<1>8. Cardinality(S) \in Nat
  <2> HIDE DEF S
  <2> QED
    BY <1>4, FS_CardinalityType
<1> HIDE DEF J, S
<1> QED
  BY <1>2, <1>5, <1>6, <1>7, <1>8 DEF m

(* What is to be written is a configuration, and it fits.                  *)
LEMMA FullIs ==
  ASSUME Sound, Staged, ~mistaken, Busy
  PROVE  \E c \in Conf :
           /\ zonetmp.confid = c /\ zonetmp.zonetotalnum <= N
           /\ Prefix(c, Total(c)) /\ OnlyOf(c)
<1>1. Full
  BY DEF Staged
<1>2. PICK c \in Conf : /\ zonetmp.confid = c
                        /\ Prefix(c, Total(c)) /\ OnlyOf(c)
  BY <1>1 DEF Full
<1>3. zonetmp.zonetotalnum <= N
  BY StagedFits DEF StageFits
<1> QED
  BY <1>2, <1>3

(* One more halfword, or node, of it is programmed.                        *)
LEMMA ProgramPageKeeps ==
  ASSUME Sound, Staged, PagesKeep, ProgramPage
  PROVE  PagesKeep'
<1>1. CASE mistaken
  BY <1>1 DEF ProgramPage, PagesKeep
<1>2. CASE ~mistaken
  <2> DEFINE g == page[at]
             h == page'[at]
             total == zonetmp.zonetotalnum
  <2>1. /\ pc = "program" /\ pc' = "program" /\ at' = at /\ zonetmp' = zonetmp
        /\ Len(g.node) < Half /\ mistaken' = mistaken
        /\ page' = [page EXCEPT ![at] = Programmed(at, g)]
    BY DEF ProgramPage
  <2>2. Typed /\ at \in Page /\ page \in [Page -> Pages] /\ g \in Pages
    BY DEF Sound, Typed
  <2>3. PICK c \in Conf : /\ zonetmp.confid = c /\ total <= N
                          /\ Prefix(c, Total(c)) /\ OnlyOf(c)
    <3>1. Busy
      BY <2>1 DEF Busy
    <3> QED
      BY <1>2, <3>1, FullIs
  <2>4. /\ h = Programmed(at, g)
        /\ \A p \in Page : p # at => page'[p] = page[p]
    BY <2>1, <2>2
  <2>5. Programming /\ NumIn(at) \in 0 .. N
    BY <1>2, <2>1, <2>2, NumInIs DEF PagesKeep
  <2>6. /\ total \in Nat /\ total # Blank /\ NumIn(at) # Blank /\ c # Blank
        /\ Total(c) \in Nat /\ Total(c) <= N
    BY <2>2, <2>3, <2>5, SentIs, Numbered DEF Typed, Stages
  <2>7. NumIn(at)' = NumIn(at)
    BY <2>1 DEF NumIn, First
  <2>8. ASSUME \/ h.total = Blank
               \/ Keeps(at, c)',
               Programming'
        PROVE  PagesKeep'
    <3>1. ASSUME NEW p \in Page, p # at, page'[p].total # Blank
          PROVE  \E d \in Conf : Keeps(p, d)'
      <4>1. PICK d \in Conf : Keeps(p, d)
        BY <1>2, <2>4, <3>1 DEF PagesKeep
      <4>2. Keeps(p, d)'
        BY <2>4, <3>1, <4>1
           DEF Keeps, Holds, Share, First, Total, Packets, Whole, Place, N
      <4> QED
        BY <4>2
    <3> QED
      BY <2>1, <2>8, <3>1 DEF PagesKeep
  <2>9. CASE g.confid = Blank
    <3>1. /\ h = [g EXCEPT !.confid = c]
          /\ g.num = Blank /\ g.total = Blank /\ g.node = <<>>
      BY <2>3, <2>4, <2>5, <2>9 DEF Programmed, Programming
    <3>2. /\ h.confid = c /\ h.num = Blank /\ h.total = Blank /\ h.node = <<>>
      BY <2>2, <3>1 DEF Pages
    <3>3. Programming'
      BY <2>1, <2>3, <2>7, <3>2 DEF Programming
    <3> QED
      BY <2>8, <3>2, <3>3
  <2>10. CASE g.confid # Blank /\ g.num = Blank
    <3>1. /\ h = [g EXCEPT !.num = NumIn(at)] /\ g.confid = c
          /\ g.total = Blank /\ g.node = <<>>
      BY <2>3, <2>4, <2>5, <2>10 DEF Programmed, Programming
    <3>2. /\ h.confid = c /\ h.num = NumIn(at) /\ h.total = Blank
          /\ h.node = <<>>
      BY <2>2, <3>1 DEF Pages
    <3>3. Programming'
      BY <2>1, <2>3, <2>6, <2>7, <3>2 DEF Programming
    <3> QED
      BY <2>8, <3>2, <3>3
  <2>11. CASE g.confid # Blank /\ g.num # Blank /\ g.total = Blank
    <3>1. /\ h = [g EXCEPT !.total = total] /\ g.confid = c
          /\ g.num = NumIn(at) /\ g.node = <<>>
      BY <2>3, <2>4, <2>5, <2>11 DEF Programmed, Programming
    <3>2. /\ h.confid = c /\ h.num = NumIn(at) /\ h.total = total
          /\ h.node = <<>>
      BY <2>2, <3>1 DEF Pages
    <3>3. Programming'
      BY <2>1, <2>3, <2>6, <2>7, <3>2 DEF Programming
    <3>4. /\ NumIn(at) >= Share(at, Total(c))
          /\ NumIn(at) >= Share(at, total)
      <4>1. \A k : <<c, k>> # Unused
        BY Numbered DEF Unused
      <4>2. \A i \in Place : i < Total(c) => zonetmp.zoneNode[i] # Unused
        BY <2>3, <4>1 DEF Prefix
      <4>3. \A i \in Place : i < total => zonetmp.zoneNode[i] # Unused
        BY <2>3, <4>1 DEF OnlyOf, Whole
      <4> QED
        BY <2>2, <2>3, <2>6, <4>2, <4>3, NumInCounts
    <3>5. Keeps(at, c)'
      <4>1. /\ Share(at, Total(c))' = Share(at, Total(c))
            /\ Share(at, page[at].total)' = Share(at, total)
        BY <2>1, <3>2 DEF Share, First, Total, Packets
      <4>2. Len(h.node) = 0 /\ First(at) \in Nat
        BY <2>2, <3>2, FirstIs, Numbered DEF Page
      <4>3. \A i \in Place : ~Holds(at, i)'
        <5>1. ASSUME NEW i \in Place PROVE ~Holds(at, i)'
          <6>1. ~(First(at) <= i /\ i < First(at) + 0)
            BY <4>2, Numbered DEF Place
          <6> QED
            BY <2>1, <4>2, <6>1 DEF Holds, First
        <5> QED
          BY <5>1
      <4>4. /\ page'[at'].confid = c /\ page'[at'].num = NumIn(at)
            /\ page'[at'].total = total
        BY <2>1, <3>2
      <4> QED
        BY <2>3, <2>6, <3>4, <4>1, <4>3, <4>4 DEF Keeps, N, Place
    <3> QED
      BY <2>8, <3>3, <3>5
  <2>12. CASE g.confid # Blank /\ g.num # Blank /\ g.total # Blank
    <3> DEFINE x == zonetmp.zoneNode[First(at) + Len(g.node)]
    <3>1. /\ h = [g EXCEPT !.node = Append(g.node, x)] /\ g.confid = c
          /\ g.total = total /\ g.num = NumIn(at)
      BY <2>3, <2>4, <2>5, <2>12 DEF Programmed, Programming
    <3>2. Keeps(at, c)
      <4>1. PICK d \in Conf : Keeps(at, d)
        BY <1>2, <2>2, <2>12 DEF PagesKeep
      <4> QED
        BY <3>1, <4>1 DEF Keeps
    <3> DEFINE f == First(at)
               l == Len(g.node)
    <3>3. /\ f \in Nat /\ l \in Nat /\ g.node \in Seq(Node \cup {Unused})
          /\ f + l \in Place
      <4>1. f \in {0, Half}
        BY <2>2, FirstIs DEF Page
      <4>2. l \in Nat /\ g.node \in Seq(Node \cup {Unused})
        BY <2>2 DEF Pages
      <4> HIDE DEF f, l
      <4>3. l < Half
        BY <2>1 DEF l
      <4> QED
        BY <4>1, <4>2, <4>3, Numbered DEF Place
    <3>4. x \in Node \cup {Unused}
      BY <2>2, <3>3 DEF Typed, Stages
    <3> DEFINE nodes == Append(g.node, x)
    <3>5. /\ Len(nodes) = l + 1 /\ nodes[l + 1] = x
          /\ \A j \in 1 .. l : nodes[j] = g.node[j]
      <4> HIDE DEF x
      <4> QED
        BY <3>3, <3>4
    <3>6. h = [g EXCEPT !.node = nodes]
      BY <3>1
    <3> HIDE DEF nodes, x
    <3>7. /\ h.confid = c /\ h.num = g.num /\ h.total = total
          /\ h.node = nodes
      BY <2>2, <3>1, <3>6 DEF Pages
    <3>8. ASSUME NEW i \in Place, Holds(at, i)'
          PROVE  /\ i < Total(c) => nodes[i - f + 1] = <<c, i + 1>>
                 /\ i < total => nodes[i - f + 1] \in Whole(c)
      <4>1. f <= i /\ i < f + (l + 1) /\ i \in Nat
        BY <2>1, <3>5, <3>7, <3>8, Numbered DEF Holds, First, Place
      <4>2. CASE i < f + l
        <5>1. i - f + 1 \in 1 .. l
          <6> HIDE DEF f, l
          <6> QED
            BY <3>3, <4>1, <4>2
        <5>2. Holds(at, i)
          BY <4>1, <4>2 DEF Holds
        <5>3. nodes[i - f + 1] = g.node[i - f + 1]
          BY <3>5, <5>1
        <5> QED
          BY <3>1, <3>2, <5>2, <5>3 DEF Keeps
      <4>3. CASE ~(i < f + l)
        <5>1. i = f + l /\ i - f + 1 = l + 1
          <6> HIDE DEF f, l
          <6> QED
            BY <3>3, <4>1, <4>3
        <5>2. nodes[i - f + 1] = zonetmp.zoneNode[i]
          BY <3>5, <5>1 DEF x
        <5> QED
          BY <2>3, <5>2 DEF Prefix, OnlyOf
      <4> QED
        BY <4>2, <4>3
    <3>9. Keeps(at, c)'
      <4>1. /\ Share(at, Total(c))' = Share(at, Total(c))
            /\ Share(at, page[at].total)' = Share(at, g.total)
        BY <2>1, <3>1, <3>7 DEF Share, First, Total, Packets
      <4>2. /\ page'[at'].confid = c /\ page'[at'].num = g.num
            /\ page'[at'].total = total /\ page'[at'].node = nodes
        BY <2>1, <3>7
      <4>3. /\ g.num # Blank /\ total <= N
            /\ g.num >= Share(at, Total(c)) /\ g.num >= Share(at, g.total)
        BY <3>1, <3>2 DEF Keeps
      <4>4. Total(c)' = Total(c) /\ Whole(c)' = Whole(c) /\ First(at)' = f
        BY <2>1 DEF Total, Packets, Whole, First
      <4> QED
        BY <3>8, <4>1, <4>2, <4>3, <4>4 DEF Keeps, N, Place
    <3>10. Programming'
      <4>1. /\ page'[at'].confid = c /\ page'[at'].num = NumIn(at)
            /\ page'[at'].total = total
        BY <2>1, <3>1, <3>7
      <4> QED
        BY <2>1, <2>3, <2>6, <2>7, <4>1 DEF Programming
    <3> QED
      BY <2>8, <3>9, <3>10
  <2> QED
    BY <2>9, <2>10, <2>11, <2>12
<1> QED
  BY <1>1, <1>2

LEMMA ErasePageKeeps ==
  ASSUME Sound, PagesKeep, ErasePage
  PROVE  PagesKeep'
<1>1. /\ at' = at /\ zonetmp' = zonetmp /\ mistaken' = mistaken
      /\ at \in Page /\ page'[at] = Erased
      /\ \A p \in Page : p # at => page'[p] = page[p]
  BY DEF ErasePage, Sound, Typed
<1>2. CASE mistaken
  BY <1>1, <1>2 DEF PagesKeep
<1>3. CASE ~mistaken
  <2>1. Programming'
    BY <1>1 DEF Programming, Erased
  <2>2. ASSUME NEW p \in Page, page'[p].total # Blank
        PROVE  \E c \in Conf : Keeps(p, c)'
    <3>1. p # at /\ page'[p] = page[p]
      BY <1>1, <2>2 DEF Erased
    <3>2. PICK c \in Conf : Keeps(p, c)
      BY <1>3, <2>2, <3>1 DEF PagesKeep
    <3>3. Keeps(p, c)'
      BY <3>1, <3>2
         DEF Keeps, Holds, Share, First, Total, Packets, Whole, Place, N
    <3> QED
      BY <3>3
  <2> QED
    BY <2>1, <2>2 DEF PagesKeep
<1> QED
  BY <1>2, <1>3

(* Nothing else touches the pages.                                         *)
LEMMA NextPagesKeep ==
  Sound /\ Staged /\ PagesKeep /\ [Next]_vars => PagesKeep'
<1> SUFFICES ASSUME Sound, Staged, PagesKeep, [Next]_vars PROVE PagesKeep'
  OBVIOUS
<1>1. CASE ErasePage
  BY <1>1, ErasePageKeeps
<1>2. CASE ProgramPage
  BY <1>2, ProgramPageKeeps
<1>3. CASE /\ page' = page
           /\ mistaken => mistaken'
           /\ \/ pc' # "program"
              \/ pc' = pc /\ at' = at /\ zonetmp' = zonetmp
  <2>1. CASE mistaken'
    BY <2>1 DEF PagesKeep
  <2>2. CASE ~mistaken'
    <3>1. ASSUME NEW p \in Page, page'[p].total # Blank
          PROVE  \E c \in Conf : Keeps(p, c)'
      <4>1. PICK c \in Conf : Keeps(p, c)
        BY <1>3, <2>2, <3>1 DEF PagesKeep
      <4>2. Keeps(p, c)'
        BY <1>3, <4>1
           DEF Keeps, Holds, Share, First, Total, Packets, Whole, Place, N
      <4> QED
        BY <4>2
    <3>2. pc' = "program" => Programming'
      BY <1>3, <2>2 DEF PagesKeep, Programming, NumIn, First
    <3> QED
      BY <3>1, <3>2 DEF PagesKeep
  <2> QED
    BY <2>1, <2>2
<1>4. CASE (\E c \in Conf : BeginUpload(c)) \/ UNCHANGED vars
  BY <1>3, <1>4 DEF BeginUpload, vars
<1>5. CASE \E answered \in BOOLEAN : RecvZoneConfig(answered)
  BY <1>3, <1>5 DEF RecvZoneConfig, TakePacket
<1>6. CASE FlashUpload \/ EraseFails \/ PageDone \/ ReadBack \/ Reset
  <2>1. page' = page /\ mistaken' = mistaken /\ pc' # "program"
    BY <1>6 DEF FlashUpload, EraseFails, PageDone, ReadBack, Reset
  <2> QED
    BY <1>3, <2>1
<1> QED
  BY <1>1, <1>2, <1>4, <1>5, <1>6 DEF Next

LEMMA InitPagesKeep == Init => PagesKeep
<1> SUFFICES ASSUME Init PROVE PagesKeep
  OBVIOUS
<1>1. pc # "program" /\ \A p \in Page : page[p].total = Blank
  BY DEF Init, Erased
<1> QED
  BY <1>1 DEF PagesKeep

(* The n nodes of two pages that count no more than n are all theirs.      *)
LEMMA Shared ==
  ASSUME NEW n \in Nat, NEW a \in Nat, NEW b \in Nat,
         n <= N, a >= Share(1, n), b >= Share(2, n)
  PROVE  /\ n <= a + b
         /\ a + b = n => a = IF n <= Half THEN n ELSE Half
<1> DEFINE x == Share(1, n)
           y == Share(2, n)
<1>1. /\ x = IF n <= 0 THEN 0 ELSE IF n <= 0 + Half THEN n - 0 ELSE Half
      /\ y = IF n <= Half THEN 0 ELSE IF n <= Half + Half THEN n - Half ELSE Half
  BY FirstIs DEF Share
<1>2. a >= x /\ b >= y
  OBVIOUS
<1> HIDE DEF x, y
<1> QED
  BY <1>1, <1>2, Numbered


(* What a start would read is one configuration, all of it and nothing     *)
(* else, if the nodes the pages count are in them.                         *)
LEMMA StoredWhole ==
  ASSUME Sound, PagesKeep, ~mistaken, Accepted, ~Torn
  PROVE  InForce(Stored) = Whole(Stored.confid)
<1> DEFINE t == page[2].total
           n1 == page[1].num
           n2 == page[2].num
<1>1. /\ page[1] \in Pages /\ page[2] \in Pages /\ 1 \in Page /\ 2 \in Page
  BY DEF Sound, Typed, Page
<1>2. /\ page[1].confid = page[2].confid /\ page[1].total = t
      /\ Num(1) + Num(2) = t /\ t <= N /\ t \in Nat /\ t # Blank
  BY <1>1, Numbered DEF Accepted, Pages
<1>3. PICK c \in Conf : Keeps(1, c)
  BY <1>1, <1>2 DEF PagesKeep
<1>4. Keeps(2, c)
  <2>1. PICK d \in Conf : Keeps(2, d)
    BY <1>1, <1>2 DEF PagesKeep
  <2>2. d = c
    BY <1>2, <1>3, <2>1 DEF Keeps
  <2> QED
    BY <2>1, <2>2
<1>5. /\ n1 \in Nat /\ n2 \in Nat /\ Num(1) = n1 /\ Num(2) = n2
      /\ n1 + n2 = t
  <2>1. n1 # Blank /\ n2 # Blank
    BY <1>3, <1>4 DEF Keeps
  <2>2. n1 \in Nat /\ n2 \in Nat
    BY <1>1, <2>1, Numbered DEF Pages
  <2> QED
    BY <1>2, <2>1, <2>2 DEF Num
<1>6. /\ Total(c) \in Nat /\ Total(c) > 0 /\ Total(c) <= t
      /\ n1 = IF t <= Half THEN t ELSE Half
  <2>1. Total(c) \in Nat /\ Total(c) > 0 /\ Total(c) <= N
    BY SentIs
  <2>2. /\ n1 >= Share(1, Total(c)) /\ n2 >= Share(2, Total(c))
        /\ n1 >= Share(1, t) /\ n2 >= Share(2, t)
    BY <1>2, <1>3, <1>4 DEF Keeps
  <2>3. Total(c) <= n1 + n2
    BY <1>5, <2>1, <2>2, Shared
  <2>4. n1 = IF t <= Half THEN t ELSE Half
    BY <1>2, <1>5, <2>2, Shared
  <2> QED
    BY <1>5, <2>1, <2>3, <2>4
<1>7. /\ n1 <= Len(page[1].node) /\ n2 <= Len(page[2].node)
      /\ Len(page[1].node) \in Nat /\ Len(page[2].node) \in Nat
  <2>1. Len(page[1].node) \in Nat /\ Len(page[2].node) \in Nat
    BY <1>1 DEF Pages
  <2>2. ~(Len(page[1].node) < n1) /\ ~(Len(page[2].node) < n2)
    BY <1>1, <1>2 DEF Torn
  <2> QED
    BY <1>5, <2>1, <2>2
<1>8. ASSUME NEW i \in Place
      PROVE  /\ i < t => Stored.zoneNode[i] \in Whole(c)
             /\ i < Total(c) => Stored.zoneNode[i] = <<c, i + 1>>
             /\ ~(i < t) => Stored.zoneNode[i] = Absent
  <2>1. i \in Nat
    BY Numbered DEF Place
  <2>2. Stored.zoneNode[i] =
          IF i < n1 THEN NodeAt(1, i)
          ELSE IF i < n1 + n2 THEN NodeAt(2, i - n1)
          ELSE Absent
    BY <1>5 DEF Stored, ReadFrom, NoConfig
  <2>3. CASE i < n1
    <3>1. /\ i < Len(page[1].node) /\ 0 <= i /\ i < 0 + Len(page[1].node)
          /\ i - 0 + 1 = i + 1 /\ i < t
      BY <1>5, <1>7, <2>1, <2>3
    <3>2. Holds(1, i)
      BY <3>1, FirstIs DEF Holds
    <3>3. /\ i < Total(c) => page[1].node[i + 1] = <<c, i + 1>>
          /\ i < t => page[1].node[i + 1] \in Whole(c)
      BY <1>2, <1>3, <3>1, <3>2, FirstIs DEF Keeps
    <3>4. Stored.zoneNode[i] = page[1].node[i + 1]
      BY <2>2, <2>3, <3>1 DEF NodeAt
    <3> QED
      BY <3>1, <3>3, <3>4
  <2>4. CASE ~(i < n1) /\ i < t
    <3>1. n1 = Half /\ i - n1 = i - Half /\ i < n1 + n2
      BY <1>2, <1>5, <1>6, <2>1, <2>4, Numbered
    <3>2. /\ i - Half < Len(page[2].node)
          /\ Half <= i /\ i < Half + Len(page[2].node)
      <4>1. /\ Half \in Nat /\ n2 \in Nat /\ Len(page[2].node) \in Nat
            /\ n2 <= Len(page[2].node)
        BY <1>5, <1>7, Numbered
      <4>2. Half <= i /\ i < Half + n2
        BY <2>1, <2>4, <3>1, <4>1
      <4> QED
        BY <2>1, <4>1, <4>2
    <3>3. Holds(2, i)
      BY <3>2, FirstIs DEF Holds
    <3>4. /\ i < Total(c) => page[2].node[i - Half + 1] = <<c, i + 1>>
          /\ i < t => page[2].node[i - Half + 1] \in Whole(c)
      BY <1>4, <3>3, FirstIs DEF Keeps
    <3>5. Stored.zoneNode[i] = NodeAt(2, i - Half)
      BY <2>2, <2>4, <3>1
    <3>6. Stored.zoneNode[i] = page[2].node[i - Half + 1]
      BY <3>2, <3>5 DEF NodeAt
    <3> QED
      BY <2>4, <3>4, <3>6
  <2>5. CASE ~(i < n1) /\ ~(i < t)
    <3>1. Stored.zoneNode[i] = Absent
      BY <1>5, <2>2, <2>5
    <3>2. ~(i < Total(c))
      BY <1>2, <1>6, <2>1, <2>5
    <3> QED
      BY <2>5, <3>1, <3>2
  <2> QED
    BY <2>3, <2>4, <2>5
<1>9. Whole(c) = {<<c, k>> : k \in 1 .. Total(c)} /\ Absent \notin Whole(c)
  BY Numbered DEF Whole, Absent
<1>10. InForce(Stored) \subseteq Whole(c)
  <2>1. \A i \in Place : Stored.zoneNode[i] \in Whole(c) \cup {Absent}
    BY <1>8
  <2> QED
    BY <2>1 DEF InForce
<1>11. Whole(c) \subseteq InForce(Stored)
  <2> SUFFICES ASSUME NEW k \in 1 .. Total(c)
               PROVE  <<c, k>> \in InForce(Stored)
    BY <1>9
  <2> DEFINE i == k - 1
  <2>1. i \in Place /\ i < Total(c) /\ i + 1 = k
    BY <1>2, <1>6, Numbered DEF Place
  <2> HIDE DEF i
  <2>2. Stored.zoneNode[i] = <<c, k>>
    BY <1>8, <2>1
  <2>3. <<c, k>> # Absent
    BY <1>9
  <2> QED
    BY <2>1, <2>2, <2>3 DEF InForce
<1>12. Stored.confid = c
  BY <1>3 DEF Stored, ReadFrom, Keeps
<1> QED
  BY <1>10, <1>11, <1>12

(* A configuration in force is one the server sent, all of it and nothing  *)
(* else, unless a packet was taken for one of another configuration or a   *)
(* reset fell into the programming of a page's nodes.                      *)
THEOREM WholeInForce == Spec => []InForceWhole
<1> DEFINE Inv == Sound /\ Durable /\ Staged /\ PagesKeep
<1>1. Init => Inv
  BY InitSound, InitStaged, InitPagesKeep DEF Init, Durable
<1>2. Inv /\ [Next]_vars => Inv'
  BY NextSound, NextDurable, NextStaged, NextPagesKeep
<1>3. Inv => InForceWhole
  <2> SUFFICES ASSUME Inv, zoneConfig.confid # 0, ~mistaken, ~Torn
               PROVE  InForce(zoneConfig) = Whole(zoneConfig.confid)
    BY DEF InForceWhole
  <2>1. Accepted /\ zoneConfig = Stored
    BY NoConfigIs DEF Durable
  <2> QED
    BY <2>1, StoredWhole
<1> QED
  BY <1>1, <1>2, <1>3, PTL DEF Spec

-----------------------------------------------------------------------------
(* What was received was written to zonetmp.                               *)
Used == \A i \in Place :
          i < zonetmp.zonetotalnum => zonetmp.zoneNode[i] # Unused

LEMMA RecvZoneConfigUsed ==
  ASSUME Sound, Used, NEW answered \in BOOLEAN, RecvZoneConfig(answered)
  PROVE  Used'
<1>1. PICK c \in Conf : server.confid = c
  BY Received
<1>2. PICK k \in 1 .. Packets(c) : server.next = k
  BY <1>1, Received
<1>3. TakePacket(c, k) /\ Typed
  BY <1>1, <1>2, Received DEF Sound
<1>4. CASE Ignores(c, k)
  <2>1. /\ zonetmp'.zonetotalnum = zonetmp.zonetotalnum
        /\ zonetmp'.zoneNode = zonetmp.zoneNode
    BY <1>3, <1>4, PacketIgnored
  <2> QED
    BY <2>1 DEF Used, Unused, Place, N
<1>5. CASE ~Ignores(c, k)
  <2>1. PutIn(c, k, Base(k))
    BY <1>3, <1>5, PacketAdded
  <2>2. ASSUME NEW i \in Place, i < zonetmp'.zonetotalnum
        PROVE  zonetmp'.zoneNode[i] # Unused
    <3>1. CASE Base(k) <= i
      <4>1. zonetmp'.zoneNode[i] = <<c, Sent(c, k - 1) + (i - Base(k)) + 1>>
        BY <2>1, <2>2, <3>1 DEF PutIn
      <4>2. c # 0
        BY Numbered
      <4> QED
        BY <4>1, <4>2 DEF Unused
    <3>2. CASE ~(Base(k) <= i)
      <4>1. zonetmp'.zoneNode[i] = zonetmp.zoneNode[i]
        BY <2>1, <3>2 DEF PutIn
      <4>2. i < zonetmp.zonetotalnum
        <5>1. /\ i \in Nat /\ zonetmp.zonetotalnum \in Nat
              /\ Base(k) \in {0, zonetmp.zonetotalnum}
          BY <1>3, Numbered DEF Typed, Stages, Place, Base
        <5> QED
          BY <3>2, <5>1
      <4> QED
        BY <4>1, <4>2 DEF Used
    <3> QED
      BY <3>1, <3>2
  <2> QED
    BY <2>2 DEF Used, Unused, Place, N
<1> QED
  BY <1>4, <1>5

LEMMA NextUsed == Sound /\ Used /\ [Next]_vars => Used'
<1> SUFFICES ASSUME Sound, Used, [Next]_vars PROVE Used'
  OBVIOUS
<1>1. CASE /\ zonetmp'.zonetotalnum = zonetmp.zonetotalnum
           /\ zonetmp'.zoneNode = zonetmp.zoneNode
  BY <1>1 DEF Used, Unused, Place, N
<1>2. CASE \E answered \in BOOLEAN : RecvZoneConfig(answered)
  BY <1>2, RecvZoneConfigUsed
<1>3. CASE ReadBack
  BY <1>1, <1>3 DEF ReadBack, Sound, Typed, Stages
<1>4. CASE Reset
  <2>1. zonetmp'.zonetotalnum = 0
    BY <1>4 DEF Reset, Empty
  <2>2. \A i \in Place : ~(i < 0)
    BY Numbered DEF Place
  <2> QED
    BY <2>1, <2>2 DEF Used, Place, N
<1>5. CASE \/ \E c \in Conf : BeginUpload(c)
           \/ FlashUpload \/ ErasePage \/ EraseFails \/ ProgramPage
           \/ PageDone \/ UNCHANGED vars
  BY <1>1, <1>5 DEF BeginUpload, FlashUpload, ErasePage, EraseFails,
                    ProgramPage, PageDone, vars
<1> QED
  BY <1>2, <1>3, <1>4, <1>5 DEF Next

(* When nothing lies behind what was received, each page counts its share. *)
LEMMA NumInExact ==
  ASSUME Typed, NEW p \in Page, Used, Fresh, zonetmp.zonetotalnum <= N
  PROVE  NumIn(p) = Share(p, zonetmp.zonetotalnum)
<1> DEFINE a == First(p)
           n == zonetmp.zonetotalnum
           m == Share(p, n)
           S == {i \in a .. a + Half - 1 : zonetmp.zoneNode[i] # Unused}
           J == a .. a + m - 1
<1>1. n \in Nat
  BY DEF Typed, Stages
<1>2. NumIn(p) >= m /\ NumIn(p) \in Nat
  <2>1. NumIn(p) \in 0 .. N
    BY NumInIs
  <2> QED
    BY <1>1, <2>1, NumInCounts, Numbered DEF Used
<1>3. a \in Nat /\ a + Half <= N
  <2>1. p = 1 \/ p = 2
    BY DEF Page
  <2> QED
    BY <2>1, FirstIs, Numbered
<1>4. \A i \in Place : i >= n => zonetmp.zoneNode[i] = Unused
  BY DEF Fresh
<1>5. /\ m \in Nat /\ m <= Half
      /\ m < Half => n <= a + m
  <2> HIDE DEF a, n
  <2> QED
    BY <1>1, <1>3, Numbered DEF Share, a
<1> HIDE DEF m, a, n
<1>6. S \subseteq J
  <2> SUFFICES ASSUME NEW i \in S PROVE i \in J
    OBVIOUS
  <2>1. /\ i \in Nat /\ a <= i /\ i <= a + Half - 1 /\ i \in Place
        /\ zonetmp.zoneNode[i] # Unused
    BY <1>3, Numbered DEF Place
  <2>2. ~(i >= n)
    BY <1>4, <2>1
  <2>3. i <= a + m - 1
    BY <1>1, <1>3, <1>5, <2>1, <2>2, Numbered
  <2> QED
    BY <1>3, <1>5, <2>1, <2>3
<1>7. IsFiniteSet(J) /\ Cardinality(J) = m
  <2> DEFINE b == a + m - 1
  <2>1. a \in Int /\ b \in Int /\ (IF a > b THEN 0 ELSE b - a + 1) = m
    BY <1>3, <1>5
  <2> HIDE DEF b
  <2>2. /\ IsFiniteSet(a .. b)
        /\ Cardinality(a .. b) = IF a > b THEN 0 ELSE b - a + 1
    BY <2>1, FS_Interval
  <2> QED
    BY <2>1, <2>2 DEF b
<1>8. NumIn(p) = Cardinality(S)
  BY DEF NumIn, a
<1>9. Cardinality(S) <= Cardinality(J)
  <2> HIDE DEF J, S
  <2> QED
    BY <1>6, <1>7, FS_Subset
<1> HIDE DEF J, S
<1> QED
  BY <1>2, <1>5, <1>7, <1>8, <1>9 DEF m, n

(* What was programmed is read back as it was received, split over the two *)
(* pages or not, if it fits and no larger configuration was received since *)
(* the last reset.                                                         *)
THEOREM ReceivedIsReadBack == Spec => ReadBackIsReceived
<1>1. Init => Sound /\ Used
  <2>1. Init => Used
    <3>1. \A i \in Place : ~(i < 0)
      BY Numbered DEF Place
    <3> QED
      BY <3>1 DEF Init, Used, Empty
  <2> QED
    BY <2>1, InitSound
<1>2. Sound /\ Used /\ [Next]_vars => Sound' /\ Used'
  BY NextSound, NextUsed
<1>3. Sound /\ Used /\ [Next]_vars =>
        [ReadBack /\ Fresh /\ zonetmp.zonetotalnum <= N
           /\ (\A p \in Page : page[p] = Image(p))
           => /\ zoneConfig'.confid = zonetmp.confid
              /\ \A i \in 0 .. zonetmp.zonetotalnum - 1 :
                   zoneConfig'.zoneNode[i] = zonetmp.zoneNode[i]]_vars
  <2> SUFFICES ASSUME Sound, Used, ReadBack, Fresh, zonetmp.zonetotalnum <= N,
                      \A p \in Page : page[p] = Image(p)
               PROVE  /\ zoneConfig'.confid = zonetmp.confid
                      /\ \A i \in 0 .. zonetmp.zonetotalnum - 1 :
                           zoneConfig'.zoneNode[i] = zonetmp.zoneNode[i]
    OBVIOUS
  <2> DEFINE n == zonetmp.zonetotalnum
             n1 == NumIn(1)
             n2 == NumIn(2)
  <2>1. Typed /\ n \in Nat /\ n <= N /\ 1 \in Page /\ 2 \in Page
    BY DEF Sound, Typed, Stages, Page
  <2>2. ASSUME NEW p \in Page
        PROVE  /\ page[p].confid = zonetmp.confid
               /\ page[p].num = NumIn(p) /\ page[p].total = n
               /\ Len(page[p].node) = Half
               /\ \A j \in 1 .. Half :
                    page[p].node[j] = zonetmp.zoneNode[First(p) + j - 1]
    <3> DEFINE nodes == [j \in 1 .. Half |->
                           zonetmp.zoneNode[First(p) + j - 1]]
               l == Len(page[p].node)
    <3>1. page[p] = [confid |-> zonetmp.confid, num |-> NumIn(p),
                     total |-> zonetmp.zonetotalnum, node |-> nodes]
      BY DEF Image
    <3>2. /\ DOMAIN nodes = 1 .. Half
          /\ \A j \in 1 .. Half :
               nodes[j] = zonetmp.zoneNode[First(p) + j - 1]
      OBVIOUS
    <3> HIDE DEF nodes
    <3>3. /\ page[p].confid = zonetmp.confid
          /\ page[p].num = NumIn(p) /\ page[p].total = n
          /\ page[p].node = nodes
      BY <3>1
    <3>4. l \in Nat /\ 1 .. l = 1 .. Half
      <4>1. page[p].node \in Seq(Node \cup {Unused})
        BY <2>1 DEF Typed, Pages
      <4> QED
        BY <3>2, <3>3, <4>1
    <3> HIDE DEF l, n
    <3>5. l = Half
      <4>1. /\ l > 0 => l \in 1 .. Half
            /\ Half > 0 => Half \in 1 .. l
        <5>1. /\ l > 0 => l \in 1 .. l
              /\ Half > 0 => Half \in 1 .. Half
          BY <3>4, Numbered
        <5> QED
          BY <3>4, <5>1
      <4> QED
        BY <3>4, <4>1, Numbered
    <3> QED
      BY <3>2, <3>3, <3>5 DEF l
  <2>3. n1 = Share(1, n) /\ n2 = Share(2, n)
    BY <2>1, NumInExact
  <2>4. /\ n1 = IF n <= Half THEN n ELSE Half
        /\ n1 + n2 = n /\ n1 \in Nat /\ n2 \in Nat
        /\ n1 # Blank /\ n2 # Blank /\ n1 <= Half /\ n2 <= Half
    <3>1. /\ Share(1, n) = IF n <= 0 THEN 0
                           ELSE IF n <= 0 + Half THEN n - 0 ELSE Half
          /\ Share(2, n) = IF n <= Half THEN 0
                           ELSE IF n <= Half + Half THEN n - Half ELSE Half
      BY FirstIs DEF Share
    <3> HIDE DEF n, n1, n2
    <3> QED
      BY <2>1, <2>3, <3>1, Numbered
  <2>5. Num(1) = n1 /\ Num(2) = n2
    BY <2>1, <2>2, <2>4 DEF Num
  <2>6. Accepted
    <3>1. Num(1) + Num(2) = n
      BY <2>4, <2>5
    <3> QED
      BY <2>1, <2>2, <3>1 DEF Accepted
  <2>7. zoneConfig' = ReadFrom(zoneConfig)
    BY <2>6 DEF ReadBack
  <2>8. ASSUME NEW i \in 0 .. n - 1
        PROVE  zoneConfig'.zoneNode[i] = zonetmp.zoneNode[i]
    <3>1. i \in Place /\ i \in Nat /\ i < n
      BY <2>1, Numbered DEF Place
    <3>2. zoneConfig'.zoneNode[i] =
            IF i < n1 THEN NodeAt(1, i)
            ELSE IF i < n1 + n2 THEN NodeAt(2, i - n1)
            ELSE zoneConfig.zoneNode[i]
      BY <2>5, <2>7, <3>1 DEF ReadFrom
    <3>3. CASE i < n1
      <4>1. i < Half /\ i + 1 \in 1 .. Half /\ 0 + (i + 1) - 1 = i
        BY <2>4, <3>1, <3>3, Numbered
      <4>2. NodeAt(1, i) = page[1].node[i + 1]
        BY <2>1, <2>2, <4>1 DEF NodeAt
      <4>3. page[1].node[i + 1] = zonetmp.zoneNode[i]
        BY <2>1, <2>2, <4>1, FirstIs
      <4> QED
        BY <3>2, <3>3, <4>2, <4>3
    <3>4. CASE ~(i < n1)
      <4>1. /\ n1 = Half /\ i < n1 + n2 /\ i - n1 < Half
            /\ (i - n1) + 1 \in 1 .. Half /\ Half + ((i - n1) + 1) - 1 = i
        <5> HIDE DEF n, n1, n2
        <5> QED
          BY <2>1, <2>4, <3>1, <3>4, Numbered
      <4>2. NodeAt(2, i - n1) = page[2].node[(i - n1) + 1]
        BY <2>1, <2>2, <4>1 DEF NodeAt
      <4>3. page[2].node[(i - n1) + 1] = zonetmp.zoneNode[i]
        BY <2>1, <2>2, <4>1, FirstIs
      <4> QED
        BY <3>2, <3>4, <4>1, <4>2, <4>3
    <3> QED
      BY <3>3, <3>4
  <2>9. zoneConfig'.confid = zonetmp.confid
    BY <2>1, <2>2, <2>7 DEF ReadFrom
  <2> QED
    BY <2>8, <2>9
<1> QED
  BY <1>1, <1>2, <1>3, PTL DEF Spec, ReadBackIsReceived
=============================================================================
