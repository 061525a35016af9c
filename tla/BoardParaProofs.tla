--------------------------- MODULE BoardParaProofs ---------------------------
(***************************************************************************)
(* The reassembly of CanSegment, and the storing of parameters on top of   *)
(* it, for messages of any number and length, any frame length and buffer, *)
(* and any losses, resets and failed erasures.                             *)
(*                                                                         *)
(* First, of the frames alone: only whole messages are handled.  By itself *)
(* HandledWhole is not inductive: the strengthening says what the board's  *)
(* buffer holds while a message is being put together, once for the case   *)
(* that no FIRST frame was lost and once for the case that no later one    *)
(* was.  Then, of the composition: it leaves the frames alone, so what is  *)
(* proved of them holds of it; what the interrupt can hand over although   *)
(* frames were lost; the types; and that a reset while nothing is being    *)
(* stored changes no parameter in force.                                   *)
(***************************************************************************)
EXTENDS BoardPara, SequenceTheorems, TLAPS

(* The first n parts of m.                                                 *)
Parts(m, n) == [j \in 1 .. n |-> <<m, j - 1>>]

SegTypeOK ==
  /\ outbox \in Seq(Message) /\ next \in Nat
  /\ recv_buff \in Seq(Message \X Nat)
  /\ g_SegPolo \in {"NONE", "FIRST"} /\ g_SegNum \in Nat
  /\ g_SegBytes \in Int
  /\ handled \in Seq(Message \X Nat)
  /\ sends \in Nat /\ headlost \in BOOLEAN /\ taillost \in BOOLEAN

(* The number of the next frame is one of the message's.                   *)
OnTheWay == IF outbox = <<>> THEN next = 0 ELSE next <= LastFrame(Msg)

Begun == g_SegPolo = "FIRST"

BuffLength ==
  Begun => Len(recv_buff) = g_SegNum + 1 /\ g_SegBytes = PackLen * (g_SegNum + 1)

(* While no FIRST frame is lost, what is begun when a later frame comes    *)
(* belongs to the message of this frame.                                   *)
HeadsArrive ==
  ~headlost /\ Begun /\ next > 0 => recv_buff = Parts(Msg, g_SegNum + 1)

(* While no later frame is lost, what is begun is complete so far.         *)
TailsArrive ==
  ~taillost /\ Begun => /\ outbox # <<>> /\ next > 0
                        /\ g_SegNum = next - 1
                        /\ recv_buff = Parts(Msg, next)

IInv ==
  /\ SegTypeOK /\ OnTheWay /\ BuffLength
  /\ HeadsArrive /\ TailsArrive
  /\ HandledWhole
-----------------------------------------------------------------------------
(* The number of a message's last frame is a natural number.               *)
LEMMA LastFrameType ==
  ASSUME NEW m \in Message
  PROVE  LastFrame(m) \in Nat
<1>1. PackLen \in Nat \ {0} /\ Bytes[m] \in Nat
  BY SegmentAssumption
<1>2. CASE Bytes[m] <= PackLen
  BY <1>2 DEF LastFrame
<1>3. CASE Bytes[m] > PackLen
  <2>1. PICK p \in Nat \ {0} : p = PackLen
    BY <1>1
  <2>2. PICK b \in Nat : b = Bytes[m] - 1
    BY <1>1, <1>3
  <2>3. b \div p \in Nat
    OBVIOUS
  <2> QED
    BY <1>1, <1>3, <2>1, <2>2, <2>3 DEF LastFrame
<1> QED
  BY <1>1, <1>2, <1>3

(* A frame's bytes are an integer number.                                  *)
LEMMA DataLenType ==
  ASSUME NEW m \in Message, NEW k \in Nat
  PROVE  DataLen(m, k) \in Int
<1>1. PackLen \in Nat /\ Bytes[m] \in Nat
  BY SegmentAssumption
<1>2. PICK p \in Nat : p = PackLen
  BY <1>1
<1>3. k * p \in Int
  OBVIOUS
<1>4. k * PackLen \in Int
  BY <1>2, <1>3
<1> QED
  BY <1>1, <1>4 DEF DataLen

(* The division behind the number of the last frame.                       *)
LEMMA Quotient ==
  ASSUME NEW b \in Nat, NEW p \in Nat \ {0}, NEW k \in Nat, k < b \div p
  PROVE  p * k + p <= b
<1>1. PICK q \in Nat : q = b \div p
  OBVIOUS
<1>2. p * q <= b
  BY <1>1
<1>3. p * (k + 1) <= p * q
  BY <1>1
<1> QED
  BY <1>2, <1>3

(* A message's frames hold no more than the message.                       *)
LEMMA Fits ==
  ASSUME NEW m \in Message, NEW k \in Nat, k > 0, k <= LastFrame(m)
  PROVE  PackLen * k + DataLen(m, k) <= Bytes[m]
<1>1. PICK p \in Nat \ {0} : p = PackLen
  BY SegmentAssumption
<1>2. PICK b \in Nat : b = Bytes[m]
  BY SegmentAssumption
<1>3. b > p /\ LastFrame(m) = (b - 1) \div p
  BY <1>1, <1>2 DEF LastFrame
<1>4. CASE k < LastFrame(m)
  <2>1. p * k + p <= b - 1
    BY <1>3, <1>4, Quotient
  <2> QED
    BY <1>1, <1>2, <1>4, <2>1 DEF DataLen
<1>5. CASE k = LastFrame(m)
  <2>1. p * k = k * p /\ k * p \in Nat
    OBVIOUS
  <2>2. DataLen(m, k) = b - k * p
    BY <1>1, <1>2, <1>3, <1>5 DEF DataLen
  <2> QED
    BY <1>1, <1>2, <2>1, <2>2
<1> QED
  BY <1>4, <1>5, LastFrameType

(* One more part.                                                          *)
LEMMA PartsAppend ==
  ASSUME NEW m \in Message, NEW n \in Nat
  PROVE  /\ Append(Parts(m, n), <<m, n>>) = Parts(m, n + 1)
         /\ Parts(m, n) \in Seq(Message \X Nat)
         /\ Len(Parts(m, n)) = n
<1>1. Parts(m, n) \in Seq(Message \X Nat) /\ Len(Parts(m, n)) = n
  BY DEF Parts
<1>2. Append(Parts(m, n), <<m, n>>) = Parts(m, n + 1)
  BY <1>1 DEF Parts
<1> QED
  BY <1>1, <1>2

(* A whole message is all of its parts.                                    *)
LEMMA WholeIsParts ==
  ASSUME NEW m \in Message
  PROVE  Whole(m) = Parts(m, LastFrame(m) + 1)
BY LastFrameType DEF Whole, Parts

(* The four kinds of frames exclude each other.                            *)
LEMMA PoloKinds ==
  ASSUME NEW m \in Message, NEW k \in Nat, k <= LastFrame(m)
  PROVE  /\ SegPolo(m, k) \in {"NONE", "FIRST", "MIDDLE", "FINAL"}
         /\ SegPolo(m, k) = "NONE"   <=> LastFrame(m) = 0
         /\ SegPolo(m, k) = "FIRST"  <=> LastFrame(m) # 0 /\ k = 0
         /\ SegPolo(m, k) = "MIDDLE" <=> k # 0 /\ k < LastFrame(m)
         /\ SegPolo(m, k) = "FINAL"  <=> k # 0 /\ k = LastFrame(m)
BY LastFrameType DEF SegPolo
-----------------------------------------------------------------------------
(* The frame that leaves the path is a frame of the message.               *)
LEMMA Leaving ==
  ASSUME IInv, OnItsWay
  PROVE  /\ Msg \in Message /\ LastFrame(Msg) \in Nat
         /\ next \in Nat /\ next <= LastFrame(Msg)
         /\ <<Msg, next>> \in Message \X Nat
         /\ DataLen(Msg, next) \in Int
<1>1. Msg \in Message
  BY DEF IInv, SegTypeOK, OnItsWay, Msg
<1> QED
  BY <1>1, LastFrameType, DataLenType DEF IInv, SegTypeOK, OnTheWay, OnItsWay

(* What is on its way stays well formed.                                   *)
LEMMA LeavesOnTheWay ==
  ASSUME IInv, OnItsWay, Leaves
  PROVE  /\ outbox' \in Seq(Message) /\ next' \in Nat
         /\ OnTheWay'
         /\ next' > 0 => outbox' = outbox /\ next' = next + 1
                         /\ next < LastFrame(Msg)
         /\ next < LastFrame(Msg) => outbox' = outbox /\ next' = next + 1
<1>1. /\ outbox \in Seq(Message) /\ outbox # <<>>
  BY DEF IInv, SegTypeOK, OnItsWay
<1>2. CASE next = LastFrame(Msg)
  <2>1. outbox' = Tail(outbox) /\ next' = 0
    BY <1>2 DEF Leaves
  <2>2. outbox' \in Seq(Message)
    BY <1>1, <2>1
  <2>3. OnTheWay'
    <3>1. CASE outbox' = <<>>
      BY <2>1, <3>1 DEF OnTheWay
    <3>2. CASE outbox' # <<>>
      <4>1. Msg' \in Message
        BY <2>2, <3>2 DEF Msg
      <4>2. LastFrame(Msg') \in Nat
        BY <4>1, LastFrameType
      <4>3. LastFrame(Msg)' = LastFrame(Msg')
        BY DEF LastFrame
      <4> QED
        BY <2>1, <3>2, <4>2, <4>3 DEF OnTheWay
    <3> QED
      BY <3>1, <3>2
  <2> QED
    BY <1>2, <2>1, <2>2, <2>3, Leaving
<1>3. CASE next # LastFrame(Msg)
  <2>1. outbox' = outbox /\ next' = next + 1
    BY <1>3 DEF Leaves
  <2>2. Msg' = Msg
    BY <2>1 DEF Msg
  <2>3. next < LastFrame(Msg)
    BY <1>3, Leaving
  <2>4. LastFrame(Msg)' = LastFrame(Msg)
    BY <2>2 DEF LastFrame
  <2>5. OnTheWay'
    BY <1>1, <2>1, <2>3, <2>4, Leaving DEF OnTheWay
  <2> QED
    BY <1>1, <2>1, <2>3, <2>5, Leaving
<1> QED
  BY <1>2, <1>3
-----------------------------------------------------------------------------
(* The strengthening holds at the start.                                   *)
LEMMA InitInv == SegInit => IInv
<1> SUFFICES ASSUME SegInit PROVE IInv
  OBVIOUS
<1>1. SegTypeOK
  <2>1. /\ outbox \in Seq(Message) /\ recv_buff \in Seq(Message \X Nat)
        /\ handled \in Seq(Message \X Nat)
    BY EmptySeq DEF SegInit
  <2>2. next \in Nat /\ g_SegNum \in Nat /\ g_SegBytes \in Int
        /\ sends \in Nat /\ g_SegPolo \in {"NONE", "FIRST"}
    BY DEF SegInit
  <2>3. headlost \in BOOLEAN /\ taillost \in BOOLEAN
    BY DEF SegInit
  <2> QED
    BY <2>1, <2>2, <2>3 DEF SegTypeOK
<1>2. OnTheWay
  BY DEF SegInit, OnTheWay
<1>3. ~Begun
  BY DEF SegInit, Begun
<1>4. HandledWhole
  BY DEF SegInit, HandledWhole
<1> QED
  BY <1>1, <1>2, <1>3, <1>4 DEF IInv, BuffLength, HeadsArrive, TailsArrive

(* A new message goes behind the others and touches nothing else.          *)
LEMMA SendInv ==
  ASSUME IInv, NEW m \in Message, SendMsg(m)
  PROVE  IInv'
<1> USE DEF SendMsg, rx
<1>1. SegTypeOK'
  BY DEF IInv, SegTypeOK
<1>2. CASE outbox = <<>>
  <2>1. next' = 0
    BY <1>2 DEF IInv, OnTheWay
  <2>2. outbox' = <<m>>
    BY <1>2 DEF IInv, SegTypeOK
  <2>3. OnTheWay'
    <3>1. Msg' \in Message
      BY <2>2 DEF Msg
    <3>2. LastFrame(Msg)' \in Nat
      BY <3>1, LastFrameType
    <3> QED
      BY <2>1, <2>2, <3>2 DEF OnTheWay
  <2>4. BuffLength' /\ HeadsArrive' /\ TailsArrive'
    BY <1>2, <2>1 DEF IInv, BuffLength, HeadsArrive, TailsArrive, Begun
  <2> QED
    BY <1>1, <2>3, <2>4 DEF IInv, HandledWhole
<1>3. CASE outbox # <<>>
  <2>1. outbox' # <<>> /\ Msg' = Msg
    <3>1. outbox \in Seq(Message) /\ outbox' = Append(outbox, m)
      BY DEF IInv, SegTypeOK
    <3>2. outbox' # <<>> /\ Head(outbox') = Head(outbox)
      BY <1>3, <3>1
    <3> QED
      BY <3>2 DEF Msg
  <2>2. LastFrame(Msg)' = LastFrame(Msg) /\ UNCHANGED Parts(Msg, next)
        /\ UNCHANGED Parts(Msg, g_SegNum + 1)
    BY <2>1 DEF LastFrame, Parts
  <2> QED
    BY <1>1, <1>3, <2>1, <2>2
    DEF IInv, OnTheWay, BuffLength, HeadsArrive, TailsArrive, Begun,
        HandledWhole
<1> QED
  BY <1>2, <1>3

(* A start of the board only forgets what was begun.                       *)
LEMMA StartInv ==
  ASSUME IInv, BoardStarts
  PROVE  IInv'
<1>1. Msg' = Msg /\ LastFrame(Msg)' = LastFrame(Msg)
  BY DEF BoardStarts, Msg, LastFrame
<1> QED
  BY <1>1
  DEF BoardStarts, IInv, SegTypeOK, OnTheWay, BuffLength, HeadsArrive,
      TailsArrive, HandledWhole, Begun

(* The buffer of a message that goes on.                                   *)
LEMMA PartsPrime ==
  ASSUME outbox' = outbox, NEW n \in Nat
  PROVE  Parts(Msg, n)' = Parts(Msg', n) /\ Msg' = Msg
BY DEF Parts, Msg

(* A loss is remembered; the parts that are left still fit.                *)
LEMMA LoseInv ==
  ASSUME IInv, Lose
  PROVE  IInv'
<1> USE DEF Lose, rx
<1>1. /\ Msg \in Message /\ next \in Nat /\ next <= LastFrame(Msg)
      /\ LastFrame(Msg) \in Nat
  BY Leaving
<1>2. SegTypeOK' /\ OnTheWay'
  BY LeavesOnTheWay DEF IInv, SegTypeOK
<1>3. BuffLength' /\ HandledWhole'
  BY DEF IInv, SegTypeOK, BuffLength, Begun, HandledWhole
<1>4. HeadsArrive'
  <2>1. SUFFICES ASSUME ~headlost', Begun', next' > 0
                 PROVE  recv_buff' = Parts(Msg, g_SegNum + 1)'
    BY DEF HeadsArrive
  <2>2. outbox' = outbox /\ next < LastFrame(Msg)
    BY <2>1, LeavesOnTheWay
  <2>3. SegPolo(Msg, next) # "FIRST" /\ ~headlost
    BY <2>1, Zenon
  <2>4. next > 0
    BY <1>1, <2>2, <2>3, PoloKinds
  <2>5. recv_buff = Parts(Msg, g_SegNum + 1)
    BY <2>1, <2>3, <2>4 DEF IInv, HeadsArrive, Begun
  <2>6. Msg' = Msg
    BY <2>2 DEF Msg
  <2> QED
    BY <2>5, <2>6 DEF Parts
<1>5. TailsArrive'
  <2>1. SUFFICES ASSUME ~taillost', Begun' PROVE FALSE
    BY DEF TailsArrive
  <2>2. next > 0
    BY <2>1 DEF IInv, TailsArrive, Begun
  <2>3. SegPolo(Msg, next) \in {"MIDDLE", "FINAL"}
    BY <1>1, <2>2, PoloKinds
  <2> QED
    BY <2>1, <2>3
<1> QED
  BY <1>2, <1>3, <1>4, <1>5 DEF IInv
(* What the receiver begins, it begins with the FIRST frame.               *)
LEMMA ReceiveFirstInv ==
  ASSUME IInv, OnItsWay, Leaves, ReceiveFirst,
         UNCHANGED <<sends, headlost, taillost>>
  PROVE  IInv'
<1> USE DEF ReceiveFirst
<1>1. /\ Msg \in Message /\ next \in Nat /\ next <= LastFrame(Msg)
      /\ LastFrame(Msg) \in Nat /\ DataLen(Msg, next) \in Int
      /\ <<Msg, next>> \in Message \X Nat
  BY Leaving
<1>2. next = 0 /\ LastFrame(Msg) # 0
  BY <1>1, PoloKinds
<1>3. outbox' = outbox /\ next' = 1 /\ OnTheWay'
  BY <1>1, <1>2, LeavesOnTheWay
<1>4. recv_buff' = <<<<Msg, next>>>> /\ recv_buff' \in Seq(Message \X Nat)
      /\ Len(recv_buff') = 1
  BY <1>1
<1>5. SegTypeOK'
  BY <1>1, <1>3, <1>4 DEF IInv, SegTypeOK
<1>6. recv_buff' = Parts(Msg, 1)
  BY <1>2, <1>4 DEF Parts
<1>7. Msg' = Msg /\ outbox' # <<>>
  BY <1>3 DEF Msg, OnItsWay
<1>8. g_SegNum' = 0
  BY <1>2
<1>9. HeadsArrive' /\ TailsArrive'
  BY <1>3, <1>6, <1>7, <1>8 DEF HeadsArrive, TailsArrive, Parts
<1>10. g_SegBytes' = PackLen * (g_SegNum' + 1)
  <2>1. DataLen(Msg, next) = PackLen
    BY <1>1, <1>2 DEF DataLen
  <2>2. PackLen * 1 = PackLen
    BY SegmentAssumption
  <2> QED
    BY <1>8, <2>1, <2>2
<1>11. BuffLength' /\ HandledWhole'
  BY <1>4, <1>8, <1>10 DEF IInv, BuffLength, HandledWhole
<1> QED
  BY <1>3, <1>5, <1>9, <1>11 DEF IInv

(* The first element of a sequence replaced.                               *)
LEMMA FirstReplaced ==
  ASSUME NEW S, NEW e \in S, NEW s \in Seq(S), s # <<>>
  PROVE  /\ [s EXCEPT ![1] = e] \in Seq(S)
         /\ Len([s EXCEPT ![1] = e]) = Len(s)
<1>1. 1 \in 1 .. Len(s)
  OBVIOUS
<1> QED
  BY <1>1, ExceptSeq

(* A frame of its own replaces the start of the buffer, and nothing of     *)
(* what is begun can be completed from then on unless frames were lost.    *)
LEMMA ReceiveNoneInv ==
  ASSUME IInv, OnItsWay, Leaves, ReceiveNone,
         UNCHANGED <<sends, headlost, taillost>>
  PROVE  IInv'
<1> USE DEF ReceiveNone
<1>1. /\ Msg \in Message /\ next \in Nat /\ next <= LastFrame(Msg)
      /\ LastFrame(Msg) \in Nat /\ <<Msg, next>> \in Message \X Nat
  BY Leaving
<1>2. LastFrame(Msg) = 0 /\ next = 0
  BY <1>1, PoloKinds
<1>3. OnTheWay' /\ outbox' \in Seq(Message) /\ next' = 0
  BY <1>1, <1>2, LeavesOnTheWay DEF Leaves
<1>4. recv_buff \in Seq(Message \X Nat)
  BY DEF IInv, SegTypeOK
<1>6. <<<<Msg, next>>>> \in Seq(Message \X Nat)
  BY <1>1
<1>7. /\ recv_buff' \in Seq(Message \X Nat)
      /\ Len(recv_buff) >= 1 => Len(recv_buff') = Len(recv_buff)
  <2>1. CASE recv_buff = <<>>
    BY <1>1, <1>6, <2>1
  <2>2. CASE recv_buff # <<>>
    <3>1. recv_buff' = [recv_buff EXCEPT ![1] = <<Msg, next>>]
      BY <2>2
    <3> HIDE DEF ReceiveNone
    <3>2. PICK e \in Message \X Nat : e = <<Msg, next>>
      BY <1>1
    <3>3. /\ [recv_buff EXCEPT ![1] = e] \in Seq(Message \X Nat)
          /\ Len([recv_buff EXCEPT ![1] = e]) = Len(recv_buff)
      BY <1>4, <2>2, FirstReplaced
    <3> QED
      BY <3>1, <3>2, <3>3
  <2> QED
    BY <2>1, <2>2
<1>8. SegTypeOK'
  BY <1>1, <1>3, <1>6, <1>7 DEF IInv, SegTypeOK
<1>9. BuffLength'
  BY <1>7 DEF IInv, SegTypeOK, BuffLength, Begun
<1>10. HeadsArrive'
  BY <1>3 DEF HeadsArrive
<1>11. TailsArrive'
  BY <1>2 DEF IInv, TailsArrive, Begun
<1>12. HandledWhole'
  <2>1. handled' = Whole(Msg)
    BY <1>2 DEF Whole
  <2> QED
    BY <1>1, <2>1 DEF HandledWhole, Whole, LastFrame
<1> QED
  BY <1>3, <1>8, <1>9, <1>10, <1>11, <1>12 DEF IInv

(* The parts in the buffer when a frame continues them.                    *)
LEMMA Continued ==
  ASSUME IInv, OnItsWay, Continues, next > 0
  PROVE  /\ Begun /\ next = g_SegNum + 1 /\ Len(recv_buff) = next
         /\ ~(headlost /\ taillost) => recv_buff = Parts(Msg, next)
<1>1. Begun /\ next = g_SegNum + 1
  BY DEF Continues, Begun
<1>2. Len(recv_buff) = next
  BY <1>1 DEF IInv, BuffLength
<1>3. CASE ~headlost
  BY <1>1, <1>2, <1>3 DEF IInv, HeadsArrive
<1>4. CASE ~taillost
  BY <1>1, <1>2, <1>4 DEF IInv, TailsArrive
<1> QED
  BY <1>1, <1>2, <1>3, <1>4

(* A MIDDLE frame adds the part that follows.                              *)
LEMMA ReceiveMiddleInv ==
  ASSUME IInv, OnItsWay, Leaves, ReceiveMiddle,
         UNCHANGED <<sends, headlost, taillost>>
  PROVE  IInv'
<1> USE DEF ReceiveMiddle
<1>1. /\ Msg \in Message /\ next \in Nat /\ next <= LastFrame(Msg)
      /\ LastFrame(Msg) \in Nat /\ DataLen(Msg, next) \in Int
      /\ <<Msg, next>> \in Message \X Nat
  BY Leaving
<1>2. next > 0 /\ next < LastFrame(Msg)
  BY <1>1, PoloKinds
<1>3. outbox' = outbox /\ next' = next + 1 /\ OnTheWay'
      /\ outbox' \in Seq(Message)
  BY <1>2, LeavesOnTheWay
<1>4. /\ Begun /\ next = g_SegNum + 1 /\ Len(recv_buff) = next
      /\ ~(headlost /\ taillost) => recv_buff = Parts(Msg, next)
  BY <1>2, Continued
<1>5. recv_buff \in Seq(Message \X Nat)
  BY DEF IInv, SegTypeOK
<1>6. recv_buff' \in Seq(Message \X Nat) /\ Len(recv_buff') = next + 1
  BY <1>1, <1>4, <1>5
<1>7. SegTypeOK'
  BY <1>1, <1>3, <1>6 DEF IInv, SegTypeOK
<1>8. g_SegNum' = next /\ Msg' = Msg /\ outbox' # <<>>
  BY <1>3, <1>4 DEF Msg, OnItsWay
<1>9. ~(headlost /\ taillost) => recv_buff' = Parts(Msg', next + 1)
  BY <1>1, <1>4, <1>8, PartsAppend
<1>10. HeadsArrive'
  <2>1. Parts(Msg, g_SegNum + 1)' = Parts(Msg', next + 1)
    BY <1>8 DEF Parts
  <2> QED
    BY <1>9, <2>1 DEF HeadsArrive
<1>11. TailsArrive'
  <2>1. Parts(Msg, next)' = Parts(Msg', next + 1)
    BY <1>3 DEF Parts
  <2>2. g_SegNum' = next' - 1 /\ next' > 0
    BY <1>1, <1>3, <1>8
  <2> QED
    BY <1>8, <1>9, <2>1, <2>2 DEF TailsArrive
<1>12. BuffLength'
  <2>1. DataLen(Msg, next) = PackLen
    BY <1>2 DEF DataLen
  <2>2. g_SegBytes = PackLen * next
    BY <1>1, <1>4 DEF IInv, BuffLength
  <2>3. PICK p \in Nat : p = PackLen
    BY SegmentAssumption
  <2>4. p * next + p = p * (next + 1)
    BY <1>1
  <2>5. g_SegBytes' = PackLen * (next + 1)
    BY <2>1, <2>2, <2>3, <2>4
  <2> QED
    BY <1>6, <1>8, <2>5 DEF BuffLength
<1>13. HandledWhole'
  BY DEF IInv, HandledWhole
<1> QED
  BY <1>3, <1>7, <1>10, <1>11, <1>12, <1>13 DEF IInv
(* A FINAL frame completes the message it belongs to.                      *)
LEMMA ReceiveFinalInv ==
  ASSUME IInv, OnItsWay, Leaves, ReceiveFinal,
         UNCHANGED <<sends, headlost, taillost>>
  PROVE  IInv'
<1> USE DEF ReceiveFinal
<1>1. /\ Msg \in Message /\ next \in Nat /\ next <= LastFrame(Msg)
      /\ <<Msg, next>> \in Message \X Nat
  BY Leaving
<1>2. next > 0 /\ next = LastFrame(Msg)
  BY <1>1, PoloKinds
<1>3. OnTheWay' /\ outbox' \in Seq(Message) /\ next' \in Nat
  BY LeavesOnTheWay
<1>4. ~(headlost /\ taillost) => recv_buff = Parts(Msg, next)
  BY <1>2, Continued
<1>5. recv_buff \in Seq(Message \X Nat)
  BY DEF IInv, SegTypeOK
<1>6. recv_buff' \in Seq(Message \X Nat)
  BY <1>1, <1>5
<1>7. SegTypeOK'
  BY <1>3, <1>6 DEF IInv, SegTypeOK
<1>8. BuffLength' /\ HeadsArrive' /\ TailsArrive'
  BY DEF BuffLength, HeadsArrive, TailsArrive, Begun
<1>9. HandledWhole'
  <2>1. CASE headlost /\ taillost
    BY <2>1 DEF HandledWhole
  <2>2. CASE ~(headlost /\ taillost)
    <3>1. handled' = Parts(Msg, next + 1)
      BY <1>1, <1>4, <2>2, PartsAppend
    <3>2. handled' = Whole(Msg)
      BY <1>1, <1>2, <3>1, WholeIsParts
    <3> QED
      BY <1>1, <3>2 DEF HandledWhole, Whole, LastFrame
  <2> QED
    BY <2>1, <2>2
<1> QED
  BY <1>3, <1>7, <1>8, <1>9 DEF IInv

(* A frame that does not continue what is begun leaves the board as it is. *)
(* There is always room for one that does, so one of the tail was lost.    *)
LEMMA IgnoreInv ==
  ASSUME IInv, OnItsWay, Leaves, Ignore,
         UNCHANGED <<sends, headlost, taillost>>
  PROVE  IInv'
<1> USE DEF Ignore, rx
<1>1. /\ Msg \in Message /\ next \in Nat /\ next <= LastFrame(Msg)
      /\ LastFrame(Msg) \in Nat
  BY Leaving
<1>2. next > 0
  BY <1>1, PoloKinds
<1>3. SegTypeOK' /\ OnTheWay'
  BY LeavesOnTheWay DEF IInv, SegTypeOK
<1>4. HeadsArrive'
  <2>1. SUFFICES ASSUME ~headlost', Begun', next' > 0
                 PROVE  recv_buff' = Parts(Msg, g_SegNum + 1)'
    BY DEF HeadsArrive
  <2>2. outbox' = outbox
    BY <2>1, LeavesOnTheWay
  <2>3. recv_buff = Parts(Msg, g_SegNum + 1)
    BY <1>2, <2>1 DEF IInv, HeadsArrive, Begun
  <2>4. Msg' = Msg
    BY <2>2 DEF Msg
  <2> QED
    BY <2>3, <2>4 DEF Parts
<1>5. BuffLength' /\ HandledWhole'
  BY DEF IInv, BuffLength, Begun, HandledWhole
<1>6. TailsArrive'
  <2>1. SUFFICES ASSUME ~taillost', Begun' PROVE FALSE
    BY DEF TailsArrive
  <2>2. g_SegNum = next - 1 /\ g_SegPolo = "FIRST"
    BY <2>1 DEF IInv, TailsArrive, Begun
  <2>3. g_SegBytes = PackLen * next
    BY <1>1, <2>2 DEF IInv, BuffLength, Begun, SegTypeOK
  <2>4. g_SegBytes + DataLen(Msg, next) <= RxSize
    <3>1. PackLen * next + DataLen(Msg, next) <= Bytes[Msg]
      BY <1>1, <1>2, Fits
    <3>2. PICK d \in Int : d = DataLen(Msg, next)
      BY <1>1, DataLenType
    <3>3. PICK g \in Int : g = g_SegBytes
      BY DEF IInv, SegTypeOK
    <3>4. Bytes[Msg] \in Nat /\ RxSize \in Nat /\ Bytes[Msg] <= RxSize
      BY <1>1, SegmentAssumption
    <3> QED
      BY <2>3, <3>1, <3>2, <3>3, <3>4
  <2>5. Continues
    BY <1>1, <2>2, <2>4 DEF Continues
  <2> QED
    BY <2>5
<1> QED
  BY <1>3, <1>4, <1>5, <1>6 DEF IInv
(* Every step preserves the strengthening.                                 *)
LEMMA StepInv == IInv /\ [SegNext]_segvars => IInv'
<1> SUFFICES ASSUME IInv, [SegNext]_segvars PROVE IInv'
  OBVIOUS
<1>1. CASE \E m \in Message : SendMsg(m)
  BY <1>1, SendInv
<1>2. CASE Receive
  <2>1. OnItsWay /\ Leaves /\ UNCHANGED <<sends, headlost, taillost>>
    BY <1>2 DEF Receive
  <2>2. CASE ReceiveNone
    BY <2>1, <2>2, ReceiveNoneInv
  <2>3. CASE ReceiveFirst
    BY <2>1, <2>3, ReceiveFirstInv
  <2>4. CASE ReceiveMiddle
    BY <2>1, <2>4, ReceiveMiddleInv
  <2>5. CASE ReceiveFinal
    BY <2>1, <2>5, ReceiveFinalInv
  <2>6. CASE Ignore
    BY <2>1, <2>6, IgnoreInv
  <2> QED
    BY <1>2, <2>2, <2>3, <2>4, <2>5, <2>6 DEF Receive
<1>3. CASE Lose
  BY <1>3, LoseInv
<1>4. CASE BoardStarts
  BY <1>4, StartInv
<1>5. CASE UNCHANGED segvars
  <2>1. Msg' = Msg /\ LastFrame(Msg)' = LastFrame(Msg)
    BY <1>5 DEF segvars, Msg, LastFrame
  <2> QED
    BY <1>5, <2>1
    DEF segvars, rx, IInv, SegTypeOK, OnTheWay, BuffLength, HeadsArrive,
        TailsArrive, HandledWhole, Begun, Parts
<1> QED
  BY <1>1, <1>2, <1>3, <1>4, <1>5 DEF SegNext

(* The frames' state keeps its types, whatever is sent and lost.           *)
THEOREM SegTypeCorrect == SegSpec => []SegTypeOK
<1>1. IInv => SegTypeOK
  BY DEF IInv
<1> QED
  BY <1>1, InitInv, StepInv, PTL DEF SegSpec

(* A board acts upon whole messages only, unless a FIRST frame and a later *)
(* one were lost: HandledWhole for every set of messages.                  *)
THEOREM WholeMessages == SegSpec => []HandledWhole
<1>1. IInv => HandledWhole
  BY DEF IInv
<1> QED
  BY <1>1, InitInv, StepInv, PTL DEF SegSpec

-----------------------------------------------------------------------------
(* Every step of the composition is a step of the frames or leaves them.   *)
LEMMA StepsOfFrames == [Next]_vars => [SegNext]_segvars
<1> SUFFICES ASSUME [Next]_vars PROVE [SegNext]_segvars
  OBVIOUS
<1>1. CASE Send
  BY <1>1 DEF Send, SegNext
<1>2. CASE Frame
  BY <1>2 DEF Frame, SegNext
<1>3. CASE FrameLost
  BY <1>3 DEF FrameLost, SegNext
<1>4. CASE StartRuns
  BY <1>4 DEF StartRuns
<1>5. CASE Upload
  BY <1>5
  DEF Upload, ClearFlag, TakeNum, CopyWord, Erase, ProgramWord, TakeOver
<1>6. CASE EraseFails
  BY <1>6 DEF EraseFails
<1>7. CASE Reset
  BY <1>7 DEF Reset, SegNext
<1>8. CASE UNCHANGED vars
  BY <1>8 DEF vars
<1> QED
  BY <1>1, <1>2, <1>3, <1>4, <1>5, <1>6, <1>7, <1>8 DEF Next

(* A board that stores parameters, is reset and runs its rollers still     *)
(* implements the transport of CanSegment.                                 *)
THEOREM BoardImplementsSegments == Spec => SegSpec
<1>1. Init => SegInit
  BY DEF Init
<1> QED
  BY <1>1, StepsOfFrames, PTL DEF Spec, SegSpec

(* So no board takes parameters that the master never sent: HandledWhole   *)
(* holds of the composition, for all settings and all losses.              *)
THEOREM BoardHandlesWhole == Spec => []HandledWhole
BY BoardImplementsSegments, WholeMessages, PTL
-----------------------------------------------------------------------------
(* What the interrupt can be handed when frames were lost.  A FIRST frame  *)
(* and a FINAL one of two sets may meet, so it need not be a message, but  *)
(* part k of it is part k of some message that has parts after it.         *)
PartsFit(b) ==
  \A j \in 2 .. Len(b) : b[j][2] = j - 1 /\ j - 1 < LastFrame(b[j][1])

FramesFit == Begun => PartsFit(recv_buff)

(* PartsFit is a constant operator.                                        *)
LEMMA FramesFitPrime ==
  FramesFit' <=> (g_SegPolo' = "FIRST" => PartsFit(recv_buff'))
BY DEF FramesFit, Begun, PartsFit, LastFrame

LEMMA ReceiveFits ==
  ASSUME IInv, FramesFit, Receive
  PROVE  FramesFit'
<1>1. OnItsWay
  BY DEF Receive
<1>2. /\ Msg \in Message /\ next \in Nat /\ next <= LastFrame(Msg)
      /\ LastFrame(Msg) \in Nat
  BY <1>1, Leaving
<1>3. recv_buff \in Seq(Message \X Nat)
  BY DEF IInv, SegTypeOK
<1>4. SUFFICES ASSUME g_SegPolo' = "FIRST"
               PROVE  PartsFit(recv_buff')
  BY FramesFitPrime
<1>5. CASE ReceiveNone
  <2>1. Begun /\ recv_buff # <<>> /\ PartsFit(recv_buff)
    BY <1>3, <1>4, <1>5
    DEF ReceiveNone, Begun, FramesFit, IInv, BuffLength, SegTypeOK
  <2>2. recv_buff' = [recv_buff EXCEPT ![1] = <<Msg, next>>]
    BY <1>5, <2>1 DEF ReceiveNone
  <2>3. Len(recv_buff') = Len(recv_buff)
        /\ \A j \in 2 .. Len(recv_buff) : recv_buff'[j] = recv_buff[j]
    <3>1. PICK e : e = <<Msg, next>>
      OBVIOUS
    <3>2. recv_buff' = [recv_buff EXCEPT ![1] = e]
      BY <2>2, <3>1
    <3> QED
      BY <1>3, <3>2
  <2> QED
    BY <2>1, <2>3 DEF PartsFit
<1>6. CASE ReceiveFirst
  <2>1. Len(recv_buff') = 1
    BY <1>6 DEF ReceiveFirst
  <2> QED
    BY <2>1 DEF PartsFit
<1>7. CASE ReceiveMiddle
  <2>1. next > 0 /\ next < LastFrame(Msg)
    BY <1>2, <1>7, PoloKinds DEF ReceiveMiddle
  <2>2. Begun /\ Len(recv_buff) = next /\ PartsFit(recv_buff)
    BY <1>1, <1>7, <2>1, Continued DEF ReceiveMiddle, FramesFit
  <2>3. recv_buff' = Append(recv_buff, <<Msg, next>>)
    BY <1>7 DEF ReceiveMiddle
  <2>4. /\ Len(recv_buff') = next + 1
        /\ recv_buff'[next + 1] = <<Msg, next>>
        /\ \A j \in 2 .. next : recv_buff'[j] = recv_buff[j]
    BY <1>2, <1>3, <2>2, <2>3
  <2>5. ASSUME NEW j \in 2 .. next + 1
        PROVE  /\ recv_buff'[j][2] = j - 1
               /\ j - 1 < LastFrame(recv_buff'[j][1])
    <3>1. CASE j = next + 1
      BY <1>2, <2>1, <2>4, <3>1
    <3>2. CASE j \in 2 .. next
      BY <2>2, <2>4, <3>2 DEF PartsFit
    <3> QED
      BY <1>2, <3>1, <3>2
  <2> QED
    BY <2>4, <2>5 DEF PartsFit
<1>8. CASE ReceiveFinal
  BY <1>4, <1>8 DEF ReceiveFinal
<1>9. CASE Ignore
  BY <1>4, <1>9 DEF Ignore, rx, FramesFit, Begun
<1> QED
  BY <1>5, <1>6, <1>7, <1>8, <1>9 DEF Receive

LEMMA FramesFitStep ==
  ASSUME IInv, FramesFit, [SegNext]_segvars
  PROVE  FramesFit'
<1>1. CASE Receive
  BY <1>1, ReceiveFits
<1>2. CASE BoardStarts
  BY <1>2, FramesFitPrime DEF BoardStarts
<1>3. CASE UNCHANGED rx
  BY <1>3, FramesFitPrime DEF rx, FramesFit, Begun
<1> QED
  BY <1>1, <1>2, <1>3 DEF SegNext, SendMsg, Lose, segvars
One  == [1 .. 1 -> [spd : Level, ramp : Level]]
Both == [1 .. 2 -> [spd : Level, ramp : Level]]

(* The frames of a set: two follow the first with one module, three with   *)
(* both.                                                                   *)
LEMMA SettingFrames ==
  ASSUME NEW s \in Setting
  PROVE  /\ s \in Message
         /\ \/ s \in One  /\ Len(s) = 1 /\ LastFrame(s) = 2
            \/ s \in Both /\ Len(s) = 2 /\ LastFrame(s) = 3
<1>1. s \in Message /\ PackLen = 8 /\ Bytes[s] = 7 + 10 * Len(s)
      /\ s \in One \cup Both
  BY ParaAssumption DEF One, Both
<1>2. CASE s \in One
  <2>1. Len(s) = 1
    BY <1>2 DEF One
  <2> QED
    BY <1>1, <1>2, <2>1 DEF LastFrame
<1>3. CASE s \in Both
  <2>1. Len(s) = 2
    BY <1>3 DEF Both
  <2> QED
    BY <1>1, <1>3, <2>1 DEF LastFrame
<1> QED
  BY <1>1, <1>2, <1>3

(* A message that a frame completes is a set, or a start command, which    *)
(* has one frame only.                                                     *)
LEMMA LongMessage ==
  ASSUME NEW m \in Message, LastFrame(m) # 0
  PROVE  m \in Setting
BY ParaAssumption DEF LastFrame

(* Of two sets with the same length, mixed, comes a set again: what the    *)
(* board takes over is well typed whatever was lost.                       *)
LEMMA ReceivedIsSet ==
  ASSUME IInv, FramesFit, Receive, Completes, IsPara
  PROVE  Received \in One \cup Both
<1>1. OnItsWay
  BY DEF Receive
<1>2. /\ Msg \in Message /\ next \in Nat /\ LastFrame(Msg) \in Nat
      /\ next <= LastFrame(Msg)
  BY <1>1, Leaving
<1>3. next > 0 /\ next = LastFrame(Msg)
  BY <1>2, PoloKinds DEF Completes
<1>4. Msg \in Setting
  BY <1>2, <1>3, LongMessage
<1>5. /\ Begun /\ next = g_SegNum + 1 /\ Len(recv_buff) = next
      /\ PartsFit(recv_buff)
  BY <1>1, <1>3, Continued DEF Completes, FramesFit
<1>6. recv_buff \in Seq(Message \X Nat)
  BY DEF IInv, SegTypeOK
<1>7. handled' = Append(recv_buff, <<Msg, next>>)
  BY <1>2, <1>3, PoloKinds
  DEF Receive, Completes, ReceiveFinal, ReceiveNone, ReceiveFirst,
      ReceiveMiddle, Ignore
<1>8. /\ \A j \in 1 .. next : handled'[j] = recv_buff[j]
      /\ handled'[next + 1] = <<Msg, next>>
  BY <1>2, <1>5, <1>6, <1>7
<1>9. From(next) = Msg
  BY <1>8 DEF From
<1>10. ASSUME NEW k \in 1 .. next - 1
       PROVE  From(k) \in Message /\ k < LastFrame(From(k))
  <2>1. k + 1 \in 2 .. Len(recv_buff) /\ handled'[k + 1] = recv_buff[k + 1]
    BY <1>2, <1>5, <1>8
  <2>2. recv_buff[k + 1] \in Message \X Nat
    BY <1>6, <2>1
  <2> QED
    BY <1>5, <2>1, <2>2 DEF PartsFit, From
<1>11. Len(From(0)) = Len(Msg)
  <2>1. PackLen = 8 /\ Bytes[Msg] = 7 + 10 * Len(Msg)
        /\ Bytes[From(0)] = 7 + 10 * Len(From(0))
    BY <1>4, ParaAssumption DEF IsPara
  <2>2. g_SegBytes = 8 * next
    BY <1>5, <2>1 DEF IInv, BuffLength
  <2>3. DataLen(Msg, next) = Bytes[Msg] - next * 8
    BY <1>2, <1>3, <2>1 DEF DataLen
  <2>4. Len(Msg) \in Nat /\ Len(From(0)) \in Nat
    BY <1>4, SettingFrames DEF IsPara
  <2> QED
    BY <1>2, <2>1, <2>2, <2>3, <2>4 DEF IsPara
<1>12. ASSUME NEW k \in 1 .. next - 1
       PROVE  From(k) \in Setting
  BY <1>10, <1>12, LongMessage
<1>13. CASE Len(Msg) = 1
  <2>1. next = 2 /\ From(1) \in Setting
    BY <1>3, <1>4, <1>12, <1>13, SettingFrames
  <2>2. From(1)[1].spd \in Level /\ From(1)[1].ramp \in Level
    BY <2>1, SettingFrames DEF One, Both
  <2>3. Received = [m \in 1 .. 1 |->
                     [spd  |-> From(m)[m].spd,
                      ramp |-> From(IF m = 1 THEN 1 ELSE 3)[m].ramp]]
    BY <1>11, <1>13 DEF Received
  <2>4. Received[1] = [spd |-> From(1)[1].spd, ramp |-> From(1)[1].ramp]
    BY <2>3
  <2>5. DOMAIN Received = 1 .. 1 /\ Received = [m \in 1 .. 1 |-> Received[m]]
    BY <2>3
  <2> QED
    BY <2>2, <2>4, <2>5 DEF One
<1>14. CASE Len(Msg) = 2
  <2>1. next = 3 /\ From(1) \in Setting /\ From(2) \in Setting
        /\ LastFrame(From(2)) > 2 /\ From(3) = Msg
    BY <1>3, <1>4, <1>9, <1>10, <1>12, <1>14, SettingFrames
  <2>2. From(2) \in Both /\ Msg \in Both
    BY <1>4, <1>14, <2>1, SettingFrames
  <2>3. /\ From(1)[1].spd \in Level /\ From(1)[1].ramp \in Level
        /\ From(2)[2].spd \in Level /\ From(3)[2].ramp \in Level
    BY <2>1, <2>2, SettingFrames DEF One, Both
  <2>4. Received = [m \in 1 .. 2 |->
                     [spd  |-> From(m)[m].spd,
                      ramp |-> From(IF m = 1 THEN 1 ELSE 3)[m].ramp]]
    BY <1>11, <1>14 DEF Received
  <2>5. /\ Received[1] = [spd |-> From(1)[1].spd, ramp |-> From(1)[1].ramp]
        /\ Received[2] = [spd |-> From(2)[2].spd, ramp |-> From(3)[2].ramp]
    BY <2>4
  <2>6. ASSUME NEW m \in 1 .. 2
        PROVE  Received[m] \in [spd : Level, ramp : Level]
    <3>1. m = 1 \/ m = 2
      OBVIOUS
    <3> QED
      BY <2>3, <2>5, <3>1
  <2>7. DOMAIN Received = 1 .. 2 /\ Received = [m \in 1 .. 2 |-> Received[m]]
    BY <2>4
  <2> QED
    BY <2>6, <2>7 DEF Both
<1> QED
  BY <1>4, <1>13, <1>14, SettingFrames
-----------------------------------------------------------------------------
Para   == [idx : 0 .. 1, spd : Level, ramp : Level]
Speeds == [spd : Level, ramp : Level]

(* Where the main loop is, and what it has in hand there: the words        *)
(* collected so far are a number, i modules and a part of the next one.    *)
LoopFits ==
  /\ buff \in Seq(Level)
  /\ pc = "copy" => /\ mototemp.num \in Mot /\ i \in 0 .. 2
                    /\ Len(buff) - 1 - 3 * i \in 0 .. 2
                    /\ (Len(buff) - 1 - 3 * i > 0 => i <= 1)
  /\ pc \in {"copy", "erase", "program"} => Len(buff) >= 1 /\ buff[1] \in Mot
  /\ pc \in {"erase", "program"} => Len(buff) >= 4
  /\ \A w \in {2, 5} : w <= Len(buff) => buff[w] \in 0 .. 1

(* What the flash can hold.                                                *)
PageFits ==
  /\ page[1] \in {0, 1, 2, Blank}
  /\ page[2] \in {0, 1, Blank} /\ page[5] \in {0, 1, Blank}
  /\ pc = "program" /\ i > 0 => page[1] # Blank

LoopInv == TypeOK /\ LoopFits /\ PageFits

LEMMA LimitedType ==
  ASSUME board \in Boards, NEW p, p.spd \in Level, p.ramp \in Level
  PROVE  Limited(p) \in Speeds
BY DEF Limited, Speeds, Level

LEMMA DefaultType == Limited(Default) \in Speeds
BY DEF Limited, Default, Speeds, Level

(* A word of the flash or the older value.                                 *)
LEMMA KeptType ==
  ASSUME NEW S, NEW old \in S, NEW w \in S \cup {0, Blank}
  PROVE  Kept(w, old) \in S
BY DEF Kept

LEMMA InitLocalType ==
  ASSUME page \in [1 .. Words -> Halfwords], PageFits,
         NEW old \in [Mot -> Para]
  PROVE  InitLocal(page, old) \in [Mot -> Para]
<1>1. ASSUME NEW m \in Mot
      PROVE  [idx  |-> Kept(page[3 * m - 1], old[m].idx),
              spd  |-> Kept(page[3 * m], old[m].spd),
              ramp |-> Kept(page[3 * m + 1], old[m].ramp)] \in Para
  <2>1. old[m].idx \in 0 .. 1 /\ old[m].spd \in Level /\ old[m].ramp \in Level
    BY DEF Para
  <2>2. /\ page[3 * m - 1] \in 0 .. 1 \cup {0, Blank}
        /\ page[3 * m] \in Level \cup {0, Blank}
        /\ page[3 * m + 1] \in Level \cup {0, Blank}
    <3>1. CASE m = 1
      BY <3>1 DEF PageFits, Words, MAX_MOUDLE_NUM, Halfwords
    <3>2. CASE m = 2
      BY <3>2 DEF PageFits, Words, MAX_MOUDLE_NUM, Halfwords
    <3> QED
      BY <3>1, <3>2 DEF Mot
  <2>3. /\ Kept(page[3 * m - 1], old[m].idx) \in 0 .. 1
        /\ Kept(page[3 * m], old[m].spd) \in Level
        /\ Kept(page[3 * m + 1], old[m].ramp) \in Level
    BY <2>1, <2>2, KeptType
  <2> QED
    BY <2>3 DEF Para
<1> QED
  BY <1>1 DEF InitLocal

LEMMA InitForceType ==
  ASSUME board \in Boards, page[1] \in {0, 1, 2, Blank},
         NEW local \in [Mot -> Para], NEW old \in [Mot -> Speeds]
  PROVE  InitForce(page, local, old) \in [Mot -> Speeds]
<1>1. ASSUME NEW m \in Mot PROVE Limited(local[m]) \in Speeds
  <2>1. local[m].spd \in Level /\ local[m].ramp \in Level
    BY DEF Para
  <2> QED
    BY <2>1, LimitedType
<1>2. CASE page[1] \in {0, Blank}
  BY <1>2, DefaultType DEF InitForce
<1>3. CASE page[1] \in {1, 2} /\ page[1] \notin {0, Blank} /\ board = "two"
  <2>1. ASSUME NEW m \in Mot
        PROVE  (IF m <= page[1] /\ local[m].idx # 0
                THEN Limited(local[m]) ELSE old[m]) \in Speeds
    BY <1>1
  <2> QED
    BY <1>3, <2>1 DEF InitForce
<1>4. CASE page[1] \in {1, 2} /\ page[1] \notin {0, Blank} /\ board # "two"
  <2>1. 1 .. page[1] \subseteq Mot
    BY <1>4 DEF Mot
  <2> DEFINE First(m) == /\ local[m].idx # 0
                         /\ \A n \in 1 .. m - 1 : local[n].idx = 0
             f == CHOOSE m \in 1 .. page[1] : First(m)
  <2>2. CASE \E m \in 1 .. page[1] : local[m].idx # 0
    <3>1. \E m \in 1 .. page[1] : First(m)
      <4>1. CASE local[1].idx # 0
        BY <1>4, <4>1
      <4>2. CASE local[1].idx = 0
        <5>1. page[1] = 2 /\ local[2].idx # 0
          BY <1>4, <2>2, <4>2
        <5>2. First(2)
          BY <4>2, <5>1
        <5> QED
          BY <5>1, <5>2
      <4> QED
        BY <4>1, <4>2
    <3>2. f \in Mot
      BY <2>1, <3>1
    <3>3. InitForce(page, local, old) = [m \in Mot |-> Limited(local[f])]
      BY <1>4, <2>2 DEF InitForce
    <3> HIDE DEF f
    <3> QED
      BY <1>1, <3>2, <3>3
  <2>3. CASE ~ \E m \in 1 .. page[1] : local[m].idx # 0
    BY <1>4, <2>3 DEF InitForce
  <2> QED
    BY <2>2, <2>3
<1> QED
  BY <1>2, <1>3, <1>4
LEMMA InitLoop == Init => LoopInv
<1> SUFFICES ASSUME Init PROVE LoopInv
  OBVIOUS
<1> USE DEF Init
<1>1. page \in [1 .. Words -> Halfwords] /\ page = [w \in 1 .. Words |-> Blank]
  BY DEF Erased, Halfwords
<1>2. PageFits
  BY <1>1 DEF PageFits, Words, MAX_MOUDLE_NUM
<1>3. AllOld \in [Mot -> Para] /\ NoForce \in [Mot -> Speeds]
  BY DEF AllOld, NoPara, NoForce, Para, Speeds, Level
<1>4. force \in [Mot -> Speeds]
  BY <1>1, <1>2, <1>3, InitForceType DEF PageFits
<1>5. Words = 7 /\ buff = <<>> /\ Len(buff) = 0 /\ buff \in Seq(Level)
  BY DEF Words, MAX_MOUDLE_NUM
<1>6. LoopFits
  BY <1>5 DEF LoopFits
<1>7. TypeOK
  <2>1. /\ mototemp.num \in 1 .. MAX_MOUDLE_NUM \cup {Blank}
        /\ mototemp.para \in [Mot -> Para] /\ motolocal \in [Mot -> Para]
    BY <1>3
  <2>2. /\ board \in Boards /\ flag \in BOOLEAN /\ spoiled \in BOOLEAN
        /\ pc \in {"idle", "take", "copy", "erase", "program", "init"}
    BY Zenon
  <2>3. i \in 0 .. Words + 3 /\ Len(buff) <= Words
        /\ \A w \in DOMAIN buff : buff[w] \in Level
    BY <1>5
  <2>4. last \in Sets
    BY DEF Sets
  <2> QED
    BY <1>1, <1>4, <2>1, <2>2, <2>3, <2>4 DEF TypeOK, Para, Speeds
<1> QED
  BY <1>2, <1>6, <1>7 DEF LoopInv

(* The interrupt changes what the main loop collects, never its place.     *)
LEMMA FrameLoop ==
  ASSUME IInv, FramesFit, LoopInv, Frame
  PROVE  LoopInv'
<1> USE DEF Frame
<1>1. CASE Completes /\ IsPara
  <2>1. Received \in One \cup Both
    BY <1>1, ReceivedIsSet
  <2> DEFINE s == Received
  <2>2. can_recv_set_para
    BY <1>1
  <2>3. /\ mototemp' = [num  |-> Len(s),
                        para |-> [m \in Mot |->
                          IF m <= Len(s)
                          THEN [idx |-> 1, spd |-> s[m].spd, ramp |-> s[m].ramp]
                          ELSE mototemp.para[m]]]
        /\ flag' = (flag \/ \E m \in DOMAIN s : s[m].spd # 0 \/ s[m].ramp # 0)
        /\ last' = s
        /\ spoiled' = (pc \notin {"idle", "take"})
    BY <2>2 DEF can_recv_set_para
  <2>4. s \in One \cup Both
    BY <2>1
  <2> HIDE DEF s
  <2>5. Len(s) \in Mot /\ \A m \in 1 .. Len(s) : s[m] \in Speeds
    BY <2>4 DEF One, Both, Mot, Speeds
  <2>6. mototemp'.num \in Mot
    BY <2>3, <2>5
  <2>7. mototemp'.para \in [Mot -> Para]
    <3>1. ASSUME NEW m \in Mot
          PROVE  (IF m <= Len(s)
                  THEN [idx |-> 1, spd |-> s[m].spd, ramp |-> s[m].ramp]
                  ELSE mototemp.para[m]) \in Para
      BY <2>5 DEF Mot, Speeds, Para, LoopInv, TypeOK
    <3> QED
      BY <2>3, <3>1
  <2>8. flag' \in BOOLEAN /\ spoiled' \in BOOLEAN
    BY <2>3, Zenon
  <2>9. last' \in Sets
    BY <2>3, <2>4 DEF Sets, One, Both
  <2>10. TypeOK'
    BY <2>6, <2>7, <2>8, <2>9
    DEF LoopInv, TypeOK, Para, Mot, MAX_MOUDLE_NUM
  <2>11. LoopFits' /\ PageFits'
    BY <2>6 DEF LoopInv, LoopFits, PageFits
  <2> QED
    BY <2>10, <2>11 DEF LoopInv
<1>2. CASE ~(Completes /\ IsPara)
  <2>1. UNCHANGED paravars
    BY <1>2 DEF paravars
  <2> QED
    BY <2>1 DEF paravars, LoopInv, TypeOK, LoopFits, PageFits
<1> QED
  BY <1>1, <1>2

(* ClearFlag and TakeNum: a number that is no number of modules is refused,*)
(* so what is copied begins with one that is.                              *)
LEMMA TakeLoop ==
  ASSUME LoopInv, ClearFlag \/ TakeNum
  PROVE  LoopInv'
<1>1. CASE ClearFlag
  BY <1>1 DEF ClearFlag, LoopInv, TypeOK, LoopFits, PageFits
<1>2. CASE TakeNum
  <2>1. CASE Refused(mototemp.num)
    <3>1. /\ pc' = "idle" /\ i' = 0
          /\ UNCHANGED <<board, mototemp, flag, buff, page, motolocal, force,
                         last, spoiled>>
      BY <1>2, <2>1 DEF TakeNum
    <3>2. 0 \in 0 .. Words + 3
      BY DEF Words, MAX_MOUDLE_NUM
    <3>3. TypeOK'
      BY <3>1, <3>2 DEF LoopInv, TypeOK
    <3> QED
      BY <3>1, <3>3 DEF LoopInv, LoopFits, PageFits
  <2>2. CASE ~Refused(mototemp.num)
    <3>1. mototemp.num \in Mot
      BY <2>2, ParaAssumption
      DEF Refused, LoopInv, TypeOK, MAX_MOUDLE_NUM, Mot, Level
    <3>2. /\ pc' = "copy" /\ buff' = <<mototemp.num>> /\ i' = 0
          /\ UNCHANGED <<board, mototemp, flag, page, motolocal, force, last,
                         spoiled>>
      BY <1>2, <2>2 DEF TakeNum
    <3>3. PICK n \in Mot : n = mototemp.num
      BY <3>1
    <3>4. /\ buff' \in Seq(Level) /\ Len(buff') = 1 /\ buff'[1] = n
          /\ \A w \in DOMAIN buff' : buff'[w] \in Level
      <4>1. n \in Level
        BY DEF Mot, Level
      <4>2. buff' = <<n>>
        BY <3>2, <3>3
      <4> QED
        BY <4>1, <4>2
    <3>5. TypeOK'
      BY <3>2, <3>4 DEF LoopInv, TypeOK, Words, MAX_MOUDLE_NUM
    <3>6. LoopFits' /\ PageFits'
      BY <3>2, <3>3, <3>4 DEF LoopInv, LoopFits, PageFits
    <3> QED
      BY <3>5, <3>6 DEF LoopInv
  <2> QED
    BY <2>1, <2>2
<1> QED
  BY <1>1, <1>2
(* The place of the next word in its module.                               *)
LEMMA PlaceInModule ==
  ASSUME NEW l \in Nat, NEW j \in 0 .. 2, l - 1 - 3 * j \in 0 .. 2
  PROVE  (l - 1) % 3 = l - 1 - 3 * j
<1>1. CASE j = 0
  BY <1>1
<1>2. CASE j = 1
  BY <1>2
<1>3. CASE j = 2
  BY <1>3
<1> QED
  BY <1>1, <1>2, <1>3

(* One more halfword: it is the index, the speed or the ramp of a module,  *)
(* by its place.                                                           *)
LEMMA CopyLoop ==
  ASSUME LoopInv, CopyWord
  PROVE  LoopInv'
<1> USE DEF CopyWord
<1> DEFINE n == (Len(buff) - 1) % 3
<1>1. /\ pc = "copy" /\ i \in 0 .. 2 /\ Len(buff) \in Nat
      /\ Len(buff) - 1 - 3 * i \in 0 .. 2 /\ buff \in Seq(Level)
      /\ (Len(buff) - 1 - 3 * i > 0 => i <= 1)
      /\ mototemp.num \in Mot /\ Len(buff) >= 1 /\ buff[1] \in Mot
  BY DEF LoopInv, LoopFits
<1>2. n = Len(buff) - 1 - 3 * i /\ n \in 0 .. 2
  BY <1>1, PlaceInModule
<1>3. CASE n # 0 \/ i < mototemp.num
  <2>1. /\ buff' = Append(buff, Field(mototemp.para[i + 1], n))
        /\ i' = IF n = 2 THEN i + 1 ELSE i
        /\ UNCHANGED <<pc, board, mototemp, flag, page, motolocal, force,
                       last, spoiled>>
    BY <1>3
  <2> HIDE DEF n
  <2> HIDE DEF CopyWord
  <2>2. i \in 0 .. 1
    BY <1>1, <1>2, <1>3 DEF Mot
  <2>3. mototemp.para[i + 1] \in Para
    BY <2>2 DEF LoopInv, TypeOK, Mot, Para
  <2> DEFINE v == Field(mototemp.para[i + 1], n)
  <2>4. v \in Level /\ (n = 0 => v \in 0 .. 1)
    <3>1. CASE n = 0
      BY <2>3, <3>1 DEF Field, Para, Level
    <3>2. CASE n = 1
      BY <2>3, <3>2 DEF Field, Para, Level
    <3>3. CASE n = 2
      BY <2>3, <3>3 DEF Field, Para, Level
    <3> QED
      BY <1>2, <3>1, <3>2, <3>3
  <2>5. buff' = Append(buff, v)
    BY <2>1
  <2> HIDE DEF v
  <2>6. /\ buff' \in Seq(Level) /\ Len(buff') = Len(buff) + 1
        /\ buff'[Len(buff) + 1] = v
        /\ \A w \in 1 .. Len(buff) : buff'[w] = buff[w]
    BY <1>1, <2>4, <2>5
  <2>7. Len(buff) <= 6
    BY <1>1, <1>2, <2>2
  <2>8. \A w \in {2, 5} : w <= Len(buff') => buff'[w] \in 0 .. 1
    <3>1. ASSUME NEW w \in {2, 5}, w <= Len(buff')
          PROVE  buff'[w] \in 0 .. 1
      <4>1. CASE w <= Len(buff)
        BY <1>1, <2>6, <4>1 DEF LoopInv, LoopFits
      <4>2. CASE w = Len(buff) + 1
        <5>1. n = 0
          BY <1>1, <1>2, <2>2, <4>2
        <5> QED
          BY <2>4, <2>6, <4>2, <5>1
      <4> QED
        BY <1>1, <2>6, <3>1, <4>1, <4>2
    <3> QED
      BY <3>1
  <2>9. /\ i' \in 0 .. 2 /\ Len(buff') - 1 - 3 * i' \in 0 .. 2
        /\ (Len(buff') - 1 - 3 * i' > 0 => i' <= 1)
    <3>1. CASE n = 2
      BY <1>1, <1>2, <2>1, <2>2, <2>6, <3>1
    <3>2. CASE n # 2
      BY <1>1, <1>2, <2>1, <2>2, <2>6, <3>2
    <3> QED
      BY <3>1, <3>2
  <2>10. buff'[1] = buff[1]
    BY <1>1, <2>6
  <2>11. LoopFits'
    BY <1>1, <2>1, <2>6, <2>8, <2>9, <2>10 DEF LoopFits
  <2>12. TypeOK'
    BY <1>1, <2>1, <2>6, <2>7, <2>9
    DEF LoopInv, TypeOK, Words, MAX_MOUDLE_NUM
  <2> QED
    BY <1>1, <2>1, <2>11, <2>12 DEF LoopInv, PageFits
<1>4. CASE ~(n # 0 \/ i < mototemp.num)
  <2>1. /\ pc' = "erase" /\ UNCHANGED <<buff, i>>
        /\ UNCHANGED <<board, mototemp, flag, page, motolocal, force,
                       last, spoiled>>
    BY <1>4
  <2> HIDE DEF n
  <2> HIDE DEF CopyWord
  <2>2. Len(buff) >= 4
    BY <1>1, <1>2, <1>4 DEF Mot
  <2>3. LoopFits'
    BY <1>1, <2>1, <2>2 DEF LoopInv, LoopFits
  <2> QED
    BY <2>1, <2>3 DEF LoopInv, TypeOK, PageFits
<1> QED
  BY <1>3, <1>4

LEMMA EraseLoop ==
  ASSUME LoopInv, Erase \/ EraseFails
  PROVE  LoopInv'
<1>1. CASE Erase
  <2>1. /\ pc' = "program" /\ i' = 0 /\ pc = "erase"
        /\ page' = [w \in 1 .. Words |-> Blank]
        /\ UNCHANGED <<board, mototemp, flag, buff, motolocal, force, last,
                       spoiled>>
    BY <1>1 DEF Erase, Erased
  <2>2. page' \in [1 .. Words -> Halfwords]
        /\ page'[1] = Blank /\ page'[2] = Blank /\ page'[5] = Blank
    BY <2>1 DEF Words, MAX_MOUDLE_NUM, Halfwords
  <2>3. TypeOK'
    BY <2>1, <2>2 DEF LoopInv, TypeOK, Words, MAX_MOUDLE_NUM
  <2>4. PageFits'
    BY <2>1, <2>2 DEF PageFits
  <2> QED
    BY <2>1, <2>3, <2>4 DEF LoopInv, LoopFits
<1>2. CASE EraseFails
  BY <1>2 DEF EraseFails, LoopInv, TypeOK, LoopFits, PageFits
<1> QED
  BY <1>1, <1>2

(* Programming: on drivethree word by word, on drivetwo the first word     *)
(* only.                                                                   *)
LEMMA ProgramLoop ==
  ASSUME LoopInv, ProgramWord
  PROVE  LoopInv'
<1> USE DEF ProgramWord
<1>1. /\ pc = "program" /\ Len(buff) \in 4 .. 7 /\ buff \in Seq(Level)
      /\ buff[1] \in Mot /\ page \in [1 .. 7 -> Halfwords] /\ i \in 0 .. 10
  <2>1. Words = 7
    BY DEF Words, MAX_MOUDLE_NUM
  <2>2. pc = "program"
    OBVIOUS
  <2> HIDE DEF ProgramWord
  <2>3. Len(buff) <= 7 /\ page \in [1 .. 7 -> Halfwords] /\ i \in 0 .. 10
    BY <2>1 DEF LoopInv, TypeOK
  <2>4. buff \in Seq(Level) /\ Len(buff) >= 4 /\ buff[1] \in Mot
    BY <2>2 DEF LoopInv, LoopFits
  <2>5. Len(buff) \in Nat
    BY <2>4
  <2>6. Len(buff) \in 4 .. 7
    <3> DEFINE l == Len(buff)
    <3>1. l \in Nat /\ l >= 4 /\ l <= 7
      BY <2>3, <2>4, <2>5
    <3> HIDE DEF l
    <3>2. l \in 4 .. 7
      BY <3>1
    <3> QED
      BY <3>2 DEF l
  <2> QED
    BY <2>2, <2>3, <2>4, <2>6
<1>2. CASE i < Length
  <2>1. PICK v \in Halfword(i) : page' = Programmed(WordAt(i), v)
    BY <1>2
  <2>2. /\ i' = i + 1
        /\ UNCHANGED <<pc, board, mototemp, flag, buff, motolocal, force,
                       last, spoiled>>
    BY <1>2
  <2> HIDE DEF ProgramWord
  <2>3. v \in Level /\ (i < Len(buff) => v = buff[i + 1])
        /\ (i >= Len(buff) => v \in 0 .. 1)
    BY <1>1, <2>1 DEF Halfword, Level
  <2>4. WordAt(i) \in 1 .. 7 /\ (board # "two" => i < Len(buff))
        /\ i' \in 0 .. 10
    <3>1. CASE board = "two"
      <4>1. WordAt(i) = 1 /\ Length = Len(buff) + 3
        BY <3>1 DEF WordAt, Length
      <4>2. PICK l \in 4 .. 7 : l = Len(buff)
        BY <1>1
      <4>3. i \in Nat /\ i < l + 3
        BY <1>1, <1>2, <4>1, <4>2
      <4>4. i < 10
        BY <4>3
      <4> QED
        BY <1>1, <2>2, <3>1, <4>1, <4>4
    <3>2. CASE board # "two"
      <4>1. WordAt(i) = i + 1 /\ Length = Len(buff)
        BY <3>2 DEF WordAt, Length
      <4> QED
        BY <1>1, <1>2, <2>2, <3>2, <4>1
    <3> QED
      BY <3>1, <3>2
  <2> DEFINE w == WordAt(i)
  <2>5. page' = [page EXCEPT ![w] = IF @ = Blank \/ v = 0 THEN v ELSE @]
    BY <2>1 DEF Programmed
  <2>6. w \in 1 .. 7
    BY <2>4
  <2>7. (board = "two" => w = 1) /\ (board # "two" => w = i + 1)
    BY DEF WordAt
  <2> HIDE DEF w
  <2>8. /\ page' \in [1 .. 7 -> Halfwords]
        /\ page'[w] = IF page[w] = Blank \/ v = 0 THEN v ELSE page[w]
        /\ \A u \in 1 .. 7 : u # w => page'[u] = page[u]
    <3>1. Level \subseteq Halfwords
      BY DEF Halfwords
    <3> QED
      BY <1>1, <2>3, <2>5, <2>6, <3>1
  <2>9. i = 0 => w = 1 /\ v \in Mot
    BY <1>1, <2>3, <2>7
  <2>10. page'[1] \in {0, 1, 2, Blank} /\ page'[1] # Blank
    <3>1. v # Blank
      BY <2>3, ParaAssumption
    <3>2. CASE i = 0
      BY <2>8, <2>9, <3>1, <3>2 DEF LoopInv, PageFits, Mot
    <3>3. CASE i # 0
      <4>1. page[1] # Blank /\ page[1] \in {0, 1, 2}
        BY <1>1, <3>3 DEF LoopInv, PageFits
      <4>2. CASE w = 1
        BY <2>8, <3>1, <4>1, <4>2
      <4>3. CASE w # 1
        BY <2>8, <4>1, <4>3
      <4> QED
        BY <4>2, <4>3
    <3> QED
      BY <3>2, <3>3
  <2>11. ASSUME NEW u \in {2, 5}
         PROVE  page'[u] \in {0, 1, Blank}
    <3>1. page[u] \in {0, 1, Blank}
      BY DEF LoopInv, PageFits
    <3>2. CASE w = u
      <4>1. u = i + 1 /\ u <= Len(buff)
        BY <1>1, <2>4, <2>7, <3>2
      <4>2. v \in 0 .. 1
        BY <1>1, <2>3, <4>1 DEF LoopInv, LoopFits
      <4> QED
        BY <2>8, <3>1, <3>2, <4>2
    <3>3. CASE w # u
      BY <2>8, <3>1, <3>3
    <3> QED
      BY <3>2, <3>3
  <2>12. PageFits'
    BY <2>10, <2>11 DEF PageFits
  <2>13. TypeOK'
    BY <2>2, <2>4, <2>8 DEF LoopInv, TypeOK, Words, MAX_MOUDLE_NUM
  <2> QED
    BY <1>1, <2>2, <2>12, <2>13 DEF LoopInv, LoopFits
<1>3. CASE ~(i < Length)
  BY <1>3 DEF LoopInv, TypeOK, LoopFits, PageFits
<1> QED
  BY <1>2, <1>3
(* flash_init, by the main loop and at the start of the board.             *)
LEMMA TakeOverLoop ==
  ASSUME LoopInv, TakeOver
  PROVE  LoopInv'
<1>1. /\ pc' = "idle" /\ i' = 0 /\ buff' = <<>>
      /\ motolocal' = InitLocal(page, motolocal)
      /\ force' = InitForce(page, motolocal', force)
      /\ mototemp' = [mototemp EXCEPT !.num = Blank]
      /\ UNCHANGED <<board, flag, page, last, spoiled>>
  BY DEF TakeOver
<1>2. motolocal' \in [Mot -> Para]
  BY <1>1, InitLocalType DEF LoopInv, TypeOK, Para
<1>3. force' \in [Mot -> Speeds]
  <2>1. board \in Boards /\ page[1] \in {0, 1, 2, Blank}
        /\ force \in [Mot -> Speeds]
    BY DEF LoopInv, TypeOK, PageFits, Speeds
  <2> QED
    BY <1>1, <1>2, <2>1, InitForceType
<1>4. buff' \in Seq(Level) /\ Len(buff') = 0 /\ i' \in 0 .. Words + 3
  BY <1>1 DEF Words, MAX_MOUDLE_NUM
<1>5. mototemp'.num = Blank /\ mototemp'.para = mototemp.para
  BY <1>1 DEF LoopInv, TypeOK
<1>6. TypeOK'
  <2>1. Len(buff') <= Words /\ \A w \in DOMAIN buff' : buff'[w] \in Level
    BY <1>1, <1>4 DEF Words, MAX_MOUDLE_NUM
  <2> QED
    BY <1>1, <1>2, <1>3, <1>4, <1>5, <2>1 DEF LoopInv, TypeOK, Para, Speeds
<1> QED
  BY <1>1, <1>4, <1>6 DEF LoopInv, LoopFits, PageFits

LEMMA ResetLoop ==
  ASSUME LoopInv, Reset
  PROVE  LoopInv'
<1>1. /\ pc' = "idle" /\ i' = 0 /\ buff' = <<>> /\ flag' = FALSE
      /\ motolocal' = InitLocal(page, AllOld)
      /\ force' = InitForce(page, motolocal', NoForce)
      /\ mototemp' = [num |-> Blank, para |-> AllOld]
      /\ spoiled' = (spoiled \/ flag \/ pc # "idle")
      /\ UNCHANGED <<board, page, last>>
  BY DEF Reset
<1>2. AllOld \in [Mot -> Para] /\ NoForce \in [Mot -> Speeds]
  BY DEF AllOld, NoPara, NoForce, Para, Speeds, Level
<1>3. motolocal' \in [Mot -> Para]
  BY <1>1, <1>2, InitLocalType DEF LoopInv, TypeOK
<1>4. force' \in [Mot -> Speeds]
  <2>1. board \in Boards /\ page[1] \in {0, 1, 2, Blank}
    BY DEF LoopInv, TypeOK, PageFits
  <2> QED
    BY <1>1, <1>2, <1>3, <2>1, InitForceType
<1>5. buff' \in Seq(Level) /\ Len(buff') = 0 /\ i' \in 0 .. Words + 3
  BY <1>1 DEF Words, MAX_MOUDLE_NUM
<1>6. mototemp'.num = Blank /\ mototemp'.para = AllOld
  BY <1>1
<1>7. flag' \in BOOLEAN /\ spoiled' \in BOOLEAN
  BY <1>1, Zenon
<1>8. TypeOK'
  <2>1. Len(buff') <= Words /\ \A w \in DOMAIN buff' : buff'[w] \in Level
    BY <1>1, <1>5 DEF Words, MAX_MOUDLE_NUM
  <2> QED
    BY <1>1, <1>2, <1>3, <1>4, <1>5, <1>6, <1>7, <2>1
    DEF LoopInv, TypeOK, Para, Speeds
<1> QED
  BY <1>1, <1>5, <1>8 DEF LoopInv, LoopFits, PageFits

LEMMA StartLoop ==
  ASSUME LoopInv, StartRuns
  PROVE  LoopInv'
<1>1. force' = [m \in Mot |-> Limited(force[m])]
      /\ UNCHANGED <<board, mototemp, flag, pc, i, buff, page, motolocal,
                     last, spoiled>>
  BY DEF StartRuns
<1>2. ASSUME NEW m \in Mot PROVE Limited(force[m]) \in Speeds
  <2>1. board \in Boards /\ force[m].spd \in Level /\ force[m].ramp \in Level
    BY DEF LoopInv, TypeOK
  <2> QED
    BY <2>1, LimitedType
<1>3. force' \in [Mot -> Speeds]
  BY <1>1, <1>2
<1> QED
  BY <1>1, <1>3 DEF LoopInv, TypeOK, LoopFits, PageFits, Speeds

LEMMA LoopStep ==
  ASSUME IInv, FramesFit, LoopInv, [Next]_vars
  PROVE  LoopInv'
<1>1. CASE Frame
  BY <1>1, FrameLoop
<1>2. CASE StartRuns
  BY <1>2, StartLoop
<1>3. CASE Upload
  BY <1>3, TakeLoop, CopyLoop, EraseLoop, ProgramLoop, TakeOverLoop DEF Upload
<1>4. CASE EraseFails
  BY <1>4, EraseLoop
<1>5. CASE Reset
  BY <1>5, ResetLoop
<1>6. CASE UNCHANGED <<board, mototemp, flag, pc, i, buff, page, motolocal,
                       force, last, spoiled>>
  BY <1>6 DEF LoopInv, TypeOK, LoopFits, PageFits
<1>7. Send \/ FrameLost \/ UNCHANGED vars
      => UNCHANGED <<board, mototemp, flag, pc, i, buff, page, motolocal,
                     force, last, spoiled>>
  BY DEF Send, FrameLost, vars, paravars
<1> QED
  BY <1>1, <1>2, <1>3, <1>4, <1>5, <1>6, <1>7 DEF Next
-----------------------------------------------------------------------------
(* Why a reset of a drivethree changes nothing.  Of a page with a number   *)
(* and a whole first module nothing older matters.  Any other page is what *)
(* an interrupted storing left: the board has been reset since, and its    *)
(* variables hold what that page alone yields.                             *)
NoZero == \A w \in DOMAIN page : page[w] # 0

OfFlash == InitForce(page, InitLocal(page, AllOld), NoForce)

Agree == \A m \in Mot : Limited(force[m]) = Limited(OfFlash[m])

FullPage == \A w \in 1 .. 4 : page[w] # Blank

Consistent ==
  NoZero => /\ Agree
            /\ \/ FullPage
               \/ page[1] = Blank
               \/ motolocal = InitLocal(page, AllOld)

Storing ==
  board = "three" =>
    /\ pc \notin {"program", "init"} => Consistent
    /\ pc = "program" =>
         /\ i <= Len(buff)
         /\ \A w \in 1 .. Words :
              page[w] = IF w <= i THEN buff[w] ELSE Blank
    /\ pc = "init" => FullPage \/ Consistent

(* The limits of drivethree leave what they have limited alone.            *)
LEMMA LimitedTwice ==
  ASSUME board = "three", NEW p, p.spd \in Level, p.ramp \in Level
  PROVE  Limited(Limited(p)) = Limited(p)
<1>1. CASE p.spd = 0 \/ p.spd >= 7 \/ p.ramp >= 7
  <2>1. Limited(p) = [spd |-> 7, ramp |-> p.ramp]
    BY <1>1 DEF Limited
  <2> QED
    BY <2>1 DEF Limited
<1>2. CASE ~(p.spd = 0 \/ p.spd >= 7 \/ p.ramp >= 7)
  <2>1. Limited(p) = [spd |-> p.spd, ramp |-> p.ramp]
    BY <1>2 DEF Limited
  <2> QED
    BY <1>2, <2>1 DEF Limited
<1> QED
  BY <1>1, <1>2

(* Reading the flash a second time yields the same.                        *)
LEMMA InitLocalTwice ==
  ASSUME NEW old
  PROVE  InitLocal(page, InitLocal(page, old)) = InitLocal(page, old)
<1> DEFINE l == InitLocal(page, old)
<1>1. l = [m \in Mot |->
            IF page[1] \in {0, Blank} \/ m > page[1] THEN old[m]
            ELSE [idx  |-> Kept(page[3 * m - 1], old[m].idx),
                  spd  |-> Kept(page[3 * m], old[m].spd),
                  ramp |-> Kept(page[3 * m + 1], old[m].ramp)]]
  BY DEF InitLocal
<1>2. InitLocal(page, l) =
        [m \in Mot |->
            IF page[1] \in {0, Blank} \/ m > page[1] THEN l[m]
            ELSE [idx  |-> Kept(page[3 * m - 1], l[m].idx),
                  spd  |-> Kept(page[3 * m], l[m].spd),
                  ramp |-> Kept(page[3 * m + 1], l[m].ramp)]]
  BY DEF InitLocal
<1> HIDE DEF l
<1>3. ASSUME NEW m \in Mot
      PROVE  InitLocal(page, l)[m] = l[m]
  <2>1. CASE page[1] \in {0, Blank} \/ m > page[1]
    BY <1>2, <2>1
  <2>2. CASE ~(page[1] \in {0, Blank} \/ m > page[1])
    <3>1. l[m] = [idx  |-> Kept(page[3 * m - 1], old[m].idx),
                  spd  |-> Kept(page[3 * m], old[m].spd),
                  ramp |-> Kept(page[3 * m + 1], old[m].ramp)]
      BY <1>1, <2>2
    <3>2. InitLocal(page, l)[m] =
            [idx  |-> Kept(page[3 * m - 1], l[m].idx),
             spd  |-> Kept(page[3 * m], l[m].spd),
             ramp |-> Kept(page[3 * m + 1], l[m].ramp)]
      BY <1>2, <2>2
    <3>3. \A word, o : Kept(word, Kept(word, o)) = Kept(word, o)
      BY DEF Kept
    <3> QED
      BY <3>1, <3>2, <3>3
  <2> QED
    BY <2>1, <2>2
<1>4. InitLocal(page, l) = [m \in Mot |-> l[m]] /\ l = [m \in Mot |-> l[m]]
  <2>1. InitLocal(page, l) = [m \in Mot |-> InitLocal(page, l)[m]]
    BY <1>2
  <2>2. l = [m \in Mot |-> l[m]]
    BY <1>1
  <2> QED
    BY <1>3, <2>1, <2>2
<1> QED
  BY <1>4 DEF l

(* What is in force after flash_init on a drivethree, in its three cases.  *)
LEMMA ForceOfBlank ==
  ASSUME page[1] = Blank, NEW local, NEW old
  PROVE  InitForce(page, local, old) = [m \in Mot |-> Limited(Default)]
BY DEF InitForce

LEMMA ForceOfFull ==
  ASSUME board = "three", page[1] \in {1, 2}, page[1] # Blank, NEW local,
         local[1].idx # 0, NEW old
  PROVE  InitForce(page, local, old) = [m \in Mot |-> Limited(local[1])]
<1> DEFINE First(m) == /\ local[m].idx # 0
                       /\ \A n \in 1 .. m - 1 : local[n].idx = 0
           f == CHOOSE m \in 1 .. page[1] : First(m)
<1>1. 1 \in 1 .. page[1] /\ First(1)
  OBVIOUS
<1>2. f \in 1 .. page[1] /\ First(f)
  BY <1>1
<1>3. f = 1
  <2>1. CASE f # 1
    <3>1. 1 \in 1 .. f - 1 /\ f \in Nat
      BY <1>2, <2>1
    <3> QED
      BY <1>2, <3>1
  <2> QED
    BY <2>1
<1>4. InitForce(page, local, old) = [m \in Mot |-> Limited(local[f])]
  BY <1>1 DEF InitForce
<1> HIDE DEF f
<1> QED
  BY <1>3, <1>4

LEMMA ForceOrOld ==
  ASSUME board = "three", page[1] \in {1, 2}, page[1] # Blank, NEW local,
         NEW old, NEW other
  PROVE  \/ InitForce(page, local, old) = InitForce(page, local, other)
         \/ InitForce(page, local, old) = old
            /\ InitForce(page, local, other) = other
<1>1. CASE \E m \in 1 .. page[1] : local[m].idx # 0
  BY <1>1 DEF InitForce
<1>2. CASE ~ \E m \in 1 .. page[1] : local[m].idx # 0
  BY <1>2 DEF InitForce
<1> QED
  BY <1>1, <1>2
LEMMA FlashKept ==
  ASSUME UNCHANGED <<board, page>>
  PROVE  /\ Agree' <=> \A m \in Mot : Limited(force'[m]) = Limited(OfFlash[m])
         /\ NoZero' <=> NoZero
         /\ FullPage' <=> FullPage
         /\ InitLocal(page, AllOld)' = InitLocal(page, AllOld)
<1>1. board' = board /\ page' = page
  OBVIOUS
<1>2. InitLocal(page, AllOld)' = InitLocal(page, AllOld)
  BY <1>1 DEF InitLocal, AllOld, Kept
<1>3. OfFlash' = OfFlash
  <2> DEFINE local == InitLocal(page, AllOld)
  <2>1. local' = local
    BY <1>2
  <2> HIDE DEF local
  <2>2. InitForce(page, local, NoForce)' = InitForce(page, local, NoForce)
    BY <1>1, <2>1, Zenon DEF InitForce, Limited, Default, NoForce
  <2> QED
    BY <2>2 DEF OfFlash, local
<1>4. ASSUME NEW m \in Mot
      PROVE  /\ Limited(force[m])' = Limited(force'[m])
             /\ Limited(OfFlash[m])' = Limited(OfFlash[m])
  BY <1>1, <1>3 DEF Limited
<1>5. Agree' <=> \A m \in Mot : Limited(force'[m]) = Limited(OfFlash[m])
  BY <1>4 DEF Agree
<1> QED
  BY <1>1, <1>2, <1>5 DEF NoZero, FullPage

(* Of a full page the first module is what it says.                        *)
LEMMA FullFirst ==
  ASSUME page \in [1 .. Words -> Halfwords], NoZero, FullPage,
         page[1] \in {1, 2}, NEW old
  PROVE  InitLocal(page, old)[1] =
           [idx |-> page[2], spd |-> page[3], ramp |-> page[4]]
<1>1. /\ page[1] \notin {0, Blank} /\ page[2] \notin {0, Blank}
      /\ page[3] \notin {0, Blank} /\ page[4] \notin {0, Blank}
  BY DEF NoZero, FullPage, Words, MAX_MOUDLE_NUM
<1>2. InitLocal(page, old)[1] =
        [idx  |-> Kept(page[2], old[1].idx), spd |-> Kept(page[3], old[1].spd),
         ramp |-> Kept(page[4], old[1].ramp)]
  BY <1>1 DEF InitLocal, Mot
<1> QED
  BY <1>1, <1>2 DEF Kept

LEMMA TakeOverStoring ==
  ASSUME LoopInv, Storing, TakeOver
  PROVE  Storing'
<1>1. /\ pc = "init" /\ pc' = "idle"
      /\ motolocal' = InitLocal(page, motolocal)
      /\ force' = InitForce(page, motolocal', force)
      /\ UNCHANGED <<board, page>>
  BY DEF TakeOver
<1>2. SUFFICES ASSUME board = "three", NoZero PROVE Consistent'
  BY <1>1, FlashKept DEF Storing, Consistent
<1>3. page[1] \in {1, 2, Blank} /\ page \in [1 .. Words -> Halfwords]
  BY <1>2 DEF LoopInv, TypeOK, PageFits, NoZero, Words, MAX_MOUDLE_NUM
<1>4. CASE page[1] = Blank
  <2>1. force' = [m \in Mot |-> Limited(Default)]
        /\ OfFlash = [m \in Mot |-> Limited(Default)]
    BY <1>1, <1>4, ForceOfBlank DEF OfFlash
  <2>2. Agree'
    BY <1>1, <2>1, FlashKept
  <2> QED
    BY <1>1, <1>4, <2>2, FlashKept DEF Consistent
<1>5. CASE page[1] # Blank /\ FullPage
  <2> DEFINE whole == [idx |-> page[2], spd |-> page[3], ramp |-> page[4]]
  <2>1. motolocal'[1] = whole /\ InitLocal(page, AllOld)[1] = whole
    BY <1>1, <1>2, <1>3, <1>5, FullFirst
  <2>2. whole.idx # 0
    BY <1>2 DEF NoZero, LoopInv, TypeOK, Words, MAX_MOUDLE_NUM
  <2> HIDE DEF whole
  <2>3. InitForce(page, motolocal', force) = [m \in Mot |-> Limited(whole)]
    BY <1>2, <1>3, <1>5, <2>1, <2>2, ForceOfFull
  <2>4. InitForce(page, InitLocal(page, AllOld), NoForce)
          = [m \in Mot |-> Limited(whole)]
    BY <1>2, <1>3, <1>5, <2>1, <2>2, ForceOfFull
  <2>5. Agree'
    BY <1>1, <2>3, <2>4, FlashKept DEF OfFlash
  <2> QED
    BY <1>1, <1>5, <2>5, FlashKept DEF Consistent
<1>6. CASE page[1] # Blank /\ ~FullPage
  <2>1. Agree /\ motolocal = InitLocal(page, AllOld)
    BY <1>1, <1>2, <1>6 DEF Storing, Consistent
  <2>2. motolocal' = motolocal
    BY <1>1, <2>1, InitLocalTwice
  <2>3. force' = InitForce(page, motolocal, force)
        /\ OfFlash = InitForce(page, motolocal, NoForce)
    BY <1>1, <2>1, <2>2 DEF OfFlash
  <2>4. \/ force' = OfFlash
        \/ force' = force
    BY <1>2, <1>3, <1>6, <2>3, ForceOrOld
  <2>5. Agree'
    BY <1>1, <2>1, <2>4, FlashKept DEF Agree
  <2> QED
    BY <1>1, <2>1, <2>2, <2>5, FlashKept DEF Consistent
<1> QED
  BY <1>3, <1>4, <1>5, <1>6
LEMMA ConsistentKept ==
  ASSUME Consistent, UNCHANGED <<board, page, motolocal, force>>
  PROVE  Consistent'
<1>1. Agree' <=> Agree
  BY FlashKept DEF Agree
<1> QED
  BY <1>1, FlashKept DEF Consistent

LEMMA StoringKept ==
  ASSUME Storing, UNCHANGED <<board, pc, i, buff, page, motolocal, force>>
  PROVE  Storing'
BY ConsistentKept, FlashKept DEF Storing

(* A start command limits what is limited already or comes from no flash.  *)
LEMMA StartStoring ==
  ASSUME LoopInv, Storing, StartRuns
  PROVE  Storing'
<1>1. force' = [m \in Mot |-> Limited(force[m])]
      /\ UNCHANGED <<board, pc, i, buff, page, motolocal>>
  BY DEF StartRuns
<1>2. SUFFICES ASSUME board = "three" PROVE Consistent => Consistent'
  BY <1>1, FlashKept DEF Storing
<1>3. ASSUME NEW m \in Mot
      PROVE  Limited(force'[m]) = Limited(force[m])
  <2>1. force[m].spd \in Level /\ force[m].ramp \in Level
    BY DEF LoopInv, TypeOK
  <2> QED
    BY <1>1, <1>2, <2>1, LimitedTwice
<1>4. Agree => Agree'
  BY <1>1, <1>3, FlashKept DEF Agree
<1> QED
  BY <1>1, <1>4, FlashKept DEF Consistent

LEMMA EraseStoring ==
  ASSUME LoopInv, Storing, Erase
  PROVE  Storing'
<1>1. /\ pc' = "program" /\ i' = 0 /\ UNCHANGED <<board, buff>>
      /\ page' = [w \in 1 .. Words |-> Blank]
  BY DEF Erase, Erased
<1>2. Len(buff') \in Nat /\ i' <= Len(buff')
  BY <1>1 DEF LoopInv, LoopFits
<1>3. \A w \in 1 .. Words : page'[w] = IF w <= i' THEN buff'[w] ELSE Blank
  BY <1>1 DEF Words, MAX_MOUDLE_NUM
<1> QED
  BY <1>1, <1>2, <1>3 DEF Storing

LEMMA ProgramStoring ==
  ASSUME LoopInv, Storing, ProgramWord, board = "three"
  PROVE  Storing'
<1>1. /\ pc = "program" /\ i \in Nat /\ buff \in Seq(Level)
      /\ Len(buff) \in Nat /\ Len(buff) >= 4 /\ Len(buff) <= 7 /\ Words = 7
      /\ page \in [1 .. 7 -> Halfwords]
  <2>1. Words = 7
    BY DEF Words, MAX_MOUDLE_NUM
  <2>2. pc = "program"
    BY DEF ProgramWord
  <2>3. buff \in Seq(Level) /\ Len(buff) >= 4
    BY <2>2 DEF LoopInv, LoopFits
  <2>4. Len(buff) <= 7 /\ page \in [1 .. 7 -> Halfwords] /\ i \in Nat
    BY <2>1 DEF LoopInv, TypeOK
  <2> QED
    BY <2>1, <2>2, <2>3, <2>4
<1>2. /\ i <= Len(buff)
      /\ \A w \in 1 .. 7 : page[w] = IF w <= i THEN buff[w] ELSE Blank
  BY <1>1 DEF Storing
<1>3. Length = Len(buff) /\ WordAt(i) = i + 1
  BY DEF Length, WordAt
<1>4. \A w \in 1 .. Len(buff) : buff[w] # Blank
  BY <1>1, ParaAssumption
<1>5. CASE i < Length
  <2>1. PICK v \in Halfword(i) : page' = Programmed(i + 1, v)
    BY <1>3, <1>5 DEF ProgramWord
  <2>2. i' = i + 1 /\ UNCHANGED <<board, pc, buff>>
    BY <1>5 DEF ProgramWord
  <2>3. v = buff[i + 1] /\ i + 1 \in 1 .. 7 /\ i < Len(buff)
    BY <1>1, <1>3, <1>5, <2>1 DEF Halfword
  <2>4. page[i + 1] = Blank
    BY <1>1, <1>2, <2>3
  <2>5. page' = [page EXCEPT ![i + 1] = buff[i + 1]]
    BY <2>1, <2>3, <2>4 DEF Programmed
  <2>6. ASSUME NEW w \in 1 .. 7
        PROVE  page'[w] = IF w <= i + 1 THEN buff[w] ELSE Blank
    <3>1. CASE w = i + 1
      BY <1>1, <2>3, <2>5, <3>1
    <3>2. CASE w # i + 1
      <4>1. page'[w] = page[w]
        BY <1>1, <2>5, <3>2
      <4>2. w <= i + 1 <=> w <= i
        BY <1>1, <3>2
      <4> QED
        BY <1>2, <4>1, <4>2
    <3> QED
      BY <3>1, <3>2
  <2>7. i' <= Len(buff')
    BY <1>1, <2>2, <2>3
  <2> QED
    BY <1>1, <2>2, <2>6, <2>7 DEF Storing
<1>6. CASE ~(i < Length)
  <2>1. pc' = "init" /\ UNCHANGED <<board, page>>
    BY <1>6 DEF ProgramWord
  <2>2. i = Len(buff)
    BY <1>1, <1>2, <1>3, <1>6
  <2>3. ASSUME NEW w \in 1 .. 4 PROVE page[w] # Blank
    <3>1. w <= i /\ w \in 1 .. 7 /\ w \in 1 .. Len(buff)
      BY <1>1, <2>2
    <3> QED
      BY <1>2, <1>4, <3>1
  <2>4. FullPage'
    BY <2>1, <2>3 DEF FullPage
  <2> QED
    BY <2>1, <2>4 DEF Storing
<1> QED
  BY <1>5, <1>6

(* At a start the board holds what its flash yields.                       *)
LEMMA ResetStoring ==
  ASSUME Reset
  PROVE  Storing'
<1>1. /\ pc' = "idle" /\ UNCHANGED <<board, page>>
      /\ motolocal' = InitLocal(page, AllOld)
      /\ force' = InitForce(page, motolocal', NoForce)
  BY DEF Reset
<1>2. force' = OfFlash
  BY <1>1 DEF OfFlash
<1>3. Agree'
  BY <1>1, <1>2, FlashKept
<1> QED
  BY <1>1, <1>3, FlashKept DEF Storing, Consistent

LEMMA InitStoring == Init => Storing
<1> SUFFICES ASSUME Init PROVE Storing
  OBVIOUS
<1>1. pc = "idle" /\ page[1] = Blank
  BY DEF Init, Erased, Words, MAX_MOUDLE_NUM
<1>2. force = InitForce(page, AllOld, NoForce)
  BY DEF Init
<1>3. force = [m \in Mot |-> Limited(Default)]
      /\ OfFlash = [m \in Mot |-> Limited(Default)]
  BY <1>1, <1>2, ForceOfBlank DEF OfFlash
<1>4. Agree
  BY <1>3 DEF Agree
<1> QED
  BY <1>1, <1>4 DEF Storing, Consistent

LEMMA StoringStep ==
  ASSUME LoopInv, Storing, [Next]_vars
  PROVE  Storing'
<1>1. CASE StartRuns
  BY <1>1, StartStoring
<1>2. CASE ClearFlag \/ TakeNum \/ CopyWord
  <2>1. /\ pc \notin {"program", "init"} /\ pc' \notin {"program", "init"}
        /\ UNCHANGED <<board, page, motolocal, force>>
    BY <1>2 DEF ClearFlag, TakeNum, CopyWord
  <2> QED
    BY <2>1, ConsistentKept DEF Storing
<1>3. CASE Erase
  BY <1>3, EraseStoring
<1>4. CASE EraseFails
  <2>1. /\ pc = "erase" /\ pc' = "init"
        /\ UNCHANGED <<board, page, motolocal, force>>
    BY <1>4 DEF EraseFails
  <2> QED
    BY <2>1, ConsistentKept DEF Storing
<1>5. CASE ProgramWord
  <2>1. CASE board = "three"
    BY <1>5, <2>1, ProgramStoring
  <2>2. CASE board # "three"
    <3>1. board' = board
      BY <1>5 DEF ProgramWord
    <3> QED
      BY <2>2, <3>1 DEF Storing
  <2> QED
    BY <2>1, <2>2
<1>6. CASE TakeOver
  BY <1>6, TakeOverStoring
<1>7. CASE Reset
  BY <1>7, ResetStoring
<1>8. Send \/ Frame \/ FrameLost \/ UNCHANGED vars
      => UNCHANGED <<board, pc, i, buff, page, motolocal, force>>
  BY DEF Send, Frame, FrameLost, vars, paravars
<1>9. CASE UNCHANGED <<board, pc, i, buff, page, motolocal, force>>
  BY <1>9, StoringKept
<1> QED
  BY <1>1, <1>2, <1>3, <1>4, <1>5, <1>6, <1>7, <1>8, <1>9 DEF Next, Upload
-----------------------------------------------------------------------------
BoardInv == IInv /\ FramesFit /\ LoopInv /\ Storing

LEMMA BoardInductive ==
  /\ Init => BoardInv
  /\ BoardInv /\ [Next]_vars => BoardInv'
<1>1. Init => BoardInv
  <2>1. Init => IInv /\ FramesFit
    BY InitInv DEF Init, SegInit, FramesFit, Begun
  <2> QED
    BY <2>1, InitLoop, InitStoring DEF BoardInv
<1>2. ASSUME BoardInv, [Next]_vars PROVE BoardInv'
  <2>1. [SegNext]_segvars
    BY <1>2, StepsOfFrames
  <2> QED
    BY <1>2, <2>1, StepInv, FramesFitStep, LoopStep, StoringStep DEF BoardInv
<1> QED
  BY <1>1, <1>2

(* The board's parameters keep their types, and so the numbers they index  *)
(* by their ranges, whatever is sent, lost, reset or half stored: a set    *)
(* put together from the frames of two is one, and a page that programming *)
(* was broken off in has a number of modules or none.                      *)
THEOREM BoardTypeCorrect == Spec => []TypeOK
<1>1. BoardInv => TypeOK
  BY DEF BoardInv, LoopInv
<1> QED
  BY <1>1, BoardInductive, PTL DEF Spec

(* A reset changes nothing in how a drivethree runs its rollers, for all   *)
(* settings and any number of faults.                                      *)
THEOREM ResetChangesNothing == Spec => []InForceIsStored
<1>1. BoardInv => InForceIsStored
  BY DEF BoardInv, Storing, Consistent, NoZero, Agree, OfFlash,
         InForceIsStored
<1> QED
  BY <1>1, BoardInductive, PTL DEF Spec
=============================================================================
