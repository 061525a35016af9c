----------------------------- MODULE CanSegment -----------------------------
(***************************************************************************)
(* How a message longer than a CAN frame travels from the master to a      *)
(* board: cut into a FIRST frame, MIDDLE frames and a FINAL one            *)
(* (can_bus_send_msg), relayed in order, and put together again by the     *)
(* board's interrupt (vcanbus_frame_receive_two).  A short message is one  *)
(* NONE frame and shares the board's buffer.  Any frame may get lost: on   *)
(* the bus, or because one of the queues on its way was full, which the    *)
(* code does not report.                                                   *)
(*                                                                         *)
(* The frames on their way are the messages of outbox, the first of them   *)
(* from its frame `next` on: the path is a queue and the master queues     *)
(* whole messages.  <<m, k>> stands for the bytes in frame k of m.  A      *)
(* NONE frame that is shorter than the bytes it overwrites is taken to     *)
(* replace them all.                                                       *)
(***************************************************************************)
EXTENDS Integers, Sequences

CONSTANTS
  Message,     \* what the master sends to this board
  Bytes,       \* the length of each message
  PackLen,     \* CAN_PACK_DATA_LEN
  RxSize,      \* CAN_RX_BUFF_SIZE
  MaxSends     \* bound on the messages sent

(* The master's messages are at most 50 bytes (sendbuf): they fit in the   *)
(* board's buffer of 300, and the segment number stays below the 128 that  *)
(* its seven bits can tell.                                                *)
ASSUME SegmentAssumption ==
  /\ PackLen \in Nat \ {0} /\ RxSize \in Nat /\ MaxSends \in Nat
  /\ Bytes \in [Message -> Nat]
  /\ \A m \in Message : Bytes[m] <= RxSize /\ Bytes[m] <= 128 * PackLen

VARIABLES
  outbox,      \* messages with frames on their way, in order
  next,        \* the number of the next frame of Head(outbox)
  recv_buff,   \* cantwo_recv_buff: the parts in it, from its start on
  g_SegPolo,   \* whether a FIRST frame has begun a message
  g_SegNum,    \* the number of the last frame taken
  g_SegBytes,  \* the bytes taken so far
  handled,     \* the parts handed to canbus_recv_can_msg last
  sends,       \* messages sent so far
  headlost,    \* a FIRST frame was lost
  taillost     \* a MIDDLE or a FINAL frame was lost

rx == <<recv_buff, g_SegPolo, g_SegNum, g_SegBytes>>
segvars == <<outbox, next, rx, handled, sends, headlost, taillost>>

(* The last frame of m has number LastFrame(m); the loop of                *)
(* can_bus_send_msg sends full frames while more than one remains.         *)
LastFrame(m) == IF Bytes[m] <= PackLen THEN 0 ELSE (Bytes[m] - 1) \div PackLen

SegPolo(m, k) ==
  IF LastFrame(m) = 0 THEN "NONE"
  ELSE IF k = 0 THEN "FIRST"
  ELSE IF k < LastFrame(m) THEN "MIDDLE"
  ELSE "FINAL"

DataLen(m, k) == IF k < LastFrame(m) THEN PackLen ELSE Bytes[m] - k * PackLen

SegInit ==
  /\ outbox = <<>> /\ next = 0
  /\ recv_buff = <<>>
  /\ g_SegPolo = "NONE" /\ g_SegNum = 0 /\ g_SegBytes = 0
  /\ handled = <<>>
  /\ sends = 0
  /\ headlost = FALSE /\ taillost = FALSE

(* can_bus_send_msg: all frames of m are queued behind the others.         *)
SendMsg(m) ==
  /\ sends < MaxSends
  /\ sends' = sends + 1
  /\ outbox' = Append(outbox, m)
  /\ UNCHANGED <<next, rx, handled, headlost, taillost>>

OnItsWay == outbox # <<>>
Msg      == Head(outbox)

(* The next frame leaves the path, delivered or lost.                      *)
Leaves ==
  IF next = LastFrame(Msg)
  THEN outbox' = Tail(outbox) /\ next' = 0
  ELSE next' = next + 1 /\ UNCHANGED outbox

ReceiveNone ==
  /\ SegPolo(Msg, next) = "NONE"
  /\ recv_buff' = IF recv_buff = <<>> THEN <<<<Msg, next>>>>
                  ELSE [recv_buff EXCEPT ![1] = <<Msg, next>>]
  /\ handled' = <<<<Msg, next>>>>
  /\ UNCHANGED <<g_SegPolo, g_SegNum, g_SegBytes>>

ReceiveFirst ==
  /\ SegPolo(Msg, next) = "FIRST"
  /\ recv_buff' = <<<<Msg, next>>>>
  /\ g_SegPolo' = "FIRST"
  /\ g_SegNum' = next
  /\ g_SegBytes' = DataLen(Msg, next)
  /\ UNCHANGED handled

(* Mutant: the frame's number is not compared.                             *)
ContinuesAny ==
  /\ g_SegPolo = "FIRST"
  /\ g_SegBytes + DataLen(Msg, next) <= RxSize

(* The guard of the MIDDLE and the FINAL branch.                           *)
Continues ==
  /\ g_SegPolo = "FIRST"
  /\ next = g_SegNum + 1
  /\ g_SegBytes + DataLen(Msg, next) <= RxSize

ReceiveMiddle ==
  /\ SegPolo(Msg, next) = "MIDDLE"
  /\ Continues
  /\ recv_buff' = Append(recv_buff, <<Msg, next>>)
  /\ g_SegNum' = g_SegNum + 1
  /\ g_SegBytes' = g_SegBytes + DataLen(Msg, next)
  /\ UNCHANGED <<g_SegPolo, handled>>

ReceiveFinal ==
  /\ SegPolo(Msg, next) = "FINAL"
  /\ Continues
  /\ recv_buff' = Append(recv_buff, <<Msg, next>>)
  /\ handled' = recv_buff'
  /\ g_SegPolo' = "NONE" /\ g_SegNum' = 0 /\ g_SegBytes' = 0

(* The FINAL frame that completes a message.                               *)
Completes == SegPolo(Msg, next) = "FINAL" /\ Continues

Ignore ==
  /\ SegPolo(Msg, next) \in {"MIDDLE", "FINAL"}
  /\ ~Continues
  /\ UNCHANGED <<rx, handled>>

(* vcanbus_frame_receive_two on the frames addressed to this board.        *)
Receive ==
  /\ OnItsWay
  /\ Leaves
  /\ \/ ReceiveNone
     \/ ReceiveFirst
     \/ ReceiveMiddle
     \/ ReceiveFinal
     \/ Ignore
  /\ UNCHANGED <<sends, headlost, taillost>>

(* A frame is lost on the bus or at a full queue.                          *)
Lose ==
  /\ OnItsWay
  /\ Leaves
  /\ headlost' = (headlost \/ SegPolo(Msg, next) = "FIRST")
  /\ taillost' = (taillost \/ SegPolo(Msg, next) \in {"MIDDLE", "FINAL"})
  /\ UNCHANGED <<rx, handled, sends>>

(* The board starts: its variables are zero.                               *)
BoardStarts ==
  /\ recv_buff' = <<>>
  /\ g_SegPolo' = "NONE" /\ g_SegNum' = 0 /\ g_SegBytes' = 0
  /\ UNCHANGED <<outbox, next, handled, sends, headlost, taillost>>

SegNext == (\E m \in Message : SendMsg(m)) \/ Receive \/ Lose \/ BoardStarts

SegSpec == SegInit /\ [][SegNext]_segvars
-----------------------------------------------------------------------------
(* The parts of m, in the order in which they make it up.                  *)
Whole(m) == [i \in 1 .. LastFrame(m) + 1 |-> <<m, i - 1>>]

(* What a board acts upon is one message the master sent, all of it, in    *)
(* order and once: never the head of one with the tail of another, never   *)
(* one with a hole.  It takes two losses of different kinds to break it:   *)
(* the tail of one message, which leaves the buffer begun, and the FIRST   *)
(* frame of the next (the code compares numbers and never the sender or    *)
(* the message).                                                           *)
HandledWhole ==
  \/ headlost /\ taillost
  \/ handled = <<>>
  \/ \E m \in Message : handled = Whole(m)
=============================================================================
