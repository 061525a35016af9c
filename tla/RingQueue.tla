----------------------------- MODULE RingQueue -----------------------------
(***************************************************************************)
(* The ring buffer the firmware has four times: the master's messages to   *)
(* the server (fun.c) and frames to CAN (can_bus.c), and the two relay     *)
(* queues of a slave board (can1_bus.c, can2_bus.c).  The main loop takes  *)
(* items out, and either the main loop or the CAN interrupt puts them in;  *)
(* some of the rings are written by both.                                  *)
(*                                                                         *)
(* The interrupt runs to its end between two steps of the main loop.  The  *)
(* steps of the main loop are the loads and stores the C text asks for.    *)
(* The slot at `front` is always free, so Size - 1 items fit.              *)
(***************************************************************************)
EXTENDS Integers, Sequences

CONSTANTS
  Size,        \* maxSize, the slots of the buffer
  Item,        \* what can be queued
  Contexts     \* who may put items in: sets of "main" and "isr"

ASSUME RingAssumption ==
  /\ Size \in Nat /\ Size > 1
  /\ Item # {}
  /\ Contexts \subseteq SUBSET {"main", "isr"}

Index == 0 .. Size - 1

VARIABLES
  producers,   \* the contexts that put items in this ring
  queue, front, rear,
  pc,          \* where the main loop is
  x, load,     \* enQueue: the argument, and rear as it was read
  frame,       \* can_send_frame_process: the frame in the mailbox
  out          \* the item the main loop has taken last

vars == <<producers, queue, front, rear, pc, x, load, frame, out>>

(* Mutant of After: the index does not wrap around.                        *)
AfterUnwrapped(i) == i + 1

After(i) == (i + 1) % Size

(* Mutant of Full: the ring is filled to its last slot.                    *)
FullLate == FALSE

Full == After(rear) = front

Empty == front = rear

(* initQueue; the buffer's and the locals' contents are anything.          *)
Init ==
  /\ producers \in Contexts
  /\ front = 0 /\ rear = 0
  /\ \E i \in Item : /\ queue = [k \in Index |-> i]
                     /\ x = i /\ frame = i /\ out = i
  /\ load = 0
  /\ pc = "main"

-----------------------------------------------------------------------------
(* enQueue called by the main loop: a full ring drops the item ...         *)
PutFull(i) ==
  /\ pc = "main" /\ "main" \in producers
  /\ Full
  /\ UNCHANGED vars

(* ... otherwise rear is read again,                                       *)
PutTest(i) ==
  /\ pc = "main" /\ "main" \in producers
  /\ ~Full
  /\ x' = i
  /\ pc' = "load"
  /\ UNCHANGED <<producers, queue, front, rear, load, frame, out>>

PutLoad ==
  /\ pc = "load"
  /\ load' = rear
  /\ pc' = "advance"
  /\ UNCHANGED <<producers, queue, front, rear, x, frame, out>>

(* its successor written,                                                  *)
PutAdvance ==
  /\ pc = "advance"
  /\ rear' = After(load)
  /\ pc' = "store"
  /\ UNCHANGED <<producers, queue, front, x, load, frame, out>>

(* and the item stored at what q->rear is by then; a compiler that counts  *)
(* on nobody else writing it stores at the value just written.             *)
PutStore ==
  /\ pc = "store"
  /\ \E tail \in {rear, After(load)} : queue' = [queue EXCEPT ![tail] = x]
  /\ pc' = "main"
  /\ UNCHANGED <<producers, front, rear, x, load, frame, out>>

(* The same from the CAN interrupt, between two steps of the main loop.    *)
IsrPut(i) ==
  /\ "isr" \in producers
  /\ ~Full
  /\ rear' = After(rear)
  /\ queue' = [queue EXCEPT ![After(rear)] = i]
  /\ UNCHANGED <<producers, front, pc, x, load, frame, out>>

IsrPutFull(i) ==
  /\ "isr" \in producers
  /\ Full
  /\ UNCHANGED vars

-----------------------------------------------------------------------------
(* outQueue moves front first and reads the slot after that.               *)
GetAdvance ==
  /\ pc = "main"
  /\ ~Empty
  /\ front' = After(front)
  /\ pc' = "read"
  /\ UNCHANGED <<producers, queue, rear, x, load, frame, out>>

GetRead ==
  /\ pc = "read"
  /\ out' = queue[front]
  /\ pc' = "main"
  /\ UNCHANGED <<producers, queue, front, rear, x, load, frame>>

(* can_send_frame_process copies the slot to a mailbox of the controller,  *)
(* when one is free, and moves front after that.                           *)
SendCopy ==
  /\ pc = "main"
  /\ ~Empty
  /\ frame' = queue[After(front)]
  /\ pc' = "sent"
  /\ UNCHANGED <<producers, queue, front, rear, x, load, out>>

SendAdvance ==
  /\ pc = "sent"
  /\ front' = After(front)
  /\ out' = frame
  /\ pc' = "main"
  /\ UNCHANGED <<producers, queue, rear, x, load, frame>>

Next ==
  \/ \E i \in Item : PutFull(i)
  \/ \E i \in Item : PutTest(i)
  \/ PutLoad
  \/ PutAdvance
  \/ PutStore
  \/ \E i \in Item : IsrPut(i)
  \/ \E i \in Item : IsrPutFull(i)
  \/ GetAdvance
  \/ GetRead
  \/ SendCopy
  \/ SendAdvance

Spec == Init /\ [][Next]_vars

-----------------------------------------------------------------------------
(* Every variable has its type.                                            *)
TypeOK ==
  /\ producers \in Contexts
  /\ queue \in [Index -> Item]
  /\ front \in Index /\ rear \in Index /\ load \in Index
  /\ pc \in {"main", "load", "advance", "store", "read", "sent"}
  /\ x \in Item /\ frame \in Item /\ out \in Item

(* How many items wait, and the k-th oldest of them.  The one the main     *)
(* loop is putting in waits from the moment rear has moved.                *)
Count == (rear - front + Size) % Size

Nth(k) == IF pc = "store" /\ k = Count THEN x ELSE queue[(front + k) % Size]

Waiting == [k \in 1 .. Count |-> Nth(k)]

(* outQueue's item is taken from the moment front has moved.               *)
Out == IF pc = "read" THEN queue[front] ELSE out

Fifo == INSTANCE Fifo WITH Cap <- Size - 1, waiting <- Waiting, out <- Out

(* A ring with one producing context is a bounded first-in first-out       *)
(* queue, although the other context is anywhere in its own steps: nothing *)
(* waiting is overwritten, lost or repeated, and no slot is read before it *)
(* is filled (enQueue/outQueue, AddCanSendData2Queue, the relay queues).   *)
ImplementsFifo == Fifo!Spec

(* "Assign the value of x to the new tail" (fun.c 42): when enQueue is     *)
(* done, the slot after the tail it found holds its item.                  *)
AssignedToNewTail == [][PutStore => queue'[After(load)] = x]_vars
=============================================================================
