-------------------------------- MODULE Fifo --------------------------------
(***************************************************************************)
(* What the firmware's queues promise: items come out in the order they    *)
(* went in, each once; at most Cap of them wait, and one that finds the    *)
(* queue full is dropped without disturbing the others.                    *)
(***************************************************************************)
EXTENDS Naturals, Sequences

CONSTANTS
  Item,       \* what can be queued
  Cap         \* how many items wait at most

VARIABLES
  waiting,    \* the items that wait, oldest first
  out         \* the item taken last

fvars == <<waiting, out>>

Init == waiting = <<>> /\ out \in Item

Put(i) ==
  /\ Len(waiting) < Cap
  /\ waiting' = Append(waiting, i)
  /\ UNCHANGED out

Take ==
  /\ waiting # <<>>
  /\ out' = Head(waiting)
  /\ waiting' = Tail(waiting)

Next == Take \/ \E i \in Item : Put(i)

Spec == Init /\ [][Next]_fvars
=============================================================================
