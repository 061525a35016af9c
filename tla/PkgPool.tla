------------------------------ MODULE PkgPool ------------------------------
(***************************************************************************)
(* What the master's package table promises to the rest of the firmware:   *)
(* a bounded pool of numbered slots, each holding at most one package in   *)
(* transport, and a bounded FIFO of transport results.  No lists, no       *)
(* cursors, no pointers: PkgList.tla is the detailed specification that    *)
(* implements this one.                                                    *)
(*                                                                         *)
(* A slot is free, carries a package (it is in DOMAIN carried), or is lost *)
(* (it is neither free nor on the list: restarting the zone configuration  *)
(* empties the list and leaves the slots marked as used).                  *)
(***************************************************************************)
EXTENDS Naturals, Sequences

CONSTANTS
  Slot,       \* the slot numbers, 0 .. MAX_PKG_NUM-1
  Pkg,        \* the package identifiers the server may send
  Allow,      \* the states the server may give a package
  ResultCap   \* how many results wait for the server at most

VARIABLES
  carried,    \* [slots in use -> the package each carries]
  allowed,    \* [slots in use -> what the server said of the package]
  lost,       \* slots neither free nor in use
  results     \* delivered packages the server has not been told of

pvars == <<carried, allowed, lost, results>>

InUse == DOMAIN carried

Init ==
  /\ carried = [s \in {} |-> s]
  /\ allowed = [s \in {} |-> s]
  /\ lost = {}
  /\ results = <<>>

(* The lowest free slot takes the package, which may move at once.         *)
Accept(p) ==
  \E s \in Slot \ (InUse \cup lost) :
    /\ \A t \in Slot : t < s => t \in InUse \cup lost
    /\ carried' = [t \in InUse \cup {s} |-> IF t = s THEN p ELSE carried[t]]
    /\ allowed' = [t \in InUse \cup {s} |->
                     IF t = s THEN "allow" ELSE allowed[t]]
    /\ UNCHANGED <<lost, results>>

(* The server allows, forbids or cancels one package in use.               *)
SetAllowed(s, a) ==
  /\ s \in InUse
  /\ allowed' = [allowed EXCEPT ![s] = a]
  /\ UNCHANGED <<carried, lost, results>>

(* A package that may move reaches the end of its path: the slot is free   *)
(* again and one result is queued, unless the queue is full.               *)
Deliver(s) ==
  /\ s \in InUse
  /\ allowed[s] = "allow"
  /\ carried' = [t \in InUse \ {s} |-> carried[t]]
  /\ allowed' = [t \in InUse \ {s} |-> allowed[t]]
  /\ results' = IF Len(results) < ResultCap
                THEN Append(results, carried[s]) ELSE results
  /\ UNCHANGED lost

(* The oldest result goes to the server.                                   *)
Report ==
  /\ results # <<>>
  /\ results' = Tail(results)
  /\ UNCHANGED <<carried, allowed, lost>>

(* A new zone configuration begins: no package is in transport any more    *)
(* and the slots of those that were are lost.                              *)
Reconfigure ==
  /\ carried' = [s \in {} |-> s]
  /\ allowed' = [s \in {} |-> s]
  /\ lost' = lost \cup InUse
  /\ UNCHANGED results

Next ==
  \/ \E p \in Pkg : Accept(p)
  \/ \E s \in Slot, a \in Allow : SetAllowed(s, a)
  \/ \E s \in Slot : Deliver(s)
  \/ Report
  \/ Reconfigure

Spec == Init /\ [][Next]_pvars
=============================================================================
