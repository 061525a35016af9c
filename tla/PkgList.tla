------------------------------ MODULE PkgList ------------------------------
(***************************************************************************)
(* The master's package table: the slots of data.c, the sorted doubly      *)
(* linked list of list.c, and the three loops over it that the main loop   *)
(* runs (vListInsert, logic_pkg_trans_process, funrecv_pkg_state_cmd), one *)
(* action per loop iteration.  What happens to a package between two       *)
(* visits is Conveyor.tla; here a visit keeps the package or delivers it.  *)
(*                                                                         *)
(* An item is named by its xItemValue: slot i's item holds i from boot on  *)
(* (data_pkg_list_init), the end marker holds LIST_MAX_NUM.                *)
(***************************************************************************)
EXTENDS Integers, Sequences

CONSTANTS
  NSlot,      \* MAX_PKG_NUM
  EndValue,   \* LIST_MAX_NUM, the end marker's xItemValue
  QueueLen,   \* PKGQUEUELEN: the ring holds one result less
  Pkg,        \* package identifiers the server sends
  NoPkg,      \* what pkgId holds before the slot's first use
  MaxInsert   \* bound on uxNumberOfItems, which only a reinitialisation resets

ASSUME ListAssumption ==
  /\ NSlot \in Nat \ {0}
  /\ EndValue \in Nat /\ EndValue >= NSlot
  /\ QueueLen \in Nat \ {0}
  /\ MaxInsert \in Nat
  /\ NoPkg \notin Pkg

Slot == 0 .. (NSlot - 1)
Node == Slot \cup {EndValue}
Null == -1

(* The states the protocol gives a package; SUCCESS is the board's own.    *)
AllowCmd   == {"allow", "forbid", "abort"}
AllowState == AllowCmd \cup {"success"}

VARIABLES
  pc,              \* which loop the main loop is in
  pxNext, pxPrevious,
  contained,       \* the slots whose pvContainer is not NULL
  pxIndex,         \* the list's own cursor, shared by both walks
  uxNumberOfItems,
  pkgId, allowState,
  newItem, pxIterator,              \* locals of vListInsert
  idtemp, state, itemvalue,         \* locals of funrecv_pkg_state_cmd
  results,         \* pkgresultqueue, oldest first
  live,            \* history: slots inserted and neither removed nor dropped
  snapshot, visited  \* history: live as this pass began, slots it has visited

listVars == <<pxNext, pxPrevious, contained, uxNumberOfItems, live>>
cmdVars  == <<idtemp, state, itemvalue>>
insVars  == <<newItem, pxIterator>>
walkVars == <<snapshot, visited>>
vars == <<pc, listVars, pxIndex, pkgId, allowState, insVars, cmdVars, results,
          walkVars>>

(* A local of a loop has no value outside it: it is set back here, so that *)
(* two states that differ in nothing alive are one.                        *)
LeaveInsert == newItem' = 0 /\ pxIterator' = EndValue
LeaveState  == idtemp' = NoPkg /\ state' = "allow" /\ itemvalue' = 0
LeaveTrans  == snapshot' = {} /\ visited' = {}

-----------------------------------------------------------------------------
(* MUTANT of Init: vListInitialise forgotten at boot.                      *)
InitNoList ==
  /\ pc = "main"
  /\ pxNext = [n \in Node |-> Null]
  /\ pxPrevious = [n \in Node |-> Null]
  /\ contained = {}
  /\ pxIndex = EndValue
  /\ uxNumberOfItems = 0
  /\ pkgId = [s \in Slot |-> NoPkg]
  /\ allowState = [s \in Slot |-> "allow"]
  /\ newItem = 0 /\ pxIterator = EndValue
  /\ idtemp = NoPkg /\ state = "allow" /\ itemvalue = 0
  /\ snapshot = {} /\ visited = {}
  /\ results = <<>>
  /\ live = {}

-----------------------------------------------------------------------------
(* After main_init_msg: data_msg_init, data_pkg_list_init and              *)
(* DatainitpkgQueue have run, everything else is zero.                     *)
Init ==
  /\ pc = "main"
  /\ pxNext = [n \in Node |-> IF n = EndValue THEN EndValue ELSE Null]
  /\ pxPrevious = [n \in Node |-> IF n = EndValue THEN EndValue ELSE Null]
  /\ contained = {}
  /\ pxIndex = EndValue
  /\ uxNumberOfItems = 0
  /\ pkgId = [s \in Slot |-> NoPkg]
  /\ allowState = [s \in Slot |-> "allow"]
  /\ newItem = 0 /\ pxIterator = EndValue
  /\ idtemp = NoPkg /\ state = "allow" /\ itemvalue = 0
  /\ snapshot = {} /\ visited = {}
  /\ results = <<>>
  /\ live = {}

-----------------------------------------------------------------------------
(* funrecv_pkg_trans_cmd, data_addto_pkg_list: the first slot without a    *)
(* container takes the package and vListInsert begins.                     *)
RecvPkgTrans(p) ==
  /\ pc = "main"
  /\ uxNumberOfItems < MaxInsert
  /\ \E i \in Slot \ contained :
       /\ \A j \in Slot : j < i => j \in contained
       /\ pkgId' = [pkgId EXCEPT ![i] = p]
       /\ allowState' = [allowState EXCEPT ![i] = "allow"]
       /\ newItem' = i
  /\ pxIterator' = EndValue
  /\ pc' = "insert"
  /\ UNCHANGED <<listVars, pxIndex, cmdVars, results, walkVars>>

(* The same command with every slot taken: dropped, without a word.        *)
RecvPkgTransFull(p) ==
  /\ pc = "main"
  /\ contained = Slot
  /\ UNCHANGED vars

(* vListInsert's loop: past every item whose value is not greater.         *)
InsertStep ==
  /\ pc = "insert"
  /\ pxNext[pxIterator] <= newItem
  /\ pxIterator' = pxNext[pxIterator]
  /\ UNCHANGED <<pc, listVars, pxIndex, pkgId, allowState, newItem, cmdVars,
                 results, walkVars>>

(* MUTANT of LinkNext: the predecessor is linked before its pxNext is read.*)
LinkNextSwapped(new, it) == [pxNext EXCEPT ![new] = new, ![it] = new]

(* MUTANT of LinkPrevious: the successor's pxPrevious is forgotten.        *)
LinkPreviousHalf(new, it) == [pxPrevious EXCEPT ![new] = it]

(* The four pointer assignments after the loop, in their order.            *)
LinkNext(new, it) == [pxNext EXCEPT ![new] = pxNext[it], ![it] = new]
LinkPrevious(new, it) ==
  [pxPrevious EXCEPT ![pxNext[it]] = new, ![new] = it]

InsertLink ==
  /\ pc = "insert"
  /\ pxNext[pxIterator] > newItem
  /\ pxNext' = LinkNext(newItem, pxIterator)
  /\ pxPrevious' = LinkPrevious(newItem, pxIterator)
  /\ contained' = contained \cup {newItem}
  /\ live' = live \cup {newItem}
  /\ uxNumberOfItems' = uxNumberOfItems + 1
  /\ pc' = "main"
  /\ LeaveInsert
  /\ UNCHANGED <<pxIndex, pkgId, allowState, cmdVars, results, walkVars>>

-----------------------------------------------------------------------------
(* The first packet of a zone configuration calls data_msg_init, whose     *)
(* vListInitialise empties the list.  The items keep their pvContainer.    *)
Reinitialise ==
  /\ pc = "main"
  /\ pxNext' = [pxNext EXCEPT ![EndValue] = EndValue]
  /\ pxPrevious' = [pxPrevious EXCEPT ![EndValue] = EndValue]
  /\ pxIndex' = EndValue
  /\ uxNumberOfItems' = 0
  /\ live' = {}
  /\ UNCHANGED <<pc, contained, pkgId, allowState, insVars, cmdVars, results,
                 walkVars>>

-----------------------------------------------------------------------------
(* logic_pkg_trans_process: the head of its for loop.                      *)
TransStart ==
  /\ pc = "main"
  /\ pxIndex' = pxNext[EndValue]
  /\ pc' = "trans"
  /\ snapshot' = live
  /\ visited' = {}
  /\ UNCHANGED <<listVars, pkgId, allowState, insVars, cmdVars, results>>

(* A visit after which the package is still in transport.                  *)
TransKeep ==
  /\ pc = "trans"
  /\ pxIndex # EndValue
  /\ pxIndex' = pxNext[pxIndex]
  /\ visited' = visited \cup {pxIndex}
  /\ UNCHANGED <<pc, listVars, pkgId, allowState, insVars, cmdVars, results,
                 snapshot>>

(* MUTANT of Unlinked: the cursor steps on instead of back.                *)
UnlinkedForward(item) ==
  [next  |-> [pxNext EXCEPT ![pxPrevious[item]] = pxNext[item]],
   prev  |-> [pxPrevious EXCEPT ![pxNext[item]] = pxPrevious[item]],
   index |-> IF pxIndex = item THEN pxNext[item] ELSE pxIndex]

(* uxListRemove(item): unlink it, step the cursor back if it stood there.  *)
(* The item's own pointers keep their values.                              *)
Unlinked(item) ==
  [next  |-> [pxNext EXCEPT ![pxPrevious[item]] = pxNext[item]],
   prev  |-> [pxPrevious EXCEPT ![pxNext[item]] = pxPrevious[item]],
   index |-> IF pxIndex = item THEN pxPrevious[item] ELSE pxIndex]

(* MUTANT of DataaddPkgQueue: the full test is off by one.                 *)
DataaddPkgQueueLate(p) ==
  IF Len(results) < QueueLen THEN Append(results, p) ELSE results

(* DataaddPkgQueue drops the result when the ring is full.                 *)
DataaddPkgQueue(p) ==
  IF Len(results) < QueueLen - 1 THEN Append(results, p) ELSE results

(* A visit that finds the package at the end of its path: the result is    *)
(* queued, the item removed, and the loop steps on from the new cursor.    *)
TransArrive ==
  /\ pc = "trans"
  /\ pxIndex # EndValue
  /\ allowState[pxIndex] = "allow"
  /\ allowState' = [allowState EXCEPT ![pxIndex] = "success"]
  /\ results' = DataaddPkgQueue(pkgId[pxIndex])
  /\ LET u == Unlinked(pxIndex)
     IN  /\ pxNext' = u.next
         /\ pxPrevious' = u.prev
         /\ pxIndex' = u.next[u.index]
  /\ contained' = contained \ {pxIndex}
  /\ live' = live \ {pxIndex}
  /\ visited' = visited \cup {pxIndex}
  /\ UNCHANGED <<pc, uxNumberOfItems, pkgId, insVars, cmdVars, snapshot>>

TransEnd ==
  /\ pc = "trans"
  /\ pxIndex = EndValue
  /\ pc' = "main"
  /\ LeaveTrans
  /\ UNCHANGED <<listVars, pxIndex, pkgId, allowState, insVars, cmdVars,
                 results>>

-----------------------------------------------------------------------------
(* funrecv_pkg_state_cmd: its loop ends at the item whose value is the     *)
(* item COUNT, not the end marker's value.                                 *)
RecvPkgState(p, a) ==
  /\ pc = "main"
  /\ idtemp' = p
  /\ state' = a
  /\ itemvalue' = uxNumberOfItems
  /\ pxIndex' = pxNext[EndValue]
  /\ pc' = "state"
  /\ UNCHANGED <<listVars, pkgId, allowState, insVars, results, walkVars>>

(* One iteration.  At the end marker pvOwner lies past the mini item; what *)
(* is read there is taken to match no package.                             *)
StateStep ==
  /\ pc = "state"
  /\ pxIndex # itemvalue
  /\ allowState' = [s \in Slot |-> IF s = pxIndex /\ pkgId[s] = idtemp
                                   THEN state ELSE allowState[s]]
  /\ pxIndex' = pxNext[pxIndex]
  /\ UNCHANGED <<pc, listVars, pkgId, insVars, cmdVars, results, walkVars>>

StateDone ==
  /\ pc = "state"
  /\ pxIndex = itemvalue
  /\ pc' = "main"
  /\ LeaveState
  /\ UNCHANGED <<listVars, pxIndex, pkgId, allowState, insVars, results,
                 walkVars>>

(* send_pkg_result_msg takes the oldest result (DatagetmsgfromQueue).      *)
TakeResult ==
  /\ pc = "main"
  /\ results # <<>>
  /\ results' = Tail(results)
  /\ UNCHANGED <<pc, listVars, pxIndex, pkgId, allowState, insVars, cmdVars,
                 walkVars>>

-----------------------------------------------------------------------------
(* The iterations the main loop cannot avoid once a loop has begun.        *)
LoopStep ==
  InsertStep \/ InsertLink \/ TransKeep \/ TransArrive \/ TransEnd
    \/ StateStep \/ StateDone

Next ==
  \/ \E p \in Pkg : RecvPkgTrans(p)
  \/ \E p \in Pkg : RecvPkgTransFull(p)
  \/ InsertStep
  \/ InsertLink
  \/ Reinitialise
  \/ TransStart
  \/ TransKeep
  \/ TransArrive
  \/ TransEnd
  \/ \E p \in Pkg, a \in AllowCmd : RecvPkgState(p, a)
  \/ StateStep
  \/ StateDone
  \/ TakeResult

Spec == Init /\ [][Next]_vars

(* The main loop runs for ever, so a loop it has entered keeps iterating.  *)
FairSpec == Spec /\ WF_vars(LoopStep)

-----------------------------------------------------------------------------
(* Every variable has its type.                                            *)
TypeOK ==
  /\ pc \in {"main", "insert", "trans", "state"}
  /\ pxNext \in [Node -> Node \cup {Null}]
  /\ pxPrevious \in [Node -> Node \cup {Null}]
  /\ contained \in SUBSET Slot
  /\ pxIndex \in Node
  /\ uxNumberOfItems \in Nat
  /\ pkgId \in [Slot -> Pkg \cup {NoPkg}]
  /\ allowState \in [Slot -> AllowState]
  /\ newItem \in Slot
  /\ pxIterator \in Node
  /\ idtemp \in Pkg \cup {NoPkg}
  /\ state \in AllowCmd
  /\ itemvalue \in Nat
  /\ results \in Seq(Pkg \cup {NoPkg})
  /\ live \in SUBSET Slot
  /\ snapshot \in SUBSET Slot
  /\ visited \in SUBSET Slot

OnList == live \cup {EndValue}

(* m is what follows n on the sorted ring of the live items: the least     *)
(* value above n, the least of all when n is the end marker.               *)
Follows(n, m) ==
  /\ m \in OnList
  /\ n # EndValue => m > n
  /\ \A x \in OnList : (n = EndValue \/ x > n) => m <= x

(* The pointers of list.c are exactly the ascending doubly linked ring of  *)
(* the live items: nothing missing, nothing twice, no stale item reachable *)
(* (vListInsert and uxListRemove, also after vListInitialise).             *)
ListIsSortedRing ==
  \A n \in OnList :
    /\ Follows(n, pxNext[n])
    /\ pxPrevious[pxNext[n]] = n
    /\ pxPrevious[n] \in OnList
    /\ pxNext[pxPrevious[n]] = n

(* data_addto_pkg_list hands vListInsert the lowest item that is not       *)
(* linked, and the insertion point it is looking for lies ahead.           *)
InsertsFreeItem ==
  pc = "insert" =>
    /\ newItem \notin contained
    /\ \A j \in Slot : j < newItem => j \in contained
    /\ pkgId[newItem] \in Pkg /\ allowState[newItem] = "allow"
    /\ pxIterator \in OnList
    /\ pxIterator # EndValue => pxIterator < newItem

(* Every linked item is marked as such, so no slot is handed out twice.    *)
LiveIsContained == live \subseteq contained

(* The cursor of a walk never stands on an item that is off the list.      *)
CursorOnList == pc \in {"trans", "state"} => pxIndex \in OnList

(* logic_pkg_trans_process visits every package that was in transport when *)
(* the pass began, once each, although the body removes the visited item:  *)
(* the one it is about to visit is new to this pass, and when it reaches   *)
(* the end marker none is left out.                                        *)
PassVisitsAllOnce ==
  pc = "trans" =>
    /\ pxIndex # EndValue => pxIndex \in snapshot \ visited
    /\ pxIndex = EndValue => visited = snapshot

(* What makes it inductive: the packages still to come are the live ones   *)
(* from the cursor on.                                                     *)
PassRemainder ==
  pc = "trans" =>
    /\ live \subseteq snapshot
    /\ visited \subseteq snapshot
    /\ snapshot \ visited = {s \in live : pxIndex # EndValue /\ s >= pxIndex}

(* An insertion and a transport pass come to their end, whatever the       *)
(* sequence of commands was: the ring has no cycle without the end marker. *)
LoopsEnd ==
  /\ (pc = "insert") ~> (pc = "main")
  /\ (pc = "trans") ~> (pc = "main")

(* "Reply to received commands" (fun.h:24), of which fun.h:30 is the one   *)
(* to the allow/forbid command 0x1007: recv_msg_process sends it once      *)
(* funrecv_pkg_state_cmd returns, so with a package in transport it must   *)
(* return.  (With none every iteration is a stutter, which would refute    *)
(* the formula as well but shows less.)                                    *)
StateCommandAnswered == (pc = "state" /\ live # {}) ~> (pc = "main")

-----------------------------------------------------------------------------
(* The table implements the pool.                                          *)
Pool == INSTANCE PkgPool WITH
          Slot      <- Slot,
          Pkg       <- Pkg,
          Allow     <- AllowCmd,
          ResultCap <- QueueLen - 1,
          carried   <- [s \in live |-> pkgId[s]],
          allowed   <- [s \in live |-> allowState[s]],
          lost      <- contained \ live,
          results   <- results

(* Each command, pass and upload of the firmware is a step of the pool, or *)
(* no step of it at all: no package is duplicated, delivered twice or      *)
(* dropped except by a new zone configuration or a full result queue.      *)
ImplementsPool == Pool!Spec
=============================================================================
