--------------------------- MODULE PkgListProofs ---------------------------
(***************************************************************************)
(* For every number of slots, every set of packages and every queue        *)
(* length: the pointers of the package list form the sorted ring of the    *)
(* live items, a transport pass visits each package exactly once, and the  *)
(* table implements the pool of PkgPool.tla.                               *)
(***************************************************************************)
EXTENDS PkgList, TLAPS

(* The inductive invariant: the ring alone is not inductive, because an    *)
(* insertion relies on where its iterator has got to and on the new item   *)
(* being off the list, and a removal on the cursor being on it.            *)
IInv ==
  /\ TypeOK
  /\ LiveIsContained
  /\ ListIsSortedRing
  /\ InsertsFreeItem
  /\ CursorOnList
  /\ PassRemainder

(* The end marker is no slot, and lies above all of them.                  *)
LEMMA NodeFacts ==
  /\ Slot \subseteq Nat
  /\ EndValue \in Nat
  /\ EndValue \notin Slot
  /\ \A s \in Slot : s < EndValue
  /\ Null \notin Node
  /\ 0 \in Slot
  BY ListAssumption DEF Slot, Node, Null

(* Init establishes the invariant.                                         *)
LEMMA InitInv == Init => IInv
<1> SUFFICES ASSUME Init PROVE IInv
  OBVIOUS
<1> USE NodeFacts
<1>1. TypeOK
  BY DEF Init, TypeOK, Node, AllowState, AllowCmd
<1>2. ListIsSortedRing
  BY DEF Init, ListIsSortedRing, OnList, Follows, Node
<1>3. QED
  BY <1>1, <1>2 DEF Init, IInv, LiveIsContained, InsertsFreeItem,
                     CursorOnList, PassRemainder

(* Type correctness is preserved by every step.                            *)
LEMMA NextType == IInv /\ [Next]_vars => TypeOK'
<1> SUFFICES ASSUME IInv, [Next]_vars PROVE TypeOK'
  OBVIOUS
<1> USE NodeFacts DEF IInv, TypeOK, listVars, insVars, cmdVars, walkVars
<1>1. ASSUME NEW p \in Pkg, RecvPkgTrans(p) PROVE TypeOK'
  BY <1>1 DEF RecvPkgTrans, AllowState, AllowCmd, Node
<1>2. ASSUME NEW p \in Pkg, RecvPkgTransFull(p) PROVE TypeOK'
  BY <1>2 DEF RecvPkgTransFull, vars
<1>3. CASE InsertStep
  BY <1>3 DEF InsertStep, InsertsFreeItem, ListIsSortedRing, OnList, Follows,
              Node
<1>4. CASE InsertLink
  <2>1. pxIterator \in OnList /\ pxNext[pxIterator] \in OnList
    BY <1>4 DEF InsertLink, InsertsFreeItem, ListIsSortedRing, Follows
  <2>2. OnList \subseteq Node
    BY DEF OnList, Node
  <2>3. newItem \in Node
    BY DEF Node
  <2>4. pxNext' \in [Node -> Node \cup {Null}]
    BY <1>4, <2>1, <2>2, <2>3 DEF InsertLink, LinkNext
  <2>5. pxPrevious' \in [Node -> Node \cup {Null}]
    BY <1>4, <2>1, <2>2, <2>3 DEF InsertLink, LinkPrevious
  <2>6. QED
    BY <1>4, <2>4, <2>5 DEF InsertLink, LeaveInsert, Node
<1>5. CASE Reinitialise
  BY <1>5 DEF Reinitialise, Node
<1>6. CASE TransStart
  BY <1>6 DEF TransStart, ListIsSortedRing, OnList, Follows, Node
<1>7. CASE TransKeep
  BY <1>7 DEF TransKeep, CursorOnList, ListIsSortedRing, OnList, Follows, Node
<1>8. CASE TransArrive
  <2>1. pxIndex \in live /\ pxIndex \in OnList
    BY <1>8 DEF TransArrive, CursorOnList, OnList
  <2>2. pxNext[pxIndex] \in OnList /\ pxPrevious[pxIndex] \in OnList
    BY <2>1 DEF ListIsSortedRing, Follows
  <2>3. OnList \subseteq Node
    BY DEF OnList, Node
  <2>4. pxNext' \in [Node -> Node \cup {Null}]
    BY <1>8, <2>2, <2>3 DEF TransArrive, Unlinked
  <2>5. pxPrevious' \in [Node -> Node \cup {Null}]
    BY <1>8, <2>2, <2>3 DEF TransArrive, Unlinked
  <2>6. pxIndex' = pxNext[pxIndex]
    BY <1>8, <2>2, <2>3 DEF TransArrive, Unlinked
  <2>7. pxIndex' \in Node
    BY <2>2, <2>3, <2>6
  <2>8. results' \in Seq(Pkg \cup {NoPkg})
    BY <1>8, <2>1 DEF TransArrive, DataaddPkgQueue
  <2>9. allowState' \in [Slot -> AllowState]
    BY <1>8 DEF TransArrive, AllowState
  <2>10. QED
    <3>1. /\ live' = live \ {pxIndex} /\ contained' = contained \ {pxIndex}
          /\ visited' = visited \cup {pxIndex}
          /\ UNCHANGED <<pc, uxNumberOfItems, pkgId, insVars, cmdVars,
                        snapshot>>
      BY <1>8 DEF TransArrive
    <3> QED
      BY <2>1, <2>4, <2>5, <2>7, <2>8, <2>9, <3>1
<1>9. CASE TransEnd
  BY <1>9 DEF TransEnd, LeaveTrans
<1>10. ASSUME NEW p \in Pkg, NEW a \in AllowCmd, RecvPkgState(p, a)
       PROVE  TypeOK'
  BY <1>10 DEF RecvPkgState, ListIsSortedRing, OnList, Follows, Node
<1>11. CASE StateStep
  BY <1>11 DEF StateStep, CursorOnList, ListIsSortedRing, OnList, Follows,
               Node, AllowState
<1>12. CASE StateDone
  BY <1>12 DEF StateDone, LeaveState, AllowCmd
<1>13. CASE TakeResult
  BY <1>13 DEF TakeResult
<1>14. CASE UNCHANGED vars
  BY <1>14 DEF vars
<1>15. QED
  BY <1>1, <1>2, <1>3, <1>4, <1>5, <1>6, <1>7, <1>8, <1>9, <1>10, <1>11,
     <1>12, <1>13, <1>14 DEF Next

-----------------------------------------------------------------------------
(* What the ring gives: the pointers of a listed node are listed nodes,    *)
(* and the cursor of a walk that is not at its end is on a live slot.      *)
LEMMA RingFacts ==
  ASSUME IInv
  PROVE  /\ OnList \subseteq Node
         /\ \A n \in OnList : /\ pxNext[n] \in OnList
                              /\ pxPrevious[n] \in OnList
                              /\ pxNext[pxPrevious[n]] = n
                              /\ pxPrevious[pxNext[n]] = n
         /\ live \subseteq Nat /\ OnList \subseteq Nat
         /\ EndValue \notin live
         /\ pc = "insert" => newItem \notin live
<1> USE NodeFacts DEF IInv
<1>1. live \subseteq Slot
  BY DEF TypeOK
<1>2. OnList \subseteq Node /\ OnList \subseteq Nat
  BY <1>1 DEF OnList, Node
<1>3. QED
  BY <1>1, <1>2 DEF ListIsSortedRing, Follows, LiveIsContained,
                    InsertsFreeItem

(* vListInsert's assignments keep the ring sorted: the new item lies       *)
(* between the iterator and what follows it.                               *)
LEMMA InsertKeepsRing == IInv /\ InsertLink => ListIsSortedRing'
<1> SUFFICES ASSUME IInv, InsertLink PROVE ListIsSortedRing'
  OBVIOUS
<1> DEFINE new == newItem
           it  == pxIterator
           nx  == pxNext[pxIterator]
<1> USE NodeFacts
<1>1. /\ it \in OnList /\ new \in Slot /\ new \notin OnList
      /\ it # EndValue => it < new
      /\ nx \in OnList /\ nx > new
      /\ it \in Nat /\ new \in Nat /\ nx \in Nat
  BY RingFacts DEF IInv, TypeOK, InsertLink, InsertsFreeItem, OnList
<1>2. OnList' = OnList \cup {new}
  BY DEF InsertLink, OnList
<1>3. \A n \in Node : pxNext'[n] = IF n = it THEN new
                                   ELSE IF n = new THEN nx ELSE pxNext[n]
  BY <1>1, RingFacts DEF InsertLink, LinkNext, IInv, TypeOK
<1>4. \A n \in Node : pxPrevious'[n] = IF n = new THEN it
                                       ELSE IF n = nx THEN new
                                       ELSE pxPrevious[n]
  BY <1>1, RingFacts DEF InsertLink, LinkPrevious, IInv, TypeOK
<1>5. \A n \in OnList : Follows(n, pxNext[n]) /\ n \in Nat /\ n \in Node
  BY RingFacts DEF IInv, ListIsSortedRing
<1>6. /\ \A x \in OnList : x \in Nat
      /\ \A x \in OnList' : x \in Nat
  BY <1>1, <1>2, <1>5
<1> SUFFICES ASSUME NEW n \in OnList'
               PROVE  /\ Follows(n, pxNext[n])'
                      /\ (pxPrevious[pxNext[n]])' = n
                      /\ pxPrevious'[n] \in OnList'
                      /\ (pxNext[pxPrevious[n]])' = n
  BY DEF ListIsSortedRing
<1>7. Follows(n, pxNext[n])'
  <2> SUFFICES /\ pxNext'[n] \in OnList'
               /\ n # EndValue => pxNext'[n] > n
               /\ \A x \in OnList' : (n = EndValue \/ x > n)
                                      => pxNext'[n] <= x
    BY DEF Follows
  <2>1. CASE n = it
    <3>1. pxNext'[n] = new
      BY <2>1, <1>1, <1>3, <1>5
    <3>2. \A x \in OnList : (it = EndValue \/ x > it) => new <= x
      BY <1>1, <1>5 DEF Follows
    <3>3. QED
      BY <2>1, <3>1, <3>2, <1>1, <1>2, <1>6
  <2>2. CASE n = new
    <3>1. pxNext'[n] = nx
      BY <2>2, <1>1, <1>3 DEF Node
    <3>2. \A x \in OnList : x > new => nx <= x
      BY <1>1, <1>5 DEF Follows
    <3>3. QED
      BY <2>2, <3>1, <3>2, <1>1, <1>2, <1>6
  <2>3. CASE n # it /\ n # new
    <3>1. n \in OnList /\ pxNext'[n] = pxNext[n] /\ pxNext[n] \in OnList
      BY <2>3, <1>2, <1>3, <1>5, RingFacts
    <3>2. \A x \in OnList : (n = EndValue \/ x > n) => pxNext[n] <= x
      BY <3>1, <1>5 DEF Follows
    <3>3. \A x \in OnList : (it = EndValue \/ x > it) => nx <= x
      BY <1>1, <1>5 DEF Follows
    <3>4. n = EndValue => pxNext[n] <= it
      BY <2>3, <3>1, <3>2, <1>1, <1>2, <1>6
    <3>5. n # EndValue /\ n < new => it # EndValue /\ n < it
      BY <2>3, <3>1, <3>3, <1>1, <1>2, <1>6
    <3>6. n # EndValue /\ n < it => pxNext[n] <= it
      BY <3>2, <1>1, <1>2, <1>6
    <3>7. n = EndValue \/ new > n => it # EndValue /\ pxNext[n] <= it
      BY <2>3, <3>1, <3>4, <3>5, <3>6, <1>1, <1>2, <1>6
    <3>8. ASSUME n = EndValue \/ new > n PROVE pxNext[n] <= new
      <4>1. pxNext[n] <= it /\ it < new
        BY <3>7, <3>8, <1>1
      <4>2. pxNext[n] \in Nat /\ it \in Nat /\ new \in Nat
        BY <3>1, <1>1, <1>6
      <4>3. QED
        BY <4>1, <4>2
    <3>9. n # EndValue => pxNext[n] > n
      BY <3>1, <1>5 DEF Follows
    <3>10. QED
      BY <3>1, <3>2, <3>8, <3>9, <1>1, <1>2, <1>6
  <2>4. QED
    BY <2>1, <2>2, <2>3
<1>8. (pxPrevious[pxNext[n]])' = n
  <2>1. CASE n = it \/ n = new
    BY <2>1, <1>1, <1>3, <1>4, <1>5 DEF Node
  <2>2. CASE n # it /\ n # new
    <3>1. n \in OnList /\ pxNext'[n] = pxNext[n] /\ pxNext[n] \in OnList
      BY <2>2, <1>2, <1>3, <1>5, RingFacts
    <3>2. pxNext[n] # new /\ pxNext[n] # nx
      BY <2>2, <3>1, <1>1, RingFacts
    <3>3. QED
      BY <3>1, <3>2, <1>4, RingFacts
  <2>3. QED
    BY <2>1, <2>2
<1>9. pxPrevious'[n] \in OnList' /\ (pxNext[pxPrevious[n]])' = n
  <2>1. CASE n = new
    BY <2>1, <1>1, <1>2, <1>3, <1>4, <1>5 DEF Node
  <2>2. CASE n = nx
    BY <2>2, <1>1, <1>2, <1>3, <1>4, <1>5 DEF Node
  <2>3. CASE n # nx /\ n # new
    <3>1. n \in OnList /\ pxPrevious'[n] = pxPrevious[n]
      BY <2>3, <1>2, <1>4, <1>5
    <3>2. pxPrevious[n] \in OnList /\ pxNext[pxPrevious[n]] = n
      BY <3>1, RingFacts
    <3>3. pxPrevious[n] # it /\ pxPrevious[n] # new
      BY <2>3, <3>1, <3>2, <1>1, <1>2, <1>6
    <3>4. QED
      BY <3>1, <3>2, <3>3, <1>2, <1>3, <1>5
  <2>4. QED
    BY <2>1, <2>2, <2>3
<1>10. QED
  BY <1>7, <1>8, <1>9

(* What uxListRemove does to the pointers when the cursor stands on the    *)
(* removed item, and where the loop of the transport pass goes on.         *)
LEMMA ArriveFacts ==
  ASSUME IInv, TransArrive
  PROVE  /\ pxIndex \in live /\ pxIndex \in OnList
         /\ OnList' = OnList \ {pxIndex}
         /\ \A n \in Node : pxNext'[n] = IF n = pxPrevious[pxIndex]
                                         THEN pxNext[pxIndex] ELSE pxNext[n]
         /\ \A n \in Node : pxPrevious'[n] = IF n = pxNext[pxIndex]
                                             THEN pxPrevious[pxIndex]
                                             ELSE pxPrevious[n]
         /\ pxIndex' = pxNext[pxIndex]
         /\ pxPrevious[pxIndex] # pxIndex /\ pxNext[pxIndex] # pxIndex
<1> USE NodeFacts
<1>1. pxIndex \in live /\ pxIndex \in OnList
  BY DEF TransArrive, IInv, CursorOnList, OnList
<1>2. OnList' = OnList \ {pxIndex}
  BY <1>1 DEF TransArrive, OnList
<1>3. /\ pxNext[pxIndex] \in Node /\ pxPrevious[pxIndex] \in Node
      /\ pxNext \in [Node -> Node \cup {Null}]
      /\ pxPrevious \in [Node -> Node \cup {Null}]
  BY <1>1, RingFacts DEF IInv, TypeOK
<1>4. pxNext[pxIndex] # pxIndex
  BY <1>1, RingFacts DEF IInv, ListIsSortedRing, Follows
<1>5. pxPrevious[pxIndex] # pxIndex
  BY <1>1, <1>4, RingFacts
<1>6. QED
  BY <1>1, <1>2, <1>3, <1>4, <1>5 DEF TransArrive, Unlinked

(* uxListRemove keeps the ring sorted.                                     *)
LEMMA RemoveKeepsRing == IInv /\ TransArrive => ListIsSortedRing'
<1> SUFFICES ASSUME IInv, TransArrive PROVE ListIsSortedRing'
  OBVIOUS
<1> DEFINE i  == pxIndex
           pr == pxPrevious[pxIndex]
           nx == pxNext[pxIndex]
<1> USE NodeFacts, ArriveFacts, RingFacts
<1>1. \A n \in OnList : Follows(n, pxNext[n]) /\ n \in Nat /\ n \in Node
  BY DEF IInv, ListIsSortedRing
<1>2. pr \in OnList' /\ nx \in OnList' /\ pxNext[pr] = i /\ pxPrevious[nx] = i
  OBVIOUS
<1> SUFFICES ASSUME NEW n \in OnList'
               PROVE  /\ Follows(n, pxNext[n])'
                      /\ (pxPrevious[pxNext[n]])' = n
                      /\ pxPrevious'[n] \in OnList'
                      /\ (pxNext[pxPrevious[n]])' = n
  BY DEF ListIsSortedRing
<1>4. n \in OnList /\ n # i /\ n \in Node
  BY <1>1
<1>5. CASE n = pr
  <2>1. pxNext'[n] = nx
    BY <1>4, <1>5
  <2>2. pr # EndValue => nx > pr
    BY <1>1, <1>2 DEF Follows
  <2>3. ASSUME NEW x \in OnList', pr = EndValue \/ x > pr
        PROVE  nx <= x
    <3>1. x \in OnList /\ x # i /\ x \in Nat /\ i \in Nat
      BY <1>1
    <3>2. Follows(pr, i) /\ Follows(i, nx)
      BY <1>1, <1>2
    <3>3. i <= x
      BY <2>3, <3>1, <3>2 DEF Follows
    <3>4. x > i
      BY <3>1, <3>3
    <3>5. QED
      BY <3>1, <3>2, <3>4 DEF Follows
  <2>4. Follows(n, pxNext[n])'
    BY <1>5, <1>2, <2>1, <2>2, <2>3 DEF Follows
  <2>5. (pxPrevious[pxNext[n]])' = n
    BY <1>5, <1>1, <1>2, <2>1
  <2>6. QED
    BY <1>1, <1>2, <1>4, <2>4, <2>5
<1>6. CASE n # pr
  <2>1. pxNext'[n] = pxNext[n] /\ pxNext[n] \in OnList' /\ pxNext[n] # nx
    BY <1>2, <1>4, <1>6
  <2>2. Follows(n, pxNext[n])'
    BY <1>1, <1>4, <2>1 DEF Follows
  <2>3. (pxPrevious[pxNext[n]])' = n
    BY <1>1, <1>4, <2>1
  <2>4. QED
    BY <1>1, <1>2, <1>4, <2>2, <2>3
<1>7. QED
  BY <1>5, <1>6

(* The ring is preserved by every step.                                    *)
LEMMA NextRing == IInv /\ [Next]_vars => ListIsSortedRing'
<1> SUFFICES ASSUME IInv, [Next]_vars PROVE ListIsSortedRing'
  OBVIOUS
<1>1. CASE UNCHANGED <<pxNext, pxPrevious, live>>
  BY <1>1 DEF IInv, ListIsSortedRing, OnList, Follows
<1>2. CASE Reinitialise
  BY <1>2, NodeFacts DEF Reinitialise, IInv, TypeOK, ListIsSortedRing,
                         OnList, Follows, Node
<1>3. QED
  BY <1>1, <1>2, InsertKeepsRing, RemoveKeepsRing
     DEF Next, vars, listVars, RecvPkgTrans, RecvPkgTransFull, InsertStep,
         TransStart, TransKeep, TransEnd, RecvPkgState, StateStep, StateDone,
         TakeResult

-----------------------------------------------------------------------------
(* The walks: where the cursor and the insertion point may stand.          *)

(* A linked item is marked as contained.                                   *)
LEMMA NextContained == IInv /\ [Next]_vars => LiveIsContained'
BY DEF IInv, LiveIsContained, Next, vars, listVars, RecvPkgTrans,
       RecvPkgTransFull, InsertStep, InsertLink, Reinitialise, TransStart,
       TransKeep, TransArrive, TransEnd, RecvPkgState, StateStep, StateDone,
       TakeResult

(* Only a free item is inserted, and the search has not passed its place.  *)
LEMMA NextInserts == IInv /\ [Next]_vars => InsertsFreeItem'
<1> SUFFICES ASSUME IInv, [Next]_vars PROVE InsertsFreeItem'
  OBVIOUS
<1> USE NodeFacts DEF listVars, insVars, cmdVars, walkVars
<1>1. ASSUME NEW p \in Pkg, RecvPkgTrans(p) PROVE InsertsFreeItem'
  BY <1>1 DEF RecvPkgTrans, InsertsFreeItem, IInv, TypeOK, OnList
<1>2. CASE InsertStep
  <2>0. pxIterator \in OnList /\ newItem \notin OnList
    BY <1>2, RingFacts DEF InsertStep, IInv, InsertsFreeItem, TypeOK, OnList
  <2>1. pxNext[pxIterator] \in OnList /\ pxNext[pxIterator] # newItem
    BY <2>0, RingFacts
  <2>2. pxNext[pxIterator] \in Nat /\ newItem \in Nat
    BY <2>1, RingFacts DEF IInv, TypeOK
  <2>3. pxNext[pxIterator] < newItem
    BY <1>2, <2>1, <2>2 DEF InsertStep
  <2>4. QED
    BY <1>2, <2>1, <2>3 DEF InsertStep, IInv, InsertsFreeItem, OnList
<1>3. CASE UNCHANGED vars
  BY <1>3 DEF vars, IInv, InsertsFreeItem, OnList
<1>4. ASSUME pc' # "insert" PROVE InsertsFreeItem'
  BY <1>4 DEF InsertsFreeItem
<1>5. QED
  BY <1>1, <1>2, <1>3, <1>4
     DEF Next, RecvPkgTransFull, InsertLink, Reinitialise, TransStart,
         TransKeep, TransArrive, TransEnd, RecvPkgState, StateStep,
         StateDone, TakeResult

(* A walk's cursor stays on the list.                                      *)
LEMMA NextCursor == IInv /\ [Next]_vars => CursorOnList'
<1> SUFFICES ASSUME IInv, [Next]_vars PROVE CursorOnList'
  OBVIOUS
<1> USE NodeFacts DEF listVars, insVars, cmdVars, walkVars
<1>1. EndValue \in OnList
  BY DEF OnList
<1>2. CASE TransStart
  BY <1>1, <1>2, RingFacts DEF TransStart, CursorOnList, OnList
<1>3. CASE TransKeep
  BY <1>3, RingFacts DEF TransKeep, CursorOnList, OnList, IInv
<1>4. CASE TransArrive
  <2>1. pxNext[pxIndex] \in OnList /\ pxNext[pxIndex] # pxIndex
    BY <1>4, ArriveFacts, RingFacts
  <2>2. QED
    BY <1>4, <2>1, ArriveFacts DEF CursorOnList
<1>5. ASSUME NEW p \in Pkg, NEW a \in AllowCmd, RecvPkgState(p, a)
      PROVE  CursorOnList'
  BY <1>1, <1>5, RingFacts DEF RecvPkgState, CursorOnList, OnList
<1>6. CASE StateStep
  BY <1>6, RingFacts DEF StateStep, CursorOnList, OnList, IInv
<1>7. CASE UNCHANGED vars
  BY <1>7 DEF vars, IInv, CursorOnList, OnList
<1>8. ASSUME pc' \notin {"trans", "state"} PROVE CursorOnList'
  BY <1>8 DEF CursorOnList
<1>9. QED
  BY <1>2, <1>3, <1>4, <1>5, <1>6, <1>7, <1>8
     DEF Next, RecvPkgTrans, RecvPkgTransFull, InsertStep, InsertLink,
         Reinitialise, TransEnd, StateDone, TakeResult

(* Stepping from a live slot to what follows it leaves out that slot only. *)
LEMMA StepRemainder ==
  ASSUME IInv, pxIndex \in live
  PROVE  {s \in live : s >= pxIndex} \ {pxIndex}
           = {s \in live : pxNext[pxIndex] # EndValue /\ s >= pxNext[pxIndex]}
<1> DEFINE i  == pxIndex
           nx == pxNext[pxIndex]
<1> USE NodeFacts
<1>1. /\ i \in Nat /\ i < EndValue /\ i \in OnList
      /\ \A s \in live : s \in Nat /\ s < EndValue /\ s \in OnList
  BY RingFacts DEF IInv, TypeOK, OnList
<1>2. nx \in OnList /\ nx > i /\ nx \in Nat
  BY <1>1, RingFacts DEF IInv, ListIsSortedRing, Follows
<1>3. \A x \in OnList : x > i => nx <= x
  BY <1>1 DEF IInv, ListIsSortedRing, Follows
<1>4. ASSUME NEW s \in live
      PROVE  (s >= i /\ s # i) <=> (nx # EndValue /\ s >= nx)
  BY <1>1, <1>2, <1>3, <1>4
<1>5. QED
  BY <1>4

(* What is left of a pass is the live slots from the cursor on.            *)
LEMMA NextRemainder == IInv /\ [Next]_vars => PassRemainder'
<1> SUFFICES ASSUME IInv, [Next]_vars PROVE PassRemainder'
  OBVIOUS
<1> USE NodeFacts DEF listVars, insVars, cmdVars, walkVars
<1>1. CASE TransStart
  <2>1. \A s \in live : s \in OnList /\ s \in Nat /\ s < EndValue
    BY RingFacts DEF IInv, TypeOK, OnList
  <2>2. \A s \in live : pxNext[EndValue] <= s
    BY <2>1 DEF IInv, ListIsSortedRing, Follows, OnList
  <2>3. pxNext[EndValue] \in Nat
    BY RingFacts DEF OnList
  <2>4. live = {s \in live : pxNext[EndValue] # EndValue
                               /\ s >= pxNext[EndValue]}
    BY <2>1, <2>2, <2>3
  <2>5. QED
    BY <1>1, <2>4 DEF TransStart, PassRemainder
<1>2. CASE TransKeep
  <2>1. pxIndex \in live
    BY <1>2 DEF TransKeep, IInv, CursorOnList, OnList
  <2>2. snapshot \ visited = {s \in live : s >= pxIndex}
    BY <1>2 DEF TransKeep, IInv, PassRemainder
  <2>3. QED
    BY <1>2, <2>1, <2>2, StepRemainder DEF TransKeep, IInv, PassRemainder
<1>3. CASE TransArrive
  <2>1. pxIndex \in live /\ pxIndex' = pxNext[pxIndex]
    BY <1>3, ArriveFacts
  <2>2. snapshot \ visited = {s \in live : s >= pxIndex}
    BY <1>3 DEF TransArrive, IInv, PassRemainder
  <2>3. (snapshot \ visited)'
          = {s \in live : pxNext[pxIndex] # EndValue /\ s >= pxNext[pxIndex]}
    BY <1>3, <2>1, <2>2, StepRemainder DEF TransArrive
  <2>4. ~(pxNext[pxIndex] # EndValue /\ pxIndex >= pxNext[pxIndex])
    BY <2>1, StepRemainder
  <2>5. (snapshot \ visited)'
          = {s \in live' : pxNext[pxIndex] # EndValue /\ s >= pxNext[pxIndex]}
    BY <1>3, <2>3, <2>4 DEF TransArrive
  <2>6. live' \subseteq snapshot' /\ visited' \subseteq snapshot'
    BY <1>3, <2>1 DEF TransArrive, IInv, PassRemainder
  <2>7. QED
    BY <2>1, <2>5, <2>6 DEF PassRemainder
<1>4. CASE UNCHANGED <<pc, pxIndex, live, snapshot, visited>>
  BY <1>4 DEF IInv, PassRemainder
<1>5. ASSUME pc' # "trans" PROVE PassRemainder'
  BY <1>5 DEF PassRemainder
<1>6. QED
  BY <1>1, <1>2, <1>3, <1>4, <1>5
     DEF Next, vars, RecvPkgTrans, RecvPkgTransFull, InsertStep, InsertLink,
         Reinitialise, TransEnd, RecvPkgState, StateStep, StateDone,
         TakeResult

(* At the cursor, what is left is in particular the slot under it.         *)
LEMMA RemainderVisits == IInv => PassVisitsAllOnce
<1> SUFFICES ASSUME IInv, pc = "trans" PROVE PassVisitsAllOnce
  BY DEF PassVisitsAllOnce
<1>1. CASE pxIndex = EndValue
  BY <1>1 DEF IInv, PassRemainder, PassVisitsAllOnce
<1>2. CASE pxIndex # EndValue
  <2>1. pxIndex \in live /\ pxIndex \in Nat
    BY <1>2, NodeFacts DEF IInv, CursorOnList, OnList, TypeOK
  <2>2. pxIndex \in {s \in live : pxIndex # EndValue /\ s >= pxIndex}
    BY <1>2, <2>1
  <2>3. QED
    BY <1>2, <2>2 DEF IInv, PassRemainder, PassVisitsAllOnce
<1>3. QED
  BY <1>1, <1>2

-----------------------------------------------------------------------------
(* The conjunction of the six is invariant.                                *)
THEOREM Invariance == Spec => []IInv
<1>1. IInv /\ [Next]_vars => IInv'
  BY NextType, NextRing, NextContained, NextInserts, NextCursor,
     NextRemainder DEF IInv
<1>2. QED
  BY InitInv, <1>1, PTL DEF Spec

(* Every variable keeps its type; in particular no walk of list.c ever     *)
(* follows a pointer that was never set.                                   *)
THEOREM TypeCorrect == Spec => []TypeOK
<1>1. IInv => TypeOK
  BY DEF IInv
<1>2. QED
  BY <1>1, Invariance, PTL

(* The pointers of list.c are always the sorted ring of the live items.    *)
THEOREM ListSorted == Spec => []ListIsSortedRing
<1>1. IInv => ListIsSortedRing
  BY DEF IInv
<1>2. QED
  BY <1>1, Invariance, PTL

(* A pass of logic_pkg_trans_process visits every package exactly once,    *)
(* although its body removes the package it visits.                        *)
THEOREM PassVisits == Spec => []PassVisitsAllOnce
  BY RemainderVisits, Invariance, PTL

-----------------------------------------------------------------------------
(* The refinement.  A package is accepted by the pool when it is linked,   *)
(* and allowed or forbidden when the cursor meets it; the other iterations *)
(* of the loops are steps of the detail alone.                             *)

LEMMA InitRefines == Init => Pool!Init
<1> SUFFICES ASSUME Init PROVE Pool!Init
  OBVIOUS
<1>1. [s \in live |-> pkgId[s]] = [s \in {} |-> s]
  BY DEF Init
<1>2. [s \in live |-> allowState[s]] = [s \in {} |-> s]
  BY DEF Init
<1>3. QED
  BY <1>1, <1>2 DEF Init, Pool!Init

(* vListInsert's last assignment is the pool's Accept.                     *)
LEMMA LinkRefines ==
  ASSUME IInv, InsertLink, NEW p, p = pkgId[newItem]
  PROVE  Pool!Accept(p)
<1> DEFINE c == [s \in live |-> pkgId[s]]
           a == [s \in live |-> allowState[s]]
<1>1. /\ newItem \in Slot /\ newItem \notin contained
      /\ live \subseteq contained /\ contained \subseteq Slot
      /\ allowState[newItem] = "allow"
      /\ \A j \in Slot : j < newItem => j \in contained
  BY DEF IInv, InsertLink, InsertsFreeItem, LiveIsContained, TypeOK
<1>2. live' = live \cup {newItem} /\ contained' = contained \cup {newItem}
  BY DEF InsertLink
<1>3. /\ pkgId' = pkgId /\ allowState' = allowState /\ results' = results
  BY DEF InsertLink
<1>4. c' = [t \in live \cup {newItem} |-> IF t = newItem THEN p ELSE c[t]]
  BY <1>2, <1>3
<1>5. a' = [t \in live \cup {newItem} |-> IF t = newItem THEN "allow"
                                          ELSE a[t]]
  BY <1>1, <1>2, <1>3
<1>6. (contained \ live)' = contained \ live
  BY <1>1, <1>2
<1>7. DOMAIN c = live
  OBVIOUS
<1>8. newItem \in Slot \ (DOMAIN c \cup (contained \ live))
  BY <1>1, <1>7
<1>9. \A t \in Slot : t < newItem => t \in DOMAIN c \cup (contained \ live)
  BY <1>1, <1>7
<1>10. QED
  BY <1>3, <1>4, <1>5, <1>6, <1>7, <1>8, <1>9 DEF Pool!Accept, Pool!InUse

(* The arrival of a package is the pool's Deliver.                         *)
LEMMA ArriveRefines ==
  ASSUME IInv, TransArrive, NEW i, i = pxIndex
  PROVE  Pool!Deliver(i)
<1> DEFINE c == [s \in live |-> pkgId[s]]
           a == [s \in live |-> allowState[s]]
<1>1. i \in live
  BY ArriveFacts
<1>2. a[i] = "allow" /\ c[i] = pkgId[i]
  BY <1>1 DEF TransArrive
<1>3. live' = live \ {i} /\ contained' = contained \ {i}
  BY DEF TransArrive
<1>4. c' = [t \in live \ {i} |-> c[t]]
  BY <1>3 DEF TransArrive
<1>5. a' = [t \in live \ {i} |-> a[t]]
  <2>1. \A t \in live \ {i} : allowState'[t] = allowState[t]
    BY DEF TransArrive, IInv, TypeOK
  <2>2. QED
    BY <1>3, <2>1
<1>6. (contained \ live)' = contained \ live
  BY <1>1, <1>3
<1>7. results' = IF Len(results) < QueueLen - 1
                 THEN Append(results, c[i]) ELSE results
  BY <1>2 DEF TransArrive, DataaddPkgQueue
<1>8. DOMAIN c = live
  OBVIOUS
<1>9. QED
  BY <1>1, <1>2, <1>4, <1>5, <1>6, <1>7, <1>8 DEF Pool!Deliver, Pool!InUse

(* One iteration of the allow/forbid walk changes the package under the    *)
(* cursor, or nothing the pool knows of.                                   *)
LEMMA StateRefines ==
  ASSUME IInv, StateStep, NEW i, i = pxIndex, NEW x, x = state
  PROVE  Pool!SetAllowed(i, x) \/ UNCHANGED Pool!pvars
<1> DEFINE c == [s \in live |-> pkgId[s]]
           a == [s \in live |-> allowState[s]]
<1>1. /\ live \subseteq Slot
      /\ UNCHANGED <<live, contained, pkgId, results>>
  BY DEF IInv, TypeOK, StateStep, listVars
<1>2. c' = c /\ (contained \ live)' = contained \ live /\ DOMAIN c = live
  BY <1>1
<1>3. CASE i \in live /\ pkgId[i] = idtemp
  <2>1. \A s \in live : allowState'[s] = IF s = i THEN x ELSE allowState[s]
    BY <1>1, <1>3 DEF StateStep
  <2>2. a' = [a EXCEPT ![i] = x]
    BY <1>1, <1>3, <2>1
  <2>3. QED
    BY <1>1, <1>2, <1>3, <2>2 DEF Pool!SetAllowed, Pool!InUse
<1>4. CASE ~(i \in live /\ pkgId[i] = idtemp)
  <2>1. \A s \in live : allowState'[s] = allowState[s]
    BY <1>1, <1>4 DEF StateStep
  <2>2. a' = a
    BY <1>1, <2>1
  <2>3. QED
    BY <1>1, <1>2, <2>2 DEF Pool!pvars
<1>5. QED
  BY <1>3, <1>4

(* Every step of the table is a step of the pool or leaves it unchanged.   *)
LEMMA StepRefines ==
  IInv /\ [Next]_vars => [Pool!Next]_(Pool!pvars)
<1> SUFFICES ASSUME IInv, [Next]_vars PROVE [Pool!Next]_(Pool!pvars)
  OBVIOUS
<1> DEFINE c == [s \in live |-> pkgId[s]]
           a == [s \in live |-> allowState[s]]
<1>1. ASSUME NEW p \in Pkg, RecvPkgTrans(p) PROVE UNCHANGED Pool!pvars
  <2>1. PICK i \in Slot \ contained :
               /\ pkgId' = [pkgId EXCEPT ![i] = p]
               /\ allowState' = [allowState EXCEPT ![i] = "allow"]
    BY <1>1 DEF RecvPkgTrans
  <2>2. live' = live /\ contained' = contained /\ results' = results
    BY <1>1 DEF RecvPkgTrans, listVars
  <2>3. \A s \in live : pkgId'[s] = pkgId[s] /\ allowState'[s] = allowState[s]
    BY <2>1 DEF IInv, TypeOK, LiveIsContained
  <2>4. c' = c /\ a' = a
    BY <2>2, <2>3
  <2>5. QED
    BY <2>2, <2>4 DEF Pool!pvars
<1>2. CASE InsertLink
  <2>1. PICK p \in Pkg : p = pkgId[newItem]
    BY <1>2 DEF IInv, InsertLink, InsertsFreeItem
  <2>2. Pool!Accept(p)
    BY <1>2, <2>1, LinkRefines
  <2>3. QED
    BY <2>2 DEF Pool!Next
<1>3. CASE Reinitialise
  <2>1. live' = {} /\ contained' = contained /\ results' = results
    BY <1>3 DEF Reinitialise
  <2>2. c' = [s \in {} |-> s] /\ a' = [s \in {} |-> s]
    BY <2>1
  <2>3. (contained \ live)' = (contained \ live) \cup live
    BY <2>1 DEF IInv, LiveIsContained
  <2>4. DOMAIN c = live
    OBVIOUS
  <2>5. QED
    BY <2>1, <2>2, <2>3, <2>4 DEF Pool!Next, Pool!Reconfigure, Pool!InUse
<1>4. CASE TransArrive
  <2>1. PICK i \in Slot : i = pxIndex
    BY <1>4, ArriveFacts DEF IInv, TypeOK
  <2>2. Pool!Deliver(i)
    BY <1>4, <2>1, ArriveRefines
  <2>3. QED
    BY <2>2 DEF Pool!Next
<1>5. CASE StateStep
  <2>1. PICK i, x : i = pxIndex /\ x = state
    OBVIOUS
  <2>2. CASE Pool!SetAllowed(i, x)
    <3>1. i \in Slot /\ x \in AllowCmd
      BY <2>1, <2>2 DEF Pool!SetAllowed, Pool!InUse, IInv, TypeOK
    <3>2. QED
      BY <2>2, <3>1 DEF Pool!Next
  <2>3. QED
    BY <1>5, <2>1, <2>2, StateRefines
<1>6. CASE TakeResult
  <2>1. c' = c /\ a' = a /\ (contained \ live)' = contained \ live
    BY <1>6 DEF TakeResult, listVars
  <2>2. QED
    BY <1>6, <2>1 DEF TakeResult, Pool!Next, Pool!Report
<1>7. CASE UNCHANGED <<live, contained, pkgId, allowState, results>>
  BY <1>7 DEF Pool!pvars
<1>8. QED
  BY <1>1, <1>2, <1>3, <1>4, <1>5, <1>6, <1>7
     DEF Next, vars, listVars, RecvPkgTransFull, InsertStep, TransStart,
         TransKeep, TransEnd, RecvPkgState, StateDone

(* The package table of the firmware implements the pool: whatever the     *)
(* commands and their order, a slot is never given to two packages, every  *)
(* package leaves it by one result or by a new zone configuration, and     *)
(* results leave in the order of the arrivals.                             *)
THEOREM Refinement == Spec => ImplementsPool
<1>1. QED
  BY InitRefines, StepRefines, Invariance, PTL
     DEF Spec, ImplementsPool, Pool!Spec
=============================================================================
