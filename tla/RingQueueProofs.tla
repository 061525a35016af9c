-------------------------- MODULE RingQueueProofs --------------------------
(***************************************************************************)
(* For every size and every set of items: a ring into which only one       *)
(* context puts items implements the bounded queue of Fifo.tla.            *)
(*                                                                         *)
(* The index arithmetic is done once, in Modulus, Distance and Slot; after *)
(* that a step of the ring is compared with a step of the queue place by   *)
(* place.                                                                  *)
(***************************************************************************)
EXTENDS RingQueue, SequenceTheorems, TLAPS

(* No ring of the system has two producing contexts.                       *)
OneProducer == \A c \in Contexts : c # {"main", "isr"}

(* The main loop puts items in only where it is a producer, it has found   *)
(* room, and rear is where it left it; a slot about to be filled is the    *)
(* last one; and the frame sent is the oldest one.                         *)
PutInv ==
  /\ pc \in {"load", "advance", "store"} => "main" \in producers
  /\ pc \in {"load", "advance"} => ~Full
  /\ pc = "advance" => load = rear
  /\ pc = "store" => rear = After(load) /\ ~Empty

SendInv == pc = "sent" => ~Empty /\ frame = queue[After(front)]

IInv == TypeOK /\ producers # {"main", "isr"} /\ PutInv /\ SendInv

-----------------------------------------------------------------------------
(* The remainder of what is less than twice the size.                      *)
LEMMA Modulus ==
  ASSUME NEW k \in 0 .. 2 * Size - 1
  PROVE  k % Size = IF k < Size THEN k ELSE k - Size
<1> Size \in Nat /\ Size > 1
  BY RingAssumption
<1>1. CASE k < Size
  BY <1>1
<1>2. CASE k >= Size
  <2>1. k = 1 * Size + (k - Size) /\ k - Size \in 0 .. Size - 1
    BY <1>2
  <2>2. QED
    BY <1>2, <2>1
<1>3. QED
  BY <1>1, <1>2

(* Two intervals from 1 are equal only if they end alike.                  *)
LEMMA SameInterval ==
  ASSUME NEW m \in Nat, NEW n \in Nat, 1 .. m = 1 .. n
  PROVE  m = n
<1>1. m \in 1 .. n \/ m = 0
  OBVIOUS
<1>2. n \in 1 .. m \/ n = 0
  OBVIOUS
<1>3. QED
  BY <1>1, <1>2

(* The slot after i, in fun.c's (rear + 1) % maxSize.                      *)
LEMMA AfterIs ==
  ASSUME NEW i \in Index
  PROVE  /\ After(i) \in Index
         /\ After(i) = IF i = Size - 1 THEN 0 ELSE i + 1
<1> Size \in Nat /\ Size > 1
  BY RingAssumption
<1>1. PICK n \in 0 .. 2 * Size - 1 : n = i + 1
  BY DEF Index
<1>2. n % Size = IF n < Size THEN n ELSE n - Size
  BY Modulus
<1>3. QED
  BY <1>1, <1>2 DEF After, Index

(* How far it is from slot f to slot r.                                    *)
LEMMA Distance ==
  ASSUME NEW r \in Index, NEW f \in Index
  PROVE  (r - f + Size) % Size = IF r >= f THEN r - f ELSE r - f + Size
<1> Size \in Nat /\ Size > 1
  BY RingAssumption
<1>1. PICK n \in 0 .. 2 * Size - 1 : n = r - f + Size
  BY DEF Index
<1>2. n % Size = IF n < Size THEN n ELSE n - Size
  BY Modulus
<1>3. QED
  BY <1>1, <1>2 DEF Index

(* The k-th slot after f.                                                  *)
LEMMA Slot ==
  ASSUME NEW f \in Index, NEW k \in 1 .. Size
  PROVE  /\ (f + k) % Size \in Index
         /\ (f + k) % Size = IF f + k < Size THEN f + k ELSE f + k - Size
<1> Size \in Nat /\ Size > 1
  BY RingAssumption
<1>1. PICK n \in 0 .. 2 * Size - 1 : n = f + k
  BY DEF Index
<1>2. n % Size = IF n < Size THEN n ELSE n - Size
  BY Modulus
<1>3. QED
  BY <1>1, <1>2 DEF Index

(* The count without the modulus: at most Size - 1 items wait.             *)
LEMMA CountIs ==
  TypeOK => /\ Count = IF rear >= front THEN rear - front
                                        ELSE rear - front + Size
            /\ Count \in 0 .. Size - 1
<1> SUFFICES ASSUME TypeOK
             PROVE  /\ Count = IF rear >= front THEN rear - front
                                                ELSE rear - front + Size
                    /\ Count \in 0 .. Size - 1
  OBVIOUS
<1> Size \in Nat /\ Size > 1 /\ front \in Index /\ rear \in Index
  BY RingAssumption DEF TypeOK
<1>1. Count = IF rear >= front THEN rear - front ELSE rear - front + Size
  BY Distance DEF Count
<1>2. QED
  BY <1>1 DEF Index

(* Waiting is a sequence of Count items.                                   *)
LEMMA WaitingIs ==
  TypeOK => /\ Waiting \in Seq(Item)
            /\ Len(Waiting) = Count
            /\ \A k \in 1 .. Count : Waiting[k] = Nth(k)
<1> SUFFICES ASSUME TypeOK
             PROVE  /\ Waiting \in Seq(Item)
                    /\ Len(Waiting) = Count
                    /\ \A k \in 1 .. Count : Waiting[k] = Nth(k)
  OBVIOUS
<1> Size \in Nat /\ Size > 1
  BY RingAssumption
<1>1. Count \in 0 .. Size - 1 /\ Count \in Nat
  BY CountIs
<1>2. \A k \in 1 .. Count : Nth(k) \in Item
  <2> TAKE k \in 1 .. Count
  <2>1. front \in Index /\ k \in 1 .. Size
    BY <1>1 DEF TypeOK
  <2>2. (front + k) % Size \in Index
    BY <2>1, Slot
  <2>3. QED
    BY <2>2 DEF Nth, TypeOK
<1>3. Waiting \in [1 .. Count -> Item]
  BY <1>2 DEF Waiting
<1>4. Waiting \in Seq(Item)
  BY <1>1, <1>3, SeqDef
<1>5. Len(Waiting) = Count
  <2>1. DOMAIN Waiting = 1 .. Len(Waiting) /\ Len(Waiting) \in Nat
    BY <1>4, LenProperties
  <2>2. DOMAIN Waiting = 1 .. Count
    BY DEF Waiting
  <2>3. QED
    BY <1>1, <2>1, <2>2, SameInterval
<1>6. QED
  BY <1>4, <1>5 DEF Waiting

(* The places of the waiting items, without the modulus.                   *)
LEMMA NthIs ==
  TypeOK => \A k \in 1 .. Count :
              Nth(k) = IF pc = "store" /\ k = Count THEN x
                       ELSE IF front + k < Size THEN queue[front + k]
                       ELSE queue[front + k - Size]
<1> SUFFICES ASSUME TypeOK, NEW k \in 1 .. Count
             PROVE  Nth(k) = IF pc = "store" /\ k = Count THEN x
                             ELSE IF front + k < Size THEN queue[front + k]
                             ELSE queue[front + k - Size]
  OBVIOUS
<1>1. front \in Index /\ k \in 1 .. Size
  BY CountIs, RingAssumption DEF TypeOK
<1>2. (front + k) % Size = IF front + k < Size THEN front + k
                                               ELSE front + k - Size
  BY <1>1, Slot
<1>3. QED
  BY <1>2 DEF Nth

(* What makes a sequence the append of another, place by place ...         *)
LEMMA AppendIs ==
  ASSUME NEW s \in Seq(Item), NEW t \in Seq(Item), NEW i \in Item,
         Len(t) = Len(s) + 1, t[Len(t)] = i,
         \A k \in 1 .. Len(s) : t[k] = s[k]
  PROVE  t = Append(s, i)
<1>1. /\ Append(s, i) \in Seq(Item)
      /\ Len(Append(s, i)) = Len(s) + 1
      /\ Append(s, i)[Len(s) + 1] = i
      /\ \A k \in 1 .. Len(s) : Append(s, i)[k] = s[k]
  BY AppendProperties
<1>2. Len(s) \in Nat
  BY LenProperties
<1>3. \A k \in 1 .. Len(t) : t[k] = Append(s, i)[k]
  BY <1>1, <1>2
<1>4. QED
  BY <1>1, <1>3, SeqEqual

(* ... or its tail.                                                        *)
LEMMA TailIs ==
  ASSUME NEW s \in Seq(Item), NEW t \in Seq(Item),
         Len(s) = Len(t) + 1, \A k \in 1 .. Len(t) : t[k] = s[k + 1]
  PROVE  s # <<>> /\ t = Tail(s)
<1>1. Len(s) \in Nat /\ Len(t) \in Nat
  BY LenProperties
<1>2. s # <<>>
  BY <1>1, EmptySeq
<1>3. /\ Tail(s) \in Seq(Item)
      /\ Len(Tail(s)) = Len(s) - 1
      /\ \A k \in 1 .. Len(Tail(s)) : Tail(s)[k] = s[k + 1]
  BY <1>2, HeadTailProperties
<1>4. Len(t) = Len(Tail(s)) /\ \A k \in 1 .. Len(t) : t[k] = Tail(s)[k]
  BY <1>1, <1>3
<1>5. QED
  BY <1>2, <1>3, <1>4, SeqEqual

-----------------------------------------------------------------------------
(* The invariant holds at first: the ring is empty.                        *)
LEMMA InitInv == OneProducer /\ Init => IInv
<1> SUFFICES ASSUME OneProducer, Init
             PROVE  IInv
  OBVIOUS
<1> Size \in Nat /\ Size > 1
  BY RingAssumption
<1>1. TypeOK
  BY DEF Init, TypeOK, Index
<1>2. QED
  BY <1>1 DEF Init, OneProducer, IInv, PutInv, SendInv

(* The type of the variables is kept.                                      *)
LEMMA NextType == TypeOK /\ [Next]_vars => TypeOK'
<1> SUFFICES ASSUME TypeOK, [Next]_vars
             PROVE  TypeOK'
  OBVIOUS
<1>1. /\ After(front) \in Index
      /\ After(rear) \in Index
      /\ After(load) \in Index
  BY AfterIs DEF TypeOK
<1> USE DEF TypeOK
<1>2. CASE UNCHANGED vars
  BY <1>2 DEF vars
<1>3. ASSUME NEW i \in Item, PutFull(i) PROVE TypeOK'
  BY <1>3 DEF PutFull, vars
<1>4. ASSUME NEW i \in Item, PutTest(i) PROVE TypeOK'
  BY <1>4 DEF PutTest
<1>5. CASE PutLoad
  BY <1>5 DEF PutLoad
<1>6. CASE PutAdvance
  BY <1>1, <1>6 DEF PutAdvance
<1>7. CASE PutStore
  BY <1>1, <1>7 DEF PutStore
<1>8. ASSUME NEW i \in Item, IsrPut(i) PROVE TypeOK'
  BY <1>1, <1>8 DEF IsrPut
<1>9. ASSUME NEW i \in Item, IsrPutFull(i) PROVE TypeOK'
  BY <1>9 DEF IsrPutFull, vars
<1>10. CASE GetAdvance
  BY <1>1, <1>10 DEF GetAdvance
<1>11. CASE GetRead
  BY <1>11 DEF GetRead
<1>12. CASE SendCopy
  BY <1>1, <1>12 DEF SendCopy
<1>13. CASE SendAdvance
  BY <1>1, <1>13 DEF SendAdvance
<1>14. QED
  BY <1>2, <1>3, <1>4, <1>5, <1>6, <1>7, <1>8, <1>9, <1>10, <1>11, <1>12,
     <1>13 DEF Next

(* So is the rest of the invariant: the interrupt puts nothing into a ring *)
(* that the main loop is putting something into.                           *)
LEMMA NextInv == IInv /\ [Next]_vars => IInv'
<1> SUFFICES ASSUME IInv, [Next]_vars
             PROVE  IInv'
  OBVIOUS
<1> TypeOK /\ TypeOK'
  BY NextType DEF IInv
<1>1. producers \in SUBSET {"main", "isr"} /\ producers # {"main", "isr"}
  BY RingAssumption DEF IInv, TypeOK
<1>2. ~ ("main" \in producers /\ "isr" \in producers)
  BY <1>1
<1>3. producers' = producers
  BY DEF Next, vars, PutFull, PutTest, PutLoad, PutAdvance, PutStore, IsrPut,
         IsrPutFull, GetAdvance, GetRead, SendCopy, SendAdvance
<1>4. UNCHANGED vars => IInv'
  BY DEF vars, IInv, PutInv, SendInv, Full, Empty, After
<1> SUFFICES ASSUME Next
             PROVE  PutInv' /\ SendInv'
  BY <1>1, <1>3, <1>4 DEF IInv
<1> USE DEF IInv
<1>5. ASSUME NEW i \in Item, PutFull(i) \/ IsrPutFull(i)
      PROVE  PutInv' /\ SendInv'
  BY <1>4, <1>5 DEF PutFull, IsrPutFull
<1>6. ASSUME NEW i \in Item, PutTest(i) PROVE PutInv' /\ SendInv'
  BY <1>6 DEF PutTest, PutInv, SendInv, Full, After
<1>7. CASE PutLoad
  BY <1>7 DEF PutLoad, PutInv, SendInv, Full, After
<1>8. CASE PutAdvance
  BY <1>8 DEF PutAdvance, PutInv, SendInv, Full, Empty, After
<1>9. CASE PutStore
  BY <1>9 DEF PutStore, PutInv, SendInv
<1>10. ASSUME NEW i \in Item, IsrPut(i) PROVE PutInv' /\ SendInv'
  <2>1. pc \notin {"load", "advance", "store"} /\ pc' = pc
    BY <1>2, <1>10 DEF IsrPut, PutInv
  <2>2. PutInv'
    BY <2>1 DEF PutInv
  <2>3. ASSUME pc = "sent" PROVE After(rear) # After(front)
    <3>1. rear # front /\ rear \in Index /\ front \in Index
      BY <2>3 DEF SendInv, Empty, TypeOK
    <3>2. QED
      BY <3>1, AfterIs, RingAssumption DEF Index
  <2>4. SendInv'
    <3> SUFFICES ASSUME pc = "sent"
                 PROVE  ~Empty' /\ frame' = queue'[After(front)']
      BY <2>1 DEF SendInv
    <3>1. ~Empty'
      BY <1>10 DEF IsrPut, Full, Empty
    <3>2. After(front)' = After(front) /\ After(front) \in Index
      BY <1>10, AfterIs DEF IsrPut, After, TypeOK
    <3>3. queue'[After(front)] = queue[After(front)]
      BY <1>10, <2>3, <3>2 DEF IsrPut, TypeOK
    <3>4. QED
      BY <1>10, <3>1, <3>2, <3>3 DEF SendInv, IsrPut
  <2>5. QED
    BY <2>2, <2>4
<1>11. CASE GetAdvance
  BY <1>11 DEF GetAdvance, PutInv, SendInv
<1>12. CASE GetRead
  BY <1>12 DEF GetRead, PutInv, SendInv
<1>13. CASE SendCopy
  BY <1>13 DEF SendCopy, PutInv, SendInv, Empty, After
<1>14. CASE SendAdvance
  BY <1>14 DEF SendAdvance, PutInv, SendInv
<1>15. QED
  BY <1>5, <1>6, <1>7, <1>8, <1>9, <1>10, <1>11, <1>12, <1>13, <1>14 DEF Next

-----------------------------------------------------------------------------
(* The steps that leave the queue alone.                                   *)
Same == Waiting' = Waiting /\ Out' = Out

(* WaitingIs of the next state.                                            *)
LEMMA WaitingAfter ==
  ASSUME TypeOK'
  PROVE  /\ Waiting' \in Seq(Item) /\ Len(Waiting') = Count'
         /\ \A k \in 1 .. Count' : Waiting'[k] = Nth(k)'
<1>1. (/\ Waiting \in Seq(Item)
       /\ Len(Waiting) = Count
       /\ \A k \in 1 .. Count : Waiting[k] = Nth(k))'
  BY WaitingIs, PTL
<1>2. QED
  BY <1>1

(* It is enough that the count and the places are as they were.            *)
LEMMA SameIs ==
  ASSUME TypeOK, TypeOK', Count' = Count, Out' = Out,
         \A k \in 1 .. Count : Nth(k)' = Nth(k)
  PROVE  Same
<1>1. /\ Waiting' \in Seq(Item) /\ Len(Waiting') = Count'
      /\ \A k \in 1 .. Count' : Waiting'[k] = Nth(k)'
  BY WaitingAfter
<1>2. /\ Waiting \in Seq(Item) /\ Len(Waiting) = Count
      /\ \A k \in 1 .. Count : Waiting[k] = Nth(k)
  BY WaitingIs
<1>3. Len(Waiting') = Len(Waiting)
  BY <1>1, <1>2
<1>4. \A k \in 1 .. Len(Waiting') : Waiting'[k] = Waiting[k]
  BY <1>1, <1>2, <1>3
<1>5. Waiting' = Waiting
  BY <1>1, <1>2, <1>3, <1>4, SeqEqual
<1>6. QED
  BY <1>5 DEF Same

(* A step that adds a place with item i puts i in the queue ...            *)
LEMMA PutIs ==
  ASSUME TypeOK, TypeOK', NEW i \in Item, Count' = Count + 1, Out' = Out,
         Nth(Count)' = i, \A k \in 1 .. Count : Nth(k)' = Nth(k)
  PROVE  Fifo!Put(i)
<1>1. /\ Waiting' \in Seq(Item) /\ Len(Waiting') = Count'
      /\ \A k \in 1 .. Count' : Waiting'[k] = Nth(k)'
  BY WaitingAfter
<1>2. /\ Waiting \in Seq(Item) /\ Len(Waiting) = Count
      /\ \A k \in 1 .. Count : Waiting[k] = Nth(k)
  BY WaitingIs
<1>3. Count \in 0 .. Size - 1 /\ Count' \in 0 .. Size - 1 /\ Size \in Nat
  <2>1. (Count \in 0 .. Size - 1)'
    BY CountIs, PTL
  <2>2. QED
    BY <2>1, CountIs, RingAssumption
<1>4. Len(Waiting') = Len(Waiting) + 1 /\ Waiting'[Len(Waiting')] = i
  <2>1. Count' \in 1 .. Count'
    BY <1>3
  <2>2. Waiting'[Count'] = Nth(Count)'
    BY <1>1, <2>1
  <2>3. QED
    BY <1>1, <1>2, <2>2
<1>5. \A k \in 1 .. Len(Waiting) : Waiting'[k] = Waiting[k]
  BY <1>1, <1>2, <1>3
<1>6. Waiting' = Append(Waiting, i)
  BY <1>1, <1>2, <1>4, <1>5, AppendIs
<1>7. Len(Waiting) < Size - 1
  BY <1>2, <1>3
<1>8. QED
  BY <1>6, <1>7 DEF Fifo!Put

(* ... and one that gives up the oldest place takes its item out.          *)
LEMMA TakeIs ==
  ASSUME TypeOK, TypeOK', Count' = Count - 1,
         \A j \in 1 .. Count : j = 1 => Out' = Nth(j),
         \A k \in 1 .. Count', j \in 1 .. Count :
           j = k + 1 => Nth(k)' = Nth(j)
  PROVE  Fifo!Take
<1>1. /\ Waiting' \in Seq(Item) /\ Len(Waiting') = Count'
      /\ \A k \in 1 .. Count' : Waiting'[k] = Nth(k)'
  BY WaitingAfter
<1>2. /\ Waiting \in Seq(Item) /\ Len(Waiting) = Count
      /\ \A k \in 1 .. Count : Waiting[k] = Nth(k)
  BY WaitingIs
<1>3. Count' \in Nat /\ Count \in Nat /\ 0 < Count
  <2>1. (Count \in 0 .. Size - 1)'
    BY CountIs, PTL
  <2>2. QED
    BY <2>1, CountIs, RingAssumption
<1>4. \A k \in 1 .. Len(Waiting') : Waiting'[k] = Waiting[k + 1]
  <2> TAKE k \in 1 .. Len(Waiting')
  <2>1. k \in 1 .. Count'
    BY <1>1
  <2>2. PICK j \in 1 .. Count : j = k + 1
    BY <1>3, <2>1
  <2>3. Waiting[j] = Nth(j)
    BY <1>2
  <2>4. Waiting'[k] = Nth(k)'
    BY <1>1, <2>1
  <2>5. Nth(k)' = Nth(j)
    BY <2>1, <2>2, Zenon
  <2>6. QED
    BY <2>2, <2>3, <2>4, <2>5
<1>5. Waiting # <<>> /\ Waiting' = Tail(Waiting)
  BY <1>1, <1>2, <1>4, TailIs
<1>6. Out' = Head(Waiting)
  <2>1. PICK j \in 1 .. Count : j = 1
    BY <1>3
  <2>2. Waiting[j] = Nth(j)
    BY <1>2
  <2>3. Head(Waiting) = Waiting[1]
    BY <1>2, <1>5
  <2>4. QED
    BY <2>1, <2>2, <2>3
<1>7. QED
  BY <1>5, <1>6 DEF Fifo!Take

-----------------------------------------------------------------------------
(* CountIs and NthIs of the next state.                                    *)
LEMMA CountAfter ==
  ASSUME TypeOK'
  PROVE  /\ Count' = IF rear' >= front' THEN rear' - front'
                                        ELSE rear' - front' + Size
         /\ Count' \in 0 .. Size - 1
<1>1. (/\ Count = IF rear >= front THEN rear - front ELSE rear - front + Size
       /\ Count \in 0 .. Size - 1)'
  BY CountIs, PTL
<1>2. QED
  BY <1>1

LEMMA NthAfter ==
  ASSUME TypeOK'
  PROVE  \A k \in 1 .. Count' :
           Nth(k)' = IF pc' = "store" /\ k = Count' THEN x'
                     ELSE IF front' + k < Size THEN queue'[front' + k]
                     ELSE queue'[front' + k - Size]
<1>1. (\A k \in 1 .. Count :
         Nth(k) = IF pc = "store" /\ k = Count THEN x
                  ELSE IF front + k < Size THEN queue[front + k]
                  ELSE queue[front + k - Size])'
  BY NthIs, PTL
<1>2. QED
  BY <1>1

(* A step that touches neither the indices nor the slots, and that neither *)
(* enters nor leaves the middle of a put or of a get, shows nothing.       *)
LEMMA Untouched ==
  ASSUME UNCHANGED <<queue, front, rear, out>>, pc \notin {"store", "read"},
         pc' \notin {"store", "read"}
  PROVE  Same
BY DEF Same, Waiting, Nth, Count, Out

(* rear moves: the item enters the queue, and is not in its slot yet.      *)
LEMMA AdvanceStep == IInv /\ IInv' /\ PutAdvance => Fifo!Put(x)
<1> SUFFICES ASSUME IInv, IInv', PutAdvance
             PROVE  Fifo!Put(x)
  OBVIOUS
<1> TypeOK /\ TypeOK' /\ x \in Item
  BY DEF IInv, TypeOK
<1>1. /\ rear' = After(rear) /\ front' = front /\ After(rear) # front
      /\ queue' = queue /\ x' = x /\ pc = "advance" /\ pc' = "store"
  BY DEF IInv, PutInv, PutAdvance, Full
<1>2. /\ front \in Index /\ rear \in Index /\ Size \in Nat
      /\ After(rear) = IF rear = Size - 1 THEN 0 ELSE rear + 1
  BY AfterIs, RingAssumption DEF TypeOK
<1>3. Count' = Count + 1 /\ Count \in Nat
  BY <1>1, <1>2, CountIs, CountAfter DEF Index
<1>4. Nth(Count)' = x
  BY <1>1 DEF Nth
<1>5. \A k \in 1 .. Count : Nth(k)' = Nth(k)
  BY <1>1, <1>3, NthIs, NthAfter
<1>6. Out' = Out
  BY <1>1 DEF Out, PutAdvance
<1>7. QED
  BY <1>3, <1>4, <1>5, <1>6, PutIs

(* The item reaches its slot.                                              *)
LEMMA StoreStep == IInv /\ IInv' /\ PutStore => Same
<1> SUFFICES ASSUME IInv, IInv', PutStore
             PROVE  Same
  OBVIOUS
<1> TypeOK /\ TypeOK'
  BY DEF IInv
<1>1. /\ queue' = [queue EXCEPT ![rear] = x] /\ rear # front
      /\ rear' = rear /\ front' = front /\ pc = "store" /\ pc' = "main"
      /\ out' = out
  BY DEF IInv, PutInv, PutStore, Empty
<1>2. /\ front \in Index /\ rear \in Index /\ Size \in Nat
      /\ queue \in [Index -> Item]
  BY RingAssumption DEF TypeOK
<1>3. Count' = Count /\ Count \in Nat
  BY <1>1, CountIs DEF Count
<1>4. \A k \in 1 .. Count : Nth(k)' = Nth(k)
  <2> TAKE k \in 1 .. Count
  <2>1. Nth(k)' = IF front + k < Size THEN queue'[front + k]
                                      ELSE queue'[front + k - Size]
    BY <1>1, <1>3, NthAfter
  <2>2. Nth(k) = IF k = Count THEN x
                 ELSE IF front + k < Size THEN queue[front + k]
                 ELSE queue[front + k - Size]
    BY <1>1, NthIs
  <2>3. /\ front + k < Size => front + k \in Index
        /\ front + k >= Size => front + k - Size \in Index
        /\ k = Count <=> rear = IF front + k < Size THEN front + k
                                                    ELSE front + k - Size
    BY <1>1, <1>2, CountIs DEF Index
  <2>4. QED
    BY <1>1, <1>2, <2>1, <2>2, <2>3
<1>5. Out' = Out
  BY <1>1 DEF Out
<1>6. QED
  BY <1>3, <1>4, <1>5, SameIs

(* The interrupt puts an item in: the main loop may be about to read a     *)
(* slot, but is not putting anything in itself.                            *)
LEMMA IsrStep ==
  ASSUME IInv, IInv', NEW i \in Item, IsrPut(i)
  PROVE  Fifo!Put(i)
<1> TypeOK /\ TypeOK'
  BY DEF IInv
<1>1. /\ rear' = After(rear) /\ front' = front /\ After(rear) # front
      /\ queue' = [queue EXCEPT ![After(rear)] = i]
      /\ pc' = pc /\ out' = out
  BY DEF IsrPut, Full
<1>2. pc # "store"
  <2>1. producers \in SUBSET {"main", "isr"} /\ producers # {"main", "isr"}
    BY RingAssumption DEF IInv, TypeOK
  <2>2. "main" \notin producers
    BY <2>1 DEF IsrPut
  <2>3. QED
    BY <2>2 DEF IInv, PutInv
<1>3. /\ front \in Index /\ rear \in Index /\ Size \in Nat /\ Size > 1
      /\ After(rear) \in Index
      /\ After(rear) = IF rear = Size - 1 THEN 0 ELSE rear + 1
      /\ queue \in [Index -> Item]
  BY AfterIs, RingAssumption DEF TypeOK
<1>4. Count' = Count + 1 /\ Count \in Nat
  BY <1>1, <1>3, CountIs, CountAfter DEF Index
<1>5. Nth(Count)' = i
  <2>1. PICK k \in 1 .. Count' : k = Count'
    BY <1>4
  <2>2. Nth(k)' = IF front + k < Size THEN queue'[front + k]
                                      ELSE queue'[front + k - Size]
    BY <1>1, <1>2, NthAfter
  <2>3. After(rear) = IF front + k < Size THEN front + k
                                          ELSE front + k - Size
    BY <1>1, <1>3, <1>4, <2>1, CountIs DEF Index
  <2>4. Nth(k)' = queue'[After(rear)]
    BY <2>2, <2>3
  <2>5. Nth(k)' = i
    BY <1>1, <1>3, <2>4
  <2>6. QED
    BY <2>1, <2>5
<1>6. \A k \in 1 .. Count : Nth(k)' = Nth(k)
  <2> TAKE k \in 1 .. Count
  <2>1. Nth(k)' = IF front + k < Size THEN queue'[front + k]
                                      ELSE queue'[front + k - Size]
    BY <1>1, <1>2, <1>4, NthAfter
  <2>2. Nth(k) = IF front + k < Size THEN queue[front + k]
                                     ELSE queue[front + k - Size]
    BY <1>2, NthIs
  <2>3. /\ front + k < Size => /\ front + k \in Index
                               /\ front + k # After(rear)
        /\ front + k >= Size => /\ front + k - Size \in Index
                                /\ front + k - Size # After(rear)
    BY <1>1, <1>3, <1>4, CountIs, CountAfter DEF Index
  <2>4. QED
    BY <1>1, <1>3, <2>1, <2>2, <2>3 DEF Index
<1>7. Out' = Out
  BY <1>1, <1>3 DEF Out
<1>8. QED
  BY <1>4, <1>5, <1>6, <1>7, PutIs

(* front moves: the oldest place is given up.  By then the main loop has   *)
(* the item (SendAdvance), or the place after is read next (GetAdvance).   *)
LEMMA FrontStep ==
  ASSUME TypeOK, TypeOK', ~Empty, front' = After(front),
         UNCHANGED <<queue, rear>>, pc # "store", pc' # "store",
         Out' = queue[After(front)]
  PROVE  Fifo!Take
<1>1. /\ front \in Index /\ rear \in Index /\ Size \in Nat /\ Size > 1
      /\ After(front) = IF front = Size - 1 THEN 0 ELSE front + 1
      /\ rear # front
  BY AfterIs, RingAssumption DEF TypeOK, Empty
<1>2. Count' = Count - 1 /\ Count \in Nat /\ Count' \in Nat
  BY <1>1, CountIs, CountAfter DEF Index
<1>3. \A j \in 1 .. Count : j = 1 => Out' = Nth(j)
  <2> SUFFICES ASSUME NEW j \in 1 .. Count, j = 1
               PROVE  Out' = Nth(j)
    OBVIOUS
  <2>1. Nth(j) = IF front + j < Size THEN queue[front + j]
                                     ELSE queue[front + j - Size]
    BY NthIs
  <2>2. After(front) = IF front + j < Size THEN front + j
                                           ELSE front + j - Size
    BY <1>1 DEF Index
  <2>3. QED
    BY <2>1, <2>2
<1>4. \A k \in 1 .. Count', j \in 1 .. Count : j = k + 1 => Nth(k)' = Nth(j)
  <2> SUFFICES ASSUME NEW k \in 1 .. Count', NEW j \in 1 .. Count, j = k + 1
               PROVE  Nth(k)' = Nth(j)
    OBVIOUS
  <2>1. Nth(k)' = IF front' + k < Size THEN queue[front' + k]
                                       ELSE queue[front' + k - Size]
    BY NthAfter
  <2>2. Nth(j) = IF front + j < Size THEN queue[front + j]
                                     ELSE queue[front + j - Size]
    BY NthIs
  <2>3. (IF front' + k < Size THEN front' + k ELSE front' + k - Size)
          = IF front + j < Size THEN front + j ELSE front + j - Size
    BY <1>1, <1>2, CountIs DEF Index
  <2>4. QED
    BY <2>1, <2>2, <2>3
<1>5. QED
  BY <1>2, <1>3, <1>4, TakeIs

(* The item is read from its slot, which is free by now.                   *)
LEMMA ReadStep == GetRead => Same
BY DEF GetRead, Same, Waiting, Nth, Count, Out

(* Every step of the ring is one of the queue, or does not touch it.       *)
LEMMA NextStep == IInv /\ IInv' /\ [Next]_vars => [Fifo!Next]_(Fifo!fvars)
<1> SUFFICES ASSUME IInv, IInv', [Next]_vars
             PROVE  Fifo!Next \/ Same
  BY DEF Fifo!fvars, Same
<1> TypeOK /\ TypeOK'
  BY DEF IInv
<1>1. UNCHANGED vars => Same
  BY DEF vars, Same, Waiting, Nth, Count, Out
<1>2. ASSUME NEW i \in Item, PutFull(i) \/ IsrPutFull(i) PROVE Same
  BY <1>1, <1>2 DEF PutFull, IsrPutFull
<1>3. ASSUME NEW i \in Item, PutTest(i) PROVE Same
  BY <1>3, Untouched DEF PutTest
<1>4. CASE PutLoad
  BY <1>4, Untouched DEF PutLoad
<1>5. CASE PutAdvance
  <2>1. Fifo!Put(x) /\ x \in Item
    BY <1>5, AdvanceStep DEF TypeOK
  <2>2. QED
    BY <2>1 DEF Fifo!Next
<1>6. CASE PutStore
  BY <1>6, StoreStep
<1>7. ASSUME NEW i \in Item, IsrPut(i) PROVE Fifo!Next
  <2>1. Fifo!Put(i)
    BY <1>7, IsrStep
  <2>2. QED
    BY <2>1 DEF Fifo!Next
<1>8. CASE GetAdvance
  <2>1. Out' = queue[After(front)]
    BY <1>8 DEF GetAdvance, Out
  <2>2. Fifo!Take
    BY <1>8, <2>1, FrontStep DEF GetAdvance
  <2>3. QED
    BY <2>2 DEF Fifo!Next
<1>9. CASE GetRead
  BY <1>9, ReadStep
<1>10. CASE SendCopy
  BY <1>10, Untouched DEF SendCopy
<1>11. CASE SendAdvance
  <2>1. Out' = queue[After(front)] /\ ~Empty
    BY <1>11 DEF IInv, SendInv, SendAdvance, Out
  <2>2. Fifo!Take
    BY <1>11, <2>1, FrontStep DEF SendAdvance
  <2>3. QED
    BY <2>2 DEF Fifo!Next
<1>12. QED
  BY <1>1, <1>2, <1>3, <1>4, <1>5, <1>6, <1>7, <1>8, <1>9, <1>10, <1>11
     DEF Next

(* The empty ring is the empty queue.                                      *)
LEMMA InitStep == Init => Fifo!Init
<1> SUFFICES ASSUME Init
             PROVE  Fifo!Init
  OBVIOUS
<1>1. TypeOK
  BY RingAssumption DEF Init, TypeOK, Index
<1>2. Count = 0
  BY <1>1, CountIs DEF Init
<1>3. Waiting \in Seq(Item) /\ Len(Waiting) = 0
  BY <1>1, <1>2, WaitingIs
<1>4. Waiting = <<>>
  BY <1>3, EmptySeq
<1>5. Out \in Item
  BY DEF Init, Out
<1>6. QED
  BY <1>4, <1>5 DEF Fifo!Init

-----------------------------------------------------------------------------
(* The indices stay in the buffer and the slots hold items, whoever puts   *)
(* items in (maxSize of the four rings).                                   *)
THEOREM TypeCorrect == Spec => []TypeOK
<1>1. Init => TypeOK
  BY RingAssumption DEF Init, TypeOK, Index
<1>2. QED
  BY <1>1, NextType, PTL DEF Spec

(* The inductive invariant of a ring with one producing context.           *)
THEOREM Invariance ==
  ASSUME OneProducer
  PROVE  Spec => []IInv
<1>1. Init => IInv
  BY InitInv
<1>2. QED
  BY <1>1, NextInv, PTL DEF Spec

(* A ring into which one context puts items is a bounded first-in          *)
(* first-out queue (fun.c, can_bus.c, can1_bus.c, can2_bus.c).             *)
THEOREM Refinement ==
  ASSUME OneProducer
  PROVE  Spec => ImplementsFifo
<1>1. Spec => []IInv
  BY Invariance
<1>2. QED
  BY <1>1, InitStep, NextStep, PTL DEF Spec, ImplementsFifo, Fifo!Spec
=============================================================================
