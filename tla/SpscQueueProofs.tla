-------------------------- MODULE SpscQueueProofs --------------------------
(* Proofs about SpscQueue, for every index type, every capacity below the    *)
(* number of its values, and every set of elements.                          *)
EXTENDS SpscQueue, SequenceTheorems, TLAPS

\* The two conditions the queue needs from its user: a capacity the index type
\* can count, and no pop while push_until_success may drop an element.
WellUsed == MaxSize < Modulus /\ SerialDrop

USE ModulusAssumption, MaxSizeAssumption

-----------------------------------------------------------------------------
(* Index arithmetic. *)

Positions == 1..Distance(head, tail)

\* The distance counts up with a push and down with a pop.
LEMMA DistanceFacts ==
  ASSUME NEW h \in Index, NEW t \in Index
  PROVE  /\ Distance(h, t) \in 0..(Modulus - 1)
         /\ Succ(h) \in Index
         /\ Distance(h, t) = 0 <=> h = t
         /\ Distance(h, t) < Modulus - 1
              => Distance(Succ(h), t) = Distance(h, t) + 1
         /\ h # t => Distance(h, Succ(t)) = Distance(h, t) - 1
  BY DEF Distance, Succ, Index

\* The positions of the queue are slots of the ring; only the position after
\* the last one is the slot at head.
LEMMA SlotFacts ==
  ASSUME head \in Index, tail \in Index
  PROVE  /\ \A i \in Positions : Slot(i) \in Index /\ Slot(i) # head
         /\ Slot(Distance(head, tail) + 1) = head
         /\ Slot(1) = tail
  BY DEF Positions, Slot, Distance, Index

-----------------------------------------------------------------------------
(* The inductive invariant. *)

Inv ==
  /\ TypeOK
  /\ Distance(head, tail) <= MaxSize
  /\ ppc \in {"write", "publish"} => Distance(head, tail) < MaxSize
  /\ ppc = "publish" => block[head] = pval
  /\ ppc \in {"drop", "dropped"} => Distance(head, tail) = MaxSize
  /\ ppc = "dropped" => head # tail
  /\ cpc \in {"read", "advance"} =>
       /\ id_tail = tail /\ head # tail
       /\ ppc \notin {"force", "drop", "dropped"}
  /\ cpc = "advance" => cval = block[tail]

LEMMA InvInit == Init => Inv
  BY DEF Init, Inv, TypeOK, Index, Distance

LEMMA InvNext ==
  ASSUME WellUsed
  PROVE  Inv /\ [Next]_vars => Inv'
<1> SUFFICES ASSUME Inv, [Next]_vars PROVE Inv'
  OBVIOUS
<1> USE DEF Inv, TypeOK, WellUsed, producer, consumer
<1>d. /\ Distance(head, tail) \in 0..(Modulus - 1)
      /\ Succ(head) \in Index /\ Succ(tail) \in Index
      /\ Distance(head, tail) = 0 <=> head = tail
      /\ Distance(head, tail) < Modulus - 1
           => Distance(Succ(head), tail) = Distance(head, tail) + 1
      /\ head # tail
           => Distance(head, Succ(tail)) = Distance(head, tail) - 1
  BY DistanceFacts
<1>1. CASE UNCHANGED vars
  BY <1>1 DEF vars
<1>2. ASSUME NEW v \in Value, PushBegin(v) PROVE Inv'
  BY <1>2, <1>d DEF PushBegin, Full
<1>3. ASSUME NEW v \in Value, PushUntilSuccess(v) PROVE Inv'
  BY <1>3 DEF PushUntilSuccess
<1>4. CASE PushWrite
  BY <1>4 DEF PushWrite
<1>5. CASE PushPublish
  <2>1. Distance(head', tail') = Distance(head, tail) + 1
    BY <1>5, <1>d DEF PushPublish
  <2>2. head' \in Index /\ head' # tail'
    BY <1>5, <1>d, <2>1, DistanceFacts DEF PushPublish
  <2> QED BY <1>5, <1>d, <2>1, <2>2 DEF PushPublish
<1>6. CASE ForcePush
  <2>1. Full(head, tail) => Distance(head, tail) = MaxSize
    BY <1>d DEF Full, Distance, Index
  <2>2. ~Full(head, tail) => Distance(head, tail) < MaxSize
    BY <1>d DEF Full
  <2> QED BY <1>6, <2>1, <2>2 DEF ForcePush
<1>7. CASE DropBegin
  BY <1>7 DEF DropBegin
<1>8. CASE DropAdvance
  BY <1>8, <1>d DEF DropAdvance
<1>9. CASE PopBegin
  BY <1>9 DEF PopBegin
<1>10. CASE PopRead
  BY <1>10 DEF PopRead
<1>11. CASE PopAdvance
  BY <1>11, <1>d DEF PopAdvance
<1> QED
  BY <1>1, <1>2, <1>3, <1>4, <1>5, <1>6, <1>7, <1>8, <1>9, <1>10, <1>11
     DEF Next, ProducerStep, ConsumerStep

\* In a well-used queue the indices stay in the ring and the producer never
\* touches the slot the consumer reads, whatever the width of the index.
THEOREM SlotsDoNotRace ==
  ASSUME WellUsed
  PROVE  Spec => [](TypeOK /\ NoSlotRace)
<1>1. Spec => []Inv
  BY InvInit, InvNext, PTL DEF Spec
<1>2. Inv => TypeOK /\ NoSlotRace
  BY DEF Inv, NoSlotRace
<1> QED BY <1>1, <1>2, PTL

\* In a well-used queue a push never makes head_ meet tail_.
THEOREM PushHasRoom ==
  ASSUME WellUsed
  PROVE  Spec => []RoomForPush
<1>1. Spec => []Inv
  BY InvInit, InvNext, PTL DEF Spec
<1>2. Inv => RoomForPush
  <2> SUFFICES ASSUME Inv PROVE RoomForPush
    OBVIOUS
  <2>1. Distance(head, tail) \in 0..(Modulus - 1)
    BY DistanceFacts DEF Inv, TypeOK
  <2> QED BY <2>1 DEF Inv, RoomForPush, WellUsed
<1> QED BY <1>1, <1>2, PTL

-----------------------------------------------------------------------------
(* The refinement. *)

\* How the abstract elements change when one of the indices moves.
LEMMA ItemsFacts ==
  ASSUME Inv
  PROVE  /\ Items \in Seq(Value)
         /\ Len(Items) = Distance(head, tail)
         /\ Len(Items) = 0 <=> head = tail
<1>1. /\ Distance(head, tail) \in 0..(Modulus - 1)
      /\ Distance(head, tail) = 0 <=> head = tail
  BY DistanceFacts DEF Inv, TypeOK
<1>2. \A i \in 1..Distance(head, tail) : block[Slot(i)] \in Value
  BY SlotFacts DEF Inv, TypeOK, Positions
<1> QED BY <1>1, <1>2 DEF Items

LEMMA PublishAppends ==
  ASSUME WellUsed, Inv, PushPublish
  PROVE  Fifo!Push
<1> USE DEF Inv, TypeOK
<1>0. /\ head' = Succ(head) /\ tail' = tail /\ block' = block
      /\ block[head] = pval
      /\ Distance(head, tail) < MaxSize
  BY DEF PushPublish
<1>a. /\ Distance(head, tail) \in 0..(Modulus - 1)
      /\ Distance(head, tail) < Modulus - 1
           => Distance(Succ(head), tail) = Distance(head, tail) + 1
  BY DistanceFacts
<1>d. /\ Distance(head, tail) \in Nat
      /\ Distance(head', tail') = Distance(head, tail) + 1
  BY <1>0, <1>a DEF WellUsed
<1>1. /\ Items \in Seq(Value)
      /\ Len(Items) = Distance(head, tail)
  BY ItemsFacts
<1>2. Items' = Append(Items, pval)
  <2>1. \A i \in 1..(Distance(head, tail) + 1) : Slot(i)' = Slot(i)
    BY <1>0, <1>d DEF Slot
  <2>2. Items' = [i \in 1..(Distance(head, tail) + 1) |-> block[Slot(i)]]
    BY <1>0, <1>d, <2>1 DEF Items
  <2>3. block[Slot(Distance(head, tail) + 1)] = pval
    BY <1>0, SlotFacts
  <2>4. \A i \in 1..Distance(head, tail) : Items[i] = block[Slot(i)]
    BY DEF Items
  <2>5. \A i \in 1..Distance(head, tail) : block[Slot(i)] \in Value
    BY <1>1, <2>4, ElementOfSeq
  <2>6. Items' \in Seq(Value) /\ Len(Items') = Distance(head, tail) + 1
    BY <1>d, <2>2, <2>3, <2>5
  <2>7. /\ Append(Items, pval) \in Seq(Value)
        /\ Len(Append(Items, pval)) = Distance(head, tail) + 1
        /\ \A i \in 1..Distance(head, tail) : Append(Items, pval)[i] = Items[i]
        /\ Append(Items, pval)[Distance(head, tail) + 1] = pval
    BY <1>d, <1>1
  <2>8. \A i \in 1..(Distance(head, tail) + 1) :
          Items'[i] = Append(Items, pval)[i]
    BY <1>d, <2>2, <2>3, <2>4, <2>7
  <2> QED BY <2>6, <2>7, <2>8, SeqEqual
<1>3. UNCHANGED <<pval, out>>
  BY DEF PushPublish, consumer
<1> QED BY <1>0, <1>1, <1>2, <1>3 DEF Fifo!Push

\* A step that moves tail_ past one element removes the oldest.
LEMMA AdvanceRemoves ==
  ASSUME Inv, head # tail, tail' = Succ(tail), UNCHANGED <<head, block>>
  PROVE  /\ Items # <<>>
         /\ Head(Items) = block[tail]
         /\ Items' = Tail(Items)
<1> USE DEF Inv, TypeOK
<1>a. /\ Distance(head, tail) \in 0..(Modulus - 1)
      /\ Distance(head, tail) # 0
      /\ Distance(head, Succ(tail)) = Distance(head, tail) - 1
  BY DistanceFacts
<1>d. /\ Distance(head, tail) \in Nat \ {0}
      /\ Distance(head', tail') = Distance(head, tail) - 1
  BY <1>a
<1>1. /\ Items \in Seq(Value)
      /\ Len(Items) = Distance(head, tail)
  BY ItemsFacts
<1>2. Head(Items) = block[tail]
  BY <1>d, <1>1, SlotFacts DEF Items
<1>3. Items' = Tail(Items)
  <2>1. \A i \in 1..(Distance(head, tail) - 1) : Slot(i)' = Slot(i + 1)
    BY <1>d DEF Slot, Succ, Index, Distance
  <2>2. Items' = [i \in 1..(Distance(head, tail) - 1) |-> block[Slot(i + 1)]]
    BY <1>d, <2>1 DEF Items
  <2>3. \A i \in 1..(Distance(head, tail) - 1) :
          Items[i + 1] = block[Slot(i + 1)]
    BY <1>d DEF Items
  <2>4. \A i \in 1..(Distance(head, tail) - 1) : block[Slot(i + 1)] \in Value
    <3> SUFFICES ASSUME NEW i \in 1..(Distance(head, tail) - 1)
                 PROVE  Items[i + 1] \in Value
      BY <2>3
    <3> i + 1 \in 1..Len(Items)
      BY <1>d, <1>1
    <3> QED BY <1>1, ElementOfSeq
  <2>5. Items' \in Seq(Value) /\ Len(Items') = Distance(head, tail) - 1
    BY <1>d, <2>2, <2>4
  <2>6. Items # <<>>
    BY <1>d, <1>1
  <2>7. /\ Tail(Items) \in Seq(Value)
        /\ Len(Tail(Items)) = Distance(head, tail) - 1
        /\ \A i \in 1..(Distance(head, tail) - 1) : Tail(Items)[i] = Items[i + 1]
    BY <1>1, <2>6, HeadTailProperties
  <2>8. \A i \in 1..(Distance(head, tail) - 1) : Items'[i] = Tail(Items)[i]
    BY <1>d, <2>2, <2>3, <2>7
  <2> QED BY <2>5, <2>7, <2>8, SeqEqual
<1> QED BY <1>d, <1>1, <1>2, <1>3

\* A step that moves no index and writes no slot of the queue leaves the
\* abstract elements alone.
LEMMA ItemsKept ==
  ASSUME Inv, UNCHANGED <<head, tail>>,
         \A i \in Index : i # head => block'[i] = block[i]
  PROVE  Items' = Items
<1>1. \A i \in Positions : Slot(i)' = Slot(i) /\ block'[Slot(i)] = block[Slot(i)]
  BY SlotFacts DEF Inv, TypeOK, Slot
<1>2. Distance(head, tail)' = Distance(head, tail)
  BY DEF Distance
<1> QED BY <1>1, <1>2 DEF Items, Positions

LEMMA StepRefines ==
  ASSUME WellUsed
  PROVE  Inv /\ [Next]_vars => [Fifo!Next]_<<Items, pval, out>>
<1> SUFFICES ASSUME Inv, [Next]_vars PROVE [Fifo!Next]_<<Items, pval, out>>
  OBVIOUS
<1> USE DEF producer, consumer
<1>1. CASE UNCHANGED vars
  BY <1>1, ItemsKept DEF vars
<1>2. ASSUME NEW v \in Value, PushBegin(v) \/ PushUntilSuccess(v)
      PROVE  Fifo!Next
  <2>1. Items' = Items /\ pval' = v /\ out' = out
    BY <1>2, ItemsKept DEF PushBegin, PushUntilSuccess
  <2> QED BY <2>1 DEF Fifo!Next, Fifo!Offer
<1>3. CASE PushWrite
  <2>1. \A i \in Index : i # head => block'[i] = block[i]
    BY <1>3 DEF PushWrite, Inv, TypeOK
  <2> QED BY <1>3, <2>1, ItemsKept DEF PushWrite
<1>4. CASE PushPublish
  BY <1>4, PublishAppends DEF Fifo!Next
<1>5. CASE ForcePush \/ DropBegin \/ PopBegin \/ PopRead
  BY <1>5, ItemsKept DEF ForcePush, DropBegin, PopBegin, PopRead
<1>6. CASE DropAdvance
  <2>1. Items # <<>> /\ Items' = Tail(Items)
    BY <1>6, AdvanceRemoves DEF DropAdvance, Inv
  <2>2. Len(Items) = MaxSize
    BY <1>6, ItemsFacts DEF DropAdvance, Inv
  <2>3. UNCHANGED <<pval, out>>
    BY <1>6 DEF DropAdvance
  <2> QED BY <2>1, <2>2, <2>3 DEF Fifo!Next, Fifo!Drop
<1>7. CASE PopAdvance
  <2>1. Items # <<>> /\ Head(Items) = block[tail] /\ Items' = Tail(Items)
    BY <1>7, AdvanceRemoves DEF PopAdvance, Inv
  <2>2. out' = block[tail] /\ pval' = pval
    BY <1>7 DEF PopAdvance, Inv
  <2> QED BY <2>1, <2>2 DEF Fifo!Next, Fifo!Pop
<1> QED
  BY <1>1, <1>2, <1>3, <1>4, <1>5, <1>6, <1>7
     DEF Next, ProducerStep, ConsumerStep

\* A well-used ring implements the bounded queue, for every index type: nothing
\* is lost, repeated or reordered by an index that wraps around.
THEOREM RingIsFifo ==
  ASSUME WellUsed
  PROVE  Spec => ImplementsFifo
<1>1. Init => Fifo!Init
  BY DEF Init, Fifo!Init, Items, Distance, Index
<1>2. Spec => []Inv
  BY InvInit, InvNext, PTL DEF Spec
<1> QED BY <1>1, <1>2, StepRefines, PTL DEF Spec, ImplementsFifo, Fifo!Spec

=============================================================================
