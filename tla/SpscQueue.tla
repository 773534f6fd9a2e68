----------------------------- MODULE SpscQueue -----------------------------
(***************************************************************************)
(* spsc_queue (include/footstone/spsc_queue.h): a ring of Modulus slots    *)
(* whose indices are of the unsigned type U and wrap around, one producer  *)
(* that owns head_ and one consumer that owns tail_.  A load of the other  *)
(* side's index, an access to a slot and a fetch_add are steps of their    *)
(* own; the release/acquire pairs on the indices make a slot written       *)
(* before a fetch_add visible to whoever has read the new index.           *)
(***************************************************************************)
EXTENDS Integers, Sequences

CONSTANTS Value,       \* elements
          Modulus,     \* number of values of U: size_limit + 1
          MaxSize,     \* max_size_
          SerialDrop   \* push_until_success and pop are not concurrent

ASSUME ModulusAssumption == Modulus \in Nat /\ Modulus > 1
ASSUME MaxSizeAssumption == MaxSize \in Nat
ASSUME ValueAssumption == Value # {}
ASSUME SerialDropAssumption == SerialDrop \in BOOLEAN

VARIABLES head, tail, block,
          ppc, pval,       \* the producer: where it is, the value it pushes
          cpc, id_tail,    \* the consumer: where it is, the tail_ it loaded,
          cval, out        \* the value it read, the value pop returned last

producer == <<ppc, pval>>
consumer == <<cpc, id_tail, cval, out>>
vars == <<head, tail, block, producer, consumer>>

Index == 0..(Modulus - 1)

\* Unsigned arithmetic modulo Modulus.
Succ(i) == IF i = Modulus - 1 THEN 0 ELSE i + 1
Distance(h, t) == IF h >= t THEN h - t ELSE h - t + Modulus

Init ==
  /\ head = 0 /\ tail = 0
  /\ block \in [Index -> Value]
  /\ ppc = "idle" /\ pval \in Value
  /\ cpc = "idle" /\ id_tail = 0 /\ cval \in Value /\ out \in Value

-----------------------------------------------------------------------------
FullM(h, t) == h = t - 1 \/ Distance(h, t) > MaxSize  \* mutant: off by one

\* The two tests of push.  In the first, t - 1 is computed in int, because U is
\* narrower: it is -1 when t is 0, not the last index.
Full(h, t) == h = t - 1 \/ Distance(h, t) >= MaxSize

\* push: the loads and the tests.
PushBegin(v) ==
  /\ ppc = "idle"
  /\ ~Full(head, tail)  \* otherwise push returns false
  /\ pval' = v
  /\ ppc' = "write"
  /\ UNCHANGED <<head, tail, block, consumer>>

PushWriteM ==  \* mutant: the slot after the one that is published
  /\ ppc = "write"
  /\ block' = [block EXCEPT ![Succ(head)] = pval]
  /\ ppc' = "publish"
  /\ UNCHANGED <<head, tail, pval, consumer>>

PushWrite ==
  /\ ppc = "write"
  /\ block' = [block EXCEPT ![head] = pval]
  /\ ppc' = "publish"
  /\ UNCHANGED <<head, tail, pval, consumer>>

PushPublish ==
  /\ ppc = "publish"
  /\ head' = Succ(head)
  /\ ppc' = "idle"
  /\ UNCHANGED <<tail, block, pval, consumer>>

\* pop: the loads and the test, the read, the fetch_add.
PopBegin ==
  /\ cpc = "idle"
  /\ SerialDrop => ppc \notin {"force", "drop", "dropped"}
  /\ tail # head  \* otherwise pop returns false
  /\ id_tail' = tail
  /\ cpc' = "read"
  /\ UNCHANGED <<head, tail, block, producer, cval, out>>

PopRead ==
  /\ cpc = "read"
  /\ cval' = block[id_tail]
  /\ cpc' = "advance"
  /\ UNCHANGED <<head, tail, block, producer, id_tail, out>>

PopAdvance ==
  /\ cpc = "advance"
  /\ tail' = Succ(tail)
  /\ out' = cval
  /\ cpc' = "idle"
  /\ UNCHANGED <<head, block, producer, id_tail, cval>>

\* push_until_success: push, and pop until push succeeds, in the producer.
PushUntilSuccess(v) ==
  /\ ppc = "idle"
  /\ SerialDrop => cpc = "idle"
  /\ pval' = v
  /\ ppc' = "force"
  /\ UNCHANGED <<head, tail, block, consumer>>

ForcePush ==
  /\ ppc = "force"
  /\ ppc' = IF Full(head, tail) THEN "drop" ELSE "write"
  /\ UNCHANGED <<head, tail, block, pval, consumer>>

DropBegin ==
  /\ ppc = "drop"
  /\ ppc' = IF tail = head THEN "force" ELSE "dropped"
  /\ UNCHANGED <<head, tail, block, pval, consumer>>

DropAdvanceM ==  \* mutant: the popped element is not removed
  /\ ppc = "dropped"
  /\ ppc' = "force"
  /\ UNCHANGED <<head, tail, block, pval, consumer>>

DropAdvance ==
  /\ ppc = "dropped"
  /\ tail' = Succ(tail)
  /\ ppc' = "force"
  /\ UNCHANGED <<head, block, pval, consumer>>

ProducerStep ==
  \/ PushWrite \/ PushPublish \/ ForcePush \/ DropBegin \/ DropAdvance
ConsumerStep == PopRead \/ PopAdvance

Next ==
  \/ \E v \in Value : PushBegin(v) \/ PushUntilSuccess(v)
  \/ ProducerStep
  \/ PopBegin
  \/ ConsumerStep

\* A call that has begun goes on; nothing obliges anyone to call.
Fairness == WF_vars(ProducerStep) /\ WF_vars(ConsumerStep)

Spec == Init /\ [][Next]_vars /\ Fairness

-----------------------------------------------------------------------------
(* Properties. *)

\* Every variable has its type; the indices never leave the ring.
TypeOK ==
  /\ head \in Index /\ tail \in Index /\ id_tail \in Index
  /\ block \in [Index -> Value]
  /\ ppc \in {"idle", "write", "publish", "force", "drop", "dropped"}
  /\ cpc \in {"idle", "read", "advance"}
  /\ pval \in Value /\ cval \in Value /\ out \in Value

\* The producer never writes the slot the consumer is reading: the plain
\* accesses to block_ do not race.
NoSlotRace ==
  ~(ppc \in {"write", "publish"} /\ cpc \in {"read", "advance"} /\ head = id_tail)

\* A push goes ahead only when the indices can count one more element: with
\* Modulus elements head_ would meet tail_ and the queue would look empty.
RoomForPush ==
  ppc \in {"write", "publish"} => Distance(head, tail) < Modulus - 1

\* The elements of the queue, oldest first, read off the ring.
Slot(i) == IF tail + i - 1 < Modulus THEN tail + i - 1
                                     ELSE tail + i - 1 - Modulus
Items == [i \in 1..Distance(head, tail) |-> block[Slot(i)]]

Fifo == INSTANCE BoundedFifo
          WITH Element <- Value, Capacity <- MaxSize,
               items <- Items, in <- pval, out <- out

\* The ring implements the bounded queue: a push takes effect at its
\* fetch_add, a pop at its own, in order, without loss or repetition, and
\* push_until_success drops the oldest element only when the queue is full.
ImplementsFifo == Fifo!Spec

\* push_until_success always ends with its element in the queue.
ForcedPushEnds == ppc = "force" ~> ppc = "idle"
=============================================================================
