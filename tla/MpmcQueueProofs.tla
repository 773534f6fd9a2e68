-------------------------- MODULE MpmcQueueProofs --------------------------
(* Proofs about MpmcQueue, for any number of threads and of pushes, any ring  *)
(* and any capacity.                                                          *)
EXTENDS MpmcQueue, SequenceTheorems, TLAPS

-----------------------------------------------------------------------------
(* The ring. *)

LEMMA Split ==
  ASSUME NEW a \in Int
  PROVE  \E q \in Int, r \in 0..(Modulus - 1) : a = Modulus * q + r /\ a % Modulus = r
  BY ModulusAssumption

LEMMA Apart ==
  ASSUME NEW p \in Int, NEW q \in Int, NEW r \in Int, NEW s \in Int,
         Modulus * p + r = Modulus * q + s, r - s < Modulus, s - r < Modulus
  PROVE  p = q /\ r = s
<1>1. Modulus \in Int /\ Modulus > 1 /\ Modulus * (p - q) = s - r
  BY ModulusAssumption
<1>2. ASSUME p > q PROVE FALSE
  <2>1. Modulus * (p - q) >= Modulus
    BY <1>1, <1>2
  <2> QED BY <1>1, <2>1
<1>3. ASSUME q > p PROVE FALSE
  <2>1. Modulus * (p - q) <= 0 - Modulus
    BY <1>1, <1>3
  <2> QED BY <1>1, <2>1
<1>4. p = q
  BY <1>2, <1>3
<1>5. Modulus * (p - q) = 0
  BY <1>1, <1>4
<1> QED BY <1>1, <1>4, <1>5

\* The remainder of a number is in the ring.
LEMMA InRing ==
  ASSUME NEW a \in Int
  PROVE  a % Modulus \in Index
  BY ModulusAssumption DEF Index

\* Numbers less than a lap apart that have the same remainder are equal.
LEMMA Same ==
  ASSUME NEW a \in Int, NEW b \in Int, a % Modulus = b % Modulus,
         a - b < Modulus, b - a < Modulus
  PROVE  a = b
<1>1. PICK p \in Int, r \in 0..(Modulus - 1) : a = Modulus * p + r /\ a % Modulus = r
  BY Split
<1>2. PICK q \in Int, s \in 0..(Modulus - 1) : b = Modulus * q + s /\ b % Modulus = s
  BY Split
<1>3. Modulus * p \in Int /\ Modulus * q \in Int /\ Modulus \in Int /\ Modulus > 1
  BY ModulusAssumption
<1>4. r = s
  BY <1>1, <1>2
<1>5. Modulus * (p - q) = a - b
  BY <1>1, <1>2, <1>3, <1>4
<1>6. Modulus * p + 0 = Modulus * q + (a - b)
  BY <1>1, <1>2, <1>3, <1>4
<1>7. a - b \in Int /\ 0 - (a - b) < Modulus /\ (a - b) - 0 < Modulus /\ 0 \in Int
  BY <1>3
<1>8. 0 = a - b
  <2> DEFINE d == a - b
  <2>1. d \in Int /\ 0 \in Int /\ 0 - d < Modulus /\ d - 0 < Modulus
        /\ Modulus * p + 0 = Modulus * q + d
    BY <1>6, <1>7
  <2> HIDE DEF d
  <2>2. 0 = d
    BY <2>1, Apart
  <2> QED BY <2>2 DEF d
<1> QED BY <1>8

\* A number in the ring is its own remainder.
LEMMA Small ==
  ASSUME NEW a \in 0..(Modulus - 1)
  PROVE  a % Modulus = a
<1>1. PICK p \in Int, r \in 0..(Modulus - 1) : a = Modulus * p + r /\ a % Modulus = r
  <2>1. a \in Int
    OBVIOUS
  <2> QED BY <2>1, Split
<1>2. Modulus * 0 + a = Modulus * p + r /\ a - r < Modulus /\ r - a < Modulus
      /\ a \in Int /\ r \in Int
  BY <1>1, ModulusAssumption
<1>3. a = r
  BY <1>2, Apart
<1> QED BY <1>1, <1>3

\* Adding laps does not change the remainder.
LEMMA Laps ==
  ASSUME NEW a \in Int, NEW q \in Int
  PROVE  (Modulus * q + a) % Modulus = a % Modulus
<1>1. PICK p \in Int, r \in 0..(Modulus - 1) : a = Modulus * p + r /\ a % Modulus = r
  BY Split
<1> DEFINE b == Modulus * q + a
<1>2. b \in Int /\ Modulus \in Int /\ Modulus > 1 /\ Modulus * p \in Int /\ Modulus * q \in Int
  BY ModulusAssumption
<1>3. b = Modulus * (q + p) + r
  BY <1>1, <1>2
<1> HIDE DEF b
<1>4. PICK k \in Int, s \in 0..(Modulus - 1) : b = Modulus * k + s /\ b % Modulus = s
  BY <1>2, Split
<1> DEFINE m == q + p
<1>5. m \in Int /\ Modulus * m + r = Modulus * k + s /\ r \in Int /\ s \in Int
      /\ r - s < Modulus /\ s - r < Modulus
  BY <1>2, <1>3, <1>4
<1> HIDE DEF m
<1>6. r = s
  BY <1>5, Apart
<1> QED BY <1>1, <1>4, <1>6 DEF b


\* The slot that the n-th element goes through.
Slot(n) == (n - 1) % Modulus

LEMMA SlotIn ==
  ASSUME NEW n \in Int
  PROVE  Slot(n) \in Index
<1>1. n - 1 \in Int
  OBVIOUS
<1> QED BY <1>1, InRing DEF Slot

LEMMA SlotSame ==
  ASSUME NEW m \in Int, NEW n \in Int, Slot(m) = Slot(n),
         m - n < Modulus, n - m < Modulus
  PROVE  m = n
<1> DEFINE a == m - 1
           b == n - 1
<1>1. a \in Int /\ b \in Int /\ a % Modulus = b % Modulus
      /\ a - b < Modulus /\ b - a < Modulus
  BY ModulusAssumption DEF Slot
<1> HIDE DEF a, b
<1>2. a = b
  BY <1>1, Same
<1> QED BY <1>2 DEF a, b

LEMMA SlotLap ==
  ASSUME NEW n \in Int
  PROVE  Slot(n + Modulus) = Slot(n)
<1> DEFINE a == n - 1
<1>1. a \in Int /\ (n + Modulus) - 1 = Modulus * 1 + a
  BY ModulusAssumption
<1> HIDE DEF a
<1>2. (Modulus * 1 + a) % Modulus = a % Modulus
  BY <1>1, Laps
<1> QED BY <1>1, <1>2 DEF Slot, a

\* The next index is the slot of the next element.
LEMMA SlotSucc ==
  ASSUME NEW n \in Int
  PROVE  Succ(Slot(n)) = Slot(n + 1)
<1> DEFINE a == n - 1
<1>0. a \in Int /\ (n + 1) - 1 = a + 1
  OBVIOUS
<1> HIDE DEF a
<1>1. PICK p \in Int, r \in 0..(Modulus - 1) : a = Modulus * p + r /\ a % Modulus = r
  BY <1>0, Split
<1> DEFINE c == r + 1
<1>2. c \in Int /\ a + 1 = Modulus * p + c
  BY <1>0, <1>1, ModulusAssumption
<1>3. (Modulus * p + c) % Modulus = c % Modulus
  <2> HIDE DEF c
  <2> QED BY <1>2, Laps
<1> QED BY <1>0, <1>1, <1>2, <1>3 DEF Succ, Slot, a

\* Unsigned subtraction gives the number of elements between two indices.
LEMMA SlotDistance ==
  ASSUME NEW m \in Int, NEW n \in Int, n <= m, m - n < Modulus
  PROVE  Distance(Slot(m), Slot(n)) = m - n
<1> DEFINE a == m - 1
           b == n - 1
<1>0. a \in Int /\ b \in Int /\ a - b = m - n
  OBVIOUS
<1>1. PICK p \in Int, r \in 0..(Modulus - 1) : a = Modulus * p + r /\ a % Modulus = r
  BY <1>0, Split
<1>2. PICK q \in Int, s \in 0..(Modulus - 1) : b = Modulus * q + s /\ b % Modulus = s
  BY <1>0, Split
<1> HIDE DEF a, b
<1> DEFINE k == q - p
           d == m - n
           e == r - s
<1>3. Modulus * p \in Int /\ Modulus * q \in Int /\ Modulus \in Int /\ Modulus > 1
      /\ Modulus * k = Modulus * q - Modulus * p
  BY ModulusAssumption
<1>4. k \in Int /\ d \in Int /\ e = Modulus * k + d /\ d \in 0..(Modulus - 1)
  BY <1>0, <1>1, <1>2, <1>3
<1> HIDE DEF k, d
<1>5. e % Modulus = d
  BY <1>4, Laps, Small
<1> QED BY <1>1, <1>2, <1>5 DEF Distance, Slot, a, b, d

-----------------------------------------------------------------------------
(* The inductive invariant.  h is the number of elements that head_ has *)
(* passed, w of those that were won: one more while the winner's store of     *)
(* head_ is in its buffer.  An index is the slot of the next element.         *)

Stores == [to : {"none", "item", "head"}, at : Index, val : Index]
Pcs == {"idle", "full", "flag", "reserve", "write", "publish", "own_item",
        "own_head", "own_claim", "low", "head", "item", "claim", "read", "take"}
Calls == [op : {"none", "push", "force", "pop"},
          pc : Pcs,
          cur : Index, ready : BOOLEAN, low : Index, val : Int, tick : Int,
          store : Stores]
Cells == [data : Int, flag : Index \cup {invalid_index}]

Typed ==
  /\ flag \in Index /\ head \in Index /\ tail \in Index
  /\ block \in [Index -> Cells] /\ thread \in [Threads -> Calls]
  /\ reserved \in Nat /\ popped \in Seq(Int)
  /\ history \subseteq {"lapped", "mismarked"}

\* The indices are the counters modulo Modulus, and less than a lap apart.
Counters(h, w) ==
  /\ flag = Slot(reserved + 1) /\ tail = Slot(Len(popped) + 1)
  /\ head = Slot(h + 1)
  /\ Len(popped) <= h /\ h <= w /\ w <= h + 1 /\ w <= reserved
  /\ reserved - Len(popped) < Modulus
  /\ reserved = Len(popped) \/ reserved - Len(popped) < MaxSize

\* The element that t has reserved and not made ready in the memory.
Holding(t) ==
  thread[t].pc \in {"write", "publish"} \/ thread[t].store.to = "item"
Owned(t) ==
  IF thread[t].store.to = "item" THEN block[thread[t].store.at].data
  ELSE thread[t].tick

\* An element that was won stays in its slot.  The others are ready or held.
Won(w) ==
  \A n \in (Len(popped) + 1)..w :
    block[Slot(n)].data = n /\ block[Slot(n)].flag # Slot(n)
Coming(w) ==
  \A n \in (w + 1)..reserved :
    \/ block[Slot(n)].data = n /\ block[Slot(n)].flag = Slot(n)
    \/ \E t \in Threads : Holding(t) /\ Owned(t) = n
ReadyOnly(w) ==
  \A i \in Index :
    block[i].flag = i
      => block[i].data \in (w + 1)..reserved /\ i = Slot(block[i].data)

\* Who holds an element, alone, writes it into its slot before it is ready.
Holder(t, w) ==
  /\ Holding(t) => /\ Owned(t) \in (w + 1)..reserved
                   /\ block[Slot(Owned(t))].flag # Slot(Owned(t))
  /\ thread[t].pc \in {"write", "publish"}
       => thread[t].store = NoStore /\ thread[t].cur = Slot(thread[t].tick)
  /\ thread[t].pc = "publish"
       => block[Slot(thread[t].tick)].data = thread[t].tick
  /\ thread[t].store.to = "item"
       => /\ thread[t].store.val = thread[t].store.at
          /\ thread[t].store.at = Slot(block[thread[t].store.at].data)
  /\ thread[t].store.to = "none" => thread[t].store = NoStore
Alone ==
  \A t, u \in Threads : Holding(t) /\ Holding(u) /\ Owned(t) = Owned(u) => t = u

\* One buffer holds the store of head_ while there is one to come.
Winner(h, w) ==
  /\ \A t \in Threads : thread[t].store.to = "head"
       => w = h + 1 /\ thread[t].store.val = Slot(w + 1)
  /\ \A t, u \in Threads :
       thread[t].store.to = "head" /\ thread[u].store.to = "head" => t = u
  /\ w = h + 1 => \E t \in Threads : thread[t].store.to = "head"

\* The head_ that t sees, counted.
Seen(t, h) == IF thread[t].store.to = "head" THEN h + 1 ELSE h

\* What a push and a pop know by what they have read.
Knows(t, h) ==
  /\ thread[t].pc \in {"full", "reserve"}
       => thread[t].cur = Slot(thread[t].tick + 1) /\ thread[t].tick <= reserved
  /\ (thread[t].pc = "reserve" /\ thread[t].tick = reserved)
       => /\ reserved + 1 - Len(popped) < Modulus
          /\ reserved + 1 - Len(popped) < MaxSize
  /\ thread[t].pc \in {"own_item", "own_head", "own_claim"}
       => thread[t].cur = Slot(thread[t].tick) /\ thread[t].tick <= reserved + 1
  /\ thread[t].pc = "own_claim" => thread[t].tick - 1 <= Seen(t, h)
  /\ thread[t].pc \in {"head", "read", "take"}
       => thread[t].low = Slot(thread[t].tick + 1) /\ thread[t].tick <= Len(popped)
  /\ thread[t].pc \in {"item", "claim"}
       => thread[t].cur = Slot(thread[t].tick) /\ thread[t].tick - 1 <= Seen(t, h)
  /\ (thread[t].pc \in {"read", "take"} /\ thread[t].tick = Len(popped))
       => Len(popped) + 1 <= Seen(t, h)
  /\ (thread[t].pc = "take" /\ thread[t].tick = Len(popped))
       => thread[t].val = Len(popped) + 1

Ring(h, w) ==
  /\ Counters(h, w) /\ Won(w) /\ Coming(w) /\ ReadyOnly(w)
  /\ (\A t \in Threads : Holder(t, w)) /\ Alone
  /\ Winner(h, w) /\ (\A t \in Threads : Knows(t, h))
  /\ \A n \in 1..Len(popped) : popped[n] = n

Inv == Typed /\ (Intact => \E h, w \in Nat : Ring(h, w))

\* Only the locals of t change.
Moved(t) ==
  /\ thread' \in [Threads -> Calls]
  /\ \A u \in Threads : u # t => thread'[u] = thread[u]

\* t goes on with the call r at pc p.
LEMMA Went ==
  ASSUME Typed, NEW t \in Threads, NEW r \in Calls, NEW p \in Pcs, Go(t, p, r)
  PROVE  /\ Moved(t)
         /\ thread'[t].pc = p /\ thread'[t].op = r.op /\ thread'[t].cur = r.cur
         /\ thread'[t].ready = r.ready /\ thread'[t].low = r.low
         /\ thread'[t].val = r.val /\ thread'[t].tick = r.tick
         /\ thread'[t].store = r.store
<1> DEFINE c == [r EXCEPT !.pc = p]
<1>1. /\ c \in Calls /\ c.pc = p /\ c.op = r.op /\ c.cur = r.cur /\ c.ready = r.ready
      /\ c.low = r.low /\ c.val = r.val /\ c.tick = r.tick /\ c.store = r.store
  BY DEF Calls
<1>2. thread' = [thread EXCEPT ![t] = c] /\ thread \in [Threads -> Calls]
  BY DEF Typed, Go
<1> HIDE DEF c
<1> QED BY <1>1, <1>2 DEF Moved

LEMMA Consts ==
  /\ 0 \in Index /\ NoStore \in Stores /\ NoStore.to = "none"
  /\ Idle \in Calls /\ Idle.pc = "idle"
  /\ \A i \in Index : Succ(i) \in Index
<1>1. 0 \in Index /\ Index \subseteq Int
  BY ModulusAssumption DEF Index
<1>2. NoStore \in Stores /\ NoStore.to = "none"
  BY <1>1 DEF NoStore, Stores
<1>3. Idle \in Calls /\ Idle.pc = "idle"
  <2> HIDE DEF NoStore
  <2> QED BY <1>1, <1>2 DEF Idle, Calls, Pcs
<1>4. ASSUME NEW i \in Index PROVE Succ(i) \in Index
  <2>1. i + 1 \in Int
    BY <1>1
  <2> QED BY <2>1, InRing DEF Succ
<1> QED BY <1>1, <1>2, <1>3, <1>4

LEMMA ThreadType ==
  ASSUME Typed, NEW t \in Threads
  PROVE  /\ thread[t] \in Calls /\ thread[t].op \in {"none", "push", "force", "pop"}
         /\ thread[t].pc \in Pcs /\ thread[t].cur \in Index /\ thread[t].low \in Index
         /\ thread[t].val \in Int /\ thread[t].tick \in Int /\ thread[t].store \in Stores
         /\ thread[t].store.at \in Index /\ thread[t].store.val \in Index
         /\ thread[t].store.to \in {"none", "item", "head"}
         /\ Fresh(t) \in Calls /\ Fresh(t).store = thread[t].store
         /\ HeadOf(t) \in Index
<1>1. thread[t] \in Calls /\ head \in Index
  BY DEF Typed
<1>2. /\ thread[t].op \in {"none", "push", "force", "pop"}
      /\ thread[t].pc \in Pcs /\ thread[t].cur \in Index /\ thread[t].low \in Index
      /\ thread[t].val \in Int /\ thread[t].tick \in Int /\ thread[t].store \in Stores
  BY <1>1 DEF Calls
<1>3. /\ thread[t].store.at \in Index /\ thread[t].store.val \in Index
      /\ thread[t].store.to \in {"none", "item", "head"}
  BY <1>2 DEF Stores
<1>4. Fresh(t) \in Calls /\ Fresh(t).store = thread[t].store
  <2>1. Idle \in Calls
    BY Consts
  <2> QED BY <1>2, <2>1 DEF Fresh, Calls
<1>5. HeadOf(t) \in Index
  BY <1>1, <1>3 DEF HeadOf
<1> QED BY <1>1, <1>2, <1>3, <1>4, <1>5

LEMMA Returned ==
  ASSUME Typed, NEW t \in Threads, Return(t)
  PROVE  Moved(t) /\ thread'[t].pc = "idle" /\ thread'[t].store = thread[t].store
<1> DEFINE c == [Idle EXCEPT !.store = thread[t].store]
<1>1. Idle \in Calls /\ Idle.pc = "idle" /\ thread[t].store \in Stores
  BY Consts, ThreadType
<1>2. c \in Calls /\ c.pc = "idle" /\ c.store = thread[t].store
  <2> HIDE DEF Idle
  <2> QED BY <1>1 DEF Calls
<1>3. thread' = [thread EXCEPT ![t] = c] /\ thread \in [Threads -> Calls]
  BY DEF Return, Typed
<1> HIDE DEF c
<1> QED BY <1>2, <1>3 DEF Moved

LEMMA PopReturned ==
  ASSUME Typed, NEW t \in Threads, PopReturn(t)
  PROVE  /\ Moved(t) /\ thread'[t].pc \in {"idle", "flag"}
         /\ thread'[t].store = thread[t].store
<1>1. CASE Return(t)
  BY <1>1, Returned
<1>2. CASE Go(t, "flag", Fresh(t))
  BY <1>2, ThreadType, Went DEF Pcs
<1> QED BY <1>1, <1>2 DEF PopReturn

\* A call begins with what it loads, at the pc p.
LEMMA PushLoads ==
  ASSUME Typed, NEW t \in Threads,
         PushFlag(t) \/ PushRetry(t) \/ PushCall(t, "push") \/ PushCall(t, "force")
  PROVE  /\ Moved(t) /\ thread'[t].store = thread[t].store
         /\ thread[t].pc \in {"flag", "reserve", "idle"}
         /\ thread'[t].pc = "full" /\ thread'[t].cur = flag
         /\ thread'[t].tick = reserved
<1>1. thread[t] \in Calls /\ flag \in Index /\ reserved \in Int /\ "full" \in Pcs
  BY ThreadType DEF Typed, Pcs
<1>2. CASE PushFlag(t) \/ PushRetry(t)
  <2> DEFINE r == [thread[t] EXCEPT !.cur = flag, !.tick = reserved]
  <2>1. /\ r \in Calls /\ r.cur = flag /\ r.tick = reserved
        /\ r.store = thread[t].store
    BY <1>1 DEF Calls
  <2>2. Go(t, "full", r)
    BY <1>2 DEF PushFlag, PushRetry
  <2> HIDE DEF r
  <2> QED BY <1>1, <1>2, <2>1, <2>2, Went DEF PushFlag, PushRetry, At
<1>3. ASSUME NEW op \in {"push", "force"}, PushCall(t, op)
      PROVE  /\ Moved(t) /\ thread'[t].store = thread[t].store
             /\ thread[t].pc = "idle"
             /\ thread'[t].pc = "full" /\ thread'[t].cur = flag
             /\ thread'[t].tick = reserved
  <2> DEFINE r == [thread[t] EXCEPT !.op = op, !.cur = flag, !.tick = reserved]
  <2>1. /\ r \in Calls /\ r.cur = flag /\ r.tick = reserved
        /\ r.store = thread[t].store
    BY <1>1 DEF Calls
  <2>2. Go(t, "full", r) /\ At(t, "idle")
    BY <1>3 DEF PushCall
  <2> HIDE DEF r
  <2> QED BY <1>1, <2>1, <2>2, Went DEF At
<1> QED BY <1>2, <1>3

LEMMA PushFulls ==
  ASSUME Typed, NEW t \in Threads, PushFull(t)
  PROVE  /\ Moved(t) /\ thread'[t].store = thread[t].store
         /\ thread'[t].pc \in {"idle", "low", "reserve"}
         /\ thread'[t].pc = "reserve" => /\ ~Full(Succ(thread[t].cur), tail)
                                         /\ thread'[t].cur = thread[t].cur
                                         /\ thread'[t].tick = thread[t].tick
<1>1. thread[t] \in Calls /\ Fresh(t) \in Calls /\ Fresh(t).store = thread[t].store
  BY ThreadType
<1>2. \/ ~Full(Succ(thread[t].cur), tail) /\ Go(t, "reserve", thread[t])
      \/ Return(t)
      \/ Go(t, "low", Fresh(t))
  BY DEF PushFull
<1>3. CASE ~Full(Succ(thread[t].cur), tail) /\ Go(t, "reserve", thread[t])
  BY <1>1, <1>3, Went DEF Pcs
<1>4. CASE Return(t)
  BY <1>4, Returned
<1>5. CASE Go(t, "low", Fresh(t))
  BY <1>1, <1>5, Went DEF Pcs
<1> QED BY <1>2, <1>3, <1>4, <1>5

LEMMA PushReserves ==
  ASSUME Typed, NEW t \in Threads, PushReserve(t)
  PROVE  /\ Moved(t) /\ thread'[t].store = thread[t].store
         /\ thread'[t].pc = "write" /\ thread'[t].cur = thread[t].cur
         /\ thread'[t].tick = reserved + 1
<1> DEFINE r == [thread[t] EXCEPT !.tick = reserved + 1]
<1>1. thread[t] \in Calls /\ reserved \in Nat
  BY ThreadType DEF Typed
<1>2. /\ r \in Calls /\ r.cur = thread[t].cur /\ r.tick = reserved + 1
      /\ r.store = thread[t].store
  BY <1>1 DEF Calls
<1>3. Go(t, "write", r)
  BY DEF PushReserve
<1> HIDE DEF r
<1> QED BY <1>2, <1>3, Went DEF Pcs

LEMMA PushWrites ==
  ASSUME Typed, NEW t \in Threads, PushWrite(t)
  PROVE  /\ Moved(t) /\ thread'[t].store = thread[t].store
         /\ thread'[t].pc = "publish" /\ thread'[t].cur = thread[t].cur
         /\ thread'[t].tick = thread[t].tick
  BY ThreadType, Went DEF PushWrite, Pcs

LEMMA PushPublishes ==
  ASSUME Typed, NEW t \in Threads, PushPublish(t)
  PROVE  /\ Moved(t) /\ thread'[t].pc = "own_item"
         /\ thread'[t].cur = thread[t].cur /\ thread'[t].tick = thread[t].tick
         /\ thread'[t].store = [to |-> "item", at |-> thread[t].cur,
                                val |-> thread[t].cur]
<1> DEFINE s == [to |-> "item", at |-> thread[t].cur, val |-> thread[t].cur]
           r == [thread[t] EXCEPT !.store = s]
<1>1. thread[t] \in Calls /\ thread[t].cur \in Index
  BY ThreadType
<1>2. s \in Stores
  BY <1>1 DEF Stores
<1>3. Go(t, "own_item", r)
  BY DEF PushPublish
<1> HIDE DEF s
<1>4. /\ r \in Calls /\ r.cur = thread[t].cur /\ r.tick = thread[t].tick /\ r.store = s
  BY <1>1, <1>2 DEF Calls
<1> HIDE DEF r
<1>5. Moved(t) /\ thread'[t].pc = "own_item"
      /\ thread'[t].cur = thread[t].cur /\ thread'[t].tick = thread[t].tick
      /\ thread'[t].store = s
  BY <1>3, <1>4, Went DEF Pcs
<1> QED BY <1>5 DEF s

LEMMA PushLooks ==
  ASSUME Typed, NEW t \in Threads, PushOwnItem(t) \/ PushOwnHead(t)
  PROVE  /\ Moved(t) /\ thread'[t].store = thread[t].store
         /\ thread[t].pc \in {"own_item", "own_head"}
         /\ thread'[t].pc \in {"own_head", "own_claim", "idle"}
         /\ thread'[t].pc \in {"own_head", "own_claim"}
              => thread'[t].cur = thread[t].cur /\ thread'[t].tick = thread[t].tick
         /\ thread'[t].pc = "own_claim" => thread[t].cur = HeadOf(t)
<1>1. thread[t] \in Calls
  BY ThreadType
<1>2. CASE PushOwnItem(t)
  <2> DEFINE b == (FlagOf(t, thread[t].cur) = thread[t].cur)
             r == [thread[t] EXCEPT !.ready = b]
  <2>1. Go(t, "own_head", r)
        /\ thread[t].pc = "own_item"
    BY <1>2 DEF PushOwnItem, At
  <2>2. b \in BOOLEAN
    OBVIOUS
  <2> HIDE DEF b
  <2>3. /\ r \in Calls /\ r.cur = thread[t].cur /\ r.tick = thread[t].tick
        /\ r.store = thread[t].store
    BY <1>1, <2>2 DEF Calls
  <2> HIDE DEF r
  <2> QED BY <2>1, <2>3, Went DEF Pcs
<1>3. CASE PushOwnHead(t)
  <2> DEFINE r == [thread[t] EXCEPT !.ready = FALSE]
  <2>1. /\ thread[t].pc = "own_head"
        /\ \/ Return(t)
           \/ /\ thread[t].cur = HeadOf(t)
              /\ Go(t, "own_claim", r)
    BY <1>3 DEF PushOwnHead, At
  <2>2. /\ r \in Calls /\ r.cur = thread[t].cur /\ r.tick = thread[t].tick
        /\ r.store = thread[t].store
    BY <1>1 DEF Calls
  <2> HIDE DEF r
  <2>3. CASE Return(t)
    BY <2>1, <2>3, Returned
  <2>4. CASE /\ thread[t].cur = HeadOf(t)
             /\ Go(t, "own_claim", r)
    BY <2>1, <2>2, <2>4, Went DEF Pcs
  <2> QED BY <2>1, <2>3, <2>4
<1> QED BY <1>2, <1>3

\* t has won slot i: its store of head_ is in the buffer.
WinsSlot(t, i) ==
  /\ Drained(t) /\ block[i].flag = i
  /\ thread'[t].store = HeadStore(i)
  /\ UNCHANGED <<flag, head, tail, reserved, popped>>

LEMMA HeadStores ==
  ASSUME NEW i \in Index
  PROVE  HeadStore(i) \in Stores /\ HeadStore(i).to = "head" /\ HeadStore(i).val = Succ(i)
<1>1. 0 \in Index /\ Succ(i) \in Index
  BY Consts
<1> QED BY <1>1 DEF HeadStore, Stores

LEMMA PushClaims ==
  ASSUME Typed, NEW t \in Threads, PushOwnClaim(t)
  PROVE  /\ Moved(t) /\ thread[t].pc = "own_claim"
         /\ \/ /\ Claim(t, thread[t].cur, invalid_index) /\ WinsSlot(t, thread[t].cur)
               /\ thread'[t].pc = "own_item" /\ thread'[t].cur = Succ(thread[t].cur)
               /\ thread'[t].tick = thread[t].tick + 1
            \/ /\ thread'[t].pc = "idle" /\ thread'[t].store = thread[t].store
               /\ UNCHANGED <<flag, head, tail, block, reserved, popped, history>>
<1> DEFINE i == thread[t].cur
           s == HeadStore(i)
           j == Succ(i)
           k == thread[t].tick + 1
           r == [thread[t] EXCEPT !.store = s, !.cur = j, !.tick = k]
<1>1. /\ thread[t] \in Calls /\ i \in Index /\ thread[t].tick \in Int
      /\ thread[t].pc = "own_claim"
  BY ThreadType DEF PushOwnClaim, At
<1>2. s \in Stores /\ j \in Index /\ k \in Int
  BY <1>1, Consts, HeadStores
<1>3. CASE Claim(t, i, invalid_index) /\ Go(t, "own_item", r)
  <2> HIDE DEF s, j, k
  <2>1. /\ r \in Calls /\ r.cur = j /\ r.tick = k /\ r.store = s
    BY <1>1, <1>2 DEF Calls
  <2> HIDE DEF r
  <2>2. /\ Moved(t) /\ thread'[t].pc = "own_item" /\ thread'[t].cur = j
        /\ thread'[t].tick = k /\ thread'[t].store = s
    BY <1>3, <2>1, Went DEF Pcs
  <2>3. WinsSlot(t, i)
    BY <1>3, <2>2 DEF WinsSlot, Claim, Claims, s
  <2> QED BY <1>1, <1>3, <2>2, <2>3 DEF j, k
<1>4. CASE Return(t) /\ UNCHANGED <<flag, head, tail, block, reserved, popped, history>>
  BY <1>1, <1>4, Returned
<1> QED BY <1>3, <1>4 DEF PushOwnClaim

LEMMA PopLoads ==
  ASSUME Typed, NEW t \in Threads, PopCall(t) \/ PopLow(t) \/ PopTakeFails(t)
  PROVE  /\ Moved(t) /\ thread'[t].store = thread[t].store
         /\ thread[t].pc \in {"idle", "low", "take"}
         /\ thread'[t].pc = "head" /\ thread'[t].low = tail
         /\ thread'[t].tick = Len(popped)
<1>1. /\ thread[t] \in Calls /\ Fresh(t) \in Calls /\ tail \in Index
      /\ Len(popped) \in Int /\ Fresh(t).store = thread[t].store
  BY ThreadType DEF Typed
<1>2. CASE PopCall(t)
  <2> DEFINE r == [thread[t] EXCEPT !.op = "pop", !.low = tail, !.tick = Len(popped)]
  <2>1. /\ r \in Calls /\ r.low = tail /\ r.tick = Len(popped)
        /\ r.store = thread[t].store
    BY <1>1 DEF Calls
  <2>2. Go(t, "head", r) /\ thread[t].pc = "idle"
    BY <1>2 DEF PopCall, At
  <2> HIDE DEF r
  <2> QED BY <2>1, <2>2, Went DEF Pcs
<1>3. CASE PopLow(t) \/ PopTakeFails(t)
  <2> DEFINE r == [Fresh(t) EXCEPT !.low = tail, !.tick = Len(popped)]
  <2>1. /\ r \in Calls /\ r.low = tail /\ r.tick = Len(popped)
        /\ r.store = thread[t].store
    BY <1>1 DEF Calls
  <2>2. Go(t, "head", r) /\ thread[t].pc \in {"low", "take"}
    BY <1>3 DEF PopLow, PopTakeFails, At
  <2> HIDE DEF r
  <2> QED BY <2>1, <2>2, Went DEF Pcs
<1> QED BY <1>2, <1>3

LEMMA PopHeads ==
  ASSUME Typed, NEW t \in Threads, PopHead(t)
  PROVE  /\ Moved(t) /\ thread'[t].store = thread[t].store /\ thread[t].pc = "head"
         /\ \/ /\ thread'[t].pc = "item" /\ thread'[t].cur = HeadOf(t)
               /\ thread'[t].tick = ElementAt(HeadOf(t))
            \/ /\ thread'[t].pc = "read" /\ thread[t].low # HeadOf(t)
               /\ thread'[t].low = thread[t].low /\ thread'[t].tick = thread[t].tick
<1> DEFINE h == HeadOf(t)
           e == ElementAt(h)
           r == [Fresh(t) EXCEPT !.cur = h, !.tick = e]
<1>1. /\ thread[t] \in Calls /\ Fresh(t) \in Calls /\ h \in Index
      /\ Fresh(t).store = thread[t].store /\ thread[t].pc = "head"
  BY ThreadType DEF PopHead, At
<1>2. e \in Int
  <2>1. flag - h \in Int /\ reserved \in Int
    BY <1>1, ModulusAssumption DEF Typed, Index
  <2>2. Distance(flag, h) \in Int
    BY <2>1, InRing, ModulusAssumption DEF Distance, Index
  <2> HIDE DEF h
  <2> QED BY <2>1, <2>2 DEF ElementAt
<1>3. \/ Go(t, "item", r)
      \/ thread[t].low # h /\ Go(t, "read", thread[t])
  BY DEF PopHead
<1> HIDE DEF h, e
<1>4. /\ r \in Calls /\ r.cur = h /\ r.tick = e /\ r.store = thread[t].store
  BY <1>1, <1>2 DEF Calls
<1> HIDE DEF r
<1>5. CASE Go(t, "item", r)
  <2>1. /\ Moved(t) /\ thread'[t].pc = "item" /\ thread'[t].cur = h
        /\ thread'[t].tick = e /\ thread'[t].store = thread[t].store
    BY <1>4, <1>5, Went DEF Pcs
  <2> QED BY <1>1, <2>1 DEF h, e
<1>6. CASE thread[t].low # h /\ Go(t, "read", thread[t])
  <2>1. /\ Moved(t) /\ thread'[t].pc = "read" /\ thread'[t].low = thread[t].low
        /\ thread'[t].tick = thread[t].tick /\ thread'[t].store = thread[t].store
    BY <1>1, <1>6, Went DEF Pcs
  <2> QED BY <1>1, <1>6, <2>1 DEF h
<1> QED BY <1>3, <1>5, <1>6

LEMMA PopItems ==
  ASSUME Typed, NEW t \in Threads, PopItem(t)
  PROVE  /\ Moved(t) /\ thread'[t].store = thread[t].store /\ thread[t].pc = "item"
         /\ \/ /\ thread'[t].pc = "claim" /\ thread'[t].cur = thread[t].cur
               /\ thread'[t].tick = thread[t].tick
            \/ thread'[t].pc \in {"idle", "flag"}
<1>1. thread[t] \in Calls /\ thread[t].pc = "item"
  BY ThreadType DEF PopItem, At
<1>2. CASE Go(t, "claim", thread[t])
  BY <1>1, <1>2, Went DEF Pcs
<1>3. CASE PopReturn(t)
  BY <1>1, <1>3, PopReturned
<1> QED BY <1>2, <1>3 DEF PopItem

LEMMA PopClaimed ==
  ASSUME Typed, NEW t \in Threads, PopClaim(t)
  PROVE  /\ Moved(t) /\ thread[t].pc = "claim" /\ thread'[t].pc = "low"
         /\ Claim(t, thread[t].cur, size_limit) /\ WinsSlot(t, thread[t].cur)
<1> DEFINE i == thread[t].cur
           s == HeadStore(i)
           r == [Fresh(t) EXCEPT !.store = s]
<1>1. Fresh(t) \in Calls /\ i \in Index /\ s \in Stores
  BY ThreadType, HeadStores
<1>2. thread[t].pc = "claim" /\ Claim(t, i, size_limit) /\ Go(t, "low", r)
  BY DEF PopClaim, At
<1> HIDE DEF s
<1>3. r \in Calls /\ r.store = s
  BY <1>1 DEF Calls
<1> HIDE DEF r
<1>4. Moved(t) /\ thread'[t].pc = "low" /\ thread'[t].store = s
  BY <1>2, <1>3, Went DEF Pcs
<1>5. WinsSlot(t, i)
  BY <1>2, <1>4 DEF WinsSlot, Claim, Claims, s
<1> QED BY <1>2, <1>4, <1>5

LEMMA PopClaimFailed ==
  ASSUME Typed, NEW t \in Threads, PopClaimFails(t)
  PROVE  /\ Moved(t) /\ thread'[t].store = thread[t].store /\ thread[t].pc = "claim"
         /\ thread'[t].pc = "low"
  BY ThreadType, Went DEF PopClaimFails, At, Pcs

LEMMA PopReads ==
  ASSUME Typed, NEW t \in Threads, PopRead(t)
  PROVE  /\ Moved(t) /\ thread'[t].store = thread[t].store /\ thread[t].pc = "read"
         /\ thread'[t].pc = "take" /\ thread'[t].low = thread[t].low
         /\ thread'[t].tick = thread[t].tick
         /\ thread'[t].val = block[thread[t].low].data
<1> DEFINE v == block[thread[t].low].data
           r == [thread[t] EXCEPT !.val = v]
<1>1. thread[t] \in Calls /\ thread[t].low \in Index
  BY ThreadType
<1>2. v \in Int
  BY <1>1 DEF Typed, Cells
<1>3. Go(t, "take", r) /\ thread[t].pc = "read"
  BY DEF PopRead, At
<1> HIDE DEF v
<1>4. /\ r \in Calls /\ r.low = thread[t].low /\ r.tick = thread[t].tick
      /\ r.store = thread[t].store /\ r.val = v
  BY <1>1, <1>2 DEF Calls
<1> HIDE DEF r
<1>5. /\ Moved(t) /\ thread'[t].pc = "take" /\ thread'[t].low = thread[t].low
      /\ thread'[t].tick = thread[t].tick /\ thread'[t].store = thread[t].store
      /\ thread'[t].val = v
  BY <1>3, <1>4, Went DEF Pcs
<1> QED BY <1>3, <1>5 DEF v

LEMMA Drains ==
  ASSUME Typed, NEW t \in Threads, Drain(t)
  PROVE  /\ Moved(t) /\ thread'[t].store = NoStore /\ thread'[t].pc = thread[t].pc
         /\ thread'[t].cur = thread[t].cur /\ thread'[t].low = thread[t].low
         /\ thread'[t].val = thread[t].val /\ thread'[t].tick = thread[t].tick
<1> DEFINE r == [thread[t] EXCEPT !.store = NoStore]
<1>1. thread[t] \in Calls /\ NoStore \in Stores /\ thread \in [Threads -> Calls]
  BY Consts, ThreadType DEF Typed
<1>2. thread' = [thread EXCEPT ![t] = r]
  BY DEF Drain
<1>3. /\ r \in Calls /\ r.store = NoStore /\ r.pc = thread[t].pc
      /\ r.cur = thread[t].cur /\ r.low = thread[t].low
      /\ r.val = thread[t].val /\ r.tick = thread[t].tick
  <2> HIDE DEF NoStore
  <2> QED BY <1>1 DEF Calls
<1> HIDE DEF r
<1> QED BY <1>1, <1>2, <1>3 DEF Moved

\* Every variable keeps its type, whatever happened before.
LEMMA TypedStep == Typed /\ [Next]_vars => Typed'
<1> SUFFICES ASSUME Typed, [Next]_vars PROVE Typed'
  OBVIOUS
<1>1. /\ flag \in Index /\ head \in Index /\ tail \in Index
      /\ block \in [Index -> Cells] /\ thread \in [Threads -> Calls]
      /\ reserved \in Nat /\ popped \in Seq(Int)
      /\ history \subseteq {"lapped", "mismarked"}
  BY DEF Typed
<1>2. \A i \in Index : Succ(i) \in Index
  BY Consts
<1>3. ASSUME NEW t, Moved(t),
             UNCHANGED <<flag, head, tail, block, reserved, popped, history>>
      PROVE  Typed'
  BY <1>1, <1>3 DEF Typed, Moved
<1>4. \A a, b : Lapped(a, b) \subseteq {"lapped", "mismarked"}
  BY DEF Lapped
<1>5. ASSUME NEW i \in Index, NEW v \in Index \cup {invalid_index}
      PROVE  [block EXCEPT ![i].flag = v] \in [Index -> Cells]
  <2> DEFINE c == [block[i] EXCEPT !.flag = v]
  <2>1. block[i] \in Cells
    BY <1>1
  <2>2. c \in Cells
    BY <2>1 DEF Cells
  <2>3. [block EXCEPT ![i].flag = v] = [block EXCEPT ![i] = c]
    OBVIOUS
  <2> HIDE DEF c
  <2> QED BY <1>1, <2>2, <2>3
<1>6. size_limit \in Index /\ invalid_index \in Index \cup {invalid_index}
  BY ModulusAssumption DEF size_limit, Index
<1>7. ASSUME NEW t \in Threads, NEW i \in Index, Moved(t), NEW m \in {size_limit, invalid_index},
             Claim(t, i, m)
      PROVE  Typed'
  <2>1. block' \in [Index -> Cells]
    BY <1>5, <1>6, <1>7 DEF Claim
  <2>2. history' \subseteq {"lapped", "mismarked"}
    BY <1>1, <1>4, <1>7 DEF Claim
  <2> QED BY <1>1, <1>7, <2>1, <2>2 DEF Claim, Moved, Typed
<1>8. CASE UNCHANGED vars
  BY <1>1, <1>8 DEF vars, Typed
<1>9. CASE \E t \in Pushers : PushCall(t, "push")
  BY <1>3, <1>9, PushLoads DEF Threads, PushCall
<1>10. CASE \E t \in Forcers : PushCall(t, "force")
  BY <1>3, <1>10, PushLoads DEF Threads, PushCall
<1>11. CASE \E t \in Poppers : PopCall(t)
  BY <1>3, <1>11, PopLoads DEF Threads, PopCall
<1>12. ASSUME NEW t \in Threads, PushStep(t) PROVE Typed'
  <2>1. CASE PushFlag(t) \/ PushRetry(t)
    BY <1>3, <2>1, PushLoads DEF PushFlag, PushRetry
  <2>2. CASE PushFull(t)
    BY <1>3, <2>2, PushFulls DEF PushFull
  <2>3. CASE PushReserve(t)
    <3>1. history' \subseteq {"lapped", "mismarked"}
      BY <1>1, <1>4, <2>3 DEF PushReserve
    <3>2. flag' \in Index /\ reserved' \in Nat
      BY <1>1, <1>2, <2>3 DEF PushReserve
    <3>3. Moved(t)
      BY <2>3, PushReserves
    <3> QED BY <1>1, <2>3, <3>1, <3>2, <3>3 DEF PushReserve, Moved, Typed
  <2>4. CASE PushWrite(t)
    <3> DEFINE i == thread[t].cur
               c == [block[i] EXCEPT !.data = thread[t].tick]
    <3>1. i \in Index /\ thread[t].tick \in Int /\ block[i] \in Cells
      BY <1>1, ThreadType
    <3>2. c \in Cells /\ block' = [block EXCEPT ![i] = c]
      BY <2>4, <3>1 DEF PushWrite, Cells
    <3> HIDE DEF c, i
    <3>3. block' \in [Index -> Cells]
      BY <1>1, <3>1, <3>2
    <3>4. Moved(t)
      BY <2>4, PushWrites
    <3> QED BY <1>1, <2>4, <3>3, <3>4 DEF PushWrite, Moved, Typed
  <2>5. CASE PushPublish(t)
    BY <1>3, <2>5, PushPublishes DEF PushPublish
  <2>6. CASE PushOwnItem(t) \/ PushOwnHead(t)
    BY <1>3, <2>6, PushLooks DEF PushOwnItem, PushOwnHead
  <2>7. CASE PushOwnClaim(t)
    BY <1>3, <1>7, <2>7, PushClaims, ThreadType
  <2> QED BY <1>12, <2>1, <2>2, <2>3, <2>4, <2>5, <2>6, <2>7 DEF PushStep
<1>13. ASSUME NEW t \in Threads, PopStep(t) PROVE Typed'
  <2>1. CASE PopLow(t) \/ PopTakeFails(t)
    BY <1>3, <2>1, PopLoads DEF PopLow, PopTakeFails
  <2>2. CASE PopHead(t)
    BY <1>3, <2>2, PopHeads DEF PopHead
  <2>3. CASE PopItem(t)
    BY <1>3, <2>3, PopItems DEF PopItem
  <2>4. CASE PopClaim(t)
    BY <1>7, <2>4, PopClaimed, ThreadType
  <2>5. CASE PopClaimFails(t)
    BY <1>3, <2>5, PopClaimFailed DEF PopClaimFails
  <2>6. CASE PopRead(t)
    BY <1>3, <2>6, PopReads DEF PopRead
  <2>7. CASE PopTake(t)
    <3>1. history' \subseteq {"lapped", "mismarked"}
      BY <1>1, <1>4, <2>7 DEF PopTake
    <3>2. tail' \in Index
      BY <1>1, <1>2, <2>7 DEF PopTake
    <3>3. popped' \in Seq(Int)
      BY <1>1, <2>7, ThreadType DEF PopTake
    <3>4. Moved(t)
      BY <2>7, PopReturned DEF PopTake
    <3> QED BY <1>1, <2>7, <3>1, <3>2, <3>3, <3>4 DEF PopTake, Moved, Typed
  <2> QED BY <1>13, <2>1, <2>2, <2>3, <2>4, <2>5, <2>6, <2>7 DEF PopStep
<1>14. ASSUME NEW t \in Threads, Drain(t) PROVE Typed'
  <2>1. thread[t].store.at \in Index /\ thread[t].store.val \in Index
    BY ThreadType
  <2>2. head' \in Index
    BY <1>1, <1>14, <2>1 DEF Drain
  <2>3. block' \in [Index -> Cells]
    BY <1>1, <1>5, <1>14, <2>1 DEF Drain
  <2>4. Moved(t)
    BY <1>14, Drains
  <2> QED BY <1>1, <1>14, <2>2, <2>3, <2>4 DEF Drain, Moved, Typed
<1> QED BY <1>8, <1>9, <1>10, <1>11, <1>12, <1>13, <1>14 DEF Next

-----------------------------------------------------------------------------
(* Steps that change the locals of a thread only. *)

LEMMA SeenFacts ==
  ASSUME Typed, NEW h \in Nat, NEW w \in Nat, Ring(h, w), NEW t \in Threads
  PROVE  /\ Len(popped) \in Nat /\ reserved \in Nat
         /\ Seen(t, h) \in Int /\ Len(popped) <= Seen(t, h) /\ Seen(t, h) <= w
         /\ Seen(t, h) <= reserved /\ HeadOf(t) = Slot(Seen(t, h) + 1)
<1>1. Counters(h, w) /\ Winner(h, w) /\ Len(popped) \in Nat /\ reserved \in Nat
  BY DEF Ring, Typed
<1>2. CASE thread[t].store.to = "head"
  <2>1. w = h + 1 /\ thread[t].store.val = Slot(w + 1)
    BY <1>1, <1>2 DEF Winner
  <2>2. Seen(t, h) = h + 1 /\ HeadOf(t) = thread[t].store.val
    BY <1>2 DEF Seen, HeadOf
  <2> QED BY <1>1, <2>1, <2>2 DEF Counters
<1>3. CASE thread[t].store.to # "head"
  <2>1. Seen(t, h) = h /\ HeadOf(t) = head
    BY <1>3 DEF Seen, HeadOf
  <2> QED BY <1>1, <2>1 DEF Counters
<1> QED BY <1>2, <1>3

LEMMA LocalStep ==
  ASSUME Typed, NEW h \in Nat, NEW w \in Nat, Ring(h, w), NEW t \in Threads,
         Moved(t), UNCHANGED <<flag, head, tail, block, reserved, popped>>,
         thread'[t].store = thread[t].store,
         thread[t].pc \notin {"write", "publish"},
         thread'[t].pc \notin {"write", "publish"},
         Knows(t, h)'
  PROVE  Ring(h, w)'
<1>1. \A u \in Threads : /\ thread'[u].store = thread[u].store
                         /\ u # t => thread'[u] = thread[u]
  BY DEF Moved
<1>2. \A u \in Threads : Holding(u)' <=> Holding(u)
  BY <1>1 DEF Holding
<1>3. \A u \in Threads : Holding(u) => Owned(u)' = Owned(u)
  BY <1>1 DEF Owned, Holding
<1>4. Counters(h, w)'
  BY DEF Ring, Counters
<1>5. Won(w)' /\ ReadyOnly(w)'
  BY DEF Ring, Won, ReadyOnly
<1>6. Coming(w)'
  <2> SUFFICES ASSUME NEW n \in (w + 1)..reserved
               PROVE  \/ block[Slot(n)].data = n /\ block[Slot(n)].flag = Slot(n)
                      \/ \E u \in Threads : Holding(u)' /\ Owned(u)' = n
    BY DEF Coming
  <2>1. \/ block[Slot(n)].data = n /\ block[Slot(n)].flag = Slot(n)
        \/ \E u \in Threads : Holding(u) /\ Owned(u) = n
    BY DEF Ring, Coming
  <2> QED BY <1>2, <1>3, <2>1
<1>7. ASSUME NEW u \in Threads PROVE Holder(u, w)'
  <2>1. Holder(u, w)
    BY DEF Ring
  <2>2. Holding(u)' => /\ Owned(u)' \in (w + 1)..reserved
                       /\ block[Slot(Owned(u)')].flag # Slot(Owned(u)')
    BY <1>2, <1>3, <2>1 DEF Holder
  <2>3. CASE u = t
    BY <1>1, <2>1, <2>2, <2>3 DEF Holder
  <2>4. CASE u # t
    BY <1>1, <2>1, <2>2, <2>4 DEF Holder
  <2> QED BY <2>3, <2>4
<1>8. Alone'
  <2>1. Alone
    BY DEF Ring
  <2> QED BY <1>2, <1>3, <2>1 DEF Alone
<1>9. Winner(h, w)'
  <2>1. Winner(h, w)
    BY DEF Ring
  <2> QED BY <1>1, <2>1 DEF Winner
<1>10. ASSUME NEW u \in Threads PROVE Knows(u, h)'
  <2>1. CASE u # t
    <3>1. Knows(u, h)
      BY DEF Ring
    <3>2. thread'[u] = thread[u] /\ Seen(u, h)' = Seen(u, h)
      BY <1>1, <2>1 DEF Seen
    <3> QED BY <3>1, <3>2 DEF Knows
  <2> QED BY <2>1
<1>11. \A n \in 1..Len(popped') : popped'[n] = n
  BY DEF Ring
<1> QED BY <1>4, <1>5, <1>6, <1>7, <1>8, <1>9, <1>10, <1>11 DEF Ring

\* A thread that is done with its call, or starts over, knows nothing.
LEMMA KnowsNothing ==
  ASSUME NEW t, NEW h, thread'[t].pc \in {"idle", "flag", "low"}
  PROVE  Knows(t, h)'
  BY DEF Knows

LEMMA PushLocal ==
  ASSUME Typed, NEW h \in Nat, NEW w \in Nat, Ring(h, w), NEW t \in Threads,
         \/ PushFlag(t) \/ PushRetry(t) \/ PushCall(t, "push") \/ PushCall(t, "force")
         \/ PushFull(t) \/ PushOwnItem(t) \/ PushOwnHead(t)
  PROVE  Ring(h, w)'
<1>0. /\ Len(popped) \in Nat /\ reserved \in Nat /\ Counters(h, w) /\ Knows(t, h)
      /\ thread[t].tick \in Int /\ Modulus \in Nat
  BY ThreadType, ModulusAssumption DEF Ring, Typed
<1>1. CASE PushFlag(t) \/ PushRetry(t) \/ PushCall(t, "push") \/ PushCall(t, "force")
  <2>1. /\ Moved(t) /\ thread'[t].store = thread[t].store
        /\ thread[t].pc \in {"flag", "reserve", "idle"}
        /\ thread'[t].pc = "full" /\ thread'[t].cur = flag
        /\ thread'[t].tick = reserved
    BY <1>1, PushLoads
  <2>2. UNCHANGED <<flag, head, tail, block, reserved, popped>>
    BY <1>1 DEF PushFlag, PushRetry, PushCall
  <2>3. Knows(t, h)'
    BY <1>0, <2>1, <2>2 DEF Knows, Counters
  <2> QED BY <2>1, <2>2, <2>3, LocalStep
<1>2. CASE PushFull(t)
  <2>1. /\ Moved(t) /\ thread'[t].store = thread[t].store
        /\ thread'[t].pc \in {"idle", "low", "reserve"}
        /\ thread'[t].pc = "reserve" => /\ ~Full(Succ(thread[t].cur), tail)
                                        /\ thread'[t].cur = thread[t].cur
                                        /\ thread'[t].tick = thread[t].tick
    BY <1>2, PushFulls
  <2>2. UNCHANGED <<flag, head, tail, block, reserved, popped>> /\ thread[t].pc = "full"
    BY <1>2 DEF PushFull, At
  <2>3. Knows(t, h)'
    <3>1. CASE thread'[t].pc # "reserve"
      BY <2>1, <3>1, KnowsNothing
    <3>2. CASE thread'[t].pc = "reserve"
      <4> DEFINE R == reserved
                 P == Len(popped)
      <4>1. thread[t].cur = Slot(thread[t].tick + 1) /\ thread[t].tick <= R
        BY <1>0, <2>2 DEF Knows
      <4>2. ASSUME thread[t].tick = R PROVE R + 1 - P < Modulus /\ R + 1 - P < MaxSize
        <5>1. /\ tail = Slot(P + 1) /\ P <= R /\ R - P < Modulus
              /\ P \in Int /\ R \in Int /\ Modulus \in Int
          BY <1>0 DEF Counters
        <5>2. Succ(thread[t].cur) = Slot(R + 2)
          <6>1. R + 1 \in Int /\ (R + 1) + 1 = R + 2
            BY <5>1
          <6> QED BY <4>1, <4>2, <6>1, SlotSucc
        <5>3. Slot(R + 2) # Slot(P + 1) /\ ~(Distance(Slot(R + 2), Slot(P + 1)) >= MaxSize)
          BY <2>1, <3>2, <5>1, <5>2 DEF Full
        <5>4. R + 1 - P # Modulus
          <6>1. ASSUME R + 1 - P = Modulus PROVE FALSE
            <7>1. R + 2 = (P + 1) + Modulus /\ P + 1 \in Int
              BY <5>1, <6>1
            <7> QED BY <5>3, <7>1, SlotLap
          <6> QED BY <6>1
        <5>5. /\ R + 2 \in Int /\ P + 1 \in Int /\ P + 1 <= R + 2
              /\ (R + 2) - (P + 1) < Modulus
          BY <5>1, <5>4
        <5> HIDE DEF R, P
        <5>6. Distance(Slot(R + 2), Slot(P + 1)) = (R + 2) - (P + 1)
          BY <5>5, SlotDistance
        <5> QED BY <5>1, <5>3, <5>4, <5>6, MaxSizeAssumption
      <4> QED BY <2>1, <2>2, <3>2, <4>1, <4>2 DEF Knows
    <3> QED BY <3>1, <3>2
  <2> QED BY <2>1, <2>2, <2>3, LocalStep
<1>3. CASE PushOwnItem(t) \/ PushOwnHead(t)
  <2>1. /\ Moved(t) /\ thread'[t].store = thread[t].store
        /\ thread[t].pc \in {"own_item", "own_head"}
        /\ thread'[t].pc \in {"own_head", "own_claim", "idle"}
        /\ thread'[t].pc \in {"own_head", "own_claim"}
             => thread'[t].cur = thread[t].cur /\ thread'[t].tick = thread[t].tick
        /\ thread'[t].pc = "own_claim" => thread[t].cur = HeadOf(t)
    BY <1>3, PushLooks
  <2>2. UNCHANGED <<flag, head, tail, block, reserved, popped>>
    BY <1>3 DEF PushOwnItem, PushOwnHead
  <2>3. Knows(t, h)'
    <3>1. CASE thread'[t].pc = "idle"
      BY <3>1, KnowsNothing
    <3>2. CASE thread'[t].pc # "idle"
      <4> DEFINE k == thread[t].tick
                 v == Seen(t, h)
      <4>1. thread[t].cur = Slot(k) /\ k <= reserved + 1
        BY <1>0, <2>1 DEF Knows
      <4>2. ASSUME thread'[t].pc = "own_claim" PROVE k - 1 <= v
        <5>1. /\ Slot(k) = Slot(v + 1) /\ v \in Int /\ k \in Int /\ Len(popped) <= v
              /\ reserved - Len(popped) < Modulus
          BY <1>0, <2>1, <4>1, <4>2, SeenFacts DEF Counters
        <5> HIDE DEF k, v
        <5>2. ASSUME k - 1 > v PROVE FALSE
          <6>1. k - (v + 1) < Modulus /\ (v + 1) - k < Modulus /\ v + 1 \in Int
            BY <1>0, <4>1, <5>1, <5>2
          <6>2. k = v + 1
            BY <5>1, <6>1, SlotSame
          <6> QED BY <5>1, <5>2, <6>2
        <5> QED BY <5>1, <5>2
      <4>3. Seen(t, h)' = Seen(t, h)
        BY <2>1 DEF Seen
      <4> QED BY <2>1, <2>2, <3>2, <4>1, <4>2, <4>3 DEF Knows
    <3> QED BY <3>1, <3>2
  <2> QED BY <2>1, <2>2, <2>3, LocalStep
<1> QED BY <1>1, <1>2, <1>3

LEMMA PopLocal ==
  ASSUME Typed, NEW h \in Nat, NEW w \in Nat, Ring(h, w), NEW t \in Threads,
         \/ PopCall(t) \/ PopLow(t) \/ PopTakeFails(t) \/ PopHead(t)
         \/ PopItem(t) \/ PopClaimFails(t) \/ PopRead(t)
  PROVE  Ring(h, w)'
<1> DEFINE v == Seen(t, h)
           P == Len(popped)
<1>0. /\ P \in Nat /\ reserved \in Nat /\ Counters(h, w) /\ Knows(t, h)
      /\ v \in Int /\ P <= v /\ v <= w /\ v <= reserved /\ HeadOf(t) = Slot(v + 1)
      /\ thread[t].tick \in Int /\ Modulus \in Nat
  BY ThreadType, SeenFacts, ModulusAssumption DEF Ring
<1>1. CASE PopCall(t) \/ PopLow(t) \/ PopTakeFails(t)
  <2>1. /\ Moved(t) /\ thread'[t].store = thread[t].store
        /\ thread[t].pc \in {"idle", "low", "take"}
        /\ thread'[t].pc = "head" /\ thread'[t].low = tail
        /\ thread'[t].tick = Len(popped)
    BY <1>1, PopLoads
  <2>2. UNCHANGED <<flag, head, tail, block, reserved, popped>>
    BY <1>1 DEF PopCall, PopLow, PopTakeFails
  <2>3. Knows(t, h)'
    BY <1>0, <2>1, <2>2 DEF Knows, Counters
  <2> QED BY <2>1, <2>2, <2>3, LocalStep
<1>2. CASE PopHead(t)
  <2>1. /\ Moved(t) /\ thread'[t].store = thread[t].store /\ thread[t].pc = "head"
        /\ \/ /\ thread'[t].pc = "item" /\ thread'[t].cur = HeadOf(t)
              /\ thread'[t].tick = ElementAt(HeadOf(t))
           \/ /\ thread'[t].pc = "read" /\ thread[t].low # HeadOf(t)
              /\ thread'[t].low = thread[t].low /\ thread'[t].tick = thread[t].tick
    BY <1>2, PopHeads
  <2>2. UNCHANGED <<flag, head, tail, block, reserved, popped>>
    BY <1>2 DEF PopHead
  <2>3. Seen(t, h)' = v
    BY <2>1 DEF Seen
  <2>4. Knows(t, h)'
    <3>1. CASE thread'[t].pc = "item"
      <4>1. ElementAt(HeadOf(t)) = v + 1
        <5> DEFINE a == reserved + 1
                   b == v + 1
        <5>1. a \in Int /\ b \in Int /\ b <= a /\ a - b < Modulus
          BY <1>0 DEF Counters
        <5>2. ElementAt(HeadOf(t)) = reserved + 1 - Distance(Slot(a), Slot(b))
          BY <1>0 DEF ElementAt, Counters
        <5> HIDE DEF a, b
        <5>3. Distance(Slot(a), Slot(b)) = a - b
          BY <5>1, SlotDistance
        <5> QED BY <1>0, <5>2, <5>3 DEF a, b
      <4>2. thread'[t].cur = Slot(v + 1) /\ thread'[t].tick = v + 1
        BY <1>0, <2>1, <3>1, <4>1
      <4> HIDE DEF v
      <4> QED BY <1>0, <2>3, <3>1, <4>2 DEF Knows
    <3>2. CASE thread'[t].pc = "read"
      <4>1. /\ thread[t].low # Slot(v + 1) /\ thread'[t].low = thread[t].low
            /\ thread'[t].tick = thread[t].tick
        BY <1>0, <2>1, <3>2
      <4>2. thread[t].low = Slot(thread[t].tick + 1) /\ thread[t].tick <= P
        BY <1>0, <2>1 DEF Knows
      <4>3. thread[t].tick = P => P + 1 <= v
        BY <1>0, <4>1, <4>2
      <4> HIDE DEF v
      <4> QED BY <2>2, <2>3, <3>2, <4>1, <4>2, <4>3 DEF Knows
    <3> QED BY <2>1, <3>1, <3>2
  <2> QED BY <2>1, <2>2, <2>4, LocalStep
<1>3. CASE PopItem(t)
  <2>1. /\ Moved(t) /\ thread'[t].store = thread[t].store /\ thread[t].pc = "item"
        /\ \/ /\ thread'[t].pc = "claim" /\ thread'[t].cur = thread[t].cur
              /\ thread'[t].tick = thread[t].tick
           \/ thread'[t].pc \in {"idle", "flag"}
    BY <1>3, PopItems
  <2>2. UNCHANGED <<flag, head, tail, block, reserved, popped>>
    BY <1>3 DEF PopItem
  <2>3. Seen(t, h)' = Seen(t, h)
    BY <2>1 DEF Seen
  <2>4. Knows(t, h)'
    BY <1>0, <2>1, <2>2, <2>3 DEF Knows
  <2> QED BY <2>1, <2>2, <2>4, LocalStep
<1>4. CASE PopClaimFails(t)
  <2>1. /\ Moved(t) /\ thread'[t].store = thread[t].store /\ thread[t].pc = "claim"
        /\ thread'[t].pc = "low"
    BY <1>4, PopClaimFailed
  <2>2. UNCHANGED <<flag, head, tail, block, reserved, popped>>
    BY <1>4 DEF PopClaimFails
  <2> QED BY <2>1, <2>2, KnowsNothing, LocalStep
<1>5. CASE PopRead(t)
  <2>1. /\ Moved(t) /\ thread'[t].store = thread[t].store /\ thread[t].pc = "read"
        /\ thread'[t].pc = "take" /\ thread'[t].low = thread[t].low
        /\ thread'[t].tick = thread[t].tick
        /\ thread'[t].val = block[thread[t].low].data
    BY <1>5, PopReads
  <2>2. UNCHANGED <<flag, head, tail, block, reserved, popped>>
    BY <1>5 DEF PopRead
  <2>3. Seen(t, h)' = v
    BY <2>1 DEF Seen
  <2>4. /\ thread[t].low = Slot(thread[t].tick + 1) /\ thread[t].tick <= P
        /\ thread[t].tick = P => P + 1 <= v
    BY <1>0, <2>1 DEF Knows
  <2>5. ASSUME thread[t].tick = P PROVE block[thread[t].low].data = P + 1
    <3>1. P + 1 \in (P + 1)..w
      BY <1>0, <2>4, <2>5
    <3>2. block[Slot(P + 1)].data = P + 1
      BY <3>1 DEF Ring, Won
    <3> QED BY <2>4, <2>5, <3>2
  <2>6. Knows(t, h)'
    <3> HIDE DEF v
    <3> QED BY <2>1, <2>2, <2>3, <2>4, <2>5 DEF Knows
  <2> QED BY <2>1, <2>2, <2>6, LocalStep
<1> QED BY <1>1, <1>2, <1>3, <1>4, <1>5

-----------------------------------------------------------------------------
(* Steps that change the ring. *)

\* The parts of the invariant, and the counters as numbers.
LEMMA RingParts ==
  ASSUME Typed, NEW h \in Nat, NEW w \in Nat, Ring(h, w)
  PROVE  /\ Counters(h, w) /\ Won(w) /\ Coming(w) /\ ReadyOnly(w) /\ Alone
         /\ Winner(h, w) /\ (\A t \in Threads : Holder(t, w) /\ Knows(t, h))
         /\ Len(popped) \in Nat /\ reserved \in Nat /\ Modulus \in Nat /\ MaxSize \in Nat
         /\ Len(popped) <= h /\ h <= w /\ w <= h + 1 /\ w <= reserved
         /\ reserved - Len(popped) < Modulus
  BY ModulusAssumption, MaxSizeAssumption DEF Ring, Counters, Typed

\* Two elements in the queue are in different slots.
LEMMA Distinct ==
  ASSUME Typed, NEW h \in Nat, NEW w \in Nat, Ring(h, w),
         NEW m \in (Len(popped) + 1)..(Len(popped) + Modulus),
         NEW n \in (Len(popped) + 1)..(Len(popped) + Modulus), Slot(m) = Slot(n)
  PROVE  m = n
<1>1. /\ Len(popped) \in Int /\ Modulus \in Int /\ m \in Int /\ n \in Int
      /\ m - n < Modulus /\ n - m < Modulus
  BY RingParts
<1> QED BY <1>1, SlotSame

\* A step of which only the thread's hold of an element is left to show: the
\* block is the same and so are the counters.
LEMMA HoldersSame ==
  ASSUME NEW t \in Threads, Moved(t), block' = block,
         Holding(t)' <=> Holding(t), Holding(t) => Owned(t)' = Owned(t)
  PROVE  \A u \in Threads : /\ Holding(u)' <=> Holding(u)
                            /\ Holding(u) => Owned(u)' = Owned(u)
<1> SUFFICES ASSUME NEW u \in Threads, u # t
             PROVE  (Holding(u)' <=> Holding(u)) /\ Owned(u)' = Owned(u)
  OBVIOUS
<1>1. thread'[u] = thread[u]
  BY DEF Moved
<1> QED BY <1>1 DEF Holding, Owned

LEMMA ReserveStep ==
  ASSUME Typed, NEW h \in Nat, NEW w \in Nat, Ring(h, w), NEW t \in Threads,
         PushReserve(t), Intact'
  PROVE  Ring(h, w)'
<1> DEFINE R == reserved
           P == Len(popped)
<1>1. /\ Counters(h, w) /\ Won(w) /\ Coming(w) /\ ReadyOnly(w) /\ Alone
      /\ Winner(h, w) /\ (\A u \in Threads : Holder(u, w) /\ Knows(u, h))
      /\ P \in Nat /\ R \in Nat /\ Modulus \in Nat /\ MaxSize \in Nat
      /\ P <= h /\ h <= w /\ w <= h + 1 /\ w <= R /\ R - P < Modulus
  BY RingParts
<1>2. /\ Moved(t) /\ thread'[t].store = thread[t].store
      /\ thread'[t].pc = "write" /\ thread'[t].cur = thread[t].cur
      /\ thread'[t].tick = R + 1
  BY PushReserves
<1>3. /\ thread[t].pc = "reserve" /\ thread[t].store = NoStore /\ flag = thread[t].cur
      /\ flag' = Succ(flag) /\ reserved' = R + 1
      /\ UNCHANGED <<head, tail, block, popped>>
  BY DEF PushReserve, At, Drained
<1>4. NoStore.to = "none"
  BY Consts
<1>5. thread[t].tick = R
  <2>1. R - thread[t].tick < Modulus
    <3>1. Lapped(R, thread[t].tick) = {}
      BY DEF PushReserve, Intact
    <3>2. thread[t].tick \in Int
      BY ThreadType
    <3> QED BY <1>1, <3>1, <3>2 DEF Lapped
  <2>2. /\ thread[t].tick \in Int /\ thread[t].tick <= R
        /\ Slot(thread[t].tick + 1) = Slot(R + 1)
    BY <1>1, <1>3, ThreadType DEF Knows, Counters
  <2> DEFINE a == thread[t].tick + 1
             b == R + 1
  <2>3. a \in Int /\ b \in Int /\ a - b < Modulus /\ b - a < Modulus /\ Slot(a) = Slot(b)
    <3>1. PICK k \in Int : k = thread[t].tick
      BY <2>2
    <3>2. PICK n \in Nat : n = R
      BY <1>1
    <3>3. k <= n /\ n - k < Modulus
      BY <2>1, <2>2, <3>1, <3>2
    <3>4. /\ k + 1 \in Int /\ n + 1 \in Int
          /\ (k + 1) - (n + 1) < Modulus /\ (n + 1) - (k + 1) < Modulus
      BY <3>3, ModulusAssumption
    <3> QED BY <2>2, <3>1, <3>2, <3>4
  <2> HIDE DEF a, b
  <2>4. a = b
    BY <2>3, SlotSame
  <2> QED BY <1>1, <2>2, <2>4 DEF a, b
<1>6. R + 1 - P < Modulus /\ R + 1 - P < MaxSize
  BY <1>1, <1>3, <1>5 DEF Knows
<1>7. ~Holding(t) /\ Holding(t)' /\ Owned(t)' = R + 1
  BY <1>2, <1>3, <1>4 DEF Holding, Owned
<1>8. ASSUME NEW u \in Threads, u # t
      PROVE  /\ thread'[u] = thread[u]
             /\ (Holding(u)' <=> Holding(u)) /\ Owned(u)' = Owned(u)
  BY <1>2, <1>3, <1>8 DEF Moved, Holding, Owned
<1>9. Counters(h, w)'
  <2>1. flag' = Slot((R + 1) + 1)
    <3>1. R + 1 \in Int /\ flag = Slot(R + 1)
      BY <1>1 DEF Counters
    <3> QED BY <1>3, <3>1, SlotSucc
  <2> HIDE DEF R, P
  <2>2. /\ reserved' = R + 1 /\ Len(popped') = P /\ tail' = tail /\ head' = head
    BY <1>3 DEF P
  <2>3. /\ tail = Slot(P + 1) /\ head = Slot(h + 1)
    BY <1>1 DEF Counters, P
  <2> QED BY <1>1, <1>6, <2>1, <2>2, <2>3 DEF Counters
<1>10. Won(w)'
  BY <1>1, <1>3 DEF Won
<1>11. Coming(w)'
  <2> SUFFICES ASSUME NEW n \in (w + 1)..(R + 1)
               PROVE  \/ block[Slot(n)].data = n /\ block[Slot(n)].flag = Slot(n)
                      \/ \E u \in Threads : Holding(u)' /\ Owned(u)' = n
    BY <1>3 DEF Coming
  <2>1. CASE n = R + 1
    BY <1>7, <2>1
  <2>2. CASE n # R + 1
    <3>1. n \in (w + 1)..R
      BY <1>1, <2>2
    <3>2. \/ block[Slot(n)].data = n /\ block[Slot(n)].flag = Slot(n)
          \/ \E u \in Threads : Holding(u) /\ Owned(u) = n
      BY <1>1, <3>1 DEF Coming
    <3> QED BY <1>7, <1>8, <3>2
  <2> QED BY <2>1, <2>2
<1>12. ReadyOnly(w)'
  <2>1. \A n \in (w + 1)..R : n \in (w + 1)..(R + 1)
    BY <1>1
  <2> QED BY <1>1, <1>3, <2>1 DEF ReadyOnly
<1>13. block[Slot(R + 1)].flag # Slot(R + 1)
  <2> SUFFICES ASSUME block[Slot(R + 1)].flag = Slot(R + 1) PROVE FALSE
    OBVIOUS
  <2> DEFINE d == block[Slot(R + 1)].data
  <2>1. R + 1 \in Int /\ Slot(R + 1) \in Index
    BY <1>1, SlotIn
  <2>2. d \in (w + 1)..R /\ Slot(R + 1) = Slot(d)
    BY <1>1, <2>1 DEF ReadyOnly
  <2> HIDE DEF d
  <2>3. d \in (P + 1)..(P + Modulus) /\ R + 1 \in (P + 1)..(P + Modulus)
    BY <1>1, <2>2
  <2>4. d = R + 1
    BY <2>2, <2>3, Distinct
  <2> QED BY <1>1, <2>2, <2>4
<1>14. ASSUME NEW u \in Threads PROVE Holder(u, w)'
  <2>1. CASE u = t
    <3>1. R + 1 \in (w + 1)..(R + 1)
      BY <1>1
    <3>2. thread'[t].store = NoStore /\ thread'[t].cur = Slot(thread'[t].tick)
      BY <1>1, <1>2, <1>3 DEF Counters
    <3> QED BY <1>2, <1>3, <1>4, <1>7, <1>13, <2>1, <3>1, <3>2 DEF Holder
  <2>2. CASE u # t
    <3>1. Holder(u, w) /\ \A n \in (w + 1)..R : n \in (w + 1)..(R + 1)
      BY <1>1
    <3>2. /\ thread'[u] = thread[u]
          /\ (Holding(u)' <=> Holding(u)) /\ Owned(u)' = Owned(u)
      BY <1>8, <2>2
    <3> QED BY <1>3, <3>1, <3>2 DEF Holder
  <2> QED BY <2>1, <2>2
<1>15. Alone'
  <2>1. ASSUME NEW u \in Threads, u # t, Holding(u)' PROVE Owned(u)' # R + 1
    <3>1. Owned(u)' \in (w + 1)..R
      BY <1>1, <1>8, <2>1 DEF Holder
    <3> QED BY <1>1, <3>1
  <2>2. ASSUME NEW a \in Threads, NEW b \in Threads, Holding(a)', Holding(b)',
               Owned(a)' = Owned(b)'
        PROVE  a = b
    <3>1. CASE a = t \/ b = t
      BY <1>7, <2>1, <2>2, <3>1
    <3>2. CASE a # t /\ b # t
      BY <1>1, <1>8, <2>2, <3>2 DEF Alone
    <3> QED BY <3>1, <3>2
  <2> QED BY <2>2 DEF Alone
<1>16. Winner(h, w)'
  <2>1. \A u \in Threads : thread'[u].store = thread[u].store
    BY <1>2, <1>8
  <2> QED BY <1>1, <2>1 DEF Winner
<1>17. ASSUME NEW u \in Threads PROVE Knows(u, h)'
  <2>1. CASE u = t
    BY <1>2, <2>1 DEF Knows
  <2>2. CASE u # t
    <3>1. Knows(u, h) /\ thread[u].tick \in Int /\ thread'[u] = thread[u]
      BY <1>1, <1>8, <2>2, ThreadType
    <3>2. Seen(u, h)' = Seen(u, h)
      BY <3>1 DEF Seen
    <3>3. thread[u].tick <= R => thread[u].tick <= R + 1 /\ thread[u].tick # R + 1
      BY <1>1, <3>1
    <3>4. thread[u].tick <= R + 1 => thread[u].tick <= (R + 1) + 1
      BY <1>1, <3>1
    <3> QED BY <1>3, <3>1, <3>2, <3>3, <3>4 DEF Knows
  <2> QED BY <2>1, <2>2
<1>18. \A n \in 1..Len(popped') : popped'[n] = n
  BY <1>3 DEF Ring
<1> QED BY <1>9, <1>10, <1>11, <1>12, <1>14, <1>15, <1>16, <1>17, <1>18 DEF Ring

LEMMA WriteStep ==
  ASSUME Typed, NEW h \in Nat, NEW w \in Nat, Ring(h, w), NEW t \in Threads,
         PushWrite(t)
  PROVE  Ring(h, w)'
<1> DEFINE R == reserved
           P == Len(popped)
           k == thread[t].tick
           i == thread[t].cur
<1>1. /\ Counters(h, w) /\ Won(w) /\ Coming(w) /\ ReadyOnly(w) /\ Alone
      /\ Winner(h, w) /\ (\A u \in Threads : Holder(u, w) /\ Knows(u, h))
      /\ P \in Nat /\ R \in Nat /\ Modulus \in Nat
      /\ P <= h /\ h <= w /\ w <= R /\ R - P < Modulus
  BY RingParts
<1>2. /\ Moved(t) /\ thread'[t].store = thread[t].store
      /\ thread'[t].pc = "publish" /\ thread'[t].cur = i /\ thread'[t].tick = k
  BY PushWrites
<1>3. /\ thread[t].pc = "write" /\ UNCHANGED <<flag, head, tail, reserved, popped>>
      /\ block' = [block EXCEPT ![i].data = k]
  BY DEF PushWrite, At
<1>4. /\ thread[t].store = NoStore /\ NoStore.to = "none" /\ i = Slot(k)
      /\ i \in Index /\ k \in Int /\ Holding(t) /\ Owned(t) = k
      /\ k \in (w + 1)..R /\ block[i].flag # i
  <2>1. thread[t].store = NoStore /\ i = Slot(k) /\ NoStore.to = "none"
    BY <1>1, <1>3, Consts DEF Holder
  <2>2. Holding(t) /\ Owned(t) = k
    BY <1>3, <2>1 DEF Holding, Owned
  <2> QED BY <1>1, <2>1, <2>2, ThreadType DEF Holder
<1>5. /\ \A j \in Index : block'[j].flag = block[j].flag /\ (j # i => block'[j] = block[j])
      /\ block'[i].data = k
  BY <1>3, <1>4 DEF Typed, Cells
<1>6. \A n \in (P + 1)..R : Slot(n) \in Index /\ (n # k => Slot(n) # i)
  <2> SUFFICES ASSUME NEW n \in (P + 1)..R PROVE Slot(n) \in Index /\ (Slot(n) = i => n = k)
    OBVIOUS
  <2>1. n \in (P + 1)..(P + Modulus) /\ k \in (P + 1)..(P + Modulus) /\ n \in Int
    BY <1>1, <1>4
  <2> HIDE DEF k, i
  <2> QED BY <1>4, <2>1, Distinct, SlotIn
<1>7. \A n \in (w + 1)..R : n \in (P + 1)..R
  BY <1>1
<1>8. \A n \in (P + 1)..w : n \in (P + 1)..R /\ n # k
  BY <1>1, <1>4
<1> HIDE DEF k, i
<1>9. ASSUME NEW u \in Threads
      PROVE  /\ Holding(u)' <=> Holding(u)
             /\ Holding(u) => Owned(u)' = Owned(u)
             /\ thread'[u].store = thread[u].store
  <2>1. CASE u = t
    BY <1>2, <1>3, <1>4, <2>1 DEF Holding, Owned, k
  <2>2. CASE u # t
    <3>1. thread'[u] = thread[u]
      BY <1>2, <2>2 DEF Moved
    <3>2. Holding(u)' <=> Holding(u)
      BY <3>1 DEF Holding
    <3>3. ASSUME Holding(u) PROVE Owned(u)' = Owned(u)
      <4>1. CASE thread[u].store.to = "item"
        <5>1. /\ Owned(u) = block[thread[u].store.at].data
              /\ thread[u].store.at = Slot(Owned(u)) /\ Owned(u) \in (w + 1)..R
          BY <1>1, <3>3, <4>1 DEF Holder, Owned
        <5>2. Owned(u) # k
          BY <1>1, <1>4, <2>2, <3>3 DEF Alone
        <5>3. thread[u].store.at \in Index /\ thread[u].store.at # i
          BY <1>6, <1>7, <5>1, <5>2
        <5> QED BY <1>5, <3>1, <4>1, <5>3 DEF Owned
      <4>2. CASE thread[u].store.to # "item"
        BY <3>1, <4>2 DEF Owned
      <4> QED BY <4>1, <4>2
    <3> QED BY <3>1, <3>2, <3>3
  <2> QED BY <2>1, <2>2
<1>10. Counters(h, w)'
  BY <1>1, <1>3 DEF Counters
<1>11. Won(w)'
  <2> SUFFICES ASSUME NEW n \in (P + 1)..w
               PROVE  block'[Slot(n)].data = n /\ block'[Slot(n)].flag # Slot(n)
    BY <1>3 DEF Won
  <2>1. block[Slot(n)].data = n /\ block[Slot(n)].flag # Slot(n)
    BY <1>1 DEF Won
  <2>2. Slot(n) \in Index /\ Slot(n) # i
    BY <1>6, <1>8
  <2> QED BY <1>5, <2>1, <2>2
<1>12. Coming(w)'
  <2> SUFFICES ASSUME NEW n \in (w + 1)..R
               PROVE  \/ block'[Slot(n)].data = n /\ block'[Slot(n)].flag = Slot(n)
                      \/ \E u \in Threads : Holding(u)' /\ Owned(u)' = n
    BY <1>3 DEF Coming
  <2>1. CASE n = k
    BY <1>4, <1>9, <2>1
  <2>2. CASE n # k
    <3>1. Slot(n) \in Index /\ Slot(n) # i
      BY <1>6, <1>7, <2>2
    <3>2. \/ block[Slot(n)].data = n /\ block[Slot(n)].flag = Slot(n)
          \/ \E u \in Threads : Holding(u) /\ Owned(u) = n
      BY <1>1 DEF Coming
    <3> QED BY <1>5, <1>9, <3>1, <3>2
  <2> QED BY <2>1, <2>2
<1>13. ReadyOnly(w)'
  <2> SUFFICES ASSUME NEW j \in Index, block'[j].flag = j
               PROVE  block'[j].data \in (w + 1)..R /\ j = Slot(block'[j].data)
    BY <1>3 DEF ReadyOnly
  <2>1. block[j].flag = j /\ j # i
    BY <1>4, <1>5
  <2>2. block'[j] = block[j]
    BY <1>5, <2>1
  <2> QED BY <1>1, <2>1, <2>2 DEF ReadyOnly
<1>14. ASSUME NEW u \in Threads PROVE Holder(u, w)'
  <2>1. Holder(u, w) /\ (Holding(u)' <=> Holding(u))
    BY <1>1, <1>9
  <2>2. ASSUME Holding(u)'
        PROVE  /\ Owned(u)' \in (w + 1)..R
               /\ block'[Slot(Owned(u)')].flag # Slot(Owned(u)')
    <3>1. /\ Owned(u)' = Owned(u) /\ Owned(u) \in (w + 1)..R
          /\ block[Slot(Owned(u))].flag # Slot(Owned(u))
      BY <1>9, <2>1, <2>2 DEF Holder
    <3>2. Slot(Owned(u)) \in Index
      BY <1>6, <1>7, <3>1
    <3> QED BY <1>5, <3>1, <3>2
  <2>3. CASE u = t
    <3>1. thread'[t].store = NoStore /\ thread'[t].cur = Slot(thread'[t].tick)
          /\ block'[Slot(thread'[t].tick)].data = thread'[t].tick
      BY <1>2, <1>4, <1>5
    <3> QED BY <1>2, <1>3, <1>4, <2>2, <2>3, <3>1 DEF Holder
  <2>4. CASE u # t
    <3>1. thread'[u] = thread[u]
      BY <1>2, <2>4 DEF Moved
    <3>2. ASSUME thread[u].pc = "publish"
          PROVE  block'[Slot(thread[u].tick)].data = thread[u].tick
      <4>1. Holding(u) /\ thread[u].store = NoStore
        BY <2>1, <3>2 DEF Holding, Holder
      <4>2. Owned(u) = thread[u].tick
        BY <1>4, <4>1 DEF Owned
      <4>3. thread[u].tick \in (w + 1)..R /\ thread[u].tick # k
        BY <1>1, <1>4, <2>1, <2>4, <4>1, <4>2 DEF Holder, Alone
      <4>4. Slot(thread[u].tick) \in Index /\ Slot(thread[u].tick) # i
        BY <1>6, <1>7, <4>3
      <4> QED BY <1>5, <2>1, <3>2, <4>4 DEF Holder
    <3>3. ASSUME thread[u].store.to = "item"
          PROVE  /\ thread[u].store.val = thread[u].store.at
                 /\ thread[u].store.at = Slot(block'[thread[u].store.at].data)
      <4>1. Holding(u)
        BY <3>3 DEF Holding
      <4>2. Owned(u)' = Owned(u) /\ Owned(u) = block[thread[u].store.at].data
            /\ Owned(u)' = block'[thread[u].store.at].data
        BY <1>9, <3>1, <3>3, <4>1 DEF Owned
      <4> QED BY <2>1, <3>3, <4>2 DEF Holder
    <3> QED BY <1>3, <2>1, <2>2, <3>1, <3>2, <3>3 DEF Holder
  <2> QED BY <2>3, <2>4
<1>15. Alone'
  BY <1>1, <1>9 DEF Alone
<1>16. Winner(h, w)'
  BY <1>1, <1>9 DEF Winner
<1>17. ASSUME NEW u \in Threads PROVE Knows(u, h)'
  <2>1. CASE u = t
    BY <1>2, <2>1 DEF Knows
  <2>2. CASE u # t
    <3>1. Knows(u, h) /\ thread'[u] = thread[u]
      BY <1>1, <1>2, <2>2 DEF Moved
    <3>2. Seen(u, h)' = Seen(u, h)
      BY <3>1 DEF Seen
    <3> QED BY <1>3, <3>1, <3>2 DEF Knows
  <2> QED BY <2>1, <2>2
<1>18. \A n \in 1..Len(popped') : popped'[n] = n
  BY <1>3 DEF Ring
<1> QED BY <1>10, <1>11, <1>12, <1>13, <1>14, <1>15, <1>16, <1>17, <1>18 DEF Ring

LEMMA PublishStep ==
  ASSUME Typed, NEW h \in Nat, NEW w \in Nat, Ring(h, w), NEW t \in Threads,
         PushPublish(t)
  PROVE  Ring(h, w)'
<1> DEFINE k == thread[t].tick
           i == thread[t].cur
           s == [to |-> "item", at |-> i, val |-> i]
<1>1. /\ Counters(h, w) /\ Won(w) /\ Coming(w) /\ ReadyOnly(w) /\ Alone
      /\ Winner(h, w) /\ (\A u \in Threads : Holder(u, w) /\ Knows(u, h))
      /\ reserved \in Nat /\ w <= reserved
  BY RingParts
<1>2. /\ Moved(t) /\ thread'[t].pc = "own_item"
      /\ thread'[t].cur = i /\ thread'[t].tick = k /\ thread'[t].store = s
  BY PushPublishes
<1>3. /\ thread[t].pc = "publish"
      /\ UNCHANGED <<flag, head, tail, block, reserved, popped>>
  BY DEF PushPublish, At
<1>4. s.to = "item" /\ s.at = i /\ s.val = i
  OBVIOUS
<1> HIDE DEF s
<1>5. /\ thread[t].store = NoStore /\ NoStore.to = "none" /\ i = Slot(k)
      /\ Holding(t) /\ Owned(t) = k /\ k \in (w + 1)..reserved
      /\ block[i].data = k
  <2>1. /\ thread[t].store = NoStore /\ i = Slot(k) /\ NoStore.to = "none"
        /\ block[Slot(k)].data = k
    BY <1>1, <1>3, Consts DEF Holder
  <2>2. Holding(t) /\ Owned(t) = k
    BY <1>3, <2>1 DEF Holding, Owned
  <2> QED BY <1>1, <2>1, <2>2 DEF Holder
<1> HIDE DEF k, i
<1>6. Holding(t)' /\ Owned(t)' = k
  BY <1>2, <1>3, <1>4, <1>5 DEF Holding, Owned
<1>7. \A u \in Threads : /\ Holding(u)' <=> Holding(u)
                         /\ Holding(u) => Owned(u)' = Owned(u)
  BY <1>2, <1>3, <1>5, <1>6, HoldersSame
<1>8. \A u \in Threads : u # t => thread'[u] = thread[u]
  BY <1>2 DEF Moved
<1>9. Counters(h, w)' /\ Won(w)' /\ ReadyOnly(w)'
  BY <1>1, <1>3 DEF Counters, Won, ReadyOnly
<1>10. Coming(w)'
  <2> SUFFICES ASSUME NEW n \in (w + 1)..reserved
               PROVE  \/ block[Slot(n)].data = n /\ block[Slot(n)].flag = Slot(n)
                      \/ \E u \in Threads : Holding(u)' /\ Owned(u)' = n
    BY <1>3 DEF Coming
  <2> QED BY <1>1, <1>7 DEF Coming
<1>11. ASSUME NEW u \in Threads PROVE Holder(u, w)'
  <2>1. Holder(u, w)
    BY <1>1
  <2>2. Holding(u)' => /\ Owned(u)' \in (w + 1)..reserved
                       /\ block[Slot(Owned(u)')].flag # Slot(Owned(u)')
    BY <1>7, <2>1 DEF Holder
  <2>3. CASE u = t
    BY <1>2, <1>3, <1>4, <1>5, <2>2, <2>3 DEF Holder
  <2>4. CASE u # t
    BY <1>3, <1>8, <2>1, <2>2, <2>4 DEF Holder
  <2> QED BY <2>3, <2>4
<1>12. Alone'
  BY <1>1, <1>7 DEF Alone
<1>13. Winner(h, w)'
  <2>1. \A u \in Threads : thread'[u].store.to = "head" => u # t
    BY <1>2, <1>4
  <2>2. \A u \in Threads : thread[u].store.to = "head" => u # t
    BY <1>5
  <2> QED BY <1>1, <1>8, <2>1, <2>2 DEF Winner
<1>14. ASSUME NEW u \in Threads PROVE Knows(u, h)'
  <2>1. CASE u = t
    <3>1. k <= reserved + 1
      BY <1>1, <1>5
    <3> QED BY <1>2, <1>3, <1>5, <2>1, <3>1 DEF Knows
  <2>2. CASE u # t
    <3>1. Knows(u, h) /\ thread'[u] = thread[u]
      BY <1>1, <1>8, <2>2
    <3>2. Seen(u, h)' = Seen(u, h)
      BY <3>1 DEF Seen
    <3> QED BY <1>3, <3>1, <3>2 DEF Knows
  <2> QED BY <2>1, <2>2
<1>15. \A n \in 1..Len(popped') : popped'[n] = n
  BY <1>3 DEF Ring
<1> QED BY <1>9, <1>10, <1>11, <1>12, <1>13, <1>14, <1>15 DEF Ring

\* A slot is won by a thread that has seen head_ at it: the element in it is the
\* next one, and no store of head_ is on its way.
LEMMA ClaimFacts ==
  ASSUME Typed, NEW h \in Nat, NEW w \in Nat, Ring(h, w), NEW t \in Threads,
         NEW m, Claim(t, thread[t].cur, m), Intact',
         thread[t].cur = Slot(thread[t].tick), thread[t].tick - 1 <= Seen(t, h)
  PROVE  /\ thread[t].tick = w + 1 /\ w = h /\ w + 1 <= reserved
         /\ block[Slot(w + 1)].data = w + 1 /\ block[Slot(w + 1)].flag = Slot(w + 1)
         /\ m # Slot(w + 1)
<1> DEFINE i == thread[t].cur
           k == thread[t].tick
           d == block[i].data
<1>1. /\ ReadyOnly(w) /\ reserved \in Nat /\ Len(popped) \in Nat
      /\ Len(popped) <= h /\ h <= w /\ w <= reserved
      /\ Modulus \in Nat /\ reserved - Len(popped) < Modulus
      /\ i \in Index /\ k \in Int /\ i = Slot(k)
  BY RingParts, ThreadType
<1>2. Seen(t, h) = h
  BY Consts DEF Claim, Claims, Drained, Seen
<1>3. block[i].flag = i /\ Lapped(d, k) = {} /\ m # i
  BY DEF Claim, Claims, Intact
<1>4. d \in (w + 1)..reserved /\ i = Slot(d)
  BY <1>1, <1>3 DEF ReadyOnly
<1>5. k - 1 <= h
  BY <1>2
<1> HIDE DEF d, k
<1>6. d - k < Modulus
  BY <1>1, <1>3, <1>4 DEF Lapped
<1>7. d \in Int /\ k - d < Modulus
  BY <1>1, <1>4, <1>5, ModulusAssumption
<1>8. d = k
  BY <1>1, <1>4, <1>6, <1>7, SlotSame
<1>9. k = w + 1 /\ w = h /\ w + 1 <= reserved
  BY <1>1, <1>4, <1>5, <1>8
<1> QED BY <1>1, <1>3, <1>8, <1>9 DEF d, k

LEMMA ClaimStep ==
  ASSUME Typed, NEW h \in Nat, NEW w \in Nat, Ring(h, w), NEW t \in Threads,
         NEW m, Claim(t, thread[t].cur, m), WinsSlot(t, thread[t].cur), Intact',
         thread[t].cur = Slot(thread[t].tick), thread[t].tick - 1 <= Seen(t, h),
         thread[t].pc \notin {"write", "publish"},
         Moved(t), thread'[t].pc \notin {"write", "publish"}, Knows(t, h)'
  PROVE  Ring(h, w + 1)'
<1> DEFINE R == reserved
           P == Len(popped)
           i == Slot(w + 1)
<1>1. /\ Counters(h, w) /\ Won(w) /\ Coming(w) /\ ReadyOnly(w) /\ Alone
      /\ Winner(h, w) /\ (\A u \in Threads : Holder(u, w) /\ Knows(u, h))
      /\ P \in Nat /\ R \in Nat /\ Modulus \in Nat
      /\ P <= h /\ h <= w /\ w <= R /\ R - P < Modulus
  BY RingParts
<1>2. /\ thread[t].tick = w + 1 /\ w = h /\ w + 1 <= R
      /\ block[i].data = w + 1 /\ block[i].flag = i /\ m # i
      /\ thread[t].cur = i /\ i \in Index
  BY ClaimFacts, ThreadType
<1>3. UNCHANGED <<flag, head, tail, reserved, popped>>
      /\ block' = [block EXCEPT ![i].flag = m]
  BY <1>2 DEF Claim
<1>4. /\ \A j \in Index : block'[j].data = block[j].data /\ (j # i => block'[j] = block[j])
      /\ block'[i].flag = m
  BY <1>2, <1>3 DEF Typed, Cells
<1>5. /\ thread[t].store.to = "none" /\ thread'[t].store.to = "head"
      /\ thread'[t].store.val = Slot((w + 1) + 1)
  <2>1. thread[t].store = NoStore /\ thread'[t].store = HeadStore(i)
    BY <1>2 DEF WinsSlot, Drained
  <2>2. HeadStore(i).to = "head" /\ HeadStore(i).val = Succ(i)
    BY <1>2, HeadStores
  <2>3. Succ(i) = Slot((w + 1) + 1)
    <3>1. w + 1 \in Int
      OBVIOUS
    <3> QED BY <3>1, SlotSucc
  <2> QED BY <2>1, <2>2, <2>3, Consts
<1>6. \A n \in (P + 1)..R : Slot(n) \in Index /\ (n # w + 1 => Slot(n) # i)
  <2> SUFFICES ASSUME NEW n \in (P + 1)..R
               PROVE  Slot(n) \in Index /\ (Slot(n) = i => n = w + 1)
    OBVIOUS
  <2>1. n \in (P + 1)..(P + Modulus) /\ w + 1 \in (P + 1)..(P + Modulus) /\ n \in Int
    BY <1>1, <1>2
  <2> QED BY <2>1, Distinct, SlotIn
<1>7. ~Holding(t) /\ ~Holding(t)'
  BY <1>5 DEF Holding
<1> HIDE DEF i
<1>8. ASSUME NEW u \in Threads, u # t PROVE thread'[u] = thread[u]
  BY <1>8 DEF Moved
<1>9. \A u \in Threads : /\ Holding(u)' <=> Holding(u)
                         /\ Holding(u) => Owned(u)' = Owned(u)
  <2> SUFFICES ASSUME NEW u \in Threads, u # t
               PROVE  (Holding(u)' <=> Holding(u)) /\ Owned(u)' = Owned(u)
    BY <1>7
  <2>1. thread'[u] = thread[u] /\ thread[u].store.at \in Index
    BY <1>8, ThreadType
  <2> QED BY <1>4, <2>1 DEF Holding, Owned
\* The element that was won is held by nobody.
<1>10. ASSUME NEW u \in Threads, Holding(u)
       PROVE  /\ Owned(u) \in ((w + 1) + 1)..R /\ Owned(u) \in (P + 1)..R
              /\ Owned(u) # w + 1
  <2>1. Owned(u) \in (w + 1)..R /\ block[Slot(Owned(u))].flag # Slot(Owned(u))
    BY <1>1, <1>10 DEF Holder
  <2>2. Owned(u) # w + 1
    BY <1>2, <2>1 DEF i
  <2> QED BY <1>1, <2>1, <2>2
<1>11. Counters(h, w + 1)'
  <2> HIDE DEF R, P
  <2>1. /\ flag' = Slot(R + 1) /\ tail' = Slot(P + 1) /\ head' = Slot(h + 1)
        /\ reserved' = R /\ Len(popped') = P /\ (R = P \/ R - P < MaxSize)
    BY <1>1, <1>3 DEF Counters, R, P
  <2>2. h <= w + 1 /\ w + 1 <= h + 1
    BY <1>2
  <2> QED BY <1>1, <1>2, <2>1, <2>2 DEF Counters
<1>12. Won(w + 1)'
  <2> SUFFICES ASSUME NEW n \in (P + 1)..(w + 1)
               PROVE  block'[Slot(n)].data = n /\ block'[Slot(n)].flag # Slot(n)
    BY <1>3 DEF Won
  <2>1. CASE n = w + 1
    BY <1>2, <1>4, <2>1 DEF i
  <2>2. CASE n # w + 1
    <3>1. n \in (P + 1)..w /\ n \in (P + 1)..R
      BY <1>1, <2>2
    <3>2. block[Slot(n)].data = n /\ block[Slot(n)].flag # Slot(n)
      BY <1>1, <3>1 DEF Won
    <3> QED BY <1>4, <1>6, <2>2, <3>1, <3>2
  <2> QED BY <2>1, <2>2
<1>13. Coming(w + 1)'
  <2> SUFFICES ASSUME NEW n \in ((w + 1) + 1)..R
               PROVE  \/ block'[Slot(n)].data = n /\ block'[Slot(n)].flag = Slot(n)
                      \/ \E u \in Threads : Holding(u)' /\ Owned(u)' = n
    BY <1>3 DEF Coming
  <2>1. n \in (w + 1)..R /\ n \in (P + 1)..R /\ n # w + 1
    BY <1>1
  <2>2. \/ block[Slot(n)].data = n /\ block[Slot(n)].flag = Slot(n)
        \/ \E u \in Threads : Holding(u) /\ Owned(u) = n
    BY <1>1, <2>1 DEF Coming
  <2> QED BY <1>4, <1>6, <1>9, <2>1, <2>2
<1>14. ReadyOnly(w + 1)'
  <2> SUFFICES ASSUME NEW j \in Index, block'[j].flag = j
               PROVE  /\ block'[j].data \in ((w + 1) + 1)..R
                      /\ j = Slot(block'[j].data)
    BY <1>3 DEF ReadyOnly
  <2>1. j # i /\ block'[j] = block[j]
    BY <1>2, <1>4
  <2>2. block[j].data \in (w + 1)..R /\ j = Slot(block[j].data)
    BY <1>1, <2>1 DEF ReadyOnly
  <2>3. block[j].data # w + 1
    BY <2>1, <2>2 DEF i
  <2> QED BY <1>1, <2>1, <2>2, <2>3
<1>15. ASSUME NEW u \in Threads PROVE Holder(u, w + 1)'
  <2>1. Holder(u, w)
    BY <1>1
  <2>2. ASSUME Holding(u)'
        PROVE  /\ Owned(u)' \in ((w + 1) + 1)..R
               /\ block'[Slot(Owned(u)')].flag # Slot(Owned(u)')
    <3>1. /\ Owned(u)' = Owned(u) /\ Owned(u) \in ((w + 1) + 1)..R
          /\ Owned(u) \in (P + 1)..R /\ Owned(u) # w + 1
          /\ block[Slot(Owned(u))].flag # Slot(Owned(u))
      BY <1>9, <1>10, <2>1, <2>2 DEF Holder
    <3> QED BY <1>4, <1>6, <3>1
  <2>3. CASE u = t
    BY <1>3, <1>5, <1>7, <2>3 DEF Holder
  <2>4. CASE u # t
    <3>1. thread'[u] = thread[u] /\ thread[u].store.at \in Index
      BY <1>8, <2>4, ThreadType
    <3>2. ASSUME thread[u].pc = "publish"
          PROVE  block'[Slot(thread[u].tick)].data = thread[u].tick
      <4>1. Slot(thread[u].tick) \in Index
        BY SlotIn, ThreadType
      <4> QED BY <1>4, <2>1, <3>2, <4>1 DEF Holder
    <3>3. block'[thread[u].store.at].data = block[thread[u].store.at].data
      BY <1>4, <3>1
    <3> QED BY <1>3, <2>1, <2>2, <3>1, <3>2, <3>3 DEF Holder
  <2> QED BY <2>3, <2>4
<1>16. Alone'
  BY <1>1, <1>9 DEF Alone
<1>17. Winner(h, w + 1)'
  <2>1. \A u \in Threads : thread[u].store.to # "head"
    BY <1>1, <1>2 DEF Winner
  <2>2. \A u \in Threads : thread'[u].store.to = "head" => u = t
    BY <1>8, <2>1
  <2>3. w + 1 = h + 1
    BY <1>2
  <2> QED BY <1>5, <2>2, <2>3 DEF Winner
<1>18. ASSUME NEW u \in Threads PROVE Knows(u, h)'
  <2>1. CASE u = t
    BY <2>1
  <2>2. CASE u # t
    <3>1. Knows(u, h) /\ thread'[u] = thread[u]
      BY <1>1, <1>8, <2>2
    <3>2. Seen(u, h)' = Seen(u, h)
      BY <3>1 DEF Seen
    <3> QED BY <1>3, <3>1, <3>2 DEF Knows
  <2> QED BY <2>1, <2>2
<1>19. \A n \in 1..Len(popped') : popped'[n] = n
  BY <1>3 DEF Ring
<1> QED BY <1>11, <1>12, <1>13, <1>14, <1>15, <1>16, <1>17, <1>18, <1>19 DEF Ring

LEMMA PushClaimStep ==
  ASSUME Typed, NEW h \in Nat, NEW w \in Nat, Ring(h, w), NEW t \in Threads,
         PushOwnClaim(t), Intact'
  PROVE  Ring(h, w)' \/ Ring(h, w + 1)'
<1>1. /\ Moved(t) /\ thread[t].pc = "own_claim"
      /\ \/ /\ Claim(t, thread[t].cur, invalid_index) /\ WinsSlot(t, thread[t].cur)
            /\ thread'[t].pc = "own_item" /\ thread'[t].cur = Succ(thread[t].cur)
            /\ thread'[t].tick = thread[t].tick + 1
         \/ /\ thread'[t].pc = "idle" /\ thread'[t].store = thread[t].store
            /\ UNCHANGED <<flag, head, tail, block, reserved, popped, history>>
  BY PushClaims
<1>2. CASE /\ thread'[t].pc = "idle" /\ thread'[t].store = thread[t].store
           /\ UNCHANGED <<flag, head, tail, block, reserved, popped, history>>
  BY <1>1, <1>2, KnowsNothing, LocalStep
<1>3. CASE /\ Claim(t, thread[t].cur, invalid_index) /\ WinsSlot(t, thread[t].cur)
           /\ thread'[t].pc = "own_item" /\ thread'[t].cur = Succ(thread[t].cur)
           /\ thread'[t].tick = thread[t].tick + 1
  <2>1. thread[t].cur = Slot(thread[t].tick) /\ thread[t].tick - 1 <= Seen(t, h)
    BY <1>1, RingParts DEF Knows
  <2>2. thread[t].tick = w + 1 /\ w + 1 <= reserved
    BY <1>3, <2>1, ClaimFacts
  <2>3. Knows(t, h)'
    <3>1. thread'[t].cur = Slot(thread'[t].tick)
      <4>1. w + 1 \in Int
        OBVIOUS
      <4> QED BY <1>3, <2>1, <2>2, <4>1, SlotSucc
    <3>2. thread'[t].tick <= reserved' + 1
      <4>1. reserved' = reserved /\ reserved \in Nat
        BY <1>3, RingParts DEF Claim
      <4> QED BY <1>3, <2>2, <4>1
    <3> QED BY <1>3, <3>1, <3>2 DEF Knows
  <2> QED BY <1>1, <1>3, <2>1, <2>3, ClaimStep
<1> QED BY <1>1, <1>2, <1>3

LEMMA PopClaimStep ==
  ASSUME Typed, NEW h \in Nat, NEW w \in Nat, Ring(h, w), NEW t \in Threads,
         PopClaim(t), Intact'
  PROVE  Ring(h, w + 1)'
<1>1. /\ Moved(t) /\ thread[t].pc = "claim" /\ thread'[t].pc = "low"
      /\ Claim(t, thread[t].cur, size_limit) /\ WinsSlot(t, thread[t].cur)
  BY PopClaimed
<1>2. thread[t].cur = Slot(thread[t].tick) /\ thread[t].tick - 1 <= Seen(t, h)
  BY <1>1, RingParts DEF Knows
<1>3. Knows(t, h)'
  BY <1>1, KnowsNothing
<1> QED BY <1>1, <1>2, <1>3, ClaimStep

LEMMA TakeStep ==
  ASSUME Typed, NEW h \in Nat, NEW w \in Nat, Ring(h, w), NEW t \in Threads,
         PopTake(t), Intact'
  PROVE  Ring(h, w)'
<1> DEFINE R == reserved
           P == Len(popped)
           k == thread[t].tick
<1>1. /\ Counters(h, w) /\ Won(w) /\ Coming(w) /\ ReadyOnly(w) /\ Alone
      /\ Winner(h, w) /\ (\A u \in Threads : Holder(u, w) /\ Knows(u, h))
      /\ P \in Nat /\ R \in Nat /\ Modulus \in Nat /\ MaxSize \in Nat
      /\ P <= h /\ h <= w /\ w <= R /\ R - P < Modulus
  BY RingParts
<1>2. /\ Moved(t) /\ thread'[t].pc \in {"idle", "flag"}
      /\ thread'[t].store = thread[t].store
  BY PopReturned DEF PopTake
<1>3. /\ thread[t].pc = "take" /\ thread[t].store = NoStore /\ tail = thread[t].low
      /\ tail' = Succ(tail) /\ popped' = Append(popped, thread[t].val)
      /\ UNCHANGED <<flag, head, block, reserved>>
  BY DEF PopTake, At, Drained
<1>4. k = P
  <2>1. /\ k \in Int /\ k <= P /\ Slot(k + 1) = Slot(P + 1)
    BY <1>1, <1>3, ThreadType DEF Knows, Counters
  <2>2. P - k < Modulus
    <3>1. Lapped(P, k) = {}
      BY DEF PopTake, Intact
    <3> QED BY <1>1, <2>1, <3>1 DEF Lapped
  <2> DEFINE a == k + 1
             b == P + 1
  <2>3. a \in Int /\ b \in Int /\ a - b < Modulus /\ b - a < Modulus /\ Slot(a) = Slot(b)
    <3>1. PICK m \in Int : m = k
      BY <2>1
    <3>2. PICK n \in Nat : n = P
      BY <1>1
    <3>3. m <= n /\ n - m < Modulus
      BY <2>1, <2>2, <3>1, <3>2
    <3>4. /\ m + 1 \in Int /\ n + 1 \in Int
          /\ (m + 1) - (n + 1) < Modulus /\ (n + 1) - (m + 1) < Modulus
      BY <3>3, ModulusAssumption
    <3> QED BY <2>1, <3>1, <3>2, <3>4
  <2> HIDE DEF a, b
  <2>4. a = b
    BY <2>3, SlotSame
  <2> QED BY <1>1, <2>1, <2>4 DEF a, b
<1>5. thread[t].val = P + 1 /\ P + 1 <= h
  <2>1. Seen(t, h) = h
    BY <1>3, Consts DEF Seen
  <2> QED BY <1>1, <1>3, <1>4, <2>1 DEF Knows
<1>6. /\ Len(popped') = P + 1 /\ popped'[P + 1] = P + 1
      /\ \A n \in 1..P : popped'[n] = popped[n]
  BY <1>3, <1>5, ThreadType DEF Typed
<1>7. ~Holding(t) /\ ~Holding(t)'
  BY <1>2, <1>3, Consts DEF Holding
<1>8. \A u \in Threads : u # t => thread'[u] = thread[u]
  BY <1>2 DEF Moved
<1>9. \A u \in Threads : /\ Holding(u)' <=> Holding(u)
                         /\ Holding(u) => Owned(u)' = Owned(u)
  BY <1>2, <1>3, <1>7, HoldersSame
<1>10. Counters(h, w)'
  <2>1. tail' = Slot((P + 1) + 1)
    <3>1. P + 1 \in Int /\ tail = Slot(P + 1)
      BY <1>1 DEF Counters
    <3> QED BY <1>3, <3>1, SlotSucc
  <2> HIDE DEF R, P
  <2>2. /\ flag' = Slot(R + 1) /\ head' = Slot(h + 1) /\ w <= h + 1
        /\ reserved' = R /\ (R = P \/ R - P < MaxSize)
    BY <1>1, <1>3 DEF Counters, R, P
  <2> QED BY <1>1, <1>5, <1>6, <2>1, <2>2 DEF Counters
<1>11. Won(w)'
  <2>1. \A n \in ((P + 1) + 1)..w : n \in (P + 1)..w
    BY <1>1
  <2> QED BY <1>1, <1>3, <1>6, <2>1 DEF Won
<1>12. Coming(w)'
  <2> SUFFICES ASSUME NEW n \in (w + 1)..R
               PROVE  \/ block[Slot(n)].data = n /\ block[Slot(n)].flag = Slot(n)
                      \/ \E u \in Threads : Holding(u)' /\ Owned(u)' = n
    BY <1>3 DEF Coming
  <2> QED BY <1>1, <1>9 DEF Coming
<1>13. ReadyOnly(w)'
  BY <1>1, <1>3 DEF ReadyOnly
<1>14. ASSUME NEW u \in Threads PROVE Holder(u, w)'
  <2>1. Holder(u, w)
    BY <1>1
  <2>2. Holding(u)' => /\ Owned(u)' \in (w + 1)..R
                       /\ block[Slot(Owned(u)')].flag # Slot(Owned(u)')
    BY <1>9, <2>1 DEF Holder
  <2>3. CASE u = t
    BY <1>2, <1>3, <2>2, <2>3, Consts DEF Holder
  <2>4. CASE u # t
    BY <1>3, <1>8, <2>1, <2>2, <2>4 DEF Holder
  <2> QED BY <2>3, <2>4
<1>15. Alone'
  BY <1>1, <1>9 DEF Alone
<1>16. Winner(h, w)'
  <2>1. \A u \in Threads : thread'[u].store = thread[u].store
    BY <1>2, <1>8
  <2> QED BY <1>1, <2>1 DEF Winner
<1>17. ASSUME NEW u \in Threads PROVE Knows(u, h)'
  <2>1. CASE u = t
    BY <1>2, <2>1, KnowsNothing
  <2>2. CASE u # t
    <3>1. Knows(u, h) /\ thread[u].tick \in Int /\ thread'[u] = thread[u]
      BY <1>1, <1>8, <2>2, ThreadType
    <3>2. Seen(u, h)' = Seen(u, h)
      BY <3>1 DEF Seen
    <3>3. thread[u].tick <= P => thread[u].tick <= P + 1 /\ thread[u].tick # P + 1
      BY <1>1, <3>1
    <3>4. /\ R + 1 - P < Modulus => R + 1 - (P + 1) < Modulus
          /\ R + 1 - P < MaxSize => R + 1 - (P + 1) < MaxSize
      BY <1>1
    <3> QED BY <1>3, <1>6, <3>1, <3>2, <3>3, <3>4 DEF Knows
  <2> QED BY <2>1, <2>2
<1>18. \A n \in 1..Len(popped') : popped'[n] = n
  <2>1. \A n \in 1..P : popped[n] = n
    BY DEF Ring
  <2>2. \A n \in 1..(P + 1) : n \in 1..P \/ n = P + 1
    BY <1>1
  <2> QED BY <1>6, <2>1, <2>2
<1> QED BY <1>10, <1>11, <1>12, <1>13, <1>14, <1>15, <1>16, <1>17, <1>18 DEF Ring

\* The store of a push reaches its slot: the element is ready.
LEMMA DrainItem ==
  ASSUME Typed, NEW h \in Nat, NEW w \in Nat, Ring(h, w), NEW t \in Threads,
         Drain(t), thread[t].store.to = "item"
  PROVE  Ring(h, w)'
<1> DEFINE R == reserved
           P == Len(popped)
           i == thread[t].store.at
           d == block[i].data
<1>1. /\ Counters(h, w) /\ Won(w) /\ Coming(w) /\ ReadyOnly(w) /\ Alone
      /\ Winner(h, w) /\ (\A u \in Threads : Holder(u, w) /\ Knows(u, h))
      /\ P \in Nat /\ R \in Nat /\ Modulus \in Nat
      /\ P <= h /\ h <= w /\ w <= R /\ R - P < Modulus
  BY RingParts
<1>2. /\ Moved(t) /\ thread'[t].store = NoStore /\ thread'[t].pc = thread[t].pc
      /\ thread'[t].cur = thread[t].cur /\ thread'[t].low = thread[t].low
      /\ thread'[t].val = thread[t].val /\ thread'[t].tick = thread[t].tick
  BY Drains
<1>3. Holding(t) /\ Owned(t) = d /\ i \in Index
  BY ThreadType DEF Holding, Owned
<1>4. /\ thread[t].store.val = i /\ i = Slot(d) /\ d \in (w + 1)..R
      /\ thread[t].pc \notin {"write", "publish"}
  <2>1. Holder(t, w)
    BY <1>1
  <2> QED BY <1>3, <2>1, Consts DEF Holder
<1>5. UNCHANGED <<flag, head, tail, reserved, popped>>
      /\ block' = [block EXCEPT ![i].flag = i]
  BY <1>4 DEF Drain
<1>6. /\ \A j \in Index : block'[j].data = block[j].data /\ (j # i => block'[j] = block[j])
      /\ block'[i].flag = i
  BY <1>3, <1>5 DEF Typed, Cells
<1>7. \A n \in (P + 1)..R : Slot(n) \in Index /\ (n # d => Slot(n) # i)
  <2> SUFFICES ASSUME NEW n \in (P + 1)..R
               PROVE  Slot(n) \in Index /\ (Slot(n) = i => n = d)
    OBVIOUS
  <2>1. n \in (P + 1)..(P + Modulus) /\ d \in (P + 1)..(P + Modulus) /\ n \in Int
    BY <1>1, <1>4
  <2> HIDE DEF d
  <2> QED BY <1>4, <2>1, Distinct, SlotIn
<1>8. \A u \in Threads : u # t => thread'[u] = thread[u]
  BY <1>2 DEF Moved
<1>9. thread'[t].store.to = "none" /\ ~Holding(t)'
  BY <1>2, <1>4, Consts DEF Holding
<1> HIDE DEF i
<1>10. \A u \in Threads : u # t => /\ Holding(u)' <=> Holding(u)
                                   /\ Owned(u)' = Owned(u)
  <2> SUFFICES ASSUME NEW u \in Threads, u # t
               PROVE  (Holding(u)' <=> Holding(u)) /\ Owned(u)' = Owned(u)
    OBVIOUS
  <2>1. thread'[u] = thread[u] /\ thread[u].store.at \in Index
    BY <1>8, ThreadType
  <2> QED BY <1>6, <2>1 DEF Holding, Owned
<1>11. ASSUME NEW u \in Threads, u # t, Holding(u)
       PROVE  /\ Owned(u) \in (w + 1)..R /\ Owned(u) \in (P + 1)..R /\ Owned(u) # d
              /\ block[Slot(Owned(u))].flag # Slot(Owned(u))
  <2>1. Owned(u) \in (w + 1)..R /\ block[Slot(Owned(u))].flag # Slot(Owned(u))
    BY <1>1, <1>11 DEF Holder
  <2>2. Owned(u) # d
    BY <1>1, <1>3, <1>11 DEF Alone
  <2> QED BY <1>1, <2>1, <2>2
<1>12. Counters(h, w)'
  BY <1>1, <1>5 DEF Counters
<1>13. Won(w)'
  <2> SUFFICES ASSUME NEW n \in (P + 1)..w
               PROVE  block'[Slot(n)].data = n /\ block'[Slot(n)].flag # Slot(n)
    BY <1>5 DEF Won
  <2>1. n \in (P + 1)..R /\ n # d
    BY <1>1, <1>4
  <2>2. block[Slot(n)].data = n /\ block[Slot(n)].flag # Slot(n)
    BY <1>1 DEF Won
  <2> QED BY <1>6, <1>7, <2>1, <2>2
<1>14. Coming(w)'
  <2> SUFFICES ASSUME NEW n \in (w + 1)..R
               PROVE  \/ block'[Slot(n)].data = n /\ block'[Slot(n)].flag = Slot(n)
                      \/ \E u \in Threads : Holding(u)' /\ Owned(u)' = n
    BY <1>5 DEF Coming
  <2>1. CASE n = d
    BY <1>3, <1>4, <1>6, <2>1 DEF d, i
  <2>2. CASE n # d
    <3>1. n \in (P + 1)..R
      BY <1>1
    <3>2. \/ block[Slot(n)].data = n /\ block[Slot(n)].flag = Slot(n)
          \/ \E u \in Threads : Holding(u) /\ Owned(u) = n
      BY <1>1 DEF Coming
    <3>3. \A u \in Threads : Owned(u) = n => u # t
      BY <1>3, <2>2
    <3> QED BY <1>6, <1>7, <1>10, <2>2, <3>1, <3>2, <3>3
  <2> QED BY <2>1, <2>2
<1>15. ReadyOnly(w)'
  <2> SUFFICES ASSUME NEW j \in Index, block'[j].flag = j
               PROVE  block'[j].data \in (w + 1)..R /\ j = Slot(block'[j].data)
    BY <1>5 DEF ReadyOnly
  <2>1. CASE j = i
    BY <1>4, <1>6, <2>1 DEF d
  <2>2. CASE j # i
    BY <1>1, <1>6, <2>2 DEF ReadyOnly
  <2> QED BY <2>1, <2>2
<1>16. ASSUME NEW u \in Threads PROVE Holder(u, w)'
  <2>1. CASE u = t
    BY <1>2, <1>4, <1>9, <2>1 DEF Holder
  <2>2. CASE u # t
    <3>1. Holder(u, w) /\ thread'[u] = thread[u] /\ thread[u].store.at \in Index
      BY <1>1, <1>8, <2>2, ThreadType
    <3>2. ASSUME Holding(u)'
          PROVE  /\ Owned(u)' \in (w + 1)..R
                 /\ block'[Slot(Owned(u)')].flag # Slot(Owned(u)')
      <4>1. Holding(u) /\ Owned(u)' = Owned(u)
        BY <1>10, <2>2, <3>2
      <4> QED BY <1>6, <1>7, <1>11, <2>2, <4>1
    <3>3. ASSUME thread[u].pc = "publish"
          PROVE  block'[Slot(thread[u].tick)].data = thread[u].tick
      <4>1. Slot(thread[u].tick) \in Index
        BY SlotIn, ThreadType
      <4> QED BY <1>6, <3>1, <3>3, <4>1 DEF Holder
    <3>4. block'[thread[u].store.at].data = block[thread[u].store.at].data
      BY <1>6, <3>1
    <3> QED BY <1>5, <3>1, <3>2, <3>3, <3>4 DEF Holder
  <2> QED BY <2>1, <2>2
<1>17. Alone'
  BY <1>1, <1>9, <1>10 DEF Alone
<1>18. Winner(h, w)'
  <2>1. \A u \in Threads : /\ thread'[u].store.to = "head" <=> thread[u].store.to = "head"
                           /\ u # t => thread'[u].store = thread[u].store
    BY <1>8, <1>9
  <2>2. thread[t].store.to # "head" /\ thread'[t].store.to # "head"
    BY <1>9
  <2> QED BY <1>1, <2>1, <2>2 DEF Winner
<1>19. ASSUME NEW u \in Threads PROVE Knows(u, h)'
  <2>1. Knows(u, h)
    BY <1>1
  <2>2. Seen(u, h)' = Seen(u, h)
    BY <1>8, <1>9 DEF Seen
  <2>3. /\ thread'[u].pc = thread[u].pc
        /\ thread'[u].cur = thread[u].cur /\ thread'[u].low = thread[u].low
        /\ thread'[u].val = thread[u].val /\ thread'[u].tick = thread[u].tick
    BY <1>2, <1>8
  <2> QED BY <1>5, <2>1, <2>2, <2>3 DEF Knows
<1>20. \A n \in 1..Len(popped') : popped'[n] = n
  BY <1>5 DEF Ring
<1> QED BY <1>12, <1>13, <1>14, <1>15, <1>16, <1>17, <1>18, <1>19, <1>20 DEF Ring

\* The winner's store reaches head_, which is then past all that was won.
LEMMA DrainHead ==
  ASSUME Typed, NEW h \in Nat, NEW w \in Nat, Ring(h, w), NEW t \in Threads,
         Drain(t), thread[t].store.to = "head"
  PROVE  Ring(w, w)' /\ head' = Succ(head)
<1> DEFINE R == reserved
           P == Len(popped)
<1>1. /\ Counters(h, w) /\ Won(w) /\ Coming(w) /\ ReadyOnly(w) /\ Alone
      /\ Winner(h, w) /\ (\A u \in Threads : Holder(u, w) /\ Knows(u, h))
      /\ P \in Nat /\ R \in Nat /\ Modulus \in Nat
      /\ P <= h /\ h <= w /\ w <= R /\ R - P < Modulus
  BY RingParts
<1>2. /\ Moved(t) /\ thread'[t].store = NoStore /\ thread'[t].pc = thread[t].pc
      /\ thread'[t].cur = thread[t].cur /\ thread'[t].low = thread[t].low
      /\ thread'[t].val = thread[t].val /\ thread'[t].tick = thread[t].tick
  BY Drains
<1>3. UNCHANGED <<flag, tail, block, reserved, popped>>
      /\ head' = thread[t].store.val
  BY DEF Drain
<1>4. w = h + 1 /\ head' = Slot(w + 1)
  BY <1>1, <1>3 DEF Winner
<1>5. head' = Succ(head)
  <2>1. h + 1 \in Int /\ head = Slot(h + 1)
    BY <1>1 DEF Counters
  <2> QED BY <1>4, <2>1, SlotSucc
<1>6. \A u \in Threads : u # t => thread'[u] = thread[u]
  BY <1>2 DEF Moved
<1>7. \A u \in Threads : thread'[u].store.to # "head"
  BY <1>1, <1>2, <1>6, Consts DEF Winner
<1>8. ~Holding(t) /\ ~Holding(t)'
  <2>1. thread[t].pc \notin {"write", "publish"}
    BY <1>1, Consts DEF Holder
  <2> QED BY <1>2, <2>1, Consts DEF Holding
<1>9. \A u \in Threads : /\ Holding(u)' <=> Holding(u)
                         /\ Holding(u) => Owned(u)' = Owned(u)
  BY <1>3, <1>6, <1>8 DEF Holding, Owned
<1>10. Counters(w, w)'
  BY <1>1, <1>3, <1>4 DEF Counters
<1>11. Won(w)' /\ ReadyOnly(w)'
  BY <1>1, <1>3 DEF Won, ReadyOnly
<1>12. Coming(w)'
  <2> SUFFICES ASSUME NEW n \in (w + 1)..R
               PROVE  \/ block[Slot(n)].data = n /\ block[Slot(n)].flag = Slot(n)
                      \/ \E u \in Threads : Holding(u)' /\ Owned(u)' = n
    BY <1>3 DEF Coming
  <2> QED BY <1>1, <1>9 DEF Coming
<1>13. ASSUME NEW u \in Threads PROVE Holder(u, w)'
  <2>1. Holder(u, w)
    BY <1>1
  <2>2. Holding(u)' => /\ Owned(u)' \in (w + 1)..R
                       /\ block[Slot(Owned(u)')].flag # Slot(Owned(u)')
    BY <1>9, <2>1 DEF Holder
  <2>3. CASE u = t
    <3>1. thread'[t].pc \notin {"write", "publish"} /\ thread'[t].store.to = "none"
      BY <1>2, <1>8, Consts DEF Holding
    <3> QED BY <1>2, <1>8, <2>3, <3>1 DEF Holder
  <2>4. CASE u # t
    BY <1>3, <1>6, <2>1, <2>2, <2>4 DEF Holder
  <2> QED BY <2>3, <2>4
<1>14. Alone'
  BY <1>1, <1>9 DEF Alone
<1>15. Winner(w, w)'
  BY <1>7 DEF Winner
<1>16. ASSUME NEW u \in Threads PROVE Knows(u, w)'
  <2>1. Knows(u, h) /\ thread[u].tick \in Int
    BY <1>1, ThreadType
  <2>2. Seen(u, w)' = w /\ Seen(u, h) <= w /\ Seen(u, h) \in Int
    BY <1>7, SeenFacts DEF Seen
  <2>3. /\ thread'[u].pc = thread[u].pc
        /\ thread'[u].cur = thread[u].cur /\ thread'[u].low = thread[u].low
        /\ thread'[u].val = thread[u].val /\ thread'[u].tick = thread[u].tick
    BY <1>2, <1>6
  <2>4. /\ thread[u].tick - 1 <= Seen(u, h) => thread[u].tick - 1 <= w
        /\ P + 1 <= Seen(u, h) => P + 1 <= w
    BY <1>1, <2>1, <2>2
  <2> QED BY <1>3, <2>1, <2>2, <2>3, <2>4 DEF Knows
<1>17. \A n \in 1..Len(popped') : popped'[n] = n
  BY <1>3 DEF Ring
<1>18. Ring(w, w)'
  BY <1>10, <1>11, <1>12, <1>13, <1>14, <1>15, <1>16, <1>17 DEF Ring
<1> QED BY <1>5, <1>18

-----------------------------------------------------------------------------
(* The theorems. *)

LEMMA InitInv == Init => Inv
<1> SUFFICES ASSUME Init PROVE Inv
  OBVIOUS
<1>1. 0 \in Index /\ NoStore.to = "none" /\ Idle \in Calls /\ Idle.pc = "idle"
      /\ Idle.store = NoStore
  BY Consts DEF Idle
<1>2. /\ flag = 0 /\ head = 0 /\ tail = 0 /\ reserved = 0 /\ popped = <<>>
      /\ history = {} /\ thread = [t \in Threads |-> Idle]
      /\ block = [i \in Index |-> [data |-> 0, flag |-> invalid_index]]
  BY DEF Init
<1>3. Typed
  <2>1. block \in [Index -> Cells]
    BY <1>2 DEF Cells
  <2>2. thread \in [Threads -> Calls]
    <3> HIDE DEF Idle, Calls
    <3> QED BY <1>1, <1>2
  <2>3. popped \in Seq(Int) /\ reserved \in Nat /\ history \subseteq {"lapped", "mismarked"}
    BY <1>2
  <2> QED BY <1>1, <1>2, <2>1, <2>2, <2>3 DEF Typed
<1>4. \A t \in Threads : /\ thread[t].pc = "idle" /\ thread[t].store = NoStore
                         /\ thread[t].store.to = "none"
  BY <1>1, <1>2
<1>5. Len(popped) = 0 /\ Modulus \in Nat /\ Modulus > 1
  BY <1>2, ModulusAssumption
<1>6. \A i \in Index : block[i].flag # i
  BY <1>2, ModulusAssumption DEF Index, invalid_index
<1>7. Slot(1) = 0
  <2>1. 0 \in 0..(Modulus - 1) /\ 1 - 1 = 0
    BY <1>5
  <2> QED BY <2>1, Small DEF Slot
<1>8. Counters(0, 0)
  BY <1>2, <1>5, <1>7 DEF Counters
<1>9. Won(0) /\ Coming(0) /\ ReadyOnly(0)
  BY <1>2, <1>5, <1>6 DEF Won, Coming, ReadyOnly
<1>10. \A t \in Threads : ~Holding(t)
  BY <1>4 DEF Holding
<1>11. (\A t \in Threads : Holder(t, 0)) /\ Alone
  BY <1>4, <1>10 DEF Holder, Alone
<1>12. Winner(0, 0)
  BY <1>4 DEF Winner
<1>13. \A t \in Threads : Knows(t, 0)
  BY <1>4 DEF Knows
<1>14. \A n \in 1..Len(popped) : popped[n] = n
  BY <1>5
<1>15. Ring(0, 0)
  BY <1>8, <1>9, <1>11, <1>12, <1>13, <1>14 DEF Ring
<1>16. \E h, w \in Nat : Ring(h, w)
  BY <1>15
<1> QED BY <1>3, <1>16 DEF Inv

\* A queue that broke stays so.
LEMMA IntactBefore ==
  ASSUME [Next]_vars, Intact'
  PROVE  Intact
<1>1. history \subseteq history'
  <2>1. CASE UNCHANGED vars
    BY <2>1 DEF vars
  <2>2. CASE \E t \in Pushers : PushCall(t, "push")
    BY <2>2 DEF PushCall
  <2>3. CASE \E t \in Forcers : PushCall(t, "force")
    BY <2>3 DEF PushCall
  <2>4. CASE \E t \in Poppers : PopCall(t)
    BY <2>4 DEF PopCall
  <2>5. ASSUME NEW t \in Threads, PushStep(t) PROVE history \subseteq history'
    BY <2>5 DEF PushStep, PushFlag, PushFull, PushReserve, PushRetry, PushWrite,
       PushPublish, PushOwnItem, PushOwnHead, PushOwnClaim, Claim
  <2>6. ASSUME NEW t \in Threads, PopStep(t) PROVE history \subseteq history'
    BY <2>6 DEF PopStep, PopLow, PopHead, PopItem, PopClaim, PopClaimFails, PopRead,
       PopTake, PopTakeFails, Claim
  <2>7. ASSUME NEW t \in Threads, Drain(t) PROVE history \subseteq history'
    BY <2>7 DEF Drain
  <2> QED BY <2>1, <2>2, <2>3, <2>4, <2>5, <2>6, <2>7 DEF Next
<1> QED BY <1>1 DEF Intact

LEMMA RingStep ==
  ASSUME Typed, [Next]_vars, Intact', NEW h \in Nat, NEW w \in Nat, Ring(h, w)
  PROVE  \E k, x \in Nat : Ring(k, x)'
<1>1. w + 1 \in Nat
  OBVIOUS
<1>2. CASE UNCHANGED vars
  <2>1. Ring(h, w)'
    BY <1>2 DEF vars, Ring, Counters, Won, Coming, ReadyOnly, Holder, Alone, Winner,
       Knows, Seen, Holding, Owned
  <2> QED BY <2>1
<1>3. CASE \E t \in Pushers : PushCall(t, "push")
  BY <1>3, PushLocal DEF Threads
<1>4. CASE \E t \in Forcers : PushCall(t, "force")
  BY <1>4, PushLocal DEF Threads
<1>5. CASE \E t \in Poppers : PopCall(t)
  BY <1>5, PopLocal DEF Threads
<1>6. ASSUME NEW t \in Threads, PushStep(t) PROVE \E k, x \in Nat : Ring(k, x)'
  <2>1. CASE PushFlag(t) \/ PushRetry(t) \/ PushFull(t) \/ PushOwnItem(t) \/ PushOwnHead(t)
    BY <2>1, PushLocal
  <2>2. CASE PushReserve(t)
    BY <2>2, ReserveStep
  <2>3. CASE PushWrite(t)
    BY <2>3, WriteStep
  <2>4. CASE PushPublish(t)
    BY <2>4, PublishStep
  <2>5. CASE PushOwnClaim(t)
    BY <1>1, <2>5, PushClaimStep
  <2> QED BY <1>6, <2>1, <2>2, <2>3, <2>4, <2>5 DEF PushStep
<1>7. ASSUME NEW t \in Threads, PopStep(t) PROVE \E k, x \in Nat : Ring(k, x)'
  <2>1. CASE PopLow(t) \/ PopTakeFails(t) \/ PopHead(t) \/ PopItem(t)
             \/ PopClaimFails(t) \/ PopRead(t)
    BY <2>1, PopLocal
  <2>2. CASE PopClaim(t)
    BY <1>1, <2>2, PopClaimStep
  <2>3. CASE PopTake(t)
    BY <2>3, TakeStep
  <2> QED BY <1>7, <2>1, <2>2, <2>3 DEF PopStep
<1>8. ASSUME NEW t \in Threads, Drain(t) PROVE \E k, x \in Nat : Ring(k, x)'
  <2>1. thread[t].store.to \in {"item", "head"}
    <3>1. Holder(t, w) /\ thread[t].store # NoStore
      BY <1>8, RingParts DEF Drain, Drained
    <3> QED BY <3>1, ThreadType DEF Holder
  <2> QED BY <1>8, <2>1, DrainItem, DrainHead
<1> QED BY <1>2, <1>3, <1>4, <1>5, <1>6, <1>7, <1>8 DEF Next

LEMMA InvStep == Inv /\ [Next]_vars => Inv'
<1> SUFFICES ASSUME Inv, [Next]_vars PROVE Inv'
  OBVIOUS
<1>1. Typed /\ Typed'
  BY TypedStep DEF Inv
<1>2. ASSUME Intact' PROVE \E h, w \in Nat : Ring(h, w)'
  <2>1. PICK h \in Nat, w \in Nat : Ring(h, w)
    BY <1>2, IntactBefore DEF Inv
  <2> QED BY <1>1, <1>2, <2>1, RingStep
<1> QED BY <1>1, <1>2 DEF Inv

\* The inductive invariant holds in every behaviour.
THEOREM Invariant == Spec => []Inv
  BY InitInv, InvStep, PTL DEF Spec

\* For any ring, capacity and threads: an index stays in the ring, the elements
\* come out of pop in the order of the reservations of push, each once, and no
\* more than max_size_ - 1 are in the queue (mpmc_queue.h:55-127).
THEOREM ElementsInOrder == Spec => []Fifo
<1>1. Inv => Fifo
  <2> SUFFICES ASSUME Inv PROVE Fifo
    OBVIOUS
  <2>1. TypeOK
    <3>1. \A i \in Index : block[i].flag \in Index \cup {invalid_index}
      BY DEF Inv, Typed, Cells
    <3> QED BY <3>1 DEF Inv, Typed, TypeOK
  <2>2. ASSUME Intact
        PROVE  /\ \A n \in 1..Len(popped) : popped[n] = n
               /\ reserved = Len(popped) \/ reserved - Len(popped) < MaxSize
    <3>1. PICK h \in Nat, w \in Nat : Ring(h, w)
      BY <2>2 DEF Inv
    <3> QED BY <3>1 DEF Ring, Counters
  <2> QED BY <2>1, <2>2 DEF Fifo, InOrder, Capacity
<1> QED BY <1>1, Invariant, PTL

\* With no call in progress nothing that was pushed is out of the reach of pop:
\* head_ is past it or its slot is ready (mpmc_queue.h:76-90, 99-114).
THEOREM EveryElementInReach == Spec => []NothingStuck
<1>1. Inv => NothingStuck
  <2> SUFFICES ASSUME Inv, Intact, Quiet, NEW n \in (Len(popped) + 1)..reserved
               PROVE  \/ Distance(Slot(n), tail) < Distance(head, tail)
                      \/ block[Slot(n)] = [data |-> n, flag |-> Slot(n)]
    BY DEF NothingStuck, Slot
  <2>1. PICK h \in Nat, w \in Nat : Ring(h, w)
    BY DEF Inv
  <2> DEFINE P == Len(popped)
             R == reserved
  <2>2. /\ Typed /\ Counters(h, w) /\ Coming(w) /\ Winner(h, w)
        /\ P \in Nat /\ R \in Nat /\ Modulus \in Nat
        /\ P <= h /\ h <= w /\ w <= h + 1 /\ w <= R /\ R - P < Modulus
        /\ tail = Slot(P + 1) /\ head = Slot(h + 1)
    BY <2>1, RingParts DEF Inv, Counters
  <2>3. \A t \in Threads : ~Holding(t) /\ thread[t].store.to # "head"
    BY Consts DEF Quiet, At, Drained, Holding
  <2>4. w = h
    BY <2>2, <2>3 DEF Winner
  <2>5. CASE n <= h
    <3> DEFINE a == P + 1
               b == h + 1
    <3>1. /\ n \in Int /\ a \in Int /\ b \in Int /\ a <= n /\ a <= b
          /\ n - a < Modulus /\ b - a < Modulus /\ n < b
      BY <2>2, <2>5
    <3>2. tail = Slot(a) /\ head = Slot(b)
      BY <2>2
    <3> HIDE DEF a, b
    <3>3. Distance(Slot(n), Slot(a)) = n - a /\ Distance(Slot(b), Slot(a)) = b - a
      BY <3>1, SlotDistance
    <3> QED BY <3>1, <3>2, <3>3
  <2>6. CASE n > h
    <3>1. n \in (w + 1)..R /\ n \in Int
      BY <2>2, <2>4, <2>6
    <3>2. block[Slot(n)].data = n /\ block[Slot(n)].flag = Slot(n)
      BY <2>2, <2>3, <3>1 DEF Coming
    <3>3. block[Slot(n)] \in Cells
      BY <2>2, <3>1, SlotIn DEF Typed
    <3> QED BY <3>2, <3>3 DEF Cells
  <2> QED BY <2>2, <2>5, <2>6
<1> QED BY <1>1, Invariant, PTL

\* head_, which pushes and pops store without an exchange, moves by one slot at
\* a time and never back (mpmc_queue.h:87, 113).
THEOREM HeadMovesForward == Spec => HeadForward
<1> DEFINE Moves == Intact' => head' \in {head, Succ(head)}
<1>1. Inv /\ [Next]_vars => [Moves]_vars
  <2> SUFFICES ASSUME Inv, Next, Intact' PROVE head' \in {head, Succ(head)}
    OBVIOUS
  <2>1. PICK h \in Nat, w \in Nat : Ring(h, w)
    BY IntactBefore DEF Inv
  <2>2. CASE \E t \in Pushers : PushCall(t, "push")
    BY <2>2 DEF PushCall
  <2>3. CASE \E t \in Forcers : PushCall(t, "force")
    BY <2>3 DEF PushCall
  <2>4. CASE \E t \in Poppers : PopCall(t)
    BY <2>4 DEF PopCall
  <2>5. ASSUME NEW t \in Threads, PushStep(t) PROVE head' = head
    BY <2>5 DEF PushStep, PushFlag, PushFull, PushReserve, PushRetry, PushWrite,
       PushPublish, PushOwnItem, PushOwnHead, PushOwnClaim, Claim
  <2>6. ASSUME NEW t \in Threads, PopStep(t) PROVE head' = head
    BY <2>6 DEF PopStep, PopLow, PopHead, PopItem, PopClaim, PopClaimFails, PopRead,
       PopTake, PopTakeFails, Claim
  <2>7. ASSUME NEW t \in Threads, Drain(t) PROVE head' \in {head, Succ(head)}
    <3>1. CASE thread[t].store.to = "head"
      BY <2>1, <2>7, <3>1, DrainHead DEF Inv
    <3>2. CASE thread[t].store.to # "head"
      BY <2>7, <3>2 DEF Drain
    <3> QED BY <3>1, <3>2
  <2> QED BY <2>2, <2>3, <2>4, <2>5, <2>6, <2>7 DEF Next
<1> HIDE DEF Moves
<1>2. Spec => [][Moves]_vars
  BY <1>1, Invariant, PTL DEF Spec
<1> QED BY <1>2 DEF Moves, HeadForward
=============================================================================
