----------------------------- MODULE MpmcQueue -----------------------------
(***************************************************************************)
(* mpmc_queue (include/footstone/mpmc_queue.h): a ring of Modulus slots    *)
(* shared by any number of threads.  push reserves a slot by advancing     *)
(* flag_, fills it and marks it ready by storing its own index in the      *)
(* slot's flag; head_ is then advanced over ready slots, one at a time, by *)
(* whoever wins the slot's flag: the push itself, a push before it, or a   *)
(* pop that finds head_ in its way.  tail_ is advanced by pop.             *)
(*                                                                         *)
(* Each access to a shared variable is a step.  The two plain stores are   *)
(* release stores followed by acquire loads, which the builds do not keep  *)
(* in order: a store waits in the thread's buffer until Drain, and a       *)
(* compare_exchange waits for the buffer.  The element of the n-th         *)
(* reservation is the number n: the code never looks at elements.          *)
(***************************************************************************)
EXTENDS Integers, Sequences, FiniteSets

CONSTANTS Pushers, Forcers, Poppers,  \* threads that call push,
                                      \* push_until_success and pop
          Modulus,     \* number of values of U: size_limit + 1
          MaxSize,     \* max_size_
          MaxPushes    \* bound on the reservations

ASSUME ModulusAssumption == Modulus \in Nat /\ Modulus > 1
ASSUME MaxSizeAssumption == MaxSize \in Nat

VARIABLES flag, head, tail,  \* flag_, head_, tail_
          block,             \* the slots: [data, flag]
          thread,            \* per thread: the call, where it is, its locals
          reserved, popped,  \* the elements reserved and popped so far
          history            \* what happened that the queue does not survive

vars == <<flag, head, tail, block, thread, reserved, popped, history>>

Threads == Pushers \cup Forcers \cup Poppers
Index == 0..(Modulus - 1)
size_limit == Modulus - 1
invalid_index == Modulus  \* the largest uint64_t, which is no index

\* Unsigned arithmetic modulo Modulus.
Succ(i) == (i + 1) % Modulus
Distance(h, t) == (h - t) % Modulus

\* A buffered store: to the flag of slot i, or to head_.
NoStore == [to |-> "none", at |-> 0, val |-> 0]

\* op: the call the thread is in; cur: the index it works on (cur_flag of
\* push, cur_head of pop); ready: cac_flag = cur; low: id_tail; val: the element
\* read; store: its buffer.  tick is cur or low counted from the start of the
\* queue, without wrapping around: a thread that has a tick of a lap ago has
\* been overtaken by the whole ring, and its exchanges succeed by accident.
Idle == [op |-> "none", pc |-> "idle", cur |-> 0, ready |-> FALSE, low |-> 0,
         val |-> 0, tick |-> 0, store |-> NoStore]

Lapped(now, tick) == IF now - tick >= Modulus THEN {"lapped"} ELSE {}

Init ==
  /\ flag = 0 /\ head = 0 /\ tail = 0
  /\ block = [i \in Index |-> [data |-> 0, flag |-> invalid_index]]
  /\ thread = [t \in Threads |-> Idle]
  /\ reserved = 0 /\ popped = <<>>
  /\ history = {}

-----------------------------------------------------------------------------
(* Memory. *)

\* What t reads: its own buffered store before the memory.
HeadOf(t) ==
  IF thread[t].store.to = "head" THEN thread[t].store.val ELSE head
FlagOf(t, i) ==
  IF thread[t].store.to = "item" /\ thread[t].store.at = i
  THEN thread[t].store.val ELSE block[i].flag
Drained(t) == thread[t].store = NoStore

\* t's store reaches the memory.
Drain(t) ==
  /\ ~Drained(t)
  /\ LET s == thread[t].store IN
       /\ head' = IF s.to = "head" THEN s.val ELSE head
       /\ block' = IF s.to = "item" THEN [block EXCEPT ![s.at].flag = s.val]
                   ELSE block
  /\ thread' = [thread EXCEPT ![t].store = NoStore]
  /\ UNCHANGED <<flag, tail, reserved, popped, history>>

\* t goes on at pc with the locals of r, or its call returns; Fresh(t) has none.
Fresh(t) == [Idle EXCEPT !.op = thread[t].op, !.store = thread[t].store]
Go(t, pc, r) ==
  thread' = [thread EXCEPT ![t] = [r EXCEPT !.pc = pc]]
Return(t) ==
  thread' = [thread EXCEPT ![t] = [Idle EXCEPT !.store = thread[t].store]]

At(t, pc) == thread[t].pc = pc

-----------------------------------------------------------------------------
(* push *)

\* The two tests of push; next counts the new element.
Full(next, low) == next = low \/ Distance(next, low) >= MaxSize

\* The pushes that have no slot yet: each may still reserve one.
Waiting == {t \in Pushers \cup Forcers : thread[t].op # "none" /\ thread[t].pc \notin
              {"write", "publish", "own_item", "own_head", "own_claim"}}

\* push or push_until_success is called, and loads flag_.
PushCall(t, op) ==
  /\ At(t, "idle")
  /\ reserved + Cardinality(Waiting) < MaxPushes
  /\ Go(t, "full", [thread[t] EXCEPT !.op = op, !.cur = flag, !.tick = reserved])
  /\ UNCHANGED <<flag, head, tail, block, reserved, popped, history>>

\* The same load when push_until_success calls push again.
PushFlag(t) ==
  /\ At(t, "flag")
  /\ Go(t, "full", [thread[t] EXCEPT !.cur = flag, !.tick = reserved])
  /\ UNCHANGED <<flag, head, tail, block, reserved, popped, history>>

\* The load of tail_ and the tests.  After a failed push push_until_success
\* calls pop.
PushFull(t) ==
  /\ At(t, "full")
  /\ CASE ~Full(Succ(thread[t].cur), tail) -> Go(t, "reserve", thread[t])
       [] Full(Succ(thread[t].cur), tail) /\ thread[t].op = "push" -> Return(t)
       [] OTHER -> Go(t, "low", Fresh(t))
  /\ UNCHANGED <<flag, head, tail, block, reserved, popped, history>>

\* compare_exchange_weak on flag_, which may fail without a cause.
PushReserve(t) ==
  /\ At(t, "reserve") /\ Drained(t)
  /\ flag = thread[t].cur
  /\ flag' = Succ(flag)
  /\ reserved' = reserved + 1
  /\ history' = history \cup Lapped(reserved, thread[t].tick)
  /\ Go(t, "write", [thread[t] EXCEPT !.tick = reserved + 1])
  /\ UNCHANGED <<head, tail, block, popped>>

PushRetryM(t) ==  \* mutant: the failed exchange does not reload flag_
  /\ At(t, "reserve") /\ Drained(t)
  /\ Go(t, "full", thread[t])
  /\ UNCHANGED <<flag, head, tail, block, reserved, popped, history>>

PushRetry(t) ==
  /\ At(t, "reserve") /\ Drained(t)
  /\ Go(t, "full", [thread[t] EXCEPT !.cur = flag, !.tick = reserved])
  /\ UNCHANGED <<flag, head, tail, block, reserved, popped, history>>

PushWrite(t) ==
  /\ At(t, "write")
  /\ block' = [block EXCEPT ![thread[t].cur].data = thread[t].tick]
  /\ Go(t, "publish", thread[t])
  /\ UNCHANGED <<flag, head, tail, reserved, popped, history>>

PushPublish(t) ==
  /\ At(t, "publish")
  /\ LET i == thread[t].cur IN
       Go(t, "own_item", [thread[t] EXCEPT
            !.store = [to |-> "item", at |-> i, val |-> i]])
  /\ UNCHANGED <<flag, head, tail, block, reserved, popped, history>>

\* The loop that advances head_ over ready slots: the load of the slot's flag,
PushOwnItem(t) ==
  /\ At(t, "own_item")
  /\ Go(t, "own_head", [thread[t] EXCEPT
       !.ready = FlagOf(t, thread[t].cur) = thread[t].cur])
  /\ UNCHANGED <<flag, head, tail, block, reserved, popped, history>>

\* the load of head_ and the two tests,
PushOwnHead(t) ==
  /\ At(t, "own_head")
  /\ IF thread[t].cur = HeadOf(t) /\ thread[t].ready
     THEN Go(t, "own_claim", [thread[t] EXCEPT !.ready = FALSE]) ELSE Return(t)
  /\ UNCHANGED <<flag, head, tail, block, reserved, popped, history>>

\* A slot is won by taking its index out of its flag: whoever wins slot i writes
\* mark there, and advances head_ over it.
Claims(t, i) == Drained(t) /\ block[i].flag = i

ClaimM(t, i, mark) ==  \* mutant: the slot is left ready for the next one
  /\ Claims(t, i)
  /\ history' = history \cup Lapped(block[i].data, thread[t].tick)
  /\ UNCHANGED <<flag, head, tail, block, reserved, popped>>

Claim(t, i, mark) ==
  /\ Claims(t, i)
  /\ block' = [block EXCEPT ![i].flag = mark]
  /\ history' = history \cup Lapped(block[i].data, thread[t].tick)
       \cup (IF mark = i THEN {"mismarked"} ELSE {})
  /\ UNCHANGED <<flag, head, tail, reserved, popped>>
HeadStore(i) == [to |-> "head", at |-> 0, val |-> Succ(i)]

PushOwnClaimM(t) ==  \* mutant: head_ is not stored
  LET i == thread[t].cur IN
  /\ At(t, "own_claim") /\ Drained(t)
  /\ \/ /\ Claim(t, i, invalid_index)
        /\ Go(t, "own_item", [thread[t] EXCEPT !.cur = Succ(i), !.tick = @ + 1])
     \/ /\ ~Claims(t, i)
        /\ Return(t)
        /\ UNCHANGED <<flag, head, tail, block, reserved, popped, history>>

\* and compare_exchange_strong on the slot's flag, with the store of head_.
PushOwnClaim(t) ==
  LET i == thread[t].cur IN
  /\ At(t, "own_claim") /\ Drained(t)
  /\ \/ /\ Claim(t, i, invalid_index)
        /\ Go(t, "own_item", [thread[t] EXCEPT !.store = HeadStore(i),
             !.cur = Succ(i), !.tick = @ + 1])
     \/ /\ ~Claims(t, i)
        /\ Return(t)
        /\ UNCHANGED <<flag, head, tail, block, reserved, popped, history>>

-----------------------------------------------------------------------------
(* pop; a push_until_success that popped goes back to its push. *)

PopReturn(t) ==
  IF thread[t].op = "force" THEN Go(t, "flag", Fresh(t)) ELSE Return(t)

\* pop is called, and loads tail_.
PopCall(t) ==
  /\ At(t, "idle")
  /\ Go(t, "head",
       [thread[t] EXCEPT !.op = "pop", !.low = tail, !.tick = Len(popped)])
  /\ UNCHANGED <<flag, head, tail, block, reserved, popped, history>>

\* The same load in push_until_success and after an attempt to advance head_.
PopLow(t) ==
  /\ At(t, "low")
  /\ Go(t, "head", [Fresh(t) EXCEPT !.low = tail, !.tick = Len(popped)])
  /\ UNCHANGED <<flag, head, tail, block, reserved, popped, history>>

\* The number of the element at index i, counted back from flag_.
ElementAt(i) == reserved + 1 - Distance(flag, i)

PopHead(t) ==
  /\ At(t, "head")
  /\ LET h == HeadOf(t) IN
       IF thread[t].low = h
       THEN Go(t, "item", [Fresh(t) EXCEPT !.cur = h, !.tick = ElementAt(h)])
       ELSE Go(t, "read", thread[t])
  /\ UNCHANGED <<flag, head, tail, block, reserved, popped, history>>

\* head_ is at tail_: the load of the slot's flag.  It is empty, or ready.
PopItem(t) ==
  /\ At(t, "item")
  /\ IF FlagOf(t, thread[t].cur) = thread[t].cur
     THEN Go(t, "claim", thread[t]) ELSE PopReturn(t)
  /\ UNCHANGED <<flag, head, tail, block, reserved, popped, history>>

\* compare_exchange_weak on the slot's flag, with the store of head_: the mark
\* is size_limit, which at the last slot is the index itself.
PopClaim(t) ==
  LET i == thread[t].cur IN
  /\ At(t, "claim")
  /\ Claim(t, i, size_limit)
  /\ Go(t, "low", [Fresh(t) EXCEPT !.store = HeadStore(i)])

PopClaimFails(t) ==
  /\ At(t, "claim") /\ Drained(t)
  /\ Go(t, "low", Fresh(t))
  /\ UNCHANGED <<flag, head, tail, block, reserved, popped, history>>

PopRead(t) ==
  /\ At(t, "read")
  /\ Go(t, "take", [thread[t] EXCEPT !.val = block[thread[t].low].data])
  /\ UNCHANGED <<flag, head, tail, block, reserved, popped, history>>

PopTakeM(t) ==  \* mutant: tail_ is stored without a comparison
  /\ At(t, "take") /\ Drained(t)
  /\ tail' = Succ(thread[t].low)
  /\ popped' = Append(popped, thread[t].val)
  /\ history' = history \cup Lapped(Len(popped), thread[t].tick)
  /\ PopReturn(t)
  /\ UNCHANGED <<flag, head, block, reserved>>

\* compare_exchange_weak on tail_.
PopTake(t) ==
  /\ At(t, "take") /\ Drained(t)
  /\ tail = thread[t].low
  /\ tail' = Succ(tail)
  /\ popped' = Append(popped, thread[t].val)
  /\ history' = history \cup Lapped(Len(popped), thread[t].tick)
  /\ PopReturn(t)
  /\ UNCHANGED <<flag, head, block, reserved>>

PopTakeFails(t) ==
  /\ At(t, "take") /\ Drained(t)
  /\ Go(t, "head", [Fresh(t) EXCEPT !.low = tail, !.tick = Len(popped)])
  /\ UNCHANGED <<flag, head, tail, block, reserved, popped, history>>

-----------------------------------------------------------------------------
PushStep(t) ==
  \/ PushFlag(t) \/ PushFull(t) \/ PushReserve(t) \/ PushRetry(t) \/ PushWrite(t)
  \/ PushPublish(t) \/ PushOwnItem(t) \/ PushOwnHead(t) \/ PushOwnClaim(t)

PopStep(t) ==
  \/ PopLow(t) \/ PopHead(t) \/ PopItem(t) \/ PopClaim(t) \/ PopClaimFails(t)
  \/ PopRead(t) \/ PopTake(t) \/ PopTakeFails(t)

Next ==
  \/ \E t \in Pushers : PushCall(t, "push")
  \/ \E t \in Forcers : PushCall(t, "force")
  \/ \E t \in Poppers : PopCall(t)
  \/ \E t \in Threads : PushStep(t) \/ PopStep(t) \/ Drain(t)

\* A call that has begun goes on, a store gets through, and an exchange that
\* can succeed does not fail for ever; nothing obliges anyone to call.
Fairness ==
  \A t \in Threads :
    /\ WF_vars(PushStep(t) \/ PopStep(t))
    /\ SF_vars(PushReserve(t) \/ PopClaim(t) \/ PopTake(t))
    /\ WF_vars(Drain(t))

Spec == Init /\ [][Next]_vars /\ Fairness

-----------------------------------------------------------------------------
(* Properties.  Two events break the queue, and the properties are stated up   *)
(* to them: a thread that stalls while the others go round the whole ring and *)
(* then exchanges an index of the lap before ("lapped"), and a pop that        *)
(* advances head_ over slot size_limit, whose flag then reads as ready again   *)
(* although its element is gone ("mismarked").                                 *)

Intact == history = {}

\* Every variable has its type; an index never leaves the ring.
TypeOK ==
  /\ flag \in Index /\ head \in Index /\ tail \in Index
  /\ \A i \in Index : block[i].flag \in Index \cup {invalid_index}
  /\ history \subseteq {"lapped", "mismarked"}

\* The elements come out of pop in the order in which push reserved their slots
\* (mpmc_queue.h:69), each once: none is lost, doubled, or read from a slot that
\* was not written yet, whoever advanced head_ over it.
InOrder == Intact => \A n \in 1..Len(popped) : popped[n] = n

\* The tests of push (mpmc_queue.h:60-67), made with a tail_ that may be old by
\* the time of the exchange, never let in more than max_size_ - 1 elements, and
\* none when max_size_ is 0.
Capacity ==
  Intact => reserved = Len(popped) \/ reserved - Len(popped) < MaxSize

\* The queue is a bounded FIFO over indices that stay in the ring.
Fifo == TypeOK /\ InOrder /\ Capacity

\* head_ is stored, not exchanged, by pushes and pops (mpmc_queue.h:87, 113), and
\* still never moves back or jumps: the slot's flag makes one thread the winner,
\* and the next slot cannot be won before its store is seen.
HeadForward == [][Intact' => head' \in {head, Succ(head)}]_vars

Quiet == \A t \in Threads : At(t, "idle") /\ Drained(t)

\* When no call is in progress every element that was pushed and not popped can
\* be popped: head_ is past it, or its slot is ready and pop will advance head_
\* over it.  No push counts on another one that has already looked away
\* (mpmc_queue.h:76-86).
NothingStuck ==
  Intact /\ Quiet =>
    \A n \in (Len(popped) + 1)..reserved :
      LET i == (n - 1) % Modulus IN
        \/ Distance(i, tail) < Distance(head, tail)
        \/ block[i] = [data |-> n, flag |-> i]

\* push_until_success returns (mpmc_queue.h:129-134), whatever the others do,
\* when the queue can hold an element and they push finitely often.
ForcedPushEnds ==
  \A t \in Forcers : thread[t].op = "force" ~> (At(t, "idle") \/ ~Intact)
============================================================================
