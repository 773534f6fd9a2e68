--------------------------- MODULE StackingProofs ---------------------------
(* Proofs about Stacking, for any number of runners, tasks and sub-runners, *)
(* and for a stack of any depth.                                            *)
EXTENDS Stacking, SequenceTheorems, WellFoundedInduction, TLAPS

Frames == [runner : Runners, at : {"run", "nested", "task"},
           sub : Runners \union {NoRunner}, disturbed : BOOLEAN]

\* Runner r is at position i of group g.
Holds(gs, g, i, r) ==
  g \in DOMAIN gs /\ i \in DOMAIN gs[g] /\ gs[g][i] = r

-----------------------------------------------------------------------------
(* The inductive invariant, in parts. *)

\* Only a runner with a worker has tasks, and only the task on top of the
\* stack may not have been disturbed yet.
Sane ==
  /\ \A r \in Loose : tasks[r] = 0
  /\ \A k \in 1..Depth : /\ stack[k].runner \notin Loose
                         /\ k < Depth => stack[k].disturbed

\* An undisturbed task finds itself in the thread's variables.
FindsItself ==
  (stack # <<>> /\ ~Top.disturbed)
    => /\ is_task_running /\ local_runner = Top.runner
       /\ Top.runner \in Range(curr_group)

\* A task waits for a sub of its own that has no group or is in two.
Subs ==
  /\ \A k \in 1..Depth :
       stack[k].sub # NoRunner => /\ stack[k].sub # stack[k].runner
                                  /\ stack[k].sub \in Loose \union doubled
  /\ \A j, k \in 1..Depth :
       stack[j].sub = stack[k].sub /\ stack[j].sub # NoRunner => j = k

\* A runner that was never in two groups is at the bottom of its own.
OwnGroup ==
  \A r \in (Runners \ Loose) \ doubled :
    /\ Holds(groups, r, 1, r)
    /\ \A g, i : Holds(groups, g, i, r) => g = r /\ i = 1

\* The sub of such a father is above it in its group, and the father waits,
\* unless its flag was cleared too late.
SubAbove ==
  \A k \in 1..Depth :
    (stack[k].sub # NoRunner /\ stack[k].runner \notin doubled)
      => /\ \E i : Holds(groups, stack[k].runner, i, stack[k].sub)
         /\ stack[k].sub \in stranded \/ (stack[k].at # "run" /\ has_sub_runner[stack[k].runner])

\* A sub without a group of its own is in one place, while a task waits for it.
LoosePlace ==
  \A s \in Loose \ stranded :
    /\ \A g, h, i, j : Holds(groups, g, i, s) /\ Holds(groups, h, j, s) => g = h /\ i = j
    /\ \A g, i : Holds(groups, g, i, s) => \E k \in 1..Depth : stack[k].sub = s

\* A runner with a group of its own is in a place, and in two while it is a sub.
Homed ==
  \A r \in Runners \ Loose :
    /\ \E g, i : Holds(groups, g, i, r)
    /\ (\E k \in 1..Depth : stack[k].sub = r)
         => \E g, h, i, j :
              Holds(groups, g, i, r) /\ Holds(groups, h, j, r) /\ (g # h \/ i # j)

Nested ==
  Subs /\ OwnGroup /\ SubAbove /\ NoReentry /\ LoosePlace /\ Homed

Inv == TypeOK /\ Sane /\ FindsItself /\ Nested

-----------------------------------------------------------------------------
(* Sequences. *)

\* A set of naturals has a least member.
LEMMA Less == \A i, k \in Nat : i < k => <<i, k>> \in OpToRel(<, Nat)
  BY Zenon DEF OpToRel

LEMMA LeastOf ==
  ASSUME NEW T \in SUBSET Nat, T # {}
  PROVE  \E x \in T : \A y \in T : x <= y
<1>1. PICK x \in T : \A y \in T : ~(<<y, x>> \in OpToRel(<, Nat))
  BY NatLessThanWellFounded, WFMin, Zenon
<1>2. \A y \in T : ~(y < x)
  BY <1>1, Less, Zenon
<1>3. \A y \in T : y \in Nat /\ x \in Nat
  OBVIOUS
<1>4. \A y \in T : x <= y
  BY <1>2, <1>3
<1> QED BY <1>4

\* erase() of the first occurrence: the element at k goes, the ones after it
\* move down.
LEMMA EraseFirst ==
  ASSUME NEW S, NEW q \in Seq(S), NEW s, s \in Range(q)
  PROVE  \E k \in 1..Len(q) :
           /\ q[k] = s
           /\ RemoveFirst(q, s) \in Seq(S)
           /\ Len(RemoveFirst(q, s)) = Len(q) - 1
           /\ \A i \in 1..(Len(q) - 1) :
                RemoveFirst(q, s)[i] = IF i < k THEN q[i] ELSE q[i + 1]
<1> DEFINE I == {i \in 1..Len(q) : q[i] = s}
<1>1. Len(q) \in Nat /\ DOMAIN q = 1..Len(q)
  OBVIOUS
<1>2. PICK m \in 1..Len(q) : q[m] = s
  BY <1>1 DEF Range
<1>3. I \in SUBSET Nat /\ I # {}
  BY <1>1, <1>2
<1>4. PICK k \in I : \A i \in I : k <= i
  <2> HIDE DEF I
  <2> QED BY <1>3, LeastOf
<1>5. Min(I) = k
  <2>1. k \in I /\ k \in Nat /\ \A i \in I : i \in Nat
    BY <1>1
  <2>2. \A x \in I : (\A y \in I : x <= y) => x = k
    BY <1>4, <2>1
  <2> HIDE DEF I
  <2> QED BY <1>4, <2>1, <2>2 DEF Min
<1>6. SelectInSeq(q, LAMBDA v : v = s) = k
  BY <1>2, <1>5 DEF SelectInSeq
<1>7. k \in 1..Len(q) /\ q[k] = s
  OBVIOUS
<1>8. RemoveFirst(q, s) = RemoveAt(q, k)
  BY <1>6, <1>7 DEF RemoveFirst
<1> DEFINE a == SubSeq(q, 1, k - 1)
           b == SubSeq(q, k + 1, Len(q))
<1> HIDE DEF I
<1>9. /\ a \in Seq(S) /\ Len(a) = k - 1 /\ \A i \in 1..(k - 1) : a[i] = q[i]
      /\ b \in Seq(S) /\ Len(b) = Len(q) - k
      /\ \A i \in 1..(Len(q) - k) : b[i] = q[k + i]
  <2>1. k \in Int /\ k - 1 \in Int /\ k + 1 \in Int /\ Len(q) \in Int
        /\ 1 <= k /\ k <= Len(q)
    BY <1>1, <1>7
  <2>2. \A i \in 1..Len(q) : q[i] \in S
    BY <1>1
  <2>3. (\A i \in 1..(k - 1) : q[i] \in S) /\ (\A i \in (k + 1)..Len(q) : q[i] \in S)
    BY <1>1, <2>1, <2>2
  <2>4. /\ a \in Seq(S) /\ Len(a) = IF 1 <= k - 1 THEN k - 1 - 1 + 1 ELSE 0
        /\ \A i \in 1..(k - 1 - 1 + 1) : a[i] = q[1 + i - 1]
    BY <2>1, <2>3, SubSeqProperties
  <2>5. /\ b \in Seq(S) /\ Len(b) = IF k + 1 <= Len(q) THEN Len(q) - (k + 1) + 1 ELSE 0
        /\ \A i \in 1..(Len(q) - (k + 1) + 1) : b[i] = q[k + 1 + i - 1]
    BY <2>1, <2>3, SubSeqProperties
  <2> HIDE DEF a, b
  <2>6. Len(a) = k - 1 /\ \A i \in 1..(k - 1) : a[i] = q[i]
    BY <2>1, <2>4
  <2>7. Len(b) = Len(q) - k /\ \A i \in 1..(Len(q) - k) : b[i] = q[k + i]
    <3>1. Len(b) = Len(q) - k
      BY <2>1, <2>5
    <3>2. ASSUME NEW i \in 1..(Len(q) - k) PROVE b[i] = q[k + i]
      <4>1. i \in 1..(Len(q) - (k + 1) + 1) /\ k + 1 + i - 1 = k + i
        BY <2>1
      <4> QED BY <2>5, <4>1
    <3> QED BY <3>1, <3>2
  <2> QED BY <2>4, <2>5, <2>6, <2>7
<1> HIDE DEF a, b
<1>10. /\ a \o b \in Seq(S) /\ Len(a \o b) = Len(q) - 1
       /\ \A i \in 1..(Len(q) - 1) : (a \o b)[i] = IF i < k THEN q[i] ELSE q[i + 1]
  <2>3. /\ a \o b \in Seq(S) /\ Len(a \o b) = Len(a) + Len(b)
        /\ \A i \in 1..(Len(a) + Len(b)) :
             (a \o b)[i] = IF i <= Len(a) THEN a[i] ELSE b[i - Len(a)]
    BY <1>9, ConcatProperties
  <2>4. k \in Nat /\ Len(q) \in Nat /\ Len(a) + Len(b) = Len(q) - 1
    BY <1>1, <1>7, <1>9
  <2>1. a \o b \in Seq(S) /\ Len(a \o b) = Len(q) - 1
    BY <2>3, <2>4
  <2>2. ASSUME NEW i \in 1..(Len(q) - 1)
        PROVE  (a \o b)[i] = IF i < k THEN q[i] ELSE q[i + 1]
    <3>1. CASE i < k
      <4>1. i <= Len(a) /\ i \in 1..(Len(a) + Len(b)) /\ i \in 1..(k - 1)
        BY <1>9, <2>4, <3>1
      <4> QED BY <1>9, <2>3, <3>1, <4>1
    <3>2. CASE ~(i < k)
      <4>1. i - (k - 1) \in 1..(Len(q) - k) /\ k + (i - (k - 1)) = i + 1
        BY <1>1, <1>7, <3>2
      <4>2. (a \o b)[i] = b[i - (k - 1)]
        <5>1. ~(i <= Len(a)) /\ i \in 1..(Len(a) + Len(b)) /\ Len(a) = k - 1
          BY <1>9, <2>4, <3>2
        <5> QED BY <2>3, <5>1
      <4> QED BY <1>9, <3>2, <4>1, <4>2
    <3> QED BY <3>1, <3>2
  <2> QED BY <2>1, <2>2
<1>11. RemoveFirst(q, s) = a \o b
  BY <1>8 DEF RemoveAt, a, b
<1> QED BY <1>7, <1>10, <1>11

\* A stack of which one frame is replaced.
LEMMA Replaced ==
  ASSUME NEW st \in Seq(Frames), NEW k \in 1..Len(st), NEW fr \in Frames
  PROVE  LET new == [st EXCEPT ![k] = fr] IN
         /\ new \in Seq(Frames) /\ Len(new) = Len(st) /\ new[k] = fr
         /\ \A i \in 1..Len(st) : i # k => new[i] = st[i]
  OBVIOUS

\* The frames after RunTask came back, and under a task that begins.
LEMMA UnderTask ==
  ASSUME NEW st \in Seq(Frames)
  PROVE  /\ BackToLoop(st) \in Seq(Frames) /\ Len(BackToLoop(st)) = Len(st)
         /\ \A i \in 1..Len(st) :
              /\ BackToLoop(st)[i].runner = st[i].runner
              /\ BackToLoop(st)[i].sub = st[i].sub
              /\ BackToLoop(st)[i].disturbed = st[i].disturbed
              /\ BackToLoop(st)[i].at = IF i = Len(st) THEN "nested" ELSE st[i].at
         /\ Disturbed(st) \in Seq(Frames) /\ Len(Disturbed(st)) = Len(st)
         /\ \A i \in 1..Len(st) :
              /\ Disturbed(st)[i].runner = st[i].runner
              /\ Disturbed(st)[i].sub = st[i].sub
              /\ Disturbed(st)[i].disturbed = (i = Len(st) \/ st[i].disturbed)
              /\ Disturbed(st)[i].at = IF i = Len(st) THEN "nested" ELSE st[i].at
<1>1. CASE st = <<>>
  <2>1. BackToLoop(st) = st /\ Disturbed(st) = st /\ Len(st) = 0
    BY <1>1 DEF BackToLoop, Disturbed
  <2> QED BY <2>1
<1>2. CASE st # <<>>
  <2> DEFINE n == Len(st)
             x == [st[n] EXCEPT !.at = "nested"]
             y == [x EXCEPT !.disturbed = TRUE]
             b == [st EXCEPT ![n] = x]
             d == [b EXCEPT ![n] = y]
  <2>1. n \in 1..Len(st) /\ st[n] \in Frames /\ \A i \in 1..n : st[i] \in Frames
    BY <1>2
  <2>2. BackToLoop(st) = b /\ Disturbed(st) = d
    <3>1. BackToLoop(st) = b
      BY <1>2 DEF BackToLoop
    <3>2. b[n] = x
      BY <2>1
    <3>3. Disturbed(st) = [b EXCEPT ![n] = [b[n] EXCEPT !.disturbed = TRUE]]
      BY <1>2, <3>1 DEF Disturbed
    <3> QED BY <3>1, <3>2, <3>3
  <2>3. /\ x \in Frames /\ x.at = "nested" /\ x.runner = st[n].runner
        /\ x.sub = st[n].sub /\ x.disturbed = st[n].disturbed
    BY <2>1 DEF Frames
  <2>4. /\ y \in Frames /\ y.at = "nested" /\ y.runner = st[n].runner
        /\ y.sub = st[n].sub /\ y.disturbed = TRUE
    BY <2>3 DEF Frames
  <2> HIDE DEF x, y
  <2>5. /\ b \in Seq(Frames) /\ Len(b) = n /\ b[n] = x
        /\ \A i \in 1..n : i # n => b[i] = st[i]
    BY <2>1, <2>3, Replaced
  <2> HIDE DEF b
  <2>6. /\ d \in Seq(Frames) /\ Len(d) = n /\ d[n] = y
        /\ \A i \in 1..n : i # n => d[i] = b[i]
    BY <2>1, <2>4, <2>5, Replaced
  <2>7. \A i \in 1..n : i # n => d[i] = st[i]
    BY <2>5, <2>6
  <2> HIDE DEF d
  <2>8. \A i \in 1..n : (i # n /\ st[i].disturbed) => d[i].disturbed = TRUE
    BY <2>1, <2>7 DEF Frames
  <2>9. \A i \in 1..n : d[i].disturbed = (i = n \/ st[i].disturbed)
    <3> TAKE i \in 1..n
    <3>1. CASE i = n
      BY <2>4, <2>6, <3>1
    <3>2. CASE i # n
      <4>1. d[i] = st[i] /\ st[i].disturbed \in BOOLEAN
        BY <2>1, <2>7, <3>2 DEF Frames
      <4> QED BY <3>2, <4>1
    <3> QED BY <3>1, <3>2
  <2> QED BY <2>2, <2>3, <2>4, <2>5, <2>6, <2>7, <2>9
<1> QED BY <1>1, <1>2

-----------------------------------------------------------------------------
(* Groups. *)

Groups == [Runners \ Loose -> Seq(Runners)]

\* What Holds is about, and how it says that a runner is in a group.
LEMMA Held ==
  ASSUME NEW gs \in Groups
  PROVE  /\ \A g, i, r : Holds(gs, g, i, r)
              => /\ g \in Runners \ Loose /\ r \in Runners
                 /\ i \in Int /\ 1 <= i /\ i <= Len(gs[g])
         /\ \A g \in Runners \ Loose : \A r :
              r \in Range(gs[g]) <=> \E i : Holds(gs, g, i, r)
         /\ \A g, i, r, q :
              Holds(gs, g, i, r) /\ Holds(gs, g, i, q) => r = q
         /\ DOMAIN gs = Runners \ Loose
<1>1. DOMAIN gs = Runners \ Loose /\ \A g \in Runners \ Loose : gs[g] \in Seq(Runners)
  BY DEF Groups
<1>2. ASSUME NEW g, NEW i, NEW r, Holds(gs, g, i, r)
      PROVE  /\ g \in Runners \ Loose /\ r \in Runners
             /\ i \in Int /\ 1 <= i /\ i <= Len(gs[g])
  BY <1>1, <1>2 DEF Holds
<1>3. \A g \in Runners \ Loose : \A r :
        r \in Range(gs[g]) <=> \E i : Holds(gs, g, i, r)
  BY <1>1 DEF Holds, Range
<1>4. \A g, i, r, q : Holds(gs, g, i, r) /\ Holds(gs, g, i, q) => r = q
  BY DEF Holds
<1> QED BY <1>1, <1>2, <1>3, <1>4

\* BindGroup: s is on top of a group and nothing else has changed.
LEMMA Pushed ==
  ASSUME NEW gs \in Groups, NEW g \in Runners \ Loose, NEW s \in Runners
  PROVE  LET new == [gs EXCEPT ![g] = Append(@, s)] IN
         /\ new \in Groups
         /\ \A h, i, r : Holds(new, h, i, r)
              <=> \/ Holds(gs, h, i, r)
                  \/ h = g /\ i = Len(gs[g]) + 1 /\ r = s
<1> DEFINE new == [gs EXCEPT ![g] = Append(gs[g], s)]
<1>1. DOMAIN gs = Runners \ Loose /\ \A h \in Runners \ Loose : gs[h] \in Seq(Runners)
  BY DEF Groups
<1>2. /\ Append(gs[g], s) \in Seq(Runners)
      /\ DOMAIN Append(gs[g], s) = 1..(Len(gs[g]) + 1)
      /\ DOMAIN gs[g] = 1..Len(gs[g]) /\ Len(gs[g]) \in Nat
      /\ \A i \in 1..Len(gs[g]) : Append(gs[g], s)[i] = gs[g][i]
      /\ Append(gs[g], s)[Len(gs[g]) + 1] = s
  BY <1>1
<1>3. /\ new \in Groups /\ DOMAIN new = Runners \ Loose
      /\ new[g] = Append(gs[g], s)
      /\ \A h \in Runners \ Loose : h # g => new[h] = gs[h]
  BY <1>1, <1>2 DEF Groups
<1> HIDE DEF new
<1>4. ASSUME NEW h, NEW i, NEW r
      PROVE  Holds(new, h, i, r)
               <=> \/ Holds(gs, h, i, r)
                   \/ h = g /\ i = Len(gs[g]) + 1 /\ r = s
  <2>1. CASE h = g
    BY <1>1, <1>2, <1>3, <2>1 DEF Holds
  <2>2. CASE h # g
    BY <1>1, <1>3, <2>2 DEF Holds
  <2> QED BY <2>1, <2>2
<1> QED BY <1>3, <1>4 DEF new

\* UnBind: s is gone from a place, and what was above it is one lower.
LEMMA Erased ==
  ASSUME NEW gs \in Groups, NEW g \in Runners \ Loose, NEW s, s \in Range(gs[g])
  PROVE  LET new == [gs EXCEPT ![g] = RemoveFirst(@, s)] IN
         \E k \in Int :
           /\ new \in Groups /\ Holds(gs, g, k, s)
           /\ \A h, i, r : Holds(new, h, i, r)
                => Holds(gs, h, IF h = g /\ k <= i THEN i + 1 ELSE i, r)
           /\ \A h, i, r : (Holds(gs, h, i, r) /\ ~(h = g /\ i = k))
                => Holds(new, h, IF h = g /\ k < i THEN i - 1 ELSE i, r)
<1> DEFINE q == gs[g]
           x == RemoveFirst(q, s)
           new == [gs EXCEPT ![g] = x]
<1>1. DOMAIN gs = Runners \ Loose /\ \A h \in Runners \ Loose : gs[h] \in Seq(Runners)
  BY DEF Groups
<1>2. q \in Seq(Runners) /\ DOMAIN q = 1..Len(q) /\ Len(q) \in Nat
  BY <1>1
<1>3. PICK k \in 1..Len(q) :
        /\ q[k] = s
        /\ x \in Seq(Runners)
        /\ Len(x) = Len(q) - 1
        /\ \A i \in 1..(Len(q) - 1) : x[i] = IF i < k THEN q[i] ELSE q[i + 1]
  <2>1. s \in Range(q) /\ q \in Seq(Runners)
    BY <1>2
  <2> HIDE DEF q
  <2>2. q \in Seq(Runners)
    BY <2>1
  <2>3. s \in Range(q)
    BY <2>1
  <2> QED BY <2>2, <2>3, EraseFirst
<1>4. DOMAIN x = 1..(Len(q) - 1)
  BY <1>3
<1>5. /\ new \in Groups /\ DOMAIN new = Runners \ Loose /\ new[g] = x
      /\ \A h \in Runners \ Loose : h # g => new[h] = gs[h]
  <2> HIDE DEF x
  <2> QED BY <1>1, <1>3 DEF Groups
<1> HIDE DEF x, new
<1>6. k \in Int /\ Holds(gs, g, k, s)
  BY <1>1, <1>2, <1>3 DEF Holds
<1> HIDE DEF q
<1>7. ASSUME NEW h, NEW i, NEW r, Holds(new, h, i, r)
      PROVE  Holds(gs, h, IF h = g /\ k <= i THEN i + 1 ELSE i, r)
  <2>1. CASE h = g
    <3>1. i \in 1..(Len(q) - 1) /\ x[i] = r
      BY <1>4, <1>5, <1>7, <2>1 DEF Holds
    <3>2. CASE k <= i
      <4>1. i + 1 \in DOMAIN q /\ q[i + 1] = r
        BY <1>2, <1>3, <3>1, <3>2
      <4> QED BY <1>1, <2>1, <3>2, <4>1 DEF Holds, q
    <3>3. CASE ~(k <= i)
      <4>1. i \in DOMAIN q /\ q[i] = r
        BY <1>2, <1>3, <3>1, <3>3
      <4> QED BY <1>1, <2>1, <3>3, <4>1 DEF Holds, q
    <3> QED BY <3>2, <3>3
  <2>2. CASE h # g
    BY <1>1, <1>5, <1>7, <2>2 DEF Holds
  <2> QED BY <2>1, <2>2
<1>8. ASSUME NEW h, NEW i, NEW r, Holds(gs, h, i, r), ~(h = g /\ i = k)
      PROVE  Holds(new, h, IF h = g /\ k < i THEN i - 1 ELSE i, r)
  <2>1. CASE h = g
    <3>1. i \in 1..Len(q) /\ q[i] = r /\ i # k
      BY <1>2, <1>8, <2>1 DEF Holds, q
    <3>2. CASE k < i
      <4>1. i - 1 \in DOMAIN x /\ x[i - 1] = r
        <5>1. i - 1 \in 1..(Len(q) - 1) /\ ~(i - 1 < k) /\ (i - 1) + 1 = i
          BY <1>2, <1>3, <3>1, <3>2
        <5> QED BY <1>3, <1>4, <3>1, <5>1
      <4> QED BY <1>5, <2>1, <3>2, <4>1 DEF Holds
    <3>3. CASE ~(k < i)
      <4>1. i \in DOMAIN x /\ x[i] = r
        BY <1>2, <1>3, <1>4, <3>1, <3>3
      <4> QED BY <1>5, <2>1, <3>3, <4>1 DEF Holds
    <3> QED BY <3>2, <3>3
  <2>2. CASE h # g
    BY <1>1, <1>5, <1>8, <2>2 DEF Holds
  <2> QED BY <2>1, <2>2
<1> QED BY <1>5, <1>6, <1>7, <1>8 DEF new, x, q

-----------------------------------------------------------------------------
(* The steps, for what the tasks that wait rest on. *)

\* A step that leaves the groups, the flags and the tasks on the stack alone.
LEMMA KeepsTasks ==
  ASSUME Nested,
         UNCHANGED <<groups, has_sub_runner, doubled, stranded>>,
         Len(stack') = Len(stack),
         \A k \in 1..Depth :
           /\ stack'[k].runner = stack[k].runner /\ stack'[k].sub = stack[k].sub
           /\ stack'[k].at = "run"
                => stack[k].at = "run" \/ ~has_sub_runner[stack[k].runner]
  PROVE  Nested'
<1>1. Depth' = Depth
  BY DEF Depth
<1>2. Subs'
  BY <1>1 DEF Nested, Subs
<1>3. OwnGroup'
  BY DEF Nested, OwnGroup
<1>4. SubAbove'
  <2> SUFFICES ASSUME NEW k \in 1..Depth, stack'[k].sub # NoRunner,
                      stack'[k].runner \notin doubled
               PROVE  /\ \E i : Holds(groups, stack'[k].runner, i, stack'[k].sub)
                      /\ stack'[k].sub \in stranded \/ (stack'[k].at # "run" /\ has_sub_runner[stack'[k].runner])
    BY <1>1 DEF SubAbove
  <2>1. stack'[k].runner = stack[k].runner /\ stack'[k].sub = stack[k].sub
    OBVIOUS
  <2>2. /\ \E i : Holds(groups, stack[k].runner, i, stack[k].sub)
        /\ stack[k].sub \in stranded \/ (stack[k].at # "run" /\ has_sub_runner[stack[k].runner])
    BY <2>1 DEF Nested, SubAbove
  <2> QED BY <2>1, <2>2
<1>5. NoReentry'
  BY <1>1 DEF Nested, NoReentry
<1>6. LoosePlace'
  BY <1>1 DEF Nested, LoosePlace
<1>7. Homed'
  BY <1>1 DEF Nested, Homed
<1> QED BY <1>2, <1>3, <1>4, <1>5, <1>6, <1>7 DEF Nested

\* A task of runner r begins, the top of some group.
LEMMA TaskBegins ==
  ASSUME TypeOK, Sane, Nested, NEW g \in DOMAIN groups, groups[g] # <<>>,
         stack' = Append(Disturbed(stack), Frame(NextRunner(g))),
         UNCHANGED <<groups, has_sub_runner, doubled, stranded>>
  PROVE  Nested'
<1> DEFINE n == Len(stack)
           r == NextRunner(g)
<1>1. /\ stack \in Seq(Frames) /\ groups \in Groups /\ n \in Nat
      /\ DOMAIN groups = Runners \ Loose
  BY DEF TypeOK, Frames, Groups
<1>2. r \in Runners /\ Holds(groups, g, Len(groups[g]), r)
  <2>1. groups[g] \in Seq(Runners)
    BY <1>1 DEF Groups
  <2> QED BY <2>1 DEF Holds, NextRunner, Last
<1>3. /\ Frame(r) \in Frames /\ Frame(r).runner = r /\ Frame(r).sub = NoRunner
      /\ Frame(r).at = "run"
  BY <1>2 DEF Frame, Frames
<1>4. /\ Disturbed(stack) \in Seq(Frames) /\ Len(Disturbed(stack)) = n
      /\ \A k \in 1..n :
           /\ Disturbed(stack)[k].runner = stack[k].runner
           /\ Disturbed(stack)[k].sub = stack[k].sub
           /\ Disturbed(stack)[k].at = IF k = n THEN "nested" ELSE stack[k].at
  BY <1>1, UnderTask
<1>5. /\ Len(stack') = n + 1 /\ stack'[n + 1] = Frame(r)
      /\ \A k \in 1..n : stack'[k] = Disturbed(stack)[k]
  <2> HIDE DEF r
  <2>1. stack' = Append(Disturbed(stack), Frame(r))
    BY DEF r
  <2> QED BY <1>1, <1>3, <1>4, <2>1
<1> HIDE DEF r
<1>6. /\ \A k \in 1..n : /\ stack'[k].runner = stack[k].runner
                         /\ stack'[k].sub = stack[k].sub
                         /\ stack'[k].at = "run" => stack[k].at = "run"
      /\ stack'[n + 1].runner = r /\ stack'[n + 1].sub = NoRunner
      /\ Depth = n /\ Depth' = n + 1
      /\ \A k \in 1..(n + 1) : k \in 1..n \/ k = n + 1
      /\ \A k \in 1..n : k \in 1..(n + 1)
  BY <1>1, <1>3, <1>4, <1>5 DEF Depth
<1> HIDE DEF n
<1>7. Subs'
  <2>1. \A k \in 1..(n + 1) : stack'[k].sub # NoRunner => k \in 1..n
    BY <1>6
  <2>2. ASSUME NEW k \in 1..(n + 1), stack'[k].sub # NoRunner
        PROVE  /\ stack'[k].sub # stack'[k].runner
               /\ stack'[k].sub \in Loose \union doubled
    BY <1>6, <2>1, <2>2 DEF Nested, Subs
  <2>3. ASSUME NEW j \in 1..(n + 1), NEW k \in 1..(n + 1),
               stack'[j].sub = stack'[k].sub, stack'[j].sub # NoRunner
        PROVE  j = k
    BY <1>6, <2>1, <2>3 DEF Nested, Subs
  <2> QED BY <1>6, <2>2, <2>3 DEF Subs
<1>8. OwnGroup'
  BY DEF Nested, OwnGroup
<1>9. SubAbove'
  <2> SUFFICES ASSUME NEW k \in 1..(n + 1), stack'[k].sub # NoRunner,
                      stack'[k].runner \notin doubled
               PROVE  /\ \E i : Holds(groups, stack'[k].runner, i, stack'[k].sub)
                      /\ stack'[k].sub \in stranded \/ (stack'[k].at # "run" /\ has_sub_runner[stack'[k].runner])
    BY <1>6 DEF SubAbove
  <2>1. /\ k \in 1..n /\ stack'[k].runner = stack[k].runner
        /\ stack'[k].sub = stack[k].sub
        /\ stack'[k].at = "run" => stack[k].at = "run"
    BY <1>6
  <2>2. /\ \E i : Holds(groups, stack[k].runner, i, stack[k].sub)
        /\ stack[k].sub \in stranded \/ (stack[k].at # "run" /\ has_sub_runner[stack[k].runner])
    BY <1>6, <2>1 DEF Nested, SubAbove
  <2> QED BY <2>1, <2>2
<1>10. ASSUME NEW j \in 1..n, stack[j].sub # NoRunner,
              stack[j].runner \notin doubled, stack[j].runner = r
       PROVE  FALSE
  <2>1. r \in (Runners \ Loose) \ doubled
    BY <1>2, <1>6, <1>10 DEF Sane
  <2>2. g = r /\ Len(groups[g]) = 1
    BY <1>2, <2>1 DEF Nested, OwnGroup
  <2>3. PICK i : Holds(groups, r, i, stack[j].sub)
    BY <1>6, <1>10 DEF Nested, SubAbove
  <2>4. i \in Int /\ 1 <= i /\ i <= Len(groups[r])
    BY <1>1, <2>3, Held
  <2>5. i = 1
    BY <2>2, <2>4
  <2>6. stack[j].sub = r
    BY <1>1, <1>2, <2>2, <2>3, <2>5, Held
  <2> QED BY <1>6, <1>10, <2>6 DEF Nested, Subs
<1>11. NoReentry'
  <2> SUFFICES ASSUME NEW j \in 1..(n + 1), NEW k \in 1..(n + 1), j < k,
                      stack'[j].sub # NoRunner, stack'[j].runner \notin doubled
               PROVE  stack'[k].runner # stack'[j].runner
    BY <1>6 DEF NoReentry
  <2>1. j \in 1..n /\ stack'[j].runner = stack[j].runner /\ stack'[j].sub = stack[j].sub
    BY <1>6
  <2>2. CASE k \in 1..n
    <3>1. stack'[k].runner = stack[k].runner
      BY <1>6, <2>2
    <3>2. stack[k].runner # stack[j].runner
      BY <1>6, <2>1, <2>2 DEF Nested, NoReentry
    <3> QED BY <2>1, <3>1, <3>2
  <2>3. CASE k = n + 1
    BY <1>6, <1>10, <2>1, <2>3
  <2> QED BY <1>6, <2>2, <2>3
<1>12. LoosePlace'
  <2>1. \A s \in Loose \ stranded : \A f, h, i, j :
          Holds(groups, f, i, s) /\ Holds(groups, h, j, s) => f = h /\ i = j
    BY DEF Nested, LoosePlace
  <2>2. \A s \in Loose \ stranded : \A h, i :
          Holds(groups, h, i, s) => \E k \in 1..n : stack[k].sub = s
    BY <1>6 DEF Nested, LoosePlace
  <2>3. \A s : (\E k \in 1..n : stack[k].sub = s)
                 => \E k \in 1..(n + 1) : stack'[k].sub = s
    BY <1>6
  <2>4. \A s \in Loose \ stranded : \A h, i :
          Holds(groups, h, i, s) => \E k \in 1..Depth' : stack'[k].sub = s
    BY <1>6, <2>2, <2>3
  <2>5. \A s \in Loose \ stranded' : \A h, i :
          Holds(groups', h, i, s) => \E k \in 1..Depth' : stack'[k].sub = s
    BY <2>4
  <2>6. \A s \in Loose \ stranded' : \A f, h, i, j :
          Holds(groups', f, i, s) /\ Holds(groups', h, j, s) => f = h /\ i = j
    BY <2>1
  <2> QED BY <2>5, <2>6 DEF LoosePlace
<1>13. Homed'
  <2> SUFFICES ASSUME NEW q \in Runners \ Loose
               PROVE  /\ \E h, i : Holds(groups, h, i, q)
                      /\ (\E k \in 1..(n + 1) : stack'[k].sub = q)
                           => \E f, h, i, j : Holds(groups, f, i, q)
                                /\ Holds(groups, h, j, q) /\ (f # h \/ i # j)
    BY <1>6 DEF Homed
  <2>1. (\E k \in 1..(n + 1) : stack'[k].sub = q) => \E k \in 1..n : stack[k].sub = q
    BY <1>6, LooseAssumption
  <2> QED BY <1>6, <2>1 DEF Nested, Homed
<1> QED BY <1>7, <1>8, <1>9, <1>11, <1>12, <1>13 DEF Nested

\* A sub that the task on top leaves behind while it runs: its father was in
\* two groups, or its flag was cleared too late.
LEMMA LeftBehind ==
  ASSUME TypeOK, Nested, Sane, InTask, Strand
  PROVE  stranded \subseteq stranded' /\ (Top.sub # NoRunner => Top.sub \in stranded')
<1>1. Depth \in 1..Depth /\ Top = stack[Depth] /\ Top.at = "run"
  BY DEF InTask, TypeOK, Depth, Top
<1>2. Top.sub # NoRunner => Top.runner \in doubled \/ Top.sub \in stranded
  BY <1>1 DEF Nested, SubAbove
<1> QED BY <1>2 DEF Strand

\* The task on top ends.
LEMMA TaskEnds ==
  ASSUME TypeOK, Sane, Nested, InTask, Strand, stack' = Front(stack),
         UNCHANGED <<groups, has_sub_runner, doubled>>
  PROVE  Nested'
<1> DEFINE n == Len(stack)
<1>1. stack \in Seq(Frames) /\ n \in Nat /\ n >= 1 /\ Depth = n /\ Top = stack[n]
  BY DEF TypeOK, Frames, InTask, Depth, Top
<1>2. Depth' = n - 1 /\ \A k \in 1..(n - 1) : stack'[k] = stack[k]
  <2>1. stack' = SubSeq(stack, 1, n - 1) /\ n - 1 \in Int /\ 1 \in Int
    BY <1>1 DEF Front
  <2>2. \A i \in 1..(n - 1) : stack[i] \in Frames
    BY <1>1
  <2>3. /\ Len(stack') = IF 1 <= n - 1 THEN n - 1 - 1 + 1 ELSE 0
        /\ \A i \in 1..(n - 1 - 1 + 1) : stack'[i] = stack[1 + i - 1]
    BY <2>1, <2>2, SubSeqProperties
  <2>4. Depth' = n - 1
    <3>1. n \in Nat /\ n >= 1 /\ Depth' = Len(stack')
      BY <1>1 DEF Depth
    <3> HIDE DEF n
    <3> QED BY <2>3, <3>1
  <2>5. ASSUME NEW k \in 1..(n - 1) PROVE stack'[k] = stack[k]
    <3>1. k \in 1..(n - 1 - 1 + 1) /\ 1 + k - 1 = k
      BY <1>1
    <3> QED BY <2>3, <3>1
  <2> QED BY <2>4, <2>5
<1> HIDE DEF n
<1>3. /\ \A k \in 1..(n - 1) : k \in 1..n
      /\ \A k \in 1..n : k \in 1..(n - 1) \/ k = n
  BY <1>1
<1>4. Subs' /\ NoReentry'
  BY <1>1, <1>2, <1>3 DEF Nested, Subs, NoReentry
<1>5. OwnGroup'
  BY DEF Nested, OwnGroup
<1>6. SubAbove'
  <2>0. stranded \subseteq stranded'
    BY LeftBehind
  <2>1. \A k \in 1..(n - 1) :
          (stack[k].sub # NoRunner /\ stack[k].runner \notin doubled)
            => /\ \E i : Holds(groups, stack[k].runner, i, stack[k].sub)
               /\ stack[k].sub \in stranded \/ (stack[k].at # "run" /\ has_sub_runner[stack[k].runner])
    BY <1>1, <1>3 DEF Nested, SubAbove
  <2> QED BY <1>2, <2>0, <2>1 DEF SubAbove
<1>7. LoosePlace'
  <2>1. stranded \subseteq stranded' /\ (Top.sub # NoRunner => Top.sub \in stranded')
    BY LeftBehind
  <2>2. \A s \in Loose \ stranded' : \A f, h, i, j :
          Holds(groups', f, i, s) /\ Holds(groups', h, j, s) => f = h /\ i = j
    <3>1. \A s \in Loose \ stranded' : \A f, h, i, j :
            Holds(groups, f, i, s) /\ Holds(groups, h, j, s) => f = h /\ i = j
      BY <2>1 DEF Nested, LoosePlace
    <3> QED BY <3>1
  <2>3. ASSUME NEW s \in Loose \ stranded', NEW h, NEW i, Holds(groups', h, i, s)
        PROVE  \E k \in 1..Depth' : stack'[k].sub = s
    <3>1. Holds(groups, h, i, s)
      BY <2>3
    <3>2. PICK k \in 1..n : stack[k].sub = s
      BY <1>1, <2>1, <3>1 DEF Nested, LoosePlace
    <3>3. k # n
      BY <1>1, <2>1, <3>2, LooseAssumption
    <3> QED BY <1>2, <1>3, <3>2, <3>3
  <2>4. \A s \in Loose \ stranded' : \A h, i :
          Holds(groups', h, i, s) => \E k \in 1..Depth' : stack'[k].sub = s
    BY <2>3
  <2> QED BY <2>2, <2>4 DEF LoosePlace
<1>8. Homed'
  BY <1>1, <1>2, <1>3 DEF Nested, Homed
<1> QED BY <1>4, <1>5, <1>6, <1>7, <1>8 DEF Nested

\* A task adds a sub above its runner and waits.
LEMMA TaskWaits ==
  ASSUME TypeOK, Sane, Nested, NEW s \in Runners, AddSubTaskRunner(s)
  PROVE  Nested'
<1> DEFINE n == Len(stack)
           f == Top.runner
<1>1. /\ stack \in Seq(Frames) /\ groups \in Groups /\ n \in Nat /\ n >= 1
      /\ Depth = n /\ Top = stack[n] /\ stack[n] \in Frames
      /\ DOMAIN groups = Runners \ Loose /\ f \in Runners \ Loose /\ f # s
  <2>1. stack \in Seq(Frames) /\ groups \in Groups
    BY DEF TypeOK, Frames, Groups
  <2>2. /\ stack # <<>> /\ Depth = n /\ Top = stack[n]
        /\ Top.runner \notin Loose /\ Top.runner # s
    BY DEF AddSubTaskRunner, InTask, Depth, Top
  <2>3. n \in Nat /\ n >= 1 /\ stack[n] \in Frames
    BY <2>1, <2>2
  <2>4. stack[n].runner \in Runners /\ DOMAIN groups = Runners \ Loose
    BY <2>1, <2>3 DEF Frames, Groups
  <2> QED BY <2>1, <2>2, <2>3, <2>4
<1>2. /\ Depth' = n /\ stack'[n].sub = s /\ stack'[n].at = "nested"
      /\ stack'[n].runner = f /\ \A k \in 1..n : k # n => stack'[k] = stack[k]
  BY <1>1 DEF AddSubTaskRunner, Depth, Frames
<1>3. PICK g \in Runners \ Loose :
        f \in Range(groups[g]) /\ groups' = [groups EXCEPT ![g] = Append(@, s)]
  BY <1>1 DEF AddSubTaskRunner, BindGroup
<1>4. /\ groups' \in Groups
      /\ \A h, i, r : Holds(groups', h, i, r)
           <=> \/ Holds(groups, h, i, r)
               \/ h = g /\ i = Len(groups[g]) + 1 /\ r = s
  BY <1>1, <1>3, Pushed
<1>5. /\ doubled \subseteq doubled' /\ \A r : r \in doubled' => r \in doubled \/ r = s
      /\ (s \notin doubled' => \A h, i : ~Holds(groups, h, i, s))
  <2>1. ASSUME NEW h, NEW i, Holds(groups, h, i, s) PROVE s \in doubled'
    <3>1. h \in Places(s)
      BY <1>1, <2>1, Held DEF Places
    <3> QED BY <3>1 DEF AddSubTaskRunner
  <2> QED BY <2>1 DEF AddSubTaskRunner
<1>6. \A k \in 1..n : stack[k].sub # s /\ stack[k].runner # s
  BY <1>1 DEF AddSubTaskRunner
<1>7. stranded \subseteq stranded' /\ (Top.sub # NoRunner => Top.sub \in stranded')
  BY LeftBehind DEF AddSubTaskRunner
<1>8. has_sub_runner' = [has_sub_runner EXCEPT ![f] = TRUE]
      /\ has_sub_runner \in [Runners -> BOOLEAN]
  BY DEF AddSubTaskRunner, TypeOK
<1>9. n \in 1..n /\ s # NoRunner
  BY <1>1, LooseAssumption
<1> HIDE DEF n, f
<1>10. s \notin Loose => s \in doubled'
  BY <1>5 DEF Nested, Homed
<1>11. Subs'
  <2>1. \A k \in 1..n : stack'[k].runner = stack[k].runner
    BY <1>1, <1>2 DEF f
  <2>2. ASSUME NEW k \in 1..n, stack'[k].sub # NoRunner
        PROVE  stack'[k].sub # stack'[k].runner /\ stack'[k].sub \in Loose \union doubled'
    <3>1. CASE k = n
      BY <1>1, <1>2, <1>10, <3>1
    <3>2. CASE k # n
      BY <1>1, <1>2, <1>5, <2>2, <3>2 DEF Nested, Subs
    <3> QED BY <3>1, <3>2
  <2>3. ASSUME NEW j \in 1..n, NEW k \in 1..n,
               stack'[j].sub = stack'[k].sub, stack'[j].sub # NoRunner
        PROVE  j = k
    <3>1. CASE j = n \/ k = n
      BY <1>2, <1>6, <2>3, <3>1
    <3>2. CASE j # n /\ k # n
      BY <1>1, <1>2, <2>3, <3>2 DEF Nested, Subs
    <3> QED BY <3>1, <3>2
  <2> QED BY <1>2, <2>2, <2>3 DEF Subs
<1>12. OwnGroup'
  <2> SUFFICES ASSUME NEW r \in (Runners \ Loose) \ doubled'
               PROVE  /\ Holds(groups', r, 1, r)
                      /\ \A h, i : Holds(groups', h, i, r) => h = r /\ i = 1
    BY DEF OwnGroup
  <2>1. r # s /\ r \in (Runners \ Loose) \ doubled
    BY <1>5, <1>10
  <2>2. Holds(groups, r, 1, r) /\ \A h, i : Holds(groups, h, i, r) => h = r /\ i = 1
    BY <2>1 DEF Nested, OwnGroup
  <2> QED BY <1>4, <2>1, <2>2
<1>13. SubAbove'
  <2> SUFFICES ASSUME NEW k \in 1..n, stack'[k].sub # NoRunner,
                      stack'[k].runner \notin doubled'
               PROVE  /\ \E i : Holds(groups', stack'[k].runner, i, stack'[k].sub)
                      /\ stack'[k].sub \in stranded' \/ (stack'[k].at # "run" /\ has_sub_runner'[stack'[k].runner])
    BY <1>2 DEF SubAbove
  <2>1. CASE k = n
    <3>1. f \in (Runners \ Loose) \ doubled
      BY <1>1, <1>2, <1>5, <2>1
    <3>2. g = f
      BY <1>1, <1>3, <3>1, Held DEF Nested, OwnGroup
    <3>3. Holds(groups', f, Len(groups[g]) + 1, s)
      BY <1>4, <3>2
    <3> QED BY <1>1, <1>2, <1>8, <2>1, <3>3
  <2>2. CASE k # n
    <3>1. stack'[k] = stack[k] /\ stack[k].runner \notin doubled
      BY <1>2, <1>5, <2>2
    <3>2. /\ \E i : Holds(groups, stack[k].runner, i, stack[k].sub)
          /\ stack[k].sub \in stranded \/ (stack[k].at # "run" /\ has_sub_runner[stack[k].runner])
      BY <1>1, <3>1 DEF Nested, SubAbove
    <3> QED BY <1>4, <1>7, <1>8, <3>1, <3>2
  <2> QED BY <2>1, <2>2
<1>14. NoReentry'
  <2> SUFFICES ASSUME NEW j \in 1..n, NEW k \in 1..n, j < k,
                      stack'[j].sub # NoRunner, stack'[j].runner \notin doubled'
               PROVE  stack'[k].runner # stack'[j].runner
    BY <1>2 DEF NoReentry
  <2>1. j # n
    BY <1>1
  <2>2. stack'[j] = stack[j] /\ stack[j].runner \notin doubled
    BY <1>2, <1>5, <2>1
  <2>3. stack'[k].runner = stack[k].runner
    BY <1>1, <1>2 DEF f
  <2>4. stack[k].runner # stack[j].runner
    BY <1>1, <2>2 DEF Nested, NoReentry
  <2> QED BY <2>2, <2>3, <2>4
<1>15. LoosePlace'
  <2>1. ASSUME NEW q \in Loose \ stranded', NEW h, NEW i, Holds(groups, h, i, q)
        PROVE  q # s /\ \E k \in 1..n : k # n /\ stack[k].sub = q
    <3>1. PICK k \in 1..n : stack[k].sub = q
      BY <1>1, <1>7, <2>1 DEF Nested, LoosePlace
    <3>2. k # n
      BY <1>1, <1>7, <3>1, LooseAssumption
    <3> QED BY <1>6, <3>1, <3>2
  <2>2. ASSUME NEW q \in Loose \ stranded', NEW e, NEW h, NEW i, NEW j,
               Holds(groups', e, i, q), Holds(groups', h, j, q)
        PROVE  e = h /\ i = j
    <3>1. CASE q = s
      BY <1>4, <2>1, <2>2, <3>1
    <3>2. CASE q # s
      <4>1. Holds(groups, e, i, q) /\ Holds(groups, h, j, q)
        BY <1>4, <2>2, <3>2
      <4> QED BY <1>7, <4>1 DEF Nested, LoosePlace
    <3> QED BY <3>1, <3>2
  <2>3. ASSUME NEW q \in Loose \ stranded', NEW h, NEW i, Holds(groups', h, i, q)
        PROVE  \E k \in 1..n : stack'[k].sub = q
    <3>1. CASE q = s
      BY <1>2, <1>9, <3>1
    <3>2. CASE q # s
      BY <1>2, <1>4, <2>1, <2>3, <3>2
    <3> QED BY <3>1, <3>2
  <2>4. \A q \in Loose \ stranded' : \A e, h, i, j :
          Holds(groups', e, i, q) /\ Holds(groups', h, j, q) => e = h /\ i = j
    BY <2>2
  <2>5. \A q \in Loose \ stranded' : \A h, i :
          Holds(groups', h, i, q) => \E k \in 1..Depth' : stack'[k].sub = q
    BY <1>2, <2>3
  <2> QED BY <2>4, <2>5 DEF LoosePlace
<1>16. Homed'
  <2> SUFFICES ASSUME NEW r \in Runners \ Loose
               PROVE  /\ \E h, i : Holds(groups', h, i, r)
                      /\ (\E k \in 1..n : stack'[k].sub = r)
                           => \E e, h, i, j : Holds(groups', e, i, r)
                                /\ Holds(groups', h, j, r) /\ (e # h \/ i # j)
    BY <1>2 DEF Homed
  <2>1. PICK h, i : Holds(groups, h, i, r)
    BY DEF Nested, Homed
  <2>2. Holds(groups', h, i, r)
    BY <1>4, <2>1
  <2>3. ASSUME NEW k \in 1..n, stack'[k].sub = r
        PROVE  \E a, b, c, d : Holds(groups', a, c, r)
                 /\ Holds(groups', b, d, r) /\ (a # b \/ c # d)
    <3>1. CASE k = n
      <4>1. r = s /\ Holds(groups', g, Len(groups[g]) + 1, r)
        BY <1>2, <1>4, <2>3, <3>1
      <4>2. h # g \/ i # Len(groups[g]) + 1
        <5>1. h = g => i <= Len(groups[g])
          BY <1>1, <2>1, Held
        <5>2. Len(groups[g]) \in Nat
          BY <1>1 DEF Groups
        <5> QED BY <5>1, <5>2
      <4> QED BY <2>2, <4>1, <4>2
    <3>2. CASE k # n
      <4>1. stack[k].sub = r
        BY <1>2, <2>3, <3>2
      <4>2. PICK a, b, c, d : Holds(groups, a, c, r)
                 /\ Holds(groups, b, d, r) /\ (a # b \/ c # d)
        BY <1>1, <4>1 DEF Nested, Homed
      <4> QED BY <1>4, <4>2
    <3> QED BY <3>1, <3>2
  <2> QED BY <2>2, <2>3
<1> QED BY <1>11, <1>12, <1>13, <1>14, <1>15, <1>16 DEF Nested

\* The sub of a task is taken away, from a group or, when it is stranded, from
\* nowhere.
LEMMA SubRemoved ==
  ASSUME TypeOK, Sane, Nested, NEW m \in 1..Depth, RemoveOf(m), stranded' = stranded,
         \/ has_sub_runner' = has_sub_runner
         \/ has_sub_runner' = [has_sub_runner EXCEPT ![stack[m].runner] = FALSE]
  PROVE  Nested'
<1> DEFINE n == Len(stack)
           s == stack[m].sub
           f == stack[m].runner
<1>1. stack \in Seq(Frames) /\ groups \in Groups /\ n \in Nat /\ Depth = n
  BY DEF TypeOK, Frames, Groups, Depth
<1>2. /\ m \in 1..n /\ stack[m] \in Frames /\ s \in Runners /\ f \in Runners
      /\ s # NoRunner /\ f \notin Loose /\ s # f /\ s \in Loose \union doubled
      /\ \A k \in 1..n : k # m => stack[k].sub # s
  <2>1. m \in 1..n /\ stack[m] \in Frames /\ s # NoRunner
    BY <1>1 DEF RemoveOf
  <2>2. s \in Runners /\ f \in Runners
    BY <2>1 DEF Frames
  <2>3. f \notin Loose /\ s # f /\ s \in Loose \union doubled
    BY <1>1, <2>1 DEF Sane, Nested, Subs
  <2>4. ASSUME NEW k \in 1..n, k # m PROVE stack[k].sub # s
    BY <1>1, <2>1, <2>4 DEF Nested, Subs
  <2> QED BY <2>1, <2>2, <2>3, <2>4
<1>3. /\ Depth' = n /\ stack'[m].sub = NoRunner
      /\ \A k \in 1..n : /\ stack'[k].runner = stack[k].runner
                         /\ k # m => stack'[k] = stack[k]
  BY <1>1, <1>2 DEF RemoveOf, Depth, Frames
<1>4. /\ \A r \in Runners : r # f => has_sub_runner'[r] = has_sub_runner[r]
      /\ doubled' = doubled /\ stranded' = stranded
      /\ \A k \in 1..n : stack[k].runner \in Runners
  <2>1. has_sub_runner \in [Runners -> BOOLEAN] /\ doubled' = doubled
    BY DEF RemoveOf, TypeOK
  <2>2. ASSUME NEW k \in 1..n PROVE stack[k].runner \in Runners
    <3>1. stack[k] \in Frames
      BY <1>1
    <3> QED BY <3>1 DEF Frames
  <2> QED BY <1>2, <2>1, <2>2
<1>5. ASSUME NEW k \in 1..n, stack'[k].sub # NoRunner
      PROVE  k # m /\ stack'[k] = stack[k] /\ stack[k].sub # s
  BY <1>2, <1>3, <1>5
<1>6. UnBind(s)
  BY DEF RemoveOf
<1> HIDE DEF n, s, f
<1>7. Subs'
  <2>1. ASSUME NEW k \in 1..n, stack'[k].sub # NoRunner
        PROVE  stack'[k].sub # stack'[k].runner /\ stack'[k].sub \in Loose \union doubled
    BY <1>1, <1>5, <2>1 DEF Nested, Subs
  <2>2. ASSUME NEW j \in 1..n, NEW k \in 1..n,
               stack'[j].sub = stack'[k].sub, stack'[j].sub # NoRunner
        PROVE  j = k
    BY <1>1, <1>5, <2>2 DEF Nested, Subs
  <2> QED BY <1>3, <1>4, <2>1, <2>2 DEF Subs
<1>8. NoReentry'
  <2> SUFFICES ASSUME NEW j \in 1..n, NEW k \in 1..n, j < k,
                      stack'[j].sub # NoRunner, stack'[j].runner \notin doubled
               PROVE  stack'[k].runner # stack'[j].runner
    BY <1>3, <1>4 DEF NoReentry
  <2>1. stack'[j] = stack[j] /\ stack'[k].runner = stack[k].runner
    BY <1>3, <1>5
  <2>2. stack[k].runner # stack[j].runner
    BY <1>1, <2>1 DEF Nested, NoReentry
  <2> QED BY <2>1, <2>2
\* Another task that waits is of another runner: the flag stays set for it.
<1>9. ASSUME NEW k \in 1..n, k # m, stack[k].sub # NoRunner,
             stack[k].runner \notin doubled
      PROVE  stack[k].runner # f
  <2>1. CASE k < m
    BY <1>1, <1>2, <1>9, <2>1 DEF Nested, NoReentry, f
  <2>2. CASE m < k
    <3>1. SUFFICES ASSUME stack[k].runner = f PROVE FALSE
      OBVIOUS
    <3>2. stack[m].sub # NoRunner /\ stack[m].runner \notin doubled
      BY <1>2, <1>9, <3>1 DEF s, f
    <3>3. stack[k].runner # stack[m].runner
      BY <1>1, <1>2, <2>2, <3>2 DEF Nested, NoReentry
    <3> QED BY <3>1, <3>3 DEF f
  <2> QED BY <1>1, <1>2, <1>9, <2>1, <2>2
<1>10. CASE \A g \in DOMAIN groups : s \notin Range(groups[g])
  <2>1. groups' = groups /\ \A h, i : ~Holds(groups, h, i, s)
    <3>1. groups' = groups
      BY <1>6, <1>10 DEF UnBind
    <3> QED BY <1>1, <1>10, <3>1, Held
  <2>2. OwnGroup'
    BY <1>4, <2>1 DEF Nested, OwnGroup
  <2>3. SubAbove'
    <3> SUFFICES ASSUME NEW k \in 1..n, stack'[k].sub # NoRunner,
                        stack'[k].runner \notin doubled
                 PROVE  /\ \E i : Holds(groups, stack'[k].runner, i, stack'[k].sub)
                        /\ stack'[k].sub \in stranded' \/ (stack'[k].at # "run" /\ has_sub_runner'[stack'[k].runner])
      BY <1>3, <1>4, <2>1 DEF SubAbove
    <3>1. k # m /\ stack'[k] = stack[k]
      BY <1>5
    <3>2. /\ \E i : Holds(groups, stack[k].runner, i, stack[k].sub)
          /\ stack[k].sub \in stranded \/ (stack[k].at # "run" /\ has_sub_runner[stack[k].runner])
      BY <1>1, <3>1 DEF Nested, SubAbove
    <3>3. stack[k].runner # f
      BY <1>9, <3>1
    <3> QED BY <1>4, <3>1, <3>2, <3>3
  <2>4. LoosePlace'
    <3>1. \A q \in Loose \ stranded' : \A e, h, i, j :
            Holds(groups', e, i, q) /\ Holds(groups', h, j, q) => e = h /\ i = j
      <4>1. \A q \in Loose \ stranded : \A e, h, i, j :
              Holds(groups, e, i, q) /\ Holds(groups, h, j, q) => e = h /\ i = j
        BY DEF Nested, LoosePlace
      <4> QED BY <1>4, <2>1, <4>1
    <3>2. ASSUME NEW q \in Loose \ stranded', NEW h, NEW i, Holds(groups', h, i, q)
          PROVE  \E k \in 1..Depth' : stack'[k].sub = q
      <4>1. PICK k \in 1..n : stack[k].sub = q
        BY <1>1, <1>4, <2>1, <3>2 DEF Nested, LoosePlace
      <4>2. k # m
        BY <2>1, <3>2, <4>1 DEF s
      <4> QED BY <1>3, <4>1, <4>2
    <3>3. \A q \in Loose \ stranded' : \A h, i :
            Holds(groups', h, i, q) => \E k \in 1..Depth' : stack'[k].sub = q
      BY <3>2
    <3> QED BY <3>1, <3>3 DEF LoosePlace
  <2>5. Homed'
    <3> SUFFICES ASSUME NEW r \in Runners \ Loose
                 PROVE  /\ \E h, i : Holds(groups, h, i, r)
                        /\ (\E k \in 1..n : stack'[k].sub = r)
                             => \E e, h, i, j : Holds(groups, e, i, r)
                                  /\ Holds(groups, h, j, r) /\ (e # h \/ i # j)
      BY <1>3, <2>1 DEF Homed
    <3>1. (\E k \in 1..n : stack'[k].sub = r) => \E k \in 1..n : stack[k].sub = r
      BY <1>5, LooseAssumption
    <3> QED BY <1>1, <3>1 DEF Nested, Homed
  <2> QED BY <1>7, <1>8, <2>2, <2>3, <2>4, <2>5 DEF Nested
<1>11. CASE ~\A g \in DOMAIN groups : s \notin Range(groups[g])
  <2>1. PICK g \in Runners \ Loose :
          s \in Range(groups[g]) /\ groups' = [groups EXCEPT ![g] = RemoveFirst(@, s)]
    BY <1>1, <1>6, <1>11 DEF UnBind, Groups
  <2>2. PICK p \in Int :
          /\ groups' \in Groups /\ Holds(groups, g, p, s)
          /\ \A h, i, r : Holds(groups', h, i, r)
               => Holds(groups, h, IF h = g /\ p <= i THEN i + 1 ELSE i, r)
          /\ \A h, i, r : (Holds(groups, h, i, r) /\ ~(h = g /\ i = p))
               => Holds(groups', h, IF h = g /\ p < i THEN i - 1 ELSE i, r)
    BY <1>1, <2>1, Erased
  <2>3. /\ \A h, i, r : Holds(groups, h, i, r) => i \in Int /\ 1 <= i
        /\ \A h, i, r : Holds(groups', h, i, r) => i \in Int /\ 1 <= i
        /\ \A h, i, r, q : Holds(groups, h, i, r) /\ Holds(groups, h, i, q) => r = q
    BY <1>1, <2>2, Held
  <2>4. \A h, i, r : Holds(groups, h, i, r) /\ r # s => ~(h = g /\ i = p)
    BY <2>2, <2>3
  <2>5. OwnGroup'
    <3> SUFFICES ASSUME NEW r \in (Runners \ Loose) \ doubled
                 PROVE  /\ Holds(groups', r, 1, r)
                        /\ \A h, i : Holds(groups', h, i, r) => h = r /\ i = 1
      BY <1>4 DEF OwnGroup
    <3>1. r # s
      BY <1>2
    <3>2. Holds(groups, r, 1, r) /\ \A h, i : Holds(groups, h, i, r) => h = r /\ i = 1
      BY DEF Nested, OwnGroup
    <3>3. ~(r = g /\ 1 = p) /\ (r = g => ~(p < 1))
      BY <2>2, <2>3, <2>4, <3>1, <3>2
    <3>4. Holds(groups', r, 1, r)
      BY <2>2, <3>2, <3>3
    <3>5. ASSUME NEW h, NEW i, Holds(groups', h, i, r) PROVE h = r /\ i = 1
      <4>1. i \in Int /\ 1 <= i
        BY <2>3, <3>5
      <4>2. Holds(groups, h, IF h = g /\ p <= i THEN i + 1 ELSE i, r)
        BY <2>2, <3>5
      <4>3. h = r /\ (IF h = g /\ p <= i THEN i + 1 ELSE i) = 1
        BY <3>2, <4>2
      <4> QED BY <4>1, <4>3
    <3> QED BY <3>4, <3>5
  <2>6. SubAbove'
    <3> SUFFICES ASSUME NEW k \in 1..n, stack'[k].sub # NoRunner,
                        stack'[k].runner \notin doubled
                 PROVE  /\ \E i : Holds(groups', stack'[k].runner, i, stack'[k].sub)
                        /\ stack'[k].sub \in stranded' \/ (stack'[k].at # "run" /\ has_sub_runner'[stack'[k].runner])
      BY <1>3, <1>4 DEF SubAbove
    <3>1. k # m /\ stack'[k] = stack[k] /\ stack[k].sub # s
      BY <1>5
    <3>2. /\ \E i : Holds(groups, stack[k].runner, i, stack[k].sub)
          /\ stack[k].sub \in stranded \/ (stack[k].at # "run" /\ has_sub_runner[stack[k].runner])
      BY <1>1, <3>1 DEF Nested, SubAbove
    <3>3. stack[k].runner # f
      BY <1>9, <3>1
    <3>4. \E i : Holds(groups', stack[k].runner, i, stack[k].sub)
      BY <2>2, <2>4, <3>1, <3>2
    <3> QED BY <1>4, <3>1, <3>2, <3>3, <3>4
  <2>7. LoosePlace'
    <3>1. ASSUME NEW q \in Loose \ stranded, NEW e, NEW h, NEW i, NEW j,
                 Holds(groups', e, i, q), Holds(groups', h, j, q)
          PROVE  e = h /\ i = j /\ q # s
      <4> DEFINE ii == IF e = g /\ p <= i THEN i + 1 ELSE i
                 jj == IF h = g /\ p <= j THEN j + 1 ELSE j
      <4>1. i \in Int /\ j \in Int
        BY <2>3, <3>1
      <4>2. Holds(groups, e, ii, q) /\ Holds(groups, h, jj, q)
        BY <2>2, <3>1
      <4> HIDE DEF ii, jj
      <4>3. e = h /\ ii = jj /\ (q = s => e = g /\ ii = p)
        BY <2>2, <4>2 DEF Nested, LoosePlace
      <4> QED BY <4>1, <4>3 DEF ii, jj
    <3>2. ASSUME NEW q \in Loose \ stranded', NEW h, NEW i, Holds(groups', h, i, q)
          PROVE  \E k \in 1..Depth' : stack'[k].sub = q
      <4>1. \E j : Holds(groups, h, j, q)
        BY <2>2, <3>2
      <4>2. PICK k \in 1..n : stack[k].sub = q
        BY <1>1, <1>4, <4>1 DEF Nested, LoosePlace
      <4>3. k # m
        BY <1>4, <3>1, <3>2, <4>2 DEF s
      <4> QED BY <1>3, <4>2, <4>3
    <3>3. \A q \in Loose \ stranded' : \A e, h, i, j :
            Holds(groups', e, i, q) /\ Holds(groups', h, j, q) => e = h /\ i = j
      BY <1>4, <3>1
    <3>4. \A q \in Loose \ stranded' : \A h, i :
            Holds(groups', h, i, q) => \E k \in 1..Depth' : stack'[k].sub = q
      BY <3>2
    <3> QED BY <3>3, <3>4 DEF LoosePlace
  <2>8. Homed'
    <3> SUFFICES ASSUME NEW r \in Runners \ Loose
                 PROVE  /\ \E h, i : Holds(groups', h, i, r)
                        /\ (\E k \in 1..n : stack'[k].sub = r)
                             => \E e, h, i, j : Holds(groups', e, i, r)
                                  /\ Holds(groups', h, j, r) /\ (e # h \/ i # j)
      BY <1>3 DEF Homed
    <3>1. CASE r = s
      <4>1. ~\E k \in 1..n : stack'[k].sub = r
        BY <1>5, <3>1, LooseAssumption
      <4>2. PICK e, h, i, j : Holds(groups, e, i, r)
                                  /\ Holds(groups, h, j, r) /\ (e # h \/ i # j)
        BY <1>1, <1>2, <3>1 DEF Nested, Homed, s
      <4>3. ~(e = g /\ i = p) \/ ~(h = g /\ j = p)
        BY <4>2
      <4>4. \E a, b : Holds(groups', a, b, r)
        BY <2>2, <4>2, <4>3
      <4> QED BY <4>1, <4>4
    <3>2. CASE r # s
      <4>1. \E h, i : Holds(groups', h, i, r)
        BY <2>2, <2>4, <3>2 DEF Nested, Homed
      <4>2. ASSUME \E k \in 1..n : stack'[k].sub = r
            PROVE  \E e, h, i, j : Holds(groups', e, i, r)
                     /\ Holds(groups', h, j, r) /\ (e # h \/ i # j)
        <5>1. \E k \in 1..n : stack[k].sub = r
          BY <1>5, <4>2, LooseAssumption
        <5>2. PICK e, h, i, j : Holds(groups, e, i, r)
                                  /\ Holds(groups, h, j, r) /\ (e # h \/ i # j)
          BY <1>1, <5>1 DEF Nested, Homed
        <5> DEFINE ii == IF e = g /\ p < i THEN i - 1 ELSE i
                   jj == IF h = g /\ p < j THEN j - 1 ELSE j
        <5>3. Holds(groups', e, ii, r) /\ Holds(groups', h, jj, r)
          BY <2>2, <2>4, <3>2, <5>2
        <5>4. i \in Int /\ j \in Int /\ ~(e = g /\ i = p) /\ ~(h = g /\ j = p)
          BY <2>3, <2>4, <3>2, <5>2
        <5>5. e # h \/ ii # jj
          BY <5>2, <5>4
        <5> HIDE DEF ii, jj
        <5> QED BY <5>3, <5>5
      <4> QED BY <4>1, <4>2
    <3> QED BY <3>1, <3>2
  <2> QED BY <1>7, <1>8, <2>5, <2>6, <2>7, <2>8 DEF Nested
<1> QED BY <1>10, <1>11

\* Another thread clears the flag: a sub that is there is stranded.
LEMMA FlagCleared ==
  ASSUME TypeOK, Nested, ClearFlag
  PROVE  Nested'
<1>1. /\ UNCHANGED <<groups, stack, doubled>> /\ stranded \subseteq stranded'
      /\ has_sub_runner' = [has_sub_runner EXCEPT ![clearing] = FALSE]
      /\ has_sub_runner \in [Runners -> BOOLEAN]
  BY DEF ClearFlag, TypeOK
<1>2. \A k \in 1..Depth :
        stack[k].runner = clearing /\ stack[k].sub # NoRunner => stack[k].sub \in stranded'
  BY DEF ClearFlag
<1>3. Depth' = Depth /\ \A k \in 1..Depth : stack[k].runner \in Runners
  <2>1. stack \in Seq(Frames)
    BY DEF TypeOK, Frames
  <2>2. ASSUME NEW k \in 1..Depth PROVE stack[k].runner \in Runners
    <3>1. stack[k] \in Frames
      BY <2>1 DEF Depth
    <3> QED BY <3>1 DEF Frames
  <2> QED BY <1>1, <2>2 DEF Depth
<1>4. Subs' /\ OwnGroup' /\ NoReentry' /\ Homed'
  BY <1>1, <1>3 DEF Nested, Subs, OwnGroup, NoReentry, Homed
<1>5. SubAbove'
  <2> SUFFICES ASSUME NEW k \in 1..Depth, stack[k].sub # NoRunner,
                      stack[k].runner \notin doubled
               PROVE  /\ \E i : Holds(groups, stack[k].runner, i, stack[k].sub)
                      /\ stack[k].sub \in stranded'
                           \/ (stack[k].at # "run" /\ has_sub_runner'[stack[k].runner])
    BY <1>1, <1>3 DEF SubAbove
  <2>1. /\ \E i : Holds(groups, stack[k].runner, i, stack[k].sub)
        /\ stack[k].sub \in stranded
             \/ (stack[k].at # "run" /\ has_sub_runner[stack[k].runner])
    BY DEF Nested, SubAbove
  <2>2. CASE stack[k].runner = clearing
    BY <1>2, <2>1, <2>2
  <2>3. CASE stack[k].runner # clearing
    <3>1. has_sub_runner'[stack[k].runner] = has_sub_runner[stack[k].runner]
      BY <1>1, <1>3, <2>3
    <3> QED BY <1>1, <2>1, <3>1
  <2> QED BY <2>2, <2>3
<1>6. LoosePlace'
  BY <1>1, <1>3 DEF Nested, LoosePlace
<1> QED BY <1>4, <1>5, <1>6 DEF Nested

\* What a task that waits rests on is kept by every step.
LEMMA NestedStep == TypeOK /\ Sane /\ Nested /\ [Next]_vars => Nested'
<1> SUFFICES ASSUME TypeOK, Sane, Nested, [Next]_vars PROVE Nested'
  OBVIOUS
<1>1. stack \in Seq(Frames)
  BY DEF TypeOK, Frames
<1>2. CASE UNCHANGED <<groups, has_sub_runner, doubled, stranded, stack>>
  BY <1>2, KeepsTasks
<1>3. CASE NestedTest
  <2> DEFINE fr == [Top EXCEPT !.at =
                      IF has_sub_runner[Top.runner] THEN "task" ELSE "run"]
  <2>1. /\ Depth \in 1..Len(stack) /\ Depth = Len(stack) /\ Top = stack[Depth]
        /\ Top \in Frames
    BY <1>1, <1>3 DEF NestedTest, Depth, Top
  <2>2. stack' = [stack EXCEPT ![Depth] = fr]
    BY <1>1, <1>3, <2>1 DEF NestedTest
  <2>3. /\ fr \in Frames /\ fr.runner = Top.runner /\ fr.sub = Top.sub
        /\ (fr.at = "run" => ~has_sub_runner[Top.runner])
    BY <2>1 DEF Frames
  <2> HIDE DEF fr
  <2>4. /\ Len(stack') = Len(stack) /\ stack'[Depth] = fr
        /\ \A i \in 1..Len(stack) : i # Depth => stack'[i] = stack[i]
    BY <1>1, <2>1, <2>2, <2>3, Replaced
  <2>5. \A k \in 1..Depth :
           /\ stack'[k].runner = stack[k].runner /\ stack'[k].sub = stack[k].sub
           /\ stack'[k].at = "run"
                => stack[k].at = "run" \/ ~has_sub_runner[stack[k].runner]
    BY <2>1, <2>3, <2>4
  <2>6. UNCHANGED <<groups, has_sub_runner, doubled, stranded>>
    BY <1>3 DEF NestedTest
  <2> QED BY <2>4, <2>5, <2>6, KeepsTasks
<1>4. CASE RunTask
  BY <1>4, TaskBegins DEF RunTask, StartTask
<1>5. CASE RunTaskNull
  <2>1. /\ UNCHANGED <<groups, has_sub_runner, doubled, stranded>>
        /\ stack' = BackToLoop(stack)
    BY <1>5 DEF RunTaskNull
  <2>2. \A k \in 1..Len(stack) :
           /\ stack'[k].runner = stack[k].runner /\ stack'[k].sub = stack[k].sub
           /\ stack'[k].at = IF k = Len(stack) THEN "nested" ELSE stack[k].at
    BY <1>1, <2>1, UnderTask
  <2>3. Len(stack') = Len(stack)
    BY <1>1, <2>1, UnderTask
  <2> QED BY <2>1, <2>2, <2>3, KeepsTasks DEF Depth
<1>6. CASE FinishTask
  BY <1>6, TaskEnds DEF FinishTask
<1>7. CASE \E s \in Runners : AddSubTaskRunner(s)
  BY <1>7, TaskWaits
<1>8. CASE RemoveSubTaskRunner \/ RemoveFromOutside
  <2>1. PICK m \in 1..Depth :
          /\ RemoveOf(m) /\ stranded' = stranded
          /\ \/ has_sub_runner' = has_sub_runner
             \/ has_sub_runner' = [has_sub_runner EXCEPT ![stack[m].runner] = FALSE]
    BY <1>8 DEF RemoveSubTaskRunner, RemoveFromOutside
  <2> QED BY <2>1, SubRemoved
<1>9. CASE LoopTest \/ RunTaskEmptyGroup \/ GetCurrentTaskRunner \/ Terminate
           \/ Ended \/ UNCHANGED vars
  BY <1>2, <1>9 DEF LoopTest, RunTaskEmptyGroup, GetCurrentTaskRunner, Terminate,
                    Ended, Fail, vars
<1>10. CASE \E r \in Runners : PostTask(r)
  BY <1>2, <1>10 DEF PostTask, Fail
<1>11. CASE ClearFlag
  BY <1>11, FlagCleared
<1> QED BY <1>3, <1>4, <1>5, <1>6, <1>7, <1>8, <1>9, <1>10, <1>11 DEF Next, ThreadStep

\* The groups keep their type.
LEMMA GroupsStep == TypeOK /\ [Next]_vars => groups' \in Groups
<1> SUFFICES ASSUME TypeOK, [Next]_vars PROVE groups' \in Groups
  OBVIOUS
<1>1. groups \in Groups /\ DOMAIN groups = Runners \ Loose
  BY DEF TypeOK, Groups
<1>2. ASSUME NEW s \in Runners, AddSubTaskRunner(s) PROVE groups' \in Groups
  <2>1. PICK g \in Runners \ Loose : groups' = [groups EXCEPT ![g] = Append(@, s)]
    BY <1>1, <1>2 DEF AddSubTaskRunner, BindGroup
  <2> QED BY <1>1, <2>1, Pushed
<1>3. ASSUME NEW k, RemoveOf(k) PROVE groups' \in Groups
  <2>1. CASE UNCHANGED groups
    BY <1>1, <2>1
  <2>2. CASE ~UNCHANGED groups
    <3>1. PICK g \in Runners \ Loose :
            /\ stack[k].sub \in Range(groups[g])
            /\ groups' = [groups EXCEPT ![g] = RemoveFirst(@, stack[k].sub)]
      BY <1>1, <1>3, <2>2 DEF RemoveOf, UnBind
    <3> DEFINE s == stack[k].sub
    <3>2. s \in Range(groups[g]) /\ groups' = [groups EXCEPT ![g] = RemoveFirst(@, s)]
      BY <3>1
    <3> HIDE DEF s
    <3> QED BY <1>1, <3>2, Erased
  <2> QED BY <2>1, <2>2
<1>4. CASE UNCHANGED groups
  BY <1>1, <1>4
<1> QED BY <1>2, <1>3, <1>4 DEF Next, ThreadStep, LoopTest, NestedTest, RunTask,
       RunTaskEmptyGroup, RunTaskNull, FinishTask, RemoveSubTaskRunner,
       RemoveFromOutside, ClearFlag, GetCurrentTaskRunner, PostTask, Terminate, Ended, Fail, vars

\* How the stack may change: its frames stay frames of runners with a group,
\* the ones below the top stay as they are but for their sub, and the top
\* is disturbed before a frame comes above it.
LEMMA StackStep ==
  ASSUME TypeOK, Sane, [Next]_vars
  PROVE  /\ stack' \in Seq(Frames)
         /\ \A k \in 1..Depth' :
              /\ stack'[k].runner \notin Loose
              /\ k < Depth' => stack'[k].disturbed = TRUE
<1>1. /\ stack \in Seq(Frames) /\ groups \in Groups /\ DOMAIN groups = Runners \ Loose
      /\ Depth = Len(stack) /\ Depth \in Nat
      /\ \A k \in 1..Depth : stack[k] \in Frames
  <2>1. stack \in Seq(Frames) /\ groups \in Groups
    BY DEF TypeOK, Frames, Groups
  <2>2. Depth = Len(stack) /\ Depth \in Nat /\ \A k \in 1..Depth : stack[k] \in Frames
    BY <2>1 DEF Depth
  <2> QED BY <2>1, <2>2 DEF Groups
<1>2. /\ \A k \in 1..Depth : stack[k].runner \notin Loose
      /\ \A k \in 1..Depth : k < Depth => stack[k].disturbed = TRUE
  BY <1>1 DEF Sane, Frames
<1>3. CASE stack' = stack
  BY <1>1, <1>2, <1>3 DEF Depth
\* One frame is replaced by another of the same runner, and as disturbed.
<1>4. ASSUME NEW m \in 1..Depth, NEW fr \in Frames, fr.runner = stack[m].runner,
             fr.disturbed = stack[m].disturbed, stack' = [stack EXCEPT ![m] = fr]
      PROVE  /\ stack' \in Seq(Frames)
             /\ \A k \in 1..Depth' :
                  /\ stack'[k].runner \notin Loose
                  /\ k < Depth' => stack'[k].disturbed = TRUE
  <2>1. /\ stack' \in Seq(Frames) /\ Len(stack') = Len(stack) /\ stack'[m] = fr
        /\ \A i \in 1..Len(stack) : i # m => stack'[i] = stack[i]
    BY <1>1, <1>4, Replaced
  <2>2. Depth' = Depth
    BY <1>1, <2>1 DEF Depth
  <2> QED BY <1>1, <1>2, <1>4, <2>1, <2>2
<1>5. CASE NestedTest
  <2> DEFINE fr == [Top EXCEPT !.at =
                      IF has_sub_runner[Top.runner] THEN "task" ELSE "run"]
  <2>1. Depth \in 1..Depth /\ Top = stack[Depth] /\ Top \in Frames
    BY <1>1, <1>5 DEF NestedTest, Top
  <2>2. stack' = [stack EXCEPT ![Depth] = fr]
    BY <1>1, <1>5, <2>1 DEF NestedTest
  <2>3. fr \in Frames /\ fr.runner = Top.runner /\ fr.disturbed = Top.disturbed
    BY <2>1 DEF Frames
  <2> HIDE DEF fr
  <2> QED BY <1>4, <2>1, <2>2, <2>3
<1>6. CASE \E s \in Runners : AddSubTaskRunner(s)
  <2>1. PICK s \in Runners : AddSubTaskRunner(s)
    BY <1>6
  <2> DEFINE fr == [Top EXCEPT !.at = "nested", !.sub = s]
  <2>2. Depth \in 1..Depth /\ Top = stack[Depth] /\ Top \in Frames
    BY <1>1, <2>1 DEF AddSubTaskRunner, InTask, Top
  <2>3. stack' = [stack EXCEPT ![Depth] = fr]
    BY <1>1, <2>1, <2>2 DEF AddSubTaskRunner
  <2>4. fr \in Frames /\ fr.runner = Top.runner /\ fr.disturbed = Top.disturbed
    BY <2>2 DEF Frames
  <2> HIDE DEF fr
  <2> QED BY <1>4, <2>2, <2>3, <2>4
<1>7. CASE \E m \in 1..Depth : RemoveOf(m)
  <2>1. PICK m \in 1..Depth : RemoveOf(m)
    BY <1>7
  <2> DEFINE fr == [stack[m] EXCEPT !.sub = NoRunner]
  <2>2. stack' = [stack EXCEPT ![m] = fr]
    BY <1>1, <2>1 DEF RemoveOf
  <2>3. fr \in Frames /\ fr.runner = stack[m].runner /\ fr.disturbed = stack[m].disturbed
    BY <1>1 DEF Frames
  <2> HIDE DEF fr
  <2> QED BY <1>4, <2>2, <2>3
<1>8. CASE FinishTask
  <2>1. stack' = SubSeq(stack, 1, Depth - 1) /\ stack # <<>>
    BY <1>1, <1>8 DEF FinishTask, Front, InTask
  <2>2. Depth >= 1 /\ Depth - 1 \in Int /\ 1 \in Int
    BY <1>1, <2>1
  <2>3. \A i \in 1..(Depth - 1) : stack[i] \in Frames
    BY <1>1
  <2>4. /\ stack' \in Seq(Frames)
        /\ Len(stack') = IF 1 <= Depth - 1 THEN Depth - 1 - 1 + 1 ELSE 0
        /\ \A i \in 1..(Depth - 1 - 1 + 1) : stack'[i] = stack[1 + i - 1]
    BY <2>1, <2>2, <2>3, SubSeqProperties
  <2>5. Depth' = Len(stack')
    BY DEF Depth
  <2> HIDE DEF Depth
  <2>6. Depth' = Depth - 1
    BY <1>1, <2>2, <2>4, <2>5
  <2>7. ASSUME NEW k \in 1..(Depth - 1)
        PROVE  stack'[k] = stack[k] /\ k \in 1..Depth /\ k < Depth
    <3>1. k \in 1..(Depth - 1 - 1 + 1) /\ 1 + k - 1 = k /\ k \in 1..Depth /\ k < Depth
      BY <1>1
    <3> QED BY <2>4, <3>1
  <2> QED BY <1>2, <2>4, <2>6, <2>7
<1>9. CASE RunTaskNull
  <2>1. stack' = BackToLoop(stack)
    BY <1>9 DEF RunTaskNull
  <2>2. /\ stack' \in Seq(Frames) /\ Len(stack') = Len(stack)
        /\ \A k \in 1..Len(stack) : /\ stack'[k].runner = stack[k].runner
                                    /\ stack'[k].disturbed = stack[k].disturbed
    BY <1>1, <2>1, UnderTask
  <2> QED BY <1>1, <1>2, <2>2 DEF Depth
<1>10. CASE RunTask
  <2>1. PICK g \in Runners \ Loose :
          groups[g] # <<>> /\ HasTask(g) /\ StartTask(g)
    BY <1>1, <1>10 DEF RunTask
  <2> DEFINE r == NextRunner(g)
  <2>2. stack' = Append(Disturbed(stack), Frame(r)) /\ tasks[r] > 0
    BY <2>1 DEF StartTask, HasTask
  <2>3. r \in Runners
    <3>1. groups[g] \in Seq(Runners)
      BY <1>1 DEF Groups
    <3> QED BY <2>1, <3>1 DEF NextRunner, Last
  <2> HIDE DEF r
  <2>4. r \notin Loose
    BY <2>2 DEF Sane
  <2>5. Frame(r) \in Frames /\ Frame(r).runner = r
    BY <2>3 DEF Frame, Frames
  <2>6. /\ Disturbed(stack) \in Seq(Frames) /\ Len(Disturbed(stack)) = Len(stack)
        /\ \A k \in 1..Len(stack) :
             /\ Disturbed(stack)[k].runner = stack[k].runner
             /\ Disturbed(stack)[k].disturbed = (k = Len(stack) \/ stack[k].disturbed)
    BY <1>1, UnderTask
  <2>7. /\ stack' \in Seq(Frames) /\ Len(stack') = Depth + 1
        /\ stack'[Depth + 1] = Frame(r)
        /\ \A k \in 1..Depth : stack'[k] = Disturbed(stack)[k]
    BY <1>1, <2>2, <2>5, <2>6
  <2>8. ASSUME NEW k \in 1..Depth
        PROVE  stack'[k].runner \notin Loose /\ stack'[k].disturbed = TRUE
    <3>1. stack'[k] = Disturbed(stack)[k] /\ k \in 1..Len(stack)
      BY <1>1, <2>7
    <3>2. stack'[k].runner = stack[k].runner
      BY <2>6, <3>1
    <3>3. stack'[k].disturbed = (k = Len(stack) \/ stack[k].disturbed)
      BY <2>6, <3>1
    <3>4. k = Len(stack) \/ stack[k].disturbed
      BY <1>1, <1>2, <3>1
    <3>5. stack'[k].disturbed = TRUE
      BY <3>3, <3>4
    <3> QED BY <1>2, <3>2, <3>5
  <2>9. Depth' = Depth + 1
    BY <2>7 DEF Depth
  <2>10. \A k \in 1..(Depth + 1) : k < Depth + 1 => k \in 1..Depth
    BY <1>1
  <2>11. \A k \in 1..(Depth + 1) : k \in 1..Depth \/ k = Depth + 1
    BY <1>1
  <2> QED BY <2>4, <2>5, <2>7, <2>8, <2>9, <2>10, <2>11
<1>11. CASE \E r \in Runners : PostTask(r)
  BY <1>3, <1>11 DEF PostTask, Fail
<1> QED BY <1>3, <1>5, <1>6, <1>7, <1>8, <1>9, <1>10, <1>11
     DEF Next, ThreadStep, LoopTest, RunTaskEmptyGroup, RemoveSubTaskRunner,
         RemoveFromOutside, ClearFlag, GetCurrentTaskRunner, Terminate, Ended, Fail, vars

\* The variables besides the groups and the stack keep their types.
Scalars ==
  /\ pc \in {"loop", "task", "exited"} /\ clearing \in Runners \union {NoRunner}
  /\ status \in {"ok", "undefined", "no_task", "no_worker"}
  /\ posts \in 0..MaxPosts /\ subs \in 0..MaxSubs
  /\ doubled \subseteq Runners /\ stranded \subseteq Runners

Flags ==
  /\ has_sub_runner \in [Runners -> BOOLEAN]
  /\ is_terminated \in BOOLEAN /\ is_task_running \in BOOLEAN

Locals ==
  local_runner \in Runners \union {NoRunner} /\ curr_group \in Seq(Runners)

LEMMA TypeStep == TypeOK /\ Sane /\ [Next]_vars => TypeOK' /\ \A r \in Loose : tasks'[r] = 0
<1> SUFFICES ASSUME TypeOK, Sane, [Next]_vars
             PROVE  TypeOK' /\ \A r \in Loose : tasks'[r] = 0
  OBVIOUS
<1> USE LooseAssumption, BoundsAssumption
<1>1. /\ Scalars /\ Flags /\ Locals /\ tasks \in [Runners -> Nat]
      /\ stack \in Seq(Frames) /\ groups \in Groups
  BY DEF TypeOK, Scalars, Flags, Locals, Frames, Groups
<1>2. ASSUME NEW g \in DOMAIN groups, groups[g] # <<>>
      PROVE  NextRunner(g) \in Runners /\ groups[g] \in Seq(Runners)
  <2>1. groups[g] \in Seq(Runners)
    BY <1>1 DEF Groups
  <2> QED BY <1>2, <2>1 DEF NextRunner, Last
<1>3. ASSUME stack # <<>>
      PROVE  Depth \in 1..Depth /\ Top \in Frames /\ stack[Depth] = Top
  BY <1>1, <1>3 DEF Depth, Top
<1>4. \A k \in 1..Depth : stack[k] \in Frames
  BY <1>1 DEF Depth
<1>5. tasks' \in [Runners -> Nat] /\ \A r \in Loose : tasks'[r] = 0
  <2>1. CASE UNCHANGED tasks
    BY <1>1, <2>1 DEF Sane
  <2>2. CASE RunTask
    <3>1. PICK g \in DOMAIN groups : groups[g] # <<>> /\ HasTask(g) /\ StartTask(g)
      BY <2>2 DEF RunTask
    <3> DEFINE r == NextRunner(g)
    <3>2. tasks' = [tasks EXCEPT ![r] = @ - 1] /\ tasks[r] > 0 /\ r \in Runners
      BY <1>2, <3>1 DEF StartTask, HasTask
    <3> HIDE DEF r
    <3> QED BY <1>1, <3>2 DEF Sane
  <2>3. CASE \E r \in Runners : PostTask(r)
    BY <1>1, <2>3 DEF PostTask, Fail, Sane
  <2> QED BY <2>1, <2>2, <2>3 DEF Next, ThreadStep, LoopTest, NestedTest,
       RunTaskEmptyGroup, RunTaskNull, FinishTask, AddSubTaskRunner, RemoveOf,
       RemoveSubTaskRunner, RemoveFromOutside, ClearFlag, GetCurrentTaskRunner, Terminate,
       Ended, Fail, vars
<1>6. Scalars'
  <2>1. ASSUME NEW s \in Runners, AddSubTaskRunner(s) PROVE Scalars'
    <3>1. Top \in Frames
      BY <1>3, <2>1 DEF AddSubTaskRunner, InTask
    <3>2. Top.sub \in Runners \union {NoRunner}
      BY <3>1 DEF Frames
    <3>3. stranded' \subseteq Runners
      BY <1>1, <2>1, <3>2 DEF AddSubTaskRunner, Strand, Scalars
    <3>4. doubled' \subseteq Runners
      BY <1>1, <2>1 DEF AddSubTaskRunner, Scalars
    <3> QED BY <1>1, <2>1, <3>3, <3>4 DEF AddSubTaskRunner, Scalars
  <2>2. CASE FinishTask
    <3>1. Top \in Frames
      BY <1>3, <2>2 DEF FinishTask, InTask
    <3>2. Top.sub \in Runners \union {NoRunner}
      BY <3>1 DEF Frames
    <3>3. stranded' \subseteq Runners
      BY <1>1, <2>2, <3>2 DEF FinishTask, Strand, Scalars
    <3> QED BY <1>1, <2>2, <3>3 DEF FinishTask, Scalars
  <2>3. ASSUME NEW r \in Runners, PostTask(r) PROVE Scalars'
    BY <1>1, <2>3 DEF PostTask, Fail, Scalars
  <2>4. CASE UNCHANGED <<pc, clearing, status, posts, subs, doubled, stranded>>
    BY <1>1, <2>4 DEF Scalars
  <2>5. CASE LoopTest \/ RunTaskNull
    BY <1>1, <2>5 DEF LoopTest, RunTaskNull, Scalars
  <2>6. CASE RunTaskEmptyGroup \/ GetCurrentTaskRunner
    BY <1>1, <2>6 DEF RunTaskEmptyGroup, GetCurrentTaskRunner, Fail, Scalars
  <2>7. CASE RemoveFromOutside
    <3>1. PICK k \in 1..Depth : RemoveOf(k) /\ clearing' = stack[k].runner
      BY <2>7 DEF RemoveFromOutside
    <3>2. clearing' \in Runners
      BY <1>4, <3>1 DEF Frames
    <3>3. UNCHANGED <<pc, status, posts, subs, doubled, stranded>>
      BY <2>7, <3>1 DEF RemoveFromOutside, RemoveOf
    <3> QED BY <1>1, <3>2, <3>3 DEF Scalars
  <2>8. CASE ClearFlag
    <3>1. \A k \in 1..Depth : stack[k].sub \in Runners \union {NoRunner}
      BY <1>4 DEF Frames
    <3>2. stranded' \subseteq Runners
      BY <1>1, <2>8, <3>1 DEF ClearFlag, Scalars
    <3> QED BY <1>1, <2>8, <3>2 DEF ClearFlag, Scalars
  <2> QED BY <2>1, <2>2, <2>3, <2>4, <2>5, <2>6, <2>7, <2>8 DEF Next, ThreadStep, NestedTest,
       RunTask, StartTask, RemoveOf, RemoveSubTaskRunner,
       Terminate, Ended, vars
<1>7. Flags'
  <2>1. ASSUME NEW s \in Runners, AddSubTaskRunner(s) PROVE Flags'
    BY <1>1, <2>1 DEF AddSubTaskRunner, Flags, locals
  <2>2. CASE RemoveSubTaskRunner \/ RemoveFromOutside \/ ClearFlag
    BY <1>1, <2>2 DEF RemoveSubTaskRunner, RemoveFromOutside, ClearFlag, RemoveOf,
                      Flags, locals
  <2>3. CASE UNCHANGED <<has_sub_runner, is_terminated, is_task_running>>
    BY <1>1, <2>3 DEF Flags
  <2>4. CASE FinishTask
    BY <1>1, <2>4 DEF FinishTask, Flags
  <2>5. CASE RunTask
    BY <1>1, <2>5 DEF RunTask, StartTask, Flags
  <2>6. CASE Terminate
    BY <1>1, <2>6 DEF Terminate, Flags, locals
  <2> QED BY <2>1, <2>2, <2>3, <2>4, <2>5, <2>6 DEF Next, ThreadStep, NestedTest,
       LoopTest, RunTaskEmptyGroup, RunTaskNull, GetCurrentTaskRunner, PostTask, Fail, Ended, vars, locals
<1>8. Locals'
  <2>1. CASE UNCHANGED <<local_runner, curr_group>>
    BY <1>1, <2>1 DEF Locals
  <2>2. CASE RunTask
    <3>1. PICK g \in DOMAIN groups : groups[g] # <<>> /\ StartTask(g)
      BY <2>2 DEF RunTask
    <3> QED BY <1>2, <3>1 DEF StartTask, Locals
  <2> QED BY <2>1, <2>2 DEF Next, ThreadStep, LoopTest, NestedTest,
       RunTaskEmptyGroup, RunTaskNull, FinishTask, AddSubTaskRunner, RemoveOf,
       RemoveSubTaskRunner, RemoveFromOutside, ClearFlag, GetCurrentTaskRunner, PostTask,
       Terminate, Ended, Fail, vars, locals
<1>9. stack' \in Seq(Frames) /\ groups' \in Groups
  BY StackStep, GroupsStep
<1> QED BY <1>5, <1>6, <1>7, <1>8, <1>9
        DEF TypeOK, Scalars, Flags, Locals, Frames, Groups

\* An undisturbed task goes on to find itself.
LEMMA FindsStep == TypeOK /\ Sane /\ FindsItself /\ [Next]_vars => FindsItself'
<1> SUFFICES ASSUME TypeOK, Sane, FindsItself, [Next]_vars,
                    stack' # <<>>, ~Top'.disturbed
             PROVE  /\ is_task_running' /\ local_runner' = Top'.runner
                    /\ Top'.runner \in Range(curr_group')
  BY DEF FindsItself
<1>1. /\ stack \in Seq(Frames) /\ groups \in Groups /\ DOMAIN groups = Runners \ Loose
      /\ Depth = Len(stack) /\ Depth \in Nat
  <2>1. stack \in Seq(Frames) /\ groups \in Groups
    BY DEF TypeOK, Frames, Groups
  <2> QED BY <2>1 DEF Groups, Depth
<1>2. /\ stack' \in Seq(Frames) /\ Depth' = Len(stack') /\ Depth' \in 1..Depth'
      /\ Top' = stack'[Depth']
  <2>1. stack' \in Seq(Frames)
    BY StackStep
  <2> QED BY <2>1 DEF Depth, Top
\* The top of the stack has changed neither its runner nor its mark.
<1>3. ASSUME UNCHANGED <<is_task_running, local_runner, curr_group>>,
             Len(stack') = Len(stack),
             \A k \in 1..Depth : /\ stack'[k].runner = stack[k].runner
                                 /\ stack'[k].disturbed = stack[k].disturbed
      PROVE  /\ is_task_running' /\ local_runner' = Top'.runner
             /\ Top'.runner \in Range(curr_group')
  <2>1. Depth' = Depth /\ Depth \in 1..Depth /\ stack # <<>>
    BY <1>1, <1>2, <1>3
  <2>2. Top'.runner = Top.runner /\ Top'.disturbed = Top.disturbed
    BY <1>2, <1>3, <2>1 DEF Top
  <2>3. ~Top.disturbed
    BY <2>2
  <2> QED BY <1>3, <2>1, <2>2, <2>3 DEF FindsItself
<1>4. CASE UNCHANGED <<stack, locals>>
  BY <1>3, <1>4 DEF locals
<1>5. ASSUME NEW m \in 1..Depth, NEW fr \in Frames, fr.runner = stack[m].runner,
             fr.disturbed = stack[m].disturbed, stack' = [stack EXCEPT ![m] = fr],
             UNCHANGED locals
      PROVE  /\ is_task_running' /\ local_runner' = Top'.runner
             /\ Top'.runner \in Range(curr_group')
  <2>1. /\ Len(stack') = Len(stack) /\ stack'[m] = fr
        /\ \A i \in 1..Len(stack) : i # m => stack'[i] = stack[i]
    BY <1>1, <1>5, Replaced
  <2>2. \A k \in 1..Depth : /\ stack'[k].runner = stack[k].runner
                            /\ stack'[k].disturbed = stack[k].disturbed
    BY <1>1, <1>5, <2>1
  <2>3. UNCHANGED <<is_task_running, local_runner, curr_group>>
    BY <1>5 DEF locals
  <2> QED BY <1>3, <2>1, <2>2, <2>3
<1>6. CASE NestedTest
  <2> DEFINE fr == [Top EXCEPT !.at =
                      IF has_sub_runner[Top.runner] THEN "task" ELSE "run"]
  <2>1. Depth \in 1..Depth /\ Top = stack[Depth] /\ Top \in Frames
    BY <1>1, <1>6 DEF NestedTest, Top
  <2>2. stack' = [stack EXCEPT ![Depth] = fr] /\ UNCHANGED locals
    BY <1>1, <1>6, <2>1 DEF NestedTest
  <2>3. fr \in Frames /\ fr.runner = Top.runner /\ fr.disturbed = Top.disturbed
    BY <2>1 DEF Frames
  <2> HIDE DEF fr
  <2> QED BY <1>5, <2>1, <2>2, <2>3
<1>7. CASE \E s \in Runners : AddSubTaskRunner(s)
  <2>1. PICK s \in Runners : AddSubTaskRunner(s)
    BY <1>7
  <2> DEFINE fr == [Top EXCEPT !.at = "nested", !.sub = s]
  <2>2. Depth \in 1..Depth /\ Top = stack[Depth] /\ Top \in Frames
    BY <1>1, <2>1 DEF AddSubTaskRunner, InTask, Top
  <2>3. stack' = [stack EXCEPT ![Depth] = fr] /\ UNCHANGED locals
    BY <1>1, <2>1, <2>2 DEF AddSubTaskRunner
  <2>4. fr \in Frames /\ fr.runner = Top.runner /\ fr.disturbed = Top.disturbed
    BY <2>2 DEF Frames
  <2> HIDE DEF fr
  <2> QED BY <1>5, <2>2, <2>3, <2>4
<1>8. CASE \E m \in 1..Depth : RemoveOf(m)
  <2>1. PICK m \in 1..Depth : RemoveOf(m)
    BY <1>8
  <2> DEFINE fr == [stack[m] EXCEPT !.sub = NoRunner]
  <2>2. stack' = [stack EXCEPT ![m] = fr] /\ UNCHANGED locals
    BY <1>1, <2>1 DEF RemoveOf
  <2>3. fr \in Frames /\ fr.runner = stack[m].runner /\ fr.disturbed = stack[m].disturbed
    <3>1. stack[m] \in Frames
      BY <1>1
    <3> QED BY <3>1 DEF Frames
  <2> HIDE DEF fr
  <2> QED BY <1>5, <2>2, <2>3
<1>9. CASE RunTaskNull
  <2>1. stack' = BackToLoop(stack) /\ UNCHANGED <<is_task_running, local_runner, curr_group>>
    BY <1>9 DEF RunTaskNull, locals
  <2>2. /\ Len(stack') = Len(stack)
        /\ \A k \in 1..Len(stack) : /\ stack'[k].runner = stack[k].runner
                                    /\ stack'[k].disturbed = stack[k].disturbed
    BY <1>1, <2>1, UnderTask
  <2> QED BY <1>1, <1>3, <2>1, <2>2
\* What comes to light when a task ends has been disturbed.
<1>10. CASE FinishTask
  <2>1. stack' = SubSeq(stack, 1, Depth - 1) /\ stack # <<>>
    BY <1>1, <1>10 DEF FinishTask, Front, InTask
  <2>2. Depth >= 1 /\ Depth - 1 \in Int /\ 1 \in Int
    BY <1>1, <2>1
  <2>3. \A i \in 1..(Depth - 1) : stack[i] \in Frames
    BY <1>1
  <2>4. /\ Len(stack') = IF 1 <= Depth - 1 THEN Depth - 1 - 1 + 1 ELSE 0
        /\ \A i \in 1..(Depth - 1 - 1 + 1) : stack'[i] = stack[1 + i - 1]
    BY <2>1, <2>2, <2>3, SubSeqProperties
  <2>5. Depth' = Depth - 1 /\ 1 <= Depth'
    BY <1>1, <1>2, <2>2, <2>4
  <2>6. Depth' \in 1..(Depth - 1 - 1 + 1) /\ 1 + Depth' - 1 = Depth'
        /\ Depth' \in 1..Depth /\ Depth' < Depth
    BY <1>1, <2>2, <2>5
  <2>7. Top' = stack[Depth'] /\ stack[Depth'].disturbed
    BY <1>2, <2>4, <2>6 DEF Sane
  <2> QED BY <2>7
<1>11. CASE RunTask
  <2>1. PICK g \in Runners \ Loose : groups[g] # <<>> /\ StartTask(g)
    BY <1>1, <1>11 DEF RunTask
  <2> DEFINE r == NextRunner(g)
  <2>2. /\ stack' = Append(Disturbed(stack), Frame(r)) /\ is_task_running' = TRUE
        /\ local_runner' = r /\ curr_group' = groups[g]
    BY <2>1 DEF StartTask
  <2>3. r \in Runners /\ r \in Range(groups[g])
    <3>1. groups[g] \in Seq(Runners)
      BY <1>1 DEF Groups
    <3> QED BY <2>1, <3>1 DEF NextRunner, Last, Range
  <2> HIDE DEF r
  <2>4. Frame(r) \in Frames /\ Frame(r).runner = r
    BY <2>3 DEF Frame, Frames
  <2>5. Disturbed(stack) \in Seq(Frames)
    BY <1>1, UnderTask
  <2>6. Top' = Frame(r)
    BY <1>2, <2>2, <2>4, <2>5
  <2> QED BY <2>2, <2>3, <2>4, <2>6
<1>12. CASE \E r \in Runners : PostTask(r)
  BY <1>4, <1>12 DEF PostTask, Fail
<1> QED BY <1>4, <1>6, <1>7, <1>8, <1>9, <1>10, <1>11, <1>12
     DEF Next, ThreadStep, LoopTest, RunTaskEmptyGroup, RemoveSubTaskRunner,
         RemoveFromOutside, ClearFlag, GetCurrentTaskRunner, Terminate, Ended, Fail, vars

-----------------------------------------------------------------------------
(* The theorems. *)

LEMMA InitInv == Init => Inv
<1> SUFFICES ASSUME Init PROVE Inv
  OBVIOUS
<1> USE LooseAssumption, BoundsAssumption
<1>1. stack = <<>> /\ Depth = 0 /\ 1..Depth = {}
  BY DEF Init, Depth
<1>2. groups \in Groups /\ \A g, i, r : Holds(groups, g, i, r)
                                <=> g \in Runners \ Loose /\ i = 1 /\ r = g
  BY DEF Init, Groups, Holds
<1>3. TypeOK
  <2>1. groups \in [Runners \ Loose -> Seq(Runners)]
    BY <1>2 DEF Groups
  <2>2. stack \in Seq([runner : Runners, at : {"run", "nested", "task"},
                    sub : Runners \union {NoRunner}, disturbed : BOOLEAN])
    BY <1>1
  <2>3. Scalars /\ Locals
    BY DEF Init, Scalars, Locals
  <2>4. Flags /\ tasks \in [Runners -> Nat]
    BY DEF Init, Flags
  <2> QED BY <2>1, <2>2, <2>3, <2>4 DEF TypeOK, Scalars, Locals, Flags
<1>4. Sane /\ FindsItself
  BY <1>1 DEF Init, Sane, FindsItself
<1>5. Subs /\ SubAbove /\ NoReentry
  BY <1>1 DEF Subs, SubAbove, NoReentry
<1>6. OwnGroup
  BY <1>2 DEF OwnGroup
<1>7. LoosePlace
  BY <1>2 DEF LoosePlace
<1>8. Homed
  BY <1>1, <1>2 DEF Homed
<1> QED BY <1>3, <1>4, <1>5, <1>6, <1>7, <1>8 DEF Inv, Nested

LEMMA InvStep == Inv /\ [Next]_vars => Inv'
<1> SUFFICES ASSUME Inv, [Next]_vars PROVE Inv'
  OBVIOUS
<1>1. TypeOK /\ Sane /\ FindsItself /\ Nested
  BY DEF Inv
<1>2. Nested' /\ FindsItself'
  BY <1>1, NestedStep, FindsStep
<1>3. TypeOK' /\ \A r \in Loose : tasks'[r] = 0
  BY <1>1, TypeStep
<1>4. Sane'
  <2>1. \A k \in 1..Depth' : /\ stack'[k].runner \notin Loose
                             /\ k < Depth' => stack'[k].disturbed
    BY <1>1, StackStep
  <2> QED BY <1>3, <2>1 DEF Sane
<1> QED BY <1>2, <1>3, <1>4 DEF Inv

\* The inductive invariant holds of every behaviour of the thread and of the
\* threads that post, remove and terminate (task_runner.cc:64-110, worker.cc).
THEOREM Invariant == Spec => []Inv
<1>1. Init => Inv
  BY InitInv
<1>2. Inv /\ [Next]_vars => Inv'
  BY InvStep
<1> QED BY <1>1, <1>2, PTL DEF Spec

\* A running task that no other has run inside of gets its own runner from
\* GetCurrentTaskRunner and is charged its time, at any depth of nested loops
\* (worker.cc, RunTask).
THEOREM TaskFindsItself == Spec => []CurrentRunner
<1>1. Inv => CurrentRunner
  BY DEF Inv, FindsItself, CurrentRunner, InTask
<1> QED BY <1>1, Invariant, PTL

\* No task of a waiting father runs inside of it, the father goes on only when
\* its sub is gone, the removal of a sub leaves nothing behind that blocks the
\* father, and BindGroup always finds it (AddSubTaskRunner and
\* RemoveSubTaskRunner, task_runner.cc).  A sub that is stranded, because its
\* father is in two groups or another thread cleared the flag too late, is
\* excused from the second and the third.
THEOREM SubBlocks == Spec => []SubBlocksFather
<1>1. Inv => SubBlocksFather
  <2> SUFFICES ASSUME Inv PROVE SubBlocksFather
    OBVIOUS
  <2>1. groups \in Groups
    BY DEF Inv, TypeOK, Groups
  <2>2. NoReentry
    BY DEF Inv, Nested
  <2>3. \A s, g : g \in Places(s) => \E i : Holds(groups, g, i, s)
    BY <2>1, Held DEF Places
  <2>4. RemovedUnblocks
    BY <2>3 DEF Inv, Nested, LoosePlace, RemovedUnblocks
  <2>5. FatherFound
    <3> SUFFICES ASSUME NEW k \in 1..Depth PROVE Places(stack[k].runner) # {}
      BY DEF FatherFound
    <3>1. stack \in Seq(Frames)
      BY DEF Inv, TypeOK, Frames
    <3>2. stack[k] \in Frames
      BY <3>1 DEF Depth
    <3>3. stack[k].runner \in Runners \ Loose
      BY <3>2 DEF Inv, Sane, Frames
    <3>4. PICK g, i : Holds(groups, g, i, stack[k].runner)
      BY <3>3 DEF Inv, Nested, Homed
    <3>5. g \in Places(stack[k].runner)
      BY <2>1, <3>4, Held DEF Places
    <3> QED BY <3>5
  <2>6. FatherWaits
    BY DEF Inv, Nested, SubAbove, FatherWaits
  <2> QED BY <2>2, <2>4, <2>5, <2>6 DEF SubBlocksFather
<1> QED BY <1>1, Invariant, PTL
=============================================================================
