------------------------ MODULE WorkerManagerProofs ------------------------
(* Proofs about WorkerManager, for any runners, groups, sizes and number of   *)
(* resizes.                                                                   *)
EXTENDS WorkerManager, FiniteSetTheorems, SequenceTheorems, NaturalsInduction,
        WellFoundedInduction, TLAPS

-----------------------------------------------------------------------------
(* The inductive invariant, in parts. *)

Lists == Seq(Seq(Runners))
Mail == [task : {"take", "put"}, runner : Runners, to : Workers]
WorkerRecords ==
  [running : Lists, pending : Lists, group_id : GroupIds(Runners),
   immediate : Seq(Mail), specifics : SUBSET Runners, ended : BOOLEAN]
RunnerRecords ==
  [worker_ : Workers \union {NoWorker}, has_sub_runner : BOOLEAN,
   life : {"absent", "new", "loose", "walked", "picked", "bound",
           "removed", "destroyed"}]
BalanceRecords ==
  [step : {"none", "create", "count", "retain", "recount", "deal",
           "unbind", "unbind_pending", "keep", "rebind", "repoint"},
   i : (-1)..MaxWorkers, target : 0..MaxWorkers, groups : Lists,
   groups_size : Nat, cur_worker_group : [Workers -> Nat], reduce_size : Int]
UnBindRecords ==
  [step : {"none", "running", "pending", "flag"}, father : Runners,
   worker : Workers, cause : {"none", "missed", "slipped"}]

\* Which sizes and positions go with each step of Balance.
Growing == balance.step \in {"create", "count", "retain", "recount", "deal"}
Shrinking ==
  balance.step \in {"unbind", "unbind_pending", "keep", "rebind", "repoint"}

Sized ==
  /\ size_ <= count
  /\ balance.step = "none" => balance = NoBalance
  /\ Growing => size_ < balance.target
  /\ balance.step = "create"
       => /\ balance.i = 0
          /\ count + (balance.target - size_) <= MaxWorkers
  /\ Growing /\ balance.step # "create" => balance.target <= count
  /\ balance.step \in {"count", "retain", "recount"}
       => 0 <= balance.i /\ balance.i < size_
  /\ balance.step = "deal"
       => 0 <= balance.i /\ balance.i < balance.target /\ index_ = size_
  /\ Shrinking => 1 <= balance.target /\ balance.target < size_
  /\ balance.step \in {"unbind", "unbind_pending"} => balance.i < size_
  /\ balance.step = "unbind_pending" => 0 <= balance.i
  /\ balance.step = "keep" => 0 <= balance.i /\ balance.i < balance.target
  /\ balance.step = "repoint" => index_ < count /\ balance.groups # <<>>

\* index_ is below the number of workers in use, unless that is one.
Indexed ==
  /\ balance.step = "none" /\ size_ > 1 => index_ < size_
  /\ balance.step \in {"rebind", "repoint"} /\ balance.target > 1
       => index_ < balance.target
  /\ status = "out_of_range" => 1 \in {size_, balance.target}

\* A shrink to one worker has as many workers to empty as it has left.
Reduced ==
  balance.target = 1 =>
    /\ balance.reduce_size >= 0 /\ status # "check"
    /\ balance.step \in {"unbind", "unbind_pending"}
         => balance.reduce_size >= balance.i
    /\ balance.step = "unbind_pending" => balance.reduce_size > 0

\* No runner is in two groups of a list.
GroupList(gs) ==
  /\ gs \in Lists
  /\ \A j, k \in DOMAIN gs : Range(gs[j]) \intersect Range(gs[k]) # {} => j = k

\* The lists a group can be in.
HeldSite == <<"held", NoWorker>>
Sites == ({"running", "pending"} \X Workers) \union {HeldSite}
Place == [a \in Sites |-> IF a[1] = "running" THEN worker[a[2]].running
                         ELSE IF a[1] = "pending" THEN worker[a[2]].pending
                         ELSE Held]

\* No runner is in two groups of the lists f.
Parted(f) ==
  /\ \A a \in Sites : GroupList(f[a])
  /\ \A a, b \in Sites :
       RunnersOf(f[a]) \intersect RunnersOf(f[b]) # {} => a = b

Apart == Parted(Place)

\* Runner r is in one of the lists f.
In(f, r) == \E a \in Sites : r \in RunnersOf(f[a])

Somewhere(r) == In(Place, r)
Early(r) == runner[r].life \in {"absent", "new", "loose", "walked", "picked"}

\* A bound runner is somewhere, one that was not bound yet, or was dropped, is
\* nowhere, not even in the copy of a group that Balance is about to repoint.
Lives ==
  /\ \A r \in Runners :
       runner[r].life = "bound" /\ r \notin history["dropped"] => Somewhere(r)
  /\ \A r \in history["dropped"] : ~Early(r) /\ ~Somewhere(r)
  /\ \A r \in Runners : Early(r) => ~Somewhere(r)
  /\ \A r \in RunnersOf(balance.groups) : ~Early(r)

\* worker_ is set when a worker is chosen, and at the latest when the runner
\* is repointed to the worker that has been given its group.
Pointed ==
  /\ \A r \in Runners :
       /\ runner[r].life \in {"absent", "new", "loose", "walked"}
            => runner[r].worker_ = NoWorker
       /\ runner[r].life = "picked" => runner[r].worker_ \in Workers
  /\ balance.step = "repoint" =>
       \A r \in Range(Head(balance.groups)) :
         runner[r].life = "bound" /\ r \notin history["dropped"]
           => r \in BoundTo(index_)

Inv ==
  TypeOK /\ Sized /\ Indexed /\ Reduced /\ Apart /\ Lives /\ Pointed /\ WorkerPointer

-----------------------------------------------------------------------------
(* Sequences. *)

\* A set of naturals has a least member.
LEMMA Less == \A i, k \in Nat : i < k => <<i, k>> \in OpToRel(<, Nat)
  BY Zenon DEF OpToRel

LEMMA LeastOf ==
  ASSUME NEW T \in SUBSET Nat, T # {}
  PROVE  \E x \in T : \A y \in T : x <= y
<1>1. PICK x \in T : \A y \in T : ~(<<y, x>> \in OpToRel(<, Nat))
  BY NatLessThanWellFounded, WFMin, Zenon
<1>2. \A y \in T : ~(y < x)
  BY <1>1, Less, Zenon
<1>3. \A y \in T : y \in Nat /\ x \in Nat
  OBVIOUS
<1>4. \A y \in T : x <= y
  BY <1>2, <1>3
<1> QED BY <1>4

\* erase() of the first occurrence: the element at k goes, the ones after it
\* move down.
LEMMA EraseFirst ==
  ASSUME NEW S, NEW q \in Seq(S), NEW s, s \in Range(q)
  PROVE  \E k \in 1..Len(q) :
           /\ q[k] = s
           /\ RemoveFirst(q, s) \in Seq(S)
           /\ Len(RemoveFirst(q, s)) = Len(q) - 1
           /\ \A i \in 1..(Len(q) - 1) :
                RemoveFirst(q, s)[i] = IF i < k THEN q[i] ELSE q[i + 1]
<1> DEFINE I == {i \in 1..Len(q) : q[i] = s}
<1>1. Len(q) \in Nat /\ DOMAIN q = 1..Len(q)
  OBVIOUS
<1>2. PICK m \in 1..Len(q) : q[m] = s
  BY <1>1 DEF Range
<1>3. I \in SUBSET Nat /\ I # {}
  BY <1>1, <1>2
<1>4. PICK k \in I : \A i \in I : k <= i
  <2> HIDE DEF I
  <2> QED BY <1>3, LeastOf
<1>5. Min(I) = k
  <2>1. k \in I /\ k \in Nat /\ \A i \in I : i \in Nat
    BY <1>1
  <2>2. \A x \in I : (\A y \in I : x <= y) => x = k
    BY <1>4, <2>1
  <2> HIDE DEF I
  <2> QED BY <1>4, <2>1, <2>2 DEF Min
<1>6. SelectInSeq(q, LAMBDA v : v = s) = k
  BY <1>2, <1>5 DEF SelectInSeq
<1>7. k \in 1..Len(q) /\ q[k] = s
  OBVIOUS
<1>8. RemoveFirst(q, s) = RemoveAt(q, k)
  BY <1>6, <1>7 DEF RemoveFirst
<1> DEFINE a == SubSeq(q, 1, k - 1)
           b == SubSeq(q, k + 1, Len(q))
<1> HIDE DEF I
<1>9. /\ a \in Seq(S) /\ Len(a) = k - 1 /\ \A i \in 1..(k - 1) : a[i] = q[i]
      /\ b \in Seq(S) /\ Len(b) = Len(q) - k
      /\ \A i \in 1..(Len(q) - k) : b[i] = q[k + i]
  <2>1. k \in Int /\ k - 1 \in Int /\ k + 1 \in Int /\ Len(q) \in Int
        /\ 1 <= k /\ k <= Len(q)
    BY <1>1, <1>7
  <2>2. \A i \in 1..Len(q) : q[i] \in S
    BY <1>1
  <2>3. (\A i \in 1..(k - 1) : q[i] \in S) /\ (\A i \in (k + 1)..Len(q) : q[i] \in S)
    BY <1>1, <2>1, <2>2
  <2>4. /\ a \in Seq(S) /\ Len(a) = IF 1 <= k - 1 THEN k - 1 - 1 + 1 ELSE 0
        /\ \A i \in 1..(k - 1 - 1 + 1) : a[i] = q[1 + i - 1]
    BY <2>1, <2>3, SubSeqProperties
  <2>5. /\ b \in Seq(S) /\ Len(b) = IF k + 1 <= Len(q) THEN Len(q) - (k + 1) + 1 ELSE 0
        /\ \A i \in 1..(Len(q) - (k + 1) + 1) : b[i] = q[k + 1 + i - 1]
    BY <2>1, <2>3, SubSeqProperties
  <2> HIDE DEF a, b
  <2>6. Len(a) = k - 1 /\ \A i \in 1..(k - 1) : a[i] = q[i]
    BY <2>1, <2>4
  <2>7. Len(b) = Len(q) - k /\ \A i \in 1..(Len(q) - k) : b[i] = q[k + i]
    <3>1. Len(b) = Len(q) - k
      BY <2>1, <2>5
    <3>2. ASSUME NEW i \in 1..(Len(q) - k) PROVE b[i] = q[k + i]
      <4>1. i \in 1..(Len(q) - (k + 1) + 1) /\ k + 1 + i - 1 = k + i
        BY <2>1
      <4> QED BY <2>5, <4>1
    <3> QED BY <3>1, <3>2
  <2> QED BY <2>4, <2>5, <2>6, <2>7
<1> HIDE DEF a, b
<1>10. /\ a \o b \in Seq(S) /\ Len(a \o b) = Len(q) - 1
       /\ \A i \in 1..(Len(q) - 1) : (a \o b)[i] = IF i < k THEN q[i] ELSE q[i + 1]
  <2>3. /\ a \o b \in Seq(S) /\ Len(a \o b) = Len(a) + Len(b)
        /\ \A i \in 1..(Len(a) + Len(b)) :
             (a \o b)[i] = IF i <= Len(a) THEN a[i] ELSE b[i - Len(a)]
    BY <1>9, ConcatProperties
  <2>4. k \in Nat /\ Len(q) \in Nat /\ Len(a) + Len(b) = Len(q) - 1
    BY <1>1, <1>7, <1>9
  <2>1. a \o b \in Seq(S) /\ Len(a \o b) = Len(q) - 1
    BY <2>3, <2>4
  <2>2. ASSUME NEW i \in 1..(Len(q) - 1)
        PROVE  (a \o b)[i] = IF i < k THEN q[i] ELSE q[i + 1]
    <3>1. CASE i < k
      <4>1. i <= Len(a) /\ i \in 1..(Len(a) + Len(b)) /\ i \in 1..(k - 1)
        BY <1>9, <2>4, <3>1
      <4> QED BY <1>9, <2>3, <3>1, <4>1
    <3>2. CASE ~(i < k)
      <4>1. i - (k - 1) \in 1..(Len(q) - k) /\ k + (i - (k - 1)) = i + 1
        BY <1>1, <1>7, <3>2
      <4>2. (a \o b)[i] = b[i - (k - 1)]
        <5>1. ~(i <= Len(a)) /\ i \in 1..(Len(a) + Len(b)) /\ Len(a) = k - 1
          BY <1>9, <2>4, <3>2
        <5> QED BY <2>3, <5>1
      <4> QED BY <1>9, <3>2, <4>1, <4>2
    <3> QED BY <3>1, <3>2
  <2> QED BY <2>1, <2>2
<1>11. RemoveFirst(q, s) = a \o b
  BY <1>8 DEF RemoveAt, a, b
<1> QED BY <1>7, <1>10, <1>11

\* What is left of a group after erase(): the others, and maybe a second copy.
LEMMA ErasedRange ==
  ASSUME NEW q \in Seq(Runners), NEW s
  PROVE  /\ RemoveFirst(q, s) \in Seq(Runners)
         /\ Range(RemoveFirst(q, s)) \subseteq Range(q)
         /\ Range(q) \ {s} \subseteq Range(RemoveFirst(q, s))
<1>1. Len(q) \in Nat /\ DOMAIN q = 1..Len(q)
  OBVIOUS
<1>2. CASE s \notin Range(q)
  <2>1. RemoveFirst(q, s) = q
    BY <1>1, <1>2 DEF RemoveFirst, Range
  <2> QED BY <2>1
<1>3. CASE s \in Range(q)
  <2> DEFINE e == RemoveFirst(q, s)
  <2>1. PICK k \in 1..Len(q) :
          /\ q[k] = s
          /\ e \in Seq(Runners)
          /\ Len(e) = Len(q) - 1
          /\ \A i \in 1..(Len(q) - 1) : e[i] = IF i < k THEN q[i] ELSE q[i + 1]
    BY <1>3, EraseFirst
  <2> HIDE DEF e
  <2>2. DOMAIN e = 1..(Len(q) - 1)
    BY <2>1
  <2>3. \A i \in 1..(Len(q) - 1) : e[i] \in Range(q)
    <3> TAKE i \in 1..(Len(q) - 1)
    <3>1. i \in 1..Len(q) /\ i + 1 \in 1..Len(q)
      BY <1>1
    <3> QED BY <1>1, <2>1, <3>1 DEF Range
  <2>4. ASSUME NEW i \in 1..Len(q), q[i] # s PROVE q[i] \in Range(e)
    <3>1. CASE i < k
      <4>1. i \in 1..(Len(q) - 1)
        BY <1>1, <3>1
      <4> QED BY <2>1, <2>2, <3>1, <4>1 DEF Range
    <3>2. CASE ~(i < k)
      <4>1. i # k
        BY <2>1, <2>4
      <4>2. i - 1 \in 1..(Len(q) - 1) /\ ~(i - 1 < k) /\ i - 1 + 1 = i
        BY <1>1, <3>2, <4>1
      <4> QED BY <2>1, <2>2, <4>2 DEF Range
    <3> QED BY <3>1, <3>2
  <2>5. Range(e) \subseteq Range(q)
    BY <2>2, <2>3 DEF Range
  <2>6. Range(q) \ {s} \subseteq Range(e)
    BY <1>1, <2>4 DEF Range
  <2> QED BY <2>1, <2>5, <2>6 DEF e
<1> QED BY <1>2, <1>3

\* FlattenSeq joins the sequences one after the other.
LEMMA Flattening ==
  ASSUME NEW S, NEW q \in Seq(Seq(S)), Len(q) # 0
  PROVE  \E f \in [1..Len(q) -> Seq(S)] :
           /\ FlattenSeq(q) = f[Len(q)]
           /\ \A i \in 1..Len(q) : f[i] = IF i = 1 THEN q[i] ELSE f[i - 1] \o q[i]
<1> DEFINE n == Len(q)
           Fun(m, f) == /\ f \in [1..m -> Seq(S)]
                        /\ \A i \in 1..m : f[i] = IF i = 1 THEN q[i] ELSE f[i - 1] \o q[i]
           Bad == {m \in 1..n : ~\E f : Fun(m, f)}
           Rec(f) == f = [i \in 1..n |-> IF i = 1 THEN q[i] ELSE f[i - 1] \o q[i]]
<1>1. n \in Nat /\ \A i \in 1..n : q[i] \in Seq(S)
  OBVIOUS
<1>2. Fun(1, [i \in 1..1 |-> q[1]])
  BY <1>1
<1>3. ASSUME Bad # {} PROVE FALSE
  <2>1. Bad \in SUBSET Nat
    OBVIOUS
  <2>2. PICK m \in Bad : \A k \in Bad : m <= k
    <3> HIDE DEF Bad
    <3> QED BY <1>3, <2>1, LeastOf
  <2>3. m # 1 /\ m \in 1..n
    BY <1>2, <2>2
  <2>4. m - 1 \in 1..n /\ m - 1 \notin Bad
    <3>1. m - 1 \in 1..n /\ ~(m <= m - 1)
      BY <1>1, <2>3
    <3> HIDE DEF Bad
    <3> QED BY <2>2, <3>1
  <2>5. PICK f : Fun(m - 1, f)
    BY <2>4
  <2> DEFINE g == [i \in 1..m |-> IF i = m THEN f[m - 1] \o q[m] ELSE f[i]]
  <2>6. \A i \in 1..m : i # m => i \in 1..(m - 1) /\ (i # 1 => i - 1 \in 1..(m - 1))
    BY <2>3
  <2>7. f[m - 1] \in Seq(S) /\ q[m] \in Seq(S)
    BY <1>1, <2>3, <2>5
  <2>8. f[m - 1] \o q[m] \in Seq(S)
    BY <2>7
  <2>9. g \in [1..m -> Seq(S)]
    BY <2>5, <2>6, <2>8
  <2>10. ASSUME NEW i \in 1..m
         PROVE  g[i] = IF i = 1 THEN q[i] ELSE g[i - 1] \o q[i]
    <3>1. CASE i = m
      <4>1. m - 1 \in 1..m /\ m - 1 # m
        BY <2>3
      <4> QED BY <2>3, <3>1, <4>1
    <3>2. CASE i # m
      <4>1. i \in 1..(m - 1) /\ f[i] = IF i = 1 THEN q[i] ELSE f[i - 1] \o q[i]
        BY <2>5, <2>6, <3>2
      <4>2. i # 1 => i - 1 \in 1..m /\ i - 1 # m
        BY <2>3, <3>2
      <4> QED BY <3>2, <4>1, <4>2
    <3> QED BY <3>1, <3>2
  <2>11. Fun(m, g)
    BY <2>9, <2>10
  <2> QED BY <2>2, <2>11
<1>4. PICK f : Fun(n, f)
  <2>1. n \in 1..n
    BY <1>1
  <2> HIDE DEF Fun
  <2> QED BY <1>3, <2>1
<1>5. Rec(f)
  <2>1. f = [i \in 1..n |-> f[i]]
    BY <1>4
  <2> QED BY <1>4, <2>1
<1>6. ASSUME NEW g, Rec(g) PROVE g[n] = f[n]
  <2> DEFINE Differ == {k \in 1..n : g[k] # f[k]}
  <2>1. ASSUME Differ # {} PROVE FALSE
    <3>1. Differ \in SUBSET Nat
      OBVIOUS
    <3>2. PICK m \in Differ : \A k \in Differ : m <= k
      <4> HIDE DEF Differ
      <4> QED BY <2>1, <3>1, LeastOf
    <3>3. g[m] = IF m = 1 THEN q[m] ELSE g[m - 1] \o q[m]
      BY <1>6
    <3>4. f[m] = IF m = 1 THEN q[m] ELSE f[m - 1] \o q[m]
      BY <1>4
    <3>5. m # 1 => m - 1 \in 1..n /\ ~(m <= m - 1)
      BY <1>1
    <3>6. m # 1 => g[m - 1] = f[m - 1]
      BY <3>2, <3>5
    <3>7. g[m] # f[m]
      OBVIOUS
    <3> QED BY <3>3, <3>4, <3>6, <3>7
  <2> QED BY <1>1, <2>1
<1>7. /\ f \in [1..n -> Seq(S)]
      /\ \A i \in 1..n : f[i] = IF i = 1 THEN q[i] ELSE f[i - 1] \o q[i]
  BY <1>4
<1>8. FlattenSeq(q) = (CHOOSE g : Rec(g))[n]
  BY DEF FlattenSeq
<1> HIDE DEF Rec
<1>9. Rec(CHOOSE g : Rec(g))
  BY <1>5
<1>10. FlattenSeq(q) = f[n]
  BY <1>6, <1>8, <1>9
<1> QED BY <1>7, <1>10

\* FlattenSeq keeps the type of the elements.
LEMMA Flattened ==
  ASSUME NEW S, NEW q \in Seq(Seq(S))
  PROVE  FlattenSeq(q) \in Seq(S)
<1>1. CASE Len(q) = 0
  BY <1>1 DEF FlattenSeq
<1>2. CASE Len(q) # 0
  <2>1. Len(q) \in 1..Len(q)
    BY <1>2
  <2> QED BY <1>2, <2>1, Flattening
<1> QED BY <1>1, <1>2
-----------------------------------------------------------------------------
(* Lists of groups. *)

LEMMA InRunnersOf ==
  ASSUME NEW gs, NEW r
  PROVE  r \in RunnersOf(gs) <=> \E i \in DOMAIN gs : r \in Range(gs[i])
  BY DEF RunnersOf

LEMMA IsList ==
  ASSUME NEW n \in Nat, NEW gs \in [1..n -> Seq(Runners)]
  PROVE  gs \in Lists
  BY DEF Lists

LEMMA ListTypes ==
  ASSUME NEW gs \in Lists
  PROVE  /\ Len(gs) \in Nat /\ DOMAIN gs = 1..Len(gs)
         /\ RunnersOf(gs) \subseteq Runners
         /\ \A i \in DOMAIN gs : gs[i] \in Seq(Runners) /\ Range(gs[i]) \subseteq Runners
<1>1. Len(gs) \in Nat /\ DOMAIN gs = 1..Len(gs) /\ \A i \in DOMAIN gs : gs[i] \in Seq(Runners)
  BY DEF Lists
<1>2. \A i \in DOMAIN gs : Range(gs[i]) \subseteq Runners
  <2> TAKE i \in DOMAIN gs
  <2>1. gs[i] \in Seq(Runners)
    BY <1>1
  <2>2. \A j \in DOMAIN gs[i] : gs[i][j] \in Runners
    BY <2>1
  <2> QED BY <2>2 DEF Range
<1> QED BY <1>1, <1>2, InRunnersOf

LEMMA EmptyList == GroupList(<<>>) /\ RunnersOf(<<>>) = {}
  BY DEF GroupList, RunnersOf, Lists

\* splice(): two lists that share no runner.
LEMMA JoinLists ==
  ASSUME NEW a, NEW b, GroupList(a), GroupList(b),
         RunnersOf(a) \intersect RunnersOf(b) = {}
  PROVE  /\ GroupList(a \o b)
         /\ RunnersOf(a \o b) = RunnersOf(a) \union RunnersOf(b)
<1>1. a \in Lists /\ b \in Lists
  BY DEF GroupList
<1>2. /\ a \o b \in Lists /\ Len(a) \in Nat /\ Len(b) \in Nat
      /\ DOMAIN a = 1..Len(a) /\ DOMAIN b = 1..Len(b)
      /\ DOMAIN (a \o b) = 1..(Len(a) + Len(b))
      /\ \A i \in 1..Len(a) : (a \o b)[i] = a[i]
      /\ \A i \in 1..Len(b) : (a \o b)[Len(a) + i] = b[i]
  BY <1>1 DEF Lists
<1>3. \A i \in DOMAIN (a \o b) :
        \/ i \in DOMAIN a /\ (a \o b)[i] = a[i]
        \/ i - Len(a) \in DOMAIN b /\ (a \o b)[i] = b[i - Len(a)]
  <2> TAKE i \in DOMAIN (a \o b)
  <2>1. CASE i <= Len(a)
    BY <1>2, <2>1
  <2>2. CASE ~(i <= Len(a))
    <3>1. i - Len(a) \in 1..Len(b) /\ Len(a) + (i - Len(a)) = i
      BY <1>2, <2>2
    <3> QED BY <1>2, <3>1
  <2> QED BY <2>1, <2>2
<1>4. \A i \in DOMAIN a, j \in DOMAIN b : Range(a[i]) \intersect Range(b[j]) = {}
  BY InRunnersOf
<1>6. ASSUME NEW i \in DOMAIN (a \o b), NEW j \in DOMAIN (a \o b),
             Range((a \o b)[i]) \intersect Range((a \o b)[j]) # {}
      PROVE  i = j
  <2>1. CASE i \in DOMAIN a /\ (a \o b)[i] = a[i]
    <3>1. j \in DOMAIN a /\ (a \o b)[j] = a[j]
      BY <1>3, <1>4, <1>6, <2>1
    <3> QED BY <1>6, <2>1, <3>1 DEF GroupList
  <2>2. CASE i - Len(a) \in DOMAIN b /\ (a \o b)[i] = b[i - Len(a)]
    <3>1. j - Len(a) \in DOMAIN b /\ (a \o b)[j] = b[j - Len(a)]
      BY <1>3, <1>4, <1>6, <2>2
    <3>2. i - Len(a) = j - Len(a)
      BY <1>6, <2>2, <3>1 DEF GroupList
    <3> QED BY <1>2, <3>2
  <2> QED BY <1>3, <2>1, <2>2
<1>7. GroupList(a \o b)
  BY <1>2, <1>6 DEF GroupList
<1>8. \A x : x \in RunnersOf(a \o b) => x \in RunnersOf(a) \union RunnersOf(b)
  BY <1>3, InRunnersOf
<1>9. \A x \in RunnersOf(a) : x \in RunnersOf(a \o b)
  <2> TAKE x \in RunnersOf(a)
  <2>1. PICK i \in DOMAIN a : x \in Range(a[i])
    BY InRunnersOf
  <2>2. i \in DOMAIN (a \o b) /\ (a \o b)[i] = a[i]
    BY <1>2
  <2> QED BY <2>1, <2>2, InRunnersOf
<1>10. \A x \in RunnersOf(b) : x \in RunnersOf(a \o b)
  <2> TAKE x \in RunnersOf(b)
  <2>1. PICK i \in DOMAIN b : x \in Range(b[i])
    BY InRunnersOf
  <2>2. Len(a) + i \in DOMAIN (a \o b) /\ (a \o b)[Len(a) + i] = b[i]
    BY <1>2
  <2> QED BY <2>1, <2>2, InRunnersOf
<1> QED BY <1>7, <1>8, <1>9, <1>10

\* insert() of a new group at the end.
LEMMA AppendGroup ==
  ASSUME NEW gs, GroupList(gs), NEW g \in Seq(Runners),
         Range(g) \intersect RunnersOf(gs) = {}
  PROVE  /\ GroupList(Append(gs, g))
         /\ RunnersOf(Append(gs, g)) = RunnersOf(gs) \union Range(g)
<1>1. GroupList(<<g>>)
  <2>1. <<g>> \in Lists /\ DOMAIN <<g>> = {1}
    BY DEF Lists
  <2> QED BY <2>1 DEF GroupList
<1>2. RunnersOf(<<g>>) = Range(g)
  <2>1. DOMAIN <<g>> = {1} /\ <<g>>[1] = g
    OBVIOUS
  <2> QED BY <2>1 DEF RunnersOf
<1>3. Append(gs, g) = gs \o <<g>>
  BY DEF GroupList, Lists
<1> QED BY <1>1, <1>2, <1>3, JoinLists

\* A group of one runner.
LEMMA Alone ==
  ASSUME NEW r \in Runners
  PROVE  <<r>> \in Seq(Runners) /\ Range(<<r>>) = {r} /\ <<r>>[1] = r
  BY DEF Range

\* list::sort: the same groups in another order.
LEMMA Reordered ==
  ASSUME NEW gs, GroupList(gs), NEW hs \in Orders(gs)
  PROVE  GroupList(hs) /\ RunnersOf(hs) = RunnersOf(gs)
<1> DEFINE n == Len(gs)
           D == 1..n
<1>1. gs \in Lists /\ n \in Nat /\ DOMAIN gs = D /\ \A i \in D : gs[i] \in Seq(Runners)
  BY ListTypes DEF GroupList
<1>2. PICK p \in [D -> D] : IsInjective(p) /\ hs = [k \in D |-> gs[p[k]]]
  BY <1>1 DEF Orders
<1>3. IsFiniteSet(D) /\ Cardinality(D) = n
  <2>1. 1 \in Int /\ n \in Int /\ (1 > n => n = 0) /\ n - 1 + 1 = n
    BY <1>1
  <2> QED BY <2>1, FS_Interval
<1> HIDE DEF D
<1>4. p \in Surjection(D, D)
  <2>1. p \in Injection(D, D)
    BY <1>2 DEF Injection, IsInjective
  <2> QED BY <1>3, <2>1, FS_Injection
<1>5. \A i \in D : \E k \in D : p[k] = i
  BY <1>4 DEF Surjection
<1>6. hs \in [D -> Seq(Runners)]
  BY <1>1, <1>2
<1>7. hs \in Lists /\ DOMAIN hs = D
  BY <1>1, <1>6, IsList DEF D
<1>8. \A j, k \in D : p[j] = p[k] => j = k
  BY <1>2 DEF IsInjective
<1>9. GroupList(hs)
  BY <1>1, <1>2, <1>7, <1>8 DEF GroupList
<1>10. \A x : x \in RunnersOf(hs) => x \in RunnersOf(gs)
  BY <1>1, <1>2, <1>7, InRunnersOf
<1>11. ASSUME NEW x \in RunnersOf(gs) PROVE x \in RunnersOf(hs)
  <2>1. PICK i \in D : x \in Range(gs[i])
    BY <1>1, InRunnersOf
  <2>2. PICK k \in D : p[k] = i
    BY <1>5
  <2>3. k \in DOMAIN hs /\ x \in Range(hs[k])
    BY <1>2, <1>7, <2>1, <2>2
  <2> QED BY <2>3, InRunnersOf
<1> QED BY <1>9, <1>10, <1>11

\* A list cut in two: its first n groups and the others.
LEMMA Cut ==
  ASSUME NEW gs, GroupList(gs), NEW n \in 0..Len(gs)
  PROVE  LET a == SubSeq(gs, 1, n)
             b == SubSeq(gs, n + 1, Len(gs)) IN
         /\ GroupList(a) /\ GroupList(b)
         /\ RunnersOf(a) \intersect RunnersOf(b) = {}
         /\ RunnersOf(gs) = RunnersOf(a) \union RunnersOf(b)
<1> DEFINE a == SubSeq(gs, 1, n)
           b == SubSeq(gs, n + 1, Len(gs))
           m == Len(gs)
<1>1. gs \in Lists /\ m \in Nat /\ DOMAIN gs = 1..m /\ \A i \in 1..m : gs[i] \in Seq(Runners)
  BY ListTypes DEF GroupList
<1>2. /\ a \in Lists /\ DOMAIN a = 1..n /\ \A i \in 1..n : a[i] = gs[i]
      /\ b \in Lists /\ DOMAIN b = 1..(m - n) /\ \A i \in 1..(m - n) : b[i] = gs[n + i]
  <2>1. n \in Int /\ n + 1 \in Int /\ m \in Int /\ 0 <= n /\ n <= m
    BY <1>1
  <2>2. (\A i \in 1..n : gs[i] \in Seq(Runners))
        /\ (\A i \in (n + 1)..m : gs[i] \in Seq(Runners))
    BY <1>1, <2>1
  <2>3. /\ a \in Lists /\ Len(a) = IF 1 <= n THEN n - 1 + 1 ELSE 0
        /\ \A i \in 1..(n - 1 + 1) : a[i] = gs[1 + i - 1]
    BY <1>1, <2>1, <2>2, SubSeqProperties DEF Lists
  <2>4. /\ b \in Lists /\ Len(b) = IF n + 1 <= m THEN m - (n + 1) + 1 ELSE 0
        /\ \A i \in 1..(m - (n + 1) + 1) : b[i] = gs[n + 1 + i - 1]
    BY <1>1, <2>1, <2>2, SubSeqProperties DEF Lists
  <2> HIDE DEF a, b
  <2>5. Len(a) = n /\ \A i \in 1..n : a[i] = gs[i]
    BY <2>1, <2>3
  <2>6. Len(b) = m - n
    BY <2>1, <2>4
  <2>7. ASSUME NEW i \in 1..(m - n) PROVE b[i] = gs[n + i]
    <3>1. i \in 1..(m - (n + 1) + 1) /\ n + 1 + i - 1 = n + i
      BY <2>1
    <3> QED BY <2>4, <3>1
  <2>8. DOMAIN a = 1..n /\ DOMAIN b = 1..(m - n)
    BY <2>3, <2>4, <2>5, <2>6, ListTypes
  <2> QED BY <2>3, <2>4, <2>5, <2>7, <2>8
<1> HIDE DEF a, b
<1>3. \A i \in DOMAIN a : i \in DOMAIN gs /\ a[i] = gs[i] /\ i <= n
  BY <1>1, <1>2
<1>4. \A i \in DOMAIN b : n + i \in DOMAIN gs /\ b[i] = gs[n + i] /\ ~(n + i <= n)
  BY <1>1, <1>2
<1>5. \A i \in DOMAIN gs : i \in DOMAIN a \/ (i - n \in DOMAIN b /\ n + (i - n) = i)
  BY <1>1, <1>2
<1>6. GroupList(a)
  BY <1>2, <1>3 DEF GroupList
<1>7. GroupList(b)
  <2>1. ASSUME NEW j \in DOMAIN b, NEW k \in DOMAIN b, n + j = n + k PROVE j = k
    BY <1>2, <2>1
  <2> QED BY <1>2, <1>4, <2>1 DEF GroupList
<1>8. ASSUME NEW x \in RunnersOf(a), x \in RunnersOf(b) PROVE FALSE
  <2>1. PICK i \in DOMAIN a : x \in Range(a[i])
    BY InRunnersOf
  <2>2. PICK j \in DOMAIN b : x \in Range(b[j])
    BY <1>8, InRunnersOf
  <2>3. i = n + j
    BY <1>3, <1>4, <2>1, <2>2 DEF GroupList
  <2> QED BY <1>3, <1>4, <2>3
<1>9. \A x : x \in RunnersOf(a) \/ x \in RunnersOf(b) => x \in RunnersOf(gs)
  BY <1>3, <1>4, InRunnersOf
<1>10. ASSUME NEW x \in RunnersOf(gs) PROVE x \in RunnersOf(a) \/ x \in RunnersOf(b)
  <2>1. PICK i \in DOMAIN gs : x \in Range(gs[i])
    BY InRunnersOf
  <2>2. CASE i \in DOMAIN a
    BY <1>3, <2>1, <2>2, InRunnersOf
  <2>3. CASE i - n \in DOMAIN b /\ n + (i - n) = i
    <3>1. x \in Range(b[i - n])
      BY <1>4, <2>1, <2>3
    <3> QED BY <2>3, <3>1, InRunnersOf
  <2> QED BY <1>5, <2>2, <2>3
<1> QED BY <1>6, <1>7, <1>8, <1>9, <1>10 DEF a, b

\* The first group of a list, and the others.
LEMMA FirstGroup ==
  ASSUME NEW gs, GroupList(gs), gs # <<>>
  PROVE  /\ Head(gs) \in Seq(Runners) /\ GroupList(Tail(gs))
         /\ Range(Head(gs)) \intersect RunnersOf(Tail(gs)) = {}
         /\ RunnersOf(gs) = Range(Head(gs)) \union RunnersOf(Tail(gs))
<1>1. gs \in Lists /\ Len(gs) \in Nat /\ Len(gs) # 0 /\ DOMAIN gs = 1..Len(gs)
  BY ListTypes DEF GroupList, Lists
<1>2. /\ Head(gs) = gs[1] /\ gs[1] \in Seq(Runners)
      /\ Tail(gs) \in Lists /\ DOMAIN Tail(gs) = 1..(Len(gs) - 1)
      /\ \A i \in 1..(Len(gs) - 1) : Tail(gs)[i] = gs[i + 1]
  BY <1>1 DEF Lists
<1> DEFINE t == Tail(gs)
<1>3. \A i \in DOMAIN t : i + 1 \in DOMAIN gs /\ t[i] = gs[i + 1] /\ i + 1 # 1
  BY <1>1, <1>2
<1>4. 1 \in DOMAIN gs /\ \A i \in DOMAIN gs : i = 1 \/ (i - 1 \in DOMAIN t /\ i - 1 + 1 = i)
  BY <1>1, <1>2
<1>5. GroupList(t)
  <2>1. ASSUME NEW j \in DOMAIN t, NEW k \in DOMAIN t, j + 1 = k + 1 PROVE j = k
    BY <1>2, <2>1
  <2> QED BY <1>2, <1>3, <2>1 DEF GroupList
<1> HIDE DEF t
<1>6. ASSUME NEW x \in Range(gs[1]), x \in RunnersOf(t) PROVE FALSE
  <2>1. PICK j \in DOMAIN t : x \in Range(t[j])
    BY <1>6, InRunnersOf
  <2> QED BY <1>3, <1>4, <2>1 DEF GroupList
<1>7. \A x : x \in Range(gs[1]) \/ x \in RunnersOf(t) => x \in RunnersOf(gs)
  BY <1>3, <1>4, InRunnersOf
<1>8. ASSUME NEW x \in RunnersOf(gs), x \notin Range(gs[1]) PROVE x \in RunnersOf(t)
  <2>1. PICK i \in DOMAIN gs : x \in Range(gs[i])
    BY InRunnersOf
  <2>2. i - 1 \in DOMAIN t /\ i - 1 + 1 = i
    BY <1>4, <1>8, <2>1
  <2>3. x \in Range(t[i - 1])
    BY <1>3, <2>1, <2>2
  <2> QED BY <2>2, <2>3, InRunnersOf
<1> QED BY <1>2, <1>5, <1>6, <1>7, <1>8 DEF t

\* UnBind of one runner: the others stay in their groups.
LEMMA WithoutRunner ==
  ASSUME NEW gs, GroupList(gs), NEW r
  PROVE  /\ GroupList(Without(gs, r))
         /\ RunnersOf(Without(gs, r)) \subseteq RunnersOf(gs)
         /\ RunnersOf(gs) \ {r} \subseteq RunnersOf(Without(gs, r))
<1> DEFINE ws == Without(gs, r)
<1>1. gs \in Lists /\ DOMAIN gs = 1..Len(gs) /\ Len(gs) \in Nat
      /\ \A i \in DOMAIN gs : gs[i] \in Seq(Runners)
  BY ListTypes DEF GroupList
<1>2. DOMAIN ws = DOMAIN gs /\ \A i \in DOMAIN gs : ws[i] = RemoveFirst(gs[i], r)
  BY DEF Without
<1>3. \A i \in DOMAIN gs : /\ ws[i] \in Seq(Runners)
                           /\ Range(ws[i]) \subseteq Range(gs[i])
                           /\ Range(gs[i]) \ {r} \subseteq Range(ws[i])
  BY <1>1, <1>2, ErasedRange
<1>4. ws \in Lists
  <2>1. ws \in [1..Len(gs) -> Seq(Runners)]
    BY <1>1, <1>2, <1>3 DEF Without
  <2> QED BY <1>1, <2>1, IsList
<1> HIDE DEF ws
<1>5. GroupList(ws)
  <2>1. ASSUME NEW j \in DOMAIN ws, NEW k \in DOMAIN ws,
               Range(ws[j]) \intersect Range(ws[k]) # {}
        PROVE  j = k
    <3>1. Range(gs[j]) \intersect Range(gs[k]) # {}
      BY <1>2, <1>3, <2>1
    <3> QED BY <1>2, <3>1 DEF GroupList
  <2> QED BY <1>4, <2>1 DEF GroupList
<1>6. \A x : x \in RunnersOf(ws) => x \in RunnersOf(gs)
  BY <1>2, <1>3, InRunnersOf
<1>7. \A x : x \in RunnersOf(gs) /\ x # r => x \in RunnersOf(ws)
  BY <1>2, <1>3, InRunnersOf
<1> QED BY <1>5, <1>6, <1>7 DEF ws

\* BindGroup: a new runner on top of the group of f.
LEMMA Pushed ==
  ASSUME NEW gs, GroupList(gs), NEW f, NEW s \in Runners, s \notin RunnersOf(gs)
  PROVE  /\ GroupList(PushOn(gs, f, s))
         /\ f \in RunnersOf(gs)
              => RunnersOf(PushOn(gs, f, s)) = RunnersOf(gs) \union {s}
<1> DEFINE ps == PushOn(gs, f, s)
<1>1. gs \in Lists /\ DOMAIN gs = 1..Len(gs) /\ Len(gs) \in Nat
      /\ \A i \in DOMAIN gs : gs[i] \in Seq(Runners)
  BY ListTypes DEF GroupList
<1>2. DOMAIN ps = DOMAIN gs
      /\ \A i \in DOMAIN gs : ps[i] = IF f \in Range(gs[i]) THEN Append(gs[i], s) ELSE gs[i]
  BY DEF PushOn
<1>3. ASSUME NEW g \in Seq(Runners)
      PROVE  Append(g, s) \in Seq(Runners) /\ Range(Append(g, s)) = Range(g) \union {s}
  <2>1. /\ Append(g, s) \in Seq(Runners) /\ Len(g) \in Nat
        /\ DOMAIN Append(g, s) = 1..(Len(g) + 1) /\ DOMAIN g = 1..Len(g)
        /\ Append(g, s)[Len(g) + 1] = s
        /\ \A i \in 1..Len(g) : Append(g, s)[i] = g[i]
    OBVIOUS
  <2>2. \A i \in 1..(Len(g) + 1) : i \in 1..Len(g) \/ i = Len(g) + 1
    BY <2>1
  <2>3. Len(g) + 1 \in 1..(Len(g) + 1) /\ \A i \in 1..Len(g) : i \in 1..(Len(g) + 1)
    BY <2>1
  <2> QED BY <2>1, <2>2, <2>3 DEF Range
<1>4. \A i \in DOMAIN gs :
        /\ ps[i] \in Seq(Runners)
        /\ Range(ps[i]) = IF f \in Range(gs[i]) THEN Range(gs[i]) \union {s}
                                                ELSE Range(gs[i])
  BY <1>1, <1>2, <1>3
<1>5. ps \in Lists
  <2>1. ps \in [1..Len(gs) -> Seq(Runners)]
    BY <1>1, <1>2, <1>4 DEF PushOn
  <2> QED BY <1>1, <2>1, IsList
<1> HIDE DEF ps
<1>6. \A i \in DOMAIN gs : s \notin Range(gs[i])
  BY InRunnersOf
<1>7. ASSUME NEW j \in DOMAIN ps, NEW k \in DOMAIN ps, NEW x,
             x \in Range(ps[j]), x \in Range(ps[k])
      PROVE  j = k
  <2>1. CASE x = s
    <3>1. f \in Range(gs[j]) /\ f \in Range(gs[k])
      BY <1>2, <1>4, <1>6, <1>7, <2>1
    <3> QED BY <1>2, <3>1 DEF GroupList
  <2>2. CASE x # s
    <3>1. x \in Range(gs[j]) /\ x \in Range(gs[k])
      BY <1>2, <1>4, <1>7, <2>2
    <3> QED BY <1>2, <3>1 DEF GroupList
  <2> QED BY <2>1, <2>2
<1>8. GroupList(ps)
  BY <1>5, <1>7 DEF GroupList
<1>9. f \in RunnersOf(gs) => RunnersOf(ps) = RunnersOf(gs) \union {s}
  <2> HAVE f \in RunnersOf(gs)
  <2>1. PICK i \in DOMAIN gs : f \in Range(gs[i])
    BY InRunnersOf
  <2>2. s \in RunnersOf(ps)
    BY <1>2, <1>4, <2>1, InRunnersOf
  <2>3. \A x : x \in RunnersOf(gs) => x \in RunnersOf(ps)
    BY <1>2, <1>4, InRunnersOf
  <2>4. \A x : x \in RunnersOf(ps) => x \in RunnersOf(gs) \/ x = s
    BY <1>2, <1>4, InRunnersOf
  <2> QED BY <2>2, <2>3, <2>4
<1> QED BY <1>8, <1>9 DEF ps
-----------------------------------------------------------------------------
(* Groups that go from one list to another. *)

LEMMA SiteFacts ==
  /\ HeldSite \in Sites
  /\ \A w \in Workers : <<"running", w>> \in Sites /\ <<"pending", w>> \in Sites
  /\ \A a \in Sites : \/ a = HeldSite
                      \/ \E w \in Workers : a = <<"running", w>> \/ a = <<"pending", w>>
  /\ \A v, w : /\ <<"running", v>> # <<"pending", w>>
               /\ <<"running", v>> # HeldSite /\ <<"pending", v>> # HeldSite
               /\ <<"running", v>> = <<"running", w>> => v = w
               /\ <<"pending", v>> = <<"pending", w>> => v = w
  BY DEF Sites, HeldSite

LEMMA PlaceFacts ==
  /\ Place[HeldSite] = Held
  /\ \A w \in Workers : /\ Place[<<"running", w>>] = worker[w].running
                        /\ Place[<<"pending", w>>] = worker[w].pending
  BY SiteFacts DEF Place, HeldSite

LEMMA NextPlaceFacts ==
  /\ Place'[HeldSite] = Held'
  /\ \A w \in Workers : /\ Place'[<<"running", w>>] = worker'[w].running
                        /\ Place'[<<"pending", w>>] = worker'[w].pending
  BY SiteFacts DEF Place, HeldSite

\* The lists x and y exchange runners, get the fresh ones and lose others.
Exchange(f, g, x, y, fresh, gone) ==
  /\ \A r \in fresh : ~In(f, r)
  /\ gone \subseteq RunnersOf(f[x])
  /\ \A a \in Sites : a = x \/ a = y \/ g[a] = f[a]
  /\ GroupList(g[x]) /\ GroupList(g[y])
  /\ x # y => RunnersOf(g[x]) \intersect RunnersOf(g[y]) = {}
  /\ RunnersOf(g[x]) \union RunnersOf(g[y])
       = (RunnersOf(f[x]) \union RunnersOf(f[y]) \union fresh) \ gone

LEMMA Transfer ==
  ASSUME NEW f, NEW g, Parted(f), NEW x \in Sites, NEW y \in Sites,
         NEW fresh, NEW gone, Exchange(f, g, x, y, fresh, gone)
  PROVE  /\ Parted(g)
         /\ \A r : In(g, r) <=> (In(f, r) \/ r \in fresh) /\ r \notin gone
<1> USE DEF Exchange
<1>1. \A a \in Sites : GroupList(g[a])
  BY DEF Parted
<1>2. ASSUME NEW a \in Sites, NEW r, a # x, a # y, r \in RunnersOf(g[a])
      PROVE  /\ r \in RunnersOf(f[a]) /\ In(f, r) /\ r \notin fresh /\ r \notin gone
             /\ r \notin RunnersOf(f[x]) /\ r \notin RunnersOf(f[y])
  BY <1>2 DEF Parted, In
<1>3. ASSUME NEW a \in Sites, NEW b \in Sites, NEW r,
             r \in RunnersOf(g[a]), r \in RunnersOf(g[b])
      PROVE  a = b
  <2>1. CASE a \notin {x, y} /\ b \notin {x, y}
    BY <1>3, <2>1 DEF Parted
  <2>2. CASE a \in {x, y} /\ b \in {x, y}
    BY <1>3, <2>2
  <2>3. CASE a \in {x, y} /\ b \notin {x, y}
    BY <1>2, <1>3, <2>3
  <2>4. CASE a \notin {x, y} /\ b \in {x, y}
    BY <1>2, <1>3, <2>4
  <2> QED BY <2>1, <2>2, <2>3, <2>4
<1>4. Parted(g)
  BY <1>1, <1>3 DEF Parted
<1>5. ASSUME NEW r, In(g, r) PROVE (In(f, r) \/ r \in fresh) /\ r \notin gone
  <2>1. PICK a \in Sites : r \in RunnersOf(g[a])
    BY <1>5 DEF In
  <2>2. CASE a \in {x, y}
    BY <2>1, <2>2 DEF In
  <2>3. CASE a \notin {x, y}
    BY <1>2, <2>1, <2>3
  <2> QED BY <2>2, <2>3
<1>6. ASSUME NEW r, r \in fresh, r \notin gone PROVE In(g, r)
  BY <1>6 DEF In
<1>7. ASSUME NEW r, In(f, r), r \notin gone PROVE In(g, r)
  <2>1. PICK a \in Sites : r \in RunnersOf(f[a])
    BY <1>7 DEF In
  <2> QED BY <1>7, <2>1 DEF In
<1> QED BY <1>4, <1>5, <1>6, <1>7

\* A list keeps its runners, save perhaps s.
Fewer(a, b, s) == /\ GroupList(b) /\ RunnersOf(b) \subseteq RunnersOf(a)
                  /\ RunnersOf(a) \ {s} \subseteq RunnersOf(b)

LEMMA Shrunk ==
  ASSUME NEW f, NEW g, Parted(f), NEW s, \A a \in Sites : Fewer(f[a], g[a], s)
  PROVE  /\ Parted(g)
         /\ \A r : In(g, r) => In(f, r)
         /\ \A r : In(f, r) /\ r # s => In(g, r)
<1>1. Parted(g)
  BY DEF Parted, Fewer
<1>2. \A r : In(g, r) => In(f, r)
  BY DEF In, Fewer
<1>3. \A r : In(f, r) /\ r # s => In(g, r)
  BY DEF In, Fewer
<1> QED BY <1>1, <1>2, <1>3

\* What a step does to the places: fresh runners come, gone ones are dropped,
\* lost ones may stay.
Moves(fresh, gone, lost) ==
  /\ Parted(Place)'
  /\ \A r \in Runners :
       Somewhere(r)' => (Somewhere(r) \/ r \in fresh) /\ r \notin gone
  /\ \A r \in Runners \ lost :
       (Somewhere(r) \/ r \in fresh) /\ r \notin gone => Somewhere(r)'

\* The lives of the runners follow their moves.
Follow(fresh, gone, lost) ==
  /\ history'["dropped"] = history["dropped"] \union gone
  /\ \A r \in fresh : Early(r) /\ runner'[r].life = "bound"
  /\ \A r \in gone : Somewhere(r)
  /\ \A r \in lost : runner'[r].life = "removed"
  /\ \A r \in Runners \ fresh :
       /\ Early(r)' => Early(r)
       /\ runner'[r].life = "bound" => runner[r].life = "bound"
  /\ \A r \in RunnersOf(balance.groups)' :
       r \in Runners /\ (r \in RunnersOf(balance.groups) \/ Somewhere(r))

LEMMA LivesStep ==
  ASSUME TypeOK, Lives, NEW fresh \in SUBSET Runners, NEW gone \in SUBSET Runners,
         NEW lost \in SUBSET Runners, Moves(fresh, gone, lost),
         Follow(fresh, gone, lost)
  PROVE  Lives'
<1> USE DEF Follow
<1>01. history["dropped"] \subseteq Runners
  BY DEF TypeOK, Causes
<1>0. \A r \in Runners : runner'[r].life = "bound" => ~Early(r)'
  BY DEF Early
<1>1. \A r \in Runners : Early(r) => ~Somewhere(r)
  BY DEF Lives
<1>2. ASSUME NEW r \in Runners, runner'[r].life = "bound", r \notin history'["dropped"]
      PROVE  Somewhere(r)'
  <2>1. r \notin lost /\ r \notin gone
    BY <1>2
  <2>2. Somewhere(r) \/ r \in fresh
    BY <1>2 DEF Lives
  <2> QED BY <2>1, <2>2 DEF Moves
<1>3. ASSUME NEW r \in history'["dropped"] PROVE ~Early(r)' /\ ~Somewhere(r)'
  <2>1. CASE r \in gone
    <3>1. ~Early(r) /\ r \notin fresh
      BY <1>1, <2>1
    <3> QED BY <2>1, <3>1 DEF Moves
  <2>2. CASE r \in history["dropped"]
    <3>1. ~Early(r) /\ ~Somewhere(r) /\ r \notin fresh /\ r \in Runners
      BY <1>01, <2>2 DEF Lives
    <3> QED BY <3>1 DEF Moves
  <2> QED BY <2>1, <2>2
<1>4. ASSUME NEW r \in Runners, Early(r)' PROVE ~Somewhere(r)'
  <2>1. r \notin fresh
    BY <1>0, <1>4
  <2> QED BY <1>1, <1>4, <2>1 DEF Moves
<1>5. ASSUME NEW r \in RunnersOf(balance.groups)' PROVE ~Early(r)'
  <2>1. r \in Runners /\ ~Early(r)
    BY <1>1 DEF Lives
  <2> QED BY <2>1
<1> HIDE DEF Early, Somewhere
<1> QED BY <1>2, <1>3, <1>4, <1>5 DEF Lives
-----------------------------------------------------------------------------
(* Sizes and positions. *)

Steps == {"none", "create", "count", "retain", "recount", "deal",
          "unbind", "unbind_pending", "keep", "rebind", "repoint"}
Statuses == {"ok", "empty_group", "no_worker", "out_of_range", "race",
             "bind_end", "doubled", "iterator", "before_begin", "check"}

\* The numbers' part of TypeOK.
Numbers ==
  /\ count \in 1..MaxWorkers /\ size_ \in 1..MaxWorkers /\ index_ \in Nat
  /\ balance.step \in Steps /\ balance.i \in (-1)..MaxWorkers
  /\ balance.target \in 0..MaxWorkers /\ balance.reduce_size \in Int
  /\ changes \in 0..MaxChanges /\ status \in Statuses

\* The part that need_balance_ and the removals under way have in it.
Extras ==
  /\ need_balance \in [Workers -> {"clear", "set", "clearing"}]
  /\ overwritten \subseteq Runners /\ removing \subseteq Runners
  /\ unbinding \in [Runners -> UnBindRecords]

LEMMA TypeParts ==
  TypeOK <=> /\ Numbers
             /\ worker \in [Workers -> WorkerRecords]
             /\ runner \in [Runners -> RunnerRecords]
             /\ balance \in BalanceRecords
             /\ history \in [Causes -> SUBSET Runners]
             /\ Extras
  BY DEF TypeOK, Numbers, Steps, Statuses, WorkerRecords, RunnerRecords,
         BalanceRecords, UnBindRecords, Extras, Mail, Lists

LEMMA NextTypeParts ==
  TypeOK' <=> /\ Numbers'
              /\ worker' \in [Workers -> WorkerRecords]
              /\ runner' \in [Runners -> RunnerRecords]
              /\ balance' \in BalanceRecords
              /\ history' \in [Causes -> SUBSET Runners]
              /\ Extras'
  BY DEF TypeOK, Numbers, Steps, Statuses, WorkerRecords, RunnerRecords,
         BalanceRecords, UnBindRecords, Extras, Mail, Lists

LEMMA NoBalanceType == NoBalance \in BalanceRecords
<1>1. <<>> \in Lists
  BY DEF Lists
<1>2. MaxWorkers \in Nat
  BY SizesAssumption
<1> QED BY <1>1, <1>2 DEF NoBalance, BalanceRecords

Ranged == Numbers /\ Sized /\ Indexed /\ Reduced

\* A step that sets no number, or only the status, to a failure other than
\* the two that Indexed and Reduced are about.
LEMMA RangedSame ==
  ASSUME Ranged, UNCHANGED <<count, size_, index_, balance, changes>>,
         status' \in Statuses, status' \in {"out_of_range", "check"} => status' = status
  PROVE  Ranged'
  BY DEF Ranged, Numbers, Sized, Indexed, Reduced, Growing, Shrinking, Unlocked

LEMMA RangedStep ==
  ASSUME TypeOK, Ranged, [Next]_vars
  PROVE  Ranged'
<1> USE SizesAssumption
<1>0. balance \in BalanceRecords
  BY TypeParts
<1>1. ASSUME NEW w \in Workers, ThreadStep(w) PROVE Ranged'
  BY <1>1, RangedSame DEF ThreadStep, Schedule, ClearNeedBalance, RunImmediateTask, Fail,
       Ranged, Numbers, Statuses
<1>2. ASSUME NEW w \in Workers, NEW r \in Runners, TaskStep(w, r) PROVE Ranged'
  BY <1>2, RangedSame DEF TaskStep, UseSpecificsUnbound, RunnerDestroySpecifics, Fail,
       Ranged, Numbers, Statuses
<1>3. ASSUME NEW r \in Runners, RunnerCall(r) PROVE Ranged'
  <2>1. CASE CreateLoose(r) \/ CreateInGroup(r) \/ BindPicked(r)
    BY <2>1, RangedSame DEF CreateLoose, CreateInGroup, BindPicked, Fail,
         Ranged, Numbers, Statuses
  <2>2. CASE \/ RemoveTaskRunner(r) \/ RemoveFromPending(r)
             \/ UnBindSub(r) \/ UnBindSubPending(r) \/ ClearHasSubRunner(r)
    BY <2>2, RangedSame DEF RemoveTaskRunner, RemoveFromPending, UnBindSub,
         UnBindSubPending, ClearHasSubRunner, Ranged, Numbers, Statuses
  <2>3. ASSUME NEW s \in Runners, \/ AddSubTaskRunner(r, s) \/ AddBoundTaskRunner(r, s)
                                 \/ RemoveSubTaskRunner(r, s)
        PROVE  Ranged'
    BY <2>3, RangedSame DEF AddSubTaskRunner, AddBoundTaskRunner, RemoveSubTaskRunner, Fail,
         Ranged, Numbers, Statuses
  <2>4. CASE CreateInNoGroup(r) \/ PickWorker(r)
    <3>1. CASE index_ >= count /\ Fail("out_of_range") /\ Unlocked
      BY <3>1 DEF Fail, Ranged, Numbers, Sized, Indexed, Reduced, Growing, Shrinking,
           Unlocked, Statuses
    <3>2. CASE /\ index_' = NextIndex(size_) /\ Unlocked
               /\ UNCHANGED <<count, size_, balance, changes, status>>
      BY <3>2 DEF Ranged, Numbers, Sized, Indexed, Reduced, Growing, Shrinking,
           Unlocked, NextIndex
    <3> QED BY <2>4, <3>1, <3>2 DEF CreateInNoGroup, PickWorker, AddTaskRunner
  <2> QED BY <1>3, <2>1, <2>2, <2>3, <2>4 DEF RunnerCall
<1>31. ASSUME NEW r \in Runners, DestroyRunner(r) PROVE Ranged'
  BY <1>31, RangedSame DEF DestroyRunner, Ranged, Numbers, Statuses
<1> USE DEF Ranged, Numbers, Sized, Indexed, Reduced, Growing, Shrinking, Unlocked, Ok
<1>4. ASSUME BalanceStep PROVE Ranged'
  <2>1. CASE CreateWorkers
    BY <1>0, <2>1 DEF CreateWorkers, BalanceRecords, Steps
  <2>2. CASE CountGroups
    BY <1>0, <2>2 DEF CountGroups, BalanceRecords, Steps
  <2>3. CASE Retain
    BY <1>0, <2>3 DEF Retain, Fail, BalanceRecords, Steps, Statuses
  <2>4. CASE Recount
    BY <1>0, <2>4 DEF Recount, BalanceRecords, Steps
  <2>5. CASE Deal
    <3> DEFINE last == balance.i + 1 = balance.target
               rest == balance'.groups
    <3>1. CASE Fail("no_worker") /\ Ok
      BY <3>1, RangedSame DEF Fail, Statuses
    <3>2. CASE last /\ size_' = balance.target /\ balance' = NoBalance
               /\ UNCHANGED <<count, index_, status, changes>>
      <4>1. /\ balance'.step = "none" /\ balance'.i = 0 /\ balance'.target = 0
            /\ balance'.reduce_size = 0
        BY <3>2 DEF NoBalance
      <4> QED BY <2>5, <3>2, <4>1 DEF Deal, Steps
    <3>3. CASE /\ ~last /\ size_' = size_
               /\ balance' = [balance EXCEPT !.groups = rest, !.i = @ + 1]
               /\ UNCHANGED <<count, index_, status, changes>>
      <4>1. /\ balance'.step = "deal" /\ balance'.i = balance.i + 1
            /\ balance'.target = balance.target
            /\ balance'.reduce_size = balance.reduce_size
        BY <1>0, <2>5, <3>3 DEF BalanceRecords, Deal
      <4> QED BY <2>5, <3>3, <4>1 DEF Deal, Steps
    <3>4. /\ Ok
          /\ \/ Fail("no_worker")
             \/ /\ size_' = IF last THEN balance.target ELSE size_
                /\ balance' = IF last THEN NoBalance
                      ELSE [balance EXCEPT
                        !.groups = SubSeq(balance.groups,
                          Share((size_ + balance.i) % balance.target) + 1,
                          Len(balance.groups)), !.i = @ + 1]
                /\ UNCHANGED <<count, index_, status, changes>>
      BY <2>5 DEF Deal
    <3>5. ~last /\ ~Fail("no_worker") =>
            balance' = [balance EXCEPT !.groups = rest, !.i = @ + 1]
      BY <1>0, <3>4 DEF BalanceRecords
    <3> QED BY <3>1, <3>2, <3>3, <3>4, <3>5
  <2>6. CASE UnBindWorker
    <3>1. CASE Fail("before_begin")
      BY <2>6, <3>1, RangedSame DEF UnBindWorker, Fail, Statuses
    <3>2. CASE balance' = [balance EXCEPT !.i = @ - 1] /\ balance.i >= 0
               /\ UNCHANGED <<count, size_, index_, status, changes>>
      BY <1>0, <2>6, <3>2 DEF UnBindWorker, BalanceRecords, Steps
    <3>3. CASE /\ balance.i >= 0
               /\ balance' = [balance EXCEPT !.groups = @ \o worker[balance.i].running,
                                             !.step = "unbind_pending"]
               /\ UNCHANGED <<count, size_, index_, status, changes>>
      BY <1>0, <2>6, <3>3 DEF UnBindWorker, UnBindMore, BalanceRecords, Steps
    <3> QED BY <2>6, <3>1, <3>2, <3>3 DEF UnBindWorker
  <2>7. CASE UnBindWorkerPending
    BY <1>0, <2>7 DEF UnBindWorkerPending, BalanceRecords, Steps
  <2>8. CASE UnBindEnd
    <3>1. CASE balance.reduce_size # 0 /\ Fail("check")
      <4>1. balance.target # 1
        BY <2>8, <3>1 DEF UnBindEnd, UnBindMore
      <4> QED BY <3>1, <4>1 DEF Fail, Statuses
    <3>2. CASE balance' = [balance EXCEPT !.i = 0, !.step = "keep"]
               /\ UNCHANGED <<count, size_, index_, status, changes>>
      BY <1>0, <2>8, <3>2 DEF UnBindEnd, BalanceRecords, Steps
    <3> QED BY <2>8, <3>1, <3>2 DEF UnBindEnd
  <2>9. CASE Keep
    <3>1. CASE Fail("iterator")
      BY <2>9, <3>1, RangedSame DEF Keep, Fail, Statuses
    <3>2. CASE ~RetainFails(balance.i)
      <4>1. /\ balance'.i = balance.i + 1 /\ balance'.target = balance.target
            /\ balance'.reduce_size = balance.reduce_size
            /\ balance'.step = IF balance.i + 1 = balance.target THEN "rebind" ELSE "keep"
        BY <1>0, <2>9, <3>2 DEF Keep, BalanceRecords
      <4>2. /\ index_' = IF balance.i + 1 = balance.target /\ index_ >= balance.target
                           THEN 0 ELSE index_
            /\ UNCHANGED <<count, size_, status, changes>> /\ balance.step = "keep" /\ Ok
        BY <2>9, <3>2 DEF Keep
      <4> QED BY <4>1, <4>2 DEF Steps
    <3> QED BY <2>9, <3>1, <3>2 DEF Keep
  <2>10. CASE Rebind
    BY <1>0, <2>10 DEF Rebind, Fail, BalanceRecords, Steps, Statuses
  <2>11. CASE Repoint
    BY <1>0, <2>11 DEF Repoint, NextIndex, BalanceRecords, Steps
  <2>12. CASE ShrinkEnd
    BY <1>0, <2>12, NoBalanceType DEF ShrinkEnd, NoBalance, BalanceRecords, Steps
  <2> QED BY <1>4, <2>1, <2>2, <2>3, <2>4, <2>5, <2>6, <2>7, <2>8, <2>9, <2>10, <2>11,
           <2>12 DEF BalanceStep
<1>5. ASSUME ManagerCall PROVE Ranged'
  <2>1. CASE \E n \in Sizes : ResizeUp(n)
    BY <2>1 DEF ResizeUp, Change, NoBalance, Steps
  <2>2. CASE \E n \in Sizes : ResizeDown(n)
    BY <2>2 DEF ResizeDown, Change, NoBalance, Steps
  <2>3. CASE AddWorker
    <3>1. /\ balance'.step = "count" /\ balance'.i = 0 /\ balance'.target = size_ + 1
          /\ balance'.reduce_size = 0
      BY <2>3 DEF AddWorker, NoBalance
    <3>2. /\ count' = count + 1 /\ changes' = changes + 1 /\ changes < MaxChanges
          /\ count + ((size_ + 1) - size_) <= MaxWorkers
          /\ UNCHANGED <<size_, index_, status>> /\ Ok /\ Unlocked
      BY <2>3 DEF AddWorker, Change
    <3> QED BY <3>1, <3>2 DEF Steps
  <2>4. CASE \E w \in Workers : Terminate(w)
    BY <2>4, RangedSame DEF Terminate, Statuses
  <2> QED BY <1>5, <2>1, <2>2, <2>3, <2>4 DEF ManagerCall
<1>6. CASE Ended \/ UNCHANGED vars
  BY <1>6, RangedSame DEF Ended, vars, Statuses
<1> QED BY <1>1, <1>2, <1>3, <1>31, <1>4, <1>5, <1>6 DEF Next
-----------------------------------------------------------------------------
(* The places, worker_ and the types, step by step. *)

Placed == Apart /\ Lives /\ Pointed /\ WorkerPointer

LEMMA Disjoint ==
  ASSUME Apart, NEW w \in Workers
  PROVE  /\ GroupList(worker[w].running) /\ GroupList(worker[w].pending) /\ GroupList(Held)
         /\ RunnersOf(worker[w].running) \intersect RunnersOf(worker[w].pending) = {}
         /\ RunnersOf(worker[w].running) \intersect RunnersOf(Held) = {}
         /\ RunnersOf(worker[w].pending) \intersect RunnersOf(Held) = {}
<1>1. /\ HeldSite \in Sites /\ <<"running", w>> \in Sites /\ <<"pending", w>> \in Sites
      /\ <<"running", w>> # <<"pending", w>>
      /\ <<"running", w>> # HeldSite /\ <<"pending", w>> # HeldSite
  BY SiteFacts
<1> QED BY <1>1, PlaceFacts DEF Apart, Parted

\* A runner in a list of a worker, or held by Balance, is somewhere.
LEMMA IsSomewhere ==
  ASSUME NEW r
  PROVE  /\ r \in RunnersOf(Held) => Somewhere(r)
         /\ \A w \in Workers : r \in RunnersOf(worker[w].running)
                                 \/ r \in RunnersOf(worker[w].pending) => Somewhere(r)
  BY SiteFacts, PlaceFacts DEF Somewhere, In

LEMMA Exchanged ==
  ASSUME Apart, NEW x \in Sites, NEW y \in Sites, NEW fresh, NEW gone,
         Exchange(Place, Place', x, y, fresh, gone)
  PROVE  Moves(fresh, gone, {}) /\ Apart'
<1> DEFINE f == Place
           g == Place'
<1>1. Parted(f) /\ Exchange(f, g, x, y, fresh, gone)
  BY DEF Apart
<1> HIDE DEF f, g
<1>2. Parted(g) /\ \A r : In(g, r) <=> (In(f, r) \/ r \in fresh) /\ r \notin gone
  BY <1>1, Transfer
<1>3. Parted(Place)'
  BY <1>2 DEF g
<1>4. \A r : Somewhere(r)' <=> (Somewhere(r) \/ r \in fresh) /\ r \notin gone
  BY <1>2 DEF Somewhere, f, g
<1> QED BY <1>3, <1>4 DEF Moves, Apart

\* A step leaves all lists alone but x and y.
OnlyAt(x, y) ==
  /\ HeldSite \in {x, y} \/ Held' = Held
  /\ \A v \in Workers :
       /\ <<"running", v>> \in {x, y} \/ worker'[v].running = worker[v].running
       /\ <<"pending", v>> \in {x, y} \/ worker'[v].pending = worker[v].pending

LEMMA OtherPlaces ==
  ASSUME NEW x, NEW y, OnlyAt(x, y)
  PROVE  \A a \in Sites : a = x \/ a = y \/ Place'[a] = Place[a]
<1> USE DEF OnlyAt
<1> TAKE a \in Sites
<1>1. CASE a = HeldSite
  BY <1>1, PlaceFacts, NextPlaceFacts
<1>2. CASE \E w \in Workers : a = <<"running", w>>
  BY <1>2, PlaceFacts, NextPlaceFacts
<1>3. CASE \E w \in Workers : a = <<"pending", w>>
  BY <1>3, PlaceFacts, NextPlaceFacts
<1> QED BY <1>1, <1>2, <1>3, SiteFacts

\* Nothing is moved.
Still ==
  /\ \A w \in Workers : /\ worker'[w].running = worker[w].running
                        /\ worker'[w].pending = worker[w].pending
  /\ Held' = Held

LEMMA StillMoves ==
  ASSUME Apart, Still
  PROVE  /\ Moves({}, {}, {}) /\ Apart'
         /\ \A w \in Workers : BoundTo(w)' = BoundTo(w)
<1>1. Place'[HeldSite] = Place[HeldSite]
      /\ \A a \in Sites : a = HeldSite \/ a = HeldSite \/ Place'[a] = Place[a]
  <2>1. OnlyAt(HeldSite, HeldSite)
    BY DEF OnlyAt, Still
  <2> QED BY <2>1, OtherPlaces, PlaceFacts, NextPlaceFacts DEF Still
<1>2. HeldSite \in Sites /\ GroupList(Place[HeldSite])
  BY SiteFacts DEF Apart, Parted
<1>3. Exchange(Place, Place', HeldSite, HeldSite, {}, {})
  BY <1>1, <1>2 DEF Exchange
<1>4. Moves({}, {}, {}) /\ Apart'
  BY <1>2, <1>3, Exchanged
<1> QED BY <1>4 DEF Still, BoundTo

-----------------------------------------------------------------------------
(* The groups, wherever they are. *)

LEMMA RangeJoin ==
  ASSUME NEW S, NEW a \in Seq(S), NEW b \in Seq(S)
  PROVE  Range(a \o b) = Range(a) \union Range(b)
<1>1. /\ Len(a) \in Nat /\ Len(b) \in Nat
      /\ DOMAIN a = 1..Len(a) /\ DOMAIN b = 1..Len(b)
      /\ DOMAIN (a \o b) = 1..(Len(a) + Len(b))
      /\ \A i \in 1..(Len(a) + Len(b)) :
           (a \o b)[i] = IF i <= Len(a) THEN a[i] ELSE b[i - Len(a)]
  OBVIOUS
<1> DEFINE c == a \o b
           m == Len(a)
           n == Len(b)
<1> HIDE DEF c, m, n
<1>2. /\ m \in Nat /\ n \in Nat /\ DOMAIN a = 1..m /\ DOMAIN b = 1..n /\ DOMAIN c = 1..(m + n)
      /\ \A i \in 1..(m + n) : c[i] = IF i <= m THEN a[i] ELSE b[i - m]
  BY <1>1 DEF c, m, n
<1>3. ASSUME NEW i \in 1..(m + n)
      PROVE  (i \in 1..m /\ i <= m) \/ (i - m \in 1..n /\ ~(i <= m))
  <2>1. CASE i <= m
    BY <1>2, <2>1
  <2>2. CASE ~(i <= m)
    BY <1>2, <2>2
  <2> QED BY <2>1, <2>2
<1>4. \A i \in 1..m : i \in 1..(m + n) /\ i <= m
  BY <1>2
<1>5. \A i \in 1..n : i + m \in 1..(m + n) /\ ~(i + m <= m) /\ i + m - m = i
  BY <1>2
<1>6. ASSUME NEW i \in 1..(m + n) PROVE c[i] \in Range(a) \union Range(b)
  BY <1>2, <1>3 DEF Range
<1>7. ASSUME NEW i \in 1..m PROVE a[i] \in Range(c)
  BY <1>2, <1>4 DEF Range
<1>8. ASSUME NEW i \in 1..n PROVE b[i] \in Range(c)
  <2>1. i + m \in DOMAIN c /\ c[i + m] = b[i + m - m] /\ i + m - m = i
    BY <1>2, <1>5
  <2> QED BY <2>1 DEF Range
<1>9. Range(c) \subseteq Range(a) \union Range(b)
  BY <1>2, <1>6 DEF Range
<1>10. Range(a) \subseteq Range(c) /\ Range(b) \subseteq Range(c)
  BY <1>2, <1>7, <1>8 DEF Range
<1> QED BY <1>9, <1>10 DEF c

LEMMA RangeOne ==
  ASSUME NEW S, NEW a \in Seq(S), NEW e \in S
  PROVE  Range(Append(a, e)) = Range(a) \union {e}
<1> DEFINE b == <<e>>
<1>1. Append(a, e) = a \o b /\ b \in Seq(S) /\ Range(b) = {e}
  BY DEF Range
<1> HIDE DEF b
<1>2. Range(a \o b) = Range(a) \union Range(b)
  BY <1>1, RangeJoin
<1> QED BY <1>1, <1>2

LEMMA ListOne ==
  ASSUME NEW gs \in Lists, NEW g \in Seq(Runners)
  PROVE  Range(Append(gs, g)) = Range(gs) \union {g}
<1> DEFINE S == Seq(Runners)
<1>1. gs \in Seq(S) /\ g \in S
  BY DEF Lists
<1> HIDE DEF S
<1> QED BY <1>1, RangeOne

LEMMA RangeHead ==
  ASSUME NEW S, NEW a \in Seq(S), a # <<>>
  PROVE  Range(a) = {Head(a)} \union Range(Tail(a))
<1>1. a = <<Head(a)>> \o Tail(a) /\ <<Head(a)>> \in Seq(S) /\ Tail(a) \in Seq(S)
  OBVIOUS
<1>2. Range(<<Head(a)>>) = {Head(a)}
  BY DEF Range
<1>3. Range(<<Head(a)>> \o Tail(a)) = Range(<<Head(a)>>) \union Range(Tail(a))
  BY <1>1, RangeJoin
<1> QED BY <1>1, <1>2, <1>3

LEMMA RangeCut ==
  ASSUME NEW S, NEW a \in Seq(S), NEW n \in 0..Len(a)
  PROVE  Range(a) = Range(SubSeq(a, 1, n)) \union Range(SubSeq(a, n + 1, Len(a)))
<1> DEFINE b == SubSeq(a, 1, n)
           c == SubSeq(a, n + 1, Len(a))
           m == Len(a)
<1>1. m \in Nat /\ n \in Nat /\ n <= m /\ DOMAIN a = 1..m
  OBVIOUS
<1>2. /\ DOMAIN b = 1..n /\ \A i \in 1..n : b[i] = a[i]
      /\ DOMAIN c = 1..(m - n) /\ \A i \in 1..(m - n) : c[i] = a[n + i]
  OBVIOUS
<1> HIDE DEF b, c, m
<1>3. \A i \in 1..n : i \in 1..m
  BY <1>1
<1>4. \A i \in 1..(m - n) : n + i \in 1..m
  BY <1>1
<1>5. \A i \in 1..m : i \in 1..n \/ (i - n \in 1..(m - n) /\ n + (i - n) = i)
  BY <1>1
<1>6. Range(b) \subseteq Range(a) /\ Range(c) \subseteq Range(a)
  BY <1>1, <1>2, <1>3, <1>4 DEF Range
<1>7. ASSUME NEW i \in 1..m PROVE a[i] \in Range(b) \union Range(c)
  BY <1>2, <1>5 DEF Range
<1>8. Range(a) \subseteq Range(b) \union Range(c)
  BY <1>1, <1>7 DEF Range
<1> QED BY <1>6, <1>8 DEF b, c, m

LEMMA RangeOrder ==
  ASSUME NEW gs \in Lists, NEW hs \in Orders(gs)
  PROVE  Range(hs) = Range(gs)
<1> DEFINE n == Len(gs)
           D == 1..n
<1>1. n \in Nat /\ DOMAIN gs = D
  BY ListTypes
<1>2. PICK p \in [D -> D] : IsInjective(p) /\ hs = [k \in D |-> gs[p[k]]]
  BY <1>1 DEF Orders
<1>3. IsFiniteSet(D)
  BY <1>1, FS_Interval
<1> HIDE DEF D
<1>4. p \in Surjection(D, D)
  <2>1. p \in Injection(D, D)
    BY <1>2 DEF Injection, IsInjective
  <2> QED BY <1>3, <2>1, FS_Injection
<1>5. \A i \in D : \E k \in D : p[k] = i
  BY <1>4 DEF Surjection
<1>6. DOMAIN hs = D /\ \A k \in D : hs[k] = gs[p[k]]
  BY <1>2
<1>7. Range(hs) \subseteq Range(gs)
  BY <1>1, <1>6 DEF Range
<1>8. ASSUME NEW i \in D PROVE gs[i] \in Range(hs)
  <2>1. PICK k \in D : p[k] = i
    BY <1>5
  <2> QED BY <1>6, <2>1 DEF Range
<1>9. Range(gs) \subseteq Range(hs)
  BY <1>1, <1>8 DEF Range
<1> QED BY <1>7, <1>9

LEMMA GroupsAt == \A g : g \in AllGroups <=> \E a \in Sites : g \in Range(Place[a])
<1> TAKE g
<1> DEFINE U == {Range(worker[w].running) \union Range(worker[w].pending) : w \in Workers}
<1>1. g \in AllGroups <=> g \in Range(Held) \/ \E u \in U : g \in u
  <2>1. AllGroups = Range(Held) \union (UNION U)
    BY DEF AllGroups
  <2> HIDE DEF U
  <2> QED BY <2>1
<1>2. (\E u \in U : g \in u)
        <=> \E w \in Workers : g \in Range(worker[w].running) \/ g \in Range(worker[w].pending)
  OBVIOUS
<1> HIDE DEF U
<1>3. ASSUME NEW a \in Sites, g \in Range(Place[a])
      PROVE  \/ g \in Range(Held)
             \/ \E w \in Workers : g \in Range(worker[w].running) \/ g \in Range(worker[w].pending)
  BY <1>3, SiteFacts, PlaceFacts
<1>4. ASSUME \/ g \in Range(Held)
             \/ \E w \in Workers : g \in Range(worker[w].running) \/ g \in Range(worker[w].pending)
      PROVE  \E a \in Sites : g \in Range(Place[a])
  BY <1>4, SiteFacts, PlaceFacts
<1> QED BY <1>1, <1>2, <1>3, <1>4

LEMMA NextGroupsAt == \A g : g \in AllGroups' <=> \E a \in Sites : g \in Range(Place'[a])
<1> TAKE g
<1> DEFINE U == {Range(worker'[w].running) \union Range(worker'[w].pending) : w \in Workers}
<1>1. g \in AllGroups' <=> g \in Range(Held') \/ \E u \in U : g \in u
  <2>1. AllGroups' = Range(Held') \union (UNION U)
    BY DEF AllGroups
  <2> HIDE DEF U
  <2> QED BY <2>1
<1>2. (\E u \in U : g \in u)
        <=> \E w \in Workers : g \in Range(worker'[w].running) \/ g \in Range(worker'[w].pending)
  OBVIOUS
<1> HIDE DEF U
<1>3. ASSUME NEW a \in Sites, g \in Range(Place'[a])
      PROVE  \/ g \in Range(Held')
             \/ \E w \in Workers : g \in Range(worker'[w].running) \/ g \in Range(worker'[w].pending)
  BY <1>3, SiteFacts, NextPlaceFacts
<1>4. ASSUME \/ g \in Range(Held')
             \/ \E w \in Workers : g \in Range(worker'[w].running) \/ g \in Range(worker'[w].pending)
      PROVE  \E a \in Sites : g \in Range(Place'[a])
  BY <1>4, SiteFacts, NextPlaceFacts
<1> QED BY <1>1, <1>2, <1>3, <1>4

\* Between the lists x and y all groups are kept, but new ones come and old ones
\* are given up.
LEMMA GroupsMove ==
  ASSUME NEW x \in Sites, NEW y \in Sites, OnlyAt(x, y), NEW new, NEW old,
         Range(Place'[x]) \union Range(Place'[y])
           \subseteq Range(Place[x]) \union Range(Place[y]) \union new,
         Range(Place[x]) \union Range(Place[y])
           \subseteq Range(Place'[x]) \union Range(Place'[y]) \union old
  PROVE  AllGroups' \subseteq AllGroups \union new /\ AllGroups \subseteq AllGroups' \union old
<1>1. \A a \in Sites : a = x \/ a = y \/ Place'[a] = Place[a]
  BY OtherPlaces
<1>2. ASSUME NEW g \in AllGroups' PROVE g \in AllGroups \union new
  <2>1. PICK a \in Sites : g \in Range(Place'[a])
    BY NextGroupsAt
  <2> QED BY <1>1, <2>1, GroupsAt
<1>3. ASSUME NEW g \in AllGroups PROVE g \in AllGroups' \union old
  <2>1. PICK a \in Sites : g \in Range(Place[a])
    BY GroupsAt
  <2> QED BY <1>1, <2>1, NextGroupsAt
<1> QED BY <1>2, <1>3

LEMMA GroupsStay ==
  ASSUME Still
  PROVE  AllGroups' = AllGroups
<1>1. OnlyAt(HeldSite, HeldSite) /\ HeldSite \in Sites /\ Place'[HeldSite] = Place[HeldSite]
  BY SiteFacts, PlaceFacts, NextPlaceFacts DEF OnlyAt, Still
<1>2. AllGroups' \subseteq AllGroups \union {} /\ AllGroups \subseteq AllGroups' \union {}
  BY <1>1, GroupsMove
<1> QED BY <1>2

-----------------------------------------------------------------------------
(* What the steps do to the places. *)

\* The record of one worker is replaced.
LEMMA Replaced ==
  ASSUME TypeOK, NEW w \in Workers, NEW rec \in WorkerRecords,
         worker' = [worker EXCEPT ![w] = rec]
  PROVE  /\ worker' \in [Workers -> WorkerRecords] /\ worker'[w] = rec
         /\ \A v \in Workers : v # w => worker'[v] = worker[v]
  BY TypeParts

\* What Pointed says of one runner.
Marked(r) ==
  /\ runner[r].life \in {"absent", "new", "loose", "walked"}
       => runner[r].worker_ = NoWorker
  /\ runner[r].life = "picked" => runner[r].worker_ \in Workers

\* The bound runners keep their worker_ and their worker, unless Balance has
\* taken them, and the fresh ones are where their worker_ points.
Aims(fresh) ==
  /\ \A r \in Runners : runner'[r] = runner[r] \/ Marked(r)'
  /\ \A r \in fresh : /\ r \notin RunnersOf(balance.groups)
                      /\ \/ runner'[r].worker_ = NoWorker
                         \/ \E v \in Workers : v = runner'[r].worker_ /\ r \in BoundTo(v)'
  /\ \A r \in Runners \ fresh :
       runner'[r].life = "bound" => /\ runner[r].life = "bound"
                                    /\ runner'[r].worker_ = runner[r].worker_
  /\ \A r \in Runners \ fresh, v \in Workers :
       ( /\ runner'[r].life = "bound" /\ r \in BoundTo(v)
         /\ r \notin RunnersOf(balance.groups)' \/ balance'.step = "repoint" )
         => r \in BoundTo(v)'
  /\ RunnersOf(balance.groups) \subseteq RunnersOf(balance.groups)'
  /\ balance'.step = "repoint"
       => balance.step = "repoint" /\ balance'.groups = balance.groups /\ index_' = index_
  /\ \A c \in {"strayed", "dropped"} : history[c] \subseteq history'[c]

LEMMA PointersStep ==
  ASSUME TypeOK, Sized, Pointed, WorkerPointer,
         NEW fresh \in SUBSET Runners, Aims(fresh)
  PROVE  Pointed' /\ WorkerPointer'
<1> USE DEF Aims
<1>1. \A r \in Runners : runner[r].worker_ \in Workers \union {NoWorker}
  BY DEF TypeOK
<1>2. \A r \in Runners : Marked(r)'
  BY DEF Pointed, Marked
<1>3. ASSUME balance'.step = "repoint", NEW r \in Range(Head(balance'.groups)),
             runner'[r].life = "bound", r \notin history'["dropped"]
      PROVE  r \in BoundTo(index_)'
  <2>0. balance.step = "repoint" /\ balance'.groups = balance.groups /\ index_' = index_
    BY <1>3
  <2>01. balance.groups \in Lists
    BY TypeParts DEF BalanceRecords
  <2>02. index_ < count /\ balance.groups # <<>> /\ index_ \in Nat /\ count \in 1..MaxWorkers
    BY <2>0, TypeParts DEF Sized, Numbers
  <2>1. /\ balance.step = "repoint" /\ balance'.groups = balance.groups /\ index_' = index_
        /\ index_ \in Workers /\ balance.groups # <<>> /\ balance.groups \in Lists
        /\ r \in Range(Head(balance.groups))
    BY <1>3, <2>0, <2>01, <2>02, SizesAssumption DEF Workers
  <2>2. Head(balance.groups) = balance.groups[1] /\ 1 \in DOMAIN balance.groups
    BY <2>1 DEF Lists
  <2>3. r \in RunnersOf(balance.groups) /\ r \in Runners
    BY <2>1, <2>2, InRunnersOf, ListTypes
  <2>4. r \notin fresh /\ runner[r].life = "bound" /\ r \notin history["dropped"]
    BY <1>3, <2>3
  <2>5. r \in BoundTo(index_)
    BY <2>1, <2>4 DEF Pointed
  <2>6. \A v \in Workers : r \in BoundTo(v) => r \in BoundTo(v)'
    BY <1>3, <2>3, <2>4
  <2> QED BY <2>1, <2>5, <2>6 DEF BoundTo
<1>4. ASSUME NEW r \in Runners, runner'[r].life = "bound", runner'[r].worker_ # NoWorker,
             r \notin history'["strayed"] \union history'["dropped"],
             r \notin RunnersOf(balance.groups)'
      PROVE  r \in BoundTo(runner[r].worker_)'
  <2>1. CASE r \in fresh
    <3>1. PICK v \in Workers : v = runner'[r].worker_ /\ r \in BoundTo(v)'
      BY <1>4, <2>1
    <3> QED BY <3>1 DEF BoundTo
  <2>2. CASE r \notin fresh
    <3>1. runner[r].life = "bound" /\ runner'[r].worker_ = runner[r].worker_
      BY <1>4, <2>2
    <3>2. PICK v \in Workers : v = runner[r].worker_
      BY <1>1, <1>4, <3>1
    <3>3. r \in BoundTo(v)
      BY <1>4, <3>1, <3>2 DEF WorkerPointer
    <3>4. r \in BoundTo(v)'
      BY <1>4, <2>2, <3>3
    <3> QED BY <3>1, <3>2, <3>4 DEF BoundTo
  <2> QED BY <2>1, <2>2
<1> HIDE DEF Aims
<1>5. Pointed'
  BY <1>2, <1>3 DEF Pointed, Marked
<1>6. WorkerPointer'
  BY <1>4 DEF WorkerPointer
<1> QED BY <1>5, <1>6

LEMMA ScheduleStep ==
  ASSUME TypeOK, Sized, Placed, NEW w \in Workers,
         NEW gs \in Orders(worker[w].running), worker' = Scheduled(w, gs),
         UNCHANGED <<runner, balance, history, index_>>
  PROVE  Placed' /\ worker' \in [Workers -> WorkerRecords] /\ AllGroups' = AllGroups
<1>0. worker \in [Workers -> WorkerRecords] /\ balance \in BalanceRecords
  BY TypeParts
<1> DEFINE take == Pending(w)
           left == IF need_balance[w] = "set" THEN <<>> ELSE worker[w].pending
           new == take \o gs
<1>01. \/ take = worker[w].pending /\ left = <<>>
       \/ take = <<>> /\ left = worker[w].pending
  BY DEF Pending
<1>2. worker' = [worker EXCEPT ![w].running = new, ![w].pending = left]
  BY DEF Scheduled
<1> HIDE DEF take, left
<1>1. /\ GroupList(new) /\ GroupList(left)
      /\ RunnersOf(new) \intersect RunnersOf(left) = {}
      /\ RunnersOf(new) \union RunnersOf(left)
           = RunnersOf(worker[w].running) \union RunnersOf(worker[w].pending)
  <2>1. /\ GroupList(worker[w].pending) /\ GroupList(<<>>) /\ RunnersOf(<<>>) = {}
        /\ GroupList(gs) /\ RunnersOf(gs) = RunnersOf(worker[w].running)
        /\ RunnersOf(gs) \intersect RunnersOf(worker[w].pending) = {}
    BY Disjoint, Reordered, EmptyList DEF Placed
  <2>2. GroupList(take) /\ RunnersOf(take) \intersect RunnersOf(gs) = {}
    BY <1>01, <2>1
  <2>3. GroupList(new) /\ RunnersOf(new) = RunnersOf(take) \union RunnersOf(gs)
    BY <2>1, <2>2, JoinLists
  <2> HIDE DEF new
  <2>4. GroupList(left)
    BY <1>01, <2>1
  <2>5. CASE take = worker[w].pending /\ left = <<>>
    BY <2>1, <2>3, <2>4, <2>5
  <2>6. CASE take = <<>> /\ left = worker[w].pending
    BY <2>1, <2>3, <2>4, <2>6
  <2> QED BY <1>01, <2>5, <2>6
<1> HIDE DEF new
<1>3. /\ worker' \in [Workers -> WorkerRecords]
      /\ worker'[w].running = new /\ worker'[w].pending = left
      /\ \A v \in Workers : v # w => worker'[v] = worker[v]
  <2>1. new \in Lists /\ left \in Lists
    BY <1>1 DEF GroupList
  <2> DEFINE rec == [worker[w] EXCEPT !.running = new, !.pending = left]
  <2>2. worker' = [worker EXCEPT ![w] = rec]
    BY <1>0, <1>2
  <2>3. rec \in WorkerRecords /\ rec.running = new /\ rec.pending = left
    BY <1>0, <2>1 DEF WorkerRecords
  <2> HIDE DEF rec
  <2> QED BY <2>2, <2>3, Replaced
<1>4. Held' = Held
  BY DEF Held
<1>5. /\ <<"running", w>> \in Sites /\ <<"pending", w>> \in Sites
      /\ <<"running", w>> # <<"pending", w>>
      /\ Place'[<<"running", w>>] = new /\ Place'[<<"pending", w>>] = left
      /\ Place[<<"running", w>>] = worker[w].running
      /\ Place[<<"pending", w>>] = worker[w].pending
  BY <1>3, SiteFacts, PlaceFacts, NextPlaceFacts
<1>6. \A a \in Sites : a = <<"running", w>> \/ a = <<"pending", w>> \/ Place'[a] = Place[a]
  <2>1. OnlyAt(<<"running", w>>, <<"pending", w>>)
    BY <1>3, <1>4 DEF OnlyAt
  <2> QED BY <2>1, OtherPlaces
<1>7. Moves({}, {}, {}) /\ Apart'
  <2>1. Exchange(Place, Place', <<"running", w>>, <<"pending", w>>, {}, {})
    BY <1>1, <1>5, <1>6 DEF Exchange
  <2> QED BY <1>5, <2>1, Exchanged DEF Placed
<1>8. \A v \in Workers : BoundTo(v)' = BoundTo(v)
  <2> TAKE v \in Workers
  <2>1. CASE v = w
    BY <1>1, <1>3, <2>1 DEF BoundTo
  <2>2. CASE v # w
    BY <1>3, <2>2 DEF BoundTo
  <2> QED BY <2>1, <2>2
<1>9. Lives'
  <2>1. Follow({}, {}, {})
    BY <1>0, ListTypes DEF Follow, Early, BalanceRecords
  <2> QED BY <1>7, <2>1, LivesStep DEF Placed
<1>10. Pointed' /\ WorkerPointer'
  <2>1. Aims({})
    BY <1>8 DEF Aims
  <2> QED BY <2>1, PointersStep DEF Placed
<1>11. AllGroups' = AllGroups
  <2>1. Range(new) = Range(take) \union Range(gs)
    <3>1. take \in Seq(Seq(Runners)) /\ gs \in Seq(Seq(Runners))
      <4>1. /\ GroupList(worker[w].pending) /\ GroupList(gs) /\ GroupList(<<>>)
        BY Disjoint, Reordered, EmptyList DEF Placed
      <4> QED BY <1>01, <4>1 DEF GroupList, Lists
    <3> QED BY <3>1, RangeJoin DEF new
  <2>2. Range(gs) = Range(worker[w].running)
    BY <1>0, RangeOrder DEF WorkerRecords
  <2>3. Range(<<>>) = {}
    BY DEF Range
  <2>4. Range(new) \union Range(left)
          = Range(worker[w].running) \union Range(worker[w].pending)
    BY <1>01, <2>1, <2>2, <2>3
  <2>5. OnlyAt(<<"running", w>>, <<"pending", w>>)
    BY <1>3, <1>4 DEF OnlyAt
  <2>6. AllGroups' \subseteq AllGroups \union {} /\ AllGroups \subseteq AllGroups' \union {}
    BY <1>5, <2>4, <2>5, GroupsMove
  <2> QED BY <2>6
<1> QED BY <1>3, <1>7, <1>9, <1>10, <1>11 DEF Placed

\* Steps that move nothing.
Quiet ==
  /\ Still /\ balance'.groups = balance.groups
  /\ balance'.step = "repoint" => balance.step = "repoint" /\ index_' = index_
  /\ \A r \in Runners : \/ runner'[r] = runner[r]
                        \/ /\ Marked(r)' /\ runner'[r].life # "bound"
                           /\ Early(r)' => Early(r)
  /\ history'["dropped"] = history["dropped"]
  /\ history["strayed"] \subseteq history'["strayed"]

LEMMA QuietStep ==
  ASSUME TypeOK, Sized, Placed, Quiet
  PROVE  Placed'
<1>1. Moves({}, {}, {}) /\ Apart' /\ \A w \in Workers : BoundTo(w)' = BoundTo(w)
  BY StillMoves DEF Placed, Quiet
<1>2. balance.groups \in Lists
  BY TypeParts DEF BalanceRecords
<1>3. Follow({}, {}, {})
  BY <1>2, ListTypes DEF Follow, Quiet, Early
<1>4. Lives'
  BY <1>1, <1>3, LivesStep DEF Placed
<1>5. Aims({})
  BY <1>1 DEF Aims, Quiet
<1>6. Pointed' /\ WorkerPointer'
  BY <1>5, PointersStep DEF Placed
<1> QED BY <1>1, <1>4, <1>6 DEF Placed

\* Both searches of UnBind: r leaves the lists of the workers ws.
UnBindIn(ws, r) ==
  worker' = [w \in Workers |->
    IF w \in ws
      THEN [worker[w] EXCEPT !.running = Without(@, r), !.pending = Without(@, r)]
      ELSE worker[w]]

LEMMA WithoutNothing ==
  ASSUME NEW gs \in Lists, NEW r, r \notin RunnersOf(gs)
  PROVE  Without(gs, r) = gs
<1>1. /\ Len(gs) \in Nat /\ DOMAIN gs = 1..Len(gs)
      /\ \A k \in DOMAIN gs : gs[k] \in Seq(Runners)
  BY ListTypes
<1>2. ASSUME NEW k \in DOMAIN gs PROVE RemoveFirst(gs[k], r) = gs[k]
  <2>1. r \notin Range(gs[k])
    BY <1>2, InRunnersOf
  <2>2. DOMAIN gs[k] = 1..Len(gs[k])
    BY <1>1, <1>2
  <2> QED BY <2>1, <2>2 DEF RemoveFirst, Range
<1>3. gs = [k \in DOMAIN gs |-> gs[k]]
  BY DEF Lists
<1> QED BY <1>2, <1>3 DEF Without

\* A runner is in the list of one worker only, so the search that finds it is
\* as good as both, and one that does not find it changes nothing.
LEMMA Searches ==
  ASSUME TypeOK, Placed, NEW r, NEW ws \in SUBSET Workers
  PROVE  /\ UnBindRunning(ws, r) /\ InRunning(ws, r) => UnBindIn(ws, r)
         /\ UnBindPending(ws, r) /\ InPending(ws, r) => UnBindIn(ws, r)
         /\ UnBindRunning(ws, r) /\ ~InRunning(ws, r) => worker' = worker
         /\ UnBindPending(ws, r) /\ ~InPending(ws, r) => worker' = worker
<1>0. worker \in [Workers -> WorkerRecords]
  BY TypeParts
<1>1. ASSUME NEW w \in Workers
      PROVE  /\ worker[w].running \in Lists /\ worker[w].pending \in Lists
             /\ worker[w] = [worker[w] EXCEPT !.running = worker[w].running]
             /\ worker[w] = [worker[w] EXCEPT !.pending = worker[w].pending]
  BY <1>0 DEF WorkerRecords
<1>2. ASSUME NEW w \in Workers, r \notin RunnersOf(worker[w].running)
      PROVE  Without(worker[w].running, r) = worker[w].running
  BY <1>1, <1>2, WithoutNothing
<1>3. ASSUME NEW w \in Workers, r \notin RunnersOf(worker[w].pending)
      PROVE  Without(worker[w].pending, r) = worker[w].pending
  BY <1>1, <1>3, WithoutNothing
<1>4. ASSUME NEW v \in Workers, NEW w \in Workers, r \in RunnersOf(worker[v].running)
      PROVE  r \notin RunnersOf(worker[w].pending)
  <2>1. /\ <<"running", v>> \in Sites /\ <<"pending", w>> \in Sites
        /\ <<"running", v>> # <<"pending", w>>
    BY SiteFacts
  <2> QED BY <1>4, <2>1, PlaceFacts DEF Placed, Apart, Parted
<1>5. ASSUME UnBindRunning(ws, r), InRunning(ws, r) PROVE UnBindIn(ws, r)
  <2>1. PICK v \in ws : r \in RunnersOf(worker[v].running)
    BY <1>5 DEF InRunning
  <2>2. ASSUME NEW w \in Workers
        PROVE  [worker[w] EXCEPT !.running = Without(@, r)]
                 = [worker[w] EXCEPT !.running = Without(@, r), !.pending = Without(@, r)]
    <3>1. Without(worker[w].pending, r) = worker[w].pending
      BY <1>3, <1>4, <2>1
    <3> QED BY <1>0, <3>1 DEF WorkerRecords
  <2> QED BY <1>5, <2>2 DEF UnBindRunning, UnBindIn
<1>6. ASSUME UnBindPending(ws, r), InPending(ws, r) PROVE UnBindIn(ws, r)
  <2>1. PICK v \in ws : r \in RunnersOf(worker[v].pending)
    BY <1>6 DEF InPending
  <2>2. ASSUME NEW w \in Workers
        PROVE  [worker[w] EXCEPT !.pending = Without(@, r)]
                 = [worker[w] EXCEPT !.running = Without(@, r), !.pending = Without(@, r)]
    <3>1. Without(worker[w].running, r) = worker[w].running
      BY <1>2, <1>4, <2>1
    <3> QED BY <1>0, <3>1 DEF WorkerRecords
  <2> QED BY <1>6, <2>2 DEF UnBindPending, UnBindIn
<1>7. ASSUME UnBindRunning(ws, r), ~InRunning(ws, r) PROVE worker' = worker
  <2>1. \A w \in ws : Without(worker[w].running, r) = worker[w].running
    BY <1>2, <1>7 DEF InRunning
  <2>2. \A w \in ws : [worker[w] EXCEPT !.running = Without(@, r)] = worker[w]
    BY <1>1, <2>1
  <2> QED BY <1>0, <1>7, <2>2 DEF UnBindRunning
<1>8. ASSUME UnBindPending(ws, r), ~InPending(ws, r) PROVE worker' = worker
  <2>1. \A w \in ws : Without(worker[w].pending, r) = worker[w].pending
    BY <1>3, <1>8 DEF InPending
  <2>2. \A w \in ws : [worker[w] EXCEPT !.pending = Without(@, r)] = worker[w]
    BY <1>1, <2>1
  <2> QED BY <1>0, <1>8, <2>2 DEF UnBindPending
<1> QED BY <1>5, <1>6, <1>7, <1>8

\* Runner r leaves the lists of the workers ws.
LEMMA RemoveStep ==
  ASSUME TypeOK, Sized, Placed, NEW r \in Runners, NEW ws, UnBindIn(ws, r),
         runner'[r].life = "removed",
         \A q \in Runners : /\ runner'[q].worker_ = runner[q].worker_
                            /\ q = r \/ runner'[q].life = runner[q].life,
         UNCHANGED <<balance, index_>>,
         history'["dropped"] = history["dropped"],
         history'["strayed"] = history["strayed"]
  PROVE  Placed' /\ worker' \in [Workers -> WorkerRecords]
<1>1. worker \in [Workers -> WorkerRecords] /\ balance.groups \in Lists
  BY TypeParts DEF BalanceRecords
<1> DEFINE Rec(w) == [worker[w] EXCEPT !.running = Without(@, r), !.pending = Without(@, r)]
<1>2. \A w \in Workers : /\ GroupList(Without(worker[w].running, r))
                         /\ GroupList(Without(worker[w].pending, r))
  BY Disjoint, WithoutRunner DEF Placed
<1>3. ASSUME NEW w \in Workers
      PROVE  /\ Rec(w) \in WorkerRecords
             /\ Rec(w).running = Without(worker[w].running, r)
             /\ Rec(w).pending = Without(worker[w].pending, r)
  <2>1. Without(worker[w].running, r) \in Lists /\ Without(worker[w].pending, r) \in Lists
    BY <1>2 DEF GroupList
  <2> QED BY <1>1, <2>1 DEF WorkerRecords
<1>4. worker' = [w \in Workers |-> IF w \in ws THEN Rec(w) ELSE worker[w]]
  BY DEF UnBindIn
<1> HIDE DEF Rec
<1>5. worker' \in [Workers -> WorkerRecords]
  BY <1>1, <1>3, <1>4
<1>6. ASSUME NEW w \in Workers
      PROVE  /\ Fewer(worker[w].running, worker'[w].running, r)
             /\ Fewer(worker[w].pending, worker'[w].pending, r)
  <2>1. CASE w \in ws
    <3>1. /\ worker'[w].running = Without(worker[w].running, r)
          /\ worker'[w].pending = Without(worker[w].pending, r)
      BY <1>3, <1>4, <2>1
    <3> QED BY <3>1, Disjoint, WithoutRunner DEF Placed, Fewer
  <2>2. CASE w \notin ws
    <3>1. worker'[w] = worker[w]
      BY <1>4, <2>2
    <3> QED BY <3>1, Disjoint DEF Placed, Fewer
  <2> QED BY <2>1, <2>2
<1>7. Fewer(Held, Held', r)
  <2>1. Held' = Held
    BY DEF Held
  <2>2. GroupList(Held)
    BY SiteFacts, PlaceFacts DEF Placed, Apart, Parted
  <2> QED BY <2>1, <2>2 DEF Fewer
<1>8. \A a \in Sites : Fewer(Place[a], Place'[a], r)
  <2> TAKE a \in Sites
  <2>1. CASE a = HeldSite
    BY <1>7, <2>1, PlaceFacts, NextPlaceFacts
  <2>2. CASE \E w \in Workers : a = <<"running", w>>
    BY <1>6, <2>2, PlaceFacts, NextPlaceFacts
  <2>3. CASE \E w \in Workers : a = <<"pending", w>>
    BY <1>6, <2>3, PlaceFacts, NextPlaceFacts
  <2> QED BY <2>1, <2>2, <2>3, SiteFacts
<1>9. Moves({}, {}, {r}) /\ Apart'
  <2> DEFINE f == Place
             g == Place'
  <2>1. Parted(f) /\ \A a \in Sites : Fewer(f[a], g[a], r)
    BY <1>8 DEF Placed, Apart
  <2> HIDE DEF f, g
  <2>2. /\ Parted(g)
        /\ \A q : In(g, q) => In(f, q)
        /\ \A q : In(f, q) /\ q # r => In(g, q)
    BY <2>1, Shrunk
  <2>3. Parted(Place)' /\ (\A q : Somewhere(q)' => Somewhere(q))
        /\ (\A q : Somewhere(q) /\ q # r => Somewhere(q)')
    BY <2>2 DEF f, g, Somewhere
  <2> QED BY <2>3 DEF Moves, Apart
<1>10. Lives'
  <2>1. Follow({}, {}, {r})
    BY <1>1, ListTypes DEF Follow, Early
  <2> QED BY <1>9, <2>1, LivesStep DEF Placed
<1>11. Pointed' /\ WorkerPointer'
  <2>1. \A q \in Runners, v \in Workers : q # r /\ q \in BoundTo(v) => q \in BoundTo(v)'
    BY <1>6 DEF BoundTo, Fewer
  <2>2. \A q \in Runners : q = r \/ (Marked(q) => Marked(q)')
    BY DEF Marked
  <2>3. Marked(r)' /\ \A q \in Runners : Marked(q)
    BY DEF Marked, Placed, Pointed
  <2>4. Aims({})
    BY <2>1, <2>2, <2>3 DEF Aims
  <2> QED BY <2>4, PointersStep DEF Placed
<1> QED BY <1>5, <1>9, <1>10, <1>11 DEF Placed

\* A runner that was bound to nothing comes to list x of worker w, its worker_
\* being w or nothing.
LEMMA ArriveStep ==
  ASSUME TypeOK, Sized, Placed, NEW r \in Runners, NEW w \in Workers,
         NEW x \in {<<"running", w>>, <<"pending", w>>},
         OnlyAt(x, x), GroupList(Place'[x]),
         RunnersOf(Place'[x]) = RunnersOf(Place[x]) \union {r},
         Early(r), runner'[r].life = "bound", runner'[r].worker_ \in {w, NoWorker},
         \A q \in Runners : q = r \/ /\ runner'[q].worker_ = runner[q].worker_
                                     /\ runner'[q].life = runner[q].life,
         UNCHANGED <<balance, history>>,
         balance.step = "repoint" => index_' = index_
  PROVE  Placed'
<1>1. balance.groups \in Lists /\ history \in [Causes -> SUBSET Runners]
  BY TypeParts DEF BalanceRecords
<1>2. x \in Sites
  BY SiteFacts
<1>3. ~Somewhere(r) /\ r \notin RunnersOf(balance.groups)
  BY DEF Placed, Lives
<1>4. Moves({r}, {}, {}) /\ Apart'
  <2>1. \A a \in Sites : a = x \/ a = x \/ Place'[a] = Place[a]
    BY OtherPlaces
  <2>2. Exchange(Place, Place', x, x, {r}, {})
    BY <1>3, <2>1 DEF Exchange, Somewhere
  <2> QED BY <1>2, <2>2, Exchanged DEF Placed
<1>5. Lives'
  <2>1. Follow({r}, {}, {})
    BY <1>1, ListTypes DEF Follow, Early
  <2> QED BY <1>4, <2>1, LivesStep DEF Placed
<1>6. \A v \in Workers : /\ BoundTo(v) \subseteq BoundTo(v)'
                         /\ v = w => r \in BoundTo(v)'
  <2> TAKE v \in Workers
  <2>1. /\ RunnersOf(worker[v].running) \subseteq RunnersOf(worker'[v].running)
        /\ RunnersOf(worker[v].pending) \subseteq RunnersOf(worker'[v].pending)
    <3>1. CASE <<"running", v>> = x
      BY <3>1, PlaceFacts, NextPlaceFacts, SiteFacts DEF OnlyAt
    <3>2. CASE <<"pending", v>> = x
      BY <3>2, PlaceFacts, NextPlaceFacts, SiteFacts DEF OnlyAt
    <3>3. CASE <<"running", v>> # x /\ <<"pending", v>> # x
      BY <3>3 DEF OnlyAt
    <3> QED BY <3>1, <3>2, <3>3
  <2>2. v = w => r \in RunnersOf(worker'[v].running) \union RunnersOf(worker'[v].pending)
    BY PlaceFacts, NextPlaceFacts
  <2> QED BY <2>1, <2>2 DEF BoundTo
<1>7. Pointed' /\ WorkerPointer'
  <2>1. Marked(r)' /\ \A q \in Runners : q # r => Marked(q)'
    BY DEF Marked, Placed, Pointed
  <2>2. runner'[r].worker_ = NoWorker
          \/ \E v \in Workers : v = runner'[r].worker_ /\ r \in BoundTo(v)'
    BY <1>6
  <2>3. Aims({r})
    BY <1>3, <1>6, <2>1, <2>2 DEF Aims
  <2> QED BY <2>3, PointersStep DEF Placed
<1> QED BY <1>4, <1>5, <1>7 DEF Placed

\* Balance takes the list x of worker w.
LEMMA TakeStep ==
  ASSUME TypeOK, Sized, Placed, NEW w \in Workers,
         NEW x \in {<<"running", w>>, <<"pending", w>>},
         OnlyAt(x, HeldSite), Place'[x] = <<>>,
         balance'.groups = balance.groups \o Place[x],
         balance.step # "repoint", balance'.step # "repoint",
         UNCHANGED <<runner, history>>
  PROVE  Placed' /\ balance'.groups \in Lists /\ AllGroups' = AllGroups
<1>1. x \in Sites /\ HeldSite \in Sites /\ x # HeldSite
  BY SiteFacts
<1>2. Held = balance.groups /\ Held' = balance'.groups
  BY DEF Held
<1>3. /\ GroupList(Held) /\ GroupList(Place[x])
      /\ RunnersOf(Held) \intersect RunnersOf(Place[x]) = {}
  BY Disjoint, PlaceFacts DEF Placed
<1>4. /\ GroupList(Held') /\ RunnersOf(Held') = RunnersOf(Held) \union RunnersOf(Place[x])
  BY <1>2, <1>3, JoinLists
<1>5. Moves({}, {}, {}) /\ Apart'
  <2>1. \A a \in Sites : a = x \/ a = HeldSite \/ Place'[a] = Place[a]
    BY OtherPlaces
  <2>2. Exchange(Place, Place', x, HeldSite, {}, {})
    BY <1>4, <2>1, EmptyList, PlaceFacts, NextPlaceFacts DEF Exchange
  <2> QED BY <1>1, <2>2, Exchanged DEF Placed
<1>6. balance'.groups \in Lists
  BY <1>2, <1>4 DEF GroupList
<1>7. Lives'
  <2>1. \A r \in RunnersOf(Place[x]) : Somewhere(r)
    BY <1>1 DEF Somewhere, In
  <2>2. Follow({}, {}, {})
    BY <1>2, <1>4, <1>6, <2>1, ListTypes DEF Follow, Early
  <2> QED BY <1>5, <2>2, LivesStep DEF Placed
<1>8. Pointed' /\ WorkerPointer'
  <2>1. ASSUME NEW r, NEW v \in Workers, r \in BoundTo(v), r \notin RunnersOf(balance'.groups)
        PROVE  r \in BoundTo(v)'
    <3>1. r \notin RunnersOf(Place[x])
      BY <1>2, <1>4, <2>1
    <3>2. /\ <<"running", v>> = x \/ worker'[v].running = worker[v].running
          /\ <<"pending", v>> = x \/ worker'[v].pending = worker[v].pending
      BY SiteFacts DEF OnlyAt
    <3> QED BY <2>1, <3>1, <3>2, PlaceFacts DEF BoundTo
  <2>2. Aims({})
    BY <1>2, <1>4, <2>1 DEF Aims
  <2> QED BY <2>2, PointersStep DEF Placed
<1>9. AllGroups' = AllGroups
  <2>1. Range(balance.groups \o Place[x]) = Range(balance.groups) \union Range(Place[x])
    BY <1>2, <1>3, RangeJoin DEF GroupList, Lists
  <2>2. Range(<<>>) = {}
    BY DEF Range
  <2>3. /\ Range(Place'[HeldSite]) = Range(Place[HeldSite]) \union Range(Place[x])
        /\ Range(Place'[x]) = {}
    BY <1>2, <2>1, <2>2, PlaceFacts, NextPlaceFacts
  <2>4. AllGroups' \subseteq AllGroups \union {} /\ AllGroups \subseteq AllGroups' \union {}
    BY <1>1, <2>3, GroupsMove
  <2> QED BY <2>4
<1> QED BY <1>5, <1>6, <1>7, <1>8, <1>9 DEF Placed

\* Every worker of the manager has a record.
LEMMA InWorkers ==
  ASSUME TypeOK, Sized
  PROVE  /\ \A i \in Nat : i < count \/ i < size_ => i \in Workers
         /\ balance.step \in {"retain", "recount", "count", "keep", "unbind_pending"}
              => balance.i \in Workers
         /\ balance.step = "unbind" /\ balance.i >= 0 => balance.i \in Workers
         /\ balance.step = "repoint" => index_ \in Workers
<1> USE SizesAssumption, TypeParts DEF Numbers, Workers
<1>1. /\ count \in 1..MaxWorkers /\ size_ \in 1..MaxWorkers /\ index_ \in Nat
      /\ balance.i \in (-1)..MaxWorkers /\ balance.target \in 0..MaxWorkers
      /\ size_ <= count
  BY DEF Sized
<1>2. \A i \in Nat : i < count \/ i < size_ => i \in Workers
  BY <1>1
<1>3. balance.step \in {"retain", "recount", "count"} => 0 <= balance.i /\ balance.i < size_
  BY DEF Sized
<1>4. balance.step = "keep" => 0 <= balance.i /\ balance.i < size_
  BY <1>1 DEF Sized, Shrinking
<1>5. balance.step \in {"unbind", "unbind_pending"} => balance.i < size_
  BY DEF Sized
<1>6. balance.step = "unbind_pending" => 0 <= balance.i
  BY DEF Sized
<1>7. balance.step = "repoint" => index_ < count
  BY DEF Sized
<1>8. 0 <= balance.i => balance.i \in Nat
  BY <1>1
<1> QED BY <1>1, <1>2, <1>3, <1>4, <1>5, <1>6, <1>7, <1>8

\* The worker that turn i of the dealing is about, and its share.
LEMMA Turn ==
  ASSUME TypeOK, Sized, balance.step = "deal"
  PROVE  LET w == (size_ + balance.i) % balance.target IN
         w \in Workers /\ w < count /\ Share(w) \in 0..Len(balance.groups)
<1> DEFINE w == (size_ + balance.i) % balance.target
<1> USE SizesAssumption
<1>1. /\ balance \in BalanceRecords /\ count \in 1..MaxWorkers /\ size_ \in 1..MaxWorkers
      /\ balance.i \in (-1)..MaxWorkers /\ balance.target \in 0..MaxWorkers
  BY TypeParts DEF Numbers
<1>2. /\ size_ < balance.target /\ balance.target <= count
      /\ 0 <= balance.i /\ balance.i < balance.target
  BY DEF Sized, Growing
<1>3. balance.target \in Nat \ {0} /\ size_ + balance.i \in Nat
  BY <1>1, <1>2
<1>4. w \in 0..(balance.target - 1)
  BY <1>3
<1>5. w \in Workers /\ w < count
  <2> HIDE DEF w
  <2> QED BY <1>1, <1>2, <1>4 DEF Workers
<1> HIDE DEF w
<1>6. balance.groups_size \in Nat /\ balance.cur_worker_group[w] \in Nat
      /\ Len(balance.groups) \in Nat
  BY <1>1, <1>5, ListTypes DEF BalanceRecords
<1>7. balance.groups_size \div balance.target \in Int
  BY <1>3, <1>6
<1>8. \A c \in Int : \A n \in Nat : (IF c >= 0 /\ c < n THEN c ELSE n) \in 0..n
  OBVIOUS
<1>9. (balance.groups_size \div balance.target) - balance.cur_worker_group[w] \in Int
  BY <1>6, <1>7
<1>10. Share(w) \in 0..Len(balance.groups)
  BY <1>6, <1>8, <1>9 DEF Share
<1> QED BY <1>5, <1>10 DEF w

\* MoveTo: the list comes to the pending ones of w, and messages go out.
LEMMA Dealt ==
  ASSUME TypeOK, NEW w \in Workers, NEW list \in Lists, worker' = MoveTo(w, list)
  PROVE  /\ worker' \in [Workers -> WorkerRecords]
         /\ \A v \in Workers : /\ worker'[v].running = worker[v].running
                               /\ v # w => worker'[v].pending = worker[v].pending
         /\ worker'[w].pending = worker[w].pending \o list
<1> DEFINE rs == FlattenSeq(list)
           ts(v) == [k \in DOMAIN rs |->
                       IF runner[rs[k]].worker_ = v THEN <<Take(rs[k], w)>> ELSE <<>>]
           takes(v) == FlattenSeq(ts(v))
<1>1. worker \in [Workers -> WorkerRecords]
  BY TypeParts
<1>2. rs \in Seq(Runners)
  BY Flattened DEF Lists
<1>3. ASSUME NEW v PROVE takes(v) \in Seq(Mail)
  <2> HIDE DEF rs
  <2>1. DOMAIN rs = 1..Len(rs) /\ Len(rs) \in Nat /\ \A k \in DOMAIN rs : rs[k] \in Runners
    BY <1>2
  <2>2. \A r \in Runners : <<Take(r, w)>> \in Seq(Mail)
    <3> TAKE r \in Runners
    <3>1. Take(r, w) \in Mail
      BY DEF Take, Mail
    <3> HIDE DEF Take, Mail
    <3> QED BY <3>1
  <2>3. ts(v) \in [1..Len(rs) -> Seq(Mail)]
    BY <2>1, <2>2
  <2>4. ts(v) \in Seq(Seq(Mail))
    <3> HIDE DEF ts
    <3> QED BY <2>1, <2>3
  <2> HIDE DEF ts
  <2> QED BY <2>4, Flattened
<1> DEFINE old(v) == BindList(w, list)[v]
<1>4. ASSUME NEW v \in Workers
      PROVE  /\ old(v) \in WorkerRecords /\ old(v).running = worker[v].running
             /\ v # w => old(v).pending = worker[v].pending
             /\ v = w => old(v).pending = worker[v].pending \o list
  <2>1. CASE v = w
    <3>1. worker[w].pending \o list \in Lists
      BY <1>1 DEF WorkerRecords, Lists
    <3>2. old(v) = [worker[w] EXCEPT !.pending = @ \o list]
      BY <1>1, <2>1 DEF BindList
    <3> HIDE DEF old
    <3> QED BY <1>1, <2>1, <3>1, <3>2 DEF WorkerRecords
  <2>2. CASE v # w
    <3>1. old(v) = worker[v]
      BY <1>1, <2>2 DEF BindList
    <3> QED BY <1>1, <2>2, <3>1
  <2> QED BY <2>1, <2>2
<1>5. worker' = [v \in Workers |-> [old(v) EXCEPT !.immediate = @ \o takes(v)]]
  BY DEF MoveTo
<1> HIDE DEF old, takes
<1>6. ASSUME NEW v \in Workers
      PROVE  LET new == [old(v) EXCEPT !.immediate = @ \o takes(v)] IN
             /\ new \in WorkerRecords
             /\ new.running = old(v).running /\ new.pending = old(v).pending
  <2>1. old(v).immediate \o takes(v) \in Seq(Mail)
    <3>1. old(v).immediate \in Seq(Mail) /\ takes(v) \in Seq(Mail)
      BY <1>3, <1>4 DEF WorkerRecords
    <3> QED BY <3>1
  <2> QED BY <1>4, <2>1 DEF WorkerRecords
<1>7. worker' \in [Workers -> WorkerRecords]
  BY <1>5, <1>6
<1>8. \A v \in Workers : /\ worker'[v].running = old(v).running
                         /\ worker'[v].pending = old(v).pending
  BY <1>5, <1>6
<1> QED BY <1>4, <1>7, <1>8

LEMMA DealStep ==
  ASSUME TypeOK, Sized, Placed, Deal, ~Fail("no_worker")
  PROVE  /\ Placed' /\ worker' \in [Workers -> WorkerRecords]
         /\ balance' \in BalanceRecords /\ runner' = runner
         /\ history' \in [Causes -> SUBSET Runners]
         /\ AllGroups' \subseteq AllGroups
         /\ \A g \in AllGroups : g \in AllGroups' \/ Range(g) \subseteq history'["dropped"]
<1> DEFINE w == (size_ + balance.i) % balance.target
           list == SubSeq(balance.groups, 1, Share(w))
           rest == SubSeq(balance.groups, Share(w) + 1, Len(balance.groups))
           moved == RunnersOf(list)
           last == balance.i + 1 = balance.target
           gone == IF last THEN RunnersOf(rest) ELSE {}
<1>1. /\ balance.step = "deal" /\ worker' = MoveTo(w, list)
      /\ history' = [history EXCEPT
             !["again"] = @ \union (moved \intersect Adrift),
             !["strayed"] = (@ \ moved) \union {r \in moved : runner[r].worker_ # w},
             !["dropped"] = IF last THEN @ \union RunnersOf(rest) ELSE @]
      /\ balance' = IF last THEN NoBalance
                    ELSE [balance EXCEPT !.groups = rest, !.i = @ + 1]
      /\ runner' = runner
  BY DEF Deal
<1>2. w \in Workers /\ Share(w) \in 0..Len(balance.groups)
  BY <1>1, Turn
<1>3. Held = balance.groups /\ GroupList(balance.groups)
      /\ GroupList(worker[w].pending)
      /\ RunnersOf(worker[w].pending) \intersect RunnersOf(balance.groups) = {}
  BY <1>1, <1>2, Disjoint DEF Placed, Held
<1>4. /\ GroupList(list) /\ GroupList(rest)
      /\ moved \intersect RunnersOf(rest) = {}
      /\ RunnersOf(balance.groups) = moved \union RunnersOf(rest)
  BY <1>2, <1>3, Cut
<1> HIDE DEF w, list, rest
<1>5. list \in Lists /\ rest \in Lists /\ moved \subseteq Runners /\ gone \subseteq Runners
  BY <1>4, ListTypes DEF GroupList
<1>6. /\ worker' \in [Workers -> WorkerRecords]
      /\ \A v \in Workers : /\ worker'[v].running = worker[v].running
                            /\ v # w => worker'[v].pending = worker[v].pending
      /\ worker'[w].pending = worker[w].pending \o list
  BY <1>1, <1>2, <1>5, Dealt
<1>7. /\ balance' \in BalanceRecords
      /\ balance'.groups = IF last THEN <<>> ELSE rest
      /\ balance'.step # "repoint"
  <2>1. balance \in BalanceRecords /\ NoBalance \in BalanceRecords
    BY TypeParts, NoBalanceType
  <2>2. CASE last
    BY <1>1, <2>1, <2>2 DEF NoBalance
  <2>3. CASE ~last
    <3>1. balance.i + 1 \in (-1)..MaxWorkers
      <4>1. /\ balance.i \in (-1)..MaxWorkers /\ balance.target \in 0..MaxWorkers
            /\ balance.i < balance.target
        BY <1>1, TypeParts DEF Numbers, Sized
      <4> QED BY <2>3, <4>1, SizesAssumption
    <3> QED BY <1>1, <1>5, <2>1, <2>3, <3>1 DEF BalanceRecords
  <2> QED BY <2>2, <2>3
<1>8. /\ history' \in [Causes -> SUBSET Runners]
      /\ history'["strayed"] = (history["strayed"] \ moved)
                                 \union {r \in moved : runner[r].worker_ # w}
      /\ history'["dropped"] = history["dropped"] \union gone
  <2>1. history \in [Causes -> SUBSET Runners]
    BY TypeParts
  <2>2. moved \intersect Adrift \subseteq Runners
        /\ {r \in moved : runner[r].worker_ # w} \subseteq Runners
    BY <1>5
  <2> HIDE DEF moved
  <2> QED BY <1>1, <1>5, <2>1, <2>2 DEF Causes
<1>9. /\ GroupList(worker'[w].pending)
      /\ RunnersOf(worker'[w].pending) = RunnersOf(worker[w].pending) \union moved
  BY <1>3, <1>4, <1>6, JoinLists
<1>10. /\ GroupList(Held')
       /\ RunnersOf(Held') = RunnersOf(rest) \ gone
       /\ Held' = balance'.groups
  BY <1>4, <1>7, EmptyList DEF Held
<1>11. Moves({}, gone, {}) /\ Apart'
  <2> DEFINE y == <<"pending", w>>
  <2>1. y \in Sites /\ HeldSite \in Sites /\ HeldSite # y
    BY <1>2, SiteFacts
  <2>2. OnlyAt(HeldSite, y)
    BY <1>6 DEF OnlyAt
  <2>3. /\ Place[y] = worker[w].pending /\ Place'[y] = worker'[w].pending
        /\ Place[HeldSite] = balance.groups /\ Place'[HeldSite] = Held'
    BY <1>2, <1>3, PlaceFacts, NextPlaceFacts
  <2> HIDE DEF y, moved
  <2>4. RunnersOf(rest) \intersect RunnersOf(worker[w].pending) = {}
        /\ gone \subseteq RunnersOf(rest)
    BY <1>3, <1>4
  <2>5. \A a \in Sites : a = HeldSite \/ a = y \/ Place'[a] = Place[a]
    BY <2>2, OtherPlaces
  <2> HIDE DEF gone
  <2>6. Exchange(Place, Place', HeldSite, y, {}, gone)
    BY <1>3, <1>4, <1>9, <1>10, <2>1, <2>3, <2>4, <2>5 DEF Exchange
  <2> QED BY <2>1, <2>6, Exchanged DEF Placed
<1>12. Lives'
  <2>1. \A r \in gone : Somewhere(r)
    BY <1>3, <1>4, IsSomewhere
  <2>2. \A r \in RunnersOf(balance.groups)' : r \in Runners /\ r \in RunnersOf(balance.groups)
    BY <1>4, <1>5, <1>10, ListTypes
  <2>3. Follow({}, gone, {})
    <3> HIDE DEF gone
    <3> QED BY <1>1, <1>8, <2>1, <2>2 DEF Follow, Early
  <2> HIDE DEF gone
  <2> QED BY <1>5, <1>11, <2>3, LivesStep DEF Placed
<1>13. Pointed'
  <2>1. Pointed
    BY DEF Placed
  <2> QED BY <1>1, <1>7, <2>1 DEF Pointed
<1>14. WorkerPointer'
  <2>1. SUFFICES ASSUME NEW r \in Runners, runner[r].life = "bound",
                        runner[r].worker_ # NoWorker, r \notin history'["strayed"],
                        r \notin history'["dropped"], r \notin RunnersOf(balance'.groups)
                 PROVE  r \in BoundTo(runner[r].worker_)'
    BY <1>1 DEF WorkerPointer
  <2>2. PICK v \in Workers : v = runner[r].worker_
    BY <2>1, TypeParts DEF RunnerRecords
  <2>3. CASE r \in moved
    <3>1. v = w
      BY <1>8, <2>1, <2>2, <2>3
    <3>2. r \in RunnersOf(worker'[v].pending)
      BY <1>9, <2>3, <3>1
    <3> QED BY <1>1, <2>2, <3>2 DEF BoundTo
  <2>4. CASE r \notin moved
    <3>1. r \notin RunnersOf(rest)
      BY <1>7, <1>8, <2>1
    <3>2. r \notin RunnersOf(balance.groups) /\ r \notin history["strayed"]
          /\ r \notin history["dropped"]
      BY <1>4, <1>8, <2>1, <2>4, <3>1
    <3>3. r \in RunnersOf(worker[v].running) \union RunnersOf(worker[v].pending)
      BY <2>1, <2>2, <3>2 DEF Placed, WorkerPointer, BoundTo
    <3>4. r \in RunnersOf(worker'[v].running) \union RunnersOf(worker'[v].pending)
      BY <1>6, <1>9, <3>3
    <3> QED BY <1>1, <2>2, <3>4 DEF BoundTo
  <2> QED BY <2>3, <2>4
<1>15. /\ AllGroups' \subseteq AllGroups
       /\ \A g \in AllGroups : g \in AllGroups' \/ Range(g) \subseteq history'["dropped"]
  <2> DEFINE y == <<"pending", w>>
             old == IF last THEN Range(rest) ELSE {}
  <2>1. y \in Sites /\ HeldSite \in Sites /\ OnlyAt(HeldSite, y)
    BY <1>2, <1>6, SiteFacts DEF OnlyAt
  <2>2. Range(worker'[w].pending) = Range(worker[w].pending) \union Range(list)
    <3>1. worker[w].pending \in Seq(Seq(Runners)) /\ list \in Seq(Seq(Runners))
      BY <1>3, <1>5 DEF GroupList, Lists
    <3> QED BY <1>6, <3>1, RangeJoin
  <2>3. Range(balance.groups) = Range(list) \union Range(rest)
    BY <1>2, <1>3, RangeCut DEF GroupList, Lists, list, rest
  <2>4. Range(Held') \subseteq Range(rest) /\ Range(rest) \subseteq Range(Held') \union old
    <3>1. Range(<<>>) = {}
      BY DEF Range
    <3> QED BY <1>7, <1>10, <3>1
  <2>5. /\ Place[y] = worker[w].pending /\ Place'[y] = worker'[w].pending
        /\ Place[HeldSite] = balance.groups /\ Place'[HeldSite] = Held'
    BY <1>2, <1>3, PlaceFacts, NextPlaceFacts
  <2> HIDE DEF y, old
  <2>6. AllGroups' \subseteq AllGroups \union {} /\ AllGroups \subseteq AllGroups' \union old
    BY <2>1, <2>2, <2>3, <2>4, <2>5, GroupsMove
  <2>7. ASSUME NEW g \in old PROVE Range(g) \subseteq history'["dropped"]
    <3>1. last /\ g \in Range(rest)
      BY <2>7 DEF old
    <3>2. PICK k \in DOMAIN rest : g = rest[k]
      BY <3>1 DEF Range
    <3>3. Range(g) \subseteq RunnersOf(rest)
      BY <3>2, InRunnersOf
    <3> QED BY <1>8, <3>1, <3>3
  <2> QED BY <2>6, <2>7
<1> QED BY <1>1, <1>6, <1>7, <1>8, <1>11, <1>12, <1>13, <1>14, <1>15 DEF Placed

\* Bind of a group to worker w.
LEMMA BoundGroup ==
  ASSUME TypeOK, NEW w \in Workers, NEW g \in Seq(Runners), g # <<>>,
         worker' = Bind(w, g)
  PROVE  /\ worker' \in [Workers -> WorkerRecords]
         /\ worker'[w].pending = Append(worker[w].pending, g)
         /\ worker'[w].running = worker[w].running
         /\ worker'[w].specifics = worker[w].specifics
         /\ \A v \in Workers : v # w => worker'[v] = worker[v]
<1>1. worker \in [Workers -> WorkerRecords]
  BY TypeParts
<1> DEFINE old == worker[w]
           id == IF Group[g[1]] = 0 THEN old.group_id ELSE Group[g[1]]
           list == Append(old.pending, g)
           rec == [old EXCEPT !.pending = list, !.group_id = id]
<1>2. id \in GroupIds(Runners) /\ list \in Lists
  <2>1. g[1] \in Runners
    OBVIOUS
  <2>2. old.group_id \in GroupIds(Runners) /\ old.pending \in Lists
    BY <1>1 DEF WorkerRecords
  <2>3. id \in GroupIds(Runners)
    BY <2>1, <2>2 DEF GroupIds
  <2> QED BY <2>2, <2>3 DEF Lists
<1>3. worker' = [worker EXCEPT ![w] = rec]
  BY <1>1 DEF Bind
<1> HIDE DEF id, list
<1>4. /\ rec \in WorkerRecords /\ rec.pending = list /\ rec.running = old.running
      /\ rec.specifics = old.specifics
  BY <1>1, <1>2 DEF WorkerRecords
<1> HIDE DEF rec
<1> QED BY <1>3, <1>4, Replaced DEF list

LEMMA RebindStep ==
  ASSUME TypeOK, Sized, Placed, balance.step = "rebind", balance.groups # <<>>,
         index_ < count, Head(balance.groups) # <<>>,
         worker' = Bind(index_, Head(balance.groups)),
         balance' = [balance EXCEPT !.step = "repoint"],
         UNCHANGED <<index_, runner, history>>
  PROVE  /\ Placed' /\ worker' \in [Workers -> WorkerRecords]
         /\ balance' \in BalanceRecords /\ AllGroups' = AllGroups
<1> DEFINE w == index_
           g == Head(balance.groups)
           t == Tail(balance.groups)
<1>1. w \in Workers /\ w \in Nat
  BY InWorkers, TypeParts DEF Numbers
<1>2. /\ balance' \in BalanceRecords /\ balance'.groups = balance.groups
      /\ balance'.step = "repoint"
  BY TypeParts DEF BalanceRecords
<1>3. Held = balance.groups /\ Held' = t
  BY <1>2 DEF Held
<1>4. /\ GroupList(balance.groups) /\ GroupList(worker[w].pending)
      /\ RunnersOf(worker[w].pending) \intersect RunnersOf(balance.groups) = {}
  BY <1>1, <1>3, Disjoint DEF Placed
<1>5. /\ g \in Seq(Runners) /\ GroupList(t)
      /\ Range(g) \intersect RunnersOf(t) = {}
      /\ RunnersOf(balance.groups) = Range(g) \union RunnersOf(t)
  BY <1>4, FirstGroup
<1>6. /\ worker' \in [Workers -> WorkerRecords]
      /\ worker'[w].pending = Append(worker[w].pending, g)
      /\ worker'[w].running = worker[w].running
      /\ \A v \in Workers : v # w => worker'[v] = worker[v]
  BY <1>1, <1>5, BoundGroup
<1> HIDE DEF g, t, w
<1>7. /\ GroupList(worker'[w].pending)
      /\ RunnersOf(worker'[w].pending) = RunnersOf(worker[w].pending) \union Range(g)
  <2>1. Range(g) \intersect RunnersOf(worker[w].pending) = {}
    BY <1>4, <1>5
  <2> DEFINE old == worker[w].pending
  <2>2. GroupList(old) /\ g \in Seq(Runners) /\ Range(g) \intersect RunnersOf(old) = {}
    BY <1>4, <1>5, <2>1
  <2> HIDE DEF old
  <2>3. /\ GroupList(Append(old, g))
        /\ RunnersOf(Append(old, g)) = RunnersOf(old) \union Range(g)
    BY <2>2, AppendGroup
  <2> QED BY <1>6, <2>3 DEF old
<1>8. Moves({}, {}, {}) /\ Apart'
  <2> DEFINE y == <<"pending", w>>
  <2>1. y \in Sites /\ HeldSite \in Sites /\ HeldSite # y
    BY <1>1, SiteFacts
  <2>2. OnlyAt(HeldSite, y)
    BY <1>6 DEF OnlyAt
  <2>3. /\ Place[y] = worker[w].pending /\ Place'[y] = worker'[w].pending
        /\ Place[HeldSite] = balance.groups /\ Place'[HeldSite] = t
    BY <1>1, <1>3, PlaceFacts, NextPlaceFacts
  <2> HIDE DEF y
  <2>4. \A a \in Sites : a = HeldSite \/ a = y \/ Place'[a] = Place[a]
    BY <2>2, OtherPlaces
  <2>5. Exchange(Place, Place', HeldSite, y, {}, {})
    BY <1>4, <1>5, <1>7, <2>1, <2>3, <2>4 DEF Exchange
  <2> QED BY <2>1, <2>5, Exchanged DEF Placed
<1>9. Lives'
  <2>1. balance.groups \in Lists
    BY <1>4 DEF GroupList
  <2>2. Follow({}, {}, {})
    BY <1>2, <2>1, ListTypes DEF Follow, Early
  <2> QED BY <1>8, <2>2, LivesStep DEF Placed
<1>10. \A v \in Workers : BoundTo(v) \subseteq BoundTo(v)'
  <2> TAKE v \in Workers
  <2>1. CASE v = w
    BY <1>6, <1>7, <2>1 DEF BoundTo
  <2>2. CASE v # w
    BY <1>6, <2>2 DEF BoundTo
  <2> QED BY <2>1, <2>2
<1>11. Pointed'
  <2>1. \A r \in Range(g) : r \in RunnersOf(worker'[index_].pending)
    BY <1>7 DEF w
  <2>2. \A r \in Range(Head(balance'.groups)) : r \in BoundTo(index_)'
    BY <1>2, <2>1 DEF BoundTo, g
  <2> QED BY <1>2, <2>2 DEF Pointed, Placed
<1>12. WorkerPointer'
  <2>1. SUFFICES ASSUME NEW r \in Runners, runner[r].life = "bound",
                        runner[r].worker_ # NoWorker, r \notin history["strayed"],
                        r \notin history["dropped"], r \notin RunnersOf(balance.groups)
                 PROVE  r \in BoundTo(runner[r].worker_)'
    BY <1>2 DEF WorkerPointer
  <2>2. PICK v \in Workers : v = runner[r].worker_
    BY <2>1, TypeParts DEF RunnerRecords
  <2>3. r \in BoundTo(v)'
    BY <1>10, <2>1, <2>2 DEF Placed, WorkerPointer
  <2> QED BY <2>2, <2>3 DEF BoundTo
<1>13. AllGroups' = AllGroups
  <2> DEFINE y == <<"pending", w>>
  <2>1. y \in Sites /\ HeldSite \in Sites /\ OnlyAt(HeldSite, y)
    BY <1>1, <1>6, SiteFacts DEF OnlyAt
  <2>2. Range(worker'[w].pending) = Range(worker[w].pending) \union {g}
    <3>1. worker[w].pending \in Lists
      BY <1>4 DEF GroupList
    <3> QED BY <1>5, <1>6, <3>1, ListOne
  <2>3. Range(balance.groups) = {g} \union Range(t)
    BY <1>4, RangeHead DEF GroupList, Lists, g, t
  <2>4. /\ Place[y] = worker[w].pending /\ Place'[y] = worker'[w].pending
        /\ Place[HeldSite] = balance.groups /\ Place'[HeldSite] = t
    BY <1>1, <1>3, PlaceFacts, NextPlaceFacts
  <2> HIDE DEF y
  <2>5. AllGroups' \subseteq AllGroups \union {} /\ AllGroups \subseteq AllGroups' \union {}
    BY <2>1, <2>2, <2>3, <2>4, GroupsMove
  <2> QED BY <2>5
<1> QED BY <1>2, <1>6, <1>8, <1>9, <1>11, <1>12, <1>13 DEF Placed

LEMMA RepointStep ==
  ASSUME TypeOK, Sized, Placed, Repoint
  PROVE  /\ Placed' /\ worker' \in [Workers -> WorkerRecords]
         /\ runner' \in [Runners -> RunnerRecords]
         /\ balance' \in BalanceRecords
         /\ history' \in [Causes -> SUBSET Runners]
         /\ AllGroups' = AllGroups
<1> DEFINE moved == Range(Head(balance.groups))
           owned == {r \in moved : runner[r].worker_ # NoWorker}
           Rec(w) == [worker[w] EXCEPT !.specifics =
                        {r \in @ : r \notin owned \/ runner[r].worker_ # w}]
           Old == [w \in Workers |-> Rec(w)]
<1>0. /\ worker \in [Workers -> WorkerRecords] /\ runner \in [Runners -> RunnerRecords]
      /\ balance \in BalanceRecords /\ history \in [Causes -> SUBSET Runners]
  BY TypeParts
<1>1. /\ balance.step = "repoint"
      /\ worker' = [Old EXCEPT ![index_].specifics = @ \union owned]
      /\ runner' = [r \in Runners |-> IF r \in moved
                      THEN [runner[r] EXCEPT !.worker_ = index_] ELSE runner[r]]
      /\ balance' = [balance EXCEPT !.groups = Tail(@), !.step = "rebind"]
      /\ history' = [history EXCEPT
           !["again"] = @ \union (moved \intersect Adrift),
           !["strayed"] = @ \ moved]
  BY DEF Repoint
<1>2. index_ \in Workers /\ balance.groups # <<>> /\ balance.groups \in Lists
  BY <1>0, <1>1, InWorkers DEF Sized, BalanceRecords
<1>3. /\ Head(balance.groups) = balance.groups[1] /\ 1 \in DOMAIN balance.groups
      /\ Tail(balance.groups) \in Lists
      /\ \A r \in RunnersOf(Tail(balance.groups)) : r \in RunnersOf(balance.groups)
      /\ RunnersOf(balance.groups) \subseteq moved \union RunnersOf(Tail(balance.groups))
  <2>1. /\ Head(balance.groups) = balance.groups[1] /\ Tail(balance.groups) \in Lists
        /\ Len(balance.groups) \in Nat /\ Len(balance.groups) # 0
        /\ DOMAIN Tail(balance.groups) = 1..(Len(balance.groups) - 1)
        /\ DOMAIN balance.groups = 1..Len(balance.groups)
        /\ \A i \in 1..(Len(balance.groups) - 1) :
             Tail(balance.groups)[i] = balance.groups[i + 1]
    BY <1>2 DEF Lists
  <2>2. 1 \in DOMAIN balance.groups
    BY <2>1
  <2>3. ASSUME NEW r \in RunnersOf(Tail(balance.groups)) PROVE r \in RunnersOf(balance.groups)
    <3>1. PICK i \in 1..(Len(balance.groups) - 1) : r \in Range(Tail(balance.groups)[i])
      BY <2>1, InRunnersOf
    <3>2. i + 1 \in DOMAIN balance.groups /\ r \in Range(balance.groups[i + 1])
      BY <2>1, <3>1
    <3> QED BY <3>2, InRunnersOf
  <2>4. ASSUME NEW r \in RunnersOf(balance.groups), r \notin moved
        PROVE  r \in RunnersOf(Tail(balance.groups))
    <3>1. PICK i \in DOMAIN balance.groups : r \in Range(balance.groups[i])
      BY InRunnersOf
    <3>2. i # 1
      BY <2>1, <2>4, <3>1
    <3>3. i - 1 \in 1..(Len(balance.groups) - 1) /\ i - 1 + 1 = i
      BY <2>1, <3>2
    <3>4. i - 1 \in DOMAIN Tail(balance.groups) /\ r \in Range(Tail(balance.groups)[i - 1])
      BY <2>1, <3>1, <3>3
    <3> QED BY <3>4, InRunnersOf
  <2> QED BY <2>1, <2>2, <2>3, <2>4
<1>4. moved \subseteq RunnersOf(balance.groups) /\ moved \subseteq Runners
  BY <1>2, <1>3, InRunnersOf, ListTypes
<1>5. \A r \in moved : ~Early(r)
  BY <1>4 DEF Placed, Lives
<1>6. /\ balance' \in BalanceRecords /\ balance'.groups = Tail(balance.groups)
      /\ balance'.step = "rebind"
  BY <1>0, <1>1, <1>3 DEF BalanceRecords
<1>7. Held = Tail(balance.groups) /\ Held' = Tail(balance.groups)
  BY <1>1, <1>6 DEF Held
<1> HIDE DEF moved
<1>8. /\ history' \in [Causes -> SUBSET Runners]
      /\ history'["strayed"] = history["strayed"] \ moved
      /\ history'["dropped"] = history["dropped"]
  <2>1. moved \intersect Adrift \subseteq Runners
    BY <1>4
  <2> QED BY <1>0, <1>1, <2>1 DEF Causes
<1>9. /\ runner' \in [Runners -> RunnerRecords]
      /\ \A r \in Runners : /\ runner'[r].life = runner[r].life
                            /\ r \in moved => runner'[r].worker_ = index_
                            /\ r \notin moved => runner'[r] = runner[r]
  BY <1>0, <1>1, <1>2 DEF RunnerRecords
<1>10. owned \subseteq Runners
  BY <1>4
<1> HIDE DEF owned
<1>11. ASSUME NEW w \in Workers
       PROVE  /\ Rec(w) \in WorkerRecords
              /\ Rec(w).running = worker[w].running /\ Rec(w).pending = worker[w].pending
  BY <1>0 DEF WorkerRecords
<1> HIDE DEF Rec
<1>12. Old \in [Workers -> WorkerRecords]
       /\ \A w \in Workers : /\ Old[w].running = worker[w].running
                             /\ Old[w].pending = worker[w].pending
  BY <1>11
<1> HIDE DEF Old
<1>13. /\ worker' \in [Workers -> WorkerRecords]
       /\ \A w \in Workers : /\ worker'[w].running = worker[w].running
                             /\ worker'[w].pending = worker[w].pending
  <2> DEFINE new == [Old[index_] EXCEPT !.specifics = @ \union owned]
  <2>1. new \in WorkerRecords /\ new.running = Old[index_].running
        /\ new.pending = Old[index_].pending
    BY <1>2, <1>10, <1>12 DEF WorkerRecords
  <2>2. worker' = [Old EXCEPT ![index_] = new]
    BY <1>1
  <2> HIDE DEF new
  <2>3. worker' \in [Workers -> WorkerRecords]
    BY <1>12, <2>1, <2>2
  <2> QED BY <1>2, <1>12, <2>1, <2>2, <2>3
<1>14. Moves({}, {}, {}) /\ Apart' /\ \A w \in Workers : BoundTo(w)' = BoundTo(w)
  BY <1>7, <1>13, StillMoves DEF Placed, Still
<1>15. Lives'
  <2>1. Follow({}, {}, {})
    BY <1>3, <1>6, <1>8, <1>9, ListTypes DEF Follow, Early
  <2> QED BY <1>14, <2>1, LivesStep DEF Placed
<1>16. Pointed'
  <2>1. \A r \in Runners : Marked(r)'
    <3> TAKE r \in Runners
    <3>1. CASE r \in moved
      BY <1>5, <1>9, <3>1 DEF Marked, Early
    <3>2. CASE r \notin moved
      BY <1>9, <3>2 DEF Marked, Placed, Pointed
    <3> QED BY <3>1, <3>2
  <2> QED BY <1>6, <2>1 DEF Pointed, Marked
<1>17. WorkerPointer'
  <2>1. SUFFICES ASSUME NEW r \in Runners, runner'[r].life = "bound",
                        runner'[r].worker_ # NoWorker, r \notin history'["strayed"],
                        r \notin history'["dropped"], r \notin RunnersOf(balance'.groups)
                 PROVE  r \in BoundTo(runner[r].worker_)'
    BY DEF WorkerPointer
  <2>2. PICK v \in Workers : v = runner'[r].worker_
    BY <1>9, <2>1 DEF RunnerRecords
  <2>3. r \in BoundTo(v)
    <3>1. CASE r \in moved
      <4>1. v = index_ /\ runner[r].life = "bound" /\ r \notin history["dropped"]
        BY <1>8, <1>9, <2>1, <2>2, <3>1
      <4> QED BY <1>1, <3>1, <4>1 DEF Placed, Pointed, moved
    <3>2. CASE r \notin moved
      <4>1. /\ runner[r] = runner'[r] /\ r \notin history["strayed"]
            /\ r \notin history["dropped"] /\ r \notin RunnersOf(balance.groups)
        BY <1>3, <1>6, <1>8, <1>9, <2>1, <3>2
      <4> QED BY <2>1, <2>2, <4>1 DEF Placed, WorkerPointer
    <3> QED BY <3>1, <3>2
  <2>4. r \in BoundTo(v)'
    BY <1>14, <2>3
  <2> QED BY <2>2, <2>4 DEF BoundTo
<1>18. AllGroups' = AllGroups
  BY <1>7, <1>13, GroupsStay DEF Still
<1> QED BY <1>6, <1>8, <1>9, <1>13, <1>14, <1>15, <1>16, <1>17, <1>18 DEF Placed

-----------------------------------------------------------------------------
(* One step per action. *)

Typed ==
  /\ worker \in [Workers -> WorkerRecords] /\ runner \in [Runners -> RunnerRecords]
  /\ balance \in BalanceRecords /\ history \in [Causes -> SUBSET Runners]

LEMMA SameStep ==
  ASSUME TypeOK, Sized, Placed, UNCHANGED <<index_, worker, runner, balance, history>>
  PROVE  Placed' /\ Typed'
<1>1. Typed
  BY TypeParts DEF Typed
<1>2. Quiet
  BY DEF Quiet, Still, Held
<1> QED BY <1>1, <1>2, QuietStep DEF Typed

\* The record of a worker changes, its lists do not.
LEMMA AsideStep ==
  ASSUME TypeOK, Sized, Placed, worker' \in [Workers -> WorkerRecords],
         \A w \in Workers : /\ worker'[w].running = worker[w].running
                            /\ worker'[w].pending = worker[w].pending,
         UNCHANGED <<index_, runner, balance>>,
         history' \in [Causes -> SUBSET Runners],
         history'["dropped"] = history["dropped"],
         history'["strayed"] = history["strayed"]
  PROVE  Placed' /\ Typed'
<1>1. Typed
  BY TypeParts DEF Typed
<1>2. Quiet
  BY DEF Quiet, Still, Held
<1> QED BY <1>1, <1>2, QuietStep DEF Typed

LEMMA Destroyed ==
  ASSUME TypeOK, NEW v \in Workers, NEW r, WorkerDestroySpecific(v, r)
  PROVE  /\ worker' \in [Workers -> WorkerRecords]
         /\ \A w \in Workers : /\ worker'[w].running = worker[w].running
                               /\ worker'[w].pending = worker[w].pending
<1>1. worker \in [Workers -> WorkerRecords]
  BY TypeParts
<1> DEFINE rec == [worker[v] EXCEPT !.specifics = @ \ {r}]
<1>2. worker' = [worker EXCEPT ![v] = rec]
  BY <1>1 DEF WorkerDestroySpecific
<1>3. rec \in WorkerRecords /\ rec.running = worker[v].running
      /\ rec.pending = worker[v].pending
  BY <1>1 DEF WorkerRecords
<1> HIDE DEF rec
<1> QED BY <1>2, <1>3, Replaced

LEMMA ImmediateStep ==
  ASSUME TypeOK, Sized, Placed, NEW w \in Workers, RunImmediateTask(w)
  PROVE  Placed' /\ Typed'
<1> DEFINE m == Head(worker[w].immediate)
<1>1. worker \in [Workers -> WorkerRecords] /\ history \in [Causes -> SUBSET Runners]
  BY TypeParts
<1>2. worker[w] \in WorkerRecords /\ worker[w].immediate \in Seq(Mail)
      /\ worker[w].immediate # <<>>
  BY <1>1 DEF WorkerRecords, RunImmediateTask
<1>3. m \in Mail /\ Tail(worker[w].immediate) \in Seq(Mail)
  BY <1>2
<1>4. m.runner \in Runners /\ m.to \in Workers
  BY <1>3 DEF Mail
<1> HIDE DEF m
<1>5. RunTake(w, m) \/ RunPut(w, m)
  BY DEF RunImmediateTask, m
<1> DEFINE Lean == /\ worker' \in [Workers -> WorkerRecords]
                   /\ \A v \in Workers : /\ worker'[v].running = worker[v].running
                                         /\ worker'[v].pending = worker[v].pending
<1>6. ASSUME RunPut(w, m) PROVE Lean
  <2> DEFINE rec == [worker[w] EXCEPT !.specifics = @ \union {m.runner},
                                      !.immediate = Tail(@)]
  <2>1. worker' = [worker EXCEPT ![w] = rec]
    BY <1>1, <1>6 DEF RunPut
  <2>2. rec \in WorkerRecords /\ rec.running = worker[w].running
        /\ rec.pending = worker[w].pending
    BY <1>2, <1>3, <1>4 DEF WorkerRecords
  <2> HIDE DEF rec
  <2> QED BY <2>1, <2>2, Replaced
<1>7. ASSUME RunTake(w, m) PROVE Lean
  <2> DEFINE rec == [worker[w] EXCEPT !.specifics = @ \ {m.runner}, !.immediate = Tail(@)]
             mid == [worker EXCEPT ![w] = rec]
             put == Put(m.runner, m.to)
             rec2 == [mid[m.to] EXCEPT !.immediate = Append(@, put)]
  <2>1. worker' = [mid EXCEPT ![m.to].immediate = Append(@, put)]
    BY <1>1, <1>7 DEF RunTake
  <2>2. rec \in WorkerRecords /\ rec.running = worker[w].running
        /\ rec.pending = worker[w].pending
    BY <1>2, <1>3, <1>4 DEF WorkerRecords
  <2> HIDE DEF rec
  <2>3. mid \in [Workers -> WorkerRecords]
        /\ \A v \in Workers : /\ mid[v].running = worker[v].running
                              /\ mid[v].pending = worker[v].pending
    BY <1>1, <2>2
  <2> HIDE DEF mid
  <2>4. put \in Mail
    BY <1>4 DEF Put, Mail
  <2> HIDE DEF put
  <2>5. mid[m.to] \in WorkerRecords /\ mid[m.to].immediate \in Seq(Mail)
    BY <1>4, <2>3 DEF WorkerRecords
  <2>6. Append(mid[m.to].immediate, put) \in Seq(Mail)
    BY <2>4, <2>5
  <2>7. rec2 \in WorkerRecords /\ rec2.running = mid[m.to].running
        /\ rec2.pending = mid[m.to].pending
    BY <2>5, <2>6 DEF WorkerRecords
  <2>8. worker' = [mid EXCEPT ![m.to] = rec2]
    BY <2>1
  <2> HIDE DEF rec2
  <2>9. worker' \in [Workers -> WorkerRecords]
    BY <2>3, <2>7, <2>8
  <2> QED BY <1>4, <2>3, <2>7, <2>8, <2>9
<1>8. Lean
  BY <1>5, <1>6, <1>7
<1> HIDE DEF Lean
<1>9. UNCHANGED <<index_, runner, balance, history>>
  BY DEF RunImmediateTask
<1> QED BY <1>1, <1>8, <1>9, AsideStep DEF Lean

LEMMA ThreadSteps ==
  ASSUME TypeOK, Sized, Placed, NEW w \in Workers, ThreadStep(w)
  PROVE  Placed' /\ Typed'
<1>1. CASE RunImmediateTask(w)
  BY <1>1, ImmediateStep
<1>2. CASE Schedule(w)
  <2>1. CASE Fail("empty_group")
    BY <2>1, SameStep DEF Fail
  <2>2. CASE ~Fail("empty_group")
    <3>1. PICK gs \in Orders(worker[w].running) : worker' = Scheduled(w, gs)
      BY <1>2, <2>2 DEF Schedule
    <3>2. UNCHANGED <<index_, runner, balance, history>>
      BY <1>2, <2>2 DEF Schedule
    <3>3. Placed' /\ worker' \in [Workers -> WorkerRecords]
      BY <3>1, <3>2, ScheduleStep
    <3> QED BY <3>2, <3>3, TypeParts DEF Typed
  <2> QED BY <2>1, <2>2
<1>3. CASE ClearNeedBalance(w)
  BY <1>3, SameStep DEF ClearNeedBalance
<1> QED BY <1>1, <1>2, <1>3 DEF ThreadStep

LEMMA TaskSteps ==
  ASSUME TypeOK, Sized, Placed, NEW w \in Workers, NEW r \in Runners, TaskStep(w, r)
  PROVE  Placed' /\ Typed'
<1>1. CASE UseSpecificsUnbound(w, r)
  BY <1>1, SameStep DEF UseSpecificsUnbound, Fail
<1>2. CASE RunnerDestroySpecifics(w, r)
  <2>1. runner[r].worker_ \in Workers
    BY <1>2, TypeParts DEF RunnerDestroySpecifics, RunnerRecords
  <2>2. /\ worker' \in [Workers -> WorkerRecords]
        /\ \A v \in Workers : /\ worker'[v].running = worker[v].running
                              /\ worker'[v].pending = worker[v].pending
    BY <1>2, <2>1, Destroyed DEF RunnerDestroySpecifics
  <2>3. /\ history' \in [Causes -> SUBSET Runners]
        /\ history'["dropped"] = history["dropped"]
        /\ history'["strayed"] = history["strayed"]
    BY <1>2, TypeParts DEF RunnerDestroySpecifics, Causes
  <2>4. UNCHANGED <<index_, runner, balance>>
    BY <1>2 DEF RunnerDestroySpecifics
  <2> QED BY <2>2, <2>3, <2>4, AsideStep
<1> QED BY <1>1, <1>2 DEF TaskStep

\* A runner's record is replaced, its group is not touched.
LEMMA RunnerStep ==
  ASSUME TypeOK, Sized, Placed, NEW r \in Runners, NEW rec \in RunnerRecords,
         runner' = [runner EXCEPT ![r] = rec], rec.life # "bound",
         rec.life \in {"absent", "new", "loose", "walked", "picked"} => Early(r),
         rec.life \in {"absent", "new", "loose", "walked"} => rec.worker_ = NoWorker,
         rec.life = "picked" => rec.worker_ \in Workers,
         worker' \in [Workers -> WorkerRecords],
         \A w \in Workers : /\ worker'[w].running = worker[w].running
                            /\ worker'[w].pending = worker[w].pending,
         UNCHANGED <<balance, history>>, balance.step = "repoint" => index_' = index_
  PROVE  Placed' /\ Typed'
<1>1. Typed
  BY TypeParts DEF Typed
<1>2. /\ runner' \in [Runners -> RunnerRecords] /\ runner'[r] = rec
      /\ \A q \in Runners : q # r => runner'[q] = runner[q]
  BY <1>1 DEF Typed
<1>3. Marked(r)' /\ runner'[r].life # "bound" /\ (Early(r)' => Early(r))
  BY <1>2 DEF Marked, Early
<1>4. Quiet
  BY <1>2, <1>3 DEF Quiet, Still, Held
<1> QED BY <1>1, <1>2, <1>4, QuietStep DEF Typed

\* has_sub_runner_ of runners changes, and nothing else.
LEMMA FlagStep ==
  ASSUME TypeOK, Sized, Placed, UNCHANGED <<worker, balance, index_>>,
         \A q \in Runners : /\ runner'[q].worker_ = runner[q].worker_
                            /\ runner'[q].life = runner[q].life,
         history'["dropped"] = history["dropped"],
         history'["strayed"] = history["strayed"]
  PROVE  Placed'
<1>1. Still
  BY DEF Still, Held
<1>2. Moves({}, {}, {}) /\ Apart' /\ \A w \in Workers : BoundTo(w)' = BoundTo(w)
  BY <1>1, StillMoves DEF Placed
<1>3. balance.groups \in Lists
  BY TypeParts DEF BalanceRecords
<1>4. Follow({}, {}, {})
  BY <1>3, ListTypes DEF Follow, Early
<1>5. Lives'
  BY <1>2, <1>4, LivesStep DEF Placed
<1>6. \A q \in Runners : Marked(q)'
  BY DEF Placed, Pointed, Marked
<1>7. Aims({})
  BY <1>2, <1>6 DEF Aims
<1>8. Pointed' /\ WorkerPointer'
  BY <1>7, PointersStep DEF Placed
<1> QED BY <1>2, <1>5, <1>8 DEF Placed

\* A group of one new runner is bound to worker w.
LEMMA NewGroup ==
  ASSUME TypeOK, Sized, Placed, NEW r \in Runners, NEW w \in Workers, Early(r),
         worker'[w].pending = Append(worker[w].pending, <<r>>),
         worker'[w].running = worker[w].running,
         \A v \in Workers : v # w => worker'[v] = worker[v],
         runner'[r].life = "bound", runner'[r].worker_ = w,
         \A q \in Runners : q = r \/ /\ runner'[q].worker_ = runner[q].worker_
                                     /\ runner'[q].life = runner[q].life,
         UNCHANGED <<balance, history>>, balance.step = "repoint" => index_' = index_
  PROVE  /\ Placed'
         /\ AllGroups' \subseteq AllGroups \union {<<r>>} /\ AllGroups \subseteq AllGroups'
<1> DEFINE old == worker[w].pending
           x == <<"pending", w>>
<1>1. GroupList(old) /\ r \notin RunnersOf(old)
  BY Disjoint, IsSomewhere DEF Placed, Lives
<1>2. <<r>> \in Seq(Runners) /\ Range(<<r>>) = {r}
  BY Alone
<1>3. GroupList(Append(old, <<r>>)) /\ RunnersOf(Append(old, <<r>>)) = RunnersOf(old) \union {r}
  <2>1. Range(<<r>>) \intersect RunnersOf(old) = {}
    BY <1>1, <1>2
  <2> HIDE DEF old
  <2> QED BY <1>1, <1>2, <2>1, AppendGroup
<1>4. GroupList(Place'[x]) /\ RunnersOf(Place'[x]) = RunnersOf(Place[x]) \union {r}
  BY <1>3, PlaceFacts, NextPlaceFacts
<1>5. OnlyAt(x, x)
  BY DEF OnlyAt, Held
<1>6. x \in {<<"running", w>>, <<"pending", w>>} /\ runner'[r].worker_ \in {w, NoWorker}
  OBVIOUS
<1>7. Range(Place'[x]) = Range(Place[x]) \union {<<r>>} /\ x \in Sites
  <2>1. old \in Lists
    BY <1>1 DEF GroupList
  <2>2. Range(Append(old, <<r>>)) = Range(old) \union {<<r>>}
    <3> DEFINE e == <<r>>
    <3>1. e \in Seq(Runners)
      BY <1>2
    <3> HIDE DEF old, e
    <3>2. Range(Append(old, e)) = Range(old) \union {e}
      BY <2>1, <3>1, ListOne
    <3> QED BY <3>2 DEF e
  <2> QED BY <2>2, PlaceFacts, NextPlaceFacts, SiteFacts
<1> HIDE DEF x
<1>8. AllGroups' \subseteq AllGroups \union {<<r>>} /\ AllGroups \subseteq AllGroups' \union {}
  <2> DEFINE new == {<<r>>}
  <2>1. /\ Range(Place'[x]) \union Range(Place'[x])
             \subseteq Range(Place[x]) \union Range(Place[x]) \union new
        /\ Range(Place[x]) \union Range(Place[x])
             \subseteq Range(Place'[x]) \union Range(Place'[x]) \union {}
    BY <1>7
  <2> HIDE DEF new
  <2>2. AllGroups' \subseteq AllGroups \union new /\ AllGroups \subseteq AllGroups' \union {}
    BY <1>5, <1>7, <2>1, GroupsMove
  <2> QED BY <2>2 DEF new
<1>9. Placed'
  BY <1>4, <1>5, <1>6, ArriveStep
<1> QED BY <1>8, <1>9

\* BindGroup: the sub-runner s comes to the group of f.
LEMMA PushStep ==
  ASSUME TypeOK, Sized, Placed, NEW f \in Runners, NEW s \in Runners,
         NEW w \in Workers, f \in BoundTo(w), BindGroup(w, f, s),
         Early(s), runner'[s].life = "bound", runner'[s].worker_ = NoWorker,
         \A q \in Runners : q = s \/ /\ runner'[q].worker_ = runner[q].worker_
                                     /\ runner'[q].life = runner[q].life,
         UNCHANGED <<balance, history, index_>>
  PROVE  Placed' /\ worker' \in [Workers -> WorkerRecords]
<1>1. worker \in [Workers -> WorkerRecords]
  BY TypeParts
<1>2. /\ GroupList(worker[w].running) /\ GroupList(worker[w].pending)
      /\ s \notin RunnersOf(worker[w].running) /\ s \notin RunnersOf(worker[w].pending)
  BY Disjoint, IsSomewhere DEF Placed, Lives
<1>3. CASE f \in RunnersOf(worker[w].running)
  <2> DEFINE new == PushOn(worker[w].running, f, s)
             rec == [worker[w] EXCEPT !.running = new]
             x == <<"running", w>>
  <2>1. GroupList(new) /\ RunnersOf(new) = RunnersOf(worker[w].running) \union {s}
    BY <1>2, <1>3, Pushed
  <2>2. worker' = [worker EXCEPT ![w] = rec]
    BY <1>1, <1>3 DEF BindGroup
  <2> HIDE DEF new
  <2>3. rec \in WorkerRecords /\ rec.running = new /\ rec.pending = worker[w].pending
    BY <1>1, <2>1 DEF WorkerRecords, GroupList
  <2> HIDE DEF rec
  <2>4. /\ worker' \in [Workers -> WorkerRecords] /\ worker'[w] = rec
        /\ \A v \in Workers : v # w => worker'[v] = worker[v]
    BY <2>2, <2>3, Replaced
  <2>5. GroupList(Place'[x]) /\ RunnersOf(Place'[x]) = RunnersOf(Place[x]) \union {s}
    BY <2>1, <2>3, <2>4, PlaceFacts, NextPlaceFacts
  <2>6. OnlyAt(x, x)
    BY <2>3, <2>4 DEF OnlyAt, Held
  <2>7. x \in {<<"running", w>>, <<"pending", w>>} /\ runner'[s].worker_ \in {w, NoWorker}
    OBVIOUS
  <2> HIDE DEF x
  <2> QED BY <2>4, <2>5, <2>6, <2>7, ArriveStep
<1>4. CASE f \notin RunnersOf(worker[w].running)
  <2> DEFINE new == PushOn(worker[w].pending, f, s)
             rec == [worker[w] EXCEPT !.pending = new]
             x == <<"pending", w>>
  <2>0. f \in RunnersOf(worker[w].pending)
    BY <1>4 DEF BoundTo
  <2>1. GroupList(new) /\ RunnersOf(new) = RunnersOf(worker[w].pending) \union {s}
    BY <1>2, <2>0, Pushed
  <2>2. worker' = [worker EXCEPT ![w] = rec]
    BY <1>1, <1>4 DEF BindGroup
  <2> HIDE DEF new
  <2>3. rec \in WorkerRecords /\ rec.pending = new /\ rec.running = worker[w].running
    BY <1>1, <2>1 DEF WorkerRecords, GroupList
  <2> HIDE DEF rec
  <2>4. /\ worker' \in [Workers -> WorkerRecords] /\ worker'[w] = rec
        /\ \A v \in Workers : v # w => worker'[v] = worker[v]
    BY <2>2, <2>3, Replaced
  <2>5. GroupList(Place'[x]) /\ RunnersOf(Place'[x]) = RunnersOf(Place[x]) \union {s}
    BY <2>1, <2>3, <2>4, PlaceFacts, NextPlaceFacts
  <2>6. OnlyAt(x, x)
    BY <2>3, <2>4 DEF OnlyAt, Held
  <2>7. x \in {<<"running", w>>, <<"pending", w>>} /\ runner'[s].worker_ \in {w, NoWorker}
    OBVIOUS
  <2> HIDE DEF x
  <2> QED BY <2>4, <2>5, <2>6, <2>7, ArriveStep
<1> QED BY <1>3, <1>4

LEMMA CreateSteps ==
  ASSUME TypeOK, Sized, Placed, NEW r \in Runners,
         \/ CreateLoose(r) \/ CreateInNoGroup(r) \/ CreateInGroup(r) \/ PickWorker(r)
         \/ BindPicked(r)
  PROVE  Placed' /\ Typed'
<1>1. /\ worker \in [Workers -> WorkerRecords] /\ runner \in [Runners -> RunnerRecords]
      /\ balance \in BalanceRecords /\ history \in [Causes -> SUBSET Runners]
  BY TypeParts
<1>2. /\ runner[r] \in RunnerRecords
      /\ runner[r].life \in {"absent", "new", "loose", "walked"}
           => runner[r].worker_ = NoWorker
      /\ runner[r].life = "picked" => runner[r].worker_ \in Workers
  BY <1>1 DEF Placed, Pointed
<1>3. index_ < count => index_ \in Workers
  BY InWorkers, TypeParts DEF Numbers
<1>4. CASE CreateLoose(r)
  <2> DEFINE rec == [runner[r] EXCEPT !.life = "loose"]
  <2>1. /\ runner' = [runner EXCEPT ![r] = rec] /\ runner[r].life = "new"
        /\ UNCHANGED <<worker, balance, history, index_>>
    BY <1>1, <1>4 DEF CreateLoose
  <2>2. rec \in RunnerRecords /\ rec.life = "loose" /\ rec.worker_ = NoWorker
    BY <1>2, <2>1 DEF RunnerRecords
  <2> HIDE DEF rec
  <2> QED BY <1>1, <2>1, <2>2, RunnerStep DEF Early
<1>5. CASE CreateInGroup(r)
  <2>1. CASE Fail("race")
    BY <2>1, SameStep DEF Fail
  <2>2. CASE /\ runner' = [runner EXCEPT ![r].life = "walked"] /\ runner[r].life = "new"
             /\ UNCHANGED <<worker, balance, history, index_>>
    <3> DEFINE rec == [runner[r] EXCEPT !.life = "walked"]
    <3>1. runner' = [runner EXCEPT ![r] = rec]
      BY <1>1, <2>2
    <3>2. rec \in RunnerRecords /\ rec.life = "walked" /\ rec.worker_ = NoWorker
      BY <1>2, <2>2 DEF RunnerRecords
    <3> HIDE DEF rec
    <3> QED BY <1>1, <2>2, <3>1, <3>2, RunnerStep DEF Early
  <2>3. ASSUME NEW w \in WithGroup(Group[r]), runner[r].life = "new",
               runner' = [runner EXCEPT ![r].worker_ = w, ![r].life = "picked"],
               UNCHANGED <<worker, balance, history, index_>>
        PROVE  Placed' /\ Typed'
    <3> DEFINE rec == [runner[r] EXCEPT !.worker_ = w, !.life = "picked"]
    <3>1. w \in Nat /\ w < count
      BY TypeParts DEF WithGroup, Numbers
    <3>2. w \in Workers
      BY <3>1, InWorkers
    <3>3. runner' = [runner EXCEPT ![r] = rec]
      BY <1>1, <2>3
    <3>4. rec \in RunnerRecords /\ rec.life = "picked" /\ rec.worker_ = w
      BY <1>2, <3>2 DEF RunnerRecords
    <3> HIDE DEF rec
    <3> QED BY <1>1, <2>3, <3>2, <3>3, <3>4, RunnerStep DEF Early
  <2> QED BY <1>5, <2>1, <2>2, <2>3 DEF CreateInGroup
<1>6. CASE PickWorker(r)
  <2>1. CASE Fail("out_of_range")
    BY <2>1, SameStep DEF Fail
  <2>2. CASE ~Fail("out_of_range")
    <3> DEFINE rec == [runner[r] EXCEPT !.worker_ = index_, !.life = "picked"]
    <3>1. /\ runner[r].life = "walked" /\ index_ \in Workers /\ balance.step = "none"
          /\ UNCHANGED <<worker, balance, history>>
      BY <1>3, <1>6, <2>2 DEF PickWorker, Unlocked
    <3>2. runner' = [runner EXCEPT ![r] = rec]
      BY <1>1, <1>6, <2>2 DEF PickWorker
    <3>3. rec \in RunnerRecords /\ rec.life = "picked" /\ rec.worker_ = index_
      BY <1>2, <3>1 DEF RunnerRecords
    <3> HIDE DEF rec
    <3> QED BY <1>1, <3>1, <3>2, <3>3, RunnerStep DEF Early
  <2> QED BY <2>1, <2>2
<1>7. CASE BindPicked(r)
  <2> DEFINE w == runner[r].worker_
             rec == [runner[r] EXCEPT !.life = "bound"]
  <2>1. /\ runner[r].life = "picked" /\ w \in Workers /\ worker' = Bind(w, <<r>>)
        /\ runner' = [runner EXCEPT ![r] = rec]
        /\ UNCHANGED <<balance, history, index_>>
    BY <1>1, <1>2, <1>7 DEF BindPicked
  <2>2. rec \in RunnerRecords /\ rec.life = "bound" /\ rec.worker_ = w
    BY <1>2 DEF RunnerRecords
  <2> HIDE DEF rec, w
  <2>3. /\ runner' \in [Runners -> RunnerRecords] /\ runner'[r] = rec
        /\ \A q \in Runners : q # r => runner'[q] = runner[q]
    BY <1>1, <2>1, <2>2
  <2>4. /\ worker' \in [Workers -> WorkerRecords]
        /\ worker'[w].pending = Append(worker[w].pending, <<r>>)
        /\ worker'[w].running = worker[w].running
        /\ \A v \in Workers : v # w => worker'[v] = worker[v]
    <3>1. <<r>> \in Seq(Runners) /\ <<r>> # <<>>
      OBVIOUS
    <3> QED BY <2>1, <3>1, BoundGroup
  <2>5. Placed'
    BY <2>1, <2>2, <2>3, <2>4, NewGroup DEF Early
  <2> QED BY <1>1, <2>1, <2>3, <2>4, <2>5 DEF Typed
<1>8. CASE CreateInNoGroup(r)
  <2>1. CASE Fail("out_of_range")
    BY <2>1, SameStep DEF Fail
  <2>2. CASE ~Fail("out_of_range")
    <3> DEFINE w == index_
               mid == Bind(w, <<r>>)
               old == worker[w]
               id == IF Group[<<r>>[1]] = 0 THEN old.group_id ELSE Group[<<r>>[1]]
               list == Append(old.pending, <<r>>)
               new == [old EXCEPT !.pending = list, !.group_id = id,
                                  !.specifics = @ \union {r}]
               rec == [runner[r] EXCEPT !.worker_ = w, !.life = "bound"]
    <3>1. /\ runner[r].life = "new" /\ w \in Workers /\ balance.step = "none"
          /\ UNCHANGED <<balance, history>>
          /\ worker' = [mid EXCEPT ![w].specifics = @ \union {r}]
          /\ runner' = [runner EXCEPT ![r].worker_ = w, ![r].life = "bound"]
      BY <1>3, <1>8, <2>2 DEF CreateInNoGroup, AddTaskRunner, Unlocked
    <3>2. runner' = [runner EXCEPT ![r] = rec]
      BY <1>1, <3>1
    <3>3. rec \in RunnerRecords /\ rec.life = "bound" /\ rec.worker_ = w
      BY <1>2, <3>1 DEF RunnerRecords
    <3>4. worker' = [worker EXCEPT ![w] = new]
      BY <1>1, <3>1 DEF Bind
    <3>5. id \in GroupIds(Runners) /\ list \in Lists
      <4>1. old.group_id \in GroupIds(Runners) /\ old.pending \in Lists
        BY <1>1, <3>1 DEF WorkerRecords
      <4>2. <<r>>[1] = r /\ <<r>> \in Seq(Runners)
        OBVIOUS
      <4> QED BY <4>1, <4>2 DEF GroupIds, Lists
    <3> HIDE DEF id, list
    <3>6. new \in WorkerRecords /\ new.pending = list /\ new.running = old.running
      BY <1>1, <3>1, <3>5 DEF WorkerRecords
    <3> HIDE DEF rec, w, new
    <3>7. /\ runner' \in [Runners -> RunnerRecords] /\ runner'[r] = rec
          /\ \A q \in Runners : q # r => runner'[q] = runner[q]
      BY <1>1, <3>2, <3>3
    <3>8. /\ worker' \in [Workers -> WorkerRecords] /\ worker'[w] = new
          /\ \A v \in Workers : v # w => worker'[v] = worker[v]
      BY <3>1, <3>4, <3>6, Replaced
    <3>9. /\ worker'[w].pending = Append(worker[w].pending, <<r>>)
          /\ worker'[w].running = worker[w].running
      BY <3>6, <3>8 DEF list
    <3>10. Placed'
      BY <3>1, <3>3, <3>7, <3>8, <3>9, NewGroup DEF Early
    <3> QED BY <1>1, <3>1, <3>7, <3>8, <3>10 DEF Typed
  <2> QED BY <2>1, <2>2
<1> QED BY <1>4, <1>5, <1>6, <1>7, <1>8

\* The UnBind of r ends: it has left its group, or was not found.
LEMMA UnBindStep ==
  ASSUME TypeOK, Sized, Placed, NEW r \in Runners, NEW ws,
         UnBindIn(ws, r) \/ worker' = worker,
         NEW found, NEW cause \in {"none", "missed", "slipped"}, UnBound(r, found, cause),
         UNCHANGED <<balance, index_>>
  PROVE  Placed' /\ Typed'
<1>1. /\ worker \in [Workers -> WorkerRecords] /\ runner \in [Runners -> RunnerRecords]
      /\ balance \in BalanceRecords /\ history \in [Causes -> SUBSET Runners]
      /\ runner[r] \in RunnerRecords
  BY TypeParts
<1> DEFINE rec == [runner[r] EXCEPT !.life = "removed"]
<1>2. runner' = [runner EXCEPT ![r] = rec]
  BY <1>1 DEF UnBound
<1>3. rec \in RunnerRecords /\ rec.life = "removed" /\ rec.worker_ = runner[r].worker_
  BY <1>1 DEF RunnerRecords
<1> HIDE DEF rec
<1>4. /\ runner' \in [Runners -> RunnerRecords] /\ runner'[r] = rec
      /\ \A q \in Runners : q # r => runner'[q] = runner[q]
  BY <1>1, <1>2, <1>3
<1>5. \A q \in Runners : /\ runner'[q].worker_ = runner[q].worker_
                         /\ q = r \/ runner'[q].life = runner[q].life
  BY <1>3, <1>4
<1>6. /\ history' \in [Causes -> SUBSET Runners]
      /\ history'["dropped"] = history["dropped"]
      /\ history'["strayed"] = history["strayed"]
  BY <1>1 DEF UnBound, Causes, Above
<1>7. CASE UnBindIn(ws, r)
  <2>1. Placed' /\ worker' \in [Workers -> WorkerRecords]
    BY <1>3, <1>4, <1>5, <1>6, <1>7, RemoveStep
  <2> QED BY <1>1, <1>4, <1>6, <2>1 DEF Typed
<1>8. CASE worker' = worker
  <2>1. Marked(r)' /\ runner'[r].life # "bound" /\ ~Early(r)'
    BY <1>3, <1>4 DEF Marked, Early
  <2>2. Quiet
    BY <1>4, <1>6, <1>8, <2>1 DEF Quiet, Still, Held
  <2> QED BY <1>1, <1>4, <1>6, <1>8, <2>2, QuietStep DEF Typed
<1> QED BY <1>7, <1>8

LEMMA AllWorkers ==
  ASSUME TypeOK
  PROVE  0..(count - 1) \in SUBSET Workers
  BY SizesAssumption DEF TypeOK, Workers

LEMMA RemoveSteps ==
  ASSUME TypeOK, Sized, Placed, NEW r \in Runners,
         RemoveTaskRunner(r) \/ RemoveFromPending(r) \/ DestroyRunner(r)
  PROVE  Placed' /\ Typed'
<1>1. /\ worker \in [Workers -> WorkerRecords] /\ runner \in [Runners -> RunnerRecords]
      /\ balance \in BalanceRecords /\ history \in [Causes -> SUBSET Runners]
  BY TypeParts
<1>2. runner[r] \in RunnerRecords
  BY <1>1
<1>3. CASE RemoveTaskRunner(r)
  <2> DEFINE ws == 0..(count - 1)
  <2>1. CASE UNCHANGED <<worker, runner, history>>
    BY <1>3, <2>1, SameStep DEF RemoveTaskRunner
  <2>2. CASE UnBindRunning(ws, r) /\ UnBound(r, InRunning(ws, r), "none")
    <3>1. UnBindIn(ws, r) \/ worker' = worker
      BY <2>2, AllWorkers, Searches
    <3>2. UNCHANGED <<balance, index_>>
      BY <1>3 DEF RemoveTaskRunner
    <3> HIDE DEF ws
    <3> QED BY <2>2, <3>1, <3>2, UnBindStep
  <2> QED BY <1>3, <2>1, <2>2 DEF RemoveTaskRunner
<1>30. CASE RemoveFromPending(r)
  <2> DEFINE ws == 0..(count - 1)
  <2>1. /\ UnBindPending(ws, r) /\ UnBound(r, InPending(ws, r), "missed")
        /\ UNCHANGED <<balance, index_>>
    BY <1>30 DEF RemoveFromPending
  <2>2. UnBindIn(ws, r) \/ worker' = worker
    BY <2>1, AllWorkers, Searches
  <2> HIDE DEF ws
  <2> QED BY <2>1, <2>2, UnBindStep
<1>4. CASE DestroyRunner(r)
  <2> DEFINE rec == [runner[r] EXCEPT !.life = "destroyed"]
  <2>1. /\ runner' = [runner EXCEPT ![r] = rec] /\ UNCHANGED <<balance, index_, history>>
    BY <1>1, <1>4 DEF DestroyRunner
  <2>2. rec \in RunnerRecords /\ rec.life = "destroyed"
    BY <1>2 DEF RunnerRecords
  <2>3. /\ worker' \in [Workers -> WorkerRecords]
        /\ \A w \in Workers : /\ worker'[w].running = worker[w].running
                              /\ worker'[w].pending = worker[w].pending
    <3>1. CASE runner[r].worker_ = NoWorker
      BY <1>1, <1>4, <3>1 DEF DestroyRunner
    <3>2. CASE runner[r].worker_ # NoWorker
      <4>1. runner[r].worker_ \in Workers /\ WorkerDestroySpecific(runner[r].worker_, r)
        BY <1>2, <1>4, <3>2 DEF DestroyRunner, RunnerRecords
      <4> QED BY <4>1, Destroyed
    <3> QED BY <3>1, <3>2
  <2> HIDE DEF rec
  <2> QED BY <2>1, <2>2, <2>3, RunnerStep
<1> QED BY <1>3, <1>30, <1>4

\* RemoveSubTaskRunner after its first step.
LEMMA UnBindSubSteps ==
  ASSUME TypeOK, Sized, Placed, NEW s \in Runners,
         UnBindSub(s) \/ UnBindSubPending(s) \/ ClearHasSubRunner(s)
  PROVE  Placed' /\ Typed'
<1> DEFINE w == unbinding[s].worker
<1>1. /\ runner \in [Runners -> RunnerRecords] /\ history \in [Causes -> SUBSET Runners]
      /\ worker \in [Workers -> WorkerRecords] /\ balance \in BalanceRecords
      /\ unbinding[s] \in UnBindRecords
  BY TypeParts DEF Extras
<1>2. /\ {w} \in SUBSET Workers /\ unbinding[s].cause \in {"none", "missed", "slipped"}
      /\ unbinding[s].father \in Runners
  BY <1>1 DEF UnBindRecords
<1>3. CASE UnBindSub(s)
  <2>1. CASE UNCHANGED <<worker, runner, history>>
    BY <1>3, <2>1, SameStep DEF UnBindSub
  <2>2. CASE InRunning({w}, s) /\ UnBindRunning({w}, s) /\ UnBound(s, TRUE, "none")
    <3>1. UNCHANGED <<balance, index_>>
      BY <1>3 DEF UnBindSub
    <3>2. UnBindIn({w}, s)
      BY <1>2, <2>2, Searches
    <3> QED BY <2>2, <3>1, <3>2, UnBindStep
  <2> QED BY <1>3, <2>1, <2>2 DEF UnBindSub
<1>4. CASE UnBindSubPending(s)
  <2>1. /\ UnBindPending({w}, s) /\ UnBound(s, InPending({w}, s), unbinding[s].cause)
        /\ UNCHANGED <<balance, index_>>
    BY <1>4 DEF UnBindSubPending
  <2>2. UnBindIn({w}, s) \/ worker' = worker
    BY <1>2, <2>1, Searches
  <2> HIDE DEF w
  <2> QED BY <1>2, <2>1, <2>2, UnBindStep
<1>5. CASE ClearHasSubRunner(s)
  <2> DEFINE f == unbinding[s].father
  <2>1. /\ runner' = [runner EXCEPT ![f].has_sub_runner = FALSE]
        /\ UNCHANGED <<worker, balance, index_>>
    BY <1>5 DEF ClearHasSubRunner
  <2>2. /\ history' \in [Causes -> SUBSET Runners]
        /\ history'["dropped"] = history["dropped"]
        /\ history'["strayed"] = history["strayed"]
    <3> DEFINE A == Above(f)
    <3>1. history' = [history EXCEPT
            !["cleared"] = IF A \subseteq {s} THEN @ ELSE @ \union {f}]
      BY <1>5 DEF ClearHasSubRunner
    <3> HIDE DEF A
    <3> QED BY <1>1, <1>2, <3>1 DEF Causes
  <2> HIDE DEF f
  <2>3. /\ runner' \in [Runners -> RunnerRecords]
        /\ \A q \in Runners : /\ runner'[q].worker_ = runner[q].worker_
                              /\ runner'[q].life = runner[q].life
    BY <1>1, <2>1 DEF RunnerRecords
  <2> QED BY <1>1, <2>1, <2>2, <2>3, FlagStep DEF Typed
<1> QED BY <1>3, <1>4, <1>5

LEMMA SubSteps ==
  ASSUME TypeOK, Sized, Placed, NEW f \in Runners, NEW s \in Runners,
         \/ AddSubTaskRunner(f, s) \/ AddBoundTaskRunner(f, s)
         \/ RemoveSubTaskRunner(f, s)
  PROVE  Placed' /\ Typed'
<1> DEFINE w == runner[f].worker_
<1>1. /\ worker \in [Workers -> WorkerRecords] /\ runner \in [Runners -> RunnerRecords]
      /\ balance \in BalanceRecords /\ history \in [Causes -> SUBSET Runners]
  BY TypeParts
<1>2. w # NoWorker => w \in Workers
  BY <1>1 DEF RunnerRecords
<1>3. CASE AddSubTaskRunner(f, s)
  <2>1. CASE Fail("bind_end")
    BY <2>1, SameStep DEF Fail
  <2>2. CASE ~Fail("bind_end")
    <3>1. /\ runner[f].life = "bound" /\ runner[s].life = "loose" /\ w \in Workers
          /\ f \in BoundTo(w) /\ BindGroup(w, f, s)
          /\ runner' = [runner EXCEPT ![f].has_sub_runner = TRUE, ![s].life = "bound"]
          /\ UNCHANGED <<index_, balance, history>>
      BY <1>2, <1>3, <2>2 DEF AddSubTaskRunner
    <3>2. runner[s].worker_ = NoWorker /\ Early(s) /\ f # s
      BY <3>1 DEF Placed, Pointed, Early
    <3>3. /\ runner' \in [Runners -> RunnerRecords]
          /\ runner'[s].life = "bound" /\ runner'[s].worker_ = NoWorker
          /\ \A q \in Runners : q = s \/ /\ runner'[q].worker_ = runner[q].worker_
                                         /\ runner'[q].life = runner[q].life
      BY <1>1, <3>1, <3>2 DEF RunnerRecords
    <3> HIDE DEF w
    <3>4. Placed' /\ worker' \in [Workers -> WorkerRecords]
      BY <3>1, <3>2, <3>3, PushStep
    <3> QED BY <1>1, <3>1, <3>3, <3>4 DEF Typed
  <2> QED BY <2>1, <2>2
<1>4. CASE RemoveSubTaskRunner(f, s)
  BY <1>4, SameStep DEF RemoveSubTaskRunner
<1>5. CASE AddBoundTaskRunner(f, s)
  BY <1>5, SameStep DEF AddBoundTaskRunner, Fail
<1> QED BY <1>3, <1>4, <1>5

\* Balance, and the calls that begin it, change nothing but its own variables.
LEMMA CallStep ==
  ASSUME TypeOK, Sized, Placed, balance' \in BalanceRecords,
         balance'.groups = balance.groups,
         balance.step # "repoint", balance'.step # "repoint",
         UNCHANGED <<worker, runner, history>>
  PROVE  Placed' /\ Typed'
<1>1. Typed
  BY TypeParts DEF Typed
<1>2. Quiet
  BY DEF Quiet, Still, Held
<1> QED BY <1>1, <1>2, QuietStep DEF Typed

LEMMA ManagerSteps ==
  ASSUME TypeOK, Sized, Placed, ManagerCall
  PROVE  Placed' /\ Typed'
<1> USE SizesAssumption
<1>1. NoBalance \in BalanceRecords
  BY NoBalanceType
<1>2. /\ size_ \in 1..MaxWorkers /\ count \in 1..MaxWorkers /\ size_ <= count
  BY TypeParts DEF Numbers, Sized
<1>3. ASSUME NEW n \in Nat, Change(n)
      PROVE  balance = NoBalance /\ n \in 0..MaxWorkers
  BY <1>2, <1>3 DEF Change, Unlocked, Sized
<1>4. ASSUME NEW n \in Sizes, ResizeUp(n) PROVE Placed' /\ Typed'
  <2>1. balance = NoBalance /\ n \in 0..MaxWorkers /\ UNCHANGED <<worker, runner, history>>
    BY <1>3, <1>4 DEF ResizeUp
  <2>2. /\ balance' \in BalanceRecords /\ balance'.groups = NoBalance.groups
        /\ balance'.step = "create"
    BY <1>1, <1>4, <2>1 DEF ResizeUp, BalanceRecords
  <2>3. balance.step = "none"
    BY <2>1 DEF NoBalance
  <2> QED BY <2>1, <2>2, <2>3, CallStep
<1>5. ASSUME NEW n \in Sizes, ResizeDown(n) PROVE Placed' /\ Typed'
  <2>1. balance = NoBalance /\ n \in 0..MaxWorkers /\ UNCHANGED <<worker, runner, history>>
    BY <1>3, <1>5 DEF ResizeDown
  <2>2. size_ - 1 \in (-1)..MaxWorkers /\ size_ - n \in Int
    BY <1>2, <2>1
  <2>3. /\ balance' \in BalanceRecords /\ balance'.groups = NoBalance.groups
        /\ balance'.step = "unbind"
    BY <1>1, <1>5, <2>1, <2>2 DEF ResizeDown, BalanceRecords
  <2>4. balance.step = "none"
    BY <2>1 DEF NoBalance
  <2> QED BY <2>1, <2>3, <2>4, CallStep
<1>6. ASSUME AddWorker PROVE Placed' /\ Typed'
  <2>1. /\ balance = NoBalance /\ size_ + 1 \in 0..MaxWorkers
        /\ UNCHANGED <<worker, runner, history>>
    BY <1>2, <1>3, <1>6 DEF AddWorker
  <2>2. /\ balance' \in BalanceRecords /\ balance'.groups = NoBalance.groups
        /\ balance'.step = "count"
    BY <1>1, <1>6, <2>1 DEF AddWorker, BalanceRecords
  <2>3. balance.step = "none"
    BY <2>1 DEF NoBalance
  <2> QED BY <2>1, <2>2, <2>3, CallStep
<1>7. ASSUME NEW w \in Workers, Terminate(w) PROVE Placed' /\ Typed'
  <2> DEFINE rec == [worker[w] EXCEPT !.ended = TRUE]
  <2>1. worker \in [Workers -> WorkerRecords] /\ history \in [Causes -> SUBSET Runners]
    BY TypeParts
  <2>2. worker' = [worker EXCEPT ![w] = rec]
        /\ UNCHANGED <<index_, runner, balance, history>>
    BY <1>7, <2>1 DEF Terminate
  <2>3. rec \in WorkerRecords /\ rec.running = worker[w].running
        /\ rec.pending = worker[w].pending
    BY <2>1 DEF WorkerRecords
  <2> HIDE DEF rec
  <2>4. /\ worker' \in [Workers -> WorkerRecords]
        /\ \A v \in Workers : /\ worker'[v].running = worker[v].running
                              /\ worker'[v].pending = worker[v].pending
    BY <2>2, <2>3, Replaced
  <2> QED BY <2>1, <2>2, <2>4, AsideStep
<1> QED BY <1>4, <1>5, <1>6, <1>7 DEF ManagerCall

\* Balance takes the pending groups of worker w.
LEMMA PendingTaken ==
  ASSUME TypeOK, Sized, Placed, NEW w \in Workers, worker' = TakePending(w),
         balance'.groups = balance.groups \o worker[w].pending,
         balance.step # "repoint", balance'.step # "repoint",
         UNCHANGED <<runner, history>>
  PROVE  /\ Placed' /\ balance'.groups \in Lists
         /\ worker' \in [Workers -> WorkerRecords] /\ AllGroups' = AllGroups
<1> DEFINE rec == [worker[w] EXCEPT !.pending = <<>>]
           x == <<"pending", w>>
<1>1. worker \in [Workers -> WorkerRecords]
  BY TypeParts
<1>2. worker' = [worker EXCEPT ![w] = rec]
  BY <1>1 DEF TakePending
<1>3. rec \in WorkerRecords /\ rec.running = worker[w].running /\ rec.pending = <<>>
  <2>1. <<>> \in Lists
    BY DEF Lists
  <2> QED BY <1>1, <2>1 DEF WorkerRecords
<1> HIDE DEF rec
<1>4. /\ worker' \in [Workers -> WorkerRecords] /\ worker'[w] = rec
      /\ \A v \in Workers : v # w => worker'[v] = worker[v]
  BY <1>2, <1>3, Replaced
<1>5. OnlyAt(x, HeldSite)
  BY <1>3, <1>4 DEF OnlyAt
<1>6. /\ x \in {<<"running", w>>, <<"pending", w>>}
      /\ Place'[x] = <<>> /\ balance'.groups = balance.groups \o Place[x]
  BY <1>3, <1>4, PlaceFacts, NextPlaceFacts
<1> HIDE DEF x
<1> QED BY <1>4, <1>5, <1>6, TakeStep

\* ... or the running ones.
LEMMA RunningTaken ==
  ASSUME TypeOK, Sized, Placed, NEW w \in Workers,
         worker' = [worker EXCEPT ![w].running = <<>>],
         balance'.groups = balance.groups \o worker[w].running,
         balance.step # "repoint", balance'.step # "repoint",
         UNCHANGED <<runner, history>>
  PROVE  /\ Placed' /\ balance'.groups \in Lists
         /\ worker' \in [Workers -> WorkerRecords] /\ AllGroups' = AllGroups
<1> DEFINE rec == [worker[w] EXCEPT !.running = <<>>]
           x == <<"running", w>>
<1>1. worker \in [Workers -> WorkerRecords]
  BY TypeParts
<1>2. worker' = [worker EXCEPT ![w] = rec]
  BY <1>1
<1>3. rec \in WorkerRecords /\ rec.pending = worker[w].pending /\ rec.running = <<>>
  <2>1. <<>> \in Lists
    BY DEF Lists
  <2> QED BY <1>1, <2>1 DEF WorkerRecords
<1> HIDE DEF rec
<1>4. /\ worker' \in [Workers -> WorkerRecords] /\ worker'[w] = rec
      /\ \A v \in Workers : v # w => worker'[v] = worker[v]
  BY <1>2, <1>3, Replaced
<1>5. OnlyAt(x, HeldSite)
  BY <1>3, <1>4 DEF OnlyAt
<1>6. /\ x \in {<<"running", w>>, <<"pending", w>>}
      /\ Place'[x] = <<>> /\ balance'.groups = balance.groups \o Place[x]
  BY <1>3, <1>4, PlaceFacts, NextPlaceFacts
<1> HIDE DEF x
<1> QED BY <1>4, <1>5, <1>6, TakeStep

LEMMA BalanceSteps ==
  ASSUME TypeOK, Sized, Placed, BalanceStep
  PROVE  Placed' /\ Typed'
<1> USE SizesAssumption
<1>1. /\ worker \in [Workers -> WorkerRecords] /\ runner \in [Runners -> RunnerRecords]
      /\ balance \in BalanceRecords /\ history \in [Causes -> SUBSET Runners]
      /\ NoBalance \in BalanceRecords
  BY TypeParts, NoBalanceType
<1>2. /\ balance.i \in (-1)..MaxWorkers /\ size_ \in 1..MaxWorkers /\ index_ \in Nat
      /\ balance.target \in 0..MaxWorkers /\ balance.reduce_size \in Int
      /\ balance.groups_size \in Nat /\ balance.groups \in Lists
      /\ balance.cur_worker_group \in [Workers -> Nat]
  BY <1>1, TypeParts DEF Numbers, BalanceRecords
<1>3. ASSUME NEW w \in Workers PROVE Len(worker[w].running) \in Nat
  BY <1>1, ListTypes DEF WorkerRecords
<1>4. CASE CreateWorkers
  <2>1. /\ balance' \in BalanceRecords /\ balance'.groups = balance.groups
        /\ balance'.step = "count" /\ balance.step = "create"
    BY <1>1, <1>4 DEF CreateWorkers, BalanceRecords
  <2> QED BY <1>4, <2>1, CallStep DEF CreateWorkers
<1>5. CASE CountGroups
  <2> DEFINE n == balance.groups_size + Len(worker[balance.i].running)
  <2>1. balance.step = "count" /\ balance.i \in Workers
    BY <1>5, InWorkers DEF CountGroups
  <2>2. n \in Nat
    BY <1>2, <1>3, <2>1
  <2>3. balance' = [balance EXCEPT !.groups_size = n, !.step = "retain"]
    BY <1>1, <1>5 DEF CountGroups
  <2> HIDE DEF n
  <2>4. /\ balance' \in BalanceRecords /\ balance'.groups = balance.groups
        /\ balance'.step = "retain"
    BY <1>1, <2>2, <2>3 DEF BalanceRecords
  <2> QED BY <1>5, <2>1, <2>4, CallStep DEF CountGroups
<1>6. CASE Retain
  <2>1. CASE Fail("iterator")
    BY <2>1, SameStep DEF Fail
  <2>2. CASE ~Fail("iterator")
    <3> DEFINE w == balance.i
               gs == balance.groups \o worker[w].pending
    <3>1. balance.step = "retain" /\ w \in Workers /\ worker' = TakePending(w)
          /\ balance' = [balance EXCEPT !.groups = gs, !.step = "recount"]
          /\ UNCHANGED <<runner, history>>
      BY <1>6, <2>2, InWorkers DEF Retain
    <3> HIDE DEF gs, w
    <3>2. balance'.groups = gs /\ balance'.step = "recount"
      BY <1>1, <3>1 DEF BalanceRecords
    <3>3. Placed' /\ gs \in Lists /\ worker' \in [Workers -> WorkerRecords]
      BY <3>1, <3>2, PendingTaken DEF gs
    <3>4. balance' \in BalanceRecords
      BY <1>1, <3>1, <3>3 DEF BalanceRecords
    <3> QED BY <1>1, <3>1, <3>3, <3>4 DEF Typed
  <2> QED BY <2>1, <2>2
<1>7. CASE Recount
  <2> DEFINE n == Len(worker[balance.i].running)
             j == IF balance.i + 1 = size_ THEN 0 ELSE balance.i + 1
             step == IF balance.i + 1 = size_ THEN "deal" ELSE "count"
             cur == [balance.cur_worker_group EXCEPT ![balance.i] = n]
  <2>1. /\ balance.step = "recount" /\ balance.i \in Workers
        /\ 0 <= balance.i /\ balance.i < size_
    BY <1>7, InWorkers DEF Recount, Sized
  <2>2. n \in Nat /\ cur \in [Workers -> Nat]
    BY <1>2, <1>3, <2>1
  <2>3. j \in (-1)..MaxWorkers /\ step \in {"deal", "count"}
    BY <1>2, <2>1
  <2>4. balance' = [balance EXCEPT !.cur_worker_group = cur, !.i = j, !.step = step]
    BY <1>1, <1>7 DEF Recount
  <2> HIDE DEF cur, j, step, n
  <2>5. /\ balance' \in BalanceRecords /\ balance'.groups = balance.groups
        /\ balance'.step = step
    BY <1>1, <2>2, <2>3, <2>4 DEF BalanceRecords
  <2>6. step # "repoint"
    BY <2>3
  <2> QED BY <1>7, <2>1, <2>5, <2>6, CallStep DEF Recount
<1>8. CASE Deal
  <2>1. CASE Fail("no_worker")
    BY <2>1, SameStep DEF Fail
  <2>2. CASE ~Fail("no_worker")
    BY <1>1, <1>8, <2>2, DealStep DEF Typed
  <2> QED BY <2>1, <2>2
<1>9. CASE UnBindWorker
  <2>1. CASE Fail("before_begin")
    BY <2>1, SameStep DEF Fail
  <2>2. CASE balance.i >= 0 /\ balance' = [balance EXCEPT !.i = @ - 1]
             /\ UNCHANGED <<worker, runner, history>>
    <3>1. balance.i - 1 \in (-1)..MaxWorkers /\ balance.step = "unbind"
      BY <1>2, <1>9, <2>2 DEF UnBindWorker
    <3>2. /\ balance' \in BalanceRecords /\ balance'.groups = balance.groups
          /\ balance'.step = balance.step
      BY <1>1, <2>2, <3>1 DEF BalanceRecords
    <3> QED BY <2>2, <3>1, <3>2, CallStep
  <2>3. CASE /\ balance.i >= 0
             /\ worker' = [worker EXCEPT ![balance.i].running = <<>>]
             /\ balance' = [balance EXCEPT !.groups = @ \o worker[balance.i].running,
                                           !.step = "unbind_pending"]
             /\ UNCHANGED <<runner, history>>
    <3> DEFINE w == balance.i
               gs == balance.groups \o worker[w].running
    <3>1. balance.step = "unbind" /\ w \in Workers
          /\ worker' = [worker EXCEPT ![w].running = <<>>]
          /\ balance' = [balance EXCEPT !.groups = gs, !.step = "unbind_pending"]
      BY <1>9, <2>3, InWorkers DEF UnBindWorker
    <3> HIDE DEF gs, w
    <3>2. balance'.groups = gs /\ balance'.step = "unbind_pending"
      BY <1>1, <3>1 DEF BalanceRecords
    <3>3. Placed' /\ gs \in Lists /\ worker' \in [Workers -> WorkerRecords]
      BY <2>3, <3>1, <3>2, RunningTaken DEF gs
    <3>4. balance' \in BalanceRecords
      BY <1>1, <3>1, <3>3 DEF BalanceRecords
    <3> QED BY <1>1, <2>3, <3>3, <3>4 DEF Typed
  <2> QED BY <1>9, <2>1, <2>2, <2>3 DEF UnBindWorker
<1>10. CASE UnBindWorkerPending
  <2> DEFINE w == balance.i
             gs == balance.groups \o worker[w].pending
  <2>1. /\ balance.step = "unbind_pending" /\ w \in Workers /\ worker' = TakePending(w)
        /\ balance' = [balance EXCEPT !.groups = gs, !.i = w - 1,
                                      !.reduce_size = balance.reduce_size - 1,
                                      !.step = "unbind"]
        /\ UNCHANGED <<runner, history>>
    BY <1>1, <1>10, InWorkers DEF UnBindWorkerPending
  <2>2. w - 1 \in (-1)..MaxWorkers /\ balance.reduce_size - 1 \in Int
    <3>1. PICK k \in Workers : k = w
      BY <2>1
    <3>2. k - 1 \in (-1)..MaxWorkers
      BY DEF Workers
    <3>3. PICK n \in Int : n = balance.reduce_size
      BY <1>2
    <3> QED BY <3>1, <3>2, <3>3
  <2> HIDE DEF gs, w
  <2>3. balance'.groups = gs /\ balance'.step = "unbind"
    BY <1>1, <2>1 DEF BalanceRecords
  <2>4. Placed' /\ gs \in Lists /\ worker' \in [Workers -> WorkerRecords]
    BY <2>1, <2>3, PendingTaken DEF gs
  <2>5. balance' \in BalanceRecords
    BY <1>1, <2>1, <2>2, <2>4 DEF BalanceRecords
  <2> QED BY <1>1, <2>1, <2>4, <2>5 DEF Typed
<1>11. CASE UnBindEnd
  <2>1. CASE Fail("check")
    BY <2>1, SameStep DEF Fail
  <2>2. CASE ~Fail("check")
    <3>1. /\ balance.step = "unbind" /\ balance' = [balance EXCEPT !.i = 0, !.step = "keep"]
          /\ UNCHANGED <<worker, runner, history>>
      BY <1>11, <2>2 DEF UnBindEnd
    <3>2. /\ balance' \in BalanceRecords /\ balance'.groups = balance.groups
          /\ balance'.step = "keep"
      <4>1. 0 \in (-1)..MaxWorkers
        BY SizesAssumption
      <4> QED BY <1>1, <3>1, <4>1 DEF BalanceRecords
    <3> QED BY <3>1, <3>2, CallStep
  <2> QED BY <2>1, <2>2
<1>12. CASE Keep
  <2>1. CASE Fail("iterator")
    BY <2>1, SameStep DEF Fail
  <2>2. CASE ~Fail("iterator")
    <3> DEFINE w == balance.i
               gs == balance.groups \o worker[w].pending
               step == IF w + 1 = balance.target THEN "rebind" ELSE "keep"
    <3>1. balance.step = "keep" /\ w \in Workers /\ worker' = TakePending(w)
          /\ balance' = [balance EXCEPT !.groups = gs, !.i = w + 1, !.step = step]
          /\ UNCHANGED <<runner, history>>
      BY <1>1, <1>12, <2>2, InWorkers DEF Keep
    <3>2. w + 1 \in (-1)..MaxWorkers /\ step \in {"rebind", "keep"}
      BY <1>2, <3>1 DEF Workers
    <3> HIDE DEF gs, w, step
    <3>3. balance'.groups = gs /\ balance'.step = step /\ step # "repoint"
      BY <1>1, <3>1, <3>2 DEF BalanceRecords
    <3>4. Placed' /\ gs \in Lists /\ worker' \in [Workers -> WorkerRecords]
      BY <3>1, <3>3, PendingTaken DEF gs
    <3>5. balance' \in BalanceRecords
      BY <1>1, <3>1, <3>2, <3>4 DEF BalanceRecords
    <3> QED BY <1>1, <3>1, <3>4, <3>5 DEF Typed
  <2> QED BY <2>1, <2>2
<1>13. CASE Rebind
  <2>1. CASE Fail("out_of_range") \/ Fail("empty_group")
    BY <2>1, SameStep DEF Fail
  <2>2. CASE ~Fail("out_of_range") /\ ~Fail("empty_group")
    <3>1. /\ balance.step = "rebind" /\ balance.groups # <<>> /\ index_ < count
          /\ Head(balance.groups) # <<>> /\ worker' = Bind(index_, Head(balance.groups))
          /\ balance' = [balance EXCEPT !.step = "repoint"]
          /\ UNCHANGED <<index_, runner, history>>
      BY <1>13, <2>2 DEF Rebind
    <3>2. /\ Placed' /\ worker' \in [Workers -> WorkerRecords]
          /\ balance' \in BalanceRecords
      BY <3>1, RebindStep
    <3> QED BY <1>1, <3>1, <3>2 DEF Typed
  <2> QED BY <2>1, <2>2
<1>14. CASE Repoint
  BY <1>14, RepointStep DEF Typed
<1>15. CASE ShrinkEnd
  <2>1. /\ balance.step = "rebind" /\ balance.groups = <<>> /\ balance' = NoBalance
        /\ UNCHANGED <<worker, runner, history>>
    BY <1>15 DEF ShrinkEnd
  <2>2. NoBalance.groups = <<>> /\ NoBalance.step = "none"
    BY DEF NoBalance
  <2> QED BY <1>1, <2>1, <2>2, CallStep
<1> QED BY <1>4, <1>5, <1>6, <1>7, <1>8, <1>9, <1>10, <1>11, <1>12, <1>13, <1>14, <1>15
      DEF BalanceStep

-----------------------------------------------------------------------------
(* The theorems. *)

\* need_balance_ is set or cleared, and an UnBind goes on.
LEMMA ExtrasStep ==
  ASSUME TypeOK, Sized, [Next]_vars
  PROVE  Extras'
<1> USE DEF Extras
<1>0. Extras /\ runner \in [Runners -> RunnerRecords] /\ worker \in [Workers -> WorkerRecords]
      /\ balance \in BalanceRecords
  BY TypeParts
<1>1. CASE UNCHANGED <<flags, removals>>
  BY <1>0, <1>1 DEF flags, removals
<1>2. ASSUME NEW why, Fail(why) PROVE Extras'
  BY <1>1, <1>2 DEF Fail
<1>3. ASSUME NEW w, NEW rs \in SUBSET Runners, SetNeedBalance(w, rs), UNCHANGED removals
      PROVE  Extras'
  BY <1>0, <1>3 DEF SetNeedBalance, removals
<1>4. ASSUME NEW w \in Workers, ThreadStep(w) PROVE Extras'
  BY <1>0, <1>1, <1>2, <1>4 DEF ThreadStep, Schedule, ClearNeedBalance, RunImmediateTask, removals
<1>5. ASSUME NEW w \in Workers, NEW r \in Runners, TaskStep(w, r) PROVE Extras'
  BY <1>1, <1>2, <1>5 DEF TaskStep, UseSpecificsUnbound, RunnerDestroySpecifics
<1>6. ASSUME NEW r \in Runners, RunnerCall(r) PROVE Extras'
  <2>1. CASE CreateLoose(r) \/ CreateInGroup(r) \/ PickWorker(r)
    BY <1>1, <1>2, <2>1 DEF CreateLoose, CreateInGroup, PickWorker
  <2>2. CASE CreateInNoGroup(r) \/ BindPicked(r)
    <3>1. {r} \in SUBSET Runners
      OBVIOUS
    <3> QED BY <1>2, <1>3, <2>2, <3>1 DEF CreateInNoGroup, AddTaskRunner, BindPicked
  <2>3. CASE RemoveTaskRunner(r) \/ RemoveFromPending(r)
    BY <1>0, <2>3 DEF RemoveTaskRunner, RemoveFromPending, flags
  <2>4. CASE UnBindSub(r) \/ UnBindSubPending(r) \/ ClearHasSubRunner(r)
    <3>1. unbinding[r] \in UnBindRecords /\ unbinding[r].worker \in Workers
      BY <1>0 DEF UnBindRecords
    <3>2. 0 \in Workers
      BY SizesAssumption DEF Workers
    <3>3. unbinding' \in [Runners -> UnBindRecords]
      <4>1. CASE UnBindSub(r)
        <5>1. PICK t \in {"flag", "pending"}, c \in {"none", "missed", "slipped"} :
                \/ unbinding' = [unbinding EXCEPT ![r].step = t]
                \/ unbinding' = [unbinding EXCEPT ![r].step = t, ![r].cause = c]
          <6>1. CASE unbinding' = [unbinding EXCEPT ![r].step = "flag"]
            BY <6>1
          <6>2. CASE unbinding' # [unbinding EXCEPT ![r].step = "flag"]
            BY <4>1, <6>2 DEF UnBindSub
          <6> QED BY <6>1, <6>2
        <5> QED BY <1>0, <3>1, <5>1 DEF UnBindRecords
      <4>2. CASE UnBindSubPending(r)
        BY <1>0, <3>1, <4>2 DEF UnBindSubPending, UnBindRecords
      <4>3. CASE ClearHasSubRunner(r)
        <5>1. NoUnBind(r) \in UnBindRecords
          BY <3>2 DEF NoUnBind, UnBindRecords
        <5> QED BY <1>0, <4>3, <5>1 DEF ClearHasSubRunner
      <4> QED BY <2>4, <4>1, <4>2, <4>3
    <3>4. UNCHANGED <<flags, removing>>
      BY <2>4 DEF UnBindSub, UnBindSubPending, ClearHasSubRunner
    <3> QED BY <1>0, <3>3, <3>4 DEF flags
  <2>5. ASSUME NEW s \in Runners, AddSubTaskRunner(r, s) \/ AddBoundTaskRunner(r, s)
        PROVE  Extras'
    BY <1>1, <1>2, <2>5 DEF AddSubTaskRunner, AddBoundTaskRunner
  <2>6. ASSUME NEW s \in Runners, RemoveSubTaskRunner(r, s) PROVE Extras'
    <3> DEFINE rec == [step |-> "running", father |-> r, worker |-> runner[r].worker_,
                       cause |-> "none"]
    <3>1. rec \in UnBindRecords
      BY <1>0, <2>6 DEF RemoveSubTaskRunner, UnBindRecords, RunnerRecords
    <3>2. unbinding' = [unbinding EXCEPT ![s] = rec] /\ UNCHANGED <<flags, removing>>
      BY <2>6 DEF RemoveSubTaskRunner
    <3> HIDE DEF rec
    <3> QED BY <1>0, <3>1, <3>2 DEF flags
  <2> QED BY <1>6, <2>1, <2>2, <2>3, <2>4, <2>5, <2>6 DEF RunnerCall
<1>7. ASSUME NEW r \in Runners, DestroyRunner(r) PROVE Extras'
  BY <1>1, <1>7 DEF DestroyRunner
<1>8. CASE BalanceStep
  <2>1. CASE Deal
    <3> DEFINE w == (size_ + balance.i) % balance.target
               moved == RunnersOf(SubSeq(balance.groups, 1, Share(w)))
    <3>1. Fail("no_worker") \/ (SetNeedBalance(w, moved) /\ UNCHANGED removals)
      BY <2>1 DEF Deal
    <3>2. overwritten' \subseteq Runners \/ ~SetNeedBalance(w, moved)
      <4>1. SubSeq(balance.groups, 1, Share(w)) \in Lists
        <5>1. Share(w) \in 0..Len(balance.groups) /\ balance.groups \in Seq(Seq(Runners))
          BY <1>0, <2>1, Turn DEF Deal, BalanceRecords, Lists
        <5> QED BY <5>1 DEF Lists
      <4>2. moved \subseteq Runners
        BY <4>1, ListTypes
      <4> QED BY <1>0, <4>2 DEF SetNeedBalance
    <3> HIDE DEF w, moved
    <3>3. ASSUME SetNeedBalance(w, moved), UNCHANGED removals PROVE Extras'
      BY <1>0, <3>2, <3>3 DEF SetNeedBalance, removals
    <3> QED BY <1>2, <3>1, <3>3
  <2>2. CASE Rebind
    <3> DEFINE moved == Range(Head(balance.groups))
    <3>1. \/ Fail("out_of_range") \/ Fail("empty_group")
          \/ SetNeedBalance(index_, moved) /\ UNCHANGED removals /\ balance.groups # <<>>
      BY <2>2 DEF Rebind
    <3>2. balance.groups # <<>> => moved \in SUBSET Runners
      <4>1. balance.groups # <<>> => Head(balance.groups) \in Seq(Runners)
        BY <1>0 DEF BalanceRecords, Lists
      <4> QED BY <4>1 DEF Range
    <3> HIDE DEF moved
    <3> QED BY <1>2, <1>3, <3>1, <3>2
  <2>3. CASE ~Deal /\ ~Rebind
    BY <1>1, <1>2, <1>8, <2>3 DEF BalanceStep, CreateWorkers, CountGroups, Retain, Recount,
         UnBindWorker, UnBindWorkerPending, UnBindEnd, Keep, Repoint, ShrinkEnd
  <2> QED BY <2>1, <2>2, <2>3
<1>9. CASE ManagerCall
  BY <1>1, <1>9 DEF ManagerCall, ResizeUp, ResizeDown, AddWorker, Terminate
<1>10. CASE Ended \/ UNCHANGED vars
  BY <1>1, <1>10 DEF Ended, vars
<1> QED BY <1>4, <1>5, <1>6, <1>7, <1>8, <1>9, <1>10 DEF Next

LEMMA InitInv == Init => Inv
<1> SUFFICES ASSUME Init PROVE Inv
  OBVIOUS
<1> USE SizesAssumption
<1>1. PICK cast \in Casts :
        /\ worker \in [Workers -> {NewWorker(g) : g \in GroupIds(cast)}]
        /\ runner = [r \in Runners |->
                      [worker_ |-> NoWorker, has_sub_runner |-> FALSE,
                       life |-> IF r \in cast THEN "new" ELSE "absent"]]
  BY DEF Init
<1>2. /\ count = InitialSize /\ size_ = InitialSize /\ index_ = 0 /\ changes = 0
      /\ balance = NoBalance /\ status = "ok" /\ history = [c \in Causes |-> {}]
  BY DEF Init
<1>3. /\ balance \in BalanceRecords /\ balance.step = "none" /\ balance.i = 0
      /\ balance.target = 0 /\ balance.groups = <<>> /\ balance.reduce_size = 0
  BY <1>2, NoBalanceType DEF NoBalance
<1>4. Numbers
  BY <1>2, <1>3 DEF Numbers, Steps, Statuses
<1>5. Sized /\ Indexed /\ Reduced
  BY <1>2, <1>3 DEF Sized, Indexed, Reduced, Growing, Shrinking, Unlocked
<1>6. GroupIds(cast) \subseteq GroupIds(Runners)
  BY CastsAssumption DEF GroupIds
<1>7. \A g \in GroupIds(Runners) :
        /\ NewWorker(g) \in WorkerRecords
        /\ NewWorker(g).running = <<>> /\ NewWorker(g).pending = <<>>
  BY DEF NewWorker, WorkerRecords, Lists
<1>8. /\ worker \in [Workers -> WorkerRecords]
      /\ \A w \in Workers : worker[w].running = <<>> /\ worker[w].pending = <<>>
  BY <1>1, <1>6, <1>7
<1>9. /\ runner \in [Runners -> RunnerRecords]
      /\ \A r \in Runners : /\ runner[r].life \in {"new", "absent"}
                            /\ runner[r].worker_ = NoWorker
  BY <1>1 DEF RunnerRecords
<1>10. history \in [Causes -> SUBSET Runners] /\ history["dropped"] = {}
  BY <1>2 DEF Causes
<1>11. TypeOK
  <2>1. 0 \in Workers
    BY DEF Workers
  <2>2. \A r \in Runners : NoUnBind(r) \in UnBindRecords
    BY <2>1 DEF NoUnBind, UnBindRecords
  <2>3. Extras
    BY <2>2 DEF Init, Extras
  <2> QED BY <1>3, <1>4, <1>8, <1>9, <1>10, <2>3, TypeParts
<1>12. Held = <<>>
  BY <1>3 DEF Held
<1>13. \A a \in Sites : Place[a] = <<>>
  <2> TAKE a \in Sites
  <2>1. CASE a = HeldSite
    BY <1>12, <2>1, PlaceFacts
  <2>2. CASE \E w \in Workers : a = <<"running", w>>
    BY <1>8, <2>2, PlaceFacts
  <2>3. CASE \E w \in Workers : a = <<"pending", w>>
    BY <1>8, <2>3, PlaceFacts
  <2> QED BY <2>1, <2>2, <2>3, SiteFacts
<1>14. Apart /\ \A r : ~Somewhere(r)
  BY <1>13, EmptyList DEF Apart, Parted, Somewhere, In
<1>15. RunnersOf(balance.groups) = {}
  BY <1>3, EmptyList
<1>16. Lives
  BY <1>9, <1>10, <1>14, <1>15 DEF Lives
<1>17. Pointed /\ WorkerPointer
  BY <1>3, <1>9 DEF Pointed, WorkerPointer
<1> QED BY <1>5, <1>11, <1>14, <1>16, <1>17 DEF Inv

LEMMA InvStep == Inv /\ [Next]_vars => Inv'
<1> SUFFICES ASSUME Inv, [Next]_vars PROVE Inv'
  OBVIOUS
<1>1. TypeOK /\ Sized /\ Placed /\ Ranged
  BY TypeParts DEF Inv, Placed, Ranged
<1>2. Ranged'
  BY <1>1, RangedStep
<1>3. Placed' /\ Typed'
  <2>1. ASSUME NEW w \in Workers, ThreadStep(w) PROVE Placed' /\ Typed'
    BY <1>1, <2>1, ThreadSteps
  <2>2. ASSUME NEW w \in Workers, NEW r \in Runners, TaskStep(w, r) PROVE Placed' /\ Typed'
    BY <1>1, <2>2, TaskSteps
  <2>3. ASSUME NEW r \in Runners, RunnerCall(r) PROVE Placed' /\ Typed'
    <3>1. CASE \/ CreateLoose(r) \/ CreateInNoGroup(r) \/ CreateInGroup(r)
               \/ PickWorker(r) \/ BindPicked(r)
      BY <1>1, <3>1, CreateSteps
    <3>2. CASE RemoveTaskRunner(r) \/ RemoveFromPending(r)
      BY <1>1, <3>2, RemoveSteps
    <3>3. ASSUME NEW s \in Runners, \/ AddSubTaskRunner(r, s) \/ AddBoundTaskRunner(r, s)
                                   \/ RemoveSubTaskRunner(r, s)
          PROVE  Placed' /\ Typed'
      BY <1>1, <3>3, SubSteps
    <3>4. CASE UnBindSub(r) \/ UnBindSubPending(r) \/ ClearHasSubRunner(r)
      BY <1>1, <3>4, UnBindSubSteps
    <3> QED BY <2>3, <3>1, <3>2, <3>3, <3>4 DEF RunnerCall
  <2>31. ASSUME NEW r \in Runners, DestroyRunner(r) PROVE Placed' /\ Typed'
    BY <1>1, <2>31, RemoveSteps
  <2>4. CASE BalanceStep
    BY <1>1, <2>4, BalanceSteps
  <2>5. CASE ManagerCall
    BY <1>1, <2>5, ManagerSteps
  <2>6. CASE Ended \/ UNCHANGED vars
    BY <1>1, <2>6, SameStep DEF Ended, vars
  <2> QED BY <2>1, <2>2, <2>3, <2>31, <2>4, <2>5, <2>6 DEF Next
<1>4. TypeOK'
  BY <1>1, <1>2, <1>3, ExtrasStep, NextTypeParts DEF Ranged, Typed
<1> QED BY <1>2, <1>3, <1>4 DEF Inv, Ranged, Placed

\* The inductive invariant holds in every state of the manager: the sizes and
\* positions Balance works with, and where every runner is at each of its steps.
THEOREM Invariant == Spec => []Inv
<1>1. Init => Inv
  BY InitInv
<1>2. Inv /\ [Next]_vars => Inv'
  BY InvStep
<1> QED BY <1>1, <1>2, PTL DEF Spec

\* index_ is a valid position among several workers, and a shrink to one worker
\* keeps the books of Balance straight.
THEOREM SizesAreSafe == Spec => []SafeSizes
<1>1. Inv => SafeSizes
  <2> SUFFICES ASSUME Inv PROVE SafeSizes
    OBVIOUS
  <2>1. IndexSafe
    BY DEF Inv, Indexed, IndexSafe, Unlocked
  <2>2. ShrinkToOne
    BY DEF Inv, Reduced, ShrinkToOne
  <2> QED BY <2>1, <2>2 DEF SafeSizes
<1> QED BY <1>1, Invariant, PTL

\* worker_ points to the worker that has the runner, save for those that a
\* growth has moved and while Balance holds them.
THEOREM PointersHold == Spec => []WorkerPointer
<1>1. Inv => WorkerPointer
  BY DEF Inv
<1> QED BY <1>1, Invariant, PTL

\* The places of a runner, one by one.
LEMMA PlaceMembers ==
  ASSUME NEW r, NEW p
  PROVE  p \in PlacesOf(r)
           <=> \/ \E w \in Workers : \E k \in DOMAIN worker[w].running :
                    p = <<"running", w, k>> /\ r \in Range(worker[w].running[k])
               \/ \E w \in Workers : \E k \in DOMAIN worker[w].pending :
                    p = <<"pending", w, k>> /\ r \in Range(worker[w].pending[k])
               \/ \E k \in DOMAIN Held :
                    p = <<"held", NoWorker, k>> /\ r \in Range(Held[k])
<1> DEFINE in(gs) == {k \in DOMAIN gs : r \in Range(gs[k])}
           R(w) == {"running"} \X {w} \X in(worker[w].running)
           P(w) == {"pending"} \X {w} \X in(worker[w].pending)
           H == {"held"} \X {NoWorker} \X in(Held)
<1>1. PlacesOf(r) = (UNION {R(w) \union P(w) : w \in Workers}) \union H
  BY DEF PlacesOf
<1>2. \A x, y, S : p \in {x} \X {y} \X S <=> \E k \in S : p = <<x, y, k>>
  OBVIOUS
<1>3. \A gs, k : k \in in(gs) <=> k \in DOMAIN gs /\ r \in Range(gs[k])
  OBVIOUS
<1>4. \A w : /\ p \in R(w) <=> \E k \in in(worker[w].running) : p = <<"running", w, k>>
             /\ p \in P(w) <=> \E k \in in(worker[w].pending) : p = <<"pending", w, k>>
  BY <1>2
<1>5. p \in H <=> \E k \in in(Held) : p = <<"held", NoWorker, k>>
  BY <1>2
<1> HIDE DEF R, P, H
<1>6. p \in PlacesOf(r) <=> \/ \E w \in Workers : p \in R(w)
                            \/ \E w \in Workers : p \in P(w)
                            \/ p \in H
  <2> DEFINE U == {R(w) \union P(w) : w \in Workers}
  <2>1. p \in PlacesOf(r) <=> p \in H \/ \E u \in U : p \in u
    <3>1. PlacesOf(r) = (UNION U) \union H
      BY <1>1
    <3> HIDE DEF U
    <3> QED BY <3>1
  <2>2. \A u : u \in U <=> \E w \in Workers : u = R(w) \union P(w)
    OBVIOUS
  <2> HIDE DEF U
  <2>3. ASSUME NEW u \in U, p \in u
        PROVE  \E w \in Workers : p \in R(w) \/ p \in P(w)
    <3>1. PICK w \in Workers : u = R(w) \union P(w)
      BY <2>2
    <3> QED BY <2>3, <3>1
  <2>4. ASSUME NEW w \in Workers, p \in R(w) \/ p \in P(w)
        PROVE  \E u \in U : p \in u
    <3>1. R(w) \union P(w) \in U
      BY <2>2
    <3>2. p \in R(w) \union P(w)
      BY <2>4
    <3> QED BY <3>1, <3>2
  <2> QED BY <2>1, <2>3, <2>4
<1> HIDE DEF in
<1>7. (\E w \in Workers : p \in R(w))
        <=> \E w \in Workers : \E k \in DOMAIN worker[w].running :
              p = <<"running", w, k>> /\ r \in Range(worker[w].running[k])
  BY <1>3, <1>4
<1>8. (\E w \in Workers : p \in P(w))
        <=> \E w \in Workers : \E k \in DOMAIN worker[w].pending :
              p = <<"pending", w, k>> /\ r \in Range(worker[w].pending[k])
  BY <1>3, <1>4
<1>9. p \in H <=> \E k \in DOMAIN Held :
                    p = <<"held", NoWorker, k>> /\ r \in Range(Held[k])
  BY <1>3, <1>5
<1> QED BY <1>6, <1>7, <1>8, <1>9

\* A runner is in at most one place, and in one exactly when it is in a list.
LEMMA Places ==
  ASSUME TypeOK, Apart, NEW r \in Runners
  PROVE  /\ ~Somewhere(r) => PlacesOf(r) = {}
         /\ Somewhere(r) => \E p : PlacesOf(r) = {p}
<1> DEFINE at(a, k) == a \in Sites /\ k \in DOMAIN Place[a] /\ r \in Range(Place[a][k])
<1>1. ASSUME NEW p, p \in PlacesOf(r)
      PROVE  \E a \in Sites : \E k : p = <<a[1], a[2], k>> /\ at(a, k)
  <2>1. CASE \E w \in Workers : \E k \in DOMAIN worker[w].running :
               p = <<"running", w, k>> /\ r \in Range(worker[w].running[k])
    <3>1. PICK w \in Workers : \E k \in DOMAIN worker[w].running :
            p = <<"running", w, k>> /\ r \in Range(worker[w].running[k])
      BY <2>1
    <3> DEFINE a == <<"running", w>>
    <3>2. a \in Sites /\ a[1] = "running" /\ a[2] = w /\ Place[a] = worker[w].running
      BY SiteFacts, PlaceFacts
    <3> HIDE DEF a
    <3> QED BY <3>1, <3>2
  <2>2. CASE \E w \in Workers : \E k \in DOMAIN worker[w].pending :
               p = <<"pending", w, k>> /\ r \in Range(worker[w].pending[k])
    <3>1. PICK w \in Workers : \E k \in DOMAIN worker[w].pending :
            p = <<"pending", w, k>> /\ r \in Range(worker[w].pending[k])
      BY <2>2
    <3> DEFINE a == <<"pending", w>>
    <3>2. a \in Sites /\ a[1] = "pending" /\ a[2] = w /\ Place[a] = worker[w].pending
      BY SiteFacts, PlaceFacts
    <3> HIDE DEF a
    <3> QED BY <3>1, <3>2
  <2>3. CASE \E k \in DOMAIN Held : p = <<"held", NoWorker, k>> /\ r \in Range(Held[k])
    <3>1. HeldSite \in Sites /\ HeldSite[1] = "held" /\ HeldSite[2] = NoWorker
          /\ Place[HeldSite] = Held
      BY SiteFacts, PlaceFacts DEF HeldSite
    <3> QED BY <2>3, <3>1
  <2> QED BY <1>1, <2>1, <2>2, <2>3, PlaceMembers
<1>2. ASSUME NEW a, NEW k, at(a, k) PROVE <<a[1], a[2], k>> \in PlacesOf(r)
  <2>1. CASE a = HeldSite
    <3>1. a[1] = "held" /\ a[2] = NoWorker /\ Place[a] = Held
      BY <2>1, PlaceFacts DEF HeldSite
    <3> QED BY <1>2, <3>1, PlaceMembers
  <2>2. CASE \E w \in Workers : a = <<"running", w>>
    <3>1. PICK w \in Workers : a = <<"running", w>>
      BY <2>2
    <3>2. a[1] = "running" /\ a[2] = w /\ Place[a] = worker[w].running
      BY <3>1, PlaceFacts
    <3> QED BY <1>2, <3>2, PlaceMembers
  <2>3. CASE \E w \in Workers : a = <<"pending", w>>
    <3>1. PICK w \in Workers : a = <<"pending", w>>
      BY <2>3
    <3>2. a[1] = "pending" /\ a[2] = w /\ Place[a] = worker[w].pending
      BY <3>1, PlaceFacts
    <3> QED BY <1>2, <3>2, PlaceMembers
  <2> QED BY <1>2, <2>1, <2>2, <2>3, SiteFacts
<1>3. Somewhere(r) <=> \E a, k : at(a, k)
  BY InRunnersOf DEF Somewhere, In
<1>4. ASSUME NEW a, NEW j, NEW b, NEW k, at(a, j), at(b, k) PROVE a = b /\ j = k
  <2>1. r \in RunnersOf(Place[a]) /\ r \in RunnersOf(Place[b])
    BY <1>4, InRunnersOf
  <2>2. a = b
    BY <1>4, <2>1 DEF Apart, Parted
  <2>3. GroupList(Place[a])
    BY <1>4 DEF Apart, Parted
  <2> QED BY <1>4, <2>2, <2>3 DEF GroupList
<1>5. CASE ~Somewhere(r)
  BY <1>1, <1>3, <1>5
<1>6. CASE Somewhere(r)
  <2>1. PICK a, k : at(a, k)
    BY <1>3, <1>6
  <2> DEFINE p == <<a[1], a[2], k>>
  <2>2. p \in PlacesOf(r)
    BY <1>2, <2>1
  <2>3. ASSUME NEW q \in PlacesOf(r) PROVE q = p
    <3>1. PICK b \in Sites : \E j : q = <<b[1], b[2], j>> /\ at(b, j)
      BY <1>1
    <3>2. PICK j : q = <<b[1], b[2], j>> /\ at(b, j)
      BY <3>1
    <3>3. a = b /\ k = j
      BY <1>4, <2>1, <3>2
    <3> QED BY <3>2, <3>3
  <2> HIDE DEF p
  <2>4. PlacesOf(r) = {p}
    BY <2>2, <2>3
  <2> QED BY <1>6, <2>4
<1> QED BY <1>5, <1>6

\* However often the workers are rebalanced while they run, a bound runner is in
\* one group of one worker or in the hands of Balance, or it was dropped.
THEOREM OnePlaceEach == Spec => []OnePlace
<1>1. Inv => OnePlace
  <2> SUFFICES ASSUME Inv, NEW r \in Runners, runner[r].life = "bound"
               PROVE  Cardinality(PlacesOf(r)) = IF r \in history["dropped"] THEN 0 ELSE 1
    BY DEF Inv, OnePlace
  <2>1. /\ ~Somewhere(r) => PlacesOf(r) = {}
        /\ Somewhere(r) => \E p : PlacesOf(r) = {p}
    BY Places DEF Inv
  <2>2. CASE r \in history["dropped"]
    <3>1. PlacesOf(r) = {}
      BY <2>1, <2>2 DEF Inv, Lives
    <3> QED BY <2>2, <3>1, FS_EmptySet
  <2>3. CASE r \notin history["dropped"]
    <3>1. PICK p : PlacesOf(r) = {p}
      BY <2>1, <2>3 DEF Inv, Lives
    <3> QED BY <2>3, <3>1, FS_Singleton
  <2> QED BY <2>2, <2>3
<1> QED BY <1>1, Invariant, PTL

\* A runner is somewhere when it is in a group.
LEMMA SomewhereIn == \A r : Somewhere(r) <=> \E g \in AllGroups : r \in Range(g)
<1> TAKE r
<1>1. ASSUME Somewhere(r) PROVE \E g \in AllGroups : r \in Range(g)
  <2>1. PICK a \in Sites : r \in RunnersOf(Place[a])
    BY <1>1 DEF Somewhere, In
  <2>2. PICK k \in DOMAIN Place[a] : r \in Range(Place[a][k])
    BY <2>1, InRunnersOf
  <2>3. Place[a][k] \in Range(Place[a])
    BY DEF Range
  <2>4. Place[a][k] \in AllGroups
    BY <2>3, GroupsAt
  <2> QED BY <2>2, <2>4
<1>2. ASSUME NEW g \in AllGroups, r \in Range(g) PROVE Somewhere(r)
  <2>1. PICK a \in Sites : g \in Range(Place[a])
    BY GroupsAt
  <2>2. PICK k \in DOMAIN Place[a] : g = Place[a][k]
    BY <2>1 DEF Range
  <2> QED BY <1>2, <2>2, InRunnersOf DEF Somewhere, In
<1> QED BY <1>1, <1>2

LEMMA NextSomewhereIn == \A r : Somewhere(r)' <=> \E g \in AllGroups' : r \in Range(g)
<1> TAKE r
<1>1. ASSUME Somewhere(r)' PROVE \E g \in AllGroups' : r \in Range(g)
  <2>1. PICK a \in Sites : r \in RunnersOf(Place'[a])
    BY <1>1 DEF Somewhere, In
  <2>2. PICK k \in DOMAIN Place'[a] : r \in Range(Place'[a][k])
    BY <2>1, InRunnersOf
  <2>3. Place'[a][k] \in Range(Place'[a])
    BY DEF Range
  <2>4. Place'[a][k] \in AllGroups'
    BY <2>3, NextGroupsAt
  <2> QED BY <2>2, <2>4
<1>2. ASSUME NEW g \in AllGroups', r \in Range(g) PROVE Somewhere(r)'
  <2>1. PICK a \in Sites : g \in Range(Place'[a])
    BY NextGroupsAt
  <2>2. PICK k \in DOMAIN Place'[a] : g = Place'[a][k]
    BY <2>1 DEF Range
  <2> QED BY <1>2, <2>2, InRunnersOf DEF Somewhere, In
<1> QED BY <1>1, <1>2

\* Every group is a sequence of runners.
LEMMA GroupTypes ==
  ASSUME Apart
  PROVE  \A g \in AllGroups : g \in Seq(Runners) /\ Range(g) \subseteq Runners
<1> TAKE g \in AllGroups
<1>1. PICK a \in Sites : g \in Range(Place[a])
  BY GroupsAt
<1>2. Place[a] \in Lists
  BY DEF Apart, Parted, GroupList
<1>3. PICK k \in DOMAIN Place[a] : g = Place[a][k]
  BY <1>1 DEF Range
<1> QED BY <1>2, <1>3, ListTypes

-----------------------------------------------------------------------------
(* What becomes of a removed runner and of a sub-runner. *)

\* y is above x in the group g.
Over(g, x, y) == \E j, k \in DOMAIN g : j < k /\ g[j] = x /\ g[k] = y

LEMMA AboveIn ==
  ASSUME NEW f, NEW s
  PROVE  /\ s \in Above(f) <=> s \in Runners /\ \E g \in AllGroups : Over(g, f, s)
         /\ s \in Above(f)' <=> s \in Runners /\ \E g \in AllGroups' : Over(g, f, s)
  BY DEF Above, Over

\* No runner is twice in a group.
Solid == \A g \in AllGroups : IsInjective(g)

\* A runner that was removed, and did not slip and was not missed, is in no
\* group.
Excused(r) == r \in history["slipped"] \union history["missed"]
Gone ==
  \A r \in Runners :
    runner[r].life \in {"removed", "destroyed"} /\ ~Excused(r) => ~Somewhere(r)

\* The groups stay as they are, save the ones that are dropped.
LEMMA SameGroups ==
  ASSUME Solid, Gone, SubStaysOnFather, AllGroups' \subseteq AllGroups,
         \A g \in AllGroups : g \in AllGroups' \/ Range(g) \subseteq history'["dropped"],
         \A r \in Runners :
           /\ runner'[r].has_sub_runner = runner[r].has_sub_runner
           /\ runner'[r].life = "bound" => runner[r].life = "bound"
           /\ runner'[r].life \in {"removed", "destroyed"}
                => \/ runner[r].life \in {"removed", "destroyed"} \/ ~Somewhere(r)
                   \/ Excused(r)'
           /\ Excused(r) => Excused(r)',
         history["dropped"] \subseteq history'["dropped"],
         \A c \in {"orphaned", "cleared"} : history'[c] = history[c]
  PROVE  Solid' /\ Gone' /\ SubStaysOnFather'
<1>1. Solid'
  BY DEF Solid
<1>2. \A r : Somewhere(r)' => Somewhere(r)
  BY SomewhereIn, NextSomewhereIn
<1>3. Gone'
  <2> HIDE DEF Somewhere, Excused
  <2> QED BY <1>2 DEF Gone
<1>4. ASSUME NEW s \in Runners \ Schedulable, runner'[s].life = "bound",
             s \notin history'["dropped"] \union history'["orphaned"]
      PROVE  \E f \in Runners : /\ s \in Above(f)'
                                /\ runner'[f].has_sub_runner \/ f \in history'["cleared"]
  <2>1. PICK f \in Runners : /\ s \in Above(f)
                             /\ runner[f].has_sub_runner \/ f \in history["cleared"]
    BY <1>4 DEF SubStaysOnFather
  <2>2. PICK g \in AllGroups : Over(g, f, s)
    BY <2>1, AboveIn
  <2>3. s \in Range(g)
    BY <2>2 DEF Over, Range
  <2>4. s \in Above(f)'
    BY <1>4, <2>2, <2>3, AboveIn
  <2> QED BY <2>1, <2>4
<1>5. SubStaysOnFather'
  BY <1>4 DEF SubStaysOnFather
<1> QED BY <1>1, <1>3, <1>5

\* A runner is erased from a group: the others stay in their order.
LEMMA ErasedGroup ==
  ASSUME NEW g \in Seq(Runners), IsInjective(g), NEW r
  PROVE  LET h == RemoveFirst(g, r) IN
         /\ IsInjective(h) /\ r \notin Range(h)
         /\ \A x, y : x # r /\ y # r /\ Over(g, x, y) => Over(h, x, y)
<1> DEFINE h == RemoveFirst(g, r)
           n == Len(g)
<1>1. n \in Nat /\ DOMAIN g = 1..n
  OBVIOUS
<1>2. CASE r \notin Range(g)
  <2>1. h = g
    BY <1>1, <1>2 DEF RemoveFirst, Range
  <2> QED BY <1>2, <2>1
<1>3. CASE r \in Range(g)
  <2>1. PICK k \in 1..n :
          /\ g[k] = r /\ h \in Seq(Runners) /\ Len(h) = n - 1
          /\ \A i \in 1..(n - 1) : h[i] = IF i < k THEN g[i] ELSE g[i + 1]
    BY <1>3, EraseFirst
  <2>2. DOMAIN h = 1..(n - 1)
    BY <2>1
  <2> HIDE DEF h, n
  <2> DEFINE Up(i) == IF i < k THEN i ELSE i + 1
             Down(i) == IF i < k THEN i ELSE i - 1
  <2>3. \A i \in 1..(n - 1) : Up(i) \in 1..n /\ Up(i) # k /\ h[i] = g[Up(i)]
    <3> TAKE i \in 1..(n - 1)
    <3>1. Up(i) \in 1..n /\ Up(i) # k
      BY <1>1, <2>1
    <3> QED BY <2>1, <3>1
  <2>4. \A i, j \in 1..(n - 1) : Up(i) = Up(j) => i = j
    BY <1>1, <2>1
  <2>5. \A i \in 1..n : i # k => Down(i) \in 1..(n - 1) /\ Up(Down(i)) = i
    <3> TAKE i \in 1..n
    <3>1. CASE i < k
      BY <1>1, <2>1, <3>1
    <3>2. CASE i > k
      BY <1>1, <2>1, <3>2
    <3> QED BY <1>1, <2>1, <3>1, <3>2
  <2>6. \A i, j \in 1..n : i # k /\ j # k /\ i < j => Down(i) < Down(j)
    BY <1>1, <2>1
  <2> HIDE DEF Up, Down
  <2>7. IsInjective(h)
    <3>1. ASSUME NEW i \in 1..(n - 1), NEW j \in 1..(n - 1), h[i] = h[j] PROVE i = j
      <4>1. g[Up(i)] = g[Up(j)] /\ Up(i) \in DOMAIN g /\ Up(j) \in DOMAIN g
        BY <1>1, <2>3, <3>1
      <4>2. Up(i) = Up(j)
        BY <4>1 DEF IsInjective
      <4> QED BY <2>4, <4>2
    <3> QED BY <2>2, <3>1 DEF IsInjective
  <2>8. r \notin Range(h)
    <3>1. ASSUME NEW i \in 1..(n - 1) PROVE h[i] # r
      <4>1. h[i] = g[Up(i)] /\ Up(i) \in DOMAIN g /\ k \in DOMAIN g /\ Up(i) # k
        BY <1>1, <2>3
      <4> QED BY <2>1, <4>1 DEF IsInjective
    <3> QED BY <2>2, <3>1 DEF Range
  <2>9. ASSUME NEW x, NEW y, x # r, y # r, Over(g, x, y) PROVE Over(h, x, y)
    <3>1. PICK i \in 1..n : \E j \in 1..n : i < j /\ g[i] = x /\ g[j] = y
      BY <1>1, <2>9 DEF Over
    <3>2. PICK j \in 1..n : i < j /\ g[i] = x /\ g[j] = y
      BY <3>1
    <3>3. i # k /\ j # k
      BY <2>1, <2>9, <3>2
    <3>4. /\ Down(i) \in DOMAIN h /\ Down(j) \in DOMAIN h /\ Down(i) < Down(j)
          /\ Up(Down(i)) = i /\ Up(Down(j)) = j
      BY <2>2, <2>5, <2>6, <3>2, <3>3
    <3>5. h[Down(i)] = x /\ h[Down(j)] = y
      BY <2>2, <2>3, <3>2, <3>4
    <3> QED BY <3>4, <3>5 DEF Over
  <2>10. \A x, y : x # r /\ y # r /\ Over(g, x, y) => Over(h, x, y)
    BY <2>9
  <2> QED BY <2>7, <2>8, <2>10 DEF h
<1> QED BY <1>2, <1>3

\* A new runner is put on top of a group.
LEMMA PushedGroup ==
  ASSUME NEW g \in Seq(Runners), NEW s \in Runners, s \notin Range(g)
  PROVE  LET h == Append(g, s) IN
         /\ IsInjective(g) => IsInjective(h)
         /\ \A x, y : Over(g, x, y) => Over(h, x, y)
         /\ \A x \in Range(g) : Over(h, x, s)
<1> DEFINE h == Append(g, s)
           n == Len(g)
<1>1. /\ n \in Nat /\ DOMAIN g = 1..n /\ DOMAIN h = 1..(n + 1) /\ h[n + 1] = s
      /\ \A i \in 1..n : h[i] = g[i]
  OBVIOUS
<1> HIDE DEF h, n
<1>2. /\ \A i \in 1..n : i \in 1..(n + 1) /\ i < n + 1
      /\ \A i \in 1..(n + 1) : i \in 1..n \/ i = n + 1
      /\ n + 1 \in 1..(n + 1)
  BY <1>1
<1>3. \A i \in 1..n : g[i] # s
  BY <1>1 DEF Range
<1>4. IsInjective(g) => IsInjective(h)
  BY <1>1, <1>2, <1>3 DEF IsInjective
<1>5. \A x, y : Over(g, x, y) => Over(h, x, y)
  BY <1>1, <1>2 DEF Over
<1>6. ASSUME NEW x \in Range(g) PROVE Over(h, x, s)
  <2>1. PICK i \in 1..n : g[i] = x
    BY <1>1 DEF Range
  <2> QED BY <1>1, <1>2, <2>1 DEF Over
<1> QED BY <1>4, <1>5, <1>6 DEF h

\* A runner that can be scheduled gets a group of its own.
LEMMA OneMoreGroup ==
  ASSUME Solid, Gone, SubStaysOnFather, NEW r \in Schedulable,
         AllGroups' \subseteq AllGroups \union {<<r>>}, AllGroups \subseteq AllGroups',
         runner'[r].life = "bound",
         \A q \in Runners : /\ runner'[q].has_sub_runner = runner[q].has_sub_runner
                            /\ q # r => runner'[q].life = runner[q].life,
         history' = history
  PROVE  Solid' /\ Gone' /\ SubStaysOnFather'
<1>1. Solid'
  <2>1. IsInjective(<<r>>)
    BY DEF IsInjective
  <2> QED BY <2>1 DEF Solid
<1>2. \A q : q # r /\ Somewhere(q)' => Somewhere(q)
  <2>1. Range(<<r>>) = {r}
    BY DEF Range
  <2> QED BY <2>1, SomewhereIn, NextSomewhereIn
<1>3. Gone'
  <2>1. \A q \in Runners : Excused(q)' <=> Excused(q)
    BY DEF Excused
  <2> HIDE DEF Somewhere, Excused
  <2> QED BY <1>2, <2>1 DEF Gone
<1>4. ASSUME NEW s \in Runners \ Schedulable, runner'[s].life = "bound",
             s \notin history'["dropped"] \union history'["orphaned"]
      PROVE  \E f \in Runners : /\ s \in Above(f)'
                                /\ runner'[f].has_sub_runner \/ f \in history'["cleared"]
  <2>1. PICK f \in Runners : /\ s \in Above(f)
                             /\ runner[f].has_sub_runner \/ f \in history["cleared"]
    BY <1>4 DEF SubStaysOnFather
  <2>2. s \in Above(f)'
    BY <1>4, <2>1, AboveIn
  <2> QED BY <2>1, <2>2
<1>5. SubStaysOnFather'
  BY <1>4 DEF SubStaysOnFather
<1> QED BY <1>1, <1>3, <1>5

\* The sub-runner s comes on top of a group, that of f.
LEMMA PushedGroups ==
  ASSUME Apart, Solid, Gone, SubStaysOnFather, NEW f \in Runners, NEW s \in Runners,
         ~Somewhere(s),
         \A g \in AllGroups' : g \in AllGroups \/ \E h \in AllGroups : g = Append(h, s),
         \A h \in AllGroups : h \in AllGroups' \/ Append(h, s) \in AllGroups',
         \E h \in AllGroups : f \in Range(h) /\ Append(h, s) \in AllGroups',
         runner'[s].life = "bound", runner'[f].has_sub_runner,
         \A q \in Runners : /\ q # f => runner'[q].has_sub_runner = runner[q].has_sub_runner
                            /\ q # s => runner'[q].life = runner[q].life,
         history' = history
  PROVE  Solid' /\ Gone' /\ SubStaysOnFather'
<1>1. \A h \in AllGroups : h \in Seq(Runners) /\ s \notin Range(h)
  BY GroupTypes, SomewhereIn
<1>2. \A h \in AllGroups : /\ IsInjective(Append(h, s))
                           /\ \A x, y : Over(h, x, y) => Over(Append(h, s), x, y)
                           /\ \A x \in Range(h) : Over(Append(h, s), x, s)
  BY <1>1, PushedGroup DEF Solid
<1>3. Solid'
  BY <1>2 DEF Solid
<1>4. ASSUME NEW q, q # s, Somewhere(q)' PROVE Somewhere(q)
  <2>1. PICK g \in AllGroups' : q \in Range(g)
    BY <1>4, NextSomewhereIn
  <2>2. PICK h \in AllGroups : g = h \/ g = Append(h, s)
    OBVIOUS
  <2>3. Range(Append(h, s)) = Range(h) \union {s}
    BY <1>1, RangeOne
  <2>4. Range(g) \subseteq Range(h) \union {s}
    BY <2>2, <2>3
  <2>5. q \in Range(h)
    BY <1>4, <2>1, <2>4
  <2> QED BY <2>5, SomewhereIn
<1>5. Gone'
  <2>1. \A q \in Runners : Excused(q)' <=> Excused(q)
    BY DEF Excused
  <2> HIDE DEF Somewhere, Excused
  <2> QED BY <1>4, <2>1 DEF Gone
<1>6. ASSUME NEW t \in Runners \ Schedulable, runner'[t].life = "bound",
             t \notin history'["dropped"] \union history'["orphaned"]
      PROVE  \E e \in Runners : /\ t \in Above(e)'
                                /\ runner'[e].has_sub_runner \/ e \in history'["cleared"]
  <2>1. CASE t = s
    <3>1. PICK h \in AllGroups : f \in Range(h) /\ Append(h, s) \in AllGroups'
      OBVIOUS
    <3>2. t \in Above(f)'
      BY <1>2, <2>1, <3>1, AboveIn
    <3> QED BY <3>2
  <2>2. CASE t # s
    <3>1. PICK e \in Runners : /\ t \in Above(e)
                               /\ runner[e].has_sub_runner \/ e \in history["cleared"]
      BY <1>6, <2>2 DEF SubStaysOnFather
    <3>2. PICK h \in AllGroups : Over(h, e, t)
      BY <3>1, AboveIn
    <3>3. t \in Above(e)'
      BY <1>2, <1>6, <3>2, AboveIn
    <3> QED BY <3>1, <3>3
  <2> QED BY <2>1, <2>2
<1>7. SubStaysOnFather'
  BY <1>6 DEF SubStaysOnFather
<1> QED BY <1>3, <1>5, <1>7

\* The runner r is erased from its group, or from none: the runners above it
\* lose the one below them.
LEMMA ErasedGroups ==
  ASSUME Apart, Solid, Gone, SubStaysOnFather, NEW r \in Runners,
         \A g \in AllGroups' : \E h \in AllGroups : g = h \/ g = RemoveFirst(h, r),
         \A h \in AllGroups : h \in AllGroups' \/ RemoveFirst(h, r) \in AllGroups',
         ~Somewhere(r)', runner'[r].life # "bound",
         \A q \in Runners :
           /\ q # r => runner'[q].life = runner[q].life
           /\ runner'[q].has_sub_runner = runner[q].has_sub_runner
           /\ Excused(q)' <=> Excused(q),
         history'["dropped"] = history["dropped"],
         history'["orphaned"] = history["orphaned"] \union Above(r),
         history'["cleared"] = history["cleared"]
  PROVE  Solid' /\ Gone' /\ SubStaysOnFather'
<1>1. \A h \in AllGroups : h \in Seq(Runners) /\ IsInjective(h)
  BY GroupTypes DEF Solid
<1>2. \A h \in AllGroups :
         /\ IsInjective(RemoveFirst(h, r)) /\ Range(RemoveFirst(h, r)) \subseteq Range(h)
         /\ \A x, y : x # r /\ y # r /\ Over(h, x, y) => Over(RemoveFirst(h, r), x, y)
  BY <1>1, ErasedGroup, ErasedRange
<1>3. Solid'
  BY <1>1, <1>2 DEF Solid
<1>4. ASSUME NEW q, Somewhere(q)' PROVE Somewhere(q)
  <2>1. PICK g \in AllGroups' : q \in Range(g)
    BY <1>4, NextSomewhereIn
  <2>2. PICK h \in AllGroups : g = h \/ g = RemoveFirst(h, r)
    OBVIOUS
  <2>3. q \in Range(h)
    BY <1>2, <2>1, <2>2
  <2> QED BY <2>3, SomewhereIn
<1>5. Gone'
  <2> HIDE DEF Somewhere, Excused
  <2> QED BY <1>4 DEF Gone
<1>6. ASSUME NEW s \in Runners \ Schedulable, runner'[s].life = "bound",
             s \notin history'["dropped"] \union history'["orphaned"]
      PROVE  \E f \in Runners : /\ s \in Above(f)'
                                /\ runner'[f].has_sub_runner \/ f \in history'["cleared"]
  <2>1. s # r /\ s \notin Above(r) /\ runner[s].life = "bound"
    BY <1>6
  <2>2. PICK f \in Runners : /\ s \in Above(f)
                             /\ runner[f].has_sub_runner \/ f \in history["cleared"]
    BY <1>6, <2>1 DEF SubStaysOnFather
  <2>3. f # r
    BY <2>1, <2>2
  <2>4. PICK h \in AllGroups : Over(h, f, s)
    BY <2>2, AboveIn
  <2>5. s \in Above(f)'
    BY <1>2, <1>6, <2>1, <2>3, <2>4, AboveIn
  <2> QED BY <2>2, <2>3, <2>5
<1>7. SubStaysOnFather'
  BY <1>6 DEF SubStaysOnFather
<1> QED BY <1>3, <1>5, <1>7

\* BindGroup puts s on top of the group of f, in list x.
LEMMA PushGroups ==
  ASSUME NEW x \in Sites, OnlyAt(x, x), NEW f, NEW s,
         Place'[x] = PushOn(Place[x], f, s), f \in RunnersOf(Place[x])
  PROVE  /\ \A g \in AllGroups' : g \in AllGroups \/ \E h \in AllGroups : g = Append(h, s)
         /\ \A h \in AllGroups : h \in AllGroups' \/ Append(h, s) \in AllGroups'
         /\ \E h \in AllGroups : f \in Range(h) /\ Append(h, s) \in AllGroups'
<1> DEFINE gs == Place[x]
           ps == Place'[x]
<1>1. /\ DOMAIN ps = DOMAIN gs
      /\ \A k \in DOMAIN gs : ps[k] = IF f \in Range(gs[k]) THEN Append(gs[k], s) ELSE gs[k]
  BY DEF PushOn
<1>2. \A a \in Sites : a = x \/ Place'[a] = Place[a]
  BY OtherPlaces
<1>3. \A k \in DOMAIN gs : gs[k] \in AllGroups /\ ps[k] \in AllGroups'
  BY <1>1, GroupsAt, NextGroupsAt DEF Range
<1> HIDE DEF gs, ps
<1>4. ASSUME NEW g \in AllGroups'
      PROVE  g \in AllGroups \/ \E h \in AllGroups : g = Append(h, s)
  <2>1. PICK a \in Sites : g \in Range(Place'[a])
    BY NextGroupsAt
  <2>2. CASE a # x
    BY <1>2, <2>1, <2>2, GroupsAt
  <2>3. CASE a = x
    <3>1. PICK k \in DOMAIN gs : g = ps[k]
      BY <1>1, <2>1, <2>3 DEF Range, ps
    <3> QED BY <1>1, <1>3, <3>1
  <2> QED BY <2>2, <2>3
<1>5. ASSUME NEW h \in AllGroups PROVE h \in AllGroups' \/ Append(h, s) \in AllGroups'
  <2>1. PICK a \in Sites : h \in Range(Place[a])
    BY GroupsAt
  <2>2. CASE a # x
    BY <1>2, <2>1, <2>2, NextGroupsAt
  <2>3. CASE a = x
    <3>1. PICK k \in DOMAIN gs : h = gs[k]
      BY <2>1, <2>3 DEF Range, gs
    <3> QED BY <1>1, <1>3, <3>1
  <2> QED BY <2>2, <2>3
<1>6. \E h \in AllGroups : f \in Range(h) /\ Append(h, s) \in AllGroups'
  <2>1. PICK k \in DOMAIN gs : f \in Range(gs[k])
    BY InRunnersOf DEF gs
  <2>2. ps[k] = Append(gs[k], s)
    BY <1>1, <2>1
  <2> QED BY <1>3, <2>1, <2>2
<1> QED BY <1>4, <1>5, <1>6

\* UnBind erases r from lists.
LEMMA EraseGroups ==
  ASSUME NEW r, \A a \in Sites : Place'[a] \in {Place[a], Without(Place[a], r)}
  PROVE  /\ \A g \in AllGroups' : \E h \in AllGroups : g = h \/ g = RemoveFirst(h, r)
         /\ \A h \in AllGroups : h \in AllGroups' \/ RemoveFirst(h, r) \in AllGroups'
<1>1. ASSUME NEW a \in Sites
      PROVE  /\ DOMAIN Place'[a] = DOMAIN Place[a]
             /\ \A k \in DOMAIN Place[a] :
                  /\ Place'[a][k] \in {Place[a][k], RemoveFirst(Place[a][k], r)}
                  /\ Place[a][k] \in AllGroups
  <2>1. \A k \in DOMAIN Place[a] : Place[a][k] \in AllGroups
    BY GroupsAt DEF Range
  <2>2. CASE Place'[a] = Place[a]
    BY <2>1, <2>2
  <2>3. CASE Place'[a] = Without(Place[a], r)
    BY <2>1, <2>3 DEF Without
  <2> QED BY <2>2, <2>3
<1>2. ASSUME NEW a \in Sites, NEW k \in DOMAIN Place[a] PROVE Place'[a][k] \in AllGroups'
  <2>1. k \in DOMAIN Place'[a]
    BY <1>1, <1>2
  <2> QED BY <2>1, NextGroupsAt DEF Range
<1>3. ASSUME NEW g \in AllGroups' PROVE \E h \in AllGroups : g = h \/ g = RemoveFirst(h, r)
  <2>1. PICK a \in Sites : g \in Range(Place'[a])
    BY NextGroupsAt
  <2>2. PICK k \in DOMAIN Place[a] : g = Place'[a][k]
    BY <1>1, <2>1 DEF Range
  <2> QED BY <1>1, <2>2
<1>4. ASSUME NEW h \in AllGroups PROVE h \in AllGroups' \/ RemoveFirst(h, r) \in AllGroups'
  <2>1. PICK a \in Sites : h \in Range(Place[a])
    BY GroupsAt
  <2>2. PICK k \in DOMAIN Place[a] : h = Place[a][k]
    BY <2>1 DEF Range
  <2> QED BY <1>1, <1>2, <2>2
<1> QED BY <1>3, <1>4

\* Erased from every list it is in, r is gone.
LEMMA ErasedIsGone ==
  ASSUME Apart, Solid, NEW r,
         \A a \in Sites : \/ Place'[a] = Without(Place[a], r)
                          \/ Place'[a] = Place[a] /\ r \notin RunnersOf(Place[a])
  PROVE  ~Somewhere(r)'
<1>1. ASSUME NEW a \in Sites, NEW k \in DOMAIN Place'[a] PROVE r \notin Range(Place'[a][k])
  <2>1. CASE Place'[a] = Place[a] /\ r \notin RunnersOf(Place[a])
    BY <1>1, <2>1, InRunnersOf
  <2>2. CASE Place'[a] = Without(Place[a], r)
    <3>1. k \in DOMAIN Place[a] /\ Place'[a][k] = RemoveFirst(Place[a][k], r)
      BY <2>2 DEF Without
    <3>2. Place[a][k] \in AllGroups
      BY <3>1, GroupsAt DEF Range
    <3>3. Place[a][k] \in Seq(Runners) /\ IsInjective(Place[a][k])
      BY <3>2, GroupTypes DEF Solid
    <3> QED BY <3>1, <3>3, ErasedGroup
  <2> QED BY <2>1, <2>2
<1>2. \A a \in Sites : r \notin RunnersOf(Place'[a])
  BY <1>1, InRunnersOf
<1> QED BY <1>2 DEF Somewhere, In

\* A worker that was not created yet has no groups, and none is picked.
Beyond ==
  /\ \A w \in Workers : w >= count => worker[w].running = <<>> /\ worker[w].pending = <<>>
  /\ \A r \in Runners : runner[r].life = "picked" => runner[r].worker_ < count

\* Only runners that cannot be scheduled become sub-runners.
Kinds ==
  \A r \in Runners :
    /\ runner[r].life = "loose" => r \notin Schedulable
    /\ runner[r].life \in {"walked", "picked"} => r \in Schedulable /\ Group[r] # 0

\* What RemoveSubTaskRunner knows: the cause, once s was in neither list, and
\* that s is removed, before it clears the father's flag.
UnBinds ==
  \A s \in Runners :
    /\ unbinding[s].step = "pending" => unbinding[s].cause \in {"missed", "slipped"}
    /\ unbinding[s].step = "flag" => runner[s].life \in {"removed", "destroyed"}

Kept == Solid /\ Gone /\ SubStaysOnFather /\ Beyond /\ Kinds

\* What a step must do to a runner it changes, without moving it.
Settles(r) ==
  /\ runner'[r].has_sub_runner = runner[r].has_sub_runner
  /\ runner'[r].life = "bound" => runner[r].life = "bound"
  /\ runner'[r].life \in {"removed", "destroyed"}
       => runner[r].life \in {"removed", "destroyed"} \/ ~Somewhere(r) \/ Excused(r)'
  /\ runner'[r].life = "loose" => r \notin Schedulable
  /\ runner'[r].life \in {"walked", "picked"} => r \in Schedulable /\ Group[r] # 0
  /\ runner'[r].life = "picked" => runner'[r].worker_ < count'

LEMMA InvParts ==
  ASSUME Inv
  PROVE  TypeOK /\ Sized /\ Placed /\ count \in Int /\ count <= count
<1>1. TypeOK /\ Sized /\ Placed
  BY DEF Inv, Placed
<1>2. count \in 1..MaxWorkers
  BY <1>1 DEF TypeOK
<1> QED BY <1>1, <1>2

LEMMA SettlesSame ==
  ASSUME TypeOK, TypeOK', Beyond, Kinds, count <= count', NEW r \in Runners,
         runner'[r] = runner[r]
  PROVE  Settles(r)
<1>1. runner[r].life = "picked" => runner[r].worker_ < count /\ runner[r].worker_ \in Int
  BY TypeParts, SizesAssumption DEF Beyond, RunnerRecords, Workers, NoWorker
<1>2. count \in Int /\ count' \in Int
  BY DEF TypeOK
<1>3. runner[r].life = "picked" => runner[r].worker_ < count'
  BY <1>1, <1>2
<1> HIDE DEF Somewhere, Excused
<1> QED BY <1>3 DEF Settles, Kinds

LEMMA BeyondSame ==
  ASSUME TypeOK, TypeOK', Beyond, count <= count',
         \A w \in Workers : w >= count' => /\ worker'[w].running = worker[w].running
                                           /\ worker'[w].pending = worker[w].pending
  PROVE  \A w \in Workers : w >= count'
           => worker'[w].running = <<>> /\ worker'[w].pending = <<>>
<1>1. count \in Int /\ count' \in Int /\ \A w \in Workers : w \in Int
  BY SizesAssumption DEF TypeOK, Workers
<1> QED BY <1>1 DEF Beyond

LEMMA KeptSame ==
  ASSUME TypeOK, TypeOK', Kept, AllGroups' \subseteq AllGroups,
         \A g \in AllGroups : g \in AllGroups' \/ Range(g) \subseteq history'["dropped"],
         count <= count',
         \A w \in Workers : w >= count' => /\ worker'[w].running = worker[w].running
                                           /\ worker'[w].pending = worker[w].pending,
         history["dropped"] \subseteq history'["dropped"],
         \A c \in {"orphaned", "cleared"} : history'[c] = history[c],
         \A c \in {"slipped", "missed"} : history[c] \subseteq history'[c],
         \A r \in Runners : runner'[r] = runner[r] \/ Settles(r)
  PROVE  Kept'
<1>1. \A r \in Runners : Settles(r)
  BY SettlesSame DEF Kept
<1>2. Solid' /\ Gone' /\ SubStaysOnFather'
  <2>1. \A r \in Runners : Excused(r) => Excused(r)'
    BY DEF Excused
  <2> HIDE DEF Excused, Somewhere
  <2> QED BY <1>1, <2>1, SameGroups DEF Kept, Settles
<1>3. Beyond'
  BY <1>1, BeyondSame DEF Kept, Beyond, Settles
<1>4. Kinds'
  BY <1>1 DEF Kept, Kinds, Settles
<1> QED BY <1>2, <1>3, <1>4 DEF Kept

\* Nothing is moved.
LEMMA KeptStill ==
  ASSUME TypeOK, TypeOK', Kept, Still, count <= count',
         \A c \in {"dropped", "orphaned", "cleared"} : history'[c] = history[c],
         \A c \in {"slipped", "missed"} : history[c] \subseteq history'[c],
         \A r \in Runners : runner'[r] = runner[r] \/ Settles(r)
  PROVE  Kept'
<1>1. AllGroups' = AllGroups
  BY GroupsStay
<1> QED BY <1>1, KeptSame DEF Still

LEMMA KeptThread ==
  ASSUME Inv, TypeOK', Kept, NEW w \in Workers, ThreadStep(w)
  PROVE  Kept'
<1>0. TypeOK /\ Sized /\ Placed /\ count \in Int /\ count <= count
  BY InvParts
<1>1. CASE RunImmediateTask(w)
  <2>1. /\ worker \in [Workers -> WorkerRecords]
        /\ \A v \in Workers : worker[v] \in WorkerRecords
    BY <1>0, TypeParts
  <2>2. Still
    <3> USE <1>1, <2>1 DEF Still, Held, RunImmediateTask
    <3>1. CASE RunTake(w, Head(worker[w].immediate))
      BY <3>1 DEF RunTake, WorkerRecords
    <3>2. CASE RunPut(w, Head(worker[w].immediate))
      BY <3>2 DEF RunPut, WorkerRecords
    <3> QED BY <3>1, <3>2
  <2> QED BY <1>0, <1>1, <2>2, KeptStill DEF RunImmediateTask
<1>2. CASE Schedule(w)
  <2>1. CASE Fail("empty_group")
    BY <1>0, <2>1, KeptStill DEF Fail, Still, Held
  <2>2. CASE ~Fail("empty_group")
    <3>1. PICK gs \in Orders(worker[w].running) : worker' = Scheduled(w, gs)
      BY <1>2, <2>2 DEF Schedule
    <3>2. UNCHANGED <<count, index_, runner, balance, history>> /\ w < count
      BY <1>2, <2>2 DEF Schedule, Runs
    <3>3. AllGroups' = AllGroups
      BY <1>0, <3>1, <3>2, ScheduleStep
    <3>4. \A v \in Workers : v >= count => worker'[v] = worker[v]
      <4>1. w \in Int /\ \A v \in Workers : v \in Int
        BY SizesAssumption DEF Workers
      <4>2. \A v \in Workers : v >= count => v # w
        BY <1>0, <3>2, <4>1
      <4>3. worker \in [Workers -> WorkerRecords]
        BY <1>0, TypeParts
      <4> QED BY <3>1, <4>2, <4>3 DEF Scheduled
    <3> QED BY <1>0, <3>2, <3>3, <3>4, KeptSame
  <2> QED BY <2>1, <2>2
<1>3. CASE ClearNeedBalance(w)
  BY <1>0, <1>3, KeptStill DEF ClearNeedBalance, Still, Held
<1> QED BY <1>1, <1>2, <1>3 DEF ThreadStep

LEMMA KeptTask ==
  ASSUME Inv, TypeOK', Kept, NEW w \in Workers, NEW r \in Runners, TaskStep(w, r)
  PROVE  Kept'
<1>0. TypeOK /\ count <= count /\ worker \in [Workers -> WorkerRecords]
      /\ history \in [Causes -> SUBSET Runners]
  BY InvParts, TypeParts
<1>1. CASE UseSpecificsUnbound(w, r)
  BY <1>0, <1>1, KeptStill DEF UseSpecificsUnbound, Fail, Still, Held
<1>2. CASE RunnerDestroySpecifics(w, r)
  <2>1. runner[r].worker_ \in Workers
    BY <1>0, <1>2, TypeParts DEF RunnerDestroySpecifics, RunnerRecords
  <2>2. Still
    BY <1>0, <1>2, <2>1, Destroyed DEF RunnerDestroySpecifics, Still, Held
  <2>3. \A c \in {"dropped", "slipped", "missed", "orphaned", "cleared"} :
          history'[c] = history[c]
    BY <1>0, <1>2 DEF RunnerDestroySpecifics, Causes
  <2> QED BY <1>0, <1>2, <2>2, <2>3, KeptStill DEF RunnerDestroySpecifics
<1> QED BY <1>1, <1>2 DEF TaskStep

\* A group of one runner is bound to a worker.
LEMMA KeptNew ==
  ASSUME Inv, TypeOK', Kept, NEW r \in Runners, NEW w \in Workers, w < count, Early(r),
         r \in Schedulable, worker'[w].pending = Append(worker[w].pending, <<r>>),
         worker'[w].running = worker[w].running,
         \A v \in Workers : v # w => worker'[v] = worker[v],
         runner'[r].life = "bound", runner'[r].worker_ = w,
         runner'[r].has_sub_runner = runner[r].has_sub_runner,
         \A q \in Runners : q = r \/ runner'[q] = runner[q],
         UNCHANGED <<count, balance, history>>, balance.step = "repoint" => index_' = index_
  PROVE  Kept'
<1>0. TypeOK /\ Sized /\ Placed /\ count \in Int /\ count <= count
  BY InvParts
<1>1. AllGroups' \subseteq AllGroups \union {<<r>>} /\ AllGroups \subseteq AllGroups'
  BY <1>0, NewGroup
<1>2. Solid' /\ Gone' /\ SubStaysOnFather'
  BY <1>1, OneMoreGroup DEF Kept
<1>3. \A q \in Runners : q = r \/ Settles(q)
  BY <1>0, SettlesSame DEF Kept
<1>4. Beyond'
  <2>1. w \in Int /\ \A v \in Workers : v \in Int
    BY SizesAssumption DEF Workers
  <2>2. \A v \in Workers : v >= count => worker'[v] = worker[v]
    BY <1>0, <2>1
  <2>3. \A q \in Runners : runner'[q].life = "picked" => runner'[q].worker_ < count
    BY <1>3 DEF Settles
  <2> QED BY <1>0, <2>2, <2>3, BeyondSame DEF Kept, Beyond
<1>5. Kinds'
  BY <1>3 DEF Kept, Kinds, Settles
<1> QED BY <1>2, <1>4, <1>5 DEF Kept

LEMMA KeptCreate ==
  ASSUME Inv, TypeOK', Kept, NEW r \in Runners,
         \/ CreateLoose(r) \/ CreateInNoGroup(r) \/ CreateInGroup(r) \/ PickWorker(r)
         \/ BindPicked(r)
  PROVE  Kept'
<1>0. /\ TypeOK /\ Sized /\ Placed /\ count \in Int /\ count <= count
      /\ worker \in [Workers -> WorkerRecords] /\ runner \in [Runners -> RunnerRecords]
  BY InvParts, TypeParts
<1>1. index_ \in Nat /\ index_ < count => index_ \in Workers
  BY <1>0, InWorkers
<1>2. index_ \in Nat
  BY <1>0, TypeParts DEF Numbers
<1>3. CASE CreateLoose(r)
  <2>1. Still
    BY <1>3 DEF CreateLoose, Still, Held
  <2>2. \A q \in Runners : runner'[q] = runner[q] \/ Settles(q)
    BY <1>0, <1>3 DEF CreateLoose, Settles, RunnerRecords
  <2> QED BY <1>0, <1>3, <2>1, <2>2, KeptStill DEF CreateLoose
<1>4. CASE CreateInGroup(r)
  <2>1. Still /\ UNCHANGED <<count, history>>
    BY <1>4 DEF CreateInGroup, Fail, Still, Held
  <2>2. \A q \in Runners : runner'[q] = runner[q] \/ Settles(q)
    <3>1. CASE Fail("race")
      BY <3>1 DEF Fail
    <3>2. CASE runner' = [runner EXCEPT ![r].life = "walked"]
      BY <1>0, <1>4, <3>2 DEF CreateInGroup, Settles, RunnerRecords
    <3>3. CASE \E w \in WithGroup(Group[r]) :
                 runner' = [runner EXCEPT ![r].worker_ = w, ![r].life = "picked"]
      <4>1. PICK w \in WithGroup(Group[r]) :
              runner' = [runner EXCEPT ![r].worker_ = w, ![r].life = "picked"]
        BY <3>3
      <4>2. w < count
        BY <1>0 DEF WithGroup
      <4>3. r \in Schedulable /\ Group[r] # 0
        BY <1>4 DEF CreateInGroup
      <4>4. Settles(r) /\ \A q \in Runners : q # r => runner'[q] = runner[q]
        BY <1>0, <2>1, <4>1, <4>2, <4>3 DEF Settles, RunnerRecords
      <4> QED BY <4>4
    <3> QED BY <1>4, <3>1, <3>2, <3>3 DEF CreateInGroup
  <2> QED BY <1>0, <2>1, <2>2, KeptStill
<1>5. CASE PickWorker(r)
  <2>1. Still /\ UNCHANGED <<count, history>>
    BY <1>5 DEF PickWorker, Fail, Still, Held
  <2>2. r \in Schedulable /\ Group[r] # 0
    BY <1>5 DEF PickWorker, Kept, Kinds
  <2>3. \A q \in Runners : runner'[q] = runner[q] \/ Settles(q)
    BY <1>0, <1>5, <2>1, <2>2 DEF PickWorker, Fail, Settles, RunnerRecords
  <2> QED BY <1>0, <2>1, <2>3, KeptStill
<1>6. CASE BindPicked(r)
  <2> DEFINE w == runner[r].worker_
  <2>1. /\ runner[r].life = "picked" /\ worker' = Bind(w, <<r>>)
        /\ runner' = [runner EXCEPT ![r].life = "bound"]
        /\ UNCHANGED <<count, balance, history, index_>>
    BY <1>6 DEF BindPicked
  <2>2. w \in Workers /\ w < count /\ r \in Schedulable
    BY <2>1 DEF Inv, Pointed, Kept, Beyond, Kinds
  <2>3. /\ runner'[r].life = "bound" /\ runner'[r].worker_ = w
        /\ runner'[r].has_sub_runner = runner[r].has_sub_runner
        /\ \A q \in Runners : q = r \/ runner'[q] = runner[q]
    BY <1>0, <2>1 DEF RunnerRecords
  <2> HIDE DEF w
  <2>4. /\ worker'[w].pending = Append(worker[w].pending, <<r>>)
        /\ worker'[w].running = worker[w].running
        /\ \A v \in Workers : v # w => worker'[v] = worker[v]
    <3>1. <<r>> \in Seq(Runners) /\ <<r>> # <<>>
      OBVIOUS
    <3> QED BY <1>0, <2>1, <2>2, <3>1, BoundGroup
  <2> QED BY <2>1, <2>2, <2>3, <2>4, KeptNew DEF Early
<1>7. CASE CreateInNoGroup(r)
  <2>1. CASE Fail("out_of_range")
    BY <1>0, <2>1, KeptStill DEF Fail, Still, Held
  <2>2. CASE ~Fail("out_of_range")
    <3> DEFINE w == index_
    <3>1. /\ runner[r].life = "new" /\ w \in Workers /\ w < count /\ balance.step = "none"
          /\ UNCHANGED <<count, balance, history>> /\ r \in Schedulable
          /\ worker' = [Bind(w, <<r>>) EXCEPT ![w].specifics = @ \union {r}]
          /\ runner' = [runner EXCEPT ![r].worker_ = w, ![r].life = "bound"]
      BY <1>1, <1>2, <1>7, <2>2 DEF CreateInNoGroup, AddTaskRunner, Unlocked
    <3>2. /\ runner'[r].life = "bound" /\ runner'[r].worker_ = w
          /\ runner'[r].has_sub_runner = runner[r].has_sub_runner
          /\ \A q \in Runners : q = r \/ runner'[q] = runner[q]
      BY <1>0, <3>1 DEF RunnerRecords
    <3>3. /\ worker'[w].pending = Append(worker[w].pending, <<r>>)
          /\ worker'[w].running = worker[w].running
          /\ \A v \in Workers : v # w => worker'[v] = worker[v]
      BY <1>0, <3>1 DEF Bind, WorkerRecords
    <3> HIDE DEF w
    <3> QED BY <3>1, <3>2, <3>3, KeptNew DEF Early
  <2> QED BY <2>1, <2>2
<1> QED BY <1>3, <1>4, <1>5, <1>6, <1>7

LEMMA Erases ==
  ASSUME TypeOK, NEW ws, NEW r, UnBindIn(ws, r)
  PROVE  \A w \in Workers :
           /\ w \in ws => /\ worker'[w].running = Without(worker[w].running, r)
                          /\ worker'[w].pending = Without(worker[w].pending, r)
           /\ w \notin ws => worker'[w] = worker[w]
<1>1. worker \in [Workers -> WorkerRecords]
  BY TypeParts
<1> QED BY <1>1 DEF UnBindIn, WorkerRecords

\* Runner r is in no list but those of the workers ws.
Reach(ws, r) ==
  \A a \in Sites : \/ \E w \in ws \intersect Workers :
                        a = <<"running", w>> \/ a = <<"pending", w>>
                   \/ r \notin RunnersOf(Place[a])

\* Where a search finds r is the one place where it is.
LEMMA FoundThere ==
  ASSUME Placed, NEW r, NEW ws \in SUBSET Workers, InRunning(ws, r) \/ InPending(ws, r)
  PROVE  Reach(ws, r)
<1>1. PICK w \in ws : \/ r \in RunnersOf(worker[w].running)
                       \/ r \in RunnersOf(worker[w].pending)
  BY DEF InRunning, InPending
<1>2. PICK x \in {<<"running", w>>, <<"pending", w>>} : r \in RunnersOf(Place[x])
  BY <1>1, PlaceFacts
<1>3. x \in Sites
  BY <1>2, SiteFacts
<1>4. \A a \in Sites : a = x \/ r \notin RunnersOf(Place[a])
  BY <1>2, <1>3 DEF Placed, Apart, Parted
<1> QED BY <1>2, <1>4 DEF Reach

\* UnBind of r, which leaves its group.
LEMMA KeptErase ==
  ASSUME Inv, TypeOK', Kept, NEW r \in Runners, NEW ws, UnBindIn(ws, r),
         UNCHANGED <<count, balance>>, Reach(ws, r),
         UnBound(r, TRUE, "none")
  PROVE  Kept'
<1>0. TypeOK /\ Sized /\ Placed /\ count \in Int /\ count <= count
  BY InvParts
<1>1. Held' = Held
  BY DEF Held
<1>2. \A w \in Workers :
        /\ w \in ws => /\ worker'[w].running = Without(worker[w].running, r)
                       /\ worker'[w].pending = Without(worker[w].pending, r)
        /\ w \notin ws => worker'[w] = worker[w]
  BY <1>0, Erases
<1>21. /\ runner'[r].life = "removed"
       /\ \A q \in Runners :
            /\ q # r => runner'[q].life = runner[q].life
            /\ runner'[q].worker_ = runner[q].worker_
            /\ runner'[q].has_sub_runner = runner[q].has_sub_runner
  BY <1>0, TypeParts DEF UnBound, RunnerRecords
<1>22. /\ \A c \in {"dropped", "slipped", "missed", "cleared"} : history'[c] = history[c]
       /\ history'["orphaned"] = history["orphaned"] \union Above(r)
  <2> DEFINE A == Above(r)
  <2>1. history' = [c \in Causes |-> history[c] \union (IF c = "orphaned" THEN A ELSE {})]
    BY DEF UnBound
  <2> HIDE DEF A
  <2>2. /\ \A c \in {"dropped", "slipped", "missed", "cleared"} : history'[c] = history[c]
        /\ history'["orphaned"] = history["orphaned"] \union A
    BY <2>1 DEF Causes
  <2> QED BY <2>2 DEF A
<1>3. ASSUME NEW a \in Sites
      PROVE  \/ Place'[a] = Without(Place[a], r)
             \/ /\ Place'[a] = Place[a]
                /\ ~\E w \in ws \intersect Workers : a = <<"running", w>> \/ a = <<"pending", w>>
  <2>1. CASE a = HeldSite
    BY <1>1, <2>1, PlaceFacts, NextPlaceFacts, SiteFacts
  <2>2. CASE \E w \in Workers : a = <<"running", w>> \/ a = <<"pending", w>>
    <3>1. PICK w \in Workers : a = <<"running", w>> \/ a = <<"pending", w>>
      BY <2>2
    <3>2. CASE w \in ws
      <4>1. CASE a = <<"running", w>>
        BY <1>2, <3>2, <4>1, PlaceFacts, NextPlaceFacts
      <4>2. CASE a = <<"pending", w>>
        BY <1>2, <3>2, <4>2, PlaceFacts, NextPlaceFacts
      <4> QED BY <3>1, <4>1, <4>2
    <3>3. CASE w \notin ws
      <4>1. Place'[a] = Place[a]
        BY <1>2, <3>1, <3>3, PlaceFacts, NextPlaceFacts
      <4>2. \A v : a = <<"running", v>> \/ a = <<"pending", v>> => v = w
        BY <3>1, SiteFacts
      <4> QED BY <3>3, <4>1, <4>2
    <3> QED BY <3>2, <3>3
  <2> QED BY <2>1, <2>2, SiteFacts
<1>4. /\ \A g \in AllGroups' : \E h \in AllGroups : g = h \/ g = RemoveFirst(h, r)
      /\ \A h \in AllGroups : h \in AllGroups' \/ RemoveFirst(h, r) \in AllGroups'
  BY <1>3, EraseGroups
<1>5. ~Somewhere(r)'
  <2>1. \A a \in Sites : \/ Place'[a] = Without(Place[a], r)
                         \/ Place'[a] = Place[a] /\ r \notin RunnersOf(Place[a])
    BY <1>3 DEF Reach
  <2> QED BY <1>0, <2>1, ErasedIsGone DEF Kept, Placed
<1>6. Solid' /\ Gone' /\ SubStaysOnFather'
  <2>1. Apart /\ Solid /\ Gone /\ SubStaysOnFather /\ runner'[r].life # "bound"
    BY <1>0, <1>21 DEF Kept, Placed
  <2>2. \A q \in Runners : Excused(q)' <=> Excused(q)
    BY <1>22 DEF Excused
  <2> QED BY <1>4, <1>5, <1>21, <1>22, <2>1, <2>2, ErasedGroups
<1>7. Beyond'
  <2>1. Without(<<>>, r) = <<>>
    BY DEF Without
  <2>2. \A w \in Workers : w >= count
          => worker'[w].running = <<>> /\ worker'[w].pending = <<>>
    BY <1>2, <2>1 DEF Kept, Beyond
  <2>3. \A q \in Runners : runner'[q].life = "picked" => runner'[q].worker_ < count
    BY <1>21 DEF Kept, Beyond
  <2> QED BY <2>2, <2>3 DEF Beyond
<1>8. Kinds'
  BY <1>21 DEF Kept, Kinds
<1> QED BY <1>6, <1>7, <1>8 DEF Kept

\* UnBind of r, which it does not find: r is in no group, or excused.
LEMMA KeptMiss ==
  ASSUME Inv, TypeOK', Kept, NEW r \in Runners, NEW cause \in {"none", "missed", "slipped"},
         UNCHANGED <<count, balance, worker>>,
         ~Somewhere(r) \/ cause \in {"missed", "slipped"},
         UnBound(r, FALSE, cause)
  PROVE  Kept'
<1>0. /\ TypeOK /\ Sized /\ Placed /\ count \in Int /\ count <= count
      /\ runner \in [Runners -> RunnerRecords]
  BY InvParts, TypeParts
<1>1. Still
  BY DEF Still, Held
<1>2. history' = [c \in Causes |-> history[c] \union (IF c = cause THEN {r} ELSE {})]
  BY DEF UnBound
<1>3. /\ \A c \in {"dropped", "orphaned", "cleared"} : history'[c] = history[c]
      /\ \A c \in {"slipped", "missed"} : history[c] \subseteq history'[c]
      /\ cause \in {"missed", "slipped"} => Excused(r)'
  BY <1>2 DEF Causes, Excused
<1>4. ~Somewhere(r) \/ Excused(r)'
  BY <1>3
<1>5. Settles(r)
  <2> HIDE DEF Somewhere, Excused
  <2> QED BY <1>0, <1>4 DEF UnBound, Settles, RunnerRecords
<1>6. \A q \in Runners : runner'[q] = runner[q] \/ Settles(q)
  BY <1>0, <1>5 DEF UnBound
<1> QED BY <1>0, <1>1, <1>3, <1>6, KeptStill

\* The lists RemoveTaskRunner searches, with Balance out of the way, are all.
LEMMA ReachAll ==
  ASSUME Inv, Kept, balance = NoBalance, NEW r
  PROVE  Reach(0..(count - 1), r)
<1> DEFINE ws == 0..(count - 1)
<1>0. count \in Int
  BY InvParts
<1>1. ASSUME NEW a \in Sites
      PROVE  \/ \E w \in ws \intersect Workers : a = <<"running", w>> \/ a = <<"pending", w>>
             \/ r \notin RunnersOf(Place[a])
  <2>1. CASE a = HeldSite
    <3>1. Place[a] = <<>>
      BY <2>1, PlaceFacts DEF Held, NoBalance
    <3> QED BY <3>1, EmptyList
  <2>2. CASE \E w \in Workers : a = <<"running", w>> \/ a = <<"pending", w>>
    <3>1. PICK w \in Workers : a = <<"running", w>> \/ a = <<"pending", w>>
      BY <2>2
    <3>2. CASE w \in ws
      BY <3>1, <3>2
    <3>3. CASE w \notin ws
      <4>1. w >= count
        BY <1>0, <3>3, SizesAssumption DEF Workers
      <4>2. Place[a] = <<>>
        BY <3>1, <4>1, PlaceFacts DEF Kept, Beyond
      <4> QED BY <4>2, EmptyList
    <3> QED BY <3>2, <3>3
  <2> QED BY <2>1, <2>2, SiteFacts
<1> QED BY <1>1 DEF Reach

LEMMA KeptRemove ==
  ASSUME Inv, TypeOK', Kept, NEW r \in Runners,
         RemoveTaskRunner(r) \/ RemoveFromPending(r) \/ DestroyRunner(r)
  PROVE  Kept'
<1>0. /\ TypeOK /\ Sized /\ Placed /\ count \in Int /\ count <= count
      /\ worker \in [Workers -> WorkerRecords] /\ runner \in [Runners -> RunnerRecords]
      /\ history \in [Causes -> SUBSET Runners]
  BY InvParts, TypeParts
<1> DEFINE ws == 0..(count - 1)
<1>01. ws \in SUBSET Workers
  BY <1>0, AllWorkers
<1>1. CASE RemoveTaskRunner(r)
  <2>1. UNCHANGED <<count, balance>> /\ balance = NoBalance
    BY <1>0, <1>1 DEF RemoveTaskRunner, Sized, Unlocked
  <2>2. CASE UNCHANGED <<worker, runner, history>>
    BY <1>0, <2>1, <2>2, KeptStill DEF Still, Held
  <2>3. CASE /\ UnBindRunning(ws, r) /\ UnBound(r, InRunning(ws, r), "none")
             /\ ~InPending(ws, r) \/ InRunning(ws, r)
    <3>1. CASE InRunning(ws, r)
      <4>1. UnBindIn(ws, r) /\ Reach(ws, r) /\ UnBound(r, TRUE, "none")
        BY <1>0, <1>01, <2>3, <3>1, Searches, FoundThere DEF UnBound
      <4> HIDE DEF ws
      <4> QED BY <2>1, <4>1, KeptErase
    <3>2. CASE ~InRunning(ws, r)
      <4>1. worker' = worker /\ UnBound(r, FALSE, "none")
        BY <1>0, <1>01, <2>3, <3>2, Searches DEF UnBound
      <4>2. Reach(ws, r)
        BY <2>1, ReachAll
      <4>3. \A w \in ws : /\ r \notin RunnersOf(worker[w].running)
                          /\ r \notin RunnersOf(worker[w].pending)
        BY <2>3, <3>2 DEF InRunning, InPending
      <4> HIDE DEF ws
      <4>4. ~Somewhere(r)
        <5> SUFFICES ASSUME NEW a \in Sites PROVE r \notin RunnersOf(Place[a])
          BY DEF Somewhere, In
        <5> QED BY <1>01, <4>2, <4>3, PlaceFacts DEF Reach
      <4> QED BY <2>1, <4>1, <4>4, KeptMiss
    <3> QED BY <3>1, <3>2
  <2> QED BY <1>1, <2>2, <2>3 DEF RemoveTaskRunner
<1>10. CASE RemoveFromPending(r)
  <2>1. /\ UNCHANGED <<count, balance>> /\ UnBindPending(ws, r)
        /\ UnBound(r, InPending(ws, r), "missed")
    BY <1>10 DEF RemoveFromPending
  <2>2. CASE InPending(ws, r)
    <3>1. UnBindIn(ws, r) /\ Reach(ws, r) /\ UnBound(r, TRUE, "none")
      BY <1>0, <1>01, <2>1, <2>2, Searches, FoundThere DEF UnBound
    <3> HIDE DEF ws
    <3> QED BY <2>1, <3>1, KeptErase
  <2>3. CASE ~InPending(ws, r)
    <3>1. worker' = worker /\ UnBound(r, FALSE, "missed")
      BY <1>0, <1>01, <2>1, <2>3, Searches DEF UnBound
    <3> QED BY <2>1, <3>1, KeptMiss
  <2> QED BY <2>2, <2>3
<1>2. CASE DestroyRunner(r)
  <2>1. UNCHANGED <<count, history, balance>>
    BY <1>2 DEF DestroyRunner
  <2>2. Still
    <3>1. CASE runner[r].worker_ = NoWorker
      BY <1>2, <3>1 DEF DestroyRunner, Still, Held
    <3>2. CASE runner[r].worker_ # NoWorker
      <4>1. runner[r].worker_ \in Workers /\ WorkerDestroySpecific(runner[r].worker_, r)
        BY <1>0, <1>2, <3>2 DEF DestroyRunner, RunnerRecords
      <4> QED BY <1>0, <2>1, <4>1, Destroyed DEF Still, Held
    <3> QED BY <3>1, <3>2
  <2>3. ~Somewhere(r)
    <3>1. r \notin Everywhere
      BY <1>2 DEF DestroyRunner
    <3>2. \A w \in Workers : r \notin BoundTo(w)
      BY <3>1 DEF Everywhere
    <3>3. r \notin RunnersOf(Held)
      <4>1. r \notin RunnersOf(balance.groups)
        BY <3>1 DEF Everywhere
      <4>2. balance.step # "repoint" => Held = balance.groups
        BY DEF Held
      <4>3. CASE balance.step = "repoint"
        <5>1. Held = Tail(balance.groups) /\ balance.groups # <<>> /\ balance.groups \in Lists
          BY <1>0, <4>3, TypeParts DEF Held, Sized, BalanceRecords
        <5>2. Range(balance.groups) = {Head(balance.groups)} \union Range(Tail(balance.groups))
          BY <5>1, RangeHead DEF Lists
        <5>3. RunnersOf(Held) \subseteq RunnersOf(balance.groups)
          <6> SUFFICES ASSUME NEW q \in RunnersOf(Held) PROVE q \in RunnersOf(balance.groups)
            OBVIOUS
          <6>1. PICK i \in DOMAIN Held : q \in Range(Held[i])
            BY InRunnersOf
          <6>2. Held[i] \in Range(balance.groups)
            BY <5>1, <5>2 DEF Range
          <6>3. PICK j \in DOMAIN balance.groups : balance.groups[j] = Held[i]
            BY <6>2 DEF Range
          <6> QED BY <6>1, <6>3, InRunnersOf
        <5> QED BY <4>1, <5>3
      <4> QED BY <4>1, <4>2, <4>3
    <3>4. \A w \in Workers : /\ r \notin RunnersOf(worker[w].running)
                             /\ r \notin RunnersOf(worker[w].pending)
      BY <3>2 DEF BoundTo
    <3>5. ASSUME NEW a \in Sites PROVE r \notin RunnersOf(Place[a])
      BY <3>3, <3>4, SiteFacts, PlaceFacts
    <3> QED BY <3>5 DEF Somewhere, In
  <2>4. \A q \in Runners : runner'[q] = runner[q] \/ Settles(q)
    <3> HIDE DEF Somewhere
    <3>1. Settles(r)
      BY <1>0, <1>2, <2>3 DEF DestroyRunner, Settles, RunnerRecords
    <3> QED BY <1>0, <1>2, <3>1 DEF DestroyRunner
  <2> QED BY <1>0, <2>1, <2>2, <2>4, KeptStill
<1> QED BY <1>1, <1>10, <1>2

LEMMA KeptAddSub ==
  ASSUME Inv, TypeOK', Kept, NEW f \in Runners, NEW s \in Runners, AddSubTaskRunner(f, s)
  PROVE  Kept'
<1> DEFINE w == runner[f].worker_
<1>0. /\ TypeOK /\ Sized /\ Placed /\ count \in Int /\ count <= count
      /\ worker \in [Workers -> WorkerRecords] /\ runner \in [Runners -> RunnerRecords]
  BY InvParts, TypeParts
<1>1. CASE Fail("bind_end")
  BY <1>0, <1>1, KeptStill DEF Fail, Still, Held
<1>2. CASE ~Fail("bind_end")
  <2>1. /\ runner[s].life = "loose" /\ w \in Workers /\ runner[f].life = "bound"
        /\ f \in BoundTo(w) /\ BindGroup(w, f, s)
        /\ runner' = [runner EXCEPT ![f].has_sub_runner = TRUE, ![s].life = "bound"]
        /\ UNCHANGED <<count, index_, balance, history>>
    BY <1>0, <1>2 DEF AddSubTaskRunner, RunnerRecords
  <2>2. /\ ~Somewhere(s) /\ f # s
    <3>1. Early(s)
      BY <2>1 DEF Early
    <3> QED BY <1>0, <2>1, <3>1 DEF Placed, Lives
  <2>3. /\ runner'[s].life = "bound" /\ runner'[f].has_sub_runner
        /\ \A q \in Runners : /\ q # f => runner'[q].has_sub_runner = runner[q].has_sub_runner
                              /\ q # s => runner'[q].life = runner[q].life
                              /\ runner'[q].worker_ = runner[q].worker_
    BY <1>0, <2>1, <2>2 DEF RunnerRecords
  <2> HIDE DEF w
  <2>4. \E x \in {<<"running", w>>, <<"pending", w>>} :
          /\ OnlyAt(x, x) /\ Place'[x] = PushOn(Place[x], f, s) /\ f \in RunnersOf(Place[x])
    <3>1. Held' = Held
      BY <2>1 DEF Held
    <3>2. CASE f \in RunnersOf(worker[w].running)
      <4>1. /\ worker'[w].running = PushOn(worker[w].running, f, s)
            /\ worker'[w].pending = worker[w].pending
            /\ \A v \in Workers : v # w => worker'[v] = worker[v]
        BY <1>0, <2>1, <3>2 DEF BindGroup, WorkerRecords
      <4>2. OnlyAt(<<"running", w>>, <<"running", w>>)
        BY <3>1, <4>1 DEF OnlyAt
      <4> QED BY <2>1, <3>2, <4>1, <4>2, PlaceFacts, NextPlaceFacts
    <3>3. CASE f \notin RunnersOf(worker[w].running)
      <4>0. f \in RunnersOf(worker[w].pending)
        BY <2>1, <3>3 DEF BoundTo
      <4>1. /\ worker'[w].pending = PushOn(worker[w].pending, f, s)
            /\ worker'[w].running = worker[w].running
            /\ \A v \in Workers : v # w => worker'[v] = worker[v]
        BY <1>0, <2>1, <3>3 DEF BindGroup, WorkerRecords
      <4>2. OnlyAt(<<"pending", w>>, <<"pending", w>>)
        BY <3>1, <4>1 DEF OnlyAt
      <4> QED BY <2>1, <4>0, <4>1, <4>2, PlaceFacts, NextPlaceFacts
    <3> QED BY <3>2, <3>3
  <2>5. PICK x \in {<<"running", w>>, <<"pending", w>>} :
          /\ OnlyAt(x, x) /\ Place'[x] = PushOn(Place[x], f, s) /\ f \in RunnersOf(Place[x])
    BY <2>4
  <2>6. x \in Sites
    BY <2>1, SiteFacts
  <2>7. /\ \A g \in AllGroups' : g \in AllGroups \/ \E h \in AllGroups : g = Append(h, s)
        /\ \A h \in AllGroups : h \in AllGroups' \/ Append(h, s) \in AllGroups'
        /\ \E h \in AllGroups : f \in Range(h) /\ Append(h, s) \in AllGroups'
    BY <2>5, <2>6, PushGroups
  <2>8. Solid' /\ Gone' /\ SubStaysOnFather'
    <3>1. Apart /\ Solid /\ Gone /\ SubStaysOnFather
      BY <1>0 DEF Kept, Placed
    <3> QED BY <2>1, <2>2, <2>3, <2>7, <3>1, PushedGroups
  <2>9. Beyond'
    <3>1. ASSUME NEW v \in Workers, v >= count
          PROVE  worker'[v].running = <<>> /\ worker'[v].pending = <<>>
      <4>1. worker[v].running = <<>> /\ worker[v].pending = <<>>
        BY <3>1 DEF Kept, Beyond
      <4>2. v # w
        BY <2>1, <4>1, EmptyList DEF BoundTo
      <4>3. worker'[v] = worker[v]
        BY <1>0, <2>1, <4>2 DEF BindGroup
      <4> QED BY <4>1, <4>3
    <3>2. \A q \in Runners : runner'[q].life = "picked" => runner'[q].worker_ < count
      BY <2>3 DEF Kept, Beyond
    <3> QED BY <2>1, <3>1, <3>2 DEF Beyond
  <2>10. Kinds'
    BY <2>1, <2>3 DEF Kept, Kinds
  <2> QED BY <2>8, <2>9, <2>10 DEF Kept
<1> QED BY <1>1, <1>2

\* A sub-runner that is above its father, where worker_ of the father points,
\* is at that worker.
LEMMA NotAstray ==
  ASSUME Inv, NEW f \in Runners, NEW s \in Runners, NEW w \in Workers, ~Astray(f, s, w)
  PROVE  InRunning({w}, s) \/ InPending({w}, s)
<1>0. TypeOK /\ Placed
  BY InvParts
<1>1. /\ f \notin history["strayed"] /\ runner[f].life = "bound" /\ runner[f].worker_ = w
      /\ s \in Above(f) /\ f \notin RunnersOf(balance.groups)
  BY DEF Astray
<1>2. PICK g \in AllGroups : Over(g, f, s)
  BY <1>1, AboveIn
<1>3. f \in Range(g) /\ s \in Range(g)
  BY <1>2 DEF Over, Range
<1>4. PICK a \in Sites : g \in Range(Place[a])
  BY GroupsAt
<1>5. f \in RunnersOf(Place[a]) /\ s \in RunnersOf(Place[a])
  BY <1>3, <1>4, InRunnersOf DEF Range
<1>6. f \notin history["dropped"]
  BY <1>0, <1>5 DEF Placed, Lives, Somewhere, In
<1>7. f \in BoundTo(w)
  <2>1. w # NoWorker
    BY SizesAssumption DEF Workers, NoWorker
  <2> QED BY <1>0, <1>1, <1>6, <2>1 DEF Placed, WorkerPointer
<1>8. a = <<"running", w>> \/ a = <<"pending", w>>
  <2>1. \E b \in {<<"running", w>>, <<"pending", w>>} : f \in RunnersOf(Place[b])
    BY <1>7, PlaceFacts DEF BoundTo
  <2> QED BY <1>0, <1>5, <2>1, SiteFacts DEF Placed, Apart, Parted
<1> QED BY <1>5, <1>8, PlaceFacts DEF InRunning, InPending

LEMMA KeptUnBindSub ==
  ASSUME Inv, TypeOK', Kept, UnBinds, NEW s \in Runners,
         UnBindSub(s) \/ UnBindSubPending(s) \/ ClearHasSubRunner(s)
  PROVE  Kept'
<1> DEFINE w == unbinding[s].worker
<1>0. /\ TypeOK /\ Sized /\ Placed /\ count \in Int /\ count <= count
      /\ worker \in [Workers -> WorkerRecords] /\ runner \in [Runners -> RunnerRecords]
      /\ history \in [Causes -> SUBSET Runners] /\ unbinding[s] \in UnBindRecords
  BY InvParts, TypeParts DEF Extras
<1>01. {w} \in SUBSET Workers /\ unbinding[s].father \in Runners
  BY <1>0 DEF UnBindRecords
<1>1. CASE UnBindSub(s)
  <2>1. UNCHANGED <<count, balance>>
    BY <1>1 DEF UnBindSub
  <2>2. CASE UNCHANGED <<worker, runner, history>>
    BY <1>0, <2>1, <2>2, KeptStill DEF Still, Held
  <2>3. CASE InRunning({w}, s) /\ UnBindRunning({w}, s) /\ UnBound(s, TRUE, "none")
    <3>1. UnBindIn({w}, s) /\ Reach({w}, s)
      BY <1>0, <1>01, <2>3, Searches, FoundThere
    <3> QED BY <2>1, <2>3, <3>1, KeptErase
  <2> QED BY <1>1, <2>2, <2>3 DEF UnBindSub
<1>2. CASE UnBindSubPending(s)
  <2>1. /\ UNCHANGED <<count, balance>> /\ UnBindPending({w}, s)
        /\ UnBound(s, InPending({w}, s), unbinding[s].cause)
        /\ unbinding[s].cause \in {"missed", "slipped"}
    BY <1>2 DEF UnBindSubPending, UnBinds
  <2>2. CASE InPending({w}, s)
    <3>1. UnBindIn({w}, s) /\ Reach({w}, s) /\ UnBound(s, TRUE, "none")
      BY <1>0, <1>01, <2>1, <2>2, Searches, FoundThere DEF UnBound
    <3> QED BY <2>1, <3>1, KeptErase
  <2>3. CASE ~InPending({w}, s)
    <3>1. worker' = worker /\ UnBound(s, FALSE, unbinding[s].cause)
      BY <1>0, <1>01, <2>1, <2>3, Searches DEF UnBound
    <3> QED BY <2>1, <3>1, KeptMiss
  <2> QED BY <2>2, <2>3
<1>3. CASE ClearHasSubRunner(s)
  <2> DEFINE f == unbinding[s].father
             A == Above(f)
  <2>1. /\ UNCHANGED <<count, worker, balance>>
        /\ runner' = [runner EXCEPT ![f].has_sub_runner = FALSE]
        /\ history' = [history EXCEPT
             !["cleared"] = IF A \subseteq {s} THEN @ ELSE @ \union {f}]
        /\ runner[s].life \in {"removed", "destroyed"}
    BY <1>3 DEF ClearHasSubRunner, UnBinds
  <2>2. AllGroups' = AllGroups
    BY <2>1, GroupsStay DEF Still, Held
  <2> HIDE DEF f, A
  <2>3. \A q \in Runners :
          /\ runner'[q].life = runner[q].life /\ runner'[q].worker_ = runner[q].worker_
          /\ q # f => runner'[q].has_sub_runner = runner[q].has_sub_runner
    BY <1>0, <2>1 DEF RunnerRecords
  <2>4. /\ \A c \in {"dropped", "slipped", "missed", "orphaned"} : history'[c] = history[c]
        /\ history["cleared"] \subseteq history'["cleared"]
        /\ A \subseteq {s} \/ f \in history'["cleared"]
    BY <1>0, <2>1 DEF Causes
  <2>5. Solid'
    BY <2>2 DEF Kept, Solid
  <2>6. Gone'
    <3>1. \A q : Somewhere(q)' <=> Somewhere(q)
      BY <2>2, SomewhereIn, NextSomewhereIn
    <3>2. \A q : Excused(q)' <=> Excused(q)
      BY <2>4 DEF Excused
    <3> HIDE DEF Somewhere, Excused
    <3> QED BY <2>3, <3>1, <3>2 DEF Kept, Gone
  <2>7. ASSUME NEW q \in Runners \ Schedulable, runner'[q].life = "bound",
               q \notin history'["dropped"] \union history'["orphaned"]
        PROVE  \E e \in Runners : /\ q \in Above(e)'
                                  /\ runner'[e].has_sub_runner \/ e \in history'["cleared"]
    <3>1. runner[q].life = "bound" /\ q # s
      BY <2>1, <2>3, <2>7
    <3>2. PICK e \in Runners : /\ q \in Above(e)
                               /\ runner[e].has_sub_runner \/ e \in history["cleared"]
      BY <2>4, <2>7, <3>1 DEF Kept, SubStaysOnFather
    <3>3. q \in Above(e)'
      BY <2>2, <3>2, AboveIn
    <3>4. e = f => f \in history'["cleared"]
      BY <2>4, <3>1, <3>2 DEF A
    <3>5. runner'[e].has_sub_runner \/ e \in history'["cleared"]
      BY <2>3, <2>4, <3>2, <3>4
    <3> QED BY <3>3, <3>5
  <2>8. SubStaysOnFather'
    BY <2>7 DEF SubStaysOnFather
  <2>9. Beyond' /\ Kinds'
    BY <2>1, <2>3 DEF Kept, Beyond, Kinds
  <2> QED BY <2>5, <2>6, <2>8, <2>9 DEF Kept
<1> QED BY <1>1, <1>2, <1>3

LEMMA KeptManager ==
  ASSUME Inv, TypeOK', Kept, ManagerCall
  PROVE  Kept'
<1>0. /\ TypeOK /\ Sized /\ Placed /\ count \in Int /\ count <= count
      /\ worker \in [Workers -> WorkerRecords]
  BY InvParts, TypeParts
<1>1. CASE (\E n \in Sizes : ResizeUp(n) \/ ResizeDown(n)) \/ AddWorker
  <2>1. UNCHANGED <<worker, runner, history>> /\ balance.step = "none"
        /\ (count' = count \/ count' = count + 1)
    BY <1>1 DEF ResizeUp, ResizeDown, AddWorker, Change, Unlocked
  <2>2. balance = NoBalance
    BY <1>0, <2>1 DEF Sized
  <2>3. balance'.groups = <<>> /\ balance'.step # "repoint"
    BY <1>1 DEF ResizeUp, ResizeDown, AddWorker, NoBalance
  <2>4. Still
    BY <2>1, <2>2, <2>3 DEF Still, Held, NoBalance
  <2>5. count <= count'
    BY <1>0, <2>1
  <2> QED BY <1>0, <2>1, <2>4, <2>5, KeptStill
<1>2. CASE \E w \in Workers : Terminate(w)
  <2>1. Still /\ UNCHANGED <<count, runner, history>>
    BY <1>0, <1>2 DEF Terminate, Still, Held, WorkerRecords
  <2> QED BY <1>0, <2>1, KeptStill
<1> QED BY <1>1, <1>2 DEF ManagerCall

\* Balance changes nothing but its own variables, and the number of workers.
LEMMA KeptCall ==
  ASSUME Inv, TypeOK', Kept, UNCHANGED <<worker, runner, history>>, count <= count',
         balance'.groups = balance.groups,
         balance.step # "repoint", balance'.step # "repoint"
  PROVE  Kept'
<1>1. Still
  BY DEF Still, Held
<1> QED BY <1>1, InvParts, KeptStill

\* Balance takes groups of worker w.
LEMMA KeptTaken ==
  ASSUME Inv, TypeOK', Kept, NEW w \in Workers,
         \/ /\ worker' = TakePending(w)
            /\ balance'.groups = balance.groups \o worker[w].pending
         \/ /\ worker' = [worker EXCEPT ![w].running = <<>>]
            /\ balance'.groups = balance.groups \o worker[w].running,
         balance.step # "repoint", balance'.step # "repoint",
         UNCHANGED <<count, runner, history>>
  PROVE  Kept'
<1>0. /\ TypeOK /\ Sized /\ Placed /\ count <= count
      /\ worker \in [Workers -> WorkerRecords]
  BY InvParts, TypeParts
<1>1. AllGroups' = AllGroups
  BY <1>0, PendingTaken, RunningTaken
<1>2. ASSUME NEW v \in Workers, v >= count
      PROVE  worker'[v].running = worker[v].running /\ worker'[v].pending = worker[v].pending
  <2>1. worker[v].running = <<>> /\ worker[v].pending = <<>>
    BY <1>2 DEF Kept, Beyond
  <2>2. CASE v = w
    BY <1>0, <2>1, <2>2 DEF TakePending, WorkerRecords
  <2>3. CASE v # w
    BY <1>0, <2>3 DEF TakePending
  <2> QED BY <2>2, <2>3
<1> QED BY <1>0, <1>1, <1>2, KeptSame

LEMMA KeptBalance ==
  ASSUME Inv, TypeOK', Kept, BalanceStep
  PROVE  Kept'
<1>0. /\ TypeOK /\ Sized /\ Placed /\ count \in Int /\ count <= count
      /\ worker \in [Workers -> WorkerRecords] /\ runner \in [Runners -> RunnerRecords]
      /\ balance \in BalanceRecords /\ history \in [Causes -> SUBSET Runners]
  BY InvParts, TypeParts
<1>1. ASSUME NEW why, Fail(why) PROVE Kept'
  BY <1>0, <1>1, KeptStill DEF Fail, Still, Held
<1>2. CASE CreateWorkers
  <2>1. size_ < balance.target /\ size_ \in Int /\ balance.target \in Int
    BY <1>0, <1>2, TypeParts DEF CreateWorkers, Sized, Growing, Numbers
  <2>2. count <= count'
    BY <1>0, <1>2, <2>1 DEF CreateWorkers
  <2>3. balance'.groups = balance.groups /\ balance.step = "create" /\ balance'.step = "count"
    BY <1>0, <1>2 DEF CreateWorkers, BalanceRecords
  <2> QED BY <1>2, <2>2, <2>3, KeptCall DEF CreateWorkers
<1>3. CASE CountGroups
  <2>1. balance'.groups = balance.groups /\ balance.step = "count" /\ balance'.step = "retain"
    BY <1>0, <1>3 DEF CountGroups, BalanceRecords
  <2> QED BY <1>0, <1>3, <2>1, KeptCall DEF CountGroups
<1>4. CASE Recount
  <2>1. balance'.groups = balance.groups /\ balance.step = "recount"
        /\ balance'.step # "repoint"
    BY <1>0, <1>4 DEF Recount, BalanceRecords
  <2> QED BY <1>0, <1>4, <2>1, KeptCall DEF Recount
<1>5. CASE UnBindEnd
  <2>1. CASE ~Fail("check")
    <3>1. balance'.groups = balance.groups /\ balance.step = "unbind"
          /\ balance'.step = "keep"
      BY <1>0, <1>5, <2>1 DEF UnBindEnd, BalanceRecords
    <3> QED BY <1>0, <1>5, <2>1, <3>1, KeptCall DEF UnBindEnd
  <2> QED BY <1>1, <2>1
<1>6. CASE ShrinkEnd
  <2>1. balance'.groups = balance.groups /\ balance.step = "rebind"
        /\ balance'.step = "none"
    BY <1>6 DEF ShrinkEnd, NoBalance
  <2> QED BY <1>0, <1>6, <2>1, KeptCall DEF ShrinkEnd
<1>7. CASE Retain \/ Keep
  <2>1. CASE ~Fail("iterator")
    <3> DEFINE w == balance.i
    <3>1. w \in Workers /\ worker' = TakePending(w) /\ UNCHANGED <<count, runner, history>>
          /\ balance.step # "repoint"
      BY <1>0, <1>7, <2>1, InWorkers DEF Retain, Keep
    <3>2. balance'.groups = balance.groups \o worker[w].pending /\ balance'.step # "repoint"
      BY <1>0, <1>7, <2>1 DEF Retain, Keep, BalanceRecords
    <3> HIDE DEF w
    <3> QED BY <3>1, <3>2, KeptTaken
  <2> QED BY <1>1, <2>1
<1>8. CASE UnBindWorkerPending
  <2> DEFINE w == balance.i
  <2>1. w \in Workers /\ worker' = TakePending(w) /\ UNCHANGED <<count, runner, history>>
        /\ balance.step # "repoint"
    BY <1>0, <1>8, InWorkers DEF UnBindWorkerPending
  <2>2. balance'.groups = balance.groups \o worker[w].pending /\ balance'.step # "repoint"
    BY <1>0, <1>8 DEF UnBindWorkerPending, BalanceRecords
  <2> HIDE DEF w
  <2> QED BY <2>1, <2>2, KeptTaken
<1>9. CASE UnBindWorker
  <2>1. CASE balance' = [balance EXCEPT !.i = @ - 1] /\ UNCHANGED <<count, worker, runner, history>>
    <3>1. balance'.groups = balance.groups /\ balance.step = "unbind"
          /\ balance'.step = "unbind"
      BY <1>0, <1>9, <2>1 DEF UnBindWorker, BalanceRecords
    <3> QED BY <1>0, <2>1, <3>1, KeptCall
  <2>2. CASE /\ balance.i >= 0
             /\ worker' = [worker EXCEPT ![balance.i].running = <<>>]
             /\ balance' = [balance EXCEPT !.groups = @ \o worker[balance.i].running,
                                           !.step = "unbind_pending"]
             /\ UNCHANGED <<count, runner, history>>
    <3> DEFINE w == balance.i
    <3>1. w \in Workers /\ worker' = [worker EXCEPT ![w].running = <<>>]
          /\ balance.step # "repoint"
      BY <1>0, <1>9, <2>2, InWorkers DEF UnBindWorker
    <3>2. balance'.groups = balance.groups \o worker[w].running /\ balance'.step # "repoint"
      BY <1>0, <2>2 DEF BalanceRecords
    <3> HIDE DEF w
    <3> QED BY <2>2, <3>1, <3>2, KeptTaken
  <2> QED BY <1>1, <1>9, <2>1, <2>2 DEF UnBindWorker
<1>10. CASE Deal
  <2>1. CASE ~Fail("no_worker")
    <3> DEFINE w == (size_ + balance.i) % balance.target
               list == SubSeq(balance.groups, 1, Share(w))
               rest == SubSeq(balance.groups, Share(w) + 1, Len(balance.groups))
               moved == RunnersOf(list)
               last == balance.i + 1 = balance.target
    <3>1. /\ AllGroups' \subseteq AllGroups
          /\ \A g \in AllGroups : g \in AllGroups' \/ Range(g) \subseteq history'["dropped"]
      BY <1>0, <1>10, <2>1, DealStep
    <3>2. /\ balance.step = "deal" /\ worker' = MoveTo(w, list) /\ UNCHANGED <<count, runner>>
          /\ history' = [history EXCEPT
               !["again"] = @ \union (moved \intersect Adrift),
               !["strayed"] = (@ \ moved) \union {r \in moved : runner[r].worker_ # w},
               !["dropped"] = IF last THEN @ \union RunnersOf(rest) ELSE @]
      BY <1>10, <2>1 DEF Deal
    <3>3. w \in Workers /\ w < count /\ Share(w) \in 0..Len(balance.groups)
      BY <1>0, <3>2, Turn
    <3>4. list \in Lists
      <4>1. balance.groups \in Lists
        BY <1>0 DEF BalanceRecords
      <4> QED BY <3>3, <4>1 DEF Lists
    <3> HIDE DEF w, list, rest, moved
    <3>5. ASSUME NEW v \in Workers, v >= count
          PROVE  /\ worker'[v].running = worker[v].running
                 /\ worker'[v].pending = worker[v].pending
      <4>1. v # w
        <5>1. v \in Int /\ w \in Int
          BY <3>3, SizesAssumption DEF Workers
        <5> QED BY <1>0, <3>3, <3>5, <5>1
      <4> QED BY <1>0, <3>2, <3>3, <3>4, <4>1, Dealt
    <3>6. /\ history["dropped"] \subseteq history'["dropped"]
          /\ \A c \in {"slipped", "missed", "orphaned", "cleared"} : history'[c] = history[c]
      BY <1>0, <3>2 DEF Causes
    <3> QED BY <1>0, <3>1, <3>2, <3>5, <3>6, KeptSame
  <2> QED BY <1>1, <2>1
<1>11. CASE Rebind
  <2>1. CASE Fail("out_of_range") \/ Fail("empty_group")
    BY <1>1, <2>1
  <2>2. CASE ~Fail("out_of_range") /\ ~Fail("empty_group")
    <3>1. /\ balance.step = "rebind" /\ balance.groups # <<>> /\ index_ < count
          /\ Head(balance.groups) # <<>> /\ worker' = Bind(index_, Head(balance.groups))
          /\ balance' = [balance EXCEPT !.step = "repoint"]
          /\ UNCHANGED <<count, index_, runner, history>>
      BY <1>11, <2>2 DEF Rebind
    <3>2. AllGroups' = AllGroups
      BY <1>0, <3>1, RebindStep
    <3>3. \A v \in Workers : v >= count => worker'[v] = worker[v]
      <4>1. index_ \in Int /\ \A v \in Workers : v \in Int
        BY <1>0, TypeParts, SizesAssumption DEF Numbers, Workers
      <4>2. \A v \in Workers : v >= count => v # index_
        BY <1>0, <3>1, <4>1
      <4> QED BY <1>0, <3>1, <4>2 DEF Bind
    <3> QED BY <1>0, <3>1, <3>2, <3>3, KeptSame
  <2> QED BY <2>1, <2>2
<1>12. CASE Repoint
  <2> DEFINE moved == Range(Head(balance.groups))
             owned == {r \in moved : runner[r].worker_ # NoWorker}
  <2>1. /\ balance.step = "repoint" /\ UNCHANGED count
        /\ worker' = [[w \in Workers |-> [worker[w] EXCEPT
                         !.specifics = {r \in @ : r \notin owned \/ runner[r].worker_ # w}]]
                       EXCEPT ![index_].specifics = @ \union owned]
        /\ runner' = [r \in Runners |-> IF r \in moved
                        THEN [runner[r] EXCEPT !.worker_ = index_] ELSE runner[r]]
        /\ history' = [history EXCEPT !["again"] = @ \union (moved \intersect Adrift),
                                      !["strayed"] = @ \ moved]
    BY <1>12 DEF Repoint
  <2>2. AllGroups' = AllGroups
    BY <1>0, <1>12, RepointStep
  <2>3. ASSUME NEW r \in moved, r \in Runners PROVE ~Early(r)
    <3>1. balance.groups # <<>> /\ balance.groups \in Lists
      BY <1>0, <2>1 DEF Sized, BalanceRecords
    <3>2. Head(balance.groups) = balance.groups[1] /\ 1 \in DOMAIN balance.groups
      BY <3>1 DEF Lists
    <3>3. r \in RunnersOf(balance.groups)
      BY <3>2, InRunnersOf
    <3> QED BY <1>0, <3>3 DEF Placed, Lives
  <2> HIDE DEF owned, moved
  <2>4. \A v \in Workers : /\ worker'[v].running = worker[v].running
                           /\ worker'[v].pending = worker[v].pending
    BY <1>0, <2>1 DEF WorkerRecords
  <2>5. /\ history'["dropped"] = history["dropped"]
        /\ \A c \in {"slipped", "missed", "orphaned", "cleared"} : history'[c] = history[c]
    BY <1>0, <2>1 DEF Causes
  <2>6. ASSUME NEW r \in Runners PROVE runner'[r] = runner[r] \/ Settles(r)
    <3>1. CASE r \notin moved
      BY <2>1, <3>1
    <3>2. CASE r \in moved
      <4>1. ~Early(r)
        BY <2>3, <3>2
      <4>2. runner'[r].life = runner[r].life
            /\ runner'[r].has_sub_runner = runner[r].has_sub_runner
        BY <1>0, <2>1, <3>2 DEF RunnerRecords
      <4> HIDE DEF Somewhere
      <4> QED BY <4>1, <4>2 DEF Settles, Early
    <3> QED BY <3>1, <3>2
  <2> QED BY <1>0, <2>1, <2>2, <2>4, <2>5, <2>6, KeptSame
<1> QED BY <1>2, <1>3, <1>4, <1>5, <1>6, <1>7, <1>8, <1>9, <1>10, <1>11, <1>12
      DEF BalanceStep

LEMMA InitKept == Init => Kept
<1> SUFFICES ASSUME Init PROVE Kept
  OBVIOUS
<1>1. PICK cast \in Casts :
        /\ worker \in [Workers -> {NewWorker(g) : g \in GroupIds(cast)}]
        /\ runner = [r \in Runners |->
                      [worker_ |-> NoWorker, has_sub_runner |-> FALSE,
                       life |-> IF r \in cast THEN "new" ELSE "absent"]]
  BY DEF Init
<1>2. \A w \in Workers : worker[w].running = <<>> /\ worker[w].pending = <<>>
  BY <1>1 DEF NewWorker
<1>3. \A r \in Runners : runner[r].life \in {"new", "absent"}
  BY <1>1
<1>4. Held = <<>>
  BY DEF Init, Held, NoBalance
<1>5. \A a \in Sites : Place[a] = <<>>
  BY <1>2, <1>4, SiteFacts, PlaceFacts
<1>6. AllGroups = {}
  <2>1. Range(<<>>) = {}
    BY DEF Range
  <2>2. \A g : g \notin AllGroups
    BY <1>5, <2>1, GroupsAt
  <2> QED BY <2>2
<1>7. Solid /\ Gone /\ SubStaysOnFather
  BY <1>3, <1>6 DEF Solid, Gone, SubStaysOnFather
<1>8. Beyond
  BY <1>2, <1>3 DEF Beyond
<1>9. Kinds
  BY <1>3 DEF Kinds
<1> QED BY <1>7, <1>8, <1>9 DEF Kept

\* Every action but those of RemoveSubTaskRunner leaves unbinding alone, and
\* what was removed stays so.
LEMMA UnBindsStep == Inv /\ UnBinds /\ [Next]_vars => UnBinds'
<1> SUFFICES ASSUME Inv, UnBinds, [Next]_vars PROVE UnBinds'
  OBVIOUS
<1>0. /\ TypeOK /\ runner \in [Runners -> RunnerRecords] /\ Extras
      /\ unbinding \in [Runners -> UnBindRecords]
  BY InvParts, TypeParts DEF Extras
<1> DEFINE Stays == \A q \in Runners : runner[q].life \in {"removed", "destroyed"}
                                        => runner'[q].life \in {"removed", "destroyed"}
<1>1. ASSUME UNCHANGED unbinding, Stays PROVE UnBinds'
  BY <1>1 DEF UnBinds
<1>2. ASSUME UNCHANGED <<removals, runner>> PROVE UnBinds'
  BY <1>1, <1>2 DEF removals
<1>3. ASSUME NEW why, Fail(why) PROVE UnBinds'
  BY <1>2, <1>3 DEF Fail
<1>4. ASSUME NEW w \in Workers, ThreadStep(w) PROVE UnBinds'
  BY <1>2, <1>3, <1>4 DEF ThreadStep, Schedule, ClearNeedBalance, RunImmediateTask
<1>5. ASSUME NEW w \in Workers, NEW r \in Runners, TaskStep(w, r) PROVE UnBinds'
  BY <1>2, <1>3, <1>5 DEF TaskStep, UseSpecificsUnbound, RunnerDestroySpecifics
<1>6. ASSUME NEW r \in Runners, RunnerCall(r) PROVE UnBinds'
  <2>1. CASE \/ CreateLoose(r) \/ CreateInNoGroup(r) \/ CreateInGroup(r)
             \/ PickWorker(r) \/ BindPicked(r)
    <3>1. CASE Fail("out_of_range") \/ Fail("race")
      BY <1>3, <3>1
    <3>2. CASE ~Fail("out_of_range") /\ ~Fail("race")
      <4>1. UNCHANGED unbinding /\ \A q \in Runners : runner'[q] = runner[q] \/ q = r
        BY <1>0, <2>1, <3>2 DEF CreateLoose, CreateInNoGroup, CreateInGroup, PickWorker,
             BindPicked, AddTaskRunner, removals
      <4>2. runner[r].life \notin {"removed", "destroyed"}
        BY <2>1 DEF CreateLoose, CreateInNoGroup, CreateInGroup, PickWorker, BindPicked
      <4> QED BY <1>1, <4>1, <4>2
    <3> QED BY <3>1, <3>2
  <2>2. ASSUME NEW q \in Runners, NEW found, NEW cause, UnBound(q, found, cause)
        PROVE  Stays /\ runner'[q].life = "removed"
    BY <1>0, <2>2 DEF UnBound, RunnerRecords
  <2>3. CASE RemoveTaskRunner(r)
    <3>1. UNCHANGED unbinding /\ (UNCHANGED runner \/ Stays)
      BY <2>2, <2>3 DEF RemoveTaskRunner
    <3> QED BY <1>1, <3>1
  <2>4. CASE RemoveFromPending(r)
    <3>1. UNCHANGED unbinding /\ Stays
      BY <2>2, <2>4 DEF RemoveFromPending
    <3> QED BY <1>1, <3>1
  <2>5. CASE UnBindSub(r)
    <3> DEFINE f == unbinding[r].father
               w == unbinding[r].worker
    <3>1. f \in Runners /\ w \in Workers
      BY <1>0 DEF UnBindRecords
    <3>2. CASE UnBound(r, TRUE, "none") /\ unbinding' = [unbinding EXCEPT ![r].step = "flag"]
      <4>1. Stays /\ runner'[r].life = "removed"
        BY <2>2, <3>2
      <4>2. /\ unbinding'[r].step = "flag"
            /\ \A q \in Runners : q # r => unbinding'[q] = unbinding[q]
        BY <1>0, <3>2 DEF UnBindRecords
      <4> QED BY <4>1, <4>2 DEF UnBinds
    <3>3. CASE /\ ~InRunning({w}, r) /\ UNCHANGED runner
               /\ unbinding' = [unbinding EXCEPT ![r].step = "pending",
                    ![r].cause = IF InPending({w}, r) THEN "missed"
                                 ELSE IF Astray(f, r, w) THEN "slipped" ELSE "none"]
      <4>1. InPending({w}, r) \/ Astray(f, r, w)
        BY <3>1, <3>3, NotAstray
      <4> HIDE DEF f, w
      <4>2. /\ unbinding'[r].step = "pending"
            /\ unbinding'[r].cause \in {"missed", "slipped"}
            /\ \A q \in Runners : q # r => unbinding'[q] = unbinding[q]
        BY <1>0, <3>3, <4>1 DEF UnBindRecords
      <4> QED BY <3>3, <4>2 DEF UnBinds
    <3> QED BY <2>5, <3>2, <3>3 DEF UnBindSub
  <2>6. CASE UnBindSubPending(r)
    <3>1. Stays /\ runner'[r].life = "removed"
      BY <2>2, <2>6 DEF UnBindSubPending
    <3>2. /\ unbinding'[r].step = "flag"
          /\ \A q \in Runners : q # r => unbinding'[q] = unbinding[q]
      BY <1>0, <2>6 DEF UnBindSubPending, UnBindRecords
    <3> QED BY <3>1, <3>2 DEF UnBinds
  <2>7. CASE ClearHasSubRunner(r)
    <3>1. \A q \in Runners : runner'[q].life = runner[q].life
      BY <1>0, <2>7 DEF ClearHasSubRunner, RunnerRecords
    <3>2. /\ unbinding'[r].step = "none"
          /\ \A q \in Runners : q # r => unbinding'[q] = unbinding[q]
      BY <1>0, <2>7 DEF ClearHasSubRunner, NoUnBind
    <3> QED BY <3>1, <3>2 DEF UnBinds
  <2>8. ASSUME NEW s \in Runners, AddSubTaskRunner(r, s) PROVE UnBinds'
    <3>1. CASE ~Fail("bind_end")
      <4>1. /\ UNCHANGED unbinding /\ runner[s].life = "loose"
            /\ runner' = [runner EXCEPT ![r].has_sub_runner = TRUE, ![s].life = "bound"]
        BY <2>8, <3>1 DEF AddSubTaskRunner, removals
      <4>2. Stays
        BY <1>0, <4>1 DEF RunnerRecords
      <4> QED BY <1>1, <4>1, <4>2
    <3> QED BY <1>3, <3>1
  <2>9. ASSUME NEW s \in Runners, AddBoundTaskRunner(r, s) PROVE UnBinds'
    BY <1>3, <2>9 DEF AddBoundTaskRunner
  <2>10. ASSUME NEW s \in Runners, RemoveSubTaskRunner(r, s) PROVE UnBinds'
    <3>1. /\ unbinding'[s].step = "running" /\ UNCHANGED runner
          /\ \A q \in Runners : q # s => unbinding'[q] = unbinding[q]
      BY <1>0, <2>10 DEF RemoveSubTaskRunner
    <3> QED BY <3>1 DEF UnBinds
  <2> QED BY <1>6, <2>1, <2>3, <2>4, <2>5, <2>6, <2>7, <2>8, <2>9, <2>10 DEF RunnerCall
<1>7. ASSUME NEW r \in Runners, DestroyRunner(r) PROVE UnBinds'
  <2>1. UNCHANGED unbinding /\ Stays
    BY <1>0, <1>7 DEF DestroyRunner, removals, RunnerRecords
  <2> QED BY <1>1, <2>1
<1>8. CASE BalanceStep
  <2>1. CASE Repoint
    <3>1. UNCHANGED unbinding /\ \A q \in Runners : runner'[q].life = runner[q].life
      BY <1>0, <2>1 DEF Repoint, removals, RunnerRecords
    <3> QED BY <1>1, <3>1
  <2>2. CASE ~Repoint
    BY <1>2, <1>3, <1>8, <2>2 DEF BalanceStep, CreateWorkers, CountGroups, Retain, Recount,
         Deal, UnBindWorker, UnBindWorkerPending, UnBindEnd, Keep, Rebind, ShrinkEnd
  <2> QED BY <2>1, <2>2
<1>9. CASE ManagerCall
  BY <1>2, <1>9 DEF ManagerCall, ResizeUp, ResizeDown, AddWorker, Terminate
<1>10. CASE Ended \/ UNCHANGED vars
  BY <1>2, <1>10 DEF Ended, vars
<1> QED BY <1>4, <1>5, <1>6, <1>7, <1>8, <1>9, <1>10 DEF Next

\* What RemoveSubTaskRunner relies on holds at each of its steps.
THEOREM UnBindsHold == Spec => []UnBinds
<1>1. Init => UnBinds
  BY DEF Init, UnBinds, NoUnBind
<1>2. Inv /\ UnBinds /\ [Next]_vars => UnBinds'
  BY UnBindsStep
<1> QED BY <1>1, <1>2, Invariant, PTL DEF Spec

LEMMA KeptStep == Inv /\ UnBinds /\ Kept /\ [Next]_vars => Kept'
<1> SUFFICES ASSUME Inv, UnBinds, Kept, [Next]_vars PROVE Kept'
  OBVIOUS
<1>1. TypeOK'
  BY InvStep DEF Inv
<1>2. ASSUME NEW w \in Workers, ThreadStep(w) PROVE Kept'
  BY <1>1, <1>2, KeptThread
<1>3. ASSUME NEW w \in Workers, NEW r \in Runners, TaskStep(w, r) PROVE Kept'
  BY <1>1, <1>3, KeptTask
<1>4. ASSUME NEW r \in Runners, RunnerCall(r) PROVE Kept'
  <2>1. CASE \/ CreateLoose(r) \/ CreateInNoGroup(r) \/ CreateInGroup(r)
             \/ PickWorker(r) \/ BindPicked(r)
    BY <1>1, <2>1, KeptCreate
  <2>2. CASE RemoveTaskRunner(r) \/ RemoveFromPending(r)
    BY <1>1, <2>2, KeptRemove
  <2>3. ASSUME NEW s \in Runners, AddSubTaskRunner(r, s) PROVE Kept'
    BY <1>1, <2>3, KeptAddSub
  <2>4. ASSUME NEW s \in Runners, RemoveSubTaskRunner(r, s) \/ AddBoundTaskRunner(r, s)
        PROVE  Kept'
    <3>1. Still /\ UNCHANGED <<count, runner, history>>
      BY <2>4 DEF RemoveSubTaskRunner, AddBoundTaskRunner, Fail, Still, Held
    <3> QED BY <1>1, <3>1, InvParts, KeptStill
  <2>5. CASE UnBindSub(r) \/ UnBindSubPending(r) \/ ClearHasSubRunner(r)
    BY <1>1, <2>5, KeptUnBindSub
  <2> QED BY <1>4, <2>1, <2>2, <2>3, <2>4, <2>5 DEF RunnerCall
<1>41. ASSUME NEW r \in Runners, DestroyRunner(r) PROVE Kept'
  BY <1>1, <1>41, KeptRemove
<1>5. CASE BalanceStep
  BY <1>1, <1>5, KeptBalance
<1>6. CASE ManagerCall
  BY <1>1, <1>6, KeptManager
<1>7. CASE Ended \/ UNCHANGED vars
  <2>1. Still /\ UNCHANGED <<count, runner, history>>
    BY <1>7 DEF Ended, vars, Still, Held
  <2> QED BY <1>1, <2>1, InvParts, KeptStill
<1> QED BY <1>2, <1>3, <1>4, <1>41, <1>5, <1>6, <1>7 DEF Next

\* The second inductive invariant, on top of the first: no group holds a runner
\* twice, what was removed is gone, sub-runners stay above their fathers, and
\* no worker beyond the last one created has a group.
THEOREM GroupsKept == Spec => []Kept
<1>1. Init => Kept
  BY InitKept
<1>2. Inv /\ UnBinds /\ Kept /\ [Next]_vars => Kept'
  BY KeptStep
<1> QED BY <1>1, <1>2, Invariant, UnBindsHold, PTL DEF Spec

\* A sub-runner stays above its father, in one group, through every move of the
\* group (BindGroup of worker.cc and Balance), until a runner below it is removed.
THEOREM SubsStay == Spec => []SubStaysOnFather
<1>1. Kept => SubStaysOnFather
  BY DEF Kept
<1> QED BY <1>1, GroupsKept, PTL

\* RemoveTaskRunner and RemoveSubTaskRunner leave the runner in no group of any
\* worker, nor with Balance, unless its group was taken over between the two
\* searches of UnBind (worker.cc) or, for a sub-runner, was not where its father
\* said.
THEOREM RemovedAreGone == Spec => []RemovedIsGone
<1>1. Inv /\ Kept => RemovedIsGone
  <2> SUFFICES ASSUME Inv, Kept, NEW r \in Runners,
                      runner[r].life \in {"removed", "destroyed"}, ~Excused(r)
               PROVE  PlacesOf(r) = {}
    BY DEF RemovedIsGone, Excused
  <2>1. ~Somewhere(r)
    BY DEF Kept, Gone
  <2> QED BY <2>1, Places DEF Inv
<1> QED BY <1>1, Invariant, GroupsKept, PTL

-----------------------------------------------------------------------------
(* Messages in queues. *)

\* No element of q is in T; exactly one is, and it is m.
Avoids(q, T) == \A k \in DOMAIN q : q[k] \notin T
Once(q, T, m) == \E k \in DOMAIN q : q[k] = m /\ \A j \in DOMAIN q : q[j] \in T <=> j = k

LEMMA OnceIn == \A q, T, m : Once(q, T, m) => m \in T /\ m \in Range(q)
  BY DEF Once, Range

LEMMA JoinQueues ==
  ASSUME NEW S, NEW q \in Seq(S), NEW p \in Seq(S), NEW T
  PROVE  /\ Avoids(q, T) /\ Avoids(p, T) => Avoids(q \o p, T)
         /\ \A m : Once(q, T, m) /\ Avoids(p, T) => Once(q \o p, T, m)
         /\ \A m : Avoids(q, T) /\ Once(p, T, m) => Once(q \o p, T, m)
<1> DEFINE a == Len(q)
           b == Len(p)
           c == q \o p
<1>1. /\ a \in Nat /\ b \in Nat /\ DOMAIN q = 1..a /\ DOMAIN p = 1..b
      /\ DOMAIN c = 1..(a + b) /\ \A i \in 1..(a + b) : c[i] = IF i <= a THEN q[i] ELSE p[i - a]
  OBVIOUS
<1> HIDE DEF c, a, b
<1>2. \A i \in DOMAIN q : i \in DOMAIN c /\ c[i] = q[i]
  BY <1>1
<1>3. \A i \in DOMAIN p : a + i \in DOMAIN c /\ c[a + i] = p[i]
  BY <1>1
<1>4. \A i \in DOMAIN c : i \in DOMAIN q \/ \E j \in DOMAIN p : i = a + j
  <2> TAKE i \in DOMAIN c
  <2>1. i \notin 1..a => i - a \in 1..b /\ i = a + (i - a)
    BY <1>1
  <2> QED BY <1>1, <2>1
<1>5. \A i \in DOMAIN q : \A j \in DOMAIN p : i # a + j
  BY <1>1
<1>6. \A i, j \in DOMAIN p : a + i = a + j => i = j
  BY <1>1
<1>7. Avoids(q, T) /\ Avoids(p, T) => Avoids(c, T)
  BY <1>2, <1>3, <1>4 DEF Avoids
<1>8. ASSUME NEW m, Once(q, T, m), Avoids(p, T) PROVE Once(c, T, m)
  <2>1. PICK k \in DOMAIN q : q[k] = m /\ \A j \in DOMAIN q : q[j] \in T <=> j = k
    BY <1>8 DEF Once
  <2>2. \A i \in DOMAIN c : c[i] \in T <=> i = k
    BY <1>2, <1>3, <1>4, <1>5, <1>8, <2>1 DEF Avoids
  <2> QED BY <1>2, <2>1, <2>2 DEF Once
<1>9. ASSUME NEW m, Avoids(q, T), Once(p, T, m) PROVE Once(c, T, m)
  <2>1. PICK k \in DOMAIN p : p[k] = m /\ \A j \in DOMAIN p : p[j] \in T <=> j = k
    BY <1>9 DEF Once
  <2>2. \A i \in DOMAIN c : c[i] \in T <=> i = a + k
    BY <1>2, <1>3, <1>4, <1>5, <1>6, <1>9, <2>1 DEF Avoids
  <2> QED BY <1>3, <2>1, <2>2 DEF Once
<1> QED BY <1>7, <1>8, <1>9 DEF c

LEMMA AppendQueue ==
  ASSUME NEW S, NEW q \in Seq(S), NEW x \in S, NEW T
  PROVE  /\ Avoids(q, T) /\ x \notin T => Avoids(Append(q, x), T)
         /\ Avoids(q, T) /\ x \in T => Once(Append(q, x), T, x)
         /\ \A m : Once(q, T, m) /\ x \notin T => Once(Append(q, x), T, m)
<1> DEFINE c == Append(q, x)
           n == Len(q) + 1
<1>1. /\ Len(q) \in Nat /\ DOMAIN q = 1..Len(q) /\ DOMAIN c = 1..n /\ n \in DOMAIN c
      /\ c[n] = x /\ \A i \in DOMAIN q : c[i] = q[i]
  OBVIOUS
<1>2. \A i \in DOMAIN c : i = n \/ i \in DOMAIN q
  BY <1>1
<1>3. \A i \in DOMAIN q : i \in DOMAIN c /\ i # n
  BY <1>1
<1> HIDE DEF c, n
<1>4. Avoids(q, T) /\ x \notin T => Avoids(c, T)
  BY <1>1, <1>2 DEF Avoids
<1>5. Avoids(q, T) /\ x \in T => Once(c, T, x)
  BY <1>1, <1>2, <1>3 DEF Avoids, Once
<1>6. ASSUME NEW m, Once(q, T, m), x \notin T PROVE Once(c, T, m)
  <2>1. PICK k \in DOMAIN q : q[k] = m /\ \A j \in DOMAIN q : q[j] \in T <=> j = k
    BY <1>6 DEF Once
  <2>2. \A i \in DOMAIN c : c[i] \in T <=> i = k
    BY <1>1, <1>2, <1>3, <1>6, <2>1
  <2> QED BY <1>1, <1>3, <2>1, <2>2 DEF Once
<1> QED BY <1>4, <1>5, <1>6 DEF c

LEMMA PopQueue ==
  ASSUME NEW S, NEW q \in Seq(S), q # <<>>, NEW T
  PROVE  /\ Avoids(q, T) => Head(q) \notin T /\ Avoids(Tail(q), T)
         /\ \A m : Once(q, T, m) /\ Head(q) \notin T => Once(Tail(q), T, m)
         /\ \A m : Once(q, T, m) /\ Head(q) \in T => Head(q) = m /\ Avoids(Tail(q), T)
<1> DEFINE c == Tail(q)
           n == Len(q)
<1>1. /\ n \in Nat /\ n # 0 /\ DOMAIN q = 1..n /\ DOMAIN c = 1..(n - 1)
      /\ Head(q) = q[1] /\ \A i \in 1..(n - 1) : c[i] = q[i + 1]
  OBVIOUS
<1> HIDE DEF c, n
<1>2. 1 \in DOMAIN q /\ \A i \in DOMAIN c : i + 1 \in DOMAIN q /\ i + 1 # 1 /\ c[i] = q[i + 1]
  BY <1>1
<1>3. \A i \in DOMAIN q : i = 1 \/ \E j \in DOMAIN c : i = j + 1
  <2> TAKE i \in DOMAIN q
  <2>1. i # 1 => i - 1 \in 1..(n - 1) /\ i = (i - 1) + 1
    BY <1>1
  <2> QED BY <1>1, <2>1
<1>4. \A i, j \in DOMAIN c : i + 1 = j + 1 => i = j
  BY <1>1
<1>5. Avoids(q, T) => Head(q) \notin T /\ Avoids(c, T)
  BY <1>1, <1>2 DEF Avoids
<1>6. ASSUME NEW m, Once(q, T, m)
      PROVE  /\ Head(q) \notin T => Once(c, T, m)
             /\ Head(q) \in T => Head(q) = m /\ Avoids(c, T)
  <2>1. PICK k \in DOMAIN q : q[k] = m /\ \A j \in DOMAIN q : q[j] \in T <=> j = k
    BY <1>6 DEF Once
  <2>2. CASE k = 1
    BY <1>1, <1>2, <2>1, <2>2 DEF Avoids
  <2>3. CASE k # 1
    <3>1. PICK h \in DOMAIN c : k = h + 1
      BY <1>3, <2>3
    <3>2. c[h] = m /\ \A i \in DOMAIN c : c[i] \in T <=> i = h
      BY <1>2, <1>4, <2>1, <3>1
    <3> QED BY <1>1, <1>2, <2>1, <2>3, <3>2 DEF Once
  <2> QED BY <2>2, <2>3
<1> QED BY <1>5, <1>6 DEF c

\* What a FlattenSeq avoids, and what is in it once.
LEMMA FlattenAvoids ==
  ASSUME NEW S, NEW q \in Seq(Seq(S)), NEW T, \A i \in DOMAIN q : Avoids(q[i], T)
  PROVE  Avoids(FlattenSeq(q), T)
<1> DEFINE n == Len(q)
<1>1. n \in Nat /\ DOMAIN q = 1..n /\ \A i \in 1..n : q[i] \in Seq(S)
  OBVIOUS
<1>2. CASE n = 0
  BY <1>2 DEF FlattenSeq, Avoids
<1>3. CASE n # 0
  <2>1. PICK f \in [1..n -> Seq(S)] :
          /\ FlattenSeq(q) = f[n]
          /\ \A i \in 1..n : f[i] = IF i = 1 THEN q[i] ELSE f[i - 1] \o q[i]
    BY <1>3, Flattening
  <2> DEFINE Bad == {k \in 1..n : ~Avoids(f[k], T)}
  <2>2. ASSUME Bad # {} PROVE FALSE
    <3>1. Bad \in SUBSET Nat
      OBVIOUS
    <3>2. PICK k \in Bad : \A j \in Bad : k <= j
      <4> HIDE DEF Bad
      <4> QED BY <2>2, <3>1, LeastOf
    <3>3. k \in 1..n /\ ~Avoids(f[k], T)
      BY <3>2
    <3>4. k # 1
      BY <1>1, <2>1, <3>3
    <3>5. k - 1 \in 1..n /\ ~(k <= k - 1)
      BY <1>1, <3>3, <3>4
    <3>6. Avoids(f[k - 1], T)
      BY <3>2, <3>5
    <3>7. f[k - 1] \in Seq(S) /\ q[k] \in Seq(S) /\ Avoids(q[k], T)
      BY <1>1, <2>1, <3>3, <3>5
    <3>8. f[k] = f[k - 1] \o q[k]
      BY <2>1, <3>3, <3>4
    <3> QED BY <3>3, <3>6, <3>7, <3>8, JoinQueues
  <2>3. n \in 1..n
    BY <1>1, <1>3
  <2> QED BY <2>1, <2>2, <2>3
<1> QED BY <1>2, <1>3

LEMMA FlattenOnce ==
  ASSUME NEW S, NEW q \in Seq(Seq(S)), NEW T, NEW m, NEW h \in DOMAIN q, Once(q[h], T, m),
         \A i \in DOMAIN q : i # h => Avoids(q[i], T)
  PROVE  Once(FlattenSeq(q), T, m)
<1> DEFINE n == Len(q)
<1>1. n \in Nat /\ DOMAIN q = 1..n /\ (\A i \in 1..n : q[i] \in Seq(S)) /\ h \in 1..n /\ n # 0
  OBVIOUS
<1>2. PICK f \in [1..n -> Seq(S)] :
        /\ FlattenSeq(q) = f[n]
        /\ \A i \in 1..n : f[i] = IF i = 1 THEN q[i] ELSE f[i - 1] \o q[i]
  BY <1>1, Flattening
<1> DEFINE Right(k) == (k < h => Avoids(f[k], T)) /\ (h <= k => Once(f[k], T, m))
           Bad == {k \in 1..n : ~Right(k)}
<1>3. ASSUME Bad # {} PROVE FALSE
  <2>1. Bad \in SUBSET Nat
    OBVIOUS
  <2>2. PICK k \in Bad : \A j \in Bad : k <= j
    <3> HIDE DEF Bad
    <3> QED BY <1>3, <2>1, LeastOf
  <2>3. k \in 1..n /\ ~Right(k)
    BY <2>2
  <2>4. CASE k = 1
    <3>1. f[k] = q[k]
      BY <1>2, <2>3, <2>4
    <3>2. k < h => k # h
      BY <1>1, <2>3
    <3>3. h <= k => k = h
      BY <1>1, <2>3, <2>4
    <3> QED BY <1>1, <2>3, <3>1, <3>2, <3>3
  <2>5. CASE k # 1
    <3>1. k - 1 \in 1..n /\ ~(k <= k - 1)
      BY <1>1, <2>3, <2>5
    <3>2. Right(k - 1)
      BY <2>2, <3>1
    <3>3. f[k - 1] \in Seq(S) /\ q[k] \in Seq(S)
      BY <1>1, <1>2, <2>3, <3>1
    <3>4. f[k] = f[k - 1] \o q[k]
      BY <1>2, <2>3, <2>5
    <3>5. (k < h => k - 1 < h /\ k # h) /\ (k = h => k - 1 < h) /\ (h < k => h <= k - 1 /\ k # h)
          /\ (h <= k => k = h \/ h < k)
      BY <1>1, <2>3
    <3>6. k < h => Avoids(f[k], T)
      BY <1>1, <2>3, <3>2, <3>3, <3>4, <3>5, JoinQueues
    <3>7. k = h => Once(f[k], T, m)
      BY <3>2, <3>3, <3>4, <3>5, JoinQueues
    <3>8. h < k => Once(f[k], T, m)
      BY <1>1, <2>3, <3>2, <3>3, <3>4, <3>5, JoinQueues
    <3> QED BY <2>3, <3>5, <3>6, <3>7, <3>8
  <2> QED BY <2>4, <2>5
<1>4. n \in 1..n /\ h <= n
  BY <1>1
<1>5. Right(n)
  BY <1>3, <1>4
<1> QED BY <1>2, <1>4, <1>5

-----------------------------------------------------------------------------
(* Where the specifics are. *)

\* The messages about r.
For(r) == {m \in Mail : m.runner = r}

NoMail(r) == \A w \in Workers : Avoids(worker[w].immediate, For(r))
OneMail(r, w, m) == /\ Once(worker[w].immediate, For(r), m)
                    /\ \A v \in Workers : v # w => Avoids(worker[v].immediate, For(r))
StoredAt(r, w) == \A v \in Workers : r \in worker[v].specifics <=> v = w
StoredNowhere(r) == \A v \in Workers : r \notin worker[v].specifics
AtHome(r, w) == r \in history["strayed"] \/ w = runner[r].worker_

\* The specifics of r are with a worker, the one that worker_ names unless a
\* growth has moved r; or about to be taken from it; or on the way.
Resting(r) == NoMail(r) /\ \E w \in Workers : StoredAt(r, w) /\ AtHome(r, w)
Leaving(r) == \E w, to \in Workers : /\ w = runner[r].worker_ /\ StoredAt(r, w)
                                     /\ OneMail(r, w, Take(r, to)) /\ AtHome(r, to)
Coming(r) == \E w \in Workers : StoredNowhere(r) /\ OneMail(r, w, Put(r, w)) /\ AtHome(r, w)
Carried(r) == Resting(r) \/ Leaving(r) \/ Coming(r)

\* The runners InOneMap is about.
Followed(r) == /\ runner[r].life = "bound" /\ InNoGroup(r)
               /\ r \notin history["again"] \union history["wiped"]

PackedAt(r) == /\ Early(r) => NoMail(r) /\ StoredNowhere(r)
               /\ Followed(r) => Carried(r)
Packed == \A r \in Runners : PackedAt(r)

LEMMA MailTypes ==
  ASSUME TypeOK, NEW w \in Workers
  PROVE  worker[w].immediate \in Seq(Mail)
  BY TypeParts DEF WorkerRecords

LEMMA Messages ==
  ASSUME NEW r \in Runners, NEW to \in Workers
  PROVE  /\ Take(r, to) \in Mail /\ Put(r, to) \in Mail
         /\ Take(r, to) \in For(r) /\ Put(r, to) \in For(r)
         /\ \A q : q # r => Take(r, to) \notin For(q) /\ Put(r, to) \notin For(q)
         /\ Take(r, to).task = "take" /\ Put(r, to).task = "put"
         /\ Take(r, to).to = to /\ Put(r, to).to = to
         /\ Take(r, to).runner = r /\ Put(r, to).runner = r
  BY DEF Take, Put, Mail, For

LEMMA Message ==
  ASSUME NEW m \in Mail
  PROVE  /\ m.runner \in Runners /\ m.to \in Workers
         /\ m = IF m.task = "take" THEN Take(m.runner, m.to) ELSE Put(m.runner, m.to)
         /\ \A r : m \in For(r) <=> m.runner = r
<1>1. m.runner \in Runners /\ m.to \in Workers /\ m.task \in {"take", "put"}
      /\ m = [task |-> m.task, runner |-> m.runner, to |-> m.to]
  BY DEF Mail
<1>2. \A r : m \in For(r) <=> m.runner = r
  BY DEF For
<1> QED BY <1>1, <1>2 DEF Take, Put

\* A step leaves the specifics of r and the messages about it alone.
Untouched(r) ==
  \A v \in Workers :
    /\ r \in worker'[v].specifics <=> r \in worker[v].specifics
    /\ Avoids(worker[v].immediate, For(r)) => Avoids(worker'[v].immediate, For(r))
    /\ \A m : Once(worker[v].immediate, For(r), m) => Once(worker'[v].immediate, For(r), m)

\* What a step may do to the life and the history of a runner it does not bind.
Ages(r) ==
  /\ Early(r)' => Early(r)
  /\ Followed(r)' => /\ Followed(r) /\ runner'[r].worker_ = runner[r].worker_
                     /\ r \in history'["strayed"] <=> r \in history["strayed"]

LEMMA PackedFrame ==
  ASSUME NEW r \in Runners, PackedAt(r), Untouched(r), Ages(r)
  PROVE  PackedAt(r)'
<1>1. NoMail(r) => NoMail(r)'
  BY DEF NoMail, Untouched
<1>2. StoredNowhere(r) => StoredNowhere(r)'
  BY DEF StoredNowhere, Untouched
<1>3. \A w \in Workers : StoredAt(r, w) => StoredAt(r, w)'
  BY DEF StoredAt, Untouched
<1>4. \A w \in Workers : \A m : OneMail(r, w, m) => OneMail(r, w, m)'
  BY DEF OneMail, Untouched
<1>5. Early(r)' => NoMail(r)' /\ StoredNowhere(r)'
  BY <1>1, <1>2 DEF PackedAt, Ages
<1>6. ASSUME Followed(r)' PROVE Carried(r)'
  <2>1. Carried(r) /\ runner'[r].worker_ = runner[r].worker_
        /\ (r \in history'["strayed"] <=> r \in history["strayed"])
    BY <1>6 DEF PackedAt, Ages
  <2>2. \A w : AtHome(r, w) => AtHome(r, w)'
    BY <2>1 DEF AtHome
  <2>3. CASE Resting(r)
    <3>1. PICK w \in Workers : StoredAt(r, w) /\ AtHome(r, w)
      BY <2>3 DEF Resting
    <3>2. NoMail(r)' /\ StoredAt(r, w)' /\ AtHome(r, w)'
      BY <1>1, <1>3, <2>2, <2>3, <3>1 DEF Resting
    <3> QED BY <3>2 DEF Carried, Resting
  <2>4. CASE Leaving(r)
    <3>1. PICK w \in Workers, to \in Workers :
            /\ w = runner[r].worker_ /\ StoredAt(r, w)
            /\ OneMail(r, w, Take(r, to)) /\ AtHome(r, to)
      BY <2>4 DEF Leaving
    <3>2. w = runner'[r].worker_ /\ StoredAt(r, w)' /\ AtHome(r, to)'
      BY <1>3, <2>1, <2>2, <3>1
    <3>3. OneMail(r, w, Take(r, to))'
      BY <1>4, <3>1
    <3> QED BY <3>2, <3>3 DEF Carried, Leaving
  <2>5. CASE Coming(r)
    <3>1. PICK w \in Workers : StoredNowhere(r) /\ OneMail(r, w, Put(r, w)) /\ AtHome(r, w)
      BY <2>5 DEF Coming
    <3>2. StoredNowhere(r)' /\ AtHome(r, w)'
      BY <1>2, <2>2, <3>1
    <3>3. OneMail(r, w, Put(r, w))'
      BY <1>4, <3>1
    <3> QED BY <3>2, <3>3 DEF Carried, Coming
  <2> QED BY <2>1, <2>3, <2>4, <2>5 DEF Carried
<1> QED BY <1>5, <1>6 DEF PackedAt

\* Nothing happens to specifics and messages at all.
LEMMA PackedSame ==
  ASSUME Packed, \A w \in Workers : /\ worker'[w].immediate = worker[w].immediate
                                    /\ worker'[w].specifics = worker[w].specifics,
         \A r \in Runners : Ages(r)
  PROVE  Packed'
<1>1. \A r \in Runners : Untouched(r)
  BY DEF Untouched
<1> QED BY <1>1, PackedFrame DEF Packed

\* The runner is not changed, or what it becomes is not followed.
LEMMA SameAges ==
  ASSUME history'["again"] = history["again"], history'["wiped"] = history["wiped"],
         history'["strayed"] = history["strayed"], NEW r \in Runners,
         \/ runner'[r] = runner[r]
         \/ /\ runner'[r].life = "bound" => ~InNoGroup(r)
            /\ Early(r)' => Early(r)
         \/ /\ runner'[r].life = runner[r].life /\ runner'[r].worker_ = runner[r].worker_
  PROVE  Ages(r)
<1>1. InNoGroup(r)' <=> InNoGroup(r)
  BY DEF InNoGroup
<1> QED BY <1>1 DEF Ages, Followed, Early

\* The head of a queue of w is the only message about its runner.
LEMMA HeadMessage ==
  ASSUME TypeOK, Packed, NEW w \in Workers, worker[w].immediate # <<>>,
         NEW m \in Mail, m = Head(worker[w].immediate)
  PROVE  LET r == m.runner IN
         /\ ~Early(r)
         /\ Followed(r) =>
              /\ OneMail(r, w, m) /\ AtHome(r, m.to)
              /\ m.task = "take" => StoredAt(r, w)
              /\ m.task # "take" => StoredNowhere(r) /\ w = m.to
<1> DEFINE r == m.runner
           q == worker[w].immediate
<1>1. q \in Seq(Mail) /\ r \in Runners /\ m.to \in Workers /\ m \in For(r)
  BY MailTypes, Message
<1>2. ~Avoids(q, For(r))
  BY <1>1, PopQueue
<1>3. ~NoMail(r)
  BY <1>2 DEF NoMail
<1>4. ~Early(r)
  BY <1>1, <1>3 DEF Packed, PackedAt
<1>5. ASSUME NEW v \in Workers, NEW x, OneMail(r, v, x) PROVE v = w /\ x = m
  <2>1. v = w
    BY <1>2, <1>5 DEF OneMail
  <2>2. Once(q, For(r), x)
    BY <1>5, <2>1 DEF OneMail
  <2> QED BY <1>1, <2>1, <2>2, PopQueue
<1>6. ASSUME Followed(r)
      PROVE  /\ OneMail(r, w, m) /\ AtHome(r, m.to)
             /\ m.task = "take" => StoredAt(r, w)
             /\ m.task # "take" => StoredNowhere(r) /\ w = m.to
  <2>1. Leaving(r) \/ Coming(r)
    BY <1>1, <1>3, <1>6 DEF Packed, PackedAt, Carried, Resting
  <2>2. CASE Leaving(r)
    <3>1. PICK v \in Workers, to \in Workers :
            StoredAt(r, v) /\ OneMail(r, v, Take(r, to)) /\ AtHome(r, to)
      BY <2>2 DEF Leaving
    <3>2. v = w /\ Take(r, to) = m
      BY <1>5, <3>1
    <3>3. m.task = "take" /\ m.to = to
      BY <1>1, <3>2, Messages
    <3> QED BY <3>1, <3>2, <3>3
  <2>3. CASE Coming(r)
    <3>1. PICK v \in Workers : StoredNowhere(r) /\ OneMail(r, v, Put(r, v)) /\ AtHome(r, v)
      BY <2>3 DEF Coming
    <3>2. v = w /\ Put(r, v) = m
      BY <1>5, <3>1
    <3>3. m.task = "put" /\ m.to = v
      BY <1>1, <3>2, Messages
    <3> QED BY <3>1, <3>2, <3>3
  <2> QED BY <2>1, <2>2, <2>3
<1> QED BY <1>4, <1>6

LEMMA PackedImmediate ==
  ASSUME TypeOK, Packed, NEW w \in Workers, RunImmediateTask(w)
  PROVE  Packed'
<1> DEFINE mid(v) == IF v = w THEN Tail(worker[v].immediate) ELSE worker[v].immediate
<1>1. /\ worker \in [Workers -> WorkerRecords]
      /\ \A v \in Workers : worker[v] \in WorkerRecords /\ worker[v].immediate \in Seq(Mail)
  BY TypeParts DEF WorkerRecords
<1>2. worker[w].immediate # <<>> /\ UNCHANGED <<runner, history>>
  BY DEF RunImmediateTask
<1>3. Head(worker[w].immediate) \in Mail /\ \A v \in Workers : mid(v) \in Seq(Mail)
  BY <1>1, <1>2
<1>4. PICK m \in Mail : m = Head(worker[w].immediate)
  BY <1>3
<1>5. PICK r \in Runners : r = m.runner
  BY Message
<1>6. IF m.task = "take" THEN RunTake(w, m) ELSE RunPut(w, m)
  BY <1>4 DEF RunImmediateTask
<1>7. /\ r \in Runners /\ m.to \in Workers /\ \A q : m \in For(q) <=> r = q
      /\ m = IF m.task = "take" THEN Take(r, m.to) ELSE Put(r, m.to)
  BY <1>5, Message
<1>8. /\ ~Early(r)
      /\ Followed(r) =>
           /\ OneMail(r, w, m) /\ AtHome(r, m.to)
           /\ m.task = "take" => StoredAt(r, w)
           /\ m.task # "take" => StoredNowhere(r) /\ w = m.to
  BY <1>2, <1>4, <1>5, HeadMessage
<1>9. ASSUME NEW q \in Runners, q # r, NEW v \in Workers
      PROVE  /\ Avoids(worker[v].immediate, For(q)) => Avoids(mid(v), For(q))
             /\ \A x : Once(worker[v].immediate, For(q), x) => Once(mid(v), For(q), x)
  <2>1. CASE v = w
    <3>1. worker[w].immediate \in Seq(Mail) /\ m \notin For(q)
      BY <1>1, <1>7, <1>9
    <3> QED BY <1>2, <1>4, <2>1, <3>1, PopQueue
  <2>2. CASE v # w
    BY <2>2
  <2> QED BY <2>1, <2>2
<1>10. ASSUME Followed(r), NEW v \in Workers PROVE Avoids(mid(v), For(r))
  <2>1. CASE v = w
    <3>1. worker[w].immediate \in Seq(Mail) /\ m \in For(r)
      BY <1>1, <1>7
    <3>2. Once(worker[w].immediate, For(r), m)
      BY <1>8, <1>10 DEF OneMail
    <3> QED BY <1>2, <1>4, <2>1, <3>1, <3>2, PopQueue
  <2>2. CASE v # w
    BY <1>8, <1>10, <2>2 DEF OneMail
  <2> QED BY <2>1, <2>2
<1>11. \A q \in Runners : Ages(q)
  BY <1>2, SameAges
<1>12. (Early(r)' <=> Early(r)) /\ (Followed(r)' <=> Followed(r))
       /\ \A v : AtHome(r, v)' <=> AtHome(r, v)
  BY <1>2 DEF Early, Followed, InNoGroup, AtHome
<1>13. CASE m.task = "take"
  <2>1. PICK to \in Workers : to = m.to
    BY <1>7
  <2>2. PICK put : put = Put(r, to)
    OBVIOUS
  <2>3. \A v \in Workers :
          /\ worker'[v].specifics = IF v = w THEN worker[v].specifics \ {r} ELSE worker[v].specifics
          /\ worker'[v].immediate = IF v = to THEN Append(mid(v), put) ELSE mid(v)
    <3>1. RunTake(w, m)
      BY <1>13, <1>6
    <3> QED BY <1>1, <1>7, <1>5, <2>1, <2>2, <3>1 DEF RunTake, WorkerRecords
  <2>4. put \in Mail /\ put \in For(r) /\ \A q : q # r => put \notin For(q)
    BY <1>7, <2>1, <2>2, Messages
  <2> HIDE DEF mid
  <2>5. ASSUME NEW q \in Runners, q # r PROVE PackedAt(q)'
    <3>1. ASSUME NEW v \in Workers
          PROVE  /\ Avoids(mid(v), For(q)) => Avoids(worker'[v].immediate, For(q))
                 /\ \A x : Once(mid(v), For(q), x) => Once(worker'[v].immediate, For(q), x)
      <4>1. mid(v) \in Seq(Mail) /\ put \in Mail /\ put \notin For(q)
        BY <1>3, <2>4, <2>5
      <4>2. /\ Avoids(mid(v), For(q)) => Avoids(Append(mid(v), put), For(q))
            /\ \A x : Once(mid(v), For(q), x) => Once(Append(mid(v), put), For(q), x)
        BY <4>1, AppendQueue
      <4> QED BY <2>3, <4>2
    <3>2. Untouched(q)
      BY <1>9, <2>3, <2>5, <3>1 DEF Untouched
    <3> QED BY <1>11, <3>2, PackedFrame DEF Packed
  <2>6. ASSUME Followed(r) PROVE Coming(r)'
    <3>1. to \in Workers /\ AtHome(r, to)' /\ StoredAt(r, w)
      BY <1>7, <1>8, <1>12, <1>13, <2>6, <2>1
    <3>2. StoredNowhere(r)'
      BY <2>3, <3>1 DEF StoredAt, StoredNowhere
    <3>3. Once(worker'[to].immediate, For(r), put)
      <4>1. mid(to) \in Seq(Mail) /\ Avoids(mid(to), For(r))
        BY <1>3, <1>10, <2>6, <3>1
      <4>2. Once(Append(mid(to), put), For(r), put)
        BY <2>4, <4>1, AppendQueue
      <4> QED BY <2>3, <3>1, <4>2
    <3>4. \A v \in Workers : v # to => Avoids(worker'[v].immediate, For(r))
      BY <1>10, <2>3, <2>6
    <3>5. OneMail(r, to, put)'
      BY <3>3, <3>4 DEF OneMail
    <3>6. OneMail(r, to, Put(r, to))'
      BY <2>2, <3>5
    <3> QED BY <3>1, <3>2, <3>6 DEF Coming
  <2>7. PackedAt(r)'
    BY <1>8, <1>12, <2>6 DEF PackedAt, Carried
  <2> QED BY <2>5, <2>7 DEF Packed
<1>14. CASE m.task # "take"
  <2>1. \A v \in Workers :
          /\ worker'[v].specifics = IF v = w THEN worker[v].specifics \union {r} ELSE worker[v].specifics
          /\ worker'[v].immediate = mid(v)
    <3>1. RunPut(w, m)
      BY <1>14, <1>6
    <3> QED BY <1>1, <1>7, <1>5, <3>1 DEF RunPut, WorkerRecords
  <2> HIDE DEF mid
  <2>2. ASSUME NEW q \in Runners, q # r PROVE PackedAt(q)'
    <3>1. \A v \in Workers : q \in worker'[v].specifics <=> q \in worker[v].specifics
      BY <2>1, <2>2
    <3>2. Untouched(q)
      BY <1>9, <2>1, <2>2, <3>1 DEF Untouched
    <3> QED BY <1>11, <3>2, PackedFrame DEF Packed
  <2>3. ASSUME Followed(r) PROVE Resting(r)'
    <3>1. AtHome(r, w)' /\ StoredNowhere(r)
      BY <1>7, <1>8, <1>12, <1>14, <2>3
    <3>2. StoredAt(r, w)'
      BY <2>1, <3>1 DEF StoredAt, StoredNowhere
    <3>3. NoMail(r)'
      BY <1>10, <2>1, <2>3 DEF NoMail
    <3> QED BY <3>1, <3>2, <3>3 DEF Resting
  <2>4. PackedAt(r)'
    BY <1>8, <1>12, <2>3 DEF PackedAt, Carried
  <2> QED BY <2>2, <2>4 DEF Packed
<1> QED BY <1>13, <1>14

LEMMA PackedThread ==
  ASSUME Inv, Packed, NEW w \in Workers, ThreadStep(w)
  PROVE  Packed'
<1>1. TypeOK /\ worker \in [Workers -> WorkerRecords]
  BY InvParts, TypeParts
<1>2. CASE RunImmediateTask(w)
  BY <1>1, <1>2, PackedImmediate
<1>3. CASE Schedule(w)
  <2>1. UNCHANGED <<runner, history>>
    BY <1>3 DEF Schedule, Fail
  <2>2. \A v \in Workers : /\ worker'[v].immediate = worker[v].immediate
                           /\ worker'[v].specifics = worker[v].specifics
    <3>1. CASE Fail("empty_group")
      BY <3>1 DEF Fail
    <3>2. CASE ~Fail("empty_group")
      <4>1. PICK gs : worker' = Scheduled(w, gs)
        BY <1>3, <3>2 DEF Schedule
      <4> QED BY <1>1, <4>1 DEF Scheduled, WorkerRecords
    <3> QED BY <3>1, <3>2
  <2>3. \A q \in Runners : Ages(q)
    BY <2>1, SameAges
  <2> QED BY <2>2, <2>3, PackedSame
<1>4. CASE ClearNeedBalance(w)
  <2>1. UNCHANGED <<worker, runner, history>>
    BY <1>4 DEF ClearNeedBalance
  <2>2. \A q \in Runners : Ages(q)
    BY <2>1, SameAges
  <2> QED BY <2>1, <2>2, PackedSame
<1> QED BY <1>2, <1>3, <1>4 DEF ThreadStep

\* ClearTaskRunnerSpecific at worker v, of a runner that is not followed then.
LEMMA PackedDestroy ==
  ASSUME Inv, Packed, NEW v \in Workers, NEW r \in Runners, WorkerDestroySpecific(v, r),
         ~Followed(r)', Early(r)' => Early(r), \A q \in Runners : q # r => Ages(q)
  PROVE  Packed'
<1>1. worker \in [Workers -> WorkerRecords]
  BY InvParts, TypeParts
<1>2. \A w \in Workers :
        /\ worker'[w].immediate = worker[w].immediate
        /\ worker'[w].specifics = IF w = v THEN worker[w].specifics \ {r} ELSE worker[w].specifics
  BY <1>1 DEF WorkerDestroySpecific, WorkerRecords
<1>3. ASSUME NEW q \in Runners, q # r PROVE PackedAt(q)'
  <2>1. Untouched(q)
    BY <1>2, <1>3 DEF Untouched
  <2> QED BY <1>3, <2>1, PackedFrame DEF Packed
<1>4. PackedAt(r)'
  <2>1. NoMail(r) => NoMail(r)'
    BY <1>2 DEF NoMail
  <2>2. StoredNowhere(r) => StoredNowhere(r)'
    BY <1>2 DEF StoredNowhere
  <2> QED BY <2>1, <2>2 DEF Packed, PackedAt
<1> QED BY <1>3, <1>4 DEF Packed

LEMMA PackedTask ==
  ASSUME Inv, Packed, NEW w \in Workers, NEW r \in Runners, TaskStep(w, r)
  PROVE  Packed'
<1>1. TypeOK /\ history \in [Causes -> SUBSET Runners] /\ runner \in [Runners -> RunnerRecords]
  BY InvParts, TypeParts
<1>2. CASE UseSpecificsUnbound(w, r)
  <2>1. UNCHANGED <<worker, runner, history>>
    BY <1>2 DEF UseSpecificsUnbound, Fail
  <2>2. \A q \in Runners : Ages(q)
    BY <2>1, SameAges
  <2> QED BY <2>1, <2>2, PackedSame
<1>3. CASE RunnerDestroySpecifics(w, r)
  <2>1. /\ runner[r].worker_ \in Workers /\ WorkerDestroySpecific(runner[r].worker_, r)
        /\ UNCHANGED runner
    BY <1>1, <1>3 DEF RunnerDestroySpecifics, RunnerRecords
  <2>2. /\ history'["again"] = history["again"] /\ history'["strayed"] = history["strayed"]
        /\ history'["wiped"] = history["wiped"] \union {r}
    BY <1>1, <1>3 DEF RunnerDestroySpecifics, Causes
  <2>3. ~Followed(r)' /\ (Early(r)' => Early(r))
    BY <2>1, <2>2 DEF Followed, Early
  <2>4. \A q \in Runners : q # r => Ages(q)
    BY <2>1, <2>2 DEF Ages, Followed, InNoGroup, Early
  <2> QED BY <2>1, <2>3, <2>4, PackedDestroy
<1> QED BY <1>2, <1>3 DEF TaskStep

LEMMA PackedCreate ==
  ASSUME Inv, Kept, Packed, NEW r \in Runners,
         \/ CreateLoose(r) \/ CreateInNoGroup(r) \/ CreateInGroup(r) \/ PickWorker(r)
         \/ BindPicked(r)
  PROVE  Packed'
<1>0. /\ TypeOK /\ Sized /\ worker \in [Workers -> WorkerRecords]
      /\ runner \in [Runners -> RunnerRecords] /\ index_ \in Nat
  BY InvParts, TypeParts DEF Numbers
<1>1. ASSUME NEW why, Fail(why) PROVE Packed'
  <2>1. \A q \in Runners : Ages(q)
    BY <1>1, SameAges DEF Fail
  <2> QED BY <1>1, <2>1, PackedSame DEF Fail
<1>2. CASE CreateLoose(r)
  <2>1. \A q \in Runners : Ages(q)
    <3> TAKE q \in Runners
    <3>1. runner'[q] = runner[q] \/ (runner'[q].life # "bound" /\ (Early(q)' => Early(q)))
      BY <1>0, <1>2 DEF CreateLoose, Early, RunnerRecords
    <3> QED BY <1>2, <3>1, SameAges DEF CreateLoose
  <2> QED BY <1>2, <2>1, PackedSame DEF CreateLoose
<1>3. CASE CreateInGroup(r)
  <2>1. CASE ~Fail("race")
    <3>1. \A q \in Runners : Ages(q)
      <4> TAKE q \in Runners
      <4>1. runner'[q] = runner[q] \/ (runner'[q].life # "bound" /\ (Early(q)' => Early(q)))
        BY <1>0, <1>3, <2>1 DEF CreateInGroup, Early, RunnerRecords
      <4> QED BY <1>3, <2>1, <4>1, SameAges DEF CreateInGroup
    <3> QED BY <1>3, <2>1, <3>1, PackedSame DEF CreateInGroup
  <2> QED BY <1>1, <2>1
<1>4. CASE PickWorker(r)
  <2>1. CASE ~Fail("out_of_range")
    <3>1. \A q \in Runners : Ages(q)
      <4> TAKE q \in Runners
      <4>1. runner'[q] = runner[q] \/ (runner'[q].life # "bound" /\ (Early(q)' => Early(q)))
        BY <1>0, <1>4, <2>1 DEF PickWorker, Early, RunnerRecords
      <4> QED BY <1>4, <2>1, <4>1, SameAges DEF PickWorker
    <3> QED BY <1>4, <2>1, <3>1, PackedSame DEF PickWorker
  <2> QED BY <1>1, <2>1
<1>5. CASE BindPicked(r)
  <2>1. ~InNoGroup(r)
    BY <1>5 DEF BindPicked, Kept, Kinds, InNoGroup
  <2>2. \A q \in Runners : Ages(q)
    <3> TAKE q \in Runners
    <3>1. runner'[q] = runner[q] \/ (q = r /\ runner'[q].life = "bound")
      BY <1>0, <1>5 DEF BindPicked, RunnerRecords
    <3>2. runner'[q] = runner[q] \/ (~InNoGroup(q) /\ (Early(q)' => Early(q)))
      BY <2>1, <3>1 DEF Early
    <3> QED BY <1>5, <3>2, SameAges DEF BindPicked
  <2>3. \A v \in Workers : /\ worker'[v].immediate = worker[v].immediate
                           /\ worker'[v].specifics = worker[v].specifics
    BY <1>0, <1>5 DEF BindPicked, Bind, WorkerRecords
  <2> QED BY <2>2, <2>3, PackedSame
<1>6. CASE CreateInNoGroup(r)
  <2>1. CASE ~Fail("out_of_range")
    <3>1. PICK w \in Workers : w = index_
      BY <1>0, <1>6, <2>1, InWorkers DEF CreateInNoGroup
    <3>2. /\ runner[r].life = "new" /\ UNCHANGED history
          /\ worker' = [Bind(w, <<r>>) EXCEPT ![w].specifics = @ \union {r}]
          /\ runner' = [runner EXCEPT ![r].worker_ = w, ![r].life = "bound"]
      BY <1>6, <2>1, <3>1 DEF CreateInNoGroup, AddTaskRunner
    <3>3. /\ runner'[r].life = "bound" /\ runner'[r].worker_ = w
          /\ \A q \in Runners : q # r => runner'[q] = runner[q]
      BY <1>0, <3>2 DEF RunnerRecords
    <3>4. \A v \in Workers :
            /\ worker'[v].immediate = worker[v].immediate
            /\ worker'[v].specifics = IF v = w THEN worker[v].specifics \union {r}
                                               ELSE worker[v].specifics
      BY <1>0, <3>2 DEF Bind, WorkerRecords
    <3>5. ASSUME NEW q \in Runners, q # r PROVE PackedAt(q)'
      <4>1. \A v \in Workers : q \in worker'[v].specifics <=> q \in worker[v].specifics
        BY <3>4, <3>5
      <4>2. Untouched(q)
        BY <3>4, <4>1 DEF Untouched
      <4>3. Ages(q)
        BY <3>2, <3>3, <3>5, SameAges
      <4> QED BY <4>2, <4>3, PackedFrame DEF Packed
    <3>6. NoMail(r) /\ StoredNowhere(r)
      BY <3>2 DEF Packed, PackedAt, Early
    <3>7. NoMail(r)' /\ StoredAt(r, w)' /\ AtHome(r, w)'
      BY <3>3, <3>4, <3>6 DEF NoMail, StoredNowhere, StoredAt, AtHome
    <3>8. PackedAt(r)'
      BY <3>3, <3>7 DEF PackedAt, Carried, Resting, Early
    <3> QED BY <3>5, <3>8 DEF Packed
  <2> QED BY <1>1, <2>1
<1> QED BY <1>2, <1>3, <1>4, <1>5, <1>6

LEMMA PackedRunner ==
  ASSUME Inv, Kept, Packed, NEW r \in Runners, RunnerCall(r) \/ DestroyRunner(r)
  PROVE  Packed'
<1>0. /\ TypeOK /\ worker \in [Workers -> WorkerRecords] /\ runner \in [Runners -> RunnerRecords]
      /\ history \in [Causes -> SUBSET Runners]
  BY InvParts, TypeParts
<1>1. ASSUME NEW why, Fail(why) PROVE Packed'
  <2>1. \A q \in Runners : Ages(q)
    BY <1>1, SameAges DEF Fail
  <2> QED BY <1>1, <2>1, PackedSame DEF Fail
<1>2. CASE \/ CreateLoose(r) \/ CreateInNoGroup(r) \/ CreateInGroup(r)
           \/ PickWorker(r) \/ BindPicked(r)
  BY <1>2, PackedCreate
<1>3. ASSUME NEW ws, UnBindRunning(ws, r) \/ UnBindPending(ws, r) \/ worker' = worker
      PROVE  \A v \in Workers : /\ worker'[v].immediate = worker[v].immediate
                                /\ worker'[v].specifics = worker[v].specifics
  BY <1>0, <1>3 DEF UnBindRunning, UnBindPending, WorkerRecords
<1>31. ASSUME NEW found, NEW cause \in {"none", "missed", "slipped"}, UnBound(r, found, cause)
       PROVE  \A q \in Runners : Ages(q)
  <2>1. /\ runner' = [runner EXCEPT ![r].life = "removed"]
        /\ \A c \in {"again", "wiped", "strayed"} : history'[c] = history[c]
    BY <1>0, <1>31 DEF UnBound, Causes
  <2> TAKE q \in Runners
  <2>2. runner'[q] = runner[q] \/ (runner'[q].life # "bound" /\ ~Early(q)')
    BY <1>0, <2>1 DEF Early, RunnerRecords
  <2> QED BY <2>1, <2>2, SameAges
<1>32. ASSUME UNCHANGED <<worker, runner, history>> PROVE Packed'
  <2>1. \A q \in Runners : Ages(q)
    BY <1>32, SameAges
  <2> QED BY <1>32, <2>1, PackedSame
<1>4. CASE RemoveTaskRunner(r) \/ RemoveFromPending(r)
  <2> DEFINE ws == 0..(count - 1)
  <2>1. \/ UNCHANGED <<worker, runner, history>>
        \/ UnBindRunning(ws, r) /\ UnBound(r, InRunning(ws, r), "none")
        \/ UnBindPending(ws, r) /\ UnBound(r, InPending(ws, r), "missed")
    BY <1>4 DEF RemoveTaskRunner, RemoveFromPending
  <2> HIDE DEF ws
  <2> QED BY <1>3, <1>31, <1>32, <2>1, PackedSame
<1>41. CASE UnBindSub(r) \/ UnBindSubPending(r)
  <2> DEFINE w == unbinding[r].worker
  <2>1. \/ UNCHANGED <<worker, runner, history>>
        \/ UnBindRunning({w}, r) /\ UnBound(r, TRUE, "none")
        \/ UnBindPending({w}, r) /\ UnBound(r, InPending({w}, r), unbinding[r].cause)
    BY <1>41 DEF UnBindSub, UnBindSubPending
  <2>2. unbinding[r].cause \in {"none", "missed", "slipped"}
    BY <1>0, TypeParts DEF Extras, UnBindRecords
  <2> HIDE DEF w
  <2> QED BY <1>3, <1>31, <1>32, <2>1, <2>2, PackedSame
<1>42. CASE ClearHasSubRunner(r)
  <2> DEFINE f == unbinding[r].father
             A == Above(f)
  <2>1. /\ UNCHANGED worker /\ runner' = [runner EXCEPT ![f].has_sub_runner = FALSE]
        /\ history' = [history EXCEPT
             !["cleared"] = IF A \subseteq {r} THEN @ ELSE @ \union {f}]
    BY <1>42 DEF ClearHasSubRunner
  <2> HIDE DEF f, A
  <2>2. \A c \in {"again", "wiped", "strayed"} : history'[c] = history[c]
    BY <1>0, <2>1 DEF Causes
  <2>3. ASSUME NEW q \in Runners PROVE Ages(q)
    <3>1. runner'[q].life = runner[q].life /\ runner'[q].worker_ = runner[q].worker_
      BY <1>0, <2>1 DEF RunnerRecords
    <3> QED BY <2>2, <3>1, SameAges
  <2> QED BY <2>1, <2>3, PackedSame
<1>5. CASE DestroyRunner(r)
  <2>1. runner' = [runner EXCEPT ![r].life = "destroyed"] /\ UNCHANGED history
    BY <1>5 DEF DestroyRunner
  <2>2. /\ runner'[r].life = "destroyed"
        /\ \A q \in Runners : q # r => runner'[q] = runner[q]
    BY <1>0, <2>1 DEF RunnerRecords
  <2>3. \A q \in Runners : Ages(q)
    BY <2>1, <2>2, SameAges DEF Early
  <2>4. CASE UNCHANGED worker
    BY <2>3, <2>4, PackedSame
  <2>5. CASE WorkerDestroySpecific(runner[r].worker_, r) /\ runner[r].worker_ \in Workers
    <3>1. ~Followed(r)' /\ ~Early(r)'
      BY <2>2 DEF Followed, Early
    <3> QED BY <2>3, <2>5, <3>1, PackedDestroy
  <2> QED BY <1>0, <1>5, <2>4, <2>5 DEF DestroyRunner, RunnerRecords
<1>6. ASSUME NEW s \in Runners, AddSubTaskRunner(r, s) PROVE Packed'
  <2>1. CASE ~Fail("bind_end")
    <3>1. /\ runner[s].life = "loose" /\ BindGroup(runner[r].worker_, r, s) /\ UNCHANGED history
          /\ runner[r].life = "bound"
          /\ runner' = [runner EXCEPT ![r].has_sub_runner = TRUE, ![s].life = "bound"]
      BY <1>6, <2>1 DEF AddSubTaskRunner
    <3>2. ~InNoGroup(s)
      BY <3>1 DEF Kept, Kinds, InNoGroup
    <3>3. \A q \in Runners : Ages(q)
      <4> TAKE q \in Runners
      <4>1. CASE q = s
        <5>1. runner'[q].life = "bound"
          BY <1>0, <3>1, <4>1 DEF RunnerRecords
        <5> QED BY <3>1, <3>2, <4>1, <5>1, SameAges DEF Early
      <4>2. CASE q # s
        <5>1. runner'[q].life = runner[q].life /\ runner'[q].worker_ = runner[q].worker_
          BY <1>0, <3>1, <4>2 DEF RunnerRecords
        <5> QED BY <3>1, <5>1, SameAges
      <4> QED BY <4>1, <4>2
    <3>4. \A v \in Workers : /\ worker'[v].immediate = worker[v].immediate
                             /\ worker'[v].specifics = worker[v].specifics
      BY <1>0, <3>1 DEF BindGroup, WorkerRecords
    <3> QED BY <3>3, <3>4, PackedSame
  <2> QED BY <1>1, <2>1
<1>7. ASSUME NEW s \in Runners, RemoveSubTaskRunner(r, s) \/ AddBoundTaskRunner(r, s)
      PROVE  Packed'
  BY <1>32, <1>7 DEF RemoveSubTaskRunner, AddBoundTaskRunner, Fail
<1> QED BY <1>2, <1>4, <1>41, <1>42, <1>5, <1>6, <1>7 DEF RunnerCall

LEMMA PackedManager ==
  ASSUME Inv, Packed, ManagerCall
  PROVE  Packed'
<1>0. worker \in [Workers -> WorkerRecords]
  BY InvParts, TypeParts
<1>1. UNCHANGED <<runner, history>>
  BY DEF ManagerCall, ResizeUp, ResizeDown, AddWorker, Terminate
<1>2. \A q \in Runners : Ages(q)
  BY <1>1, SameAges
<1>3. CASE UNCHANGED worker
  BY <1>2, <1>3, PackedSame
<1>4. ASSUME NEW w \in Workers, Terminate(w) PROVE Packed'
  <2>1. \A v \in Workers : /\ worker'[v].immediate = worker[v].immediate
                           /\ worker'[v].specifics = worker[v].specifics
    BY <1>0, <1>4 DEF Terminate, WorkerRecords
  <2> QED BY <1>2, <2>1, PackedSame
<1> QED BY <1>3, <1>4 DEF ManagerCall, ResizeUp, ResizeDown, AddWorker

\* The steps of Balance that move only groups.
LEMMA PackedMoves ==
  ASSUME Inv, Packed, BalanceStep, ~Deal, ~Repoint
  PROVE  Packed'
<1>0. worker \in [Workers -> WorkerRecords]
  BY InvParts, TypeParts
<1> USE DEF BalanceStep, CreateWorkers, CountGroups, Retain, Recount, UnBindWorker,
            UnBindWorkerPending, UnBindEnd, Keep, Rebind, ShrinkEnd, Fail
<1>1. UNCHANGED <<runner, history>>
  OBVIOUS
<1>2. \A q \in Runners : Ages(q)
  BY <1>1, SameAges
<1>3. \/ UNCHANGED worker
      \/ worker' = TakePending(balance.i)
      \/ worker' = [worker EXCEPT ![balance.i].running = <<>>]
      \/ worker' = Bind(index_, Head(balance.groups))
  OBVIOUS
<1> HIDE DEF BalanceStep
<1>4. \A v \in Workers : /\ worker'[v].immediate = worker[v].immediate
                         /\ worker'[v].specifics = worker[v].specifics
  <2>1. CASE UNCHANGED worker
    BY <2>1
  <2>2. CASE worker' = TakePending(balance.i)
    BY <1>0, <2>2 DEF TakePending, WorkerRecords
  <2>3. CASE worker' = [worker EXCEPT ![balance.i].running = <<>>]
    BY <1>0, <2>3 DEF WorkerRecords
  <2>4. CASE worker' = Bind(index_, Head(balance.groups))
    BY <1>0, <2>4 DEF Bind, WorkerRecords
  <2> QED BY <1>3, <2>1, <2>2, <2>3, <2>4
<1> QED BY <1>2, <1>4, PackedSame

\* The messages that reach worker v when the runners in moved are sent to w: one
\* for each of them whose worker_ is v.
Sends(v, moved, w) ==
  \E p \in Seq(Mail) :
    /\ worker'[v].immediate = worker[v].immediate \o p
    /\ \A r \in Runners : IF r \in moved /\ runner[r].worker_ = v
                            THEN Once(p, For(r), Take(r, w)) ELSE Avoids(p, For(r))

LEMMA DealtMail ==
  ASSUME TypeOK, NEW w \in Workers, NEW list, GroupList(list),
         \A i \in DOMAIN list : IsInjective(list[i]), worker' = MoveTo(w, list),
         NEW v \in Workers
  PROVE  /\ worker'[v].specifics = worker[v].specifics
         /\ Sends(v, RunnersOf(list), w)
<1> DEFINE rs == FlattenSeq(list)
           ts == [k \in DOMAIN rs |->
                    IF runner[rs[k]].worker_ = v THEN <<Take(rs[k], w)>> ELSE <<>>]
           p == FlattenSeq(ts)
<1>1. /\ worker \in [Workers -> WorkerRecords] /\ list \in Seq(Seq(Runners))
      /\ \A i \in DOMAIN list : list[i] \in Seq(Runners)
  BY TypeParts DEF GroupList, Lists
<1>2. rs \in Seq(Runners)
  BY <1>1, Flattened
<1>3. /\ worker'[v].specifics = worker[v].specifics
      /\ worker'[v].immediate = worker[v].immediate \o p
  <2> DEFINE old == BindList(w, list)[v]
  <2>1. worker'[v] = [old EXCEPT !.immediate = @ \o p]
    BY DEF MoveTo
  <2>2. /\ old \in [running : Lists, pending : {old.pending}, group_id : GroupIds(Runners),
                    immediate : Seq(Mail), specifics : SUBSET Runners, ended : BOOLEAN]
        /\ old.specifics = worker[v].specifics /\ old.immediate = worker[v].immediate
    BY <1>1 DEF BindList, WorkerRecords
  <2> HIDE DEF old, p
  <2> QED BY <2>1, <2>2
<1>4. ASSUME NEW r \in Runners, r \notin RunnersOf(list) PROVE Avoids(rs, {r})
  <2>1. \A i \in DOMAIN list : Avoids(list[i], {r})
    BY <1>4, InRunnersOf DEF Avoids, Range
  <2> QED BY <1>1, <2>1, FlattenAvoids
<1>5. ASSUME NEW r \in Runners, r \in RunnersOf(list) PROVE Once(rs, {r}, r)
  <2>1. PICK h \in DOMAIN list : r \in Range(list[h])
    BY <1>5, InRunnersOf
  <2>2. \A i \in DOMAIN list : i # h => Avoids(list[i], {r})
    BY <2>1 DEF GroupList, Avoids, Range
  <2>3. Once(list[h], {r}, r)
    BY <2>1 DEF Once, Range, IsInjective
  <2> QED BY <1>1, <2>2, <2>3, FlattenOnce
<1> HIDE DEF rs
<1>6. DOMAIN rs = 1..Len(rs) /\ Len(rs) \in Nat /\ \A k \in DOMAIN rs : rs[k] \in Runners
  BY <1>2
<1>7. ASSUME NEW r \in Runners
      PROVE  /\ Take(r, w) \in Mail /\ <<Take(r, w)>> \in Seq(Mail)
             /\ Once(<<Take(r, w)>>, For(r), Take(r, w))
             /\ \A q : q # r => Avoids(<<Take(r, w)>>, For(q))
  <2>1. PICK m \in Mail : m = Take(r, w) /\ m \in For(r) /\ \A q : q # r => m \notin For(q)
    BY Messages
  <2>2. /\ <<m>> \in Seq(Mail) /\ DOMAIN <<m>> = {1} /\ <<m>>[1] = m
    OBVIOUS
  <2>3. Once(<<m>>, For(r), m) /\ \A q : q # r => Avoids(<<m>>, For(q))
    BY <2>1, <2>2 DEF Once, Avoids
  <2> QED BY <2>1, <2>2, <2>3
<1>8. <<>> \in Seq(Mail) /\ \A q : Avoids(<<>>, For(q))
  BY DEF Avoids
<1>9. ts \in Seq(Seq(Mail)) /\ DOMAIN ts = DOMAIN rs
  <2>1. ts \in [1..Len(rs) -> Seq(Mail)] /\ DOMAIN ts = DOMAIN rs
    BY <1>6, <1>7, <1>8
  <2> HIDE DEF ts
  <2> QED BY <1>6, <2>1
<1>10. p \in Seq(Mail)
  <2> HIDE DEF ts
  <2> QED BY <1>9, Flattened
<1>11. ASSUME NEW r \in Runners, NEW k \in DOMAIN rs, rs[k] # r PROVE Avoids(ts[k], For(r))
  BY <1>6, <1>7, <1>8, <1>11
<1>12. ASSUME NEW r \in Runners, ~(r \in RunnersOf(list) /\ runner[r].worker_ = v)
       PROVE  Avoids(p, For(r))
  <2>1. ASSUME NEW k \in DOMAIN rs PROVE Avoids(ts[k], For(r))
    <3>1. CASE rs[k] # r
      BY <1>11, <3>1
    <3>2. CASE rs[k] = r
      <4>1. r \in RunnersOf(list)
        BY <1>4, <3>2 DEF Avoids
      <4>2. ts[k] = <<>>
        BY <1>12, <3>2, <4>1
      <4> QED BY <1>8, <4>2
    <3> QED BY <3>1, <3>2
  <2> HIDE DEF ts
  <2> QED BY <1>9, <2>1, FlattenAvoids
<1>13. ASSUME NEW r \in Runners, r \in RunnersOf(list), runner[r].worker_ = v
       PROVE  Once(p, For(r), Take(r, w))
  <2>1. PICK h \in DOMAIN rs : rs[h] = r /\ \A j \in DOMAIN rs : rs[j] \in {r} <=> j = h
    BY <1>5, <1>13 DEF Once
  <2>2. ts[h] = <<Take(r, w)>>
    BY <1>13, <2>1
  <2>3. \A k \in DOMAIN rs : k # h => Avoids(ts[k], For(r))
    BY <1>11, <2>1
  <2>4. Once(ts[h], For(r), Take(r, w))
    BY <1>7, <2>2
  <2> HIDE DEF ts
  <2> QED BY <1>9, <2>3, <2>4, FlattenOnce
<1> HIDE DEF p
<1> QED BY <1>3, <1>10, <1>12, <1>13 DEF Sends

LEMMA NotInFlight ==
  ASSUME TypeOK, NEW r \in Runners, r \notin InFlight
  PROVE  NoMail(r)
  BY DEF InFlight, NoMail, Avoids, For

\* A followed runner that is not adrift has its specifics where worker_ points.
LEMMA Anchored ==
  ASSUME TypeOK, Packed, NEW r \in Runners, Followed(r), r \notin Adrift
  PROVE  NoMail(r) /\ runner[r].worker_ \in Workers /\ StoredAt(r, runner[r].worker_)
<1>1. NoMail(r) /\ r \notin history["strayed"]
  BY NotInFlight DEF Adrift
<1>2. \A w \in Workers : \A m : ~OneMail(r, w, m)
  <2> TAKE w \in Workers
  <2> TAKE m
  <2>1. Avoids(worker[w].immediate, For(r))
    BY <1>1 DEF NoMail
  <2>2. ~Once(worker[w].immediate, For(r), m)
    BY <2>1 DEF Avoids, Once
  <2> QED BY <2>2 DEF OneMail
<1>3. Resting(r)
  BY <1>2 DEF Packed, PackedAt, Carried, Leaving, Coming
<1>4. PICK w \in Workers : StoredAt(r, w) /\ AtHome(r, w)
  BY <1>3 DEF Resting
<1>5. w = runner[r].worker_
  BY <1>1, <1>4 DEF AtHome
<1> QED BY <1>1, <1>4, <1>5

LEMMA PackedDeal ==
  ASSUME Inv, Kept, Packed, Deal
  PROVE  Packed'
<1>0. /\ TypeOK /\ Sized /\ Placed /\ worker \in [Workers -> WorkerRecords]
      /\ balance \in BalanceRecords /\ history \in [Causes -> SUBSET Runners]
  BY InvParts, TypeParts
<1>1. CASE Fail("no_worker")
  <2>1. \A q \in Runners : Ages(q)
    BY <1>1, SameAges DEF Fail
  <2> QED BY <1>1, <2>1, PackedSame DEF Fail
<1>2. CASE ~Fail("no_worker")
  <2> DEFINE turn == (size_ + balance.i) % balance.target
             rest == SubSeq(balance.groups, Share(turn) + 1, Len(balance.groups))
             last == balance.i + 1 = balance.target
  <2>1. balance.step = "deal"
    BY DEF Deal
  <2>2. turn \in Workers /\ Share(turn) \in 0..Len(balance.groups)
    BY <1>0, <2>1, Turn
  <2>3. PICK w \in Workers : w = turn
    BY <2>2
  <2>4. PICK list : list = SubSeq(balance.groups, 1, Share(turn))
    OBVIOUS
  <2>5. PICK moved : moved = RunnersOf(list)
    OBVIOUS
  <2>6. /\ worker' = MoveTo(w, list) /\ UNCHANGED runner
        /\ history' = [history EXCEPT
             !["again"] = @ \union (moved \intersect Adrift),
             !["strayed"] = (@ \ moved) \union {r \in moved : runner[r].worker_ # w},
             !["dropped"] = IF last THEN @ \union RunnersOf(rest) ELSE @]
    BY <1>2, <2>3, <2>4, <2>5 DEF Deal
  <2>7. Held = balance.groups /\ GroupList(balance.groups)
    BY <1>0, <2>1, <2>2, Disjoint DEF Placed, Held
  <2>8. GroupList(list) /\ moved \subseteq RunnersOf(balance.groups)
    BY <2>2, <2>4, <2>5, <2>7, Cut
  <2>9. \A i \in DOMAIN list : IsInjective(list[i])
    <3>1. Range(list) \subseteq Range(balance.groups)
      <4>1. Range(balance.groups) = Range(list) \union Range(rest)
        BY <2>2, <2>4, <2>7, RangeCut DEF GroupList, Lists
      <4> QED BY <4>1
    <3>2. Range(balance.groups) \subseteq AllGroups
      BY <2>7 DEF AllGroups
    <3>3. \A i \in DOMAIN list : list[i] \in AllGroups
      BY <3>1, <3>2 DEF Range
    <3> QED BY <3>3 DEF Kept, Solid
  <2> HIDE DEF turn, rest, last
  <2>10. /\ history'["again"] = history["again"] \union (moved \intersect Adrift)
         /\ history'["strayed"] = (history["strayed"] \ moved)
                                    \union {r \in moved : runner[r].worker_ # w}
         /\ history'["wiped"] = history["wiped"]
    BY <1>0, <2>6 DEF Causes
  <2>11. ASSUME NEW v \in Workers
         PROVE  /\ worker'[v].specifics = worker[v].specifics
                /\ worker[v].immediate \in Seq(Mail) /\ Sends(v, moved, w)
    <3>1. worker[v].immediate \in Seq(Mail)
      BY <1>0, MailTypes
    <3>2. worker'[v].specifics = worker[v].specifics /\ Sends(v, RunnersOf(list), w)
      BY <1>0, <2>6, <2>8, <2>9, DealtMail
    <3> QED BY <2>5, <3>1, <3>2
  <2>12. ASSUME NEW r \in Runners, r \notin moved PROVE PackedAt(r)'
    <3>1. Untouched(r)
      <4> SUFFICES ASSUME NEW v \in Workers
                   PROVE  /\ r \in worker'[v].specifics <=> r \in worker[v].specifics
                          /\ Avoids(worker[v].immediate, For(r))
                               => Avoids(worker'[v].immediate, For(r))
                          /\ \A m : Once(worker[v].immediate, For(r), m)
                                      => Once(worker'[v].immediate, For(r), m)
        BY DEF Untouched
      <4>1. PICK p \in Seq(Mail) : /\ worker'[v].immediate = worker[v].immediate \o p
                                   /\ Avoids(p, For(r))
        BY <2>11, <2>12 DEF Sends
      <4>2. worker[v].immediate \in Seq(Mail) /\ worker'[v].specifics = worker[v].specifics
        BY <2>11
      <4> QED BY <4>1, <4>2, JoinQueues
    <3>2. Ages(r)
      BY <2>6, <2>10, <2>12 DEF Ages, Followed, InNoGroup, Early
    <3> QED BY <3>1, <3>2, PackedFrame DEF Packed
  <2>13. ASSUME NEW r \in Runners, r \in moved PROVE PackedAt(r)'
    <3>1. ~Early(r)'
      BY <1>0, <2>6, <2>8, <2>13 DEF Placed, Lives, Early
    <3>2. ASSUME Followed(r)' PROVE Leaving(r)'
      <4>1. Followed(r) /\ r \notin Adrift
        BY <2>6, <2>10, <2>13, <3>2 DEF Followed, InNoGroup
      <4>2. NoMail(r) /\ runner[r].worker_ \in Workers /\ StoredAt(r, runner[r].worker_)
        BY <1>0, <4>1, Anchored
      <4>3. PICK v \in Workers : v = runner[r].worker_
        BY <4>2
      <4>4. StoredAt(r, v)'
        BY <2>11, <4>2, <4>3 DEF StoredAt
      <4>5. AtHome(r, w)'
        BY <2>6, <2>10, <2>13 DEF AtHome
      <4>6. Once(worker'[v].immediate, For(r), Take(r, w))
        <5>1. PICK p \in Seq(Mail) : /\ worker'[v].immediate = worker[v].immediate \o p
                                     /\ Once(p, For(r), Take(r, w))
          BY <2>11, <2>13, <4>3 DEF Sends
        <5>2. worker[v].immediate \in Seq(Mail) /\ Avoids(worker[v].immediate, For(r))
          BY <2>11, <4>2 DEF NoMail
        <5> QED BY <5>1, <5>2, JoinQueues
      <4>7. ASSUME NEW x \in Workers, x # v PROVE Avoids(worker'[x].immediate, For(r))
        <5>1. PICK p \in Seq(Mail) : /\ worker'[x].immediate = worker[x].immediate \o p
                                     /\ Avoids(p, For(r))
          BY <2>11, <2>13, <4>3, <4>7 DEF Sends
        <5>2. worker[x].immediate \in Seq(Mail) /\ Avoids(worker[x].immediate, For(r))
          BY <2>11, <4>2 DEF NoMail
        <5> QED BY <5>1, <5>2, JoinQueues
      <4>8. OneMail(r, v, Take(r, w))'
        BY <4>6, <4>7 DEF OneMail, Take
      <4> QED BY <2>6, <4>3, <4>4, <4>5, <4>8 DEF Leaving
    <3> QED BY <3>1, <3>2 DEF PackedAt, Carried
  <2> QED BY <2>12, <2>13 DEF Packed
<1> QED BY <1>1, <1>2

LEMMA PackedRepoint ==
  ASSUME Inv, Packed, Repoint
  PROVE  Packed'
<1>0. /\ TypeOK /\ Sized /\ Placed /\ worker \in [Workers -> WorkerRecords]
      /\ runner \in [Runners -> RunnerRecords]
      /\ balance \in BalanceRecords /\ history \in [Causes -> SUBSET Runners]
  BY InvParts, TypeParts
<1>1. balance.step = "repoint"
  BY DEF Repoint
<1>2. PICK w \in Workers : w = index_
  BY <1>0, <1>1, InWorkers
<1>3. PICK moved : moved = Range(Head(balance.groups))
  OBVIOUS
<1>4. PICK owned : owned = {r \in moved : runner[r].worker_ # NoWorker}
  OBVIOUS
<1>5. /\ worker' = [[v \in Workers |-> [worker[v] EXCEPT
                       !.specifics = {r \in @ : r \notin owned \/ runner[r].worker_ # v}]]
                     EXCEPT ![w].specifics = @ \union owned]
      /\ runner' = [r \in Runners |-> IF r \in moved
                      THEN [runner[r] EXCEPT !.worker_ = w] ELSE runner[r]]
      /\ history' = [history EXCEPT !["again"] = @ \union (moved \intersect Adrift),
                                    !["strayed"] = @ \ moved]
  BY <1>2, <1>3, <1>4 DEF Repoint
<1>6. ASSUME NEW r \in moved PROVE ~Early(r)
  <2>1. balance.groups # <<>> /\ balance.groups \in Lists
    BY <1>0, <1>1 DEF Sized, BalanceRecords
  <2>2. Head(balance.groups) = balance.groups[1] /\ 1 \in DOMAIN balance.groups
    BY <2>1 DEF Lists
  <2>3. r \in RunnersOf(balance.groups)
    BY <1>3, <2>2, InRunnersOf
  <2> QED BY <1>0, <2>3 DEF Placed, Lives
<1>7. ASSUME NEW v \in Workers
      PROVE  /\ worker'[v].immediate = worker[v].immediate
             /\ \A r : r \in worker'[v].specifics <=>
                         \/ r \in worker[v].specifics /\ (r \notin owned \/ runner[r].worker_ # v)
                         \/ v = w /\ r \in owned
  BY <1>0, <1>5 DEF WorkerRecords
<1>8. /\ history'["again"] = history["again"] \union (moved \intersect Adrift)
      /\ history'["strayed"] = history["strayed"] \ moved
      /\ history'["wiped"] = history["wiped"]
  BY <1>0, <1>5 DEF Causes
<1>9. ASSUME NEW r \in Runners
      PROVE  /\ runner'[r].life = runner[r].life
             /\ r \in moved => runner'[r].worker_ = w
             /\ r \notin moved => runner'[r] = runner[r]
  BY <1>0, <1>5 DEF RunnerRecords
<1>10. ASSUME NEW r \in Runners, r \notin moved PROVE PackedAt(r)'
  <2>1. Untouched(r)
    BY <1>4, <1>7, <1>10 DEF Untouched
  <2>2. Ages(r)
    BY <1>8, <1>9, <1>10 DEF Ages, Followed, InNoGroup, Early
  <2> QED BY <2>1, <2>2, PackedFrame DEF Packed
<1>11. ASSUME NEW r \in Runners, r \in moved PROVE PackedAt(r)'
  <2>1. ~Early(r)'
    BY <1>6, <1>9, <1>11 DEF Early
  <2>2. ASSUME Followed(r)' PROVE Resting(r)'
    <3>1. Followed(r) /\ r \notin Adrift
      BY <1>8, <1>9, <1>11, <2>2 DEF Followed, InNoGroup
    <3>2. NoMail(r) /\ runner[r].worker_ \in Workers /\ StoredAt(r, runner[r].worker_)
      BY <1>0, <3>1, Anchored
    <3>3. r \in owned
      BY <1>4, <1>11, <3>2, SizesAssumption DEF Workers, NoWorker
    <3>4. StoredAt(r, w)'
      BY <1>7, <3>2, <3>3 DEF StoredAt
    <3>5. NoMail(r)' /\ AtHome(r, w)'
      BY <1>7, <1>9, <1>11, <3>2 DEF NoMail, AtHome
    <3> QED BY <3>4, <3>5 DEF Resting
  <2> QED BY <2>1, <2>2 DEF PackedAt, Carried
<1> QED BY <1>10, <1>11 DEF Packed

LEMMA InitPacked == Init => Packed
<1> SUFFICES ASSUME Init, NEW r \in Runners PROVE PackedAt(r)
  BY DEF Packed
<1>1. PICK cast \in Casts :
        /\ worker \in [Workers -> {NewWorker(g) : g \in GroupIds(cast)}]
        /\ runner = [q \in Runners |->
                      [worker_ |-> NoWorker, has_sub_runner |-> FALSE,
                       life |-> IF q \in cast THEN "new" ELSE "absent"]]
  BY DEF Init
<1>2. \A w \in Workers : worker[w].immediate = <<>> /\ worker[w].specifics = {}
  BY <1>1 DEF NewWorker
<1>3. NoMail(r) /\ StoredNowhere(r)
  BY <1>2 DEF NoMail, StoredNowhere, Avoids
<1>4. runner[r].life # "bound"
  BY <1>1
<1> QED BY <1>3, <1>4 DEF PackedAt, Followed

LEMMA PackedStep == Inv /\ Kept /\ Packed /\ [Next]_vars => Packed'
<1> SUFFICES ASSUME Inv, Kept, Packed, [Next]_vars PROVE Packed'
  OBVIOUS
<1>1. ASSUME NEW w \in Workers, ThreadStep(w) PROVE Packed'
  BY <1>1, PackedThread
<1>2. ASSUME NEW w \in Workers, NEW r \in Runners, TaskStep(w, r) PROVE Packed'
  BY <1>2, PackedTask
<1>3. ASSUME NEW r \in Runners, RunnerCall(r) \/ DestroyRunner(r) PROVE Packed'
  BY <1>3, PackedRunner
<1>4. CASE BalanceStep
  <2>1. CASE Deal
    BY <2>1, PackedDeal
  <2>2. CASE Repoint
    BY <2>2, PackedRepoint
  <2> QED BY <1>4, <2>1, <2>2, PackedMoves
<1>5. CASE ManagerCall
  BY <1>5, PackedManager
<1>6. CASE Ended \/ UNCHANGED vars
  <2>1. UNCHANGED <<worker, runner, history>>
    BY <1>6 DEF Ended, vars
  <2>2. \A q \in Runners : Ages(q)
    BY <2>1, SameAges
  <2> QED BY <2>1, <2>2, PackedSame
<1> QED BY <1>1, <1>2, <1>3, <1>4, <1>5, <1>6 DEF Next

\* The third inductive invariant, on top of the others: one message at most is
\* about a followed runner, its entry is with one worker or in that message, and
\* where the entry is or goes is where worker_ points, unless a growth moved the
\* runner (AddTaskRunner, UpdateWorkerSpecific, MoveTaskRunnerSpecificNoLock of
\* worker_manager.cc).
THEOREM SpecificsPacked == Spec => []Packed
<1>1. Init => Packed
  BY InitPacked
<1>2. Inv /\ Kept /\ Packed /\ [Next]_vars => Packed'
  BY PackedStep
<1> QED BY <1>1, <1>2, Invariant, GroupsKept, PTL DEF Spec

LEMMA OnTheWayIn ==
  ASSUME TypeOK, NEW r \in Runners, NEW x
  PROVE  x \in OnTheWay(r) <=>
           \E w \in Workers : \E k \in DOMAIN worker[w].immediate :
             /\ x = <<w, k>>
             /\ worker[w].immediate[k] \in For(r) /\ worker[w].immediate[k].task = "put"
<1>1. ASSUME NEW m \in Mail PROVE m = Put(r, m.to) <=> m \in For(r) /\ m.task = "put"
  <2>1. m.to \in Workers /\ (m \in For(r) <=> m.runner = r)
    BY Message
  <2>2. m = Put(r, m.to) => m \in For(r) /\ m.task = "put"
    BY <2>1, Messages
  <2>3. m.task = "put" => m = Put(m.runner, m.to)
    BY Message
  <2> QED BY <2>1, <2>2, <2>3
<1>2. \A w \in Workers : \A k \in DOMAIN worker[w].immediate : worker[w].immediate[k] \in Mail
  <2> TAKE w \in Workers
  <2>1. worker[w].immediate \in Seq(Mail)
    BY MailTypes
  <2> QED BY <2>1
<1> DEFINE at(w) == {k \in DOMAIN worker[w].immediate :
                       worker[w].immediate[k] = Put(r, worker[w].immediate[k].to)}
<1>3. x \in OnTheWay(r) <=> \E w \in Workers : x \in {w} \X at(w)
  BY DEF OnTheWay
<1>4. \A w : x \in {w} \X at(w) <=> \E k \in at(w) : x = <<w, k>>
  <2> HIDE DEF at
  <2> QED OBVIOUS
<1> QED BY <1>1, <1>2, <1>3, <1>4

LEMMA CarriedOnce ==
  ASSUME TypeOK, NEW r \in Runners, Carried(r)
  PROVE  Cardinality({w \in Workers : r \in worker[w].specifics}) + Cardinality(OnTheWay(r)) = 1
<1> DEFINE S == {w \in Workers : r \in worker[w].specifics}
           W == OnTheWay(r)
<1>1. \A w \in Workers : StoredAt(r, w) => S = {w}
  BY DEF StoredAt
<1>2. StoredNowhere(r) => S = {}
  BY DEF StoredNowhere
<1> HIDE DEF S, W
<1>3. Cardinality({}) = 0 /\ \A e : Cardinality({e}) = 1
  BY FS_EmptySet, FS_Singleton
<1>4. CASE Resting(r)
  <2>1. \A x : x \notin W
    BY <1>4, OnTheWayIn DEF Resting, NoMail, Avoids, W
  <2>2. W = {}
    BY <2>1
  <2>3. PICK w : S = {w}
    BY <1>1, <1>4 DEF Resting
  <2>4. Cardinality(S) = 1 /\ Cardinality(W) = 0
    BY <1>3, <2>2, <2>3
  <2> QED BY <2>4 DEF S, W
<1>5. CASE Leaving(r)
  <2>1. PICK w \in Workers, to \in Workers : StoredAt(r, w) /\ OneMail(r, w, Take(r, to))
    BY <1>5 DEF Leaving
  <2>2. Take(r, to).task # "put"
    BY Messages
  <2>3. \A v \in Workers : \A k \in DOMAIN worker[v].immediate :
          worker[v].immediate[k] \in For(r) => worker[v].immediate[k] = Take(r, to)
    BY <2>1 DEF OneMail, Once, Avoids
  <2>4. \A x : x \notin W
    BY <2>2, <2>3, OnTheWayIn DEF W
  <2>5. W = {} /\ S = {w}
    BY <1>1, <2>1, <2>4
  <2>6. Cardinality(S) = 1 /\ Cardinality(W) = 0
    BY <1>3, <2>5
  <2> QED BY <2>6 DEF S, W
<1>6. CASE Coming(r)
  <2>1. PICK w \in Workers : StoredNowhere(r) /\ OneMail(r, w, Put(r, w))
    BY <1>6 DEF Coming
  <2>2. Put(r, w).task = "put" /\ Put(r, w) \in For(r)
    BY Messages
  <2>3. PICK k \in DOMAIN worker[w].immediate :
          /\ worker[w].immediate[k] = Put(r, w)
          /\ \A j \in DOMAIN worker[w].immediate : worker[w].immediate[j] \in For(r) <=> j = k
    BY <2>1 DEF OneMail, Once
  <2>4. \A x : x \in W <=> x = <<w, k>>
    BY <2>1, <2>2, <2>3, OnTheWayIn DEF W, OneMail, Avoids
  <2>5. W = {<<w, k>>} /\ S = {}
    BY <1>2, <2>1, <2>4
  <2>6. Cardinality(S) = 0 /\ Cardinality(W) = 1
    BY <1>3, <2>5
  <2> QED BY <2>6 DEF S, W
<1> QED BY <1>4, <1>5, <1>6 DEF Carried

\* The specifics of a runner without a group are with exactly one worker or on the
\* way to one, however often the workers are resized, and a task of the runner
\* finds them where it looks, unless a growth is moving the runner or has moved it
\* (UpdateWorkerSpecific and MoveTaskRunnerSpecificNoLock of worker_manager.cc).
THEOREM SpecificsFollowRunner == Spec => []SpecificsFollow
<1>1. Inv /\ Packed => InOneMap
  <2> SUFFICES ASSUME Inv, Packed, NEW r \in Runners, Followed(r)
               PROVE  Cardinality({w \in Workers : r \in worker[w].specifics})
                        + Cardinality(OnTheWay(r)) = 1
    BY DEF InOneMap, Followed
  <2>1. TypeOK /\ Carried(r)
    BY DEF Inv, Packed, PackedAt
  <2> QED BY <2>1, CarriedOnce
<1>2. Inv /\ Packed => KeyAvailable
  <2> SUFFICES ASSUME Inv, Packed, NEW w \in Workers, NEW r \in Runners,
                      CanRun(w, r), runner[r].life = "bound", InNoGroup(r),
                      r \notin Adrift \union history["again"] \union history["wiped"]
               PROVE  LET v == runner[r].worker_ IN
                      WorkerSetSpecific(v, r, WorkerKeyCreate(v, r))
    BY DEF KeyAvailable
  <2>1. TypeOK
    BY InvParts
  <2>7. Followed(r)
    BY DEF Followed
  <2>8. runner[r].worker_ \in Workers /\ StoredAt(r, runner[r].worker_)
    BY <2>1, <2>7, Anchored
  <2>9. r \in worker[runner[r].worker_].specifics
    BY <2>8 DEF StoredAt
  <2> QED BY <2>9 DEF WorkerSetSpecific, WorkerKeyCreate
<1>3. Inv /\ Packed => SpecificsFollow
  BY <1>1, <1>2 DEF SpecificsFollow
<1> QED BY <1>3, Invariant, SpecificsPacked, PTL
=============================================================================
