---------------------------- MODULE WorkerProofs ----------------------------
(* Proofs about Worker, for every number of runners, clients and calls.     *)
EXTENDS Worker, FiniteSetTheorems, TLAPS

-----------------------------------------------------------------------------
(* Lists of groups.  In this module a group is bound with one runner, so it *)
(* holds one runner or, after an UnBind, none.                              *)

GroupList(gs) ==
  /\ gs \in Seq(Seq(Runners))
  /\ \A i \in DOMAIN gs : Len(gs[i]) <= 1
  /\ \A i, j \in DOMAIN gs : Range(gs[i]) \intersect Range(gs[j]) # {} => i = j

LEMMA InRunnersOf ==
  ASSUME NEW gs, NEW r
  PROVE  r \in RunnersOf(gs) <=> \E i \in DOMAIN gs : r \in Range(gs[i])
  BY DEF RunnersOf

\* A group of at most one runner.
LEMMA SmallGroup ==
  ASSUME NEW g \in Seq(Runners), Len(g) <= 1
  PROVE  /\ Range(g) \subseteq Runners
         /\ g = <<>> => Range(g) = {}
         /\ g # <<>> => /\ Head(g) \in Runners /\ Last(g) = Head(g)
                        /\ Range(g) = {Head(g)}
<1>1. Len(g) \in Nat /\ DOMAIN g = 1..Len(g)
  OBVIOUS
<1>2. Range(g) \subseteq Runners
  BY <1>1 DEF Range
<1>3. g = <<>> => Range(g) = {}
  BY DEF Range
<1>4. ASSUME g # <<>> PROVE /\ Head(g) \in Runners /\ Last(g) = Head(g)
                            /\ Range(g) = {Head(g)}
  <2>1. Len(g) = 1 /\ Head(g) = g[1] /\ Last(g) = g[1] /\ DOMAIN g = {1}
    BY <1>1, <1>4 DEF Last
  <2> QED BY <2>1 DEF Range
<1> QED BY <1>2, <1>3, <1>4

LEMMA ListTypes ==
  ASSUME NEW gs, GroupList(gs)
  PROVE  /\ RunnersOf(gs) \subseteq Runners
         /\ \A i \in DOMAIN gs : /\ gs[i] \in Seq(Runners) /\ Len(gs[i]) <= 1
                                 /\ Range(gs[i]) \subseteq Runners
<1>1. \A i \in DOMAIN gs : gs[i] \in Seq(Runners) /\ Len(gs[i]) <= 1
  BY DEF GroupList
<1>2. \A i \in DOMAIN gs : Range(gs[i]) \subseteq Runners
  BY <1>1, SmallGroup
<1> QED BY <1>1, <1>2, InRunnersOf

LEMMA EmptyList == GroupList(<<>>) /\ RunnersOf(<<>>) = {}
  BY DEF GroupList, RunnersOf

\* erase() of a runner from a group of at most one.
LEMMA EraseRunner ==
  ASSUME NEW g \in Seq(Runners), Len(g) <= 1, NEW r
  PROVE  /\ RemoveFirst(g, r) \in Seq(Runners)
         /\ Len(RemoveFirst(g, r)) <= 1
         /\ Range(RemoveFirst(g, r)) = Range(g) \ {r}
<1>1. CASE r \notin Range(g)
  <2>1. RemoveFirst(g, r) = g
    BY <1>1 DEF RemoveFirst, Range
  <2> QED BY <1>1, <2>1
<1>2. CASE r \in Range(g)
  <2>1. PICK k \in DOMAIN g : g[k] = r
    BY <1>2 DEF Range
  <2>2. DOMAIN g = 1..Len(g) /\ Len(g) \in Nat
    OBVIOUS
  <2>3. Len(g) = 1 /\ k = 1
    BY <2>1, <2>2
  <2>4. {i \in 1..Len(g) : g[i] = r} = {1} /\ DOMAIN g = {1}
    BY <2>1, <2>2, <2>3
  <2>5. Range(g) = {r}
    BY <2>1, <2>3, <2>4 DEF Range
  <2>6. SelectInSeq(g, LAMBDA v : v = r) = 1
    <3>1. Min({1}) = 1
      BY DEF Min
    <3> QED BY <2>4, <3>1 DEF SelectInSeq
  <2>7. RemoveFirst(g, r) = RemoveAt(g, 1)
    BY <2>1, <2>3, <2>4, <2>6 DEF RemoveFirst
  <2>8. RemoveAt(g, 1) = <<>>
    BY <2>3 DEF RemoveAt
  <2>9. Range(<<>>) = {} /\ <<>> \in Seq(Runners) /\ Len(<<>>) = 0
    BY DEF Range
  <2>10. RemoveFirst(g, r) = <<>>
    BY <2>7, <2>8
  <2> QED BY <2>5, <2>9, <2>10
<1> QED BY <1>1, <1>2

LEMMA WithoutRunner ==
  ASSUME NEW gs, GroupList(gs), NEW r
  PROVE  /\ GroupList(Without(gs, r))
         /\ RunnersOf(Without(gs, r)) = RunnersOf(gs) \ {r}
         /\ Len(Without(gs, r)) = Len(gs)
         /\ \A i \in DOMAIN gs : Range(Without(gs, r)[i]) = Range(gs[i]) \ {r}
<1> DEFINE ws == Without(gs, r)
<1>1. gs \in Seq(Seq(Runners)) /\ DOMAIN gs = 1..Len(gs) /\ Len(gs) \in Nat
  BY DEF GroupList
<1>2. DOMAIN ws = DOMAIN gs /\ \A i \in DOMAIN gs : ws[i] = RemoveFirst(gs[i], r)
  BY DEF Without
<1>3. \A i \in DOMAIN gs : /\ ws[i] \in Seq(Runners) /\ Len(ws[i]) <= 1
                           /\ Range(ws[i]) = Range(gs[i]) \ {r}
  BY <1>2, ListTypes, EraseRunner
<1>4. ws \in Seq(Seq(Runners)) /\ Len(ws) = Len(gs)
  <2>1. ws \in [1..Len(gs) -> Seq(Runners)]
    BY <1>1, <1>2, <1>3 DEF Without
  <2> QED BY <1>1, <2>1
<1> HIDE DEF ws
<1>5. GroupList(ws)
  BY <1>2, <1>3, <1>4 DEF GroupList
<1>6. RunnersOf(ws) = RunnersOf(gs) \ {r}
  BY <1>2, <1>3, InRunnersOf
<1> QED BY <1>3, <1>4, <1>5, <1>6 DEF ws

\* splice(): two lists that share no runner.
LEMMA JoinLists ==
  ASSUME NEW a, NEW b, GroupList(a), GroupList(b),
         RunnersOf(a) \intersect RunnersOf(b) = {}
  PROVE  /\ GroupList(a \o b)
         /\ RunnersOf(a \o b) = RunnersOf(a) \union RunnersOf(b)
<1>1. a \in Seq(Seq(Runners)) /\ b \in Seq(Seq(Runners))
  BY DEF GroupList
<1>2. /\ a \o b \in Seq(Seq(Runners)) /\ Len(a) \in Nat /\ Len(b) \in Nat
      /\ DOMAIN a = 1..Len(a) /\ DOMAIN b = 1..Len(b)
      /\ DOMAIN (a \o b) = 1..(Len(a) + Len(b))
      /\ \A i \in 1..Len(a) : (a \o b)[i] = a[i]
      /\ \A i \in 1..Len(b) : (a \o b)[Len(a) + i] = b[i]
  BY <1>1
<1>3. \A i \in DOMAIN (a \o b) :
        \/ i \in DOMAIN a /\ (a \o b)[i] = a[i]
        \/ i - Len(a) \in DOMAIN b /\ (a \o b)[i] = b[i - Len(a)]
  <2> TAKE i \in DOMAIN (a \o b)
  <2>1. CASE i <= Len(a)
    BY <1>2, <2>1
  <2>2. CASE ~(i <= Len(a))
    <3>1. i - Len(a) \in 1..Len(b) /\ Len(a) + (i - Len(a)) = i
      BY <1>2, <2>2
    <3> QED BY <1>2, <3>1
  <2> QED BY <2>1, <2>2
<1>4. \A i \in DOMAIN a, j \in DOMAIN b : Range(a[i]) \intersect Range(b[j]) = {}
  BY InRunnersOf
<1>5. \A i \in DOMAIN (a \o b) : Len((a \o b)[i]) <= 1
  BY <1>3 DEF GroupList
<1>6. ASSUME NEW i \in DOMAIN (a \o b), NEW j \in DOMAIN (a \o b),
             Range((a \o b)[i]) \intersect Range((a \o b)[j]) # {}
      PROVE  i = j
  <2>1. CASE i \in DOMAIN a /\ (a \o b)[i] = a[i]
    <3>1. j \in DOMAIN a /\ (a \o b)[j] = a[j]
      BY <1>3, <1>4, <1>6, <2>1
    <3> QED BY <1>6, <2>1, <3>1 DEF GroupList
  <2>2. CASE i - Len(a) \in DOMAIN b /\ (a \o b)[i] = b[i - Len(a)]
    <3>1. j - Len(a) \in DOMAIN b /\ (a \o b)[j] = b[j - Len(a)]
      BY <1>3, <1>4, <1>6, <2>2
    <3>2. i - Len(a) = j - Len(a)
      BY <1>6, <2>2, <3>1 DEF GroupList
    <3> QED BY <1>2, <3>2
  <2> QED BY <1>3, <2>1, <2>2
<1>7. GroupList(a \o b)
  BY <1>2, <1>5, <1>6 DEF GroupList
<1>8. \A x : x \in RunnersOf(a \o b) => x \in RunnersOf(a) \union RunnersOf(b)
  BY <1>3, InRunnersOf
<1>9. \A x \in RunnersOf(a) : x \in RunnersOf(a \o b)
  <2> TAKE x \in RunnersOf(a)
  <2>1. PICK i \in DOMAIN a : x \in Range(a[i])
    BY InRunnersOf
  <2>2. i \in DOMAIN (a \o b) /\ (a \o b)[i] = a[i]
    BY <1>2
  <2> QED BY <2>1, <2>2, InRunnersOf
<1>10. \A x \in RunnersOf(b) : x \in RunnersOf(a \o b)
  <2> TAKE x \in RunnersOf(b)
  <2>1. PICK i \in DOMAIN b : x \in Range(b[i])
    BY InRunnersOf
  <2>2. Len(a) + i \in DOMAIN (a \o b) /\ (a \o b)[Len(a) + i] = b[i]
    BY <1>2
  <2> QED BY <2>1, <2>2, InRunnersOf
<1> QED BY <1>7, <1>8, <1>9, <1>10

\* insert() of a new group at the end.
LEMMA AppendGroup ==
  ASSUME NEW gs, GroupList(gs), NEW r \in Runners, r \notin RunnersOf(gs)
  PROVE  /\ GroupList(Append(gs, <<r>>))
         /\ RunnersOf(Append(gs, <<r>>)) = RunnersOf(gs) \union {r}
<1>1. Range(<<r>>) = {r}
  BY DEF Range
<1>2. GroupList(<< <<r>> >>)
  <2>1. << <<r>> >> \in Seq(Seq(Runners)) /\ Len(<<r>>) = 1
    OBVIOUS
  <2>2. DOMAIN << <<r>> >> = {1} /\ << <<r>> >>[1] = <<r>>
    OBVIOUS
  <2>3. \A i \in DOMAIN << <<r>> >> : i = 1
    BY <2>2
  <2>4. \A i \in DOMAIN << <<r>> >> : Len(<< <<r>> >>[i]) <= 1
    BY <2>1, <2>2, <2>3
  <2> QED BY <2>1, <2>3, <2>4 DEF GroupList
<1>3. RunnersOf(<< <<r>> >>) = {r}
  BY <1>1 DEF RunnersOf
<1>4. Append(gs, <<r>>) = gs \o << <<r>> >>
  BY DEF GroupList
<1>5. RunnersOf(gs) \intersect RunnersOf(<< <<r>> >>) = {}
  BY <1>3
<1> QED BY <1>2, <1>3, <1>4, <1>5, JoinLists

\* list::sort: the ranks of the groups are a permutation of the positions, and
\* a group with a smaller key has no larger rank.
LEMMA Ranks ==
  ASSUME NEW gs, GroupList(gs), <<>> \notin Range(gs), time \in [Runners -> Nat]
  PROVE  /\ \A i \in DOMAIN gs : SortKey(gs[i]) \in Nat /\ Rank(gs, i) \in DOMAIN gs
         /\ \A i, j \in DOMAIN gs : Rank(gs, i) = Rank(gs, j) => i = j
         /\ \A k \in DOMAIN gs : \E i \in DOMAIN gs : Rank(gs, i) = k
         /\ \A i, j \in DOMAIN gs :
              SortKey(gs[i]) < SortKey(gs[j]) => Rank(gs, i) <= Rank(gs, j)
<1> DEFINE n == Len(gs)
           D == 1..n
           K(i) == SortKey(gs[i])
           Below(i) == {j \in D : K(j) < K(i) \/ (K(j) = K(i) /\ j <= i)}
           f == [i \in D |-> Rank(gs, i)]
<1>1. gs \in Seq(Seq(Runners)) /\ n \in Nat /\ DOMAIN gs = D
  BY DEF GroupList
<1>2. \A i \in D : K(i) \in Nat
  <2> TAKE i \in D
  <2>1. gs[i] \in Seq(Runners) /\ Len(gs[i]) <= 1 /\ gs[i] # <<>>
    BY <1>1, ListTypes DEF Range
  <2>2. PICK h \in Runners : h = Head(gs[i])
    BY <2>1, SmallGroup
  <2>3. Priority[h] \in Nat /\ time[h] \in Nat
    BY PriorityAssumption
  <2>4. \A a, b \in Nat : a * b \in Nat
    OBVIOUS
  <2>5. Priority[h] * time[h] \in Nat
    BY <2>3, <2>4
  <2> QED BY <2>2, <2>5 DEF SortKey
<1>3. \A i \in D : Rank(gs, i) = Cardinality(Below(i))
  BY <1>1 DEF Rank
<1> HIDE DEF K
<1>4. IsFiniteSet(D) /\ Cardinality(D) = n
  BY <1>1, FS_Interval
<1>5. ASSUME NEW i \in D PROVE Rank(gs, i) \in D
  <2>1. Below(i) \subseteq D /\ i \in Below(i)
    BY <1>1, <1>2, <1>5
  <2>2. IsFiniteSet(Below(i)) /\ Cardinality(Below(i)) <= n
    BY <1>4, <2>1, FS_Subset
  <2>3. Cardinality(Below(i)) \in Nat
    BY <2>2, FS_CardinalityType
  <2>4. Cardinality(Below(i)) # 0
    BY <2>1, <2>2, FS_EmptySet
  <2>5. PICK c \in Nat : c = Cardinality(Below(i))
    BY <2>3
  <2>6. c \in 1..n
    BY <1>1, <2>2, <2>4, <2>5
  <2> HIDE DEF Below
  <2> QED BY <1>3, <2>5, <2>6
<1>6. ASSUME NEW i \in D, NEW j \in D, Rank(gs, i) = Rank(gs, j) PROVE i = j
  <2>1. \A a, b \in D : Below(a) \subseteq Below(b) /\ Rank(gs, a) = Rank(gs, b)
                          => Below(a) = Below(b)
    <3> TAKE a, b \in D
    <3>1. Below(a) \subseteq D /\ Below(b) \subseteq D
      OBVIOUS
    <3>2. IsFiniteSet(Below(a)) /\ IsFiniteSet(Below(b))
      BY <1>4, <3>1, FS_Subset
    <3> HIDE DEF Below
    <3> QED BY <1>3, <3>2, FS_Subset
  <2>2. i \in Below(i) /\ j \in Below(j)
    BY <1>1, <1>2
  <2>3. Below(i) \subseteq Below(j) \/ Below(j) \subseteq Below(i)
    BY <1>1, <1>2
  <2>4. Below(i) = Below(j)
    BY <1>6, <2>1, <2>3
  <2>5. i \in Below(j) /\ j \in Below(i)
    BY <2>2, <2>4
  <2> QED BY <1>1, <1>2, <2>5
<1>7. f \in Surjection(D, D)
  <2>1. f \in Injection(D, D)
    BY <1>5, <1>6 DEF Injection, IsInjective
  <2> HIDE DEF f, D
  <2> QED BY <1>4, <2>1, FS_Injection
<1>8. ASSUME NEW k \in D PROVE \E i \in D : Rank(gs, i) = k
  BY <1>7, <1>8 DEF Surjection
<1>9. ASSUME NEW i \in D, NEW j \in D, K(i) < K(j) PROVE Rank(gs, i) <= Rank(gs, j)
  <2>1. Below(i) \subseteq Below(j) /\ Below(j) \subseteq D
    BY <1>1, <1>2, <1>9
  <2>2. IsFiniteSet(Below(j))
    BY <1>4, <2>1, FS_Subset
  <2> HIDE DEF Below
  <2> QED BY <1>3, <2>1, <2>2, FS_Subset
<1> HIDE DEF D
<1> QED BY <1>1, <1>2, <1>5, <1>6, <1>8, <1>9 DEF K

\* The sorted list holds the same groups.
LEMMA SortedList ==
  ASSUME NEW gs, GroupList(gs), <<>> \notin Range(gs), time \in [Runners -> Nat]
  PROVE  /\ GroupList(Sorted(gs))
         /\ RunnersOf(Sorted(gs)) = RunnersOf(gs)
<1> DEFINE n == Len(gs)
           D == 1..n
           p(k) == CHOOSE i \in DOMAIN gs : Rank(gs, i) = k
           ss == Sorted(gs)
<1>1. gs \in Seq(Seq(Runners)) /\ n \in Nat /\ DOMAIN gs = D
  BY DEF GroupList
<1>5. \A i \in D : Rank(gs, i) \in D
  BY <1>1, Ranks
<1>6. \A i, j \in D : Rank(gs, i) = Rank(gs, j) => i = j
  BY <1>1, Ranks
<1>7. \A k \in D : \E i \in D : Rank(gs, i) = k
  BY <1>1, Ranks
<1>8. \A k \in D : p(k) \in D /\ Rank(gs, p(k)) = k
  <2> TAKE k \in D
  <2>1. \E i \in D : Rank(gs, i) = k
    BY <1>7
  <2> QED BY <1>1, <2>1
<1>9. \A i \in D : \E k \in D : p(k) = i
  <2> TAKE i \in D
  <2>1. Rank(gs, i) \in D
    BY <1>5
  <2>2. p(Rank(gs, i)) = i
    BY <1>6, <1>8, <2>1
  <2> QED BY <2>1, <2>2
<1>10. DOMAIN ss = D /\ \A k \in D : ss[k] = gs[p(k)]
  BY <1>1 DEF Sorted
<1>11. ss \in Seq(Seq(Runners))
  <2>4. \A i \in D : gs[i] \in Seq(Runners)
    BY <1>1
  <2> HIDE DEF p, D
  <2>1. \A k \in D : gs[p(k)] \in Seq(Runners)
    BY <1>8, <2>4
  <2>2. ss = [k \in D |-> gs[p(k)]]
    BY <1>1 DEF Sorted, p
  <2>3. ss \in [1..n -> Seq(Runners)]
    BY <2>1, <2>2 DEF D
  <2> HIDE DEF ss, n
  <2> QED BY <1>1, <2>3
<1>12. \A k, m \in D : p(k) = p(m) => k = m
  BY <1>8
<1> HIDE DEF p, ss, D
<1>13. GroupList(ss)
  BY <1>1, <1>8, <1>10, <1>11, <1>12 DEF GroupList
<1>14. \A x : x \in RunnersOf(ss) => x \in RunnersOf(gs)
  BY <1>1, <1>8, <1>10, InRunnersOf
<1>15. ASSUME NEW x \in RunnersOf(gs) PROVE x \in RunnersOf(ss)
  <2>1. PICK i \in D : x \in Range(gs[i])
    BY <1>1, InRunnersOf
  <2>2. PICK k \in D : p(k) = i
    BY <1>9
  <2>3. k \in DOMAIN ss /\ x \in Range(ss[k])
    BY <1>10, <2>1, <2>2
  <2> QED BY <2>3, InRunnersOf
<1> QED BY <1>13, <1>14, <1>15 DEF ss

\* A group with the smallest key comes first.
LEMMA SortedFirst ==
  ASSUME NEW gs, GroupList(gs), <<>> \notin Range(gs), time \in [Runners -> Nat],
         gs # <<>>
  PROVE  \E i \in DOMAIN gs :
           /\ Sorted(gs)[1] = gs[i]
           /\ \A j \in DOMAIN gs : SortKey(gs[i]) <= SortKey(gs[j])
<1> DEFINE i == CHOOSE x \in DOMAIN gs : Rank(gs, x) = 1
<1>1. DOMAIN gs = 1..Len(gs) /\ Len(gs) \in Nat /\ 1 \in DOMAIN gs
  BY DEF GroupList
<1>2. \E x \in DOMAIN gs : Rank(gs, x) = 1
  BY <1>1, Ranks
<1>3. i \in DOMAIN gs /\ Rank(gs, i) = 1
  BY <1>2
<1>4. Sorted(gs)[1] = gs[i]
  BY <1>1 DEF Sorted
<1> HIDE DEF i
<1>5. ASSUME NEW j \in DOMAIN gs PROVE SortKey(gs[i]) <= SortKey(gs[j])
  <2>1. PICK a \in Nat : a = SortKey(gs[i])
    BY <1>3, Ranks
  <2>2. PICK b \in Nat : b = SortKey(gs[j])
    BY Ranks
  <2> SUFFICES ASSUME b < a PROVE FALSE
    BY <2>1, <2>2
  <2>3. Rank(gs, j) <= Rank(gs, i) /\ Rank(gs, j) \in DOMAIN gs
    BY <1>3, <2>1, <2>2, Ranks
  <2>4. Rank(gs, j) = 1
    BY <1>1, <1>3, <2>3
  <2>5. i = j
    BY <1>3, <2>4, Ranks
  <2> QED BY <2>1, <2>2, <2>5
<1> QED BY <1>3, <1>4, <1>5

-----------------------------------------------------------------------------
(* The inductive invariant. *)

Running == RunnersOf(running_groups)
Pending == RunnersOf(pending_groups)

\* The two lists are well formed and share no runner.
Lists ==
  /\ GroupList(running_groups) /\ GroupList(pending_groups)
  /\ Running \intersect Pending = {}

\* A bound runner is in a list, a new one in none.
Members ==
  \A r \in Runners : /\ life[r] = "bound" => r \in Running \union Pending
                     /\ life[r] = "new" => r \notin Running \union Pending

\* Only Bind and UnBind between their two steps hold a runner, and UnBind has
\* marked it.
Calls ==
  \A c \in Clients :
    /\ op[c].call \in {"none", "join"} => op[c].runner = NoRunner
    /\ op[c].call \in {"bind2", "unbind2"} => op[c].runner \in Runners
    /\ op[c].call = "unbind2" => life[op[c].runner] = "removed"

\* Where a removed runner still is, and why.
RemovedPlaces ==
  \A r \in Runners :
    life[r] = "removed" => /\ r \in Running => r \in missed
                           /\ r \in Pending => r \in HalfUnbound

\* The queues hold no more than was posted.
Counts ==
  /\ \A r \in Runners : tasks[r] <= posts /\ idles[r] <= idlePosts
  /\ immediate_task_queue <= immediates

\* A group bound since the last balance, when its flag is about to be cleared.
WakeupAtClear ==
  pc = "clear" =>
    \A r \in Pending : \/ r \in overwritten
                       \/ \E c \in Clients : op[c].runner = r

\* The one task after Terminate is still running, or the thread is about to
\* see the flag.
LatePhase ==
  is_exit_immediately =>
    /\ late <= 1
    /\ late > 0 => /\ is_terminated
                   /\ pc \in {"run", "immediate", "idle", "loop", "exited"}

\* The groups the scan has passed were found without a task.
Scanned ==
  /\ scan >= 1
  /\ pc # "scan" => scan = 1
  /\ pc = "start" => running_groups = <<>>
  /\ pc = "scan" => \A i \in DOMAIN running_groups :
                       i < scan => Range(running_groups[i]) \subseteq empty
  /\ pc = "null" \/ (pc = "exited" /\ ~is_exit_immediately)
       => Running \subseteq empty

Safe ==
  /\ TypeOK /\ Lists /\ Members /\ Calls /\ RemovedPlaces /\ Counts
  /\ BalanceWakeup /\ WakeupAtClear /\ LatePhase /\ Scanned

-----------------------------------------------------------------------------
(* The runner each client's call holds. *)

LEMMA Holders ==
  ASSUME TypeOK, Calls
  PROVE  /\ HalfUnbound \subseteq Runners
         /\ \A r : r \in HalfUnbound
                     <=> \E c \in Clients : op[c].call = "unbind2" /\ op[c].runner = r
         /\ \A c \in Clients : op[c] = NoCall => op[c].runner = NoRunner
         /\ \A c \in Clients, r \in Runners :
              op[c].runner = r => op[c].call \in {"bind2", "unbind2"}
<1>1. \A c \in Clients : op[c].call \in {"none", "bind2", "unbind2", "join"}
  BY DEF TypeOK
<1> QED BY <1>1, NoRunnerAssumption DEF Calls, HalfUnbound, NoCall

\* Steps that change neither the lists nor who is in them.
Aside == UNCHANGED <<running_groups, pending_groups, life, op, missed>>

LEMMA AsideSteps ==
  ASSUME \/ Run \/ RunLoop \/ ReadNeedBalance \/ ClearNeedBalance \/ Scan
         \/ ScanEnd \/ RunTask \/ RunTaskNull \/ Post \/ Ended
         \/ \E c \in Clients, r \in Runners : ScanRace(c, r)
         \/ UNCHANGED vars
  PROVE  Aside
<1>1. ASSUME Run \/ RunLoop \/ ReadNeedBalance \/ RunTask \/ RunTaskNull PROVE Aside
  BY <1>1 DEF Run, RunLoop, ReadNeedBalance, RunTask, RunTaskNull, Aside, shared, history
<1>2. ASSUME ClearNeedBalance \/ Scan \/ ScanEnd PROVE Aside
  BY <1>2 DEF ClearNeedBalance, Scan, ScanEnd, Aside, shared, history
<1>3. ASSUME Post PROVE Aside
  BY <1>3 DEF Post, PostTask, PostIdleTask, AddImmediateTask, Aside, history
<1>4. ASSUME Ended \/ UNCHANGED vars PROVE Aside
  BY <1>4 DEF Ended, vars, shared, history, Aside
<1>5. ASSUME NEW c \in Clients, NEW r \in Runners, ScanRace(c, r) PROVE Aside
  BY <1>5 DEF ScanRace, shared, history, Aside
<1> QED BY <1>1, <1>2, <1>3, <1>4, <1>5

Placed == Lists /\ Members /\ Calls /\ RemovedPlaces

LEMMA PlacedStep ==
  ASSUME Safe, [Next]_vars
  PROVE  Placed'
<1> USE DEF Running, Pending
<1>0. TypeOK /\ Lists /\ Members /\ Calls /\ RemovedPlaces
  BY DEF Safe
<1>00. /\ life \in [Runners -> {"new", "bound", "removed"}]
       /\ op \in [Clients -> [call : {"none", "bind2", "unbind2", "join"},
                              runner : Runners \union {NoRunner}]]
       /\ time \in [Runners -> Nat]
  BY <1>0 DEF TypeOK
<1>1. CASE Aside
  BY <1>0, <1>1 DEF Aside, Placed, Lists, Members, Calls, RemovedPlaces, HalfUnbound
<1>2. CASE GetNextTask
  <2>1. UNCHANGED <<pending_groups, life, op, missed>>
    BY <1>2 DEF GetNextTask
  <2>2. GroupList(running_groups') /\ RunnersOf(running_groups') = Running
    <3>1. CASE running_groups' = running_groups
      BY <1>0, <3>1 DEF Lists
    <3>2. CASE running_groups' = Sorted(running_groups) /\ <<>> \notin Range(running_groups)
      BY <1>0, <1>00, <3>2, SortedList DEF Lists
    <3> QED BY <1>2, <3>1, <3>2 DEF GetNextTask, SortAborts
  <2> QED BY <1>0, <2>1, <2>2 DEF Placed, Lists, Members, Calls, RemovedPlaces, HalfUnbound
<1>3. CASE Balance
  <2>1. CASE UNCHANGED <<running_groups, pending_groups, missed>>
    <3>1. Aside
      BY <1>3, <2>1 DEF Balance, Aside
    <3> QED BY <1>1, <3>1
  <2>2. CASE /\ running_groups' = pending_groups \o running_groups
             /\ pending_groups' = <<>>
             /\ missed' = missed \union (HalfUnbound \intersect RunnersOf(pending_groups))
    <3>1. UNCHANGED <<life, op>>
      BY <1>3 DEF Balance
    <3>2. GroupList(running_groups') /\ RunnersOf(running_groups') = Running \union Pending
      BY <1>0, <2>2, JoinLists DEF Lists
    <3>3. GroupList(pending_groups') /\ RunnersOf(pending_groups') = {}
      BY <2>2, EmptyList
    <3> QED BY <1>0, <2>2, <3>1, <3>2, <3>3
          DEF Placed, Lists, Members, Calls, RemovedPlaces, HalfUnbound
  <2> QED BY <1>3, <2>1, <2>2 DEF Balance, BalanceNoLock
<1>4. ASSUME NEW c \in Clients, NEW r \in Runners, Bind(c, r) PROVE Placed'
  <2>1. /\ op[c] = NoCall /\ life[r] = "new"
        /\ pending_groups' = Append(pending_groups, <<r>>)
        /\ op' = [op EXCEPT ![c] = Call("bind2", r)]
        /\ life' = [life EXCEPT ![r] = "bound"]
        /\ UNCHANGED <<running_groups, missed>>
    BY <1>4 DEF Bind, Idle, history
  <2>2. r \notin Running /\ r \notin Pending
    BY <1>0, <2>1 DEF Members
  <2>3. GroupList(pending_groups') /\ RunnersOf(pending_groups') = Pending \union {r}
    BY <1>0, <2>1, <2>2, AppendGroup DEF Lists
  <2>4. Lists' /\ Members'
    BY <1>0, <1>00, <2>1, <2>2, <2>3 DEF Lists, Members
  <2>5. op'[c].call = "bind2" /\ op'[c].runner = r /\ \A d \in Clients \ {c} : op'[d] = op[d]
    BY <1>00, <2>1 DEF Call
  <2>6. Calls'
    BY <1>0, <1>00, <2>1, <2>5 DEF Calls
  <2>7. HalfUnbound \subseteq HalfUnbound'
    BY <2>1, <2>5 DEF HalfUnbound, NoCall
  <2>8. RemovedPlaces'
    BY <1>0, <1>00, <2>1, <2>3, <2>7 DEF RemovedPlaces
  <2> QED BY <2>4, <2>6, <2>8 DEF Placed
<1>5. ASSUME NEW c \in Clients, BindFlag(c) \/ Join(c) \/ Terminate(c) PROVE Placed'
  <2>1. /\ op[c].call # "unbind2" /\ UNCHANGED <<running_groups, pending_groups, life, missed>>
        /\ op' = [op EXCEPT ![c] = NoCall] \/ op' = [op EXCEPT ![c] = Call("join", NoRunner)]
    BY <1>5 DEF BindFlag, Join, Terminate, In, Idle, NoCall, shared, history
  <2>2. /\ op'[c].call \in {"none", "join"} /\ op'[c].runner = NoRunner
        /\ \A d \in Clients \ {c} : op'[d] = op[d]
    BY <1>00, <2>1 DEF Call, NoCall
  <2>3. Calls'
    BY <1>0, <1>00, <2>1, <2>2 DEF Calls
  <2>4. HalfUnbound \subseteq HalfUnbound'
    BY <2>1, <2>2 DEF HalfUnbound
  <2> QED BY <1>0, <2>1, <2>3, <2>4 DEF Placed, Lists, Members, RemovedPlaces
<1>6. ASSUME NEW c \in Clients, NEW r \in Runners, UnBind(c, r) PROVE Placed'
  <2>1. /\ op[c] = NoCall /\ life[r] = "bound" /\ life' = [life EXCEPT ![r] = "removed"]
        /\ UNCHANGED <<pending_groups, missed>>
    BY <1>6 DEF UnBind, Idle, Usable, history
  <2>2. CASE r \in Running
    <3>1. running_groups' = Without(running_groups, r) /\ op' = op
      BY <1>6, <2>2 DEF UnBind
    <3>2. GroupList(running_groups') /\ RunnersOf(running_groups') = Running \ {r}
      BY <1>0, <3>1, WithoutRunner DEF Lists
    <3>3. r \notin Pending
      BY <1>0, <2>2 DEF Lists
    <3> QED BY <1>0, <1>00, <2>1, <3>1, <3>2, <3>3
          DEF Placed, Lists, Members, Calls, RemovedPlaces, HalfUnbound
  <2>3. CASE r \notin Running
    <3>1. running_groups' = running_groups /\ op' = [op EXCEPT ![c] = Call("unbind2", r)]
      BY <1>6, <2>3 DEF UnBind
    <3>2. /\ op'[c].call = "unbind2" /\ op'[c].runner = r
          /\ \A d \in Clients \ {c} : op'[d] = op[d]
      BY <1>00, <3>1 DEF Call
    <3>3. r \in HalfUnbound' /\ HalfUnbound \subseteq HalfUnbound'
      BY <2>1, <3>2 DEF HalfUnbound, NoCall
    <3>4. Calls'
      BY <1>0, <1>00, <2>1, <3>2 DEF Calls
    <3>5. Lists' /\ Members' /\ RemovedPlaces'
      BY <1>0, <1>00, <2>1, <2>3, <3>1, <3>3 DEF Lists, Members, RemovedPlaces
    <3> QED BY <3>4, <3>5 DEF Placed
  <2> QED BY <2>2, <2>3
<1>7. ASSUME NEW c \in Clients, UnBindPending(c) PROVE Placed'
  <2>1. PICK r \in Runners : r = op[c].runner
    BY <1>0, <1>7 DEF Calls, UnBindPending, In
  <2>2. /\ op[c].call = "unbind2" /\ pending_groups' = Without(pending_groups, r)
        /\ op' = [op EXCEPT ![c] = NoCall] /\ UNCHANGED <<running_groups, life, missed>>
    BY <1>7, <2>1 DEF UnBindPending, In, history
  <2>3. life[r] = "removed"
    BY <1>0, <2>1, <2>2 DEF Calls
  <2>4. GroupList(pending_groups') /\ RunnersOf(pending_groups') = Pending \ {r}
    BY <1>0, <2>2, WithoutRunner DEF Lists
  <2>5. /\ op'[c].call = "none" /\ op'[c].runner = NoRunner
        /\ \A d \in Clients \ {c} : op'[d] = op[d]
    BY <1>00, <2>2 DEF NoCall
  <2>6. HalfUnbound \subseteq HalfUnbound' \union {r}
    BY <2>1, <2>5 DEF HalfUnbound
  <2>7. Calls'
    BY <1>0, <1>00, <2>2, <2>5 DEF Calls
  <2>8. Lists' /\ Members' /\ RemovedPlaces'
    BY <1>0, <2>2, <2>3, <2>4, <2>6 DEF Lists, Members, RemovedPlaces
  <2> QED BY <2>7, <2>8 DEF Placed
<1> QED BY <1>1, <1>2, <1>3, <1>4, <1>5, <1>6, <1>7, AsideSteps
      DEF Next, WorkerStep, ClientStep

-----------------------------------------------------------------------------
(* Types, and the queues against what was posted. *)

\* The types, by what they are about.
ThreadTypes ==
  /\ need_balance \in BOOLEAN /\ is_terminated \in BOOLEAN
  /\ is_exit_immediately \in ExitModes
  /\ curr_group \in Seq(Runners)
  /\ local_runner \in Runners \union {NoRunner}
  /\ pc \in {"start", "loop", "next", "flag", "balance", "clear", "scan",
             "run", "immediate", "idle", "null", "exited"}
  /\ scan \in Nat /\ idle_task \in BOOLEAN
  /\ status \in {"ok", "aborted", "undefined"}

QueueTypes ==
  /\ immediate_task_queue \in 0..MaxImmediate
  /\ tasks \in [Runners -> 0..MaxPosts] /\ idles \in [Runners -> 0..MaxIdle]
  /\ posts \in 0..MaxPosts /\ idlePosts \in 0..MaxIdle
  /\ immediates \in 0..MaxImmediate
  /\ Counts

CallTypes ==
  /\ op \in [Clients -> [call : {"none", "bind2", "unbind2", "join"},
                         runner : Runners \union {NoRunner}]]
  /\ life \in [Runners -> {"new", "bound", "removed"}]

HistoryTypes ==
  /\ overwritten \subseteq Runners /\ missed \subseteq Runners
  /\ dry \in BOOLEAN /\ empty \subseteq Runners
  /\ owed \subseteq Runners /\ late \in Nat
  /\ time \in [Runners -> Nat]

Types == ThreadTypes /\ QueueTypes /\ CallTypes /\ HistoryTypes

LEMMA TypeParts ==
  TypeOK /\ Counts <=> /\ Types
                      /\ running_groups \in Seq(Seq(Runners))
                      /\ pending_groups \in Seq(Seq(Runners))
  BY DEF TypeOK, Types, ThreadTypes, QueueTypes, CallTypes, HistoryTypes

LEMMA TypeStep ==
  ASSUME Safe, [Next]_vars
  PROVE  TypeOK' /\ Counts'
<1>0. TypeOK /\ Lists /\ Calls /\ Counts /\ Scanned
  BY DEF Safe
<1>1. Lists'
  BY PlacedStep DEF Placed
<1>2. running_groups' \in Seq(Seq(Runners)) /\ pending_groups' \in Seq(Seq(Runners))
  BY <1>1 DEF Lists, GroupList
<1>00. ThreadTypes /\ QueueTypes /\ CallTypes /\ HistoryTypes
  BY <1>0, TypeParts DEF Types
<1> SUFFICES Types'
  BY <1>2 DEF TypeOK, Types, ThreadTypes, QueueTypes, CallTypes, HistoryTypes
<1> USE <1>00
<1>3. CASE Run \/ RunLoop \/ ReadNeedBalance \/ RunTaskNull \/ Ended \/ UNCHANGED vars
  <2> USE <1>3 DEF Run, RunLoop, ReadNeedBalance, RunTaskNull, Ended, vars, shared, thread,
                   bounds, history
  <2>1. ThreadTypes'
    BY DEF ThreadTypes
  <2>2. QueueTypes' /\ CallTypes'
    BY DEF QueueTypes, Counts, CallTypes
  <2>3. HistoryTypes'
    BY DEF HistoryTypes
  <2> QED BY <2>1, <2>2, <2>3 DEF Types
<1>4. CASE GetNextTask
  <2>1. ThreadTypes'
    BY <1>4 DEF ThreadTypes, GetNextTask
  <2>2. QueueTypes'
    BY <1>4, BoundsAssumption DEF QueueTypes, Counts, GetNextTask, bounds
  <2>3. CallTypes' /\ HistoryTypes'
    BY <1>4 DEF CallTypes, HistoryTypes, GetNextTask, Started
  <2> QED BY <2>1, <2>2, <2>3 DEF Types
<1>5. CASE Balance
  <2>1. time' \in [Runners -> Nat]
    <3>1. CASE time' = time
      BY <3>1 DEF HistoryTypes
    <3>2. CASE running_groups = <<>> /\ BalanceNoLock(0)
      BY <3>2 DEF HistoryTypes, BalanceNoLock
    <3>3. CASE /\ running_groups # <<>> /\ Head(running_groups) # <<>>
               /\ BalanceNoLock(time[Head(Head(running_groups))])
      <4>1. PICK g \in Seq(Runners) : g = Head(running_groups) /\ Len(g) <= 1
        <5>1. running_groups \in Seq(Seq(Runners)) /\ 1 \in DOMAIN running_groups
          BY <1>0, <3>3 DEF TypeOK
        <5>2. Head(running_groups) = running_groups[1]
          BY <3>3, <5>1
        <5>3. running_groups[1] \in Seq(Runners) /\ Len(running_groups[1]) <= 1
          BY <1>0, <5>1, ListTypes DEF Lists
        <5> QED BY <5>2, <5>3
      <4>2. PICK h \in Runners : h = Head(g)
        BY <3>3, <4>1, SmallGroup
      <4>3. PICK t \in Nat : t = time[h]
        BY DEF HistoryTypes
      <4>4. BalanceNoLock(t)
        BY <3>3, <4>1, <4>2, <4>3
      <4> QED BY <4>3, <4>4 DEF HistoryTypes, BalanceNoLock
    <3> QED BY <1>5, <3>1, <3>2, <3>3 DEF Balance, FrontEmpty
  <2>2. missed' \subseteq Runners
    BY <1>0, <1>5, Holders DEF HistoryTypes, Balance
  <2>3. ThreadTypes'
    BY <1>5 DEF ThreadTypes, Balance
  <2>4. QueueTypes' /\ CallTypes'
    BY <1>5 DEF QueueTypes, Counts, CallTypes, Balance, bounds
  <2>5. HistoryTypes'
    BY <1>5, <2>1, <2>2 DEF HistoryTypes, Balance
  <2> QED BY <2>3, <2>4, <2>5 DEF Types
<1>6. CASE ClearNeedBalance \/ ScanEnd
  <2>1. ThreadTypes'
    <3>1. CASE ClearNeedBalance
      BY <3>1 DEF ThreadTypes, ClearNeedBalance
    <3>2. CASE ScanEnd
      <4>1. pc' = "idle" \/ pc' = "null"
        BY <3>2 DEF ScanEnd
      <4> QED BY <3>2, <4>1 DEF ThreadTypes, ScanEnd, shared
    <3> QED BY <1>6, <3>1, <3>2
  <2>2. QueueTypes' /\ CallTypes'
    BY <1>6 DEF QueueTypes, Counts, CallTypes, ClearNeedBalance, ScanEnd, shared, bounds
  <2>3. HistoryTypes'
    BY <1>6 DEF HistoryTypes, ClearNeedBalance, ScanEnd, Started, history
  <2> QED BY <2>1, <2>2, <2>3 DEF Types
<1>7. CASE Scan
  <2>1. CASE running_groups[scan] = <<>>
    <3> USE <1>7, <2>1 DEF Scan, ScanTask, ScanIdle, thread
    <3>1. ThreadTypes'
      BY DEF ThreadTypes
    <3>2. QueueTypes' /\ CallTypes' /\ HistoryTypes'
      BY DEF QueueTypes, Counts, CallTypes, HistoryTypes, bounds
    <3> QED BY <3>1, <3>2 DEF Types
  <2>2. CASE running_groups[scan] # <<>>
    <3>1. scan \in DOMAIN running_groups
      BY <1>0, <1>7 DEF Scan, TypeOK, Scanned
    <3>2. PICK g \in Seq(Runners) : g = running_groups[scan] /\ Len(g) <= 1 /\ g # <<>>
      BY <1>0, <2>2, <3>1, ListTypes DEF Lists
    <3>3. PICK r \in Runners : r = Last(g) /\ r = Head(g)
      BY <3>2, SmallGroup
    <3>4. CallTypes'
      BY <1>7 DEF CallTypes, Scan
    <3>5. CASE ScanTask(g)
      <4>1. ThreadTypes'
        BY <1>7, <2>2, <3>2, <3>3, <3>5 DEF ThreadTypes, Scan, ScanTask
      <4>2. tasks' = [tasks EXCEPT ![r] = tasks[r] - 1] /\ tasks[r] > 0
            /\ UNCHANGED <<immediate_task_queue, idles, bounds>>
        BY <1>7, <3>3, <3>5 DEF Scan, ScanTask
      <4>3. QueueTypes'
        BY <4>2, BoundsAssumption DEF QueueTypes, Counts, bounds
      <4>4. HistoryTypes'
        BY <1>7, <3>5 DEF HistoryTypes, Scan, ScanTask, Started
      <4> QED BY <3>4, <4>1, <4>3, <4>4 DEF Types
    <3>6. CASE ScanIdle(g)
      <4>1. ThreadTypes'
        <5>1. /\ scan' = scan + 1
              /\ UNCHANGED <<curr_group, local_runner, pc, need_balance, is_terminated,
                             is_exit_immediately, status>>
          BY <1>7, <2>2, <3>6 DEF Scan, ScanIdle
        <5>2. idle_task' = TRUE \/ idle_task' = idle_task
          BY <3>6 DEF ScanIdle
        <5>3. idle_task' \in BOOLEAN
          BY <5>2 DEF ThreadTypes
        <5>4. need_balance' \in BOOLEAN /\ is_terminated' \in BOOLEAN
          BY <5>1 DEF ThreadTypes
        <5> QED BY <5>1, <5>3, <5>4 DEF ThreadTypes
      <4>2. /\ \/ idles' = idles
               \/ idles[r] > 0 /\ idles' = [idles EXCEPT ![r] = idles[r] - 1]
            /\ UNCHANGED <<immediate_task_queue, tasks, bounds>>
        BY <1>7, <3>3, <3>6 DEF Scan, ScanIdle
      <4>3. QueueTypes'
        <5>1. CASE idles' = idles
          BY <4>2, <5>1 DEF QueueTypes, Counts, bounds
        <5>2. CASE idles[r] > 0 /\ idles' = [idles EXCEPT ![r] = idles[r] - 1]
          BY <4>2, <5>2, BoundsAssumption DEF QueueTypes, Counts, bounds
        <5> QED BY <4>2, <5>1, <5>2
      <4>4. HistoryTypes'
        BY <1>7, <3>3, <3>6 DEF HistoryTypes, Scan, ScanIdle
      <4> QED BY <3>4, <4>1, <4>3, <4>4 DEF Types
    <3> QED BY <1>7, <2>2, <3>2, <3>5, <3>6 DEF Scan
  <2> QED BY <2>1, <2>2
<1>8. CASE RunTask
  <2>1. PICK cost \in Costs :
          time' = [r \in Runners |->
                     IF r \in Range(curr_group) THEN time[r] + cost ELSE time[r]]
    BY <1>8 DEF RunTask
  <2>2. cost \in Nat
    BY CostsAssumption
  <2>3. HistoryTypes'
    BY <1>8, <2>1, <2>2 DEF HistoryTypes, RunTask, history
  <2>4. ThreadTypes' /\ QueueTypes' /\ CallTypes'
    BY <1>8 DEF ThreadTypes, QueueTypes, Counts, CallTypes, RunTask, shared, bounds
  <2> QED BY <2>3, <2>4 DEF Types
<1>9. ASSUME NEW r \in Runners, PostTask(r) \/ PostIdleTask(r) PROVE Types'
  <2>1. ThreadTypes' /\ CallTypes'
    BY <1>9 DEF ThreadTypes, CallTypes, PostTask, PostIdleTask, thread
  <2>2. HistoryTypes'
    BY <1>9 DEF HistoryTypes, PostTask, PostIdleTask, history
  <2>3. CASE PostTask(r)
    <3>1. /\ posts < MaxPosts /\ posts' = posts + 1
          /\ tasks' = [tasks EXCEPT ![r] = tasks[r] + 1]
          /\ UNCHANGED <<immediate_task_queue, idles, idlePosts, immediates>>
      BY <2>3 DEF PostTask
    <3>2. QueueTypes'
      BY <3>1, BoundsAssumption DEF QueueTypes, Counts
    <3> QED BY <2>1, <2>2, <3>2 DEF Types
  <2>4. CASE PostIdleTask(r)
    <3>1. /\ idlePosts < MaxIdle /\ idlePosts' = idlePosts + 1
          /\ idles' = [idles EXCEPT ![r] = idles[r] + 1]
          /\ UNCHANGED <<immediate_task_queue, tasks, posts, immediates>>
      BY <2>4 DEF PostIdleTask
    <3>2. QueueTypes'
      BY <3>1, BoundsAssumption DEF QueueTypes, Counts
    <3> QED BY <2>1, <2>2, <3>2 DEF Types
  <2> QED BY <1>9, <2>3, <2>4
<1>10. CASE AddImmediateTask
  <2>1. QueueTypes'
    BY <1>10, BoundsAssumption DEF QueueTypes, Counts, AddImmediateTask
  <2>2. ThreadTypes' /\ CallTypes' /\ HistoryTypes'
    BY <1>10 DEF ThreadTypes, CallTypes, HistoryTypes, AddImmediateTask, thread, history
  <2> QED BY <2>1, <2>2 DEF Types
<1>11. ASSUME NEW c \in Clients, NEW r \in Runners,
              Bind(c, r) \/ UnBind(c, r) \/ ScanRace(c, r)
       PROVE  Types'
  <2>1. ThreadTypes'
    BY <1>11 DEF ThreadTypes, Bind, UnBind, ScanRace, shared, thread
  <2>2. QueueTypes'
    BY <1>11 DEF QueueTypes, Counts, Bind, UnBind, ScanRace, shared, bounds
  <2>3. HistoryTypes'
    BY <1>11 DEF HistoryTypes, Bind, UnBind, ScanRace, history
  <2>4. CallTypes'
    BY <1>11 DEF CallTypes, Bind, UnBind, ScanRace, Call
  <2> QED BY <2>1, <2>2, <2>3, <2>4 DEF Types
<1>12. ASSUME NEW c \in Clients, BindFlag(c) \/ UnBindPending(c) \/ Join(c) \/ Terminate(c)
       PROVE  Types'
  <2>1. ThreadTypes'
    BY <1>12 DEF ThreadTypes, BindFlag, UnBindPending, Join, Terminate, shared, thread
  <2>2. QueueTypes'
    BY <1>12 DEF QueueTypes, Counts, BindFlag, UnBindPending, Join, Terminate, shared, bounds
  <2>3. op' = [op EXCEPT ![c] = NoCall] \/ op' = [op EXCEPT ![c] = Call("join", NoRunner)]
    BY <1>12 DEF BindFlag, UnBindPending, Join, Terminate
  <2>4. CallTypes'
    BY <1>12, <2>3 DEF CallTypes, BindFlag, UnBindPending, Join, Terminate, Call, NoCall
  <2>5. BindFlag(c) => op[c].runner \in Runners
    BY <1>0 DEF BindFlag, In, Calls
  <2>6. HistoryTypes'
    BY <1>12, <2>5 DEF HistoryTypes, BindFlag, UnBindPending, Join, Terminate, history
  <2> QED BY <2>1, <2>2, <2>4, <2>6 DEF Types
<1> QED BY <1>3, <1>4, <1>5, <1>6, <1>7, <1>8, <1>9, <1>10, <1>11, <1>12
      DEF Next, WorkerStep, ClientStep, Post

-----------------------------------------------------------------------------
(* The flag that wakes the balance. *)

Woken == BalanceWakeup /\ WakeupAtClear

LEMMA WokenStep ==
  ASSUME Safe, [Next]_vars
  PROVE  Woken'
<1> USE DEF Pending
<1>0. TypeOK /\ Lists /\ Calls /\ Woken
  BY DEF Safe, Woken
<1>00. /\ op \in [Clients -> [call : {"none", "bind2", "unbind2", "join"},
                              runner : Runners \union {NoRunner}]]
       /\ Pending \subseteq Runners
  BY <1>0, ListTypes DEF TypeOK, Lists
\* Steps that leave the pending list alone, raise the flag or keep it, and do
\* not enter the clearing step.
<1>1. ASSUME UNCHANGED <<pending_groups, op, overwritten, need_balance>>,
             pc' = "clear" => pc = "clear"
      PROVE  Woken'
  BY <1>0, <1>1 DEF Woken, BalanceWakeup, WakeupAtClear
<1>2. CASE Run \/ RunLoop \/ ReadNeedBalance \/ RunTaskNull \/ RunTask \/ GetNextTask
  BY <1>1, <1>2 DEF Run, RunLoop, ReadNeedBalance, RunTaskNull, RunTask, GetNextTask,
     shared, history
<1>3. CASE Scan \/ ScanEnd
  BY <1>1, <1>3 DEF Scan, ScanTask, ScanIdle, ScanEnd, shared, thread
<1>4. CASE Post \/ Ended \/ UNCHANGED vars
  BY <1>1, <1>4 DEF Post, PostTask, PostIdleTask, AddImmediateTask, Ended, vars, shared,
     thread, history
<1>5. CASE Balance
  <2>1. CASE pending_groups' = <<>>
    BY <2>1, EmptyList DEF Woken, BalanceWakeup, WakeupAtClear
  <2>2. CASE pending_groups' # <<>>
    BY <1>1, <1>5, <2>2 DEF Balance, BalanceNoLock
  <2> QED BY <2>1, <2>2
<1>6. CASE ClearNeedBalance
  BY <1>0, <1>6 DEF ClearNeedBalance, At, Woken, BalanceWakeup, WakeupAtClear, history
<1>7. ASSUME NEW c \in Clients, NEW r \in Runners, Bind(c, r) PROVE Woken'
  <2>1. /\ op[c] = NoCall /\ pending_groups' = Append(pending_groups, <<r>>)
        /\ op' = [op EXCEPT ![c] = Call("bind2", r)]
        /\ life[r] = "new" /\ UNCHANGED <<need_balance, overwritten, pc>>
    BY <1>7 DEF Bind, Idle, history, thread
  <2>2. r \notin Pending
    BY <2>1 DEF Safe, Members
  <2>3. RunnersOf(pending_groups') = Pending \union {r}
    BY <1>0, <2>1, <2>2, AppendGroup DEF Lists
  <2>4. op'[c].runner = r /\ \A d \in Clients \ {c} : op'[d] = op[d]
    BY <1>00, <2>1 DEF Call
  <2>5. \A d \in Clients, x \in Pending : op[d].runner = x => op'[d].runner = x
    BY <1>0, <1>00, <2>1, <2>4, Holders, NoRunnerAssumption
  <2> QED BY <1>0, <2>1, <2>3, <2>4, <2>5 DEF Woken, BalanceWakeup, WakeupAtClear
<1>8. ASSUME NEW c \in Clients, NEW r \in Runners, UnBind(c, r) PROVE Woken'
  <2>1. /\ op[c] = NoCall
        /\ op' = op \/ op' = [op EXCEPT ![c] = Call("unbind2", r)]
        /\ UNCHANGED <<pending_groups, need_balance, overwritten, pc>>
    BY <1>8 DEF UnBind, Idle, history, thread
  <2>2. \A d \in Clients \ {c} : op'[d] = op[d]
    BY <1>00, <2>1
  <2>3. \A d \in Clients, x \in Pending : op[d].runner = x => op'[d].runner = x
    <3> TAKE d \in Clients, x \in Pending
    <3>1. CASE d = c
      <4>1. op[d].runner = NoRunner /\ x \in Runners
        BY <1>00, <2>1, <3>1 DEF NoCall
      <4> QED BY <4>1, NoRunnerAssumption
    <3>2. CASE d # c
      BY <2>2, <3>2
    <3> QED BY <3>1, <3>2
  <2> QED BY <1>0, <2>1, <2>3 DEF Woken, BalanceWakeup, WakeupAtClear
<1>9. ASSUME NEW c \in Clients, NEW r \in Runners, ScanRace(c, r) PROVE Woken'
  BY <1>1, <1>9 DEF ScanRace, shared, history, thread
<1>10. ASSUME NEW c \in Clients, BindFlag(c) PROVE Woken'
  <2>1. /\ need_balance' = TRUE /\ op' = [op EXCEPT ![c] = NoCall]
        /\ pc = "clear" => overwritten' = overwritten \union {op[c].runner}
        /\ UNCHANGED <<pending_groups, pc>>
    BY <1>10 DEF BindFlag, thread
  <2>2. \A d \in Clients \ {c} : op'[d] = op[d]
    BY <1>00, <2>1
  <2> QED BY <1>0, <2>1, <2>2 DEF Woken, BalanceWakeup, WakeupAtClear
<1>11. ASSUME NEW c \in Clients, UnBindPending(c) PROVE Woken'
  <2>1. /\ op' = [op EXCEPT ![c] = NoCall]
        /\ pending_groups' = Without(pending_groups, op[c].runner)
        /\ UNCHANGED <<need_balance, overwritten, pc>>
    BY <1>11 DEF UnBindPending, thread, history
  <2>2. \A d \in Clients \ {c} : op'[d] = op[d]
    BY <1>00, <2>1
  <2>3. RunnersOf(pending_groups') = Pending \ {op[c].runner}
    BY <1>0, <2>1, WithoutRunner DEF Lists
  <2> QED BY <1>0, <2>1, <2>2, <2>3 DEF Woken, BalanceWakeup, WakeupAtClear
<1>12. ASSUME NEW c \in Clients, Join(c) \/ Terminate(c) PROVE Woken'
  <2>1. /\ op[c].call \in {"none", "join"}
        /\ op' = [op EXCEPT ![c] = NoCall] \/ op' = [op EXCEPT ![c] = Call("join", NoRunner)]
        /\ UNCHANGED <<pending_groups, need_balance, overwritten, pc>>
    BY <1>12 DEF Join, Terminate, In, Idle, NoCall, thread, history, shared
  <2>2. \A d \in Clients \ {c} : op'[d] = op[d]
    BY <1>00, <2>1
  <2>3. op[c].runner \notin Pending
    BY <1>0, <1>00, <2>1, NoRunnerAssumption DEF Calls
  <2> QED BY <1>0, <2>1, <2>2, <2>3 DEF Woken, BalanceWakeup, WakeupAtClear
<1> QED BY <1>2, <1>3, <1>4, <1>5, <1>6, <1>7, <1>8, <1>9, <1>10, <1>11, <1>12
      DEF Next, WorkerStep, ClientStep

-----------------------------------------------------------------------------
(* Terminate. *)

Stopping == LatePhase /\ Scanned

LEMMA StoppingStep ==
  ASSUME Safe, [Next]_vars
  PROVE  Stopping'
<1> USE DEF Running
<1>0. TypeOK /\ Lists /\ LatePhase /\ Scanned
  BY DEF Safe
<1>00. scan \in Nat /\ late \in Nat /\ is_exit_immediately \in BOOLEAN /\ is_terminated \in BOOLEAN
  BY <1>0, ExitModesAssumption DEF TypeOK
<1>1. ASSUME UNCHANGED <<running_groups, is_exit_immediately, scan, empty, late, pc>>,
             is_terminated => is_terminated'
      PROVE  Stopping'
  BY <1>0, <1>1 DEF Stopping, LatePhase, Scanned
<1>2. CASE Run
  BY <1>0, <1>00, <1>2, EmptyList
     DEF Run, At, Stopping, LatePhase, Scanned, shared, history
<1>3. CASE RunLoop \/ ReadNeedBalance \/ ClearNeedBalance \/ RunTaskNull \/ RunTask
  BY <1>0, <1>00, <1>3
     DEF RunLoop, ReadNeedBalance, ClearNeedBalance, RunTaskNull, RunTask, At,
         Stopping, LatePhase, Scanned, shared, history
<1>4. CASE GetNextTask
  BY <1>0, <1>00, <1>4 DEF GetNextTask, Started, At, Stopping, LatePhase, Scanned
<1>5. CASE Balance
  BY <1>0, <1>00, <1>5 DEF Balance, At, Stopping, LatePhase, Scanned
<1>6. CASE Scan
  <2>1. CASE running_groups[scan] = <<>>
    BY <1>1, <1>6, <2>1 DEF Scan, ScanTask, ScanIdle, thread
  <2>2. CASE running_groups[scan] # <<>>
    <3>1. pc = "scan" /\ scan \in DOMAIN running_groups
      BY <1>0, <1>6 DEF Scan, At, TypeOK, Scanned
    <3>2. PICK g \in Seq(Runners) : g = running_groups[scan] /\ Len(g) <= 1 /\ g # <<>>
      BY <1>0, <2>2, <3>1, ListTypes DEF Lists
    <3>3. Range(g) = {Last(g)}
      BY <3>2, SmallGroup
    <3>4. CASE ScanTask(g)
      BY <1>0, <1>00, <1>6, <3>1, <3>4
         DEF Scan, ScanTask, Started, Stopping, LatePhase, Scanned
    <3>5. CASE ScanIdle(g)
      <4>1. /\ empty' = empty \union {Last(g)} /\ scan' = scan + 1
            /\ UNCHANGED <<pc, late, running_groups, is_terminated, is_exit_immediately>>
        BY <1>6, <3>5 DEF Scan, ScanIdle
      <4>2. LatePhase'
        BY <1>0, <4>1 DEF LatePhase
      <4>3. ASSUME NEW i \in DOMAIN running_groups, i < scan + 1
            PROVE  Range(running_groups[i]) \subseteq empty'
        <5>1. DOMAIN running_groups = 1..Len(running_groups) /\ Len(running_groups) \in Nat
          BY <1>0 DEF TypeOK
        <5>2. CASE i < scan
          BY <1>0, <3>1, <4>1, <5>2 DEF Scanned
        <5>3. CASE i = scan
          BY <3>2, <3>3, <4>1, <5>3
        <5> QED BY <1>00, <4>3, <5>1, <5>2, <5>3
      <4> QED BY <1>0, <1>00, <3>1, <4>1, <4>2, <4>3 DEF Stopping, Scanned
    <3> QED BY <1>6, <2>2, <3>2, <3>4, <3>5 DEF Scan
  <2> QED BY <2>1, <2>2
<1>7. CASE ScanEnd
  <2>1. pc = "scan" /\ scan > Len(running_groups)
    BY <1>7 DEF ScanEnd, At
  <2>2. DOMAIN running_groups = 1..Len(running_groups) /\ Len(running_groups) \in Nat
    BY <1>0 DEF TypeOK
  <2>3. \A i \in DOMAIN running_groups : Range(running_groups[i]) \subseteq empty
    BY <1>0, <1>00, <2>1, <2>2 DEF Scanned
  <2>4. Running \subseteq empty
    BY <2>3, InRunnersOf
  <2>5. pc' \in {"idle", "null"} /\ scan' = 1 /\ UNCHANGED <<running_groups, empty>>
    BY <1>7 DEF ScanEnd, shared
  <2>6. Scanned'
    BY <2>4, <2>5 DEF Scanned
  <2>7. LatePhase'
    BY <1>0, <1>00, <1>7, <2>1 DEF ScanEnd, Started, LatePhase, shared
  <2> QED BY <2>6, <2>7 DEF Stopping
<1>8. CASE Post \/ Ended \/ UNCHANGED vars
  BY <1>1, <1>8 DEF Post, PostTask, PostIdleTask, AddImmediateTask, Ended, vars, shared,
     thread, history
<1>9. ASSUME NEW c \in Clients, NEW r \in Runners, Bind(c, r) \/ ScanRace(c, r)
      PROVE  Stopping'
  BY <1>1, <1>9 DEF Bind, ScanRace, shared, thread, history
<1>10. ASSUME NEW c \in Clients, BindFlag(c) \/ UnBindPending(c) \/ Join(c) \/ Terminate(c)
       PROVE  Stopping'
  BY <1>1, <1>10 DEF BindFlag, UnBindPending, Join, Terminate, shared, thread, history
<1>11. ASSUME NEW c \in Clients, NEW r \in Runners, UnBind(c, r) PROVE Stopping'
  <2>1. UNCHANGED <<is_exit_immediately, scan, empty, late, pc, is_terminated>>
    BY <1>11 DEF UnBind, thread, history
  <2>2. CASE running_groups' = running_groups
    BY <1>1, <2>1, <2>2
  <2>3. CASE running_groups' = Without(running_groups, r)
    <3>1. /\ RunnersOf(running_groups') \subseteq Running
          /\ Len(running_groups') = Len(running_groups)
          /\ GroupList(running_groups')
          /\ \A i \in DOMAIN running_groups :
               Range(running_groups'[i]) \subseteq Range(running_groups[i])
      BY <1>0, <2>3, WithoutRunner DEF Lists
    <3>2. DOMAIN running_groups' = DOMAIN running_groups
      BY <2>3 DEF Without
    <3>3. running_groups = <<>> => running_groups' = <<>>
      BY <3>1, <1>0 DEF GroupList, TypeOK
    <3> QED BY <1>0, <2>1, <3>1, <3>2, <3>3 DEF Stopping, LatePhase, Scanned
  <2> QED BY <1>11, <2>2, <2>3 DEF UnBind
<1> QED BY <1>2, <1>3, <1>4, <1>5, <1>6, <1>7, <1>8, <1>9, <1>10, <1>11
      DEF Next, WorkerStep, ClientStep

-----------------------------------------------------------------------------
(* The theorems. *)

\* A runner is in at most one place, and in one exactly when it is in a list.
LEMMA Places ==
  ASSUME TypeOK, Lists, NEW r \in Runners
  PROVE  /\ r \notin Running \union Pending => PlacesOf(r) = {}
         /\ r \in Running \union Pending => \E p : PlacesOf(r) = {p}
<1> USE DEF Running, Pending
<1>1. /\ Len(running_groups) \in Nat /\ DOMAIN running_groups = 1..Len(running_groups)
      /\ Len(pending_groups) \in Nat /\ DOMAIN pending_groups = 1..Len(pending_groups)
  BY DEF TypeOK
<1> DEFINE InRunning(i) == i \in DOMAIN running_groups /\ r \in Range(running_groups[i])
           InPending(i) == i \in DOMAIN pending_groups /\ r \in Range(pending_groups[i])
<1>2. \A p : p \in PlacesOf(r) <=> \/ \E i : p = <<"running", i>> /\ InRunning(i)
                                   \/ \E i : p = <<"pending", i>> /\ InPending(i)
  <2>1. \A i : InRunning(i) \/ InPending(i)
                 => i \in 1..(Len(running_groups) + Len(pending_groups))
    BY <1>1
  <2>2. ASSUME NEW p, p \in PlacesOf(r)
        PROVE  \/ \E i : p = <<"running", i>> /\ InRunning(i)
               \/ \E i : p = <<"pending", i>> /\ InPending(i)
    BY <2>2 DEF PlacesOf
  <2>3. ASSUME NEW i, InRunning(i) PROVE <<"running", i>> \in PlacesOf(r)
    BY <2>1, <2>3 DEF PlacesOf
  <2>4. ASSUME NEW i, InPending(i) PROVE <<"pending", i>> \in PlacesOf(r)
    BY <2>1, <2>4 DEF PlacesOf
  <2> QED BY <2>2, <2>3, <2>4
<1>3. /\ r \in Running <=> \E i : InRunning(i)
      /\ r \in Pending <=> \E i : InPending(i)
  BY InRunnersOf
<1>4. /\ \A i, j : InRunning(i) /\ InRunning(j) => i = j
      /\ \A i, j : InPending(i) /\ InPending(j) => i = j
  BY DEF Lists, GroupList
<1> HIDE DEF InRunning, InPending
<1>5. ~(r \in Running /\ r \in Pending)
  BY DEF Lists
<1>6. CASE r \in Running
  <2>1. PICK i : InRunning(i)
    BY <1>3, <1>6
  <2>2. PlacesOf(r) = {<<"running", i>>}
    BY <1>2, <1>3, <1>4, <1>5, <1>6, <2>1
  <2> QED BY <1>6, <2>2
<1>7. CASE r \in Pending
  <2>1. PICK i : InPending(i)
    BY <1>3, <1>7
  <2>2. PlacesOf(r) = {<<"pending", i>>}
    BY <1>2, <1>3, <1>4, <1>5, <1>7, <2>1
  <2> QED BY <1>7, <2>2
<1>8. CASE r \notin Running \union Pending
  BY <1>2, <1>3, <1>8
<1> QED BY <1>6, <1>7, <1>8

LEMMA InitSafe == Init => Safe
<1> SUFFICES ASSUME Init PROVE Safe
  OBVIOUS
<1>1. Types
  <2>1. ThreadTypes
    <3>1. need_balance \in BOOLEAN /\ is_terminated \in BOOLEAN /\ idle_task \in BOOLEAN
      BY DEF Init
    <3>2. curr_group \in Seq(Runners) /\ scan \in Nat
      BY DEF Init
    <3> QED BY <3>1, <3>2 DEF Init, ThreadTypes
  <2>2. QueueTypes
    BY BoundsAssumption DEF Init, QueueTypes, Counts
  <2>3. CallTypes /\ HistoryTypes
    BY DEF Init, CallTypes, HistoryTypes, NoCall
  <2> QED BY <2>1, <2>2, <2>3 DEF Types
<1>2. TypeOK /\ Counts
  BY <1>1, TypeParts DEF Init
<1>3. Lists /\ Running = {} /\ Pending = {}
  BY EmptyList DEF Init, Lists, Running, Pending
<1>4. Members /\ RemovedPlaces /\ Calls
  BY <1>3 DEF Init, Members, RemovedPlaces, Calls, NoCall
<1>5. BalanceWakeup /\ WakeupAtClear
  BY <1>3 DEF Init, BalanceWakeup, WakeupAtClear, Pending
<1>6. LatePhase /\ Scanned
  BY DEF Init, LatePhase, Scanned
<1> QED BY <1>2, <1>3, <1>4, <1>5, <1>6 DEF Safe

\* The inductive invariant holds in every state of the worker.
THEOREM Invariant == Spec => []Safe
<1>1. Safe /\ [Next]_vars => Safe'
  BY PlacedStep, TypeStep, WokenStep, StoppingStep DEF Safe, Placed, Woken, Stopping
<1> QED BY InitSafe, <1>1, PTL DEF Spec

\* BoundOnce: for any number of runners and clients, a bound runner is in
\* exactly one group of exactly one list of the worker, whatever Bind, UnBind,
\* the sort and the balance have done.
THEOREM BoundInOnePlace == Spec => []BoundOnce
<1>1. Safe => BoundOnce
  <2> SUFFICES ASSUME Safe, NEW r \in Runners, life[r] = "bound"
               PROVE  Cardinality(PlacesOf(r)) = 1
    BY DEF Safe, BoundOnce
  <2>1. r \in Running \union Pending
    BY DEF Safe, Members
  <2>2. PICK p : PlacesOf(r) = {p}
    BY <2>1, Places DEF Safe
  <2> QED BY <2>2, FS_Singleton
<1> QED BY Invariant, <1>1, PTL

\* BalanceWakeup: no pending group is forgotten, except by the store of false
\* that overtakes the store of true of its Bind.
THEOREM NoLostWakeup == Spec => []BalanceWakeup
<1>1. Safe => BalanceWakeup
  BY DEF Safe
<1> QED BY Invariant, <1>1, PTL

\* RemovedIsGone: an UnBind that has returned has erased its runner, except
\* when a balance moved the runner between its two searches.
THEOREM UnBindErases == Spec => []RemovedIsGone
<1>1. Safe => RemovedIsGone
  <2> SUFFICES ASSUME Safe, NEW r \in Runners, life[r] = "removed",
                      \A c \in Clients : op[c].runner # r, r \notin missed
               PROVE  PlacesOf(r) = {}
    BY DEF RemovedIsGone
  <2>1. r \notin HalfUnbound
    BY DEF HalfUnbound
  <2>2. r \notin Running \union Pending
    BY <2>1 DEF Safe, RemovedPlaces
  <2> QED BY <2>2, Places DEF Safe
<1> QED BY Invariant, <1>1, PTL

\* TerminateDiscipline: after Terminate a worker that exits immediately starts
\* at most one queued task (worker.h:70 says none), and one that drains exits
\* after a whole fruitless scan.
THEOREM TerminateKept == Spec => []TerminateDiscipline
<1>1. Safe => TerminateDiscipline
  BY DEF Safe, LatePhase, Scanned, TerminateDiscipline, AtMostOneAfterTerminate,
         ExitAfterFullScan, Running
<1> QED BY Invariant, <1>1, PTL

-----------------------------------------------------------------------------
(* The share of each runner.  Costs has a greatest element, which CHOOSE    *)
(* picks as MaxCost.                                                        *)

CostsBounded == \E m \in Costs : \A c \in Costs : c <= m

LEMMA CostBound ==
  ASSUME CostsBounded
  PROVE  MaxCost \in Nat /\ \A c \in Costs : c \in Nat /\ c <= MaxCost
  BY CostsAssumption DEF CostsBounded, MaxCost

\* What the proofs need of products.
LEMMA Multiples ==
  ASSUME NEW m \in Nat, NEW a \in Nat
  PROVE  m * a \in Nat /\ m * (1 + a) = m * a + m /\ m * (a + 1) = m * a + m
  OBVIOUS

LEMMA LargerMultiple ==
  ASSUME NEW m \in Nat, NEW a \in Nat, NEW b \in Nat, a <= b
  PROVE  m * a <= m * b
<1>1. PICK d \in Nat : b = a + d
  <2>1. b - a \in Nat /\ b = a + (b - a)
    OBVIOUS
  <2> QED BY <2>1
<1>2. m * b = m * a + m * d /\ m * a \in Nat /\ m * d \in Nat
  BY <1>1
<1> QED BY <1>2

LEMMA SmallerFactor ==
  ASSUME NEW p \in Nat, p > 0, NEW a \in Nat, NEW b \in Nat, p * a <= p * b
  PROVE  a <= b
<1> SUFFICES ASSUME b + 1 <= a PROVE FALSE
  OBVIOUS
<1>1. p * (b + 1) <= p * a
  BY LargerMultiple
<1>2. p * (b + 1) = p * b + p /\ p * b \in Nat /\ p * a \in Nat
  BY Multiples
<1> QED BY <1>1, <1>2

-----------------------------------------------------------------------------
(* Where the times stand while every runner had a task whenever it was asked. *)

Even == ~dry /\ status = "ok" /\ OnePriority

\* The immediate tasks whose cost is still to be charged.
Owing == immediate_task_queue + (IF pc = "immediate" THEN 1 ELSE 0)

\* Between the sort and the choice of a task.
Choosing == {"flag", "balance", "clear", "scan"}

Foremost == IF running_groups = <<>> THEN {} ELSE Range(running_groups[1])

\* Each immediate task charged so far, and one task of the runner's own, is all
\* that one can be ahead of another.
Apart ==
  \A r, s \in Running :
    time[r] + MaxCost * Owing <= time[s] + MaxCost * (1 + immediates)

\* No runner has less time than the first, once the groups are sorted ...
LeastFirst ==
  pc \in Choosing => \A h \in Foremost, s \in Running : time[h] <= time[s]

\* ... and the one that runs was the first.
LeastRuns ==
  pc = "run" => \A h \in Range(curr_group), s \in Running : time[h] <= time[s]

Sharing ==
  /\ ~idle_task /\ pc # "idle" /\ scan = 1
  /\ Apart /\ LeastFirst /\ LeastRuns

Shared == Even => Sharing

\* A runner without a task, a failure and a second priority are for good.
LEMMA EvenBefore ==
  ASSUME Safe, [Next]_vars, Even'
  PROVE  Even
<1>0. dry \in BOOLEAN /\ life \in [Runners -> {"new", "bound", "removed"}]
  BY DEF Safe, TypeOK
<1>1. /\ (dry => dry') /\ (status # "ok" => status' # "ok")
      /\ \A r \in Runners : life[r] # "new" => life'[r] # "new"
  <2>1. CASE Run \/ RunLoop \/ GetNextTask \/ ReadNeedBalance \/ Balance \/ ClearNeedBalance
             \/ ScanEnd \/ RunTask \/ RunTaskNull
    BY <2>1 DEF Run, RunLoop, GetNextTask, ReadNeedBalance, Balance, ClearNeedBalance,
       ScanEnd, RunTask, RunTaskNull, At, history
  <2>2. CASE Scan
    BY <2>2 DEF Scan, ScanTask, ScanIdle, At
  <2>3. CASE Post
    BY <2>3 DEF Post, PostTask, PostIdleTask, AddImmediateTask, history
  <2>4. CASE Ended \/ UNCHANGED vars
    BY <2>4 DEF Ended, vars, history
  <2>5. ASSUME NEW c \in Clients, BindFlag(c) \/ UnBindPending(c) \/ Join(c) \/ Terminate(c)
        PROVE  /\ (dry => dry') /\ (status # "ok" => status' # "ok")
               /\ \A r \in Runners : life[r] # "new" => life'[r] # "new"
    BY <2>5 DEF BindFlag, UnBindPending, Join, Terminate, In, Idle, history
  <2>6. ASSUME NEW c \in Clients, NEW x \in Runners,
               Bind(c, x) \/ UnBind(c, x) \/ ScanRace(c, x)
        PROVE  /\ (dry => dry') /\ (status # "ok" => status' # "ok")
               /\ \A r \in Runners : life[r] # "new" => life'[r] # "new"
    BY <1>0, <2>6 DEF Bind, UnBind, ScanRace, Idle, history
  <2> QED BY <2>1, <2>2, <2>3, <2>4, <2>5, <2>6 DEF Next, WorkerStep, ClientStep
<1> QED BY <1>0, <1>1 DEF Even, OnePriority

\* Steps that charge nothing and start nothing.
LEMMA SharingSame ==
  ASSUME Sharing,
         UNCHANGED <<running_groups, time, immediates, immediate_task_queue,
                     curr_group, idle_task, scan>>,
         \/ pc' = pc
         \/ /\ pc # "immediate" /\ pc' \notin {"immediate", "run", "idle"}
            /\ pc' \in Choosing => pc \in Choosing
  PROVE  Sharing'
<1>1. Owing' = Owing
  BY DEF Owing, Sharing
<1>2. Apart'
  BY <1>1 DEF Sharing, Apart, Running
<1>3. LeastFirst' /\ LeastRuns'
  BY DEF Sharing, LeastFirst, LeastRuns, Running, Foremost, Choosing
<1> QED BY <1>2, <1>3 DEF Sharing

\* The worker's steps but the ones below.
LEMMA SharingAside ==
  ASSUME Safe, Sharing,
         \/ Run \/ RunLoop \/ ReadNeedBalance \/ ClearNeedBalance \/ ScanEnd \/ RunTaskNull
         \/ Ended \/ UNCHANGED vars
         \/ \E r \in Runners : PostTask(r) \/ PostIdleTask(r)
         \/ \E c \in Clients : \/ BindFlag(c) \/ UnBindPending(c) \/ Join(c) \/ Terminate(c)
                               \/ \E r \in Runners : Bind(c, r)
  PROVE  Sharing'
<1>1. CASE Run \/ RunLoop \/ ReadNeedBalance \/ ClearNeedBalance \/ RunTaskNull
  BY <1>1, SharingSame DEF Run, RunLoop, ReadNeedBalance, ClearNeedBalance, RunTaskNull, At,
     Choosing, shared, bounds
<1>2. CASE ScanEnd
  <2>1. pc = "scan" /\ pc' = "null" /\ scan' = scan
    BY <1>2 DEF ScanEnd, At, Sharing
  <2>2. idle_task' = FALSE /\ ~idle_task
    BY <1>2 DEF ScanEnd, Sharing
  <2>3. idle_task' = idle_task
    BY <2>2 DEF Safe, TypeOK
  <2> QED BY <1>2, <2>1, <2>3, SharingSame DEF ScanEnd, Choosing, shared, bounds
<1>3. CASE Ended \/ UNCHANGED vars
  BY <1>3, SharingSame DEF Ended, vars, shared, thread, bounds
<1>4. ASSUME NEW r \in Runners, PostTask(r) \/ PostIdleTask(r) PROVE Sharing'
  BY <1>4, SharingSame DEF PostTask, PostIdleTask, thread
<1>5. ASSUME NEW c \in Clients, BindFlag(c) \/ UnBindPending(c) \/ Join(c) \/ Terminate(c)
      PROVE  Sharing'
  BY <1>5, SharingSame DEF BindFlag, UnBindPending, Join, Terminate, shared, thread, bounds
<1>6. ASSUME NEW c \in Clients, NEW r \in Runners, Bind(c, r) PROVE Sharing'
  BY <1>6, SharingSame DEF Bind, thread, bounds
<1> QED BY <1>1, <1>2, <1>3, <1>4, <1>5, <1>6

\* A task is charged to one group: to the first, which has the least time, or
\* for an immediate task to the last one that ran.
LEMMA SharingRun ==
  ASSUME Safe, CostsBounded, Sharing, RunTask
  PROVE  Sharing'
<1>0. /\ time \in [Runners -> Nat] /\ immediate_task_queue \in Nat /\ immediates \in Nat
      /\ immediate_task_queue <= immediates /\ Running \subseteq Runners
  BY BoundsAssumption, ListTypes DEF Safe, TypeOK, Counts, Lists, Running
<1>1. PICK cost \in Costs :
        time' = [r \in Runners |->
                   IF r \in Range(curr_group) THEN time[r] + cost ELSE time[r]]
  BY DEF RunTask
<1>2. PICK m \in Nat : m = MaxCost
  BY CostBound
<1>3. cost \in Nat /\ cost <= m
  BY <1>2, CostBound
<1>4. /\ pc' = "loop"
      /\ UNCHANGED <<running_groups, immediates, immediate_task_queue, idle_task, scan>>
  BY DEF RunTask, shared, bounds
<1>5. Owing' = immediate_task_queue
  BY <1>0, <1>4 DEF Owing
<1>6. ASSUME NEW r \in Running, NEW s \in Running
      PROVE  time'[r] + m * immediate_task_queue <= time'[s] + m * (1 + immediates)
  <2>1. PICK q \in Nat : q = m * immediate_task_queue
    BY <1>0, Multiples
  <2>2. PICK w \in Nat : w = m * immediates
    BY <1>0, Multiples
  <2>3. m * (1 + immediates) = w + m /\ q <= w
    BY <1>0, <2>1, <2>2, Multiples, LargerMultiple
  <2>4. /\ time[r] \in Nat /\ time[s] \in Nat /\ time'[r] \in Nat /\ time'[s] \in Nat
        /\ time[s] <= time'[s] /\ time'[r] <= time[r] + m
        /\ r \notin Range(curr_group) => time'[r] = time[r]
    BY <1>0, <1>1, <1>3
  <2>5. CASE pc = "immediate"
    <3>1. m * Owing = q + m
      BY <1>0, <2>1, <2>5, Multiples DEF Owing
    <3>2. time[r] + (q + m) <= time[s] + (w + m)
      BY <1>2, <2>3, <3>1 DEF Sharing, Apart
    <3> QED BY <2>1, <2>3, <2>4, <3>2
  <2>6. CASE pc = "run"
    <3>1. Owing = immediate_task_queue
      BY <1>0, <2>6 DEF Owing
    <3>2. time[r] + q <= time[s] + (w + m)
      BY <1>2, <2>1, <2>3, <3>1 DEF Sharing, Apart
    <3>3. CASE r \in Range(curr_group)
      <4>1. time[r] <= time[s]
        BY <2>6, <3>3 DEF Sharing, LeastRuns
      <4> QED BY <2>1, <2>3, <2>4, <4>1
    <3>4. CASE r \notin Range(curr_group)
      BY <2>1, <2>3, <2>4, <3>2, <3>4
    <3> QED BY <3>3, <3>4
  <2> QED BY <2>5, <2>6 DEF RunTask, Sharing
<1>7. Apart'
  BY <1>2, <1>4, <1>5, <1>6 DEF Apart, Running
<1>8. LeastFirst' /\ LeastRuns'
  BY <1>4 DEF LeastFirst, LeastRuns, Choosing
<1> QED BY <1>4, <1>7, <1>8 DEF Sharing

\* The sort finds the group with the least time, when there is one priority.
LEMMA SharingNext ==
  ASSUME Safe, Even, Sharing, GetNextTask, Even'
  PROVE  Sharing'
<1>0. /\ time \in [Runners -> Nat] /\ immediate_task_queue \in Nat
      /\ Running \subseteq Runners /\ GroupList(running_groups)
  BY BoundsAssumption, ListTypes DEF Safe, TypeOK, Lists, Running
<1>1. pc = "next" /\ UNCHANGED <<time, idle_task, scan, curr_group, immediates>>
  BY DEF GetNextTask, At, bounds
<1>2. CASE /\ immediate_task_queue > 0 /\ pc' = "immediate"
           /\ immediate_task_queue' = immediate_task_queue - 1
           /\ running_groups' = running_groups
  <2>1. Owing' = Owing
    BY <1>0, <1>1, <1>2 DEF Owing
  <2>2. Apart'
    BY <1>1, <1>2, <2>1 DEF Sharing, Apart, Running
  <2>3. LeastFirst' /\ LeastRuns'
    BY <1>2 DEF LeastFirst, LeastRuns, Choosing
  <2> QED BY <1>1, <1>2, <2>2, <2>3 DEF Sharing
<1>3. CASE /\ pc' = "flag" /\ immediate_task_queue' = immediate_task_queue /\ ~SortAborts
           /\ running_groups' = IF Len(running_groups) > 1
                                  THEN Sorted(running_groups) ELSE running_groups
  <2>1. Owing' = Owing
    BY <1>1, <1>3 DEF Owing
  <2>2. CASE Len(running_groups) > 1
    <3>1. <<>> \notin Range(running_groups) /\ running_groups # <<>>
      BY <1>0, <2>2, <1>3 DEF SortAborts
    <3>2. running_groups' = Sorted(running_groups)
      BY <1>3, <2>2
    <3>3. GroupList(running_groups') /\ RunnersOf(running_groups') = Running
      BY <1>0, <3>1, <3>2, SortedList DEF Running
    <3>4. PICK i \in DOMAIN running_groups :
            /\ running_groups'[1] = running_groups[i]
            /\ \A j \in DOMAIN running_groups :
                 SortKey(running_groups[i]) <= SortKey(running_groups[j])
      BY <1>0, <3>1, <3>2, SortedFirst
    <3>5. ASSUME NEW j \in DOMAIN running_groups
          PROVE  /\ Head(running_groups[j]) \in Running
                 /\ Range(running_groups[j]) = {Head(running_groups[j])}
      <4>1. /\ running_groups[j] \in Seq(Runners) /\ Len(running_groups[j]) <= 1
            /\ running_groups[j] # <<>>
        BY <1>0, <3>1, ListTypes DEF Range
      <4>2. Range(running_groups[j]) = {Head(running_groups[j])}
        BY <4>1, SmallGroup
      <4> QED BY <4>2, InRunnersOf DEF Running
    <3>6. ASSUME NEW h \in Range(running_groups[i]), NEW s \in Running
          PROVE  time[h] <= time[s]
      <4>1. PICK j \in DOMAIN running_groups : s \in Range(running_groups[j])
        BY InRunnersOf DEF Running
      <4>2. h = Head(running_groups[i]) /\ s = Head(running_groups[j]) /\ h \in Running
        BY <3>5, <4>1
      <4>3. Priority[h] * time[h] <= Priority[s] * time[s]
        BY <3>4, <4>2 DEF SortKey
      <4>4. life[h] # "new" /\ life[s] # "new" /\ h \in Runners /\ s \in Runners
        BY <1>0, <4>2 DEF Safe, Members
      <4>5. Priority[h] = Priority[s] /\ Priority[h] > 0
        BY <4>4 DEF Even, OnePriority
      <4>6. PICK p \in Nat : p = Priority[h] /\ p = Priority[s] /\ p > 0
        BY <4>4, <4>5, PriorityAssumption
      <4>7. time[h] \in Nat /\ time[s] \in Nat
        BY <1>0, <4>4
      <4> QED BY <4>3, <4>6, <4>7, SmallerFactor
    <3>7. Foremost' \subseteq Range(running_groups[i])
      BY <3>4 DEF Foremost
    <3>8. LeastFirst'
      BY <1>1, <3>3, <3>6, <3>7 DEF LeastFirst, Running
    <3>9. Apart'
      BY <1>1, <2>1, <3>3 DEF Sharing, Apart, Running
    <3> QED BY <1>1, <1>3, <3>8, <3>9 DEF Sharing, LeastRuns
  <2>3. CASE ~(Len(running_groups) > 1)
    <3>1. running_groups' = running_groups
      BY <1>3, <2>3
    <3>2. Apart'
      BY <1>1, <2>1, <3>1 DEF Sharing, Apart, Running
    <3>3. ASSUME NEW h \in Foremost, NEW s \in Running PROVE h = s
      <4>1. running_groups # <<>> /\ h \in Range(running_groups[1])
        BY <3>3 DEF Foremost
      <4>2. DOMAIN running_groups = {1}
        <5>1. /\ running_groups \in Seq(Seq(Runners)) /\ Len(running_groups) \in Nat
              /\ DOMAIN running_groups = 1..Len(running_groups)
          BY <1>0 DEF GroupList
        <5>2. Len(running_groups) = 1
          BY <2>3, <4>1, <5>1
        <5> QED BY <5>1, <5>2
      <4>3. s \in Range(running_groups[1])
        BY <4>2, InRunnersOf DEF Running
      <4>4. running_groups[1] \in Seq(Runners) /\ Len(running_groups[1]) <= 1
        BY <1>0, <4>2, ListTypes
      <4> QED BY <4>1, <4>3, <4>4, SmallGroup
    <3>4. LeastFirst'
      BY <1>0, <1>1, <3>1, <3>3 DEF LeastFirst, Running, Foremost
    <3> QED BY <1>1, <1>3, <3>2, <3>4 DEF Sharing, LeastRuns
  <2> QED BY <2>2, <2>3
<1> QED BY <1>2, <1>3 DEF GetNextTask, Even

\* The new runners start with the least time, and go first.
LEMMA SharingBalance ==
  ASSUME Safe, CostsBounded, Sharing, Balance, Even'
  PROVE  Sharing'
<1>0. /\ time \in [Runners -> Nat] /\ immediate_task_queue \in Nat /\ immediates \in Nat
      /\ immediate_task_queue <= immediates
      /\ Running \subseteq Runners /\ Pending \subseteq Runners
      /\ GroupList(running_groups) /\ GroupList(pending_groups)
      /\ Running \intersect Pending = {}
  BY BoundsAssumption, ListTypes DEF Safe, TypeOK, Counts, Lists, Running, Pending
<1>1. /\ pc = "balance" /\ pc' = "clear"
      /\ UNCHANGED <<idle_task, scan, immediates, immediate_task_queue, curr_group>>
  BY DEF Balance, At, bounds, Even
<1>2. CASE pending_groups = <<>>
  BY <1>1, <1>2, SharingSame DEF Balance, Choosing
<1>3. CASE pending_groups # <<>>
  <2>1. /\ running_groups = <<>> \/ Head(running_groups) # <<>>
        /\ BalanceNoLock(IF running_groups = <<>> THEN 0
                         ELSE time[Head(Head(running_groups))])
    BY <1>3 DEF Balance, FrontEmpty, Even
  <2>2. PICK t \in Nat : /\ BalanceNoLock(t)
                         /\ \A s \in Running : t <= time[s]
                         /\ Running # {} => \E h \in Running : t = time[h]
    <3>1. CASE running_groups = <<>>
      <4>1. Running = {} /\ BalanceNoLock(0)
        BY <2>1, <3>1, EmptyList DEF Running
      <4> QED BY <4>1
    <3>2. CASE running_groups # <<>>
      <4>1. 1 \in DOMAIN running_groups /\ Head(running_groups) = running_groups[1]
        BY <1>0, <3>2 DEF GroupList
      <4>2. /\ running_groups[1] \in Seq(Runners) /\ Len(running_groups[1]) <= 1
            /\ running_groups[1] # <<>>
        BY <1>0, <2>1, <3>2, <4>1, ListTypes
      <4>3. PICK h \in Runners : h = Head(running_groups[1]) /\ Range(running_groups[1]) = {h}
        BY <4>2, SmallGroup
      <4>4. h \in Running /\ h \in Foremost
        BY <3>2, <4>1, <4>3, InRunnersOf DEF Running, Foremost
      <4>5. \A s \in Running : time[h] <= time[s]
        BY <1>1, <4>4 DEF Sharing, LeastFirst, Choosing
      <4>6. time[h] \in Nat /\ BalanceNoLock(time[h])
        BY <1>0, <2>1, <3>2, <4>1, <4>3
      <4> QED BY <4>4, <4>5, <4>6
    <3> QED BY <3>1, <3>2
  <2>3. /\ running_groups' = pending_groups \o running_groups
        /\ time' = [r \in Runners |-> IF r \in Pending THEN t ELSE time[r]]
    BY <2>2 DEF BalanceNoLock, Pending
  <2>4. RunnersOf(running_groups') = Running \union Pending
    BY <1>0, <2>3, JoinLists DEF Running, Pending
  <2>5. /\ \A r \in Pending : time'[r] = t
        /\ \A r \in Running : time'[r] = time[r] /\ time[r] \in Nat
    BY <1>0, <2>3
  <2>6. Foremost' \subseteq Pending
    <3>1. 1 \in DOMAIN pending_groups /\ running_groups'[1] = pending_groups[1]
      BY <1>0, <1>3, <2>3 DEF GroupList
    <3> QED BY <3>1, InRunnersOf DEF Foremost, Pending
  <2>7. LeastFirst'
    BY <2>2, <2>4, <2>5, <2>6 DEF LeastFirst, Running
  <2>8. PICK m \in Nat : m = MaxCost
    BY CostBound
  <2>9. PICK q \in Nat : q = m * immediate_task_queue
    BY <1>0, <2>8, Multiples
  <2>10. PICK w \in Nat : w = m * (1 + immediates)
    BY <1>0, <2>8, Multiples
  <2>11. q <= w
    <3>1. 1 + immediates \in Nat /\ immediate_task_queue <= 1 + immediates
      BY <1>0
    <3> QED BY <1>0, <2>8, <2>9, <2>10, <3>1, LargerMultiple
  <2>12. Owing = immediate_task_queue /\ Owing' = immediate_task_queue
    BY <1>0, <1>1 DEF Owing
  <2>13. \A r, s \in Running : time[r] + q <= time[s] + w
    BY <2>8, <2>9, <2>10, <2>12 DEF Sharing, Apart
  <2>14. ASSUME NEW r \in Running \union Pending, NEW s \in Running \union Pending
         PROVE  time'[r] + q <= time'[s] + w
    <3>1. CASE r \in Pending
      <4>1. t <= time'[s] /\ time'[s] \in Nat
        BY <2>2, <2>5
      <4> QED BY <2>5, <2>11, <3>1, <4>1
    <3>2. CASE r \in Running /\ s \in Pending
      <4>1. PICK h \in Running : t = time[h]
        BY <2>2, <3>2
      <4>2. time[r] + q <= time[h] + w
        BY <2>13, <3>2
      <4> QED BY <2>5, <3>2, <4>1, <4>2
    <3>3. CASE r \in Running /\ s \in Running
      BY <2>5, <2>13, <3>3
    <3> QED BY <3>1, <3>2, <3>3
  <2>15. Apart'
    BY <1>1, <2>4, <2>8, <2>9, <2>10, <2>12, <2>14 DEF Apart, Running
  <2> QED BY <1>1, <2>7, <2>15 DEF Sharing, LeastRuns
<1> QED BY <1>2, <1>3

\* While no runner has been without a task, the scan ends at the first group.
LEMMA SharingScan ==
  ASSUME Safe, Sharing, Scan, Even'
  PROVE  Sharing'
<1>1. /\ pc = "scan" /\ scan = 1 /\ 1 <= Len(running_groups)
      /\ UNCHANGED <<running_groups, time, immediates, immediate_task_queue>>
  BY DEF Scan, At, Sharing, bounds
<1>2. ScanTask(running_groups[1])
  BY <1>1 DEF Scan, ScanIdle, Even
<1>3. /\ pc' = "run" /\ scan' = 1 /\ ~idle_task' /\ curr_group' = running_groups[1]
  BY <1>2 DEF ScanTask
<1>4. Owing' = Owing
  BY <1>1, <1>3 DEF Owing
<1>5. Apart'
  BY <1>1, <1>4 DEF Sharing, Apart, Running
<1>6. running_groups # <<>>
  BY <1>1 DEF Safe, TypeOK
<1>7. LeastRuns'
  BY <1>1, <1>3, <1>6 DEF Sharing, LeastFirst, LeastRuns, Foremost, Running, Choosing
<1> QED BY <1>3, <1>5, <1>7 DEF Sharing, LeastFirst, Choosing

LEMMA SharingUnBind ==
  ASSUME Safe, Sharing, NEW c \in Clients, NEW x \in Runners, UnBind(c, x)
  PROVE  Sharing'
<1>1. UNCHANGED <<time, immediates, immediate_task_queue, curr_group, idle_task, scan, pc>>
  BY DEF UnBind, thread, bounds
<1>2. CASE running_groups' = running_groups
  BY <1>1, <1>2, SharingSame
<1>3. CASE running_groups' = Without(running_groups, x)
  <2>1. /\ RunnersOf(running_groups') = Running \ {x}
        /\ \A i \in DOMAIN running_groups :
             Range(running_groups'[i]) = Range(running_groups[i]) \ {x}
        /\ Len(running_groups') = Len(running_groups) /\ GroupList(running_groups')
    BY <1>3, WithoutRunner DEF Safe, Lists, Running
  <2>2. Foremost' \subseteq Foremost
    <3>1. running_groups' # <<>> => running_groups # <<>> /\ 1 \in DOMAIN running_groups
      BY <2>1 DEF GroupList, Safe, TypeOK
    <3> QED BY <2>1, <3>1 DEF Foremost
  <2>3. Owing' = Owing
    BY <1>1 DEF Owing
  <2>4. Apart'
    BY <1>1, <2>1, <2>3 DEF Sharing, Apart, Running
  <2>5. LeastFirst' /\ LeastRuns'
    BY <1>1, <2>1, <2>2 DEF Sharing, LeastFirst, LeastRuns, Running
  <2> QED BY <1>1, <2>4, <2>5 DEF Sharing
<1> QED BY <1>2, <1>3 DEF UnBind

\* An immediate task may put one more cost between two runners.
LEMMA SharingImmediate ==
  ASSUME Safe, CostsBounded, Sharing, AddImmediateTask
  PROVE  Sharing'
<1>0. /\ time \in [Runners -> Nat] /\ immediate_task_queue \in Nat /\ immediates \in Nat
      /\ Running \subseteq Runners
  BY BoundsAssumption, ListTypes DEF Safe, TypeOK, Lists, Running
<1>1. /\ immediates' = immediates + 1 /\ immediate_task_queue' = immediate_task_queue + 1
      /\ UNCHANGED <<running_groups, time, curr_group, idle_task, scan, pc>>
  BY DEF AddImmediateTask, thread
<1>2. Owing' = Owing + 1 /\ Owing \in Nat
  BY <1>0, <1>1 DEF Owing
<1>3. PICK m \in Nat : m = MaxCost
  BY CostBound
<1>4. PICK q \in Nat : q = m * Owing /\ m * Owing' = q + m
  BY <1>2, <1>3, Multiples
<1>5. PICK w \in Nat : w = m * (1 + immediates) /\ m * (1 + immediates') = w + m
  <2>1. 1 + immediates \in Nat /\ 1 + immediates' = 1 + (1 + immediates)
    BY <1>0, <1>1
  <2> QED BY <1>3, <2>1, Multiples
<1>6. \A r, s \in Running : time[r] + q <= time[s] + w
  BY <1>3, <1>4, <1>5 DEF Sharing, Apart
<1>7. \A r, s \in Running : time[r] + (q + m) <= time[s] + (w + m)
  BY <1>0, <1>6
<1>8. Apart'
  BY <1>1, <1>3, <1>4, <1>5, <1>7 DEF Apart, Running
<1> QED BY <1>1, <1>8 DEF Sharing, LeastFirst, LeastRuns, Running, Foremost

LEMMA SharedStep ==
  ASSUME Safe, CostsBounded, Shared, [Next]_vars
  PROVE  Shared'
<1> SUFFICES ASSUME Even' PROVE Sharing'
  BY DEF Shared
<1>1. Even /\ Sharing
  BY EvenBefore DEF Shared
<1>2. \A c \in Clients, r \in Runners : ~ScanRace(c, r)
  BY DEF ScanRace, Even
<1> QED BY <1>1, <1>2, SharingAside, SharingRun, SharingNext, SharingBalance, SharingScan,
       SharingUnBind, SharingImmediate DEF Next, WorkerStep, ClientStep, Post

LEMMA InitShared == Init => Shared
  BY EmptyList DEF Init, Shared, Sharing, Apart, LeastFirst, LeastRuns, Running, Choosing

\* FairShare: while every runner has had a task whenever it was asked, and all
\* have one priority, no two runners in running_groups_ are further apart than
\* the longest task and the immediate tasks added; whatever was bound, removed
\* and balanced in between.  Costs must have a greatest element: without one no
\* bound can be named.
THEOREM SharedFairly ==
  ASSUME \E m \in Costs : \A c \in Costs : c <= m
  PROVE  Spec => []FairShare
<1>0. CostsBounded
  BY DEF CostsBounded
<1>1. Safe /\ Shared /\ [Next]_vars => Shared'
  BY <1>0, SharedStep
<1>2. Safe /\ Shared => FairShare
  <2> SUFFICES ASSUME Safe, Even, Sharing, NEW r \in Running, NEW s \in Running
               PROVE  time[r] <= time[s] + MaxCost * (1 + immediates)
    BY DEF Shared, FairShare, Even, Running
  <2>1. time[r] \in Nat /\ time[s] \in Nat /\ immediates \in Nat /\ Owing \in Nat
    BY BoundsAssumption, ListTypes DEF Safe, TypeOK, Lists, Running, Owing
  <2>2. PICK m \in Nat : m = MaxCost
    BY <1>0, CostBound
  <2>3. m * Owing \in Nat /\ m * (1 + immediates) \in Nat
    BY <2>1, <2>2, Multiples
  <2>4. time[r] + m * Owing <= time[s] + m * (1 + immediates)
    BY <2>2 DEF Sharing, Apart
  <2> QED BY <2>1, <2>2, <2>3, <2>4
<1> QED BY Invariant, InitShared, <1>1, <1>2, PTL DEF Spec
=============================================================================
