-------------------------- MODULE TaskRunnerProofs --------------------------
(* Proofs about TaskRunner, for every bound and every set of clients.       *)
EXTENDS TaskRunner, FiniteSetTheorems, TLAPS

-----------------------------------------------------------------------------
(* Sequences without repetition. *)

\* push() adds one element to what a queue holds.
LEMMA RangeAppend ==
  ASSUME NEW S, NEW s \in Seq(S), NEW x \in S
  PROVE  Range(Append(s, x)) = Range(s) \union {x}
<1>1. /\ DOMAIN s = 1..Len(s)
      /\ DOMAIN Append(s, x) = 1..(Len(s) + 1)
      /\ \A i \in 1..Len(s) : Append(s, x)[i] = s[i]
      /\ Append(s, x)[Len(s) + 1] = x
      /\ Len(s) \in Nat
  OBVIOUS
<1>2. \A y : y \in Range(Append(s, x)) => y \in Range(s) \union {x}
  BY <1>1 DEF Range
<1>3. \A y \in Range(s) : y \in Range(Append(s, x))
  BY <1>1 DEF Range
<1>4. x \in Range(Append(s, x))
  <2>1. Len(s) + 1 \in DOMAIN Append(s, x)
    BY <1>1
  <2> QED BY <2>1, <1>1 DEF Range
<1> QED BY <1>2, <1>3, <1>4

\* Pushing a task that is not queued keeps a queue free of repetition.
LEMMA InjectiveAppend ==
  ASSUME NEW S, NEW s \in Seq(S), NEW x \in S,
         IsInjective(s), x \notin Range(s)
  PROVE  IsInjective(Append(s, x))
<1>1. /\ DOMAIN s = 1..Len(s)
      /\ DOMAIN Append(s, x) = 1..(Len(s) + 1)
      /\ \A i \in 1..Len(s) : Append(s, x)[i] = s[i]
      /\ Append(s, x)[Len(s) + 1] = x
      /\ Len(s) \in Nat
  OBVIOUS
<1>2. \A i \in 1..Len(s) : s[i] # x
  BY <1>1 DEF Range
<1> QED BY <1>1, <1>2 DEF IsInjective

\* pop() removes exactly the front element.
LEMMA RangeTail ==
  ASSUME NEW S, NEW s \in Seq(S), s # <<>>, IsInjective(s)
  PROVE  /\ Head(s) \in Range(s)
         /\ Range(Tail(s)) = Range(s) \ {Head(s)}
         /\ IsInjective(Tail(s))
<1>1. /\ Len(s) \in Nat /\ Len(s) >= 1
      /\ DOMAIN s = 1..Len(s)
      /\ DOMAIN Tail(s) = 1..(Len(s) - 1)
      /\ \A i \in 1..(Len(s) - 1) : Tail(s)[i] = s[i + 1]
      /\ Head(s) = s[1]
  OBVIOUS
<1>2. Head(s) \in Range(s)
  BY <1>1 DEF Range
<1>3. \A y \in Range(Tail(s)) : y \in Range(s) \ {Head(s)}
  <2> SUFFICES ASSUME NEW i \in 1..(Len(s) - 1)
               PROVE  s[i + 1] \in Range(s) /\ s[i + 1] # s[1]
    BY <1>1 DEF Range
  <2>1. i + 1 \in 1..Len(s) /\ 1 \in 1..Len(s) /\ i + 1 # 1
    BY <1>1
  <2> QED BY <1>1, <2>1 DEF Range, IsInjective
<1>4. \A y \in Range(s) \ {Head(s)} : y \in Range(Tail(s))
  <2> SUFFICES ASSUME NEW i \in 1..Len(s), s[i] # s[1]
               PROVE  s[i] \in Range(Tail(s))
    BY <1>1 DEF Range
  <2>1. i - 1 \in 1..(Len(s) - 1) /\ (i - 1) + 1 = i
    BY <1>1
  <2>2. Tail(s)[i - 1] = s[i]
    BY <1>1, <2>1
  <2> QED BY <1>1, <2>1, <2>2 DEF Range
<1>5. IsInjective(Tail(s))
  BY <1>1 DEF IsInjective
<1> QED BY <1>2, <1>3, <1>4, <1>5

-----------------------------------------------------------------------------
(* Type correctness. *)

USE MaxPostsAssumption, DelaysAssumption, MaxTimeAssumption

\* TypeOK is inductive only together with what GetNext holds: a task in the
\* drain loop, none outside the three steps that carry one.
Typed ==
  /\ TypeOK
  /\ pc \in {"lock", "drain"} => task # NoTask
  /\ pc \in {"call", "top", "front", "idle"} => task = NoTask
  /\ pc = "pop" => entry \in Tasks

LEMMA TypedInit == Init => Typed
<1> SUFFICES ASSUME Init PROVE Typed
  OBVIOUS
<1>1. /\ clock \in 0..MaxTime /\ now \in 0..MaxTime /\ posts \in 0..MaxPosts
      /\ task_queue \in Seq(Tasks) /\ ran \in Seq(Tasks)
      /\ idle_task_queue \in Seq(IdleTasks)
      /\ deadline \in [Tasks -> 0..MaxTime]
      /\ taken \in [Tasks -> 0..MaxPosts]
  BY DEF Init
<1> QED BY <1>1 DEF Init, Typed, TypeOK

LEMMA TypedNext == Typed /\ [Next]_vars => Typed'
<1> SUFFICES ASSUME Typed, [Next]_vars PROVE Typed'
  OBVIOUS
<1> USE DEF Typed, TypeOK, heap, getNext, history
<1>1. CASE UNCHANGED vars
  BY <1>1 DEF vars
<1>2. ASSUME NEW t \in Tasks, PostTask(t) PROVE Typed'
  <2>1. posts' \in 0..MaxPosts
    BY <1>2 DEF PostTask, NewTask, Tasks
  <2> QED BY <1>2, <2>1 DEF PostTask
<1>3. ASSUME NEW t \in Tasks, NEW d \in Delays, PostDelayedTask(t, d)
      PROVE  Typed'
  <2>1. clock + d \in 0..MaxTime
    BY <1>3 DEF PostDelayedTask
  <2>2. posts' \in 0..MaxPosts
    BY <1>3 DEF PostDelayedTask, NewTask, Tasks
  <2> QED BY <1>3, <2>1, <2>2 DEF PostDelayedTask
<1>4. ASSUME NEW i \in IdleTasks, PostIdleTask(i) PROVE Typed'
  BY <1>4 DEF PostIdleTask
<1>5. ASSUME NEW c \in Clients, ClearTaskQueue(c) PROVE Typed'
  <2>1. Range(task_queue) \subseteq Tasks
    BY DEF Range
  <2> QED BY <1>5, <2>1 DEF ClearTaskQueue
<1>6. ASSUME NEW c \in Clients, ClearDelayedTaskQueue(c) PROVE Typed'
  <2>1. interrupted' \subseteq Tasks
    BY <1>6 DEF ClearDelayedTaskQueue, InWindow
  <2> QED BY <1>6, <2>1 DEF ClearDelayedTaskQueue
<1>7. ASSUME NEW c \in Clients, ClearIdleTaskQueue(c) PROVE Typed'
  BY <1>7 DEF ClearIdleTaskQueue
<1>8. ASSUME NEW c \in Clients, ClearSpin(c) PROVE Typed'
  BY <1>8 DEF ClearSpin, RemoveEntry, Owned, TopEntries, InWindow
<1>9. CASE GetNextBegin
  BY <1>9 DEF GetNextBegin
<1>10. CASE UnlockedTop
  <2>1. \A e \in DueEntries(now) : e \in delayed_task_queue /\ e \in Tasks
    BY DEF DueEntries, TopEntries
  <2>2. CASE DueEntries(now) = {}
    BY <1>10, <2>2 DEF UnlockedTop, AfterNull
  <2>3. ASSUME NEW e \in DueEntries(now),
               entry' = e, task' = TaskOf(e), pc' = "pop",
               moved_from' = moved_from \union {e},
               taken' = [taken EXCEPT ![e] = IF e \in moved_from THEN @
                                                                ELSE posts]
        PROVE  Typed'
    BY <1>10, <2>1, <2>3 DEF UnlockedTop, TaskOf
  <2> QED BY <1>10, <2>2, <2>3 DEF UnlockedTop
<1>11. CASE UnlockedPop
  BY <1>11 DEF UnlockedPop, PoppedEntries, TopEntries, RemoveEntry, Owned,
               AfterNull
<1>12. CASE Drain
  <2>1. \A e \in DueEntries(now) : e \in delayed_task_queue /\ e \in Tasks
    BY DEF DueEntries, TopEntries
  <2>2. task_queue' \in Seq(Tasks)
    BY <1>12 DEF Drain
  <2>3. CASE task' = NoTask /\ pc' = "front" /\ UNCHANGED <<heap, taken>>
    BY <1>12, <2>2, <2>3 DEF Drain
  <2>4. ASSUME NEW e \in DueEntries(now), RemoveEntry(e), task' = TaskOf(e),
               taken' = [taken EXCEPT ![e] = IF e \in moved_from THEN @
                                                                ELSE posts],
               pc' = IF e \in moved_from THEN AfterNull ELSE "drain"
        PROVE  Typed'
    <3>1. /\ task' \in Tasks \union {NoTask}
          /\ pc' \in {"drain", "front"}
          /\ pc' = "drain" => task' # NoTask
          /\ pc' = "front" => task' = NoTask
      BY <2>1, <2>4 DEF TaskOf, AfterNull, NoTask, Tasks
    <3>2. taken' \in [Tasks -> 0..MaxPosts]
      BY <2>1, <2>4
    <3> QED BY <1>12, <2>1, <2>2, <2>4, <3>1, <3>2 DEF Drain, RemoveEntry
  <2> QED BY <1>12, <2>3, <2>4 DEF Drain, AfterNull
<1>13. CASE PopFront
  <2>1. CASE task_queue = <<>>
    BY <1>13, <2>1 DEF PopFront
  <2>2. CASE task_queue # <<>>
    <3>1. Head(task_queue) \in Tasks /\ Tail(task_queue) \in Seq(Tasks)
      BY <2>2
    <3>2. /\ ran' = Append(ran, Head(task_queue))
          /\ task_queue' = Tail(task_queue)
          /\ pc' = "call"
      BY <1>13, <2>2, Zenon DEF PopFront
    <3>3. ran' \in Seq(Tasks) /\ task_queue' \in Seq(Tasks)
      BY <3>1, <3>2
    <3> QED BY <1>13, <3>2, <3>3 DEF PopFront
  <2> QED BY <2>1, <2>2
<1>14. CASE PopIdleTask
  BY <1>14 DEF PopIdleTask
<1>15. CASE HeapRace
  BY <1>15 DEF HeapRace
<1>16. CASE Tick
  BY <1>16 DEF Tick
<1>17. CASE Halted
  BY <1>17 DEF Halted, vars
<1> QED
  BY <1>1, <1>2, <1>3, <1>4, <1>5, <1>6, <1>7, <1>8, <1>9, <1>10, <1>11,
     <1>12, <1>13, <1>14, <1>15, <1>16, <1>17
     DEF Next, WorkerStep, ClientStep, ClearStep

\* Every variable keeps its type; in particular the drain loop never pushes a
\* null task into task_queue_ for the worker to run.
THEOREM TypeCorrect == Spec => []TypeOK
<1>1. Spec => []Typed
  BY TypedInit, TypedNext, PTL DEF Spec
<1>2. Typed => TypeOK
  BY DEF Typed
<1> QED BY <1>1, <1>2, PTL

-----------------------------------------------------------------------------
(* The unlocked window of GetNext. *)

Windowed == Typed /\ TopStaysOnTop

LEMMA WindowedInit == Init => Windowed
<1>1. Init => Typed
  BY TypedInit
<1>2. Init => TopStaysOnTop
  BY DEF Init, TopStaysOnTop
<1> QED BY <1>1, <1>2 DEF Windowed

\* The entry taken stays on top when a task is posted: its deadline is due,
\* and the new deadline is not before now.
LEMMA PostKeepsTop ==
  ASSUME Windowed, NEW t \in Tasks, NEW d \in Delays, PostDelayedTask(t, d),
         entry \in TopEntries, deadline[entry] <= now
  PROVE  entry \in TopEntries'
<1> USE DEF Windowed, Typed, TypeOK, TopStaysOnTop
<1>1. /\ delayed_task_queue' = delayed_task_queue \union {t}
      /\ deadline' = [deadline EXCEPT ![t] = clock + d]
      /\ entry' = entry /\ clock \in Nat /\ d \in Nat
  BY DEF PostDelayedTask, getNext
<1>2. t \notin Posted
  BY DEF PostDelayedTask, NewTask, Posted, Tasks
<1>3. \A e \in delayed_task_queue : e # t /\ e \in Tasks
  BY <1>2
<1>4. /\ \A e \in delayed_task_queue : deadline'[e] = deadline[e]
      /\ deadline'[t] = clock + d
  BY <1>1, <1>3
<1>5. entry \in delayed_task_queue /\ deadline'[entry] = deadline[entry]
  BY <1>4 DEF TopEntries
<1>6. deadline[entry] <= clock + d
  BY <1>1, <1>3, <1>5
<1> QED BY <1>1, <1>4, <1>5, <1>6 DEF TopEntries

LEMMA WindowedNext == Windowed /\ [Next]_vars => Windowed'
<1> SUFFICES ASSUME Windowed, [Next]_vars PROVE TopStaysOnTop'
  BY TypedNext DEF Windowed
<1> USE DEF Windowed, Typed, TypeOK, TopStaysOnTop, heap, getNext, history,
            Posted
<1>1. CASE UNCHANGED vars
  BY <1>1 DEF vars, TopEntries
<1>2. ASSUME NEW t \in Tasks, PostTask(t) PROVE TopStaysOnTop'
  <2>1. Posted \subseteq Posted'
    BY <1>2 DEF PostTask, NewTask, Tasks
  <2>2. UNCHANGED <<clock, heap, getNext, interrupted>>
    BY <1>2 DEF PostTask
  <2>3. TopEntries' = TopEntries
    BY <2>2 DEF TopEntries
  <2> HIDE DEF Posted
  <2> QED BY <2>1, <2>2, <2>3
<1>3. ASSUME NEW t \in Tasks, NEW d \in Delays, PostDelayedTask(t, d)
      PROVE  TopStaysOnTop'
  <2>1. /\ t \notin Posted /\ Posted \subseteq Posted' /\ t \in Posted'
    BY <1>3 DEF PostDelayedTask, NewTask, Tasks
  <2>2. pc = "pop" => deadline'[entry] = deadline[entry]
    BY <1>3, <2>1 DEF PostDelayedTask
  <2>3. pc = "pop" /\ entry \in TopEntries => entry \in TopEntries'
    BY <1>3, PostKeepsTop
  <2>4. pc = "pop" /\ entry \notin delayed_task_queue
          => entry \notin delayed_task_queue'
    BY <1>3, <2>1 DEF PostDelayedTask
  <2> HIDE DEF Posted
  <2> QED BY <1>3, <2>1, <2>2, <2>3, <2>4 DEF PostDelayedTask
<1>4. ASSUME NEW i \in IdleTasks, PostIdleTask(i) PROVE TopStaysOnTop'
  BY <1>4 DEF PostIdleTask, TopEntries
<1>5. ASSUME NEW c \in Clients, ClearTaskQueue(c) PROVE TopStaysOnTop'
  BY <1>5 DEF ClearTaskQueue, TopEntries
<1>6. ASSUME NEW c \in Clients, ClearDelayedTaskQueue(c) PROVE TopStaysOnTop'
  BY <1>6 DEF ClearDelayedTaskQueue, InWindow
<1>7. ASSUME NEW c \in Clients, ClearIdleTaskQueue(c) PROVE TopStaysOnTop'
  BY <1>7 DEF ClearIdleTaskQueue, TopEntries
<1>8. ASSUME NEW c \in Clients, ClearSpin(c) PROVE TopStaysOnTop'
  BY <1>8 DEF ClearSpin, RemoveEntry, Owned, TopEntries, InWindow
<1>9. CASE GetNextBegin
  BY <1>9 DEF GetNextBegin
<1>10. CASE UnlockedTop
  BY <1>10 DEF UnlockedTop, DueEntries, TopEntries, TaskOf, AfterNull
<1>11. CASE UnlockedPop
  BY <1>11 DEF UnlockedPop, PoppedEntries, TopEntries, RemoveEntry, AfterNull
<1>12. CASE Drain
  BY <1>12 DEF Drain, RemoveEntry, TaskOf, AfterNull
<1>13. CASE PopFront
  BY <1>13 DEF PopFront
<1>14. CASE PopIdleTask
  BY <1>14 DEF PopIdleTask
<1>15. CASE HeapRace
  BY <1>15 DEF HeapRace, TopEntries
<1>16. CASE Tick
  BY <1>16 DEF Tick, TopEntries
<1>17. CASE Halted
  BY <1>17 DEF Halted, vars, TopEntries
<1> QED
  BY <1>1, <1>2, <1>3, <1>4, <1>5, <1>6, <1>7, <1>8, <1>9, <1>10, <1>11,
     <1>12, <1>13, <1>14, <1>15, <1>16, <1>17
     DEF Next, WorkerStep, ClientStep, ClearStep

\* The entry GetNext took its task from without a lock is still on top when
\* it pops, unless a Clear came between.
THEOREM WindowSafe == Spec => []TopStaysOnTop
<1>1. Spec => []Windowed
  BY WindowedInit, WindowedNext, PTL DEF Spec
<1> QED BY <1>1, PTL DEF Windowed

-----------------------------------------------------------------------------
(* Conservation of tasks. *)

Conserved == Windowed /\ Conservation

LEMMA ConservedInit == Init => Conserved
<1>1. Init => Conservation
  BY DEF Init, Conservation, Posted, Queued, Waiting, InHand, Returned, Range,
         IsInjective
<1> QED BY <1>1, WindowedInit DEF Conserved

\* A new task is at no place yet.
LEMMA NewTaskFresh ==
  ASSUME Conserved, NEW t \in Tasks, NewTask(t)
  PROVE  /\ Posted' = Posted \union {t}
         /\ t \notin Queued /\ t \notin Waiting /\ t \notin InHand
         /\ t \notin Returned /\ t \notin cleared /\ t \notin destroyed
         /\ t \notin delayed_task_queue
<1>1. t \notin Posted /\ Posted' = Posted \union {t}
  <2>1. posts \in Nat /\ t = posts + 1 /\ posts' = posts + 1
    BY DEF NewTask, Conserved, Windowed, Typed, TypeOK
  <2>2. 1..(posts + 1) = (1..posts) \union {posts + 1}
    BY <2>1
  <2> QED BY <2>1, <2>2 DEF Posted
<1>2. t \notin Queued /\ t \notin Waiting /\ t \notin InHand
      /\ t \notin Returned /\ t \notin cleared /\ t \notin destroyed
  BY <1>1 DEF Conserved, Conservation
<1>3. t \notin delayed_task_queue
  BY <1>1 DEF Conserved, Windowed, TopStaysOnTop
<1> QED BY <1>1, <1>2, <1>3

\* A step that changes no place keeps Conservation.
LEMMA SamePlaces ==
  ASSUME Conservation,
         UNCHANGED <<posts, task_queue, delayed_task_queue, moved_from, task,
                     ran, cleared, destroyed>>
  PROVE  Conservation'
  BY DEF Conservation, Posted, Queued, Waiting, InHand, Returned

LEMMA ConservedNext == Conserved /\ [Next]_vars => Conserved'
<1> SUFFICES ASSUME Conserved, [Next]_vars PROVE Conservation'
  BY WindowedNext DEF Conserved
<1> USE DEF heap, getNext, history
<1>t. /\ task_queue \in Seq(Tasks) /\ ran \in Seq(Tasks)
      /\ moved_from \subseteq delayed_task_queue
      /\ IsInjective(task_queue) /\ IsInjective(ran)
      /\ Conservation
  BY DEF Conserved, Windowed, Typed, TypeOK, Conservation
<1>1. CASE UNCHANGED vars
  BY <1>1, <1>t, SamePlaces DEF vars
<1>2. ASSUME NEW t \in Tasks, PostTask(t) PROVE Conservation'
  <2>1. NewTask(t) /\ task_queue' = Append(task_queue, t)
    BY <1>2 DEF PostTask
  <2>2. Queued' = Queued \union {t}
    BY <1>t, <2>1, RangeAppend DEF Queued
  <2>3. IsInjective(task_queue')
    BY <1>t, <2>1, NewTaskFresh, InjectiveAppend DEF Queued
  <2>4. UNCHANGED <<Waiting, InHand, Returned, ran, cleared, destroyed>>
    BY <1>2 DEF PostTask, Waiting, InHand, Returned
  <2> QED BY <1>t, <2>1, <2>2, <2>3, <2>4, NewTaskFresh DEF Conservation
<1>3. ASSUME NEW t \in Tasks, NEW d \in Delays, PostDelayedTask(t, d)
      PROVE  Conservation'
  <2>1. NewTask(t)
    BY <1>3 DEF PostDelayedTask
  <2>2. Waiting' = Waiting \union {t}
    BY <1>t, <1>3, <2>1, NewTaskFresh DEF PostDelayedTask, Waiting
  <2>3. UNCHANGED <<task_queue, Queued, InHand, Returned, ran, cleared,
                    destroyed>>
    BY <1>3 DEF PostDelayedTask, Queued, InHand, Returned
  <2> QED BY <1>t, <2>1, <2>2, <2>3, NewTaskFresh DEF Conservation
<1>4. ASSUME NEW i \in IdleTasks, PostIdleTask(i) PROVE Conservation'
  BY <1>4, <1>t, SamePlaces DEF PostIdleTask
<1>5. ASSUME NEW c \in Clients, ClearTaskQueue(c) PROVE Conservation'
  <2>1. /\ task_queue' = <<>> /\ Queued' = {}
        /\ cleared' = cleared \union Queued
    BY <1>5 DEF ClearTaskQueue, Queued, Range
  <2>2. UNCHANGED <<Posted, Waiting, InHand, Returned, ran, destroyed>>
    BY <1>5 DEF ClearTaskQueue, Posted, Waiting, InHand, Returned
  <2>3. IsInjective(task_queue')
    BY <2>1 DEF IsInjective
  <2> QED BY <1>t, <2>1, <2>2, <2>3 DEF Conservation
<1>6. ASSUME NEW c \in Clients, ClearDelayedTaskQueue(c) PROVE Conservation'
  <2>1. Waiting' = {} /\ cleared' = cleared \union Waiting
    BY <1>6 DEF ClearDelayedTaskQueue, Waiting
  <2>2. UNCHANGED <<Posted, task_queue, Queued, InHand, Returned, ran,
                    destroyed>>
    BY <1>6 DEF ClearDelayedTaskQueue, Posted, Queued, InHand, Returned
  <2> QED BY <1>t, <2>1, <2>2 DEF Conservation
<1>7. ASSUME NEW c \in Clients, ClearIdleTaskQueue(c) PROVE Conservation'
  BY <1>7, <1>t, SamePlaces DEF ClearIdleTaskQueue
<1>8. ASSUME NEW c \in Clients, ClearSpin(c) PROVE Conservation'
  <2>1. CASE UNCHANGED <<heap, cleared>>
    BY <1>8, <1>t, <2>1, SamePlaces DEF ClearSpin
  <2>2. ASSUME NEW e \in TopEntries, RemoveEntry(e),
               cleared' = cleared \union Owned(e)
        PROVE  Conservation'
    <3>1. Waiting' = Waiting \ {e} /\ Owned(e) = Waiting \intersect {e}
      BY <1>t, <2>2 DEF RemoveEntry, Waiting, Owned, TopEntries
    <3>2. UNCHANGED <<Posted, task_queue, Queued, InHand, Returned, ran,
                      destroyed>>
      BY <1>8 DEF ClearSpin, Posted, Queued, InHand, Returned
    <3> QED BY <1>t, <2>2, <3>1, <3>2 DEF Conservation
  <2> QED BY <1>8, <2>1, <2>2 DEF ClearSpin
<1>9. CASE GetNextBegin
  BY <1>9, <1>t, SamePlaces DEF GetNextBegin
<1>10. CASE UnlockedTop
  <2>1. CASE UNCHANGED <<task, entry, moved_from, taken>>
    BY <1>10, <1>t, <2>1, SamePlaces DEF UnlockedTop
  <2>2. ASSUME NEW e \in DueEntries(now), task' = TaskOf(e),
               moved_from' = moved_from \union {e}
        PROVE  Conservation'
    <3>1. /\ InHand = {} /\ moved_from = {} /\ e \in delayed_task_queue
          /\ e \in Tasks
      BY <1>10 DEF UnlockedTop, Conserved, Windowed, TopStaysOnTop, Typed,
                   TypeOK, InHand, DueEntries, TopEntries
    <3>2. InHand' = {e} /\ e \in Waiting /\ Waiting' = Waiting \ {e}
      BY <1>10, <2>2, <3>1
         DEF UnlockedTop, InHand, Waiting, TaskOf, NoTask, Tasks
    <3>3. UNCHANGED <<Posted, task_queue, Queued, Returned, ran, cleared,
                      destroyed>>
      BY <1>10 DEF UnlockedTop, Posted, Queued, Returned
    <3> QED BY <1>t, <3>1, <3>2, <3>3 DEF Conservation
  <2> QED BY <1>10, <2>1, <2>2 DEF UnlockedTop
<1>11. CASE UnlockedPop
  <2>1. CASE UNCHANGED <<heap, pc, entry, destroyed>>
    BY <1>11, <1>t, <2>1, SamePlaces DEF UnlockedPop
  <2>2. ASSUME NEW e \in PoppedEntries, RemoveEntry(e),
               destroyed' = destroyed \union Owned(e)
        PROVE  Conservation'
    <3>1. e \in delayed_task_queue
      BY DEF PoppedEntries, TopEntries
    <3>2. Waiting' = Waiting \ {e} /\ Owned(e) = Waiting \intersect {e}
      BY <1>t, <2>2, <3>1 DEF RemoveEntry, Waiting, Owned
    <3>3. UNCHANGED <<Posted, task_queue, Queued, InHand, Returned, ran,
                      cleared>>
      BY <1>11 DEF UnlockedPop, Posted, Queued, InHand, Returned
    <3> QED BY <1>t, <2>2, <3>2, <3>3 DEF Conservation
  <2> QED BY <1>11, <2>1, <2>2 DEF UnlockedPop
<1>12. CASE Drain
  <2>1. /\ task \in Tasks /\ InHand = {task} /\ moved_from = {}
        /\ task_queue' = Append(task_queue, task)
    BY <1>12 DEF Drain, Conserved, Windowed, TopStaysOnTop, Typed, TypeOK,
                 InHand
  <2>2. task \notin Queued
    BY <1>t, <2>1 DEF Conservation
  <2>3. Queued' = Queued \union {task} /\ IsInjective(task_queue')
    BY <1>t, <2>1, <2>2, RangeAppend, InjectiveAppend DEF Queued
  <2>4. UNCHANGED <<Posted, Returned, ran, cleared, destroyed>>
    BY <1>12 DEF Drain, Posted, Returned
  <2>5. CASE task' = NoTask /\ UNCHANGED <<heap, taken>>
    <3>1. InHand' = {} /\ Waiting' = Waiting
      BY <2>5 DEF InHand, Waiting
    <3> QED BY <1>t, <2>1, <2>3, <2>4, <3>1 DEF Conservation
  <2>6. ASSUME NEW e \in DueEntries(now), RemoveEntry(e), task' = TaskOf(e)
        PROVE  Conservation'
    <3>1. e \in delayed_task_queue /\ e \in Tasks
      BY DEF DueEntries, TopEntries, Conserved, Windowed, Typed, TypeOK
    <3>2. InHand' = {e} /\ e \in Waiting /\ Waiting' = Waiting \ {e}
      BY <2>1, <2>6, <3>1 DEF RemoveEntry, InHand, Waiting, TaskOf, NoTask,
                              Tasks
    <3> QED BY <1>t, <2>1, <2>3, <2>4, <3>2 DEF Conservation
  <2> QED BY <1>12, <2>5, <2>6 DEF Drain
<1>13. CASE PopFront
  <2>1. CASE UNCHANGED <<task_queue, ran>>
    BY <1>13, <1>t, <2>1, SamePlaces DEF PopFront
  <2>2. CASE /\ task_queue # <<>>
             /\ ran' = Append(ran, Head(task_queue))
             /\ task_queue' = Tail(task_queue)
    <3>1. /\ Head(task_queue) \in Queued
          /\ Queued' = Queued \ {Head(task_queue)}
          /\ IsInjective(task_queue')
      BY <1>t, <2>2, RangeTail DEF Queued
    <3>2. Head(task_queue) \in Tasks
      BY <1>t, <2>2
    <3>3. Head(task_queue) \notin Returned
      BY <1>t, <3>1 DEF Conservation
    <3>4. /\ Returned' = Returned \union {Head(task_queue)}
          /\ IsInjective(ran')
      BY <1>t, <2>2, <3>2, <3>3, RangeAppend, InjectiveAppend DEF Returned
    <3>5. UNCHANGED <<Posted, Waiting, InHand, cleared, destroyed>>
      BY <1>13 DEF PopFront, Posted, Waiting, InHand
    <3> QED BY <1>t, <3>1, <3>4, <3>5 DEF Conservation
  <2> QED BY <1>13, <2>1, <2>2, Zenon DEF PopFront
<1>14. CASE PopIdleTask
  BY <1>14, <1>t, SamePlaces DEF PopIdleTask
<1>15. CASE HeapRace
  BY <1>15, <1>t, SamePlaces DEF HeapRace
<1>16. CASE Tick
  BY <1>16, <1>t, SamePlaces DEF Tick
<1>17. CASE Halted
  BY <1>17, <1>t, SamePlaces DEF Halted, vars
<1> QED
  BY <1>1, <1>2, <1>3, <1>4, <1>5, <1>6, <1>7, <1>8, <1>9, <1>10, <1>11,
     <1>12, <1>13, <1>14, <1>15, <1>16, <1>17
     DEF Next, WorkerStep, ClientStep, ClearStep

\* No task is lost, duplicated or returned twice, in any interleaving of the
\* posts, the Clears and the steps of GetNext.
THEOREM TasksConserved == Spec => []Conservation
<1>1. Spec => []Conserved
  BY ConservedInit, ConservedNext, PTL DEF Spec
<1> QED BY <1>1, PTL DEF Conserved

-----------------------------------------------------------------------------
(* The order in which tasks are returned. *)

\* Task y may be behind task x in the queue.
MayFollow(x, y) ==
  /\ (x \notin delayed /\ y \notin delayed) => x < y
  /\ (x \in delayed /\ y \in delayed /\ y <= taken[x])
       => deadline[x] <= deadline[y]

\* What the tasks that are still to be queued owe to those that are: the heap
\* keeps the later deadlines, and the task in hand comes after all before it.
HeapBehind ==
  \A y \in (Queued \union Returned \union InHand) \intersect delayed :
    \A x \in Waiting \union (InHand \ {y}) :
      (x <= taken[y] /\ (x \in Waiting \/ y \notin InHand))
        => deadline[y] <= deadline[x]

\* Only delayed tasks go through the heap, and no task left it before it was
\* posted.
HeapHistory ==
  /\ delayed_task_queue \union InHand \subseteq delayed
  /\ delayed \subseteq Posted
  /\ \A t \in Tasks : taken[t] <= posts

\* Every destroyed task is paid for by an entry that a Clear took away, one
\* entry each; the one that GetNext is about to pop is not spent yet.
Unspent == IF pc = "pop" /\ entry \in interrupted THEN 1 ELSE 0
ClearsPay ==
  /\ interrupted \subseteq Posted \ Waiting
  /\ Cardinality(destroyed) + Unspent <= Cardinality(interrupted)

QueueOrder ==
  \A i, j \in DOMAIN Order : i < j => MayFollow(Order[i], Order[j])

Ordered ==
  /\ Conserved /\ HeapHistory /\ HeapBehind /\ ClearsPay /\ QueueOrder
  /\ NotBeforeDeadline

LEMMA OrderedInit == Init => Ordered
<1> SUFFICES ASSUME Init PROVE Ordered
  OBVIOUS
<1>1. Conserved
  BY ConservedInit
<1>2. /\ task_queue = <<>> /\ ran = <<>> /\ posts = 0 /\ task = NoTask
      /\ delayed_task_queue = {} /\ delayed = {} /\ interrupted = {}
      /\ destroyed = {} /\ pc = "call" /\ taken = [t \in Tasks |-> 0]
  BY DEF Init
<1>3. HeapHistory
  BY <1>2 DEF HeapHistory, InHand
<1>4. HeapBehind /\ NotBeforeDeadline
  BY <1>2 DEF HeapBehind, NotBeforeDeadline
<1>5. Cardinality({}) = 0
  BY FS_EmptySet
<1>6. ClearsPay
  BY <1>2, <1>5 DEF ClearsPay, Unspent
<1>7. QueueOrder
  BY <1>2 DEF Order, QueueOrder
<1> QED BY <1>1, <1>3, <1>4, <1>6, <1>7 DEF Ordered

LEMMA FiniteHistory ==
  ASSUME TypeOK
  PROVE  IsFiniteSet(destroyed) /\ IsFiniteSet(interrupted)
<1>1. IsFiniteSet(Tasks)
  BY FS_Interval DEF Tasks
<1> QED BY <1>1, FS_Subset DEF TypeOK

\* The queue behind what was returned, as positions.
LEMMA OrderAppend ==
  ASSUME NEW S, NEW r \in Seq(S), NEW q \in Seq(S), NEW x \in S
  PROVE  /\ r \o q \in Seq(S)
         /\ r \o Append(q, x) = Append(r \o q, x)
         /\ Range(r \o q) = Range(r) \union Range(q)
<1>1. r \o q \in Seq(S) /\ Len(r \o q) = Len(r) + Len(q)
  OBVIOUS
<1>2. r \o Append(q, x) = Append(r \o q, x)
  OBVIOUS
<1>3. \A y \in Range(r \o q) : y \in Range(r) \union Range(q)
  BY DEF Range
<1>4. \A y \in Range(r) : y \in Range(r \o q)
  BY DEF Range
<1>5. \A y \in Range(q) : y \in Range(r \o q)
  <2> SUFFICES ASSUME NEW i \in 1..Len(q) PROVE q[i] \in Range(r \o q)
    BY DEF Range
  <2>1. Len(r) + i \in 1..Len(r \o q) /\ (r \o q)[Len(r) + i] = q[i]
    BY <1>1
  <2> QED BY <2>1, <1>1 DEF Range
<1> QED BY <1>1, <1>2, <1>3, <1>4, <1>5

LEMMA OrderPop ==
  ASSUME NEW S, NEW r \in Seq(S), NEW q \in Seq(S), q # <<>>
  PROVE  Append(r, Head(q)) \o Tail(q) = r \o q
  OBVIOUS

\* A task is added behind the queue; what was there keeps its order.
LEMMA QueueGrows ==
  ASSUME Ordered, NEW x \in Tasks,
         task_queue' = Append(task_queue, x), UNCHANGED ran,
         \A y, z \in Queued \union Returned :
           MayFollow(y, z) => MayFollow(y, z)',
         \A y \in Queued \union Returned : MayFollow(y, x)'
  PROVE  QueueOrder'
<1>1. task_queue \in Seq(Tasks) /\ ran \in Seq(Tasks)
  BY DEF Ordered, Conserved, Windowed, Typed, TypeOK
<1>2. Order \in Seq(Tasks) /\ Order' = Append(Order, x)
  BY <1>1, OrderAppend DEF Order
<1>3. \A i \in DOMAIN Order : Order[i] \in Queued \union Returned
  <2>1. Range(Order) = Returned \union Queued
    BY <1>1, OrderAppend DEF Order, Returned, Queued
  <2> QED BY <2>1 DEF Range
<1>4. /\ DOMAIN Order' = 1..(Len(Order) + 1) /\ DOMAIN Order = 1..Len(Order)
      /\ Len(Order) \in Nat
      /\ \A i \in 1..Len(Order) : Order'[i] = Order[i]
      /\ Order'[Len(Order) + 1] = x
  BY <1>2
<1> SUFFICES ASSUME NEW i \in DOMAIN Order', NEW j \in DOMAIN Order', i < j
             PROVE  MayFollow(Order[i], Order[j])'
  BY Zenon DEF QueueOrder
<1>5. i \in DOMAIN Order /\ Order'[i] = Order[i]
  BY <1>4
<1>6. CASE j = Len(Order) + 1
  <2>1. Order'[j] = x
    BY <1>4, <1>6
  <2>2. MayFollow(Order[i], x)'
    BY <1>3, <1>5, Zenon
  <2> QED BY <2>1, <2>2, Zenon
<1>7. CASE j # Len(Order) + 1
  <2>1. j \in DOMAIN Order /\ Order'[j] = Order[j]
    BY <1>4, <1>7
  <2>2. MayFollow(Order[i], Order[j])
    BY <1>5, <2>1 DEF Ordered, QueueOrder
  <2>3. Order[i] \in Queued \union Returned /\ Order[j] \in Queued \union Returned
    BY <1>3, <1>5, <2>1
  <2> QED BY <1>5, <2>1, <2>2, <2>3
<1> QED BY <1>6, <1>7

\* A step that moves no task keeps the order.
LEMMA SameOrder ==
  ASSUME Ordered, clock <= clock', clock' \in Nat, Unspent' = Unspent,
         UNCHANGED <<posts, taken, delayed, ran, task_queue,
                     delayed_task_queue, moved_from, deadline, task,
                     destroyed, interrupted>>
  PROVE  HeapHistory' /\ HeapBehind' /\ ClearsPay' /\ QueueOrder'
         /\ NotBeforeDeadline'
<1>1. UNCHANGED <<Posted, Queued, Waiting, InHand, Returned, Order>>
  BY DEF Posted, Queued, Waiting, InHand, Returned, Order
<1>2. HeapHistory'
  BY <1>1 DEF Ordered, HeapHistory
<1>3. HeapBehind'
  BY <1>1 DEF Ordered, HeapBehind
<1>4. ClearsPay'
  BY <1>1 DEF Ordered, ClearsPay
<1>5. QueueOrder'
  BY <1>1 DEF Ordered, QueueOrder, MayFollow
<1>6. NotBeforeDeadline'
  BY <1>1 DEF Ordered, NotBeforeDeadline, Conserved, Windowed, Typed, TypeOK
<1> QED BY <1>2, <1>3, <1>4, <1>5, <1>6

\* A step that takes tasks away, or returns the front one, keeps the order of
\* the others.
LEMMA FewerTasks ==
  ASSUME Ordered,
         UNCHANGED <<clock, posts, taken, delayed, deadline, task>>,
         Waiting' \subseteq Waiting,
         Queued' \union Returned' \subseteq Queued \union Returned
  PROVE  HeapBehind' /\ NotBeforeDeadline'
<1>1. UNCHANGED InHand
  BY DEF InHand
<1>2. HeapBehind'
  BY <1>1 DEF Ordered, HeapBehind
<1> QED BY <1>1, <1>2 DEF Ordered, NotBeforeDeadline

LEMMA OrderedPost ==
  ASSUME Ordered, NEW t \in Tasks, PostTask(t)
  PROVE  HeapHistory' /\ HeapBehind' /\ ClearsPay' /\ QueueOrder'
         /\ NotBeforeDeadline'
<1>1. /\ NewTask(t) /\ task_queue' = Append(task_queue, t)
      /\ UNCHANGED <<clock, heap, getNext, taken, delayed, ran, destroyed,
                     interrupted>>
  BY DEF PostTask
<1>2. /\ t \notin Queued /\ t \notin Waiting /\ t \notin InHand
      /\ t \notin Returned /\ Posted' = Posted \union {t}
      /\ t = posts + 1 /\ posts' = posts + 1 /\ posts \in Nat
  <2>1. Conserved /\ posts \in Nat
    BY DEF Ordered, Conserved, Windowed, Typed, TypeOK
  <2> QED BY <1>1, <2>1, NewTaskFresh DEF NewTask
<1>3. t \notin delayed /\ Queued \union Returned \subseteq Posted
  BY <1>2 DEF Ordered, HeapHistory, Conserved, Conservation, Posted
<1>4. /\ Queued' = Queued \union {t}
      /\ UNCHANGED <<Waiting, InHand, Returned, Unspent>>
  <2>1. task_queue \in Seq(Tasks)
    BY DEF Ordered, Conserved, Windowed, Typed, TypeOK
  <2> QED BY <1>1, <2>1, RangeAppend
             DEF Queued, Waiting, InHand, Returned, Unspent, heap, getNext
<1>5. HeapHistory'
  <2>1. \A y \in Tasks : taken[y] \in Nat /\ taken[y] <= posts
    BY DEF Ordered, HeapHistory, Conserved, Windowed, Typed, TypeOK
  <2>2. \A y \in Tasks : taken'[y] <= posts'
    BY <1>1, <1>2, <2>1
  <2> QED BY <1>1, <1>2, <1>4, <2>2 DEF Ordered, HeapHistory, heap
<1>6. HeapBehind'
  BY <1>1, <1>3, <1>4 DEF Ordered, HeapBehind, heap
<1>7. ClearsPay'
  BY <1>1, <1>2, <1>4 DEF Ordered, ClearsPay
<1>8. QueueOrder'
  <2>1. \A y \in Queued \union Returned : y < t
    BY <1>2, <1>3 DEF Posted
  <2>2. \A y \in Queued \union Returned : MayFollow(y, t)'
    BY <1>1, <1>3, <2>1 DEF MayFollow
  <2>3. \A y, z \in Queued \union Returned :
          MayFollow(y, z) => MayFollow(y, z)'
    BY <1>1 DEF MayFollow, heap
  <2> QED BY <1>1, <2>2, <2>3, QueueGrows
<1>9. NotBeforeDeadline'
  BY <1>1, <1>3, <1>4 DEF Ordered, NotBeforeDeadline, heap
<1> QED BY <1>5, <1>6, <1>7, <1>8, <1>9

LEMMA OrderedPostDelayed ==
  ASSUME Ordered, NEW t \in Tasks, NEW d \in Delays, PostDelayedTask(t, d)
  PROVE  HeapHistory' /\ HeapBehind' /\ ClearsPay' /\ QueueOrder'
         /\ NotBeforeDeadline'
<1>1. /\ NewTask(t) /\ delayed' = delayed \union {t}
      /\ delayed_task_queue' = delayed_task_queue \union {t}
      /\ deadline' = [deadline EXCEPT ![t] = clock + d]
      /\ UNCHANGED <<clock, moved_from, task_queue, getNext, taken, ran,
                     destroyed, interrupted>>
  BY DEF PostDelayedTask
<1>2. /\ t \notin Queued /\ t \notin Waiting /\ t \notin InHand
      /\ t \notin Returned /\ Posted' = Posted \union {t}
      /\ t \notin delayed_task_queue
      /\ t = posts + 1 /\ posts' = posts + 1 /\ posts \in Nat
  <2>1. Conserved /\ posts \in Nat
    BY DEF Ordered, Conserved, Windowed, Typed, TypeOK
  <2> QED BY <1>1, <2>1, NewTaskFresh DEF NewTask
<1>3. t \notin Posted /\ t \notin interrupted
  BY <1>2 DEF Ordered, ClearsPay, Posted
<1>4. /\ Waiting' = Waiting \union {t}
      /\ UNCHANGED <<Queued, InHand, Returned, Unspent, Order>>
  BY <1>1, <1>2 DEF Queued, Waiting, InHand, Returned, Unspent, getNext,
                    Order, Ordered, Conserved, Windowed, Typed, TypeOK
<1>5. /\ deadline \in [Tasks -> 0..MaxTime] /\ taken \in [Tasks -> 0..MaxPosts]
      /\ \A y \in Tasks : taken[y] <= posts
      /\ delayed_task_queue \subseteq Tasks /\ Waiting \subseteq Tasks
      /\ InHand \subseteq Tasks /\ Queued \subseteq Tasks /\ Returned \subseteq Tasks
  BY DEF Ordered, HeapHistory, Conserved, Windowed, Typed, TypeOK, Waiting,
         InHand, Queued, Returned, Range
<1>6. \A y \in Tasks : y # t => deadline'[y] = deadline[y]
  BY <1>1, <1>5
<1>7. HeapHistory'
  BY <1>1, <1>2, <1>4, <1>5 DEF Ordered, HeapHistory
<1>8. HeapBehind'
  <2> SUFFICES ASSUME NEW y \in (Queued \union Returned \union InHand)
                                  \intersect delayed',
                      NEW x \in Waiting' \union (InHand \ {y}),
                      x <= taken[y], x \in Waiting' \/ y \notin InHand
               PROVE  deadline'[y] <= deadline'[x]
    BY <1>1, <1>4 DEF HeapBehind
  <2>1. y # t /\ y \in delayed /\ y \in Tasks
    BY <1>1, <1>2, <1>5
  <2>2. x # t
    BY <1>2, <1>5, <2>1
  <2>3. deadline[y] <= deadline[x]
    BY <1>4, <2>1, <2>2 DEF Ordered, HeapBehind
  <2>4. x \in Tasks
    BY <1>4, <1>5
  <2> QED BY <1>6, <2>1, <2>2, <2>3, <2>4
<1>9. ClearsPay'
  BY <1>1, <1>2, <1>3, <1>4 DEF Ordered, ClearsPay
<1>10. QueueOrder'
  <2>1. \A i \in DOMAIN Order : Order[i] \in (Queued \union Returned)
    <3>1. task_queue \in Seq(Tasks) /\ ran \in Seq(Tasks)
      BY DEF Ordered, Conserved, Windowed, Typed, TypeOK
    <3>2. Range(Order) = Returned \union Queued
      BY <3>1, OrderAppend DEF Order, Returned, Queued
    <3> QED BY <3>2 DEF Range
  <2>2. \A x, y \in Queued \union Returned : MayFollow(x, y) => MayFollow(x, y)'
    BY <1>1, <1>2, <1>5, <1>6 DEF MayFollow
  <2> SUFFICES ASSUME NEW i \in DOMAIN Order, NEW j \in DOMAIN Order, i < j
               PROVE  MayFollow(Order[i], Order[j])'
    BY <1>4 DEF QueueOrder
  <2>3. MayFollow(Order[i], Order[j])
    BY DEF Ordered, QueueOrder
  <2> QED BY <1>4, <2>1, <2>2, <2>3
<1>11. NotBeforeDeadline'
  BY <1>1, <1>2, <1>4, <1>5, <1>6 DEF Ordered, NotBeforeDeadline
<1> QED BY <1>7, <1>8, <1>9, <1>10, <1>11

\* What the steps below need of Ordered.
LEMMA OrderedTypes ==
  ASSUME Ordered
  PROVE  /\ TypeOK /\ Conserved /\ Conservation /\ TopStaysOnTop
         /\ task_queue \in Seq(Tasks) /\ ran \in Seq(Tasks)
         /\ IsInjective(task_queue)
         /\ Waiting \subseteq Tasks /\ InHand \subseteq Tasks
         /\ Queued \subseteq Tasks /\ Returned \subseteq Tasks
         /\ moved_from \subseteq delayed_task_queue
         /\ (pc \in {"lock", "drain"} => task \in Tasks)
         /\ (pc = "top" => task = NoTask)
<1>1. TypeOK /\ Conserved /\ Conservation /\ TopStaysOnTop /\ Typed
  BY DEF Ordered, Conserved, Windowed, Typed
<1>2. task_queue \in Seq(Tasks) /\ ran \in Seq(Tasks)
  BY <1>1 DEF TypeOK
<1>3. Queued \subseteq Tasks /\ Returned \subseteq Tasks
  BY <1>2 DEF Queued, Returned, Range
<1>4. /\ Waiting \subseteq Tasks /\ InHand \subseteq Tasks
      /\ moved_from \subseteq delayed_task_queue
  BY <1>1 DEF TypeOK, Waiting, InHand
<1>5. /\ (pc \in {"lock", "drain"} => task \in Tasks)
      /\ (pc = "top" => task = NoTask)
  BY <1>1 DEF Typed, TypeOK
<1>6. IsInjective(task_queue)
  BY <1>1 DEF Conservation
<1> QED BY <1>1, <1>2, <1>3, <1>4, <1>5, <1>6

\* An entry that was interrupted is not in the heap any more, and one that is
\* interrupted now pays for one task more.
LEMMA Interrupts ==
  ASSUME Ordered, interrupted' = interrupted \union InWindow,
         Waiting' \subseteq Waiting,
         UNCHANGED <<pc, entry, posts, destroyed>>
  PROVE  ClearsPay'
<1>1. CASE pc = "pop"
  <2>1. entry \in Posted /\ task = entry /\ entry \in Tasks
    BY <1>1, OrderedTypes DEF TopStaysOnTop, Ordered, Conserved, Windowed,
                              Typed
  <2>2. entry \notin Waiting
    BY <2>1, OrderedTypes DEF Conservation, InHand, Tasks, NoTask
  <2>3. interrupted' = interrupted \union {entry} /\ Unspent' = 1
    BY <1>1 DEF InWindow, Unspent
  <2>4. /\ IsFiniteSet(destroyed) /\ IsFiniteSet(interrupted)
        /\ Cardinality(destroyed) \in Nat /\ Cardinality(interrupted) \in Nat
    BY OrderedTypes, FiniteHistory, FS_CardinalityType
  <2>5. Cardinality(interrupted \union {entry})
          = IF entry \in interrupted THEN Cardinality(interrupted)
                                     ELSE Cardinality(interrupted) + 1
    BY <2>4, FS_AddElement
  <2>6. Cardinality(destroyed) + 1 <= Cardinality(interrupted')
    BY <1>1, <2>3, <2>4, <2>5 DEF Ordered, ClearsPay, Unspent
  <2> QED BY <2>1, <2>2, <2>3, <2>6 DEF Ordered, ClearsPay, Posted
<1>2. CASE pc # "pop"
  <2>1. interrupted' = interrupted /\ Unspent' = Unspent
    BY <1>2 DEF InWindow, Unspent
  <2> QED BY <2>1 DEF Ordered, ClearsPay, Posted
<1> QED BY <1>1, <1>2

LEMMA OrderedClearTaskQueue ==
  ASSUME Ordered, NEW c \in Clients, ClearTaskQueue(c)
  PROVE  HeapHistory' /\ HeapBehind' /\ ClearsPay' /\ QueueOrder'
         /\ NotBeforeDeadline'
<1>1. /\ task_queue' = <<>>
      /\ UNCHANGED <<clock, heap, getNext, posts, taken, delayed, ran,
                     destroyed, interrupted>>
  BY DEF ClearTaskQueue
<1>2. Queued' = {} /\ UNCHANGED <<Waiting, InHand, Returned, Unspent, Posted>>
  BY <1>1 DEF Queued, Range, Waiting, InHand, Returned, Unspent, Posted, heap,
              getNext
<1>3. HeapBehind' /\ NotBeforeDeadline'
  BY <1>1, <1>2, FewerTasks DEF heap, getNext
<1>4. HeapHistory' /\ ClearsPay'
  BY <1>1, <1>2 DEF Ordered, HeapHistory, ClearsPay, heap
<1>5. QueueOrder'
  <2>1. /\ Order' = ran /\ DOMAIN ran \subseteq DOMAIN Order
        /\ \A i \in DOMAIN ran : Order[i] = ran[i]
    BY <1>1, OrderedTypes DEF Order
  <2>2. \A x, y : MayFollow(x, y) => MayFollow(x, y)'
    BY <1>1 DEF MayFollow, heap
  <2> SUFFICES ASSUME NEW i \in DOMAIN ran, NEW j \in DOMAIN ran, i < j
               PROVE  MayFollow(Order[i], Order[j])'
    BY <2>1 DEF QueueOrder
  <2>3. MayFollow(Order[i], Order[j])
    BY <2>1 DEF Ordered, QueueOrder
  <2>4. Order'[i] = Order[i] /\ Order'[j] = Order[j]
    BY <2>1
  <2> QED BY <2>2, <2>3, <2>4, Zenon
<1> QED BY <1>3, <1>4, <1>5

LEMMA OrderedClearHeap ==
  ASSUME Ordered, interrupted' = interrupted \union InWindow,
         delayed_task_queue' \subseteq delayed_task_queue,
         Waiting' \subseteq Waiting,
         UNCHANGED <<clock, task_queue, deadline, getNext, posts, taken,
                     delayed, ran, destroyed>>
  PROVE  HeapHistory' /\ HeapBehind' /\ ClearsPay' /\ QueueOrder'
         /\ NotBeforeDeadline'
<1>1. UNCHANGED <<Queued, InHand, Returned, Posted, Order>>
  BY DEF Queued, InHand, Returned, Posted, Order, getNext
<1>2. HeapBehind' /\ NotBeforeDeadline'
  BY <1>1, FewerTasks DEF getNext
<1>3. HeapHistory'
  BY <1>1 DEF Ordered, HeapHistory
<1>4. ClearsPay'
  BY Interrupts DEF getNext
<1>5. QueueOrder'
  BY <1>1 DEF Ordered, QueueOrder, MayFollow
<1> QED BY <1>2, <1>3, <1>4, <1>5

\* Taking the entry on top: the tasks that stay in the heap have later
\* deadlines, and those before it were taken earlier.
LEMMA TakeTop ==
  ASSUME Ordered, NEW e \in DueEntries(now), moved_from = {}, InHand' = {e},
         Waiting' = Waiting \ {e},
         Queued' \union Returned' = Queued \union Returned \union InHand,
         delayed_task_queue' \subseteq delayed_task_queue,
         taken' = [taken EXCEPT ![e] = posts],
         UNCHANGED <<clock, posts, deadline, delayed>>
  PROVE  HeapHistory' /\ HeapBehind' /\ NotBeforeDeadline'
<1>1. /\ e \in delayed_task_queue /\ deadline[e] <= now
      /\ \A f \in delayed_task_queue : deadline[e] <= deadline[f]
  BY DEF DueEntries, TopEntries
<1>2. e \in Waiting /\ Waiting = delayed_task_queue
  BY <1>1 DEF Waiting
<1>3. /\ e \in Tasks /\ e \notin Queued \union Returned \union InHand
      /\ Waiting \intersect (Queued \union Returned \union InHand) = {}
      /\ e \in delayed
  BY <1>1, <1>2, OrderedTypes DEF Conservation, Ordered, HeapHistory
<1>4. /\ deadline \in [Tasks -> 0..MaxTime] /\ taken \in [Tasks -> 0..MaxPosts]
      /\ clock \in Nat /\ now \in Nat /\ now <= clock /\ posts \in Nat
  BY OrderedTypes DEF TypeOK, TopStaysOnTop
<1>5. \A y \in Tasks : y # e => taken'[y] = taken[y]
  BY <1>4
<1>6. HeapHistory'
  <2>1. \A y \in Tasks : taken'[y] <= posts
    BY <1>3, <1>4 DEF Ordered, HeapHistory
  <2> QED BY <1>3, <2>1 DEF Ordered, HeapHistory, Posted
<1>7. HeapBehind'
  <2> SUFFICES ASSUME NEW y \in (Queued' \union Returned' \union {e})
                                  \intersect delayed,
                      NEW x \in Waiting' \union ({e} \ {y}),
                      x <= taken'[y], x \in Waiting' \/ y \notin {e}
               PROVE  deadline[y] <= deadline[x]
    BY DEF HeapBehind
  <2>1. x \in Waiting /\ x \in delayed_task_queue
    BY <1>2
  <2>2. CASE y = e
    BY <1>1, <2>1, <2>2
  <2>3. CASE y # e
    <3>1. y \in Queued \union Returned \union InHand /\ y \in Tasks
      BY <2>3, OrderedTypes
    <3>2. x <= taken[y]
      BY <1>5, <2>3, <3>1
    <3> QED BY <2>1, <3>1, <3>2 DEF Ordered, HeapBehind
  <2> QED BY <2>2, <2>3
<1>8. NotBeforeDeadline'
  <2>1. deadline[e] <= clock
    BY <1>1, <1>3, <1>4
  <2> QED BY <2>1 DEF Ordered, NotBeforeDeadline
<1> QED BY <1>6, <1>7, <1>8

LEMMA OrderedUnlockedTop ==
  ASSUME Ordered, UnlockedTop
  PROVE  HeapHistory' /\ HeapBehind' /\ ClearsPay' /\ QueueOrder'
         /\ NotBeforeDeadline'
<1>1. /\ pc = "top"
      /\ UNCHANGED <<clock, task_queue, delayed_task_queue, deadline, posts,
                     delayed, ran, destroyed, interrupted>>
  BY DEF UnlockedTop
<1>2. CASE pc' = "front" /\ UNCHANGED <<task, moved_from, taken>>
  <2>1. Unspent' = Unspent /\ clock \in Nat
    BY <1>1, <1>2, OrderedTypes DEF Unspent, TypeOK
  <2> QED BY <1>1, <1>2, <2>1, SameOrder
<1>3. ASSUME NEW e \in DueEntries(now), entry' = e, task' = TaskOf(e),
             moved_from' = moved_from \union {e},
             taken' = [taken EXCEPT ![e] = IF e \in moved_from THEN @
                                                             ELSE posts]
      PROVE  HeapHistory' /\ HeapBehind' /\ ClearsPay' /\ QueueOrder'
             /\ NotBeforeDeadline'
  <2>1. moved_from = {} /\ task = NoTask /\ InHand = {}
    BY <1>1, OrderedTypes DEF TopStaysOnTop, InHand
  <2>2. e \in delayed_task_queue /\ e \in Tasks /\ e \in Waiting
    BY <2>1, OrderedTypes DEF DueEntries, TopEntries, TypeOK, Waiting
  <2>3. /\ task' = e /\ InHand' = {e} /\ Waiting' = Waiting \ {e}
        /\ taken' = [taken EXCEPT ![e] = posts]
        /\ UNCHANGED <<Queued, Returned, Order, Posted>>
    BY <1>1, <1>3, <2>1, <2>2 DEF TaskOf, InHand, Waiting, Queued, Returned,
                                  Order, Posted, Tasks, NoTask
  <2>4. HeapHistory' /\ HeapBehind' /\ NotBeforeDeadline'
    BY <1>1, <1>3, <2>1, <2>3, TakeTop
  <2>5. e \notin interrupted
    BY <2>2 DEF Ordered, ClearsPay
  <2>6. ClearsPay'
    BY <1>1, <1>3, <2>3, <2>5 DEF Ordered, ClearsPay, Unspent
  <2>7. QueueOrder'
    <3>1. Range(Order) = Returned \union Queued /\ e \notin Returned \union Queued
      BY <2>2, OrderedTypes, OrderAppend
         DEF Order, Returned, Queued, Conservation
    <3>2. taken \in [Tasks -> 0..MaxPosts]
      BY OrderedTypes DEF TypeOK
    <3>3. \A x \in Range(Order) : x \in Tasks /\ taken'[x] = taken[x]
      BY <2>3, <3>1, <3>2, OrderedTypes
    <3>4. \A x \in Range(Order) : \A y : MayFollow(x, y) => MayFollow(x, y)'
      BY <1>1, <3>3 DEF MayFollow
    <3> SUFFICES ASSUME NEW i \in DOMAIN Order, NEW j \in DOMAIN Order, i < j
                 PROVE  MayFollow(Order[i], Order[j])'
      BY <2>3 DEF QueueOrder
    <3>5. MayFollow(Order[i], Order[j]) /\ Order[i] \in Range(Order)
      BY DEF Ordered, QueueOrder, Range
    <3> QED BY <2>3, <3>4, <3>5
  <2> QED BY <2>4, <2>6, <2>7
<1> QED BY <1>2, <1>3 DEF UnlockedTop, AfterNull

LEMMA OrderedUnlockedPop ==
  ASSUME Ordered, UnlockedPop
  PROVE  HeapHistory' /\ HeapBehind' /\ ClearsPay' /\ QueueOrder'
         /\ NotBeforeDeadline'
<1>1. /\ pc = "pop"
      /\ UNCHANGED <<clock, task_queue, task, posts, taken, delayed, ran,
                     interrupted>>
  BY DEF UnlockedPop
<1>2. CASE UNCHANGED <<heap, pc, entry, destroyed>>
  <2>1. Unspent' = Unspent /\ clock \in Nat
    BY <1>1, <1>2, OrderedTypes DEF Unspent, TypeOK
  <2> QED BY <1>1, <1>2, <2>1, SameOrder DEF heap
<1>3. ASSUME NEW e \in PoppedEntries, RemoveEntry(e),
             destroyed' = destroyed \union Owned(e), pc' # "pop"
      PROVE  HeapHistory' /\ HeapBehind' /\ ClearsPay' /\ QueueOrder'
             /\ NotBeforeDeadline'
  <2>1. /\ Waiting' \subseteq Waiting /\ UNCHANGED deadline
        /\ delayed_task_queue' \subseteq delayed_task_queue
        /\ UNCHANGED <<Queued, InHand, Returned, Posted, Order>>
    BY <1>1, <1>3 DEF RemoveEntry, Waiting, Queued, InHand, Returned, Posted,
                      Order
  <2>2. HeapBehind' /\ NotBeforeDeadline'
    BY <1>1, <2>1, FewerTasks
  <2>3. HeapHistory' /\ QueueOrder'
    BY <1>1, <2>1 DEF Ordered, HeapHistory, QueueOrder, MayFollow
  <2>4. /\ IsFiniteSet(destroyed) /\ Cardinality(destroyed) \in Nat
        /\ Cardinality(interrupted) \in Nat
    BY OrderedTypes, FiniteHistory, FS_CardinalityType
  <2>5. Unspent' = 0
    BY <1>3 DEF Unspent
  <2>6. CASE entry \in TopEntries /\ moved_from = {entry}
    <3>1. e = entry /\ Owned(e) = {}
      BY <1>3, <2>6 DEF PoppedEntries, Owned
    <3>2. destroyed' = destroyed
      BY <1>3, <3>1
    <3>3. ClearsPay'
      BY <1>1, <2>1, <2>4, <2>5, <3>2 DEF Ordered, ClearsPay, Unspent
    <3> QED BY <2>2, <2>3, <3>3
  <2>7. CASE entry \in interrupted
    <3>1. Owned(e) \subseteq {e} /\ Unspent = 1
      BY <1>1, <2>7 DEF Owned, Unspent
    <3>2. Cardinality(destroyed \union {e}) <= Cardinality(destroyed) + 1
      BY <2>4, FS_AddElement
    <3>3. destroyed' = destroyed \/ destroyed' = destroyed \union {e}
      BY <1>3, <3>1
    <3>4. Cardinality(destroyed') <= Cardinality(destroyed) + 1
      BY <2>4, <3>2, <3>3
    <3>5. /\ Cardinality(destroyed') \in Nat
      <4>1. IsFiniteSet(destroyed \union {e})
        BY <2>4, FS_AddElement
      <4> QED BY <2>4, <3>3, <4>1, FS_CardinalityType
    <3>6. ClearsPay'
      BY <1>1, <2>1, <2>4, <2>5, <3>1, <3>4, <3>5 DEF Ordered, ClearsPay
    <3> QED BY <2>2, <2>3, <3>6
  <2> QED BY <1>1, <2>6, <2>7, OrderedTypes DEF TopStaysOnTop
<1> QED BY <1>2, <1>3 DEF UnlockedPop, AfterNull

LEMMA OrderedDrain ==
  ASSUME Ordered, Drain
  PROVE  HeapHistory' /\ HeapBehind' /\ ClearsPay' /\ QueueOrder'
         /\ NotBeforeDeadline'
<1>1. /\ pc \in {"lock", "drain"} /\ pc' # "pop"
      /\ task_queue' = Append(task_queue, task)
      /\ UNCHANGED <<clock, posts, delayed, ran, destroyed, interrupted>>
  BY DEF Drain, AfterNull
<1>2. /\ task \in Tasks /\ InHand = {task} /\ moved_from = {}
      /\ Unspent = 0 /\ Unspent' = 0
  BY <1>1, OrderedTypes DEF TopStaysOnTop, InHand, Tasks, NoTask, Unspent
<1>3. /\ Queued' = Queued \union {task} /\ Returned' = Returned
      /\ Posted' = Posted
  BY <1>1, <1>2, OrderedTypes, RangeAppend DEF Queued, Returned, Posted
<1>4. /\ task \notin Queued \union Returned /\ task \in delayed
      /\ Queued \union Returned \subseteq Tasks
  BY <1>2, OrderedTypes DEF Conservation, Ordered, HeapHistory
<1>5. /\ \A y \in Queued \union Returned : MayFollow(y, task)
      /\ taken \in [Tasks -> 0..MaxPosts]
  BY <1>2, <1>4, OrderedTypes DEF Ordered, HeapBehind, MayFollow, TypeOK
<1>6. CASE task' = NoTask /\ UNCHANGED <<heap, taken>>
  <2>1. InHand' = {} /\ Waiting' = Waiting
    BY <1>6 DEF InHand, Waiting, heap
  <2>2. HeapHistory' /\ ClearsPay'
    BY <1>1, <1>2, <1>3, <1>6, <2>1
       DEF Ordered, HeapHistory, ClearsPay, heap
  <2>3. HeapBehind'
    BY <1>1, <1>2, <1>3, <1>6, <2>1 DEF Ordered, HeapBehind, heap
  <2>4. NotBeforeDeadline'
    BY <1>1, <1>2, <1>3, <1>6, <2>1 DEF Ordered, NotBeforeDeadline, heap
  <2>5. \A x, y : MayFollow(x, y) => MayFollow(x, y)'
    BY <1>1, <1>6 DEF MayFollow, heap
  <2>6. PICK t \in Tasks : t = task
    BY <1>2
  <2>7. \A y \in Queued \union Returned : MayFollow(y, t)'
    BY <1>1, <1>5, <1>6, <2>6 DEF MayFollow, heap
  <2>8. QueueOrder'
    BY <1>1, <2>5, <2>6, <2>7, QueueGrows
  <2> QED BY <2>2, <2>3, <2>4, <2>8
<1>7. ASSUME NEW e \in DueEntries(now), RemoveEntry(e), task' = TaskOf(e),
             taken' = [taken EXCEPT ![e] = IF e \in moved_from THEN @
                                                             ELSE posts]
      PROVE  HeapHistory' /\ HeapBehind' /\ ClearsPay' /\ QueueOrder'
             /\ NotBeforeDeadline'
  <2>1. e \in delayed_task_queue /\ e \in Tasks /\ e \in Waiting
    BY <1>2, OrderedTypes DEF DueEntries, TopEntries, TypeOK, Waiting
  <2>2. /\ task' = e /\ InHand' = {e} /\ Waiting' = Waiting \ {e}
        /\ taken' = [taken EXCEPT ![e] = posts] /\ UNCHANGED deadline
        /\ delayed_task_queue' \subseteq delayed_task_queue
    BY <1>2, <1>7, <2>1 DEF TaskOf, InHand, Waiting, RemoveEntry, Tasks,
                            NoTask
  <2>3. Queued' \union Returned' = Queued \union Returned \union InHand
    BY <1>2, <1>3
  <2>4. HeapHistory' /\ HeapBehind' /\ NotBeforeDeadline'
    BY <1>1, <1>2, <2>2, <2>3, TakeTop
  <2>5. ClearsPay'
    BY <1>1, <1>2, <1>3, <2>2 DEF Ordered, ClearsPay
  <2>6. e \notin Queued \union Returned
    BY <2>1, OrderedTypes DEF Conservation
  <2>7. \A x \in Queued \union Returned : taken'[x] = taken[x]
    BY <1>4, <1>5, <2>2, <2>6
  <2>8. PICK t \in Tasks : t = task
    BY <1>2
  <2>9. \A y, z \in Queued \union Returned :
          MayFollow(y, z) => MayFollow(y, z)'
    BY <1>1, <2>2, <2>7 DEF MayFollow
  <2>10. \A y \in Queued \union Returned : MayFollow(y, t)'
    BY <1>1, <1>5, <2>2, <2>7, <2>8 DEF MayFollow
  <2>11. QueueOrder'
    BY <1>1, <2>8, <2>9, <2>10, QueueGrows
  <2> QED BY <2>4, <2>5, <2>11
<1> QED BY <1>6, <1>7 DEF Drain

LEMMA OrderedPopFront ==
  ASSUME Ordered, PopFront
  PROVE  HeapHistory' /\ HeapBehind' /\ ClearsPay' /\ QueueOrder'
         /\ NotBeforeDeadline'
<1>1. /\ pc = "front" /\ pc' # "pop"
      /\ UNCHANGED <<clock, heap, task, posts, taken, delayed, destroyed,
                     interrupted>>
  BY DEF PopFront
<1>2. Unspent' = Unspent /\ clock \in Nat
  BY <1>1, OrderedTypes DEF Unspent, TypeOK
<1>3. CASE UNCHANGED <<task_queue, ran>>
  BY <1>1, <1>2, <1>3, SameOrder DEF heap
<1>4. CASE /\ task_queue # <<>>
           /\ ran' = Append(ran, Head(task_queue))
           /\ task_queue' = Tail(task_queue)
  <2>1. Order' = Order
    BY <1>4, OrderedTypes, OrderPop DEF Order
  <2>2. Queued' \union Returned' \subseteq Queued \union Returned
    <3>1. /\ Head(task_queue) \in Queued /\ Head(task_queue) \in Tasks
          /\ Queued' \subseteq Queued
      BY <1>4, OrderedTypes, RangeTail DEF Queued
    <3>2. Returned' = Returned \union {Head(task_queue)}
      BY <1>4, <3>1, OrderedTypes, RangeAppend DEF Returned
    <3> QED BY <3>1, <3>2
  <2>3. UNCHANGED <<Waiting, InHand, Posted>>
    BY <1>1 DEF Waiting, InHand, Posted, heap
  <2>4. HeapBehind' /\ NotBeforeDeadline'
    BY <1>1, <2>2, <2>3, FewerTasks DEF heap
  <2>5. HeapHistory' /\ ClearsPay'
    BY <1>1, <1>2, <2>3 DEF Ordered, HeapHistory, ClearsPay, heap
  <2>6. QueueOrder'
    BY <1>1, <2>1 DEF Ordered, QueueOrder, MayFollow, heap
  <2> QED BY <2>4, <2>5, <2>6
<1> QED BY <1>3, <1>4, Zenon DEF PopFront

LEMMA OrderedNext == Ordered /\ [Next]_vars => Ordered'
<1> DEFINE Goal == HeapHistory' /\ HeapBehind' /\ ClearsPay' /\ QueueOrder'
                     /\ NotBeforeDeadline'
<1> SUFFICES ASSUME Ordered, [Next]_vars PROVE Ordered'
  OBVIOUS
<1>c. Conserved'
  BY ConservedNext DEF Ordered
<1> SUFFICES Goal
  BY <1>c DEF Ordered
<1>t. clock \in Nat /\ Unspent \in {0, 1}
  BY OrderedTypes DEF TypeOK, Unspent
<1> USE DEF heap, getNext, history
<1>1. CASE UNCHANGED vars
  BY <1>1, <1>t, SameOrder DEF vars, Unspent
<1>2. ASSUME NEW t \in Tasks, PostTask(t) PROVE Goal
  BY <1>2, OrderedPost
<1>3. ASSUME NEW t \in Tasks, NEW d \in Delays, PostDelayedTask(t, d)
      PROVE  Goal
  BY <1>3, OrderedPostDelayed
<1>4. ASSUME NEW i \in IdleTasks, PostIdleTask(i) PROVE Goal
  BY <1>4, <1>t, SameOrder DEF PostIdleTask, Unspent
<1>5. ASSUME NEW c \in Clients, ClearTaskQueue(c) PROVE Goal
  BY <1>5, OrderedClearTaskQueue
<1>6. ASSUME NEW c \in Clients, ClearDelayedTaskQueue(c) PROVE Goal
  BY <1>6, OrderedClearHeap DEF ClearDelayedTaskQueue, Waiting
<1>7. ASSUME NEW c \in Clients, ClearIdleTaskQueue(c) PROVE Goal
  BY <1>7, <1>t, SameOrder DEF ClearIdleTaskQueue, Unspent
<1>8. ASSUME NEW c \in Clients, ClearSpin(c) PROVE Goal
  <2>1. CASE UNCHANGED <<heap, cleared, interrupted>>
    BY <1>8, <1>t, <2>1, SameOrder DEF ClearSpin, Unspent
  <2>2. ASSUME NEW e \in TopEntries, RemoveEntry(e),
               interrupted' = interrupted \union InWindow
        PROVE  Goal
    <3>1. /\ Waiting' \subseteq Waiting /\ UNCHANGED deadline
          /\ delayed_task_queue' \subseteq delayed_task_queue
      BY <2>2 DEF RemoveEntry, Waiting
    <3> QED BY <1>8, <2>2, <3>1, OrderedClearHeap DEF ClearSpin
  <2> QED BY <1>8, <2>1, <2>2 DEF ClearSpin
<1>9. CASE GetNextBegin
  BY <1>9, <1>t, SameOrder DEF GetNextBegin, Unspent
<1>10. CASE UnlockedTop
  BY <1>10, OrderedUnlockedTop
<1>11. CASE UnlockedPop
  BY <1>11, OrderedUnlockedPop
<1>12. CASE Drain
  BY <1>12, OrderedDrain
<1>13. CASE PopFront
  BY <1>13, OrderedPopFront
<1>14. CASE PopIdleTask
  BY <1>14, <1>t, SameOrder DEF PopIdleTask, Unspent
<1>15. CASE HeapRace
  BY <1>15, <1>t, SameOrder DEF HeapRace, Unspent
<1>16. CASE Tick
  BY <1>16, <1>t, SameOrder DEF Tick, Unspent
<1>17. CASE Halted
  BY <1>17, <1>t, SameOrder DEF Halted, vars, Unspent
<1> HIDE DEF Goal
<1> QED
  BY <1>1, <1>2, <1>3, <1>4, <1>5, <1>6, <1>7, <1>8, <1>9, <1>10, <1>11,
     <1>12, <1>13, <1>14, <1>15, <1>16, <1>17
     DEF Next, WorkerStep, ClientStep, ClearStep

\* Tasks come out of GetNext in the order the code promises: what PostTask
\* queued in its order, what PostDelayedTask queued by deadline and never
\* early; and the unlocked pop destroys no more tasks than Clears interrupted
\* it.
THEOREM OrderKept == Spec => []ReturnedAsPosted
<1>1. Spec => []Ordered
  BY OrderedInit, OrderedNext, PTL DEF Spec
<1>2. Ordered => ReturnedAsPosted
  <2> SUFFICES ASSUME Ordered PROVE ReturnedAsPosted
    OBVIOUS
  <2>1. PostTaskFifo /\ DeadlineOrder
    BY DEF Ordered, QueueOrder, MayFollow, PostTaskFifo, DeadlineOrder
  <2>2. DestroyedOnlyByClear
    <3>1. /\ Cardinality(destroyed) \in Nat /\ Cardinality(interrupted) \in Nat
      BY OrderedTypes, FiniteHistory, FS_CardinalityType
    <3> QED BY <3>1 DEF Ordered, ClearsPay, Unspent, DestroyedOnlyByClear
  <2> QED BY <2>1, <2>2 DEF Ordered, ReturnedAsPosted
<1> QED BY <1>1, <1>2, PTL

=============================================================================
