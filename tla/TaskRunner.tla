----------------------------- MODULE TaskRunner -----------------------------
(***************************************************************************)
(* One TaskRunner: its three queues, the operations clients call on it     *)
(* from any thread, and the GetNext / PopIdleTask steps of the one Worker  *)
(* thread that is bound to it (src/footstone/task_runner.cc).              *)
(*                                                                         *)
(* Granularity.  A section under a std::mutex is one step: nothing that    *)
(* takes the mutex can see the middle of it.  The exception is the loop of *)
(* GetNext under both locks, one step per turn, which other threads must   *)
(* wait for (pc = "drain").  popTaskFromDelayedQueueNoLock is called by    *)
(* GetNext BEFORE it takes any lock, so there its top() and its pop() are  *)
(* two steps and every other thread may come between them.                 *)
(*                                                                         *)
(* A task is named by its number in the order of posting (PostTask and     *)
(* PostDelayedTask together).  std::move leaves a null pointer behind:     *)
(* moved_from is the set of entries of the heap whose task was moved out   *)
(* and which pop() has not removed yet.                                    *)
(***************************************************************************)
EXTENDS Naturals, Sequences, FiniteSets, Functions

CONSTANTS MaxPosts,   \* bound on PostTask and PostDelayedTask together
          IdleTasks,  \* tasks for PostIdleTask
          Clients,    \* threads that may call Clear
          Delays,     \* the delays passed to PostDelayedTask, in ticks
          MaxTime     \* bound on the clock

ASSUME MaxPostsAssumption == MaxPosts \in Nat
ASSUME DelaysAssumption == Delays \subseteq Nat
ASSUME MaxTimeAssumption == MaxTime \in Nat

Tasks == 1..MaxPosts
NoTask == 0  \* the null std::unique_ptr<Task>

VARIABLES
  clock,               \* TimePoint::Now()
  task_queue,          \* std::queue, front first
  delayed_task_queue,  \* the entries of the priority_queue
  deadline,            \* DelayedEntry::first of every delayed task
  moved_from,          \* entries whose DelayedEntry::second is null
  idle_task_queue,
  pc, now, task,       \* GetNext: where it is, its locals now and task
  entry,               \* the reference top() returned, until pop()
  clearing,            \* per client: how far its call of Clear has got
  status,              \* "undefined" after undefined behaviour, else "ok"
  \* History, read by the properties only.
  posts,               \* number of PostTask and PostDelayedTask so far
  taken,               \* posts when a delayed task left the heap
  delayed,             \* tasks posted with PostDelayedTask
  ran,                 \* tasks GetNext returned, in order
  cleared,             \* tasks destroyed by Clear
  destroyed,           \* tasks destroyed by pop() without being moved out
  interrupted          \* entries a Clear removed between top() and pop()

heap == <<delayed_task_queue, deadline, moved_from>>
getNext == <<pc, now, task, entry>>
history == <<posts, taken, delayed, ran, cleared, destroyed, interrupted>>
vars == <<clock, task_queue, heap, idle_task_queue, getNext, clearing, status,
          history>>

Posted == 1..posts

Init ==
  /\ clock = 0
  /\ task_queue = <<>>
  /\ delayed_task_queue = {}
  /\ deadline = [t \in Tasks |-> 0]
  /\ moved_from = {}
  /\ idle_task_queue = <<>>
  /\ pc = "call" /\ now = 0 /\ task = NoTask /\ entry = NoTask
  /\ clearing = [c \in Clients |-> "no"]
  /\ status = "ok"
  /\ posts = 0
  /\ taken = [t \in Tasks |-> 0]
  /\ delayed = {}
  /\ ran = <<>>
  /\ cleared = {}
  /\ destroyed = {}
  /\ interrupted = {}

-----------------------------------------------------------------------------
(* The priority_queue: DelayedEntryCompare puts the least deadline on top; *)
(* among equal deadlines any entry may be there.                           *)

\* The entry the worker is about to pop.
InWindow == IF pc = "pop" THEN {entry} ELSE {}

TopEntries ==
  {e \in delayed_task_queue :
     \A f \in delayed_task_queue : deadline[e] <= deadline[f]}

\* The top entries popTaskFromDelayedQueueNoLock would take: the function
\* returns null at once when the deadline on top is later than now.
DueEntries(t) == {e \in TopEntries : deadline[e] <= t}

\* std::priority_queue::pop().  The entry top() returned is still the one on
\* top unless an entry with an earlier deadline was pushed since.
PoppedEntries == IF entry \in TopEntries THEN {entry} ELSE TopEntries

\* The task entry e still owns is destroyed with it.
Owned(e) == {e} \ moved_from

RemoveEntry(e) ==
  /\ delayed_task_queue' = delayed_task_queue \ {e}
  /\ moved_from' = moved_from \ {e}
  /\ UNCHANGED deadline

\* std::move(second) of entry e.
TaskOf(e) == IF e \in moved_from THEN NoTask ELSE e

-----------------------------------------------------------------------------
(* The clients. *)

\* GetNext holds both locks while it moves due tasks.
QueuesUnlocked == pc # "drain"
IdleUnlocked == \A c \in Clients : clearing[c] # "spin"

NewTask(t) ==
  /\ posts < MaxPosts  \* bound
  /\ t = posts + 1
  /\ posts' = t

PostTaskM(t) ==  \* mutant: the queue used as a stack
  /\ status = "ok" /\ QueuesUnlocked
  /\ NewTask(t)
  /\ task_queue' = <<t>> \o task_queue
  /\ UNCHANGED <<clock, heap, idle_task_queue, getNext, clearing, status,
                 taken, delayed, ran, cleared, destroyed, interrupted>>

PostTask(t) ==
  /\ status = "ok" /\ QueuesUnlocked
  /\ NewTask(t)
  /\ task_queue' = Append(task_queue, t)
  /\ UNCHANGED <<clock, heap, idle_task_queue, getNext, clearing, status,
                 taken, delayed, ran, cleared, destroyed, interrupted>>

PostDelayedTaskM(t, d) ==  \* mutant: the deadline is not relative to Now()
  /\ status = "ok" /\ QueuesUnlocked
  /\ clock + d <= MaxTime
  /\ NewTask(t)
  /\ delayed_task_queue' = delayed_task_queue \union {t}
  /\ deadline' = [deadline EXCEPT ![t] = d]
  /\ delayed' = delayed \union {t}
  /\ UNCHANGED <<clock, task_queue, moved_from, idle_task_queue, getNext,
                 clearing, status,
                 taken, ran, cleared, destroyed, interrupted>>

PostDelayedTask(t, d) ==
  /\ status = "ok" /\ QueuesUnlocked
  /\ clock + d <= MaxTime  \* bound
  /\ NewTask(t)
  /\ delayed_task_queue' = delayed_task_queue \union {t}
  /\ deadline' = [deadline EXCEPT ![t] = clock + d]
  /\ delayed' = delayed \union {t}
  /\ UNCHANGED <<clock, task_queue, moved_from, idle_task_queue, getNext,
                 clearing, status,
                 taken, ran, cleared, destroyed, interrupted>>

\* An idle task is posted at most once; the history does not follow it.
PostIdleTask(i) ==
  /\ status = "ok" /\ IdleUnlocked
  /\ i \notin Range(idle_task_queue)
  /\ idle_task_queue' = Append(idle_task_queue, i)
  /\ UNCHANGED <<clock, task_queue, heap, getNext, clearing, status, history>>

(* Clear: three sections, each under its own mutex.                        *)

ClearTaskQueue(c) ==
  /\ status = "ok" /\ QueuesUnlocked
  /\ clearing[c] = "no"
  /\ clearing' = [clearing EXCEPT ![c] = "delayed"]
  /\ task_queue' = <<>>
  /\ cleared' = cleared \union Range(task_queue)
  /\ UNCHANGED <<clock, heap, idle_task_queue, getNext, status,
                 posts, taken, delayed, ran, destroyed, interrupted>>

ClearDelayedTaskQueue(c) ==
  /\ status = "ok" /\ QueuesUnlocked
  /\ clearing[c] = "delayed"
  /\ clearing' = [clearing EXCEPT ![c] = "idle"]
  /\ delayed_task_queue' = {}
  /\ moved_from' = {}
  /\ cleared' = cleared \union (delayed_task_queue \ moved_from)
  /\ interrupted' = interrupted \union InWindow
  /\ UNCHANGED <<clock, task_queue, deadline, idle_task_queue, getNext, status,
                 posts, taken, delayed, ran, destroyed>>

\* The third loop tests idle_task_queue_ and pops delayed_task_queue_: with an
\* idle task queued it never ends, and it keeps idle_mutex_.
ClearIdleTaskQueue(c) ==
  /\ status = "ok" /\ IdleUnlocked
  /\ clearing[c] = "idle"
  /\ clearing' = [clearing EXCEPT ![c] = IF idle_task_queue = <<>>
                                           THEN "no" ELSE "spin"]
  /\ UNCHANGED <<clock, task_queue, heap, idle_task_queue, getNext, status,
                 history>>

\* One turn of that loop: pop() without delay_mutex_; on an empty heap it is
\* undefined.
ClearSpin(c) ==
  /\ status = "ok"
  /\ clearing[c] = "spin"
  /\ \/ /\ delayed_task_queue = {}
        /\ status' = "undefined"
        /\ UNCHANGED <<heap, cleared, interrupted>>
     \/ \E e \in TopEntries :
          /\ RemoveEntry(e)
          /\ cleared' = cleared \union Owned(e)
          /\ interrupted' = interrupted \union InWindow
          /\ UNCHANGED status
  /\ UNCHANGED <<clock, task_queue, idle_task_queue, getNext, clearing,
                 posts, taken, delayed, ran, destroyed>>

-----------------------------------------------------------------------------
(* The worker thread in GetNext.                                           *)

GetNextBeginM ==  \* mutant: a cached now
  /\ status = "ok" /\ pc = "call"
  /\ pc' = "top"
  /\ UNCHANGED <<clock, task_queue, heap, idle_task_queue, now, task, entry,
                 clearing, status, history>>

GetNextBegin ==
  /\ status = "ok" /\ pc = "call"
  /\ now' = clock
  /\ pc' = "top"
  /\ UNCHANGED <<clock, task_queue, heap, idle_task_queue, task, entry,
                 clearing, status, history>>

\* Where GetNext goes on when it was given no task: past its while (task).
AfterNull == "front"

\* First call of popTaskFromDelayedQueueNoLock, no lock held: empty(), top(),
\* the deadline and the move.
UnlockedTop ==
  /\ status = "ok" /\ pc = "top"
  /\ \/ /\ DueEntries(now) = {}
        /\ pc' = AfterNull
        /\ UNCHANGED <<task, entry, moved_from, taken>>
     \/ \E e \in DueEntries(now) :
          /\ entry' = e
          /\ task' = TaskOf(e)
          /\ moved_from' = moved_from \union {e}
          /\ taken' = [taken EXCEPT ![e] = IF e \in moved_from THEN @
                                                             ELSE posts]
          /\ pc' = "pop"
  /\ UNCHANGED <<clock, task_queue, delayed_task_queue, deadline,
                 idle_task_queue, now, clearing, status,
                 posts, delayed, ran, cleared, destroyed, interrupted>>

\* ... and its pop(), still without a lock.
UnlockedPop ==
  /\ status = "ok" /\ pc = "pop"
  /\ \/ /\ delayed_task_queue = {}
        /\ status' = "undefined"
        /\ UNCHANGED <<heap, pc, entry, destroyed>>
     \/ \E e \in PoppedEntries :
          /\ RemoveEntry(e)
          /\ destroyed' = destroyed \union Owned(e)
          /\ entry' = NoTask
          /\ pc' = IF task = NoTask THEN AfterNull ELSE "lock"
          /\ UNCHANGED status
  /\ UNCHANGED <<clock, task_queue, idle_task_queue, now, task, clearing,
                 posts, taken, delayed, ran, cleared, interrupted>>

DrainM ==  \* mutant: the next task is taken before this one is pushed
  /\ status = "ok" /\ pc \in {"lock", "drain"}
  /\ \/ /\ DueEntries(now) = {}
        /\ task_queue' = Append(task_queue, task)
        /\ task' = NoTask
        /\ pc' = "front"
        /\ UNCHANGED <<heap, taken>>
     \/ \E e \in DueEntries(now) :
          /\ RemoveEntry(e)
          /\ UNCHANGED task_queue
          /\ task' = TaskOf(e)
          /\ taken' = [taken EXCEPT ![e] = posts]
          /\ pc' = "drain"
  /\ UNCHANGED <<clock, idle_task_queue, now, entry, clearing, status,
                 posts, delayed, ran, cleared, destroyed, interrupted>>

\* One turn of the loop under both locks: push the task in hand, take the next
\* due one.  A null task (none due, or a moved-from entry) ends the loop.
Drain ==
  /\ status = "ok" /\ pc \in {"lock", "drain"}
  /\ task_queue' = Append(task_queue, task)
  /\ \/ /\ DueEntries(now) = {}
        /\ task' = NoTask
        /\ pc' = AfterNull
        /\ UNCHANGED <<heap, taken>>
     \/ \E e \in DueEntries(now) :
          /\ RemoveEntry(e)
          /\ task' = TaskOf(e)
          /\ taken' = [taken EXCEPT ![e] = IF e \in moved_from THEN @
                                                             ELSE posts]
          /\ pc' = IF e \in moved_from THEN AfterNull ELSE "drain"
  /\ UNCHANGED <<clock, idle_task_queue, now, entry, clearing, status,
                 posts, delayed, ran, cleared, destroyed, interrupted>>

\* The last section of GetNext: return the front task, which the worker runs.
PopFront ==
  /\ status = "ok" /\ pc = "front"
  /\ \/ /\ task_queue = <<>>
        /\ pc' = "idle"
        /\ UNCHANGED <<task_queue, ran>>
     \/ /\ task_queue # <<>>
        /\ ran' = Append(ran, Head(task_queue))
        /\ task_queue' = Tail(task_queue)
        /\ pc' = "call"
  /\ UNCHANGED <<clock, heap, idle_task_queue, now, task, entry, clearing,
                 status, posts, taken, delayed, cleared, destroyed, interrupted>>

\* After a GetNext that returned null the worker calls PopIdleTask.
PopIdleTask ==
  /\ status = "ok" /\ pc = "idle" /\ IdleUnlocked
  /\ idle_task_queue' = IF idle_task_queue = <<>> THEN <<>>
                                                  ELSE Tail(idle_task_queue)
  /\ pc' = "call"
  /\ UNCHANGED <<clock, task_queue, heap, now, task, entry, clearing, status,
                 history>>

-----------------------------------------------------------------------------
(* Undefined behaviour: accesses to the heap's vector overlap instead of   *)
(* taking turns, when the worker is in the unlocked window of GetNext and  *)
(* another thread pushes or clears, or when a Clear pops without the lock  *)
(* and the worker drains or another thread pushes.                         *)

HeapWriters ==
  \/ posts < MaxPosts
  \/ \E c \in Clients : clearing[c] \in {"delayed", "spin"}

HeapRace ==
  /\ status = "ok"
  /\ \/ pc \in {"top", "pop"} /\ HeapWriters
     \/ ~IdleUnlocked /\ (pc \in {"lock", "drain"} \/ posts < MaxPosts)
  /\ status' = "undefined"
  /\ UNCHANGED <<clock, task_queue, heap, idle_task_queue, getNext, clearing,
                 history>>

Tick ==
  /\ status = "ok"
  /\ clock < MaxTime
  /\ clock' = clock + 1
  /\ UNCHANGED <<task_queue, heap, idle_task_queue, getNext, clearing, status,
                 history>>

\* Nothing is known of the program after undefined behaviour.
Halted == status = "undefined" /\ UNCHANGED vars

WorkerStep ==
  \/ GetNextBegin \/ UnlockedTop \/ UnlockedPop \/ Drain
  \/ PopFront \/ PopIdleTask

ClearStep(c) ==
  \/ ClearTaskQueue(c) \/ ClearDelayedTaskQueue(c)
  \/ ClearIdleTaskQueue(c) \/ ClearSpin(c)

ClientStep ==
  \/ \E t \in Tasks : PostTask(t)
  \/ \E t \in Tasks, d \in Delays : PostDelayedTask(t, d)
  \/ \E i \in IdleTasks : PostIdleTask(i)
  \/ \E c \in Clients : ClearStep(c)

Next == WorkerStep \/ ClientStep \/ Tick \/ HeapRace \/ Halted

\* RunLoop calls GetNextTask for as long as the worker lives, a thread that
\* has entered Clear keeps running, and time passes.
Fairness ==
  /\ WF_vars(WorkerStep)
  /\ WF_vars(Tick)
  /\ \A c \in Clients : WF_vars(clearing[c] # "no" /\ ClearStep(c))

Spec == Init /\ [][Next]_vars /\ Fairness

-----------------------------------------------------------------------------
(* Properties. *)

\* Every variable has its type.  The heap owns no task that was moved out
\* twice: a moved-from entry is still an entry.
TypeOK ==
  /\ clock \in 0..MaxTime
  /\ task_queue \in Seq(Tasks)
  /\ delayed_task_queue \subseteq Tasks
  /\ deadline \in [Tasks -> 0..MaxTime]
  /\ moved_from \subseteq delayed_task_queue
  /\ idle_task_queue \in Seq(IdleTasks)
  /\ pc \in {"call", "top", "pop", "lock", "drain", "front", "idle"}
  /\ now \in 0..MaxTime
  /\ task \in Tasks \union {NoTask}
  /\ entry \in Tasks \union {NoTask}
  /\ clearing \in [Clients -> {"no", "delayed", "idle", "spin"}]
  /\ status \in {"ok", "undefined"}
  /\ posts \in 0..MaxPosts
  /\ taken \in [Tasks -> 0..MaxPosts]
  /\ delayed \subseteq Tasks
  /\ ran \in Seq(Tasks)
  /\ cleared \subseteq Tasks
  /\ destroyed \subseteq Tasks
  /\ interrupted \subseteq Tasks

\* The places a posted task can be in, with cleared and destroyed.
Queued == Range(task_queue)
Waiting == delayed_task_queue \ moved_from
InHand == {task} \ {NoTask}
Returned == Range(ran)

\* Through the queues, the unlocked pop, the drain loop and any number of
\* concurrent Clears, a posted task is at exactly one place: queued, waiting
\* for its deadline, in GetNext's hand, returned to the worker, or destroyed.
\* None is returned twice, none disappears.
Conservation ==
  /\ IsInjective(task_queue) /\ IsInjective(ran)
  /\ Posted = Queued \union Waiting \union InHand \union Returned
                     \union cleared \union destroyed
  /\ Queued \intersect (Waiting \union InHand \union Returned
                          \union cleared \union destroyed) = {}
  /\ Waiting \intersect (InHand \union Returned
                           \union cleared \union destroyed) = {}
  /\ InHand \intersect (Returned \union cleared \union destroyed) = {}
  /\ Returned \intersect (cleared \union destroyed) = {}
  /\ cleared \intersect destroyed = {}

\* Why the unlocked pop of GetNext gets away with it: between its top() and
\* its pop() the entry it took the task from stays on top of the heap, and it
\* is the only one without a task, unless a Clear removed it; and outside
\* that window no entry is without a task, so GetNext never takes a null one.
TopStaysOnTop ==
  /\ now <= clock
  /\ delayed_task_queue \subseteq Posted
  /\ pc # "pop" => moved_from = {}
  /\ pc = "pop" =>
       /\ task = entry /\ entry \in Posted
       /\ deadline[entry] <= now
       /\ \/ entry \in TopEntries /\ moved_from = {entry}
          \/ /\ entry \notin delayed_task_queue /\ moved_from = {}
             /\ entry \in interrupted

\* The unlocked pop destroys a task nobody ran only if a Clear took the entry
\* away between its top() and its pop(), and then at most one task.
\* PostDelayedTask alone cannot do that: a deadline computed in the window is
\* never earlier than the due one on top, so it does not take its place.
DestroyedOnlyByClear == Cardinality(destroyed) <= Cardinality(interrupted)

Order == ran \o task_queue

\* Tasks posted with PostTask are returned in the order they were posted,
\* whatever delayed tasks are moved in between them.
PostTaskFifo ==
  \A i, j \in DOMAIN Order :
    (i < j /\ Order[i] \notin delayed /\ Order[j] \notin delayed)
      => Order[i] < Order[j]

\* A delayed task is never ahead of one that was already waiting with an
\* earlier deadline when it left the heap.
DeadlineOrder ==
  \A i, j \in DOMAIN Order :
    ( /\ i < j
      /\ Order[i] \in delayed /\ Order[j] \in delayed
      /\ Order[j] <= taken[Order[i]] )
      => deadline[Order[i]] <= deadline[Order[j]]

\* GetNext never returns, queues or holds a delayed task before its deadline.
NotBeforeDeadline ==
  \A t \in delayed :
    t \in Queued \union Returned \union InHand => deadline[t] <= clock

\* What the worker gets from GetNext: PostTask's tasks in the order they were
\* posted, delayed tasks by deadline and none before it, and all of them but
\* what a Clear took from under the unlocked pop.
ReturnedAsPosted ==
  PostTaskFifo /\ DeadlineOrder /\ NotBeforeDeadline /\ DestroyedOnlyByClear

\* Every posted task is eventually returned to the worker, unless Clear or
\* the unlocked pop destroys it or the program meets undefined behaviour.
EventuallyReturned ==
  \A t \in Tasks :
    t \in Posted ~> (t \in Returned \union cleared \union destroyed
                     \/ status = "undefined")

=============================================================================
