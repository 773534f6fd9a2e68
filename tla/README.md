# TLA+ models of footstone

footstone is the threading base of a C++ framework: task runners with task,
delayed and idle queues, workers that run them on a thread, a manager that
spreads runners over workers, timers, lock-free queues and a few utilities.
This directory models its concurrent core, checks it with TLC on small
instances and proves the most important invariants with TLAPS for all of them.

Paths below are relative to the repository's root; `PROJECT.json` maps each
definition to its lines.

## 1. Inventory

| Component | State | Operations | What is hard |
|---|---|---|---|
| **TaskRunner** (`task_runner.cc`) | `task_queue_`, `delayed_task_queue_` (a heap of deadlines and tasks), `idle_task_queue_`, one mutex each; `time_`, `priority_`, `worker_` | `PostTask`, `PostDelayedTask`, `PostIdleTask`, `Clear` from any thread; `GetNext`, `PopIdleTask`, `GetNextTimeDelta` from its worker | `GetNext` pops the heap once before it takes a lock; two locks; `Clear` in three sections |
| **Worker** (`worker.cc`) | `running_groups_`, `pending_groups_` (lists of groups of runners), `immediate_task_queue_`, `need_balance_`, `is_terminated_`, `is_exit_immediately_`, thread-local `curr_group`, `local_runner` | `Run`, `RunTask`, `GetNextTask`, `SortNoLock`, `BalanceNoLock` on its thread; `Bind`, `UnBind`, `AddImmediateTask`, `Terminate` from others | flags without a lock, a scan without a lock, two-lock searches |
| **ThreadWorker** (`thread_worker.cc`) | the thread, a condition variable | `Start`, `RunLoop`, `TerminateWorker`, `Notify`, `WaitFor`, `Join` | ending in every state |
| **WorkerManager** (`worker_manager.cc`) | `workers_`, `index_`, `size_` | `CreateTaskRunner`, `RemoveTaskRunner`, `Resize`, `AddWorker`, `Balance`, `Terminate` | migration of groups and of their data between running workers |
| **Specifics** (`worker.cc` 366-482) | key and value arrays per runner | create, delete, set, get, move, destroy | migration by immediate tasks |
| **Sub-runners** (`AddSubTaskRunner`, `BindGroup`) | `has_sub_runner_`, the group as a stack | add, remove | tasks run inside a task |
| **Timers** (`base_timer.cc`, ...) | `is_running_`, `desired_run_time_`, `scheduled_run_time_`, the tasks posted | `Start`, `Stop`, `Reset`, `FireNow`, `OnScheduledTaskInvoked` | tasks of an earlier start that are still queued |
| **spsc_queue** | `head_`, `tail_`, `block_`, `max_size_` | `push`, `pop`, `push_until_success`, `empty` | no lock, wrapping indices |
| **mpmc_queue** | `flag_`, `head_`, `tail_`, slots with a flag each | `push`, `pop`, `push_until_success` | no lock, several threads on each side, release stores that later loads may pass |
| **mpmc_list**, **thread_safe_queue** | tagged list; queue and mutex | push, pop | - |
| **unicode_string_view** | a tag and a union of four strings | constructors, nine assignments, comparisons | four hand-written switches that must agree |
| **ThreadPool** | `tasks_`, `stop_`, threads | `Enqueue`, destructor | waiting, stopping |
| base64, time types, logging, platform glue | - | pure or I/O | boundaries |

How they interact: a client posts to a TaskRunner; the Worker the runner is
bound to polls the runner at the top of every group (`GetNext`), in the order of
priority times running time, and runs what it gets. WorkerManager binds runners
to workers and moves groups between them. Timers and sub-runners post to, and
run on, task runners. The queues and the thread pool stand alone.

What makes each correct:

- TaskRunner: a posted task is run once, in order, not before its deadline, and
  eventually, whatever the threads do.
- Worker: a bound runner is in one place and polled until it is removed; runners
  share the worker by their priorities; Terminate ends the thread, after what
  `is_exit_immediately_` promises.
- WorkerManager: a resize loses no group, keeps a group together, and leaves
  `worker_` and the specifics where the group is.
- Timers: the user's task runs once per start, not early, and after `Stop` no more
  out of anything the timer still has queued.
- Sub-runners: a sub-runner blocks its father and nobody else, and its removal
  lets the father go on.
- unicode_string_view: the tag is true to the union, and a view holds what it
  was given.
- Queues: a bounded FIFO. ThreadPool: everything queued is run, then all end.

## 2. What is modelled

### TaskRunner.tla

One runner, the GetNext / PopIdleTask steps of the one worker thread bound to
it, any number of posts and threads that clear. A section under a mutex is a
step; the drain loop under both locks is a step per turn, which posts and clears
wait for; `popTaskFromDelayedQueueNoLock` before the lock is two steps, `top()`
with the move and `pop()`, with everybody else in between. A task is its number
in the order of posting. `moved_from` holds the heap entries whose task was
moved out, so a `pop()` of any other entry destroys a task. The heap is the set of
its entries: the top is any entry of least deadline.

`NotifyWorker` changes nothing: while the worker is not terminated
`GetNextTask` returns without waiting. Overlapping accesses to the heap without
a common lock are undefined behaviour in C++: `HeapRace` takes the program to
`status = "undefined"`. The other steps are the orders in which those accesses
happen to take turns; the properties say what is true in them. Delays are not
negative: a negative one could put an entry on top of the one being popped.

| Action | Code |
|---|---|
| `PostTask`, `PostDelayedTask`, `PostIdleTask` | task_runner.cc 86-110 |
| `ClearTaskQueue`, `ClearDelayedTaskQueue`, `ClearIdleTaskQueue`, `ClearSpin` | 34-53; the last loop tests one queue and pops another |
| `GetNextBegin`, `UnlockedTop`, `UnlockedPop`, `Drain`, `PopFront` | 147-166, 184-197 |
| `PopIdleTask` | 124-134 |

### Worker.tla

One ThreadWorker with its thread and its clients. Each access to
`need_balance_`, `is_terminated_` and each turn of the scan is a step; each
section under a mutex is one. A group holds one runner (sub-runners are in
Stacking and WorkerManager). Of a runner's queues only the number of tasks counts: TaskRunner is
about their inside. `RunTask` charges a cost from `Costs` to every runner of
`curr_group`. `status` becomes "aborted" when the CHECK of the sort fails and
"undefined" where the code reads `front()` or `back()` of an empty group, or where an
erase and the unlocked scan touch the same group (`ScanRace`).

| Action | Code |
|---|---|
| `Run`, `RunLoop` | worker.cc 92-98, thread_worker.cc 22-30 |
| `GetNextTask`, `ReadNeedBalance`, `Balance`, `ClearNeedBalance`, `Scan`, `ScanEnd` | worker.cc 303-361, with `Sorted` (100-113) and `BalanceNoLock` (56-74) |
| `RunTask`, `RunTaskNull` | 76-90 |
| `Bind` then `BindFlag`; `UnBind` then `UnBindPending` | 151-163; 174-211 |
| `AddImmediateTask`; `Terminate` then `Join` | 289-293; thread_worker.cc 32-67 |

`Join` is called by the thread that terminates; the early return for a worker that
joins itself (thread_worker.cc:61) is left out.

Facts the model rests on and a reader may not expect: `GetNextTask` returns null
without waiting while the worker is not terminated, so a worker polls; an idle
task popped in such a scan is destroyed unrun.

### BoundedFifo.tla and SpscQueue.tla

`BoundedFifo` is the abstract queue: the producer offers an element, a push
appends it, a pop hands over the oldest, and a full queue may drop the oldest.
`SpscQueue` is the ring: a step per load of the other side's index, per slot access
and per `fetch_add`. `Modulus` is the number of values of the index type
`U`; `id_tail - 1` in `push` is computed without wrapping, as the integral
promotion of `U` does. The atomics are sequentially consistent: the
acquire/release pairs on the indices order the slot accesses that matter.
`SerialDrop` says that `push_until_success`, which pops in the producer's thread,
is not called while the consumer pops; without it two threads advance
`tail_` and the refinement fails.

### Timer.tla

One timer of a kind chosen initially and the tasks it has posted, of which only
the times they are due matter. A timer has no lock, so its calls and its tasks
run one after the other on the thread of its runner; a call may come from inside
the user's task (`inside`). A call reads the clock up to three times, and the
clock may tick in between (`Readings`): the runner's deadline and the timer's
`scheduled_run_time_` are two different readings. The task of a timer that owns
it while it runs (repeating, idle) must not be replaced then: that is undefined.
`stopped` has the starts that a `Stop` ended; `bad` records in which way one of them still
ran. An idle timer posts two kinds of idle task: with a timeout a wrapper that looks for the
timer's own copy, without one the user's task itself, which nothing can hold back.

| Action | Code |
|---|---|
| `Start`, `ResetCall`, with `Reset` and `ScheduleNewTask` | base_timer.cc 16-43, 61-85, the Start of each timer |
| `Stop`, `FireNow`, `StartIdle` | base_timer.cc 11-14, one_shot_timer.cc 20-24, idle_timer.cc 33-39 |
| `OnScheduledTaskInvoked` with `RunOneShot`, `RunRepeating`, `RunIdle`; `Return` | base_timer.cc 45-59 and each RunUserTask |
| `IdleTaskInvoked`, `RunnerDestroyed` | idle_timer.cc 16-39, base_timer.cc 17-20 |

### WorkerManager.tla and MCWorkerManager.tla

The manager, its workers reduced to what it touches (both lists of groups,
`group_id_`, the immediate tasks, the runners with specifics, whether the thread
has ended) and the runners. `Balance` takes one worker's mutex after the other;
each such section is a step (`balance.step` and its locals), and the workers'
threads, `CreateTaskRunner` (which walks `workers_` without the manager's mutex and
binds after releasing it) and the sub-runner calls come in between. A worker's
thread sorts (any order: running times are not modelled), takes over its
pending groups if `need_balance_` is set, stores `false` in it in a later step, and runs the
immediate tasks that carry specifics. `UnBind` searches the running list in one step and the
pending list in another; `RemoveSubTaskRunner` goes on from there to its store of
`has_sub_runner_` in a third (`removing`, `unbinding` hold the calls under way).

| Action | Code |
|---|---|
| `CreateLoose`, `CreateInNoGroup` with `AddTaskRunner`, `CreateInGroup`, `PickWorker` then `BindPicked` | worker_manager.cc 204-231, 240-262 |
| `RemoveTaskRunner` then `RemoveFromPending`; `DestroyRunner` | 233-238, worker.cc 174-211; task_runner.cc 27-32 |
| `AddSubTaskRunner`, `AddBoundTaskRunner` | task_runner.cc 55-70, worker.cc 119-149 |
| `RemoveSubTaskRunner`, `UnBindSub`, `UnBindSubPending`, `ClearHasSubRunner` | task_runner.cc 72-84, worker.cc 174-211 |
| `ResizeUp`, `CreateWorkers`, `AddWorker`, `CountGroups`, `Retain`, `Recount`, `Deal` | worker_manager.cc 87-150, worker.cc 240-267 |
| `ResizeDown`, `UnBindWorker`, `UnBindWorkerPending`, `UnBindEnd`, `Keep`, `Rebind`, `Repoint`, `ShrinkEnd` | 151-202, worker.cc 218-230 |
| `Schedule`, `ClearNeedBalance`, `RunImmediateTask` with `RunTake`, `RunPut` | worker.cc 303-322, worker_manager.cc 58-85 |
| `UseSpecificsUnbound`, `RunnerDestroySpecifics`, `Terminate` | task_runner.cc 203-241, worker_manager.cc 35-39 |

`status` names the ways the program ends: an empty group met by the sort or
`Bind` ("empty_group"), a CHECK on `worker_` ("no_worker"), `index_` past the end
("out_of_range"), the walk of `workers_` meeting a change of the vector ("race"),
`BindGroup` without the father ("bind_end"), a sub-runner that is in a group already
("doubled"), an iterator used after its element was spliced
away ("iterator"), `workers_[-1]` at worker_manager.cc:158 ("before_begin") and the DCHECK of
the shrink ("check"). The last but two need more runners than the run has. "doubled" is no
failure of the program but the end of this model: what a runner in two groups does is
in Stacking.

Abstractions: the maps of specifics are read and written by several threads
without a lock, and here each access is atomic; the immediate tasks and the `Bind`
of one turn of `Deal` are one step; the insertion of `Bind` and its `need_balance_ = true`
are one step (Worker has them apart), and so are `BindGroup` and `has_sub_runner_ = true`;
`RemoveTaskRunner`, which asks every worker, does so in the two steps of the worker that has
the runner, since `mutex_` keeps it there; a runner is removed by one call at a time and
not used again afterwards; only the runners in `Removable` are passed to
`RemoveTaskRunner`; `Terminate` comes when no other call is under way and is the last one.

Facts the model brings out: `index_ = size - 1 ? 0 : ++index_` is 0 for every
size but one, and counts up without end for one, so all runners go to the first
worker, and the second creation on one worker reads past `workers_`; a shrink never
terminates a worker; a growth drops the groups beyond the rounded-down share.

### Stacking.tla

One worker thread with its call stack: `AddSubTaskRunner(sub, true)` runs `RunTask`
inside the calling task. Each test of a loop is a step, so that a removal from
another thread falls between the test and the `RunTask`. The thread-local
variables exist once for the whole stack. A sub-runner with a group of its own
becomes a member of two groups (`doubled`). Such a runner may have two tasks that
wait at once, with one `has_sub_runner_` for both: the removal of one's sub-runner
lets the other go on with its sub-runner in place (`stranded`). `RemoveSubTaskRunner` is two
steps, `UnBind` and then `has_sub_runner_ = false` (`ClearFlag`): another thread's late store
may take the flag away from a sub-runner that was added in between, which then stays above
the father without a task that waits for it (`stranded` too).

Abstractions: one thread outside removes at a time, a sub-runner is removed by one caller, a runner
that has a task on the stack is not added as a sub-runner, and `BindGroup` and
`has_sub_runner_ = true` are one step.

| Action | Code |
|---|---|
| `LoopTest`, `NestedTest` | thread_worker.cc 22-30, task_runner.cc 65-67 |
| `RunTask` with `NextRunner`, `HasTask`, `StartTask`; `RunTaskNull`, `RunTaskEmptyGroup`, `FinishTask` | worker.cc 76-90, 327-333 |
| `AddSubTaskRunner`; `RemoveSubTaskRunner`, `RemoveFromOutside` with `RemoveOf`, then `ClearFlag` | task_runner.cc 55-70; 72-84 |
| `GetCurrentTaskRunner`, `PostTask`, `Terminate` | worker.cc 38-42, task_runner.cc 86-92, 178-182, thread_worker.cc 32-42 |

### MpmcQueue.tla

The ring for any number of threads, a step per access to a shared variable.
`push` and `pop` follow each release store (of a slot's flag, of `head_`) by
acquire loads, which may be performed first: a store waits in the thread's
buffer until `Drain`, its own thread reads it from there, and an exchange waits for
it, as on x86. This is why `pop` also advances `head_`: two pushes can each leave a
slot to the other. Weak exchanges fail without a cause. The element of the n-th
reservation is the number n, and `tick` counts the loaded indices without
wrapping, to notice an exchange that succeeds with an index of the lap before.
`pop` copies a slot before it owns it (mpmc_queue.h:117), and a push that has lapped it may
write the slot at that moment. In C++ that is a data race; here the copy is one step, of the
old element or the new one, and is thrown away when the exchange that follows fails.

| Action | Code |
|---|---|
| `PushCall`, `PushFlag`, `PushFull`, `PushReserve`, `PushRetry`, `PushWrite`, `PushPublish` | mpmc_queue.h 57-75 |
| `PushOwnItem`, `PushOwnHead`, `PushOwnClaim` | 76-92 |
| `PopCall`, `PopLow`, `PopHead`, `PopItem`, `PopClaim`, `PopClaimFails`, `PopRead`, `PopTake`, `PopTakeFails` | 101-123 |

Facts: the queue holds `max_size_ - 1` elements, so one made with a `max_size` of 1
(or 0) holds none; `push` may report a full queue that is not, when `cur_flag` is older than
`tail_`; `pop` may report an empty one while an earlier push is unfinished.

### UnicodeStringView.tla

Several views, each the tag `encoding_` and the member of the union that is
constructed, if any. A text is a number. Every constructor, assignment and the
destructor is an action; `Modify` is a write through the reference that
`utf8_value()` and the like return. The ghosts `want`, `ignored`, `blanked` and `leaked`
record what the program assigned, which assignments had no effect, over which
strings an Unkown view was assigned, and which strings were lost.

## 3. What is checked

| Run | Instance | Shows |
|---|---|---|
| `taskrunner` | 3 posts, delays 0 and 1, clock to 1, 1 idle task, 1 clearing thread | `Conservation`: a posted task is at exactly one place. `TopStaysOnTop`: why the unlocked pop usually works. `ReturnedAsPosted`: posts in order (`PostTaskFifo`), delayed tasks by deadline and not before it (`DeadlineOrder`, `NotBeforeDeadline`), and none destroyed unless a Clear meets the unlocked pop (`DestroyedOnlyByClear`). `EventuallyReturned`: liveness |
| `worker_lifecycle` | 2 runners (1 removable) of different priorities, 2 clients, 2 posts, 1 idle task, both exit modes | `BoundOnce`, `RemovedIsGone`: where runners are. `BalanceWakeup`: the only way a pending group is forgotten. `TerminateDiscipline`: at most one more task when the worker exits immediately (`AtMostOneAfterTerminate`; worker.h:70 says none, see below), a whole scan without a task when it drains (`ExitAfterFullScan`). `PostedRuns`, `TerminateExits`: liveness |
| `worker_share` | 2 runners of equal priority (1 removable), costs 1 and 2, 4 posts, 1 immediate task | `FairShare`: runners of one priority that always have a task stay within one task of each other |
| `worker_sort_check` | as lifecycle | violation: the CHECK of `SortNoLock` fails after an `UnBind` |
| `worker_drain` | as lifecycle, draining mode | violation: a queued task is not run before the exit |
| `spsc` | 4 index values, capacity 3, 2 elements | `NoSlotRace`, `RoomForPush`, `ImplementsFifo`, `ForcedPushEnds` |
| `timer` | 3 kinds, delays 0 and 2, clock to 5, 2 starts, 1 reset, 1 stop | `OncePerStart`, `NothingAfterStop`, `NotEarly`, `RunningHasTask`, `StartedRuns` |
| `manager` | 5 runners in 3 casts (two without a group; one in a group; one that is removed and a sub-runner), 1 to 3 workers, 2 resizes, debug and release builds | `OnePlace`: no runner in two places, or in none unless dropped. `WorkerPointer`, `SubStaysOnFather`, `RemovedIsGone`: the pointers, stacks and removals through moves. `SpecificsFollow` (`InOneMap`, `KeyAvailable`), `SpecificsArrive`: the specifics are in one place, and in the end at the worker the runner is bound to. `SafeSizes` (`IndexSafe`, `ShrinkToOne`): which sizes are safe. `BoundIsScheduled`: a group gets into a running list, unless its announcement was overwritten |
| `stacking` | a father, a schedulable and two loose sub-runners, 4 posts, 3 additions | `CurrentRunner`: who is running. `SubBlocksFather` (`NoReentry`, `FatherWaits`, `RemovedUnblocks`, `FatherFound`): who blocks whom. `ResumesAfterRemove`, `TerminateExits`: liveness |
| `mpmc` | 3 index values, 4 reservations, one thread each for `push`, `push_until_success` and `pop` | `Fifo` (`InOrder`, `Capacity`), `HeadForward`, `NothingStuck`, `ForcedPushEnds` |
| `unicode_view` | 3 views (symmetric), 3 texts | `TagMatches`, `HoldsAssigned`, `LeakOnlyByBlank`, `OrderConsistent` |
| `spsc_limit` | 4 index values, capacity 4 | violation of `RoomForPush` |

Type invariants: those of TaskRunner, SpscQueue and UnicodeStringView are theorems
(section 4); the `TypeOK` of the other modules is a conjunct of their first
invariant (`BoundOnce`, `OncePerStart`, `OnePlace`, `CurrentRunner`, `Fifo`).

Bounds. Three tasks are what the orders and the window of the unlocked pop need:
one taken, one that replaces it on top, one behind; two points of time tell due
from not due and let the clock pass between `now` and a post. Two runners are
what sorting, balancing past a removal and sharing need, and two clients let a
`Bind` or `UnBind` of one be half done while another runs. The ring of four wraps
at every offset. For a timer, a second Start after the first one's task is late, or with
a shorter delay, gives two queued tasks; a Reset and a Stop around them is every
way to confuse them. The timer may come to rest, so its run does not check for
deadlock. For the manager two resizes are what a growth and the shrink that undoes
it need, and two of the same direction; three workers leave one that neither is
first nor new. The casts are as small as they can be, since every removal and every balance
has its middle steps: one with a grouped runner only, so that two creations in one new group,
which may choose two workers, are left to the theorems of section 4. In the nested loops three
additions give a stack three deep, with a sub-runner of a sub-runner and a
schedulable one in two groups. In the mpmc ring four reservations reuse the first slot,
so every excuse happens; its safety properties were also checked with two threads
that both push and force (10 million states) and with four index values and a
capacity of two (0.8 million). With `MaxSize` 3 in a ring of three it is the
ring that is full first, never the test of `max_size_` (mpmc_queue.h:65): that test decides in
the instance with a capacity of two, and in the theorems. Three views are what the
transitivity of the comparisons needs.

Fairness. The worker's thread keeps running (weak fairness of its steps:
`RunLoop` is a loop that does not wait), a call that a client has begun goes on,
and time passes. Nothing obliges a client to call. `push_until_success` is a loop
of its own thread, and in MpmcQueue a buffered store gets through and a weak
exchange that could succeed infinitely often does (strong fairness). These are what a preemptive scheduler gives.

Excuses appear in properties, each the exact trace of a race or defect in the
code; the properties state that nothing else goes wrong.

- `overwritten`: a `Bind` whose `need_balance_ = true` falls between the end of the
  balance and the worker's store of `false` (worker.cc:321), in Worker and in WorkerManager;
- `missed`: a balance between the two searches of `UnBind`, of the worker (in Worker) or of the
  worker or the manager (in WorkerManager);
- `interrupted`: a `Clear` between `top()` and `pop()`;
- `overlap`: a timer posts a task while an older one is queued, which then runs
  early; `lost`: a timer relies on a queued task that ran before `scheduled_run_time_`;
- `history` of WorkerManager: `strayed` (moved by a growth, which leaves
  `worker_`), `again` (moved again before its specifics arrived), `dropped` (beyond the
  rounded-down share), `wiped` (destroyed its specifics), `slipped` (a sub-runner
  removed while its group was elsewhere, or by a runner that is not below it), `orphaned`
  (a runner below it in its group was removed) and `cleared` (`has_sub_runner_` taken away by the
  removal of one of several sub-runners, also of one added during that removal;
  task_runner.cc:72 then returns at the flag when the others are removed);
- `"direct"` in `bad` of Timer: the idle task a Start without a timeout posted, which runs after `Stop`;
- `disturbed`, `doubled` and `stranded` of Stacking: a task that had another run inside
  of it, a runner in two groups, a sub-runner left behind by such a runner or by a late store
  of `has_sub_runner_ = false` (task_runner.cc:81);
- `lapped` and `mismarked` of MpmcQueue: an exchange that succeeds with an index a
  whole lap old, and a `pop` that marks slot size_limit as ready for ever
  (mpmc_queue.h:112 writes `size_limit` where `push` writes `invalid_index`). With `mismarked`
  alone not excused TLC finds `HeadForward` violated: the push of that slot and the pop
  both advance `head_`, the slower one takes it back.

### Disagreements between the code and what it says

1. `worker_sort_check`: `UnBind` leaves an empty group in `running_groups_`; the next
   sort fails `TDF_BASE_CHECK(!lhs.empty() && !rhs.empty())` (worker.cc:103).
2. `worker_drain`: worker.h:70 promises that a worker that does not exit
   immediately first runs its queue; `Run` returns at once when Terminate came
   first (worker.cc:93). A second way to the same end: a task posted after its
   runner was scanned and before `is_terminated_` is read (lines 345, 86). The same line of
   worker.h says that a worker that does exit immediately no longer executes queued
   tasks. That is not so either: `RunLoop` reads `is_terminated_` (thread_worker.cc:24) before
   `RunTask`, so a Terminate between that read and the scan, or during the scan, is followed by
   the start of a queued task. There is no run that shows it as a violation;
   `AtMostOneAfterTerminate`, which passes, is what is left of the promise: one task, and no
   second one. With `late = 0` in place of `late <= 1` TLC finds it violated.
3. `spsc_limit`: the size_limit test of `push` (spsc_queue.h:48) is blind at
   `tail_` = 0, because `id_tail - 1` is an `int`; only `max_size_ <= size_limit`
   keeps the ring from overrunning.

Others that the models contain, without a run of their own: `Stop` does not keep the idle task
of a Start without a timeout from running (idle_timer.cc:38); the mark of
mpmc_queue.h:112; worker.h:79 says that `GetCurrentTaskRunner` returns null outside of
a task, where it aborts, also in a task after a nested one (worker.cc:82); the
assignments of wide strings to a view of the same encoding are ignored
(unicode_string_view.cc:139-186), `<=` holds between two Unkown views while `==` does not,
and views of different encodings are unequal and incomparable, which an ordered map does not expect;
`index_` and the shrink of WorkerManager (above).

## 4. What is proved

TLAPS checks every proof, for every value of the constants under the named
assumptions of the modules. Every invariant, action property and refinement of
section 3 is a theorem; only liveness is left to TLC.

**TaskRunnerProofs** (any number of posts, clients, delays, any clock bound)

- `TypeCorrect`: `Spec => []TypeOK`. It includes that a moved-from entry is an
  entry of the heap.
- `WindowSafe`: `Spec => []TopStaysOnTop`. `TopStaysOnTop` with `TypeOK` is
  inductive. The argument: in the window the entry's deadline is at most `now`, hence at
  most the clock; a post in the window computes its deadline from a later clock,
  so `PostKeepsTop`: it cannot get above. Only a Clear ends this.
- `TasksConserved`: `Spec => []Conservation`, from the two invariants above:
  outside the window no entry is null, so every move of a task takes it from
  exactly one place. The sequence lemmas (`RangeAppend`, `InjectiveAppend`,
  `RangeTail`) carry it through the queues; `NewTaskFresh` says a new number is
  nowhere yet.
- `OrderKept`: `Spec => []ReturnedAsPosted`. The invariant `Ordered` adds what a task
  that is not returned yet promises: the deadline of a queued entry is not before
  that of a delayed task already moved over, the task taken in the window is due, and
  a destroyed task has the interrupted entry to blame.

**SpscQueueProofs** (any index width, any set of elements; `WellUsed`: the
capacity is below the number of index values, and `SerialDrop`)

- `SlotsDoNotRace`, `PushHasRoom`: from the invariant `Inv`, which adds to the
  types that the distance of the indices is at most `MaxSize`, less before a push
  takes effect, exactly `MaxSize` when an element is about to be dropped, that a pop in progress has an element, and that
  a value written or read is that of its slot.
- `RingIsFifo`: `Spec => ImplementsFifo`. `PublishAppends` and `AdvanceRemoves`
  show that `fetch_add` on an index is `Append`, or `Tail`, of the abstract elements, also
  where an index wraps; `ItemsKept` that all other steps are stutters or offers.

**WorkerProofs** (any runners, priorities, costs, clients and posts)

- `BoundInOnePlace`, `NoLostWakeup`, `UnBindErases`, `TerminateKept`: `Spec => []P` for
  `BoundOnce`, `BalanceWakeup`, `RemovedIsGone` and `TerminateDiscipline`, from one
  invariant `Safe`. It says for every stage of a client's call what the lists look
  like (a `Bind` after its first step has its runner pending, an `UnBind` between its
  searches has erased it from the first list or not found it there), that no
  runner is twice in the lists, and how far the scan has come when a runner is known
  to be empty. The sort is a permutation and the balance a concatenation of lists
  without a common runner: neither changes who is there.
- `SharedFairly`: `Spec => []FairShare`, for costs that have a greatest element (otherwise
  there is no bound to state). `FairShare` is not inductive: that two runners are close does not
  keep the one ahead from running. The invariant `Shared` adds that the group in front after
  the sort has the least time (`LeastFirst`, from `SortedFirst`: list::sort puts a smallest key
  first, and with one priority above 0 the smallest key is the least time), that the group that
  runs was that one (`LeastRuns`), and that an immediate task that waits or runs has
  a cost in reserve (`Apart`, with `Owing`). A balance starts new runners at the least time
  and puts them first, so both stay true.
- The proof changed `FairShare`: the same priority is asked of all runners bound so far, and it is
  above 0. Asked of the running ones only, TLC finds it violated: a runner bound while one of
  another priority is in front starts with the time of that one, and is far from
  the others of its own priority when the front one is removed (worker.cc:62-73). With
  priority 0 the key is always 0 and the sort keeps the order.

**TimerProofs** (any delays, any number of calls, any clock bound)

- `StopIsFinal` is about the tasks of the timer and the wrappers it posts: that a Start which was stopped runs
  out of neither (`NothingAfterStop`). It does not cover the idle task posted directly.
- `RunsOncePerStart`, `StopIsFinal`, `AloneIsInTime`, `RunningIsQueued`: `Spec => []P` for
  `OncePerStart`, `NothingAfterStop`, `NotEarly` and `RunningHasTask`, from one invariant
  `Inv`: a one-shot timer that runs its task is stopped first and has given the task away, a
  timer with a single queued task knows when that is due, and one that is running
  has a task queued by `desired_run_time_`, since a Reset posts a new one unless
  `scheduled_run_time_` comes soon enough.

**StackingProofs** (any runners, groups, depth of the stack and number of calls)

- `TaskFindsItself`, `SubBlocks`: `Spec => []CurrentRunner`, `Spec => []SubBlocksFather`.
  The invariant `Inv` is about the whole stack of frames: the thread-local variables are
  those of the top frame until it is disturbed (`FindsItself`); a frame that waits has its
  sub above its father in the father's group, and its flag set unless the sub is `stranded`
  (`Subs`, `SubAbove`), which is why the
  frames over it are of other runners (`NoReentry`); a loose runner is only where
  a waiting frame put it (`LoosePlace`); the runner of a frame is in a group (`Homed`).

**MpmcQueueProofs** (any number of threads, any ring and capacity, any number of pushes,
with store buffering)

- `ElementsInOrder`, `EveryElementInReach`: `Spec => []Fifo`, `Spec => []NothingStuck`;
  `HeadMovesForward`: `Spec => HeadForward`.
- The invariant `Inv` is, as long as neither excuse has happened, `Ring(h, w)` for some
  numbers `h` of elements that `head_` has passed and `w` of those that were won:
  the three indices are the unbounded counters modulo `Modulus` and less than a lap apart
  (`Counters`); an element that was won stays in its slot, not ready (`Won`); each later
  one is ready or held by one thread (`Coming`, `ReadyOnly`, `Holder`, `Alone`);
  `w` is `h + 1` exactly while one buffer holds a store of `head_` (`Winner`); and what a
  thread has loaded is an index of its `tick`, which is not ahead of the counter it was
  loaded from (`Knows`). The last is the core: an exchange that succeeds with a tick less than
  a lap old has the current index (`SlotSame`), so the winner of a slot has seen
  `head_` at it, no other store of `head_` is on its way, and the
  next slot cannot be won before the store is seen (`ClaimFacts`). The arithmetic of
  the ring is in lemmas of its own (`SlotSame`, `SlotSucc`, `SlotDistance`).
- The proof changed `Capacity`: with a `max_size_` of 0 the number of elements is not
  below `max_size_`, it is 0.

**UnicodeStringViewProofs** (any number of views, any texts)

- `TagAlwaysMatches`, `AlwaysHoldsAssigned`, `LeaksOnlyByBlank`: `Spec => []P` for the
  three properties, which with `TypeOK` are inductive together: a text is where the tag
  says only because every way to make an object (`FreshObject`, `DeallocateObject`,
  `ReplaceObject`, `WriteObject`) sets both, and a leak is told from a plain destruction only
  by a tag that matches. `BecomesKeepsInv` turns such an object into the next state, and
  `StepInv` has a step per operation.
- `OrderIsTotal`: `Spec => []OrderConsistent`, from the tags: a living view of an encoding
  holds a text of it, or is Unkown, where every comparison answers the same.

**WorkerManagerProofs** (any runners and groups, any numbers of workers and of resizes)

- `Invariant`: `Spec => []Inv`, and from it `SizesAreSafe`, `PointersHold` and `OnePlaceEach`:
  `Spec => []P` for `SafeSizes`, `WorkerPointer` and `OnePlace`. None of the three is
  inductive: Balance works for many steps with what it found under one lock after another.
- `Inv` says of the numbers, for each step of Balance, how `i`, `target`, `size_`, `count` and
  `index_` lie to each other (`Sized`, `Indexed`), and that a shrink to one worker has as
  many workers left to reduce as it will empty (`Reduced`). Of the groups: the lists of
  all workers and what Balance holds are one function from `Sites` to lists, in which no
  runner is in two groups (`Apart`); a bound runner is in one of the lists or was dropped,
  one that is not bound yet is in none (`Lives`); a runner has a `worker_` from the moment a
  worker was picked, and the group Balance is about to repoint is with `index_` (`Pointed`).
- The argument: almost every step changes two lists at most, and `Transfer` says that two
  lists which exchange runners, receive fresh ones or lose some keep all of them apart,
  and who is in a list afterwards (`Exchange`). The exceptions are stated the same way:
  Deal drops what is beyond the rounded-down share. What the operators do to a
  list of groups (`RemoveFirst`, `FlattenSeq`, `\o`, `SubSeq`, a permutation) is in lemmas
  about `RunnersOf` and `GroupList`. `Places` counts: a runner that is somewhere is at one
  `PlacesOf`, one that is not at none.
- `GroupsKept`: `Spec => []Kept`, a second invariant on top of `Inv`, with `SubsStay` and
  `RemovedAreGone`: `Spec => []P` for `SubStaysOnFather` and `RemovedIsGone`. `Kept` is about the inside
  of groups: none holds a runner twice (`Solid`); a removed runner is in none, or slipped or was
  missed (`Gone`); no worker beyond the last one created has a group (`Beyond`); only runners that
  cannot be scheduled become sub-runners (`Kinds`). With it goes `UnBinds` (`UnBindsHold`): a
  removal that found its sub-runner in neither list has one of the two causes noted, so no
  third way out of `RemovedIsGone` exists, and a runner is removed before its father's flag is
  cleared. The argument: a step moves whole groups, appends to one or erases from one. Moves
  keep `Above` as it is, appending puts the new runner above its father, and erasing changes
  it only for the runners above the erased one, which are then `orphaned`. Between the two
  searches of an `UnBind` nothing is known of the runner but that it was not in the first list:
  the second search erases it (`KeptErase`) or leaves it where it is and says why (`KeptMiss`).
- `SpecificsPacked`: `Spec => []Packed`, the third, on top of both, and `SpecificsFollowRunner`:
  `Spec => []SpecificsFollow`. For every runner without a group that is neither `again` nor `wiped`
  one of three holds (`Carried`): its entry is in one map and no message is about it (`Resting`),
  one take is queued at the worker that has the entry (`Leaving`), or one put is queued and no map
  has the entry (`Coming`); and the worker of the entry, or the end of its way, is `worker_`
  unless a growth moved the runner. Counting entries and puts is not enough: a take that is still
  queued is about to make one of them the other. Running a message turns one case into the next,
  and every other step leaves the messages and entries of a runner alone (`PackedFrame`)
  or sends one message about a runner at rest (`Sends`, `PackedMoves`). `JoinQueues`, `PopQueue` and
  `FlattenOnce` say how often something is in a queue.
- The proofs changed the wording of the model in places, not its states: `Without` is
  `RemoveFirst`, as `UnBind` erases the first occurrence and stops. They also changed two
  properties, which held with one sub-runner and were false with two: see `orphaned`,
  `cleared` and `slipped` in section 3.

Only model-checked:

- liveness (`EventuallyReturned`, `PostedRuns`, `TerminateExits`, `StartedRuns`,
  `ForcedPushEnds`, `ResumesAfterRemove`, `SpecificsArrive`, `BoundIsScheduled`), which is
  out of the prover's reach.

## 5. Plan

In this order:

1. **ThreadPool**: threads, the condition variable, Enqueue and the joining destructor.
2. **Base64** as operators checked against the round trip.

## 6. What is not modelled and why

- Looper workers: their waiting is the platform's (ALooper, CFRunLoop).
- `mpmc_list`: the template does not compile when instantiated (it uses explicit
  constructors of `tagged` implicitly) and nothing instantiates it.
- `thread_safe_queue`: a `std::queue` under one mutex, each operation one section.
- The unit conversions of TimeDelta, the text of log messages, the hash of a
  `unicode_string_view`: pure code or I/O with no state.
- The arrays of keys in the specifics: the functions that should change them change
  a copy. `WorkerDestroySpecifics` and the destructor of a worker.
- `Worker::Retain`, `Worker::ReleasePending`: never called.
- `PopTask` and `GetTopDelayTask` are private and never called;
  `GetNextTimeDelta` and `min_wait_time_` only feed a wait that is never reached.
- Weak memory beyond the acquire/release pairs and the store buffers of MpmcQueue, and what a program does after
  undefined behaviour.
- Overflow of `priority * time` in the sort key: the running times are small
  numbers here.
