------------------------------- MODULE Worker -------------------------------
(***************************************************************************)
(* One Worker run by a thread (src/footstone/worker.cc and                 *)
(* thread_worker.cc): RunLoop, RunTask and GetNextTask on the worker's own *)
(* thread, against Bind, UnBind, AddImmediateTask, Terminate and the posts *)
(* of other threads.                                                       *)
(*                                                                         *)
(* A call of TaskRunner::GetNext is one step here: module TaskRunner is    *)
(* about its inside.  Of a runner's queues only the number of tasks counts.*)
(* need_balance_, is_terminated_ and the scan of running_groups_ are not   *)
(* under a lock in the code, so each access is a step of its own.          *)
(***************************************************************************)
EXTENDS Naturals, Sequences, FiniteSets, Functions, SequencesExt

CONSTANTS Runners,
          Removable,     \* the runners a client may remove
          Clients,       \* threads that call the worker
          Priority,      \* TaskRunner::priority_
          Costs,         \* possible running times of a task
          ExitModes,     \* possible values of is_exit_immediately_
          MaxPosts,      \* bound on PostTask calls
          MaxIdle,       \* bound on PostIdleTask calls
          MaxImmediate,  \* bound on AddImmediateTask calls
          NoRunner       \* the null shared_ptr<TaskRunner>

ASSUME RemovableAssumption == Removable \subseteq Runners
ASSUME PriorityAssumption == Priority \in [Runners -> Nat]
ASSUME CostsAssumption == Costs \subseteq Nat /\ Costs # {}
ASSUME ExitModesAssumption == ExitModes \subseteq BOOLEAN
ASSUME NoRunnerAssumption == NoRunner \notin Runners
ASSUME BoundsAssumption ==
  MaxPosts \in Nat /\ MaxIdle \in Nat /\ MaxImmediate \in Nat

VARIABLES
  running_groups, pending_groups,  \* std::list of groups, front first
  need_balance, is_terminated, is_exit_immediately,
  immediate_task_queue,            \* number of immediate tasks
  time,                            \* TaskRunner::time_
  tasks, idles,                    \* number of tasks, idle tasks per runner
  curr_group, local_runner,        \* thread_local variables of the worker
  pc,                              \* where the worker thread is
  scan,                            \* position of the loop over the groups
  idle_task,                       \* the loop holds an idle task
  op,                              \* per client: the call it is in
  status,                          \* "ok", "aborted" (CHECK) or "undefined"
  \* Bounds and history.
  posts, idlePosts, immediates,    \* calls so far
  life,                            \* per runner: "new", "bound", "removed"
  overwritten,   \* runners whose need_balance_ = true the worker overwrote
  missed,        \* runners a Balance carried past an UnBind of them
  dry,           \* some runner was once found without a task
  empty,         \* runners found without a task by the current scan
  owed,          \* runners with tasks queued when Terminate was called
  late           \* tasks started since Terminate was called

shared == <<running_groups, pending_groups, need_balance, is_terminated,
            immediate_task_queue, tasks, idles>>
thread == <<pc, scan, idle_task, curr_group, local_runner>>
bounds == <<posts, idlePosts, immediates>>
history == <<overwritten, missed, dry, empty, owed, late>>
vars == <<shared, is_exit_immediately, time, thread, op, status, bounds, life,
          history>>

NoCall == [call |-> "none", runner |-> NoRunner]
Call(name, r) == [call |-> name, runner |-> r]

\* The runners of a list of groups.
RunnersOf(groups) == UNION {Range(groups[i]) : i \in DOMAIN groups}

Init ==
  /\ running_groups = <<>> /\ pending_groups = <<>>
  /\ need_balance = FALSE
  /\ is_terminated = FALSE
  /\ is_exit_immediately \in ExitModes
  /\ immediate_task_queue = 0
  /\ time = [r \in Runners |-> 0]
  /\ tasks = [r \in Runners |-> 0]
  /\ idles = [r \in Runners |-> 0]
  /\ curr_group = <<>> /\ local_runner = NoRunner
  /\ pc = "start" /\ scan = 1 /\ idle_task = FALSE
  /\ op = [c \in Clients |-> NoCall]
  /\ status = "ok"
  /\ posts = 0 /\ idlePosts = 0 /\ immediates = 0
  /\ life = [r \in Runners |-> "new"]
  /\ overwritten = {} /\ missed = {} /\ dry = FALSE /\ empty = {}
  /\ owed = {} /\ late = 0

-----------------------------------------------------------------------------
(* The worker thread. *)

At(p) == status = "ok" /\ pc = p

\* Run: a worker terminated before its thread got here does nothing.
Run ==
  /\ At("start")
  /\ pc' = IF is_terminated THEN "exited" ELSE "loop"
  /\ UNCHANGED <<shared, is_exit_immediately, time, scan, idle_task,
                 curr_group, local_runner, op, status, bounds, life, history>>

\* The head of the loop in RunLoop: while (!is_terminated_) when the worker
\* exits immediately, while (RunTask()) otherwise.
RunLoop ==
  /\ At("loop")
  /\ pc' = IF is_exit_immediately /\ is_terminated THEN "exited" ELSE "next"
  /\ UNCHANGED <<shared, is_exit_immediately, time, scan, idle_task,
                 curr_group, local_runner, op, status, bounds, life, history>>

(* SortNoLock: list::sort is stable; a group's key is that of its first    *)
(* runner.                                                                 *)
SortKey(g) == Priority[Head(g)] * time[Head(g)]

RankM(gs, i) ==  \* mutant: the comparison reversed
  Cardinality({j \in DOMAIN gs :
                 \/ SortKey(gs[j]) > SortKey(gs[i])
                 \/ SortKey(gs[j]) = SortKey(gs[i]) /\ j <= i})

Rank(gs, i) ==
  Cardinality({j \in DOMAIN gs :
                 \/ SortKey(gs[j]) < SortKey(gs[i])
                 \/ SortKey(gs[j]) = SortKey(gs[i]) /\ j <= i})

Sorted(gs) ==
  [k \in DOMAIN gs |-> gs[CHOOSE i \in DOMAIN gs : Rank(gs, i) = k]]

\* Only a list of two groups or more is sorted, and every group is compared.
SortAborts == Len(running_groups) > 1 /\ <<>> \in Range(running_groups)

\* A task starts.  The history counts the ones after Terminate, in a worker
\* that should exit at once.
Started ==
  late' = IF is_terminated /\ is_exit_immediately THEN late + 1 ELSE late

\* First section of GetNextTask, under running_mutex_: an immediate task, or
\* the sort, whose CHECK aborts when a group is empty.
GetNextTask ==
  /\ At("next")
  /\ \/ /\ immediate_task_queue > 0
        /\ immediate_task_queue' = immediate_task_queue - 1
        /\ pc' = "immediate"
        /\ Started
        /\ UNCHANGED <<running_groups, status, empty>>
     \/ /\ immediate_task_queue = 0
        /\ SortAborts
        /\ status' = "aborted"
        /\ UNCHANGED <<running_groups, immediate_task_queue, pc, late, empty>>
     \/ /\ immediate_task_queue = 0
        /\ ~SortAborts
        /\ running_groups' = IF Len(running_groups) > 1
                               THEN Sorted(running_groups) ELSE running_groups
        /\ pc' = "flag"
        /\ empty' = {}
        /\ UNCHANGED <<immediate_task_queue, status, late>>
  /\ UNCHANGED <<pending_groups, need_balance, is_terminated, tasks, idles,
                 is_exit_immediately, time, scan, idle_task, curr_group,
                 local_runner, op, bounds, life, overwritten, missed, dry,
                 owed>>

\* if (need_balance_), read without a lock.
ReadNeedBalance ==
  /\ At("flag")
  /\ pc' = IF need_balance THEN "balance" ELSE "scan"
  /\ UNCHANGED <<shared, is_exit_immediately, time, scan, idle_task,
                 curr_group, local_runner, op, status, bounds, life, history>>

\* The runners an UnBind has looked for in running_groups_ only, so far.
HalfUnbound == {op[c].runner : c \in {d \in Clients : op[d].call = "unbind2"}}

BalanceNoLockM(t) ==  \* mutant: copies the pending groups, keeps them pending
  /\ time' = [r \in Runners |->
                IF r \in RunnersOf(pending_groups) THEN t ELSE time[r]]
  /\ running_groups' = pending_groups \o running_groups
  /\ UNCHANGED pending_groups

\* BalanceNoLock: the pending runners start with the time of the first running
\* group's first runner, and their groups go before it.
BalanceNoLock(t) ==
  /\ time' = [r \in Runners |->
                IF r \in RunnersOf(pending_groups) THEN t ELSE time[r]]
  /\ running_groups' = pending_groups \o running_groups
  /\ pending_groups' = <<>>

FrontEmpty == running_groups # <<>> /\ Head(running_groups) = <<>>

\* The section of GetNextTask under both mutexes.
Balance ==
  /\ At("balance")
  /\ \/ /\ pending_groups = <<>>
        /\ pc' = "clear"
        /\ UNCHANGED <<running_groups, pending_groups, time, status, missed>>
     \/ /\ pending_groups # <<>>
        /\ FrontEmpty
        /\ status' = "undefined"  \* front() of an empty vector
        /\ UNCHANGED <<running_groups, pending_groups, time, pc, missed>>
     \/ /\ pending_groups # <<>>
        /\ ~FrontEmpty
        /\ BalanceNoLock(IF running_groups = <<>> THEN 0
                         ELSE time[Head(Head(running_groups))])
        /\ missed' = missed \union
                       (HalfUnbound \intersect RunnersOf(pending_groups))
        /\ pc' = "clear"
        /\ UNCHANGED status
  /\ UNCHANGED <<need_balance, is_terminated, immediate_task_queue, tasks,
                 idles, is_exit_immediately, scan, idle_task, curr_group,
                 local_runner, op, bounds, life, overwritten, dry, empty,
                 owed, late>>

\* need_balance_ = false, after the mutexes were released.
ClearNeedBalance ==
  /\ At("clear")
  /\ need_balance' = FALSE
  /\ pc' = "scan"
  /\ UNCHANGED <<running_groups, pending_groups, is_terminated,
                 immediate_task_queue, tasks, idles, is_exit_immediately, time,
                 scan, idle_task, curr_group, local_runner, op, status, bounds,
                 life, history>>

\* One turn of the loop over running_groups_, without running_mutex_: the
\* runner on top of the group is asked for a task.
ScanTask(g) ==
  LET r == Last(g) IN
  /\ tasks[r] > 0
  /\ tasks' = [tasks EXCEPT ![r] = @ - 1]
  /\ owed' = IF tasks[r] = 1 THEN owed \ {r} ELSE owed
  /\ curr_group' = g
  /\ local_runner' = r
  /\ Started
  /\ idle_task' = FALSE  \* an idle task popped before is destroyed
  /\ scan' = 1
  /\ pc' = "run"
  /\ empty' = {}
  /\ UNCHANGED <<idles, dry>>

\* No task: the first runner of the group gives an idle task, if none is held.
ScanIdle(g) ==
  LET f == Head(g) IN
  /\ tasks[Last(g)] = 0
  /\ dry' = TRUE
  /\ empty' = empty \union {Last(g)}
  /\ IF ~idle_task /\ idles[f] > 0
       THEN idle_task' = TRUE /\ idles' = [idles EXCEPT ![f] = @ - 1]
       ELSE UNCHANGED <<idle_task, idles>>
  /\ scan' = scan + 1
  /\ UNCHANGED <<tasks, owed, curr_group, local_runner, late, pc>>

Scan ==
  /\ At("scan")
  /\ scan <= Len(running_groups)
  /\ \/ /\ running_groups[scan] = <<>>
        /\ status' = "undefined"  \* back() of an empty vector
        /\ UNCHANGED <<tasks, idles, thread, dry, empty, owed, late>>
     \/ /\ running_groups[scan] # <<>>
        /\ ScanTask(running_groups[scan]) \/ ScanIdle(running_groups[scan])
        /\ UNCHANGED status
  /\ UNCHANGED <<running_groups, pending_groups, need_balance, is_terminated,
                 immediate_task_queue, is_exit_immediately, time, op, bounds,
                 life, overwritten, missed>>

ScanEndM ==  \* mutant: the loop stops before the last group
  /\ At("scan")
  /\ scan >= Len(running_groups)
  /\ pc' = "null"
  /\ idle_task' = FALSE
  /\ scan' = 1
  /\ UNCHANGED <<shared, is_exit_immediately, time, curr_group,
                 local_runner, op, status, bounds, life, history>>

\* The rest of GetNextTask, when no runner had a task.  While the worker is not
\* terminated it returns null at once and the idle task it holds is destroyed;
\* afterwards it runs the idle task, or WaitFor returns at once.
ScanEnd ==
  /\ At("scan")
  /\ scan > Len(running_groups)
  /\ pc' = IF is_terminated /\ idle_task THEN "idle" ELSE "null"
  /\ idle_task' = FALSE
  /\ scan' = 1
  /\ IF is_terminated /\ idle_task THEN Started ELSE UNCHANGED late
  /\ UNCHANGED <<shared, is_exit_immediately, time, curr_group,
                 local_runner, op, status, bounds, life, overwritten, missed,
                 dry, empty, owed>>

\* RunTask with a task: it runs for some time, and that is charged to every
\* runner of curr_group, which an immediate or idle task has not changed.
RunTask ==
  /\ status = "ok" /\ pc \in {"run", "immediate", "idle"}
  /\ \E cost \in Costs :
       time' = [r \in Runners |->
                  IF r \in Range(curr_group) THEN time[r] + cost ELSE time[r]]
  /\ pc' = "loop"
  /\ UNCHANGED <<shared, is_exit_immediately, scan, idle_task, curr_group,
                 local_runner, op, status, bounds, life, history>>

RunTaskNullM2 ==  \* mutant: true is returned whatever happened
  /\ At("null")
  /\ pc' = "loop"
  /\ UNCHANGED <<shared, is_exit_immediately, time, scan, idle_task,
                 curr_group, local_runner, op, status, bounds, life, history>>

RunTaskNullM ==  \* mutant: a drained worker exits although not terminated
  /\ At("null")
  /\ pc' = IF ~is_exit_immediately THEN "exited" ELSE "loop"
  /\ UNCHANGED <<shared, is_exit_immediately, time, scan, idle_task,
                 curr_group, local_runner, op, status, bounds, life, history>>

\* RunTask without a task: it returns false when the worker is terminated by
\* now, which ends the loop of a worker that does not exit immediately.
RunTaskNull ==
  /\ At("null")
  /\ pc' = IF is_terminated /\ ~is_exit_immediately THEN "exited" ELSE "loop"
  /\ UNCHANGED <<shared, is_exit_immediately, time, scan, idle_task,
                 curr_group, local_runner, op, status, bounds, life, history>>

-----------------------------------------------------------------------------
(* The other threads. *)

Idle(c) == status = "ok" /\ op[c] = NoCall
In(c, name) == status = "ok" /\ op[c].call = name

\* Bind of a group with one new runner: the section under pending_mutex_ ...
Bind(c, r) ==
  /\ Idle(c) /\ life[r] = "new"
  /\ pending_groups' = Append(pending_groups, <<r>>)
  /\ op' = [op EXCEPT ![c] = Call("bind2", r)]
  /\ life' = [life EXCEPT ![r] = "bound"]
  /\ UNCHANGED <<running_groups, need_balance, is_terminated,
                 immediate_task_queue, tasks, idles, is_exit_immediately, time,
                 thread, status, bounds, history>>

BindFlagM(c) ==  \* mutant: the flag is not set
  /\ In(c, "bind2")
  /\ op' = [op EXCEPT ![c] = NoCall]
  /\ UNCHANGED <<shared, is_exit_immediately, time, thread, status, bounds,
                 life, history>>

\* ... and need_balance_ = true after it.
BindFlag(c) ==
  /\ In(c, "bind2")
  /\ need_balance' = TRUE
  /\ overwritten' = overwritten \union
                      (IF pc = "clear" THEN {op[c].runner} ELSE {})
  /\ op' = [op EXCEPT ![c] = NoCall]
  /\ UNCHANGED <<running_groups, pending_groups, is_terminated,
                 immediate_task_queue, tasks, idles, is_exit_immediately, time,
                 thread, status, bounds, life, missed, dry, empty, owed, late>>

\* The client has the runner once the call that bound it has returned.
Usable(r) == life[r] = "bound" /\ \A c \in Clients : op[c].runner # r

PostTask(r) ==
  /\ status = "ok" /\ Usable(r)
  /\ posts < MaxPosts /\ posts' = posts + 1  \* bound
  /\ tasks' = [tasks EXCEPT ![r] = @ + 1]
  /\ UNCHANGED <<running_groups, pending_groups, need_balance, is_terminated,
                 immediate_task_queue, idles, is_exit_immediately, time,
                 thread, op, status, idlePosts, immediates, life, history>>

PostIdleTask(r) ==
  /\ status = "ok" /\ Usable(r)
  /\ idlePosts < MaxIdle /\ idlePosts' = idlePosts + 1  \* bound
  /\ idles' = [idles EXCEPT ![r] = @ + 1]
  /\ UNCHANGED <<running_groups, pending_groups, need_balance, is_terminated,
                 immediate_task_queue, tasks, is_exit_immediately, time,
                 thread, op, status, posts, immediates, life, history>>

AddImmediateTask ==
  /\ status = "ok"
  /\ immediates < MaxImmediate /\ immediates' = immediates + 1  \* bound
  /\ immediate_task_queue' = immediate_task_queue + 1
  /\ UNCHANGED <<running_groups, pending_groups, need_balance, is_terminated,
                 tasks, idles, is_exit_immediately, time, thread, op, status,
                 posts, idlePosts, life, history>>

\* Erase the runner from its group, which stays in the list.
Without(groups, r) == [i \in DOMAIN groups |-> RemoveFirst(groups[i], r)]

\* UnBind(runner): first the section under running_mutex_ ...
UnBind(c, r) ==
  /\ Idle(c) /\ Usable(r) /\ r \in Removable
  /\ life' = [life EXCEPT ![r] = "removed"]
  /\ IF r \in RunnersOf(running_groups)
       THEN /\ running_groups' = Without(running_groups, r)
            /\ UNCHANGED op
       ELSE /\ op' = [op EXCEPT ![c] = Call("unbind2", r)]
            /\ UNCHANGED running_groups
  /\ UNCHANGED <<pending_groups, need_balance, is_terminated,
                 immediate_task_queue, tasks, idles, is_exit_immediately, time,
                 thread, status, bounds, history>>

UnBindPendingM(c) ==  \* mutant: the second search is left out
  /\ In(c, "unbind2")
  /\ op' = [op EXCEPT ![c] = NoCall]
  /\ UNCHANGED <<shared, is_exit_immediately, time, thread, status, bounds,
                 life, history>>

\* ... then, when it was not there, the one under pending_mutex_.
UnBindPending(c) ==
  /\ In(c, "unbind2")
  /\ pending_groups' = Without(pending_groups, op[c].runner)
  /\ op' = [op EXCEPT ![c] = NoCall]
  /\ UNCHANGED <<running_groups, need_balance, is_terminated,
                 immediate_task_queue, tasks, idles, is_exit_immediately, time,
                 thread, status, bounds, life, history>>

\* The erase and the unlocked scan touch the same group at the same time.
ScanRace(c, r) ==
  /\ Idle(c) /\ Usable(r) /\ r \in Removable
  /\ At("scan") /\ scan <= Len(running_groups)
  /\ r \in Range(running_groups[scan])
  /\ status' = "undefined"
  /\ UNCHANGED <<shared, is_exit_immediately, time, thread, op, bounds, life,
                 history>>

\* TerminateWorker: the first caller sets the flag, then joins the thread; a
\* later one returns at once.
Terminate(c) ==
  /\ Idle(c)
  /\ ~is_terminated
  /\ is_terminated' = TRUE
  /\ owed' = {r \in Runners : /\ ~is_exit_immediately
                              /\ Usable(r) /\ tasks[r] > 0}
  /\ op' = [op EXCEPT ![c] = Call("join", NoRunner)]
  /\ UNCHANGED <<running_groups, pending_groups, need_balance,
                 immediate_task_queue, tasks, idles, is_exit_immediately, time,
                 thread, status, bounds, life, overwritten, missed, dry, empty,
                 late>>

Join(c) ==
  /\ In(c, "join")
  /\ pc = "exited"
  /\ op' = [op EXCEPT ![c] = NoCall]
  /\ UNCHANGED <<shared, is_exit_immediately, time, thread, status, bounds,
                 life, history>>

-----------------------------------------------------------------------------
WorkerStep ==
  \/ Run \/ RunLoop \/ GetNextTask \/ ReadNeedBalance \/ Balance
  \/ ClearNeedBalance \/ Scan \/ ScanEnd \/ RunTask \/ RunTaskNull

ClientStep(c) ==
  \/ BindFlag(c) \/ UnBindPending(c) \/ Join(c) \/ Terminate(c)
  \/ \E r \in Runners : Bind(c, r) \/ UnBind(c, r) \/ ScanRace(c, r)

Post ==
  \/ \E r \in Runners : PostTask(r) \/ PostIdleTask(r)
  \/ AddImmediateTask

\* The program has ended: joined, aborted, or nothing is known of it.
Ended ==
  /\ status # "ok" \/ (pc = "exited" /\ \A c \in Clients : op[c] = NoCall)
  /\ UNCHANGED vars

Next == WorkerStep \/ (\E c \in Clients : ClientStep(c)) \/ Post \/ Ended

\* The thread of the worker runs, and a call that has begun goes on.
Fairness ==
  /\ WF_vars(WorkerStep)
  /\ \A c \in Clients : WF_vars(op[c] # NoCall /\ ClientStep(c))

Spec == Init /\ [][Next]_vars /\ Fairness

-----------------------------------------------------------------------------
(* Properties. *)

\* Every variable has its type.
TypeOK ==
  /\ running_groups \in Seq(Seq(Runners))
  /\ pending_groups \in Seq(Seq(Runners))
  /\ need_balance \in BOOLEAN /\ is_terminated \in BOOLEAN
  /\ is_exit_immediately \in ExitModes
  /\ immediate_task_queue \in 0..MaxImmediate
  /\ time \in [Runners -> Nat]
  /\ tasks \in [Runners -> 0..MaxPosts]
  /\ idles \in [Runners -> 0..MaxIdle]
  /\ curr_group \in Seq(Runners)
  /\ local_runner \in Runners \union {NoRunner}
  /\ pc \in {"start", "loop", "next", "flag", "balance", "clear", "scan",
             "run", "immediate", "idle", "null", "exited"}
  /\ scan \in Nat /\ idle_task \in BOOLEAN
  /\ op \in [Clients -> [call : {"none", "bind2", "unbind2", "join"},
                         runner : Runners \union {NoRunner}]]
  /\ status \in {"ok", "aborted", "undefined"}
  /\ posts \in 0..MaxPosts /\ idlePosts \in 0..MaxIdle
  /\ immediates \in 0..MaxImmediate
  /\ life \in [Runners -> {"new", "bound", "removed"}]
  /\ overwritten \subseteq Runners /\ missed \subseteq Runners
  /\ dry \in BOOLEAN /\ empty \subseteq Runners
  /\ owed \subseteq Runners /\ late \in Nat

\* Where a runner is: the pairs of a list and a position in it.
PlacesOf(r) ==
  {p \in {"running", "pending"} \X (1..(Len(running_groups)
                                         + Len(pending_groups))) :
     \/ /\ p[1] = "running" /\ p[2] \in DOMAIN running_groups
        /\ r \in Range(running_groups[p[2]])
     \/ /\ p[1] = "pending" /\ p[2] \in DOMAIN pending_groups
        /\ r \in Range(pending_groups[p[2]])}

\* A bound runner is in exactly one group of exactly one list, through every
\* sort, every splice and the removal of other runners, and every variable
\* keeps its type.
BoundOnce ==
  /\ TypeOK
  /\ \A r \in Runners :
       life[r] = "bound" => Cardinality(PlacesOf(r)) = 1

\* A group waits in pending_groups_ without need_balance_ being set only while
\* its Bind is between its two steps, or when the worker's store of false
\* came after that Bind's store of true and overwrote it.
BalanceWakeup ==
  \A r \in RunnersOf(pending_groups) :
    \/ need_balance
    \/ r \in overwritten
    \/ \E c \in Clients : op[c].runner = r

\* A runner whose UnBind has returned is in no group, unless a balance moved
\* it from one list to the other between the two searches.
RemovedIsGone ==
  \A r \in Runners :
    (life[r] = "removed" /\ \A c \in Clients : op[c].runner # r)
      => PlacesOf(r) = {} \/ r \in missed

\* What the code keeps of worker.h:70 in a worker that exits immediately.  The
\* comment there says that queued tasks are no longer executed; that does not
\* hold (late reaches 1): RunLoop reads is_terminated_ before RunTask, and the
\* GetNextTask that follows, or is in progress, still takes a queued task and
\* runs it.  It is the only one, of whatever kind.
AtMostOneAfterTerminate == is_exit_immediately => late <= 1

MaxCost == CHOOSE m \in Costs : \A c \in Costs : c <= m

\* All the runners bound so far have the same priority, and it is not 0: with 0
\* the time a runner has used does not count in the sort.
OnePriority ==
  \A r, s \in Runners : (life[r] # "new" /\ life[s] # "new")
                         => Priority[r] = Priority[s] /\ Priority[r] > 0

\* Runners of equal priority share the worker: as long as each has had a task
\* whenever it was asked, no two are further apart than one task, whenever
\* they were bound; each immediate task may add its own cost to one of them.
\* Among runners of another priority that does not hold: a new runner starts
\* with the time of the first one, whatever the priority of that is.
FairShare ==
  LET active == RunnersOf(running_groups) IN
  (~dry /\ status = "ok" /\ OnePriority)
    => \A r, s \in active : time[r] <= time[s] + MaxCost * (1 + immediates)

\* A worker that drains its queues exits only after one whole scan found every
\* running runner without a task.
ExitAfterFullScan ==
  (pc = "exited" /\ ~is_exit_immediately)
    => RunnersOf(running_groups) \subseteq empty

\* After Terminate a worker of either mode neither goes on for longer than one
\* task nor stops before a whole scan.  Both are weaker than worker.h:70, which
\* promises no task in the one mode and no queued task left in the other
\* (DrainedOnExit).
TerminateDiscipline == AtMostOneAfterTerminate /\ ExitAfterFullScan

\* A posted task runs, unless the worker is terminated, its runner removed or
\* its Bind overwritten, or the program has failed.
PostedRuns ==
  \A r \in Runners :
    tasks[r] > 0 ~> \/ tasks[r] = 0 \/ is_terminated \/ status # "ok"
                    \/ life[r] = "removed" \/ r \in overwritten

\* After Terminate the worker's thread ends, so that the join returns, in both
\* exit modes.
TerminateExits == is_terminated ~> (pc = "exited" \/ status # "ok")

\* TDF_BASE_CHECK(!lhs.empty() && !rhs.empty()) of SortNoLock never fails.
SortCheckHolds == status # "aborted"

\* What worker.h says of is_exit_immediately_ = false: the tasks queued when
\* Terminate is called are run before the worker exits.
DrainedOnExit == (pc = "exited" /\ ~is_exit_immediately) => owed = {}

=============================================================================
