------------------------------ MODULE Stacking ------------------------------
(***************************************************************************)
(* Sub-runners: TaskRunner::AddSubTaskRunner(sub, true) pushes the sub on  *)
(* its father's group and runs tasks inside the calling task, until        *)
(* RemoveSubTaskRunner (src/footstone/task_runner.cc).  The thread of the  *)
(* worker then has several tasks on its stack, while is_task_running,      *)
(* local_runner and curr_group exist once (src/footstone/worker.cc).       *)
(*                                                                         *)
(* The order of running_groups_ depends on running times that are not      *)
(* modelled: every group may come first.  A sub-runner that is not         *)
(* schedulable has no worker_ and no group of its own; one that is has     *)
(* both, so that AddSubTaskRunner makes it a member of a second group.     *)
(***************************************************************************)
EXTENDS Integers, Sequences, Functions, SequencesExt

CONSTANTS Runners,
          Loose,      \* the runners that are not schedulable
          NoRunner,   \* an empty shared_ptr<TaskRunner>
          MaxPosts,   \* bound on posted tasks
          MaxSubs     \* bound on calls of AddSubTaskRunner

ASSUME LooseAssumption == Loose \subseteq Runners /\ NoRunner \notin Runners
ASSUME BoundsAssumption == MaxPosts \in Nat /\ MaxSubs \in Nat

VARIABLES
  groups,           \* running_groups_, one per runner with a group of its own
  tasks,            \* the number of tasks in each runner's queue
  has_sub_runner,   \* TaskRunner::has_sub_runner_
  is_terminated,
  \* The thread: the tasks it is inside of, and its thread_local variables.
  stack, is_task_running, local_runner, curr_group,
  pc,               \* where the outermost loop is
  clearing,         \* the father whose flag another thread is about to clear
  status, posts, subs,
  doubled,          \* history: runners added while in a group already
  stranded          \* history: subs whose father went on, or ended, with them there

locals == <<is_task_running, local_runner, curr_group>>
vars == <<groups, tasks, has_sub_runner, is_terminated, stack, locals, pc,
          clearing, status, posts, subs, doubled, stranded>>

\* A task on the stack: its runner, where it is, and, for the history, the sub
\* it waits for and whether another task has run inside of it.
Frame(r) == [runner |-> r, at |-> "run", sub |-> NoRunner, disturbed |-> FALSE]

Init ==
  /\ groups = [r \in Runners \ Loose |-> <<r>>]
  /\ tasks = [r \in Runners |-> 0]
  /\ has_sub_runner = [r \in Runners |-> FALSE]
  /\ is_terminated = FALSE
  /\ stack = <<>>
  /\ is_task_running = FALSE /\ local_runner = NoRunner /\ curr_group = <<>>
  /\ pc = "loop" /\ clearing = NoRunner /\ status = "ok"
  /\ posts = 0 /\ subs = 0 /\ doubled = {} /\ stranded = {}

Ok == status = "ok"
Fail(why) ==
  /\ status' = why
  /\ UNCHANGED <<groups, tasks, has_sub_runner, is_terminated, stack, locals,
                 pc, clearing, posts, subs, doubled, stranded>>

Depth == Len(stack)
InTask == stack # <<>> /\ stack[Depth].at = "run"
Top == stack[Depth]

-----------------------------------------------------------------------------
(* RunTask, from the outermost loop and from AddSubTaskRunner.             *)

LoopTestM ==  \* mutant: the loop of RunTask() results, which are not looked at
  /\ Ok /\ pc = "loop" /\ stack = <<>>
  /\ pc' = "task"
  /\ UNCHANGED <<groups, tasks, has_sub_runner, is_terminated, stack, locals,
                 clearing, status, posts, subs, doubled, stranded>>

\* The loop goes on to RunTask: RunLoop of a worker that exits immediately ...
LoopTest ==
  /\ Ok /\ pc = "loop" /\ stack = <<>>
  /\ pc' = IF is_terminated THEN "exited" ELSE "task"
  /\ UNCHANGED <<groups, tasks, has_sub_runner, is_terminated, stack, locals,
                 clearing, status, posts, subs, doubled, stranded>>

NestedTestM ==  \* mutant: the stacking mode is tested, which nobody resets
  /\ Ok /\ stack # <<>> /\ Top.at = "nested"
  /\ stack' = [stack EXCEPT ![Depth].at = "task"]
  /\ UNCHANGED <<groups, tasks, has_sub_runner, is_terminated, locals, pc,
                 clearing, status, posts, subs, doubled, stranded>>

\* ... and while (has_sub_runner_), which does not look at is_terminated_.
NestedTest ==
  /\ Ok /\ stack # <<>> /\ Top.at = "nested"
  /\ stack' = [stack EXCEPT ![Depth].at =
                 IF has_sub_runner[Top.runner] THEN "task" ELSE "run"]
  /\ UNCHANGED <<groups, tasks, has_sub_runner, is_terminated, locals, pc,
                 clearing, status, posts, subs, doubled, stranded>>

AtRunTask == IF stack = <<>> THEN pc = "task" ELSE Top.at = "task"

\* RunTask returns to the loop it was called from.
BackToLoop(frames) ==
  IF frames = <<>> THEN frames
  ELSE [frames EXCEPT ![Len(frames)].at = "nested"]

\* The frames under a task that begins: the outermost one has been disturbed.
Disturbed(frames) ==
  IF frames = <<>> THEN frames
  ELSE [BackToLoop(frames) EXCEPT ![Len(frames)].disturbed = TRUE]

NextRunnerM(g) == groups[g][1]  \* mutant: front(), the bottom of the stack

\* running_group.back(): the top of a group keeps the ones below from running.
NextRunner(g) == Last(groups[g])

StartTaskM(g) ==  \* mutant: local_runner is not set
  /\ tasks' = [tasks EXCEPT ![NextRunner(g)] = @ - 1]
  /\ curr_group' = groups[g] /\ is_task_running' = TRUE
  /\ stack' = Append(Disturbed(stack), Frame(NextRunner(g)))
  /\ UNCHANGED local_runner

\* GetNextTask finds a task in group g, and RunTask starts it.
StartTask(g) ==
  LET r == NextRunner(g) IN
  /\ tasks' = [tasks EXCEPT ![r] = @ - 1]
  /\ curr_group' = groups[g] /\ local_runner' = r /\ is_task_running' = TRUE
  /\ stack' = Append(Disturbed(stack), Frame(r))

HasTask(g) == tasks[NextRunner(g)] > 0

RunTask ==
  /\ Ok /\ AtRunTask
  /\ \E g \in DOMAIN groups :
       /\ groups[g] # <<>> /\ HasTask(g)
       /\ StartTask(g)
  /\ UNCHANGED <<groups, has_sub_runner, is_terminated, pc, clearing, status,
                 posts, subs, doubled, stranded>>

\* The scan comes to a group that UnBind has left empty: back() is undefined.
RunTaskEmptyGroup ==
  /\ Ok /\ AtRunTask
  /\ <<>> \in Range(groups)
  /\ Fail("undefined")

\* No task: the thread does not wait (see module Worker) and tries again.
RunTaskNull ==
  /\ Ok /\ AtRunTask
  /\ \A g \in DOMAIN groups : groups[g] # <<>> => tasks[NextRunner(g)] = 0
  /\ stack' = BackToLoop(stack)
  /\ pc' = "loop"
  /\ UNCHANGED <<groups, tasks, has_sub_runner, is_terminated, locals, clearing,
                 status, posts, subs, doubled, stranded>>

\* A father in two groups may have two tasks that wait.  The removal of one's
\* sub clears the flag for both, so that the other goes on with its sub there.
Strand ==
  stranded' = IF Top.sub # NoRunner /\ Top.runner \in doubled
                THEN stranded \union {Top.sub} ELSE stranded

\* task->Run() returns.  The time goes to the groups of curr_group.
FinishTask ==
  /\ Ok /\ InTask
  /\ stack' = Front(stack)
  /\ is_task_running' = FALSE
  /\ pc' = "loop"
  /\ Strand
  /\ UNCHANGED <<groups, tasks, has_sub_runner, is_terminated, local_runner,
                 curr_group, clearing, status, posts, subs, doubled>>

-----------------------------------------------------------------------------
(* What a task may do, and other threads.                                  *)

Places(s) == {g \in DOMAIN groups : s \in Range(groups[g])}

\* BindGroup: the first group with the father in it.
BindGroup(f, s) ==
  \E g \in DOMAIN groups :
    /\ f \in Range(groups[g])
    /\ groups' = [groups EXCEPT ![g] = Append(@, s)]

\* A task of f adds s and waits for its removal in a loop of its own.
AddSubTaskRunner(s) ==
  LET f == Top.runner IN
  /\ Ok /\ InTask /\ f \notin Loose /\ f # s
  /\ subs < MaxSubs /\ subs' = subs + 1  \* bound
  /\ \A k \in 1..Depth : stack[k].sub # s /\ stack[k].runner # s
  /\ BindGroup(f, s)
  /\ has_sub_runner' = [has_sub_runner EXCEPT ![f] = TRUE]
  /\ stack' = [stack EXCEPT ![Depth].at = "nested", ![Depth].sub = s]
  /\ Strand
  /\ doubled' = IF Places(s) = {} THEN doubled ELSE doubled \union {s}
  /\ UNCHANGED <<tasks, is_terminated, locals, pc, clearing, status, posts>>

\* UnBind: s is erased from the first group it is in.
UnBind(s) ==
  \/ \E g \in DOMAIN groups :
       /\ s \in Range(groups[g])
       /\ groups' = [groups EXCEPT ![g] = RemoveFirst(@, s)]
  \/ /\ \A g \in DOMAIN groups : s \notin Range(groups[g])
     /\ UNCHANGED groups

\* worker->UnBind(sub_runner) with the sub of frame k.
RemoveOf(k) ==
  /\ stack[k].sub # NoRunner
  /\ UnBind(stack[k].sub)
  /\ stack' = [stack EXCEPT ![k].sub = NoRunner]
  /\ UNCHANGED <<tasks, is_terminated, locals, pc, status, posts, subs,
                 doubled>>

\* RemoveSubTaskRunner by a task: the thread does nothing else meanwhile.
RemoveSubTaskRunner ==
  /\ Ok /\ InTask
  /\ \E k \in 1..Depth :
       /\ has_sub_runner[stack[k].runner]
       /\ RemoveOf(k)
       /\ has_sub_runner' = [has_sub_runner EXCEPT ![stack[k].runner] = FALSE]
  /\ UNCHANGED <<clearing, stranded>>

\* RemoveSubTaskRunner by another thread, up to UnBind.  It read the flag at
\* some time since the sub was added; the flag may have changed by now.
RemoveFromOutside ==
  /\ Ok /\ clearing = NoRunner
  /\ \E k \in 1..Depth :
       RemoveOf(k) /\ clearing' = stack[k].runner
  /\ UNCHANGED <<has_sub_runner, stranded>>

\* The rest of it: has_sub_runner_ = false.  A sub that was added in between is
\* there and its father's flag is lost.
ClearFlag ==
  /\ Ok /\ clearing # NoRunner
  /\ has_sub_runner' = [has_sub_runner EXCEPT ![clearing] = FALSE]
  /\ stranded' = stranded \union
       ({stack[k].sub : k \in {j \in 1..Depth : stack[j].runner = clearing}}
          \ {NoRunner})
  /\ clearing' = NoRunner
  /\ UNCHANGED <<groups, tasks, is_terminated, stack, locals, pc, status, posts,
                 subs, doubled>>

\* A task asks for its runner: the CHECK fails when is_task_running is not set.
GetCurrentTaskRunner ==
  /\ Ok /\ InTask /\ ~is_task_running
  /\ Fail("no_task")

\* PostTask, by any thread, with the CHECK of NotifyWorker.
PostTask(r) ==
  /\ Ok /\ posts < MaxPosts  \* bound
  /\ \/ r \in Loose /\ Fail("no_worker")
     \/ /\ r \notin Loose
        /\ tasks' = [tasks EXCEPT ![r] = @ + 1]
        /\ posts' = posts + 1
        /\ UNCHANGED <<groups, has_sub_runner, is_terminated, stack, locals, pc,
                       clearing, status, subs, doubled, stranded>>

Terminate ==
  /\ Ok /\ ~is_terminated
  /\ is_terminated' = TRUE
  /\ UNCHANGED <<groups, tasks, has_sub_runner, stack, locals, pc, clearing,
                 status, posts, subs, doubled, stranded>>

-----------------------------------------------------------------------------
ThreadStep ==
  \/ LoopTest \/ NestedTest \/ RunTask \/ RunTaskEmptyGroup \/ RunTaskNull
  \/ FinishTask \/ (\E s \in Runners : AddSubTaskRunner(s))
  \/ RemoveSubTaskRunner \/ GetCurrentTaskRunner

\* The program has ended: it failed or the thread is done.
Ended == (~Ok \/ pc = "exited") /\ UNCHANGED vars

Next ==
  \/ ThreadStep \/ RemoveFromOutside \/ ClearFlag \/ (\E r \in Runners : PostTask(r))
  \/ Terminate \/ Ended

\* The thread runs and every task comes to its end.
Fairness == WF_vars(ThreadStep) /\ WF_vars(FinishTask)

Spec == Init /\ [][Next]_vars /\ Fairness

-----------------------------------------------------------------------------
(* Properties.                                                             *)

\* Every variable has its type.
TypeOK ==
  /\ groups \in [Runners \ Loose -> Seq(Runners)]
  /\ tasks \in [Runners -> Nat]
  /\ has_sub_runner \in [Runners -> BOOLEAN] /\ is_terminated \in BOOLEAN
  /\ stack \in Seq([runner : Runners, at : {"run", "nested", "task"},
                    sub : Runners \union {NoRunner}, disturbed : BOOLEAN])
  /\ is_task_running \in BOOLEAN
  /\ local_runner \in Runners \union {NoRunner} /\ curr_group \in Seq(Runners)
  /\ pc \in {"loop", "task", "exited"}
  /\ clearing \in Runners \union {NoRunner}
  /\ status \in {"ok", "undefined", "no_task", "no_worker"}
  /\ posts \in 0..MaxPosts /\ subs \in 0..MaxSubs
  /\ doubled \subseteq Runners /\ stranded \subseteq Runners

\* As long as no other task has run inside of it, the task that is running
\* finds itself: GetCurrentTaskRunner gives its runner and does not abort, and
\* its time will be charged to its own group.  (After one, it does abort.)
\* Every variable keeps its type.
CurrentRunner ==
  /\ TypeOK
  /\ (InTask /\ ~Top.disturbed)
       => /\ is_task_running /\ local_runner = Top.runner
          /\ Top.runner \in Range(curr_group)

\* While a task of f waits for its sub-runner no other task of f runs inside
\* of it, not even through the loops of tasks that wait above: the sub keeps
\* them from running.  A runner in two groups is not protected, and neither is
\* a task whose sub was removed between the test of its loop and RunTask.
NoReentry ==
  \A j, k \in 1..Depth :
    (j < k /\ stack[j].sub # NoRunner /\ stack[j].runner \notin doubled)
      => stack[k].runner # stack[j].runner

\* A task that waits does not go on while its sub-runner is there, unless its
\* runner is in two groups and another of its tasks got its sub removed, or the
\* sub was added while another thread was between UnBind and clearing the flag.
FatherWaits ==
  \A k \in 1..Depth :
    (stack[k].sub # NoRunner /\ stack[k].runner \notin doubled
       /\ stack[k].sub \notin stranded) => stack[k].at # "run"

\* Once no task waits for a sub that has no group of its own, nothing keeps its
\* father from running, unless the sub was left behind in one of these ways.
RemovedUnblocks ==
  \A s \in Loose :
    (\A k \in 1..Depth : stack[k].sub # s) => Places(s) = {} \/ s \in stranded

\* However often it was added and removed as a sub itself, a running task's
\* runner is in a group: BindGroup finds it and never appends at end().
FatherFound == \A k \in 1..Depth : Places(stack[k].runner) # {}

\* A sub-runner blocks its father's tasks while it is there, and only then
\* (AddSubTaskRunner and RemoveSubTaskRunner of task_runner.cc).
SubBlocksFather ==
  NoReentry /\ FatherWaits /\ RemovedUnblocks /\ FatherFound

\* A task that waits goes on when its sub-runner is gone, unless a task it
\* runs meanwhile waits in its turn.
ResumesAfterRemove ==
  \A f \in Runners \ Loose :
    (\E k \in 1..Depth : stack[k].runner = f /\ stack[k].at # "run"
                           /\ stack[k].sub = NoRunner)
      ~> \/ ~\E k \in 1..Depth : stack[k].runner = f /\ stack[k].at # "run"
                                   /\ stack[k].sub = NoRunner
         \/ (\E r \in Runners : has_sub_runner[r]) \/ ~Ok

\* After Terminate the thread ends and the join returns, unless a task waits
\* for a sub-runner that nobody removes.
TerminateExits ==
  is_terminated ~> pc = "exited" \/ (\E r \in Runners : has_sub_runner[r]) \/ ~Ok
=============================================================================
