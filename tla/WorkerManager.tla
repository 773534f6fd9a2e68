---------------------------- MODULE WorkerManager ----------------------------
(***************************************************************************)
(* WorkerManager (src/footstone/worker_manager.cc) with the parts of Worker*)
(* it moves groups of runners with, the sub-runners that make a group more *)
(* than one runner, and the specifics (keys and values per runner) that    *)
(* follow a runner from worker to worker.                                  *)
(*                                                                         *)
(* Resize and AddWorker run Balance, which takes the mutexes of one worker *)
(* after the other: each such section is a step, and the workers' threads  *)
(* and the calls that do not take the manager's mutex_ come in between.    *)
(* Nothing is ever removed from workers_ (the loop that would do it tests  *)
(* size_ after it was set), so a worker is named by its position.          *)
(*                                                                         *)
(* Two abstractions.  What a worker's thread does between two schedulings  *)
(* is module Worker; here it sorts, takes over its pending groups, and runs*)
(* tasks.  And worker_key_map_ and specific_map_ are one set of runners    *)
(* with an entry: they are always changed together, and the arrays in them *)
(* keep their initial values, as every function that changes an element    *)
(* changes a copy (auto array = map_it->second).                           *)
(***************************************************************************)
EXTENDS Integers, Sequences, FiniteSets, Functions, SequencesExt

CONSTANTS Runners,
          Casts,        \* the sets of runners a program creates
          Group,        \* TaskRunner::group_id_, 0 for none
          Schedulable,  \* the runners with is_schedulable_
          Removable,    \* the runners RemoveTaskRunner is called for
          InitialSize,  \* the argument of the constructor
          Sizes,        \* the arguments of Resize
          MaxWorkers,   \* bound on workers_.size()
          MaxChanges,   \* bound on the calls of Resize and AddWorker
          DebugBuilds   \* is TDF_BASE_DCHECK compiled in?

ASSUME CastsAssumption == Casts \subseteq SUBSET Runners
ASSUME GroupAssumption == Group \in [Runners -> Nat]
ASSUME SchedulableAssumption == Schedulable \subseteq Runners
ASSUME RemovableAssumption == Removable \subseteq Runners
ASSUME SizesAssumption ==
  /\ InitialSize \in Nat \ {0} /\ Sizes \subseteq Nat \ {0}
  /\ MaxWorkers \in Nat /\ InitialSize <= MaxWorkers
  /\ MaxChanges \in Nat
ASSUME DebugBuildsAssumption == DebugBuilds \subseteq BOOLEAN

Workers == 0..(MaxWorkers - 1)
NoWorker == -1  \* an empty weak_ptr<Worker>
GroupIds(rs) == {0} \union {Group[r] : r \in rs}

VARIABLES
  count,          \* workers_.size()
  size_, index_,
  worker,         \* per worker: running_groups_ and pending_groups_, group_id_,
                  \* immediate_task_queue_, runners with specifics, has ended?
  runner,         \* per runner: worker_, has_sub_runner_, how far it has got
  balance,        \* Balance: the step it is at and its locals
  status,
  changes,        \* calls of Resize and AddWorker
  history,        \* per cause, the runners it has happened to (see Causes)
  need_balance,   \* per worker: "clearing" between BalanceNoLock and the
                  \* store of false, as long as the flag is still true
  overwritten,    \* runners whose need_balance_ = true that store overwrote
  removing,       \* runners RemoveTaskRunner found in a pending list, before
                  \* it searches that list
  unbinding       \* per runner: the RemoveSubTaskRunner of it under way

flags == <<need_balance, overwritten>>
removals == <<removing, unbinding>>
vars == <<count, size_, index_, worker, runner, balance, status,
          changes, history, flags, removals>>

\* strayed: moved by a growth, which leaves worker_ as it was
\* again:   moved while strayed, or while its specifics were on the way
\* dropped: in a group that no worker was given
\* wiped:   destroyed its specifics
\* slipped: a sub-runner removed while its group was elsewhere, or after its
\*          father, or by a runner that is not below it
\* missed:  taken over by its worker, or by Balance, between the two searches
\*          of the UnBind that removed it
\* orphaned: a runner below it in its group was removed
\* cleared: lost has_sub_runner_ while another sub-runner was above it
Causes == {"strayed", "again", "dropped", "wiped", "slipped", "missed",
           "orphaned", "cleared"}

RunnersOf(gs) == UNION {Range(gs[k]) : k \in DOMAIN gs}
BoundTo(w) == RunnersOf(worker[w].running) \union RunnersOf(worker[w].pending)

\* The groups Balance has taken and not yet given to a worker.
Held == IF balance.step = "repoint" THEN Tail(balance.groups)
                                    ELSE balance.groups

AllGroups == Range(Held) \union
  UNION {Range(worker[w].running) \union Range(worker[w].pending) : w \in Workers}

\* The runners above r in its group.
Above(r) == {q \in Runners : \E g \in AllGroups : \E j, k \in DOMAIN g :
               j < k /\ g[j] = r /\ g[k] = q}

NoBalance == [step |-> "none", i |-> 0, target |-> 0, groups |-> <<>>,
              groups_size |-> 0, cur_worker_group |-> [w \in Workers |-> 0],
              reduce_size |-> 0]

\* RemoveSubTaskRunner: the step it is at, its locals, and the cause to record
\* when the runner is not found.
NoUnBind(r) == [step |-> "none", father |-> r, worker |-> 0, cause |-> "none"]

NewWorker(g) == [running |-> <<>>, pending |-> <<>>, group_id |-> g,
                 immediate |-> <<>>, specifics |-> {}, ended |-> FALSE]

\* group_id_ is not initialized by the constructor of Worker.
Init ==
  /\ count = InitialSize /\ size_ = InitialSize /\ index_ = 0
  /\ \E cast \in Casts :
       /\ worker \in [Workers -> {NewWorker(g) : g \in GroupIds(cast)}]
       /\ runner = [r \in Runners |->
                      [worker_ |-> NoWorker, has_sub_runner |-> FALSE,
                       life |-> IF r \in cast THEN "new" ELSE "absent"]]
  /\ balance = NoBalance
  /\ status = "ok"
  /\ changes = 0
  /\ history = [c \in Causes |-> {}]
  /\ need_balance = [w \in Workers |-> "clear"] /\ overwritten = {}
  /\ removing = {}
  /\ unbinding = [r \in Runners |-> NoUnBind(r)]

Ok == status = "ok"
Unlocked == balance.step = "none" /\ removing = {}  \* mutex_ is free

Fail(why) ==
  /\ status' = why
  /\ UNCHANGED <<count, size_, index_, worker, runner, balance, changes,
                 history, flags, removals>>

-----------------------------------------------------------------------------
(* The workers' threads.                                                   *)

AnyEnded == \E w \in Workers : worker[w].ended

\* Worker w's thread is at the top of its loop.
Runs(w) == Ok /\ w < count /\ ~worker[w].ended /\ need_balance[w] # "clearing"

Orders(gs) == {[k \in DOMAIN gs |-> gs[p[k]]] :
                 p \in {q \in [DOMAIN gs -> DOMAIN gs] : IsInjective(q)}}

\* What BalanceNoLock takes over: nothing without need_balance_.
Pending(w) == IF need_balance[w] = "set" THEN worker[w].pending ELSE <<>>

\* The groups sorted, by running times that are not modelled, and the pending
\* ones, if they are taken, before them.
Scheduled(w, gs) ==
  [worker EXCEPT ![w].running = Pending(w) \o gs,
                 ![w].pending = IF need_balance[w] = "set" THEN <<>> ELSE @]

ScheduleM(w) ==  \* mutant: the balance is left out while nothing runs
  /\ Runs(w) /\ worker[w].immediate = <<>> /\ worker[w].running # <<>>
  /\ \E gs \in Orders(worker[w].running) : worker' = Scheduled(w, gs)
  /\ need_balance' = [need_balance EXCEPT
                        ![w] = IF @ = "set" THEN "clearing" ELSE @]
  /\ UNCHANGED <<count, size_, index_, runner, balance, status, changes,
                 history, overwritten, removals>>

\* GetNextTask of worker w: the sort, then, if (need_balance_), the balance.
\* With an empty group the CHECK of the sort fails, or back() is undefined.
Schedule(w) ==
  /\ Runs(w) /\ worker[w].immediate = <<>>
  /\ \/ /\ <<>> \in Range(worker[w].running) \union Range(Pending(w))
        /\ Fail("empty_group")
     \/ /\ <<>> \notin Range(worker[w].running) \union Range(Pending(w))
        /\ \E gs \in Orders(worker[w].running) : worker' = Scheduled(w, gs)
        /\ need_balance' = [need_balance EXCEPT
                              ![w] = IF @ = "set" THEN "clearing" ELSE @]
        /\ UNCHANGED <<count, size_, index_, runner, balance, status,
                       changes, history, overwritten, removals>>

\* need_balance_ = false, after the mutexes were released.
ClearNeedBalance(w) ==
  /\ Ok /\ ~worker[w].ended /\ need_balance[w] = "clearing"
  /\ need_balance' = [need_balance EXCEPT ![w] = "clear"]
  /\ UNCHANGED <<count, size_, index_, worker, runner, balance, status,
                 changes, history, overwritten, removals>>

\* The two immediate tasks of MoveTaskRunnerSpecificNoLock.
Take(r, to) == [task |-> "take", runner |-> r, to |-> to]
Put(r, to) == [task |-> "put", runner |-> r, to |-> to]

\* The runners whose specifics are on the way.
InFlight == {r \in Runners : \E w \in Workers :
               \E k \in DOMAIN worker[w].immediate :
                 worker[w].immediate[k].runner = r}
Adrift == history["strayed"] \union InFlight

RunTakeM(w, m) ==  \* mutant: the entry is copied, not moved
  worker' = [[worker EXCEPT ![w].immediate = Tail(@)]
               EXCEPT ![m.to].immediate = Append(@, Put(m.runner, m.to))]

\* The outer task: take the entry out of this worker and send it on.
RunTake(w, m) ==
  worker' = [[worker EXCEPT ![w].specifics = @ \ {m.runner},
                            ![w].immediate = Tail(@)]
               EXCEPT ![m.to].immediate = Append(@, Put(m.runner, m.to))]

RunPutM(w, m) ==  \* mutant: nothing is inserted
  worker' = [worker EXCEPT ![w].immediate = Tail(@)]

\* The inner one: insert what was moved, even when nothing was there.
RunPut(w, m) ==
  worker' = [worker EXCEPT ![w].specifics = @ \union {m.runner},
                           ![w].immediate = Tail(@)]

RunImmediateTask(w) ==
  /\ Runs(w) /\ worker[w].immediate # <<>>
  /\ LET m == Head(worker[w].immediate) IN
       IF m.task = "take" THEN RunTake(w, m) ELSE RunPut(w, m)
  /\ UNCHANGED <<count, size_, index_, runner, balance, status, changes,
                 history, flags, removals>>

\* A task of r can run on w: r is on top of one of its groups.
CanRun(w, r) ==
  /\ Runs(w)
  /\ \E g \in Range(worker[w].running) : g # <<>> /\ Last(g) = r

\* The key a task of r gets: the same one each time, as the array is a copy.
WorkerKeyCreate(w, r) == IF r \in worker[w].specifics THEN 0 ELSE -1
WorkerSetSpecific(w, r, key) == r \in worker[w].specifics /\ key >= 0

\* A task of r asks for a key, or for its value, without a worker_: the CHECK
\* fails.  With one, nothing changes.
UseSpecificsUnbound(w, r) ==
  /\ CanRun(w, r) /\ runner[r].worker_ = NoWorker
  /\ Fail("no_worker")

WorkerDestroySpecific(w, r) ==
  worker' = [worker EXCEPT ![w].specifics = @ \ {r}]

RunnerDestroySpecifics(w, r) ==
  /\ CanRun(w, r) /\ runner[r].worker_ # NoWorker
  /\ r \notin history["wiped"]
  /\ WorkerDestroySpecific(runner[r].worker_, r)
  /\ history' = [history EXCEPT !["wiped"] = @ \union {r}]
  /\ UNCHANGED <<count, size_, index_, runner, balance, status, changes,
                 flags, removals>>

-----------------------------------------------------------------------------
(* CreateTaskRunner and the calls on a runner.                             *)

NextIndexM(n) == IF n # 1 THEN index_ + 1 ELSE 0  \* mutant: not wrapped

\* index_ = n - 1 ? 0 : ++index_
NextIndex(n) == IF n # 1 THEN 0 ELSE index_ + 1

\* Bind of a list of groups to worker w, of one group, and the group_id_ that
\* the latter sets.
BindList(w, gs) == [worker EXCEPT ![w].pending = @ \o gs]

Bind(w, g) ==
  [worker EXCEPT ![w].pending = Append(@, g),
                 ![w].group_id = IF Group[g[1]] = 0 THEN @ ELSE Group[g[1]]]

\* The need_balance_ = true of a Bind of the runners rs to worker w.
SetNeedBalance(w, rs) ==
  /\ need_balance' = [need_balance EXCEPT
                        ![w] = IF @ = "clearing" THEN @ ELSE "set"]
  /\ overwritten' = IF need_balance[w] = "clearing" THEN overwritten \union rs
                                                    ELSE overwritten

\* AddTaskRunner: one section under mutex_.
AddTaskRunner(r) ==
  /\ worker' = [Bind(index_, <<r>>) EXCEPT ![index_].specifics = @ \union {r}]
  /\ SetNeedBalance(index_, {r})
  /\ runner' = [runner EXCEPT ![r].worker_ = index_, ![r].life = "bound"]
  /\ index_' = NextIndex(size_)

\* CreateTaskRunner.  A runner that cannot be scheduled is bound to nothing.
CreateLoose(r) ==
  /\ Ok /\ runner[r].life = "new" /\ r \notin Schedulable
  /\ runner' = [runner EXCEPT ![r].life = "loose"]
  /\ UNCHANGED <<count, size_, index_, worker, balance, status, changes,
                 history, flags, removals>>

CreateInNoGroup(r) ==
  /\ Ok /\ Unlocked
  /\ runner[r].life = "new" /\ r \in Schedulable /\ Group[r] = 0
  /\ \/ index_ >= count /\ Fail("out_of_range")
     \/ /\ index_ < count
        /\ AddTaskRunner(r)
        /\ UNCHANGED <<count, size_, balance, status, changes, history,
                       removals>>

\* The first worker with the group, if there is one.
WithGroup(g) == {w \in 0..(count - 1) :
                   /\ worker[w].group_id = g
                   /\ \A v \in 0..(w - 1) : worker[v].group_id # g}

\* A runner with a group: first the walk over workers_, without mutex_ ...
CreateInGroup(r) ==
  /\ Ok /\ runner[r].life = "new" /\ r \in Schedulable /\ Group[r] # 0
  /\ \/ balance.step = "create" /\ Fail("race")  \* workers_ grows under it
     \/ /\ balance.step # "create"
        /\ \/ \E w \in WithGroup(Group[r]) :
                runner' = [runner EXCEPT ![r].worker_ = w, ![r].life = "picked"]
           \/ /\ WithGroup(Group[r]) = {}
              /\ runner' = [runner EXCEPT ![r].life = "walked"]
        /\ UNCHANGED <<count, size_, index_, worker, balance, status, changes,
                       history, flags, removals>>

\* ... then, if no worker has the group, the next one, under mutex_ ...
PickWorker(r) ==
  /\ Ok /\ Unlocked /\ runner[r].life = "walked"
  /\ \/ index_ >= count /\ Fail("out_of_range")
     \/ /\ index_ < count
        /\ runner' = [runner EXCEPT ![r].worker_ = index_, ![r].life = "picked"]
        /\ index_' = NextIndex(size_)
        /\ UNCHANGED <<count, size_, worker, balance, status, changes,
                       history, flags, removals>>

\* ... and Bind, without it.  The specifics get no entry.
BindPicked(r) ==
  /\ Ok /\ runner[r].life = "picked"
  /\ worker' = Bind(runner[r].worker_, <<r>>)
  /\ SetNeedBalance(runner[r].worker_, {r})
  /\ runner' = [runner EXCEPT ![r].life = "bound"]
  /\ UNCHANGED <<count, size_, index_, balance, status, changes, history,
                 removals>>

\* UnBind(runner) takes the mutexes of the two lists one after the other.  A
\* group stays in its list even when it is left empty.
Without(gs, r) == [k \in DOMAIN gs |-> RemoveFirst(gs[k], r)]

InRunning(ws, r) == \E w \in ws : r \in RunnersOf(worker[w].running)
InPending(ws, r) == \E w \in ws : r \in RunnersOf(worker[w].pending)

\* The search of the running lists of the workers ws ...
UnBindRunning(ws, r) ==
  worker' = [w \in Workers |->
    IF w \in ws THEN [worker[w] EXCEPT !.running = Without(@, r)] ELSE worker[w]]

\* ... and of the pending ones.
UnBindPending(ws, r) ==
  worker' = [w \in Workers |->
    IF w \in ws THEN [worker[w] EXCEPT !.pending = Without(@, r)] ELSE worker[w]]

\* The search that ends the UnBind of r; found: it erased r from its group.
UnBound(r, found, cause) ==
  /\ runner' = [runner EXCEPT ![r].life = "removed"]
  /\ history' = [c \in Causes |->
       IF found
         THEN history[c] \union (IF c = "orphaned" THEN Above(r) ELSE {})
         ELSE history[c] \union (IF c = cause THEN {r} ELSE {})]

NotUnBinding(r) == r \notin removing /\ unbinding[r].step = "none"

RemoveTaskRunnerM(r) ==  \* mutant: up to size_, not workers_.size()
  LET ws == 0..(size_ - 1) IN
  /\ Ok /\ Unlocked /\ r \in Removable
  /\ runner[r].life = "bound" /\ NotUnBinding(r)
  /\ \/ /\ InPending(ws, r) /\ ~InRunning(ws, r)
        /\ removing' = {r}
        /\ UNCHANGED <<worker, runner, history>>
     \/ /\ ~InPending(ws, r) \/ InRunning(ws, r)
        /\ UnBindRunning(ws, r)
        /\ UnBound(r, InRunning(ws, r), "none")
        /\ UNCHANGED removing
  /\ UNCHANGED <<count, size_, index_, balance, status, changes, flags, unbinding>>

\* RemoveTaskRunner: a runner that is in no running list but in a pending one
\* stays there until the second search.  (With mutex_ held it goes to no other
\* worker, so the searches of the workers that do not have it change nothing.)
RemoveTaskRunner(r) ==
  LET ws == 0..(count - 1) IN
  /\ Ok /\ Unlocked /\ r \in Removable
  /\ runner[r].life = "bound" /\ NotUnBinding(r)
  /\ \/ /\ InPending(ws, r) /\ ~InRunning(ws, r)
        /\ removing' = {r}
        /\ UNCHANGED <<worker, runner, history>>
     \/ /\ ~InPending(ws, r) \/ InRunning(ws, r)
        /\ UnBindRunning(ws, r)
        /\ UnBound(r, InRunning(ws, r), "none")
        /\ UNCHANGED removing
  /\ UNCHANGED <<count, size_, index_, balance, status, changes, flags,
                 unbinding>>

\* The second search: meanwhile the worker may have taken the group over.
RemoveFromPending(r) ==
  LET ws == 0..(count - 1) IN
  /\ Ok /\ r \in removing
  /\ UnBindPending(ws, r)
  /\ UnBound(r, InPending(ws, r), "missed")
  /\ removing' = {}
  /\ UNCHANGED <<count, size_, index_, balance, status, changes, flags,
                 unbinding>>

Everywhere == (UNION {BoundTo(w) : w \in Workers}) \union RunnersOf(balance.groups)

\* ~TaskRunner, once nobody has the runner.
DestroyRunner(r) ==
  /\ Ok /\ r \notin Everywhere /\ NotUnBinding(r)
  /\ \A q \in Runners : unbinding[q].step # "none" => unbinding[q].father # r
  /\ runner[r].life = "removed" \/ r \in history["dropped"]
  /\ runner' = [runner EXCEPT ![r].life = "destroyed"]
  /\ IF runner[r].worker_ = NoWorker
       THEN UNCHANGED worker
       ELSE WorkerDestroySpecific(runner[r].worker_, r)
  /\ UNCHANGED <<count, size_, index_, balance, status, changes, history,
                 flags, removals>>

PushOn(gs, f, s) ==
  [k \in DOMAIN gs |-> IF f \in Range(gs[k]) THEN Append(gs[k], s) ELSE gs[k]]

BindGroupM(w, f, s) ==  \* mutant: a group of its own
  worker' = [worker EXCEPT ![w].pending = Append(@, <<s>>)]

\* BindGroup: the group of the father, in the running list, else in the
\* pending one; when it is in neither, push_back goes to end().
BindGroup(w, f, s) ==
  worker' = IF f \in RunnersOf(worker[w].running)
              THEN [worker EXCEPT ![w].running = PushOn(@, f, s)]
              ELSE [worker EXCEPT ![w].pending = PushOn(@, f, s)]

\* AddSubTaskRunner with is_task_running = false, its default; module Stacking
\* is about the other case.
AddSubTaskRunner(f, s) ==
  LET w == runner[f].worker_ IN
  /\ Ok /\ runner[f].life = "bound" /\ runner[s].life = "loose" /\ w # NoWorker
  /\ \/ f \notin BoundTo(w) /\ Fail("bind_end")
     \/ /\ f \in BoundTo(w)
        /\ BindGroup(w, f, s)
        /\ runner' = [runner EXCEPT ![f].has_sub_runner = TRUE,
                                    ![s].life = "bound"]
        /\ UNCHANGED <<count, size_, index_, balance, status, changes,
                       history, flags, removals>>

\* Any runner is accepted.  One that is in a group already is then in two: the
\* model ends there, and module Stacking goes on with it.
AddBoundTaskRunner(f, s) ==
  LET w == runner[f].worker_ IN
  /\ Ok /\ runner[f].life = "bound" /\ runner[s].life = "bound" /\ w # NoWorker
  /\ f \in BoundTo(w)
  /\ Fail("doubled")

\* RemoveSubTaskRunner: the test, and worker_.lock() ...
RemoveSubTaskRunner(f, s) ==
  LET w == runner[f].worker_ IN
  /\ Ok /\ runner[f].has_sub_runner /\ w # NoWorker
  /\ runner[s].life = "bound" /\ s \notin Schedulable /\ NotUnBinding(s)
  /\ unbinding' = [unbinding EXCEPT ![s] =
       [step |-> "running", father |-> f, worker |-> w, cause |-> "none"]]
  /\ UNCHANGED <<count, size_, index_, worker, runner, balance, status, changes,
                 history, flags, removing>>

\* The sub-runner s is not where its father f says: at worker w.
Astray(f, s, w) ==
  \/ f \in history["strayed"] \/ runner[f].life # "bound" \/ s \notin Above(f)
  \/ f \in RunnersOf(balance.groups) \/ runner[f].worker_ # w

\* ... UnBind, which looks into the running list first ...
UnBindSub(s) ==
  LET f == unbinding[s].father
      w == unbinding[s].worker IN
  /\ Ok /\ unbinding[s].step = "running"
  /\ \/ /\ InRunning({w}, s)
        /\ UnBindRunning({w}, s)
        /\ UnBound(s, TRUE, "none")
        /\ unbinding' = [unbinding EXCEPT ![s].step = "flag"]
     \/ /\ ~InRunning({w}, s)
        /\ unbinding' = [unbinding EXCEPT ![s].step = "pending",
             ![s].cause = IF InPending({w}, s) THEN "missed"
                          ELSE IF Astray(f, s, w) THEN "slipped" ELSE "none"]
        /\ UNCHANGED <<worker, runner, history>>
  /\ UNCHANGED <<count, size_, index_, balance, status, changes, flags, removing>>

\* ... and then into the pending one ...
UnBindSubPending(s) ==
  LET w == unbinding[s].worker IN
  /\ Ok /\ unbinding[s].step = "pending"
  /\ UnBindPending({w}, s)
  /\ UnBound(s, InPending({w}, s), unbinding[s].cause)
  /\ unbinding' = [unbinding EXCEPT ![s].step = "flag"]
  /\ UNCHANGED <<count, size_, index_, balance, status, changes, flags, removing>>

\* ... and has_sub_runner_ = false, whatever was added meanwhile.
ClearHasSubRunner(s) ==
  LET f == unbinding[s].father IN
  /\ Ok /\ unbinding[s].step = "flag"
  /\ runner' = [runner EXCEPT ![f].has_sub_runner = FALSE]
  /\ history' = [history EXCEPT
       !["cleared"] = IF Above(f) \subseteq {s} THEN @ ELSE @ \union {f}]
  /\ unbinding' = [unbinding EXCEPT ![s] = NoUnBind(s)]
  /\ UNCHANGED <<count, size_, index_, worker, balance, status, changes, flags,
                 removing>>

\* Terminate: one worker after the other, each until its thread has left its
\* loop.  It takes no lock, and is the last call: none is under way.
Terminate(w) ==
  /\ Runs(w) /\ Unlocked
  /\ \A r \in Runners : /\ runner[r].life \notin {"walked", "picked"}
                         /\ unbinding[r].step = "none"
  /\ \A v \in 0..(w - 1) : worker[v].ended
  /\ worker' = [worker EXCEPT ![w].ended = TRUE]
  /\ UNCHANGED <<count, size_, index_, runner, balance, status, changes,
                 history, flags, removals>>

-----------------------------------------------------------------------------
(* Resize, AddWorker and Balance.                                          *)

\* A call of Resize or AddWorker begins, with the manager's mutex_ (AddWorker
\* takes no lock: it must not meet another call).  Nobody resizes a manager
\* that was terminated.
Change(n) ==
  /\ Ok /\ Unlocked /\ changes < MaxChanges  \* bound
  /\ changes' = changes + 1
  /\ ~AnyEnded
  /\ count + (n - size_) <= MaxWorkers  \* bound

ResizeUp(n) ==
  /\ Change(n) /\ n > size_
  /\ balance' = [NoBalance EXCEPT !.step = "create", !.target = n]
  /\ UNCHANGED <<count, size_, index_, worker, runner, status, history, flags,
                 removals>>

CreateWorkers ==
  /\ Ok /\ balance.step = "create"
  /\ count' = count + (balance.target - size_)
  /\ balance' = [balance EXCEPT !.step = "count"]
  /\ UNCHANGED <<size_, index_, worker, runner, status, changes, history,
                 flags, removals>>

AddWorker ==
  /\ Change(size_ + 1)
  /\ \A r \in Runners : runner[r].life \notin {"walked", "picked"}
  /\ count' = count + 1
  /\ balance' = [NoBalance EXCEPT !.step = "count", !.target = size_ + 1]
  /\ UNCHANGED <<size_, index_, worker, runner, status, history, flags,
                 removals>>

ResizeDown(n) ==
  /\ Change(n) /\ n < size_
  /\ balance' = [NoBalance EXCEPT !.step = "unbind", !.target = n,
                                  !.i = size_ - 1, !.reduce_size = size_ - n]
  /\ UNCHANGED <<count, size_, index_, worker, runner, status, history, flags,
                 removals>>

\* A growth: GetRunningGroupSize, before the pending groups are taken ...
CountGroups ==
  /\ Ok /\ balance.step = "count"
  /\ balance' = [balance EXCEPT
       !.groups_size = @ + Len(worker[balance.i].running), !.step = "retain"]
  /\ UNCHANGED <<count, size_, index_, worker, runner, status, changes,
                 history, flags, removals>>

\* RetainActiveAndUnschedulable.  Its loop would take a running group with no
\* schedulable runner, after the first; the iterator is then in another list,
\* and the loop never meets its end.  The pending groups are all taken.
RetainFails(w) ==
  \E k \in 2..Len(worker[w].running) :
    Range(worker[w].running[k]) \intersect Schedulable = {}

TakePendingM(w) == worker  \* mutant: the pending groups are copied
TakePending(w) == [worker EXCEPT ![w].pending = <<>>]

Retain ==
  LET w == balance.i IN
  /\ Ok /\ balance.step = "retain"
  /\ \/ RetainFails(w) /\ Fail("iterator")
     \/ /\ ~RetainFails(w)
        /\ balance' = [balance EXCEPT !.groups = @ \o worker[w].pending,
                                      !.step = "recount"]
        /\ worker' = TakePending(w)
        /\ UNCHANGED <<count, size_, index_, runner, status, changes, history,
                       flags, removals>>

\* ... and after it; then the next worker, or index_ = size_ and the dealing.
Recount ==
  LET last == balance.i + 1 = size_ IN
  /\ Ok /\ balance.step = "recount"
  /\ balance' = [balance EXCEPT
       !.cur_worker_group[balance.i] = Len(worker[balance.i].running),
       !.i = IF last THEN 0 ELSE @ + 1,
       !.step = IF last THEN "deal" ELSE "count"]
  /\ index_' = IF last THEN size_ ELSE index_
  /\ UNCHANGED <<count, size_, worker, runner, status, changes, history,
                 flags, removals>>

\* How many of the groups worker w gets: cnt is compared as unsigned, so a
\* negative one is more than there are.
Share(w) ==
  LET cnt == (balance.groups_size \div balance.target)
               - balance.cur_worker_group[w] IN
  IF cnt >= 0 /\ cnt < Len(balance.groups) THEN cnt ELSE Len(balance.groups)

\* MoveTaskRunnerSpecificNoLock for all runners of the list, and Bind.
MoveTo(w, list) ==
  LET rs == FlattenSeq(list)
      takes(v) == FlattenSeq([k \in DOMAIN rs |->
        IF runner[rs[k]].worker_ = v THEN <<Take(rs[k], w)>> ELSE <<>>]) IN
  [v \in Workers |-> [BindList(w, list)[v] EXCEPT !.immediate = @ \o takes(v)]]

\* Turn i of the dealing, from the first new worker round to the last old one.
\* What is left in groups at the end is destroyed with it.
Deal ==
  LET w == (size_ + balance.i) % balance.target
      list == SubSeq(balance.groups, 1, Share(w))
      rest == SubSeq(balance.groups, Share(w) + 1, Len(balance.groups))
      moved == RunnersOf(list)
      last == balance.i + 1 = balance.target IN
  /\ Ok /\ balance.step = "deal"
  /\ \/ (\E r \in moved : runner[r].worker_ = NoWorker) /\ Fail("no_worker")
     \/ /\ \A r \in moved : runner[r].worker_ # NoWorker
        /\ worker' = MoveTo(w, list)
        /\ SetNeedBalance(w, moved)
        /\ history' = [history EXCEPT
             !["again"] = @ \union (moved \intersect Adrift),
             !["strayed"] = (@ \ moved) \union
                              {r \in moved : runner[r].worker_ # w},
             !["dropped"] = IF last THEN @ \union RunnersOf(rest) ELSE @]
        /\ size_' = IF last THEN balance.target ELSE size_
        /\ balance' = IF last THEN NoBalance
                      ELSE [balance EXCEPT !.groups = rest, !.i = @ + 1]
        /\ UNCHANGED <<count, index_, runner, status, changes, removals>>

\* A shrinking: the workers are emptied from the last one down, save those
\* with a runner that cannot be scheduled.
HasUnschedulableRunner(w) ==
  ~(RunnersOf(worker[w].running) \subseteq Schedulable)

UnBindMore == balance.i > 0 \/ balance.reduce_size > 0

\* UnBind(): the section under running_mutex_ ...
UnBindWorker ==
  LET w == balance.i IN
  /\ Ok /\ balance.step = "unbind" /\ UnBindMore
  /\ \/ w < 0 /\ Fail("before_begin")
     \/ /\ w >= 0 /\ HasUnschedulableRunner(w)
        /\ balance' = [balance EXCEPT !.i = @ - 1]
        /\ UNCHANGED <<count, size_, index_, worker, runner, status, changes,
                       history, flags, removals>>
     \/ /\ w >= 0 /\ ~HasUnschedulableRunner(w)
        /\ worker' = [worker EXCEPT ![w].running = <<>>]
        /\ balance' = [balance EXCEPT !.groups = @ \o worker[w].running,
                                      !.step = "unbind_pending"]
        /\ UNCHANGED <<count, size_, index_, runner, status, changes, history,
                       flags, removals>>

\* ... and the one under pending_mutex_.
UnBindWorkerPending ==
  LET w == balance.i IN
  /\ Ok /\ balance.step = "unbind_pending"
  /\ worker' = TakePending(w)
  /\ balance' = [balance EXCEPT !.groups = @ \o worker[w].pending,
                   !.i = w - 1, !.reduce_size = @ - 1, !.step = "unbind"]
  /\ UNCHANGED <<count, size_, index_, runner, status, changes, history,
                 flags, removals>>

\* DCHECK(!reduce_size), in a debug build; a positive one cannot be left by
\* the loop.
UnBindEnd ==
  /\ Ok /\ balance.step = "unbind" /\ ~UnBindMore
  /\ \/ TRUE \in DebugBuilds /\ balance.reduce_size # 0 /\ Fail("check")
     \/ /\ FALSE \in DebugBuilds \/ balance.reduce_size = 0
        /\ balance' = [balance EXCEPT !.i = 0, !.step = "keep"]
        /\ UNCHANGED <<count, size_, index_, worker, runner, status, changes,
                       history, flags, removals>>

\* The workers that are kept give up their pending groups; then index_ is
\* brought below the new size.
Keep ==
  LET w == balance.i IN
  /\ Ok /\ balance.step = "keep"
  /\ \/ RetainFails(w) /\ Fail("iterator")
     \/ /\ ~RetainFails(w)
        /\ worker' = TakePending(w)
        /\ balance' = [balance EXCEPT !.groups = @ \o worker[w].pending,
             !.i = @ + 1,
             !.step = IF w + 1 = balance.target THEN "rebind" ELSE "keep"]
        /\ index_' = IF w + 1 = balance.target /\ index_ >= balance.target
                       THEN 0 ELSE index_
        /\ UNCHANGED <<count, size_, runner, status, changes, history, flags,
                       removals>>

\* The groups go to the next workers: first Bind ...
Rebind ==
  /\ Ok /\ balance.step = "rebind" /\ balance.groups # <<>>
  /\ \/ index_ >= count /\ Fail("out_of_range")
     \/ /\ index_ < count /\ Head(balance.groups) = <<>>
        /\ Fail("empty_group")
     \/ /\ index_ < count /\ Head(balance.groups) # <<>>
        /\ worker' = Bind(index_, Head(balance.groups))
        /\ SetNeedBalance(index_, Range(Head(balance.groups)))
        /\ balance' = [balance EXCEPT !.step = "repoint"]
        /\ UNCHANGED <<count, size_, index_, runner, status, changes, history,
                       removals>>

RepointM ==  \* mutant: runner->worker_ is not set
  LET moved == Range(Head(balance.groups)) IN
  /\ Ok /\ balance.step = "repoint"
  /\ balance' = [balance EXCEPT !.groups = Tail(@), !.step = "rebind"]
  /\ index_' = NextIndex(balance.target)
  /\ history' = [history EXCEPT
       !["again"] = @ \union (moved \intersect Adrift),
       !["strayed"] = @ \ moved]
  /\ UNCHANGED <<count, size_, worker, runner, status, changes, flags,
                 removals>>

\* ... then the specifics, taken from worker_ at once, and worker_.
Repoint ==
  LET moved == Range(Head(balance.groups))
      owned == {r \in moved : runner[r].worker_ # NoWorker} IN
  /\ Ok /\ balance.step = "repoint"
  /\ worker' = [[w \in Workers |-> [worker[w] EXCEPT
                   !.specifics = {r \in @ : r \notin owned
                                             \/ runner[r].worker_ # w}]]
                 EXCEPT ![index_].specifics = @ \union owned]
  /\ runner' = [r \in Runners |-> IF r \in moved
                  THEN [runner[r] EXCEPT !.worker_ = index_] ELSE runner[r]]
  /\ balance' = [balance EXCEPT !.groups = Tail(@), !.step = "rebind"]
  /\ index_' = NextIndex(balance.target)
  /\ history' = [history EXCEPT
       !["again"] = @ \union (moved \intersect Adrift),
       !["strayed"] = @ \ moved]
  /\ UNCHANGED <<count, size_, status, changes, flags, removals>>

\* size_ is set; then the loop over the workers to terminate has no turn.
ShrinkEnd ==
  /\ Ok /\ balance.step = "rebind" /\ balance.groups = <<>>
  /\ size_' = balance.target
  /\ balance' = NoBalance
  /\ UNCHANGED <<count, index_, worker, runner, status, changes, history,
                 flags, removals>>

-----------------------------------------------------------------------------
ThreadStep(w) ==
  \/ Schedule(w) \/ ClearNeedBalance(w) \/ RunImmediateTask(w)

TaskStep(w, r) == UseSpecificsUnbound(w, r) \/ RunnerDestroySpecifics(w, r)

\* Nobody calls a manager that is being terminated.
RunnerCall(r) == ~AnyEnded /\
 (\/ CreateLoose(r) \/ CreateInNoGroup(r) \/ CreateInGroup(r) \/ PickWorker(r)
  \/ BindPicked(r) \/ RemoveTaskRunner(r) \/ RemoveFromPending(r)
  \/ UnBindSub(r) \/ UnBindSubPending(r) \/ ClearHasSubRunner(r)
  \/ \E s \in Runners : \/ AddSubTaskRunner(r, s) \/ AddBoundTaskRunner(r, s)
                        \/ RemoveSubTaskRunner(r, s))

BalanceStep ==
  \/ CreateWorkers \/ CountGroups \/ Retain \/ Recount \/ Deal
  \/ UnBindWorker \/ UnBindWorkerPending \/ UnBindEnd \/ Keep \/ Rebind
  \/ Repoint \/ ShrinkEnd

ManagerCall ==
  \/ \E n \in Sizes : ResizeUp(n) \/ ResizeDown(n)
  \/ AddWorker
  \/ \E w \in Workers : Terminate(w)

\* The program has ended: it failed, or all its threads were joined.
Ended ==
  /\ ~Ok \/ \A w \in 0..(count - 1) : worker[w].ended
  /\ UNCHANGED vars

Next ==
  \/ \E w \in Workers : ThreadStep(w) \/ \E r \in Runners : TaskStep(w, r)
  \/ \E r \in Runners : RunnerCall(r) \/ DestroyRunner(r)
  \/ BalanceStep \/ ManagerCall \/ Ended

\* Every worker's thread runs, and a Balance that has begun goes on.
Fairness ==
  /\ \A w \in Workers : WF_vars(ThreadStep(w))
  /\ WF_vars(BalanceStep)

Spec == Init /\ [][Next]_vars /\ Fairness

-----------------------------------------------------------------------------
(* Properties. *)

\* Every variable has its type.
TypeOK ==
  /\ count \in 1..MaxWorkers /\ size_ \in 1..MaxWorkers /\ index_ \in Nat
  /\ worker \in [Workers ->
       [running : Seq(Seq(Runners)), pending : Seq(Seq(Runners)),
        group_id : GroupIds(Runners),
        immediate : Seq([task : {"take", "put"}, runner : Runners, to : Workers]),
        specifics : SUBSET Runners, ended : BOOLEAN]]
  /\ runner \in [Runners ->
       [worker_ : Workers \union {NoWorker}, has_sub_runner : BOOLEAN,
        life : {"absent", "new", "loose", "walked", "picked", "bound",
                "removed", "destroyed"}]]
  /\ balance \in
       [step : {"none", "create", "count", "retain", "recount", "deal",
                "unbind", "unbind_pending", "keep", "rebind", "repoint"},
        i : (-1)..MaxWorkers, target : 0..MaxWorkers,
        groups : Seq(Seq(Runners)), groups_size : Nat,
        cur_worker_group : [Workers -> Nat], reduce_size : Int]
  /\ changes \in 0..MaxChanges
  /\ status \in {"ok", "empty_group", "no_worker", "out_of_range", "race",
                 "bind_end", "doubled", "iterator", "before_begin", "check"}
  /\ history \in [Causes -> SUBSET Runners]
  /\ need_balance \in [Workers -> {"clear", "set", "clearing"}]
  /\ overwritten \subseteq Runners /\ removing \subseteq Runners
  /\ unbinding \in [Runners ->
       [step : {"none", "running", "pending", "flag"}, father : Runners,
        worker : Workers, cause : {"none", "missed", "slipped"}]]

\* Where r is: positions in the lists of the workers and of Balance.
PlacesOf(r) ==
  LET in(gs) == {k \in DOMAIN gs : r \in Range(gs[k])} IN
  (UNION {({"running"} \X {w} \X in(worker[w].running))
            \union ({"pending"} \X {w} \X in(worker[w].pending)) : w \in Workers})
    \union ({"held"} \X {NoWorker} \X in(Held))

\* However often the workers are rebalanced while they run, a bound runner is
\* in one group of one worker or in the hands of Balance, never in two and, if
\* it was not dropped by a growth, never in none; and every variable keeps its
\* type.
OnePlace ==
  /\ TypeOK
  /\ \A r \in Runners :
       runner[r].life = "bound"
         => Cardinality(PlacesOf(r)) = IF r \in history["dropped"] THEN 0 ELSE 1

\* worker_ is the worker the runner is bound to, so that posted tasks wake the
\* right thread and sub-runners find their father's group, save for runners
\* that a growth has moved and while Balance holds them.
WorkerPointer ==
  \A r \in Runners :
    ( /\ runner[r].life = "bound" /\ runner[r].worker_ # NoWorker
      /\ r \notin history["strayed"] \union history["dropped"]
      /\ r \notin RunnersOf(balance.groups) )
      => r \in BoundTo(runner[r].worker_)

\* A sub-runner stays above its father, in one group, wherever it is moved:
\* on top of it, it keeps the father's tasks from running.  The father's
\* has_sub_runner_ says so, until it removes one of several.
SubStaysOnFather ==
  \A s \in Runners \ Schedulable :
    (runner[s].life = "bound" /\ s \notin history["dropped"] \union history["orphaned"])
      => \E f \in Runners : /\ s \in Above(f)
                            /\ runner[f].has_sub_runner \/ f \in history["cleared"]

\* A runner whose removal has ended is in no group of any worker, unless its
\* group was taken over between the two searches of UnBind, or it is a
\* sub-runner that was removed while its group was elsewhere, or after its
\* father, or by a runner that is not its father.
RemovedIsGone ==
  \A r \in Runners :
    runner[r].life \in {"removed", "destroyed"}
      => PlacesOf(r) = {} \/ r \in history["slipped"] \union history["missed"]

InNoGroup(r) == r \in Schedulable /\ Group[r] = 0

\* The puts for r: the queues they are in, and where.
OnTheWay(r) ==
  UNION {{w} \X {k \in DOMAIN worker[w].immediate :
                   worker[w].immediate[k] = Put(r, worker[w].immediate[k].to)} :
           w \in Workers}

\* The specifics of a runner are with exactly one worker or on the way to
\* one, through every move, unless the runner destroyed them or was moved
\* again before they had arrived where worker_ points.
InOneMap ==
  \A r \in Runners :
    ( /\ runner[r].life = "bound" /\ InNoGroup(r)
      /\ r \notin history["again"] \union history["wiped"] )
      => Cardinality({w \in Workers : r \in worker[w].specifics})
           + Cardinality(OnTheWay(r)) = 1

\* A task of a runner without a group that was not removed gets its key and can
\* set its value, whichever worker runs it, when no growth is moving or has
\* moved the runner.
KeyAvailable ==
  \A w \in Workers, r \in Runners :
    ( /\ CanRun(w, r) /\ InNoGroup(r) /\ runner[r].life = "bound"
      /\ r \notin Adrift \union history["again"] \union history["wiped"] )
      => LET v == runner[r].worker_ IN
         WorkerSetSpecific(v, r, WorkerKeyCreate(v, r))

\* The specifics of a runner follow it: they are in one map, and it is the one
\* its tasks look into (UpdateWorkerSpecific of worker_manager.cc).
SpecificsFollow == InOneMap /\ KeyAvailable

\* index_ is a valid position whenever a runner is created or rebound among
\* more than one worker: only with one worker can it run past the end.
IndexSafe ==
  /\ status = "out_of_range" => 1 \in {size_, balance.target}
  /\ (Ok /\ Unlocked /\ size_ > 1) => index_ < size_

\* Shrinking to one worker never fails the DCHECK nor empties more workers
\* than it must.
ShrinkToOne ==
  balance.target = 1 => balance.reduce_size >= 0 /\ status # "check"

\* The sizes at which the arithmetic of Balance and AddTaskRunner is safe: any
\* creation among several workers, and a shrinking down to a single one.
SafeSizes == IndexSafe /\ ShrinkToOne

\* However often runners are moved, the specifics that are sent after them
\* catch up: again and again, every runner without a group has them at the very
\* worker that it is bound to and none on the way, as long as the workers run,
\* unless it was moved again before they had arrived where worker_ points, was
\* dropped, or destroyed them.
SpecificsArrive ==
  []<>( \/ \A r \in Runners :
             (runner[r].life = "bound" /\ InNoGroup(r))
               => \/ /\ r \notin InFlight
                     /\ \E w \in Workers :
                          r \in worker[w].specifics \intersect BoundTo(w)
                  \/ r \in UNION {history[c] : c \in {"again", "dropped", "wiped"}}
        \/ AnyEnded \/ ~Ok )

\* However often the groups are moved, the workers catch up too: again and
\* again, every bound runner has got into the running list of a worker, unless
\* its group was dropped, or was bound just before the worker stored false in
\* need_balance_.
BoundIsScheduled ==
  []<>( \/ \A r \in Schedulable :
             runner[r].life = "bound"
               => \/ \E w \in Workers : r \in RunnersOf(worker[w].running)
                  \/ r \in history["dropped"] \union overwritten
        \/ AnyEnded \/ ~Ok )
=============================================================================
