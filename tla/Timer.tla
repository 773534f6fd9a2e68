------------------------------- MODULE Timer -------------------------------
(***************************************************************************)
(* One timer (base_timer.cc with one_shot_timer.cc, repeating_timer.cc and *)
(* idle_timer.cc) and the tasks it has posted to its TaskRunner.           *)
(*                                                                         *)
(* A timer has no lock: its calls and its tasks run on the thread of its   *)
(* runner, one after the other, and a call may come from inside the user's *)
(* task.  Of a posted task only the time it is due matters.  A call that   *)
(* posts reads the clock several times; the clock may tick in the middle.  *)
(***************************************************************************)
EXTENDS Integers

CONSTANTS Kinds,    \* the timers to look at: oneshot, repeating, idle
          Delays,   \* delays passed to Start
          MaxTime,  \* bound on the clock
          MaxStarts, MaxResets, MaxStops  \* bounds on the calls

ASSUME KindsAssumption == Kinds \subseteq {"oneshot", "repeating", "idle"}
ASSUME DelaysAssumption == Delays \subseteq Nat
ASSUME BoundsAssumption ==
  MaxTime \in Nat \ {0} /\ MaxStarts \in Nat /\ MaxResets \in Nat
    /\ MaxStops \in Nat

Times == 0..MaxTime
Starts == 1..MaxStarts
NoTask == 0  \* a null user_task_ or idle_task_

VARIABLES
  kind,
  clock,               \* TimePoint::Now()
  is_running, delay,
  desired_run_time, scheduled_run_time,
  user_task,           \* user_task_ or idle_task_: the Start it came with
  posted,              \* how many tasks posted to the runner are due when
  idle_wrappers,       \* PostIdleTask of Start with a timeout, by Start
  idle_direct,         \* PostIdleTask of Start without one, by Start
  task_runner,         \* the runner still exists
  inside,              \* whose task is running: "no", "timer", "idle"
  status,              \* "ok", "aborted" (DCHECK), "undefined", or "cut"
  \* Bounds and history.
  starts, resets, stops,
  runs,                \* how often the task of each Start ran: 0, 1, more (2)
  wanted,              \* the time the last Start or Reset asks for
  stopped,             \* the Starts that a Stop ended and no Reset took up
  overlap,             \* a task was posted while another was still queued
  lost,                \* Reset relied on a queued task when there was none
  bad                  \* a task ran "early", or after Stop: out of a task of
                       \* the "timer", an idle "wrapper", or "direct"

times == <<delay, desired_run_time, scheduled_run_time>>
runner == <<posted, idle_wrappers, idle_direct, task_runner>>
bounds == <<starts, resets, stops>>
history == <<runs, wanted, stopped, overlap, lost, bad>>
vars == <<kind, clock, is_running, times, user_task, runner, inside, status,
          bounds, history>>

Nothing == [t \in Times |-> 0]

\* A posted task is due by time u.
QueuedBy(u) == \E t \in Times : posted[t] > 0 /\ t <= u

\* The clock is past the epoch, the value of a default TimePoint; is_running_
\* is not initialized.
Init ==
  /\ kind \in Kinds
  /\ clock = 1
  /\ is_running \in BOOLEAN
  /\ delay = 0 /\ desired_run_time = 0 /\ scheduled_run_time = 0
  /\ user_task = NoTask
  /\ posted = Nothing /\ idle_wrappers = {} /\ idle_direct = {}
  /\ task_runner = TRUE
  /\ inside = "no" /\ status = "ok"
  /\ starts = 0 /\ resets = 0 /\ stops = 0
  /\ runs = [s \in Starts |-> 0]
  /\ wanted = 0 /\ stopped = {} /\ overlap = FALSE /\ lost = FALSE
  /\ bad = {}

-----------------------------------------------------------------------------
(* BaseTimer. *)

\* ScheduleNewTask(d), with queue in the runner, which reads the clock as t;
\* the timer then reads it as u.  When the runner is gone nothing is posted.
ScheduleNewTask(queue, d, t, u, kept) ==
  IF task_runner
    THEN /\ is_running' = TRUE
         /\ posted' = [queue EXCEPT ![t + d] = @ + 1]
         /\ scheduled_run_time' = u + d
         /\ desired_run_time' = u + d
         /\ overlap' = (overlap \/ queue # Nothing)
    ELSE /\ desired_run_time' = kept
         /\ UNCHANGED <<is_running, posted, scheduled_run_time, overlap>>

\* The first turn of Reset: the last scheduled time has passed.
Passed == scheduled_run_time < clock

\* The last turn of Reset: the queued task serves for a later time as well.
Rely(d, t) ==
  /\ desired_run_time' = t + d
  /\ is_running' = TRUE
  /\ lost' = (lost \/ ~QueuedBy(scheduled_run_time))
  /\ UNCHANGED <<posted, scheduled_run_time, overlap>>

ResetM(d, t, u) ==  \* mutant: a queued task is always good enough
  \/ /\ Passed
     /\ ScheduleNewTask(posted, d, t, u, desired_run_time) /\ UNCHANGED lost
  \/ ~Passed /\ Rely(d, t)

\* Reset with delay_ = d.
Reset(d, t, u) ==
  \/ /\ Passed
     /\ ScheduleNewTask(posted, d, t, u, desired_run_time) /\ UNCHANGED lost
  \/ ~Passed /\ t + d >= scheduled_run_time /\ Rely(d, t)
  \/ /\ ~Passed /\ t + d < scheduled_run_time
     /\ ScheduleNewTask(posted, d, t, u, t + d) /\ UNCHANGED lost

\* The clock readings of a call that takes until clock'.
Readings(d) ==
  { r \in Times \X Times :
      /\ clock <= r[1] /\ r[1] <= r[2] /\ r[2] <= clock + 1
      /\ r[2] + d <= MaxTime }  \* bound

\* The running task is owned by the timer: replacing it destroys it.  A
\* one-shot timer has moved it out.
OwnsRunning == inside = "timer" /\ kind # "oneshot"

Undefined ==
  /\ status' = "undefined"
  /\ UNCHANGED <<kind, clock, is_running, times, user_task, runner, inside,
                 bounds, history>>

\* Start(user_task, delay); IdleTimer posts the idle task as well, and wants a
\* timeout above zero.
Start(d) ==
  /\ status = "ok" /\ starts < MaxStarts
  /\ \/ OwnsRunning /\ Undefined
     \/ /\ ~OwnsRunning
        /\ kind = "idle" => d > 0 /\ task_runner
        /\ \E r \in Readings(d) :
             clock' = r[2] /\ Reset(d, r[1], r[2])
        /\ starts' = starts + 1
        /\ user_task' = starts + 1
        /\ delay' = d
        /\ wanted' = clock + d
        /\ idle_wrappers' = IF kind = "idle"
                              THEN idle_wrappers \union {starts + 1}
                              ELSE idle_wrappers
        /\ UNCHANGED <<kind, idle_direct, task_runner, inside, status, resets,
                       stops, runs, stopped, bad>>

\* Start(idle_task) of IdleTimer: the idle task itself is posted, without a
\* timeout.
StartIdle ==
  /\ status = "ok" /\ kind = "idle" /\ task_runner
  /\ starts < MaxStarts
  /\ \/ OwnsRunning /\ Undefined
     \/ /\ ~OwnsRunning
        /\ starts' = starts + 1
        /\ user_task' = starts + 1
        /\ idle_direct' = idle_direct \union {starts + 1}
        /\ UNCHANGED <<kind, clock, is_running, times, posted, idle_wrappers,
                       task_runner, inside, status, resets, stops, history>>

\* The public Reset.
ResetCall ==
  /\ status = "ok"
  /\ resets < MaxResets /\ resets' = resets + 1  \* bound
  /\ \E r \in Readings(delay) :
       clock' = r[2] /\ Reset(delay, r[1], r[2])
  /\ wanted' = clock + delay
  /\ stopped' = stopped \ {user_task}
  /\ UNCHANGED <<kind, delay, user_task, idle_wrappers, idle_direct,
                 task_runner, inside, status, starts, stops, runs, bad>>

\* OnStop: a repeating timer keeps its task.
AfterStop == IF kind = "repeating" THEN user_task ELSE NoTask

Stop ==
  /\ status = "ok"
  /\ stops < MaxStops
  /\ \/ OwnsRunning /\ kind = "idle" /\ Undefined
     \/ /\ ~(OwnsRunning /\ kind = "idle")
        /\ stops' = stops + 1
        /\ is_running' = FALSE
        /\ user_task' = AfterStop
        /\ stopped' = 1..starts
        /\ UNCHANGED <<kind, clock, times, runner, inside, status, starts,
                       resets, runs, wanted, overlap, lost, bad>>

-----------------------------------------------------------------------------
(* The user's task. *)

Counted(s) == runs' = [runs EXCEPT ![s] = IF @ = 0 THEN 1 ELSE 2]

\* What there is to say of a run of the task of Start s, out of way.
Late(s, way) == IF s \in stopped THEN {way} ELSE {}

\* The task of Start s begins to run.  wanted is the time of the last Start or
\* Reset, unless the caller says now.
Runs(s, asked) ==
  /\ Counted(s)
  /\ bad' = bad \union Late(s, "timer")
                \union (IF clock + 1 < asked THEN {"early"} ELSE {})

RunOneShotM(asked) ==  \* mutant: the task is not moved out
  /\ user_task # NoTask
  /\ Runs(user_task, asked)
  /\ is_running' = FALSE
  /\ inside' = "timer"
  /\ UNCHANGED <<clock, desired_run_time, scheduled_run_time, user_task,
                 status, wanted, overlap>>

\* OneShotTimer::RunUserTask: move the task out, Stop, run it.
RunOneShot(asked) ==
  \/ /\ user_task = NoTask
     /\ status' = "aborted"  \* TDF_BASE_DCHECK(task)
     /\ UNCHANGED <<clock, is_running, desired_run_time, scheduled_run_time,
                    user_task, inside, runs, wanted, overlap, bad>>
  \/ /\ user_task # NoTask
     /\ Runs(user_task, asked)
     /\ is_running' = FALSE
     /\ user_task' = NoTask
     /\ inside' = "timer"
     /\ UNCHANGED <<clock, desired_run_time, scheduled_run_time, status,
                    wanted, overlap>>

FireNow ==
  /\ status = "ok" /\ kind = "oneshot"
  /\ is_running  \* TDF_BASE_DCHECK(IsRunning())
  /\ RunOneShot(0)
  /\ UNCHANGED <<kind, delay, runner, bounds, stopped, lost>>

\* RepeatingTimer::RunUserTask: schedule the next run, then run the task; a
\* Reset before any Start gets here without one.
RunRepeating(queue) ==
  \/ /\ user_task = NoTask
     /\ status' = "undefined"
     /\ posted' = queue
     /\ UNCHANGED <<clock, is_running, desired_run_time, scheduled_run_time,
                    user_task, inside, runs, wanted, overlap, bad>>
  \/ /\ user_task # NoTask
     /\ \E r \in Readings(delay) :
          /\ clock' = r[2]
          /\ ScheduleNewTask(queue, delay, r[1], r[2], desired_run_time)
          /\ wanted' = r[1] + delay
     /\ Runs(user_task, wanted)
     /\ inside' = "timer"
     /\ UNCHANGED <<user_task, status>>
  \/ /\ user_task # NoTask
     /\ Readings(delay) = {}
     /\ status' = "cut"  \* bound: the next run is beyond MaxTime
     /\ Runs(user_task, wanted)
     /\ posted' = queue
     /\ UNCHANGED <<clock, is_running, desired_run_time, scheduled_run_time,
                    user_task, inside, wanted, overlap>>

\* IdleTimer::RunUserTask: run the idle task, if there is one; the Stop after
\* it is the step Return.
RunIdle ==
  /\ IF user_task = NoTask
       THEN UNCHANGED <<runs, bad, inside>>
       ELSE Runs(user_task, wanted) /\ inside' = "timer"
  /\ UNCHANGED <<clock, is_running, desired_run_time, scheduled_run_time,
                 user_task, status, wanted, overlap>>

PostponedM == FALSE  \* mutant: the later time a Reset asked for is ignored

\* The test of OnScheduledTaskInvoked that posts the task once more.
Postponed ==
  desired_run_time > scheduled_run_time /\ desired_run_time > clock

\* The rest of OnScheduledTaskInvoked for a timer that is running, the runner's
\* queue being what is left of it.
RunOrPostpone(queue) ==
  IF Postponed
    THEN /\ LET d == desired_run_time - clock IN
            \E r \in Readings(d) :
              /\ clock' = r[2]
              /\ ScheduleNewTask(queue, d, r[1], r[2], desired_run_time)
         /\ UNCHANGED <<user_task, inside, status, runs, wanted, bad>>
    ELSE \/ kind = "oneshot" /\ RunOneShot(wanted) /\ posted' = queue
         \/ kind = "repeating" /\ RunRepeating(queue)
         \/ kind = "idle" /\ RunIdle /\ posted' = queue

InvokedM(queue) == RunOrPostpone(queue)  \* mutant: Stop is not looked at

InvokedM2(queue) ==  \* mutant: a task that comes too soon is not posted again
  IF ~is_running \/ Postponed
    THEN /\ posted' = queue
         /\ UNCHANGED <<clock, is_running, desired_run_time,
                        scheduled_run_time, user_task, inside, status, runs,
                        wanted, overlap, bad>>
    ELSE RunOrPostpone(queue)

Invoked(queue) ==
  IF ~is_running
    THEN /\ posted' = queue
         /\ UNCHANGED <<clock, is_running, desired_run_time,
                        scheduled_run_time, user_task, inside, status, runs,
                        wanted, overlap, bad>>
    ELSE RunOrPostpone(queue)

\* The runner runs a posted task that is due.
OnScheduledTaskInvoked(t) ==
  /\ status = "ok" /\ inside = "no"
  /\ task_runner /\ posted[t] > 0 /\ t <= clock
  /\ Invoked([posted EXCEPT ![t] = @ - 1])
  /\ UNCHANGED <<kind, delay, idle_wrappers, idle_direct, task_runner, bounds,
                 stopped, lost>>

\* The runner's worker runs an idle task: the wrapper finds the idle task only
\* while the timer still holds it; a direct one is the idle task, and Stop
\* does not reach it.
IdleTaskInvoked(s) ==
  /\ status = "ok" /\ inside = "no" /\ task_runner
  /\ s \in idle_wrappers \union idle_direct
  /\ idle_wrappers' = idle_wrappers \ {s}
  /\ idle_direct' = idle_direct \ {s}
  /\ IF s \in idle_direct \/ user_task = s
       THEN /\ Counted(s)
            /\ inside' = "idle"
            /\ bad' = bad \union
                 Late(s, IF s \in idle_direct THEN "direct" ELSE "wrapper")
       ELSE UNCHANGED <<runs, inside, bad>>
  /\ UNCHANGED <<kind, clock, is_running, times, user_task, posted,
                 task_runner, status, bounds, wanted, stopped, overlap, lost>>

\* The user's task returns; IdleTimer then stops.
Return ==
  /\ status = "ok" /\ inside # "no"
  /\ inside' = "no"
  /\ IF inside = "timer" /\ kind = "idle"
       THEN is_running' = FALSE /\ user_task' = NoTask
       ELSE UNCHANGED <<is_running, user_task>>
  /\ UNCHANGED <<kind, clock, times, runner, status, bounds, history>>

\* The last reference to the runner goes, and its queues with it.
RunnerDestroyed ==
  /\ status = "ok" /\ task_runner /\ inside = "no"
  /\ task_runner' = FALSE
  /\ posted' = Nothing /\ idle_wrappers' = {} /\ idle_direct' = {}
  /\ UNCHANGED <<kind, clock, is_running, times, user_task, inside, status,
                 bounds, history>>

Tick ==
  /\ status = "ok"
  /\ clock < MaxTime
  /\ clock' = clock + 1
  /\ UNCHANGED <<kind, is_running, times, user_task, runner, inside, status,
                 bounds, history>>

Calls ==
  \/ \E d \in Delays : Start(d)
  \/ StartIdle \/ ResetCall \/ Stop \/ FireNow

RunnerStep == (\E t \in Times : OnScheduledTaskInvoked(t)) \/ Return

Next ==
  \/ Calls
  \/ RunnerStep
  \/ \E s \in Starts : IdleTaskInvoked(s)
  \/ RunnerDestroyed
  \/ Tick

\* The runner runs what is due and time passes; nobody has to call, and the
\* worker need not be idle.
Fairness == WF_vars(RunnerStep) /\ WF_vars(Tick)

Spec == Init /\ [][Next]_vars /\ Fairness

-----------------------------------------------------------------------------
(* Properties. *)

\* Every variable has its type.
TypeOK ==
  /\ kind \in Kinds /\ clock \in Times
  /\ is_running \in BOOLEAN
  /\ delay \in Delays \union {0}
  /\ desired_run_time \in Times /\ scheduled_run_time \in Times
  /\ user_task \in Starts \union {NoTask}
  /\ posted \in [Times -> Nat]
  /\ idle_wrappers \subseteq Starts /\ idle_direct \subseteq Starts
  /\ task_runner \in BOOLEAN
  /\ inside \in {"no", "timer", "idle"}
  /\ status \in {"ok", "aborted", "undefined", "cut"}
  /\ starts \in 0..MaxStarts /\ resets \in 0..MaxResets
  /\ stops \in 0..MaxStops
  /\ runs \in [Starts -> 0..2]
  /\ wanted \in Times
  /\ stopped \subseteq Starts
  /\ overlap \in BOOLEAN /\ lost \in BOOLEAN
  /\ bad \subseteq {"early", "timer", "wrapper", "direct"}

\* Whatever Starts, Resets, Stops and FireNows are made, and however many of its
\* posted tasks are still queued, a one-shot timer runs the task of a Start
\* at most once; and every variable keeps its type.
OncePerStart ==
  TypeOK /\ (kind = "oneshot" => \A s \in Starts : runs[s] <= 1)

\* What a Stop ended runs no more, neither out of a task of the timer that was
\* still queued nor out of the wrapper that Start posted as an idle task, until
\* a Reset takes it up again.  The one task that does run after Stop is the
\* idle task that a Start without a timeout hands to the runner itself: Stop
\* has nothing to hold it back by.
NothingAfterStop == bad \cap {"timer", "wrapper"} = {}

\* The timer is early by no more than the time a call takes between its
\* readings of the clock, unless a second task was posted while the first was
\* queued: the first one, when it runs, cannot tell that it is not the last.
NotEarly == "early" \in bad => overlap

\* A timer that was started and is running, from inside its task too, has a
\* task queued for the desired time or before, unless a Reset relied on one
\* that had been run already: scheduled_run_time_ is read from the clock after
\* the runner computed the deadline, so the task may run before it.
RunningHasTask ==
  (is_running /\ starts > 0 /\ task_runner /\ kind # "idle" /\ status = "ok")
    => lost \/ QueuedBy(desired_run_time)

\* What was started runs in the end, unless it is stopped or started anew, the
\* runner is gone or the Reset was lost.
StartedRuns ==
  \A s \in Starts :
    (user_task = s /\ is_running /\ kind # "idle")
      ~> (runs[s] > 0 \/ s \in stopped \/ user_task # s \/ ~task_runner \/ lost
          \/ status # "ok")
=============================================================================
