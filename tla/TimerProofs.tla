----------------------------- MODULE TimerProofs -----------------------------
(* Proofs about Timer, for all kinds, delays and numbers of calls.          *)
EXTENDS Timer, TLAPS

-----------------------------------------------------------------------------
(* The inductive invariant, in parts. *)

\* Only an idle timer posts idle tasks.
IdlePosts == kind # "idle" => idle_wrappers = {} /\ idle_direct = {}

\* The task of a Start that has run is no longer held by a one-shot timer.
Spent ==
  /\ user_task <= starts
  /\ kind = "oneshot" =>
       \A s \in Starts : runs[s] # 0 => runs[s] = 1 /\ user_task # s /\ s <= starts

\* What Stop ended is not held by a timer that is running, and by none but a
\* repeating one.
StopClears ==
  /\ stopped \subseteq 1..starts
  /\ user_task \in stopped => ~is_running /\ kind = "repeating"

\* As long as there was never more than one task in the runner's queue, the
\* one that is there belongs to scheduled_run_time, which was read from the
\* clock at most one tick later.
SoleTask ==
  ~overlap => \A t \in Times : posted[t] > 0 => scheduled_run_time <= t + 1

\* desired_run_time is never before what the last call asked for.
AskedFor == task_runner => wanted <= desired_run_time

Inv ==
  /\ TypeOK /\ IdlePosts /\ Spent /\ StopClears /\ SoleTask /\ AskedFor
  /\ NothingAfterStop /\ NotEarly /\ RunningHasTask

-----------------------------------------------------------------------------
(* Posting. *)

\* What holds after every call that may post a task.
PostTypes ==
  /\ is_running' \in BOOLEAN /\ overlap' \in BOOLEAN /\ lost' \in BOOLEAN
  /\ posted' \in [Times -> Nat]
  /\ desired_run_time' \in Times /\ scheduled_run_time' \in Times

LEMMA ReadingTypes ==
  ASSUME TypeOK, NEW d \in Nat, NEW r \in Readings(d)
  PROVE  /\ r[1] \in Times /\ r[2] \in Times
         /\ clock <= r[1] /\ r[1] <= r[2] /\ r[2] <= r[1] + 1
         /\ r[1] + d \in Times /\ r[2] + d \in Times /\ clock + d \in Times
<1>1. /\ r[1] \in Times /\ r[2] \in Times /\ clock <= r[1] /\ r[1] <= r[2]
      /\ r[2] <= clock + 1 /\ r[2] + d <= MaxTime
  BY DEF Readings
<1>2. PICK c \in Times, t \in Times, u \in Times : c = clock /\ t = r[1] /\ u = r[2]
  BY <1>1 DEF TypeOK
<1>3. c <= t /\ t <= u /\ u <= c + 1 /\ u + d <= MaxTime
  BY <1>1, <1>2
<1>4. u <= t + 1 /\ t + d \in Times /\ u + d \in Times /\ c + d \in Times
  BY <1>3, BoundsAssumption DEF Times
<1> QED BY <1>2, <1>3, <1>4

\* ScheduleNewTask with a queue that is the runner's, or what is left of it.
LEMMA Schedule ==
  ASSUME TypeOK, SoleTask, NEW queue \in [Times -> Nat],
         \A x \in Times : queue[x] <= posted[x],
         NEW d \in Nat, NEW r \in Readings(d), NEW kept \in Times,
         ScheduleNewTask(queue, d, r[1], r[2], kept), UNCHANGED <<lost, task_runner>>
  PROVE  /\ PostTypes /\ SoleTask' /\ (overlap => overlap')
         /\ task_runner => /\ desired_run_time' = r[2] + d
                           /\ is_running' /\ QueuedBy(desired_run_time)'
         /\ ~task_runner => is_running' = is_running /\ desired_run_time' = kept
<1> DEFINE t == r[1]
           u == r[2]
<1>1. /\ t \in Times /\ u \in Times /\ t <= u /\ u <= t + 1
      /\ t + d \in Times /\ u + d \in Times
  BY ReadingTypes
<1> HIDE DEF t, u
<1>2. CASE task_runner
  <2>1. /\ is_running' = TRUE /\ posted' = [queue EXCEPT ![t + d] = queue[t + d] + 1]
        /\ scheduled_run_time' = u + d /\ desired_run_time' = u + d
        /\ overlap' = (overlap \/ queue # Nothing)
    BY <1>2 DEF ScheduleNewTask, t, u
  <2>2. overlap' \in BOOLEAN /\ (overlap => overlap') /\ (~overlap' => queue = Nothing)
    BY <2>1
  <2>3. PICK k \in Times : k = t + d
    BY <1>1
  <2>4. posted' \in [Times -> Nat] /\ posted'[k] > 0
        /\ \A x \in Times : x # k => posted'[x] = queue[x]
    BY <2>1, <2>3
  <2>5. PostTypes
    BY <1>1, <2>1, <2>2, <2>4 DEF PostTypes, TypeOK
  <2>6. SoleTask'
    <3> SUFFICES ASSUME ~overlap', NEW x \in Times, posted'[x] > 0
                 PROVE  scheduled_run_time' <= x + 1
      BY DEF SoleTask
    <3>1. queue[x] = 0
      BY <2>2 DEF Nothing
    <3>2. x = t + d
      BY <2>3, <2>4, <3>1
    <3>3. t \in Int /\ u \in Int
      BY <1>1, BoundsAssumption DEF Times
    <3> QED BY <1>1, <2>1, <3>2, <3>3
  <2>7. QueuedBy(desired_run_time)'
    <3>1. posted'[k] > 0 /\ k <= desired_run_time'
      BY <1>1, <2>1, <2>3, <2>4, BoundsAssumption DEF Times
    <3> QED BY <3>1 DEF QueuedBy
  <2> QED BY <1>2, <2>1, <2>2, <2>5, <2>6, <2>7 DEF u
<1>3. CASE ~task_runner
  <2>1. /\ desired_run_time' = kept
        /\ UNCHANGED <<is_running, posted, scheduled_run_time, overlap>>
    BY <1>3 DEF ScheduleNewTask
  <2> QED BY <1>3, <2>1 DEF PostTypes, TypeOK, SoleTask
<1> QED BY <1>2, <1>3 DEF TypeOK

\* Reset leaves a task queued for the time it asks for, or knows that it relied
\* on one that is not there.
LEMMA ResetPosts ==
  ASSUME TypeOK, SoleTask, NEW d \in Nat, NEW r \in Readings(d),
         Reset(d, r[1], r[2]), UNCHANGED task_runner
  PROVE  /\ PostTypes /\ SoleTask' /\ (overlap => overlap')
         /\ task_runner => /\ clock + d <= desired_run_time'
                           /\ lost' \/ QueuedBy(desired_run_time)'
<1>1. /\ r[1] \in Times /\ r[2] \in Times /\ clock <= r[1] /\ r[1] <= r[2]
      /\ r[1] + d \in Times /\ r[2] + d \in Times
  BY ReadingTypes
<1>2. posted \in [Times -> Nat] /\ (\A x \in Times : posted[x] <= posted[x])
  BY DEF TypeOK
<1>6. desired_run_time \in Times /\ clock \in Times
  BY DEF TypeOK
<1>7. clock \in Int /\ r[1] \in Int /\ r[2] \in Int
  BY <1>1, <1>6, BoundsAssumption DEF Times
<1>3. CASE /\ ScheduleNewTask(posted, d, r[1], r[2], desired_run_time)
           /\ UNCHANGED lost
  BY <1>1, <1>2, <1>3, <1>6, <1>7, Schedule
<1>4. CASE /\ ScheduleNewTask(posted, d, r[1], r[2], r[1] + d)
           /\ UNCHANGED lost
  BY <1>1, <1>2, <1>4, <1>7, Schedule
<1>5. CASE r[1] + d >= scheduled_run_time /\ Rely(d, r[1])
  <2>1. /\ desired_run_time' = r[1] + d /\ is_running' = TRUE
        /\ lost' = (lost \/ ~QueuedBy(scheduled_run_time))
        /\ UNCHANGED <<posted, scheduled_run_time, overlap>>
    BY <1>5 DEF Rely
  <2>2. lost' \in BOOLEAN /\ (lost' \/ QueuedBy(scheduled_run_time))
    BY <2>1
  <2>3. QueuedBy(scheduled_run_time) => QueuedBy(desired_run_time)'
    <3> SUFFICES ASSUME NEW x \in Times, posted[x] > 0, x <= scheduled_run_time
                 PROVE  QueuedBy(desired_run_time)'
      BY DEF QueuedBy
    <3>1. x <= desired_run_time' /\ posted'[x] > 0
      BY <1>1, <1>5, <2>1, BoundsAssumption DEF Times, TypeOK
    <3> QED BY <3>1 DEF QueuedBy
  <2>4. PostTypes
    BY <1>1, <2>1, <2>2 DEF PostTypes, TypeOK
  <2>5. SoleTask' /\ (overlap => overlap')
    BY <2>1 DEF SoleTask
  <2>6. clock + d <= desired_run_time'
    BY <1>1, <1>7, <2>1
  <2> QED BY <2>2, <2>3, <2>4, <2>5, <2>6
<1> QED BY <1>3, <1>4, <1>5 DEF Reset

-----------------------------------------------------------------------------
(* The steps of the timer. *)

\* What the timer is about to run is not too early and was not stopped.
LEMMA RunsInTime ==
  ASSUME Inv, is_running, NEW s \in Starts, s = user_task, NEW asked,
         asked = 0 \/ (asked \in Times /\ (~overlap => asked <= clock + 1)),
         Runs(s, asked)
  PROVE  /\ bad' \subseteq {"early", "timer", "wrapper", "direct"} /\ runs' \in [Starts -> 0..2]
         /\ bad' \cap {"timer", "wrapper"} = {} /\ ("early" \in bad' => overlap)
         /\ \A x \in Starts : x # s => runs'[x] = runs[x]
         /\ runs[s] = 0 => runs'[s] = 1
<1>1. TypeOK /\ s \notin stopped /\ bad \cap {"timer", "wrapper"} = {} /\ ("early" \in bad => overlap)
  BY DEF Inv, StopClears, NothingAfterStop, NotEarly
<1>2. clock \in Nat
  BY <1>1, BoundsAssumption DEF TypeOK, Times
<1>3. /\ runs' = [runs EXCEPT ![s] = IF runs[s] = 0 THEN 1 ELSE 2]
      /\ bad' = bad \union (IF clock + 1 < asked THEN {"early"} ELSE {})
  BY <1>1 DEF Runs, Counted, Late
<1>4. clock + 1 < asked => overlap
  BY <1>2, BoundsAssumption DEF Times
<1>5. runs \in [Starts -> 0..2] /\ bad \subseteq {"early", "timer", "wrapper", "direct"}
  BY <1>1 DEF TypeOK
<1>6. /\ runs' \in [Starts -> 0..2] /\ (runs[s] = 0 => runs'[s] = 1)
      /\ \A x \in Starts : x # s => runs'[x] = runs[x]
  BY <1>3, <1>5
<1> QED BY <1>1, <1>3, <1>4, <1>5, <1>6

\* A task of the runner that comes when the timer does not postpone it is not
\* early, unless it was not alone.
LEMMA InTime ==
  ASSUME Inv, ~Postponed, task_runner, ~overlap,
         NEW t \in Times, posted[t] > 0, t <= clock
  PROVE  wanted <= clock + 1
<1>1. /\ clock \in Times /\ wanted \in Times /\ desired_run_time \in Times
      /\ scheduled_run_time \in Times
  BY DEF Inv, TypeOK
<1>2. wanted <= desired_run_time /\ scheduled_run_time <= t + 1
  BY DEF Inv, AskedFor, SoleTask
<1>3. desired_run_time <= scheduled_run_time \/ desired_run_time <= clock
  BY <1>1, BoundsAssumption DEF Postponed, Times
<1> QED BY <1>1, <1>2, <1>3, BoundsAssumption DEF Times

\* A timer that holds no task holds none that was stopped.
LEMMA HoldsNothing ==
  ASSUME Inv, user_task' = NoTask, UNCHANGED <<starts, stopped>>
  PROVE  StopClears'
<1>1. stopped \subseteq 1..starts /\ NoTask \notin 1..starts
  BY DEF Inv, StopClears, NoTask
<1> QED BY <1>1 DEF StopClears

LEMMA UndefinedStep ==
  ASSUME Inv, Undefined
  PROVE  Inv'
<1> USE DEF Undefined, times, runner, bounds, history
<1>1. TypeOK'
  BY DEF Inv, TypeOK
<1>2. IdlePosts' /\ Spent' /\ StopClears' /\ SoleTask' /\ AskedFor'
  BY DEF Inv, IdlePosts, Spent, StopClears, SoleTask, AskedFor
<1>3. NothingAfterStop' /\ NotEarly' /\ RunningHasTask'
  BY DEF Inv, NothingAfterStop, NotEarly, RunningHasTask
<1> QED BY <1>1, <1>2, <1>3 DEF Inv

LEMMA StartStep ==
  ASSUME Inv, NEW d \in Delays, Start(d)
  PROVE  Inv'
<1>1. CASE Undefined
  BY <1>1, UndefinedStep
<1>2. CASE ~OwnsRunning
  <2>0. /\ ~OwnsRunning /\ starts < MaxStarts
        /\ starts' = starts + 1 /\ user_task' = starts + 1 /\ delay' = d
        /\ wanted' = clock + d
        /\ idle_wrappers' = IF kind = "idle" THEN idle_wrappers \union {starts + 1}
                                             ELSE idle_wrappers
        /\ UNCHANGED <<kind, idle_direct, task_runner, inside, status, resets,
                       stops, runs, stopped, bad>>
    BY <1>2 DEF Start
  <2>1. PICK r \in Readings(d) : clock' = r[2] /\ Reset(d, r[1], r[2])
    BY <1>2 DEF Start
  <2>2. d \in Nat /\ TypeOK /\ SoleTask
    BY DelaysAssumption DEF Inv
  <2>3. /\ PostTypes /\ SoleTask' /\ (overlap => overlap')
        /\ task_runner => /\ clock + d <= desired_run_time'
                          /\ lost' \/ QueuedBy(desired_run_time)'
    BY <2>0, <2>1, <2>2, ResetPosts
  <2>4. clock' \in Times /\ wanted' \in Times
    BY <2>0, <2>1, <2>2, ReadingTypes
  <2>5. starts + 1 \in Starts /\ starts' \in 0..MaxStarts /\ starts \in Nat
    BY <2>0, <2>2, BoundsAssumption DEF TypeOK, Starts
  <2>6. TypeOK'
    BY <2>0, <2>2, <2>3, <2>4, <2>5 DEF TypeOK, PostTypes
  <2>7. IdlePosts' /\ StopClears' /\ AskedFor' /\ NothingAfterStop' /\ NotEarly'
    <3>1. StopClears'
      BY <2>0, <2>5 DEF Inv, StopClears
    <3> QED BY <2>0, <2>3, <3>1 DEF Inv, IdlePosts, AskedFor, NothingAfterStop, NotEarly
  <2>8. Spent'
    <3>1. \A s \in Starts : s \in Nat
      BY BoundsAssumption DEF Starts
    <3> QED BY <2>0, <2>5, <3>1 DEF Inv, Spent
  <2>9. RunningHasTask'
    BY <2>0, <2>3 DEF RunningHasTask
  <2> QED BY <2>3, <2>6, <2>7, <2>8, <2>9 DEF Inv
<1> QED BY <1>1, <1>2 DEF Start

LEMMA ResetStep ==
  ASSUME Inv, ResetCall
  PROVE  Inv'
<1>0. /\ resets < MaxResets /\ resets' = resets + 1
      /\ wanted' = clock + delay /\ stopped' = stopped \ {user_task}
      /\ UNCHANGED <<kind, delay, user_task, idle_wrappers, idle_direct,
                     task_runner, inside, status, starts, stops, runs, bad>>
  BY DEF ResetCall
<1>1. PICK r \in Readings(delay) : clock' = r[2] /\ Reset(delay, r[1], r[2])
  BY DEF ResetCall
<1>2. TypeOK /\ SoleTask /\ delay \in Nat
  BY DelaysAssumption DEF Inv, TypeOK
<1>3. /\ PostTypes /\ SoleTask' /\ (overlap => overlap')
      /\ task_runner => /\ clock + delay <= desired_run_time'
                        /\ lost' \/ QueuedBy(desired_run_time)'
  BY <1>0, <1>1, <1>2, ResetPosts
<1>4. clock' \in Times /\ wanted' \in Times
  BY <1>0, <1>1, <1>2, ReadingTypes
<1>5. resets' \in 0..MaxResets
  BY <1>0, <1>2, BoundsAssumption DEF TypeOK
<1>6. TypeOK'
  BY <1>0, <1>2, <1>3, <1>4, <1>5 DEF TypeOK, PostTypes
<1>7. IdlePosts' /\ Spent' /\ StopClears' /\ AskedFor' /\ NothingAfterStop' /\ NotEarly'
  BY <1>0, <1>3 DEF Inv, IdlePosts, Spent, StopClears, AskedFor, NothingAfterStop, NotEarly
<1>8. RunningHasTask'
  BY <1>0, <1>3 DEF RunningHasTask
<1> QED BY <1>3, <1>6, <1>7, <1>8 DEF Inv

\* Stop, the Start without a timeout, the return of the user's task, the end of
\* the runner and the clock.
LEMMA QuietStep ==
  ASSUME Inv, StartIdle \/ Stop \/ Return \/ RunnerDestroyed \/ Tick \/ UNCHANGED vars
  PROVE  Inv'
<1>0. TypeOK
  BY DEF Inv
<1>1. CASE UNCHANGED vars
  <2> USE <1>1 DEF vars, times, runner, bounds, history
  <2>1. TypeOK'
    BY <1>0 DEF TypeOK
  <2>2. IdlePosts' /\ Spent' /\ StopClears' /\ SoleTask' /\ AskedFor'
    BY DEF Inv, IdlePosts, Spent, StopClears, SoleTask, AskedFor
  <2>3. NothingAfterStop' /\ NotEarly' /\ RunningHasTask'
    BY DEF Inv, NothingAfterStop, NotEarly, RunningHasTask, QueuedBy
  <2> QED BY <2>1, <2>2, <2>3 DEF Inv
<1>2. CASE Undefined
  BY <1>2, UndefinedStep
<1>3. CASE StartIdle /\ ~OwnsRunning
  <2>1. /\ kind = "idle" /\ starts < MaxStarts /\ starts' = starts + 1
        /\ user_task' = starts + 1 /\ idle_direct' = idle_direct \union {starts + 1}
        /\ UNCHANGED <<kind, clock, is_running, times, posted, idle_wrappers,
                       task_runner, inside, status, resets, stops, history>>
    BY <1>3 DEF StartIdle
  <2>2. starts + 1 \in Starts /\ starts' \in 0..MaxStarts /\ starts \in Nat
    BY <1>0, <2>1, BoundsAssumption DEF TypeOK, Starts
  <2>3. TypeOK'
    BY <1>0, <2>1, <2>2 DEF TypeOK, times, history
  <2>4. IdlePosts' /\ Spent' /\ StopClears' /\ SoleTask' /\ AskedFor'
    BY <2>1, <2>2 DEF Inv, IdlePosts, Spent, StopClears, SoleTask, AskedFor, times, history
  <2>5. NothingAfterStop' /\ NotEarly' /\ RunningHasTask'
    BY <2>1 DEF Inv, NothingAfterStop, NotEarly, RunningHasTask, history
  <2> QED BY <2>3, <2>4, <2>5 DEF Inv
<1>4. CASE Stop /\ ~(OwnsRunning /\ kind = "idle")
  <2>1. /\ stops < MaxStops /\ stops' = stops + 1 /\ is_running' = FALSE
        /\ user_task' = AfterStop /\ stopped' = 1..starts
        /\ UNCHANGED <<kind, clock, times, runner, inside, status, starts,
                       resets, runs, wanted, overlap, lost, bad>>
    BY <1>4 DEF Stop
  <2>2. stops' \in 0..MaxStops
    BY <1>0, <2>1, BoundsAssumption DEF TypeOK
  <2>3. user_task' = user_task \/ user_task' = NoTask
    BY <2>1 DEF AfterStop
  <2>4. TypeOK'
    <3>1. 1..starts \subseteq Starts
      BY <1>0, BoundsAssumption DEF TypeOK, Starts
    <3> QED BY <1>0, <2>1, <2>2, <2>3, <3>1 DEF TypeOK, times, runner
  <2>5. Spent'
    <3>1. NoTask \notin Starts /\ starts \in Nat
      BY <1>0 DEF Starts, NoTask, TypeOK
    <3> QED BY <2>1, <2>3, <3>1 DEF Inv, Spent, NoTask
  <2>6. IdlePosts' /\ StopClears' /\ SoleTask' /\ AskedFor'
    <3>1. NoTask \notin 1..starts
      BY DEF NoTask
    <3>2. StopClears'
      BY <2>1, <3>1 DEF StopClears, AfterStop
    <3> QED BY <2>1, <3>2 DEF Inv, IdlePosts, SoleTask, AskedFor, times, runner
  <2>7. NothingAfterStop' /\ NotEarly' /\ RunningHasTask'
    BY <2>1 DEF Inv, NothingAfterStop, NotEarly, RunningHasTask
  <2> QED BY <2>4, <2>5, <2>6, <2>7 DEF Inv
<1>5. CASE Return
  <2>1. /\ inside' = "no"
        /\ UNCHANGED <<kind, clock, times, runner, status, bounds, history>>
        /\ \/ UNCHANGED <<is_running, user_task>>
           \/ kind = "idle" /\ is_running' = FALSE /\ user_task' = NoTask
    BY <1>5 DEF Return
  <2>2. TypeOK'
    BY <1>0, <2>1 DEF TypeOK, times, runner, bounds, history
  <2>3. IdlePosts' /\ StopClears' /\ SoleTask' /\ AskedFor'
    <3>1. StopClears'
      BY <2>1, HoldsNothing DEF Inv, StopClears, bounds, history
    <3> QED BY <2>1, <3>1 DEF Inv, IdlePosts, SoleTask, AskedFor, times, runner, history
  <2>4. Spent'
    BY <1>0, <2>1 DEF Inv, Spent, NoTask, bounds, history, TypeOK
  <2>5. NothingAfterStop' /\ NotEarly' /\ RunningHasTask'
    BY <2>1 DEF Inv, NothingAfterStop, NotEarly, RunningHasTask, QueuedBy, times, runner,
       bounds, history
  <2> QED BY <2>2, <2>3, <2>4, <2>5 DEF Inv
<1>6. CASE RunnerDestroyed
  <2>1. /\ task_runner' = FALSE /\ posted' = Nothing
        /\ idle_wrappers' = {} /\ idle_direct' = {}
        /\ UNCHANGED <<kind, clock, is_running, times, user_task, inside, status,
                       bounds, history>>
    BY <1>6 DEF RunnerDestroyed
  <2>2. TypeOK'
    BY <1>0, <2>1 DEF TypeOK, Nothing, times, bounds, history
  <2>3. IdlePosts' /\ Spent' /\ StopClears' /\ AskedFor'
    BY <2>1 DEF Inv, IdlePosts, Spent, StopClears, AskedFor, bounds, history
  <2>4. SoleTask'
    BY <2>1 DEF SoleTask, Nothing
  <2>5. NothingAfterStop' /\ NotEarly' /\ RunningHasTask'
    BY <2>1 DEF Inv, NothingAfterStop, NotEarly, RunningHasTask, history
  <2> QED BY <2>2, <2>3, <2>4, <2>5 DEF Inv
<1>7. CASE Tick
  <2>1. /\ clock < MaxTime /\ clock' = clock + 1
        /\ UNCHANGED <<kind, is_running, times, user_task, runner, inside, status,
                       bounds, history>>
    BY <1>7 DEF Tick
  <2>2. clock' \in Times
    BY <1>0, <2>1, BoundsAssumption DEF TypeOK, Times
  <2>3. TypeOK'
    BY <1>0, <2>1, <2>2 DEF TypeOK, times, runner, bounds, history
  <2>4. IdlePosts' /\ Spent' /\ StopClears' /\ SoleTask' /\ AskedFor'
    BY <2>1 DEF Inv, IdlePosts, Spent, StopClears, SoleTask, AskedFor, times, runner,
       bounds, history
  <2>5. NothingAfterStop' /\ NotEarly' /\ RunningHasTask'
    BY <2>1 DEF Inv, NothingAfterStop, NotEarly, RunningHasTask, QueuedBy, times, runner,
       bounds, history
  <2> QED BY <2>3, <2>4, <2>5 DEF Inv
<1> QED BY <1>1, <1>2, <1>3, <1>4, <1>5, <1>6, <1>7 DEF StartIdle, Stop

\* FireNow: the task of a one-shot timer, at once.
LEMMA FireNowStep ==
  ASSUME Inv, FireNow
  PROVE  Inv'
<1>0. /\ TypeOK /\ kind = "oneshot" /\ is_running
      /\ UNCHANGED <<kind, delay, runner, bounds, stopped, lost>>
  BY DEF Inv, FireNow
<1>1. CASE /\ user_task = NoTask /\ status' = "aborted"
           /\ UNCHANGED <<clock, is_running, desired_run_time, scheduled_run_time,
                          user_task, inside, runs, wanted, overlap, bad>>
  <2>1. TypeOK'
    BY <1>0, <1>1 DEF TypeOK, runner, bounds
  <2>2. IdlePosts' /\ Spent' /\ StopClears' /\ SoleTask' /\ AskedFor'
    BY <1>0, <1>1 DEF Inv, IdlePosts, Spent, StopClears, SoleTask, AskedFor, runner, bounds
  <2>3. NothingAfterStop' /\ NotEarly' /\ RunningHasTask'
    BY <1>0, <1>1 DEF Inv, NothingAfterStop, NotEarly, RunningHasTask
  <2> QED BY <2>1, <2>2, <2>3 DEF Inv
<1>2. CASE /\ user_task # NoTask /\ Runs(user_task, 0) /\ is_running' = FALSE
           /\ user_task' = NoTask /\ inside' = "timer"
           /\ UNCHANGED <<clock, desired_run_time, scheduled_run_time, status,
                          wanted, overlap>>
  <2>1. PICK s \in Starts : s = user_task
    BY <1>0, <1>2 DEF TypeOK
  <2>2. /\ bad' \subseteq {"early", "timer", "wrapper", "direct"} /\ runs' \in [Starts -> 0..2]
        /\ bad' \cap {"timer", "wrapper"} = {} /\ ("early" \in bad' => overlap)
        /\ \A x \in Starts : x # s => runs'[x] = runs[x]
        /\ runs[s] = 0 => runs'[s] = 1
    BY <1>0, <1>2, <2>1, RunsInTime
  <2>3. TypeOK'
    BY <1>0, <1>2, <2>2 DEF TypeOK, runner, bounds
  <2>4. Spent'
    <3>1. NoTask \notin Starts /\ NoTask <= starts
      BY <1>0, BoundsAssumption DEF Starts, NoTask, TypeOK
    <3> QED BY <1>0, <1>2, <2>1, <2>2, <3>1 DEF Inv, Spent, bounds
  <2>5. IdlePosts' /\ StopClears' /\ SoleTask' /\ AskedFor'
    <3>1. StopClears'
      BY <1>0, <1>2, HoldsNothing DEF bounds
    <3> QED BY <1>0, <1>2, <3>1 DEF Inv, IdlePosts, SoleTask, AskedFor, runner
  <2>6. NothingAfterStop' /\ NotEarly' /\ RunningHasTask'
    BY <1>2, <2>2 DEF NothingAfterStop, NotEarly, RunningHasTask
  <2> QED BY <2>3, <2>4, <2>5, <2>6 DEF Inv
<1> QED BY <1>1, <1>2 DEF FireNow, RunOneShot

\* The worker runs an idle task, which a one-shot timer never posts.
LEMMA IdleStep ==
  ASSUME Inv, NEW s \in Starts, IdleTaskInvoked(s)
  PROVE  Inv'
<1>0. /\ TypeOK /\ s \in idle_wrappers \union idle_direct
      /\ idle_wrappers' = idle_wrappers \ {s} /\ idle_direct' = idle_direct \ {s}
      /\ UNCHANGED <<kind, clock, is_running, times, user_task, posted,
                     task_runner, status, bounds, wanted, stopped, overlap, lost>>
  BY DEF Inv, IdleTaskInvoked
<1>1. kind = "idle"
  BY <1>0 DEF Inv, IdlePosts
<1>2. /\ runs' \in [Starts -> 0..2] /\ inside' \in {"no", "timer", "idle"}
      /\ bad' = bad \/ bad' = bad \union {"direct"}
  <2>1. CASE /\ s \in idle_direct \/ user_task = s
             /\ Counted(s) /\ inside' = "idle"
             /\ bad' = bad \union
                  Late(s, IF s \in idle_direct THEN "direct" ELSE "wrapper")
    <3>1. s \notin idle_direct => s \notin stopped
      BY <1>1, <2>1 DEF Inv, StopClears
    <3>2. bad' = bad \/ bad' = bad \union {"direct"}
      BY <2>1, <3>1 DEF Late
    <3> QED BY <1>0, <2>1, <3>2 DEF Counted, TypeOK
  <2>2. CASE UNCHANGED <<runs, inside, bad>>
    BY <1>0, <2>2 DEF TypeOK
  <2> QED BY <2>1, <2>2 DEF IdleTaskInvoked
<1>3. TypeOK'
  BY <1>0, <1>2 DEF TypeOK, times, bounds
<1>4. IdlePosts' /\ Spent' /\ StopClears' /\ SoleTask' /\ AskedFor'
  BY <1>0, <1>1 DEF Inv, IdlePosts, Spent, StopClears, SoleTask, AskedFor, times, bounds
<1>5. NothingAfterStop' /\ NotEarly' /\ RunningHasTask'
  <2>1. NothingAfterStop' /\ NotEarly'
    BY <1>0, <1>2 DEF Inv, NothingAfterStop, NotEarly
  <2> QED BY <1>0, <1>1, <2>1 DEF RunningHasTask
<1> QED BY <1>3, <1>4, <1>5 DEF Inv

\* A posted task of the timer is run by the runner.
LEMMA InvokedStep ==
  ASSUME Inv, NEW t \in Times, OnScheduledTaskInvoked(t)
  PROVE  Inv'
<1> DEFINE queue == [posted EXCEPT ![t] = @ - 1]
<1>0. /\ TypeOK /\ SoleTask /\ task_runner /\ posted[t] > 0 /\ t <= clock
      /\ UNCHANGED <<kind, delay, idle_wrappers, idle_direct, task_runner, bounds,
                     stopped, lost>>
  BY DEF Inv, OnScheduledTaskInvoked
<1>1. queue \in [Times -> Nat] /\ \A x \in Times : queue[x] <= posted[x]
  <2>1. posted \in [Times -> Nat]
    BY <1>0 DEF TypeOK
  <2> QED BY <1>0, <2>1
<1>2. Invoked(queue)
  BY DEF OnScheduledTaskInvoked
<1> HIDE DEF queue
\* What every outcome but a new post leaves of the invariant.
<1>3. ASSUME posted' = queue,
             UNCHANGED <<clock, desired_run_time, scheduled_run_time, wanted, overlap>>
      PROVE  SoleTask' /\ AskedFor' /\ IdlePosts'
  <2>1. SoleTask'
    <3> SUFFICES ASSUME ~overlap, NEW x \in Times, queue[x] > 0
                 PROVE  scheduled_run_time <= x + 1
      BY <1>3 DEF SoleTask
    <3>1. posted[x] > 0
      BY <1>0, <1>1 DEF TypeOK
    <3> QED BY <1>0, <3>1 DEF SoleTask
  <2>2. AskedFor' /\ IdlePosts'
    BY <1>0, <1>3 DEF Inv, AskedFor, IdlePosts
  <2> QED BY <2>1, <2>2
\* What every outcome that runs the task shows.
<1>4. ASSUME user_task # NoTask, is_running, ~Postponed, Runs(user_task, wanted)
      PROVE  /\ bad' \subseteq {"early", "timer", "wrapper", "direct"} /\ runs' \in [Starts -> 0..2]
             /\ bad' \cap {"timer", "wrapper"} = {} /\ ("early" \in bad' => overlap)
             /\ \A x \in Starts : x # user_task => runs'[x] = runs[x]
             /\ runs[user_task] = 0 => runs'[user_task] = 1
  <2>1. PICK s \in Starts : s = user_task
    BY <1>0, <1>4 DEF TypeOK
  <2>2. wanted \in Times /\ (~overlap => wanted <= clock + 1)
    BY <1>0, <1>4, InTime DEF TypeOK
  <2> QED BY <1>4, <2>1, <2>2, RunsInTime
<1>5. CASE ~is_running
  <2>1. /\ posted' = queue
        /\ UNCHANGED <<clock, is_running, desired_run_time, scheduled_run_time,
                       user_task, inside, status, runs, wanted, overlap, bad>>
    BY <1>2, <1>5 DEF Invoked
  <2>2. TypeOK'
    BY <1>0, <1>1, <2>1 DEF TypeOK, bounds
  <2>3. SoleTask' /\ AskedFor' /\ IdlePosts'
    BY <1>3, <2>1
  <2>4. Spent' /\ StopClears' /\ NothingAfterStop' /\ NotEarly' /\ RunningHasTask'
    BY <1>0, <1>5, <2>1
       DEF Inv, Spent, StopClears, NothingAfterStop, NotEarly, RunningHasTask, bounds
  <2> QED BY <2>2, <2>3, <2>4 DEF Inv
<1>6. CASE is_running /\ Postponed
  <2> DEFINE d == desired_run_time - clock
  <2>1. UNCHANGED <<user_task, inside, status, runs, wanted, bad>>
    BY <1>2, <1>6 DEF Invoked, RunOrPostpone
  <2>2. PICK r \in Readings(d) :
          clock' = r[2] /\ ScheduleNewTask(queue, d, r[1], r[2], desired_run_time)
    BY <1>2, <1>6 DEF Invoked, RunOrPostpone
  <2>3. d \in Nat /\ desired_run_time \in Times /\ clock \in Times
    BY <1>0, <1>6, BoundsAssumption DEF TypeOK, Postponed, Times
  <2>4. r[2] \in Times /\ clock <= r[2]
    <3> HIDE DEF d
    <3>1. clock <= r[1] /\ r[1] <= r[2] /\ r[1] \in Times /\ r[2] \in Times
      BY <1>0, <2>3, ReadingTypes
    <3> QED BY <2>3, <3>1, BoundsAssumption DEF Times
  <2>5. r[2] + d >= desired_run_time
    BY <2>3, <2>4, BoundsAssumption DEF Times
  <2>6. /\ PostTypes /\ SoleTask' /\ (overlap => overlap')
        /\ desired_run_time' = r[2] + d
        /\ is_running' /\ QueuedBy(desired_run_time)'
    <3> HIDE DEF d
    <3> QED BY <1>0, <1>1, <2>2, <2>3, Schedule
  <2> HIDE DEF d
  <2>7. TypeOK'
    BY <1>0, <2>1, <2>2, <2>4, <2>6 DEF TypeOK, PostTypes, bounds
  <2>8. AskedFor'
    <3>1. wanted <= desired_run_time
      BY <1>0 DEF Inv, AskedFor
    <3>2. wanted' <= desired_run_time'
      BY <1>0, <2>1, <2>3, <2>4, <2>5, <2>6, <3>1, BoundsAssumption DEF TypeOK, Times
    <3> QED BY <3>2 DEF AskedFor
  <2>9. IdlePosts' /\ Spent' /\ StopClears'
    BY <1>0, <1>6, <2>1 DEF Inv, IdlePosts, Spent, StopClears, bounds
  <2>10. NothingAfterStop' /\ NotEarly' /\ RunningHasTask'
    BY <2>1, <2>6 DEF Inv, NothingAfterStop, NotEarly, RunningHasTask
  <2> QED BY <2>6, <2>7, <2>8, <2>9, <2>10 DEF Inv
<1>7. CASE is_running /\ ~Postponed /\ kind = "oneshot" /\ RunOneShot(wanted) /\ posted' = queue
  <2>1. CASE user_task = NoTask
    <3>1. /\ status' = "aborted"
          /\ UNCHANGED <<clock, is_running, desired_run_time, scheduled_run_time,
                         user_task, inside, runs, wanted, overlap, bad>>
      BY <1>7, <2>1 DEF RunOneShot
    <3>2. TypeOK'
      BY <1>0, <1>1, <1>7, <3>1 DEF TypeOK, bounds
    <3>3. SoleTask' /\ AskedFor' /\ IdlePosts'
      BY <1>3, <1>7, <3>1
    <3>4. Spent' /\ StopClears' /\ NothingAfterStop' /\ NotEarly' /\ RunningHasTask'
      BY <1>0, <3>1
         DEF Inv, Spent, StopClears, NothingAfterStop, NotEarly, RunningHasTask, bounds
    <3> QED BY <3>2, <3>3, <3>4 DEF Inv
  <2>2. CASE user_task # NoTask
    <3>1. /\ Runs(user_task, wanted) /\ is_running' = FALSE
          /\ user_task' = NoTask /\ inside' = "timer"
          /\ UNCHANGED <<clock, desired_run_time, scheduled_run_time, status,
                         wanted, overlap>>
      BY <1>7, <2>2 DEF RunOneShot
    <3>2. TypeOK'
      BY <1>0, <1>1, <1>4, <1>7, <2>2, <3>1 DEF TypeOK, bounds
    <3>3. SoleTask' /\ AskedFor' /\ IdlePosts'
      BY <1>3, <1>7, <3>1
    <3>4. Spent'
      <4>1. NoTask \notin Starts /\ NoTask <= starts
        BY <1>0, BoundsAssumption DEF Starts, NoTask, TypeOK
      <4> QED BY <1>0, <1>4, <1>7, <2>2, <3>1, <4>1 DEF Inv, Spent, bounds, TypeOK
    <3>5. StopClears' /\ NothingAfterStop' /\ NotEarly' /\ RunningHasTask'
      <4>1. StopClears'
        BY <1>0, <3>1, HoldsNothing DEF bounds
      <4> QED BY <1>4, <1>7, <2>2, <3>1, <4>1 DEF NothingAfterStop, NotEarly, RunningHasTask
    <3> QED BY <3>2, <3>3, <3>4, <3>5 DEF Inv
  <2> QED BY <2>1, <2>2
<1>8. CASE is_running /\ ~Postponed /\ kind = "repeating" /\ RunRepeating(queue)
  <2>1. CASE user_task = NoTask
    <3>1. /\ status' = "undefined" /\ posted' = queue
          /\ UNCHANGED <<clock, is_running, desired_run_time, scheduled_run_time,
                         user_task, inside, runs, wanted, overlap, bad>>
      BY <1>8, <2>1 DEF RunRepeating
    <3>2. TypeOK'
      BY <1>0, <1>1, <3>1 DEF TypeOK, bounds
    <3>3. SoleTask' /\ AskedFor' /\ IdlePosts'
      BY <1>3, <3>1
    <3>4. Spent' /\ StopClears' /\ NothingAfterStop' /\ NotEarly' /\ RunningHasTask'
      BY <1>0, <3>1
         DEF Inv, Spent, StopClears, NothingAfterStop, NotEarly, RunningHasTask, bounds
    <3> QED BY <3>2, <3>3, <3>4 DEF Inv
  <2>2. CASE /\ user_task # NoTask /\ Readings(delay) = {}
             /\ status' = "cut" /\ Runs(user_task, wanted) /\ posted' = queue
             /\ UNCHANGED <<clock, is_running, desired_run_time, scheduled_run_time,
                            user_task, inside, wanted, overlap>>
    <3>1. TypeOK'
      BY <1>0, <1>1, <1>4, <1>8, <2>2 DEF TypeOK, bounds
    <3>2. SoleTask' /\ AskedFor' /\ IdlePosts'
      BY <1>3, <2>2
    <3>3. Spent' /\ StopClears' /\ RunningHasTask'
      BY <1>0, <1>8, <2>2 DEF Inv, Spent, StopClears, RunningHasTask, bounds
    <3>4. NothingAfterStop' /\ NotEarly'
      BY <1>4, <1>8, <2>2 DEF NothingAfterStop, NotEarly
    <3> QED BY <3>1, <3>2, <3>3, <3>4 DEF Inv
  <2>3. CASE /\ user_task # NoTask /\ Runs(user_task, wanted) /\ inside' = "timer"
             /\ UNCHANGED <<user_task, status>>
             /\ \E r \in Readings(delay) :
                  /\ clock' = r[2]
                  /\ ScheduleNewTask(queue, delay, r[1], r[2], desired_run_time)
                  /\ wanted' = r[1] + delay
    <3>1. PICK r \in Readings(delay) :
            /\ clock' = r[2] /\ wanted' = r[1] + delay
            /\ ScheduleNewTask(queue, delay, r[1], r[2], desired_run_time)
      BY <2>3
    <3>2. delay \in Nat /\ desired_run_time \in Times
      BY <1>0, DelaysAssumption DEF TypeOK
    <3>3. /\ r[1] \in Times /\ r[2] \in Times /\ r[1] <= r[2] /\ r[1] + delay \in Times
      BY <1>0, <3>2, ReadingTypes
    <3>4. /\ PostTypes /\ SoleTask' /\ (overlap => overlap')
          /\ desired_run_time' = r[2] + delay
          /\ is_running' /\ QueuedBy(desired_run_time)'
      BY <1>0, <1>1, <3>1, <3>2, Schedule
    <3>5. TypeOK'
      BY <1>0, <1>4, <1>8, <2>3, <3>1, <3>3, <3>4 DEF TypeOK, PostTypes, bounds
    <3>6. AskedFor'
      BY <3>1, <3>2, <3>3, <3>4, BoundsAssumption DEF AskedFor, Times
    <3>7. IdlePosts' /\ Spent' /\ StopClears'
      BY <1>0, <1>8, <2>3 DEF Inv, IdlePosts, Spent, StopClears, bounds
    <3>8. NothingAfterStop' /\ NotEarly' /\ RunningHasTask'
      BY <1>4, <1>8, <2>3, <3>4 DEF NothingAfterStop, NotEarly, RunningHasTask
    <3> QED BY <3>4, <3>5, <3>6, <3>7, <3>8 DEF Inv
  <2> QED BY <1>8, <2>1, <2>2, <2>3 DEF RunRepeating
<1>9. CASE is_running /\ ~Postponed /\ kind = "idle" /\ RunIdle /\ posted' = queue
  <2>1. UNCHANGED <<clock, is_running, desired_run_time, scheduled_run_time,
                    user_task, status, wanted, overlap>>
    BY <1>9 DEF RunIdle
  <2>2. /\ runs' \in [Starts -> 0..2] /\ bad' \subseteq {"early", "timer", "wrapper", "direct"}
        /\ inside' \in {"no", "timer", "idle"}
        /\ bad' \cap {"timer", "wrapper"} = {} /\ ("early" \in bad' => overlap)
    <3>1. CASE UNCHANGED <<runs, bad, inside>>
      BY <1>0, <3>1 DEF TypeOK, Inv, NothingAfterStop, NotEarly
    <3>2. CASE user_task # NoTask /\ Runs(user_task, wanted) /\ inside' = "timer"
      BY <1>4, <1>9, <3>2
    <3> QED BY <1>9, <3>1, <3>2 DEF RunIdle
  <2>3. TypeOK'
    BY <1>0, <1>1, <1>9, <2>1, <2>2 DEF TypeOK, bounds
  <2>4. SoleTask' /\ AskedFor' /\ IdlePosts'
    BY <1>3, <1>9, <2>1
  <2>5. Spent' /\ StopClears' /\ NothingAfterStop' /\ NotEarly' /\ RunningHasTask'
    BY <1>0, <1>9, <2>1, <2>2
       DEF Inv, Spent, StopClears, NothingAfterStop, NotEarly, RunningHasTask, bounds
  <2> QED BY <2>3, <2>4, <2>5 DEF Inv
<1> QED BY <1>2, <1>5, <1>6, <1>7, <1>8, <1>9 DEF Invoked, RunOrPostpone

-----------------------------------------------------------------------------
(* The theorems. *)

LEMMA InitInv == Init => Inv
<1> SUFFICES ASSUME Init PROVE Inv
  OBVIOUS
<1>1. 0 \in Times /\ 1 \in Times /\ NoTask \notin Starts
  BY BoundsAssumption DEF Times, NoTask, Starts
<1>2. TypeOK
  <2>1. /\ is_running \in BOOLEAN /\ task_runner \in BOOLEAN /\ stopped \subseteq Starts
        /\ overlap \in BOOLEAN /\ lost \in BOOLEAN
    BY DEF Init
  <2>2. /\ posted \in [Times -> Nat] /\ runs \in [Starts -> 0..2]
        /\ starts \in 0..MaxStarts /\ resets \in 0..MaxResets /\ stops \in 0..MaxStops
    BY BoundsAssumption DEF Init, Nothing
  <2> QED BY <1>1, <2>1, <2>2 DEF Init, TypeOK
<1>3. IdlePosts /\ Spent /\ StopClears /\ SoleTask /\ AskedFor
  BY DEF Init, IdlePosts, Spent, StopClears, SoleTask, AskedFor, Nothing, NoTask
<1>4. NothingAfterStop /\ NotEarly /\ RunningHasTask
  BY DEF Init, NothingAfterStop, NotEarly, RunningHasTask
<1> QED BY <1>2, <1>3, <1>4 DEF Inv

\* The inductive invariant holds in every state of the timer.
THEOREM Invariant == Spec => []Inv
<1>1. Inv /\ [Next]_vars => Inv'
  BY StartStep, ResetStep, QuietStep, FireNowStep, IdleStep, InvokedStep
     DEF Next, Calls, RunnerStep
<1> QED BY InitInv, <1>1, PTL DEF Spec

\* OncePerStart: a one-shot timer runs the task of a Start at most once,
\* however many of its posted tasks are queued, and every variable keeps its type.
THEOREM RunsOncePerStart == Spec => []OncePerStart
<1>1. Inv => OncePerStart
  <2> SUFFICES ASSUME Inv, kind = "oneshot", NEW s \in Starts PROVE runs[s] <= 1
    BY DEF Inv, OncePerStart
  <2>1. runs[s] # 0 => runs[s] = 1
    BY DEF Inv, Spent
  <2> QED BY <2>1
<1> QED BY Invariant, <1>1, PTL

\* NothingAfterStop: no posted task and no idle wrapper, however late it comes,
\* runs the user's task after Stop; only an idle task posted without a timeout,
\* which the timer does not hold, does.
THEOREM StopIsFinal == Spec => []NothingAfterStop
<1>1. Inv => NothingAfterStop
  BY DEF Inv
<1> QED BY Invariant, <1>1, PTL

\* NotEarly: a timer that never had two tasks in the runner's queue is early by
\* at most the one tick a call may take between its readings of the clock.
THEOREM AloneIsInTime == Spec => []NotEarly
<1>1. Inv => NotEarly
  BY DEF Inv
<1> QED BY Invariant, <1>1, PTL

\* RunningHasTask: a started, running timer has a task queued for its desired
\* time or before, unless a Reset relied on one that was no longer there.
THEOREM RunningIsQueued == Spec => []RunningHasTask
<1>1. Inv => RunningHasTask
  BY DEF Inv
<1> QED BY Invariant, <1>1, PTL
=============================================================================
