----------------------------- MODULE TimedTasks -----------------------------
(***************************************************************************)
(* timed_task_scheduler: a map from names to periodic and event tasks, and *)
(* check_and_execute(), which goes through it in the order of the names.   *)
(* An operation may call back: register, unregister and re-arm tasks while *)
(* the iteration stands on its own, their own task included; what happens  *)
(* to a scheduler whose iterator has lost its node is undefined, and the   *)
(* model stops there.  Time passes between any two statements.             *)
(***************************************************************************)
EXTENDS Integers, FiniteSets, FiniteSetsExt

CONSTANTS MaxName,         \* names are 1 .. MaxName, in the order of std::map
          Infos,           \* what callers register: [type, time, span, triggered]
          EventTimes,      \* what callers give set_event_trigger_time()
          MIN_TRIGGER_INTERVAL, MAX_TRIGGER_INTERVAL,
          MaxTime,         \* bound: the clock stops there
          MaxCalls         \* bound: calls of the business that change the map

TRIGGERED_PERIODICALLY == 2
EventTypes == {-1, 0, 1}   \* before, on and after some event
TaskInfos == [type : EventTypes \union {TRIGGERED_PERIODICALLY}, time : Nat,
              span : Int, triggered : BOOLEAN]

ASSUME TimedTasksAssumption ==
  /\ MaxName \in Nat \ {0} /\ MaxTime \in Nat /\ MaxCalls \in Nat
  /\ EventTimes \subseteq Nat
  /\ MIN_TRIGGER_INTERVAL \in Nat \ {0} /\ MAX_TRIGGER_INTERVAL \in Nat
  /\ MIN_TRIGGER_INTERVAL <= MAX_TRIGGER_INTERVAL
  /\ Infos \subseteq TaskInfos

Names == 1 .. MaxName
End == MaxName + 1         \* m_tasks->end()

VARIABLES names,           \* keys of m_tasks
          task,            \* their values
          now,             \* the clock
          pc,              \* "idle", "check", "operation" or "undefined"
          it, cur_time,    \* check_and_execute()
          erased,          \* the running operation took its own task out of the map
          started,         \* when the last operation of a task began
          armed,           \* event tasks armed and not run since
          owed,            \* tasks due when the round began, not yet run
          rearmed,         \* event tasks re-armed by their own operation
          calls

vars == <<names, task, now, pc, it, cur_time, erased, started, armed, owed, rearmed, calls>>

round == <<pc, it, cur_time, erased, started>>

Abs(x) == IF x < 0 THEN -x ELSE x
IsPeriodic(n) == task[n].type = TRIGGERED_PERIODICALLY

TriggerTime(n) == IF IsPeriodic(n) THEN task[n].time + task[n].span
                  ELSE task[n].time + task[n].type * task[n].span

\* What an iteration that stands on n at time t runs
Runs(n, t) == t >= TriggerTime(n) /\ (IsPeriodic(n) \/ ~task[n].triggered)

NoTask == [type |-> TRIGGERED_PERIODICALLY, time |-> 0, span |-> MIN_TRIGGER_INTERVAL,
           triggered |-> FALSE]

Init ==
  /\ names = {} /\ task = [n \in Names |-> NoTask]
  /\ now = 0 /\ pc = "idle" /\ it = End /\ cur_time = 0 /\ erased = FALSE
  /\ started = [n \in Names |-> 0] /\ armed = {} /\ owed = {} /\ rearmed = {}
  /\ calls = 0

Tick ==
  /\ now < MaxTime /\ now' = now + 1
  /\ UNCHANGED <<names, task, round, armed, owed, rearmed, calls>>
-----------------------------------------------------------------------------
\* Calls of the business, between rounds or from an operation

Calling == /\ pc \in {"idle", "operation"}
           /\ calls < MaxCalls /\ calls' = calls + 1

Clamped(x) == IF x < MIN_TRIGGER_INTERVAL THEN MIN_TRIGGER_INTERVAL
              ELSE IF x > MAX_TRIGGER_INTERVAL THEN MAX_TRIGGER_INTERVAL ELSE x

\* register_one() of a new name; of a known one it does nothing
Register(n, info) ==
  /\ Calling /\ n \notin names
  /\ names' = names \union {n}
  /\ task' = [task EXCEPT ![n] =
                IF info.type = TRIGGERED_PERIODICALLY
                THEN [info EXCEPT !.span = Clamped(Abs(@))] ELSE info]
  /\ armed' = IF info.type \in EventTypes /\ ~info.triggered
              THEN armed \union {n} ELSE armed
  /\ started' = [started EXCEPT ![n] = info.time]
  /\ UNCHANGED <<now, pc, it, cur_time, erased, owed, rearmed>>

\* unregister_one(); an operation that unregisters its own task takes away the
\* node under the iterator, and a task registered anew under the name has another
Unregister(n) ==
  /\ Calling /\ n \in names
  /\ erased' = (erased \/ (pc = "operation" /\ n = it))
  /\ names' = names \ {n}
  /\ task' = [task EXCEPT ![n] = NoTask]
  /\ armed' = armed \ {n} /\ owed' = owed \ {n} /\ rearmed' = rearmed \ {n}
  /\ started' = [started EXCEPT ![n] = 0]
  /\ UNCHANGED <<now, pc, it, cur_time>>

\* set_event_trigger_time()
SetEventTriggerTime(n, event_time, offset) ==
  /\ Calling /\ n \in names /\ ~IsPeriodic(n)
  /\ task' = [task EXCEPT ![n].time = Abs(event_time), ![n].span = Abs(offset)]
  /\ owed' = owed \ {n}
  /\ UNCHANGED <<names, now, round, armed, rearmed>>

\* has_triggered = false, through tasks()
Rearm(n) ==
  /\ Calling /\ n \in names /\ ~IsPeriodic(n)
  /\ task' = [task EXCEPT ![n].triggered = FALSE]
  /\ armed' = armed \union {n}
  /\ rearmed' = IF pc = "operation" /\ n = it THEN rearmed \union {n} ELSE rearmed
  /\ UNCHANGED <<names, now, round, owed>>
-----------------------------------------------------------------------------
\* check_and_execute()

\* A mutant: the iteration goes on behind the first name only
FirstAfter(n) == IF n = 0 THEN Min(names \union {End}) ELSE End

\* The name behind n in the map as it is now
NextName(n) == Min({m \in names : m > n} \union {End})

BeginRound ==
  /\ pc = "idle"
  /\ pc' = "check" /\ cur_time' = now /\ it' = NextName(0)
  /\ owed' = {n \in names : Runs(n, now)}
  /\ UNCHANGED <<names, task, now, erased, started, armed, rearmed, calls>>

At(n) == pc = "check" /\ it = n

\* Its time has not come
PassOver(n) ==
  /\ At(n) /\ cur_time < TriggerTime(n)
  /\ cur_time' = now /\ it' = NextName(n)
  /\ UNCHANGED <<names, task, now, pc, erased, started, armed, owed, rearmed, calls>>

\* Its event has been treated; the time is not read again
Skip(n) ==
  /\ At(n) /\ cur_time >= TriggerTime(n) /\ ~Runs(n, cur_time)
  /\ it' = NextName(n)
  /\ UNCHANGED <<names, task, now, pc, cur_time, erased, started, armed, owed, rearmed, calls>>

Operate(n) ==
  /\ At(n) /\ Runs(n, cur_time)
  /\ pc' = "operation"
  /\ started' = IF IsPeriodic(n) THEN [started EXCEPT ![n] = now] ELSE started
  /\ armed' = armed \ {n} /\ owed' = owed \ {n} /\ rearmed' = rearmed \ {n}
  /\ UNCHANGED <<names, task, now, it, cur_time, erased, calls>>

\* A mutant: the period begins when the operation is over
StampedAfter(n) == IF IsPeriodic(n) THEN [task[n] EXCEPT !.time = now]
                   ELSE [task[n] EXCEPT !.triggered = TRUE]

\* A mutant: has_triggered is forgotten
StampedTimeOnly(n) == IF IsPeriodic(n) THEN [task[n] EXCEPT !.time = cur_time] ELSE task[n]

Stamped(n) == IF IsPeriodic(n) THEN [task[n] EXCEPT !.time = cur_time]
              ELSE [task[n] EXCEPT !.triggered = TRUE]

Return ==
  /\ pc = "operation" /\ ~erased /\ pc' = "check"
  /\ task' = [task EXCEPT ![it] = Stamped(it)]
  /\ cur_time' = now /\ it' = NextName(it)
  /\ UNCHANGED <<names, now, erased, started, armed, owed, rearmed, calls>>

\* task_info and ++it on the node that was erased
ReturnToErased ==
  /\ pc = "operation" /\ erased /\ pc' = "undefined"
  /\ UNCHANGED <<names, task, now, it, cur_time, erased, started, armed, owed, rearmed, calls>>

EndRound ==
  /\ pc = "check" /\ it = End /\ pc' = "idle" /\ cur_time' = 0
  /\ UNCHANGED <<names, task, now, it, erased, started, armed, owed, rearmed, calls>>

Calls == \E n \in Names : \/ \E info \in Infos : Register(n, info)
                          \/ Unregister(n) \/ Rearm(n)
                          \/ \E t, offset \in EventTimes : SetEventTriggerTime(n, t, offset)

Round == \/ BeginRound \/ Return \/ ReturnToErased \/ EndRound
         \/ \E n \in Names : PassOver(n) \/ Skip(n) \/ Operate(n)

Next == Tick \/ Calls \/ Round

\* The loop comes to the scheduler again and again, operations return
Spec == Init /\ [][Next]_vars /\ WF_vars(Round)
-----------------------------------------------------------------------------
TypeOK ==
  /\ names \subseteq Names /\ now \in 0 .. MaxTime
  /\ task \in [Names -> TaskInfos]
  /\ \A n \in Names : IsPeriodic(n) =>
       task[n].span \in MIN_TRIGGER_INTERVAL .. MAX_TRIGGER_INTERVAL
  /\ pc \in {"idle", "check", "operation", "undefined"} /\ it \in 1 .. End
  /\ erased \in BOOLEAN
  /\ cur_time \in 0 .. now /\ started \in [Names -> Nat]
  /\ armed \subseteq names /\ owed \subseteq names /\ rearmed \subseteq armed
  /\ calls \in 0 .. MaxCalls

\* A round runs every task that was due when it began and was neither taken
\* away nor moved meanwhile, whatever operations do to the map they are in, except
\* unregister their own task: then the round goes on with a node that is gone.
RoundIsComplete == pc = "idle" => owed = {}

\* The period of a task counts from the start of its operation, or before: a
\* slow operation does not push its next run behind.
PeriodCountsFromStart ==
  \A n \in names : IsPeriodic(n) => task[n].time <= started[n]

\* An event task armed once runs once: its mark says exactly whether it ran
\* since, unless its own operation armed it again.
ArmedRunsOnce ==
  \A n \in names : ~IsPeriodic(n) /\ n \notin rearmed
                     /\ ~(pc = "operation" /\ it = n /\ ~erased) =>
    (n \in armed <=> ~task[n].triggered)

\* A task that is due gets its turn, is taken away or moved, or some operation
\* unregisters its own task.
DueRuns == \A n \in Names : n \in names /\ Runs(n, now) ~>
                            n \notin names \/ ~Runs(n, now) \/ pc = "undefined"
=============================================================================
