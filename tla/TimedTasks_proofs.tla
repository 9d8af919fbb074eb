------------------------- MODULE TimedTasks_proofs -------------------------
(***************************************************************************)
(* Proof that, for any number of names, tasks and calls, a round runs what *)
(* was due when it began, periods count from the start of an operation and *)
(* an armed event task runs once.                                          *)
(***************************************************************************)
EXTENDS TimedTasks, WellFoundedInduction, TLAPS

\* A set of natural numbers that is not empty has a least member.
LEMMA LeastOf ==
  ASSUME NEW S \in SUBSET Nat, S # {}
  PROVE  Min(S) \in S /\ \A y \in S : Min(S) <= y
<1>1. PICK x \in S : \A y \in S : <<y, x>> \notin OpToRel(<, Nat)
  BY NatLessThanWellFounded, WFMin
<1>2. \A y \in S : ~(y < x)
  BY <1>1 DEF OpToRel
<1>3. \A y \in S : x <= y
  BY <1>2
<1>4. \E z \in S : \A y \in S : z =< y
  BY <1>3
<1> QED BY <1>4 DEF Min

\* NextName steps over no name: it is the least one behind n, or the end.
LEMMA NextIsNearest ==
  ASSUME names \subseteq Names, NEW n \in 0 .. MaxName
  PROVE  /\ NextName(n) \in names \union {End}
         /\ NextName(n) > n
         /\ \A m \in names : m > n => m >= NextName(n)
<1> DEFINE S == {m \in names : m > n} \union {End}
<1>1. S \in SUBSET Nat /\ S # {}
  <2>1. End \in Nat /\ \A m \in names : m \in Nat
    BY TimedTasksAssumption DEF Names, End
  <2> QED BY <2>1
<1>2. Min(S) \in S /\ \A y \in S : Min(S) <= y
  BY <1>1, LeastOf
<1>3. NextName(n) = Min(S)
  BY DEF NextName
<1>4. End > n /\ End \in Nat
  BY TimedTasksAssumption DEF End
<1> HIDE DEF S
<1>5. \A m \in S : m \in names \union {End} /\ m > n
  BY <1>4 DEF S
<1>6. \A m \in names : m > n => m \in S
  BY DEF S
<1> QED BY <1>2, <1>3, <1>5, <1>6
-----------------------------------------------------------------------------
\* The iterator stands on a task of the map or at its end, whatever an operation
\* does to the map but taking its own task out of it.
Standing == /\ pc = "check" => it \in names \union {End}
            /\ pc = "operation" /\ ~erased => it \in names
            /\ pc \in {"idle", "check"} => ~erased

\* The operation at work began at or after the time its period will count from;
\* its task is disarmed unless it armed itself again.
UnderWay == pc = "operation" /\ ~erased =>
  /\ IsPeriodic(it) => cur_time <= started[it]
  /\ ~IsPeriodic(it) /\ it \notin rearmed => it \notin armed

\* What a round owes lies ahead of its iterator and is still due.
OwedAhead == pc # "idle" =>
  \A n \in owed : /\ n >= it /\ (pc = "operation" => n # it)
                  /\ Runs(n, cur_time)

IInv == /\ TypeOK /\ Standing /\ UnderWay /\ OwedAhead
        /\ RoundIsComplete /\ PeriodCountsFromStart /\ ArmedRunsOnce

\* Nothing is registered and nothing owed at first.
LEMMA InitHolds == Init => IInv
<1> SUFFICES ASSUME Init PROVE IInv
  OBVIOUS
<1>1. NoTask \in TaskInfos
  BY TimedTasksAssumption DEF NoTask, TaskInfos
<1>2. NoTask.span \in MIN_TRIGGER_INTERVAL .. MAX_TRIGGER_INTERVAL
  BY TimedTasksAssumption DEF NoTask
<1>3. task \in [Names -> TaskInfos] /\ \A n \in Names : task[n] = NoTask
  BY <1>1 DEF Init
<1>4. now \in 0 .. MaxTime /\ it \in 1 .. End /\ calls \in 0 .. MaxCalls /\ cur_time \in 0 .. now
  BY TimedTasksAssumption DEF Init, End
<1>5. started \in [Names -> Nat]
  BY DEF Init
<1>6. TypeOK
  BY <1>2, <1>3, <1>4, <1>5 DEF Init, TypeOK
<1> QED BY <1>6 DEF Init, IInv, Standing, UnderWay, OwedAhead, RoundIsComplete,
                    PeriodCountsFromStart, ArmedRunsOnce

\* The trigger time of a task of the map is a number, whatever its type.
LEMMA TriggerTimeInInt ==
  ASSUME TypeOK, NEW n \in Names
  PROVE  TriggerTime(n) \in Int
<1>1. /\ task[n].time \in Int /\ task[n].span \in Int
      /\ task[n].type \in Int
  BY DEF TypeOK, TaskInfos, EventTypes, TRIGGERED_PERIODICALLY
<1> DEFINE type == task[n].type
           span == task[n].span
<1>2. type * span \in Int
  BY <1>1
<1> QED BY <1>1, <1>2 DEF TriggerTime

\* What is due stays due while time passes.
LEMMA DueStays ==
  ASSUME TypeOK, NEW n \in Names, NEW t \in Int, NEW u \in Int, t <= u, Runs(n, t)
  PROVE  Runs(n, u)
<1>1. TriggerTime(n) \in Int
  BY TriggerTimeInInt
<1> HIDE DEF TriggerTime
<1> QED BY <1>1 DEF Runs

\* What is registered is a task; the interval of a periodic one is in its limits.
LEMMA RegisteredIsTask ==
  ASSUME NEW info \in Infos
  PROVE  LET new == IF info.type = TRIGGERED_PERIODICALLY
                    THEN [info EXCEPT !.span = Clamped(Abs(@))] ELSE info
         IN  /\ new \in TaskInfos /\ new.time = info.time /\ new.type = info.type
             /\ new.triggered = info.triggered
             /\ new.type = TRIGGERED_PERIODICALLY =>
                  new.span \in MIN_TRIGGER_INTERVAL .. MAX_TRIGGER_INTERVAL
<1>1. info \in TaskInfos
  BY TimedTasksAssumption
<1>2. info.span \in Int
  BY <1>1 DEF TaskInfos
<1>3. Clamped(Abs(info.span)) \in MIN_TRIGGER_INTERVAL .. MAX_TRIGGER_INTERVAL
  BY <1>2, TimedTasksAssumption DEF Clamped, Abs
<1>4. Clamped(Abs(info.span)) \in Int
  BY <1>3, TimedTasksAssumption
<1> QED BY <1>1, <1>3, <1>4 DEF TaskInfos
-----------------------------------------------------------------------------
\* Where an iterator can stand; its end is no name.
LEMMA PlacesOfMap ==
  ASSUME names \subseteq Names
  PROVE  names \union {End} \subseteq 1 .. End /\ End \notin Names
<1>1. End \in Nat \ {0} /\ \A m \in Names : m \in 1 .. End /\ m # End
  BY TimedTasksAssumption DEF Names, End
<1>2. End \in 1 .. End
  BY <1>1
<1> QED BY <1>1, <1>2

\* Every step of the clock, of the business and of a round keeps the types.
LEMMA TypeStep == TypeOK /\ Standing /\ [Next]_vars => TypeOK'
<1> SUFFICES ASSUME TypeOK, Standing, [Next]_vars PROVE TypeOK'
  OBVIOUS
<1> USE DEF TypeOK, round
<1>1. CASE Tick
  BY <1>1, TimedTasksAssumption DEF Tick, IsPeriodic
<1>2. ASSUME NEW n \in Names, NEW info \in Infos, Register(n, info) PROVE TypeOK'
  <2> DEFINE new == IF info.type = TRIGGERED_PERIODICALLY
                    THEN [info EXCEPT !.span = Clamped(Abs(@))] ELSE info
  <2>1. /\ new \in TaskInfos
        /\ new.type = TRIGGERED_PERIODICALLY =>
             new.span \in MIN_TRIGGER_INTERVAL .. MAX_TRIGGER_INTERVAL
    BY RegisteredIsTask
  <2>2. info.time \in Nat
    BY TimedTasksAssumption DEF TaskInfos
  <2>3. task' = [task EXCEPT ![n] = new]
    BY <1>2 DEF Register
  <2> HIDE DEF new
  <2>4. task' \in [Names -> TaskInfos]
    BY <2>1, <2>3
  <2>5. \A m \in Names : IsPeriodic(m)' =>
          task'[m].span \in MIN_TRIGGER_INTERVAL .. MAX_TRIGGER_INTERVAL
    BY <2>1, <2>3 DEF IsPeriodic
  <2>6. started' \in [Names -> Nat]
    BY <1>2, <2>2 DEF Register
  <2>7. calls' \in 0 .. MaxCalls
    BY <1>2, TimedTasksAssumption DEF Register, Calling
  <2>8. names' \subseteq Names /\ armed' \subseteq names' /\ owed' \subseteq names'
        /\ rearmed' \subseteq armed'
    BY <1>2 DEF Register
  <2> QED BY <1>2, <2>4, <2>5, <2>6, <2>7, <2>8 DEF Register
<1>3. ASSUME NEW n \in Names, Unregister(n) PROVE TypeOK'
  <2>1. NoTask \in TaskInfos
    BY TimedTasksAssumption DEF NoTask, TaskInfos
  <2>2. NoTask.span \in MIN_TRIGGER_INTERVAL .. MAX_TRIGGER_INTERVAL
    BY TimedTasksAssumption DEF NoTask
  <2>3. task' = [task EXCEPT ![n] = NoTask]
    BY <1>3 DEF Unregister
  <2>4. task' \in [Names -> TaskInfos]
    BY <2>1, <2>3
  <2>5. \A m \in Names : IsPeriodic(m)' =>
          task'[m].span \in MIN_TRIGGER_INTERVAL .. MAX_TRIGGER_INTERVAL
    BY <2>2, <2>3 DEF IsPeriodic
  <2>6. started' \in [Names -> Nat]
    BY <1>3 DEF Unregister
  <2>7. calls' \in 0 .. MaxCalls
    BY <1>3, TimedTasksAssumption DEF Unregister, Calling
  <2>8. names' \subseteq Names /\ armed' \subseteq names' /\ owed' \subseteq names'
        /\ rearmed' \subseteq armed'
    BY <1>3 DEF Unregister
  <2> QED BY <1>3, <2>4, <2>5, <2>6, <2>7, <2>8 DEF Unregister
<1>4. ASSUME NEW n \in Names, NEW t \in EventTimes, NEW offset \in EventTimes,
             SetEventTriggerTime(n, t, offset)
      PROVE  TypeOK'
  <2>1. Abs(t) \in Nat /\ Abs(offset) \in Int
    BY TimedTasksAssumption DEF Abs
  <2>2. task' = [task EXCEPT ![n].time = Abs(t), ![n].span = Abs(offset)]
    BY <1>4 DEF SetEventTriggerTime
  <2>3. [task[n] EXCEPT !.time = Abs(t), !.span = Abs(offset)] \in TaskInfos
    BY <2>1 DEF TaskInfos
  <2>4. task' \in [Names -> TaskInfos]
    BY <2>2, <2>3
  <2>5. \A m \in Names : IsPeriodic(m)' =>
          task'[m].span \in MIN_TRIGGER_INTERVAL .. MAX_TRIGGER_INTERVAL
    BY <1>4, <2>2 DEF SetEventTriggerTime, IsPeriodic, TaskInfos
  <2>6. calls' \in 0 .. MaxCalls
    BY <1>4, TimedTasksAssumption DEF SetEventTriggerTime, Calling
  <2> QED BY <1>4, <2>4, <2>5, <2>6 DEF SetEventTriggerTime
<1>5. ASSUME NEW n \in Names, Rearm(n) PROVE TypeOK'
  <2>1. task' = [task EXCEPT ![n].triggered = FALSE]
    BY <1>5 DEF Rearm
  <2>2. task' \in [Names -> TaskInfos]
    BY <2>1 DEF TaskInfos
  <2>3. \A m \in Names : IsPeriodic(m)' =>
          task'[m].span \in MIN_TRIGGER_INTERVAL .. MAX_TRIGGER_INTERVAL
    BY <1>5, <2>1 DEF Rearm, IsPeriodic, TaskInfos
  <2>4. calls' \in 0 .. MaxCalls
    BY <1>5, TimedTasksAssumption DEF Rearm, Calling
  <2>5. armed' \subseteq names /\ rearmed' \subseteq armed'
    BY <1>5 DEF Rearm
  <2> QED BY <1>5, <2>2, <2>3, <2>4, <2>5 DEF Rearm
<1>6. CASE BeginRound
  <2>1. NextName(0) \in names \union {End}
    BY NextIsNearest, TimedTasksAssumption
  <2>2. NextName(0) \in 1 .. End
    BY <2>1, PlacesOfMap
  <2> QED BY <1>6, <2>2 DEF BeginRound, IsPeriodic
<1>7. ASSUME NEW n \in Names PROVE NextName(n) \in 1 .. End
  <2>1. n \in 0 .. MaxName
    BY DEF Names
  <2>2. NextName(n) \in names \union {End}
    BY <2>1, NextIsNearest
  <2> QED BY <2>2, PlacesOfMap
<1>8. ASSUME NEW n \in Names, PassOver(n) PROVE TypeOK'
  BY <1>7, <1>8 DEF PassOver, IsPeriodic
<1>9. ASSUME NEW n \in Names, Skip(n) PROVE TypeOK'
  BY <1>7, <1>9 DEF Skip, IsPeriodic
<1>10. ASSUME NEW n \in Names, Operate(n) PROVE TypeOK'
  <2>1. started' \in [Names -> Nat]
    BY <1>10 DEF Operate
  <2>2. n \in names /\ names \subseteq Names
    BY <1>10, PlacesOfMap DEF Operate, At, Standing
  <2> QED BY <1>10, <2>1 DEF Operate, IsPeriodic
<1>11. CASE Return
  <2>1. it \in Names /\ it \in names
    BY <1>11 DEF Return, Standing
  <2>2. Stamped(it) \in TaskInfos
    <3>1. cur_time \in Nat /\ task[it] \in TaskInfos
      BY <2>1
    <3> QED BY <3>1 DEF Stamped, TaskInfos
  <2>3. Stamped(it).type = task[it].type /\ Stamped(it).span = task[it].span
    BY <2>1 DEF Stamped, TaskInfos
  <2>4. task' = [task EXCEPT ![it] = Stamped(it)]
    BY <1>11 DEF Return
  <2>5. task' \in [Names -> TaskInfos]
    BY <2>1, <2>2, <2>4
  <2>6. \A m \in Names : IsPeriodic(m)' =>
          task'[m].span \in MIN_TRIGGER_INTERVAL .. MAX_TRIGGER_INTERVAL
    BY <2>3, <2>4 DEF IsPeriodic
  <2> QED BY <1>7, <1>11, <2>1, <2>5, <2>6 DEF Return
<1>12. CASE EndRound
  BY <1>12 DEF EndRound, IsPeriodic
<1>13. CASE UNCHANGED vars
  BY <1>13 DEF vars, IsPeriodic
<1>14. CASE ReturnToErased
  BY <1>14 DEF ReturnToErased, IsPeriodic
<1> QED BY <1>1, <1>2, <1>3, <1>4, <1>5, <1>6, <1>8, <1>9, <1>10, <1>11, <1>12, <1>13, <1>14
        DEF Next, Calls, Round

\* An operation may take away any task; its own is missed.
LEMMA StandingStep == TypeOK /\ Standing /\ [Next]_vars => Standing'
<1> SUFFICES ASSUME TypeOK, Standing, [Next]_vars PROVE Standing'
  OBVIOUS
<1> USE DEF Standing
<1>1. names \subseteq Names
  BY DEF TypeOK
<1>2. CASE Tick
  BY <1>2 DEF Tick, round
<1>3. CASE Calls
  <2>1. ASSUME NEW n \in Names, Unregister(n) PROVE Standing'
    <3>1. /\ pc \in {"idle", "operation"} /\ pc' = pc /\ it' = it /\ names' = names \ {n}
          /\ erased' = (erased \/ (pc = "operation" /\ n = it))
      BY <2>1 DEF Unregister, Calling
    <3>2. CASE pc = "idle"
      BY <3>1, <3>2
    <3>3. CASE pc = "operation"
      BY <3>1, <3>3
    <3> QED BY <3>1, <3>2, <3>3
  <2>2. ASSUME NEW n \in Names, NEW info \in Infos, Register(n, info) PROVE Standing'
    BY <2>2 DEF Register, Calling
  <2>3. ASSUME NEW n \in Names, Rearm(n) PROVE Standing'
    BY <2>3 DEF Rearm, Calling, round
  <2>4. ASSUME NEW n \in Names, NEW t \in EventTimes, NEW offset \in EventTimes,
               SetEventTriggerTime(n, t, offset)
        PROVE  Standing'
    BY <2>4 DEF SetEventTriggerTime, Calling, round
  <2> QED BY <1>3, <2>1, <2>2, <2>3, <2>4 DEF Calls
<1>4. CASE BeginRound
  <2>1. NextName(0) \in names \union {End}
    BY <1>1, NextIsNearest, TimedTasksAssumption
  <2> QED BY <1>4, <2>1 DEF BeginRound
<1>5. ASSUME NEW n \in Names PROVE NextName(n) \in names \union {End}
  BY <1>1, NextIsNearest DEF Names
<1>6. ASSUME NEW n \in Names, PassOver(n) \/ Skip(n) PROVE Standing'
  BY <1>5, <1>6 DEF PassOver, Skip, At
<1>7. ASSUME NEW n \in Names, Operate(n) PROVE Standing'
  BY <1>1, <1>7, PlacesOfMap DEF Operate, At
<1>8. CASE Return
  <2>1. it \in Names
    BY <1>1, <1>8 DEF Return
  <2> QED BY <1>5, <1>8, <2>1 DEF Return
<1>9. CASE EndRound \/ ReturnToErased
  BY <1>9 DEF EndRound, ReturnToErased
<1>10. CASE UNCHANGED vars
  BY <1>10 DEF vars
<1> QED BY <1>2, <1>3, <1>4, <1>6, <1>7, <1>8, <1>9, <1>10 DEF Next, Round

\* A task that is not touched is due as before.
LEMMA DueUntouched ==
  ASSUME NEW n, NEW t, NEW u, t' = u, task'[n] = task[n], Runs(n, u)
  PROVE  Runs(n, t)'
  BY DEF Runs, TriggerTime, IsPeriodic

\* What the operation at work has to tell is not disturbed by its own calls.
LEMMA UnderWayStep ==
  TypeOK /\ Standing /\ UnderWay /\ [Next]_vars => UnderWay'
<1> SUFFICES ASSUME TypeOK, Standing, UnderWay, [Next]_vars PROVE UnderWay'
  OBVIOUS
<1> USE DEF UnderWay
<1>1. CASE Tick
  BY <1>1 DEF Tick, round, IsPeriodic
<1>2. ASSUME NEW n \in Names, NEW info \in Infos, Register(n, info) PROVE UnderWay'
  <2> SUFFICES ASSUME pc = "operation", ~erased
               PROVE  /\ IsPeriodic(it)' => cur_time <= started'[it]
                      /\ ~IsPeriodic(it)' /\ it \notin rearmed => it \notin armed'
    BY <1>2 DEF Register
  <2>1. it # n
    BY <1>2 DEF Register, Standing
  <2>2. task'[it] = task[it] /\ started'[it] = started[it]
    BY <1>2, <2>1 DEF Register, TypeOK
  <2> QED BY <1>2, <2>1, <2>2 DEF Register, IsPeriodic
<1>3. ASSUME NEW n \in Names, Unregister(n) PROVE UnderWay'
  <2> SUFFICES ASSUME pc' = "operation", ~erased'
               PROVE  /\ IsPeriodic(it)' => cur_time' <= started'[it']
                      /\ ~IsPeriodic(it)' /\ it' \notin rearmed' => it' \notin armed'
    OBVIOUS
  <2>1. /\ pc' = pc /\ it' = it /\ cur_time' = cur_time /\ armed' = armed \ {n}
        /\ rearmed' = rearmed \ {n} /\ task' = [task EXCEPT ![n] = NoTask]
        /\ started' = [started EXCEPT ![n] = 0]
        /\ erased' = (erased \/ (pc = "operation" /\ n = it))
    BY <1>3 DEF Unregister
  <2>2. it # n /\ ~erased
    BY <2>1
  <2>3. task'[it] = task[it] /\ started'[it] = started[it]
    BY <2>1, <2>2 DEF TypeOK
  <2> QED BY <2>1, <2>2, <2>3 DEF IsPeriodic
<1>4. ASSUME NEW n \in Names, NEW t \in EventTimes, NEW offset \in EventTimes,
             SetEventTriggerTime(n, t, offset)
      PROVE  UnderWay'
  <2>1. pc = "operation" /\ ~erased => (IsPeriodic(it)' <=> IsPeriodic(it))
    BY <1>4 DEF SetEventTriggerTime, Standing, TypeOK, TaskInfos, IsPeriodic, round
  <2> QED BY <1>4, <2>1 DEF SetEventTriggerTime, round
<1>5. ASSUME NEW n \in Names, Rearm(n) PROVE UnderWay'
  <2>1. pc = "operation" /\ ~erased => (IsPeriodic(it)' <=> IsPeriodic(it))
    BY <1>5 DEF Rearm, Standing, TypeOK, TaskInfos, IsPeriodic, round
  <2> QED BY <1>5, <2>1 DEF Rearm, round
<1>6. ASSUME NEW n \in Names, Operate(n) PROVE UnderWay'
  BY <1>6 DEF Operate, At, TypeOK, IsPeriodic
<1>7. CASE Return \/ ReturnToErased
  BY <1>7 DEF Return, ReturnToErased
<1>8. CASE BeginRound \/ EndRound
  BY <1>8 DEF BeginRound, EndRound
<1>9. ASSUME NEW n \in Names, PassOver(n) \/ Skip(n) PROVE UnderWay'
  BY <1>9 DEF PassOver, Skip, At
<1>10. CASE UNCHANGED vars
  BY <1>10 DEF vars, IsPeriodic
<1> QED BY <1>1, <1>2, <1>3, <1>4, <1>5, <1>6, <1>7, <1>8, <1>9, <1>10
        DEF Next, Calls, Round

\* A period counts from the start of the operation, or before.
LEMMA PeriodStep ==
  TypeOK /\ Standing /\ UnderWay /\ PeriodCountsFromStart /\ [Next]_vars
    => PeriodCountsFromStart'
<1> SUFFICES ASSUME TypeOK, Standing, UnderWay, PeriodCountsFromStart, [Next]_vars
             PROVE  PeriodCountsFromStart'
  OBVIOUS
<1> USE DEF PeriodCountsFromStart
<1>1. CASE UNCHANGED <<names, task, started>>
  BY <1>1 DEF IsPeriodic
<1>2. ASSUME NEW n \in Names, NEW info \in Infos, Register(n, info)
      PROVE  PeriodCountsFromStart'
  <2> DEFINE new == IF info.type = TRIGGERED_PERIODICALLY
                    THEN [info EXCEPT !.span = Clamped(Abs(@))] ELSE info
  <2>1. new.time = info.time /\ info.time \in Nat
    BY RegisteredIsTask, TimedTasksAssumption DEF TaskInfos
  <2>2. task' = [task EXCEPT ![n] = new] /\ started' = [started EXCEPT ![n] = info.time]
        /\ names' = names \union {n}
    BY <1>2 DEF Register
  <2> HIDE DEF new
  <2> QED BY <2>1, <2>2 DEF TypeOK, IsPeriodic
<1>3. ASSUME NEW n \in Names, Unregister(n) PROVE PeriodCountsFromStart'
  BY <1>3 DEF Unregister, TypeOK, IsPeriodic
<1>4. ASSUME NEW n \in Names, NEW t \in EventTimes, NEW offset \in EventTimes,
             SetEventTriggerTime(n, t, offset)
      PROVE  PeriodCountsFromStart'
  BY <1>4 DEF SetEventTriggerTime, TypeOK, TaskInfos, IsPeriodic, round
<1>5. ASSUME NEW n \in Names, Rearm(n) PROVE PeriodCountsFromStart'
  BY <1>5 DEF Rearm, TypeOK, TaskInfos, IsPeriodic, round
<1>6. ASSUME NEW n \in Names, Operate(n) PROVE PeriodCountsFromStart'
  <2>1. IsPeriodic(n) => task[n].time <= now
    <3> SUFFICES ASSUME IsPeriodic(n) PROVE task[n].time <= now
      OBVIOUS
    <3>1. cur_time >= task[n].time + task[n].span
      BY <1>6 DEF Operate, Runs, TriggerTime
    <3>2. task[n].time \in Nat /\ task[n].span \in Nat
      BY TimedTasksAssumption DEF TypeOK, TaskInfos
    <3>3. cur_time <= now /\ cur_time \in Nat /\ now \in Nat
      BY DEF TypeOK
    <3> QED BY <3>1, <3>2, <3>3
  <2> QED BY <1>6, <2>1 DEF Operate, TypeOK, IsPeriodic
<1>7. CASE Return
  <2>1. it \in Names /\ it \in names
    BY <1>7 DEF Return, Standing, TypeOK
  <2>2. task' = [task EXCEPT ![it] = Stamped(it)] /\ started' = started /\ names' = names
    BY <1>7 DEF Return
  <2>3. /\ Stamped(it).type = task[it].type
        /\ IsPeriodic(it) => Stamped(it).time = cur_time
    BY <2>1 DEF Stamped, TypeOK, TaskInfos
  <2>4. IsPeriodic(it) => cur_time <= started[it]
    BY <1>7 DEF Return, UnderWay
  <2> QED BY <2>1, <2>2, <2>3, <2>4 DEF TypeOK, IsPeriodic
<1>8. CASE Tick \/ BeginRound \/ EndRound \/ ReturnToErased \/ UNCHANGED vars
  BY <1>1, <1>8 DEF Tick, BeginRound, EndRound, ReturnToErased, vars, round
<1>9. ASSUME NEW n \in Names, PassOver(n) \/ Skip(n) PROVE PeriodCountsFromStart'
  BY <1>1, <1>9 DEF PassOver, Skip
<1> QED BY <1>2, <1>3, <1>4, <1>5, <1>6, <1>7, <1>8, <1>9 DEF Next, Calls, Round

\* The mark of an event task says whether it ran since it was armed, whatever
\* comes of the order of its mark and its operation.
LEMMA ArmedStep ==
  TypeOK /\ Standing /\ UnderWay /\ ArmedRunsOnce /\ [Next]_vars => ArmedRunsOnce'
<1> SUFFICES ASSUME TypeOK, Standing, UnderWay, ArmedRunsOnce, [Next]_vars
             PROVE  ArmedRunsOnce'
  OBVIOUS
<1> USE DEF ArmedRunsOnce
<1>1. CASE UNCHANGED <<names, task, armed, rearmed>> /\ pc # "operation" /\ pc' # "operation"
  BY <1>1 DEF IsPeriodic
<1>2. CASE UNCHANGED <<names, task, armed, rearmed, pc, it, erased>>
  BY <1>2 DEF IsPeriodic
<1>3. ASSUME NEW n \in Names, NEW info \in Infos, Register(n, info) PROVE ArmedRunsOnce'
  <2> DEFINE new == IF info.type = TRIGGERED_PERIODICALLY
                    THEN [info EXCEPT !.span = Clamped(Abs(@))] ELSE info
  <2>1. new.type = info.type /\ new.triggered = info.triggered
    BY RegisteredIsTask
  <2>2. info \in TaskInfos
    BY TimedTasksAssumption
  <2>3. /\ task' = [task EXCEPT ![n] = new] /\ names' = names \union {n}
        /\ armed' = IF info.type \in EventTypes /\ ~info.triggered
                    THEN armed \union {n} ELSE armed
        /\ rearmed' = rearmed /\ pc' = pc /\ it' = it /\ erased' = erased /\ n \notin names
    BY <1>3 DEF Register
  <2> HIDE DEF new
  <2>4. task'[n] = new /\ \A m \in names : m # n /\ task'[m] = task[m]
    BY <2>3 DEF TypeOK
  <2>5. n \notin armed /\ (new.type # TRIGGERED_PERIODICALLY => info.type \in EventTypes)
    BY <2>1, <2>2, <2>3 DEF TypeOK, TaskInfos
  <2>6. new.type # TRIGGERED_PERIODICALLY => (n \in armed' <=> ~new.triggered)
    BY <2>1, <2>3, <2>5
  <2>7. \A m \in names : m \in armed' <=> m \in armed
    BY <2>3, <2>4
  <2> QED BY <2>3, <2>4, <2>6, <2>7 DEF IsPeriodic
<1>4. ASSUME NEW n \in Names, Unregister(n) PROVE ArmedRunsOnce'
  BY <1>4 DEF Unregister, TypeOK, IsPeriodic
<1>5. ASSUME NEW n \in Names, NEW t \in EventTimes, NEW offset \in EventTimes,
             SetEventTriggerTime(n, t, offset)
      PROVE  ArmedRunsOnce'
  <2>1. \A m \in Names : task'[m].type = task[m].type
                          /\ task'[m].triggered = task[m].triggered
    BY <1>5 DEF SetEventTriggerTime, TypeOK, TaskInfos
  <2> QED BY <1>5, <2>1 DEF SetEventTriggerTime, TypeOK, IsPeriodic, round
<1>6. ASSUME NEW n \in Names, Rearm(n) PROVE ArmedRunsOnce'
  <2>1. /\ \A m \in Names : task'[m].type = task[m].type
        /\ \A m \in Names \ {n} : task'[m].triggered = task[m].triggered
        /\ task'[n].triggered = FALSE
    BY <1>6 DEF Rearm, TypeOK, TaskInfos
  <2> QED BY <1>6, <2>1 DEF Rearm, TypeOK, IsPeriodic, round
<1>7. ASSUME NEW n \in Names, Operate(n) PROVE ArmedRunsOnce'
  <2>1. /\ pc = "check" /\ pc' = "operation" /\ it = n /\ it' = n
        /\ armed' = armed \ {n} /\ rearmed' = rearmed \ {n}
        /\ UNCHANGED <<names, task, erased>>
    BY <1>7 DEF Operate, At
  <2>2. ~erased'
    BY <2>1 DEF Standing
  <2> QED BY <2>1, <2>2 DEF IsPeriodic
<1>8. CASE Return
  <2>1. it \in Names /\ it \in names
    BY <1>8 DEF Return, Standing, TypeOK
  <2>2. /\ task' = [task EXCEPT ![it] = Stamped(it)] /\ pc = "operation" /\ pc' = "check"
        /\ names' = names /\ armed' = armed /\ rearmed' = rearmed
    BY <1>8 DEF Return
  <2>3. /\ Stamped(it).type = task[it].type
        /\ ~IsPeriodic(it) => Stamped(it).triggered = TRUE
    BY <2>1 DEF Stamped, TypeOK, TaskInfos
  <2>4. ~IsPeriodic(it) /\ it \notin rearmed => it \notin armed
    BY <1>8, <2>2 DEF Return, UnderWay
  <2> QED BY <2>1, <2>2, <2>3, <2>4 DEF TypeOK, IsPeriodic
<1>9. CASE Tick \/ UNCHANGED vars
  BY <1>2, <1>9 DEF Tick, vars, round
<1>10. CASE BeginRound \/ EndRound
  BY <1>1, <1>10 DEF BeginRound, EndRound
<1>11. ASSUME NEW n \in Names, PassOver(n) \/ Skip(n) PROVE ArmedRunsOnce'
  BY <1>1, <1>11 DEF PassOver, Skip, At
<1>12. CASE ReturnToErased
  BY <1>12 DEF ReturnToErased, IsPeriodic
<1> QED BY <1>3, <1>4, <1>5, <1>6, <1>7, <1>8, <1>9, <1>10, <1>11, <1>12 DEF Next, Calls, Round

\* What the round owes stays ahead of the iterator and due.
LEMMA OwedStep ==
  TypeOK /\ Standing /\ OwedAhead /\ RoundIsComplete /\ [Next]_vars => OwedAhead'
<1> SUFFICES ASSUME TypeOK, Standing, OwedAhead, RoundIsComplete, [Next]_vars
             PROVE  OwedAhead'
  OBVIOUS
<1> USE DEF OwedAhead
<1>1. names \subseteq Names /\ owed \subseteq names /\ \A m \in Names : m \in Int
  BY DEF TypeOK, Names
<1>2. cur_time \in Int /\ now \in Int /\ cur_time <= now
  BY DEF TypeOK
<1>3. \A m \in owed : Runs(m, cur_time) => Runs(m, now)
  BY <1>1, <1>2, DueStays
<1>4. \A m \in Names : task'[m] = task[m] /\ cur_time' = cur_time /\ Runs(m, cur_time)
                         => Runs(m, cur_time)'
  BY DEF Runs, TriggerTime, IsPeriodic
<1>5. \A m \in Names : task'[m] = task[m] /\ cur_time' = now /\ Runs(m, now)
                         => Runs(m, cur_time)'
  BY DEF Runs, TriggerTime, IsPeriodic
<1>6. ASSUME NEW n \in Names
      PROVE  \A m \in names : m >= n /\ m # n => m >= NextName(n)
  BY <1>1, <1>6, NextIsNearest DEF Names
<1> HIDE DEF Runs, NextName
<1>7. CASE Tick \/ EndRound \/ ReturnToErased \/ UNCHANGED vars
  BY <1>1, <1>4, <1>7 DEF Tick, EndRound, ReturnToErased, vars, round
<1>8. ASSUME NEW n \in Names, NEW info \in Infos, Register(n, info) PROVE OwedAhead'
  <2>1. \A m \in owed : task'[m] = task[m]
    BY <1>1, <1>8 DEF Register, TypeOK
  <2> QED BY <1>1, <1>4, <1>8, <2>1 DEF Register
<1>9. ASSUME NEW n \in Names, Unregister(n) PROVE OwedAhead'
  <2>1. \A m \in owed' : task'[m] = task[m] /\ m \in owed
    BY <1>1, <1>9 DEF Unregister, TypeOK
  <2> QED BY <1>1, <1>4, <1>9, <2>1 DEF Unregister
<1>10. ASSUME NEW n \in Names, NEW t \in EventTimes, NEW offset \in EventTimes,
              SetEventTriggerTime(n, t, offset)
       PROVE  OwedAhead'
  <2>1. \A m \in owed' : task'[m] = task[m] /\ m \in owed
    BY <1>1, <1>10 DEF SetEventTriggerTime, TypeOK
  <2> QED BY <1>1, <1>4, <1>10, <2>1 DEF SetEventTriggerTime, round
<1>11. ASSUME NEW n \in Names, Rearm(n) PROVE OwedAhead'
  <2>1. \A m \in Names : m # n => task'[m] = task[m]
    BY <1>11 DEF Rearm, TypeOK
  <2>2. Runs(n, cur_time) => Runs(n, cur_time)'
    <3>1. /\ task'[n].type = task[n].type /\ task'[n].time = task[n].time
          /\ task'[n].span = task[n].span /\ task'[n].triggered = FALSE
          /\ cur_time' = cur_time
      BY <1>11 DEF Rearm, TypeOK, TaskInfos, round
    <3> QED BY <3>1 DEF Runs, TriggerTime, IsPeriodic
  <2> QED BY <1>1, <1>4, <1>11, <2>1, <2>2 DEF Rearm, round
<1>12. CASE BeginRound
  <2>1. \A m \in names : m >= NextName(0)
    BY <1>1, NextIsNearest, TimedTasksAssumption DEF Names
  <2>2. \A m \in owed' : m \in names /\ Runs(m, now)
    BY <1>12 DEF BeginRound
  <2> QED BY <1>1, <1>5, <1>12, <2>1, <2>2 DEF BeginRound
<1>13. ASSUME NEW n \in Names, PassOver(n) PROVE OwedAhead'
  <2>1. n \notin owed
    <3>1. TriggerTime(n) \in Int /\ cur_time < TriggerTime(n) /\ pc = "check"
      BY <1>13, TriggerTimeInInt DEF PassOver, At
    <3> QED BY <1>2, <3>1 DEF Runs
  <2> QED BY <1>1, <1>3, <1>5, <1>6, <1>13, <2>1 DEF PassOver, At
<1>14. ASSUME NEW n \in Names, Skip(n) PROVE OwedAhead'
  <2>1. n \notin owed
    BY <1>14 DEF Skip, At
  <2> QED BY <1>1, <1>4, <1>6, <1>14, <2>1 DEF Skip, At
<1>15. ASSUME NEW n \in Names, Operate(n) PROVE OwedAhead'
  BY <1>1, <1>4, <1>15 DEF Operate, At
<1>16. CASE Return
  <2>1. it \in Names /\ it \notin owed
    BY <1>1, <1>16 DEF Return, Standing
  <2>2. \A m \in owed : task'[m] = task[m]
    BY <1>1, <1>16, <2>1 DEF Return, TypeOK
  <2> QED BY <1>1, <1>3, <1>5, <1>6, <1>16, <2>1, <2>2 DEF Return
<1> QED BY <1>7, <1>8, <1>9, <1>10, <1>11, <1>12, <1>13, <1>14, <1>15, <1>16
        DEF Next, Calls, Round

\* At the end of a round there is no name left that could be owed.
LEMMA CompleteStep ==
  TypeOK /\ OwedAhead /\ RoundIsComplete /\ [Next]_vars => RoundIsComplete'
<1> SUFFICES ASSUME TypeOK, OwedAhead, RoundIsComplete, [Next]_vars, pc' = "idle"
             PROVE  owed' = {}
  BY DEF RoundIsComplete
<1> USE DEF RoundIsComplete
<1>1. CASE EndRound
  <2>1. \A n \in owed : n >= End
    BY <1>1 DEF EndRound, OwedAhead
  <2>2. \A n \in owed : n < End
    BY TimedTasksAssumption DEF TypeOK, Names, End
  <2>3. \A n \in owed : n \in Int /\ End \in Int
    BY TimedTasksAssumption DEF TypeOK, Names, End
  <2> QED BY <1>1, <2>1, <2>2, <2>3 DEF EndRound
<1>2. CASE Tick \/ Calls \/ UNCHANGED vars
  BY <1>2 DEF Tick, Calls, Register, Unregister, SetEventTriggerTime, Rearm, round, vars
<1>3. CASE BeginRound \/ Return \/ ReturnToErased
  BY <1>3 DEF BeginRound, Return, ReturnToErased
<1>4. ASSUME NEW n \in Names, PassOver(n) \/ Skip(n) \/ Operate(n) PROVE FALSE
  BY <1>4 DEF PassOver, Skip, Operate, At
<1> QED BY <1>1, <1>2, <1>3, <1>4 DEF Next, Round
-----------------------------------------------------------------------------
\* Every reachable state satisfies the strengthened invariant.
THEOREM Invariance == Spec => []IInv
<1>1. Init => IInv
  BY InitHolds
<1>2. IInv /\ [Next]_vars => IInv'
  BY TypeStep, StandingStep, UnderWayStep, OwedStep, CompleteStep, PeriodStep, ArmedStep
     DEF IInv
<1> QED BY <1>1, <1>2, PTL DEF Spec

\* The map, the iterator and the round are well-formed for any number of names.
THEOREM TypeCorrect == Spec => []TypeOK
<1>1. IInv => TypeOK
  BY DEF IInv
<1> QED BY <1>1, Invariance, PTL

\* check_and_execute() runs every task that was due when it began and was left
\* alone meanwhile, for any map and any changes its operations make to it, unless
\* one unregisters its own task: then its iterator is gone and nothing is said.
THEOREM RoundCompletes == Spec => []RoundIsComplete
<1>1. IInv => RoundIsComplete
  BY DEF IInv
<1> QED BY <1>1, Invariance, PTL

\* last_op_time is never behind the start of the last operation.
THEOREM PeriodsHold == Spec => []PeriodCountsFromStart
<1>1. IInv => PeriodCountsFromStart
  BY DEF IInv
<1> QED BY <1>1, Invariance, PTL

\* has_triggered says exactly whether an event task ran since it was armed, but
\* for a task armed by its own operation.
THEOREM ArmedHolds == Spec => []ArmedRunsOnce
<1>1. IInv => ArmedRunsOnce
  BY DEF IInv
<1> QED BY <1>1, Invariance, PTL
=============================================================================
