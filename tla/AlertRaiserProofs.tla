-------------------------- MODULE AlertRaiserProofs --------------------------
(***************************************************************************)
(* Proofs about AlertRaiser, for every set of alert ids, every set of      *)
(* periods and every queue bound.                                          *)
(***************************************************************************)
EXTENDS AlertRaiser, TLAPS

\* The parts of IInv other than TypeOK.
Safe ==
  /\ TimerRunsTowardsCondition
  /\ CorrectionIsUnderWay
  /\ TimersHaveAlertPeriod
  /\ NotificationsMatchState
  /\ UnsetIsSilent
  /\ HeldCoversPeriod

\* Marking events stale keeps their number and their timers.
LEMMA MarkStaleFacts ==
  ASSUME NEW q \in Seq(Event), NEW t \in Timers
  PROVE  /\ MarkStale(q, t) \in Seq(Event)
         /\ Len(MarkStale(q, t)) = Len(q)
         /\ DOMAIN MarkStale(q, t) = DOMAIN q
         /\ \A i \in DOMAIN q :
              /\ MarkStale(q, t)[i].timer = q[i].timer
              /\ MarkStale(q, t)[i].stale = (q[i].stale \/ q[i].timer = t)
  <1> DEFINE m == MarkStale(q, t)
  <1>1. DOMAIN m = 1..Len(q) /\ Len(q) \in Nat
    BY DEF MarkStale
  <1>2. \A i \in 1..Len(q) : q[i] \in Event
    OBVIOUS
  <1>3. \A i \in 1..Len(q) :
          /\ m[i] \in Event
          /\ m[i].timer = q[i].timer
          /\ m[i].stale = (q[i].stale \/ q[i].timer = t)
    BY <1>2 DEF MarkStale, Event
  <1>4. m = [i \in 1..Len(q) |-> m[i]]
    BY DEF MarkStale
  <1>5. m \in Seq(Event) /\ Len(m) = Len(q)
    <2>1. m \in [1..Len(q) -> Event]
      BY <1>3, <1>4
    <2> QED
      BY <1>1, <2>1
  <1> QED
    BY <1>1, <1>3, <1>5

\* Appending an event keeps the others in place.
LEMMA AppendFacts ==
  ASSUME NEW q \in Seq(Event), NEW e \in Event
  PROVE  /\ Append(q, e) \in Seq(Event)
         /\ \A i \in DOMAIN q : i \in DOMAIN Append(q, e) /\ Append(q, e)[i] = q[i]
         /\ \E j \in DOMAIN Append(q, e) : Append(q, e)[j] = e
         /\ \A i \in DOMAIN Append(q, e) : i \in DOMAIN q \/ Append(q, e)[i] = e
  <1>1. Append(q, e) \in Seq(Event)
    OBVIOUS
  <1>2. DOMAIN Append(q, e) = 1..(Len(q) + 1) /\ DOMAIN q = 1..Len(q) /\ Len(q) \in Nat
    OBVIOUS
  <1>3. \A i \in 1..Len(q) : Append(q, e)[i] = q[i]
    OBVIOUS
  <1>4. Append(q, e)[Len(q) + 1] = e
    OBVIOUS
  <1> QED
    BY <1>1, <1>2, <1>3, <1>4

\* Dropping the first event shifts the others by one.
LEMMA TailFacts ==
  ASSUME NEW q \in Seq(Event), q # <<>>
  PROVE  /\ Head(q) \in Event
         /\ Tail(q) \in Seq(Event)
         /\ 1 \in DOMAIN q /\ Head(q) = q[1]
         /\ \A i \in DOMAIN Tail(q) : i + 1 \in DOMAIN q /\ Tail(q)[i] = q[i + 1]
         /\ \A i \in DOMAIN q : i = 1 \/
              (i - 1 \in DOMAIN Tail(q) /\ Tail(q)[i - 1] = q[i])
  OBVIOUS

\* The periods of an alert are natural numbers up to MaxPeriod.
LEMMA PeriodsInRange ==
  ASSUME TypeOK, NEW t \in Timers
  PROVE  period_ms[t] \in 0..MaxPeriod
  <1>1. period_ms[t] \in Periods \cup {0}
    BY DEF TypeOK
  <1>2. 0 \in 0..MaxPeriod
    BY ConstantsAssumption
  <1>3. \A p \in Periods : p \in 0..MaxPeriod
    BY ConstantsAssumption, Zenon
  <1> QED
    BY <1>1, <1>2, <1>3, Zenon

\* Initially nothing is set, running or queued.
LEMMA InitIInv == Init => TypeOK /\ Safe
  <1> SUFFICES ASSUME Init PROVE TypeOK /\ Safe
    OBVIOUS
  <1>1. TypeOK
    BY ConstantsAssumption DEF Init, TypeOK, Timers, Stopped, Event
  <1>2. Safe
    BY ConstantsAssumption DEF Init, Safe, TimerRunsTowardsCondition, CorrectionIsUnderWay,
      TimersHaveAlertPeriod, NotificationsMatchState, UnsetIsSilent, HeldCoversPeriod
  <1> QED BY <1>1, <1>2

\* Every step keeps the types.
LEMMA TypeStep == TypeOK /\ [Next]_vars => TypeOK'
  <1> SUFFICES ASSUME TypeOK, [Next]_vars PROVE TypeOK'
    OBVIOUS
  <1> USE ConstantsAssumption DEF TypeOK, Timers, Stopped
  <1>1. ASSUME NEW id \in AlertIds, NEW w \in Periods, NEW c \in Periods, SetAlert(id, w, c)
        PROVE  TypeOK'
    <2>1. period_ms' \in [Timers -> Periods \cup {0}]
      BY <1>1 DEF SetAlert
    <2>2. timer_period' \in [Timers -> 0..MaxPeriod]
      <3>1. \A t \in Timers : timer_period'[t] \in 0..MaxPeriod
        BY <1>1 DEF SetAlert
      <3> QED
        BY <1>1, <3>1 DEF SetAlert
    <2>3. is_alert_set' \in BOOLEAN /\ cond' \in BOOLEAN
      BY <1>1, Zenon DEF SetAlert
    <2>4. held' \in 0..MaxPeriod
      BY <1>1 DEF SetAlert
    <2>5. /\ is_alert_raised' \in BOOLEAN /\ alert_id' \in AlertIds
          /\ running_timers' \in SUBSET Timers /\ queue' \in Seq(Event)
          /\ timer_left' \in [Timers -> {Stopped} \cup 0..MaxPeriod]
          /\ outstanding' \in [AlertIds -> Int]
      BY <1>1 DEF SetAlert
    <2> QED
      BY <2>1, <2>2, <2>3, <2>4, <2>5
  <1>2. CASE UnsetAlert
    <2>1. timer_left' \in [Timers -> {Stopped} \cup 0..MaxPeriod]
      BY <1>2 DEF UnsetAlert, StopTimers
    <2>2. outstanding' \in [AlertIds -> Int]
      BY <1>2 DEF UnsetAlert, Notify
    <2>3. running_timers' \in SUBSET Timers
      BY <1>2 DEF UnsetAlert, StopTimers
    <2>4. is_alert_set' \in BOOLEAN /\ cond' \in BOOLEAN /\ is_alert_raised' \in BOOLEAN
      BY <1>2, Zenon DEF UnsetAlert
    <2>5. held' \in 0..MaxPeriod
      BY <1>2 DEF UnsetAlert
    <2>6. /\ alert_id' \in AlertIds /\ queue' \in Seq(Event)
          /\ period_ms' \in [Timers -> Periods \cup {0}]
          /\ timer_period' \in [Timers -> 0..MaxPeriod]
      BY <1>2 DEF UnsetAlert
    <2> QED
      BY <2>1, <2>2, <2>3, <2>4, <2>5, <2>6
  <1>3. ASSUME NEW result \in BOOLEAN, SetAlertConditionResult(result)
        PROVE  TypeOK'
    <2>1. cond' \in BOOLEAN /\ held' \in 0..MaxPeriod
      BY <1>3 DEF SetAlertConditionResult
    <2>2. TimerTo(result) \in Timers /\ TimerTo(~result) \in Timers
      BY DEF TimerTo
    <2>3. queue' \in Seq(Event)
      BY <1>3, <2>2, MarkStaleFacts DEF SetAlertConditionResult, StartTimer
    <2>4. outstanding' \in [AlertIds -> Int] /\ is_alert_raised' \in BOOLEAN
      BY <1>3 DEF SetAlertConditionResult, Notify
    <2>5. timer_left' \in [Timers -> {Stopped} \cup 0..MaxPeriod]
      BY <1>3, <2>2 DEF SetAlertConditionResult, StartTimer, StopTimers
    <2>6. running_timers' \in SUBSET Timers
      BY <1>3, <2>2 DEF SetAlertConditionResult, StartTimer, StopTimers
    <2>7. /\ is_alert_set' \in BOOLEAN /\ alert_id' \in AlertIds
          /\ period_ms' \in [Timers -> Periods \cup {0}]
          /\ timer_period' \in [Timers -> 0..MaxPeriod]
      BY <1>3 DEF SetAlertConditionResult
    <2> QED
      BY <2>1, <2>3, <2>4, <2>5, <2>6, <2>7
  <1>4. CASE Tick
    BY <1>4 DEF Tick, raiserVars
  <1>5. ASSUME NEW t \in Timers, TimerIsr(t)
        PROVE  TypeOK'
    <2>1. [timer |-> t, stale |-> FALSE] \in Event
      BY DEF Event
    <2> QED
      BY <1>5, <2>1, AppendFacts DEF TimerIsr, raiserVars, historyVars
  <1>6. CASE PeriodExpiredCb
    <2>1. Head(queue) \in Event /\ Tail(queue) \in Seq(Event)
      BY <1>6 DEF PeriodExpiredCb
    <2>2. Head(queue).timer \in Timers
      BY <2>1 DEF Event
    <2>3. outstanding' \in [AlertIds -> Int]
      BY <1>6 DEF PeriodExpiredCb, Notify
    <2>4. is_alert_raised' \in BOOLEAN
      BY <1>6 DEF PeriodExpiredCb, Target
    <2>5. running_timers' \in SUBSET Timers
      BY <1>6, <2>2 DEF PeriodExpiredCb
    <2> QED
      BY <1>6, <2>1, <2>3, <2>4, <2>5 DEF PeriodExpiredCb
  <1>7. CASE UNCHANGED vars
    BY <1>7 DEF vars, raiserVars, timerVars, historyVars
  <1> QED
    BY <1>1, <1>2, <1>3, <1>4, <1>5, <1>6, <1>7 DEF Next

\* Type correctness of the raiser (alert_raiser.c).
THEOREM TypeCorrect == Spec => []TypeOK
  <1>1. Init => TypeOK
    BY InitIInv
  <1> QED
    BY <1>1, TypeStep, PTL DEF Spec

\* A notification of a change of state keeps the notifications in step with
\* the state, whether the alert is raised or silenced.
LEMMA NotifyKeepsMatch ==
  ASSUME TypeOK, NotificationsMatchState, NEW r \in BOOLEAN,
         is_alert_raised = ~r, Notify(alert_id, r)
  PROVE  \A a \in AlertIds : outstanding'[a] = IF r /\ a = alert_id THEN 1 ELSE 0
  <1>1. CASE r = TRUE
    <2>1. \A a \in AlertIds : outstanding[a] = 0
      BY <1>1 DEF NotificationsMatchState
    <2>2. outstanding' = [outstanding EXCEPT ![alert_id] = @ + 1]
      BY <1>1 DEF Notify
    <2> QED
      BY <1>1, <2>1, <2>2 DEF TypeOK
  <1>2. CASE r = FALSE
    <2>1. \A a \in AlertIds : outstanding[a] = IF a = alert_id THEN 1 ELSE 0
      BY <1>2 DEF NotificationsMatchState
    <2>2. outstanding' = [outstanding EXCEPT ![alert_id] = @ + (-1)]
      BY <1>2 DEF Notify
    <2> QED
      BY <1>2, <2>1, <2>2 DEF TypeOK
  <1> QED
    BY <1>1, <1>2

\* No step disturbs the invariants that IInv combines.
LEMMA SafeStep == TypeOK /\ Safe /\ [Next]_vars => Safe'
  <1> SUFFICES ASSUME TypeOK, Safe, [Next]_vars PROVE Safe'
    OBVIOUS
  <1> USE ConstantsAssumption
  <1>1. ASSUME NEW id \in AlertIds, NEW w \in Periods, NEW c \in Periods, SetAlert(id, w, c)
        PROVE  Safe'
    <2>1. running_timers = {} /\ ~is_alert_raised /\ ~cond'
      BY <1>1 DEF SetAlert, Safe, TimerRunsTowardsCondition, UnsetIsSilent, TypeOK
    <2>2. TimersHaveAlertPeriod'
      BY <1>1 DEF SetAlert, TimersHaveAlertPeriod, TypeOK
    <2>3. NotificationsMatchState'
      BY <1>1, <2>1 DEF SetAlert, NotificationsMatchState, Safe, TypeOK
    <2>4. CorrectionIsUnderWay'
      BY <1>1, <2>1 DEF SetAlert, CorrectionIsUnderWay, TypeOK
    <2> QED
      BY <1>1, <2>1, <2>2, <2>3, <2>4
         DEF SetAlert, Safe, TimerRunsTowardsCondition, UnsetIsSilent, HeldCoversPeriod
  <1>2. CASE UnsetAlert
    <2>1. running_timers' = {} /\ ~is_alert_set' /\ ~is_alert_raised' /\ ~cond'
      BY <1>2 DEF UnsetAlert, StopTimers
    <2>2. NotificationsMatchState'
      <3>1. CASE is_alert_raised
        BY <1>2, <2>1, <3>1, NotifyKeepsMatch DEF UnsetAlert, Safe, NotificationsMatchState
      <3>2. CASE ~is_alert_raised
        BY <1>2, <2>1, <3>2 DEF UnsetAlert, Safe, NotificationsMatchState
      <3> QED
        BY <3>1, <3>2
    <2> QED
      BY <2>1, <2>2 DEF Safe, TimerRunsTowardsCondition, CorrectionIsUnderWay,
        TimersHaveAlertPeriod, UnsetIsSilent, HeldCoversPeriod
  <1>3. ASSUME NEW result \in BOOLEAN, SetAlertConditionResult(result)
        PROVE  Safe'
    <2> DEFINE tt == TimerTo(result)
               other == TimerTo(~result)
    <2>1. /\ tt \in Timers /\ other \in Timers /\ tt # other
          /\ \A t \in Timers : t = tt \/ t = other
          /\ Target(tt) = result /\ Target(other) = ~result
      BY DEF TimerTo, Timers, Target
    <2>2. /\ is_alert_set /\ is_alert_set' /\ cond' = result
          /\ period_ms' = period_ms /\ timer_period' = timer_period /\ alert_id' = alert_id
      BY <1>3 DEF SetAlertConditionResult
    <2>3. TimersHaveAlertPeriod' /\ UnsetIsSilent'
      BY <2>2 DEF Safe, TimersHaveAlertPeriod, UnsetIsSilent
    <2>4. CASE /\ is_alert_raised = result
               /\ StopTimers(running_timers \cap {other})
               /\ UNCHANGED <<is_alert_raised, queue, outstanding>>
      <3>1. tt \notin running_timers
        BY <2>1, <2>4 DEF Safe, TimerRunsTowardsCondition
      <3>2. running_timers' = {}
        BY <2>1, <2>4, <3>1 DEF StopTimers, TypeOK
      <3> QED
        BY <2>2, <2>3, <2>4, <3>2 DEF Safe, TimerRunsTowardsCondition, CorrectionIsUnderWay,
          NotificationsMatchState, HeldCoversPeriod
    <2>5. CASE /\ is_alert_raised # result
               /\ period_ms[tt] > 0
               /\ tt \in running_timers
               /\ UNCHANGED <<timer_left, running_timers, queue, is_alert_raised, outstanding>>
      <3>1. cond = result
        BY <2>1, <2>5 DEF Safe, TimerRunsTowardsCondition
      <3>2. held' = held /\ cond' = cond
        BY <1>3, <3>1 DEF SetAlertConditionResult
      <3> QED
        BY <2>2, <2>3, <2>5, <3>2 DEF Safe, TimerRunsTowardsCondition, CorrectionIsUnderWay,
          NotificationsMatchState, HeldCoversPeriod
    <2>6. CASE /\ is_alert_raised # result
               /\ period_ms[tt] > 0
               /\ tt \notin running_timers
               /\ StartTimer(tt)
               /\ UNCHANGED <<is_alert_raised, outstanding>>
      <3>1. other \notin running_timers
        BY <2>1, <2>6 DEF Safe, TimerRunsTowardsCondition, TypeOK
      <3>2. running_timers' = {tt}
        BY <2>1, <2>6, <3>1 DEF StartTimer, TypeOK
      <3>3. cond = ~result
        BY <2>2, <2>6 DEF Safe, CorrectionIsUnderWay, TypeOK
      <3>4. held' = 0
        BY <1>3, <3>3 DEF SetAlertConditionResult
      <3>5. timer_left'[tt] = period_ms[tt]
        BY <2>1, <2>2, <2>6 DEF StartTimer, Safe, TimersHaveAlertPeriod, TypeOK
      <3>6. \A i \in DOMAIN queue' : queue'[i].timer = tt => queue'[i].stale
        <4>1. queue' = MarkStale(queue, tt) /\ queue \in Seq(Event)
          BY <2>6 DEF StartTimer, TypeOK
        <4>2. SUFFICES ASSUME NEW i \in DOMAIN queue', queue'[i].timer = tt
                       PROVE  queue'[i].stale
          OBVIOUS
        <4>3. /\ i \in DOMAIN queue
              /\ queue'[i].timer = queue[i].timer
              /\ queue'[i].stale = (queue[i].stale \/ queue[i].timer = tt)
          BY <2>1, <4>1, MarkStaleFacts
        <4> QED
          BY <4>2, <4>3
      <3>7. TimerRunsTowardsCondition'
        BY <2>1, <2>2, <2>6, <3>2 DEF TimerRunsTowardsCondition, TypeOK
      <3>8. CorrectionIsUnderWay'
        BY <2>1, <2>2, <2>6, <3>2, <3>5 DEF CorrectionIsUnderWay, TypeOK, Stopped
      <3>9. HeldCoversPeriod'
        <4>1. period_ms[tt] \in 0..MaxPeriod
          BY <2>1, PeriodsInRange
        <4> QED
          BY <2>2, <3>2, <3>4, <3>5, <3>6, <4>1 DEF HeldCoversPeriod
      <3> QED
        BY <2>2, <2>3, <2>6, <3>7, <3>8, <3>9 DEF Safe, NotificationsMatchState
    <2>7. CASE /\ is_alert_raised # result
               /\ period_ms[tt] = 0
               /\ Notify(alert_id, result)
               /\ is_alert_raised' = result
               /\ UNCHANGED <<timer_left, running_timers, queue>>
      <3>1. running_timers = {}
        BY <2>1, <2>7 DEF Safe, TimerRunsTowardsCondition, TypeOK
      <3>2. NotificationsMatchState'
        BY <2>2, <2>7, NotifyKeepsMatch DEF Safe, NotificationsMatchState, TypeOK
      <3> QED
        BY <2>2, <2>3, <2>7, <3>1, <3>2 DEF Safe, TimerRunsTowardsCondition,
          CorrectionIsUnderWay, HeldCoversPeriod
    <2> QED
      BY <1>3, <2>4, <2>5, <2>6, <2>7 DEF SetAlertConditionResult
  <1>4. CASE Tick
    <2>1. HeldCoversPeriod'
      <3> SUFFICES ASSUME NEW t \in running_timers
                   PROVE  /\ timer_left'[t] # Stopped => held' + timer_left'[t] >= period_ms[t]
                          /\ \A i \in DOMAIN queue :
                               queue[i].timer = t /\ ~queue[i].stale => held' >= period_ms[t]
        BY <1>4 DEF Tick, HeldCoversPeriod, raiserVars
      <3>1. t \in Timers
        BY DEF TypeOK
      <3>2. period_ms[t] \in 0..MaxPeriod
        BY <3>1, PeriodsInRange
      <3>3. held' = MaxPeriod \/ held' = held + 1
        BY <1>4 DEF Tick, TypeOK
      <3>4. timer_left[t] \in Int /\ timer_left[t] >= -1 /\ held \in Nat
        BY <3>1 DEF TypeOK, Stopped
      <3>5. \/ timer_left'[t] = Stopped /\ timer_left[t] = Stopped
            \/ timer_left'[t] = timer_left[t] - 1 /\ timer_left[t] # Stopped /\ timer_left[t] # 0
        BY <1>4, <3>1 DEF Tick
      <3> QED
        BY <3>2, <3>3, <3>4, <3>5 DEF Safe, HeldCoversPeriod, Stopped
    <2>2. CorrectionIsUnderWay'
      BY <1>4 DEF Tick, Safe, CorrectionIsUnderWay, TypeOK, raiserVars, Timers, Stopped
    <2> QED
      BY <1>4, <2>1, <2>2 DEF Tick, Safe, TimerRunsTowardsCondition, raiserVars,
        TimersHaveAlertPeriod, NotificationsMatchState, UnsetIsSilent
  <1>5. ASSUME NEW t \in Timers, TimerIsr(t)
        PROVE  Safe'
    <2> DEFINE e == [timer |-> t, stale |-> FALSE]
    <2>1. e \in Event /\ e.timer = t
      BY DEF Event
    <2>2. /\ \A i \in DOMAIN queue : i \in DOMAIN queue' /\ queue'[i] = queue[i]
          /\ \E j \in DOMAIN queue' : queue'[j].timer = t
          /\ \A i \in DOMAIN queue' :
               (i \in DOMAIN queue /\ queue'[i] = queue[i]) \/ queue'[i].timer = t
      BY <1>5, <2>1, AppendFacts DEF TimerIsr, TypeOK
    <2>3. CorrectionIsUnderWay'
      BY <1>5, <2>2 DEF TimerIsr, Safe, CorrectionIsUnderWay, raiserVars, historyVars, TypeOK
    <2>4. HeldCoversPeriod'
      BY <1>5, <2>2 DEF TimerIsr, Safe, HeldCoversPeriod, raiserVars, historyVars, TypeOK,
        Stopped
    <2> QED
      BY <1>5, <2>3, <2>4 DEF TimerIsr, Safe, TimerRunsTowardsCondition, raiserVars,
        historyVars, TimersHaveAlertPeriod, NotificationsMatchState, UnsetIsSilent
  <1>6. CASE PeriodExpiredCb
    <2> DEFINE e == Head(queue)
               t == e.timer
    <2>1. /\ e \in Event /\ e.timer \in Timers
          /\ 1 \in DOMAIN queue /\ e = queue[1]
          /\ \A i \in DOMAIN queue' : i + 1 \in DOMAIN queue /\ queue'[i] = queue[i + 1]
          /\ \A i \in DOMAIN queue : i = 1 \/
               (i - 1 \in DOMAIN queue' /\ queue'[i - 1] = queue[i])
      BY <1>6, TailFacts DEF PeriodExpiredCb, TypeOK, Event
    <2>2. UNCHANGED <<is_alert_set, alert_id, period_ms, timer_period, timer_left, cond, held>>
      BY <1>6 DEF PeriodExpiredCb
    <2>3. TimersHaveAlertPeriod'
      BY <2>2 DEF Safe, TimersHaveAlertPeriod
    <2>4. running_timers' = running_timers \ {t}
      BY <1>6, <2>1 DEF PeriodExpiredCb, TypeOK
    <2>5. HeldCoversPeriod'
      BY <2>1, <2>2, <2>4 DEF Safe, HeldCoversPeriod
    <2>6. CASE t \in running_timers
      <3>1. /\ is_alert_set /\ is_alert_raised = ~Target(t) /\ cond = Target(t)
            /\ is_alert_raised' = Target(t) /\ Notify(alert_id, Target(t))
        BY <1>6, <2>6 DEF PeriodExpiredCb, Safe, TimerRunsTowardsCondition
      <3>2. Target(t) \in BOOLEAN
        BY DEF Target
      <3>3. NotificationsMatchState'
        BY <2>2, <3>1, <3>2, NotifyKeepsMatch DEF Safe, NotificationsMatchState
      <3>4. running_timers' = {}
        BY <2>1, <2>4, <2>6, <3>1 DEF Safe, TimerRunsTowardsCondition, TypeOK, Timers, Target
      <3> QED
        BY <2>2, <2>3, <2>5, <3>1, <3>3, <3>4 DEF Safe, TimerRunsTowardsCondition,
          CorrectionIsUnderWay, UnsetIsSilent
    <2>7. CASE t \notin running_timers
      <3>1. running_timers' = running_timers /\ UNCHANGED <<outstanding, is_alert_raised>>
        BY <1>6, <2>7 DEF PeriodExpiredCb
      <3>2. CorrectionIsUnderWay'
        BY <2>1, <2>2, <2>7, <3>1 DEF Safe, CorrectionIsUnderWay, TypeOK
      <3> QED
        BY <2>2, <2>3, <2>5, <3>1, <3>2 DEF Safe, TimerRunsTowardsCondition,
          NotificationsMatchState, UnsetIsSilent
    <2> QED
      BY <2>6, <2>7
  <1>7. CASE UNCHANGED vars
    BY <1>7 DEF vars, raiserVars, timerVars, historyVars, Safe, TimerRunsTowardsCondition,
      CorrectionIsUnderWay, TimersHaveAlertPeriod, NotificationsMatchState, UnsetIsSilent,
      HeldCoversPeriod
  <1> QED
    BY <1>1, <1>2, <1>3, <1>4, <1>5, <1>6, <1>7 DEF Next

\* The inductive invariant holds in every reachable state.
THEOREM Invariance == Spec => []IInv
  <1>1. Init => TypeOK /\ Safe
    BY InitIInv
  <1>2. TypeOK /\ Safe /\ [Next]_vars => (TypeOK /\ Safe)'
    BY TypeStep, SafeStep
  <1>3. TypeOK /\ Safe => IInv
    BY DEF Safe, IInv
  <1> QED
    BY <1>1, <1>2, <1>3, PTL DEF Spec

\* The notifications sent for every alert alternate and agree with its state
\* (alert_notifier_notify's callers in alert_raiser.c).
THEOREM NotificationsAgree == Spec => []NotificationsMatchState
  <1>1. IInv => NotificationsMatchState
    BY DEF IInv
  <1> QED
    BY <1>1, Invariance, PTL

\* A timer runs only towards the latest condition result of the alert that is
\* set (the comment in alert_raiser_set_alert_condition_result).
THEOREM TimersRunTowardsCondition == Spec => []TimerRunsTowardsCondition
  <1>1. IInv => TimerRunsTowardsCondition
    BY DEF IInv
  <1> QED
    BY <1>1, Invariance, PTL

\* Where alert and condition disagree, a timer or a queued callback will
\* correct the alert: the safety half of "the alert will be raised".
THEOREM CorrectionAlwaysUnderWay == Spec => []CorrectionIsUnderWay
  <1>1. IInv => CorrectionIsUnderWay
    BY DEF IInv
  <1> QED
    BY <1>1, Invariance, PTL

\* The flags, the kernel timers and the queued callbacks serve the condition, and
\* only the condition, of the alert that is set.
THEOREM TimersAlwaysServeCondition == Spec => []TimersServeCondition
  <1>1. TimerRunsTowardsCondition /\ CorrectionIsUnderWay => TimersServeCondition
    BY DEF TimersServeCondition
  <1> QED
    BY <1>1, TimersRunTowardsCondition, CorrectionAlwaysUnderWay, PTL

\* The state of the alert changes only towards its condition, whatever stale
\* callbacks are executed.
THEOREM OnlyTowardsCondition == Spec => ChangesOnlyTowardsCondition
  <1> DEFINE A == /\ ~is_alert_raised /\ is_alert_raised' => is_alert_set' /\ cond'
                  /\ is_alert_raised /\ ~is_alert_raised' => ~cond'
  <1>1. IInv /\ [Next]_vars => [A]_vars
    <2> SUFFICES ASSUME IInv, [Next]_vars PROVE [A]_vars
      OBVIOUS
    <2> USE DEF IInv, TypeOK
    <2>1. ASSUME NEW id \in AlertIds, NEW w \in Periods, NEW c \in Periods,
                 SetAlert(id, w, c)
          PROVE  A
      BY <2>1 DEF SetAlert
    <2>2. CASE UnsetAlert
      BY <2>2 DEF UnsetAlert
    <2>3. ASSUME NEW result \in BOOLEAN, SetAlertConditionResult(result)
          PROVE  A
      BY <2>3 DEF SetAlertConditionResult
    <2>4. CASE Tick
      BY <2>4 DEF Tick, raiserVars
    <2>5. ASSUME NEW t \in Timers, TimerIsr(t) PROVE A
      BY <2>5 DEF TimerIsr, raiserVars
    <2>6. CASE PeriodExpiredCb
      BY <2>6 DEF PeriodExpiredCb, TimerRunsTowardsCondition
    <2> QED
      BY <2>1, <2>2, <2>3, <2>4, <2>5, <2>6 DEF Next
  <1> QED
    BY <1>1, Invariance, PTL DEF Spec, ChangesOnlyTowardsCondition

\* Raising waits for the warmup period and silencing for the cooldown period,
\* except when a stale callback is executed.
THEOREM FreshChangesWait == Spec => FreshChangesWaitForPeriod
  <1> DEFINE A == \A raised \in BOOLEAN :
                    Changes(raised) /\ ~StaleCallback => held' >= period_ms[TimerTo(raised)]
  <1>1. IInv /\ [Next]_vars => [A]_vars
    <2> SUFFICES ASSUME IInv, Next, NEW raised \in BOOLEAN, Changes(raised), ~StaleCallback
                 PROVE  held' >= period_ms[TimerTo(raised)]
      BY Zenon
    <2>1. TypeOK /\ TypeOK' /\ held' \in Nat
      <3>1. TypeOK
        BY DEF IInv
      <3>2. TypeOK'
        BY <3>1, TypeStep
      <3> QED
        BY <3>1, <3>2, ConstantsAssumption DEF TypeOK
    <2>2. ASSUME NEW id \in AlertIds, NEW w \in Periods, NEW c \in Periods,
                 SetAlert(id, w, c)
          PROVE  FALSE
      BY <2>2 DEF SetAlert, Changes
    <2>3. ~UnsetAlert
      BY DEF UnsetAlert, Changes
    <2>4. ASSUME NEW result \in BOOLEAN, SetAlertConditionResult(result)
          PROVE  held' >= period_ms[TimerTo(raised)]
      <3>1. result = raised /\ period_ms[TimerTo(result)] = 0
        BY <2>1, <2>4 DEF SetAlertConditionResult, Changes, TypeOK
      <3> QED
        BY <2>1, <3>1
    <2>5. ~Tick
      BY <2>1 DEF Tick, raiserVars, Changes, TypeOK
    <2>6. ASSUME NEW t \in Timers, TimerIsr(t) PROVE FALSE
      <3>1. is_alert_raised' = is_alert_raised
        BY <2>6, Zenon DEF TimerIsr, raiserVars
      <3> QED
        <4>1. CASE raised = TRUE
          BY <3>1, <4>1 DEF Changes
        <4>2. CASE raised = FALSE
          BY <3>1, <4>2 DEF Changes
        <4> QED
          BY <4>1, <4>2
    <2>7. CASE PeriodExpiredCb
      <3> DEFINE t == Head(queue).timer
      <3>1. Head(queue) \in Event /\ 1 \in DOMAIN queue /\ Head(queue) = queue[1]
        BY <2>1, <2>7, TailFacts DEF PeriodExpiredCb, TypeOK
      <3>2. t \in running_timers /\ raised = Target(t)
        BY <2>1, <2>7 DEF PeriodExpiredCb, Changes, TypeOK
      <3>3. t = TimerTo(raised)
        BY <3>1, <3>2 DEF Event, Timers, Target, TimerTo
      <3>4. ~queue[1].stale
        BY <2>7, <3>1 DEF StaleCallback, PeriodExpiredCb
      <3>5. held >= period_ms[t]
        BY <3>1, <3>2, <3>4 DEF IInv, HeldCoversPeriod
      <3> QED
        BY <2>7, <3>3, <3>5 DEF PeriodExpiredCb
    <2> QED
      BY <2>2, <2>3, <2>4, <2>5, <2>6, <2>7 DEF Next
  <1> QED
    BY <1>1, Invariance, PTL DEF Spec, FreshChangesWaitForPeriod

\* The raiser implements the life cycle of an alert: its initial state and each
\* of its steps is one of AlertLifecycle, or leaves what clients see alone.
THEOREM ImplementsLifecycleSafely == Spec => Lifecycle!SafeSpec
  <1>1. Init => Lifecycle!Init
    BY DEF Init, Lifecycle!Init
  <1>2. IInv /\ [Next]_vars => [Lifecycle!Next]_(Lifecycle!vars)
    <2> SUFFICES ASSUME IInv, [Next]_vars
                 PROVE  Lifecycle!Next \/ UNCHANGED Lifecycle!vars
      OBVIOUS
    <2>1. ASSUME NEW id \in AlertIds, NEW w \in Periods, NEW c \in Periods,
                 SetAlert(id, w, c)
          PROVE  Lifecycle!Add
      BY <2>1 DEF SetAlert, Lifecycle!Add, IInv, UnsetIsSilent, TypeOK
    <2>2. CASE UnsetAlert
      BY <2>2 DEF UnsetAlert, Lifecycle!Next, Lifecycle!Remove
    <2>3. ASSUME NEW result \in BOOLEAN, SetAlertConditionResult(result)
          PROVE  Lifecycle!Evaluate(result)
      BY <2>3 DEF SetAlertConditionResult, Lifecycle!Evaluate, IInv, TypeOK
    <2>4. CASE Tick
      BY <2>4 DEF Tick, raiserVars, Lifecycle!vars
    <2>5. ASSUME NEW t \in Timers, TimerIsr(t) PROVE UNCHANGED Lifecycle!vars
      BY <2>5 DEF TimerIsr, raiserVars, historyVars, Lifecycle!vars
    <2>6. CASE PeriodExpiredCb
      <3>1. CASE Head(queue).timer \in running_timers
        BY <2>6, <3>1 DEF PeriodExpiredCb, IInv, TimerRunsTowardsCondition, TypeOK,
          Lifecycle!Next, Lifecycle!Correct
      <3>2. CASE Head(queue).timer \notin running_timers
        BY <2>6, <3>2 DEF PeriodExpiredCb, Lifecycle!vars
      <3> QED
        BY <3>1, <3>2
    <2>7. CASE UNCHANGED vars
      BY <2>7 DEF vars, raiserVars, historyVars, Lifecycle!vars
    <2> QED
      BY <2>1, <2>2, <2>3, <2>4, <2>5, <2>6, <2>7 DEF Next, Lifecycle!Next
  <1> QED
    BY <1>1, <1>2, Invariance, PTL DEF Spec, Lifecycle!SafeSpec
=============================================================================
