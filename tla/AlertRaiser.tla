----------------------------- MODULE AlertRaiser -----------------------------
(***************************************************************************)
(* One AlertRaiser instance (app/alert_raiser.c) with its two one-shot     *)
(* EasTimers (interfaces/implementations/eas_timer/zephyr/eas_timer.c).    *)
(*                                                                         *)
(* A timer that runs out does not call its expiry callback: the timer ISR  *)
(* submits the callback to the central event queue, and the event thread   *)
(* executes it later.  Between the two, the event thread may execute       *)
(* events that were queued earlier, and the Bluetooth thread may add or    *)
(* remove the alert, so any API call of the module can come in between.    *)
(*                                                                         *)
(* Time is counted in ticks.  The two timers play mirrored roles, so the   *)
(* fields that the code has once for the warmup and once for the cooldown  *)
(* timer are functions over Timers here.                                   *)
(***************************************************************************)
EXTENDS Integers, Sequences

CONSTANTS
  AlertIds,     \* ids of the alerts the instance may be set for, 0 included
  Periods,      \* warmup and cooldown periods, in ticks, 0 included
  MaxPeriod,    \* no period is longer; `held' is counted up to this value
  QueueBound    \* number of expiry callbacks that may wait in the queue

ASSUME ConstantsAssumption ==
  /\ 0 \in AlertIds
  /\ MaxPeriod \in Nat
  /\ Periods \subseteq 0..MaxPeriod
  /\ Periods # {}
  /\ QueueBound \in Nat \ {0}

VARIABLES
  is_alert_set,       \* struct AlertRaiserStruct
  is_alert_raised,
  alert_id,
  period_ms,          \* warmup_period_ms, cooldown_period_ms
  running_timers,     \* timers whose is_warmup_timer_running or
                      \* is_cooldown_timer_running flag is true
  timer_period,       \* EasTimerStruct.period_ms of each timer
  timer_left,         \* ticks until the kernel timer runs out, or Stopped
  queue,              \* expiry callbacks waiting in the central event queue
  outstanding,        \* per alert id: notifications "raised" minus "silenced"
  cond,               \* history: last condition result of the current alert
  held                \* history: ticks for which cond has had this value

raiserVars  == <<is_alert_set, is_alert_raised, alert_id, period_ms,
                 running_timers>>
timerVars   == <<timer_period, timer_left, queue>>
historyVars == <<outstanding, cond, held>>
vars == <<raiserVars, timerVars, historyVars>>

Timers == {"warmup", "cooldown"}

\* A kernel timer that is not running.
Stopped == -1

\* The alert state a timer leads to when it runs out.
Target(t) == t = "warmup"

\* The timer that leads to alert state `raised'.
TimerTo(raised) == IF raised THEN "warmup" ELSE "cooldown"

\* An expiry callback in the queue.  `stale' is history: the timer has been
\* started again since the callback was queued.
Event == [timer : Timers, stale : BOOLEAN]

TypeOK ==
  /\ is_alert_set \in BOOLEAN
  /\ is_alert_raised \in BOOLEAN
  /\ alert_id \in AlertIds
  /\ period_ms \in [Timers -> Periods \cup {0}]
  /\ running_timers \in SUBSET Timers
  /\ timer_period \in [Timers -> 0..MaxPeriod]
  /\ timer_left \in [Timers -> {Stopped} \cup 0..MaxPeriod]
  /\ queue \in Seq(Event)
  /\ outstanding \in [AlertIds -> Int]
  /\ cond \in BOOLEAN
  /\ held \in 0..MaxPeriod

\* alert_raiser_create
Init ==
  /\ is_alert_set = FALSE
  /\ is_alert_raised = FALSE
  /\ alert_id = 0
  /\ period_ms = [t \in Timers |-> 0]
  /\ running_timers = {}
  /\ timer_period = [t \in Timers |-> 0]
  /\ timer_left = [t \in Timers |-> Stopped]
  /\ queue = <<>>
  /\ outstanding = [a \in AlertIds |-> 0]
  /\ cond = FALSE
  /\ held = 0

-----------------------------------------------------------------------------
(* Helpers                                                                  *)

\* alert_notifier_notify: every call sends one notification, whatever the
\* previous one said.
Notify(id, raised) ==
  outstanding' = [outstanding EXCEPT ![id] = @ + (IF raised THEN 1 ELSE -1)]

MarkStale(q, t) ==
  [i \in DOMAIN q |-> [timer |-> q[i].timer, stale |-> q[i].stale \/ q[i].timer = t]]

\* Mutant: the timer is armed one tick too long.
StartTimerLate(t) ==
  /\ timer_left' = [timer_left EXCEPT ![t] = timer_period[t] + 1]
  /\ running_timers' = running_timers \cup {t}
  /\ queue' = MarkStale(queue, t)

\* Mutant: a kernel timer that still runs is not restarted.
StartTimerUnlessRunning(t) ==
  /\ timer_left' = [timer_left EXCEPT ![t] = IF @ = Stopped THEN timer_period[t] ELSE @]
  /\ running_timers' = running_timers \cup {t}
  /\ queue' = MarkStale(queue, t)

\* start_warmup_timer, start_cooldown_timer
StartTimer(t) ==
  /\ timer_left' = [timer_left EXCEPT ![t] = timer_period[t]]
  /\ running_timers' = running_timers \cup {t}
  /\ queue' = MarkStale(queue, t)

\* Mutant: the flag is left set when the timer is stopped.
StopTimersKeepFlag(S) ==
  /\ timer_left' = [t \in Timers |-> IF t \in S THEN Stopped ELSE timer_left[t]]
  /\ UNCHANGED running_timers

\* stop_warmup_timer, stop_cooldown_timer, for the timers in S.  A callback
\* that is already queued stays queued.
StopTimers(S) ==
  /\ timer_left' = [t \in Timers |-> IF t \in S THEN Stopped ELSE timer_left[t]]
  /\ running_timers' = running_timers \ S

-----------------------------------------------------------------------------
(* The module's API, called by the alert adder, the alert remover and the   *)
(* variable requirement evaluator.                                          *)

\* alert_raiser_set_alert: the adder only calls it when no alert is set.
SetAlert(id, warmup, cooldown) ==
  LET p == [t \in Timers |-> IF t = "warmup" THEN warmup ELSE cooldown] IN
  /\ ~is_alert_set
  /\ timer_period' = [t \in Timers |-> IF p[t] > 0 THEN p[t] ELSE timer_period[t]]
  /\ period_ms' = p
  /\ alert_id' = id
  /\ is_alert_set' = TRUE
  /\ cond' = FALSE
  /\ held' = 0
  /\ UNCHANGED <<is_alert_raised, running_timers, timer_left, queue, outstanding>>

\* Mutant: a raised alert is unset without a notification.
UnsetAlertQuietly ==
  /\ is_alert_set
  /\ StopTimers(running_timers)
  /\ is_alert_raised' = FALSE
  /\ is_alert_set' = FALSE
  /\ cond' = FALSE
  /\ held' = 0
  /\ UNCHANGED <<alert_id, period_ms, timer_period, queue, outstanding>>

\* Mutant: the raised state survives into the next alert.
UnsetAlertStaysRaised ==
  /\ is_alert_set
  /\ StopTimers(running_timers)
  /\ is_alert_set' = FALSE
  /\ cond' = FALSE
  /\ held' = 0
  /\ UNCHANGED <<is_alert_raised, alert_id, period_ms, timer_period, queue, outstanding>>

\* alert_raiser_unset_alert: the remover only calls it when an alert is set.
UnsetAlert ==
  /\ is_alert_set
  /\ StopTimers(running_timers)
  /\ IF is_alert_raised THEN Notify(alert_id, FALSE) ELSE UNCHANGED outstanding
  /\ is_alert_raised' = FALSE
  /\ is_alert_set' = FALSE
  /\ cond' = FALSE
  /\ held' = 0
  /\ UNCHANGED <<alert_id, period_ms, timer_period, queue>>

\* alert_raiser_set_alert_condition_result
SetAlertConditionResult(result) ==
  /\ is_alert_set
  /\ cond' = result
  /\ held' = IF result = cond THEN held ELSE 0
  /\ \/ \* Already in the required state: stop the timer that would leave it.
        /\ is_alert_raised = result
        /\ StopTimers(running_timers \cap {TimerTo(~result)})
        /\ UNCHANGED <<is_alert_raised, queue, outstanding>>
     \/ \* A timer has to change the state later, or has been started already.
        /\ is_alert_raised # result
        /\ period_ms[TimerTo(result)] > 0
        /\ IF TimerTo(result) \in running_timers
           THEN UNCHANGED <<timer_left, running_timers, queue>>
           ELSE StartTimer(TimerTo(result))
        /\ UNCHANGED <<is_alert_raised, outstanding>>
     \/ \* No period: change the state at once.
        /\ is_alert_raised # result
        /\ period_ms[TimerTo(result)] = 0
        /\ Notify(alert_id, result)
        /\ is_alert_raised' = result
        /\ UNCHANGED <<timer_left, running_timers, queue>>
  /\ UNCHANGED <<is_alert_set, alert_id, period_ms, timer_period>>

-----------------------------------------------------------------------------
(* Time, the timer ISR and the event thread.                                *)

\* One tick passes; a timer that is due fires before the next tick.
Tick ==
  /\ \A t \in Timers : timer_left[t] # 0
  /\ timer_left' = [t \in Timers |->
                      IF timer_left[t] = Stopped THEN Stopped ELSE timer_left[t] - 1]
  /\ held' = IF held < MaxPeriod THEN held + 1 ELSE held
  /\ UNCHANGED <<raiserVars, timer_period, queue, outstanding, cond>>

\* zephyr_timer_expiry_function, in the timer ISR, submits the callback.
TimerIsr(t) ==
  /\ timer_left[t] = 0
  /\ Len(queue) < QueueBound
  /\ timer_left' = [timer_left EXCEPT ![t] = Stopped]
  /\ queue' = Append(queue, [timer |-> t, stale |-> FALSE])
  /\ UNCHANGED <<raiserVars, timer_period, historyVars>>

\* Mutant: the callback does not look at the flag.
PeriodExpiredCbUnguarded ==
  /\ queue # <<>>
  /\ queue' = Tail(queue)
  /\ LET t == Head(queue).timer IN
     /\ Notify(alert_id, Target(t))
     /\ is_alert_raised' = Target(t)
     /\ running_timers' = running_timers \ {t}
  /\ UNCHANGED <<is_alert_set, alert_id, period_ms, timer_period, timer_left, cond, held>>

\* Mutant: the callback clears the flag before it looks at it.
PeriodExpiredCbClearsFirst ==
  /\ queue # <<>>
  /\ queue' = Tail(queue)
  /\ running_timers' = running_timers \ {Head(queue).timer}
  /\ UNCHANGED <<is_alert_set, is_alert_raised, alert_id, period_ms, timer_period,
                 timer_left, historyVars>>

\* The event thread executes warmup_period_expired_cb or
\* cooldown_period_expired_cb.
PeriodExpiredCb ==
  /\ queue # <<>>
  /\ queue' = Tail(queue)
  /\ LET t == Head(queue).timer IN
     IF t \in running_timers
     THEN /\ Notify(alert_id, Target(t))
          /\ is_alert_raised' = Target(t)
          /\ running_timers' = running_timers \ {t}
     ELSE UNCHANGED <<outstanding, is_alert_raised, running_timers>>
  /\ UNCHANGED <<is_alert_set, alert_id, period_ms, timer_period, timer_left, cond, held>>

Next ==
  \/ \E id \in AlertIds, w, c \in Periods : SetAlert(id, w, c)
  \/ UnsetAlert
  \/ \E result \in BOOLEAN : SetAlertConditionResult(result)
  \/ Tick
  \/ \E t \in Timers : TimerIsr(t)
  \/ PeriodExpiredCb

Spec == Init /\ [][Next]_vars

\* Time passes, interrupts are served and the event thread, which blocks only
\* on the empty queue, executes what is queued.  Nothing is assumed of the
\* callers of the API.
Fairness ==
  /\ WF_vars(Tick)
  /\ \A t \in Timers : WF_vars(TimerIsr(t))
  /\ WF_vars(PeriodExpiredCb)

FairSpec == Spec /\ Fairness

-----------------------------------------------------------------------------
(* Properties                                                               *)

\* What alert_raiser.c relies on in its comment "If the alert is raised, only
\* the cooldown timer can be running ... If the alert is silenced, only the
\* warmup timer can be running": a timer runs only while an alert is set, has
\* that period, and disagrees with its latest condition result in just the
\* direction of the timer.
TimerRunsTowardsCondition ==
  \A t \in running_timers :
    /\ is_alert_set
    /\ period_ms[t] > 0
    /\ is_alert_raised = ~Target(t)
    /\ cond = Target(t)

\* An alert never stays in the wrong state with nothing left to correct it:
\* where it disagrees with the condition, the timer flag is set, and a flag
\* that is set has a kernel timer or a queued callback behind it.
CorrectionIsUnderWay ==
  /\ is_alert_set /\ is_alert_raised # cond => TimerTo(cond) \in running_timers
  /\ \A t \in running_timers :
       timer_left[t] # Stopped \/ \E i \in DOMAIN queue : queue[i].timer = t

\* Both together: timers are awaited exactly where the alert disagrees with its
\* condition, each in the right direction and with something that will end it.
TimersServeCondition == TimerRunsTowardsCondition /\ CorrectionIsUnderWay

\* A timer is armed with the period of the alert that is set, not with the one
\* its predecessor on this instance left behind, and never with 0, which
\* eas_timer_start asserts against.
TimersHaveAlertPeriod ==
  is_alert_set =>
    \A t \in Timers : period_ms[t] > 0 => timer_period[t] = period_ms[t]

\* alert_notifier.h: "Notifications should only be sent when the alert state
\* changes".  The notifications sent for each alert alternate, and add up to
\* the state of the alert that is set; an alert that was replaced has been
\* silenced.
NotificationsMatchState ==
  \A a \in AlertIds :
    outstanding[a] = IF is_alert_raised /\ a = alert_id THEN 1 ELSE 0

\* An instance without an alert is silenced and has no condition.
UnsetIsSilent == ~is_alert_set => ~is_alert_raised /\ ~cond

\* While a timer is awaited, the time the condition has held and the time the
\* kernel timer has left make up the period, and a callback of the current run
\* that waits in the queue means that the whole period has passed.
HeldCoversPeriod ==
  \A t \in running_timers :
    /\ timer_left[t] # Stopped => held + timer_left[t] >= period_ms[t]
    /\ \A i \in DOMAIN queue :
         queue[i].timer = t /\ ~queue[i].stale => held >= period_ms[t]

\* The inductive invariant: the invariants above rest on each other (a timer
\* is started only when the state agrees with the previous condition result,
\* so that `held' starts with it).
IInv ==
  /\ TypeOK
  /\ TimerRunsTowardsCondition
  /\ CorrectionIsUnderWay
  /\ TimersHaveAlertPeriod
  /\ NotificationsMatchState
  /\ UnsetIsSilent
  /\ HeldCoversPeriod

\* A callback left over from an earlier run of its timer is executed.
StaleCallback == queue # <<>> /\ queue' = Tail(queue) /\ Head(queue).stale

\* The alert goes to state `raised' while it stays set.
Changes(raised) ==
  /\ is_alert_set /\ is_alert_set'
  /\ is_alert_raised = ~raised /\ is_alert_raised' = raised

\* An alert is only raised while its condition is true and only silenced
\* while it is false or the alert is removed, late callbacks included.
ChangesOnlyTowardsCondition ==
  [][/\ ~is_alert_raised /\ is_alert_raised' => is_alert_set' /\ cond'
     /\ is_alert_raised /\ ~is_alert_raised' => ~cond']_vars

\* Raising takes a condition that has been true for the warmup period,
\* silencing one that has been false for the cooldown period, unless the
\* callback is a stale one.
FreshChangesWaitForPeriod ==
  [][\A raised \in BOOLEAN :
       Changes(raised) /\ ~StaleCallback => held' >= period_ms[TimerTo(raised)]]_vars

\* alert_raiser.h: "The warmup period is the amount of time for which the
\* alert condition needs to evaluate to true before the alert is raised", and
\* the same for the cooldown period.
ChangesWaitForPeriod ==
  [][\A raised \in BOOLEAN :
       Changes(raised) => held' >= period_ms[TimerTo(raised)]]_vars

\* alert_raiser.h: "if the alert condition becomes true and stays true for at
\* least 10 seconds, the alert will be raised", and likewise for silencing: no
\* order of late callbacks, restarts and re-adds loses the change of state.
EventuallyFollowsCondition ==
  \A c \in BOOLEAN :
    (is_alert_set /\ cond = c) ~> (~is_alert_set \/ cond # c \/ is_alert_raised = c)

\* The life of an alert as its clients see it, with the fairness of its
\* correction step (AlertLifecycle).
Lifecycle == INSTANCE AlertLifecycle WITH
  set <- is_alert_set, cond <- cond, raised <- is_alert_raised

\* The raiser implements the alert's life cycle, liveness included.
ImplementsLifecycle == Lifecycle!Spec
=============================================================================
