------------------------------ MODULE LedManager ------------------------------
(***************************************************************************)
(* The LED manager (app/led_manager.c) on its linked list                  *)
(* (app/utils/linked_list.c), with its periodic EasTimer and the 32-bit    *)
(* time arithmetic of app/utils/eas_time.c.                                *)
(*                                                                         *)
(* A LedNotification is the slot of the allocator it lives in, and so is   *)
(* the list node that holds it: pointers are compared, freed and reused as *)
(* in the code.  The timer ISR queues the expiry callback and the event    *)
(* thread executes it up to MaxLag ticks later, so that a callback of an   *)
(* earlier run of the timer may be executed after the timer was stopped or *)
(* restarted.                                                              *)
(***************************************************************************)
EXTENDS Integers, SequencesExt

CONSTANTS
  Slots,      \* memory slots for notifications (allocator and node pool)
  Kinds,      \* colours and patterns
  NULL,       \* the null pointer
  Off,        \* the LED displays nothing
  Duration,   \* LED_MANAGER_NOTIFICATION_DURATION_MS, in ticks
  Margin,     \* CONFIG_LED_MANAGER_IGNORE_TIMER_MARGIN_MS, in ticks
  MaxLag,     \* longest time an expiry callback waits in the event queue
  Modulus     \* number of values of EasTime (2^32 in the code)

ASSUME ConstantsAssumption ==
  /\ NULL \notin Slots
  /\ Off \notin Kinds
  /\ Duration \in Nat \ {0}
  /\ Margin \in 0..Duration
  /\ MaxLag \in Nat
  /\ Modulus \in Nat \ {0}
  /\ Modulus % 2 = 0
  /\ Modulus > 2 * (Duration + MaxLag)

VARIABLES
  list,                      \* the linked list, first node first
  kind,                      \* led_color and led_pattern of each slot
  displayed_notification,
  iterator,                  \* node that iterator_next returns next
  ignore_timer_before_time,
  is_timer_running,
  led,                       \* what led_setter was last told
  timer_left,                \* ticks until the kernel timer fires, or Stopped
  queue,                     \* waiting callbacks: ticks each has waited
  now,                       \* k_uptime_get_32
  turn,                      \* history: ticks since the LED was set or the
                             \* timer started, up to TurnBound
  elapsed                    \* history: ticks since the timer was started,
                             \* up to ElapsedBound

listVars == <<list, kind, displayed_notification, iterator, led>>
vars == <<listVars, ignore_timer_before_time, is_timer_running, timer_left, queue,
          now, turn, elapsed>>

\* A kernel timer that is not running.
Stopped == -1

\* The longest a notification stays on the LED once callbacks are ignored: half
\* the range, and the callbacks at both ends of it.
LongestStall == Modulus \div 2 + 2 * (Duration + MaxLag)
TurnBound == LongestStall + 1
ElapsedBound == Modulus \div 2

Nodes == ToSet(list)

TypeOK ==
  /\ list \in Seq(Slots)
  /\ kind \in [Slots -> Kinds]
  /\ displayed_notification \in Slots \cup {NULL}
  /\ iterator \in Slots \cup {NULL}
  /\ ignore_timer_before_time \in 0..Modulus - 1
  /\ is_timer_running \in BOOLEAN
  /\ led \in Kinds \cup {Off}
  /\ timer_left \in {Stopped} \cup 0..Duration
  /\ queue \in Seq(0..MaxLag)
  /\ now \in 0..Modulus - 1
  /\ turn \in 0..TurnBound
  /\ elapsed \in 0..ElapsedBound

Init ==
  /\ list = <<>>
  /\ kind \in {[s \in Slots |-> k] : k \in Kinds}
  /\ displayed_notification = NULL
  /\ iterator = NULL
  /\ ignore_timer_before_time = 0
  /\ is_timer_running = FALSE
  /\ led = Off
  /\ timer_left = Stopped
  /\ queue = <<>>
  /\ now = 0
  /\ turn = 0
  /\ elapsed = 0

-----------------------------------------------------------------------------
(* The linked list and its iterator.                                        *)

IndexOf(l, s) == SelectInSeq(l, LAMBDA x : x = s)

\* The node after s, NULL after the last one: where the iterator stands once
\* it has returned s (linked_list_iterator_next).
NodeAfter(l, s) == LET i == IndexOf(l, s) IN IF i < Len(l) THEN l[i + 1] ELSE NULL

\* Mutant: the iterator is not moved past the node it returns.
AdvanceWithoutMoving(l, it) ==
  LET node == IF it = NULL THEN Head(l) ELSE it
  IN  [node |-> node, iterator |-> node]

\* Mutant: past the end, the iterator stays on the last node.
AdvanceStaysAtEnd(l, it) ==
  LET node == IF it = NULL THEN Last(l) ELSE it
  IN  [node |-> node, iterator |-> NodeAfter(l, node)]

\* advance_notification_iterator: the node it returns when the iterator stands
\* at `it', and where the iterator is left; past the end it starts over.
Advance(l, it) ==
  LET node == IF it = NULL THEN Head(l) ELSE it
  IN  [node |-> node, iterator |-> NodeAfter(l, node)]

\* remove_condition_cb
RemoveCondition(s, k) == kind[s] = k

\* Where linked_list_remove_on_condition_with_limit takes out a node for kind
\* k: the first one that matches.
FirstMatch(k) == SelectInSeq(list, LAMBDA s : RemoveCondition(s, k))

\* Mutant: the iterator is not taken to the removed notification first.
NextAfterRemovedFromStart(removed) == Advance(list, NULL)

\* What find_next_notification_after_removed_and_free leaves behind: the
\* notification after the removed one, and the iterator.
NextAfterRemoved(removed) == Advance(list, NodeAfter(list, removed))

-----------------------------------------------------------------------------
(* EasTime arithmetic and the notification timer.                           *)

\* Mutant: the sum does not wrap around.
OffsetIntoFutureUnbounded(time, offset) == time + offset

\* eas_time_offset_into_future
OffsetIntoFuture(time, offset) == (time + offset) % Modulus

\* Mutant: times are compared as numbers.
IsEqualOrAfterPlain(time1, time2) == time1 >= time2

\* eas_time_is_equal_or_after: the unsigned difference, and UINT32_MAX / 2.
IsEqualOrAfter(time1, time2) == (time1 - time2) % Modulus <= (Modulus - 1) \div 2

\* Mutant: the time before which callbacks are ignored is not renewed.
StartNotificationTimerOldTime ==
  /\ timer_left' = Duration
  /\ is_timer_running' = TRUE
  /\ elapsed' = 0
  /\ UNCHANGED ignore_timer_before_time

\* start_notification_timer, on a timer that may be running already.
StartNotificationTimer ==
  /\ timer_left' = Duration
  /\ ignore_timer_before_time' = OffsetIntoFuture(now, Duration - Margin)
  /\ is_timer_running' = TRUE
  /\ elapsed' = 0

\* stop_notification_timer: a callback that is queued stays queued.
StopNotificationTimer ==
  /\ timer_left' = Stopped
  /\ is_timer_running' = FALSE
  /\ UNCHANGED <<ignore_timer_before_time, elapsed>>

timerVars == <<timer_left, ignore_timer_before_time, is_timer_running, elapsed>>

\* display_notification, for the notification in slot s, of kind k.
DisplayNotification(s, k) ==
  /\ displayed_notification' = s
  /\ led' = k
  /\ turn' = 0

\* turn_off_led
TurnOffLed == displayed_notification' = NULL /\ led' = Off

KeepDisplay == UNCHANGED <<displayed_notification, led>>

-----------------------------------------------------------------------------
(* The API: led_notification_executor_execute adds and removes.             *)

\* led_manager_add_notification
AddNotification(k) ==
  \E s \in Slots \ Nodes :
    /\ kind' = [kind EXCEPT ![s] = k]
    /\ list' = Append(list, s)
    /\ CASE Len(list') = 1 ->
              /\ DisplayNotification(s, k)
              /\ UNCHANGED <<iterator, timerVars>>
         [] Len(list') = 2 ->
              /\ iterator' = Advance(list', Head(list')).iterator
              /\ StartNotificationTimer
              /\ turn' = 0
              /\ KeepDisplay
         [] Len(list') > 2 ->
              /\ iterator' = NodeAfter(list', displayed_notification)
              /\ UNCHANGED <<timerVars, turn>>
              /\ KeepDisplay
    /\ UNCHANGED <<queue, now>>

\* led_manager_remove_notification.  When no notification has kind k it
\* returns false and changes nothing.
RemoveNotification(k) ==
  /\ \E s \in Nodes : kind[s] = k
  /\ LET i       == FirstMatch(k)
         removed == list[i]    \* removed_notification
         adv     == NextAfterRemoved(removed)
         next    == adv.node   \* next_notification_after_removed
     IN /\ list' = RemoveAt(list, i)
        /\ UNCHANGED kind
        /\ CASE Len(list') = 0 ->
                  /\ TurnOffLed
                  /\ UNCHANGED <<iterator, timerVars, turn>>
             [] Len(list') = 1 ->
                  /\ iterator' = adv.iterator
                  /\ IF displayed_notification # next
                     THEN DisplayNotification(next, kind[next])
                     ELSE KeepDisplay /\ UNCHANGED turn
                  /\ StopNotificationTimer
             [] Len(list') > 1 ->
                  IF displayed_notification = removed
                  THEN /\ iterator' = NodeAfter(list', next)
                       /\ DisplayNotification(next, kind[next])
                       /\ StartNotificationTimer
                  ELSE /\ iterator' = NodeAfter(list', displayed_notification)
                       /\ KeepDisplay
                       /\ UNCHANGED <<timerVars, turn>>
  /\ UNCHANGED <<queue, now>>

-----------------------------------------------------------------------------
(* Time, the timer ISR and the event thread.                                *)

UpTo(n, bound) == IF n < bound THEN n + 1 ELSE bound

\* One tick passes; no callback waits longer than MaxLag.
Tick ==
  /\ timer_left # 0
  /\ \A i \in DOMAIN queue : queue[i] < MaxLag
  /\ now' = (now + 1) % Modulus
  /\ timer_left' = IF timer_left = Stopped THEN Stopped ELSE timer_left - 1
  /\ queue' = [i \in DOMAIN queue |-> queue[i] + 1]
  /\ turn' = UpTo(turn, TurnBound)
  /\ elapsed' = UpTo(elapsed, ElapsedBound)
  /\ UNCHANGED <<listVars, ignore_timer_before_time, is_timer_running>>

\* zephyr_timer_expiry_function; the kernel re-arms the periodic timer.
TimerIsr ==
  /\ timer_left = 0
  /\ timer_left' = Duration
  /\ queue' = Append(queue, 0)
  /\ UNCHANGED <<listVars, ignore_timer_before_time, is_timer_running, now, turn, elapsed>>

\* notification_timer_cb
NotificationTimerCb ==
  /\ queue # <<>>
  /\ queue' = Tail(queue)
  /\ IF is_timer_running /\ IsEqualOrAfter(now, ignore_timer_before_time)
     THEN LET adv == Advance(list, iterator) IN
          /\ iterator' = adv.iterator
          /\ DisplayNotification(adv.node, kind[adv.node])
     ELSE UNCHANGED <<iterator, displayed_notification, led, turn>>
  /\ UNCHANGED <<list, kind, timerVars, now>>

Next ==
  \/ \E k \in Kinds : AddNotification(k) \/ RemoveNotification(k)
  \/ Tick
  \/ TimerIsr
  \/ NotificationTimerCb

Spec == Init /\ [][Next]_vars

\* Time passes, the timer interrupt is served and the event thread executes
\* what is queued.  Nothing is assumed of those who add and remove.
Fairness == WF_vars(Tick) /\ WF_vars(TimerIsr) /\ WF_vars(NotificationTimerCb)

FairSpec == Spec /\ Fairness

-----------------------------------------------------------------------------
(* Properties                                                               *)

\* led_manager.c on displayed_notification: "Should always point to a
\* LedNotification element currently in the linked list of notifications.
\* NULL if the LED is turned off."  The LED shows that element's colour, even
\* when slots are freed and reused.
DisplayedIsListed ==
  IF list = <<>>
  THEN displayed_notification = NULL /\ led = Off
  ELSE displayed_notification \in Nodes /\ led = kind[displayed_notification]

\* While the LED alternates, the iterator stands right after the displayed
\* notification: never at a freed node, and no notification is skipped or
\* shown twice in a row after an addition or a removal.
IteratorFollowsDisplayed ==
  Len(list) >= 2 => iterator = NodeAfter(list, displayed_notification)

\* The timer runs exactly while there is something to alternate between.
TimerRunsIffAlternating ==
  /\ is_timer_running <=> Len(list) >= 2
  /\ is_timer_running <=> timer_left # Stopped

\* The LED, the list, the iterator and the timer agree after every operation,
\* whichever node is added or removed and whenever the callback comes.
RotationIsConsistent ==
  DisplayedIsListed /\ IteratorFollowsDisplayed /\ TimerRunsIffAlternating

\* A callback left over from before a restart or a stop never cuts a
\* notification short: the callback switches the LED only when the current
\* turn has lasted the period, less the time callbacks may be late.  It takes
\* callbacks that are never later than the period that is ignored.
TurnsAreLongEnough ==
  [][(/\ MaxLag < Duration - Margin
      /\ Len(queue') < Len(queue)
      /\ displayed_notification' # displayed_notification)
       => turn >= Duration - MaxLag]_vars

\* led_manager.h: "the led manager periodically switches between all added
\* notifications".  For half the range of EasTime after the timer was started each
\* turn ends with its callback.  Then callbacks are taken for early ones, and the
\* LED stays as it is; that ends, each time, after half the range and the
\* callbacks at both ends of it, however often EasTime has overflowed since.
TurnsEndInTime ==
  is_timer_running =>
    turn <= IF elapsed < ElapsedBound THEN Duration + MaxLag ELSE LongestStall

\* Every notification gets its turn, across overflows of EasTime, once
\* notifications are no longer added and removed.  (The removal of the displayed
\* one starts a new turn for the next, so that additions behind it and removals
\* can keep the others waiting for as long as they go on.)
EveryNotificationIsDisplayed ==
  <>[][list' = list]_vars =>
    \A s \in Slots : (s \in Nodes) ~> (s \notin Nodes \/ displayed_notification = s)

\* The notifications that are added, kind by kind.
Added == [k \in Kinds |-> Cardinality({s \in Nodes : kind[s] = k})]

Rotation == INSTANCE LedRotation WITH added <- Added

\* The manager implements the promise of led_manager.h.
ImplementsRotation == Rotation!Spec
=============================================================================
