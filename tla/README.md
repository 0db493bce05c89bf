# Verification of env-alert-system

TLA+ models of the firmware in `src/src`, the TLC runs that check them, and
TLAPS proofs that hold for instances of every size. `PROJECT.json` lists runs, mutants, the
map from definitions to source lines, findings, hazards and theorems.

Run a model with `tlc -config X.cfg M`, check the proofs of a `*Proofs` module
with `tlapm XProofs.tla`.

## The system

The program runs on an nRF52840 under Zephyr. Clients add and remove *alerts*
over Bluetooth LE. An alert has a condition over temperature, pressure,
humidity and light intensity (groups of ORed requirements, ANDed), a warmup and
a cooldown period, and notification channels: a status message to the client,
an LED colour and pattern, or both.

Application logic is meant to run on one thread, which takes events from the
central event queue. Events are submitted by the timer interrupt, the I2C
interrupt, the SPI callback, Bluetooth threads and the event thread itself. One
path does not follow this design: `eass.c` `on_receive` calls the receive
callback, and through it the alert adder and remover, directly on the Bluetooth
thread.

| Component | State | Operations | Interaction |
|---|---|---|---|
| alert raiser (`alert_raiser.c`), one per alert id | alert set, raised, id, periods, two timer flags | set, unset, condition result, two timer callbacks | called by adder, remover and requirement evaluation; calls the notifiers; timers call back through the queue |
| conditions and requirements (`alert_condition.c`, `variable_requirement*.c`) | requirement array with ANDs, cached results, one list per variable | add, evaluate, remove | built by the adder, walked by the sample handlers |
| sample handling (`new_sample_handler.c`, `value_holder.c`, `alert_evaluation_readiness.c`) | current values, received flags | new sample | events from the sensors; calls conditions and raisers |
| adder, remover, validator (`glue/`) | none of their own | add, remove | receive callback on the Bluetooth thread |
| notifiers (`connectivity_notifier.c`, `led_notifier.c`) | enabled channels per alert | enable, disable, notify | call the message transceiver and the LED manager |
| LED manager (`led_manager.c`, `linked_list.c`, `eas_time.c`) | list of notifications, iterator, displayed one, timer, time | add, remove, timer callback | alternates the LED |
| message transceiver (`msg_transceiver.c`, `virtual_transceiver_nrf_ble.c`) | message slots, transmit blocks | send, completion, init, deinit; parse and dispatch | Bluetooth stack |
| central event queue (`central_event_queue.c`, `eas_message_queue.c`) | a byte pipe | submit, take | every producer; the event thread |
| I2C bus (`ops_queue.c`, `hw_platform.c`, driver glue) | operations in a ring buffer, busy flag, callback data | add, complete | two sensor drivers, the TWIM interrupt |
| hardware platform (`hw_platform.c`, `init_handler.c`) | where the initialisation is, driver instances, the interfaces it provides, the Bluetooth connection | twelve init parts, `INIT_PART_2`, connection callbacks | drivers, Bluetooth stack, event queue; a report at the end starts `INIT_PART_2` |
| virtual sensors (`virtual_sht31.c`, `virtual_bh1750.c`, `virtual_bmp280.c`) | readout timers, started flags | start, readout timer callback, measurement complete | requests to the drivers over I2C and SPI; submit samples |
| timers (`eas_timer.c`) | instances handed out | create, start, stop, expiry | the interrupt submits the callback to the event queue |
| allocators (`*_allocator.c`) | pools of blocks | alloc, free | list nodes, requirements, LED notifications, transmit callbacks |
| LED PWM, threads, logging | | | see *Not modelled* |

What is hard here: callbacks of timers that were stopped, restarted or handed to
another alert since; evaluation that is skipped when a cached result did not
change; pointers into lists whose nodes are freed and reused; fixed pools and
queues that assert when full; arithmetic on a clock that overflows; two threads
and interrupts on data that only one was meant to touch. `PROJECT.json`
"hazards" names the lines.

What makes each part correct: an alert is raised and silenced only as its
condition says, in the end always, and each change is notified once; no change
of a condition is missed; memory is neither leaked nor freed too early; the LED
and the client agree with the alerts; every added LED notification gets its
turn; messages arrive as they were encoded, their callbacks are executed once
and for the right message; events are handled whole and in order; every bus
operation completes with its own callback; initialisation runs through its parts
once and reports once; a sensor is read out before it is asked again; the device
can be found again after a connection; an allocated object keeps its content.

## Modules

| Module | Models | Composition |
|---|---|---|
| `AlertLifecycle` | what a raiser promises: one alert after the other, changes towards the condition | abstract |
| `AlertRaiser` | one raiser, its two one-shot timers, the ISR and the queued callbacks | implements `AlertLifecycle` |
| `AlertRaiserProofs` | theorems about `AlertRaiser` | |
| `LedRotation` | what the LED manager promises | abstract |
| `LedManager` | the manager on its list, with memory slots, the periodic timer and wrapping time | implements `LedRotation` |
| `AlertCondition` | the requirement array and its short-circuit evaluation | operators |
| `AlertEngine` | adder, remover, validator, sample handlers, readiness, values, cached results, lists, notifiers | uses `AlertCondition`; each raiser behaves as `AlertLifecycle`, the LED manager as the counts of `LedRotation` |
| `AlertMessage` | the parser of received messages, one action per field | hands over what `AlertEngine` takes in as `Messages` |
| `MsgTransceiver` | sending status messages: slots, blocks, the stack's completions | |
| `EventFifo` | what the event queue promises | abstract |
| `EventQueue` | pushes in two writes, pops in two reads, contexts that interrupt each other | implements `EventFifo` up to a message that a nested push tore apart |
| `I2cBus` | the operation queue shared by the sensors, for drivers that make requests at any time (`BusSpec`) | |
| `HwPlatform` | initialisation, `INIT_PART_2`, readouts over both buses, timer instances, the Bluetooth connection | extends `I2cBus` and implements its `BusSpec`; a sample is handed to `AlertEngine`, the queue of events is that of `EventFifo` |
| `MemBlocks` | the four allocators over Zephyr's memory blocks | |
| `LedManagerProofs`, `MsgTransceiverProofs`, `EventQueueProofs`, `AlertMessageProofs` | theorems about the module in their name | |
| `HwPlatformProofs` | theorems about the I2C bus; the platform implements `BusSpec`, so they hold of it; theorems about the platform | extends `HwPlatform`, which extends `I2cBus` |
| `AlertConditionProofs` | what the loops of conditions, adder and lists compute for every length | extends `AlertEngine` |
| `AlertEngineProofs` | theorems about `AlertEngine` | extends `AlertConditionProofs` |

How state corresponds to the code:

- **AlertRaiser.** Variables have the names of the struct's fields; the fields
  that exist for warmup and for cooldown are functions over `Timers`. Each API
  function is an action, each timer callback the action `PeriodExpiredCb`. A
  timer counts ticks; when it is due, `TimerIsr` appends its callback to
  `queue`. `cond`, `held`, `outstanding` and the `stale` mark of a callback are
  history: they record, and no guard reads them.
- **LedManager.** A notification and its list node are one memory slot, which is
  free when not listed and may be reused at once. `iterator` is the node that
  will be returned next. `now`, `ignore_timer_before_time` and the comparison
  are modulo `Modulus` (2^32 in the code). A callback is executed at most
  `MaxLag` ticks after its interrupt; `turn` and `elapsed` are history.
- **AlertEngine.** `pc`, `lists_left` and `node` are the position of the event
  thread inside `new_sample_handler`: readiness first, then the value, then one
  step per list node. Adding and removing are one step each: on its Bluetooth
  thread the callback is not preempted by the event thread. `BluetoothPreempts`
  says whether it may come inside a sample handler. On the event thread the
  raiser notifies first and assigns `is_alert_raised` in a later step; `raising`
  is what it still has to assign. The four variables and
  their four copies of the code are one definition with a parameter; numbers
  stand for samples. `client` is history.
- **AlertMessage.** The bytes of each field are chosen when the parser reads
  them, and the length of the message at the start; the alert that comes out is
  compared with an encoder written from the structure of the message. Every
  numeric conversion (byte order, the sign of a temperature) is modelled.
- **MsgTransceiver.** A message stands for the callback that is passed with it.
  The send function on the event thread is split where it has found a slot and
  not yet marked it. `carries` and `overtaken` are history.
- **EventQueue.** A byte in the pipe is known by the event it belongs to and its
  position. A push is two steps, and so is a pop. A byte that is wrongly taken
  for a size may have any value. `torn` is history: where in the pipe the size byte
  of the first push is that another one interrupted, 0 once it has been popped.
- **I2cBus.** The drivers are empty submodules of the repository and are external:
  one operation at a time, and from a callback either a new operation, a timer
  or the end. Operations of a sensor have alternating numbers.
- **HwPlatform.** `events` is the central event queue; an event handler is one
  step, except for `INIT_PART_2`, in which a message can be received on the
  Bluetooth thread between any two of its calls. A driver's request remembers
  the event it was made for, which is the callback that is executed at its end:
  `init_part_<n>_complete` or that of the readout. The result of a transfer is
  chosen when its event is handled, since nothing reads it before. `objects` is
  what has been created, set or started; an assert on a pointer is a condition on
  it. `timers` counts the instances of `EasTimer`. `bt` is the connection: there
  is one connection object, which is free again in `recycled_cb`.
- **MemBlocks.** Memory is known by who wrote each byte last. An allocation
  includes the writing of the object by its owner.

Definitions with the comment `Mutant:` are broken variants that
each property is tested against; no specification uses them.

## Runs

Passing runs:

| Run | Question | Bounds |
|---|---|---|
| `raiser` | Do flags, timers, condition, notifications and queue stay consistent, does the alert follow its condition in the end, and is the raiser an `AlertLifecycle`? | two ids, so that one alert follows another on the same instance; periods 0 (none), 1 and 2, so that a period may be unequal to the one before; two queued callbacks, so that a stale one and a fresh one meet |
| `led` | Are LED, list, iterator and timer consistent, are turns neither cut short nor too long, does a stall of the clock comparison end, does everything get its turn, is it a `LedRotation`? | three slots, so that a removal can hit the displayed node, the next one or another, and leave two; two kinds; time overflows every 12 ticks; callbacks up to one tick late |
| `engine` | Does the cached evaluation miss a change; are requirements accounted for; do LED and client agree with the alerts? | two variables with two values, two alert ids and one invalid id, eight alerts: an OR, an AND with a repeated variable, one that fills the condition array, one on the last variable only, four the validator has to refuse, among them one without requirements, for which the code reads outside the array and may find anything |
| `message` | Does the parser stay in bounds, pass on what was encoded, and accept all that fits? | counts 0 to 3 with room for 2 requirements, every message length that can be reached, values that tell byte order and sign apart |
| `transceiver` | Do slots and blocks match, do callbacks reach their own message? | two slots, two blocks (as many as slots, as in the configuration), three messages, so that slots run out |
| `queue` | Is the queue a FIFO of whole events up to a message that a nested push tore apart, and is every event before it handled? | two event sizes, room for a few events and for a part of one, three priorities that interrupt each other at any point |
| `platform` | Is initialisation one chain with one report, do the asserts of the platform, the sensors and the timers hold, do readouts end within their period, is the I2C queue consistent and a `BusSpec`, does initialisation end, does advertising resume? | the three sensors of the board; see below |

The bounds of `platform` are times. A tick stands for about 60 ms: the period of
the SHT31 is 4 ticks for the code's 250 ms, those of the others 8, which is less
than their 1000 ms and lets the readouts meet more often; the BH1750 waits up to
2 ticks for its timer (a measurement with the setting of part 3 takes about
80 ms), the SHT31 and the BMP280 one (15 and 7 ms); an event or a transfer is at
most one tick late (`MaxLate`). A request takes up to three steps on the I2C bus
and two on SPI, each of them an operation or a wait. The period of the
SHT31 is the shortest for which the asserts hold: with 3 ticks a readout can
meet the one before, which is what the mutant `PeriodTooShort` shows, and the
theorem `PlatformReadoutsInTime` says for which numbers none does. Two alerts
need 12 timers (`MaxTimers`, 2 per alert and 8 others, as in the configuration).
`AdvertisingMayFail` is `FALSE`; with `TRUE`, `AdvertisingResumes` fails, because a
failure of `bt_le_adv_start` is only logged and nothing starts it again.

Runs that find a disagreement, each with one property that states what the
repository says:

- `raiser_period`: the warmup period does not always pass before an alert is
  raised. An expiry callback that is queued when its timer is stopped and
  started again is taken for an expiry of the new run. (The callback then clears
  the flag of a kernel timer that goes on; a removal does not stop it, and the
  next alert sets its period while it runs, which `eas_timer.h` forbids.) What
  remains true is in `raiser`: the change is in the direction of the latest
  condition result, and changes without a stale callback wait for the period.
- `engine_node`: a removal on the Bluetooth thread frees the list node that the
  sample handler stands on.
- `transceiver_fail`: when the stack refuses a notification the completion
  callback is never executed, and the slot and the block stay taken.
- `queue_nest`: a push that interrupts another one between its two writes puts
  its message inside the other, although `eas_message_queue_push` is said to be
  thread-safe. What is left of the promise is in `queue`: all messages before the
  first torn one are taken whole and in order.
- `allocator`: `DIV4_UP` gives a remainder and not a multiple of 4, so the
  four pools are defined with blocks of 3, 1, 3 and 3 bytes for objects of 8, 2, 16 and 8
  bytes. Zephyr's macro rounds a block up to a word of 4 bytes, which is enough for
  an LED notification only: list nodes, requirements and transmit blocks overwrite
  their neighbours. The other modules take objects to be whole.

The same preemption as in `engine_node` breaks more than the list. These are not runs; set
`BluetoothPreempts = TRUE` in the cfg to see them:

- `NoAssertFails` (`MCAlertEngine.cfg`): an alert that is added between the readiness update and
  the set of the value is evaluated with a value that was never set.
- `LedShowsRaisedAlerts` (`MCAlertEngine.cfg`): a removal between the notification of a raised
  alert and the assignment of `is_alert_raised` leaves its LED notification behind.
- `CallbackOnlyForOwnMessage` (`MCMsgTransceiver.cfg`): the Bluetooth thread sends, for an added alert that
  is raised at once, while the event thread has found a slot and not yet marked it;
  both messages have the same slot.

Two properties are stated up to what the code does not keep:

- `TurnsEndInTime` bounds a turn by the period and the lateness of callbacks only while the
  alternation has lasted up to half the range of the clock (`elapsed`). The time that callbacks are compared
  with is set when the timer is started and not renewed while it runs, so after 2^31 ms, about 25 days,
  of the same alternation every callback is taken for one from the past and the LED does not
  switch for as long again. From then on the property says that such a stall is over, each time, after half the
  range of the clock and the callbacks at both ends of it (`LongestStall`);
  `EveryNotificationIsDisplayed` includes the stalls.
- `CallbackOnlyForOwnMessage` is stated up to a completion that a deinitialization overtakes: when the
  module has been initialised again and the slot taken by a new message, that completion executes
  the new message's callback. Only the tests call `msg_transceiver_deinit`.
  `AcceptedCallbackIsExecuted` includes such completions: no callback gets lost by them.

Deadlock is not checked where the system may stop: in `queue` and `transceiver` an assertion failure ends the behaviour, in `platform` so does a failed
initialisation, which leaves nothing to wait for, and in `engine_node` the
walk has no defined continuation after its node was freed.

### Fairness

- `AlertRaiser`, `LedManager`: time passes, a due timer interrupt is served, and
  the event thread executes what is queued; it blocks on the empty queue only.
  Nothing is assumed of callers: no client has to add or remove anything.
- `EventQueue`: a push goes on; the event thread gets to run between interrupts
  however often they come (strong fairness, since a push disables its steps for
  a moment).
- `MsgTransceiver`: the event thread finishes its send, and the stack completes
  what it accepted (strong fairness, as its thread waits while the other sends).
- `HwPlatform`: the event thread runs when it has an event, transfers end with or
  without an error, a due timer interrupt is served, the stack answers
  `bt_enable` and recycles an ended connection. The clock has strong fairness:
  its guard says how far behind the rest may be, and a client that connects and
  disconnects without end must not stop it. Nothing is assumed of clients.

`EveryNotificationIsDisplayed` is about a list that stays as it is from some time
on. While notifications come and go, a removal of the displayed one starts a new
turn for its successor, and others can wait as long as this goes on.

## Proofs

Every theorem holds for every value of the constants that satisfies the
`ASSUME` of its module; nothing is taken on trust beyond those. What they ask is
what the code has: pools that are not smaller than what they serve (at least as many
transmit blocks as slots, one more place in the I2C queue than sensors), sizes
that are not zero, and a clock whose range is more than twice a turn.

Some theorems have the hypothesis `~BluetoothPreempts`: the receive callback, or the
send it makes, does not run in the middle of a handler of the event thread. The
headers say that all application logic is executed from the context of the central event
queue (`app/glue/eas_timer_callback_executor.h:11`, `eas_timer.h:42`), and the nRF port does not
keep to it. With preemption the properties in question are false (see *Runs*); the
theorems say that they depend on nothing else. Those without the hypothesis hold
with preemption too.

**`AlertRaiserProofs`**: `TypeCorrect`; `Invariance` of `IInv`; `NotificationsAgree`,
`TimersRunTowardsCondition`, `CorrectionAlwaysUnderWay` and the last two together,
`TimersAlwaysServeCondition`; the action properties `OnlyTowardsCondition` and
`FreshChangesWait`; `ImplementsLifecycleSafely`: each step is a step of `AlertLifecycle`
or leaves its variables alone (`Lifecycle!SafeSpec`, without the fairness of
`Lifecycle!Spec`). The properties are not inductive one by one. That the
notifications add up needs that an unset alert is silenced (`UnsetIsSilent`). That
changes wait for the period needs a relation over time: while a timer is awaited, the
time the condition has held and the time the kernel timer has left cover the period,
and a fresh callback in the queue means that the whole period has passed
(`HeldCoversPeriod`); this needs in turn that the timer was armed with the period of
the present alert (`TimersHaveAlertPeriod`).

**`LedManagerProofs`**: `TypeCorrect`, `RotationConsistent`, `TurnsEnd`, the action property
`TurnsLast`, and `RefinesRotation`, that the list of reused memory slots with its
iterator implements `LedRotation`. The list part of `IInv` adds that no node is listed
twice. The timer part (`TimerInv`) tells the queued callbacks of the present run of the
timer from those of earlier runs by their age: a run's first expiry comes a period
after its start (`RunsAreApart`), `ignore_timer_before_time` is a period less the margin
after the start modulo the range of the clock (`IgnoreTimeIsAfterStart`), callbacks of
one run are a period apart, and a turn that is older than the last expiry has its
callback queued (`TurnIsAboutToEnd`). The arithmetic lemma that this rests on is that
`eas_time_is_equal_or_after` is right across an overflow for half the range of the clock. For the stall after that,
`StallIsBounded` says how long a turn has lasted in terms of how far the clock is ahead of
`ignore_timer_before_time` (`Ahead`): a turn in progress when callbacks begin to be ignored is about to
end, goes on for half the range, and is ended by the first callback after it.

**`AlertConditionProofs`**: the loops of the adder, of the requirement lists and of
`alert_condition_evaluate` are recursive functions of the number of turns.
`ConditionIsEvaluated`: the array that the adder builds from a valid message of any
length, evaluated with all its short cuts, is true exactly if each group of the message
has a requirement that holds; it fits its bound and contains every requirement. The
invariant of the evaluation (`EvaluatedUpTo`) says when it has returned and what it
knows about the group it is in. Induction goes over a *set* of turn numbers (`UpTo`,
from the well-foundedness of the numbers), because the induction theorems of the
library cannot be instantiated.

**`AlertEngineProofs`**, with preemption: `TypeCorrect`; `Accounted`
(`RequirementsAccounted`); `RemovalQuiet`. They rest on `AlertsAreBuilt`: all that the adder has
made of a message, and nothing else, is there while the alert is set. Without
preemption:

- `EvaluationCurrent`: no change of a condition is missed. Inside a sample handler this
  does not hold, so the invariant (`WalkCatchesUp`) says what is still to come: a cached
  result is current or its node is among those the walk has still to visit
  (`Remaining`), and the condition result of an alert is current or one of its stale
  instances is among them. `WalkIsSafe`, that the walk never stands on a freed node, is
  the property that `engine_node` shows violated with preemption.
- `LedShows`, `ClientKnows`: the invariant (`NotificationsAgree`) is about the alerts that
  have been *announced*, which differ from those that are raised between a notification
  and the assignment of `is_alert_raised`.
- `AssertsHold`: no `EAS_ASSERT` of the engine fails, from both invariants.
- `FollowsLifecycle`: each alert of the engine is an `AlertLifecycle`.

**`MsgTransceiverProofs`**: `TypeCorrect`, with preemption; without it `SlotsAndBlocksMatch` and
`CallbackIsForOwnMessage`, refused transmissions and deinitialisation included. The
invariant (`Safe`) has occupied slots and allocated blocks in one-to-one
correspondence until a completion is overtaken; that a block is left whenever a slot is, is a
pigeonhole argument.

**`EventQueueProofs`**: `TypeCorrect`, `MessagesStayWhole` and `IsFifo`, that the byte pipe with its two-part
pushes and pops implements `EventFifo` (`FifoUpToTear`), for any contexts that interrupt each other at any
point. A message that another push was written into is torn (`queue_nest`), and nothing can be
said of what follows it in the pipe; both theorems are about the pipe up to there (`Sound`), until the
thread gets to that message. If no push is interrupted that is the whole pipe, always. The
invariant (`PipeInv`) is that around every byte of this part the bytes of its message are where they belong
(`Framed`), that it begins with a size byte or with the body whose size was popped, and that it ends with a
whole message or with the size byte of the push under way. The events that are complete in it are a
recursive function of it; that it distributes over concatenation is shown by the same
induction as above. The only assumption about sizes is that a message has 1 to 255 bytes, as its size is a
`uint8_t`.

**`HwPlatformProofs`**: `BusConsistent` and `BusAsserts` hold of `BusSpec`, for any
finite set of sensors. The invariant says that the ring buffer, the transfer and the finished operation
together hold, once each, exactly the operations that drivers wait for. `PlatformImplementsBus`:
every step of the platform is a step of `BusSpec` or leaves the bus alone;
`PlatformBusConsistent` and `PlatformBusAsserts` follow. Of the platform itself, for any periods, delays
and number of timers:

- `PlatformTypeOK` and `PlatformInitIsOneChain`. The invariant behind them (`HwInv`) says that one activity
  carries the initialisation (`OneActivity`: an event, a request to a bus, a running timer or the stack's
  work, never two), that its mark is in one place (`OneMark`), which part it belongs to
  (`Stage`), and that what the finished parts create is there (`SetUp`, `TimersCreated`).
- `PlatformFailsByOverrun`: if an assert fails, then a readout met the one before. All other asserts of
  the platform, the sensors and the timers hold whatever the times are: each object is created
  once and before it is used, and the timer instances suffice.
- `PlatformNoAssertFails`: no assert fails in a behaviour in which readouts end within their period
  (`[]ReadoutsInTime`).
- `PlatformReadoutsInTime`: readouts end within their period when the periods are longer than a readout can
  take (`PeriodsSuffice`); `PlatformAssertsHold`: then no assert fails. A driver never waits for its
  timer twice in a row, so a readout of `MaxSteps(d)` steps waits at most
  `WaitAll(d) = MaxDelay(d) * (MaxSteps(d) \div 2)` ticks. Each tick either finds work pending, at most
  `MaxLate` ticks in a row, or is one tick less to wait, so the readout takes at most
  `Ticks(w) = w + MaxLate * (w + 1)` ticks with `w = WaitAll(d)`. In the run that is 3 ticks of 4 for the
  SHT31, 5 of 8 for the BH1750 and 3 of 8 for the BMP280; with ticks of 1 ms it would be
  15 + 16 `MaxLate` of 250 for the SHT31, so that work may be pending for at most 14 ms at a time. The condition is tight
  for the SHT31 of the run: with a period of 3 a readout meets the one before (the mutant
  `PeriodTooShort`). The invariant (`TimeInv`) says that a transfer's end is in the queue until it is handled
  (`EndsQueued`), a driver that waits is called back once (`WakesUp`), a driver works while it has a request
  (`Works`), and that the ticks gone by since a readout was due and the ticks it can still take
  (`WaitLeft`) together are at most those of a whole readout (`OnTime`). TLC checked it with the run's
  constants before it was proved.

**`AlertMessageProofs`**: for every message length, number of requirements and set of input bytes:
`MessageTypeOK`; `MessageStaysInBounds`, that neither the message nor the array of requirements is overrun; and
`MessageAccepted`, that an alert which is handed on is what the message says
(`AcceptedIsTheMessage`). The invariant (`ContentInv`) is that what has been parsed so far, encoded again, is
what has been read: the header stage by stage (`HeaderContent`), then the requirements (`BodyContent`),
which are a sequence of finished groups (`Complete`) and, in the middle of a group, a part of one that has
exactly `reqs_left` requirements to come (`Within`). The lemmas on number encodings say that the
little-endian bytes of a parsed number, the two's complement of a negative temperature included, are the
bytes it was parsed from. The encoder flattens sequences with a recursive function of the community modules. That
it is what its recursion says, and distributes over appending, is induction over the length of the sequence by way
of a least counterexample (`LeastNatural`).

`MessageEncodedIsAccepted` is the converse: no message that encodes an alert with at most `MaxRequirements`
requirements is dropped (`EncodedIsAccepted`). `ContentInv` looks back at what has been read; this needs an
invariant that looks ahead. `ExpectsTheMessage`: whatever completes the bytes read so far to a client's
message (`Comes`) is what the parser takes next (`ToCome`): the rest of the header, then `ored_left` groups
(`GroupsToCome`), or `reqs_left` requirements and those groups (`RequirementsToCome`), which with the
requirements read so far are at most `MaxRequirements`. A field that is to come is available (`Available`),
so no early return for want of bytes is taken; the next requirement has room, so none is taken for want of
space; and no byte is left at the end. That the number of requirements does not depend on how they are cut
into groups (`CutTotal`) is an induction over the groups. The assumption of both is that the inputs that are
tried for a field are strings of bytes of the field's length.

Only model-checked:

- liveness, which is out of the prover's reach: `EventuallyFollowsCondition`,
  `EveryNotificationIsDisplayed`, `AcceptedCallbackIsExecuted`, `EveryEventIsHandled`, `InitEnds`,
  `AdvertisingResumes`.

## Not modelled

- The drivers of the sensors, the Bluetooth stack, the TWIM and SPI peripherals,
  the kernel's timers, pipes and memory blocks and the ring buffer library are
  not in the repository; they are external, as the code uses them.
- The measured values: the virtual sensors convert them to the types of
  `hal/def`. Only that a pressure may be refused is kept; `AlertEngine` takes any
  value.
- The LED's colour components and PWM output (`virtual_led_nrf52840.c`),
  `led_setter.c`, threads, logging: no state the application reads back.
- The readiness callback and reset, which only the tests call.
- Preemption by the Bluetooth thread inside the LED manager's own functions, whose
  list and iterator it shares with the event thread: its operations are atomic in
  `LedManager`. The same hazard is modelled for the requirement lists
  (`engine_node`).
- The hardware of the unit test build (`unit-test-off-target`, mocks and fakes).

## Plan

Done: the modules above, in the order of their importance: the raiser with its
proofs, the LED manager, the engine, the transceiver in both directions, the
event queue, the I2C bus, the hardware platform with the sensors, the allocators,
and preemption inside the raiser.

Proofs: done for the raiser, the LED manager, conditions, the engine, both halves
of the transceiver, the event queue, the I2C bus and the platform. What is left
is listed at the end of *Proofs*: liveness, which is out of the prover's reach.
