----------------------------- MODULE HwPlatform -----------------------------
(***************************************************************************)
(* The hardware platform: its initialisation, a chain of asynchronous      *)
(* parts over two buses and the Bluetooth stack                            *)
(* (hal/impl/nrf52840dk/hw_platform.c), the second part of the system's    *)
(* initialisation (app/glue/event_handlers/init_handler.c), the periodic   *)
(* readouts of the virtual sensors, the instances of EasTimer, and the     *)
(* Bluetooth connection.  The I2C bus is module I2cBus.                    *)
(*                                                                         *)
(* Everything happens on the event thread, in the order of the central     *)
(* event queue, except for interrupts (timers, TWIM, SPI) and the          *)
(* Bluetooth thread, which come between any two steps.  An event handler   *)
(* is one step, but for INIT_PART_2, in which a message can be received.   *)
(*                                                                         *)
(* The drivers are external: a request takes a bounded number of steps,    *)
(* each an operation on the bus or a wait for the driver's timer, ends     *)
(* when one fails, and executes its callback once.                         *)
(***************************************************************************)
EXTENDS I2cBus

CONSTANTS
  SHT31Period, BH1750Period, BMP280Period,  \* readout periods, in ticks
  SHT31Delay, BH1750Delay, BMP280Delay,     \* longest waits of the drivers for their
                      \* timers, in ticks
  MaxI2cSteps,        \* most steps of a request to an I2C driver
  MaxSpiSteps,        \* most steps of a request to the SPI driver
  MaxLate,            \* consecutive ticks at which work is pending
  NumAlerts,          \* CONFIG_MAX_NUM_ALERTS
  MaxTimers,          \* CONFIG_EAS_TIMER_MAX_NUM_INSTANCES
  AdvertisingMayFail  \* whether bt_le_adv_start fails without a reason here

ASSUME PlatformAssumption ==
  /\ Sensors = {"sht31", "bh1750"}
  /\ {SHT31Period, BH1750Period, BMP280Period, SHT31Delay, BH1750Delay,
      BMP280Delay, MaxLate, NumAlerts} \subseteq Nat
  /\ {MaxI2cSteps, MaxSpiSteps} \subseteq Nat \ {0}
  /\ MaxTimers = 2 * NumAlerts + 8
  /\ AdvertisingMayFail \in BOOLEAN

Drivers == Sensors \cup {"bmp280"}

\* Mutant: the sensors are read out more often than a readout takes.
PeriodTooShort(d) == SHT31Period - 1

\* SHT31_TEMPERATURE_READOUT_PERIOD_MS, BH1750_READOUT_PERIOD_MS, BMP280_READOUT_PERIOD_MS
Period(d) == CASE d = "sht31"  -> SHT31Period
               [] d = "bh1750" -> BH1750Period
               [] OTHER        -> BMP280Period

MaxDelay(d) == CASE d = "sht31"  -> SHT31Delay
                 [] d = "bh1750" -> BH1750Delay
                 [] OTHER        -> BMP280Delay

MaxSteps(d) == IF d \in Sensors THEN MaxI2cSteps ELSE MaxSpiSteps

\* hw_platform_timer, the timers of the drivers, and the readout timers
HwTimer == <<"platform", "timer">>
Timers == {HwTimer} \cup ({"driver", "readout"} \X Drivers)
Off == -1

\* What the central event queue holds here.  A timer's event is its callback,
\* Part(n) is hw_platform_init_part_n.  The result code that comes with the end of
\* a transfer is chosen when the event is handled: nothing reads it before.
Part(n) == <<"part", n>>
Sample(v) == <<"sample", v>>
InitEvent == <<"init", "part 1">>
InitPart2Event == <<"init", "part 2">>
AdvertisingEvent == <<"start", "advertising">>
I2cEvent == <<"i2c", "complete">>
SpiEvent == <<"spi", "complete">>
Samples == {Sample(v) : v \in {"temperature", "humidity", "pressure", "light_intensity"}}
Events == {InitEvent, InitPart2Event, AdvertisingEvent, I2cEvent, SpiEvent}
            \cup Timers \cup Samples \cup {Part(n) : n \in 1..12}

\* Who made the request that a driver is working on: an init part or a readout.
NoRequest == <<"no", "request">>

VARIABLES
  spi,      \* the BMP280: "idle", "transfer", "complete" or "timer"
  request,  \* per driver: the event whose handler made its request, or NoRequest
  steps,    \* per driver: steps of its request so far
  timer,    \* per kernel timer: ticks to its expiry, or Off
  late,     \* consecutive ticks at which work was pending
  events,   \* the central event queue
  report,   \* what hw_init_complete_cb was told: "none", "success" or "failure"
  objects,  \* what has been created, set or started
  timers,   \* instance_idx of eas_timer.c, the timer of the LED manager included,
            \* which is created when it is first needed
  bt,       \* the Bluetooth stack, see BtStates
  pc,       \* where in init_handler_handle_init_part_2_event the event thread is
  fault     \* whether an EAS_ASSERT outside the bus failed

vars == <<busVars, spi, request, steps, timer, late, events, report, objects,
          timers, bt, pc, fault>>

driverVars == <<busVars, spi, request, steps>>

\* temperature_sensor ... transceiver: the interfaces that part 12 provides
Interfaces == {"temperature", "humidity", "pressure", "light_intensity", "transceiver"}

\* The drivers' instances, the readouts, and what the rest of INIT_PART_2 sets up.
Objects == Drivers \cup Interfaces
             \cup {"readouts", "conditions", "raisers", "receive_cb",
                   "add_alert_cb", "remove_alert_cb"}

\* Switched off, being enabled, neither advertising nor connected, advertising,
\* connected, and a connection that ended but whose object is not recycled yet.
BtStates == {"off", "enabling", "quiet", "advertising", "connected", "ended"}

TypeOK ==
  /\ BusTypeOK
  /\ spi \in {"idle", "transfer", "complete", "timer"}
  /\ request \in [Drivers -> Events \cup {NoRequest}]
  /\ steps \in [Drivers -> Nat] /\ \A d \in Drivers : steps[d] <= MaxSteps(d)
  /\ timer \in [Timers -> Nat \cup {Off}]
  /\ late \in 0..MaxLate
  /\ events \in Seq(Events)
  /\ report \in {"none", "success", "failure"}
  /\ objects \subseteq Objects
  /\ timers \in Nat
  /\ bt \in BtStates
  /\ pc \in {"idle", "conditions", "raisers", "transceiver", "add_alert_cb", "remove_alert_cb"}
  /\ fault \in BOOLEAN

\* main submits INIT; nothing else has happened.
Init ==
  /\ BusInit
  /\ spi = "idle"
  /\ request = [d \in Drivers |-> NoRequest]
  /\ steps = [d \in Drivers |-> 0]
  /\ timer = [t \in Timers |-> Off]
  /\ late = 0
  /\ events = <<InitEvent>>
  /\ report = "none"
  /\ objects = {}
  /\ timers = 1
  /\ bt = "off"
  /\ pc = "idle"
  /\ fault = FALSE

\* No EAS_ASSERT has failed; the last part is that of eas_timer_create.
Running == ~fault /\ ~queue.fault /\ timers <= MaxTimers

-----------------------------------------------------------------------------
(* The event thread                                                         *)

\* central_event_queue_thread_run is about to handle event e.
Handling(e) == Running /\ pc = "idle" /\ events # <<>> /\ Head(events) = e

\* The handled event is gone, and its handler has submitted the events `new'.
Submit(new) == events' = Tail(events) \o new

\* eas_timer_create, n times
CreateTimers(n) == timers' = timers + n

\* Starts a request to driver d for event e.  The driver refuses it when it is
\* busy, and the callers assert that it does not.
Request(d, e, asserted) ==
  IF asserted /\ request[d] = NoRequest
  THEN /\ request' = [request EXCEPT ![d] = e]
       /\ steps' = [steps EXCEPT ![d] = 1]
       /\ UNCHANGED fault
       /\ IF d \in Sensors THEN DriverRequest(d) /\ UNCHANGED spi
          ELSE spi' = "transfer" /\ UNCHANGED busVars
  ELSE fault' = TRUE /\ UNCHANGED driverVars

-----------------------------------------------------------------------------
(* Initialisation                                                           *)

\* execute_hw_init_complete_cb; what hw_platform_init_complete_cb does with a
\* success is in InitPart12.
Report(result) == report' = result

\* init_handler_handle_init_event and hw_platform_init: the timers of the drivers,
\* the operations queue (BusInit), and the timer that waits for the sensors to
\* power on.  The executor of timer callbacks is set before any timer starts.
HandleInitEvent ==
  /\ Handling(InitEvent) /\ Submit(<<>>)
  /\ CreateTimers(4)
  /\ timer' = [timer EXCEPT ![HwTimer] = 1]
  /\ UNCHANGED <<driverVars, late, report, objects, bt, pc, fault>>

\* init_part_0_complete
InitPart0Complete ==
  /\ Handling(HwTimer) /\ Submit(<<Part(1)>>)
  /\ UNCHANGED <<driverVars, timer, late, report, objects, timers, bt, pc, fault>>

\* hw_platform_init_part_1, _2 and _4: the driver is created, in memory that
\* get_instance_memory gives out once, and gets its first request.
InitPartCreates(n, d) ==
  /\ Handling(Part(n)) /\ Submit(<<>>)
  /\ Request(d, Part(n), d \notin objects)
  /\ objects' = objects \cup {d}
  /\ UNCHANGED <<timer, late, report, timers, bt, pc>>

InitPart1 == InitPartCreates(1, "sht31")

InitPart2 == InitPartCreates(2, "bh1750")

InitPart4 == InitPartCreates(4, "bmp280")

\* The parts that only make a request to a driver that exists.
InitPartConfigures(n, d) ==
  /\ Handling(Part(n)) /\ Submit(<<>>)
  /\ Request(d, Part(n), d \in objects)
  /\ UNCHANGED <<timer, late, report, objects, timers, bt, pc>>

\* hw_platform_init_part_3: the measurement time of the BH1750
InitPart3 == InitPartConfigures(3, "bh1750")

\* hw_platform_init_part_6 to _10: the settings of the BMP280
InitParts6To10 == \E n \in 6..10 : InitPartConfigures(n, "bmp280")

\* Mutant: the return after the report is missing.
InitPart5WithoutReturn ==
  /\ Handling(Part(5)) /\ Submit(<<>>)
  /\ Request("bmp280", Part(5), TRUE)
  /\ \E isChipId \in BOOLEAN : Report(IF isChipId THEN report ELSE "failure")
  /\ UNCHANGED <<timer, late, objects, timers, bt, pc>>

\* hw_platform_init_part_5: the chip id that part 4 read has to be the BMP280's.
InitPart5 ==
  /\ Handling(Part(5)) /\ Submit(<<>>)
  /\ \/ Request("bmp280", Part(5), TRUE) /\ UNCHANGED report
     \/ Report("failure") /\ UNCHANGED <<driverVars, fault>>
  /\ UNCHANGED <<timer, late, objects, timers, bt, pc>>

\* hw_platform_init_part_11: bt_enable starts, or refuses to.
InitPart11 ==
  /\ Handling(Part(11)) /\ Submit(<<>>)
  /\ \/ bt' = "enabling" /\ UNCHANGED report
     \/ Report("failure") /\ UNCHANGED bt
  /\ UNCHANGED <<driverVars, timer, late, objects, timers, pc, fault>>

\* init_part_11_complete, on the Bluetooth thread
InitPart11Complete ==
  /\ Running /\ bt = "enabling"
  /\ \/ bt' = "quiet" /\ events' = Append(events, Part(12)) /\ UNCHANGED report
     \/ bt' = "off" /\ Report("failure") /\ UNCHANGED events
  /\ UNCHANGED <<driverVars, timer, late, objects, timers, pc, fault>>

\* Mutant: the virtual transceiver is not initialised.
InitPart12WithoutTransceiver ==
  /\ Handling(Part(12))
  /\ Submit(<<AdvertisingEvent, InitPart2Event>>)
  /\ objects' = objects \cup (Interfaces \ {"transceiver"})
  /\ CreateTimers(3)
  /\ Report("success")
  /\ UNCHANGED <<driverVars, timer, late, bt, pc, fault>>

\* hw_platform_init_part_12: the connection callbacks, advertising, the virtual
\* devices with their readout timers, then the report, for which
\* hw_platform_init_complete_cb submits INIT_PART_2.
InitPart12 ==
  /\ Handling(Part(12))
  /\ Submit(<<AdvertisingEvent, InitPart2Event>>)
  /\ objects' = objects \cup Interfaces
  /\ CreateTimers(3)
  /\ Report("success")
  /\ UNCHANGED <<driverVars, timer, late, bt, pc, fault>>

\* Mutant: nobody is told of the failure.
InitPartCompleteSilent(n, ok) ==
  /\ Submit(IF ok THEN <<Part(n + 1)>> ELSE <<>>)
  /\ UNCHANGED report

\* init_part_<n>_complete for the parts that make a request: the next part is
\* submitted, or the failure reported.
InitPartComplete(n, ok) ==
  IF ok THEN Submit(<<Part(n + 1)>>) /\ UNCHANGED report
  ELSE Submit(<<>>) /\ Report("failure")

-----------------------------------------------------------------------------
(* init_handler_handle_init_part_2_event, in steps                          *)

\* The callbacks for new samples are registered and the sensors started, which
\* asserts that they exist and are not started.  Temperature and humidity share
\* the timer of the SHT31; whichever is started first starts it.
StartReadouts ==
  /\ Handling(InitPart2Event)
  /\ fault' = ~(Interfaces \ {"transceiver"} \subseteq objects /\ "readouts" \notin objects)
  /\ timer' = [t \in Timers |-> IF t[1] = "readout" THEN Period(t[2]) ELSE timer[t]]
  /\ objects' = objects \cup {"readouts"}
  /\ pc' = "conditions"
  /\ UNCHANGED <<driverVars, late, events, report, timers, bt>>

\* alert_conditions_create_instances
CreateConditions ==
  /\ Running /\ pc = "conditions"
  /\ objects' = objects \cup {"conditions"}
  /\ pc' = "raisers"
  /\ UNCHANGED <<driverVars, timer, late, events, report, timers, bt, fault>>

\* alert_raisers_create_instances: two timers for each raiser.
CreateRaisers ==
  /\ Running /\ pc = "raisers"
  /\ objects' = objects \cup {"raisers"}
  /\ CreateTimers(2 * NumAlerts)
  /\ pc' = "transceiver"
  /\ UNCHANGED <<driverVars, timer, late, events, report, bt, fault>>

\* msg_transceiver_init: from here on received bytes are parsed.
InitMsgTransceiver ==
  /\ Running /\ pc = "transceiver"
  /\ fault' = ("transceiver" \notin objects)
  /\ objects' = objects \cup {"receive_cb"}
  /\ pc' = "add_alert_cb"
  /\ UNCHANGED <<driverVars, timer, late, events, report, timers, bt>>

\* msg_transceiver_set_add_alert_cb
SetAddAlertCb ==
  /\ Running /\ pc = "add_alert_cb"
  /\ objects' = objects \cup {"add_alert_cb"}
  /\ pc' = "remove_alert_cb"
  /\ UNCHANGED <<driverVars, timer, late, events, report, timers, bt, fault>>

\* msg_transceiver_set_remove_alert_cb, and the end of the handler
SetRemoveAlertCb ==
  /\ Running /\ pc = "remove_alert_cb"
  /\ objects' = objects \cup {"remove_alert_cb"}
  /\ pc' = "idle" /\ Submit(<<>>)
  /\ UNCHANGED <<driverVars, timer, late, report, timers, bt, fault>>

-----------------------------------------------------------------------------
(* Requests to the drivers                                                  *)

\* The expiry of a readout timer: the driver is asked for a measurement.
ReadoutTimerCb(d) ==
  /\ Handling(<<"readout", d>>) /\ Submit(<<>>)
  /\ Request(d, <<"readout", d>>, TRUE)
  /\ UNCHANGED <<timer, late, report, objects, timers, bt, pc>>

Sht31ReadoutTimerCb == ReadoutTimerCb("sht31")

Bh1750ReadoutTimerCb == ReadoutTimerCb("bh1750")

Bmp280ReadoutTimerCb == ReadoutTimerCb("bmp280")

\* sht3x_meas_complete_cb: both samples, unless the readout failed.
Sht31Samples(ok) ==
  IF ok THEN {<<Sample("temperature"), Sample("humidity")>>} ELSE {<<>>}

\* one_time_meas_complete_cb
Bh1750Samples(ok) == IF ok THEN {<<Sample("light_intensity")>>} ELSE {<<>>}

\* bmp280_complete_cb: convert_bmp280_pres_to_eas_pres refuses a pressure that
\* does not fit into 16 bits.
Bmp280Samples(ok) == IF ok THEN {<<Sample("pressure")>>, <<>>} ELSE {<<>>}

\* The callback of the readout of driver d submits the new samples.
ReadoutComplete(d, ok) ==
  /\ \E new \in CASE d = "sht31"  -> Sht31Samples(ok)
                  [] d = "bh1750" -> Bh1750Samples(ok)
                  [] OTHER        -> Bmp280Samples(ok) : Submit(new)
  /\ UNCHANGED report

\* What driver d may do after a step with result code rc: end its request, or
\* go on after a success.
MayGoOn(d, rc, next, ok) ==
  /\ ok => rc = "OK"
  /\ next # "idle" => ok /\ steps[d] < MaxSteps(d)

\* Driver d goes on with `next', or executes the callback of its request.
GoOn(d, next, ok) ==
  IF next = "idle"
  THEN /\ request' = [request EXCEPT ![d] = NoRequest]
       /\ steps' = [steps EXCEPT ![d] = 0]
       /\ IF request[d][1] = "part" THEN InitPartComplete(request[d][2], ok)
          ELSE ReadoutComplete(d, ok)
       /\ UNCHANGED timer
  ELSE /\ steps' = [steps EXCEPT ![d] = @ + 1]
       /\ Submit(<<>>)
       /\ \E delay \in 1..MaxDelay(d) :
            timer' = IF next = "timer" THEN [timer EXCEPT ![<<"driver", d>>] = delay]
                     ELSE timer
       /\ UNCHANGED <<request, report>>

\* Mutant: the interrupt starts the next operation itself.
TwimIsrStartsNextOp ==
  /\ Running /\ queue.transfer # NoOp
  /\ queue' = OpComplete([queue EXCEPT !.transfer = NoOp])
  /\ done' = queue.transfer
  /\ events' = Append(events, I2cEvent)
  /\ UNCHANGED <<driver, number, spi, request, steps, timer, late, report, objects,
                 timers, bt, pc, fault>>

\* twim_handler
TwimIsr ==
  /\ Running /\ TwimHandler
  /\ events' = Append(events, I2cEvent)
  /\ UNCHANGED <<spi, request, steps, timer, late, report, objects, timers, bt, pc, fault>>

\* The events that nrfx_twim reports
TwimEvents == {"DONE", "ADDRESS_NACK", "DATA_NACK", "OVERRUN", "BUS_ERROR"}

\* The switch in twim_handler gives "OK", "ADDR_NACK" or "ERR".
I2cResultCode(event) == CASE event = "DONE"         -> "OK"
                          [] event = "ADDRESS_NACK" -> "ADDR_NACK"
                          [] OTHER                  -> "ERR"

\* execute_i2c_complete_cb with map_i2c_result_code_to_<driver>_i2c_result_code:
\* "BH1750 is never supposed to NACK after address byte".
DriverResultCode(s, rc) == IF s = "bh1750" /\ rc = "ADDR_NACK" THEN "ERR" ELSE rc

\* handle_i2c_trans_complete
HandleI2cEvent ==
  /\ Handling(I2cEvent)
  /\ \E event \in TwimEvents, next \in DriverStates, ok \in BOOLEAN :
       LET s == queue.cb_data.sensor IN
         /\ MayGoOn(s, DriverResultCode(s, I2cResultCode(event)), next, ok)
         /\ GoOn(s, next, ok)
         /\ HandleI2cTransComplete(next)
  /\ UNCHANGED <<spi, late, objects, timers, bt, pc, fault>>

\* bmp280_driver_read_regs or _write_reg, bmp280_driver_start_timer, or the end
SpiGoesOn(next) == spi' = IF next = "operation" THEN "transfer" ELSE next

\* zephyr_spi_callback
SpiIsr ==
  /\ Running /\ spi = "transfer"
  /\ spi' = "complete"
  /\ events' = Append(events, SpiEvent)
  /\ UNCHANGED <<busVars, request, steps, timer, late, report, objects, timers, bt, pc, fault>>

\* handle_spi_trans_complete
HandleSpiEvent ==
  /\ Handling(SpiEvent)
  /\ \E rc \in {"OK", "ERR"}, next \in DriverStates, ok \in BOOLEAN :
       /\ MayGoOn("bmp280", rc, next, ok)
       /\ GoOn("bmp280", next, ok)
       /\ SpiGoesOn(next)
  /\ UNCHANGED <<busVars, late, objects, timers, bt, pc, fault>>

\* <driver>_driver_timer_expired_cb
HandleDriverTimer(d) ==
  /\ \E next \in {"idle", "operation"} :
       /\ Handling(<<"driver", d>>)
       /\ MayGoOn(d, "OK", next, TRUE)
       /\ GoOn(d, next, TRUE)
       /\ IF d \in Sensors THEN DriverTimerExpiredCb(d, next) /\ UNCHANGED spi
          ELSE SpiGoesOn(next) /\ UNCHANGED busVars
  /\ UNCHANGED <<late, objects, timers, bt, pc, fault>>

\* The handler of a new sample: AlertEngine.
HandleSample ==
  /\ \E e \in Samples : Handling(e)
  /\ Submit(<<>>)
  /\ UNCHANGED <<driverVars, timer, late, report, objects, timers, bt, pc, fault>>

-----------------------------------------------------------------------------
(* Time                                                                     *)

\* Something other than a timer has work to do.
WorkIsPending == events # <<>> \/ queue.transfer # NoOp \/ spi = "transfer"

\* A tick of the kernel's clock.  Interrupts come before the next tick; events
\* and transfers are at most MaxLate ticks behind.
Tick ==
  /\ Running
  /\ \A t \in Timers : timer[t] # 0
  /\ WorkIsPending => late < MaxLate
  /\ late' = IF WorkIsPending THEN late + 1 ELSE 0
  /\ timer' = [t \in Timers |-> IF timer[t] = Off THEN Off ELSE timer[t] - 1]
  /\ UNCHANGED <<driverVars, events, report, objects, timers, bt, pc, fault>>

\* zephyr_timer_expiry_function, with eas_timer_callback_executor_execute_callback:
\* the callback is submitted, and a periodic timer runs on.
TimerIsr(t) ==
  /\ Running /\ timer[t] = 0
  /\ events' = Append(events, t)
  /\ timer' = [timer EXCEPT ![t] = IF t[1] = "readout" THEN Period(t[2]) ELSE Off]
  /\ UNCHANGED <<driverVars, late, report, objects, timers, bt, pc, fault>>

-----------------------------------------------------------------------------
(* Bluetooth                                                                *)

\* start_advertising_impl: bt_le_adv_start fails while the only connection
\* object is in use; a failure is only logged.
StartAdvertising ==
  /\ Handling(AdvertisingEvent) /\ Submit(<<>>)
  /\ bt' \in IF bt # "quiet" THEN {bt}
             ELSE {"advertising"} \cup (IF AdvertisingMayFail THEN {bt} ELSE {})
  /\ UNCHANGED <<driverVars, timer, late, report, objects, timers, pc, fault>>

\* on_connected: the stack stops advertising; with an error there is no
\* connection.
OnConnected ==
  /\ Running /\ bt = "advertising"
  /\ bt' \in {"connected", "ended"}
  /\ UNCHANGED <<driverVars, timer, late, events, report, objects, timers, pc, fault>>

\* on_disconnected
OnDisconnected ==
  /\ Running /\ bt = "connected"
  /\ bt' = "ended"
  /\ UNCHANGED <<driverVars, timer, late, events, report, objects, timers, pc, fault>>

\* Mutant: advertising is not started again.
RecycledCbOnlyLogs ==
  /\ Running /\ bt = "ended"
  /\ bt' = "quiet"
  /\ UNCHANGED <<driverVars, timer, late, events, report, objects, timers, pc, fault>>

\* recycled_cb
RecycledCb ==
  /\ Running /\ bt = "ended"
  /\ bt' = "quiet" /\ events' = Append(events, AdvertisingEvent)
  /\ UNCHANGED <<driverVars, timer, late, report, objects, timers, pc, fault>>

\* on_receive, eass_received_cb and receive_cb, on the Bluetooth thread: a
\* message is dropped until all of its callbacks are set; then alert_adder or
\* alert_remover asserts that the conditions and raisers exist.
Receive ==
  /\ Running /\ bt = "connected"
  /\ "receive_cb" \in objects /\ objects \cap {"add_alert_cb", "remove_alert_cb"} # {}
  /\ fault' = ~({"conditions", "raisers"} \subseteq objects)
  /\ UNCHANGED <<driverVars, timer, late, events, report, objects, timers, bt, pc>>

-----------------------------------------------------------------------------
InitChain ==
  \/ HandleInitEvent \/ InitPart0Complete
  \/ InitPart1 \/ InitPart2 \/ InitPart3 \/ InitPart4 \/ InitPart5
  \/ InitParts6To10 \/ InitPart11 \/ InitPart12

HandleInitPart2Event ==
  \/ StartReadouts \/ CreateConditions \/ CreateRaisers
  \/ InitMsgTransceiver \/ SetAddAlertCb \/ SetRemoveAlertCb

EventThread ==
  \/ InitChain
  \/ HandleInitPart2Event
  \/ Sht31ReadoutTimerCb \/ Bh1750ReadoutTimerCb \/ Bmp280ReadoutTimerCb
  \/ \E d \in Drivers : HandleDriverTimer(d)
  \/ HandleI2cEvent \/ HandleSpiEvent \/ HandleSample \/ StartAdvertising

Next ==
  \/ EventThread
  \/ TwimIsr \/ SpiIsr \/ \E t \in Timers : TimerIsr(t)
  \/ Tick
  \/ InitPart11Complete \/ OnConnected \/ OnDisconnected \/ RecycledCb \/ Receive

\* The event thread runs when it has an event; every transfer ends, with or
\* without an error; the Bluetooth stack answers bt_enable and recycles the
\* object of a connection that ended.  Time passes whatever is pending: the guard
\* of Tick says how fast the rest is, and not when the clock runs.
Fairness ==
  /\ WF_vars(EventThread)
  /\ WF_vars(TwimIsr) /\ WF_vars(SpiIsr)
  /\ WF_vars(\E t \in Timers : TimerIsr(t)) /\ SF_vars(Tick)
  /\ WF_vars(InitPart11Complete) /\ WF_vars(RecycledCb)

Spec == Init /\ [][Next]_vars /\ Fairness

-----------------------------------------------------------------------------
(* Properties                                                               *)

\* The asserts of the platform, of the virtual devices, of the timers and of
\* INIT_PART_2: a driver is idle when it gets a request, so every readout ends
\* within its period; a sensor is started once; there are enough instances of
\* EasTimer; and no message is handled before what it needs exists.
NoAssertFails == Running

\* Where the initialisation of the platform is: an event of the chain in the
\* queue, the request of a part, the timer at the start, bt_enable.
InitActivities ==
  {<<"event", i>> : i \in {j \in DOMAIN events : events[j] \in {InitEvent, HwTimer}
                                                   \/ events[j][1] = "part"}}
    \cup {<<"request", d>> : d \in {c \in Drivers : request[c][1] = "part"}}
    \cup {<<"timer", t>> : t \in {u \in {HwTimer} : timer[u] # Off}}
    \cup {<<"bluetooth", b>> : b \in {bt} \cap {"enabling"}}

\* Each part ends by starting the next one or by reporting, never both, and the
\* report comes once, at the end: exactly one thing is going on until then, and
\* nothing afterwards.
InitIsOneChain ==
  Cardinality(InitActivities) = IF report = "none" THEN 1 ELSE 0

\* The readouts of a sensor do not overtake each other: when its timer expires
\* again, the readout before is no longer in the queue or under way, however the
\* readouts of the others keep the bus and the event thread busy.
ReadoutsInTime ==
  \A d \in Drivers :
    LET readout == <<"readout", d>> IN
    Cardinality({i \in DOMAIN events : events[i] = readout})
      <= IF request[d] = readout THEN 0 ELSE 1

\* hw_platform_init ends with one report, however the buses answer, and after a
\* success the system is set up completely.
InitEnds == <>(report = "failure" \/ "remove_alert_cb" \in objects)

\* After a connection, or a failed attempt, the device can be found again,
\* provided that bt_le_adv_start has no other reason to fail.
AdvertisingResumes == bt \in {"quiet", "ended"} ~> bt = "advertising"
=============================================================================
