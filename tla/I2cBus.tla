------------------------------- MODULE I2cBus -------------------------------
(***************************************************************************)
(* The I2C bus that the SHT31 and the BH1750 share: the operations queue   *)
(* (utils/ops_queue.c), its use by the hardware platform                   *)
(* (hal/impl/nrf52840dk/hw_platform.c) and by the glue of the two drivers  *)
(* (drivers_glue).  HwPlatform adds the users of the drivers: the          *)
(* initialisation and the readouts.                                        *)
(*                                                                         *)
(* The drivers are external.  What the code relies on: a driver has at     *)
(* most one operation under way, and when it ends it starts another one    *)
(* from within the callback, starts its timer, or is done.  Operations     *)
(* have alternating numbers, so that one is told from the next.            *)
(***************************************************************************)
EXTENDS Integers, Sequences, FiniteSets

CONSTANTS
  Sensors,    \* the I2C sensors
  MaxNumOps,  \* I2C_QUEUE_MAX_NUM_OPS
  NoOp        \* no operation

ASSUME ConstantsAssumption ==
  /\ IsFiniteSet(Sensors)
  /\ MaxNumOps \in Nat /\ MaxNumOps > 1
  /\ Cardinality(Sensors) < MaxNumOps

\* I2cOperation
Ops == [sensor : Sensors, number : {0, 1}]

ASSUME NoOpAssumption == NoOp \notin Ops

VARIABLES
  queue,      \* OpsQueueStruct and what start_op sets, see Queue
  done,       \* operation whose handle_i2c_trans_complete is in the central
              \* event queue, or NoOp
  driver,     \* per sensor: one of DriverStates
  number      \* per sensor: number of its latest operation

busVars == <<queue, done, driver, number>>

\* op_in_progress and ops_ring_buf; i2c_complete_cb_data, by the operation it
\* was copied from; the operation that the TWIM is executing; and whether an
\* EAS_ASSERT failed.
Queue == [op_in_progress : BOOLEAN, ring : Seq(Ops), cb_data : Ops \cup {NoOp},
          transfer : Ops \cup {NoOp}, fault : BOOLEAN]

\* A driver is idle, waits for an operation, or waits for its timer.
DriverStates == {"idle", "operation", "timer"}

BusTypeOK ==
  /\ queue \in Queue
  /\ Len(queue.ring) <= MaxNumOps - 1
  /\ done \in Ops \cup {NoOp}
  /\ driver \in [Sensors -> DriverStates]
  /\ number \in [Sensors -> {0, 1}]

\* ops_queue_create, which hw_platform_init calls before the first request
BusInit ==
  /\ queue = [op_in_progress |-> FALSE, ring |-> <<>>, cb_data |-> NoOp,
              transfer |-> NoOp, fault |-> FALSE]
  /\ done = NoOp
  /\ driver = [s \in Sensors |-> "idle"]
  /\ number = [s \in Sensors |-> 0]

-----------------------------------------------------------------------------
(* The operations queue: what each function makes of the queue q.           *)

\* i2c_queue_start_op; nrfx_twim_xfer refuses when the TWIM is busy.
StartOp(q, op) ==
  [q EXCEPT !.cb_data = op, !.transfer = op, !.fault = @ \/ q.transfer # NoOp]

\* Mutant: the address of the operation is pushed instead of the operation.
AddOpPushesAddress(q, op) ==
  IF ~q.op_in_progress THEN [StartOp(q, op) EXCEPT !.op_in_progress = TRUE]
  ELSE IF Len(q.ring) < MaxNumOps - 1 THEN [q EXCEPT !.ring = Append(@, NoOp)]
  ELSE [q EXCEPT !.fault = TRUE]

\* ops_queue_add_op; the ring buffer has room for MaxNumOps - 1 operations.
AddOp(q, op) ==
  IF ~q.op_in_progress THEN [StartOp(q, op) EXCEPT !.op_in_progress = TRUE]
  ELSE IF Len(q.ring) < MaxNumOps - 1 THEN [q EXCEPT !.ring = Append(@, op)]
  ELSE [q EXCEPT !.fault = TRUE]

\* ops_queue_op_complete
OpComplete(q) ==
  IF q.ring = <<>> THEN [q EXCEPT !.op_in_progress = FALSE]
  ELSE StartOp([q EXCEPT !.ring = Tail(@)], Head(q.ring))

-----------------------------------------------------------------------------
(* The drivers.                                                             *)

\* The operation that sensor s starts next.
NewOp(s) == [sensor |-> s, number |-> 1 - number[s]]

\* The driver of sensor s goes on with `next' on queue q, by way of
\* <driver>_i2c_write or <driver>_i2c_read, or <driver>_timer_start: the queue
\* afterwards.
Proceed(s, next, q) == IF next = "operation" THEN AddOp(q, NewOp(s)) ELSE q

DriverGoes(s, next) ==
  /\ driver' = [driver EXCEPT ![s] = next]
  /\ number' = [number EXCEPT ![s] = IF next = "operation" THEN 1 - @ ELSE @]

\* The user of an idle driver makes a request; its first step is an operation.
DriverRequest(s) ==
  /\ ~queue.fault /\ driver[s] = "idle"
  /\ queue' = Proceed(s, "operation", queue)
  /\ DriverGoes(s, "operation")
  /\ UNCHANGED done

\* sht31_driver_timer_expired_cb, bh1750_driver_timer_expired_cb: the callback
\* that the driver set when it started the timer.
DriverTimerExpiredCb(s, next) ==
  /\ ~queue.fault /\ driver[s] = "timer" /\ next # "timer"
  /\ queue' = Proceed(s, next, queue)
  /\ DriverGoes(s, next)
  /\ UNCHANGED done

-----------------------------------------------------------------------------
(* Completion                                                               *)

\* twim_handler, in the ISR, submits handle_i2c_trans_complete.
TwimHandler ==
  /\ ~queue.fault /\ queue.transfer # NoOp
  /\ done' = queue.transfer
  /\ queue' = [queue EXCEPT !.transfer = NoOp]
  /\ UNCHANGED <<driver, number>>

\* Mutant: the next operation is started before the callback is executed.
HandleI2cTransCompleteOpFirst(next) ==
  /\ ~queue.fault /\ done # NoOp
  /\ LET q == OpComplete(queue)
         s == q.cb_data.sensor
     IN queue' = Proceed(s, next, q) /\ DriverGoes(s, next)
  /\ done' = NoOp

\* handle_i2c_trans_complete: the callback of the operation, in which the driver
\* goes on with `next', then ops_queue_op_complete.
HandleI2cTransComplete(next) ==
  /\ ~queue.fault /\ done # NoOp
  /\ LET s == queue.cb_data.sensor IN
       /\ queue' = IF queue.op_in_progress THEN OpComplete(Proceed(s, next, queue))
                   ELSE [queue EXCEPT !.fault = TRUE]
       /\ DriverGoes(s, next)
  /\ done' = NoOp

\* The bus by itself, for drivers that make requests at any time.
BusNext ==
  \/ \E s \in Sensors : \/ DriverRequest(s)
                       \/ \E next \in DriverStates : DriverTimerExpiredCb(s, next)
  \/ TwimHandler
  \/ \E next \in DriverStates : HandleI2cTransComplete(next)

BusSpec == BusInit /\ [][BusNext]_busVars

-----------------------------------------------------------------------------
(* Properties                                                               *)

\* The operations in the ring buffer, on the bus, and waiting for their
\* completion to be handled.
Pending == {queue.ring[i] : i \in DOMAIN queue.ring} \cup ({queue.transfer, done} \ {NoOp})

\* The comment in handle_i2c_trans_complete: a new operation "will overwrite the
\* I2C callback for the operation that just finished".  The callback at hand is
\* always that of the operation on the bus, or just finished.
CallbackIsForFinishedOp ==
  /\ queue.transfer # NoOp => queue.cb_data = queue.transfer
  /\ done # NoOp => queue.cb_data = done

\* The queue knows whether the bus is taken: op_in_progress is set exactly from
\* the start of a transfer until its completion has been handled, and nothing
\* waits while the bus is free.
FlagMatchesBus ==
  /\ queue.op_in_progress = (queue.transfer # NoOp \/ done # NoOp)
  /\ queue.transfer = NoOp \/ done = NoOp
  /\ queue.ring # <<>> => queue.op_in_progress

\* No operation is lost, doubled, or ends up with another driver: each driver
\* that waits for an operation has just that one in the queue or on the bus.
EachDriverHasItsOp ==
  /\ Pending = {[sensor |-> s, number |-> number[s]] :
                  s \in {t \in Sensors : driver[t] = "operation"}}
  /\ \A i, j \in DOMAIN queue.ring : queue.ring[i] = queue.ring[j] => i = j
  /\ \A i \in DOMAIN queue.ring : queue.ring[i] \notin {queue.transfer, done}

\* Between any two events of the drivers, the interrupt and the event thread, the
\* queue, the bus and the drivers agree.
BusIsConsistent == CallbackIsForFinishedOp /\ FlagMatchesBus /\ EachDriverHasItsOp

\* hw_platform.c on the size of the queue: two operations of one sensor may be
\* in the queue when an operation "is started (and pushed to the queue), and
\* only then ops_queue_op_complete is called".  With one slot more than there
\* are sensors, the asserts of the queue and of nrfx_twim_xfer do not fail.
BusAssertsHold == ~queue.fault
=============================================================================
