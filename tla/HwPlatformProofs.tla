-------------------------- MODULE HwPlatformProofs --------------------------
(***************************************************************************)
(* Proofs about HwPlatform and the bus that it uses (I2cBus): first the    *)
(* bus by itself, for every finite set of sensors and every size of the    *)
(* queue that leaves one slot more than there are sensors; then the        *)
(* platform, whose steps are steps of the bus: its types, the chain of the *)
(* initialisation, the asserts, and that readouts are in time.             *)
(***************************************************************************)
EXTENDS HwPlatform, FiniteSetTheorems, TLAPS

-----------------------------------------------------------------------------
(* The bus                                                                  *)

\* The operations that queue q holds together with a finished operation d.
Held(q, d) == {q.ring[i] : i \in DOMAIN q.ring} \cup ({q.transfer, d} \ {NoOp})

\* Queue q is in order, with finished operation d (or NoOp), and holds exactly the
\* operations P.  BusIsConsistent says this of the queue and of what the drivers
\* wait for; the lemmas follow it through the functions of the queue.
InOrder(q, d, P) ==
  /\ q \in Queue /\ d \in Ops \cup {NoOp} /\ ~q.fault
  /\ q.transfer # NoOp => q.cb_data = q.transfer
  /\ d # NoOp => q.cb_data = d
  /\ q.op_in_progress = (q.transfer # NoOp \/ d # NoOp)
  /\ q.transfer = NoOp \/ d = NoOp
  /\ q.ring # <<>> => q.op_in_progress
  /\ \A i, j \in DOMAIN q.ring : q.ring[i] = q.ring[j] => i = j
  /\ \A i \in DOMAIN q.ring : q.ring[i] \notin {q.transfer, d}
  /\ Held(q, d) = P

\* The operation that driver s waits for when it waits for one.
OpOf(s) == [sensor |-> s, number |-> number[s]]

\* The operations that the drivers wait for.
Awaited == {OpOf(s) : s \in {t \in Sensors : driver[t] = "operation"}}

\* The inductive invariant.
BusInv == BusTypeOK /\ InOrder(queue, done, Awaited)

-----------------------------------------------------------------------------
(* The operations queue                                                     *)

\* i2c_queue_start_op on a free bus puts the operation on the bus.
LEMMA StartOpFacts ==
  ASSUME NEW q \in Queue, NEW op \in Ops, q.transfer = NoOp
  PROVE  /\ StartOp(q, op) \in Queue
         /\ StartOp(q, op).op_in_progress = q.op_in_progress
         /\ StartOp(q, op).ring = q.ring
         /\ StartOp(q, op).cb_data = op
         /\ StartOp(q, op).transfer = op
         /\ StartOp(q, op).fault = q.fault
  BY DEF StartOp, Queue

\* The operation is not lost and not doubled by ops_queue_add_op: a queue that is
\* in order and has room in the ring buffer is in order afterwards and holds the
\* new operation as well.
LEMMA AddOpInOrder ==
  ASSUME NEW q, NEW d, NEW P, InOrder(q, d, P),
         NEW op \in Ops, op \notin P, Len(q.ring) < MaxNumOps - 1
  PROVE  /\ InOrder(AddOp(q, op), d, P \cup {op})
         /\ Len(AddOp(q, op).ring) <= Len(q.ring) + 1
         /\ q.op_in_progress => AddOp(q, op).cb_data = q.cb_data
  <1>1. q \in Queue /\ d \in Ops \cup {NoOp} /\ op # NoOp /\ q.ring \in Seq(Ops)
    BY NoOpAssumption DEF InOrder, Queue
  <1>2. CASE ~q.op_in_progress
    <2> DEFINE r == AddOp(q, op)
    <2>1. q.transfer = NoOp /\ d = NoOp /\ q.ring = <<>>
      BY <1>2 DEF InOrder
    <2>2. r = [StartOp(q, op) EXCEPT !.op_in_progress = TRUE]
      BY <1>2 DEF AddOp
    <2>3. /\ r \in Queue
          /\ r.op_in_progress = TRUE
          /\ r.ring = q.ring
          /\ r.cb_data = op
          /\ r.transfer = op
          /\ r.fault = q.fault
      <3> DEFINE p == StartOp(q, op)
      <3>1. /\ p \in Queue /\ p.ring = q.ring /\ p.cb_data = op
            /\ p.transfer = op /\ p.fault = q.fault
        BY <1>1, <2>1, StartOpFacts
      <3>2. r = [p EXCEPT !.op_in_progress = TRUE]
        BY <2>2
      <3> HIDE DEF p, r
      <3> QED
        BY <3>1, <3>2 DEF Queue
    <2>4. DOMAIN r.ring = {} /\ DOMAIN q.ring = {} /\ Held(q, d) = {} /\ Held(r, d) = {op}
      BY <1>1, <2>1, <2>3 DEF Held
    <2> HIDE DEF r
    <2>5. InOrder(r, d, P \cup {op})
      BY <1>1, <2>1, <2>3, <2>4 DEF InOrder
    <2> QED
      BY <1>1, <1>2, <2>1, <2>3, <2>5 DEF r
  <1>3. CASE q.op_in_progress
    <2> DEFINE r == AddOp(q, op)
    <2>1. r = [q EXCEPT !.ring = Append(q.ring, op)]
      BY <1>3 DEF AddOp
    <2>2. /\ r \in Queue
          /\ r.op_in_progress = q.op_in_progress
          /\ r.ring = Append(q.ring, op)
          /\ r.cb_data = q.cb_data
          /\ r.transfer = q.transfer
          /\ r.fault = q.fault
      BY <1>1, <2>1 DEF Queue
    <2> HIDE DEF r
    <2>3. /\ DOMAIN r.ring = DOMAIN q.ring \cup {Len(q.ring) + 1}
          /\ DOMAIN q.ring = 1..Len(q.ring) /\ Len(q.ring) \in Nat
          /\ \A i \in DOMAIN q.ring : r.ring[i] = q.ring[i]
          /\ r.ring[Len(q.ring) + 1] = op
          /\ Len(r.ring) = Len(q.ring) + 1
      BY <1>1, <2>2
    <2>4. Held(r, d) = Held(q, d) \cup {op}
      BY <1>1, <2>2, <2>3 DEF Held
    <2>5. \A i \in DOMAIN q.ring : q.ring[i] # op
      BY DEF InOrder, Held
    <2>6. op # q.transfer /\ op # d
      BY <1>1 DEF InOrder, Held
    <2>7. \A i, j \in DOMAIN r.ring : r.ring[i] = r.ring[j] => i = j
      BY <2>3, <2>5 DEF InOrder
    <2>8. \A i \in DOMAIN r.ring : r.ring[i] \notin {r.transfer, d}
      BY <2>2, <2>3, <2>5, <2>6 DEF InOrder
    <2>9. InOrder(r, d, P \cup {op})
      BY <1>3, <2>2, <2>4, <2>7, <2>8 DEF InOrder
    <2> QED
      BY <2>2, <2>3, <2>9 DEF r
  <1> QED
    BY <1>1, <1>2, <1>3 DEF Queue

\* ops_queue_op_complete drops the finished operation and no other, and puts the
\* first one that waits on the free bus.
LEMMA OpCompleteInOrder ==
  ASSUME NEW q, NEW d, NEW P, InOrder(q, d, P), d # NoOp
  PROVE  /\ InOrder(OpComplete(q), NoOp, P \ {d})
         /\ Len(OpComplete(q).ring) <= Len(q.ring)
  <1> DEFINE r == OpComplete(q)
  <1>1. /\ q \in Queue /\ q.ring \in Seq(Ops) /\ q.transfer = NoOp
        /\ d \in Ops /\ ~q.fault /\ q.op_in_progress
    BY DEF InOrder, Queue
  <1>2. CASE q.ring = <<>>
    <2>1. /\ r \in Queue
          /\ r.op_in_progress = FALSE
          /\ r.ring = <<>>
          /\ r.transfer = NoOp
          /\ r.fault = q.fault
      BY <1>1, <1>2 DEF OpComplete, Queue
    <2> HIDE DEF r
    <2>2. DOMAIN r.ring = {} /\ Held(q, d) = {d} /\ Held(r, NoOp) = {}
      BY <1>1, <1>2, <2>1 DEF Held
    <2>3. InOrder(r, NoOp, P \ {d})
      BY <1>1, <2>1, <2>2 DEF InOrder
    <2> QED
      BY <1>2, <2>1, <2>3 DEF r
  <1>3. CASE q.ring # <<>>
    <2> DEFINE p == [q EXCEPT !.ring = Tail(q.ring)]
    <2>1. /\ Head(q.ring) \in Ops /\ Head(q.ring) = q.ring[1]
          /\ Tail(q.ring) \in Seq(Ops)
          /\ DOMAIN q.ring = 1..Len(q.ring) /\ Len(q.ring) \in Nat
          /\ DOMAIN Tail(q.ring) = 1..(Len(q.ring) - 1)
          /\ \A i \in 1..(Len(q.ring) - 1) : Tail(q.ring)[i] = q.ring[i + 1]
          /\ Len(Tail(q.ring)) = Len(q.ring) - 1
          /\ 1 \in DOMAIN q.ring
      BY <1>1, <1>3
    <2>2. /\ p \in Queue /\ p.ring = Tail(q.ring) /\ p.transfer = NoOp
          /\ p.fault = q.fault /\ p.op_in_progress = q.op_in_progress
      BY <1>1, <2>1 DEF Queue
    <2>3. r = StartOp(p, Head(q.ring))
      BY <1>3 DEF OpComplete
    <2>4. /\ r \in Queue
          /\ r.op_in_progress = TRUE
          /\ r.ring = Tail(q.ring)
          /\ r.cb_data = q.ring[1]
          /\ r.transfer = q.ring[1]
          /\ r.fault = FALSE
      <3> DEFINE h == Head(q.ring)
      <3>1. h \in Ops /\ h = q.ring[1] /\ r = StartOp(p, h)
        BY <2>1, <2>3
      <3> HIDE DEF p, r, h
      <3>2. StartOp(p, h) \in Queue /\ StartOp(p, h).op_in_progress = p.op_in_progress
            /\ StartOp(p, h).ring = p.ring /\ StartOp(p, h).cb_data = h
            /\ StartOp(p, h).transfer = h /\ StartOp(p, h).fault = p.fault
        BY <2>2, <3>1, StartOpFacts
      <3> QED
        BY <1>1, <2>2, <3>1, <3>2 DEF Queue
    <2> HIDE DEF r, p
    <2>5. \A i, j \in DOMAIN r.ring : r.ring[i] = r.ring[j] => i = j
      <3> SUFFICES ASSUME NEW i \in DOMAIN r.ring, NEW j \in DOMAIN r.ring,
                          r.ring[i] = r.ring[j]
                   PROVE  i = j
        OBVIOUS
      <3>1. q.ring[i + 1] = q.ring[j + 1] /\ i + 1 \in DOMAIN q.ring /\ j + 1 \in DOMAIN q.ring
            /\ i \in Int /\ j \in Int
        BY <2>1, <2>4
      <3>2. i + 1 = j + 1
        BY <3>1 DEF InOrder
      <3> QED
        BY <3>1, <3>2
    <2>6. \A i \in DOMAIN r.ring : r.ring[i] # q.ring[1]
      <3> SUFFICES ASSUME NEW i \in DOMAIN r.ring, r.ring[i] = q.ring[1] PROVE FALSE
        OBVIOUS
      <3>1. q.ring[i + 1] = q.ring[1] /\ i + 1 \in DOMAIN q.ring /\ i \in 1..(Len(q.ring) - 1)
        BY <2>1, <2>4
      <3>2. i + 1 = 1
        BY <3>1, <2>1 DEF InOrder
      <3> QED
        BY <3>1, <3>2, <2>1
    <2>7. {r.ring[i] : i \in DOMAIN r.ring} \cup {q.ring[1]} = {q.ring[i] : i \in DOMAIN q.ring}
      <3>1. \A i \in DOMAIN r.ring : i + 1 \in DOMAIN q.ring /\ r.ring[i] = q.ring[i + 1]
        BY <2>1, <2>4
      <3>2. \A i \in DOMAIN q.ring : i = 1 \/ (i - 1 \in DOMAIN r.ring /\ r.ring[i - 1] = q.ring[i])
        BY <2>1, <2>4
      <3>3. \A x : x \in {r.ring[i] : i \in DOMAIN r.ring} \cup {q.ring[1]}
                    => x \in {q.ring[i] : i \in DOMAIN q.ring}
        BY <2>1, <3>1
      <3>4. \A x : x \in {q.ring[i] : i \in DOMAIN q.ring}
                    => x \in {r.ring[i] : i \in DOMAIN r.ring} \cup {q.ring[1]}
        BY <3>2
      <3> QED
        BY <3>3, <3>4
    <2>8. \A i \in DOMAIN q.ring : q.ring[i] # d /\ q.ring[i] \in Ops
      BY <1>1 DEF InOrder
    <2>9. Held(r, NoOp) = {q.ring[i] : i \in DOMAIN q.ring}
      BY <2>1, <2>4, <2>7, NoOpAssumption DEF Held
    <2>10. Held(q, d) = {q.ring[i] : i \in DOMAIN q.ring} \cup {d}
      BY <1>1, NoOpAssumption DEF Held
    <2>11. Held(r, NoOp) = P \ {d}
      BY <2>8, <2>9, <2>10 DEF InOrder
    <2>12. \A i \in DOMAIN r.ring : r.ring[i] \notin {r.transfer, NoOp}
      BY <2>1, <2>4, <2>6, NoOpAssumption
    <2>13. q.ring[1] # NoOp
      BY <2>1, NoOpAssumption
    <2>14. InOrder(r, NoOp, P \ {d})
      BY <2>4, <2>5, <2>11, <2>12, <2>13 DEF InOrder
    <2> QED
      BY <2>1, <2>4, <2>14 DEF r
  <1> QED
    BY <1>2, <1>3

-----------------------------------------------------------------------------
(* The drivers                                                              *)

\* Each driver waits for at most one operation, its latest; when it goes on, that
\* one is replaced by the next one or by none, and the next one is new.
LEMMA AwaitedAfter ==
  ASSUME BusTypeOK, NEW s \in Sensors, NEW next \in DriverStates, DriverGoes(s, next)
  PROVE  /\ Awaited' = (Awaited \ {OpOf(s)})
                         \cup (IF next = "operation" THEN {NewOp(s)} ELSE {})
         /\ driver' \in [Sensors -> DriverStates]
         /\ number' \in [Sensors -> {0, 1}]
  <1>1. /\ driver' \in [Sensors -> DriverStates]
        /\ number' \in [Sensors -> {0, 1}]
    BY DEF DriverGoes, BusTypeOK
  <1>2. /\ \A t \in Sensors : t # s => driver'[t] = driver[t] /\ number'[t] = number[t]
        /\ driver'[s] = next
        /\ next = "operation" => number'[s] = 1 - number[s]
        /\ next # "operation" => number'[s] = number[s]
    BY DEF DriverGoes, BusTypeOK
  <1>3. \A op : op \in Awaited' <=>
          \E t \in Sensors : driver'[t] = "operation" /\ op = [sensor |-> t, number |-> number'[t]]
    BY DEF Awaited, OpOf
  <1>4. \A op : op \in Awaited <=>
          \E t \in Sensors : driver[t] = "operation" /\ op = [sensor |-> t, number |-> number[t]]
    BY DEF Awaited, OpOf
  <1>5. \A t \in Sensors : t # s =>
          [sensor |-> t, number |-> number[t]] # [sensor |-> s, number |-> number[s]]
    OBVIOUS
  <1>6. ASSUME NEW op, op \in Awaited'
        PROVE  op \in (Awaited \ {OpOf(s)}) \cup (IF next = "operation" THEN {NewOp(s)} ELSE {})
    <2>1. PICK t \in Sensors : driver'[t] = "operation" /\ op = [sensor |-> t, number |-> number'[t]]
      BY <1>3, <1>6
    <2>2. CASE t = s
      BY <1>2, <2>1, <2>2 DEF NewOp
    <2>3. CASE t # s
      BY <1>2, <1>4, <1>5, <2>1, <2>3 DEF OpOf
    <2> QED
      BY <2>2, <2>3
  <1>7. ASSUME NEW op,
               op \in (Awaited \ {OpOf(s)}) \cup (IF next = "operation" THEN {NewOp(s)} ELSE {})
        PROVE  op \in Awaited'
    <2>1. CASE next = "operation" /\ op = NewOp(s)
      BY <1>2, <1>3, <2>1 DEF NewOp
    <2>2. CASE op \in Awaited \ {OpOf(s)}
      <3>1. PICK t \in Sensors : driver[t] = "operation" /\ op = [sensor |-> t, number |-> number[t]]
        BY <1>4, <2>2
      <3>2. t # s
        BY <2>2, <3>1 DEF OpOf
      <3> QED
        BY <1>2, <1>3, <3>1, <3>2
    <2> QED
      BY <1>7, <2>1, <2>2
  <1> QED
    BY <1>1, <1>6, <1>7

\* The next operation of a driver is none of those that are under way, and a
\* driver that does not wait for an operation has none under way.
LEMMA NewOpIsNew ==
  ASSUME BusTypeOK, NEW s \in Sensors
  PROVE  /\ NewOp(s) \in Ops /\ NewOp(s) \notin Awaited
         /\ driver[s] # "operation" => OpOf(s) \notin Awaited
  <1>1. number[s] \in {0, 1}
    BY DEF BusTypeOK
  <1>2. NewOp(s) \in Ops
    BY <1>1 DEF NewOp, Ops
  <1>3. \A t \in Sensors : [sensor |-> t, number |-> number[t]] # NewOp(s)
    BY <1>1 DEF NewOp
  <1> QED
    BY <1>2, <1>3 DEF Awaited, OpOf

\* An operation that a driver waits for is known by its sensor.
LEMMA AwaitedOps ==
  ASSUME BusTypeOK, NEW op \in Awaited
  PROVE  /\ op \in Ops /\ op.sensor \in Sensors
         /\ driver[op.sensor] = "operation" /\ op = OpOf(op.sensor)
  <1>1. PICK t \in Sensors : driver[t] = "operation" /\ op = OpOf(t)
    BY DEF Awaited
  <1>2. op.sensor = t
    BY <1>1 DEF OpOf
  <1> QED
    BY <1>1, <1>2 DEF OpOf, Ops, BusTypeOK

\* The operation on the bus, or just finished, is not in the ring buffer, and a
\* driver has one operation, so there is always room for one more: the comment on
\* I2C_QUEUE_MAX_NUM_OPS.
LEMMA RoomInRing ==
  ASSUME BusInv
  PROVE  Len(queue.ring) < MaxNumOps - 1
  <1>1. /\ queue \in Queue /\ queue.ring \in Seq(Ops) /\ InOrder(queue, done, Awaited)
        /\ BusTypeOK /\ Cardinality(Sensors) \in Nat
    BY FS_CardinalityType, ConstantsAssumption DEF BusInv, BusTypeOK, Queue
  <1>2. CASE queue.ring = <<>>
    BY <1>2, ConstantsAssumption
  <1>3. CASE queue.ring # <<>>
    <2> DEFINE n == Len(queue.ring)
               b == queue.cb_data
               others == Sensors \ {b.sensor}
               sensorOf == [i \in 1..n |-> queue.ring[i].sensor]
    <2>1. n \in Nat /\ DOMAIN queue.ring = 1..n
      BY <1>1
    <2>2. b \in Awaited /\ \A i \in 1..n : queue.ring[i] # b
      BY <1>1, <1>3, <2>1 DEF InOrder, Held
    <2>3. \A i \in 1..n : queue.ring[i] \in Awaited
      BY <1>1, <2>1 DEF InOrder, Held
    <2>4. \A i, j \in 1..n : queue.ring[i] = queue.ring[j] => i = j
      BY <1>1, <2>1 DEF InOrder
    <2>5. b.sensor \in Sensors /\ b = OpOf(b.sensor)
      BY <1>1, <2>2, AwaitedOps
    <2>6. \A i \in 1..n : /\ queue.ring[i].sensor \in Sensors
                          /\ queue.ring[i] = OpOf(queue.ring[i].sensor)
      BY <1>1, <2>3, AwaitedOps
    <2>7. sensorOf \in Injection(1..n, others)
      <3>1. \A i \in 1..n : queue.ring[i].sensor \in others
        BY <2>2, <2>5, <2>6
      <3>2. \A i, j \in 1..n : sensorOf[i] = sensorOf[j] => i = j
        BY <2>4, <2>6
      <3> QED
        BY <3>1, <3>2 DEF Injection, IsInjective
    <2>8. IsFiniteSet(others) /\ Cardinality(others) = Cardinality(Sensors) - 1
      BY <2>5, FS_RemoveElement, ConstantsAssumption
    <2>9. Cardinality(1..n) = n
      BY <2>1, <1>1, FS_Interval
    <2>10. Cardinality(1..n) <= Cardinality(others)
      BY <2>7, <2>8, FS_Injection
    <2> QED
      BY <1>1, <2>1, <2>8, <2>9, <2>10, ConstantsAssumption
  <1> QED
    BY <1>2, <1>3

-----------------------------------------------------------------------------
(* The invariant                                                            *)

\* A driver that does not wait for an operation starts one or does not: the part
\* that DriverRequest and DriverTimerExpiredCb have in common.
LEMMA IdleDriverProceeds ==
  ASSUME BusInv, NEW s \in Sensors, NEW next \in DriverStates,
         driver[s] # "operation",
         queue' = Proceed(s, next, queue), DriverGoes(s, next), UNCHANGED done
  PROVE  BusInv'
  <1> DEFINE op == NewOp(s)
  <1>1. BusTypeOK /\ InOrder(queue, done, Awaited) /\ queue.ring \in Seq(Ops) /\ queue \in Queue
    BY DEF BusInv, BusTypeOK, Queue
  <1>2. /\ Awaited' = (Awaited \ {OpOf(s)}) \cup (IF next = "operation" THEN {op} ELSE {})
        /\ driver' \in [Sensors -> DriverStates]
        /\ number' \in [Sensors -> {0, 1}]
    BY <1>1, AwaitedAfter
  <1>3. op \in Ops /\ op \notin Awaited /\ OpOf(s) \notin Awaited
    BY <1>1, NewOpIsNew
  <1>4. Len(queue.ring) < MaxNumOps - 1 /\ Len(queue.ring) \in Nat /\ MaxNumOps \in Nat
    BY <1>1, RoomInRing, ConstantsAssumption
  <1> HIDE DEF op
  <1>5. CASE next = "operation"
    <2>1. queue' = AddOp(queue, op)
      BY <1>5 DEF Proceed, op
    <2>2. InOrder(AddOp(queue, op), done, Awaited \cup {op})
          /\ Len(AddOp(queue, op).ring) <= Len(queue.ring) + 1
      BY <1>1, <1>3, <1>4, AddOpInOrder
    <2>3. Awaited' = Awaited \cup {op}
      BY <1>2, <1>3, <1>5
    <2>4. InOrder(queue', done', Awaited') /\ Len(queue'.ring) <= Len(queue.ring) + 1
      BY <2>1, <2>2, <2>3
    <2>5. queue' \in Queue /\ done' \in Ops \cup {NoOp} /\ Len(queue'.ring) \in Nat
      BY <2>4 DEF InOrder, Queue
    <2> QED
      BY <1>2, <1>4, <2>4, <2>5 DEF BusInv, BusTypeOK
  <1>6. CASE next # "operation"
    <2>1. queue' = queue /\ Awaited' = Awaited
      BY <1>2, <1>3, <1>6 DEF Proceed
    <2> QED
      BY <1>1, <1>2, <2>1 DEF BusInv, BusTypeOK
  <1> QED
    BY <1>5, <1>6

\* Initially nothing is queued and no driver waits.
LEMMA BusInitInv == BusInit => BusInv
  <1> SUFFICES ASSUME BusInit PROVE BusInv
    OBVIOUS
  <1>1. queue \in Queue /\ queue.ring = <<>> /\ Len(queue.ring) = 0 /\ DOMAIN queue.ring = {}
    BY DEF BusInit, Queue
  <1>2. BusTypeOK
    BY <1>1, ConstantsAssumption DEF BusInit, BusTypeOK, DriverStates
  <1>3. Held(queue, done) = {} /\ Awaited = {}
    BY <1>1 DEF BusInit, Held, Awaited
  <1> QED
    BY <1>1, <1>2, <1>3 DEF BusInit, BusInv, InOrder

\* Every step of the bus keeps the invariant.
LEMMA BusStepInv == BusInv /\ [BusNext]_busVars => BusInv'
  <1> SUFFICES ASSUME BusInv, [BusNext]_busVars PROVE BusInv'
    OBVIOUS
  <1>1. /\ BusTypeOK /\ InOrder(queue, done, Awaited) /\ queue \in Queue
        /\ queue.ring \in Seq(Ops) /\ Len(queue.ring) \in Nat /\ MaxNumOps \in Nat
    BY ConstantsAssumption DEF BusInv, BusTypeOK, Queue
  <1>2. ASSUME NEW s \in Sensors, DriverRequest(s)
        PROVE  BusInv'
    BY <1>2, IdleDriverProceeds DEF DriverRequest, DriverStates
  <1>3. ASSUME NEW s \in Sensors, NEW next \in DriverStates, DriverTimerExpiredCb(s, next)
        PROVE  BusInv'
    BY <1>3, IdleDriverProceeds DEF DriverTimerExpiredCb
  <1>4. CASE TwimHandler
    <2> DEFINE t == queue.transfer
    <2>1. /\ t # NoOp /\ t \in Ops /\ done = NoOp /\ queue.cb_data = t /\ queue.op_in_progress
          /\ done' = t /\ Awaited' = Awaited
      BY <1>1, <1>4 DEF TwimHandler, InOrder, Queue, Awaited, OpOf
    <2>2. /\ queue' \in Queue /\ queue'.transfer = NoOp /\ queue'.ring = queue.ring
          /\ queue'.cb_data = queue.cb_data /\ queue'.fault = queue.fault
          /\ queue'.op_in_progress = queue.op_in_progress
      BY <1>1, <1>4 DEF TwimHandler, Queue
    <2> HIDE DEF t
    <2>3. Held(queue', done') = Held(queue, done)
      BY <2>1, <2>2, NoOpAssumption DEF Held, t
    <2>4. \A i \in DOMAIN queue.ring : queue.ring[i] \notin {NoOp, t}
      BY <1>1, <2>1 DEF InOrder, t
    <2>5. InOrder(queue', done', Awaited')
      BY <1>1, <2>1, <2>2, <2>3, <2>4 DEF InOrder
    <2> QED
      BY <1>1, <1>4, <2>1, <2>2, <2>5 DEF BusInv, BusTypeOK, TwimHandler
  <1>5. ASSUME NEW next \in DriverStates, HandleI2cTransComplete(next)
        PROVE  BusInv'
    <2> DEFINE s == queue.cb_data.sensor
               op == NewOp(s)
               q == Proceed(s, next, queue)
    <2>1. /\ done # NoOp /\ done' = NoOp /\ queue.cb_data = done /\ queue.op_in_progress
          /\ done \in Awaited
      BY <1>1, <1>5 DEF HandleI2cTransComplete, InOrder, Held
    <2>2. s \in Sensors /\ done = OpOf(s) /\ done \in Ops
      BY <1>1, <2>1, AwaitedOps
    <2>3. queue' = OpComplete(q) /\ DriverGoes(s, next)
      BY <1>5, <2>1 DEF HandleI2cTransComplete
    <2>4. op \in Ops /\ op \notin Awaited
      BY <1>1, <2>2, NewOpIsNew
    <2>5. /\ Awaited' = (Awaited \ {done}) \cup (IF next = "operation" THEN {op} ELSE {})
          /\ driver' \in [Sensors -> DriverStates]
          /\ number' \in [Sensors -> {0, 1}]
      BY <1>1, <2>2, <2>3, AwaitedAfter
    <2>6. Len(queue.ring) < MaxNumOps - 1
      BY RoomInRing
    <2>7. /\ InOrder(q, done, Awaited \cup (IF next = "operation" THEN {op} ELSE {}))
          /\ Len(q.ring) <= Len(queue.ring) + 1
      <3> HIDE DEF op, s
      <3>1. CASE next = "operation"
        <4>1. q = AddOp(queue, op)
          BY <3>1 DEF Proceed, op
        <4> QED
          BY <1>1, <2>4, <2>6, <3>1, <4>1, AddOpInOrder
      <3>2. CASE next # "operation"
        BY <1>1, <3>2 DEF Proceed
      <3> QED
        BY <3>1, <3>2
    <2> HIDE DEF q, s, op
    <2>8. /\ InOrder(OpComplete(q), NoOp,
                     (Awaited \cup (IF next = "operation" THEN {op} ELSE {})) \ {done})
          /\ Len(OpComplete(q).ring) <= Len(q.ring)
      BY <2>1, <2>7, OpCompleteInOrder
    <2>9. Awaited' = (Awaited \cup (IF next = "operation" THEN {op} ELSE {})) \ {done}
      BY <2>1, <2>4, <2>5
    <2>10. InOrder(queue', done', Awaited')
      BY <2>1, <2>3, <2>8, <2>9
    <2>11. queue' \in Queue /\ Len(queue'.ring) \in Nat /\ Len(q.ring) \in Nat
      BY <2>7, <2>10 DEF InOrder, Queue
    <2>12. Len(queue'.ring) <= MaxNumOps - 1
      BY <1>1, <2>3, <2>6, <2>7, <2>8, <2>11
    <2> QED
      BY <2>1, <2>5, <2>10, <2>11, <2>12 DEF BusInv, BusTypeOK
  <1>6. CASE UNCHANGED busVars
    BY <1>6 DEF BusInv, BusTypeOK, InOrder, Held, Awaited, OpOf, busVars
  <1> QED
    BY <1>2, <1>3, <1>4, <1>5, <1>6 DEF BusNext

\* What the invariant says of the queue.
LEMMA BusInvImplies == BusInv => BusTypeOK /\ BusIsConsistent /\ BusAssertsHold
  <1> SUFFICES ASSUME BusInv PROVE BusIsConsistent /\ BusAssertsHold
    BY DEF BusInv
  <1>1. Pending = {[sensor |-> s, number |-> number[s]] :
                     s \in {t \in Sensors : driver[t] = "operation"}}
    BY DEF BusInv, InOrder, Held, Pending, Awaited, OpOf
  <1> QED
    BY <1>1 DEF BusInv, InOrder, BusIsConsistent, CallbackIsForFinishedOp, FlagMatchesBus,
                EachDriverHasItsOp, BusAssertsHold

\* The inductive invariant holds in every state of the bus.
THEOREM BusInvariant == BusSpec => []BusInv
  BY BusInitInv, BusStepInv, PTL DEF BusSpec

\* Between any two events the queue, the bus and the drivers agree: the callback
\* at hand belongs to the operation on the bus or just finished, op_in_progress
\* says whether the bus is taken, and no operation is lost, doubled or handed to
\* another driver.
THEOREM BusConsistent == BusSpec => []BusIsConsistent
  BY BusInvariant, BusInvImplies, PTL

\* With one slot more than there are sensors, the ring buffer never overflows, no
\* transfer is started on a busy bus, and ops_queue_op_complete is not called
\* without an operation.
THEOREM BusAsserts == BusSpec => []BusAssertsHold
  BY BusInvariant, BusInvImplies, PTL

-----------------------------------------------------------------------------
(* The platform uses the bus as BusSpec says                                *)

\* A request to a driver is one of the bus, or none: the driver refused it, or it
\* is the driver of the SPI sensor.
LEMMA RequestIsBusStep ==
  ASSUME NEW d, NEW e, NEW asserted, Request(d, e, asserted)
  PROVE  [BusNext]_busVars
  BY DEF Request, BusNext, driverVars, busVars

\* The parts of the initialisation make requests or leave the bus alone.
LEMMA InitChainIsBusStep ==
  ASSUME InitChain
  PROVE  [BusNext]_busVars
  BY RequestIsBusStep
  DEF InitChain, HandleInitEvent, InitPart0Complete, InitPart1, InitPart2, InitPart3,
      InitPart4, InitPart5, InitParts6To10, InitPart11, InitPart12, InitPartCreates,
      InitPartConfigures, driverVars

\* Every event handler does to the bus what a step of BusNext does, or nothing.
LEMMA EventThreadIsBusStep ==
  ASSUME EventThread
  PROVE  [BusNext]_busVars
  <1>1. CASE InitChain
    BY <1>1, InitChainIsBusStep
  <1>2. CASE HandleInitPart2Event
    BY <1>2 DEF HandleInitPart2Event, StartReadouts, CreateConditions, CreateRaisers,
                InitMsgTransceiver, SetAddAlertCb, SetRemoveAlertCb, driverVars
  <1>3. CASE Sht31ReadoutTimerCb \/ Bh1750ReadoutTimerCb \/ Bmp280ReadoutTimerCb
    BY <1>3, RequestIsBusStep DEF Sht31ReadoutTimerCb, Bh1750ReadoutTimerCb,
                                  Bmp280ReadoutTimerCb, ReadoutTimerCb
  <1>4. ASSUME NEW d \in Drivers, HandleDriverTimer(d)
        PROVE  [BusNext]_busVars
    BY <1>4 DEF HandleDriverTimer, BusNext, DriverStates
  <1>5. CASE HandleI2cEvent
    BY <1>5 DEF HandleI2cEvent, BusNext
  <1>6. CASE HandleSpiEvent \/ HandleSample \/ StartAdvertising
    BY <1>6 DEF HandleSpiEvent, HandleSample, StartAdvertising, driverVars
  <1> QED
    BY <1>1, <1>2, <1>3, <1>4, <1>5, <1>6 DEF EventThread

\* So does every step of the platform.
LEMMA NextIsBusStep == [Next]_vars => [BusNext]_busVars
  <1> SUFFICES ASSUME [Next]_vars PROVE [BusNext]_busVars
    OBVIOUS
  <1>1. CASE EventThread
    BY <1>1, EventThreadIsBusStep
  <1>2. CASE TwimIsr
    BY <1>2 DEF TwimIsr, BusNext
  <1>3. CASE SpiIsr \/ \E t \in Timers : TimerIsr(t)
    BY <1>3 DEF SpiIsr, TimerIsr, driverVars
  <1>4. CASE Tick
    BY <1>4 DEF Tick, driverVars
  <1>5. CASE InitPart11Complete \/ OnConnected \/ OnDisconnected \/ RecycledCb \/ Receive
    BY <1>5 DEF InitPart11Complete, OnConnected, OnDisconnected, RecycledCb, Receive, driverVars
  <1>6. CASE UNCHANGED vars
    BY <1>6 DEF vars
  <1> QED
    BY <1>1, <1>2, <1>3, <1>4, <1>5, <1>6 DEF Next

\* The requests, timers and completions of the platform are steps of the bus by
\* itself: what is proved of BusSpec holds on the platform.
THEOREM PlatformImplementsBus == Spec => BusSpec
  <1>1. Init => BusInit
    BY DEF Init
  <1> QED
    BY <1>1, NextIsBusStep, PTL DEF Spec, BusSpec

\* On the platform, too, the queue, the bus and the drivers agree whenever a
\* handler or an interrupt has run, whatever the initialisation and the readouts ask of
\* the two sensors.
THEOREM PlatformBusConsistent == Spec => []BusIsConsistent
  BY PlatformImplementsBus, BusConsistent, PTL

\* The asserts of the operations queue and of nrfx_twim_xfer hold on the platform.
THEOREM PlatformBusAsserts == Spec => []BusAssertsHold
  BY PlatformImplementsBus, BusAsserts, PTL

-----------------------------------------------------------------------------
(* Types                                                                    *)

\* The parts whose requests driver d gets, and what its request may be.
PartsOf(d) == CASE d = "sht31"  -> {1}
                [] d = "bh1750" -> {2, 3}
                [] OTHER        -> 4..10

RequestsOf(d) == {NoRequest, <<"readout", d>>} \cup {Part(n) : n \in PartsOf(d)}

\* The types, the inductive invariant of the bus, and that each driver works for its
\* own parts of the initialisation and its own readouts.
TypeInv ==
  /\ TypeOK /\ BusInv
  /\ \A d \in Drivers : request[d] \in RequestsOf(d)
  /\ pc # "idle" => events # <<>>

\* The drivers, and what their requests are.
LEMMA DriverFacts ==
  /\ Drivers = {"sht31", "bh1750", "bmp280"}
  /\ \A d \in Drivers : /\ PartsOf(d) \subseteq 1..10
                        /\ RequestsOf(d) \subseteq Events \cup {NoRequest}
                        /\ MaxSteps(d) \in Nat \ {0} /\ MaxDelay(d) \in Nat /\ Period(d) \in Nat
                        /\ <<"readout", d>> \in Timers /\ <<"driver", d>> \in Timers
  /\ HwTimer \in Timers /\ Timers \subseteq Events /\ Samples \subseteq Events
  /\ NumAlerts \in Nat /\ MaxTimers \in Nat /\ MaxLate \in Nat
  <1>1. Drivers = {"sht31", "bh1750", "bmp280"}
    BY PlatformAssumption DEF Drivers
  <1>2. /\ HwTimer \in Timers /\ Timers \subseteq Events /\ Samples \subseteq Events
        /\ \A d \in Drivers : <<"readout", d>> \in Timers /\ <<"driver", d>> \in Timers
    BY DEF Timers, Events
  <1>3. ASSUME NEW d \in Drivers
        PROVE  /\ PartsOf(d) \subseteq 1..10
               /\ RequestsOf(d) \subseteq Events \cup {NoRequest}
    <2>1. PartsOf(d) \subseteq 1..10
      BY <1>1 DEF PartsOf
    <2>2. \A n \in PartsOf(d) : Part(n) \in Events
      BY <2>1 DEF Events
    <2> QED
      BY <1>2, <2>1, <2>2 DEF RequestsOf
  <1>4. ASSUME NEW d \in Drivers
        PROVE  MaxSteps(d) \in Nat \ {0} /\ MaxDelay(d) \in Nat /\ Period(d) \in Nat
    BY <1>1, PlatformAssumption DEF MaxSteps, MaxDelay, Period
  <1>5. NumAlerts \in Nat /\ MaxTimers \in Nat /\ MaxLate \in Nat
    BY PlatformAssumption
  <1> QED
    BY <1>1, <1>2, <1>3, <1>4, <1>5

\* Two kinds of events or requests differ in their first component.
LEMMA PartFacts ==
  /\ \A n, m : Part(n) = Part(m) <=> n = m
  /\ \A d \in Drivers : \A r \in RequestsOf(d) :
       r[1] = "part" <=> \E n \in PartsOf(d) : r = Part(n) /\ r[2] = n
  /\ \A n : Part(n)[1] = "part" /\ Part(n)[2] = n
  /\ NoRequest[1] = "no" /\ \A d : <<"readout", d>>[1] = "readout"
  BY DEF Part, RequestsOf, NoRequest

\* Handling an event, or submitting one, keeps the queue well typed.
LEMMA SubmitType ==
  ASSUME events \in Seq(Events), events # <<>>, NEW new \in Seq(Events), Submit(new)
  PROVE  events' \in Seq(Events)
  BY DEF Submit

LEMMA SubmitNothingType ==
  ASSUME events \in Seq(Events), events # <<>>, Submit(<<>>)
  PROVE  events' \in Seq(Events)
  BY DEF Submit

\* A request to a driver.
LEMMA RequestType ==
  ASSUME TypeInv, NEW d \in Drivers, NEW e \in RequestsOf(d), NEW asserted, Request(d, e, asserted),
         fault \in BOOLEAN
  PROVE  /\ spi' \in {"idle", "transfer", "complete", "timer"}
         /\ request' \in [Drivers -> Events \cup {NoRequest}]
         /\ \A c \in Drivers : request'[c] \in RequestsOf(c)
         /\ steps' \in [Drivers -> Nat] /\ \A c \in Drivers : steps'[c] <= MaxSteps(c)
         /\ fault' \in BOOLEAN
  <1>1. CASE asserted /\ request[d] = NoRequest
    <2>1. /\ request' = [request EXCEPT ![d] = e] /\ steps' = [steps EXCEPT ![d] = 1]
          /\ fault' = fault /\ spi' \in {spi, "transfer"}
      BY <1>1 DEF Request
    <2>2. request' \in [Drivers -> Events \cup {NoRequest}] /\ \A c \in Drivers : request'[c] \in RequestsOf(c)
      BY <2>1, DriverFacts DEF TypeInv, TypeOK
    <2>3. steps' \in [Drivers -> Nat] /\ \A c \in Drivers : steps'[c] <= MaxSteps(c)
      BY <2>1, DriverFacts DEF TypeInv, TypeOK
    <2> QED
      BY <2>1, <2>2, <2>3 DEF TypeInv, TypeOK
  <1>2. CASE ~(asserted /\ request[d] = NoRequest)
    <2>1. UNCHANGED <<spi, request, steps>> /\ fault' = TRUE
      BY <1>2 DEF Request, driverVars
    <2> QED
      BY <2>1, DriverFacts DEF TypeInv, TypeOK
  <1> QED
    BY <1>1, <1>2

\* A driver that goes on, or ends its request.
LEMMA GoOnType ==
  ASSUME TypeInv, events # <<>>, NEW d \in Drivers, NEW rc, NEW next \in DriverStates,
         NEW ok \in BOOLEAN, MayGoOn(d, rc, next, ok), GoOn(d, next, ok)
  PROVE  /\ request' \in [Drivers -> Events \cup {NoRequest}]
         /\ \A c \in Drivers : request'[c] \in RequestsOf(c)
         /\ steps' \in [Drivers -> Nat] /\ \A c \in Drivers : steps'[c] <= MaxSteps(c)
         /\ timer' \in [Timers -> Nat \cup {Off}]
         /\ events' \in Seq(Events)
         /\ report' \in {"none", "success", "failure"}
  <1>1. /\ request \in [Drivers -> Events \cup {NoRequest}] /\ steps \in [Drivers -> Nat]
        /\ \A c \in Drivers : steps[c] <= MaxSteps(c) /\ request[c] \in RequestsOf(c)
        /\ timer \in [Timers -> Nat \cup {Off}] /\ events \in Seq(Events)
        /\ report \in {"none", "success", "failure"}
    BY DEF TypeInv, TypeOK
  <1>2. CASE next = "idle"
    <2>1. /\ request' = [request EXCEPT ![d] = NoRequest] /\ steps' = [steps EXCEPT ![d] = 0]
          /\ timer' = timer
          /\ IF request[d][1] = "part" THEN InitPartComplete(request[d][2], ok)
             ELSE ReadoutComplete(d, ok)
      BY <1>2 DEF GoOn
    <2>2. /\ request' \in [Drivers -> Events \cup {NoRequest}]
          /\ \A c \in Drivers : request'[c] \in RequestsOf(c)
      BY <1>1, <2>1 DEF RequestsOf
    <2>3. steps' \in [Drivers -> Nat] /\ \A c \in Drivers : steps'[c] <= MaxSteps(c)
      BY <1>1, <2>1, DriverFacts
    <2>4. events' \in Seq(Events) /\ report' \in {"none", "success", "failure"}
      <3>1. CASE request[d][1] = "part"
        <4>1. request[d][2] \in 1..10
          <5>1. PICK n \in PartsOf(d) : request[d][2] = n
            BY <1>1, <3>1, PartFacts
          <5> QED
            BY <5>1, DriverFacts
        <4>2. Part(request[d][2] + 1) \in Events
          BY <4>1 DEF Events
        <4>3. /\ report' \in {report, "failure"}
              /\ Submit(<<Part(request[d][2] + 1)>>) \/ Submit(<<>>)
          BY <2>1, <3>1 DEF InitPartComplete, Report
        <4> HIDE DEF Part
        <4>4. <<Part(request[d][2] + 1)>> \in Seq(Events) /\ <<>> \in Seq(Events)
          BY <4>2
        <4> QED
          BY <1>1, <4>3, <4>4, SubmitType
      <3>2. CASE request[d][1] # "part"
        <4>1. PICK new \in Sht31Samples(ok) \cup Bh1750Samples(ok) \cup Bmp280Samples(ok) :
                Submit(new) /\ report' = report
          BY <2>1, <3>2 DEF ReadoutComplete
        <4>2. new \in Seq(Samples)
          <5>1. \A v \in {"temperature", "humidity", "pressure", "light_intensity"} :
                  Sample(v) \in Samples
            BY DEF Samples
          <5> HIDE DEF Sample
          <5>2. /\ <<>> \in Seq(Samples)
                /\ <<Sample("temperature"), Sample("humidity")>> \in Seq(Samples)
                /\ <<Sample("light_intensity")>> \in Seq(Samples)
                /\ <<Sample("pressure")>> \in Seq(Samples)
            BY <5>1
          <5>3. \/ new = <<>> \/ new = <<Sample("temperature"), Sample("humidity")>>
                \/ new = <<Sample("light_intensity")>> \/ new = <<Sample("pressure")>>
            BY <4>1, Zenon DEF Sht31Samples, Bh1750Samples, Bmp280Samples
          <5> QED
            BY <5>2, <5>3
        <4>3. new \in Seq(Events)
          BY <4>2, DriverFacts
        <4> QED
          BY <1>1, <4>1, <4>3, SubmitType
      <3> QED
        BY <3>1, <3>2
    <2> QED
      BY <1>1, <2>1, <2>2, <2>3, <2>4
  <1>3. CASE next # "idle"
    <2>1. /\ steps' = [steps EXCEPT ![d] = @ + 1] /\ Submit(<<>>)
          /\ \E delay \in 1..MaxDelay(d) :
               timer' = IF next = "timer" THEN [timer EXCEPT ![<<"driver", d>>] = delay] ELSE timer
          /\ UNCHANGED <<request, report>>
      BY <1>3 DEF GoOn
    <2>2. steps[d] < MaxSteps(d)
      BY <1>3 DEF MayGoOn
    <2>3. steps' \in [Drivers -> Nat] /\ \A c \in Drivers : steps'[c] <= MaxSteps(c)
      <3>1. /\ steps \in [Drivers -> Nat] /\ steps' = [steps EXCEPT ![d] = steps[d] + 1]
            /\ \A c \in Drivers : steps[c] <= MaxSteps(c)
        BY <1>1, <2>1
      <3>2. \A c \in Drivers : MaxSteps(c) \in Nat /\ steps[c] \in Nat
        BY <3>1, DriverFacts
      <3>3. steps' \in [Drivers -> Nat]
        BY <3>1, <3>2
      <3>4. \A c \in Drivers : steps'[c] = IF c = d THEN steps[d] + 1 ELSE steps[c]
        BY <3>1
      <3>5. steps[d] + 1 <= MaxSteps(d)
        BY <2>2, <3>2
      <3> QED
        BY <3>1, <3>3, <3>4, <3>5
    <2>4. timer' \in [Timers -> Nat \cup {Off}]
      <3>1. PICK delay \in 1..MaxDelay(d) :
              timer' = IF next = "timer" THEN [timer EXCEPT ![<<"driver", d>>] = delay] ELSE timer
        BY <2>1
      <3>2. delay \in Nat
        BY DriverFacts
      <3> QED
        <4>1. <<"driver", d>> \in Timers
          BY DriverFacts
        <4>2. [timer EXCEPT ![<<"driver", d>>] = delay] \in [Timers -> Nat \cup {Off}]
          BY <1>1, <3>2, <4>1
        <4>3. timer \in [Timers -> Nat \cup {Off}]
          BY <1>1
        <4> QED
          BY <3>1, <4>2, <4>3
    <2>5. events' \in Seq(Events)
      BY <1>1, <2>1, SubmitNothingType
    <2> QED
      BY <1>1, <2>1, <2>3, <2>4, <2>5
  <1> QED
    BY <1>2, <1>3

\* The requests of the initialisation keep the types.
LEMMA InitChainType ==
  ASSUME TypeInv, InitChain, BusInv'
  PROVE  TypeInv'
  <1>1. BusTypeOK'
    BY DEF BusInv
  <1>10. TypeOK /\ BusInv /\ \A d \in Drivers : request[d] \in RequestsOf(d)
    BY DEF TypeInv
  <1> USE DEF TypeOK
  <1>11. pc' # "idle" => events' # <<>>
    BY DEF InitChain, HandleInitEvent, InitPart0Complete, InitPart1, InitPart2, InitPart3,
           InitPart4, InitPart5, InitParts6To10, InitPart11, InitPart12, InitPartCreates,
           InitPartConfigures, Handling
  <1>2. \A n \in 1..12 : Part(n) \in Events
    BY DEF Events
  <1>3. CASE HandleInitEvent
    <2>1. timer' \in [Timers -> Nat \cup {Off}] /\ events' \in Seq(Events) /\ timers' \in Nat
      BY <1>10, <1>3, DriverFacts, SubmitNothingType DEF HandleInitEvent, CreateTimers, Handling
    <2> QED
      BY <1>11, <1>10, <1>1, <1>3, <2>1 DEF TypeInv, HandleInitEvent, driverVars
  <1>4. CASE InitPart0Complete
    <2>1. <<Part(1)>> \in Seq(Events) /\ events # <<>> /\ Submit(<<Part(1)>>)
      BY <1>10, <1>2, <1>4 DEF InitPart0Complete, Handling
    <2>2. events' \in Seq(Events)
      BY <1>10, <2>1, SubmitType
    <2> QED
      BY <1>11, <1>10, <1>1, <1>4, <2>2 DEF TypeInv, InitPart0Complete, driverVars
  <1>5. ASSUME NEW d \in Drivers, NEW n \in PartsOf(d),
               InitPartCreates(n, d) \/ InitPartConfigures(n, d)
        PROVE  TypeInv'
    <2>1. Part(n) \in RequestsOf(d)
      BY DEF RequestsOf
    <2>2. Request(d, Part(n), d \notin objects) \/ Request(d, Part(n), d \in objects)
      BY <1>10, <1>5 DEF InitPartCreates, InitPartConfigures
    <2>3. /\ events # <<>> /\ Submit(<<>>) /\ objects' \in {objects, objects \cup {d}}
          /\ UNCHANGED <<timer, late, report, timers, bt, pc>>
      BY <1>10, <1>5 DEF InitPartCreates, InitPartConfigures, Handling
    <2>4. objects' \subseteq Objects /\ events' \in Seq(Events)
      BY <1>10, <2>3, SubmitNothingType DEF Objects
    <2>5. /\ spi' \in {"idle", "transfer", "complete", "timer"}
          /\ request' \in [Drivers -> Events \cup {NoRequest}]
          /\ \A c \in Drivers : request'[c] \in RequestsOf(c)
          /\ steps' \in [Drivers -> Nat] /\ \A c \in Drivers : steps'[c] <= MaxSteps(c)
          /\ fault' \in BOOLEAN
      BY <1>10, <2>1, <2>2, RequestType
    <2>6. TypeOK'
      BY <1>10, <1>1, <2>3, <2>4, <2>5
    <2> QED
      BY <1>11, <2>5, <2>6 DEF TypeInv
  <1>6. CASE InitPart1 \/ InitPart2 \/ InitPart3 \/ InitPart4 \/ InitParts6To10
    BY <1>10, <1>5, <1>6, DriverFacts DEF InitPart1, InitPart2, InitPart3, InitPart4, InitParts6To10, PartsOf
  <1>7. CASE InitPart5
    <2>1. Part(5) \in RequestsOf("bmp280") /\ "bmp280" \in Drivers
      BY DriverFacts DEF RequestsOf, PartsOf
    <2>4. /\ events' \in Seq(Events) /\ report' \in {"none", "success", "failure"}
          /\ UNCHANGED <<timer, late, objects, timers, bt, pc>>
      BY <1>10, <1>7, SubmitNothingType DEF InitPart5, Report, Handling
    <2>2. CASE Request("bmp280", Part(5), TRUE)
      <3>1. /\ spi' \in {"idle", "transfer", "complete", "timer"}
            /\ request' \in [Drivers -> Events \cup {NoRequest}]
            /\ \A c \in Drivers : request'[c] \in RequestsOf(c)
            /\ steps' \in [Drivers -> Nat] /\ \A c \in Drivers : steps'[c] <= MaxSteps(c)
            /\ fault' \in BOOLEAN
        BY <1>10, <2>1, <2>2, RequestType
      <3> QED
        BY <1>11, <1>10, <1>1, <2>4, <3>1 DEF TypeInv
    <2>3. CASE UNCHANGED <<driverVars, fault>>
      BY <1>11, <1>10, <1>1, <2>3, <2>4 DEF TypeInv, driverVars
    <2> QED
      BY <1>10, <1>7, <2>2, <2>3 DEF InitPart5
  <1>8. CASE InitPart11
    <2>1. events' \in Seq(Events)
      BY <1>10, <1>8, SubmitNothingType DEF InitPart11, Handling
    <2> QED
      BY <1>11, <1>10, <1>1, <1>8, <2>1 DEF TypeInv, InitPart11, driverVars, Report, BtStates
  <1>9. CASE InitPart12
    <2>1. <<AdvertisingEvent, InitPart2Event>> \in Seq(Events)
      BY DEF Events
    <2>2. events' \in Seq(Events)
      BY <1>10, <1>9, <2>1, SubmitType DEF InitPart12, Handling
    <2> QED
      BY <1>11, <1>10, <1>1, <1>9, <2>2 DEF TypeInv, InitPart12, driverVars, Report, CreateTimers, Objects
  <1> QED
    BY <1>10, <1>3, <1>4, <1>6, <1>7, <1>8, <1>9 DEF InitChain

\* The steps of INIT_PART_2 keep the types.
LEMMA SetUpType ==
  ASSUME TypeInv, HandleInitPart2Event, BusInv'
  PROVE  TypeInv'
  <1>1. TypeOK /\ BusInv /\ \A d \in Drivers : request[d] \in RequestsOf(d)
    BY DEF TypeInv
  <1>2. BusTypeOK'
    BY DEF BusInv
  <1>3. \A d : d \in {"readouts", "conditions", "raisers", "receive_cb", "add_alert_cb",
                      "remove_alert_cb"} => d \in Objects
    BY DEF Objects
  <1>4. CASE StartReadouts
    <2>1. timer' \in [Timers -> Nat \cup {Off}]
      <3>1. \A t \in Timers : t[1] = "readout" => t[2] \in Drivers
        BY DEF Timers, HwTimer
      <3> QED
        BY <1>1, <1>4, <3>1, DriverFacts DEF TypeOK, StartReadouts
    <2>2. events' = events /\ objects' \subseteq Objects
      BY <1>1, <1>3, <1>4 DEF TypeOK, StartReadouts
    <2>3. fault' \in BOOLEAN
      BY <1>4, Zenon DEF StartReadouts
    <2> QED
      BY <1>1, <1>2, <1>4, <2>1, <2>2, <2>3
      DEF TypeInv, TypeOK, StartReadouts, Handling, driverVars
  <1>5. CASE CreateConditions \/ SetAddAlertCb
    <2>1. objects' \subseteq Objects
      BY <1>1, <1>3, <1>5 DEF TypeOK, CreateConditions, SetAddAlertCb
    <2> QED
      BY <1>1, <1>2, <1>5, <2>1 DEF TypeInv, TypeOK, CreateConditions, SetAddAlertCb, driverVars
  <1>6. CASE CreateRaisers
    <2>1. objects' \subseteq Objects /\ timers' \in Nat
      BY <1>1, <1>3, <1>6, DriverFacts DEF TypeOK, CreateRaisers, CreateTimers
    <2> QED
      BY <1>1, <1>2, <1>6, <2>1 DEF TypeInv, TypeOK, CreateRaisers, driverVars
  <1>7. CASE InitMsgTransceiver
    <2>1. objects' \subseteq Objects
      BY <1>1, <1>3, <1>7 DEF TypeOK, InitMsgTransceiver
    <2>2. fault' \in BOOLEAN
      BY <1>7, Zenon DEF InitMsgTransceiver
    <2> QED
      BY <1>1, <1>2, <1>7, <2>1, <2>2 DEF TypeInv, TypeOK, InitMsgTransceiver, driverVars
  <1>8. CASE SetRemoveAlertCb
    <2>1. objects' \subseteq Objects
      BY <1>1, <1>3, <1>8 DEF TypeOK, SetRemoveAlertCb
    <2>2. events' \in Seq(Events)
      BY <1>1, <1>8, SubmitNothingType DEF TypeInv, TypeOK, SetRemoveAlertCb
    <2> QED
      BY <1>1, <1>2, <1>8, <2>1, <2>2 DEF TypeInv, TypeOK, SetRemoveAlertCb, driverVars
  <1> QED
    BY <1>4, <1>5, <1>6, <1>7, <1>8 DEF HandleInitPart2Event

\* The expiry of a readout timer, and what the drivers do then, keep the types.
LEMMA DriversType ==
  ASSUME TypeInv, BusInv',
         \/ \E d \in Drivers : ReadoutTimerCb(d) \/ HandleDriverTimer(d)
         \/ HandleI2cEvent \/ HandleSpiEvent
  PROVE  TypeInv'
  <1>1. TypeOK /\ BusInv /\ \A d \in Drivers : request[d] \in RequestsOf(d)
    BY DEF TypeInv
  <1>2. BusTypeOK'
    BY DEF BusInv
  <1>3. ASSUME NEW d \in Drivers, ReadoutTimerCb(d)
        PROVE  TypeInv'
    <2>1. <<"readout", d>> \in RequestsOf(d)
      BY DEF RequestsOf
    <2>2. /\ events # <<>> /\ Submit(<<>>) /\ Request(d, <<"readout", d>>, TRUE)
          /\ pc = "idle" /\ UNCHANGED <<timer, late, report, objects, timers, bt, pc>>
      BY <1>3 DEF ReadoutTimerCb, Handling
    <2>3. events' \in Seq(Events)
      BY <1>1, <2>2, SubmitNothingType DEF TypeOK
    <2>4. /\ spi' \in {"idle", "transfer", "complete", "timer"}
          /\ request' \in [Drivers -> Events \cup {NoRequest}]
          /\ \A c \in Drivers : request'[c] \in RequestsOf(c)
          /\ steps' \in [Drivers -> Nat] /\ \A c \in Drivers : steps'[c] <= MaxSteps(c)
          /\ fault' \in BOOLEAN
      BY <2>1, <2>2, RequestType DEF TypeInv, TypeOK
    <2> QED
      BY <1>1, <1>2, <2>2, <2>3, <2>4 DEF TypeInv, TypeOK
  <1>4. ASSUME NEW d \in Drivers, NEW rc, NEW next \in DriverStates, NEW ok \in BOOLEAN,
               events # <<>>, MayGoOn(d, rc, next, ok), GoOn(d, next, ok),
               pc = "idle", UNCHANGED <<late, objects, timers, bt, pc, fault>>,
               spi' \in {"idle", "transfer", "complete", "timer"}
        PROVE  TypeInv'
    <2>1. /\ request' \in [Drivers -> Events \cup {NoRequest}]
          /\ \A c \in Drivers : request'[c] \in RequestsOf(c)
          /\ steps' \in [Drivers -> Nat] /\ \A c \in Drivers : steps'[c] <= MaxSteps(c)
          /\ timer' \in [Timers -> Nat \cup {Off}]
          /\ events' \in Seq(Events)
          /\ report' \in {"none", "success", "failure"}
      BY <1>4, GoOnType
    <2> QED
      BY <1>1, <1>2, <1>4, <2>1 DEF TypeInv, TypeOK
  <1>5. ASSUME NEW d \in Drivers, HandleDriverTimer(d)
        PROVE  TypeInv'
    <2>1. PICK next \in {"idle", "operation"} :
            /\ Handling(<<"driver", d>>)
            /\ MayGoOn(d, "OK", next, TRUE) /\ GoOn(d, next, TRUE)
            /\ IF d \in Sensors THEN DriverTimerExpiredCb(d, next) /\ UNCHANGED spi
               ELSE SpiGoesOn(next) /\ UNCHANGED busVars
      BY <1>5 DEF HandleDriverTimer
    <2>2. next \in DriverStates /\ events # <<>> /\ pc = "idle"
      BY <2>1 DEF DriverStates, Handling
    <2>3. spi' \in {"idle", "transfer", "complete", "timer"}
      BY <1>1, <2>1 DEF TypeOK, SpiGoesOn
    <2> QED
      BY <1>4, <1>5, <2>1, <2>2, <2>3 DEF HandleDriverTimer
  <1>6. CASE HandleI2cEvent
    <2>1. PICK event \in TwimEvents, next \in DriverStates, ok \in BOOLEAN :
            /\ MayGoOn(queue.cb_data.sensor,
                       DriverResultCode(queue.cb_data.sensor, I2cResultCode(event)), next, ok)
            /\ GoOn(queue.cb_data.sensor, next, ok)
            /\ HandleI2cTransComplete(next)
      BY <1>6 DEF HandleI2cEvent
    <2>2. queue.cb_data.sensor \in Drivers
      BY <1>1, <2>1 DEF HandleI2cTransComplete, BusInv, InOrder, Ops, Drivers
    <2> QED
      BY <1>1, <1>4, <1>6, <2>1, <2>2 DEF HandleI2cEvent, Handling, TypeOK
  <1>7. CASE HandleSpiEvent
    <2>1. PICK rc \in {"OK", "ERR"}, next \in DriverStates, ok \in BOOLEAN :
            MayGoOn("bmp280", rc, next, ok) /\ GoOn("bmp280", next, ok) /\ SpiGoesOn(next)
      BY <1>7 DEF HandleSpiEvent
    <2>2. spi' \in {"idle", "transfer", "complete", "timer"} /\ "bmp280" \in Drivers
      BY <2>1, DriverFacts DEF SpiGoesOn, DriverStates
    <2> QED
      BY <1>4, <1>7, <2>1, <2>2 DEF HandleSpiEvent, Handling
  <1> QED
    BY <1>3, <1>5, <1>6, <1>7

\* Interrupts, the clock and the Bluetooth thread keep the types.
LEMMA OthersType ==
  ASSUME TypeInv, BusInv',
         \/ TwimIsr \/ SpiIsr \/ (\E t \in Timers : TimerIsr(t)) \/ Tick
         \/ InitPart11Complete \/ OnConnected \/ OnDisconnected \/ RecycledCb \/ Receive
  PROVE  TypeInv'
  <1>1. /\ TypeOK /\ BusInv /\ (\A d \in Drivers : request[d] \in RequestsOf(d))
        /\ events \in Seq(Events) /\ timer \in [Timers -> Nat \cup {Off}]
    BY DEF TypeInv, TypeOK
  <1>2. BusTypeOK'
    BY DEF BusInv
  <1>3. \A e \in Events : Append(events, e) \in Seq(Events) /\ Append(events, e) # <<>>
    BY <1>1
  <1>4. CASE TwimIsr \/ SpiIsr
    <2>1. I2cEvent \in Events /\ SpiEvent \in Events
      BY DEF Events
    <2>2. events' \in Seq(Events) /\ events' # <<>>
      BY <1>3, <1>4, <2>1 DEF TwimIsr, SpiIsr
    <2> QED
      BY <1>1, <1>2, <1>4, <2>2 DEF TypeInv, TypeOK, TwimIsr, SpiIsr
  <1>5. ASSUME NEW t \in Timers, TimerIsr(t)
        PROVE  TypeInv'
    <2>1. events' \in Seq(Events) /\ events' # <<>>
      BY <1>3, <1>5, DriverFacts DEF TimerIsr
    <2>2. t[1] = "readout" => Period(t[2]) \in Nat
      BY DriverFacts DEF Timers, HwTimer
    <2>3. timer' \in [Timers -> Nat \cup {Off}]
      BY <1>1, <1>5, <2>2 DEF TimerIsr
    <2> QED
      BY <1>1, <1>2, <1>5, <2>1, <2>3 DEF TypeInv, TypeOK, TimerIsr, driverVars
  <1>6. CASE Tick
    <2>1. \A t \in Timers : timer'[t] \in Nat \cup {Off}
      BY <1>1, <1>6 DEF Tick
    <2>2. timer' \in [Timers -> Nat \cup {Off}]
      BY <1>6, <2>1 DEF Tick
    <2>3. late' \in 0..MaxLate
      BY <1>1, <1>6, DriverFacts DEF Tick, TypeOK
    <2> QED
      BY <1>1, <1>2, <1>6, <2>2, <2>3 DEF TypeInv, TypeOK, Tick, driverVars
  <1>7. CASE InitPart11Complete
    <2>1. Part(12) \in Events
      BY DEF Events
    <2>2. /\ events' \in Seq(Events) /\ (events # <<>> => events' # <<>>)
          /\ bt' \in BtStates /\ report' \in {"none", "success", "failure"}
      BY <1>1, <1>3, <1>7, <2>1 DEF InitPart11Complete, Report, BtStates, TypeOK
    <2> QED
      BY <1>1, <1>2, <1>7, <2>2 DEF TypeInv, TypeOK, InitPart11Complete, driverVars
  <1>8. CASE OnConnected \/ OnDisconnected
    BY <1>1, <1>2, <1>8 DEF TypeInv, TypeOK, OnConnected, OnDisconnected, BtStates, driverVars
  <1>9. CASE RecycledCb
    <2>1. AdvertisingEvent \in Events
      BY DEF Events
    <2>2. events' \in Seq(Events) /\ events' # <<>> /\ bt' \in BtStates
      BY <1>3, <1>9, <2>1 DEF RecycledCb, BtStates
    <2> QED
      BY <1>1, <1>2, <1>9, <2>2 DEF TypeInv, TypeOK, RecycledCb, driverVars
  <1>10. CASE Receive
    <2>1. fault' \in BOOLEAN
      BY <1>10, Zenon DEF Receive
    <2> QED
      BY <1>1, <1>2, <1>10, <2>1 DEF TypeInv, TypeOK, Receive, driverVars
  <1> QED
    BY <1>4, <1>5, <1>6, <1>7, <1>8, <1>9, <1>10

\* Every step of the platform keeps the types.
LEMMA TypeStep == TypeInv /\ [Next]_vars => TypeInv'
  <1> SUFFICES ASSUME TypeInv, [Next]_vars PROVE TypeInv'
    OBVIOUS
  <1>1. BusInv'
    BY NextIsBusStep, BusStepInv DEF TypeInv
  <1>2. CASE InitChain
    BY <1>1, <1>2, InitChainType
  <1>3. CASE HandleInitPart2Event
    BY <1>1, <1>3, SetUpType
  <1>4. CASE \/ \E d \in Drivers : ReadoutTimerCb(d) \/ HandleDriverTimer(d)
             \/ HandleI2cEvent \/ HandleSpiEvent
    BY <1>1, <1>4, DriversType
  <1>5. CASE HandleSample \/ StartAdvertising
    <2>1. events' \in Seq(Events)
      BY <1>5, SubmitNothingType DEF TypeInv, TypeOK, HandleSample, StartAdvertising, Handling
    <2>2. bt' \in BtStates /\ pc' = "idle"
      BY <1>5 DEF TypeInv, TypeOK, HandleSample, StartAdvertising, Handling, BtStates
    <2>3. BusTypeOK'
      BY <1>1 DEF BusInv
    <2> QED
      BY <1>1, <1>5, <2>1, <2>2, <2>3 DEF TypeInv, TypeOK, HandleSample, StartAdvertising, driverVars
  <1>6. CASE \/ TwimIsr \/ SpiIsr \/ (\E t \in Timers : TimerIsr(t)) \/ Tick
             \/ InitPart11Complete \/ OnConnected \/ OnDisconnected \/ RecycledCb \/ Receive
    BY <1>1, <1>6, OthersType
  <1>7. CASE UNCHANGED vars
    <2>1. BusTypeOK'
      BY <1>1 DEF BusInv
    <2> QED
      BY <1>1, <1>7, <2>1 DEF TypeInv, TypeOK, vars
  <1> QED
    BY <1>2, <1>3, <1>4, <1>5, <1>6, <1>7, DriverFacts
    DEF Next, EventThread, Sht31ReadoutTimerCb, Bh1750ReadoutTimerCb, Bmp280ReadoutTimerCb

LEMMA TypeInit == Init => TypeInv
  <1> SUFFICES ASSUME Init PROVE TypeInv
    OBVIOUS
  <1>1. BusInv /\ BusTypeOK
    BY BusInitInv DEF Init, BusInv
  <1>2. events \in Seq(Events)
    BY DEF Init, Events
  <1>3. timer \in [Timers -> Nat \cup {Off}]
    BY DEF Init
  <1>4. \A d \in Drivers : request[d] \in RequestsOf(d)
    BY DEF Init, RequestsOf
  <1>5. steps \in [Drivers -> Nat] /\ \A d \in Drivers : steps[d] <= MaxSteps(d)
    BY DriverFacts DEF Init
  <1>6. request \in [Drivers -> Events \cup {NoRequest}] /\ late \in 0..MaxLate
    BY DriverFacts DEF Init
  <1> QED
    BY <1>1, <1>2, <1>3, <1>4, <1>5, <1>6 DEF Init, TypeInv, TypeOK, BtStates

\* The types of the platform's state: a driver's request never takes more steps
\* than its driver may need, and every event in the queue is one that a handler
\* exists for.
THEOREM PlatformTypeOK == Spec => []TypeOK
  <1>1. TypeInv => TypeOK
    BY DEF TypeInv
  <1> QED
    BY <1>1, TypeInit, TypeStep, PTL DEF Spec

-----------------------------------------------------------------------------
(* The initialisation is one chain: the inductive invariant                 *)

\* The events that are part of the initialisation of the platform, and with
\* INIT_PART_2 those of which there is at most one in the queue.
IsChain(e) == e \in {InitEvent, HwTimer} \/ e[1] = "part"
Marked(e) == IsChain(e) \/ e = InitPart2Event

MarksOf(q) == {q[i] : i \in {j \in DOMAIN q : Marked(q[j])}}
OneMark(q) == \A i, j \in DOMAIN q : Marked(q[i]) /\ Marked(q[j]) => i = j
NoReadout(q) == \A i \in DOMAIN q : q[i][1] # "readout"

\* The activities that carry the initialisation.
ChainQueued == \E e \in MarksOf(events) : IsChain(e)
PartRequested(d) == request[d][1] = "part"
TimerRuns == timer[HwTimer] # Off
Enabling == bt = "enabling"

\* At most one of them is going on, and one is until the report.
OneActivity ==
  /\ \A c, d \in Drivers : PartRequested(c) /\ PartRequested(d) => c = d
  /\ ChainQueued => ~TimerRuns /\ ~Enabling /\ \A d \in Drivers : ~PartRequested(d)
  /\ \A d \in Drivers : PartRequested(d) => ~TimerRuns /\ ~Enabling
  /\ TimerRuns => ~Enabling
  /\ report = "none" <=>
       (ChainQueued \/ TimerRuns \/ Enabling \/ \E d \in Drivers : PartRequested(d))

\* The drivers that exist when part n is about to run.
Created(n) == {d \in Drivers : \E k \in PartsOf(d) : k < n}

\* Each part finds the drivers that the parts before it have created, and no
\* others.
Stage ==
  /\ \A n \in 1..11 : Part(n) \in MarksOf(events) => objects \cap Drivers = Created(n)
  /\ InitEvent \in MarksOf(events) \/ HwTimer \in MarksOf(events) \/ TimerRuns =>
       objects \cap Drivers = {}
  /\ \A d \in Drivers, n \in 1..12 :
       request[d] = Part(n) => objects \cap Drivers = Created(n + 1)

\* Nothing of what follows the initialisation has begun.
Early ==
  /\ pc = "idle" /\ InitPart2Event \notin MarksOf(events) /\ NoReadout(events)
  /\ \A d \in Drivers : timer[<<"readout", d>>] = Off /\ request[d] # <<"readout", d>>

\* What INIT_PART_2 adds to the objects, and what of it exists at each of its steps.
SetUpObjects == {"readouts", "conditions", "raisers", "receive_cb", "add_alert_cb",
                 "remove_alert_cb"}

SetUpBefore(p) ==
  CASE p = "idle"            -> {}
    [] p = "conditions"      -> {"readouts"}
    [] p = "raisers"         -> {"readouts", "conditions"}
    [] p = "transceiver"     -> {"readouts", "conditions", "raisers"}
    [] p = "add_alert_cb"    -> {"readouts", "conditions", "raisers", "receive_cb"}
    [] p = "remove_alert_cb" -> SetUpObjects \ {"remove_alert_cb"}

\* INIT_PART_2 is submitted once, after a success, and each step of its handler finds
\* what those before it have set up.
SetUp ==
  /\ report = "success" => Interfaces \subseteq objects
  /\ pc # "idle" => Head(events) = InitPart2Event
  /\ InitPart2Event \in MarksOf(events) =>
       report = "success" /\ objects \cap SetUpObjects = SetUpBefore(pc)
  /\ InitPart2Event \notin MarksOf(events) =>
       objects \cap SetUpObjects = IF report = "success" THEN SetUpObjects ELSE {}

\* The instances of EasTimer that exist.
TimersCreated ==
  timers = IF InitEvent \in MarksOf(events) THEN 1
           ELSE IF report # "success" THEN 5
           ELSE IF "raisers" \in objects THEN MaxTimers ELSE 8

HwInv ==
  /\ TypeInv
  /\ OneMark(events)
  /\ OneActivity /\ Stage /\ SetUp /\ TimersCreated
  /\ report = "none" => Early

-----------------------------------------------------------------------------
(* The central event queue                                                  *)

\* Which events are marked.
LEMMA MarkFacts ==
  /\ \A n : Marked(Part(n)) /\ IsChain(Part(n)) /\ Part(n)[1] = "part"
  /\ \A e \in {InitEvent, HwTimer} : Marked(e) /\ IsChain(e) /\ e[1] # "readout" /\ e[1] # "part"
  /\ Marked(InitPart2Event) /\ ~IsChain(InitPart2Event) /\ InitPart2Event[1] # "readout"
  /\ \A e \in {I2cEvent, SpiEvent, AdvertisingEvent} \cup Samples : ~Marked(e) /\ e[1] # "readout"
  /\ \A d \in Drivers : /\ ~Marked(<<"readout", d>>)
                        /\ ~Marked(<<"driver", d>>) /\ <<"driver", d>>[1] # "readout"
  /\ InitEvent # HwTimer
  <1>1. /\ InitEvent[1] = "init" /\ HwTimer[1] = "platform" /\ InitPart2Event[1] = "init"
        /\ InitEvent[2] = "part 1" /\ InitPart2Event[2] = "part 2"
    BY DEF InitEvent, HwTimer, InitPart2Event
  <1>2. \A n : Marked(Part(n)) /\ IsChain(Part(n)) /\ Part(n)[1] = "part"
    BY DEF Marked, IsChain, Part
  <1>3. \A e \in {InitEvent, HwTimer} : Marked(e) /\ IsChain(e) /\ e[1] # "readout" /\ e[1] # "part"
    BY <1>1 DEF Marked, IsChain
  <1>4. Marked(InitPart2Event) /\ ~IsChain(InitPart2Event) /\ InitEvent # HwTimer
    BY <1>1 DEF Marked, IsChain
  <1>5. \A e : e[1] \notin {"init", "platform", "part"} => ~Marked(e)
    BY <1>1 DEF Marked, IsChain
  <1>6. \A e \in {I2cEvent, SpiEvent, AdvertisingEvent} \cup Samples :
          e[1] \in {"i2c", "spi", "start", "sample"}
    BY DEF I2cEvent, SpiEvent, AdvertisingEvent, Samples, Sample
  <1>7. \A d : <<"readout", d>>[1] = "readout" /\ <<"driver", d>>[1] = "driver"
    OBVIOUS
  <1> QED
    BY <1>1, <1>2, <1>3, <1>4, <1>5, <1>6, <1>7

\* The queue without its first event.
LEMMA MarkTail ==
  ASSUME NEW q \in Seq(Events), q # <<>>, OneMark(q)
  PROVE  /\ Tail(q) \in Seq(Events) /\ OneMark(Tail(q))
         /\ ~Marked(Head(q)) => MarksOf(Tail(q)) = MarksOf(q)
         /\ Marked(Head(q)) => MarksOf(Tail(q)) = {} /\ MarksOf(q) = {Head(q)}
         /\ NoReadout(q) => NoReadout(Tail(q))
  <1>1. /\ Tail(q) \in Seq(Events) /\ Len(q) \in Nat \ {0} /\ Head(q) = q[1]
        /\ DOMAIN q = 1..Len(q) /\ DOMAIN Tail(q) = 1..(Len(q) - 1)
        /\ \A i \in DOMAIN Tail(q) : Tail(q)[i] = q[i + 1] /\ i + 1 \in DOMAIN q
        /\ 1 \in DOMAIN q /\ \A i \in DOMAIN q : i # 1 => i - 1 \in DOMAIN Tail(q)
    OBVIOUS
  <1>2. OneMark(Tail(q))
    BY <1>1 DEF OneMark
  <1>3. NoReadout(q) => NoReadout(Tail(q))
    BY <1>1 DEF NoReadout
  <1>4. ASSUME ~Marked(Head(q))
        PROVE  MarksOf(Tail(q)) = MarksOf(q)
    <2>1. \A i \in DOMAIN q : Marked(q[i]) => i - 1 \in DOMAIN Tail(q) /\ Tail(q)[i - 1] = q[i]
      BY <1>1, <1>4
    <2> QED
      BY <1>1, <2>1 DEF MarksOf
  <1>5. ASSUME Marked(Head(q))
        PROVE  MarksOf(Tail(q)) = {} /\ MarksOf(q) = {Head(q)}
    <2>1. \A i \in DOMAIN q : Marked(q[i]) => i = 1
      BY <1>1, <1>5 DEF OneMark
    <2>2. \A i \in DOMAIN Tail(q) : ~Marked(Tail(q)[i])
      BY <1>1, <2>1
    <2> QED
      BY <1>1, <1>5, <2>1, <2>2 DEF MarksOf
  <1> QED
    BY <1>1, <1>2, <1>3, <1>4, <1>5

\* Two queues, one behind the other.
LEMMA MarkConcat ==
  ASSUME NEW q \in Seq(Events), NEW r \in Seq(Events), OneMark(q), OneMark(r),
         MarksOf(q) = {} \/ MarksOf(r) = {}
  PROVE  /\ q \o r \in Seq(Events) /\ OneMark(q \o r)
         /\ MarksOf(q \o r) = MarksOf(q) \cup MarksOf(r)
         /\ NoReadout(q) /\ NoReadout(r) => NoReadout(q \o r)
         /\ q # <<>> => Head(q \o r) = Head(q) /\ q \o r # <<>>
  <1> DEFINE s == q \o r
  <1>1. /\ s \in Seq(Events) /\ Len(q) \in Nat /\ Len(r) \in Nat
        /\ DOMAIN q = 1..Len(q) /\ DOMAIN r = 1..Len(r) /\ DOMAIN s = 1..(Len(q) + Len(r))
        /\ \A i \in DOMAIN q : i \in DOMAIN s /\ s[i] = q[i]
        /\ \A i \in DOMAIN r : Len(q) + i \in DOMAIN s /\ s[Len(q) + i] = r[i]
        /\ \A i \in DOMAIN s : i \notin DOMAIN q => i - Len(q) \in DOMAIN r /\ s[i] = r[i - Len(q)]
    OBVIOUS
  <1>2. q # <<>> => Head(s) = Head(q) /\ s # <<>>
    BY <1>1
  <1> HIDE DEF s
  <1>3. (\A i \in DOMAIN q : ~Marked(q[i])) \/ (\A i \in DOMAIN r : ~Marked(r[i]))
    BY DEF MarksOf
  <1>4. OneMark(s)
    <2> SUFFICES ASSUME NEW i \in DOMAIN s, NEW j \in DOMAIN s, Marked(s[i]), Marked(s[j])
                 PROVE  i = j
      BY DEF OneMark
    <2>1. CASE i \in DOMAIN q
      <3>1. j \in DOMAIN q
        BY <1>1, <1>3, <2>1
      <3> QED
        BY <1>1, <2>1, <3>1 DEF OneMark
    <2>2. CASE i \notin DOMAIN q
      <3>1. j \notin DOMAIN q
        BY <1>1, <1>3, <2>2
      <3>2. i - Len(q) = j - Len(q)
        BY <1>1, <2>2, <3>1 DEF OneMark
      <3> QED
        BY <1>1, <3>2
    <2> QED
      BY <2>1, <2>2
  <1>5. MarksOf(s) = MarksOf(q) \cup MarksOf(r)
    <2>1. MarksOf(q) \subseteq MarksOf(s) /\ MarksOf(r) \subseteq MarksOf(s)
      BY <1>1 DEF MarksOf
    <2>2. MarksOf(s) \subseteq MarksOf(q) \cup MarksOf(r)
      BY <1>1 DEF MarksOf
    <2> QED
      BY <2>1, <2>2
  <1>6. NoReadout(q) /\ NoReadout(r) => NoReadout(s)
    BY <1>1 DEF NoReadout
  <1> QED
    BY <1>1, <1>2, <1>4, <1>5, <1>6 DEF s

\* What the handlers submit: nothing, or one event, or two without a mark.
LEMMA MarkNew ==
  /\ OneMark(<<>>) /\ MarksOf(<<>>) = {} /\ NoReadout(<<>>)
  /\ \A e : OneMark(<<e>>)
  /\ \A e : MarksOf(<<e>>) = IF Marked(e) THEN {e} ELSE {}
  /\ \A e : e[1] # "readout" => NoReadout(<<e>>)
  /\ \A e, f : ~Marked(e) => OneMark(<<e, f>>)
  /\ \A e, f : ~Marked(e) => MarksOf(<<e, f>>) = IF Marked(f) THEN {f} ELSE {}
  /\ \A e, f : e[1] # "readout" /\ f[1] # "readout" => NoReadout(<<e, f>>)
  BY DEF OneMark, MarksOf, NoReadout

-----------------------------------------------------------------------------
(* Steps that leave the initialisation where it is                          *)

\* The queue keeps its mark, and no readout is submitted early.
QueueKept ==
  /\ OneMark(events') /\ MarksOf(events') = MarksOf(events)
  /\ NoReadout(events) => NoReadout(events')

\* A step that neither continues the initialisation nor sets anything up.
PlainStep ==
  /\ OneMark(events') /\ MarksOf(events') = MarksOf(events)
  /\ pc # "idle" => Head(events') = Head(events)
  /\ UNCHANGED <<report, objects, timers, pc>>
  /\ TimerRuns' <=> TimerRuns
  /\ Enabling' <=> Enabling
  /\ \A d \in Drivers : request'[d] = request[d] \/ ~(PartRequested(d) \/ PartRequested(d)')
  /\ Early => /\ NoReadout(events')
              /\ \A d \in Drivers : /\ timer'[<<"readout", d>>] = Off
                                    /\ request'[d] # <<"readout", d>>

LEMMA PlainStepKeeps ==
  ASSUME HwInv, PlainStep, TypeInv'
  PROVE  HwInv'
  <1>1. MarksOf(events') = MarksOf(events) /\ OneMark(events') /\ UNCHANGED <<report, objects, timers, pc>>
    BY DEF PlainStep
  <1>2. \A d \in Drivers : PartRequested(d)' <=> PartRequested(d)
    BY DEF PlainStep, PartRequested
  <1>3. ChainQueued' <=> ChainQueued
    BY <1>1 DEF ChainQueued
  <1>4. OneActivity'
    BY <1>1, <1>2, <1>3 DEF HwInv, OneActivity, PlainStep
  <1>5. Stage'
    <2>1. \A n \in 1..11 : Part(n) \in MarksOf(events') => objects' \cap Drivers = Created(n)
      BY <1>1 DEF HwInv, Stage
    <2>2. InitEvent \in MarksOf(events') \/ HwTimer \in MarksOf(events') \/ TimerRuns' =>
            objects' \cap Drivers = {}
      BY <1>1 DEF HwInv, Stage, PlainStep
    <2>3. ASSUME NEW d \in Drivers, NEW n \in 1..12, request'[d] = Part(n)
          PROVE  objects' \cap Drivers = Created(n + 1)
      <3>1. PartRequested(d)'
        BY <2>3, MarkFacts DEF PartRequested
      <3>2. request[d] = Part(n)
        BY <2>3, <3>1 DEF PlainStep
      <3> QED
        BY <1>1, <3>2 DEF HwInv, Stage
    <2> QED
      BY <2>1, <2>2, <2>3 DEF Stage
  <1>6. SetUp'
    BY <1>1 DEF HwInv, SetUp, PlainStep
  <1>7. TimersCreated'
    BY <1>1 DEF HwInv, TimersCreated
  <1>8. report' = "none" => Early'
    BY <1>1 DEF HwInv, Early, PlainStep
  <1> QED
    BY <1>1, <1>4, <1>5, <1>6, <1>7, <1>8 DEF HwInv

\* Events without a mark that are not readouts.
Plain == {e \in Events : ~Marked(e) /\ e[1] # "readout"}

\* The handler of an event without a mark submits nothing, or such events.
LEMMA PlainSubmit ==
  ASSUME HwInv, events # <<>>, ~Marked(Head(events)),
         NEW new \in Seq(Plain), Submit(new)
  PROVE  QueueKept
  <1>1. events \in Seq(Events) /\ OneMark(events)
    BY DEF HwInv, TypeInv, TypeOK
  <1>2. /\ Tail(events) \in Seq(Events) /\ OneMark(Tail(events))
        /\ MarksOf(Tail(events)) = MarksOf(events)
        /\ NoReadout(events) => NoReadout(Tail(events))
    BY <1>1, MarkTail
  <1>3. new \in Seq(Events) /\ OneMark(new) /\ MarksOf(new) = {} /\ NoReadout(new)
    <2>1. new \in Seq(Events)
      BY DEF Plain
    <2>2. \A i \in DOMAIN new : ~Marked(new[i]) /\ new[i][1] # "readout"
      BY DEF Plain
    <2> QED
      BY <2>1, <2>2 DEF OneMark, MarksOf, NoReadout
  <1>4. events' = Tail(events) \o new
    BY DEF Submit
  <1> DEFINE q == Tail(events)
  <1> HIDE DEF q
  <1>5. /\ OneMark(q \o new) /\ MarksOf(q \o new) = MarksOf(q) \cup MarksOf(new)
        /\ NoReadout(q) /\ NoReadout(new) => NoReadout(q \o new)
    BY <1>2, <1>3, MarkConcat DEF q
  <1> QED
    BY <1>2, <1>3, <1>4, <1>5 DEF QueueKept, q

\* An interrupt submits an event without a mark.
LEMMA PlainAppend ==
  ASSUME HwInv, NEW e \in Events, ~Marked(e), events' = Append(events, e)
  PROVE  /\ OneMark(events') /\ MarksOf(events') = MarksOf(events)
         /\ NoReadout(events) /\ e[1] # "readout" => NoReadout(events')
         /\ pc # "idle" => Head(events') = Head(events)
  <1>1. events \in Seq(Events) /\ OneMark(events) /\ (pc # "idle" => events # <<>>)
    BY DEF HwInv, TypeInv, TypeOK
  <1>2. events' = events \o <<e>> /\ <<e>> \in Seq(Events)
    BY <1>1
  <1>3. OneMark(<<e>>) /\ MarksOf(<<e>>) = {} /\ (e[1] # "readout" => NoReadout(<<e>>))
    BY MarkNew
  <1> DEFINE r == <<e>>
  <1> HIDE DEF r
  <1>4. /\ OneMark(events \o r) /\ MarksOf(events \o r) = MarksOf(events) \cup MarksOf(r)
        /\ NoReadout(events) /\ NoReadout(r) => NoReadout(events \o r)
        /\ events # <<>> => Head(events \o r) = Head(events)
    BY <1>1, <1>2, <1>3, MarkConcat DEF r
  <1> QED
    BY <1>1, <1>2, <1>3, <1>4 DEF r

\* The handler of an event without a mark.
LEMMA HandlesPlain ==
  ASSUME HwInv, NEW e, Handling(e), ~Marked(e)
  PROVE  events # <<>> /\ ~Marked(Head(events)) /\ pc = "idle"
  BY DEF Handling

\* The samples of a readout.
LEMMA SamplesArePlain ==
  ASSUME NEW ok \in BOOLEAN,
         NEW new \in Sht31Samples(ok) \cup Bh1750Samples(ok) \cup Bmp280Samples(ok)
  PROVE  new \in Seq(Plain)
  <1>1. \A v \in {"temperature", "humidity", "pressure", "light_intensity"} : Sample(v) \in Plain
    BY MarkFacts, DriverFacts DEF Samples, Plain
  <1> HIDE DEF Sample
  <1>2. /\ <<>> \in Seq(Plain)
        /\ <<Sample("temperature"), Sample("humidity")>> \in Seq(Plain)
        /\ <<Sample("light_intensity")>> \in Seq(Plain)
        /\ <<Sample("pressure")>> \in Seq(Plain)
    BY <1>1
  <1>3. \/ new = <<>> \/ new = <<Sample("temperature"), Sample("humidity")>>
        \/ new = <<Sample("light_intensity")>> \/ new = <<Sample("pressure")>>
    BY Zenon DEF Sht31Samples, Bh1750Samples, Bmp280Samples
  <1> QED
    BY <1>2, <1>3

\* A driver that goes on, or ends a readout.
LEMMA GoOnPlain ==
  ASSUME HwInv, events # <<>>, ~Marked(Head(events)), pc = "idle", NEW d \in Drivers,
         NEW next \in DriverStates, NEW ok \in BOOLEAN, GoOn(d, next, ok),
         next = "idle" => ~PartRequested(d), UNCHANGED <<objects, timers, bt, pc>>
  PROVE  PlainStep
  <1>1. /\ timer \in [Timers -> Nat \cup {Off}]
        /\ request \in [Drivers -> Events \cup {NoRequest}] /\ <<>> \in Seq(Plain)
        /\ \A c \in Drivers : <<"readout", c>> # <<"driver", d>>
        /\ HwTimer # <<"driver", d>>
    BY DEF HwInv, TypeInv, TypeOK, HwTimer
  <1>2. CASE next = "idle"
    <2>1. /\ request' = [request EXCEPT ![d] = NoRequest] /\ timer' = timer
          /\ ReadoutComplete(d, ok)
      BY <1>2 DEF GoOn, PartRequested
    <2>2. PICK new \in Sht31Samples(ok) \cup Bh1750Samples(ok) \cup Bmp280Samples(ok) :
            Submit(new) /\ report' = report
      BY <2>1 DEF ReadoutComplete
    <2>3. QueueKept
      BY <2>2, SamplesArePlain, PlainSubmit
    <2>4. \A c \in Drivers : request'[c] = request[c] \/ ~(PartRequested(c) \/ PartRequested(c)')
      BY <1>1, <1>2, <2>1, PartFacts DEF PartRequested
    <2>5. \A c \in Drivers : request'[c] \in {request[c], NoRequest}
      BY <1>1, <2>1
    <2>6. \A c : NoRequest # <<"readout", c>>
      BY DEF NoRequest
    <2> QED
      BY <2>1, <2>2, <2>3, <2>4, <2>5, <2>6 DEF PlainStep, QueueKept, Early, TimerRuns, Enabling
  <1>3. CASE next # "idle"
    <2>1. Submit(<<>>) /\ UNCHANGED <<request, report>>
      BY <1>3 DEF GoOn
    <2>2. PICK delay \in 1..MaxDelay(d) :
            timer' = IF next = "timer" THEN [timer EXCEPT ![<<"driver", d>>] = delay] ELSE timer
      BY <1>3 DEF GoOn
    <2>3. QueueKept
      BY <1>1, <2>1, PlainSubmit
    <2>4. timer'[HwTimer] = timer[HwTimer]
          /\ \A c \in Drivers : timer'[<<"readout", c>>] = timer[<<"readout", c>>]
      BY <1>1, <2>2, DriverFacts
    <2> QED
      BY <2>1, <2>3, <2>4 DEF PlainStep, QueueKept, Early, TimerRuns, Enabling
  <1> QED
    BY <1>2, <1>3

\* A readout is requested after the initialisation.
LEMMA ReadoutIsPlain ==
  ASSUME HwInv, NEW d \in Drivers, ReadoutTimerCb(d)
  PROVE  PlainStep
  <1>1. /\ events # <<>> /\ Head(events) = <<"readout", d>> /\ pc = "idle" /\ Submit(<<>>)
        /\ Request(d, <<"readout", d>>, TRUE)
        /\ UNCHANGED <<timer, late, report, objects, timers, bt, pc>>
    BY DEF ReadoutTimerCb, Handling
  <1>2. QueueKept
    <2>1. <<>> \in Seq(Plain)
      OBVIOUS
    <2> QED
      BY <1>1, <2>1, MarkFacts, PlainSubmit
  <1>3. ~Early
    BY <1>1 DEF HwInv, TypeInv, TypeOK, Early, NoReadout
  <1>4. \A c \in Drivers : request'[c] = request[c] \/ ~(PartRequested(c) \/ PartRequested(c)')
    <2>1. request \in [Drivers -> Events \cup {NoRequest}]
      BY DEF HwInv, TypeInv, TypeOK
    <2>2. CASE request[d] = NoRequest
      <3>1. request' = [request EXCEPT ![d] = <<"readout", d>>]
        BY <1>1, <2>2 DEF Request
      <3> QED
        BY <2>1, <2>2, <3>1, PartFacts DEF PartRequested
    <2>3. CASE request[d] # NoRequest
      BY <1>1, <2>3 DEF Request, driverVars
    <2> QED
      BY <2>2, <2>3
  <1> QED
    BY <1>1, <1>2, <1>3, <1>4 DEF PlainStep, QueueKept, TimerRuns, Enabling

\* The other handlers that submit nothing.
LEMMA HandlerIsPlain ==
  ASSUME HwInv, HandleSample \/ StartAdvertising
  PROVE  PlainStep
  <1>1. events # <<>> /\ ~Marked(Head(events)) /\ pc = "idle" /\ Submit(<<>>)
    BY MarkFacts DEF HandleSample, StartAdvertising, Handling
  <1>2. <<>> \in Seq(Plain)
    OBVIOUS
  <1>3. QueueKept
    BY <1>1, <1>2, PlainSubmit
  <1>4. Enabling' <=> Enabling
    BY DEF HandleSample, StartAdvertising, Enabling
  <1> QED
    BY <1>1, <1>3, <1>4
    DEF PlainStep, QueueKept, HandleSample, StartAdvertising, driverVars, TimerRuns,
        PartRequested, Early

\* Interrupts other than that of the timer at the start.
LEMMA InterruptIsPlain ==
  ASSUME HwInv, TwimIsr \/ SpiIsr \/ RecycledCb \/ \E t \in Timers \ {HwTimer} : TimerIsr(t)
  PROVE  PlainStep
  <1>1. I2cEvent \in Events /\ SpiEvent \in Events /\ AdvertisingEvent \in Events
    BY DEF Events
  <1>2. CASE TwimIsr \/ SpiIsr
    <2>1. /\ OneMark(events') /\ MarksOf(events') = MarksOf(events)
          /\ NoReadout(events) => NoReadout(events')
          /\ pc # "idle" => Head(events') = Head(events)
      BY <1>1, <1>2, MarkFacts, PlainAppend DEF TwimIsr, SpiIsr
    <2> QED
      BY <1>2, <2>1 DEF PlainStep, TwimIsr, SpiIsr, TimerRuns, Enabling, PartRequested, Early
  <1>3. CASE RecycledCb
    <2>1. /\ OneMark(events') /\ MarksOf(events') = MarksOf(events)
          /\ NoReadout(events) => NoReadout(events')
          /\ pc # "idle" => Head(events') = Head(events)
      BY <1>1, <1>3, MarkFacts, PlainAppend DEF RecycledCb
    <2> QED
      BY <1>3, <2>1 DEF PlainStep, RecycledCb, TimerRuns, Enabling, PartRequested, Early, driverVars
  <1>4. ASSUME NEW t \in Timers \ {HwTimer}, TimerIsr(t)
        PROVE  PlainStep
    <2>1. PICK k \in {"driver", "readout"}, d \in Drivers : t = <<k, d>>
      BY DEF Timers
    <2>2. ~Marked(t) /\ t \in Events /\ (k = "driver" => t[1] # "readout")
      BY <2>1, MarkFacts, DriverFacts
    <2>3. /\ OneMark(events') /\ MarksOf(events') = MarksOf(events)
          /\ NoReadout(events) /\ t[1] # "readout" => NoReadout(events')
          /\ pc # "idle" => Head(events') = Head(events)
      BY <1>4, <2>2, PlainAppend DEF TimerIsr
    <2>4. timer \in [Timers -> Nat \cup {Off}] /\ timer[t] = 0
      BY <1>4 DEF HwInv, TypeInv, TypeOK, TimerIsr
    <2>5. timer'[HwTimer] = timer[HwTimer]
      BY <1>4, <2>4, DriverFacts DEF TimerIsr
    <2>6. Early => k = "driver"
      BY <2>1, <2>4 DEF Early, Off
    <2>7. k = "driver" =>
            \A c \in Drivers : timer'[<<"readout", c>>] = timer[<<"readout", c>>]
      <3>1. k = "driver" => \A c \in Drivers : <<"readout", c>> # t
        BY <2>1
      <3> QED
        BY <1>4, <2>4, <3>1, DriverFacts DEF TimerIsr
    <2> QED
      BY <1>4, <2>1, <2>2, <2>3, <2>5, <2>6, <2>7
      DEF PlainStep, TimerIsr, TimerRuns, Enabling, PartRequested, Early, driverVars
  <1> QED
    BY <1>2, <1>3, <1>4

\* The clock and the Bluetooth connection.
LEMMA OtherIsPlain ==
  ASSUME HwInv, Tick \/ OnConnected \/ OnDisconnected \/ Receive \/ UNCHANGED vars
  PROVE  PlainStep
  <1>1. OneMark(events) /\ events' = events
    BY DEF HwInv, Tick, OnConnected, OnDisconnected, Receive, vars
  <1>2. CASE Tick
    <2>1. \A t \in Timers : (timer'[t] = Off) <=> (timer[t] = Off)
      BY <1>2 DEF HwInv, TypeInv, TypeOK, Tick, Off
    <2> QED
      BY <1>1, <1>2, <2>1, DriverFacts
      DEF PlainStep, Tick, TimerRuns, Enabling, PartRequested, Early, driverVars
  <1>3. CASE OnConnected \/ OnDisconnected \/ Receive \/ UNCHANGED vars
    BY <1>1, <1>3 DEF PlainStep, OnConnected, OnDisconnected, Receive, vars, TimerRuns, Enabling,
                      PartRequested, Early, driverVars
  <1> QED
    BY <1>2, <1>3

-----------------------------------------------------------------------------
(* Steps that continue the initialisation                                   *)

LEMMA CreatedFacts ==
  /\ Created(1) = {} /\ Created(2) = {"sht31"}
  /\ \A n \in {3, 4} : Created(n) = {"sht31", "bh1750"}
  /\ \A n \in 5..12 : Created(n) = Drivers
  <1>1. /\ PartsOf("sht31") = {1} /\ PartsOf("bh1750") = {2, 3} /\ PartsOf("bmp280") = 4..10
        /\ Drivers = {"sht31", "bh1750", "bmp280"}
    BY DriverFacts DEF PartsOf
  <1>2. \A n \in 1..12 : "sht31" \in Created(n) <=> n > 1
    BY <1>1 DEF Created
  <1>3. \A n \in 1..12 : "bh1750" \in Created(n) <=> n > 2
    BY <1>1 DEF Created
  <1>4. \A n \in 1..12 : "bmp280" \in Created(n) <=> n > 4
    <2>1. \A n \in 1..12 : n > 4 => "bmp280" \in Created(n)
      BY <1>1 DEF Created
    <2>2. \A n \in 1..12 : "bmp280" \in Created(n) => n > 4
      BY <1>1 DEF Created
    <2> QED
      BY <2>1, <2>2
  <1>5. \A n : Created(n) \subseteq Drivers
    BY DEF Created
  <1> QED
    BY <1>1, <1>2, <1>3, <1>4, <1>5

\* While a part of the initialisation is going on, nothing else is.
LEMMA ChainAlone ==
  ASSUME HwInv, report = "none"
  PROVE  /\ Early /\ pc = "idle" /\ \A e \in MarksOf(events) : IsChain(e)
         /\ \A d \in Drivers : ~PartRequested(d) => request[d] = NoRequest
         /\ objects \cap SetUpObjects = {}
         /\ timers = IF InitEvent \in MarksOf(events) THEN 1 ELSE 5
  <1>1. Early
    BY DEF HwInv
  <1>2. \A e \in MarksOf(events) : IsChain(e)
    BY <1>1 DEF Early, MarksOf, Marked
  <1>3. \A d \in Drivers : ~PartRequested(d) => request[d] = NoRequest
    BY <1>1, PartFacts DEF Early, HwInv, TypeInv, PartRequested, RequestsOf
  <1> QED
    BY <1>1, <1>2, <1>3 DEF Early, HwInv, SetUp, TimersCreated

\* The handler of an event of the initialisation: it was the one activity, and what
\* the handler submits is all that is left of the initialisation in the queue.
LEMMA ChainHandled ==
  ASSUME HwInv, NEW e, Handling(e), IsChain(e),
         NEW new \in Seq(Events), OneMark(new), NoReadout(new), Submit(new)
  PROVE  /\ MarksOf(events) = {e} /\ report = "none" /\ ~TimerRuns /\ ~Enabling
         /\ \A d \in Drivers : ~PartRequested(d) /\ request[d] = NoRequest
         /\ OneMark(events') /\ MarksOf(events') = MarksOf(new) /\ NoReadout(events')
  <1>1. events \in Seq(Events) /\ OneMark(events) /\ events # <<>> /\ Head(events) = e /\ Marked(e)
    BY DEF HwInv, TypeInv, TypeOK, Handling, Marked
  <1>2. /\ MarksOf(events) = {e} /\ Tail(events) \in Seq(Events) /\ OneMark(Tail(events))
        /\ MarksOf(Tail(events)) = {} /\ (NoReadout(events) => NoReadout(Tail(events)))
    BY <1>1, MarkTail
  <1>3. ChainQueued
    BY <1>2 DEF ChainQueued
  <1>4. report = "none" /\ ~TimerRuns /\ ~Enabling /\ \A d \in Drivers : ~PartRequested(d)
    BY <1>3 DEF HwInv, OneActivity
  <1>5. /\ \A d \in Drivers : request[d] = NoRequest
        /\ NoReadout(Tail(events))
    BY <1>2, <1>4, ChainAlone DEF Early
  <1> DEFINE q == Tail(events)
  <1>6. events' = q \o new
    BY DEF Submit
  <1> HIDE DEF q
  <1>7. /\ OneMark(q \o new) /\ MarksOf(q \o new) = MarksOf(q) \cup MarksOf(new)
        /\ NoReadout(q) /\ NoReadout(new) => NoReadout(q \o new)
    BY <1>2, MarkConcat DEF q
  <1> QED
    BY <1>2, <1>4, <1>5, <1>6, <1>7 DEF q

\* Nothing is left of the initialisation in the queue or with the drivers, and all
\* else is as at the start: what is to be shown when it goes on.
LEMMA ChainGoesOn ==
  ASSUME HwInv, TypeInv', report = "none", report' = "none", OneMark(events'),
         NoReadout(events'), UNCHANGED pc,
         \A e \in MarksOf(events') : IsChain(e),
         \A d \in Drivers : timer'[<<"readout", d>>] = timer[<<"readout", d>>],
         \A d \in Drivers : request'[d] # <<"readout", d>>,
         objects' \ Drivers = objects \ Drivers,
         timers' = IF InitEvent \in MarksOf(events') THEN 1 ELSE 5,
         OneActivity', Stage'
  PROVE  HwInv'
  <1>1. Early /\ objects \cap SetUpObjects = {}
    BY ChainAlone
  <1>2. InitPart2Event \notin MarksOf(events')
    BY MarkFacts
  <1>3. Early'
    BY <1>1, <1>2 DEF Early
  <1>4. SetUpObjects \cap Drivers = {}
    BY DriverFacts DEF SetUpObjects
  <1>5. objects' \cap SetUpObjects = {}
    BY <1>1, <1>4
  <1>6. SetUp'
    BY <1>2, <1>3, <1>5 DEF SetUp, Early
  <1>7. TimersCreated'
    BY DEF TimersCreated
  <1> QED
    BY <1>3, <1>6, <1>7 DEF HwInv

\* The same for a failure: it is reported, and no activity is left.
LEMMA ChainFails ==
  ASSUME HwInv, TypeInv', report = "none", report' = "failure", OneMark(events'),
         MarksOf(events') = {}, InitEvent \notin MarksOf(events),
         UNCHANGED <<pc, objects, timers>>,
         ~TimerRuns', ~Enabling', \A d \in Drivers : ~PartRequested(d)'
  PROVE  HwInv'
  <1>1. Early /\ objects \cap SetUpObjects = {} /\ timers = 5
    BY ChainAlone
  <1>2. OneActivity'
    BY DEF OneActivity, ChainQueued
  <1>3. Stage'
    BY MarkFacts DEF Stage, PartRequested
  <1>4. SetUp'
    BY <1>1 DEF SetUp, Early
  <1>5. TimersCreated'
    BY <1>1 DEF TimersCreated
  <1> QED
    BY <1>2, <1>3, <1>4, <1>5 DEF HwInv

\* A request of the initialisation ends: the next part, or the report of a failure.
LEMMA CompletesPart ==
  ASSUME HwInv, TypeInv', events # <<>>, ~Marked(Head(events)), NEW d \in Drivers,
         PartRequested(d), NEW ok \in BOOLEAN, GoOn(d, "idle", ok),
         UNCHANGED <<objects, timers, bt, pc>>
  PROVE  HwInv'
  <1>1. PICK n \in PartsOf(d) : request[d] = Part(n) /\ request[d][2] = n
    BY PartFacts DEF HwInv, TypeInv, PartRequested
  <1>2. n \in 1..10
    BY DriverFacts
  <1>3. /\ report = "none" /\ ~ChainQueued /\ ~TimerRuns /\ ~Enabling
        /\ \A c \in Drivers : PartRequested(c) => c = d
    BY DEF HwInv, OneActivity
  <1>4. objects \cap Drivers = Created(n + 1)
    BY <1>1, <1>2 DEF HwInv, Stage
  <1>5. /\ Early /\ MarksOf(events) = {} /\ timers = 5
        /\ \A c \in Drivers : c # d => request[c] = NoRequest
    BY <1>3, ChainAlone DEF ChainQueued
  <1> DEFINE q == Tail(events)
  <1>6. q \in Seq(Events) /\ OneMark(q) /\ MarksOf(q) = {} /\ NoReadout(q)
    BY <1>5, MarkTail DEF HwInv, TypeInv, TypeOK, Early
  <1>7. /\ request' = [request EXCEPT ![d] = NoRequest] /\ timer' = timer
        /\ InitPartComplete(n, ok)
    BY <1>1 DEF GoOn, PartRequested
  <1>8. \A c \in Drivers : request'[c] = NoRequest
    BY <1>5, <1>7 DEF HwInv, TypeInv, TypeOK
  <1>9. \A c \in Drivers : ~PartRequested(c)' /\ request'[c] # <<"readout", c>>
    BY <1>8, PartFacts DEF PartRequested, NoRequest
  <1>10. ~TimerRuns' /\ ~Enabling'
    BY <1>3, <1>7 DEF TimerRuns, Enabling
  <1>11. CASE ok
    <2>1. events' = q \o <<Part(n + 1)>> /\ report' = "none"
      BY <1>3, <1>7, <1>11 DEF InitPartComplete, Submit
    <2>2. Part(n + 1) \in Events
      BY <1>2 DEF Events
    <2> DEFINE e == Part(n + 1)
    <2> HIDE DEF q, e
    <2>3. <<e>> \in Seq(Events)
      BY <2>2 DEF e
    <2>4. OneMark(<<e>>) /\ MarksOf(<<e>>) = {e} /\ NoReadout(<<e>>)
      BY MarkFacts, MarkNew DEF e
    <2>5. OneMark(events') /\ MarksOf(events') = {e} /\ NoReadout(events')
      BY <1>6, <2>1, <2>3, <2>4, MarkConcat DEF e
    <2>6. /\ IsChain(e) /\ InitEvent # e /\ HwTimer # e
          /\ \A m : Part(m) = e <=> m = n + 1
      BY <1>2, MarkFacts, PartFacts DEF e
    <2>7. OneActivity'
      BY <1>9, <1>10, <2>1, <2>5, <2>6 DEF OneActivity, ChainQueued
    <2>8. Stage'
      BY <1>4, <1>9, <1>10, <2>5, <2>6, MarkFacts DEF Stage, PartRequested
    <2> QED
      BY <1>3, <1>5, <1>7, <1>9, <2>1, <2>5, <2>6, <2>7, <2>8, ChainGoesOn
  <1>12. CASE ~ok
    <2>1. events' = q \o <<>> /\ report' = "failure"
      BY <1>7, <1>12 DEF InitPartComplete, Submit, Report
    <2>2. events' = q
      BY <1>6, <2>1
    <2> HIDE DEF q
    <2>3. OneMark(events') /\ MarksOf(events') = {}
      BY <1>6, <2>2
    <2> QED
      BY <1>3, <1>5, <1>9, <1>10, <2>1, <2>3, ChainFails
  <1> QED
    BY <1>11, <1>12

\* Whatever a driver does after a step of its request.
LEMMA GoOnKeeps ==
  ASSUME HwInv, TypeInv', events # <<>>, ~Marked(Head(events)), pc = "idle", NEW d \in Drivers,
         NEW next \in DriverStates, NEW ok \in BOOLEAN, GoOn(d, next, ok),
         UNCHANGED <<objects, timers, bt, pc>>
  PROVE  HwInv'
  <1>1. CASE next = "idle" /\ PartRequested(d)
    BY <1>1, CompletesPart
  <1>2. CASE ~(next = "idle" /\ PartRequested(d))
    BY <1>2, GoOnPlain, PlainStepKeeps
  <1> QED
    BY <1>1, <1>2

\* The drivers answer an event on a bus or of their timers.
LEMMA DriversKeep ==
  ASSUME HwInv, TypeInv',
         (\E d \in Drivers : HandleDriverTimer(d)) \/ HandleI2cEvent \/ HandleSpiEvent
  PROVE  HwInv'
  <1>1. ASSUME NEW d \in Drivers, HandleDriverTimer(d)
        PROVE  HwInv'
    <2>1. PICK next \in {"idle", "operation"} :
            Handling(<<"driver", d>>) /\ GoOn(d, next, TRUE)
      BY <1>1 DEF HandleDriverTimer
    <2>2. /\ next \in DriverStates /\ events # <<>> /\ ~Marked(Head(events)) /\ pc = "idle"
          /\ UNCHANGED <<objects, timers, bt, pc>>
      BY <1>1, <2>1, MarkFacts DEF DriverStates, Handling, HandleDriverTimer
    <2> QED
      BY <2>1, <2>2, GoOnKeeps
  <1>2. CASE HandleI2cEvent
    <2>1. PICK next \in DriverStates, ok \in BOOLEAN :
            GoOn(queue.cb_data.sensor, next, ok) /\ HandleI2cTransComplete(next)
      BY <1>2 DEF HandleI2cEvent
    <2>2. queue.cb_data.sensor \in Drivers
      BY <2>1 DEF HandleI2cTransComplete, HwInv, TypeInv, BusInv, InOrder, Ops, Drivers
    <2>3. /\ events # <<>> /\ ~Marked(Head(events)) /\ pc = "idle"
          /\ UNCHANGED <<objects, timers, bt, pc>>
      BY <1>2, MarkFacts DEF Handling, HandleI2cEvent
    <2> QED
      BY <2>1, <2>2, <2>3, GoOnKeeps
  <1>3. CASE HandleSpiEvent
    <2>1. PICK next \in DriverStates, ok \in BOOLEAN : GoOn("bmp280", next, ok)
      BY <1>3 DEF HandleSpiEvent
    <2>2. /\ events # <<>> /\ ~Marked(Head(events)) /\ pc = "idle"
          /\ UNCHANGED <<objects, timers, bt, pc>>
      BY <1>3, MarkFacts DEF Handling, HandleSpiEvent
    <2> QED
      BY <2>1, <2>2, DriverFacts, GoOnKeeps
  <1> QED
    BY <1>1, <1>2, <1>3

\* The handler of a part whose driver is idle, as the initialisation always finds it:
\* the request is made, and the initialisation waits for its end.
LEMMA PartMakesRequest ==
  ASSUME HwInv, TypeInv', NEW d \in Drivers, NEW n \in PartsOf(d), NEW asserted, asserted,
         Handling(Part(n)), Submit(<<>>), Request(d, Part(n), asserted),
         UNCHANGED <<timer, report, timers, bt, pc>>,
         objects' \cap Drivers = Created(n + 1), objects' \ Drivers = objects \ Drivers
  PROVE  HwInv' /\ UNCHANGED fault
  <1>1. OneMark(<<>>) /\ NoReadout(<<>>) /\ <<>> \in Seq(Events) /\ MarksOf(<<>>) = {}
    BY MarkNew
  <1>2. IsChain(Part(n))
    BY MarkFacts
  <1>3. /\ MarksOf(events) = {Part(n)} /\ report = "none" /\ ~TimerRuns /\ ~Enabling
        /\ \A c \in Drivers : ~PartRequested(c) /\ request[c] = NoRequest
        /\ OneMark(events') /\ MarksOf(events') = {} /\ NoReadout(events')
    BY <1>1, <1>2, ChainHandled
  <1>4. request' = [request EXCEPT ![d] = Part(n)] /\ fault' = fault
    BY <1>3 DEF Request
  <1>5. \A c \in Drivers : request'[c] = IF c = d THEN Part(n) ELSE NoRequest
    BY <1>3, <1>4 DEF HwInv, TypeInv, TypeOK
  <1>6. \A c \in Drivers : /\ PartRequested(c)' <=> c = d
                           /\ request'[c] # <<"readout", c>>
                           /\ \A m : request'[c] = Part(m) => c = d /\ m = n
    BY <1>5, PartFacts, MarkFacts DEF PartRequested, NoRequest
  <1>7. ~TimerRuns' /\ ~Enabling'
    BY <1>3 DEF TimerRuns, Enabling
  <1>8. OneActivity'
    BY <1>3, <1>6, <1>7 DEF OneActivity, ChainQueued
  <1>9. Stage'
    BY <1>3, <1>6, <1>7 DEF Stage
  <1>10. timers = 5
    BY <1>3, ChainAlone, PartFacts, MarkFacts
  <1> QED
    BY <1>3, <1>4, <1>6, <1>8, <1>9, <1>10, ChainGoesOn

\* A part whose driver must not exist yet, or must.
LEMMA PartsKeep ==
  ASSUME HwInv, TypeInv',
         InitPart1 \/ InitPart2 \/ InitPart3 \/ InitPart4 \/ InitPart5 \/ InitParts6To10
  PROVE  HwInv' /\ UNCHANGED fault
  <1>1. \A n \in 1..11 : Handling(Part(n)) => objects \cap Drivers = Created(n)
    <2> SUFFICES ASSUME NEW n \in 1..11, Handling(Part(n))
                 PROVE  objects \cap Drivers = Created(n)
      OBVIOUS
    <2>1. Part(n) \in MarksOf(events)
      BY MarkFacts, MarkTail DEF Handling, HwInv, TypeInv, TypeOK
    <2> QED
      BY <2>1 DEF HwInv, Stage
  <1>2. /\ Drivers = {"sht31", "bh1750", "bmp280"}
        /\ PartsOf("sht31") = {1} /\ PartsOf("bh1750") = {2, 3} /\ PartsOf("bmp280") = 4..10
    BY DriverFacts DEF PartsOf
  <1>3. ASSUME NEW d \in Drivers, NEW n \in PartsOf(d), InitPartCreates(n, d),
               Created(n + 1) = Created(n) \cup {d}, d \notin Created(n)
        PROVE  HwInv' /\ UNCHANGED fault
    <2>1. n \in 1..11
      BY DriverFacts
    <2>2. objects \cap Drivers = Created(n) /\ objects' = objects \cup {d}
      BY <1>1, <1>3, <2>1 DEF InitPartCreates
    <2>3. /\ d \notin objects /\ objects' \cap Drivers = Created(n + 1)
          /\ objects' \ Drivers = objects \ Drivers
      BY <1>3, <2>2
    <2> QED
      BY <1>3, <2>3, PartMakesRequest DEF InitPartCreates
  <1>4. ASSUME NEW d \in Drivers, NEW n \in PartsOf(d), InitPartConfigures(n, d),
               Created(n + 1) = Created(n), d \in Created(n)
        PROVE  HwInv' /\ UNCHANGED fault
    <2>1. n \in 1..11
      BY DriverFacts
    <2>2. objects \cap Drivers = Created(n) /\ objects' = objects
      BY <1>1, <1>4, <2>1 DEF InitPartConfigures
    <2> QED
      BY <1>4, <2>2, PartMakesRequest DEF InitPartConfigures
  <1>5. CASE InitPart1
    BY <1>2, <1>3, <1>5, CreatedFacts DEF InitPart1
  <1>6. CASE InitPart2
    BY <1>2, <1>3, <1>6, CreatedFacts DEF InitPart2
  <1>7. CASE InitPart3
    BY <1>2, <1>4, <1>7, CreatedFacts DEF InitPart3
  <1>8. CASE InitPart4
    BY <1>2, <1>3, <1>8, CreatedFacts DEF InitPart4
  <1>9. ASSUME NEW n \in 6..10, InitPartConfigures(n, "bmp280")
        PROVE  HwInv' /\ UNCHANGED fault
    <2>1. n \in 5..12 /\ n + 1 \in 5..12 /\ n \in PartsOf("bmp280") /\ "bmp280" \in Drivers
      BY <1>2
    <2>2. Created(n) = Drivers /\ Created(n + 1) = Drivers
      BY <2>1, CreatedFacts
    <2> QED
      BY <1>4, <1>9, <2>1, <2>2
  <1>10. CASE InitPart5
    <2>1. /\ Handling(Part(5)) /\ Submit(<<>>) /\ UNCHANGED <<timer, late, objects, timers, bt, pc>>
          /\ \/ Request("bmp280", Part(5), TRUE) /\ UNCHANGED report
             \/ report' = "failure" /\ UNCHANGED <<driverVars, fault>>
      BY <1>10 DEF InitPart5, Report
    <2>2. CASE Request("bmp280", Part(5), TRUE) /\ UNCHANGED report
      <3>1. objects' \cap Drivers = Created(5 + 1) /\ objects' \ Drivers = objects \ Drivers
        BY <1>1, <2>1, CreatedFacts
      <3>2. 5 \in PartsOf("bmp280") /\ "bmp280" \in Drivers
        BY <1>2
      <3>3. UNCHANGED <<timer, report, timers, bt, pc>>
        BY <2>1, <2>2
      <3> HIDE DEF HwInv
      <3> QED
        BY <2>1, <2>2, <3>1, <3>2, <3>3, PartMakesRequest
    <2>3. CASE report' = "failure" /\ UNCHANGED <<driverVars, fault>>
      <3>1. OneMark(<<>>) /\ NoReadout(<<>>) /\ <<>> \in Seq(Events) /\ MarksOf(<<>>) = {}
        BY MarkNew
      <3>2. /\ MarksOf(events) = {Part(5)} /\ report = "none" /\ ~TimerRuns /\ ~Enabling
            /\ \A c \in Drivers : ~PartRequested(c)
            /\ OneMark(events') /\ MarksOf(events') = {}
        BY <2>1, <3>1, MarkFacts, ChainHandled
      <3>3. InitEvent \notin MarksOf(events)
        BY <3>2, MarkFacts
      <3> QED
        BY <2>1, <2>3, <3>2, <3>3, ChainFails DEF driverVars, TimerRuns, Enabling, PartRequested
    <2> QED
      BY <2>1, <2>2, <2>3
  <1> QED
    BY <1>5, <1>6, <1>7, <1>8, <1>9, <1>10 DEF InitParts6To10

\* The beginning: the timer that waits for the sensors, and its expiry.
LEMMA StartKeeps ==
  ASSUME HwInv, TypeInv', HandleInitEvent \/ TimerIsr(HwTimer) \/ InitPart0Complete
  PROVE  HwInv'
  <1>1. OneMark(<<>>) /\ NoReadout(<<>>) /\ <<>> \in Seq(Events) /\ MarksOf(<<>>) = {}
    BY MarkNew
  <1>2. HwTimer \in Timers /\ timer \in [Timers -> Nat \cup {Off}]
        /\ \A d : <<"readout", d>> # HwTimer
    BY DriverFacts DEF HwInv, TypeInv, TypeOK, HwTimer
  <1>3. CASE HandleInitEvent
    <2>1. /\ Handling(InitEvent) /\ Submit(<<>>) /\ timers' = timers + 4
          /\ timer' = [timer EXCEPT ![HwTimer] = 1]
          /\ UNCHANGED <<request, report, objects, bt, pc>>
      BY <1>3 DEF HandleInitEvent, CreateTimers, driverVars
    <2>2. /\ MarksOf(events) = {InitEvent} /\ report = "none" /\ ~TimerRuns /\ ~Enabling
          /\ \A c \in Drivers : ~PartRequested(c) /\ request[c] = NoRequest
          /\ OneMark(events') /\ MarksOf(events') = {} /\ NoReadout(events')
      BY <1>1, <2>1, MarkFacts, ChainHandled
    <2>3. timers = 1 /\ timers' = 5
      BY <2>1, <2>2, ChainAlone
    <2>4. TimerRuns' /\ ~Enabling' /\ \A d \in Drivers : timer'[<<"readout", d>>] = timer[<<"readout", d>>]
      BY <1>2, <2>1, <2>2, DriverFacts DEF TimerRuns, Enabling, Off
    <2>5. \A c \in Drivers : ~PartRequested(c)' /\ request'[c] = NoRequest
      BY <2>1, <2>2 DEF PartRequested
    <2>6. OneActivity'
      BY <2>1, <2>2, <2>4, <2>5 DEF OneActivity, ChainQueued
    <2>7. \A c \in Drivers : /\ request'[c] # <<"readout", c>>
                             /\ \A n : request'[c] # Part(n)
      BY <2>5 DEF NoRequest, Part
    <2>8. Stage'
      BY <2>1, <2>2, <2>7 DEF HwInv, Stage
    <2> QED
      BY <2>1, <2>2, <2>3, <2>4, <2>6, <2>7, <2>8, ChainGoesOn
  <1>4. CASE TimerIsr(HwTimer)
    <2>1. /\ timer[HwTimer] = 0 /\ events' = Append(events, HwTimer)
          /\ timer' = [timer EXCEPT ![HwTimer] = Off]
          /\ UNCHANGED <<request, report, objects, timers, bt, pc>>
      BY <1>4 DEF TimerIsr, driverVars, HwTimer
    <2>2. TimerRuns
      BY <2>1 DEF TimerRuns, Off
    <2>3. /\ report = "none" /\ ~ChainQueued /\ ~Enabling /\ \A d \in Drivers : ~PartRequested(d)
          /\ objects \cap Drivers = {}
      BY <2>2 DEF HwInv, OneActivity, Stage
    <2>4. /\ Early /\ MarksOf(events) = {} /\ timers = 5
          /\ \A d \in Drivers : request[d] = NoRequest
      BY <2>3, ChainAlone DEF ChainQueued
    <2>5. events \in Seq(Events) /\ OneMark(events) /\ NoReadout(events)
      BY <2>4 DEF HwInv, TypeInv, TypeOK, Early
    <2> DEFINE r == <<HwTimer>>
    <2>6. events' = events \o r
      BY <2>1, <2>5
    <2>7. r \in Seq(Events) /\ OneMark(r) /\ MarksOf(r) = {HwTimer} /\ NoReadout(r)
      <3>1. HwTimer \in Events
        BY DriverFacts
      <3>2. r \in Seq(Events)
        BY <3>1
      <3>3. OneMark(r) /\ MarksOf(r) = {HwTimer} /\ NoReadout(r)
        BY MarkFacts, MarkNew
      <3> QED
        BY <3>2, <3>3
    <2> HIDE DEF r
    <2>8. OneMark(events') /\ MarksOf(events') = {HwTimer} /\ NoReadout(events')
      BY <2>4, <2>5, <2>6, <2>7, MarkConcat
    <2>9. ~TimerRuns' /\ ~Enabling' /\ \A d \in Drivers : timer'[<<"readout", d>>] = timer[<<"readout", d>>]
      BY <1>2, <2>1, <2>3, DriverFacts DEF TimerRuns, Enabling
    <2>10. \A c \in Drivers : /\ ~PartRequested(c)' /\ request'[c] # <<"readout", c>>
                              /\ \A n : request'[c] # Part(n)
      BY <2>1, <2>3, <2>4 DEF PartRequested, NoRequest, Part
    <2>11. OneActivity'
      BY <2>1, <2>3, <2>8, <2>9, <2>10, MarkFacts DEF OneActivity, ChainQueued
    <2>12. Stage'
      BY <2>1, <2>3, <2>8, <2>10, MarkFacts DEF Stage
    <2> QED
      BY <2>1, <2>3, <2>4, <2>8, <2>9, <2>10, <2>11, <2>12, MarkFacts, ChainGoesOn
  <1>5. CASE InitPart0Complete
    <2>1. /\ Handling(HwTimer) /\ Submit(<<Part(1)>>)
          /\ UNCHANGED <<request, timer, report, objects, timers, bt, pc>>
      BY <1>5 DEF InitPart0Complete, driverVars
    <2>2. Part(1) \in Events
      BY DEF Events
    <2> DEFINE e == Part(1)
    <2> HIDE DEF e
    <2>3. <<e>> \in Seq(Events) /\ OneMark(<<e>>) /\ MarksOf(<<e>>) = {e} /\ NoReadout(<<e>>)
      <3>1. <<e>> \in Seq(Events)
        BY <2>2 DEF e
      <3>2. OneMark(<<e>>) /\ MarksOf(<<e>>) = {e} /\ NoReadout(<<e>>)
        BY MarkFacts, MarkNew DEF e
      <3> QED
        BY <3>1, <3>2
    <2>4. /\ MarksOf(events) = {HwTimer} /\ report = "none" /\ ~TimerRuns /\ ~Enabling
          /\ \A c \in Drivers : ~PartRequested(c) /\ request[c] = NoRequest
          /\ OneMark(events') /\ MarksOf(events') = {e} /\ NoReadout(events')
      BY <2>1, <2>3, MarkFacts, ChainHandled DEF e
    <2>5. objects \cap Drivers = {}
      BY <2>4 DEF HwInv, Stage
    <2>6. timers = 5
      BY <2>4, ChainAlone, MarkFacts
    <2>7. /\ IsChain(e) /\ InitEvent # e /\ HwTimer # e
          /\ \A m : Part(m) = e <=> m = 1
      BY MarkFacts, PartFacts DEF e
    <2>8. \A c \in Drivers : /\ ~PartRequested(c)' /\ request'[c] # <<"readout", c>>
                             /\ \A n : request'[c] # Part(n)
      BY <2>1, <2>4 DEF PartRequested, NoRequest, Part
    <2>9. ~TimerRuns' /\ ~Enabling'
      BY <2>1, <2>4 DEF TimerRuns, Enabling
    <2>10. OneActivity'
      BY <2>1, <2>4, <2>7, <2>8, <2>9 DEF OneActivity, ChainQueued
    <2>11. Stage'
      BY <2>1, <2>4, <2>5, <2>7, <2>8, <2>9, CreatedFacts DEF Stage
    <2> QED
      BY <2>1, <2>4, <2>6, <2>7, <2>8, <2>10, <2>11, ChainGoesOn
  <1> QED
    BY <1>3, <1>4, <1>5

\* The Bluetooth stack is enabled, and answers.
LEMMA BluetoothKeeps ==
  ASSUME HwInv, TypeInv', InitPart11 \/ InitPart11Complete
  PROVE  HwInv'
  <1>1. OneMark(<<>>) /\ NoReadout(<<>>) /\ <<>> \in Seq(Events) /\ MarksOf(<<>>) = {}
    BY MarkNew
  <1>2. CASE InitPart11
    <2>1. /\ Handling(Part(11)) /\ Submit(<<>>) /\ UNCHANGED <<request, timer, objects, timers, pc>>
          /\ (bt' = "enabling" /\ report' = report) \/ (report' = "failure" /\ bt' = bt)
      BY <1>2 DEF InitPart11, Report, driverVars
    <2>2. /\ MarksOf(events) = {Part(11)} /\ report = "none" /\ ~TimerRuns /\ ~Enabling
          /\ \A c \in Drivers : ~PartRequested(c) /\ request[c] = NoRequest
          /\ OneMark(events') /\ MarksOf(events') = {} /\ NoReadout(events')
      BY <1>1, <2>1, MarkFacts, ChainHandled
    <2>3. InitEvent \notin MarksOf(events) /\ timers = 5
      BY <2>2, MarkFacts, ChainAlone
    <2>4. ~TimerRuns' /\ \A c \in Drivers : /\ ~PartRequested(c)' /\ request'[c] # <<"readout", c>>
                                            /\ \A n : request'[c] # Part(n)
      BY <2>1, <2>2 DEF PartRequested, TimerRuns, NoRequest, Part
    <2>5. CASE bt' = "enabling" /\ report' = report
      <3>1. OneActivity'
        BY <2>2, <2>4, <2>5 DEF OneActivity, ChainQueued, Enabling
      <3>2. Stage'
        BY <2>2, <2>4 DEF Stage
      <3> QED
        BY <2>1, <2>2, <2>3, <2>4, <2>5, <3>1, <3>2, ChainGoesOn
    <2>6. CASE report' = "failure" /\ bt' = bt
      <3>1. ~Enabling'
        BY <2>2, <2>6 DEF Enabling
      <3> QED
        BY <2>1, <2>2, <2>3, <2>4, <2>6, <3>1, ChainFails
    <2> QED
      BY <2>1, <2>5, <2>6
  <1>3. CASE InitPart11Complete
    <2>1. /\ bt = "enabling" /\ UNCHANGED <<request, timer, objects, timers, pc>>
          /\ \/ bt' = "quiet" /\ events' = Append(events, Part(12)) /\ UNCHANGED report
             \/ bt' = "off" /\ report' = "failure" /\ UNCHANGED events
      BY <1>3 DEF InitPart11Complete, Report, driverVars
    <2>2. /\ report = "none" /\ ~ChainQueued /\ ~TimerRuns /\ \A d \in Drivers : ~PartRequested(d)
      BY <2>1 DEF HwInv, OneActivity, Enabling
    <2>3. /\ Early /\ MarksOf(events) = {} /\ timers = 5
          /\ \A d \in Drivers : request[d] = NoRequest
      BY <2>2, ChainAlone DEF ChainQueued
    <2>4. events \in Seq(Events) /\ OneMark(events) /\ NoReadout(events)
      BY <2>3 DEF HwInv, TypeInv, TypeOK, Early
    <2>5. ~TimerRuns' /\ \A c \in Drivers : /\ ~PartRequested(c)' /\ request'[c] # <<"readout", c>>
                                            /\ \A n : request'[c] # Part(n)
      BY <2>1, <2>2, <2>3 DEF PartRequested, TimerRuns, NoRequest, Part
    <2>6. CASE bt' = "quiet" /\ events' = Append(events, Part(12)) /\ UNCHANGED report
      <3>1. Part(12) \in Events
        BY DEF Events
      <3> DEFINE e == Part(12)
      <3> HIDE DEF e
      <3>2. <<e>> \in Seq(Events) /\ events' = events \o <<e>>
        BY <2>4, <2>6, <3>1 DEF e
      <3>3. OneMark(<<e>>) /\ MarksOf(<<e>>) = {e} /\ NoReadout(<<e>>)
        BY MarkFacts, MarkNew DEF e
      <3>4. OneMark(events') /\ MarksOf(events') = {e} /\ NoReadout(events')
        BY <2>3, <2>4, <3>2, <3>3, MarkConcat
      <3>5. /\ IsChain(e) /\ InitEvent # e /\ HwTimer # e
            /\ \A m : Part(m) = e <=> m = 12
        BY MarkFacts, PartFacts DEF e
      <3>6. ~Enabling'
        BY <2>6 DEF Enabling
      <3>7. OneActivity'
        BY <2>2, <2>5, <2>6, <3>4, <3>5, <3>6 DEF OneActivity, ChainQueued
      <3>8. Stage'
        BY <2>5, <3>4, <3>5 DEF Stage
      <3> QED
        BY <2>1, <2>2, <2>3, <2>5, <2>6, <3>4, <3>5, <3>7, <3>8, ChainGoesOn
    <2>7. CASE bt' = "off" /\ report' = "failure" /\ UNCHANGED events
      <3>1. ~Enabling'
        BY <2>7 DEF Enabling
      <3> QED
        BY <2>1, <2>2, <2>3, <2>4, <2>5, <2>7, <3>1, ChainFails
    <2> QED
      BY <2>1, <2>6, <2>7
  <1> QED
    BY <1>2, <1>3

\* The last part reports the success and submits INIT_PART_2.
LEMMA LastPartKeeps ==
  ASSUME HwInv, TypeInv', InitPart12
  PROVE  HwInv'
  <1> DEFINE new == <<AdvertisingEvent, InitPart2Event>>
  <1>1. /\ Handling(Part(12)) /\ Submit(new) /\ objects' = objects \cup Interfaces
        /\ timers' = timers + 3 /\ report' = "success" /\ UNCHANGED <<request, timer, bt, pc>>
    BY DEF InitPart12, CreateTimers, Report, driverVars
  <1>2. new \in Seq(Events)
    BY DEF Events
  <1>3. OneMark(new) /\ MarksOf(new) = {InitPart2Event} /\ NoReadout(new)
    BY MarkFacts, MarkNew
  <1> HIDE DEF new
  <1>4. /\ MarksOf(events) = {Part(12)} /\ report = "none" /\ ~TimerRuns /\ ~Enabling
        /\ \A c \in Drivers : ~PartRequested(c) /\ request[c] = NoRequest
        /\ OneMark(events') /\ MarksOf(events') = {InitPart2Event}
    BY <1>1, <1>2, <1>3, MarkFacts, ChainHandled
  <1>5. pc = "idle" /\ objects \cap SetUpObjects = {} /\ timers = 5
    BY <1>4, ChainAlone, MarkFacts
  <1>6. ~TimerRuns' /\ ~Enabling' /\ \A c \in Drivers : /\ ~PartRequested(c)'
                                                       /\ \A n : request'[c] # Part(n)
    BY <1>1, <1>4 DEF TimerRuns, Enabling, PartRequested, NoRequest, Part
  <1>7. OneActivity'
    BY <1>1, <1>4, <1>6, MarkFacts DEF OneActivity, ChainQueued
  <1>8. Stage'
    BY <1>4, <1>6, MarkFacts DEF Stage
  <1>9. objects' \cap SetUpObjects = {} /\ "raisers" \notin objects'
    BY <1>1, <1>5 DEF SetUpObjects, Interfaces
  <1>10. SetUp'
    BY <1>1, <1>4, <1>5, <1>9 DEF SetUp, SetUpBefore
  <1>11. InitEvent # InitPart2Event
    BY MarkFacts
  <1>12. TimersCreated'
    BY <1>1, <1>4, <1>5, <1>9, <1>11 DEF TimersCreated
  <1> QED
    BY <1>1, <1>4, <1>7, <1>8, <1>10, <1>12 DEF HwInv

-----------------------------------------------------------------------------
(* INIT_PART_2                                                              *)

\* While INIT_PART_2 is at the head of the queue, the initialisation of the platform
\* has succeeded.
LEMMA SetUpFacts ==
  ASSUME HwInv, events # <<>>, Head(events) = InitPart2Event
  PROVE  /\ MarksOf(events) = {InitPart2Event} /\ report = "success"
         /\ Interfaces \subseteq objects
         /\ objects \cap SetUpObjects = SetUpBefore(pc)
         /\ timers = IF "raisers" \in objects THEN MaxTimers ELSE 8
         /\ Tail(events) \in Seq(Events) /\ OneMark(Tail(events)) /\ MarksOf(Tail(events)) = {}
  <1>1. /\ MarksOf(events) = {InitPart2Event}
        /\ Tail(events) \in Seq(Events) /\ OneMark(Tail(events)) /\ MarksOf(Tail(events)) = {}
    BY MarkFacts, MarkTail DEF HwInv, TypeInv, TypeOK
  <1>2. report = "success" /\ Interfaces \subseteq objects /\ objects \cap SetUpObjects = SetUpBefore(pc)
    BY <1>1 DEF HwInv, SetUp
  <1>3. timers = IF "raisers" \in objects THEN MaxTimers ELSE 8
    BY <1>1, <1>2, MarkFacts DEF HwInv, TimersCreated
  <1> QED
    BY <1>1, <1>2, <1>3

\* A step of INIT_PART_2 that sets up what its place in the handler says.
LEMMA SetUpStep ==
  ASSUME HwInv, TypeInv', events # <<>>, Head(events) = InitPart2Event,
         UNCHANGED <<request, report, bt>>, timer'[HwTimer] = timer[HwTimer],
         NEW o \in SetUpObjects, objects' = objects \cup {o},
         \/ pc' # "idle" /\ UNCHANGED events
         \/ pc' = "idle" /\ Submit(<<>>),
         (objects \cup {o}) \cap SetUpObjects =
           IF pc' = "idle" THEN SetUpObjects ELSE SetUpBefore(pc'),
         timers' = IF "raisers" \in objects' THEN MaxTimers ELSE 8
  PROVE  HwInv'
  <1>1. /\ MarksOf(events) = {InitPart2Event} /\ report = "success"
        /\ Interfaces \subseteq objects
        /\ Tail(events) \in Seq(Events) /\ OneMark(Tail(events)) /\ MarksOf(Tail(events)) = {}
    BY SetUpFacts
  <1>2. InitEvent # InitPart2Event /\ ~IsChain(InitPart2Event) /\ \A n : Part(n) # InitPart2Event
        /\ HwTimer # InitPart2Event
    BY MarkFacts
  <1>3. /\ \A d \in Drivers : ~PartRequested(d) /\ ~PartRequested(d)'
        /\ ~TimerRuns' /\ ~Enabling'
    BY <1>1 DEF HwInv, OneActivity, PartRequested, TimerRuns, Enabling
  <1>4. \A d \in Drivers : \A n : request'[d] # Part(n)
    BY <1>3, MarkFacts DEF PartRequested
  <1>5. /\ OneMark(events')
        /\ IF pc' = "idle" THEN MarksOf(events') = {}
           ELSE MarksOf(events') = {InitPart2Event} /\ events' = events
    <2>1. CASE pc' = "idle"
      <3>1. events' = Tail(events)
        BY <1>1, <2>1 DEF Submit
      <3> QED
        BY <1>1, <2>1, <3>1
    <2>2. CASE pc' # "idle"
      BY <1>1, <2>2 DEF HwInv
    <2> QED
      BY <2>1, <2>2
  <1>6. OneActivity'
    BY <1>1, <1>2, <1>3, <1>5 DEF OneActivity, ChainQueued
  <1>7. Stage'
    BY <1>2, <1>3, <1>4, <1>5 DEF Stage
  <1>8. SetUp'
    BY <1>1, <1>5 DEF SetUp
  <1>9. TimersCreated'
    BY <1>1, <1>2, <1>5 DEF TimersCreated
  <1> QED
    BY <1>1, <1>5, <1>6, <1>7, <1>8, <1>9 DEF HwInv

\* Each step of INIT_PART_2 finds what the ones before it have created: its asserts
\* hold.
LEMMA SetUpKeeps ==
  ASSUME HwInv, TypeInv', HandleInitPart2Event
  PROVE  HwInv' /\ fault' = FALSE
  <1>1. events # <<>> /\ Head(events) = InitPart2Event /\ fault = FALSE
    BY DEF HandleInitPart2Event, StartReadouts, CreateConditions, CreateRaisers,
           InitMsgTransceiver, SetAddAlertCb, SetRemoveAlertCb, Handling, HwInv, TypeInv, TypeOK,
           SetUp, Running
  <1>2. /\ Interfaces \subseteq objects /\ objects \cap SetUpObjects = SetUpBefore(pc)
        /\ timers = IF "raisers" \in objects THEN MaxTimers ELSE 8
    BY <1>1, SetUpFacts
  <1>3. MaxTimers = 2 * NumAlerts + 8 /\ NumAlerts \in Nat
    BY PlatformAssumption
  <1>4. CASE StartReadouts
    <2>1. pc = "idle" /\ pc' = "conditions" /\ objects' = objects \cup {"readouts"}
          /\ UNCHANGED <<events, request, report, bt, timers>>
      BY <1>4 DEF StartReadouts, Handling, driverVars
    <2>2. timer'[HwTimer] = timer[HwTimer]
      BY <1>4, DriverFacts DEF StartReadouts, HwTimer
    <2>3. (objects \cup {"readouts"}) \cap SetUpObjects = SetUpBefore("conditions")
      BY <1>2, <2>1 DEF SetUpObjects, SetUpBefore
    <2>4. "readouts" \notin objects /\ "raisers" \notin objects /\ "readouts" \in SetUpObjects
      BY <1>2, <2>1 DEF SetUpObjects, SetUpBefore
    <2>5. fault' = FALSE
      BY <1>2, <1>4, <2>4 DEF StartReadouts
    <2> QED
      BY <1>1, <1>2, <2>1, <2>2, <2>3, <2>4, <2>5, SetUpStep
  <1>5. CASE CreateConditions
    <2>1. pc = "conditions" /\ pc' = "raisers" /\ objects' = objects \cup {"conditions"}
          /\ UNCHANGED <<events, request, timer, report, bt, timers, fault>>
      BY <1>5 DEF CreateConditions, driverVars
    <2>2. (objects \cup {"conditions"}) \cap SetUpObjects = SetUpBefore("raisers")
      BY <1>2, <2>1 DEF SetUpObjects, SetUpBefore
    <2>3. "conditions" \in SetUpObjects
      BY DEF SetUpObjects
    <2> QED
      BY <1>1, <1>2, <2>1, <2>2, <2>3, SetUpStep
  <1>6. CASE CreateRaisers
    <2>1. pc = "raisers" /\ pc' = "transceiver" /\ objects' = objects \cup {"raisers"}
          /\ timers' = timers + 2 * NumAlerts
          /\ UNCHANGED <<events, request, timer, report, bt, fault>>
      BY <1>6 DEF CreateRaisers, CreateTimers, driverVars
    <2>2. (objects \cup {"raisers"}) \cap SetUpObjects = SetUpBefore("transceiver")
      BY <1>2, <2>1 DEF SetUpObjects, SetUpBefore
    <2>3. "raisers" \notin objects /\ "raisers" \in SetUpObjects
      BY <1>2, <2>1 DEF SetUpObjects, SetUpBefore
    <2>4. timers' = MaxTimers
      BY <1>2, <1>3, <2>1, <2>3
    <2> QED
      BY <1>1, <2>1, <2>2, <2>3, <2>4, SetUpStep
  <1>7. CASE InitMsgTransceiver
    <2>1. pc = "transceiver" /\ pc' = "add_alert_cb" /\ objects' = objects \cup {"receive_cb"}
          /\ UNCHANGED <<events, request, timer, report, bt, timers>>
      BY <1>7 DEF InitMsgTransceiver, driverVars
    <2>2. (objects \cup {"receive_cb"}) \cap SetUpObjects = SetUpBefore("add_alert_cb")
      BY <1>2, <2>1 DEF SetUpObjects, SetUpBefore
    <2>3. "receive_cb" \in SetUpObjects /\ fault' = FALSE
      BY <1>2, <1>7 DEF SetUpObjects, InitMsgTransceiver, Interfaces
    <2> QED
      BY <1>1, <1>2, <2>1, <2>2, <2>3, SetUpStep
  <1>8. CASE SetAddAlertCb
    <2>1. pc = "add_alert_cb" /\ pc' = "remove_alert_cb" /\ objects' = objects \cup {"add_alert_cb"}
          /\ UNCHANGED <<events, request, timer, report, bt, timers, fault>>
      BY <1>8 DEF SetAddAlertCb, driverVars
    <2>2. (objects \cup {"add_alert_cb"}) \cap SetUpObjects = SetUpBefore("remove_alert_cb")
      BY <1>2, <2>1 DEF SetUpObjects, SetUpBefore
    <2>3. "add_alert_cb" \in SetUpObjects
      BY DEF SetUpObjects
    <2> QED
      BY <1>1, <1>2, <2>1, <2>2, <2>3, SetUpStep
  <1>9. CASE SetRemoveAlertCb
    <2>1. pc = "remove_alert_cb" /\ pc' = "idle" /\ objects' = objects \cup {"remove_alert_cb"}
          /\ Submit(<<>>) /\ UNCHANGED <<request, timer, report, bt, timers, fault>>
      BY <1>9 DEF SetRemoveAlertCb, driverVars
    <2>2. (objects \cup {"remove_alert_cb"}) \cap SetUpObjects = SetUpObjects
      BY <1>2, <2>1 DEF SetUpObjects, SetUpBefore
    <2>3. "remove_alert_cb" \in SetUpObjects
      BY DEF SetUpObjects
    <2> QED
      BY <1>1, <1>2, <2>1, <2>2, <2>3, SetUpStep
  <1> QED
    BY <1>4, <1>5, <1>6, <1>7, <1>8, <1>9 DEF HandleInitPart2Event

-----------------------------------------------------------------------------
(* The theorem about the initialisation                                      *)

LEMMA HwInit == Init => HwInv
  <1> SUFFICES ASSUME Init PROVE HwInv
    OBVIOUS
  <1>1. TypeInv
    BY TypeInit
  <1>2. /\ events = <<InitEvent>> /\ report = "none" /\ objects = {} /\ timers = 1
        /\ bt = "off" /\ pc = "idle"
        /\ \A d \in Drivers : request[d] = NoRequest
        /\ \A t \in Timers : timer[t] = Off
    BY DEF Init
  <1>3. OneMark(<<InitEvent>>) /\ MarksOf(<<InitEvent>>) = {InitEvent} /\ NoReadout(<<InitEvent>>)
    BY MarkNew, MarkFacts
  <1>4. ~TimerRuns /\ ~Enabling
    BY <1>2, DriverFacts DEF TimerRuns, Enabling
  <1>5. \A d \in Drivers : /\ ~PartRequested(d) /\ request[d] # <<"readout", d>>
                           /\ \A n : request[d] # Part(n)
    BY <1>2 DEF PartRequested, NoRequest, Part
  <1>6. OneActivity
    BY <1>2, <1>3, <1>4, <1>5, MarkFacts DEF OneActivity, ChainQueued
  <1>7. Stage
    BY <1>2, <1>3, <1>4, <1>5, MarkFacts DEF Stage
  <1>8. SetUp
    BY <1>2, <1>3, MarkFacts DEF SetUp
  <1>9. TimersCreated
    BY <1>2, <1>3 DEF TimersCreated
  <1>10. Early
    BY <1>2, <1>3, <1>5, MarkFacts, DriverFacts DEF Early
  <1> QED
    BY <1>1, <1>2, <1>3, <1>6, <1>7, <1>8, <1>9, <1>10 DEF HwInv

\* One step: it continues the initialisation or INIT_PART_2, or leaves them alone.
LEMMA HwStep == HwInv /\ [Next]_vars => HwInv'
  <1> SUFFICES ASSUME HwInv, [Next]_vars PROVE HwInv'
    OBVIOUS
  <1>1. TypeInv'
    BY TypeStep DEF HwInv
  <1>2. CASE InitChain
    <2>1. CASE InitPart1 \/ InitPart2 \/ InitPart3 \/ InitPart4 \/ InitPart5 \/ InitParts6To10
      BY <1>1, <2>1, PartsKeep
    <2>2. CASE HandleInitEvent \/ InitPart0Complete
      BY <1>1, <2>2, StartKeeps
    <2>3. CASE InitPart11
      BY <1>1, <2>3, BluetoothKeeps
    <2>4. CASE InitPart12
      BY <1>1, <2>4, LastPartKeeps
    <2> QED
      BY <1>2, <2>1, <2>2, <2>3, <2>4 DEF InitChain
  <1>3. CASE HandleInitPart2Event
    BY <1>1, <1>3, SetUpKeeps
  <1>4. ASSUME NEW d \in Drivers, ReadoutTimerCb(d)
        PROVE  HwInv'
    BY <1>1, <1>4, ReadoutIsPlain, PlainStepKeeps
  <1>5. CASE (\E d \in Drivers : HandleDriverTimer(d)) \/ HandleI2cEvent \/ HandleSpiEvent
    BY <1>1, <1>5, DriversKeep
  <1>6. CASE HandleSample \/ StartAdvertising
    BY <1>1, <1>6, HandlerIsPlain, PlainStepKeeps
  <1>7. CASE TwimIsr \/ SpiIsr \/ RecycledCb \/ \E t \in Timers \ {HwTimer} : TimerIsr(t)
    BY <1>1, <1>7, InterruptIsPlain, PlainStepKeeps
  <1>8. CASE TimerIsr(HwTimer)
    BY <1>1, <1>8, StartKeeps
  <1>9. CASE InitPart11Complete
    BY <1>1, <1>9, BluetoothKeeps
  <1>10. CASE Tick \/ OnConnected \/ OnDisconnected \/ Receive \/ UNCHANGED vars
    BY <1>1, <1>10, OtherIsPlain, PlainStepKeeps
  <1> QED
    BY <1>2, <1>3, <1>4, <1>5, <1>6, <1>7, <1>8, <1>9, <1>10, DriverFacts
    DEF Next, EventThread, Sht31ReadoutTimerCb, Bh1750ReadoutTimerCb, Bmp280ReadoutTimerCb

LEMMA HwAlways == Spec => []HwInv
  BY HwInit, HwStep, PTL DEF Spec

\* The set of the activities has one member, or none.
LEMMA ActivitiesAreOne ==
  ASSUME HwInv
  PROVE  InitIsOneChain
  <1>1. HwTimer \in Timers /\ events \in Seq(Events)
    BY DriverFacts DEF HwInv, TypeInv, TypeOK
  <1> DEFINE Queued == {i \in DOMAIN events : IsChain(events[i])}
             E == {<<"event", i>> : i \in Queued}
             R == {<<"request", d>> : d \in {c \in Drivers : PartRequested(c)}}
             T == {<<"timer", t>> : t \in {u \in {HwTimer} : timer[u] # Off}}
             B == {<<"bluetooth", b>> : b \in {bt} \cap {"enabling"}}
  <1>2. InitActivities = E \cup R \cup T \cup B
    BY DEF InitActivities, IsChain, PartRequested
  <1>3. ChainQueued <=> Queued # {}
    BY DEF ChainQueued, MarksOf, Marked
  <1>4. /\ (~ChainQueued => E = {}) /\ ((\A d \in Drivers : ~PartRequested(d)) => R = {})
        /\ (~TimerRuns => T = {}) /\ (~Enabling => B = {})
    BY <1>3 DEF TimerRuns, Enabling
  <1>5. CASE ChainQueued
    <2>1. PICK i \in Queued : TRUE
      BY <1>3, <1>5
    <2>2. Queued = {i}
      BY <2>1 DEF HwInv, OneMark, Marked
    <2>3. E = {<<"event", i>>}
      BY <2>2
    <2>4. R = {} /\ T = {} /\ B = {} /\ report = "none"
      BY <1>4, <1>5 DEF HwInv, OneActivity
    <2>5. InitActivities = {<<"event", i>>}
      BY <1>2, <2>3, <2>4
    <2> QED
      BY <2>4, <2>5, FS_Singleton DEF InitIsOneChain
  <1>6. CASE \E d \in Drivers : PartRequested(d)
    <2>1. PICK d \in Drivers : PartRequested(d)
      BY <1>6
    <2>2. {c \in Drivers : PartRequested(c)} = {d}
      BY <2>1 DEF HwInv, OneActivity
    <2>3. R = {<<"request", d>>}
      BY <2>2
    <2>4. E = {} /\ T = {} /\ B = {} /\ report = "none"
      BY <1>4, <2>1 DEF HwInv, OneActivity
    <2>5. InitActivities = {<<"request", d>>}
      BY <1>2, <2>3, <2>4
    <2> QED
      BY <2>4, <2>5, FS_Singleton DEF InitIsOneChain
  <1>7. CASE TimerRuns
    <2>1. T = {<<"timer", HwTimer>>}
      BY <1>7 DEF TimerRuns
    <2>2. E = {} /\ R = {} /\ B = {} /\ report = "none"
      BY <1>4, <1>7 DEF HwInv, OneActivity
    <2>3. InitActivities = {<<"timer", HwTimer>>}
      BY <1>2, <2>1, <2>2
    <2> QED
      BY <2>2, <2>3, FS_Singleton DEF InitIsOneChain
  <1>8. CASE Enabling
    <2>1. B = {<<"bluetooth", "enabling">>}
      BY <1>8 DEF Enabling
    <2>2. E = {} /\ R = {} /\ T = {} /\ report = "none"
      BY <1>4, <1>8 DEF HwInv, OneActivity
    <2>3. InitActivities = {<<"bluetooth", "enabling">>}
      BY <1>2, <2>1, <2>2
    <2> QED
      BY <2>2, <2>3, FS_Singleton DEF InitIsOneChain
  <1>9. CASE ~ChainQueued /\ ~TimerRuns /\ ~Enabling /\ \A d \in Drivers : ~PartRequested(d)
    <2>1. InitActivities = {} /\ report # "none"
      BY <1>2, <1>4, <1>9 DEF HwInv, OneActivity
    <2> QED
      BY <2>1, FS_EmptySet DEF InitIsOneChain
  <1> QED
    BY <1>5, <1>6, <1>7, <1>8, <1>9

\* Whatever the buses, the drivers and the Bluetooth stack answer: until the
\* report exactly one thing of the initialisation is going on, an event, a
\* request, the timer or bt_enable, and after it nothing. So no part is started
\* twice, none is forgotten, and there is one report.
THEOREM PlatformInitIsOneChain == Spec => []InitIsOneChain
  BY HwAlways, ActivitiesAreOne, PTL

-----------------------------------------------------------------------------
(* The asserts                                                              *)

\* A readout timer's callback that meets its driver still at the readout before.
ReadoutOverrun(d) == ReadoutTimerCb(d) /\ request[d] = <<"readout", d>>

\* There are enough instances of EasTimer, at every stage of the initialisation.
LEMMA EnoughTimers ==
  ASSUME HwInv
  PROVE  timers <= MaxTimers
  <1>1. MaxTimers = 2 * NumAlerts + 8 /\ NumAlerts \in Nat
    BY PlatformAssumption
  <1>2. timers \in {1, 5, 8, MaxTimers}
    BY DEF HwInv, TimersCreated
  <1> QED
    BY <1>1, <1>2

\* The asserts of the bus are part of its inductive invariant.
LEMMA NoBusFault ==
  ASSUME HwInv
  PROVE  ~queue.fault
  BY BusInvImplies DEF HwInv, TypeInv, BusAssertsHold

\* The asserts of the timers and of the bus.
TimersAndBusHold == timers <= MaxTimers /\ ~queue.fault

LEMMA NoOtherFault == HwInv' => TimersAndBusHold'
  <1>1. HwInv => TimersAndBusHold
    BY EnoughTimers, NoBusFault DEF TimersAndBusHold
  <1> QED
    BY <1>1, PTL

\* A readout finds its driver idle or at the readout before: the initialisation is
\* over when the readouts begin.
LEMMA ReadoutMeets ==
  ASSUME HwInv, NEW d \in Drivers, ReadoutTimerCb(d)
  PROVE  request[d] \in {NoRequest, <<"readout", d>>}
  <1>1. ~Early
    BY DEF HwInv, TypeInv, TypeOK, ReadoutTimerCb, Handling, Early, NoReadout
  <1>2. ~PartRequested(d)
    BY <1>1 DEF HwInv, OneActivity
  <1> QED
    BY <1>2, PartFacts DEF HwInv, TypeInv, RequestsOf, PartRequested

\* A message is handled only when the conditions and the raisers exist.
LEMMA ReceiveIsSafe ==
  ASSUME HwInv, Receive
  PROVE  fault' = FALSE
  <1>1. "receive_cb" \in objects /\ "receive_cb" \in SetUpObjects
    BY DEF Receive, SetUpObjects
  <1>2. pc \in {"idle", "conditions", "raisers", "transceiver", "add_alert_cb", "remove_alert_cb"}
    BY DEF HwInv, TypeInv, TypeOK
  <1>3. CASE InitPart2Event \in MarksOf(events)
    <2>1. objects \cap SetUpObjects = SetUpBefore(pc)
      BY <1>3 DEF HwInv, SetUp
    <2>2. pc \in {"add_alert_cb", "remove_alert_cb"}
      BY <1>1, <1>2, <2>1 DEF SetUpBefore
    <2>3. {"conditions", "raisers"} \subseteq SetUpBefore(pc)
      BY <2>2 DEF SetUpBefore, SetUpObjects
    <2> QED
      BY <2>1, <2>3 DEF Receive
  <1>4. CASE InitPart2Event \notin MarksOf(events)
    <2>1. objects \cap SetUpObjects = SetUpObjects
      BY <1>1, <1>4 DEF HwInv, SetUp
    <2> QED
      BY <2>1 DEF Receive, SetUpObjects
  <1> QED
    BY <1>3, <1>4

\* One step: every assert holds but that of an overrun.
LEMMA FaultStep ==
  ASSUME HwInv, fault = FALSE, [Next]_vars
  PROVE  fault' = FALSE \/ \E d \in Drivers : ReadoutOverrun(d)
  <1>1. TypeInv'
    BY TypeStep DEF HwInv
  <1>2. CASE InitChain
    <2>1. CASE InitPart1 \/ InitPart2 \/ InitPart3 \/ InitPart4 \/ InitPart5 \/ InitParts6To10
      BY <1>1, <2>1, PartsKeep
    <2>2. CASE HandleInitEvent \/ InitPart0Complete \/ InitPart11 \/ InitPart12
      BY <2>2 DEF HandleInitEvent, InitPart0Complete, InitPart11, InitPart12
    <2> QED
      BY <1>2, <2>1, <2>2 DEF InitChain
  <1>3. CASE HandleInitPart2Event
    BY <1>1, <1>3, SetUpKeeps
  <1>4. ASSUME NEW d \in Drivers, ReadoutTimerCb(d)
        PROVE  fault' = FALSE \/ ReadoutOverrun(d)
    <2>1. CASE request[d] = NoRequest
      BY <1>4, <2>1 DEF ReadoutTimerCb, Request
    <2> QED
      BY <1>4, <2>1, ReadoutMeets DEF ReadoutOverrun
  <1>5. CASE (\E d \in Drivers : HandleDriverTimer(d)) \/ HandleI2cEvent \/ HandleSpiEvent
             \/ HandleSample \/ StartAdvertising
    BY <1>5 DEF HandleDriverTimer, HandleI2cEvent, HandleSpiEvent, HandleSample, StartAdvertising
  <1>6. CASE TwimIsr \/ SpiIsr \/ RecycledCb \/ Tick \/ \E t \in Timers : TimerIsr(t)
    BY <1>6 DEF TwimIsr, SpiIsr, RecycledCb, Tick, TimerIsr
  <1>7. CASE InitPart11Complete \/ OnConnected \/ OnDisconnected \/ UNCHANGED vars
    BY <1>7 DEF InitPart11Complete, OnConnected, OnDisconnected, vars
  <1>8. CASE Receive
    BY <1>8, ReceiveIsSafe
  <1> QED
    BY <1>2, <1>3, <1>4, <1>5, <1>6, <1>7, <1>8, DriverFacts
    DEF Next, EventThread, Sht31ReadoutTimerCb, Bh1750ReadoutTimerCb, Bmp280ReadoutTimerCb

\* The system runs in every state in which no assert outside the bus has failed.
LEMMA RunningIsNoFault ==
  ASSUME HwInv
  PROVE  Running <=> fault = FALSE
  BY EnoughTimers, NoBusFault DEF Running, HwInv, TypeInv, TypeOK

\* The asserts of the initialisation, of the drivers' creation, of the timers, of
\* INIT_PART_2 and of received messages hold under every answer of the
\* environment: the one assert that can fail is that of a readout whose
\* predecessor is still under way.
THEOREM PlatformFailsByOverrun ==
  Spec => [][Running /\ ~Running' => \E d \in Drivers : ReadoutOverrun(d)]_vars
  <1>1. HwInv /\ HwInv' /\ [Next]_vars =>
          [Running /\ ~Running' => \E d \in Drivers : ReadoutOverrun(d)]_vars
    <2> SUFFICES ASSUME HwInv, HwInv', [Next]_vars, Running, ~Running'
                 PROVE  \E d \in Drivers : ReadoutOverrun(d)
      OBVIOUS
    <2>1. fault = FALSE
      BY RunningIsNoFault
    <2>2. fault' # FALSE
      <3>1. timers' <= MaxTimers /\ ~queue'.fault
        BY HwStep, NoOtherFault DEF TimersAndBusHold
      <3> QED
        BY <3>1 DEF Running
    <2> QED
      BY <2>1, <2>2, FaultStep
  <1> QED
    BY <1>1, HwAlways, PTL DEF Spec

\* A readout that is in time finds its driver idle.
LEMMA InTimeIsNoOverrun ==
  ASSUME HwInv, ReadoutsInTime, NEW d \in Drivers
  PROVE  ~ReadoutOverrun(d)
  <1> SUFFICES ASSUME ReadoutOverrun(d) PROVE FALSE
    OBVIOUS
  <1> DEFINE S == {i \in DOMAIN events : events[i] = <<"readout", d>>}
  <1>1. events \in Seq(Events) /\ events # <<>> /\ events[1] = <<"readout", d>>
    BY DEF HwInv, TypeInv, TypeOK, ReadoutOverrun, ReadoutTimerCb, Handling
  <1>2. IsFiniteSet(S)
    <2>1. DOMAIN events = 1..Len(events) /\ Len(events) \in Int /\ 1 \in Int
      BY <1>1
    <2>2. IsFiniteSet(DOMAIN events)
      BY <2>1, FS_Interval
    <2> QED
      BY <2>2, FS_Subset
  <1>3. Cardinality(S) \in Nat /\ Cardinality(S) # 0
    <2>1. 1 \in S
      BY <1>1
    <2> QED
      BY <1>2, <2>1, FS_EmptySet, FS_CardinalityType
  <1>4. Cardinality(S) <= 0
    BY DEF ReadoutOverrun, ReadoutsInTime
  <1> QED
    BY <1>3, <1>4

\* As long as the readouts are in time, no assert of the platform, the virtual
\* devices, the timers and INIT_PART_2 fails.
THEOREM PlatformNoAssertFails == Spec /\ []ReadoutsInTime => []NoAssertFails
  <1>1. Init => NoAssertFails
    BY HwInit, RunningIsNoFault DEF NoAssertFails, Init
  <1>2. HwInv /\ ReadoutsInTime /\ NoAssertFails /\ [Next]_vars => NoAssertFails'
    <2> SUFFICES ASSUME HwInv, ReadoutsInTime, NoAssertFails, [Next]_vars
                 PROVE  NoAssertFails'
      OBVIOUS
    <2>1. fault' = FALSE
      BY RunningIsNoFault, FaultStep, InTimeIsNoOverrun DEF NoAssertFails
    <2>2. timers' <= MaxTimers /\ ~queue'.fault
      BY HwStep, NoOtherFault DEF TimersAndBusHold
    <2> QED
      BY <2>1, <2>2 DEF NoAssertFails, Running
  <1> QED
    BY <1>1, <1>2, HwAlways, PTL DEF Spec

-----------------------------------------------------------------------------
(* Readouts in time: the time that a readout can take, and the invariant    *)

\* The events of a readout and of a driver's timer.
ReadoutOf(d) == <<"readout", d>>
TimerOf(d) == <<"driver", d>>

\* What driver d is doing.
StateOf(d) == IF d \in Sensors THEN driver[d] ELSE spi

\* Whether event e is in queue q, and not more than once.
In(q, e) == \E i \in DOMAIN q : q[i] = e
Once(q, e) == \A i, j \in DOMAIN q : q[i] = e /\ q[j] = e => i = j

\* A readout of driver d is due and not over: it is in the queue or under way.
Due(d) == In(events, ReadoutOf(d)) \/ request[d] = ReadoutOf(d)

\* The longest that driver d can wait for its timer within n steps, as it never waits
\* twice in a row.
Wait(d, n) == MaxDelay(d) * (n \div 2)

\* The longest that it can wait in all of a readout, and in what is left of one.
WaitAll(d) == Wait(d, MaxSteps(d))
WaitLeft(d) ==
  IF request[d] # ReadoutOf(d) THEN WaitAll(d)
  ELSE IF StateOf(d) # "timer" THEN Wait(d, MaxSteps(d) - steps[d] + 1)
  ELSE (IF timer[TimerOf(d)] = Off THEN 0 ELSE timer[TimerOf(d)])
         + Wait(d, MaxSteps(d) - steps[d])

\* The most ticks that go by while a driver waits w ticks for its timer: before and
\* after each tick at which nothing else is pending, work may be pending for MaxLate
\* ticks.
Ticks(w) == w + MaxLate * (w + 1)

\* The periods are longer than a readout can take.
PeriodsSuffice == \A d \in Drivers : Ticks(WaitAll(d)) < Period(d)

\* The end of a transfer is in the queue until it has been handled.
EndsQueued ==
  /\ done # NoOp => In(events, I2cEvent)
  /\ spi = "complete" <=> In(events, SpiEvent)
  /\ Once(events, SpiEvent)

\* A driver that waits for its timer will be called back: the timer is running, or it
\* has expired and the queue holds the callback.
WakesUp(d) ==
  /\ StateOf(d) = "timer" <=> timer[TimerOf(d)] # Off \/ In(events, TimerOf(d))
  /\ In(events, TimerOf(d)) => timer[TimerOf(d)] = Off
  /\ Once(events, TimerOf(d))

\* A driver works when it has a request.
Works(d) ==
  /\ request[d] = NoRequest <=> StateOf(d) = "idle"
  /\ request[d] # NoRequest => steps[d] > 0

\* A readout that is due is due once, and what is left of it fits into what is left of
\* the time for it.
OnTime(d) ==
  /\ Once(events, ReadoutOf(d))
  /\ ~(In(events, ReadoutOf(d)) /\ request[d] = ReadoutOf(d))
  /\ timer[ReadoutOf(d)] <= Period(d)
  /\ Due(d) => /\ timer[ReadoutOf(d)] # Off
               /\ Period(d) - timer[ReadoutOf(d)] + Ticks(WaitLeft(d)) - late
                    <= Ticks(WaitAll(d))

\* The inductive invariant.
TimeInv == EndsQueued /\ \A d \in Drivers : WakesUp(d) /\ Works(d) /\ OnTime(d)

-----------------------------------------------------------------------------
(* Waits and ticks                                                          *)

\* Longer waits take longer.
LEMMA WaitFacts ==
  ASSUME NEW d \in Drivers, NEW n \in Nat
  PROVE  /\ Wait(d, n) \in Nat
         /\ Wait(d, n) <= Wait(d, n + 1)
         /\ Wait(d, n + 2) = MaxDelay(d) + Wait(d, n)
  <1> DEFINE k == n \div 2
             m == MaxDelay(d)
  <1>1. m \in Nat
    BY DriverFacts
  <1>2. k \in Nat /\ (n + 1) \div 2 \in {k, k + 1} /\ (n + 2) \div 2 = k + 1
    OBVIOUS
  <1> DEFINE k1 == (n + 1) \div 2
  <1> HIDE DEF k, m, k1
  <1>3. m * k \in Nat /\ m * (k + 1) = m + m * k
    BY <1>1, <1>2
  <1>4. m * k <= m * k1
    <2>1. k1 = k \/ k1 = k + 1
      BY <1>2 DEF k1
    <2> QED
      BY <1>1, <1>3, <2>1
  <1> QED
    BY <1>2, <1>3, <1>4 DEF Wait, k, m, k1

LEMMA TicksFacts ==
  ASSUME NEW w \in Nat
  PROVE  /\ Ticks(w) \in Nat /\ Ticks(w) >= MaxLate
         /\ Ticks(w + 1) = Ticks(w) + 1 + MaxLate
         /\ \A v \in Nat : v <= w => Ticks(v) <= Ticks(w)
  <1>1. MaxLate \in Nat
    BY DriverFacts
  <1>2. \A x, y \in Nat : x * y \in Nat
    OBVIOUS
  <1>3. \A x \in Nat : MaxLate * (x + 1) = MaxLate * x + MaxLate
    BY <1>1
  <1>4. \A x \in Nat : Ticks(x) = x + MaxLate * x + MaxLate /\ MaxLate * x \in Nat
    BY <1>1, <1>2, <1>3 DEF Ticks
  <1>5. ASSUME NEW v \in Nat, v <= w
        PROVE  MaxLate * v <= MaxLate * w
    <2>1. PICK u \in Nat : w = v + u
      <3>1. w - v \in Nat /\ w = v + (w - v)
        BY <1>5
      <3> QED
        BY <3>1
    <2>2. MaxLate * (v + u) = MaxLate * v + MaxLate * u
      BY <1>1
    <2>3. MaxLate * u \in Nat /\ MaxLate * v \in Nat
      BY <1>1, <1>2
    <2> QED
      BY <2>1, <2>2, <2>3
  <1>6. Ticks(w) \in Nat /\ Ticks(w) >= MaxLate
    BY <1>1, <1>4
  <1>7. Ticks(w + 1) = Ticks(w) + 1 + MaxLate
    BY <1>1, <1>3, <1>4
  <1>8. ASSUME NEW v \in Nat, v <= w
        PROVE  Ticks(v) <= Ticks(w)
    <2>1. MaxLate * v <= MaxLate * w
      BY <1>5, <1>8
    <2>2. /\ Ticks(v) = v + MaxLate * v + MaxLate /\ MaxLate * v \in Nat
          /\ Ticks(w) = w + MaxLate * w + MaxLate /\ MaxLate * w \in Nat
      BY <1>4
    <2> QED
      BY <1>1, <1>8, <2>1, <2>2
  <1> QED
    BY <1>6, <1>7, <1>8

\* The events that TimeInv is about, by their first components.
Counted(e) == e[1] \in {"i2c", "spi", "driver", "readout"}

LEMMA EventFacts ==
  /\ \A c, d : /\ ReadoutOf(c) = ReadoutOf(d) <=> c = d
               /\ TimerOf(c) = TimerOf(d) <=> c = d
               /\ ReadoutOf(c) # TimerOf(d)
  /\ \A d : /\ Counted(ReadoutOf(d)) /\ Counted(TimerOf(d))
            /\ ReadoutOf(d) # SpiEvent /\ ReadoutOf(d) # I2cEvent /\ ReadoutOf(d) # NoRequest
            /\ TimerOf(d) # SpiEvent /\ TimerOf(d) # I2cEvent
            /\ ReadoutOf(d) # HwTimer /\ TimerOf(d) # HwTimer
            /\ ReadoutOf(d)[1] = "readout" /\ TimerOf(d)[1] = "driver"
            /\ ReadoutOf(d)[2] = d
  /\ Counted(I2cEvent) /\ Counted(SpiEvent) /\ I2cEvent # SpiEvent
  /\ \A n \in Nat : ~Counted(Part(n)) /\ Part(n) # NoRequest /\ \A d : Part(n) # ReadoutOf(d)
  /\ \A s \in Samples : ~Counted(s)
  /\ ~Counted(AdvertisingEvent) /\ ~Counted(InitPart2Event) /\ ~Counted(InitEvent)
  /\ ~Counted(HwTimer)
  /\ \A d \in Drivers : ReadoutOf(d) \in Timers /\ TimerOf(d) \in Timers
  /\ \A t \in Timers : \/ t = HwTimer
                       \/ \E d \in Drivers : t = ReadoutOf(d) \/ t = TimerOf(d)
  BY DEF ReadoutOf, TimerOf, Counted, SpiEvent, I2cEvent, NoRequest, HwTimer, Part, Samples,
         Sample, AdvertisingEvent, InitPart2Event, InitEvent, Timers

-----------------------------------------------------------------------------
(* Events in the queue                                                      *)

\* Event e stays in the queue, or out of it.
Stays(e) == /\ In(events, e) <=> In(events', e)
            /\ Once(events, e) => Once(events', e)

\* An event is handled: it is gone, and the others stay.
LEMMA HandledStays ==
  ASSUME events \in Seq(Events), events # <<>>, NEW new \in Seq(Events), Submit(new),
         NEW e, ~In(new, e)
  PROVE  /\ e # Head(events) => Stays(e)
         /\ e = Head(events) /\ Once(events, e) => ~In(events', e)
         /\ ~In(events', e) => Once(events', e)
         /\ e = Head(events) => In(events, e)
  <1> DEFINE q == events'
             n == Len(events)
  <1>1. /\ n \in Nat /\ n > 0 /\ Head(events) = events[1] /\ DOMAIN events = 1..n
        /\ Len(new) \in Nat /\ DOMAIN new = 1..Len(new)
    OBVIOUS
  <1>2. /\ q = Tail(events) \o new /\ DOMAIN q = 1..(n - 1 + Len(new))
        /\ \A i \in 1..n - 1 : q[i] = events[i + 1]
        /\ \A i \in DOMAIN q : i > n - 1 => q[i] = new[i - (n - 1)] /\ i - (n - 1) \in DOMAIN new
    BY <1>1 DEF Submit
  <1> HIDE DEF q, n
  <1>3. \A i \in DOMAIN q : q[i] = e => i \in 1..n - 1 /\ i + 1 \in 1..n /\ events[i + 1] = e
    BY <1>1, <1>2 DEF In
  <1>4. \A i \in 2..n : i - 1 \in 1..n - 1 /\ i - 1 \in DOMAIN q /\ q[i - 1] = events[i]
    BY <1>1, <1>2
  <1>5. ASSUME e # Head(events)
        PROVE  Stays(e)
    <2>1. \A i \in DOMAIN events : events[i] = e => i \in 2..n
      BY <1>1, <1>5
    <2>2. In(events, e) <=> In(q, e)
      BY <1>1, <1>3, <1>4, <2>1 DEF In
    <2>3. Once(events, e) => Once(q, e)
      <3> SUFFICES ASSUME Once(events, e), NEW i \in DOMAIN q, NEW j \in DOMAIN q, q[i] = e, q[j] = e
                   PROVE  i = j
        BY DEF Once
      <3>1. i + 1 = j + 1
        BY <1>1, <1>3 DEF Once
      <3> QED
        BY <1>3, <3>1
    <2> QED
      BY <2>2, <2>3 DEF Stays, q
  <1>6. ASSUME e = Head(events), Once(events, e), In(q, e)
        PROVE  FALSE
    <2>1. PICK i \in DOMAIN q : q[i] = e
      BY <1>6 DEF In
    <2>2. i + 1 = 1
      BY <1>1, <1>3, <1>6, <2>1 DEF Once
    <2> QED
      BY <1>3, <2>1, <2>2
  <1>7. ~In(q, e) => Once(q, e)
    BY DEF In, Once
  <1>8. e = Head(events) => In(events, e)
    BY <1>1 DEF In
  <1> QED
    BY <1>5, <1>6, <1>7, <1>8 DEF q

\* An event is submitted by an interrupt or another thread.
LEMMA SubmittedStays ==
  ASSUME events \in Seq(Events), NEW x \in Events, events' = Append(events, x), NEW e
  PROVE  /\ e # x => Stays(e)
         /\ e = x => In(events', e)
         /\ e = x /\ ~In(events, e) => Once(events', e)
  <1> DEFINE q == events'
             n == Len(events)
  <1>1. /\ n \in Nat /\ DOMAIN events = 1..n /\ DOMAIN q = 1..n + 1
        /\ q[n + 1] = x /\ \A i \in 1..n : q[i] = events[i]
    OBVIOUS
  <1> HIDE DEF q, n
  <1>2. \A i \in DOMAIN q : i \in DOMAIN events \/ i = n + 1
    BY <1>1
  <1>3. \A i \in DOMAIN events : i \in DOMAIN q /\ q[i] = events[i]
    BY <1>1
  <1>4. ASSUME e # x
        PROVE  Stays(e)
    BY <1>1, <1>2, <1>3, <1>4 DEF Stays, In, Once, q
  <1>5. e = x => In(q, e)
    BY <1>1 DEF In
  <1>6. e = x /\ ~In(events, e) => Once(q, e)
    BY <1>1, <1>2, <1>3 DEF In, Once
  <1> QED
    BY <1>4, <1>5, <1>6 DEF q

-----------------------------------------------------------------------------
(* A driver is left alone, gets a request or goes on                        *)

\* What TimeInv says of driver d.
Punctual(d) == WakesUp(d) /\ Works(d) /\ OnTime(d)

LEMMA TimeTypes ==
  ASSUME TypeInv, NEW d \in Drivers
  PROVE  /\ timer[TimerOf(d)] \in Nat \cup {Off} /\ timer[ReadoutOf(d)] \in Nat \cup {Off}
         /\ late \in Nat /\ late <= MaxLate /\ MaxLate \in Nat
         /\ Period(d) \in Nat /\ MaxDelay(d) \in Nat
         /\ MaxSteps(d) \in Nat /\ steps[d] \in Nat /\ steps[d] <= MaxSteps(d)
         /\ WaitAll(d) \in Nat /\ Ticks(WaitAll(d)) \in Nat
         /\ WaitLeft(d) \in Nat /\ Ticks(WaitLeft(d)) \in Nat
  <1>1. /\ timer[TimerOf(d)] \in Nat \cup {Off} /\ timer[ReadoutOf(d)] \in Nat \cup {Off}
        /\ steps[d] \in Nat /\ steps[d] <= MaxSteps(d) /\ late \in 0..MaxLate
    BY EventFacts DEF TypeInv, TypeOK
  <1>2. /\ Period(d) \in Nat /\ MaxDelay(d) \in Nat /\ MaxSteps(d) \in Nat /\ MaxLate \in Nat
    BY DriverFacts
  <1>3. WaitAll(d) \in Nat
    BY <1>2, WaitFacts DEF WaitAll
  <1>4. WaitLeft(d) \in Nat
    <2>1. /\ Wait(d, MaxSteps(d) - steps[d]) \in Nat
          /\ Wait(d, MaxSteps(d) - steps[d] + 1) \in Nat
      <3>1. MaxSteps(d) - steps[d] \in Nat /\ MaxSteps(d) - steps[d] + 1 \in Nat
        BY <1>1, <1>2
      <3> QED
        BY <3>1, WaitFacts
    <2>2. (IF timer[TimerOf(d)] = Off THEN 0 ELSE timer[TimerOf(d)]) \in Nat
      BY <1>1
    <2> QED
      BY <1>3, <2>1, <2>2 DEF WaitLeft
  <1>5. Ticks(WaitAll(d)) \in Nat /\ Ticks(WaitLeft(d)) \in Nat
    BY <1>3, <1>4, TicksFacts
  <1> QED
    BY <1>1, <1>2, <1>3, <1>4, <1>5

\* Nothing happens to driver d and its timers.
Untouched(d) ==
  /\ request'[d] = request[d] /\ StateOf(d)' = StateOf(d) /\ steps'[d] = steps[d]
  /\ timer'[TimerOf(d)] = timer[TimerOf(d)] /\ timer'[ReadoutOf(d)] = timer[ReadoutOf(d)]
  /\ Stays(ReadoutOf(d)) /\ Stays(TimerOf(d))

LEMMA UntouchedKeeps ==
  ASSUME NEW d \in Drivers, Punctual(d), Untouched(d), late' = late
  PROVE  Punctual(d)'
  <1>1. WaitLeft(d)' = WaitLeft(d) /\ (Due(d)' <=> Due(d))
    BY DEF Untouched, WaitLeft, Due, Stays
  <1>2. WakesUp(d)' /\ Works(d)'
    BY DEF Punctual, Untouched, WakesUp, Works, Stays
  <1>3. OnTime(d)'
    BY <1>1 DEF Punctual, Untouched, OnTime, Stays
  <1> QED
    BY <1>2, <1>3 DEF Punctual

\* Driver d gets a request: a part's, or the readout whose event is handled.
LEMMA RequestKeeps ==
  ASSUME TypeInv, NEW d \in Drivers, Punctual(d), late' = late,
         request[d] = NoRequest, NEW r, request'[d] = r, r # NoRequest, steps'[d] = 1,
         StateOf(d)' \notin {"idle", "timer"},
         timer'[TimerOf(d)] = timer[TimerOf(d)], timer'[ReadoutOf(d)] = timer[ReadoutOf(d)],
         Stays(TimerOf(d)),
         IF r = ReadoutOf(d) THEN In(events, r) /\ ~In(events', r) /\ Once(events', r)
         ELSE Stays(ReadoutOf(d))
  PROVE  Punctual(d)'
  <1>1. StateOf(d) = "idle" /\ NoRequest # ReadoutOf(d)
    BY EventFacts DEF Punctual, Works
  <1>2. Works(d)'
    BY DEF Works
  <1>3. WakesUp(d)'
    BY <1>1 DEF Punctual, WakesUp, Stays
  <1>4. Due(d)' <=> Due(d)
    BY <1>1 DEF Due, Stays
  <1>5. WaitLeft(d)' = WaitLeft(d)
    <2>1. MaxSteps(d) - 1 + 1 = MaxSteps(d)
      BY TimeTypes
    <2> QED
      BY <1>1, <2>1 DEF WaitLeft, WaitAll
  <1>6. OnTime(d)'
    BY <1>1, <1>4, <1>5 DEF Punctual, OnTime, Stays
  <1> QED
    BY <1>2, <1>3, <1>6 DEF Punctual

\* Driver d goes on after an operation or a wait, or ends its request.
LEMMA ProceedKeeps ==
  ASSUME TypeInv, NEW d \in Drivers, Punctual(d), late' = late,
         request[d] # NoRequest, timer[TimerOf(d)] = Off,
         NEW next \in DriverStates, StateOf(d) = "timer" => next # "timer",
         StateOf(d)' = "idle" <=> next = "idle", StateOf(d)' = "timer" <=> next = "timer",
         IF next = "idle" THEN request'[d] = NoRequest
         ELSE request'[d] = request[d] /\ steps'[d] = steps[d] + 1 /\ steps[d] < MaxSteps(d),
         IF next = "timer" THEN timer'[TimerOf(d)] \in 1..MaxDelay(d)
         ELSE timer'[TimerOf(d)] = Off,
         timer'[ReadoutOf(d)] = timer[ReadoutOf(d)],
         Stays(ReadoutOf(d)), ~In(events', TimerOf(d)), Once(events', TimerOf(d))
  PROVE  Punctual(d)'
  <1>1. Works(d)'
    BY TimeTypes DEF Works, Punctual
  <1>2. WakesUp(d)'
    <2>1. timer'[TimerOf(d)] # Off <=> next = "timer"
      BY TimeTypes DEF Off
    <2> QED
      BY <2>1 DEF WakesUp
  <1>3. Due(d)' => Due(d)
    BY EventFacts DEF Due, Stays
  <1>4. ASSUME Due(d)'
        PROVE  WaitLeft(d)' \in Nat /\ WaitLeft(d)' <= WaitLeft(d)
    <2>1. CASE request'[d] # ReadoutOf(d)
      <3>1. In(events, ReadoutOf(d))
        BY <1>4, <2>1 DEF Due, Stays
      <3>2. request[d] # ReadoutOf(d)
        BY <3>1 DEF Punctual, OnTime
      <3> QED
        BY <2>1, <3>2, TimeTypes DEF WaitLeft
    <2>2. CASE request'[d] = ReadoutOf(d)
      <3> DEFINE n == MaxSteps(d) - (steps[d] + 1)
                 t == timer'[TimerOf(d)]
      <3>1. /\ request[d] = ReadoutOf(d) /\ next # "idle" /\ steps'[d] = steps[d] + 1
            /\ steps[d] < MaxSteps(d)
        BY <2>2, EventFacts
      <3>2. /\ n \in Nat /\ MaxSteps(d) - steps'[d] = n /\ MaxSteps(d) - steps'[d] + 1 = n + 1
            /\ MaxSteps(d) - steps[d] = n + 1 /\ MaxSteps(d) - steps[d] + 1 = n + 2
        BY <3>1, TimeTypes
      <3>3. WaitLeft(d) = IF StateOf(d) # "timer" THEN Wait(d, n + 2) ELSE 0 + Wait(d, n + 1)
        BY <3>1, <3>2 DEF WaitLeft
      <3>4. WaitLeft(d)' = IF next = "timer" THEN t + Wait(d, n) ELSE Wait(d, n + 1)
        <4>1. CASE next = "timer"
          <5>1. t # Off
            BY <4>1, TimeTypes DEF Off
          <5> QED
            BY <2>2, <3>2, <4>1, <5>1 DEF WaitLeft
        <4>2. CASE next # "timer"
          BY <2>2, <3>2, <4>2 DEF WaitLeft
        <4> QED
          BY <4>1, <4>2
      <3> HIDE DEF n, t
      <3>5. /\ Wait(d, n) \in Nat /\ Wait(d, n + 1) \in Nat /\ Wait(d, n + 2) \in Nat
            /\ Wait(d, n) <= Wait(d, n + 1) /\ Wait(d, n + 1) <= Wait(d, n + 2)
            /\ Wait(d, n + 2) = MaxDelay(d) + Wait(d, n)
        <4>1. n + 1 \in Nat /\ n + 2 \in Nat /\ (n + 1) + 1 = n + 2
          BY <3>2
        <4> QED
          BY <3>2, <4>1, WaitFacts
      <3>6. next = "timer" => t \in Nat /\ t <= MaxDelay(d)
        BY TimeTypes DEF t
      <3>7. MaxDelay(d) \in Nat
        BY TimeTypes
      <3> QED
        BY <3>3, <3>4, <3>5, <3>6, <3>7
    <2> QED
      BY <2>1, <2>2
  <1>5. OnTime(d)'
    <2>1. /\ Once(events', ReadoutOf(d))
          /\ ~(In(events', ReadoutOf(d)) /\ request'[d] = ReadoutOf(d))
          /\ timer'[ReadoutOf(d)] <= Period(d)
      BY EventFacts DEF Punctual, OnTime, Stays
    <2>2. ASSUME Due(d)'
          PROVE  /\ timer'[ReadoutOf(d)] # Off
                 /\ Period(d) - timer'[ReadoutOf(d)] + Ticks(WaitLeft(d)') - late'
                      <= Ticks(WaitAll(d))
      <3> DEFINE a == Ticks(WaitLeft(d))
                 b == Ticks(WaitLeft(d)')
                 t == timer[ReadoutOf(d)]
                 w == Ticks(WaitAll(d))
      <3>1. t # Off /\ Period(d) - t + a - late <= w
        BY <1>3, <2>2 DEF Punctual, OnTime
      <3>2. b <= a /\ a \in Nat /\ b \in Nat
        BY <1>4, <2>2, TimeTypes, TicksFacts
      <3>3. Period(d) \in Nat /\ t \in Nat /\ late \in Nat /\ w \in Nat
        BY <3>1, TimeTypes
      <3> HIDE DEF a, b, w
      <3>4. Period(d) - t + b - late <= w
        BY <3>1, <3>2, <3>3
      <3> QED
        BY <3>1, <3>4 DEF b, w
    <2> QED
      BY <2>1, <2>2 DEF OnTime, WaitAll
  <1> QED
    BY <1>1, <1>2, <1>5 DEF Punctual

-----------------------------------------------------------------------------
(* Time and the timers                                                      *)

\* While a driver waits for an operation, its operation or the end of one is under
\* way: there is work to do.
LEMMA OperationIsWork ==
  ASSUME TypeInv, EndsQueued, NEW d \in Drivers, StateOf(d) \notin {"idle", "timer"}
  PROVE  WorkIsPending
  <1>1. CASE d \in Sensors
    <2>1. driver[d] = "operation"
      BY <1>1 DEF StateOf, TypeInv, TypeOK, BusTypeOK, DriverStates
    <2>2. OpOf(d) \in Awaited
      BY <1>1, <2>1 DEF Awaited
    <2>3. InOrder(queue, done, Awaited)
      BY DEF TypeInv, BusInv
    <2>4. OpOf(d) \in Held(queue, done)
      BY <2>2, <2>3 DEF InOrder
    <2>5. queue.op_in_progress
      <3>1. CASE \E i \in DOMAIN queue.ring : OpOf(d) = queue.ring[i]
        <4>1. queue.ring # <<>>
          BY <3>1
        <4> QED
          BY <2>3, <4>1 DEF InOrder
      <3>2. CASE OpOf(d) \in {queue.transfer, done} \ {NoOp}
        BY <2>3, <3>2 DEF InOrder
      <3> QED
        BY <2>4, <3>1, <3>2 DEF Held
    <2>6. queue.transfer # NoOp \/ done # NoOp
      BY <2>3, <2>5 DEF InOrder
    <2>7. done # NoOp => events # <<>>
      BY DEF EndsQueued, In
    <2> QED
      BY <2>6, <2>7 DEF WorkIsPending
  <1>2. CASE d \notin Sensors
    <2>1. spi \in {"transfer", "complete"}
      BY <1>2 DEF StateOf, TypeInv, TypeOK
    <2>2. spi = "complete" => events # <<>>
      BY DEF EndsQueued, In
    <2> QED
      BY <2>1, <2>2 DEF WorkIsPending
  <1> QED
    BY <1>1, <1>2

\* A tick of the clock takes one from what is left of the time, and one from what is
\* left of the readout: of the ticks with work pending, or of the wait.
LEMMA TickKeeps ==
  ASSUME TypeInv, EndsQueued, NEW d \in Drivers, Punctual(d), Tick
  PROVE  Punctual(d)'
  <1> DEFINE t == timer[TimerOf(d)]
             r == timer[ReadoutOf(d)]
             t1 == timer'[TimerOf(d)]
             r1 == timer'[ReadoutOf(d)]
  <1>1. /\ t # 0 /\ t1 = (IF t = Off THEN Off ELSE t - 1)
        /\ r # 0 /\ r1 = (IF r = Off THEN Off ELSE r - 1)
    BY EventFacts DEF Tick
  <1>2. /\ WorkIsPending => late < MaxLate
        /\ late' = (IF WorkIsPending THEN late + 1 ELSE 0)
        /\ UNCHANGED <<driverVars, events>>
    BY DEF Tick
  <1>3. t \in Nat \cup {Off} /\ r \in Nat \cup {Off} /\ late \in Nat /\ Off = -1
    BY TimeTypes DEF Off
  <1>4. t1 # Off <=> t # Off
    BY <1>1, <1>3
  <1>5. request' = request /\ steps' = steps /\ StateOf(d)' = StateOf(d) /\ (Due(d)' <=> Due(d))
    BY <1>2 DEF driverVars, busVars, StateOf, Due
  <1>6. Works(d)' /\ WakesUp(d)'
    BY <1>2, <1>4, <1>5 DEF Punctual, Works, WakesUp
  <1>7. /\ WaitLeft(d)' \in Nat /\ WaitLeft(d)' <= WaitLeft(d)
        /\ request[d] = ReadoutOf(d) /\ StateOf(d) = "timer" /\ t # Off =>
             WaitLeft(d) = WaitLeft(d)' + 1
    <2>1. CASE request[d] = ReadoutOf(d) /\ StateOf(d) = "timer"
      <3> DEFINE n == Wait(d, MaxSteps(d) - steps[d])
      <3>1. WaitLeft(d) = (IF t = Off THEN 0 ELSE t) + n
        BY <2>1 DEF WaitLeft
      <3>2. WaitLeft(d)' = (IF t1 = Off THEN 0 ELSE t1) + n
        BY <1>5, <2>1 DEF WaitLeft
      <3>3. n \in Nat
        <4>1. MaxSteps(d) - steps[d] \in Nat
          BY TimeTypes
        <4> QED
          BY <4>1, WaitFacts
      <3> HIDE DEF n, t, t1
      <3> QED
        BY <1>1, <1>3, <1>4, <3>1, <3>2, <3>3
    <2>2. CASE ~(request[d] = ReadoutOf(d) /\ StateOf(d) = "timer")
      <3>1. WaitLeft(d)' = WaitLeft(d)
        BY <1>5, <2>2 DEF WaitLeft
      <3> QED
        BY <2>2, <3>1, TimeTypes
    <2> QED
      BY <2>1, <2>2
  <1>8. ASSUME ~WorkIsPending, Due(d)
        PROVE  request[d] = ReadoutOf(d) /\ StateOf(d) = "timer" /\ t # Off
    <2>1. events = <<>>
      BY <1>8 DEF WorkIsPending
    <2>2. ~In(events, ReadoutOf(d)) /\ ~In(events, TimerOf(d))
      BY <2>1 DEF In
    <2>3. request[d] = ReadoutOf(d) /\ request[d] # NoRequest
      BY <1>8, <2>2, EventFacts DEF Due
    <2>4. StateOf(d) # "idle"
      BY <2>3 DEF Punctual, Works
    <2>5. StateOf(d) = "timer"
      BY <1>8, <2>4, OperationIsWork
    <2> QED
      BY <2>2, <2>3, <2>5 DEF Punctual, WakesUp
  <1>9. OnTime(d)'
    <2>1. /\ Once(events', ReadoutOf(d))
          /\ ~(In(events', ReadoutOf(d)) /\ request'[d] = ReadoutOf(d))
      BY <1>2, <1>5 DEF Punctual, OnTime
    <2>2. r1 <= Period(d)
      <3>1. r <= Period(d) /\ Period(d) \in Nat
        BY TimeTypes DEF Punctual, OnTime
      <3> HIDE DEF r, r1
      <3> QED
        BY <1>1, <1>3, <3>1
    <2>3. ASSUME Due(d)
          PROVE  /\ r1 # Off
                 /\ Period(d) - r1 + Ticks(WaitLeft(d)') - late' <= Ticks(WaitAll(d))
      <3> DEFINE a == Ticks(WaitLeft(d))
                 b == Ticks(WaitLeft(d)')
                 w == Ticks(WaitAll(d))
      <3>1. r # Off /\ Period(d) - r + a - late <= w
        BY <2>3 DEF Punctual, OnTime
      <3>2. /\ b <= a /\ a \in Nat /\ b \in Nat
            /\ ~WorkIsPending => a = b + 1 + MaxLate
        BY <1>7, <1>8, <2>3, TimeTypes, TicksFacts
      <3>3. Period(d) \in Nat /\ w \in Nat /\ MaxLate \in Nat /\ late <= MaxLate
        BY TimeTypes
      <3> HIDE DEF a, b, w, r, r1
      <3>4. r1 = r - 1 /\ r1 # Off /\ r \in Nat
        BY <1>1, <1>3, <3>1
      <3>5. CASE WorkIsPending
        BY <1>2, <1>3, <3>1, <3>2, <3>3, <3>4, <3>5 DEF b, w
      <3>6. CASE ~WorkIsPending
        BY <1>2, <1>3, <3>1, <3>2, <3>3, <3>4, <3>6 DEF b, w
      <3> QED
        BY <3>5, <3>6
    <2> QED
      BY <1>5, <2>1, <2>2, <2>3 DEF OnTime, WaitAll
  <1> QED
    BY <1>6, <1>9 DEF Punctual

\* A readout timer expires: the readout before is over, so this one is the only one.
LEMMA ReadoutDue ==
  ASSUME TypeInv, PeriodsSuffice, NEW d \in Drivers, Punctual(d), timer[ReadoutOf(d)] = 0
  PROVE  ~Due(d)
  <1> SUFFICES ASSUME Due(d) PROVE FALSE
    OBVIOUS
  <1> DEFINE a == Ticks(WaitLeft(d))
             w == Ticks(WaitAll(d))
  <1>1. Period(d) - 0 + a - late <= w
    BY DEF Punctual, OnTime
  <1>2. a \in Nat /\ a >= MaxLate /\ late <= MaxLate /\ late \in Nat /\ MaxLate \in Nat
        /\ Period(d) \in Nat /\ w \in Nat
    BY TimeTypes, TicksFacts
  <1>3. w < Period(d)
    BY DEF PeriodsSuffice
  <1> HIDE DEF a, w
  <1> QED
    BY <1>1, <1>2, <1>3

LEMMA ReadoutTimerKeeps ==
  ASSUME TypeInv, PeriodsSuffice, NEW d \in Drivers, Punctual(d), late' = late,
         timer[ReadoutOf(d)] = 0, timer'[ReadoutOf(d)] = Period(d),
         timer'[TimerOf(d)] = timer[TimerOf(d)],
         request'[d] = request[d], StateOf(d)' = StateOf(d), steps'[d] = steps[d],
         Stays(TimerOf(d)), In(events', ReadoutOf(d)),
         ~In(events, ReadoutOf(d)) => Once(events', ReadoutOf(d))
  PROVE  Punctual(d)'
  <1>1. ~In(events, ReadoutOf(d)) /\ request[d] # ReadoutOf(d)
    BY ReadoutDue DEF Due
  <1>2. WakesUp(d)' /\ Works(d)'
    BY DEF Punctual, WakesUp, Works, Stays
  <1>3. WaitLeft(d)' = WaitAll(d)
    BY <1>1 DEF WaitLeft, WaitAll
  <1>4. Period(d) # Off /\ Period(d) <= Period(d)
        /\ Period(d) - Period(d) + Ticks(WaitAll(d)) - late <= Ticks(WaitAll(d))
    BY TimeTypes DEF Off
  <1>5. OnTime(d)'
    BY <1>1, <1>3, <1>4 DEF OnTime, WaitAll
  <1> QED
    BY <1>2, <1>5 DEF Punctual

\* The timer of a driver expires.
LEMMA DriverTimerKeeps ==
  ASSUME TypeInv, NEW d \in Drivers, Punctual(d), late' = late,
         timer[TimerOf(d)] = 0, timer'[TimerOf(d)] = Off,
         timer'[ReadoutOf(d)] = timer[ReadoutOf(d)],
         request'[d] = request[d], StateOf(d)' = StateOf(d), steps'[d] = steps[d],
         Stays(ReadoutOf(d)), In(events', TimerOf(d)),
         ~In(events, TimerOf(d)) => Once(events', TimerOf(d))
  PROVE  Punctual(d)'
  <1>1. timer[TimerOf(d)] # Off
    BY DEF Off
  <1>2. StateOf(d) = "timer" /\ ~In(events, TimerOf(d))
    BY <1>1 DEF Punctual, WakesUp
  <1>3. WakesUp(d)' /\ Works(d)'
    BY <1>2 DEF Punctual, WakesUp, Works
  <1>4. WaitLeft(d)' = WaitLeft(d) /\ (Due(d)' <=> Due(d))
    BY <1>1, <1>2 DEF WaitLeft, Due, Stays
  <1>5. OnTime(d)'
    BY <1>4 DEF Punctual, OnTime, Stays
  <1> QED
    BY <1>3, <1>5 DEF Punctual

\* The readout timers are started, all at their full periods.
LEMMA StartsKeep ==
  ASSUME TypeInv, NEW d \in Drivers, Punctual(d), late' = late,
         timer'[TimerOf(d)] = timer[TimerOf(d)], timer'[ReadoutOf(d)] = Period(d),
         request'[d] = request[d], StateOf(d)' = StateOf(d), steps'[d] = steps[d],
         events' = events
  PROVE  Punctual(d)'
  <1>1. WakesUp(d)' /\ Works(d)'
    BY DEF Punctual, WakesUp, Works
  <1>2. WaitLeft(d)' = WaitLeft(d) /\ (Due(d)' <=> Due(d))
    BY DEF WaitLeft, Due
  <1> DEFINE a == Ticks(WaitLeft(d))
             w == Ticks(WaitAll(d))
             t == timer[ReadoutOf(d)]
  <1>3. Period(d) # Off /\ Period(d) <= Period(d)
    BY TimeTypes DEF Off
  <1>4. ASSUME Due(d)
        PROVE  Period(d) - Period(d) + a - late <= w
    <2>1. t # Off /\ t <= Period(d) /\ Period(d) - t + a - late <= w
      BY <1>4 DEF Punctual, OnTime
    <2>2. t \in Nat /\ Period(d) \in Nat /\ a \in Nat /\ w \in Nat /\ late \in Nat
      BY <2>1, TimeTypes
    <2> HIDE DEF a, w, t
    <2> QED
      BY <2>1, <2>2
  <1>5. OnTime(d)'
    BY <1>2, <1>3, <1>4 DEF Punctual, OnTime, WaitAll
  <1> QED
    BY <1>1, <1>5 DEF Punctual

-----------------------------------------------------------------------------
(* The queue is handled, and requests are made                              *)

\* Nothing is submitted that counts.
Uncounted(new) == \A e : Counted(e) => ~In(new, e)

LEMMA UncountedFacts ==
  /\ Uncounted(<<>>) /\ <<>> \in Seq(Events)
  /\ \A x : ~Counted(x) => Uncounted(<<x>>)
  /\ \A x, y : ~Counted(x) /\ ~Counted(y) => Uncounted(<<x, y>>)
  BY DEF Uncounted, In

\* An event that does not count is handled, or submitted: those that count stay.
LEMMA PlainHandled ==
  ASSUME events \in Seq(Events), events # <<>>, NEW new \in Seq(Events), Submit(new),
         Uncounted(new), ~Counted(Head(events))
  PROVE  \A e : Counted(e) => Stays(e)
  <1> TAKE e
  <1> HAVE Counted(e)
  <1>1. e # Head(events) /\ ~In(new, e)
    BY DEF Uncounted
  <1> QED
    BY <1>1, HandledStays

LEMMA PlainSubmitted ==
  ASSUME events \in Seq(Events), NEW x \in Events, ~Counted(x), events' = Append(events, x)
  PROVE  \A e : Counted(e) => Stays(e)
  <1> TAKE e
  <1> HAVE Counted(e)
  <1>1. e # x
    OBVIOUS
  <1> QED
    BY <1>1, SubmittedStays

\* Neither a driver, nor its timers, nor an event that counts is concerned.
LEMMA PlainTimeStep ==
  ASSUME TypeInv, TimeInv, UNCHANGED <<driverVars, late>>,
         \A t \in Timers \ {HwTimer} : timer'[t] = timer[t],
         \A e : Counted(e) => Stays(e)
  PROVE  TimeInv'
  <1>1. UNCHANGED <<queue, done, driver, number, spi, request, steps, late>>
    BY DEF driverVars, busVars
  <1>2. EndsQueued'
    BY <1>1, EventFacts DEF TimeInv, EndsQueued, Stays
  <1>3. ASSUME NEW d \in Drivers
        PROVE  Punctual(d)'
    <2>1. Untouched(d)
      BY <1>1, EventFacts DEF Untouched, StateOf
    <2> QED
      BY <1>1, <2>1, UntouchedKeeps DEF TimeInv, Punctual
  <1> QED
    BY <1>2, <1>3 DEF TimeInv, Punctual

\* An event leads to a request: of a part, or for a readout.
LEMMA RequestTimeStep ==
  ASSUME TypeInv, TimeInv, NEW d \in Drivers, NEW r, NEW asserted,
         events # <<>>, Head(events) = r, Submit(<<>>), Request(d, r, asserted),
         r = ReadoutOf(d) \/ (~Counted(r) /\ r # NoRequest),
         UNCHANGED <<timer, late>>
  PROVE  TimeInv'
  <1>1. events \in Seq(Events)
    BY DEF TypeInv, TypeOK
  <1>2. \A e : e # r => Stays(e)
    <2> TAKE e
    <2>1. ~In(<<>>, e) /\ <<>> \in Seq(Events)
      BY DEF In
    <2> QED
      BY <1>1, <2>1, HandledStays
  <1>3. r = ReadoutOf(d) => In(events, r) /\ ~In(events', r) /\ Once(events', r)
    <2>1. ~In(<<>>, r) /\ <<>> \in Seq(Events)
      BY DEF In
    <2>2. r = ReadoutOf(d) => Once(events, r)
      BY DEF TimeInv, OnTime
    <2> QED
      BY <1>1, <2>1, <2>2, HandledStays
  <1>4. /\ Counted(I2cEvent) /\ Counted(SpiEvent) /\ r # I2cEvent /\ r # SpiEvent
        /\ r # NoRequest
        /\ \A c : r # TimerOf(c) /\ (c # d => r # ReadoutOf(c))
        /\ r # ReadoutOf(d) => Stays(ReadoutOf(d))
    BY <1>2, EventFacts
  <1>5. /\ Stays(I2cEvent) /\ Stays(SpiEvent) /\ \A c : Stays(TimerOf(c))
        /\ \A c : c # d => Stays(ReadoutOf(c))
    BY <1>2, <1>4
  <1>6. CASE asserted /\ request[d] = NoRequest
    <2>1. /\ request' = [request EXCEPT ![d] = r] /\ steps' = [steps EXCEPT ![d] = 1]
          /\ IF d \in Sensors THEN DriverRequest(d) /\ UNCHANGED spi
             ELSE spi' = "transfer" /\ UNCHANGED busVars
      BY <1>6 DEF Request
    <2>2. request \in [Drivers -> Events \cup {NoRequest}] /\ steps \in [Drivers -> Nat]
          /\ driver \in [Sensors -> DriverStates] /\ Drivers = Sensors \cup {"bmp280"}
      BY DEF TypeInv, TypeOK, BusTypeOK, Drivers
    <2>3. /\ request'[d] = r /\ steps'[d] = 1
          /\ \A c \in Drivers : c # d => request'[c] = request[c] /\ steps'[c] = steps[c]
      BY <2>1, <2>2
    <2>4. /\ StateOf(d)' \notin {"idle", "timer"}
          /\ \A c \in Drivers : c # d => StateOf(c)' = StateOf(c)
      BY <2>1, <2>2 DEF StateOf, DriverRequest, DriverGoes, busVars
    <2>5. EndsQueued'
      <3>1. done' = done
        BY <2>1 DEF DriverRequest, busVars
      <3>2. spi' = "complete" <=> spi = "complete"
        <4>1. CASE d \in Sensors
          BY <2>1, <4>1
        <4>2. CASE d \notin Sensors
          <5>1. spi = "idle"
            BY <1>6, <4>2 DEF TimeInv, Works, StateOf
          <5> QED
            BY <2>1, <4>2, <5>1
        <4> QED
          BY <4>1, <4>2
      <3> QED
        BY <1>5, <3>1, <3>2 DEF TimeInv, EndsQueued, Stays
    <2>6. Punctual(d)'
      BY <1>3, <1>4, <1>5, <1>6, <2>3, <2>4, RequestKeeps DEF TimeInv, Punctual
    <2>7. ASSUME NEW c \in Drivers, c # d
          PROVE  Punctual(c)'
      <3>1. Untouched(c)
        BY <1>5, <2>3, <2>4, <2>7 DEF Untouched
      <3> QED
        BY <3>1, UntouchedKeeps DEF TimeInv, Punctual
    <2> QED
      BY <2>5, <2>6, <2>7 DEF TimeInv, Punctual
  <1>7. CASE ~(asserted /\ request[d] = NoRequest)
    <2>1. UNCHANGED <<queue, done, driver, number, spi, request, steps>>
      BY <1>7 DEF Request, driverVars, busVars
    <2>2. EndsQueued'
      BY <1>5, <2>1 DEF TimeInv, EndsQueued, Stays
    <2>3. \A c \in Drivers : StateOf(c)' = StateOf(c)
      BY <2>1 DEF StateOf
    <2>4. ASSUME NEW c \in Drivers, c # d \/ r # ReadoutOf(d)
          PROVE  Punctual(c)'
      <3>1. Untouched(c)
        BY <1>4, <1>5, <2>1, <2>3, <2>4 DEF Untouched
      <3> QED
        BY <3>1, UntouchedKeeps DEF TimeInv, Punctual
    <2>5. ASSUME r = ReadoutOf(d)
          PROVE  Punctual(d)'
      <3>1. request[d] # ReadoutOf(d)
        BY <1>3, <2>5 DEF TimeInv, OnTime
      <3>2. WakesUp(d)' /\ Works(d)'
        BY <1>5, <2>1, <2>3 DEF TimeInv, WakesUp, Works, Stays
      <3>3. ~Due(d)'
        BY <1>3, <2>1, <2>5, <3>1 DEF Due
      <3>4. OnTime(d)'
        BY <1>3, <2>1, <2>5, <3>1, <3>3 DEF TimeInv, OnTime
      <3> QED
        BY <3>2, <3>4 DEF Punctual
    <2> QED
      BY <2>2, <2>4, <2>5 DEF TimeInv, Punctual
  <1> QED
    BY <1>6, <1>7

\* What a driver's callback submits is the next part, or samples.
LEMMA GoOnSubmits ==
  ASSUME TypeInv, NEW d \in Drivers, NEW next \in DriverStates, NEW ok \in BOOLEAN,
         GoOn(d, next, ok)
  PROVE  \E new \in Seq(Events) : Submit(new) /\ Uncounted(new)
  <1>1. CASE next = "idle"
    <2>1. IF request[d][1] = "part" THEN InitPartComplete(request[d][2], ok)
          ELSE ReadoutComplete(d, ok)
      BY <1>1 DEF GoOn
    <2>2. CASE request[d][1] = "part"
      <3>1. PICK n \in PartsOf(d) : request[d][2] = n
        BY <2>2, PartFacts DEF TypeInv
      <3>2. n \in 1..10
        BY <3>1, DriverFacts
      <3>3. n + 1 \in Nat /\ n + 1 \in 1..12
        BY <3>2
      <3>4. Part(n + 1) \in Events /\ ~Counted(Part(n + 1))
        BY <3>3, EventFacts DEF Events
      <3>5. Submit(<<Part(n + 1)>>) \/ Submit(<<>>)
        BY <2>1, <2>2, <3>1 DEF InitPartComplete
      <3> HIDE DEF Part
      <3>6. <<Part(n + 1)>> \in Seq(Events) /\ Uncounted(<<Part(n + 1)>>)
        BY <3>4, UncountedFacts
      <3> QED
        BY <3>5, <3>6, UncountedFacts
    <2>3. CASE request[d][1] # "part"
      <3>1. PICK new \in Sht31Samples(ok) \cup Bh1750Samples(ok) \cup Bmp280Samples(ok) : Submit(new)
        BY <2>1, <2>3 DEF ReadoutComplete
      <3>2. \A v \in {"temperature", "humidity", "pressure", "light_intensity"} :
              Sample(v) \in Events /\ ~Counted(Sample(v))
        BY EventFacts, DriverFacts DEF Samples
      <3> HIDE DEF Sample
      <3>3. /\ <<Sample("temperature"), Sample("humidity")>> \in Seq(Events)
            /\ <<Sample("light_intensity")>> \in Seq(Events)
            /\ <<Sample("pressure")>> \in Seq(Events)
        BY <3>2
      <3>4. /\ Uncounted(<<Sample("temperature"), Sample("humidity")>>)
            /\ Uncounted(<<Sample("light_intensity")>>) /\ Uncounted(<<Sample("pressure")>>)
        BY <3>2, UncountedFacts
      <3>5. \/ new = <<>> \/ new = <<Sample("temperature"), Sample("humidity")>>
            \/ new = <<Sample("light_intensity")>> \/ new = <<Sample("pressure")>>
        BY <3>1, Zenon DEF Sht31Samples, Bh1750Samples, Bmp280Samples
      <3>6. new \in Seq(Events) /\ Uncounted(new)
        BY <3>3, <3>4, <3>5, UncountedFacts
      <3> QED
        BY <3>1, <3>6
    <2> QED
      BY <2>2, <2>3
  <1>2. CASE next # "idle"
    BY <1>2, UncountedFacts DEF GoOn
  <1> QED
    BY <1>1, <1>2

-----------------------------------------------------------------------------
(* The ends of operations and waits                                         *)

\* Driver d goes on, after an operation or when its timer's callback is executed: it,
\* the other drivers, and what stays in the queue.
LEMMA GoOnTimeStep ==
  ASSUME TypeInv, TimeInv, NEW d \in Drivers, NEW rc, NEW next \in DriverStates,
         NEW ok \in BOOLEAN, MayGoOn(d, rc, next, ok), GoOn(d, next, ok), late' = late,
         events # <<>>,
         \/ Head(events) = TimerOf(d) /\ next # "timer"
         \/ Head(events) \in {I2cEvent, SpiEvent} /\ StateOf(d) \notin {"idle", "timer"},
         StateOf(d)' = "idle" <=> next = "idle", StateOf(d)' = "timer" <=> next = "timer",
         \A c \in Drivers : c # d => StateOf(c)' = StateOf(c)
  PROVE  /\ \A c \in Drivers : Punctual(c)'
         /\ \A e \in {I2cEvent, SpiEvent} : e # Head(events) => Stays(e)
         /\ \A e \in {I2cEvent, SpiEvent} :
              e = Head(events) /\ Once(events, e) => ~In(events', e) /\ Once(events', e)
  <1>1. /\ events \in Seq(Events) /\ request \in [Drivers -> Events \cup {NoRequest}]
        /\ steps \in [Drivers -> Nat] /\ timer \in [Timers -> Nat \cup {Off}]
    BY DEF TypeInv, TypeOK
  <1>2. PICK new \in Seq(Events) : Submit(new) /\ Uncounted(new)
    BY GoOnSubmits
  <1>3. \A e : Counted(e) => /\ e # Head(events) => Stays(e)
                             /\ e = Head(events) /\ Once(events, e) =>
                                  ~In(events', e) /\ Once(events', e)
                             /\ e = Head(events) => In(events, e)
    <2> TAKE e
    <2> HAVE Counted(e)
    <2>1. ~In(new, e)
      BY <1>2 DEF Uncounted
    <2> QED
      BY <1>1, <1>2, <2>1, HandledStays
  <1>4. /\ \A c : Head(events) # ReadoutOf(c)
        /\ \A c \in Drivers : c # d => Head(events) # TimerOf(c)
    BY EventFacts
  <1>5. \A c \in Drivers : /\ Stays(ReadoutOf(c))
                           /\ c # d => Stays(TimerOf(c))
    BY <1>3, <1>4, EventFacts
  <1>6. \A c \in Drivers : c # d =>
          request'[c] = request[c] /\ steps'[c] = steps[c] /\ timer'[TimerOf(c)] = timer[TimerOf(c)]
    <2>1. request' \in {request, [request EXCEPT ![d] = NoRequest]}
      BY DEF GoOn
    <2>2. steps' = [steps EXCEPT ![d] = 0] \/ steps' = [steps EXCEPT ![d] = @ + 1]
      BY DEF GoOn
    <2>3. timer' = timer \/ \E delay : timer' = [timer EXCEPT ![TimerOf(d)] = delay]
      BY DEF GoOn, TimerOf
    <2> QED
      BY <1>1, <2>1, <2>2, <2>3, EventFacts
  <1>7. \A c \in Drivers : timer'[ReadoutOf(c)] = timer[ReadoutOf(c)]
    <2>1. timer' = timer \/ \E delay : timer' = [timer EXCEPT ![TimerOf(d)] = delay]
      BY DEF GoOn, TimerOf
    <2> QED
      BY <1>1, <2>1, EventFacts
  <1>8. ASSUME NEW c \in Drivers, c # d
        PROVE  Punctual(c)'
    <2>1. Untouched(c)
      BY <1>5, <1>6, <1>7, <1>8 DEF Untouched
    <2> QED
      BY <2>1, UntouchedKeeps DEF TimeInv, Punctual
  <1>9. Punctual(d)'
    <2>1. Punctual(d)
      BY DEF TimeInv, Punctual
    <2>2. /\ ~In(events', TimerOf(d)) /\ Once(events', TimerOf(d))
          /\ timer[TimerOf(d)] = Off /\ StateOf(d) # "idle"
          /\ StateOf(d) = "timer" => next # "timer"
      <3>1. CASE Head(events) = TimerOf(d) /\ next # "timer"
        BY <1>3, <2>1, <3>1, EventFacts DEF Punctual, WakesUp
      <3>2. CASE Head(events) \in {I2cEvent, SpiEvent} /\ StateOf(d) \notin {"idle", "timer"}
        <4>1. Stays(TimerOf(d))
          BY <1>3, <3>2, EventFacts
        <4> QED
          BY <2>1, <3>2, <4>1 DEF Punctual, WakesUp, Stays
      <3> QED
        BY <3>1, <3>2
    <2>3. request[d] # NoRequest
      BY <2>1, <2>2 DEF Punctual, Works
    <2>4. IF next = "idle" THEN request'[d] = NoRequest
          ELSE request'[d] = request[d] /\ steps'[d] = steps[d] + 1 /\ steps[d] < MaxSteps(d)
      BY <1>1 DEF GoOn, MayGoOn
    <2>5. IF next = "timer" THEN timer'[TimerOf(d)] \in 1..MaxDelay(d)
          ELSE timer'[TimerOf(d)] = Off
      <3>1. CASE next = "timer"
        <4>1. PICK delay \in 1..MaxDelay(d) : timer' = [timer EXCEPT ![TimerOf(d)] = delay]
          BY <3>1 DEF GoOn, TimerOf
        <4> QED
          BY <1>1, <3>1, <4>1, EventFacts
      <3>2. CASE next # "timer"
        <4>1. timer' = timer
          BY <3>2 DEF GoOn
        <4> QED
          BY <2>2, <3>2, <4>1
      <3> QED
        BY <3>1, <3>2
    <2> QED
      BY <1>5, <1>7, <2>1, <2>2, <2>3, <2>4, <2>5, ProceedKeeps
  <1> QED
    BY <1>3, <1>8, <1>9, EventFacts

\* The event that is handled is in the queue.
LEMMA HeadIsIn ==
  ASSUME TypeInv, NEW e, events # <<>>, Head(events) = e
  PROVE  In(events, e)
  <1>1. events \in Seq(Events)
    BY DEF TypeInv, TypeOK
  <1>2. 1 \in DOMAIN events /\ events[1] = e
    BY <1>1
  <1> QED
    BY <1>2 DEF In

\* The ends of operations and waits.
LEMMA DriversOnTime ==
  ASSUME TypeInv, TimeInv,
         HandleI2cEvent \/ HandleSpiEvent \/ \E d \in Drivers : HandleDriverTimer(d)
  PROVE  TimeInv'
  <1>1. /\ driver \in [Sensors -> DriverStates] /\ Drivers = Sensors \cup {"bmp280"}
        /\ "bmp280" \notin Sensors /\ EndsQueued
    BY PlatformAssumption DEF TypeInv, TypeOK, BusTypeOK, Drivers, TimeInv
  <1>2. CASE HandleI2cEvent
    <2>1. PICK event \in TwimEvents, next \in DriverStates, ok \in BOOLEAN :
            /\ MayGoOn(queue.cb_data.sensor,
                       DriverResultCode(queue.cb_data.sensor, I2cResultCode(event)), next, ok)
            /\ GoOn(queue.cb_data.sensor, next, ok)
            /\ HandleI2cTransComplete(next)
      BY <1>2 DEF HandleI2cEvent
    <2>2. /\ events # <<>> /\ Head(events) = I2cEvent /\ spi' = spi /\ late' = late
      BY <1>2 DEF HandleI2cEvent, Handling
    <2>3. PICK s \in Sensors : s = queue.cb_data.sensor /\ driver[s] = "operation"
      <3>1. InOrder(queue, done, Awaited) /\ BusTypeOK
        BY DEF TypeInv, BusInv
      <3>2. queue.cb_data = done /\ done \in Awaited
        BY <2>1, <3>1 DEF InOrder, Held, HandleI2cTransComplete
      <3> QED
        BY <3>1, <3>2, AwaitedOps
    <2>4. /\ done # NoOp /\ done' = NoOp /\ driver' = [driver EXCEPT ![s] = next]
          /\ MayGoOn(s, DriverResultCode(s, I2cResultCode(event)), next, ok) /\ GoOn(s, next, ok)
      BY <2>1, <2>3 DEF HandleI2cTransComplete, DriverGoes
    <2>5. /\ s \in Drivers /\ StateOf(s) = "operation" /\ StateOf(s)' = next
          /\ \A c \in Drivers : c # s => StateOf(c)' = StateOf(c)
      BY <1>1, <2>2, <2>3, <2>4 DEF StateOf
    <2>6. Stays(SpiEvent) /\ \A c \in Drivers : Punctual(c)'
      <3>1. Head(events) \in {I2cEvent, SpiEvent} /\ StateOf(s) \notin {"idle", "timer"}
        BY <2>2, <2>5
      <3> QED
        BY <2>2, <2>4, <2>5, <3>1, GoOnTimeStep, EventFacts
    <2>7. EndsQueued'
      BY <1>1, <2>2, <2>4, <2>6 DEF EndsQueued, Stays
    <2> QED
      BY <2>6, <2>7 DEF TimeInv, Punctual
  <1>3. CASE HandleSpiEvent
    <2>1. PICK rc \in {"OK", "ERR"}, next \in DriverStates, ok \in BOOLEAN :
            MayGoOn("bmp280", rc, next, ok) /\ GoOn("bmp280", next, ok) /\ SpiGoesOn(next)
      BY <1>3 DEF HandleSpiEvent
    <2>2. /\ events # <<>> /\ Head(events) = SpiEvent /\ late' = late
          /\ done' = done /\ driver' = driver
      BY <1>3 DEF HandleSpiEvent, Handling, busVars
    <2>3. Once(events, SpiEvent) /\ spi = "complete"
      BY <1>1, <2>2, HeadIsIn DEF EndsQueued
    <2>4. /\ "bmp280" \in Drivers /\ StateOf("bmp280") = "complete"
          /\ StateOf("bmp280")' = "idle" <=> next = "idle"
          /\ StateOf("bmp280")' = "timer" <=> next = "timer"
          /\ \A c \in Drivers : c # "bmp280" => StateOf(c)' = StateOf(c)
          /\ spi' # "complete"
      BY <1>1, <2>1, <2>2, <2>3 DEF StateOf, SpiGoesOn, DriverStates
    <2>5. /\ Stays(I2cEvent) /\ ~In(events', SpiEvent) /\ Once(events', SpiEvent)
          /\ \A c \in Drivers : Punctual(c)'
      <3>1. /\ Head(events) \in {I2cEvent, SpiEvent}
            /\ StateOf("bmp280") \notin {"idle", "timer"}
        BY <2>2, <2>4
      <3> QED
        BY <2>1, <2>2, <2>3, <2>4, <3>1, GoOnTimeStep, EventFacts
    <2>6. EndsQueued'
      BY <1>1, <2>2, <2>4, <2>5 DEF EndsQueued, Stays
    <2> QED
      BY <2>5, <2>6 DEF TimeInv, Punctual
  <1>4. ASSUME NEW d \in Drivers, HandleDriverTimer(d)
        PROVE  TimeInv'
    <2>1. PICK next \in {"idle", "operation"} :
            /\ Handling(<<"driver", d>>)
            /\ MayGoOn(d, "OK", next, TRUE) /\ GoOn(d, next, TRUE)
            /\ IF d \in Sensors THEN DriverTimerExpiredCb(d, next) /\ UNCHANGED spi
               ELSE SpiGoesOn(next) /\ UNCHANGED busVars
      BY <1>4 DEF HandleDriverTimer
    <2>2. /\ events # <<>> /\ Head(events) = TimerOf(d) /\ late' = late
          /\ next \in DriverStates /\ next # "timer"
      BY <1>4, <2>1 DEF HandleDriverTimer, Handling, TimerOf, DriverStates
    <2>3. StateOf(d) = "timer"
      BY <2>2, HeadIsIn DEF TimeInv, WakesUp
    <2>4. /\ StateOf(d)' = "idle" <=> next = "idle"
          /\ StateOf(d)' = "timer" <=> next = "timer"
          /\ \A c \in Drivers : c # d => StateOf(c)' = StateOf(c)
          /\ done' = done /\ (spi' = "complete" <=> spi = "complete")
      <3>1. CASE d \in Sensors
        <4>1. driver' = [driver EXCEPT ![d] = next] /\ done' = done /\ spi' = spi
          BY <2>1, <3>1 DEF DriverTimerExpiredCb, DriverGoes
        <4> QED
          BY <1>1, <2>1, <3>1, <4>1 DEF StateOf
      <3>2. CASE d \notin Sensors
        <4>1. /\ driver' = driver /\ done' = done /\ d = "bmp280"
              /\ spi' = IF next = "operation" THEN "transfer" ELSE next
          BY <1>1, <2>1, <3>2 DEF SpiGoesOn, busVars
        <4>2. spi = "timer"
          BY <2>3, <3>2 DEF StateOf
        <4> QED
          BY <1>1, <2>1, <3>2, <4>1, <4>2 DEF StateOf
      <3> QED
        BY <3>1, <3>2
    <2>5. Stays(I2cEvent) /\ Stays(SpiEvent) /\ \A c \in Drivers : Punctual(c)'
      <3>1. Head(events) # I2cEvent /\ Head(events) # SpiEvent
        BY <2>2, EventFacts
      <3> QED
        BY <2>1, <2>2, <2>4, <3>1, GoOnTimeStep
    <2>6. EndsQueued'
      BY <1>1, <2>4, <2>5 DEF EndsQueued, Stays
    <2> QED
      BY <2>5, <2>6 DEF TimeInv, Punctual
  <1> QED
    BY <1>2, <1>3, <1>4

-----------------------------------------------------------------------------
(* Every step, and the theorems                                             *)

\* The invariant holds at first: the platform has only InitEvent to handle.
LEMMA TimeInit == Init => TimeInv
  <1> SUFFICES ASSUME Init PROVE TimeInv
    OBVIOUS
  <1>1. /\ events = <<InitEvent>> /\ DOMAIN events = 1..1 /\ events[1] = InitEvent
        /\ done = NoOp /\ spi = "idle"
    BY DEF Init, BusInit
  <1>2. \A e : Counted(e) => ~In(events, e) /\ Once(events, e)
    BY <1>1, EventFacts DEF In, Once
  <1>3. EndsQueued
    BY <1>1, <1>2, EventFacts DEF EndsQueued
  <1>4. ASSUME NEW d \in Drivers
        PROVE  Punctual(d)
    <2>1. /\ timer[TimerOf(d)] = Off /\ timer[ReadoutOf(d)] = Off
          /\ request[d] = NoRequest /\ StateOf(d) = "idle"
      BY <1>1, EventFacts DEF Init, BusInit, StateOf
    <2>2. ~Due(d) /\ Off <= Period(d)
      BY <1>2, <2>1, EventFacts, DriverFacts DEF Due, Off
    <2> QED
      BY <1>2, <2>1, <2>2, EventFacts DEF Punctual, WakesUp, Works, OnTime
  <1> QED
    BY <1>3, <1>4 DEF TimeInv, Punctual

\* The initialisation of the platform.
LEMMA InitChainOnTime ==
  ASSUME TypeInv, TimeInv, InitChain
  PROVE  TimeInv'
  <1>1. events \in Seq(Events) /\ \A n \in Nat : ~Counted(Part(n)) /\ Part(n) # NoRequest
    BY EventFacts DEF TypeInv, TypeOK
  <1>2. ASSUME NEW n \in 1..10, NEW d \in Drivers, InitPartCreates(n, d) \/ InitPartConfigures(n, d)
        PROVE  TimeInv'
    <2>1. PICK asserted \in {(d \in objects), (d \notin objects)} : Request(d, Part(n), asserted)
      BY <1>2 DEF InitPartCreates, InitPartConfigures
    <2>2. /\ events # <<>> /\ Head(events) = Part(n) /\ Submit(<<>>)
          /\ UNCHANGED <<timer, late>>
      BY <1>2 DEF InitPartCreates, InitPartConfigures, Handling
    <2> QED
      BY <1>1, <2>1, <2>2, RequestTimeStep
  <1>3. CASE InitPart1 \/ InitPart2 \/ InitPart3 \/ InitPart4 \/ InitParts6To10
    BY <1>2, <1>3, DriverFacts
    DEF InitPart1, InitPart2, InitPart3, InitPart4, InitParts6To10
  <1>4. ASSUME NEW new \in Seq(Events), Uncounted(new), Submit(new), NEW e, Handling(e), ~Counted(e),
               UNCHANGED <<driverVars, late>>,
               \A t \in Timers \ {HwTimer} : timer'[t] = timer[t]
        PROVE  TimeInv'
    <2>1. events # <<>> /\ Head(events) = e
      BY <1>4 DEF Handling
    <2> QED
      BY <1>1, <1>4, <2>1, PlainHandled, PlainTimeStep
  <1>5. CASE InitPart5
    <2>1. Handling(Part(5)) /\ Submit(<<>>) /\ UNCHANGED <<timer, late>>
      BY <1>5 DEF InitPart5
    <2>2. CASE Request("bmp280", Part(5), TRUE)
      <3>1. events # <<>> /\ Head(events) = Part(5)
        BY <2>1 DEF Handling
      <3> QED
        BY <1>1, <2>1, <2>2, <3>1, RequestTimeStep, DriverFacts
    <2>3. CASE UNCHANGED driverVars
      BY <1>1, <1>4, <2>1, <2>3, UncountedFacts
    <2> QED
      BY <1>5, <2>2, <2>3 DEF InitPart5
  <1>6. CASE HandleInitEvent
    <2>1. \A t \in Timers \ {HwTimer} : timer'[t] = timer[t]
      BY <1>6 DEF HandleInitEvent, TypeInv, TypeOK
    <2> QED
      BY <1>4, <1>6, <2>1, UncountedFacts, EventFacts DEF HandleInitEvent
  <1>7. CASE InitPart0Complete
    <2>1. Part(1) \in Events
      BY DEF Events
    <2> HIDE DEF Part
    <2>2. <<Part(1)>> \in Seq(Events) /\ Uncounted(<<Part(1)>>)
      BY <1>1, <2>1, UncountedFacts
    <2> QED
      BY <1>4, <1>7, <2>2, EventFacts DEF InitPart0Complete
  <1>8. CASE InitPart11
    BY <1>1, <1>4, <1>8, UncountedFacts DEF InitPart11
  <1>9. CASE InitPart12
    <2>1. AdvertisingEvent \in Events /\ InitPart2Event \in Events
      BY DEF Events
    <2>2. /\ <<AdvertisingEvent, InitPart2Event>> \in Seq(Events)
          /\ Uncounted(<<AdvertisingEvent, InitPart2Event>>)
      BY <2>1, UncountedFacts, EventFacts
    <2> QED
      BY <1>1, <1>4, <1>9, <2>2 DEF InitPart12
  <1> QED
    BY <1>3, <1>5, <1>6, <1>7, <1>8, <1>9 DEF InitChain

\* INIT_PART_2
LEMMA SetUpOnTime ==
  ASSUME HwInv, TimeInv, HandleInitPart2Event
  PROVE  TimeInv'
  <1>1. TypeInv /\ events \in Seq(Events)
    BY DEF HwInv, TypeInv, TypeOK
  <1>2. CASE StartReadouts
    <2>1. UNCHANGED <<queue, done, driver, number, spi, request, steps, late, events>>
      BY <1>2 DEF StartReadouts, driverVars, busVars
    <2>2. EndsQueued'
      BY <2>1 DEF TimeInv, EndsQueued
    <2>3. ASSUME NEW d \in Drivers
          PROVE  Punctual(d)'
      <3>1. timer'[ReadoutOf(d)] = Period(d) /\ timer'[TimerOf(d)] = timer[TimerOf(d)]
        BY <1>2, EventFacts DEF StartReadouts
      <3>2. StateOf(d)' = StateOf(d)
        BY <2>1 DEF StateOf
      <3> QED
        BY <1>1, <2>1, <3>1, <3>2, StartsKeep DEF TimeInv, Punctual
    <2> QED
      BY <2>2, <2>3 DEF TimeInv, Punctual
  <1>3. CASE CreateConditions \/ CreateRaisers \/ InitMsgTransceiver \/ SetAddAlertCb
    <2>1. UNCHANGED <<driverVars, late, timer, events>>
      BY <1>3 DEF CreateConditions, CreateRaisers, InitMsgTransceiver, SetAddAlertCb
    <2>2. \A e : Stays(e)
      BY <2>1 DEF Stays
    <2> QED
      BY <1>1, <2>1, <2>2, PlainTimeStep
  <1>4. CASE SetRemoveAlertCb
    <2>1. /\ pc # "idle" /\ Submit(<<>>) /\ UNCHANGED <<driverVars, late, timer>>
      BY <1>4 DEF SetRemoveAlertCb
    <2>2. events # <<>> /\ Head(events) = InitPart2Event
      BY <2>1 DEF HwInv, SetUp, TypeInv
    <2>3. \A e : Counted(e) => Stays(e)
      BY <1>1, <2>1, <2>2, PlainHandled, UncountedFacts, EventFacts
    <2> QED
      BY <1>1, <2>1, <2>3, PlainTimeStep
  <1> QED
    BY <1>2, <1>3, <1>4 DEF HandleInitPart2Event

\* A readout timer's callback.
LEMMA ReadoutOnTime ==
  ASSUME TypeInv, TimeInv, NEW d \in Drivers, ReadoutTimerCb(d)
  PROVE  TimeInv'
  <1>1. /\ events # <<>> /\ Head(events) = ReadoutOf(d) /\ Submit(<<>>)
        /\ Request(d, ReadoutOf(d), TRUE) /\ UNCHANGED <<timer, late>>
    BY DEF ReadoutTimerCb, Handling, ReadoutOf
  <1> QED
    BY <1>1, RequestTimeStep

\* Interrupts.
LEMMA InterruptsOnTime ==
  ASSUME TypeInv, TimeInv, PeriodsSuffice, TwimIsr \/ SpiIsr \/ \E t \in Timers : TimerIsr(t)
  PROVE  TimeInv'
  <1>1. /\ events \in Seq(Events) /\ timer \in [Timers -> Nat \cup {Off}]
        /\ I2cEvent \in Events /\ SpiEvent \in Events /\ Timers \subseteq Events
    BY DriverFacts DEF TypeInv, TypeOK, Events
  <1>2. CASE TwimIsr
    <2>1. /\ events' = Append(events, I2cEvent)
          /\ UNCHANGED <<driver, spi, request, steps, timer, late>>
      BY <1>2 DEF TwimIsr, TwimHandler
    <2>2. In(events', I2cEvent) /\ \A e : e # I2cEvent => Stays(e)
      BY <1>1, <2>1, SubmittedStays
    <2>3. EndsQueued'
      BY <2>1, <2>2, EventFacts DEF TimeInv, EndsQueued, Stays
    <2>4. ASSUME NEW d \in Drivers
          PROVE  Punctual(d)'
      <3>1. Untouched(d)
        BY <2>1, <2>2, EventFacts DEF Untouched, StateOf
      <3> QED
        BY <2>1, <3>1, UntouchedKeeps DEF TimeInv, Punctual
    <2> QED
      BY <2>3, <2>4 DEF TimeInv, Punctual
  <1>3. CASE SpiIsr
    <2>1. /\ events' = Append(events, SpiEvent) /\ spi = "transfer" /\ spi' = "complete"
          /\ UNCHANGED <<driver, done, request, steps, timer, late>>
      BY <1>3 DEF SpiIsr, busVars
    <2>2. ~In(events, SpiEvent)
      BY <2>1 DEF TimeInv, EndsQueued
    <2>3. /\ In(events', SpiEvent) /\ Once(events', SpiEvent)
          /\ \A e : e # SpiEvent => Stays(e)
      BY <1>1, <2>1, <2>2, SubmittedStays
    <2>4. EndsQueued'
      BY <2>1, <2>3, EventFacts DEF TimeInv, EndsQueued, Stays
    <2>5. ASSUME NEW d \in Drivers
          PROVE  Punctual(d)'
      <3>1. CASE d \in Sensors
        <4>1. Untouched(d)
          BY <2>1, <2>3, <3>1, EventFacts DEF Untouched, StateOf
        <4> QED
          BY <2>1, <4>1, UntouchedKeeps DEF TimeInv, Punctual
      <3>2. CASE d \notin Sensors
        <4>1. /\ StateOf(d) = "transfer" /\ StateOf(d)' = "complete"
              /\ Stays(TimerOf(d)) /\ Stays(ReadoutOf(d))
          BY <2>1, <2>3, <3>2, EventFacts DEF StateOf
        <4>2. WakesUp(d)' /\ Works(d)'
          BY <2>1, <4>1 DEF TimeInv, WakesUp, Works, Stays
        <4>3. WaitLeft(d)' = WaitLeft(d) /\ (Due(d)' <=> Due(d))
          BY <2>1, <4>1 DEF WaitLeft, Due, Stays
        <4>4. OnTime(d)'
          BY <2>1, <4>1, <4>3 DEF TimeInv, OnTime, Stays
        <4> QED
          BY <4>2, <4>4 DEF Punctual
      <3> QED
        BY <3>1, <3>2
    <2> QED
      BY <2>4, <2>5 DEF TimeInv, Punctual
  <1>4. ASSUME NEW t \in Timers, TimerIsr(t)
        PROVE  TimeInv'
    <2>1. /\ timer[t] = 0 /\ events' = Append(events, t) /\ UNCHANGED <<driverVars, late>>
          /\ timer' = [timer EXCEPT ![t] = IF t[1] = "readout" THEN Period(t[2]) ELSE Off]
      BY <1>4 DEF TimerIsr
    <2>2. /\ t \in Events /\ In(events', t) /\ (~In(events, t) => Once(events', t))
          /\ \A e : e # t => Stays(e)
      BY <1>1, <2>1, SubmittedStays
    <2>3. UNCHANGED <<done, driver, spi, request, steps, late>>
      BY <2>1 DEF driverVars, busVars
    <2>4. t # I2cEvent /\ t # SpiEvent
      BY EventFacts DEF Counted, I2cEvent, SpiEvent, HwTimer
    <2>5. EndsQueued'
      BY <2>2, <2>3, <2>4 DEF TimeInv, EndsQueued, Stays
    <2>6. \A u \in Timers : u # t => timer'[u] = timer[u]
      BY <1>1, <2>1
    <2>7. \A c \in Drivers : StateOf(c)' = StateOf(c)
      BY <2>3 DEF StateOf
    <2>8. ASSUME NEW c \in Drivers
          PROVE  Punctual(c)'
      <3>1. CASE t = ReadoutOf(c)
        <4>1. timer'[ReadoutOf(c)] = Period(c)
          BY <1>1, <2>1, <3>1, EventFacts
        <4>2. timer'[TimerOf(c)] = timer[TimerOf(c)] /\ Stays(TimerOf(c))
          BY <2>2, <2>6, <3>1, EventFacts
        <4> QED
          BY <2>1, <2>2, <2>3, <2>7, <3>1, <4>1, <4>2, ReadoutTimerKeeps DEF TimeInv, Punctual
      <3>2. CASE t = TimerOf(c)
        <4>1. timer'[TimerOf(c)] = Off
          BY <1>1, <2>1, <3>2, EventFacts
        <4>2. timer'[ReadoutOf(c)] = timer[ReadoutOf(c)] /\ Stays(ReadoutOf(c))
          BY <2>2, <2>6, <3>2, EventFacts
        <4> QED
          BY <2>1, <2>2, <2>3, <2>7, <3>2, <4>1, <4>2, DriverTimerKeeps DEF TimeInv, Punctual
      <3>3. CASE t \notin {ReadoutOf(c), TimerOf(c)}
        <4>1. Untouched(c)
          BY <2>2, <2>3, <2>6, <2>7, <3>3, EventFacts DEF Untouched
        <4> QED
          BY <2>3, <4>1, UntouchedKeeps DEF TimeInv, Punctual
      <3> QED
        BY <3>1, <3>2, <3>3
    <2> QED
      BY <2>5, <2>8 DEF TimeInv, Punctual
  <1> QED
    BY <1>2, <1>3, <1>4

\* The other handlers and the Bluetooth thread.
LEMMA OthersOnTime ==
  ASSUME TypeInv, TimeInv,
         \/ HandleSample \/ StartAdvertising \/ InitPart11Complete \/ RecycledCb
         \/ OnConnected \/ OnDisconnected \/ Receive \/ UNCHANGED vars
  PROVE  TimeInv'
  <1>1. events \in Seq(Events)
    BY DEF TypeInv, TypeOK
  <1>2. UNCHANGED <<driverVars, late, timer>>
    BY DEF HandleSample, StartAdvertising, InitPart11Complete, RecycledCb, OnConnected,
           OnDisconnected, Receive, vars, driverVars
  <1>3. \A e : Counted(e) => Stays(e)
    <2>1. CASE HandleSample \/ StartAdvertising
      <3>1. events # <<>> /\ ~Counted(Head(events)) /\ Submit(<<>>)
        BY <2>1, EventFacts DEF HandleSample, StartAdvertising, Handling
      <3> QED
        BY <1>1, <3>1, PlainHandled, UncountedFacts
    <2>2. CASE events' = events
      BY <2>2 DEF Stays
    <2>3. CASE InitPart11Complete
      <3>1. Part(12) \in Events /\ ~Counted(Part(12))
        BY EventFacts DEF Events
      <3>2. events' = events \/ events' = Append(events, Part(12))
        BY <2>3 DEF InitPart11Complete
      <3> HIDE DEF Part
      <3> QED
        BY <1>1, <2>2, <3>1, <3>2, PlainSubmitted
    <2>4. CASE RecycledCb
      <3>1. AdvertisingEvent \in Events /\ ~Counted(AdvertisingEvent)
        BY EventFacts DEF Events
      <3> QED
        BY <1>1, <2>4, <3>1, PlainSubmitted DEF RecycledCb
    <2> QED
      BY <2>1, <2>2, <2>3, <2>4 DEF OnConnected, OnDisconnected, Receive, vars
  <1> QED
    BY <1>2, <1>3, PlainTimeStep

\* Every step keeps the invariant.
LEMMA TimeStep == HwInv /\ TimeInv /\ PeriodsSuffice /\ [Next]_vars => TimeInv'
  <1> SUFFICES ASSUME HwInv, TimeInv, PeriodsSuffice, [Next]_vars
               PROVE  TimeInv'
    OBVIOUS
  <1>1. TypeInv
    BY DEF HwInv
  <1>2. CASE InitChain
    BY <1>1, <1>2, InitChainOnTime
  <1>3. CASE HandleInitPart2Event
    BY <1>3, SetUpOnTime
  <1>4. ASSUME NEW d \in Drivers, ReadoutTimerCb(d)
        PROVE  TimeInv'
    BY <1>1, <1>4, ReadoutOnTime
  <1>5. CASE HandleI2cEvent \/ HandleSpiEvent \/ \E d \in Drivers : HandleDriverTimer(d)
    BY <1>1, <1>5, DriversOnTime
  <1>6. CASE TwimIsr \/ SpiIsr \/ \E t \in Timers : TimerIsr(t)
    BY <1>1, <1>6, InterruptsOnTime
  <1>7. CASE Tick
    <2>1. UNCHANGED <<done, spi, events>>
      BY <1>7 DEF Tick, driverVars, busVars
    <2>2. EndsQueued'
      BY <2>1 DEF TimeInv, EndsQueued
    <2>3. \A d \in Drivers : Punctual(d)'
      BY <1>1, <1>7, TickKeeps DEF TimeInv, Punctual
    <2> QED
      BY <2>2, <2>3 DEF TimeInv, Punctual
  <1>8. CASE \/ HandleSample \/ StartAdvertising \/ InitPart11Complete \/ RecycledCb
             \/ OnConnected \/ OnDisconnected \/ Receive \/ UNCHANGED vars
    BY <1>1, <1>8, OthersOnTime
  <1> QED
    BY <1>2, <1>3, <1>4, <1>5, <1>6, <1>7, <1>8, DriverFacts
    DEF Next, EventThread, Sht31ReadoutTimerCb, Bh1750ReadoutTimerCb, Bmp280ReadoutTimerCb

\* A readout that is due is due once.
LEMMA OnceInTime == TypeInv /\ TimeInv => ReadoutsInTime
  <1> SUFFICES ASSUME TypeInv, TimeInv, NEW d \in Drivers
               PROVE  Cardinality({i \in DOMAIN events : events[i] = ReadoutOf(d)})
                        <= IF request[d] = ReadoutOf(d) THEN 0 ELSE 1
    BY DEF ReadoutsInTime, ReadoutOf
  <1> DEFINE S == {i \in DOMAIN events : events[i] = ReadoutOf(d)}
  <1>1. Once(events, ReadoutOf(d)) /\ ~(In(events, ReadoutOf(d)) /\ request[d] = ReadoutOf(d))
    BY DEF TimeInv, OnTime
  <1>2. CASE In(events, ReadoutOf(d))
    <2>1. PICK i \in DOMAIN events : events[i] = ReadoutOf(d)
      BY <1>2 DEF In
    <2>2. S = {i}
      BY <1>1, <2>1 DEF Once
    <2>3. Cardinality(S) = 1
      BY <2>2, FS_Singleton
    <2> QED
      BY <1>1, <1>2, <2>3
  <1>3. CASE ~In(events, ReadoutOf(d))
    <2>1. S = {}
      BY <1>3 DEF In
    <2>2. Cardinality(S) = 0
      BY <2>1, FS_EmptySet
    <2> QED
      BY <2>2
  <1> QED
    BY <1>2, <1>3

\* When the periods are longer than a readout can take, every readout ends within its
\* period, whatever the readouts of the other sensors, the samples and the messages
\* do to the bus and the event thread.
THEOREM PlatformReadoutsInTime ==
  ASSUME PeriodsSuffice
  PROVE  Spec => []ReadoutsInTime
  <1>1. HwInv => TypeInv
    BY DEF HwInv
  <1>2. HwInv /\ TimeInv /\ [Next]_vars => TimeInv'
    BY TimeStep
  <1> QED
    BY <1>1, <1>2, TimeInit, OnceInTime, HwAlways, PTL DEF Spec

\* Then no assert of the platform fails at all.
THEOREM PlatformAssertsHold ==
  ASSUME PeriodsSuffice
  PROVE  Spec => []NoAssertFails
  BY PlatformReadoutsInTime, PlatformNoAssertFails, PTL
=============================================================================
