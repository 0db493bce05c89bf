-------------------------- MODULE LedManagerProofs --------------------------
(***************************************************************************)
(* Proofs about LedManager, for every set of slots and kinds, every        *)
(* duration, margin and lateness, and every even range of EasTime that is  *)
(* more than twice as long as a turn may last.                             *)
(***************************************************************************)
EXTENDS LedManager, FiniteSetTheorems, TLAPS

-----------------------------------------------------------------------------
(* The linked list                                                          *)

\* No node is in list l twice.
NoDuplicates(l) == \A i, j \in DOMAIN l : l[i] = l[j] => i = j

\* A set of numbers has a smallest one.
LEMMA MinFacts ==
  ASSUME NEW I \in SUBSET Nat, I # {}
  PROVE  Min(I) \in I /\ \A i \in I : Min(I) <= i
  <1>1. PICK m \in I : \A i \in I : <<i, m>> \notin OpToRel(<, Nat)
    BY NatLessThanWellFounded, WFMin
  <1>2. \A i \in I : m <= i
    <2> SUFFICES ASSUME NEW i \in I PROVE m <= i
      OBVIOUS
    <2>1. m \in Nat /\ i \in Nat
      OBVIOUS
    <2>2. ~(i < m)
      BY <1>1, <2>1 DEF OpToRel
    <2> QED
      BY <2>1, <2>2
  <1> QED
    BY <1>2 DEF Min

\* In a list without duplicates a node is found where it is.
LEMMA IndexOfFacts ==
  ASSUME NEW l \in Seq(Slots), NoDuplicates(l), NEW i \in DOMAIN l
  PROVE  IndexOf(l, l[i]) = i
  <1> DEFINE I == {j \in 1..Len(l) : l[j] = l[i]}
  <1>1. I = {i} /\ i \in Nat
    BY DEF NoDuplicates
  <1>2. Min(I) = i
    BY <1>1, MinFacts
  <1> QED
    BY <1>1, <1>2 DEF IndexOf, SelectInSeq

\* The iterator goes from each node to the next one, and from the last to NULL.
LEMMA NodeAfterFacts ==
  ASSUME NEW l \in Seq(Slots), NoDuplicates(l), NEW i \in DOMAIN l
  PROVE  NodeAfter(l, l[i]) = IF i < Len(l) THEN l[i + 1] ELSE NULL
  BY IndexOfFacts DEF NodeAfter

\* The first match of a kind is a node of that kind.
LEMMA FirstMatchFacts ==
  ASSUME NEW k, list \in Seq(Slots), \E s \in Nodes : kind[s] = k
  PROVE  FirstMatch(k) \in DOMAIN list /\ kind[list[FirstMatch(k)]] = k
  <1> DEFINE I == {j \in 1..Len(list) : kind[list[j]] = k}
  <1>1. I # {} /\ I \in SUBSET Nat
    BY DEF Nodes, ToSet
  <1>2. Min(I) \in I
    BY <1>1, MinFacts
  <1>3. FirstMatch(k) = Min(I)
    BY <1>1 DEF FirstMatch, SelectInSeq, RemoveCondition
  <1> QED
    BY <1>2, <1>3

\* A node is appended behind the others.
LEMMA AppendFacts ==
  ASSUME NEW l \in Seq(Slots), NoDuplicates(l), NEW s \in Slots, s \notin ToSet(l)
  PROVE  /\ Append(l, s) \in Seq(Slots) /\ Len(Append(l, s)) = Len(l) + 1
         /\ \A i \in DOMAIN l : i \in DOMAIN Append(l, s) /\ Append(l, s)[i] = l[i]
         /\ Append(l, s)[Len(l) + 1] = s
         /\ NoDuplicates(Append(l, s))
         /\ ToSet(Append(l, s)) = ToSet(l) \cup {s}
  <1>1. /\ Append(l, s) \in Seq(Slots) /\ Len(Append(l, s)) = Len(l) + 1
        /\ DOMAIN Append(l, s) = 1..Len(l) + 1 /\ DOMAIN l = 1..Len(l) /\ Len(l) \in Nat
        /\ \A i \in DOMAIN l : i \in DOMAIN Append(l, s) /\ Append(l, s)[i] = l[i]
        /\ Append(l, s)[Len(l) + 1] = s
    OBVIOUS
  <1>2. \A i \in DOMAIN l : l[i] # s
    BY DEF ToSet
  <1>3. NoDuplicates(Append(l, s))
    BY <1>1, <1>2 DEF NoDuplicates
  <1>4. ToSet(Append(l, s)) = ToSet(l) \cup {s}
    <2>1. \A x : x \in ToSet(Append(l, s)) => x \in ToSet(l) \cup {s}
      BY <1>1 DEF ToSet
    <2>2. \A x : x \in ToSet(l) \cup {s} => x \in ToSet(Append(l, s))
      BY <1>1 DEF ToSet
    <2> QED
      BY <2>1, <2>2
  <1> QED
    BY <1>1, <1>3, <1>4

\* linked_list_remove takes out one node and keeps the others in their order.
LEMMA RemoveAtFacts ==
  ASSUME NEW l \in Seq(Slots), NoDuplicates(l), NEW i \in DOMAIN l
  PROVE  /\ RemoveAt(l, i) \in Seq(Slots) /\ Len(RemoveAt(l, i)) = Len(l) - 1
         /\ \A j \in 1..(Len(l) - 1) : RemoveAt(l, i)[j] = IF j < i THEN l[j] ELSE l[j + 1]
         /\ NoDuplicates(RemoveAt(l, i))
         /\ ToSet(RemoveAt(l, i)) = ToSet(l) \ {l[i]}
  <1> DEFINE a == SubSeq(l, 1, i - 1)
             b == SubSeq(l, i + 1, Len(l))
             r == RemoveAt(l, i)
  <1>1. i \in 1..Len(l) /\ Len(l) \in Nat /\ DOMAIN l = 1..Len(l)
    OBVIOUS
  <1>2. a \in Seq(Slots) /\ Len(a) = i - 1 /\ \A j \in 1..(i - 1) : a[j] = l[j]
    BY <1>1
  <1>3. b \in Seq(Slots) /\ Len(b) = Len(l) - i /\ \A j \in 1..(Len(l) - i) : b[j] = l[i + j]
    BY <1>1
  <1>4. r = a \o b
    BY DEF RemoveAt
  <1> HIDE DEF a, b, r
  <1>5. r \in Seq(Slots) /\ Len(r) = Len(l) - 1 /\ DOMAIN r = 1..(Len(l) - 1)
    <2> DEFINE c == a \o b
    <2>1. a \in Seq(Slots) /\ b \in Seq(Slots)
      BY <1>2, <1>3
    <2>2. c \in Seq(Slots) /\ Len(c) = Len(a) + Len(b)
      BY <2>1
    <2>3. r \in Seq(Slots) /\ Len(r) = Len(a) + Len(b)
      BY <1>4, <2>2
    <2>4. DOMAIN r = 1..Len(r) /\ Len(a) + Len(b) = Len(l) - 1
      BY <1>1, <1>2, <1>3, <2>3
    <2> QED
      BY <2>3, <2>4
  <1>6. \A j \in 1..(Len(l) - 1) : r[j] = IF j < i THEN l[j] ELSE l[j + 1]
    <2> SUFFICES ASSUME NEW j \in 1..(Len(l) - 1) PROVE r[j] = IF j < i THEN l[j] ELSE l[j + 1]
      OBVIOUS
    <2>1. CASE j < i
      BY <1>1, <1>2, <1>3, <1>4, <2>1
    <2>2. CASE ~(j < i)
      <3>1. r[j] = b[j - (i - 1)]
        BY <1>1, <1>2, <1>3, <1>4, <2>2
      <3>2. j - (i - 1) \in 1..(Len(l) - i) /\ i + (j - (i - 1)) = j + 1
        BY <1>1, <2>2
      <3> QED
        BY <1>3, <2>2, <3>1, <3>2
    <2> QED
      BY <2>1, <2>2
  <1>7. NoDuplicates(r)
    <2> SUFFICES ASSUME NEW m \in DOMAIN r, NEW n \in DOMAIN r, r[m] = r[n] PROVE m = n
      BY DEF NoDuplicates
    <2> DEFINE pos(j) == IF j < i THEN j ELSE j + 1
    <2>1. \A j \in DOMAIN r : r[j] = l[pos(j)] /\ pos(j) \in DOMAIN l
      BY <1>1, <1>5, <1>6
    <2>2. pos(m) = pos(n)
      BY <2>1 DEF NoDuplicates
    <2> QED
      BY <1>1, <1>5, <2>2
  <1>8. ToSet(r) = ToSet(l) \ {l[i]}
    <2>1. ASSUME NEW x, x \in ToSet(r) PROVE x \in ToSet(l) \ {l[i]}
      BY <1>1, <1>5, <1>6, <2>1 DEF ToSet, NoDuplicates
    <2>2. ASSUME NEW x, x \in ToSet(l) \ {l[i]} PROVE x \in ToSet(r)
      <3>1. PICK j \in 1..Len(l) : x = l[j] /\ j # i
        BY <1>1, <2>2 DEF ToSet
      <3>2. CASE j < i
        BY <1>1, <1>5, <1>6, <3>1, <3>2 DEF ToSet
      <3>3. CASE j > i
        <4>1. j - 1 \in DOMAIN r /\ r[j - 1] = x
          BY <1>1, <1>5, <1>6, <3>1, <3>3
        <4> QED
          BY <4>1 DEF ToSet
      <3> QED
        BY <1>1, <3>1, <3>2, <3>3
    <2> QED
      BY <2>1, <2>2
  <1> QED
    BY <1>5, <1>6, <1>7, <1>8 DEF r

-----------------------------------------------------------------------------
(* The inductive invariant of the timer                                     *)

\* Callback i was queued by the present run of the timer, or by one before it.
FromThisRun(i) == queue[i] <= elapsed - Duration
FromBefore(i) == queue[i] >= elapsed

\* The first expiry of a run comes a period after its start, so that the queued
\* callbacks of different runs can be told apart.
RunsAreApart ==
  /\ elapsed + timer_left >= Duration
  /\ \A i \in DOMAIN queue : FromThisRun(i) \/ FromBefore(i)

\* ignore_timer_before_time is a period less the margin after the start, across
\* an overflow of EasTime.
IgnoreTimeIsAfterStart ==
  elapsed < ElapsedBound =>
    ignore_timer_before_time + elapsed - now - (Duration - Margin) \in {-Modulus, 0, Modulus}

\* How far the time is ahead of the time before which callbacks are ignored.
Ahead == (now - ignore_timer_before_time) % Modulus

\* What began n ticks ago will see a callback that is queued, unless it began since
\* the last expiry.
CallbackEnds(n) ==
  \/ n <= Duration - timer_left
  \/ \E i \in DOMAIN queue : FromThisRun(i) /\ n <= Duration + queue[i]

\* A turn that has lasted for longer than since the last expiry will be ended by a
\* callback that is queued.
TurnIsAboutToEnd == elapsed < ElapsedBound => CallbackEnds(turn)

\* Callbacks are ignored while the time is ahead by half the range or more.  A turn
\* that lasts when that begins is about to end and goes on for half the range; then it
\* is ended by the first callback since.
StallIsBounded ==
  IF Ahead < ElapsedBound
  THEN \/ CallbackEnds(turn)
       \/ CallbackEnds(Ahead) /\ turn <= Ahead + ElapsedBound + Duration + MaxLag
  ELSE turn <= Ahead - ElapsedBound + Duration + MaxLag

\* The callbacks of a run are a period apart.
CallbacksAreAPeriodApart ==
  /\ \A i, j \in DOMAIN queue :
       i < j /\ FromThisRun(i) /\ FromThisRun(j) => queue[i] >= queue[j] + Duration
  /\ \A i \in DOMAIN queue : FromThisRun(i) => queue[i] >= Duration - timer_left

\* The callback that ends the turn comes a period after the start of the turn,
\* less its own lateness, at the earliest.
TurnHasLasted ==
  MaxLag < Duration - Margin =>
    /\ turn + MaxLag >= Duration - timer_left
    /\ \A i \in DOMAIN queue : FromThisRun(i) => turn + MaxLag >= Duration + queue[i]

TimerInv ==
  is_timer_running =>
    /\ RunsAreApart
    /\ IgnoreTimeIsAfterStart
    /\ TurnIsAboutToEnd
    /\ StallIsBounded
    /\ CallbacksAreAPeriodApart
    /\ TurnHasLasted

\* The inductive invariant.
IInv == TypeOK /\ NoDuplicates(list) /\ RotationIsConsistent /\ TimerInv

-----------------------------------------------------------------------------
(* Arithmetic                                                               *)

\* The constants, as numbers.
LEMMA ConstantFacts ==
  /\ Duration \in Nat /\ Duration > 0 /\ Margin \in Nat /\ Margin <= Duration
  /\ MaxLag \in Nat /\ Modulus \in Nat /\ Modulus > 0
  /\ ElapsedBound \in Nat /\ 2 * ElapsedBound = Modulus
  /\ ElapsedBound > Duration + MaxLag
  /\ (Modulus - 1) \div 2 = ElapsedBound - 1
  /\ LongestStall = ElapsedBound + 2 * (Duration + MaxLag) /\ LongestStall \in Nat
  /\ TurnBound = LongestStall + 1 /\ TurnBound \in Nat
  /\ Stopped = -1
  BY ConstantsAssumption DEF ElapsedBound, LongestStall, TurnBound, Stopped

\* The remainder of a number that is at most one range of EasTime off.
LEMMA ModFacts ==
  ASSUME NEW x \in Int
  PROVE  /\ 0 <= x /\ x < Modulus => x % Modulus = x
         /\ Modulus <= x /\ x < 2 * Modulus => x % Modulus = x - Modulus
         /\ -Modulus <= x /\ x < 0 => x % Modulus = x + Modulus
  BY ConstantFacts

\* eas_time_is_equal_or_after tells a callback that comes after the time that is
\* ignored from one that comes before it, for half the range of EasTime after the
\* start of the timer.
LEMMA IsEqualOrAfterFacts ==
  ASSUME TypeOK, IgnoreTimeIsAfterStart, elapsed < ElapsedBound
  PROVE  IsEqualOrAfter(now, ignore_timer_before_time) <=> elapsed >= Duration - Margin
  <1> DEFINE x == now - ignore_timer_before_time
  <1>1. /\ elapsed \in Nat /\ x \in Int /\ -Modulus < x /\ x < Modulus
        /\ \/ x = elapsed - (Duration - Margin) + Modulus
           \/ x = elapsed - (Duration - Margin)
           \/ x = elapsed - (Duration - Margin) - Modulus
    BY ConstantFacts DEF TypeOK, IgnoreTimeIsAfterStart
  <1>2. /\ 0 <= x => x % Modulus = x
        /\ x < 0 => x % Modulus = x + Modulus
    BY <1>1, ModFacts, ConstantFacts
  <1>3. IsEqualOrAfter(now, ignore_timer_before_time) <=> x % Modulus <= ElapsedBound - 1
    BY ConstantFacts DEF IsEqualOrAfter
  <1> HIDE DEF x
  <1> QED
    BY <1>1, <1>2, <1>3, ConstantFacts

\* The time is ahead by less than the range of EasTime, and callbacks are ignored in
\* the second half of it.
LEMMA AheadFacts ==
  ASSUME TypeOK
  PROVE  /\ Ahead \in 0..Modulus - 1
         /\ Ahead = IF now >= ignore_timer_before_time THEN now - ignore_timer_before_time
                    ELSE now - ignore_timer_before_time + Modulus
         /\ IsEqualOrAfter(now, ignore_timer_before_time) <=> Ahead < ElapsedBound
  <1>1. /\ now \in 0..Modulus - 1 /\ ignore_timer_before_time \in 0..Modulus - 1
        /\ now - ignore_timer_before_time \in Int
    BY ConstantFacts DEF TypeOK
  <1>2. Ahead = IF now >= ignore_timer_before_time THEN now - ignore_timer_before_time
                ELSE now - ignore_timer_before_time + Modulus
    BY <1>1, ModFacts, ConstantFacts DEF Ahead
  <1>3. IsEqualOrAfter(now, ignore_timer_before_time) <=> Ahead <= ElapsedBound - 1
    BY ConstantFacts DEF IsEqualOrAfter, Ahead
  <1> QED
    BY <1>1, <1>2, <1>3, ConstantFacts

\* A tick makes the time ahead by one more, across an overflow.
LEMMA TickMovesAhead ==
  ASSUME TypeOK, now' = (now + 1) % Modulus, UNCHANGED ignore_timer_before_time
  PROVE  Ahead' = IF Ahead = Modulus - 1 THEN 0 ELSE Ahead + 1
  <1>1. now \in 0..Modulus - 1 /\ ignore_timer_before_time \in 0..Modulus - 1
    BY DEF TypeOK
  <1>2. now' = IF now = Modulus - 1 THEN 0 ELSE now + 1
    BY <1>1, ModFacts, ConstantFacts
  <1>3. Ahead' = IF now' >= ignore_timer_before_time THEN now' - ignore_timer_before_time
                 ELSE now' - ignore_timer_before_time + Modulus
    BY <1>1, <1>2, ModFacts, ConstantFacts DEF Ahead
  <1> QED
    BY <1>1, <1>2, <1>3, AheadFacts, ConstantFacts

\* A queued callback, or the next one, ends a turn in time.
LEMMA CallbackEndsInTime ==
  ASSUME TypeOK, timer_left \in 0..Duration, NEW n \in Nat, CallbackEnds(n)
  PROVE  n <= Duration + MaxLag
  <1>1. \A i \in DOMAIN queue : queue[i] \in 0..MaxLag
    BY ConstantFacts DEF TypeOK
  <1> QED
    BY <1>1, ConstantFacts DEF CallbackEnds

-----------------------------------------------------------------------------
(* What each part of the code does to the invariant of the timer            *)

\* A tick makes everything that waits one tick older.
LEMMA TickKeepsTimerInv ==
  ASSUME TypeOK, TimerRunsIffAlternating, TimerInv, Tick
  PROVE  TimerInv'
  <1> SUFFICES ASSUME is_timer_running' PROVE TimerInv'
    BY DEF TimerInv
  <1>1. /\ is_timer_running /\ timer_left \in 1..Duration
        /\ timer_left' = timer_left - 1
        /\ now' = (now + 1) % Modulus
        /\ queue \in Seq(0..MaxLag)
        /\ DOMAIN queue' = DOMAIN queue
        /\ \A i \in DOMAIN queue : /\ queue[i] \in Nat /\ queue[i] < MaxLag
                                   /\ queue'[i] = queue[i] + 1
        /\ turn' = IF turn < TurnBound THEN turn + 1 ELSE TurnBound
        /\ elapsed' = IF elapsed < ElapsedBound THEN elapsed + 1 ELSE ElapsedBound
        /\ ignore_timer_before_time' = ignore_timer_before_time
        /\ elapsed \in 0..ElapsedBound /\ turn \in 0..TurnBound
        /\ now \in 0..Modulus - 1 /\ ignore_timer_before_time \in 0..Modulus - 1
    <2>1. /\ is_timer_running /\ queue \in Seq(0..MaxLag)
          /\ now' = (now + 1) % Modulus
          /\ turn' = IF turn < TurnBound THEN turn + 1 ELSE TurnBound
          /\ elapsed' = IF elapsed < ElapsedBound THEN elapsed + 1 ELSE ElapsedBound
          /\ ignore_timer_before_time' = ignore_timer_before_time
          /\ elapsed \in 0..ElapsedBound /\ turn \in 0..TurnBound
          /\ now \in 0..Modulus - 1 /\ ignore_timer_before_time \in 0..Modulus - 1
      BY DEF Tick, TypeOK, UpTo
    <2>2. timer_left \in 1..Duration /\ timer_left' = timer_left - 1
      <3>1. timer_left # Stopped
        BY <2>1 DEF TimerRunsIffAlternating
      <3>2. timer_left \in 0..Duration /\ timer_left # 0 /\ timer_left' = timer_left - 1
        BY <3>1 DEF Tick, TypeOK
      <3> QED
        BY <3>2, ConstantFacts
    <2>3. /\ \A i \in DOMAIN queue : queue[i] \in 0..MaxLag
          /\ \A i \in DOMAIN queue : queue[i] < MaxLag
          /\ queue' = [i \in DOMAIN queue |-> queue[i] + 1]
      <3>1. \A i \in DOMAIN queue : queue[i] \in 0..MaxLag
        BY <2>1, ConstantFacts
      <3>2. /\ \A i \in DOMAIN queue : queue[i] < MaxLag
            /\ queue' = [i \in DOMAIN queue |-> queue[i] + 1]
        BY DEF Tick
      <3> QED
        BY <3>1, <3>2
    <2>4. /\ DOMAIN queue' = DOMAIN queue
          /\ \A i \in DOMAIN queue : /\ queue[i] \in Nat /\ queue[i] < MaxLag
                                     /\ queue'[i] = queue[i] + 1
      BY <2>3, ConstantFacts
    <2> QED
      BY <2>1, <2>2, <2>4
  <1>2. /\ RunsAreApart /\ IgnoreTimeIsAfterStart /\ TurnIsAboutToEnd
        /\ StallIsBounded /\ CallbacksAreAPeriodApart /\ TurnHasLasted
    BY <1>1 DEF TimerInv
  <1>3. now' = IF now = Modulus - 1 THEN 0 ELSE now + 1
    BY <1>1, ModFacts, ConstantFacts
  <1>4. RunsAreApart'
    <2>1. elapsed' + timer_left' >= Duration
      <3>1. /\ elapsed \in Nat /\ timer_left \in 1..Duration /\ timer_left' = timer_left - 1
            /\ elapsed' = elapsed + 1 \/ (elapsed' = ElapsedBound /\ ElapsedBound > Duration)
        BY <1>1, ConstantFacts
      <3>2. elapsed + timer_left >= Duration
        BY <1>2 DEF RunsAreApart
      <3> QED
        BY <3>1, <3>2, ConstantFacts
    <2>2. ASSUME NEW i \in DOMAIN queue
          PROVE  queue'[i] <= elapsed' - Duration \/ queue'[i] >= elapsed'
      <3>1. queue[i] <= elapsed - Duration \/ queue[i] >= elapsed
        BY <1>2 DEF RunsAreApart, FromThisRun, FromBefore
      <3>2. queue[i] \in Nat /\ queue[i] < MaxLag /\ queue'[i] = queue[i] + 1
        BY <1>1
      <3> QED
        BY <1>1, <3>1, <3>2, ConstantFacts
    <2> QED
      BY <1>1, <2>1, <2>2 DEF RunsAreApart, FromThisRun, FromBefore
  <1>5. IgnoreTimeIsAfterStart'
    BY <1>1, <1>2, <1>3, ConstantFacts DEF IgnoreTimeIsAfterStart
  <1>6. \A i \in DOMAIN queue : elapsed < ElapsedBound => (FromThisRun(i)' <=> FromThisRun(i))
    BY <1>1, ConstantFacts DEF FromThisRun
  <1>7. \A i \in DOMAIN queue : FromThisRun(i)' => FromThisRun(i)
    <2> SUFFICES ASSUME NEW i \in DOMAIN queue, queue'[i] <= elapsed' - Duration
                 PROVE  queue[i] <= elapsed - Duration
      BY DEF FromThisRun
    <2>1. queue[i] \in Nat /\ queue[i] < MaxLag /\ queue'[i] = queue[i] + 1
      BY <1>1
    <2> QED
      BY <1>1, <2>1, ConstantFacts
  <1>8. TurnIsAboutToEnd'
    <2> SUFFICES ASSUME elapsed' < ElapsedBound
                 PROVE  \/ turn' <= Duration - timer_left'
                        \/ \E i \in DOMAIN queue' : FromThisRun(i)' /\ turn' <= Duration + queue'[i]
      BY DEF TurnIsAboutToEnd, CallbackEnds
    <2>1. elapsed < ElapsedBound /\ turn' <= turn + 1
      BY <1>1, ConstantFacts
    <2>2. CASE turn <= Duration - timer_left
      BY <1>1, <2>1, <2>2, ConstantFacts
    <2>3. CASE \E i \in DOMAIN queue : FromThisRun(i) /\ turn <= Duration + queue[i]
      BY <1>1, <1>6, <2>1, <2>3, ConstantFacts
    <2> QED
      BY <1>2, <2>1, <2>2, <2>3 DEF TurnIsAboutToEnd, CallbackEnds
  <1>9. CallbacksAreAPeriodApart'
    <2>1. ASSUME NEW i \in DOMAIN queue, NEW j \in DOMAIN queue, i < j,
                 FromThisRun(i)', FromThisRun(j)'
          PROVE  queue'[i] >= queue'[j] + Duration
      <3>1. queue[i] >= queue[j] + Duration
        BY <1>2, <1>7, <2>1 DEF CallbacksAreAPeriodApart
      <3>2. /\ queue[i] \in Nat /\ queue'[i] = queue[i] + 1
            /\ queue[j] \in Nat /\ queue'[j] = queue[j] + 1
        BY <1>1
      <3> QED
        BY <3>1, <3>2, ConstantFacts
    <2>2. ASSUME NEW i \in DOMAIN queue, FromThisRun(i)'
          PROVE  queue'[i] >= Duration - timer_left'
      <3>1. queue[i] >= Duration - timer_left
        BY <1>2, <1>7, <2>2 DEF CallbacksAreAPeriodApart
      <3>2. queue[i] \in Nat /\ queue'[i] = queue[i] + 1
        BY <1>1
      <3>3. timer_left \in 1..Duration /\ timer_left' = timer_left - 1
        BY <1>1
      <3> QED
        BY <3>1, <3>2, <3>3, ConstantFacts
    <2>3. DOMAIN queue' = DOMAIN queue
      BY <1>1
    <2> QED
      BY <2>1, <2>2, <2>3 DEF CallbacksAreAPeriodApart
  <1>10. TurnHasLasted'
    BY <1>1, <1>2, <1>7, ConstantFacts DEF TurnHasLasted
  <1>11. ASSUME NEW n \in Nat, NEW m \in Nat, m <= n + 1, CallbackEnds(n)
         PROVE  m <= Duration - timer_left'
                  \/ \E i \in DOMAIN queue' : FromThisRun(i)' /\ m <= Duration + queue'[i]
    <2>1. CASE n <= Duration - timer_left
      BY <1>1, <1>11, <2>1, ConstantFacts
    <2>2. ASSUME NEW i \in DOMAIN queue, FromThisRun(i), n <= Duration + queue[i]
          PROVE  FromThisRun(i)' /\ m <= Duration + queue'[i]
      <3>1. queue[i] \in Nat /\ queue[i] < MaxLag /\ queue'[i] = queue[i] + 1
        BY <1>1
      <3> QED
        BY <1>1, <1>11, <2>2, <3>1, ConstantFacts DEF FromThisRun
    <2> QED
      BY <1>1, <1>11, <2>1, <2>2 DEF CallbackEnds
  <1>12. StallIsBounded'
    <2>1. /\ Ahead \in Nat /\ Ahead < Modulus
          /\ Ahead' = IF Ahead = Modulus - 1 THEN 0 ELSE Ahead + 1
          /\ turn \in Nat /\ turn' \in Nat /\ turn' <= turn + 1
      BY <1>1, AheadFacts, TickMovesAhead, ConstantFacts
    <2>2. CallbackEnds(turn) => CallbackEnds(turn)'
      BY <1>11, <2>1 DEF CallbackEnds
    <2>3. CallbackEnds(Ahead) /\ Ahead' = Ahead + 1 => CallbackEnds(Ahead)'
      BY <1>11, <2>1 DEF CallbackEnds
    <2>4. /\ CallbackEnds(turn) => turn <= Duration + MaxLag
          /\ CallbackEnds(Ahead) => Ahead <= Duration + MaxLag
      BY <1>1, <2>1, CallbackEndsInTime, ConstantFacts
    <2>5. CASE Ahead < ElapsedBound /\ Ahead' < ElapsedBound
      BY <1>2, <2>1, <2>2, <2>3, <2>5, ConstantFacts DEF StallIsBounded
    <2>6. CASE Ahead < ElapsedBound /\ ~(Ahead' < ElapsedBound)
      \* Then Ahead' is ElapsedBound, and no turn is older than its callback.
      <3>1. Ahead' = ElapsedBound /\ CallbackEnds(turn)'
        <4>1. Ahead' = ElapsedBound /\ Ahead = ElapsedBound - 1
          BY <2>1, <2>6, ConstantFacts
        <4>2. CASE CallbackEnds(Ahead)
          <5>1. /\ Ahead' <= Duration - timer_left'
                     \/ \E i \in DOMAIN queue' : FromThisRun(i)' /\ Ahead' <= Duration + queue'[i]
            BY <1>11, <2>1, <4>1, <4>2
          <5>2. \A i \in DOMAIN queue' : queue'[i] \in Nat /\ queue'[i] <= MaxLag
            BY <1>1, ConstantFacts
          <5> QED
            BY <1>1, <4>1, <5>1, <5>2, ConstantFacts
        <4> QED
          BY <1>2, <2>2, <2>6, <4>1, <4>2 DEF StallIsBounded
      <3>2. \A i \in DOMAIN queue' : queue'[i] \in Nat /\ queue'[i] <= MaxLag
        BY <1>1, ConstantFacts
      <3>3. turn' <= Duration + MaxLag
        BY <1>1, <2>1, <3>1, <3>2, ConstantFacts DEF CallbackEnds
      <3> QED
        BY <2>1, <3>1, <3>3, ConstantFacts DEF StallIsBounded
    <2>7. CASE ~(Ahead < ElapsedBound) /\ Ahead' = Ahead + 1
      BY <1>2, <2>1, <2>7, ConstantFacts DEF StallIsBounded
    <2>8. CASE ~(Ahead < ElapsedBound) /\ Ahead' = 0 /\ Ahead = Modulus - 1
      <3>1. CallbackEnds(Ahead)'
        BY <1>1, <2>8, ConstantFacts DEF CallbackEnds
      <3> QED
        BY <1>2, <2>1, <2>8, <3>1, ConstantFacts DEF StallIsBounded
    <2> QED
      BY <2>1, <2>5, <2>6, <2>7, <2>8
  <1> QED
    BY <1>4, <1>5, <1>8, <1>9, <1>10, <1>12 DEF TimerInv

\* An expiry queues a callback of the present run and starts the next period.
LEMMA TimerIsrKeepsTimerInv ==
  ASSUME TypeOK, TimerInv, TimerIsr
  PROVE  TimerInv'
  <1> SUFFICES ASSUME is_timer_running' PROVE TimerInv'
    BY DEF TimerInv
  <1>1. /\ is_timer_running /\ timer_left = 0 /\ timer_left' = Duration
        /\ queue \in Seq(0..MaxLag) /\ queue' = Append(queue, 0)
        /\ UNCHANGED <<now, turn, elapsed, ignore_timer_before_time>>
        /\ elapsed \in 0..ElapsedBound /\ turn \in 0..TurnBound
    BY DEF TimerIsr, TypeOK
  <1>2. PICK n \in Nat :
        /\ DOMAIN queue' = DOMAIN queue \cup {n} /\ queue'[n] = 0
        /\ \A i \in DOMAIN queue : queue'[i] = queue[i] /\ queue[i] \in 0..MaxLag /\ i \in Nat /\ i < n
    <2>1. /\ DOMAIN queue = 1..Len(queue) /\ Len(queue) \in Nat
          /\ DOMAIN queue' = DOMAIN queue \cup {Len(queue) + 1} /\ queue'[Len(queue) + 1] = 0
          /\ \A i \in DOMAIN queue : queue'[i] = queue[i] /\ queue[i] \in 0..MaxLag
      BY <1>1, ConstantFacts
    <2> QED
      BY <2>1
  <1>3. /\ RunsAreApart /\ IgnoreTimeIsAfterStart /\ TurnIsAboutToEnd
        /\ StallIsBounded /\ CallbacksAreAPeriodApart /\ TurnHasLasted
    BY <1>1 DEF TimerInv
  <1>4. FromThisRun(n)' /\ \A i \in DOMAIN queue : FromThisRun(i)' <=> FromThisRun(i)
    BY <1>1, <1>2, <1>3, ConstantFacts DEF FromThisRun, RunsAreApart
  <1>5. RunsAreApart'
    BY <1>1, <1>2, <1>3, <1>4, ConstantFacts DEF RunsAreApart, FromBefore
  <1>6. IgnoreTimeIsAfterStart'
    BY <1>1, <1>3 DEF IgnoreTimeIsAfterStart
  <1>7. TurnIsAboutToEnd'
    BY <1>1, <1>2, <1>3, <1>4, ConstantFacts DEF TurnIsAboutToEnd, CallbackEnds
  <1>8. CallbacksAreAPeriodApart'
    <2>1. \A i \in DOMAIN queue : queue[i] \in Nat /\ queue'[i] = queue[i]
      BY <1>2, ConstantFacts
    <2>2. ASSUME NEW i \in DOMAIN queue, FromThisRun(i)'
          PROVE  queue'[i] >= Duration
      <3>1. queue[i] >= Duration - timer_left
        BY <1>3, <1>4, <2>2 DEF CallbacksAreAPeriodApart
      <3>2. Duration - timer_left = Duration
        BY <1>1, ConstantFacts
      <3> QED
        BY <2>1, <3>1, <3>2
    <2>3. ASSUME NEW i \in DOMAIN queue, NEW j \in DOMAIN queue, i < j,
                 FromThisRun(i)', FromThisRun(j)'
          PROVE  queue'[i] >= queue'[j] + Duration
      <3>1. queue[i] >= queue[j] + Duration
        BY <1>3, <1>4, <2>3 DEF CallbacksAreAPeriodApart
      <3> QED
        BY <2>1, <3>1
    <2>4. ASSUME NEW i \in DOMAIN queue, FromThisRun(i)'
          PROVE  queue'[i] >= queue'[n] + Duration
      BY <1>2, <2>1, <2>2, <2>4, ConstantFacts
    <2>5. queue'[n] >= Duration - timer_left'
      BY <1>1, <1>2, ConstantFacts
    <2>6. ASSUME NEW i \in DOMAIN queue, FromThisRun(i)'
          PROVE  queue'[i] >= Duration - timer_left'
      BY <1>1, <2>1, <2>2, <2>6, ConstantFacts
    <2>7. \A i \in DOMAIN queue : i \in Nat /\ ~(n < i)
      BY <1>2
    <2>8. ~(n < n)
      OBVIOUS
    <2>9. \A i \in DOMAIN queue' : i \in DOMAIN queue \/ i = n
      BY <1>2
    <2> QED
      BY <2>3, <2>4, <2>5, <2>6, <2>7, <2>8, <2>9 DEF CallbacksAreAPeriodApart
  <1>9. TurnHasLasted'
    BY <1>1, <1>2, <1>3, <1>4, ConstantFacts DEF TurnHasLasted
  <1>10. Ahead' = Ahead /\ turn' = turn /\ turn \in Nat /\ Ahead \in Nat
    BY <1>1, AheadFacts, ConstantFacts DEF Ahead
  <1>11. ASSUME NEW m \in Nat, CallbackEnds(m)
         PROVE  m <= Duration - timer_left'
                  \/ \E i \in DOMAIN queue' : FromThisRun(i)' /\ m <= Duration + queue'[i]
    BY <1>1, <1>2, <1>4, <1>11, ConstantFacts DEF CallbackEnds
  <1>12. /\ CallbackEnds(turn) => CallbackEnds(turn)'
         /\ CallbackEnds(Ahead) => CallbackEnds(Ahead)'
    BY <1>10, <1>11 DEF CallbackEnds
  <1>13. StallIsBounded'
    BY <1>3, <1>10, <1>12 DEF StallIsBounded
  <1> QED
    BY <1>5, <1>6, <1>7, <1>8, <1>9, <1>13 DEF TimerInv

\* After start_notification_timer all the callbacks in the queue are from before.
LEMMA StartKeepsTimerInv ==
  ASSUME TypeOK, StartNotificationTimer, turn' = 0, UNCHANGED <<queue, now>>
  PROVE  TimerInv'
  <1>1. /\ timer_left' = Duration /\ elapsed' = 0 /\ turn' = 0
        /\ queue \in Seq(0..MaxLag) /\ queue' = queue /\ now' = now /\ now \in 0..Modulus - 1
        /\ ignore_timer_before_time' = (now + (Duration - Margin)) % Modulus
    BY DEF StartNotificationTimer, TypeOK, OffsetIntoFuture
  <1>2. \A i \in DOMAIN queue : queue[i] \in Nat /\ ~FromThisRun(i)' /\ FromBefore(i)'
    BY <1>1, ConstantFacts DEF FromThisRun, FromBefore
  <1>3. /\ now + (Duration - Margin) < Modulus => ignore_timer_before_time' = now + (Duration - Margin)
        /\ now + (Duration - Margin) >= Modulus =>
             ignore_timer_before_time' = now + (Duration - Margin) - Modulus
    BY <1>1, ModFacts, ConstantFacts
  <1>4. IgnoreTimeIsAfterStart'
    BY <1>1, <1>3, ConstantFacts DEF IgnoreTimeIsAfterStart
  <1>5. RunsAreApart' /\ TurnIsAboutToEnd' /\ CallbacksAreAPeriodApart' /\ TurnHasLasted'
    BY <1>1, <1>2, ConstantFacts
    DEF RunsAreApart, TurnIsAboutToEnd, CallbackEnds, CallbacksAreAPeriodApart, TurnHasLasted
  <1>6. StallIsBounded'
    <2>1. Ahead' = IF now' >= ignore_timer_before_time' THEN now' - ignore_timer_before_time'
                   ELSE now' - ignore_timer_before_time' + Modulus
      BY <1>1, <1>3, ModFacts, ConstantFacts DEF Ahead
    <2>2. Ahead' \in Nat
      BY <1>1, <1>3, <2>1, ConstantFacts
    <2>3. CallbackEnds(turn)'
      BY <1>1, ConstantFacts DEF CallbackEnds
    <2>4. ~(Ahead' < ElapsedBound) => 0 <= Ahead' - ElapsedBound + Duration + MaxLag
      <3>1. \A a \in Nat : ~(a < ElapsedBound) => 0 <= a - ElapsedBound + Duration + MaxLag
        BY ConstantFacts
      <3> QED
        BY <2>2, <3>1
    <2> QED
      BY <1>1, <2>3, <2>4 DEF StallIsBounded, ElapsedBound
  <1> QED
    BY <1>4, <1>5, <1>6 DEF TimerInv

\* A callback that is not ignored is one of the present run, provided that
\* callbacks are never later than the period that is ignored.
LEMMA AcceptedIsFromThisRun ==
  ASSUME TypeOK, TimerInv, is_timer_running, queue # <<>>,
         IsEqualOrAfter(now, ignore_timer_before_time), MaxLag < Duration - Margin
  PROVE  FromThisRun(1)
  <1>1. 1 \in DOMAIN queue /\ queue[1] \in 0..MaxLag /\ elapsed \in 0..ElapsedBound
    BY ConstantFacts DEF TypeOK
  <1>2. FromThisRun(1) \/ FromBefore(1)
    BY <1>1 DEF TimerInv, RunsAreApart
  <1>3. CASE elapsed < ElapsedBound
    <2>1. elapsed >= Duration - Margin
      BY <1>3, IsEqualOrAfterFacts DEF TimerInv
    <2> QED
      BY <1>1, <1>2, <2>1, ConstantFacts DEF FromBefore
  <1>4. CASE elapsed = ElapsedBound
    BY <1>1, <1>4, ConstantFacts DEF FromThisRun
  <1> QED
    BY <1>1, <1>3, <1>4, ConstantFacts

\* A callback of the present run is not ignored, for half the range of EasTime after
\* the start of the timer.
LEMMA FromThisRunIsAccepted ==
  ASSUME TypeOK, TimerInv, is_timer_running, queue # <<>>, FromThisRun(1),
         elapsed < ElapsedBound
  PROVE  IsEqualOrAfter(now, ignore_timer_before_time)
  <1>1. queue[1] \in 0..MaxLag /\ elapsed \in 0..ElapsedBound
    BY ConstantFacts DEF TypeOK
  <1>2. elapsed >= Duration - Margin
    BY <1>1, ConstantFacts DEF FromThisRun
  <1> QED
    BY <1>2, IsEqualOrAfterFacts DEF TimerInv

\* The callback takes the oldest entry out of the queue and starts a new turn unless
\* it is ignored.
LEMMA NotificationTimerCbKeepsTimerInv ==
  ASSUME TypeOK, TimerInv, NotificationTimerCb
  PROVE  TimerInv'
  <1> SUFFICES ASSUME is_timer_running' PROVE TimerInv'
    BY DEF TimerInv
  <1>1. /\ is_timer_running /\ queue \in Seq(0..MaxLag) /\ queue # <<>> /\ queue' = Tail(queue)
        /\ UNCHANGED <<now, elapsed, timer_left, ignore_timer_before_time>>
        /\ elapsed \in 0..ElapsedBound /\ turn \in 0..TurnBound
        /\ timer_left \in {Stopped} \cup 0..Duration
    BY DEF NotificationTimerCb, TypeOK, timerVars
  <1>2. /\ 1 \in DOMAIN queue /\ queue[1] \in 0..MaxLag
        /\ \A i \in DOMAIN queue' : /\ i \in Nat /\ i + 1 \in DOMAIN queue /\ 1 < i + 1
                                    /\ queue'[i] = queue[i + 1] /\ queue[i + 1] \in 0..MaxLag
        /\ \A i \in DOMAIN queue : i # 1 =>
             i \in Nat /\ i - 1 \in DOMAIN queue' /\ queue'[i - 1] = queue[i]
    BY <1>1, ConstantFacts
  <1>3. /\ RunsAreApart /\ IgnoreTimeIsAfterStart /\ TurnIsAboutToEnd
        /\ StallIsBounded /\ CallbacksAreAPeriodApart /\ TurnHasLasted
    BY <1>1 DEF TimerInv
  <1>4. /\ \A i \in DOMAIN queue' : FromThisRun(i)' <=> FromThisRun(i + 1)
        /\ \A i \in DOMAIN queue' : FromBefore(i)' <=> FromBefore(i + 1)
    BY <1>1, <1>2 DEF FromThisRun, FromBefore
  <1>5. RunsAreApart' /\ IgnoreTimeIsAfterStart'
    BY <1>1, <1>2, <1>3, <1>4 DEF RunsAreApart, IgnoreTimeIsAfterStart
  <1>6. CallbacksAreAPeriodApart'
    <2>1. ASSUME NEW i \in DOMAIN queue', NEW j \in DOMAIN queue',
                 i < j, FromThisRun(i)', FromThisRun(j)'
          PROVE  queue'[i] >= queue'[j] + Duration
      <3>1. i + 1 < j + 1 /\ FromThisRun(i + 1) /\ FromThisRun(j + 1)
        BY <1>2, <1>4, <2>1
      <3> QED
        BY <1>2, <1>3, <3>1 DEF CallbacksAreAPeriodApart
    <2>2. ASSUME NEW i \in DOMAIN queue', FromThisRun(i)'
          PROVE  queue'[i] >= Duration - timer_left'
      BY <1>1, <1>2, <1>3, <1>4, <2>2 DEF CallbacksAreAPeriodApart
    <2> QED
      BY <2>1, <2>2 DEF CallbacksAreAPeriodApart
  <1>7. CASE IsEqualOrAfter(now, ignore_timer_before_time)
    <2>1. turn' = 0
      BY <1>1, <1>7 DEF NotificationTimerCb, DisplayNotification
    <2>2. timer_left \in Int /\ timer_left <= Duration
      BY <1>1, ConstantFacts
    <2>3. TurnIsAboutToEnd'
      BY <1>1, <2>1, <2>2, ConstantFacts DEF TurnIsAboutToEnd, CallbackEnds
    <2>4. TurnHasLasted'
      <3> SUFFICES ASSUME MaxLag < Duration - Margin
                   PROVE  /\ MaxLag >= Duration - timer_left
                          /\ \A i \in DOMAIN queue' : FromThisRun(i)' => MaxLag >= Duration + queue'[i]
        BY <1>1, <2>1, ConstantFacts DEF TurnHasLasted
      <3>1. FromThisRun(1)
        BY <1>1, <1>7, AcceptedIsFromThisRun
      <3>2. MaxLag >= Duration - timer_left
        BY <1>2, <1>3, <2>2, <3>1, ConstantFacts DEF CallbacksAreAPeriodApart
      <3>3. ASSUME NEW i \in DOMAIN queue', FromThisRun(i)'
            PROVE  MaxLag >= Duration + queue'[i]
        <4>1. FromThisRun(i + 1) /\ i + 1 \in DOMAIN queue /\ 1 < i + 1
          BY <1>2, <1>4, <3>3
        <4>2. queue[1] >= queue[i + 1] + Duration
          BY <1>2, <1>3, <3>1, <4>1 DEF CallbacksAreAPeriodApart
        <4> QED
          BY <1>2, <4>2, ConstantFacts
      <3> QED
        BY <3>2, <3>3
    <2>5. StallIsBounded'
      <3>1. Ahead' = Ahead /\ Ahead < ElapsedBound
        BY <1>1, <1>7, AheadFacts DEF Ahead
      <3>2. CallbackEnds(turn)'
        BY <1>1, <2>1, <2>2, ConstantFacts DEF CallbackEnds
      <3> QED
        BY <3>1, <3>2 DEF StallIsBounded
    <2> QED
      BY <1>5, <1>6, <2>3, <2>4, <2>5 DEF TimerInv
  <1>8. CASE ~IsEqualOrAfter(now, ignore_timer_before_time)
    <2>1. turn' = turn
      BY <1>8 DEF NotificationTimerCb
    <2>2. TurnIsAboutToEnd'
      <3> SUFFICES ASSUME elapsed < ElapsedBound, ~(turn <= Duration - timer_left)
                   PROVE  \E i \in DOMAIN queue' : FromThisRun(i)' /\ turn <= Duration + queue'[i]
        BY <1>1, <2>1 DEF TurnIsAboutToEnd, CallbackEnds
      <3>1. PICK i \in DOMAIN queue : FromThisRun(i) /\ turn <= Duration + queue[i]
        BY <1>3 DEF TurnIsAboutToEnd, CallbackEnds
      <3>2. i # 1
        BY <1>1, <1>8, <3>1, FromThisRunIsAccepted
      <3>3. i - 1 \in DOMAIN queue' /\ queue'[i - 1] = queue[i] /\ (i - 1) + 1 = i
        BY <1>2, <3>2
      <3> QED
        BY <1>4, <3>1, <3>3
    <2>3. TurnHasLasted'
      BY <1>1, <1>2, <1>3, <1>4, <2>1 DEF TurnHasLasted
    <2>4. StallIsBounded'
      <3>1. Ahead' = Ahead /\ ~(Ahead < ElapsedBound)
        BY <1>1, <1>8, AheadFacts DEF Ahead
      <3> QED
        BY <1>3, <2>1, <3>1 DEF StallIsBounded
    <2> QED
      BY <1>5, <1>6, <2>2, <2>3, <2>4 DEF TimerInv
  <1> QED
    BY <1>7, <1>8

\* Where the timer, its queue and the turn are left alone, so is their invariant.
LEMMA UnchangedKeepsTimerInv ==
  ASSUME TimerInv, UNCHANGED <<timerVars, queue, now, turn>>
  PROVE  TimerInv'
  BY DEF timerVars, TimerInv, RunsAreApart, IgnoreTimeIsAfterStart, TurnIsAboutToEnd, CallbackEnds,
         StallIsBounded, Ahead,
         CallbacksAreAPeriodApart, TurnHasLasted, FromThisRun, FromBefore

-----------------------------------------------------------------------------
(* What each operation does to the list, the iterator and the display       *)

\* The list, in the forms the steps need.
LEMMA ListFacts ==
  ASSUME TypeOK
  PROVE  /\ list \in Seq(Slots) /\ DOMAIN list = 1..Len(list) /\ Len(list) \in Nat
         /\ \A s : s \in Nodes <=> \E i \in DOMAIN list : list[i] = s
         /\ list = <<>> <=> Len(list) = 0
         /\ Len(list) > 0 => Head(list) = list[1] /\ 1 \in DOMAIN list
  BY DEF TypeOK, Nodes, ToSet

\* advance_notification_iterator returns a node of the list, and leaves the
\* iterator behind it.
LEMMA AdvanceFacts ==
  ASSUME TypeOK, NoDuplicates(list), Len(list) > 0, NEW i \in DOMAIN list
  PROVE  LET adv == Advance(list, NodeAfter(list, list[i])) IN
         /\ adv.node \in Nodes /\ adv.node \in Slots
         /\ Len(list) > 1 => adv.node # list[i]
         /\ adv.iterator = NodeAfter(list, adv.node)
         /\ adv.iterator \in Slots \cup {NULL}
  <1> DEFINE after == NodeAfter(list, list[i])
             j == IF i < Len(list) THEN i + 1 ELSE 1
  <1>1. /\ list \in Seq(Slots) /\ DOMAIN list = 1..Len(list) /\ Len(list) \in Nat
        /\ Head(list) = list[1]
        /\ \A m \in DOMAIN list : list[m] \in Slots /\ list[m] # NULL
    BY ListFacts, ConstantsAssumption
  <1>2. after = IF i < Len(list) THEN list[i + 1] ELSE NULL
    BY <1>1, NodeAfterFacts
  <1>3. j \in DOMAIN list /\ (Len(list) > 1 => j # i)
    BY <1>1
  <1>4. (IF after = NULL THEN Head(list) ELSE after) = list[j]
    BY <1>1, <1>2
  <1> HIDE DEF after, j
  <1>5. Advance(list, after) = [node |-> list[j], iterator |-> NodeAfter(list, list[j])]
    BY <1>4 DEF Advance
  <1>6. NodeAfter(list, list[j]) \in Slots \cup {NULL}
    BY <1>1, <1>3, NodeAfterFacts
  <1>7. list[j] \in Nodes /\ (Len(list) > 1 => list[j] # list[i])
    BY <1>1, <1>3, ListFacts DEF NoDuplicates
  <1> QED
    BY <1>1, <1>3, <1>5, <1>6, <1>7 DEF after

\* led_manager_add_notification keeps the invariant.
LEMMA AddKeepsInv ==
  ASSUME IInv, NEW k \in Kinds, AddNotification(k)
  PROVE  IInv'
  <1>1. PICK s \in Slots \ Nodes :
          /\ kind' = [kind EXCEPT ![s] = k]
          /\ list' = Append(list, s)
          /\ CASE Len(list') = 1 ->
                    /\ DisplayNotification(s, k)
                    /\ UNCHANGED <<iterator, timerVars>>
               [] Len(list') = 2 ->
                    /\ iterator' = Advance(list', Head(list')).iterator
                    /\ StartNotificationTimer
                    /\ turn' = 0
                    /\ KeepDisplay
               [] Len(list') > 2 ->
                    /\ iterator' = NodeAfter(list', displayed_notification)
                    /\ UNCHANGED <<timerVars, turn>>
                    /\ KeepDisplay
          /\ UNCHANGED <<queue, now>>
    BY DEF AddNotification
  <1>2. TypeOK /\ NoDuplicates(list) /\ RotationIsConsistent /\ TimerInv
    BY DEF IInv
  <1>3. /\ list' \in Seq(Slots) /\ Len(list') = Len(list) + 1 /\ Len(list) \in Nat
        /\ DOMAIN list = 1..Len(list)
        /\ \A i \in DOMAIN list : i \in DOMAIN list' /\ list'[i] = list[i]
        /\ list'[Len(list) + 1] = s
        /\ NoDuplicates(list)'
        /\ Nodes' = Nodes \cup {s}
    BY <1>1, <1>2, ListFacts, AppendFacts DEF Nodes, NoDuplicates
  <1>4. /\ kind' \in [Slots -> Kinds] /\ kind'[s] = k
        /\ \A t \in Nodes : t \in Slots /\ kind'[t] = kind[t]
    BY <1>1, <1>2 DEF TypeOK, Nodes, ToSet
  <1>5. CASE Len(list) = 0
    <2>1. DisplayNotification(s, k) /\ UNCHANGED <<iterator, timerVars>>
      BY <1>1, <1>3, <1>5
    <2>2. TypeOK'
      BY <1>1, <1>2, <1>3, <1>4, <2>1, ConstantFacts DEF TypeOK, DisplayNotification, timerVars
    <2>3. ~is_timer_running /\ timer_left = Stopped
      BY <1>2, <1>5, ConstantFacts DEF RotationIsConsistent, TimerRunsIffAlternating, TypeOK
    <2>4. ~is_timer_running' /\ timer_left' = Stopped /\ Len(list') = 1
      BY <1>3, <1>5, <2>1, <2>3 DEF timerVars
    <2>5. TimerInv' /\ TimerRunsIffAlternating' /\ list' # <<>> /\ ~(Len(list') >= 2)
      BY <2>4 DEF TimerInv, TimerRunsIffAlternating
    <2>6. DisplayedIsListed' /\ IteratorFollowsDisplayed'
      BY <1>3, <1>4, <2>1, <2>5 DEF DisplayedIsListed, IteratorFollowsDisplayed, DisplayNotification
    <2> QED
      BY <1>3, <2>2, <2>5, <2>6 DEF IInv, RotationIsConsistent
  <1>6. CASE Len(list) = 1
    <2>1. /\ iterator' = Advance(list', Head(list')).iterator
          /\ StartNotificationTimer /\ turn' = 0 /\ KeepDisplay
      BY <1>1, <1>3, <1>6
    <2>2. displayed_notification = list[1] /\ led = kind[list[1]] /\ list[1] \in Nodes
      BY <1>2, <1>6, ListFacts DEF RotationIsConsistent, DisplayedIsListed
    <2>3. Head(list') = list[1] /\ list[1] = list'[1] /\ list[1] \in Slots /\ 1 \in DOMAIN list'
      BY <1>2, <1>3, <1>6, ListFacts
    <2>4. iterator' = NodeAfter(list', displayed_notification)
      BY <2>1, <2>2, <2>3, ConstantsAssumption DEF Advance
    <2>5. NodeAfter(list', list'[1]) \in Slots \cup {NULL}
      <3>1. NoDuplicates(list')
        BY <1>3 DEF NoDuplicates
      <3> QED
        BY <1>3, <1>6, <2>3, <3>1, NodeAfterFacts
    <2>6. timer_left' = Duration /\ is_timer_running' = TRUE /\ elapsed' = 0
          /\ ignore_timer_before_time' \in 0..Modulus - 1
      <3>1. (now + (Duration - Margin)) \in Nat
        BY <1>2, ConstantFacts DEF TypeOK
      <3> QED
        BY <2>1, <3>1, ConstantFacts DEF StartNotificationTimer, OffsetIntoFuture
    <2>7. TypeOK'
      <3>1. queue' = queue /\ now' = now
        BY <1>1
      <3>2. iterator' \in Slots \cup {NULL} /\ UNCHANGED <<displayed_notification, led>> /\ turn' = 0
        BY <2>1, <2>2, <2>3, <2>4, <2>5 DEF KeepDisplay
      <3> QED
        BY <1>2, <1>3, <1>4, <2>6, <3>1, <3>2, ConstantFacts DEF TypeOK
    <2>8. TimerInv'
      BY <1>1, <1>2, <2>1, StartKeepsTimerInv
    <2>9. Len(list') = 2
      BY <1>3, <1>6
    <2>10. TimerRunsIffAlternating' /\ list' # <<>>
      BY <2>6, <2>9, ConstantFacts DEF TimerRunsIffAlternating
    <2>11. DisplayedIsListed' /\ IteratorFollowsDisplayed'
      BY <1>3, <1>4, <2>1, <2>2, <2>4, <2>10
      DEF DisplayedIsListed, IteratorFollowsDisplayed, KeepDisplay
    <2> QED
      BY <1>3, <2>7, <2>8, <2>10, <2>11 DEF IInv, RotationIsConsistent
  <1>7. CASE Len(list) >= 2
    <2>1. /\ iterator' = NodeAfter(list', displayed_notification)
          /\ UNCHANGED <<timerVars, turn>> /\ KeepDisplay
      <3>1. Len(list') > 2 /\ Len(list') # 1 /\ Len(list') # 2
        BY <1>3, <1>7
      <3> QED
        BY <1>1, <3>1
    <2>2. displayed_notification \in Nodes /\ led = kind[displayed_notification]
      BY <1>2, <1>7, ListFacts DEF RotationIsConsistent, DisplayedIsListed
    <2>3. NodeAfter(list', displayed_notification) \in Slots \cup {NULL}
      <3>1. NoDuplicates(list')
        BY <1>3 DEF NoDuplicates
      <3>2. PICK i \in DOMAIN list' : list'[i] = displayed_notification
        BY <1>2, <1>3, <2>2, ListFacts
      <3> QED
        BY <1>3, <3>1, <3>2, NodeAfterFacts
    <2>4. TypeOK'
      BY <1>1, <1>2, <1>3, <1>4, <2>1, <2>3 DEF TypeOK, KeepDisplay, timerVars
    <2>5. TimerInv'
      BY <1>1, <1>2, <2>1, UnchangedKeepsTimerInv
    <2>6. TimerRunsIffAlternating'
      BY <1>2, <1>3, <1>7, <2>1 DEF RotationIsConsistent, TimerRunsIffAlternating, timerVars
    <2>7. list' # <<>>
      BY <1>3, <1>7
    <2>8. DisplayedIsListed' /\ IteratorFollowsDisplayed'
      BY <1>3, <1>4, <2>1, <2>2, <2>7 DEF DisplayedIsListed, IteratorFollowsDisplayed, KeepDisplay
    <2> QED
      BY <1>3, <2>4, <2>5, <2>6, <2>8 DEF IInv, RotationIsConsistent
  <1> QED
    BY <1>3, <1>5, <1>6, <1>7

\* start_notification_timer keeps the types of what it writes.
LEMMA StartTypes ==
  ASSUME TypeOK, StartNotificationTimer
  PROVE  /\ timer_left' = Duration /\ is_timer_running' = TRUE /\ elapsed' = 0
         /\ ignore_timer_before_time' \in 0..Modulus - 1
  <1>1. (now + (Duration - Margin)) \in Nat
    BY ConstantFacts DEF TypeOK
  <1> QED
    BY <1>1, ConstantFacts DEF StartNotificationTimer, OffsetIntoFuture

\* What led_manager_remove_notification finds: the removed notification, and the
\* one after it, which is still listed when any is left.
LEMMA RemovedFacts ==
  ASSUME IInv, NEW k \in Kinds, \E s \in Nodes : kind[s] = k,
         list' = RemoveAt(list, FirstMatch(k))
  PROVE  LET removed == list[FirstMatch(k)]
             adv     == NextAfterRemoved(removed)
         IN /\ removed \in Nodes /\ kind[removed] = k
            /\ list' \in Seq(Slots) /\ Len(list') = Len(list) - 1 /\ NoDuplicates(list)'
            /\ Len(list) \in Nat /\ Len(list) > 0 /\ Nodes' = Nodes \ {removed}
            /\ Len(list) > 1 => adv.node \in Nodes'
            /\ adv.node \in Slots
            /\ adv.iterator \in Slots \cup {NULL}
  <1> DEFINE i == FirstMatch(k)
             removed == list[i]
  <1>1. /\ TypeOK /\ NoDuplicates(list) /\ list \in Seq(Slots) /\ Len(list) \in Nat
        /\ DOMAIN list = 1..Len(list)
    BY ListFacts DEF IInv
  <1>2. i \in DOMAIN list /\ kind[removed] = k
    BY <1>1, FirstMatchFacts
  <1>3. removed \in Nodes /\ Len(list) > 0
    BY <1>1, <1>2, ListFacts
  <1>4. /\ list' \in Seq(Slots) /\ Len(list') = Len(list) - 1
        /\ NoDuplicates(list') /\ Nodes' = Nodes \ {removed}
    BY <1>1, <1>2, RemoveAtFacts DEF Nodes
  <1>5. NoDuplicates(list)'
    BY <1>4 DEF NoDuplicates
  <1> DEFINE adv == Advance(list, NodeAfter(list, removed))
  <1> HIDE DEF i
  <1>6. /\ adv.node \in Nodes /\ adv.node \in Slots
        /\ Len(list) > 1 => adv.node # removed
        /\ adv.iterator \in Slots \cup {NULL}
    BY <1>1, <1>2, <1>3, AdvanceFacts
  <1> HIDE DEF adv, removed
  <1>7. Len(list) > 1 => adv.node \in Nodes'
    BY <1>4, <1>6
  <1>8. NextAfterRemoved(removed) = adv
    BY DEF NextAfterRemoved, adv
  <1> QED
    BY <1>1, <1>2, <1>3, <1>4, <1>5, <1>6, <1>7, <1>8 DEF removed, i

\* The node after a listed one is a node or NULL.
LEMMA NodeAfterType ==
  ASSUME list' \in Seq(Slots), NoDuplicates(list)', NEW s \in Nodes'
  PROVE  NodeAfter(list', s) \in Slots \cup {NULL}
  <1>1. PICK i \in DOMAIN list' : list'[i] = s
    BY DEF Nodes, ToSet
  <1>2. NoDuplicates(list')
    BY DEF NoDuplicates
  <1> QED
    BY <1>1, <1>2, NodeAfterFacts

\* led_manager_remove_notification keeps the invariant.
LEMMA RemoveKeepsInv ==
  ASSUME IInv, NEW k \in Kinds, RemoveNotification(k)
  PROVE  IInv'
  <1> DEFINE removed == list[FirstMatch(k)]
             adv     == NextAfterRemoved(removed)
             next    == adv.node
  <1>1. /\ \E s \in Nodes : kind[s] = k
        /\ list' = RemoveAt(list, FirstMatch(k)) /\ kind' = kind
        /\ queue' = queue /\ now' = now
        /\ CASE Len(list') = 0 ->
                  /\ TurnOffLed
                  /\ UNCHANGED <<iterator, timerVars, turn>>
             [] Len(list') = 1 ->
                  /\ iterator' = adv.iterator
                  /\ IF displayed_notification # next
                     THEN DisplayNotification(next, kind[next])
                     ELSE KeepDisplay /\ UNCHANGED turn
                  /\ StopNotificationTimer
             [] Len(list') > 1 ->
                  IF displayed_notification = removed
                  THEN /\ iterator' = NodeAfter(list', next)
                       /\ DisplayNotification(next, kind[next])
                       /\ StartNotificationTimer
                  ELSE /\ iterator' = NodeAfter(list', displayed_notification)
                       /\ KeepDisplay
                       /\ UNCHANGED <<timerVars, turn>>
    BY DEF RemoveNotification
  <1>2. TypeOK /\ NoDuplicates(list) /\ RotationIsConsistent /\ TimerInv
    BY DEF IInv
  <1>3. /\ removed \in Nodes /\ kind[removed] = k
        /\ list' \in Seq(Slots) /\ Len(list') = Len(list) - 1 /\ NoDuplicates(list)'
        /\ Len(list) \in Nat /\ Len(list) > 0 /\ Nodes' = Nodes \ {removed}
        /\ Len(list) > 1 => adv.node \in Nodes'
        /\ adv.node \in Slots
        /\ adv.iterator \in Slots \cup {NULL}
    BY <1>1, RemovedFacts
  <1> HIDE DEF adv, removed
  <1>4. displayed_notification \in Nodes /\ led = kind[displayed_notification]
    BY <1>2, <1>3, ListFacts DEF RotationIsConsistent, DisplayedIsListed
  <1>5. next \in Slots /\ kind[next] \in Kinds
    BY <1>2, <1>3 DEF TypeOK
  <1> DEFINE len == Len(list)
             len1 == Len(list')
  <1>6. /\ len \in Nat /\ len1 = len - 1
        /\ kind' = kind /\ queue' = queue /\ now' = now /\ list' \in Seq(Slots)
    BY <1>1, <1>3
  <1>7. CASE Len(list') = 0
    <2>1. TurnOffLed /\ UNCHANGED <<iterator, timerVars, turn>>
      BY <1>1, <1>7
    <2>2. TypeOK'
      BY <1>1, <1>2, <1>3, <2>1 DEF TypeOK, TurnOffLed, timerVars
    <2>3. ~(Len(list) >= 2)
      <3> HIDE DEF len, len1
      <3>1. len1 = 0 => ~(len >= 2)
        BY <1>6
      <3> QED
        BY <1>7, <3>1 DEF len, len1
    <2>4. ~is_timer_running /\ timer_left = Stopped
      BY <1>2, <2>3 DEF RotationIsConsistent, TimerRunsIffAlternating
    <2>5. ~is_timer_running' /\ timer_left' = Stopped
      BY <2>1, <2>4 DEF timerVars
    <2>6. TimerInv' /\ TimerRunsIffAlternating' /\ list' = <<>> /\ ~(Len(list') >= 2)
      BY <1>7, <1>6, <2>5 DEF TimerInv, TimerRunsIffAlternating
    <2>7. DisplayedIsListed' /\ IteratorFollowsDisplayed'
      BY <2>1, <2>6 DEF DisplayedIsListed, IteratorFollowsDisplayed, TurnOffLed
    <2> QED
      BY <1>3, <2>2, <2>6, <2>7 DEF IInv, RotationIsConsistent
  <1>8. CASE Len(list') = 1
    <2>1. /\ iterator' = adv.iterator
          /\ IF displayed_notification # next THEN DisplayNotification(next, kind[next])
             ELSE KeepDisplay /\ UNCHANGED turn
          /\ StopNotificationTimer
      BY <1>1, <1>8
    <2>2. next \in Nodes'
      BY <1>3, <1>8
    <2>3. /\ displayed_notification' = next /\ led' = kind[next]
          /\ turn' \in {0, turn}
      BY <1>4, <2>1 DEF DisplayNotification, KeepDisplay
    <2>4. ~is_timer_running' /\ is_timer_running' = FALSE /\ timer_left' = Stopped
          /\ UNCHANGED <<ignore_timer_before_time, elapsed>>
      BY <2>1 DEF StopNotificationTimer
    <2>5. TypeOK'
      <3>1. iterator' \in Slots \cup {NULL}
        BY <1>3, <2>1
      <3>2. turn' \in 0..TurnBound
        BY <1>2, <2>3, ConstantFacts DEF TypeOK
      <3>3. /\ displayed_notification' \in Slots \cup {NULL} /\ led' \in Kinds \cup {Off}
            /\ timer_left' \in {Stopped} \cup 0..Duration /\ is_timer_running' \in BOOLEAN
        BY <1>5, <2>3, <2>4
      <3> QED
        BY <1>2, <1>6, <2>4, <3>1, <3>2, <3>3 DEF TypeOK
    <2>6. TimerInv' /\ TimerRunsIffAlternating' /\ list' # <<>> /\ ~(Len(list') >= 2)
      BY <1>8, <2>4 DEF TimerInv, TimerRunsIffAlternating
    <2>7. DisplayedIsListed' /\ IteratorFollowsDisplayed'
      BY <1>1, <2>2, <2>3, <2>6 DEF DisplayedIsListed, IteratorFollowsDisplayed
    <2> QED
      BY <1>3, <2>5, <2>6, <2>7 DEF IInv, RotationIsConsistent
  <1>9. CASE Len(list') > 1
    <2>1. Len(list') # 0 /\ Len(list') # 1 /\ Len(list') >= 2 /\ list' # <<>> /\ Len(list) >= 2
      <3>1. len1 > 1 => len1 # 0 /\ len1 # 1 /\ len1 >= 2 /\ len >= 2
        <4> HIDE DEF len, len1
        <4> QED
          BY <1>6
      <3> QED
        BY <1>9, <1>6, <3>1
    <2>2. next \in Nodes'
      BY <1>3, <2>1
    <2>3. CASE displayed_notification = removed
      <3>1. /\ iterator' = NodeAfter(list', next) /\ DisplayNotification(next, kind[next])
            /\ StartNotificationTimer
        BY <1>1, <1>9, <2>1, <2>3
      <3>2. displayed_notification' = next /\ led' = kind[next] /\ turn' = 0
        BY <3>1 DEF DisplayNotification
      <3>3. /\ timer_left' = Duration /\ is_timer_running' = TRUE /\ elapsed' = 0
            /\ ignore_timer_before_time' \in 0..Modulus - 1
        BY <1>2, <3>1, StartTypes
      <3>4. iterator' \in Slots \cup {NULL}
        BY <1>3, <2>2, <3>1, NodeAfterType
      <3>5. TypeOK'
        BY <1>2, <1>5, <1>6, <3>2, <3>3, <3>4, ConstantFacts DEF TypeOK
      <3>6. TimerInv'
        BY <1>1, <1>2, <3>1, <3>2, StartKeepsTimerInv
      <3>7. TimerRunsIffAlternating'
        BY <2>1, <3>3, ConstantFacts DEF TimerRunsIffAlternating
      <3>8. DisplayedIsListed' /\ IteratorFollowsDisplayed'
        BY <1>1, <2>1, <2>2, <3>1, <3>2 DEF DisplayedIsListed, IteratorFollowsDisplayed
      <3> QED
        BY <1>3, <3>5, <3>6, <3>7, <3>8 DEF IInv, RotationIsConsistent
    <2>4. CASE displayed_notification # removed
      <3>1. /\ iterator' = NodeAfter(list', displayed_notification)
            /\ KeepDisplay /\ UNCHANGED <<timerVars, turn>>
        BY <1>1, <1>9, <2>1, <2>4
      <3>2. displayed_notification \in Nodes'
        BY <1>3, <1>4, <2>4
      <3>3. iterator' \in Slots \cup {NULL}
        BY <1>3, <3>1, <3>2, NodeAfterType
      <3>4. TypeOK'
        BY <1>1, <1>2, <1>3, <3>1, <3>3 DEF TypeOK, KeepDisplay, timerVars
      <3>5. TimerInv'
        BY <1>1, <1>2, <3>1, UnchangedKeepsTimerInv
      <3>6. TimerRunsIffAlternating'
        BY <1>2, <2>1, <3>1 DEF RotationIsConsistent, TimerRunsIffAlternating, timerVars
      <3>7. DisplayedIsListed' /\ IteratorFollowsDisplayed'
        BY <1>1, <1>4, <2>1, <3>1, <3>2 DEF DisplayedIsListed, IteratorFollowsDisplayed, KeepDisplay
      <3> QED
        BY <1>3, <3>4, <3>5, <3>6, <3>7 DEF IInv, RotationIsConsistent
    <2> QED
      BY <2>3, <2>4
  <1> QED
    BY <1>3, <1>7, <1>8, <1>9

\* notification_timer_cb keeps the invariant.
LEMMA NotificationTimerCbKeepsInv ==
  ASSUME IInv, NotificationTimerCb
  PROVE  IInv'
  <1>1. TypeOK /\ NoDuplicates(list) /\ RotationIsConsistent /\ TimerInv
    BY DEF IInv
  <1>2. TimerInv'
    BY <1>1, NotificationTimerCbKeepsTimerInv
  <1>3. /\ queue' = Tail(queue) /\ queue # <<>> /\ queue \in Seq(0..MaxLag)
        /\ UNCHANGED <<list, kind, timerVars, now>>
    BY <1>1 DEF NotificationTimerCb, TypeOK
  <1>4. queue' \in Seq(0..MaxLag)
    BY <1>3
  <1>5. NoDuplicates(list)' /\ TimerRunsIffAlternating' /\ Nodes' = Nodes
    BY <1>1, <1>3 DEF NoDuplicates, RotationIsConsistent, TimerRunsIffAlternating, timerVars, Nodes
  <1>6. CASE is_timer_running /\ IsEqualOrAfter(now, ignore_timer_before_time)
    <2> DEFINE adv == Advance(list, iterator)
    <2>1. iterator' = adv.iterator /\ DisplayNotification(adv.node, kind[adv.node])
      BY <1>6 DEF NotificationTimerCb
    <2>2. Len(list) >= 2
      BY <1>1, <1>6 DEF RotationIsConsistent, TimerRunsIffAlternating
    <2>3. /\ iterator = NodeAfter(list, displayed_notification)
          /\ displayed_notification \in Nodes /\ list # <<>>
      BY <1>1, <2>2, ListFacts DEF RotationIsConsistent, DisplayedIsListed, IteratorFollowsDisplayed
    <2>4. PICK i \in DOMAIN list : list[i] = displayed_notification
      BY <2>3 DEF Nodes, ToSet
    <2>5. adv = Advance(list, NodeAfter(list, list[i]))
      BY <2>3, <2>4
    <2> HIDE DEF adv
    <2>6. /\ adv.node \in Nodes /\ adv.node \in Slots
          /\ adv.iterator = NodeAfter(list, adv.node)
          /\ adv.iterator \in Slots \cup {NULL}
      BY <1>1, <2>2, <2>5, AdvanceFacts, ListFacts
    <2>7. displayed_notification' = adv.node /\ led' = kind[adv.node] /\ turn' = 0
          /\ kind[adv.node] \in Kinds
      BY <1>1, <2>1, <2>6 DEF DisplayNotification, TypeOK
    <2>8. TypeOK'
      <3>1. /\ displayed_notification' \in Slots \cup {NULL} /\ iterator' \in Slots \cup {NULL}
            /\ led' \in Kinds \cup {Off}
        BY <2>1, <2>6, <2>7
      <3>2. turn' \in 0..TurnBound
        BY <2>7, ConstantFacts
      <3> QED
        BY <1>1, <1>3, <1>4, <3>1, <3>2 DEF TypeOK, timerVars
    <2>9. DisplayedIsListed' /\ IteratorFollowsDisplayed'
      BY <1>3, <1>5, <2>1, <2>3, <2>6, <2>7 DEF DisplayedIsListed, IteratorFollowsDisplayed
    <2> QED
      BY <1>2, <1>5, <2>8, <2>9 DEF IInv, RotationIsConsistent
  <1>7. CASE ~(is_timer_running /\ IsEqualOrAfter(now, ignore_timer_before_time))
    <2>1. UNCHANGED <<iterator, displayed_notification, led, turn>>
      BY <1>7 DEF NotificationTimerCb
    <2>2. TypeOK'
      BY <1>1, <1>3, <1>4, <2>1 DEF TypeOK, timerVars
    <2>3. DisplayedIsListed' /\ IteratorFollowsDisplayed'
      BY <1>1, <1>3, <1>5, <2>1 DEF RotationIsConsistent, DisplayedIsListed, IteratorFollowsDisplayed
    <2> QED
      BY <1>2, <1>5, <2>2, <2>3 DEF IInv, RotationIsConsistent
  <1> QED
    BY <1>6, <1>7

\* Time and the interrupt keep the invariant: they leave the list and the display
\* alone.
LEMMA TimeKeepsInv ==
  ASSUME IInv, Tick \/ TimerIsr
  PROVE  IInv'
  <1>1. TypeOK /\ NoDuplicates(list) /\ RotationIsConsistent /\ TimerInv /\ TimerRunsIffAlternating
    BY DEF IInv, RotationIsConsistent
  <1>2. TimerInv'
    BY <1>1, TickKeepsTimerInv, TimerIsrKeepsTimerInv
  <1>3. UNCHANGED <<listVars, ignore_timer_before_time, is_timer_running>>
    BY DEF Tick, TimerIsr
  <1>4. NoDuplicates(list)' /\ DisplayedIsListed' /\ IteratorFollowsDisplayed'
    BY <1>1, <1>3 DEF NoDuplicates, RotationIsConsistent, DisplayedIsListed,
                      IteratorFollowsDisplayed, Nodes, listVars
  <1>5. CASE Tick
    <2>1. /\ timer_left' \in {Stopped} \cup 0..Duration
          /\ timer_left' = Stopped <=> timer_left = Stopped
      BY <1>1, <1>5, ConstantFacts DEF Tick, TypeOK
    <2>2. queue' \in Seq(0..MaxLag)
      <3>1. queue \in Seq(0..MaxLag) /\ \A i \in DOMAIN queue : queue[i] < MaxLag
        BY <1>1, <1>5 DEF Tick, TypeOK
      <3>2. \A i \in 1..Len(queue) : queue[i] + 1 \in 0..MaxLag
        BY <3>1, ConstantFacts
      <3>3. queue' = [i \in 1..Len(queue) |-> queue[i] + 1] /\ Len(queue) \in Nat
        BY <1>5, <3>1 DEF Tick
      <3> QED
        BY <3>2, <3>3
    <2>3. now' \in 0..Modulus - 1
      BY <1>1, <1>5, ConstantFacts, ModFacts DEF Tick, TypeOK
    <2>4. turn' \in 0..TurnBound /\ elapsed' \in 0..ElapsedBound
      BY <1>1, <1>5, ConstantFacts DEF Tick, TypeOK, UpTo
    <2>5. TypeOK'
      BY <1>1, <1>3, <2>1, <2>2, <2>3, <2>4 DEF TypeOK, listVars
    <2>6. TimerRunsIffAlternating'
      BY <1>1, <1>3, <2>1 DEF TimerRunsIffAlternating, listVars
    <2> QED
      BY <1>2, <1>4, <2>5, <2>6 DEF IInv, RotationIsConsistent
  <1>6. CASE TimerIsr
    <2>1. /\ timer_left = 0 /\ timer_left' = Duration /\ timer_left # Stopped
          /\ timer_left' # Stopped /\ UNCHANGED <<now, turn, elapsed>>
      BY <1>6, ConstantFacts DEF TimerIsr
    <2>2. queue' \in Seq(0..MaxLag)
      BY <1>1, <1>6, ConstantFacts DEF TimerIsr, TypeOK
    <2>3. TypeOK'
      BY <1>1, <1>3, <2>1, <2>2, ConstantFacts DEF TypeOK, listVars
    <2>4. TimerRunsIffAlternating'
      BY <1>1, <1>3, <2>1 DEF TimerRunsIffAlternating, listVars
    <2> QED
      BY <1>2, <1>4, <2>3, <2>4 DEF IInv, RotationIsConsistent
  <1> QED
    BY <1>5, <1>6

-----------------------------------------------------------------------------
(* The theorems                                                             *)

\* The LED, the list, the iterator, the timer and its callbacks agree in every
\* state.
THEOREM Invariant == Spec => []IInv
  <1>1. Init => IInv
    <2> SUFFICES ASSUME Init PROVE IInv
      OBVIOUS
    <2>1. kind \in [Slots -> Kinds]
      BY DEF Init
    <2>2. list = <<>> /\ list \in Seq(Slots) /\ Len(list) = 0 /\ DOMAIN list = {}
      BY DEF Init
    <2>3. TypeOK
      <3>1. /\ 0 \in 0..Modulus - 1 /\ 0 \in 0..TurnBound /\ 0 \in 0..ElapsedBound
        BY ConstantFacts
      <3>2. queue \in Seq(0..MaxLag)
        BY DEF Init
      <3> QED
        BY <2>1, <2>2, <3>1, <3>2 DEF Init, TypeOK
    <2>4. NoDuplicates(list) /\ RotationIsConsistent
      BY <2>2 DEF Init, NoDuplicates, RotationIsConsistent, DisplayedIsListed,
                  IteratorFollowsDisplayed, TimerRunsIffAlternating
    <2> QED
      BY <2>3, <2>4 DEF Init, IInv, TimerInv
  <1>2. IInv /\ [Next]_vars => IInv'
    <2> SUFFICES ASSUME IInv, [Next]_vars PROVE IInv'
      OBVIOUS
    <2>1. ASSUME NEW k \in Kinds, AddNotification(k) PROVE IInv'
      BY <2>1, AddKeepsInv
    <2>2. ASSUME NEW k \in Kinds, RemoveNotification(k) PROVE IInv'
      BY <2>2, RemoveKeepsInv
    <2>3. CASE Tick \/ TimerIsr
      BY <2>3, TimeKeepsInv
    <2>4. CASE NotificationTimerCb
      BY <2>4, NotificationTimerCbKeepsInv
    <2>5. CASE UNCHANGED vars
      BY <2>5 DEF vars, listVars, IInv, TypeOK, NoDuplicates, RotationIsConsistent,
                  DisplayedIsListed, IteratorFollowsDisplayed, TimerRunsIffAlternating, Nodes,
                  TimerInv, RunsAreApart, IgnoreTimeIsAfterStart, TurnIsAboutToEnd, CallbackEnds,
                  StallIsBounded, Ahead,
                  CallbacksAreAPeriodApart, TurnHasLasted, FromThisRun, FromBefore
    <2> QED
      BY <2>1, <2>2, <2>3, <2>4, <2>5 DEF Next
  <1> QED
    BY <1>1, <1>2, PTL DEF Spec

\* Every variable keeps its type; in particular no callback waits too long, and the
\* time wraps around within EasTime.
THEOREM TypeCorrect == Spec => []TypeOK
  <1>1. IInv => TypeOK
    BY DEF IInv
  <1> QED
    BY <1>1, Invariant, PTL

\* The displayed notification is a listed one, the iterator stands right behind it,
\* and the timer runs exactly while there is something to alternate between.
THEOREM RotationConsistent == Spec => []RotationIsConsistent
  <1>1. IInv => RotationIsConsistent
    BY DEF IInv
  <1> QED
    BY <1>1, Invariant, PTL

\* No notification is displayed for longer than the period and the lateness of its
\* callback, for half the range of EasTime after the timer was started; after that,
\* for longer than half the range and the callbacks at both ends of it.
THEOREM TurnsEnd == Spec => []TurnsEndInTime
  <1>1. IInv => TurnsEndInTime
    <2> SUFFICES ASSUME IInv, is_timer_running
                 PROVE  turn <= IF elapsed < ElapsedBound THEN Duration + MaxLag ELSE LongestStall
      BY DEF TurnsEndInTime
    <2>1. /\ timer_left \in 0..Duration /\ turn \in Nat /\ TypeOK
          /\ TurnIsAboutToEnd /\ StallIsBounded
      BY ConstantFacts DEF IInv, TypeOK, RotationIsConsistent, TimerRunsIffAlternating, TimerInv
    <2>2. CallbackEnds(turn) => turn <= Duration + MaxLag
      BY <2>1, CallbackEndsInTime
    <2>3. Ahead \in Nat /\ Ahead < Modulus
      BY <2>1, AheadFacts, ConstantFacts
    <2>4. CallbackEnds(Ahead) => Ahead <= Duration + MaxLag
      BY <2>1, <2>3, CallbackEndsInTime
    <2>5. turn <= LongestStall
      BY <2>1, <2>2, <2>3, <2>4, ConstantFacts DEF StallIsBounded
    <2> QED
      BY <2>1, <2>2, <2>5 DEF TurnIsAboutToEnd
  <1> QED
    BY <1>1, Invariant, PTL

\* A callback that a stopped or restarted timer left in the queue never cuts a turn
\* short.
THEOREM TurnsLast == Spec => TurnsAreLongEnough
  <1> DEFINE Long == (/\ MaxLag < Duration - Margin
                      /\ Len(queue') < Len(queue)
                      /\ displayed_notification' # displayed_notification)
                        => turn >= Duration - MaxLag
  <1>1. IInv /\ [Next]_vars => [Long]_vars
    <2> SUFFICES ASSUME IInv, Next, MaxLag < Duration - Margin, Len(queue') < Len(queue),
                        displayed_notification' # displayed_notification
                 PROVE  turn >= Duration - MaxLag
      OBVIOUS
    <2>1. queue \in Seq(0..MaxLag) /\ Len(queue) \in Nat /\ TypeOK /\ TimerInv /\ turn \in 0..TurnBound
      BY DEF IInv, TypeOK
    <2>2. ASSUME NEW k \in Kinds, AddNotification(k) \/ RemoveNotification(k) PROVE FALSE
      <3>1. queue' = queue
        BY <2>2 DEF AddNotification, RemoveNotification
      <3> QED
        BY <2>1, <3>1
    <2>3. ~Tick /\ ~TimerIsr
      BY DEF Tick, TimerIsr, listVars
    <2>4. CASE NotificationTimerCb
      <3>1. is_timer_running /\ IsEqualOrAfter(now, ignore_timer_before_time) /\ queue # <<>>
        BY <2>4 DEF NotificationTimerCb
      <3>2. FromThisRun(1) /\ 1 \in DOMAIN queue /\ queue[1] \in 0..MaxLag
        BY <2>1, <3>1, AcceptedIsFromThisRun, ConstantFacts
      <3>3. turn + MaxLag >= Duration + queue[1]
        BY <2>1, <3>1, <3>2 DEF TimerInv, TurnHasLasted
      <3> QED
        BY <2>1, <3>2, <3>3, ConstantFacts
    <2> QED
      BY <2>2, <2>3, <2>4 DEF Next
  <1> QED
    BY <1>1, Invariant, PTL DEF Spec, TurnsAreLongEnough

-----------------------------------------------------------------------------
(* The manager implements the promise of led_manager.h                      *)

\* A list has finitely many nodes.
LEMMA NodesAreFinite ==
  ASSUME NEW l \in Seq(Slots)
  PROVE  IsFiniteSet(ToSet(l))
  <1>1. Len(l) \in Nat /\ DOMAIN l = 1..Len(l) /\ l \in [1..Len(l) -> ToSet(l)]
    BY DEF ToSet
  <1>2. l \in Surjection(1..Len(l), ToSet(l))
    BY <1>1 DEF Surjection, ToSet
  <1>3. IsFiniteSet(1..Len(l))
    BY <1>1, FS_Interval
  <1> QED
    BY <1>2, <1>3, FS_Surjection

\* How many of the notifications in S have kind k, by the kinds in f.
CountOf(S, f, k) == Cardinality({s \in S : f[s] = k})

\* A kind counts if some notification has it.
LEMMA CountIsPositive ==
  ASSUME NEW S, IsFiniteSet(S), NEW f, NEW k
  PROVE  CountOf(S, f, k) \in Nat /\ (CountOf(S, f, k) > 0 <=> \E s \in S : f[s] = k)
  <1> DEFINE T == {s \in S : f[s] = k}
  <1>1. IsFiniteSet(T)
    BY FS_Subset
  <1>2. Cardinality(T) \in Nat /\ (Cardinality(T) = 0 <=> T = {})
    BY <1>1, FS_CardinalityType, FS_EmptySet
  <1> QED
    BY <1>2 DEF CountOf

\* A new notification counts for its own kind only.
LEMMA CountAfterAdding ==
  ASSUME NEW S, IsFiniteSet(S), NEW f, NEW g, NEW x, x \notin S,
         \A s \in S : g[s] = f[s], NEW k
  PROVE  CountOf(S \cup {x}, g, k) = CountOf(S, f, k) + (IF g[x] = k THEN 1 ELSE 0)
  <1> DEFINE T == {s \in S : f[s] = k}
             U == {s \in S \cup {x} : g[s] = k}
  <1>1. IsFiniteSet(T) /\ Cardinality(T) \in Nat
    BY FS_Subset, FS_CardinalityType
  <1>2. CountOf(S \cup {x}, g, k) = Cardinality(U) /\ CountOf(S, f, k) = Cardinality(T)
    BY DEF CountOf
  <1>3. CASE g[x] = k
    <2>1. U = T \cup {x} /\ x \notin T
      BY <1>3
    <2> QED
      BY <1>2, <1>1, <1>3, <2>1, FS_AddElement
  <1>4. CASE g[x] # k
    <2>1. U = T
      BY <1>4
    <2>2. (IF g[x] = k THEN 1 ELSE 0) = 0
      BY <1>4
    <2> HIDE DEF T, U
    <2> QED
      BY <1>2, <1>1, <2>1, <2>2
  <1> QED
    BY <1>3, <1>4

\* A removed notification no longer counts for its kind.
LEMMA CountAfterRemoving ==
  ASSUME NEW S, IsFiniteSet(S), NEW f, NEW x \in S, NEW k
  PROVE  CountOf(S \ {x}, f, k) = CountOf(S, f, k) - (IF f[x] = k THEN 1 ELSE 0)
  <1> DEFINE T == {s \in S : f[s] = k}
             U == {s \in S \ {x} : f[s] = k}
  <1>1. IsFiniteSet(T) /\ Cardinality(T) \in Nat
    BY FS_Subset, FS_CardinalityType
  <1>2. CountOf(S \ {x}, f, k) = Cardinality(U) /\ CountOf(S, f, k) = Cardinality(T)
    BY DEF CountOf
  <1>3. CASE f[x] = k
    <2>1. U = T \ {x} /\ x \in T
      BY <1>3
    <2> QED
      BY <1>2, <1>1, <1>3, <2>1, FS_RemoveElement
  <1>4. CASE f[x] # k
    <2>1. U = T
      BY <1>4
    <2> QED
      BY <1>2, <1>1, <1>4, <2>1
  <1> QED
    BY <1>3, <1>4

\* The kinds that count are the kinds of the nodes.
LEMMA PresentKinds ==
  ASSUME NEW l \in Seq(Slots), NEW f \in [Slots -> Kinds]
  PROVE  {k \in Kinds : CountOf(ToSet(l), f, k) > 0} = {f[s] : s \in ToSet(l)}
  <1>1. IsFiniteSet(ToSet(l)) /\ \A s \in ToSet(l) : s \in Slots
    BY NodesAreFinite DEF ToSet
  <1>2. \A k \in Kinds : CountOf(ToSet(l), f, k) > 0 <=> \E s \in ToSet(l) : f[s] = k
    BY <1>1, CountIsPositive
  <1> QED
    BY <1>1, <1>2

\* The notifications that are added, and which kinds are present.
LEMMA AddedFacts ==
  ASSUME IInv
  PROVE  /\ IsFiniteSet(Nodes) /\ Nodes \subseteq Slots
         /\ Added = [k \in Kinds |-> CountOf(Nodes, kind, k)]
         /\ \A k \in Kinds : Added[k] \in Nat /\ (Added[k] > 0 <=> \E s \in Nodes : kind[s] = k)
         /\ Rotation!Present(Added) = {kind[s] : s \in Nodes}
  <1>1. list \in Seq(Slots) /\ kind \in [Slots -> Kinds]
    BY DEF IInv, TypeOK
  <1>2. IsFiniteSet(Nodes) /\ Nodes \subseteq Slots
    BY <1>1, NodesAreFinite DEF Nodes, ToSet
  <1>3. Added = [k \in Kinds |-> CountOf(Nodes, kind, k)]
    BY DEF Added, CountOf
  <1>4. \A k \in Kinds : Added[k] \in Nat /\ (Added[k] > 0 <=> \E s \in Nodes : kind[s] = k)
    BY <1>2, <1>3, CountIsPositive
  <1>5. \A s \in Nodes : kind[s] \in Kinds
    BY <1>1, <1>2
  <1>6. Rotation!Present(Added) = {k \in Kinds : Added[k] > 0}
    BY DEF Rotation!Present
  <1> QED
    BY <1>2, <1>3, <1>4, <1>5, <1>6

\* led_manager_add_notification adds.
LEMMA AddIsAdd ==
  ASSUME IInv, NEW k \in Kinds, AddNotification(k)
  PROVE  Rotation!Add(k)
  <1>1. PICK s \in Slots \ Nodes :
          /\ kind' = [kind EXCEPT ![s] = k]
          /\ list' = Append(list, s)
          /\ CASE Len(list') = 1 ->
                    /\ DisplayNotification(s, k)
                    /\ UNCHANGED <<iterator, timerVars>>
               [] Len(list') = 2 ->
                    /\ iterator' = Advance(list', Head(list')).iterator
                    /\ StartNotificationTimer
                    /\ turn' = 0
                    /\ KeepDisplay
               [] Len(list') > 2 ->
                    /\ iterator' = NodeAfter(list', displayed_notification)
                    /\ UNCHANGED <<timerVars, turn>>
                    /\ KeepDisplay
    BY DEF AddNotification
  <1>2. TypeOK /\ NoDuplicates(list) /\ RotationIsConsistent
    BY DEF IInv
  <1>3. /\ Len(list') = Len(list) + 1 /\ Len(list) \in Nat
        /\ Nodes' = Nodes \cup {s} /\ IsFiniteSet(Nodes) /\ Nodes \subseteq Slots
    BY <1>1, <1>2, ListFacts, AppendFacts, AddedFacts DEF Nodes
  <1>4. kind'[s] = k /\ s \notin Nodes /\ \A t \in Nodes : kind'[t] = kind[t]
    BY <1>1, <1>2, <1>3 DEF TypeOK
  <1>5. \A j \in Kinds : Added'[j] = Added[j] + (IF j = k THEN 1 ELSE 0)
    <2> SUFFICES ASSUME NEW j \in Kinds
                 PROVE  Added'[j] = Added[j] + (IF j = k THEN 1 ELSE 0)
      OBVIOUS
    <2>1. Added[j] = CountOf(Nodes, kind, j) /\ Added'[j] = CountOf(Nodes', kind', j)
      BY DEF Added, CountOf
    <2>2. CountOf(Nodes \cup {s}, kind', j)
            = CountOf(Nodes, kind, j) + (IF kind'[s] = j THEN 1 ELSE 0)
      BY <1>3, <1>4, CountAfterAdding
    <2> QED
      BY <1>3, <1>4, <2>1, <2>2
  <1>6. Added' = [Added EXCEPT ![k] = @ + 1]
    <2>1. Added \in [Kinds -> Nat] /\ DOMAIN Added' = Kinds /\ Added' = [j \in Kinds |-> Added'[j]]
      BY AddedFacts DEF Added
    <2> QED
      BY <1>5, <2>1
  <1>7. led' = IF led = Off THEN k ELSE led
    <2>1. CASE Len(list) = 0
      BY <1>1, <1>2, <1>3, <2>1, ListFacts
      DEF DisplayNotification, RotationIsConsistent, DisplayedIsListed
    <2>2. CASE Len(list) > 0
      <3>1. led = kind[displayed_notification] /\ displayed_notification \in Nodes
        BY <1>2, <2>2, ListFacts DEF RotationIsConsistent, DisplayedIsListed
      <3>2. led # Off
        BY <1>2, <1>3, <3>1, ConstantsAssumption DEF TypeOK
      <3>3. KeepDisplay
        <4>1. CASE Len(list) = 1
          BY <1>1, <1>3, <4>1
        <4>2. CASE Len(list) > 1
          <5>1. Len(list') # 1 /\ Len(list') # 2 /\ Len(list') > 2
            BY <1>3, <4>2
          <5> QED
            BY <1>1, <5>1
        <4>3. \A n \in Nat : n > 0 => n = 1 \/ n > 1
          OBVIOUS
        <4> QED
          BY <1>3, <2>2, <4>1, <4>2, <4>3
      <3> QED
        BY <3>2, <3>3 DEF KeepDisplay
    <2> QED
      BY <1>3, <2>1, <2>2
  <1> QED
    BY <1>6, <1>7 DEF Rotation!Add

\* led_manager_remove_notification removes.
LEMMA RemoveIsRemove ==
  ASSUME IInv, NEW k \in Kinds, RemoveNotification(k)
  PROVE  Rotation!Remove(k)
  <1> DEFINE removed == list[FirstMatch(k)]
             adv     == NextAfterRemoved(removed)
             next    == adv.node
  <1>1. /\ \E s \in Nodes : kind[s] = k
        /\ list' = RemoveAt(list, FirstMatch(k)) /\ kind' = kind
        /\ CASE Len(list') = 0 ->
                  /\ TurnOffLed
                  /\ UNCHANGED <<iterator, timerVars, turn>>
             [] Len(list') = 1 ->
                  /\ iterator' = adv.iterator
                  /\ IF displayed_notification # next
                     THEN DisplayNotification(next, kind[next])
                     ELSE KeepDisplay /\ UNCHANGED turn
                  /\ StopNotificationTimer
             [] Len(list') > 1 ->
                  IF displayed_notification = removed
                  THEN /\ iterator' = NodeAfter(list', next)
                       /\ DisplayNotification(next, kind[next])
                       /\ StartNotificationTimer
                  ELSE /\ iterator' = NodeAfter(list', displayed_notification)
                       /\ KeepDisplay
                       /\ UNCHANGED <<timerVars, turn>>
    BY DEF RemoveNotification
  <1>2. TypeOK /\ RotationIsConsistent
    BY DEF IInv
  <1>3. /\ removed \in Nodes /\ kind[removed] = k
        /\ list' \in Seq(Slots) /\ Len(list') = Len(list) - 1
        /\ Len(list) \in Nat /\ Len(list) > 0 /\ Nodes' = Nodes \ {removed}
        /\ Len(list) > 1 => next \in Nodes'
    BY <1>1, RemovedFacts
  <1> HIDE DEF removed, adv
  <1>4. /\ \E s \in Nodes : kind[s] = k
        /\ kind' = kind
        /\ Len(list') = 0 => TurnOffLed
        /\ Len(list') = 1 => IF displayed_notification # next
                             THEN DisplayNotification(next, kind[next]) ELSE KeepDisplay
        /\ Len(list') > 1 => IF displayed_notification = removed
                             THEN DisplayNotification(next, kind[next]) ELSE KeepDisplay
    <2>1. CASE Len(list') = 0
      BY <1>1, <2>1
    <2>2. CASE Len(list') = 1
      BY <1>1, <2>2
    <2>3. CASE Len(list') > 1
      <3>1. \A n \in Nat : n > 1 => n # 0 /\ n # 1
        OBVIOUS
      <3>2. Len(list') # 0 /\ Len(list') # 1
        BY <1>3, <2>3, <3>1
      <3> QED
        BY <1>1, <2>3, <3>2
    <2> QED
      BY <1>1, <1>3, <2>1, <2>2, <2>3
  <1> HIDE DEF next
  <1>5. displayed_notification \in Nodes /\ led = kind[displayed_notification]
    BY <1>2, <1>3, ListFacts DEF RotationIsConsistent, DisplayedIsListed
  <1>6. Added[k] > 0 /\ IsFiniteSet(Nodes)
    BY <1>4, AddedFacts
  <1>7. Added' = [Added EXCEPT ![k] = @ - 1]
    <2>1. ASSUME NEW j \in Kinds PROVE Added'[j] = Added[j] - (IF j = k THEN 1 ELSE 0)
      <3>1. Added[j] = CountOf(Nodes, kind, j) /\ Added'[j] = CountOf(Nodes', kind', j)
        BY DEF Added, CountOf
      <3>2. CountOf(Nodes \ {removed}, kind, j)
              = CountOf(Nodes, kind, j) - (IF kind[removed] = j THEN 1 ELSE 0)
        BY <1>3, <1>6, CountAfterRemoving
      <3> QED
        BY <1>4, <1>3, <3>1, <3>2
    <2>2. Added \in [Kinds -> Nat] /\ DOMAIN Added' = Kinds /\ Added' = [j \in Kinds |-> Added'[j]]
      BY AddedFacts DEF Added
    <2> QED
      BY <2>1, <2>2
  <1>8. Rotation!Present(Added') = {kind[s] : s \in Nodes'}
    <2>1. kind \in [Slots -> Kinds]
      BY <1>2 DEF TypeOK
    <2>2. {j \in Kinds : CountOf(Nodes', kind, j) > 0} = {kind[s] : s \in Nodes'}
      BY <1>3, <2>1, PresentKinds DEF Nodes
    <2>3. \A j \in Kinds : Added'[j] = CountOf(Nodes', kind, j)
      BY <1>4 DEF Added, CountOf
    <2>4. Rotation!Present(Added') = {j \in Kinds : Added'[j] > 0}
      BY DEF Rotation!Present
    <2> QED
      BY <2>2, <2>3, <2>4
  <1>9. Len(list') = 0 => Nodes' = {}
    BY <1>3 DEF Nodes, ToSet
  <1>10. Len(list') = 1 => Nodes' = {list'[1]}
    <2> SUFFICES ASSUME Len(list') = 1 PROVE Nodes' = {list'[1]}
      OBVIOUS
    <2>1. DOMAIN list' = {1}
      BY <1>3
    <2> QED
      BY <2>1 DEF Nodes, ToSet
  <1>11. IF Rotation!Present(Added') = {} THEN led' = Off ELSE led' \in Rotation!Present(Added')
    <2>1. CASE Len(list') = 0
      BY <1>4, <1>8, <1>9, <2>1 DEF TurnOffLed
    <2>2. CASE Len(list') = 1
      <3>1. led' = kind[next]
        BY <1>4, <1>5, <2>2 DEF DisplayNotification, KeepDisplay
      <3>2. next \in Nodes'
        BY <1>3, <2>2
      <3> QED
        BY <1>8, <3>1, <3>2
    <2>3. CASE Len(list') > 1
      <3>1. \/ led' = kind[next]
            \/ led' = led /\ displayed_notification # removed
        BY <1>4, <2>3 DEF DisplayNotification, KeepDisplay
      <3>2. next \in Nodes'
        BY <1>3, <2>3
      <3> QED
        BY <1>3, <1>5, <1>8, <3>1, <3>2
    <2> QED
      BY <1>3, <2>1, <2>2, <2>3
  <1>12. led' # led => led' = Off \/ led = k
    <2>1. CASE Len(list') = 0
      BY <1>4, <2>1 DEF TurnOffLed
    <2>2. CASE Len(list') = 1
      <3>1. next \in Nodes'
        BY <1>3, <2>2
      <3>2. displayed_notification # next => displayed_notification = removed
        BY <1>3, <1>5, <1>10, <2>2, <3>1
      <3> QED
        BY <1>4, <1>3, <1>5, <2>2, <3>2 DEF KeepDisplay
    <2>3. CASE Len(list') > 1
      BY <1>4, <1>3, <1>5, <2>3 DEF KeepDisplay
    <2> QED
      BY <1>3, <2>1, <2>2, <2>3
  <1> QED
    BY <1>6, <1>7, <1>11, <1>12 DEF Rotation!Remove

\* A callback that is accepted goes on to another of the notifications.
LEMMA NotificationTimerCbIsSwitch ==
  ASSUME IInv, NotificationTimerCb
  PROVE  Rotation!Switch \/ UNCHANGED <<Added, led>>
  <1>1. list' = list /\ kind' = kind /\ Nodes' = Nodes
    BY DEF NotificationTimerCb, Nodes
  <1>2. Added' = Added
    BY <1>1 DEF Added
  <1>3. CASE is_timer_running /\ IsEqualOrAfter(now, ignore_timer_before_time)
    <2>1. IInv' /\ Len(list) >= 2
      BY <1>3, NotificationTimerCbKeepsInv DEF IInv, RotationIsConsistent, TimerRunsIffAlternating
    <2>2. list # <<>> /\ kind \in [Slots -> Kinds] /\ Nodes \subseteq Slots
      <3>1. TypeOK /\ Nodes \subseteq Slots
        BY AddedFacts DEF IInv
      <3>2. list # <<>>
        BY <2>1, <3>1, ListFacts
      <3> QED
        BY <3>1, <3>2 DEF TypeOK
    <2>3. displayed_notification \in Nodes /\ led = kind[displayed_notification]
      BY <2>2 DEF IInv, RotationIsConsistent, DisplayedIsListed
    <2>4. displayed_notification' \in Nodes /\ led' = kind[displayed_notification']
      BY <1>1, <2>1, <2>2 DEF IInv, RotationIsConsistent, DisplayedIsListed
    <2>5. led # Off
      BY <2>2, <2>3, ConstantsAssumption
    <2>6. led' \in Rotation!Present(Added)
      BY <2>4, AddedFacts
    <2> QED
      BY <1>2, <2>5, <2>6 DEF Rotation!Switch
  <1>4. CASE ~(is_timer_running /\ IsEqualOrAfter(now, ignore_timer_before_time))
    BY <1>2, <1>4 DEF NotificationTimerCb
  <1> QED
    BY <1>3, <1>4

\* The list, the iterator and the timer implement what led_manager.h promises: a
\* notification that is added is displayed at once if it is the only one, a
\* removed one is never displayed any longer, and the LED only ever shows what
\* has been added and not removed.
THEOREM RefinesRotation == Spec => ImplementsRotation
  <1>1. Init => Rotation!Init
    <2> SUFFICES ASSUME Init PROVE Rotation!Init
      OBVIOUS
    <2>1. Nodes = {}
      BY DEF Init, Nodes, ToSet
    <2>2. \A k \in Kinds : {s \in Nodes : kind[s] = k} = {}
      BY <2>1
    <2>3. Added = [k \in Kinds |-> 0]
      BY <2>2, FS_EmptySet DEF Added
    <2> QED
      BY <2>3 DEF Init, Rotation!Init
  <1>2. IInv /\ [Next]_vars => [Rotation!Next]_(Rotation!vars)
    <2> SUFFICES ASSUME IInv, [Next]_vars
                 PROVE  Rotation!Next \/ UNCHANGED <<Added, led>>
      BY DEF Rotation!vars
    <2>1. ASSUME NEW k \in Kinds, AddNotification(k) PROVE Rotation!Next
      BY <2>1, AddIsAdd DEF Rotation!Next
    <2>2. ASSUME NEW k \in Kinds, RemoveNotification(k) PROVE Rotation!Next
      BY <2>2, RemoveIsRemove DEF Rotation!Next
    <2>3. CASE NotificationTimerCb
      BY <2>3, NotificationTimerCbIsSwitch DEF Rotation!Next
    <2>4. CASE Tick \/ TimerIsr \/ UNCHANGED vars
      BY <2>4 DEF Tick, TimerIsr, vars, listVars, Added, Nodes
    <2> QED
      BY <2>1, <2>2, <2>3, <2>4 DEF Next
  <1> QED
    BY <1>1, <1>2, Invariant, PTL DEF Spec, ImplementsRotation, Rotation!Spec
=============================================================================
