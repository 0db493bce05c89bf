-------------------------- MODULE EventQueueProofs --------------------------
(***************************************************************************)
(* Proofs about EventQueue, for every set of events, every size of an      *)
(* event that fits its size byte, every pipe and every set of contexts.    *)
(***************************************************************************)
EXTENDS EventQueue, SequenceTheorems, WellFoundedInduction, TLAPS

-----------------------------------------------------------------------------
(* The inductive invariant                                                  *)

\* The bytes of a message are next to each other: around every byte of p, the bytes
\* of its message are where they belong, as far as p goes.
Framed(p) ==
  \A i \in DOMAIN p :
    /\ p[i][2] <= Size[p[i][1]]
    /\ \A j \in 0..Size[p[i][1]] :
         i + j - p[i][2] \in DOMAIN p => p[i + j - p[i][2]] = <<p[i][1], j>>

\* A pipe that ends with the last byte of a message, if it has any.
EndsWhole(p) == p # <<>> => p[Len(p)][2] = Size[p[Len(p)][1]]

\* The sound part of the pipe ends with a whole message; until a push is interrupted it
\* may end with the size byte of the only one that is under way.
EndsWithMessage ==
  IF pushing # <<>> /\ torn = Never
  THEN Len(pushing) = 1 /\ pipe # <<>> /\ pipe[Len(pipe)] = <<pushing[1].event, 0>>
  ELSE EndsWhole(Sound)

\* The sound part of the pipe begins with a size byte, or with the body of the message of
\* which the size byte has been popped.
BeginsWithMessage ==
  IF pc = "body"
  THEN \E e \in Events : wanted = Size[e] /\ Sound # <<>> /\ Sound[1] = <<e, 1>>
  ELSE Sound # <<>> => Sound[1][2] = 0

\* The torn message is in the pipe.
TornInPipe == torn # Never => torn \in 1..Len(pipe)

\* The inductive invariant: as long as the thread has not got to a message that another
\* push was written into, the pipe up to it is a sequence of whole messages.
PipeInv ==
  torn # 0 =>
    /\ TornInPipe
    /\ Framed(Sound)
    /\ FramesStayWhole
    /\ fault = "none" => EndsWithMessage /\ BeginsWithMessage

-----------------------------------------------------------------------------
(* Numbers                                                                  *)

\* A set of numbers has a smallest one.
LEMMA SmallestExists ==
  ASSUME NEW I \in SUBSET Nat, I # {}
  PROVE  \E m \in I : \A i \in I : m <= i
  <1>1. PICK m \in I : \A i \in I : <<i, m>> \notin OpToRel(<, Nat)
    BY NatLessThanWellFounded, WFMin
  <1> SUFFICES ASSUME NEW i \in I PROVE m <= i
    OBVIOUS
  <1>2. m \in Nat /\ i \in Nat
    OBVIOUS
  <1>3. ~(i < m)
    BY <1>1, <1>2 DEF OpToRel
  <1> QED
    BY <1>2, <1>3

\* Induction up to n: a set P that has 0, and with each number the next one, has
\* them all.
LEMMA UpTo ==
  ASSUME NEW n \in Nat, NEW P, 0 \in P, \A i \in 0..n - 1 : i \in P => i + 1 \in P
  PROVE  \A i \in 0..n : i \in P
  <1> DEFINE Q == (0..n) \ P
  <1> SUFFICES ASSUME Q # {} PROVE FALSE
    OBVIOUS
  <1>1. Q \in SUBSET Nat
    OBVIOUS
  <1>2. PICK m \in Q : \A i \in Q : m <= i
    BY <1>1, SmallestExists
  <1>3. m \in Nat /\ m # 0 /\ m <= n /\ m - 1 \in 0..n - 1 /\ m - 1 + 1 = m
    BY <1>1
  <1>4. m - 1 \in P
    BY <1>2, <1>3
  <1> QED
    BY <1>3, <1>4

\* CENTRAL_EVENT_QUEUE_MAX_MESSAGE_SIZE is the largest of the sizes.
LEMMA MaxSizeFacts ==
  /\ MaxSize \in Nat
  /\ \A e \in Events : Size[e] \in Nat \ {0} /\ Size[e] <= MaxSize
  <1> DEFINE sizes == {Size[e] : e \in Events}
             gaps  == {255 - s : s \in sizes}
  <1>1. \A e \in Events : Size[e] \in 1..255
    BY ConstantsAssumption
  <1>2. sizes # {} /\ \A s \in sizes : s \in 1..255
    BY <1>1, ConstantsAssumption
  <1>3. gaps \in SUBSET Nat /\ gaps # {}
    <2> HIDE DEF sizes
    <2> QED
      BY <1>2
  <1>4. PICK g \in gaps : \A h \in gaps : g <= h
    BY <1>3, SmallestExists
  <1>5. \E m \in sizes : \A s \in sizes : m >= s
    <2>1. PICK m \in sizes : g = 255 - m
      OBVIOUS
    <2>2. \A s \in sizes : 255 - s \in gaps
      OBVIOUS
    <2> HIDE DEF sizes, gaps
    <2>3. m \in sizes /\ \A s \in sizes : g <= 255 - s
      BY <1>4, <2>1, <2>2
    <2>4. ASSUME NEW s \in sizes PROVE m >= s
      <3>1. m \in 1..255 /\ s \in 1..255 /\ 255 - m <= 255 - s
        BY <1>2, <2>1, <2>3
      <3> QED
        BY <3>1
    <2> QED
      BY <2>3, <2>4
  <1>6. MaxSize \in sizes /\ \A s \in sizes : MaxSize >= s
    <2>1. MaxSize = CHOOSE m \in sizes : \A s \in sizes : m >= s
      BY DEF MaxSize, Max
    <2> HIDE DEF sizes
    <2> QED
      BY <1>5, <2>1
  <1>7. \A e \in Events : Size[e] \in sizes
    OBVIOUS
  <1> HIDE DEF sizes
  <1> QED
    BY <1>1, <1>2, <1>6, <1>7

-----------------------------------------------------------------------------
(* The events that are completely in a pipe                                 *)

\* The bytes of the pipe.
LEMMA ByteFacts ==
  ASSUME NEW b \in Bytes
  PROVE  /\ b = <<b[1], b[2]>> /\ b[1] \in Events /\ b[2] \in Nat
         /\ Size[b[1]] \in Nat \ {0}
  BY MaxSizeFacts DEF Bytes

\* What the definition of Complete says.
LEMMA CompleteTurns ==
  ASSUME NEW p \in Seq(Bytes)
  PROVE  /\ Complete(p)[0] = <<>>
         /\ \A n \in 1..Len(p) :
              Complete(p)[n] = IF p[n][2] = Size[p[n][1]]
                               THEN Append(Complete(p)[n - 1], p[n][1])
                               ELSE Complete(p)[n - 1]
  <1> DEFINE N == Len(p)
             Turn(i, x) == IF p[i][2] = Size[p[i][1]] THEN Append(x, p[i][1]) ELSE x
             Loop(f, n) == [i \in 0..n |-> IF i = 0 THEN <<>> ELSE Turn(i, f[i - 1])]
             P == {n \in 0..N : \E f : f = Loop(f, n)}
  <1>0. N \in Nat
    OBVIOUS
  <1>5. Complete(p) = CHOOSE f : f = Loop(f, N)
    BY DEF Complete
  <1> HIDE DEF Turn, N
  <1>1. 0 \in P
    <2> DEFINE f == [i \in 0..0 |-> <<>>]
    <2>1. f = Loop(f, 0)
      OBVIOUS
    <2>2. \E g : g = Loop(g, 0)
      BY <2>1
    <2> QED
      BY <1>0, <2>2
  <1>2. ASSUME NEW n \in 0..N - 1, n \in P PROVE n + 1 \in P
    <2>1. PICK f : f = Loop(f, n)
      BY <1>2
    <2> DEFINE g == [i \in 0..(n + 1) |-> IF i = n + 1 THEN Turn(n + 1, f[n]) ELSE f[i]]
    <2>2. n \in Nat /\ n + 1 \in 0..N
      BY <1>0
    <2>3. \A i \in 0..n : f[i] = IF i = 0 THEN <<>> ELSE Turn(i, f[i - 1])
      BY <2>1
    <2>4. \A i \in 0..(n + 1) : g[i] = IF i = 0 THEN <<>> ELSE Turn(i, g[i - 1])
      BY <2>2, <2>3
    <2>5. g = Loop(g, n + 1)
      BY <2>4
    <2>6. \E h : h = Loop(h, n + 1)
      BY <2>5
    <2> QED
      BY <2>2, <2>6
  <1>3. N \in P
    <2>1. \A n \in 0..N - 1 : n \in P => n + 1 \in P
      BY <1>2
    <2> HIDE DEF P
    <2>2. \A n \in 0..N : n \in P
      BY <1>0, <1>1, <2>1, UpTo
    <2> QED
      BY <1>0, <2>2
  <1>4. \E f : f = Loop(f, N)
    BY <1>3
  <1>6. Complete(p) = Loop(Complete(p), N)
    <2> HIDE DEF Loop
    <2> QED
      BY <1>4, <1>5
  <1> DEFINE f == Complete(p)
  <1> HIDE DEF f
  <1>7. f = Loop(f, N)
    BY <1>6 DEF f
  <1>8. f[0] = <<>> /\ \A n \in 1..N : f[n] = Turn(n, f[n - 1])
    BY <1>0, <1>7
  <1> QED
    BY <1>8 DEF f, Turn, N

\* Complete is a sequence of events.
LEMMA CompleteType ==
  ASSUME NEW p \in Seq(Bytes), NEW n \in 0..Len(p)
  PROVE  Complete(p)[n] \in Seq(Events)
  <1> DEFINE P == {i \in 0..Len(p) : Complete(p)[i] \in Seq(Events)}
  <1>1. Len(p) \in Nat
    OBVIOUS
  <1>2. 0 \in P
    <2>1. Complete(p)[0] = <<>>
      BY CompleteTurns
    <2>2. Complete(p)[0] \in Seq(Events)
      BY <2>1
    <2> QED
      BY <1>1, <2>2
  <1>3. ASSUME NEW i \in 0..Len(p) - 1, i \in P PROVE i + 1 \in P
    <2>1. i + 1 \in 1..Len(p) /\ i + 1 - 1 = i /\ i + 1 \in 0..Len(p) /\ p[i + 1] \in Bytes
      BY <1>1
    <2>2. p[i + 1][1] \in Events /\ Complete(p)[i] \in Seq(Events)
      BY <1>3, <2>1, ByteFacts
    <2>3. \A t \in 1..Len(p) : Complete(p)[t] \in
            {Complete(p)[t - 1], Append(Complete(p)[t - 1], p[t][1])}
      BY CompleteTurns
    <2>4. Complete(p)[i + 1] \in {Complete(p)[i], Append(Complete(p)[i], p[i + 1][1])}
      BY <2>1, <2>3
    <2>5. \A c \in Seq(Events), e \in Events : Append(c, e) \in Seq(Events)
      OBVIOUS
    <2>6. Complete(p)[i + 1] \in Seq(Events)
      BY <2>2, <2>4, <2>5
    <2> QED
      BY <2>1, <2>6
  <1> HIDE DEF P
  <1>4. \A i \in 0..Len(p) : i \in P
    BY <1>1, <1>2, <1>3, UpTo
  <1> QED
    BY <1>4 DEF P

\* The events that are complete in a pipe of which the first part ends anywhere.
LEMMA CompletePrefix ==
  ASSUME NEW p \in Seq(Bytes), NEW q \in Seq(Bytes), NEW n \in 0..Len(p)
  PROVE  Complete(p \o q)[n] = Complete(p)[n]
  <1> DEFINE P == {i \in 0..Len(p) : Complete(p \o q)[i] = Complete(p)[i]}
  <1>1. /\ Len(p) \in Nat /\ p \o q \in Seq(Bytes) /\ Len(p \o q) \in Nat /\ Len(p \o q) >= Len(p)
        /\ \A i \in 1..Len(p) : (p \o q)[i] = p[i]
    OBVIOUS
  <1>2. 0 \in P
    <2>1. Complete(p)[0] = <<>> /\ Complete(p \o q)[0] = <<>>
      BY <1>1, CompleteTurns
    <2> QED
      BY <1>1, <2>1
  <1>3. ASSUME NEW i \in 0..Len(p) - 1, i \in P PROVE i + 1 \in P
    <2>1. /\ i + 1 \in 1..Len(p) /\ i + 1 \in 1..Len(p \o q) /\ i + 1 - 1 = i
          /\ i + 1 \in 0..Len(p)
      BY <1>1
    <2>2. \A t \in 1..Len(p) :
            Complete(p)[t] = IF p[t][2] = Size[p[t][1]]
                             THEN Append(Complete(p)[t - 1], p[t][1]) ELSE Complete(p)[t - 1]
      BY CompleteTurns
    <2> DEFINE pq == p \o q
    <2> HIDE DEF pq
    <2>3. \A t \in 1..Len(pq) :
            Complete(pq)[t] = IF pq[t][2] = Size[pq[t][1]]
                              THEN Append(Complete(pq)[t - 1], pq[t][1]) ELSE Complete(pq)[t - 1]
      BY <1>1, CompleteTurns DEF pq
    <2>4. pq[i + 1] = p[i + 1] /\ Complete(pq)[i] = Complete(p)[i]
      BY <1>1, <1>3, <2>1 DEF pq
    <2>5. Complete(pq)[i + 1] = Complete(p)[i + 1]
      <3> USE <2>1 DEF pq
      <3>1. Complete(p)[i + 1] = IF p[i + 1][2] = Size[p[i + 1][1]]
                                 THEN Append(Complete(p)[i], p[i + 1][1]) ELSE Complete(p)[i]
        BY <2>2
      <3> HIDE DEF pq
      <3>2. Complete(pq)[i + 1] = IF pq[i + 1][2] = Size[pq[i + 1][1]]
                                  THEN Append(Complete(pq)[i], pq[i + 1][1]) ELSE Complete(pq)[i]
        BY <2>3 DEF pq
      <3> QED
        BY <2>4, <3>1, <3>2
    <2> QED
      BY <2>1, <2>5 DEF pq
  <1> HIDE DEF P
  <1>4. \A i \in 0..Len(p) : i \in P
    BY <1>1, <1>2, <1>3, UpTo
  <1> QED
    BY <1>4 DEF P

\* What is complete in two pipes, one behind the other.
LEMMA CompleteConcat ==
  ASSUME NEW p \in Seq(Bytes), NEW q \in Seq(Bytes)
  PROVE  Complete(p \o q)[Len(p \o q)] = Complete(p)[Len(p)] \o Complete(q)[Len(q)]
  <1> DEFINE pq == p \o q
             a  == Complete(p)[Len(p)]
             P  == {i \in 0..Len(q) : Complete(pq)[Len(p) + i] = a \o Complete(q)[i]}
  <1>1. /\ Len(p) \in Nat /\ Len(q) \in Nat /\ pq \in Seq(Bytes) /\ Len(pq) = Len(p) + Len(q)
        /\ \A i \in 1..Len(q) : pq[Len(p) + i] = q[i]
    OBVIOUS
  <1>2. a \in Seq(Events)
    BY <1>1, CompleteType
  <1>3. 0 \in P
    <2>1. Complete(pq)[Len(p) + 0] = a
      BY <1>1, CompletePrefix
    <2>2. Complete(q)[0] = <<>>
      BY CompleteTurns
    <2> HIDE DEF a, pq
    <2>3. a \o <<>> = a
      BY <1>2
    <2>4. Complete(pq)[Len(p) + 0] = a \o Complete(q)[0]
      BY <2>1, <2>2, <2>3
    <2> QED
      BY <1>1, <2>4
  <1> HIDE DEF a, pq
  <1>4. ASSUME NEW i \in 0..Len(q) - 1, i \in P PROVE i + 1 \in P
    <2>1. /\ i + 1 \in 1..Len(q) /\ i + 1 - 1 = i /\ i + 1 \in 0..Len(q) /\ i \in 0..Len(q)
          /\ Len(p) + (i + 1) \in 1..Len(pq) /\ Len(p) + (i + 1) - 1 = Len(p) + i
          /\ q[i + 1] \in Bytes
      BY <1>1
    <2> DEFINE c == Complete(q)[i]
               n == Len(p) + (i + 1)
               b == q[i + 1]
    <2>2. c \in Seq(Events) /\ b[1] \in Events
      BY <2>1, CompleteType, ByteFacts
    <2>3. pq[n] = b /\ Complete(pq)[n - 1] = a \o c
      BY <1>1, <1>4, <2>1
    <2>4. Complete(q)[i + 1] = IF b[2] = Size[b[1]] THEN Append(c, b[1]) ELSE c
      <3>1. \A t \in 1..Len(q) :
              Complete(q)[t] = IF q[t][2] = Size[q[t][1]]
                               THEN Append(Complete(q)[t - 1], q[t][1]) ELSE Complete(q)[t - 1]
        BY CompleteTurns
      <3> QED
        BY <2>1, <3>1
    <2>5. Complete(pq)[n] = IF b[2] = Size[b[1]] THEN Append(a \o c, b[1]) ELSE a \o c
      <3>1. \A t \in 1..Len(pq) :
              Complete(pq)[t] = IF pq[t][2] = Size[pq[t][1]]
                                THEN Append(Complete(pq)[t - 1], pq[t][1]) ELSE Complete(pq)[t - 1]
        BY <1>1, CompleteTurns
      <3>2. n \in 1..Len(pq)
        BY <2>1
      <3> HIDE DEF n, b, c
      <3> QED
        BY <2>3, <3>1, <3>2
    <2>6. Append(a \o c, b[1]) = a \o Append(c, b[1])
      <3>1. Append(a \o c, b[1]) = (a \o c) \o <<b[1]>>
        BY <1>2, <2>2, AppendIsConcat, ConcatProperties
      <3>2. Append(c, b[1]) = c \o <<b[1]>> /\ <<b[1]>> \in Seq(Events)
        BY <2>2, AppendIsConcat
      <3>3. (a \o c) \o <<b[1]>> = a \o (c \o <<b[1]>>)
        <4> DEFINE d == <<b[1]>>
        <4>1. d \in Seq(Events)
          BY <3>2
        <4> HIDE DEF c, d
        <4>2. (a \o c) \o d = a \o (c \o d)
          BY <1>2, <2>2, <4>1, ConcatAssociative
        <4> QED
          BY <4>2 DEF d
      <3> QED
        BY <3>1, <3>2, <3>3
    <2>7. Complete(pq)[n] = a \o Complete(q)[i + 1]
      <3> HIDE DEF n, b, c
      <3> QED
        BY <2>4, <2>5, <2>6
    <2> QED
      BY <2>1, <2>7
  <1> HIDE DEF P
  <1>5. \A i \in 0..Len(q) : i \in P
    BY <1>1, <1>3, <1>4, UpTo
  <1>6. Len(q) \in P
    BY <1>1, <1>5
  <1> QED
    BY <1>1, <1>6 DEF P, a, pq

\* A body is complete with its last byte.
LEMMA CompleteBody ==
  ASSUME NEW e \in Events, NEW p \in Seq(Bytes), Len(p) <= Size[e],
         \A i \in DOMAIN p : p[i] = <<e, i>>
  PROVE  Complete(p)[Len(p)] = IF Len(p) = Size[e] THEN <<e>> ELSE <<>>
  <1> DEFINE P == {i \in 0..Len(p) : Complete(p)[i] = IF i = Size[e] THEN <<e>> ELSE <<>>}
  <1>1. Len(p) \in Nat /\ Size[e] \in Nat \ {0} /\ \A i \in 1..Len(p) : p[i] = <<e, i>>
    BY MaxSizeFacts
  <1>2. 0 \in P
    <2>1. Complete(p)[0] = <<>>
      BY CompleteTurns
    <2> QED
      BY <1>1, <2>1
  <1>3. ASSUME NEW i \in 0..Len(p) - 1, i \in P PROVE i + 1 \in P
    <2>1. /\ i + 1 \in 1..Len(p) /\ i + 1 - 1 = i /\ i + 1 \in 0..Len(p) /\ i # Size[e]
          /\ p[i + 1] = <<e, i + 1>>
      BY <1>1
    <2>2. Complete(p)[i] = <<>>
      BY <1>3, <2>1
    <2>3. \A t \in 1..Len(p) :
            Complete(p)[t] = IF p[t][2] = Size[p[t][1]]
                             THEN Append(Complete(p)[t - 1], p[t][1]) ELSE Complete(p)[t - 1]
      BY CompleteTurns
    <2>4. Complete(p)[i + 1] = IF i + 1 = Size[e] THEN Append(<<>>, e) ELSE <<>>
      <3>1. Complete(p)[i + 1] = IF p[i + 1][2] = Size[p[i + 1][1]]
                                 THEN Append(Complete(p)[i], p[i + 1][1]) ELSE Complete(p)[i]
        BY <2>1, <2>3
      <3>2. p[i + 1][1] = e /\ p[i + 1][2] = i + 1
        BY <2>1
      <3> QED
        BY <2>2, <3>1, <3>2
    <2>5. Append(<<>>, e) = <<e>>
      OBVIOUS
    <2> QED
      BY <2>1, <2>4, <2>5
  <1> HIDE DEF P
  <1>4. \A i \in 0..Len(p) : i \in P
    BY <1>1, <1>2, <1>3, UpTo
  <1>5. Len(p) \in P
    BY <1>1, <1>4
  <1> QED
    BY <1>5 DEF P

-----------------------------------------------------------------------------
(* Types                                                                    *)

\* The message of an event.
LEMMA BodyFacts ==
  ASSUME NEW e \in Events
  PROVE  /\ Body(e) \in Seq(Bytes) /\ Len(Body(e)) = Size[e]
         /\ \A i \in 1..Size[e] : Body(e)[i] = <<e, i>>
  <1>1. Size[e] \in Nat \ {0} /\ Size[e] <= MaxSize /\ MaxSize \in Nat
    BY MaxSizeFacts
  <1>2. \A i \in 1..Size[e] : <<e, i>> \in Bytes
    BY <1>1 DEF Bytes
  <1> QED
    BY <1>1, <1>2 DEF Body

\* The second k_pipe_write: as much of the message as there is room for.
LEMMA WrittenFacts ==
  ASSUME TypeOK, NEW e \in Events
  PROVE  LET room    == Capacity - Len(pipe)
             written == SubSeq(Body(e), 1, Min({room, Len(Body(e))}))
         IN  /\ written \in Seq(Bytes) /\ Len(written) = IF room < Size[e] THEN room ELSE Size[e]
             /\ Len(written) <= Size[e] /\ Len(pipe) + Len(written) <= Capacity
             /\ \A i \in 1..Len(written) : written[i] = <<e, i>>
  <1> DEFINE room    == Capacity - Len(pipe)
             n       == IF room < Size[e] THEN room ELSE Size[e]
             written == SubSeq(Body(e), 1, n)
  <1>1. /\ Len(pipe) \in Nat /\ Capacity \in Nat /\ room \in Nat
        /\ Size[e] \in Nat \ {0} /\ n \in 0..Size[e] /\ n <= room
    BY ConstantsAssumption, MaxSizeFacts DEF TypeOK
  <1>2. Min({room, Size[e]}) = n
    <2>1. n \in {room, Size[e]} /\ \A x \in {room, Size[e]} : n <= x
      BY <1>1
    <2>2. \A x \in {room, Size[e]} : x \in Nat
      BY <1>1
    <2> HIDE DEF n, room
    <2>3. \A x \in {room, Size[e]} : (\A y \in {room, Size[e]} : x <= y) => x = n
      BY <2>1, <2>2
    <2> QED
      BY <2>1, <2>3 DEF Min
  <1>3. /\ written \in Seq(Bytes) /\ Len(written) = n
        /\ \A i \in 1..n : written[i] = <<e, i>>
    <2> HIDE DEF n
    <2>1. \A i \in 1..n : i \in 1..Size[e]
      BY <1>1
    <2>2. /\ Len(written) = n /\ written \in Seq(Bytes)
          /\ \A i \in 1..n : written[i] = Body(e)[i]
      BY <1>1, BodyFacts
    <2> QED
      BY <2>1, <2>2, BodyFacts
  <1>4. written = SubSeq(Body(e), 1, Min({room, Len(Body(e))}))
    BY <1>2, BodyFacts
  <1>5. Len(written) <= Size[e] /\ Len(pipe) + Len(written) <= Capacity
    <2> HIDE DEF written
    <2> QED
      BY <1>1, <1>3
  <1> HIDE DEF written
  <1> QED
    BY <1>3, <1>4, <1>5

\* The event that a context pushes.
LEMMA PushingFacts ==
  ASSUME TypeOK, pushing # <<>>
  PROVE  /\ Last(pushing).event \in Events
         /\ Front(pushing) \in Seq([context : Contexts, event : Events])
         /\ Len(Front(pushing)) = Len(pushing) - 1
  <1> DEFINE S == [context : Contexts, event : Events]
  <1>1. pushing \in Seq(S) /\ Len(pushing) \in Nat \ {0} /\ Len(pushing) \in 1..Len(pushing)
    BY DEF TypeOK
  <1>2. pushing[Len(pushing)] \in S
    <2> HIDE DEF S
    <2> QED
      BY <1>1
  <1>3. Front(pushing) \in Seq(S) /\ Len(Front(pushing)) = Len(pushing) - 1
    <2> HIDE DEF S
    <2> DEFINE n == Len(pushing) - 1
    <2>1. 1 \in 1..Len(pushing) + 1 /\ n \in 1 - 1..Len(pushing)
      BY <1>1
    <2>2. Front(pushing) = SubSeq(pushing, 1, n)
      BY DEF Front
    <2> HIDE DEF n
    <2>3. /\ SubSeq(pushing, 1, n) \in Seq(S)
          /\ Len(SubSeq(pushing, 1, n)) = IF 1 <= n THEN n - 1 + 1 ELSE 0
      BY <1>1, <2>1, SubSeqProperties
    <2>4. n \in Nat
      BY <2>1
    <2>5. Len(SubSeq(pushing, 1, n)) = n
      <3> DEFINE c == Len(SubSeq(pushing, 1, n))
      <3>1. c = IF 1 <= n THEN n - 1 + 1 ELSE 0
        BY <2>3
      <3> HIDE DEF c
      <3>2. c = n
        BY <2>4, <3>1
      <3> QED
        BY <3>2 DEF c
    <2> QED
      BY <2>2, <2>3, <2>5 DEF n
  <1> QED
    BY <1>2, <1>3 DEF Last

\* Every variable keeps its type, however the contexts interrupt each other: the pipe
\* never holds more than its capacity, and no message is longer than the buffer it is
\* popped into.
THEOREM TypeCorrect == Spec => []TypeOK
  <1> USE ConstantsAssumption
  <1>1. Init => TypeOK
    BY MaxSizeFacts DEF Init, TypeOK
  <1>3. ASSUME TypeOK, NEW n \in Nat PROVE TornAfter(n) \in {Never} \cup 0..Capacity
    BY <1>3 DEF TypeOK, TornAfter, Never
  <1>2. TypeOK /\ [Next]_vars => TypeOK'
    <2> SUFFICES ASSUME TypeOK, [Next]_vars PROVE TypeOK'
      OBVIOUS
    <2>0. Len(pipe) \in Nat /\ Len(pipe) \in 0..Capacity
      BY DEF TypeOK
    <2>1. ASSUME NEW c \in Contexts, NEW e \in Events, PushSize(c, e) PROVE TypeOK'
      <3>1. <<e, 0>> \in Bytes
        BY MaxSizeFacts DEF Bytes
      <3>2. CASE Len(pipe) < Capacity
        <4>1. Append(pipe, <<e, 0>>) \in Seq(Bytes) /\ Len(Append(pipe, <<e, 0>>)) <= Capacity
          BY <2>0, <3>1, <3>2 DEF TypeOK
        <4>2. Append(pushing, [context |-> c, event |-> e])
                \in Seq([context : Contexts, event : Events])
          BY DEF TypeOK
        <4>3. torn' \in {Never} \cup 0..Capacity
          BY <2>0, <2>1, <3>2 DEF TypeOK, PushSize
        <4> QED
          BY <2>1, <3>2, <4>1, <4>2, <4>3 DEF TypeOK, PushSize
      <3>3. CASE ~(Len(pipe) < Capacity)
        BY <2>1, <3>3 DEF TypeOK, PushSize
      <3> QED
        BY <3>2, <3>3
    <2>2. CASE PushBody
      <3> DEFINE e == Last(pushing).event
                 written == SubSeq(Body(e), 1, Min({Capacity - Len(pipe), Len(Body(e))}))
      <3>1. /\ e \in Events /\ pipe' = pipe \o written /\ pushing' = Front(pushing)
            /\ fault' \in {"full", fault} /\ UNCHANGED <<pc, wanted, current, torn>>
        BY <2>2, PushingFacts DEF PushBody
      <3>2. written \in Seq(Bytes) /\ Len(pipe) + Len(written) <= Capacity
        BY <3>1, WrittenFacts
      <3>3. Front(pushing) \in Seq([context : Contexts, event : Events])
        BY <2>2, PushingFacts DEF PushBody
      <3> HIDE DEF e, written
      <3>4. pipe \o written \in Seq(Bytes) /\ Len(pipe \o written) <= Capacity
        BY <2>0, <3>2 DEF TypeOK
      <3> QED
        BY <3>1, <3>3, <3>4 DEF TypeOK
    <2>3. CASE PopSize
      <3>1. Tail(pipe) \in Seq(Bytes) /\ Len(Tail(pipe)) <= Capacity /\ Head(pipe) \in Bytes
        BY <2>0, <2>3 DEF TypeOK, PopSize
      <3>2. PICK size \in IF Head(pipe)[2] = 0 THEN {Size[Head(pipe)[1]]} ELSE 0..MaxSize + 1 :
              IF size <= MaxSize
              THEN wanted' = size /\ pc' = "body" /\ UNCHANGED fault
              ELSE fault' = "size" /\ UNCHANGED <<wanted, pc>>
        BY <2>3 DEF PopSize
      <3>3. size \in Nat /\ MaxSize \in Nat
        BY <3>1, ByteFacts, MaxSizeFacts
      <3>4. torn' \in {Never} \cup 0..Capacity
        BY <1>3, <2>3 DEF PopSize
      <3> QED
        BY <2>3, <3>1, <3>2, <3>3, <3>4 DEF TypeOK, PopSize
    <2>4. CASE PopBody
      <3>1. wanted \in Nat /\ MaxSize \in Nat
        BY MaxSizeFacts DEF TypeOK
      <3>2. /\ SubSeq(pipe, wanted + 1, Len(pipe)) \in Seq(Bytes)
            /\ Len(SubSeq(pipe, wanted + 1, Len(pipe))) <= Capacity
        BY <2>0, <2>4, <3>1 DEF TypeOK, PopBody
      <3>3. current' \in Events \cup {Garbage}
        BY <2>4 DEF PopBody
      <3>4. torn' \in {Never} \cup 0..Capacity
        BY <1>3, <2>4, <3>1 DEF PopBody
      <3> QED
        BY <2>4, <3>1, <3>2, <3>3, <3>4 DEF TypeOK, PopBody
    <2>5. CASE Handled
      BY <2>5 DEF TypeOK, Handled
    <2>6. CASE UNCHANGED vars
      BY <2>6 DEF TypeOK, vars
    <2> QED
      BY <2>1, <2>2, <2>3, <2>4, <2>5, <2>6 DEF Next
  <1> QED
    BY <1>1, <1>2, PTL DEF Spec

-----------------------------------------------------------------------------
(* Messages stay whole                                                      *)

\* The first k_pipe_write, behind a whole message.
LEMMA FramedSize ==
  ASSUME NEW p \in Seq(Bytes), Framed(p), p # <<>> => p[Len(p)][2] = Size[p[Len(p)][1]],
         NEW e \in Events
  PROVE  Framed(Append(p, <<e, 0>>))
  <1> DEFINE q == Append(p, <<e, 0>>)
             L == Len(p)
  <1>1. /\ L \in Nat /\ DOMAIN p = 1..L /\ DOMAIN q = 1..L + 1 /\ q[L + 1] = <<e, 0>>
        /\ \A i \in 1..L : q[i] = p[i] /\ p[i] \in Bytes
        /\ L > 0 => p[L][2] = Size[p[L][1]]
    OBVIOUS
  <1> HIDE DEF q, L
  <1> SUFFICES ASSUME NEW i \in 1..L + 1
               PROVE  /\ q[i][2] <= Size[q[i][1]]
                      /\ \A j \in 0..Size[q[i][1]] : i + j - q[i][2] \in 1..L + 1
                            => q[i + j - q[i][2]] = <<q[i][1], j>>
    BY <1>1 DEF Framed, q
  <1>2. CASE i = L + 1
    <2>1. q[i][1] = e /\ q[i][2] = 0 /\ Size[e] \in Nat
      BY <1>1, <1>2, MaxSizeFacts
    <2>2. \A j \in 0..Size[e] : i + j - 0 \in 1..L + 1 => j = 0
      BY <1>1, <1>2, <2>1
    <2>3. i + 0 - 0 = L + 1
      BY <1>1, <1>2
    <2> QED
      BY <1>1, <2>1, <2>2, <2>3
  <1>3. CASE i \in 1..L
    <2> DEFINE f == p[i][1]
               k == p[i][2]
    <2>1. q[i] = p[i] /\ f \in Events /\ k \in Nat /\ Size[f] \in Nat
      BY <1>1, <1>3, ByteFacts
    <2>2. k <= Size[f] /\ \A j \in 0..Size[f] : i + j - k \in 1..L => p[i + j - k] = <<f, j>>
      BY <1>1, <1>3 DEF Framed
    <2> HIDE DEF f, k
    <2>3. ASSUME NEW j \in 0..Size[f], i + j - k = L + 1 PROVE FALSE
      <3>1. j - 1 \in 0..Size[f] /\ i + (j - 1) - k = L /\ L \in 1..L
        BY <1>1, <1>3, <2>1, <2>2, <2>3
      <3>2. p[L] = <<f, j - 1>>
        BY <2>2, <3>1
      <3>3. j - 1 = Size[f]
        BY <1>1, <3>1, <3>2
      <3> QED
        BY <2>1, <3>3
    <2>4. ASSUME NEW j \in 0..Size[f], i + j - k \in 1..L + 1 PROVE q[i + j - k] = <<f, j>>
      <3>1. i + j - k \in 1..L
        BY <1>1, <1>3, <2>1, <2>3, <2>4
      <3> QED
        BY <1>1, <2>2, <3>1
    <2> QED
      BY <2>1, <2>2, <2>4 DEF f, k
  <1> QED
    BY <1>1, <1>2, <1>3

\* The second k_pipe_write, behind the size byte, also if it is cut off.
LEMMA FramedBody ==
  ASSUME NEW p \in Seq(Bytes), Framed(p), NEW e \in Events, p # <<>>, p[Len(p)] = <<e, 0>>,
         NEW w \in Seq(Bytes), Len(w) <= Size[e], \A i \in 1..Len(w) : w[i] = <<e, i>>
  PROVE  Framed(p \o w)
  <1> DEFINE q == p \o w
             L == Len(p)
             W == Len(w)
  <1>1. /\ L \in Nat /\ W \in Nat /\ DOMAIN p = 1..L /\ DOMAIN q = 1..L + W /\ L > 0
        /\ \A i \in 1..L : q[i] = p[i] /\ p[i] \in Bytes
        /\ \A i \in 1..L + W : ~(i <= L) => q[i] = w[i - L]
    OBVIOUS
  <1>2. \A i \in 1..L + W : ~(i <= L) => q[i] = <<e, i - L>>
    <2> SUFFICES ASSUME NEW i \in 1..L + W, ~(i <= L) PROVE q[i] = <<e, i - L>>
      OBVIOUS
    <2>1. i - L \in 1..W
      BY <1>1
    <2> QED
      BY <1>1, <2>1
  <1>3. p[L] = <<e, 0>> /\ W <= Size[e] /\ Size[e] \in Nat
    BY MaxSizeFacts
  <1> HIDE DEF q, L, W
  <1> SUFFICES ASSUME NEW i \in 1..L + W
               PROVE  /\ q[i][2] <= Size[q[i][1]]
                      /\ \A j \in 0..Size[q[i][1]] : i + j - q[i][2] \in 1..L + W
                            => q[i + j - q[i][2]] = <<q[i][1], j>>
    BY <1>1 DEF Framed, q
  <1>4. CASE ~(i <= L)
    <2>1. q[i][1] = e /\ q[i][2] = i - L /\ i - L <= Size[e]
      BY <1>1, <1>2, <1>3, <1>4
    <2>2. ASSUME NEW j \in 0..Size[e], i + j - (i - L) \in 1..L + W
          PROVE  q[i + j - (i - L)] = <<e, j>>
      <3>1. i + j - (i - L) = L + j /\ j \in Nat
        BY <1>1, <1>3
      <3>2. CASE j = 0
        <4>1. L + j = L /\ L \in 1..L
          BY <1>1, <3>2
        <4> QED
          BY <1>1, <1>3, <3>1, <3>2, <4>1
      <3>3. CASE j > 0
        <4>1. L + j \in 1..L + W /\ ~(L + j <= L) /\ L + j - L = j
          BY <1>1, <2>2, <3>1, <3>3
        <4> DEFINE t == L + j
        <4>2. t \in 1..L + W /\ ~(t <= L) /\ t - L = j
          BY <1>1, <3>1, <4>1
        <4> HIDE DEF t
        <4>3. q[t] = <<e, t - L>>
          BY <1>2, <4>2
        <4> QED
          BY <3>1, <4>2, <4>3 DEF t
      <3> QED
        BY <3>1, <3>2, <3>3
    <2> QED
      BY <2>1, <2>2
  <1>5. CASE i <= L
    <2> DEFINE f == p[i][1]
               k == p[i][2]
    <2>0. i \in 1..L
      BY <1>1, <1>5
    <2>1. q[i] = p[i] /\ f \in Events /\ k \in Nat /\ Size[f] \in Nat
      BY <1>1, <2>0, ByteFacts
    <2>2. k <= Size[f] /\ \A j \in 0..Size[f] : i + j - k \in 1..L => p[i + j - k] = <<f, j>>
      BY <1>1, <2>0 DEF Framed
    <2> HIDE DEF f, k
    <2>3. ASSUME NEW j \in 0..Size[f], i + j - k \in 1..L + W, ~(i + j - k <= L)
          PROVE  q[i + j - k] = <<f, j>>
      <3>1. L - i + k \in 0..Size[f] /\ i + (L - i + k) - k = L /\ L \in 1..L
        BY <1>1, <2>0, <2>1, <2>2, <2>3
      <3>2. p[L] = <<f, L - i + k>>
        BY <2>2, <3>1
      <3>3. f = e /\ L - i + k = 0
        BY <1>3, <3>2
      <3>4. i + j - k - L = j
        BY <1>1, <2>0, <2>1, <3>3
      <3> DEFINE t == i + j - k
      <3>5. t \in 1..L + W /\ ~(t <= L) /\ t - L = j
        BY <1>1, <1>3, <2>0, <2>1, <2>3, <3>3, <3>4
      <3> HIDE DEF t
      <3>6. q[t] = <<e, t - L>>
        BY <1>2, <3>5
      <3> QED
        BY <3>3, <3>5, <3>6 DEF t
    <2>4. ASSUME NEW j \in 0..Size[f], i + j - k \in 1..L + W PROVE q[i + j - k] = <<f, j>>
      <3>1. CASE i + j - k <= L
        <4>1. i + j - k \in 1..L
          BY <1>1, <2>4, <3>1
        <4> QED
          BY <1>1, <2>2, <4>1
      <3> QED
        BY <2>3, <2>4, <3>1
    <2> QED
      BY <2>1, <2>2, <2>4 DEF f, k
  <1> QED
    BY <1>4, <1>5

\* What is left when bytes have been read.
LEMMA FramedRest ==
  ASSUME NEW p \in Seq(Bytes), Framed(p), NEW n \in 0..Len(p), NEW r \in Seq(Bytes),
         Len(r) = Len(p) - n, \A i \in 1..Len(r) : r[i] = p[n + i]
  PROVE  Framed(r)
  <1> DEFINE L == Len(p)
  <1>1. /\ L \in Nat /\ n \in Nat /\ n <= L /\ DOMAIN p = 1..L /\ DOMAIN r = 1..L - n
        /\ \A i \in 1..L - n : r[i] = p[n + i]
        /\ \A i \in 1..L : p[i] \in Bytes
    OBVIOUS
  <1> HIDE DEF L
  <1> SUFFICES ASSUME NEW i \in 1..L - n
               PROVE  /\ r[i][2] <= Size[r[i][1]]
                      /\ \A j \in 0..Size[r[i][1]] : i + j - r[i][2] \in 1..L - n
                            => r[i + j - r[i][2]] = <<r[i][1], j>>
    BY <1>1 DEF Framed
  <1> DEFINE f == p[n + i][1]
             k == p[n + i][2]
  <1>2. n + i \in 1..L /\ r[i] = p[n + i]
    BY <1>1
  <1>3. f \in Events /\ k \in Nat /\ Size[f] \in Nat
    BY <1>1, <1>2, ByteFacts
  <1>4. /\ k <= Size[f]
        /\ \A j \in 0..Size[f] : n + i + j - k \in 1..L => p[n + i + j - k] = <<f, j>>
    BY <1>1, <1>2 DEF Framed
  <1> HIDE DEF f, k
  <1>5. ASSUME NEW j \in 0..Size[f], i + j - k \in 1..L - n PROVE r[i + j - k] = <<f, j>>
    <2>1. n + (i + j - k) = n + i + j - k /\ n + i + j - k \in 1..L
      BY <1>1, <1>3, <1>5
    <2> QED
      BY <1>1, <1>4, <1>5, <2>1
  <1> QED
    BY <1>2, <1>4, <1>5 DEF f, k

\* The beginning of a pipe.
LEMMA FramedFront ==
  ASSUME NEW p \in Seq(Bytes), Framed(p), NEW r \in Seq(Bytes), Len(r) <= Len(p),
         \A i \in 1..Len(r) : r[i] = p[i]
  PROVE  Framed(r)
  <1>1. /\ DOMAIN r = 1..Len(r) /\ DOMAIN p = 1..Len(p) /\ Len(r) \in Nat /\ Len(p) \in Nat
    OBVIOUS
  <1>2. \A i \in DOMAIN r : i \in DOMAIN p /\ r[i] = p[i]
    BY <1>1
  <1> QED
    BY <1>2 DEF Framed

-----------------------------------------------------------------------------
(* The part of the pipe before the torn message                             *)

\* It is the beginning of the pipe.
LEMMA SoundFacts ==
  ASSUME TypeOK, TornInPipe, torn # 0
  PROVE  /\ Sound \in Seq(Bytes) /\ Len(Sound) \in Nat /\ Len(pipe) \in Nat
         /\ Len(Sound) = IF torn = Never THEN Len(pipe) ELSE torn - 1
         /\ Len(Sound) <= Len(pipe)
         /\ \A i \in 1..Len(Sound) : Sound[i] = pipe[i]
  <1>1. pipe \in Seq(Bytes) /\ Len(pipe) \in Nat
    BY DEF TypeOK
  <1>2. CASE torn = Never
    BY <1>1, <1>2 DEF Sound
  <1>3. CASE torn # Never
    <2>1. torn \in Nat \ {0} /\ torn <= Len(pipe) /\ Sound = SubSeq(pipe, 1, torn - 1)
      BY <1>1, <1>3 DEF TornInPipe, Sound
    <2> DEFINE n == torn - 1
    <2>2. n \in 0..Len(pipe) /\ n = torn - 1
      BY <1>1, <2>1
    <2> HIDE DEF n
    <2>3. /\ SubSeq(pipe, 1, n) \in Seq(Bytes) /\ Len(SubSeq(pipe, 1, n)) = n
          /\ \A i \in 1..n : SubSeq(pipe, 1, n)[i] = pipe[i]
      BY <1>1, <2>2
    <2>4. Sound = SubSeq(pipe, 1, n)
      BY <2>1, <2>2
    <2>5. Len(Sound) = n /\ Sound \in Seq(Bytes) /\ \A i \in 1..n : Sound[i] = pipe[i]
      BY <2>3, <2>4
    <2>6. n \in Nat /\ n <= Len(pipe)
      BY <1>1, <2>2
    <2> QED
      BY <1>1, <1>3, <2>2, <2>5, <2>6
  <1> QED
    BY <1>2, <1>3

\* Nothing is written into it once a message behind it is torn.
LEMMA SoundKept ==
  ASSUME TypeOK, TornInPipe, torn # 0, torn # Never, torn' = torn,
         NEW w \in Seq(Bytes), pipe' = pipe \o w
  PROVE  TornInPipe' /\ Sound' = Sound
  <1>1. /\ pipe \in Seq(Bytes) /\ Len(pipe) \in Nat /\ Len(w) \in Nat /\ torn \in 1..Len(pipe)
        /\ pipe' \in Seq(Bytes) /\ Len(pipe') = Len(pipe) + Len(w)
        /\ \A i \in 1..Len(pipe) : pipe'[i] = pipe[i]
    BY DEF TypeOK, TornInPipe
  <1>2. torn' \in 1..Len(pipe')
    BY <1>1
  <1> DEFINE n == torn - 1
  <1>3. n \in 0..Len(pipe) /\ n \in 0..Len(pipe') /\ Sound = SubSeq(pipe, 1, n) /\ Sound' = SubSeq(pipe', 1, n)
    BY <1>1 DEF Sound
  <1> HIDE DEF n
  <1>4. /\ SubSeq(pipe, 1, n) \in Seq(Bytes) /\ Len(SubSeq(pipe, 1, n)) = n
        /\ \A i \in 1..n : SubSeq(pipe, 1, n)[i] = pipe[i]
    BY <1>1, <1>3
  <1> DEFINE q == pipe'
  <1>5. q \in Seq(Bytes) /\ n \in 0..Len(q) /\ \A i \in 1..n : q[i] = pipe[i]
    BY <1>1, <1>3
  <1> HIDE DEF q
  <1>6. /\ SubSeq(q, 1, n) \in Seq(Bytes) /\ Len(SubSeq(q, 1, n)) = n
        /\ \A i \in 1..n : SubSeq(q, 1, n)[i] = q[i]
    BY <1>5
  <1>7. SubSeq(q, 1, n) = SubSeq(pipe, 1, n)
    <2> DEFINE a == SubSeq(q, 1, n)
               b == SubSeq(pipe, 1, n)
    <2>1. a \in Seq(Bytes) /\ b \in Seq(Bytes) /\ Len(a) = n /\ Len(b) = n /\ \A i \in 1..n : a[i] = b[i]
      BY <1>4, <1>5, <1>6
    <2> HIDE DEF a, b
    <2>2. a = b
      BY <2>1, SeqEqual
    <2> QED
      BY <2>2 DEF a, b
  <1> QED
    BY <1>2, <1>3, <1>7 DEF TornInPipe, q

\* Its bytes are read from the beginning on.
LEMMA SoundRest ==
  ASSUME TypeOK, TornInPipe, torn # 0, NEW n \in 0..Len(Sound), torn' = TornAfter(n),
         pipe' \in Seq(Bytes), Len(pipe') = Len(pipe) - n,
         \A i \in 1..Len(pipe') : pipe'[i] = pipe[n + i]
  PROVE  /\ torn' # 0 /\ TornInPipe' /\ (torn' = Never <=> torn = Never)
         /\ Sound' \in Seq(Bytes) /\ Len(Sound') = Len(Sound) - n
         /\ \A i \in 1..Len(Sound') : Sound'[i] = Sound[n + i]
  <1>1. /\ Sound \in Seq(Bytes) /\ Len(Sound) \in Nat /\ Len(pipe) \in Nat
        /\ Len(Sound) = IF torn = Never THEN Len(pipe) ELSE torn - 1
        /\ Len(Sound) <= Len(pipe)
        /\ \A i \in 1..Len(Sound) : Sound[i] = pipe[i]
    BY SoundFacts
  <1> DEFINE q == pipe'
             S == Len(Sound)
  <1>2. q \in Seq(Bytes) /\ Len(q) = Len(pipe) - n /\ \A i \in 1..Len(q) : q[i] = pipe[n + i]
    OBVIOUS
  <1>3. CASE torn = Never
    <2>1. torn' = Never /\ Sound' = q /\ Sound = pipe
      BY <1>3 DEF TornAfter, Sound
    <2>2. torn' # 0 /\ TornInPipe'
      BY <2>1 DEF TornInPipe, Never
    <2> QED
      BY <1>2, <1>3, <2>1, <2>2
  <1>4. CASE torn # Never
    <2>1. torn \in 1..Len(pipe) /\ S = torn - 1
      BY <1>1, <1>4 DEF TornInPipe
    <2>2. n \in Nat /\ n <= torn - 1 /\ n \in 0..S
      BY <1>1, <2>1
    <2>3. torn' = torn - n
      BY <1>4, <2>1, <2>2 DEF TornAfter
    <2> DEFINE m == S - n
    <2>4. m \in 0..Len(q) /\ torn' - 1 = m
      <3> HIDE DEF q
      <3> QED
        BY <1>1, <1>2, <2>1, <2>2, <2>3
    <2>5. torn' # 0 /\ torn' # Never /\ torn' \in 1..Len(q)
      <3> HIDE DEF q
      <3> QED
        BY <1>1, <1>2, <2>1, <2>2, <2>3 DEF Never
    <2>6. Sound' = SubSeq(q, 1, m)
      <3>1. Sound' = SubSeq(q, 1, torn' - 1)
        BY <2>5 DEF Sound
      <3> QED
        BY <2>4, <3>1
    <2>7. \A i \in 1..m : i \in 1..Len(q) /\ n + i \in 1..S
      <3> HIDE DEF q
      <3> QED
        BY <1>1, <1>2, <2>1, <2>2
    <2> HIDE DEF q, m
    <2>8. /\ SubSeq(q, 1, m) \in Seq(Bytes) /\ Len(SubSeq(q, 1, m)) = m
          /\ \A i \in 1..m : SubSeq(q, 1, m)[i] = q[i]
      BY <1>2, <2>4
    <2>9. /\ Sound' \in Seq(Bytes) /\ Len(Sound') = m
          /\ \A i \in 1..m : Sound'[i] = q[i]
      BY <2>6, <2>8
    <2>10. \A i \in 1..m : q[i] = Sound[n + i]
      BY <1>1, <1>2, <2>7 DEF S
    <2> QED
      BY <1>4, <2>5, <2>9, <2>10 DEF TornInPipe, q, m, S
  <1> QED
    BY <1>3, <1>4

-----------------------------------------------------------------------------
(* Every step keeps messages whole                                          *)

\* What the invariant says while no torn message has been read.
LEMMA PipeFacts ==
  ASSUME TypeOK, PipeInv, torn # 0, fault = "none"
  PROVE  /\ pipe \in Seq(Bytes) /\ Len(pipe) \in Nat /\ TornInPipe /\ Framed(Sound)
         /\ FramesStayWhole /\ EndsWithMessage /\ BeginsWithMessage
         /\ torn = Never => Sound = pipe
  BY DEF TypeOK, PipeInv, Sound

\* A push starts behind a whole message, or tears the one it interrupts.
LEMMA PushSizeKeepsPipe ==
  ASSUME TypeOK, PipeInv, NEW c \in Contexts, NEW e \in Events, PushSize(c, e)
  PROVE  PipeInv'
  <1> DEFINE b == <<e, 0>>
  <1>0. fault = "none" /\ pipe \in Seq(Bytes) /\ Len(pipe) \in Nat /\ b \in Bytes
    BY MaxSizeFacts DEF TypeOK, PushSize, MayPush, Bytes
  <1>1. CASE ~(Len(pipe) < Capacity)
    <2>1. fault' = "full" /\ UNCHANGED <<pipe, pushing, pc, wanted, current, torn>>
      BY <1>1 DEF PushSize
    <2>2. Sound' = Sound
      BY <2>1 DEF Sound
    <2> QED
      BY <1>0, <2>1, <2>2 DEF PipeInv, FramesStayWhole, TornInPipe
  <1>2. CASE Len(pipe) < Capacity
    <2>1. /\ pipe' = Append(pipe, b)
          /\ pushing' = Append(pushing, [context |-> c, event |-> e])
          /\ torn' = IF Tears THEN Len(pipe) ELSE torn
          /\ UNCHANGED <<pc, wanted, current, fault>>
      BY <1>2 DEF PushSize
    <2>2. /\ pipe' = pipe \o <<b>> /\ <<b>> \in Seq(Bytes) /\ pipe' \in Seq(Bytes)
          /\ Len(pipe') = Len(pipe) + 1 /\ \A i \in 1..Len(pipe) : pipe'[i] = pipe[i]
          /\ pipe'[Len(pipe')] = b /\ pipe' # <<>>
      <3> HIDE DEF b
      <3> QED
        BY <1>0, <2>1, AppendIsConcat
    <2> SUFFICES ASSUME torn' # 0
                 PROVE  TornInPipe' /\ Framed(Sound') /\ EndsWithMessage' /\ BeginsWithMessage'
      <3>1. torn' # 0 => torn # 0
        BY <2>1, <1>0 DEF Tears, Never
      <3> QED
        BY <1>0, <2>1, <3>1 DEF PipeInv, FramesStayWhole
    <2>3. torn # 0
      BY <2>1 DEF Tears, Never
    <2>4. /\ TornInPipe /\ Framed(Sound) /\ EndsWithMessage /\ BeginsWithMessage
          /\ torn = Never => Sound = pipe
      BY <1>0, <2>3, PipeFacts
    <2>5. CASE torn # Never
      <3>1. torn' = torn
        BY <2>1, <2>5 DEF Tears
      <3>2. TornInPipe' /\ Sound' = Sound
        BY <2>2, <2>3, <2>4, <2>5, <3>1, SoundKept
      <3> QED
        BY <2>1, <2>4, <2>5, <3>1, <3>2 DEF EndsWithMessage, BeginsWithMessage
    <2>6. CASE torn = Never /\ pushing = <<>>
      <3>1. torn' = Never
        BY <2>1, <2>6 DEF Tears
      <3>2. Sound' = pipe' /\ Sound = pipe
        BY <2>6, <3>1 DEF Sound
      <3>3. Framed(pipe')
        <4>1. Framed(Append(pipe, <<e, 0>>))
          BY <1>0, <2>4, <2>6, <3>2, FramedSize DEF EndsWithMessage, EndsWhole
        <4> QED
          BY <2>1, <4>1
      <3>4. EndsWithMessage'
        <4>1. pushing' # <<>> /\ Len(pushing') = 1 /\ pushing'[1].event = e
          BY <2>1, <2>6
        <4> QED
          BY <2>2, <3>1, <4>1 DEF EndsWithMessage
      <3>5. BeginsWithMessage'
        <4>1. pipe' # <<>> /\ pipe'[1] = IF pipe = <<>> THEN b ELSE pipe[1]
          <5> HIDE DEF b
          <5> QED
            BY <1>0, <2>1
        <4> QED
          BY <2>1, <2>4, <3>2, <4>1 DEF BeginsWithMessage
      <3> QED
        BY <3>1, <3>2, <3>3, <3>4, <3>5 DEF TornInPipe
    <2>7. CASE Tears
      <3> DEFINE L == Len(pipe)
      <3>1. /\ torn = Never /\ torn' = L /\ pipe # <<>> /\ Sound = pipe
            /\ pipe[L] = <<pushing[1].event, 0>>
        BY <2>1, <2>4, <2>7 DEF Tears, EndsWithMessage
      <3>2. L \in Nat \ {0} /\ torn' # Never
        BY <1>0, <3>1, EmptySeq DEF Never
      <3>3. TornInPipe'
        BY <2>2, <3>1, <3>2 DEF TornInPipe
      <3> DEFINE r == SubSeq(pipe', 1, L - 1)
                 n == L - 1
      <3>4. Sound' = r
        BY <3>1, <3>2 DEF Sound
      <3>5. n \in Nat /\ n <= L /\ n \in 0..Len(pipe') /\ r = SubSeq(pipe', 1, n)
        BY <2>2, <3>2
      <3>6. \A i \in 1..n : i \in 1..L
        BY <3>2
      <3> HIDE DEF n, r
      <3>7. r \in Seq(Bytes) /\ Len(r) = n /\ \A i \in 1..n : r[i] = pipe[i]
        <4> DEFINE q == pipe'
        <4>1. q \in Seq(Bytes) /\ n \in 0..Len(q) /\ r = SubSeq(q, 1, n)
          BY <2>2, <3>5
        <4> HIDE DEF q
        <4>2. r \in Seq(Bytes) /\ Len(r) = n /\ \A i \in 1..n : r[i] = q[i]
          BY <4>1
        <4> QED
          BY <2>2, <3>6, <4>2 DEF q
      <3>8. Framed(r)
        BY <1>0, <2>4, <3>1, <3>5, <3>7, FramedFront DEF L
      <3>9. EndsWhole(r)
        <4> SUFFICES ASSUME r # <<>> PROVE r[n][2] = Size[r[n][1]]
          BY <3>7 DEF EndsWhole
        <4>1. n \in 1..n /\ n \in 1..L /\ n + 1 = L /\ L \in 1..L
          BY <3>2, <3>5, <3>7, EmptySeq DEF n
        <4> DEFINE f == pipe[n][1]
                   k == pipe[n][2]
        <4>2. f \in Events /\ k \in Nat /\ Size[f] \in Nat /\ r[n] = pipe[n]
          BY <1>0, <3>7, <4>1, ByteFacts DEF L
        <4>3. /\ k <= Size[f]
              /\ \A j \in 0..Size[f] : n + j - k \in 1..L => pipe[n + j - k] = <<f, j>>
          BY <1>0, <2>4, <3>1, <4>1 DEF Framed, L
        <4> HIDE DEF f, k
        <4>4. ASSUME k # Size[f] PROVE FALSE
          <5>1. k + 1 \in 0..Size[f] /\ n + (k + 1) - k = L
            BY <4>1, <4>2, <4>3, <4>4
          <5>2. pipe[L] = <<f, k + 1>>
            BY <4>1, <4>3, <5>1
          <5>3. k + 1 = 0
            BY <3>1, <5>2
          <5> QED
            BY <4>2, <5>3
        <4> QED
          BY <4>2, <4>4 DEF f, k
      <3>10. EndsWithMessage'
        BY <3>2, <3>4, <3>9 DEF EndsWithMessage
      <3>11. BeginsWithMessage'
        <4>1. ASSUME r # <<>> PROVE r[1] = pipe[1]
          <5>1. 1 \in 1..n
            BY <3>5, <3>7, <4>1, EmptySeq
          <5> QED
            BY <3>7, <5>1
        <4>2. ASSUME r = <<>> PROVE pipe[1][2] = 0
          <5>1. n = 0 /\ L = 1
            BY <3>2, <3>7, <4>2, EmptySeq DEF n
          <5> QED
            BY <3>1, <5>1
        <4> QED
          BY <2>1, <2>4, <3>1, <3>4, <4>1, <4>2 DEF BeginsWithMessage
      <3> QED
        BY <3>3, <3>4, <3>8, <3>10, <3>11
    <2> QED
      BY <2>5, <2>6, <2>7 DEF Tears
  <1> QED
    BY <1>1, <1>2

\* What the second write finds and does while no push has been interrupted.
LEMMA PushBodyFacts ==
  ASSUME TypeOK, PipeInv, torn = Never, PushBody
  PROVE  \E e \in Events, w \in Seq(Bytes) :
           /\ pushing' = <<>> /\ pipe' = pipe \o w
           /\ pipe # <<>> /\ pipe[Len(pipe)] = <<e, 0>>
           /\ Len(w) <= Size[e] /\ \A i \in 1..Len(w) : w[i] = <<e, i>>
           /\ fault' = IF Len(w) = Size[e] THEN "none" ELSE "full"
           /\ UNCHANGED <<pc, wanted, current, torn>>
  <1> DEFINE e == Last(pushing).event
             room == Capacity - Len(pipe)
             w == SubSeq(Body(e), 1, Min({room, Len(Body(e))}))
  <1>1. /\ fault = "none" /\ pushing # <<>> /\ pushing' = Front(pushing) /\ pipe' = pipe \o w
        /\ fault' = IF room < Len(Body(e)) THEN "full" ELSE fault
        /\ UNCHANGED <<pc, wanted, current, torn>>
    BY DEF PushBody
  <1>2. e \in Events /\ Len(Body(e)) = Size[e] /\ Size[e] \in Nat /\ room \in Nat
    BY <1>1, PushingFacts, BodyFacts, MaxSizeFacts, ConstantsAssumption DEF TypeOK
  <1>3. /\ w \in Seq(Bytes) /\ Len(w) = IF room < Size[e] THEN room ELSE Size[e]
        /\ Len(w) <= Size[e] /\ \A i \in 1..Len(w) : w[i] = <<e, i>>
    BY <1>2, WrittenFacts
  <1>4. Len(pushing) = 1 /\ pipe # <<>> /\ pipe[Len(pipe)] = <<pushing[1].event, 0>>
    BY <1>1 DEF PipeInv, EndsWithMessage, Never
  <1>5. e = pushing[1].event
    BY <1>4 DEF Last
  <1>6. pushing' = <<>>
    <2>1. pushing' \in Seq([context : Contexts, event : Events]) /\ Len(pushing') = 0
      BY <1>1, <1>4, PushingFacts
    <2> QED
      BY <2>1, EmptySeq
  <1>7. fault' = IF Len(w) = Size[e] THEN "none" ELSE "full"
    <2> HIDE DEF e, room, w
    <2>1. Len(w) = Size[e] <=> ~(room < Size[e])
      <3> DEFINE n == Len(w)
      <3>1. n = IF room < Size[e] THEN room ELSE Size[e]
        BY <1>3
      <3> HIDE DEF n
      <3>2. n = Size[e] <=> ~(room < Size[e])
        BY <1>2, <3>1
      <3> QED
        BY <3>2 DEF n
    <2> QED
      BY <1>1, <1>2, <2>1
  <1> HIDE DEF e, room, w
  <1> QED
    BY <1>1, <1>2, <1>3, <1>4, <1>5, <1>6, <1>7

\* The second write completes the message, or the system stops.
LEMMA PushBodyKeepsPipeWhole ==
  ASSUME TypeOK, PipeInv, torn = Never, PushBody
  PROVE  PipeInv'
  <1>1. PICK e \in Events, w \in Seq(Bytes) :
           /\ pushing' = <<>> /\ pipe' = pipe \o w
           /\ pipe # <<>> /\ pipe[Len(pipe)] = <<e, 0>>
           /\ Len(w) <= Size[e] /\ \A i \in 1..Len(w) : w[i] = <<e, i>>
           /\ fault' = IF Len(w) = Size[e] THEN "none" ELSE "full"
           /\ UNCHANGED <<pc, wanted, current, torn>>
    BY PushBodyFacts
  <1>2. pipe \in Seq(Bytes) /\ Len(pipe) \in Nat /\ Framed(pipe) /\ Size[e] \in Nat \ {0}
    BY MaxSizeFacts DEF TypeOK, PipeInv, Sound, Never
  <1>0. torn # 0 /\ torn' = Never /\ Sound = pipe /\ Sound' = pipe'
    BY <1>1 DEF Sound, Never
  <1>3. Framed(pipe')
    BY <1>1, <1>2, FramedBody
  <1>4. FramesStayWhole'
    BY <1>0, <1>1 DEF PipeInv, FramesStayWhole
  <1>5. ASSUME fault' = "none" PROVE EndsWithMessage' /\ BeginsWithMessage'
    <2>1. Len(w) = Size[e] /\ fault = "none"
      BY <1>1, <1>5 DEF PushBody
    <2>2. /\ Len(pipe') = Len(pipe) + Size[e]
          /\ pipe'[Len(pipe) + Size[e]] = w[Size[e]] /\ pipe'[1] = pipe[1]
      <3> DEFINE L == Len(pipe)
                 n == L + Size[e]
      <3>1. L \in Nat \ {0} /\ Len(w) = Size[e] /\ Size[e] \in Nat \ {0}
        BY <1>1, <1>2, <2>1, EmptySeq
      <3>2. /\ Len(pipe') = L + Len(w)
            /\ \A i \in 1..L + Len(w) : pipe'[i] = IF i <= L THEN pipe[i] ELSE w[i - L]
        BY <1>1, <1>2, ConcatProperties
      <3> HIDE DEF L
      <3>3. n \in 1..L + Len(w) /\ ~(n <= L) /\ n - L = Size[e] /\ 1 \in 1..L + Len(w) /\ 1 <= L
        BY <3>1
      <3> HIDE DEF n
      <3>4. pipe'[n] = w[n - L] /\ pipe'[1] = pipe[1]
        BY <3>2, <3>3
      <3> QED
        BY <3>1, <3>2, <3>3, <3>4 DEF n, L
    <2>3. w[Size[e]] = <<e, Size[e]>>
      BY <1>1, <1>2, <2>1
    <2>4. pipe'[Len(pipe')][2] = Size[pipe'[Len(pipe')][1]] /\ pipe' # <<>>
      <3>1. pipe'[Len(pipe')] = <<e, Size[e]>>
        BY <2>2, <2>3
      <3>2. pipe' # <<>>
        BY <1>1, <1>2
      <3> QED
        BY <3>1, <3>2
    <2> QED
      BY <1>0, <1>1, <2>1, <2>2, <2>4
      DEF PipeInv, EndsWithMessage, EndsWhole, BeginsWithMessage
  <1> QED
    BY <1>0, <1>3, <1>4, <1>5 DEF PipeInv, TornInPipe

\* The second write, of whichever push: behind a torn message it changes nothing before it.
LEMMA PushBodyKeepsPipe ==
  ASSUME TypeOK, PipeInv, PushBody
  PROVE  PipeInv'
  <1> SUFFICES ASSUME torn' # 0, torn # Never PROVE PipeInv'
    BY PushBodyKeepsPipeWhole DEF PipeInv
  <1> DEFINE e == Last(pushing).event
             w == SubSeq(Body(e), 1, Min({Capacity - Len(pipe), Len(Body(e))}))
  <1>1. /\ fault = "none" /\ pushing # <<>> /\ pipe' = pipe \o w
        /\ fault' \in {"full", "none"} /\ UNCHANGED <<pc, wanted, current, torn>>
    BY DEF PushBody
  <1>2. w \in Seq(Bytes)
    BY <1>1, PushingFacts, WrittenFacts
  <1> HIDE DEF w
  <1>3. TornInPipe' /\ Sound' = Sound
    BY <1>1, <1>2, SoundKept DEF PipeInv
  <1> QED
    BY <1>1, <1>3 DEF PipeInv, FramesStayWhole, EndsWithMessage, BeginsWithMessage

\* What the first read finds and does, unless it reads the size byte of a torn message.
LEMMA PopSizeFacts ==
  ASSUME TypeOK, PipeInv, torn # 0, torn # 1, PopSize
  PROVE  \E e \in Events :
           /\ Sound = <<<<e, 0>>>> \o Sound' /\ Sound' \in Seq(Bytes) /\ Sound' # <<>>
           /\ Sound'[1] = <<e, 1>> /\ Len(Sound') = Len(Sound) - 1 /\ 1 \in 0..Len(Sound)
           /\ \A i \in 1..Len(Sound') : Sound'[i] = Sound[1 + i]
           /\ pc' = "body" /\ wanted' = Size[e] /\ UNCHANGED <<pushing, current, fault>>
           /\ torn' # 0 /\ TornInPipe'
  <1>a. /\ pipe \in Seq(Bytes) /\ Len(pipe) \in Nat \ {0} /\ pipe' = Tail(pipe) /\ Head(pipe) = pipe[1]
        /\ fault = "none" /\ pushing = <<>> /\ pipe # <<>> /\ pc = "size" /\ torn' = TornAfter(1)
    BY DEF TypeOK, PopSize, ThreadRuns
  <1>b. /\ TornInPipe /\ Framed(Sound) /\ FramesStayWhole /\ EndsWithMessage /\ BeginsWithMessage
    BY <1>a, PipeFacts
  <1>c. /\ Sound \in Seq(Bytes) /\ Len(Sound) \in Nat
        /\ Len(Sound) = IF torn = Never THEN Len(pipe) ELSE torn - 1
        /\ \A i \in 1..Len(Sound) : Sound[i] = pipe[i]
    BY <1>b, SoundFacts
  <1>d. Len(Sound) \in Nat \ {0} /\ 1 \in 0..Len(Sound) /\ 1 \in 1..Len(Sound)
    <2>1. torn # Never => torn \in Nat /\ torn > 1
      BY <1>a, <1>b DEF TornInPipe
    <2>2. Len(Sound) \in Nat \ {0}
      BY <1>a, <1>c, <2>1
    <2> QED
      BY <2>2
  <1>e. /\ pipe' \in Seq(Bytes) /\ Len(pipe') = Len(pipe) - 1
        /\ \A i \in 1..Len(pipe') : pipe'[i] = pipe[1 + i]
    BY <1>a
  <1>8. /\ torn' # 0 /\ TornInPipe'
        /\ Sound' \in Seq(Bytes) /\ Len(Sound') = Len(Sound) - 1
        /\ \A i \in 1..Len(Sound') : Sound'[i] = Sound[1 + i]
    BY <1>a, <1>b, <1>d, <1>e, SoundRest
  <1>1. /\ Sound # <<>> /\ Sound[1] = Head(pipe) /\ Sound[1] \in Bytes
    BY <1>a, <1>c, <1>d
  <1>2. /\ Sound[1][2] = 0 /\ Framed(Sound) /\ Sound[Len(Sound)][2] = Size[Sound[Len(Sound)][1]]
    BY <1>1, <1>a, <1>b DEF BeginsWithMessage, EndsWithMessage, EndsWhole
  <1> DEFINE e == Sound[1][1]
  <1>3. e \in Events /\ Sound[1] = <<e, 0>> /\ Size[e] \in Nat \ {0} /\ Size[e] <= MaxSize
    BY <1>1, <1>2, ByteFacts, MaxSizeFacts
  <1>4. PICK size \in {Size[e]} :
          IF size <= MaxSize
          THEN wanted' = size /\ pc' = "body" /\ UNCHANGED fault
          ELSE fault' = "size" /\ UNCHANGED <<wanted, pc>>
    BY <1>1, <1>2, <1>a DEF PopSize
  <1>5. wanted' = Size[e] /\ pc' = "body" /\ UNCHANGED <<pushing, current, fault>>
    BY <1>3, <1>4 DEF PopSize
  <1>6. Len(Sound) # 1
    BY <1>2, <1>3
  <1>7. Sound[2] = <<e, 1>>
    <2>1. 1 \in DOMAIN Sound /\ 2 \in DOMAIN Sound
      <3>1. DOMAIN Sound = 1..Len(Sound)
        BY <1>c
      <3> DEFINE n == Len(Sound)
      <3>2. n \in Nat \ {0} /\ n # 1
        BY <1>d, <1>6
      <3> HIDE DEF n
      <3>3. 1 \in 1..n /\ 2 \in 1..n
        BY <3>2
      <3> QED
        BY <3>1, <3>3 DEF n
    <2>2. \A j \in 0..Size[e] : 1 + j - Sound[1][2] \in DOMAIN Sound
            => Sound[1 + j - Sound[1][2]] = <<e, j>>
      BY <1>2, <2>1 DEF Framed
    <2>3. \A j \in 0..Size[e] : 1 + j - 0 \in DOMAIN Sound => Sound[1 + j - 0] = <<e, j>>
      BY <1>2, <2>2
    <2>4. 1 \in 0..Size[e] /\ 1 + 1 - 0 = 2
      BY <1>3
    <2> QED
      BY <2>1, <2>3, <2>4
  <1>9. Sound' # <<>> /\ Sound'[1] = <<e, 1>>
    <2>1. Len(Sound') \in Nat \ {0}
      BY <1>d, <1>6, <1>8
    <2>2. 1 \in 1..Len(Sound') /\ 1 + 1 = 2
      BY <2>1
    <2>3. Sound'[1] = Sound[1 + 1]
      BY <1>8, <2>2
    <2> QED
      BY <1>7, <1>8, <2>1, <2>2, <2>3, EmptySeq
  <1>10. Sound = <<<<e, 0>>>> \o Sound'
    <2> DEFINE b == <<e, 0>>
               q == <<b>> \o Sound'
    <2>1. b \in Bytes /\ Sound[1] = b
      BY <1>1, <1>3
    <2> HIDE DEF b
    <2>2. q \in Seq(Bytes) /\ Len(q) = Len(Sound)
      BY <1>c, <1>8, <2>1
    <2>3. \A i \in 1..Len(Sound) : q[i] = Sound[i]
      BY <1>c, <1>8, <2>1
    <2> HIDE DEF q
    <2>4. q = Sound
      BY <1>c, <2>2, <2>3
    <2> QED
      BY <2>4 DEF q, b
  <1> HIDE DEF e
  <1> QED
    BY <1>3, <1>5, <1>8, <1>9, <1>10, <1>d

\* What the second read finds and does: the message, as it was pushed.
LEMMA PopBodyFacts ==
  ASSUME TypeOK, PipeInv, torn # 0, PopBody
  PROVE  \E e \in Events :
           /\ Sound = Body(e) \o Sound' /\ Sound' \in Seq(Bytes)
           /\ Len(Sound') = Len(Sound) - Size[e] /\ Size[e] \in 0..Len(Sound)
           /\ \A i \in 1..Len(Sound') : Sound'[i] = Sound[Size[e] + i]
           /\ \A i \in 1..Size[e] : Sound[i] = <<e, i>>
           /\ current' = e /\ pc' = "handle" /\ UNCHANGED <<pushing, fault>>
           /\ torn' # 0 /\ TornInPipe'
  <1>a. /\ pipe \in Seq(Bytes) /\ Len(pipe) \in Nat
        /\ fault = "none" /\ pushing = <<>> /\ pc = "body"
        /\ pipe' = SubSeq(pipe, wanted + 1, Len(pipe)) /\ pc' = "handle"
        /\ torn' = TornAfter(wanted) /\ UNCHANGED <<pushing, fault>>
    BY DEF TypeOK, PopBody, ThreadRuns
  <1>b. TornInPipe /\ Framed(Sound) /\ EndsWhole(Sound) /\ BeginsWithMessage
    BY <1>a, PipeFacts DEF EndsWithMessage
  <1>c. /\ Sound \in Seq(Bytes) /\ Len(Sound) \in Nat /\ Len(Sound) <= Len(pipe)
        /\ \A i \in 1..Len(Sound) : Sound[i] = pipe[i]
    BY <1>b, SoundFacts
  <1>2. PICK e \in Events : wanted = Size[e] /\ Sound # <<>> /\ Sound[1] = <<e, 1>>
    BY <1>a, <1>b DEF BeginsWithMessage
  <1>3. /\ Size[e] \in Nat \ {0} /\ 1 \in DOMAIN Sound /\ DOMAIN Sound = 1..Len(Sound)
        /\ Len(Sound) \in DOMAIN Sound
    BY <1>c, <1>2, MaxSizeFacts
  <1>d. \A j \in 0..Size[e] : 1 + j - 1 \in DOMAIN Sound => Sound[1 + j - 1] = <<e, j>>
    <2>1. \A j \in 0..Size[Sound[1][1]] : 1 + j - Sound[1][2] \in DOMAIN Sound
            => Sound[1 + j - Sound[1][2]] = <<Sound[1][1], j>>
      BY <1>b, <1>3 DEF Framed
    <2>2. Sound[1][1] = e /\ Sound[1][2] = 1
      BY <1>2
    <2> QED
      BY <2>1, <2>2
  <1>e. Len(Sound) >= Size[e]
    <2> DEFINE n == Len(Sound)
    <2> SUFFICES ASSUME n < Size[e] PROVE FALSE
      BY <1>c, <1>3
    <2>1. n \in 0..Size[e] /\ 1 + n - 1 = n /\ n \in DOMAIN Sound
      BY <1>c, <1>3
    <2>2. Sound[n] = <<e, n>>
      BY <1>d, <2>1
    <2>3. n = Size[e]
      BY <1>b, <1>2, <2>2 DEF EndsWhole
    <2> QED
      BY <1>3, <2>3
  <1>4. \A i \in 1..Size[e] : Sound[i] = <<e, i>>
    <2>1. \A i \in 1..Size[e] : i \in 0..Size[e] /\ 1 + i - 1 = i /\ i \in DOMAIN Sound
      BY <1>c, <1>e, <1>3
    <2> QED
      BY <1>d, <2>1
  <1>f. /\ pipe' \in Seq(Bytes) /\ Len(pipe') = Len(pipe) - Size[e]
        /\ \A i \in 1..Len(pipe') : pipe'[i] = pipe[Size[e] + i]
    <2> DEFINE n == Size[e]
    <2>1. pipe' = SubSeq(pipe, n + 1, Len(pipe)) /\ n \in Nat /\ Len(pipe) >= n
      BY <1>a, <1>c, <1>e, <1>2, <1>3
    <2> DEFINE q == SubSeq(pipe, n + 1, Len(pipe))
               L == Len(pipe)
    <2> HIDE DEF n
    <2>2. n + 1 \in 1..L + 1 /\ L \in n + 1 - 1..L /\ L \in Nat
      BY <1>a, <2>1
    <2>3. /\ q \in Seq(Bytes) /\ Len(q) = IF n + 1 <= L THEN L - (n + 1) + 1 ELSE 0
          /\ \A i \in 1..L - (n + 1) + 1 : q[i] = pipe[n + 1 + i - 1]
      <3>1. \A i \in n + 1..L : pipe[i] \in Bytes
        BY <1>a, <2>1
      <3> HIDE DEF L
      <3> QED
        BY <2>2, <3>1, SubSeqProperties DEF L
    <2> HIDE DEF q, L
    <2>4. Len(q) = L - n /\ \A i \in 1..L - n : q[i] = pipe[n + i]
      <3>1. L - (n + 1) + 1 = L - n /\ n \in Nat
        BY <2>1, <2>2
      <3>2. \A i \in 1..L - n : n + 1 + i - 1 = n + i
        BY <2>1, <2>2
      <3> QED
        BY <2>1, <2>2, <2>3, <3>1, <3>2
    <2> QED
      BY <2>1, <2>3, <2>4 DEF n, q, L
  <1>g. Size[e] \in 0..Len(Sound)
    BY <1>c, <1>e, <1>3
  <1>5. /\ torn' # 0 /\ TornInPipe'
        /\ Sound' \in Seq(Bytes) /\ Len(Sound') = Len(Sound) - Size[e]
        /\ \A i \in 1..Len(Sound') : Sound'[i] = Sound[Size[e] + i]
    BY <1>a, <1>b, <1>f, <1>g, <1>2, SoundRest
  <1>6. SubSeq(pipe, 1, wanted) = Body(e)
    <2> DEFINE read == SubSeq(pipe, 1, wanted)
    <2>1. /\ read \in Seq(Bytes) /\ Len(read) = Size[e]
          /\ \A i \in 1..Size[e] : read[i] = pipe[i]
      BY <1>a, <1>c, <1>e, <1>2, <1>3
    <2>0. \A i \in 1..Size[e] : i \in 1..Len(Sound)
      BY <1>c, <1>e, <1>3
    <2> HIDE DEF read
    <2>2. read = Body(e)
      <3>1. Body(e) \in Seq(Bytes) /\ Len(read) = Len(Body(e))
        BY <2>1, BodyFacts
      <3>2. \A i \in 1..Len(read) : read[i] = Body(e)[i]
        BY <1>4, <1>c, <2>0, <2>1, BodyFacts
      <3> QED
        BY <2>1, <3>1, <3>2, SeqEqual
    <2> QED
      BY <2>2 DEF read
  <1>7. current' = e
    <2> DEFINE is == {f \in Events : SubSeq(pipe, 1, wanted) = Body(f)}
    <2>1. current' = IF is = {} THEN Garbage ELSE CHOOSE f \in is : TRUE
      BY DEF PopBody
    <2>2. e \in is
      BY <1>6
    <2>3. ASSUME NEW f \in is PROVE f = e
      <3>0. Body(f) = Body(e) /\ f \in Events
        BY <1>6
      <3>1. Body(f) = Body(e) /\ f \in Events /\ 1 \in 1..Size[e] /\ 1 \in 1..Size[f]
        BY <1>3, <3>0, MaxSizeFacts
      <3>2. <<f, 1>> = <<e, 1>>
        BY <3>1, BodyFacts
      <3> QED
        BY <3>2
    <2> HIDE DEF is
    <2> QED
      BY <2>1, <2>2, <2>3
  <1>8. Sound = Body(e) \o Sound'
    <2> DEFINE b == Body(e)
               q == b \o Sound'
    <2>1. b \in Seq(Bytes) /\ Len(b) = Size[e] /\ \A i \in 1..Size[e] : b[i] = Sound[i]
      BY <1>4, BodyFacts
    <2> HIDE DEF b
    <2>2. /\ q \in Seq(Bytes) /\ Len(q) = Len(b) + Len(Sound')
          /\ \A i \in 1..Len(b) + Len(Sound') :
               q[i] = IF i <= Len(b) THEN b[i] ELSE Sound'[i - Len(b)]
      BY <1>5, <2>1, ConcatProperties
    <2> HIDE DEF q
    <2>3. Len(q) = Len(Sound) /\ Size[e] \in Nat /\ Len(Sound) \in Nat
      BY <1>c, <1>3, <1>5, <2>1, <2>2
    <2>4. \A i \in 1..Len(Sound) : q[i] = Sound[i]
      <3> SUFFICES ASSUME NEW i \in 1..Len(Sound) PROVE q[i] = Sound[i]
        OBVIOUS
      <3>1. q[i] = IF i <= Size[e] THEN b[i] ELSE Sound'[i - Size[e]]
        BY <2>1, <2>2, <2>3
      <3>2. CASE i <= Size[e]
        BY <2>1, <2>3, <3>1, <3>2
      <3>3. CASE ~(i <= Size[e])
        <4>1. i - Size[e] \in 1..Len(Sound') /\ Size[e] + (i - Size[e]) = i
          BY <1>5, <2>3, <3>3
        <4> QED
          BY <1>5, <3>1, <3>3, <4>1
      <3> QED
        BY <3>2, <3>3
    <2>5. q = Sound
      BY <1>c, <2>2, <2>3, <2>4, SeqEqual
    <2> QED
      BY <2>5 DEF q, b
  <1> QED
    BY <1>a, <1>2, <1>4, <1>5, <1>7, <1>8, <1>g

\* The last byte of a pipe is still the last one when others have been read.
LEMMA EndsWithSameByte ==
  ASSUME NEW p \in Seq(Bytes), EndsWhole(p), NEW n \in 0..Len(p),
         NEW r \in Seq(Bytes), Len(r) = Len(p) - n, \A i \in 1..Len(r) : r[i] = p[n + i]
  PROVE  EndsWhole(r)
  <1> SUFFICES ASSUME r # <<>>
               PROVE  r[Len(r)][2] = Size[r[Len(r)][1]]
    BY DEF EndsWhole
  <1>1. Len(p) \in Nat /\ Len(r) \in Nat \ {0}
    BY EmptySeq
  <1>2. Len(r) \in 1..Len(r) /\ n + Len(r) = Len(p) /\ Len(p) # 0
    BY <1>1
  <1>3. r[Len(r)] = p[Len(p)] /\ p # <<>>
    BY <1>2, EmptySeq
  <1> QED
    BY <1>3 DEF EndsWhole

\* A size byte is read, and the rest of its message waits.
LEMMA PopSizeKeepsPipe ==
  ASSUME TypeOK, PipeInv, PopSize
  PROVE  PipeInv'
  <1> SUFFICES ASSUME torn' # 0 PROVE PipeInv'
    BY DEF PipeInv
  <1>0. torn # 0 /\ torn # 1 /\ fault = "none" /\ pushing = <<>>
    BY DEF PopSize, ThreadRuns, TornAfter, Never
  <1>1. PICK e \in Events :
           /\ Sound' \in Seq(Bytes) /\ Sound' # <<>>
           /\ Sound'[1] = <<e, 1>> /\ Len(Sound') = Len(Sound) - 1 /\ 1 \in 0..Len(Sound)
           /\ \A i \in 1..Len(Sound') : Sound'[i] = Sound[1 + i]
           /\ pc' = "body" /\ wanted' = Size[e] /\ UNCHANGED <<pushing, current, fault>>
           /\ torn' # 0 /\ TornInPipe'
    BY <1>0, PopSizeFacts
  <1>2. /\ TornInPipe /\ Framed(Sound) /\ FramesStayWhole /\ EndsWhole(Sound)
    BY <1>0, PipeFacts DEF EndsWithMessage
  <1>3. Sound \in Seq(Bytes)
    BY <1>0, <1>2, SoundFacts
  <1>4. Framed(Sound') /\ EndsWhole(Sound')
    BY <1>1, <1>2, <1>3, FramedRest, EndsWithSameByte
  <1>5. EndsWithMessage' /\ BeginsWithMessage'
    BY <1>0, <1>1, <1>4 DEF EndsWithMessage, BeginsWithMessage
  <1> QED
    BY <1>1, <1>2, <1>4, <1>5 DEF PipeInv, FramesStayWhole

\* A message is read, and behind it begins another one.
LEMMA PopBodyKeepsPipe ==
  ASSUME TypeOK, PipeInv, PopBody
  PROVE  PipeInv'
  <1> SUFFICES ASSUME torn' # 0 PROVE PipeInv'
    BY DEF PipeInv
  <1>0. torn # 0 /\ fault = "none" /\ pushing = <<>>
    <2>1. fault = "none" /\ pushing = <<>> /\ torn' = TornAfter(wanted) /\ wanted \in Nat
      BY MaxSizeFacts DEF PopBody, ThreadRuns, TypeOK
    <2> QED
      BY <2>1 DEF TornAfter, Never
  <1>1. PICK e \in Events :
           /\ Sound = Body(e) \o Sound' /\ Sound' \in Seq(Bytes)
           /\ Len(Sound') = Len(Sound) - Size[e] /\ Size[e] \in 0..Len(Sound)
           /\ \A i \in 1..Len(Sound') : Sound'[i] = Sound[Size[e] + i]
           /\ \A i \in 1..Size[e] : Sound[i] = <<e, i>>
           /\ current' = e /\ pc' = "handle" /\ UNCHANGED <<pushing, fault>>
           /\ torn' # 0 /\ TornInPipe'
    BY <1>0, PopBodyFacts
  <1>9. /\ TornInPipe /\ Framed(Sound) /\ FramesStayWhole /\ EndsWhole(Sound)
    BY <1>0, PipeFacts DEF EndsWithMessage
  <1>2. /\ Sound \in Seq(Bytes) /\ Len(Sound) \in Nat /\ Framed(Sound)
    BY <1>0, <1>9, SoundFacts
  <1>3. /\ Size[e] \in Nat \ {0} /\ Len(Sound) \in Nat /\ Size[e] \in 0..Len(Sound)
        /\ Len(Sound') \in Nat /\ Size[e] <= Len(Sound)
    BY <1>1, <1>2, MaxSizeFacts
  <1>4. Framed(Sound') /\ EndsWhole(Sound')
    BY <1>1, <1>2, <1>3, <1>9, FramedRest, EndsWithSameByte
  <1>5. ASSUME Sound' # <<>> PROVE Sound'[1][2] = 0
    <2> DEFINE n == Size[e] + 1
               b == Sound[n]
    <2>1. Len(Sound') \in Nat \ {0}
      BY <1>1, <1>5, EmptySeq
    <2>2. 1 \in 1..Len(Sound') /\ n \in 1..Len(Sound) /\ Size[e] \in 1..Len(Sound)
      BY <1>1, <1>3, <2>1
    <2>3. Sound'[1] = b /\ b \in Bytes /\ n \in DOMAIN Sound
      <3>0. \A i \in 1..Len(Sound') : Sound'[i] = Sound[Size[e] + i]
        BY <1>1
      <3>1. Sound'[1] = Sound[n] /\ DOMAIN Sound = 1..Len(Sound)
        BY <1>2, <2>2, <3>0
      <3> HIDE DEF n
      <3>2. Sound[n] \in Bytes
        BY <1>2, <2>2
      <3> QED
        BY <2>2, <3>1, <3>2
    <2>4. b[1] \in Events /\ b[2] \in Nat /\ b[2] <= Size[b[1]] /\ Size[b[1]] \in Nat
      BY <1>2, <2>3, ByteFacts DEF Framed
    <2>5. \A j \in 0..Size[b[1]] : n + j - b[2] \in DOMAIN Sound => Sound[n + j - b[2]] = <<b[1], j>>
      BY <1>2, <2>3 DEF Framed
    <2>6. ASSUME b[2] # 0 PROVE FALSE
      <3> HIDE DEF b
      <3>1. b[2] - 1 \in 0..Size[b[1]] /\ n + (b[2] - 1) - b[2] = Size[e]
        BY <1>3, <2>4, <2>6
      <3>2. Size[e] \in DOMAIN Sound
        BY <1>2, <2>2
      <3>3. Sound[Size[e]] = <<b[1], b[2] - 1>>
        BY <2>5, <3>1, <3>2
      <3>4. Sound[Size[e]] = <<e, Size[e]>>
        BY <1>1, <1>3
      <3>5. b[1] = e /\ b[2] - 1 = Size[e]
        BY <3>3, <3>4
      <3> QED
        BY <1>3, <2>4, <3>5
    <2> QED
      BY <2>3, <2>6
  <1>6. BeginsWithMessage'
    BY <1>1, <1>5 DEF BeginsWithMessage
  <1>8. EndsWithMessage'
    BY <1>0, <1>1, <1>4 DEF EndsWithMessage
  <1>7. current' # Garbage
    BY <1>1, ConstantsAssumption
  <1> QED
    BY <1>0, <1>1, <1>4, <1>6, <1>7, <1>8, <1>9 DEF PipeInv, FramesStayWhole

\* Whatever contexts push and interrupt each other: until the thread gets to a message
\* that another push was written into, the pipe up to there is a sequence of whole
\* messages, but for the push and the pop under way, and what is popped is an event as it
\* was pushed.
THEOREM MessagesStayWhole == Spec => []PipeInv
  <1>1. Init => PipeInv
    <2> SUFFICES ASSUME Init PROVE PipeInv
      OBVIOUS
    <2>1. Sound = <<>> /\ DOMAIN Sound = {} /\ torn = Never /\ fault = "none" /\ pushing = <<>>
      BY DEF Init, Sound
    <2>2. current # Garbage /\ pc = "size"
      BY ConstantsAssumption DEF Init
    <2> QED
      BY <2>1, <2>2
      DEF PipeInv, TornInPipe, Framed, FramesStayWhole, EndsWithMessage, EndsWhole, BeginsWithMessage
  <1>2. TypeOK /\ PipeInv /\ [Next]_vars => PipeInv'
    <2> SUFFICES ASSUME TypeOK, PipeInv, [Next]_vars PROVE PipeInv'
      OBVIOUS
    <2>1. ASSUME NEW c \in Contexts, NEW e \in Events, PushSize(c, e) PROVE PipeInv'
      BY <2>1, PushSizeKeepsPipe
    <2>2. CASE PushBody
      BY <2>2, PushBodyKeepsPipe
    <2>3. CASE PopSize
      BY <2>3, PopSizeKeepsPipe
    <2>4. CASE PopBody
      BY <2>4, PopBodyKeepsPipe
    <2>5. CASE Handled
      <3>1. /\ fault = "none" /\ pc = "handle" /\ pc' = "size" /\ current' = NoEvent
            /\ fault' \in IF current = Garbage THEN {"none", "event"} ELSE {"none"}
            /\ UNCHANGED <<pipe, pushing, wanted, torn>>
        BY <2>5 DEF Handled, ThreadRuns
      <3>2. Sound' = Sound
        BY <3>1 DEF Sound
      <3> QED
        BY <3>1, <3>2, ConstantsAssumption
        DEF PipeInv, TornInPipe, FramesStayWhole, EndsWithMessage, BeginsWithMessage
    <2>6. CASE UNCHANGED vars
      <3>1. Sound' = Sound
        BY <2>6 DEF vars, Sound
      <3> QED
        BY <2>6, <3>1
        DEF vars, PipeInv, TornInPipe, FramesStayWhole, EndsWithMessage, BeginsWithMessage
    <2> QED
      BY <2>1, <2>2, <2>3, <2>4, <2>5, <2>6 DEF Next
  <1> QED
    BY <1>1, <1>2, TypeCorrect, PTL DEF Spec

-----------------------------------------------------------------------------
(* The queue is a FIFO of events                                            *)

\* A size byte is the end of no message.
LEMMA SizeCompletesNothing ==
  ASSUME NEW e \in Events
  PROVE  <<<<e, 0>>>> \in Seq(Bytes) /\ Complete(<<<<e, 0>>>>)[Len(<<<<e, 0>>>>)] = <<>>
  <1> DEFINE b == <<e, 0>>
             p == <<b>>
  <1>1. b \in Bytes /\ b[1] = e /\ b[2] = 0 /\ Size[e] # 0
    BY MaxSizeFacts DEF Bytes
  <1> HIDE DEF b
  <1>2. p \in Seq(Bytes) /\ Len(p) = 1 /\ p[1] = b
    BY <1>1
  <1> HIDE DEF p
  <1>3. Complete(p)[0] = <<>> /\ \A n \in 1..Len(p) :
          Complete(p)[n] = IF p[n][2] = Size[p[n][1]]
                           THEN Append(Complete(p)[n - 1], p[n][1])
                           ELSE Complete(p)[n - 1]
    BY <1>2, CompleteTurns
  <1>4. 1 \in 1..Len(p) /\ 1 - 1 = 0
    BY <1>2
  <1>5. Complete(p)[1] = <<>>
    BY <1>1, <1>2, <1>3, <1>4
  <1> QED
    BY <1>2, <1>5 DEF p, b

\* The events in the sound part of the pipe.
LEMMA WaitingType ==
  ASSUME TypeOK, TornInPipe, torn # 0
  PROVE  Sound \in Seq(Bytes) /\ Waiting \in Seq(Events)
  <1>1. Sound \in Seq(Bytes) /\ Len(Sound) \in 0..Len(Sound)
    BY SoundFacts
  <1> QED
    BY <1>1, CompleteType DEF Waiting

\* The step that tears a message cuts off its size byte, with which no event ends.
LEMMA TearLosesNoEvent ==
  ASSUME TypeOK, PipeInv, torn # 0, NEW c \in Contexts, NEW e \in Events, PushSize(c, e)
  PROVE  Waiting' = Waiting
  <1>0. /\ fault = "none" /\ pipe \in Seq(Bytes) /\ Len(pipe) \in Nat
        /\ torn = Never => Sound = pipe
        /\ TornInPipe /\ EndsWithMessage
    BY PipeFacts DEF PushSize, MayPush
  <1>1. Waiting \in Seq(Events)
    BY <1>0, WaitingType
  <1>2. CASE ~(Len(pipe) < Capacity)
    BY <1>2 DEF PushSize, Waiting, Sound
  <1>3. CASE Len(pipe) < Capacity
    <2> DEFINE b == <<e, 0>>
    <2>1. /\ b \in Bytes /\ pipe' = Append(pipe, b) /\ torn' = IF Tears THEN Len(pipe) ELSE torn
      BY <1>3, MaxSizeFacts DEF PushSize, Bytes
    <2>2. <<b>> \in Seq(Bytes) /\ pipe' = pipe \o <<b>>
      <3> HIDE DEF b
      <3> QED
        BY <1>0, <2>1, AppendIsConcat
    <2>3. CASE torn # Never
      <3>1. Sound' = Sound
        BY <1>0, <2>1, <2>2, <2>3, SoundKept DEF Tears
      <3> QED
        BY <3>1 DEF Waiting
    <2>4. CASE torn = Never /\ ~Tears
      <3>1. Sound' = pipe' /\ Sound = pipe
        BY <2>1, <2>4 DEF Sound
      <3>2. Waiting' = Waiting \o <<>>
        BY <1>0, <2>2, <3>1, SizeCompletesNothing, CompleteConcat DEF Waiting
      <3> QED
        BY <1>1, <3>2, ConcatEmptySeq
    <2>5. CASE Tears
      <3> DEFINE L == Len(pipe)
                 n == L - 1
                 r == SubSeq(pipe, 1, n)
                 f == pushing[1].event
                 z == <<f, 0>>
      <3>1. torn = Never /\ torn' = L /\ pipe # <<>> /\ pipe[L] = z /\ Sound = pipe /\ pushing # <<>>
        BY <1>0, <2>1, <2>5 DEF Tears, EndsWithMessage
      <3>2. L \in Nat \ {0} /\ torn' # Never
        BY <1>0, <3>1, EmptySeq DEF Never
      <3>3. f \in Events
        <4>1. pipe[L] \in Bytes
          BY <1>0, <3>1, <3>2
        <4>2. pipe[L][1] \in Events
          BY <4>1, ByteFacts
        <4> QED
          BY <3>1, <4>2
      <3>4. n \in 0..L /\ n + 1 = L
        BY <3>2
      <3>5. Sound' = r
        <4>1. Sound' = SubSeq(Append(pipe, b), 1, n)
          BY <2>1, <3>1, <3>2 DEF Sound
        <4> DEFINE q == Append(pipe, b)
        <4>2. q \in Seq(Bytes) /\ Len(q) = L + 1 /\ \A i \in 1..L : q[i] = pipe[i]
          <5> HIDE DEF b
          <5> QED
            BY <1>0, <2>1
        <4> HIDE DEF q, n, L, b
        <4>3. n \in 0..Len(q) /\ L \in Nat /\ n \in 0..L
          BY <3>2, <3>4, <4>2
        <4>4. /\ SubSeq(q, 1, n) \in Seq(Bytes) /\ Len(SubSeq(q, 1, n)) = n
              /\ \A i \in 1..n : SubSeq(q, 1, n)[i] = q[i]
          BY <4>2, <4>3
        <4>5. r \in Seq(Bytes) /\ Len(r) = n /\ \A i \in 1..n : r[i] = pipe[i]
          BY <1>0, <4>3 DEF L
        <4>6. \A i \in 1..n : q[i] = pipe[i]
          BY <4>2, <4>3
        <4>7. SubSeq(q, 1, n) = r
          <5> DEFINE x == SubSeq(q, 1, n)
          <5>1. x \in Seq(Bytes) /\ Len(x) = n /\ \A i \in 1..n : x[i] = r[i]
            BY <4>4, <4>5, <4>6
          <5> HIDE DEF x, r
          <5>2. x = r
            BY <4>5, <5>1, SeqEqual
          <5> QED
            BY <5>2 DEF x
        <4> QED
          BY <4>1, <4>7 DEF q
      <3> HIDE DEF L, n, f
      <3>6. r \in Seq(Bytes) /\ Len(r) = n /\ \A i \in 1..n : r[i] = pipe[i]
        BY <1>0, <3>4 DEF L
      <3>7. <<z>> \in Seq(Bytes) /\ pipe = r \o <<z>>
        <4>1. z \in Bytes
          BY <3>3, MaxSizeFacts DEF Bytes
        <4> HIDE DEF z, r
        <4>2. /\ <<z>> \in Seq(Bytes) /\ r \o <<z>> \in Seq(Bytes) /\ Len(r \o <<z>>) = n + 1
              /\ \A i \in 1..n : (r \o <<z>>)[i] = r[i]
              /\ (r \o <<z>>)[n + 1] = z
          BY <3>4, <3>6, <4>1
        <4> DEFINE x == r \o <<z>>
        <4>3. x \in Seq(Bytes) /\ Len(x) = L /\ \A i \in 1..n : x[i] = pipe[i]
          BY <3>4, <3>6, <4>2
        <4>4. x[L] = pipe[L]
          BY <3>1, <3>4, <4>2
        <4> HIDE DEF x
        <4>5. \A i \in 1..L : i \in 1..n \/ i = L
          BY <3>2, <3>4
        <4>6. x = pipe
          BY <1>0, <4>3, <4>4, <4>5, SeqEqual DEF L
        <4> QED
          BY <4>2, <4>6 DEF x
      <3>8. Waiting = Waiting' \o <<>>
        <4> HIDE DEF r
        <4>1. Complete(<<z>>)[Len(<<z>>)] = <<>>
          BY <3>3, SizeCompletesNothing
        <4> HIDE DEF z
        <4>2. Complete(r \o <<z>>)[Len(r \o <<z>>)] = Complete(r)[Len(r)] \o Complete(<<z>>)[Len(<<z>>)]
          BY <3>6, <3>7, CompleteConcat
        <4> QED
          BY <3>1, <3>5, <3>7, <4>1, <4>2 DEF Waiting
      <3>9. Waiting' \in Seq(Events)
        <4>1. Len(r) \in 0..Len(r)
          BY <3>4, <3>6
        <4> HIDE DEF r
        <4> QED
          BY <3>5, <3>6, <4>1, CompleteType DEF Waiting
      <3> QED
        BY <3>8, <3>9, ConcatEmptySeq
    <2> QED
      BY <2>3, <2>4, <2>5
  <1> QED
    BY <1>2, <1>3

\* Whatever contexts push and interrupt each other: until the thread gets to a message
\* that another push was written into, events are taken in the order in which their
\* pushes began and exactly as they were pushed, each once; a push that failed for want
\* of space leaves no event behind, whatever it wrote.
THEOREM IsFifo == Spec => FifoUpToTear
  <1>1. Init => Fifo!Init
    <2> SUFFICES ASSUME Init PROVE Fifo!Init
      OBVIOUS
    <2>1. Sound = <<>> /\ current = NoEvent
      BY DEF Init, Sound
    <2>2. <<>> \in Seq(Bytes) /\ Len(<<>>) = 0
      BY EmptySeq
    <2>3. Complete(<<>>)[0] = <<>>
      BY <2>2, CompleteTurns
    <2> QED
      BY <2>1, <2>2, <2>3 DEF Fifo!Init, Waiting
  <1>2. TypeOK /\ PipeInv /\ [Next]_vars => (torn # 0 => [Fifo!Next]_(Fifo!vars))
    <2> SUFFICES ASSUME TypeOK, PipeInv, [Next]_vars, torn # 0 PROVE [Fifo!Next]_(Fifo!vars)
      OBVIOUS
    <2>a. TornInPipe
      BY DEF PipeInv
    <2>0. Sound \in Seq(Bytes) /\ Waiting \in Seq(Events)
      BY <2>a, WaitingType
    <2>1. ASSUME NEW c \in Contexts, NEW e \in Events, PushSize(c, e) PROVE UNCHANGED Fifo!vars
      BY <2>1, TearLosesNoEvent DEF PushSize, Fifo!vars
    <2>b. ASSUME PushBody, torn # Never PROVE UNCHANGED Fifo!vars
      <3> DEFINE e == Last(pushing).event
                 w == SubSeq(Body(e), 1, Min({Capacity - Len(pipe), Len(Body(e))}))
      <3>1. pushing # <<>> /\ pipe' = pipe \o w /\ torn' = torn /\ current' = current
        BY <2>b DEF PushBody
      <3>2. w \in Seq(Bytes)
        BY <3>1, PushingFacts, WrittenFacts
      <3> HIDE DEF w
      <3>3. Sound' = Sound
        BY <2>a, <2>b, <3>1, <3>2, SoundKept
      <3> QED
        BY <3>1, <3>3 DEF Fifo!vars, Waiting
    <2>2. ASSUME PushBody, torn = Never PROVE [Fifo!Next]_(Fifo!vars)
      <3>1. PICK e \in Events, w \in Seq(Bytes) :
              /\ pushing' = <<>> /\ pipe' = pipe \o w
              /\ pipe # <<>> /\ pipe[Len(pipe)] = <<e, 0>>
              /\ Len(w) <= Size[e] /\ \A i \in 1..Len(w) : w[i] = <<e, i>>
              /\ fault' = IF Len(w) = Size[e] THEN "none" ELSE "full"
              /\ UNCHANGED <<pc, wanted, current, torn>>
        BY <2>2, PushBodyFacts
      <3>2. Complete(w)[Len(w)] = IF Len(w) = Size[e] THEN <<e>> ELSE <<>>
        <4>1. DOMAIN w = 1..Len(w)
          OBVIOUS
        <4> QED
          BY <3>1, <4>1, CompleteBody
      <3>0. Sound = pipe /\ Sound' = pipe'
        BY <2>2, <3>1 DEF Sound
      <3>3. Waiting' = Waiting \o (IF Len(w) = Size[e] THEN <<e>> ELSE <<>>)
        BY <2>0, <3>0, <3>1, <3>2, CompleteConcat DEF Waiting
      <3>4. CASE Len(w) = Size[e]
        <4>1. Waiting' = Append(Waiting, e)
          BY <2>0, <3>3, <3>4, AppendIsConcat
        <4> QED
          BY <3>1, <4>1 DEF Fifo!Next, Fifo!Submit
      <3>5. CASE Len(w) # Size[e]
        <4>1. Waiting' = Waiting
          BY <2>0, <3>3, <3>5, ConcatEmptySeq
        <4> QED
          BY <3>1, <4>1 DEF Fifo!vars
      <3> QED
        BY <3>4, <3>5
    <2>c. ASSUME PopSize, torn = 1 PROVE UNCHANGED Fifo!vars
      <3>1. torn' = 0 /\ current' = current
        BY <2>c DEF PopSize, TornAfter, Never
      <3>2. pipe \in Seq(Bytes) /\ pipe' \in Seq(Bytes)
        <4>1. pipe \in Seq(Bytes) /\ pipe # <<>> /\ pipe' = Tail(pipe)
          BY <2>c DEF TypeOK, PopSize
        <4> QED
          BY <4>1
      <3>3. Sound = SubSeq(pipe, 1, 0) /\ Sound' = SubSeq(pipe', 1, -1)
        BY <2>c, <3>1 DEF Sound, Never
      <3>4. Sound = <<>> /\ Sound' = <<>>
        BY <3>2, <3>3, SubSeqEmpty
      <3> QED
        BY <3>1, <3>4 DEF Fifo!vars, Waiting
    <2>3. ASSUME PopSize, torn # 1 PROVE UNCHANGED Fifo!vars
      <3>1. PICK e \in Events : /\ Sound = <<<<e, 0>>>> \o Sound' /\ Sound' \in Seq(Bytes)
                                /\ current' = current
        BY <2>3, PopSizeFacts
      <3>2. Waiting = <<>> \o Waiting'
        BY <3>1, SizeCompletesNothing, CompleteConcat DEF Waiting
      <3>3. Waiting' \in Seq(Events)
        <4>1. Len(Sound') \in 0..Len(Sound')
          BY <3>1
        <4> QED
          BY <3>1, <4>1, CompleteType DEF Waiting
      <3>4. Waiting' = Waiting
        BY <3>2, <3>3, ConcatEmptySeq
      <3> QED
        BY <3>1, <3>4 DEF Fifo!vars
    <2>4. ASSUME PopBody PROVE Fifo!Next
      <3>1. PICK e \in Events : /\ Sound = Body(e) \o Sound' /\ Sound' \in Seq(Bytes)
                                /\ current' = e
        BY <2>4, PopBodyFacts
      <3>2. Complete(Body(e))[Len(Body(e))] = <<e>>
        <4>1. /\ Body(e) \in Seq(Bytes) /\ Len(Body(e)) = Size[e] /\ DOMAIN Body(e) = 1..Size[e]
              /\ Size[e] \in Nat
          BY BodyFacts, MaxSizeFacts
        <4>2. \A i \in 1..Size[e] : Body(e)[i] = <<e, i>>
          BY BodyFacts
        <4> DEFINE p == Body(e)
        <4>3. p \in Seq(Bytes) /\ Len(p) <= Size[e] /\ Len(p) = Size[e] /\ \A i \in DOMAIN p : p[i] = <<e, i>>
          BY <4>1, <4>2
        <4> HIDE DEF p
        <4>4. Complete(p)[Len(p)] = <<e>>
          BY <4>3, CompleteBody
        <4> QED
          BY <4>4 DEF p
      <3>3. Waiting = <<e>> \o Waiting'
        <4> DEFINE p == Body(e)
        <4>1. p \in Seq(Bytes) /\ Sound = p \o Sound' /\ Complete(p)[Len(p)] = <<e>>
          BY <3>1, <3>2, BodyFacts
        <4> HIDE DEF p
        <4>2. Complete(p \o Sound')[Len(p \o Sound')] = <<e>> \o Complete(Sound')[Len(Sound')]
          BY <3>1, <4>1, CompleteConcat
        <4> QED
          BY <4>1, <4>2 DEF Waiting
      <3>4. Waiting' \in Seq(Events)
        <4>1. Len(Sound') \in 0..Len(Sound')
          BY <3>1
        <4> QED
          BY <3>1, <4>1, CompleteType DEF Waiting
      <3>5. Waiting # <<>> /\ Head(Waiting) = e /\ Tail(Waiting) = Waiting'
        <4> DEFINE r == Waiting'
        <4>1. Waiting = <<e>> \o r /\ r \in Seq(Events)
          BY <3>3, <3>4
        <4> HIDE DEF r
        <4>2. <<e>> \o r # <<>> /\ Head(<<e>> \o r) = e /\ Tail(<<e>> \o r) = r
          BY <4>1
        <4> QED
          BY <4>1, <4>2 DEF r
      <3> QED
        BY <3>1, <3>5 DEF Fifo!Next, Fifo!Take
    <2>5. ASSUME Handled PROVE Fifo!Next
      BY <2>5 DEF Handled, Fifo!Next, Fifo!Wait, Waiting, Sound
    <2>6. ASSUME UNCHANGED vars PROVE UNCHANGED Fifo!vars
      BY <2>6 DEF vars, Fifo!vars, Waiting, Sound
    <2> QED
      BY <2>1, <2>b, <2>2, <2>c, <2>3, <2>4, <2>5, <2>6 DEF Next
  <1> QED
    BY <1>1, <1>2, TypeCorrect, MessagesStayWhole, PTL DEF Spec, FifoUpToTear
=============================================================================
