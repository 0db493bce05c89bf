------------------------- MODULE AlertMessageProofs -------------------------
(***************************************************************************)
(* Proofs about AlertMessage, for every set of bytes to be tried, every    *)
(* set of message lengths and every number of requirements there is room   *)
(* for.                                                                    *)
(***************************************************************************)
EXTENDS AlertMessage, FiniteSetTheorems, WellFoundedInduction, TLAPS

-----------------------------------------------------------------------------
(* Sequences                                                                *)

LEMMA Concat ==
  ASSUME NEW S, NEW s \in Seq(S), NEW t \in Seq(S)
  PROVE  /\ s \o t \in Seq(S) /\ Len(s \o t) = Len(s) + Len(t)
         /\ Len(s) \in Nat /\ Len(t) \in Nat
         /\ \A i \in 1..Len(s) : (s \o t)[i] = s[i]
         /\ \A i \in 1..Len(t) : (s \o t)[Len(s) + i] = t[i]
  OBVIOUS

LEMMA ConcatAssoc ==
  ASSUME NEW S, NEW s \in Seq(S), NEW t \in Seq(S), NEW u \in Seq(S)
  PROVE  (s \o t) \o u = s \o (t \o u)
  OBVIOUS

LEMMA ConcatEmpty ==
  ASSUME NEW S, NEW s \in Seq(S)
  PROVE  s \o <<>> = s /\ <<>> \o s = s /\ <<>> \in Seq(S)
  OBVIOUS

\* A set of numbers has a least one: what an induction over a length rests on. (The
\* sets 0..m are finite, and strict inclusion of finite sets is well-founded.)
LEMMA LeastNatural ==
  ASSUME NEW T \in SUBSET Nat, T # {}
  PROVE  \E m \in T : \A k \in T : m <= k
  <1> DEFINE F == {0..m : m \in T}
             R == StrictSubsetOrdering(Nat)
  <1>1. IsWellFoundedOn(R, FiniteSubsetsOf(Nat))
    BY FS_StrictSubsetOrderingWellFounded
  <1>2. \A m \in T : 0..m \in FiniteSubsetsOf(Nat)
    <2> TAKE m \in T
    <2>1. m \in Int /\ 0 \in Int /\ 0..m \in SUBSET Nat
      OBVIOUS
    <2>2. IsFiniteSet(0..m)
      BY <2>1, FS_Interval
    <2> QED
      BY <2>1, <2>2 DEF FiniteSubsetsOf
  <1>3. F \subseteq FiniteSubsetsOf(Nat) /\ F # {}
    BY <1>2
  <1>4. PICK x \in F : \A y \in F : <<y, x>> \notin R
    <2> HIDE DEF F, R
    <2> QED
      BY <1>1, <1>3, WFMin, Zenon
  <1>5. PICK m \in T : x = 0..m
    OBVIOUS
  <1>6. ASSUME NEW k \in T, ~(m <= k)
        PROVE  FALSE
    <2>1. 0..k \in F /\ 0..m \in F /\ 0..k \in SUBSET Nat /\ 0..m \in SUBSET Nat
      OBVIOUS
    <2>2. 0..k \subseteq 0..m /\ 0..k # 0..m
      BY <1>6
    <2>3. <<0..k, 0..m>> \in R
      BY <2>1, <2>2 DEF StrictSubsetOrdering
    <2> QED
      BY <2>1, <2>3, <1>4, <1>5
  <1> QED
    BY <1>6

\* The recursive function in FlattenSeq, up to n: f[i] is the concatenation of the
\* first i sequences of ss.
IsFlatten(f, ss, n) ==
  f = [i \in 1..n |-> IF i = 1 THEN ss[i] ELSE f[i - 1] \o ss[i]]

LEMMA FlattenExists ==
  ASSUME NEW S, NEW ss \in Seq(Seq(S)), NEW n \in 0..Len(ss)
  PROVE  \E f \in [1..n -> Seq(S)] : IsFlatten(f, ss, n)
  <1> DEFINE P(k) == \E f \in [1..k -> Seq(S)] : IsFlatten(f, ss, k)
             T == {k \in 0..Len(ss) : ~P(k)}
  <1>1. T \in SUBSET Nat
    OBVIOUS
  <1>2. SUFFICES ASSUME T # {} PROVE FALSE
    OBVIOUS
  <1>3. PICK m \in T : \A k \in T : m <= k
    <2> HIDE DEF T
    <2> QED
      BY <1>1, <1>2, LeastNatural, Zenon
  <1>4. m \in 0..Len(ss) /\ ~P(m) /\ Len(ss) \in Nat
    OBVIOUS
  <1>5. CASE m = 0
    <2>1. <<>> \in [1..0 -> Seq(S)]
      OBVIOUS
    <2>2. <<>> = [i \in 1..0 |-> IF i = 1 THEN ss[i] ELSE <<>>[i - 1] \o ss[i]]
      OBVIOUS
    <2>3. P(0)
      BY <2>1, <2>2 DEF IsFlatten
    <2> QED
      BY <1>4, <1>5, <2>3
  <1>6. CASE m # 0
    <2>1. m - 1 \in 0..Len(ss) /\ m - 1 \notin T
      <3>1. m - 1 \in 0..Len(ss) /\ ~(m <= m - 1)
        BY <1>4, <1>6
      <3> HIDE DEF T
      <3> QED
        BY <1>3, <3>1
    <2>2. PICK f \in [1..m - 1 -> Seq(S)] : IsFlatten(f, ss, m - 1)
      BY <2>1
    <2> DEFINE g == [i \in 1..m |-> IF i < m THEN f[i]
                                    ELSE IF i = 1 THEN ss[i] ELSE f[i - 1] \o ss[i]]
    <2>3. ss[m] \in Seq(S) /\ (m # 1 => f[m - 1] \in Seq(S))
      BY <1>4, <1>6
    <2>4. m # 1 => f[m - 1] \o ss[m] \in Seq(S)
      BY <2>3
    <2>5. g \in [1..m -> Seq(S)]
      BY <1>4, <1>6, <2>3, <2>4
    <2>6. ASSUME NEW i \in 1..m
          PROVE  g[i] = IF i = 1 THEN ss[i] ELSE g[i - 1] \o ss[i]
      <3>1. CASE i < m
        <4>3. \A j \in 1..m - 1 : f[j] = IF j = 1 THEN ss[j] ELSE f[j - 1] \o ss[j]
          BY <2>2 DEF IsFlatten
        <4>4. i \in 1..m - 1
          BY <1>4, <3>1
        <4>1. f[i] = IF i = 1 THEN ss[i] ELSE f[i - 1] \o ss[i]
          BY <4>3, <4>4
        <4>2. i # 1 => g[i - 1] = f[i - 1]
          BY <1>4, <3>1
        <4> QED
          BY <3>1, <4>1, <4>2
      <3>2. CASE i = m
        <4>1. i # 1 => g[i - 1] = f[i - 1]
          BY <1>4, <3>2
        <4> QED
          BY <3>2, <4>1
      <3> QED
        BY <1>4, <3>1, <3>2
    <2> HIDE DEF g
    <2>7. g = [i \in 1..m |-> IF i = 1 THEN ss[i] ELSE g[i - 1] \o ss[i]]
      BY <2>5, <2>6
    <2>8. P(m)
      BY <2>5, <2>7 DEF IsFlatten
    <2> QED
      BY <1>4, <2>8
  <1> QED
    BY <1>5, <1>6

LEMMA FlattenUnique ==
  ASSUME NEW S, NEW ss \in Seq(Seq(S)), NEW n \in 0..Len(ss), NEW f, NEW g,
         IsFlatten(f, ss, n), IsFlatten(g, ss, n)
  PROVE  f = g
  <1> DEFINE T == {k \in 1..n : f[k] # g[k]}
  <1>1. T \in SUBSET Nat
    OBVIOUS
  <1>2. /\ \A i \in 1..n : f[i] = IF i = 1 THEN ss[i] ELSE f[i - 1] \o ss[i]
        /\ \A i \in 1..n : g[i] = IF i = 1 THEN ss[i] ELSE g[i - 1] \o ss[i]
    BY DEF IsFlatten
  <1>3. ASSUME T # {}
        PROVE  FALSE
    <2>1. PICK m \in T : \A k \in T : m <= k
      <3> HIDE DEF T
      <3> QED
        BY <1>1, <1>3, LeastNatural, Zenon
    <2>2. m \in 1..n /\ f[m] # g[m]
      OBVIOUS
    <2>3. m # 1
      BY <1>2, <2>2
    <2>4. m - 1 \in 1..n /\ m - 1 \notin T
      BY <2>1, <2>2, <2>3
    <2>5. f[m - 1] = g[m - 1]
      BY <2>4
    <2> QED
      BY <1>2, <2>2, <2>3, <2>5
  <1>4. \A k \in 1..n : f[k] = g[k]
    BY <1>3
  <1>5. f = [i \in 1..n |-> f[i]] /\ g = [i \in 1..n |-> g[i]]
    BY DEF IsFlatten
  <1> QED
    BY <1>4, <1>5

\* FlattenSeq takes the last value of that function.
LEMMA FlattenIs ==
  ASSUME NEW S, NEW ss \in Seq(Seq(S)), Len(ss) # 0, NEW f, IsFlatten(f, ss, Len(ss))
  PROVE  FlattenSeq(ss) = f[Len(ss)]
  <1> DEFINE c == CHOOSE h : h = [i \in 1..Len(ss) |-> IF i = 1 THEN ss[i] ELSE h[i - 1] \o ss[i]]
  <1>1. FlattenSeq(ss) = c[Len(ss)]
    BY DEF FlattenSeq
  <1>2. IsFlatten(c, ss, Len(ss))
    BY DEF IsFlatten
  <1>3. c = f
    <2> HIDE DEF c
    <2>1. Len(ss) \in 0..Len(ss)
      OBVIOUS
    <2> QED
      BY <1>2, <2>1, FlattenUnique
  <1> QED
    BY <1>1, <1>3

LEMMA FlattenEmpty == FlattenSeq(<<>>) = <<>>
  BY DEF FlattenSeq

LEMMA FlattenType ==
  ASSUME NEW S, NEW ss \in Seq(Seq(S))
  PROVE  FlattenSeq(ss) \in Seq(S)
  <1>1. CASE Len(ss) = 0
    <2>1. ss = <<>>
      BY <1>1
    <2>2. FlattenSeq(ss) = <<>> /\ <<>> \in Seq(S)
      BY <2>1, FlattenEmpty
    <2> QED
      BY <2>2
  <1>2. CASE Len(ss) # 0
    <2>1. Len(ss) \in 0..Len(ss) /\ Len(ss) \in 1..Len(ss)
      BY <1>2
    <2>2. PICK f \in [1..Len(ss) -> Seq(S)] : IsFlatten(f, ss, Len(ss))
      BY <2>1, FlattenExists
    <2>3. FlattenSeq(ss) = f[Len(ss)]
      BY <1>2, <2>2, FlattenIs
    <2> QED
      BY <2>1, <2>2, <2>3
  <1> QED
    BY <1>1, <1>2

\* What a sequence appended to ss adds.
LEMMA FlattenAppend ==
  ASSUME NEW S, NEW ss \in Seq(Seq(S)), NEW x \in Seq(S)
  PROVE  FlattenSeq(Append(ss, x)) = FlattenSeq(ss) \o x
  <1> DEFINE tt == Append(ss, x)
             n == Len(ss)
  <1>1. /\ tt \in Seq(Seq(S)) /\ Len(tt) = n + 1 /\ n \in Nat /\ tt[n + 1] = x
        /\ \A i \in 1..n : tt[i] = ss[i]
    OBVIOUS
  <1> HIDE DEF tt
  <1>2. PICK g \in [1..n + 1 -> Seq(S)] : IsFlatten(g, tt, n + 1)
    <2>1. n + 1 \in 0..Len(tt)
      BY <1>1
    <2> QED
      BY <1>1, <2>1, FlattenExists
  <1>3. FlattenSeq(tt) = g[n + 1]
    <2>1. Len(tt) # 0 /\ IsFlatten(g, tt, Len(tt))
      BY <1>1, <1>2
    <2>2. FlattenSeq(tt) = g[Len(tt)]
      BY <1>1, <2>1, FlattenIs
    <2> QED
      BY <1>1, <2>2
  <1>4. \A i \in 1..n + 1 : g[i] = IF i = 1 THEN tt[i] ELSE g[i - 1] \o tt[i]
    BY <1>2 DEF IsFlatten
  <1>5. CASE n = 0
    <2>1. ss = <<>> /\ g[1] = x
      BY <1>1, <1>4, <1>5
    <2>2. FlattenSeq(ss) = <<>>
      BY <2>1, FlattenEmpty
    <2> QED
      BY <1>3, <1>5, <2>1, <2>2 DEF tt
  <1>6. CASE n # 0
    <2> DEFINE f == [i \in 1..n |-> g[i]]
    <2>1. \A i \in 1..n : f[i] = IF i = 1 THEN ss[i] ELSE f[i - 1] \o ss[i]
      <3> TAKE i \in 1..n
      <3>1. i \in 1..n + 1 /\ tt[i] = ss[i] /\ f[i] = g[i]
        BY <1>1
      <3>2. i # 1 => f[i - 1] = g[i - 1]
        BY <1>1
      <3> QED
        BY <1>4, <3>1, <3>2
    <2>2. f = [i \in 1..n |-> f[i]]
      OBVIOUS
    <2>3. f[n] = g[n]
      BY <1>1, <1>6
    <2> HIDE DEF f
    <2>4. IsFlatten(f, ss, n)
      BY <2>1, <2>2 DEF IsFlatten
    <2>5. FlattenSeq(ss) = g[n]
      BY <1>6, <2>3, <2>4, FlattenIs
    <2>6. g[n + 1] = g[n] \o x
      <3>1. n + 1 \in 1..n + 1 /\ n + 1 # 1 /\ (n + 1) - 1 = n
        BY <1>1, <1>6
      <3> QED
        BY <1>1, <1>4, <3>1
    <2> QED
      BY <1>3, <2>5, <2>6 DEF tt
  <1> QED
    BY <1>5, <1>6

-----------------------------------------------------------------------------
(* Fields                                                                   *)

\* The inputs are byte strings of the length of their field.
LEMMA InputFacts ==
  /\ \A f \in {"warmup_period", "cooldown_period", "four_byte_value"} :
       \A bs \in Inputs[f] : bs \in Seq(Byte) /\ Len(bs) = 4
  /\ \A bs \in Inputs["two_byte_value"] : bs \in Seq(Byte) /\ Len(bs) = 2
  /\ \A f \in Fields \ {"warmup_period", "cooldown_period", "four_byte_value", "two_byte_value"} :
       \A bs \in Inputs[f] : bs \in Seq(Byte) /\ Len(bs) = 1 /\ bs[1] \in Byte
  <1>1. \A f \in Fields : Inputs[f] \subseteq [1..FieldSize(f) -> Byte]
    BY ConstantsAssumption
  <1>2. ASSUME NEW n \in {1, 2, 4}, NEW bs \in [1..n -> Byte]
        PROVE  bs \in Seq(Byte) /\ Len(bs) = n /\ bs[1] \in Byte
    OBVIOUS
  <1>3. \A f \in {"warmup_period", "cooldown_period", "four_byte_value"} :
          f \in Fields /\ FieldSize(f) = 4
    BY DEF Fields, FieldSize
  <1>4. "two_byte_value" \in Fields /\ FieldSize("two_byte_value") = 2
    BY DEF Fields, FieldSize
  <1>5. \A f \in Fields \ {"warmup_period", "cooldown_period", "four_byte_value", "two_byte_value"} :
          FieldSize(f) = 1
    BY DEF FieldSize
  <1> QED
    BY <1>1, <1>2, <1>3, <1>4, <1>5

\* Bytes are small natural numbers.
LEMMA ByteFacts ==
  /\ \A b \in Byte : b \in Nat /\ b <= 255
  /\ \A bs \in Seq(Byte) : Len(bs) \in Nat /\ \A i \in 1..Len(bs) : bs[i] \in Byte
  <1>1. \A b \in Byte : b \in Nat /\ b <= 255
    BY SMT DEF Byte
  <1>2. \A bs \in Seq(Byte) : Len(bs) \in Nat /\ \A i \in 1..Len(bs) : bs[i] \in Byte
    OBVIOUS
  <1> QED
    BY <1>1, <1>2

\* The number that two bytes stand for.
LEMMA TwoBytesType ==
  ASSUME NEW x \in Byte, NEW y \in Byte
  PROVE  x + 256 * y \in Nat /\ x + 256 * y <= 65535
  <1>1. x \in Nat /\ x <= 255 /\ y \in Nat /\ y <= 255
    BY ByteFacts
  <1> HIDE DEF Byte
  <1> QED
    BY <1>1, SMT

LEMMA SignedType ==
  ASSUME NEW n \in Nat, n <= 65535
  PROVE  Signed16(n) \in -(2^15)..2^15 - 1
  BY SMT DEF Signed16

\* The values of fields.
LEMMA LittleEndianType ==
  ASSUME NEW bs \in Seq(Byte), Len(bs) \in {1, 2, 4}
  PROVE  /\ LittleEndian(bs) \in Nat
         /\ Len(bs) = 1 => LittleEndian(bs) = bs[1] /\ bs[1] \in Byte
         /\ Len(bs) = 2 => /\ LittleEndian(bs) = bs[1] + 256 * bs[2]
                           /\ Signed16(LittleEndian(bs)) \in -(2^15)..2^15 - 1
  <1>1. CASE Len(bs) = 4
    <2>1. bs[1] \in Byte /\ bs[2] \in Byte /\ bs[3] \in Byte /\ bs[4] \in Byte
      BY <1>1, ByteFacts
    <2>2. LittleEndian(bs) = bs[1] + 256 * (bs[2] + 256 * (bs[3] + 256 * bs[4]))
      BY <1>1, SMT DEF LittleEndian
    <2>3. LittleEndian(bs) \in Nat
      <3>1. bs[1] \in Nat /\ bs[2] \in Nat /\ bs[3] \in Nat /\ bs[4] \in Nat
        BY <2>1, ByteFacts
      <3>2. \A x, y \in Nat : x + 256 * y \in Nat
        BY SMT
      <3>3. bs[3] + 256 * bs[4] \in Nat
        BY <3>1, <3>2
      <3>4. bs[2] + 256 * (bs[3] + 256 * bs[4]) \in Nat
        BY <3>1, <3>2, <3>3
      <3>5. bs[1] + 256 * (bs[2] + 256 * (bs[3] + 256 * bs[4])) \in Nat
        BY <3>1, <3>2, <3>4
      <3> QED
        BY <2>2, <3>5
    <2> QED
      BY <1>1, <2>3
  <1>2. CASE Len(bs) = 2
    <2>1. bs[1] \in Byte /\ bs[2] \in Byte
      BY <1>2, ByteFacts
    <2>2. LittleEndian(bs) = bs[1] + 256 * bs[2]
      BY <1>2, SMT DEF LittleEndian
    <2>3. LittleEndian(bs) \in Nat /\ LittleEndian(bs) <= 65535
      BY <2>1, <2>2, TwoBytesType, SMT
    <2> QED
      BY <1>2, <2>2, <2>3, SignedType
  <1>3. CASE Len(bs) = 1
    <2>1. LittleEndian(bs) = bs[1] /\ bs[1] \in Byte
      BY <1>3, ByteFacts DEF LittleEndian
    <2> QED
      BY <1>3, <2>1, ByteFacts
  <1> QED
    BY <1>1, <1>2, <1>3

-----------------------------------------------------------------------------
(* Types and bounds                                                         *)

ValueFields == {"two_byte_value", "four_byte_value"}

\* All requirements are complete but the one whose value comes next.
ReqsComplete ==
  /\ pc \in Fields \ ValueFields => alert.reqs \in Seq(Requirement)
  /\ pc \in ValueFields =>
       /\ alert.reqs # <<>> /\ Front(alert.reqs) \in Seq(Requirement)
       /\ Last(alert.reqs) \in [variable : VariableIdentifiers, operator : Byte]
       /\ ValueField(Last(alert.reqs).variable) = pc
  /\ pc = "add_alert" => alert.reqs \in Seq(Requirement)

\* The counters say that there is something to be parsed, the bytes read so far are
\* bytes of the message, and there is room for the next requirement.
InBounds ==
  /\ StaysInBounds
  /\ pc = "message_id" => bytes = <<>>
  /\ pc = "removed_id" => bytes = <<REMOVE_ALERT>> /\ num_bytes > 0
  /\ pc = "num_variable_requirements" => ored_left > 0
  /\ pc \in {"variable_identifier"} \cup ValueFields => reqs_left > 0
  /\ pc = "variable_identifier" => Len(alert.reqs) < MaxRequirements

MessageInv == TypeOK /\ ReqsComplete /\ InBounds

\* Reading n more bytes, when they are there.
LEMMA ReadBytes ==
  ASSUME MessageInv, NEW n \in Nat \ {0}, IsXBytesAvailable(n), NEW bs \in Seq(Byte), Len(bs) = n,
         Read(bs), UNCHANGED num_bytes
  PROVE  bytes' \in Seq(Byte) /\ Len(bytes') = Len(bytes) + n /\ Len(bytes') <= num_bytes'
  <1>1. bytes \in Seq(Byte) /\ num_bytes \in Nat
    BY ConstantsAssumption DEF MessageInv, TypeOK
  <1>2. bytes' = bytes \o bs /\ num_bytes - Len(bytes) >= n
    BY DEF IsXBytesAvailable, Read
  <1>3. bytes \o bs \in Seq(Byte) /\ Len(bytes \o bs) = Len(bytes) + Len(bs)
    BY <1>1
  <1>4. Len(bytes) \in Nat
    BY <1>1, ByteFacts
  <1> QED
    BY <1>1, <1>2, <1>3, <1>4

LEMMA ReadByte ==
  ASSUME MessageInv, IsXBytesAvailable(1), NEW bs \in Seq(Byte), Len(bs) = 1, Read(bs),
         UNCHANGED num_bytes
  PROVE  bytes' \in Seq(Byte) /\ Len(bytes') = Len(bytes) + 1 /\ Len(bytes') <= num_bytes'
  <1>1. 1 \in Nat \ {0}
    OBVIOUS
  <1> QED
    BY <1>1, ReadBytes

\* A message that is dropped.
LEMMA RejectKeeps ==
  ASSUME MessageInv, Reject
  PROVE  MessageInv'
  BY DEF Reject, MessageInv, TypeOK, Ends, Fields, ValueFields, ReqsComplete, InBounds, StaysInBounds

\* The head of the message, and the removal of an alert.
LEMMA HeadKeeps ==
  ASSUME MessageInv, ReceiveCb \/ HandleRemoveAlertMessage
  PROVE  MessageInv'
  <1>1. /\ bytes \in Seq(Byte) /\ num_bytes \in Nat /\ alert \in Alert /\ num_bytes \in NumBytes
        /\ ored_left \in Byte /\ reqs_left \in Byte
    BY ConstantsAssumption DEF MessageInv, TypeOK
  <1>2. CASE Reject
    BY <1>2, RejectKeeps
  <1>3. ASSUME NEW bs \in Inputs["message_id"], num_bytes # 0, pc = "message_id", Read(bs),
               pc' = CASE bs[1] = ADD_ALERT    -> "alert_id"
                       [] bs[1] = REMOVE_ALERT -> "removed_id"
                       [] OTHER                -> "rejected",
               UNCHANGED <<num_bytes, alert, ored_left, reqs_left>>
        PROVE  MessageInv'
    <2>1. bs \in Seq(Byte) /\ Len(bs) = 1 /\ bytes = <<>> /\ alert.reqs \in Seq(Requirement)
      BY <1>3, InputFacts DEF Fields, ValueFields, MessageInv, InBounds, ReqsComplete
    <2>2. bytes' = bs /\ bs = <<bs[1]>> /\ num_bytes > 0
      BY <1>1, <1>3, <2>1 DEF Read
    <2>3. pc' \in {"alert_id", "removed_id", "rejected"} /\ (pc' = "removed_id" => bs[1] = REMOVE_ALERT)
      BY <1>3 DEF ADD_ALERT, REMOVE_ALERT
    <2>4. TypeOK'
      BY <1>1, <1>3, <2>1, <2>2, <2>3 DEF TypeOK, Fields, Ends
    <2>5. ReqsComplete'
      BY <1>3, <2>1, <2>3 DEF ReqsComplete, ValueFields
    <2>6. InBounds'
      <3>1. Len(bytes') <= num_bytes' /\ Len(alert'.reqs) <= MaxRequirements
        <4>1. Len(bytes') = 1 /\ num_bytes' = num_bytes /\ alert' = alert
          BY <1>3, <2>1, <2>2
        <4> QED
          BY <1>1, <2>2, <4>1 DEF InBounds, StaysInBounds, MessageInv
      <3> QED
        BY <1>3, <2>2, <2>3, <3>1 DEF InBounds, StaysInBounds, ValueFields
    <2> QED
      BY <2>4, <2>5, <2>6 DEF MessageInv
  <1>4. ASSUME NEW bs \in Inputs["alert_id"], num_bytes = 2, pc = "removed_id", Read(bs),
               alert' = [alert EXCEPT !.alert_id = bs[1]], pc' = "remove_alert",
               UNCHANGED <<num_bytes, ored_left, reqs_left>>
        PROVE  MessageInv'
    <2>1. bs \in Seq(Byte) /\ Len(bs) = 1 /\ bs[1] \in Byte /\ bytes = <<REMOVE_ALERT>>
      BY <1>4, InputFacts DEF Fields, MessageInv, InBounds
    <2>2. bytes' \in Seq(Byte) /\ Len(bytes') = 2
      <3>1. Len(bytes) = 1
        BY <2>1
      <3>2. bytes \o bs \in Seq(Byte) /\ Len(bytes \o bs) = Len(bytes) + Len(bs)
        BY <1>1, <2>1, Concat, Zenon
      <3> QED
        BY <1>4, <2>1, <3>1, <3>2 DEF Read
    <2>3. alert' \in Alert /\ alert'.reqs = alert.reqs
      BY <1>1, <1>4, <2>1 DEF Alert
    <2>4. TypeOK'
      BY <1>1, <1>4, <2>2, <2>3 DEF TypeOK, Ends
    <2> QED
      BY <1>4, <2>2, <2>3, <2>4
      DEF MessageInv, ReqsComplete, InBounds, StaysInBounds, Fields, ValueFields
  <1> QED
    BY <1>2, <1>3, <1>4 DEF ReceiveCb, HandleRemoveAlertMessage

\* The fields of fixed length before the requirements.
LEMMA ParseFieldKeeps ==
  ASSUME MessageInv,
         NEW field \in {"alert_id", "warmup_period", "cooldown_period", "led_color", "led_pattern"},
         NEW next \in Fields \ ({"message_id", "num_variable_requirements", "variable_identifier"}
                                  \cup ValueFields),
         ParseField(field, FieldSize(field), next)
  PROVE  MessageInv'
  <1>1. CASE Reject
    BY <1>1, RejectKeeps
  <1>2. ASSUME NEW bs \in Inputs[field], IsXBytesAvailable(FieldSize(field)), Read(bs),
               alert' = [alert EXCEPT ![field] = LittleEndian(bs)], pc' = next,
               UNCHANGED <<num_bytes, ored_left, reqs_left>>
        PROVE  MessageInv'
    <2>1. /\ FieldSize(field) \in {1, 4} /\ bs \in Seq(Byte) /\ Len(bs) = FieldSize(field)
          /\ field \in {"alert_id", "led_color", "led_pattern"} => FieldSize(field) = 1
      BY InputFacts DEF FieldSize, Fields
    <2>2. bytes' \in Seq(Byte) /\ Len(bytes') <= num_bytes'
      BY <1>2, <2>1, ReadBytes
    <2>3. /\ LittleEndian(bs) \in Nat
          /\ field \in {"alert_id", "led_color", "led_pattern"} => LittleEndian(bs) \in Byte
      BY <2>1, LittleEndianType
    <2>4. alert \in Alert /\ alert.reqs \in Seq(Requirement) /\ pc = field
      BY DEF MessageInv, TypeOK, ReqsComplete, Fields, ValueFields, ParseField
    <2>5. alert' \in Alert /\ alert'.reqs = alert.reqs
      BY <1>2, <2>3, <2>4 DEF Alert
    <2>6. TypeOK'
      BY <1>2, <2>2, <2>5 DEF MessageInv, TypeOK
    <2> QED
      BY <1>2, <2>2, <2>4, <2>5, <2>6
      DEF MessageInv, ReqsComplete, InBounds, StaysInBounds, Fields, ValueFields
  <1> QED
    BY <1>1, <1>2 DEF ParseField

\* The notification type.
LEMMA ParseNotificationTypeKeeps ==
  ASSUME MessageInv, ParseNotificationType
  PROVE  MessageInv'
  <1>1. CASE Reject
    BY <1>1, RejectKeeps
  <1>2. ASSUME NEW bs \in Inputs["notification_type"], IsXBytesAvailable(1), Read(bs),
               alert' = [alert EXCEPT !.connectivity = bs[1] % 2 = 1, !.led = bs[1] \in {2, 3}],
               pc' = CASE bs[1] > 3            -> "rejected"
                       [] bs[1] \in {2, 3}     -> "led_color"
                       [] OTHER                -> "num_ored_requirements",
               UNCHANGED <<num_bytes, ored_left, reqs_left>>
        PROVE  MessageInv'
    <2>1. bs \in Seq(Byte) /\ Len(bs) = 1
      BY InputFacts DEF Fields
    <2>2. bytes' \in Seq(Byte) /\ Len(bytes') <= num_bytes'
      BY <1>2, <2>1, ReadByte
    <2>3. pc' \in {"rejected", "led_color", "num_ored_requirements"}
      BY <1>2
    <2>4. alert \in Alert /\ alert.reqs \in Seq(Requirement)
      BY DEF MessageInv, TypeOK, ReqsComplete, Fields, ValueFields, ParseNotificationType
    <2> DEFINE c == bs[1] % 2 = 1
               l == bs[1] \in {2, 3}
    <2>5. c \in BOOLEAN /\ l \in BOOLEAN
      OBVIOUS
    <2>6. alert' = [alert EXCEPT !.connectivity = c, !.led = l]
      BY <1>2
    <2> HIDE DEF c, l
    <2>7. alert' \in Alert /\ alert'.reqs = alert.reqs
      BY <2>4, <2>5, <2>6 DEF Alert
    <2>8. TypeOK'
      BY <1>2, <2>2, <2>3, <2>7 DEF MessageInv, TypeOK, Fields, Ends
    <2> QED
      BY <1>2, <2>2, <2>3, <2>4, <2>7, <2>8
      DEF MessageInv, ReqsComplete, InBounds, StaysInBounds, Fields, ValueFields
  <1> QED
    BY <1>1, <1>2 DEF ParseNotificationType

\* After a group, the next one begins or the message is over.
LEMMA NextOredFacts ==
  ASSUME NEW left \in Byte
  PROVE  /\ NextOred(left) \in {"num_variable_requirements", "rejected", "add_alert"}
         /\ NextOred(left) = "num_variable_requirements" <=> left > 0
         /\ NextOred(left) = "add_alert" => left = 0 /\ Len(bytes') = num_bytes
  BY ByteFacts DEF NextOred

\* The numbers of requirements.
LEMMA ParseNumbersKeep ==
  ASSUME MessageInv, ParseNumOredRequirements \/ ParseNumVariableRequirements
  PROVE  MessageInv'
  <1>1. CASE Reject
    BY <1>1, RejectKeeps
  <1>2. /\ alert \in Alert /\ alert.reqs \in Seq(Requirement) /\ reqs_left \in Byte
        /\ num_bytes \in NumBytes /\ Len(alert.reqs) <= MaxRequirements /\ MaxRequirements \in Nat
        /\ ored_left \in Byte
    BY ConstantsAssumption
    DEF MessageInv, TypeOK, ReqsComplete, Fields, ValueFields, ParseNumOredRequirements,
        ParseNumVariableRequirements, InBounds, StaysInBounds
  <1>3. ASSUME NEW bs \in Inputs["num_ored_requirements"], IsXBytesAvailable(1), Read(bs),
               ored_left' = bs[1], pc' = NextOred(bs[1]), UNCHANGED <<num_bytes, alert, reqs_left>>
        PROVE  MessageInv'
    <2>1. bs \in Seq(Byte) /\ Len(bs) = 1 /\ bs[1] \in Byte
      BY InputFacts DEF Fields
    <2>2. bytes' \in Seq(Byte) /\ Len(bytes') <= num_bytes'
      BY <1>3, <2>1, ReadByte
    <2>3. /\ pc' \in {"num_variable_requirements", "rejected", "add_alert"}
          /\ pc' = "num_variable_requirements" => ored_left' > 0
      BY <1>3, <2>1, NextOredFacts
    <2>4. TypeOK'
      BY <1>2, <1>3, <2>1, <2>2, <2>3 DEF TypeOK, Fields, Ends
    <2> QED
      BY <1>2, <1>3, <2>2, <2>3, <2>4
      DEF MessageInv, ReqsComplete, InBounds, StaysInBounds, Fields, ValueFields
  <1>4. ASSUME NEW bs \in Inputs["num_variable_requirements"], IsXBytesAvailable(1), Read(bs),
               pc = "num_variable_requirements",
               reqs_left' = bs[1], ored_left' = ored_left - 1,
               pc' = IF bs[1] > 0 THEN NextRequirement(alert.reqs) ELSE NextOred(ored_left'),
               UNCHANGED <<num_bytes, alert>>
        PROVE  MessageInv'
    <2>1. bs \in Seq(Byte) /\ Len(bs) = 1 /\ bs[1] \in Byte
      BY InputFacts DEF Fields
    <2>2. bytes' \in Seq(Byte) /\ Len(bytes') <= num_bytes'
      BY <1>4, <2>1, ReadByte
    <2>3. ored_left > 0
      BY <1>4 DEF MessageInv, InBounds
    <2>4. ored_left' \in Byte
      BY <1>2, <1>4, <2>3 DEF Byte
    <2>5. CASE bs[1] > 0
      <3>1. /\ pc' \in {"rejected", "variable_identifier"} /\ reqs_left' > 0
            /\ pc' = "variable_identifier" => Len(alert.reqs) < MaxRequirements
        BY <1>2, <1>4, <2>5 DEF NextRequirement
      <3>2. TypeOK'
        BY <1>2, <1>4, <2>1, <2>2, <2>4, <3>1 DEF TypeOK, Fields, Ends
      <3> QED
        BY <1>2, <1>4, <2>2, <3>1, <3>2
        DEF MessageInv, ReqsComplete, InBounds, StaysInBounds, Fields, ValueFields
    <2>6. CASE ~(bs[1] > 0)
      <3>1. /\ pc' \in {"num_variable_requirements", "rejected", "add_alert"}
            /\ pc' = "num_variable_requirements" => ored_left' > 0
        BY <1>4, <2>4, <2>6, NextOredFacts
      <3>2. TypeOK'
        BY <1>2, <1>4, <2>1, <2>2, <2>4, <3>1 DEF TypeOK, Fields, Ends
      <3> QED
        BY <1>2, <1>4, <2>2, <3>1, <3>2
        DEF MessageInv, ReqsComplete, InBounds, StaysInBounds, Fields, ValueFields
    <2> QED
      BY <2>5, <2>6
  <1> QED
    BY <1>1, <1>3, <1>4 DEF ParseNumOredRequirements, ParseNumVariableRequirements

\* The variable and the operator of a requirement.
LEMMA ParseVariableIdentifierKeeps ==
  ASSUME MessageInv, ParseVariableIdentifier
  PROVE  MessageInv'
  <1>1. CASE Reject
    BY <1>1, RejectKeeps
  <1>2. /\ alert \in Alert /\ alert.reqs \in Seq(Requirement) /\ reqs_left \in Byte /\ reqs_left > 0
        /\ num_bytes \in NumBytes /\ Len(alert.reqs) < MaxRequirements /\ MaxRequirements \in Nat
        /\ ored_left \in Byte
    BY ConstantsAssumption
    DEF MessageInv, TypeOK, ReqsComplete, Fields, ValueFields, ParseVariableIdentifier, InBounds
  <1>3. ASSUME NEW bs \in Inputs["variable_identifier"], NEW op \in Inputs["operator"],
               IsXBytesAvailable(2), Read(bs \o op),
               alert' = [alert EXCEPT !.reqs =
                           Append(@, [variable |-> bs[1], operator |-> op[1]])],
               pc' = IF bs[1] \in VariableIdentifiers THEN ValueField(bs[1]) ELSE "rejected",
               UNCHANGED <<num_bytes, ored_left, reqs_left>>
        PROVE  MessageInv'
    <2>1. /\ bs \in Seq(Byte) /\ Len(bs) = 1 /\ bs[1] \in Byte
          /\ op \in Seq(Byte) /\ Len(op) = 1 /\ op[1] \in Byte
      BY InputFacts DEF Fields
    <2>2. bytes' \in Seq(Byte) /\ Len(bytes') <= num_bytes'
      <3>1. bs \o op \in Seq(Byte) /\ Len(bs \o op) = 2 /\ 2 \in Nat \ {0}
        <4>1. bs \o op \in Seq(Byte) /\ Len(bs \o op) = Len(bs) + Len(op)
          BY <2>1, Concat, Zenon
        <4> QED
          BY <2>1, <4>1
      <3> QED
        BY <1>3, <3>1, ReadBytes
    <2> DEFINE r == [variable |-> bs[1], operator |-> op[1]]
    <2>3. r \in OpenRequirement /\ r.variable = bs[1]
      BY <2>1 DEF OpenRequirement
    <2>4. bs[1] \in VariableIdentifiers => r \in [variable : VariableIdentifiers, operator : Byte]
      BY <2>1
    <2> HIDE DEF r
    <2>5. /\ alert'.reqs = Append(alert.reqs, r)
          /\ alert' = [alert EXCEPT !.reqs = Append(alert.reqs, r)]
      BY <1>2, <1>3 DEF r, Alert
    <2>6. /\ Append(alert.reqs, r) \in Seq(Requirement \cup OpenRequirement)
          /\ Front(Append(alert.reqs, r)) = alert.reqs /\ Last(Append(alert.reqs, r)) = r
          /\ Append(alert.reqs, r) # <<>> /\ Len(Append(alert.reqs, r)) = Len(alert.reqs) + 1
      BY <1>2, <2>3 DEF Front, Last
    <2>7. alert' \in Alert
      BY <1>2, <2>5, <2>6 DEF Alert
    <2>8. pc' \in ValueFields \cup {"rejected"} /\ (pc' \in ValueFields => bs[1] \in VariableIdentifiers)
          /\ (pc' \in ValueFields => pc' = ValueField(bs[1]))
      BY <1>3 DEF ValueField, ValueFields
    <2>9. TypeOK'
      BY <1>2, <1>3, <2>2, <2>7, <2>8 DEF TypeOK, Fields, ValueFields, Ends
    <2>10. ReqsComplete'
      <3>1. CASE pc' = "rejected"
        BY <3>1 DEF ReqsComplete, ValueFields, Fields
      <3>2. CASE pc' \in ValueFields
        <4>1. /\ alert'.reqs # <<>> /\ Front(alert'.reqs) \in Seq(Requirement)
              /\ Last(alert'.reqs) = r
          BY <1>2, <2>5, <2>6, Zenon
        <4>2. pc' # "add_alert"
          BY <3>2 DEF ValueFields
        <4> QED
          BY <2>3, <2>4, <2>8, <3>2, <4>1, <4>2 DEF ReqsComplete
      <3> QED
        BY <2>8, <3>1, <3>2
    <2>11. InBounds'
      <3>1. Len(alert'.reqs) <= MaxRequirements
        BY <1>2, <2>5, <2>6
      <3> QED
        BY <1>2, <1>3, <2>2, <2>8, <3>1 DEF InBounds, StaysInBounds, ValueFields
    <2> QED
      BY <2>9, <2>10, <2>11 DEF MessageInv
  <1> QED
    BY <1>1, <1>3 DEF ParseVariableIdentifier

\* The value that is stored is one of the variable's type.
LEMMA ValueType ==
  ASSUME NEW field \in ValueFields, NEW r \in [variable : VariableIdentifiers, operator : Byte],
         ValueField(r.variable) = field, NEW bs \in Inputs[field], NEW last \in BOOLEAN
  PROVE  /\ [variable |-> r.variable, operator |-> r.operator,
             value |-> ConstraintValue(r.variable, bs), last |-> last] \in Requirement
         /\ bs \in Seq(Byte) /\ Len(bs) = IF field = "two_byte_value" THEN 2 ELSE 4
         /\ r.variable = LIGHT_INTENSITY <=> field = "four_byte_value"
  <1>1. /\ bs \in Seq(Byte) /\ Len(bs) = IF field = "two_byte_value" THEN 2 ELSE 4
        /\ r.variable = LIGHT_INTENSITY <=> field = "four_byte_value"
    BY InputFacts DEF ValueFields, ValueField
  <1>2. r.variable \in VariableIdentifiers /\ r.operator \in Byte
    OBVIOUS
  <1>3. CASE r.variable = TEMPERATURE
    <2>1. Len(bs) = 2
      BY <1>1, <1>3 DEF TEMPERATURE, LIGHT_INTENSITY, ValueFields
    <2>2. ConstraintValue(r.variable, bs) \in -(2^15)..2^15 - 1
      BY <1>1, <1>3, <2>1, LittleEndianType DEF ConstraintValue
    <2> QED
      BY <1>1, <1>2, <1>3, <2>2 DEF Requirement
  <1>4. CASE r.variable # TEMPERATURE
    <2>1. ConstraintValue(r.variable, bs) \in Nat
      BY <1>1, <1>4, LittleEndianType DEF ConstraintValue
    <2> QED
      BY <1>1, <1>2, <1>4, <2>1 DEF Requirement
  <1> QED
    BY <1>3, <1>4

\* The constraint value, which completes the requirement.
LEMMA ParseConstraintValueKeeps ==
  ASSUME MessageInv, NEW field \in ValueFields,
         ParseConstraintValue(field, IF field = "two_byte_value" THEN 2 ELSE 4)
  PROVE  MessageInv'
  <1> DEFINE n == IF field = "two_byte_value" THEN 2 ELSE 4
             r == Last(alert.reqs)
  <1>1. CASE Reject
    BY <1>1, RejectKeeps
  <1>2. /\ alert \in Alert /\ Front(alert.reqs) \in Seq(Requirement) /\ alert.reqs # <<>>
        /\ r \in [variable : VariableIdentifiers, operator : Byte] /\ ValueField(r.variable) = field
        /\ reqs_left \in Byte /\ reqs_left > 0 /\ ored_left \in Byte /\ num_bytes \in NumBytes
        /\ Len(alert.reqs) <= MaxRequirements /\ MaxRequirements \in Nat /\ pc = field
    BY ConstantsAssumption
    DEF MessageInv, TypeOK, ReqsComplete, Fields, ValueFields, ParseConstraintValue, InBounds,
        StaysInBounds
  <1>3. ASSUME NEW bs \in Inputs[field], IsXBytesAvailable(n), Read(bs),
               alert' = [alert EXCEPT !.reqs =
                 Append(Front(@), [variable |-> r.variable, operator |-> r.operator,
                                   value |-> ConstraintValue(r.variable, bs),
                                   last |-> IsLastInOredRequirement(reqs_left)])],
               reqs_left' = reqs_left - 1,
               pc' = IF reqs_left > 1 THEN NextRequirement(alert'.reqs) ELSE NextOred(ored_left),
               UNCHANGED <<num_bytes, ored_left>>
        PROVE  MessageInv'
    <2> DEFINE q == [variable |-> r.variable, operator |-> r.operator,
                     value |-> ConstraintValue(r.variable, bs),
                     last |-> IsLastInOredRequirement(reqs_left)]
    <2>1. q \in Requirement /\ bs \in Seq(Byte) /\ Len(bs) = n /\ n \in Nat \ {0}
      <3>1. IsLastInOredRequirement(reqs_left) \in BOOLEAN
        BY DEF IsLastInOredRequirement
      <3> HIDE DEF r
      <3> QED
        BY <1>2, <3>1, ValueType
    <2>2. bytes' \in Seq(Byte) /\ Len(bytes') <= num_bytes'
      BY <1>3, <2>1, ReadBytes
    <2> HIDE DEF q, r
    <2>3. /\ alert'.reqs = Append(Front(alert.reqs), q)
          /\ alert' = [alert EXCEPT !.reqs = Append(Front(alert.reqs), q)]
      BY <1>2, <1>3 DEF q, Alert
    <2>4. /\ Append(Front(alert.reqs), q) \in Seq(Requirement)
          /\ Len(Append(Front(alert.reqs), q)) = Len(alert.reqs)
      <3>1. alert.reqs \in Seq(Requirement \cup OpenRequirement)
        BY <1>2 DEF Alert
      <3>2. Len(Front(alert.reqs)) = Len(alert.reqs) - 1
        BY <1>2, <3>1 DEF Front
      <3> QED
        BY <1>2, <2>1, <3>1, <3>2
    <2>5. alert' \in Alert
      <3>1. Append(Front(alert.reqs), q) \in Seq(Requirement \cup OpenRequirement)
        BY <2>4
      <3> QED
        BY <1>2, <2>3, <3>1 DEF Alert
    <2>6. reqs_left' \in Byte /\ (reqs_left > 1 => reqs_left' > 0)
      <3>1. reqs_left \in Byte /\ reqs_left > 0 /\ reqs_left' = reqs_left - 1
        BY <1>2, <1>3
      <3> QED
        BY <3>1, SMT DEF Byte
    <2>7. Len(alert'.reqs) <= MaxRequirements
      BY <1>2, <2>3, <2>4
    <2>8. CASE reqs_left > 1
      <3>1. /\ pc' \in {"rejected", "variable_identifier"}
            /\ pc' = "variable_identifier" => Len(alert'.reqs) < MaxRequirements
        BY <1>2, <1>3, <2>3, <2>4, <2>8 DEF NextRequirement
      <3>2. TypeOK'
        BY <1>2, <1>3, <2>2, <2>5, <2>6, <3>1 DEF TypeOK, Fields, Ends
      <3> QED
        BY <1>3, <2>2, <2>3, <2>4, <2>6, <2>7, <2>8, <3>1, <3>2
        DEF MessageInv, ReqsComplete, InBounds, StaysInBounds, Fields, ValueFields
    <2>9. CASE ~(reqs_left > 1)
      <3>1. /\ pc' \in {"num_variable_requirements", "rejected", "add_alert"}
            /\ pc' = "num_variable_requirements" => ored_left' > 0
        BY <1>2, <1>3, <2>9, NextOredFacts
      <3>2. TypeOK'
        BY <1>2, <1>3, <2>2, <2>5, <2>6, <3>1 DEF TypeOK, Fields, Ends
      <3> QED
        BY <1>3, <2>2, <2>3, <2>4, <2>7, <3>1, <3>2
        DEF MessageInv, ReqsComplete, InBounds, StaysInBounds, Fields, ValueFields
    <2> QED
      BY <2>8, <2>9
  <1> QED
    BY <1>1, <1>3 DEF ParseConstraintValue

LEMMA MessageInit == Init => MessageInv
  <1> SUFFICES ASSUME Init PROVE MessageInv
    OBVIOUS
  <1>1. num_bytes \in Nat /\ MaxRequirements \in Nat
    BY ConstantsAssumption DEF Init
  <1>2. alert \in Alert
    BY DEF Init, EmptyAlert, Alert
  <1>3. alert.reqs = <<>> /\ Len(alert.reqs) = 0 /\ 0 \in Byte
    BY DEF Init, EmptyAlert, Byte
  <1> QED
    BY <1>1, <1>2, <1>3
    DEF Init, MessageInv, TypeOK, ReqsComplete, InBounds, StaysInBounds, Fields, ValueFields

LEMMA MessageStep == MessageInv /\ [Next]_vars => MessageInv'
  <1> SUFFICES ASSUME MessageInv, [Next]_vars PROVE MessageInv'
    OBVIOUS
  <1>1. CASE ReceiveCb \/ HandleRemoveAlertMessage
    BY <1>1, HeadKeeps
  <1>2. CASE ParseAlertId \/ ParseWarmupPeriod \/ ParseCooldownPeriod \/ ParseLedColor
             \/ ParseLedPattern
    <2>1. /\ FieldSize("alert_id") = 1 /\ FieldSize("warmup_period") = 4
          /\ FieldSize("cooldown_period") = 4 /\ FieldSize("led_color") = 1
          /\ FieldSize("led_pattern") = 1
      BY DEF FieldSize
    <2>2. {"warmup_period", "cooldown_period", "notification_type", "led_pattern",
           "num_ored_requirements"}
            \subseteq Fields \ ({"message_id", "num_variable_requirements", "variable_identifier"}
                                  \cup ValueFields)
      BY DEF Fields, ValueFields
    <2> QED
      BY <1>2, <2>1, <2>2, ParseFieldKeeps
      DEF ParseAlertId, ParseWarmupPeriod, ParseCooldownPeriod, ParseLedColor, ParseLedPattern
  <1>3. CASE ParseNotificationType
    BY <1>3, ParseNotificationTypeKeeps
  <1>4. CASE ParseNumOredRequirements \/ ParseNumVariableRequirements
    BY <1>4, ParseNumbersKeep
  <1>5. CASE ParseVariableIdentifier
    BY <1>5, ParseVariableIdentifierKeeps
  <1>6. CASE ParseTwoByteValue \/ ParseFourByteValue
    <2>1. /\ "two_byte_value" \in ValueFields /\ "four_byte_value" \in ValueFields
          /\ "four_byte_value" # "two_byte_value"
      BY DEF ValueFields
    <2> QED
      BY <1>6, <2>1, ParseConstraintValueKeeps DEF ParseTwoByteValue, ParseFourByteValue
  <1>7. CASE Done \/ UNCHANGED vars
    BY <1>7 DEF Done, vars, MessageInv, TypeOK, ReqsComplete, InBounds, StaysInBounds
  <1> QED
    BY <1>1, <1>2, <1>3, <1>4, <1>5, <1>6, <1>7 DEF Next

LEMMA MessageAlways == Spec => []MessageInv
  BY MessageInit, MessageStep, PTL DEF Spec

\* The types of the parser's state: a value fits its variable, and only the
\* requirement at hand is incomplete.
THEOREM MessageTypeOK == Spec => []TypeOK
  <1>1. MessageInv => TypeOK
    BY DEF MessageInv
  <1> QED
    BY <1>1, MessageAlways, PTL

\* However long the message is and whatever it says about the number of
\* requirements to come, the parser reads no byte behind its end and writes no element
\* behind the end of variable_requirements.
THEOREM MessageStaysInBounds == Spec => []StaysInBounds
  <1>1. MessageInv => StaysInBounds
    BY DEF MessageInv, InBounds
  <1> QED
    BY <1>1, MessageAlways, PTL

-----------------------------------------------------------------------------
(* The encoding of numbers                                                  *)

LEMMA Powers == 256^0 = 1 /\ 256^1 = 256 /\ 256^2 = 65536 /\ 256^3 = 16777216 /\ 2^15 = 32768 /\ 2^16 = 65536
  BY SMT

\* The i-th byte of a number.
ByteOf(x, i) == (x \div 256^(i - 1)) % 256

LEMMA ByteOfType ==
  ASSUME NEW x \in Int, NEW i \in 1..4
  PROVE  ByteOf(x, i) \in Byte
  <1>1. \A y \in Int : y % 256 \in Byte
    BY SMT DEF Byte
  <1>2. x \div 1 \in Int /\ x \div 256 \in Int /\ x \div 65536 \in Int /\ x \div 16777216 \in Int
    BY SMT
  <1>3. i = 1 \/ i = 2 \/ i = 3 \/ i = 4
    BY SMT
  <1>4. x \div 256^(i - 1) \in Int
    <2>1. CASE i = 1
      BY <2>1, <1>2, Powers, SMT
    <2>2. CASE i = 2
      BY <2>2, <1>2, Powers, SMT
    <2>3. CASE i = 3
      BY <2>3, <1>2, Powers, SMT
    <2>4. CASE i = 4
      BY <2>4, <1>2, Powers, SMT
    <2> QED
      BY <1>3, <2>1, <2>2, <2>3, <2>4
  <1> QED
    BY <1>1, <1>4 DEF ByteOf

LEMMA BytesAre ==
  ASSUME NEW x \in Int, NEW n \in {2, 4}
  PROVE  /\ Bytes(x, n) \in Seq(Byte) /\ Len(Bytes(x, n)) = n
         /\ \A i \in 1..n : Bytes(x, n)[i] = ByteOf(x, i)
  <1>1. \A i \in 1..4 : ByteOf(x, i) \in Byte
    BY ByteOfType
  <1>2. n \in Nat /\ 1..n \subseteq 1..4
    BY SMT
  <1> DEFINE s == [i \in 1..n |-> ByteOf(x, i)]
  <1>3. s \in [1..n -> Byte] /\ \A i \in 1..n : s[i] = ByteOf(x, i)
    BY <1>1, <1>2
  <1>4. Bytes(x, n) = s
    BY DEF Bytes, ByteOf
  <1> HIDE DEF s
  <1>5. s \in Seq(Byte) /\ Len(s) = n
    BY <1>2, <1>3
  <1> QED
    BY <1>3, <1>4, <1>5

LEMMA TwoBytesEqual ==
  ASSUME NEW s \in Seq(Byte), NEW t \in Seq(Byte), Len(s) = 2, Len(t) = 2, s[1] = t[1], s[2] = t[2]
  PROVE  s = t
  OBVIOUS

LEMMA FourBytesEqual ==
  ASSUME NEW s \in Seq(Byte), NEW t \in Seq(Byte), Len(s) = 4, Len(t) = 4,
         s[1] = t[1], s[2] = t[2], s[3] = t[3], s[4] = t[4]
  PROVE  s = t
  OBVIOUS

\* Encoding what was decoded gives the bytes back.
LEMMA TwoBytesBack ==
  ASSUME NEW bs \in Seq(Byte), Len(bs) = 2
  PROVE  Bytes(LittleEndian(bs), 2) = bs /\ Bytes(Signed16(LittleEndian(bs)), 2) = bs
  <1>1. /\ bs[1] \in Nat /\ bs[1] <= 255 /\ bs[2] \in Nat /\ bs[2] <= 255
    BY ByteFacts
  <1> DEFINE n == bs[1] + 256 * bs[2]
  <1>2. LittleEndian(bs) = n
    BY LittleEndianType
  <1>3. ASSUME NEW x \in {n, n - 65536}
        PROVE  Bytes(x, 2) = bs
    <2>1. x \in Int /\ x % 256 = bs[1] /\ (x \div 256) % 256 = bs[2]
      <3> DEFINE a == bs[1]
                 b == bs[2]
      <3>1. a \in Nat /\ a <= 255 /\ b \in Nat /\ b <= 255 /\ (x = a + 256 * b \/ x = a + 256 * b - 65536)
        BY <1>1, <1>3
      <3> HIDE DEF a, b, n
      <3>2. /\ x \in Int
            /\ x = a + 256 * b \/ x = a + 256 * (b - 256)
        BY <3>1, SMT
      <3>3. x % 256 = a /\ (x \div 256 = b \/ x \div 256 = b - 256)
        BY <3>1, <3>2, SMT
      <3>4. b % 256 = b /\ (b - 256) % 256 = b
        BY <3>1, SMT
      <3> QED
        BY <3>2, <3>3, <3>4 DEF a, b
    <2> HIDE DEF n
    <2>2. /\ Bytes(x, 2) \in Seq(Byte) /\ Len(Bytes(x, 2)) = 2
          /\ Bytes(x, 2)[1] = bs[1] /\ Bytes(x, 2)[2] = bs[2]
      <3>1. x \in Int
        BY <2>1
      <3>2. ByteOf(x, 1) = bs[1] /\ ByteOf(x, 2) = bs[2]
        <4>1. ByteOf(x, 1) = x % 256 /\ ByteOf(x, 2) = (x \div 256) % 256
          <5>1. x \div 1 = x
            BY <3>1, SMT
          <5> QED
            BY <3>1, <5>1, Powers, SMT DEF ByteOf
        <4> QED
          BY <2>1, <4>1
      <3>3. /\ Bytes(x, 2) \in Seq(Byte) /\ Len(Bytes(x, 2)) = 2
            /\ \A i \in 1..2 : Bytes(x, 2)[i] = ByteOf(x, i)
        BY <3>1, BytesAre
      <3> QED
        BY <3>2, <3>3
    <2> QED
      BY <2>2, TwoBytesEqual
  <1>4. Signed16(n) \in {n, n - 65536}
    BY <1>1, SMT DEF Signed16
  <1> HIDE DEF n
  <1> QED
    BY <1>2, <1>3, <1>4

LEMMA FourBytesBack ==
  ASSUME NEW bs \in Seq(Byte), Len(bs) = 4
  PROVE  Bytes(LittleEndian(bs), 4) = bs
  <1> DEFINE a == bs[1]
             b == bs[2]
             c == bs[3]
             d == bs[4]
             x == a + 256 * (b + 256 * (c + 256 * d))
  <1>1. /\ a \in Nat /\ a < 256 /\ b \in Nat /\ b < 256 /\ c \in Nat /\ c < 256
        /\ d \in Nat /\ d < 256
    <2>1. \A i \in 1..4 : bs[i] \in Nat /\ bs[i] <= 255
      BY ByteFacts
    <2> QED
      BY <2>1, SMT
  <1>2. LittleEndian(bs) = x
    BY SMT DEF LittleEndian
  <1> HIDE DEF a, b, c, d
  <1>3. x \in Nat /\ x % 256 = a
    <2>1. b + 256 * (c + 256 * d) \in Nat
      BY <1>1, SMT
    <2> DEFINE y == b + 256 * (c + 256 * d)
    <2> HIDE DEF y
    <2>2. a + 256 * y \in Nat /\ (a + 256 * y) % 256 = a
      BY <1>1, <2>1, SMT DEF y
    <2> QED
      BY <2>2 DEF y
  <1>4. (x \div 256) % 256 = b
    <2> DEFINE z == c + 256 * d
               y == b + 256 * z
    <2>1. z \in Nat
      BY <1>1, SMT
    <2> HIDE DEF z
    <2>2. y \in Nat /\ y % 256 = b
      BY <1>1, <2>1, SMT
    <2> HIDE DEF y
    <2>3. (a + 256 * y) \div 256 = y
      BY <1>1, <2>2, SMT
    <2> QED
      BY <2>2, <2>3 DEF y, z
  <1>5. (x \div 65536) % 256 = c
    <2> DEFINE y == c + 256 * d
               e == a + 256 * b
    <2>1. y \in Nat /\ y % 256 = c /\ e \in Nat /\ e < 65536
      BY <1>1, SMT
    <2>2. x = e + 65536 * y
      BY <1>1, SMT
    <2> HIDE DEF y, e, x
    <2>3. (e + 65536 * y) \div 65536 = y
      BY <2>1, SMT
    <2> QED
      BY <2>1, <2>2, <2>3
  <1>6. (x \div 16777216) % 256 = d
    <2> DEFINE e == a + 256 * b + 65536 * c
    <2>1. e \in Nat /\ e < 16777216
      BY <1>1, SMT
    <2>2. x = e + 16777216 * d
      BY <1>1, SMT
    <2> HIDE DEF e, x
    <2>3. (e + 16777216 * d) \div 16777216 = d
      BY <1>1, <2>1, SMT
    <2>4. d % 256 = d
      BY <1>1, SMT
    <2> QED
      BY <2>2, <2>3, <2>4
  <1> HIDE DEF x
  <1>7. /\ Bytes(x, 4) \in Seq(Byte) /\ Len(Bytes(x, 4)) = 4
        /\ Bytes(x, 4)[1] = a /\ Bytes(x, 4)[2] = b
        /\ Bytes(x, 4)[3] = c /\ Bytes(x, 4)[4] = d
    <2>1. x \in Int
      BY <1>3
    <2>2. ByteOf(x, 1) = a /\ ByteOf(x, 2) = b /\ ByteOf(x, 3) = c /\ ByteOf(x, 4) = d
      <3>1. x \div 1 = x
        BY <2>1, SMT
      <3>2. ByteOf(x, 1) = x % 256 /\ ByteOf(x, 2) = (x \div 256) % 256
        BY <2>1, <3>1, Powers, SMT DEF ByteOf
      <3>3. ByteOf(x, 3) = (x \div 65536) % 256 /\ ByteOf(x, 4) = (x \div 16777216) % 256
        BY <2>1, Powers, SMT DEF ByteOf
      <3> QED
        BY <1>3, <1>4, <1>5, <1>6, <3>2, <3>3
    <2>3. /\ Bytes(x, 4) \in Seq(Byte) /\ Len(Bytes(x, 4)) = 4
          /\ \A i \in 1..4 : Bytes(x, 4)[i] = ByteOf(x, i)
      BY <2>1, BytesAre
    <2> QED
      BY <2>2, <2>3
  <1>8. Bytes(x, 4) = bs
    BY <1>7, FourBytesEqual DEF a, b, c, d
  <1> QED
    BY <1>2, <1>8

-----------------------------------------------------------------------------
(* The encoding of requirements                                             *)

LEMMA SubSeqOfConcat ==
  ASSUME NEW S, NEW s \in Seq(S), NEW t \in Seq(S), NEW m \in 1..Len(s) + 1,
         NEW n \in m - 1..Len(s)
  PROVE  /\ SubSeq(s \o t, m, n) = SubSeq(s, m, n) /\ SubSeq(s, m, n) \in Seq(S)
         /\ SubSeq(s \o t, Len(s) + 1, Len(s) + Len(t)) = t
  OBVIOUS

LEMMA FrontLast ==
  ASSUME NEW S, NEW s \in Seq(S), NEW x
  PROVE  Front(Append(s, x)) = s /\ Last(Append(s, x)) = x /\ Append(s, x) # <<>>
  BY DEF Front, Last

LEMMA AppendIs ==
  ASSUME NEW S, NEW s \in Seq(S), NEW x \in S
  PROVE  \A t : /\ t = [i \in 1..Len(s) + 1 |-> t[i]] /\ t[Len(s) + 1] = x
                /\ \A i \in 1..Len(s) : t[i] = s[i]
                => t = Append(s, x)
  <1> SUFFICES ASSUME NEW t, t = [i \in 1..Len(s) + 1 |-> t[i]], t[Len(s) + 1] = x,
                      \A i \in 1..Len(s) : t[i] = s[i]
               PROVE  t = Append(s, x)
    OBVIOUS
  <1> DEFINE n == Len(s) + 1
             u == Append(s, x)
  <1>1. u \in Seq(S) /\ Len(u) = n /\ \A i \in 1..Len(s) : u[i] = s[i]
    OBVIOUS
  <1>2. u[n] = x /\ \A i \in 1..n : i \in 1..Len(s) \/ i = n
    OBVIOUS
  <1>3. \A i \in 1..n : t[i] = u[i]
    BY <1>1, <1>2
  <1>4. t = [i \in 1..n |-> t[i]]
    OBVIOUS
  <1> HIDE DEF n, u
  <1>5. u = [i \in 1..n |-> u[i]]
    <2>1. \A w \in Seq(S) : w = [i \in 1..Len(w) |-> w[i]]
      OBVIOUS
    <2> QED
      BY <1>1, <2>1
  <1>6. t = u
    BY <1>3, <1>4, <1>5
  <1> QED
    BY <1>6 DEF u

LEMMA MapIs ==
  ASSUME NEW S, NEW s, NEW n \in Nat, s = [i \in 1..n |-> s[i]], \A i \in 1..n : s[i] \in S
  PROVE  s \in Seq(S) /\ Len(s) = n
  OBVIOUS

LEMMA RequirementFields ==
  ASSUME NEW q \in Requirement
  PROVE  q.variable \in Int /\ q.operator \in Int /\ q.value \in Int /\ q.last \in BOOLEAN
  <1>1. 2^15 \in Int /\ \A v \in -(2^15)..2^15 - 1 : v \in Int
    BY Powers
  <1>2. \A b \in Byte : b \in Int
    BY ByteFacts
  <1>3. TEMPERATURE \in Int /\ \A v \in VariableIdentifiers : v \in Int
    BY DEF VariableIdentifiers, TEMPERATURE, LIGHT_INTENSITY
  <1>4. CASE q \in [variable : {TEMPERATURE}, operator : Byte, value : -(2^15)..2^15 - 1, last : BOOLEAN]
    BY <1>1, <1>2, <1>3, <1>4
  <1>5. CASE q \in [variable : VariableIdentifiers \ {TEMPERATURE}, operator : Byte, value : Nat,
                    last : BOOLEAN]
    BY <1>2, <1>3, <1>5
  <1> QED
    BY <1>4, <1>5 DEF Requirement

LEMMA EncodeRequirementType ==
  ASSUME NEW q \in Requirement
  PROVE  EncodeRequirement(q) \in Seq(Int)
  <1> DEFINE n == IF q.variable = LIGHT_INTENSITY THEN 4 ELSE 2
  <1>1. n \in {2, 4} /\ q.value \in Int
    BY RequirementFields
  <1>2. <<q.variable, q.operator>> \in Seq(Int)
    BY RequirementFields
  <1>3. EncodeRequirement(q) = <<q.variable, q.operator>> \o Bytes(q.value, n)
    BY DEF EncodeRequirement
  <1> HIDE DEF n
  <1>4. Bytes(q.value, n) \in Seq(Byte)
    BY <1>1, BytesAre
  <1>5. Bytes(q.value, n) \in Seq(Int)
    BY <1>4, ByteFacts
  <1> QED
    BY <1>2, <1>3, <1>5, Concat, Zenon

LEMMA EncodeRequirementsAppend ==
  ASSUME NEW rs \in Seq(Requirement)
  PROVE  /\ EncodeRequirements(rs) \in Seq(Int)
         /\ \A q \in Requirement :
              EncodeRequirements(Append(rs, q)) = EncodeRequirements(rs) \o EncodeRequirement(q)
  <1> DEFINE ss == [i \in DOMAIN rs |-> EncodeRequirement(rs[i])]
  <1>1. ss \in Seq(Seq(Int)) /\ Len(ss) = Len(rs) /\ \A i \in 1..Len(rs) : ss[i] = EncodeRequirement(rs[i])
    <2>1. \A i \in 1..Len(rs) : EncodeRequirement(rs[i]) \in Seq(Int)
      BY EncodeRequirementType
    <2>2. ss = [i \in 1..Len(rs) |-> EncodeRequirement(rs[i])] /\ Len(rs) \in Nat
      OBVIOUS
    <2>3. ss = [i \in 1..Len(rs) |-> ss[i]] /\ \A i \in 1..Len(rs) : ss[i] = EncodeRequirement(rs[i])
      BY <2>2
    <2> HIDE DEF ss
    <2> QED
      BY <2>1, <2>2, <2>3, MapIs
  <1>2. EncodeRequirements(rs) = FlattenSeq(ss)
    BY DEF EncodeRequirements
  <1> HIDE DEF ss
  <1>3. FlattenSeq(ss) \in Seq(Int)
    BY <1>1, FlattenType
  <1>4. ASSUME NEW q \in Requirement
        PROVE  EncodeRequirements(Append(rs, q)) = EncodeRequirements(rs) \o EncodeRequirement(q)
    <2> DEFINE tt == [i \in DOMAIN Append(rs, q) |-> EncodeRequirement(Append(rs, q)[i])]
               x == EncodeRequirement(q)
    <2>1. DOMAIN tt = 1..Len(rs) + 1 /\ (\A i \in 1..Len(rs) : tt[i] = EncodeRequirement(rs[i]))
          /\ tt[Len(rs) + 1] = x
      OBVIOUS
    <2>2. x \in Seq(Int)
      BY EncodeRequirementType
    <2>3. tt = [i \in 1..Len(rs) + 1 |-> tt[i]]
      BY <2>1
    <2>4. EncodeRequirements(Append(rs, q)) = FlattenSeq(tt)
      BY DEF EncodeRequirements
    <2> HIDE DEF tt, x
    <2>5. tt = Append(ss, x)
      <3>1. /\ tt = [i \in 1..Len(ss) + 1 |-> tt[i]] /\ tt[Len(ss) + 1] = x
            /\ \A i \in 1..Len(ss) : tt[i] = ss[i]
        BY <1>1, <2>1, <2>3
      <3>2. ss \in Seq(Seq(Int))
        BY <1>1
      <3>3. \A t : /\ t = [i \in 1..Len(ss) + 1 |-> t[i]] /\ t[Len(ss) + 1] = x
                   /\ \A i \in 1..Len(ss) : t[i] = ss[i]
                   => t = Append(ss, x)
        BY <2>2, <3>2, AppendIs
      <3> QED
        BY <3>1, <3>3
    <2>6. FlattenSeq(Append(ss, x)) = FlattenSeq(ss) \o x
      BY <1>1, <2>2, FlattenAppend
    <2> QED
      BY <1>2, <2>4, <2>5, <2>6 DEF x
  <1> QED
    BY <1>2, <1>3, <1>4

LEMMA EncodeOredType ==
  ASSUME NEW rs \in Seq(Requirement)
  PROVE  EncodeOred(rs) \in Seq(Int)
  <1>1. Len(rs) \in Int /\ <<Len(rs)>> \in Seq(Int)
    OBVIOUS
  <1>2. EncodeRequirements(rs) \in Seq(Int)
    BY EncodeRequirementsAppend
  <1> QED
    BY <1>1, <1>2, Concat, Zenon DEF EncodeOred

LEMMA EncodeGroupsAppend ==
  ASSUME NEW groups \in Seq(Seq(Requirement))
  PROVE  /\ EncodeGroups(groups) \in Seq(Int)
         /\ \A rs \in Seq(Requirement) :
              EncodeGroups(Append(groups, rs)) = EncodeGroups(groups) \o EncodeOred(rs)
  <1> DEFINE ss == [i \in DOMAIN groups |-> EncodeOred(groups[i])]
  <1>1. ss \in Seq(Seq(Int)) /\ Len(ss) = Len(groups) /\ \A i \in 1..Len(groups) : ss[i] = EncodeOred(groups[i])
    <2>1. \A i \in 1..Len(groups) : EncodeOred(groups[i]) \in Seq(Int)
      BY EncodeOredType
    <2>2. ss = [i \in 1..Len(groups) |-> EncodeOred(groups[i])] /\ Len(groups) \in Nat
      OBVIOUS
    <2>3. ss = [i \in 1..Len(groups) |-> ss[i]] /\ \A i \in 1..Len(groups) : ss[i] = EncodeOred(groups[i])
      BY <2>2
    <2> HIDE DEF ss
    <2> QED
      BY <2>1, <2>2, <2>3, MapIs
  <1>2. EncodeGroups(groups) = FlattenSeq(ss)
    BY DEF EncodeGroups
  <1> HIDE DEF ss
  <1>3. FlattenSeq(ss) \in Seq(Int)
    BY <1>1, FlattenType
  <1>4. ASSUME NEW rs \in Seq(Requirement)
        PROVE  EncodeGroups(Append(groups, rs)) = EncodeGroups(groups) \o EncodeOred(rs)
    <2> DEFINE tt == [i \in DOMAIN Append(groups, rs) |-> EncodeOred(Append(groups, rs)[i])]
               x == EncodeOred(rs)
    <2>1. DOMAIN tt = 1..Len(groups) + 1 /\ (\A i \in 1..Len(groups) : tt[i] = EncodeOred(groups[i]))
          /\ tt[Len(groups) + 1] = x
      OBVIOUS
    <2>2. x \in Seq(Int)
      BY EncodeOredType
    <2>3. tt = [i \in 1..Len(groups) + 1 |-> tt[i]]
      BY <2>1
    <2>4. EncodeGroups(Append(groups, rs)) = FlattenSeq(tt)
      BY DEF EncodeGroups
    <2> HIDE DEF tt, x
    <2>5. tt = Append(ss, x)
      <3>1. /\ tt = [i \in 1..Len(ss) + 1 |-> tt[i]] /\ tt[Len(ss) + 1] = x
            /\ \A i \in 1..Len(ss) : tt[i] = ss[i]
        BY <1>1, <2>1, <2>3
      <3>2. ss \in Seq(Seq(Int))
        BY <1>1
      <3>3. \A t : /\ t = [i \in 1..Len(ss) + 1 |-> t[i]] /\ t[Len(ss) + 1] = x
                   /\ \A i \in 1..Len(ss) : t[i] = ss[i]
                   => t = Append(ss, x)
        BY <2>2, <3>2, AppendIs
      <3> QED
        BY <3>1, <3>3
    <2>6. FlattenSeq(Append(ss, x)) = FlattenSeq(ss) \o x
      BY <1>1, <2>2, FlattenAppend
    <2> QED
      BY <1>2, <2>4, <2>5, <2>6 DEF x
  <1> QED
    BY <1>2, <1>3, <1>4

LEMMA EncodeEmpty == EncodeRequirements(<<>>) = <<>> /\ EncodeGroups(<<>>) = <<>>
  <1>1. [i \in DOMAIN <<>> |-> EncodeRequirement(<<>>[i])] = <<>>
    OBVIOUS
  <1>2. [i \in DOMAIN <<>> |-> EncodeOred(<<>>[i])] = <<>>
    OBVIOUS
  <1> QED
    BY <1>1, <1>2, FlattenEmpty DEF EncodeRequirements, EncodeGroups

\* What was parsed as a requirement encodes as the bytes it was parsed from.
LEMMA ParsedRequirement ==
  ASSUME NEW v \in VariableIdentifiers, NEW op \in Byte, NEW bs \in Seq(Byte),
         Len(bs) = (IF v = LIGHT_INTENSITY THEN 4 ELSE 2),
         NEW last \in BOOLEAN,
         NEW q, q = [variable |-> v, operator |-> op, value |-> ConstraintValue(v, bs), last |-> last]
  PROVE  EncodeRequirement(q) = <<v, op>> \o bs
  <1>1. q.variable = v /\ q.operator = op /\ q.value = ConstraintValue(v, bs)
    OBVIOUS
  <1>2. CASE v = LIGHT_INTENSITY
    <2>1. Len(bs) = 4 /\ v # TEMPERATURE
      BY <1>2 DEF LIGHT_INTENSITY, TEMPERATURE
    <2>2. Bytes(LittleEndian(bs), 4) = bs
      BY <2>1, FourBytesBack
    <2>3. EncodeRequirement(q) = <<v, op>> \o Bytes(q.value, 4)
      BY <1>1, <1>2 DEF EncodeRequirement
    <2> QED
      BY <1>1, <2>1, <2>2, <2>3 DEF ConstraintValue
  <1>3. CASE v # LIGHT_INTENSITY
    <2>1. Len(bs) = 2
      BY <1>3
    <2>2. Bytes(LittleEndian(bs), 2) = bs /\ Bytes(Signed16(LittleEndian(bs)), 2) = bs
      BY <2>1, TwoBytesBack
    <2>3. EncodeRequirement(q) = <<v, op>> \o Bytes(q.value, 2)
      BY <1>1, <1>3 DEF EncodeRequirement
    <2>4. Bytes(ConstraintValue(v, bs), 2) = bs
      BY <2>2 DEF ConstraintValue
    <2> QED
      BY <1>1, <2>3, <2>4
  <1> QED
    BY <1>2, <1>3

-----------------------------------------------------------------------------
(* Groups                                                                   *)

\* The complete groups that reqs has been cut into.
Closed(groups, reqs, n) == n \in Nat /\ groups \in Groupings(reqs, n) /\ FlagsMark(groups)

\* How reqs is cut into n groups: the i-th one ends at c[i].
IsCut(c, reqs, n) ==
  /\ c \in [0..n -> 0..Len(reqs)]
  /\ c[0] = 0 /\ c[n] = Len(reqs) /\ \A i \in 1..n : c[i - 1] <= c[i]

Cut(c, reqs, n) == [i \in 1..n |-> SubSeq(reqs, c[i - 1] + 1, c[i])]

LEMMA GroupingsAre ==
  ASSUME NEW reqs, NEW n
  PROVE  \A groups : groups \in Groupings(reqs, n) <=> \E c : IsCut(c, reqs, n) /\ groups = Cut(c, reqs, n)
  BY DEF Groupings, IsCut, Cut

LEMMA CutRange ==
  ASSUME NEW S, NEW reqs \in Seq(S), NEW n \in Nat, NEW c, IsCut(c, reqs, n), NEW i \in 1..n
  PROVE  c[i - 1] + 1 \in 1..Len(reqs) + 1 /\ c[i] \in (c[i - 1] + 1) - 1..Len(reqs)
  <1>1. i \in 0..n /\ i - 1 \in 0..n
    OBVIOUS
  <1>2. c[i] \in 0..Len(reqs) /\ c[i - 1] \in 0..Len(reqs) /\ c[i - 1] <= c[i]
    BY <1>1 DEF IsCut
  <1> QED
    BY <1>2

LEMMA ClosedType ==
  ASSUME NEW reqs \in Seq(Requirement), NEW groups, NEW n, Closed(groups, reqs, n)
  PROVE  groups \in Seq(Seq(Requirement)) /\ Len(groups) = n /\ n \in Nat
  <1>1. n \in Nat /\ groups \in Groupings(reqs, n)
    BY DEF Closed
  <1>2. PICK c : IsCut(c, reqs, n) /\ groups = Cut(c, reqs, n)
    BY <1>1, GroupingsAre
  <1>3. groups = [i \in 1..n |-> groups[i]] /\ \A i \in 1..n : groups[i] = SubSeq(reqs, c[i - 1] + 1, c[i])
    BY <1>2 DEF Cut
  <1>4. ASSUME NEW i \in 1..n
        PROVE  groups[i] \in Seq(Requirement)
    <2>1. c[i - 1] + 1 \in 1..Len(reqs) + 1 /\ c[i] \in (c[i - 1] + 1) - 1..Len(reqs)
      BY <1>1, <1>2, CutRange
    <2>2. SubSeq(reqs, c[i - 1] + 1, c[i]) \in Seq(Requirement)
      BY <2>1, SubSeqOfConcat
    <2> QED
      BY <1>3, <2>2
  <1> QED
    BY <1>1, <1>3, <1>4, MapIs

LEMMA ClosedEmpty == Closed(<<>>, <<>>, 0)
  <1> DEFINE c == [i \in 0..0 |-> 0]
  <1>1. IsCut(c, <<>>, 0)
    BY DEF IsCut
  <1>2. Cut(c, <<>>, 0) = <<>>
    BY DEF Cut
  <1> HIDE DEF c
  <1>3. <<>> \in Groupings(<<>>, 0)
    BY <1>1, <1>2, GroupingsAre
  <1>4. FlagsMark(<<>>)
    BY DEF FlagsMark
  <1> QED
    BY <1>3, <1>4 DEF Closed

LEMMA CloseGroup ==
  ASSUME NEW p \in Seq(Requirement), NEW rs \in Seq(Requirement), NEW groups, NEW n,
         Closed(groups, p, n), \A j \in DOMAIN rs : rs[j].last = (j = Len(rs))
  PROVE  Closed(Append(groups, rs), p \o rs, n + 1)
  <1> DEFINE more == Append(groups, rs)
             all == p \o rs
  <1>1. groups \in Seq(Seq(Requirement)) /\ Len(groups) = n /\ n \in Nat
    BY ClosedType
  <1>2. PICK c : IsCut(c, p, n) /\ groups = Cut(c, p, n)
    BY GroupingsAre DEF Closed
  <1>3. all \in Seq(Requirement) /\ Len(all) = Len(p) + Len(rs) /\ Len(p) \in Nat /\ Len(rs) \in Nat
    OBVIOUS
  <1> DEFINE d == [i \in 0..n + 1 |-> IF i <= n THEN c[i] ELSE Len(all)]
  <1>4. /\ \A i \in 0..n : d[i] = c[i] /\ c[i] \in 0..Len(p)
        /\ d[n + 1] = Len(all) /\ DOMAIN d = 0..n + 1
    BY <1>1, <1>2 DEF IsCut
  <1>5. d \in [0..n + 1 -> 0..Len(all)]
    <2>1. \A i \in 0..n + 1 : i \in 0..n \/ i = n + 1
      BY <1>1
    <2>2. \A i \in 0..n + 1 : d[i] \in 0..Len(all)
      <3> HIDE DEF d, all
      <3> QED
        BY <1>3, <1>4, <2>1
    <2> QED
      BY <2>2
  <1> HIDE DEF d, all
  <1>6. IsCut(d, all, n + 1)
    <2>1. d[0] = 0
      BY <1>1, <1>2, <1>4 DEF IsCut
    <2>2. ASSUME NEW i \in 1..n + 1
          PROVE  d[i - 1] <= d[i]
      <3>1. CASE i = n + 1
        <4>1. i - 1 = n /\ n \in 0..n
          BY <1>1, <3>1
        <4>2. d[i - 1] = Len(p)
          BY <1>2, <1>4, <4>1 DEF IsCut
        <4> QED
          BY <1>3, <1>4, <3>1, <4>2
      <3>2. CASE i \in 1..n
        <4>1. i \in 0..n /\ i - 1 \in 0..n
          BY <1>1, <3>2
        <4> QED
          BY <1>2, <1>4, <3>2, <4>1 DEF IsCut
      <3> QED
        BY <1>1, <3>1, <3>2
    <2> QED
      BY <1>4, <1>5, <2>1, <2>2 DEF IsCut
  <1>7. more = Cut(d, all, n + 1)
    <2> DEFINE t == Cut(d, all, n + 1)
    <2>1. t = [i \in 1..n + 1 |-> t[i]] /\ \A i \in 1..n + 1 : t[i] = SubSeq(all, d[i - 1] + 1, d[i])
      BY DEF Cut
    <2> HIDE DEF t
    <2>2. t[n + 1] = rs
      <3>1. n + 1 \in 1..n + 1 /\ (n + 1) - 1 = n /\ n \in 0..n
        BY <1>1
      <3>2. d[n] = Len(p)
        BY <1>2, <1>4, <3>1 DEF IsCut
      <3>3. t[n + 1] = SubSeq(all, Len(p) + 1, Len(p) + Len(rs))
        BY <1>3, <1>4, <2>1, <3>1, <3>2
      <3>4. SubSeq(p \o rs, Len(p) + 1, Len(p) + Len(rs)) = rs
        OBVIOUS
      <3> QED
        BY <3>3, <3>4 DEF all
    <2>3. ASSUME NEW i \in 1..n
          PROVE  t[i] = groups[i]
      <3>1. i \in 1..n + 1 /\ i \in 0..n /\ i - 1 \in 0..n
        BY <1>1
      <3>2. t[i] = SubSeq(all, c[i - 1] + 1, c[i])
        BY <1>4, <2>1, <3>1
      <3>3. groups[i] = SubSeq(p, c[i - 1] + 1, c[i])
        BY <1>2 DEF Cut
      <3>4. c[i - 1] + 1 \in 1..Len(p) + 1 /\ c[i] \in (c[i - 1] + 1) - 1..Len(p)
        BY <1>1, <1>2, CutRange
      <3>5. SubSeq(p \o rs, c[i - 1] + 1, c[i]) = SubSeq(p, c[i - 1] + 1, c[i])
        <4> DEFINE a == c[i - 1] + 1
                   b == c[i]
        <4>1. a \in 1..Len(p) + 1 /\ b \in a - 1..Len(p)
          BY <3>4
        <4> HIDE DEF a, b
        <4>2. SubSeq(p \o rs, a, b) = SubSeq(p, a, b)
          BY <4>1, SubSeqOfConcat
        <4> QED
          BY <4>2 DEF a, b
      <3> QED
        BY <3>2, <3>3, <3>5 DEF all
    <2>4. t = Append(groups, rs)
      <3>1. /\ t = [i \in 1..Len(groups) + 1 |-> t[i]] /\ t[Len(groups) + 1] = rs
            /\ \A i \in 1..Len(groups) : t[i] = groups[i]
        BY <1>1, <2>1, <2>2, <2>3
      <3>2. \A u : /\ u = [i \in 1..Len(groups) + 1 |-> u[i]] /\ u[Len(groups) + 1] = rs
                   /\ \A i \in 1..Len(groups) : u[i] = groups[i]
                   => u = Append(groups, rs)
        <4> DEFINE S == Seq(Requirement)
        <4>1. groups \in Seq(S) /\ rs \in S
          BY <1>1
        <4> HIDE DEF S
        <4> QED
          BY <4>1, AppendIs
      <3> QED
        BY <3>1, <3>2
    <2> QED
      BY <2>4 DEF t
  <1>8. FlagsMark(more)
    <2>1. DOMAIN more = 1..n + 1 /\ more[n + 1] = rs /\ \A i \in 1..n : more[i] = groups[i]
      BY <1>1
    <2>2. \A i \in 1..n : \A j \in DOMAIN groups[i] : groups[i][j].last = (j = Len(groups[i]))
      <3>1. DOMAIN groups = 1..n
        BY <1>1
      <3> QED
        BY <3>1, Zenon DEF Closed, FlagsMark
    <2> HIDE DEF more
    <2>3. ASSUME NEW i \in 1..n + 1, NEW j \in DOMAIN more[i]
          PROVE  more[i][j].last = (j = Len(more[i]))
      <3>1. CASE i = n + 1
        BY <2>1, <3>1
      <3>2. CASE i \in 1..n
        BY <2>1, <2>2, <3>2
      <3> QED
        BY <1>1, <3>1, <3>2
    <2> QED
      BY <2>1, <2>3 DEF FlagsMark
  <1>9. more \in Groupings(all, n + 1)
    BY <1>6, <1>7, GroupingsAre
  <1> QED
    BY <1>1, <1>8, <1>9 DEF Closed, all

-----------------------------------------------------------------------------
(* What the bytes of a message say                                          *)

\* Concatenation under a name of its own, for the provers to see through or not.
Cat(s, t) == s \o t

LEMMA CatAssoc ==
  ASSUME NEW S
  PROVE  /\ \A s, t, u \in Seq(S) : Cat(Cat(s, t), u) = Cat(s, Cat(t, u))
         /\ \A s, t \in Seq(S) : Cat(s, t) \in Seq(S)
  <1>1. ASSUME NEW s \in Seq(S), NEW t \in Seq(S), NEW u \in Seq(S)
        PROVE  Cat(Cat(s, t), u) = Cat(s, Cat(t, u))
    BY DEF Cat
  <1>2. ASSUME NEW s \in Seq(S), NEW t \in Seq(S)
        PROVE  Cat(s, t) \in Seq(S)
    BY DEF Cat
  <1> QED
    BY <1>1, <1>2

LEMMA Cat4 ==
  ASSUME NEW S, NEW s \in Seq(S), NEW t \in Seq(S), NEW u \in Seq(S), NEW v \in Seq(S)
  PROVE  Cat(Cat(Cat(s, t), u), v) = Cat(s, Cat(t, Cat(u, v)))
  BY CatAssoc

LEMMA CatAppend ==
  ASSUME NEW S, NEW s \in Seq(S), NEW t \in Seq(S), NEW x \in S
  PROVE  Append(Cat(s, t), x) = Cat(s, Append(t, x))
  BY DEF Cat

LEMMA Ints ==
  /\ \A s, t, u \in Seq(Int) : (s \o t) \o u = s \o (t \o u)
  /\ \A s, t \in Seq(Int) : s \o t \in Seq(Int) /\ Len(s \o t) = Len(s) + Len(t)
  /\ \A s \in Seq(Int) : s \o <<>> = s /\ Len(s) \in Nat
  /\ \A i \in Int : <<i>> \in Seq(Int) /\ Len(<<i>>) = 1
  /\ <<>> \in Seq(Int)
  <1>1. \A s, t, u \in Seq(Int) : (s \o t) \o u = s \o (t \o u)
    BY ConcatAssoc
  <1>2. \A s, t \in Seq(Int) : s \o t \in Seq(Int) /\ Len(s \o t) = Len(s) + Len(t)
    OBVIOUS
  <1>3. \A s \in Seq(Int) : s \o <<>> = s /\ Len(s) \in Nat
    BY ConcatEmpty
  <1>4. \A i \in Int : <<i>> \in Seq(Int) /\ Len(<<i>>) = 1
    OBVIOUS
  <1> QED
    BY <1>1, <1>2, <1>3, <1>4

\* bs is a message so far that begins with the header h, whose requirements so far
\* are reqs, all of them in complete groups, with `left' groups to come.
Complete(h, reqs, bs, left) ==
  \E n, groups :
    /\ Closed(groups, reqs, n) /\ n < Len(bs)
    /\ bs = h \o <<n + left>> \o EncodeGroups(groups)

\* The same in the middle of a group, with r requirements to come in this one; the
\* last bytes are the beginning of the next requirement.
Within(h, reqs, bs, left, r, rest) ==
  \E n, groups, p, rs :
    /\ reqs = p \o rs /\ p \in Seq(Requirement) /\ rs \in Seq(Requirement)
    /\ Closed(groups, p, n) /\ n + 1 < Len(bs)
    /\ \A j \in DOMAIN rs : rs[j].last = FALSE
    /\ bs = h \o <<n + 1 + left>> \o EncodeGroups(groups)
              \o <<Len(rs) + r>> \o EncodeRequirements(rs) \o rest

LEMMA NoGroupYet ==
  ASSUME NEW h \in Seq(Int), NEW b \in Nat
  PROVE  Complete(h, <<>>, h \o <<b>>, b)
  <1> DEFINE bs == h \o <<b>>
  <1>1. bs \in Seq(Int) /\ Len(bs) = Len(h) + 1 /\ Len(h) \in Nat
    BY Ints
  <1>2. 0 < Len(bs) /\ 0 + b = b
    BY <1>1
  <1>3. bs = h \o <<0 + b>> \o EncodeGroups(<<>>)
    BY <1>1, <1>2, EncodeEmpty, Ints
  <1> HIDE DEF bs
  <1>4. Closed(<<>>, <<>>, 0)
    BY ClosedEmpty
  <1>5. Complete(h, <<>>, bs, b)
    BY <1>2, <1>3, <1>4, Zenon DEF Complete
  <1> QED
    BY <1>5 DEF bs

LEMMA GroupBegins ==
  ASSUME NEW h \in Seq(Int), NEW reqs \in Seq(Requirement), NEW bs \in Seq(Int), NEW left \in Nat,
         left > 0, NEW b \in Nat, Complete(h, reqs, bs, left)
  PROVE  Within(h, reqs, bs \o <<b>>, left - 1, b, <<>>)
  <1>1. PICK n, groups : /\ Closed(groups, reqs, n) /\ n < Len(bs)
                         /\ bs = h \o <<n + left>> \o EncodeGroups(groups)
    BY Zenon DEF Complete
  <1>2. n \in Nat
    BY <1>1, ClosedType
  <1>3. /\ n + 1 + (left - 1) = n + left /\ Len(<<>>) + b = b
        /\ n + 1 < Len(bs \o <<b>>) /\ bs \o <<b>> \in Seq(Int)
    BY <1>1, <1>2, Ints
  <1>4. bs \o <<b>> = h \o <<n + 1 + (left - 1)>> \o EncodeGroups(groups)
                        \o <<Len(<<>>) + b>> \o EncodeRequirements(<<>>) \o <<>>
    BY <1>1, <1>3, EncodeEmpty, Ints
  <1>5. reqs = reqs \o <<>> /\ <<>> \in Seq(Requirement) /\ \A j \in DOMAIN <<>> : <<>>[j].last = FALSE
    OBVIOUS
  <1> QED
    BY <1>1, <1>3, <1>4, <1>5, Zenon DEF Within

\* The bytes before the requirements of the group that is being read.
UpToGroup(h, groups, n, left, k) ==
  h \o <<n + 1 + left>> \o EncodeGroups(groups) \o <<k>>

LEMMA UpToGroupType ==
  ASSUME NEW h \in Seq(Int), NEW p \in Seq(Requirement), NEW groups, NEW n, Closed(groups, p, n),
         NEW left \in Nat, NEW k \in Nat
  PROVE  /\ n \in Nat /\ EncodeGroups(groups) \in Seq(Int)
         /\ h \o <<n + 1 + left>> \in Seq(Int) /\ UpToGroup(h, groups, n, left, k) \in Seq(Int)
  <1>1. groups \in Seq(Seq(Requirement)) /\ n \in Nat
    BY ClosedType
  <1>2. EncodeGroups(groups) \in Seq(Int)
    BY <1>1, EncodeGroupsAppend
  <1>3. <<n + 1 + left>> \in Seq(Int) /\ <<k>> \in Seq(Int)
    BY <1>1
  <1> QED
    BY <1>1, <1>2, <1>3, Ints DEF UpToGroup

LEMMA RequirementBegins ==
  ASSUME NEW h \in Seq(Int), NEW reqs, NEW bs \in Seq(Int), NEW left \in Nat, NEW r \in Nat,
         NEW rest \in Seq(Int), Within(h, reqs, bs, left, r, <<>>)
  PROVE  Within(h, reqs, bs \o rest, left, r, rest)
  <1>1. PICK n, groups, p, rs :
          /\ reqs = p \o rs /\ p \in Seq(Requirement) /\ rs \in Seq(Requirement)
          /\ Closed(groups, p, n) /\ n + 1 < Len(bs)
          /\ \A j \in DOMAIN rs : rs[j].last = FALSE
          /\ bs = UpToGroup(h, groups, n, left, Len(rs) + r) \o EncodeRequirements(rs) \o <<>>
    BY Zenon DEF Within, UpToGroup
  <1> DEFINE w == UpToGroup(h, groups, n, left, Len(rs) + r)
             e == EncodeRequirements(rs)
  <1>2. n \in Nat /\ w \in Seq(Int) /\ e \in Seq(Int)
    <2>1. Len(rs) + r \in Nat
      BY <1>1
    <2> QED
      BY <1>1, <2>1, UpToGroupType, EncodeRequirementsAppend
  <1>3. bs = w \o e \o <<>>
    BY <1>1
  <1> HIDE DEF w, e
  <1>4. n + 1 < Len(bs \o rest)
    BY <1>1, <1>2, Ints
  <1>5. bs \o rest = w \o e \o rest
    BY <1>2, <1>3, Ints
  <1> QED
    BY <1>1, <1>4, <1>5, Zenon DEF Within, UpToGroup, w, e

\* A requirement has been read, and it is not the last one of its group.
LEMMA RequirementRead ==
  ASSUME NEW h \in Seq(Int), NEW reqs, NEW bs \in Seq(Int), NEW left \in Nat, NEW r \in Nat, r > 1,
         NEW rest \in Seq(Int), Within(h, reqs, bs, left, r, rest),
         NEW q \in Requirement, NEW x \in Seq(Int), EncodeRequirement(q) = rest \o x, q.last = FALSE
  PROVE  Within(h, Append(reqs, q), bs \o x, left, r - 1, <<>>)
  <1>1. PICK n, groups, p, rs :
          /\ reqs = p \o rs /\ p \in Seq(Requirement) /\ rs \in Seq(Requirement)
          /\ Closed(groups, p, n) /\ n + 1 < Len(bs)
          /\ \A j \in DOMAIN rs : rs[j].last = FALSE
          /\ bs = UpToGroup(h, groups, n, left, Len(rs) + r) \o EncodeRequirements(rs) \o rest
    BY Zenon DEF Within, UpToGroup
  <1> DEFINE w == UpToGroup(h, groups, n, left, Len(rs) + r)
             e == EncodeRequirements(rs)
             rs2 == Append(rs, q)
  <1>2. n \in Nat /\ w \in Seq(Int) /\ e \in Seq(Int)
    <2>1. Len(rs) + r \in Nat
      BY <1>1
    <2> QED
      BY <1>1, <2>1, UpToGroupType, EncodeRequirementsAppend
  <1>3. bs = w \o e \o rest
    BY <1>1
  <1>4. EncodeRequirements(rs2) = e \o EncodeRequirement(q)
    BY <1>1, EncodeRequirementsAppend
  <1>20. /\ Append(p \o rs, q) = p \o rs2 /\ rs2 \in Seq(Requirement)
        /\ Len(rs2) = Len(rs) + 1 /\ Len(rs) \in Nat
        /\ DOMAIN rs2 = 1..Len(rs) + 1 /\ rs2[Len(rs) + 1] = q
        /\ \A j \in 1..Len(rs) : j \in DOMAIN rs /\ rs2[j] = rs[j]
    <2>1. p \in Seq(Requirement) /\ rs \in Seq(Requirement)
      BY <1>1
    <2>2. Append(p \o rs, q) = p \o Append(rs, q)
      <3>1. Append(Cat(p, rs), q) = Cat(p, Append(rs, q))
        BY <2>1, CatAppend
      <3> QED
        BY <3>1, Zenon DEF Cat
    <2>3. /\ rs2 \in Seq(Requirement) /\ Len(rs2) = Len(rs) + 1 /\ Len(rs) \in Nat
          /\ DOMAIN rs2 = 1..Len(rs) + 1 /\ rs2[Len(rs) + 1] = q
      BY <2>1
    <2>4. \A j \in 1..Len(rs) : j \in DOMAIN rs /\ rs2[j] = rs[j]
      BY <2>1
    <2> QED
      BY <2>2, <2>3, <2>4
  <1>5. /\ Append(reqs, q) = p \o rs2 /\ rs2 \in Seq(Requirement) /\ Len(rs2) = Len(rs) + 1
        /\ Len(rs2) + (r - 1) = Len(rs) + r
    BY <1>1, <1>20
  <1>6. \A j \in DOMAIN rs2 : rs2[j].last = FALSE
    <2> HIDE DEF rs2
    <2>1. \A j \in 1..Len(rs) + 1 : j \in 1..Len(rs) \/ j = Len(rs) + 1
      BY <1>20
    <2> QED
      BY <1>1, <1>20, <2>1
  <1> HIDE DEF w, e, rs2
  <1>7. n + 1 < Len(bs \o x)
    BY <1>1, <1>2, Ints
  <1>8. bs \o x = w \o EncodeRequirements(rs2) \o <<>>
    <2>1. ((w \o e) \o rest) \o x = w \o (e \o (rest \o x))
      <3>1. Cat(Cat(Cat(w, e), rest), x) = Cat(w, Cat(e, Cat(rest, x)))
        BY <1>2, Cat4
      <3> QED
        BY <3>1, Zenon DEF Cat
    <2>2. rest \o x \in Seq(Int)
      BY Concat, Zenon
    <2>4. w \o (e \o (rest \o x)) \in Seq(Int)
      BY <1>2, <2>2, Ints
    <2> QED
      BY <1>3, <1>4, <2>1, <2>4, ConcatEmpty, Zenon
  <1>9. bs \o x = UpToGroup(h, groups, n, left, Len(rs2) + (r - 1)) \o EncodeRequirements(rs2) \o <<>>
    BY <1>5, <1>8 DEF w
  <1> QED
    BY <1>1, <1>5, <1>6, <1>7, <1>9, Zenon DEF Within, UpToGroup

\* The end of a group.
LEMMA GroupEnds ==
  ASSUME NEW h \in Seq(Int), NEW p \in Seq(Requirement), NEW rs \in Seq(Requirement),
         NEW groups, NEW n, Closed(groups, p, n), NEW left \in Nat,
         NEW bs \in Seq(Int), n + 1 < Len(bs),
         bs = UpToGroup(h, groups, n, left, Len(rs)) \o EncodeRequirements(rs),
         \A j \in DOMAIN rs : rs[j].last = (j = Len(rs))
  PROVE  Complete(h, p \o rs, bs, left)
  <1> DEFINE g == EncodeGroups(groups)
             c == h \o <<n + 1 + left>>
             e == EncodeRequirements(rs)
             k == <<Len(rs)>>
  <1>1. Len(rs) \in Nat /\ k \in Seq(Int) /\ e \in Seq(Int)
    BY EncodeRequirementsAppend
  <1>2. g \in Seq(Int) /\ c \in Seq(Int) /\ groups \in Seq(Seq(Requirement))
    BY <1>1, UpToGroupType, ClosedType
  <1>3. Closed(Append(groups, rs), p \o rs, n + 1)
    BY CloseGroup
  <1>4. EncodeGroups(Append(groups, rs)) = g \o (k \o e)
    BY <1>2, EncodeGroupsAppend DEF EncodeOred
  <1>5. bs = ((c \o g) \o k) \o e
    BY DEF UpToGroup
  <1> HIDE DEF g, c, e, k
  <1>6. bs = c \o (g \o (k \o e))
    <2>1. Cat(Cat(Cat(c, g), k), e) = Cat(c, Cat(g, Cat(k, e)))
      BY <1>1, <1>2, Cat4
    <2> QED
      BY <1>5, <2>1, Zenon DEF Cat
  <1>7. bs = h \o <<(n + 1) + left>> \o EncodeGroups(Append(groups, rs))
    BY <1>4, <1>6 DEF c
  <1> QED
    BY <1>3, <1>7, Zenon DEF Complete

\* A group without requirements.
LEMMA EmptyGroup ==
  ASSUME NEW h \in Seq(Int), NEW reqs \in Seq(Requirement), NEW bs \in Seq(Int), NEW left \in Nat,
         left > 0, Complete(h, reqs, bs, left)
  PROVE  Complete(h, reqs, bs \o <<0>>, left - 1)
  <1>1. PICK n, groups : /\ Closed(groups, reqs, n) /\ n < Len(bs)
                         /\ bs = h \o <<n + left>> \o EncodeGroups(groups)
    BY Zenon DEF Complete
  <1>2. n \in Nat /\ left - 1 \in Nat /\ n + 1 + (left - 1) = n + left /\ Len(<<>>) = 0
    BY <1>1, ClosedType
  <1>3. bs \o <<0>> \in Seq(Int) /\ n + 1 < Len(bs \o <<0>>)
    BY <1>1, <1>2, Ints
  <1>4. bs \o <<0>> = UpToGroup(h, groups, n, left - 1, Len(<<>>)) \o EncodeRequirements(<<>>)
    BY <1>1, <1>2, <1>3, EncodeEmpty, Ints DEF UpToGroup
  <1>5. <<>> \in Seq(Requirement) /\ (\A j \in DOMAIN <<>> : <<>>[j].last = (j = Len(<<>>)))
        /\ reqs \o <<>> = reqs
    OBVIOUS
  <1>6. Complete(h, reqs \o <<>>, bs \o <<0>>, left - 1)
    BY <1>1, <1>2, <1>3, <1>4, <1>5, GroupEnds
  <1> QED
    BY <1>5, <1>6

\* The last requirement of a group has been read.
LEMMA LastRequirementRead ==
  ASSUME NEW h \in Seq(Int), NEW reqs, NEW bs \in Seq(Int), NEW left \in Nat,
         NEW rest \in Seq(Int), Within(h, reqs, bs, left, 1, rest),
         NEW q \in Requirement, NEW x \in Seq(Int), EncodeRequirement(q) = rest \o x, q.last = TRUE
  PROVE  Complete(h, Append(reqs, q), bs \o x, left)
  <1>1. PICK n, groups, p, rs :
          /\ reqs = p \o rs /\ p \in Seq(Requirement) /\ rs \in Seq(Requirement)
          /\ Closed(groups, p, n) /\ n + 1 < Len(bs)
          /\ \A j \in DOMAIN rs : rs[j].last = FALSE
          /\ bs = UpToGroup(h, groups, n, left, Len(rs) + 1) \o EncodeRequirements(rs) \o rest
    BY Zenon DEF Within, UpToGroup
  <1> DEFINE w == UpToGroup(h, groups, n, left, Len(rs) + 1)
             e == EncodeRequirements(rs)
             rs2 == Append(rs, q)
  <1>2. n \in Nat /\ w \in Seq(Int) /\ e \in Seq(Int)
    <2>1. Len(rs) + 1 \in Nat
      BY <1>1
    <2> QED
      BY <1>1, <2>1, UpToGroupType, EncodeRequirementsAppend
  <1>3. bs = w \o e \o rest
    BY <1>1
  <1>4. EncodeRequirements(rs2) = e \o EncodeRequirement(q)
    BY <1>1, EncodeRequirementsAppend
  <1>20. /\ Append(p \o rs, q) = p \o rs2 /\ rs2 \in Seq(Requirement)
        /\ Len(rs2) = Len(rs) + 1 /\ Len(rs) \in Nat
        /\ DOMAIN rs2 = 1..Len(rs) + 1 /\ rs2[Len(rs) + 1] = q
        /\ \A j \in 1..Len(rs) : j \in DOMAIN rs /\ rs2[j] = rs[j]
    <2>1. p \in Seq(Requirement) /\ rs \in Seq(Requirement)
      BY <1>1
    <2>2. Append(p \o rs, q) = p \o Append(rs, q)
      <3>1. Append(Cat(p, rs), q) = Cat(p, Append(rs, q))
        BY <2>1, CatAppend
      <3> QED
        BY <3>1, Zenon DEF Cat
    <2>3. /\ rs2 \in Seq(Requirement) /\ Len(rs2) = Len(rs) + 1 /\ Len(rs) \in Nat
          /\ DOMAIN rs2 = 1..Len(rs) + 1 /\ rs2[Len(rs) + 1] = q
      BY <2>1
    <2>4. \A j \in 1..Len(rs) : j \in DOMAIN rs /\ rs2[j] = rs[j]
      BY <2>1
    <2> QED
      BY <2>2, <2>3, <2>4
  <1>5. Append(reqs, q) = p \o rs2 /\ rs2 \in Seq(Requirement) /\ Len(rs2) = Len(rs) + 1
    BY <1>1, <1>20
  <1>6. \A j \in DOMAIN rs2 : rs2[j].last = (j = Len(rs2))
    <2>1. /\ DOMAIN rs2 = 1..Len(rs) + 1 /\ rs2[Len(rs) + 1] = q
          /\ \A j \in 1..Len(rs) : rs2[j] = rs[j] /\ rs[j].last = FALSE
      BY <1>1, <1>20
    <2>2. Len(rs) \in Nat
      BY <1>1
    <2> HIDE DEF rs2
    <2>3. ASSUME NEW j \in 1..Len(rs) + 1
          PROVE  rs2[j].last = (j = Len(rs2))
      <3>1. CASE j = Len(rs) + 1
        BY <1>5, <2>1, <3>1
      <3>2. CASE j # Len(rs) + 1
        <4>1. j \in 1..Len(rs)
          BY <2>2, <3>2
        <4>2. rs2[j].last = FALSE
          BY <2>1, <4>1
        <4> QED
          BY <1>5, <3>2, <4>2
      <3> QED
        BY <3>1, <3>2
    <2> QED
      BY <2>1, <2>3
  <1> HIDE DEF w, e, rs2
  <1>7. n + 1 < Len(bs \o x) /\ bs \o x \in Seq(Int)
    BY <1>1, <1>2, Ints
  <1>8. bs \o x = w \o EncodeRequirements(rs2)
    <2>1. ((w \o e) \o rest) \o x = w \o (e \o (rest \o x))
      <3>1. Cat(Cat(Cat(w, e), rest), x) = Cat(w, Cat(e, Cat(rest, x)))
        BY <1>2, Cat4
      <3> QED
        BY <3>1, Zenon DEF Cat
    <2> QED
      BY <1>3, <1>4, <2>1, Zenon
  <1>9. bs \o x = UpToGroup(h, groups, n, left, Len(rs2)) \o EncodeRequirements(rs2)
    BY <1>5, <1>8 DEF w
  <1>10. Complete(h, p \o rs2, bs \o x, left)
    BY <1>1, <1>5, <1>6, <1>7, <1>9, GroupEnds
  <1> QED
    BY <1>5, <1>10

-----------------------------------------------------------------------------
(* The content of a message                                                 *)

\* The header, up to some of its fields.
UpToWarmup(a) == <<ADD_ALERT, a.alert_id>> \o Bytes(a.warmup_period, 4)
UpToCooldown(a) == UpToWarmup(a) \o Bytes(a.cooldown_period, 4)
UpToType(a) == UpToCooldown(a) \o <<NotificationType(a)>>

HeaderFields ==
  {"message_id", "alert_id", "warmup_period", "cooldown_period", "notification_type", "led_color",
   "led_pattern", "num_ored_requirements"}

\* What has been parsed of the header, encoded, is what has been read.
HeaderContent ==
  /\ pc \in HeaderFields => alert.reqs = <<>>
  /\ pc = "alert_id" => bytes = <<ADD_ALERT>>
  /\ pc = "warmup_period" => bytes = <<ADD_ALERT, alert.alert_id>>
  /\ pc = "cooldown_period" => bytes = UpToWarmup(alert)
  /\ pc = "notification_type" => bytes = UpToCooldown(alert)
  /\ pc = "led_color" => alert.led /\ bytes = UpToType(alert)
  /\ pc = "led_pattern" =>
       alert.led /\ UpToType(alert) \in Seq(Int) /\ bytes = UpToType(alert) \o <<alert.led_color>>
  /\ pc = "num_ored_requirements" => bytes = EncodeHeader(alert)

\* The same for the requirements behind the header.
BodyContent ==
  LET h == EncodeHeader(alert) IN
  /\ pc \in {"num_variable_requirements", "variable_identifier", "add_alert"} \cup ValueFields =>
       h \in Seq(Int)
  /\ pc = "num_variable_requirements" => Complete(h, alert.reqs, bytes, ored_left)
  /\ pc = "variable_identifier" => Within(h, alert.reqs, bytes, ored_left, reqs_left, <<>>)
  /\ pc \in ValueFields =>
       Within(h, Front(alert.reqs), bytes, ored_left, reqs_left,
              <<Last(alert.reqs).variable, Last(alert.reqs).operator>>)
  /\ pc = "add_alert" => Complete(h, alert.reqs, bytes, 0)

EndContent ==
  /\ pc = "remove_alert" => bytes = <<REMOVE_ALERT, alert.alert_id>>
  /\ pc \in {"remove_alert", "add_alert"} => Len(bytes) = num_bytes

ContentInv == MessageInv /\ HeaderContent /\ BodyContent /\ EndContent

LEMMA ContentInit == Init => ContentInv
  BY MessageInit
  DEF Init, ContentInv, HeaderContent, BodyContent, EndContent, HeaderFields, ValueFields, EmptyAlert

LEMMA RejectedContent ==
  ASSUME pc' = "rejected"
  PROVE  HeaderContent' /\ BodyContent' /\ EndContent'
  BY DEF HeaderContent, BodyContent, EndContent, HeaderFields, ValueFields

LEMMA ByteSeqs ==
  /\ \A s \in Seq(Byte) : s \in Seq(Int)
  /\ \A b \in Byte : b \in Int /\ <<b>> \in Seq(Int) /\ <<b>> \in Seq(Byte)
  /\ \A s \in Seq(Byte) : Len(s) = 1 => s = <<s[1]>>
  BY ByteFacts

LEMMA ConcatOnes ==
  ASSUME NEW S, NEW s \in Seq(S), NEW t \in Seq(S)
  PROVE  Len(s) = 1 /\ Len(t) = 1 => s \o t = <<s[1], t[1]>>
  <1>1. /\ s \o t \in Seq(S) /\ Len(s \o t) = Len(s) + Len(t)
        /\ \A i \in 1..Len(s) : (s \o t)[i] = s[i]
        /\ \A i \in 1..Len(t) : (s \o t)[Len(s) + i] = t[i]
    OBVIOUS
  <1>2. \A w \in Seq(S) : Len(w) = 2 => w = <<w[1], w[2]>>
    OBVIOUS
  <1> DEFINE w == s \o t
  <1>3. /\ w \in Seq(S) /\ Len(w) = Len(s) + Len(t)
        /\ \A i \in 1..Len(s) : w[i] = s[i]
        /\ \A i \in 1..Len(t) : w[Len(s) + i] = t[i]
    BY <1>1, Zenon
  <1> HIDE DEF w
  <1>4. ASSUME Len(s) = 1, Len(t) = 1
        PROVE  w = <<s[1], t[1]>>
    <2>1. 1 \in 1..Len(s) /\ 1 \in 1..Len(t) /\ Len(s) + 1 = 2 /\ Len(s) + Len(t) = 2
      BY <1>4
    <2>2. w[1] = s[1] /\ w[Len(s) + 1] = t[1]
      BY <1>3, <2>1, Zenon
    <2>3. w[1] = s[1] /\ w[2] = t[1] /\ Len(w) = 2
      BY <1>3, <2>1, <2>2, Zenon
    <2>4. w = <<w[1], w[2]>>
      BY <1>2, <1>3, <2>3, Zenon
    <2> QED
      BY <2>3, <2>4, Zenon
  <1> QED
    BY <1>4, Zenon DEF w

LEMMA Pairs ==
  /\ \A x, y : <<x>> \o <<y>> = <<x, y>>
  /\ \A s \in Seq(Int), x, y \in Int : s \o <<x>> \o <<y>> = s \o <<x, y>>
  <1>1. ASSUME NEW x, NEW y
        PROVE  <<x>> \o <<y>> = <<x, y>>
    <2>1. <<x>> \in Seq({x, y}) /\ <<y>> \in Seq({x, y}) /\ Len(<<x>>) = 1 /\ Len(<<y>>) = 1
      OBVIOUS
    <2>2. <<x>> \o <<y>> = <<<<x>>[1], <<y>>[1]>>
      BY <2>1, ConcatOnes, Zenon
    <2> QED
      BY <2>2
  <1>2. ASSUME NEW s \in Seq(Int), NEW x \in Int, NEW y \in Int
        PROVE  s \o <<x>> \o <<y>> = s \o <<x, y>>
    <2> DEFINE a == <<x>>
               b == <<y>>
    <2>1. a \in Seq(Int) /\ b \in Seq(Int)
      OBVIOUS
    <2> HIDE DEF a, b
    <2>5. Cat(Cat(s, a), b) = Cat(s, Cat(a, b))
      BY <2>1, CatAssoc
    <2>2. Cat(Cat(s, <<x>>), <<y>>) = Cat(s, Cat(<<x>>, <<y>>))
      BY <2>5 DEF a, b
    <2>3. Cat(<<x>>, <<y>>) = <<x, y>>
      BY <1>1 DEF Cat
    <2>4. Cat(Cat(s, <<x>>), <<y>>) = Cat(s, <<x, y>>)
      BY <2>2, <2>3
    <2> QED
      BY <2>4, Zenon DEF Cat
  <1> QED
    BY <1>1, <1>2

LEMMA LastByte ==
  ASSUME NEW s \in Seq(Int), NEW x, Cat(s, <<x>>) \in Seq(Byte)
  PROVE  x \in Byte
  <1>1. Len(s) \in Nat /\ Len(s \o <<x>>) = Len(s) + 1 /\ (s \o <<x>>)[Len(s) + 1] = x
    OBVIOUS
  <1>3. s \o <<x>> \in Seq(Byte)
    BY DEF Cat
  <1>2. Len(s) + 1 \in 1..Len(s \o <<x>>)
    BY <1>1
  <1> QED
    BY <1>1, <1>2, <1>3, ByteFacts

LEMMA HeadContent ==
  ASSUME ContentInv, ReceiveCb \/ HandleRemoveAlertMessage
  PROVE  HeaderContent' /\ BodyContent' /\ EndContent'
  <1>1. CASE Reject
    BY <1>1, RejectedContent DEF Reject
  <1>2. ASSUME NEW bs \in Inputs["message_id"], pc = "message_id", Read(bs),
               pc' = CASE bs[1] = ADD_ALERT    -> "alert_id"
                       [] bs[1] = REMOVE_ALERT -> "removed_id"
                       [] OTHER                -> "rejected",
               UNCHANGED <<num_bytes, alert, ored_left, reqs_left>>
        PROVE  HeaderContent' /\ BodyContent' /\ EndContent'
    <2>1. bs \in Seq(Byte) /\ Len(bs) = 1 /\ bytes = <<>>
      BY <1>2, InputFacts DEF Fields, ContentInv, MessageInv, InBounds
    <2>2. bytes' = <<bs[1]>>
      BY <1>2, <2>1 DEF Read
    <2>3. pc' \in {"alert_id", "removed_id", "rejected"} /\ (pc' = "alert_id" => bs[1] = ADD_ALERT)
      BY <1>2 DEF ADD_ALERT, REMOVE_ALERT
    <2>4. alert'.reqs = <<>>
      BY <1>2 DEF ContentInv, HeaderContent, HeaderFields
    <2> QED
      BY <2>2, <2>3, <2>4 DEF HeaderContent, BodyContent, EndContent, HeaderFields, ValueFields
  <1>3. ASSUME NEW bs \in Inputs["alert_id"], num_bytes = 2, pc = "removed_id", Read(bs),
               alert' = [alert EXCEPT !.alert_id = bs[1]], pc' = "remove_alert",
               UNCHANGED <<num_bytes, ored_left, reqs_left>>
        PROVE  HeaderContent' /\ BodyContent' /\ EndContent'
    <2>1. bs \in Seq(Byte) /\ Len(bs) = 1 /\ bytes = <<REMOVE_ALERT>>
      BY <1>3, InputFacts DEF Fields, ContentInv, MessageInv, InBounds
    <2>2. bs = <<bs[1]>>
      BY <2>1, ByteSeqs
    <2>3. bytes' = <<REMOVE_ALERT, bs[1]>>
      BY <1>3, <2>1, <2>2, Pairs DEF Read
    <2>4. alert'.alert_id = bs[1] /\ Len(bytes') = 2 /\ num_bytes' = 2
      BY <1>3, <2>3 DEF ContentInv, MessageInv, TypeOK, Alert
    <2> QED
      BY <1>3, <2>3, <2>4 DEF HeaderContent, BodyContent, EndContent, HeaderFields, ValueFields
  <1> QED
    BY <1>1, <1>2, <1>3 DEF ReceiveCb, HandleRemoveAlertMessage

\* What a field of fixed length leads to.
LEMMA FieldRead ==
  ASSUME ContentInv,
         NEW field \in {"alert_id", "warmup_period", "cooldown_period", "led_color", "led_pattern"},
         NEW next, ParseField(field, FieldSize(field), next)
  PROVE  \/ pc' = "rejected"
         \/ \E bs \in Seq(Byte) :
              /\ Len(bs) = FieldSize(field) /\ bytes' = bytes \o bs /\ pc' = next
              /\ alert' = [alert EXCEPT ![field] = LittleEndian(bs)]
              /\ FieldSize(field) = 1 => bs = <<bs[1]>> /\ LittleEndian(bs) = bs[1]
              /\ FieldSize(field) = 4 => Bytes(LittleEndian(bs), 4) = bs
  <1>1. CASE Reject
    BY <1>1 DEF Reject
  <1>2. ASSUME NEW bs \in Inputs[field], Read(bs),
               alert' = [alert EXCEPT ![field] = LittleEndian(bs)], pc' = next
        PROVE  \E b \in Seq(Byte) :
                 /\ Len(b) = FieldSize(field) /\ bytes' = bytes \o b /\ pc' = next
                 /\ alert' = [alert EXCEPT ![field] = LittleEndian(b)]
                 /\ FieldSize(field) = 1 => b = <<b[1]>> /\ LittleEndian(b) = b[1]
                 /\ FieldSize(field) = 4 => Bytes(LittleEndian(b), 4) = b
    <2>1. bs \in Seq(Byte) /\ Len(bs) = FieldSize(field)
      BY InputFacts DEF FieldSize, Fields
    <2>2. FieldSize(field) = 1 => bs = <<bs[1]>> /\ LittleEndian(bs) = bs[1]
      BY <2>1, ByteSeqs, LittleEndianType
    <2>3. FieldSize(field) = 4 => Bytes(LittleEndian(bs), 4) = bs
      BY <2>1, FourBytesBack
    <2>4. bytes' = bytes \o bs
      BY <1>2 DEF Read
    <2> QED
      BY <1>2, <2>1, <2>2, <2>3, <2>4, Zenon
  <1> QED
    BY <1>1, <1>2 DEF ParseField

LEMMA HeaderIs ==
  ASSUME NEW a
  PROVE  EncodeHeader(a) = UpToType(a) \o (IF a.led THEN <<a.led_color, a.led_pattern>> ELSE <<>>)
  BY Zenon DEF EncodeHeader, UpToType, UpToCooldown, UpToWarmup

\* The encodings depend on the fields that they encode.
LEMMA HeaderSame ==
  ASSUME NEW a, NEW b, a.alert_id = b.alert_id, a.warmup_period = b.warmup_period
  PROVE  /\ UpToWarmup(a) = UpToWarmup(b)
         /\ a.cooldown_period = b.cooldown_period =>
              /\ UpToCooldown(a) = UpToCooldown(b)
              /\ a.connectivity = b.connectivity /\ a.led = b.led =>
                   /\ UpToType(a) = UpToType(b)
                   /\ a.led_color = b.led_color /\ a.led_pattern = b.led_pattern =>
                        EncodeHeader(a) = EncodeHeader(b)
  <1>1. UpToWarmup(a) = UpToWarmup(b)
    BY DEF UpToWarmup
  <1>2. a.cooldown_period = b.cooldown_period => UpToCooldown(a) = UpToCooldown(b)
    BY <1>1, Zenon DEF UpToCooldown
  <1>3. a.cooldown_period = b.cooldown_period /\ a.connectivity = b.connectivity /\ a.led = b.led
          => UpToType(a) = UpToType(b)
    BY <1>2, Zenon DEF UpToType, NotificationType
  <1> QED
    BY <1>1, <1>2, <1>3, HeaderIs, Zenon

LEMMA ParseAlertIdContent ==
  ASSUME ContentInv, ParseAlertId
  PROVE  HeaderContent' /\ BodyContent' /\ EndContent'
  <1>1. ParseField("alert_id", FieldSize("alert_id"), "warmup_period") /\ FieldSize("alert_id") = 1
    BY DEF ParseAlertId, FieldSize
  <1>2. SUFFICES ASSUME NEW bs \in Seq(Byte), bytes' = bytes \o bs, pc' = "warmup_period",
                        alert' = [alert EXCEPT !.alert_id = bs[1]], bs = <<bs[1]>>
                 PROVE  HeaderContent' /\ BodyContent' /\ EndContent'
    BY <1>1, FieldRead, RejectedContent
  <1>3. bytes = <<ADD_ALERT>> /\ alert.reqs = <<>> /\ alert \in Alert
    BY DEF ParseAlertId, ParseField, ContentInv, HeaderContent, HeaderFields, MessageInv, TypeOK
  <1>4. alert'.alert_id = bs[1] /\ alert'.reqs = <<>>
    BY <1>2, <1>3 DEF Alert
  <1>5. bytes' = <<ADD_ALERT, alert'.alert_id>>
    BY <1>2, <1>3, <1>4, Pairs
  <1> QED
    BY <1>2, <1>4, <1>5 DEF HeaderContent, BodyContent, EndContent, HeaderFields, ValueFields

LEMMA ParseWarmupPeriodContent ==
  ASSUME ContentInv, ParseWarmupPeriod
  PROVE  HeaderContent' /\ BodyContent' /\ EndContent'
  <1>1. ParseField("warmup_period", FieldSize("warmup_period"), "cooldown_period")
        /\ FieldSize("warmup_period") = 4
    BY DEF ParseWarmupPeriod, FieldSize
  <1>2. SUFFICES ASSUME NEW bs \in Seq(Byte), bytes' = bytes \o bs, pc' = "cooldown_period",
                        alert' = [alert EXCEPT !.warmup_period = LittleEndian(bs)],
                        Bytes(LittleEndian(bs), 4) = bs
                 PROVE  HeaderContent' /\ BodyContent' /\ EndContent'
    BY <1>1, FieldRead, RejectedContent
  <1>3. bytes = <<ADD_ALERT, alert.alert_id>> /\ alert.reqs = <<>> /\ alert \in Alert
    BY DEF ParseWarmupPeriod, ParseField, ContentInv, HeaderContent, HeaderFields, MessageInv, TypeOK
  <1>4. /\ alert'.alert_id = alert.alert_id /\ alert'.reqs = <<>>
        /\ alert'.warmup_period = LittleEndian(bs)
    BY <1>2, <1>3 DEF Alert
  <1>5. bytes' = UpToWarmup(alert')
    BY <1>2, <1>3, <1>4, Zenon DEF UpToWarmup
  <1> QED
    BY <1>2, <1>4, <1>5 DEF HeaderContent, BodyContent, EndContent, HeaderFields, ValueFields

LEMMA ParseCooldownPeriodContent ==
  ASSUME ContentInv, ParseCooldownPeriod
  PROVE  HeaderContent' /\ BodyContent' /\ EndContent'
  <1>1. ParseField("cooldown_period", FieldSize("cooldown_period"), "notification_type")
        /\ FieldSize("cooldown_period") = 4
    BY DEF ParseCooldownPeriod, FieldSize
  <1>2. SUFFICES ASSUME NEW bs \in Seq(Byte), bytes' = bytes \o bs, pc' = "notification_type",
                        alert' = [alert EXCEPT !.cooldown_period = LittleEndian(bs)],
                        Bytes(LittleEndian(bs), 4) = bs
                 PROVE  HeaderContent' /\ BodyContent' /\ EndContent'
    BY <1>1, FieldRead, RejectedContent
  <1>3. bytes = UpToWarmup(alert) /\ alert.reqs = <<>> /\ alert \in Alert
    BY DEF ParseCooldownPeriod, ParseField, ContentInv, HeaderContent, HeaderFields, MessageInv, TypeOK
  <1>4. /\ alert'.alert_id = alert.alert_id /\ alert'.warmup_period = alert.warmup_period
        /\ alert'.reqs = <<>> /\ alert'.cooldown_period = LittleEndian(bs)
    BY <1>2, <1>3 DEF Alert
  <1>5. UpToWarmup(alert') = UpToWarmup(alert)
    BY <1>4, HeaderSame, Zenon
  <1>6. bytes' = UpToCooldown(alert')
    BY <1>2, <1>3, <1>4, <1>5, Zenon DEF UpToCooldown
  <1> QED
    BY <1>2, <1>4, <1>6 DEF HeaderContent, BodyContent, EndContent, HeaderFields, ValueFields

LEMMA ParseLedColorContent ==
  ASSUME ContentInv, ParseLedColor
  PROVE  HeaderContent' /\ BodyContent' /\ EndContent'
  <1>1. ParseField("led_color", FieldSize("led_color"), "led_pattern") /\ FieldSize("led_color") = 1
    BY DEF ParseLedColor, FieldSize
  <1>2. SUFFICES ASSUME NEW bs \in Seq(Byte), bytes' = bytes \o bs, pc' = "led_pattern",
                        alert' = [alert EXCEPT !.led_color = bs[1]], bs = <<bs[1]>>
                 PROVE  HeaderContent' /\ BodyContent' /\ EndContent'
    BY <1>1, FieldRead, RejectedContent
  <1>3. /\ alert.led /\ bytes = UpToType(alert) /\ alert.reqs = <<>> /\ alert \in Alert
        /\ bytes \in Seq(Byte)
    BY DEF ParseLedColor, ParseField, ContentInv, HeaderContent, HeaderFields, MessageInv, TypeOK
  <1>4. /\ alert'.alert_id = alert.alert_id /\ alert'.warmup_period = alert.warmup_period
        /\ alert'.reqs = <<>> /\ alert'.cooldown_period = alert.cooldown_period
        /\ alert'.connectivity = alert.connectivity /\ alert'.led = alert.led
        /\ alert'.led_color = bs[1]
    BY <1>2, <1>3 DEF Alert
  <1>5. UpToType(alert') = UpToType(alert)
    BY <1>4, HeaderSame, Zenon
  <1>6. bytes' = UpToType(alert') \o <<alert'.led_color>> /\ UpToType(alert') \in Seq(Int) /\ alert'.led
    BY <1>2, <1>3, <1>4, <1>5, ByteSeqs
  <1> QED
    BY <1>2, <1>4, <1>6 DEF HeaderContent, BodyContent, EndContent, HeaderFields, ValueFields

LEMMA ParseLedPatternContent ==
  ASSUME ContentInv, ParseLedPattern
  PROVE  HeaderContent' /\ BodyContent' /\ EndContent'
  <1>1. ParseField("led_pattern", FieldSize("led_pattern"), "num_ored_requirements")
        /\ FieldSize("led_pattern") = 1
    BY DEF ParseLedPattern, FieldSize
  <1>2. SUFFICES ASSUME NEW bs \in Seq(Byte), bytes' = bytes \o bs, pc' = "num_ored_requirements",
                        alert' = [alert EXCEPT !.led_pattern = bs[1]], bs = <<bs[1]>>, Len(bs) = 1
                 PROVE  HeaderContent' /\ BodyContent' /\ EndContent'
    BY <1>1, FieldRead, RejectedContent
  <1>3. /\ alert.led /\ alert.reqs = <<>> /\ alert \in Alert /\ bytes \in Seq(Byte)
        /\ UpToType(alert) \in Seq(Int) /\ bytes = UpToType(alert) \o <<alert.led_color>>
    BY DEF ParseLedPattern, ParseField, ContentInv, HeaderContent, HeaderFields, MessageInv, TypeOK
  <1>4. /\ alert'.alert_id = alert.alert_id /\ alert'.warmup_period = alert.warmup_period
        /\ alert'.reqs = <<>> /\ alert'.cooldown_period = alert.cooldown_period
        /\ alert'.connectivity = alert.connectivity /\ alert'.led = alert.led
        /\ alert'.led_color = alert.led_color /\ alert'.led_pattern = bs[1]
    BY <1>2, <1>3 DEF Alert
  <1>5. UpToType(alert') = UpToType(alert)
    BY <1>4, HeaderSame, Zenon
  <1>6. alert.led_color \in Int /\ bs[1] \in Int
    <2>1. bs[1] \in Byte
      <3>1. 1 \in 1..Len(bs)
        BY <1>2
      <3> QED
        BY <3>1, ByteFacts, Zenon
    <2>2. alert.led_color \in Byte
      <3>1. UpToType(alert) \in Seq(Int) /\ Cat(UpToType(alert), <<alert.led_color>>) \in Seq(Byte)
        BY <1>3 DEF Cat
      <3> QED
        BY <3>1, LastByte, Zenon
    <2> QED
      BY <2>1, <2>2, ByteFacts
  <1>7. bytes' = UpToType(alert) \o <<alert.led_color, bs[1]>>
    <2>1. bytes' = UpToType(alert) \o <<alert.led_color>> \o <<bs[1]>>
      BY <1>2, <1>3
    <2> QED
      BY <1>3, <1>6, <2>1, Pairs
  <1>8. bytes' = EncodeHeader(alert')
    BY <1>3, <1>4, <1>5, <1>7, HeaderIs, Zenon
  <1> QED
    BY <1>2, <1>4, <1>8 DEF HeaderContent, BodyContent, EndContent, HeaderFields, ValueFields

LEMMA ParseNotificationTypeContent ==
  ASSUME ContentInv, ParseNotificationType
  PROVE  HeaderContent' /\ BodyContent' /\ EndContent'
  <1>1. CASE Reject
    BY <1>1, RejectedContent DEF Reject
  <1>2. ASSUME NEW bs \in Inputs["notification_type"], Read(bs),
               alert' = [alert EXCEPT !.connectivity = bs[1] % 2 = 1, !.led = bs[1] \in {2, 3}],
               pc' = CASE bs[1] > 3            -> "rejected"
                       [] bs[1] \in {2, 3}     -> "led_color"
                       [] OTHER                -> "num_ored_requirements",
               pc = "notification_type"
        PROVE  HeaderContent' /\ BodyContent' /\ EndContent'
    <2>1. bs \in Seq(Byte) /\ Len(bs) = 1 /\ bs[1] \in Byte /\ bs = <<bs[1]>>
      BY InputFacts, ByteSeqs DEF Fields
    <2>2. /\ bytes = UpToCooldown(alert) /\ alert.reqs = <<>> /\ alert \in Alert
          /\ bytes \in Seq(Byte)
      BY <1>2 DEF ContentInv, HeaderContent, HeaderFields, MessageInv, TypeOK
    <2>3. CASE bs[1] > 3
      <3>1. pc' = "rejected"
        BY <1>2, <2>3
      <3> QED
        BY <3>1, RejectedContent
    <2>4. CASE ~(bs[1] > 3)
      <3>1. bs[1] = 0 \/ bs[1] = 1 \/ bs[1] = 2 \/ bs[1] = 3
        BY <2>1, <2>4, ByteFacts
      <3> DEFINE c == bs[1] % 2 = 1
                 l == bs[1] \in {2, 3}
      <3>2. (IF c THEN 1 ELSE 0) + (IF l THEN 2 ELSE 0) = bs[1]
        BY <3>1
      <3>3. c \in BOOLEAN /\ l \in BOOLEAN /\ alert' = [alert EXCEPT !.connectivity = c, !.led = l]
        BY <1>2
      <3>4. pc' = (IF l THEN "led_color" ELSE "num_ored_requirements")
        BY <1>2, <2>4
      <3> HIDE DEF c, l
      <3>5. /\ alert'.alert_id = alert.alert_id /\ alert'.warmup_period = alert.warmup_period
            /\ alert'.reqs = <<>> /\ alert'.cooldown_period = alert.cooldown_period
            /\ alert'.connectivity = c /\ alert'.led = l
        BY <2>2, <3>3 DEF Alert
      <3>6. NotificationType(alert') = bs[1]
        BY <3>2, <3>5 DEF NotificationType
      <3>7. UpToCooldown(alert') = UpToCooldown(alert)
        BY <3>5, HeaderSame, Zenon
      <3>8. bytes' = UpToType(alert')
        BY <1>2, <2>1, <2>2, <3>6, <3>7, Zenon DEF UpToType, Read
      <3>9. bytes' \in Seq(Byte)
        <4>1. bytes \o bs \in Seq(Byte)
          BY <2>1, <2>2, Concat, Zenon
        <4> QED
          BY <1>2, <4>1 DEF Read
      <3>10. ~l => bytes' = EncodeHeader(alert')
        <4>1. bytes' \o <<>> = bytes'
          BY <3>9, ConcatEmpty
        <4> QED
          BY <3>5, <3>8, <4>1, HeaderIs, Zenon
      <3> QED
        BY <3>4, <3>5, <3>8, <3>10
        DEF HeaderContent, BodyContent, EndContent, HeaderFields, ValueFields
    <2> QED
      BY <2>3, <2>4
  <1> QED
    BY <1>1, <1>2 DEF ParseNotificationType

\* A group is complete.
LEMMA GroupDone ==
  ASSUME ored_left' \in Byte, pc' = NextOred(ored_left'), num_bytes' = num_bytes,
         EncodeHeader(alert') \in Seq(Int),
         Complete(EncodeHeader(alert'), alert'.reqs, bytes', ored_left')
  PROVE  HeaderContent' /\ BodyContent' /\ EndContent'
  <1>1. /\ pc' \in {"num_variable_requirements", "rejected", "add_alert"}
        /\ pc' = "add_alert" => ored_left' = 0 /\ Len(bytes') = num_bytes'
    BY NextOredFacts
  <1> QED
    BY <1>1 DEF HeaderContent, BodyContent, EndContent, HeaderFields, ValueFields

LEMMA ParseNumOredRequirementsContent ==
  ASSUME ContentInv, ParseNumOredRequirements
  PROVE  HeaderContent' /\ BodyContent' /\ EndContent'
  <1>1. CASE Reject
    BY <1>1, RejectedContent DEF Reject
  <1>2. ASSUME NEW bs \in Inputs["num_ored_requirements"], Read(bs), ored_left' = bs[1],
               pc' = NextOred(bs[1]), UNCHANGED <<num_bytes, alert, reqs_left>>
        PROVE  HeaderContent' /\ BodyContent' /\ EndContent'
    <2>1. bs \in Seq(Byte) /\ bs[1] \in Byte /\ bs = <<bs[1]>> /\ bs[1] \in Nat
      BY InputFacts, ByteSeqs, ByteFacts DEF Fields
    <2>2. bytes = EncodeHeader(alert) /\ alert.reqs = <<>> /\ bytes \in Seq(Int)
      BY ByteSeqs
      DEF ParseNumOredRequirements, ContentInv, HeaderContent, HeaderFields, MessageInv, TypeOK
    <2>3. bytes' = EncodeHeader(alert) \o <<bs[1]>>
      BY <1>2, <2>1, <2>2, Zenon DEF Read
    <2>4. Complete(EncodeHeader(alert), <<>>, EncodeHeader(alert) \o <<bs[1]>>, bs[1])
      BY <2>1, <2>2, NoGroupYet, Zenon
    <2>5. Complete(EncodeHeader(alert'), alert'.reqs, bytes', ored_left')
      BY <1>2, <2>2, <2>3, <2>4, Zenon
    <2>6. EncodeHeader(alert') \in Seq(Int) /\ ored_left' \in Byte /\ pc' = NextOred(ored_left')
          /\ num_bytes' = num_bytes
      BY <1>2, <2>1, <2>2, Zenon
    <2> QED
      BY <2>5, <2>6, GroupDone
  <1> QED
    BY <1>1, <1>2 DEF ParseNumOredRequirements

LEMMA ParseNumVariableRequirementsContent ==
  ASSUME ContentInv, ParseNumVariableRequirements
  PROVE  HeaderContent' /\ BodyContent' /\ EndContent'
  <1>1. CASE Reject
    BY <1>1, RejectedContent DEF Reject
  <1>2. ASSUME NEW bs \in Inputs["num_variable_requirements"], Read(bs),
               pc = "num_variable_requirements", reqs_left' = bs[1], ored_left' = ored_left - 1,
               pc' = IF bs[1] > 0 THEN NextRequirement(alert.reqs) ELSE NextOred(ored_left'),
               UNCHANGED <<num_bytes, alert>>
        PROVE  HeaderContent' /\ BodyContent' /\ EndContent'
    <2> DEFINE h == EncodeHeader(alert)
    <2>1. bs \in Seq(Byte) /\ bs[1] \in Byte /\ bs = <<bs[1]>> /\ bs[1] \in Nat
      BY InputFacts, ByteSeqs, ByteFacts DEF Fields
    <2>2. /\ h \in Seq(Int) /\ Complete(h, alert.reqs, bytes, ored_left)
          /\ alert.reqs \in Seq(Requirement) /\ bytes \in Seq(Byte) /\ ored_left > 0
          /\ ored_left \in Byte
      BY <1>2
      DEF ContentInv, BodyContent, MessageInv, TypeOK, ReqsComplete, InBounds, Fields, ValueFields
    <2>3. ored_left \in Nat /\ ored_left' \in Byte /\ bytes \in Seq(Int)
      <3>1. bytes \in Seq(Int)
        BY <2>2, ByteSeqs
      <3>2. ored_left \in Byte /\ ored_left > 0 /\ ored_left' = ored_left - 1
        BY <1>2, <2>2
      <3>3. ored_left \in Nat /\ ored_left' \in Byte
        BY <3>2, SMT DEF Byte
      <3> QED
        BY <3>1, <3>3
    <2>4. bytes' = bytes \o <<bs[1]>>
      BY <1>2, <2>1, Zenon DEF Read
    <2>5. h = EncodeHeader(alert') /\ alert'.reqs = alert.reqs
      BY <1>2
    <2> HIDE DEF h
    <2>6. CASE bs[1] > 0
      <3>1. Within(h, alert.reqs, bytes \o <<bs[1]>>, ored_left - 1, bs[1], <<>>)
        BY <2>1, <2>2, <2>3, GroupBegins, Zenon
      <3>2. Within(h, alert'.reqs, bytes', ored_left', reqs_left', <<>>)
        BY <1>2, <2>4, <2>5, <3>1, Zenon
      <3>3. pc' \in {"rejected", "variable_identifier"}
        BY <1>2, <2>6 DEF NextRequirement
      <3> QED
        BY <2>2, <2>5, <3>2, <3>3
        DEF HeaderContent, BodyContent, EndContent, HeaderFields, ValueFields
    <2>7. CASE ~(bs[1] > 0)
      <3>1. bs[1] = 0 /\ pc' = NextOred(ored_left') /\ num_bytes' = num_bytes
        BY <1>2, <2>1, <2>7
      <3>2. Complete(h, alert.reqs, bytes \o <<0>>, ored_left - 1)
        BY <2>2, <2>3, EmptyGroup, Zenon
      <3>3. Complete(EncodeHeader(alert'), alert'.reqs, bytes', ored_left')
        BY <1>2, <2>4, <2>5, <3>1, <3>2, Zenon
      <3>4. EncodeHeader(alert') \in Seq(Int)
        BY <2>2, <2>5
      <3> QED
        BY <2>3, <3>1, <3>3, <3>4, GroupDone
    <2> QED
      BY <2>6, <2>7
  <1> QED
    BY <1>1, <1>2 DEF ParseNumVariableRequirements

LEMMA ParseVariableIdentifierContent ==
  ASSUME ContentInv, ParseVariableIdentifier
  PROVE  HeaderContent' /\ BodyContent' /\ EndContent'
  <1>1. CASE Reject
    BY <1>1, RejectedContent DEF Reject
  <1>2. ASSUME NEW bs \in Inputs["variable_identifier"], NEW op \in Inputs["operator"],
               Read(bs \o op), pc = "variable_identifier",
               alert' = [alert EXCEPT !.reqs =
                           Append(@, [variable |-> bs[1], operator |-> op[1]])],
               pc' = IF bs[1] \in VariableIdentifiers THEN ValueField(bs[1]) ELSE "rejected",
               UNCHANGED <<num_bytes, ored_left, reqs_left>>
        PROVE  HeaderContent' /\ BodyContent' /\ EndContent'
    <2> DEFINE h == EncodeHeader(alert)
               r == [variable |-> bs[1], operator |-> op[1]]
               rest == <<bs[1], op[1]>>
    <2>1. /\ bs = <<bs[1]>> /\ op = <<op[1]>> /\ bs[1] \in Int /\ op[1] \in Int
          /\ r.variable = bs[1] /\ r.operator = op[1]
      BY InputFacts, ByteSeqs DEF Fields
    <2>2. /\ h \in Seq(Int) /\ Within(h, alert.reqs, bytes, ored_left, reqs_left, <<>>)
          /\ alert \in Alert /\ alert.reqs \in Seq(Requirement) /\ bytes \in Seq(Byte)
          /\ ored_left \in Byte /\ reqs_left \in Byte
      BY <1>2
      DEF ContentInv, BodyContent, MessageInv, TypeOK, ReqsComplete, Fields, ValueFields
    <2>3. /\ ored_left \in Nat /\ reqs_left \in Nat /\ bytes \in Seq(Int) /\ rest \in Seq(Int)
      BY <2>1, <2>2, ByteSeqs, ByteFacts
    <2>4. bytes' = bytes \o rest
      <3>1. bs \o op = rest
        BY <2>1, Pairs
      <3> QED
        BY <1>2, <3>1, Zenon DEF Read
    <2> HIDE DEF rest, r
    <2>5. Within(h, alert.reqs, bytes \o rest, ored_left, reqs_left, rest)
      BY <2>2, <2>3, RequirementBegins, Zenon
    <2>6. /\ alert' = [alert EXCEPT !.reqs = Append(alert.reqs, r)]
          /\ alert'.reqs = Append(alert.reqs, r)
      BY <1>2, <2>2 DEF r, Alert
    <2>7. Front(alert'.reqs) = alert.reqs /\ Last(alert'.reqs) = r
      BY <2>2, <2>6, FrontLast
    <2>8. EncodeHeader(alert') = h
      <3>1. /\ alert'.alert_id = alert.alert_id /\ alert'.warmup_period = alert.warmup_period
            /\ alert'.cooldown_period = alert.cooldown_period
            /\ alert'.connectivity = alert.connectivity /\ alert'.led = alert.led
            /\ alert'.led_color = alert.led_color /\ alert'.led_pattern = alert.led_pattern
        BY <2>2, <2>6 DEF Alert
      <3> QED
        BY <3>1, HeaderSame, Zenon
    <2>9. rest = <<Last(alert'.reqs).variable, Last(alert'.reqs).operator>>
      BY <2>1, <2>7 DEF rest
    <2> HIDE DEF h
    <2>10. /\ EncodeHeader(alert') \in Seq(Int)
           /\ Within(EncodeHeader(alert'), Front(alert'.reqs), bytes', ored_left', reqs_left',
                     <<Last(alert'.reqs).variable, Last(alert'.reqs).operator>>)
      BY <1>2, <2>2, <2>4, <2>5, <2>7, <2>8, <2>9, Zenon
    <2>11. pc' \in ValueFields \cup {"rejected"}
      BY <1>2 DEF ValueField, ValueFields
    <2> QED
      BY <2>10, <2>11 DEF HeaderContent, BodyContent, EndContent, HeaderFields, ValueFields
  <1> QED
    BY <1>1, <1>2 DEF ParseVariableIdentifier

LEMMA ParseConstraintValueContent ==
  ASSUME ContentInv, NEW field \in ValueFields,
         ParseConstraintValue(field, IF field = "two_byte_value" THEN 2 ELSE 4)
  PROVE  HeaderContent' /\ BodyContent' /\ EndContent'
  <1> DEFINE r == Last(alert.reqs)
             h == EncodeHeader(alert)
  <1>1. CASE Reject
    BY <1>1, RejectedContent DEF Reject
  <1>2. ASSUME NEW bs \in Inputs[field], Read(bs),
               alert' = [alert EXCEPT !.reqs =
                 Append(Front(@), [variable |-> r.variable, operator |-> r.operator,
                                   value |-> ConstraintValue(r.variable, bs),
                                   last |-> IsLastInOredRequirement(reqs_left)])],
               reqs_left' = reqs_left - 1,
               pc' = IF reqs_left > 1 THEN NextRequirement(alert'.reqs) ELSE NextOred(ored_left),
               UNCHANGED <<num_bytes, ored_left>>
        PROVE  HeaderContent' /\ BodyContent' /\ EndContent'
    <2> DEFINE last == IsLastInOredRequirement(reqs_left)
               q == [variable |-> r.variable, operator |-> r.operator,
                     value |-> ConstraintValue(r.variable, bs), last |-> last]
               rest == <<r.variable, r.operator>>
    <2>1. /\ h \in Seq(Int) /\ Within(h, Front(alert.reqs), bytes, ored_left, reqs_left, rest)
          /\ pc = field
      BY DEF ContentInv, BodyContent, ValueFields, ParseConstraintValue
    <2>2. /\ alert \in Alert /\ Front(alert.reqs) \in Seq(Requirement) /\ bytes \in Seq(Byte)
          /\ r \in [variable : VariableIdentifiers, operator : Byte] /\ ValueField(r.variable) = field
          /\ reqs_left \in Byte /\ reqs_left > 0 /\ ored_left \in Byte
      BY <2>1 DEF ContentInv, MessageInv, TypeOK, ReqsComplete, ValueFields, InBounds
    <2>3. /\ reqs_left \in Nat /\ ored_left \in Nat /\ bytes \in Seq(Int)
          /\ last \in BOOLEAN /\ (last <=> reqs_left = 1)
      BY <2>2, ByteSeqs, ByteFacts DEF IsLastInOredRequirement
    <2> HIDE DEF r, h, last
    <2>4. /\ q \in Requirement /\ bs \in Seq(Byte) /\ bs \in Seq(Int) /\ q.last = last
          /\ Len(bs) = (IF r.variable = LIGHT_INTENSITY THEN 4 ELSE 2)
      <3>1. /\ q \in Requirement /\ bs \in Seq(Byte)
            /\ Len(bs) = (IF field = "two_byte_value" THEN 2 ELSE 4)
            /\ r.variable = LIGHT_INTENSITY <=> field = "four_byte_value"
        BY <2>2, <2>3, ValueType
      <3>2. field = "two_byte_value" \/ field = "four_byte_value"
        BY DEF ValueFields
      <3> QED
        BY <3>1, <3>2, ByteSeqs
    <2>5. EncodeRequirement(q) = rest \o bs
      <3>1. r.variable \in VariableIdentifiers /\ r.operator \in Byte
        BY <2>2
      <3> QED
        BY <2>3, <2>4, <3>1, ParsedRequirement
    <2>6. rest \in Seq(Int)
      <3>1. r.variable \in Int /\ r.operator \in Int
        BY <2>4, RequirementFields
      <3> QED
        BY <3>1
    <2> HIDE DEF q, rest
    <2>7. /\ alert' = [alert EXCEPT !.reqs = Append(Front(alert.reqs), q)]
          /\ alert'.reqs = Append(Front(alert.reqs), q) /\ bytes' = bytes \o bs
      BY <1>2, <2>2 DEF q, last, Alert, Read
    <2>8. EncodeHeader(alert') = h
      <3>1. /\ alert'.alert_id = alert.alert_id /\ alert'.warmup_period = alert.warmup_period
            /\ alert'.cooldown_period = alert.cooldown_period
            /\ alert'.connectivity = alert.connectivity /\ alert'.led = alert.led
            /\ alert'.led_color = alert.led_color /\ alert'.led_pattern = alert.led_pattern
        BY <2>2, <2>7 DEF Alert
      <3> QED
        BY <3>1, HeaderSame, Zenon DEF h
    <2>9. CASE reqs_left > 1
      <3>1. q.last = FALSE
        BY <2>3, <2>4, <2>9
      <3>2. Within(h, Append(Front(alert.reqs), q), bytes \o bs, ored_left, reqs_left - 1, <<>>)
        BY <2>1, <2>3, <2>4, <2>5, <2>6, <2>9, <3>1, RequirementRead, Zenon
      <3>3. Within(EncodeHeader(alert'), alert'.reqs, bytes', ored_left', reqs_left', <<>>)
            /\ EncodeHeader(alert') \in Seq(Int)
        BY <1>2, <2>1, <2>7, <2>8, <3>2, Zenon
      <3>4. pc' \in {"rejected", "variable_identifier"}
        BY <1>2, <2>9 DEF NextRequirement
      <3> QED
        BY <3>3, <3>4 DEF HeaderContent, BodyContent, EndContent, HeaderFields, ValueFields
    <2>10. CASE ~(reqs_left > 1)
      <3>1. reqs_left = 1 /\ q.last = TRUE
        BY <2>2, <2>3, <2>4, <2>10
      <3>2. Complete(h, Append(Front(alert.reqs), q), bytes \o bs, ored_left)
        BY <2>1, <2>3, <2>4, <2>5, <2>6, <3>1, LastRequirementRead
      <3>3. Complete(EncodeHeader(alert'), alert'.reqs, bytes', ored_left')
            /\ EncodeHeader(alert') \in Seq(Int)
        BY <1>2, <2>1, <2>7, <2>8, <3>2, Zenon
      <3>4. ored_left' \in Byte /\ pc' = NextOred(ored_left') /\ num_bytes' = num_bytes
        BY <1>2, <2>2, <2>10
      <3> QED
        BY <3>3, <3>4, GroupDone
    <2> QED
      BY <2>9, <2>10
  <1> QED
    BY <1>1, <1>2 DEF ParseConstraintValue

LEMMA ContentStep == ContentInv /\ [Next]_vars => ContentInv'
  <1> SUFFICES ASSUME ContentInv, [Next]_vars
               PROVE  ContentInv'
    OBVIOUS
  <1>1. MessageInv'
    BY MessageStep DEF ContentInv
  <1>2. ASSUME UNCHANGED vars
        PROVE  HeaderContent' /\ BodyContent' /\ EndContent'
    BY <1>2 DEF vars, ContentInv, HeaderContent, BodyContent, EndContent
  <1>3. HeaderContent' /\ BodyContent' /\ EndContent'
    <2>1. CASE ReceiveCb \/ HandleRemoveAlertMessage
      BY <2>1, HeadContent
    <2>2. CASE ParseAlertId
      BY <2>2, ParseAlertIdContent
    <2>3. CASE ParseWarmupPeriod
      BY <2>3, ParseWarmupPeriodContent
    <2>4. CASE ParseCooldownPeriod
      BY <2>4, ParseCooldownPeriodContent
    <2>5. CASE ParseNotificationType
      BY <2>5, ParseNotificationTypeContent
    <2>6. CASE ParseLedColor
      BY <2>6, ParseLedColorContent
    <2>7. CASE ParseLedPattern
      BY <2>7, ParseLedPatternContent
    <2>8. CASE ParseNumOredRequirements
      BY <2>8, ParseNumOredRequirementsContent
    <2>9. CASE ParseNumVariableRequirements
      BY <2>9, ParseNumVariableRequirementsContent
    <2>10. CASE ParseVariableIdentifier
      BY <2>10, ParseVariableIdentifierContent
    <2>11. CASE ParseTwoByteValue
      <3>1. "two_byte_value" \in ValueFields
        BY DEF ValueFields
      <3>2. ParseConstraintValue("two_byte_value", IF "two_byte_value" = "two_byte_value" THEN 2 ELSE 4)
        BY <2>11 DEF ParseTwoByteValue
      <3> QED
        BY <3>1, <3>2, ParseConstraintValueContent
    <2>12. CASE ParseFourByteValue
      <3>1. "four_byte_value" \in ValueFields
        BY DEF ValueFields
      <3>2. ParseConstraintValue("four_byte_value", IF "four_byte_value" = "two_byte_value" THEN 2 ELSE 4)
        BY <2>12 DEF ParseFourByteValue
      <3> QED
        BY <3>1, <3>2, ParseConstraintValueContent
    <2>13. CASE Done
      BY <2>13, <1>2 DEF Done
    <2> QED
      BY <1>2, <2>1, <2>2, <2>3, <2>4, <2>5, <2>6, <2>7, <2>8, <2>9, <2>10, <2>11, <2>12, <2>13
      DEF Next
  <1> QED
    BY <1>1, <1>3 DEF ContentInv

LEMMA ContentAlways == Spec => []ContentInv
  BY ContentInit, ContentStep, PTL DEF Spec

LEMMA ContentAccepted == ContentInv => AcceptedIsTheMessage
  <1> SUFFICES ASSUME ContentInv PROVE AcceptedIsTheMessage
    OBVIOUS
  <1>1. ASSUME pc = "add_alert"
        PROVE  \E n \in 0..Len(bytes) : \E groups \in Groupings(alert.reqs, n) :
                 FlagsMark(groups) /\ Encode(alert, groups) = bytes
    <2>1. /\ Complete(EncodeHeader(alert), alert.reqs, bytes, 0) /\ bytes \in Seq(Byte)
          /\ alert.reqs \in Seq(Requirement)
      BY <1>1 DEF ContentInv, BodyContent, MessageInv, TypeOK, ReqsComplete
    <2>2. PICK n, groups : /\ Closed(groups, alert.reqs, n) /\ n < Len(bytes)
                           /\ bytes = EncodeHeader(alert) \o <<n + 0>> \o EncodeGroups(groups)
      BY <2>1, Zenon DEF Complete
    <2>3. Len(groups) = n /\ n \in Nat
      BY <2>1, <2>2, ClosedType
    <2>4. n \in 0..Len(bytes) /\ n + 0 = Len(groups)
      BY <2>1, <2>2, <2>3
    <2>5. Encode(alert, groups) = bytes
      BY <2>2, <2>4, Zenon DEF Encode
    <2> QED
      BY <2>2, <2>4, <2>5, Zenon DEF Closed
  <1> QED
    BY <1>1 DEF AcceptedIsTheMessage, ContentInv, EndContent

\* What is handed on to be added or removed is what the message says: an alert to be
\* added, encoded again in groups that end where the flag is set, gives the
\* bytes of the message, and all of them.
THEOREM MessageAccepted == Spec => []AcceptedIsTheMessage
  BY ContentAlways, ContentAccepted, PTL

-----------------------------------------------------------------------------
(* More on sequences                                                        *)

\* What a sequence with one more element in front is, given element by element.
LEMMA ConsIs ==
  ASSUME NEW S, NEW s \in Seq(S), NEW x \in S
  PROVE  \A t : /\ t = [i \in 1..Len(s) + 1 |-> t[i]] /\ t[1] = x
                /\ \A i \in 1..Len(s) : t[i + 1] = s[i]
                => t = <<x>> \o s
  <1> SUFFICES ASSUME NEW t, t = [i \in 1..Len(s) + 1 |-> t[i]], t[1] = x,
                      \A i \in 1..Len(s) : t[i + 1] = s[i]
               PROVE  t = <<x>> \o s
    OBVIOUS
  <1> DEFINE n == Len(s) + 1
             u == <<x>> \o s
  <1>1. u \in Seq(S) /\ Len(u) = n /\ u[1] = x /\ \A i \in 1..Len(s) : u[i + 1] = s[i]
    <2>1. <<x>> \in Seq(S) /\ Len(<<x>>) = 1 /\ <<x>>[1] = x /\ 1 \in 1..Len(<<x>>)
      OBVIOUS
    <2> DEFINE a == <<x>>
    <2>2. a \in Seq(S) /\ Len(a) = 1 /\ a[1] = x /\ u = a \o s
      OBVIOUS
    <2> HIDE DEF u, a
    <2>3. /\ a \o s \in Seq(S) /\ Len(a \o s) = Len(a) + Len(s) /\ Len(s) \in Nat
          /\ \A i \in 1..Len(a) : (a \o s)[i] = a[i]
          /\ \A i \in 1..Len(s) : (a \o s)[Len(a) + i] = s[i]
      <3>1. a \in Seq(S)
        BY <2>2
      <3> QED
        BY <3>1, Concat
    <2> QED
      BY <2>2, <2>3
  <1>2. \A i \in 1..n : i = 1 \/ (i - 1 \in 1..Len(s) /\ i = (i - 1) + 1)
    OBVIOUS
  <1> HIDE DEF u
  <1>3. \A i \in 1..n : t[i] = u[i]
    BY <1>1, <1>2
  <1>4. t = [i \in 1..n |-> t[i]]
    OBVIOUS
  <1>5. u = [i \in 1..n |-> u[i]]
    <2>1. \A w \in Seq(S) : w = [i \in 1..Len(w) |-> w[i]]
      OBVIOUS
    <2> HIDE DEF n
    <2> QED
      BY <1>1, <2>1
  <1>6. t = u
    <2> HIDE DEF n
    <2> QED
      BY <1>3, <1>4, <1>5
  <1> QED
    BY <1>6 DEF u

\* A nonempty sequence is its head in front of its tail.
LEMMA HeadTail ==
  ASSUME NEW S, NEW s \in Seq(S), Len(s) > 0
  PROVE  /\ Head(s) \in S /\ Tail(s) \in Seq(S) /\ s = <<Head(s)>> \o Tail(s)
         /\ Len(Tail(s)) = Len(s) - 1
  <1>1. Head(s) \in S /\ Tail(s) \in Seq(S) /\ Len(Tail(s)) = Len(s) - 1 /\ Len(s) \in Nat
    OBVIOUS
  <1>2. s = <<Head(s)>> \o Tail(s)
    <2>1. s = [i \in 1..Len(s) |-> s[i]] /\ Len(Tail(s)) + 1 = Len(s)
      BY <1>1
    <2>2. s[1] = Head(s) /\ \A i \in 1..Len(Tail(s)) : s[i + 1] = Tail(s)[i]
      OBVIOUS
    <2>3. s = [i \in 1..Len(Tail(s)) + 1 |-> s[i]]
      BY <2>1
    <2> QED
      BY <1>1, <2>2, <2>3, ConsIs
  <1> QED
    BY <1>1, <1>2

\* A sequence of one sequence flattens to that one.
LEMMA FlattenOne ==
  ASSUME NEW S, NEW x \in Seq(S)
  PROVE  FlattenSeq(<<x>>) = x
  <1>1. <<>> \in Seq(Seq(S)) /\ Append(<<>>, x) = <<x>>
    OBVIOUS
  <1>2. FlattenSeq(Append(<<>>, x)) = FlattenSeq(<<>>) \o x
    BY <1>1, FlattenAppend
  <1>3. <<>> \o x = x
    BY ConcatEmpty
  <1> QED
    BY <1>1, <1>2, <1>3, FlattenEmpty

\* In front of a sequence and behind it are independent.
LEMMA ConsAppend ==
  ASSUME NEW S, NEW s \in Seq(S), NEW x \in S, NEW y \in S
  PROVE  <<x>> \o Append(s, y) = Append(<<x>> \o s, y)
  <1> DEFINE a == <<x>>
  <1>1. a \in Seq(S)
    OBVIOUS
  <1> HIDE DEF a
  <1>2. Append(Cat(a, s), y) = Cat(a, Append(s, y))
    BY <1>1, CatAppend
  <1> QED
    BY <1>2 DEF Cat, a

\* A longer sequence is one in front and one behind some sequence.
LEMMA SplitLast ==
  ASSUME NEW S, NEW s \in Seq(S), Len(s) > 0
  PROVE  \E f \in Seq(S), y \in S : s = Append(f, y) /\ Len(f) = Len(s) - 1
  <1> DEFINE n == Len(s)
             f == [i \in 1..n - 1 |-> s[i]]
  <1>1. n \in Nat /\ n > 0 /\ s[n] \in S /\ \A i \in 1..n : s[i] \in S
    OBVIOUS
  <1>2. f \in Seq(S) /\ Len(f) = n - 1
    <2>1. n - 1 \in Nat /\ \A i \in 1..n - 1 : i \in 1..n
      BY <1>1
    <2>2. f \in [1..n - 1 -> S]
      BY <1>1, <2>1
    <2> QED
      BY <2>1, <2>2
  <1>3. \A i \in 1..n - 1 : s[i] = f[i]
    OBVIOUS
  <1>4. s = [i \in 1..Len(f) + 1 |-> s[i]]
    <2>1. s = [i \in 1..n |-> s[i]] /\ n = Len(f) + 1
      BY <1>1, <1>2
    <2> QED
      BY <2>1
  <1> HIDE DEF f
  <1>5. s[Len(f) + 1] = s[n] /\ \A i \in 1..Len(f) : s[i] = f[i]
    BY <1>1, <1>2, <1>3
  <1> DEFINE y == s[n]
  <1>6. s = Append(f, y)
    <2>1. y \in S /\ s[Len(f) + 1] = y
      BY <1>1, <1>5
    <2> HIDE DEF y
    <2>2. \A t : /\ t = [i \in 1..Len(f) + 1 |-> t[i]] /\ t[Len(f) + 1] = y
                 /\ \A i \in 1..Len(f) : t[i] = f[i]
                 => t = Append(f, y)
      <3>1. f \in Seq(S) /\ y \in S
        BY <1>2, <2>1
      <3> QED
        BY <3>1, AppendIs, Zenon
    <2> QED
      BY <1>4, <1>5, <2>1, <2>2
  <1> QED
    BY <1>1, <1>2, <1>6

\* What a sequence in front of ss adds.
LEMMA FlattenCons ==
  ASSUME NEW S, NEW x \in Seq(S)
  PROVE  \A ss \in Seq(Seq(S)) : FlattenSeq(<<x>> \o ss) = x \o FlattenSeq(ss)
  <1> DEFINE Bad == {ss \in Seq(Seq(S)) : FlattenSeq(<<x>> \o ss) # x \o FlattenSeq(ss)}
             T == {Len(ss) : ss \in Bad}
  <1>1. T \in SUBSET Nat
    OBVIOUS
  <1>2. ASSUME T # {}
        PROVE  FALSE
    <2>1. PICK m \in T : \A k \in T : m <= k
      <3> HIDE DEF T
      <3> QED
        BY <1>1, <1>2, LeastNatural, Zenon
    <2>2. PICK ss \in Bad : Len(ss) = m
      OBVIOUS
    <2>3. /\ ss \in Seq(Seq(S)) /\ FlattenSeq(<<x>> \o ss) # x \o FlattenSeq(ss)
          /\ \A tt \in Seq(Seq(S)) : Len(tt) < m => FlattenSeq(<<x>> \o tt) = x \o FlattenSeq(tt)
      <3>1. ss \in Seq(Seq(S)) /\ FlattenSeq(<<x>> \o ss) # x \o FlattenSeq(ss)
        BY <2>2
      <3>2. ASSUME NEW tt \in Seq(Seq(S)), Len(tt) < m, tt \in Bad
            PROVE  FALSE
        <4>1. Len(tt) \in T
          BY <3>2
        <4> HIDE DEF T, Bad
        <4>2. m <= Len(tt) /\ m \in Nat /\ Len(tt) \in Nat
          BY <1>1, <2>1, <4>1
        <4> QED
          BY <3>2, <4>2
      <3> QED
        BY <3>1, <3>2
    <2> HIDE DEF Bad, T
    <2>4. CASE Len(ss) = 0
      <3>1. ss = <<>>
        BY <2>3, <2>4
      <3>2. <<x>> \o <<>> = <<x>> /\ x \o <<>> = x
        OBVIOUS
      <3>3. FlattenSeq(<<x>>) = x
        BY FlattenOne
      <3> QED
        BY <2>3, <3>1, <3>2, <3>3, FlattenEmpty
    <2>5. CASE Len(ss) > 0
      <3>1. PICK f \in Seq(Seq(S)), y \in Seq(S) : ss = Append(f, y) /\ Len(f) = Len(ss) - 1
        <4> DEFINE U == Seq(S)
        <4>1. ss \in Seq(U)
          BY <2>3
        <4> HIDE DEF U
        <4>2. \E f \in Seq(U), y \in U : ss = Append(f, y) /\ Len(f) = Len(ss) - 1
          BY <2>5, <4>1, SplitLast
        <4> QED
          BY <4>2 DEF U
      <3>2. FlattenSeq(<<x>> \o f) = x \o FlattenSeq(f)
        <4>1. Len(f) < m
          BY <2>2, <2>5, <3>1
        <4> QED
          BY <2>3, <4>1
      <3>3. FlattenSeq(ss) = FlattenSeq(f) \o y
        BY <3>1, FlattenAppend
      <3>4. <<x>> \o ss = Append(<<x>> \o f, y) /\ <<x>> \o f \in Seq(Seq(S))
        <4> DEFINE U == Seq(S)
        <4>1. f \in Seq(U) /\ x \in U /\ y \in U
          OBVIOUS
        <4> HIDE DEF U
        <4>2. <<x>> \o Append(f, y) = Append(<<x>> \o f, y)
          BY <4>1, ConsAppend
        <4>3. <<x>> \in Seq(U)
          BY <4>1
        <4>4. <<x>> \o f \in Seq(U)
          BY <4>1, <4>3, Concat, Zenon
        <4> QED
          BY <3>1, <4>2, <4>4 DEF U
      <3>5. FlattenSeq(Append(<<x>> \o f, y)) = FlattenSeq(<<x>> \o f) \o y
        <4> DEFINE g == <<x>> \o f
        <4>1. g \in Seq(Seq(S))
          BY <3>4
        <4> HIDE DEF g
        <4>2. FlattenSeq(Append(g, y)) = FlattenSeq(g) \o y
          BY <4>1, FlattenAppend
        <4> QED
          BY <4>2 DEF g
      <3>6. (x \o FlattenSeq(f)) \o y = x \o (FlattenSeq(f) \o y)
        <4>1. FlattenSeq(f) \in Seq(S)
          BY FlattenType
        <4> QED
          BY <4>1, ConcatAssoc
      <3> QED
        BY <2>3, <3>2, <3>3, <3>4, <3>5, <3>6, Zenon
    <2> QED
      BY <2>3, <2>4, <2>5
  <1>3. Bad = {}
    <2> HIDE DEF Bad
    <2> QED
      BY <1>2
  <1> QED
    BY <1>3

\* Concatenation of numbers, element by element.
LEMMA IntsAt ==
  \A s, t \in Seq(Int) :
    /\ Len(s \o t) = Len(s) + Len(t) /\ Len(s) \in Nat /\ Len(t) \in Nat
    /\ \A i \in 1..Len(s) : (s \o t)[i] = s[i]
    /\ \A i \in 1..Len(t) : (s \o t)[Len(s) + i] = t[i]
  OBVIOUS

LEMMA SameInts ==
  ASSUME NEW s \in Seq(Int), NEW t \in Seq(Int), Len(s) = Len(t), \A i \in 1..Len(s) : s[i] = t[i]
  PROVE  s = t
  OBVIOUS

\* Two ways to cut the same bytes at the same place.
LEMMA Cancel ==
  ASSUME NEW b \in Seq(Int), NEW r \in Seq(Int), NEW f \in Seq(Int), NEW e \in Seq(Int),
         b \o r = f \o e, Len(b) = Len(f)
  PROVE  b = f /\ r = e
  <1> DEFINE w == b \o r
  <1>1. /\ \A i \in 1..Len(b) : w[i] = b[i]
        /\ \A i \in 1..Len(r) : w[Len(b) + i] = r[i]
        /\ Len(w) = Len(b) + Len(r) /\ Len(b) \in Nat /\ Len(r) \in Nat
    BY IntsAt, Zenon
  <1>2. /\ \A i \in 1..Len(f) : w[i] = f[i]
        /\ \A i \in 1..Len(e) : w[Len(f) + i] = e[i]
        /\ Len(w) = Len(f) + Len(e) /\ Len(f) \in Nat /\ Len(e) \in Nat
    <2>1. w = f \o e
      OBVIOUS
    <2> HIDE DEF w
    <2> QED
      BY <2>1, IntsAt, Zenon
  <1> HIDE DEF w
  <1>4. Len(r) = Len(e)
    BY <1>1, <1>2
  <1>5. \A i \in 1..Len(b) : b[i] = f[i]
    BY <1>1, <1>2
  <1>6. \A i \in 1..Len(r) : r[i] = e[i]
    BY <1>1, <1>2, <1>4
  <1> QED
    BY <1>4, <1>5, <1>6, SameInts

-----------------------------------------------------------------------------
(* The messages of clients                                                  *)

\* Bytes of the constraint value of variable v.
ValueSize(v) == IF v = LIGHT_INTENSITY THEN 4 ELSE 2

\* How the requirements of clients are encoded.
LEMMA InputRequirementIs ==
  ASSUME NEW q \in InputRequirements
  PROVE  \E v \in VariableIdentifiers, op \in Byte, x \in Seq(Byte) :
           Len(x) = ValueSize(v) /\ EncodeRequirement(q) = <<v, op>> \o x
  <1>1. PICK vs \in Inputs["variable_identifier"], ops \in Inputs["operator"] :
          /\ vs[1] \in VariableIdentifiers
          /\ q \in {[variable |-> vs[1], operator |-> ops[1], value |-> LittleEndian(x)] :
                      x \in Inputs[ValueField(vs[1])]}
    BY DEF InputRequirements
  <1>2. PICK x \in Inputs[ValueField(vs[1])] :
          q = [variable |-> vs[1], operator |-> ops[1], value |-> LittleEndian(x)]
    BY <1>1
  <1>3. ops[1] \in Byte
    BY InputFacts DEF Fields
  <1>4. x \in Seq(Byte) /\ Len(x) = ValueSize(vs[1])
    BY InputFacts DEF ValueField, ValueSize, Fields
  <1>5. Bytes(LittleEndian(x), ValueSize(vs[1])) = x
    <2>1. CASE vs[1] = LIGHT_INTENSITY
      BY <1>4, <2>1, FourBytesBack DEF ValueSize
    <2>2. CASE vs[1] # LIGHT_INTENSITY
      BY <1>4, <2>2, TwoBytesBack DEF ValueSize
    <2> QED
      BY <2>1, <2>2
  <1>6. q.variable = vs[1] /\ q.operator = ops[1] /\ q.value = LittleEndian(x)
    BY <1>2
  <1>7. EncodeRequirement(q) = <<vs[1], ops[1]>> \o x
    BY <1>5, <1>6 DEF EncodeRequirement, ValueSize
  <1> QED
    BY <1>1, <1>3, <1>4, <1>7

\* The encodings of requirements of clients are bytes.
LEMMA InputRequirementType ==
  ASSUME NEW q \in InputRequirements
  PROVE  EncodeRequirement(q) \in Seq(Int)
  <1>1. PICK v \in VariableIdentifiers, op \in Byte, x \in Seq(Byte) :
          EncodeRequirement(q) = <<v, op>> \o x
    BY InputRequirementIs
  <1>2. <<v, op>> \in Seq(Int) /\ x \in Seq(Int)
    BY ByteFacts DEF VariableIdentifiers, TEMPERATURE, LIGHT_INTENSITY
  <1> QED
    BY <1>1, <1>2, Concat, Zenon

\* A requirement in front of others.
LEMMA EncodeRequirementsCons ==
  ASSUME NEW rs \in Seq(InputRequirements)
  PROVE  /\ EncodeRequirements(rs) \in Seq(Int)
         /\ \A q \in InputRequirements :
              EncodeRequirements(<<q>> \o rs) = EncodeRequirement(q) \o EncodeRequirements(rs)
  <1> DEFINE ss == [i \in DOMAIN rs |-> EncodeRequirement(rs[i])]
  <1>1. ss \in Seq(Seq(Int)) /\ Len(ss) = Len(rs) /\ \A i \in 1..Len(rs) : ss[i] = EncodeRequirement(rs[i])
    <2>1. \A i \in 1..Len(rs) : EncodeRequirement(rs[i]) \in Seq(Int)
      BY InputRequirementType
    <2>2. ss = [i \in 1..Len(rs) |-> EncodeRequirement(rs[i])] /\ Len(rs) \in Nat
      OBVIOUS
    <2>3. ss = [i \in 1..Len(rs) |-> ss[i]] /\ \A i \in 1..Len(rs) : ss[i] = EncodeRequirement(rs[i])
      BY <2>2
    <2> HIDE DEF ss
    <2> QED
      BY <2>1, <2>2, <2>3, MapIs
  <1>2. EncodeRequirements(rs) = FlattenSeq(ss)
    BY DEF EncodeRequirements
  <1> HIDE DEF ss
  <1>3. FlattenSeq(ss) \in Seq(Int)
    BY <1>1, FlattenType
  <1>4. ASSUME NEW q \in InputRequirements
        PROVE  EncodeRequirements(<<q>> \o rs) = EncodeRequirement(q) \o EncodeRequirements(rs)
    <2> DEFINE more == <<q>> \o rs
               tt == [i \in DOMAIN more |-> EncodeRequirement(more[i])]
               x == EncodeRequirement(q)
    <2>1. DOMAIN more = 1..Len(rs) + 1 /\ more[1] = q /\ \A i \in 1..Len(rs) : more[i + 1] = rs[i]
      <3>1. more \in Seq(InputRequirements) /\ Len(more) = 1 + Len(rs) /\ Len(rs) \in Nat
        OBVIOUS
      <3>2. more[1] = q /\ \A i \in 1..Len(rs) : more[i + 1] = rs[i]
        OBVIOUS
      <3> HIDE DEF more
      <3> QED
        BY <3>1, <3>2
    <2>2. x \in Seq(Int)
      BY InputRequirementType
    <2>3. EncodeRequirements(<<q>> \o rs) = FlattenSeq(tt)
      BY DEF EncodeRequirements
    <2> HIDE DEF more
    <2>4. /\ tt = [i \in 1..Len(rs) + 1 |-> tt[i]] /\ tt[1] = x
          /\ \A i \in 1..Len(rs) : tt[i + 1] = EncodeRequirement(rs[i])
      <3>1. tt = [i \in 1..Len(rs) + 1 |-> EncodeRequirement(more[i])]
        BY <2>1
      <3>2. 1 \in 1..Len(rs) + 1 /\ \A i \in 1..Len(rs) : i + 1 \in 1..Len(rs) + 1
        OBVIOUS
      <3> QED
        BY <2>1, <3>1, <3>2
    <2> HIDE DEF tt, x
    <2>5. tt = <<x>> \o ss
      <3>1. /\ tt = [i \in 1..Len(ss) + 1 |-> tt[i]] /\ tt[1] = x
            /\ \A i \in 1..Len(ss) : tt[i + 1] = ss[i]
        BY <1>1, <2>4
      <3>2. \A t : /\ t = [i \in 1..Len(ss) + 1 |-> t[i]] /\ t[1] = x
                   /\ \A i \in 1..Len(ss) : t[i + 1] = ss[i]
                   => t = <<x>> \o ss
        BY <1>1, <2>2, ConsIs
      <3> QED
        BY <3>1, <3>2
    <2>6. FlattenSeq(<<x>> \o ss) = x \o FlattenSeq(ss)
      BY <1>1, <2>2, FlattenCons
    <2> QED
      BY <1>2, <2>3, <2>5, <2>6 DEF x
  <1> QED
    BY <1>2, <1>3, <1>4

LEMMA EncodeOredIs ==
  ASSUME NEW rs \in Seq(InputRequirements)
  PROVE  EncodeOred(rs) \in Seq(Int)
  <1>1. Len(rs) \in Int /\ <<Len(rs)>> \in Seq(Int)
    OBVIOUS
  <1>2. EncodeRequirements(rs) \in Seq(Int)
    BY EncodeRequirementsCons
  <1> QED
    BY <1>1, <1>2, Concat, Zenon DEF EncodeOred

\* A group in front of others.
LEMMA EncodeGroupsCons ==
  ASSUME NEW groups \in Seq(Seq(InputRequirements))
  PROVE  /\ EncodeGroups(groups) \in Seq(Int)
         /\ \A rs \in Seq(InputRequirements) :
              EncodeGroups(<<rs>> \o groups) = EncodeOred(rs) \o EncodeGroups(groups)
  <1> DEFINE ss == [i \in DOMAIN groups |-> EncodeOred(groups[i])]
  <1>1. ss \in Seq(Seq(Int)) /\ Len(ss) = Len(groups) /\ \A i \in 1..Len(groups) : ss[i] = EncodeOred(groups[i])
    <2>1. \A i \in 1..Len(groups) : EncodeOred(groups[i]) \in Seq(Int)
      BY EncodeOredIs
    <2>2. ss = [i \in 1..Len(groups) |-> EncodeOred(groups[i])] /\ Len(groups) \in Nat
      OBVIOUS
    <2>3. ss = [i \in 1..Len(groups) |-> ss[i]] /\ \A i \in 1..Len(groups) : ss[i] = EncodeOred(groups[i])
      BY <2>2
    <2> HIDE DEF ss
    <2> QED
      BY <2>1, <2>2, <2>3, MapIs
  <1>2. EncodeGroups(groups) = FlattenSeq(ss)
    BY DEF EncodeGroups
  <1> HIDE DEF ss
  <1>3. FlattenSeq(ss) \in Seq(Int)
    BY <1>1, FlattenType
  <1>4. ASSUME NEW rs \in Seq(InputRequirements)
        PROVE  EncodeGroups(<<rs>> \o groups) = EncodeOred(rs) \o EncodeGroups(groups)
    <2> DEFINE more == <<rs>> \o groups
               tt == [i \in DOMAIN more |-> EncodeOred(more[i])]
               x == EncodeOred(rs)
    <2>1. DOMAIN more = 1..Len(groups) + 1 /\ more[1] = rs /\ \A i \in 1..Len(groups) : more[i + 1] = groups[i]
      <3>1. more \in Seq(Seq(InputRequirements)) /\ Len(more) = 1 + Len(groups) /\ Len(groups) \in Nat
        OBVIOUS
      <3>2. more[1] = rs /\ \A i \in 1..Len(groups) : more[i + 1] = groups[i]
        OBVIOUS
      <3> HIDE DEF more
      <3> QED
        BY <3>1, <3>2
    <2>2. x \in Seq(Int)
      BY EncodeOredIs
    <2>3. EncodeGroups(<<rs>> \o groups) = FlattenSeq(tt)
      BY DEF EncodeGroups
    <2> HIDE DEF more
    <2>4. /\ tt = [i \in 1..Len(groups) + 1 |-> tt[i]] /\ tt[1] = x
          /\ \A i \in 1..Len(groups) : tt[i + 1] = EncodeOred(groups[i])
      <3>1. tt = [i \in 1..Len(groups) + 1 |-> EncodeOred(more[i])]
        BY <2>1
      <3>2. 1 \in 1..Len(groups) + 1 /\ \A i \in 1..Len(groups) : i + 1 \in 1..Len(groups) + 1
        OBVIOUS
      <3> QED
        BY <2>1, <3>1, <3>2
    <2> HIDE DEF tt, x
    <2>5. tt = <<x>> \o ss
      <3>1. /\ tt = [i \in 1..Len(ss) + 1 |-> tt[i]] /\ tt[1] = x
            /\ \A i \in 1..Len(ss) : tt[i + 1] = ss[i]
        BY <1>1, <2>4
      <3>2. \A t : /\ t = [i \in 1..Len(ss) + 1 |-> t[i]] /\ t[1] = x
                   /\ \A i \in 1..Len(ss) : t[i + 1] = ss[i]
                   => t = <<x>> \o ss
        BY <1>1, <2>2, ConsIs
      <3> QED
        BY <3>1, <3>2
    <2>6. FlattenSeq(<<x>> \o ss) = x \o FlattenSeq(ss)
      BY <1>1, <2>2, FlattenCons
    <2> QED
      BY <1>2, <2>3, <2>5, <2>6 DEF x
  <1> QED
    BY <1>2, <1>3, <1>4

-----------------------------------------------------------------------------
(* What is to come of a message                                             *)

\* rest is `left' groups, with which there are at most MaxRequirements requirements
\* when there have been `used' before.
GroupsToCome(rest, left, used) ==
  \E groups \in Seq(Seq(InputRequirements)) :
    /\ rest = EncodeGroups(groups) /\ Len(groups) = left
    /\ used + Len(FlattenSeq(groups)) <= MaxRequirements

\* The same in the middle of a group: r requirements first.
RequirementsToCome(rest, r, left, used) ==
  \E rs \in Seq(InputRequirements) : \E e \in Seq(Int) :
    /\ rest = EncodeRequirements(rs) \o e /\ Len(rs) = r
    /\ GroupsToCome(e, left, used + r)

\* What is to come is a sequence of numbers.
LEMMA GroupsType ==
  ASSUME NEW rest, NEW left, NEW used, GroupsToCome(rest, left, used)
  PROVE  rest \in Seq(Int) /\ left \in Nat
  <1>1. PICK groups \in Seq(Seq(InputRequirements)) : rest = EncodeGroups(groups) /\ Len(groups) = left
    BY DEF GroupsToCome
  <1>2. Len(groups) \in Nat
    OBVIOUS
  <1> QED
    BY <1>1, <1>2, EncodeGroupsCons

LEMMA RequirementsType ==
  ASSUME NEW rest, NEW r, NEW left, NEW used, RequirementsToCome(rest, r, left, used)
  PROVE  rest \in Seq(Int) /\ r \in Nat /\ left \in Nat
  <1>1. PICK rs \in Seq(InputRequirements), e \in Seq(Int) :
          /\ rest = EncodeRequirements(rs) \o e /\ Len(rs) = r
          /\ GroupsToCome(e, left, used + r)
    BY DEF RequirementsToCome
  <1>2. EncodeRequirements(rs) \in Seq(Int) /\ Len(rs) \in Nat
    BY EncodeRequirementsCons
  <1>3. left \in Nat
    BY <1>1, GroupsType
  <1> QED
    BY <1>1, <1>2, <1>3, Concat, Zenon

\* A group begins with its number of requirements.
LEMMA GroupToCome ==
  ASSUME NEW rest, NEW left \in Nat, NEW used \in Nat, left > 0, GroupsToCome(rest, left, used)
  PROVE  \E k \in Nat, e \in Seq(Int) :
           rest = <<k>> \o e /\ RequirementsToCome(e, k, left - 1, used)
  <1>1. PICK groups \in Seq(Seq(InputRequirements)) :
          /\ rest = EncodeGroups(groups) /\ Len(groups) = left
          /\ used + Len(FlattenSeq(groups)) <= MaxRequirements
    BY DEF GroupsToCome
  <1> DEFINE rs == Head(groups)
             more == Tail(groups)
  <1>2. /\ rs \in Seq(InputRequirements) /\ more \in Seq(Seq(InputRequirements))
        /\ groups = <<rs>> \o more /\ Len(more) = left - 1
    <2> DEFINE S == Seq(InputRequirements)
    <2>1. groups \in Seq(S) /\ Len(groups) > 0
      BY <1>1
    <2> HIDE DEF S
    <2>2. rs \in S /\ more \in Seq(S) /\ groups = <<rs>> \o more /\ Len(more) = Len(groups) - 1
      BY <2>1, HeadTail
    <2> QED
      BY <1>1, <2>2 DEF S
  <1> HIDE DEF rs, more
  <1> DEFINE g == EncodeGroups(more)
             k == Len(rs)
             q == EncodeRequirements(rs)
  <1>3. g \in Seq(Int) /\ q \in Seq(Int) /\ k \in Nat /\ <<k>> \in Seq(Int)
    BY <1>2, EncodeGroupsCons, EncodeRequirementsCons
  <1>4. rest = EncodeOred(rs) \o g
    BY <1>1, <1>2, EncodeGroupsCons
  <1>5. EncodeOred(rs) = <<k>> \o q
    BY DEF EncodeOred
  <1>6. Len(FlattenSeq(groups)) = k + Len(FlattenSeq(more)) /\ Len(FlattenSeq(more)) \in Nat
    <2>1. FlattenSeq(groups) = rs \o FlattenSeq(more) /\ FlattenSeq(more) \in Seq(InputRequirements)
      BY <1>2, FlattenCons, FlattenType
    <2>2. /\ Len(rs \o FlattenSeq(more)) = Len(rs) + Len(FlattenSeq(more))
          /\ Len(FlattenSeq(more)) \in Nat
      BY <1>2, <2>1, Concat, Zenon
    <2> QED
      BY <2>1, <2>2
  <1>7. used + k + Len(FlattenSeq(more)) <= MaxRequirements
    BY <1>1, <1>3, <1>6
  <1>8. GroupsToCome(g, left - 1, used + k)
    BY <1>2, <1>7 DEF GroupsToCome
  <1> HIDE DEF g, q
  <1>9. rest = <<k>> \o (q \o g) /\ q \o g \in Seq(Int)
    <2> DEFINE a == <<k>>
    <2>1. a \in Seq(Int)
      BY <1>3
    <2> HIDE DEF a
    <2>2. Cat(Cat(a, q), g) = Cat(a, Cat(q, g)) /\ Cat(q, g) \in Seq(Int)
      BY <1>3, <2>1, CatAssoc
    <2>3. rest = (a \o q) \o g
      BY <1>4, <1>5 DEF a
    <2> QED
      BY <2>2, <2>3 DEF Cat, a
  <1>10. RequirementsToCome(q \o g, k, left - 1, used)
    BY <1>2, <1>3, <1>8 DEF RequirementsToCome, q
  <1> QED
    BY <1>3, <1>9, <1>10

\* The first of the requirements to come, and what follows it.
RequirementFirst(rest, r, left, used) ==
  \E v \in VariableIdentifiers, op \in Byte, x \in Seq(Byte), e \in Seq(Int) :
    /\ Len(x) = ValueSize(v) /\ rest = <<v, op>> \o (x \o e)
    /\ RequirementsToCome(e, r - 1, left, used + 1)

LEMMA RequirementToCome ==
  ASSUME NEW rest, NEW r \in Nat, NEW left, NEW used \in Nat, r > 0,
         RequirementsToCome(rest, r, left, used)
  PROVE  /\ used < MaxRequirements
         /\ RequirementFirst(rest, r, left, used)
  <1>1. PICK rs \in Seq(InputRequirements), g \in Seq(Int) :
          /\ rest = EncodeRequirements(rs) \o g /\ Len(rs) = r
          /\ GroupsToCome(g, left, used + r)
    BY DEF RequirementsToCome
  <1> DEFINE q == Head(rs)
             more == Tail(rs)
  <1>2. /\ q \in InputRequirements /\ more \in Seq(InputRequirements)
        /\ rs = <<q>> \o more /\ Len(more) = r - 1
    BY <1>1, HeadTail
  <1> HIDE DEF q, more
  <1>3. PICK v \in VariableIdentifiers, op \in Byte, x \in Seq(Byte) :
           Len(x) = ValueSize(v) /\ EncodeRequirement(q) = <<v, op>> \o x
    BY <1>2, InputRequirementIs
  <1> DEFINE m == EncodeRequirements(more)
  <1>4. m \in Seq(Int) /\ EncodeRequirements(rs) = EncodeRequirement(q) \o m
    BY <1>2, EncodeRequirementsCons
  <1>5. used < MaxRequirements
    <2>1. PICK groups \in Seq(Seq(InputRequirements)) : used + r + Len(FlattenSeq(groups)) <= MaxRequirements
      BY <1>1 DEF GroupsToCome
    <2>2. Len(FlattenSeq(groups)) \in Nat
      BY FlattenType
    <2> QED
      BY <2>1, <2>2, ConstantsAssumption
  <1>6. RequirementsToCome(m \o g, r - 1, left, used + 1)
    <2>1. used + 1 + (r - 1) = used + r
      OBVIOUS
    <2> QED
      BY <1>1, <1>2, <2>1 DEF RequirementsToCome
  <1> HIDE DEF m
  <1>7. m \o g \in Seq(Int) /\ rest = <<v, op>> \o (x \o (m \o g))
    <2> DEFINE a == <<v, op>>
    <2>1. a \in Seq(Int) /\ x \in Seq(Int)
      BY ByteFacts DEF VariableIdentifiers, TEMPERATURE, LIGHT_INTENSITY
    <2>2. rest = ((a \o x) \o m) \o g
      BY <1>1, <1>3, <1>4
    <2> HIDE DEF a
    <2>3. Cat(Cat(Cat(a, x), m), g) = Cat(a, Cat(x, Cat(m, g)))
      BY <1>4, <2>1, Cat4
    <2>4. m \o g \in Seq(Int)
      BY <1>4, Ints, Zenon
    <2> QED
      BY <2>2, <2>3, <2>4 DEF Cat, a
  <1> QED
    BY <1>3, <1>5, <1>6, <1>7 DEF RequirementFirst

\* The end of a group, and of all groups.
LEMMA NoRequirementToCome ==
  ASSUME NEW rest, NEW left, NEW used \in Nat, RequirementsToCome(rest, 0, left, used)
  PROVE  GroupsToCome(rest, left, used)
  <1>1. PICK rs \in Seq(InputRequirements), g \in Seq(Int) :
          /\ rest = EncodeRequirements(rs) \o g /\ Len(rs) = 0
          /\ GroupsToCome(g, left, used + 0)
    BY DEF RequirementsToCome
  <1>2. rs = <<>> /\ used + 0 = used
    BY <1>1
  <1>3. rest = g
    BY <1>1, <1>2, EncodeEmpty, ConcatEmpty
  <1> QED
    BY <1>1, <1>2, <1>3

LEMMA NoGroupToCome ==
  ASSUME NEW rest, NEW used, GroupsToCome(rest, 0, used)
  PROVE  rest = <<>>
  <1>1. PICK groups \in Seq(Seq(InputRequirements)) : rest = EncodeGroups(groups) /\ Len(groups) = 0
    BY DEF GroupsToCome
  <1>2. groups = <<>>
    BY <1>1
  <1> QED
    BY <1>1, <1>2, EncodeEmpty

\* How the groups are cut does not matter for the number of requirements.
LEMMA CutTotal ==
  ASSUME NEW S, NEW reqs \in Seq(S), NEW n \in Nat, NEW c, IsCut(c, reqs, n)
  PROVE  /\ Cut(c, reqs, n) \in Seq(Seq(S)) /\ Len(Cut(c, reqs, n)) = n
         /\ Len(FlattenSeq(Cut(c, reqs, n))) = Len(reqs)
  <1>1. c[0] = 0 /\ c[n] = Len(reqs) /\ \A i \in 0..n : c[i] \in Nat
    BY DEF IsCut
  <1>2. ASSUME NEW i \in 1..n
        PROVE  /\ SubSeq(reqs, c[i - 1] + 1, c[i]) \in Seq(S)
               /\ Len(SubSeq(reqs, c[i - 1] + 1, c[i])) = c[i] - c[i - 1]
    <2> DEFINE a == c[i - 1] + 1
               b == c[i]
    <2>1. a \in 1..Len(reqs) + 1 /\ b \in a - 1..Len(reqs)
      BY CutRange
    <2>2. c[i - 1] \in Nat /\ c[i] \in Nat
      <3>1. i \in 0..n /\ i - 1 \in 0..n
        OBVIOUS
      <3> QED
        BY <1>1, <3>1
    <2>3. b - c[i - 1] = b - a + 1
      BY <2>2
    <2> HIDE DEF a, b
    <2>4. SubSeq(reqs, a, b) \in Seq(S)
      BY <2>1, SubSeqOfConcat
    <2>5. Len(SubSeq(reqs, a, b)) = b - a + 1
      BY <2>1
    <2> QED
      BY <2>3, <2>4, <2>5 DEF a, b
  <1>3. ASSUME NEW k \in 0..n
        PROVE  Cut(c, reqs, k) \in Seq(Seq(S)) /\ Len(Cut(c, reqs, k)) = k
    <2> DEFINE s == Cut(c, reqs, k)
    <2>1. s = [i \in 1..k |-> s[i]] /\ \A i \in 1..k : s[i] = SubSeq(reqs, c[i - 1] + 1, c[i])
      BY DEF Cut
    <2> HIDE DEF s
    <2>2. \A i \in 1..k : i \in 1..n
      OBVIOUS
    <2>3. k \in Nat /\ \A i \in 1..k : s[i] \in Seq(S)
      <3>1. k \in Nat
        OBVIOUS
      <3>2. \A i \in 1..k : s[i] \in Seq(S)
        BY <1>2, <2>1, <2>2, Zenon
      <3> QED
        BY <3>1, <3>2
    <2>4. s \in Seq(Seq(S)) /\ Len(s) = k
      BY <2>1, <2>3, MapIs
    <2> QED
      BY <2>4 DEF s
  <1> DEFINE T == {k \in 0..n : Len(FlattenSeq(Cut(c, reqs, k))) # c[k]}
  <1>4. T \in SUBSET Nat
    OBVIOUS
  <1>5. ASSUME T # {}
        PROVE  FALSE
    <2>1. PICK m \in T : \A k \in T : m <= k
      <3> HIDE DEF T
      <3> QED
        BY <1>4, <1>5, LeastNatural, Zenon
    <2>2. m \in 0..n /\ Len(FlattenSeq(Cut(c, reqs, m))) # c[m]
      OBVIOUS
    <2>3. m # 0
      <3>1. Cut(c, reqs, 0) = <<>>
        BY DEF Cut
      <3>2. Len(FlattenSeq(Cut(c, reqs, 0))) = 0
        BY <3>1, FlattenEmpty
      <3> QED
        BY <1>1, <2>2, <3>2
    <2> DEFINE k == m - 1
               f == Cut(c, reqs, k)
               g == SubSeq(reqs, c[m - 1] + 1, c[m])
    <2>4. k \in 0..n /\ m = k + 1 /\ m \in 1..n /\ k \notin T
      BY <2>1, <2>2, <2>3
    <2>5. Len(FlattenSeq(f)) = c[k]
      BY <2>4
    <2>6. f \in Seq(Seq(S)) /\ Len(f) = k /\ g \in Seq(S) /\ Len(g) = c[m] - c[k]
      BY <1>2, <1>3, <2>4
    <2>7. Cut(c, reqs, m) = Append(f, g)
      <3> DEFINE t == Cut(c, reqs, m)
      <3>1. t = [i \in 1..m |-> t[i]] /\ \A i \in 1..m : t[i] = SubSeq(reqs, c[i - 1] + 1, c[i])
        BY DEF Cut
      <3>2. \A i \in 1..k : f[i] = SubSeq(reqs, c[i - 1] + 1, c[i]) /\ i \in 1..m
        <4>1. \A i \in 1..k : i \in 1..m
          BY <2>4
        <4>2. \A i \in 1..k : f[i] = SubSeq(reqs, c[i - 1] + 1, c[i])
          <5> HIDE DEF k
          <5> QED
            BY DEF Cut
        <4> QED
          BY <4>1, <4>2
      <3>3. m \in 1..m
        BY <2>4
      <3>4. t[m] = g /\ \A i \in 1..k : t[i] = f[i]
        <4> HIDE DEF t, f, k
        <4> QED
          BY <3>1, <3>2, <3>3
      <3> HIDE DEF t, f, g, k
      <3>5. /\ t = [i \in 1..Len(f) + 1 |-> t[i]] /\ t[Len(f) + 1] = g
            /\ \A i \in 1..Len(f) : t[i] = f[i]
        BY <2>4, <2>6, <3>1, <3>4
      <3>6. \A u : /\ u = [i \in 1..Len(f) + 1 |-> u[i]] /\ u[Len(f) + 1] = g
                   /\ \A i \in 1..Len(f) : u[i] = f[i]
                   => u = Append(f, g)
        <4> DEFINE Q == Seq(S)
        <4>1. f \in Seq(Q) /\ g \in Q
          BY <2>6
        <4> HIDE DEF Q
        <4> QED
          BY <4>1, AppendIs
      <3>7. t = Append(f, g)
        BY <3>5, <3>6
      <3> QED
        BY <3>7 DEF t
    <2>8. Len(FlattenSeq(Append(f, g))) = c[k] + (c[m] - c[k])
      <3> HIDE DEF f, g, k
      <3>1. FlattenSeq(Append(f, g)) = FlattenSeq(f) \o g /\ FlattenSeq(f) \in Seq(S)
        BY <2>6, FlattenAppend, FlattenType
      <3>2. Len(FlattenSeq(f) \o g) = Len(FlattenSeq(f)) + Len(g)
        BY <2>6, <3>1, Concat, Zenon
      <3> QED
        BY <2>5, <2>6, <3>1, <3>2
    <2>9. c[k] \in Nat /\ c[m] \in Nat
      BY <1>1, <2>2, <2>4
    <2> HIDE DEF k, T, f, g
    <2> QED
      BY <2>2, <2>7, <2>8, <2>9
  <1>6. Len(FlattenSeq(Cut(c, reqs, n))) = c[n]
    <2>1. n \in 0..n
      OBVIOUS
    <2> QED
      BY <1>5, <2>1
  <1> QED
    BY <1>1, <1>3, <1>6

\* rest is the number of groups and the groups.
BodyToCome(rest) ==
  \E n \in Byte : \E e \in Seq(Int) : rest = <<n>> \o e /\ GroupsToCome(e, n, 0)

\* The rest of a message with header h and body b, from some field on.
FromLed(h, b) == IF h.led THEN <<h.led_color>> \o (<<h.led_pattern>> \o b) ELSE b
FromType(h, b) == <<NotificationType(h)>> \o FromLed(h, b)
FromCooldown(h, b) == Bytes(h.cooldown_period, 4) \o FromType(h, b)
FromWarmup(h, b) == Bytes(h.warmup_period, 4) \o FromCooldown(h, b)
FromId(h, b) == <<h.alert_id>> \o FromWarmup(h, b)

\* The headers of clients.
LEMMA InputHeaderFields ==
  ASSUME NEW h \in InputHeaders
  PROVE  /\ h.alert_id \in Byte /\ h.led_color \in Byte /\ h.led_pattern \in Byte
         /\ h.connectivity \in BOOLEAN /\ h.led \in BOOLEAN /\ NotificationType(h) \in 0..3
         /\ h.led <=> NotificationType(h) \in {2, 3}
         /\ Bytes(h.warmup_period, 4) \in Seq(Int) /\ Len(Bytes(h.warmup_period, 4)) = 4
         /\ Bytes(h.cooldown_period, 4) \in Seq(Int) /\ Len(Bytes(h.cooldown_period, 4)) = 4
  <1>1. PICK a \in Inputs["alert_id"], w \in Inputs["warmup_period"], c \in Inputs["cooldown_period"],
             conn \in BOOLEAN, l \in BOOLEAN, col \in Inputs["led_color"], pat \in Inputs["led_pattern"] :
          h = [alert_id |-> LittleEndian(a), warmup_period |-> LittleEndian(w),
               cooldown_period |-> LittleEndian(c), connectivity |-> conn, led |-> l,
               led_color |-> LittleEndian(col), led_pattern |-> LittleEndian(pat)]
    BY DEF InputHeaders
  <1>2. /\ h.alert_id = LittleEndian(a) /\ h.warmup_period = LittleEndian(w)
        /\ h.cooldown_period = LittleEndian(c) /\ h.connectivity = conn /\ h.led = l
        /\ h.led_color = LittleEndian(col) /\ h.led_pattern = LittleEndian(pat)
    BY <1>1
  <1>3. /\ a \in Seq(Byte) /\ Len(a) = 1 /\ col \in Seq(Byte) /\ Len(col) = 1
        /\ pat \in Seq(Byte) /\ Len(pat) = 1
        /\ w \in Seq(Byte) /\ Len(w) = 4 /\ c \in Seq(Byte) /\ Len(c) = 4
    BY InputFacts DEF Fields
  <1>4. h.alert_id \in Byte /\ h.led_color \in Byte /\ h.led_pattern \in Byte
    BY <1>2, <1>3, LittleEndianType
  <1>5. Bytes(h.warmup_period, 4) = w /\ Bytes(h.cooldown_period, 4) = c
    BY <1>2, <1>3, FourBytesBack
  <1>6. NotificationType(h) = (IF conn THEN 1 ELSE 0) + (IF l THEN 2 ELSE 0)
    BY <1>2 DEF NotificationType
  <1>7. NotificationType(h) \in 0..3 /\ (h.led <=> NotificationType(h) \in {2, 3})
    <2>1. CASE conn
      BY <1>2, <1>6, <2>1
    <2>2. CASE ~conn
      BY <1>2, <1>6, <2>2
    <2> QED
      BY <2>1, <2>2
  <1> QED
    BY <1>2, <1>3, <1>4, <1>5, <1>7, ByteSeqs

LEMMA TailTypes ==
  ASSUME NEW h \in InputHeaders, NEW b \in Seq(Int)
  PROVE  /\ FromLed(h, b) \in Seq(Int) /\ FromType(h, b) \in Seq(Int)
         /\ FromCooldown(h, b) \in Seq(Int) /\ FromWarmup(h, b) \in Seq(Int)
         /\ FromId(h, b) \in Seq(Int)
         /\ <<h.led_color>> \in Seq(Int) /\ <<h.led_pattern>> \in Seq(Int)
         /\ <<h.led_pattern>> \o b \in Seq(Int)
  <1>1. /\ <<h.alert_id>> \in Seq(Int) /\ <<h.led_color>> \in Seq(Int) /\ <<h.led_pattern>> \in Seq(Int)
        /\ <<NotificationType(h)>> \in Seq(Int)
    <2>1. \A i \in 0..3 : <<i>> \in Seq(Int)
      OBVIOUS
    <2> QED
      BY <2>1, InputHeaderFields, ByteSeqs, Zenon
  <1>2. <<h.led_pattern>> \o b \in Seq(Int)
    BY <1>1, Concat, Zenon
  <1>3. <<h.led_color>> \o (<<h.led_pattern>> \o b) \in Seq(Int)
    BY <1>1, <1>2, Concat, Zenon
  <1>4. FromLed(h, b) \in Seq(Int)
    BY <1>3 DEF FromLed
  <1>5. FromType(h, b) \in Seq(Int)
    BY <1>1, <1>4, Concat, Zenon DEF FromType
  <1>6. FromCooldown(h, b) \in Seq(Int)
    BY <1>5, InputHeaderFields, Concat, Zenon DEF FromCooldown
  <1>7. FromWarmup(h, b) \in Seq(Int)
    BY <1>6, InputHeaderFields, Concat, Zenon DEF FromWarmup
  <1>8. FromId(h, b) \in Seq(Int)
    BY <1>1, <1>7, Concat, Zenon DEF FromId
  <1> QED
    BY <1>1, <1>2, <1>4, <1>5, <1>6, <1>7, <1>8

\* Two bytes in front of others.
LEMMA TwoInFront ==
  ASSUME NEW x \in Int, NEW y \in Int, NEW s \in Seq(Int)
  PROVE  <<x, y>> \o s = <<x>> \o (<<y>> \o s)
  <1> DEFINE a == <<x>>
             b == <<y>>
  <1>1. a \in Seq(Int) /\ b \in Seq(Int)
    OBVIOUS
  <1>2. a \o b = <<x, y>>
    BY Pairs
  <1> HIDE DEF a, b
  <1>3. Cat(Cat(a, b), s) = Cat(a, Cat(b, s))
    BY <1>1, CatAssoc
  <1>4. (a \o b) \o s = a \o (b \o s)
    BY <1>3 DEF Cat
  <1> QED
    BY <1>2, <1>4 DEF a, b

\* A message begins with its header.
LEMMA HeaderInFront ==
  ASSUME NEW h \in InputHeaders, NEW b \in Seq(Int)
  PROVE  /\ EncodeHeader(h) \in Seq(Int)
         /\ EncodeHeader(h) \o b = <<ADD_ALERT>> \o FromId(h, b)
  <1> DEFINE w == Bytes(h.warmup_period, 4)
             c == Bytes(h.cooldown_period, 4)
             t == <<NotificationType(h)>>
             l == IF h.led THEN <<h.led_color, h.led_pattern>> ELSE <<>>
             a == <<ADD_ALERT, h.alert_id>>
  <1>1. w \in Seq(Int) /\ c \in Seq(Int)
    BY InputHeaderFields
  <1>2. t \in Seq(Int)
    <2>1. \A i \in 0..3 : <<i>> \in Seq(Int)
      OBVIOUS
    <2> QED
      BY <2>1, InputHeaderFields, Zenon
  <1>3. h.alert_id \in Int /\ h.led_color \in Int /\ h.led_pattern \in Int /\ ADD_ALERT \in Int
    BY InputHeaderFields, ByteFacts DEF ADD_ALERT
  <1>4. l \in Seq(Int) /\ a \in Seq(Int)
    BY <1>3
  <1>5. EncodeHeader(h) = (((a \o w) \o c) \o t) \o l
    BY Zenon DEF EncodeHeader
  <1>6. l \o b = FromLed(h, b)
    <2>1. CASE h.led
      <3>1. <<h.led_color, h.led_pattern>> \o b = <<h.led_color>> \o (<<h.led_pattern>> \o b)
        BY <1>3, TwoInFront
      <3> QED
        BY <2>1, <3>1 DEF FromLed
    <2>2. CASE ~h.led
      <3>1. <<>> \o b = b
        BY ConcatEmpty
      <3> QED
        BY <2>2, <3>1 DEF FromLed
    <2> QED
      BY <2>1, <2>2
  <1>7. a \o FromWarmup(h, b) = <<ADD_ALERT>> \o FromId(h, b)
    BY <1>3, TailTypes, TwoInFront DEF FromId
  <1>8. FromWarmup(h, b) = w \o (c \o (t \o FromLed(h, b)))
    BY Zenon DEF FromWarmup, FromCooldown, FromType
  <1> DEFINE awc == (a \o w) \o c
  <1>9. awc \in Seq(Int) /\ awc \o t \in Seq(Int)
    <2>1. a \o w \in Seq(Int)
      BY <1>1, <1>4, Concat, Zenon
    <2>2. awc \in Seq(Int)
      BY <1>1, <2>1, Concat, Zenon
    <2> HIDE DEF awc
    <2> QED
      BY <1>2, <2>2, Concat, Zenon
  <1> HIDE DEF w, c, t, l, a
  <1>10. EncodeHeader(h) \in Seq(Int)
    <2> HIDE DEF awc
    <2>1. (awc \o t) \o l \in Seq(Int)
      BY <1>4, <1>9, Concat, Zenon
    <2> QED
      BY <1>5, <2>1 DEF awc
  <1>11. EncodeHeader(h) \o b = a \o (w \o (c \o (t \o (l \o b))))
    <2>1. Cat(Cat(Cat(awc, t), l), b) = Cat(awc, Cat(t, Cat(l, b))) /\ Cat(t, Cat(l, b)) \in Seq(Int)
      <3> HIDE DEF awc
      <3> QED
        BY <1>2, <1>4, <1>9, Cat4, CatAssoc
    <2>2. \A s \in Seq(Int) : Cat(Cat(Cat(a, w), c), s) = Cat(a, Cat(w, Cat(c, s)))
      BY <1>1, <1>4, Cat4
    <2>3. Cat(awc, Cat(t, Cat(l, b))) = Cat(a, Cat(w, Cat(c, Cat(t, Cat(l, b)))))
      BY <2>1, <2>2 DEF Cat
    <2>4. EncodeHeader(h) \o b = Cat(Cat(Cat(awc, t), l), b)
      BY <1>5, Zenon DEF Cat
    <2> QED
      BY <2>1, <2>3, <2>4, Zenon DEF Cat
  <1> QED
    BY <1>6, <1>7, <1>8, <1>10, <1>11, Zenon

\* The messages of clients, as the parser goes through them.
LEMMA EncodedMessage ==
  ASSUME NEW m \in EncodedMessages
  PROVE  \E h \in InputHeaders, b \in Seq(Int) :
           BodyToCome(b) /\ m = <<ADD_ALERT>> \o FromId(h, b)
  <1>1. PICK reqs \in SeqOf(InputRequirements, MaxRequirements),
             ns \in Inputs["num_ored_requirements"] :
          m \in {Encode(h, groups) : h \in InputHeaders, groups \in Groupings(reqs, ns[1])}
    BY DEF EncodedMessages
  <1>2. PICK h \in InputHeaders, groups \in Groupings(reqs, ns[1]) : m = Encode(h, groups)
    BY <1>1
  <1> DEFINE n == ns[1]
  <1>3. n \in Byte /\ n \in Nat
    BY InputFacts, ByteFacts DEF Fields
  <1>4. reqs \in Seq(InputRequirements) /\ Len(reqs) <= MaxRequirements
    <2>1. PICK k \in 0..MaxRequirements : reqs \in [1..k -> InputRequirements]
      BY Zenon DEF SeqOf
    <2>2. k \in Nat /\ k <= MaxRequirements
      BY ConstantsAssumption
    <2> QED
      BY <2>1, <2>2
  <1>5. PICK c : IsCut(c, reqs, n) /\ groups = Cut(c, reqs, n)
    BY GroupingsAre
  <1> HIDE DEF n
  <1>6. /\ groups \in Seq(Seq(InputRequirements)) /\ Len(groups) = n
        /\ Len(FlattenSeq(groups)) = Len(reqs)
    BY <1>3, <1>4, <1>5, CutTotal
  <1> DEFINE e == EncodeGroups(groups)
             b == <<n>> \o e
             x == <<n>>
  <1>7. e \in Seq(Int) /\ x \in Seq(Int)
    BY <1>3, <1>6, EncodeGroupsCons
  <1>8. GroupsToCome(e, n, 0)
    <2>1. 0 + Len(FlattenSeq(groups)) <= MaxRequirements
      BY <1>4, <1>6
    <2> QED
      BY <1>6, <2>1 DEF GroupsToCome
  <1>9. BodyToCome(b) /\ b \in Seq(Int)
    <2>1. BodyToCome(b)
      BY <1>3, <1>7, <1>8 DEF BodyToCome
    <2>2. x \o e \in Seq(Int)
      BY <1>7, Concat, Zenon
    <2> QED
      BY <2>1, <2>2
  <1>10. m = (EncodeHeader(h) \o x) \o e
    BY <1>2, <1>6 DEF Encode
  <1>11. m = EncodeHeader(h) \o b
    <2> HIDE DEF x, e
    <2>1. EncodeHeader(h) \in Seq(Int)
      BY <1>9, HeaderInFront
    <2>2. Cat(Cat(EncodeHeader(h), x), e) = Cat(EncodeHeader(h), Cat(x, e))
      BY <1>7, <2>1, CatAssoc
    <2> QED
      BY <1>10, <2>2 DEF Cat, x
  <1> HIDE DEF b
  <1> QED
    BY <1>9, <1>11, HeaderInFront

-----------------------------------------------------------------------------
(* The parser expects what is to come                                       *)

\* The bytes read so far, followed by rest, are a message of a client of this length.
Comes(rest) ==
  bytes \o rest \in EncodedMessages /\ Len(bytes) + Len(rest) = num_bytes

\* rest is what the parser expects: it is in no place where a message of a client
\* does not get it, and goes on with the field that comes next.
ToCome(rest) ==
  /\ pc \notin {"rejected", "removed_id", "remove_alert"}
  /\ pc \in HeaderFields \ {"num_ored_requirements"} =>
       \E h \in InputHeaders : \E b \in Seq(Int) :
         /\ BodyToCome(b)
         /\ pc = "message_id" => rest = <<ADD_ALERT>> \o FromId(h, b)
         /\ pc = "alert_id" => rest = FromId(h, b)
         /\ pc = "warmup_period" => rest = FromWarmup(h, b)
         /\ pc = "cooldown_period" => rest = FromCooldown(h, b)
         /\ pc = "notification_type" => rest = FromType(h, b)
         /\ pc = "led_color" => rest = <<h.led_color>> \o (<<h.led_pattern>> \o b)
         /\ pc = "led_pattern" => rest = <<h.led_pattern>> \o b
  /\ pc = "num_ored_requirements" => BodyToCome(rest)
  /\ pc = "num_variable_requirements" => GroupsToCome(rest, ored_left, Len(alert.reqs))
  /\ pc = "variable_identifier" =>
       RequirementsToCome(rest, reqs_left, ored_left, Len(alert.reqs))
  /\ pc \in ValueFields =>
       \E x \in Seq(Byte) : \E e \in Seq(Int) :
         /\ Len(x) = FieldSize(pc) /\ rest = x \o e
         /\ RequirementsToCome(e, reqs_left - 1, ored_left, Len(alert.reqs))

ExpectsTheMessage == \A rest \in Seq(Int) : Comes(rest) => ToCome(rest)

\* Before bs was read, it was to come.
LEMMA ReadOn ==
  ASSUME MessageInv, NEW bs \in Seq(Byte), bytes' = bytes \o bs, num_bytes' = num_bytes,
         NEW rest \in Seq(Int), Comes(rest)'
  PROVE  bs \in Seq(Int) /\ bs \o rest \in Seq(Int) /\ Comes(bs \o rest)
  <1>1. bytes \in Seq(Int) /\ bs \in Seq(Int)
    BY ByteSeqs DEF MessageInv, TypeOK
  <1>2. bytes' \o rest \in EncodedMessages /\ Len(bytes') + Len(rest) = num_bytes'
    BY DEF Comes
  <1>3. bytes \o (bs \o rest) \in EncodedMessages
    <2>1. Cat(Cat(bytes, bs), rest) = Cat(bytes, Cat(bs, rest))
      BY <1>1, CatAssoc
    <2> QED
      BY <1>2, <2>1 DEF Cat
  <1>4. bs \o rest \in Seq(Int)
    BY <1>1, Concat, Zenon
  <1>5. Len(bytes) + Len(bs \o rest) = num_bytes
    <2>1. Len(bytes \o bs) = Len(bytes) + Len(bs) /\ Len(bs \o rest) = Len(bs) + Len(rest)
      BY <1>1, IntsAt, Zenon
    <2>2. Len(bytes) \in Nat /\ Len(bs) \in Nat /\ Len(rest) \in Nat
      BY <1>1
    <2>3. Len(bytes \o bs) + Len(rest) = num_bytes
      BY <1>2
    <2> QED
      BY <2>1, <2>2, <2>3
  <1> QED
    BY <1>1, <1>3, <1>4, <1>5 DEF Comes

\* A field that is to come is available.
LEMMA Available ==
  ASSUME MessageInv, NEW f \in Seq(Int), NEW e \in Seq(Int), Comes(f \o e)
  PROVE  (IsXBytesAvailable(Len(f)) /\ num_bytes > 0) \/ Len(f) = 0
  <1>1. bytes \in Seq(Int)
    BY ByteSeqs DEF MessageInv, TypeOK
  <1>2. Len(f \o e) = Len(f) + Len(e)
    BY IntsAt, Zenon
  <1>3. Len(bytes) \in Nat /\ Len(f) \in Nat /\ Len(e) \in Nat
    BY <1>1
  <1>4. Len(bytes) + (Len(f) + Len(e)) = num_bytes
    BY <1>2 DEF Comes
  <1> QED
    BY <1>3, <1>4 DEF IsXBytesAvailable

\* No message of a client is dropped in the middle of a field that it has.
LEMMA NotDropped ==
  ASSUME MessageInv, NEW n \in Nat \ {0}, ~IsXBytesAvailable(n) \/ num_bytes = 0, Reject,
         \A rest \in Seq(Int) : Comes(rest) =>
           \E f \in Seq(Int), e \in Seq(Int) : Len(f) = n /\ rest = f \o e
  PROVE  ExpectsTheMessage'
  <1>1. SUFFICES ASSUME NEW rest \in Seq(Int), Comes(rest)'
                 PROVE  FALSE
    BY DEF ExpectsTheMessage
  <1>2. Comes(rest)
    BY <1>1 DEF Comes, Reject
  <1>3. PICK f \in Seq(Int), e \in Seq(Int) : Len(f) = n /\ rest = f \o e
    BY <1>2
  <1>4. IsXBytesAvailable(n) /\ num_bytes > 0
    BY <1>2, <1>3, Available
  <1> QED
    BY <1>4

\* The head of the message.
LEMMA HeadExpects ==
  ASSUME MessageInv, ExpectsTheMessage, ReceiveCb \/ HandleRemoveAlertMessage
  PROVE  ExpectsTheMessage'
  <1> DEFINE a == <<ADD_ALERT>>
  <1>1. a \in Seq(Int) /\ Len(a) = 1 /\ a[1] = ADD_ALERT
    BY DEF ADD_ALERT
  <1>2. ASSUME pc = "message_id", NEW rest \in Seq(Int), Comes(rest)
        PROVE  \E h \in InputHeaders, b \in Seq(Int) :
                 BodyToCome(b) /\ rest = a \o FromId(h, b) /\ FromId(h, b) \in Seq(Int)
    <2>1. PICK h \in InputHeaders, b \in Seq(Int) : BodyToCome(b) /\ rest = <<ADD_ALERT>> \o FromId(h, b)
      BY <1>2 DEF ExpectsTheMessage, ToCome, HeaderFields
    <2> QED
      BY <2>1, TailTypes
  <1> HIDE DEF a
  <1>3. CASE pc = "message_id" /\ num_bytes = 0 /\ Reject
    <2>1. \A rest \in Seq(Int) : Comes(rest) =>
            \E f \in Seq(Int), e \in Seq(Int) : Len(f) = 1 /\ rest = f \o e
      BY <1>1, <1>2, <1>3
    <2>2. 1 \in Nat \ {0}
      OBVIOUS
    <2> QED
      BY <1>3, <2>1, <2>2, NotDropped, Zenon
  <1>4. ASSUME NEW bs \in Inputs["message_id"], pc = "message_id", Read(bs),
               pc' = CASE bs[1] = ADD_ALERT    -> "alert_id"
                       [] bs[1] = REMOVE_ALERT -> "removed_id"
                       [] OTHER                -> "rejected",
               UNCHANGED <<num_bytes, alert, ored_left, reqs_left>>
        PROVE  ExpectsTheMessage'
    <2>1. SUFFICES ASSUME NEW rest \in Seq(Int), Comes(rest)'
                   PROVE  ToCome(rest)'
      BY DEF ExpectsTheMessage
    <2>2. bs \in Seq(Byte) /\ Len(bs) = 1
      BY InputFacts DEF Fields
    <2>3. bs \in Seq(Int) /\ bs \o rest \in Seq(Int) /\ Comes(bs \o rest)
      BY <1>4, <2>1, <2>2, ReadOn DEF Read
    <2>4. PICK h \in InputHeaders, b \in Seq(Int) :
            BodyToCome(b) /\ bs \o rest = a \o FromId(h, b) /\ FromId(h, b) \in Seq(Int)
      BY <1>2, <1>4, <2>3
    <2>5. bs = a /\ rest = FromId(h, b)
      BY <1>1, <2>2, <2>3, <2>4, Cancel
    <2>6. pc' = "alert_id"
      <3>1. bs[1] = ADD_ALERT
        BY <1>1, <2>5
      <3> QED
        BY <1>4, <3>1 DEF ADD_ALERT, REMOVE_ALERT
    <2> QED
      BY <2>4, <2>5, <2>6 DEF ToCome, HeaderFields, ValueFields
  <1>5. CASE HandleRemoveAlertMessage
    <2>1. \A rest \in Seq(Int) : ~Comes(rest)
      BY <1>5 DEF ExpectsTheMessage, ToCome, HandleRemoveAlertMessage
    <2>2. CASE Reject
      BY <2>1, <2>2 DEF ExpectsTheMessage, Comes, Reject
    <2>3. ASSUME NEW bs \in Inputs["alert_id"], Read(bs), UNCHANGED num_bytes
          PROVE  ExpectsTheMessage'
      <3>1. bs \in Seq(Byte)
        BY InputFacts DEF Fields
      <3> QED
        BY <2>1, <2>3, <3>1, ReadOn DEF ExpectsTheMessage, Read
    <2> QED
      BY <1>5, <2>2, <2>3 DEF HandleRemoveAlertMessage
  <1> QED
    BY <1>3, <1>4, <1>5 DEF ReceiveCb

\* A field of fixed length: what comes after it came behind it.
LEMMA FieldExpects ==
  ASSUME MessageInv,
         NEW field \in {"alert_id", "warmup_period", "cooldown_period", "led_color", "led_pattern"},
         NEW next, ParseField(field, FieldSize(field), next),
         \A rest \in Seq(Int) : Comes(rest) =>
           \E f \in Seq(Int), e \in Seq(Int) : Len(f) = FieldSize(field) /\ rest = f \o e
  PROVE  \/ ExpectsTheMessage'
         \/ pc' = next /\ alert'.reqs = alert.reqs
            /\ \A rest \in Seq(Int) : Comes(rest)' =>
                 \E bs \in Seq(Int) : /\ Len(bs) = FieldSize(field) /\ bs \o rest \in Seq(Int)
                                      /\ Comes(bs \o rest)
  <1>1. FieldSize(field) \in {1, 4}
    BY DEF FieldSize
  <1>2. CASE ~IsXBytesAvailable(FieldSize(field)) /\ Reject
    <2>1. FieldSize(field) \in Nat \ {0}
      BY <1>1
    <2> QED
      BY <1>2, <2>1, NotDropped
  <1>3. ASSUME NEW bs \in Inputs[field], Read(bs), pc' = next, UNCHANGED num_bytes,
               alert' = [alert EXCEPT ![field] = LittleEndian(bs)]
        PROVE  /\ pc' = next /\ alert'.reqs = alert.reqs
               /\ \A rest \in Seq(Int) : Comes(rest)' =>
                    \E b \in Seq(Int) : /\ Len(b) = FieldSize(field) /\ b \o rest \in Seq(Int)
                                        /\ Comes(b \o rest)
    <2>1. bs \in Seq(Byte) /\ Len(bs) = FieldSize(field)
      BY InputFacts DEF FieldSize, Fields
    <2>2. ASSUME NEW rest \in Seq(Int), Comes(rest)'
          PROVE  bs \in Seq(Int) /\ bs \o rest \in Seq(Int) /\ Comes(bs \o rest)
      BY <1>3, <2>1, <2>2, ReadOn DEF Read
    <2>3. alert'.reqs = alert.reqs
      BY <1>3 DEF MessageInv, TypeOK, Alert
    <2> QED
      BY <1>3, <2>1, <2>2, <2>3
  <1> QED
    BY <1>2, <1>3 DEF ParseField

\* The fields of the header.
LEMMA ParseAlertIdExpects ==
  ASSUME MessageInv, ExpectsTheMessage, ParseAlertId
  PROVE  ExpectsTheMessage'
  <1>1. /\ ParseField("alert_id", FieldSize("alert_id"), "warmup_period")
        /\ FieldSize("alert_id") = 1 /\ pc = "alert_id"
    BY DEF ParseAlertId, ParseField, FieldSize
  <1>2. ASSUME NEW rest \in Seq(Int), Comes(rest)
        PROVE  \E h \in InputHeaders, b \in Seq(Int), f \in Seq(Int), e \in Seq(Int) :
                 /\ BodyToCome(b) /\ f = <<h.alert_id>> /\ e = FromWarmup(h, b)
                 /\ rest = f \o e /\ Len(f) = 1
    <2>1. PICK h \in InputHeaders, b \in Seq(Int) : BodyToCome(b) /\ rest = FromId(h, b)
      BY <1>1, <1>2 DEF ExpectsTheMessage, ToCome, HeaderFields
    <2>2. <<h.alert_id>> \in Seq(Int) /\ Len(<<h.alert_id>>) = 1
      BY InputHeaderFields, ByteSeqs
    <2>3. FromWarmup(h, b) \in Seq(Int)
      BY TailTypes
    <2>4. rest = <<h.alert_id>> \o FromWarmup(h, b)
      BY <2>1, Zenon DEF FromId
    <2> QED
      BY <2>1, <2>2, <2>3, <2>4
  <1>3. \A rest \in Seq(Int) : Comes(rest) =>
          \E f \in Seq(Int), e \in Seq(Int) : Len(f) = FieldSize("alert_id") /\ rest = f \o e
    BY <1>1, <1>2
  <1>4. SUFFICES ASSUME pc' = "warmup_period", alert'.reqs = alert.reqs,
                        NEW rest \in Seq(Int), NEW bs \in Seq(Int), Len(bs) = 1,
                        bs \o rest \in Seq(Int), Comes(bs \o rest)
                 PROVE  ToCome(rest)'
    BY <1>1, <1>3, FieldExpects DEF ExpectsTheMessage
  <1>5. PICK h \in InputHeaders, b \in Seq(Int), f \in Seq(Int), e \in Seq(Int) :
          /\ BodyToCome(b) /\ f = <<h.alert_id>> /\ e = FromWarmup(h, b)
          /\ bs \o rest = f \o e /\ Len(f) = 1
    BY <1>2, <1>4
  <1>6. rest = e
    <2>1. bs \o rest = f \o e /\ Len(bs) = Len(f)
      BY <1>4, <1>5
    <2> QED
      BY <2>1, Cancel
  <1> QED
    BY <1>4, <1>5, <1>6 DEF ToCome, HeaderFields, ValueFields

LEMMA ParseWarmupPeriodExpects ==
  ASSUME MessageInv, ExpectsTheMessage, ParseWarmupPeriod
  PROVE  ExpectsTheMessage'
  <1>1. /\ ParseField("warmup_period", FieldSize("warmup_period"), "cooldown_period")
        /\ FieldSize("warmup_period") = 4 /\ pc = "warmup_period"
    BY DEF ParseWarmupPeriod, ParseField, FieldSize
  <1>2. ASSUME NEW rest \in Seq(Int), Comes(rest)
        PROVE  \E h \in InputHeaders, b \in Seq(Int), f \in Seq(Int), e \in Seq(Int) :
                 /\ BodyToCome(b) /\ f = Bytes(h.warmup_period, 4) /\ e = FromCooldown(h, b)
                 /\ rest = f \o e /\ Len(f) = 4
    <2>1. PICK h \in InputHeaders, b \in Seq(Int) : BodyToCome(b) /\ rest = FromWarmup(h, b)
      BY <1>1, <1>2 DEF ExpectsTheMessage, ToCome, HeaderFields
    <2>2. Bytes(h.warmup_period, 4) \in Seq(Int) /\ Len(Bytes(h.warmup_period, 4)) = 4
      BY InputHeaderFields, ByteSeqs
    <2>3. FromCooldown(h, b) \in Seq(Int)
      BY TailTypes
    <2>4. rest = Bytes(h.warmup_period, 4) \o FromCooldown(h, b)
      BY <2>1, Zenon DEF FromWarmup
    <2> QED
      BY <2>1, <2>2, <2>3, <2>4
  <1>3. \A rest \in Seq(Int) : Comes(rest) =>
          \E f \in Seq(Int), e \in Seq(Int) : Len(f) = FieldSize("warmup_period") /\ rest = f \o e
    BY <1>1, <1>2
  <1>4. SUFFICES ASSUME pc' = "cooldown_period", alert'.reqs = alert.reqs,
                        NEW rest \in Seq(Int), NEW bs \in Seq(Int), Len(bs) = 4,
                        bs \o rest \in Seq(Int), Comes(bs \o rest)
                 PROVE  ToCome(rest)'
    BY <1>1, <1>3, FieldExpects DEF ExpectsTheMessage
  <1>5. PICK h \in InputHeaders, b \in Seq(Int), f \in Seq(Int), e \in Seq(Int) :
          /\ BodyToCome(b) /\ f = Bytes(h.warmup_period, 4) /\ e = FromCooldown(h, b)
          /\ bs \o rest = f \o e /\ Len(f) = 4
    BY <1>2, <1>4
  <1>6. rest = e
    <2>1. bs \o rest = f \o e /\ Len(bs) = Len(f)
      BY <1>4, <1>5
    <2> QED
      BY <2>1, Cancel
  <1> QED
    BY <1>4, <1>5, <1>6 DEF ToCome, HeaderFields, ValueFields

LEMMA ParseCooldownPeriodExpects ==
  ASSUME MessageInv, ExpectsTheMessage, ParseCooldownPeriod
  PROVE  ExpectsTheMessage'
  <1>1. /\ ParseField("cooldown_period", FieldSize("cooldown_period"), "notification_type")
        /\ FieldSize("cooldown_period") = 4 /\ pc = "cooldown_period"
    BY DEF ParseCooldownPeriod, ParseField, FieldSize
  <1>2. ASSUME NEW rest \in Seq(Int), Comes(rest)
        PROVE  \E h \in InputHeaders, b \in Seq(Int), f \in Seq(Int), e \in Seq(Int) :
                 /\ BodyToCome(b) /\ f = Bytes(h.cooldown_period, 4) /\ e = FromType(h, b)
                 /\ rest = f \o e /\ Len(f) = 4
    <2>1. PICK h \in InputHeaders, b \in Seq(Int) : BodyToCome(b) /\ rest = FromCooldown(h, b)
      BY <1>1, <1>2 DEF ExpectsTheMessage, ToCome, HeaderFields
    <2>2. Bytes(h.cooldown_period, 4) \in Seq(Int) /\ Len(Bytes(h.cooldown_period, 4)) = 4
      BY InputHeaderFields, ByteSeqs
    <2>3. FromType(h, b) \in Seq(Int)
      BY TailTypes
    <2>4. rest = Bytes(h.cooldown_period, 4) \o FromType(h, b)
      BY <2>1, Zenon DEF FromCooldown
    <2> QED
      BY <2>1, <2>2, <2>3, <2>4
  <1>3. \A rest \in Seq(Int) : Comes(rest) =>
          \E f \in Seq(Int), e \in Seq(Int) : Len(f) = FieldSize("cooldown_period") /\ rest = f \o e
    BY <1>1, <1>2
  <1>4. SUFFICES ASSUME pc' = "notification_type", alert'.reqs = alert.reqs,
                        NEW rest \in Seq(Int), NEW bs \in Seq(Int), Len(bs) = 4,
                        bs \o rest \in Seq(Int), Comes(bs \o rest)
                 PROVE  ToCome(rest)'
    BY <1>1, <1>3, FieldExpects DEF ExpectsTheMessage
  <1>5. PICK h \in InputHeaders, b \in Seq(Int), f \in Seq(Int), e \in Seq(Int) :
          /\ BodyToCome(b) /\ f = Bytes(h.cooldown_period, 4) /\ e = FromType(h, b)
          /\ bs \o rest = f \o e /\ Len(f) = 4
    BY <1>2, <1>4
  <1>6. rest = e
    <2>1. bs \o rest = f \o e /\ Len(bs) = Len(f)
      BY <1>4, <1>5
    <2> QED
      BY <2>1, Cancel
  <1> QED
    BY <1>4, <1>5, <1>6 DEF ToCome, HeaderFields, ValueFields

LEMMA ParseLedColorExpects ==
  ASSUME MessageInv, ExpectsTheMessage, ParseLedColor
  PROVE  ExpectsTheMessage'
  <1>1. /\ ParseField("led_color", FieldSize("led_color"), "led_pattern")
        /\ FieldSize("led_color") = 1 /\ pc = "led_color"
    BY DEF ParseLedColor, ParseField, FieldSize
  <1>2. ASSUME NEW rest \in Seq(Int), Comes(rest)
        PROVE  \E h \in InputHeaders, b \in Seq(Int), f \in Seq(Int), e \in Seq(Int) :
                 /\ BodyToCome(b) /\ f = <<h.led_color>> /\ e = <<h.led_pattern>> \o b
                 /\ rest = f \o e /\ Len(f) = 1
    <2>1. PICK h \in InputHeaders, b \in Seq(Int) : BodyToCome(b) /\ rest = <<h.led_color>> \o (<<h.led_pattern>> \o b)
      BY <1>1, <1>2 DEF ExpectsTheMessage, ToCome, HeaderFields
    <2>2. <<h.led_color>> \in Seq(Int) /\ Len(<<h.led_color>>) = 1
      BY InputHeaderFields, ByteSeqs
    <2>3. <<h.led_pattern>> \o b \in Seq(Int)
      BY TailTypes
    <2>4. rest = <<h.led_color>> \o (<<h.led_pattern>> \o b)
      BY <2>1, Zenon
    <2> QED
      BY <2>1, <2>2, <2>3, <2>4
  <1>3. \A rest \in Seq(Int) : Comes(rest) =>
          \E f \in Seq(Int), e \in Seq(Int) : Len(f) = FieldSize("led_color") /\ rest = f \o e
    BY <1>1, <1>2
  <1>4. SUFFICES ASSUME pc' = "led_pattern", alert'.reqs = alert.reqs,
                        NEW rest \in Seq(Int), NEW bs \in Seq(Int), Len(bs) = 1,
                        bs \o rest \in Seq(Int), Comes(bs \o rest)
                 PROVE  ToCome(rest)'
    BY <1>1, <1>3, FieldExpects DEF ExpectsTheMessage
  <1>5. PICK h \in InputHeaders, b \in Seq(Int), f \in Seq(Int), e \in Seq(Int) :
          /\ BodyToCome(b) /\ f = <<h.led_color>> /\ e = <<h.led_pattern>> \o b
          /\ bs \o rest = f \o e /\ Len(f) = 1
    BY <1>2, <1>4
  <1>6. rest = e
    <2>1. bs \o rest = f \o e /\ Len(bs) = Len(f)
      BY <1>4, <1>5
    <2> QED
      BY <2>1, Cancel
  <1> QED
    BY <1>4, <1>5, <1>6 DEF ToCome, HeaderFields, ValueFields

LEMMA ParseLedPatternExpects ==
  ASSUME MessageInv, ExpectsTheMessage, ParseLedPattern
  PROVE  ExpectsTheMessage'
  <1>1. /\ ParseField("led_pattern", FieldSize("led_pattern"), "num_ored_requirements")
        /\ FieldSize("led_pattern") = 1 /\ pc = "led_pattern"
    BY DEF ParseLedPattern, ParseField, FieldSize
  <1>2. ASSUME NEW rest \in Seq(Int), Comes(rest)
        PROVE  \E h \in InputHeaders, b \in Seq(Int), f \in Seq(Int), e \in Seq(Int) :
                 /\ BodyToCome(b) /\ f = <<h.led_pattern>> /\ e = b
                 /\ rest = f \o e /\ Len(f) = 1
    <2>1. PICK h \in InputHeaders, b \in Seq(Int) : BodyToCome(b) /\ rest = <<h.led_pattern>> \o b
      BY <1>1, <1>2 DEF ExpectsTheMessage, ToCome, HeaderFields
    <2>2. <<h.led_pattern>> \in Seq(Int) /\ Len(<<h.led_pattern>>) = 1
      BY InputHeaderFields, ByteSeqs
    <2>3. b \in Seq(Int)
      BY TailTypes
    <2>4. rest = <<h.led_pattern>> \o b
      BY <2>1, Zenon
    <2> QED
      BY <2>1, <2>2, <2>3, <2>4
  <1>3. \A rest \in Seq(Int) : Comes(rest) =>
          \E f \in Seq(Int), e \in Seq(Int) : Len(f) = FieldSize("led_pattern") /\ rest = f \o e
    BY <1>1, <1>2
  <1>4. SUFFICES ASSUME pc' = "num_ored_requirements", alert'.reqs = alert.reqs,
                        NEW rest \in Seq(Int), NEW bs \in Seq(Int), Len(bs) = 1,
                        bs \o rest \in Seq(Int), Comes(bs \o rest)
                 PROVE  ToCome(rest)'
    BY <1>1, <1>3, FieldExpects DEF ExpectsTheMessage
  <1>5. PICK h \in InputHeaders, b \in Seq(Int), f \in Seq(Int), e \in Seq(Int) :
          /\ BodyToCome(b) /\ f = <<h.led_pattern>> /\ e = b
          /\ bs \o rest = f \o e /\ Len(f) = 1
    BY <1>2, <1>4
  <1>6. rest = e
    <2>1. bs \o rest = f \o e /\ Len(bs) = Len(f)
      BY <1>4, <1>5
    <2> QED
      BY <2>1, Cancel
  <1> QED
    BY <1>4, <1>5, <1>6 DEF ToCome, HeaderFields, ValueFields

LEMMA ParseNotificationTypeExpects ==
  ASSUME MessageInv, ExpectsTheMessage, ParseNotificationType
  PROVE  ExpectsTheMessage'
  <1>1. ASSUME NEW rest \in Seq(Int), Comes(rest)
        PROVE  \E h \in InputHeaders, b \in Seq(Int), f \in Seq(Int), e \in Seq(Int) :
                 /\ BodyToCome(b) /\ f = <<NotificationType(h)>> /\ e = FromLed(h, b)
                 /\ rest = f \o e /\ Len(f) = 1
    <2>1. PICK h \in InputHeaders, b \in Seq(Int) : BodyToCome(b) /\ rest = FromType(h, b)
      BY <1>1 DEF ExpectsTheMessage, ToCome, HeaderFields, ParseNotificationType
    <2>2. <<NotificationType(h)>> \in Seq(Int) /\ Len(<<NotificationType(h)>>) = 1
      <3>1. \A i \in 0..3 : <<i>> \in Seq(Int) /\ Len(<<i>>) = 1
        OBVIOUS
      <3> QED
        BY <3>1, InputHeaderFields, Zenon
    <2>3. FromLed(h, b) \in Seq(Int)
      BY TailTypes
    <2>4. rest = <<NotificationType(h)>> \o FromLed(h, b)
      BY <2>1, Zenon DEF FromType
    <2> QED
      BY <2>1, <2>2, <2>3, <2>4
  <1>2. CASE ~IsXBytesAvailable(1) /\ Reject
    <2>1. 1 \in Nat \ {0}
      OBVIOUS
    <2>2. \A rest \in Seq(Int) : Comes(rest) =>
            \E f \in Seq(Int), e \in Seq(Int) : Len(f) = 1 /\ rest = f \o e
      BY <1>1
    <2> QED
      BY <1>2, <2>1, <2>2, NotDropped, Zenon
  <1>3. ASSUME NEW bs \in Inputs["notification_type"], Read(bs), UNCHANGED num_bytes,
               pc' = CASE bs[1] > 3            -> "rejected"
                       [] bs[1] \in {2, 3}     -> "led_color"
                       [] OTHER                -> "num_ored_requirements"
        PROVE  ExpectsTheMessage'
    <2>1. SUFFICES ASSUME NEW rest \in Seq(Int), Comes(rest)'
                   PROVE  ToCome(rest)'
      BY DEF ExpectsTheMessage
    <2>2. bs \in Seq(Byte) /\ Len(bs) = 1
      BY InputFacts DEF Fields
    <2>3. bs \in Seq(Int) /\ bs \o rest \in Seq(Int) /\ Comes(bs \o rest)
      BY <1>3, <2>1, <2>2, ReadOn DEF Read
    <2>4. PICK h \in InputHeaders, b \in Seq(Int), f \in Seq(Int), e \in Seq(Int) :
            /\ BodyToCome(b) /\ f = <<NotificationType(h)>> /\ e = FromLed(h, b)
            /\ bs \o rest = f \o e /\ Len(f) = 1
      BY <1>1, <2>3
    <2>5. bs = f /\ rest = e
      BY <2>2, <2>3, <2>4, Cancel
    <2>6. bs[1] = NotificationType(h) /\ bs[1] \in 0..3 /\ (h.led <=> bs[1] \in {2, 3})
      <3>1. bs[1] = NotificationType(h)
        BY <2>4, <2>5
      <3> QED
        BY <3>1, InputHeaderFields
    <2>7. CASE h.led
      <3>1. pc' = "led_color"
        BY <1>3, <2>6, <2>7
      <3>2. rest = <<h.led_color>> \o (<<h.led_pattern>> \o b)
        BY <2>4, <2>5, <2>7 DEF FromLed
      <3> QED
        BY <2>4, <3>1, <3>2 DEF ToCome, HeaderFields, ValueFields
    <2>8. CASE ~h.led
      <3>1. pc' = "num_ored_requirements"
        BY <1>3, <2>6, <2>8
      <3>2. BodyToCome(rest)
        BY <2>4, <2>5, <2>8 DEF FromLed
      <3> QED
        BY <3>1, <3>2 DEF ToCome, HeaderFields, ValueFields
    <2> QED
      BY <2>7, <2>8
  <1> QED
    BY <1>2, <1>3 DEF ParseNotificationType

\* A group is over: the next one comes, or nothing.
LEMMA GroupOver ==
  ASSUME NEW left \in Nat, pc' = NextOred(left), ored_left' = left, num_bytes' = num_bytes,
         bytes' \in Seq(Byte), NEW rest \in Seq(Int), Comes(rest)',
         GroupsToCome(rest, left, Len(alert'.reqs))
  PROVE  ToCome(rest)'
  <1>1. CASE left > 0
    <2>1. pc' = "num_variable_requirements"
      BY <1>1 DEF NextOred
    <2> QED
      BY <2>1 DEF ToCome, HeaderFields, ValueFields
  <1>2. CASE ~(left > 0)
    <2>1. left = 0
      BY <1>2
    <2>2. rest = <<>>
      BY <2>1, NoGroupToCome
    <2>3. Len(bytes') = num_bytes
      <3>1. Len(bytes') + Len(rest) = num_bytes' /\ Len(rest) = 0 /\ Len(bytes') \in Nat
        BY <2>2 DEF Comes
      <3> QED
        BY <3>1
    <2>4. pc' = "add_alert"
      BY <1>2, <2>3 DEF NextOred
    <2> QED
      BY <2>4 DEF ToCome, HeaderFields, ValueFields
  <1> QED
    BY <1>1, <1>2

\* In a group: the next requirement comes, or the end of the group.
LEMMA RequirementOver ==
  ASSUME NEW r \in Nat, NEW left \in Nat, Len(alert'.reqs) \in Nat,
         pc' = IF r > 0 THEN NextRequirement(alert'.reqs) ELSE NextOred(left),
         reqs_left' = r, ored_left' = left, num_bytes' = num_bytes,
         bytes' \in Seq(Byte), NEW rest \in Seq(Int), Comes(rest)',
         RequirementsToCome(rest, r, left, Len(alert'.reqs))
  PROVE  ToCome(rest)'
  <1>1. CASE r > 0
    <2>1. Len(alert'.reqs) < MaxRequirements
      BY <1>1, RequirementToCome
    <2>2. pc' = "variable_identifier"
      BY <1>1, <2>1, ConstantsAssumption DEF NextRequirement
    <2> QED
      BY <2>2 DEF ToCome, HeaderFields, ValueFields
  <1>2. CASE ~(r > 0)
    <2>1. r = 0 /\ pc' = NextOred(left)
      BY <1>2
    <2>2. GroupsToCome(rest, left, Len(alert'.reqs))
      BY <2>1, NoRequirementToCome
    <2> QED
      BY <2>1, <2>2, GroupOver
  <1> QED
    BY <1>1, <1>2

\* The numbers of requirements.
LEMMA ParseNumOredRequirementsExpects ==
  ASSUME ContentInv, ExpectsTheMessage, ParseNumOredRequirements
  PROVE  ExpectsTheMessage'
  <1>1. MessageInv /\ alert.reqs = <<>>
    BY DEF ContentInv, HeaderContent, HeaderFields, ParseNumOredRequirements
  <1>2. ASSUME NEW rest \in Seq(Int), Comes(rest)
        PROVE  \E n \in Byte, f \in Seq(Int), e \in Seq(Int) :
                 f = <<n>> /\ rest = f \o e /\ Len(f) = 1 /\ GroupsToCome(e, n, 0)
    <2>1. PICK n \in Byte, e \in Seq(Int) : rest = <<n>> \o e /\ GroupsToCome(e, n, 0)
      BY <1>2 DEF ExpectsTheMessage, ToCome, ParseNumOredRequirements, BodyToCome
    <2>2. <<n>> \in Seq(Int) /\ Len(<<n>>) = 1
      BY ByteSeqs
    <2> QED
      BY <2>1, <2>2
  <1>3. CASE ~IsXBytesAvailable(1) /\ Reject
    <2>1. 1 \in Nat \ {0}
      OBVIOUS
    <2>2. \A rest \in Seq(Int) : Comes(rest) =>
            \E f \in Seq(Int), e \in Seq(Int) : Len(f) = 1 /\ rest = f \o e
      BY <1>2
    <2> QED
      BY <1>1, <1>3, <2>1, <2>2, NotDropped, Zenon
  <1>4. ASSUME NEW bs \in Inputs["num_ored_requirements"], Read(bs), ored_left' = bs[1],
               pc' = NextOred(bs[1]), UNCHANGED <<num_bytes, alert, reqs_left>>
        PROVE  ExpectsTheMessage'
    <2>1. SUFFICES ASSUME NEW rest \in Seq(Int), Comes(rest)'
                   PROVE  ToCome(rest)'
      BY DEF ExpectsTheMessage
    <2>2. bs \in Seq(Byte) /\ Len(bs) = 1
      BY InputFacts DEF Fields
    <2>3. bs \in Seq(Int) /\ bs \o rest \in Seq(Int) /\ Comes(bs \o rest)
      BY <1>1, <1>4, <2>1, <2>2, ReadOn DEF Read
    <2>4. PICK n \in Byte, f \in Seq(Int), e \in Seq(Int) :
            f = <<n>> /\ bs \o rest = f \o e /\ Len(f) = 1 /\ GroupsToCome(e, n, 0)
      BY <1>2, <2>3
    <2>5. bs = f /\ rest = e
      BY <2>2, <2>3, <2>4, Cancel
    <2>6. bs[1] = n /\ n \in Nat
      BY <2>4, <2>5, ByteFacts
    <2>7. pc' = NextOred(n) /\ ored_left' = n /\ num_bytes' = num_bytes /\ Len(alert'.reqs) = 0
      BY <1>1, <1>4, <2>6
    <2>8. bytes' \in Seq(Byte)
      <3>1. bytes \in Seq(Byte)
        BY <1>1 DEF MessageInv, TypeOK
      <3>2. bytes \o bs \in Seq(Byte)
        BY <2>2, <3>1, Concat, Zenon
      <3> QED
        BY <1>4, <3>2 DEF Read
    <2> QED
      BY <2>1, <2>4, <2>5, <2>6, <2>7, <2>8, GroupOver
  <1> QED
    BY <1>3, <1>4 DEF ParseNumOredRequirements

LEMMA ParseNumVariableRequirementsExpects ==
  ASSUME MessageInv, ExpectsTheMessage, ParseNumVariableRequirements
  PROVE  ExpectsTheMessage'
  <1>1. /\ ored_left \in Nat /\ ored_left > 0 /\ Len(alert.reqs) \in Nat /\ bytes \in Seq(Byte)
        /\ pc = "num_variable_requirements"
    <2>1. alert.reqs \in Seq(Requirement)
      BY DEF MessageInv, ReqsComplete, ParseNumVariableRequirements, Fields, ValueFields
    <2> QED
      BY <2>1, ByteFacts DEF MessageInv, TypeOK, InBounds, ParseNumVariableRequirements
  <1>2. ASSUME NEW rest \in Seq(Int), Comes(rest)
        PROVE  \E k \in Nat, f \in Seq(Int), e \in Seq(Int) :
                 /\ f = <<k>> /\ rest = f \o e /\ Len(f) = 1
                 /\ RequirementsToCome(e, k, ored_left - 1, Len(alert.reqs))
    <2>1. GroupsToCome(rest, ored_left, Len(alert.reqs))
      BY <1>1, <1>2 DEF ExpectsTheMessage, ToCome
    <2>2. PICK k \in Nat, e \in Seq(Int) :
            rest = <<k>> \o e /\ RequirementsToCome(e, k, ored_left - 1, Len(alert.reqs))
      BY <1>1, <2>1, GroupToCome
    <2>3. <<k>> \in Seq(Int) /\ Len(<<k>>) = 1
      OBVIOUS
    <2> QED
      BY <2>2, <2>3
  <1>3. CASE ~IsXBytesAvailable(1) /\ Reject
    <2>1. 1 \in Nat \ {0}
      OBVIOUS
    <2>2. \A rest \in Seq(Int) : Comes(rest) =>
            \E f \in Seq(Int), e \in Seq(Int) : Len(f) = 1 /\ rest = f \o e
      BY <1>2
    <2> QED
      BY <1>3, <2>1, <2>2, NotDropped, Zenon
  <1>4. ASSUME NEW bs \in Inputs["num_variable_requirements"], Read(bs),
               reqs_left' = bs[1], ored_left' = ored_left - 1,
               pc' = IF bs[1] > 0 THEN NextRequirement(alert.reqs) ELSE NextOred(ored_left'),
               UNCHANGED <<num_bytes, alert>>
        PROVE  ExpectsTheMessage'
    <2>1. SUFFICES ASSUME NEW rest \in Seq(Int), Comes(rest)'
                   PROVE  ToCome(rest)'
      BY DEF ExpectsTheMessage
    <2>2. bs \in Seq(Byte) /\ Len(bs) = 1
      BY InputFacts DEF Fields
    <2>3. bs \in Seq(Int) /\ bs \o rest \in Seq(Int) /\ Comes(bs \o rest)
      BY <1>4, <2>1, <2>2, ReadOn DEF Read
    <2>4. PICK k \in Nat, f \in Seq(Int), e \in Seq(Int) :
            /\ f = <<k>> /\ bs \o rest = f \o e /\ Len(f) = 1
            /\ RequirementsToCome(e, k, ored_left - 1, Len(alert.reqs))
      BY <1>2, <2>3
    <2>5. bs = f /\ rest = e
      BY <2>2, <2>3, <2>4, Cancel
    <2>6. bs[1] = k
      BY <2>4, <2>5
    <2> DEFINE left == ored_left - 1
    <2>7. left \in Nat /\ Len(alert'.reqs) \in Nat /\ Len(alert'.reqs) = Len(alert.reqs)
          /\ pc' = (IF k > 0 THEN NextRequirement(alert'.reqs) ELSE NextOred(left))
          /\ reqs_left' = k /\ ored_left' = left /\ num_bytes' = num_bytes
      BY <1>1, <1>4, <2>6
    <2>8. bytes' \in Seq(Byte)
      <3>1. bytes \o bs \in Seq(Byte)
        BY <1>1, <2>2, Concat, Zenon
      <3> QED
        BY <1>4, <3>1 DEF Read
    <2>9. RequirementsToCome(rest, k, left, Len(alert'.reqs))
      BY <2>4, <2>5, <2>7
    <2> HIDE DEF left
    <2> QED
      BY <2>1, <2>7, <2>8, <2>9, RequirementOver
  <1> QED
    BY <1>3, <1>4 DEF ParseNumVariableRequirements

\* A requirement.
LEMMA ParseVariableIdentifierExpects ==
  ASSUME MessageInv, ExpectsTheMessage, ParseVariableIdentifier
  PROVE  ExpectsTheMessage'
  <1>1. /\ reqs_left \in Nat /\ reqs_left > 0 /\ bytes \in Seq(Byte) /\ alert \in Alert
        /\ pc = "variable_identifier" /\ Len(alert.reqs) \in Nat
    <2>1. alert.reqs \in Seq(Requirement)
      BY DEF MessageInv, ReqsComplete, ParseVariableIdentifier, Fields, ValueFields
    <2> QED
      BY <2>1, ByteFacts DEF MessageInv, TypeOK, InBounds, ParseVariableIdentifier
  <1>2. ASSUME NEW rest \in Seq(Int), Comes(rest)
        PROVE  \E v \in VariableIdentifiers, op \in Byte, x \in Seq(Byte), e \in Seq(Int),
                  f \in Seq(Int), g \in Seq(Int) :
                 /\ f = <<v, op>> /\ g = x \o e /\ rest = f \o g /\ Len(f) = 2
                 /\ Len(x) = ValueSize(v)
                 /\ RequirementsToCome(e, reqs_left - 1, ored_left, Len(alert.reqs) + 1)
    <2>1. RequirementsToCome(rest, reqs_left, ored_left, Len(alert.reqs))
      BY <1>1, <1>2 DEF ExpectsTheMessage, ToCome
    <2>2. PICK v \in VariableIdentifiers, op \in Byte, x \in Seq(Byte), e \in Seq(Int) :
            /\ Len(x) = ValueSize(v) /\ rest = <<v, op>> \o (x \o e)
            /\ RequirementsToCome(e, reqs_left - 1, ored_left, Len(alert.reqs) + 1)
      <3> DEFINE used == Len(alert.reqs)
                 r == reqs_left
                 left == ored_left
      <3>1. used \in Nat /\ r \in Nat /\ r > 0 /\ RequirementsToCome(rest, r, left, used)
        BY <1>1, <2>1
      <3> HIDE DEF used, r, left
      <3>2. RequirementFirst(rest, r, left, used)
        BY <3>1, RequirementToCome
      <3> QED
        BY <3>2, Zenon DEF used, r, left, RequirementFirst
    <2>3. <<v, op>> \in Seq(Int) /\ Len(<<v, op>>) = 2
      BY ByteFacts DEF VariableIdentifiers, TEMPERATURE, LIGHT_INTENSITY
    <2>4. x \o e \in Seq(Int)
      <3>1. x \in Seq(Int)
        BY ByteSeqs
      <3> QED
        BY <3>1, Concat, Zenon
    <2> QED
      BY <2>2, <2>3, <2>4
  <1>3. CASE ~IsXBytesAvailable(2) /\ Reject
    <2>1. 2 \in Nat \ {0}
      OBVIOUS
    <2>2. \A rest \in Seq(Int) : Comes(rest) =>
            \E f \in Seq(Int), e \in Seq(Int) : Len(f) = 2 /\ rest = f \o e
      <3> TAKE rest \in Seq(Int)
      <3> HAVE Comes(rest)
      <3>1. PICK f \in Seq(Int), g \in Seq(Int) : rest = f \o g /\ Len(f) = 2
        BY <1>2, Zenon
      <3> QED
        BY <3>1
    <2> QED
      BY <1>3, <2>1, <2>2, NotDropped, Zenon
  <1>4. ASSUME NEW bs \in Inputs["variable_identifier"], NEW ops \in Inputs["operator"],
               Read(bs \o ops),
               alert' = [alert EXCEPT !.reqs =
                           Append(@, [variable |-> bs[1], operator |-> ops[1]])],
               pc' = IF bs[1] \in VariableIdentifiers THEN ValueField(bs[1]) ELSE "rejected",
               UNCHANGED <<num_bytes, ored_left, reqs_left>>
        PROVE  ExpectsTheMessage'
    <2>1. SUFFICES ASSUME NEW rest \in Seq(Int), Comes(rest)'
                   PROVE  ToCome(rest)'
      BY DEF ExpectsTheMessage
    <2> DEFINE b == bs \o ops
    <2>2. b \in Seq(Byte) /\ Len(b) = 2 /\ b = <<bs[1], ops[1]>>
      <3>1. bs \in Seq(Byte) /\ Len(bs) = 1 /\ ops \in Seq(Byte) /\ Len(ops) = 1
        BY InputFacts DEF Fields
      <3>2. bs \o ops \in Seq(Byte) /\ Len(bs \o ops) = Len(bs) + Len(ops)
        BY <3>1, Concat, Zenon
      <3>3. bs \o ops = <<bs[1], ops[1]>>
        BY <3>1, ConcatOnes, Zenon
      <3> QED
        BY <3>1, <3>2, <3>3
    <2>3. bytes' = bytes \o b /\ num_bytes' = num_bytes
      BY <1>4 DEF Read
    <2> HIDE DEF b
    <2>4. b \in Seq(Int) /\ b \o rest \in Seq(Int) /\ Comes(b \o rest)
      BY <2>1, <2>2, <2>3, ReadOn
    <2>5. PICK v \in VariableIdentifiers, op \in Byte, x \in Seq(Byte), e \in Seq(Int),
               f \in Seq(Int), g \in Seq(Int) :
            /\ f = <<v, op>> /\ g = x \o e /\ b \o rest = f \o g /\ Len(f) = 2
            /\ Len(x) = ValueSize(v)
            /\ RequirementsToCome(e, reqs_left - 1, ored_left, Len(alert.reqs) + 1)
      BY <1>2, <2>4
    <2>6. b = f /\ rest = g
      <3>1. b \o rest = f \o g /\ Len(b) = Len(f)
        BY <2>2, <2>5
      <3> QED
        BY <2>4, <3>1, Cancel
    <2>7. bs[1] = v
      BY <2>2, <2>5, <2>6
    <2>8. pc' = ValueField(v) /\ pc' \in ValueFields /\ FieldSize(pc') = ValueSize(v)
      BY <1>4, <2>7 DEF ValueField, ValueFields, FieldSize, ValueSize
    <2>9. Len(alert'.reqs) = Len(alert.reqs) + 1
      <3> DEFINE r == [variable |-> bs[1], operator |-> ops[1]]
      <3>1. alert' = [alert EXCEPT !.reqs = Append(alert.reqs, r)]
            /\ alert.reqs \in Seq(Requirement \cup OpenRequirement)
        BY <1>1, <1>4 DEF Alert
      <3> HIDE DEF r
      <3>2. alert'.reqs = Append(alert.reqs, r)
        BY <1>1, <3>1 DEF Alert
      <3>3. \A s \in Seq(Requirement \cup OpenRequirement) : Len(Append(s, r)) = Len(s) + 1
        OBVIOUS
      <3> QED
        BY <3>1, <3>2, <3>3
    <2>10. RequirementsToCome(e, reqs_left' - 1, ored_left', Len(alert'.reqs))
      BY <1>4, <2>5, <2>9
    <2>11. rest = x \o e /\ Len(x) = FieldSize(pc')
      BY <2>5, <2>6, <2>8
    <2> QED
      BY <2>8, <2>10, <2>11 DEF ToCome, HeaderFields, ValueFields
  <1> QED
    BY <1>3, <1>4 DEF ParseVariableIdentifier

LEMMA ParseConstraintValueExpects ==
  ASSUME MessageInv, ExpectsTheMessage, NEW field \in ValueFields,
         ParseConstraintValue(field, FieldSize(field))
  PROVE  ExpectsTheMessage'
  <1>1. /\ reqs_left \in Nat /\ reqs_left > 0 /\ ored_left \in Nat /\ bytes \in Seq(Byte)
        /\ alert \in Alert /\ alert.reqs # <<>> /\ pc = field
        /\ alert.reqs \in Seq(Requirement \cup OpenRequirement)
    BY ByteFacts DEF MessageInv, TypeOK, InBounds, ReqsComplete, ParseConstraintValue, Alert
  <1> DEFINE n == FieldSize(field)
  <1>2. n \in {2, 4}
    BY DEF FieldSize, ValueFields
  <1>3. ASSUME NEW rest \in Seq(Int), Comes(rest)
        PROVE  \E f \in Seq(Int), e \in Seq(Int) :
                 /\ Len(f) = n /\ rest = f \o e
                 /\ RequirementsToCome(e, reqs_left - 1, ored_left, Len(alert.reqs))
    <2>1. PICK x \in Seq(Byte), e \in Seq(Int) :
            /\ Len(x) = n /\ rest = x \o e
            /\ RequirementsToCome(e, reqs_left - 1, ored_left, Len(alert.reqs))
      BY <1>1, <1>3 DEF ExpectsTheMessage, ToCome
    <2> QED
      BY <2>1, ByteSeqs
  <1>4. CASE ~IsXBytesAvailable(n) /\ Reject
    <2>1. n \in Nat \ {0}
      BY <1>2
    <2>2. \A rest \in Seq(Int) : Comes(rest) =>
            \E f \in Seq(Int), e \in Seq(Int) : Len(f) = n /\ rest = f \o e
      BY <1>3
    <2> HIDE DEF n
    <2> QED
      BY <1>4, <2>1, <2>2, NotDropped, Zenon
  <1>5. ASSUME NEW bs \in Inputs[field], Read(bs), NEW q,
               alert' = [alert EXCEPT !.reqs = Append(Front(@), q)],
               reqs_left' = reqs_left - 1,
               pc' = IF reqs_left > 1 THEN NextRequirement(alert'.reqs) ELSE NextOred(ored_left),
               UNCHANGED <<num_bytes, ored_left>>
        PROVE  ExpectsTheMessage'
    <2>1. SUFFICES ASSUME NEW rest \in Seq(Int), Comes(rest)'
                   PROVE  ToCome(rest)'
      BY DEF ExpectsTheMessage
    <2>2. bs \in Seq(Byte) /\ Len(bs) = n
      BY InputFacts DEF Fields, ValueFields, FieldSize
    <2>3. bs \in Seq(Int) /\ bs \o rest \in Seq(Int) /\ Comes(bs \o rest)
      BY <1>5, <2>1, <2>2, ReadOn DEF Read
    <2>4. PICK f \in Seq(Int), e \in Seq(Int) :
            /\ Len(f) = n /\ bs \o rest = f \o e
            /\ RequirementsToCome(e, reqs_left - 1, ored_left, Len(alert.reqs))
      BY <1>3, <2>3
    <2>5. rest = e
      <3>1. bs \o rest = f \o e /\ Len(bs) = Len(f)
        BY <2>2, <2>4
      <3> QED
        BY <2>3, <3>1, Cancel
    <2>6. Len(alert'.reqs) = Len(alert.reqs) /\ Len(alert.reqs) \in Nat
      <3>1. alert'.reqs = Append(Front(alert.reqs), q)
        BY <1>1, <1>5 DEF Alert
      <3>2. \A s \in Seq(Requirement \cup OpenRequirement) :
              s # <<>> => Len(Append(Front(s), q)) = Len(s) /\ Len(s) \in Nat
        <4> TAKE s \in Seq(Requirement \cup OpenRequirement)
        <4> HAVE s # <<>>
        <4>1. Len(s) \in Nat /\ Len(s) > 0
          OBVIOUS
        <4>2. Front(s) = SubSeq(s, 1, Len(s) - 1)
          BY DEF Front
        <4>3. Front(s) \in Seq(Requirement \cup OpenRequirement) /\ Len(Front(s)) = Len(s) - 1
          <5> DEFINE k == Len(s) - 1
          <5>1. k \in 0..Len(s)
            BY <4>1
          <5> HIDE DEF k
          <5>2. SubSeq(s, 1, k) \in Seq(Requirement \cup OpenRequirement) /\ Len(SubSeq(s, 1, k)) = k
            BY <5>1
          <5> QED
            BY <4>2, <5>2 DEF k
        <4>4. Len(Append(Front(s), q)) = Len(Front(s)) + 1
          BY <4>3
        <4> QED
          BY <4>1, <4>3, <4>4
      <3> QED
        BY <1>1, <3>1, <3>2
    <2> DEFINE r == reqs_left - 1
    <2>7. /\ r \in Nat /\ Len(alert'.reqs) \in Nat
          /\ pc' = (IF r > 0 THEN NextRequirement(alert'.reqs) ELSE NextOred(ored_left))
          /\ reqs_left' = r /\ ored_left' = ored_left /\ num_bytes' = num_bytes
      BY <1>1, <1>5, <2>6
    <2>8. bytes' \in Seq(Byte)
      <3>1. bytes \o bs \in Seq(Byte)
        BY <1>1, <2>2, Concat, Zenon
      <3> QED
        BY <1>5, <3>1 DEF Read
    <2>9. RequirementsToCome(rest, r, ored_left, Len(alert'.reqs))
      BY <2>4, <2>5, <2>6
    <2> HIDE DEF r
    <2> QED
      BY <1>1, <2>1, <2>7, <2>8, <2>9, RequirementOver
  <1> QED
    BY <1>4, <1>5 DEF ParseConstraintValue

\* The parser expects the message from the start, and after each step.
LEMMA ExpectsInit == Init => ExpectsTheMessage
  <1> SUFFICES ASSUME Init, NEW rest \in Seq(Int), Comes(rest)
               PROVE  ToCome(rest)
    BY DEF ExpectsTheMessage
  <1>1. rest \in EncodedMessages
    <2>1. <<>> \o rest = rest
      OBVIOUS
    <2> QED
      BY <2>1 DEF Init, Comes
  <1> QED
    BY <1>1, EncodedMessage DEF Init, ToCome, HeaderFields, ValueFields

LEMMA ExpectsStep == ContentInv /\ ExpectsTheMessage /\ [Next]_vars => ExpectsTheMessage'
  <1> SUFFICES ASSUME ContentInv, ExpectsTheMessage, [Next]_vars
               PROVE  ExpectsTheMessage'
    OBVIOUS
  <1>1. MessageInv
    BY DEF ContentInv
  <1>2. CASE UNCHANGED vars
    <2>1. SUFFICES ASSUME NEW rest \in Seq(Int), Comes(rest)'
                   PROVE  ToCome(rest)'
      BY DEF ExpectsTheMessage
    <2>2. /\ num_bytes' = num_bytes /\ bytes' = bytes /\ pc' = pc /\ alert' = alert
          /\ ored_left' = ored_left /\ reqs_left' = reqs_left
      BY <1>2 DEF vars
    <2>3. ToCome(rest)
      BY <2>1, <2>2 DEF ExpectsTheMessage, Comes
    <2>4. ToCome(rest) = ToCome(rest)'
      BY <2>2 DEF ToCome
    <2> QED
      BY <2>3, <2>4
  <1>3. CASE ReceiveCb \/ HandleRemoveAlertMessage
    BY <1>1, <1>3, HeadExpects
  <1>4. CASE ParseAlertId
    BY <1>1, <1>4, ParseAlertIdExpects
  <1>5. CASE ParseWarmupPeriod
    BY <1>1, <1>5, ParseWarmupPeriodExpects
  <1>6. CASE ParseCooldownPeriod
    BY <1>1, <1>6, ParseCooldownPeriodExpects
  <1>7. CASE ParseNotificationType
    BY <1>1, <1>7, ParseNotificationTypeExpects
  <1>8. CASE ParseLedColor
    BY <1>1, <1>8, ParseLedColorExpects
  <1>9. CASE ParseLedPattern
    BY <1>1, <1>9, ParseLedPatternExpects
  <1>10. CASE ParseNumOredRequirements
    BY <1>10, ParseNumOredRequirementsExpects
  <1>11. CASE ParseNumVariableRequirements
    BY <1>1, <1>11, ParseNumVariableRequirementsExpects
  <1>12. CASE ParseVariableIdentifier
    BY <1>1, <1>12, ParseVariableIdentifierExpects
  <1>13. CASE ParseTwoByteValue
    <2>1. "two_byte_value" \in ValueFields /\ FieldSize("two_byte_value") = 2
      BY DEF ValueFields, FieldSize
    <2>2. ParseConstraintValue("two_byte_value", FieldSize("two_byte_value"))
      BY <1>13, <2>1 DEF ParseTwoByteValue
    <2> QED
      BY <1>1, <2>1, <2>2, ParseConstraintValueExpects
  <1>14. CASE ParseFourByteValue
    <2>1. "four_byte_value" \in ValueFields /\ FieldSize("four_byte_value") = 4
      BY DEF ValueFields, FieldSize
    <2>2. ParseConstraintValue("four_byte_value", FieldSize("four_byte_value"))
      BY <1>14, <2>1 DEF ParseFourByteValue
    <2> QED
      BY <1>1, <2>1, <2>2, ParseConstraintValueExpects
  <1>15. CASE Done
    BY <1>2, <1>15 DEF Done
  <1> QED
    BY <1>2, <1>3, <1>4, <1>5, <1>6, <1>7, <1>8, <1>9, <1>10, <1>11, <1>12, <1>13, <1>14, <1>15
    DEF Next

\* What is not rejected is what was to come.
LEMMA ExpectsAccepted == ContentInv /\ ExpectsTheMessage => EncodedIsAccepted
  <1> SUFFICES ASSUME ContentInv, ExpectsTheMessage, pc = "rejected", NEW m \in EncodedMessages,
                      Len(m) = num_bytes, IsPrefix(bytes, m)
               PROVE  FALSE
    BY DEF EncodedIsAccepted
  <1>1. bytes \in Seq(Int)
    BY ByteSeqs DEF ContentInv, MessageInv, TypeOK
  <1>2. m \in Seq(Int)
    <2>1. PICK h \in InputHeaders, b \in Seq(Int) : m = <<ADD_ALERT>> \o FromId(h, b)
      BY EncodedMessage
    <2>2. <<ADD_ALERT>> \in Seq(Int) /\ FromId(h, b) \in Seq(Int)
      BY TailTypes DEF ADD_ALERT
    <2> QED
      BY <2>1, <2>2, Concat, Zenon
  <1>3. PICK rest \in Seq(Int) : m = bytes \o rest
    <2> DEFINE k == Len(bytes)
               rest == SubSeq(m, k + 1, Len(m))
    <2>1. k \in Nat /\ k <= Len(m) /\ SubSeq(bytes, 1, k) = SubSeq(m, 1, k)
      BY <1>1 DEF IsPrefix
    <2>2. SubSeq(bytes, 1, k) = bytes
      BY <1>1
    <2>3. rest \in Seq(Int) /\ Len(rest) = Len(m) - k /\ \A i \in 1..Len(m) - k : rest[i] = m[k + i]
      <3> HIDE DEF k
      <3> QED
        BY <1>2, <2>1
    <2>4. \A i \in 1..k : bytes[i] = m[i]
      <3>1. \A i \in 1..k : SubSeq(m, 1, k)[i] = m[i]
        <4> HIDE DEF k
        <4> QED
          BY <1>2, <2>1
      <3> QED
        BY <2>1, <2>2, <3>1
    <2> HIDE DEF rest
    <2>5. /\ bytes \o rest \in Seq(Int) /\ Len(bytes \o rest) = k + (Len(m) - k)
          /\ \A i \in 1..k : (bytes \o rest)[i] = bytes[i]
          /\ \A i \in 1..Len(m) - k : (bytes \o rest)[k + i] = rest[i]
      <3>1. bytes \o rest \in Seq(Int)
        BY <1>1, <2>3, Concat, Zenon
      <3>2. /\ Len(bytes \o rest) = k + Len(rest)
            /\ \A i \in 1..k : (bytes \o rest)[i] = bytes[i]
            /\ \A i \in 1..Len(rest) : (bytes \o rest)[k + i] = rest[i]
        BY <1>1, <2>3, IntsAt, Zenon
      <3> QED
        BY <2>3, <3>1, <3>2
    <2> DEFINE w == bytes \o rest
    <2> HIDE DEF w, k
    <2>6. Len(w) = Len(m) /\ w \in Seq(Int)
      BY <1>2, <2>1, <2>5 DEF w
    <2>7. \A i \in 1..Len(w) : w[i] = m[i]
      <3> TAKE i \in 1..Len(w)
      <3>1. CASE i \in 1..k
        BY <2>4, <2>5, <3>1 DEF w
      <3>2. CASE i \notin 1..k
        <4>1. i - k \in 1..Len(m) - k /\ k + (i - k) = i
          BY <1>2, <2>1, <2>6, <3>2
        <4>2. w[k + (i - k)] = rest[i - k] /\ rest[i - k] = m[k + (i - k)]
          BY <2>3, <2>5, <4>1 DEF w
        <4> QED
          BY <4>1, <4>2
      <3> QED
        BY <3>1, <3>2
    <2>8. w = m
      BY <1>2, <2>6, <2>7, SameInts
    <2> QED
      BY <2>3, <2>8 DEF w
  <1>4. Comes(rest)
    <2>1. Len(bytes \o rest) = Len(bytes) + Len(rest)
      BY <1>1, IntsAt, Zenon
    <2> QED
      BY <1>3, <2>1 DEF Comes
  <1> QED
    BY <1>4 DEF ExpectsTheMessage, ToCome

\* No message that encodes an alert with at most MaxRequirements requirements is
\* dropped, whatever its header is, however its requirements are grouped, and
\* whichever of its fields the parser looks at.
THEOREM MessageEncodedIsAccepted == Spec => []EncodedIsAccepted
  <1>1. Init => ContentInv /\ ExpectsTheMessage
    BY ContentInit, ExpectsInit
  <1>2. ContentInv /\ ExpectsTheMessage /\ [Next]_vars => (ContentInv /\ ExpectsTheMessage)'
    BY ContentStep, ExpectsStep
  <1> QED
    BY <1>1, <1>2, ExpectsAccepted, PTL DEF Spec
=============================================================================
