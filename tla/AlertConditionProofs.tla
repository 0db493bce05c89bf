------------------------ MODULE AlertConditionProofs ------------------------
(***************************************************************************)
(* What the loops of the alert condition, of the alert adder and of the    *)
(* requirement lists compute, for conditions and lists of every length.    *)
(* The loops are recursive functions on the number of turns; what they     *)
(* compute is shown by induction on that number, with the induction        *)
(* hypothesis as a set of numbers.                                         *)
(***************************************************************************)
EXTENDS AlertEngine, FiniteSetTheorems, TLAPS

-----------------------------------------------------------------------------
(* Induction                                                                *)

\* A set of numbers has a smallest one.
LEMMA MinFacts ==
  ASSUME NEW I \in SUBSET Nat, I # {}
  PROVE  Min(I) \in I /\ \A i \in I : Min(I) <= i
  <1>1. PICK m \in I : \A i \in I : <<i, m>> \notin OpToRel(<, Nat)
    BY NatLessThanWellFounded, WFMin
  <1>2. \A i \in I : m <= i
    <2> SUFFICES ASSUME NEW i \in I PROVE m <= i
      OBVIOUS
    <2>1. m \in Nat /\ i \in Nat
      OBVIOUS
    <2>2. ~(i < m)
      BY <1>1, <2>1 DEF OpToRel
    <2> QED
      BY <2>1, <2>2
  <1> QED
    BY <1>2 DEF Min

\* Induction up to n: a set P of turns that has 0, and with each turn the next one,
\* has them all.
LEMMA UpTo ==
  ASSUME NEW n \in Nat, NEW P, 0 \in P, \A i \in 0..n - 1 : i \in P => i + 1 \in P
  PROVE  \A i \in 0..n : i \in P
  <1> DEFINE Q == (0..n) \ P
  <1> SUFFICES ASSUME Q # {} PROVE FALSE
    OBVIOUS
  <1>1. Q \in SUBSET Nat
    OBVIOUS
  <1>2. PICK m \in Q : \A i \in Q : m <= i
    BY <1>1, MinFacts
  <1>3. m \in Nat /\ m # 0 /\ m <= n /\ m - 1 \in 0..n - 1 /\ m - 1 + 1 = m
    BY <1>1
  <1>4. m - 1 \in P
    BY <1>2, <1>3
  <1> QED
    BY <1>3, <1>4

-----------------------------------------------------------------------------
(* The loops are what their definitions say                                 *)

\* The turns of the evaluation.
LEMMA EvaluateLoopTurns ==
  ASSUME NEW items \in Seq(Nat), NEW H
  PROVE  /\ EvaluateLoop(items, H)[0] = [ored |-> FALSE, returned |-> FALSE, evaluated |-> {}]
         /\ \A n \in 1..Len(items) :
              EvaluateLoop(items, H)[n] = EvaluateElement(EvaluateLoop(items, H)[n - 1], items[n], H)
  <1> DEFINE N == Len(items)
             base == [ored |-> FALSE, returned |-> FALSE, evaluated |-> {}]
             Turn(i, x) == EvaluateElement(x, items[i], H)
             Loop(f, n) == [i \in 0..n |-> IF i = 0 THEN base ELSE Turn(i, f[i - 1])]
             P == {n \in 0..N : \E f : f = Loop(f, n)}
  <1>0. N \in Nat
    OBVIOUS
  <1> HIDE DEF Turn, base, N
  <1>1. 0 \in P
    <2> DEFINE f == [i \in 0..0 |-> base]
    <2>1. f = Loop(f, 0)
      OBVIOUS
    <2>2. \E g : g = Loop(g, 0)
      BY <2>1
    <2> QED
      BY <1>0, <2>2
  <1>2. ASSUME NEW n \in 0..N - 1, n \in P PROVE n + 1 \in P
    <2>1. PICK f : f = Loop(f, n)
      BY <1>2
    <2> DEFINE g == [i \in 0..(n + 1) |-> IF i = n + 1 THEN Turn(n + 1, f[n]) ELSE f[i]]
    <2>2. n \in Nat /\ n + 1 \in 0..N
      BY <1>0
    <2>3. \A i \in 0..n : f[i] = IF i = 0 THEN base ELSE Turn(i, f[i - 1])
      BY <2>1
    <2>4. \A i \in 0..(n + 1) : g[i] = IF i = 0 THEN base ELSE Turn(i, g[i - 1])
      BY <2>2, <2>3
    <2>5. g = Loop(g, n + 1)
      BY <2>4
    <2>6. \E h : h = Loop(h, n + 1)
      BY <2>5
    <2> QED
      BY <2>2, <2>6
  <1>3. N \in P
    <2>1. \A n \in 0..N - 1 : n \in P => n + 1 \in P
      BY <1>2
    <2> HIDE DEF P
    <2>2. \A n \in 0..N : n \in P
      BY <1>0, <1>1, <2>1, UpTo
    <2> QED
      BY <1>0, <2>2
  <1>4. \E f : f = Loop(f, N)
    BY <1>3
  <1>5. EvaluateLoop(items, H) = CHOOSE f : f = Loop(f, N)
    BY DEF EvaluateLoop, Turn, base, N
  <1>6. EvaluateLoop(items, H) = Loop(EvaluateLoop(items, H), N)
    <2> HIDE DEF Loop
    <2> QED
      BY <1>4, <1>5
  <1> DEFINE f == EvaluateLoop(items, H)
  <1> HIDE DEF f
  <1>7. f = Loop(f, N)
    BY <1>6 DEF f
  <1>8. f[0] = base /\ \A n \in 1..N : f[n] = Turn(n, f[n - 1])
    BY <1>0, <1>7
  <1> QED
    BY <1>8 DEF f, base, Turn, N

\* The turns of the alert adder.
LEMMA BuildLoopTurns ==
  ASSUME NEW S, NEW reqs \in Seq(S)
  PROVE  /\ BuildLoop(reqs)[0] = Reset
         /\ \A n \in 1..Len(reqs) :
              BuildLoop(reqs)[n] = BuildElement(BuildLoop(reqs)[n - 1], reqs, n)
  <1> DEFINE N == Len(reqs)
             base == Reset
             Turn(i, x) == BuildElement(x, reqs, i)
             Loop(f, n) == [i \in 0..n |-> IF i = 0 THEN base ELSE Turn(i, f[i - 1])]
             P == {n \in 0..N : \E f : f = Loop(f, n)}
  <1>0. N \in Nat
    OBVIOUS
  <1> HIDE DEF Turn, base, N
  <1>1. 0 \in P
    <2> DEFINE f == [i \in 0..0 |-> base]
    <2>1. f = Loop(f, 0)
      OBVIOUS
    <2>2. \E g : g = Loop(g, 0)
      BY <2>1
    <2> QED
      BY <1>0, <2>2
  <1>2. ASSUME NEW n \in 0..N - 1, n \in P PROVE n + 1 \in P
    <2>1. PICK f : f = Loop(f, n)
      BY <1>2
    <2> DEFINE g == [i \in 0..(n + 1) |-> IF i = n + 1 THEN Turn(n + 1, f[n]) ELSE f[i]]
    <2>2. n \in Nat /\ n + 1 \in 0..N
      BY <1>0
    <2>3. \A i \in 0..n : f[i] = IF i = 0 THEN base ELSE Turn(i, f[i - 1])
      BY <2>1
    <2>4. \A i \in 0..(n + 1) : g[i] = IF i = 0 THEN base ELSE Turn(i, g[i - 1])
      BY <2>2, <2>3
    <2>5. g = Loop(g, n + 1)
      BY <2>4
    <2>6. \E h : h = Loop(h, n + 1)
      BY <2>5
    <2> QED
      BY <2>2, <2>6
  <1>3. N \in P
    <2>1. \A n \in 0..N - 1 : n \in P => n + 1 \in P
      BY <1>2
    <2> HIDE DEF P
    <2>2. \A n \in 0..N : n \in P
      BY <1>0, <1>1, <2>1, UpTo
    <2> QED
      BY <1>0, <2>2
  <1>4. \E f : f = Loop(f, N)
    BY <1>3
  <1>5. BuildLoop(reqs) = CHOOSE f : f = Loop(f, N)
    BY DEF BuildLoop, Turn, base, N
  <1>6. BuildLoop(reqs) = Loop(BuildLoop(reqs), N)
    <2> HIDE DEF Loop
    <2> QED
      BY <1>4, <1>5
  <1> DEFINE f == BuildLoop(reqs)
  <1> HIDE DEF f
  <1>7. f = Loop(f, N)
    BY <1>6 DEF f
  <1>8. f[0] = base /\ \A n \in 1..N : f[n] = Turn(n, f[n - 1])
    BY <1>0, <1>7
  <1> QED
    BY <1>8 DEF f, base, Turn, N

\* The turns of variable_requirement_list_add.
LEMMA PrependLoopTurns ==
  ASSUME NEW S, NEW reqs \in Seq(S), NEW a, NEW v, NEW l
  PROVE  /\ PrependLoop(a, reqs, v, l)[0] = l
         /\ \A n \in 1..Len(reqs) :
              PrependLoop(a, reqs, v, l)[n] = IF reqs[n].var = v THEN <<<<a, n>>>> \o PrependLoop(a, reqs, v, l)[n - 1]
              ELSE PrependLoop(a, reqs, v, l)[n - 1]
  <1> DEFINE N == Len(reqs)
             base == l
             Turn(i, x) == IF reqs[i].var = v THEN <<<<a, i>>>> \o x ELSE x
             Loop(f, n) == [i \in 0..n |-> IF i = 0 THEN base ELSE Turn(i, f[i - 1])]
             P == {n \in 0..N : \E f : f = Loop(f, n)}
  <1>0. N \in Nat
    OBVIOUS
  <1> HIDE DEF Turn, base, N
  <1>1. 0 \in P
    <2> DEFINE f == [i \in 0..0 |-> base]
    <2>1. f = Loop(f, 0)
      OBVIOUS
    <2>2. \E g : g = Loop(g, 0)
      BY <2>1
    <2> QED
      BY <1>0, <2>2
  <1>2. ASSUME NEW n \in 0..N - 1, n \in P PROVE n + 1 \in P
    <2>1. PICK f : f = Loop(f, n)
      BY <1>2
    <2> DEFINE g == [i \in 0..(n + 1) |-> IF i = n + 1 THEN Turn(n + 1, f[n]) ELSE f[i]]
    <2>2. n \in Nat /\ n + 1 \in 0..N
      BY <1>0
    <2>3. \A i \in 0..n : f[i] = IF i = 0 THEN base ELSE Turn(i, f[i - 1])
      BY <2>1
    <2>4. \A i \in 0..(n + 1) : g[i] = IF i = 0 THEN base ELSE Turn(i, g[i - 1])
      BY <2>2, <2>3
    <2>5. g = Loop(g, n + 1)
      BY <2>4
    <2>6. \E h : h = Loop(h, n + 1)
      BY <2>5
    <2> QED
      BY <2>2, <2>6
  <1>3. N \in P
    <2>1. \A n \in 0..N - 1 : n \in P => n + 1 \in P
      BY <1>2
    <2> HIDE DEF P
    <2>2. \A n \in 0..N : n \in P
      BY <1>0, <1>1, <2>1, UpTo
    <2> QED
      BY <1>0, <2>2
  <1>4. \E f : f = Loop(f, N)
    BY <1>3
  <1>5. PrependLoop(a, reqs, v, l) = CHOOSE f : f = Loop(f, N)
    BY DEF PrependLoop, Turn, base, N
  <1>6. PrependLoop(a, reqs, v, l) = Loop(PrependLoop(a, reqs, v, l), N)
    <2> HIDE DEF Loop
    <2> QED
      BY <1>4, <1>5
  <1> DEFINE f == PrependLoop(a, reqs, v, l)
  <1> HIDE DEF f
  <1>7. f = Loop(f, N)
    BY <1>6 DEF f
  <1>8. f[0] = base /\ \A n \in 1..N : f[n] = Turn(n, f[n - 1])
    BY <1>0, <1>7
  <1> QED
    BY <1>8 DEF f, base, Turn, N

\* The turns of variable_requirement_list_remove_all_for_alert.
LEMMA RemoveLoopTurns ==
  ASSUME NEW S, NEW l \in Seq(S), NEW a
  PROVE  /\ RemoveLoop(a, l)[0] = <<>>
         /\ \A n \in 1..Len(l) :
              RemoveLoop(a, l)[n] = IF l[n][1] # a THEN Append(RemoveLoop(a, l)[n - 1], l[n])
              ELSE RemoveLoop(a, l)[n - 1]
  <1> DEFINE N == Len(l)
             base == <<>>
             Turn(i, x) == IF l[i][1] # a THEN Append(x, l[i]) ELSE x
             Loop(f, n) == [i \in 0..n |-> IF i = 0 THEN base ELSE Turn(i, f[i - 1])]
             P == {n \in 0..N : \E f : f = Loop(f, n)}
  <1>0. N \in Nat
    OBVIOUS
  <1> HIDE DEF Turn, base, N
  <1>1. 0 \in P
    <2> DEFINE f == [i \in 0..0 |-> base]
    <2>1. f = Loop(f, 0)
      OBVIOUS
    <2>2. \E g : g = Loop(g, 0)
      BY <2>1
    <2> QED
      BY <1>0, <2>2
  <1>2. ASSUME NEW n \in 0..N - 1, n \in P PROVE n + 1 \in P
    <2>1. PICK f : f = Loop(f, n)
      BY <1>2
    <2> DEFINE g == [i \in 0..(n + 1) |-> IF i = n + 1 THEN Turn(n + 1, f[n]) ELSE f[i]]
    <2>2. n \in Nat /\ n + 1 \in 0..N
      BY <1>0
    <2>3. \A i \in 0..n : f[i] = IF i = 0 THEN base ELSE Turn(i, f[i - 1])
      BY <2>1
    <2>4. \A i \in 0..(n + 1) : g[i] = IF i = 0 THEN base ELSE Turn(i, g[i - 1])
      BY <2>2, <2>3
    <2>5. g = Loop(g, n + 1)
      BY <2>4
    <2>6. \E h : h = Loop(h, n + 1)
      BY <2>5
    <2> QED
      BY <2>2, <2>6
  <1>3. N \in P
    <2>1. \A n \in 0..N - 1 : n \in P => n + 1 \in P
      BY <1>2
    <2> HIDE DEF P
    <2>2. \A n \in 0..N : n \in P
      BY <1>0, <1>1, <2>1, UpTo
    <2> QED
      BY <1>0, <2>2
  <1>4. \E f : f = Loop(f, N)
    BY <1>3
  <1>5. RemoveLoop(a, l) = CHOOSE f : f = Loop(f, N)
    BY DEF RemoveLoop, Turn, base, N
  <1>6. RemoveLoop(a, l) = Loop(RemoveLoop(a, l), N)
    <2> HIDE DEF Loop
    <2> QED
      BY <1>4, <1>5
  <1> DEFINE f == RemoveLoop(a, l)
  <1> HIDE DEF f
  <1>7. f = Loop(f, N)
    BY <1>6 DEF f
  <1>8. f[0] = base /\ \A n \in 1..N : f[n] = Turn(n, f[n - 1])
    BY <1>0, <1>7
  <1> QED
    BY <1>8 DEF f, base, Turn, N

-----------------------------------------------------------------------------
(* The requirement lists                                                    *)

\* The nodes of the lists.
Node == AlertIds \X Nat

\* A node that is put in front of a list.
LEMMA PrependFacts ==
  ASSUME NEW l \in Seq(Node), IsInjective(l), NEW x \in Node, x \notin ToSet(l)
  PROVE  /\ <<x>> \o l \in Seq(Node) /\ IsInjective(<<x>> \o l)
         /\ ToSet(<<x>> \o l) = ToSet(l) \cup {x}
  <1> DEFINE m == <<x>> \o l
  <1>1. Len(l) \in Nat /\ DOMAIN l = 1..Len(l)
    OBVIOUS
  <1>2. /\ m \in Seq(Node) /\ Len(m) = Len(l) + 1 /\ DOMAIN m = 1..Len(l) + 1
        /\ m[1] = x /\ \A i \in 2..Len(l) + 1 : m[i] = l[i - 1]
    OBVIOUS
  <1> HIDE DEF m
  <1>3. \A i \in 2..Len(l) + 1 : i - 1 \in DOMAIN l
    BY <1>1
  <1>4. \A i \in DOMAIN l : i + 1 \in DOMAIN m /\ m[i + 1] = l[i] /\ l[i] # x
    BY <1>1, <1>2 DEF ToSet
  <1>5. IsInjective(m)
    <2> SUFFICES ASSUME NEW i \in DOMAIN m, NEW j \in DOMAIN m, m[i] = m[j] PROVE i = j
      BY DEF IsInjective
    <2>1. \A n \in DOMAIN m : n = 1 \/ (n - 1 \in DOMAIN l /\ m[n] = l[n - 1])
      BY <1>1, <1>2
    <2>2. i = 1 <=> j = 1
      BY <1>2, <1>4, <2>1
    <2>3. i # 1 /\ j # 1 => i - 1 = j - 1
      BY <2>1 DEF IsInjective
    <2> QED
      BY <1>2, <2>2, <2>3
  <1>6. \A y : y \in ToSet(m) <=> y \in ToSet(l) \cup {x}
    <2>1. ASSUME NEW y, y \in ToSet(m) PROVE y \in ToSet(l) \cup {x}
      <3>1. PICK i \in DOMAIN m : y = m[i]
        BY <2>1 DEF ToSet
      <3>2. i = 1 \/ i \in 2..Len(l) + 1
        BY <1>1, <1>2
      <3> QED
        BY <1>2, <1>3, <3>1, <3>2 DEF ToSet
    <2>2. ASSUME NEW y, y \in ToSet(l) PROVE y \in ToSet(m)
      BY <1>4, <2>2 DEF ToSet
    <2>3. x \in ToSet(m)
      <3>1. 1 \in DOMAIN m
        BY <1>1, <1>2
      <3> QED
        BY <1>2, <3>1 DEF ToSet
    <2> QED
      BY <2>1, <2>2, <2>3
  <1> QED
    BY <1>2, <1>5, <1>6 DEF m

\* A node that is put behind a list.
LEMMA AppendFacts ==
  ASSUME NEW l \in Seq(Node), IsInjective(l), NEW x \in Node, x \notin ToSet(l)
  PROVE  /\ Append(l, x) \in Seq(Node) /\ IsInjective(Append(l, x))
         /\ ToSet(Append(l, x)) = ToSet(l) \cup {x}
  <1> DEFINE m == Append(l, x)
  <1>1. Len(l) \in Nat /\ DOMAIN l = 1..Len(l)
    OBVIOUS
  <1>2. /\ m \in Seq(Node) /\ Len(m) = Len(l) + 1 /\ DOMAIN m = 1..Len(l) + 1
        /\ m[Len(l) + 1] = x /\ \A i \in 1..Len(l) : m[i] = l[i]
    OBVIOUS
  <1> HIDE DEF m
  <1>3. \A i \in DOMAIN l : i \in DOMAIN m /\ m[i] = l[i] /\ l[i] # x
    BY <1>1, <1>2 DEF ToSet
  <1>4. \A i \in DOMAIN m : i = Len(l) + 1 \/ i \in DOMAIN l
    BY <1>1, <1>2
  <1>5. IsInjective(m)
    BY <1>2, <1>3, <1>4 DEF IsInjective
  <1>6. \A y : y \in ToSet(m) <=> y \in ToSet(l) \cup {x}
    <2>1. ASSUME NEW y, y \in ToSet(m) PROVE y \in ToSet(l) \cup {x}
      BY <1>2, <1>3, <1>4, <2>1 DEF ToSet
    <2>2. ASSUME NEW y, y \in ToSet(l) PROVE y \in ToSet(m)
      BY <1>3, <2>2 DEF ToSet
    <2>3. x \in ToSet(m)
      <3>1. Len(l) + 1 \in DOMAIN m
        BY <1>1, <1>2
      <3> QED
        BY <1>2, <3>1 DEF ToSet
    <2> QED
      BY <2>1, <2>2, <2>3
  <1> QED
    BY <1>2, <1>5, <1>6 DEF m

\* The adder puts the requirements on a variable into the list of the variable,
\* each once.
LEMMA PrependLoopFacts ==
  ASSUME NEW S, NEW reqs \in Seq(S), NEW a \in AlertIds, NEW v,
         NEW l \in Seq(Node), IsInjective(l), \A r \in ToSet(l) : r[1] # a
  PROVE  LET m == PrependLoop(a, reqs, v, l)[Len(reqs)]
         IN  /\ m \in Seq(Node) /\ IsInjective(m)
             /\ ToSet(m) = ToSet(l) \cup {<<a, i>> : i \in {j \in 1..Len(reqs) : reqs[j].var = v}}
  <1> DEFINE f == PrependLoop(a, reqs, v, l)
             N == Len(reqs)
             New(n) == {<<a, i>> : i \in {j \in 1..n : reqs[j].var = v}}
             P == {n \in 0..N : /\ f[n] \in Seq(Node) /\ IsInjective(f[n])
                                /\ ToSet(f[n]) = ToSet(l) \cup New(n)}
  <1>1. N \in Nat
    OBVIOUS
  <1>2. /\ f[0] = l
        /\ \A n \in 1..N : f[n] = IF reqs[n].var = v THEN <<<<a, n>>>> \o f[n - 1] ELSE f[n - 1]
    BY PrependLoopTurns
  <1> HIDE DEF f, N
  <1>3. 0 \in P
    <2>1. New(0) = {}
      OBVIOUS
    <2> HIDE DEF New
    <2> QED
      BY <1>1, <1>2, <2>1
  <1>4. ASSUME NEW n \in 0..N - 1, n \in P PROVE n + 1 \in P
    <2>1. /\ f[n] \in Seq(Node) /\ IsInjective(f[n]) /\ ToSet(f[n]) = ToSet(l) \cup New(n)
          /\ n \in Nat /\ n + 1 \in 1..N /\ n + 1 \in 0..N /\ n + 1 - 1 = n
      BY <1>1, <1>4
    <2>2. f[n + 1] = IF reqs[n + 1].var = v THEN <<<<a, n + 1>>>> \o f[n] ELSE f[n]
      BY <1>2, <2>1
    <2>3. <<a, n + 1>> \in Node /\ <<a, n + 1>> \notin ToSet(l) /\ <<a, n + 1>> \notin New(n)
      BY <2>1 DEF Node
    <2>4. New(n + 1) = IF reqs[n + 1].var = v THEN New(n) \cup {<<a, n + 1>>} ELSE New(n)
      <3>1. 1..n + 1 = (1..n) \cup {n + 1}
        BY <2>1
      <3> QED
        BY <3>1
    <2> HIDE DEF New
    <2>5. CASE reqs[n + 1].var = v
      <3>1. /\ f[n + 1] \in Seq(Node) /\ IsInjective(f[n + 1])
            /\ ToSet(f[n + 1]) = ToSet(f[n]) \cup {<<a, n + 1>>}
        BY <2>1, <2>2, <2>3, <2>5, PrependFacts
      <3> QED
        BY <2>1, <2>4, <2>5, <3>1
    <2>6. CASE reqs[n + 1].var # v
      BY <2>1, <2>2, <2>4, <2>6
    <2> QED
      BY <2>5, <2>6
  <1>5. N \in P
    <2>1. \A n \in 0..N - 1 : n \in P => n + 1 \in P
      BY <1>4
    <2> HIDE DEF P
    <2>2. \A n \in 0..N : n \in P
      BY <1>1, <1>3, <2>1, UpTo
    <2> QED
      BY <1>1, <2>2
  <1> QED
    BY <1>5 DEF f, N

\* The remover takes the nodes of an alert out of a list, and no others.
LEMMA RemoveLoopFacts ==
  ASSUME NEW a, NEW l \in Seq(Node), IsInjective(l)
  PROVE  LET m == RemoveLoop(a, l)[Len(l)]
         IN  /\ m \in Seq(Node) /\ IsInjective(m)
             /\ ToSet(m) = {r \in ToSet(l) : r[1] # a}
  <1> DEFINE f == RemoveLoop(a, l)
             N == Len(l)
             Kept(n) == {l[i] : i \in {j \in 1..n : l[j][1] # a}}
             P == {n \in 0..N : /\ f[n] \in Seq(Node) /\ IsInjective(f[n])
                                /\ ToSet(f[n]) = Kept(n)}
  <1>1. N \in Nat /\ DOMAIN l = 1..N
    OBVIOUS
  <1>2. /\ f[0] = <<>>
        /\ \A n \in 1..N : f[n] = IF l[n][1] # a THEN Append(f[n - 1], l[n]) ELSE f[n - 1]
    BY RemoveLoopTurns
  <1>3. \A i \in 1..N : l[i] \in Node
    OBVIOUS
  <1> HIDE DEF f, N
  <1>4. 0 \in P
    <2>1. Kept(0) = {}
      OBVIOUS
    <2>2. <<>> \in Seq(Node) /\ IsInjective(<<>>) /\ ToSet(<<>>) = {}
      BY DEF IsInjective, ToSet
    <2> HIDE DEF Kept
    <2>3. f[0] \in Seq(Node) /\ IsInjective(f[0]) /\ ToSet(f[0]) = Kept(0)
      BY <1>2, <2>1, <2>2
    <2> QED
      BY <1>1, <2>3
  <1>5. ASSUME NEW n \in 0..N - 1, n \in P PROVE n + 1 \in P
    <2>1. /\ f[n] \in Seq(Node) /\ IsInjective(f[n]) /\ ToSet(f[n]) = Kept(n)
          /\ n \in Nat /\ n + 1 \in 1..N /\ n + 1 \in 0..N /\ n + 1 - 1 = n
      BY <1>1, <1>5
    <2>2. f[n + 1] = IF l[n + 1][1] # a THEN Append(f[n], l[n + 1]) ELSE f[n]
      BY <1>2, <2>1
    <2>3. l[n + 1] \in Node /\ l[n + 1] \notin Kept(n)
      <3>1. \A i \in 1..n : i \in 1..N /\ i # n + 1
        BY <1>1, <2>1
      <3> QED
        BY <1>1, <1>3, <2>1, <3>1 DEF IsInjective
    <2>4. Kept(n + 1) = IF l[n + 1][1] # a THEN Kept(n) \cup {l[n + 1]} ELSE Kept(n)
      <3>1. 1..n + 1 = (1..n) \cup {n + 1}
        BY <2>1
      <3> QED
        BY <3>1
    <2> HIDE DEF Kept
    <2>5. CASE l[n + 1][1] # a
      <3>1. /\ f[n + 1] \in Seq(Node) /\ IsInjective(f[n + 1])
            /\ ToSet(f[n + 1]) = ToSet(f[n]) \cup {l[n + 1]}
        BY <2>1, <2>2, <2>3, <2>5, AppendFacts
      <3> QED
        BY <2>1, <2>4, <2>5, <3>1
    <2>6. CASE l[n + 1][1] = a
      BY <2>1, <2>2, <2>4, <2>6
    <2> QED
      BY <2>5, <2>6
  <1>6. N \in P
    <2>1. \A n \in 0..N - 1 : n \in P => n + 1 \in P
      BY <1>5
    <2> HIDE DEF P
    <2>2. \A n \in 0..N : n \in P
      BY <1>1, <1>4, <2>1, UpTo
    <2> QED
      BY <1>1, <2>2
  <1>7. Kept(N) = {r \in ToSet(l) : r[1] # a}
    BY <1>1 DEF ToSet
  <1> QED
    BY <1>6, <1>7 DEF f, N

-----------------------------------------------------------------------------
(* The array of a condition                                                 *)

\* The conditions that the adder has when it has handled some requirements.
Condition == [items : Seq(Nat), insert_and : BOOLEAN]

\* An element that is put behind the others.
LEMMA AppendIsUnion ==
  ASSUME NEW q \in Seq(Nat), NEW x \in Nat
  PROVE  /\ Append(q, x) \in Seq(Nat) /\ Len(Append(q, x)) = Len(q) + 1 /\ Append(q, x) # <<>>
         /\ ToSet(Append(q, x)) = ToSet(q) \cup {x}
  <1> DEFINE m == Append(q, x)
  <1>1. /\ m \in Seq(Nat) /\ Len(m) = Len(q) + 1 /\ DOMAIN m = 1..Len(q) + 1 /\ Len(q) \in Nat
        /\ m[Len(q) + 1] = x /\ DOMAIN q = 1..Len(q) /\ \A i \in 1..Len(q) : m[i] = q[i]
    OBVIOUS
  <1> HIDE DEF m
  <1>2. \A y : y \in ToSet(m) <=> y \in ToSet(q) \cup {x}
    <2>1. DOMAIN m = (DOMAIN q) \cup {Len(q) + 1}
      BY <1>1
    <2> QED
      BY <1>1, <2>1 DEF ToSet
  <1>3. m # <<>>
    BY <1>1
  <1> QED
    BY <1>1, <1>2, <1>3 DEF m

\* What the array holds after the first n of a message's requirements: they are
\* all there, with at most one AND between two of them, and an AND is due if the
\* last of them ended its group.
LEMMA BuildLoopFacts ==
  ASSUME NEW S, NEW reqs \in Seq(S), \A i \in DOMAIN reqs : reqs[i].last \in BOOLEAN
  PROVE  \A n \in 0..Len(reqs) :
           LET c == BuildLoop(reqs)[n]
           IN  /\ c \in Condition
               /\ c.items = <<>> <=> n = 0
               /\ n > 0 => Len(c.items) <= n + (n - 1)
               /\ Requirements(c.items) = 1..n
               /\ n > 0 => c.insert_and = reqs[n].last
  <1> DEFINE N == Len(reqs)
             f == BuildLoop(reqs)
             Ok(c, n) == /\ c \in Condition
                         /\ c.items = <<>> <=> n = 0
                         /\ n > 0 => Len(c.items) <= n + (n - 1)
                         /\ Requirements(c.items) = 1..n
                         /\ n > 0 => c.insert_and = reqs[n].last
             P == {n \in 0..N : Ok(f[n], n)}
  <1>1. N \in Nat /\ DOMAIN reqs = 1..N
    OBVIOUS
  <1>2. f[0] = Reset /\ \A n \in 1..N : f[n] = BuildElement(f[n - 1], reqs, n)
    BY BuildLoopTurns
  <1> HIDE DEF f, N
  <1>3. Ok(f[0], 0)
    <2>1. Reset \in Condition /\ Reset.items = <<>>
      BY DEF Reset, Condition
    <2>2. Requirements(<<>>) = 1..0
      BY DEF Requirements, ToSet
    <2> QED
      BY <1>2, <2>1, <2>2
  <1>4. ASSUME NEW n \in 0..N - 1, Ok(f[n], n) PROVE Ok(f[n + 1], n + 1)
    <2> DEFINE c == f[n]
               items == c.items
               more == IF c.insert_and /\ items # <<>> THEN Append(items, NULL) ELSE items
               all == Append(more, n + 1)
    <2>1. n \in Nat /\ n + 1 \in Nat /\ n + 1 \in 1..N /\ n + 1 - 1 = n /\ n + 1 > 0
      BY <1>1
    <2>2. items \in Seq(Nat) /\ c.insert_and \in BOOLEAN
      BY <1>4 DEF Condition
    <2>3. AddVariableRequirement(c, n + 1) = [items |-> all, insert_and |-> FALSE]
      BY DEF AddVariableRequirement
    <2>4. f[n + 1] = [items |-> all, insert_and |-> reqs[n + 1].last]
      <3>1. f[n + 1] = BuildElement(c, reqs, n + 1) /\ reqs[n + 1].last \in BOOLEAN
        BY <1>1, <1>2, <2>1
      <3> HIDE DEF c, all
      <3>2. CASE reqs[n + 1].last = TRUE
        <4>1. StartNewOredRequirement([items |-> all, insert_and |-> FALSE])
                = [items |-> all, insert_and |-> TRUE]
          BY DEF StartNewOredRequirement
        <4> QED
          BY <2>3, <3>1, <3>2, <4>1 DEF BuildElement
      <3>3. CASE reqs[n + 1].last = FALSE
        BY <2>3, <3>1, <3>3 DEF BuildElement
      <3> QED
        BY <3>1, <3>2, <3>3
    <2> HIDE DEF all
    <2>5. /\ more \in Seq(Nat) /\ Len(more) <= Len(items) + 1
          /\ items = <<>> => Len(more) = 0
          /\ ToSet(more) \ {NULL} = ToSet(items) \ {NULL}
      <3>1. \A q \in Seq(Nat) : ToSet(Append(q, NULL)) = ToSet(q) \cup {NULL}
        BY AppendIsUnion DEF NULL
      <3> QED
        BY <2>2, <3>1 DEF NULL
    <2> HIDE DEF more, items
    <2>6. /\ all \in Seq(Nat) /\ all # <<>> /\ Len(all) = Len(more) + 1
          /\ ToSet(all) = ToSet(more) \cup {n + 1}
      BY <2>1, <2>5, AppendIsUnion DEF all
    <2>7. Requirements(all) = 1..n + 1
      <3>1. 1..n + 1 = (1..n) \cup {n + 1} /\ n + 1 # NULL
        BY <2>1 DEF NULL
      <3>2. ToSet(items) \ {NULL} = 1..n
        BY <1>4 DEF Requirements, items
      <3> QED
        BY <2>5, <2>6, <3>1, <3>2 DEF Requirements
    <2>8. Len(all) <= n + 1 + (n + 1 - 1)
      <3>1. Len(items) \in Nat /\ Len(more) \in Nat
        BY <2>2, <2>5 DEF items
      <3>2. CASE n = 0
        BY <1>4, <2>5, <2>6, <3>2 DEF items
      <3>3. CASE n > 0
        <4>1. Len(items) <= n + (n - 1)
          BY <1>4, <3>3 DEF items
        <4> QED
          BY <2>1, <2>5, <2>6, <3>1, <3>3, <4>1
      <3> QED
        BY <2>1, <3>2, <3>3
    <2>9. f[n + 1] \in Condition
      BY <1>1, <2>1, <2>4, <2>6 DEF Condition
    <2> QED
      BY <2>1, <2>4, <2>6, <2>7, <2>8, <2>9
  <1>5. \A n \in 0..N : n \in P
    <2>1. \A n \in 0..N - 1 : n \in P => n + 1 \in P
      <3> SUFFICES ASSUME NEW n \in 0..N - 1, n \in P PROVE n + 1 \in P
        OBVIOUS
      <3>1. n + 1 \in 0..N
        BY <1>1
      <3> QED
        BY <1>4, <3>1
    <2>2. 0 \in P
      BY <1>1, <1>3
    <2> HIDE DEF P
    <2> QED
      BY <1>1, <2>1, <2>2, UpTo
  <1> QED
    BY <1>5 DEF f, N

-----------------------------------------------------------------------------
(* The evaluation of a condition                                            *)

\* The state of the loops of alert_condition_evaluate.
LoopState == [ored : BOOLEAN, returned : BOOLEAN, evaluated : SUBSET Nat]

\* That state at the end of the array.
EvaluateEnd(items, H) == EvaluateLoop(items, H)[Len(items)]

\* One element keeps the types.
LEMMA EvaluateElementType ==
  ASSUME NEW loop \in LoopState, NEW r \in Nat, NEW H
  PROVE  /\ EvaluateElement(loop, r, H) \in LoopState
         /\ EvaluateElement(loop, r, H).evaluated \subseteq loop.evaluated \cup ({r} \ {NULL})
  <1>1. CASE loop.returned \/ (loop.ored /\ r # NULL)
    BY <1>1 DEF EvaluateElement
  <1>2. CASE ~(loop.returned \/ (loop.ored /\ r # NULL)) /\ r # NULL
    <2>1. EvaluateElement(loop, r, H)
            = [loop EXCEPT !.ored = r \in H, !.evaluated = loop.evaluated \cup {r}]
      BY <1>2 DEF EvaluateElement
    <2>2. loop.evaluated \cup {r} \in SUBSET Nat /\ (r \in H) \in BOOLEAN
      BY DEF LoopState
    <2> QED
      BY <1>2, <2>1, <2>2 DEF LoopState
  <1>3. CASE ~(loop.returned \/ (loop.ored /\ r # NULL)) /\ r = NULL
    BY <1>3 DEF EvaluateElement, LoopState
  <1> QED
    BY <1>1, <1>2, <1>3

\* The end of an array that is one element longer: the element is handled in the
\* state in which the elements before it were left.
LEMMA EvaluateAppend ==
  ASSUME NEW items \in Seq(Nat), NEW r \in Nat, NEW H
  PROVE  EvaluateEnd(Append(items, r), H) = EvaluateElement(EvaluateEnd(items, H), r, H)
  <1> DEFINE more == Append(items, r)
             N == Len(items)
             f == EvaluateLoop(items, H)
             g == EvaluateLoop(more, H)
             P == {n \in 0..N : g[n] = f[n]}
  <1>1. /\ N \in Nat /\ more \in Seq(Nat) /\ Len(more) = N + 1 /\ more[N + 1] = r
        /\ \A i \in 1..N : more[i] = items[i]
    OBVIOUS
  <1>2. f[0] = g[0] /\ \A n \in 1..N : f[n] = EvaluateElement(f[n - 1], items[n], H)
    BY <1>1, EvaluateLoopTurns
  <1>3. \A n \in 1..N + 1 : g[n] = EvaluateElement(g[n - 1], more[n], H)
    BY <1>1, EvaluateLoopTurns
  <1> HIDE DEF f, g, N, more
  <1>4. \A n \in 0..N : n \in P
    <2>1. ASSUME NEW n \in 0..N - 1, n \in P PROVE n + 1 \in P
      <3>1. n + 1 \in 1..N /\ n + 1 \in 1..N + 1 /\ n + 1 \in 0..N /\ n + 1 - 1 = n
        BY <1>1
      <3> QED
        BY <1>1, <1>2, <1>3, <2>1, <3>1
    <2>2. 0 \in P
      BY <1>1, <1>2
    <2>3. \A n \in 0..N - 1 : n \in P => n + 1 \in P
      BY <2>1
    <2> HIDE DEF P
    <2> QED
      BY <1>1, <2>2, <2>3, UpTo
  <1>5. N \in 0..N /\ N + 1 \in 1..N + 1 /\ N + 1 - 1 = N
    BY <1>1
  <1>6. g[N] = f[N]
    BY <1>4, <1>5
  <1>7. g[N + 1] = EvaluateElement(g[N], r, H)
    BY <1>1, <1>3, <1>5
  <1> QED
    BY <1>1, <1>6, <1>7 DEF EvaluateEnd, f, g, N, more

\* One of the requirements of the group of requirement g, up to g, is in H.
GroupHolds(reqs, H, g) == \E i \in 1..g : i \in H /\ \A j \in i..g - 1 : ~reqs[j].last

\* The next requirement is in the same group, or starts one.
LEMMA GroupHoldsNext ==
  ASSUME NEW reqs, NEW H, NEW n \in Nat \ {0}
  PROVE  GroupHolds(reqs, H, n + 1) <=>
           n + 1 \in H \/ (~reqs[n].last /\ GroupHolds(reqs, H, n))
  <1>1. ASSUME GroupHolds(reqs, H, n + 1), n + 1 \notin H
        PROVE  ~reqs[n].last /\ GroupHolds(reqs, H, n)
    <2>1. PICK i \in 1..n + 1 : i \in H /\ \A j \in i..n + 1 - 1 : ~reqs[j].last
      BY <1>1 DEF GroupHolds
    <2>2. i \in 1..n /\ n \in i..n + 1 - 1 /\ \A j \in i..n - 1 : j \in i..n + 1 - 1
      BY <1>1, <2>1
    <2> QED
      BY <2>1, <2>2 DEF GroupHolds
  <1>2. ASSUME ~reqs[n].last, GroupHolds(reqs, H, n) PROVE GroupHolds(reqs, H, n + 1)
    <2>1. PICK i \in 1..n : i \in H /\ \A j \in i..n - 1 : ~reqs[j].last
      BY <1>2 DEF GroupHolds
    <2>2. i \in 1..n + 1 /\ \A j \in i..n + 1 - 1 : j = n \/ j \in i..n - 1
      OBVIOUS
    <2> QED
      BY <1>2, <2>1, <2>2 DEF GroupHolds
  <1>3. n + 1 \in H => GroupHolds(reqs, H, n + 1)
    <2>1. n + 1 \in 1..n + 1 /\ (n + 1)..n + 1 - 1 = {}
      OBVIOUS
    <2> QED
      BY <2>1 DEF GroupHolds
  <1> QED
    BY <1>1, <1>2, <1>3

\* The first requirement.
LEMMA GroupHoldsFirst ==
  ASSUME NEW reqs, NEW H
  PROVE  GroupHolds(reqs, H, 1) <=> 1 \in H
  BY DEF GroupHolds

\* Where the evaluation of the first n requirements stands: it has returned if a
\* group that is followed by another one is false, and otherwise knows whether the
\* group it is in is true so far.
EvaluatedUpTo(loop, reqs, H, n) ==
  /\ loop \in LoopState
  /\ loop.evaluated \subseteq 1..n
  /\ n = 0 => ~loop.returned /\ ~loop.ored
  /\ loop.returned <=> \E g \in 1..n - 1 : reqs[g].last /\ ~GroupHolds(reqs, H, g)
  /\ n > 0 /\ ~loop.returned => (loop.ored <=> GroupHolds(reqs, H, n))

\* The evaluation goes on with the next requirement, and with the AND before it.
LEMMA EvaluateNext ==
  ASSUME NEW S, NEW reqs \in Seq(S), \A i \in DOMAIN reqs : reqs[i].last \in BOOLEAN, NEW H,
         NEW n \in 0..Len(reqs) - 1, NEW loop, EvaluatedUpTo(loop, reqs, H, n)
  PROVE  LET more == IF n > 0 /\ reqs[n].last THEN EvaluateElement(loop, NULL, H) ELSE loop
         IN  EvaluatedUpTo(EvaluateElement(more, n + 1, H), reqs, H, n + 1)
  <1> DEFINE new == EvaluateElement(loop, n + 1, H)
             more == EvaluateElement(loop, NULL, H)
             new2 == EvaluateElement(more, n + 1, H)
  <1>1. /\ n \in Nat /\ n + 1 \in Nat /\ n + 1 # NULL /\ n + 1 > 0 /\ n + 1 # 0 /\ n + 1 - 1 = n
        /\ 1..n \subseteq 1..n + 1 /\ n + 1 \in 1..n + 1 /\ NULL \in Nat /\ Len(reqs) \in Nat
    BY DEF NULL
  <1>2. loop \in LoopState /\ loop.evaluated \subseteq 1..n
    BY DEF EvaluatedUpTo
  <1>3. CASE n = 0
    <2>1. new \in LoopState /\ new.evaluated \subseteq 1..n + 1
      BY <1>1, <1>2, EvaluateElementType
    <2>2. ~new.returned /\ (new.ored <=> n + 1 \in H)
      <3>1. ~loop.returned /\ ~loop.ored
        BY <1>3 DEF EvaluatedUpTo
      <3> QED
        BY <1>1, <1>2, <3>1 DEF EvaluateElement, LoopState
    <2>3. 1..n = {} /\ n + 1 = 1
      BY <1>3
    <2> QED
      BY <1>1, <1>3, <2>1, <2>2, <2>3, GroupHoldsFirst DEF EvaluatedUpTo
  <1>4. CASE n > 0
    <2>1. n \in Nat \ {0} /\ n \in DOMAIN reqs /\ reqs[n].last \in BOOLEAN /\ n \in 1..n
          /\ (\A g \in 1..n : g \in 1..n - 1 \/ g = n)
          /\ (\A g \in 1..n - 1 : g \in 1..n)
      BY <1>1, <1>4
    <2>2. /\ loop.returned <=> \E g \in 1..n - 1 : reqs[g].last /\ ~GroupHolds(reqs, H, g)
          /\ ~loop.returned => (loop.ored <=> GroupHolds(reqs, H, n))
      BY <1>4 DEF EvaluatedUpTo
    <2>3. CASE ~reqs[n].last
      <3>1. new \in LoopState /\ new.evaluated \subseteq 1..n + 1
        BY <1>1, <1>2, EvaluateElementType
      <3>2. /\ new.returned <=> loop.returned
            /\ ~loop.returned => (new.ored <=> loop.ored \/ n + 1 \in H)
        BY <1>1, <1>2 DEF EvaluateElement, LoopState
      <3>3. new.returned <=> \E g \in 1..n : reqs[g].last /\ ~GroupHolds(reqs, H, g)
        BY <2>1, <2>2, <2>3, <3>2
      <3>4. ~new.returned => (new.ored <=> GroupHolds(reqs, H, n + 1))
        BY <2>1, <2>2, <2>3, <3>2, GroupHoldsNext
      <3> HIDE DEF new
      <3>5. EvaluatedUpTo(new, reqs, H, n + 1)
        BY <1>1, <3>1, <3>3, <3>4 DEF EvaluatedUpTo
      <3> QED
        BY <2>3, <3>5 DEF new
    <2>4. CASE reqs[n].last
      <3>1. /\ more \in LoopState /\ more.evaluated \subseteq 1..n
            /\ more.returned <=> loop.returned \/ ~loop.ored
            /\ ~more.returned => ~more.ored
        BY <1>1, <1>2, EvaluateElementType DEF EvaluateElement, LoopState
      <3> HIDE DEF more
      <3>2. new2 \in LoopState /\ new2.evaluated \subseteq 1..n + 1
        BY <1>1, <3>1, EvaluateElementType
      <3>3. /\ new2.returned <=> more.returned
            /\ ~more.returned => (new2.ored <=> n + 1 \in H)
        BY <1>1, <3>1 DEF EvaluateElement, LoopState
      <3>4. new2.returned <=> \E g \in 1..n : reqs[g].last /\ ~GroupHolds(reqs, H, g)
        BY <2>1, <2>2, <2>4, <3>1, <3>3
      <3>5. ~new2.returned => (new2.ored <=> GroupHolds(reqs, H, n + 1))
        BY <2>1, <2>4, <3>3, GroupHoldsNext
      <3> HIDE DEF new2
      <3>6. EvaluatedUpTo(new2, reqs, H, n + 1)
        BY <1>1, <3>2, <3>4, <3>5 DEF EvaluatedUpTo
      <3> QED
        BY <1>4, <2>4, <3>6 DEF new2, more
    <2> QED
      BY <2>3, <2>4
  <1> QED
    BY <1>1, <1>3, <1>4

\* The evaluation of the array the adder has built from n requirements.
LEMMA EvaluateBuilt ==
  ASSUME NEW S, NEW reqs \in Seq(S), \A i \in DOMAIN reqs : reqs[i].last \in BOOLEAN, NEW H
  PROVE  \A n \in 0..Len(reqs) :
           EvaluatedUpTo(EvaluateEnd(BuildLoop(reqs)[n].items, H), reqs, H, n)
  <1> DEFINE N == Len(reqs)
             f == BuildLoop(reqs)
             P == {n \in 0..N : EvaluatedUpTo(EvaluateEnd(f[n].items, H), reqs, H, n)}
  <1>1. N \in Nat /\ DOMAIN reqs = 1..N
    OBVIOUS
  <1>2. f[0] = Reset /\ \A n \in 1..N : f[n] = BuildElement(f[n - 1], reqs, n)
    BY BuildLoopTurns
  <1>3. \A n \in 0..N : /\ f[n] \in Condition
                        /\ f[n].items = <<>> <=> n = 0
                        /\ n > 0 => f[n].insert_and = reqs[n].last
    BY BuildLoopFacts
  <1> HIDE DEF f
  <1>4. EvaluatedUpTo(EvaluateEnd(f[0].items, H), reqs, H, 0)
    <2>1. <<>> \in Seq(Nat) /\ Len(<<>>) = 0 /\ f[0].items = <<>>
      BY <1>2 DEF Reset
    <2> DEFINE loop == EvaluateEnd(<<>>, H)
    <2>2. loop = [ored |-> FALSE, returned |-> FALSE, evaluated |-> {}]
      BY <2>1, EvaluateLoopTurns DEF EvaluateEnd
    <2> HIDE DEF loop
    <2>3. 1..0 - 1 = {}
      OBVIOUS
    <2>4. loop \in LoopState /\ ~loop.returned /\ ~loop.ored /\ loop.evaluated = {}
      BY <2>2 DEF LoopState
    <2>5. EvaluatedUpTo(loop, reqs, H, 0)
      BY <2>3, <2>4 DEF EvaluatedUpTo
    <2> QED
      BY <2>1, <2>5 DEF loop
  <1>5. ASSUME NEW n \in 0..N - 1, EvaluatedUpTo(EvaluateEnd(f[n].items, H), reqs, H, n)
        PROVE  EvaluatedUpTo(EvaluateEnd(f[n + 1].items, H), reqs, H, n + 1)
    <2> DEFINE items == f[n].items
               loop == EvaluateEnd(items, H)
               more == IF n > 0 /\ reqs[n].last THEN Append(items, NULL) ELSE items
    <2>1. /\ n \in Nat /\ n \in 0..N /\ n + 1 \in Nat /\ n + 1 \in 1..N /\ n + 1 - 1 = n
          /\ NULL \in Nat
      BY <1>1 DEF NULL
    <2>2. items \in Seq(Nat) /\ f[n].insert_and \in BOOLEAN
      BY <1>3, <2>1 DEF Condition
    <2>3. f[n].insert_and /\ items # <<>> <=> n > 0 /\ reqs[n].last
      BY <1>3, <2>1
    <2>4. AddVariableRequirement(f[n], n + 1).items = Append(more, n + 1)
      BY <2>3 DEF AddVariableRequirement
    <2>5. f[n + 1].items = Append(more, n + 1)
      <3>1. f[n + 1] = BuildElement(f[n], reqs, n + 1)
        BY <1>2, <2>1
      <3>2. \A c : StartNewOredRequirement(AddVariableRequirement(c, n + 1)).items
                     = AddVariableRequirement(c, n + 1).items
        BY DEF StartNewOredRequirement, AddVariableRequirement
      <3> QED
        BY <2>4, <3>1, <3>2 DEF BuildElement
    <2>6. more \in Seq(Nat) /\ EvaluateEnd(more, H)
            = IF n > 0 /\ reqs[n].last THEN EvaluateElement(loop, NULL, H) ELSE loop
      BY <2>1, <2>2, EvaluateAppend
    <2> HIDE DEF more, items
    <2>7. EvaluateEnd(f[n + 1].items, H) = EvaluateElement(EvaluateEnd(more, H), n + 1, H)
      BY <2>1, <2>5, <2>6, EvaluateAppend
    <2>8. EvaluatedUpTo(loop, reqs, H, n)
      BY <1>5 DEF items
    <2> HIDE DEF loop
    <2> QED
      BY <2>6, <2>7, <2>8, EvaluateNext
  <1>6. \A n \in 0..N : n \in P
    <2>1. \A n \in 0..N - 1 : n \in P => n + 1 \in P
      <3> SUFFICES ASSUME NEW n \in 0..N - 1, n \in P PROVE n + 1 \in P
        OBVIOUS
      <3>1. n + 1 \in 0..N
        BY <1>1
      <3> QED
        BY <1>5, <3>1
    <2>2. 0 \in P
      BY <1>1, <1>4
    <2> HIDE DEF P
    <2> QED
      BY <1>1, <2>1, <2>2, UpTo
  <1> QED
    BY <1>6 DEF f

\* What the adder and alert_condition_evaluate are for: the array that is built from
\* the requirements of a message, evaluated with all its short cuts, is true exactly
\* if every group of the message has a requirement that holds; its evaluation reads
\* requirements of the message only, and the array is long enough for it.
THEOREM ConditionIsEvaluated ==
  ASSUME NEW S, NEW reqs \in Seq(S), \A i \in DOMAIN reqs : reqs[i].last \in BOOLEAN,
         reqs # <<>>, reqs[Len(reqs)].last, NEW H
  PROVE  LET items == BuildCondition(reqs).items
         IN  /\ items \in Seq(Nat) /\ items # <<>> /\ Len(items) <= Len(reqs) + (Len(reqs) - 1)
             /\ Requirements(items) = DOMAIN reqs
             /\ Evaluate(items, H).result
                  <=> \A g \in DOMAIN reqs : reqs[g].last => GroupHolds(reqs, H, g)
             /\ Evaluate(items, H).evaluated \subseteq DOMAIN reqs
  <1> DEFINE N == Len(reqs)
             items == BuildCondition(reqs).items
             loop == EvaluateEnd(items, H)
  <1>1. N \in Nat /\ N > 0 /\ DOMAIN reqs = 1..N /\ N \in 0..N /\ N \in 1..N
    OBVIOUS
  <1>2. /\ items \in Seq(Nat) /\ items # <<>> /\ Len(items) <= N + (N - 1)
        /\ Requirements(items) = 1..N
    BY <1>1, BuildLoopFacts DEF BuildCondition, Condition
  <1>3. EvaluatedUpTo(loop, reqs, H, N)
    BY <1>1, EvaluateBuilt DEF BuildCondition
  <1> HIDE DEF items
  <1>4. Evaluate(items, H) = [result |-> ~loop.returned /\ loop.ored, evaluated |-> loop.evaluated]
    BY DEF Evaluate, EvaluateEnd
  <1> HIDE DEF loop
  <1>5. Evaluate(items, H).evaluated \subseteq DOMAIN reqs
    BY <1>1, <1>3, <1>4 DEF EvaluatedUpTo
  <1>6. Evaluate(items, H).result <=> \A g \in 1..N : reqs[g].last => GroupHolds(reqs, H, g)
    <2>1. \A n \in Nat : \A g \in 1..n : g \in 1..n - 1 \/ g = n
      OBVIOUS
    <2>2. \A n \in Nat : \A g \in 1..n - 1 : g \in 1..n
      OBVIOUS
    <2>3. /\ loop.returned <=> \E g \in 1..N - 1 : reqs[g].last /\ ~GroupHolds(reqs, H, g)
          /\ ~loop.returned => (loop.ored <=> GroupHolds(reqs, H, N))
      BY <1>1, <1>3 DEF EvaluatedUpTo
    <2>4. Evaluate(items, H).result <=> ~loop.returned /\ loop.ored
      <3>1. Evaluate(items, H).result = (~loop.returned /\ loop.ored)
        BY <1>4
      <3> QED
        BY <3>1
    <2> QED
      BY <1>1, <2>1, <2>2, <2>3, <2>4
  <1> QED
    BY <1>1, <1>2, <1>5, <1>6 DEF items
=============================================================================
