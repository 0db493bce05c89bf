------------------------- MODULE AlertEngineProofs -------------------------
(***************************************************************************)
(* Proofs about AlertEngine, for every set of variables, values, alert ids *)
(* and messages.                                                           *)
(***************************************************************************)
EXTENDS AlertConditionProofs

-----------------------------------------------------------------------------
(* Messages and requirement instances                                       *)

\* What a message looks like.
LEMMA MessageFacts ==
  ASSUME NEW m \in Messages
  PROVE  /\ m # NoAlert /\ m.reqs \in Seq(ToSet(m.reqs))
         /\ Len(m.reqs) \in Nat /\ Len(m.reqs) <= MaxRequirements /\ DOMAIN m.reqs = 1..Len(m.reqs)
         /\ \A i \in DOMAIN m.reqs : m.reqs[i].last \in BOOLEAN
  <1>1. /\ m # NoAlert /\ m.reqs \in Seq(ToSet(m.reqs)) /\ Len(m.reqs) <= MaxRequirements
        /\ \A i \in DOMAIN m.reqs : m.reqs[i].last \in BOOLEAN
    BY ConstantsAssumption
  <1>2. Len(m.reqs) \in Nat /\ DOMAIN m.reqs = 1..Len(m.reqs)
    BY <1>1
  <1> QED
    BY <1>1, <1>2

\* A requirement instance is a number of an alert's requirement.
LEMMA InstanceFacts ==
  ASSUME NEW a \in AlertIds, NEW m \in Messages, NEW i \in DOMAIN m.reqs
  PROVE  /\ <<a, i>> \in Node /\ <<a, i>> \in AllInstances
         /\ <<a, i>> \in Instances(a, m.reqs)
  <1>1. i \in Nat
    BY MessageFacts
  <1>2. <<a, i>> \in Instances(a, m.reqs)
    BY DEF Instances
  <1> QED
    BY <1>1, <1>2 DEF Node, AllInstances

\* A valid condition is evaluated as its message says, and all its requirements are
\* in the array.
LEMMA ValidCondition ==
  ASSUME NEW m \in Messages, IsAlertConditionValid(m.reqs)
  PROVE  LET items == BuildCondition(m.reqs).items
             e     == EvaluateCondition(items, m.reqs)
         IN  /\ items # <<>> /\ Len(items) <= MaxRequirements + (MaxRequirements - 1)
             /\ Requirements(items) = DOMAIN m.reqs
             /\ e.result <=> Truth(m.reqs)
             /\ e.evaluated \subseteq DOMAIN m.reqs
             /\ e = [result |-> e.result, evaluated |-> e.evaluated] /\ e.result \in BOOLEAN
  <1> DEFINE reqs == m.reqs
             H == {i \in DOMAIN reqs : Satisfied(reqs[i])}
             items == BuildCondition(reqs).items
             e == Evaluate(items, H)
  <1>1. /\ reqs \in Seq(ToSet(reqs)) /\ \A i \in DOMAIN reqs : reqs[i].last \in BOOLEAN
        /\ reqs # <<>> /\ Last(reqs).last /\ Len(reqs) \in Nat /\ Len(reqs) <= MaxRequirements
        /\ DOMAIN reqs = 1..Len(reqs)
    <2>1. PICK last \in LastMark(reqs) : reqs # <<>> /\ last
      BY DEF IsAlertConditionValid
    <2>2. Last(reqs).last
      BY <2>1 DEF LastMark
    <2> QED
      BY <2>1, <2>2, MessageFacts
  <1>2. reqs[Len(reqs)].last
    BY <1>1 DEF Last
  <1> HIDE DEF reqs
  <1>3. /\ items \in Seq(Nat) /\ items # <<>> /\ Len(items) <= Len(reqs) + (Len(reqs) - 1)
        /\ Requirements(items) = DOMAIN reqs
        /\ e.result <=> \A g \in DOMAIN reqs : reqs[g].last => GroupHolds(reqs, H, g)
        /\ e.evaluated \subseteq DOMAIN reqs
    BY <1>1, <1>2, ConditionIsEvaluated
  <1>4. Len(items) <= MaxRequirements + (MaxRequirements - 1)
    BY <1>1, <1>3, ConstantsAssumption
  <1>5. Truth(reqs) <=> \A g \in DOMAIN reqs : reqs[g].last => GroupHolds(reqs, H, g)
    <2>1. ASSUME NEW g \in DOMAIN reqs
          PROVE  GroupHolds(reqs, H, g)
                   <=> \E i \in 1..g : Satisfied(reqs[i]) /\ \A j \in i..g - 1 : ~reqs[j].last
      <3>1. \A i \in 1..g : i \in DOMAIN reqs
        BY <1>1
      <3> QED
        BY <3>1 DEF GroupHolds
    <2> QED
      BY <2>1 DEF Truth
  <1>6. e = [result |-> e.result, evaluated |-> e.evaluated] /\ e.result \in BOOLEAN
    BY DEF Evaluate
  <1>7. EvaluateCondition(items, reqs) = e
    BY DEF EvaluateCondition
  <1> HIDE DEF e, items
  <1> QED
    BY <1>3, <1>4, <1>5, <1>6, <1>7 DEF reqs, items

-----------------------------------------------------------------------------
(* The alerts, their conditions and the requirement lists                   *)

\* Everything the adder has made of a message is there for as long as the alert is
\* set: its condition, and its requirements, each in the list of its variable.
AlertsAreBuilt ==
  /\ alert \in [AlertIds -> Messages \cup {NoAlert}]
  /\ \A a \in AlertIds :
       IsSet(a) => IsAlertConditionValid(alert[a].reqs) /\ IsLedValid(alert[a])
  /\ conditions = [a \in AlertIds |->
                     IF IsSet(a) THEN BuildCondition(alert[a].reqs).items ELSE <<>>]
  /\ live = {r \in Node : IsSet(r[1]) /\ r[2] \in DOMAIN alert[r[1]].reqs}
  /\ lists \in [Variables -> Seq(Node)]
  /\ \A v \in Variables :
       IsInjective(lists[v]) /\ ToSet(lists[v]) = {r \in live : Req(r).var = v}

\* An alert that is set has a message.
LEMMA SetAlertFacts ==
  ASSUME AlertsAreBuilt, NEW a \in AlertIds, IsSet(a)
  PROVE  /\ alert[a] \in Messages /\ IsAlertConditionValid(alert[a].reqs) /\ IsLedValid(alert[a])
         /\ conditions[a] = BuildCondition(alert[a].reqs).items
         /\ \A r : r \in live /\ r[1] = a <=> \E i \in DOMAIN alert[a].reqs : r = <<a, i>>
  <1>1. alert[a] \in Messages /\ IsAlertConditionValid(alert[a].reqs) /\ IsLedValid(alert[a])
    BY DEF AlertsAreBuilt, IsSet
  <1>2. conditions[a] = BuildCondition(alert[a].reqs).items
    BY DEF AlertsAreBuilt
  <1>3. \A i \in DOMAIN alert[a].reqs : <<a, i>> \in Node
    BY <1>1, InstanceFacts
  <1>4. \A r : r \in live <=> r \in Node /\ IsSet(r[1]) /\ r[2] \in DOMAIN alert[r[1]].reqs
    BY DEF AlertsAreBuilt
  <1>5. \A r \in Node : r = <<r[1], r[2]>>
    BY DEF Node
  <1> QED
    BY <1>1, <1>2, <1>3, <1>4, <1>5

\* A live instance belongs to an alert that is set.
LEMMA LiveFacts ==
  ASSUME AlertsAreBuilt, NEW r \in live
  PROVE  /\ r \in Node /\ r[1] \in AlertIds /\ IsSet(r[1]) /\ r[2] \in DOMAIN alert[r[1]].reqs
         /\ r = <<r[1], r[2]>> /\ r \in AllInstances
         /\ Req(r).var \in Variables /\ r \in ToSet(lists[Req(r).var])
  <1>1. /\ r \in Node /\ IsSet(r[1]) /\ r[2] \in DOMAIN alert[r[1]].reqs
    BY DEF AlertsAreBuilt
  <1>2. r[1] \in AlertIds /\ r = <<r[1], r[2]>>
    BY <1>1 DEF Node
  <1>3. alert[r[1]] \in Messages /\ IsAlertConditionValid(alert[r[1]].reqs)
    BY <1>1, <1>2, SetAlertFacts
  <1>4. <<r[1], r[2]>> \in AllInstances
    BY <1>1, <1>2, <1>3, InstanceFacts
  <1>5. Req(r).var \in Variables
    BY <1>1, <1>3 DEF Req, IsAlertConditionValid
  <1>6. r \in ToSet(lists[Req(r).var])
    BY <1>5 DEF AlertsAreBuilt
  <1> QED
    BY <1>1, <1>2, <1>4, <1>5, <1>6

\* alert_adder_add_alert builds.
LEMMA AddAlertBuilds ==
  ASSUME AlertsAreBuilt, NEW id \in MessageIds, NEW m \in Messages, AddAlert(id, m)
  PROVE  AlertsAreBuilt'
  <1>1. /\ alert' = [alert EXCEPT ![id] = m]
        /\ conditions' = [conditions EXCEPT ![id] = BuildCondition(m.reqs).items]
        /\ lists' = [v \in Variables |-> Prepend(id, m.reqs, v)]
        /\ live' = live \cup Instances(id, m.reqs)
        /\ IsAlertConditionValid(m.reqs) /\ IsLedValid(m) /\ ~IsSet(id) /\ id <= MaxAlertId
    BY DEF AddAlert, IsAlertValid, IsAlertIdValid
  <1>2. id \in AlertIds /\ m # NoAlert /\ m.reqs \in Seq(ToSet(m.reqs))
        /\ DOMAIN m.reqs = 1..Len(m.reqs)
    BY <1>1, MessageFacts, ConstantsAssumption DEF AlertIds
  <1>3. /\ alert' \in [AlertIds -> Messages \cup {NoAlert}] /\ alert'[id] = m
        /\ \A a \in AlertIds : a # id => alert'[a] = alert[a]
    BY <1>1, <1>2 DEF AlertsAreBuilt
  <1>4. \A a \in AlertIds : IsSet(a)' <=> a = id \/ IsSet(a)
    BY <1>2, <1>3 DEF IsSet
  <1>5. \A a \in AlertIds : IsSet(a)' => IsAlertConditionValid(alert'[a].reqs) /\ IsLedValid(alert'[a])
    BY <1>1, <1>3, <1>4 DEF AlertsAreBuilt
  <1>6. conditions' = [a \in AlertIds |->
                         IF IsSet(a)' THEN BuildCondition(alert'[a].reqs).items ELSE <<>>]
    BY <1>1, <1>2, <1>3, <1>4 DEF AlertsAreBuilt
  <1>7. \A r : r \in live' <=> r \in Node /\ IsSet(r[1])' /\ r[2] \in DOMAIN alert'[r[1]].reqs
    <2>1. \A r \in live : r \in Node /\ r[1] \in AlertIds /\ r[1] # id /\ IsSet(r[1])
                          /\ r[2] \in DOMAIN alert[r[1]].reqs
      BY <1>1, LiveFacts
    <2>2. \A r \in Node : r[1] \in AlertIds /\ r = <<r[1], r[2]>>
      BY DEF Node
    <2>3. ASSUME NEW r, r \in live'
          PROVE  r \in Node /\ IsSet(r[1])' /\ r[2] \in DOMAIN alert'[r[1]].reqs
      <3>1. CASE r \in live
        BY <1>3, <1>4, <2>1, <3>1
      <3>2. CASE r \in Instances(id, m.reqs)
        <4>1. PICK i \in DOMAIN m.reqs : r = <<id, i>>
          BY <3>2 DEF Instances
        <4> QED
          BY <1>2, <1>3, <1>4, <4>1, InstanceFacts
      <3> QED
        BY <1>1, <2>3, <3>1, <3>2
    <2>4. ASSUME NEW r \in Node, IsSet(r[1])', r[2] \in DOMAIN alert'[r[1]].reqs
          PROVE  r \in live'
      <3>1. CASE r[1] = id
        BY <1>1, <1>3, <2>2, <2>4, <3>1 DEF Instances
      <3>2. CASE r[1] # id
        BY <1>1, <1>3, <1>4, <2>2, <2>4, <3>2 DEF AlertsAreBuilt
      <3> QED
        BY <3>1, <3>2
    <2> QED
      BY <2>3, <2>4
  <1>8. ASSUME NEW v \in Variables
        PROVE  /\ lists'[v] \in Seq(Node) /\ IsInjective(lists'[v])
               /\ ToSet(lists'[v]) = {r \in live' : Req(r)'.var = v}
    <2>1. /\ lists[v] \in Seq(Node) /\ IsInjective(lists[v])
          /\ ToSet(lists[v]) = {r \in live : Req(r).var = v}
      BY DEF AlertsAreBuilt
    <2>2. \A r \in live : r[1] \in AlertIds /\ r[1] # id
      BY <1>1, LiveFacts
    <2>3. \A r \in ToSet(lists[v]) : r[1] # id
      BY <2>1, <2>2
    <2>4. /\ lists'[v] \in Seq(Node) /\ IsInjective(lists'[v])
          /\ ToSet(lists'[v]) = ToSet(lists[v]) \cup
               {<<id, i>> : i \in {j \in 1..Len(m.reqs) : m.reqs[j].var = v}}
      BY <1>1, <1>2, <2>1, <2>3, PrependLoopFacts DEF Prepend
    <2>5. \A r \in live : Req(r)' = Req(r)
      BY <1>3, <2>2 DEF Req
    <2>6. \A i \in DOMAIN m.reqs : Req(<<id, i>>)' = m.reqs[i]
      BY <1>2, <1>3 DEF Req
    <2> QED
      BY <1>1, <1>2, <2>1, <2>4, <2>5, <2>6 DEF Instances
  <1>9. lists' \in [Variables -> Seq(Node)]
    BY <1>1, <1>8
  <1>10. live' = {r \in Node : IsSet(r[1])' /\ r[2] \in DOMAIN alert'[r[1]].reqs}
    BY <1>7
  <1> QED
    BY <1>3, <1>5, <1>6, <1>8, <1>9, <1>10 DEF AlertsAreBuilt

\* alert_remover_remove_alert takes away all that was built, and nothing else.
LEMMA RemoveAlertKeepsBuilt ==
  ASSUME AlertsAreBuilt, NEW id \in MessageIds, RemoveAlert(id)
  PROVE  AlertsAreBuilt'
  <1>1. /\ alert' = [alert EXCEPT ![id] = NoAlert]
        /\ lists' = [v \in Variables |-> RemoveAllForAlert(id, v)]
        /\ live' = live \ {<<id, i>> : i \in Requirements(conditions[id])}
        /\ conditions' = [conditions EXCEPT ![id] = <<>>]
        /\ IsSet(id) /\ id <= MaxAlertId
    BY DEF RemoveAlert, IsAlertIdValid, Reset
  <1>2. id \in AlertIds
    BY <1>1, ConstantsAssumption DEF AlertIds
  <1>3. /\ alert' \in [AlertIds -> Messages \cup {NoAlert}] /\ alert'[id] = NoAlert
        /\ \A a \in AlertIds : a # id => alert'[a] = alert[a]
    BY <1>1, <1>2 DEF AlertsAreBuilt
  <1>4. \A a \in AlertIds : IsSet(a)' <=> a # id /\ IsSet(a)
    BY <1>2, <1>3 DEF IsSet
  <1>5. \A a \in AlertIds : IsSet(a)' => IsAlertConditionValid(alert'[a].reqs) /\ IsLedValid(alert'[a])
    BY <1>3, <1>4 DEF AlertsAreBuilt
  <1>6. conditions' = [a \in AlertIds |->
                         IF IsSet(a)' THEN BuildCondition(alert'[a].reqs).items ELSE <<>>]
    BY <1>1, <1>2, <1>3, <1>4 DEF AlertsAreBuilt
  <1>7. live' = {r \in live : r[1] # id}
    <2>1. Requirements(conditions[id]) = DOMAIN alert[id].reqs
      BY <1>1, <1>2, SetAlertFacts, ValidCondition
    <2>2. \A r : r \in live /\ r[1] = id <=> \E i \in DOMAIN alert[id].reqs : r = <<id, i>>
      BY <1>1, <1>2, SetAlertFacts
    <2> QED
      BY <1>1, <2>1, <2>2
  <1>8. live' = {r \in Node : IsSet(r[1])' /\ r[2] \in DOMAIN alert'[r[1]].reqs}
    <2>1. \A r \in Node : r[1] \in AlertIds
      BY DEF Node
    <2>2. live = {r \in Node : IsSet(r[1]) /\ r[2] \in DOMAIN alert[r[1]].reqs}
      BY DEF AlertsAreBuilt
    <2> QED
      BY <1>3, <1>4, <1>7, <2>1, <2>2
  <1>9. ASSUME NEW v \in Variables
        PROVE  /\ lists'[v] \in Seq(Node) /\ IsInjective(lists'[v])
               /\ ToSet(lists'[v]) = {r \in live' : Req(r)'.var = v}
    <2>1. /\ lists[v] \in Seq(Node) /\ IsInjective(lists[v])
          /\ ToSet(lists[v]) = {r \in live : Req(r).var = v}
      BY DEF AlertsAreBuilt
    <2>2. /\ lists'[v] \in Seq(Node) /\ IsInjective(lists'[v])
          /\ ToSet(lists'[v]) = {r \in ToSet(lists[v]) : r[1] # id}
      BY <1>1, <2>1, RemoveLoopFacts DEF RemoveAllForAlert
    <2>3. \A r \in live : r[1] # id => Req(r)' = Req(r)
      BY <1>3, LiveFacts DEF Req
    <2> QED
      BY <1>7, <2>1, <2>2, <2>3
  <1>10. lists' \in [Variables -> Seq(Node)]
    BY <1>1, <1>9
  <1> QED
    BY <1>3, <1>5, <1>6, <1>8, <1>9, <1>10 DEF AlertsAreBuilt

\* The alerts are built in every state, whichever thread is where.
THEOREM Built == Spec => []AlertsAreBuilt
  <1>1. Init => AlertsAreBuilt
    <2> SUFFICES ASSUME Init PROVE AlertsAreBuilt
      OBVIOUS
    <2>1. /\ alert = [a \in AlertIds |-> NoAlert] /\ conditions = [a \in AlertIds |-> <<>>]
          /\ lists = [v \in Variables |-> <<>>] /\ live = {}
      BY DEF Init, Reset
    <2>2. \A a \in AlertIds : ~IsSet(a)
      BY <2>1 DEF IsSet
    <2>3. \A r \in Node : r[1] \in AlertIds
      BY DEF Node
    <2>4. live = {r \in Node : IsSet(r[1]) /\ r[2] \in DOMAIN alert[r[1]].reqs}
      BY <2>1, <2>2, <2>3
    <2>5. <<>> \in Seq(Node) /\ IsInjective(<<>>) /\ ToSet(<<>>) = {}
      BY DEF IsInjective, ToSet
    <2>6. \A v \in Variables : IsInjective(lists[v]) /\ ToSet(lists[v]) = {r \in live : Req(r).var = v}
      BY <2>1, <2>5
    <2> QED
      BY <2>1, <2>2, <2>4, <2>5, <2>6 DEF AlertsAreBuilt
  <1>2. AlertsAreBuilt /\ [Next]_vars => AlertsAreBuilt'
    <2> SUFFICES ASSUME AlertsAreBuilt, [Next]_vars PROVE AlertsAreBuilt'
      OBVIOUS
    <2>1. ASSUME NEW id \in MessageIds, NEW m \in Messages, AddAlert(id, m) PROVE AlertsAreBuilt'
      BY <2>1, AddAlertBuilds
    <2>2. ASSUME NEW id \in MessageIds, RemoveAlert(id) PROVE AlertsAreBuilt'
      BY <2>2, RemoveAlertKeepsBuilt
    <2>3. ASSUME UNCHANGED alertVars PROVE AlertsAreBuilt'
      BY <2>3 DEF alertVars, AlertsAreBuilt, IsSet, Req
    <2>4. ASSUME NEW v \in Variables, NEW x \in Values, NewSample(v, x) PROVE UNCHANGED alertVars
      BY <2>4 DEF NewSample
    <2>5. CASE SetCurrentValue \/ EvaluateVariableRequirement \/ NextList \/ AssignIsAlertRaised
      BY <2>3, <2>5 DEF SetCurrentValue, EvaluateVariableRequirement, NextList, AssignIsAlertRaised
    <2>6. ASSUME NEW a \in AlertIds, PeriodExpired(a) PROVE UNCHANGED alertVars
      BY <2>6 DEF PeriodExpired
    <2>7. CASE UNCHANGED vars
      BY <2>3, <2>7 DEF vars
    <2> QED
      BY <2>1, <2>2, <2>3, <2>4, <2>5, <2>6, <2>7 DEF Next
  <1> QED
    BY <1>1, <1>2, PTL DEF Spec

\* Requirement instances and list nodes are neither leaked nor freed too early, and no
\* array of a condition overflows, also when the Bluetooth thread adds and removes
\* alerts inside a sample handler.
THEOREM Accounted == Spec => []RequirementsAccounted
  <1>1. AlertsAreBuilt => RequirementsAccounted
    <2> SUFFICES ASSUME AlertsAreBuilt PROVE RequirementsAccounted
      OBVIOUS
    <2> DEFINE set == {b \in AlertIds : IsSet(b)}
    <2>1. live = UNION {Instances(a, alert[a].reqs) : a \in set}
      <3>1. ASSUME NEW r \in live PROVE r \in UNION {Instances(a, alert[a].reqs) : a \in set}
        <4>1. r[1] \in set /\ r \in Instances(r[1], alert[r[1]].reqs)
          BY LiveFacts DEF Instances
        <4> QED
          BY <4>1
      <3>2. ASSUME NEW a \in set, NEW r \in Instances(a, alert[a].reqs) PROVE r \in live
        BY SetAlertFacts DEF Instances
      <3> QED
        BY <3>1, <3>2
    <2>2. \A v \in Variables :
            IsInjective(lists[v]) /\ ToSet(lists[v]) = {r \in live : Req(r).var = v}
      BY DEF AlertsAreBuilt
    <2>3. ASSUME NEW a \in AlertIds
          PROVE  /\ {<<a, i>> : i \in Requirements(conditions[a])} = {r \in live : r[1] = a}
                 /\ Len(conditions[a]) <= MaxRequirements + (MaxRequirements - 1)
      <3>1. CASE IsSet(a)
        <4>1. /\ Requirements(conditions[a]) = DOMAIN alert[a].reqs
              /\ Len(conditions[a]) <= MaxRequirements + (MaxRequirements - 1)
          BY <3>1, SetAlertFacts, ValidCondition
        <4>2. \A r : r \in live /\ r[1] = a <=> \E i \in DOMAIN alert[a].reqs : r = <<a, i>>
          BY <3>1, SetAlertFacts
        <4> QED
          BY <4>1, <4>2
      <3>2. CASE ~IsSet(a)
        <4>1. conditions[a] = <<>> /\ Requirements(<<>>) = {} /\ Len(<<>>) = 0
          BY <3>2 DEF AlertsAreBuilt, Requirements, ToSet
        <4>2. \A r \in live : r[1] # a
          BY <3>2, LiveFacts
        <4>3. 0 <= MaxRequirements + (MaxRequirements - 1)
          BY ConstantsAssumption
        <4> QED
          BY <4>1, <4>2, <4>3
      <3> QED
        BY <3>1, <3>2
    <2> QED
      BY <2>1, <2>2, <2>3 DEF RequirementsAccounted
  <1> QED
    BY <1>1, Built, PTL

\* The removal of a raised alert sends no message to the client, also when it comes in
\* the middle of a sample handler.
THEOREM RemovalQuiet == Spec => RemovalIsQuiet
  <1>1. AlertsAreBuilt /\ [Next]_vars
          => [\A a \in AlertIds : IsSet(a) /\ ~IsSet(a)' => client' = client]_vars
    <2> SUFFICES ASSUME AlertsAreBuilt, Next, NEW a \in AlertIds, IsSet(a), ~IsSet(a)'
                 PROVE  client' = client
      OBVIOUS
    <2>1. ASSUME NEW id \in MessageIds, NEW m \in Messages, AddAlert(id, m) PROVE FALSE
      <3>1. alert' = [alert EXCEPT ![id] = m] /\ m # NoAlert
        BY <2>1, MessageFacts DEF AddAlert
      <3> QED
        BY <3>1 DEF IsSet, AlertsAreBuilt
    <2>2. ASSUME NEW id \in MessageIds, RemoveAlert(id) PROVE client' = client
      BY <2>2 DEF RemoveAlert, SilenceRemoved, Notify, ConnectivityNotify, Channels
    <2>3. ~UNCHANGED alertVars
      BY DEF alertVars, IsSet
    <2>4. ASSUME NEW v \in Variables, NEW x \in Values, NewSample(v, x) PROVE FALSE
      BY <2>3, <2>4 DEF NewSample
    <2>5. CASE SetCurrentValue \/ EvaluateVariableRequirement \/ NextList \/ AssignIsAlertRaised
      BY <2>3, <2>5 DEF SetCurrentValue, EvaluateVariableRequirement, NextList, AssignIsAlertRaised
    <2>6. ASSUME NEW b \in AlertIds, PeriodExpired(b) PROVE FALSE
      BY <2>3, <2>6 DEF PeriodExpired
    <2> QED
      BY <2>1, <2>2, <2>4, <2>5, <2>6 DEF Next
  <1> QED
    BY <1>1, Built, PTL DEF Spec, RemovalIsQuiet

-----------------------------------------------------------------------------
(* Types                                                                    *)

\* The event thread walks lists of variables, and has one while it evaluates.
ThreadOK ==
  /\ lists_left \in Seq(Variables)
  /\ pc = "evaluate" => lists_left # <<>>

\* Where the walk of a list goes on: at a node of the list, or at its end.
LEMMA NodeFacts ==
  ASSUME NEW l \in Seq(Node), IsInjective(l)
  PROVE  /\ FirstNode(l) \in ToSet(l) \cup {NoNode}
         /\ \A i \in DOMAIN l : NodeAfter(l, l[i]) = IF i < Len(l) THEN l[i + 1] ELSE NoNode
         /\ \A r \in ToSet(l) : NodeAfter(l, r) \in ToSet(l) \cup {NoNode}
  <1>1. Len(l) \in Nat /\ DOMAIN l = 1..Len(l)
    OBVIOUS
  <1>2. FirstNode(l) \in ToSet(l) \cup {NoNode}
    BY <1>1 DEF FirstNode, ToSet
  <1>3. ASSUME NEW i \in DOMAIN l
        PROVE  NodeAfter(l, l[i]) = IF i < Len(l) THEN l[i + 1] ELSE NoNode
    <2> DEFINE I == {j \in 1..Len(l) : l[j] = l[i]}
    <2>1. I = {i} /\ i \in Nat
      BY <1>1 DEF IsInjective
    <2>2. Min(I) = i
      BY <2>1, MinFacts
    <2>3. SelectInSeq(l, LAMBDA x : x = l[i]) = i
      BY <2>1, <2>2 DEF SelectInSeq
    <2> QED
      BY <2>3 DEF NodeAfter
  <1>4. ASSUME NEW r \in ToSet(l) PROVE NodeAfter(l, r) \in ToSet(l) \cup {NoNode}
    <2>1. PICK i \in DOMAIN l : r = l[i]
      BY DEF ToSet
    <2>2. i < Len(l) => i + 1 \in DOMAIN l
      BY <1>1
    <2> QED
      BY <1>3, <2>1, <2>2 DEF ToSet
  <1> QED
    BY <1>2, <1>3, <1>4

\* The nodes of the lists are instances.
LEMMA ListNodes ==
  ASSUME AlertsAreBuilt, NEW v \in Variables
  PROVE  /\ lists[v] \in Seq(Node) /\ IsInjective(lists[v])
         /\ ToSet(lists[v]) \subseteq live /\ ToSet(lists[v]) \subseteq AllInstances
         /\ live \subseteq AllInstances
         /\ FirstNode(lists[v]) \in AllInstances \cup {NoNode}
         /\ \A r \in ToSet(lists[v]) : NodeAfter(lists[v], r) \in AllInstances \cup {NoNode}
  <1>1. /\ lists[v] \in Seq(Node) /\ IsInjective(lists[v])
        /\ ToSet(lists[v]) \subseteq live
    BY DEF AlertsAreBuilt
  <1>2. live \subseteq AllInstances
    BY LiveFacts
  <1> QED
    BY <1>1, <1>2, NodeFacts

\* Walking lists keeps the types.
LEMMA WalkTypes ==
  ASSUME AlertsAreBuilt, NEW ls \in Seq(Variables), WalkLists(ls)
  PROVE  ThreadOK' /\ pc' \in {"idle", "set", "evaluate"} /\ node' \in AllInstances \cup {NoNode}
         /\ ToSet(lists_left') \subseteq Variables
  <1>1. lists_left' = ls /\ pc' = IF ls = <<>> THEN "idle" ELSE "evaluate"
    BY DEF WalkLists
  <1>2. node' \in AllInstances \cup {NoNode}
    <2>1. CASE ls = <<>>
      BY <2>1 DEF WalkLists
    <2>2. CASE ls # <<>>
      <3>1. Head(ls) \in Variables
        BY <2>2
      <3> QED
        BY <2>2, <3>1, ListNodes DEF WalkLists
    <2> QED
      BY <2>1, <2>2
  <1>3. ToSet(ls) \subseteq Variables
    BY DEF ToSet
  <1> QED
    BY <1>1, <1>2, <1>3 DEF ThreadOK

\* A notification keeps the types.
LEMMA NotifyTypes ==
  ASSUME TypeOK, NEW a \in AlertIds, NEW res \in BOOLEAN, NEW to,
         to.client \subseteq AlertIds, to.led \in Kinds \cup {Off}, Notify(a, res, to)
  PROVE  client' \subseteq AlertIds /\ displayed' \in [Kinds -> Int]
  <1>1. client' \subseteq AlertIds
    BY DEF Notify, ConnectivityNotify, With
  <1>2. displayed \in [Kinds -> Int] /\ (IF res THEN 1 ELSE -1) \in Int
    BY DEF TypeOK
  <1>3. displayed' = IF to.led = Off THEN displayed
                     ELSE [displayed EXCEPT ![to.led] = displayed[to.led] + (IF res THEN 1 ELSE -1)]
    BY DEF Notify, LedNotify
  <1> QED
    BY <1>1, <1>2, <1>3

\* So does the condition result of an alert.
LEMMA NotifyThenAssignTypes ==
  ASSUME TypeOK, NEW a \in AlertIds, NEW res \in BOOLEAN, NotifyThenAssign(a, res, Channels(a)),
         raising = NoRaise
  PROVE  /\ cond' \subseteq AlertIds /\ raised' = raised
         /\ client' \subseteq AlertIds /\ displayed' \in [Kinds -> Int]
         /\ raising' \in (AlertIds \X BOOLEAN) \cup {NoRaise}
  <1>1. cond' = With(cond, a, res) /\ raised' = raised
        /\ \/ UNCHANGED <<displayed, raising, client>>
           \/ raising' = <<a, res>> /\ Notify(a, res, Channels(a))
    BY DEF NotifyThenAssign
  <1>2. cond' \subseteq AlertIds
    BY <1>1 DEF TypeOK, With
  <1>3. /\ Channels(a).client \subseteq AlertIds /\ Channels(a).led \in Kinds \cup {Off}
    BY DEF TypeOK, Channels
  <1>4. CASE UNCHANGED <<displayed, raising, client>>
    BY <1>1, <1>2, <1>4 DEF TypeOK
  <1>5. CASE raising' = <<a, res>> /\ Notify(a, res, Channels(a))
    BY <1>1, <1>2, <1>3, <1>5, NotifyTypes
  <1> QED
    BY <1>1, <1>4, <1>5

\* The caches hold instances.
LEMMA CachedTypes ==
  ASSUME NEW S, S \subseteq AllInstances, NEW reqs, NEW ev, NEW prev,
         ev \subseteq AllInstances, prev \subseteq AllInstances, Cached(S, reqs, ev, prev)
  PROVE  evaluated' \subseteq AllInstances /\ previous' \subseteq AllInstances
  BY DEF Cached

\* The parts of TypeOK that do not follow from AlertsAreBuilt.
RestOK ==
  /\ received \subseteq Variables
  /\ value \in [Variables -> Values \cup {Unset}]
  /\ evaluated \subseteq AllInstances /\ previous \subseteq AllInstances
  /\ cond \subseteq AlertIds /\ raised \subseteq AlertIds
  /\ connectivity \subseteq AlertIds /\ client \subseteq AlertIds
  /\ led \in [AlertIds -> Kinds \cup {Off}]
  /\ displayed \in [Kinds -> Int]
  /\ pc \in {"idle", "set", "evaluate"}
  /\ sample \in [var : Variables, val : Values]
  /\ ready_before \in BOOLEAN
  /\ node \in AllInstances \cup {NoNode}
  /\ raising \in (AlertIds \X BOOLEAN) \cup {NoRaise}
  /\ fault \in BOOLEAN
  /\ ThreadOK

\* The alerts and the rest together have the types.
LEMMA BuiltTypes ==
  ASSUME AlertsAreBuilt, RestOK
  PROVE  TypeOK
  <1>1. alert \in [AlertIds -> Messages \cup {NoAlert}] /\ DOMAIN conditions = AlertIds
        /\ DOMAIN lists = Variables
    BY DEF AlertsAreBuilt
  <1>2. ASSUME NEW a \in AlertIds PROVE Requirements(conditions[a]) \subseteq Nat
    <2>1. CASE IsSet(a)
      <3>1. Requirements(conditions[a]) = DOMAIN alert[a].reqs /\ alert[a] \in Messages
        BY <2>1, SetAlertFacts, ValidCondition
      <3> QED
        BY <3>1, MessageFacts
    <2>2. CASE ~IsSet(a)
      BY <2>2 DEF AlertsAreBuilt, Requirements, ToSet
    <2> QED
      BY <2>1, <2>2
  <1>3. \A v \in Variables : ToSet(lists[v]) \subseteq AllInstances
    BY ListNodes
  <1>4. live \subseteq AllInstances
    BY LiveFacts
  <1>5. ToSet(lists_left) \subseteq Variables
    BY DEF RestOK, ThreadOK, ToSet
  <1> QED
    BY <1>1, <1>2, <1>3, <1>4, <1>5 DEF TypeOK, RestOK

\* The adder keeps the types.
LEMMA AddAlertTypes ==
  ASSUME AlertsAreBuilt, RestOK, NEW id \in MessageIds, NEW m \in Messages, AddAlert(id, m)
  PROVE  RestOK'
  <1> DEFINE items == BuildCondition(m.reqs).items
             fresh == Instances(id, m.reqs)
             to    == [connectivity |-> id \in connectivity', led |-> led'[id],
                       client |-> client \ {id}]
             e     == EvaluateCondition(items, m.reqs)
  <1>1. /\ IsAlertConditionValid(m.reqs) /\ IsLedValid(m) /\ id <= MaxAlertId
        /\ connectivity' = IF m.connectivity THEN connectivity \cup {id} ELSE connectivity
        /\ led' = IF m.led # Off THEN [led EXCEPT ![id] = m.led] ELSE led
        /\ IF IsReady
           THEN /\ Cached({<<id, i>> : i \in e.evaluated}, m.reqs,
                          evaluated \ fresh, previous \ fresh)
                /\ SetAlertConditionResult(id, e.result, to)
                /\ fault' = EvaluateAsserts(items, m.reqs)
           ELSE /\ Cached({}, m.reqs, evaluated \ fresh, previous \ fresh)
                /\ client' = to.client
                /\ UNCHANGED <<cond, raised, displayed, fault>>
        /\ UNCHANGED <<received, value, threadVars>>
    BY DEF AddAlert, IsAlertValid, IsAlertIdValid
  <1>2. id \in AlertIds /\ TypeOK
    BY <1>1, BuiltTypes, ConstantsAssumption DEF AlertIds
  <1>3. /\ connectivity' \subseteq AlertIds /\ led' \in [AlertIds -> Kinds \cup {Off}]
    BY <1>1, <1>2 DEF RestOK, IsLedValid
  <1>4. /\ e.result \in BOOLEAN /\ e.evaluated \subseteq DOMAIN m.reqs
    BY <1>1, ValidCondition
  <1>5. to.client \subseteq AlertIds /\ to.led \in Kinds \cup {Off}
    BY <1>2, <1>3 DEF RestOK
  <1> HIDE DEF e, to, items
  <1>6. evaluated' \subseteq AllInstances /\ previous' \subseteq AllInstances
    <2>1. {<<id, i>> : i \in e.evaluated} \subseteq AllInstances /\ {} \subseteq AllInstances
      BY <1>2, <1>4, InstanceFacts
    <2>2. evaluated \ fresh \subseteq AllInstances /\ previous \ fresh \subseteq AllInstances
      BY DEF RestOK
    <2> HIDE DEF fresh
    <2>3. CASE IsReady
      BY <1>1, <2>1, <2>2, <2>3, CachedTypes
    <2>4. CASE ~IsReady
      BY <1>1, <2>1, <2>2, <2>4, CachedTypes
    <2> QED
      BY <2>3, <2>4
  <1>7. /\ cond' \subseteq AlertIds /\ raised' \subseteq AlertIds /\ client' \subseteq AlertIds
        /\ displayed' \in [Kinds -> Int] /\ fault' \in BOOLEAN
    <2>1. CASE ~IsReady
      BY <1>1, <1>5, <2>1 DEF RestOK
    <2>2. CASE IsReady
      <3>1. fault' \in BOOLEAN
        <4>1. fault' = EvaluateAsserts(items, m.reqs)
          BY <1>1, <2>2
        <4> QED
          BY <4>1 DEF EvaluateAsserts
      <3>2. cond' = With(cond, id, e.result)
            /\ \/ UNCHANGED <<raised, displayed>> /\ client' = to.client
               \/ raised' = With(raised, id, e.result) /\ Notify(id, e.result, to)
        BY <1>1, <2>2 DEF SetAlertConditionResult
      <3>3. cond' \subseteq AlertIds
        BY <1>2, <3>2 DEF RestOK, With
      <3>4. CASE UNCHANGED <<raised, displayed>> /\ client' = to.client
        BY <1>5, <3>1, <3>3, <3>4 DEF RestOK
      <3>5. CASE raised' = With(raised, id, e.result) /\ Notify(id, e.result, to)
        <4>1. client' \subseteq AlertIds /\ displayed' \in [Kinds -> Int]
          BY <1>2, <1>4, <1>5, <3>5, NotifyTypes
        <4>2. raised' \subseteq AlertIds
          BY <1>2, <3>5 DEF RestOK, With
        <4> QED
          BY <3>1, <3>3, <4>1, <4>2
      <3> QED
        BY <3>2, <3>4, <3>5
    <2> QED
      BY <2>1, <2>2
  <1> QED
    BY <1>1, <1>3, <1>6, <1>7 DEF RestOK, ThreadOK, threadVars

\* The remover keeps the types.
LEMMA RemoveAlertTypes ==
  ASSUME AlertsAreBuilt, RestOK, NEW id \in MessageIds, RemoveAlert(id)
  PROVE  RestOK'
  <1> DEFINE to == [Channels(id) EXCEPT !.connectivity = FALSE]
  <1>1. /\ connectivity' = connectivity \ {id} /\ cond' = cond \ {id} /\ raised' = raised \ {id}
        /\ IF id \in raised THEN Notify(id, FALSE, to) ELSE UNCHANGED <<client, displayed>>
        /\ led' = [led EXCEPT ![id] = Off] /\ id <= MaxAlertId
        /\ UNCHANGED <<received, value, cacheVars, threadVars, fault>>
    BY DEF RemoveAlert, SilenceRemoved, IsAlertIdValid
  <1>2. id \in AlertIds /\ TypeOK
    BY <1>1, BuiltTypes, ConstantsAssumption DEF AlertIds
  <1>3. to.client = client /\ to.led = led[id]
    BY DEF Channels
  <1> HIDE DEF to
  <1>4. client' \subseteq AlertIds /\ displayed' \in [Kinds -> Int]
    <2>1. CASE id \in raised
      <3>1. to.client \subseteq AlertIds /\ to.led \in Kinds \cup {Off}
        BY <1>2, <1>3 DEF RestOK
      <3> QED
        BY <1>1, <1>2, <2>1, <3>1, NotifyTypes
    <2>2. CASE id \notin raised
      BY <1>1, <2>2 DEF RestOK
    <2> QED
      BY <2>1, <2>2
  <1>5. led' \in [AlertIds -> Kinds \cup {Off}]
    BY <1>1 DEF RestOK
  <1> QED
    BY <1>1, <1>4, <1>5 DEF RestOK, ThreadOK, threadVars, cacheVars

\* The handler of a requirement keeps the types.
LEMMA EvaluateTypes ==
  ASSUME AlertsAreBuilt, RestOK, EvaluateVariableRequirement
  PROVE  RestOK'
  <1> DEFINE a == node[1]
             reqs == alert[a].reqs
             e == EvaluateCondition(conditions[a], reqs)
  <1>1. /\ pc = "evaluate" /\ raising = NoRaise
        /\ node \in live /\ node \in ToSet(lists[Head(lists_left)])
        /\ node' = NodeAfter(lists[Head(lists_left)], node)
        /\ IF IsResultChanged(node)
           THEN /\ Cached({node} \cup {<<a, i>> : i \in e.evaluated}, reqs, evaluated, previous)
                /\ NotifyThenAssign(a, e.result, Channels(a))
                /\ fault' = EvaluateAsserts(conditions[a], reqs)
           ELSE /\ Cached({node}, reqs, evaluated, previous)
                /\ UNCHANGED <<cond, raised, raising, client, displayed, fault>>
        /\ UNCHANGED <<received, value, connectivity, led, pc, sample, ready_before, lists_left>>
    BY DEF EvaluateVariableRequirement, EventThreadIs
  <1>2. /\ Head(lists_left) \in Variables /\ a \in AlertIds /\ IsSet(a) /\ TypeOK
        /\ node \in AllInstances
    BY <1>1, LiveFacts, BuiltTypes DEF RestOK, ThreadOK
  <1>3. node' \in AllInstances \cup {NoNode}
    BY <1>1, <1>2, ListNodes
  <1>4. e.result \in BOOLEAN /\ e.evaluated \subseteq DOMAIN reqs /\ alert[a] \in Messages
    BY <1>2, SetAlertFacts, ValidCondition
  <1> HIDE DEF e
  <1>5. {<<a, i>> : i \in e.evaluated} \subseteq AllInstances
    BY <1>2, <1>4, InstanceFacts
  <1>6. evaluated' \subseteq AllInstances /\ previous' \subseteq AllInstances
    <2>1. CASE IsResultChanged(node)
      <3>1. {node} \cup {<<a, i>> : i \in e.evaluated} \subseteq AllInstances
        BY <1>2, <1>5
      <3> QED
        BY <1>1, <2>1, <3>1, CachedTypes DEF RestOK
    <2>2. CASE ~IsResultChanged(node)
      <3>1. {node} \subseteq AllInstances
        BY <1>2
      <3> QED
        BY <1>1, <2>2, <3>1, CachedTypes DEF RestOK
    <2> QED
      BY <2>1, <2>2
  <1>7. /\ cond' \subseteq AlertIds /\ raised' \subseteq AlertIds /\ client' \subseteq AlertIds
        /\ displayed' \in [Kinds -> Int] /\ fault' \in BOOLEAN
        /\ raising' \in (AlertIds \X BOOLEAN) \cup {NoRaise}
    <2>1. CASE IsResultChanged(node)
      <3>1. fault' \in BOOLEAN
        <4>1. fault' = EvaluateAsserts(conditions[a], reqs)
          BY <1>1, <2>1
        <4> QED
          BY <4>1 DEF EvaluateAsserts
      <3>2. NotifyThenAssign(a, e.result, Channels(a))
        BY <1>1, <2>1
      <3> HIDE DEF a
      <3> QED
        BY <1>1, <1>2, <1>4, <3>1, <3>2, NotifyThenAssignTypes DEF RestOK
    <2>2. CASE ~IsResultChanged(node)
      BY <1>1, <2>2 DEF RestOK
    <2> QED
      BY <2>1, <2>2
  <1> QED
    BY <1>1, <1>3, <1>6, <1>7 DEF RestOK, ThreadOK

\* The other steps of the event thread keep the types.
LEMMA ThreadTypes ==
  ASSUME AlertsAreBuilt, RestOK,
         \/ \E v \in Variables, x \in Values : NewSample(v, x)
         \/ SetCurrentValue \/ NextList
         \/ \E a \in AlertIds : PeriodExpired(a)
         \/ AssignIsAlertRaised
  PROVE  RestOK'
  <1> USE DEF cacheVars, notifyVars
  <1>1. ASSUME NEW v \in Variables, NEW x \in Values, NewSample(v, x) PROVE RestOK'
    <2>1. sample' \in [var : Variables, val : Values] /\ ready_before' \in BOOLEAN
          /\ received' \subseteq Variables /\ pc' = "set"
      BY <1>1 DEF NewSample, NotifyReceivedSample, IsReady, RestOK
    <2> QED
      BY <1>1, <2>1 DEF NewSample, RestOK, ThreadOK
  <1>2. CASE SetCurrentValue
    <2> DEFINE ls == ListsToWalk(IsValueChanged(sample.var, sample.val))
    <2>1. ls \in Seq(Variables)
      <3>1. sample.var \in Variables
        BY DEF RestOK
      <3>2. VariableOrder \in Seq(Variables)
        BY ConstantsAssumption
      <3>3. ls \in {VariableOrder, <<sample.var>>, <<>>}
        BY DEF ListsToWalk
      <3>4. <<sample.var>> \in Seq(Variables)
        BY <3>1
      <3>5. <<>> \in Seq(Variables)
        OBVIOUS
      <3> HIDE DEF ls
      <3> QED
        BY <3>2, <3>3, <3>4, <3>5
    <2>2. WalkLists(ls)
      BY <1>2 DEF SetCurrentValue
    <2>3. value' \in [Variables -> Values \cup {Unset}]
      BY <1>2 DEF SetCurrentValue, RestOK
    <2>4. ThreadOK' /\ pc' \in {"idle", "set", "evaluate"} /\ node' \in AllInstances \cup {NoNode}
      BY <2>1, <2>2, WalkTypes
    <2> QED
      BY <1>2, <2>3, <2>4 DEF SetCurrentValue, RestOK
  <1>3. CASE NextList
    <2>1. Tail(lists_left) \in Seq(Variables)
      BY <1>3 DEF NextList, EventThreadIs, RestOK, ThreadOK
    <2>2. ThreadOK' /\ pc' \in {"idle", "set", "evaluate"} /\ node' \in AllInstances \cup {NoNode}
      BY <1>3, <2>1, WalkTypes DEF NextList
    <2> QED
      BY <1>3, <2>2 DEF NextList, RestOK
  <1>4. ASSUME NEW a \in AlertIds, PeriodExpired(a) PROVE RestOK'
    <2>1. (a \in cond) \in BOOLEAN /\ raising = NoRaise /\ TypeOK
          /\ NotifyThenAssign(a, a \in cond, Channels(a))
      BY <1>4, BuiltTypes DEF PeriodExpired, EventThreadIs
    <2> DEFINE res == a \in cond
    <2> HIDE DEF res
    <2>2. /\ cond' \subseteq AlertIds /\ raised' = raised
          /\ client' \subseteq AlertIds /\ displayed' \in [Kinds -> Int]
          /\ raising' \in (AlertIds \X BOOLEAN) \cup {NoRaise}
      <3>1. res \in BOOLEAN /\ NotifyThenAssign(a, res, Channels(a))
        BY <2>1 DEF res
      <3> QED
        BY <2>1, <3>1, NotifyThenAssignTypes
    <2> QED
      BY <1>4, <2>2 DEF PeriodExpired, RestOK, ThreadOK
  <1>5. CASE AssignIsAlertRaised
    <2>1. raising \in AlertIds \X BOOLEAN
      BY <1>5 DEF AssignIsAlertRaised, RestOK
    <2>2. raised' \subseteq AlertIds
      BY <1>5, <2>1 DEF AssignIsAlertRaised, RestOK, With
    <2>3. raising' = NoRaise
      BY <1>5 DEF AssignIsAlertRaised
    <2> QED
      BY <1>5, <2>2, <2>3 DEF AssignIsAlertRaised, RestOK, ThreadOK
  <1> QED
    BY <1>1, <1>2, <1>3, <1>4, <1>5

\* The rest of the types hold in every state.
THEOREM RestCorrect == Spec => []RestOK
  <1>1. Init => RestOK
    <2> SUFFICES ASSUME Init PROVE RestOK
      OBVIOUS
    <2>1. Head(VariableOrder) \in Variables /\ (CHOOSE x \in Values : TRUE) \in Values
      BY ConstantsAssumption
    <2>2. sample \in [var : Variables, val : Values]
      BY <2>1 DEF Init
    <2>3. value \in [Variables -> Values \cup {Unset}] /\ led \in [AlertIds -> Kinds \cup {Off}]
          /\ displayed \in [Kinds -> Int]
      BY DEF Init
    <2>4. lists_left \in Seq(Variables)
      BY DEF Init
    <2>5. ThreadOK
      BY <2>4 DEF Init, ThreadOK
    <2> QED
      BY <2>2, <2>3, <2>5 DEF Init, RestOK
  <1>2. AlertsAreBuilt /\ RestOK /\ [Next]_vars => RestOK'
    <2> SUFFICES ASSUME AlertsAreBuilt, RestOK, [Next]_vars PROVE RestOK'
      OBVIOUS
    <2>1. ASSUME NEW id \in MessageIds, NEW m \in Messages, AddAlert(id, m) PROVE RestOK'
      BY <2>1, AddAlertTypes
    <2>2. ASSUME NEW id \in MessageIds, RemoveAlert(id) PROVE RestOK'
      BY <2>2, RemoveAlertTypes
    <2>3. CASE EvaluateVariableRequirement
      BY <2>3, EvaluateTypes
    <2>4. CASE UNCHANGED vars
      BY <2>4 DEF vars, alertVars, cacheVars, notifyVars, threadVars, RestOK, ThreadOK
    <2> QED
      BY <2>1, <2>2, <2>3, <2>4, ThreadTypes DEF Next
  <1> QED
    BY <1>1, <1>2, Built, PTL DEF Spec

\* Every variable keeps its type.
THEOREM TypeCorrect == Spec => []TypeOK
  <1>1. AlertsAreBuilt /\ RestOK => TypeOK
    BY BuiltTypes
  <1> QED
    BY <1>1, Built, RestCorrect, PTL

-----------------------------------------------------------------------------
(* Samples: every requirement and every condition catches up                *)

\* The nodes of list l from node n on.
NodesFrom(l, n) == {l[j] : j \in {k \in DOMAIN l : \E i \in 1..k : l[i] = n}}

\* The instances that the event thread has still to visit for the sample at hand.
Remaining ==
  IF pc # "evaluate" THEN {}
  ELSE UNION ({NodesFrom(lists[Head(lists_left)], node)}
                \cup {ToSet(lists[v]) : v \in ToSet(Tail(lists_left))})

\* Evaluations had begun before the sample at hand.
WasReady == IF pc = "set" THEN ready_before ELSE IsReady

\* The instances that are satisfied by the current values, those whose cached
\* result is out of date, and the alerts whose condition is true.
SatisfiedNow == {r \in live : Satisfied(Req(r))}
Stale == {r \in live : r \notin evaluated \/ ~(r \in previous <=> r \in SatisfiedNow)}
TrueAlerts == {a \in AlertIds : IsSet(a) /\ Truth(alert[a].reqs)}

\* Where the thread is in the sample handler, and what is known there.
HandlerInv ==
  /\ ~fault
  /\ \A v \in received : value[v] # Unset \/ (pc = "set" /\ v = sample.var)
  /\ pc = "evaluate" => IsReady /\ (node = NoNode \/ node \in ToSet(lists[Head(lists_left)]))
  /\ pc = "set" /\ ready_before => IsReady

\* What is cached is current, or about to be visited.
CachesCatchUp ==
  \A r \in live \cap evaluated :
    WasReady /\ (r \in Remaining \/ (r \in previous <=> r \in SatisfiedNow))

\* A condition result is current, or an instance of its alert, about to be visited,
\* will turn out to be changed.
ConditionsCatchUp ==
  \A a \in AlertIds :
    IF IsSet(a) /\ WasReady
    THEN (a \in cond <=> a \in TrueAlerts) \/ \E r \in Remaining : r[1] = a /\ r \in Stale
    ELSE a \notin cond

WalkCatchesUp == HandlerInv /\ CachesCatchUp /\ ConditionsCatchUp

\* All nodes of a list come from its first one on, and those from a node on are this
\* node and those from the next one on.
LEMMA NodesFromFacts ==
  ASSUME NEW l \in Seq(Node)
  PROVE  /\ l # <<>> => NodesFrom(l, Head(l)) = ToSet(l)
         /\ IsInjective(l) => \A r \in ToSet(l) :
              NodesFrom(l, r) \subseteq {r} \cup NodesFrom(l, NodeAfter(l, r))
         /\ NodesFrom(l, NoNode) = {}
  <1>1. Len(l) \in Nat /\ DOMAIN l = 1..Len(l) /\ \A i \in DOMAIN l : l[i] \in Node
    OBVIOUS
  <1>2. ASSUME l # <<>> PROVE NodesFrom(l, Head(l)) = ToSet(l)
    <2>1. l[1] = Head(l)
      BY <1>2
    <2>2. \A k \in DOMAIN l : 1 \in 1..k
      BY <1>1
    <2> QED
      BY <2>1, <2>2 DEF NodesFrom, ToSet
  <1>3. ASSUME IsInjective(l), NEW r \in ToSet(l)
        PROVE  NodesFrom(l, r) \subseteq {r} \cup NodesFrom(l, NodeAfter(l, r))
    <2>1. PICK i \in DOMAIN l : r = l[i]
      BY DEF ToSet
    <2>2. ASSUME NEW k \in DOMAIN l, \E h \in 1..k : l[h] = r, k # i
          PROVE  \E h \in 1..k : l[h] = NodeAfter(l, r)
      <3>1. PICK h \in 1..k : l[h] = r
        BY <2>2
      <3>2. h \in DOMAIN l
        BY <1>1
      <3>3. h = i
        BY <1>3, <2>1, <3>1, <3>2 DEF IsInjective
      <3>4. i < k /\ k <= Len(l) /\ i + 1 \in 1..k /\ i \in Nat
        BY <1>1, <2>2, <3>1, <3>3
      <3>5. NodeAfter(l, r) = l[i + 1]
        BY <1>3, <2>1, <3>4, <1>1, NodeFacts
      <3> QED
        BY <3>4, <3>5
    <2> QED
      BY <2>1, <2>2 DEF NodesFrom
  <1>4. NodesFrom(l, NoNode) = {}
    <2>1. NoNode \notin Node
      BY DEF NoNode, Node
    <2>2. \A k \in DOMAIN l : \A i \in 1..k : l[i] # NoNode
      BY <1>1, <2>1
    <2> QED
      BY <2>2 DEF NodesFrom
  <1> QED
    BY <1>2, <1>3, <1>4

\* A walk that starts has all nodes of its lists before it.
LEMMA WalkRemaining ==
  ASSUME AlertsAreBuilt, NEW ls \in Seq(Variables), WalkLists(ls), lists' = lists
  PROVE  /\ \A v \in ToSet(ls) : ToSet(lists[v]) \subseteq Remaining'
         /\ pc' = "evaluate" => (node = NoNode \/ node \in ToSet(lists[Head(lists_left)]))'
         /\ pc' = IF ls = <<>> THEN "idle" ELSE "evaluate"
  <1>1. /\ lists_left' = ls /\ pc' = IF ls = <<>> THEN "idle" ELSE "evaluate"
        /\ node' = IF ls = <<>> THEN NoNode ELSE FirstNode(lists[Head(ls)])
    BY DEF WalkLists
  <1>2. CASE ls = <<>>
    <2>1. ToSet(ls) = {}
      BY <1>2 DEF ToSet
    <2> QED
      BY <1>1, <1>2, <2>1
  <1>3. CASE ls # <<>>
    <2>1. Head(ls) \in Variables
      BY <1>3
    <2>2. lists[Head(ls)] \in Seq(Node) /\ IsInjective(lists[Head(ls)])
      BY <2>1, ListNodes
    <2>3. ToSet(ls) \subseteq {Head(ls)} \cup ToSet(Tail(ls))
      <3>1. Len(ls) \in Nat /\ DOMAIN ls = 1..Len(ls) /\ DOMAIN Tail(ls) = 1..(Len(ls) - 1)
            /\ Len(ls) > 0 /\ Head(ls) = ls[1]
        BY <1>3
      <3>2. ASSUME NEW i \in DOMAIN ls, i # 1 PROVE ls[i] \in ToSet(Tail(ls))
        <4>1. i - 1 \in DOMAIN Tail(ls) /\ Tail(ls)[i - 1] = ls[i]
          BY <1>3, <3>1, <3>2
        <4> QED
          BY <4>1 DEF ToSet
      <3> QED
        BY <3>1, <3>2 DEF ToSet
    <2>4. Remaining' = UNION ({NodesFrom(lists[Head(ls)], node')}
                                \cup {ToSet(lists[v]) : v \in ToSet(Tail(ls))})
      BY <1>1, <1>3 DEF Remaining
    <2>5. ToSet(lists[Head(ls)]) \subseteq NodesFrom(lists[Head(ls)], node')
      <3>1. CASE lists[Head(ls)] = <<>>
        BY <3>1 DEF ToSet
      <3>2. CASE lists[Head(ls)] # <<>>
        <4>1. node' = Head(lists[Head(ls)])
          BY <1>1, <1>3, <3>2 DEF FirstNode
        <4> QED
          BY <2>2, <3>2, <4>1, NodesFromFacts
      <3> QED
        BY <3>1, <3>2
    <2>6. \A v \in ToSet(ls) : ToSet(lists[v]) \subseteq Remaining'
      BY <2>3, <2>4, <2>5
    <2>7. node' \in ToSet(lists[Head(ls)]) \cup {NoNode}
      BY <1>1, <1>3, <2>2, NodeFacts
    <2> QED
      BY <1>1, <2>6, <2>7
  <1> QED
    BY <1>2, <1>3

\* Whether a condition is true depends on which of its requirements are satisfied.
LEMMA TruthIsOfSatisfied ==
  ASSUME AlertsAreBuilt, UNCHANGED <<alert, live>>, NEW a \in AlertIds,
         \A r \in live : r[1] = a => (r \in SatisfiedNow' <=> r \in SatisfiedNow)
  PROVE  a \in TrueAlerts' <=> a \in TrueAlerts
  <1>1. CASE ~IsSet(a)
    BY <1>1 DEF TrueAlerts, IsSet
  <1>2. CASE IsSet(a)
    <2>1. PICK m : m = alert[a]
      OBVIOUS
    <2>2. m \in Messages /\ \A i \in DOMAIN m.reqs : <<a, i>> \in live
      BY <1>2, <2>1, SetAlertFacts
    <2>3. DOMAIN m.reqs = 1..Len(m.reqs) /\ Len(m.reqs) \in Nat
      BY <2>2, MessageFacts
    <2>4. \A i \in DOMAIN m.reqs : Satisfied(m.reqs[i])' <=> Satisfied(m.reqs[i])
      <3> SUFFICES ASSUME NEW i \in DOMAIN m.reqs
                   PROVE  Satisfied(m.reqs[i])' <=> Satisfied(m.reqs[i])
        OBVIOUS
      <3>1. <<a, i>> \in SatisfiedNow' <=> <<a, i>> \in SatisfiedNow
        BY <2>2
      <3>2. Req(<<a, i>>) = m.reqs[i] /\ Req(<<a, i>>)' = m.reqs[i]
        BY <2>1 DEF Req
      <3>3. <<a, i>> \in SatisfiedNow <=> Satisfied(m.reqs[i])
        BY <2>2, <3>2 DEF SatisfiedNow
      <3>4. <<a, i>> \in SatisfiedNow' <=> Satisfied(m.reqs[i])'
        BY <2>2, <3>2 DEF SatisfiedNow, Satisfied
      <3> QED
        BY <3>1, <3>3, <3>4
    <2>5. Truth(m.reqs)' <=> Truth(m.reqs)
      <3>1. \A g \in DOMAIN m.reqs : \A i \in 1..g : i \in DOMAIN m.reqs
        BY <2>3
      <3> QED
        BY <2>4, <3>1 DEF Truth
    <2> QED
      BY <1>2, <2>1, <2>5 DEF TrueAlerts, IsSet
  <1> QED
    BY <1>1, <1>2

\* What does not touch values, alerts and instances leaves satisfaction alone.
LEMMA SameSatisfied ==
  ASSUME UNCHANGED <<value, alert, live>>
  PROVE  SatisfiedNow' = SatisfiedNow /\ TrueAlerts' = TrueAlerts
  <1>1. SatisfiedNow' = SatisfiedNow
    BY DEF SatisfiedNow, Satisfied, Req
  <1>2. TrueAlerts' = TrueAlerts
    BY DEF TrueAlerts, Truth, Satisfied, IsSet
  <1> QED
    BY <1>1, <1>2

\* A step that loses no instance from the walk, and touches nothing else that
\* counts, keeps the invariant.
LEMMA QuietStep ==
  ASSUME CachesCatchUp, ConditionsCatchUp,
         UNCHANGED <<value, alert, live, evaluated, previous, cond>>,
         WasReady' <=> WasReady, Remaining \subseteq Remaining'
  PROVE  CachesCatchUp' /\ ConditionsCatchUp'
  <1>1. SatisfiedNow' = SatisfiedNow /\ TrueAlerts' = TrueAlerts
    BY SameSatisfied
  <1>2. Stale' = Stale
    BY <1>1 DEF Stale
  <1>3. CachesCatchUp'
    BY <1>1 DEF CachesCatchUp
  <1>4. ConditionsCatchUp'
    <2> SUFFICES ASSUME NEW a \in AlertIds
                 PROVE  (IF IsSet(a) /\ WasReady
                         THEN (a \in cond <=> a \in TrueAlerts)
                              \/ \E r \in Remaining : r[1] = a /\ r \in Stale
                         ELSE a \notin cond)'
      BY DEF ConditionsCatchUp
    <2>1. IsSet(a)' <=> IsSet(a)
      BY DEF IsSet
    <2> QED
      BY <1>1, <1>2, <2>1 DEF ConditionsCatchUp
  <1> QED
    BY <1>3, <1>4

\* A sample arrives.
LEMMA NewSampleCatchesUp ==
  ASSUME RestOK, WalkCatchesUp, NEW v \in Variables, NEW x \in Values, NewSample(v, x)
  PROVE  WalkCatchesUp'
  <1>1. /\ pc = "idle" /\ pc' = "set" /\ sample' = [var |-> v, val |-> x]
        /\ ready_before' = IsReady /\ received' = received \cup {v}
        /\ UNCHANGED <<value, alert, live, evaluated, previous, cond, fault>>
    BY DEF NewSample, EventThreadIs, NotifyReceivedSample, alertVars, cacheVars, notifyVars
  <1>2. (WasReady' <=> WasReady) /\ Remaining \subseteq Remaining'
    BY <1>1 DEF WasReady, Remaining
  <1>3. HandlerInv'
    <2>1. \A w \in received' : (value[w] # Unset \/ (pc = "set" /\ w = sample.var))'
      BY <1>1 DEF WalkCatchesUp, HandlerInv
    <2>2. ready_before' => IsReady'
      BY <1>1 DEF IsReady, RestOK
    <2> QED
      BY <1>1, <2>1, <2>2 DEF WalkCatchesUp, HandlerInv
  <1>4. CachesCatchUp' /\ ConditionsCatchUp'
    BY <1>1, <1>2, QuietStep DEF WalkCatchesUp
  <1> QED
    BY <1>3, <1>4 DEF WalkCatchesUp

\* The walk goes on with the next list.
LEMMA NextListCatchesUp ==
  ASSUME AlertsAreBuilt, RestOK, WalkCatchesUp, NextList
  PROVE  WalkCatchesUp'
  <1>1. /\ pc = "evaluate" /\ node = NoNode /\ WalkLists(Tail(lists_left))
        /\ UNCHANGED <<received, value, alert, lists, live, evaluated, previous, cond, fault>>
    BY DEF NextList, EventThreadIs, alertVars, cacheVars, notifyVars
  <1>2. lists_left \in Seq(Variables) /\ lists_left # <<>>
    BY <1>1 DEF RestOK, ThreadOK
  <1>3. Tail(lists_left) \in Seq(Variables) /\ Head(lists_left) \in Variables
    BY <1>2
  <1>4. PICK ls : ls = Tail(lists_left)
    OBVIOUS
  <1>5. /\ \A v \in ToSet(ls) : ToSet(lists[v]) \subseteq Remaining'
        /\ pc' = "evaluate" => (node = NoNode \/ node \in ToSet(lists[Head(lists_left)]))'
        /\ pc' = IF ls = <<>> THEN "idle" ELSE "evaluate"
    BY <1>1, <1>3, <1>4, WalkRemaining
  <1>6. Remaining = UNION {ToSet(lists[v]) : v \in ToSet(ls)}
    <2>1. NodesFrom(lists[Head(lists_left)], node) = {}
      BY <1>1, <1>3, ListNodes, NodesFromFacts
    <2> QED
      BY <1>1, <1>4, <2>1 DEF Remaining
  <1>7. Remaining \subseteq Remaining'
    BY <1>5, <1>6
  <1>8. IsReady /\ (IsReady' <=> IsReady)
    BY <1>1 DEF WalkCatchesUp, HandlerInv, IsReady
  <1>9. WasReady' <=> WasReady
    BY <1>1, <1>5, <1>8 DEF WasReady
  <1>10. HandlerInv'
    <2>1. \A w \in received' : (value[w] # Unset \/ (pc = "set" /\ w = sample.var))'
      BY <1>1 DEF WalkCatchesUp, HandlerInv
    <2> QED
      BY <1>1, <1>5, <1>8, <2>1 DEF WalkCatchesUp, HandlerInv
  <1>11. CachesCatchUp' /\ ConditionsCatchUp'
    BY <1>1, <1>7, <1>9, QuietStep DEF WalkCatchesUp
  <1> QED
    BY <1>10, <1>11 DEF WalkCatchesUp

\* set_current_sample_value and the choice of the lists to walk.
LEMMA SetCurrentValueCatchesUp ==
  ASSUME AlertsAreBuilt, RestOK, WalkCatchesUp, SetCurrentValue
  PROVE  WalkCatchesUp'
  <1> DEFINE w == sample.var
  <1>1. /\ pc = "set" /\ value' = [value EXCEPT ![w] = sample.val]
        /\ WalkLists(ListsToWalk(IsValueChanged(w, sample.val)))
        /\ UNCHANGED <<received, alert, lists, live, evaluated, previous, cond, fault>>
    BY DEF SetCurrentValue, EventThreadIs, alertVars, cacheVars, notifyVars
  <1>2. w \in Variables /\ sample.val \in Values /\ value \in [Variables -> Values \cup {Unset}]
    BY DEF RestOK
  <1>3. PICK ls : ls = ListsToWalk(IsValueChanged(w, sample.val))
    OBVIOUS
  <1>4. ls = IF IsReady /\ ~ready_before THEN VariableOrder
             ELSE IF IsReady /\ ready_before /\ value[w] # sample.val THEN <<w>> ELSE <<>>
    BY <1>3 DEF ListsToWalk, IsValueChanged
  <1>5. ls \in Seq(Variables)
    <2>1. VariableOrder \in Seq(Variables) /\ <<w>> \in Seq(Variables) /\ <<>> \in Seq(Variables)
      BY <1>2, ConstantsAssumption
    <2> QED
      BY <1>4, <2>1
  <1>6. /\ \A v \in ToSet(ls) : ToSet(lists[v]) \subseteq Remaining'
        /\ pc' = "evaluate" => (node = NoNode \/ node \in ToSet(lists[Head(lists_left)]))'
        /\ pc' = IF ls = <<>> THEN "idle" ELSE "evaluate"
    BY <1>1, <1>3, <1>5, WalkRemaining
  <1>7. (IsReady' <=> IsReady) /\ (WasReady' <=> IsReady) /\ (WasReady <=> ready_before)
        /\ (ready_before => IsReady) /\ Remaining = {}
    BY <1>1, <1>6 DEF WasReady, IsReady, Remaining, WalkCatchesUp, HandlerInv
  <1>8. HandlerInv'
    <2>1. \A u \in received' : value'[u] # Unset
      <3>1. \A u \in received : u \in Variables /\ (value[u] # Unset \/ u = w)
        BY <1>1 DEF WalkCatchesUp, HandlerInv, RestOK
      <3> QED
        BY <1>1, <1>2, <3>1, ConstantsAssumption
    <2>2. pc' = "evaluate" => IsReady
      BY <1>4, <1>6
    <2> QED
      BY <1>1, <1>6, <1>7, <2>1, <2>2 DEF WalkCatchesUp, HandlerInv
  <1>9. \A r \in live : Req(r).var # w => (r \in SatisfiedNow' <=> r \in SatisfiedNow)
    <2> SUFFICES ASSUME NEW r \in live, Req(r).var # w
                 PROVE  r \in SatisfiedNow' <=> r \in SatisfiedNow
      OBVIOUS
    <2>1. PICK q : q = Req(r)
      OBVIOUS
    <2>2. q.var \in Variables /\ q.var # w /\ Req(r)' = q
      BY <1>1, <2>1, LiveFacts DEF Req
    <2>3. value'[q.var] = value[q.var]
      BY <1>1, <1>2, <2>2
    <2>4. Satisfied(q)' <=> Satisfied(q)
      BY <2>3 DEF Satisfied
    <2> QED
      BY <1>1, <2>1, <2>2, <2>4 DEF SatisfiedNow, Satisfied
  <1>10. CASE IsReady /\ ~ready_before
    <2>1. live \cap evaluated = {}
      BY <1>7, <1>10 DEF WalkCatchesUp, CachesCatchUp
    <2>2. live \subseteq Remaining'
      <3>1. ToSet(ls) = Variables
        BY <1>4, <1>10 DEF Variables
      <3> QED
        BY <1>6, <3>1, LiveFacts
    <2>3. live \subseteq Stale'
      BY <1>1, <2>1 DEF Stale
    <2>4. \A a \in AlertIds : IsSet(a) => \E r \in live : r[1] = a
      <3> SUFFICES ASSUME NEW a \in AlertIds, IsSet(a) PROVE \E r \in live : r[1] = a
        OBVIOUS
      <3>1. alert[a] \in Messages /\ alert[a].reqs # <<>>
        BY SetAlertFacts DEF IsAlertConditionValid
      <3>2. 1 \in DOMAIN alert[a].reqs
        BY <3>1, MessageFacts
      <3>3. <<a, 1>> \in live
        BY <3>2, SetAlertFacts
      <3> QED
        BY <3>3
    <2>5. CachesCatchUp'
      BY <1>1, <2>1 DEF CachesCatchUp
    <2>6. \A a \in AlertIds : (IsSet(a)' <=> IsSet(a)) /\ (~IsSet(a) => a \notin cond)
      BY <1>1 DEF IsSet, WalkCatchesUp, ConditionsCatchUp
    <2>7. ConditionsCatchUp'
      BY <1>1, <1>7, <1>10, <2>2, <2>3, <2>4, <2>6 DEF ConditionsCatchUp
    <2> QED
      BY <1>8, <2>5, <2>7 DEF WalkCatchesUp
  <1>11. CASE IsReady /\ ready_before /\ value[w] # sample.val
    <2>1. ToSet(lists[w]) \subseteq Remaining'
      <3>1. w \in ToSet(ls)
        BY <1>4, <1>11 DEF ToSet
      <3> QED
        BY <1>6, <3>1
    <2>2. \A r \in live : Req(r).var = w => r \in Remaining'
      BY <2>1, LiveFacts
    <2>3. CachesCatchUp'
      BY <1>1, <1>7, <1>9, <1>11, <2>2 DEF CachesCatchUp, WalkCatchesUp
    <2>4. ASSUME NEW a \in AlertIds, IsSet(a), ~(a \in TrueAlerts' <=> a \in TrueAlerts)
          PROVE  \E r \in Remaining' : r[1] = a /\ r \in Stale'
      <3>1. PICK r \in live : r[1] = a /\ ~(r \in SatisfiedNow' <=> r \in SatisfiedNow)
        BY <1>1, <2>4, TruthIsOfSatisfied
      <3>2. r \in Remaining'
        BY <1>9, <2>2, <3>1
      <3>3. r \in evaluated => (r \in previous <=> r \in SatisfiedNow)
        BY <1>7 DEF WalkCatchesUp, CachesCatchUp
      <3>4. r \in Stale'
        BY <1>1, <3>1, <3>3 DEF Stale
      <3> QED
        BY <3>1, <3>2, <3>4
    <2>5. \A a \in AlertIds : (IsSet(a)' <=> IsSet(a))
             /\ (IsSet(a) => (a \in cond <=> a \in TrueAlerts)) /\ (~IsSet(a) => a \notin cond)
      BY <1>1, <1>7, <1>11 DEF IsSet, WalkCatchesUp, ConditionsCatchUp
    <2>6. ConditionsCatchUp'
      BY <1>1, <1>7, <1>11, <2>4, <2>5 DEF ConditionsCatchUp
    <2> QED
      BY <1>8, <2>3, <2>6 DEF WalkCatchesUp
  <1>12. CASE IsReady /\ ready_before /\ value[w] = sample.val
    <2>1. value' = value
      BY <1>1, <1>2, <1>12
    <2>2. CachesCatchUp' /\ ConditionsCatchUp'
      BY <1>1, <1>7, <1>12, <2>1, QuietStep DEF WalkCatchesUp
    <2> QED
      BY <1>8, <2>2 DEF WalkCatchesUp
  <1>13. CASE ~IsReady
    <2>1. live \cap evaluated = {}
      BY <1>7, <1>13 DEF WalkCatchesUp, CachesCatchUp
    <2>2. CachesCatchUp'
      BY <1>1, <2>1 DEF CachesCatchUp
    <2>3. \A a \in AlertIds : a \notin cond
      BY <1>7, <1>13 DEF WalkCatchesUp, ConditionsCatchUp
    <2>4. ConditionsCatchUp'
      BY <1>1, <1>7, <1>13, <2>3 DEF ConditionsCatchUp
    <2> QED
      BY <1>8, <2>2, <2>4 DEF WalkCatchesUp
  <1> QED
    BY <1>10, <1>11, <1>12, <1>13, <1>7

\* No assertion fails in the evaluation of a condition, once all values are there.
LEMMA NoAssert ==
  ASSUME HandlerInv, IsReady, pc # "set", NEW m \in Messages, IsAlertConditionValid(m.reqs)
  PROVE  ~EvaluateAsserts(BuildCondition(m.reqs).items, m.reqs)
  <1>1. \A v \in Variables : value[v] # Unset
    BY DEF HandlerInv, IsReady
  <1>2. \A i \in DOMAIN m.reqs : m.reqs[i].var \in Variables
    BY DEF IsAlertConditionValid
  <1> DEFINE items == BuildCondition(m.reqs).items
             e == EvaluateCondition(items, m.reqs)
  <1>3. items # <<>> /\ e.evaluated \subseteq DOMAIN m.reqs
    BY ValidCondition
  <1> QED
    BY <1>1, <1>2, <1>3 DEF EvaluateAsserts

\* What the evaluation of a set of instances leaves in the caches.
LEMMA CachedFacts ==
  ASSUME NEW S, NEW reqs, NEW ev, NEW prev, Cached(S, reqs, ev, prev)
  PROVE  /\ evaluated' = ev \cup S
         /\ \A r \in S : r \in previous' <=> Satisfied(reqs[r[2]])
         /\ \A r : r \notin S => (r \in previous' <=> r \in prev)
  BY DEF Cached

\* A requirement of the current list is evaluated, and the condition with it if its
\* result has changed.
LEMMA EvaluateCatchesUp ==
  ASSUME AlertsAreBuilt, RestOK, WalkCatchesUp, EvaluateVariableRequirement
  PROVE  WalkCatchesUp'
  <1>1. /\ pc = "evaluate" /\ raising = NoRaise
        /\ node \in live /\ node \in ToSet(lists[Head(lists_left)])
        /\ node' = NodeAfter(lists[Head(lists_left)], node)
        /\ UNCHANGED <<received, value, alert, lists, live, pc, sample, ready_before, lists_left>>
    BY DEF EvaluateVariableRequirement, EventThreadIs, alertVars
  <1>2. PICK n, m, l : n = node /\ m = alert[node[1]] /\ l = lists[Head(lists_left)]
    OBVIOUS
  <1>3. Head(lists_left) \in Variables
    BY <1>1 DEF RestOK, ThreadOK
  <1>4. l \in Seq(Node) /\ IsInjective(l) /\ n \in ToSet(l)
    BY <1>1, <1>2, <1>3, ListNodes
  <1>5. /\ n[1] \in AlertIds /\ IsSet(n[1]) /\ n[2] \in DOMAIN m.reqs
        /\ n = <<n[1], n[2]>>
    BY <1>1, <1>2, LiveFacts
  <1>6. m \in Messages /\ IsAlertConditionValid(m.reqs)
        /\ conditions[n[1]] = BuildCondition(m.reqs).items
    BY <1>2, <1>5, SetAlertFacts
  <1> DEFINE items == BuildCondition(m.reqs).items
             e == EvaluateCondition(items, m.reqs)
             a == n[1]
             S == {n} \cup {<<a, i>> : i \in e.evaluated}
  <1>7. /\ e.result <=> Truth(m.reqs)
        /\ e.evaluated \subseteq DOMAIN m.reqs
    BY <1>6, ValidCondition
  <1>8. IF IsResultChanged(node)
        THEN /\ Cached(S, m.reqs, evaluated, previous)
             /\ cond' = With(cond, a, e.result)
             /\ fault' = EvaluateAsserts(items, m.reqs)
        ELSE /\ Cached({n}, m.reqs, evaluated, previous)
             /\ cond' = cond /\ fault' = fault
    BY <1>2, <1>6 DEF EvaluateVariableRequirement, NotifyThenAssign
  <1> HIDE DEF items, e
  <1>9. IsReady /\ (WasReady <=> TRUE) /\ (WasReady' <=> TRUE) /\ (IsReady' <=> TRUE)
    BY <1>1 DEF WalkCatchesUp, HandlerInv, WasReady, IsReady
  <1>10. Remaining \subseteq {n} \cup Remaining'
    <2>1. NodesFrom(l, n) \subseteq {n} \cup NodesFrom(l, NodeAfter(l, n))
      BY <1>4, NodesFromFacts
    <2> QED
      BY <1>1, <1>2, <2>1 DEF Remaining
  <1>11. SatisfiedNow' = SatisfiedNow /\ TrueAlerts' = TrueAlerts
         /\ \A b \in AlertIds : IsSet(b)' <=> IsSet(b)
    BY <1>1, SameSatisfied DEF IsSet
  <1>12. \A r \in live : r[1] = a => Req(r) = m.reqs[r[2]]
    BY <1>2 DEF Req
  <1>13. \A r \in live : r[1] = a => (r \in SatisfiedNow <=> Satisfied(m.reqs[r[2]]))
    BY <1>12 DEF SatisfiedNow
  <1>14. ASSUME ~fault' PROVE HandlerInv'
    <2>1. node' = NoNode \/ node' \in ToSet(l)
      BY <1>1, <1>2, <1>4, NodeFacts
    <2> QED
      BY <1>1, <1>2, <1>9, <1>14, <2>1 DEF WalkCatchesUp, HandlerInv
  <1>15. CASE IsResultChanged(node)
    <2>1. \A r \in S : r[1] = a
      BY <1>5
    <2>2. n \in S
      OBVIOUS
    <2> HIDE DEF S
    <2>3. /\ evaluated' = evaluated \cup S
          /\ \A r \in S : r \in previous' <=> Satisfied(m.reqs[r[2]])
          /\ \A r : r \notin S => (r \in previous' <=> r \in previous)
      BY <1>8, <1>15, CachedFacts
    <2>4. CachesCatchUp'
      <3> SUFFICES ASSUME NEW r \in live, r \in evaluated'
                   PROVE  r \in Remaining' \/ (r \in previous' <=> r \in SatisfiedNow)
        BY <1>1, <1>9, <1>11 DEF CachesCatchUp
      <3>1. CASE r \in S
        BY <1>13, <2>1, <2>3, <3>1
      <3>2. CASE r \notin S
        <4>1. r \in Remaining \/ (r \in previous <=> r \in SatisfiedNow)
          BY <2>3, <3>2 DEF WalkCatchesUp, CachesCatchUp
        <4> QED
          BY <1>10, <2>2, <2>3, <3>2, <4>1
      <3> QED
        BY <3>1, <3>2
    <2>5. ~fault'
      <3>1. ~EvaluateAsserts(items, m.reqs)
        BY <1>1, <1>6, <1>9, NoAssert DEF WalkCatchesUp, items
      <3> QED
        BY <1>8, <1>15, <3>1
    <2>6. a \in cond' <=> a \in TrueAlerts
      <3>1. a \in cond' <=> Truth(m.reqs)
        BY <1>7, <1>8, <1>15 DEF With
      <3>2. a \in TrueAlerts <=> Truth(m.reqs)
        BY <1>2, <1>5 DEF TrueAlerts
      <3> QED
        BY <3>1, <3>2
    <2>7. \A b \in AlertIds : b # a => (b \in cond' <=> b \in cond)
      BY <1>8, <1>15 DEF With
    <2>8. \A r : r \in Stale /\ r[1] # a => r \in Stale'
      BY <1>1, <1>11, <2>1, <2>3 DEF Stale
    <2>9. ConditionsCatchUp'
      <3> SUFFICES ASSUME NEW b \in AlertIds
                   PROVE  IF IsSet(b)
                          THEN (b \in cond' <=> b \in TrueAlerts)
                               \/ \E r \in Remaining' : r[1] = b /\ r \in Stale'
                          ELSE b \notin cond'
        BY <1>9, <1>11 DEF ConditionsCatchUp
      <3>1. CASE b = a
        BY <1>5, <2>6, <3>1
      <3>2. CASE b # a
        <4>1. IF IsSet(b)
              THEN (b \in cond <=> b \in TrueAlerts)
                   \/ \E r \in Remaining : r[1] = b /\ r \in Stale
              ELSE b \notin cond
          BY <1>9 DEF WalkCatchesUp, ConditionsCatchUp
        <4>2. ASSUME NEW r \in Remaining, r[1] = b, r \in Stale
              PROVE  r \in Remaining' /\ r \in Stale'
          BY <1>10, <2>8, <3>2, <4>2
        <4> QED
          BY <2>7, <3>2, <4>1, <4>2
      <3> QED
        BY <3>1, <3>2
    <2> QED
      BY <1>14, <2>4, <2>5, <2>9 DEF WalkCatchesUp
  <1>16. CASE ~IsResultChanged(node)
    <2>1. n \in evaluated /\ (n \in previous <=> n \in SatisfiedNow)
      BY <1>1, <1>2, <1>16 DEF IsResultChanged, SatisfiedNow
    <2>2. /\ evaluated' = evaluated \cup {n}
          /\ \A r \in {n} : r \in previous' <=> Satisfied(m.reqs[r[2]])
          /\ \A r : r \notin {n} => (r \in previous' <=> r \in previous)
      BY <1>8, <1>16, CachedFacts
    <2>3. n \in previous' <=> n \in previous
      BY <1>1, <1>2, <1>13, <2>1, <2>2
    <2>4. evaluated' = evaluated /\ \A r : r \in previous' <=> r \in previous
      BY <2>1, <2>2, <2>3
    <2>5. Stale' = Stale /\ n \notin Stale
      BY <1>1, <1>2, <1>11, <2>1, <2>4 DEF Stale
    <2>6. CachesCatchUp'
      BY <1>1, <1>9, <1>10, <1>11, <2>1, <2>4 DEF CachesCatchUp, WalkCatchesUp
    <2>7. ConditionsCatchUp'
      <3> SUFFICES ASSUME NEW b \in AlertIds
                   PROVE  IF IsSet(b)
                          THEN (b \in cond <=> b \in TrueAlerts)
                               \/ \E r \in Remaining' : r[1] = b /\ r \in Stale
                          ELSE b \notin cond
        BY <1>8, <1>9, <1>11, <1>16, <2>5 DEF ConditionsCatchUp
      <3>1. IF IsSet(b)
            THEN (b \in cond <=> b \in TrueAlerts)
                 \/ \E r \in Remaining : r[1] = b /\ r \in Stale
            ELSE b \notin cond
        BY <1>9 DEF WalkCatchesUp, ConditionsCatchUp
      <3> QED
        BY <1>10, <2>5, <3>1
    <2>8. ~fault'
      BY <1>8, <1>16 DEF WalkCatchesUp, HandlerInv
    <2> QED
      BY <1>14, <2>6, <2>7, <2>8 DEF WalkCatchesUp
  <1> QED
    BY <1>15, <1>16

\* Adding or removing an alert does not touch the others.
LEMMA OtherAlerts ==
  ASSUME value' = value, NEW b \in AlertIds, alert'[b] = alert[b]
  PROVE  /\ b \in TrueAlerts' <=> b \in TrueAlerts
         /\ IsSet(b)' <=> IsSet(b)
         /\ \A r : r[1] = b /\ r \in live /\ r \in live'
                     => (r \in SatisfiedNow' <=> r \in SatisfiedNow)
  <1>1. IsSet(b)' <=> IsSet(b)
    BY DEF IsSet
  <1>2. b \in TrueAlerts' <=> b \in TrueAlerts
    BY <1>1 DEF TrueAlerts, Truth, Satisfied
  <1>3. \A r : r[1] = b => Req(r)' = Req(r)
    BY DEF Req
  <1>4. \A r : r[1] = b => (Satisfied(Req(r))' <=> Satisfied(Req(r)))
    BY <1>3 DEF Satisfied
  <1> QED
    BY <1>1, <1>2, <1>4 DEF SatisfiedNow

\* An alert is added between events.
LEMMA AddAlertCatchesUp ==
  ASSUME AlertsAreBuilt, RestOK, WalkCatchesUp, ~BluetoothPreempts,
         NEW id \in MessageIds, NEW m \in Messages, AddAlert(id, m)
  PROVE  WalkCatchesUp'
  <1> DEFINE items == BuildCondition(m.reqs).items
             fresh == Instances(id, m.reqs)
             e     == EvaluateCondition(items, m.reqs)
             S     == {<<id, i>> : i \in e.evaluated}
  <1>1. /\ pc = "idle" /\ ~IsSet(id) /\ IsAlertConditionValid(m.reqs) /\ id <= MaxAlertId
        /\ alert' = [alert EXCEPT ![id] = m] /\ live' = live \cup fresh
        /\ UNCHANGED <<received, value, pc, sample, ready_before>>
    BY DEF AddAlert, MayReceive, EventThreadIs, IsAlertValid, IsAlertIdValid, threadVars
  <1>2. IF IsReady
        THEN /\ Cached(S, m.reqs, evaluated \ fresh, previous \ fresh)
             /\ cond' = With(cond, id, e.result)
             /\ fault' = EvaluateAsserts(items, m.reqs)
        ELSE /\ Cached({}, m.reqs, evaluated \ fresh, previous \ fresh)
             /\ cond' = cond /\ fault' = fault
    BY DEF AddAlert, SetAlertConditionResult
  <1>3. id \in AlertIds /\ m # NoAlert
    BY <1>1, MessageFacts, ConstantsAssumption DEF AlertIds
  <1>4. /\ e.result <=> Truth(m.reqs)
        /\ e.evaluated \subseteq DOMAIN m.reqs
    BY <1>1, ValidCondition
  <1> HIDE DEF items, e
  <1>5. /\ alert'[id] = m /\ IsSet(id)' /\ \A b \in AlertIds : b # id => alert'[b] = alert[b]
    BY <1>1, <1>3 DEF AlertsAreBuilt, IsSet
  <1>6. /\ \A r \in live : r[1] \in AlertIds /\ r[1] # id /\ r \notin fresh
        /\ \A r \in fresh : r[1] = id
        /\ S \subseteq fresh
    BY <1>1, <1>4, LiveFacts DEF Instances
  <1>7. /\ \A b \in AlertIds : b # id => (b \in TrueAlerts' <=> b \in TrueAlerts) /\ (IsSet(b)' <=> IsSet(b))
        /\ \A r \in live : r \in SatisfiedNow' <=> r \in SatisfiedNow
    BY <1>1, <1>5, <1>6, OtherAlerts
  <1>8. \A r \in fresh : r \in SatisfiedNow' <=> Satisfied(m.reqs[r[2]])
    <2>1. \A r \in fresh : Req(r)' = m.reqs[r[2]]
      BY <1>5, <1>6 DEF Req
    <2>2. \A r \in fresh : Satisfied(Req(r))' <=> Satisfied(m.reqs[r[2]])
      BY <1>1, <2>1 DEF Satisfied
    <2> QED
      BY <1>1, <2>2 DEF SatisfiedNow
  <1>9. id \in TrueAlerts' <=> Truth(m.reqs)
    <2>1. Truth(m.reqs)' <=> Truth(m.reqs)
      BY <1>1 DEF Truth, Satisfied
    <2> QED
      BY <1>3, <1>5, <2>1 DEF TrueAlerts
  <1>10. /\ Remaining = {} /\ (WasReady <=> IsReady) /\ (WasReady' <=> IsReady)
         /\ (IsReady' <=> IsReady)
    BY <1>1 DEF Remaining, WasReady, IsReady
  <1>11. \A r \in live \cap evaluated : IsReady /\ (r \in previous <=> r \in SatisfiedNow)
    BY <1>10 DEF WalkCatchesUp, CachesCatchUp
  <1>12. \A b \in AlertIds : IF IsSet(b) /\ IsReady THEN b \in cond <=> b \in TrueAlerts ELSE b \notin cond
    BY <1>10 DEF WalkCatchesUp, ConditionsCatchUp
  <1>13. ~fault' => HandlerInv'
    BY <1>1 DEF WalkCatchesUp, HandlerInv
  <1> HIDE DEF fresh, S
  <1>14. CASE IsReady
    <2>1. /\ evaluated' = (evaluated \ fresh) \cup S
          /\ \A r \in S : r \in previous' <=> Satisfied(m.reqs[r[2]])
          /\ \A r : r \notin S => (r \in previous' <=> r \in previous \ fresh)
      BY <1>2, <1>14, CachedFacts
    <2>2. CachesCatchUp'
      <3> SUFFICES ASSUME NEW r \in live', r \in evaluated'
                   PROVE  r \in previous' <=> r \in SatisfiedNow'
        BY <1>10, <1>14 DEF CachesCatchUp
      <3>1. CASE r \in S
        BY <1>6, <1>8, <2>1, <3>1
      <3>2. CASE r \notin S
        <4>1. r \in live /\ r \in evaluated /\ r \notin fresh
          BY <1>1, <1>6, <2>1, <3>2
        <4> QED
          BY <1>7, <1>11, <2>1, <3>2, <4>1
      <3> QED
        BY <3>1, <3>2
    <2>3. ~fault'
      <3>1. ~EvaluateAsserts(items, m.reqs)
        BY <1>1, <1>14, NoAssert DEF WalkCatchesUp, items
      <3> QED
        BY <1>2, <1>14, <3>1
    <2>4. \A b \in AlertIds : b # id => (b \in cond' <=> b \in cond)
      BY <1>2, <1>14 DEF With
    <2>5. id \in cond' <=> id \in TrueAlerts'
      BY <1>2, <1>4, <1>9, <1>14 DEF With
    <2>6. ConditionsCatchUp'
      BY <1>5, <1>7, <1>10, <1>12, <1>14, <2>4, <2>5 DEF ConditionsCatchUp
    <2> QED
      BY <1>13, <2>2, <2>3, <2>6 DEF WalkCatchesUp
  <1>15. CASE ~IsReady
    <2>1. evaluated' = evaluated \ fresh /\ cond' = cond /\ fault' = fault
      BY <1>2, <1>15 DEF Cached
    <2>2. live' \cap evaluated' = {}
      BY <1>1, <1>11, <1>15, <2>1
    <2>3. CachesCatchUp'
      BY <2>2 DEF CachesCatchUp
    <2>4. ConditionsCatchUp'
      BY <1>10, <1>12, <1>15, <2>1 DEF ConditionsCatchUp
    <2> QED
      BY <1>13, <2>1, <2>3, <2>4 DEF WalkCatchesUp, HandlerInv
  <1> QED
    BY <1>14, <1>15

\* An alert is removed between events.
LEMMA RemoveAlertCatchesUp ==
  ASSUME AlertsAreBuilt, RestOK, WalkCatchesUp, ~BluetoothPreempts,
         NEW id \in MessageIds, RemoveAlert(id)
  PROVE  WalkCatchesUp'
  <1>1. /\ pc = "idle" /\ IsSet(id) /\ id <= MaxAlertId
        /\ alert' = [alert EXCEPT ![id] = NoAlert] /\ cond' = cond \ {id}
        /\ live' = live \ {<<id, i>> : i \in Requirements(conditions[id])}
        /\ UNCHANGED <<received, value, evaluated, previous, pc, sample, ready_before, fault>>
    BY DEF RemoveAlert, MayReceive, EventThreadIs, IsAlertIdValid, threadVars, cacheVars
  <1>2. id \in AlertIds
    BY <1>1, ConstantsAssumption DEF AlertIds
  <1>3. /\ ~IsSet(id)' /\ \A b \in AlertIds : b # id => alert'[b] = alert[b]
    BY <1>1, <1>2 DEF AlertsAreBuilt, IsSet
  <1>4. \A r \in live' : r \in live /\ r[1] # id /\ r[1] \in AlertIds
    <2>1. Requirements(conditions[id]) = DOMAIN alert[id].reqs
      BY <1>1, <1>2, SetAlertFacts, ValidCondition
    <2>2. \A r : r \in live /\ r[1] = id <=> \E i \in DOMAIN alert[id].reqs : r = <<id, i>>
      BY <1>1, <1>2, SetAlertFacts
    <2>3. \A r \in live : r[1] \in AlertIds
      BY LiveFacts
    <2> QED
      BY <1>1, <2>1, <2>2, <2>3
  <1>5. /\ \A b \in AlertIds : b # id => (b \in TrueAlerts' <=> b \in TrueAlerts) /\ (IsSet(b)' <=> IsSet(b))
        /\ \A r \in live' : r \in SatisfiedNow' <=> r \in SatisfiedNow
    BY <1>1, <1>3, <1>4, OtherAlerts
  <1>6. /\ Remaining = {} /\ (WasReady <=> IsReady) /\ (WasReady' <=> IsReady)
        /\ (IsReady' <=> IsReady)
    BY <1>1 DEF Remaining, WasReady, IsReady
  <1>7. CachesCatchUp'
    BY <1>1, <1>4, <1>5, <1>6 DEF WalkCatchesUp, CachesCatchUp
  <1>8. ConditionsCatchUp'
    BY <1>1, <1>3, <1>5, <1>6 DEF WalkCatchesUp, ConditionsCatchUp
  <1>9. HandlerInv'
    BY <1>1 DEF WalkCatchesUp, HandlerInv
  <1> QED
    BY <1>7, <1>8, <1>9 DEF WalkCatchesUp

\* The invariant of the sample handler.
THEOREM CatchesUp == ASSUME ~BluetoothPreempts PROVE Spec => []WalkCatchesUp
  <1>1. Init => WalkCatchesUp
    <2> SUFFICES ASSUME Init PROVE WalkCatchesUp
      OBVIOUS
    <2>1. HandlerInv
      BY DEF Init, HandlerInv
    <2>2. CachesCatchUp
      BY DEF Init, CachesCatchUp
    <2>3. ConditionsCatchUp
      <3>1. \A a \in AlertIds : ~IsSet(a)
        BY DEF Init, IsSet
      <3> QED
        BY <3>1 DEF Init, ConditionsCatchUp
    <2> QED
      BY <2>1, <2>2, <2>3 DEF WalkCatchesUp
  <1>2. AlertsAreBuilt /\ RestOK /\ WalkCatchesUp /\ [Next]_vars => WalkCatchesUp'
    <2> SUFFICES ASSUME AlertsAreBuilt, RestOK, WalkCatchesUp, [Next]_vars PROVE WalkCatchesUp'
      OBVIOUS
    <2>1. ASSUME NEW id \in MessageIds, NEW m \in Messages, AddAlert(id, m) PROVE WalkCatchesUp'
      BY <2>1, AddAlertCatchesUp
    <2>2. ASSUME NEW id \in MessageIds, RemoveAlert(id) PROVE WalkCatchesUp'
      BY <2>2, RemoveAlertCatchesUp
    <2>3. ASSUME NEW v \in Variables, NEW x \in Values, NewSample(v, x) PROVE WalkCatchesUp'
      BY <2>3, NewSampleCatchesUp
    <2>4. CASE SetCurrentValue
      BY <2>4, SetCurrentValueCatchesUp
    <2>5. CASE EvaluateVariableRequirement
      BY <2>5, EvaluateCatchesUp
    <2>6. CASE NextList
      BY <2>6, NextListCatchesUp
    <2>7. ASSUME UNCHANGED <<received, value, alert, lists, live, evaluated, previous, cond, pc,
                             sample, ready_before, lists_left, node, fault>>
          PROVE  WalkCatchesUp'
      <3>1. (WasReady' <=> WasReady) /\ Remaining' = Remaining
        BY <2>7 DEF WasReady, IsReady, Remaining
      <3>2. CachesCatchUp' /\ ConditionsCatchUp'
        BY <2>7, <3>1, QuietStep DEF WalkCatchesUp
      <3>3. HandlerInv'
        BY <2>7 DEF WalkCatchesUp, HandlerInv, IsReady
      <3> QED
        BY <3>2, <3>3 DEF WalkCatchesUp
    <2>8. ASSUME NEW a \in AlertIds, PeriodExpired(a) PROVE WalkCatchesUp'
      <3>1. cond' = cond
        BY <2>8 DEF PeriodExpired, NotifyThenAssign, With
      <3> QED
        BY <2>7, <2>8, <3>1 DEF PeriodExpired, alertVars, cacheVars
    <2>9. CASE AssignIsAlertRaised
      BY <2>7, <2>9 DEF AssignIsAlertRaised, alertVars, cacheVars
    <2>10. CASE UNCHANGED vars
      BY <2>7, <2>10 DEF vars, alertVars, cacheVars, notifyVars, threadVars
    <2> QED
      BY <2>1, <2>2, <2>3, <2>4, <2>5, <2>6, <2>8, <2>9, <2>10 DEF Next
  <1> QED
    BY <1>1, <1>2, Built, RestCorrect, PTL DEF Spec

\* No change of a condition is missed: between events, the raiser of every alert has
\* the result that its condition has for the current values, and every cached result
\* of a requirement is current, although a sample is only compared with the cached
\* results of its own variable and an evaluation skips requirements.
THEOREM EvaluationCurrent == ASSUME ~BluetoothPreempts PROVE Spec => []EvaluationIsCurrent
  <1>1. WalkCatchesUp => EvaluationIsCurrent
    <2> SUFFICES ASSUME WalkCatchesUp, pc = "idle"
                 PROVE  /\ \A a \in AlertIds :
                             a \in cond <=> IsSet(a) /\ IsReady /\ Truth(alert[a].reqs)
                        /\ \A r \in live \cap evaluated :
                             IsReady /\ (r \in previous <=> Satisfied(Req(r)))
      BY DEF EvaluationIsCurrent, ConditionsUpToDate, CachesAreCurrent
    <2>1. Remaining = {} /\ (WasReady <=> IsReady)
      BY DEF Remaining, WasReady
    <2>2. \A r \in live \cap evaluated : IsReady /\ (r \in previous <=> Satisfied(Req(r)))
      BY <2>1 DEF WalkCatchesUp, CachesCatchUp, SatisfiedNow
    <2>3. \A a \in AlertIds : a \in cond <=> IsSet(a) /\ IsReady /\ Truth(alert[a].reqs)
      BY <2>1 DEF WalkCatchesUp, ConditionsCatchUp, TrueAlerts
    <2> QED
      BY <2>2, <2>3
  <1> QED
    BY <1>1, CatchesUp, PTL

\* When the Bluetooth callback runs between handlers, as the headers require, the walk
\* of a list never stands on a node that was freed.
THEOREM WalkIsSafe == ASSUME ~BluetoothPreempts PROVE Spec => []WalkedNodeIsAlive
  <1>1. AlertsAreBuilt /\ RestOK /\ WalkCatchesUp => WalkedNodeIsAlive
    <2> SUFFICES ASSUME AlertsAreBuilt, RestOK, WalkCatchesUp, pc = "evaluate", node # NoNode
                 PROVE  node \in live /\ node \in ToSet(lists[Head(lists_left)])
      BY DEF WalkedNodeIsAlive
    <2>1. node \in ToSet(lists[Head(lists_left)])
      BY DEF WalkCatchesUp, HandlerInv
    <2>2. Head(lists_left) \in Variables
      BY DEF RestOK, ThreadOK
    <2> QED
      BY <2>1, <2>2, ListNodes
  <1> QED
    BY <1>1, Built, RestCorrect, CatchesUp, PTL

-----------------------------------------------------------------------------
(* Notifications: the LED, the client and the alert's state agree            *)

\* The alerts of which the notifiers were last told that they are raised.  Between
\* a notification and the assignment of is_alert_raised these are not `raised'.
Announced == IF raising = NoRaise THEN raised ELSE With(raised, raising[1], raising[2])

CountOf(S, f, k) == Cardinality({s \in S : f[s] = k})

\* An alert that is not set is silent and has no notifications enabled.
UnsetIsSilent ==
  \A a \in AlertIds : ~IsSet(a) =>
    a \notin cond /\ a \notin raised /\ a \notin connectivity /\ led[a] = Off

\* A notification that is under way tells the condition result of an alert that is set
\* and has not got this state yet.
RaisingAgrees ==
  raising # NoRaise =>
    /\ raising[1] \in AlertIds /\ raising[2] \in BOOLEAN /\ IsSet(raising[1])
    /\ raising[1] \in raised <=> ~raising[2]
    /\ raising[1] \in cond <=> raising[2]

LedAgrees == \A k \in Kinds : displayed[k] = CountOf(Announced, led, k)

ClientAgrees == \A a \in connectivity : a \in client <=> a \in Announced

NotificationsAgree == UnsetIsSilent /\ RaisingAgrees /\ LedAgrees /\ ClientAgrees

\* Sets of alerts are finite, and their LED notifications can be counted.
LEMMA CountFacts ==
  ASSUME NEW A, A \subseteq AlertIds, NEW f, NEW k
  PROVE  /\ CountOf(A, f, k) \in Nat
         /\ \A x \in AlertIds : x \notin A =>
              CountOf(A \cup {x}, f, k) = CountOf(A, f, k) + (IF f[x] = k THEN 1 ELSE 0)
         /\ \A x \in A :
              CountOf(A \ {x}, f, k) = CountOf(A, f, k) - (IF f[x] = k THEN 1 ELSE 0)
  <1> DEFINE T == {s \in A : f[s] = k}
  <1>1. IsFiniteSet(AlertIds)
    <2>1. 0 \in Int /\ MaxAlertId \in Int
      BY ConstantsAssumption
    <2> QED
      BY <2>1, FS_Interval DEF AlertIds
  <1>2. IsFiniteSet(T) /\ Cardinality(T) \in Nat
    BY <1>1, FS_Subset, FS_CardinalityType
  <1>3. CountOf(A, f, k) = Cardinality(T)
    BY DEF CountOf
  <1>4. ASSUME NEW x \in AlertIds, x \notin A
        PROVE  CountOf(A \cup {x}, f, k) = CountOf(A, f, k) + (IF f[x] = k THEN 1 ELSE 0)
    <2> DEFINE U == {s \in A \cup {x} : f[s] = k}
    <2>1. CountOf(A \cup {x}, f, k) = Cardinality(U)
      BY DEF CountOf
    <2>2. CASE f[x] = k
      <3>1. U = T \cup {x} /\ x \notin T
        BY <1>4, <2>2
      <3> QED
        BY <1>2, <1>3, <2>1, <2>2, <3>1, FS_AddElement
    <2>3. CASE f[x] # k
      <3>1. U = T /\ (IF f[x] = k THEN 1 ELSE 0) = 0
        BY <2>3
      <3> HIDE DEF T, U
      <3> QED
        BY <1>2, <1>3, <2>1, <3>1
    <2> QED
      BY <2>2, <2>3
  <1>5. ASSUME NEW x \in A
        PROVE  CountOf(A \ {x}, f, k) = CountOf(A, f, k) - (IF f[x] = k THEN 1 ELSE 0)
    <2> DEFINE U == {s \in A \ {x} : f[s] = k}
    <2>1. CountOf(A \ {x}, f, k) = Cardinality(U)
      BY DEF CountOf
    <2>2. CASE f[x] = k
      <3>1. U = T \ {x} /\ x \in T
        BY <2>2
      <3> QED
        BY <1>2, <1>3, <2>1, <2>2, <3>1, FS_RemoveElement
    <2>3. CASE f[x] # k
      <3>1. U = T /\ (IF f[x] = k THEN 1 ELSE 0) = 0
        BY <2>3
      <3> HIDE DEF T, U
      <3> QED
        BY <1>2, <1>3, <2>1, <3>1
    <2> QED
      BY <2>2, <2>3
  <1> QED
    BY <1>2, <1>3, <1>4, <1>5

\* The count looks at the kinds of the alerts in the set only.
LEMMA SameCount ==
  ASSUME NEW A, NEW f, NEW g, \A x \in A : g[x] = f[x], NEW k
  PROVE  CountOf(A, g, k) = CountOf(A, f, k)
  <1>1. {s \in A : g[s] = k} = {s \in A : f[s] = k}
    OBVIOUS
  <1> QED
    BY <1>1 DEF CountOf

\* led_notifier_notify adds or takes away the notification of the alert, if it has any.
LEMMA NotifyCounts ==
  ASSUME NEW A, A \subseteq AlertIds, NEW f \in [AlertIds -> Kinds \cup {Off}],
         NEW a \in AlertIds, NEW res \in BOOLEAN, a \in A <=> ~res,
         displayed \in [Kinds -> Int], \A k \in Kinds : displayed[k] = CountOf(A, f, k),
         NEW to, to.led = f[a], LedNotify(res, to)
  PROVE  \A k \in Kinds : displayed'[k] = CountOf(With(A, a, res), f, k)
  <1> SUFFICES ASSUME NEW k \in Kinds PROVE displayed'[k] = CountOf(With(A, a, res), f, k)
    OBVIOUS
  <1>1. displayed'[k] = displayed[k] + (IF f[a] = k THEN (IF res THEN 1 ELSE -1) ELSE 0)
    <2>1. f[a] \in Kinds \cup {Off} /\ k # Off /\ displayed[k] \in Int
      BY ConstantsAssumption
    <2>2. CASE f[a] = Off
      BY <2>1, <2>2 DEF LedNotify
    <2>3. CASE f[a] # Off
      <3>1. displayed' = [displayed EXCEPT ![f[a]] = displayed[f[a]] + (IF res THEN 1 ELSE -1)]
        BY <2>3 DEF LedNotify
      <3> QED
        BY <2>1, <2>3, <3>1
    <2> QED
      BY <2>2, <2>3
  <1>2. CountOf(A, f, k) \in Nat
    BY CountFacts
  <1>3. CASE res
    <2>1. With(A, a, res) = A \cup {a} /\ a \notin A
      BY <1>3 DEF With
    <2>2. CountOf(A \cup {a}, f, k) = CountOf(A, f, k) + (IF f[a] = k THEN 1 ELSE 0)
      BY <2>1, CountFacts
    <2> QED
      BY <1>1, <1>2, <1>3, <2>1, <2>2
  <1>4. CASE ~res
    <2>1. With(A, a, res) = A \ {a} /\ a \in A
      BY <1>4 DEF With
    <2>2. CountOf(A \ {a}, f, k) = CountOf(A, f, k) - (IF f[a] = k THEN 1 ELSE 0)
      BY <2>1, CountFacts
    <2> QED
      BY <1>1, <1>2, <1>4, <2>1, <2>2
  <1> QED
    BY <1>3, <1>4

\* A condition result on the event thread: the raiser follows it later, or notifies of
\* the new state and has yet to assign it.
LEMMA NotifyThenAssignAgrees ==
  ASSUME RestOK, NotificationsAgree, raising = NoRaise, NEW a \in AlertIds, IsSet(a),
         NEW res \in BOOLEAN, NotifyThenAssign(a, res, Channels(a)),
         UNCHANGED <<alert, connectivity, led>>
  PROVE  NotificationsAgree'
  <1>1. cond' = With(cond, a, res) /\ raised' = raised
        /\ \/ UNCHANGED <<displayed, raising, client>>
           \/ /\ ~(a \in raised <=> res)
              /\ raising' = <<a, res>> /\ Notify(a, res, Channels(a))
    BY DEF NotifyThenAssign
  <1>2. \A b \in AlertIds : (IsSet(b)' <=> IsSet(b)) /\ (b # a => (b \in cond' <=> b \in cond))
    BY <1>1 DEF IsSet, With
  <1>3. UnsetIsSilent'
    BY <1>1, <1>2 DEF UnsetIsSilent, NotificationsAgree
  <1>4. CASE UNCHANGED <<displayed, raising, client>>
    <2>1. Announced' = Announced
      BY <1>1, <1>4 DEF Announced
    <2> QED
      BY <1>3, <1>4, <2>1 DEF NotificationsAgree, RaisingAgrees, LedAgrees, ClientAgrees
  <1>5. CASE ~(a \in raised <=> res) /\ raising' = <<a, res>> /\ Notify(a, res, Channels(a))
    <2>1. raising' # NoRaise /\ raising'[1] = a /\ raising'[2] = res
      BY <1>5 DEF NoRaise
    <2>2. Announced = raised /\ Announced' = With(raised, a, res)
      BY <1>1, <2>1 DEF Announced
    <2>3. a \in cond' <=> res
      BY <1>1 DEF With
    <2>4. RaisingAgrees'
      BY <1>1, <1>2, <1>5, <2>1, <2>3 DEF RaisingAgrees
    <2>5. LedAgrees'
      <3>1. PICK to : to = Channels(a)
        OBVIOUS
      <3>2. to.led = led[a] /\ LedNotify(res, to)
        BY <1>5, <3>1 DEF Channels, Notify
      <3>3. PICK A, f : A = raised /\ f = led
        OBVIOUS
      <3>4. \A k \in Kinds : displayed'[k] = CountOf(With(A, a, res), f, k)
        BY <1>5, <2>2, <3>2, <3>3, NotifyCounts DEF RestOK, NotificationsAgree, LedAgrees
      <3> QED
        BY <2>2, <3>3, <3>4 DEF LedAgrees
    <2>6. ClientAgrees'
      <3>1. client' = IF a \in connectivity THEN With(client, a, res) ELSE client
        BY <1>5 DEF Notify, ConnectivityNotify, Channels
      <3> QED
        BY <2>2, <3>1 DEF NotificationsAgree, ClientAgrees, With
    <2> QED
      BY <1>3, <2>4, <2>5, <2>6 DEF NotificationsAgree
  <1> QED
    BY <1>1, <1>4, <1>5

\* An alert is added: it is silenced, or raised at once.
LEMMA AddAlertAgrees ==
  ASSUME AlertsAreBuilt, RestOK, NotificationsAgree, ~BluetoothPreempts,
         NEW id \in MessageIds, NEW m \in Messages, AddAlert(id, m)
  PROVE  NotificationsAgree'
  <1> DEFINE e  == EvaluateCondition(BuildCondition(m.reqs).items, m.reqs)
             to == [connectivity |-> id \in connectivity', led |-> led'[id],
                    client |-> client \ {id}]
  <1>1. /\ raising = NoRaise /\ raising' = raising /\ ~IsSet(id) /\ id <= MaxAlertId
        /\ alert' = [alert EXCEPT ![id] = m] /\ IsLedValid(m)
        /\ connectivity' = (IF m.connectivity THEN connectivity \cup {id} ELSE connectivity)
        /\ led' = IF m.led # Off THEN [led EXCEPT ![id] = m.led] ELSE led
    BY DEF AddAlert, MayReceive, EventThreadIs, IsAlertValid, IsAlertIdValid, threadVars
  <1>2. IsAlertConditionValid(m.reqs)
    BY DEF AddAlert, IsAlertValid
  <1>3. e.result \in BOOLEAN
    BY <1>2, ValidCondition
  <1>4. \/ cond' = With(cond, id, e.result) /\ SetAlertConditionResult(id, e.result, to)
        \/ cond' = cond /\ UNCHANGED <<raised, displayed>> /\ client' = client \ {id}
    BY DEF AddAlert, SetAlertConditionResult
  <1> HIDE DEF e
  <1>5. id \in AlertIds /\ m # NoAlert
    BY <1>1, MessageFacts, ConstantsAssumption DEF AlertIds
  <1>6. /\ id \notin cond /\ id \notin raised /\ id \notin connectivity /\ led[id] = Off
    BY <1>1, <1>5 DEF NotificationsAgree, UnsetIsSilent
  <1>7. /\ IsSet(id)' /\ \A b \in AlertIds : b # id => (IsSet(b)' <=> IsSet(b))
    BY <1>1, <1>5 DEF AlertsAreBuilt, IsSet
  <1>8. /\ \A b \in AlertIds : b # id => led'[b] = led[b] /\ (b \in connectivity' <=> b \in connectivity)
        /\ led' \in [AlertIds -> Kinds \cup {Off}]
    BY <1>1, <1>5 DEF RestOK, IsLedValid
  <1>9. \A b \in AlertIds : b # id => (b \in cond' <=> b \in cond)
    BY <1>4 DEF With
  <1>10. Announced = raised /\ Announced' = raised' /\ RaisingAgrees'
    BY <1>1 DEF Announced, RaisingAgrees
  <1>11. PICK A, f, g : A = raised /\ f = led /\ g = led'
    OBVIOUS
  <1>12. /\ A \subseteq AlertIds /\ g \in [AlertIds -> Kinds \cup {Off}]
         /\ displayed \in [Kinds -> Int] /\ \A x \in A : g[x] = f[x]
    BY <1>6, <1>8, <1>11 DEF RestOK
  <1>13. \A k \in Kinds : displayed[k] = CountOf(A, g, k)
    BY <1>10, <1>11, <1>12, SameCount DEF NotificationsAgree, LedAgrees
  <1>14. \A b \in connectivity : b \in client <=> b \in raised
    BY <1>10 DEF NotificationsAgree, ClientAgrees
  <1>15. connectivity' \subseteq AlertIds
    BY <1>1, <1>5 DEF RestOK
  <1>16. CASE UNCHANGED <<raised, displayed>> /\ client' = client \ {id}
    <2>1. LedAgrees'
      BY <1>10, <1>11, <1>13, <1>16 DEF LedAgrees
    <2>2. ClientAgrees'
      BY <1>6, <1>8, <1>10, <1>14, <1>15, <1>16 DEF ClientAgrees
    <2>3. UnsetIsSilent'
      BY <1>7, <1>8, <1>9, <1>16 DEF NotificationsAgree, UnsetIsSilent
    <2> QED
      BY <1>10, <2>1, <2>2, <2>3 DEF NotificationsAgree
  <1>17. CASE /\ ~(id \in raised <=> e.result) /\ raised' = With(raised, id, e.result)
              /\ Notify(id, e.result, to)
    <2>1. e.result = TRUE /\ raised' = raised \cup {id} /\ raised' = With(raised, id, e.result)
      BY <1>3, <1>6, <1>17 DEF With
    <2>2. LedAgrees'
      <3>1. PICK t : t = to
        OBVIOUS
      <3>2. t.led = g[id] /\ LedNotify(TRUE, t)
        BY <1>11, <1>17, <2>1, <3>1 DEF Notify
      <3>3. id \in A <=> ~TRUE
        BY <1>6, <1>11
      <3>4. \A k \in Kinds : displayed'[k] = CountOf(With(A, id, TRUE), g, k)
        BY <1>5, <1>12, <1>13, <3>2, <3>3, NotifyCounts
      <3> QED
        BY <1>10, <1>11, <2>1, <3>4 DEF LedAgrees
    <2>3. client' = IF id \in connectivity' THEN (client \ {id}) \cup {id} ELSE client \ {id}
      BY <1>17, <2>1 DEF Notify, ConnectivityNotify, With
    <2>4. ClientAgrees'
      BY <1>6, <1>8, <1>10, <1>14, <1>15, <2>1, <2>3 DEF ClientAgrees
    <2>5. UnsetIsSilent'
      BY <1>7, <1>8, <1>9, <2>1 DEF NotificationsAgree, UnsetIsSilent
    <2> QED
      BY <1>10, <2>2, <2>4, <2>5 DEF NotificationsAgree
  <1>18. \/ UNCHANGED <<raised, displayed>> /\ client' = client \ {id}
         \/ /\ ~(id \in raised <=> e.result) /\ raised' = With(raised, id, e.result)
            /\ Notify(id, e.result, to)
    BY <1>4 DEF SetAlertConditionResult
  <1> QED
    BY <1>16, <1>17, <1>18

\* An alert is removed: if it was raised, its LED notification is taken away while it
\* is still known, and the client is not told.
LEMMA RemoveAlertAgrees ==
  ASSUME AlertsAreBuilt, RestOK, NotificationsAgree, ~BluetoothPreempts,
         NEW id \in MessageIds, RemoveAlert(id)
  PROVE  NotificationsAgree'
  <1> DEFINE to == [Channels(id) EXCEPT !.connectivity = FALSE]
  <1>1. /\ raising = NoRaise /\ raising' = raising /\ IsSet(id) /\ id <= MaxAlertId
        /\ alert' = [alert EXCEPT ![id] = NoAlert]
        /\ connectivity' = connectivity \ {id} /\ cond' = cond \ {id} /\ raised' = raised \ {id}
        /\ led' = [led EXCEPT ![id] = Off]
        /\ IF id \in raised THEN Notify(id, FALSE, to) ELSE UNCHANGED <<client, displayed>>
    BY DEF RemoveAlert, MayReceive, EventThreadIs, IsAlertIdValid, threadVars, SilenceRemoved
  <1>2. id \in AlertIds
    BY <1>1, ConstantsAssumption DEF AlertIds
  <1>3. \A b \in AlertIds : IsSet(b)' <=> b # id /\ IsSet(b)
    BY <1>1, <1>2 DEF AlertsAreBuilt, IsSet
  <1>4. led'[id] = Off /\ \A b \in AlertIds : b # id => led'[b] = led[b]
    BY <1>1, <1>2 DEF RestOK
  <1>5. UnsetIsSilent'
    BY <1>1, <1>3, <1>4 DEF NotificationsAgree, UnsetIsSilent
  <1>6. Announced = raised /\ Announced' = raised' /\ RaisingAgrees'
    BY <1>1 DEF Announced, RaisingAgrees
  <1>7. to.led = led[id] /\ to.client = client /\ to.connectivity = FALSE
    BY DEF Channels
  <1> HIDE DEF to
  <1>8. client' = client
    BY <1>1, <1>7 DEF Notify, ConnectivityNotify
  <1>9. ClientAgrees'
    BY <1>1, <1>6, <1>8 DEF NotificationsAgree, ClientAgrees
  <1>10. PICK A, f, g : A = raised /\ f = led /\ g = led'
    OBVIOUS
  <1>11. /\ A \subseteq AlertIds /\ f \in [AlertIds -> Kinds \cup {Off}]
         /\ displayed \in [Kinds -> Int] /\ \A x \in A \ {id} : g[x] = f[x]
         /\ \A k \in Kinds : displayed[k] = CountOf(A, f, k)
    BY <1>4, <1>6, <1>10 DEF RestOK, NotificationsAgree, LedAgrees
  <1>12. \A k \in Kinds : displayed'[k] = CountOf(A \ {id}, f, k)
    <2>1. CASE id \in raised
      <3>1. PICK t : t = to
        OBVIOUS
      <3>2. t.led = f[id] /\ LedNotify(FALSE, t)
        BY <1>1, <1>7, <1>10, <2>1, <3>1 DEF Notify
      <3>3. \A k \in Kinds : displayed'[k] = CountOf(With(A, id, FALSE), f, k)
        BY <1>2, <1>10, <1>11, <2>1, <3>2, NotifyCounts
      <3> QED
        BY <3>3 DEF With
    <2>2. CASE id \notin raised
      <3>1. A \ {id} = A
        BY <1>10, <2>2
      <3> QED
        BY <1>1, <1>11, <2>2, <3>1
    <2> QED
      BY <2>1, <2>2
  <1>13. LedAgrees'
    <2>1. \A k \in Kinds : CountOf(A \ {id}, g, k) = CountOf(A \ {id}, f, k)
      BY <1>11, SameCount
    <2> QED
      BY <1>1, <1>6, <1>10, <1>12, <2>1 DEF LedAgrees
  <1> QED
    BY <1>5, <1>6, <1>9, <1>13 DEF NotificationsAgree

\* is_alert_raised is assigned.
LEMMA AssignAgrees ==
  ASSUME RestOK, NotificationsAgree, AssignIsAlertRaised
  PROVE  NotificationsAgree'
  <1>1. /\ raising # NoRaise /\ raising' = NoRaise /\ raised' = With(raised, raising[1], raising[2])
        /\ UNCHANGED <<alert, cond, connectivity, led, displayed, client>>
    BY DEF AssignIsAlertRaised, alertVars
  <1>2. Announced' = raised' /\ Announced = raised' /\ RaisingAgrees'
    BY <1>1 DEF Announced, RaisingAgrees
  <1>3. LedAgrees' /\ ClientAgrees'
    BY <1>1, <1>2 DEF NotificationsAgree, LedAgrees, ClientAgrees
  <1>4. UnsetIsSilent'
    <2>1. IsSet(raising[1]) /\ \A b \in AlertIds : IsSet(b)' <=> IsSet(b)
      BY <1>1 DEF NotificationsAgree, RaisingAgrees, IsSet
    <2> QED
      BY <1>1, <2>1 DEF NotificationsAgree, UnsetIsSilent, With
  <1> QED
    BY <1>2, <1>3, <1>4 DEF NotificationsAgree

\* The invariant of the notifications.
THEOREM Agrees == ASSUME ~BluetoothPreempts PROVE Spec => []NotificationsAgree
  <1>1. Init => NotificationsAgree
    <2> SUFFICES ASSUME Init PROVE NotificationsAgree
      OBVIOUS
    <2>1. UnsetIsSilent /\ RaisingAgrees /\ ClientAgrees
      BY DEF Init, UnsetIsSilent, RaisingAgrees, ClientAgrees
    <2>2. LedAgrees
      <3> SUFFICES ASSUME NEW k \in Kinds PROVE displayed[k] = CountOf(Announced, led, k)
        BY DEF LedAgrees
      <3>1. Announced = {}
        BY DEF Init, Announced
      <3>2. {s \in Announced : led[s] = k} = {}
        BY <3>1
      <3>3. Cardinality({}) = 0
        BY FS_EmptySet
      <3> QED
        BY <3>2, <3>3 DEF Init, CountOf
    <2> QED
      BY <2>1, <2>2 DEF NotificationsAgree
  <1>2. AlertsAreBuilt /\ RestOK /\ NotificationsAgree /\ [Next]_vars => NotificationsAgree'
    <2> SUFFICES ASSUME AlertsAreBuilt, RestOK, NotificationsAgree, [Next]_vars
                 PROVE  NotificationsAgree'
      OBVIOUS
    <2>1. ASSUME NEW id \in MessageIds, NEW m \in Messages, AddAlert(id, m)
          PROVE  NotificationsAgree'
      BY <2>1, AddAlertAgrees
    <2>2. ASSUME NEW id \in MessageIds, RemoveAlert(id) PROVE NotificationsAgree'
      BY <2>2, RemoveAlertAgrees
    <2>3. ASSUME UNCHANGED <<alert, notifyVars, raising>> PROVE NotificationsAgree'
      <3>1. Announced' = Announced /\ \A b \in AlertIds : IsSet(b)' <=> IsSet(b)
        BY <2>3 DEF notifyVars, Announced, IsSet
      <3>2. UnsetIsSilent' /\ LedAgrees' /\ ClientAgrees'
        BY <2>3, <3>1
           DEF notifyVars, NotificationsAgree, UnsetIsSilent, LedAgrees, ClientAgrees
      <3>3. RaisingAgrees'
        BY <2>3 DEF notifyVars, NotificationsAgree, RaisingAgrees, IsSet
      <3> QED
        BY <3>2, <3>3 DEF NotificationsAgree
    <2>4. ASSUME NEW v \in Variables, NEW x \in Values, NewSample(v, x) PROVE NotificationsAgree'
      BY <2>3, <2>4 DEF NewSample, alertVars
    <2>5. CASE SetCurrentValue
      BY <2>3, <2>5 DEF SetCurrentValue, alertVars
    <2>6. CASE NextList
      BY <2>3, <2>6 DEF NextList, alertVars
    <2>7. CASE EvaluateVariableRequirement
      <3>1. PICK a, res : a = node[1] /\ res = EvaluateCondition(conditions[node[1]], alert[node[1]].reqs).result
        OBVIOUS
      <3>2. raising = NoRaise /\ node \in live /\ UNCHANGED <<alert, connectivity, led>>
        BY <2>7 DEF EvaluateVariableRequirement, EventThreadIs, alertVars
      <3>3. a \in AlertIds /\ IsSet(a)
        BY <3>1, <3>2, LiveFacts
      <3>4. res \in BOOLEAN
        BY <3>1, <3>3, SetAlertFacts, ValidCondition
      <3>5. \/ NotifyThenAssign(a, res, Channels(a))
            \/ UNCHANGED <<cond, raised, raising, client, displayed>>
        BY <2>7, <3>1 DEF EvaluateVariableRequirement
      <3>6. CASE NotifyThenAssign(a, res, Channels(a))
        BY <3>2, <3>3, <3>4, <3>6, NotifyThenAssignAgrees
      <3>7. CASE UNCHANGED <<cond, raised, raising, client, displayed>>
        BY <2>3, <3>2, <3>7 DEF notifyVars
      <3> QED
        BY <3>5, <3>6, <3>7
    <2>8. ASSUME NEW a \in AlertIds, PeriodExpired(a) PROVE NotificationsAgree'
      <3>1. PICK res : res = (a \in cond)
        OBVIOUS
      <3>2. /\ raising = NoRaise /\ IsSet(a) /\ NotifyThenAssign(a, res, Channels(a))
            /\ UNCHANGED <<alert, connectivity, led>>
        BY <2>8, <3>1 DEF PeriodExpired, EventThreadIs, alertVars
      <3>3. res \in BOOLEAN
        BY <3>1
      <3> QED
        BY <3>2, <3>3, NotifyThenAssignAgrees
    <2>9. CASE AssignIsAlertRaised
      BY <2>9, AssignAgrees
    <2>10. CASE UNCHANGED vars
      BY <2>3, <2>10 DEF vars, alertVars, threadVars
    <2> QED
      BY <2>1, <2>2, <2>4, <2>5, <2>6, <2>7, <2>8, <2>9, <2>10 DEF Next
  <1> QED
    BY <1>1, <1>2, Built, RestCorrect, PTL DEF Spec

\* The LED manager holds one notification for each raised alert that has LED
\* notifications enabled, in its colour, whatever was added and removed before.
THEOREM LedShows == ASSUME ~BluetoothPreempts PROVE Spec => []LedShowsRaisedAlerts
  <1>1. NotificationsAgree => LedShowsRaisedAlerts
    BY DEF NotificationsAgree, LedAgrees, LedShowsRaisedAlerts, Announced, CountOf
  <1> QED
    BY <1>1, Agrees, PTL

\* A client with connectivity notifications knows the state of each alert it added.
THEOREM ClientKnows == ASSUME ~BluetoothPreempts PROVE Spec => []ClientKnowsState
  <1>1. NotificationsAgree => ClientKnowsState
    BY DEF NotificationsAgree, ClientAgrees, ClientKnowsState, Announced
  <1> QED
    BY <1>1, Agrees, PTL

\* No EAS_ASSERT of the modelled functions fails: no value is read before it was set, no
\* empty condition is evaluated, and every LED notification to be removed is there.
THEOREM AssertsHold == ASSUME ~BluetoothPreempts PROVE Spec => []NoAssertFails
  <1>1. RestOK /\ WalkCatchesUp /\ NotificationsAgree => NoAssertFails
    <2> SUFFICES ASSUME RestOK, WalkCatchesUp, NotificationsAgree PROVE NoAssertFails
      OBVIOUS
    <2>1. Announced \subseteq AlertIds
      BY DEF Announced, RestOK, NotificationsAgree, RaisingAgrees, With
    <2>2. \A k \in Kinds : CountOf(Announced, led, k) \in Nat
      BY <2>1, CountFacts
    <2>3. \A k \in Kinds : displayed[k] >= 0
      BY <2>2 DEF NotificationsAgree, LedAgrees
    <2> QED
      BY <2>3 DEF WalkCatchesUp, HandlerInv, NoAssertFails
  <1> QED
    BY <1>1, RestCorrect, CatchesUp, Agrees, PTL

-----------------------------------------------------------------------------
(* Every alert follows the lifecycle                                        *)

\* One of two Boolean values.
LEMMA OneOfTwo == \A x, y, z : x = y \/ x = z => x \in {y, z}
  OBVIOUS

\* What a step of AlertLifecycle says of one alert of the engine.
LEMMA LifecycleSteps ==
  ASSUME NEW a \in AlertIds
  PROVE  /\ /\ IsSet(a)' <=> IsSet(a)
            /\ a \in cond' <=> a \in cond
            /\ a \in raised' <=> a \in raised
            => UNCHANGED Lifecycle(a)!vars
         /\ /\ ~IsSet(a) /\ IsSet(a)'
            /\ a \in raised' => a \in cond'
            => Lifecycle(a)!Next
         /\ /\ IsSet(a) /\ ~IsSet(a)' /\ a \notin cond' /\ a \notin raised'
            => Lifecycle(a)!Next
         /\ /\ IsSet(a) /\ IsSet(a)'
            /\ a \in raised' <=> a \in raised
            => Lifecycle(a)!Next
         /\ /\ IsSet(a) /\ IsSet(a)'
            /\ a \in cond' <=> a \in cond
            /\ a \in raised' <=> a \in cond
            /\ ~(a \in raised <=> a \in cond)
            => Lifecycle(a)!Next
  <1>1. IsSet(a) \in BOOLEAN /\ IsSet(a)' \in BOOLEAN
    BY DEF IsSet
  <1>2. ASSUME IsSet(a)' <=> IsSet(a), a \in cond' <=> a \in cond, a \in raised' <=> a \in raised
        PROVE  UNCHANGED Lifecycle(a)!vars
    BY <1>1, <1>2 DEF Lifecycle!vars
  <1>3. ASSUME ~IsSet(a), IsSet(a)', a \in raised' => a \in cond'
        PROVE  Lifecycle(a)!Next
    <2>1. \E result \in BOOLEAN : Lifecycle(a)!AddEvaluated(result)
      <3>1. CASE a \in cond'
        <4>1. (a \in raised)' \in {FALSE, TRUE}
          <5>1. (a \in raised)' = FALSE \/ (a \in raised)' = TRUE
            OBVIOUS
          <5> QED
            BY ONLY <5>1, OneOfTwo
        <4>2. Lifecycle(a)!AddEvaluated(TRUE)
          BY <1>1, <1>3, <3>1, <4>1 DEF Lifecycle!AddEvaluated
        <4> QED
          BY <4>2
      <3>2. CASE a \notin cond'
        <4>1. (a \in raised)' \in {FALSE, FALSE}
          <5>1. (a \in raised)' = FALSE
            BY <1>3, <3>2
          <5> QED
            BY ONLY <5>1, OneOfTwo
        <4>2. IsSet(a)' = TRUE /\ (a \in cond)' = FALSE
          BY <1>1, <1>3, <3>2
        <4>3. Lifecycle(a)!AddEvaluated(FALSE)
          BY <1>3, <4>1, <4>2, Zenon DEF Lifecycle!AddEvaluated
        <4> QED
          BY <4>3
      <3> QED
        BY <3>1, <3>2
    <2> QED
      BY <2>1 DEF Lifecycle!Next
  <1>4. ASSUME IsSet(a), ~IsSet(a)', a \notin cond', a \notin raised'
        PROVE  Lifecycle(a)!Next
    BY <1>1, <1>4 DEF Lifecycle!Next, Lifecycle!Remove
  <1>5. ASSUME IsSet(a), IsSet(a)', a \in raised' <=> a \in raised
        PROVE  Lifecycle(a)!Next
    <2>1. \E result \in BOOLEAN : Lifecycle(a)!Evaluate(result)
      <3>1. CASE a \in cond'
        <4>1. (a \in raised)' \in {(a \in raised), TRUE}
          <5>1. (a \in raised)' = (a \in raised)
            BY <1>5
          <5> QED
            BY ONLY <5>1, OneOfTwo
        <4>2. Lifecycle(a)!Evaluate(TRUE)
          BY <1>1, <1>5, <3>1, <4>1 DEF Lifecycle!Evaluate
        <4> QED
          BY <4>2
      <3>2. CASE a \notin cond'
        <4>1. (a \in raised)' \in {(a \in raised), FALSE}
          <5>1. (a \in raised)' = (a \in raised)
            BY <1>5
          <5> QED
            BY ONLY <5>1, OneOfTwo
        <4>2. IsSet(a)' = TRUE /\ (a \in cond)' = FALSE
          BY <1>1, <1>5, <3>2
        <4>3. Lifecycle(a)!Evaluate(FALSE)
          BY <1>5, <4>1, <4>2, Zenon DEF Lifecycle!Evaluate
        <4> QED
          BY <4>3
      <3> QED
        BY <3>1, <3>2
    <2> QED
      BY <2>1 DEF Lifecycle!Next
  <1>6. ASSUME IsSet(a), IsSet(a)', a \in cond' <=> a \in cond, a \in raised' <=> a \in cond,
               ~(a \in raised <=> a \in cond)
        PROVE  Lifecycle(a)!Next
    BY <1>1, <1>6 DEF Lifecycle!Next, Lifecycle!Correct
  <1> QED
    BY <1>2, <1>3, <1>4, <1>5, <1>6

\* A condition result on the event thread is a step of its alert's lifecycle.
LEMMA NotifyThenAssignFollows ==
  ASSUME NEW a \in AlertIds, IsSet(a), NEW res, NotifyThenAssign(a, res, Channels(a)),
         UNCHANGED alert, NEW b \in AlertIds
  PROVE  Lifecycle(b)!Next \/ UNCHANGED Lifecycle(b)!vars
  <1>1. raised' = raised /\ cond' = With(cond, a, res) /\ (IsSet(b)' <=> IsSet(b))
    BY DEF NotifyThenAssign, IsSet
  <1>2. CASE b = a
    BY <1>1, <1>2, LifecycleSteps
  <1>3. CASE b # a
    <2>1. b \in cond' <=> b \in cond
      BY <1>1, <1>3 DEF With
    <2> QED
      BY <1>1, <2>1, LifecycleSteps
  <1> QED
    BY <1>2, <1>3

\* Every alert lives the life that AlertRaiser implements, with conditions that come from
\* samples and with ids that are used again and again.
THEOREM FollowsLifecycle == ASSUME ~BluetoothPreempts PROVE Spec => AlertsFollowLifecycle
  <1>1. Init => \A a \in AlertIds : Lifecycle(a)!Init
    <2> SUFFICES ASSUME Init, NEW a \in AlertIds PROVE Lifecycle(a)!Init
      OBVIOUS
    <2>1. ~IsSet(a) /\ a \notin cond /\ a \notin raised
      BY DEF Init, IsSet
    <2>2. IsSet(a) = FALSE
      BY <2>1 DEF IsSet
    <2> QED
      BY <2>1, <2>2 DEF Lifecycle!Init
  <1>2. AlertsAreBuilt /\ RestOK /\ NotificationsAgree /\ [Next]_vars
          => [\A a \in AlertIds : [Lifecycle(a)!Next]_(Lifecycle(a)!vars)]_vars
    <2> SUFFICES ASSUME AlertsAreBuilt, RestOK, NotificationsAgree, [Next]_vars, NEW b \in AlertIds
                 PROVE  Lifecycle(b)!Next \/ UNCHANGED Lifecycle(b)!vars
      OBVIOUS
    <2>1. ASSUME NEW id \in MessageIds, NEW m \in Messages, AddAlert(id, m)
          PROVE  Lifecycle(b)!Next \/ UNCHANGED Lifecycle(b)!vars
      <3> DEFINE e == EvaluateCondition(BuildCondition(m.reqs).items, m.reqs)
      <3>1. /\ ~IsSet(id) /\ id <= MaxAlertId /\ IsAlertConditionValid(m.reqs)
            /\ alert' = [alert EXCEPT ![id] = m]
            /\ \/ /\ cond' = With(cond, id, e.result)
                  /\ \/ raised' = raised
                     \/ raised' = With(raised, id, e.result)
               \/ cond' = cond /\ raised' = raised
        BY <2>1 DEF AddAlert, IsAlertValid, IsAlertIdValid, SetAlertConditionResult
      <3>2. e.result \in BOOLEAN
        BY <3>1, ValidCondition
      <3> HIDE DEF e
      <3>3. id \in AlertIds /\ m # NoAlert
        BY <3>1, MessageFacts, ConstantsAssumption DEF AlertIds
      <3>4. IsSet(id)' /\ (b # id => (IsSet(b)' <=> IsSet(b)))
        BY <3>1, <3>3 DEF AlertsAreBuilt, IsSet
      <3>5. id \notin cond /\ id \notin raised
        BY <3>1, <3>3 DEF NotificationsAgree, UnsetIsSilent
      <3>6. CASE b = id
        <4>1. b \in raised' => b \in cond'
          BY <3>1, <3>2, <3>5, <3>6 DEF With
        <4> QED
          BY <3>1, <3>4, <3>6, <4>1, LifecycleSteps
      <3>7. CASE b # id
        <4>1. (b \in cond' <=> b \in cond) /\ (b \in raised' <=> b \in raised)
          BY <3>1, <3>7 DEF With
        <4> QED
          BY <3>4, <3>7, <4>1, LifecycleSteps
      <3> QED
        BY <3>6, <3>7
    <2>2. ASSUME NEW id \in MessageIds, RemoveAlert(id)
          PROVE  Lifecycle(b)!Next \/ UNCHANGED Lifecycle(b)!vars
      <3>1. /\ IsSet(id) /\ id <= MaxAlertId /\ alert' = [alert EXCEPT ![id] = NoAlert]
            /\ cond' = cond \ {id} /\ raised' = raised \ {id}
        BY <2>2 DEF RemoveAlert, IsAlertIdValid
      <3>2. id \in AlertIds
        BY <3>1, ConstantsAssumption DEF AlertIds
      <3>3. ~IsSet(id)' /\ (b # id => (IsSet(b)' <=> IsSet(b)))
        BY <3>1, <3>2 DEF AlertsAreBuilt, IsSet
      <3>4. CASE b = id
        BY <3>1, <3>3, <3>4, LifecycleSteps
      <3>5. CASE b # id
        BY <3>1, <3>3, <3>5, LifecycleSteps
      <3> QED
        BY <3>4, <3>5
    <2>3. ASSUME UNCHANGED <<alert, cond, raised>>
          PROVE  Lifecycle(b)!Next \/ UNCHANGED Lifecycle(b)!vars
      <3>1. IsSet(b)' <=> IsSet(b)
        BY <2>3 DEF IsSet
      <3> QED
        BY <2>3, <3>1, LifecycleSteps
    <2>4. ASSUME NEW v \in Variables, NEW x \in Values, NewSample(v, x)
          PROVE  UNCHANGED <<alert, cond, raised>>
      BY <2>4 DEF NewSample, alertVars, notifyVars
    <2>5. ASSUME SetCurrentValue \/ NextList PROVE UNCHANGED <<alert, cond, raised>>
      BY <2>5 DEF SetCurrentValue, NextList, alertVars, notifyVars
    <2>6. CASE EvaluateVariableRequirement
      <3>1. PICK a, res : /\ a = node[1]
                          /\ res = EvaluateCondition(conditions[node[1]], alert[node[1]].reqs).result
        OBVIOUS
      <3>2. /\ node \in live /\ UNCHANGED alert
            /\ NotifyThenAssign(a, res, Channels(a)) \/ UNCHANGED <<cond, raised>>
        BY <2>6, <3>1 DEF EvaluateVariableRequirement, alertVars
      <3>3. a \in AlertIds /\ IsSet(a)
        BY <3>1, <3>2, LiveFacts
      <3> QED
        BY <2>3, <3>2, <3>3, NotifyThenAssignFollows
    <2>7. ASSUME NEW a \in AlertIds, PeriodExpired(a)
          PROVE  Lifecycle(b)!Next \/ UNCHANGED Lifecycle(b)!vars
      <3>1. PICK res : res = (a \in cond)
        OBVIOUS
      <3>2. IsSet(a) /\ NotifyThenAssign(a, res, Channels(a)) /\ UNCHANGED alert
        BY <2>7, <3>1 DEF PeriodExpired, alertVars
      <3> QED
        BY <3>2, NotifyThenAssignFollows
    <2>8. CASE AssignIsAlertRaised
      <3>1. /\ raising # NoRaise /\ raised' = With(raised, raising[1], raising[2])
            /\ UNCHANGED <<alert, cond>> /\ (IsSet(b)' <=> IsSet(b))
        BY <2>8 DEF AssignIsAlertRaised, alertVars, IsSet
      <3>2. /\ IsSet(raising[1]) /\ raising[2] \in BOOLEAN
            /\ raising[1] \in raised <=> ~raising[2]
            /\ raising[1] \in cond <=> raising[2]
        BY <3>1 DEF NotificationsAgree, RaisingAgrees
      <3>3. CASE b = raising[1]
        <4>1. (b \in raised' <=> b \in cond) /\ ~(b \in raised <=> b \in cond)
          BY <3>1, <3>2, <3>3 DEF With
        <4> QED
          BY <3>1, <3>2, <3>3, <4>1, LifecycleSteps
      <3>4. CASE b # raising[1]
        <4>1. b \in raised' <=> b \in raised
          BY <3>1, <3>4 DEF With
        <4> QED
          BY <3>1, <4>1, LifecycleSteps
      <3> QED
        BY <3>3, <3>4
    <2>9. CASE UNCHANGED vars
      BY <2>3, <2>9 DEF vars, alertVars, notifyVars
    <2> QED
      BY <2>1, <2>2, <2>3, <2>4, <2>5, <2>6, <2>7, <2>8, <2>9 DEF Next
  <1> QED
    BY <1>1, <1>2, Built, RestCorrect, Agrees, PTL DEF Spec, AlertsFollowLifecycle
=============================================================================
