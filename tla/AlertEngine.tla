----------------------------- MODULE AlertEngine -----------------------------
(***************************************************************************)
(* The application's alert logic: the alert adder, remover and validator   *)
(* (app/glue), the new sample handlers (app/glue/event_handlers), and the  *)
(* state they share: current values, evaluation readiness, requirement     *)
(* instances with their cached results, requirement lists, conditions,     *)
(* and the two notifiers.                                                  *)
(*                                                                         *)
(* Each alert raiser is taken as the AlertLifecycle that AlertRaiser       *)
(* implements, and the LED manager as the LedRotation that LedManager      *)
(* implements: a set of added notifications, counted by kind.              *)
(*                                                                         *)
(* Samples are handled by the event thread, one step per visited list      *)
(* node.  Alerts are added and removed by the Bluetooth receive callback.  *)
(* BluetoothPreempts says whether that happens inside a sample handler (as *)
(* in the nRF52840 port, where the callback runs on the Bluetooth thread)  *)
(* or between handlers, as the headers require.                            *)
(***************************************************************************)
EXTENDS AlertCondition

CONSTANTS
  VariableOrder,    \* the variables, in the order of new_sample_handler
  Values,           \* sample values
  Unset,            \* content of a ValueHolder before its first set
  MaxRequirements,  \* CONFIG_ALERT_CONDITION_MAX_NUM_VARIABLE_REQUIREMENTS
  MaxAlertId,       \* CONFIG_ALERT_VALIDATOR_MAX_ALLOWED_ALERT_ID
  MessageIds,       \* alert ids that may come in a message
  Messages,         \* the alerts that clients send
  NoAlert,          \* no alert is set
  Kinds,            \* LED colours and patterns
  Off,              \* LED notifications are disabled
  BluetoothPreempts

Variables == ToSet(VariableOrder)
AlertIds == 0..MaxAlertId

ASSUME ConstantsAssumption ==
  /\ VariableOrder \in Seq(Variables) /\ VariableOrder # <<>>
  /\ MaxAlertId \in Nat
  /\ MessageIds \subseteq Nat
  /\ Values \subseteq Int /\ Values # {}
  /\ Unset \notin Values
  /\ NoAlert \notin Messages
  /\ MaxRequirements \in Nat \ {0}
  /\ \A m \in Messages :
       /\ m.reqs \in Seq(ToSet(m.reqs)) /\ Len(m.reqs) <= MaxRequirements
       /\ \A i \in DOMAIN m.reqs : m.reqs[i].last \in BOOLEAN
  /\ Off \notin Kinds
  /\ BluetoothPreempts \in BOOLEAN

VARIABLES
  received,       \* variables with a sample (alert_evaluation_readiness)
  value,          \* current_<variable> modules
  alert,          \* the message an alert was added with, or NoAlert
  conditions,     \* alert_conditions: the arrays
  lists,          \* <variable>_requirement_list, first node first
  live,           \* requirement instances that are allocated
  evaluated,      \* instances with evaluate_has_been_called
  previous,       \* instances with a true previous_evaluation_result
  cond,           \* alerts whose last condition result was true
  raised,         \* alerts that are raised
  connectivity,   \* alerts with connectivity notifications enabled
  led,            \* LED notification of each alert, or Off
  displayed,      \* number of LED notifications added, per kind
  client,         \* history: alerts whose last status message, since they
                  \* were added, said "raised"
  pc,             \* where the event thread is in new_sample_handler
  sample,         \* its arguments
  ready_before,   \* its local variable
  lists_left,     \* lists it still has to walk, the current one first
  node,           \* loop variable of linked_list_for_each
  raising,        \* <<alert, state>> that was notified of but is not yet
                  \* assigned to is_alert_raised, or NoRaise
  fault           \* an EAS_ASSERT failed and the system stopped

alertVars  == <<alert, conditions, lists, live>>
cacheVars  == <<evaluated, previous>>
notifyVars == <<cond, raised, connectivity, led, displayed, client>>
threadVars == <<pc, sample, ready_before, lists_left, node, raising>>
vars == <<received, value, alertVars, cacheVars, notifyVars, threadVars, fault>>

\* A requirement instance: requirement number i of alert a.
Instances(a, reqs) == {<<a, i>> : i \in DOMAIN reqs}

NoNode == <<>>

NoRaise == <<>>

IsSet(a) == alert[a] # NoAlert

Req(r) == alert[r[1]].reqs[r[2]]

AllInstances == UNION {Instances(a, m.reqs) : a \in AlertIds, m \in Messages}

TypeOK ==
  /\ received \subseteq Variables
  /\ value \in [Variables -> Values \cup {Unset}]
  /\ alert \in [AlertIds -> Messages \cup {NoAlert}]
  /\ DOMAIN conditions = AlertIds
  /\ \A a \in AlertIds : Requirements(conditions[a]) \subseteq Nat
  /\ DOMAIN lists = Variables
  /\ \A v \in Variables : ToSet(lists[v]) \subseteq AllInstances
  /\ live \cup evaluated \cup previous \subseteq AllInstances
  /\ cond \cup raised \cup connectivity \cup client \subseteq AlertIds
  /\ led \in [AlertIds -> Kinds \cup {Off}]
  /\ displayed \in [Kinds -> Int]
  /\ pc \in {"idle", "set", "evaluate"}
  /\ sample \in [var : Variables, val : Values]
  /\ ready_before \in BOOLEAN
  /\ ToSet(lists_left) \subseteq Variables
  /\ node \in AllInstances \cup {NoNode}
  /\ raising \in (AlertIds \X BOOLEAN) \cup {NoRaise}
  /\ fault \in BOOLEAN

Init ==
  /\ received = {}
  /\ value = [v \in Variables |-> Unset]
  /\ alert = [a \in AlertIds |-> NoAlert]
  /\ conditions = [a \in AlertIds |-> Reset.items]
  /\ lists = [v \in Variables |-> <<>>]
  /\ live = {}
  /\ evaluated = {} /\ previous = {}
  /\ cond = {} /\ raised = {}
  /\ connectivity = {}
  /\ led = [a \in AlertIds |-> Off]
  /\ displayed = [k \in Kinds |-> 0]
  /\ client = {}
  /\ pc = "idle"
  /\ sample \in [var : {Head(VariableOrder)}, val : {CHOOSE x \in Values : TRUE}]
  /\ ready_before = FALSE
  /\ lists_left = <<>>
  /\ node = NoNode
  /\ raising = NoRaise
  /\ fault = FALSE

-----------------------------------------------------------------------------
(* Helpers                                                                  *)

\* alert_evaluation_readiness_is_ready
IsReady == received = Variables

With(S, x, in) == IF in THEN S \cup {x} ELSE S \ {x}

\* The evaluate function of a <variable>_requirement.
Satisfied(req) ==
  /\ value[req.var] # Unset
  /\ IF req.operator = "geq" THEN value[req.var] >= req.bound ELSE value[req.var] <= req.bound

\* variable_requirement_evaluate for the instances in S, whose requirements are
\* in `reqs': the cached results afterwards, when the caches were ev and prev.
Cached(S, reqs, ev, prev) ==
  /\ evaluated' = ev \cup S
  /\ previous' = (prev \ S) \cup {r \in S : Satisfied(reqs[r[2]])}

\* alert_condition_evaluate of an array whose requirements are in `reqs'.
EvaluateCondition(items, reqs) ==
  Evaluate(items, {i \in DOMAIN reqs : Satisfied(reqs[i])})

\* The asserts of alert_condition_evaluate and value_holder_get.
EvaluateAsserts(items, reqs) ==
  \/ items = <<>>
  \/ \E i \in EvaluateCondition(items, reqs).evaluated : value[reqs[i].var] = Unset

\* Where the notifications of alert a go: the tables of the connectivity and
\* the LED notifier, and what the client knows.
Channels(a) == [connectivity |-> a \in connectivity, led |-> led[a], client |-> client]

\* Mutant: only the raised state is sent.
ConnectivityNotifyRaised(a, is_raised, to) ==
  client' = IF to.connectivity /\ is_raised THEN to.client \cup {a} ELSE to.client

\* connectivity_notifier_notify
ConnectivityNotify(a, is_raised, to) ==
  client' = IF to.connectivity THEN With(to.client, a, is_raised) ELSE to.client

\* led_notifier_notify.  A negative count stands for the failure of the
\* EAS_ASSERT in led_notification_executor_execute.
LedNotify(is_raised, to) ==
  displayed' = IF to.led = Off THEN displayed
               ELSE [displayed EXCEPT ![to.led] = @ + (IF is_raised THEN 1 ELSE -1)]

\* alert_notifier_notify
Notify(a, is_raised, to) == ConnectivityNotify(a, is_raised, to) /\ LedNotify(is_raised, to)

\* alert_raiser_set_alert_condition_result, as AlertLifecycle!Evaluate: the
\* raiser follows at once or later.
SetAlertConditionResult(a, result, to) ==
  /\ cond' = With(cond, a, result)
  /\ \/ UNCHANGED <<raised, displayed>> /\ client' = to.client
     \/ /\ ~(a \in raised <=> result)
        /\ raised' = With(raised, a, result)
        /\ Notify(a, result, to)

\* The same on the event thread, up to the assignment of is_alert_raised: the
\* notification comes first, and the Bluetooth thread may preempt in between.
NotifyThenAssign(a, result, to) ==
  /\ cond' = With(cond, a, result)
  /\ UNCHANGED raised
  /\ \/ UNCHANGED <<displayed, raising, client>>
     \/ /\ ~(a \in raised <=> result)
        /\ raising' = <<a, result>>
        /\ Notify(a, result, to)

-----------------------------------------------------------------------------
(* The Bluetooth receive callback: alert_adder and alert_remover.           *)

EventThreadIs(where) == ~fault /\ pc = where /\ raising = NoRaise

MayReceive == ~fault /\ (BluetoothPreempts \/ EventThreadIs("idle"))

\* is_last_in_ored_requirement of the last requirement.  Without requirements the
\* index wraps around and what is read lies outside the array: it may be anything.
LastMark(reqs) == IF reqs = <<>> THEN BOOLEAN ELSE {Last(reqs).last}

\* Mutant: the number of requirements is not checked.
IsAlertConditionValidIfEmpty(reqs) == \E last \in LastMark(reqs) : last

\* is_alert_condition_valid
IsAlertConditionValid(reqs) ==
  \E last \in LastMark(reqs) :
    /\ reqs # <<>>
    /\ \A i \in DOMAIN reqs :
         /\ reqs[i].var \in Variables
         /\ reqs[i].operator \in {"geq", "leq"}
         /\ reqs[i].bound \in Values
    /\ last

\* alert_validator_is_alert_id_valid
IsAlertIdValid(id) == id <= MaxAlertId

\* Mutant: any colour and pattern is taken.
IsLedValidAlways(m) == TRUE

\* is_led_color_valid, is_led_pattern_valid, which matter when LED notifications
\* are enabled
IsLedValid(m) == m.led = Off \/ m.led \in Kinds

\* is_notification_type_valid
IsNotificationTypeValid(m) == m.connectivity \/ m.led # Off

\* alert_validator_is_alert_valid
IsAlertValid(id, m) ==
  /\ IsAlertIdValid(id)
  /\ IsNotificationTypeValid(m)
  /\ IsLedValid(m)
  /\ IsAlertConditionValid(m.reqs)

\* One turn of the loop of the adder over the requirements of the message:
\* what it does to condition c.
BuildElement(c, reqs, i) ==
  LET added == AddVariableRequirement(c, i)
  IN  IF reqs[i].last THEN StartNewOredRequirement(added) ELSE added

\* The condition after each number of turns.
BuildLoop(reqs) ==
  LET c[i \in 0..Len(reqs)] == IF i = 0 THEN Reset ELSE BuildElement(c[i - 1], reqs, i)
  IN  c

BuildCondition(reqs) == BuildLoop(reqs)[Len(reqs)]

\* variable_requirement_list_add prepends each requirement to the list of its
\* variable: what becomes of the list l of variable v, after each number of turns.
PrependLoop(a, reqs, v, l) ==
  LET extended[i \in 0..Len(reqs)] ==
        IF i = 0 THEN l
        ELSE IF reqs[i].var = v THEN <<<<a, i>>>> \o extended[i - 1] ELSE extended[i - 1]
  IN  extended

Prepend(a, reqs, v) == PrependLoop(a, reqs, v, lists[v])[Len(reqs)]

\* alert_adder_add_alert.  An alert that is not valid, or whose id is taken,
\* changes nothing.
AddAlert(id, m) ==
  LET items == BuildCondition(m.reqs).items
      fresh == Instances(id, m.reqs)
      to    == [connectivity |-> id \in connectivity', led |-> led'[id],
                client |-> client \ {id}]
  IN
  /\ MayReceive
  /\ IsAlertValid(id, m) /\ ~IsSet(id)
  /\ connectivity' = IF m.connectivity THEN connectivity \cup {id} ELSE connectivity
  /\ led' = IF m.led # Off THEN [led EXCEPT ![id] = m.led] ELSE led
  /\ alert' = [alert EXCEPT ![id] = m]
  /\ conditions' = [conditions EXCEPT ![id] = items]
  /\ lists' = [v \in Variables |-> Prepend(id, m.reqs, v)]
  /\ live' = live \cup fresh
  /\ IF IsReady
     THEN LET e == EvaluateCondition(items, m.reqs) IN
          /\ Cached({<<id, i>> : i \in e.evaluated}, m.reqs,
                    evaluated \ fresh, previous \ fresh)
          /\ SetAlertConditionResult(id, e.result, to)
          /\ fault' = EvaluateAsserts(items, m.reqs)
     ELSE /\ Cached({}, m.reqs, evaluated \ fresh, previous \ fresh)
          /\ client' = to.client
          /\ UNCHANGED <<cond, raised, displayed, fault>>
  /\ UNCHANGED <<received, value, threadVars>>

\* What is kept of list l without the nodes of alert a, after each number of nodes.
RemoveLoop(a, l) ==
  LET kept[i \in 0..Len(l)] ==
        IF i = 0 THEN <<>>
        ELSE IF l[i][1] # a THEN Append(kept[i - 1], l[i]) ELSE kept[i - 1]
  IN  kept

\* variable_requirement_list_remove_all_for_alert
RemoveAllForAlert(a, v) == RemoveLoop(a, lists[v])[Len(lists[v])]

\* Mutant: the LED notifications are disabled before the alert is silenced.
SilenceRemovedWithoutLed(a) == Notify(a, FALSE, [Channels(a) EXCEPT !.connectivity = FALSE, !.led = Off])

\* Mutant: connectivity notifications are disabled too late.
SilenceRemovedWithMessage(a) == Notify(a, FALSE, Channels(a))

\* What alert_raiser_unset_alert notifies for a raised alert that is removed:
\* its connectivity notifications have been disabled, its LED notifications
\* are still enabled.
SilenceRemoved(a) == Notify(a, FALSE, [Channels(a) EXCEPT !.connectivity = FALSE])

\* alert_remover_remove_alert.  An id that is not valid, or has no alert,
\* changes nothing.
RemoveAlert(id) ==
  /\ MayReceive
  /\ IsAlertIdValid(id) /\ IsSet(id)
  /\ connectivity' = connectivity \ {id}
  /\ cond' = cond \ {id}
  /\ IF id \in raised THEN SilenceRemoved(id) ELSE UNCHANGED <<client, displayed>>
  /\ raised' = raised \ {id}
  /\ alert' = [alert EXCEPT ![id] = NoAlert]
  /\ led' = [led EXCEPT ![id] = Off]
  /\ lists' = [v \in Variables |-> RemoveAllForAlert(id, v)]
  /\ live' = live \ {<<id, i>> : i \in Requirements(conditions[id])}
  /\ conditions' = [conditions EXCEPT ![id] = Reset.items]
  /\ UNCHANGED <<received, value, cacheVars, threadVars, fault>>

-----------------------------------------------------------------------------
(* The event thread: sample events and timer callbacks.                     *)

FirstNode(l) == IF l = <<>> THEN NoNode ELSE Head(l)

NodeAfter(l, r) ==
  LET i == SelectInSeq(l, LAMBDA x : x = r) IN IF i < Len(l) THEN l[i + 1] ELSE NoNode

\* The thread starts to walk the lists in ls, or is done.
WalkLists(ls) ==
  /\ lists_left' = ls
  /\ pc' = IF ls = <<>> THEN "idle" ELSE "evaluate"
  /\ node' = IF ls = <<>> THEN NoNode ELSE FirstNode(lists[Head(ls)])

\* alert_evaluation_readiness_notify_received_<variable>_sample
NotifyReceivedSample(v) == received' = received \cup {v}

\* new_sample_handler up to set_current_sample_value.
NewSample(v, x) ==
  /\ EventThreadIs("idle")
  /\ pc' = "set"
  /\ sample' = [var |-> v, val |-> x]
  /\ ready_before' = IsReady
  /\ NotifyReceivedSample(v)
  /\ UNCHANGED <<value, alertVars, cacheVars, notifyVars, lists_left, node, raising,
                 fault>>

\* Mutant: the sample that makes the evaluation ready is treated as any other.
ListsToWalkOwnOnly(changed) == IF IsReady /\ changed THEN <<sample.var>> ELSE <<>>

\* The branches of new_sample_handler: all variables' lists for the sample that
\* completes the set of variables, the list of its own variable for a sample
\* that changed the value.
ListsToWalk(changed) ==
  CASE IsReady /\ ~ready_before           -> VariableOrder
    [] IsReady /\ ready_before /\ changed -> <<sample.var>>
    [] OTHER                              -> <<>>

\* The value_changed of value_holder_set, which value_holder_is_value_changed
\* returns, when variable v is set to x.
IsValueChanged(v, x) == value[v] # x

\* set_current_sample_value and the branch after it.
SetCurrentValue ==
  /\ EventThreadIs("set")
  /\ value' = [value EXCEPT ![sample.var] = sample.val]
  /\ WalkLists(ListsToWalk(IsValueChanged(sample.var, sample.val)))
  /\ UNCHANGED <<received, alertVars, cacheVars, notifyVars, sample, ready_before, raising,
                 fault>>

\* variable_requirement_is_result_changed, after an evaluation of instance r.
IsResultChanged(r) == r \notin evaluated \/ ~(r \in previous <=> Satisfied(Req(r)))

\* evaluate_variable_requirement for the node at hand, then node = node->next.
\* The memory of a node that was freed has no defined content.
EvaluateVariableRequirement ==
  /\ EventThreadIs("evaluate")
  /\ node \in live /\ node \in ToSet(lists[Head(lists_left)])
  /\ node' = NodeAfter(lists[Head(lists_left)], node)
  /\ LET a == node[1]
         reqs == alert[a].reqs
         e == EvaluateCondition(conditions[a], reqs)
     IN IF IsResultChanged(node)
        THEN /\ Cached({node} \cup {<<a, i>> : i \in e.evaluated}, reqs, evaluated, previous)
             /\ NotifyThenAssign(a, e.result, Channels(a))
             /\ fault' = EvaluateAsserts(conditions[a], reqs)
        ELSE /\ Cached({node}, reqs, evaluated, previous)
             /\ UNCHANGED <<cond, raised, raising, client, displayed, fault>>
  /\ UNCHANGED <<received, value, alertVars, connectivity, led, pc, sample, ready_before,
                 lists_left>>

\* The end of a list, and the next one.
NextList ==
  /\ EventThreadIs("evaluate") /\ node = NoNode
  /\ WalkLists(Tail(lists_left))
  /\ UNCHANGED <<received, value, alertVars, cacheVars, notifyVars, sample, ready_before, raising,
                 fault>>

\* Mutant: the state is changed whatever the condition says now.
PeriodExpiredUnchecked(a) ==
  /\ EventThreadIs("idle")
  /\ IsSet(a)
  /\ raising' = <<a, a \notin raised>>
  /\ Notify(a, a \notin raised, Channels(a))
  /\ UNCHANGED <<received, value, alertVars, cacheVars, cond, raised, connectivity, led, pc,
                 sample, ready_before, lists_left, node, fault>>

\* A warmup or cooldown period ends: AlertLifecycle!Correct, up to the
\* assignment of is_alert_raised.
PeriodExpired(a) ==
  /\ EventThreadIs("idle")
  /\ IsSet(a)
  /\ ~(a \in raised <=> a \in cond)
  /\ NotifyThenAssign(a, a \in cond, Channels(a))
  /\ UNCHANGED <<received, value, alertVars, cacheVars, connectivity, led, pc, sample,
                 ready_before, lists_left, node, fault>>

\* The assignment of is_alert_raised after alert_notifier_notify, whatever has
\* happened to the alert in between.
AssignIsAlertRaised ==
  /\ ~fault /\ raising # NoRaise
  /\ raised' = With(raised, raising[1], raising[2])
  /\ raising' = NoRaise
  /\ UNCHANGED <<received, value, alertVars, cacheVars, cond, connectivity, led, displayed,
                 client, pc, sample, ready_before, lists_left, node, fault>>

Next ==
  \/ \E id \in MessageIds, m \in Messages : AddAlert(id, m)
  \/ \E id \in MessageIds : RemoveAlert(id)
  \/ \E v \in Variables, x \in Values : NewSample(v, x)
  \/ SetCurrentValue
  \/ EvaluateVariableRequirement
  \/ NextList
  \/ \E a \in AlertIds : PeriodExpired(a)
  \/ AssignIsAlertRaised

Spec == Init /\ [][Next]_vars

-----------------------------------------------------------------------------
(* Properties                                                               *)

\* The condition of a message, read as its format defines it: every group of
\* requirements, up to one that is the last of its group, has a satisfied one.
Truth(reqs) ==
  \A g \in DOMAIN reqs : reqs[g].last =>
    \E i \in 1..g : Satisfied(reqs[i]) /\ \A j \in i..g - 1 : ~reqs[j].last

\* No change of a condition is missed.  The sample handler re-evaluates a
\* condition only when the cached result of one of its requirements changes,
\* and evaluations skip requirements; still, between events the raiser of each
\* alert has the result that its condition has for the current values.
ConditionsUpToDate ==
  pc = "idle" => \A a \in AlertIds :
    a \in cond <=> IsSet(a) /\ IsReady /\ Truth(alert[a].reqs)

\* What makes that possible: between events a requirement instance either has
\* never been evaluated or caches its current result, also when its alert was
\* added anew or its variable's list was not walked.
CachesAreCurrent ==
  pc = "idle" => \A r \in live \cap evaluated :
    IsReady /\ (r \in previous <=> Satisfied(Req(r)))

\* Both together: between events nothing that was derived from samples is out
\* of date, neither the condition results the raisers were given nor the results
\* of single requirements that decide what the next sample re-evaluates.
EvaluationIsCurrent == ConditionsUpToDate /\ CachesAreCurrent

\* Requirement instances and list nodes are neither leaked nor freed too early:
\* those of the alerts that are set, each once in the list of its variable,
\* and in the condition of its alert.  The array of the condition is large enough
\* "to always be able to store CONFIG_ALERT_CONDITION_MAX_NUM_VARIABLE_REQUIREMENTS
\* variable requirements" (alert_condition.c).
RequirementsAccounted ==
  /\ live = UNION {Instances(a, alert[a].reqs) : a \in {b \in AlertIds : IsSet(b)}}
  /\ \A v \in Variables :
       /\ IsInjective(lists[v])
       /\ ToSet(lists[v]) = {r \in live : Req(r).var = v}
  /\ \A a \in AlertIds :
       /\ {<<a, i>> : i \in Requirements(conditions[a])} = {r \in live : r[1] = a}
       /\ Len(conditions[a]) <= MaxRequirements + (MaxRequirements - 1)

\* The LED manager holds one notification for each raised alert that has LED
\* notifications enabled, in its colour: none is left behind by a removal, also
\* one that comes between a notification and the assignment of is_alert_raised,
\* and none of an earlier alert with the same id is taken away.
LedShowsRaisedAlerts ==
  raising = NoRaise => \A k \in Kinds : displayed[k] = Cardinality({a \in raised : led[a] = k})

\* A client that asked for connectivity notifications knows the state of each
\* alert it added.
ClientKnowsState ==
  raising = NoRaise => \A a \in connectivity : a \in client <=> a \in raised

\* No EAS_ASSERT of the modelled functions fails: no value is read before it
\* was set (value_holder_get), no empty condition is evaluated, and every LED
\* notification to be removed is there.
NoAssertFails == ~fault /\ \A k \in Kinds : displayed[k] >= 0

\* The walk of a requirement list never stands on a node that was freed.
WalkedNodeIsAlive ==
  pc = "evaluate" /\ node # NoNode =>
    node \in live /\ node \in ToSet(lists[Head(lists_left)])

\* alert_remover.c: "we do not want to send a connectivity notification that it
\* is now silenced, because the alert is being removed anyway".
RemovalIsQuiet ==
  [][\A a \in AlertIds : IsSet(a) /\ ~IsSet(a)' => client' = client]_vars

Lifecycle(a) == INSTANCE AlertLifecycle WITH
  set <- IsSet(a), cond <- a \in cond, raised <- a \in raised

\* Every alert lives the life that AlertRaiser implements, with conditions that
\* come from samples and with ids that are used again and again.
AlertsFollowLifecycle ==
  /\ \A a \in AlertIds : Lifecycle(a)!Init
  /\ [][\A a \in AlertIds : [Lifecycle(a)!Next]_(Lifecycle(a)!vars)]_vars
=============================================================================
