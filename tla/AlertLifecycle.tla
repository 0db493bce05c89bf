---------------------------- MODULE AlertLifecycle ----------------------------
(***************************************************************************)
(* What an alert promises to those who add it, as alert_raiser.h states    *)
(* it, with timers, queues and callbacks left out: an added alert starts   *)
(* silenced with a false condition; it is raised only while its condition  *)
(* is true and silenced only while it is false or when it is removed; and  *)
(* an alert that disagrees with its condition does not do so for ever.     *)
(***************************************************************************)
VARIABLES set, cond, raised

vars == <<set, cond, raised>>

Init == set = FALSE /\ cond = FALSE /\ raised = FALSE

Add ==
  /\ ~set
  /\ set' = TRUE /\ cond' = FALSE /\ raised' = FALSE

\* An alert is added and gets its first condition result in one go.
AddEvaluated(result) ==
  /\ ~set
  /\ set' = TRUE
  /\ cond' = result
  /\ raised' \in {FALSE, result}

\* Removing an alert silences it.
Remove ==
  /\ set
  /\ set' = FALSE /\ cond' = FALSE /\ raised' = FALSE

\* A condition result arrives; the alert may follow it at once.
Evaluate(result) ==
  /\ set /\ set' = TRUE
  /\ cond' = result
  /\ raised' \in {raised, result}

\* The alert catches up with its condition.
Correct ==
  /\ set /\ set' = TRUE
  /\ raised # cond
  /\ raised' = cond
  /\ cond' = cond

Next ==
  \/ Add
  \/ Remove
  \/ \E result \in BOOLEAN : AddEvaluated(result) \/ Evaluate(result)
  \/ Correct

SafeSpec == Init /\ [][Next]_vars

Spec == SafeSpec /\ WF_vars(Correct)
===============================================================================
