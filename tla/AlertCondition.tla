---------------------------- MODULE AlertCondition ----------------------------
(***************************************************************************)
(* The alert condition (app/alert_condition.c): requirements that are ORed *)
(* in groups and groups that are ANDed, kept in one array in which NULL    *)
(* stands for an AND.  A requirement is its number in the message that     *)
(* added the alert.                                                        *)
(***************************************************************************)
EXTENDS Integers, SequencesExt

\* The array element that stands for a logical AND.
NULL == 0

\* alert_condition_create, alert_condition_reset
Reset == [items |-> <<>>, insert_and |-> FALSE]

\* alert_condition_add_variable_requirement: the AND that was asked for is put
\* in front of the requirement, unless the requirement is the first one.
AddVariableRequirement(c, r) ==
  [items |-> IF c.insert_and /\ c.items # <<>> THEN Append(Append(c.items, NULL), r)
             ELSE Append(c.items, r),
   insert_and |-> FALSE]

\* Mutant: the AND is stored at once, also behind the last group.
StartNewOredRequirementStoresAnd(c) == [c EXCEPT !.items = Append(@, NULL)]

\* alert_condition_start_new_ored_requirement
StartNewOredRequirement(c) == [items |-> c.items, insert_and |-> TRUE]

\* One turn of the loops of alert_condition_evaluate and
\* evaluate_ored_requirement, for array element r, when the requirements in
\* `holds' are satisfied.  A group is left alone once one of its requirements is
\* true, and the function returns at the end of the first group that is false.
EvaluateElement(loop, r, holds) ==
  IF loop.returned \/ (loop.ored /\ r # NULL) THEN loop
  ELSE IF r # NULL
  THEN [loop EXCEPT !.ored = r \in holds, !.evaluated = @ \cup {r}]
  ELSE [loop EXCEPT !.ored = FALSE, !.returned = ~loop.ored]

\* The state of the loops after each number of elements.
EvaluateLoop(items, holds) ==
  LET loop[n \in 0..Len(items)] ==
        IF n = 0 THEN [ored |-> FALSE, returned |-> FALSE, evaluated |-> {}]
        ELSE EvaluateElement(loop[n - 1], items[n], holds)
  IN  loop

\* alert_condition_evaluate with evaluate_ored_requirement: the result, and the
\* requirements that were evaluated on the way.
Evaluate(items, holds) ==
  LET loop == EvaluateLoop(items, holds)[Len(items)]
  IN  [result |-> ~loop.returned /\ loop.ored, evaluated |-> loop.evaluated]

\* alert_condition_for_each visits these.
Requirements(items) == ToSet(items) \ {NULL}
===============================================================================
