----------------------------- MODULE LedRotation -----------------------------
(***************************************************************************)
(* What the LED manager promises (app/led_manager.h), without lists,       *)
(* iterators and timers.  `added' counts the notifications of each kind    *)
(* (colour and pattern) that have been added and not removed; `led' is     *)
(* what the LED displays.                                                  *)
(***************************************************************************)
EXTENDS Integers, FiniteSets

CONSTANTS
  Kinds,   \* the colours and patterns a notification may have
  Off      \* the LED displays nothing

VARIABLES added, led

vars == <<added, led>>

\* The kinds that have at least one notification.
Present(count) == {k \in Kinds : count[k] > 0}

Init ==
  /\ added = [k \in Kinds |-> 0]
  /\ led = Off

\* The first notification is displayed at once; a later one waits its turn.
Add(k) ==
  /\ added' = [added EXCEPT ![k] = @ + 1]
  /\ led' = IF led = Off THEN k ELSE led

\* One notification goes; the LED goes on with one that is left.
Remove(k) ==
  /\ added[k] > 0
  /\ added' = [added EXCEPT ![k] = @ - 1]
  /\ IF Present(added') = {} THEN led' = Off ELSE led' \in Present(added')
  /\ led' # led => led' = Off \/ led = k

\* The LED goes on to another of the notifications.
Switch ==
  /\ led # Off
  /\ led' \in Present(added)
  /\ UNCHANGED added

Next ==
  \/ \E k \in Kinds : Add(k) \/ Remove(k)
  \/ Switch

Spec == Init /\ [][Next]_vars
=============================================================================
