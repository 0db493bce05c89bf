------------------------------ MODULE EventFifo ------------------------------
(***************************************************************************)
(* What the central event queue promises (app/glue/central_event_queue.h): *)
(* events are handled one at a time, unchanged, in the order in which they *)
(* were submitted.  The system may stop on a failed assert.                *)
(***************************************************************************)
EXTENDS Sequences

CONSTANTS Events, NoEvent

VARIABLES
  fifo,      \* submitted events that have not been taken
  current    \* the event that was taken last

vars == <<fifo, current>>

Init == fifo = <<>> /\ current = NoEvent

Submit(e) ==
  /\ fifo' = Append(fifo, e)
  /\ UNCHANGED current

Take ==
  /\ fifo # <<>>
  /\ current' = Head(fifo)
  /\ fifo' = Tail(fifo)

\* The event thread has handled the event and waits.
Wait ==
  /\ current' = NoEvent
  /\ UNCHANGED fifo

Next == (\E e \in Events : Submit(e)) \/ Take \/ Wait

Spec == Init /\ [][Next]_vars
===============================================================================
