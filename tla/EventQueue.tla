------------------------------ MODULE EventQueue ------------------------------
(***************************************************************************)
(* The central event queue (app/glue/central_event_queue.c) on the message *)
(* queue of the Zephyr port (osal/eas_message_queue/zephyr), which frames  *)
(* messages in a k_pipe: a size byte, then the bytes of the message, each  *)
(* written by a call of its own.                                           *)
(*                                                                         *)
(* Contexts are numbered by priority: 1 is the event thread, whose         *)
(* handlers submit events too; higher numbers are the Bluetooth threads    *)
(* and interrupts.  A context interrupts lower ones at any point, also     *)
(* between the two writes of a push, and runs until its own push is done.  *)
(***************************************************************************)
EXTENDS Integers, SequencesExt

CONSTANTS
  Events,        \* events, by what their bytes are
  Size,          \* Size[e]: sizeof of the event's struct; sizes are uint8_t
  NoEvent,       \* the event thread is waiting for an event
  Garbage,       \* bytes that are not an event as it was pushed
  Capacity,      \* CONFIG_CENTRAL_EVENT_QUEUE_MESSAGE_QUEUE_BUF_SIZE
  Contexts       \* 1 .. number of priorities

MaxSize == Max({Size[e] : e \in Events})

ASSUME ConstantsAssumption ==
  /\ Events # {} /\ Size \in [Events -> 1..255]
  /\ NoEvent \notin Events /\ Garbage \notin Events /\ NoEvent # Garbage
  /\ Capacity \in Nat
  /\ Contexts \subseteq Nat \ {0}

VARIABLES
  pipe,       \* bytes in the k_pipe: <<e, 0>> is the size byte of event e,
              \* <<e, i>> its i-th byte
  pushing,    \* contexts inside eas_message_queue_push, the running one last
  pc,         \* event thread: "size", "body" (in eas_message_queue_pop),
              \* "handle"
  wanted,     \* message_size in eas_message_queue_pop
  current,    \* the event that is being handled
  fault,      \* the EAS_ASSERT that stopped the system, or "none"
  torn        \* history, not a variable of the program: where in the pipe the
              \* size byte of the first push is that was interrupted by another
              \* one; 0 once it has been read, Never before that happens

vars == <<pipe, pushing, pc, wanted, current, fault, torn>>

Never == -1

Bytes == {<<e, i>> : e \in Events, i \in 0..MaxSize}

TypeOK ==
  /\ pipe \in Seq(Bytes)
  /\ Len(pipe) <= Capacity
  /\ pushing \in Seq([context : Contexts, event : Events])
  /\ pc \in {"size", "body", "handle"}
  /\ wanted \in 0..MaxSize
  /\ current \in Events \cup {NoEvent, Garbage}
  /\ fault \in {"none", "full", "size", "event"}
  /\ torn \in {Never} \cup 0..Capacity

\* central_event_queue_init
Init ==
  /\ pipe = <<>>
  /\ pushing = <<>>
  /\ pc = "size"
  /\ wanted = 0
  /\ current = NoEvent
  /\ fault = "none"
  /\ torn = Never

-----------------------------------------------------------------------------
(* central_event_queue_submit_*: push_event_to_queue and                    *)
(* eas_message_queue_push.                                                  *)

Body(e) == [i \in 1..Size[e] |-> <<e, i>>]

\* Context c may run: it interrupts whoever is pushing, and the event thread
\* pushes from its handlers only.
MayPush(c) ==
  /\ fault = "none"
  /\ c = 1 => pc = "handle"
  /\ pushing # <<>> => Last(pushing).context < c

\* A push that begins now is the first one to interrupt another; what it
\* interrupts has just written its size byte, the last byte in the pipe.
Tears == torn = Never /\ pushing # <<>>

\* Mutant: the size byte is written whether it fits or not.
PushSizeUnchecked(c, e) ==
  /\ MayPush(c)
  /\ pipe' = Append(pipe, <<e, 0>>)
  /\ pushing' = Append(pushing, [context |-> c, event |-> e])
  /\ torn' = IF Tears THEN Len(pipe) ELSE torn
  /\ UNCHANGED <<pc, wanted, current, fault>>

\* The first k_pipe_write: the size byte.
PushSize(c, e) ==
  /\ MayPush(c)
  /\ IF Len(pipe) < Capacity
     THEN /\ pipe' = Append(pipe, <<e, 0>>)
          /\ pushing' = Append(pushing, [context |-> c, event |-> e])
          /\ torn' = IF Tears THEN Len(pipe) ELSE torn
          /\ UNCHANGED fault
     ELSE /\ fault' = "full"
          /\ UNCHANGED <<pipe, pushing, torn>>
  /\ UNCHANGED <<pc, wanted, current>>

\* Mutant: a message that does not fit is cut off without an error.
PushBodyTruncates ==
  LET body == Body(Last(pushing).event)
      room == Capacity - Len(pipe)
  IN
  /\ fault = "none" /\ pushing # <<>>
  /\ pushing' = Front(pushing)
  /\ pipe' = pipe \o SubSeq(body, 1, Min({room, Len(body)}))
  /\ UNCHANGED <<pc, wanted, current, fault, torn>>

\* The second k_pipe_write: the bytes of the message, as many as fit.
PushBody ==
  LET body == Body(Last(pushing).event)
      room == Capacity - Len(pipe)
  IN
  /\ fault = "none" /\ pushing # <<>>
  /\ pushing' = Front(pushing)
  /\ pipe' = pipe \o SubSeq(body, 1, Min({room, Len(body)}))
  /\ fault' = IF room < Len(body) THEN "full" ELSE fault
  /\ UNCHANGED <<pc, wanted, current, torn>>

-----------------------------------------------------------------------------
(* central_event_queue_thread_run and eas_message_queue_pop.                *)

\* The event thread runs when nobody interrupts it.
ThreadRuns == fault = "none" /\ pushing = <<>>

\* Where the torn message is once n bytes have been read.
TornAfter(n) == IF torn = Never THEN Never ELSE IF torn > n THEN torn - n ELSE 0

\* The first k_pipe_read: one byte, taken for a size.  A byte that is none may
\* have any value; one that is larger than MaxSize fails the assert.
PopSize ==
  /\ ThreadRuns /\ pc = "size" /\ pipe # <<>>
  /\ pipe' = Tail(pipe)
  /\ \E size \in IF Head(pipe)[2] = 0 THEN {Size[Head(pipe)[1]]} ELSE 0..MaxSize + 1 :
       IF size <= MaxSize
       THEN wanted' = size /\ pc' = "body" /\ UNCHANGED fault
       ELSE fault' = "size" /\ UNCHANGED <<wanted, pc>>
  /\ torn' = TornAfter(1)
  /\ UNCHANGED <<pushing, current>>

\* The second k_pipe_read waits for all the bytes; then the handler of the
\* event is called.
PopBody ==
  /\ ThreadRuns /\ pc = "body" /\ Len(pipe) >= wanted
  /\ LET read == SubSeq(pipe, 1, wanted)
         is   == {e \in Events : read = Body(e)}
     IN current' = IF is = {} THEN Garbage ELSE CHOOSE e \in is : TRUE
  /\ pipe' = SubSeq(pipe, wanted + 1, Len(pipe))
  /\ pc' = "handle"
  /\ wanted' = 0
  /\ torn' = TornAfter(wanted)
  /\ UNCHANGED <<pushing, fault>>

\* Mutant: the thread function returns after the handler.
HandledReturns ==
  /\ ThreadRuns /\ pc = "handle"
  /\ current' = NoEvent
  /\ UNCHANGED <<pipe, pushing, pc, wanted, fault, torn>>

\* The handler is done.  What bytes that are no event lead to is left open: the
\* asserts on id and size may stop the system.
Handled ==
  /\ ThreadRuns /\ pc = "handle"
  /\ pc' = "size" /\ current' = NoEvent
  /\ fault' \in IF current = Garbage THEN {"none", "event"} ELSE {"none"}
  /\ UNCHANGED <<pipe, pushing, wanted, torn>>

Next ==
  \/ \E c \in Contexts, e \in Events : PushSize(c, e)
  \/ PushBody
  \/ PopSize
  \/ PopBody
  \/ Handled

Spec == Init /\ [][Next]_vars

\* A context that pushes goes on; the event thread gets to run between
\* interrupts, however often they come.
Fairness ==
  /\ WF_vars(PushBody)
  /\ SF_vars(PopSize) /\ SF_vars(PopBody) /\ SF_vars(Handled)

FairSpec == Spec /\ Fairness

-----------------------------------------------------------------------------
(* Properties                                                               *)

\* eas_message_queue.h: "This function is thread-safe - it is allowed to push to
\* the same queue from different contexts - both threads and ISRs."  Whatever
\* is popped is an event as it was pushed, and no byte of a body is taken for
\* a size.
FramesStayWhole == current # Garbage /\ fault \notin {"size", "event"}

\* The events of which the last byte is among the first n bytes of p.
Complete(p) ==
  LET complete[n \in 0..Len(p)] ==
        IF n = 0 THEN <<>>
        ELSE IF p[n][2] = Size[p[n][1]] THEN Append(complete[n - 1], p[n][1])
        ELSE complete[n - 1]
  IN complete

\* The pipe up to the first message that another push was written into.
Sound == IF torn = Never THEN pipe ELSE SubSeq(pipe, 1, torn - 1)

\* The events that are completely in that part.
Waiting == Complete(Sound)[Len(Sound)]

Fifo == INSTANCE EventFifo WITH fifo <- Waiting

\* The two-part pushes and pops are those of a FIFO queue of events until the
\* thread gets to a message that another push was written into: every event
\* before that one is taken whole, once and in order, whatever contexts push
\* and interrupt each other meanwhile, and a push that fails for want of space
\* leaves no trace.
FifoUpToTear == Fifo!Init /\ [][torn # 0 => [Fifo!Next]_(Fifo!vars)]_vars

\* Each of those events is handled, unless the system stops.
EveryEventIsHandled ==
  \A e \in Events : (e \in ToSet(Waiting)) ~> (current = e \/ fault # "none")
===============================================================================
