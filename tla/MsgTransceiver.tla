---------------------------- MODULE MsgTransceiver ----------------------------
(***************************************************************************)
(* How alert status messages are sent: the message slots of                *)
(* app/middleware/msg_transceiver.c, the transmit callback blocks of       *)
(* virtual_devices/nrf_ble, and the Bluetooth stack behind eass_send.      *)
(*                                                                         *)
(* A message stands for the "message sent" callback that is passed with    *)
(* it.  The event thread looks for a slot and occupies it in two steps; an *)
(* alert that is added on the Bluetooth thread and raised at once sends    *)
(* from that thread, which runs in between when BluetoothPreempts holds.   *)
(* Completions are executed by the stack in any order.                     *)
(***************************************************************************)
EXTENDS Integers, FiniteSets

CONSTANTS
  NumSlots,            \* MSG_TRANSCEIVER_NUM_MSG_SLOTS
  NumBlocks,           \* CONFIG_TRANSMIT_CB_DATA_ALLOCATOR_NUM_BLOCKS
  Messages,            \* messages with their callbacks
  Free,                \* an unoccupied slot, a free block
  SendMayFail,         \* bt_gatt_notify_cb may return an error
  MayDeinit,           \* msg_transceiver_deinit is called
  BluetoothPreempts

Slots == 1..NumSlots
Blocks == 1..NumBlocks

ASSUME ConstantsAssumption ==
  /\ NumSlots \in Nat \ {0}
  /\ NumBlocks \in Nat /\ NumBlocks >= NumSlots
  /\ Free \notin Messages /\ Free \notin Slots
  /\ {SendMayFail, MayDeinit, BluetoothPreempts} \subseteq BOOLEAN

VARIABLES
  initialized,
  slot,        \* occupant of each message slot, or Free
  block,       \* user_data of each transmit block: the slot, or Free
  carries,     \* history: the message a block was allocated for
  in_flight,   \* blocks the stack holds and will complete
  status,      \* "new", "sending", or "done": the callback was executed
  sending,     \* message the event thread has found a slot for, or Free
  found,       \* that slot (local variable of the send function), or Free
  overtaken,   \* history: the module was deinitialized with blocks allocated
  fault        \* an EAS_ASSERT failed and the system stopped

vars == <<initialized, slot, block, carries, in_flight, status, sending, found,
          overtaken, fault>>

TypeOK ==
  /\ initialized \in BOOLEAN
  /\ slot \in [Slots -> Messages \cup {Free}]
  /\ block \in [Blocks -> Slots \cup {Free}]
  /\ carries \in [Blocks -> Messages \cup {Free}]
  /\ in_flight \subseteq Blocks
  /\ status \in [Messages -> {"new", "sending", "done"}]
  /\ sending \in Messages \cup {Free}
  /\ found \in Slots \cup {Free}
  /\ overtaken \in BOOLEAN
  /\ fault \in BOOLEAN

\* After msg_transceiver_init.
Init ==
  /\ initialized = TRUE
  /\ slot = [s \in Slots |-> Free]
  /\ block = [b \in Blocks |-> Free]
  /\ carries = [b \in Blocks |-> Free]
  /\ in_flight = {}
  /\ status = [m \in Messages |-> "new"]
  /\ sending = Free
  /\ found = Free
  /\ overtaken = FALSE
  /\ fault = FALSE

-----------------------------------------------------------------------------
(* Sending                                                                  *)

Unoccupied == {s \in Slots : slot[s] = Free}

\* Mutant: the loop goes one slot too far.
FindEmptyMessageSlotPastEnd == IF Unoccupied = {} THEN NumSlots + 1
                               ELSE CHOOSE s \in Unoccupied : \A t \in Unoccupied : s <= t

\* find_empty_message_slot
FindEmptyMessageSlot == IF Unoccupied = {} THEN Free
                        ELSE CHOOSE s \in Unoccupied : \A t \in Unoccupied : s <= t

\* eass_send: the stack takes the notification and will complete it, or it
\* refuses it.
EassSend(b) ==
  \/ in_flight' = in_flight \cup {b}
  \/ SendMayFail /\ UNCHANGED in_flight

\* Mutant: the user data is the slot array, that is its first slot, and not the
\* slot that was found.
TransmitFirstSlot(m, s) ==
  LET free == {b \in Blocks : block[b] = Free} IN
  IF free = {}
  THEN fault' = TRUE /\ UNCHANGED <<block, carries, in_flight>>
  ELSE \E b \in free :
         /\ block' = [block EXCEPT ![b] = 1]
         /\ carries' = [carries EXCEPT ![b] = m]
         /\ EassSend(b)
         /\ UNCHANGED fault

\* transceiver_transmit: a block for the completion callback, which stays
\* allocated when eass_send fails.
Transmit(m, s) ==
  LET free == {b \in Blocks : block[b] = Free} IN
  IF free = {}
  THEN fault' = TRUE /\ UNCHANGED <<block, carries, in_flight>>
  ELSE \E b \in free :
         /\ block' = [block EXCEPT ![b] = s]
         /\ carries' = [carries EXCEPT ![b] = m]
         /\ EassSend(b)
         /\ UNCHANGED fault

\* The send function once it knows the slot s.
Occupy(m, s) ==
  IF s = Free
  THEN \* All slots are full: cb(false) at once.
       /\ status' = [status EXCEPT ![m] = "done"]
       /\ UNCHANGED <<slot, block, carries, in_flight, fault>>
  ELSE /\ slot' = [slot EXCEPT ![s] = m]
       /\ status' = [status EXCEPT ![m] = "sending"]
       /\ Transmit(m, s)

CanSend(m) == ~fault /\ initialized /\ status[m] = "new" /\ sending # m

\* msg_transceiver_send_alert_status_change_message on the event thread: it
\* looks for a slot ...
BeginSend(m) ==
  /\ CanSend(m) /\ sending = Free
  /\ sending' = m
  /\ found' = FindEmptyMessageSlot
  /\ UNCHANGED <<initialized, slot, block, carries, in_flight, status, overtaken, fault>>

\* ... and occupies it.
EndSend ==
  /\ ~fault /\ sending # Free
  /\ Occupy(sending, found)
  /\ sending' = Free
  /\ found' = Free
  /\ UNCHANGED <<initialized, overtaken>>

\* Other threads run while the event thread is not inside the send function,
\* or inside it when they preempt it.
OthersRun == ~fault /\ (sending = Free \/ BluetoothPreempts)

\* The same function on the Bluetooth thread, which the event thread does not
\* interrupt.
SendFromBluetooth(m) ==
  /\ OthersRun
  /\ CanSend(m)
  /\ Occupy(m, FindEmptyMessageSlot)
  /\ UNCHANGED <<initialized, sending, found, overtaken>>

-----------------------------------------------------------------------------
(* Completion                                                               *)

\* Mutant: the slot is given back without a callback.
TransmitCompleteWithoutCallback(s) ==
  slot' = [slot EXCEPT ![s] = Free] /\ UNCHANGED status

\* transmit_complete_cb: the callback of the message in the slot is executed,
\* unless the slot is unoccupied.
TransmitComplete(s) ==
  IF slot[s] = Free THEN UNCHANGED <<slot, status>>
  ELSE /\ slot' = [slot EXCEPT ![s] = Free]
       /\ status' = [status EXCEPT ![slot[s]] = "done"]

\* Mutant: the block is not given back.
NotifyCompleteKeepsBlock(b) ==
  /\ b \in in_flight /\ OthersRun
  /\ TransmitComplete(block[b])
  /\ in_flight' = in_flight \ {b}
  /\ UNCHANGED <<initialized, block, carries, sending, found, overtaken, fault>>

\* notify_complete_cb: the transmit callback, then the block is freed.
NotifyComplete(b) ==
  /\ b \in in_flight /\ OthersRun
  /\ TransmitComplete(block[b])
  /\ in_flight' = in_flight \ {b}
  /\ block' = [block EXCEPT ![b] = Free]
  /\ carries' = [carries EXCEPT ![b] = Free]
  /\ UNCHANGED <<initialized, sending, found, overtaken, fault>>

\* The sender takes note of the callback and may send again.
Renew(m) ==
  /\ ~fault /\ status[m] = "done"
  /\ status' = [status EXCEPT ![m] = "new"]
  /\ UNCHANGED <<initialized, slot, block, carries, in_flight, sending, found, overtaken, fault>>

\* msg_transceiver_deinit: the callbacks of the messages in the slots "will
\* not be executed anymore".
Deinit ==
  /\ MayDeinit /\ ~fault /\ initialized /\ sending = Free
  /\ initialized' = FALSE
  /\ slot' = [s \in Slots |-> Free]
  /\ status' = [m \in Messages |-> IF status[m] = "sending" THEN "new" ELSE status[m]]
  /\ overtaken' = (overtaken \/ \E b \in Blocks : block[b] # Free)
  /\ UNCHANGED <<block, carries, in_flight, sending, found, fault>>

\* msg_transceiver_init
Reinit ==
  /\ ~fault /\ ~initialized
  /\ initialized' = TRUE
  /\ slot' = [s \in Slots |-> Free]
  /\ UNCHANGED <<block, carries, in_flight, status, sending, found, overtaken, fault>>

Next ==
  \/ \E m \in Messages : BeginSend(m) \/ SendFromBluetooth(m) \/ Renew(m)
  \/ EndSend
  \/ \E b \in Blocks : NotifyComplete(b)
  \/ Deinit
  \/ Reinit

Spec == Init /\ [][Next]_vars

\* The event thread goes on, and the stack completes every notification it has
\* accepted: its thread has the higher priority, so it gets its turn even if
\* the event thread sends again and again.
Fairness == WF_vars(EndSend) /\ \A b \in Blocks : SF_vars(NotifyComplete(b))

FairSpec == Spec /\ Fairness

-----------------------------------------------------------------------------
(* Properties                                                               *)

\* The EAS_ASSERT in transceiver_transmit never fails: there is a transmit
\* block for each message slot, and slots run out first, also when failed
\* transmissions leave both behind.  A deinitialization gives back the slots
\* and not the blocks.
BlocksNeverRunOut == ~overtaken => ~fault

\* Each allocated block leads to a slot that is still occupied by the message
\* the block was allocated for, and no two blocks lead to the same slot, as
\* long as the module is not deinitialized in between.
BlocksLeadToTheirMessages ==
  ~overtaken =>
    /\ \A b \in Blocks : block[b] # Free => slot[block[b]] = carries[b]
    /\ \A b, c \in Blocks : block[b] # Free /\ block[b] = block[c] => b = c

\* Slots and blocks are taken and given back together.
SlotsMatchBlocks == BlocksNeverRunOut /\ BlocksLeadToTheirMessages

\* msg_transceiver.h: the callback is the one "to execute once the message is
\* sent".  A callback is executed when a transmission of its own message
\* completes, or when there is no slot for it, unless a completion from before
\* a deinitialization comes in between.
CallbackOnlyForOwnMessage ==
  [][\A m \in Messages :
       ~overtaken /\ status[m] = "sending" /\ status'[m] = "done" =>
         \E b \in in_flight : carries[b] = m /\ b \notin in_flight']_vars

\* The callback of a message that the stack has taken is executed, or called off
\* by a deinitialization, whatever becomes of other messages, unless the system
\* stops.
AcceptedCallbackIsExecuted ==
  \A m \in Messages :
    (\E b \in in_flight : slot[block[b]] = m) ~> (status[m] # "sending" \/ fault)

\* transceiver.h: "Callback to execute when transmission is complete - either
\* successfully or unsuccessfully."  Every message that is sent has its
\* callback executed in the end.
CallbackIsExecuted ==
  \A m \in Messages : (status[m] = "sending") ~> (status[m] # "sending")
===============================================================================
