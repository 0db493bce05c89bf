------------------------ MODULE MsgTransceiverProofs ------------------------
(***************************************************************************)
(* Proofs about MsgTransceiver, for every number of slots, every number of *)
(* blocks that is at least as large, and every set of messages.            *)
(***************************************************************************)
EXTENDS MsgTransceiver, FiniteSetTheorems, TLAPS

-----------------------------------------------------------------------------
(* The inductive invariant                                                  *)

\* The stack completes only what was handed to it.
InFlightIsAllocated == \A b \in in_flight : block[b] # Free

\* Nothing is sent, and no slot is taken, while the module is not initialized.
DeinitializedIsQuiet ==
  ~initialized => sending = Free /\ \A s \in Slots : slot[s] = Free

\* The slot that the event thread found is still unoccupied when it occupies it,
\* and its message has not been sent in the meantime.
FoundIsUnoccupied ==
  sending # Free => /\ initialized /\ status[sending] = "new"
                    /\ found # Free => slot[found] = Free

\* The occupied slots and the allocated blocks are in one-to-one correspondence.
OneBlockPerSlot ==
  ~overtaken =>
    /\ \A b \in Blocks : block[b] # Free =>
         slot[block[b]] = carries[b] /\ carries[b] # Free
    /\ \A b, c \in Blocks : block[b] # Free /\ block[b] = block[c] => b = c
    /\ \A s \in Slots : slot[s] # Free => \E b \in Blocks : block[b] = s

\* The invariant that proves BlocksNeverRunOut and BlocksLeadToTheirMessages.
Safe ==
  /\ InFlightIsAllocated
  /\ DeinitializedIsQuiet
  /\ FoundIsUnoccupied
  /\ OneBlockPerSlot
  /\ BlocksNeverRunOut

-----------------------------------------------------------------------------
(* The slots and the blocks                                                 *)

\* find_empty_message_slot returns an unoccupied slot, or Free if there is none.
LEMMA FindEmptyMessageSlotFacts ==
  /\ FindEmptyMessageSlot \in Slots \cup {Free}
  /\ FindEmptyMessageSlot # Free => slot[FindEmptyMessageSlot] = Free
  <1>1. CASE Unoccupied = {}
    BY <1>1 DEF FindEmptyMessageSlot
  <1>2. CASE Unoccupied # {}
    <2>1. Unoccupied \subseteq Nat
      BY ConstantsAssumption DEF Unoccupied, Slots
    <2>2. PICK s \in Unoccupied : \A t \in Unoccupied : <<t, s>> \notin OpToRel(<, Nat)
      BY <1>2, <2>1, NatLessThanWellFounded, WFMin
    <2>3. \A t \in Unoccupied : s <= t
      <3> SUFFICES ASSUME NEW t \in Unoccupied PROVE s <= t
        OBVIOUS
      <3>1. s \in Nat /\ t \in Nat
        BY <2>1
      <3>2. ~(t < s)
        BY <2>2, <3>1 DEF OpToRel
      <3> QED
        BY <3>1, <3>2
    <2>4. FindEmptyMessageSlot \in Unoccupied
      BY <1>2, <2>3 DEF FindEmptyMessageSlot
    <2> QED
      BY <2>4 DEF Unoccupied
  <1> QED
    BY <1>1, <1>2

\* The pigeonhole argument behind the EAS_ASSERT in transceiver_transmit: while a
\* slot is unoccupied, the allocated blocks lead to different other slots, so one
\* block is free.
LEMMA FreeSlotHasFreeBlock ==
  ASSUME TypeOK, OneBlockPerSlot, ~overtaken, NEW s \in Slots, slot[s] = Free
  PROVE  \E b \in Blocks : block[b] = Free
  <1> SUFFICES ASSUME \A b \in Blocks : block[b] # Free PROVE FALSE
    OBVIOUS
  <1> DEFINE others == Slots \ {s}
  <1>1. NumSlots \in Nat /\ NumBlocks \in Nat /\ NumSlots >= 1 /\ NumBlocks >= NumSlots
    BY ConstantsAssumption
  <1>2. \A b \in Blocks : block[b] \in others
    BY DEF TypeOK, OneBlockPerSlot
  <1>3. block \in Injection(Blocks, others)
    BY <1>2 DEF TypeOK, OneBlockPerSlot, Injection, IsInjective
  <1>4. IsFiniteSet(Slots) /\ Cardinality(Slots) = NumSlots /\ Cardinality(Blocks) = NumBlocks
    BY <1>1, FS_Interval DEF Slots, Blocks
  <1>5. IsFiniteSet(others) /\ Cardinality(others) = NumSlots - 1
    BY <1>4, FS_RemoveElement
  <1>6. Cardinality(Blocks) <= Cardinality(others)
    BY <1>3, <1>5, FS_Injection
  <1> QED
    BY <1>1, <1>4, <1>5, <1>6

-----------------------------------------------------------------------------
(* Type correctness, with and without preemption                            *)

\* The send function keeps the types of what it writes.
LEMMA OccupyTypes ==
  ASSUME TypeOK, NEW m \in Messages, NEW s \in Slots \cup {Free}, Occupy(m, s)
  PROVE  /\ slot' \in [Slots -> Messages \cup {Free}]
         /\ block' \in [Blocks -> Slots \cup {Free}]
         /\ carries' \in [Blocks -> Messages \cup {Free}]
         /\ in_flight' \subseteq Blocks
         /\ status' \in [Messages -> {"new", "sending", "done"}]
         /\ fault' \in BOOLEAN
  <1>1. CASE s = Free
    BY <1>1 DEF Occupy, TypeOK
  <1>2. CASE s # Free
    <2>1. /\ slot' \in [Slots -> Messages \cup {Free}]
          /\ status' \in [Messages -> {"new", "sending", "done"}]
          /\ Transmit(m, s)
      BY <1>2 DEF Occupy, TypeOK
    <2>2. /\ block' \in [Blocks -> Slots \cup {Free}]
          /\ carries' \in [Blocks -> Messages \cup {Free}]
          /\ in_flight' \subseteq Blocks
          /\ fault' \in BOOLEAN
      BY <1>2, <2>1 DEF Transmit, EassSend, TypeOK
    <2> QED
      BY <2>1, <2>2
  <1> QED
    BY <1>1, <1>2

\* Every variable keeps its type, in whatever order the threads run.
THEOREM TypeCorrect == Spec => []TypeOK
  <1>1. Init => TypeOK
    BY DEF Init, TypeOK
  <1>2. TypeOK /\ [Next]_vars => TypeOK'
    <2> SUFFICES ASSUME TypeOK, [Next]_vars PROVE TypeOK'
      OBVIOUS
    <2> USE DEF TypeOK
    <2>1. ASSUME NEW m \in Messages, BeginSend(m) PROVE TypeOK'
      BY <2>1, FindEmptyMessageSlotFacts DEF BeginSend
    <2>2. ASSUME NEW m \in Messages, SendFromBluetooth(m) PROVE TypeOK'
      <3>1. Occupy(m, FindEmptyMessageSlot) /\ FindEmptyMessageSlot \in Slots \cup {Free}
        BY <2>2, FindEmptyMessageSlotFacts DEF SendFromBluetooth
      <3> QED
        BY <2>2, <3>1, OccupyTypes DEF SendFromBluetooth
    <2>3. ASSUME NEW m \in Messages, Renew(m) PROVE TypeOK'
      BY <2>3 DEF Renew
    <2>4. CASE EndSend
      <3>1. Occupy(sending, found) /\ sending \in Messages /\ found \in Slots \cup {Free}
        BY <2>4 DEF EndSend
      <3> QED
        BY <2>4, <3>1, OccupyTypes DEF EndSend
    <2>5. ASSUME NEW b \in Blocks, NotifyComplete(b) PROVE TypeOK'
      BY <2>5 DEF NotifyComplete, TransmitComplete
    <2>6. CASE Deinit
      BY <2>6 DEF Deinit
    <2>7. CASE Reinit
      BY <2>7 DEF Reinit
    <2>8. CASE UNCHANGED vars
      BY <2>8 DEF vars
    <2> QED
      BY <2>1, <2>2, <2>3, <2>4, <2>5, <2>6, <2>7, <2>8 DEF Next
  <1> QED
    BY <1>1, <1>2, PTL DEF Spec

-----------------------------------------------------------------------------
(* Slots and blocks, without preemption                                     *)

\* The send function, given an unoccupied slot, takes the slot and a block
\* together.
LEMMA OccupyKeepsSafe ==
  ASSUME TypeOK, Safe, NEW m \in Messages, NEW s \in Slots \cup {Free},
         s # Free => slot[s] = Free,
         Occupy(m, s), ~fault, UNCHANGED overtaken
  PROVE  InFlightIsAllocated' /\ OneBlockPerSlot' /\ BlocksNeverRunOut'
  <1>1. CASE s = Free
    BY <1>1 DEF Occupy, Safe, InFlightIsAllocated, OneBlockPerSlot, BlocksNeverRunOut
  <1>2. CASE s # Free
    <2>1. s \in Slots /\ slot[s] = Free /\ m # Free /\ slot' = [slot EXCEPT ![s] = m]
      BY <1>2, ConstantsAssumption DEF Occupy
    <2>2. CASE \A b \in Blocks : block[b] # Free
      <3>1. overtaken
        BY <2>1, <2>2, FreeSlotHasFreeBlock DEF Safe
      <3>2. UNCHANGED <<block, in_flight>>
        BY <1>2, <2>2 DEF Occupy, Transmit
      <3> QED
        BY <3>1, <3>2 DEF Safe, InFlightIsAllocated, OneBlockPerSlot, BlocksNeverRunOut
    <2>3. CASE \E b \in Blocks : block[b] = Free
      <3>1. PICK b \in Blocks :
              /\ block[b] = Free
              /\ block' = [block EXCEPT ![b] = s]
              /\ carries' = [carries EXCEPT ![b] = m]
              /\ in_flight' = in_flight \cup {b} \/ in_flight' = in_flight
              /\ fault' = fault
        BY <1>2, <2>3 DEF Occupy, Transmit, EassSend
      <3>2. /\ block'[b] = s /\ carries'[b] = m /\ slot'[s] = m
            /\ \A c \in Blocks : c # b => block'[c] = block[c] /\ carries'[c] = carries[c]
            /\ \A t \in Slots : t # s => slot'[t] = slot[t]
        BY <2>1, <3>1 DEF TypeOK
      <3>3. InFlightIsAllocated'
        BY <1>2, <3>1, <3>2 DEF Safe, InFlightIsAllocated, TypeOK
      <3>4. ~overtaken => \A c \in Blocks : c # b => block[c] # s
        BY <2>1, <1>2 DEF Safe, OneBlockPerSlot
      <3>5. ~overtaken => \A c \in Blocks : block'[c] # Free =>
              slot'[block'[c]] = carries'[c] /\ carries'[c] # Free
        <4> SUFFICES ASSUME ~overtaken, NEW c \in Blocks, block'[c] # Free
                     PROVE  slot'[block'[c]] = carries'[c] /\ carries'[c] # Free
          OBVIOUS
        <4>1. CASE c = b
          BY <2>1, <3>2, <4>1
        <4>2. CASE c # b
          <5>1. block'[c] = block[c] /\ block[c] \in Slots /\ block[c] # s
            BY <3>2, <3>4, <4>2 DEF TypeOK
          <5> QED
            BY <3>2, <4>2, <5>1 DEF Safe, OneBlockPerSlot
        <4> QED
          BY <4>1, <4>2
      <3>6. ~overtaken => \A c, d \in Blocks : block'[c] # Free /\ block'[c] = block'[d] => c = d
        BY <3>2, <3>4 DEF Safe, OneBlockPerSlot
      <3>7. ~overtaken => \A t \in Slots : slot'[t] # Free => \E c \in Blocks : block'[c] = t
        <4> SUFFICES ASSUME ~overtaken, NEW t \in Slots, slot'[t] # Free
                     PROVE  \E c \in Blocks : block'[c] = t
          OBVIOUS
        <4>1. CASE t = s
          BY <3>2, <4>1
        <4>2. CASE t # s
          <5>1. PICK c \in Blocks : block[c] = t
            BY <3>2, <4>2 DEF Safe, OneBlockPerSlot
          <5>2. c # b
            BY <3>1, <5>1, ConstantsAssumption
          <5> QED
            BY <3>2, <5>1, <5>2
        <4> QED
          BY <4>1, <4>2
      <3> QED
        BY <3>1, <3>3, <3>5, <3>6, <3>7 DEF OneBlockPerSlot, BlocksNeverRunOut
    <2> QED
      BY <2>2, <2>3
  <1> QED
    BY <1>1, <1>2

\* A completion gives back the slot and the block together.
LEMMA NotifyCompleteKeepsSafe ==
  ASSUME TypeOK, Safe, NEW b \in Blocks, NotifyComplete(b)
  PROVE  InFlightIsAllocated' /\ OneBlockPerSlot' /\ BlocksNeverRunOut'
  <1>1. /\ b \in in_flight /\ block[b] \in Slots /\ block[b] # Free
        /\ TransmitComplete(block[b]) /\ UNCHANGED <<overtaken, fault>>
        /\ in_flight' = in_flight \ {b}
        /\ block'[b] = Free
        /\ \A c \in Blocks : c # b => block'[c] = block[c] /\ carries'[c] = carries[c]
    BY DEF NotifyComplete, TypeOK, Safe, InFlightIsAllocated
  <1>2. /\ slot'[block[b]] = Free
        /\ \A t \in Slots : t # block[b] => slot'[t] = slot[t]
    BY <1>1 DEF TransmitComplete, TypeOK
  <1>3. InFlightIsAllocated' /\ BlocksNeverRunOut'
    BY <1>1 DEF Safe, InFlightIsAllocated, BlocksNeverRunOut, TypeOK
  <1>4. ~overtaken => \A c \in Blocks : block'[c] # Free =>
          slot'[block'[c]] = carries'[c] /\ carries'[c] # Free
    <2> SUFFICES ASSUME ~overtaken, NEW c \in Blocks, block'[c] # Free
                 PROVE  slot'[block'[c]] = carries'[c] /\ carries'[c] # Free
      OBVIOUS
    <2>1. c # b /\ block'[c] = block[c] /\ block[c] \in Slots
      BY <1>1 DEF TypeOK
    <2>2. block[c] # block[b]
      BY <1>1, <2>1 DEF Safe, OneBlockPerSlot
    <2> QED
      BY <1>1, <1>2, <2>1, <2>2 DEF Safe, OneBlockPerSlot
  <1>5. ~overtaken => \A c, d \in Blocks : block'[c] # Free /\ block'[c] = block'[d] => c = d
    BY <1>1 DEF Safe, OneBlockPerSlot
  <1>6. ~overtaken => \A t \in Slots : slot'[t] # Free => \E c \in Blocks : block'[c] = t
    <2> SUFFICES ASSUME ~overtaken, NEW t \in Slots, slot'[t] # Free
                 PROVE  \E c \in Blocks : block'[c] = t
      OBVIOUS
    <2>1. t # block[b] /\ slot[t] # Free
      BY <1>2
    <2>2. PICK c \in Blocks : block[c] = t
      BY <2>1 DEF Safe, OneBlockPerSlot
    <2> QED
      BY <1>1, <2>1, <2>2
  <1> QED
    BY <1>1, <1>3, <1>4, <1>5, <1>6 DEF OneBlockPerSlot

\* As long as no other thread runs inside the send function, every step keeps the
\* invariant.
LEMMA SafeStep ==
  ASSUME ~BluetoothPreempts, TypeOK, Safe, [Next]_vars
  PROVE  Safe'
  <1>1. ASSUME NEW m \in Messages, BeginSend(m) PROVE Safe'
    <2>1. /\ UNCHANGED <<initialized, slot, block, carries, in_flight, status, overtaken, fault>>
          /\ initialized /\ sending' = m /\ status[m] = "new"
          /\ found' = FindEmptyMessageSlot
      BY <1>1 DEF BeginSend, CanSend
    <2>2. found' # Free => slot[found'] = Free
      BY <2>1, FindEmptyMessageSlotFacts
    <2>3. DeinitializedIsQuiet' /\ FoundIsUnoccupied'
      BY <2>1, <2>2 DEF DeinitializedIsQuiet, FoundIsUnoccupied
    <2> QED
      BY <2>1, <2>3 DEF Safe, InFlightIsAllocated, OneBlockPerSlot, BlocksNeverRunOut
  <1>2. ASSUME NEW m \in Messages, SendFromBluetooth(m) PROVE Safe'
    <2>1. /\ sending' = Free /\ initialized /\ UNCHANGED <<initialized, overtaken>> /\ ~fault
          /\ Occupy(m, FindEmptyMessageSlot)
      BY <1>2 DEF SendFromBluetooth, OthersRun, CanSend
    <2>2. InFlightIsAllocated' /\ OneBlockPerSlot' /\ BlocksNeverRunOut'
      BY <2>1, FindEmptyMessageSlotFacts, OccupyKeepsSafe
    <2> QED
      BY <2>1, <2>2 DEF Safe, DeinitializedIsQuiet, FoundIsUnoccupied
  <1>3. ASSUME NEW m \in Messages, Renew(m) PROVE Safe'
    <2>1. /\ UNCHANGED <<initialized, slot, block, carries, in_flight, sending, found, overtaken, fault>>
          /\ \A n \in Messages : status[n] = "new" => status'[n] = "new"
      BY <1>3 DEF Renew, TypeOK
    <2>2. FoundIsUnoccupied'
      BY <2>1 DEF Safe, FoundIsUnoccupied, TypeOK
    <2> QED
      BY <2>1, <2>2 DEF Safe, InFlightIsAllocated, DeinitializedIsQuiet, OneBlockPerSlot,
                        BlocksNeverRunOut
  <1>4. CASE EndSend
    <2>1. /\ sending \in Messages /\ sending' = Free /\ initialized /\ ~fault
          /\ UNCHANGED <<initialized, overtaken>>
          /\ Occupy(sending, found) /\ found \in Slots \cup {Free}
          /\ found # Free => slot[found] = Free
      BY <1>4 DEF EndSend, TypeOK, Safe, FoundIsUnoccupied
    <2>2. InFlightIsAllocated' /\ OneBlockPerSlot' /\ BlocksNeverRunOut'
      BY <2>1, OccupyKeepsSafe
    <2> QED
      BY <2>1, <2>2 DEF Safe, DeinitializedIsQuiet, FoundIsUnoccupied
  <1>5. ASSUME NEW b \in Blocks, NotifyComplete(b) PROVE Safe'
    <2>1. InFlightIsAllocated' /\ OneBlockPerSlot' /\ BlocksNeverRunOut'
      BY <1>5, NotifyCompleteKeepsSafe
    <2>2. sending = Free /\ UNCHANGED <<initialized, sending>>
      BY <1>5 DEF NotifyComplete, OthersRun
    <2>3. \A s \in Slots : slot[s] = Free => slot'[s] = Free
      BY <1>5 DEF NotifyComplete, TransmitComplete, TypeOK
    <2> QED
      BY <2>1, <2>2, <2>3 DEF Safe, DeinitializedIsQuiet, FoundIsUnoccupied
  <1>6. CASE Deinit
    <2>1. /\ sending' = Free /\ (\A s \in Slots : slot'[s] = Free)
          /\ UNCHANGED <<block, carries, in_flight, fault>> /\ ~fault
          /\ overtaken' = (overtaken \/ \E b \in Blocks : block[b] # Free)
      BY <1>6 DEF Deinit
    <2>2. OneBlockPerSlot'
      BY <2>1 DEF OneBlockPerSlot
    <2> QED
      BY <2>1, <2>2 DEF Safe, InFlightIsAllocated, DeinitializedIsQuiet, FoundIsUnoccupied,
                        BlocksNeverRunOut
  <1>7. CASE Reinit
    <2>1. /\ sending = Free /\ (\A s \in Slots : slot[s] = Free /\ slot'[s] = Free)
          /\ UNCHANGED <<block, carries, in_flight, sending, overtaken, fault>>
      BY <1>7 DEF Reinit, Safe, DeinitializedIsQuiet
    <2>2. OneBlockPerSlot'
      BY <2>1 DEF Safe, OneBlockPerSlot, TypeOK
    <2> QED
      BY <2>1, <2>2 DEF Safe, InFlightIsAllocated, DeinitializedIsQuiet, FoundIsUnoccupied,
                        BlocksNeverRunOut
  <1>8. CASE UNCHANGED vars
    BY <1>8 DEF vars, Safe, InFlightIsAllocated, DeinitializedIsQuiet, FoundIsUnoccupied,
                OneBlockPerSlot, BlocksNeverRunOut
  <1> QED
    BY <1>1, <1>2, <1>3, <1>4, <1>5, <1>6, <1>7, <1>8 DEF Next

\* The invariant holds in every state, as long as no other thread runs inside the
\* send function.
THEOREM Safety ==
  ASSUME ~BluetoothPreempts
  PROVE  Spec => []Safe
  <1>1. Init => Safe
    BY ConstantsAssumption
    DEF Init, Safe, InFlightIsAllocated, DeinitializedIsQuiet, FoundIsUnoccupied,
        OneBlockPerSlot, BlocksNeverRunOut
  <1>2. TypeOK /\ Safe /\ [Next]_vars => Safe'
    BY SafeStep
  <1> QED
    BY <1>1, <1>2, TypeCorrect, PTL DEF Spec

\* A message slot without a transmit block for it is never met, so the EAS_ASSERT
\* in transceiver_transmit holds, and each block leads to the message it was
\* allocated for: for any number of slots and at least as many blocks, failed
\* transmissions included.
THEOREM SlotsAndBlocksMatch ==
  ASSUME ~BluetoothPreempts
  PROVE  Spec => []SlotsMatchBlocks
  <1>1. Safe => SlotsMatchBlocks
    BY DEF Safe, OneBlockPerSlot, SlotsMatchBlocks, BlocksLeadToTheirMessages
  <1> QED
    BY <1>1, Safety, PTL

\* The send function executes a callback only of a message that was not being
\* sent before.
LEMMA OccupyLeavesSentAlone ==
  ASSUME TypeOK, NEW m \in Messages, NEW n \in Messages, NEW s, Occupy(n, s),
         status[n] = "new", status[m] = "sending"
  PROVE  status'[m] = "sending"
  BY DEF Occupy, TypeOK

\* The "message sent" callback of a message under way is executed only when a
\* transmission of that very message completes.
THEOREM CallbackIsForOwnMessage ==
  ASSUME ~BluetoothPreempts
  PROVE  Spec => CallbackOnlyForOwnMessage
  <1> DEFINE Own == \A m \in Messages :
                      ~overtaken /\ status[m] = "sending" /\ status'[m] = "done" =>
                        \E b \in in_flight : carries[b] = m /\ b \notin in_flight'
  <1>1. TypeOK /\ Safe /\ [Next]_vars => [Own]_vars
    <2> SUFFICES ASSUME TypeOK, Safe, Next,
                        NEW m \in Messages, ~overtaken, status[m] = "sending", status'[m] = "done"
                 PROVE  \E b \in in_flight : carries[b] = m /\ b \notin in_flight'
      OBVIOUS
    <2>1. ASSUME NEW n \in Messages, BeginSend(n) \/ Renew(n) PROVE FALSE
      BY <2>1 DEF BeginSend, Renew, TypeOK
    <2>2. ASSUME NEW n \in Messages, SendFromBluetooth(n) PROVE FALSE
      BY <2>2, OccupyLeavesSentAlone DEF SendFromBluetooth, CanSend
    <2>3. CASE EndSend
      <3>1. sending \in Messages /\ status[sending] = "new" /\ Occupy(sending, found)
        BY <2>3 DEF EndSend, TypeOK, Safe, FoundIsUnoccupied
      <3> QED
        BY <3>1, OccupyLeavesSentAlone
    <2>4. ASSUME NEW b \in Blocks, NotifyComplete(b)
          PROVE  \E c \in in_flight : carries[c] = m /\ c \notin in_flight'
      <3>1. b \in in_flight /\ b \notin in_flight' /\ block[b] # Free /\ TransmitComplete(block[b])
        BY <2>4 DEF NotifyComplete, Safe, InFlightIsAllocated
      <3>2. slot[block[b]] = m
        BY <3>1 DEF TransmitComplete, TypeOK
      <3>3. carries[b] = m
        BY <3>1, <3>2 DEF Safe, OneBlockPerSlot
      <3> QED
        BY <3>1, <3>3
    <2>5. CASE Deinit \/ Reinit
      BY <2>5 DEF Deinit, Reinit, TypeOK
    <2> QED
      BY <2>1, <2>2, <2>3, <2>4, <2>5 DEF Next
  <1> QED
    BY <1>1, TypeCorrect, Safety, PTL DEF Spec, CallbackOnlyForOwnMessage
=============================================================================
