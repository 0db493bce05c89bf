----------------------------- MODULE AlertMessage -----------------------------
(***************************************************************************)
(* How a received message is parsed (receive_cb of                         *)
(* app/middleware/msg_transceiver.c and what it calls).  Each parse_*      *)
(* function is an action; a message is rejected by returning early.        *)
(*                                                                         *)
(* The bytes of the message are chosen when they are read, so that a       *)
(* behaviour stands for all messages that begin with the bytes read so     *)
(* far; only their number is fixed at the start.                           *)
(***************************************************************************)
EXTENDS Integers, SequencesExt

CONSTANTS
  Inputs,           \* Inputs[f]: the byte strings to be tried for field f
  NumBytes,         \* the message lengths to be tried
  MaxRequirements,  \* CONFIG_MSG_TRANSCEIVER_MAX_NUM_VARIABLE_REQUIREMENTS_...
  None              \* a field that has not been parsed

\* MSG_TRANSCEIVER_MESSAGE_ID_*, as far as they are received
REMOVE_ALERT == 1
ADD_ALERT == 2

\* enum MsgTransceiverVariableIdentifier
TEMPERATURE == 0
LIGHT_INTENSITY == 3
VariableIdentifiers == TEMPERATURE..LIGHT_INTENSITY

Byte == 0..255

\* The fields of a message, in the order of handle_add_alert_message.
Fields == {"message_id", "alert_id", "warmup_period", "cooldown_period",
           "notification_type", "led_color", "led_pattern", "num_ored_requirements",
           "num_variable_requirements", "variable_identifier", "operator",
           "two_byte_value", "four_byte_value"}

\* Where the parser may be when it is done.
Ends == {"rejected", "remove_alert", "add_alert"}

\* Bytes of a field; the number that each parse_* function asks for.
FieldSize(f) ==
  CASE f \in {"warmup_period", "cooldown_period", "four_byte_value"} -> 4
    [] f = "two_byte_value" -> 2
    [] OTHER -> 1

ASSUME ConstantsAssumption ==
  /\ \A f \in Fields : Inputs[f] \subseteq [1..FieldSize(f) -> Byte]
  /\ NumBytes \subseteq Nat
  /\ MaxRequirements \in Nat

VARIABLES
  num_bytes,     \* length of the message
  bytes,         \* bytes read so far; `index' in the code is their number
  pc,            \* the field to be parsed next, or an end
  alert,         \* MsgTransceiverAlert, as far as it is filled in
  ored_left,     \* ORed requirements still to be parsed
  reqs_left      \* variable requirements still to be parsed in this one

vars == <<num_bytes, bytes, pc, alert, ored_left, reqs_left>>

EmptyAlert ==
  [alert_id |-> None, warmup_period |-> None, cooldown_period |-> None,
   connectivity |-> FALSE, led |-> FALSE, led_color |-> None, led_pattern |-> None,
   reqs |-> <<>>]

\* MsgTransceiverVariableRequirement; a temperature is an int16_t, other values
\* are unsigned.
Requirement ==
  [variable : {TEMPERATURE}, operator : Byte, value : -(2^15)..2^15 - 1, last : BOOLEAN]
    \cup [variable : VariableIdentifiers \ {TEMPERATURE}, operator : Byte, value : Nat,
          last : BOOLEAN]

\* A requirement whose constraint value has not been parsed.
OpenRequirement == [variable : Byte, operator : Byte]

Alert ==
  [alert_id : Byte \cup {None}, warmup_period : Nat \cup {None},
   cooldown_period : Nat \cup {None}, connectivity : BOOLEAN, led : BOOLEAN,
   led_color : Byte \cup {None}, led_pattern : Byte \cup {None},
   reqs : Seq(Requirement \cup OpenRequirement)]

TypeOK ==
  /\ num_bytes \in NumBytes
  /\ bytes \in Seq(Byte)
  /\ pc \in Fields \cup {"removed_id"} \cup Ends
  /\ alert \in Alert
  /\ ored_left \in Byte
  /\ reqs_left \in Byte

Init ==
  /\ num_bytes \in NumBytes
  /\ bytes = <<>>
  /\ pc = "message_id"
  /\ alert = EmptyAlert
  /\ ored_left = 0
  /\ reqs_left = 0

-----------------------------------------------------------------------------
(* Helpers                                                                  *)

\* four_little_endian_bytes_to_uint32, two_little_endian_bytes_to_uint16, or the
\* byte itself.
LittleEndian(bs) ==
  CASE Len(bs) = 4 -> bs[1] + 256 * (bs[2] + 256 * (bs[3] + 256 * bs[4]))
    [] Len(bs) = 2 -> bs[1] + 256 * bs[2]
    [] OTHER       -> bs[1]

\* The cast to int16_t.
Signed16(n) == IF n >= 2^15 THEN n - 2^16 ELSE n

\* Mutant: one byte too many is taken to be there.
IsOneMoreByteAvailable(desired) == num_bytes + 1 - Len(bytes) >= desired

\* is_x_bytes_available
IsXBytesAvailable(desired) == num_bytes - Len(bytes) >= desired

\* The message is dropped.
Reject ==
  /\ pc' = "rejected"
  /\ UNCHANGED <<num_bytes, bytes, alert, ored_left, reqs_left>>

\* The next field is read: it has the value bs.
Read(bs) == bytes' = bytes \o bs

\* Where the parser goes on in handle_add_alert_message when `left' ORed
\* requirements are still to come and those before them are complete.
NextOred(left) ==
  IF left > 0 THEN "num_variable_requirements"
  ELSE IF Len(bytes') # num_bytes THEN "rejected" ELSE "add_alert"

-----------------------------------------------------------------------------
(* receive_cb and handle_remove_alert_message                               *)

ReceiveCb ==
  /\ pc = "message_id"
  /\ IF num_bytes = 0 THEN Reject
     ELSE \E bs \in Inputs["message_id"] :
            /\ Read(bs)
            /\ pc' = CASE bs[1] = ADD_ALERT    -> "alert_id"
                       [] bs[1] = REMOVE_ALERT -> "removed_id"
                       [] OTHER                -> "rejected"
            /\ UNCHANGED <<num_bytes, alert, ored_left, reqs_left>>

\* handle_remove_alert_message
HandleRemoveAlertMessage ==
  /\ pc = "removed_id"
  /\ IF num_bytes # 2 THEN Reject
     ELSE \E bs \in Inputs["alert_id"] :
            /\ Read(bs)
            /\ alert' = [alert EXCEPT !.alert_id = bs[1]]
            /\ pc' = "remove_alert"
            /\ UNCHANGED <<num_bytes, ored_left, reqs_left>>

-----------------------------------------------------------------------------
(* handle_add_alert_message                                                 *)

\* What parse_alert_id, parse_warmup_period, parse_cooldown_period,
\* parse_led_color and parse_led_pattern have in common: a field of n bytes
\* whose value is not looked at.
ParseField(field, n, next) ==
  /\ pc = field
  /\ IF ~IsXBytesAvailable(n) THEN Reject
     ELSE \E bs \in Inputs[field] :
            /\ Read(bs)
            /\ alert' = [alert EXCEPT ![field] = LittleEndian(bs)]
            /\ pc' = next
            /\ UNCHANGED <<num_bytes, ored_left, reqs_left>>

ParseAlertId == ParseField("alert_id", 1, "warmup_period")

ParseWarmupPeriod == ParseField("warmup_period", 4, "cooldown_period")

ParseCooldownPeriod == ParseField("cooldown_period", 4, "notification_type")

ParseLedColor == ParseField("led_color", 1, "led_pattern")

ParseLedPattern == ParseField("led_pattern", 1, "num_ored_requirements")

\* parse_notification_type: only bits 0 and 1 may be set.
ParseNotificationType ==
  /\ pc = "notification_type"
  /\ IF ~IsXBytesAvailable(1) THEN Reject
     ELSE \E bs \in Inputs["notification_type"] :
            LET led == bs[1] \in {2, 3} IN
            /\ Read(bs)
            /\ alert' = [alert EXCEPT !.connectivity = bs[1] % 2 = 1, !.led = led]
            /\ pc' = CASE bs[1] > 3 -> "rejected"
                       [] led       -> "led_color"
                       [] OTHER     -> "num_ored_requirements"
            /\ UNCHANGED <<num_bytes, ored_left, reqs_left>>

\* parse_num_ored_requirements
ParseNumOredRequirements ==
  /\ pc = "num_ored_requirements"
  /\ IF ~IsXBytesAvailable(1) THEN Reject
     ELSE \E bs \in Inputs["num_ored_requirements"] :
            /\ Read(bs)
            /\ ored_left' = bs[1]
            /\ pc' = NextOred(bs[1])
            /\ UNCHANGED <<num_bytes, alert, reqs_left>>

-----------------------------------------------------------------------------
(* parse_ored_requirement and parse_variable_requirement                    *)

\* Mutant: the last element of the array is not used.
NextRequirementOneLess(reqs) ==
  IF Len(reqs) >= MaxRequirements - 1 THEN "rejected" ELSE "variable_identifier"

\* The head of the loop of parse_ored_requirement: the array may be full.
NextRequirement(reqs) ==
  IF Len(reqs) >= MaxRequirements THEN "rejected" ELSE "variable_identifier"

\* The start of parse_ored_requirement.
ParseNumVariableRequirements ==
  /\ pc = "num_variable_requirements"
  /\ IF ~IsXBytesAvailable(1) THEN Reject
     ELSE \E bs \in Inputs["num_variable_requirements"] :
            /\ Read(bs)
            /\ reqs_left' = bs[1]
            /\ ored_left' = ored_left - 1
            /\ pc' = IF bs[1] > 0 THEN NextRequirement(alert.reqs) ELSE NextOred(ored_left')
            /\ UNCHANGED <<num_bytes, alert>>

\* The field that holds the constraint value of variable v.
ValueField(v) == IF v = LIGHT_INTENSITY THEN "four_byte_value" ELSE "two_byte_value"

\* parse_variable_requirement up to the switch: variable and operator.
ParseVariableIdentifier ==
  /\ pc = "variable_identifier"
  /\ IF ~IsXBytesAvailable(2) THEN Reject
     ELSE \E bs \in Inputs["variable_identifier"], op \in Inputs["operator"] :
            /\ Read(bs \o op)
            /\ alert' = [alert EXCEPT !.reqs =
                           Append(@, [variable |-> bs[1], operator |-> op[1]])]
            /\ pc' = IF bs[1] \in VariableIdentifiers THEN ValueField(bs[1]) ELSE "rejected"
            /\ UNCHANGED <<num_bytes, ored_left, reqs_left>>

\* Mutant: the constraint value of the temperature is taken as unsigned.
ConstraintValueUnsigned(v, bs) == LittleEndian(bs)

\* What parse_<variable>_constraint_value stores.
ConstraintValue(v, bs) ==
  IF v = TEMPERATURE THEN Signed16(LittleEndian(bs)) ELSE LittleEndian(bs)

\* Mutant: the flag is set on the first requirement instead of the last.
IsLastInOredRequirementFirst(left) == left > 1

\* is_last_in_ored_requirement, with `left' requirements from this one on.
IsLastInOredRequirement(left) == left = 1

\* The constraint value, and the end of the body of the loop.
ParseConstraintValue(field, n) ==
  LET req == Last(alert.reqs) IN
  /\ pc = field
  /\ IF ~IsXBytesAvailable(n) THEN Reject
     ELSE \E bs \in Inputs[field] :
            /\ Read(bs)
            /\ alert' = [alert EXCEPT !.reqs =
                 Append(Front(@), [variable |-> req.variable, operator |-> req.operator,
                                   value |-> ConstraintValue(req.variable, bs),
                                   last |-> IsLastInOredRequirement(reqs_left)])]
            /\ reqs_left' = reqs_left - 1
            /\ pc' = IF reqs_left > 1 THEN NextRequirement(alert'.reqs) ELSE NextOred(ored_left)
            /\ UNCHANGED <<num_bytes, ored_left>>

ParseTwoByteValue == ParseConstraintValue("two_byte_value", 2)

ParseFourByteValue == ParseConstraintValue("four_byte_value", 4)

-----------------------------------------------------------------------------

\* The callback has been called or the message dropped.
Done == pc \in Ends /\ UNCHANGED vars

Next ==
  \/ ReceiveCb \/ HandleRemoveAlertMessage
  \/ ParseAlertId \/ ParseWarmupPeriod \/ ParseCooldownPeriod
  \/ ParseNotificationType \/ ParseLedColor \/ ParseLedPattern
  \/ ParseNumOredRequirements \/ ParseNumVariableRequirements
  \/ ParseVariableIdentifier \/ ParseTwoByteValue \/ ParseFourByteValue
  \/ Done

Spec == Init /\ [][Next]_vars

-----------------------------------------------------------------------------
(* The format: how a client encodes an alert.                               *)

\* The n bytes of a number, least significant first.
Bytes(x, n) == [i \in 1..n |-> (x \div 256^(i - 1)) % 256]

\* How a variable requirement is encoded.
EncodeRequirement(r) ==
  <<r.variable, r.operator>> \o Bytes(r.value, IF r.variable = LIGHT_INTENSITY THEN 4 ELSE 2)

EncodeRequirements(rs) == FlattenSeq([i \in DOMAIN rs |-> EncodeRequirement(rs[i])])

\* An ORed requirement: a sequence of variable requirements.
EncodeOred(rs) == <<Len(rs)>> \o EncodeRequirements(rs)

EncodeGroups(groups) == FlattenSeq([i \in DOMAIN groups |-> EncodeOred(groups[i])])

NotificationType(a) == (IF a.connectivity THEN 1 ELSE 0) + (IF a.led THEN 2 ELSE 0)

\* What comes before the requirements.
EncodeHeader(a) ==
  <<ADD_ALERT, a.alert_id>> \o Bytes(a.warmup_period, 4) \o Bytes(a.cooldown_period, 4)
    \o <<NotificationType(a)>>
    \o (IF a.led THEN <<a.led_color, a.led_pattern>> ELSE <<>>)

\* A message: an alert, with its requirements in groups.
Encode(a, groups) == EncodeHeader(a) \o <<Len(groups)>> \o EncodeGroups(groups)

\* The ways to cut reqs into `n' groups, empty ones included.
Groupings(reqs, n) ==
  LET Cuts == {c \in [0..n -> 0..Len(reqs)] :
                 c[0] = 0 /\ c[n] = Len(reqs) /\ \A i \in 1..n : c[i - 1] <= c[i]}
  IN  {[i \in 1..n |-> SubSeq(reqs, c[i - 1] + 1, c[i])] : c \in Cuts}

\* A group ends where the flag is set, and only there.
FlagsMark(groups) ==
  \A i \in DOMAIN groups : \A j \in DOMAIN groups[i] :
    groups[i][j].last = (j = Len(groups[i]))

-----------------------------------------------------------------------------
(* Properties                                                               *)

\* No byte behind the end of the message is read, and no element behind the end
\* of variable_requirements written, whatever the message says about the
\* number of requirements to come.
StaysInBounds ==
  /\ Len(bytes) <= num_bytes
  /\ Len(alert.reqs) <= MaxRequirements

\* What is handed on is what the message says.  An alert to be added, encoded
\* again in groups that end where is_last_in_ored_requirement is set, gives
\* the bytes of the message.  (Groups without a requirement leave no trace.)
AcceptedIsTheMessage ==
  /\ pc = "remove_alert" => bytes = <<REMOVE_ALERT, alert.alert_id>>
  /\ pc = "add_alert" =>
       \E n \in 0..Len(bytes) : \E groups \in Groupings(alert.reqs, n) :
         FlagsMark(groups) /\ Encode(alert, groups) = bytes
  /\ pc \in {"remove_alert", "add_alert"} => Len(bytes) = num_bytes

\* The requirements, headers and messages that clients may send, given Inputs.
InputRequirements ==
  UNION {{[variable |-> v[1], operator |-> op[1], value |-> LittleEndian(x)] :
            x \in Inputs[ValueField(v[1])]} :
           v \in {b \in Inputs["variable_identifier"] : b[1] \in VariableIdentifiers},
           op \in Inputs["operator"]}

InputHeaders ==
  {[alert_id |-> LittleEndian(a), warmup_period |-> LittleEndian(w),
    cooldown_period |-> LittleEndian(c), connectivity |-> conn, led |-> l,
    led_color |-> LittleEndian(col), led_pattern |-> LittleEndian(pat)] :
     a \in Inputs["alert_id"], w \in Inputs["warmup_period"],
     c \in Inputs["cooldown_period"], conn \in BOOLEAN, l \in BOOLEAN,
     col \in Inputs["led_color"], pat \in Inputs["led_pattern"]}

EncodedMessages ==
  UNION {{Encode(h, groups) : h \in InputHeaders, groups \in Groupings(reqs, n[1])} :
           reqs \in SeqOf(InputRequirements, MaxRequirements),
           n \in Inputs["num_ored_requirements"]}

\* No message that encodes an alert with at most MaxRequirements requirements is
\* dropped: where the parser has returned, the bytes it has seen do not begin
\* such a message of this length.
EncodedIsAccepted ==
  pc = "rejected" =>
    \A m \in EncodedMessages : Len(m) = num_bytes => ~IsPrefix(bytes, m)
===============================================================================
