---- MODULE MCAlertMessage ----
\* Values that tell apart bytes, byte orders and signs; counts around the
\* number of requirements there is room for; codes that do not exist.
EXTENDS AlertMessage

MCInputs ==
  [f \in Fields |->
     CASE f = "message_id"                -> {<<0>>, <<1>>, <<2>>, <<3>>}
       [] f = "alert_id"                  -> {<<7>>}
       [] f = "warmup_period"             -> {<<1, 2, 3, 4>>}
       [] f = "cooldown_period"           -> {<<5, 0, 6, 0>>}
       [] f = "notification_type"         -> {<<0>>, <<1>>, <<2>>, <<3>>, <<4>>}
       [] f = "led_color"                 -> {<<2>>}
       [] f = "led_pattern"               -> {<<1>>}
       [] f = "num_ored_requirements"     -> {<<0>>, <<1>>, <<2>>, <<3>>}
       [] f = "num_variable_requirements" -> {<<0>>, <<1>>, <<2>>, <<3>>}
       [] f = "variable_identifier"       -> {<<0>>, <<2>>, <<3>>, <<4>>}
       [] f = "operator"                  -> {<<0>>, <<1>>}
       [] f = "two_byte_value"            -> {<<1, 2>>, <<0, 128>>}
       [] f = "four_byte_value"           -> {<<1, 0, 2, 64>>}]
====
