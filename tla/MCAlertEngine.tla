---- MODULE MCAlertEngine ----
\* Two variables, two alert ids and a few alerts: an OR over two variables, an
\* AND of two groups that look at the same variable, as many groups of one
\* requirement as there is room for, one that needs only the variable that comes
\* last, and four that the validator has to refuse.
EXTENDS AlertEngine

CONSTANTS red, green

MCVariableOrder == <<"temperature", "pressure">>

Geq(v, last) == [var |-> v, operator |-> "geq", bound |-> 1, last |-> last]
Leq(v, last) == [var |-> v, operator |-> "leq", bound |-> 0, last |-> last]

Message(conn, kind, reqs) == [connectivity |-> conn, led |-> kind, reqs |-> reqs]

MCMessages ==
  { Message(TRUE, red, <<Geq("temperature", FALSE), Geq("pressure", TRUE)>>),
    Message(FALSE, green, <<Geq("temperature", TRUE), Geq("pressure", FALSE),
                          Leq("temperature", TRUE)>>),
    Message(TRUE, Off, <<Leq("pressure", TRUE), Leq("temperature", TRUE),
                         Leq("pressure", TRUE)>>),
    Message(TRUE, Off, <<Leq("pressure", TRUE)>>),
    Message(FALSE, Off, <<Leq("pressure", TRUE)>>),
    Message(TRUE, "unknown", <<Leq("pressure", TRUE)>>),
    Message(TRUE, red, <<>>),
    Message(TRUE, red, <<Geq("temperature", TRUE), Geq("pressure", FALSE)>>) }
====
