---- MODULE MCMsgTransceiver ----
EXTENDS MsgTransceiver
====
