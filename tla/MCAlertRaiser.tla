---- MODULE MCAlertRaiser ----
EXTENDS AlertRaiser
====
