---------------------------- MODULE MCLedManager ----------------------------
EXTENDS LedManager
=============================================================================
