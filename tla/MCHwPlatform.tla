---- MODULE MCHwPlatform ----
EXTENDS HwPlatform
====
