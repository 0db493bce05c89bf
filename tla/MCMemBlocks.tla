---- MODULE MCMemBlocks ----
EXTENDS MemBlocks
====
