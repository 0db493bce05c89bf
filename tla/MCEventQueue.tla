---- MODULE MCEventQueue ----
\* A one-byte event (init) and a longer one (sample), and room for a few.
EXTENDS EventQueue

MCSize == [e \in {"init", "sample"} |-> IF e = "init" THEN 1 ELSE 3]
====
