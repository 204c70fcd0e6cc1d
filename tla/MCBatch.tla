------------------------------- MODULE MCBatch -------------------------------
(* Instances of BatchWriter for TLC.                                       *)
EXTENDS BatchWriter

CONSTANTS t1, t2, c1, c2        \* model values

TwoTimers == {t1, t2}
TwoCallers == {c1, c2}
=============================================================================
