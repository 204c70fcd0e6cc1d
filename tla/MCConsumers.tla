---------------------------- MODULE MCConsumers ----------------------------
(* Instances of Consumers for TLC.                                         *)
EXTENDS Consumers

CONSTANTS s1, s2, w1    \* model values

TwoSubs == {s1, s2}
OneWriter == {w1}

\* From before the start and from the start.
Offsets == {-1, 0}
=============================================================================
