------------------------------- MODULE MCHubs -------------------------------
(* Instances of AsyncStore for TLC.                                        *)
EXTENDS AsyncStore

CONSTANTS t1, t2        \* model values

TwoTasks == {t1, t2}
=============================================================================
