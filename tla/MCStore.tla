------------------------------- MODULE MCStore -------------------------------
(* Instances of StreamStore for TLC.                                       *)
EXTENDS StreamStore, TLC

CONSTANTS p1, p2        \* model values

TwoProcs == {p1, p2}

\* Processes are interchangeable.
Symmetric == Permutations(Proc)
=============================================================================
