----------------------------- MODULE MCSubscribe -----------------------------
(* Instances of AsyncSubscribe for TLC.                                    *)
EXTENDS AsyncSubscribe

CONSTANTS w1, w2, s1, s2, c1        \* model values

OneWriter == {w1}
TwoWriters == {w1, w2}
OneSub == {s1}
TwoSubs == {s1, s2}
OneWaiter == {c1}
None == {}

\* Threads are interchangeable, and so are subscribers.
Symmetric == Permutations(Writer) \cup Permutations(Sub)
=============================================================================
