------------------------------ MODULE MCStream ------------------------------
(* Instances of DurableStream for TLC.                                     *)
EXTENDS DurableStream

CONSTANTS h1, h2, a, b      \* model values

TwoHandles == {h1, h2}
OneHandle  == {h1}
TwoPayloads == {a, b}

\* Handles are interchangeable, and so are payloads.
Symmetric == Permutations(Handle) \cup Permutations(Payload)
=============================================================================
