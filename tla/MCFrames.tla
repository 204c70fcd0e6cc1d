------------------------------ MODULE MCFrames ------------------------------
(* Instances of FrameLog for TLC.                                          *)
EXTENDS FrameLog, TLC

CONSTANTS h1, h2        \* model values

TwoHandles == {h1, h2}

\* Frames of three and four bytes; a payload of zeros looks like an empty frame.
Payloads == {<<1>>, <<0, 0>>}

\* Handles are interchangeable.
Symmetric == Permutations(Handle)
=============================================================================
