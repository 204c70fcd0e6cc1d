----------------------------- MODULE DurableLog -----------------------------
(***************************************************************************)
(* What one stream promises, without files, caches, handles or crashes: a  *)
(* log of records that survives power loss, of which a part is             *)
(* acknowledged; the rest is what was being written when something went    *)
(* wrong, and may stay or vanish.                                          *)
(***************************************************************************)
EXTENDS SequencesExt

CONSTANT Payload    \* what a record may contain

VARIABLES
    log,    \* the records that a reopening after a power loss would find
    acked,  \* the records whose append has returned
    sealed  \* the stream was closed

logVars == <<log, acked, sealed>>

Init == log = <<>> /\ acked = <<>> /\ sealed = FALSE

\* Unacknowledged records come and go; acknowledged ones stay in place.
Churn ==
    /\ log' \in Seq(Payload)
    /\ IsPrefix(acked, log')
    /\ UNCHANGED <<acked, sealed>>

\* An append returns: all of the log up to its records is acknowledged.
Ack ==
    /\ ~sealed
    /\ log' \in Seq(Payload)
    /\ IsPrefix(acked, log')
    /\ acked' = log'
    /\ UNCHANGED sealed

\* The stream is closed for good.
Seal ==
    /\ sealed' = TRUE
    /\ UNCHANGED <<log, acked>>

Next == Churn \/ Ack \/ Seal

Spec == Init /\ [][Next]_logVars
=============================================================================
