---------------------------- MODULE FileTransfer ----------------------------
(***************************************************************************)
(* What RTP promises its two callers, without packets, windows or timers:  *)
(* the receiver writes a growing prefix of the file (and, past its end,    *)
(* only empty payloads); sendMessage returns 0 only when every segment is  *)
(* written; the receiver reports success only for a complete file, or for  *)
(* an empty one when initSender has told its caller that it failed.        *)
(***************************************************************************)
EXTENDS Integers, Sequences

CONSTANTS File, Empty

VARIABLES
    sending,    \* "trying", "busy", "ok" or "failed": what the sender's calls returned
    receiving,  \* "idle", "busy", "ok", "timeout" or "refused": the receiver's
    written     \* the payloads in the output file

vars == <<sending, receiving, written>>

Complete == Len(written) >= Len(File)

\* The i-th payload of an endless stream: the file, then nothing.
StreamAt(i) == IF i <= Len(File) THEN File[i] ELSE Empty

Init == sending = "trying" /\ receiving = "idle" /\ written = << >>

Accept ==
    /\ receiving = "idle" /\ receiving' = "busy"
    /\ UNCHANGED <<sending, written>>

Refuse ==
    /\ receiving = "idle" /\ receiving' = "refused"
    /\ UNCHANGED <<sending, written>>

Connect ==
    /\ sending = "trying" /\ receiving \notin {"idle", "refused"}
    /\ sending' = "busy"
    /\ UNCHANGED <<receiving, written>>

Reject ==
    /\ sending = "trying" /\ sending' = "failed"
    /\ UNCHANGED <<receiving, written>>

\* Some more of the stream reaches the file, in order.
Write ==
    /\ receiving = "busy" /\ sending \in {"busy", "ok"}
    /\ Len(written') >= Len(written)
    /\ written' = [i \in 1 .. Len(written') |-> StreamAt(i)]
    /\ UNCHANGED <<sending, receiving>>

SendOk ==
    /\ sending = "busy" /\ Complete
    /\ sending' = "ok"
    /\ UNCHANGED <<receiving, written>>

ReceiveOk ==
    /\ receiving = "busy"
    /\ \/ sending = "ok" /\ Complete
       \/ sending = "failed" /\ written = << >>
    /\ receiving' = "ok"
    /\ UNCHANGED <<sending, written>>

GiveUp ==
    /\ receiving = "busy" /\ receiving' = "timeout"
    /\ UNCHANGED <<sending, written>>

Next ==
    \/ Accept \/ Refuse \/ Connect \/ Reject
    \/ Write \/ SendOk \/ ReceiveOk \/ GiveUp

Spec == Init /\ [][Next]_vars
=============================================================================
