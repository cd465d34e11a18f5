--------------------------- MODULE CachedTransfer ---------------------------
(***************************************************************************)
(* What the optimised RTP promises its two callers. A segment is confirmed *)
(* when the receiver holds it, before it is written, so sendMessageOpt may *)
(* return 0 a moment too early: what FileTransfer asks of the output file  *)
(* is asked here of the segments held. The receiver makes up for it: it    *)
(* does not stop while it holds a segment that it could write.             *)
(***************************************************************************)
EXTENDS FileTransfer

VARIABLE held   \* the positions in the stream of the payloads that have arrived

heldVars == <<vars, held>>

InitHeld == Init /\ held = {}

\* Packets arrive, in any order.
Keep ==
    /\ receiving = "busy" /\ sending \in {"busy", "ok"}
    /\ held \subseteq held'
    /\ UNCHANGED vars

WriteHeld ==
    /\ Write
    /\ 1 .. Len(written') \subseteq held
    /\ UNCHANGED held

SendOkHeld ==
    /\ sending = "busy" /\ 1 .. Len(File) \subseteq held
    /\ sending' = "ok"
    /\ UNCHANGED <<receiving, written, held>>

\* recvMessageOpt returns.
Stop ==
    /\ ReceiveOk \/ GiveUp
    /\ Len(written) + 1 \notin held
    /\ UNCHANGED held

Connecting == (Accept \/ Refuse \/ Connect \/ Reject) /\ UNCHANGED held

NextHeld == Connecting \/ Keep \/ WriteHeld \/ SendOkHeld \/ Stop

SpecHeld == InitHeld /\ [][NextHeld]_heldVars
=============================================================================
