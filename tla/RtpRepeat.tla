----------------------------- MODULE RtpRepeat -----------------------------
(***************************************************************************)
(* Several transfers in one process, as test.cpp's main runs its TESTs:    *)
(* initSender and initReceiver open new sockets, but the file-scope        *)
(* send_base, next_seq_num and recv_base keep their values.                *)
(***************************************************************************)
EXTENDS RtpGbn

CONSTANT Transfers  \* how many transfers the process runs

VARIABLE transfer   \* the number of the current transfer

rvars == <<vars, transfer>>

RepeatInit == Init /\ transfer = 1

\* Both threads are joined, the output file is compared and removed, and the
\* next TEST calls initReceiver and initSender.  Nothing sent to the old
\* sockets arrives at the new ones.
NextTransfer ==
    /\ transfer < Transfers
    /\ spc \in {"closed", "failed"}
    /\ rpc \in {"ok", "timeout", "refused"}
    /\ transfer' = transfer + 1
    /\ spc' = "init" /\ rpc' = "listen"
    /\ timer' = FALSE
    /\ out' = << >>
    /\ toR' = {} /\ toS' = {}
    /\ UNCHANGED <<send_base, next_seq_num, recv_base, packet_cache>>

RepeatNext == NextTransfer \/ (Next /\ UNCHANGED transfer)

RepeatSpec == RepeatInit /\ [][RepeatNext]_rvars
=============================================================================
