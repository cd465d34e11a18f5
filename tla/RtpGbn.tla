------------------------------- MODULE RtpGbn -------------------------------
(***************************************************************************)
(* The plain protocol: sendMessage against recvMessage.  ACKs are          *)
(* cumulative (seq_num is the next segment the receiver expects), the      *)
(* receiver caches packets that arrive early, and a timeout takes          *)
(* next_seq_num back to send_base.                                         *)
(***************************************************************************)
EXTENDS Rtp

vars == commonVars

Init == CommonInit

-----------------------------------------------------------------------------
(* sendMessage: a turn of its loop is a send part, a receive part and a    *)
(* timer part, with a system call in each where others may run.            *)

\* Mutant: one packet more than the window.
MaySendOneMore == send_base <= next_seq_num /\ next_seq_num <= send_base + SenderWindow

MaySend == send_base <= next_seq_num /\ next_seq_num < send_base + SenderWindow

\* Mutant: the loop ends one segment early.
SendMessageReturnsEarly ==
    /\ spc = "send"
    /\ send_base >= seg_len - 1
    /\ timer' = FALSE
    /\ spc' = "sent"
    /\ UNCHANGED <<send_base, next_seq_num, receiver, network>>

SendMessageReturns ==
    /\ spc = "send"
    /\ send_base >= seg_len
    /\ timer' = FALSE
    /\ spc' = "sent"
    /\ UNCHANGED <<send_base, next_seq_num, receiver, network>>

\* Mutant: the timer is left to the first window move.
SendNextUnarmed ==
    /\ spc = "send"
    /\ send_base < seg_len
    /\ MaySend
    /\ toR' = toR \cup {DataPacket(next_seq_num)}
    /\ next_seq_num' = next_seq_num + 1
    /\ spc' = "recv"
    /\ UNCHANGED <<send_base, timer, receiver, toS>>

\* The timer is armed by the first packet, and stays armed from then on.
SendNext ==
    /\ spc = "send"
    /\ send_base < seg_len
    /\ MaySend
    /\ toR' = toR \cup {DataPacket(next_seq_num)}
    /\ next_seq_num' = next_seq_num + 1
    /\ timer' = TRUE
    /\ spc' = "recv"
    /\ UNCHANGED <<send_base, receiver, toS>>

SendNothing ==
    /\ spc = "send"
    /\ send_base < seg_len
    /\ ~MaySend
    /\ spc' = "recv"
    /\ UNCHANGED <<send_base, next_seq_num, timer, receiver, network>>

\* Mutant: an ACK is read as the number of a packet received.
RecvAckOfReceived(a) ==
    /\ spc = "recv"
    /\ a \in toS
    /\ send_base' = IF send_base <= a THEN a + 1 ELSE send_base
    /\ timer' = (timer \/ send_base <= a)
    /\ spc' = "timer"
    /\ UNCHANGED <<next_seq_num, receiver, network>>

\* An intact ACK moves send_base, which restarts the timer, or changes nothing.
RecvAck(a) ==
    /\ spc = "recv"
    /\ a \in toS
    /\ send_base' = IF send_base < a THEN a ELSE send_base
    /\ timer' = (timer \/ send_base < a)
    /\ spc' = "timer"
    /\ UNCHANGED <<next_seq_num, receiver, network>>

\* No datagram is waiting, or a corrupt one.
RecvNoAck ==
    /\ spc = "recv"
    /\ spc' = "timer"
    /\ UNCHANGED <<send_base, next_seq_num, timer, receiver, network>>

\* Mutant: the timer is armed again but nothing is sent again.
TimerExpiredNoRewind ==
    /\ spc = "timer"
    /\ timer
    /\ spc' = "send"
    /\ UNCHANGED <<send_base, next_seq_num, timer, receiver, network>>

\* timer_fd has expired: go back to send_base and arm the timer again.
TimerExpired ==
    /\ spc = "timer"
    /\ timer
    /\ next_seq_num' = send_base
    /\ spc' = "send"
    /\ UNCHANGED <<send_base, timer, receiver, network>>

TimerRunning ==
    /\ spc = "timer"
    /\ spc' = "send"
    /\ UNCHANGED <<send_base, next_seq_num, timer, receiver, network>>

-----------------------------------------------------------------------------
(* recvMessage: every datagram that is not an accepted END is answered     *)
(* with the number of the next segment to write.                           *)

\* Mutant: the reply counts one segment too many.
ReplyBeyond == toS' = toS \cup {recv_base' + 1}

ReplyNextExpected == toS' = toS \cup {recv_base'}

RecvData(m) ==
    /\ rpc = "loop"
    /\ m \in toR /\ m.type = "DATA"
    /\ Flush(CacheWith(m))
    /\ ReplyNextExpected
    /\ UNCHANGED <<sender, rpc, toR>>

\* A corrupt copy of some packet, a repeated START, or an END beyond recv_base.
RecvOther ==
    /\ rpc = "loop"
    /\ toR # {}
    /\ Flush(packet_cache)
    /\ ReplyNextExpected
    /\ UNCHANGED <<sender, rpc, toR>>

-----------------------------------------------------------------------------
SendMessage ==
    \/ SendMessageReturns \/ SendNext \/ SendNothing
    \/ (\E a \in toS : RecvAck(a)) \/ RecvNoAck
    \/ TimerExpired \/ TimerRunning

RecvMessage ==
    \/ \E m \in toR : RecvData(m) \/ RecvEnd(m)
    \/ RecvOther
    \/ RecvTimeout

Lose == LoseSomeData \/ (\E a \in toS : LoseAck(a))

Next ==
    \/ InitTerminate \/ SendMessage
    \/ InitReceiverStart \/ InitReceiverFails \/ RecvMessage
    \/ Lose

Spec == Init /\ [][Next]_vars

-----------------------------------------------------------------------------
(* Safety of the plain protocol.                                           *)

\* An ACK in flight, however old, confirms only segments already written;
\* the ACK of START is the exception and is read only by initSender.
AcksAreWritten ==
    \A a \in toS : a <= Len(out) \/ (a = StartSeq /\ spc \in {"wait", "failed"})

\* The sender never idles without a running timer: whenever the window, or
\* next_seq_num left behind by a jump of send_base, keeps it from sending,
\* timer_fd is armed and will restart it.
TimerGuards == spc = "send" /\ send_base < seg_len /\ ~MaySend => timer

-----------------------------------------------------------------------------
(* The inductive invariant behind the properties above.                    *)

\* The sender knows less than the receiver has.
BaseInv ==
    /\ send_base <= recv_base
    /\ \A a \in toS : a <= recv_base \/ (a = StartSeq /\ spc \in {"wait", "failed"})
    /\ spc \in Delivered => send_base >= seg_len

IInv == PacketsInv /\ StartInv /\ CacheInv /\ BaseInv /\ TimerInv /\ CleanClose

-----------------------------------------------------------------------------
(* Liveness.  The sender's thread and the receiver's thread keep running;  *)
(* the network may lose any copy of a packet but not every copy of one     *)
(* that is sent again and again, and keeps none for ever; timers expire.   *)
(* The receiver's 10 s timers are only required to expire once nothing can *)
(* arrive any more.                                                        *)

\* An ACK that is in flight again and again is read again and again by a
\* sender that keeps reading: SF_vars(RecvAck(a)) would let every copy be lost
\* between two reads.
AckGetsThrough(a) ==
    []<>(a \in toS) /\ []<>(spc = "recv") => []<><<RecvAck(a)>>_vars

Quiet == spc \in {"closed", "failed"} /\ toR = {}

Fairness ==
    /\ WF_vars(SendMessage \/ InitTerminate)
    /\ SF_vars(TimerExpired)
    /\ \A a \in Slot : AckGetsThrough(a)
    /\ \A p \in Slot : SF_vars(RecvData(DataPacket(p)))
    /\ WF_vars(LoseSomeData)
    /\ WF_vars(Quiet /\ (RecvTimeout \/ InitReceiverFails))

FairSpec == Spec /\ Fairness

\* Once connected, sendMessage returns and the sender closes, unless the
\* receiver gave up after 10 silent seconds.
SenderFinishes == spc = "send" ~> (spc = "closed" \/ rpc = "timeout")

\* The receiver's two calls always return, even if every END is lost.
ReceiverReturns == <>(rpc \in {"ok", "timeout", "refused"})

-----------------------------------------------------------------------------
(* What the documents promise and the code does not keep.                  *)

\* sender_def.h: sendMessage returns -1 when sending fails.  With a receiver
\* that has given up, the loop of sendMessage has no way out.
SenderReturns == <>(spc \in {"closed", "failed"})
=============================================================================
