------------------------------- MODULE RtpOpt -------------------------------
(***************************************************************************)
(* The optimised protocol: sendMessageOpt against recvMessageOpt.  Each    *)
(* DATA packet is acknowledged by its own seq_num, the sender remembers    *)
(* which ones are (acked), and a timeout resends only the others.          *)
(***************************************************************************)
EXTENDS Rtp

CONSTANT AckedSize  \* length of acked

ASSUME AckedAssumption == AckedSize \in Nat /\ AckedSize >= CacheSize

\* The receiver acknowledges packets beyond its window and drops them, so the
\* protocol depends on the two windows being equal, as the lab promises.
ASSUME EqualWindows == SenderWindow <= ReceiverWindow

VARIABLE acked      \* the indices of acked that are 1

vars == <<commonVars, acked>>

Init == CommonInit /\ acked = {}

-----------------------------------------------------------------------------
(* sendMessageOpt, in the three parts of one turn of its loop.             *)

\* timer_fd is neither disarmed nor closed on this path.
SendMessageOptReturns ==
    /\ spc = "send"
    /\ send_base >= seg_len
    /\ spc' = "sent"
    /\ UNCHANGED <<send_base, next_seq_num, timer, receiver, network, acked>>

\* next_seq_num is first brought up to send_base.
NextToSend == IF next_seq_num < send_base THEN send_base ELSE next_seq_num

\* Mutant: one packet more than the window.
RoomForOneMore == NextToSend <= send_base + SenderWindow

RoomInWindow == NextToSend < send_base + SenderWindow

SendNextOpt ==
    /\ spc = "send"
    /\ send_base < seg_len
    /\ RoomInWindow
    /\ toR' = toR \cup {DataPacket(NextToSend)}
    /\ next_seq_num' = NextToSend + 1
    /\ timer' = TRUE
    /\ spc' = "recv"
    /\ UNCHANGED <<send_base, receiver, toS, acked>>

SendNothingOpt ==
    /\ spc = "send"
    /\ send_base < seg_len
    /\ ~RoomInWindow
    /\ next_seq_num' = NextToSend
    /\ spc' = "recv"
    /\ UNCHANGED <<send_base, timer, receiver, network, acked>>

\* The while loop over acked[send_base]; any move restarts the timer.
AdvanceBase ==
    /\ \E n \in send_base .. AckedSize :
        /\ n \notin acked'
        /\ send_base .. n - 1 \subseteq acked'
        /\ send_base' = n
    /\ timer' = (timer \/ send_base' > send_base)

\* Mutant: an ACK is taken for a cumulative one.
RecvAckOptCumulative(a) ==
    /\ spc = "recv"
    /\ a \in toS
    /\ acked' = acked \cup 0 .. a
    /\ AdvanceBase
    /\ spc' = "timer"
    /\ UNCHANGED <<next_seq_num, receiver, network>>

RecvAckOpt(a) ==
    /\ spc = "recv"
    /\ a \in toS
    /\ acked' = acked \cup {a}
    /\ AdvanceBase
    /\ spc' = "timer"
    /\ UNCHANGED <<next_seq_num, receiver, network>>

\* No datagram is waiting, or a corrupt one.
RecvNoAckOpt ==
    /\ spc = "recv"
    /\ acked' = acked
    /\ AdvanceBase
    /\ spc' = "timer"
    /\ UNCHANGED <<next_seq_num, receiver, network>>

\* Mutants: the test of acked[p] is dropped; the loop starts after send_base.
UnconfirmedAll == send_base .. next_seq_num - 1
UnconfirmedAfterBase == {p \in send_base + 1 .. next_seq_num - 1 : p \notin acked}

\* send_again: every packet of the window that no ACK has confirmed.
Unconfirmed == {p \in send_base .. next_seq_num - 1 : p \notin acked}

TimerExpiredOpt ==
    /\ spc = "timer"
    /\ timer
    /\ toR' = toR \cup {DataPacket(p) : p \in Unconfirmed}
    /\ spc' = "send"
    /\ UNCHANGED <<send_base, next_seq_num, timer, receiver, toS, acked>>

TimerRunningOpt ==
    /\ spc = "timer"
    /\ spc' = "send"
    /\ UNCHANGED <<send_base, next_seq_num, timer, receiver, network, acked>>

-----------------------------------------------------------------------------
(* recvMessageOpt: an intact DATA packet is cached if it is in the window, *)
(* and acknowledged by its own seq_num in the window or not; nothing else  *)
(* is. The loop that writes comes after the sendto of the ACK, which the   *)
(* sender may read first.                                                  *)

\* Mutants: the reply of the plain protocol; the turn ends with the ACK.
RecvDataOptReplyNext(m) ==
    /\ rpc = "loop"
    /\ m \in toR /\ m.type = "DATA"
    /\ packet_cache' = CacheWith(m)
    /\ toS' = toS \cup {recv_base}
    /\ rpc' = "flush"
    /\ UNCHANGED <<sender, recv_base, out, toR, acked>>

RecvDataOptNoFlush(m) ==
    /\ rpc = "loop"
    /\ m \in toR /\ m.type = "DATA"
    /\ packet_cache' = CacheWith(m)
    /\ toS' = toS \cup {m.seq}
    /\ rpc' = IF m.seq = recv_base THEN "loop" ELSE "flush"
    /\ UNCHANGED <<sender, recv_base, out, toR, acked>>

RecvDataOpt(m) ==
    /\ rpc = "loop"
    /\ m \in toR /\ m.type = "DATA"
    /\ packet_cache' = CacheWith(m)
    /\ toS' = toS \cup {m.seq}
    /\ rpc' = "flush"
    /\ UNCHANGED <<sender, recv_base, out, toR, acked>>

\* A corrupt copy of some packet, a repeated START, or an END beyond recv_base.
RecvOtherOpt ==
    /\ rpc = "loop"
    /\ toR # {}
    /\ rpc' = "flush"
    /\ UNCHANGED <<sender, recv_base, packet_cache, out, network, acked>>

FlushOpt ==
    /\ rpc = "flush"
    /\ Flush(packet_cache)
    /\ rpc' = "loop"
    /\ UNCHANGED <<sender, network, acked>>

-----------------------------------------------------------------------------
SendMessageOpt ==
    \/ SendMessageOptReturns \/ SendNextOpt \/ SendNothingOpt
    \/ (\E a \in toS : RecvAckOpt(a)) \/ RecvNoAckOpt
    \/ TimerExpiredOpt \/ TimerRunningOpt

Common ==
    \/ InitTerminate \/ InitReceiverStart \/ InitReceiverFails
    \/ (\E m \in toR : RecvEnd(m)) \/ RecvTimeout
    \/ LoseSomeData \/ (\E a \in toS : LoseAck(a))

Next ==
    \/ SendMessageOpt
    \/ (\E m \in toR : RecvDataOpt(m)) \/ RecvOtherOpt \/ FlushOpt
    \/ Common /\ UNCHANGED acked

Spec == Init /\ [][Next]_vars

-----------------------------------------------------------------------------
(* Safety of the optimised protocol.                                       *)

TypeOK == CommonTypeOK /\ acked \in SUBSET Nat

Held(p) == p < recv_base \/ (p \in Slot /\ packet_cache[p] # NoPacket)

\* sendMessageOpt returns 0 only when the receiver holds every segment: each is
\* written, or in the cache while recvMessageOpt is on its way from the ACK it has
\* sent (line 312) to the loop that writes (line 334). It never waits for another
\* packet, nor returns, with a segment of the file unwritten.
SentMeansHeld ==
    spc \in Delivered =>
        /\ \A p \in 0 .. seg_len - 1 : Held(p)
        /\ Len(out) >= seg_len \/ rpc = "flush"

\* A packet that the sender has recorded as received, or that an ACK in flight
\* will make it record, is written or in the receiver's cache: the sender
\* never resends it, so losing it now would lose it for good.  (The ACK of
\* START is read by initSender only.)
AckedMeansHeld ==
    \A p \in acked \cup toS :
        Held(p) \/ (p = StartSeq /\ p \notin acked /\ spc \in {"wait", "failed"})
                \/ (p = recv_base /\ rpc = "ok" /\ spc \notin Looping)

\* acked[ack.seq_num] is written without a test: the index is in the array.
AckIndexInBounds == acked \subseteq 0 .. AckedSize - 1

\* No step puts a packet back on the wire once its ACK has been read: a
\* timeout resends only what is still unconfirmed, and next_seq_num never
\* steps back over a confirmed packet.
ConfirmedNeverResent ==
    [][\A m \in toR' \ toR : m.type = "DATA" => m.seq \notin acked]_vars

-----------------------------------------------------------------------------
(* The inductive invariant behind the properties above.                    *)

\* What the sender takes for received was sent and is held by the receiver, and
\* send_base has all of it behind it. An ACK in flight that says anything else
\* is that of START, before the transfer, or that of END, after it.
AckedInv ==
    /\ 0 .. send_base - 1 \subseteq acked
    /\ \A p \in acked : Held(p) /\ p < next_seq_num
    /\ \A p \in toS :
        \/ Held(p) /\ p < next_seq_num
        \/ p = StartSeq /\ spc \in {"wait", "failed"}
        \/ p = recv_base /\ rpc = "ok"
    /\ rpc = "ok" => spc \in {"fin", "closed", "failed"}

\* next_seq_num stays within the window, and ahead of every packet in flight.
SentInv ==
    /\ next_seq_num <= send_base + SenderWindow
    /\ next_seq_num < seg_len + SenderWindow
    /\ \A m \in toR : m.type = "DATA" => m.seq < next_seq_num
    /\ spc \in Delivered => send_base >= seg_len

\* Between two turns of recvMessageOpt nothing is left to flush.
FlushedInv == rpc # "flush" => packet_cache[recv_base] = NoPacket

IInv == PacketsInv /\ StartInv /\ CacheInv /\ FlushedInv /\ SentInv /\ AckedInv

-----------------------------------------------------------------------------
(* Liveness, under the same assumptions about threads, network and timers  *)
(* as for the plain protocol.                                              *)

AckGetsThrough(a) ==
    []<>(a \in toS) /\ []<>(spc = "recv") => []<><<RecvAckOpt(a)>>_vars

DataGetsThrough(p) ==
    []<>(DataPacket(p) \in toR) /\ []<>(rpc = "loop")
        => []<><<RecvDataOpt(DataPacket(p))>>_vars

Fairness ==
    /\ WF_vars(SendMessageOpt \/ (InitTerminate /\ UNCHANGED acked))
    /\ SF_vars(TimerExpiredOpt)
    /\ \A a \in Slot : AckGetsThrough(a) /\ DataGetsThrough(a)
    /\ WF_vars(FlushOpt)

FairSpec == Spec /\ Fairness

\* Once connected, sendMessageOpt returns and the sender closes, unless the
\* receiver gave up after 10 silent seconds.
SenderFinishes == spc = "send" ~> (spc = "closed" \/ rpc = "timeout")

-----------------------------------------------------------------------------
(* The abstract transfer of this protocol.                                 *)

\* The positions of the segments that the receiver holds.
Kept == {i \in 1 .. CacheSize : Held(i - 1)}

Cached == INSTANCE CachedTransfer
              WITH sending <- Sending, receiving <- Receiving, written <- out, held <- Kept

\* The callers of the optimised protocol see a growing prefix of the file and
\* success for all of it only, but for the last segments, which the sender may
\* take for written while the receiver only holds them. Every step is a step of
\* the abstract transfer, or none.
ImplementsCachedTransfer == Cached!SpecHeld
=============================================================================
