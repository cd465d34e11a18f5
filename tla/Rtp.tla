-------------------------------- MODULE Rtp --------------------------------
(***************************************************************************)
(* RTP over UDP (Lab2): what the plain and the optimised protocol share.   *)
(* The module holds the state of one sender (sender_def.c), one receiver   *)
(* (receiver_def.c) and the datagrams between them, the connection set-up  *)
(* (initSender, initReceiver), the tear-down (terminateSender, the END     *)
(* branch of recvMessage) and the network.  RtpGbn and RtpOpt add the two  *)
(* pairs of transfer loops.                                                *)
(*                                                                         *)
(* A datagram stays in flight until it is lost: a step that receives it    *)
(* leaves it there, so it can arrive again, late and out of order.         *)
(* Corruption happens at delivery.  A CRC-32 that matches by accident is   *)
(* not modelled: compute_checksum tells an intact packet from a bad one.   *)
(***************************************************************************)
EXTENDS Integers, Sequences

CONSTANTS
    Segment,        \* non-empty payloads of at most 1461 bytes
    Empty,          \* the payload of a packet whose fread returned nothing
    File,           \* the sender's file, cut into file_statics(message) segments
    NoPacket,       \* packet_cache entry whose cached flag is 0
    SenderWindow,   \* window_size given to initSender
    ReceiverWindow, \* window_size given to initReceiver
    CacheSize,      \* length of packet_cache and cached
    StartSeq,       \* the value of rand() in initSender
    StartAckOnce    \* TRUE: the network delivers the ACK of START only once

Payload == Segment \cup {Empty}
seg_len == Len(File)
Slot == 0 .. CacheSize - 1

ASSUME FileAssumption == File \in Seq(Payload) /\ File # << >>
ASSUME NoPacketAssumption == NoPacket \notin Payload
ASSUME WindowAssumption ==
    SenderWindow \in Nat \ {0} /\ ReceiverWindow \in Nat \ {0}
ASSUME CacheAssumption ==
    CacheSize \in Nat /\ CacheSize >= seg_len + SenderWindow
ASSUME StartAssumption == StartSeq \in Nat /\ StartAckOnce \in BOOLEAN

VARIABLES
    spc,            \* where the sender is
    send_base,      \* first segment not known to be received
    next_seq_num,   \* next segment to send
    timer,          \* TRUE while timer_fd is armed
    rpc,            \* where the receiver is
    recv_base,      \* next segment to write
    packet_cache,   \* packet_cache and cached: payload per sequence number
    out,            \* the payloads written to the output file, in order
    toR,            \* packets in flight to the receiver
    toS             \* seq_num of the ACKs in flight to the sender

sender == <<spc, send_base, next_seq_num, timer>>
receiver == <<rpc, recv_base, packet_cache, out>>
network == <<toR, toS>>
commonVars == <<spc, send_base, next_seq_num, timer,
                rpc, recv_base, packet_cache, out, toR, toS>>

(***************************************************************************)
(* Sender places: "init" before initSender, "wait" for the ACK of START,   *)
(* "send", "recv" and "timer" the three parts of one turn of the transfer  *)
(* loop, "sent" after sendMessage returned 0, "fin" waiting for the ACK of *)
(* END, "closed" after terminateSender, "failed" after initSender returned *)
(* -1.  Receiver places: "listen" in initReceiver, "loop" before the        *)
(* recvfrom of recvMessage, "flush" (RtpOpt) between it and the loop that  *)
(* writes, "ok" after END, "timeout" and "refused" after recvMessage and   *)
(* initReceiver returned -1.                                               *)
(***************************************************************************)
Looping == {"send", "recv", "timer"}
Delivered == {"sent", "fin", "closed"}
SenderPlace == {"init", "wait", "failed"} \cup Looping \cup Delivered
ReceiverPlace == {"listen", "loop", "flush", "ok", "timeout", "refused"}

\* What fread returns after fseek to byte p * 1461: past the end, nothing.
PayloadAt(p) == IF p < seg_len THEN File[p + 1] ELSE Empty

StartPacket == [type |-> "START", seq |-> StartSeq, data |-> Empty]
\* Mutant: END carries the number of the last packet, not of the next.
EndPacketOfLast(n) == [type |-> "END", seq |-> n - 1, data |-> Empty]

EndPacket(n) == [type |-> "END", seq |-> n, data |-> Empty]

\* Mutant: fseek to the following segment.
DataPacketOfNext(p) == [type |-> "DATA", seq |-> p, data |-> PayloadAt(p + 1)]

DataPacket(p) == [type |-> "DATA", seq |-> p, data |-> PayloadAt(p)]

Packet == [type : {"START", "END", "DATA"}, seq : Nat, data : Payload]

CommonTypeOK ==
    /\ spc \in SenderPlace
    /\ send_base \in Nat
    /\ next_seq_num \in Nat
    /\ timer \in BOOLEAN
    /\ rpc \in ReceiverPlace
    /\ recv_base \in Nat
    /\ packet_cache \in [Slot -> Payload \cup {NoPacket}]
    /\ out \in Seq(Payload)
    /\ toR \subseteq Packet
    /\ toS \subseteq Nat

CommonInit ==
    /\ spc = "init"
    /\ send_base = 0
    /\ next_seq_num = 0
    /\ timer = FALSE
    /\ rpc = "listen"
    /\ recv_base = 0
    /\ packet_cache = [s \in Slot |-> NoPacket]
    /\ out = << >>
    /\ toR = {}
    /\ toS = {}

-----------------------------------------------------------------------------
(* initSender and terminateSender.                                         *)

\* socket() or the first sendto() fails: -1, and no packet has left.
InitSenderNoSocket ==
    /\ spc = "init"
    /\ spc' = "failed"
    /\ UNCHANGED <<send_base, next_seq_num, timer, receiver, network>>

InitSenderStart ==
    /\ spc = "init"
    /\ toR' = toR \cup {StartPacket}
    /\ spc' = "wait"
    /\ UNCHANGED <<send_base, next_seq_num, timer, receiver, toS>>

\* Mutant: the ACK is looked at but stays in the socket.
InitSenderAckedPeeks ==
    /\ spc = "wait"
    /\ StartSeq \in toS
    /\ spc' = "send"
    /\ UNCHANGED <<send_base, next_seq_num, timer, receiver, network>>

\* The intact ACK of START is the first datagram read.
InitSenderAcked ==
    /\ spc = "wait"
    /\ StartSeq \in toS
    /\ toS' = IF StartAckOnce THEN toS \ {StartSeq} ELSE toS
    /\ spc' = "send"
    /\ UNCHANGED <<send_base, next_seq_num, timer, receiver, toR>>

\* 100 ms pass, or the first datagram is corrupt or another ACK: END with
\* seq_num 0, close, return -1.
InitSenderGivesUp ==
    /\ spc = "wait"
    /\ toR' = toR \cup {EndPacket(0)}
    /\ spc' = "failed"
    /\ UNCHANGED <<send_base, next_seq_num, timer, receiver, toS>>

\* END carries send_base.
TerminateSenderEnd ==
    /\ spc = "sent"
    /\ toR' = toR \cup {EndPacket(send_base)}
    /\ spc' = "fin"
    /\ UNCHANGED <<send_base, next_seq_num, timer, receiver, toS>>

\* Any datagram, or 100 ms without one, ends the wait; the socket is closed
\* before the reply is looked at, and every branch returns.
TerminateSenderClose ==
    /\ spc = "fin"
    /\ spc' = "closed"
    /\ UNCHANGED <<send_base, next_seq_num, timer, receiver, network>>

InitTerminate ==
    \/ InitSenderNoSocket \/ InitSenderStart
    \/ InitSenderAcked \/ InitSenderGivesUp
    \/ TerminateSenderEnd \/ TerminateSenderClose

-----------------------------------------------------------------------------
(* initReceiver, and the parts of recvMessage and recvMessageOpt that are  *)
(* the same.                                                               *)

\* The first datagram is an intact START: ACK it and enter recvMessage,
\* which clears the cache (memset of packet_cache and cached).
InitReceiverStart ==
    /\ rpc = "listen"
    /\ \E m \in toR :
        /\ m.type = "START"
        /\ toS' = toS \cup {m.seq}
    /\ packet_cache' = [s \in Slot |-> NoPacket]
    /\ rpc' = "loop"
    /\ UNCHANGED <<sender, recv_base, out, toR>>

\* socket, bind or sendto fails, 10 s pass, or the first datagram is corrupt
\* or no START: close and return -1.
InitReceiverFails ==
    /\ rpc = "listen"
    /\ rpc' = "refused"
    /\ UNCHANGED <<sender, recv_base, packet_cache, out, network>>

\* The test that lets a DATA packet into the cache.
InWindow(p) == recv_base + ReceiverWindow > p /\ recv_base <= p

\* The while loop over cached[recv_base]: write every payload up to the first
\* one that is missing in cache, or up to the end of the array.
Flush(cache) ==
    \E n \in recv_base .. CacheSize :
        /\ n < CacheSize => cache[n] = NoPacket
        /\ \A k \in recv_base .. n - 1 : cache[k] # NoPacket
        /\ packet_cache' = cache
        /\ recv_base' = n
        /\ out' = out \o [i \in 1 .. n - recv_base |-> cache[recv_base + i - 1]]

\* The intact DATA packet m goes into the cache if it is in the window.
CacheWith(m) ==
    IF InWindow(m.seq) THEN [packet_cache EXCEPT ![m.seq] = m.data]
                       ELSE packet_cache

\* An intact END not beyond recv_base: ACK it, close the file, return its size.
RecvEnd(m) ==
    /\ rpc = "loop"
    /\ m \in toR /\ m.type = "END" /\ m.seq <= recv_base
    /\ toS' = toS \cup {recv_base}
    /\ rpc' = "ok"
    /\ UNCHANGED <<sender, recv_base, packet_cache, out, toR>>

\* Mutant: the 10 s timer is never armed.
RecvTimeoutUnarmed == FALSE /\ UNCHANGED commonVars

\* The 10 s timer read at the top of the loop: return -1.
RecvTimeout ==
    /\ rpc = "loop"
    /\ rpc' = "timeout"
    /\ UNCHANGED <<sender, recv_base, packet_cache, out, network>>

-----------------------------------------------------------------------------
(* The network.                                                            *)

LoseData(m) ==
    /\ m \in toR
    /\ toR' = toR \ {m}
    /\ UNCHANGED <<sender, receiver, toS>>

LoseSomeData == \E m \in toR : LoseData(m)

LoseAck(a) ==
    /\ a \in toS
    /\ toS' = toS \ {a}
    /\ UNCHANGED <<sender, receiver, toR>>

-----------------------------------------------------------------------------
(* What both protocols must keep.                                          *)

\* The output file is the stream the sender reads, up to recv_base: no
\* segment is written twice, skipped, out of order or from a bad packet,
\* whatever the network does (the flush loop of recvMessage).
OutputIsFile == out = [i \in 1 .. recv_base |-> PayloadAt(i - 1)]

\* sendMessage returns 0 only when the receiver has written every segment:
\* send_base, which the sender learns from ACKs alone, never runs ahead of
\* recv_base.
SentMeansWritten == spc \in Delivered => Len(out) >= seg_len

\* recvMessage accepts an END only after the whole file, or before any byte
\* of it when initSender has given up: an END is never taken mid-file.
CleanClose ==
    rpc = "ok" => \/ Len(out) >= seg_len
                  \/ spc = "failed" /\ out = << >>

\* sendMessage does not stop at the last segment, it fills its window with
\* empty packets beyond it: no packet the window lets out, and no recv_base,
\* is past the end of packet_cache.
PacketsFitCache ==
    /\ \A m \in toR : m.type = "DATA" => m.seq < CacheSize
    /\ recv_base < CacheSize

\* Of the packets the sender has not seen acknowledged at most window_size
\* are in transit, counting the late copies of earlier turns.
WindowRespected ==
    \A m \in toR : m.type = "DATA" => m.seq < send_base + SenderWindow

-----------------------------------------------------------------------------
(* Parts of the inductive invariants that both protocols share.            *)

NotConnected == spc \in {"init", "wait", "failed"}

\* What can be in flight to the receiver, and when.
PacketsInv ==
    \A m \in toR :
        /\ spc # "init"
        /\ m.type = "START" => m.seq = StartSeq
        /\ m.type = "END" => spc \in {"fin", "closed", "failed"}
        /\ m.type = "DATA" =>
            /\ ~NotConnected
            /\ m.data = PayloadAt(m.seq)
            /\ m.seq < send_base + SenderWindow
            /\ m.seq < seg_len + SenderWindow - 1

\* Before a connection nothing has moved.
StartInv ==
    /\ NotConnected => /\ send_base = 0 /\ next_seq_num = 0 /\ recv_base = 0
                       /\ packet_cache = [s \in Slot |-> NoPacket]
    /\ rpc \in {"listen", "refused"} => NotConnected /\ toS = {}
    /\ spc = "init" => toS = {}

\* The receiver holds only segments of the stream, and writes them in order.
CacheInv ==
    /\ \A s \in Slot : packet_cache[s] # NoPacket =>
            packet_cache[s] = PayloadAt(s) /\ s < seg_len + SenderWindow - 1
    /\ recv_base < seg_len + SenderWindow
    /\ OutputIsFile

\* From its first packet on the transfer loop has an armed timer.
TimerInv ==
    spc \in Looping => timer \/ (spc = "send" /\ send_base = 0 /\ next_seq_num = 0)

-----------------------------------------------------------------------------
(* The abstract transfer these variables stand for.                        *)

Sending ==
    CASE spc \in {"init", "wait"} -> "trying"
      [] spc \in Looping -> "busy"
      [] spc \in Delivered -> "ok"
      [] OTHER -> "failed"

Receiving ==
    CASE rpc = "listen" -> "idle"
      [] rpc \in {"loop", "flush"} -> "busy"
      [] OTHER -> rpc

Abstract == INSTANCE FileTransfer
                WITH sending <- Sending, receiving <- Receiving, written <- out

\* Every step of the protocol is a step of the abstract transfer, or none.
ImplementsTransfer == Abstract!Spec

=============================================================================
