---------------------------- MODULE RtpOptProof ----------------------------
(* Proofs about the optimised protocol.                                    *)
EXTENDS RtpOpt, RtpLemmas

\* Besides the steps it shares with the plain protocol, the optimised one has
\* the turns of its two transfer loops.
LEMMA NextSteps ==
    Next => \/ CommonStep /\ UNCHANGED acked
            \/ SendMessageOpt
            \/ (\E m \in toR : RecvDataOpt(m)) \/ RecvOtherOpt \/ FlushOpt
BY DEF Next, CommonStep, Common

\* Except while the receiver has something to flush, send_base is not beyond
\* recv_base: everything below it is confirmed, hence held by the receiver, which
\* does not hold the segment at recv_base.
LEMMA BaseIsWritten ==
    ASSUME TypeOK, CacheInv, FlushedInv, AckedInv, rpc # "flush"
    PROVE  send_base <= recv_base
<1> USE DEF TypeOK, CommonTypeOK
<1>1. SUFFICES ASSUME recv_base < send_base PROVE FALSE
  OBVIOUS
<1>2. recv_base \in acked
  BY <1>1 DEF AckedInv
<1>3. Held(recv_base)
  BY <1>2 DEF AckedInv
<1> QED BY <1>3 DEF Held, FlushedInv

\* So next_seq_num never lags behind send_base in one transfer: the assignment
\* that sendMessageOpt begins its send part with changes nothing.
LEMMA NothingToSkip ==
    ASSUME TypeOK, AckedInv
    PROVE  send_base <= next_seq_num /\ NextToSend = next_seq_num
<1> USE DEF TypeOK, CommonTypeOK
<1>1. send_base <= next_seq_num
  <2>1. SUFFICES ASSUME next_seq_num < send_base PROVE FALSE
    OBVIOUS
  <2>2. send_base - 1 \in 0 .. send_base - 1
    BY <2>1
  <2>3. send_base - 1 < next_seq_num
    BY <2>2 DEF AckedInv
  <2> QED BY <2>1, <2>3
<1> QED BY <1>1 DEF NextToSend

\* What the receiver holds it keeps: a flush writes it.
LEMMA FlushKeepsHeld ==
    ASSUME TypeOK, CacheInv, FlushOpt
    PROVE  /\ \A p \in Nat : Held(p) <=> Held(p)'
           /\ recv_base' \in Nat /\ recv_base <= recv_base' /\ CacheInv'
           /\ FlushedInv'
<1>1. recv_base \in Nat /\ recv_base' \in Nat /\ recv_base <= recv_base' /\ CacheInv'
  BY CacheHolds, FlushWritesStream DEF FlushOpt, TypeOK, CommonTypeOK
<1>2. PICK n \in recv_base .. CacheSize :
        /\ n < CacheSize => packet_cache[n] = NoPacket
        /\ \A k \in recv_base .. n - 1 : packet_cache[k] # NoPacket
        /\ packet_cache' = packet_cache
        /\ recv_base' = n
  BY DEF FlushOpt, Flush
<1>3. recv_base' < CacheSize /\ CacheSize \in Nat
  BY <1>1, StreamFacts, CacheAssumption, WindowAssumption DEF CacheInv, seg_len
<1>4. FlushedInv'
  BY <1>2, <1>3 DEF FlushedInv
<1>5. ASSUME NEW p \in Nat PROVE Held(p) <=> Held(p)'
  <2>1. p < recv_base' => p < recv_base \/ (p \in Slot /\ packet_cache[p] # NoPacket)
    BY <1>1, <1>2, <1>3 DEF Slot
  <2>2. p < recv_base => p < recv_base'
    BY <1>1
  <2> QED BY <1>2, <2>1, <2>2 DEF Held
<1> QED BY <1>1, <1>4, <1>5

-----------------------------------------------------------------------------
(* Types.                                                                  *)

\* The loop over acked leaves send_base a number, not before the old one and
\* with everything up to it confirmed.
LEMMA AdvanceMoves ==
    ASSUME TypeOK, AdvanceBase
    PROVE  /\ send_base' \in Nat /\ send_base <= send_base'
           /\ timer' \in BOOLEAN
           /\ send_base .. send_base' - 1 \subseteq acked'
<1>1. PICK n \in send_base .. AckedSize :
        send_base .. n - 1 \subseteq acked' /\ send_base' = n
  BY DEF AdvanceBase
<1>2. timer' = (timer \/ send_base' > send_base) /\ timer \in BOOLEAN
  BY DEF AdvanceBase, TypeOK, CommonTypeOK
<1> QED BY <1>1, <1>2, AckedAssumption DEF TypeOK, CommonTypeOK

LEMMA SenderTypes ==
    ASSUME TypeOK, SendMessageOpt
    PROVE  TypeOK'
<1> USE StreamFacts, WindowAssumption
    DEF TypeOK, CommonTypeOK, SenderPlace, Looping, Delivered, receiver, network
<1>1. \A p \in Nat : DataPacket(p) \in Packet
  BY DEF DataPacket, Packet
<1>2. NextToSend \in Nat
  BY DEF NextToSend
<1>3. CASE SendMessageOptReturns
  BY <1>3 DEF SendMessageOptReturns
<1>4. CASE SendNextOpt
  BY <1>1, <1>2, <1>4 DEF SendNextOpt
<1>5. CASE SendNothingOpt
  BY <1>2, <1>5 DEF SendNothingOpt
<1>6. ASSUME NEW a \in toS, RecvAckOpt(a) PROVE TypeOK'
  BY <1>6, AdvanceMoves DEF RecvAckOpt
<1>7. CASE RecvNoAckOpt
  BY <1>7, AdvanceMoves DEF RecvNoAckOpt
<1>8. CASE TimerExpiredOpt
  <2>1. {DataPacket(p) : p \in Unconfirmed} \subseteq Packet
    BY <1>1 DEF Unconfirmed
  <2> QED BY <1>8, <2>1 DEF TimerExpiredOpt
<1>9. CASE TimerRunningOpt
  BY <1>9 DEF TimerRunningOpt
<1> QED BY <1>3, <1>4, <1>5, <1>6, <1>7, <1>8, <1>9 DEF SendMessageOpt

LEMMA ReceiverTypes ==
    ASSUME TypeOK, PacketsInv, CacheInv,
           (\E m \in toR : RecvDataOpt(m)) \/ RecvOtherOpt \/ FlushOpt
    PROVE  TypeOK'
<1> USE DEF TypeOK, CommonTypeOK, ReceiverPlace
<1>1. ASSUME NEW m \in toR, RecvDataOpt(m) PROVE TypeOK'
  <2>1. m.seq \in Nat
    BY DEF Packet
  <2>2. Holds(CacheWith(m))
    BY <1>1, CacheWithHolds DEF RecvDataOpt
  <2> QED BY <1>1, <2>1, <2>2 DEF RecvDataOpt, sender, Holds
<1>2. CASE RecvOtherOpt
  BY <1>2 DEF RecvOtherOpt, sender, network
<1>3. CASE FlushOpt
  <2>1. /\ packet_cache' \in [Slot -> Payload \cup {NoPacket}]
        /\ recv_base' \in Nat /\ out' \in Seq(Payload)
    BY <1>3, CacheHolds, FlushWritesStream DEF FlushOpt
  <2> QED BY <1>3, <2>1 DEF FlushOpt, sender, network
<1> QED BY <1>1, <1>2, <1>3

-----------------------------------------------------------------------------
(* Each group of steps keeps the inductive invariant.                      *)

LEMMA CommonStepKeeps ==
    ASSUME TypeOK, IInv, StartAckOnce, CommonStep, UNCHANGED acked
    PROVE  IInv'
<1> USE DEF FlushedInv, SentInv, AckedInv, Held, Delivered, sender, receiver, network
<1>1. PacketsInv' /\ StartInv' /\ CacheInv'
  BY CommonKeeps DEF IInv, TypeOK
<1>2. CASE InitTerminate
  <2>1. CASE InitSenderAcked
    <3>1. /\ spc = "wait" /\ spc' = "send" /\ toS' = toS \ {StartSeq}
          /\ UNCHANGED <<send_base, next_seq_num, timer, receiver, toR>>
      BY <2>1 DEF InitSenderAcked
    <3> QED BY <1>1, <3>1 DEF IInv, seg_len
  <2>2. CASE InitSenderNoSocket
    BY <1>1, <2>2 DEF IInv, InitSenderNoSocket, StartInv, seg_len
  <2>3. CASE InitSenderStart
    BY <1>1, <2>3 DEF IInv, InitSenderStart, StartPacket, StartInv, seg_len
  <2>4. CASE InitSenderGivesUp
    BY <1>1, <2>4 DEF IInv, InitSenderGivesUp, EndPacket, seg_len
  <2>5. CASE TerminateSenderEnd
    BY <1>1, <2>5 DEF IInv, TerminateSenderEnd, EndPacket, seg_len
  <2>6. CASE TerminateSenderClose
    BY <1>1, <2>6 DEF IInv, TerminateSenderClose, seg_len
  <2> QED BY <1>2, <2>1, <2>2, <2>3, <2>4, <2>5, <2>6 DEF InitTerminate
<1>3. CASE InitReceiverStart
  <2>1. /\ NotConnected /\ toS' = {StartSeq} /\ spc \in {"wait", "failed"}
        /\ rpc = "listen" /\ rpc' = "loop"
    BY <1>3 DEF IInv, InitReceiverStart, PacketsInv, StartInv, NotConnected
  <2>2. UNCHANGED <<packet_cache, recv_base, sender, toR>>
    BY <1>3, <2>1 DEF IInv, InitReceiverStart, StartInv
  <2> QED BY <1>1, <2>1, <2>2 DEF IInv, seg_len
<1>4. CASE InitReceiverFails \/ RecvTimeout
  BY <1>1, <1>4 DEF IInv, InitReceiverFails, RecvTimeout, StartInv, NotConnected, seg_len
<1>5. ASSUME NEW m \in toR, RecvEnd(m) PROVE IInv'
  <2>1. spc \in {"fin", "closed", "failed"}
    BY <1>5 DEF IInv, RecvEnd, PacketsInv
  <2> QED BY <1>1, <1>5, <2>1 DEF IInv, RecvEnd, seg_len
<1>6. CASE LoseSomeData \/ \E a \in toS : LoseAck(a)
  BY <1>1, <1>6 DEF IInv, LoseSomeData, LoseData, LoseAck, seg_len
<1> QED BY <1>2, <1>3, <1>4, <1>5, <1>6 DEF CommonStep

\* What a step of sendMessageOpt adds to the packets in flight.
SendsBelow(n) ==
    \A m \in toR' : m \in toR \/ \E p \in Nat : m = DataPacket(p) /\ p < n

\* The steps of sendMessageOpt that send some packets or nothing.
LEMMA SendStep ==
    ASSUME TypeOK, IInv, TypeOK',
           spc \in Looping, spc' \in Looping,
           toR \subseteq toR', SendsBelow(next_seq_num'),
           next_seq_num <= next_seq_num',
           next_seq_num' <= send_base + SenderWindow,
           next_seq_num' < seg_len + SenderWindow,
           UNCHANGED <<send_base, receiver, toS, acked>>
    PROVE  IInv'
<1> USE DEF TypeOK, CommonTypeOK, Looping, Delivered, receiver
<1>1. ASSUME NEW m \in toR', m.type = "DATA"
      PROVE  m.seq < next_seq_num' /\ m.data = PayloadAt(m.seq)
  <2>1. CASE m \in toR
    <3>1. m.seq \in Nat
      BY <2>1 DEF Packet
    <3> QED BY <1>1, <2>1, <3>1 DEF IInv, PacketsInv, SentInv
  <2>2. CASE m \notin toR
    BY <2>2 DEF SendsBelow, DataPacket
  <2> QED BY <2>1, <2>2
<1>2. ASSUME NEW m \in toR', m.type # "DATA" PROVE m \in toR
  BY <1>2 DEF SendsBelow, DataPacket
<1>3. PacketsInv'
  <2>1. ASSUME NEW m \in toR', m.type = "DATA"
        PROVE  m.seq < send_base + SenderWindow /\ m.seq < seg_len + SenderWindow - 1
    <3>1. m.seq \in Nat
      BY DEF Packet
    <3> QED BY <1>1, <2>1, <3>1, StreamFacts, WindowAssumption
  <2>2. ASSUME NEW m \in toR'
        PROVE  (m.type = "START" => m.seq = StartSeq) /\ m.type # "END"
    BY <1>2, <2>2 DEF IInv, PacketsInv
  <2> QED BY <1>1, <2>1, <2>2 DEF PacketsInv, NotConnected, PayloadAt, seg_len
<1>4. StartInv' /\ FlushedInv'
  BY DEF IInv, StartInv, FlushedInv, NotConnected
<1>5. CacheInv'
  BY ReceiverUnchanged DEF IInv
<1>6. SentInv'
  BY <1>1 DEF SentInv, seg_len
<1>7. AckedInv'
  <2>1. \A p \in Nat : p < next_seq_num => p < next_seq_num'
    OBVIOUS
  <2>2. \A p \in Nat : Held(p) => Held(p)'
    BY DEF Held
  <2> QED BY <2>1, <2>2 DEF IInv, AckedInv
<1> QED BY <1>3, <1>4, <1>5, <1>6, <1>7 DEF IInv

\* An ACK that the transfer loop reads is that of a packet the receiver holds.
LEMMA AckIsHeld ==
    ASSUME IInv, spc = "recv", NEW a \in toS
    PROVE  Held(a) /\ a < next_seq_num
BY DEF IInv, AckedInv

\* The steps that read an ACK, or none, and advance send_base.
LEMMA AckStep ==
    ASSUME TypeOK, IInv, TypeOK', spc = "recv", spc' = "timer",
           AdvanceBase, acked \subseteq acked',
           \A p \in acked' : Held(p) /\ p < next_seq_num,
           UNCHANGED <<next_seq_num, receiver, network>>
    PROVE  IInv'
<1> USE DEF TypeOK, CommonTypeOK, Looping, Delivered, receiver, network
<1>1. PICK b \in Nat :
        send_base' = b /\ send_base <= b /\ send_base .. b - 1 \subseteq acked'
  BY AdvanceMoves
<1>2. PacketsInv'
  <2>1. ASSUME NEW m \in toR, m.type = "DATA" PROVE m.seq < send_base' + SenderWindow
    <3>1. m.seq \in Nat /\ m.seq < send_base + SenderWindow
      BY <2>1 DEF IInv, PacketsInv, Packet
    <3> QED BY <1>1, <3>1, WindowAssumption
  <2> QED BY <2>1 DEF IInv, PacketsInv, NotConnected, PayloadAt, seg_len
<1>3. StartInv' /\ FlushedInv'
  BY DEF IInv, StartInv, FlushedInv, NotConnected
<1>4. CacheInv'
  BY ReceiverUnchanged DEF IInv
<1>5. SentInv'
  <2>1. next_seq_num <= send_base + SenderWindow
    BY DEF IInv, SentInv
  <2>2. next_seq_num <= send_base' + SenderWindow
    <3>1. next_seq_num <= b + SenderWindow
      BY <1>1, <2>1, WindowAssumption
    <3> QED BY <1>1, <3>1
  <2> QED BY <2>2 DEF IInv, SentInv, seg_len
<1>6. AckedInv'
  <2>1. 0 .. send_base' - 1 \subseteq acked'
    <3>1. 0 .. send_base - 1 \subseteq acked'
      BY DEF IInv, AckedInv
    <3>2. \A p \in 0 .. b - 1 : p \in 0 .. send_base - 1 \/ p \in send_base .. b - 1
      BY <1>1
    <3> QED BY <1>1, <3>1, <3>2
  <2> QED BY <2>1 DEF IInv, AckedInv, Held
<1> QED BY <1>2, <1>3, <1>4, <1>5, <1>6 DEF IInv

LEMMA SendMessageOptStep ==
    ASSUME TypeOK, IInv, TypeOK', SendMessageOpt
    PROVE  IInv'
<1> USE DEF TypeOK, CommonTypeOK, Looping, receiver, network
<1>1. NextToSend = next_seq_num
  BY NothingToSkip DEF IInv
<1>2. next_seq_num <= send_base + SenderWindow /\ next_seq_num < seg_len + SenderWindow
  BY DEF IInv, SentInv
<1>3. CASE SendMessageOptReturns
  BY <1>3 DEF SendMessageOptReturns, IInv, PacketsInv, StartInv, CacheInv, OutputIsFile,
     FlushedInv, SentInv, AckedInv, Held, NotConnected, Delivered, PayloadAt, seg_len
<1>4. CASE SendNextOpt
  <2>1. /\ toR' = toR \cup {DataPacket(next_seq_num)}
        /\ next_seq_num' = next_seq_num + 1
        /\ next_seq_num < send_base + SenderWindow /\ send_base < seg_len
    BY <1>1, <1>4 DEF SendNextOpt, RoomInWindow
  <2>2. /\ next_seq_num' <= send_base + SenderWindow
        /\ next_seq_num' < seg_len + SenderWindow
        /\ next_seq_num < next_seq_num'
    BY <2>1, StreamFacts, WindowAssumption
  <2>3. toR \subseteq toR' /\ SendsBelow(next_seq_num')
    BY <2>1, <2>2 DEF SendsBelow
  <2>4. spc = "send" /\ spc' = "recv" /\ UNCHANGED <<send_base, receiver, toS, acked>>
    BY <1>4 DEF SendNextOpt
  <2> QED BY <2>2, <2>3, <2>4, SendStep
<1>5. CASE SendNothingOpt
  <2>1. /\ spc = "send" /\ spc' = "recv" /\ next_seq_num' = next_seq_num
        /\ UNCHANGED <<send_base, receiver, toR, toS, acked>>
    BY <1>1, <1>5 DEF SendNothingOpt
  <2>2. toR \subseteq toR' /\ SendsBelow(next_seq_num')
    BY <2>1 DEF SendsBelow
  <2> QED BY <1>2, <2>1, <2>2, SendStep
<1>6. ASSUME NEW a \in toS, RecvAckOpt(a) PROVE IInv'
  <2>1. \A p \in acked' : Held(p) /\ p < next_seq_num
    BY <1>6, AckIsHeld DEF RecvAckOpt, IInv, AckedInv
  <2> QED BY <1>6, <2>1, AckStep DEF RecvAckOpt
<1>7. CASE RecvNoAckOpt
  <2>1. \A p \in acked' : Held(p) /\ p < next_seq_num
    BY <1>7 DEF RecvNoAckOpt, IInv, AckedInv
  <2> QED BY <1>7, <2>1, AckStep DEF RecvNoAckOpt
<1>8. CASE TimerExpiredOpt
  <2>1. Unconfirmed \in SUBSET Nat /\ \A p \in Unconfirmed : p < next_seq_num
    BY DEF Unconfirmed
  <2>2. /\ spc = "timer" /\ spc' = "send" /\ next_seq_num' = next_seq_num
        /\ toR' = toR \cup {DataPacket(p) : p \in Unconfirmed}
        /\ UNCHANGED <<send_base, receiver, toS, acked>>
    BY <1>8 DEF TimerExpiredOpt
  <2>3. toR \subseteq toR' /\ SendsBelow(next_seq_num')
    BY <2>1, <2>2 DEF SendsBelow
  <2> QED BY <1>2, <2>2, <2>3, SendStep
<1>9. CASE TimerRunningOpt
  <2>1. /\ spc = "timer" /\ spc' = "send" /\ next_seq_num' = next_seq_num
        /\ UNCHANGED <<send_base, receiver, toR, toS, acked>>
    BY <1>9 DEF TimerRunningOpt
  <2>2. toR \subseteq toR' /\ SendsBelow(next_seq_num')
    BY <2>1 DEF SendsBelow
  <2> QED BY <1>2, <2>1, <2>2, SendStep
<1> QED BY <1>3, <1>4, <1>5, <1>6, <1>7, <1>8, <1>9 DEF SendMessageOpt

\* recvMessageOpt acknowledges whatever packet arrives; since the sender's window
\* is no larger than its own and send_base, when it reads a packet, not beyond
\* recv_base, it then holds it.
LEMMA RecvMessageOptStep ==
    ASSUME TypeOK, IInv, TypeOK',
           (\E m \in toR : RecvDataOpt(m)) \/ RecvOtherOpt \/ FlushOpt
    PROVE  IInv'
<1> USE DEF TypeOK, CommonTypeOK
<1>1. ASSUME NEW m \in toR, RecvDataOpt(m) PROVE IInv'
  <2>1. /\ m.type = "DATA" /\ m.seq \in Nat /\ m.seq < next_seq_num /\ ~NotConnected
        /\ m.seq < send_base + SenderWindow /\ m.seq < seg_len + SenderWindow - 1
        /\ m.data = PayloadAt(m.seq)
    BY <1>1 DEF RecvDataOpt, IInv, PacketsInv, SentInv, Packet
  <2>2. /\ packet_cache' = CacheWith(m) /\ toS' = toS \cup {m.seq}
        /\ rpc = "loop" /\ rpc' = "flush"
        /\ UNCHANGED <<sender, recv_base, out, toR, acked>>
    BY <1>1 DEF RecvDataOpt
  <2>3. Holds(CacheWith(m))
    BY <2>1, CacheWithHolds DEF IInv
  <2>4. PacketsInv' /\ StartInv' /\ FlushedInv'
    BY <2>1, <2>2 DEF IInv, PacketsInv, StartInv, FlushedInv, NotConnected, PayloadAt,
       seg_len, sender
  <2>5. CacheInv'
    BY <2>2, <2>3 DEF IInv, CacheInv, Holds, OutputIsFile, PayloadAt, seg_len
  <2>6. m.data \in Payload /\ m.data # NoPacket /\ m.seq \in Slot
    BY <2>1, StreamFacts, NoPacketAssumption, CacheAssumption, WindowAssumption DEF Slot
  <2>7. /\ \A p \in Nat : Held(p) => Held(p)'
        /\ Held(m.seq)'
    <3>1. send_base <= recv_base
      BY <2>2, BaseIsWritten DEF IInv
    <3>2. m.seq < recv_base \/ InWindow(m.seq)
      BY <2>1, <3>1, EqualWindows, WindowAssumption DEF InWindow
    <3> QED BY <2>2, <2>6, <3>2 DEF CacheWith, Held
  <2>8. SentInv' /\ AckedInv'
    BY <2>1, <2>2, <2>7 DEF IInv, SentInv, AckedInv, sender, Delivered, seg_len
  <2> QED BY <2>4, <2>5, <2>8 DEF IInv
<1>2. CASE RecvOtherOpt
  <2>1. /\ rpc = "loop" /\ rpc' = "flush"
        /\ UNCHANGED <<sender, recv_base, packet_cache, out, network, acked>>
    BY <1>2 DEF RecvOtherOpt
  <2>2. CacheInv'
    BY <2>1, ReceiverUnchanged DEF IInv
  <2>3. PacketsInv' /\ StartInv' /\ FlushedInv' /\ SentInv' /\ AckedInv'
    BY <2>1 DEF IInv, PacketsInv, StartInv, FlushedInv, SentInv, AckedInv, Held,
       NotConnected, Delivered, PayloadAt, seg_len, sender, network
  <2> QED BY <2>2, <2>3 DEF IInv
<1>3. CASE FlushOpt
  <2>1. rpc = "flush" /\ rpc' = "loop" /\ UNCHANGED <<sender, network, acked>>
    BY <1>3 DEF FlushOpt
  <2>2. PacketsInv' /\ StartInv' /\ CacheInv'
    BY <1>3, <2>1, CacheHolds, FlushKeeps DEF FlushOpt, IInv, network
  <2>3. (\A p \in Nat : Held(p) <=> Held(p)') /\ FlushedInv'
    BY <1>3, FlushKeepsHeld DEF IInv
  <2>4. SentInv' /\ AckedInv'
    BY <2>1, <2>3 DEF IInv, SentInv, AckedInv, sender, network, Delivered, seg_len
  <2> QED BY <2>2, <2>3, <2>4 DEF IInv
<1> QED BY <1>1, <1>2, <1>3

-----------------------------------------------------------------------------
(* The inductive invariant, and what follows from it.                      *)

\* Every reachable state is well typed and satisfies IInv, for every file, every
\* pair of windows with the sender's no larger than the receiver's and every
\* start number, when the network delivers the ACK of START only once: IInv
\* holds of the globals of sender_def.c and receiver_def.c at start and every
\* step of either side or of the network keeps it.
THEOREM Invariance ==
    ASSUME StartAckOnce
    PROVE  Spec => [](TypeOK /\ IInv)
<1>1. Init => TypeOK /\ IInv
  <2>1. SUFFICES ASSUME Init PROVE TypeOK /\ IInv OBVIOUS
  <2> USE DEF Init, CommonInit
  <2>2. TypeOK
    BY <2>1, EmptySeq DEF TypeOK, CommonTypeOK, SenderPlace, ReceiverPlace
  <2>3. OutputIsFile
    <3>1. out = << >> BY <2>1
    <3>2. [i \in 1 .. 0 |-> PayloadAt(i - 1)] = << >>
      OBVIOUS
    <3> QED BY <2>1, <3>1, <3>2 DEF OutputIsFile
  <2>4. CacheInv
    BY <2>1, <2>3, StreamFacts, WindowAssumption DEF CacheInv
  <2>5. PacketsInv /\ StartInv
    BY <2>1 DEF PacketsInv, StartInv, NotConnected
  <2>6. FlushedInv
    <3>1. 0 \in Slot
      BY StreamFacts, CacheAssumption, WindowAssumption DEF Slot
    <3> QED BY <2>1, <3>1 DEF FlushedInv
  <2>7. SentInv /\ AckedInv
    BY <2>1, StreamFacts, WindowAssumption DEF SentInv, AckedInv, Delivered
  <2> QED BY <2>2, <2>4, <2>5, <2>6, <2>7 DEF IInv
<1>2. TypeOK /\ IInv /\ [Next]_vars => TypeOK' /\ IInv'
  <2>1. SUFFICES ASSUME TypeOK, IInv, [Next]_vars PROVE TypeOK' /\ IInv'
    OBVIOUS
  <2>2. CASE UNCHANGED vars
    <3>1. UNCHANGED <<spc, send_base, next_seq_num, timer, rpc, recv_base,
                      packet_cache, out, toR, toS, acked>>
      BY <2>2 DEF vars, commonVars
    <3>2. CacheInv'
      BY <2>1, <3>1, ReceiverUnchanged DEF IInv
    <3>3. TypeOK'
      BY <2>1, <3>1 DEF TypeOK, CommonTypeOK
    <3>4. PacketsInv' /\ StartInv'
      BY <2>1, <3>1 DEF IInv, PacketsInv, StartInv, NotConnected, PayloadAt, seg_len
    <3>5. FlushedInv' /\ SentInv' /\ AckedInv'
      BY <2>1, <3>1 DEF IInv, FlushedInv, SentInv, AckedInv, Held, Delivered, seg_len
    <3> QED BY <3>2, <3>3, <3>4, <3>5 DEF IInv
  <2>3. CASE CommonStep /\ UNCHANGED acked
    <3>1. TypeOK'
      BY <2>1, <2>3, CommonTypes DEF TypeOK
    <3> QED BY <2>1, <2>3, <3>1, CommonStepKeeps
  <2>4. CASE SendMessageOpt
    BY <2>1, <2>4, SenderTypes, SendMessageOptStep
  <2>5. CASE (\E m \in toR : RecvDataOpt(m)) \/ RecvOtherOpt \/ FlushOpt
    <3>1. TypeOK'
      BY <2>1, <2>5, ReceiverTypes DEF IInv
    <3> QED BY <2>1, <2>5, <3>1, RecvMessageOptStep
  <2> QED BY <2>1, <2>2, <2>3, <2>4, <2>5, NextSteps
<1> QED BY <1>1, <1>2, PTL DEF Spec

\* Type correctness, acked included: its indices are never negative.
THEOREM TypeCorrect ==
    ASSUME StartAckOnce PROVE Spec => []TypeOK
BY Invariance, PTL

\* sendMessageOpt returns 0 only when the receiver holds the whole file, and all of
\* it is written but while recvMessageOpt is between an ACK and its flush.
THEOREM SentCorrect ==
    ASSUME StartAckOnce PROVE Spec => []SentMeansHeld
<1>1. TypeOK /\ IInv => SentMeansHeld
  <2>1. SUFFICES ASSUME TypeOK, IInv, spc \in Delivered
                 PROVE  /\ \A p \in 0 .. seg_len - 1 : Held(p)
                        /\ Len(out) >= seg_len \/ rpc = "flush"
    BY DEF SentMeansHeld
  <2>2. send_base >= seg_len /\ Len(out) = recv_base
    BY <2>1, OutputLength DEF IInv, SentInv, TypeOK
  <2>3. rpc # "flush" => Len(out) >= seg_len
    BY <2>1, <2>2, BaseIsWritten, StreamFacts DEF IInv, TypeOK, CommonTypeOK
  <2>4. ASSUME NEW p \in 0 .. seg_len - 1 PROVE Held(p)
    <3>1. p \in 0 .. send_base - 1
      BY <2>1, <2>2, StreamFacts DEF TypeOK, CommonTypeOK
    <3> QED BY <2>1, <3>1 DEF IInv, AckedInv
  <2> QED BY <2>3, <2>4
<1> QED BY <1>1, Invariance, PTL

\* The output file is the file's segments in order, up to recv_base.
THEOREM OutputCorrect ==
    ASSUME StartAckOnce PROVE Spec => []OutputIsFile
<1>1. IInv => OutputIsFile
  BY DEF IInv, CacheInv
<1> QED BY <1>1, Invariance, PTL

\* However far the sender runs past the end of the file, its packets and
\* recv_base stay inside packet_cache.
THEOREM CacheCorrect ==
    ASSUME StartAckOnce PROVE Spec => []PacketsFitCache
<1>1. TypeOK /\ IInv => PacketsFitCache
  BY StreamFitsCache DEF IInv, TypeOK
<1> QED BY <1>1, Invariance, PTL

\* A packet the sender takes for received, or will when it reads an ACK that is
\* in flight, is written or cached by the receiver.
THEOREM HeldCorrect ==
    ASSUME StartAckOnce PROVE Spec => []AckedMeansHeld
<1>1. TypeOK /\ IInv => AckedMeansHeld
  <2>1. SUFFICES ASSUME TypeOK, IInv, NEW p \in acked \cup toS, ~Held(p)
                 PROVE  \/ p = StartSeq /\ p \notin acked /\ spc \in {"wait", "failed"}
                        \/ p = recv_base /\ rpc = "ok" /\ spc \notin Looping
    BY DEF AckedMeansHeld
  <2>2. p \notin acked /\ p \in toS
    BY <2>1 DEF IInv, AckedInv
  <2>3. \/ p = StartSeq /\ spc \in {"wait", "failed"}
        \/ p = recv_base /\ rpc = "ok"
    BY <2>1, <2>2 DEF IInv, AckedInv
  <2>4. rpc = "ok" => spc \notin Looping
    BY <2>1 DEF IInv, AckedInv, Looping
  <2> QED BY <2>2, <2>3, <2>4
<1> QED BY <1>1, Invariance, PTL

\* acked is only ever written inside its bounds.
THEOREM IndexCorrect ==
    ASSUME StartAckOnce PROVE Spec => []AckIndexInBounds
<1>1. TypeOK /\ IInv => AckIndexInBounds
  <2>1. SUFFICES ASSUME TypeOK, IInv, NEW p \in acked PROVE p \in 0 .. AckedSize - 1
    BY DEF AckIndexInBounds
  <2>2. /\ p \in Nat /\ next_seq_num \in Nat
        /\ p < next_seq_num /\ next_seq_num < seg_len + SenderWindow
    BY <2>1 DEF TypeOK, CommonTypeOK, IInv, AckedInv, SentInv
  <2> QED BY <2>2, StreamFacts, WindowAssumption, CacheAssumption, AckedAssumption
<1> QED BY <1>1, Invariance, PTL

\* No step puts a packet on the wire whose ACK the sender has read: a timeout
\* leaves out what is acked, and a new packet is beyond everything acked.
THEOREM NeverResentCorrect ==
    ASSUME StartAckOnce PROVE Spec => ConfirmedNeverResent
<1>1. TypeOK /\ IInv /\ [Next]_vars
      => [\A m \in toR' \ toR : m.type = "DATA" => m.seq \notin acked]_vars
  <2>1. SUFFICES ASSUME TypeOK, IInv, Next, NEW m \in toR' \ toR, m.type = "DATA"
                 PROVE  m.seq \notin acked
    OBVIOUS
  <2>2. next_seq_num \notin acked /\ NextToSend = next_seq_num
    BY <2>1, NothingToSkip DEF IInv, AckedInv, TypeOK, CommonTypeOK
  <2>3. CASE CommonStep
    BY <2>1, <2>3 DEF CommonStep, InitTerminate, InitSenderNoSocket, InitSenderStart,
       InitSenderAcked, InitSenderGivesUp, TerminateSenderEnd, TerminateSenderClose,
       InitReceiverStart, InitReceiverFails, RecvEnd, RecvTimeout, LoseSomeData,
       LoseData, LoseAck, StartPacket, EndPacket, network
  <2>4. CASE SendMessageOpt
    <3>1. CASE SendNextOpt
      BY <2>1, <2>2, <3>1 DEF SendNextOpt, DataPacket
    <3>2. CASE TimerExpiredOpt
      BY <2>1, <3>2 DEF TimerExpiredOpt, Unconfirmed, DataPacket
    <3>3. CASE UNCHANGED toR
      BY <2>1, <3>3
    <3> QED
      BY <2>4, <3>1, <3>2, <3>3 DEF SendMessageOpt, SendMessageOptReturns,
         SendNothingOpt, RecvAckOpt, RecvNoAckOpt, TimerRunningOpt, network
  <2>5. CASE (\E d \in toR : RecvDataOpt(d)) \/ RecvOtherOpt \/ FlushOpt
    BY <2>1, <2>5 DEF RecvDataOpt, RecvOtherOpt, FlushOpt, network
  <2> QED BY <2>1, <2>3, <2>4, <2>5, NextSteps
<1> QED BY <1>1, Invariance, PTL DEF Spec, ConfirmedNeverResent

-----------------------------------------------------------------------------
(* The protocol implements the abstract transfer of CachedTransfer.        *)

\* The same after a step.
LEMMA OutputLengthAfter ==
    ASSUME CommonTypeOK', CacheInv'
    PROVE  Len(out') = recv_base'
<1>1. out' = [i \in 1 .. recv_base' |-> PayloadAt(i - 1)] /\ recv_base' \in Nat
  BY DEF CommonTypeOK, CacheInv, OutputIsFile, PayloadAt, seg_len
<1>2. out' \in [1 .. recv_base' -> Payload]
  BY <1>1, StreamFacts
<1> QED BY <1>1, <1>2, FunctionIsSeq

\* The positions of the file are those of the segments below seg_len.
LEMMA KeptFile ==
    ASSUME TypeOK, \A p \in 0 .. seg_len - 1 : Held(p)
    PROVE  1 .. Len(File) \subseteq Kept
<1>1. ASSUME NEW i \in 1 .. Len(File) PROVE i \in 1 .. CacheSize /\ Held(i - 1)
  <2>1. i \in 1 .. CacheSize /\ i - 1 \in 0 .. seg_len - 1
    BY StreamFacts, CacheAssumption, WindowAssumption DEF seg_len
  <2> QED BY <2>1
<1> QED BY <1>1 DEF Kept

\* Steps that leave the receiver's cache and recv_base alone keep Kept.
LEMMA KeptUnchanged ==
    ASSUME UNCHANGED <<recv_base, packet_cache>>
    PROVE  Kept' = Kept
BY DEF Kept, Held

\* A turn of sendMessageOpt's loop returns 0 or changes nothing that its caller
\* can see.
LEMMA SendMessageOptRefines ==
    ASSUME TypeOK, IInv, SendMessageOpt
    PROVE  [Cached!NextHeld]_(Cached!heldVars)
<1> USE DEF Sending, Receiving, Looping, Delivered, receiver, network
<1>1. CASE SendMessageOptReturns
  <2>1. send_base >= seg_len
    BY <1>1 DEF SendMessageOptReturns
  <2>2. \A p \in 0 .. seg_len - 1 : p \in 0 .. send_base - 1
    BY <2>1, StreamFacts DEF TypeOK, CommonTypeOK
  <2>3. 1 .. Len(File) \subseteq Kept
    BY <2>2, KeptFile DEF IInv, AckedInv
  <2>4. Kept' = Kept
    BY <1>1, KeptUnchanged DEF SendMessageOptReturns
  <2> QED
    BY <1>1, <2>3, <2>4 DEF SendMessageOptReturns, Cached!NextHeld, Cached!SendOkHeld
<1>2. CASE SendNextOpt \/ SendNothingOpt \/ RecvNoAckOpt \/ TimerExpiredOpt
           \/ TimerRunningOpt
  BY <1>2, KeptUnchanged DEF SendNextOpt, SendNothingOpt, RecvNoAckOpt, TimerExpiredOpt,
     TimerRunningOpt, Cached!heldVars, Cached!vars
<1>3. ASSUME NEW a \in toS, RecvAckOpt(a) PROVE [Cached!NextHeld]_(Cached!heldVars)
  BY <1>3, KeptUnchanged DEF RecvAckOpt, Cached!heldVars, Cached!vars
<1> QED BY <1>1, <1>2, <1>3 DEF SendMessageOpt

\* A turn of recvMessageOpt's loop keeps a packet, or none, and then writes what
\* it holds.
LEMMA RecvMessageOptRefines ==
    ASSUME TypeOK, IInv, TypeOK', IInv',
           (\E m \in toR : RecvDataOpt(m)) \/ RecvOtherOpt \/ FlushOpt
    PROVE  [Cached!NextHeld]_(Cached!heldVars)
<1> USE DEF TypeOK, CommonTypeOK
<1>1. ASSUME NEW m \in toR, RecvDataOpt(m) PROVE [Cached!NextHeld]_(Cached!heldVars)
  <2>1. ~NotConnected /\ m.data # NoPacket
    <3>1. m.seq \in Nat /\ m.data = PayloadAt(m.seq) /\ ~NotConnected
      BY <1>1 DEF RecvDataOpt, IInv, PacketsInv, Packet
    <3> QED BY <3>1, StreamFacts, NoPacketAssumption
  <2>2. Sending \in {"busy", "ok"}
    BY <2>1 DEF Sending, NotConnected, SenderPlace, Looping, Delivered
  <2>3. Receiving = "busy" /\ UNCHANGED Cached!vars
    BY <1>1 DEF RecvDataOpt, Receiving, Sending, Cached!vars, sender
  <2>4. Kept \subseteq Kept'
    <3>1. \A s \in Slot : packet_cache[s] # NoPacket => packet_cache'[s] # NoPacket
      BY <1>1, <2>1 DEF RecvDataOpt, CacheWith
    <3> QED BY <1>1, <3>1 DEF RecvDataOpt, Kept, Held
  <2> QED BY <2>2, <2>3, <2>4 DEF Cached!NextHeld, Cached!Keep
<1>2. CASE RecvOtherOpt
  BY <1>2, KeptUnchanged DEF RecvOtherOpt, Receiving, Sending, Cached!heldVars, Cached!vars,
     sender
<1>3. CASE FlushOpt
  <2>1. /\ \A p \in Nat : Held(p) <=> Held(p)'
        /\ recv_base' \in Nat /\ recv_base <= recv_base'
    BY <1>3, FlushKeepsHeld DEF IInv
  <2>2. Kept' = Kept
    BY <2>1 DEF Kept
  <2>3. Abstract!Write \/ UNCHANGED Abstract!vars
    BY <1>3, <2>1, FlushWrites DEF FlushOpt, IInv
  <2>4. 1 .. Len(out') \subseteq Kept
    <3>1. Len(out') = recv_base' /\ recv_base' < CacheSize /\ CacheSize \in Nat
      BY OutputLengthAfter, StreamFacts, CacheAssumption, WindowAssumption
      DEF IInv, CacheInv, seg_len
    <3>2. ASSUME NEW i \in 1 .. Len(out') PROVE i \in 1 .. CacheSize /\ Held(i - 1)
      <4>1. i \in 1 .. CacheSize /\ i - 1 \in Nat /\ i - 1 < recv_base'
        BY <2>1, <3>1
      <4> QED BY <2>1, <4>1 DEF Held
    <3> QED BY <3>2 DEF Kept
  <2>5. CASE Abstract!Write
    BY <2>2, <2>4, <2>5 DEF Abstract!Write, Cached!NextHeld, Cached!WriteHeld, Cached!Write,
       Abstract!StreamAt, Cached!StreamAt
  <2>6. CASE UNCHANGED Abstract!vars
    BY <2>2, <2>6 DEF Abstract!vars, Cached!heldVars, Cached!vars
  <2> QED BY <2>3, <2>5, <2>6
<1> QED BY <1>1, <1>2, <1>3

\* The steps that both protocols share connect, accept, refuse, stop, or change
\* nothing that a caller can see, and move no packet into or out of the cache; the
\* receiver stops with nothing left to flush.
LEMMA CommonStepRefines ==
    ASSUME TypeOK, IInv, CommonStep
    PROVE  [Cached!NextHeld]_(Cached!heldVars)
<1>1. Kept' = Kept
  <2>1. CASE InitReceiverStart
    <3>1. UNCHANGED <<recv_base, packet_cache>>
      BY <2>1 DEF InitReceiverStart, IInv, StartInv
    <3> QED BY <3>1, KeptUnchanged
  <2>2. CASE InitTerminate
    BY <2>2, KeptUnchanged DEF InitTerminate, InitSenderNoSocket, InitSenderStart,
       InitSenderAcked, InitSenderGivesUp, TerminateSenderEnd, TerminateSenderClose,
       receiver
  <2>3. CASE ~InitReceiverStart /\ ~InitTerminate
    BY <2>3, KeptUnchanged DEF CommonStep, InitReceiverFails, RecvEnd, RecvTimeout,
       LoseSomeData, LoseData, LoseAck, receiver
  <2> QED BY <2>1, <2>2, <2>3
<1>2. spc \in {"fin", "closed"} /\ rpc = "loop" => recv_base >= seg_len
  BY BaseIsWritten, StreamFacts DEF IInv, SentInv, Delivered, TypeOK, CommonTypeOK
<1>3. rpc = "loop" => Len(out) + 1 \notin Kept
  <2>1. SUFFICES ASSUME rpc = "loop" PROVE ~Held(recv_base)
    BY OutputLength DEF IInv, TypeOK, CommonTypeOK, Kept
  <2> QED BY <2>1 DEF IInv, FlushedInv, Held, TypeOK, CommonTypeOK
<1> USE DEF Sending, Receiving, Looping, Delivered, sender, receiver, network
<1>4. CASE InitSenderNoSocket \/ InitSenderGivesUp
  BY <1>1, <1>4 DEF InitSenderNoSocket, InitSenderGivesUp, Cached!NextHeld,
     Cached!Connecting, Cached!Reject
<1>5. CASE InitSenderAcked
  <2>1. Receiving \notin {"idle", "refused"}
    BY <1>5 DEF InitSenderAcked, IInv, StartInv, TypeOK, CommonTypeOK, ReceiverPlace
  <2> QED
    BY <1>1, <1>5, <2>1 DEF InitSenderAcked, Cached!NextHeld, Cached!Connecting,
       Cached!Connect
<1>6. CASE InitSenderStart \/ TerminateSenderEnd \/ TerminateSenderClose
  BY <1>1, <1>6 DEF InitSenderStart, TerminateSenderEnd, TerminateSenderClose,
     Cached!heldVars, Cached!vars
<1>7. CASE InitReceiverStart
  BY <1>1, <1>7 DEF InitReceiverStart, Cached!NextHeld, Cached!Connecting, Cached!Accept
<1>8. CASE InitReceiverFails
  BY <1>1, <1>8 DEF InitReceiverFails, Cached!NextHeld, Cached!Connecting, Cached!Refuse
<1>9. ASSUME NEW m \in toR, RecvEnd(m) PROVE [Cached!NextHeld]_(Cached!heldVars)
  <2>1. Receiving = "busy" /\ Receiving' = "ok" /\ UNCHANGED <<Sending, out>> /\ rpc = "loop"
    BY <1>9 DEF RecvEnd
  <2>2. \/ Sending = "ok" /\ Len(out) >= Len(File)
        \/ Sending = "failed" /\ out = << >>
    <3>1. CASE spc \in {"fin", "closed"}
      BY <1>2, <2>1, <3>1, OutputLength DEF seg_len, IInv, TypeOK
    <3>2. CASE spc = "failed"
      <4>1. Len(out) = 0 /\ out \in Seq(Payload)
        BY <3>2, OutputLength DEF IInv, StartInv, NotConnected, TypeOK, CommonTypeOK
      <4> QED BY <3>2, <4>1, EmptySeq
    <3> QED BY <1>9, <3>1, <3>2 DEF RecvEnd, IInv, PacketsInv
  <2> QED
    BY <1>1, <1>3, <2>1, <2>2 DEF Cached!NextHeld, Cached!Stop, Cached!ReceiveOk,
       Cached!Complete
<1>10. CASE RecvTimeout
  BY <1>1, <1>3, <1>10 DEF RecvTimeout, Cached!NextHeld, Cached!Stop, Cached!GiveUp
<1>11. CASE LoseSomeData \/ \E a \in toS : LoseAck(a)
  BY <1>1, <1>11 DEF LoseSomeData, LoseData, LoseAck, Cached!heldVars, Cached!vars
<1> QED
  BY <1>4, <1>5, <1>6, <1>7, <1>8, <1>9, <1>10, <1>11 DEF CommonStep, InitTerminate

\* The callers of the optimised protocol see a growing prefix of the file, and
\* success only for all of it, held by the receiver if not yet written; what the
\* receiver holds it writes before it returns.
THEOREM Refinement ==
    ASSUME StartAckOnce PROVE Spec => ImplementsCachedTransfer
<1>1. Init => Cached!InitHeld
  <2>1. SUFFICES ASSUME Init PROVE Cached!InitHeld OBVIOUS
  <2>2. Kept = {}
    <3>1. ASSUME NEW i \in 1 .. CacheSize PROVE ~Held(i - 1)
      <4>1. recv_base = 0 /\ ~(i - 1 < 0)
        BY <2>1, CacheAssumption DEF Init, CommonInit
      <4> QED BY <2>1, <4>1 DEF Held, Init, CommonInit
    <3> QED BY <3>1 DEF Kept
  <2> QED
    BY <2>1, <2>2 DEF Init, CommonInit, Sending, Receiving, Looping, Delivered,
       Cached!InitHeld, Cached!Init
<1>2. /\ TypeOK /\ IInv /\ TypeOK' /\ IInv'
      /\ [Next]_vars
      => [Cached!NextHeld]_(Cached!heldVars)
  <2>1. SUFFICES ASSUME TypeOK, IInv, TypeOK', IInv', [Next]_vars
                 PROVE  [Cached!NextHeld]_(Cached!heldVars)
    OBVIOUS
  <2>2. CASE UNCHANGED vars
    BY <2>2, KeptUnchanged DEF vars, commonVars, Sending, Receiving, Cached!heldVars,
       Cached!vars
  <2> QED
    BY <2>1, <2>2, NextSteps, CommonStepRefines, SendMessageOptRefines,
       RecvMessageOptRefines
<1> QED
  BY <1>1, <1>2, Invariance, PTL DEF Spec, ImplementsCachedTransfer, Cached!SpecHeld

=============================================================================
