----------------------------- MODULE RtpLemmas -----------------------------
(* Facts about the operators of Rtp, for the proofs about both protocols.  *)
EXTENDS Rtp, SequenceTheorems, TLAPS

\* File has a length, at least 1, and every segment of the stream is a payload.
LEMMA StreamFacts ==
    /\ seg_len \in Nat \ {0}
    /\ \A p \in Nat : PayloadAt(p) \in Payload
<1>1. seg_len \in Nat \ {0}
  BY FileAssumption, EmptySeq, LenProperties DEF seg_len
<1>2. ASSUME NEW p \in Nat PROVE PayloadAt(p) \in Payload
  <2>1. CASE p < seg_len
    <3>1. p + 1 \in 1 .. Len(File)
      BY <1>1, <2>1 DEF seg_len
    <3>2. File[p + 1] \in Payload
      BY <3>1, FileAssumption, ElementOfSeq
    <3> QED BY <2>1, <3>2 DEF PayloadAt
  <2>2. CASE ~(p < seg_len)
    BY <2>2 DEF PayloadAt, Payload
  <2> QED BY <2>1, <2>2
<1> QED BY <1>1, <1>2

\* A function on 1 .. n is a sequence of length n.
LEMMA FunctionIsSeq ==
    ASSUME NEW S, NEW n \in Nat, NEW f \in [1 .. n -> S]
    PROVE  f \in Seq(S) /\ Len(f) = n
<1>1. f \in Seq(S)
  BY SeqDef
<1> QED BY <1>1, LenProperties

\* What a cache may hold: segments of the stream, none beyond the last packet
\* the sender can send.
Holds(cache) ==
    /\ cache \in [Slot -> Payload \cup {NoPacket}]
    /\ \A s \in Slot : cache[s] # NoPacket =>
            cache[s] = PayloadAt(s) /\ s < seg_len + SenderWindow - 1

\* The flush loop of recvMessage writes the next segments of the stream, in
\* order, and stays inside packet_cache.
LEMMA FlushWritesStream ==
    ASSUME CommonTypeOK, CacheInv, NEW cache, Holds(cache), Flush(cache)
    PROVE  /\ CacheInv'
           /\ packet_cache' \in [Slot -> Payload \cup {NoPacket}]
           /\ recv_base' \in Nat /\ recv_base <= recv_base'
           /\ out' \in Seq(Payload)
<1>0. PICK n \in recv_base .. CacheSize :
        /\ n < CacheSize => cache[n] = NoPacket
        /\ \A k \in recv_base .. n - 1 : cache[k] # NoPacket
        /\ packet_cache' = cache
        /\ recv_base' = n
        /\ out' = out \o [i \in 1 .. n - recv_base |-> cache[recv_base + i - 1]]
  BY DEF Flush
<1> DEFINE w == [i \in 1 .. n - recv_base |-> cache[recv_base + i - 1]]
<1>1. /\ recv_base \in Nat /\ n \in Nat /\ recv_base <= n /\ n - recv_base \in Nat
      /\ n <= CacheSize /\ CacheSize \in Nat
      /\ recv_base < seg_len + SenderWindow
      /\ seg_len + SenderWindow <= CacheSize
  BY CacheAssumption, WindowAssumption, StreamFacts DEF CommonTypeOK, CacheInv
<1>2. \A k \in recv_base .. n - 1 :
        k \in Slot /\ cache[k] = PayloadAt(k) /\ k < seg_len + SenderWindow - 1
  BY <1>0, <1>1 DEF Holds, Slot
<1>3. n < seg_len + SenderWindow
  <2>1. CASE n = recv_base
    BY <1>1, <2>1
  <2>2. CASE n # recv_base
    <3>1. n - 1 \in recv_base .. n - 1
      BY <1>1, <2>2
    <3>2. n - 1 < seg_len + SenderWindow - 1
      BY <1>2, <3>1
    <3> QED BY <1>1, <3>2, StreamFacts, WindowAssumption
  <2> QED BY <2>1, <2>2
<1>4. /\ w \in [1 .. n - recv_base -> Payload]
      /\ \A i \in 1 .. n - recv_base : w[i] = PayloadAt(recv_base + i - 1)
  <2>1. ASSUME NEW i \in 1 .. n - recv_base
        PROVE  /\ recv_base + i - 1 \in recv_base .. n - 1
               /\ recv_base + i - 1 \in Nat
    BY <1>1
  <2>2. ASSUME NEW i \in 1 .. n - recv_base
        PROVE  w[i] = PayloadAt(recv_base + i - 1) /\ w[i] \in Payload
    BY <1>2, <2>1, StreamFacts
  <2> QED BY <2>2
<1>5. w \in Seq(Payload) /\ Len(w) = n - recv_base
  BY <1>1, <1>4, FunctionIsSeq
<1>6. out \in Seq(Payload) /\ Len(out) = recv_base
      /\ \A i \in 1 .. recv_base : out[i] = PayloadAt(i - 1)
  <2>1. out = [i \in 1 .. recv_base |-> PayloadAt(i - 1)]
    BY DEF CacheInv, OutputIsFile
  <2>2. out \in [1 .. recv_base -> Payload]
    BY <1>1, <2>1, StreamFacts
  <2> QED BY <1>1, <2>1, <2>2, FunctionIsSeq
<1>7. /\ out' \in Seq(Payload) /\ Len(out') = n
      /\ \A i \in 1 .. n : out'[i] = PayloadAt(i - 1)
  <2>1. /\ out' \in Seq(Payload)
        /\ Len(out') = recv_base + (n - recv_base)
        /\ \A i \in 1 .. recv_base + (n - recv_base) :
            out'[i] = IF i <= recv_base THEN out[i] ELSE w[i - recv_base]
    <3> HIDE DEF w
    <3>1. out' = out \o w
      BY <1>0 DEF w
    <3>2. /\ out \o w \in Seq(Payload)
          /\ Len(out \o w) = Len(out) + Len(w)
          /\ \A i \in 1 .. Len(out) + Len(w) :
                (out \o w)[i] = IF i <= Len(out) THEN out[i] ELSE w[i - Len(out)]
      BY <1>5, <1>6, ConcatProperties, Zenon
    <3> QED BY <3>1, <3>2, <1>5, <1>6
  <2>2. ASSUME NEW i \in 1 .. n PROVE out'[i] = PayloadAt(i - 1)
    <3> HIDE DEF w
    <3>1. CASE i <= recv_base
      <4>1. i \in 1 .. recv_base BY <1>1, <3>1
      <4> QED BY <2>1, <4>1, <1>1, <1>6
    <3>2. CASE ~(i <= recv_base)
      <4>1. i - recv_base \in 1 .. n - recv_base /\ recv_base + (i - recv_base) - 1 = i - 1
        BY <1>1, <3>2
      <4>2. w[i - recv_base] = PayloadAt(i - 1)
        BY <1>4, <4>1
      <4> QED BY <2>1, <4>2, <1>1, <3>2
    <3> QED BY <3>1, <3>2
  <2> QED BY <1>1, <2>1, <2>2
<1>8. out' = [i \in 1 .. n |-> PayloadAt(i - 1)]
  <2>1. out' \in [1 .. n -> Payload]
    BY <1>7, LenProperties
  <2> QED BY <1>7, <2>1
<1>9. OutputIsFile'
  BY <1>0, <1>8 DEF OutputIsFile, PayloadAt, seg_len
<1> QED
  <2>1. \A s \in Slot : packet_cache'[s] # NoPacket =>
            packet_cache'[s] = PayloadAt(s) /\ s < seg_len + SenderWindow - 1
    BY <1>0 DEF Holds
  <2>2. CacheInv'
    BY <1>0, <1>3, <1>9, <2>1 DEF CacheInv
  <2>3. packet_cache' \in [Slot -> Payload \cup {NoPacket}]
    BY <1>0 DEF Holds
  <2> QED BY <1>0, <1>1, <1>7, <2>2, <2>3

\* Taking an intact DATA packet of the stream keeps the cache to the stream.
LEMMA CacheWithHolds ==
    ASSUME CommonTypeOK, PacketsInv, CacheInv, NEW m \in toR, m.type = "DATA"
    PROVE  Holds(CacheWith(m))
<1>1. /\ m.seq \in Nat /\ m.data = PayloadAt(m.seq)
      /\ m.seq < seg_len + SenderWindow - 1
  BY DEF CommonTypeOK, Packet, PacketsInv
<1>2. m.data \in Payload
  BY <1>1, StreamFacts
<1> QED BY <1>1, <1>2 DEF CommonTypeOK, CacheInv, CacheWith, Holds

LEMMA CacheHolds ==
    ASSUME CommonTypeOK, CacheInv
    PROVE  Holds(packet_cache)
BY DEF CommonTypeOK, CacheInv, Holds

\* The length of the output file is recv_base.
LEMMA OutputLength ==
    ASSUME CommonTypeOK, CacheInv
    PROVE  Len(out) = recv_base
<1>1. out = [i \in 1 .. recv_base |-> PayloadAt(i - 1)] /\ recv_base \in Nat
  BY DEF CommonTypeOK, CacheInv, OutputIsFile
<1>2. out \in [1 .. recv_base -> Payload]
  BY <1>1, StreamFacts
<1> QED BY <1>1, <1>2, FunctionIsSeq

-----------------------------------------------------------------------------
(* Connection set-up, tear-down, the timer of recvMessage and loss: the     *)
(* steps that are the same in both protocols.                               *)

CommonStep ==
    \/ InitTerminate \/ InitReceiverStart \/ InitReceiverFails
    \/ (\E m \in toR : RecvEnd(m)) \/ RecvTimeout
    \/ LoseSomeData \/ (\E a \in toS : LoseAck(a))

LEMMA CommonTypes ==
    ASSUME CommonTypeOK, CommonStep
    PROVE  CommonTypeOK'
<1> USE DEF CommonTypeOK, sender, receiver, network
<1>1. CASE InitTerminate
  <2>1. /\ StartPacket \in Packet
        /\ EndPacket(0) \in Packet /\ EndPacket(send_base) \in Packet
    BY StartAssumption DEF StartPacket, EndPacket, Packet, Payload
  <2> QED
    BY <1>1, <2>1 DEF InitTerminate, InitSenderNoSocket, InitSenderStart,
        InitSenderAcked, InitSenderGivesUp, TerminateSenderEnd,
        TerminateSenderClose, SenderPlace, Looping, Delivered
<1>2. CASE InitReceiverStart \/ InitReceiverFails
  BY <1>2 DEF InitReceiverStart, InitReceiverFails, Packet, ReceiverPlace
<1>3. ASSUME NEW m \in toR, RecvEnd(m) PROVE CommonTypeOK'
  BY <1>3 DEF RecvEnd, ReceiverPlace
<1>4. CASE RecvTimeout
  BY <1>4 DEF RecvTimeout, ReceiverPlace
<1>5. CASE LoseSomeData \/ \E a \in toS : LoseAck(a)
  BY <1>5 DEF LoseSomeData, LoseData, LoseAck
<1> QED BY <1>1, <1>2, <1>3, <1>4, <1>5 DEF CommonStep

\* The receiver's part of the invariant depends on the receiver alone.
LEMMA ReceiverUnchanged ==
    ASSUME CacheInv, UNCHANGED <<recv_base, packet_cache, out>>
    PROVE  CacheInv'
BY DEF CacheInv, OutputIsFile, PayloadAt, seg_len

\* What is in flight and what must not have moved before a connection, step by
\* step of the set-up and the tear-down.
LEMMA CommonKeeps ==
    ASSUME CommonTypeOK, PacketsInv, StartInv, CacheInv, CommonStep
    PROVE  PacketsInv' /\ StartInv' /\ CacheInv'
<1> USE DEF PacketsInv, StartInv, NotConnected, sender, receiver, network
<1>1. CASE InitTerminate
  <2>1. UNCHANGED receiver
    BY <1>1 DEF InitTerminate, InitSenderNoSocket, InitSenderStart, InitSenderAcked,
           InitSenderGivesUp, TerminateSenderEnd, TerminateSenderClose
  <2>2. CacheInv'
    BY <2>1, ReceiverUnchanged
  <2>3. CASE InitSenderNoSocket
    BY <2>2, <2>3 DEF InitSenderNoSocket
  <2>4. CASE InitSenderStart
    BY <2>2, <2>4 DEF InitSenderStart, StartPacket
  <2>5. CASE InitSenderAcked
    BY <2>2, <2>5 DEF InitSenderAcked
  <2>6. CASE InitSenderGivesUp
    BY <2>2, <2>6 DEF InitSenderGivesUp, EndPacket
  <2>7. CASE TerminateSenderEnd
    BY <2>2, <2>7 DEF TerminateSenderEnd, EndPacket
  <2>8. CASE TerminateSenderClose
    BY <2>2, <2>8 DEF TerminateSenderClose
  <2> QED BY <1>1, <2>3, <2>4, <2>5, <2>6, <2>7, <2>8 DEF InitTerminate
<1>2. CASE InitReceiverStart
  <2>1. CacheInv'
    BY <1>2, NoPacketAssumption
    DEF InitReceiverStart, CacheInv, OutputIsFile, PayloadAt, seg_len
  <2> QED BY <1>2, <2>1 DEF InitReceiverStart
<1>3. CASE InitReceiverFails
  BY <1>3, ReceiverUnchanged DEF InitReceiverFails
<1>4. ASSUME NEW m \in toR, RecvEnd(m) PROVE PacketsInv' /\ StartInv' /\ CacheInv'
  BY <1>4, ReceiverUnchanged DEF RecvEnd
<1>5. CASE RecvTimeout
  BY <1>5, ReceiverUnchanged DEF RecvTimeout
<1>6. CASE LoseSomeData
  BY <1>6, ReceiverUnchanged DEF LoseSomeData, LoseData
<1>7. ASSUME NEW a \in toS, LoseAck(a) PROVE PacketsInv' /\ StartInv' /\ CacheInv'
  BY <1>7, ReceiverUnchanged DEF LoseAck
<1> QED BY <1>1, <1>2, <1>3, <1>4, <1>5, <1>6, <1>7 DEF CommonStep

\* A flush in either receive loop, which changes nothing before a connection.
LEMMA FlushKeeps ==
    ASSUME CommonTypeOK, PacketsInv, StartInv, CacheInv,
           rpc \in {"loop", "flush"}, rpc' = "loop", toR # {} \/ UNCHANGED toS,
           NEW cache, Holds(cache), Flush(cache), UNCHANGED <<sender, toR>>,
           NotConnected => cache = packet_cache
    PROVE  PacketsInv' /\ StartInv' /\ CacheInv'
<1>1. CacheInv'
  BY FlushWritesStream
<1>2. NotConnected => recv_base' = 0 /\ packet_cache' = packet_cache
  <2>1. SUFFICES ASSUME NotConnected
                 PROVE  recv_base' = 0 /\ packet_cache' = packet_cache
    OBVIOUS
  <2>2. PICK n \in recv_base .. CacheSize :
          /\ \A k \in recv_base .. n - 1 : cache[k] # NoPacket
          /\ packet_cache' = cache
          /\ recv_base' = n
    BY DEF Flush
  <2>3. recv_base = 0 /\ cache = [s \in Slot |-> NoPacket]
    BY <2>1 DEF StartInv
  <2>4. n = 0
    <3>1. SUFFICES ASSUME n # 0 PROVE FALSE OBVIOUS
    <3>2. 0 \in recv_base .. n - 1 /\ 0 \in Slot
      BY <2>3, <3>1, CacheAssumption DEF Slot
    <3> QED BY <2>2, <2>3, <3>2
  <2> QED BY <2>1, <2>2, <2>4
<1>3. PacketsInv'
  BY DEF PacketsInv, NotConnected, sender, PayloadAt, seg_len
<1>4. StartInv'
  <2>1. spc # "init" \/ UNCHANGED toS
    BY DEF PacketsInv
  <2> QED BY <1>2, <2>1 DEF StartInv, NotConnected, sender
<1> QED BY <1>1, <1>3, <1>4

\* However far the sender runs past the end of the file, its packets and
\* recv_base stay inside packet_cache.
LEMMA StreamFitsCache ==
    ASSUME CommonTypeOK, PacketsInv, CacheInv
    PROVE  PacketsFitCache
<1>1. recv_base < CacheSize
  BY StreamFacts, CacheAssumption, WindowAssumption DEF CacheInv, CommonTypeOK
<1>2. ASSUME NEW m \in toR, m.type = "DATA" PROVE m.seq < CacheSize
  <2>1. m.seq \in Nat /\ m.seq < seg_len + SenderWindow - 1
    BY <1>2 DEF PacketsInv, CommonTypeOK, Packet
  <2> QED BY <2>1, StreamFacts, CacheAssumption, WindowAssumption
<1> QED BY <1>1, <1>2 DEF PacketsFitCache

-----------------------------------------------------------------------------
(* Both protocols against the abstract transfer of FileTransfer.           *)

\* The flush loop is a Write of the abstract transfer, or nothing when it runs
\* for a bad packet before a connection.
LEMMA FlushWrites ==
    ASSUME CommonTypeOK, StartInv, CacheInv, CommonTypeOK', StartInv', CacheInv',
           rpc \in {"loop", "flush"}, rpc' = "loop", recv_base <= recv_base',
           UNCHANGED sender
    PROVE  Abstract!Write \/ UNCHANGED Abstract!vars
<1>1. UNCHANGED <<Sending, Receiving>>
  BY DEF Sending, Receiving, sender
<1>2. Len(out) = recv_base /\ Len(out') = recv_base' /\ Len(out') \in Nat
  <2>1. Len(out') = recv_base'
    <3>1. out' = [i \in 1 .. recv_base' |-> PayloadAt(i - 1)] /\ recv_base' \in Nat
      BY DEF CommonTypeOK, CacheInv, OutputIsFile, PayloadAt, seg_len
    <3>2. out' \in [1 .. recv_base' -> Payload]
      BY <3>1, StreamFacts
    <3> QED BY <3>1, <3>2, FunctionIsSeq
  <2> QED BY <2>1, OutputLength DEF CommonTypeOK
<1>3. CASE NotConnected
  <2>1. recv_base = 0 /\ recv_base' = 0
    BY <1>3 DEF StartInv, NotConnected, sender
  <2>2. out' = out
    BY <2>1 DEF CacheInv, OutputIsFile, PayloadAt, seg_len
  <2> QED BY <1>1, <2>2 DEF Abstract!vars
<1>4. CASE ~NotConnected
  <2>1. Receiving = "busy" /\ Sending \in {"busy", "ok"}
    BY <1>4 DEF Receiving, Sending, NotConnected, CommonTypeOK, SenderPlace, Looping,
       Delivered
  <2>2. out' = [i \in 1 .. Len(out') |-> Abstract!StreamAt(i)]
    <3>1. \A i \in 1 .. recv_base' : PayloadAt(i - 1) = Abstract!StreamAt(i)
      <4>1. SUFFICES ASSUME NEW i \in 1 .. recv_base'
                     PROVE  PayloadAt(i - 1) = Abstract!StreamAt(i)
        OBVIOUS
      <4>2. i \in Int /\ (i - 1 < Len(File) <=> i <= Len(File)) /\ i - 1 + 1 = i
        BY <1>2, StreamFacts DEF seg_len
      <4> QED BY <4>2 DEF PayloadAt, seg_len, Abstract!StreamAt
    <3>2. out' = [i \in 1 .. recv_base' |-> PayloadAt(i - 1)]
      BY DEF CacheInv, OutputIsFile, PayloadAt, seg_len
    <3> QED BY <1>2, <3>1, <3>2
  <2>3. Abstract!Write
    BY <1>1, <1>2, <2>1, <2>2 DEF Abstract!Write
  <2> QED BY <2>3
<1> QED BY <1>3, <1>4

\* The common steps connect, accept, refuse, give up, finish, or change nothing
\* that a caller can see; the receiver finishes only behind a complete sender.
LEMMA CommonRefines ==
    ASSUME CommonTypeOK, PacketsInv, StartInv, CacheInv, CommonStep,
           spc \in {"fin", "closed"} => recv_base >= seg_len
    PROVE  [Abstract!Next]_(Abstract!vars)
<1> USE DEF Sending, Receiving, Looping, Delivered, sender, receiver, network
<1>1. CASE InitSenderNoSocket \/ InitSenderGivesUp
  BY <1>1 DEF InitSenderNoSocket, InitSenderGivesUp, Abstract!Next, Abstract!Reject
<1>2. CASE InitSenderAcked
  <2>1. rpc \notin {"listen", "refused"}
    BY <1>2 DEF InitSenderAcked, StartInv
  <2>2. Receiving \notin {"idle", "refused"}
    BY <2>1 DEF CommonTypeOK, ReceiverPlace
  <2> QED BY <1>2, <2>2 DEF InitSenderAcked, Abstract!Next, Abstract!Connect
<1>3. CASE InitSenderStart \/ TerminateSenderEnd \/ TerminateSenderClose
  BY <1>3 DEF InitSenderStart, TerminateSenderEnd, TerminateSenderClose, Abstract!vars
<1>4. CASE InitReceiverStart
  BY <1>4 DEF InitReceiverStart, Abstract!Next, Abstract!Accept
<1>5. CASE InitReceiverFails
  BY <1>5 DEF InitReceiverFails, Abstract!Next, Abstract!Refuse
<1>6. ASSUME NEW m \in toR, RecvEnd(m) PROVE [Abstract!Next]_(Abstract!vars)
  <2>1. Receiving = "busy" /\ Receiving' = "ok" /\ UNCHANGED <<Sending, out>>
    BY <1>6 DEF RecvEnd
  <2>2. \/ Sending = "ok" /\ Len(out) >= Len(File)
        \/ Sending = "failed" /\ out = << >>
    <3>1. CASE spc \in {"fin", "closed"}
      BY <3>1, OutputLength DEF seg_len
    <3>2. CASE spc = "failed"
      <4>1. Len(out) = 0 /\ out \in Seq(Payload)
        BY <3>2, OutputLength DEF StartInv, NotConnected, CommonTypeOK
      <4> QED BY <3>2, <4>1, EmptySeq
    <3> QED BY <1>6, <3>1, <3>2 DEF RecvEnd, PacketsInv
  <2> QED BY <2>1, <2>2 DEF Abstract!Next, Abstract!ReceiveOk, Abstract!Complete
<1>7. CASE RecvTimeout
  BY <1>7 DEF RecvTimeout, Abstract!Next, Abstract!GiveUp
<1>8. CASE LoseSomeData \/ \E a \in toS : LoseAck(a)
  BY <1>8 DEF LoseSomeData, LoseData, LoseAck, Abstract!vars
<1> QED
  BY <1>1, <1>2, <1>3, <1>4, <1>5, <1>6, <1>7, <1>8 DEF CommonStep, InitTerminate
=============================================================================
