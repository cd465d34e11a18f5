---------------------------- MODULE RtpGbnProof ----------------------------
(* Proofs about the plain protocol.                                        *)
EXTENDS RtpGbn, RtpLemmas

\* Besides the steps it shares with the optimised protocol, the plain one has
\* the turns of its two transfer loops.
LEMMA NextSteps ==
    Next => \/ CommonStep \/ SendMessage
            \/ (\E m \in toR : RecvData(m)) \/ RecvOther
BY DEF Next, CommonStep, RecvMessage, Lose

\* Every assignment keeps to its type: send_base and recv_base stay natural
\* numbers and the output file a sequence of payloads, given the rest of the
\* invariant, without which the flush loop could run over unknown entries.
LEMMA TypeStep ==
    ASSUME CommonTypeOK, PacketsInv, CacheInv, [Next]_vars
    PROVE  CommonTypeOK'
<1> USE StreamFacts, WindowAssumption, StartAssumption
<1>1. CASE SendMessage
  <2>1. ASSUME SendNext PROVE CommonTypeOK'
    <3>1. DataPacket(next_seq_num) \in Packet
      BY DEF DataPacket, Packet, CommonTypeOK
    <3> QED
      BY <2>1, <3>1 DEF CommonTypeOK, SendNext, SenderPlace, Looping, receiver
  <2>2. ASSUME NEW a \in toS, RecvAck(a) PROVE CommonTypeOK'
    BY <2>2 DEF CommonTypeOK, RecvAck, SenderPlace, Looping, receiver, network
  <2>3. CASE SendMessageReturns \/ SendNothing \/ RecvNoAck \/ TimerExpired \/ TimerRunning
    BY <2>3 DEF CommonTypeOK, SendMessageReturns, SendNothing, RecvNoAck,
        TimerExpired, TimerRunning, SenderPlace, Looping, Delivered, receiver, network
  <2> QED BY <1>1, <2>1, <2>2, <2>3 DEF SendMessage
<1>2. ASSUME NEW cache, Holds(cache), Flush(cache), ReplyNextExpected,
             UNCHANGED <<sender, rpc, toR>>
      PROVE  CommonTypeOK'
  <2>1. /\ packet_cache' \in [Slot -> Payload \cup {NoPacket}]
        /\ recv_base' \in Nat /\ out' \in Seq(Payload)
    BY <1>2, FlushWritesStream
  <2> QED BY <1>2, <2>1 DEF CommonTypeOK, ReplyNextExpected, sender
<1>3. ASSUME NEW m \in toR, RecvData(m) PROVE CommonTypeOK'
  BY <1>2, <1>3, CacheWithHolds DEF RecvData
<1>4. ASSUME RecvOther PROVE CommonTypeOK'
  BY <1>2, <1>4, CacheHolds DEF RecvOther
<1>5. CASE UNCHANGED vars
  BY <1>5 DEF CommonTypeOK, vars, commonVars
<1> QED BY <1>1, <1>3, <1>4, <1>5, CommonTypes, NextSteps

\* Set-up, tear-down, timeout and loss: the ACK of START is out of the way when
\* the transfer begins, and an END is taken only behind a complete sender.
LEMMA CommonStepKeeps ==
    ASSUME CommonTypeOK, IInv, StartAckOnce, CommonStep
    PROVE  IInv'
<1> USE DEF BaseInv, TimerInv, CleanClose, Looping, Delivered, sender, receiver, network
<1>1. PacketsInv' /\ StartInv' /\ CacheInv'
  BY CommonKeeps DEF IInv
<1>2. CASE InitTerminate
  <2>1. ASSUME InitSenderAcked PROVE BaseInv' /\ TimerInv' /\ CleanClose'
    <3>1. /\ spc = "wait" /\ spc' = "send"
          /\ StartSeq \in toS /\ toS' = toS \ {StartSeq}
          /\ UNCHANGED <<send_base, next_seq_num, timer, receiver, toR>>
      BY <2>1 DEF InitSenderAcked
    <3> QED BY <3>1 DEF IInv, StartInv, NotConnected
  <2>2. ASSUME ~InitSenderAcked PROVE BaseInv' /\ TimerInv' /\ CleanClose'
    BY <1>2, <2>2 DEF IInv, StartInv, NotConnected, InitTerminate, InitSenderNoSocket,
       InitSenderStart, InitSenderGivesUp, TerminateSenderEnd, TerminateSenderClose
  <2> QED BY <1>1, <2>1, <2>2 DEF IInv
<1>3. CASE InitReceiverStart
  BY <1>1, <1>3 DEF IInv, InitReceiverStart, PacketsInv, StartInv, NotConnected
<1>4. CASE InitReceiverFails \/ RecvTimeout
  BY <1>1, <1>4 DEF IInv, InitReceiverFails, RecvTimeout
<1>5. ASSUME NEW m \in toR, RecvEnd(m) PROVE IInv'
  <2>1. CleanClose'
    <3>1. Len(out) = recv_base
      BY OutputLength DEF IInv
    <3>2. CASE spc \in {"fin", "closed"}
      <4>1. Len(out) >= seg_len
        BY <3>1, <3>2, StreamFacts DEF IInv, CommonTypeOK
      <4> QED BY <1>5, <4>1 DEF RecvEnd, seg_len
    <3>3. CASE spc = "failed"
      <4>1. out = << >>
        BY <3>3, <3>1, EmptySeq DEF IInv, StartInv, NotConnected, CommonTypeOK
      <4> QED BY <1>5, <3>3, <4>1 DEF RecvEnd
    <3> QED BY <1>5, <3>2, <3>3 DEF RecvEnd, IInv, PacketsInv
  <2> QED BY <1>1, <1>5, <2>1 DEF IInv, RecvEnd, CommonTypeOK
<1>6. CASE LoseSomeData \/ \E a \in toS : LoseAck(a)
  BY <1>1, <1>6 DEF IInv, LoseSomeData, LoseData, LoseAck
<1> QED BY <1>2, <1>3, <1>4, <1>5, <1>6 DEF CommonStep

LEMMA SendMessageStep ==
    ASSUME CommonTypeOK, IInv, SendMessage
    PROVE  IInv'
<1> USE StreamFacts, WindowAssumption
    DEF IInv, PacketsInv, StartInv, BaseInv, TimerInv, CleanClose,
        NotConnected, Looping, Delivered, receiver, network, CommonTypeOK
<1>1. CacheInv'
  <2>1. UNCHANGED receiver
    BY DEF SendMessage, SendMessageReturns, SendNext, SendNothing, RecvAck,
           RecvNoAck, TimerExpired, TimerRunning
  <2> QED BY <2>1, ReceiverUnchanged DEF receiver
<1>2. CASE SendMessageReturns
  BY <1>1, <1>2 DEF SendMessageReturns
<1>3. CASE SendNext
  BY <1>1, <1>3 DEF SendNext, MaySend, DataPacket
<1>4. CASE SendNothing
  BY <1>1, <1>4 DEF SendNothing, MaySend
<1>5. ASSUME NEW a \in toS, RecvAck(a) PROVE IInv'
  <2>1. /\ spc = "recv" /\ spc' = "timer" /\ a <= recv_base
        /\ send_base' = IF send_base < a THEN a ELSE send_base
        /\ UNCHANGED <<next_seq_num, receiver, network>>
    BY <1>5 DEF RecvAck
  <2>2. send_base <= send_base' /\ send_base' <= recv_base /\ send_base' \in Nat
    BY <2>1
  <2>3. ASSUME NEW m \in toR, m.type = "DATA"
        PROVE  m.seq < send_base' + SenderWindow
    BY <2>2, <2>3 DEF Packet
  <2>4. PacketsInv'
    BY <2>1, <2>3 DEF PayloadAt, seg_len
  <2>5. TimerInv'
    <3> HIDE DEF CommonTypeOK, PacketsInv, StartInv, BaseInv, CleanClose
    <3> QED BY <1>5, <2>1, Zenon DEF RecvAck
  <2>6. StartInv' /\ BaseInv' /\ CleanClose'
    BY <2>1, <2>2
  <2> HIDE DEF PacketsInv, StartInv, BaseInv, TimerInv, CleanClose, CommonTypeOK
  <2> QED BY <1>1, <2>4, <2>5, <2>6
<1>6. CASE RecvNoAck
  BY <1>1, <1>6 DEF RecvNoAck
<1>7. CASE TimerExpired
  BY <1>1, <1>7 DEF TimerExpired
<1>8. CASE TimerRunning
  BY <1>1, <1>8 DEF TimerRunning
<1> QED BY <1>2, <1>3, <1>4, <1>5, <1>6, <1>7, <1>8 DEF SendMessage

\* The branches of recvMessage that run the flush loop and reply.
LEMMA FlushStep ==
    ASSUME CommonTypeOK, IInv, rpc = "loop", toR # {},
           NEW cache, Holds(cache), Flush(cache), ReplyNextExpected,
           UNCHANGED <<sender, rpc, toR>>,
           NotConnected => cache = packet_cache
    PROVE  IInv'
<1>1. PacketsInv' /\ StartInv' /\ CacheInv'
  BY FlushKeeps DEF IInv
<1>2. recv_base' \in Nat /\ recv_base <= recv_base'
  BY FlushWritesStream DEF IInv
<1>3. BaseInv'
  BY <1>2 DEF IInv, BaseInv, ReplyNextExpected, sender, CommonTypeOK, Delivered
<1>4. TimerInv' /\ CleanClose'
  BY DEF IInv, TimerInv, CleanClose, Looping, sender
<1> QED BY <1>1, <1>3, <1>4 DEF IInv

LEMMA RecvMessageStep ==
    ASSUME CommonTypeOK, IInv, (\E m \in toR : RecvData(m)) \/ RecvOther
    PROVE  IInv'
<1>1. ASSUME NEW m \in toR, RecvData(m) PROVE IInv'
  <2>1. ~NotConnected
    BY <1>1 DEF IInv, PacketsInv, RecvData
  <2>2. Holds(CacheWith(m))
    BY <1>1, CacheWithHolds DEF IInv, RecvData
  <2> QED BY <1>1, <2>1, <2>2, FlushStep DEF RecvData
<1>2. CASE RecvOther
  BY <1>2, CacheHolds, FlushStep DEF IInv, RecvOther
<1> QED BY <1>1, <1>2

-----------------------------------------------------------------------------
(* The inductive invariant, and what follows from it.                      *)

\* Every reachable state is well typed and satisfies IInv, for every file, both
\* window sizes and every start number, when the network delivers the ACK of
\* START only once: IInv holds of the globals of sender_def.c and receiver_def.c
\* at start and every step of either side or of the network keeps it.
THEOREM Invariance ==
    ASSUME StartAckOnce
    PROVE  Spec => [](CommonTypeOK /\ IInv)
<1>1. Init => CommonTypeOK /\ IInv
  <2>1. SUFFICES ASSUME Init PROVE CommonTypeOK /\ IInv OBVIOUS
  <2> USE DEF Init, CommonInit
  <2>2. CommonTypeOK
    BY <2>1, EmptySeq DEF CommonTypeOK, SenderPlace, ReceiverPlace
  <2>3. OutputIsFile
    <3>1. out = << >> BY <2>1
    <3>2. [i \in 1 .. 0 |-> PayloadAt(i - 1)] = << >>
      OBVIOUS
    <3> QED BY <2>1, <3>1, <3>2 DEF OutputIsFile
  <2>4. CacheInv
    BY <2>1, <2>3, StreamFacts, WindowAssumption DEF CacheInv
  <2>5. PacketsInv /\ StartInv /\ BaseInv /\ TimerInv /\ CleanClose
    BY <2>1 DEF PacketsInv, StartInv, BaseInv, TimerInv, CleanClose, NotConnected,
        Looping, Delivered
  <2> QED BY <2>2, <2>4, <2>5 DEF IInv
<1>2. CommonTypeOK /\ IInv /\ [Next]_vars => CommonTypeOK' /\ IInv'
  <2>1. SUFFICES ASSUME CommonTypeOK, IInv, [Next]_vars
                 PROVE  CommonTypeOK' /\ IInv'
    OBVIOUS
  <2>2. CommonTypeOK'
    BY <2>1, TypeStep DEF IInv
  <2>3. CASE UNCHANGED vars
    <3>1. UNCHANGED <<spc, send_base, next_seq_num, timer, rpc, recv_base,
                      packet_cache, out, toR, toS>>
      BY <2>3 DEF vars, commonVars
    <3>2. CacheInv'
      BY <2>1, <3>1, ReceiverUnchanged DEF IInv
    <3> QED
      BY <2>1, <2>2, <3>1, <3>2 DEF IInv, PacketsInv, StartInv, BaseInv, TimerInv,
         CleanClose, NotConnected, Looping, Delivered, PayloadAt, seg_len
  <2> QED
    BY <2>1, <2>2, <2>3, NextSteps, CommonStepKeeps, SendMessageStep, RecvMessageStep
<1> QED BY <1>1, <1>2, PTL DEF Spec

\* Type correctness: in particular every packet in flight is one that
\* make_rtp_packet and make_rtp_header can build, and the output file is a
\* sequence of payloads.
THEOREM TypeCorrect ==
    ASSUME StartAckOnce PROVE Spec => []CommonTypeOK
BY Invariance, PTL

\* The output file is the file's segments in order, up to recv_base.
THEOREM OutputCorrect ==
    ASSUME StartAckOnce PROVE Spec => []OutputIsFile
<1>1. IInv => OutputIsFile
  BY DEF IInv, CacheInv
<1> QED BY <1>1, Invariance, PTL

\* sendMessage returns 0 only when the receiver has written the whole file.
THEOREM SentCorrect ==
    ASSUME StartAckOnce PROVE Spec => []SentMeansWritten
<1>1. CommonTypeOK /\ IInv => SentMeansWritten
  BY OutputLength, StreamFacts DEF IInv, BaseInv, SentMeansWritten, CommonTypeOK
<1> QED BY <1>1, Invariance, PTL

\* recvMessage takes an END only after the whole file, or before any of it.
THEOREM CloseCorrect ==
    ASSUME StartAckOnce PROVE Spec => []CleanClose
<1>1. IInv => CleanClose
  BY DEF IInv
<1> QED BY <1>1, Invariance, PTL

\* However far the sender runs past the end of the file, its packets and
\* recv_base stay inside packet_cache.
THEOREM CacheCorrect ==
    ASSUME StartAckOnce PROVE Spec => []PacketsFitCache
<1>1. CommonTypeOK /\ IInv => PacketsFitCache
  BY StreamFitsCache DEF IInv
<1> QED BY <1>1, Invariance, PTL

\* An ACK in flight, however old, confirms only segments already written.
THEOREM AcksCorrect ==
    ASSUME StartAckOnce PROVE Spec => []AcksAreWritten
<1>1. CommonTypeOK /\ IInv => AcksAreWritten
  BY OutputLength DEF IInv, BaseInv, AcksAreWritten
<1> QED BY <1>1, Invariance, PTL

\* A sender that has nothing to send has a timer running.
THEOREM TimerCorrect ==
    ASSUME StartAckOnce PROVE Spec => []TimerGuards
<1>1. CommonTypeOK /\ IInv => TimerGuards
  <2>1. SUFFICES ASSUME CommonTypeOK, IInv, spc = "send", ~MaySend
                 PROVE  timer
    BY DEF TimerGuards
  <2>2. ~(send_base = 0 /\ next_seq_num = 0)
    BY <2>1, WindowAssumption DEF MaySend
  <2> QED BY <2>1, <2>2 DEF IInv, TimerInv, Looping
<1> QED BY <1>1, Invariance, PTL

\* No packet in flight, not even a late copy, is beyond the sender's window.
THEOREM WindowCorrect ==
    ASSUME StartAckOnce PROVE Spec => []WindowRespected
<1>1. IInv => WindowRespected
  BY DEF IInv, PacketsInv, WindowRespected
<1> QED BY <1>1, Invariance, PTL

-----------------------------------------------------------------------------
(* The protocol implements the abstract transfer of FileTransfer.          *)

\* A turn of sendMessage's loop returns 0 or changes nothing that its caller
\* can see.
LEMMA SendMessageRefines ==
    ASSUME CommonTypeOK, IInv, SendMessage
    PROVE  [Abstract!Next]_(Abstract!vars)
<1> USE DEF Sending, Receiving, Looping, Delivered, receiver, network
<1>1. CASE SendMessageReturns
  <2>1. Len(out) >= Len(File)
    BY <1>1, OutputLength, StreamFacts
    DEF SendMessageReturns, IInv, BaseInv, CommonTypeOK, seg_len
  <2> QED
    BY <1>1, <2>1 DEF SendMessageReturns, Abstract!Next, Abstract!SendOk,
       Abstract!Complete
<1>2. CASE SendNext \/ SendNothing \/ RecvNoAck \/ TimerExpired \/ TimerRunning
  BY <1>2 DEF SendNext, SendNothing, RecvNoAck, TimerExpired, TimerRunning,
     Abstract!vars
<1>3. ASSUME NEW a \in toS, RecvAck(a) PROVE [Abstract!Next]_(Abstract!vars)
  BY <1>3 DEF RecvAck, Abstract!vars
<1> QED BY <1>1, <1>2, <1>3 DEF SendMessage

\* A turn of recvMessage's loop writes, or changes nothing that its caller can see.
LEMMA RecvMessageRefines ==
    ASSUME CommonTypeOK, IInv, CommonTypeOK', IInv',
           (\E m \in toR : RecvData(m)) \/ RecvOther
    PROVE  [Abstract!Next]_(Abstract!vars)
<1>1. rpc = "loop" /\ recv_base <= recv_base' /\ UNCHANGED <<sender, rpc>>
  BY CacheWithHolds, CacheHolds, FlushWritesStream DEF IInv, RecvData, RecvOther
<1> QED BY <1>1, FlushWrites DEF IInv, Abstract!Next

\* Whatever sendMessage and recvMessage do with packets, windows and timers,
\* their callers see the abstract transfer: a growing prefix of the file, and
\* success only for all of it.
THEOREM Refinement ==
    ASSUME StartAckOnce PROVE Spec => ImplementsTransfer
<1>1. Init => Abstract!Init
  BY DEF Init, CommonInit, Sending, Receiving, Looping, Delivered, Abstract!Init
<1>2. /\ CommonTypeOK /\ IInv /\ CommonTypeOK' /\ IInv'
      /\ [Next]_vars
      => [Abstract!Next]_(Abstract!vars)
  <2>1. SUFFICES ASSUME CommonTypeOK, IInv, CommonTypeOK', IInv', [Next]_vars
                 PROVE  [Abstract!Next]_(Abstract!vars)
    OBVIOUS
  <2>2. CASE UNCHANGED vars
    BY <2>2 DEF vars, commonVars, Sending, Receiving, Abstract!vars
  <2>3. CASE CommonStep
    <3>1. spc \in {"fin", "closed"} => recv_base >= seg_len
      BY <2>1, StreamFacts DEF IInv, BaseInv, Delivered, CommonTypeOK
    <3> QED BY <2>1, <2>3, <3>1, CommonRefines DEF IInv
  <2> QED
    BY <2>1, <2>2, <2>3, NextSteps, SendMessageRefines, RecvMessageRefines
<1> QED BY <1>1, <1>2, Invariance, PTL DEF Spec, ImplementsTransfer, Abstract!Spec

=============================================================================
