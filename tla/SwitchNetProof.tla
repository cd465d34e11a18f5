--------------------------- MODULE SwitchNetProof ---------------------------
(* Proofs about switches linked to a tree, for every tree.                 *)
EXTENDS SwitchNet, SequenceTheorems, TLAPS

\* One frame is put behind a buffer, or none.
LEMMA OneMore ==
    ASSUME NEW S, NEW r \in Seq(S), NEW x \in S
    PROVE  /\ r \o << >> = r
           /\ r \o <<x>> \in Seq(S)
           /\ \A k \in 1 .. Len(r \o <<x>>) :
                 \/ (r \o <<x>>)[k] = x
                 \/ k \in 1 .. Len(r) /\ (r \o <<x>>)[k] = r[k]
<1>1. r \o << >> = r
  BY ConcatEmptySeq
<1>2. r \o <<x>> = Append(r, x)
  BY AppendIsConcat
<1>3. /\ Append(r, x) \in Seq(S) /\ Len(Append(r, x)) = Len(r) + 1 /\ Len(r) \in Nat
      /\ \A k \in 1 .. Len(r) : Append(r, x)[k] = r[k]
      /\ Append(r, x)[Len(r) + 1] = x
  BY AppendProperties
<1>4. \A k \in 1 .. Len(r) + 1 : k = Len(r) + 1 \/ k \in 1 .. Len(r)
  BY <1>3
<1> QED BY <1>1, <1>2, <1>3, <1>4

\* What is left of a buffer was in it.
LEMMA FromTail ==
    ASSUME NEW S, NEW q \in Seq(S), q # << >>
    PROVE  /\ Tail(q) \in Seq(S)
           /\ \A k \in 1 .. Len(Tail(q)) : \E j \in 1 .. Len(q) : Tail(q)[k] = q[j]
<1>1. /\ Tail(q) \in Seq(S) /\ Len(Tail(q)) = Len(q) - 1 /\ Len(q) \in Nat
      /\ \A k \in 1 .. Len(Tail(q)) : Tail(q)[k] = q[k + 1]
  BY HeadTailProperties
<1>2. \A k \in 1 .. Len(Tail(q)) : k + 1 \in 1 .. Len(q)
  BY <1>1
<1> QED BY <1>1, <1>2

\* When one more frame has been sent, the numbers of the others stay valid.
LEMMA StillSent ==
    ASSUME NEW n \in Nat, NEW q \in Seq(1 .. n)
    PROVE  /\ q \in Seq(1 .. n + 1)
           /\ \A k \in 1 .. Len(q) : q[k] \in 1 .. n
<1>1. \A k \in 1 .. Len(q) : q[k] \in 1 .. n
  BY ElementOfSeq
<1>2. 1 .. n \subseteq 1 .. n + 1
  OBVIOUS
<1>3. q \in Seq(1 .. n + 1)
  BY <1>2, SeqMonotonic
<1> QED BY <1>1, <1>3

\* A switch sends a frame that comes from its source's side only to other ports,
\* and the ends behind them face the source again.
LEMMA OtherSide ==
    ASSUME NEW s \in Node, NEW p \in Port, NEW d \in End, NEW m \in Mac,
           Peer[d] = <<s, p>>, Home[s][m] # p
    PROVE  Home[d[1]][m] = d[2]
<1>1. Peer[d] \in End
  BY PeerAssumption, TreeAssumption
<1>2. Home[d[1]][m] # d[2] <=> Home[s][m] = p
  BY <1>1, TreeAssumption
<1> QED BY <1>2

\* Where the frame that a switch reads has come from, and where it can go.
LEMMA ProcessFrameFacts ==
    ASSUME OriginInv, NEW e \in End, ProcessFrame(e)
    PROVE  LET s == e[1]
               in == e[2]
               i == Head(buffer[e])
               frame == sent[i]
           IN  /\ s \in Node /\ in \in Port /\ e = <<s, in>>
               /\ 1 \in 1 .. Len(buffer[e]) /\ buffer[e][1] = i /\ i \in 1 .. Len(sent)
               /\ frame \in Frame /\ frame.src \in Mac /\ frame.dst \in Mac
               /\ Home[s][frame.src] = in
               /\ lifeTime' \in [Node -> [Mac -> 0 .. MaxLife]]
               /\ port' \in [Node -> [Mac -> Port \cup {-1}]]
               /\ EntriesPointHome'
               /\ OutPorts(s, in, frame.dst) \subseteq Port \ {in}
<1> DEFINE s == e[1]
           in == e[2]
           i == Head(buffer[e])
           frame == sent[i]
           out == OutPorts(s, in, frame.dst)
<1>1. /\ s \in Node /\ in \in Port /\ e = <<s, in>>
      /\ 1 \in 1 .. Len(buffer[e]) /\ buffer[e][1] = i /\ i \in 1 .. Len(sent)
      /\ frame \in Frame /\ frame.src \in Mac /\ frame.dst \in Mac
      /\ Home[s][frame.src] = in
  <2>1. s \in Node /\ in \in Port /\ e = <<s, in>>
    BY PeerAssumption
  <2>2. buffer[e] \in Seq(1 .. Len(sent)) /\ buffer[e] # << >>
    BY DEF OriginInv, TypeOK, ProcessFrame
  <2>3. i = buffer[e][1] /\ 1 \in 1 .. Len(buffer[e]) /\ i \in 1 .. Len(sent)
    BY <2>2
  <2>4. frame \in Frame
    BY <2>3 DEF OriginInv, TypeOK
  <2>5. Home[s][frame.src] = in
    BY <2>3 DEF OriginInv, FramesComeFromHome
  <2> QED BY <2>1, <2>3, <2>4, <2>5 DEF Frame
<1>2. /\ lifeTime' = [lifeTime EXCEPT ![s][frame.src] = MaxLife]
      /\ port' = [port EXCEPT ![s][frame.src] = in]
  BY DEF ProcessFrame, Learn
<1>3. /\ lifeTime' \in [Node -> [Mac -> 0 .. MaxLife]]
      /\ port' \in [Node -> [Mac -> Port \cup {-1}]]
      /\ EntriesPointHome'
  <2>1. MaxLife \in 0 .. MaxLife
    BY LifeAssumption
  <2> HIDE DEF s, in, frame
  <2> QED BY <1>1, <1>2, <2>1 DEF OriginInv, TypeOK, EntriesPointHome
<1>4. out \subseteq Port \ {in}
  <2>1. lifeTime'[s][frame.dst] # 0 => port'[s][frame.dst] \in Port
    <3>1. lifeTime'[s][frame.dst] \in 0 .. MaxLife
      BY <1>1, <1>3
    <3>2. lifeTime'[s][frame.dst] # 0 => port'[s][frame.dst] = Home[s][frame.dst]
      <4>1. lifeTime'[s][frame.dst] # 0 => lifeTime'[s][frame.dst] > 0
        BY <3>1, LifeAssumption
      <4>2. \A u \in Node, m \in Mac : lifeTime'[u][m] > 0 => port'[u][m] = Home[u][m]
        BY <1>3 DEF EntriesPointHome
      <4> QED BY <1>1, <4>1, <4>2
    <3> QED BY <1>1, <3>2, TreeAssumption
  <2> QED BY <2>1 DEF OutPorts, OtherPorts
<1> QED BY <1>1, <1>3, <1>4

LEMMA ProcessFrameStep ==
    ASSUME OriginInv, NEW e \in End, ProcessFrame(e)
    PROVE  OriginInv'
<1> DEFINE s == e[1]
           in == e[2]
           i == Head(buffer[e])
           frame == sent[i]
           out == OutPorts(s, in, frame.dst)
<1>1. /\ s \in Node /\ in \in Port /\ e = <<s, in>>
      /\ i \in 1 .. Len(sent) /\ frame \in Frame /\ frame.src \in Mac /\ frame.dst \in Mac
      /\ Home[s][frame.src] = in
      /\ sent' = sent
  BY ProcessFrameFacts DEF ProcessFrame
<1>3. /\ lifeTime' \in [Node -> [Mac -> 0 .. MaxLife]]
      /\ port' \in [Node -> [Mac -> Port \cup {-1}]]
      /\ EntriesPointHome'
  BY ProcessFrameFacts
<1>4. out \subseteq Port \ {in}
  BY ProcessFrameFacts
<1>5. /\ buffer' = [d \in End |->
            (IF d = <<s, in>> THEN Tail(buffer[d]) ELSE buffer[d])
            \o (IF Peer[d] \in {s} \X out THEN <<i>> ELSE << >>)]
      /\ got' = [m \in Mac |->
            IF \E p \in out : <<s, p>> \in End /\ Peer[<<s, p>>] = m
            THEN Append(got[m], i) ELSE got[m]]
  BY DEF ProcessFrame, Carry
<1>6. ASSUME NEW d \in End
      PROVE  /\ buffer'[d] \in Seq(1 .. Len(sent))
             /\ \A k \in 1 .. Len(buffer'[d]) :
                   Home[d[1]][sent[buffer'[d][k]].src] = d[2]
  <2> DEFINE Num == 1 .. Len(sent)
             r == IF d = <<s, in>> THEN Tail(buffer[d]) ELSE buffer[d]
  <2>1. /\ buffer[d] \in Seq(Num)
        /\ \A j \in 1 .. Len(buffer[d]) : Home[d[1]][sent[buffer[d][j]].src] = d[2]
    BY DEF OriginInv, TypeOK, FramesComeFromHome
  <2>2. /\ r \in Seq(Num)
        /\ \A k \in 1 .. Len(r) : \E j \in 1 .. Len(buffer[d]) : r[k] = buffer[d][j]
    <3>1. CASE d = <<s, in>>
      <4>1. buffer[d] # << >> /\ r = Tail(buffer[d])
        BY <1>1, <3>1 DEF ProcessFrame
      <4> HIDE DEF r, Num
      <4> QED BY <2>1, <4>1, FromTail
    <3>2. CASE d # <<s, in>>
      BY <2>1, <3>2
    <3> QED BY <3>1, <3>2
  <2>3. \A k \in 1 .. Len(r) : Home[d[1]][sent[r[k]].src] = d[2]
    <3> HIDE DEF r
    <3> QED BY <2>1, <2>2
  <2>4. CASE Peer[d] \in {s} \X out
    <3>1. Home[d[1]][frame.src] = d[2]
      <4>1. PICK p \in out : Peer[d] = <<s, p>>
        BY <2>4
      <4>2. p \in Port /\ Home[s][frame.src] # p
        BY <1>1, <1>4, <4>1
      <4> QED BY <1>1, <4>1, <4>2, OtherSide
    <3>2. buffer'[d] = r \o <<i>> /\ i \in Num
      BY <1>1, <1>5, <2>4
    <3> HIDE DEF r, i, Num
    <3>3. /\ buffer'[d] \in Seq(Num)
          /\ \A k \in 1 .. Len(buffer'[d]) :
                \/ buffer'[d][k] = i
                \/ k \in 1 .. Len(r) /\ buffer'[d][k] = r[k]
      BY <2>2, <3>2, OneMore
    <3> QED BY <2>3, <3>1, <3>3 DEF Num
  <2>5. CASE Peer[d] \notin {s} \X out
    <3>1. buffer'[d] = r \o << >> /\ i \in Num
      BY <1>1, <1>5, <2>5
    <3> HIDE DEF r, i, Num
    <3>2. buffer'[d] = r
      BY <2>2, <3>1, OneMore
    <3> QED BY <2>2, <2>3, <3>2 DEF Num
  <2> QED BY <2>4, <2>5
<1>7. ASSUME NEW m \in Mac
      PROVE  /\ got'[m] \in Seq(1 .. Len(sent))
             /\ \A k \in 1 .. Len(got'[m]) : sent[got'[m][k]].src # m
  <2>1. /\ got[m] \in Seq(1 .. Len(sent))
        /\ \A k \in 1 .. Len(got[m]) : sent[got[m][k]].src # m
    BY DEF OriginInv, TypeOK, NeverEchoed
  <2>2. CASE \E p \in out : <<s, p>> \in End /\ Peer[<<s, p>>] = m
    <3>1. frame.src # m
      BY <1>1, <1>4, <2>2, TreeAssumption
    <3>2. got'[m] = Append(got[m], i)
      BY <1>5, <2>2
    <3> HIDE DEF i
    <3> QED BY <1>1, <2>1, <3>1, <3>2
  <2>3. CASE ~ \E p \in out : <<s, p>> \in End /\ Peer[<<s, p>>] = m
    BY <1>5, <2>1, <2>3
  <2> QED BY <2>2, <2>3
<1>8. TypeOK'
  <2>1. buffer' \in [End -> Seq(1 .. Len(sent))]
    BY <1>5, <1>6
  <2>2. got' \in [Mac -> Seq(1 .. Len(sent))]
    BY <1>5, <1>7
  <2> QED BY <1>1, <1>3, <2>1, <2>2 DEF OriginInv, TypeOK
<1>9. FramesComeFromHome' /\ NeverEchoed'
  BY <1>1, <1>6, <1>7 DEF FramesComeFromHome, NeverEchoed
<1> QED BY <1>3, <1>8, <1>9 DEF OriginInv

LEMMA HostSendStep ==
    ASSUME OriginInv, HostSend
    PROVE  OriginInv'
<1>1. PICK frame \in Frame, e \in End :
        /\ Peer[e] = frame.src
        /\ sent' = Append(sent, frame)
        /\ buffer' = [buffer EXCEPT ![e] = Append(@, Len(sent) + 1)]
  BY DEF HostSend
<1>2. /\ sent \in Seq(Frame) /\ sent' \in Seq(Frame) /\ Len(sent) \in Nat
      /\ Len(sent') = Len(sent) + 1 /\ sent'[Len(sent) + 1] = frame
      /\ \A k \in 1 .. Len(sent) : sent'[k] = sent[k]
  BY <1>1 DEF OriginInv, TypeOK
<1>3. ASSUME NEW q \in Seq(1 .. Len(sent))
      PROVE  /\ q \in Seq(1 .. Len(sent'))
             /\ \A k \in 1 .. Len(q) : sent'[q[k]] = sent[q[k]]
  BY <1>2, StillSent
<1>4. ASSUME NEW d \in End
      PROVE  /\ buffer'[d] \in Seq(1 .. Len(sent'))
             /\ \A k \in 1 .. Len(buffer'[d]) :
                   Home[d[1]][sent'[buffer'[d][k]].src] = d[2]
  <2>1. /\ buffer[d] \in Seq(1 .. Len(sent))
        /\ \A k \in 1 .. Len(buffer[d]) : Home[d[1]][sent[buffer[d][k]].src] = d[2]
    BY DEF OriginInv, TypeOK, FramesComeFromHome
  <2>2. CASE d = e
    <3>1. buffer'[d] = Append(buffer[d], Len(sent) + 1)
      BY <1>1, <2>2 DEF OriginInv, TypeOK
    <3>2. Home[d[1]][frame.src] = d[2]
      BY <1>1, <2>2, TreeAssumption DEF Frame
    <3>3. /\ buffer'[d] \in Seq(1 .. Len(sent')) /\ Len(buffer[d]) \in Nat
          /\ Len(buffer'[d]) = Len(buffer[d]) + 1
          /\ \A k \in 1 .. Len(buffer[d]) : buffer'[d][k] = buffer[d][k]
          /\ buffer'[d][Len(buffer[d]) + 1] = Len(sent) + 1
      <4>1. buffer[d] \in Seq(1 .. Len(sent')) /\ Len(sent) + 1 \in 1 .. Len(sent')
        BY <1>2, <1>3, <2>1
      <4> QED BY <3>1, <4>1, AppendProperties
    <3>4. ASSUME NEW k \in 1 .. Len(buffer'[d])
          PROVE  Home[d[1]][sent'[buffer'[d][k]].src] = d[2]
      <4>1. CASE k = Len(buffer[d]) + 1
        BY <1>2, <3>2, <3>3, <4>1
      <4>2. CASE k # Len(buffer[d]) + 1
        <5>1. k \in 1 .. Len(buffer[d])
          BY <3>3, <4>2
        <5>2. sent'[buffer[d][k]] = sent[buffer[d][k]]
          BY <1>3, <2>1, <5>1
        <5>3. buffer'[d][k] = buffer[d][k]
          BY <3>3, <5>1
        <5> QED BY <2>1, <5>1, <5>2, <5>3
      <4> QED BY <4>1, <4>2
    <3> QED BY <3>3, <3>4
  <2>3. CASE d # e
    <3>1. buffer'[d] = buffer[d]
      BY <1>1, <2>3 DEF OriginInv, TypeOK
    <3> QED BY <1>3, <2>1, <3>1
  <2> QED BY <2>2, <2>3
<1>5. got' = got /\ lifeTime' = lifeTime /\ port' = port
  BY DEF HostSend
<1>6. TypeOK'
  <2>1. buffer' \in [End -> Seq(1 .. Len(sent'))]
    BY <1>1, <1>4 DEF OriginInv, TypeOK
  <2>2. got' \in [Mac -> Seq(1 .. Len(sent'))]
    BY <1>3, <1>5 DEF OriginInv, TypeOK
  <2> QED BY <1>2, <1>5, <2>1, <2>2 DEF OriginInv, TypeOK
<1>7. NeverEchoed'
  <2>1. ASSUME NEW m \in Mac, NEW k \in 1 .. Len(got[m])
        PROVE  sent'[got[m][k]].src # m
    BY <1>3 DEF OriginInv, TypeOK, NeverEchoed
  <2> QED BY <1>5, <2>1 DEF NeverEchoed
<1> QED BY <1>4, <1>5, <1>6, <1>7 DEF OriginInv, EntriesPointHome, FramesComeFromHome

LEMMA AgingStep ==
    ASSUME OriginInv, NEW s \in Node, Aging(s)
    PROVE  OriginInv'
<1>1. /\ lifeTime' = [lifeTime EXCEPT ![s] = [m \in Mac |-> Aged(@[m])]]
      /\ UNCHANGED <<port, buffer, sent, got>>
  BY DEF Aging
<1>2. \A life \in 0 .. MaxLife :
        Aged(life) \in 0 .. MaxLife /\ (Aged(life) > 0 => life > 0)
  BY LifeAssumption DEF Aged
<1>3. lifeTime' \in [Node -> [Mac -> 0 .. MaxLife]]
  BY <1>1, <1>2 DEF OriginInv, TypeOK
<1>4. ASSUME NEW u \in Node, NEW m \in Mac, lifeTime'[u][m] > 0
      PROVE  port[u][m] = Home[u][m]
  <2>1. lifeTime[u][m] > 0
    BY <1>1, <1>2, <1>4 DEF OriginInv, TypeOK
  <2> QED BY <2>1 DEF OriginInv, EntriesPointHome
<1> QED
  BY <1>1, <1>3, <1>4
  DEF OriginInv, TypeOK, EntriesPointHome, FramesComeFromHome, NeverEchoed

-----------------------------------------------------------------------------
(* Copies of a frame part for good.                                        *)

\* Behind port p of s a frame has exactly the hosts ahead of it that s keeps
\* at that port: part of what was ahead of it at any other port of s.
LEMMA AheadOfCopy ==
    ASSUME NEW s \in Node, NEW p \in Port, NEW d \in End, Peer[d] = <<s, p>>,
           NEW m \in Mac
    PROVE  /\ <<s, p>> \in End /\ Peer[<<s, p>>] = d
           /\ Ahead(d, m) <=> Home[s][m] = p
<1>1. Peer[d] \in End
  BY PeerAssumption, TreeAssumption
<1>2. Peer[Peer[d]] = d /\ (Home[s][m] # p <=> Home[d[1]][m] = d[2])
  <2>1. /\ Peer[Peer[d]] = d
        /\ Home[d[1]][m] # d[2] <=> Home[Peer[d][1]][m] = Peer[d][2]
    BY <1>1, TreeAssumption
  <2> QED BY <2>1
<1> QED BY <1>1, <1>2 DEF Ahead

\* What is left of a buffer has moved up by one.
LEMMA MovedUp ==
    ASSUME NEW S, NEW q \in Seq(S), q # << >>
    PROVE  \A k \in 1 .. Len(Tail(q)) : k + 1 \in 1 .. Len(q) /\ Tail(q)[k] = q[k + 1]
<1>1. /\ Len(Tail(q)) = Len(q) - 1 /\ Len(q) \in Nat
      /\ \A k \in 1 .. Len(Tail(q)) : Tail(q)[k] = q[k + 1]
  BY HeadTailProperties
<1> QED BY <1>1

\* A frame that has been put behind a buffer is its last one.
LEMMA PutBehind ==
    ASSUME NEW S, NEW r \in Seq(S), NEW x \in S, NEW b, b = r \/ b = r \o <<x>>
    PROVE  \A k \in 1 .. Len(b) :
              \/ k \in 1 .. Len(r) /\ b[k] = r[k]
              \/ b = r \o <<x>> /\ k = Len(b) /\ b[k] = x /\ b # r
<1>1. CASE b = r
  BY <1>1
<1>2. CASE b # r
  <2>1. b = Append(r, x)
    BY <1>2, AppendIsConcat
  <2>2. /\ Len(r) \in Nat /\ Len(b) = Len(r) + 1 /\ b[Len(r) + 1] = x
        /\ \A k \in 1 .. Len(r) : b[k] = r[k]
    BY <2>1, AppendProperties
  <2>3. \A k \in 1 .. Len(b) : k = Len(b) \/ k \in 1 .. Len(r)
    BY <2>2
  <2> QED BY <1>2, <2>2, <2>3
<1> QED BY <1>1, <1>2

LEMMA ProcessFrameCopies ==
    ASSUME IInv, NEW e \in End, ProcessFrame(e)
    PROVE  CopyInv'
<1> DEFINE s == e[1]
           in == e[2]
           i == Head(buffer[e])
           out == OutPorts(s, in, sent[i].dst)
           shift(d) == IF d = e THEN 1 ELSE 0
           Old(d, k) == /\ k + shift(d) \in 1 .. Len(buffer[d])
                        /\ buffer'[d][k] = buffer[d][k + shift(d)]
           New(d, k) == /\ buffer'[d][k] = i
                        /\ \E p \in out : Peer[d] = <<s, p>>
                        /\ k = Len(buffer'[d])
<1>1. /\ s \in Node /\ in \in Port /\ e = <<s, in>>
      /\ 1 \in 1 .. Len(buffer[e]) /\ buffer[e][1] = i /\ i \in 1 .. Len(sent)
      /\ out \subseteq Port \ {in}
  BY ProcessFrameFacts DEF IInv
<1>2. /\ buffer' = [d \in End |->
            (IF d = <<s, in>> THEN Tail(buffer[d]) ELSE buffer[d])
            \o (IF Peer[d] \in {s} \X out THEN <<i>> ELSE << >>)]
      /\ got' = [m \in Mac |->
            IF \E p \in out : <<s, p>> \in End /\ Peer[<<s, p>>] = m
            THEN Append(got[m], i) ELSE got[m]]
  BY DEF ProcessFrame, Carry
<1>3. ASSUME NEW d \in End, NEW k \in 1 .. Len(buffer'[d])
      PROVE  Old(d, k) \/ New(d, k)
  <2> DEFINE Num == 1 .. Len(sent)
             r == IF d = <<s, in>> THEN Tail(buffer[d]) ELSE buffer[d]
  <2>1. buffer[d] \in Seq(Num) /\ (d = e => buffer[d] # << >>)
    BY DEF IInv, OriginInv, TypeOK, ProcessFrame
  <2>2. r \in Seq(Num)
    BY <2>1, <1>1, FromTail
  <2>3. \/ buffer'[d] = r
        \/ buffer'[d] = r \o <<i>> /\ Peer[d] \in {s} \X out
    BY <1>2, <2>2, ConcatEmptySeq
  <2>4. i \in Num
    BY <1>1
  <2>5. CASE k \in 1 .. Len(r) /\ buffer'[d][k] = r[k]
    <3>1. CASE d = e
      <4>1. r = Tail(buffer[d]) /\ shift(d) = 1
        BY <1>1, <3>1
      <4>2. k + 1 \in 1 .. Len(buffer[d]) /\ r[k] = buffer[d][k + 1]
        <5> HIDE DEF r, Num
        <5> QED BY <2>1, <2>5, <3>1, <4>1, MovedUp
      <4> QED BY <2>5, <4>1, <4>2
    <3>2. CASE d # e
      <4>1. r = buffer[d] /\ shift(d) = 0 /\ k + 0 = k
        BY <1>1, <2>5, <3>2
      <4> QED BY <2>5, <4>1
    <3> QED BY <3>1, <3>2
  <2>6. CASE ~(k \in 1 .. Len(r) /\ buffer'[d][k] = r[k])
    <3>1. k = Len(buffer'[d]) /\ buffer'[d][k] = i /\ buffer'[d] # r
      <4> HIDE DEF r, Num, i
      <4> QED BY <2>2, <2>3, <2>4, <2>6, PutBehind
    <3> HIDE DEF r, i
    <3>2. Peer[d] \in {s} \X out
      BY <2>3, <3>1
    <3>3. \E p \in out : Peer[d] = <<s, p>>
      <4> HIDE DEF s, out
      <4> QED BY <3>2
    <3> QED BY <3>1, <3>3
  <2> QED BY <2>5, <2>6
<1> HIDE DEF i, out, s, in
<1>4. ASSUME NEW d \in End, NEW p \in out, Peer[d] = <<s, p>>, NEW m \in Mac
      PROVE  /\ <<s, p>> \in End /\ Peer[<<s, p>>] = d
             /\ Ahead(d, m) => Home[s][m] = p /\ Ahead(e, m)
  <2>1. p \in Port /\ p # in
    BY <1>1
  <2>2. Ahead(e, m) <=> Home[s][m] # in
    BY DEF Ahead, s, in
  <2> QED BY <1>1, <1>4, <2>1, <2>2, AheadOfCopy
\* An old copy is not the one that has been read.
<1>5. ASSUME NEW d \in End, NEW k \in 1 .. Len(buffer'[d]), Old(d, k), NEW m \in Mac,
             buffer'[d][k] = i
      PROVE  ~(Ahead(e, m) /\ Ahead(d, m))
  <2>1. ~(e = d /\ 1 = k + shift(d))
    OBVIOUS
  <2>2. k + shift(d) \in 1 .. Len(buffer[d]) /\ buffer[e][1] = buffer[d][k + shift(d)]
    BY <1>1, <1>5
  <2> HIDE DEF shift
  <2> QED BY <1>1, <2>1, <2>2 DEF IInv, CopyInv, CopiesApart
<1>6. CopiesApart'
  <2>1. SUFFICES ASSUME NEW d \in End, NEW f \in End,
                        NEW j \in 1 .. Len(buffer'[d]), NEW k \in 1 .. Len(buffer'[f]),
                        buffer'[d][j] = buffer'[f][k], ~(d = f /\ j = k),
                        NEW m \in Mac, Ahead(d, m), Ahead(f, m)
                 PROVE  FALSE
    BY DEF CopiesApart, Ahead
  <2>2. CASE Old(d, j) /\ Old(f, k)
    <3>1. ~(d = f /\ j + shift(d) = k + shift(f))
      BY <2>1
    <3> QED BY <2>1, <2>2, <3>1 DEF IInv, CopyInv, CopiesApart
  <2>3. CASE New(d, j) /\ Old(f, k)
    BY <1>4, <1>5, <2>1, <2>3
  <2>4. CASE Old(d, j) /\ New(f, k)
    BY <1>4, <1>5, <2>1, <2>4
  <2>5. CASE New(d, j) /\ New(f, k)
    <3>1. PICK p \in out, q \in out : Peer[d] = <<s, p>> /\ Peer[f] = <<s, q>>
      BY <2>5
    <3>2. p = q
      <4>1. Home[s][m] = p
        BY <1>4, <2>1, <3>1
      <4>2. Home[s][m] = q
        BY <1>4, <2>1, <3>1
      <4> QED BY <4>1, <4>2
    <3>3. d = f
      BY <1>4, <3>1, <3>2
    <3> QED BY <2>1, <2>5, <3>3
  <2> QED BY <1>3, <2>2, <2>3, <2>4, <2>5
\* What a host receives now was ahead of the copy that has been read.
<1>7. ASSUME NEW m \in Mac
      PROVE  \/ got'[m] = got[m]
             \/ /\ got'[m] = Append(got[m], i) /\ Ahead(e, m)
                /\ \E p \in out : <<s, p>> \in End /\ Peer[<<s, p>>] = m /\ Home[s][m] = p
  <2>1. CASE \E p \in out : <<s, p>> \in End /\ Peer[<<s, p>>] = m
    <3>1. PICK p \in out : <<s, p>> \in End /\ Peer[<<s, p>>] = m
      BY <2>1
    <3>2. Home[s][m] = p /\ p # in
      BY <1>1, <3>1, TreeAssumption
    <3>3. Ahead(e, m)
      BY <3>2 DEF Ahead, s, in
    <3> QED BY <1>2, <2>1, <3>1, <3>2, <3>3
  <2>2. CASE ~ \E p \in out : <<s, p>> \in End /\ Peer[<<s, p>>] = m
    BY <1>2, <2>2
  <2> QED BY <2>1, <2>2
<1>8. ASSUME NEW m \in Mac, NEW k \in 1 .. Len(got'[m])
      PROVE  \/ k \in 1 .. Len(got[m]) /\ got'[m][k] = got[m][k]
             \/ /\ got'[m] = Append(got[m], i) /\ k = Len(got[m]) + 1 /\ got'[m][k] = i
                /\ Ahead(e, m)
                /\ \E p \in out : <<s, p>> \in End /\ Peer[<<s, p>>] = m /\ Home[s][m] = p
  <2>1. got[m] \in Seq(1 .. Len(sent))
    BY DEF IInv, OriginInv, TypeOK
  <2>2. CASE got'[m] = got[m]
    BY <2>2
  <2>3. CASE got'[m] # got[m]
    <3>1. got'[m] = Append(got[m], i) /\ Len(got[m]) \in Nat
      BY <1>7, <2>1, <2>3
    <3>2. /\ Len(got'[m]) = Len(got[m]) + 1
          /\ got'[m][Len(got[m]) + 1] = i
          /\ \A l \in 1 .. Len(got[m]) : got'[m][l] = got[m][l]
      BY <1>1, <2>1, <3>1, AppendProperties
    <3>3. k = Len(got[m]) + 1 \/ k \in 1 .. Len(got[m])
      BY <3>1, <3>2
    <3> QED BY <1>7, <2>3, <3>1, <3>2, <3>3
  <2> QED BY <2>2, <2>3
<1>9. GotLeftBehind'
  <2>1. SUFFICES ASSUME NEW d \in End, NEW m \in Mac,
                        NEW j \in 1 .. Len(buffer'[d]), NEW k \in 1 .. Len(got'[m]),
                        buffer'[d][j] = got'[m][k], Ahead(d, m)
                 PROVE  FALSE
    BY DEF GotLeftBehind, Ahead
  <2>2. CASE k \in 1 .. Len(got[m]) /\ got'[m][k] = got[m][k]
    <3>1. CASE Old(d, j)
      BY <2>1, <2>2, <3>1 DEF IInv, CopyInv, GotLeftBehind
    <3>2. CASE New(d, j)
      <4>1. Ahead(e, m)
        BY <1>4, <2>1, <3>2
      <4>2. got[m][k] = buffer[e][1]
        BY <1>1, <2>1, <2>2, <3>2
      <4> QED BY <1>1, <2>2, <4>1, <4>2 DEF IInv, CopyInv, GotLeftBehind
    <3> QED BY <1>3, <3>1, <3>2
  <2>3. CASE ~(k \in 1 .. Len(got[m]) /\ got'[m][k] = got[m][k])
    <3>1. got'[m][k] = i /\ Ahead(e, m)
      BY <1>8, <2>3
    <3>2. PICK p \in out : <<s, p>> \in End /\ Peer[<<s, p>>] = m /\ Home[s][m] = p
      BY <1>8, <2>3
    <3>3. CASE Old(d, j)
      BY <1>5, <2>1, <3>1, <3>3
    <3>4. CASE New(d, j)
      <4>1. PICK q \in out : Peer[d] = <<s, q>>
        BY <3>4
      <4>2. Home[s][m] = q /\ Peer[<<s, q>>] = d
        BY <1>4, <2>1, <4>1
      <4>3. d = m /\ d \in Node \X Port
        BY <3>2, <4>2, PeerAssumption
      <4> QED BY <4>3, TreeAssumption
    <3> QED BY <1>3, <3>3, <3>4
  <2> QED BY <2>2, <2>3
<1>10. AtMostOnce'
  <2>1. SUFFICES ASSUME NEW m \in Mac, NEW j \in 1 .. Len(got'[m]),
                        NEW k \in 1 .. Len(got'[m]), got'[m][j] = got'[m][k], j # k
                 PROVE  FALSE
    BY DEF AtMostOnce
  <2>2. ASSUME NEW l \in 1 .. Len(got[m]), Ahead(e, m) PROVE got[m][l] # i
    BY <1>1, <2>2 DEF IInv, CopyInv, GotLeftBehind
  <2> QED BY <1>8, <2>1, <2>2 DEF IInv, CopyInv, AtMostOnce
<1> QED BY <1>6, <1>9, <1>10 DEF CopyInv

LEMMA HostSendCopies ==
    ASSUME IInv, OriginInv', HostSend
    PROVE  CopyInv'
<1>1. PICK e \in End : buffer' = [buffer EXCEPT ![e] = Append(@, Len(sent) + 1)]
  BY DEF HostSend
<1>2. got' = got /\ Len(sent) \in Nat
  BY DEF HostSend, IInv, OriginInv, TypeOK
\* The new number is nowhere yet.
<1>3. /\ \A d \in End : \A k \in 1 .. Len(buffer[d]) : buffer[d][k] # Len(sent) + 1
      /\ \A m \in Mac : \A k \in 1 .. Len(got[m]) : got[m][k] # Len(sent) + 1
  <2>1. /\ \A d \in End : buffer[d] \in Seq(1 .. Len(sent))
        /\ \A m \in Mac : got[m] \in Seq(1 .. Len(sent))
    BY DEF IInv, OriginInv, TypeOK
  <2>2. \A n \in 1 .. Len(sent) : n # Len(sent) + 1
    BY <1>2
  <2> QED BY <2>1, <2>2, ElementOfSeq
<1>4. ASSUME NEW d \in End, NEW k \in 1 .. Len(buffer'[d])
      PROVE  \/ k \in 1 .. Len(buffer[d]) /\ buffer'[d][k] = buffer[d][k]
             \/ d = e /\ k = Len(buffer[e]) + 1 /\ buffer'[d][k] = Len(sent) + 1
  <2>1. buffer[d] \in Seq(1 .. Len(sent)) /\ buffer \in [End -> Seq(1 .. Len(sent))]
    BY DEF IInv, OriginInv, TypeOK
  <2>2. CASE d = e
    <3>1. buffer'[d] = Append(buffer[d], Len(sent) + 1)
      BY <1>1, <2>1, <2>2
    <3>2. buffer[d] \in Seq(Nat)
      BY <2>1, SeqMonotonic
    <3>3. /\ Len(buffer[d]) \in Nat /\ Len(buffer'[d]) = Len(buffer[d]) + 1
          /\ buffer'[d][Len(buffer[d]) + 1] = Len(sent) + 1
          /\ \A l \in 1 .. Len(buffer[d]) : buffer'[d][l] = buffer[d][l]
      BY <1>2, <3>1, <3>2, AppendProperties
    <3> QED BY <2>2, <3>3
  <2>3. CASE d # e
    BY <1>1, <2>1, <2>3
  <2> QED BY <2>2, <2>3
<1>5. CopiesApart'
  <2>1. SUFFICES ASSUME NEW d \in End, NEW f \in End,
                        NEW j \in 1 .. Len(buffer'[d]), NEW k \in 1 .. Len(buffer'[f]),
                        buffer'[d][j] = buffer'[f][k], ~(d = f /\ j = k),
                        NEW m \in Mac, Ahead(d, m), Ahead(f, m)
                 PROVE  FALSE
    BY DEF CopiesApart, Ahead
  <2> QED BY <1>3, <1>4, <2>1 DEF IInv, CopyInv, CopiesApart
<1>6. GotLeftBehind'
  <2>1. SUFFICES ASSUME NEW d \in End, NEW m \in Mac,
                        NEW j \in 1 .. Len(buffer'[d]), NEW k \in 1 .. Len(got[m]),
                        buffer'[d][j] = got[m][k], Ahead(d, m)
                 PROVE  FALSE
    BY <1>2 DEF GotLeftBehind, Ahead
  <2> QED BY <1>3, <1>4, <2>1 DEF IInv, CopyInv, GotLeftBehind
<1> QED BY <1>2, <1>5, <1>6 DEF IInv, CopyInv, AtMostOnce

-----------------------------------------------------------------------------
(* The inductive invariant, and what follows from it.                      *)

\* In every tree of switches, every table points to its hosts, every frame in
\* flight faces its source, no host hears itself and no two copies of a frame
\* are on their way to the same host, whatever is flooded or aged out:
\* InitSwitch establishes it and each call of ProcessFrame keeps it.
THEOREM Invariance == Spec => []IInv
<1>1. Init => IInv
  <2>1. SUFFICES ASSUME Init PROVE IInv OBVIOUS
  <2>2. TypeOK /\ EntriesPointHome /\ FramesComeFromHome /\ NeverEchoed
    BY <2>1, LifeAssumption
    DEF Init, TypeOK, EntriesPointHome, FramesComeFromHome, NeverEchoed
  <2>3. CopyInv
    BY <2>1 DEF Init, CopyInv, CopiesApart, GotLeftBehind, AtMostOnce
  <2> QED BY <2>2, <2>3 DEF IInv, OriginInv
<1>2. IInv /\ [Next]_vars => IInv'
  <2>1. SUFFICES ASSUME IInv, [Next]_vars PROVE IInv' OBVIOUS
  <2>2. CASE UNCHANGED vars
    BY <2>1, <2>2
    DEF vars, IInv, OriginInv, TypeOK, EntriesPointHome, FramesComeFromHome, NeverEchoed,
        CopyInv, CopiesApart, GotLeftBehind, AtMostOnce, Ahead
  <2>3. ASSUME NEW e \in End, ProcessFrame(e) PROVE IInv'
    BY <2>1, <2>3, ProcessFrameStep, ProcessFrameCopies DEF IInv
  <2>4. CASE HostSend
    BY <2>1, <2>4, HostSendStep, HostSendCopies DEF IInv
  <2>5. ASSUME NEW s \in Node, Aging(s) PROVE IInv'
    <3>1. UNCHANGED <<buffer, got>>
      BY <2>5 DEF Aging
    <3>2. CopyInv'
      BY <2>1, <3>1 DEF IInv, CopyInv, CopiesApart, GotLeftBehind, AtMostOnce, Ahead
    <3> QED BY <2>1, <2>5, <3>2, AgingStep DEF IInv
  <2> QED BY <2>1, <2>2, <2>3, <2>4, <2>5 DEF Next
<1> QED BY <1>1, <1>2, PTL DEF Spec

\* Every variable of the network keeps its type.
THEOREM TypeCorrect == Spec => []TypeOK
<1>1. IInv => TypeOK
  BY DEF IInv, OriginInv
<1> QED BY <1>1, Invariance, PTL

\* No switch of any tree ever has an entry that does not lead to its host.
THEOREM EntriesCorrect == Spec => []EntriesPointHome
<1>1. IInv => EntriesPointHome
  BY DEF IInv, OriginInv
<1> QED BY <1>1, Invariance, PTL

\* Every frame in a buffer has come in at the port that leads to its source.
THEOREM FramesCorrect == Spec => []FramesComeFromHome
<1>1. IInv => FramesComeFromHome
  BY DEF IInv, OriginInv
<1> QED BY <1>1, Invariance, PTL

\* No host of any tree ever receives a frame that it has sent.
THEOREM EchoCorrect == Spec => []NeverEchoed
<1>1. IInv => NeverEchoed
  BY DEF IInv, OriginInv
<1> QED BY <1>1, Invariance, PTL

\* No host of any tree ever receives the same frame twice, although some switches
\* flood what others forward.
THEOREM OnceCorrect == Spec => []AtMostOnce
<1>1. IInv => AtMostOnce
  BY DEF IInv, CopyInv
<1> QED BY <1>1, Invariance, PTL
=============================================================================
