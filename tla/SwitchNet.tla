----------------------------- MODULE SwitchNet -----------------------------
(***************************************************************************)
(* Several learning switches linked to a tree, as the simulator of Lab4    *)
(* runs them: each link end has a buffer, and ProcessFrame is called for   *)
(* one frame of one switch at a time. A switch is seen as Forwarding shows *)
(* it, by host and not by slot; its table has room for every host.         *)
(***************************************************************************)
EXTENDS Integers, Sequences

CONSTANTS
    Node,       \* the switches
    Mac,        \* the hosts' addresses
    Port,       \* ports of a switch, the controller's left out
    Peer,       \* what is at the other end of each port in use: a host or a port
    Home,       \* the port of each switch that leads to each host
    MaxLife,    \* lifeTime of an entry just learned: 10 in the code
    MaxFrames   \* bound: frames sent in a behaviour

End == DOMAIN Peer

ASSUME PeerAssumption ==
    /\ End \subseteq Node \X Port
    /\ \A e \in End : Peer[e] \in Mac \cup End

\* In a tree, a host is on exactly one side of every link.
ASSUME TreeAssumption ==
    /\ Mac \cap (Node \X Port) = {}
    /\ Home \in [Node -> [Mac -> Port]]
    /\ \A e \in End : Peer[e] \in Mac => Home[e[1]][Peer[e]] = e[2]
    /\ \A e \in End : Peer[e] \in End =>
          /\ Peer[Peer[e]] = e
          /\ \A m \in Mac : Home[e[1]][m] # e[2] <=> Home[Peer[e][1]][m] = Peer[e][2]
ASSUME LifeAssumption == MaxLife \in Nat \ {0} /\ MaxFrames \in Nat

VARIABLES
    lifeTime,  \* of each switch's entry for each host; 0 when it has none
    port,      \* of that entry; the last one of an entry that has aged out
    buffer,    \* frames that have arrived at each end
    sent,      \* every frame sent by a host
    got        \* the numbers of the frames each host has received, in order

vars == <<lifeTime, port, buffer, sent, got>>

Frame == [src : Mac, dst : Mac]

\* Every variable has its type.
TypeOK ==
    /\ lifeTime \in [Node -> [Mac -> 0 .. MaxLife]]
    /\ port \in [Node -> [Mac -> Port \cup {-1}]]
    /\ sent \in Seq(Frame)
    /\ buffer \in [End -> Seq(1 .. Len(sent))]
    /\ got \in [Mac -> Seq(1 .. Len(sent))]

\* InitSwitch in every switch.
Init ==
    /\ lifeTime = [s \in Node |-> [m \in Mac |-> 0]]
    /\ port = [s \in Node |-> [m \in Mac |-> -1]]
    /\ buffer = [e \in End |-> << >>]
    /\ sent = << >>
    /\ got = [m \in Mac |-> << >>]

\* A host sends a frame to another one.
HostSend ==
    /\ Len(sent) < MaxFrames
    /\ \E frame \in Frame, e \in End :
        /\ Peer[e] = frame.src /\ frame.src # frame.dst
        /\ sent' = Append(sent, frame)
        /\ buffer' = [buffer EXCEPT ![e] = Append(@, Len(sent) + 1)]
    /\ UNCHANGED <<lifeTime, port, got>>

-----------------------------------------------------------------------------
(* ProcessFrame of switch s for a frame that has come in at port in.       *)

\* Mutant: the destination is learned at the port of the source.
LearnDestination(s, in, frame) ==
    /\ lifeTime' = [lifeTime EXCEPT ![s][frame.dst] = MaxLife]
    /\ port' = [port EXCEPT ![s][frame.dst] = in]

Learn(s, in, frame) ==
    /\ lifeTime' = [lifeTime EXCEPT ![s][frame.src] = MaxLife]
    /\ port' = [port EXCEPT ![s][frame.src] = in]

OtherPorts(s, in) == {p \in Port \ {in} : <<s, p>> \in End}

\* Mutants: the test of outPort == inPort is dropped; a frame for a host without
\* an entry is dropped.
OutPortsNoDrop(s, in, dst) ==
    IF lifeTime'[s][dst] = 0 THEN OtherPorts(s, in) ELSE {port'[s][dst]}
OutPortsNoBroadcast(s, in, dst) ==
    IF lifeTime'[s][dst] = 0 THEN {} ELSE {port'[s][dst]} \ {in}

\* Where the frame goes: 0 stands for every port but its own, -1 for none.
OutPorts(s, in, dst) ==
    IF lifeTime'[s][dst] = 0 THEN OtherPorts(s, in) ELSE {port'[s][dst]} \ {in}

\* The simulator carries frame i from the ports out of s to their peers.
Carry(s, in, out, i) ==
    /\ buffer' = [e \in End |->
            (IF e = <<s, in>> THEN Tail(buffer[e]) ELSE buffer[e])
            \o (IF Peer[e] \in {s} \X out THEN <<i>> ELSE << >>)]
    /\ got' = [m \in Mac |->
            IF \E p \in out : <<s, p>> \in End /\ Peer[<<s, p>>] = m
            THEN Append(got[m], i) ELSE got[m]]

ProcessFrame(e) ==
    /\ buffer[e] # << >>
    /\ LET i     == Head(buffer[e])
           frame == sent[i]
       IN  /\ Learn(e[1], e[2], frame)
           /\ Carry(e[1], e[2], OutPorts(e[1], e[2], frame.dst), i)
    /\ UNCHANGED sent

\* Mutant: entries that are not in use are aged as well.
AgedUnused(life) == life - 1

Aged(life) == IF life = 0 THEN 0 ELSE life - 1

\* ProcessFrame of switch s for a frame of the controller. The controller sends
\* one to every switch, and data frames are processed between any two of them.
Aging(s) ==
    /\ lifeTime' = [lifeTime EXCEPT ![s] = [m \in Mac |-> Aged(@[m])]]
    /\ UNCHANGED <<port, buffer, sent, got>>

Next ==
    \/ HostSend
    \/ \E e \in End : ProcessFrame(e)
    \/ \E s \in Node : Aging(s)

Spec == Init /\ [][Next]_vars

\* The simulator goes on until no buffer holds a frame; nobody has to age or send.
FairSpec == Spec /\ \A e \in End : WF_vars(ProcessFrame(e))

-----------------------------------------------------------------------------
\* Every entry of every switch names the port that leads to its host, whatever
\* floods, copies and agings came before: frames are never led astray.
EntriesPointHome ==
    \A s \in Node, m \in Mac : lifeTime[s][m] > 0 => port[s][m] = Home[s][m]

\* A frame waits only at ends that face its source. With EntriesPointHome this is
\* inductive: the first is learned from the second.
FramesComeFromHome ==
    \A e \in End : \A k \in 1 .. Len(buffer[e]) :
        Home[e[1]][sent[buffer[e][k]].src] = e[2]

\* No host receives its own frame: a switch that knows less floods a frame to
\* one that knows better, which must not send it back.
NeverEchoed == \A m \in Mac : \A k \in 1 .. Len(got[m]) : sent[got[m][k]].src # m

\* No host receives a frame twice, although some switches flood what others
\* forward, and each forgets at its own time.
AtMostOnce ==
    \A m \in Mac : \A j, k \in 1 .. Len(got[m]) : got[m][j] = got[m][k] => j = k

\* The hosts that a frame waiting at end e can still reach.
Ahead(e, m) == Home[e[1]][m] # e[2]

\* Two copies of a frame have no host ahead of both: a switch that floods hands
\* each of its copies another part of what was ahead of the one it has read.
CopiesApart ==
    \A e, d \in End : \A j \in 1 .. Len(buffer[e]), k \in 1 .. Len(buffer[d]) :
        buffer[e][j] = buffer[d][k] /\ ~(e = d /\ j = k) =>
            \A m \in Mac : ~(Ahead(e, m) /\ Ahead(d, m))

\* A host that has received a frame is ahead of no copy of it.
GotLeftBehind ==
    \A e \in End, m \in Mac : \A j \in 1 .. Len(buffer[e]), k \in 1 .. Len(got[m]) :
        buffer[e][j] = got[m][k] => ~Ahead(e, m)

\* The inductive invariant: where frames come from, and where they still go.
OriginInv == TypeOK /\ EntriesPointHome /\ FramesComeFromHome /\ NeverEchoed
CopyInv == CopiesApart /\ GotLeftBehind /\ AtMostOnce
IInv == OriginInv /\ CopyInv

\* Every frame reaches its destination, even if entries age out on its way.
Arrived(i) == i <= Len(sent) /\ \E k \in 1 .. Len(got[sent[i].dst]) : got[sent[i].dst][k] = i
Delivered == \A i \in 1 .. MaxFrames : i <= Len(sent) ~> Arrived(i)
=============================================================================
