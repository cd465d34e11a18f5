------------------------------- MODULE Switch -------------------------------
(***************************************************************************)
(* The learning switch of Lab4 (mySwitch): a table of slots that are found *)
(* by linear search, aged by the controller's frames on port 1.  The       *)
(* simulator calls ProcessFrame from one thread, one frame at a time.      *)
(***************************************************************************)
EXTENDS Integers, FiniteSets

CONSTANTS
    Mac,        \* addresses of the hosts
    NoMac,      \* the all-zero address of a slot never used
    PortNum,    \* given to InitSwitch; port 1 leads to the controller
    TableSize,  \* length of switchTable: PortNum + 1000 in the code
    MaxLife     \* lifeTime of an entry just learned: 10 in the code

ASSUME MacAssumption == NoMac \notin Mac /\ IsFiniteSet(Mac)
ASSUME SizeAssumption ==
    PortNum \in Nat \ {0} /\ TableSize \in Nat /\ MaxLife \in Nat \ {0}

Controller == 1
HostPort == 2 .. PortNum
Slot == 0 .. TableSize - 1

VARIABLES
    switchTable,
    inPort,     \* the port of the last frame
    reply       \* what ProcessFrame returned: -1 drop, 0 broadcast, or a port

vars == <<switchTable, inPort, reply>>

Entry == [used : {0, 1}, port : HostPort \cup {-1},
          macAdd : Mac \cup {NoMac}, lifeTime : 0 .. MaxLife]

TypeOK ==
    /\ switchTable \in [Slot -> Entry]
    /\ inPort \in HostPort \cup {Controller}
    /\ reply \in HostPort \cup {-1, 0}

\* InitSwitch.
Init ==
    /\ switchTable = [i \in Slot |-> [used |-> 0, port |-> -1,
                                      macAdd |-> NoMac, lifeTime |-> 0]]
    /\ inPort = Controller
    /\ reply = -1

-----------------------------------------------------------------------------
(* ProcessFrame on a host port.                                            *)

Free == {i \in Slot : switchTable[i].used = 0}
EntriesOf(m) == {i \in Slot : switchTable[i].used = 1 /\ switchTable[i].macAdd = m}

\* What a for loop that stops at its first hit finds in S.
IsFirst(i, S) == i \in S /\ \A j \in S : i <= j

\* Mutant: a host that has moved keeps its old port.
RefreshKeepsPort(in, src) ==
    /\ EntriesOf(src) # {}
    /\ switchTable' = [i \in Slot |->
            IF i \in EntriesOf(src)
            THEN [switchTable[i] EXCEPT !.lifeTime = MaxLife]
            ELSE switchTable[i]]

\* The loop that refreshes has no break: every entry of src is rewritten.
Refresh(in, src) ==
    /\ EntriesOf(src) # {}
    /\ switchTable' = [i \in Slot |->
            IF i \in EntriesOf(src)
            THEN [switchTable[i] EXCEPT !.lifeTime = MaxLife, !.port = in]
            ELSE switchTable[i]]

\* Mutant: the test of upgrade is dropped.
InsertAlways(in, src) ==
    \E i \in Slot :
        /\ IsFirst(i, Free)
        /\ switchTable' = [switchTable EXCEPT ![i] =
                [used |-> 1, port |-> in, macAdd |-> src, lifeTime |-> MaxLife]]

Insert(in, src) ==
    /\ EntriesOf(src) = {}
    /\ \E i \in Slot :
        /\ IsFirst(i, Free)
        /\ switchTable' = [switchTable EXCEPT ![i] =
                [used |-> 1, port |-> in, macAdd |-> src, lifeTime |-> MaxLife]]

\* Every slot is in use: the source is not learned.
TableFull(src) ==
    /\ EntriesOf(src) = {}
    /\ Free = {}
    /\ UNCHANGED switchTable

\* Mutant: the lookup comes before the source is learned.
ReplyBeforeLearning(in, dst) ==
    \/ EntriesOf(dst) = {} /\ reply' = 0
    \/ \E i \in Slot :
        /\ IsFirst(i, EntriesOf(dst))
        /\ reply' = IF switchTable[i].port = in THEN -1 ELSE switchTable[i].port

\* The lookup sees the table as just updated.
Reply(in, dst) ==
    \/ EntriesOf(dst)' = {} /\ reply' = 0
    \/ \E i \in Slot :
        /\ IsFirst(i, EntriesOf(dst)')
        /\ reply' = IF switchTable'[i].port = in THEN -1 ELSE switchTable'[i].port

DataFrame(in, src, dst) ==
    /\ Refresh(in, src) \/ Insert(in, src) \/ TableFull(src)
    /\ Reply(in, dst)
    /\ inPort' = in

-----------------------------------------------------------------------------
(* ProcessFrame on port 1, and frames of the wrong type.                   *)

\* Mutants: free slots are aged too; an entry is freed one aging late.
AgedWhenFree(e) ==
    [e EXCEPT !.lifeTime = @ - 1, !.used = IF e.lifeTime <= 1 THEN 0 ELSE e.used]
AgedLate(e) ==
    [e EXCEPT !.lifeTime = @ - e.used, !.used = IF e.lifeTime <= 0 THEN 0 ELSE e.used]

Aged(e) ==
    LET life == e.lifeTime - e.used
    IN  [e EXCEPT !.lifeTime = life, !.used = IF life <= 0 THEN 0 ELSE e.used]

ControlFrame ==
    /\ switchTable' = [i \in Slot |-> Aged(switchTable[i])]
    /\ inPort' = Controller
    /\ reply' = -1

\* A data frame on port 1 or a control frame on a host port.
WrongType ==
    /\ inPort' \in HostPort \cup {Controller}
    /\ reply' = -1
    /\ UNCHANGED switchTable

Next ==
    \/ \E in \in HostPort, src, dst \in Mac : DataFrame(in, src, dst)
    \/ ControlFrame
    \/ WrongType

Spec == Init /\ [][Next]_vars

-----------------------------------------------------------------------------
\* No host has two entries, whatever slots were freed and reused in between:
\* the lookup's break and the refresh loop would otherwise see different ports.
OneEntryPerMac ==
    \A i, j \in Slot :
        switchTable[i].used = 1 /\ switchTable[j].used = 1
        /\ switchTable[i].macAdd = switchTable[j].macAdd => i = j

\* Aging and reuse of slots keep used and lifeTime in step: an entry in use has
\* life left, a free slot has none.
UsedMeansAlive == \A i \in Slot : switchTable[i].used = 1 <=> switchTable[i].lifeTime > 0

\* Entries in use were learned from a host port, never from the controller's.
UsedIsLearned ==
    \A i \in Slot : switchTable[i].used = 1 =>
        switchTable[i].port \in HostPort /\ switchTable[i].macAdd \in Mac

\* The inductive invariant.
IInv == TypeOK /\ OneEntryPerMac /\ UsedMeansAlive /\ UsedIsLearned

-----------------------------------------------------------------------------
(* The abstract switch this table stands for.                              *)

EntryOf(m) == switchTable[CHOOSE i \in Slot : i \in EntriesOf(m)]

At == [m \in Mac |-> IF EntriesOf(m) = {} THEN Controller ELSE EntryOf(m).port]
Age == [m \in Mac |-> IF EntriesOf(m) = {} THEN MaxLife
                                           ELSE MaxLife - EntryOf(m).lifeTime]

Abstract == INSTANCE Forwarding
                WITH Capacity <- TableSize, at <- At, age <- Age

\* A host is known exactly when one of its frames arrived less than MaxLife
\* agings ago (and a slot was free at its first), at the port of the latest
\* one, and every frame is answered accordingly.
ImplementsForwarding == Abstract!Spec
=============================================================================
