---------------------------- MODULE SwitchProof ----------------------------
(* Proofs about the learning switch.                                       *)
EXTENDS Switch, FiniteSetTheorems, TLAPS

\* One entry, refreshed.
Refreshed(e, in) == [e EXCEPT !.lifeTime = MaxLife, !.port = in]

LEMMA RefreshedEntry ==
    ASSUME NEW e \in Entry, NEW in \in HostPort
    PROVE  /\ Refreshed(e, in) \in Entry
           /\ Refreshed(e, in).used = e.used /\ Refreshed(e, in).macAdd = e.macAdd
           /\ Refreshed(e, in).port = in /\ Refreshed(e, in).lifeTime = MaxLife
<1>1. MaxLife \in 0 .. MaxLife
  BY SizeAssumption
<1> QED BY <1>1 DEF Refreshed, Entry

\* One entry, aged.
LEMMA AgedEntry ==
    ASSUME NEW e \in Entry, e.used = 1 <=> e.lifeTime > 0
    PROVE  /\ Aged(e) \in Entry
           /\ Aged(e).used = 1 <=> Aged(e).lifeTime > 0
           /\ Aged(e).used = 1 => e.used = 1
           /\ Aged(e).port = e.port /\ Aged(e).macAdd = e.macAdd
<1> DEFINE life == e.lifeTime - e.used
           used == IF life <= 0 THEN 0 ELSE e.used
<1>1. /\ e.used \in {0, 1} /\ e.lifeTime \in 0 .. MaxLife /\ MaxLife \in Nat
  BY SizeAssumption DEF Entry
<1>2. /\ life \in 0 .. MaxLife /\ used \in {0, 1}
      /\ used = 1 <=> life > 0
      /\ used = 1 => e.used = 1
  BY <1>1
<1>3. Aged(e) = [e EXCEPT !.lifeTime = life, !.used = used]
  BY DEF Aged
<1>4. /\ Aged(e) \in Entry
      /\ Aged(e).used = used /\ Aged(e).lifeTime = life
      /\ Aged(e).port = e.port /\ Aged(e).macAdd = e.macAdd
  <2> HIDE DEF life, used
  <2> QED BY <1>2, <1>3 DEF Entry
<1> QED BY <1>2, <1>4

\* What the three branches of learning do to the table, in one form: the
\* entries of other addresses stay, and at most one slot now holds src.
LEMMA LearnTable ==
    ASSUME IInv, NEW in \in HostPort, NEW src \in Mac,
           Refresh(in, src) \/ Insert(in, src) \/ TableFull(src)
    PROVE  /\ switchTable' \in [Slot -> Entry]
           /\ OneEntryPerMac' /\ UsedMeansAlive' /\ UsedIsLearned'
<1> USE SizeAssumption DEF IInv, TypeOK, Entry, OneEntryPerMac, UsedMeansAlive, UsedIsLearned
<1>1. CASE Refresh(in, src)
  <2>1. ASSUME NEW i \in Slot
        PROVE  /\ switchTable'[i] \in Entry
               /\ switchTable'[i].used = switchTable[i].used
               /\ switchTable'[i].macAdd = switchTable[i].macAdd
               /\ \/ switchTable'[i] = switchTable[i]
                  \/ /\ switchTable[i].used = 1
                     /\ switchTable'[i].port = in
                     /\ switchTable'[i].lifeTime = MaxLife
    <3>1. switchTable[i] \in Entry
      OBVIOUS
    <3>2. CASE i \in EntriesOf(src)
      <4>1. switchTable'[i] = Refreshed(switchTable[i], in)
        BY <1>1, <3>2 DEF Refresh, Refreshed
      <4> HIDE DEF Entry
      <4> QED BY <3>1, <3>2, <4>1, RefreshedEntry DEF EntriesOf
    <3>3. CASE i \notin EntriesOf(src)
      BY <1>1, <3>1, <3>3 DEF Refresh
    <3> QED BY <3>2, <3>3
  <2>2. switchTable' \in [Slot -> Entry]
    BY <1>1, <2>1 DEF Refresh
  <2>3. OneEntryPerMac' /\ UsedMeansAlive' /\ UsedIsLearned'
    BY <2>1
  <2> QED BY <2>2, <2>3
<1>2. CASE Insert(in, src)
  <2>1. PICK i \in Slot :
          /\ switchTable[i].used = 0
          /\ switchTable' = [switchTable EXCEPT ![i] =
                [used |-> 1, port |-> in, macAdd |-> src, lifeTime |-> MaxLife]]
    BY <1>2 DEF Insert, IsFirst, Free
  <2>2. \A j \in Slot : switchTable[j].used = 1 => switchTable[j].macAdd # src
    BY <1>2 DEF Insert, EntriesOf
  <2>3. switchTable' \in [Slot -> Entry]
    BY <2>1
  <2>4. OneEntryPerMac'
    BY <2>1, <2>2
  <2>5. UsedMeansAlive' /\ UsedIsLearned'
    BY <2>1
  <2> QED BY <2>3, <2>4, <2>5
<1>3. CASE TableFull(src)
  BY <1>3 DEF TableFull
<1> QED BY <1>1, <1>2, <1>3

LEMMA DataFrameStep ==
    ASSUME IInv, NEW in \in HostPort, NEW src \in Mac, NEW dst \in Mac,
           DataFrame(in, src, dst)
    PROVE  IInv'
<1>1. /\ switchTable' \in [Slot -> Entry]
      /\ OneEntryPerMac' /\ UsedMeansAlive' /\ UsedIsLearned'
  BY LearnTable DEF DataFrame
<1>2. reply' \in HostPort \cup {-1, 0}
  <2>1. ASSUME NEW i \in Slot, IsFirst(i, EntriesOf(dst)'),
               reply' = IF switchTable'[i].port = in THEN -1 ELSE switchTable'[i].port
        PROVE  reply' \in HostPort \cup {-1, 0}
    <3>1. switchTable'[i].port \in HostPort
      BY <1>1, <2>1 DEF IsFirst, EntriesOf, UsedIsLearned
    <3> QED BY <2>1, <3>1
  <2> QED BY <2>1 DEF DataFrame, Reply
<1> QED BY <1>1, <1>2 DEF IInv, TypeOK, DataFrame

LEMMA ControlFrameStep ==
    ASSUME IInv, ControlFrame
    PROVE  IInv'
<1> USE SizeAssumption DEF IInv, TypeOK, Entry, OneEntryPerMac, UsedMeansAlive, UsedIsLearned
<1>1. \A i \in Slot :
        /\ switchTable'[i] = Aged(switchTable[i])
        /\ switchTable[i] \in Entry
  BY DEF ControlFrame
<1>2. ASSUME NEW e \in Entry, e.used = 1 <=> e.lifeTime > 0
      PROVE  /\ Aged(e) \in Entry
             /\ Aged(e).used = 1 <=> Aged(e).lifeTime > 0
             /\ Aged(e).used = 1 => e.used = 1
             /\ Aged(e).port = e.port /\ Aged(e).macAdd = e.macAdd
  BY <1>2, AgedEntry
<1>3. switchTable' \in [Slot -> Entry]
  BY <1>1, <1>2 DEF ControlFrame
<1>4. OneEntryPerMac' /\ UsedIsLearned'
  <2> HIDE DEF Entry
  <2> QED BY <1>1, <1>2
<1>5. UsedMeansAlive'
  <2> HIDE DEF Entry
  <2> QED BY <1>1, <1>2
<1>6. inPort' = Controller /\ reply' = -1
  BY DEF ControlFrame
<1> QED BY <1>3, <1>4, <1>5, <1>6

\* Every reachable table is well typed, has one entry per address, and keeps
\* used, lifeTime and port in step, for every number of hosts, ports, slots and
\* every life: InitSwitch establishes it and each call of ProcessFrame keeps it.
THEOREM Invariance == Spec => []IInv
<1>1. Init => IInv
  BY SizeAssumption DEF Init, IInv, TypeOK, Entry, OneEntryPerMac, UsedMeansAlive,
     UsedIsLearned, Controller
<1>2. IInv /\ [Next]_vars => IInv'
  <2>1. SUFFICES ASSUME IInv, [Next]_vars PROVE IInv' OBVIOUS
  <2>2. CASE WrongType
    <3>1. TypeOK'
      BY <2>1, <2>2, SizeAssumption DEF WrongType, IInv, TypeOK, Controller, HostPort
    <3> QED
      BY <2>1, <2>2, <3>1
      DEF WrongType, IInv, OneEntryPerMac, UsedMeansAlive, UsedIsLearned
  <2>3. CASE UNCHANGED vars
    BY <2>1, <2>3 DEF vars, IInv, TypeOK, OneEntryPerMac, UsedMeansAlive,
       UsedIsLearned
  <2> QED BY <2>1, <2>2, <2>3, DataFrameStep, ControlFrameStep DEF Next
<1> QED BY <1>1, <1>2, PTL DEF Spec

\* Every slot of the table, and the answer of the switch, keeps its type.
THEOREM TypeCorrect == Spec => []TypeOK
<1>1. IInv => TypeOK
  BY DEF IInv
<1> QED BY <1>1, Invariance, PTL

\* No address ever has two entries in use, whatever slots aging has freed.
THEOREM OneEntryCorrect == Spec => []OneEntryPerMac
<1>1. IInv => OneEntryPerMac
  BY DEF IInv
<1> QED BY <1>1, Invariance, PTL

\* A slot is in use exactly while its entry has life left.
THEOREM AliveCorrect == Spec => []UsedMeansAlive
<1>1. IInv => UsedMeansAlive
  BY DEF IInv
<1> QED BY <1>1, Invariance, PTL
-----------------------------------------------------------------------------
(* The switch implements the forwarding of Forwarding.                     *)

\* At, Age and the invariant as functions of a table, so that the facts below
\* apply to the table before and after a step.
Entries(t, m) == {i \in Slot : t[i].used = 1 /\ t[i].macAdd = m}
AtIn(t) == [m \in Mac |-> IF Entries(t, m) = {} THEN Controller
                           ELSE t[CHOOSE i \in Slot : i \in Entries(t, m)].port]
AgeIn(t) == [m \in Mac |-> IF Entries(t, m) = {} THEN MaxLife
                ELSE MaxLife - t[CHOOSE i \in Slot : i \in Entries(t, m)].lifeTime]
Good(t) ==
    /\ t \in [Slot -> Entry]
    /\ \A i, j \in Slot :
            t[i].used = 1 /\ t[j].used = 1 /\ t[i].macAdd = t[j].macAdd => i = j
    /\ \A i \in Slot : t[i].used = 1 <=> t[i].lifeTime > 0
    /\ \A i \in Slot : t[i].used = 1 => t[i].port \in HostPort /\ t[i].macAdd \in Mac

LEMMA Views ==
    /\ At = AtIn(switchTable) /\ Age = AgeIn(switchTable)
    /\ At' = AtIn(switchTable') /\ Age' = AgeIn(switchTable')
    /\ \A m : EntriesOf(m) = Entries(switchTable, m)
    /\ \A m : EntriesOf(m)' = Entries(switchTable', m)
    /\ IInv => Good(switchTable)
    /\ IInv' => Good(switchTable')
<1>1. /\ \A m : EntriesOf(m) = Entries(switchTable, m)
      /\ \A m : EntriesOf(m)' = Entries(switchTable', m)
  BY DEF EntriesOf, Entries
<1>2. /\ At = AtIn(switchTable) /\ Age = AgeIn(switchTable)
      /\ At' = AtIn(switchTable') /\ Age' = AgeIn(switchTable')
  BY DEF At, Age, AtIn, AgeIn, EntryOf, EntriesOf, Entries
<1>3. (IInv => Good(switchTable)) /\ (IInv' => Good(switchTable'))
  BY DEF IInv, TypeOK, OneEntryPerMac, UsedMeansAlive, UsedIsLearned, Good
<1> QED BY <1>1, <1>2, <1>3

\* What a table says of an address it does not hold, and of one it holds.
LEMMA ViewOf ==
    ASSUME NEW t, Good(t), NEW m \in Mac
    PROVE  /\ Entries(t, m) = {} => AtIn(t)[m] = Controller /\ AgeIn(t)[m] = MaxLife
           /\ \A i \in Entries(t, m) :
                /\ Entries(t, m) = {i}
                /\ AtIn(t)[m] = t[i].port
                /\ AgeIn(t)[m] = MaxLife - t[i].lifeTime
                /\ AgeIn(t)[m] \in 0 .. MaxLife - 1
                /\ t[i].port \in HostPort
<1>1. CASE Entries(t, m) = {}
  BY <1>1 DEF AtIn, AgeIn
<1>2. ASSUME NEW i \in Entries(t, m)
      PROVE  /\ Entries(t, m) = {i}
             /\ AtIn(t)[m] = t[i].port
             /\ AgeIn(t)[m] = MaxLife - t[i].lifeTime
             /\ AgeIn(t)[m] \in 0 .. MaxLife - 1
             /\ t[i].port \in HostPort
  <2>1. Entries(t, m) = {i} /\ i \in Slot
    BY DEF Good, Entries
  <2>2. (CHOOSE j \in Slot : j \in Entries(t, m)) = i
    BY <2>1
  <2>3. AtIn(t)[m] = t[i].port /\ AgeIn(t)[m] = MaxLife - t[i].lifeTime
    BY <2>1, <2>2 DEF AtIn, AgeIn
  <2>4. t[i].lifeTime \in 1 .. MaxLife /\ t[i].port \in HostPort
    <3>1. t[i] \in Entry /\ t[i].used = 1 /\ t[i].lifeTime > 0 /\ t[i].port \in HostPort
      BY <2>1 DEF Good, Entries
    <3> QED BY <3>1, SizeAssumption DEF Entry
  <2> QED BY <2>1, <2>3, <2>4, SizeAssumption
<1> QED BY <1>1, <1>2

\* Forwarding counts with its own instance of FiniteSets.
LEMMA SameCardinality == \A S : Abstract!Cardinality(S) = Cardinality(S)
BY DEF Cardinality, Abstract!Cardinality

\* A slot is free exactly while fewer hosts than slots are known.
LEMMA FreeMeansRoom ==
    ASSUME IInv
    PROVE  Free # {} <=> Cardinality(Abstract!Known) < TableSize
<1> DEFINE Used == {i \in Slot : switchTable[i].used = 1}
           f == [i \in Used |-> switchTable[i].macAdd]
<1>1. Good(switchTable) /\ Age = AgeIn(switchTable)
  BY Views
<1>2. Abstract!Known = {m \in Mac : Entries(switchTable, m) # {}}
  <2>1. ASSUME NEW m \in Mac
        PROVE  Age[m] < MaxLife <=> Entries(switchTable, m) # {}
    BY <1>1, ViewOf, SizeAssumption
  <2> QED BY <2>1 DEF Abstract!Known
<1>3. IsFiniteSet(Slot) /\ Cardinality(Slot) = TableSize
  BY FS_Interval, SizeAssumption DEF Slot
<1>4. Used \in SUBSET Slot /\ IsFiniteSet(Used) /\ Cardinality(Used) \in Nat
  BY <1>3, FS_Subset, FS_CardinalityType
<1>5. f \in Bijection(Used, Abstract!Known)
  <2>1. f \in [Used -> Abstract!Known]
    BY <1>1, <1>2 DEF Good, Entries
  <2>2. \A i, j \in Used : f[i] = f[j] => i = j
    BY <1>1 DEF Good
  <2>3. \A m \in Abstract!Known : \E i \in Used : f[i] = m
    BY <1>2 DEF Entries
  <2> QED BY <2>1, <2>2, <2>3 DEF Bijection, Injection, Surjection, IsInjective
<1>6. Cardinality(Abstract!Known) = Cardinality(Used)
  BY <1>4, <1>5, FS_Bijection DEF ExistsBijection
<1>7. Free = Slot \ Used
  BY <1>1 DEF Free, Good, Entry
<1>8. CASE Free = {}
  <2>1. Used = Slot BY <1>7, <1>8, <1>4
  <2> QED BY <1>8, <2>1, <1>3, <1>6, SizeAssumption
<1>9. CASE Free # {}
  <2>1. Used # Slot BY <1>7, <1>9
  <2>2. Cardinality(Used) <= Cardinality(Slot) /\ Cardinality(Used) # Cardinality(Slot)
    BY <1>3, <1>4, <2>1, FS_Subset
  <2> QED BY <1>9, <2>2, <1>3, <1>4, <1>6, SizeAssumption
<1> QED BY <1>8, <1>9

\* Learning from a frame: only the view of its source changes.
LEMMA LearnRefines ==
    ASSUME IInv, IInv', NEW in \in HostPort, NEW src \in Mac,
           Refresh(in, src) \/ Insert(in, src) \/ TableFull(src)
    PROVE  IF src \in Abstract!Known \/ Cardinality(Abstract!Known) < TableSize
           THEN At' = [At EXCEPT ![src] = in] /\ Age' = [Age EXCEPT ![src] = 0]
           ELSE UNCHANGED <<At, Age>>
<1> DEFINE t == switchTable
<1>1. /\ Good(t) /\ Good(t')
      /\ At = AtIn(t) /\ At' = AtIn(t') /\ Age = AgeIn(t) /\ Age' = AgeIn(t')
      /\ \A m : EntriesOf(m) = Entries(t, m)
  BY Views
<1>2. src \in Abstract!Known <=> Entries(t, src) # {}
  BY <1>1, ViewOf, SizeAssumption DEF Abstract!Known
<1>3. CASE TableFull(src)
  <2>1. src \notin Abstract!Known /\ ~(Cardinality(Abstract!Known) < TableSize)
    BY <1>1, <1>2, <1>3, FreeMeansRoom DEF TableFull
  <2>2. UNCHANGED <<At, Age>>
    BY <1>1, <1>3 DEF TableFull
  <2> QED BY <2>1, <2>2
<1>4. ASSUME NEW k \in Slot,
             t'[k].used = 1, t'[k].macAdd = src, t'[k].port = in,
             t'[k].lifeTime = MaxLife,
             t[k].used = 1 => t[k].macAdd = src,
             \A j \in Slot : j # k => t'[j] = t[j],
             src \in Abstract!Known \/ Cardinality(Abstract!Known) < TableSize
      PROVE  At' = [At EXCEPT ![src] = in] /\ Age' = [Age EXCEPT ![src] = 0]
  <2>1. AtIn(t')[src] = in /\ AgeIn(t')[src] = 0
    <3>1. k \in Entries(t', src)
      BY <1>4 DEF Entries
    <3>2. AtIn(t')[src] = t'[k].port /\ AgeIn(t')[src] = MaxLife - t'[k].lifeTime
      BY <1>1, <3>1, ViewOf
    <3> QED BY <1>4, <3>2, SizeAssumption
  <2>2. ASSUME NEW m \in Mac, m # src
        PROVE  AtIn(t')[m] = AtIn(t)[m] /\ AgeIn(t')[m] = AgeIn(t)[m]
    <3>1. Entries(t', m) = Entries(t, m)
      BY <1>4, <2>2 DEF Entries
    <3>2. \A j \in Entries(t, m) : t'[j] = t[j]
      BY <1>4, <2>2 DEF Entries
    <3>3. CASE Entries(t, m) = {}
      BY <1>1, <3>1, <3>3, ViewOf
    <3>4. ASSUME NEW j \in Entries(t, m)
          PROVE  AtIn(t')[m] = AtIn(t)[m] /\ AgeIn(t')[m] = AgeIn(t)[m]
      <4>1. AtIn(t)[m] = t[j].port /\ AgeIn(t)[m] = MaxLife - t[j].lifeTime
        BY <1>1, ViewOf
      <4>2. AtIn(t')[m] = t'[j].port /\ AgeIn(t')[m] = MaxLife - t'[j].lifeTime
        BY <1>1, <3>1, ViewOf
      <4> QED BY <3>2, <4>1, <4>2
    <3> QED BY <3>3, <3>4
  <2>3. /\ AtIn(t') = [m \in Mac |-> AtIn(t')[m]] /\ AgeIn(t') = [m \in Mac |-> AgeIn(t')[m]]
        /\ AtIn(t) = [m \in Mac |-> AtIn(t)[m]] /\ AgeIn(t) = [m \in Mac |-> AgeIn(t)[m]]
    BY DEF AtIn, AgeIn
  <2> HIDE DEF t
  <2> QED BY <1>1, <2>1, <2>2, <2>3
<1>5. CASE Refresh(in, src)
  <2>1. PICK k \in Entries(t, src) : Entries(t, src) = {k}
    BY <1>1, <1>5, ViewOf DEF Refresh
  <2>2. /\ k \in Slot /\ t[k].used = 1 /\ t[k].macAdd = src /\ t[k] \in Entry
    BY <1>1, <2>1 DEF Entries, Good
  <2>3. t'[k] = Refreshed(t[k], in) /\ \A j \in Slot : j # k => t'[j] = t[j]
    BY <1>1, <1>5, <2>1, <2>2 DEF Refresh, Refreshed
  <2>4. /\ t'[k].used = 1 /\ t'[k].macAdd = src
        /\ t'[k].port = in /\ t'[k].lifeTime = MaxLife
    BY <2>2, <2>3, RefreshedEntry
  <2>5. src \in Abstract!Known
    BY <1>2, <2>1
  <2> QED BY <1>4, <2>2, <2>3, <2>4, <2>5
<1>6. CASE Insert(in, src)
  <2>1. PICK k \in Slot :
          /\ IsFirst(k, Free)
          /\ t' = [t EXCEPT ![k] =
                [used |-> 1, port |-> in, macAdd |-> src, lifeTime |-> MaxLife]]
    BY <1>6 DEF Insert
  <2>2. t[k].used = 0 /\ Free # {}
    BY <2>1 DEF IsFirst, Free
  <2>3. /\ t'[k] = [used |-> 1, port |-> in, macAdd |-> src, lifeTime |-> MaxLife]
        /\ \A j \in Slot : j # k => t'[j] = t[j]
    BY <1>1, <2>1 DEF Good
  <2>4. src \in Abstract!Known \/ Cardinality(Abstract!Known) < TableSize
    BY <2>2, FreeMeansRoom
  <2> QED BY <1>4, <2>2, <2>3, <2>4
<1>7. (Refresh(in, src) \/ Insert(in, src)) =>
        src \in Abstract!Known \/ Cardinality(Abstract!Known) < TableSize
  <2>1. Refresh(in, src) => src \in Abstract!Known
    BY <1>1, <1>2 DEF Refresh
  <2>2. Insert(in, src) => Free # {}
    BY DEF Insert, IsFirst
  <2> QED BY <2>1, <2>2, FreeMeansRoom
<1> QED BY <1>3, <1>5, <1>6, <1>7

\* The answer to a frame is the abstract one.
LEMMA ReplyRefines ==
    ASSUME IInv', NEW in \in HostPort, NEW dst \in Mac, Reply(in, dst)
    PROVE  reply' = IF Age'[dst] = MaxLife THEN 0
                      ELSE IF At'[dst] = in THEN -1 ELSE At'[dst]
<1> DEFINE t == switchTable
<1>1. /\ Good(t') /\ At' = AtIn(t') /\ Age' = AgeIn(t')
      /\ EntriesOf(dst)' = Entries(t', dst)
  BY Views
<1>2. CASE Entries(t', dst) = {}
  <2>1. reply' = 0
    BY <1>1, <1>2 DEF Reply, IsFirst
  <2> QED BY <1>1, <1>2, <2>1, ViewOf
<1>3. ASSUME NEW k \in Entries(t', dst),
             reply' = IF t'[k].port = in THEN -1 ELSE t'[k].port
      PROVE  reply' = IF Age'[dst] = MaxLife THEN 0
                        ELSE IF At'[dst] = in THEN -1 ELSE At'[dst]
  <2>1. At'[dst] = t'[k].port /\ Age'[dst] \in 0 .. MaxLife - 1
    BY <1>1, ViewOf
  <2>2. Age'[dst] # MaxLife
    BY <2>1, SizeAssumption
  <2> QED BY <1>3, <2>1, <2>2
<1> QED BY <1>1, <1>2, <1>3 DEF Reply, IsFirst

\* Aging moves every known host one tick on.
LEMMA ControlRefines ==
    ASSUME IInv, IInv', ControlFrame
    PROVE  Abstract!Tick
<1> DEFINE t == switchTable
<1>1. /\ Good(t) /\ Good(t')
      /\ At = AtIn(t) /\ At' = AtIn(t') /\ Age = AgeIn(t) /\ Age' = AgeIn(t')
  BY Views
<1>2. ASSUME NEW j \in Slot
      PROVE  /\ t'[j].used = 1 <=> t[j].used = 1 /\ t[j].lifeTime > 1
             /\ t'[j].macAdd = t[j].macAdd /\ t'[j].port = t[j].port
             /\ t[j].used = 1 => t'[j].lifeTime = t[j].lifeTime - 1
  <2>1. t'[j] = Aged(t[j]) /\ t[j] \in Entry /\ (t[j].used = 1 <=> t[j].lifeTime > 0)
    BY <1>1 DEF ControlFrame, Good
  <2>2. Aged(t[j]) = [used |-> IF t[j].lifeTime - t[j].used <= 0 THEN 0 ELSE t[j].used,
                      port |-> t[j].port, macAdd |-> t[j].macAdd,
                      lifeTime |-> t[j].lifeTime - t[j].used]
    BY <2>1 DEF Aged, Entry
  <2>3. t[j].used \in {0, 1} /\ t[j].lifeTime \in Nat
    BY <2>1, SizeAssumption DEF Entry
  <2> QED BY <2>1, <2>2, <2>3
<1>3. ASSUME NEW m \in Mac
      PROVE  /\ Age'[m] = IF Age[m] < MaxLife THEN Age[m] + 1 ELSE MaxLife
             /\ At'[m] = IF Age'[m] < MaxLife THEN At[m] ELSE Controller
  <2>1. CASE Entries(t, m) = {}
    <3>1. Entries(t', m) = {}
      BY <1>2, <2>1 DEF Entries
    <3> QED BY <1>1, <2>1, <3>1, ViewOf, SizeAssumption
  <2>2. ASSUME NEW j \in Entries(t, m)
        PROVE  /\ Age'[m] = IF Age[m] < MaxLife THEN Age[m] + 1 ELSE MaxLife
               /\ At'[m] = IF Age'[m] < MaxLife THEN At[m] ELSE Controller
    <3>1. /\ j \in Slot /\ t[j].used = 1 /\ t[j].macAdd = m /\ Entries(t, m) = {j}
          /\ t[j].lifeTime \in Nat /\ t[j].lifeTime > 0
      <4>1. j \in Slot /\ t[j].used = 1 /\ t[j].macAdd = m /\ Entries(t, m) = {j}
        BY <1>1, ViewOf DEF Entries
      <4>2. t[j] \in Entry /\ t[j].lifeTime > 0
        BY <1>1, <4>1 DEF Good
      <4> QED BY <4>1, <4>2, SizeAssumption DEF Entry
    <3>2. /\ At[m] = t[j].port /\ Age[m] = MaxLife - t[j].lifeTime
          /\ Age[m] \in 0 .. MaxLife - 1
      BY <1>1, ViewOf
    <3>3. CASE t[j].lifeTime > 1
      <4>1. j \in Entries(t', m)
        BY <1>2, <3>1, <3>3 DEF Entries
      <4>2. At'[m] = t'[j].port /\ Age'[m] = MaxLife - t'[j].lifeTime
        BY <1>1, <4>1, ViewOf
      <4> QED BY <1>2, <3>1, <3>2, <3>3, <4>2, SizeAssumption
    <3>4. CASE t[j].lifeTime = 1
      <4>1. Entries(t', m) = {}
        BY <1>2, <3>1, <3>4 DEF Entries
      <4>2. At'[m] = Controller /\ Age'[m] = MaxLife
        BY <1>1, <4>1, ViewOf
      <4> QED BY <3>2, <3>4, <4>2, SizeAssumption
    <3> QED BY <3>1, <3>3, <3>4
  <2> QED BY <2>1, <2>2
<1>4. /\ At' = [m \in Mac |-> At'[m]] /\ Age' = [m \in Mac |-> Age'[m]]
  BY DEF At, Age
<1>5. /\ Age' = [m \in Mac |-> IF m \in Abstract!Known THEN Age[m] + 1 ELSE MaxLife]
      /\ At' = [m \in Mac |-> IF Age'[m] < MaxLife THEN At[m] ELSE Controller]
  <2>1. \A m \in Mac : m \in Abstract!Known <=> Age[m] < MaxLife
    BY DEF Abstract!Known
  <2> QED BY <1>3, <1>4, <2>1
<1> QED BY <1>5 DEF ControlFrame, Abstract!Tick, Abstract!Controller, Controller

\* The slots, their reuse and the linear searches are invisible: what the
\* simulator sees is a switch that knows each host at the port of its latest
\* frame until MaxLife agings have passed, as long as there is room.
THEOREM SwitchRefinement == Spec => ImplementsForwarding
<1>1. Init => Abstract!Init
  <2>1. SUFFICES ASSUME Init PROVE Abstract!Init OBVIOUS
  <2>2. \A m \in Mac : EntriesOf(m) = {}
    BY <2>1 DEF Init, EntriesOf
  <2> QED BY <2>1, <2>2 DEF Init, At, Age, Abstract!Init, Abstract!Controller, Controller
<1>2. IInv /\ IInv' /\ [Next]_vars => [Abstract!Next]_(Abstract!vars)
  <2>1. SUFFICES ASSUME IInv, IInv', [Next]_vars
                 PROVE  [Abstract!Next]_(Abstract!vars)
    OBVIOUS
  <2>2. ASSUME NEW in \in HostPort, NEW src \in Mac, NEW dst \in Mac,
               DataFrame(in, src, dst)
        PROVE  Abstract!Next
    <3>1. Abstract!Forward(in, src, dst)
      <4>1. IF src \in Abstract!Known \/ Cardinality(Abstract!Known) < TableSize
            THEN At' = [At EXCEPT ![src] = in] /\ Age' = [Age EXCEPT ![src] = 0]
            ELSE UNCHANGED <<At, Age>>
        BY <2>1, <2>2, LearnRefines DEF DataFrame
      <4>2. reply' = IF Age'[dst] = MaxLife THEN 0
                       ELSE IF At'[dst] = in THEN -1 ELSE At'[dst]
        BY <2>1, <2>2, ReplyRefines DEF DataFrame
      <4>3. inPort' = in
        BY <2>2 DEF DataFrame
      <4>4. IF src \in Abstract!Known \/ Cardinality(Abstract!Known) < TableSize
            THEN At' = [At EXCEPT ![src] = in] /\ Age' = [Age EXCEPT ![src] = 0]
            ELSE At' = At /\ Age' = Age
        BY <4>1
      <4> QED BY <4>2, <4>3, <4>4, SameCardinality DEF Abstract!Forward
    <3> QED BY <3>1 DEF Abstract!Next, Abstract!HostPort, HostPort
  <2>3. CASE ControlFrame
    BY <2>1, <2>3, ControlRefines DEF Abstract!Next
  <2>4. CASE WrongType
    <3>1. UNCHANGED <<At, Age>>
      BY <2>4 DEF WrongType, At, Age, EntriesOf, EntryOf
    <3>2. inPort' \in 1 .. PortNum
      BY <2>4, SizeAssumption DEF WrongType, HostPort, Controller
    <3> QED BY <2>4, <3>1, <3>2 DEF WrongType, Abstract!Next, Abstract!Ignore
  <2>5. CASE UNCHANGED vars
    BY <2>5 DEF vars, Abstract!vars, At, Age, EntriesOf, EntryOf
  <2> QED BY <2>1, <2>2, <2>3, <2>4, <2>5 DEF Next
<1> QED BY <1>1, <1>2, Invariance, PTL DEF Spec, ImplementsForwarding, Abstract!Spec

=============================================================================
