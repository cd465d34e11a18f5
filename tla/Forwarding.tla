----------------------------- MODULE Forwarding -----------------------------
(***************************************************************************)
(* What a learning switch promises, without a table: it remembers where    *)
(* each host was last heard and how many agings ago, forgets it after      *)
(* MaxLife of them, and remembers at most Capacity hosts at a time.        *)
(***************************************************************************)
EXTENDS Integers, FiniteSets

CONSTANTS Mac, PortNum, Capacity, MaxLife

VARIABLES
    at,      \* the port where the host was last heard; meaningless when forgotten
    age,     \* agings since then; MaxLife when the host is forgotten
    inPort,  \* the port of the last frame
    reply    \* what was done with it: -1 drop, 0 broadcast, or the port to send it to

vars == <<at, age, inPort, reply>>

Controller == 1
HostPort == 2 .. PortNum

Known == {m \in Mac : age[m] < MaxLife}

Init ==
    /\ at = [m \in Mac |-> Controller]
    /\ age = [m \in Mac |-> MaxLife]
    /\ inPort = Controller
    /\ reply = -1

\* A frame on a host port: the source is now known to be there, unless it is
\* new and Capacity hosts are known already; the destination decides.
Forward(in, src, dst) ==
    /\ IF src \in Known \/ Cardinality(Known) < Capacity
       THEN /\ at' = [at EXCEPT ![src] = in]
            /\ age' = [age EXCEPT ![src] = 0]
       ELSE UNCHANGED <<at, age>>
    /\ inPort' = in
    /\ reply' = IF age'[dst] = MaxLife THEN 0
                ELSE IF at'[dst] = in THEN -1 ELSE at'[dst]

\* One tick of the controller: hosts not heard for MaxLife ticks are forgotten.
Tick ==
    /\ age' = [m \in Mac |-> IF m \in Known THEN age[m] + 1 ELSE MaxLife]
    /\ at' = [m \in Mac |-> IF age'[m] < MaxLife THEN at[m] ELSE Controller]
    /\ inPort' = Controller
    /\ reply' = -1

Ignore ==
    /\ inPort' \in 1 .. PortNum
    /\ reply' = -1
    /\ UNCHANGED <<at, age>>

Next ==
    \/ \E in \in HostPort, src, dst \in Mac : Forward(in, src, dst)
    \/ Tick \/ Ignore

Spec == Init /\ [][Next]_vars
=============================================================================
