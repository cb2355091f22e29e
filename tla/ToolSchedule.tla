--------------------------- MODULE ToolSchedule ---------------------------
(***************************************************************************)
(* What the streaming tool executor promises its caller, without saying    *)
(* how: the calls of one assistant message are decided in stream order,    *)
(* reads may overlap each other up to a cap, an exclusive call overlaps    *)
(* nothing and is a barrier, and results are handed out in call order.     *)
(* Stated from the class and dependency comments of                        *)
(* agent/streamingToolExecutor.ts; StreamingExecutor implements it, with   *)
(* its constants.                                                          *)
(***************************************************************************)
EXTENDS Naturals, FiniteSets

CONSTANTS
    MaxCalls,         \* calls one assistant message can carry
    ReadConcurrency   \* reads that may execute at the same time

VARIABLES
    phase,      \* phase[i]: how far call i has come
    exclusive,  \* the calls found to be exclusive when they started
    emitted     \* how many results have been handed out

svars == <<phase, exclusive, emitted>>

Calls == 1 .. MaxCalls

Phases == {"absent", "pending", "running", "settled"}

In(p) == {i \in Calls : phase[i] = p}

SInit ==
    /\ phase = [i \in Calls |-> "absent"]
    /\ exclusive = {}
    /\ emitted = 0

\* Calls arrive one by one, or all at once; a call comes with all before it.
Arrive(n) ==
    /\ \E i \in 1 .. n : phase[i] = "absent"
    /\ phase' = [i \in Calls |-> IF i <= n /\ phase[i] = "absent"
                                 THEN "pending" ELSE phase[i]]
    /\ UNCHANGED <<exclusive, emitted>>

\* A read starts once everything before it was decided, nothing exclusive is
\* under way, and there is room for one more.
StartRead(i) ==
    /\ phase[i] = "pending"
    /\ \A j \in 1 .. (i - 1) : phase[j] \in {"running", "settled"}
    /\ In("running") \cap exclusive = {}
    /\ Cardinality(In("running")) < ReadConcurrency
    /\ phase' = [phase EXCEPT ![i] = "running"]
    /\ UNCHANGED <<exclusive, emitted>>

\* An exclusive call starts only when every earlier call is over.
StartExclusive(i) ==
    /\ phase[i] = "pending"
    /\ \A j \in 1 .. (i - 1) : phase[j] = "settled"
    /\ phase' = [phase EXCEPT ![i] = "running"]
    /\ exclusive' = exclusive \cup {i}
    /\ UNCHANGED emitted

\* A call that is blocked settles in its turn without ever running.
Block(i) ==
    /\ phase[i] = "pending"
    /\ \A j \in 1 .. (i - 1) : phase[j] \in {"running", "settled"}
    /\ phase' = [phase EXCEPT ![i] = "settled"]
    /\ UNCHANGED <<exclusive, emitted>>

Finish(i) ==
    /\ phase[i] = "running"
    /\ phase' = [phase EXCEPT ![i] = "settled"]
    /\ UNCHANGED <<exclusive, emitted>>

\* Results are handed out in call order.
Emit ==
    /\ emitted + 1 \in In("settled")
    /\ emitted' = emitted + 1
    /\ UNCHANGED <<phase, exclusive>>

SNext ==
    \/ \E n \in Calls : Arrive(n)
    \/ \E i \in Calls : StartRead(i) \/ StartExclusive(i) \/ Block(i) \/ Finish(i)
    \/ Emit

SSpec == SInit /\ [][SNext]_svars
=============================================================================
