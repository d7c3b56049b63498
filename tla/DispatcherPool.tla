--------------------------- MODULE DispatcherPool ---------------------------
(***************************************************************************)
(* What the dispatcher promises (spec sections 4.3, 5 and 7), with no      *)
(* threads, queues or as_completed rounds: a configuration check, then a   *)
(* pool of at most C in-flight tasks; whenever some in-flight task is      *)
(* observed complete, the lowest unassigned id takes its place; the run is *)
(* done once nothing is in flight.  N and C are variables that never       *)
(* change, so that a detailed specification that chooses them at start-up *)
(* can be mapped onto this one.                                            *)
(***************************************************************************)
EXTENDS Integers, FiniteSets

VARIABLES
    N,          \* the task count
    C,          \* the core count
    phase,      \* "config" | "draining" | "done" | "error"
    next,       \* lowest task id not yet assigned
    flight,     \* the in-flight set
    observed    \* tasks whose execution result has been observed

vars == <<N, C, phase, next, flight, observed>>

Least(a, b) == IF a < b THEN a ELSE b

Init ==
    /\ N \in Int /\ C \in Int
    /\ phase = "config"
    /\ next = 0 /\ flight = {} /\ observed = {}

\* ConfigError: C <= 0 or N < 0 aborts the run before seeding.
ConfigError ==
    /\ phase = "config"
    /\ C <= 0 \/ N < 0
    /\ phase' = "error"
    /\ UNCHANGED <<N, C, next, flight, observed>>

\* Seeding: tasks 0 .. min(N, C)-1 are submitted at once.
Seed ==
    /\ phase = "config"
    /\ C >= 1 /\ N >= 0
    /\ flight' = 0 .. Least(N, C) - 1
    /\ next' = Least(N, C)
    /\ phase' = "draining"
    /\ UNCHANGED <<N, C, observed>>

\* Draining: an in-flight task completes, is observed, and the lowest
\* unassigned id (if any) is submitted in its place.
Complete(t) ==
    /\ phase = "draining"
    /\ t \in flight
    /\ observed' = observed \cup {t}
    /\ IF next < N
       THEN flight' = (flight \ {t}) \cup {next} /\ next' = next + 1
       ELSE flight' = flight \ {t} /\ UNCHANGED next
    /\ UNCHANGED <<N, C, phase>>

Finish ==
    /\ phase = "draining"
    /\ flight = {}
    /\ phase' = "done"
    /\ UNCHANGED <<N, C, next, flight, observed>>

Next ==
    \/ ConfigError \/ Seed \/ Finish
    \/ \E t \in flight : Complete(t)
    \/ phase \in {"done", "error"} /\ UNCHANGED vars

Spec ==
    /\ Init /\ [][Next]_vars
    /\ [][UNCHANGED <<N, C>>]_vars
    /\ WF_vars(ConfigError \/ Seed)
    /\ WF_vars(\E t \in flight : Complete(t))
    /\ WF_vars(Finish)

=============================================================================
