--------------------------- MODULE MCTaskCommand ---------------------------
(***************************************************************************)
(* The command lines run_task_on_core builds for a few task ids and cores, *)
(* held in a variable so that TLC checks a property of each.               *)
(***************************************************************************)
EXTENDS TaskCommand

CONSTANTS TaskIdValues, CoreValues

VARIABLE launch    \* the task, its core and the words given to the shell

Init ==
    \E t \in TaskIdValues, k \in CoreValues :
        launch = [task |-> t, core |-> k, words |-> Command(t, k)]

Next == UNCHANGED launch

Spec == Init /\ [][Next]_launch

(* Spec section 4.2: the Task Runner invokes the workload command template *)
(* with the task ID substituted in, so the workload started on the core    *)
(* receives its task id, in decimal, as an argument.                       *)
WorkloadGetsTaskId ==
    \E i \in DOMAIN WorkloadArgv(launch.words) :
        WorkloadArgv(launch.words)[i] = ToString(launch.task)

=============================================================================
