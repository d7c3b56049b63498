---------------------------- MODULE MCDispatcher ----------------------------
(***************************************************************************)
(* Model-checking harness for Dispatcher: the refinement mapping onto      *)
(* DispatcherPool and the properties that need it.                         *)
(***************************************************************************)
EXTENDS Dispatcher

(* The refinement mapping: the main thread's pc gives the phase, the dict  *)
(* gives the in-flight set, and the popped futures the observed ones.      *)
(* next_task_id starts at num_cores even when num_tasks < num_cores, where *)
(* the abstract counter stops at N.                                        *)
Pool == INSTANCE DispatcherPool WITH
    N <- numTasks,
    C <- numCores,
    phase <- CASE pc = "start"   -> "config"
               [] pc = "wait"    -> "draining"
               [] pc = "exit"    -> "done"
               [] pc = "crashed" -> "error",
    next <- IF pc = "start" THEN 0 ELSE Min({nextTaskId, numTasks}),
    flight <- futureToCore,
    observed <- Popped

(* The dispatcher implements the pool contract of the spec, liveness       *)
(* included: every step of main thread, workers and workloads is a pool    *)
(* step or a stutter, and under the code's scheduling the run finishes.    *)
DispatcherRefinesPool == Pool!Spec

\* argv[2] values with a negative one, which a .cfg file cannot write as a
\* literal.
TaskCountsWithNegative == {-1, 2}

=============================================================================
