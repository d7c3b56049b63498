----------------------------- MODULE Dispatcher -----------------------------
(***************************************************************************)
(* The core-pinned task dispatcher of                                      *)
(* scripts/permutation-correlations/preprocess_permcorrs.py.               *)
(*                                                                         *)
(* Three kinds of actors share state:                                      *)
(*  - the main thread (the __main__ block and run_tasks): parses argv,     *)
(*    seeds a ThreadPoolExecutor with one task per core, then loops        *)
(*    "while future_to_core: for future in as_completed(...)", popping     *)
(*    each completed future and submitting the next task id;              *)
(*  - the executor's worker threads, which take work items from the        *)
(*    executor's FIFO queue and run run_task_on_core;                      *)
(*  - the workloads themselves, which finish in any order, with a result  *)
(*    or with an exception (no "<n>ms" token in their output).             *)
(*                                                                         *)
(* A future is identified by the task id it was submitted for; the value   *)
(* future_to_core maps it to is that id, so the dict is the set of ids.    *)
(* as_completed(fs) is modelled as CPython implements it: it takes a       *)
(* snapshot of fs atomically (under the futures' locks), yields the         *)
(* futures already finished, then the others in the order they finish;    *)
(* futures submitted while it runs are not part of the snapshot.           *)
(***************************************************************************)
EXTENDS Integers, Sequences, FiniteSets, FiniteSetsExt

CONSTANTS
    TaskCounts,   \* values argv[2] (num_tasks) may hold
    CoreCounts,   \* values argv[3] (num_cores) may hold
    Arg4Values,   \* values argv[4] may hold, NoArg when it is absent
    IntLiterals,  \* the members of Arg4Values that int() accepts
    NoArg         \* model value: argv has no 5th element

ASSUME /\ TaskCounts \subseteq Int /\ TaskCounts # {}
       /\ CoreCounts \subseteq Int /\ CoreCounts # {}
       /\ NoArg \notin IntLiterals /\ "-v" \notin IntLiterals

\* Every id the model may ever name: the tasks of the largest run, plus one
\* more so that a submission past the last task stays representable.
Ids == 0 .. Max(TaskCounts \cup {0})

VARIABLES
    numTasks, numCores, argv4,   \* the command line, fixed for a run
    verbose,                     \* run_tasks' verbose flag
    pc,                          \* main thread: "start" | "wait" | "exit" | "crashed"
    futureToCore,                \* keys of future_to_core, as task ids
    nextTaskId,                  \* next_task_id
    future,                      \* state of each task's future
    workQueue,                   \* the executor's work queue (FIFO)
    running,                     \* tasks whose worker is running the workload
    finished,                    \* as_completed: finished at snapshot, not yet yielded
    pending,                     \* as_completed: unfinished at snapshot, not yet reported
    waiter,                      \* as_completed: waiter.finished_futures
    printed                      \* lines printed per task by the main thread

vars == <<numTasks, numCores, argv4, verbose, pc, futureToCore, nextTaskId,
          future, workQueue, running, finished, pending, waiter, printed>>

Done == {"ok", "exc"}            \* a finished future: a result or an exception

\* The ids whose future exists and has been popped from future_to_core.
Popped == {t \in Ids : future[t] # "none"} \ futureToCore

\* The for loop over as_completed has nothing left to yield.
RoundOver == finished = {} /\ pending = {} /\ waiter = <<>>

-----------------------------------------------------------------------------
(* executor.submit(run_task_on_core, t, t % num_cores, executable)         *)
Submit(t) ==
    /\ future' = [future EXCEPT ![t] = "pending"]
    /\ workQueue' = Append(workQueue, t)

Init ==
    /\ numTasks \in TaskCounts
    /\ numCores \in CoreCounts
    /\ argv4 \in Arg4Values
    /\ verbose = FALSE
    /\ pc = "start"
    /\ futureToCore = {}
    /\ nextTaskId = 0
    /\ future = [t \in Ids |-> "none"]
    /\ workQueue = <<>>
    /\ running = {}
    /\ finished = {}
    /\ pending = {}
    /\ waiter = <<>>
    /\ printed = [t \in Ids |-> 0]

(* Start-up fails: int(sys.argv[4]) raises ValueError for a 5th argument  *)
(* that is not an integer, or ThreadPoolExecutor(max_workers=num_cores)    *)
(* raises ValueError when num_cores <= 0.                                  *)
Crash ==
    /\ pc = "start"
    /\ argv4 \notin IntLiterals \cup {NoArg} \/ numCores <= 0
    /\ pc' = "crashed"
    /\ UNCHANGED <<numTasks, numCores, argv4, verbose, futureToCore, nextTaskId,
                   future, workQueue, running, finished, pending, waiter, printed>>

Seeded == 0 .. Min({numTasks, numCores}) - 1

\* mutant: the first replenished id skips one.
FirstNextTaskIdOffByOne == numCores + 1

\* next_task_id's start value: num_cores, even when num_tasks is smaller.
FirstNextTaskId == numCores

(* The dict comprehension submits the first batch in id order.  verbose    *)
(* is argv[4] == '-v', reached only once int(argv[4]) has succeeded.       *)
Seed ==
    /\ pc = "start"
    /\ argv4 \in IntLiterals \cup {NoArg}
    /\ numCores > 0
    /\ verbose' = (argv4 = "-v")
    /\ futureToCore' = Seeded
    /\ future' = [t \in Ids |-> IF t \in Seeded THEN "pending" ELSE "none"]
    /\ workQueue' = [i \in 1 .. Cardinality(Seeded) |-> i - 1]
    /\ nextTaskId' = FirstNextTaskId
    /\ pc' = "wait"
    /\ UNCHANGED <<numTasks, numCores, argv4, running, finished, pending, waiter, printed>>

(* "while future_to_core:" holds, so a new as_completed starts: snapshot   *)
(* the dict, split it into the finished futures and the pending ones, and  *)
(* install a fresh waiter on the pending ones.                             *)
NextRound ==
    /\ pc = "wait"
    /\ RoundOver
    /\ futureToCore # {}
    /\ finished' = {t \in futureToCore : future[t] \in Done}
    /\ pending' = {t \in futureToCore : future[t] = "pending"}
    /\ waiter' = <<>>
    /\ UNCHANGED <<numTasks, numCores, argv4, verbose, pc, futureToCore,
                   nextTaskId, future, workQueue, running, printed>>

\* mutant: "next_task_id < num_tasks - 1".
MoreTasksOffByOne == nextTaskId < numTasks - 1

\* mutant: "next_task_id <= num_tasks".
MoreTasksInclusive == nextTaskId <= numTasks

\* "if next_task_id < num_tasks:"
MoreTasks == nextTaskId < numTasks

(* Replenish the dict d (future_to_core after the pop): submit the next    *)
(* task, add its future and advance next_task_id.                          *)
Replenish(d) ==
    IF MoreTasks
    THEN /\ Submit(nextTaskId)
         /\ futureToCore' = d \cup {nextTaskId}
         /\ nextTaskId' = nextTaskId + 1
    ELSE /\ futureToCore' = d
         /\ UNCHANGED <<future, workQueue, nextTaskId>>

\* mutant: future_to_core.get(future), which leaves the entry in place.
PopGet(t) == futureToCore

\* future_to_core.pop(future): the dict without t.
Pop(t) == futureToCore \ {t}

\* mutant: a snapshot future is yielded before it has finished.
YieldUnfinished(t) ==
    \/ t \in finished /\ finished' = finished \ {t} /\ UNCHANGED waiter
    \/ t \in pending /\ UNCHANGED <<finished, waiter>>

(* as_completed yields the finished futures of the snapshot first, in any  *)
(* order, then those reported to the waiter, in the order they finished.   *)
Yield(t) ==
    \/ t \in finished /\ finished' = finished \ {t} /\ UNCHANGED waiter
    \/ /\ finished = {} /\ waiter # <<>> /\ t = Head(waiter)
       /\ waiter' = Tail(waiter) /\ UNCHANGED finished

(* One iteration of the for loop on the yielded future t: pop it, print    *)
(* its result or exception when verbose, replenish.  Only the main thread  *)
(* touches the dict and next_task_id, so the body is one step.             *)
Iterate(t) ==
    /\ pc = "wait"
    /\ Yield(t)
    /\ printed' = IF verbose THEN [printed EXCEPT ![t] = @ + 1] ELSE printed
    /\ Replenish(Pop(t))
    /\ UNCHANGED <<numTasks, numCores, argv4, verbose, pc, running, pending>>

(* The dict is empty: leaving the with block calls shutdown(wait=True),    *)
(* which returns once every worker is idle; then the total time prints.    *)
Exit ==
    /\ pc = "wait"
    /\ RoundOver
    /\ futureToCore = {}
    /\ workQueue = <<>> /\ running = {}
    /\ pc' = "exit"
    /\ UNCHANGED <<numTasks, numCores, argv4, verbose, futureToCore, nextTaskId,
                   future, workQueue, running, finished, pending, waiter, printed>>

-----------------------------------------------------------------------------
(* An idle worker (at most num_cores run at once) takes the head of the    *)
(* work queue and starts "taskset -c <core> ..." for it.                   *)
RunTask ==
    /\ workQueue # <<>>
    /\ Cardinality(running) < numCores
    /\ running' = running \cup {Head(workQueue)}
    /\ workQueue' = Tail(workQueue)
    /\ UNCHANGED <<numTasks, numCores, argv4, verbose, pc, futureToCore,
                   nextTaskId, future, finished, pending, waiter, printed>>

(* The workload of t exits.  run_task_on_core returns its line ("ok"), or  *)
(* raises when re.search finds no "<n>ms" token ("exc"); either way the    *)
(* future finishes and notifies the waiter of a running as_completed.      *)
TaskFinishes(t, outcome) ==
    /\ t \in running
    /\ running' = running \ {t}
    /\ future' = [future EXCEPT ![t] = outcome]
    /\ IF t \in pending
       THEN /\ pending' = pending \ {t}
            /\ waiter' = Append(waiter, t)
       ELSE UNCHANGED <<pending, waiter>>
    /\ UNCHANGED <<numTasks, numCores, argv4, verbose, pc, futureToCore,
                   nextTaskId, workQueue, finished, printed>>

\* The process has ended; nothing changes any more.
Terminated ==
    /\ pc \in {"exit", "crashed"}
    /\ UNCHANGED vars

MainStep ==
    \/ Crash \/ Seed \/ NextRound \/ Exit
    \/ \E t \in Ids : Iterate(t)

Next ==
    \/ MainStep
    \/ RunTask
    \/ \E t \in Ids, o \in Done : TaskFinishes(t, o)
    \/ Terminated

(* The main thread and the worker threads are scheduled by the OS, and    *)
(* every workload is assumed to exit (no timeout is set on it).           *)
Spec ==
    /\ Init /\ [][Next]_vars
    /\ WF_vars(MainStep)
    /\ WF_vars(RunTask)
    /\ \A t \in Ids : WF_vars(\E o \in Done : TaskFinishes(t, o))

-----------------------------------------------------------------------------
TypeOK ==
    /\ numTasks \in TaskCounts /\ numCores \in CoreCounts
    /\ argv4 \in Arg4Values /\ verbose \in BOOLEAN
    /\ pc \in {"start", "wait", "exit", "crashed"}
    /\ futureToCore \subseteq 0 .. numTasks - 1
    /\ nextTaskId \in Int
    /\ future \in [Ids -> {"none", "pending"} \cup Done]
    /\ workQueue \in Seq(0 .. numTasks - 1)
    /\ running \subseteq 0 .. numTasks - 1
    /\ finished \cup pending \subseteq futureToCore
    /\ waiter \in Seq(futureToCore)
    /\ printed \in [Ids -> Nat]

WorkersSuffice ==
    Cardinality(running) + Len(workQueue) <= numCores

(* When the program exits normally, every task 0 .. num_tasks-1 has been   *)
(* submitted and its future popped by the dispatch loop, and no other id.  *)
AllObservedAtExit ==
    pc = "exit" => Popped = 0 .. numTasks - 1

(* The run always ends: every workload exits, so the dispatch loop and     *)
(* the executor's shutdown eventually return.                              *)
Termination == <>(pc \in {"exit", "crashed"})

-----------------------------------------------------------------------------
(* Properties the spec states and the code does not keep.                 *)

\* run_task_on_core pins task t to core t % num_cores (taskset -c).
CoreOf(t) == t % numCores

(* Spec section 5: exactly one Task Runner invocation holds a given core  *)
(* at a time.  The core comes from the task id, while the slot it refills *)
(* is freed by whichever task completed first.                             *)
CoreExclusive ==
    \A t1, t2 \in running : t1 # t2 => CoreOf(t1) # CoreOf(t2)

(* Spec section 7: start-up aborts with a configuration error exactly when *)
(* num_cores <= 0 or num_tasks < 0; any other command line runs the tasks. *)
ConfigErrorIffBadConfig ==
    pc \in {"wait", "exit", "crashed"} =>
        (pc = "crashed" <=> numCores <= 0 \/ numTasks < 0)

=============================================================================
