---------------------------- MODULE TaskCommand ----------------------------
(***************************************************************************)
(* The command line run_task_on_core hands to the shell, and what the      *)
(* shell makes of it (preprocess_permcorrs.py lines 10-11 and 50).         *)
(*                                                                         *)
(* subprocess.run(command, shell=True) runs /bin/sh -c command.  The shell *)
(* splits the line into words at blanks and into a list of commands at    *)
(* the control operators "&" (run in the background) and ";" (run in the   *)
(* foreground).  None of the words here contains a blank or a quote, so    *)
(* a command line is modelled as its sequence of words.                    *)
(***************************************************************************)
EXTENDS Integers, Sequences, SequencesExt, TLC

CONSTANTS
    Size,       \* sys.argv[1] as written, the input size
    Bitwidth    \* the bitwidth as formatted, "32" by default

\* The words of
\* executable = f'./secJoinfrontend -bench -AltModPerm -n {size} -m {bitwidth} &'
Executable ==
    <<"./secJoinfrontend", "-bench", "-AltModPerm", "-n", Size, "-m", Bitwidth, "&">>

\* The words of command = f"taskset -c {core_id} {executable} {task_id}";
\* the f-string formats both integers in decimal.
Command(taskId, coreId) ==
    <<"taskset", "-c", ToString(coreId)>> \o Executable \o <<ToString(taskId)>>

ControlOps == {"&", ";"}

(* The shell's list: each command's words, and whether it runs in the     *)
(* background (ended by "&").  A trailing command without an operator runs *)
(* in the foreground.                                                      *)
RECURSIVE Jobs(_)
Jobs(w) ==
    IF w = <<>> THEN <<>>
    ELSE LET ops == {i \in DOMAIN w : w[i] \in ControlOps} IN
         IF ops = {}
         THEN <<[argv |-> w, background |-> FALSE]>>
         ELSE LET i == Min(ops) IN
              <<[argv |-> SubSeq(w, 1, i - 1), background |-> w[i] = "&"]>>
                  \o Jobs(SubSeq(w, i + 1, Len(w)))

(* taskset -c core prog args... sets the CPU affinity and execs prog with  *)
(* args: the argument vector the workload receives from the job that       *)
(* starts with taskset.                                                    *)
WorkloadArgv(w) ==
    LET job == CHOOSE j \in ToSet(Jobs(w)) : j.argv[1] = "taskset"
    IN SubSeq(job.argv, 4, Len(job.argv))

=============================================================================
