---------------------------- MODULE RebuildRace ----------------------------
(***************************************************************************)
(* scripts/old-paper/bw-accuracy.py: reconfigure the build for a protocol  *)
(* with cmake, build with make, run, and for 2, 3 and 4 parties sum the   *)
(* "P. Total" byte counts the parties print.                               *)
(*                                                                         *)
(* make decides by timestamps, which the file system keeps at a coarse    *)
(* granularity: a clock of ticks.  cmake rewrites the flags file only when *)
(* PROTOCOL changes; make recompiles the objects when the flags file is   *)
(* newer than they are, and relinks the executable when it is missing or  *)
(* older than the objects.  The script's commands go through check_call,  *)
(* which raises on failure, except that in `mpirun ... | tee d` the       *)
(* pipeline's status is tee's.                                             *)
(***************************************************************************)
EXTENDS Integers, Sequences

CONSTANTS
    MaxTime,        \* bound on the clock
    FastRuns,       \* the kinds of run ("run", "mpirun") that may end within
                    \* the tick they started in; the others last a tick
    MpiMayFail,     \* a party can die before printing its "P. Total" line
    None            \* no object files / no executable

\* The PROTOCOL values the script configures, in its order.
Protocols == {1, 0, 2, 3, 4}

\* Lines 31-39: configure, build and run single-process for PROTOCOL=1, 0.
Profile(p) ==
    << [op |-> "cmake", p |-> p], [op |-> "make", p |-> p],
       [op |-> "run", p |-> p] >>

\* run_mpc(n) with make called before cmake.
RunMpcMakeFirst(n) ==
    << [op |-> "unlink", p |-> n], [op |-> "make", p |-> n],
       [op |-> "cmake", p |-> n], [op |-> "sleep", p |-> n],
       [op |-> "mpirun", p |-> n], [op |-> "total", p |-> n] >>

\* run_mpc(n), lines 42-60.
RunMpc(n) ==
    << [op |-> "unlink", p |-> n], [op |-> "cmake", p |-> n],
       [op |-> "sleep", p |-> n], [op |-> "make", p |-> n],
       [op |-> "mpirun", p |-> n], [op |-> "total", p |-> n] >>

\* The script's commands in order (lines 31-39 and the loop of lines 65-66).
Script == Profile(1) \o Profile(0) \o RunMpc(2) \o RunMpc(3) \o RunMpc(4)

VARIABLES
    now,            \* the file-system clock
    flags,          \* PROTOCOL in the generated flags file, and its mtime
    flagsTime,
    obj,            \* PROTOCOL the object files were compiled with, and mtime
    objTime,
    exe,            \* PROTOCOL the executable was linked from, and mtime
    exeTime,
    pc,             \* index of the next command in Script; 0 after a crash
    ran,            \* for each protocol run, the PROTOCOL of the executable
    lines,          \* "P. Total" lines in the tee'd output of the last mpirun
    bw              \* bw[n]: the count run_mpc(n) returned, in party totals

vars == <<now, flags, flagsTime, obj, objTime, exe, exeTime, pc, ran, lines, bw>>

\* The build directory holds an earlier build, made at least a tick ago.
Init ==
    /\ now = 1
    /\ flags \in Protocols /\ flagsTime = 0
    /\ obj \in {flags, None} /\ objTime = 0
    /\ exe \in {obj, None} /\ exeTime = 0
    /\ pc = 1
    /\ ran = <<>> /\ lines = 0 /\ bw = <<>>

Cmd == Script[pc]

\* Advance to the next command.
Continue == pc' = pc + 1

Tick == now < MaxTime /\ now' = now + 1

\* The commands from the next one on that must take a tick: the sleeps, and
\* the runs that are not fast.
TakesTick(c) == c.op = "sleep" \/ (c.op \in {"run", "mpirun"} /\ c.op \notin FastRuns)
Mandatory == Len(SelectSeq(SubSeq(Script, pc, Len(Script)), TakesTick))

\* A function extended by one more key.
Extend(f, k, v) == [x \in DOMAIN f \cup {k} |-> IF x = k THEN v ELSE f[x]]

\* cmake .. -DPROTOCOL=p: the flags file is rewritten only if it changes.
Cmake ==
    /\ Cmd.op = "cmake"
    /\ IF flags # Cmd.p THEN flags' = Cmd.p /\ flagsTime' = now
                        ELSE UNCHANGED <<flags, flagsTime>>
    /\ Continue
    /\ UNCHANGED <<now, obj, objTime, exe, exeTime, ran, lines, bw>>

\* make -j Q: recompile when the flags are newer than the objects, relink
\* when the executable is missing or older than the objects.
Recompile == obj = None \/ flagsTime > objTime

Make ==
    /\ Cmd.op = "make"
    /\ obj' = IF Recompile THEN flags ELSE obj
    /\ objTime' = IF Recompile THEN now ELSE objTime
    /\ IF exe = None \/ objTime' > exeTime
       THEN exe' = obj' /\ exeTime' = now
       ELSE UNCHANGED <<exe, exeTime>>
    /\ Continue
    /\ UNCHANGED <<now, flags, flagsTime, ran, lines, bw>>

\* Path.unlink(Path(Q), missing_ok=True)
Unlink ==
    /\ Cmd.op = "unlink"
    /\ exe' = None
    /\ Continue
    /\ UNCHANGED <<now, flags, flagsTime, obj, objTime, exeTime, ran, lines, bw>>

\* time.sleep(1): at least one tick.
Sleep ==
    /\ Cmd.op = "sleep"
    /\ Tick
    /\ Continue
    /\ UNCHANGED <<flags, flagsTime, obj, objTime, exe, exeTime, ran, lines, bw>>

\* ./Q ... | tee out (lines 34, 39) and mpirun -n n ./Q ... | tee d (line
\* 53): the executable in the build directory runs; with mpirun, each of
\* the n parties prints one "P. Total" line unless it dies first, and the
\* pipeline reports tee's success.
Run ==
    /\ Cmd.op \in {"run", "mpirun"}
    /\ exe # None
    /\ ran' = Extend(ran, Cmd.p, exe)
    /\ \/ lines' = Cmd.p
       \/ MpiMayFail /\ Cmd.op = "mpirun" /\ lines' \in 0 .. Cmd.p - 1
    /\ IF Cmd.op \in FastRuns THEN (Tick \/ UNCHANGED now) ELSE Tick
    /\ Continue
    /\ UNCHANGED <<flags, flagsTime, obj, objTime, exe, exeTime, bw>>

\* Lines 54-58: sum of the last field of the lines grep finds; grep finding
\* none exits 1 and check_output raises.
Total ==
    /\ Cmd.op = "total"
    /\ IF lines > 0 THEN bw' = Extend(bw, Cmd.p, lines) /\ Continue
                    ELSE pc' = 0 /\ UNCHANGED bw
    /\ UNCHANGED <<now, flags, flagsTime, obj, objTime, exe, exeTime, ran, lines>>

\* Time passes between two commands (leaving the ticks the remaining
\* commands need).
Clock ==
    /\ pc \in 1 .. Len(Script)
    /\ now + Mandatory < MaxTime
    /\ Tick
    /\ UNCHANGED <<flags, flagsTime, obj, objTime, exe, exeTime, pc, ran, lines, bw>>

\* The script has ended: printed the totals (lines 68-69) or crashed.
Ended == pc \notin 1 .. Len(Script) /\ UNCHANGED vars

Next ==
    \/ pc \in 1 .. Len(Script) /\ (Cmake \/ Make \/ Unlink \/ Sleep \/ Run \/ Total)
    \/ Clock
    \/ Ended

Spec == Init /\ [][Next]_vars

(* Each run executes a build configured for the protocol it is run for:   *)
(* the comment at lines 48-49 reports that "sometimes the wrong           *)
(* executable is built" and sleeps a second after cmake against it.        *)
RunsRequestedProtocol ==
    \A p \in DOMAIN ran : ran[p] = p

=============================================================================
