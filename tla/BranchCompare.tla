--------------------------- MODULE BranchCompare ---------------------------
(***************************************************************************)
(* scripts/compare-to.py: build and run a program on the current branch,   *)
(* check out another branch or ref, build and run it there, and switch     *)
(* back with `git checkout -`.  The state is git's: the checked-out ref    *)
(* (HEAD) and the previously checked-out one (@{-1}, what `checkout -`     *)
(* goes to), and the build directory's executable, named by the ref whose  *)
(* sources it was built from.  Only the first checkout's return code is    *)
(* looked at; make, mpirun and the switch back may fail silently, and the  *)
(* user may stop the script (Ctrl-C) between any two commands.            *)
(***************************************************************************)
EXTENDS Sequences

CONSTANTS
    Refs,             \* branches and refs of the repository
    ThisBranch,       \* the branch checked out when the script starts
    NoBuild,          \* no executable in the build directory yet
    MakeMayFail,      \* make can fail (a compile error): the old binary stays
    CheckoutMayFail,  \* a git checkout can refuse (conflicting changes)
    Interruptible     \* the user can stop the script between two commands

ASSUME ThisBranch \in Refs /\ NoBuild \notin Refs

VARIABLES
    head,    \* the ref checked out
    prev,    \* @{-1}
    build,   \* the ref the executable was built from, or NoBuild
    other,   \* args.branch
    runs,    \* the mpirun invocations: the branch printed and the binary run
    pc       \* the next line of the script to run

vars == <<head, prev, build, other, runs, pc>>

\* "Assume cmake is already run": the build directory holds whatever the last
\* make built; the user reached ThisBranch from some ref.
Init ==
    /\ head = ThisBranch
    /\ prev \in Refs
    /\ build \in Refs \cup {NoBuild}
    /\ other \in Refs
    /\ runs = <<>>
    /\ pc = "make1"

\* `git checkout r` on success: HEAD moves, the ref left becomes @{-1}.
CheckedOut(r) == head' = r /\ prev' = head

\* subprocess.run(f"make {exec}".split()): success rebuilds from HEAD's
\* sources; the return code is ignored either way.
Make(from, to) ==
    /\ pc = from
    /\ \/ build' = head
       \/ MakeMayFail /\ UNCHANGED build
    /\ pc' = to
    /\ UNCHANGED <<head, prev, other, runs>>

\* subprocess.run(f"mpirun -n {N} {exec} {threads}".split()) after the banner
\* naming `label`; it runs whatever executable the build directory holds.
Run(from, label, to) ==
    /\ pc = from
    /\ runs' = Append(runs, [branch |-> label, binary |-> build])
    /\ pc' = to
    /\ UNCHANGED <<head, prev, build, other>>

\* The same step without the return-code test of line 26.
CheckoutOtherUnchecked ==
    /\ pc = "checkout"
    /\ \/ CheckedOut(other)
       \/ CheckoutMayFail /\ UNCHANGED <<head, prev>>
    /\ pc' = "make2"
    /\ UNCHANGED <<build, other, runs>>

\* ret = git checkout other_branch; if ret.returncode: sys.exit(1)
CheckoutOther ==
    /\ pc = "checkout"
    /\ \/ CheckedOut(other) /\ pc' = "make2"
       \/ CheckoutMayFail /\ pc' = "exit1" /\ UNCHANGED <<head, prev>>
    /\ UNCHANGED <<build, other, runs>>

\* print("=== Switching back to original branch"); git checkout -, whose
\* return code is not looked at: a refusal leaves HEAD where it is.
CheckoutBack ==
    /\ pc = "back"
    /\ \/ CheckedOut(prev)
       \/ CheckoutMayFail /\ UNCHANGED <<head, prev>>
    /\ pc' = "done"
    /\ UNCHANGED <<build, other, runs>>

\* KeyboardInterrupt: the script dies in the middle of its command list.
Interrupt ==
    /\ Interruptible
    /\ pc \notin {"done", "exit1", "killed"}
    /\ pc' = "killed"
    /\ UNCHANGED <<head, prev, build, other, runs>>

Terminated == pc \in {"done", "exit1", "killed"} /\ UNCHANGED vars

Next ==
    \/ Make("make1", "run1")
    \/ Run("run1", ThisBranch, "checkout")
    \/ CheckoutOther
    \/ Make("make2", "run2")
    \/ Run("run2", other, "back")
    \/ CheckoutBack
    \/ Interrupt
    \/ Terminated

Spec == Init /\ [][Next]_vars /\ WF_vars(Next)

(* When the script reaches `git checkout -` (line 34), @{-1} is the       *)
(* branch it started from, whichever ref the user left before starting it *)
(* and whichever builds failed: only the exit at line 26 after a failed   *)
(* first checkout keeps @{-1} from being that earlier ref.  So a script   *)
(* that runs to its end or exits leaves the tree on the starting branch,  *)
(* or, when the switch back itself is refused, on the compared one, and   *)
(* never on a third ref.                                                   *)
SwitchesBack ==
    /\ pc = "back" => prev = ThisBranch
    /\ pc \in {"done", "exit1"} => head \in {ThisBranch, other}

(* The script leaves the working tree on the branch it started from (the   *)
(* banner "Switching back to original branch"), whether it finishes, exits  *)
(* because the other branch cannot be checked out, or is stopped.          *)
EndsOnOriginalBranch ==
    pc \in {"done", "exit1", "killed"} => head = ThisBranch

(* Each mpirun runs the executable built from the branch its banner names  *)
(* ("Run exec on this branch" / "on other branch"), so the two outputs     *)
(* compare the two branches.                                               *)
RunsOwnBinary ==
    \A i \in DOMAIN runs : runs[i].binary = runs[i].branch

=============================================================================
