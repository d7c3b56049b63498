---------------------------- MODULE ThreadingPlot ----------------------------
(***************************************************************************)
(* scripts/plot/plot-threading.py: the per-thread summary of a runtime    *)
(* trace.  A CSV row is [tid, meta, t, e]: the thread id, meta "" (a task),*)
(* "comm", "vec" or "wait", t_start and elapsed.  Times are kept in the   *)
(* trace's unit: the division by 1e6 (lines 32-33) scales every time      *)
(* alike.  A NaN (min or max of no values) is None.                        *)
(***************************************************************************)
EXTENDS PyDicts, FiniteSets

\* df[df["meta"] == "wait"]["tid"].values[0] (line 19): the thread of the
\* first wait row, None when there is none (IndexError).
MainThread(df) ==
    LET w == SelectSeq(df, LAMBDA r : r.meta = "wait")
    IN IF w = <<>> THEN None ELSE w[1].tid

\* thread_idx (lines 23, 48): the main thread 0, the others 1, 2, ... in
\* increasing id.
ThreadIndex(df, main) ==
    LET others == {df[i].tid : i \in DOMAIN df} \ {main}
    IN [tid \in others \cup {main} |->
          IF tid = main THEN 0 ELSE 1 + Cardinality({o \in others : o < tid})]

\* t_start (line 26): the earliest start of a task row, None without one.
TaskStart(df) ==
    LET ts == {df[i].t : i \in {i \in DOMAIN df : df[i].meta = ""}}
    IN IF ts = {} THEN None ELSE Min(ts)

\* Lines 27-34 without the clamp of line 29.
ShiftRowsNoClamp(df) ==
    LET t0 == TaskStart(df)
    IN [i \in DOMAIN df |-> [df[i] EXCEPT !.t = IF t0 = None THEN None ELSE @ - t0]]

\* Lines 27-34: t_start made relative to the first task; a row starting
\* before it gets elapsed 0 (NaN compares false, so no row is clamped
\* when there is no task).
ShiftRows(df) ==
    LET t0 == TaskStart(df)
    IN [i \in DOMAIN df |->
          [df[i] EXCEPT !.t = IF t0 = None THEN None ELSE @ - t0,
                        !.e = IF t0 # None /\ df[i].t < t0 THEN 0 ELSE @]]

\* e2e = df["t_end"].max() (line 36).
E2E(rows) ==
    IF \E i \in DOMAIN rows : rows[i].t = None THEN None
    ELSE Max({rows[i].t + rows[i].e : i \in DOMAIN rows})

\* groupby("mapped")["elapsed"].sum() of one meta (line 122), fillna(0)
\* (line 128): 0 for a thread with no such row.
TotalOf(rows, idx, m, c) ==
    FoldSet(LAMBDA i, a : rows[i].e + a, 0,
            {i \in DOMAIN rows : rows[i].meta = c /\ idx[rows[i].tid] = m})

\* The summary (lines 115-140): for each thread index the stacked bars
\* run, other, total_comm and total_wait, and the main thread's "other".
\* other is e2e - total, NaN (then 0) for a thread without a task; the
\* workers' (index 1 on) total_wait is replaced by their other, and their
\* other by 0.
ThreadingSummary(df) ==
    LET main == MainThread(df)
    IN IF main = None THEN [crash |-> TRUE]
       ELSE LET rows == ShiftRows(df)
                idx == ThreadIndex(df, main)
                e2e == E2E(rows)
                has(m) == \E i \in DOMAIN rows : rows[i].meta = "" /\ idx[rows[i].tid] = m
                tot(m, c) == TotalOf(rows, idx, m, c)
                other(m) == IF e2e = None \/ ~has(m) THEN 0 ELSE e2e - tot(m, "")
            IN [crash |-> FALSE, e2e |-> e2e,
                bars |-> [m \in 0 .. Cardinality(DOMAIN idx) - 1 |->
                            [run |-> tot(m, "") - tot(m, "wait") - tot(m, "comm"),
                             other |-> IF m = 0 THEN other(m) ELSE 0,
                             comm |-> tot(m, "comm"),
                             wait |-> IF m = 0 THEN tot(m, "wait") ELSE other(m)]],
                mainOther |-> IF e2e = None THEN None ELSE e2e - tot(0, "")]

=============================================================================
