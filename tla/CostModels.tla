----------------------------- MODULE CostModels -----------------------------
(***************************************************************************)
(* The communication-cost estimates of the evaluation scripts, as         *)
(* operators over abstracted log lines:                                    *)
(*  - compute_costs of scripts/old-paper/bandwidth-estimate.py, a scan of  *)
(*    the op-count table a profiled run prints;                            *)
(*  - the census parser and total_cost of scripts/profiling/               *)
(*    query-cm-scaling.py.                                                 *)
(* A loop over lines is FoldLeft of its body.  Quantities are integers:    *)
(* table sizes are powers of two (the comment at line 84 of               *)
(* query-cm-scaling.py), so n is written 2^e and lg(n) = e exactly, and    *)
(* bandwidth is kept in bits (compute_costs' final /8 only rescales).      *)
(***************************************************************************)
EXTENDS PyDicts

CONSTANTS
    NaN     \* a table field int() cannot parse

(*************************** bandwidth-estimate **************************)

\* COSTS: bits sent per input bit, across all parties (lines 13-62).
COSTS ==
    [p \in {2, 3, 4} |->
        [op \in {"and_b", "multiply_a", "redistribute_shares_b",
                 "secret_share_a", "secret_share_b", "open_shares_a",
                 "open_shares_b", "b2a_bit", "applyperm"} |->
            CASE op \in {"and_b", "multiply_a"} -> (<<4, 3, 12>>)[p - 1]
              [] op = "redistribute_shares_b" -> (<<2, 8, 4>>)[p - 1]
              [] op \in {"secret_share_a", "secret_share_b"} -> (<<1, 4, 9>>)[p - 1]
              [] op \in {"open_shares_a", "open_shares_b"} -> (<<2, 3, 4>>)[p - 1]
              [] op = "b2a_bit" -> (<<4, 9, 16>>)[p - 1]
              [] op = "applyperm" -> (<<2, 6, 24>>)[p - 1]]]

\* COSTS[proto].get(op, 0)
OpCost(proto, op) == IF op \in DOMAIN COSTS[proto] THEN COSTS[proto][op] ELSE 0

(* A line of a profiled run's output, by what compute_costs tests:        *)
(* start: it starts with "Op Counts"; sep: " | " occurs in it; nf: the    *)
(* number of "|"-separated fields; op: its first word; bits: its third    *)
(* field, an integer or NaN.                                               *)

\* The loop body with reached_counts set only for rows that are counted.
CostsStepLateFlag(proto, st, line) ==
    IF st.err \/ ~(st.reached \/ line.start) THEN st
    ELSE IF ~line.sep \/ line.nf < 3 THEN st
    ELSE IF line.bits = NaN THEN [st EXCEPT !.reached = TRUE, !.err = TRUE]
    ELSE [st EXCEPT !.reached = TRUE,
                    !.bits = @ + OpCost(proto, line.op) * line.bits]

\* The body of the for loop of compute_costs (lines 70-92); st.err records
\* the ValueError int() raises.
CostsStep(proto, st, line) ==
    IF st.err \/ ~(st.reached \/ line.start) THEN st
    ELSE IF ~line.sep \/ line.nf < 3 THEN [st EXCEPT !.reached = TRUE]
    ELSE IF line.bits = NaN THEN [st EXCEPT !.reached = TRUE, !.err = TRUE]
    ELSE [st EXCEPT !.reached = TRUE,
                    !.bits = @ + OpCost(proto, line.op) * line.bits]

\* compute_costs(data, proto), in bits.
ComputeCosts(data, proto) ==
    FoldLeft(LAMBDA st, line : CostsStep(proto, st, line),
             [reached |-> FALSE, bits |-> 0, err |-> FALSE], data)

(***************************** query-cm-scaling **************************)

\* Bitwidths, lines 20-22, as their base-2 logarithms.
LgStdBw == 6
LgSortBw == LgStdBw + 1
StdBw == 2^LgStdBw

\* sort_cost, agg_cost, div_cost under the default (complex) model, lines
\* 64-110; d.e is lg(d.n).
SortCost(d) == d.k * (2^d.e * d.e) * LgSortBw
AggCost(d) == (LgStdBw * d.k + d.a) * 2^d.e * d.e
DivCost(n) == (1 + StdBw) * 2 * n

EventCost(ev) ==
    CASE ev.t = "S" -> SortCost(ev)
      [] ev.t = "A" -> AggCost(ev)
      [] ev.t = "D" -> DivCost(ev.n)
      [] ev.t = "O" -> 0

\* total_cost(data), lines 112-132: a leading OVERALL event is the answer;
\* otherwise the sum of the sort, aggregation and division costs.
TotalCost(data) ==
    IF data = <<>> THEN 0
    ELSE IF data[1].t = "O" THEN data[1].v
    ELSE FoldLeft(LAMBDA c, ev : c + EventCost(ev), 0, data)


(* A census line, by the test of lines 44-58 it passes first: "sf" (the   *)
(* header naming a query and scale factor), "A", "S", "D" (an aggregation,*)
(* sort or division record), "O" (the Overall time), or "other".         *)

\* The loop body with the header's query name (splt[0]) not taken.
CensusStepKeepsQuery(st, line) ==
    IF line.kind = "sf" THEN [st EXCEPT !.key = <<line.sf, st.key[2]>>]
    ELSE IF line.kind = "other" THEN st
    ELSE [st EXCEPT !.ops = Append1(@, st.key, line.ev)]

\* The body of the for loop over a census file (lines 42-58).
CensusStep(st, line) ==
    IF line.kind = "sf" THEN [st EXCEPT !.key = <<line.sf, line.q>>]
    ELSE IF line.kind = "other" THEN st
    ELSE [st EXCEPT !.ops = Append1(@, st.key, line.ev)]

\* op_dict after one census file; events before any header land under
\* op_dict[None][None].
ParseCensus(lines, none) ==
    FoldLeft(LAMBDA st, line : CensusStep(st, line),
             [key |-> <<none, none>>, ops |-> <<>>], lines).ops

=============================================================================
