---------------------------- MODULE QueryBreakdown ----------------------------
(***************************************************************************)
(* scripts/plot/plot-query-breakdown.py: one bar group per plotted query  *)
(* at SF 10, from the rows parse_files(dir, False) reads (QueryLogs).      *)
(* PLOT_REL is False, so the times stay absolute.  NaN is None.           *)
(***************************************************************************)
EXTENDS QueryLogs

\* PLOT_QUERIES (lines 13-20) and SF (line 24).
PlotQueries == {"Q6", "Q8", "Q11", "Q12", "Q21", "Q22"}
PlotSF == 10

\* The data-frame columns of a parse_files row (lines 164-174), with sf.
FlatRow(r) ==
    [query |-> r.query, sf |-> r.sf, overall |-> r.overall,
     sort |-> r.time.sort, agg |-> r.time.agg, other |-> r.time.other,
     sort_comm |-> r.comm.sort, agg_comm |-> r.comm.agg, other_comm |-> r.comm.other]

BreakdownColumns ==
    {"overall", "sort", "agg", "other", "sort_comm", "agg_comm", "other_comm"}

\* groupby("query").first() read as taking the group's first row whole.
GroupFirstRow(rows, n, c) == SelectSeq(rows, LAMBDA r : r.query = n)[1][c]

\* groupby("query").first() (lines 42-43): for each column separately, the
\* first value of the group that is not NaN, NaN when there is none.
GroupFirst(rows, n, c) ==
    LET v == SelectSeq(rows, LAMBDA r : r.query = n /\ r[c] # None)
    IN IF v = <<>> THEN None ELSE v[1][c]

\* x - x_comm (lines 54-56): a time less a [num, den] quotient, NaN - y NaN.
ExecTime(t, c) == IF t = None THEN None ELSE [num |-> t * c.den - c.num, den |-> c.den]

\* The bar data of one query (lines 42-56).
BreakdownBar(rows, n) ==
    LET g == [c \in BreakdownColumns |-> GroupFirst(rows, n, c)]
    IN g @@ [query |-> n,
             agg_exec |-> ExecTime(g.agg, g.agg_comm),
             sort_exec |-> ExecTime(g.sort, g.sort_comm),
             other_exec |-> ExecTime(g.other, g.other_comm)]

\* Lines 38-57 on data = parse_files(dir, False) (line 36): the plotted
\* queries' rows at SF 10 with an overall time (dropna), grouped by query,
\* the groups in Python string order.
QueryBreakdown(data) ==
    IF data.crash THEN [crash |-> TRUE]
    ELSE LET rows == SelectSeq([i \in DOMAIN data.df |-> FlatRow(data.df[i])],
                               LAMBDA x : x.query \in PlotQueries /\ x.sf = PlotSF
                                          /\ x.overall # None)
             names == SortSeq(SetAsSeq({rows[i].query : i \in DOMAIN rows}),
                              LAMBDA a, b : PyStrRank[a] < PyStrRank[b])
         IN [crash |-> FALSE, bars |-> [i \in DOMAIN names |-> BreakdownBar(rows, names[i])]]

=============================================================================
