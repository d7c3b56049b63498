----------------------------- MODULE ScalingPlot -----------------------------
(***************************************************************************)
(* scripts/old-paper/plot-scaling.py: from the rows parse_files(dir,       *)
(* False) returns ([query, overall, sf]), the median time per (query, sf)  *)
(* and the SF 10 / SF 1 ratio per query.  A median or a ratio is          *)
(* [num, den]; a missing SF 1 median makes the ratio NaN.                  *)
(***************************************************************************)
EXTENDS QueryLogs

\* SCALING_QUERIES (lines 13-15).
ScalingQueries == <<"Q22", "Q12", "Q21">>

\* The overall times of the rows of one (query, sf).
RunsOf(df, k) ==
    LET sel == SelectSeq(df, LAMBDA r : <<r.query, r.sf>> = k)
    IN [i \in DOMAIN sel |-> sel[i].overall]

\* groupby(['query', 'sf']).agg(median=('overall_time', 'median'))
\* (lines 141-143, 147-149): a median for each (query, sf) with rows.
GroupMedians(df) ==
    [k \in {<<r.query, r.sf>> : r \in Range(df)} |-> PdMedian(RunsOf(df, k))]

\* median_10 / median_1 (lines 30, 87).
Ratio(a, b) == [num |-> a.num * b.den, den |-> a.den * b.num]

\* round(x) rounding halves up.
RoundHalfUp(x) == (2 * x.num + x.den) \div (2 * x.den)

\* Python's round(x) of a non-negative ratio (line 97): the nearest
\* integer, a tie going to the even one.
PyRound(x) ==
    LET q == x.num \div x.den
        r == x.num % x.den
    IN CASE 2 * r < x.den -> q
         [] 2 * r > x.den -> q + 1
         [] OTHER -> q + (q % 2)

\* gen_scaling_subplot (lines 74-98) on one data set after the -s filter
\* and grouping (line 141): merged.loc[SCALING_QUERIES] raises KeyError
\* for a scaling query without SF 10 rows; a NaN ratio (no SF 1 rows)
\* makes round() raise ValueError; else the bars (SF 10 median in
\* minutes) and their labels, in SCALING_QUERIES order.
ScalingSubplot(df) ==
    LET m == GroupMedians(SelectSeq(df, LAMBDA r : r.query \in Range(ScalingQueries)))
        Q == ScalingQueries
    IN CASE \E i \in DOMAIN Q : <<Q[i], 10>> \notin DOMAIN m -> [crash |-> "KeyError"]
         [] \E i \in DOMAIN Q : <<Q[i], 1>> \notin DOMAIN m -> [crash |-> "ValueError"]
         [] OTHER ->
              [crash |-> "ok",
               minutes |-> [i \in DOMAIN Q |-> [num |-> m[<<Q[i], 10>>].num,
                                                den |-> m[<<Q[i], 10>>].den * 60]],
               labels |-> [i \in DOMAIN Q |-> PyRound(Ratio(m[<<Q[i], 10>>], m[<<Q[i], 1>>]))]]

\* gen_lan_scaling (lines 26-32) on the grouped 2PC LAN rows: one bar per
\* query with SF 10 rows, its ratio (NaN without SF 1 rows), sorted by
\* the SF 10 median.
LanScaling(df) ==
    LET m == GroupMedians(df)
        qs == {k[1] : k \in {k \in DOMAIN m : k[2] = 10}}
        bar(q) == [query |-> q, median10 |-> m[<<q, 10>>],
                   scaling |-> IF <<q, 1>> \in DOMAIN m
                               THEN [nan |-> FALSE] @@ Ratio(m[<<q, 10>>], m[<<q, 1>>])
                               ELSE [nan |-> TRUE]]
    IN SortSeq([i \in 1 .. Cardinality(qs) |-> bar(SetAsSeq(qs)[i])],
               LAMBDA a, b : a.median10.num * b.median10.den < b.median10.num * a.median10.den)

\* __main__ (lines 140-150): with -s the scaling subplots, else the LAN
\* scaling bars of the 2PC LAN data.
ScalingMain(df, s) ==
    IF s THEN [s |-> TRUE, plot |-> ScalingSubplot(df)]
    ELSE [s |-> FALSE, plot |-> LanScaling(df)]

=============================================================================
