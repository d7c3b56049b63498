---------------------------- MODULE GeoWanPlot ----------------------------
(***************************************************************************)
(* scripts/plot/plot_geowan_experiments.py: the per-query statistics of a  *)
(* simulated-WAN and a real-WAN directory (parse_files with                *)
(* compute_median: rows [query, median] whose index is their position,     *)
(* from 0, in sort_query_order), filtered to QUERY_ORDER, and the real /   *)
(* simulated ratio that labels each bar.  pandas aligns the two median     *)
(* Series by index label: a Series here is a sequence of [idx, v].         *)
(***************************************************************************)
EXTENDS QueryLogs

\* QUERY_ORDER (line 18).
QueryOrder == <<"Q11", "Q22", "Q12", "Q8", "Q21">>

\* The position of a query in QUERY_ORDER (pd.Categorical, line 77).
CategoryRank(q) == CHOOSE i \in DOMAIN QueryOrder : QueryOrder[i] = q

\* process_queries without the sort by category.
ProcessQueriesUnsorted(stats) ==
    LET rows == [i \in DOMAIN stats |-> [idx |-> i - 1, query |-> stats[i].query,
                                         median |-> [num |-> stats[i].median.num,
                                                     den |-> stats[i].median.den * 60]]]
    IN SelectSeq(rows, LAMBDA r : r.query \in Range(QueryOrder))

\* process_queries (lines 72-81): the rows of QUERY_ORDER's queries, each
\* keeping its index label, the median in minutes, sorted by QUERY_ORDER.
ProcessQueries(stats) ==
    LET rows == [i \in DOMAIN stats |-> [idx |-> i - 1, query |-> stats[i].query,
                                         median |-> [num |-> stats[i].median.num,
                                                     den |-> stats[i].median.den * 60]]]
    IN SortSeq(SelectSeq(rows, LAMBDA r : r.query \in Range(QueryOrder)),
               LAMBDA a, b : CategoryRank(a.query) < CategoryRank(b.query))

\* wan['median'] / simwan['median'] (line 33): with equal indexes the
\* values pair up by position and keep wan's order; otherwise the result
\* is indexed by the sorted union of the labels, NaN where a label is
\* missing on either side.
AlignedRatio(wan, sim) ==
    LET wi == [i \in DOMAIN wan |-> wan[i].idx]
        si == [i \in DOMAIN sim |-> sim[i].idx]
        at(s, l) == CHOOSE r \in Range(s) : r.idx = l
        ratio(l) == IF l \in Range(wi) /\ l \in Range(si)
                    THEN [nan |-> FALSE, num |-> at(wan, l).median.num * at(sim, l).median.den,
                          den |-> at(wan, l).median.den * at(sim, l).median.num]
                    ELSE [nan |-> TRUE]
        labels == IF wi = si THEN wi ELSE SortSeq(SetAsSeq(Range(wi) \cup Range(si)), <)
    IN [k \in DOMAIN labels |-> [idx |-> labels[k]] @@ ratio(labels[k])]

\* plot_sublot_t (lines 29-55) for one protocol: the bars (wan's queries
\* and medians) and the ratio Series whose values label them in turn.
\* ax.bar_label (line 55) walks bars and labels with zip_longest: a label
\* past the last bar meets None and raises AttributeError.
GeoWanSubplot(simStats, wanStats) ==
    LET sim == ProcessQueries(simStats)
        wan == ProcessQueries(wanStats)
        ratio == AlignedRatio(wan, sim)
    IN [crash |-> Len(ratio) > Len(wan),
        bars |-> [i \in DOMAIN wan |-> [query |-> wan[i].query, median |-> wan[i].median]],
        ratio |-> ratio]

=============================================================================
