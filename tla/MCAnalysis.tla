---------------------------- MODULE MCAnalysis ----------------------------
(***************************************************************************)
(* The log-analysis operators applied to every short log over a few line  *)
(* shapes; the log under analysis is a variable so that TLC checks each   *)
(* property on each log.  Each property compares the code's one-pass scan *)
(* with a definition of what it should compute stated over positions in   *)
(* the whole log.                                                          *)
(***************************************************************************)
EXTENDS MpspdzLogs, ScalingPlot, GeoWanPlot, ThreadingPlot, QueryBreakdown, SecrecyComparison, LatencyLogs, SecretflowLogs, FiniteSets

CONSTANTS
    MaxLines,   \* the longest log
    TableRuns,  \* num_runs of table_sort.py: runs per column count
    RunLines,   \* the most results one run prints (table_sort, sort-graphs)
    SecrecyLines,\* the longest log a sort-time reader is given
    SortBlocks,  \* the most STARTING- blocks of a sort-graphs log
    LogFiles,    \* the most files a process-and-plot parse_files reads
    FileLines,   \* the longest of those files
    SfLines,     \* the longest SecretFlow log: a SortByKey line and the five after it
    OrqFileLines \* the longest ORQ log of that comparison: a header, a radix and a dummy time

(* Line shapes of a profiled run (bandwidth-estimate): the "Op Counts"    *)
(* title, free text, a row with two fields, a table row whose third field *)
(* is not a number, and rows of a costed and an uncosted operation.       *)
BwLines ==
    {[start |-> TRUE, sep |-> FALSE, nf |-> 1, op |-> "Op", bits |-> NaN],
     [start |-> FALSE, sep |-> FALSE, nf |-> 1, op |-> "text", bits |-> NaN],
     [start |-> FALSE, sep |-> TRUE, nf |-> 2, op |-> "and_b", bits |-> NaN],
     [start |-> FALSE, sep |-> TRUE, nf |-> 3, op |-> "op", bits |-> NaN]}
    \cup
    {[start |-> FALSE, sep |-> TRUE, nf |-> 3, op |-> o, bits |-> b] :
        o \in {"and_b", "applyperm", "reshare"}, b \in {1, 2}}

(* Census lines (query-cm-scaling): headers for two queries at two scale  *)
(* factors, one record of each kind, and other text.                      *)
CensusLines ==
    {[kind |-> "sf", sf |-> s, q |-> q] : s \in {1, 10}, q \in {"Q6", "Q12"}}
    \cup
    {[kind |-> "ev", ev |-> e] :
        e \in {[t |-> "A", k |-> 1, e |-> 1, a |-> 1],
               [t |-> "S", k |-> 2, e |-> 2],
               [t |-> "D", n |-> 4],
               [t |-> "O", v |-> 5]}}
    \cup {[kind |-> "other"]}

(* Results of a micro_tablesort run as regex_pattern.findall returns them:*)
(* the three timed algorithms and one the script ignores, and profiling  *)
(* results for two step names.                                            *)
SortMatches ==
    {[kind |-> "sort", alg |-> a, t |-> 1] :
        a \in {"Bitonicsort", "Quicksort", "Radixsort", "Mergesort"}}
    \cup {[kind |-> "sort", alg |-> "Quicksort", t |-> 3]}
    \cup {[kind |-> "prof", name |-> n, t |-> t] : n \in {"Shuffle", "Open"}, t \in {1, 2}}

(* Lines of the logs the MP-SPDZ comparison reads: ORQ's sort benchmark  *)
(* (headers for two sizes, sort and preprocessing times), the permutation *)
(* and triple preprocessing benchmarks, and MP-SPDZ's own output.         *)
SecrecyKinds ==
    {[kind |-> "rows", e |-> e] : e \in {4, 5}}
    \cup {[kind |-> "quick", t |-> 1], [kind |-> "preproc", t |-> 1]}
    \cup {[kind |-> "radix", t |-> t] : t \in {2, 3}}

PermsKinds ==
    {[kind |-> "sep"], [kind |-> "other"]}
    \cup {[kind |-> "iter", e |-> e] : e \in {4, 5}}
    \cup {[kind |-> "total", t |-> t] : t \in {1, 2}}

TriplesKinds ==
    {[kind |-> "rows", e |-> e] : e \in {4, 5}}
    \cup {[kind |-> "radixpre", t |-> t] : t \in {1, 2}}
    \cup {[kind |-> "quickpre", t |-> 1]}

MpspdzKinds ==
    {[kind |-> "iter", e |-> e] : e \in {4, 5}} \cup {[kind |-> "other"]}
    \cup {[kind |-> "spent", on |-> 1, mb |-> m, off |-> 2, full |-> f] :
            m \in {1, 2}, f \in BOOLEAN}

(* Blocks of a sort-graphs log: a header that names no sort, or one of    *)
(* QUICKSORT, RADIXSORT or another sort with a THREADS= count in or out    *)
(* of the script's list, and up to two lines of a total time and profile  *)
(* times.                                                                  *)
BlockHeaders ==
    {[sort |-> FALSE]}
    \cup {[sort |-> TRUE, alg |-> a, threads |-> t] :
            a \in {"QUICKSORT", "RADIXSORT", "MERGESORT"}, t \in {1, 3}}
BlockLines ==
    {[kind |-> "sw", t |-> 1]}
    \cup {[kind |-> "prof", name |-> n, t |-> t] : <<n, t>> \in {<<"Open", 1>>, <<"Open", 2>>, <<"Shuffle", 1>>}}

(* Lines of a query log: Overall times, profile and communication lines   *)
(* naming one or two of the profiled steps, the SF; line (with a thread   *)
(* count of 0 or 2), a preprocessing time, and other text.                 *)
QueryLines ==
    {[kind |-> "overall", v |-> v] : v \in {5, 6}}
    \cup {[kind |-> "prof", tags |-> g, v |-> 1] :
            g \in {{"table.sort"}, {"other"}, {"table.sort", "other"}}}
    \cup {[kind |-> "prof", tags |-> {"table.sort"}, v |-> 2]}
    \cup {[kind |-> "comm", tags |-> g, v |-> 3] :
            g \in {{"table.aggregate"}, {"table.sort", "table.aggregate"}}}
    \cup {[kind |-> "sf", sf |-> 1, threads |-> t] : t \in {0, 2}}
    \cup {[kind |-> "preproc", v |-> 1], [kind |-> "other"]}

(* Lines of the communicator benchmarks' logs: experiment lines for two    *)
(* thread counts, headers announcing one or two samples, sample lines of  *)
(* one and of two distinct numbers, and other text; profiling lines with  *)
(* each time alone, the main-thread time alone or with the e2e time.      *)
LatencyLines ==
    {[kind |-> "exp", threads |-> t] : t \in {1, 2}}
    \cup {[kind |-> "hdr", vec |-> 8, count |-> c] : c \in {1, 2}}
    \cup {[kind |-> "nums", s |-> s] : s \in {<<2>>, <<3, 1>>}}
    \cup {[kind |-> "other"]}
ProfilingLines ==
    {[tags |-> {f}, v |-> 1] : f \in {"total", "comm", "run"}}
    \cup {[tags |-> {f}, v |-> v] : f \in {"e2e", "main"}, v \in {1, 2}}
    \cup {[tags |-> {"e2e", "main"}, v |-> 1], [tags |-> {}, v |-> 1]}

(* Matches of sort.py's two patterns: algorithm names containing neither, *)
(* one or both of "Quicksort" and "Radixsort", and profile times.        *)
SortPyMatches ==
    {[kind |-> "sort", words |-> w, t |-> 1] : w \in SUBSET {"Quicksort", "Radixsort"}}
    \cup {[kind |-> "sort", words |-> {"Quicksort"}, t |-> 2]}
    \cup {[kind |-> "prof", name |-> n, t |-> t] : <<n, t>> \in {<<"Open", 1>>, <<"Open", 2>>, <<"Shuffle", 1>>}}

\* One input size of sort.py: the lists are emptied for each size.
SortPySizes == {1000}

(* Lines of the readers that keep raw row counts: headers for 4 and 6     *)
(* rows (the same int(log2)) and 8 rows, times of Ours, AHI+22 or both,   *)
(* TotalOnline times, other text.                                         *)
RowCountLines ==
    {[kind |-> "rows", n |-> n] : n \in {4, 6, 8}}
    \cup {[kind |-> "ours", t |-> t] : t \in {1, 2}}
    \cup {[kind |-> "ahi", t |-> 1], [kind |-> "both", t |-> 1], [kind |-> "other"]}
TotalOnlineLines ==
    {[kind |-> "rows", n |-> n] : n \in {4, 6, 8}}
    \cup {[kind |-> "total", t |-> t] : t \in {1, 2}} \cup {[kind |-> "other"]}

(* The SecretFlow comparison's logs: one SecretFlow log over its line     *)
(* kinds, or a listing of ORQ logs named for 32b (no WAN part, or the     *)
(* 1Gbps one that is skipped), for 64b under 100Mbps, for a bitwidth the  *)
(* table lacks, or with no hyphen, with headers for a listed and an        *)
(* unlisted row count, radix and dummy-permutation times.                  *)
SecretflowLines ==
    {[kind |-> "size", n |-> 100000], [kind |-> "sbk", t |-> 2000],
     [kind |-> "valid", t |-> 3000], [kind |-> "perm", p |-> 5], [kind |-> "other"]}
OrqFiles ==
    {[prefix |-> "orq", bw |-> b, wan |-> w] :
        <<b, w>> \in {<<"32b", "none">>, <<"64b", "100Mbps">>, <<"32b", "1Gbps">>,
                      <<"16b", "none">>, <<None, "none">>}}
OrqLines ==
    {[kind |-> "rows", n |-> n] : n \in {100000, 7}}
    \cup {[kind |-> "radix", t |-> 50000], [kind |-> "dummy", t |-> 10000]}

(* The ORQ log of the SecretFlow query comparison: headers of two known   *)
(* queries and an unknown one, two Overall times, a dummy-permutation     *)
(* time, other text.                                                       *)
OrqQueryLines ==
    {[kind |-> "query", q |-> q] : q \in {"sf-q6", "sf-q1", "sf-q2"}}
    \cup {[kind |-> "overall", v |-> v] : v \in {5, 7}}
    \cup {[kind |-> "dummy", v |-> 1], [kind |-> "other"]}

(* plot-row-threads' lines: headers for two row counts at one thread     *)
(* count and one row count at another, two Quick times, other text.      *)
RowThreadsLines ==
    {[kind |-> "hdr", threads |-> t, rows |-> r] : <<t, r>> \in {<<4, 2>>, <<4, 3>>, <<9, 2>>}}
    \cup {[kind |-> "quick", t |-> t] : t \in {1, 2}} \cup {[kind |-> "other"]}

(* plot-multithreaded's lines: two thread counts, Radix and Quick times *)
(* 1 and 2, other text.                                                  *)
MultiThreadedLines ==
    {[kind |-> "thr", threads |-> h] : h \in {1, 2}}
    \cup {[kind |-> "sw", cat |-> c, t |-> t] : c \in {"Radix", "Quick"}, t \in {1, 2}}
    \cup {[kind |-> "other"]}

(* Query logs of a result directory: a run with an overall time of 1, 2  *)
(* or 3, a log with no SF; line (skipped), one with 0 threads (crash);    *)
(* named by stems that title() maps to one name (q1, Q1), numeric names   *)
(* that string order misplaces (q2, q10), a non-numeric one, a NAME_MAP   *)
(* entry and the metadata file.                                            *)
QueryDirFiles ==
    [stem : {"q1", "Q1", "q2", "q10", "q1-mod", "aspirin", "meta"},
     lines : {<<[kind |-> "sf", sf |-> 1, threads |-> 2], [kind |-> "overall", v |-> v]>> : v \in 1 .. 3}
             \cup {<<[kind |-> "overall", v |-> 1]>>,
                   <<[kind |-> "sf", sf |-> 1, threads |-> 0], [kind |-> "overall", v |-> 1]>>}]

(* The runs of a query at a scale factor behind plot-scaling: none, one  *)
(* of 1, 2 or 5 seconds, or two (1 and 2), for the three scaling queries  *)
(* at SF 1 and 10, and none or one for Q6 at SF 10, which -s filters out. *)
(* Overall times are positive.                                             *)
ScalingRuns ==
    [k \in {<<q, sf>> : q \in {"Q22", "Q12", "Q21"}, sf \in {1, 10}} |-> {<<>>, <<1>>, <<2>>, <<5>>, <<1, 2>>}]
    @@ (<<"Q6", 10>> :> {<<>>, <<1>>})

(* A directory's statistics for plot_geowan: for each of Q6 (not in      *)
(* QUERY_ORDER), Q8, Q11 and Q12, in sort_query_order, no row (0) or a    *)
(* median of 1 or 2.                                                       *)
GeoQueries == <<"Q6", "Q8", "Q11", "Q12">>
GeoStats(v) ==
    LET present == SelectSeq([i \in DOMAIN GeoQueries |-> i], LAMBDA i : v[i] # 0)
    IN [k \in DOMAIN present |-> [query |-> GeoQueries[present[k]],
                                  median |-> [num |-> v[present[k]], den |-> 1]]]

(* plot-threading trace rows: two threads, a task, a communication or a  *)
(* wait, starting at 0 or 1 for 1 or 2 time units (a "vec" row only feeds *)
(* the unplotted total_vec column).                                        *)
ThreadRows == [tid : {1, 2}, meta : {"", "comm", "wait"}, t : {0, 1}, e : {1, 2}]

(* plot-query-breakdown logs: a stem of a plotted query (q6 and Q6 are   *)
(* both Q6) or not (q1), at SF 1 or 10 on two threads, with no profile    *)
(* line or one sort or aggregate time, a sort communication of 0 or 1,    *)
(* and an overall time of 4 or 5.                                          *)
BreakdownLogs ==
    [stem : {"q6", "Q6", "q12", "q1"}, sf : {1, 10},
     prof : {[tag |-> "", v |-> 0]} \cup [tag : {"table.sort", "table.aggregate"}, v : {2, 3}],
     comm : {0, 1}, overall : {4, 5}]

\* The lines of such a log.
BreakdownFile(x) ==
    [stem |-> x.stem,
     lines |-> <<[kind |-> "sf", sf |-> x.sf, threads |-> 2]>>
               \o (IF x.prof.tag = "" THEN <<>>
                   ELSE <<[kind |-> "prof", tags |-> {x.prof.tag}, v |-> x.prof.v]>>)
               \o (IF x.comm = 0 THEN <<>>
                   ELSE <<[kind |-> "comm", tags |-> {"table.sort"}, v |-> x.comm]>>)
               \o <<[kind |-> "overall", v |-> x.overall]>>]

(* secrecy-comparison inputs: the script's own data, and every order of   *)
(* three experiments with times whose speedups fall below, at and above   *)
(* 10, and on a tie of either rounding (5 / 20, 25 / 2).                   *)
SecrecyNames == <<"Q4", "Q6", "Q13">>
SecrecyOrders == {o \in [1 .. 3 -> Range(SecrecyNames)] : Range(o) = Range(SecrecyNames)}

\* Every sequence of at most n elements of S.
SeqsUpTo(S, n) == UNION {[1 .. m -> S] : m \in 0 .. n}

\* The ORQ logs of the files O.
OrqFileLogs(O) ==
    {[prefix |-> o.prefix, bw |-> o.bw, wan |-> o.wan, lines |-> l] : o \in O, l \in SeqsUpTo(OrqLines, OrqFileLines)}

Logs(S) == UNION {[1 .. m -> S] : m \in 0 .. MaxLines}

VARIABLE log    \* [src: which script's input, lines: the log]

Init ==
    \/ \E l \in Logs(BwLines) : log = [src |-> "bw", lines |-> l]
    \/ \E l \in Logs(CensusLines) : log = [src |-> "census", lines |-> l]
    \/ \E runs \in [1 .. TableRuns -> UNION {[1 .. m -> SortMatches] : m \in 0 .. RunLines}] :
          log = [src |-> "tablesort", lines |-> runs]
    \/ \E l \in UNION {[1 .. m -> SecrecyKinds] : m \in 0 .. SecrecyLines} :
          log = [src |-> "secrecy", lines |-> l]
    \/ \E bs \in UNION {[1 .. m -> [hdr : BlockHeaders, body : UNION {[1 .. n -> BlockLines] : n \in 0 .. RunLines}]] :
                        m \in 0 .. SortBlocks} :
          log = [src |-> "sortgraphs", lines |-> bs]
    \/ \E l \in Logs(QueryLines) : log = [src |-> "query", lines |-> l]
    \/ \E k \in {"perms", "triples", "mpspdz"} :
          \E l \in Logs(CASE k = "perms" -> PermsKinds
                           [] k = "triples" -> TriplesKinds
                           [] k = "mpspdz" -> MpspdzKinds) :
             log = [src |-> k, lines |-> l]

    \/ \E fs \in SeqsUpTo([env : {"lan"}, lines : SeqsUpTo(LatencyLines, FileLines)], LogFiles) :
          log = [src |-> "latency", lines |-> fs]
    \/ \E fs \in SeqsUpTo(SeqsUpTo(ProfilingLines, FileLines), LogFiles) :
          log = [src |-> "profiling", lines |-> fs]
    \/ \E outs \in [SortPySizes -> [1 .. TableRuns -> SeqsUpTo(SortPyMatches, RunLines)]] :
          log = [src |-> "sortpy", lines |-> outs]
    \/ \E l \in SeqsUpTo(RowCountLines, SecrecyLines) : log = [src |-> "radix", lines |-> l]
    \/ \E l \in SeqsUpTo(TotalOnlineLines, SecrecyLines) : log = [src |-> "totalonline", lines |-> l]
    \/ \E l \in SeqsUpTo(SecretflowLines, SfLines) :
          log = [src |-> "secretflow",
                 lines |-> <<[prefix |-> "sf", bw |-> "sf", wan |-> "none", lines |-> l]>>]
    \/ \E fs \in SeqsUpTo(OrqFileLogs(OrqFiles), LogFiles) :
          log = [src |-> "secretflow", lines |-> fs]
    \/ \E l \in SeqsUpTo(OrqQueryLines, SecrecyLines) : log = [src |-> "sfqueries", lines |-> l]
    \/ \E fs \in SeqsUpTo(SeqsUpTo(RowThreadsLines, FileLines), LogFiles) :
          log = [src |-> "rowthreads", lines |-> fs]
    \/ \E fs \in SeqsUpTo(SeqsUpTo(MultiThreadedLines, FileLines), LogFiles) :
          log = [src |-> "multithreaded", lines |-> fs]
    \/ \E fs \in SeqsUpTo(QueryDirFiles, TableRuns + 1) : log = [src |-> "querydir", lines |-> fs]
    \/ \E v \in [1 .. 6 -> ScalingRuns[<<"Q22", 1>>]], v6 \in ScalingRuns[<<"Q6", 10>>] :
          LET keys == <<<<"Q22", 1>>, <<"Q22", 10>>, <<"Q12", 1>>, <<"Q12", 10>>, <<"Q21", 1>>, <<"Q21", 10>>>>
          IN log = [src |-> "scaling", lines |-> [k \in Range(keys) |-> v[CHOOSE i \in 1 .. 6 : keys[i] = k]]
                                                 @@ (<<"Q6", 10>> :> v6)]
    \/ \E sv, wv \in [DOMAIN GeoQueries -> 0 .. 2] :
          log = [src |-> "geowan", lines |-> <<GeoStats(sv), GeoStats(wv)>>]
    \/ \E l \in Logs(ThreadRows) : log = [src |-> "threading", lines |-> l]
    \/ \E l \in SeqsUpTo(BreakdownLogs, LogFiles) : log = [src |-> "breakdown", lines |-> l]
    \/ log = [src |-> "secrecycomp",
              lines |-> [names |-> Experiments, nsdi |-> NsdiTimes, current |-> CurrentTimes,
                         order |-> ExperimentsOrder]]
    \/ \E o \in SecrecyOrders, n \in [1 .. 3 -> {5, 20, 25}], c \in [1 .. 3 -> {2, 10, 20}] :
          log = [src |-> "secrecycomp", lines |-> [names |-> SecrecyNames, nsdi |-> n, current |-> c, order |-> o]]

Next == UNCHANGED log

Spec == Init /\ [][Next]_log

--------------------------------------------------------------------------
(* Sum of f[i] over a set of positions.                                   *)
SumOver(f, I) == FoldFunctionOnSet(+, 0, f, I)

\* The positions compute_costs should count: the table rows (" | " and at
\* least three fields) from the first "Op Counts" line on.
CountedRows(data) ==
    LET starts == {i \in DOMAIN data : data[i].start}
    IN IF starts = {} THEN {}
       ELSE {i \in DOMAIN data : i >= Min(starts) /\ data[i].sep /\ data[i].nf >= 3}

(* compute_costs' single flag implements "everything from the first 'Op   *)
(* Counts' line on": for every protocol it fails exactly when a counted   *)
(* row has no integer in its third field, and otherwise returns the cost  *)
(* of exactly the counted rows, each once.                                 *)
ComputeCostsMatchesReference ==
    log.src = "bw" =>
        \A proto \in {2, 3, 4} :
            LET data == log.lines
                r == ComputeCosts(data, proto)
                rows == CountedRows(data)
                bad == {i \in rows : data[i].bits = NaN}
            IN /\ r.err = (bad # {})
               /\ ~r.err =>
                    r.bits = SumOver([i \in DOMAIN data |->
                                 IF i \in rows THEN OpCost(proto, data[i].op) * data[i].bits
                                 ELSE 0], rows)

\* The (sf, q) a census line belongs to: the last header before it.
Owner(lines, i) ==
    LET hs == {j \in 1 .. i - 1 : lines[j].kind = "sf"}
    IN IF hs = {} THEN <<None, None>>
       ELSE <<lines[Max(hs)].sf, lines[Max(hs)].q>>

\* The events of a census that belong to key k, in file order.
EventsOf(lines, k) ==
    LET idx == SelectSeq([i \in DOMAIN lines |-> i],
                         LAMBDA i : lines[i].kind = "ev" /\ Owner(lines, i) = k)
    IN [j \in DOMAIN idx |-> lines[idx[j]].ev]

(* The cost the scaling plot uses for a query at a scale factor is that   *)
(* of the events printed after its header and before the next one: the    *)
(* measured Overall time when the first of them is one, else the sum of   *)
(* the model costs of its sorts, aggregations and divisions.  No event is *)
(* lost, and none is charged to another query or scale factor.            *)
CensusCostMatchesReference ==
    log.src = "census" =>
        LET ops == ParseCensus(log.lines, None)
            keys == {Owner(log.lines, i) : i \in {i \in DOMAIN log.lines :
                                                      log.lines[i].kind = "ev"}}
        IN /\ DOMAIN ops = keys
           /\ \A k \in keys :
                LET evs == EventsOf(log.lines, k)
                IN TotalCost(ops[k]) =
                     IF evs[1].t = "O" THEN evs[1].v
                     ELSE SumOver([j \in DOMAIN evs |-> EventCost(evs[j])], DOMAIN evs)

\* The value a run reports for metric m in the quicksort (q) or radixsort
\* profile: the last line naming m before (q) or after the run's first
\* Quicksort result.
ProfLines(out, m, q) ==
    {j \in DOMAIN out :
        /\ out[j].kind = "prof" /\ out[j].name = m
        /\ q = ~\E k \in 1 .. j - 1 : out[k].kind = "sort" /\ out[k].alg = "Quicksort"}

\* The average of metric m over the runs that report it.
ProfileReference(runs, m, q) ==
    LET has == {r \in DOMAIN runs : ProfLines(runs[r], m, q) # {}}
    IN [sum |-> SumOver([r \in has |-> runs[r][Max(ProfLines(runs[r], m, q))].t], has),
        cnt |-> Cardinality(has)]

\* The (run, position) pairs of the result lines of algorithm a.
ResultLines(runs, a) ==
    {p \in (DOMAIN runs) \X (1 .. RunLines) :
        p[2] \in DOMAIN runs[p[1]] /\ runs[p[1]][p[2]].kind = "sort"
        /\ runs[p[1]][p[2]].alg = a}

(* For a column count, table_sort's plots show, for each step name, the   *)
(* mean over the runs that print it of the time it took in quicksort      *)
(* (its last "[=PROFILE]" line before the run's "Table Quicksort" line)   *)
(* and in radixsort (after it); for each algorithm the mean of all its     *)
(* result lines; and the script stops at a division by zero exactly when   *)
(* an algorithm printed no result in any run.                              *)
TableSortMatchesReference ==
    log.src = "tablesort" =>
        LET runs == log.lines
            res == TableSortSection([i \in {1} |-> runs])
            printed == UNION {{runs[r][j].name : j \in {j \in DOMAIN runs[r] :
                                                           runs[r][j].kind = "prof"}} :
                              r \in DOMAIN runs}
            names(q) == {m \in printed : \E r \in DOMAIN runs : ProfLines(runs[r], m, q) # {}}
        IN /\ res.crash = \E a \in SortAlgs : ResultLines(runs, a) = {}
           /\ \A a \in SortAlgs :
                LET P == ResultLines(runs, a)
                IN res.times[a][1] = [sum |-> SumOver([p \in P |-> runs[p[1]][p[2]].t], P),
                                      cnt |-> Cardinality(P)]
           /\ res.quick[1] = [m \in names(TRUE) |-> ProfileReference(runs, m, TRUE)]
           /\ res.radix[1] = [m \in names(FALSE) |-> ProfileReference(runs, m, FALSE)]

\* The positions before j holding a line of one of the kinds K.
Before(L, j, K) == {i \in 1 .. j - 1 : L[i].kind \in K}

\* The size a line is filed under: that of the last line before it of the
\* kinds K, None if there is none or it is a "---".
KeyAt(L, j, K) ==
    IF Before(L, j, K) = {} THEN None
    ELSE LET h == L[Max(Before(L, j, K))] IN IF h.kind = "sep" THEN None ELSE h.e

\* The mean of field f over the lines J, by the size key(j) they are filed
\* under.
MeansBy(L, J, key(_), f) ==
    [k \in {key(j) : j \in J} |->
        LET Jk == {j \in J : key(j) = k}
        IN [sum |-> SumOver([j \in Jk |-> L[j][f]], Jk), cnt |-> Cardinality(Jk)]]

(* The sort times by size that a one-pass reader of ORQ's sort log must   *)
(* report: the mean, over the Quicksort / Radix Sort lines read under a   *)
(* header of that size, of the time printed less every preprocessing time *)
(* charged to it.  A preprocessing line is charged when the last sort     *)
(* line read, under any header, is of an algorithm in chargeable         *)
(* (Quicksort if none was read), and to the last line of that algorithm   *)
(* under a header of its own size; reading fails (IndexError) exactly     *)
(* when a charged line has none.                                           *)
SortTimesReference(L, chargeable) ==
    LET rows(j) == KeyAt(L, j, {"rows"})
        counted(j) == L[j].kind \in {"quick", "radix"} /\ rows(j) # None
        sorts(j) == {i \in 1 .. j - 1 : counted(i)}
        lastAlg(j) == IF sorts(j) = {} THEN "quick" ELSE L[Max(sorts(j))].kind
        charged(j) == L[j].kind = "preproc" /\ rows(j) # None /\ lastAlg(j) \in chargeable
        target(j) == {i \in sorts(j) : L[i].kind = lastAlg(j) /\ rows(i) = rows(j)}
        C == {j \in DOMAIN L : charged(j)}
        value(i) == L[i].t - SumOver([j \in C |-> L[j].t],
                                     {j \in C : target(j) # {} /\ Max(target(j)) = i})
        V == [i \in DOMAIN L |-> [t |-> IF counted(i) THEN value(i) ELSE 0]]
        times(a) == MeansBy(V, {i \in DOMAIN L : counted(i) /\ L[i].kind = a}, rows, "t")
    IN [crash |-> \E j \in C : target(j) = {}, quick |-> times("quick"), radix |-> times("radix")]

(* read_secrecy_data (both copies) charges 2-party preprocessing to radix *)
(* sorts only, read_2pc_data charges it to either algorithm, and          *)
(* read_hm_data reads no preprocessing: on every log each reports the     *)
(* reference times of the algorithms it returns, and fails where the      *)
(* reference fails.                                                        *)
SortTimesMatchReference ==
    log.src = "secrecy" =>
        LET L == log.lines
            ok(ref, r) == /\ r.crash = ref.crash
                          /\ ~r.crash => r.avg = ref.radix
        IN /\ \A np \in {2, 3} :
                LET ref == SortTimesReference(L, IF np = 2 THEN {"radix"} ELSE {})
                IN /\ ok(ref, ReadSecrecyData(L, np))
                   /\ ReadSecrecyDataSort(L, np) = ReadSecrecyData(L, np)
           /\ LET ref == SortTimesReference(L, {"quick", "radix"})
                 r == Read2pcData(L)
              IN /\ r.crash = ref.crash
                 /\ ~r.crash => r.quick = ref.quick /\ r.radix = ref.radix
           /\ LET ref == SortTimesReference(L, {})
              IN ReadHmData(L) = [quick |-> ref.quick, radix |-> ref.radix]

(* The other readers file each number under the size named by the last    *)
(* header before it: read_secrecy_preprocessed_perms under None after a   *)
(* "---" line, read_secrecy_preprocessed_triples failing exactly when a   *)
(* radix time precedes every header, read_mpspdz_data ignoring numbers    *)
(* before the first "Iteration" line.  Bandwidth and online time come     *)
(* from every "Spent" record, the offline time only from records whose    *)
(* offline part has its parenthesis.  Every copy of a reader agrees.      *)
ExponentParsersMatchReference ==
    LET L == log.lines
        lines(K) == {j \in DOMAIN L : L[j].kind \in K}
        perm(j) == KeyAt(L, j, {"sep", "iter"})
        triple(j) == KeyAt(L, j, {"rows"})
        iter(j) == KeyAt(L, j, {"iter"})
        spent == {j \in lines({"spent"}) : iter(j) # None}
    IN /\ log.src = "perms" =>
            /\ ReadPreprocessedPerms(L) = MeansBy(L, lines({"total"}), perm, "t")
            /\ ReadPreprocessedPermsSort(L) = ReadPreprocessedPerms(L)
            /\ ReadPreprocessedPermsShuffle(L) = ReadPreprocessedPerms(L)
       /\ log.src = "triples" =>
            LET r == ReadPreprocessedTriples(L)
            IN /\ r.crash = \E j \in lines({"radixpre"}) : triple(j) = None
               /\ ~r.crash => r.avg = MeansBy(L, lines({"radixpre"}), triple, "t")
               /\ ReadPreprocessedTriplesSort(L) = r
       /\ log.src = "mpspdz" =>
            /\ ReadMpspdzData(L) = MeansBy(L, spent, iter, "mb")
            /\ ReadMpspdzTimes(L).on = MeansBy(L, spent, iter, "on")
            /\ ReadMpspdzTimes(L).off = MeansBy(L, {j \in spent : L[j].full}, iter, "off")
            /\ ReadMpspdzTimesShuffle(L) = ReadMpspdzTimes(L)

(* parse_sorting_logs and compute_average_profiles give, for QUICKSORT and *)
(* RADIXSORT at each thread count, the mean of the "[ SW]" times of the   *)
(* blocks headed by that algorithm and count, and for each step name the   *)
(* mean, over those blocks that print it, of the last time the block      *)
(* prints for it; a thread count with no such block has no profile entry. *)
(* The script stops with KeyError exactly when such a block has a count   *)
(* outside its list.                                                       *)
SortGraphsMatchReference ==
    log.src = "sortgraphs" =>
        LET B == log.lines
            r == ParseSortingLogs(B)
            of(a, th) == {b \in DOMAIN B : B[b].hdr.sort /\ B[b].hdr.alg = a
                                          /\ B[b].hdr.threads = th}
            times(a, th) == {p \in (DOMAIN B) \X (1 .. RunLines) :
                              p[1] \in of(a, th) /\ p[2] \in DOMAIN B[p[1]].body
                              /\ B[p[1]].body[p[2]].kind = "sw"}
            profs(b, m) == {j \in DOMAIN B[b].body : B[b].body[j].kind = "prof"
                                                  /\ B[b].body[j].name = m}
            profile(a, th) ==
                LET has(m) == {b \in of(a, th) : profs(b, m) # {}}
                IN [m \in {m \in {"Open", "Shuffle"} : has(m) # {}} |->
                      [sum |-> SumOver([b \in has(m) |-> B[b].body[Max(profs(b, m))].t], has(m)),
                       cnt |-> Cardinality(has(m))]]
        IN /\ r.crash = \E b \in DOMAIN B : B[b].hdr.sort /\ Keyed(B[b].hdr.alg)
                                           /\ B[b].hdr.threads \notin SortThreads
           /\ ~r.crash =>
                \A a \in {"QUICKSORT", "RADIXSORT"} :
                   /\ \A th \in SortThreads :
                        Average(r.res[Which(a)][th]) =
                            [sum |-> SumOver([p \in times(a, th) |-> B[p[1]].body[p[2]].t], times(a, th)),
                             cnt |-> Cardinality(times(a, th))]
                   /\ ComputeAverageProfiles(r.prof[Which(a)]) =
                        [th \in {th \in SortThreads : of(a, th) # {}} |-> profile(a, th)]

(* The row parse_files makes of a query log holds, for each field, the    *)
(* value of the last line that carries it: the last Overall time (less    *)
(* the last preprocessing time for 2PC), for each profiled step the last  *)
(* "[=PROFILE]" and "[=COMM]" line naming it (None and 0 when none does), *)
(* the communication divided by the thread count of the last SF; line.   *)
(* A log without an SF; line or an Overall time, or named "meta", adds no *)
(* row, and a thread count of 0 stops the script.                          *)
QueryRowMatchesReference ==
    log.src = "query" =>
    \A name \in {"q6", "meta"}, twopc \in BOOLEAN :
        LET L == log.lines
            at(P(_)) == {j \in DOMAIN L : P(j)}
            last(P(_), none) == IF at(P) = {} THEN none ELSE L[Max(at(P))]
            overall == last(LAMBDA j : L[j].kind = "overall", None)
            sfLine == last(LAMBDA j : L[j].kind = "sf", None)
            pre == last(LAMBDA j : L[j].kind = "preproc", None)
            field(k, f, none) ==
                LET l == last(LAMBDA j : L[j].kind = k /\ \E s \in L[j].tags : Fields[s] = f, None)
                IN IF l = None THEN none ELSE l.v
            r == ParseQueryFile(name, L, twopc)
        IN CASE name = "meta" \/ sfLine = None \/ overall = None -> r = [status |-> "skip"]
             [] sfLine.threads = 0 -> r = [status |-> "crash"]
             [] OTHER ->
                  r = [status |-> "row",
                       overall |-> overall.v - (IF twopc /\ pre # None THEN pre.v ELSE 0),
                       time |-> [f \in {"sort", "agg", "other"} |-> field("prof", f, None)],
                       comm |-> [f \in {"sort", "agg", "other"} |->
                                   [num |-> field("comm", f, 0), den |-> sfLine.threads]],
                       sf |-> sfLine.sf]

\* The lexicographic order of (file, line) positions.
PosBefore(p, q) == p[1] < q[1] \/ (p[1] = q[1] /\ p[2] < q[2])

(* parse_files of the latency scripts gives one row per header, headers  *)
(* taken in file order and files in the order listed, holding the numbers *)
(* of the line after it, their mean, their upper median (a sample with at *)
(* most half of the samples below it and more than half at or below it)   *)
(* and, in thread-latency, the thread count of the last experiment line   *)
(* before it in its own file or in any file read before.  It fails        *)
(* exactly when some header ends its file, is not followed by numbers,    *)
(* announces another count or (thread-latency) follows no experiment      *)
(* line, and then with the failure of the first such header.              *)
LatencyRowsMatchReference ==
    log.src = "latency" =>
    \A withThreads \in BOOLEAN :
        LET F == log.lines
            pos == {p \in (DOMAIN F) \X (1 .. FileLines) : p[2] \in DOMAIN F[p[1]].lines}
            L(p) == F[p[1]].lines[p[2]]
            next(p) == F[p[1]].lines[p[2] + 1]
            exps(p) == {q \in pos : withThreads /\ PosBefore(q, p) /\ L(q).kind = "exp"}
            latest(S) == CHOOSE q \in S : \A q2 \in S : ~PosBefore(q, q2)
            hdrs == {p \in pos : L(p).kind = "hdr"}
            fault(p) == CASE p[2] = Len(F[p[1]].lines) -> "MissingData"
                          [] next(p).kind # "nums" -> "ValueError"
                          [] Len(next(p).s) # L(p).count -> "MissingSamples"
                          [] withThreads /\ exps(p) = {} -> "UnboundLocalError"
                          [] OTHER -> "ok"
            bad == {p \in hdrs : fault(p) # "ok"}
            ordered == SortSeq(SetAsSeq(hdrs), PosBefore)
            median(x) == CHOOSE m \in Range(x) :
                            /\ Cardinality({i \in DOMAIN x : x[i] < m}) <= Len(x) \div 2
                            /\ Len(x) \div 2 < Cardinality({i \in DOMAIN x : x[i] <= m})
            row(p) == LET x == next(p).s
                      IN [env |-> F[p[1]].env,
                          threads |-> IF withThreads THEN L(latest(exps(p))).threads ELSE None,
                          vec |-> L(p).vec, samples |-> x,
                          average |-> [sum |-> SumOver(x, DOMAIN x), cnt |-> Len(x)],
                          median |-> median(x)]
            r == IF withThreads THEN ParseThreadLatency(F) ELSE ParseBatchLatency(F)
        IN IF bad # {}
           THEN r = [crash |-> fault(CHOOSE p \in bad : \A q \in bad : ~PosBefore(q, p))]
           ELSE r = [crash |-> "ok", rows |-> [k \in DOMAIN ordered |-> row(ordered[k])]]

(* thread-profiling gives one row per "Main Thread other" line, in file   *)
(* order, holding for each other time the value of the last line of the  *)
(* same file, at or before it, that prints that time, and None when there *)
(* is none: a time printed after the main-thread line, or only in the     *)
(* file of another configuration, is never reported in its row.           *)
ProfilingRowsMatchReference ==
    log.src = "profiling" =>
        LET F == log.lines
            pos == {p \in (DOMAIN F) \X (1 .. FileLines) : p[2] \in DOMAIN F[p[1]]}
            mains == SortSeq(SetAsSeq({p \in pos : "main" \in F[p[1]][p[2]].tags}), PosBefore)
            time(p, f) == LET J == {j \in 1 .. p[2] : f \in F[p[1]][j].tags}
                          IN IF J = {} THEN None ELSE F[p[1]][Max(J)].v
        IN ParseThreadProfiling(F) =
             [k \in DOMAIN mains |->
                 [cfg |-> mains[k][1], main |-> F[mains[k][1]][mains[k][2]].v]
                 @@ [f \in ProfFields |-> time(mains[k], f)]]

(* sort.py averages, for each input size, every time of every run whose   *)
(* algorithm name contains "Quicksort", every time of a name containing   *)
(* "Radixsort" but not "Quicksort", and for each profile name every time  *)
(* printed for it, several in one run included; it stops with a division *)
(* by zero exactly when a size has no time of one of the two algorithms. *)
SortPyMatchesReference ==
    log.src = "sortpy" =>
        LET outs == log.lines
            pos(n) == {p \in (DOMAIN outs[n]) \X (1 .. RunLines) : p[2] \in DOMAIN outs[n][p[1]]}
            at(n, p) == outs[n][p[1]][p[2]]
            mean(n, S) == [sum |-> SumOver([p \in S |-> at(n, p).t], S), cnt |-> Cardinality(S)]
            sorts(n, w, notw) == {p \in pos(n) : at(n, p).kind = "sort" /\ w \in at(n, p).words
                                                /\ notw \notin at(n, p).words}
            quick(n) == sorts(n, "Quicksort", "none")
            radix(n) == sorts(n, "Radixsort", "Quicksort")
            profs(n, m) == {p \in pos(n) : at(n, p).kind = "prof" /\ at(n, p).name = m}
            names(n) == {at(n, p).name : p \in {p \in pos(n) : at(n, p).kind = "prof"}}
            r == SortPyParse(outs)
        IN /\ r.crash = \E n \in DOMAIN outs : quick(n) = {} \/ radix(n) = {}
           /\ r.quick = [n \in DOMAIN outs |-> mean(n, quick(n))]
           /\ r.radix = [n \in DOMAIN outs |-> mean(n, radix(n))]
           /\ r.prof = [n \in DOMAIN outs |-> [m \in names(n) |-> mean(n, profs(n, m))]]

(* The readers that key by raw row count give, for each exponent, the     *)
(* mean of the times read after a header of the count with that int(log2) *)
(* whose first entry came latest (its first header for read_data, its     *)
(* first counted TotalOnline time for the shuffle reader), counting every *)
(* header of that count and ignoring times before any header.  read_data  *)
(* gives 0 for a count without times, takes a line naming both tools for  *)
(* Ours, and fails exactly when a time precedes every header.             *)
RowCountReadersMatchReference ==
    LET L == log.lines
        cnt(j) == IF Before(L, j, {"rows"}) = {} THEN None ELSE L[Max(Before(L, j, {"rows"}))].n
        mean(J) == [sum |-> SumOver([j \in J |-> L[j].t], J), cnt |-> Cardinality(J)]
        latestOf(C, first(_), k) ==
            CHOOSE r \in C : Log2Floor(r) = k
                             /\ \A r2 \in C : Log2Floor(r2) = k => first(r2) <= first(r)
    IN /\ log.src = "totalonline" =>
            LET J == {j \in DOMAIN L : L[j].kind = "total" /\ cnt(j) # None}
                C == {cnt(j) : j \in J}
                first(r) == Min({j \in J : cnt(j) = r})
            IN ReadSecrecyDataShuffle(L) =
                 [k \in {Log2Floor(r) : r \in C} |->
                    mean({j \in J : cnt(j) = latestOf(C, first, k)})]
       /\ log.src = "radix" =>
            LET C == {L[j].n : j \in {j \in DOMAIN L : L[j].kind = "rows"}}
                first(r) == Min({j \in DOMAIN L : L[j].kind = "rows" /\ L[j].n = r})
                times(r, K) == {j \in DOMAIN L : L[j].kind \in K /\ cnt(j) = r}
                avg(r, K) == IF times(r, K) = {} THEN [sum |-> 0, cnt |-> 1] ELSE mean(times(r, K))
                res == ReadRadixData(L)
            IN IF \E j \in DOMAIN L : L[j].kind \in {"ours", "ahi", "both"} /\ cnt(j) = None
               THEN res = [crash |-> TRUE]
               ELSE res = [crash |-> FALSE,
                           ours |-> [k \in {Log2Floor(r) : r \in C} |->
                                       avg(latestOf(C, first, k), {"ours", "both"})],
                           ahi |-> [k \in {Log2Floor(r) : r \in C} |->
                                       avg(latestOf(C, first, k), {"ahi"})]]

(* plot-secretflow-comparison's parse_files gives, in listing and file    *)
(* order, one row per SortByKey time (with or without valid bits) of an   *)
(* "sf" log and per ORQ radix time directly followed by a dm-dummyperm    *)
(* time in an "orq" log that is not skipped, each with the row count of   *)
(* the last size line before it in its own file (None if none), an ORQ    *)
(* time being the radix time less the dummy-permutation time plus the     *)
(* table's permutation time.  It fails exactly when a SortByKey time has  *)
(* no permutation time among the five lines after it (IndexError when the *)
(* file ends first, else ValueError), an ORQ time has no table entry      *)
(* (KeyError), or an "orq" name has no bitwidth part, and then with the   *)
(* first such failure.                                                     *)
SecretflowRowsMatchReference ==
    log.src = "secretflow" =>
        LET F == log.lines
            pos == {p \in (DOMAIN F) \X (0 .. Max({SfLines, OrqFileLines})) : p[2] = 0 \/ p[2] \in DOMAIN F[p[1]].lines}
            L(p) == F[p[1]].lines[p[2]]
            fileLen(p) == Len(F[p[1]].lines)
            scanned(f) == F[f].prefix = "sf"
                          \/ (F[f].prefix = "orq" /\ F[f].bw # None /\ F[f].wan \in {"none", OrqWanBwConfig})
            lines(p) == p[2] > 0 /\ scanned(p[1])
            measure(p) ==
                /\ lines(p)
                /\ \/ F[p[1]].prefix = "sf" /\ L(p).kind \in {"sbk", "valid"}
                   \/ /\ F[p[1]].prefix = "orq" /\ L(p).kind = "radix"
                      /\ p[2] < fileLen(p) /\ F[p[1]].lines[p[2] + 1].kind = "dummy"
            size(p) == LET S == {j \in 1 .. p[2] - 1 : F[p[1]].lines[j].kind \in {"size", "rows"}}
                       IN IF S = {} THEN None ELSE F[p[1]].lines[Max(S)].n
            permAfter(p) == {j \in p[2] + 1 .. p[2] + 5 : j <= fileLen(p) /\ F[p[1]].lines[j].kind = "perm"}
            fault(p) ==
                CASE p[2] = 0 /\ F[p[1]].prefix = "orq" /\ F[p[1]].bw = None -> "IndexError"
                  [] measure(p) /\ F[p[1]].prefix = "sf" /\ permAfter(p) = {} ->
                        IF p[2] + 5 > fileLen(p) THEN "IndexError" ELSE "ValueError"
                  [] measure(p) /\ F[p[1]].prefix = "orq"
                     /\ (F[p[1]].bw \notin DOMAIN OrqPermTime
                         \/ size(p) \notin DOMAIN OrqPermTime[F[p[1]].bw]) -> "KeyError"
                  [] OTHER -> "ok"
            bad == {p \in pos : fault(p) # "ok"}
            rows == SortSeq(SetAsSeq({p \in pos : measure(p)}), PosBefore)
            row(p) ==
                IF F[p[1]].prefix = "sf"
                THEN [size |-> size(p), type |-> IF L(p).kind = "sbk" THEN "SCQL_SBK" ELSE "SCQL_SBK_valid",
                      time |-> [num |-> L(p).t, den |-> 1000]]
                ELSE [size |-> size(p), type |-> "ORQ_RS_" \o F[p[1]].bw,
                      time |-> [num |-> L(p).t - F[p[1]].lines[p[2] + 1].t
                                        + OrqPermTime[F[p[1]].bw][size(p)],
                                den |-> 100000]]
            r == ParseSecretflowFiles(F)
        IN IF bad # {}
           THEN r = [crash |-> fault(CHOOSE p \in bad : \A q \in bad : ~PosBefore(q, p))]
           ELSE r = [crash |-> "ok", rows |-> [k \in DOMAIN rows |-> row(rows[k])]]

(* The ORQ time plot-secretflow-queries.py reports for a query slot is    *)
(* the last Overall time printed before the end of the block of the last  *)
(* header naming that query, in whichever block it was printed (ot is     *)
(* never cleared), less the last dm-dummyperm time of that block (for the *)
(* first block, of the file up to its end), or 0 for none.  A slot no     *)
(* header names keeps 0, except that in a file without headers the last   *)
(* slot gets the file's last times through orq_times[-1]; a header with   *)
(* an unknown query name stops the script.                                 *)
OrqQueryTimesMatchReference ==
    log.src = "sfqueries" =>
        LET L == log.lines
            H == {j \in DOMAIN L : L[j].kind = "query"}
            end(h) == IF {j \in H : j > h} = {} THEN Len(L) + 1 ELSE Min({j \in H : j > h})
            lastIn(k, a, b) == LET J == {j \in DOMAIN L : a < j /\ j < b /\ L[j].kind = k}
                               IN IF J = {} THEN 0 ELSE L[Max(J)].v
            start(h) == IF h = Min(H) THEN 0 ELSE h
            blockTime(h) == lastIn("overall", 0, end(h)) - lastIn("dummy", start(h), end(h))
            slot(k) == {h \in H : QueryIndices[L[h].q] + 1 = k}
            r == ReadOrqQueryTimes(L)
        IN IF \E h \in H : L[h].q \notin DOMAIN QueryIndices
           THEN r = [crash |-> TRUE]
           ELSE r = [crash |-> FALSE,
                     times |-> [k \in 1 .. 5 |->
                                  CASE slot(k) # {} -> blockTime(Max(slot(k)))
                                    [] H = {} /\ k = 5 ->
                                         lastIn("overall", 0, Len(L) + 1) - lastIn("dummy", 0, Len(L) + 1)
                                    [] OTHER -> 0]]

(* plot-row-threads keeps, for each (threads, rows) pair, the value of    *)
(* the last block headed by it in the files in order: the smallest Quick  *)
(* time of the block's lines, up to the next header or the end of its     *)
(* file, per row, or inf when the block has none; earlier blocks of the   *)
(* pair, faster or not, are overwritten.  It fails exactly when some file *)
(* has no header.                                                          *)
RowThreadsMatchReference ==
    log.src = "rowthreads" =>
        LET F == log.lines
            pos == {p \in (DOMAIN F) \X (1 .. FileLines) : p[2] \in DOMAIN F[p[1]]}
            L(p) == F[p[1]][p[2]]
            hdrs == {p \in pos : L(p).kind = "hdr"}
            key(h) == <<L(h).threads, L(h).rows>>
            block(h) == {p \in pos : p[1] = h[1] /\ h[2] < p[2]
                                     /\ ~\E g \in hdrs : g[1] = h[1] /\ h[2] < g[2] /\ g[2] < p[2]}
            times(h) == {L(p).t : p \in {p \in block(h) : L(p).kind = "quick"}}
            value(h) == IF times(h) = {} THEN [inf |-> TRUE]
                        ELSE [inf |-> FALSE, num |-> Min(times(h)), den |-> L(h).rows]
            lastOf(k) == CHOOSE h \in hdrs : key(h) = k /\ \A g \in hdrs : key(g) = k => ~PosBefore(h, g)
            r == ReadRowThreads(F)
        IN IF \E f \in DOMAIN F : \A i \in DOMAIN F[f] : F[f][i].kind # "hdr"
           THEN r = [crash |-> TRUE]
           ELSE r = [crash |-> FALSE, data |-> [k \in {key(h) : h \in hdrs} |-> value(lastOf(k))]]

(* plot-multithreaded draws, over all files, the smallest mean of the     *)
(* Radix times filed under one thread count of one file, a Radix time     *)
(* before the file's first threads line counting under thread -1; inf    *)
(* when no file has a Radix time.                                          *)
FastestMatchesReference ==
    log.src = "multithreaded" =>
        LET F == log.lines
            pos == {p \in (DOMAIN F) \X (1 .. FileLines) : p[2] \in DOMAIN F[p[1]]}
            L(p) == F[p[1]][p[2]]
            threadAt(p) == LET hs == {q \in pos : q[1] = p[1] /\ q[2] < p[2] /\ L(q).kind = "thr"}
                           IN IF hs = {} THEN -1
                              ELSE L(CHOOSE q \in hs : \A g \in hs : g[2] <= q[2]).threads
            radix == {p \in pos : L(p).kind = "sw" /\ L(p).cat = "Radix"}
            bucket(f, h) == {p \in radix : p[1] = f /\ threadAt(p) = h}
            mean(B) == [sum |-> FoldSet(LAMBDA p, a : L(p).t + a, 0, B), cnt |-> Cardinality(B)]
            means == {mean(bucket(p[1], threadAt(p))) : p \in radix}
            r == FastestMultiThreaded(F)
        IN IF means = {} THEN r = [inf |-> TRUE]
           ELSE /\ ~r.inf
                /\ \E m \in means : m.sum * r.cnt = r.sum * m.cnt
                /\ \A m \in means : m.sum * r.cnt >= r.sum * m.cnt

(* parse_files over a result directory: without compute_median, the rows  *)
(* of the logs that have one, in stem order and renamed; with it, for     *)
(* every display name exactly one row, holding the median (the mean of    *)
(* the two middle runs for an even count), range and count of the overall *)
(* times of all logs whose stem maps to that name (q1 and Q1 pooled),     *)
(* "###" below three runs, the names ^Q\d+$ first by number and then the  *)
(* rest by name.  A log with 0 threads stops the whole parse.              *)
QueryStatsMatchReference ==
    log.src = "querydir" =>
    \A computeMedian \in BOOLEAN :
        LET F == log.lines
            kept == {i \in DOMAIN F : F[i].stem # "meta" /\ Len(F[i].lines) = 2}
            ov(i) == F[i].lines[2].v
            of(n) == {i \in kept : DisplayName(F[i].stem) = n}
            \* the k-th smallest overall time of the runs I, with multiplicity
            kth(I, k) == CHOOSE v \in {ov(i) : i \in I} :
                           Cardinality({i \in I : ov(i) < v}) < k /\ k <= Cardinality({i \in I : ov(i) <= v})
            median(I) == LET c == Cardinality(I) IN
                         IF c % 2 = 1 THEN [num |-> kth(I, (c + 1) \div 2), den |-> 1]
                         ELSE [num |-> kth(I, c \div 2) + kth(I, c \div 2 + 1), den |-> 2]
            names == {DisplayName(F[i].stem) : i \in kept}
        IN \A r \in {ParseQueryDir(F, computeMedian, FALSE)} :
           IF \E i \in kept : F[i].lines[1].threads = 0 THEN r = [crash |-> TRUE]
           ELSE /\ ~r.crash
                /\ ~computeMedian =>
                     /\ Len(r.df) = Cardinality(kept)
                     /\ \E perm \in [DOMAIN r.df -> kept] :
                          /\ Range(perm) = kept
                          /\ \A j \in DOMAIN r.df : [f \in {"query", "overall", "sf"} |-> r.df[j][f]] = [query |-> DisplayName(F[perm[j]].stem), overall |-> ov(perm[j]), sf |-> 1]
                          /\ \A j, k \in DOMAIN r.df : j < k => PyStrRank[F[perm[j]].stem] <= PyStrRank[F[perm[k]].stem]
                /\ computeMedian =>
                     /\ {r.df[j].query : j \in DOMAIN r.df} = names /\ Len(r.df) = Cardinality(names)
                     /\ \A j \in DOMAIN r.df :
                          LET I == of(r.df[j].query) IN
                          /\ r.df[j].median = median(I)
                          /\ r.df[j].range = Max({ov(i) : i \in I}) - Min({ov(i) : i \in I})
                          /\ r.df[j].count = Cardinality(I) /\ r.df[j].flag = (Cardinality(I) < 3)
                          /\ r.df[j].medSort = 0 /\ r.df[j].medAgg = 0
                     /\ \A j, k \in DOMAIN r.df : j < k =>
                          LET a == r.df[j].query b == r.df[k].query IN
                          \/ a \in DOMAIN QueryNumber /\ b \notin DOMAIN QueryNumber
                          \/ a \in DOMAIN QueryNumber /\ QueryNumber[a] < QueryNumber[b]
                          \/ {a, b} \cap DOMAIN QueryNumber = {} /\ PyStrRank[a] < PyStrRank[b]

(* plot-scaling with -s labels each scaling query, in SCALING_QUERIES     *)
(* order, with the integer nearest its SF 10 / SF 1 median ratio, a tie   *)
(* (2.5, 0.5) going to the even integer, under a bar of its SF 10 median  *)
(* in minutes; it stops with KeyError when a scaling query has no SF 10   *)
(* run, else with ValueError when one has no SF 1 run.  Without -s it    *)
(* draws every query with SF 10 runs, by increasing SF 10 median, its    *)
(* ratio NaN when it has no SF 1 run.  A median of at most two runs is    *)
(* their mean.                                                              *)
ScalingMatchesReference ==
    log.src = "scaling" =>
        LET runs == log.lines
            keys == SetAsSeq(DOMAIN runs)
            df == FoldLeft(LAMBDA acc, k : acc \o [i \in DOMAIN runs[k] |->
                               [query |-> k[1], sf |-> k[2], overall |-> runs[k][i]]],
                           <<>>, keys)
            med(k) == [num |-> FoldSeq(+, 0, runs[k]), den |-> Len(runs[k])]
            has(q, sf) == <<q, sf>> \in DOMAIN runs /\ runs[<<q, sf>>] # <<>>
            Q == ScalingQueries
            nearest(x) == CHOOSE n \in 0 .. x.num :
                             \A n2 \in 0 .. x.num :
                                LET d == x.num - n * x.den  d2 == x.num - n2 * x.den
                                    a == IF d < 0 THEN -d ELSE d  a2 == IF d2 < 0 THEN -d2 ELSE d2
                                IN a < a2 \/ (a = a2 /\ n % 2 = 0)  \/ n = n2
            rs == ScalingMain(df, TRUE).plot
            rl == ScalingMain(df, FALSE).plot
            lanQs == {k[1] : k \in {k \in DOMAIN runs : k[2] = 10 /\ runs[k] # <<>>}}
        IN /\ CASE \E i \in DOMAIN Q : ~has(Q[i], 10) -> rs = [crash |-> "KeyError"]
                [] \E i \in DOMAIN Q : ~has(Q[i], 1) -> rs = [crash |-> "ValueError"]
                [] OTHER ->
                     /\ rs.crash = "ok"
                     /\ \A i \in DOMAIN Q :
                          LET m10 == med(<<Q[i], 10>>) m1 == med(<<Q[i], 1>>) IN
                          /\ rs.minutes[i].num * 60 * m10.den = m10.num * rs.minutes[i].den
                          /\ rs.labels[i] = nearest([num |-> m10.num * m1.den, den |-> m10.den * m1.num])
           /\ {rl[i].query : i \in DOMAIN rl} = lanQs /\ Len(rl) = Cardinality(lanQs)
           /\ \A i \in DOMAIN rl :
                LET q == rl[i].query m10 == med(<<q, 10>>) IN
                /\ rl[i].median10.num * m10.den = m10.num * rl[i].median10.den
                /\ rl[i].scaling.nan = ~has(q, 1)
                /\ has(q, 1) => rl[i].scaling.num * med(<<q, 1>>).num * m10.den
                                  = m10.num * med(<<q, 1>>).den * rl[i].scaling.den
           /\ \A i, j \in DOMAIN rl : i < j =>
                med(<<rl[i].query, 10>>).num * med(<<rl[j].query, 10>>).den
                  <= med(<<rl[j].query, 10>>).num * med(<<rl[i].query, 10>>).den

(* plot_geowan draws one bar per QUERY_ORDER query of the real-WAN data,  *)
(* in QUERY_ORDER, at its median in minutes.  When both directories list  *)
(* the same queries, the ratio Series gives bar i exactly its query's     *)
(* real / simulated median ratio.  Otherwise it is indexed by the union   *)
(* of the two directories' row positions, pairing whatever rows share a   *)
(* position (NaN where one side has none), in bar order if both put their *)
(* rows at the same positions in the same order and in increasing         *)
(* position otherwise, so a label can sit under another query's bar.      *)
(* bar_label raises AttributeError exactly when the simulated directory   *)
(* has a QUERY_ORDER row at a position where the real-WAN one has none,   *)
(* so that the Series holds more labels than there are bars.              *)
GeoWanRatioMatchesReference ==
    log.src = "geowan" =>
        LET sim == log.lines[1]
            wan == log.lines[2]
            r == GeoWanSubplot(sim, wan)
            QO == Range(QueryOrder)
            pos(t) == {i \in DOMAIN t : t[i].query \in QO}
            wq == {wan[i].query : i \in pos(wan)}
            rowOf(t, q) == CHOOSE i \in DOMAIN t : t[i].query = q
            U == pos(sim) \cup pos(wan)
            rank(t, i) == CategoryRank(t[i].query)
            \* both Series carry the same labels in the same order
            sameOrder == pos(sim) = pos(wan) /\ \A i, j \in pos(wan) : rank(sim, i) < rank(sim, j) <=> rank(wan, i) < rank(wan, j)
        IN /\ Len(r.bars) = Cardinality(wq)
           /\ \A i \in DOMAIN r.bars :
                /\ r.bars[i].query \in wq
                /\ r.bars[i].median.num * 60 * wan[rowOf(wan, r.bars[i].query)].median.den
                     = wan[rowOf(wan, r.bars[i].query)].median.num * r.bars[i].median.den
                /\ \A j \in DOMAIN r.bars : i < j =>
                     \E a, b \in DOMAIN QueryOrder : a < b /\ QueryOrder[a] = r.bars[i].query
                                                   /\ QueryOrder[b] = r.bars[j].query
           /\ {sim[i].query : i \in DOMAIN sim} = {wan[i].query : i \in DOMAIN wan} =>
                /\ Len(r.ratio) = Len(r.bars)
                /\ \A i \in DOMAIN r.bars :
                     LET q == r.bars[i].query IN
                     /\ ~r.ratio[i].nan
                     /\ r.ratio[i].num * sim[rowOf(sim, q)].median.num * wan[rowOf(wan, q)].median.den
                          = r.ratio[i].den * wan[rowOf(wan, q)].median.num * sim[rowOf(sim, q)].median.den
           /\ r.crash = (pos(sim) \ pos(wan) # {})
           /\ {sim[i].query : i \in DOMAIN sim} # {wan[i].query : i \in DOMAIN wan} /\ ~r.crash =>
                /\ Len(r.ratio) = Cardinality(U)
                /\ \A k \in DOMAIN r.ratio :
                     LET l == r.ratio[k].idx IN
                     /\ l + 1 \in U
                     /\ \A k2 \in DOMAIN r.ratio : k < k2 =>
                          IF sameOrder THEN rank(wan, l + 1) < rank(wan, r.ratio[k2].idx + 1)
                          ELSE l < r.ratio[k2].idx
                     /\ r.ratio[k].nan = (l + 1 \notin pos(sim) \cap pos(wan))
                     /\ ~r.ratio[k].nan =>
                          r.ratio[k].num * sim[l + 1].median.num * wan[l + 1].median.den
                            = r.ratio[k].den * wan[l + 1].median.num * sim[l + 1].median.den

(* plot-threading stacks, for each thread, run + other + communication +  *)
(* wait.  It crashes exactly when the trace has no wait row, and then     *)
(* draws one bar per thread: the main thread (the one of the first wait   *)
(* row) first, the others by id.  Time starts at the first task, and a    *)
(* row starting earlier counts for nothing.  The main thread's bar is     *)
(* the end-to-end time when it ran a task and 0 otherwise, with its own  *)
(* waits as its wait.  A worker's bar is e2e less its own waits when it   *)
(* ran a task and minus its own waits otherwise, so it reaches e2e only   *)
(* when it ran a task and never waited itself.                            *)
ThreadingBarsMatchReference ==
    log.src = "threading" =>
        \A r \in {ThreadingSummary(log.lines)} :
        LET df == log.lines
            W == {i \in DOMAIN df : df[i].meta = "wait"}
            T == {i \in DOMAIN df : df[i].meta = ""}
        IN IF W = {} THEN r.crash
           ELSE
           LET main == df[Min(W)].tid
               others == SortSeq(SetAsSeq({df[i].tid : i \in DOMAIN df} \ {main}), <)
               thr(m) == IF m = 0 THEN main ELSE others[m]
               t0 == Min({df[i].t : i \in T})
               el(i) == IF df[i].t < t0 THEN 0 ELSE df[i].e
               own(m, c) == FoldSet(LAMBDA i, a : el(i) + a, 0,
                                    {i \in DOMAIN df : df[i].tid = thr(m) /\ df[i].meta = c})
               ran(m) == \E i \in T : df[i].tid = thr(m)
               e2e == Max({df[i].t - t0 + el(i) : i \in DOMAIN df})
               height(m) == r.bars[m].run + r.bars[m].other + r.bars[m].comm + r.bars[m].wait
           IN /\ ~r.crash
              /\ DOMAIN r.bars = 0 .. Len(others)
              /\ T = {} => r.e2e = None /\ r.mainOther = None
              /\ T # {} =>
                   /\ r.e2e = e2e
                   /\ r.mainOther = e2e - own(0, "")
                   /\ r.bars[0].wait = own(0, "wait")
                   /\ height(0) = IF ran(0) THEN e2e ELSE 0
                   /\ \A m \in 1 .. Len(others) :
                        height(m) = IF ran(m) THEN e2e - own(m, "wait") ELSE 0 - own(m, "wait")

(* plot-query-breakdown draws one bar group per plotted query with an SF  *)
(* 10 log, in Python string order (Q12 before Q6).  Each column of a      *)
(* group comes from the earliest of its logs, in stem then glob order,    *)
(* that has a value in that column.  So a bar can show one log's sort or *)
(* aggregate time over another log's overall time.  Each exec part is    *)
(* that time less the communication divided by the thread count.         *)
QueryBreakdownMatchesReference ==
    log.src = "breakdown" =>
        \A data \in {ParseQueryDir([i \in DOMAIN log.lines |-> BreakdownFile(log.lines[i])], FALSE, FALSE)} :
        \A r \in {QueryBreakdown(data)} :
        LET L == log.lines
            name(i) == Title[L[i].stem]
            kept == {i \in DOMAIN L : name(i) \in PlotQueries /\ L[i].sf = 10}
            before(i, j) == PyStrRank[L[i].stem] < PyStrRank[L[j].stem]
                            \/ (L[i].stem = L[j].stem /\ i < j)
            earliest(I) == CHOOSE i \in I : \A j \in I \ {i} : before(i, j)
            time(i, c) == IF L[i].prof.tag = c THEN L[i].prof.v ELSE None
            firstTime(n, c) ==
                LET I == {i \in kept : name(i) = n /\ time(i, c) # None}
                IN IF I = {} THEN None ELSE time(earliest(I), c)
        IN /\ ~r.crash
           /\ {r.bars[k].query : k \in DOMAIN r.bars} = {name(i) : i \in kept}
           /\ Len(r.bars) = Cardinality({name(i) : i \in kept})
           /\ \A k \in DOMAIN r.bars :
                LET b == r.bars[k]
                    e == earliest({i \in kept : name(i) = b.query})
                IN /\ \A k2 \in DOMAIN r.bars : k < k2 => PyStrRank[b.query] < PyStrRank[r.bars[k2].query]
                   /\ b.overall = L[e].overall
                   /\ b.sort_comm = [num |-> L[e].comm, den |-> 2]
                   /\ b.sort = firstTime(b.query, "table.sort")
                   /\ b.agg = firstTime(b.query, "table.aggregate")
                   /\ b.other = None
                   /\ b.sort # None => b.sort_exec.num * 2 = (2 * b.sort - L[e].comm) * b.sort_exec.den

(* secrecy-comparison puts each experiment's Secrecy and ORQ times, in    *)
(* minutes, over its own name in experiments_order.  The label on its     *)
(* Secrecy bar is its own speedup: to one decimal (within 0.05) when the  *)
(* speedup is at most 10, and to the nearest integer (within 0.5) when it *)
(* is at least 10.  This holds because the names are reordered only after *)
(* the times, which reorder_list looks up in them.                        *)
SecrecyLabelsMatchReference ==
    log.src = "secrecycomp" =>
        LET x == log.lines IN
        \A r \in {SecrecyBars(x.names, x.nsdi, x.current, x.order)} :
           /\ DOMAIN r = DOMAIN x.order
           /\ \A k \in DOMAIN r :
                LET j == CHOOSE j \in DOMAIN x.names : x.names[j] = x.order[k]
                    n == x.nsdi[j]
                    c == x.current[j]
                IN /\ r[k].name = x.order[k]
                   /\ r[k].secrecy = [num |-> n, den |-> 60]
                   /\ r[k].orq = [num |-> c, den |-> 60]
                   /\ r[k].labels # {}
                   /\ \A l \in r[k].labels :
                        IF l.dp = 1 THEN n <= 10 * c /\ 2 * (l.v * c - 10 * n) \in -c .. c
                        ELSE n >= 10 * c /\ 2 * (l.v * c - n) \in -c .. c

=============================================================================
