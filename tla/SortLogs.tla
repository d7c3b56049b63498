------------------------------ MODULE SortLogs ------------------------------
(***************************************************************************)
(* The output parsing of the sort benchmark drivers: scripts/plot/         *)
(* table_sort.py, which runs micro_tablesort num_runs times per column     *)
(* count and attributes each "[=PROFILE]" line to quicksort or radixsort   *)
(* by where it falls in the run's output.                                  *)
(*                                                                         *)
(* A run's output is abstracted to the sequence regex_pattern.findall      *)
(* returns: a sort result [kind |-> "sort", alg, t] or a profiling result  *)
(* [kind |-> "prof", name, t].  A dict is a function; an average is the    *)
(* pair [sum, cnt] it divides, so that no rounding enters.                 *)
(***************************************************************************)
EXTENDS PyDicts

\* The algorithms whose times the script keeps, in the order of its elif.
SortAlgs == {"Bitonicsort", "Quicksort", "Radixsort"}


\* The body of `for match in sort_matches` (table_sort.py lines 78-96):
\* times by algorithm, this run's two profile dicts and the flag.
MatchStep(st, m) ==
    IF m.kind = "sort"
    THEN IF m.alg \in SortAlgs
         THEN [st EXCEPT !.times[m.alg] = Append(@, m.t),
                         !.radix = @ \/ m.alg = "Quicksort"]
         ELSE st
    ELSE IF ~st.radix THEN [st EXCEPT !.qprof = Put(@, m.name, m.t)]
                      ELSE [st EXCEPT !.rprof = Put(@, m.name, m.t)]

\* The run loop with `radixsort = False` done once per column instead of
\* once per run.
RunStepFlagOnce(st, out) ==
    LET r == FoldLeft(MatchStep, [times |-> st.times, qprof |-> <<>>,
                                  rprof |-> <<>>, radix |-> st.radix], out)
    IN [times |-> r.times, radix |-> r.radix,
        qprofs |-> Append(st.qprofs, r.qprof),
        rprofs |-> Append(st.rprofs, r.rprof)]

\* One iteration of `for run in range(num_runs)` (lines 56-96): two fresh
\* profile dicts, the flag cleared, the run's matches scanned in order.
RunStep(st, out) ==
    LET r == FoldLeft(MatchStep, [times |-> st.times, qprof |-> <<>>,
                                  rprof |-> <<>>, radix |-> FALSE], out)
    IN [times |-> r.times, radix |-> r.radix,
        qprofs |-> Append(st.qprofs, r.qprof),
        rprofs |-> Append(st.rprofs, r.rprof)]

\* One column count i (lines 48-96): outs is the sequence of its runs'
\* outputs.
ColumnRuns(outs) ==
    FoldLeft(RunStep, [times |-> [a \in SortAlgs |-> <<>>], radix |-> FALSE,
                       qprofs |-> <<>>, rprofs |-> <<>>], outs)


\* calculate_averages for one key (lines 104-114): every metric of every
\* run, appended in run order, then averaged.
MetricAverages(runs) ==
    LET lists == FoldLeft(LAMBDA acc, run :
                             [m \in DOMAIN acc \cup DOMAIN run |->
                                 (IF m \in DOMAIN acc THEN acc[m] ELSE <<>>)
                                 \o (IF m \in DOMAIN run THEN <<run[m]>> ELSE <<>>)],
                          <<>>, runs)
    IN [m \in DOMAIN lists |-> Average(lists[m])]

\* calculate_averages(profiling_data), lines 102-116.
CalculateAverages(profiling) ==
    [key \in DOMAIN profiling |-> MetricAverages(profiling[key])]

(* What the single-column section computes (lines 47-119) for outs, a     *)
(* function from column count to the outputs of its runs: the averages of  *)
(* the sort times and of the two profiles.  crash: a division by zero at  *)
(* lines 98-100, an algorithm with no result line for some column count.  *)
TableSortSection(outs) ==
    LET col == [i \in DOMAIN outs |-> ColumnRuns(outs[i])]
    IN [crash |-> \E i \in DOMAIN outs, a \in SortAlgs : col[i].times[a] = <<>>,
        times |-> [a \in SortAlgs |-> [i \in DOMAIN outs |-> Average(col[i].times[a])]],
        quick |-> CalculateAverages([i \in DOMAIN outs |-> col[i].qprofs]),
        radix |-> CalculateAverages([i \in DOMAIN outs |-> col[i].rprofs])]

\* The multi-column section (lines 181-245) repeats the single-column one
\* with another command line.
TableSortMultiSection(outs) == TableSortSection(outs)

(************************* plot/sort-graphs.py ****************************)
(* parse_sorting_logs splits the log at "STARTING-"; a block is its header *)
(* ([sort |-> FALSE] when "SORT" is not in it, else the algorithm and the  *)
(* THREADS= count) and its lines after it ("sw": a "[ SW]" total time;     *)
(* "prof": a "[=PROFILE]" line).                                           *)

\* threads = [1, 2, 4, 8, 16]: the keys of q_results, r_results, ...
SortThreads == {1, 2, 4, 8, 16}

\* The dict an algorithm's results go to: QUICKSORT to q_, RADIXSORT to r_.
Keyed(alg) == alg \in {"QUICKSORT", "RADIXSORT"}
Which(alg) == IF alg = "QUICKSORT" THEN "q" ELSE "r"

\* The body of `for line in lines[1:]` (lines 30-41); st.pm is profile_map.
\* q_results[threads] raises KeyError for a count not in threads.
BlockLineStep(alg, th, st, l) ==
    IF st.crash THEN st
    ELSE CASE l.kind = "sw" /\ Keyed(alg) ->
                IF th \notin SortThreads THEN [st EXCEPT !.crash = TRUE]
                ELSE [st EXCEPT !.res[Which(alg)][th] = Append(@, l.t)]
           [] l.kind = "prof" -> [st EXCEPT !.pm = Put(@, l.name, l.t)]
           [] OTHER -> st

\* A block with profile_map carried over from the block before.
BlockStepSharedMap(st, b) ==
    IF st.crash \/ ~b.hdr.sort THEN st
    ELSE LET alg == b.hdr.alg
             th == b.hdr.threads
             r == FoldLeft(LAMBDA x, l : BlockLineStep(alg, th, x, l), st, b.body)
         IN IF r.crash \/ ~Keyed(alg) THEN r
            ELSE IF th \notin SortThreads THEN [r EXCEPT !.crash = TRUE]
            ELSE [r EXCEPT !.prof[Which(alg)][th] = Append(@, r.pm)]

\* One block of `for block in blocks` (lines 19-46): skipped unless its
\* header names a sort; a fresh profile_map, appended to the algorithm's
\* profiling list after the block's lines.
BlockStep(st, b) ==
    IF st.crash \/ ~b.hdr.sort THEN st
    ELSE LET alg == b.hdr.alg
             th == b.hdr.threads
             r == FoldLeft(LAMBDA x, l : BlockLineStep(alg, th, x, l),
                           [st EXCEPT !.pm = <<>>], b.body)
         IN IF r.crash \/ ~Keyed(alg) THEN r
            ELSE IF th \notin SortThreads THEN [r EXCEPT !.crash = TRUE]
            ELSE [r EXCEPT !.prof[Which(alg)][th] = Append(@, r.pm)]

\* parse_sorting_logs(file_path), lines 13-46, from the module-level
\* dicts of lines 8-11.
ParseSortingLogs(blocks) ==
    LET empty == [a \in {"q", "r"} |-> [th \in SortThreads |-> <<>>]]
    IN FoldLeft(BlockStep, [res |-> empty, prof |-> empty, pm |-> <<>>,
                            crash |-> FALSE], blocks)

\* compute_average_profiles(profiling_data), lines 48-61: only the thread
\* counts that have profiles.
ComputeAverageProfiles(profiling) ==
    [th \in {t \in DOMAIN profiling : profiling[t] # <<>>} |->
        MetricAverages(profiling[th])]

(***************************** old-paper/sort.py ***************************)
(* A run's output is abstracted to the matches of its two patterns, in    *)
(* order: [kind |-> "sort", words, t], words being which of "Quicksort"   *)
(* and "Radixsort" the algorithm's name contains, and [kind |-> "prof",   *)
(* name, t].                                                              *)

\* Profile times kept only as the run's own dict: the last time of each
\* name in the run.
SortPyRunStepLastPerRun(st, out) ==
    LET sorts == SelectSeq(out, LAMBDA m : m.kind = "sort")
        profs == SelectSeq(out, LAMBDA m : m.kind = "prof")
        q == FoldLeft(LAMBDA x, m :
                         IF "Quicksort" \in m.words THEN [x EXCEPT !.quick = Append(@, m.t)]
                         ELSE IF "Radixsort" \in m.words THEN [x EXCEPT !.radix = Append(@, m.t)]
                         ELSE x, st, sorts)
        runProfile == FoldLeft(LAMBDA d, m : Put(d, m.name, m.t), <<>>, profs)
    IN FoldLeft(LAMBDA x, n : [x EXCEPT !.prof = Append1(@, n, runProfile[n])], q,
                SetAsSeq(DOMAIN runProfile))

\* One run (lines 48-82): the sort matches by the substring test of the
\* if/elif, then every profile match appended to the size's list for its
\* name (run_profile is built and never read).
SortPyRunStep(st, out) ==
    LET sorts == SelectSeq(out, LAMBDA m : m.kind = "sort")
        profs == SelectSeq(out, LAMBDA m : m.kind = "prof")
        q == FoldLeft(LAMBDA x, m :
                         IF "Quicksort" \in m.words THEN [x EXCEPT !.quick = Append(@, m.t)]
                         ELSE IF "Radixsort" \in m.words THEN [x EXCEPT !.radix = Append(@, m.t)]
                         ELSE x, st, sorts)
    IN FoldLeft(LAMBDA x, m : [x EXCEPT !.prof = Append1(@, m.name, m.t)], q, profs)

\* The script (lines 37-89) for outs, a function from input size to its
\* runs' outputs: the lists emptied per size, then the three averages;
\* the comprehensions of lines 85-86 divide by zero for a size with no
\* Quicksort or no Radixsort time (crash).
SortPyParse(outs) ==
    LET d == [n \in DOMAIN outs |->
                FoldLeft(SortPyRunStep, [quick |-> <<>>, radix |-> <<>>, prof |-> <<>>], outs[n])]
    IN [crash |-> \E n \in DOMAIN outs : d[n].quick = <<>> \/ d[n].radix = <<>>,
        quick |-> [n \in DOMAIN outs |-> Average(d[n].quick)],
        radix |-> [n \in DOMAIN outs |-> Average(d[n].radix)],
        prof |-> [n \in DOMAIN outs |-> Averages(d[n].prof)]]

=============================================================================
