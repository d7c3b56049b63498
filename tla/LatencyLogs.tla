----------------------------- MODULE LatencyLogs -----------------------------
(***************************************************************************)
(* parse_files of the communicator benchmarks' process-and-plot.py        *)
(* scripts: benchmarks/communicator/batch-latency, scripts/comm/           *)
(* thread-latency and benchmarks/communicator/thread-profiling.  A file is *)
(* [env, lines], and the files come in the order os.listdir returns them. *)
(*                                                                         *)
(* A latency log line is abstracted to the pattern it matches: "exp"       *)
(* (the "==== N rows; T threads ====" line, threads), "hdr" (the "Vector: *)
(* n x wb | Sample count: c | Communicator: ..." line, vec and count),     *)
(* "nums" (a line of comma-separated numbers, s), "other".                 *)
(***************************************************************************)
EXTENDS PyDicts

\* The loop body without the sample-count check.
LatencyLineStepNoCountCheck(withThreads, file, st, i) ==
    LET L == file.lines
        l == L[i]
        next == L[i + 1]
    IN CASE st.crash # "ok" -> st
         [] l.kind = "exp" /\ withThreads -> [st EXCEPT !.threads = l.threads]
         [] l.kind # "hdr" -> st
         [] i + 1 > Len(L) -> [st EXCEPT !.crash = "MissingData"]
         [] next.kind # "nums" -> [st EXCEPT !.crash = "ValueError"]
         [] withThreads /\ st.threads = None -> [st EXCEPT !.crash = "UnboundLocalError"]
         [] OTHER ->
              [st EXCEPT !.rows = Append(@, [env |-> file.env, threads |-> st.threads,
                                             vec |-> l.vec, samples |-> next.s])]

\* The body of `for i, line in enumerate(lines)` (thread-latency lines
\* 31-50; batch-latency lines 30-45, which has no experiment pattern).  The
\* header's samples are the next line; the first failure raises out of
\* parse_files: "Missing data" at the end of the file, float() on a line
\* that is not numbers, "Missing samples" on a wrong count, and
\* UnboundLocalError for threads when no experiment line was read yet.
LatencyLineStep(withThreads, file, st, i) ==
    LET L == file.lines
        l == L[i]
        next == L[i + 1]
    IN CASE st.crash # "ok" -> st
         [] l.kind = "exp" /\ withThreads -> [st EXCEPT !.threads = l.threads]
         [] l.kind # "hdr" -> st
         [] i + 1 > Len(L) -> [st EXCEPT !.crash = "MissingData"]
         [] next.kind # "nums" -> [st EXCEPT !.crash = "ValueError"]
         [] Len(next.s) # l.count -> [st EXCEPT !.crash = "MissingSamples"]
         [] withThreads /\ st.threads = None -> [st EXCEPT !.crash = "UnboundLocalError"]
         [] OTHER ->
              [st EXCEPT !.rows = Append(@, [env |-> file.env, threads |-> st.threads,
                                             vec |-> l.vec, samples |-> next.s])]

\* sorted(x)[len(x) // 2]: the upper median for an even count.
MedianLatency(x) == SortSeq(x, <)[Len(x) \div 2 + 1]

\* parse_files (thread-latency lines 18-60, batch-latency 17-55): the rows
\* with their average and median latency, or the failure.  threads is a
\* local of the whole function, so it is carried from file to file.
ParseLatencyFiles(files, withThreads) ==
    LET fileStep(s, f) ==
            FoldLeft(LAMBDA x, i : LatencyLineStep(withThreads, f, x, i), s,
                     [i \in 1 .. Len(f.lines) |-> i])
        st == FoldLeft(fileStep, [rows |-> <<>>, threads |-> None, crash |-> "ok"], files)
    IN IF st.crash # "ok" THEN [crash |-> st.crash]
       ELSE [crash |-> "ok",
             rows |-> [k \in DOMAIN st.rows |->
                         st.rows[k] @@ [average |-> Average(st.rows[k].samples),
                                        median |-> MedianLatency(st.rows[k].samples)]]]

\* The two scripts.
ParseThreadLatency(files) == ParseLatencyFiles(files, TRUE)
ParseBatchLatency(files) == ParseLatencyFiles(files, FALSE)

(*************************** thread-profiling *****************************)
(* A line is the set of patterns re.search finds in it ("e2e", "total",   *)
(* "comm", "run", "main") and the number v they capture.  A file is the   *)
(* log of one (communicator, operation, threads) configuration.           *)

\* The times read so far in a file (lines 36-40): all None.
ProfFields == {"e2e", "total", "comm", "run"}
NoTimes == [f \in ProfFields |-> None]

\* The body of `for line in lines` (lines 45-69): each pattern found sets
\* its time; a "Main Thread other" line appends a row of the times read
\* so far, this line's included.
ProfilingLineStep(cfg, st, l) ==
    LET cur == [f \in ProfFields |-> IF f \in l.tags THEN l.v ELSE st.cur[f]]
    IN [cur |-> cur,
        rows |-> IF "main" \in l.tags
                 THEN Append(st.rows, [cfg |-> cfg, main |-> l.v] @@ cur)
                 ELSE st.rows]

\* A configuration whose file is read without clearing the times.
ProfilingFileStepNoReset(st, cfg, lines) ==
    FoldLeft(LAMBDA s, l : ProfilingLineStep(cfg, s, l), st, lines)

\* One configuration of the three nested loops (lines 30-69): the times
\* cleared, then the file scanned.
ProfilingFileStep(st, cfg, lines) ==
    FoldLeft(LAMBDA s, l : ProfilingLineStep(cfg, s, l), [st EXCEPT !.cur = NoTimes], lines)

\* parse_files (lines 18-77): the rows, the configurations in loop order.
ParseThreadProfiling(files) ==
    FoldLeft(LAMBDA st, k : ProfilingFileStep(st, k, files[k]),
             [cur |-> NoTimes, rows |-> <<>>], [k \in DOMAIN files |-> k]).rows

(*************************** plot/plot-row-threads.py **********************)
(* A line is "hdr" (contains "threads": its rows and threads fields),     *)
(* "quick" (contains algo = "Quick": its time t) or "other".  The fastest *)
(* time of a block is [seen, t], seen FALSE standing for np.inf; a value  *)
(* stored per row is [inf |-> TRUE] or the quotient [num, den].           *)

\* fastest / current_rows (T_PER_ROW).
PerRow(st) == IF st.fastest.seen
              THEN [inf |-> FALSE, num |-> st.fastest.t, den |-> st.rows]
              ELSE [inf |-> TRUE]

\* The loop body with fastest kept at a header.
RowThreadsStepKeepFastest(st, l) ==
    CASE l.kind = "hdr" ->
           [st EXCEPT !.data = IF st.threads # None
                               THEN Put(@, <<st.threads, st.rows>>, PerRow(st)) ELSE @,
                      !.rows = l.rows, !.threads = l.threads]
      [] l.kind = "quick" ->
           [st EXCEPT !.fastest = [seen |-> TRUE,
                                   t |-> IF @.seen /\ @.t < l.t THEN @.t ELSE l.t]]
      [] OTHER -> st

\* The body of `for line in f` (lines 29-41): a header stores the block
\* before it, if any, under data[threads][rows] and starts a new block;
\* a Quick line lowers the block's fastest time.
RowThreadsStep(st, l) ==
    CASE l.kind = "hdr" ->
           [st EXCEPT !.data = IF st.threads # None
                               THEN Put(@, <<st.threads, st.rows>>, PerRow(st)) ELSE @,
                      !.rows = l.rows, !.threads = l.threads,
                      !.fastest = [seen |-> FALSE, t |-> 0]]
      [] l.kind = "quick" ->
           [st EXCEPT !.fastest = [seen |-> TRUE,
                                   t |-> IF @.seen /\ @.t < l.t THEN @.t ELSE l.t]]
      [] OTHER -> st

\* One input file (lines 21-45): the block state cleared, the lines
\* scanned, the last block stored; with no header current_rows is None
\* and `fastest /= current_rows` raises TypeError (crash).
RowThreadsFileStep(st, lines) ==
    LET r == FoldLeft(RowThreadsStep,
                      [st EXCEPT !.rows = None, !.threads = None,
                                 !.fastest = [seen |-> FALSE, t |-> 0]], lines)
    IN CASE st.crash -> st
         [] r.rows = None -> [r EXCEPT !.crash = TRUE]
         [] OTHER -> [r EXCEPT !.data = Put(@, <<r.threads, r.rows>>, PerRow(r))]

\* The data dict of the script (lines 19-45), keyed by (threads, rows).
ReadRowThreads(files) ==
    LET st == FoldLeft(RowThreadsFileStep,
                       [data |-> <<>>, rows |-> None, threads |-> None,
                        fastest |-> [seen |-> FALSE, t |-> 0], crash |-> FALSE], files)
    IN IF st.crash THEN [crash |-> TRUE] ELSE [crash |-> FALSE, data |-> st.data]

(***************************** plot-multithreaded.py ***********************)
(* A line is "thr" (contains "threads": its threads field sp[3]), "sw"    *)
(* (contains "[ SW]": its category sp[2] and time t) or "other".  An      *)
(* average is [sum, cnt]; fastest is [inf |-> TRUE] for np.inf or         *)
(* [inf |-> FALSE] @@ an average.                                         *)

\* A = "Radix": the only category plotted (line 17).
PlottedCategory == "Radix"

\* The body of `for line in f` (lines 26-33): a threads line sets the
\* current thread count, a "[ SW]" line appends its time under (category,
\* current thread).
MultiThreadedStep(st, l) ==
    CASE l.kind = "thr" -> [st EXCEPT !.thread = l.threads]
      [] l.kind = "sw" -> [st EXCEPT !.data = Append1(@, <<l.cat, st.thread>>, l.t)]
      [] OTHER -> st

\* a < b between an average and fastest (min(fastest, *averages)).
FasterThan(a, b) == b.inf \/ a.sum * b.cnt < b.sum * a.cnt

\* The file loop with fastest cleared at every file.
MultiThreadedFileStepResetFastest(fastest, lines) ==
    LET d == FoldLeft(MultiThreadedStep, [data |-> <<>>, thread |-> -1], lines).data
        avgs == {[inf |-> FALSE] @@ Average(d[k]) : k \in {k \in DOMAIN d : k[1] = PlottedCategory}}
    IN FoldSet(LAMBDA a, f : IF FasterThan(a, f) THEN a ELSE f, [inf |-> TRUE], avgs)

\* One input file (lines 21-48): data cleared and current_thread -1, the
\* lines scanned; the mean of each thread's list of the plotted category
\* lowers fastest, which spans all files.
MultiThreadedFileStep(fastest, lines) ==
    LET d == FoldLeft(MultiThreadedStep, [data |-> <<>>, thread |-> -1], lines).data
        avgs == {[inf |-> FALSE] @@ Average(d[k]) : k \in {k \in DOMAIN d : k[1] = PlottedCategory}}
    IN FoldSet(LAMBDA a, f : IF FasterThan(a, f) THEN a ELSE f, fastest, avgs)

\* The fastest average the script draws (lines 19-61).
FastestMultiThreaded(files) == FoldLeft(MultiThreadedFileStep, [inf |-> TRUE], files)

=============================================================================
