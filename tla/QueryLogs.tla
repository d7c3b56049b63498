------------------------------ MODULE QueryLogs ------------------------------
(***************************************************************************)
(* parse_files of scripts/old-paper/plot_query_experiments.py (imported by *)
(* the other query plots): for each query log, the row it contributes to   *)
(* the data frame.  A line is abstracted to what the tests of lines        *)
(* 117-135 look for: "overall" (contains "Overall"), "prof" and "comm" (a  *)
(* "[=PROFILE]" or "[=COMM]" line with the set tags of the names           *)
(* "table.sort", "table.aggregate", "other" it contains), "sf" (an "SF;"   *)
(* line with sf and threads), "preproc" (a "[=PREPROC]" line); v is the    *)
(* number the line's split picks.  A quotient x / threads is kept as the   *)
(* pair [num, den].                                                        *)
(***************************************************************************)
EXTENDS PyDicts

\* The profile names and the row fields they fill (lines 119-130).
Fields == [s \in {"table.sort", "table.aggregate", "other"} |->
             CASE s = "table.sort" -> "sort"
               [] s = "table.aggregate" -> "agg"
               [] s = "other" -> "other"]

\* The scan with the three profile tests made an if/elif chain: a line is
\* taken for its first name only.
QueryLineStepFirstTag(st, l) ==
    CASE l.kind = "overall" -> [st EXCEPT !.overall = l.v]
      [] l.kind \in {"prof", "comm"} /\ l.tags # {} ->
            LET s == IF "table.sort" \in l.tags THEN "table.sort"
                     ELSE IF "table.aggregate" \in l.tags THEN "table.aggregate"
                     ELSE "other"
            IN [st EXCEPT ![l.kind][Fields[s]] = l.v]
      [] l.kind = "sf" -> [st EXCEPT !.sf = l.sf, !.threads = l.threads]
      [] l.kind = "preproc" -> [st EXCEPT !.preproc = l.v]
      [] OTHER -> st

\* The body of `for line in lines` (lines 115-135): every test that
\* matches assigns, so a later line overrides an earlier one and a line with
\* several names fills each of their fields.
QueryLineStep(st, l) ==
    CASE l.kind = "overall" -> [st EXCEPT !.overall = l.v]
      [] l.kind \in {"prof", "comm"} ->
            [st EXCEPT ![l.kind] = [f \in DOMAIN @ |->
                 IF \E s \in l.tags : Fields[s] = f THEN l.v ELSE @[f]]]
      [] l.kind = "sf" -> [st EXCEPT !.sf = l.sf, !.threads = l.threads]
      [] l.kind = "preproc" -> [st EXCEPT !.preproc = l.v]
      [] OTHER -> st

\* The initial values of lines 104-113: times None, communication 0.
QueryInit ==
    [overall |-> None, prof |-> [f \in {"sort", "agg", "other"} |-> None],
     comm |-> [f \in {"sort", "agg", "other"} |-> 0], preproc |-> None,
     sf |-> None, threads |-> None]

(* The row one log adds to data_list (lines 97-161): "skip" for the       *)
(* metadata file and for logs without an SF line or an Overall time;      *)
(* "crash" when threads is 0 (ZeroDivisionError); for 2PC the last        *)
(* preprocessing time is taken off the overall time.                       *)
ParseQueryFile(name, lines, twopc) ==
    LET st == FoldLeft(QueryLineStep, QueryInit, lines)
    IN CASE name = "meta" \/ st.threads = None \/ st.overall = None -> [status |-> "skip"]
         [] st.threads = 0 -> [status |-> "crash"]
         [] OTHER ->
              [status |-> "row",
               overall |-> IF twopc /\ st.preproc # None
                           THEN st.overall - st.preproc ELSE st.overall,
               time |-> st.prof,
               comm |-> [f \in DOMAIN st.comm |-> [num |-> st.comm[f], den |-> st.threads]],
               sf |-> st.sf]

(* The rest of parse_files (lines 72-236): the rows of all logs in glob    *)
(* order, a file being [stem, lines]; with compute_median, one row per     *)
(* display name.  Query names are a fixed set of stems, so str.title(),    *)
(* Python's string order and extract_number are tables over that set.      *)

\* NAME_MAP (lines 45-55).
NameMap ==
    ("aspirin" :> "Aspirin") @@ ("credit_score" :> "Credit") @@ ("custom_agg" :> "SYan")
    @@ ("distinct_patients" :> "Patients") @@ ("market-share" :> "Market")
    @@ ("pwd-reuse" :> "Pwd") @@ ("rcdiff" :> "C.Diff") @@ ("secrecy_q2" :> "SecQ2")
    @@ ("comorbidity" :> "Comorb.")

\* x.title() of the query stems outside NAME_MAP: the first letter of
\* each run of letters upper-cased, the others lower-cased.
Title == ("q1" :> "Q1") @@ ("Q1" :> "Q1") @@ ("q10" :> "Q10") @@ ("q2" :> "Q2")
         @@ ("q1-mod" :> "Q1-Mod") @@ ("q6" :> "Q6") @@ ("Q6" :> "Q6") @@ ("q12" :> "Q12")

\* NAME_MAP.get(x, x.title()) (line 181).
DisplayName(x) == IF x \in DOMAIN NameMap THEN NameMap[x] ELSE Title[x]

\* Python's < on the stems and on the display names: its position in
\* code-point order ('Q' < 'a' < 'q', '-' < '0' < '2').
PyStrRank ==
    LET order == <<"Aspirin", "Q1", "Q1-Mod", "Q10", "Q12", "Q2", "Q6", "aspirin",
                   "meta", "q1", "q1-mod", "q10", "q12", "q2", "q6">>
    IN [k \in Range(order) |-> CHOOSE i \in DOMAIN order : order[i] = k]

\* extract_number (lines 218-220): the number of a name matching ^Q(\d+)$.
QueryNumber == ("Q1" :> 1) @@ ("Q10" :> 10) @@ ("Q12" :> 12) @@ ("Q2" :> 2) @@ ("Q6" :> 6)

\* sort_query_order (lines 217-236): names matching ^Q\d+$ by their number,
\* then the others in string order.
QueryBefore(a, b) ==
    CASE a \in DOMAIN QueryNumber /\ b \in DOMAIN QueryNumber -> QueryNumber[a] < QueryNumber[b]
      [] a \in DOMAIN QueryNumber -> TRUE
      [] b \in DOMAIN QueryNumber -> FALSE
      [] OTHER -> PyStrRank[a] < PyStrRank[b]

\* The upper median sorted(x)[len(x) // 2].
PdMedianUpper(s) == [num |-> SortSeq(s, <)[Len(s) \div 2 + 1], den |-> 1]

\* pandas' median: the middle value, or the mean of the two middle values
\* of an even count, as [num, den].
PdMedian(s) ==
    LET t == SortSeq(s, <)
        n == Len(s)
    IN IF n % 2 = 1 THEN [num |-> t[(n + 1) \div 2], den |-> 1]
       ELSE [num |-> t[n \div 2] + t[n \div 2 + 1], den |-> 2]

\* The groupby("query").agg row of one display name (lines 186-202):
\* median, range and count of its overall times; med_sort and med_agg are
\* 0 as PLOT_SORTING is False; "###" flags fewer than three runs.
QueryStats(df, n) ==
    LET v == [i \in 1 .. Len(SelectSeq(df, LAMBDA r : r.query = n)) |->
                SelectSeq(df, LAMBDA r : r.query = n)[i].overall]
    IN [query |-> n, median |-> PdMedian(v), medSort |-> 0, medAgg |-> 0,
        range |-> Max(Range(v)) - Min(Range(v)), count |-> Len(v), flag |-> Len(v) < 3]

\* parse_files(data_dir, compute_median, twopc): a ZeroDivisionError of
\* any log stops it; else the rows sorted by stem and renamed, or their
\* per-name statistics in sort_query_order.  sort_values' quicksort is an
\* insertion sort on so few rows: logs of one stem keep their glob order.
ParseQueryDir(files, computeMedian, twopc) ==
    LET res == [i \in DOMAIN files |-> ParseQueryFile(files[i].stem, files[i].lines, twopc)
                                       @@ [stem |-> files[i].stem, pos |-> i]]
        rows == SortSeq(SelectSeq(res, LAMBDA r : r.status = "row"),
                        LAMBDA a, b : \/ PyStrRank[a.stem] < PyStrRank[b.stem]
                                      \/ PyStrRank[a.stem] = PyStrRank[b.stem] /\ a.pos < b.pos)
        df == [i \in DOMAIN rows |-> [query |-> DisplayName(rows[i].stem),
                                      overall |-> rows[i].overall, sf |-> rows[i].sf,
                                      time |-> rows[i].time, comm |-> rows[i].comm]]
        names == {df[i].query : i \in DOMAIN df}
    IN CASE \E i \in DOMAIN res : res[i].status = "crash" -> [crash |-> TRUE]
         [] ~computeMedian -> [crash |-> FALSE, df |-> df]
         [] OTHER -> [crash |-> FALSE,
                      df |-> [i \in 1 .. Cardinality(names) |->
                                QueryStats(df, SortSeq(SetAsSeq(names), QueryBefore)[i])]]

(******************* sosp25/secretflow/plot-secretflow-queries.py **********)
(* The ORQ log of the SecretFlow query comparison: "query" (a line that   *)
(* starts with "Query", the name q after it), "overall" (a line with      *)
(* "Overall", its time v), "dummy" (a "dm-dummyperm" line, v), "other".   *)

\* query_indices (lines 60-66).
QueryIndices ==
    ("sf-q1" :> 1) @@ ("sf-q6" :> 0) @@ ("sf-q12" :> 3) @@ ("sf-q14" :> 2) @@ ("sf-q1-mod" :> 4)

\* lst[i] = v for a Python index i: a negative one counts from the end.
PySetAt(lst, i, v) == [lst EXCEPT ![IF i < 0 THEN Len(lst) + i + 1 ELSE i + 1] = v]

\* The loop body with pt cleared at every header, the first included.
OrqQueryStepAlwaysReset(st, l) ==
    CASE st.crash -> st
      [] l.kind = "query" ->
           LET flushed == IF st.idx >= 0
                          THEN [st EXCEPT !.times = PySetAt(@, st.idx, st.ot - st.pt)]
                          ELSE st
           IN IF l.q \in DOMAIN QueryIndices
              THEN [flushed EXCEPT !.idx = QueryIndices[l.q], !.pt = 0]
              ELSE [flushed EXCEPT !.crash = TRUE]
      [] l.kind = "overall" -> [st EXCEPT !.ot = l.v]
      [] l.kind = "dummy" -> [st EXCEPT !.pt = l.v]
      [] OTHER -> st

\* The body of `for line in f` (lines 74-88): a header stores the previous
\* query's time ot - pt and clears pt (not ot), then looks its own name up
\* (KeyError for a name not in query_indices: crash).
OrqQueryStep(st, l) ==
    CASE st.crash -> st
      [] l.kind = "query" ->
           LET flushed == IF st.idx >= 0
                          THEN [st EXCEPT !.times = PySetAt(@, st.idx, st.ot - st.pt), !.pt = 0]
                          ELSE st
           IN IF l.q \in DOMAIN QueryIndices
              THEN [flushed EXCEPT !.idx = QueryIndices[l.q]]
              ELSE [flushed EXCEPT !.crash = TRUE]
      [] l.kind = "overall" -> [st EXCEPT !.ot = l.v]
      [] l.kind = "dummy" -> [st EXCEPT !.pt = l.v]
      [] OTHER -> st

\* Lines 58-90: orq_times, five zeros, and the last query's time stored
\* after the loop at orq_times[idx], idx being -1 when no header was read.
ReadOrqQueryTimes(lines) ==
    LET st == FoldLeft(OrqQueryStep, [ot |-> 0, pt |-> 0, idx |-> -1,
                                      times |-> [k \in 1 .. 5 |-> 0], crash |-> FALSE], lines)
    IN IF st.crash THEN [crash |-> TRUE]
       ELSE [crash |-> FALSE, times |-> PySetAt(st.times, st.idx, st.ot - st.pt)]

=============================================================================
