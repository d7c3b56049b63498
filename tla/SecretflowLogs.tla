---------------------------- MODULE SecretflowLogs ----------------------------
(***************************************************************************)
(* parse_files of scripts/plot/plot-secretflow-comparison.py: the sort    *)
(* times of SecretFlow's SortByKey ("sf*" logs) and of ORQ's radix sort   *)
(* ("orq*" logs), one row [size, type, time] per measurement.             *)
(*                                                                         *)
(* A file is [prefix, bw, wan, lines]: prefix "sf", "orq" or "other"; bw  *)
(* the second hyphen-separated part of its name (the bitwidth); wan the   *)
(* fourth part, "none" when the name has no four parts.  SecretFlow lines *)
(* are "size" ("Sort: n"), "sbk" ("SortByKey time t"), "valid"            *)
(* ("SortByKey with valid bits (b) time t"), "perm" ("Permutation_time: p *)
(* ms"), "other"; ORQ lines are "rows" ("==== n rows;"), "radix" ("[ SW]  *)
(* Radix Sort t sec"), "dummy" ("dm-dummyperm t sec"), "other".  ORQ      *)
(* times are integers in units of 10 microseconds, SecretFlow times in    *)
(* milliseconds; a time is [num, den] seconds.                             *)
(***************************************************************************)
EXTENDS PyDicts

\* ORQ_WAN_BW_CONFIG, INLCUDE_PERM_GEN (lines 21-22).
OrqWanBwConfig == "100Mbps"
IncludePermGen == TRUE

\* ORQ_MULTI_THREADED_PERM_TIME (lines 24-35) in units of 10 microseconds,
\* by bitwidth and row count.
OrqPermTime ==
    [bw \in {"32b", "64b"} |->
        IF bw = "32b" THEN (100000 :> 11828) @@ (1000000 :> 97856) @@ (10000000 :> 1494800)
        ELSE (100000 :> 26256) @@ (1000000 :> 243860) @@ (10000000 :> 3367000)]

\* The loop `for offset in [1, 2, 3, 4, 5]` (lines 82-86): [r |-> "found",
\* p] for the first of the five lines after i that is a permutation time;
\* "IndexError" when content[i + offset] runs past the end before one is
\* found; "none" when none of the five is.
PermSearch(L, i) ==
    LET hits == {o \in 1 .. 5 : i + o <= Len(L) /\ L[i + o].kind = "perm"}
    IN CASE hits # {} -> [r |-> "found", p |-> L[i + Min(hits)].p]
         [] i + 5 > Len(L) -> [r |-> "IndexError"]
         [] OTHER -> [r |-> "none"]

\* One line of an "sf" log (lines 71-111): a SortByKey time is kept only
\* with a permutation time in the five lines after it.
SfLineStep(L, st, i) ==
    LET l == L[i]
        p == PermSearch(L, i)
        type == IF l.kind = "sbk" THEN "SCQL_SBK" ELSE "SCQL_SBK_valid"
    IN CASE st.crash # "ok" -> st
         [] l.kind = "size" -> [st EXCEPT !.rowSize = l.n]
         [] l.kind \in {"sbk", "valid"} /\ p.r = "IndexError" -> [st EXCEPT !.crash = "IndexError"]
         [] l.kind \in {"sbk", "valid"} /\ p.r = "none" -> [st EXCEPT !.crash = "ValueError"]
         [] l.kind \in {"sbk", "valid"} ->
              [st EXCEPT !.data = Append(@, [size |-> st.rowSize, type |-> type,
                 time |-> [num |-> IF IncludePermGen THEN l.t ELSE l.t - p.p, den |-> 1000]])]
         [] OTHER -> st

\* One line of an "orq" log (lines 128-148): a radix time counts only when
\* the very next line is a dm-dummyperm time; the permutation-generation
\* time is looked up by bitwidth and str(row_size) (KeyError for a pair
\* the table lacks, row_size None included).
OrqLineStep(bw, L, st, i) ==
    LET l == L[i]
        known == bw \in DOMAIN OrqPermTime /\ st.rowSize \in DOMAIN OrqPermTime[bw]
    IN CASE st.crash # "ok" -> st
         [] l.kind = "rows" -> [st EXCEPT !.rowSize = l.n]
         [] l.kind = "radix" /\ i + 1 <= Len(L) /\ L[i + 1].kind = "dummy" ->
              IF IncludePermGen /\ ~known THEN [st EXCEPT !.crash = "KeyError"]
              ELSE [st EXCEPT !.data = Append(@, [size |-> st.rowSize, type |-> "ORQ_RS_" \o bw,
                      time |-> [num |-> l.t - L[i + 1].t
                                        + (IF IncludePermGen THEN OrqPermTime[bw][st.rowSize] ELSE 0),
                                den |-> 100000]])]
         [] OTHER -> st

\* The scan of one file with a row_size carried over from the file before.
FileStepKeepRowSize(st, f) ==
    LET scan(step(_, _)) == FoldLeft(step, st, [i \in 1 .. Len(f.lines) |-> i])
    IN CASE st.crash # "ok" -> st
         [] f.prefix = "sf" -> scan(LAMBDA s, i : SfLineStep(f.lines, s, i))
         [] f.prefix = "orq" /\ f.bw = None -> [st EXCEPT !.crash = "IndexError"]
         [] f.prefix = "orq" /\ f.wan \notin {"none", OrqWanBwConfig} -> st
         [] f.prefix = "orq" -> scan(LAMBDA s, i : OrqLineStep(f.bw, f.lines, s, i))
         [] OTHER -> st

\* One file of `for file_name in os.listdir(data_dir)` (lines 65-150):
\* row_size cleared, then the scan its prefix selects; an "orq" name with
\* no second part fails at hyphen_split[1], and one with a fourth part
\* other than ORQ_WAN_BW_CONFIG is skipped.
FileStep(st, f) ==
    LET st0 == [st EXCEPT !.rowSize = None]
        scan(step(_, _)) == FoldLeft(step, st0, [i \in 1 .. Len(f.lines) |-> i])
    IN CASE st.crash # "ok" -> st
         [] f.prefix = "sf" -> scan(LAMBDA s, i : SfLineStep(f.lines, s, i))
         [] f.prefix = "orq" /\ f.bw = None -> [st EXCEPT !.crash = "IndexError"]
         [] f.prefix = "orq" /\ f.wan \notin {"none", OrqWanBwConfig} -> st
         [] f.prefix = "orq" -> scan(LAMBDA s, i : OrqLineStep(f.bw, f.lines, s, i))
         [] OTHER -> st

\* parse_files(data_dir), lines 62-153: the rows, or the exception.
ParseSecretflowFiles(files) ==
    LET st == FoldLeft(FileStep, [rowSize |-> None, data |-> <<>>, crash |-> "ok"], files)
    IN IF st.crash # "ok" THEN [crash |-> st.crash] ELSE [crash |-> "ok", rows |-> st.data]

=============================================================================
