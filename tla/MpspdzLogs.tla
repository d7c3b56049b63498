----------------------------- MODULE MpspdzLogs -----------------------------
(***************************************************************************)
(* The log readers of the MP-SPDZ comparison scripts                       *)
(* (scripts/competitors/mpspdz/bandwidth_mpspdz.py, copied into            *)
(* sosp25-replication/mpspdz/plot_mpspdz_sort.py and, in part,             *)
(* competitors/mpspdz/other/plot_mpspdz_shuffle.py).  Each reads a log     *)
(* line by line, keeps the experiment size of the last header it saw and   *)
(* appends the numbers of the lines that follow to a defaultdict(list)     *)
(* under it; the result is the average of each list.                       *)
(*                                                                         *)
(* A line is abstracted to the pattern it matches and the numbers the      *)
(* regular expression captures.  Sizes are powers of two: a "==== N rows;" *)
(* header carries e with N = 2^e, so int(math.log2(N)) is e.               *)
(***************************************************************************)
EXTENDS SortLogs, CostModels


\* times[-1] -= t
SubtractLast(times, t) == [times EXCEPT ![Len(times)] = @ - t]

(*************************** read_secrecy_data ***************************)
(* Kinds: "rows" (a header, size e), "quick" and "radix" (a "[ SW]"       *)
(* Quicksort / Radix Sort time t), "preproc" (a "[=PREPROC] dm-dummyperm" *)
(* time t), "other".                                                       *)

\* The loop body with last_algo forgotten at each header.
SecrecyStepResetOnHeader(np, st, l) ==
    IF st.crash THEN st
    ELSE CASE l.kind = "rows" -> [st EXCEPT !.rows = l.e, !.last = "Quicksort"]
           [] l.kind = "quick" /\ st.rows # None -> [st EXCEPT !.last = "Quicksort"]
           [] l.kind = "radix" /\ st.rows # None ->
                [st EXCEPT !.radix = Append1(@, st.rows, l.t), !.last = "Radix Sort"]
           [] l.kind = "preproc" /\ np = 2 /\ st.rows # None /\ st.last = "Radix Sort" ->
                IF ListAt(st.radix, st.rows) = <<>> THEN [st EXCEPT !.crash = TRUE]
                ELSE [st EXCEPT !.radix[st.rows] = SubtractLast(@, l.t)]
           [] OTHER -> st

\* The body of `for line in file` (lines 49-69).  A preprocessing time is
\* taken off the last radix time recorded for the current row count when
\* the last sort line read was a radix sort; with no such time, [-1] raises
\* IndexError (crash).
SecrecyStep(np, st, l) ==
    IF st.crash THEN st
    ELSE CASE l.kind = "rows" -> [st EXCEPT !.rows = l.e]
           [] l.kind = "quick" /\ st.rows # None -> [st EXCEPT !.last = "Quicksort"]
           [] l.kind = "radix" /\ st.rows # None ->
                [st EXCEPT !.radix = Append1(@, st.rows, l.t), !.last = "Radix Sort"]
           [] l.kind = "preproc" /\ np = 2 /\ st.rows # None /\ st.last = "Radix Sort" ->
                IF ListAt(st.radix, st.rows) = <<>> THEN [st EXCEPT !.crash = TRUE]
                ELSE [st EXCEPT !.radix[st.rows] = SubtractLast(@, l.t)]
           [] OTHER -> st

\* read_secrecy_data(filename, num_parties), lines 37-73: the averages by
\* exponent, or crash.
ReadSecrecyData(lines, np) ==
    LET st == FoldLeft(LAMBDA s, l : SecrecyStep(np, s, l),
                       [rows |-> None, radix |-> <<>>, last |-> "Quicksort",
                        crash |-> FALSE], lines)
    IN [crash |-> st.crash, avg |-> Averages(st.radix)]

\* The same function in plot_mpspdz_sort.py.
ReadSecrecyDataSort(lines, np) == ReadSecrecyData(lines, np)

(* read_2pc_data and read_hm_data of old-paper/sorting-main/             *)
(* plot_sorting.py read the same logs, keeping quicksort times as well.    *)

\* The loop body of read_2pc_data (lines 38-60): a preprocessing time is
\* taken off the last time of whichever algorithm was read last
\* (Quicksort before any), for any number of parties.
TwoPcStep(st, l) ==
    LET alg == IF st.last = "Quicksort" THEN "quick" ELSE "radix"
    IN IF st.crash THEN st
       ELSE CASE l.kind = "rows" -> [st EXCEPT !.rows = l.e]
              [] l.kind = "quick" /\ st.rows # None ->
                   [st EXCEPT !.quick = Append1(@, st.rows, l.t), !.last = "Quicksort"]
              [] l.kind = "radix" /\ st.rows # None ->
                   [st EXCEPT !.radix = Append1(@, st.rows, l.t), !.last = "Radix Sort"]
              [] l.kind = "preproc" /\ st.rows # None ->
                   IF ListAt(st[alg], st.rows) = <<>> THEN [st EXCEPT !.crash = TRUE]
                   ELSE [st EXCEPT ![alg][st.rows] = SubtractLast(@, l.t)]
              [] OTHER -> st

\* read_2pc_data(filename), lines 25-64.
Read2pcData(lines) ==
    LET st == FoldLeft(TwoPcStep, [rows |-> None, quick |-> <<>>, radix |-> <<>>,
                                   last |-> "Quicksort", crash |-> FALSE], lines)
    IN [crash |-> st.crash, quick |-> Averages(st.quick), radix |-> Averages(st.radix)]

\* The loop body of read_hm_data (lines 76-89): no preprocessing lines.
HmStep(st, l) ==
    CASE l.kind = "rows" -> [st EXCEPT !.rows = l.e]
      [] l.kind \in {"quick", "radix"} /\ st.rows # None ->
            [st EXCEPT ![l.kind] = Append1(@, st.rows, l.t)]
      [] OTHER -> st

\* read_hm_data(filename), lines 66-93.
ReadHmData(lines) ==
    LET st == FoldLeft(HmStep, [rows |-> None, quick |-> <<>>, radix |-> <<>>], lines)
    IN [quick |-> Averages(st.quick), radix |-> Averages(st.radix)]

(******************** read_secrecy_preprocessed_perms ********************)
(* Kinds: "sep" (a "---" line), "iter" (an "Iteration ... e" line),      *)
(* "total" ("Total execution time t ..."), "other".                      *)

\* The loop body with the "---" reset left out.
PermsStepNoReset(st, l) ==
    CASE l.kind = "iter" -> [st EXCEPT !.cur = l.e]
      [] l.kind = "total" -> [st EXCEPT !.d = Append1(@, st.cur, l.t)]
      [] OTHER -> st

\* The body of the loop of lines 80-89: a "---" line clears the exponent, and
\* a total read then is filed under None.
PermsStep(st, l) ==
    CASE l.kind = "sep" -> [st EXCEPT !.cur = None]
      [] l.kind = "iter" -> [st EXCEPT !.cur = l.e]
      [] l.kind = "total" -> [st EXCEPT !.d = Append1(@, st.cur, l.t)]
      [] OTHER -> st

\* read_secrecy_preprocessed_perms(filename), lines 75-92.
ReadPreprocessedPerms(lines) ==
    Averages(FoldLeft(PermsStep, [cur |-> None, d |-> <<>>], lines).d)

\* The copies in plot_mpspdz_sort.py and plot_mpspdz_shuffle.py.
ReadPreprocessedPermsSort(lines) == ReadPreprocessedPerms(lines)
ReadPreprocessedPermsShuffle(lines) == ReadPreprocessedPerms(lines)

(******************* read_secrecy_preprocessed_triples *******************)
(* Kinds: "rows" (a header), "radixpre" and "quickpre" (the "[ SW]        *)
(* Radix-/Quick-Preprocessing" times), "other".                           *)

\* The loop body (lines 103-115).
TriplesStep(st, l) ==
    CASE l.kind = "rows" -> [st EXCEPT !.cur = l.e]
      [] l.kind = "radixpre" -> [st EXCEPT !.radix = Append1(@, st.cur, l.t)]
      [] l.kind = "quickpre" -> [st EXCEPT !.quick = Append1(@, st.cur, l.t)]
      [] OTHER -> st

\* read_secrecy_preprocessed_triples(filename), lines 94-118: the radix
\* averages; math.log2(None) raises TypeError when a time came before any
\* header (crash).
ReadPreprocessedTriples(lines) ==
    LET st == FoldLeft(TriplesStep, [cur |-> None, radix |-> <<>>, quick |-> <<>>], lines)
    IN [crash |-> None \in DOMAIN st.radix, avg |-> Averages(st.radix)]

\* The copy in plot_mpspdz_sort.py.
ReadPreprocessedTriplesSort(lines) == ReadPreprocessedTriples(lines)

(**************************** read_mpspdz_data ****************************)
(* Kinds: "iter" ("Iteration i: Exponent e"), "spent" (MP-SPDZ's "Spent   *)
(* on seconds (mb MB, ...) on the online phase and off seconds [(.. MB,   *)
(* ...)] on the preprocessing/offline phase", where full records whether  *)
(* the offline part has its parenthesis), "other".                        *)

\* The loop body of the bandwidth reader (lines 133-145).
BandwidthStep(st, l) ==
    CASE l.kind = "iter" -> [st EXCEPT !.cur = l.e]
      [] l.kind = "spent" /\ st.cur # None -> [st EXCEPT !.d = Append1(@, st.cur, l.mb)]
      [] OTHER -> st

\* read_mpspdz_data(filename) of bandwidth_mpspdz.py, lines 120-148: MB
\* sent in the online phase, by exponent.
ReadMpspdzData(lines) ==
    Averages(FoldLeft(BandwidthStep, [cur |-> None, d |-> <<>>], lines).d)

\* The loop body of the time reader: time_regex needs " .*? on" after both
\* "seconds", so it matches only a full record; otherwise online_time_regex
\* takes the first number as an online time alone.
TimesStep(st, l) ==
    CASE l.kind = "iter" -> [st EXCEPT !.cur = l.e]
      [] l.kind = "spent" /\ st.cur # None /\ l.full ->
            [st EXCEPT !.on = Append1(@, st.cur, l.on), !.off = Append1(@, st.cur, l.off)]
      [] l.kind = "spent" /\ st.cur # None -> [st EXCEPT !.on = Append1(@, st.cur, l.on)]
      [] OTHER -> st

\* read_mpspdz_data(filename) of plot_mpspdz_sort.py, lines 120-156: the
\* online and offline time averages by exponent.
ReadMpspdzTimes(lines) ==
    LET st == FoldLeft(TimesStep, [cur |-> None, on |-> <<>>, off |-> <<>>], lines)
    IN [on |-> Averages(st.on), off |-> Averages(st.off)]

\* The copy in plot_mpspdz_shuffle.py.
ReadMpspdzTimesShuffle(lines) == ReadMpspdzTimes(lines)

(************************ raw row counts and log2 *************************)
(* Two readers file times under the row count itself and turn it into an *)
(* exponent only at the end, with {int(math.log2(rows)): ...}: a header's *)
(* n is the row count.  Their dicts remember the order keys were first    *)
(* inserted in (order), which decides which of two counts with the same   *)
(* int(log2) the comprehension keeps.                                      *)

\* int(math.log2(n)) for n >= 1.
Log2Floor(n) == CHOOSE k \in 0 .. n : 2^k <= n /\ n < 2^(k + 1)

\* {int(math.log2(r)): vals[r] for r in d}: for each exponent, the value of
\* the count inserted last among those with that exponent.
ByLog2(order, vals) ==
    [k \in {Log2Floor(order[i]) : i \in DOMAIN order} |->
        vals[order[Max({i \in DOMAIN order : Log2Floor(order[i]) = k})]]]

\* The dict update with its insertion order: d[key].append(v).
OrderedAppend(st, key, v) ==
    [st EXCEPT !.d = Append1(@, key, v),
               !.order = IF key \in DOMAIN st.d THEN @ ELSE Append(@, key)]

(* read_secrecy_data of plot_mpspdz_shuffle.py; kinds "rows" (n), "total" *)
(* (a "[=PROFILE] TotalOnline t sec" line), "other".                      *)

\* The loop body (lines 17-27): times before the first header are dropped.
TotalOnlineStep(st, l) ==
    CASE l.kind = "rows" -> [st EXCEPT !.cur = l.n]
      [] l.kind = "total" /\ st.cur # None -> OrderedAppend(st, st.cur, l.t)
      [] OTHER -> st

\* read_secrecy_data(filename), lines 8-30.
ReadSecrecyDataShuffle(lines) ==
    LET st == FoldLeft(TotalOnlineStep, [cur |-> None, d |-> <<>>, order |-> <<>>], lines)
    IN ByLog2(st.order, Averages(st.d))

(* read_data of old-paper/ahi22/plot_radix_comparison.py; kinds "rows"   *)
(* (n), "ours" and "ahi" (a "[ SW]" line naming Ours or AHI+22, time t),  *)
(* "both" (a "[ SW]" line naming both), "other".                          *)

\* The entry a header creates, with both lists empty.
RadixEntry == [ours |-> <<>>, ahi |-> <<>>]

\* The loop body with results[current_size] replaced at every header.
RadixStepResetEntry(st, l) ==
    LET col == IF l.kind = "ahi" THEN "ahi" ELSE "ours"
    IN CASE st.crash -> st
         [] l.kind = "rows" ->
              IF l.n \in DOMAIN st.d
              THEN [st EXCEPT !.cur = l.n, !.d = Put(@, l.n, RadixEntry)]
              ELSE [st EXCEPT !.cur = l.n, !.d = Put(@, l.n, RadixEntry),
                              !.order = Append(@, l.n)]
         [] l.kind \in {"ours", "ahi", "both"} ->
              IF st.cur = None THEN [st EXCEPT !.crash = TRUE]
              ELSE [st EXCEPT !.d[st.cur][col] = Append(@, l.t)]
         [] OTHER -> st

\* The loop body (lines 25-39): a header creates its count's entry once;
\* a time before any header indexes results[None] (KeyError, crash); a
\* line naming both is taken for Ours.
RadixStep(st, l) ==
    LET col == IF l.kind = "ahi" THEN "ahi" ELSE "ours"
    IN CASE st.crash -> st
         [] l.kind = "rows" ->
              IF l.n \in DOMAIN st.d THEN [st EXCEPT !.cur = l.n]
              ELSE [st EXCEPT !.cur = l.n, !.d = Put(@, l.n, RadixEntry),
                              !.order = Append(@, l.n)]
         [] l.kind \in {"ours", "ahi", "both"} ->
              IF st.cur = None THEN [st EXCEPT !.crash = TRUE]
              ELSE [st EXCEPT !.d[st.cur][col] = Append(@, l.t)]
         [] OTHER -> st

\* sum(times) / len(times) if times else 0 (lines 47-48): 0 is 0 / 1.
AverageOr0(s) == IF s = <<>> THEN [sum |-> 0, cnt |-> 1] ELSE Average(s)

\* read_data(file_path), lines 20-53: ours_map and ahi22_map, or crash.
ReadRadixData(lines) ==
    LET st == FoldLeft(RadixStep, [cur |-> None, d |-> <<>>, order |-> <<>>,
                                   crash |-> FALSE], lines)
    IN IF st.crash THEN [crash |-> TRUE]
       ELSE [crash |-> FALSE,
             ours |-> ByLog2(st.order, [r \in DOMAIN st.d |-> AverageOr0(st.d[r].ours)]),
             ahi |-> ByLog2(st.order, [r \in DOMAIN st.d |-> AverageOr0(st.d[r].ahi)])]

=============================================================================
