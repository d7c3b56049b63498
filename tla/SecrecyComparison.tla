-------------------------- MODULE SecrecyComparison --------------------------
(***************************************************************************)
(* scripts/old-paper/secrecy-comparison.py: the Secrecy vs ORQ bars and   *)
(* their speedup labels.  Times are kept as integers in a fixed unit      *)
(* (the script's literals scaled by 1000), a quotient as [num, den].       *)
(* The times are floats: where the exact quotient sits on a rounding      *)
(* boundary, the double may fall on either side, so a label is the set    *)
(* of the outcomes the float arithmetic can give.                          *)
(***************************************************************************)
EXTENDS PyDicts

\* experiments, nsdi_times, current_times (lines 15-27), in thousandths.
Experiments == <<"Q4", "Q6", "Q13", "Comorb.", "C.Diff", "Aspirin", "Credit", "Pwd">>
NsdiTimes == <<7462676, 2800, 14062969, 1524700, 2022300, 2921000, 831200, 787500>>
CurrentTimes == <<12900, 800, 17000, 85300, 47600, 6100, 34200, 38100>>

\* experiments_order (line 34).
ExperimentsOrder == <<"Q6", "Pwd", "Credit", "Comorb.", "C.Diff", "Aspirin", "Q4", "Q13">>

\* list.index (line 37): the first position holding o.
PyIndex(lst, o) == Min({i \in DOMAIN lst : lst[i] = o})

\* reorder_list(lst, order), which looks names up in the global
\* experiments as it is when called (lines 36-37).
ReorderList(lst, experiments, order) == [k \in DOMAIN order |-> lst[PyIndex(experiments, order[k])]]

\* The integers nearest to [num, den]: both at a tie.
NearestInts(x) ==
    LET q == x.num \div x.den
        twice == 2 * (x.num % x.den)
    IN IF twice < x.den THEN {q} ELSE IF twice > x.den THEN {q + 1} ELSE {q, q + 1}

\* f(n / c) (lines 66-72): one decimal (v tenths) below 10, round()
\* from 10 on; either at exactly 10.
SpeedupLabels(n, c) ==
    (IF n <= 10 * c THEN {[dp |-> 1, v |-> k] : k \in NearestInts([num |-> 10 * n, den |-> c])}
                    ELSE {})
    \cup (IF n >= 10 * c THEN {[dp |-> 0, v |-> k] : k \in NearestInts([num |-> n, den |-> c])}
                         ELSE {})

\* Lines 39-41 with the names reordered first.
SecrecyBarsNamesFirst(experiments, nsdi, current, order) ==
    LET e2 == ReorderList(experiments, experiments, order)
        n2 == ReorderList(nsdi, e2, order)
        c2 == ReorderList(current, e2, order)
    IN [k \in DOMAIN order |-> [name |-> e2[k], secrecy |-> [num |-> n2[k], den |-> 60],
                               orq |-> [num |-> c2[k], den |-> 60],
                               labels |-> SpeedupLabels(n2[k], c2[k])]]

\* Lines 39-72: the times reordered, then the names; the bars in minutes
\* (to_minutes) and each Secrecy bar's speedup label.
SecrecyBars(experiments, nsdi, current, order) ==
    LET n2 == ReorderList(nsdi, experiments, order)
        c2 == ReorderList(current, experiments, order)
        e2 == ReorderList(experiments, experiments, order)
    IN [k \in DOMAIN order |-> [name |-> e2[k], secrecy |-> [num |-> n2[k], den |-> 60],
                               orq |-> [num |-> c2[k], den |-> 60],
                               labels |-> SpeedupLabels(n2[k], c2[k])]]

=============================================================================
