------------------------------ MODULE PyDicts ------------------------------
(***************************************************************************)
(* The Python values and dict operations the log readers of the           *)
(* evaluation scripts share: a dict is a function, a defaultdict(list)    *)
(* one whose missing keys read as <<>>, and an average the pair [sum,     *)
(* cnt] that sum(v) / len(v) divides.                                      *)
(***************************************************************************)
EXTENDS Integers, Sequences, SequencesExt, TLC

CONSTANT None   \* Python's None

\* d[k] = v on a dict.
Put(d, k, v) == (k :> v) @@ d

\* d[k] of a defaultdict(list), [] when the defaultdict has no entry for k yet.
ListAt(d, k) == IF k \in DOMAIN d THEN d[k] ELSE <<>>

\* d[k].append(v) on a defaultdict(list) (op_dict[sf][q].append in
\* query-cm-scaling.py).
Append1(ops, key, ev) ==
    [k \in DOMAIN ops \cup {key} |->
        IF k = key THEN ListAt(ops, k) \o <<ev>> ELSE ops[k]]

\* sum(times) / len(times) (table_sort.py lines 98-100), as [sum, cnt].
Average(s) == [sum |-> FoldSeq(+, 0, s), cnt |-> Len(s)]

\* The elements of a finite set in some order (SetToSeq, without its
\* enumeration of every function into S).
SetAsSeq(S) == FoldSet(LAMBDA x, acc : Append(acc, x), <<>>, S)

\* {k: sum(v) / len(v) for k, v in d.items()}
Averages(d) == [k \in DOMAIN d |-> Average(d[k])]

=============================================================================
