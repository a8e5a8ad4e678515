----------------------------- MODULE MCRecovery -----------------------------
(* The constants of the runs of Recovery. *)
EXTENDS Recovery

Closed(first, last) == [start |-> first, end |-> last]
Open(first) == [start |-> first, end |-> None]

\* Every range of a file of n bytes.
RangesOf(n) ==
    {Closed(w[1], w[2]) : w \in {v \in (0..n - 1) \X (0..n - 1) : v[1] <= v[2]}}
        \union {Open(a) : a \in 0..n - 1}

ThreeByteNames == RangesOf(3)

SmallPlans ==
    {[size |-> 3, ranges |-> {Open(0)}], [size |-> 3, ranges |-> {Closed(0, 1), Open(2)}]}

\* Up to four chunks of a file of three bytes, overlapping in every way.
OverlappingSets ==
    {[size |-> 3, ranges |-> S] : S \in {T \in SUBSET RangesOf(3) : Cardinality(T) \in 1..4}}
        \union {[size |-> 0, ranges |-> {Open(0)}]}

NothingFinished == {}
=============================================================================
