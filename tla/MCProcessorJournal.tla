------------------------- MODULE MCProcessorJournal -------------------------
(* Instance of ProcessorJournal for TLC.                                   *)
EXTENDS ProcessorJournal, TLC

\* A suggestion, asked for with two limits, and a map of two units that
\* continues it under the first.
MCAsks == {[job |-> "s", prior |-> Nothing, limit |-> 8],
           [job |-> "s", prior |-> Nothing, limit |-> 9],
           [job |-> "m", prior |-> "s", limit |-> 8]}

MCUnitsOf == [j \in {"s", "m"} |-> IF j = "m" THEN 2 ELSE 1]

\* Less than planned, more, and more than any call may use.
MCUsages == {1, 3, 4}

\* Processes do the same things.
Symmetric == Permutations(Procs)

\* A refusal nobody quotes any more is as good as no call.
View == <<files, count, seen,
          [p \in Procs |-> IF call[p].phase = "told" /\ call[p].why # "blocked"
                           THEN [phase |-> "idle"] ELSE call[p]]>>
=============================================================================
