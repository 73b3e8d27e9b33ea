------------------------------ MODULE MCRunStore ------------------------------
(* The run store on small sets of processes. *)
EXTENDS RunStore, TLC

\* Processes of one kind are interchangeable.
Symmetry == Permutations(Runners) \cup Permutations(Operators) \cup Permutations(Reporters)

\* Processes that race can log one transition many times: look at short logs only.
ShortLog == Len(log) <= 2 * MaxTransitions /\ created <= 2

\* Nothing is promised of what follows a meeting of writers.
Apart == ~crossed
===============================================================================
