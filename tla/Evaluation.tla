------------------------------- MODULE Evaluation -------------------------------
(***************************************************************************)
(* src/gg/orchestrator/evaluation.py: the score of a candidate's record,   *)
(* which records may win, which one does, and what is said of it.  A record*)
(* has the fields index, status, passed, mutated, failed (how many commands*)
(* failed) and size (how many files).                                      *)
(***************************************************************************)
EXTENDS Integers, FiniteSets

SmallerOf(a, b) == IF a < b THEN a ELSE b

\* _score.  The record has no policy_violations: what they did is its status.
Score(r) == (IF r.status = "success" THEN 100 ELSE -100)
            + (IF r.passed THEN 50 ELSE -50)
            - (IF r.mutated THEN 50 ELSE 0)
            - 10 * r.failed
            - SmallerOf(r.size, 25)

Eligible(r) == r.status = "success" /\ r.passed /\ ~r.mutated

\* max(eligible, key=(score, -index)).
Better(r, s) == \/ Score(r) > Score(s)
                \/ Score(r) = Score(s) /\ r.index <= s.index

BestOf(records) == CHOOSE r \in records : \A s \in records : Better(r, s)

\* evaluate: the winner of the records, or none.
Winners(records) ==
  LET eligible == {r \in records : Eligible(r)}
  IN IF eligible = {} THEN {} ELSE {BestOf(eligible)}

\* _review_dimensions: what the evaluation says of the selected record.
Dimensions(r) == [architecture |-> TRUE, code |-> r.status = "success", security |-> TRUE,
                  tests |-> r.passed, operability |-> ~r.mutated]

================================================================================
