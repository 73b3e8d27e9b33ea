------------------------------ MODULE Workspace ------------------------------
(***************************************************************************)
(* The pipelines of a project and gg clean on the same disk.               *)
(***************************************************************************)
EXTENDS Cleaner

vars == <<flow, cleaning>>

Init == FlowInit /\ CleanInit

\* A new batch and gg clean exclude each other by the lock on the queue; resume and
\* cancel take only the lock on their issue, or none.
Starts == \E r \in Runs : \/ (\E i \in Issues : Select(r, i)) /\ In("idle")
                          \/ Resume(r) \/ Cancel(r)

\* Whatever overlaps a clean ends the quiet.
Pipelines == /\ Starts \/ \E r \in Runs : RunStep(r)
             /\ quiet' = (quiet /\ In("idle"))
             /\ UNCHANGED <<clean, archive, swept>>

Next == Pipelines \/ CleanStep

Spec == Init /\ [][Next]_vars

(***************************************************************************)
(* Properties.                                                             *)
(***************************************************************************)
Statuses == {"none", "new", "ready", "running", "waiting", "publishing"} \union Over

\* The type of the state; a process works on the run of its own issue.
TypeOK ==
  /\ \A r \in Runs : /\ runs[r].st \in Statuses
                     /\ runs[r].issue \in Issues \union {NoIssue}
                     /\ runs[r].attempt \in 1..MaxAttempts
                     /\ runs[r].tried \subseteq Candidates
                     /\ runs[r].running \union runs[r].path \subseteq runs[r].tried
                     /\ proc[r].pc \notin {"idle", "selected"} /\ Known(r)
                          => proc[r].issue = runs[r].issue
  /\ trees \subseteq Runs \X Names
  /\ branches \subseteq Runs \X Names
  /\ objects \subseteq Objects
  /\ \A r \in Runs : archive[r] \in [made : BOOLEAN, removed : SUBSET Names]
  /\ swept \subseteq Runs

\* However selections, crashes and resumes interleave, an issue never has two runs
\* that neither failed nor were cancelled: the look for an existing run and the
\* creation of the new one happen under the lock on the issue.
OneRunPerIssue ==
  \A r, s \in Runs : r # s /\ Known(r) /\ Known(s) /\ runs[r].issue = runs[s].issue
    => runs[r].st \in {"failed", "cancelled"} \/ runs[s].st \in {"failed", "cancelled"}

\* The id chosen for a candidate has neither a worktree nor a branch yet, whatever
\* earlier attempts and killed processes left behind: git never refuses to make it.
FreshCandidates == \A r \in Runs : At(r, "create") => Free(r, proc[r].cand)

\* A run whose state is gone from .gg/runs has its summary in .gg/runs-archive.  When
\* nothing overlapped the clean the summary names every worktree the run had recorded
\* in its state, and what it says was removed is gone, though it was written first and
\* the clean may have died, and been started again, after any removal.
ArchivedFirst ==
  \A r \in Runs : runs[r].st # "none" /\ ~Known(r)
    => /\ archive[r].made
       /\ quiet => /\ runs[r].path \union {n \in {Baseline} : runs[r].baseline}
                         \subseteq archive[r].removed
                   /\ \A n \in archive[r].removed : <<r, n>> \notin trees

\* The worktree of the integration is there to be reset, or can be made.
CanIntegrate(r) == \/ <<r, runs[r].integ>> \in trees
                   \/ Free(r, Integration(runs[r].winner))

\* As long as no clean overlaps a pipeline, a clean leaves a run that it does not
\* remove the objects its snapshot names and the worktrees its candidates recorded
\* (but those an operator abandoned).  It does not leave the integration of a killed
\* publication: such a run can be published by a later process exactly if no clean
\* has swept its worktree away.
KeptUsable ==
  \A r \in Runs : quiet /\ Known(r) /\ runs[r].st \notin Over /\ ~archive[r].made
    => /\ Snapshot(r) \subseteq objects
       /\ ~runs[r].cancel => \A n \in runs[r].path : <<r, n>> \in trees
       /\ runs[r].st = "publishing" /\ runs[r].integ # Nothing
            => (CanIntegrate(r) <=> r \notin swept)
===============================================================================
