------------------------------ MODULE Worktrees ------------------------------
(***************************************************************************)
(* What the runs of one project share on the disk: their directories under *)
(* .gg/runs, the worktrees next to the project, the branches of the         *)
(* repository and the content-addressed objects.  This module has the side *)
(* of the pipelines, which create all of it: a batch selects issues, each   *)
(* run works under the lock on its issue, is killed anywhere, and is        *)
(* resumed.  Cleaner has the other side.                                    *)
(***************************************************************************)
EXTENDS Naturals, FiniteSets

CONSTANTS Issues, Runs, NoIssue, MaxAttempts, MaxTroubles

ASSUME WorktreesAssumption == /\ MaxAttempts \in Nat \ {0} /\ MaxTroubles \in Nat
                              /\ NoIssue \notin Issues

VARIABLES runs,      \* the directory and the state of each run
          proc,      \* the process that works on the run, at most one
          trees,     \* the directories of the worktrees, <<run, name>>
          branches,  \* the branches made for them, <<run, name>>
          objects,   \* .gg/objects
          left       \* how many crashes, resumes, cancellations and cleans remain
flow == <<runs, proc, trees, branches, objects, left>>

\* Worktrees are named by what they are for: a candidate of an attempt, with the
\* suffix that makes its id unique, the baseline, or the integration of a winner.
Candidate(a, n) == <<"candidate", a, n>>
Candidates == {Candidate(a, n) : a \in 1..MaxAttempts, n \in 1..(MaxTroubles + 1)}
Baseline == <<"baseline", 0, 0>>
Integration(c) == <<"integration", c[2], c[3]>>
Nothing == <<"none", 0, 0>>
Names == Candidates \union {Baseline} \union {Integration(c) : c \in Candidates}

Body(i) == <<"body", i>>
Context == <<"context", NoIssue>>
Objects == {Body(i) : i \in Issues} \union {Context}
Snapshot(r) == IF runs[r].arts THEN {Body(runs[r].issue), Context} ELSE {}

Over == {"completed", "failed", "cancelled"}
\* state: state.json is there; arts: the artifacts are, the task brief and the
\* context snapshot among them.  tried are the entries of candidate_states, path
\* those with a worktree_path.
Blank == [st |-> "none", issue |-> NoIssue, state |-> FALSE, arts |-> FALSE,
          attempt |-> 1, tried |-> {}, running |-> {}, path |-> {},
          baseline |-> FALSE, winner |-> Nothing, integ |-> Nothing, cancel |-> FALSE]
Idle == [pc |-> "idle", issue |-> NoIssue, entry |-> "run", cand |-> Nothing]

FlowInit == /\ runs = [r \in Runs |-> Blank]
            /\ proc = [r \in Runs |-> Idle]
            /\ trees = {} /\ branches = {} /\ objects = {}
            /\ left = MaxTroubles

At(r, pc) == proc[r].pc = pc
Known(r) == runs[r].state

\* store.write makes the directory when it is not there (any more).
Write(r, run) == runs' = [runs EXCEPT ![r] = [run EXCEPT !.state = TRUE]]
Goto(r, pc) == proc' = [proc EXCEPT ![r].pc = pc]
End(r) == proc' = [proc EXCEPT ![r] = Idle]
WriteEnd(r, run) == Write(r, run) /\ End(r)

\* An exception: run_issue fails the run, resume raises and leaves it as it is.
Break(r) == /\ IF proc[r].entry = "run" THEN Write(r, [runs[r] EXCEPT !.st = "failed"])
               ELSE UNCHANGED runs
            /\ End(r)
Disk == <<trees, branches, objects>>

\* Who holds the lock on the issue: every process past its selection.
Holders(i) == {r \in Runs : proc[r].issue = i /\ proc[r].pc \notin {"idle", "selected"}}

(***************************************************************************)
(* run_batch and run_issue.                                                *)
(***************************************************************************)
\* The list of eligible issues was read under the lock on the queue; the run that
\* will be created is r.
Select(r, i) ==
  /\ At(r, "idle") /\ runs[r].st = "none"
  /\ proc' = [proc EXCEPT ![r] = [Idle EXCEPT !.pc = "selected", !.issue = i]]
  /\ UNCHANGED <<runs, left, Disk>>

\* A run of the issue that neither failed nor was cancelled.
Existing(i) == {r \in Runs : Known(r) /\ runs[r].issue = i
                             /\ runs[r].st \notin {"failed", "cancelled"}}

AlreadyClaimed(r) ==
  /\ At(r, "selected") /\ Holders(proc[r].issue) = {}
  /\ Existing(proc[r].issue) # {}
  /\ End(r)
  /\ UNCHANGED <<runs, left, Disk>>

\* Faulty variant: the look for an existing run does not wait for the lock.
ClaimUnlocked(r) ==
  /\ At(r, "selected")
  /\ Existing(proc[r].issue) \ Holders(proc[r].issue) = {}
  /\ Write(r, [runs[r] EXCEPT !.st = "new", !.issue = proc[r].issue])
  /\ Goto(r, "body")
  /\ UNCHANGED <<left, Disk>>

\* The lock on the issue is taken, no run is found, the run is created and claimed.
Claim(r) ==
  /\ At(r, "selected") /\ Holders(proc[r].issue) = {}
  /\ Existing(proc[r].issue) = {}
  /\ Write(r, [runs[r] EXCEPT !.st = "new", !.issue = proc[r].issue])
  /\ Goto(r, "body")
  /\ UNCHANGED <<left, Disk>>

(***************************************************************************)
(* write_task_snapshot: the objects are put, read back, and then named by  *)
(* the snapshot; an object that exists is not written again.               *)
(***************************************************************************)
Put(r) ==
  /\ At(r, "body")
  /\ objects' = objects \union {Body(proc[r].issue), Context}
  /\ Goto(r, "snapshot")
  /\ UNCHANGED <<runs, left, trees, branches>>

ReadBack(r) ==
  /\ At(r, "snapshot")
  /\ IF {Body(proc[r].issue), Context} \subseteq objects
       THEN /\ Write(r, [runs[r] EXCEPT !.arts = TRUE, !.st = "ready"])
            /\ Goto(r, "baseline")
       ELSE Break(r)
  /\ UNCHANGED <<left, Disk>>

(***************************************************************************)
(* Worktrees: git worktree add -b fails on a branch or a path that exists. *)
(***************************************************************************)
Free(r, name) == <<r, name>> \notin trees \union branches

Create(r, name, pc) ==
  /\ IF Free(r, name)
       THEN /\ trees' = trees \union {<<r, name>>}
            /\ branches' = branches \union {<<r, name>>}
            /\ Goto(r, pc) /\ UNCHANGED runs
       ELSE Break(r) /\ UNCHANGED <<trees, branches>>
  /\ UNCHANGED <<objects, left>>

CreateBaseline(r) == At(r, "baseline") /\ ~runs[r].baseline /\ Create(r, Baseline, "verified")

\* The baseline of an earlier process is used, or the new one is recorded.
RecordBaseline(r) ==
  /\ \/ At(r, "baseline") /\ runs[r].baseline
     \/ At(r, "verified")
  /\ Write(r, [runs[r] EXCEPT !.baseline = TRUE, !.st = "running"])
  /\ Goto(r, "plan")
  /\ UNCHANGED <<left, Disk>>

\* Faulty variant: the id is that of the attempt, whatever was tried before.
UniqueIdNot(run) == Candidate(run.attempt, 1)

\* _unique_candidate_id: the first suffix that is not in candidate_states.
UniqueId(run) ==
  CHOOSE c \in Candidates : /\ c[2] = run.attempt /\ c \notin run.tried
                            /\ \A n \in 1..(c[3] - 1) : Candidate(c[2], n) \in run.tried

\* The candidate is written, running, before anything is made for it.
Plan(r) ==
  /\ At(r, "plan") /\ ~runs[r].cancel
  /\ LET c == UniqueId(runs[r])
     IN /\ Write(r, [runs[r] EXCEPT !.tried = @ \union {c}, !.running = {c}])
        /\ proc' = [proc EXCEPT ![r].pc = "create", ![r].cand = c]
  /\ UNCHANGED <<left, Disk>>

CreateCandidate(r) == At(r, "create") /\ Create(r, proc[r].cand, "record")

\* The worker loads the run, sets worktree_path and branch, and writes it.
RecordCandidate(r) ==
  /\ At(r, "record")
  /\ IF Known(r) THEN /\ Write(r, [runs[r] EXCEPT !.path = @ \union {proc[r].cand}])
                      /\ Goto(r, "work")
     ELSE Break(r)
  /\ UNCHANGED <<left, Disk>>

\* The result needs the worktree: git status, the diff, the verification.
Work(r) ==
  /\ At(r, "work")
  /\ IF <<r, proc[r].cand>> \in trees
       THEN /\ Write(r, [runs[r] EXCEPT !.running = {}, !.path = @ \union {proc[r].cand}])
            /\ Goto(r, "decide")
       ELSE Break(r)
  /\ UNCHANGED <<left, Disk>>

\* What the evaluation of the round leads to.
Decide(r) ==
  /\ At(r, "decide") /\ ~runs[r].cancel
  /\ \/ WriteEnd(r, [runs[r] EXCEPT !.st = "waiting"])
     \/ WriteEnd(r, [runs[r] EXCEPT !.st = "failed"])
     \/ /\ runs[r].attempt < MaxAttempts
        /\ Write(r, [runs[r] EXCEPT !.attempt = @ + 1])
        /\ Goto(r, "plan")
     \/ /\ Write(r, [runs[r] EXCEPT !.st = "publishing", !.winner = proc[r].cand])
        /\ Goto(r, "integrate")
  /\ UNCHANGED <<left, Disk>>

(***************************************************************************)
(* Publishing: the patch of the winner is applied in a worktree of its own.*)
(***************************************************************************)
\* It is made, or the recorded one is reset and used again.
Integrate(r) ==
  /\ At(r, "integrate")
  /\ IF runs[r].integ # Nothing /\ <<r, runs[r].integ>> \in trees
       THEN Goto(r, "apply") /\ UNCHANGED <<runs, left, Disk>>
       ELSE Create(r, Integration(runs[r].winner), "integrated")

RecordIntegration(r) ==
  /\ At(r, "integrated")
  /\ Write(r, [runs[r] EXCEPT !.integ = Integration(runs[r].winner)])
  /\ Goto(r, "apply")
  /\ UNCHANGED <<left, Disk>>

\* Applied, verified and pushed, the worktree is removed; the branch stays.
Complete(r) ==
  /\ At(r, "apply")
  /\ IF <<r, runs[r].integ>> \in trees
       THEN /\ trees' = trees \ {<<r, runs[r].integ>>}
            /\ WriteEnd(r, [runs[r] EXCEPT !.st = "completed"])
       ELSE Break(r) /\ UNCHANGED trees
  /\ UNCHANGED <<left, branches, objects>>

\* The patch does not apply or does not verify: one more attempt, or the end.
Repair(r) ==
  /\ At(r, "apply") /\ <<r, runs[r].integ>> \in trees
  /\ IF runs[r].attempt < MaxAttempts
       THEN /\ trees' = trees \ {<<r, runs[r].integ>>}
            /\ Write(r, [runs[r] EXCEPT !.attempt = @ + 1, !.st = "ready", !.integ = Nothing])
            /\ Goto(r, "baseline")
       ELSE WriteEnd(r, [runs[r] EXCEPT !.st = "failed"]) /\ UNCHANGED trees
  /\ UNCHANGED <<left, branches, objects>>

(***************************************************************************)
(* Crash, resume, and gg cancel --abandon-worktrees.                       *)
(***************************************************************************)
Crash(r) == /\ ~At(r, "idle") /\ left > 0
            /\ left' = left - 1
            /\ End(r)
            /\ UNCHANGED <<runs, Disk>>

\* A run without its task brief is failed; else its interrupted candidates are, and
\* it goes on from ReadyForExecution, in its publication, or, its question answered,
\* with a new analysis and snapshot.
Resume(r) ==
  /\ At(r, "idle") /\ Known(r) /\ runs[r].st \notin Over /\ left > 0
  /\ Holders(runs[r].issue) = {}
  /\ left' = left - 1
  /\ IF runs[r].arts
       THEN /\ Write(r, [runs[r] EXCEPT !.running = {},
                           !.st = IF @ = "publishing" THEN @ ELSE "ready"])
            /\ proc' = [proc EXCEPT ![r] =
                 [pc |-> CASE runs[r].st = "publishing" -> "integrate"
                           [] runs[r].st = "waiting" -> "body"
                           [] OTHER -> "baseline",
                  issue |-> runs[r].issue, entry |-> "resume", cand |-> Nothing]]
       ELSE Write(r, [runs[r] EXCEPT !.st = "failed"]) /\ UNCHANGED proc
  /\ UNCHANGED Disk

\* The running candidates' recorded worktrees are abandoned and the cancellation is
\* left to the pipeline; a run nobody works on is cancelled at once.  (Cancelling
\* between the steps of a live process is the subject of Pipeline.)
Cancel(r) ==
  /\ Known(r) /\ runs[r].st \notin Over /\ ~runs[r].cancel /\ left > 0
  /\ At(r, "idle") \/ runs[r].running # {}
  /\ IF runs[r].running # {}
       THEN /\ Write(r, [runs[r] EXCEPT !.cancel = TRUE])
            /\ trees' = {t \in trees : ~(t[1] = r /\ t[2] \in runs[r].path)}
       ELSE Write(r, [runs[r] EXCEPT !.st = "cancelled"]) /\ UNCHANGED trees
  /\ left' = left - 1
  /\ UNCHANGED <<proc, branches, objects>>

Cancelled(r) == /\ (At(r, "plan") \/ At(r, "decide")) /\ runs[r].cancel
                /\ WriteEnd(r, [runs[r] EXCEPT !.st = "cancelled", !.running = {}])
                /\ UNCHANGED <<left, Disk>>

RunStep(r) ==
  \/ AlreadyClaimed(r) \/ Claim(r)
  \/ Put(r) \/ ReadBack(r) \/ CreateBaseline(r) \/ RecordBaseline(r)
  \/ Plan(r) \/ CreateCandidate(r) \/ RecordCandidate(r) \/ Work(r) \/ Decide(r)
  \/ Integrate(r) \/ RecordIntegration(r) \/ Complete(r) \/ Repair(r)
  \/ Crash(r) \/ Cancelled(r)
===============================================================================
