------------------------------ MODULE Publishing ------------------------------
(***************************************************************************)
(* _publish_winner: bring the winner's patch to an integration branch,     *)
(* verify it there, commit, push, open the pull request, comment on the    *)
(* issue, complete the run.  publishing_step records each side effect      *)
(* after it was made, so that a later process can go on from there.        *)
(***************************************************************************)
EXTENDS RunCore

BeginPublish == /\ pc = "publish"
                /\ CheckCancel("publishing", [mem EXCEPT !.st = "OutcomePublishing"])

\* The step is kept when there is one.  Without a PR nothing else is left to do;
\* with one, a committed integration branch is reused or a new one prepared.
Publishing ==
  /\ pc = "publishing"
  /\ LET r == [mem EXCEPT !.step = IF @ = "None" THEN "started" ELSE @]
         l == IF ctx.noPr THEN "local"
              ELSE IF r.step \in CommittedSteps THEN "reuse" ELSE "preflight"
     IN Save(r, l)
  /\ Quiet

Local == /\ pc = "local"
         /\ Go("outcome", [mem EXCEPT !.pr = 0, !.step = "local_no_pr"], ctx)
         /\ Quiet

\* _publishing_target: the integration artifact names branch and worktree.
Reuse == /\ pc = "reuse"
         /\ IF mem.integ = 0 THEN Fail ELSE Goto("pushCheck")
         /\ Quiet

Preflight == /\ pc = "preflight"
             /\ Save(mem, "integrate")
             /\ Quiet

\* The default branch cannot be synchronised, or the base is gone.
PublishRefused == /\ pc = "integrate"
                  /\ Fail
                  /\ Quiet

(***************************************************************************)
(* _prepare_integration_target.                                            *)
(***************************************************************************)
Reusable == /\ mem.integ # 0 /\ world.wt = mem.integ
            /\ mem.step \in {"integration_created", "patch_applied", "verified"}

\* The winner has no patch, or an empty one; once it was used, it has one.
NoPatch == /\ pc = "integrate" /\ mem.winner \notin DOMAIN world.tips
           /\ Goto("repair")
           /\ Quiet

\* git reset --hard: what was applied but not committed is gone.
ReuseWorktree ==
  /\ pc = "integrate" /\ Reusable
  /\ Save([mem EXCEPT !.step = "integration_created"], "apply")
  /\ Effect([world EXCEPT !.content = 0, !.checked = FALSE])
  /\ UNCHANGED <<op, used>>

\* git worktree add -b: the branch is named after the winner, and must be new.
CreateWorktree ==
  /\ pc = "integrate" /\ ~Reusable
  /\ IF mem.winner \in DOMAIN world.tips
       THEN Break /\ UNCHANGED world
       ELSE /\ Goto("integrated")
            /\ Effect([world EXCEPT !.wt = mem.winner, !.content = 0, !.checked = FALSE,
                                    !.tips = Put(@, mem.winner, 0)])
  /\ UNCHANGED <<op, used>>

RecordIntegration ==
  /\ pc = "integrated"
  /\ Save([mem EXCEPT !.step = "integration_created", !.integ = mem.winner], "apply")
  /\ Quiet

\* Faulty variant: commits without verifying.
ApplyUnverified == /\ pc = "apply"
                   /\ Save([mem EXCEPT !.step = "patch_applied"], "commit")
                   /\ Effect([world EXCEPT !.content = mem.winner])
                   /\ UNCHANGED <<op, used>>

Apply == /\ pc = "apply"
         /\ Save([mem EXCEPT !.step = "patch_applied"], "verify")
         /\ Effect([world EXCEPT !.content = mem.winner])
         /\ UNCHANGED <<op, used>>

Conflict == /\ pc = "apply"
            /\ Goto("repair")
            /\ Quiet

\* Faulty variant: records the commit before it is made.
VerifyRecordsCommit == /\ pc = "verify"
                       /\ Save([mem EXCEPT !.step = "committed"], "commit")
                       /\ Effect([world EXCEPT !.checked = TRUE])
                       /\ UNCHANGED <<op, used>>

Verify == /\ pc = "verify"
          /\ Save([mem EXCEPT !.step = "verified"], "commit")
          /\ Effect([world EXCEPT !.checked = TRUE])
          /\ UNCHANGED <<op, used>>

VerifyFails == /\ pc = "verify"
               /\ Goto("repair")
               /\ Quiet

\* Faulty variant: goes on to push without a write or a look at the run.
CommitAndPush ==
  /\ pc = "commit"
  /\ Goto("push")
  /\ Effect([world EXCEPT !.tips = Put(@, world.wt, world.content), !.content = 0,
                          !.good = IF world.checked THEN @ \cup {world.wt}
                                   ELSE @ \ {world.wt}])
  /\ UNCHANGED <<op, used>>

\* commit_all; nothing to commit is fine only if the branch has a commit already.
Commit ==
  /\ pc = "commit"
  /\ Goto("commits")
  /\ Effect([world EXCEPT !.tips = Put(@, world.wt, world.content), !.content = 0,
                          !.good = IF world.checked THEN @ \cup {world.wt}
                                   ELSE @ \ {world.wt}])
  /\ UNCHANGED <<op, used>>

NothingToCommit == /\ pc = "commit"
                   /\ IF world.tips[world.wt] = 0 THEN Fail ELSE Goto("commits")
                   /\ Quiet

Committed == /\ pc = "commits"
             /\ Save([mem EXCEPT !.step = "committed"], "pushCheck")
             /\ Quiet

(***************************************************************************)
(* _repair_after_publish_failure: with attempts left, the integration      *)
(* worktree goes (its branch stays) and the run executes once more.        *)
(***************************************************************************)
Abandon == /\ pc = "repair" /\ mem.attempt < MaxAttempts
           /\ Goto("repairing")
           /\ Effect([world EXCEPT !.wt = IF mem.integ = @ THEN 0 ELSE @])
           /\ UNCHANGED <<op, used>>

Repair == /\ pc = "repairing"
          /\ Save([mem EXCEPT !.attempt = @ + 1, !.step = "None",
                              !.st = "ReadyForExecution"], "select")
          /\ Quiet

RepairExhausted == /\ pc = "repair" /\ mem.attempt >= MaxAttempts
                   /\ Fail
                   /\ Quiet

(***************************************************************************)
(* The side effects outside the machine.                                   *)
(***************************************************************************)
CheckPush == /\ pc = "pushCheck"
             /\ CheckCancel(IF mem.step = "committed" THEN "push" ELSE "prCheck", mem)

Push == /\ pc = "push"
        /\ IF world.wt # mem.integ THEN Break /\ UNCHANGED world
           ELSE /\ Goto("pushed")
                /\ Effect([world EXCEPT !.pushed = Put(@, mem.integ,
                                                       world.tips[mem.integ])])
        /\ UNCHANGED <<op, used>>

RecordPush == /\ pc = "pushed"
              /\ Save([mem EXCEPT !.step = "branch_pushed"], "prCheck")
              /\ Quiet

CheckPR == /\ pc = "prCheck"
           /\ CheckCancel(IF mem.step = "branch_pushed" THEN "pr" ELSE "outcome", mem)

HasPR(b) == \E i \in 1..Len(world.prs) : world.prs[i] = b

\* Faulty variant: does not look for the pull request of the branch.
OpenAlways ==
  /\ pc = "pr"
  /\ IF mem.pr # 0
       THEN Goto("prOpened") /\ UNCHANGED world
       ELSE Go("prOpened", [mem EXCEPT !.pr = mem.integ], ctx)
            /\ Effect([world EXCEPT !.prs = Append(@, mem.integ)])
  /\ UNCHANGED <<op, used>>

\* The url the run has, or the open pull request of the branch, or a new one.
OpenPR ==
  /\ pc = "pr"
  /\ IF mem.pr # 0 \/ HasPR(mem.integ)
       THEN Go("prOpened", [mem EXCEPT !.pr = IF @ # 0 THEN @ ELSE mem.integ], ctx)
            /\ UNCHANGED world
       ELSE Go("prOpened", [mem EXCEPT !.pr = mem.integ], ctx)
            /\ Effect([world EXCEPT !.prs = Append(@, mem.integ)])
  /\ UNCHANGED <<op, used>>

\* The latest state decides: a cancelled run keeps the url, and ends.
CancelledWithPR ==
  /\ pc = "prOpened" /\ (disk.cancel \/ disk.st = "Cancelled")
  /\ IF disk.st = "Cancelled" \/ CanTransition(disk.st, "Cancelled")
       THEN Exit("returned") /\ disk' = [disk EXCEPT !.pr = mem.pr, !.st = "Cancelled"]
       ELSE Break
  /\ Quiet

KeepPR == /\ pc = "prOpened" /\ ~(disk.cancel \/ disk.st = "Cancelled")
          /\ Goto("prFound")
          /\ Quiet

RecordPR == /\ pc = "prFound"
            /\ Save([mem EXCEPT !.step = "pr_created"], "reviewCheck")
            /\ Quiet

CheckReview == /\ pc = "reviewCheck"
               /\ CheckCancel("outcome", mem)

\* The outcome and the final verification are artifacts of the run.
WriteOutcome == /\ pc = "outcome"
                /\ Save(mem, "gate")
                /\ Quiet

GateFails == /\ pc = "gate"
             /\ Fail
             /\ Quiet

\* Faulty variant: takes a pull request for a reported result.
GatePassesEarly ==
  /\ pc = "gate"
  /\ Goto(IF ctx.noPr \/ mem.step \in {"pr_created", "result_commented"}
            THEN "finish" ELSE "comment")
  /\ Quiet

GatePasses ==
  /\ pc = "gate"
  /\ Goto(IF ctx.noPr \/ mem.step = "result_commented" THEN "finish" ELSE "comment")
  /\ Quiet

\* publish_outcome comments once per run: it looks for its marker first.
Comment == /\ pc = "comment"
           /\ Goto("commented")
           /\ Effect([world EXCEPT !.commented = TRUE])
           /\ UNCHANGED <<op, used>>

\* Any exception of it, a throttled call too, fails the run.
CommentFails ==
  /\ pc = "comment"
  /\ \/ used.errors < MaxErrors /\ Spend("errors")
     \/ used.throttles < MaxThrottles /\ Spend("throttles")
  /\ Fail
  /\ UNCHANGED <<op, world>>

RecordComment == /\ pc = "commented"
                 /\ Save([mem EXCEPT !.step = "result_commented"], "finishCheck")
                 /\ Quiet

CheckFinish == /\ pc = "finishCheck"
               /\ CheckCancel("finish", mem)

\* The integration worktree is removed and the labels swapped.
Finish == /\ pc = "finish"
          /\ Goto("finished")
          /\ Effect([world EXCEPT !.wt = IF mem.integ = @ THEN 0 ELSE @])
          /\ UNCHANGED <<op, used>>

\* The done label of a local run is not optional; the review label is.
DoneFails == /\ pc = "finished" /\ ctx.noPr /\ used.errors < MaxErrors
             /\ Spend("errors")
             /\ Fail
             /\ UNCHANGED <<op, world>>

MarkDone == /\ pc = "finished"
            /\ Save([mem EXCEPT !.step = "done_marked"], "complete")
            /\ Quiet

Complete == /\ pc = "complete"
            /\ SaveReturn([mem EXCEPT !.st = "Completed", !.step = "completed"])
            /\ Quiet

\* git fails, or the platform fails or throttles the calls about the PR.
PublishingTrouble == Trouble({"integrate", "apply", "commit", "push", "pr"}, {"pr"})

PublishingStep ==
  \/ BeginPublish \/ Publishing \/ Local \/ Reuse \/ Preflight \/ PublishRefused
  \/ NoPatch \/ ReuseWorktree \/ CreateWorktree \/ RecordIntegration
  \/ Apply \/ Conflict \/ Verify \/ VerifyFails
  \/ Commit \/ NothingToCommit \/ Committed
  \/ Abandon \/ Repair \/ RepairExhausted
  \/ CheckPush \/ Push \/ RecordPush
  \/ CheckPR \/ OpenPR \/ CancelledWithPR \/ KeepPR \/ RecordPR \/ CheckReview
  \/ WriteOutcome \/ GateFails \/ GatePasses
  \/ Comment \/ CommentFails \/ RecordComment \/ CheckFinish
  \/ Finish \/ DoneFails \/ MarkDone \/ Complete
  \/ PublishingTrouble
===============================================================================
