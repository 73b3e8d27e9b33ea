----------------------------- MODULE Pushed_proofs -----------------------------
(* Only verified branches are pushed, whatever is reset, repaired, resumed or  *)
(* undone by the write of an old copy of the run on the way.                   *)
EXTENDS Pipeline_proofs

\* What a copy of the run says was published, as another says.
Same(r, q) == r.step = q.step /\ r.integ = q.integ /\ r.pr = q.pr

\* Where a step before the commit, or one after the report, is written.
Resetting == {"publishing", "local", "integrate", "integrated", "apply", "verify",
              "repairing", "finished", "complete"}

\* r says what the publication adds to the run in memory where the process is.
Recorded(r) ==
  \/ /\ pc \in Resetting /\ r.step \notin CommittedSteps
     /\ pc = "publishing" => mem.step = "None"
     /\ r.pr = mem.pr \/ (pc = "local" /\ r.pr = 0)
  \/ /\ <<pc, r.step>> \in {<<"commits", "committed">>, <<"pushed", "branch_pushed">>,
                           <<"prFound", "pr_created">>, <<"commented", "result_commented">>}
     /\ r.integ = mem.integ /\ r.pr = mem.pr
  \/ /\ pc = "pr" /\ mem.pr = 0 /\ Same(r, [mem EXCEPT !.pr = mem.integ])
     /\ HasPR(mem.integ) \/ world'.prs = Append(world.prs, mem.integ)
  \/ pc = "prOpened" /\ Same(r, [disk EXCEPT !.pr = mem.pr])

\* The copies of the run there are.
Copies == {disk, mem, ctx.copy, op.copy} \ {Absent}

\* r says what some copy of the run already said, or what is recorded now, unless it is
\* none, or the first.
Accounted(r) == \/ \E q \in Copies : Same(r, q)
                \/ Recorded(r)
                \/ r = Absent
                \/ r = NewRun /\ disk = Absent

\* Nobody holds a worker's copy but a worker that is to write it, and --no-pr is what it
\* was, or what the command says.
Kept == /\ \/ ctx'.copy = Absent
           \/ ctx'.copy = ctx.copy /\ (pc' = "update" => pc = "update")
           \/ Alike(ctx'.copy, disk) /\ disk # Absent /\ pc' = "update"
        /\ ctx'.noPr \in {ctx.noPr, FALSE} \cup Modes

Passed(c) == c.copy = ctx.copy /\ c.noPr = ctx.noPr

\* So does every copy a process has after the step.
Accounts == Accounted(disk') /\ Accounted(mem') /\ Kept

\* As the copies themselves do.
LEMMA Own == /\ Accounted(disk) /\ Accounted(mem) /\ Accounted(ctx.copy)
             /\ Accounted(op.copy) /\ Accounted(Absent)
             /\ disk = Absent => Accounted(NewRun)
             /\ Passed(ctx)
BY DEF Accounted, Same, Copies, Passed

\* What a worker loads says what the run on disk says.
LEMMA KeptAccounted == ASSUME Kept PROVE Accounted(ctx'.copy)
<1>1. ASSUME Alike(ctx'.copy, disk), disk # Absent PROVE Accounted(ctx'.copy)
  BY <1>1 DEF Accounted, Alike, Same, Copies
<1>2. QED BY <1>1, Own DEF Kept

\* Nothing but the step, the integration and the pull request matters.
LEMMA SameAccounted ==
  ASSUME NEW q \in {disk, mem, ctx.copy, op.copy}, Live(q), NEW r, Same(r, q)
  PROVE  Accounted(r)
BY Fresh DEF Accounted, Copies, Live

\* The same of what is recorded.
LEMMA SameRecorded ==
  ASSUME NEW q, Recorded(q), NEW r, Same(r, q) PROVE Recorded(r)
BY DEF Recorded, Same

\* The places of a process other than a worker's update.
Places == Labels \ {"update"}

\* A process that ends leaves what is on disk.
LEMMA ExitAccounts == ASSUME NEW how, Exit(how), Accounted(disk') PROVE Accounts
BY Own, Fresh DEF Exit, Accounts, Kept, IdleCtx

\* Raising writes nothing.
LEMMA RaiseAccounts == ASSUME Raise PROVE Accounts
BY ExitAccounts, Own DEF Raise

\* What a process goes on with is all it has in memory.
LEMMA GoAccounts ==
  ASSUME NEW l \in Places, NEW m, NEW c, Go(l, m, c), Accounted(m), Passed(c)
  PROVE  Accounts
BY Own DEF Go, Accounts, Kept, Passed, Places

\* So it is when it writes on the way.
LEMMA SaveAccounts ==
  ASSUME NEW l \in Places, NEW m, NEW c, SaveCtx(m, l, c), Accounted(m),
         Passed(c)
  PROVE  Accounts
<1>1. CASE Raise
  BY <1>1, RaiseAccounts
<1>2. CASE disk' = m /\ mem' = m /\ pc' = l /\ ctx' = c
  BY <1>2, Own DEF Accounts, Kept, Passed, Places
<1>3. QED BY <1>1, <1>2 DEF SaveCtx

\* The same of the write that ends a command.
LEMMA ReturnAccounts == ASSUME NEW m, SaveReturn(m), Accounted(m) PROVE Accounts
BY RaiseAccounts, ExitAccounts DEF SaveReturn

\* A failure or a limit is recorded beside what was published.
LEMMA BreakAccounts ==
  ASSUME ProcessInv, pc # "idle", Break \/ Fail \/ Throttle PROVE Accounts
<1>1. Live(mem) /\ mem \in Run
  BY RunLive DEF Live
<1> DEFINE r == [mem EXCEPT !.st = "Blocked", !.resumeTo = mem.st,
                            !.wait = TRUE, !.asks = FALSE]
<1>2. Same(Failed(mem), mem) /\ Same(r, mem)
  BY <1>1 DEF Run, Failed, Same
<1>3. Raise \/ SaveReturn(Failed(mem)) \/ SaveReturn(r)
  BY DEF Break, Fail, Throttle
<1> HIDE DEF r
<1>4. QED BY <1>1, <1>2, <1>3, SameAccounted, RaiseAccounts, ReturnAccounts

\* So is what the outside world refuses.
LEMMA TroubleAccounts ==
  ASSUME ProcessInv, NEW errors, NEW throttles, "idle" \notin errors \cup throttles,
         Trouble(errors, throttles)
  PROVE  Accounts
BY BreakAccounts DEF Trouble

\* A cancellation is written on the latest state.
LEMMA CheckCancelAccounts ==
  ASSUME ProcessInv, pc # "idle", NEW l \in Places, NEW m, CheckCancel(l, m), Accounted(m)
  PROVE  Accounts
<1>1. CASE Go(l, m, ctx)
  BY <1>1, Own, GoAccounts
<1>2. CASE Return
  BY <1>2, ExitAccounts, Own DEF Return
<1>3. CASE Exit("returned") /\ disk' = [disk EXCEPT !.st = "Cancelled"]
  <2>1. Live(disk) /\ Same(disk', disk)
    BY <1>3, RunLive DEF Live, Run, Same
  <2>2. QED BY <1>3, <2>1, SameAccounted, ExitAccounts
<1>4. CASE Break
  BY <1>4, BreakAccounts
<1>5. QED BY <1>1, <1>2, <1>3, <1>4 DEF CheckCancel, ActOnCancel
--------------------------------------------------------------------------------
\* Intake writes no step of the publication.
LEMMA IntakeAccounts == ASSUME ProcessInv, IntakeStep PROVE Accounts
<1>1. CASE RefuseDirty \/ MissingBrief \/ IntakeTrouble
  BY <1>1, BreakAccounts, TroubleAccounts DEF RefuseDirty, MissingBrief, IntakeTrouble
<1>2. CASE SelectIssue \/ Claim \/ StartAnalysis \/ Analyze \/ ResumePublishing
           \/ PlanRecovery \/ WaitLonger \/ AskAgain \/ Reconsider \/ Republish
           \/ BriefReady \/ Recover
  <2>1. Live(mem) /\ Accounted(mem) /\ pc # "idle"
    BY <1>2, RunLive, Own
    DEF SelectIssue, Claim, StartAnalysis, Analyze, ResumePublishing, PlanRecovery,
        WaitLonger, AskAgain, Reconsider, Republish, BriefReady, Recover
  <2>2. \/ Fail
        \/ \E m \in {mem, [mem EXCEPT !.st = "Claiming"],
                     [mem EXCEPT !.st = "TaskAnalysis"], [mem EXCEPT !.brief = TRUE],
                     [mem EXCEPT !.brief = TRUE, !.st = "ReadyForExecution"],
                     [mem EXCEPT !.running = 0],
                     [mem EXCEPT !.st = "ReadyForExecution", !.running = 0]} :
             \/ \E l \in Places : Go(l, m, ctx) \/ SaveCtx(m, l, ctx)
             \/ SaveReturn(m)
    BY <1>2
    DEF SelectIssue, Claim, StartAnalysis, Analyze, ResumePublishing, PlanRecovery,
        WaitLonger, AskAgain, Reconsider, Republish, BriefReady, Recover, Save, Goto, Places, Labels
  <2>3. CASE Fail
    BY <2>1, <2>3, BreakAccounts
  <2>4. CASE \E m : /\ Same(m, mem)
                    /\ \/ \E l \in Places : Go(l, m, ctx) \/ SaveCtx(m, l, ctx)
                       \/ SaveReturn(m)
    BY <2>1, <2>4, SameAccounted, Own, GoAccounts, SaveAccounts, ReturnAccounts
  <2>5. QED BY <2>1, <2>2, <2>3, <2>4 DEF Live, Run, Same
<1>3. CASE BriefBlocked \/ ContextTooLarge
  <2>1. Live(mem) /\ Accounted(mem) /\ pc # "idle"
    BY <1>3, RunLive, Own DEF BriefBlocked, ContextTooLarge
  <2>2. CASE Fail
    BY <2>1, <2>2, BreakAccounts
  <2>3. CASE \E m : Same(m, mem) /\ SaveReturn(m)
    BY <2>1, <2>3, SameAccounted, ReturnAccounts
  <2>4. QED BY <1>3, <2>1, <2>2, <2>3 DEF BriefBlocked, ContextTooLarge, Live, Run, Same
<1>4. CASE TakeComment \/ NoComment \/ Provide
  <2>1. Live(mem) /\ Accounted(mem) /\ pc # "idle" /\ Accounted(disk)
    BY <1>4, RunLive, Own DEF TakeComment, NoComment, Provide
  <2>2. Same(Answered, mem)
    BY <2>1 DEF Answered, Live, Run, Same
  <2>3. "answered" \in Places
    BY DEF Places, Labels
  <2>4. \/ Break \/ Go("answered", disk, ctx)
        \/ SaveCtx(Answered, "answered", ctx) \/ SaveReturn(Answered)
    BY <1>4 DEF TakeComment, NoComment, Provide, Save
  <2>5. QED
    BY <2>1, <2>2, <2>3, <2>4, SameAccounted, BreakAccounts, Own, GoAccounts, SaveAccounts,
       ReturnAccounts
<1>5. QED BY <1>1, <1>2, <1>3, <1>4 DEF IntakeStep

\* The rounds of candidates write none either; a worker's write is a stale copy, as
\* good as when it was taken.
LEMMA ExecutionAccounts == ASSUME ProcessInv, ExecutionStep PROVE Accounts
<1>1. CASE RuntimeLimit \/ CandidateLimit \/ GiveUp \/ ExecutionTrouble
  BY <1>1, BreakAccounts, TroubleAccounts
  DEF RuntimeLimit, CandidateLimit, GiveUp, ExecutionTrouble
<1>2. CASE SelectBlocked \/ DiskShort \/ AgentGone
  <2>1. Live(mem) /\ Accounted(mem) /\ pc # "idle"
        /\ (SaveReturn(Unavailable(mem)) \/ Break)
    BY <1>2, RunLive, Own DEF SelectBlocked, DiskShort, AgentGone
  <2>2. Same(Unavailable(mem), mem)
    BY <2>1 DEF Unavailable, Live, Run, Same
  <2>3. QED BY <2>1, <2>2, SameAccounted, ReturnAccounts, BreakAccounts
<1>3. CASE CheckPlan \/ CheckRound
  BY <1>3, CheckCancelAccounts, Own DEF CheckPlan, CheckRound, Places, Labels
<1>4. CASE SelectAgent \/ RunCandidates \/ Evaluate \/ NoProgress \/ AskInput \/ NextAttempt
           \/ Winner
  <2>1. Live(mem) /\ Accounted(mem)
    BY <1>4, RunLive, Own
    DEF SelectAgent, RunCandidates, Evaluate, NoProgress, AskInput, NextAttempt,
        Winner
  <2>2. \E m \in {mem, [mem EXCEPT !.st = "AgentSelection"],
                  [mem EXCEPT !.st = "AgentRunning"], Evaluated, Failed(Evaluated),
                  [mem EXCEPT !.st = "NeedsInput", !.resumeTo = "AgentRunning",
                              !.wait = FALSE, !.input = FALSE],
                  [mem EXCEPT !.attempt = @ + 1, !.st = "AgentRunning"]} :
          \/ \E l \in Places : Go(l, m, ctx) \/ SaveCtx(m, l, ctx)
          \/ SaveReturn(m)
    BY <1>4
    DEF SelectAgent, RunCandidates, Evaluate, NoProgress, AskInput, NextAttempt, Winner,
        Save, Goto, Places, Labels
  <2>3. PICK m : /\ Same(m, mem)
                 /\ \/ \E l \in Places : Go(l, m, ctx) \/ SaveCtx(m, l, ctx)
                    \/ SaveReturn(m)
    BY <2>1, <2>2 DEF Live, Run, Same, Evaluated, Failed
  <2>4. QED BY <2>1, <2>3, SameAccounted, Own, GoAccounts, SaveAccounts, ReturnAccounts
<1>5. CASE LaunchRound \/ StartBatch \/ BatchDone
  <2>1. Accounted(mem) /\ ctx \in Ctx
    BY Own DEF ProcessInv
  <2>2. PICK l, c : l \in Places /\ Passed(c) /\ (Go(l, mem, c) \/ SaveCtx(mem, l, c))
    <3>1. CASE LaunchRound
      <4>1. PICK n : SaveCtx(mem, "plan", [ctx EXCEPT !.todo = n, !.planned = 0])
        BY <3>1 DEF LaunchRound
      <4>2. QED BY <2>1, <4>1 DEF Ctx, Passed, Places, Labels
    <3>2. CASE StartBatch
      BY <2>1, <3>2 DEF StartBatch, Ctx, Passed, Places, Labels
    <3>3. CASE BatchDone
      <4>1. PICK n, f : Go("merge", mem, [ctx EXCEPT !.done = n, !.found = f, !.planned = 0])
        BY <3>3 DEF BatchDone
      <4>2. QED BY <2>1, <4>1 DEF Ctx, Passed, Places, Labels
    <3>4. QED BY <1>5, <3>1, <3>2, <3>3
  <2>3. QED BY <2>1, <2>2, Own, GoAccounts, SaveAccounts
<1>6. CASE PlanCandidate \/ MergeCancel \/ RecordResult
  <2>1. Live(mem) /\ Accounted(mem) /\ ctx \in Ctx
    BY <1>6, RunLive, Own DEF ProcessInv, PlanCandidate, MergeCancel, RecordResult
  <2>2. PICK l, m, c : /\ l \in Places /\ Same(m, mem) /\ Passed(c)
                       /\ Go(l, m, c) \/ SaveCtx(m, l, c)
    <3>1. CASE PlanCandidate
      <4> DEFINE n == IF ctx.planned = 0 THEN mem.round + 1 ELSE mem.round
                 m == [mem EXCEPT !.running = @ + 1, !.planned = ctx.planned + 1, !.round = n]
                 c == [ctx EXCEPT !.todo = @ - 1, !.planned = @ + 1]
      <4>1. SaveCtx(m, "plan", c)
        BY <3>1 DEF PlanCandidate
      <4> HIDE DEF n
      <4>2. Same(m, mem) /\ Passed(c)
        BY <2>1 DEF Live, Run, Same, Ctx, Passed
      <4>3. QED BY <4>1, <4>2 DEF Places, Labels
    <3>2. CASE MergeCancel
      BY <2>1, <3>2 DEF MergeCancel, Live, Run, Same, Passed, Places, Labels
    <3>3. CASE RecordResult
      <4> DEFINE m == [mem EXCEPT !.running = @ - 1]
                 c == [ctx EXCEPT !.done = @ - 1]
      <4>1. SaveCtx(m, "merge", c)
        BY <3>3 DEF RecordResult
      <4>2. Same(m, mem) /\ Passed(c)
        BY <2>1 DEF Live, Run, Same, Ctx, Passed
      <4>3. QED BY <4>1, <4>2 DEF Places, Labels
    <3>4. QED BY <1>6, <3>1, <3>2, <3>3
  <2>3. QED BY <2>1, <2>2, SameAccounted, Own, GoAccounts, SaveAccounts
<1>7. CASE UpdateLoad
  <2> PICK r : /\ Alike(r, disk)
               /\ Go("update", mem, [ctx EXCEPT !.copy = r, !.updates = @ + 1])
    BY <1>7, WorkerCopy
  <2>1. disk' = disk /\ mem' = mem /\ ctx'.copy = r
    BY DEF Go, ProcessInv, Ctx
  <2>2. pc' = "update" /\ ctx'.noPr = ctx.noPr /\ disk # Absent
    BY <1>7, RunLive, Fresh DEF Go, ProcessInv, Ctx, UpdateLoad, Live
  <2>3. QED BY <2>1, <2>2, Own DEF Accounts, Kept
<1>8. CASE UpdateWrite
  <2> DEFINE c == [ctx EXCEPT !.copy = Absent]
  <2>1. pc # "idle" /\ ctx \in Ctx /\ c.copy = Absent
    BY <1>8 DEF UpdateWrite, ProcessInv, Ctx
  <2>2. CASE Break
    BY <2>1, <2>2, BreakAccounts
  <2>3. CASE mem' = mem /\ ctx' = c /\ disk' \in {disk, ctx.copy}
    BY <2>1, <2>3, Own DEF Accounts, Kept
  <2>4. QED BY <1>8, <2>2, <2>3 DEF UpdateWrite, Go
<1>9. QED
  BY <1>1, <1>2, <1>3, <1>4, <1>5, <1>6, <1>7, <1>8 DEF ExecutionStep

\* Starting, stopping and the operator's commands pass on what was said.
LEMMA OthersAccount ==
  ASSUME TypeInv, Command \/ StartProvide \/ Crash \/ Signal \/ Operator
  PROVE  Accounts /\ Accounted(op'.copy)
<1>1. CASE Command \/ StartProvide
  <2>1. \A r \in {disk', mem'} : r = disk \/ (r = NewRun /\ disk = Absent)
    <3>1. CASE \E noPr \in Modes : Start(noPr)
      BY <3>1, Zenon DEF Start
    <3>2. CASE (\E noPr \in Modes : StartResume(noPr)) \/ StartProvide
      <4>1. \E l, c : Go(l, disk, c)
        BY <3>2 DEF StartResume, StartProvide
      <4>2. QED BY <4>1 DEF Go
    <3>3. QED BY <1>1, <3>1, <3>2 DEF Command
  <2>2. ctx'.copy = Absent /\ ctx'.noPr \in {FALSE} \cup Modes
    <3>1. CASE StartProvide
      BY <3>1, Fresh DEF StartProvide, Go, IdleCtx
    <3>2. CASE Command
      <4>1. PICK n \in Modes : Start(n) \/ StartResume(n)
        BY <3>2 DEF Command
      <4>2. PICK e : ctx' = [IdleCtx EXCEPT !.entry = e, !.noPr = n]
        BY <4>1 DEF Start, StartResume, Go
      <4>3. QED BY <4>2, Fresh DEF IdleCtx
    <3>3. QED BY <1>1, <3>1, <3>2
  <2>3. QED BY <1>1, <2>1, <2>2, OperatorAlone, Own DEF Accounts, Kept
<1>2. CASE Crash
  BY <1>2, OperatorAlone, ExitAccounts, Own DEF Crash
<1>3. CASE Signal
  <2>1. Live(disk) /\ ctx \in Ctx /\ op' = op /\ mem' = mem
    BY <1>3, RunLive, OperatorAlone DEF Signal, TypeInv, ProcessInv
  <2>2. Same(Interrupted(disk), disk)
    BY <2>1 DEF Interrupted, Live, Run, Same
  <2>3. disk' \in {disk, Interrupted(disk)} /\ pc' = pc
        /\ ctx'.copy = ctx.copy /\ ctx'.noPr = ctx.noPr
    BY <1>3, <2>1 DEF Signal, Ctx
  <2>4. QED BY <2>1, <2>2, <2>3, Own, SameAccounted DEF Accounts, Kept
<1>4. CASE Operator
  <2> DEFINE r == op.copy
             a == [r EXCEPT !.cancel = TRUE, !.asks = FALSE]
             b == [r EXCEPT !.st = "Cancelled", !.asks = FALSE]
             c == [r EXCEPT !.running = 0, !.attempt = @ + 1, !.st = "ReadyForExecution"]
  <2>1. r \in Run
    BY DEF TypeInv, OperatorInv
  <2>2. Same(a, r) /\ Same(b, r) /\ Same(c, r)
    BY <2>1 DEF Run, Same
  <2>3. /\ UNCHANGED <<mem, pc, ctx>>
        /\ disk' = disk \/ (op.kind # None /\ disk' \in {a, b, c})
        /\ op'.copy \in {disk, Absent}
    BY <1>4 DEF None, Operator, CancelLoad, RetryLoad, Load, CancelWrite, RetryWrite, NoOp
  <2> HIDE DEF a, b, c
  <2>4. op.kind # None => Live(op.copy)
    BY DEF TypeInv, OperatorInv
  <2>5. QED BY <2>2, <2>3, <2>4, Own, SameAccounted DEF Accounts, Kept
<1>5. QED BY <1>1, <1>2, <1>3, <1>4

\* The publication records a step where it was made, and a pull request once opened.
LEMMA PublishingAccounts ==
  ASSUME ProcessInv, WorldForm, PublishingStep
  PROVE  Accounts
<1>1. CASE PublishRefused \/ RepairExhausted \/ GateFails \/ CommentFails \/ DoneFails
           \/ PublishingTrouble
  BY <1>1, BreakAccounts, TroubleAccounts
  DEF PublishRefused, RepairExhausted, GateFails, CommentFails, DoneFails,
      PublishingTrouble
<1>2. CASE CheckPush \/ CheckPR \/ CheckReview \/ CheckFinish
  BY <1>2, Own, CheckCancelAccounts
  DEF CheckPush, CheckPR, CheckReview, CheckFinish, Places, Labels
<1>3. CASE BeginPublish
  <2>1. Live(mem) /\ Same([mem EXCEPT !.st = "OutcomePublishing"], mem)
    BY <1>3, RunLive DEF BeginPublish, Live, Run, Same
  <2>2. "publishing" \in Places
    BY DEF Places, Labels
  <2>3. QED BY <1>3, <2>1, <2>2, SameAccounted, CheckCancelAccounts DEF BeginPublish
<1>4. CASE Preflight \/ NoPatch \/ Conflict \/ VerifyFails \/ Abandon \/ KeepPR
           \/ WriteOutcome \/ GatePasses \/ Comment \/ Finish \/ Commit
  <2>1. \E l \in Places : Go(l, mem, ctx) \/ SaveCtx(mem, l, ctx)
    BY <1>4
    DEF Preflight, NoPatch, Conflict, VerifyFails, Abandon, KeepPR, WriteOutcome,
        GatePasses, Comment, Finish, Commit, Save, Goto, Places, Labels
  <2>2. QED BY <2>1, Own, GoAccounts, SaveAccounts
<1>5. CASE Reuse \/ CreateWorktree \/ NothingToCommit \/ Push
  <2>1. pc # "idle" /\ (Fail \/ Break \/ \E l \in Places : Go(l, mem, ctx))
    BY <1>5 DEF Reuse, CreateWorktree, NothingToCommit, Push, Goto, Places, Labels
  <2>2. QED BY <2>1, Own, GoAccounts, BreakAccounts
<1>6. CASE ReuseWorktree \/ RecordIntegration \/ Apply \/ Verify \/ Repair \/ MarkDone
           \/ Complete
  <2>1. Live(mem)
    BY <1>6, RunLive
    DEF ReuseWorktree, RecordIntegration, Apply, Verify, Repair, MarkDone, Complete
  <2>2. \E m \in {[mem EXCEPT !.step = "integration_created"],
                  [mem EXCEPT !.step = "integration_created", !.integ = mem.winner],
                  [mem EXCEPT !.step = "patch_applied"], [mem EXCEPT !.step = "verified"],
                  [mem EXCEPT !.attempt = @ + 1, !.step = "None",
                              !.st = "ReadyForExecution"],
                  [mem EXCEPT !.step = "done_marked"],
                  [mem EXCEPT !.st = "Completed", !.step = "completed"]} :
          \/ \E l \in Places : Go(l, m, ctx) \/ SaveCtx(m, l, ctx)
          \/ SaveReturn(m)
    BY <1>6
    DEF ReuseWorktree, RecordIntegration, Apply, Verify, Repair, MarkDone, Complete,
        Save, Places, Labels
  <2>3. PICK m : /\ m.step \in Steps \ CommittedSteps /\ m.pr = mem.pr
                 /\ \/ \E l \in Places : Go(l, m, ctx) \/ SaveCtx(m, l, ctx)
                    \/ SaveReturn(m)
    BY <2>1, <2>2 DEF Live, Run, Steps, CommittedSteps
  <2>4. pc \in Resetting \ {"publishing"}
    BY <1>6
    DEF ReuseWorktree, RecordIntegration, Apply, Verify, Repair, MarkDone, Complete,
        Resetting
  <2>5. Accounted(m)
    BY <2>3, <2>4 DEF Accounted, Recorded
  <2>6. QED BY <2>3, <2>5, Own, GoAccounts, SaveAccounts, ReturnAccounts
<1>7. CASE Publishing
  <2> DEFINE s == IF mem.step = "None" THEN "started" ELSE mem.step
             m == [mem EXCEPT !.step = s]
  <2>1. Live(mem)
    BY <1>7, RunLive DEF Publishing
  <2>2. s = mem.step \/ (s = "started" /\ mem.step = "None")
    OBVIOUS
  <2>3. \E l \in Places : SaveCtx(m, l, ctx)
    BY <1>7 DEF Publishing, Save, Places, Labels
  <2> HIDE DEF s
  <2>4. m.step = s /\ m.integ = mem.integ /\ m.pr = mem.pr
    BY <2>1 DEF Live, Run
  <2> HIDE DEF m
  <2>5. Accounted(m)
    <3>1. CASE s = mem.step
      BY <2>1, <2>4, <3>1, SameAccounted DEF Same
    <3>2. CASE s = "started" /\ mem.step = "None"
      BY <1>7, <2>4, <3>2
      DEF Publishing, Accounted, Recorded, Resetting, CommittedSteps
    <3>3. QED BY <2>2, <3>1, <3>2
  <2>6. QED BY <2>3, <2>5, Own, SaveAccounts
<1>8. CASE Committed \/ RecordPush \/ RecordPR \/ RecordComment
  <2>1. Live(mem)
    BY <1>8, RunLive DEF Committed, RecordPush, RecordPR, RecordComment
  <2>2. PICK s \in Steps, l \in Places :
          /\ SaveCtx([mem EXCEPT !.step = s], l, ctx)
          /\ <<pc, s>> \in {<<"commits", "committed">>, <<"pushed", "branch_pushed">>,
                           <<"prFound", "pr_created">>, <<"commented", "result_commented">>}
    BY <1>8 DEF Committed, RecordPush, RecordPR, RecordComment, Save, Steps, Places, Labels
  <2> DEFINE m == [mem EXCEPT !.step = s]
  <2>3. m.step = s /\ m.integ = mem.integ /\ m.pr = mem.pr
    BY <2>1 DEF Live, Run
  <2>4. Accounted(m)
    BY <2>2, <2>3 DEF Accounted, Recorded
  <2>5. QED BY <2>2, <2>4, Own, SaveAccounts
<1>9. CASE OpenPR
  <2> DEFINE m == [mem EXCEPT !.pr = mem.integ]
             k == [mem EXCEPT !.pr = IF @ # 0 THEN @ ELSE mem.integ]
  <2>1. Live(mem) /\ pc = "pr"
    BY <1>9, RunLive DEF OpenPR
  <2>2. \/ mem.pr # 0 /\ Go("prOpened", k, ctx)
        \/ mem.pr = 0 /\ HasPR(mem.integ) /\ Go("prOpened", k, ctx)
        \/ /\ mem.pr = 0 /\ Go("prOpened", m, ctx)
           /\ Effect([world EXCEPT !.prs = Append(@, mem.integ)])
    BY <1>9 DEF OpenPR
  <2>3. mem.pr = 0 => Recorded(m) /\ Accounted(m)
    <3>1. HasPR(mem.integ) \/ mem.pr # 0 \/ world'.prs = Append(world.prs, mem.integ)
      BY <2>2 DEF Effect, WorldForm, WorldFields
    <3>2. QED BY <2>1, <3>1 DEF Recorded, Accounted, Same
  <2>4. mem.pr # 0 => Same(k, mem)
    BY <2>1 DEF Live, Run, Same
  <2>5. mem.pr = 0 => Same(k, m)
    BY <2>1 DEF Live, Run, Same
  <2>6. Accounted(k)
    <3>1. CASE mem.pr # 0
      BY <2>1, <2>4, <3>1, SameAccounted
    <3>2. CASE mem.pr = 0
      <4> HIDE DEF k, m
      <4>1. Recorded(k)
        BY <2>3, <2>5, <3>2, SameRecorded
      <4>2. QED BY <4>1 DEF Accounted
    <3>3. QED BY <3>1, <3>2
  <2>7. "prOpened" \in Places
    BY DEF Places, Labels
  <2> HIDE DEF k, m
  <2>8. QED BY <2>2, <2>3, <2>6, <2>7, Own, GoAccounts
<1>10. CASE CancelledWithPR
  <2>1. CASE Break
    BY <1>10, <2>1, BreakAccounts DEF CancelledWithPR
  <2>2. CASE Exit("returned") /\ disk' = [disk EXCEPT !.pr = mem.pr, !.st = "Cancelled"]
    <3>1. Live(disk) /\ pc = "prOpened"
      BY <1>10, RunLive DEF CancelledWithPR
    <3>2. Same(disk', [disk EXCEPT !.pr = mem.pr])
      BY <2>2, <3>1 DEF Live, Run, Same
    <3>3. Accounted(disk')
      BY <3>1, <3>2 DEF Accounted, Recorded
    <3>4. QED BY <2>2, <3>3, ExitAccounts
  <2>3. QED BY <1>10, <2>1, <2>2 DEF CancelledWithPR
<1>11. CASE Local
  <2> DEFINE m == [mem EXCEPT !.pr = 0, !.step = "local_no_pr"]
  <2>1. m.step = "local_no_pr" /\ m.pr = 0
    BY <1>11, RunLive DEF Local, Live, Run
  <2>2. Accounted(m)
    BY <1>11, <2>1 DEF Local, Accounted, Recorded, Resetting, CommittedSteps
  <2>3. QED BY <1>11, <2>2, Own, GoAccounts DEF Local, Places, Labels
<1>12. QED
  BY <1>1, <1>2, <1>3, <1>4, <1>5, <1>6, <1>7, <1>8, <1>9, <1>10, <1>11 DEF PublishingStep

\* Nothing a step writes says more of the publication than was said or is recorded.
LEMMA NextAccounts ==
  ASSUME TypeInv, Next
  PROVE  \A r \in {disk', mem', ctx'.copy, op'.copy} : Accounted(r)
<1>1. CASE ProcessStep
  BY <1>1, OperatorAlone, Own, KeptAccounted, IntakeAccounts, ExecutionAccounts,
     PublishingAccounts
  DEF ProcessStep, Accounts, TypeInv, WorldInv, WorldForm
<1>2. CASE ~ProcessStep
  BY <1>2, OthersAccount, Own, KeptAccounted DEF Next, Accounts
<1>3. QED BY <1>1, <1>2

\* A run that does not exist, or is new, says nothing of the branches.
LEMMA SilentAtFirst == Truthful(Absent, world) /\ Truthful(NewRun, world)
<1>1. Absent.step = "None" /\ NewRun.step = "None"
  BY DEF Absent, NewRun
<1>2. QED BY <1>1 DEF Truthful, CommittedSteps

\* Every step leaves every copy of the run truthful about the world before it.
LEMMA NextTruthful ==
  ASSUME TypeInv, VerifiedInv, Next
  PROVE  \A r \in {disk', mem', ctx'.copy, op'.copy} : Truthful(r, world)
<1> SUFFICES ASSUME NEW r, Accounted(r) PROVE Truthful(r, world)
  BY NextAccounts
<1>1. /\ \A q \in {disk, mem, ctx.copy, op.copy, Absent, NewRun} : Truthful(q, world)
      /\ Done(pc, mem, ctx, world)
  BY SilentAtFirst DEF VerifiedInv
<1>2. ASSUME NEW q, Truthful(q, world), Same(r, q) PROVE Truthful(r, world)
  BY <1>2 DEF Same, Truthful
<1>3. CASE Recorded(r)
  <2>1. CASE r.step \notin CommittedSteps
    BY <2>1 DEF Truthful
  <2>2. CASE /\ pc \in {"commits", "pushed", "prFound", "commented"}
             /\ r.integ = mem.integ
    BY <1>1, <2>2 DEF Done, Truthful
  <2>3. CASE pc = "pr" /\ Same(r, [mem EXCEPT !.pr = mem.integ])
    <3>1. Live(mem)
      BY <2>3, RunLive DEF TypeInv
    <3>2. r.step = mem.step /\ r.integ = mem.integ
      BY <2>3, <3>1 DEF Live, Run, Same
    <3>3. QED BY <1>1, <3>2 DEF Truthful
  <2>4. CASE pc = "prOpened" /\ Same(r, [disk EXCEPT !.pr = mem.pr])
    <3>1. Live(disk)
      BY <2>4, RunLive DEF TypeInv
    <3>2. r.step = disk.step /\ r.integ = disk.integ
      BY <2>4, <3>1 DEF Live, Run, Same
    <3>3. QED BY <1>1, <3>2 DEF Truthful
  <2>5. QED BY <1>3, <2>1, <2>2, <2>3, <2>4 DEF Recorded
<1>4. QED BY <1>1, <1>2, <1>3 DEF Accounted, Copies
--------------------------------------------------------------------------------
\* What is good stays good, commits go to verified branches, pushes are of them.
LEMMA NextBacked ==
  ASSUME TypeInv, VerifiedInv, Next
  PROVE  world.good \subseteq world'.good /\ Backed(world')
<1>1. WorldForm
  BY DEF TypeInv, WorldInv, WorldForm
<1>2. CASE /\ world'.good = world.good /\ world'.tips = world.tips
           /\ world'.pushed = world.pushed
  BY <1>2 DEF VerifiedInv, Backed
<1>3. CASE Inward
  BY <1>2, <1>3, InwardKeepsWorld
<1>4. CASE Claim \/ Comment \/ ReuseWorktree \/ Apply \/ Verify \/ Abandon \/ Finish
           \/ OpenPR
  BY <1>1, <1>2, <1>4, OutwardFields DEF Stay, WorldFields
<1>5. CASE CreateWorktree
  <2>1. \/ world' = world
        \/ /\ world'.good = world.good /\ world'.pushed = world.pushed
           /\ world'.tips = Put(world.tips, mem.winner, 0)
    BY <1>1, <1>5, OutwardFields DEF Stay, WorldFields
  <2>2. \A b \in DOMAIN Put(world.tips, mem.winner, 0) :
          Put(world.tips, mem.winner, 0)[b] # 0
            => b \in DOMAIN world.tips /\ world.tips[b] # 0
    BY DEF Put
  <2>3. QED BY <1>2, <2>1, <2>2 DEF VerifiedInv, Backed
<1>6. CASE Commit
  <2>1. world.checked
    BY <1>6 DEF Commit, VerifiedInv, Done
  <2>2. /\ world'.good = world.good \cup {world.wt} /\ world'.pushed = world.pushed
        /\ world'.tips = Put(world.tips, world.wt, world.content)
    BY <1>1, <1>6, <2>1, OutwardFields DEF Stay, WorldFields
  <2>3. \A b \in DOMAIN Put(world.tips, world.wt, world.content) :
          b = world.wt \/ (b \in DOMAIN world.tips
                           /\ Put(world.tips, world.wt, world.content)[b] = world.tips[b])
    BY DEF Put
  <2>4. QED BY <2>2, <2>3 DEF VerifiedInv, Backed
<1>7. CASE Push
  <2>1. mem.integ \in world.good
    BY <1>7 DEF Push, VerifiedInv, Done, Truthful
  <2>2. \/ world' = world
        \/ /\ world'.good = world.good /\ world'.tips = world.tips
           /\ world'.pushed = Put(world.pushed, mem.integ, world.tips[mem.integ])
    BY <1>1, <1>7, OutwardFields DEF Stay, WorldFields
  <2>3. DOMAIN Put(world.pushed, mem.integ, world.tips[mem.integ])
        = DOMAIN world.pushed \cup {mem.integ}
    BY PutDomain, Zenon
  <2>4. QED BY <1>2, <2>1, <2>2, <2>3 DEF VerifiedInv, Backed
<1>8. QED BY <1>3, <1>4, <1>5, <1>6, <1>7, InwardOrOutward DEF Outward

\* The places of the publication where something is known to have been done.
Special == {"integrated", "apply", "verify", "commit", "commits", "reuse", "pushCheck",
            "push", "pushed", "prCheck", "pr", "prOpened", "prFound", "reviewCheck",
            "comment", "commented", "local", "outcome", "gate"}

\* Elsewhere nothing is.
LEMMA DoneElsewhere ==
  ASSUME NEW l, l \notin Special, NEW m, NEW c, NEW w PROVE Done(l, m, c, w)
BY DEF Special, Done

\* The places of the publication past its begin.
Inside == Special \cup {"integrate", "preflight", "repair", "repairing", "finishCheck",
                        "finish", "finished", "complete"}

\* Only the publication goes to these places.
LEMMA OthersElsewhere ==
  ASSUME IntakeStep \/ ExecutionStep \/ Command \/ StartProvide \/ Crash
  PROVE  pc' \notin Inside
<1>1. CASE IntakeStep
  BY <1>1, EndsElsewhere
  DEF IntakeStep, SelectIssue, RefuseDirty, Claim, StartAnalysis, Analyze, BriefReady,
      BriefBlocked, ContextTooLarge, MissingBrief, WaitLonger, TakeComment, NoComment,
      AskAgain, Reconsider, ResumePublishing, Republish, PlanRecovery, Recover, Provide,
      IntakeTrouble, Save, Goto, Go, Special, Inside
<1>2. CASE ExecutionStep
  <2>1. CASE SelectBlocked \/ SelectAgent \/ DiskShort \/ RunCandidates \/ RuntimeLimit
             \/ AgentGone \/ CandidateLimit \/ CheckPlan \/ CheckRound
    BY <2>1, EndsElsewhere
    DEF SelectBlocked, SelectAgent, DiskShort, RunCandidates, RuntimeLimit, AgentGone,
        CandidateLimit, CheckPlan, CheckRound, Save, Special, Inside
  <2>2. CASE LaunchRound \/ PlanCandidate \/ RecordResult
    <3>1. \E l \in {"plan", "merge"} : \E m, c : SaveCtx(m, l, c)
      BY <2>2, Zenon DEF LaunchRound, PlanCandidate, RecordResult
    <3>2. QED BY <3>1, EndsElsewhere DEF Special, Inside
  <2>3. CASE StartBatch \/ UpdateLoad \/ UpdateWrite \/ BatchDone \/ MergeCancel
    BY <2>3, EndsElsewhere
    DEF StartBatch, UpdateLoad, UpdateWrite, BatchDone, MergeCancel, Go, Special, Inside
  <2>4. CASE Evaluate \/ NoProgress \/ AskInput \/ NextAttempt \/ GiveUp \/ Winner
             \/ ExecutionTrouble
    BY <2>4, EndsElsewhere
    DEF Evaluate, NoProgress, AskInput, NextAttempt, GiveUp, Winner, ExecutionTrouble,
        Save, Goto, Go, Special, Inside
  <2>5. QED BY <1>2, <2>1, <2>2, <2>3, <2>4 DEF ExecutionStep
<1>3. CASE Command \/ StartProvide \/ Crash
  BY <1>3 DEF Command, Start, StartResume, StartProvide, Crash, Exit, Go, Special, Inside
<1>4. QED BY <1>1, <1>2, <1>3

\* In the publication what a place needs was done on the way to it.
LEMMA PublishingDone ==
  ASSUME TypeInv, VerifiedInv, PublishingStep
  PROVE  Done(pc', mem', ctx', world')
<1>1. WorldForm /\ ctx \in Ctx
  BY DEF TypeInv, WorldInv, WorldForm, ProcessInv
<1>2. Done(pc, mem, ctx, world) /\ (pc # "idle" => Live(mem))
  BY RunLive DEF TypeInv, VerifiedInv
<1>3. CASE pc' \notin Special
  BY <1>3, DoneElsewhere
<1>4. CASE BeginPublish \/ PublishRefused \/ Preflight \/ NoPatch \/ Conflict \/ VerifyFails
           \/ Abandon \/ Repair \/ RepairExhausted \/ RecordComment \/ CheckFinish \/ Finish
           \/ GateFails \/ CommentFails \/ DoneFails \/ MarkDone \/ Complete
           \/ PublishingTrouble \/ CancelledWithPR
  <2>1. pc' \notin Special
    BY <1>4, EndsElsewhere
    DEF BeginPublish, PublishRefused, Preflight, NoPatch, Conflict, VerifyFails, Abandon,
        Repair, RepairExhausted, RecordComment, CheckFinish, Finish, GateFails,
        CommentFails, DoneFails, MarkDone, Complete, PublishingTrouble, CancelledWithPR,
        Save, Goto, Go, Exit, Special
  <2>2. QED BY <2>1, DoneElsewhere
<1>5. CASE Publishing
  <2> DEFINE s == IF mem.step = "None" THEN "started" ELSE mem.step
             m == [mem EXCEPT !.step = s]
             l == IF ctx.noPr THEN "local"
                  ELSE IF m.step \in CommittedSteps THEN "reuse" ELSE "preflight"
  <2>1. pc' = "idle" \/ (pc' = l /\ mem' = m /\ ctx' = ctx)
    BY <1>5, EndsElsewhere DEF Publishing, Save
  <2>2. \/ pc' \notin Special
        \/ pc' = "local" /\ ctx'.noPr
        \/ pc' = "reuse" /\ mem'.step \in CommittedSteps
    BY <2>1 DEF Special
  <2>3. QED BY <2>2, DoneElsewhere DEF Done
<1>6. CASE Local
  BY <1>2, <1>6 DEF Local, Go, Done
<1>7. CASE Reuse
  BY <1>2, <1>3, <1>7, EndsElsewhere DEF Reuse, Goto, Go, Done, Special
<1>8. CASE ReuseWorktree \/ Apply \/ Verify
  <2>1. world'.wt = world.wt /\ (Verify => world'.checked)
    BY <1>1, <1>8, OutwardFields DEF Stay, WorldFields
  <2>2. PICK s \in Steps, l \in {"apply", "verify", "commit"} :
          /\ SaveCtx([mem EXCEPT !.step = s], l, ctx)
          /\ l = "commit" => Verify
    BY <1>8 DEF ReuseWorktree, Apply, Verify, Save, Steps
  <2>3. world.wt = mem.integ
    BY <1>2, <1>8 DEF ReuseWorktree, Apply, Verify, Reusable, Done
  <2>4. [mem EXCEPT !.step = s].integ = mem.integ
    BY <1>2, <1>8 DEF ReuseWorktree, Apply, Verify, Live, Run
  <2>5. pc' = "idle" \/ (pc' = l /\ mem' = [mem EXCEPT !.step = s] /\ ctx' = ctx)
    BY <2>2, EndsElsewhere
  <2>6. QED BY <1>3, <2>1, <2>2, <2>3, <2>4, <2>5 DEF Special, Done
<1>9. CASE CreateWorktree
  <2>1. CASE Break
    BY <1>3, <2>1, EndsElsewhere DEF Special
  <2>2. CASE Goto("integrated")
    <3>1. mem.winner \notin DOMAIN world.tips
          /\ Effect([world EXCEPT !.wt = mem.winner, !.content = 0, !.checked = FALSE,
                                  !.tips = Put(@, mem.winner, 0)])
      BY <1>9, <2>2, EndsElsewhere DEF CreateWorktree, Goto, Go
    <3>2. world'.wt = mem.winner
      BY <1>1, <3>1 DEF Effect, WorldForm, WorldFields
    <3>3. QED BY <2>2, <3>2 DEF Goto, Go, Done
  <2>3. QED BY <1>9, <2>1, <2>2 DEF CreateWorktree
<1>10. CASE RecordIntegration
  <2> DEFINE m == [mem EXCEPT !.step = "integration_created", !.integ = mem.winner]
  <2>1. pc' = "idle" \/ (pc' = "apply" /\ mem' = m)
    BY <1>10, EndsElsewhere DEF RecordIntegration, Save
  <2>2. m.integ = mem.winner /\ world' = world /\ world.wt = mem.winner
    BY <1>2, <1>10 DEF RecordIntegration, Quiet, Live, Run, Done
  <2>3. QED BY <1>3, <2>1, <2>2 DEF Special, Done
<1>11. CASE Commit
  <2>1. world'.good = world.good \cup {world.wt}
    BY <1>1, <1>2, <1>11, OutwardFields DEF Commit, Done
  <2>2. pc' = "commits" /\ mem' = mem /\ world.wt = mem.integ
    BY <1>2, <1>11 DEF Commit, Goto, Go, Done
  <2>3. QED BY <2>1, <2>2 DEF Done
<1>12. CASE NothingToCommit
  <2>1. CASE Fail
    BY <1>3, <2>1, EndsElsewhere DEF Special
  <2>2. CASE world.tips[world.wt] # 0 /\ Goto("commits")
    <3>1. world.wt = mem.integ /\ mem.integ # 0 /\ world' = world
      BY <1>2, <1>12 DEF NothingToCommit, Quiet, Done, TypeInv, ProcessInv, At
    <3>2. world.wt \in DOMAIN world.tips
      BY <3>1 DEF TypeInv, WorldInv
    <3>3. world.wt \in world.good
      BY <2>2, <3>2 DEF VerifiedInv, Backed
    <3>4. QED BY <2>2, <3>1, <3>3 DEF Goto, Go, Done
  <2>3. QED BY <1>12, <2>1, <2>2 DEF NothingToCommit
<1>13. CASE Committed \/ RecordPush \/ RecordPR
  <2>1. PICK s \in CommittedSteps, l \in {"pushCheck", "prCheck", "reviewCheck"} :
          SaveCtx([mem EXCEPT !.step = s], l, ctx)
    BY <1>13 DEF Committed, RecordPush, RecordPR, Save, CommittedSteps
  <2>2. [mem EXCEPT !.step = s].step = s
    BY <1>2, <1>13 DEF Committed, RecordPush, RecordPR, Live, Run
  <2>3. pc' = "idle" \/ (pc' = l /\ mem' = [mem EXCEPT !.step = s])
    BY <2>1, EndsElsewhere
  <2>4. QED BY <1>3, <2>1, <2>2, <2>3 DEF Special, Done
<1>14. CASE CheckPush \/ CheckPR \/ CheckReview
  <2>1. mem.step \in CommittedSteps
    BY <1>2, <1>14 DEF CheckPush, CheckPR, CheckReview, Done
  <2>2. PICK l \in {"push", "prCheck", "pr", "outcome"} : CheckCancel(l, mem)
    BY <1>14 DEF CheckPush, CheckPR, CheckReview
  <2>3. pc' = "idle" \/ (pc' = l /\ mem' = mem)
    BY <2>2, EndsElsewhere
  <2>4. QED BY <1>3, <2>1, <2>2, <2>3 DEF Special, Done
<1>15. CASE Push
  <2>1. pc' = "idle" \/ (pc' = "pushed" /\ mem' = mem)
    BY <1>15, EndsElsewhere DEF Push, Goto, Go
  <2>2. QED BY <1>2, <1>3, <1>15, <2>1 DEF Push, Special, Done
<1>16. CASE OpenPR \/ KeepPR
  <2>1. mem.step \in CommittedSteps /\ Live(mem)
    BY <1>2, <1>16 DEF OpenPR, KeepPR, Done
  <2>2. \/ Go("prFound", mem, ctx)
        \/ \E b : Go("prOpened", [mem EXCEPT !.pr = b], ctx)
    BY <1>16 DEF OpenPR, KeepPR, Goto
  <2>3. pc' \in {"prFound", "prOpened"} /\ mem'.step = mem.step
    BY <2>1, <2>2 DEF Go, Live, Run
  <2>4. QED BY <2>1, <2>3 DEF Done
<1>17. CASE WriteOutcome \/ GatePasses
  <2>1. ctx.noPr \/ mem.step \in CommittedSteps
    BY <1>2, <1>17 DEF WriteOutcome, GatePasses, Done
  <2>2. \/ pc' \in {"idle", "finish"}
        \/ pc' = "gate" /\ mem' = mem /\ ctx' = ctx
        \/ pc' = "comment" /\ mem' = mem /\ ~ctx.noPr
    BY <1>17, EndsElsewhere DEF WriteOutcome, GatePasses, Save, Goto, Go
  <2>3. QED BY <1>3, <2>1, <2>2 DEF Special, Done
<1>18. CASE Comment
  BY <1>2, <1>18 DEF Comment, Goto, Go, Done
<1>19. QED
  BY <1>4, <1>5, <1>6, <1>7, <1>8, <1>9, <1>10, <1>11, <1>12, <1>13, <1>14, <1>15, <1>16,
     <1>17, <1>18 DEF PublishingStep

\* So it holds wherever a process gets to, whoever steps.
LEMMA NextDone ==
  ASSUME TypeInv, VerifiedInv, Next
  PROVE  Done(pc', mem', ctx', world')
<1>1. CASE PublishingStep
  BY <1>1, PublishingDone
<1>2. CASE IntakeStep \/ ExecutionStep \/ Command \/ StartProvide \/ Crash
  BY <1>2, OthersElsewhere, DoneElsewhere DEF Inside
<1>3. CASE Signal \/ Operator
  <2>1. world' = world
    BY <1>3, InwardKeepsWorld DEF Inward
  <2>2. ctx \in Ctx
    BY DEF TypeInv, ProcessInv
  <2>3. pc' = pc /\ mem' = mem /\ ctx'.noPr = ctx.noPr
    BY <1>3, <2>2
    DEF Signal, Operator, CancelLoad, RetryLoad, Load, CancelWrite, RetryWrite, Ctx
  <2>4. QED BY <2>1, <2>3 DEF VerifiedInv, Done
<1>4. QED BY <1>1, <1>2, <1>3 DEF Next, ProcessStep
--------------------------------------------------------------------------------
\* The invariant is inductive, together with that of the types.
LEMMA VerifiedStep == ASSUME TypeInv, VerifiedInv, [Next]_vars PROVE VerifiedInv'
<1>1. CASE UNCHANGED vars
  BY <1>1 DEF vars, VerifiedInv, Truthful, Done, Backed
<1>2. CASE Next
  <2>1. \A r \in {disk', mem', ctx'.copy, op'.copy} : Truthful(r, world')
    BY <1>2, NextTruthful, NextBacked DEF Truthful
  <2>2. QED BY <1>2, <2>1, NextBacked, NextDone DEF VerifiedInv
<1>3. QED BY <1>1, <1>2

\* Before the run is created nothing is done and nothing is claimed.
LEMMA VerifiedInit == Init => VerifiedInv
<1> SUFFICES ASSUME Init PROVE VerifiedInv
  OBVIOUS
<1>1. \A r \in {disk, mem, ctx.copy, op.copy} : Truthful(r, world)
  BY SilentAtFirst, Fresh DEF Init, NoOp
<1>2. Done(pc, mem, ctx, world)
  BY DoneElsewhere DEF Init, Special
<1>3. Backed(world)
  BY DEF Init, Backed
<1>4. QED BY <1>1, <1>2, <1>3 DEF VerifiedInv

\* What is on the remote passed the verification in the integration worktree: no
\* interleaving of processes, kills, repairs, retries and stale writes pushes a branch
\* on which the verification was not run.
THEOREM PushedVerified == Spec => []PushedIsVerified
<1>1. VerifiedInv => PushedIsVerified
  BY DEF VerifiedInv, Backed, PushedIsVerified
<1>2. QED BY <1>1, TypeInvariant, VerifiedInit, VerifiedStep, PTL DEF Spec

(***************************************************************************)
(* The steps tell the truth about the outside world: StepsInv.             *)
(***************************************************************************)

\* Branches and their commits stay.
TipsStay ==
  \A b \in DOMAIN world.tips : /\ b \in DOMAIN world'.tips
                               /\ world.tips[b] # 0 => world'.tips[b] # 0

\* What the outside world never takes back.
Grows == /\ TipsStay
         /\ DOMAIN world.pushed \subseteq DOMAIN world'.pushed
         /\ \A b : Opened(world, b) => Opened(world', b)
         /\ world.commented => world'.commented

\* A branch put to v.
LEMMA PutValue ==
  ASSUME NEW f, NEW b, NEW v
  PROVE  /\ Put(f, b, v)[b] = v
         /\ \A x \in DOMAIN f : x # b => Put(f, b, v)[x] = f[x]
BY DEF Put

\* A pull request opened last leaves the others open.
LEMMA AppendOpens ==
  ASSUME NEW s \in Seq(Nat), NEW n \in Nat, NEW w, NEW v, w.prs = s, v.prs = Append(s, n)
  PROVE  v.prs \in Seq(Nat) /\ Opened(v, n) /\ \A b : Opened(w, b) => Opened(v, b)
<1>1. /\ v.prs \in Seq(Nat) /\ Len(v.prs) = Len(s) + 1 /\ v.prs[Len(s) + 1] = n
      /\ \A i \in 1..Len(s) : v.prs[i] = s[i]
      /\ Len(s) \in Nat
  OBVIOUS
<1>2. Opened(v, n)
  BY <1>1 DEF Opened
<1>3. ASSUME NEW b, Opened(w, b) PROVE Opened(v, b)
  BY <1>1, <1>3 DEF Opened
<1>4. QED BY <1>1, <1>2, <1>3

\* No step undoes a commit, a push, a pull request or the comment.
LEMMA WorldGrows ==
  ASSUME TypeInv, VerifiedInv, StepsInv, Next
  PROVE  Grows /\ world'.prs \in Seq(Nat) /\ 0 \notin DOMAIN world'.tips
<1>1. WorldForm /\ world.prs \in Seq(Nat) /\ 0 \notin DOMAIN world.tips
  BY DEF TypeInv, WorldInv, WorldForm, StepsInv
<1> DEFINE Tips == TipsStay /\ 0 \notin DOMAIN world'.tips
           Rest == Grows /\ world'.prs \in Seq(Nat) /\ 0 \notin DOMAIN world'.tips
<1>2. world'.tips = world.tips => Tips
  BY <1>1 DEF TipsStay
<1>3. /\ Tips /\ DOMAIN world.pushed \subseteq DOMAIN world'.pushed
      /\ world'.prs = world.prs /\ (world.commented => world'.commented)
      => Rest
  BY <1>1 DEF Grows, Opened
<1> HIDE DEF Tips, Rest
<1>4. /\ world'.tips = world.tips /\ world'.pushed = world.pushed
      /\ world'.prs = world.prs /\ (world.commented => world'.commented)
      => Rest
  BY <1>2, <1>3
<1> SUFFICES Rest
  BY DEF Rest
<1>5. CASE Inward
  BY <1>4, <1>5, InwardKeepsWorld
<1>6. CASE Claim \/ Comment \/ ReuseWorktree \/ Apply \/ Verify \/ Abandon \/ Finish
  BY <1>1, <1>4, <1>6, OutwardFields DEF Stay, WorldFields
<1>7. CASE CreateWorktree
  <2>1. mem.winner # 0
    BY <1>7 DEF CreateWorktree, TypeInv, ProcessInv, At
  <2>2. \/ world' = world
        \/ /\ world'.pushed = world.pushed /\ world'.prs = world.prs
           /\ world'.commented = world.commented /\ mem.winner \notin DOMAIN world.tips
           /\ world'.tips = Put(world.tips, mem.winner, 0)
    BY <1>1, <1>7, OutwardFields DEF Stay, WorldFields
  <2>3. CASE world' # world
    <3>1. DOMAIN Put(world.tips, mem.winner, 0) = DOMAIN world.tips \cup {mem.winner}
      BY PutDomain, Zenon
    <3>2. \A b \in DOMAIN world.tips : world'.tips[b] = world.tips[b]
      BY <2>2, <2>3, PutValue
    <3>3. Tips
      BY <1>1, <2>1, <2>2, <2>3, <3>1, <3>2 DEF Tips, TipsStay
    <3>4. QED BY <1>3, <2>2, <2>3, <3>3
  <2>4. QED BY <1>4, <2>3
<1>8. CASE Commit
  <2>1. world.wt = mem.integ /\ mem.integ # 0 /\ world.content # 0
    BY <1>8 DEF Commit, VerifiedInv, Done, StepsInv, Made, TypeInv, ProcessInv, At
  <2>2. /\ world'.pushed = world.pushed /\ world'.prs = world.prs
        /\ world'.commented = world.commented
        /\ world'.tips = Put(world.tips, world.wt, world.content)
    BY <1>1, <1>8, OutwardFields DEF Stay, WorldFields
  <2>3. DOMAIN Put(world.tips, world.wt, world.content) = DOMAIN world.tips \cup {world.wt}
    BY PutDomain, Zenon
  <2>4. \A b \in DOMAIN world.tips : world'.tips[b] \in {world.tips[b], world.content}
    BY <2>2, PutValue
  <2>5. Tips
    BY <1>1, <2>1, <2>2, <2>3, <2>4 DEF Tips, TipsStay
  <2>6. QED BY <1>3, <2>2, <2>5
<1>9. CASE Push
  <2>1. \/ world' = world
        \/ /\ world'.tips = world.tips /\ world'.prs = world.prs
           /\ world'.commented = world.commented
           /\ world'.pushed = Put(world.pushed, mem.integ, world.tips[mem.integ])
    BY <1>1, <1>9, OutwardFields DEF Stay, WorldFields
  <2>2. CASE world' # world
    <3>1. DOMAIN Put(world.pushed, mem.integ, world.tips[mem.integ])
          = DOMAIN world.pushed \cup {mem.integ}
      BY PutDomain, Zenon
    <3>2. QED BY <1>2, <1>3, <2>1, <2>2, <3>1
  <2>3. QED BY <1>4, <2>2
<1>10. CASE OpenPR
  <2>1. mem.integ \in Nat
    BY <1>10, RunLive DEF OpenPR, TypeInv, Live, Run
  <2>2. \/ world' = world
        \/ /\ world'.tips = world.tips /\ world'.pushed = world.pushed
           /\ world'.commented = world.commented
           /\ world'.prs = Append(world.prs, mem.integ)
    BY <1>1, <1>10, OutwardFields DEF Stay, WorldFields
  <2>3. CASE world' # world
    BY <1>1, <1>2, <2>1, <2>2, <2>3, AppendOpens DEF Grows, Rest, Tips
  <2>4. QED BY <1>4, <2>3
<1>11. QED BY <1>5, <1>6, <1>7, <1>8, <1>9, <1>10, InwardOrOutward DEF Outward

\* A run that does not exist, or is new, claims nothing.
LEMMA ClaimsAtFirst == ASSUME NEW w PROVE Claims(Absent, w) /\ Claims(NewRun, w)
<1>1. Absent.step = "None" /\ NewRun.step = "None" /\ Absent.pr = 0 /\ NewRun.pr = 0
  BY DEF Absent, NewRun
<1>2. QED BY <1>1 DEF Claims, CommittedSteps, Reported

\* Every step leaves every copy of the run with claims that are true after it.
LEMMA NextClaims ==
  ASSUME TypeInv, VerifiedInv, StepsInv, Next
  PROVE  \A r \in {disk', mem', ctx'.copy, op'.copy} : Claims(r, world')
<1> SUFFICES ASSUME NEW r, Accounted(r) PROVE Claims(r, world')
  BY NextAccounts
<1>1. /\ \A q \in {disk, mem, ctx.copy, op.copy, Absent, NewRun} : Claims(q, world)
      /\ Done(pc, mem, ctx, world) /\ Made(pc, mem, ctx, world)
  BY ClaimsAtFirst DEF StepsInv, VerifiedInv
<1>2. Grows
  BY WorldGrows
<1>3. ASSUME NEW q, Claims(q, world) PROVE Claims(q, world')
  <2>1. q.step \in CommittedSteps =>
          q.integ \in DOMAIN world'.tips /\ world'.tips[q.integ] # 0
    BY <1>2, <1>3 DEF Claims, Grows, TipsStay
  <2>2. q.step \in CommittedSteps \ {"committed"} => q.integ \in DOMAIN world'.pushed
    BY <1>2, <1>3 DEF Claims, Grows
  <2>3. q.pr # 0 => Opened(world', q.pr)
    BY <1>2, <1>3 DEF Claims, Grows
  <2>4. q.step = "result_commented" => world'.commented
    BY <1>2, <1>3, Zenon DEF Claims, Grows
  <2>5. q.step \in Reported => q.pr # 0
    BY <1>3 DEF Claims
  <2>6. QED BY <2>1, <2>2, <2>3, <2>4, <2>5 DEF Claims
<1>4. ASSUME NEW q, NEW w, Claims(q, w), Same(r, q) PROVE Claims(r, w)
  BY <1>4 DEF Same, Claims
<1>5. CASE Recorded(r)
  <2>1. CASE r.step \notin CommittedSteps /\ r.pr \in {0, mem.pr}
    <3>1. r.pr # 0 => Opened(world, r.pr)
      BY <1>1, <2>1 DEF Claims
    <3>2. Claims(r, world)
      BY <2>1, <3>1 DEF Claims, CommittedSteps, Reported
    <3>3. QED BY <1>3, <3>2
  <2>2. CASE /\ <<pc, r.step>> \in {<<"commits", "committed">>, <<"pushed", "branch_pushed">>,
                                  <<"prFound", "pr_created">>,
                                  <<"commented", "result_commented">>}
             /\ r.integ = mem.integ /\ r.pr = mem.pr
    <3>1. Claims(r, world)
      <4>1. CASE pc = "commits" /\ r.step = "committed"
        BY <1>1, <2>2, <4>1 DEF Claims, Made, CommittedSteps, Reported
      <4>2. CASE pc = "pushed" /\ r.step = "branch_pushed"
        BY <1>1, <2>2, <4>2 DEF Claims, Made, Done, CommittedSteps, Reported
      <4>3. CASE pc = "prFound" /\ r.step = "pr_created"
        BY <1>1, <2>2, <4>3 DEF Claims, Made, CommittedSteps, Reported
      <4>4. CASE pc = "commented" /\ r.step = "result_commented"
        BY <1>1, <2>2, <4>4 DEF Claims, Made, CommittedSteps, Reported
      <4>5. QED BY <2>2, <4>1, <4>2, <4>3, <4>4
    <3>2. QED BY <1>3, <3>1
  <2>3. CASE /\ pc = "pr" /\ Same(r, [mem EXCEPT !.pr = mem.integ])
             /\ HasPR(mem.integ) \/ world'.prs = Append(world.prs, mem.integ)
    <3>1. Live(mem)
      BY <2>3, RunLive DEF TypeInv
    <3>2. r.step = mem.step /\ r.integ = mem.integ /\ r.pr = mem.integ
      BY <2>3, <3>1 DEF Live, Run, Same
    <3>3. mem.integ \in Nat /\ world.prs \in Seq(Nat) /\ mem.step = "branch_pushed"
      BY <1>1, <2>3, <3>1 DEF Live, Run, StepsInv, Made
    <3>4. Opened(world', mem.integ)
      <4>1. CASE HasPR(mem.integ)
        BY <1>2, <4>1 DEF HasPR, Opened, Grows
      <4>2. CASE world'.prs = Append(world.prs, mem.integ)
        BY <3>3, <4>2, AppendOpens
      <4>3. QED BY <2>3, <4>1, <4>2
    <3>5. Claims(mem, world')
      BY <1>1, <1>3
    <3>6. QED BY <3>2, <3>3, <3>4, <3>5 DEF Claims, Reported
  <2>4. CASE pc = "prOpened" /\ Same(r, [disk EXCEPT !.pr = mem.pr])
    <3>1. Live(disk)
      BY <2>4, RunLive DEF TypeInv
    <3>2. r.step = disk.step /\ r.integ = disk.integ /\ r.pr = mem.pr
      BY <2>4, <3>1 DEF Live, Run, Same
    <3>3. mem.pr # 0
      BY <1>1, <2>4 DEF Made
    <3>4. Claims(r, world)
      BY <1>1, <3>2, <3>3 DEF Claims
    <3>5. QED BY <1>3, <3>4
  <2>5. QED BY <1>5, <2>1, <2>2, <2>3, <2>4 DEF Recorded
<1>6. QED BY <1>1, <1>3, <1>4, <1>5 DEF Accounted, Copies
--------------------------------------------------------------------------------
\* Outside the publication nothing is known to have been made.
LEMMA MadeElsewhere ==
  ASSUME NEW l, l \notin Special \cup {"integrate"}, NEW m, NEW c, NEW w
  PROVE  Made(l, m, c, w)
BY DEF Special, Made

\* In the publication what a place needs was made on the way to it.
LEMMA PublishingMade ==
  ASSUME TypeInv, VerifiedInv, StepsInv, PublishingStep
  PROVE  Made(pc', mem', ctx', world')
<1>1. WorldForm /\ ctx \in Ctx
  BY DEF TypeInv, WorldInv, WorldForm, ProcessInv
<1>2. /\ Made(pc, mem, ctx, world) /\ Done(pc, mem, ctx, world) /\ At(pc, mem, ctx)
      /\ pc # "idle" => Live(mem)
      /\ Claims(mem, world)
  BY RunLive DEF TypeInv, VerifiedInv, StepsInv, ProcessInv
<1>3. CASE pc' \notin Special \cup {"integrate"}
  BY <1>3, MadeElsewhere
<1>4. CASE BeginPublish \/ PublishRefused \/ NoPatch \/ Conflict \/ VerifyFails \/ Abandon
           \/ Repair \/ RepairExhausted \/ RecordComment \/ CheckFinish \/ Finish
           \/ GateFails \/ CommentFails \/ DoneFails \/ MarkDone \/ Complete
           \/ PublishingTrouble \/ CancelledWithPR
  <2>1. pc' \notin Special \cup {"integrate"}
    BY <1>4, EndsElsewhere
    DEF BeginPublish, PublishRefused, NoPatch, Conflict, VerifyFails, Abandon, Repair,
        RepairExhausted, RecordComment, CheckFinish, Finish, GateFails, CommentFails,
        DoneFails, MarkDone, Complete, PublishingTrouble, CancelledWithPR, Save, Goto, Go,
        Exit, Special
  <2>2. QED BY <2>1, MadeElsewhere
<1>5. CASE Publishing \/ Reuse \/ Committed
  <2>1. pc' \in {"idle", "local", "reuse", "preflight", "pushCheck"}
    <3>1. CASE Publishing
      <4>1. \E m, l : l \in {"local", "reuse", "preflight"} /\ SaveCtx(m, l, ctx)
        BY <3>1 DEF Publishing, Save
      <4>2. QED BY <4>1, EndsElsewhere
    <3>2. CASE Reuse \/ Committed
      BY <3>2, EndsElsewhere DEF Reuse, Committed, Save, Goto, Go
    <3>3. QED BY <1>5, <3>1, <3>2
  <2>2. QED BY <2>1 DEF Made
<1>6. CASE Local \/ WriteOutcome \/ GatePasses
  <2>1. CASE Local
    BY <1>2, <2>1 DEF Local, Go, Done, Made
  <2>2. CASE WriteOutcome
    <3>1. pc' = "idle" \/ (pc' = "gate" /\ mem' = mem /\ ctx' = ctx)
      BY <2>2, EndsElsewhere DEF WriteOutcome, Save
    <3>2. QED BY <1>2, <2>2, <3>1 DEF WriteOutcome, Made
  <2>3. CASE GatePasses
    BY <1>2, <2>3 DEF GatePasses, Goto, Go, Made
  <2>4. QED BY <1>6, <2>1, <2>2, <2>3
<1>7. CASE Preflight
  <2>1. pc' = "idle" \/ (pc' = "integrate" /\ mem' = mem)
    BY <1>7, EndsElsewhere DEF Preflight, Save
  <2>2. QED BY <1>2, <1>7, <2>1 DEF Preflight, At, Made
<1>8. CASE CreateWorktree
  <2>1. pc' = "idle" \/ (pc' = "integrated" /\ mem' = mem)
    BY <1>8, EndsElsewhere DEF CreateWorktree, Goto, Go
  <2>2. QED BY <1>2, <1>8, <2>1 DEF CreateWorktree, At, Made
<1>9. CASE RecordIntegration \/ ReuseWorktree
  <2>1. mem.winner # 0 /\ Live(mem)
    BY <1>2, <1>9 DEF RecordIntegration, ReuseWorktree, At
  <2>2. \E m : m.winner = mem.winner /\ SaveCtx(m, "apply", ctx)
    <3>1. CASE RecordIntegration
      <4> DEFINE m == [mem EXCEPT !.step = "integration_created", !.integ = mem.winner]
      <4>1. m.winner = mem.winner
        BY <2>1 DEF Live, Run
      <4>2. QED BY <3>1, <4>1 DEF RecordIntegration, Save
    <3>2. CASE ReuseWorktree
      <4> DEFINE m == [mem EXCEPT !.step = "integration_created"]
      <4>1. m.winner = mem.winner
        BY <2>1 DEF Live, Run
      <4>2. QED BY <3>2, <4>1 DEF ReuseWorktree, Save
    <3>3. QED BY <1>9, <3>1, <3>2
  <2>3. pc' = "idle" \/ (pc' = "apply" /\ mem'.winner # 0)
    BY <2>1, <2>2, EndsElsewhere
  <2>4. QED BY <2>3 DEF Made
<1>10. CASE Apply \/ Verify
  <2>1. mem.winner # 0 /\ Live(mem) /\ (Verify => world.content # 0)
    BY <1>2, <1>10 DEF Apply, Verify, Made
  <2>2. world'.content # 0
    BY <1>1, <1>10, <2>1, OutwardFields DEF Stay, WorldFields
  <2>3. PICK s \in Steps, l \in {"verify", "commit"} : SaveCtx([mem EXCEPT !.step = s], l, ctx)
    BY <1>10 DEF Apply, Verify, Save, Steps
  <2>4. [mem EXCEPT !.step = s].winner = mem.winner
    BY <2>1 DEF Live, Run
  <2>5. pc' = "idle" \/ (pc' = l /\ mem'.winner = mem.winner)
    BY <2>3, <2>4, EndsElsewhere
  <2>6. QED BY <2>1, <2>2, <2>5 DEF Made
<1>11. CASE Commit
  <2>1. world.wt = mem.integ /\ world.content # 0
    BY <1>2, <1>11 DEF Commit, Done, Made
  <2>2. world'.tips = Put(world.tips, world.wt, world.content)
    BY <1>1, <1>11, OutwardFields
  <2>3. DOMAIN Put(world.tips, world.wt, world.content) = DOMAIN world.tips \cup {world.wt}
    BY PutDomain, Zenon
  <2>4. Put(world.tips, world.wt, world.content)[world.wt] = world.content
    BY PutValue
  <2>5. pc' = "commits" /\ mem' = mem
    BY <1>11 DEF Commit, Goto, Go
  <2>6. QED BY <2>1, <2>2, <2>3, <2>4, <2>5 DEF Made
<1>12. CASE NothingToCommit
  <2>1. CASE Fail
    BY <1>3, <2>1, EndsElsewhere DEF Special
  <2>2. CASE world.tips[world.wt] # 0 /\ Goto("commits")
    <3>1. world.wt = mem.integ /\ mem.integ # 0 /\ world' = world
      BY <1>2, <1>12 DEF NothingToCommit, Quiet, Done, At
    <3>2. world.wt \in DOMAIN world.tips
      BY <3>1 DEF TypeInv, WorldInv
    <3>3. QED BY <2>2, <3>1, <3>2 DEF Goto, Go, Made
  <2>3. QED BY <1>12, <2>1, <2>2 DEF NothingToCommit
<1>13. CASE RecordPush \/ RecordPR
  <2>1. Live(mem)
    BY <1>2, <1>13 DEF RecordPush, RecordPR
  <2>2. \/ pc' = "idle"
        \/ pc' = "prCheck" /\ mem' = [mem EXCEPT !.step = "branch_pushed"]
        \/ pc' = "reviewCheck" /\ mem' = [mem EXCEPT !.step = "pr_created"]
    BY <1>13, EndsElsewhere DEF RecordPush, RecordPR, Save
  <2>3. QED BY <2>1, <2>2 DEF Made, Live, Run, Reported
<1>14. CASE CheckPush \/ CheckPR \/ CheckReview
  <2>1. CASE CheckPush
    <3>1. \/ pc' \in {"idle", "push"}
          \/ pc' = "prCheck" /\ mem' = mem /\ mem.step # "committed"
      BY <2>1, EndsElsewhere DEF CheckPush
    <3>2. QED BY <3>1 DEF Made
  <2>2. CASE CheckPR
    <3>1. mem.step \in CommittedSteps \ {"committed"}
      BY <1>2, <2>2 DEF CheckPR, Made, Done
    <3>2. \/ pc' = "idle"
          \/ pc' = "pr" /\ mem' = mem /\ mem.step = "branch_pushed"
          \/ pc' = "outcome" /\ mem' = mem /\ mem.step # "branch_pushed"
      BY <2>2, EndsElsewhere DEF CheckPR
    <3>3. QED BY <3>1, <3>2 DEF Made, CommittedSteps, Reported
  <2>3. CASE CheckReview
    <3>1. pc' = "idle" \/ (pc' = "outcome" /\ mem' = mem)
      BY <2>3, EndsElsewhere DEF CheckReview
    <3>2. QED BY <1>2, <2>3, <3>1 DEF CheckReview, Made
  <2>4. QED BY <1>14, <2>1, <2>2, <2>3
<1>15. CASE Push
  <2>1. CASE pc' = "pushed"
    <3>1. world.wt = mem.integ /\ mem' = mem
      BY <1>15, <2>1, EndsElsewhere DEF Push, Goto, Go
    <3>2. Effect([world EXCEPT !.pushed = Put(@, mem.integ, world.tips[mem.integ])])
      BY <1>15, <3>1 DEF Push
    <3>3. world'.pushed = Put(world.pushed, mem.integ, world.tips[mem.integ])
      BY <1>1, <3>2 DEF Effect, WorldForm, WorldFields
    <3>4. DOMAIN Put(world.pushed, mem.integ, world.tips[mem.integ])
          = DOMAIN world.pushed \cup {mem.integ}
      BY PutDomain, Zenon
    <3>5. QED BY <2>1, <3>1, <3>3, <3>4 DEF Made
  <2>2. CASE pc' = "idle"
    BY <1>3, <2>2 DEF Special
  <2>3. QED BY <1>15, <2>1, <2>2, EndsElsewhere DEF Push, Goto, Go
<1>16. CASE OpenPR
  <2>1. Live(mem) /\ mem.step = "branch_pushed"
    BY <1>2, <1>16 DEF OpenPR, Made
  <2>2. mem.integ # 0
    BY <1>2, <2>1 DEF Claims, CommittedSteps, StepsInv
  <2>3. \E b : b # 0 /\ Go("prOpened", [mem EXCEPT !.pr = b], ctx)
    BY <1>16, <2>2 DEF OpenPR
  <2>4. pc' = "prOpened" /\ mem'.step = mem.step /\ mem'.pr # 0
    BY <2>1, <2>3 DEF Go, Live, Run
  <2>5. QED BY <2>1, <2>4 DEF Made
<1>17. CASE KeepPR
  BY <1>2, <1>17 DEF KeepPR, Goto, Go, Made
<1>18. CASE Comment
  <2>1. world'.commented /\ pc' = "commented" /\ mem' = mem
    BY <1>1, <1>18, OutwardFields DEF Comment, Goto, Go
  <2>2. QED BY <1>2, <1>18, <2>1 DEF Comment, Made
<1>19. QED
  BY <1>4, <1>5, <1>6, <1>7, <1>8, <1>9, <1>10, <1>11, <1>12, <1>13, <1>14, <1>15, <1>16,
     <1>17, <1>18 DEF PublishingStep

\* So it holds wherever a process gets to, whoever steps.
LEMMA NextMade ==
  ASSUME TypeInv, VerifiedInv, StepsInv, Next
  PROVE  Made(pc', mem', ctx', world')
<1>1. CASE PublishingStep
  BY <1>1, PublishingMade
<1>2. CASE IntakeStep \/ ExecutionStep \/ Command \/ StartProvide \/ Crash
  BY <1>2, OthersElsewhere, MadeElsewhere DEF Inside
<1>3. CASE Signal \/ Operator
  <2>1. world' = world
    BY <1>3, InwardKeepsWorld DEF Inward
  <2>2. ctx \in Ctx
    BY DEF TypeInv, ProcessInv
  <2>3. pc' = pc /\ mem' = mem /\ ctx'.noPr = ctx.noPr
    BY <1>3, <2>2
    DEF Signal, Operator, CancelLoad, RetryLoad, Load, CancelWrite, RetryWrite, Ctx
  <2>4. QED BY <2>1, <2>3 DEF StepsInv, Made
<1>4. QED BY <1>1, <1>2, <1>3 DEF Next, ProcessStep

\* The invariant is inductive, together with those of the types and of verification.
LEMMA StepsStep == ASSUME TypeInv, VerifiedInv, StepsInv, [Next]_vars PROVE StepsInv'
<1>1. CASE UNCHANGED vars
  BY <1>1 DEF vars, StepsInv, Claims, Made, Opened
<1>2. CASE Next
  BY <1>2, WorldGrows, NextClaims, NextMade DEF StepsInv
<1>3. QED BY <1>1, <1>2

\* Before the run is created nothing is made and nothing is claimed.
LEMMA StepsInit == Init => StepsInv
<1> SUFFICES ASSUME Init PROVE StepsInv
  OBVIOUS
<1>1. \A r \in {disk, mem, ctx.copy, op.copy} : Claims(r, world)
  BY ClaimsAtFirst, Fresh DEF Init, NoOp
<1>2. Made(pc, mem, ctx, world)
  BY MadeElsewhere DEF Init, Special
<1>3. world.prs \in Seq(Nat) /\ 0 \notin DOMAIN world.tips
  BY DEF Init
<1>4. QED BY <1>1, <1>2, <1>3 DEF StepsInv

\* publishing_step never runs ahead of the effect it records, in state.json or in any
\* copy of it that is still to be written: a process that trusts it skips nothing.
THEOREM StepsHold == Spec => []StepsAreTrue
<1>1. StepsInv => StepsAreTrue
  BY DEF StepsInv, Claims, StepsAreTrue, Opened, HasPR, CommittedSteps, Reported
<1>2. QED BY <1>1, TypeInvariant, VerifiedInit, VerifiedStep, StepsInit, StepsStep, PTL
          DEF Spec

(***************************************************************************)
(* One pull request for a run the operator leaves alone: OneInv.           *)
(***************************************************************************)

\* Without gg cancel and gg retry nobody has a copy but the process and its workers.
LEMMA StaysAlone ==
  ASSUME MaxCancels = 0, MaxRetries = 0, LeftAlone, Next
  PROVE  LeftAlone'
<1>1. ~Operator
  BY DEF Operator, CancelLoad, RetryLoad, Load, CancelWrite, RetryWrite, LeftAlone, NoOp, None
<1>2. op' = op
  BY <1>1, OperatorAlone DEF Next
<1>3. \/ used' = used
      \/ \E f \in {"resumes", "crashes", "errors", "throttles", "signals", "inputs",
                  "strays"} : Spend(f)
  BY <1>1, Spending DEF Adding
<1>4. QED BY <1>2, <1>3 DEF LeftAlone, Spend

\* Pull requests are opened by OpenPR alone.
LEMMA PRsStay ==
  ASSUME TypeInv, Next, ~OpenPR
  PROVE  world'.prs = world.prs
<1>1. WorldForm
  BY DEF TypeInv, WorldInv, WorldForm
<1>2. CASE Inward
  BY <1>2, InwardKeepsWorld
<1>3. CASE Outward
  BY <1>1, <1>3, OutwardFields DEF Outward, Stay, WorldFields
<1>4. QED BY <1>2, <1>3, InwardOrOutward

\* A worker's copy is gone when the worker is.
LEMMA CopyGone ==
  ASSUME TypeInv, OneInv, Next
  PROVE  pc' # "update" => ctx'.copy = Absent
<1>1. CASE pc # "update"
  <2>1. Kept
    <3>1. CASE ProcessStep
      BY <3>1, IntakeAccounts, ExecutionAccounts, PublishingAccounts
      DEF ProcessStep, Accounts, TypeInv, WorldInv, WorldForm
    <3>2. QED BY <3>1, OthersAccount DEF Next, Accounts
  <2>2. QED BY <1>1, <2>1 DEF Kept, OneInv
<1>2. CASE pc = "update"
  <2>1. UpdateWrite \/ Crash \/ Signal \/ Operator
    BY <1>2
    DEF Next, ProcessStep, Command, Start, StartResume, StartProvide, IntakeStep, SelectIssue,
        RefuseDirty, Claim, StartAnalysis, Analyze, BriefReady, BriefBlocked,
        ContextTooLarge, MissingBrief, WaitLonger, TakeComment, NoComment, AskAgain,
        Reconsider, ResumePublishing, Republish, PlanRecovery, Recover, Provide,
        IntakeTrouble, ExecutionStep, SelectBlocked, SelectAgent, DiskShort, RunCandidates,
        RuntimeLimit, AgentGone, LaunchRound, CandidateLimit, CheckPlan, PlanCandidate,
        StartBatch, UpdateLoad, BatchDone, MergeCancel, RecordResult, CheckRound,
        Evaluate, NoProgress, AskInput, NextAttempt, GiveUp, Winner, ExecutionTrouble,
        PublishingStep, BeginPublish, Publishing, Local, Reuse, Preflight, PublishRefused,
        NoPatch, ReuseWorktree, CreateWorktree, RecordIntegration, Apply, Conflict, Verify,
        VerifyFails, Commit, NothingToCommit, Committed, Abandon, Repair, RepairExhausted,
        CheckPush, Push, RecordPush, CheckPR, OpenPR, CancelledWithPR, KeepPR, RecordPR,
        CheckReview, WriteOutcome, GateFails, GatePasses, Comment, CommentFails,
        RecordComment, CheckFinish, Finish, DoneFails, MarkDone, Complete,
        PublishingTrouble, Trouble
  <2>2. CASE UpdateWrite
    <3>1. CASE pc' = "idle"
      <4>1. ctx' = IdleCtx
        BY <2>2, <3>1, EndsElsewhere
        DEF UpdateWrite, Go, Break, SaveReturn, Raise, Exit
      <4>2. QED BY <4>1, Fresh
    <3>2. CASE ctx' = [ctx EXCEPT !.copy = Absent]
      BY <3>2 DEF TypeInv, ProcessInv, Ctx
    <3>3. QED BY <2>2, <3>1, <3>2, EndsElsewhere DEF UpdateWrite, Go
  <2>3. CASE Crash
    BY <2>3, Fresh DEF Crash, Exit
  <2>4. CASE Signal \/ Operator
    BY <1>2, <2>4
    DEF Signal, Operator, CancelLoad, RetryLoad, Load, CancelWrite, RetryWrite
  <2>5. QED BY <2>1, <2>2, <2>3, <2>4
<1>3. QED BY <1>1, <1>2

\* Past a place where the step is reset the pull request, if there is one, is named.
LEMMA NextAstray ==
  ASSUME TypeInv, VerifiedInv, StepsInv, OneInv, PublishingStep, pc' \in Astray
  PROVE  world.prs = <<>> \/ mem'.pr # 0
<1>1. /\ pc # "idle" => Live(mem)
      /\ Done(pc, mem, ctx, world) /\ Made(pc, mem, ctx, world) /\ Claims(mem, world)
      /\ ~ctx.noPr
      /\ mem # Absent => Knows(mem, world)
      /\ pc \in Astray => world.prs = <<>> \/ mem.pr # 0
  BY RunLive DEF TypeInv, VerifiedInv, StepsInv, OneInv
<1>2. pc # "idle" => mem # Absent
  BY <1>1, Fresh DEF Live
<1>3. CASE Preflight \/ NoPatch \/ CreateWorktree \/ Conflict \/ VerifyFails \/ Commit
           \/ NothingToCommit \/ Abandon \/ Push \/ CheckFinish \/ Finish
  <2>1. pc' = "idle" \/ mem' = mem
    BY <1>3, EndsElsewhere
    DEF Preflight, NoPatch, CreateWorktree, Conflict, VerifyFails, Commit, NothingToCommit,
        Abandon, Push, CheckFinish, Finish, Save, Goto, Go
  <2>2. QED
    BY <1>1, <1>3, <2>1
    DEF Preflight, NoPatch, CreateWorktree, Conflict, VerifyFails, Commit, NothingToCommit,
        Abandon, Push, CheckFinish, Finish, Astray
<1>4. CASE RecordIntegration \/ ReuseWorktree \/ Apply \/ Verify \/ MarkDone
           \/ RecordComment
  <2>1. Live(mem) /\ (world.prs = <<>> \/ mem.pr # 0)
    BY <1>1, <1>4
    DEF RecordIntegration, ReuseWorktree, Apply, Verify, MarkDone, RecordComment, Astray,
        Made, Claims, Reported
  <2>2. PICK s \in Steps, n \in {mem.integ, mem.winner}, l \in Labels :
          SaveCtx([mem EXCEPT !.step = s, !.integ = n], l, ctx)
    <3>1. CASE RecordIntegration
      BY <3>1 DEF RecordIntegration, Save, Steps, Labels
    <3>2. CASE ReuseWorktree \/ Apply \/ Verify \/ MarkDone \/ RecordComment
      <4>1. PICK s \in Steps, l \in Labels : SaveCtx([mem EXCEPT !.step = s], l, ctx)
        BY <3>2 DEF ReuseWorktree, Apply, Verify, MarkDone, RecordComment, Save, Steps, Labels
      <4>2. [mem EXCEPT !.step = s] = [mem EXCEPT !.step = s, !.integ = mem.integ]
        BY <2>1 DEF Live, Run
      <4>3. QED BY <4>1, <4>2
    <3>3. QED BY <1>4, <3>1, <3>2
  <2>3. [mem EXCEPT !.step = s, !.integ = n].pr = mem.pr
    BY <2>1 DEF Live, Run
  <2>4. QED BY <2>1, <2>2, <2>3, EndsElsewhere DEF Astray
<1>5. CASE Publishing
  <2> DEFINE s == IF mem.step = "None" THEN "started" ELSE mem.step
             m == [mem EXCEPT !.step = s]
  <2>1. Live(mem) /\ mem # Absent
    BY <1>1, <1>2, <1>5 DEF Publishing
  <2>2. s = mem.step \/ (s = "started" /\ mem.step = "None")
    OBVIOUS
  <2>3. \E l \in Labels : SaveCtx(m, l, ctx) /\ (l = "preflight" => m.step \notin CommittedSteps)
    BY <1>5 DEF Publishing, Save, Labels
  <2> HIDE DEF s
  <2>4. m.step = s /\ m.pr = mem.pr
    BY <2>1 DEF Live, Run
  <2> HIDE DEF m
  <2>5. pc' = "preflight" /\ mem' = m
    BY <1>5, <2>3, EndsElsewhere DEF Publishing, Save, Astray
  <2>6. m.step \notin CommittedSteps
    BY <2>3, <2>5, EndsElsewhere
  <2>7. QED BY <1>1, <2>1, <2>2, <2>4, <2>5, <2>6 DEF Knows, CommittedSteps
<1>6. CASE CheckPush
  <2>1. pc' = "push" /\ mem' = mem /\ mem.step = "committed"
    BY <1>6, EndsElsewhere DEF CheckPush, Astray
  <2>2. QED BY <1>1, <1>2, <1>6, <2>1 DEF CheckPush, Knows
<1>7. CASE GatePasses
  <2>1. mem' = mem /\ mem.step = "result_commented"
    BY <1>1, <1>7 DEF GatePasses, Goto, Go, Astray
  <2>2. QED BY <1>1, <2>1 DEF Claims, Reported
<1>8. CASE BeginPublish \/ PublishRefused \/ Local \/ Reuse \/ Repair \/ RepairExhausted
           \/ Committed \/ RecordPush \/ CheckPR \/ OpenPR \/ CancelledWithPR \/ KeepPR
           \/ RecordPR \/ CheckReview \/ WriteOutcome \/ GateFails \/ Comment
           \/ CommentFails \/ DoneFails \/ Complete \/ PublishingTrouble
  <2>1. pc' \notin Astray
    BY <1>8, EndsElsewhere
    DEF BeginPublish, PublishRefused, Local, Reuse, Repair, RepairExhausted, Committed,
        RecordPush, CheckPR, OpenPR, CancelledWithPR, KeepPR, RecordPR, CheckReview,
        WriteOutcome, GateFails, Comment, CommentFails, DoneFails, Complete,
        PublishingTrouble, Save, Goto, Go, Exit, Astray
  <2>2. QED BY <2>1
<1>9. QED BY <1>3, <1>4, <1>5, <1>6, <1>7, <1>8 DEF PublishingStep

\* From the write of a committed branch to the pull request, state.json says what the
\* process has in memory.
Settled == {"reuse", "pushCheck", "prCheck", "pr"}

LEMMA NextSettled ==
  ASSUME TypeInv, OneInv, PublishingStep, pc' \in Settled
  PROVE  disk'.step = mem'.step /\ disk'.integ = mem'.integ
<1>1. pc \in Settled => disk.step = mem.step /\ disk.integ = mem.integ
  BY DEF OneInv, Settled
<1>2. \A l, m, c : SaveCtx(m, l, c) /\ pc' # "idle" => disk' = mem'
  BY DEF SaveCtx, Raise, Exit
<1>3. CASE Publishing \/ Committed \/ RecordPush
  <2>1. \E l, m : SaveCtx(m, l, ctx)
    BY <1>3 DEF Publishing, Committed, RecordPush, Save
  <2>2. QED BY <1>2, <2>1 DEF Settled
<1>4. CASE Reuse \/ CheckPush \/ CheckPR
  <2>1. pc \in Settled
    BY <1>4 DEF Reuse, CheckPush, CheckPR, Settled
  <2>2. Go(pc', mem, ctx)
    BY <1>4, EndsElsewhere
    DEF Reuse, CheckPush, CheckPR, CheckCancel, ActOnCancel, Return, Exit, Goto, Go, Settled
  <2>3. QED BY <1>1, <2>1, <2>2 DEF Go
<1>5. CASE BeginPublish \/ Local \/ Preflight \/ PublishRefused \/ NoPatch \/ ReuseWorktree
           \/ CreateWorktree \/ RecordIntegration \/ Apply \/ Conflict \/ Verify
           \/ VerifyFails \/ Commit \/ NothingToCommit \/ Abandon \/ Repair
           \/ RepairExhausted \/ Push \/ OpenPR \/ CancelledWithPR \/ KeepPR \/ RecordPR
           \/ CheckReview \/ WriteOutcome \/ GateFails \/ GatePasses \/ Comment
           \/ CommentFails \/ RecordComment \/ CheckFinish \/ Finish \/ DoneFails
           \/ MarkDone \/ Complete \/ PublishingTrouble
  <2>1. pc' \notin Settled
    BY <1>5, EndsElsewhere
    DEF BeginPublish, Local, Preflight, PublishRefused, NoPatch, ReuseWorktree,
        CreateWorktree, RecordIntegration, Apply, Conflict, Verify, VerifyFails, Commit,
        NothingToCommit, Abandon, Repair, RepairExhausted, Push, OpenPR, CancelledWithPR,
        KeepPR, RecordPR, CheckReview, WriteOutcome, GateFails, GatePasses, Comment,
        CommentFails, RecordComment, CheckFinish, Finish, DoneFails, MarkDone, Complete,
        PublishingTrouble, Save, Goto, Go, Exit, Settled
  <2>2. QED BY <2>1
<1>6. QED BY <1>3, <1>4, <1>5 DEF PublishingStep

\* While no pull request is opened, what a step writes names the one there is.
LEMMA KnowledgeStays ==
  ASSUME TypeInv, VerifiedInv, StepsInv, OneInv, NEW r, Accounted(r), r # Absent
  PROVE  Knows(r, world)
<1>1. /\ \A q \in {disk, mem, ctx.copy} \ {Absent} : Knows(q, world)
      /\ op.copy = Absent /\ (disk = Absent => world.prs = <<>>)
      /\ Made(pc, mem, ctx, world) /\ Claims(mem, world) /\ Done(pc, mem, ctx, world)
      /\ ~ctx.noPr
      /\ pc \in Astray => world.prs = <<>> \/ mem.pr # 0
  BY DEF OneInv, LeftAlone, NoOp, StepsInv, VerifiedInv
<1>2. pc # "idle" => mem # Absent /\ Live(mem) /\ Live(disk)
  BY RunLive, Fresh DEF TypeInv, Live
<1>3. CASE Recorded(r)
  <2>1. CASE /\ pc \in Resetting /\ r.step \notin CommittedSteps
             /\ pc = "publishing" => mem.step = "None"
             /\ r.pr = mem.pr \/ (pc = "local" /\ r.pr = 0)
    <3>1. pc # "local" /\ r.pr = mem.pr
      BY <1>1, <2>1 DEF Done
    <3>2. world.prs = <<>> \/ mem.pr # 0
      <4>1. CASE pc = "publishing"
        BY <1>1, <1>2, <2>1, <4>1 DEF Knows
      <4>2. CASE pc # "publishing"
        BY <1>1, <2>1, <3>1, <4>2 DEF Resetting, Astray
      <4>3. QED BY <4>1, <4>2
    <3>3. QED BY <3>1, <3>2 DEF Knows
  <2>2. CASE /\ <<pc, r.step>> \in {<<"commits", "committed">>, <<"pushed", "branch_pushed">>,
                                  <<"prFound", "pr_created">>,
                                  <<"commented", "result_commented">>}
             /\ r.pr = mem.pr
    <3>1. pc \in {"commits", "pushed"} \/ pc \in {"prFound", "commented"}
      BY <2>2
    <3>2. world.prs = <<>> \/ mem.pr # 0
      BY <1>1, <3>1 DEF Astray, Made, Claims
    <3>3. QED BY <2>2, <3>2 DEF Knows
  <2>3. CASE pc = "pr" /\ Same(r, [mem EXCEPT !.pr = mem.integ])
    <3>1. r.pr = mem.integ
      BY <1>2, <2>3 DEF Live, Run, Same
    <3>2. mem.integ # 0
      BY <1>1, <2>3 DEF Made, Claims, CommittedSteps, StepsInv
    <3>3. QED BY <3>1, <3>2 DEF Knows
  <2>4. CASE pc = "prOpened" /\ Same(r, [disk EXCEPT !.pr = mem.pr])
    <3>1. r.pr = mem.pr
      BY <1>2, <2>4 DEF Live, Run, Same
    <3>2. mem.pr # 0
      BY <1>1, <2>4 DEF Made
    <3>3. QED BY <3>1, <3>2 DEF Knows
  <2>5. QED BY <1>3, <2>1, <2>2, <2>3, <2>4 DEF Recorded
<1>4. CASE \E q \in Copies : Same(r, q)
  BY <1>1, <1>4 DEF Copies, Same, Knows
<1>5. CASE r = NewRun /\ disk = Absent
  BY <1>1, <1>5 DEF Knows
<1>6. QED BY <1>3, <1>4, <1>5 DEF Accounted

\* A pull request is opened only when there is none, and then all copies lead to it.
LEMMA OpensFirst ==
  ASSUME TypeInv, VerifiedInv, StepsInv, OneInv, OpenPR, world'.prs # world.prs
  PROVE  /\ Len(world'.prs) <= 1 /\ disk' # Absent
         /\ \A r \in {disk', mem', ctx'.copy} \ {Absent} : Knows(r, world')
<1>1. /\ Live(mem) /\ Live(disk) /\ pc = "pr" /\ WorldForm /\ mem.step = "branch_pushed"
      /\ disk.step = mem.step /\ disk.integ = mem.integ /\ ctx.copy = Absent
      /\ Knows(mem, world) /\ world.prs \in Seq(Nat)
      /\ mem.integ \in DOMAIN world.tips /\ 0 \notin DOMAIN world.tips
  BY RunLive, Fresh
  DEF OpenPR, TypeInv, WorldInv, WorldForm, StepsInv, Made, OneInv, Live, Claims,
      CommittedSteps
<1>2. world'.prs = Append(world.prs, mem.integ)
  BY <1>1, OutwardFields
<1>3. /\ mem.pr = 0 /\ ~HasPR(mem.integ)
      /\ Go("prOpened", [mem EXCEPT !.pr = mem.integ], ctx)
  BY DEF OpenPR
<1>4. world.prs = <<>>
  <2>1. SUFFICES ASSUME world.prs # <<>> PROVE FALSE
    OBVIOUS
  <2>2. mem.integ = world.prs[1]
    BY <1>1, <1>3, <2>1 DEF Knows
  <2>3. 1 \in 1..Len(world.prs)
    BY <1>1, <2>1
  <2>4. QED BY <1>3, <2>2, <2>3 DEF HasPR
<1>5. mem.integ \in Nat /\ mem.integ # 0
  BY <1>1 DEF Live, Run
<1>6. Len(world'.prs) = 1 /\ world'.prs[1] = mem.integ
  BY <1>2, <1>4, <1>5
<1>7. disk' = disk /\ ctx' = ctx /\ mem'.pr = mem.integ
  BY <1>1, <1>3 DEF Go, Live, Run
<1>8. QED BY <1>1, <1>5, <1>6, <1>7, Fresh DEF Knows, Live

\* A run that was created stays.
LEMMA AbsentOnce == ASSUME TypeInv, Next, disk # Absent PROVE disk' # Absent
BY StepKeeps DEF TypeInv, Keeps

\* The invariant is inductive, together with those before it, while the operator leaves
\* the run alone and always asks for a pull request.
LEMMA OneStep ==
  ASSUME Modes \subseteq {FALSE}, MaxCancels = 0, MaxRetries = 0,
         TypeInv, VerifiedInv, StepsInv, OneInv, [Next]_vars
  PROVE  OneInv'
<1>1. CASE UNCHANGED vars
  BY <1>1 DEF vars, OneInv, LeftAlone, Knows
<1>2. CASE Next
  <2>1. LeftAlone'
    BY <1>2, StaysAlone DEF OneInv
  <2>2. pc' # "update" => ctx'.copy = Absent
    BY <1>2, CopyGone
  <2>3. ~ctx'.noPr
    <3>1. CASE ProcessStep
      BY <3>1, IntakeAccounts, ExecutionAccounts, PublishingAccounts
      DEF ProcessStep, Accounts, Kept, OneInv, TypeInv, WorldInv, WorldForm
    <3>2. QED BY <1>2, <3>1, OthersAccount DEF Next, Accounts, Kept, OneInv
  <2>4. /\ Len(world'.prs) <= 1
        /\ disk' = Absent => world'.prs = <<>>
        /\ \A r \in {disk', mem', ctx'.copy} \ {Absent} : Knows(r, world')
    <3>1. CASE OpenPR /\ world'.prs # world.prs
      BY <3>1, OpensFirst
    <3>2. CASE ~OpenPR \/ world'.prs = world.prs
      <4>1. world'.prs = world.prs
        BY <1>2, <3>2, PRsStay
      <4>2. \A r : Knows(r, world) => Knows(r, world')
        BY <4>1 DEF Knows
      <4>3. disk' = Absent => disk = Absent
        BY <1>2, AbsentOnce
      <4>4. QED BY <1>2, <4>1, <4>2, <4>3, NextAccounts, KnowledgeStays DEF OneInv
    <3>3. QED BY <3>1, <3>2
  <2>5. /\ pc' \in Astray => world'.prs = <<>> \/ mem'.pr # 0
        /\ pc' \in Settled => disk'.step = mem'.step /\ disk'.integ = mem'.integ
    <3>1. CASE PublishingStep
      <4>1. pc' \in Astray => world'.prs = world.prs
        BY <1>2, PRsStay DEF OpenPR, Go, Astray
      <4>2. QED BY <3>1, <4>1, NextAstray, NextSettled
    <3>2. CASE IntakeStep \/ ExecutionStep \/ Command \/ StartProvide \/ Crash
      BY <3>2, OthersElsewhere DEF Inside, Special, Astray, Settled
    <3>3. CASE Signal
      <4>1. pc' = pc /\ mem' = mem /\ world' = world /\ disk' \in {disk, Interrupted(disk)}
        BY <3>3 DEF Signal
      <4>2. Interrupted(disk).step = disk.step /\ Interrupted(disk).integ = disk.integ
        BY <3>3, RunLive DEF Signal, TypeInv, Interrupted, Live, Run
      <4>3. QED BY <4>1, <4>2 DEF OneInv, Settled
    <3>4. ~Operator
      BY DEF Operator, CancelLoad, RetryLoad, Load, CancelWrite, RetryWrite, OneInv,
             LeftAlone, NoOp, None
    <3>5. QED BY <1>2, <3>1, <3>2, <3>3, <3>4 DEF Next, ProcessStep
  <2>6. QED BY <2>1, <2>2, <2>3, <2>4, <2>5 DEF OneInv, Settled
<1>3. QED BY <1>1, <1>2

\* Before the run is created there is no pull request.
LEMMA OneInit == Init => OneInv
<1> SUFFICES ASSUME Init PROVE OneInv
  OBVIOUS
<1>1. LeftAlone
  BY DEF Init, LeftAlone
<1>2. world.prs = <<>> /\ disk = Absent /\ mem = Absent /\ ctx.copy = Absent
      /\ pc = "idle" /\ ~ctx.noPr
  BY Fresh DEF Init, IdleCtx
<1>3. QED BY <1>1, <1>2 DEF OneInv, Knows, Astray

\* However often a run is interrupted, killed, throttled, resumed and repaired, it opens
\* one pull request, as long as the operator neither writes old copies of it (gg cancel,
\* gg retry) nor takes a part of it without a pull request.
THEOREM OnlyOnePullRequest ==
  ASSUME Modes \subseteq {FALSE}, MaxCancels = 0, MaxRetries = 0
  PROVE  Spec => []OnePullRequest
<1>1. OneInv => OnePullRequest
  BY DEF OneInv, OnePullRequest
<1>2. TypeInv /\ VerifiedInv /\ StepsInv /\ OneInv /\ [Next]_vars => OneInv'
  BY OneStep
<1>3. QED BY <1>1, <1>2, TypeInvariant, VerifiedInit, VerifiedStep, StepsInit, StepsStep,
             OneInit, PTL DEF Spec

(***************************************************************************)
(* What is published is the winner of the evaluation: SelectedInv.         *)
(***************************************************************************)

\* What is known of a run that is neither throttled nor answered.
Sure == /\ TypeInv /\ VerifiedInv /\ StepsInv /\ SelectedInv
        /\ MaxThrottles = 0 /\ MaxInputs = 0

\* What a step leaves, before the world has changed.
Selects ==
  /\ ~ctx'.noPr
  /\ OfWinner(disk', world) /\ OfWinner(mem', world) /\ OfWinner(ctx'.copy, world)
  /\ mem'.st \in Terminal => disk'.st \in Terminal
  /\ Publishes(pc', mem')
  /\ pc' \in {"verify", "commit"} => world'.content = mem'.winner

\* A process may go on at l with m.
Fits(l, m) == /\ OfWinner(m, world) /\ Publishes(l, m)
              /\ m.st \in Terminal => disk.st \in Terminal
              /\ l \in {"verify", "commit"} => world'.content = m.winner

\* What is known of the copies while a process works.
LEMMA Working ==
  ASSUME Sure
  PROVE  /\ ~ctx.noPr /\ ctx \in Ctx
         /\ OfWinner(disk, world) /\ OfWinner(mem, world) /\ OfWinner(ctx.copy, world)
         /\ Publishes(pc, mem)
         /\ mem.st \in Terminal => disk.st \in Terminal
         /\ pc # "idle" => Live(mem) /\ Live(disk)
BY RunLive DEF Sure, SelectedInv, Undisturbed, TypeInv, ProcessInv

\* A run without a state, or a new one, publishes nothing.
LEMMA FirstOfWinner ==
  /\ OfWinner(Absent, world) /\ OfWinner(NewRun, world)
  /\ Absent.st \notin Terminal /\ NewRun.st \notin Terminal \cup {"OutcomePublishing"}
BY DEF Absent, NewRun, NoRun, OfWinner, Terminal, InitialState, CommittedSteps

\* Neither does one that failed or was cancelled.
LEMMA EndedOfWinner ==
  ASSUME NEW r, ~r.input, r.st \in {"TerminalFailure", "Cancelled"} PROVE OfWinner(r, world)
BY DEF OfWinner, Terminal

\* A process that ends keeps what it leaves.
LEMMA ExitSelects == ASSUME NEW how, Exit(how), OfWinner(disk', world) PROVE Selects
<1>1. ctx'.copy = Absent /\ ctx'.noPr = FALSE /\ mem' = Absent /\ pc' = "idle"
  BY DEF Exit, IdleCtx
<1>2. Publishes("idle", Absent)
  BY DEF Publishes, Executing, Publication
<1>3. QED BY <1>1, <1>2, FirstOfWinner DEF Selects

\* An exception that leaves the command writes nothing.
LEMMA RaiseSelects == ASSUME Sure, Raise PROVE Selects
BY Working, ExitSelects DEF Raise

\* The locals a process goes on with, but for its counts.
Holds(c) == c.copy = ctx.copy /\ c.noPr = ctx.noPr

\* Going on with what fits,
LEMMA GoSelects ==
  ASSUME Sure, pc # "idle", NEW l, NEW m, NEW c, Holds(c), Go(l, m, c), Fits(l, m)
  PROVE  Selects
BY Working DEF Go, Selects, Holds, Fits

\* also when it is written on the way,
LEMMA SaveSelects ==
  ASSUME Sure, pc # "idle", NEW l, l # "idle", NEW m, NEW c, Holds(c), SaveCtx(m, l, c),
         Fits(l, m)
  PROVE  Selects
<1>1. CASE Raise
  BY <1>1, RaiseSelects
<1>2. CASE disk' = m /\ mem' = m /\ pc' = l /\ ctx' = c
  BY <1>2, Working DEF Selects, Holds, Fits
<1>3. QED BY <1>1, <1>2 DEF SaveCtx

\* or written last.
LEMMA ReturnSelects ==
  ASSUME Sure, NEW m, SaveReturn(m), OfWinner(m, world) PROVE Selects
BY RaiseSelects, ExitSelects DEF SaveReturn

\* A failure ends the run.
LEMMA BreakSelects == ASSUME Sure, pc # "idle", Break \/ Fail PROVE Selects
<1>1. Live(mem) /\ ~mem.input
  BY Working DEF OfWinner
<1>2. ~Failed(mem).input /\ Failed(mem).st = "TerminalFailure"
  BY <1>1 DEF Live, Run, Failed
<1>3. OfWinner(Failed(mem), world)
  BY <1>2, EndedOfWinner
<1>4. Raise \/ SaveReturn(Failed(mem))
  BY DEF Break, Fail
<1>5. QED BY <1>3, <1>4, RaiseSelects, ReturnSelects

\* So does what git and the platform refuse; nothing is throttled.
LEMMA TroubleSelects ==
  ASSUME Sure, pc # "idle", NEW errors, NEW throttles, Trouble(errors, throttles)
  PROVE  Selects
BY BreakSelects DEF Trouble, Sure, SelectedInv, Undisturbed

\* A cancellation ends the run too.
LEMMA CheckCancelSelects ==
  ASSUME Sure, pc # "idle", NEW l, NEW m, CheckCancel(l, m), Fits(l, m)
  PROVE  Selects
<1>1. CASE Go(l, m, ctx)
  BY <1>1, GoSelects DEF Holds
<1>2. CASE Return
  BY <1>2, ExitSelects, Working DEF Return
<1>3. CASE Exit("returned") /\ disk' = [disk EXCEPT !.st = "Cancelled"]
  <2>1. Live(disk) /\ ~disk.input
    BY Working DEF OfWinner
  <2>2. OfWinner(disk', world)
    BY <1>3, <2>1, EndedOfWinner DEF Live, Run
  <2>3. QED BY <1>3, <2>2, ExitSelects
<1>4. CASE Break
  BY <1>4, BreakSelects
<1>5. QED BY <1>1, <1>2, <1>3, <1>4 DEF CheckCancel, ActOnCancel

\* What the process does with one copy of the run.
Handles(l, m) == Go(l, m, ctx) \/ SaveCtx(m, l, ctx) \/ CheckCancel(l, m)

\* All of it in one.
LEMMA HandlesSelect ==
  ASSUME Sure, pc # "idle", NEW l, l # "idle", NEW m, Handles(l, m), Fits(l, m)
  PROVE  Selects
BY GoSelects, SaveSelects, CheckCancelSelects DEF Handles, Holds
--------------------------------------------------------------------------------
\* Nothing of the run is published.
Unpublished(m) == /\ m.step = "None" /\ m.pr = 0 /\ ~m.input
                  /\ m.st \notin {"OutcomePublishing"} \cup Terminal

\* A run of which nothing is published fits where nothing is, or is about to be.
LEMMA UnpublishedFits ==
  ASSUME NEW m, Unpublished(m)
  PROVE  /\ OfWinner(m, world)
         /\ \A l \in Executing \cup {"recover", "publish"} : Fits(l, m)
<1>1. OfWinner(m, world)
  BY DEF Unpublished, OfWinner, Terminal
<1>2. ASSUME NEW l \in Executing \cup {"recover", "publish"} PROVE Fits(l, m)
  <2>1. l \notin Publication \cup {"local", "provided"}
    BY <1>2 DEF Executing, Publication
  <2>2. QED BY <1>1, <2>1 DEF Unpublished, Publishes, Fits, Publication
<1>3. QED BY <1>1, <1>2

\* While the run executes nothing is.
LEMMA ExecutesUnpublished ==
  ASSUME Sure, pc \in Executing, pc # "recovering" \/ mem.st \notin Terminal
  PROVE  Live(mem) /\ Unpublished(mem) /\ pc # "idle"
<1>1. pc \notin {"idle", "answered", "recover"}
  BY DEF Executing
<1>2. QED BY <1>1, Working DEF OfWinner, Publishes, Unpublished

\* From the command to execution.
LEMMA IntakeSelects == ASSUME Sure, IntakeStep PROVE Selects
<1>1. CASE RefuseDirty \/ MissingBrief \/ IntakeTrouble
  BY <1>1, BreakSelects, TroubleSelects DEF RefuseDirty, MissingBrief, IntakeTrouble, Trouble
<1>2. CASE \/ SelectIssue \/ Claim \/ StartAnalysis \/ Analyze \/ BriefReady
           \/ Recover /\ mem.st \notin Terminal
  <2>1. Live(mem) /\ Unpublished(mem) /\ pc # "idle"
    BY <1>2, ExecutesUnpublished
    DEF SelectIssue, Claim, StartAnalysis, Analyze, BriefReady, Recover, Executing
  <2>2. \E m \in {mem, [mem EXCEPT !.st = "Claiming"], [mem EXCEPT !.st = "TaskAnalysis"],
                  [mem EXCEPT !.brief = TRUE],
                  [mem EXCEPT !.brief = TRUE, !.st = "ReadyForExecution"],
                  [mem EXCEPT !.running = 0],
                  [mem EXCEPT !.st = "ReadyForExecution", !.running = 0]} :
          \E l \in Executing \cup {"recover"} : Handles(l, m)
    BY <1>2
    DEF SelectIssue, Claim, StartAnalysis, Analyze, BriefReady, Recover, Save, Goto, Handles,
        Executing
  <2>3. \E m : Unpublished(m) /\ \E l \in Executing \cup {"recover"} : Handles(l, m)
    BY <2>1, <2>2 DEF Live, Run, Unpublished, Terminal
  <2>4. "idle" \notin Executing \cup {"recover"}
    BY DEF Executing
  <2>5. QED BY <2>1, <2>3, <2>4, UnpublishedFits, HandlesSelect
<1>3. CASE BriefBlocked \/ ContextTooLarge
  <2>1. Live(mem) /\ Unpublished(mem) /\ pc # "idle"
    BY <1>3, ExecutesUnpublished DEF BriefBlocked, ContextTooLarge, Executing
  <2>2. CASE Fail
    BY <2>1, <2>2, BreakSelects
  <2>3. CASE \E m : Unpublished(m) /\ SaveReturn(m)
    BY <2>3, UnpublishedFits, ReturnSelects
  <2>4. QED
    BY <1>3, <2>1, <2>2, <2>3
    DEF BriefBlocked, ContextTooLarge, Live, Run, Unpublished, Terminal
<1>4. CASE WaitLonger \/ AskAgain
  BY <1>4, Working, ReturnSelects DEF WaitLonger, AskAgain
<1>5. CASE TakeComment \/ Provide
  BY <1>5, Working DEF TakeComment, Provide, Sure, SelectedInv, Undisturbed, Publishes
<1>6. CASE NoComment \/ Reconsider \/ ResumePublishing \/ PlanRecovery
  <2>1. /\ pc # "idle" /\ OfWinner(mem, world) /\ OfWinner(disk, world) /\ ~mem.input
        /\ mem.st \in Terminal => disk.st \in Terminal
    BY <1>6, Working DEF NoComment, Reconsider, ResumePublishing, PlanRecovery, OfWinner
  <2>2. Fits("answered", disk) /\ Fits("recover", mem)
    BY <2>1 DEF Fits, Publishes, Executing, Publication
  <2>3. /\ mem.st = "OutcomePublishing" => Fits("republish", mem)
        /\ mem.st # "OutcomePublishing" => Fits("recovering", mem)
    BY <2>1 DEF Fits, Publishes, Executing, Publication, Terminal
  <2>4. \/ Handles("answered", disk) \/ Handles("recover", mem)
        \/ mem.st = "OutcomePublishing" /\ Handles("republish", mem)
        \/ mem.st # "OutcomePublishing" /\ Handles("recovering", mem)
    BY <1>6, <2>1 DEF NoComment, Reconsider, ResumePublishing, PlanRecovery, Save, Goto, Handles
  <2>5. QED BY <2>1, <2>2, <2>3, <2>4, HandlesSelect
<1>7. CASE Republish
  <2>1. pc # "idle" /\ Fits("publish", mem)
    BY <1>7, Working DEF Republish, Fits, Publishes, Executing, Publication
  <2>2. Fail \/ Handles("publish", mem)
    BY <1>7 DEF Republish, Goto, Handles
  <2>3. QED BY <2>1, <2>2, BreakSelects, HandlesSelect
<1>8. CASE Recover /\ mem.st \in Terminal
  <2> DEFINE m == [mem EXCEPT !.st = "ReadyForExecution", !.running = 0]
  <2>1. disk.st \in Terminal /\ Live(mem)
    BY <1>8, Working DEF Recover
  <2>2. m.st = "ReadyForExecution"
    BY <2>1 DEF Live, Run
  <2>3. SaveCtx(m, "select", ctx)
    BY <1>8 DEF Recover, Save, Terminal
  <2> HIDE DEF m
  <2>4. Raise
    BY <2>1, <2>2, <2>3 DEF SaveCtx, Refuses, Terminal
  <2>5. QED BY <2>4, RaiseSelects
<1>9. QED BY <1>1, <1>2, <1>3, <1>4, <1>5, <1>6, <1>7, <1>8 DEF IntakeStep

\* Execution, up to a winner.
LEMMA ExecutionSelects == ASSUME Sure, ExecutionStep PROVE Selects
<1> DEFINE Round == LaunchRound \/ PlanCandidate \/ StartBatch \/ BatchDone \/ RecordResult
           Simple == \/ SelectAgent \/ RunCandidates \/ CheckPlan \/ MergeCancel \/ CheckRound
                     \/ Evaluate \/ NextAttempt \/ Winner
           Ends == SelectBlocked \/ DiskShort \/ AgentGone \/ AskInput \/ NoProgress
<1>1. CASE RuntimeLimit \/ CandidateLimit \/ GiveUp \/ ExecutionTrouble
  BY <1>1, BreakSelects, TroubleSelects
  DEF RuntimeLimit, CandidateLimit, GiveUp, ExecutionTrouble, Trouble
<1>2. CASE Simple
  <2>1. Live(mem) /\ Unpublished(mem) /\ pc # "idle"
    BY <1>2, ExecutesUnpublished
    DEF SelectAgent, RunCandidates, CheckPlan, MergeCancel, CheckRound, Evaluate, NextAttempt,
        Winner, Executing
  <2>2. \E m \in {mem, [mem EXCEPT !.st = "AgentSelection"], [mem EXCEPT !.st = "AgentRunning"],
                  [mem EXCEPT !.cancel = mem.cancel \/ disk.cancel], Evaluated,
                  [mem EXCEPT !.attempt = mem.attempt + 1, !.st = "AgentRunning"]} :
          \E l \in Executing \cup {"publish"} : Handles(l, m)
    BY <1>2
    DEF SelectAgent, RunCandidates, CheckPlan, MergeCancel, CheckRound, Evaluate, NextAttempt,
        Winner, Save, Goto, Handles, Executing
  <2>3. \E m : Unpublished(m) /\ \E l \in Executing \cup {"publish"} : Handles(l, m)
    BY <2>1, <2>2 DEF Live, Run, Unpublished, Terminal, Evaluated
  <2>4. "idle" \notin Executing \cup {"publish"}
    BY DEF Executing
  <2>5. QED BY <2>1, <2>3, <2>4, UnpublishedFits, HandlesSelect
<1>3. CASE Round
  <2>1. Live(mem) /\ Unpublished(mem) /\ pc # "idle" /\ ctx \in Ctx
    BY <1>3, ExecutesUnpublished, Working
    DEF LaunchRound, PlanCandidate, StartBatch, BatchDone, RecordResult, Executing
  <2>2. \E m \in {mem, [mem EXCEPT !.running = mem.running + 1,
                                   !.planned = ctx.planned + 1,
                                   !.round = IF ctx.planned = 0 THEN mem.round + 1 ELSE mem.round],
                  [mem EXCEPT !.running = mem.running - 1]} :
          \E l \in Executing : \E c : Holds(c) /\ (SaveCtx(m, l, c) \/ Go(l, m, c))
    <3>1. CASE LaunchRound
      <4>1. PICK n \in Batches : SaveCtx(mem, "plan", [ctx EXCEPT !.todo = n, !.planned = 0])
        BY <3>1 DEF LaunchRound
      <4>2. Holds([ctx EXCEPT !.todo = n, !.planned = 0]) /\ "plan" \in Executing
        BY <2>1 DEF Ctx, Holds, Executing
      <4>3. QED BY <4>1, <4>2
    <3>2. CASE PlanCandidate
      <4> DEFINE c == [ctx EXCEPT !.todo = ctx.todo - 1, !.planned = ctx.planned + 1]
                 m == [mem EXCEPT !.running = mem.running + 1,
                                  !.planned = ctx.planned + 1,
                                  !.round = IF ctx.planned = 0 THEN mem.round + 1 ELSE mem.round]
      <4>1. SaveCtx(m, "plan", c)
        BY <3>2 DEF PlanCandidate
      <4>2. Holds(c) /\ "plan" \in Executing
        BY <2>1 DEF Ctx, Holds, Executing
      <4> HIDE DEF c
      <4>3. QED BY <4>1, <4>2
    <3>3. CASE StartBatch
      <4>1. Holds([ctx EXCEPT !.updates = 0]) /\ "batch" \in Executing
        BY <2>1 DEF Ctx, Holds, Executing
      <4>2. QED BY <3>3, <4>1 DEF StartBatch
    <3>4. CASE BatchDone
      <4>1. PICK n, f : Go("merge", mem, [ctx EXCEPT !.done = n, !.found = f, !.planned = 0])
        BY <3>4 DEF BatchDone
      <4>2. Holds([ctx EXCEPT !.done = n, !.found = f, !.planned = 0]) /\ "merge" \in Executing
        BY <2>1 DEF Ctx, Holds, Executing
      <4>3. QED BY <4>1, <4>2
    <3>5. CASE RecordResult
      <4>1. Holds([ctx EXCEPT !.done = ctx.done - 1]) /\ "merge" \in Executing
        BY <2>1 DEF Ctx, Holds, Executing
      <4>2. QED BY <3>5, <4>1 DEF RecordResult
    <3>6. QED BY <1>3, <3>1, <3>2, <3>3, <3>4, <3>5
  <2>3. \E m : Unpublished(m) /\ \E l \in Executing : \E c :
                 Holds(c) /\ (SaveCtx(m, l, c) \/ Go(l, m, c))
    BY <2>1, <2>2 DEF Live, Run, Unpublished
  <2>4. "idle" \notin Executing
    BY DEF Executing
  <2>5. QED BY <2>1, <2>3, <2>4, UnpublishedFits, SaveSelects, GoSelects
<1>4. CASE Ends
  <2>1. Live(mem) /\ Unpublished(mem) /\ pc # "idle"
    BY <1>4, ExecutesUnpublished
    DEF SelectBlocked, DiskShort, AgentGone, AskInput, NoProgress, Executing
  <2>2. CASE NoProgress
    <3>1. ~Failed(Evaluated).input /\ Failed(Evaluated).st = "TerminalFailure"
      BY <2>1 DEF Live, Run, Unpublished, Failed, Evaluated
    <3>2. QED BY <2>2, <3>1, EndedOfWinner, ReturnSelects DEF NoProgress
  <2>3. CASE SelectBlocked \/ DiskShort \/ AgentGone
    <3>1. Unpublished(Unavailable(mem))
      BY <2>1 DEF Live, Run, Unpublished, Unavailable, Terminal
    <3>2. Break \/ SaveReturn(Unavailable(mem))
      BY <2>3 DEF SelectBlocked, DiskShort, AgentGone
    <3>3. QED BY <2>1, <3>1, <3>2, UnpublishedFits, BreakSelects, ReturnSelects
  <2>4. CASE AskInput
    <3> DEFINE m == [mem EXCEPT !.st = "NeedsInput", !.resumeTo = "AgentRunning",
                                !.wait = FALSE, !.input = FALSE]
    <3>1. Unpublished(m) /\ SaveReturn(m)
      BY <2>1, <2>4 DEF Live, Run, Unpublished, AskInput, Terminal
    <3> HIDE DEF m
    <3>2. QED BY <3>1, UnpublishedFits, ReturnSelects
  <2>5. QED BY <1>4, <2>2, <2>3, <2>4
<1>5. CASE UpdateLoad
  <2>1. /\ pc = "batch" /\ Live(mem) /\ Unpublished(mem)
        /\ ctx \in Ctx /\ ~ctx.noPr /\ OfWinner(disk, world)
    BY <1>5, ExecutesUnpublished, Working DEF UpdateLoad, Executing
  <2> PICK r : /\ Alike(r, disk)
               /\ Go("update", mem, [ctx EXCEPT !.copy = r, !.updates = @ + 1])
    BY <1>5, WorkerCopy DEF Sure, TypeInv
  <2>2. /\ pc' = "update" /\ mem' = mem /\ disk' = disk
        /\ ctx' = [ctx EXCEPT !.copy = r, !.updates = ctx.updates + 1]
    BY DEF Go
  <2>3. ctx'.copy = r /\ ~ctx'.noPr
    BY <2>1, <2>2 DEF Ctx
  <2>4. OfWinner(r, world)
    BY <2>1 DEF Alike, OfWinner, Delivered
  <2>5. Fits("update", mem)
    BY <2>1, UnpublishedFits DEF Executing
  <2>6. QED BY <2>1, <2>2, <2>3, <2>4, <2>5 DEF Selects, Fits
<1>6. CASE UpdateWrite
  <2>1. /\ pc = "update" /\ Live(mem) /\ Unpublished(mem) /\ OfWinner(disk, world)
        /\ ctx \in Ctx /\ ~ctx.noPr /\ OfWinner(ctx.copy, world)
    BY <1>6, ExecutesUnpublished, Working DEF UpdateWrite, Executing
  <2>2. CASE Break
    BY <2>1, <2>2, BreakSelects
  <2>3. CASE /\ pc' = "batch" /\ mem' = mem /\ disk' \in {disk, ctx.copy}
             /\ ctx' = [ctx EXCEPT !.copy = Absent]
    <3>1. ctx'.copy = Absent /\ ~ctx'.noPr
      BY <2>1, <2>3 DEF Ctx
    <3>2. Fits("batch", mem) /\ mem.st \notin Terminal
      BY <2>1, UnpublishedFits DEF Executing, Unpublished
    <3>3. QED BY <2>1, <2>3, <3>1, <3>2, FirstOfWinner DEF Selects, Fits
  <2>4. QED BY <1>6, <2>2, <2>3 DEF UpdateWrite, Go
<1>7. QED
  BY <1>1, <1>2, <1>3, <1>4, <1>5, <1>6 DEF ExecutionStep

\* Where a winner is published, the steps tell how far that is.
LEMMA Publishable ==
  ASSUME Sure, pc \in Publication
  PROVE  /\ Live(mem) /\ OfWinner(mem, world) /\ Publishes(pc, mem) /\ pc # "idle"
         /\ mem.st = "OutcomePublishing" /\ ~mem.input /\ ~ctx.noPr /\ mem.st \notin Terminal
         /\ Done(pc, mem, ctx, world) /\ Made(pc, mem, ctx, world) /\ Claims(mem, world)
<1>1. pc # "idle"
  BY DEF Publication
<1>2. QED
  BY <1>1, Working DEF Publishes, OfWinner, Terminal, Sure, VerifiedInv, StepsInv

\* A winner's publication fits wherever a winner is published.
LEMMA PublicationFits ==
  ASSUME NEW l \in Publication, NEW m, m.st = "OutcomePublishing", OfWinner(m, world),
         l \in {"apply", "verify", "commit", "commits"} => m.integ = m.winner,
         l \in {"integrated", "apply", "verify", "commit", "commits", "repair", "repairing"}
           => m.pr = 0,
         l \in {"finishCheck", "finish", "finished"} => m.step = "result_commented",
         l = "complete" => m.step = "done_marked",
         l \in {"verify", "commit"} => world'.content = m.winner
  PROVE  Fits(l, m) /\ l # "idle"
BY DEF Fits, Publishes, Publication, Executing, Terminal

\* From the winner to the worktree its patch is for.
LEMMA PreparationSelects ==
  ASSUME Sure,
         \/ BeginPublish \/ Publishing \/ Local \/ Reuse \/ Preflight \/ PublishRefused
         \/ NoPatch \/ ReuseWorktree \/ CreateWorktree \/ RecordIntegration
  PROVE  Selects
<1>1. CASE BeginPublish
  <2> DEFINE m == [mem EXCEPT !.st = "OutcomePublishing"]
  <2>1. Live(mem) /\ pc # "idle" /\ OfWinner(mem, world) /\ mem.st \notin Terminal
    BY <1>1, Working DEF BeginPublish, Publishes
  <2>2. OfWinner(m, world) /\ m.st = "OutcomePublishing" /\ "publishing" \in Publication
    BY <2>1 DEF Live, Run, OfWinner, CommittedSteps, Publication
  <2>3. Handles("publishing", m)
    BY <1>1 DEF BeginPublish, Handles
  <2> HIDE DEF m
  <2>4. QED BY <2>1, <2>2, <2>3, PublicationFits, HandlesSelect
<1>2. CASE Publishing
  <2> DEFINE m == [mem EXCEPT !.step = IF mem.step = "None" THEN "started" ELSE mem.step]
             l == IF m.step \in CommittedSteps THEN "reuse" ELSE "preflight"
  <2>1. /\ Live(mem) /\ pc # "idle" /\ OfWinner(mem, world)
        /\ mem.st = "OutcomePublishing" /\ ~ctx.noPr
    BY <1>2, Publishable DEF Publishing, Publication
  <2>2. OfWinner(m, world) /\ m.st = "OutcomePublishing" /\ l \in {"reuse", "preflight"}
    BY <2>1 DEF Live, Run, OfWinner, CommittedSteps
  <2>3. Handles(l, m)
    BY <1>2, <2>1 DEF Publishing, Save, Handles
  <2> HIDE DEF m, l
  <2>4. l \in Publication
    BY <2>2 DEF Publication
  <2>5. QED BY <2>1, <2>2, <2>3, <2>4, PublicationFits, HandlesSelect
<1>3. CASE Local
  BY <1>3, Working DEF Local, Publishes
<1>4. CASE Reuse \/ Preflight \/ PublishRefused
  <2>1. /\ pc # "idle" /\ OfWinner(mem, world) /\ mem.st = "OutcomePublishing"
    BY <1>4, Publishable DEF Reuse, Preflight, PublishRefused, Publication
  <2>2. Fail \/ Handles("pushCheck", mem) \/ Handles("integrate", mem)
    BY <1>4 DEF Reuse, Preflight, PublishRefused, Save, Goto, Handles
  <2>3. {"pushCheck", "integrate"} \subseteq Publication
    BY DEF Publication
  <2>4. QED BY <2>1, <2>2, <2>3, PublicationFits, HandlesSelect, BreakSelects
<1>5. CASE NoPatch
  <2>1. /\ pc # "idle" /\ OfWinner(mem, world) /\ mem.st = "OutcomePublishing"
    BY <1>5, Publishable DEF NoPatch, Publication
  <2>2. mem.pr = 0 /\ "repair" \in Publication
    BY <1>5, <2>1 DEF NoPatch, OfWinner, CommittedSteps, Publication
  <2>3. QED
    BY <1>5, <2>1, <2>2, PublicationFits, HandlesSelect DEF NoPatch, Goto, Handles
<1>6. CASE ReuseWorktree
  <2> DEFINE m == [mem EXCEPT !.step = "integration_created"]
  <2>1. /\ Live(mem) /\ pc # "idle" /\ OfWinner(mem, world) /\ mem.st = "OutcomePublishing"
    BY <1>6, Publishable DEF ReuseWorktree, Publication
  <2>2. mem.integ = mem.winner /\ mem.pr = 0
    BY <1>6, <2>1 DEF ReuseWorktree, Reusable, OfWinner
  <2>3. /\ m.st = "OutcomePublishing" /\ m.integ = m.winner /\ m.pr = 0 /\ OfWinner(m, world)
        /\ "apply" \in Publication
    BY <2>1, <2>2 DEF Live, Run, OfWinner, CommittedSteps, Publication
  <2>4. Handles("apply", m)
    BY <1>6 DEF ReuseWorktree, Save, Handles
  <2> HIDE DEF m
  <2>5. QED BY <2>1, <2>3, <2>4, PublicationFits, HandlesSelect
<1>7. CASE CreateWorktree
  <2>1. /\ pc # "idle" /\ OfWinner(mem, world) /\ mem.st = "OutcomePublishing"
    BY <1>7, Publishable DEF CreateWorktree, Publication
  <2>2. CASE Break
    BY <2>1, <2>2, BreakSelects
  <2>3. CASE Goto("integrated") /\ mem.winner \notin DOMAIN world.tips
    <3>1. mem.pr = 0 /\ "integrated" \in Publication
      BY <2>1, <2>3 DEF OfWinner, CommittedSteps, Publication
    <3>2. QED BY <2>1, <2>3, <3>1, PublicationFits, HandlesSelect DEF Goto, Handles
  <2>4. QED BY <1>7, <2>2, <2>3 DEF CreateWorktree
<1>8. CASE RecordIntegration
  <2> DEFINE m == [mem EXCEPT !.step = "integration_created", !.integ = mem.winner]
  <2>1. /\ Live(mem) /\ pc # "idle" /\ OfWinner(mem, world) /\ mem.st = "OutcomePublishing"
        /\ mem.pr = 0
    BY <1>8, Publishable DEF RecordIntegration, Publication, Publishes
  <2>2. /\ m.st = "OutcomePublishing" /\ m.integ = m.winner /\ m.pr = 0 /\ OfWinner(m, world)
        /\ "apply" \in Publication
    BY <2>1 DEF Live, Run, OfWinner, CommittedSteps, Publication
  <2>3. Handles("apply", m)
    BY <1>8 DEF RecordIntegration, Save, Handles
  <2> HIDE DEF m
  <2>4. QED BY <2>1, <2>2, <2>3, PublicationFits, HandlesSelect
<1>9. QED
  BY <1>1, <1>2, <1>3, <1>4, <1>5, <1>6, <1>7, <1>8

\* From its worktree to the commit, or back to execution.
LEMMA IntegrationSelects ==
  ASSUME Sure,
         \/ Apply \/ Conflict \/ Verify \/ VerifyFails
         \/ Commit \/ NothingToCommit \/ Committed
         \/ Abandon \/ Repair \/ RepairExhausted
  PROVE  Selects
<1>1. /\ Live(mem) /\ pc # "idle" /\ OfWinner(mem, world) /\ mem.st = "OutcomePublishing"
      /\ ~mem.input /\ mem.pr = 0
      /\ pc \in {"apply", "verify", "commit", "commits"} => mem.integ = mem.winner
      /\ pc = "commits" => mem.integ \in DOMAIN world.tips
  BY Publishable
  DEF Apply, Conflict, Verify, VerifyFails, Commit, NothingToCommit, Committed, Abandon, Repair,
      RepairExhausted, Publication, Publishes, Made
<1>2. WorldForm
  BY DEF Sure, TypeInv, WorldInv, WorldForm
<1>3. /\ {"verify", "commit", "commits", "repair", "repairing", "pushCheck"} \subseteq Publication
      /\ "select" \in Executing
  BY DEF Publication, Executing
<1>4. CASE Apply
  <2> DEFINE m == [mem EXCEPT !.step = "patch_applied"]
  <2>1. m.st = "OutcomePublishing" /\ m.integ = m.winner /\ m.pr = 0 /\ OfWinner(m, world)
        /\ m.winner = mem.winner
    BY <1>1, <1>4 DEF Apply, Live, Run, OfWinner, CommittedSteps
  <2>2. world'.content = mem.winner
    BY <1>2, <1>4 DEF Apply, Effect, WorldForm, WorldFields
  <2>3. Handles("verify", m)
    BY <1>4 DEF Apply, Save, Handles
  <2> HIDE DEF m
  <2>4. QED BY <1>1, <1>3, <2>1, <2>2, <2>3, PublicationFits, HandlesSelect
<1>5. CASE Verify
  <2> DEFINE m == [mem EXCEPT !.step = "verified"]
  <2>1. m.st = "OutcomePublishing" /\ m.integ = m.winner /\ m.pr = 0 /\ OfWinner(m, world)
        /\ m.winner = mem.winner
    BY <1>1, <1>5 DEF Verify, Live, Run, OfWinner, CommittedSteps
  <2>2. world'.content = mem.winner
    BY <1>2, <1>5 DEF Verify, Effect, WorldForm, WorldFields, Sure, SelectedInv
  <2>3. Handles("commit", m)
    BY <1>5 DEF Verify, Save, Handles
  <2> HIDE DEF m
  <2>4. QED BY <1>1, <1>3, <2>1, <2>2, <2>3, PublicationFits, HandlesSelect
<1>6. CASE Conflict \/ VerifyFails \/ Abandon
  <2>1. Handles("repair", mem) \/ Handles("repairing", mem)
    BY <1>6 DEF Conflict, VerifyFails, Abandon, Goto, Handles
  <2>2. QED BY <1>1, <1>3, <2>1, PublicationFits, HandlesSelect
<1>7. CASE Commit \/ NothingToCommit
  <2>1. Fail \/ Handles("commits", mem)
    BY <1>7 DEF Commit, NothingToCommit, Goto, Handles
  <2>2. mem.integ = mem.winner
    BY <1>1, <1>7 DEF Commit, NothingToCommit
  <2>3. QED BY <1>1, <1>3, <2>1, <2>2, PublicationFits, HandlesSelect, BreakSelects
<1>8. CASE Committed
  <2> DEFINE m == [mem EXCEPT !.step = "committed"]
  <2>1. m.st = "OutcomePublishing" /\ OfWinner(m, world)
    BY <1>1, <1>8 DEF Committed, Live, Run, OfWinner, CommittedSteps
  <2>2. Handles("pushCheck", m)
    BY <1>8 DEF Committed, Save, Handles
  <2> HIDE DEF m
  <2>3. QED BY <1>1, <1>3, <2>1, <2>2, PublicationFits, HandlesSelect
<1>9. CASE Repair
  <2> DEFINE m == [mem EXCEPT !.attempt = mem.attempt + 1, !.step = "None",
                              !.st = "ReadyForExecution"]
  <2>1. Unpublished(m)
    BY <1>1 DEF Live, Run, Unpublished, Terminal
  <2>2. Handles("select", m)
    BY <1>9 DEF Repair, Save, Handles
  <2> HIDE DEF m
  <2>3. QED BY <1>1, <1>3, <2>1, <2>2, UnpublishedFits, HandlesSelect
<1>10. CASE RepairExhausted
  BY <1>1, <1>10, BreakSelects DEF RepairExhausted
<1>11. QED BY <1>4, <1>5, <1>6, <1>7, <1>8, <1>9, <1>10

\* From the commit to the end of the run.
LEMMA DeliverySelects ==
  ASSUME Sure,
         \/ CheckPush \/ Push \/ RecordPush
         \/ CheckPR \/ OpenPR \/ CancelledWithPR \/ KeepPR \/ RecordPR \/ CheckReview
         \/ WriteOutcome \/ GateFails \/ GatePasses
         \/ Comment \/ CommentFails \/ RecordComment \/ CheckFinish
         \/ Finish \/ DoneFails \/ MarkDone \/ Complete
  PROVE  Selects
<1> DEFINE Plain == \/ CheckPush \/ Push \/ CheckPR \/ KeepPR \/ CheckReview \/ WriteOutcome
                    \/ GatePasses \/ Comment \/ CheckFinish \/ Finish
           Records == RecordPush \/ RecordPR \/ RecordComment
           Onward == {"push", "prCheck", "pushed", "pr", "outcome", "prFound", "gate", "comment",
                      "commented"}
           Closing == {"finish", "finished"}
<1>1. /\ Live(mem) /\ pc # "idle" /\ OfWinner(mem, world) /\ mem.st = "OutcomePublishing"
      /\ ~mem.input /\ ~ctx.noPr
      /\ Publishes(pc, mem) /\ Done(pc, mem, ctx, world) /\ Made(pc, mem, ctx, world)
      /\ Claims(mem, world)
  BY Publishable
  DEF CheckPush, Push, RecordPush, CheckPR, OpenPR, CancelledWithPR, KeepPR, RecordPR,
      CheckReview, WriteOutcome, GateFails, GatePasses, Comment, CommentFails, RecordComment,
      CheckFinish, Finish, DoneFails, MarkDone, Complete, Publication
<1>2. Onward \cup Closing \cup {"prOpened", "reviewCheck", "finishCheck", "complete"}
        \subseteq Publication
  BY DEF Publication
<1>3. CASE Plain
  <2>1. \/ Break
        \/ \E l \in Onward : Handles(l, mem)
        \/ mem.step = "result_commented" /\ \E l \in Closing : Handles(l, mem)
    BY <1>1, <1>3
    DEF CheckPush, Push, CheckPR, KeepPR, CheckReview, WriteOutcome, GatePasses, Comment,
        CheckFinish, Finish, Save, Goto, Handles, Publishes
  <2> HIDE DEF Plain
  <2>2. ASSUME NEW l \in Onward, Handles(l, mem) PROVE Selects
    BY <1>1, <1>2, <2>2, PublicationFits, HandlesSelect
  <2>3. ASSUME NEW l \in Closing, Handles(l, mem), mem.step = "result_commented" PROVE Selects
    BY <1>1, <1>2, <2>3, PublicationFits, HandlesSelect
  <2> HIDE DEF Onward, Closing
  <2>4. QED BY <1>1, <2>1, <2>2, <2>3, BreakSelects
<1>4. CASE GateFails \/ CommentFails \/ DoneFails
  BY <1>1, <1>4, BreakSelects DEF GateFails, CommentFails, DoneFails
<1>5. CASE RecordPush
  <2> DEFINE m == [mem EXCEPT !.step = "branch_pushed"]
  <2>1. m.st = "OutcomePublishing" /\ OfWinner(m, world)
    BY <1>1, <1>5 DEF RecordPush, Live, Run, OfWinner, CommittedSteps, Done
  <2>2. Handles("prCheck", m)
    BY <1>5 DEF RecordPush, Save, Handles
  <2> HIDE DEF m
  <2>3. QED BY <1>1, <1>2, <2>1, <2>2, PublicationFits, HandlesSelect
<1>6. CASE OpenPR
  <2> DEFINE m == [mem EXCEPT !.pr = IF mem.pr # 0 THEN mem.pr ELSE mem.integ]
  <2>1. mem.step = "branch_pushed" /\ mem.integ = mem.winner
    BY <1>1, <1>6 DEF OpenPR, Made, OfWinner
  <2>2. m.st = "OutcomePublishing" /\ OfWinner(m, world)
    BY <1>1, <2>1 DEF Live, Run, OfWinner, CommittedSteps
  <2>3. Handles("prOpened", m)
    <3>1. CASE mem.pr # 0 \/ HasPR(mem.integ)
      BY <1>6, <3>1 DEF OpenPR, Handles
    <3>2. CASE ~(mem.pr # 0 \/ HasPR(mem.integ))
      BY <1>6, <3>2 DEF OpenPR, Handles
    <3>3. QED BY <3>1, <3>2
  <2> HIDE DEF m
  <2>4. QED BY <1>1, <1>2, <2>2, <2>3, PublicationFits, HandlesSelect
<1>7. CASE CancelledWithPR
  <2>1. CASE Break
    BY <1>1, <2>1, BreakSelects
  <2>2. CASE Exit("returned") /\ disk' = [disk EXCEPT !.pr = mem.pr, !.st = "Cancelled"]
    <3>1. Live(disk) /\ ~disk.input
      BY <1>1, Working DEF OfWinner
    <3>2. OfWinner(disk', world)
      BY <2>2, <3>1, EndedOfWinner DEF Live, Run
    <3>3. QED BY <2>2, <3>2, ExitSelects
  <2>3. QED BY <1>7, <2>1, <2>2 DEF CancelledWithPR
<1>8. CASE RecordPR
  <2> DEFINE m == [mem EXCEPT !.step = "pr_created"]
  <2>1. m.st = "OutcomePublishing" /\ OfWinner(m, world)
    BY <1>1, <1>8 DEF RecordPR, Live, Run, OfWinner, CommittedSteps, Done
  <2>2. Handles("reviewCheck", m)
    BY <1>8 DEF RecordPR, Save, Handles
  <2> HIDE DEF m
  <2>3. QED BY <1>1, <1>2, <2>1, <2>2, PublicationFits, HandlesSelect
<1>9. CASE RecordComment
  <2> DEFINE m == [mem EXCEPT !.step = "result_commented"]
  <2>1. m.st = "OutcomePublishing" /\ m.step = "result_commented" /\ OfWinner(m, world)
    BY <1>1, <1>9 DEF RecordComment, Live, Run, OfWinner, CommittedSteps, Done
  <2>2. Handles("finishCheck", m)
    BY <1>9 DEF RecordComment, Save, Handles
  <2> HIDE DEF m
  <2>3. QED BY <1>1, <1>2, <2>1, <2>2, PublicationFits, HandlesSelect
<1>10. CASE MarkDone
  <2> DEFINE m == [mem EXCEPT !.step = "done_marked"]
  <2>1. mem.step = "result_commented"
    BY <1>1, <1>10 DEF MarkDone, Publishes
  <2>2. /\ mem.integ = mem.winner /\ mem.winner \in DOMAIN world.tips
        /\ Delivered(mem, world)
    BY <1>1, <2>1 DEF OfWinner, Claims, CommittedSteps, Reported, Delivered
  <2>3. m.st = "OutcomePublishing" /\ m.step = "done_marked" /\ OfWinner(m, world)
    BY <1>1, <2>2 DEF Live, Run, OfWinner, CommittedSteps, Delivered
  <2>4. Handles("complete", m)
    BY <1>10 DEF MarkDone, Save, Handles
  <2> HIDE DEF m
  <2>5. QED BY <1>1, <1>2, <2>3, <2>4, PublicationFits, HandlesSelect
<1>11. CASE Complete
  <2> DEFINE m == [mem EXCEPT !.st = "Completed", !.step = "completed"]
  <2>1. Delivered(mem, world)
    BY <1>1, <1>11 DEF Complete, Publishes, OfWinner
  <2>2. OfWinner(m, world)
    BY <1>1, <2>1 DEF Live, Run, OfWinner, Delivered, CommittedSteps, Terminal
  <2>3. SaveReturn(m)
    BY <1>11 DEF Complete
  <2> HIDE DEF m
  <2>4. QED BY <2>2, <2>3, ReturnSelects
<1>12. QED
  BY <1>3, <1>4, <1>5, <1>6, <1>7, <1>8, <1>9, <1>10, <1>11

\* All of the publication.
LEMMA PublishingSelects == ASSUME Sure, PublishingStep PROVE Selects
<1>1. CASE PublishingTrouble
  BY <1>1, TroubleSelects DEF PublishingTrouble, Trouble
<1>2. QED
  BY <1>1, PreparationSelects, IntegrationSelects, DeliverySelects DEF PublishingStep

\* The operator starts and resumes the run; a process is killed or signalled.
LEMMA OthersSelect ==
  ASSUME Sure, Modes \subseteq {FALSE}, Command \/ StartProvide \/ Crash \/ Signal
  PROVE  Selects
<1>1. /\ OfWinner(disk, world) /\ OfWinner(mem, world) /\ OfWinner(ctx.copy, world)
      /\ Publishes(pc, mem) /\ ctx \in Ctx /\ ~ctx.noPr
  BY Working
<1>2. CASE \E noPr \in Modes : Start(noPr)
  <2>1. PICK n \in Modes : Start(n)
    BY <1>2
  <2>2. /\ disk' = NewRun /\ mem' = NewRun /\ pc' = "created"
        /\ ctx'.copy = Absent /\ ctx'.noPr = FALSE
    BY <2>1 DEF Start, IdleCtx
  <2>3. Publishes("created", NewRun)
    BY FirstOfWinner DEF Publishes, Publication
  <2>4. QED BY <2>2, <2>3, FirstOfWinner DEF Selects
<1>3. CASE \E noPr \in Modes : StartResume(noPr)
  <2>1. PICK n \in Modes : StartResume(n)
    BY <1>3
  <2>2. /\ disk' = disk /\ mem' = disk /\ pc' = "loaded" /\ disk.st \notin Terminal
        /\ ctx'.copy = Absent /\ ctx'.noPr = FALSE
    BY <2>1 DEF StartResume, Go, IdleCtx
  <2>3. Publishes("loaded", disk)
    BY <2>2 DEF Publishes, Publication, Executing
  <2>4. QED BY <1>1, <2>2, <2>3, FirstOfWinner DEF Selects
<1>4. CASE StartProvide
  BY <1>4 DEF StartProvide, Sure, SelectedInv, Undisturbed
<1>5. CASE Crash
  BY <1>1, <1>5, ExitSelects DEF Crash
<1>6. CASE Signal
  <2>1. Live(disk) /\ (mem.st \in Terminal => disk.st \in Terminal)
    BY <1>6, Working DEF Signal
  <2>2. /\ mem' = mem /\ pc' = pc /\ ctx' = [ctx EXCEPT !.shutdown = TRUE]
        /\ disk' \in {disk, Interrupted(disk)} /\ world' = world
    BY <1>6 DEF Signal
  <2>3. /\ OfWinner(Interrupted(disk), world)
        /\ disk.st \in Terminal => Interrupted(disk).st \in Terminal
    <3> DEFINE r == Interrupted(disk)
    <3>1. /\ r.input = disk.input /\ r.step = disk.step /\ r.winner = disk.winner
          /\ r.integ = disk.integ /\ r.pr = disk.pr
      BY <2>1 DEF Interrupted, Live, Run
    <3>2. r.st = IF disk.st \in Terminal \cup {"OutcomePublishing"} THEN disk.st
                 ELSE "ReadyForExecution"
      BY <2>1 DEF Interrupted, Live, Run
    <3> HIDE DEF r
    <3>3. CASE disk.st \in Terminal \cup {"OutcomePublishing"}
      BY <1>1, <3>1, <3>2, <3>3 DEF OfWinner, r, Delivered
    <3>4. CASE disk.st \notin Terminal \cup {"OutcomePublishing"}
      BY <1>1, <3>1, <3>2, <3>4 DEF OfWinner, r, Terminal
    <3>5. QED BY <3>3, <3>4
  <2>4. ctx'.copy = ctx.copy /\ ~ctx'.noPr
    BY <1>1, <2>2 DEF Ctx
  <2>5. pc \in {"verify", "commit"} => world.content = mem.winner
    BY DEF Sure, SelectedInv
  <2>6. QED BY <1>1, <2>1, <2>2, <2>3, <2>4, <2>5 DEF Selects
<1>7. QED BY <1>2, <1>3, <1>4, <1>5, <1>6 DEF Command

--------------------------------------------------------------------------------
\* Where nothing can be throttled and nobody answers, nothing was and nobody did.
LEMMA StaysUndisturbed ==
  ASSUME MaxThrottles = 0, MaxInputs = 0, Undisturbed, Next
  PROVE  {"throttles", "inputs"} \subseteq DOMAIN used' /\ used'.throttles = 0 /\ used'.inputs = 0
<1> DEFINE Other == \/ used' = used
                    \/ \E f \in {"resumes", "crashes", "errors", "signals", "cancels",
                                 "retries", "strays"} : Spend(f)
<1> SUFFICES Other
  BY DEF Undisturbed, Spend
<1>1. CASE IntakeStep
  BY <1>1
  DEF IntakeStep, SelectIssue, RefuseDirty, Claim, StartAnalysis, Analyze, BriefReady,
      BriefBlocked, ContextTooLarge, MissingBrief, WaitLonger, TakeComment, NoComment,
      AskAgain, Reconsider, ResumePublishing, Republish, PlanRecovery, Recover, Provide,
      IntakeTrouble, Trouble, Quiet, Undisturbed
<1>2. CASE ExecutionStep
  BY <1>2
  DEF ExecutionStep, SelectBlocked, SelectAgent, DiskShort, RunCandidates, RuntimeLimit,
      AgentGone, LaunchRound, CandidateLimit, CheckPlan, CheckCancel, PlanCandidate,
      StartBatch, UpdateLoad, UpdateWrite, BatchDone, MergeCancel, RecordResult,
      CheckRound, Evaluate, NoProgress, AskInput, NextAttempt, GiveUp, Winner,
      ExecutionTrouble, Trouble, Quiet
<1>3. CASE PublishingStep
  BY <1>3
  DEF PublishingStep, BeginPublish, Publishing, Local, Reuse, Preflight, PublishRefused,
      NoPatch, ReuseWorktree, CreateWorktree, RecordIntegration, Apply, Conflict, Verify,
      VerifyFails, Commit, NothingToCommit, Committed, Abandon, Repair, RepairExhausted,
      CheckPush, Push, RecordPush, CheckPR, OpenPR, CancelledWithPR, KeepPR, RecordPR,
      CheckReview, WriteOutcome, GateFails, GatePasses, Comment, CommentFails,
      RecordComment, CheckFinish, Finish, DoneFails, MarkDone, Complete,
      PublishingTrouble, CheckCancel, Trouble, Quiet, Undisturbed
<1>4. CASE Command \/ Crash \/ Signal
  BY <1>4 DEF Command, Start, StartResume, Crash, Signal, Quiet
<1>5. CASE Operator
  BY <1>5 DEF Operator, CancelLoad, RetryLoad, Load, CancelWrite, RetryWrite
<1>6. ~StartProvide
  BY DEF StartProvide, Undisturbed
<1>7. QED BY <1>1, <1>2, <1>3, <1>4, <1>5, <1>6 DEF Next, ProcessStep

\* Only Commit puts a patch on a branch, and it is the one the branch is named after;
\* only Push brings a branch to the remote, and it has its patch.
LEMMA StaysPatched == ASSUME Sure, Next PROVE Patched(world')
<1>1. WorldForm /\ Patched(world)
  BY DEF Sure, TypeInv, WorldInv, WorldForm, SelectedInv
<1>2. world'.tips = world.tips /\ world'.pushed = world.pushed => Patched(world')
  BY <1>1 DEF Patched
<1>3. CASE Inward
  BY <1>2, <1>3, InwardKeepsWorld
<1>4. CASE Claim \/ Comment \/ ReuseWorktree \/ Apply \/ Verify \/ Abandon \/ Finish \/ OpenPR
  BY <1>1, <1>2, <1>4, OutwardFields DEF Stay, WorldFields
<1>5. CASE CreateWorktree
  <2>1. \/ world' = world
        \/ /\ world'.pushed = world.pushed
           /\ world'.tips = Put(world.tips, mem.winner, 0)
    BY <1>1, <1>5, OutwardFields DEF Stay, WorldFields
  <2>2. CASE world' # world
    <3>1. DOMAIN Put(world.tips, mem.winner, 0) = DOMAIN world.tips \cup {mem.winner}
      BY PutDomain, Zenon
    <3>2. /\ world'.tips[mem.winner] = 0
          /\ \A b \in DOMAIN world.tips : b # mem.winner => world'.tips[b] = world.tips[b]
      BY <2>1, <2>2, PutValue
    <3>3. QED BY <1>1, <2>1, <2>2, <3>1, <3>2 DEF Patched
  <2>3. QED BY <1>2, <2>2
<1>6. CASE Commit
  <2>1. world.wt = mem.integ /\ mem.integ = mem.winner /\ world.content = mem.winner
    BY <1>6, Publishable DEF Commit, Publication, Publishes, Done, Sure, SelectedInv
  <2>2. /\ world'.pushed = world.pushed
        /\ world'.tips = Put(world.tips, world.wt, world.content)
    BY <1>1, <1>6, OutwardFields DEF Stay, WorldFields
  <2>3. DOMAIN Put(world.tips, world.wt, world.content) = DOMAIN world.tips \cup {world.wt}
    BY PutDomain, Zenon
  <2>4. /\ world'.tips[world.wt] = world.content
        /\ \A b \in DOMAIN world.tips : b # world.wt => world'.tips[b] = world.tips[b]
    BY <2>2, PutValue
  <2>5. QED BY <1>1, <2>1, <2>2, <2>3, <2>4 DEF Patched
<1>7. CASE Push
  <2>1. \/ world' = world
        \/ /\ world'.tips = world.tips
           /\ world'.pushed = Put(world.pushed, mem.integ, world.tips[mem.integ])
    BY <1>1, <1>7, OutwardFields DEF Stay, WorldFields
  <2>2. CASE world' # world
    <3>1. mem.integ \in DOMAIN world.tips /\ world.tips[mem.integ] # 0
      BY <1>7, Publishable DEF Push, Publication, Done, Claims
    <3>2. world.tips[mem.integ] = mem.integ
      BY <1>1, <3>1 DEF Patched
    <3>3. DOMAIN Put(world.pushed, mem.integ, world.tips[mem.integ])
          = DOMAIN world.pushed \cup {mem.integ}
      BY PutDomain, Zenon
    <3>4. /\ world'.pushed[mem.integ] = mem.integ
          /\ \A b \in DOMAIN world.pushed : b # mem.integ => world'.pushed[b] = world.pushed[b]
      BY <2>1, <2>2, <3>2, PutValue
    <3>5. QED BY <1>1, <2>1, <2>2, <3>3, <3>4 DEF Patched
  <2>3. QED BY <1>2, <2>2
<1>8. QED BY <1>3, <1>4, <1>5, <1>6, <1>7, InwardOrOutward, <1>1 DEF Outward

\* What a copy says of its winner stays true.
LEMMA StaysOfWinner ==
  ASSUME Grows, NEW r, OfWinner(r, world) PROVE OfWinner(r, world')
<1>1. Delivered(r, world) => Delivered(r, world')
  BY DEF Grows, Delivered
<1>2. r.winner \in DOMAIN world.tips => r.winner \in DOMAIN world'.tips
  BY DEF Grows, TipsStay
<1>3. QED BY <1>1, <1>2 DEF OfWinner

\* gg cancel and gg retry write a copy that says of its winner what was true of it,
LEMMA OperatorSelects == ASSUME Sure, Operator PROVE Selects
<1>1. /\ OfWinner(disk, world) /\ OfWinner(mem, world) /\ OfWinner(ctx.copy, world)
      /\ Publishes(pc, mem) /\ ~ctx.noPr /\ OfWinner(op.copy, world)
      /\ mem.st \in Terminal => disk.st \in Terminal
      /\ pc \in {"verify", "commit"} => world.content = mem.winner
  BY Working DEF Sure, SelectedInv
<1>2. mem' = mem /\ pc' = pc /\ ctx' = ctx /\ world' = world
  BY DEF Operator, CancelLoad, RetryLoad, Load, CancelWrite, RetryWrite
<1>3. OfWinner(disk', world) /\ (disk.st \in Terminal => disk'.st \in Terminal)
  <2>1. CASE CancelLoad \/ RetryLoad
    BY <1>1, <2>1 DEF CancelLoad, RetryLoad, Load
  <2>2. CASE CancelWrite
    <3> DEFINE asked == [op.copy EXCEPT !.cancel = TRUE, !.asks = FALSE]
               over == [op.copy EXCEPT !.st = "Cancelled", !.asks = FALSE]
    <3>1. Live(op.copy)
      BY <2>2 DEF CancelWrite, Sure, TypeInv, OperatorInv, None
    <3>2. \/ disk' = disk
          \/ disk' = asked /\ ~Refuses(asked)
          \/ disk' = over /\ ~Refuses(over)
      BY <2>2 DEF CancelWrite
    <3>3. OfWinner(asked, world)
      <4>1. /\ asked.st = op.copy.st /\ asked.input = op.copy.input
            /\ asked.step = op.copy.step /\ asked.winner = op.copy.winner
            /\ asked.integ = op.copy.integ /\ asked.pr = op.copy.pr
        BY <3>1 DEF Live, Run
      <4> HIDE DEF asked
      <4>2. QED BY <1>1, <4>1 DEF OfWinner, Delivered
    <3>4. OfWinner(over, world)
      BY <1>1, <3>1, EndedOfWinner DEF Live, Run, OfWinner
    <3>5. QED BY <1>1, <3>2, <3>3, <3>4 DEF Refuses
  <2>3. CASE RetryWrite
    <3> DEFINE r == [op.copy EXCEPT !.running = 0, !.attempt = @ + 1,
                                    !.st = "ReadyForExecution"]
    <3>1. Live(op.copy) /\ op.copy.st \in {"AgentRunning", "ResultEvaluation"}
      BY <2>3 DEF RetryWrite, Sure, TypeInv, OperatorInv, SelectedInv, None
    <3>2. disk' = disk \/ (disk' = r /\ ~Refuses(r))
      BY <2>3, Zenon DEF RetryWrite
    <3>3. op.copy.step = "None" /\ op.copy.pr = 0 /\ ~op.copy.input
      BY <1>1, <3>1 DEF OfWinner, Terminal
    <3>4. Unpublished(r)
      BY <3>1, <3>3 DEF Live, Run, Unpublished, Terminal
    <3> HIDE DEF r
    <3>5. QED BY <1>1, <3>2, <3>4, UnpublishedFits DEF Refuses
  <2>4. QED BY <2>1, <2>2, <2>3 DEF Operator
<1>4. QED BY <1>1, <1>2, <1>3 DEF Selects

\* and the copy they take is what is on disk.
LEMMA CopySelects ==
  ASSUME Sure, Next
  PROVE  /\ OfWinner(op'.copy, world)
         /\ op'.kind = "retry" => op'.copy.st \in {"AgentRunning", "ResultEvaluation"}
<1>1. /\ OfWinner(disk, world) /\ OfWinner(op.copy, world)
      /\ op.kind = "retry" => op.copy.st \in {"AgentRunning", "ResultEvaluation"}
  BY DEF Sure, SelectedInv
<1>2. CASE op' = op
  BY <1>1, <1>2
<1>3. CASE CancelWrite \/ RetryWrite
  <2>1. op'.copy = Absent /\ op'.kind # "retry"
    BY <1>3 DEF CancelWrite, RetryWrite, NoOp, None
  <2>2. QED BY <2>1, FirstOfWinner
<1>4. CASE CancelLoad \/ RetryLoad
  <2>1. op'.copy = disk /\ (op'.kind = "retry" => CanRetry(disk))
    BY <1>4 DEF CancelLoad, RetryLoad, Load
  <2>2. QED BY <1>1, <2>1 DEF CanRetry
<1>5. QED BY <1>2, <1>3, <1>4, OperatorAlone DEF Next, Operator

\* The invariant is inductive, together with those before it.
LEMMA SelectedStep ==
  ASSUME Modes \subseteq {FALSE}, MaxThrottles = 0, MaxInputs = 0,
         TypeInv, VerifiedInv, StepsInv, SelectedInv, [Next]_vars
  PROVE  SelectedInv'
<1>1. CASE UNCHANGED vars
  BY <1>1
  DEF vars, SelectedInv, Undisturbed, OfWinner, Delivered, Opened, Publishes, Patched
<1>2. CASE Next
  <2>1. Sure
    BY DEF Sure
  <2>2. Selects
    BY <1>2, <2>1, IntakeSelects, ExecutionSelects, PublishingSelects, OthersSelect,
       OperatorSelects
    DEF Next, ProcessStep
  <2>3. Undisturbed'
    BY <1>2, <2>2, StaysUndisturbed DEF SelectedInv, Undisturbed, Selects
  <2>4. Grows
    BY <1>2, WorldGrows
  <2>5. \A r \in {disk', mem', ctx'.copy, op'.copy} : OfWinner(r, world')
    BY <1>2, <2>1, <2>2, <2>4, StaysOfWinner, CopySelects DEF Selects
  <2>6. op'.kind = "retry" => op'.copy.st \in {"AgentRunning", "ResultEvaluation"}
    BY <1>2, <2>1, CopySelects
  <2>7. Patched(world')
    BY <1>2, <2>1, StaysPatched
  <2>8. QED BY <2>2, <2>3, <2>5, <2>6, <2>7 DEF SelectedInv, Selects
<1>3. QED BY <1>1, <1>2

LEMMA SelectedInit == Init => SelectedInv
<1> SUFFICES ASSUME Init PROVE SelectedInv
  OBVIOUS
<1>1. Undisturbed
  BY DEF Init, Undisturbed, IdleCtx
<1>2. /\ disk = Absent /\ mem = Absent /\ ctx.copy = Absent /\ op.copy = Absent
      /\ op.kind # "retry" /\ pc = "idle"
  BY DEF Init, IdleCtx, NoOp, None
<1>3. Publishes("idle", Absent)
  BY DEF Publishes, Executing, Publication
<1>4. Patched(world)
  BY DEF Init, Patched
<1>5. QED BY <1>1, <1>2, <1>3, <1>4, FirstOfWinner DEF SelectedInv

\* However often its publication is interrupted, killed, signalled, cancelled, retried on an
\* old copy, repaired and resumed, a run that completes has the patch of the winner its
\* evaluation names pushed, in a pull request, and reported: as long as every part of it is
\* taken with one, and it is neither throttled nor answered.
THEOREM SelectedIsPublished ==
  ASSUME Modes \subseteq {FALSE}, MaxThrottles = 0, MaxInputs = 0
  PROVE  Spec => []PublishedIsSelected
<1>1. SelectedInv => PublishedIsSelected
  BY DEF SelectedInv, OfWinner, Delivered, Opened, HasPR, Patched, PublishedIsSelected
<1>2. TypeInv /\ VerifiedInv /\ StepsInv /\ SelectedInv /\ [Next]_vars => SelectedInv'
  BY SelectedStep
<1>3. QED BY <1>1, <1>2, TypeInvariant, VerifiedInit, VerifiedStep, StepsInit, StepsStep,
             SelectedInit, PTL DEF Spec
================================================================================
