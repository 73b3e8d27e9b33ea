---------------------------- MODULE Pipeline_proofs ----------------------------
(* What the pipeline keeps for any budget of attempts, any sizes of rounds and *)
(* any number of crashes, cancellations, retries and answers.                  *)
EXTENDS Pipeline, TLAPS

\* A new run is live, one that has not been created is a run without a state.
LEMMA Fresh == /\ Live(NewRun) /\ Absent.st = NoRun /\ Absent.attempt = 1
               /\ NewRun \in Run /\ Absent \in Run
               /\ IdleCtx \in Ctx /\ IdleCtx.copy = Absent
<1>1. 1 \in 1..MaxAttempts /\ InitialState \in TaskState
  BY ConfigAssumption DEF InitialState, TaskState
<1>2. NewRun \in Run /\ NewRun.attempt = 1 /\ NewRun.st # NoRun
  BY <1>1 DEF NewRun, Run, Steps, None, NoRun, TaskState
<1>3. Absent.st = NoRun /\ Absent.attempt = 1
  BY DEF Absent, NewRun
<1>4. Absent \in Run
  BY <1>2 DEF Absent, Run
<1>5. IdleCtx \in Ctx /\ IdleCtx.copy = Absent
  BY <1>4 DEF IdleCtx, Ctx, None
<1>6. QED
  BY <1>1, <1>2, <1>3, <1>4, <1>5 DEF Live

\* A step keeps the invariant, and the run that was created.
Keeps == ProcessInv' /\ (disk # Absent => disk' # Absent)

\* The process that has the lock works on a run that exists.
LEMMA RunLive == ASSUME ProcessInv, pc # "idle" PROVE Live(mem) /\ Live(disk)
BY Fresh DEF ProcessInv, Sound, At

\* What a worker loads says what the run on disk says, but of its candidates.
Alike(r, q) ==
  /\ r.st = q.st /\ r.attempt = q.attempt /\ r.cancel = q.cancel /\ r.step = q.step
  /\ r.resumeTo = q.resumeTo /\ r.wait = q.wait /\ r.asks = q.asks
  /\ r.brief = q.brief /\ r.input = q.input
  /\ r.winner = q.winner /\ r.integ = q.integ /\ r.pr = q.pr

LEMMA WorkerCopy ==
  ASSUME ProcessInv, UpdateLoad
  PROVE  \E r : /\ Live(r) /\ r # Absent /\ Alike(r, disk)
                /\ Go("update", mem, [ctx EXCEPT !.copy = r, !.updates = @ + 1])
<1>1. Live(disk) /\ Live(mem) /\ pc = "batch"
  BY RunLive DEF UpdateLoad
<1>2. PICK lacking \in BOOLEAN :
        Go("update", mem, [ctx EXCEPT !.copy = IF lacking THEN Added(disk) ELSE disk,
                                      !.updates = @ + 1])
  BY DEF UpdateLoad, Lacking
<1> DEFINE n == IF disk.round = mem.round THEN disk.planned + 1 ELSE 1
           r == [disk EXCEPT !.running = @ + 1, !.round = mem.round, !.planned = n]
<1>3. n \in Nat
  BY <1>1 DEF Live, Run
<1> HIDE DEF n
<1>4. Live(r) /\ Alike(r, disk)
  <2>1. disk \in Run /\ mem.round \in Nat /\ disk.running + 1 \in Nat
    BY <1>1 DEF Live, Run
  <2>2. r \in Run
    BY <1>3, <2>1 DEF Run
  <2>3. Alike(r, disk)
    BY <2>1 DEF Run, Alike
  <2>4. QED BY <1>1, <2>2, <2>3 DEF Live, Alike
<1>5. Added(disk) = r
  BY DEF Added, n
<1>6. Absent.st = NoRun
  BY DEF Absent, NewRun
<1> HIDE DEF r
<1>7. CASE lacking
  BY <1>2, <1>4, <1>5, <1>6, <1>7 DEF Live
<1>8. CASE ~lacking
  BY <1>1, <1>2, <1>6, <1>8 DEF Live, Alike
<1>9. QED BY <1>2, <1>7, <1>8

\* However a process ends, it keeps the invariant if the run it leaves is sound.
LEMMA ExitKeeps ==
  ASSUME ProcessInv, NEW how, Exit(how), Live(disk') \/ disk' = disk
  PROVE  Keeps
<1>1. pc' = "idle" /\ mem' = Absent /\ ctx' = IdleCtx
  BY DEF Exit
<1>2. "idle" \in Labels /\ At("idle", Absent, IdleCtx)
  BY DEF Labels, At
<1>3. Sound(disk') /\ (disk # Absent => disk' # Absent)
  BY Fresh DEF ProcessInv, Sound, Live
<1>4. QED BY <1>1, <1>2, <1>3, Fresh DEF Keeps, ProcessInv, Sound

\* An exception that leaves the command writes nothing.
LEMMA RaiseKeeps == ASSUME ProcessInv, Raise PROVE Keeps
<1>1. Exit("raised") /\ disk' = disk
  BY DEF Raise
<1>2. QED BY <1>1, ExitKeeps DEF ProcessInv

\* Going on at l with m and c keeps the invariant when At(l, m, c) holds.
LEMMA GoKeeps ==
  ASSUME ProcessInv, disk # Absent, NEW l \in Labels, NEW m, NEW c, Live(m), c \in Ctx,
         Sound(c.copy), At(l, m, c), Go(l, m, c)
  PROVE  Keeps
BY DEF Keeps, ProcessInv, Go, Sound

\* Leaving the command with a live run written, or with nothing.
LEMMA ReturnKeeps ==
  ASSUME ProcessInv, NEW r, Live(r), SaveReturn(r)
  PROVE  Keeps
<1>1. CASE Raise
  BY <1>1, RaiseKeeps
<1>2. CASE Exit("returned") /\ disk' = r
  BY <1>2, ExitKeeps DEF Sound
<1>3. QED BY <1>1, <1>2 DEF SaveReturn

\* A write, after which the process goes on or dies of the refusal.
LEMMA SaveKeeps ==
  ASSUME ProcessInv, NEW l \in Labels, NEW m, NEW c, Live(m), c \in Ctx, Sound(c.copy),
         At(l, m, c), SaveCtx(m, l, c)
  PROVE  Keeps
<1>1. CASE Raise
  BY <1>1, RaiseKeeps
<1>2. CASE disk' = m /\ mem' = m /\ pc' = l /\ ctx' = c
  BY <1>2, Fresh DEF Keeps, ProcessInv, Sound, Live
<1>3. QED BY <1>1, <1>2 DEF SaveCtx

\* A failed run keeps its attempts.
LEMMA FailedLive == ASSUME NEW r, Live(r) PROVE Live(Failed(r))
BY DEF Failed, Live, Run, TaskState, NoRun

\* Exceptions, failures and throttled calls keep the invariant.
LEMMA BreakKeeps == ASSUME ProcessInv, pc # "idle", Break PROVE Keeps
<1>1. CASE SaveReturn(Failed(mem))
  BY <1>1, RunLive, FailedLive, ReturnKeeps
<1>2. CASE Raise
  BY <1>2, RaiseKeeps
<1>3. QED BY <1>1, <1>2 DEF Break

\* A failure of the run is recorded, or raised where it may not be.
LEMMA FailKeeps == ASSUME ProcessInv, pc # "idle", Fail PROVE Keeps
<1>1. CASE SaveReturn(Failed(mem))
  BY <1>1, RunLive, FailedLive, ReturnKeeps
<1>2. CASE Break
  BY <1>2, BreakKeeps
<1>3. QED BY <1>1, <1>2 DEF Fail

\* A throttled call blocks a live run.
LEMMA ThrottleKeeps == ASSUME ProcessInv, pc # "idle", Throttle PROVE Keeps
<1> DEFINE r == [mem EXCEPT !.st = "Blocked", !.resumeTo = mem.st,
                            !.wait = TRUE, !.asks = FALSE]
<1>1. CASE SaveReturn(r)
  <2>1. Live(r)
    BY RunLive DEF Live, Run, TaskState, NoRun
  <2>2. QED BY <1>1, <2>1, ReturnKeeps
<1>2. CASE Raise
  BY <1>2, RaiseKeeps
<1>3. QED BY <1>1, <1>2 DEF Throttle

\* git and the platform only make a process break off or block the run.
LEMMA TroubleKeeps ==
  ASSUME ProcessInv, NEW errors, NEW throttles, "idle" \notin errors \cup throttles,
         Trouble(errors, throttles)
  PROVE  Keeps
<1>1. pc # "idle"
  BY DEF Trouble
<1>2. QED BY <1>1, BreakKeeps, ThrottleKeeps DEF Trouble

\* Looking for a cancellation: the process ends, or goes on as it wanted to.
LEMMA CheckCancelKeeps ==
  ASSUME ProcessInv, pc # "idle", NEW l \in Labels, NEW m, Live(m), At(l, m, ctx),
         CheckCancel(l, m)
  PROVE  Keeps
<1>1. CASE Go(l, m, ctx)
  BY <1>1, GoKeeps, RunLive, Fresh DEF ProcessInv, Live
<1>2. CASE Return
  <2>1. Exit("returned") /\ disk' = disk
    BY <1>2 DEF Return
  <2>2. QED BY <2>1, ExitKeeps DEF ProcessInv
<1>3. CASE Exit("returned") /\ disk' = [disk EXCEPT !.st = "Cancelled"]
  <2>1. Live(disk')
    BY <1>3, RunLive DEF Live, Run, TaskState, NoRun
  <2>2. QED BY <1>3, <2>1, ExitKeeps DEF Sound
<1>4. CASE Break
  BY <1>4, BreakKeeps
<1>5. QED BY <1>1, <1>2, <1>3, <1>4 DEF CheckCancel, ActOnCancel
--------------------------------------------------------------------------------
\* From the command to execution.
LEMMA IntakeKeeps == ASSUME ProcessInv, IntakeStep PROVE Keeps
<1>1. CASE RefuseDirty \/ MissingBrief
  BY <1>1, FailKeeps DEF RefuseDirty, MissingBrief
<1>2. CASE SelectIssue
  <2> DEFINE m == [mem EXCEPT !.st = "Claiming"]
  <2>1. Live(m) /\ At("claiming", m, ctx)
    BY <1>2, RunLive DEF SelectIssue, Live, Run, TaskState, NoRun, At
  <2>2. QED BY <1>2, <2>1, SaveKeeps DEF SelectIssue, Save, Labels, ProcessInv
<1>3. CASE Claim
  <2>1. Live(mem) /\ Live(disk) /\ At("claimed", mem, ctx)
    BY <1>3, RunLive DEF Claim, Live, At
  <2>2. QED BY <1>3, <2>1, GoKeeps DEF Claim, Goto, Labels, ProcessInv
<1>4. CASE StartAnalysis
  <2> DEFINE m == [mem EXCEPT !.st = "TaskAnalysis"]
  <2>1. Live(m) /\ At("analyze", m, ctx)
    BY <1>4, RunLive DEF StartAnalysis, Live, Run, TaskState, NoRun, At
  <2>2. QED BY <1>4, <2>1, SaveKeeps DEF StartAnalysis, Save, Labels, ProcessInv
<1>5. CASE Analyze \/ ResumePublishing \/ PlanRecovery
  <2>1. Live(mem) /\ \A l \in {"analyzing", "republish", "recovering"} : At(l, mem, ctx)
    BY <1>5, RunLive DEF Analyze, ResumePublishing, PlanRecovery, Live, At
  <2>2. QED
    BY <1>5, <2>1, SaveKeeps
    DEF Analyze, ResumePublishing, PlanRecovery, Save, Labels, ProcessInv
<1>6. CASE BriefReady
  <2> DEFINE r == [mem EXCEPT !.brief = TRUE, !.st = "ReadyForExecution"]
             m == [mem EXCEPT !.brief = TRUE]
  <2>1. Live(r) /\ At("select", r, ctx) /\ Live(m) /\ At("recover", m, ctx)
    BY <1>6, RunLive DEF BriefReady, Live, Run, TaskState, NoRun, At
  <2>2. CASE Save(r, "select")
    BY <2>1, <2>2, SaveKeeps DEF Save, Labels, ProcessInv
  <2>3. CASE Go("recover", m, ctx)
    BY <1>6, <2>1, <2>3, GoKeeps DEF BriefReady, Labels, ProcessInv
  <2>4. QED BY <1>6, <2>2, <2>3 DEF BriefReady
<1>7. CASE BriefBlocked
  <2> DEFINE t == IF mem.st = "Blocked" /\ mem.resumeTo # None THEN mem.resumeTo
                  ELSE "TaskAnalysis"
             r == [mem EXCEPT !.st = "Blocked", !.brief = TRUE, !.wait = FALSE,
                              !.asks = TRUE, !.resumeTo = t]
  <2>1. SaveReturn(r)
    BY <1>7 DEF BriefBlocked
  <2>2. Live(r)
    BY <1>7, RunLive DEF BriefBlocked, Live, Run, TaskState, NoRun
  <2>3. QED BY <2>1, <2>2, ReturnKeeps
<1>8. CASE ContextTooLarge
  <2> DEFINE r == [mem EXCEPT !.st = "Blocked", !.brief = TRUE, !.asks = FALSE]
  <2>1. Live(r)
    BY <1>8, RunLive DEF ContextTooLarge, Live, Run, TaskState, NoRun
  <2>2. QED BY <1>8, <2>1, FailKeeps, ReturnKeeps DEF ContextTooLarge
<1>9. CASE WaitLonger \/ AskAgain
  BY <1>9, RunLive, ReturnKeeps DEF WaitLonger, AskAgain
<1>10. CASE TakeComment \/ Provide
  <2>1. CASE Break
    BY <1>10, <2>1, BreakKeeps DEF TakeComment, Provide
  <2>2. CASE /\ CanTransition(mem.st, AfterInput)
             /\ Save(Answered, "answered") \/ SaveReturn(Answered)
    <3>1. Live(mem)
      BY <1>10, RunLive DEF TakeComment, Provide
    <3>2. AfterInput \in TaskState
      BY <2>2, <3>1 DEF CanTransition, Allowed, Live, Run, TaskState, NoRun
    <3>3. Live(Answered) /\ At("answered", Answered, ctx)
      BY <3>1, <3>2 DEF Answered, Live, Run, TaskState, NoRun, At
    <3>4. QED BY <2>2, <3>3, SaveKeeps, ReturnKeeps DEF Save, Labels, ProcessInv
  <2>3. QED BY <1>10, <2>1, <2>2 DEF TakeComment, Provide
<1>11. CASE NoComment
  <2>1. Live(disk) /\ At("answered", disk, ctx)
    BY <1>11, RunLive DEF NoComment, Live, At
  <2>2. QED BY <1>11, <2>1, GoKeeps DEF NoComment, Labels, ProcessInv
<1>12. CASE Reconsider
  <2>1. pc # "idle" /\ \E l \in {"analyze", "recover"} : Goto(l)
    BY <1>12 DEF Reconsider
  <2>2. Live(mem) /\ \A l \in {"analyze", "recover"} : At(l, mem, ctx) /\ l \in Labels
    BY <2>1, RunLive DEF Live, At, Labels
  <2>3. QED BY <2>1, <2>2, GoKeeps DEF Goto, ProcessInv
<1>13. CASE Republish
  <2>1. CASE Fail
    BY <1>13, <2>1, FailKeeps DEF Republish
  <2>2. CASE mem.winner # 0 /\ Goto("publish")
    <3>1. Live(mem) /\ At("publish", mem, ctx)
      BY <1>13, <2>2, RunLive DEF Republish, Live, At
    <3>2. QED BY <1>13, <2>2, <3>1, GoKeeps DEF Republish, Goto, Labels, ProcessInv
  <2>3. QED BY <1>13, <2>1, <2>2 DEF Republish
<1>14. CASE Recover
  <2> DEFINE m == [mem EXCEPT !.running = 0]
             r == [mem EXCEPT !.st = "ReadyForExecution", !.running = 0]
  <2>1. Live(m) /\ At("select", m, ctx) /\ Live(r) /\ At("select", r, ctx)
    BY <1>14, RunLive DEF Recover, Live, Run, TaskState, NoRun, At
  <2>2. CASE Go("select", m, ctx)
    BY <1>14, <2>1, <2>2, GoKeeps DEF Recover, Labels, ProcessInv
  <2>3. CASE Save(r, "select")
    BY <2>1, <2>3, SaveKeeps DEF Save, Labels, ProcessInv
  <2>4. QED BY <1>14, <2>2, <2>3 DEF Recover
<1>15. CASE IntakeTrouble
  BY <1>15, TroubleKeeps DEF IntakeTrouble
<1>16. QED
  BY <1>1, <1>2, <1>3, <1>4, <1>5, <1>6, <1>7, <1>8, <1>9, <1>10, <1>11, <1>12, <1>13,
     <1>14, <1>15 DEF IntakeStep
--------------------------------------------------------------------------------
\* The rounds of candidates: each planned one is recorded as running before its
\* result can be.
LEMMA ExecutionKeeps == ASSUME ProcessInv, ExecutionStep PROVE Keeps
<1>1. CASE RuntimeLimit \/ CandidateLimit \/ GiveUp
  BY <1>1, FailKeeps DEF RuntimeLimit, CandidateLimit, GiveUp
<1>2. CASE SelectBlocked \/ DiskShort \/ AgentGone
  <2>1. pc # "idle" /\ (SaveReturn(Unavailable(mem)) \/ Break)
    BY <1>2 DEF SelectBlocked, DiskShort, AgentGone
  <2>2. Live(Unavailable(mem))
    BY <2>1, RunLive DEF Unavailable, Live, Run, TaskState, NoRun
  <2>3. QED BY <2>1, <2>2, ReturnKeeps, BreakKeeps
<1>3. CASE SelectAgent
  <2> DEFINE m == [mem EXCEPT !.st = "AgentSelection"]
  <2>1. Live(m) /\ At("selected", m, ctx)
    BY <1>3, RunLive DEF SelectAgent, Live, Run, TaskState, NoRun, At
  <2>2. QED BY <1>3, <2>1, SaveKeeps DEF SelectAgent, Save, Labels, ProcessInv
<1>4. CASE RunCandidates
  <2> DEFINE m == [mem EXCEPT !.st = "AgentRunning"]
  <2>1. Live(m) /\ At("loop", m, ctx)
    BY <1>4, RunLive DEF RunCandidates, Live, Run, TaskState, NoRun, At
  <2>2. QED BY <1>4, <2>1, SaveKeeps DEF RunCandidates, Save, Labels, ProcessInv
<1>5. CASE LaunchRound
  <2>1. PICK n \in Batches : SaveCtx(mem, "plan", [ctx EXCEPT !.todo = n, !.planned = 0])
    BY <1>5 DEF LaunchRound
  <2> DEFINE c == [ctx EXCEPT !.todo = n, !.planned = 0]
  <2>2. n \in Nat
    BY ConfigAssumption
  <2>3. c \in Ctx /\ c.copy = ctx.copy /\ c.planned = 0
    BY <2>2 DEF ProcessInv, Ctx
  <2>4. Live(mem)
    BY <1>5, RunLive DEF LaunchRound
  <2>5. At("plan", mem, c)
    BY <2>3, <2>4 DEF Live, Run, At
  <2>6. QED BY <2>1, <2>3, <2>4, <2>5, SaveKeeps DEF Labels, ProcessInv
<1>6. CASE CheckPlan
  <2>1. Live(mem) /\ At("planned", mem, ctx)
    BY <1>6, RunLive DEF CheckPlan, ProcessInv, Live, Ctx, At
  <2>2. QED BY <1>6, <2>1, CheckCancelKeeps DEF CheckPlan, Labels
<1>7. CASE PlanCandidate
  <2> DEFINE n == IF ctx.planned = 0 THEN mem.round + 1 ELSE mem.round
             m == [mem EXCEPT !.running = @ + 1, !.planned = ctx.planned + 1, !.round = n]
             c == [ctx EXCEPT !.todo = @ - 1, !.planned = @ + 1]
  <2>1. SaveCtx(m, "plan", c)
    BY <1>7 DEF PlanCandidate
  <2>2. Live(mem) /\ At("planned", mem, ctx) /\ ctx \in Ctx /\ Sound(ctx.copy)
    BY <1>7, RunLive DEF PlanCandidate, ProcessInv
  <2>3. /\ n \in Nat /\ n # 0 /\ mem.running + 1 \in Nat
        /\ ctx.todo - 1 \in Nat /\ ctx.planned + 1 \in Nat
    BY <2>2 DEF Live, Run, Ctx, At
  <2> HIDE DEF n
  <2>4. Live(m) /\ m.running = mem.running + 1 /\ m.round = n /\ m.st = mem.st
    BY <2>2, <2>3 DEF Live, Run
  <2>5. c \in Ctx /\ c.copy = ctx.copy /\ c.planned = ctx.planned + 1
    BY <2>2, <2>3 DEF Ctx
  <2>6. At("plan", m, c)
    BY <2>2, <2>3, <2>4, <2>5 DEF Live, Run, Ctx, At
  <2>7. QED BY <2>1, <2>2, <2>4, <2>5, <2>6, SaveKeeps DEF Labels
<1>8. CASE StartBatch
  <2> DEFINE c == [ctx EXCEPT !.updates = 0]
  <2>1. Live(mem) /\ At("plan", mem, ctx) /\ ctx \in Ctx /\ Sound(ctx.copy)
        /\ Go("batch", mem, c)
    BY <1>8, RunLive DEF StartBatch, ProcessInv
  <2>2. c \in Ctx /\ c.copy = ctx.copy /\ c.planned = ctx.planned
    BY <2>1 DEF Ctx
  <2>3. At("batch", mem, c)
    BY <2>1, <2>2 DEF Live, At
  <2>4. QED BY <1>8, <2>1, <2>2, <2>3, GoKeeps DEF StartBatch, ProcessInv, Labels
<1>9. CASE UpdateLoad
  <2>1. /\ Live(mem) /\ At("batch", mem, ctx) /\ ctx \in Ctx /\ disk # Absent
    BY <1>9, RunLive DEF UpdateLoad, ProcessInv
  <2>2. PICK r : /\ Live(r) /\ r # Absent
                 /\ Go("update", mem, [ctx EXCEPT !.copy = r, !.updates = @ + 1])
    BY <1>9, WorkerCopy
  <2> DEFINE c == [ctx EXCEPT !.copy = r, !.updates = @ + 1]
  <2>3. c \in Ctx /\ c.copy = r /\ c.planned = ctx.planned
    <3>1. r \in Run /\ ctx.updates + 1 \in Nat
      BY <2>1, <2>2 DEF Ctx, Live
    <3>2. QED BY <2>1, <3>1 DEF Ctx
  <2>4. Go("update", mem, c)
    BY <2>2
  <2> HIDE DEF c
  <2>5. At("update", mem, c)
    BY <2>1, <2>2, <2>3 DEF Live, At
  <2>6. QED BY <2>1, <2>2, <2>3, <2>4, <2>5, GoKeeps DEF Sound, Labels
<1>10. CASE UpdateWrite
  <2> DEFINE c == [ctx EXCEPT !.copy = Absent]
  <2>1. /\ Live(mem) /\ pc # "idle" /\ At("update", mem, ctx) /\ ctx \in Ctx
        /\ Live(ctx.copy) /\ ctx.copy # Absent
    BY <1>10, RunLive DEF UpdateWrite, ProcessInv, Sound, At
  <2>2. c \in Ctx /\ c.copy = Absent /\ c.planned = ctx.planned
    BY <2>1, Fresh DEF Ctx
  <2>3. At("batch", mem, c)
    BY <2>1, <2>2 DEF Live, At
  <2>4. CASE Break
    BY <2>1, <2>4, BreakKeeps
  <2>5. CASE Go("batch", mem, c)
    BY <2>1, <2>2, <2>3, <2>5, GoKeeps DEF Sound, Labels, ProcessInv
  <2>6. CASE disk' = ctx.copy /\ mem' = mem /\ pc' = "batch" /\ ctx' = c
    BY <2>1, <2>2, <2>3, <2>6 DEF Keeps, ProcessInv, Sound, Labels
  <2>7. QED BY <1>10, <2>4, <2>5, <2>6 DEF UpdateWrite
<1>11. CASE BatchDone
  <2>1. PICK n \in (IF ctx.shutdown THEN 0..ctx.planned ELSE {ctx.planned}),
             f \in {"none", "winner", "input"} :
          /\ n = 0 => f = "none"
          /\ Go("merge", mem, [ctx EXCEPT !.done = n, !.found = f, !.planned = 0])
    BY <1>11 DEF BatchDone
  <2> DEFINE c == [ctx EXCEPT !.done = n, !.found = f, !.planned = 0]
  <2>2. /\ Live(mem) /\ At("batch", mem, ctx) /\ ctx \in Ctx /\ Sound(ctx.copy)
        /\ disk # Absent
    BY <1>11, RunLive DEF BatchDone, ProcessInv
  <2>3. n \in Nat /\ n <= ctx.planned
    BY <2>2 DEF Ctx
  <2>4. c \in Ctx /\ c.copy = ctx.copy /\ c.done = n /\ c.found = f
    BY <2>2, <2>3 DEF Ctx
  <2>5. At("merge", mem, c)
    BY <2>1, <2>2, <2>3, <2>4 DEF Live, Run, Ctx, At
  <2>6. QED BY <2>1, <2>2, <2>4, <2>5, GoKeeps DEF Labels
<1>12. CASE MergeCancel
  <2> DEFINE b == mem.cancel \/ disk.cancel
             m == [mem EXCEPT !.cancel = b]
  <2>1. /\ Live(mem) /\ Live(disk) /\ At("merge", mem, ctx) /\ ctx \in Ctx
        /\ Sound(ctx.copy) /\ disk # Absent /\ ctx.done > 0
        /\ Go("record", m, ctx)
    BY <1>12, RunLive DEF MergeCancel, ProcessInv
  <2>2. b \in BOOLEAN
    BY <2>1 DEF Live, Run
  <2> HIDE DEF b
  <2>3. Live(m) /\ m.running = mem.running /\ m.round = mem.round
    BY <2>1, <2>2 DEF Live, Run
  <2>4. At("record", m, ctx)
    BY <2>1, <2>3 DEF Live, At
  <2>5. QED BY <2>1, <2>3, <2>4, GoKeeps DEF Labels
<1>13. CASE RecordResult
  <2> DEFINE m == [mem EXCEPT !.running = @ - 1]
             c == [ctx EXCEPT !.done = @ - 1]
  <2>1. /\ Live(mem) /\ At("record", mem, ctx) /\ ctx \in Ctx /\ Sound(ctx.copy)
        /\ SaveCtx(m, "merge", c)
    BY <1>13, RunLive DEF RecordResult, ProcessInv
  <2>2. mem.running - 1 \in Nat /\ ctx.done - 1 \in Nat
    BY <2>1 DEF Live, Run, Ctx, At
  <2>3. Live(m) /\ m.running = mem.running - 1 /\ m.round = mem.round
    BY <2>1, <2>2 DEF Live, Run
  <2>4. c \in Ctx /\ c.copy = ctx.copy /\ c.done = ctx.done - 1 /\ c.found = ctx.found
    BY <2>1, <2>2 DEF Ctx
  <2>5. At("merge", m, c)
    BY <2>1, <2>3, <2>4 DEF Live, Run, Ctx, At
  <2>6. QED BY <2>1, <2>3, <2>4, <2>5, SaveKeeps DEF Labels
<1>14. CASE CheckRound
  <2>1. Live(mem) /\ At("evaluate", mem, ctx)
    BY <1>14, RunLive DEF CheckRound, ProcessInv, Live, At
  <2>2. QED BY <1>14, <2>1, CheckCancelKeeps DEF CheckRound, Labels
<1>15. CASE Evaluate \/ NoProgress
  <2> DEFINE w == IF ctx.found = "winner" THEN mem.round ELSE 0
  <2>1. Live(mem) /\ At("evaluate", mem, ctx) /\ ctx \in Ctx /\ Sound(ctx.copy)
    BY <1>15, RunLive DEF Evaluate, NoProgress, ProcessInv
  <2>2. w \in Nat
    BY <2>1 DEF Live, Run
  <2>3. Live(Evaluated) /\ Evaluated.winner = w
    BY <2>1, <2>2 DEF Evaluated, Live, Run, TaskState, NoRun
  <2>4. At("evaluated", Evaluated, ctx)
    BY <2>1, <2>3 DEF Live, At
  <2>5. Live(Failed(Evaluated))
    BY <2>3, FailedLive
  <2>6. CASE Evaluate
    BY <2>1, <2>3, <2>4, <2>6, SaveKeeps DEF Evaluate, Save, Labels
  <2>7. CASE NoProgress
    BY <2>5, <2>7, ReturnKeeps DEF NoProgress
  <2>8. QED BY <1>15, <2>6, <2>7
<1>16. CASE AskInput
  <2> DEFINE r == [mem EXCEPT !.st = "NeedsInput", !.resumeTo = "AgentRunning",
                              !.wait = FALSE, !.input = FALSE]
  <2>1. Live(r)
    BY <1>16, RunLive DEF AskInput, Live, Run, TaskState, NoRun
  <2>2. QED BY <1>16, <2>1, ReturnKeeps DEF AskInput
<1>17. CASE NextAttempt
  <2> DEFINE m == [mem EXCEPT !.attempt = @ + 1, !.st = "AgentRunning"]
  <2>1. Live(mem) /\ mem.attempt < MaxAttempts /\ Save(m, "loop")
    BY <1>17, RunLive DEF NextAttempt
  <2>2. mem.attempt + 1 \in 1..MaxAttempts /\ mem.attempt + 1 \in Nat
    BY <2>1, ConfigAssumption DEF Live, Run
  <2>3. Live(m) /\ At("loop", m, ctx)
    BY <2>1, <2>2 DEF Live, Run, TaskState, NoRun, At
  <2>4. QED BY <2>1, <2>3, SaveKeeps DEF Save, Labels, ProcessInv
<1>18. CASE Winner
  <2>1. Live(mem) /\ At("publish", mem, ctx)
    BY <1>18, RunLive DEF Winner, ProcessInv, Live, At
  <2>2. QED BY <1>18, <2>1, GoKeeps DEF Winner, Goto, Labels, ProcessInv
<1>19. CASE ExecutionTrouble
  BY <1>19, TroubleKeeps DEF ExecutionTrouble
<1>20. QED
  BY <1>1, <1>2, <1>3, <1>4, <1>5, <1>6, <1>7, <1>8, <1>9, <1>10, <1>11, <1>12, <1>13,
     <1>14, <1>15, <1>16, <1>17, <1>18, <1>19 DEF ExecutionStep
--------------------------------------------------------------------------------
\* An edit of the publishing fields leaves the rest of a live run alone.
LEMMA EditStep ==
  ASSUME NEW r, Live(r), NEW s \in Steps
  PROVE  LET m == [r EXCEPT !.step = s]
         IN Live(m) /\ \A f \in {"st", "attempt", "winner", "integ"} : m[f] = r[f]
BY DEF Live, Run

\* Writing a step of the publication and going on.
LEMMA SaveStepKeeps ==
  ASSUME ProcessInv, pc # "idle", NEW s \in Steps, NEW l \in Labels,
         Live([mem EXCEPT !.step = s]) => At(l, [mem EXCEPT !.step = s], ctx),
         Save([mem EXCEPT !.step = s], l)
  PROVE  Keeps
<1>1. Live([mem EXCEPT !.step = s])
  BY RunLive, EditStep
<1>2. QED BY <1>1, SaveKeeps DEF Save, ProcessInv

\* Going on at l with the run as it is.
LEMMA GotoKeeps ==
  ASSUME ProcessInv, pc # "idle", NEW l \in Labels, Live(mem) => At(l, mem, ctx), Goto(l)
  PROVE  Keeps
BY RunLive, GoKeeps DEF Goto, ProcessInv

\* From the winner to the end of the run: what is recorded has attempts left, a
\* winner and an integration where the next step needs them.
LEMMA PublishingKeeps == ASSUME ProcessInv, PublishingStep PROVE Keeps
<1>1. CASE PublishRefused \/ RepairExhausted \/ GateFails \/ CommentFails \/ DoneFails
  BY <1>1, FailKeeps DEF PublishRefused, RepairExhausted, GateFails, CommentFails, DoneFails
<1>2. CASE PublishingTrouble
  BY <1>2, TroubleKeeps DEF PublishingTrouble
<1>3. CASE BeginPublish
  <2> DEFINE m == [mem EXCEPT !.st = "OutcomePublishing"]
  <2>1. Live(mem) /\ At("publish", mem, ctx)
    BY <1>3, RunLive DEF BeginPublish, ProcessInv
  <2>2. Live(m) /\ At("publishing", m, ctx)
    BY <2>1 DEF Live, Run, TaskState, NoRun, At
  <2>3. QED BY <1>3, <2>2, CheckCancelKeeps DEF BeginPublish, Labels
<1>4. CASE Publishing
  <2>1. /\ Live(mem) /\ At("publishing", mem, ctx)
        /\ \E s \in Steps, l \in {"local", "reuse", "preflight"} :
             Save([mem EXCEPT !.step = s], l)
    <3>1. Live(mem) /\ At("publishing", mem, ctx)
      BY <1>4, RunLive DEF Publishing, ProcessInv
    <3> DEFINE s == IF mem.step = "None" THEN "started" ELSE mem.step
    <3>2. s \in Steps
      BY <3>1 DEF Live, Run, Steps
    <3>3. \E l \in {"local", "reuse", "preflight"} : Save([mem EXCEPT !.step = s], l)
      BY <1>4 DEF Publishing
    <3>4. QED BY <3>1, <3>2, <3>3
  <2>2. PICK s \in Steps, l \in {"local", "reuse", "preflight"} :
             Save([mem EXCEPT !.step = s], l)
    BY <2>1
  <2>3. At(l, [mem EXCEPT !.step = s], ctx)
    BY <2>1, EditStep DEF Live, At
  <2>4. QED BY <1>4, <2>2, <2>3, SaveStepKeeps DEF Publishing, Labels
<1>5. CASE Local
  <2> DEFINE m == [mem EXCEPT !.pr = 0, !.step = "local_no_pr"]
  <2>1. Live(m) /\ At("outcome", m, ctx)
    BY <1>5, RunLive DEF Local, Live, Run, Steps, At
  <2>2. QED BY <1>5, <2>1, GoKeeps DEF Local, Labels, ProcessInv
<1>6. CASE Reuse
  <2>1. pc # "idle" /\ (Fail \/ (mem.integ # 0 /\ Goto("pushCheck")))
    BY <1>6 DEF Reuse
  <2>2. QED BY <2>1, FailKeeps, GotoKeeps DEF Live, At, Labels
<1>7. CASE Preflight
  <2>1. Live(mem) /\ At("preflight", mem, ctx) /\ Save(mem, "integrate")
    BY <1>7, RunLive DEF Preflight, ProcessInv
  <2>2. QED BY <2>1, SaveKeeps DEF Save, Live, At, Labels, ProcessInv
<1>8. CASE NoPatch \/ Conflict \/ VerifyFails
  BY <1>8, GotoKeeps DEF NoPatch, Conflict, VerifyFails, Live, At, Labels
<1>9. CASE ReuseWorktree
  <2>1. mem.integ # 0 /\ pc # "idle"
        /\ Save([mem EXCEPT !.step = "integration_created"], "apply")
    BY <1>9 DEF ReuseWorktree, Reusable
  <2>2. QED BY <2>1, SaveStepKeeps, RunLive, EditStep DEF Steps, Labels, At, Live
<1>10. CASE CreateWorktree
  <2>1. Live(mem) /\ At("integrate", mem, ctx) /\ pc # "idle"
    BY <1>10, RunLive DEF CreateWorktree, ProcessInv
  <2>2. Break \/ Goto("integrated")
    BY <1>10 DEF CreateWorktree
  <2>3. QED BY <2>1, <2>2, BreakKeeps, GotoKeeps DEF Live, At, Labels
<1>11. CASE RecordIntegration
  <2> DEFINE m == [mem EXCEPT !.step = "integration_created", !.integ = mem.winner]
  <2>1. Live(mem) /\ At("integrated", mem, ctx) /\ Save(m, "apply")
    BY <1>11, RunLive DEF RecordIntegration, ProcessInv
  <2>2. mem.winner \in Nat /\ mem.winner # 0
    BY <2>1 DEF Live, Run, At
  <2>3. Live(m) /\ At("apply", m, ctx)
    BY <2>1, <2>2 DEF Live, Run, Steps, At
  <2>4. QED BY <2>1, <2>3, SaveKeeps DEF Save, Labels, ProcessInv
<1>12. CASE Apply \/ Verify \/ Committed
  <2>1. /\ Live(mem) /\ mem.integ # 0 /\ pc # "idle"
        /\ \E s \in Steps, l \in {"verify", "commit", "pushCheck"} :
             Save([mem EXCEPT !.step = s], l)
    BY <1>12, RunLive DEF Apply, Verify, Committed, ProcessInv, At, Steps
  <2>2. PICK s \in Steps, l \in {"verify", "commit", "pushCheck"} :
             Save([mem EXCEPT !.step = s], l)
    BY <2>1
  <2>3. At(l, [mem EXCEPT !.step = s], ctx)
    BY <2>1, EditStep DEF Live, At
  <2>4. QED BY <2>1, <2>2, <2>3, SaveStepKeeps DEF Labels
<1>13. CASE Commit \/ NothingToCommit
  <2>1. /\ Live(mem) /\ mem.integ # 0 /\ pc # "idle"
        /\ Fail \/ Goto("commits")
    BY <1>13, RunLive DEF Commit, NothingToCommit, ProcessInv, At
  <2>2. QED BY <2>1, FailKeeps, GotoKeeps DEF Live, At, Labels
<1>14. CASE Abandon
  <2>1. pc # "idle" /\ mem.attempt < MaxAttempts /\ Goto("repairing")
    BY <1>14 DEF Abandon
  <2>2. QED BY <2>1, GotoKeeps DEF Live, At, Labels
<1>15. CASE Repair
  <2> DEFINE m == [mem EXCEPT !.attempt = @ + 1, !.step = "None",
                              !.st = "ReadyForExecution"]
  <2>1. Live(mem) /\ mem.attempt < MaxAttempts /\ Save(m, "select")
    BY <1>15, RunLive DEF Repair, ProcessInv, At
  <2>2. mem.attempt + 1 \in 1..MaxAttempts /\ mem.attempt + 1 \in Nat
    BY <2>1, ConfigAssumption DEF Live, Run
  <2>3. Live(m) /\ At("select", m, ctx)
    BY <2>1, <2>2 DEF Live, Run, TaskState, Steps, NoRun, At
  <2>4. QED BY <2>1, <2>3, SaveKeeps DEF Save, Labels, ProcessInv
<1>16. CASE CheckPush
  <2> DEFINE l == IF mem.step = "committed" THEN "push" ELSE "prCheck"
  <2>1. Live(mem) /\ At("pushCheck", mem, ctx) /\ pc # "idle" /\ CheckCancel(l, mem)
    BY <1>16, RunLive DEF CheckPush, ProcessInv
  <2>2. At(l, mem, ctx) /\ l \in Labels
    BY <2>1 DEF Live, At, Labels
  <2>3. QED BY <2>1, <2>2, CheckCancelKeeps
<1>17. CASE CheckPR \/ CheckReview \/ CheckFinish
  <2>1. PICK l \in {"pr", "outcome", "finish"} : CheckCancel(l, mem)
    BY <1>17 DEF CheckPR, CheckReview, CheckFinish
  <2>2. Live(mem) /\ pc # "idle"
    BY <1>17, RunLive DEF CheckPR, CheckReview, CheckFinish
  <2>3. At(l, mem, ctx) /\ l \in Labels
    BY <2>2 DEF Live, At, Labels
  <2>4. QED BY <2>1, <2>2, <2>3, CheckCancelKeeps
<1>18. CASE Push
  <2>1. pc # "idle" /\ (Break \/ Goto("pushed"))
    BY <1>18 DEF Push
  <2>2. QED BY <2>1, BreakKeeps, GotoKeeps DEF Live, At, Labels
<1>19. CASE RecordPush \/ RecordPR \/ RecordComment \/ MarkDone
  <2>1. PICK s \in Steps, l \in {"prCheck", "reviewCheck", "finishCheck", "complete"} :
             Save([mem EXCEPT !.step = s], l)
    BY <1>19 DEF RecordPush, RecordPR, RecordComment, MarkDone, Steps
  <2>2. Live(mem) /\ pc # "idle"
    BY <1>19, RunLive DEF RecordPush, RecordPR, RecordComment, MarkDone
  <2>3. At(l, [mem EXCEPT !.step = s], ctx)
    BY <2>2, EditStep DEF Live, At
  <2>4. QED BY <2>1, <2>2, <2>3, SaveStepKeeps DEF Labels
<1>20. CASE OpenPR
  <2> DEFINE u == IF mem.pr # 0 THEN mem.pr ELSE mem.integ
             m == [mem EXCEPT !.pr = u]
             n == [mem EXCEPT !.pr = mem.integ]
  <2>1. Live(mem) /\ pc # "idle" /\ (Go("prOpened", m, ctx) \/ Go("prOpened", n, ctx))
    BY <1>20, RunLive DEF OpenPR
  <2>2. Live(m) /\ At("prOpened", m, ctx)
    BY <2>1 DEF Live, Run, At
  <2>3. Live(n) /\ At("prOpened", n, ctx)
    BY <2>1 DEF Live, Run, At
  <2>4. QED BY <2>1, <2>2, <2>3, GoKeeps DEF Labels, ProcessInv
<1>21. CASE CancelledWithPR
  <2> DEFINE r == [disk EXCEPT !.pr = mem.pr, !.st = "Cancelled"]
  <2>1. /\ Live(mem) /\ Live(disk) /\ pc # "idle"
        /\ Break \/ (Exit("returned") /\ disk' = r)
    BY <1>21, RunLive DEF CancelledWithPR
  <2>2. Live(r)
    BY <2>1 DEF Live, Run, TaskState, NoRun
  <2>3. QED BY <2>1, <2>2, BreakKeeps, ExitKeeps DEF Sound
<1>22. CASE KeepPR \/ GatePasses \/ Comment \/ Finish
  <2>1. PICK l \in {"prFound", "finish", "comment", "commented", "finished"} : Goto(l)
    BY <1>22 DEF KeepPR, GatePasses, Comment, Finish
  <2>2. pc # "idle"
    BY <1>22 DEF KeepPR, GatePasses, Comment, Finish
  <2>3. Live(mem) => At(l, mem, ctx)
    BY DEF Live, At
  <2>4. QED BY <2>1, <2>2, <2>3, GotoKeeps DEF Labels
<1>23. CASE WriteOutcome
  <2>1. Live(mem) /\ Save(mem, "gate") /\ At("gate", mem, ctx)
    BY <1>23, RunLive DEF WriteOutcome, Live, At
  <2>2. QED BY <2>1, SaveKeeps DEF Save, Labels, ProcessInv
<1>24. CASE Complete
  <2> DEFINE r == [mem EXCEPT !.st = "Completed", !.step = "completed"]
  <2>1. Live(r)
    BY <1>24, RunLive DEF Complete, Live, Run, TaskState, Steps, NoRun
  <2>2. QED BY <1>24, <2>1, ReturnKeeps DEF Complete
<1>25. QED
  BY <1>1, <1>2, <1>3, <1>4, <1>5, <1>6, <1>7, <1>8, <1>9, <1>10, <1>11, <1>12, <1>13,
     <1>14, <1>15, <1>16, <1>17, <1>18, <1>19, <1>20, <1>21, <1>22, <1>23, <1>24
  DEF PublishingStep
--------------------------------------------------------------------------------
\* A command of the operator starts a process on the run as it is on disk.
LEMMA CommandKeeps == ASSUME ProcessInv, Command \/ StartProvide PROVE Keeps
<1>1. ASSUME NEW noPr \in Modes, Start(noPr) PROVE Keeps
  <2> DEFINE c == [IdleCtx EXCEPT !.entry = "run", !.noPr = noPr]
  <2>1. noPr \in BOOLEAN
    BY ConfigAssumption
  <2>2. c \in Ctx /\ c.copy = Absent
    BY <2>1, Fresh DEF Ctx
  <2>3. At("created", NewRun, c) /\ NewRun # Absent
    BY Fresh DEF Live, At
  <2>4. QED BY <1>1, <2>2, <2>3, Fresh DEF Keeps, Start, ProcessInv, Sound, Labels
<1>2. ASSUME NEW noPr \in Modes, StartResume(noPr) PROVE Keeps
  <2> DEFINE c == [IdleCtx EXCEPT !.entry = "resume", !.noPr = noPr]
  <2>1. noPr \in BOOLEAN
    BY ConfigAssumption
  <2>2. c \in Ctx /\ c.copy = Absent
    BY <2>1, Fresh DEF Ctx
  <2>3. Live(disk) /\ disk # Absent /\ Go("loaded", disk, c)
    BY <1>2 DEF StartResume, ProcessInv, Sound
  <2>4. At("loaded", disk, c)
    BY <2>3 DEF Live, At
  <2>5. QED BY <2>2, <2>3, <2>4, GoKeeps DEF Sound, Labels
<1>3. CASE StartProvide
  <2> DEFINE c == [IdleCtx EXCEPT !.entry = "provide"]
  <2>1. c \in Ctx /\ c.copy = Absent
    BY Fresh DEF Ctx
  <2>2. disk # Absent /\ Go("provided", disk, c)
    BY <1>3, Fresh DEF StartProvide, Waiting, NoRun
  <2>3. Live(disk) /\ At("provided", disk, c)
    BY <2>2 DEF ProcessInv, Sound, Live, At
  <2>4. QED BY <2>1, <2>2, <2>3, GoKeeps DEF Sound, Labels
<1>4. QED BY <1>1, <1>2, <1>3 DEF Command

\* A signal changes the file and a local variable; a kill only ends the process.
LEMMA StopKeeps == ASSUME ProcessInv, Signal \/ Crash PROVE Keeps
<1>1. CASE Crash
  <2>1. Exit("crashed") /\ disk' = disk
    BY <1>1 DEF Crash
  <2>2. QED BY <2>1, ExitKeeps DEF ProcessInv
<1>2. CASE Signal
  <2> DEFINE s == IF disk.st \in Terminal \cup {"OutcomePublishing"} THEN disk.st
                  ELSE "ReadyForExecution"
             c == [ctx EXCEPT !.shutdown = TRUE]
  <2>1. /\ Live(disk) /\ Live(mem) /\ pc # "idle" /\ ctx \in Ctx /\ Sound(ctx.copy)
        /\ pc \in Labels /\ At(pc, mem, ctx)
    BY <1>2, RunLive DEF Signal, ProcessInv
  <2>2. s \in TaskState
    BY DEF TaskState, Terminal
  <2>3. Live(Interrupted(disk))
    BY <2>1, <2>2 DEF Interrupted, Live, Run, TaskState, NoRun
  <2>4. Live(disk') /\ mem' = mem /\ pc' = pc /\ ctx' = c
    BY <1>2, <2>1, <2>3 DEF Signal
  <2>5. /\ c \in Ctx /\ c.copy = ctx.copy /\ c.planned = ctx.planned /\ c.todo = ctx.todo
        /\ c.done = ctx.done /\ c.found = ctx.found
    BY <2>1 DEF Ctx
  <2>6. At(pc, mem, c)
    BY <2>1, <2>5 DEF At
  <2>7. disk' # Absent
    BY <2>4, Fresh DEF Live
  <2>8. QED BY <2>1, <2>4, <2>5, <2>6, <2>7 DEF Keeps, ProcessInv, Sound
<1>3. QED BY <1>1, <1>2

\* What gg cancel or gg retry writes is the copy it loaded, cancelled, asked to stop,
\* or with one attempt more where it saw one left.
LEMMA OperatorKeeps ==
  ASSUME ProcessInv, OperatorInv, Operator
  PROVE  Keeps /\ OperatorInv'
<1>1. CASE CancelLoad \/ RetryLoad
  <2>1. disk # Absent /\ UNCHANGED <<disk, mem, pc, ctx>>
    BY <1>1 DEF CancelLoad, RetryLoad, Load
  <2>2. Live(disk) /\ disk \in Run
    BY <2>1 DEF ProcessInv, Sound, Live
  <2>3. op' = [kind |-> "cancel", copy |-> disk] \/
        (op' = [kind |-> "retry", copy |-> disk] /\ disk.attempt < MaxAttempts)
    BY <1>1 DEF CancelLoad, RetryLoad, Load, CanRetry
  <2>4. OperatorInv'
    BY <2>2, <2>3 DEF OperatorInv
  <2>5. QED BY <2>1, <2>4 DEF Keeps, ProcessInv
<1>2. CASE CancelWrite \/ RetryWrite
  <2> DEFINE r == op.copy
             a == [r EXCEPT !.cancel = TRUE, !.asks = FALSE]
             b == [r EXCEPT !.st = "Cancelled", !.asks = FALSE]
             c == [r EXCEPT !.running = 0, !.attempt = @ + 1, !.st = "ReadyForExecution"]
  <2>1. UNCHANGED <<mem, pc, ctx>> /\ op' = NoOp
    BY <1>2 DEF CancelWrite, RetryWrite
  <2>2. Live(r)
    BY <1>2 DEF OperatorInv, CancelWrite, RetryWrite, None
  <2>3. Live(a) /\ Live(b)
    BY <2>2 DEF Live, Run, TaskState, NoRun
  <2>4. ASSUME RetryWrite PROVE Live(c)
    <3>1. r.attempt < MaxAttempts
      BY <2>4 DEF RetryWrite, OperatorInv
    <3>2. r.attempt + 1 \in 1..MaxAttempts /\ r.attempt + 1 \in Nat
      BY <2>2, <3>1, ConfigAssumption DEF Live, Run
    <3>3. QED BY <2>2, <3>2 DEF Live, Run, TaskState, NoRun
  <2>5. CancelWrite => disk' \in {disk, a, b}
    BY DEF CancelWrite
  <2>6. RetryWrite => disk' \in {disk, c}
    BY DEF RetryWrite
  <2>7. Keeps
    BY <1>2, <2>1, <2>3, <2>4, <2>5, <2>6, Fresh DEF Keeps, ProcessInv, Sound, Live
  <2>8. OperatorInv'
    BY <2>1, Fresh DEF OperatorInv, NoOp, None
  <2>9. QED BY <2>7, <2>8
<1>3. QED BY <1>1, <1>2 DEF Operator

\* Only the operator's commands touch the copies they work on.
LEMMA OperatorAlone ==
  ASSUME Command \/ StartProvide \/ ProcessStep \/ Crash \/ Signal
  PROVE  op' = op
<1>1. IntakeStep => op' = op
  BY DEF IntakeStep, SelectIssue, RefuseDirty, Claim, StartAnalysis, Analyze, BriefReady,
     BriefBlocked, ContextTooLarge, MissingBrief, WaitLonger, TakeComment, NoComment,
     AskAgain, Reconsider, ResumePublishing, Republish, PlanRecovery, Recover, Provide,
     IntakeTrouble, Trouble, Quiet
<1>2. ExecutionStep => op' = op
  BY DEF ExecutionStep, SelectBlocked, SelectAgent, DiskShort, RunCandidates, RuntimeLimit,
     AgentGone, LaunchRound, CandidateLimit, CheckPlan, CheckCancel, PlanCandidate,
     StartBatch, UpdateLoad, UpdateWrite, BatchDone, MergeCancel, RecordResult, CheckRound,
     Evaluate, NoProgress, AskInput, NextAttempt, GiveUp, Winner, ExecutionTrouble,
     Trouble, Quiet
<1>3. PublishingStep => op' = op
  BY DEF PublishingStep, BeginPublish, Publishing, Local, Reuse, Preflight, PublishRefused,
     NoPatch, ReuseWorktree, CreateWorktree, RecordIntegration, Apply, Conflict, Verify,
     VerifyFails, Commit, NothingToCommit, Committed, Abandon, Repair, RepairExhausted,
     CheckPush, Push, RecordPush, CheckPR, OpenPR, CancelledWithPR, KeepPR, RecordPR,
     CheckReview, WriteOutcome, GateFails, GatePasses, Comment, CommentFails, RecordComment,
     CheckFinish, Finish, DoneFails, MarkDone, Complete, PublishingTrouble, CheckCancel,
     Trouble, Quiet
<1>4. Command \/ StartProvide \/ Crash \/ Signal => op' = op
  BY DEF Command, Start, StartResume, StartProvide, Crash, Signal, Quiet
<1>5. QED BY <1>1, <1>2, <1>3, <1>4 DEF ProcessStep
--------------------------------------------------------------------------------
\* How a step can end, whatever it does.
LEMMA EndsElsewhere ==
  /\ Raise \/ Fail \/ Break \/ Throttle => pc' = "idle"
  /\ \A errors, throttles : Trouble(errors, throttles) => pc' = "idle"
  /\ \A r : SaveReturn(r) => pc' = "idle"
  /\ \A l, m, c : SaveCtx(m, l, c) => pc' = "idle" \/ (pc' = l /\ mem' = m /\ ctx' = c)
  /\ \A l, m : CheckCancel(l, m) =>
       /\ world' = world
       /\ pc' = "idle" \/ (pc' = l /\ mem' = m /\ ctx' = ctx)
BY DEF Raise, Fail, Break, Throttle, Trouble, SaveReturn, SaveCtx, CheckCancel, ActOnCancel,
       Return, Exit, Go, Quiet

\* The steps that leave the outside world alone.
Inward == \/ SelectIssue \/ RefuseDirty \/ StartAnalysis \/ Analyze \/ BriefReady
          \/ BriefBlocked \/ ContextTooLarge \/ MissingBrief \/ WaitLonger \/ TakeComment
          \/ NoComment \/ AskAgain \/ Reconsider \/ ResumePublishing \/ Republish
          \/ PlanRecovery \/ Recover \/ Provide \/ IntakeTrouble
          \/ ExecutionStep
          \/ BeginPublish \/ Publishing \/ Local \/ Reuse \/ Preflight \/ PublishRefused
          \/ NoPatch \/ RecordIntegration \/ Conflict \/ VerifyFails \/ NothingToCommit
          \/ Committed \/ Repair \/ RepairExhausted \/ CheckPush \/ RecordPush \/ CheckPR
          \/ CancelledWithPR \/ KeepPR \/ RecordPR \/ CheckReview \/ WriteOutcome
          \/ GateFails \/ GatePasses \/ CommentFails \/ RecordComment \/ CheckFinish
          \/ DoneFails \/ MarkDone \/ Complete \/ PublishingTrouble
          \/ Command \/ StartProvide \/ Operator \/ Crash \/ Signal

\* The steps that make an effect outside.
Outward == \/ Claim \/ ReuseWorktree \/ CreateWorktree \/ Apply \/ Verify \/ Commit
           \/ Abandon \/ Push \/ OpenPR \/ Comment \/ Finish

\* Every step is of one kind or the other.
LEMMA InwardOrOutward == Next => Inward \/ Outward
BY DEF Next, ProcessStep, IntakeStep, PublishingStep, Inward, Outward

\* What it says: these steps change no field of the world.
LEMMA InwardKeepsWorld == Inward => world' = world
<1>1. ExecutionStep => world' = world
  BY DEF ExecutionStep, SelectBlocked, SelectAgent, DiskShort, RunCandidates, RuntimeLimit,
     AgentGone, LaunchRound, CandidateLimit, CheckPlan, CheckCancel, PlanCandidate,
     StartBatch, UpdateLoad, UpdateWrite, BatchDone, MergeCancel, RecordResult, CheckRound,
     Evaluate, NoProgress, AskInput, NextAttempt, GiveUp, Winner, ExecutionTrouble,
     Trouble, Quiet
<1>2. Command \/ StartProvide \/ Operator \/ Crash \/ Signal => world' = world
  BY DEF Command, Start, StartResume, StartProvide, Operator, CancelLoad, RetryLoad, Load,
     CancelWrite, RetryWrite, Crash, Signal, Quiet
<1>3. QED
  BY <1>1, <1>2
  DEF Inward, SelectIssue, RefuseDirty, StartAnalysis, Analyze, BriefReady, BriefBlocked,
      ContextTooLarge, MissingBrief, WaitLonger, TakeComment, NoComment, AskAgain,
      Reconsider, ResumePublishing, Republish, PlanRecovery, Recover, Provide,
      IntakeTrouble, BeginPublish, Publishing, Local, Reuse, Preflight, PublishRefused,
      NoPatch, RecordIntegration, Conflict, VerifyFails, NothingToCommit, Committed, Repair,
      RepairExhausted, CheckPush, RecordPush, CheckPR, CancelledWithPR, KeepPR, RecordPR,
      CheckReview, WriteOutcome, GateFails, GatePasses, CommentFails, RecordComment,
      CheckFinish, DoneFails, MarkDone, Complete, PublishingTrouble, CheckCancel, Trouble,
      Quiet

\* What Put adds to the domain of a function.
LEMMA PutDomain == ASSUME NEW f, NEW b, NEW v PROVE DOMAIN Put(f, b, v) = DOMAIN f \cup {b}
BY DEF Put

\* An effect keeps the form of the world; only late moves with it.
LEMMA EffectForm ==
  ASSUME NEW w, DOMAIN w = WorldFields, w = [f \in WorldFields |-> w[f]], w.late \in Nat,
         Effect(w)
  PROVE  /\ DOMAIN world' = WorldFields
         /\ world' = [f \in WorldFields |-> world'[f]]
         /\ world'.late \in Nat
         /\ \A f \in WorldFields \ {"late"} : world'[f] = w[f]
BY DEF Effect, WorldFields

\* The form of the world, whatever is done to it.
WorldForm == /\ DOMAIN world = WorldFields
             /\ world = [f \in WorldFields |-> world[f]]
             /\ world.late \in Nat

\* The fields of the world stay as they are, all but those of F.
Stay(F) == \A f \in WorldFields \ (F \cup {"late"}) : world'[f] = world[f]

\* An effect makes its edit; what it does not name stays.
LEMMA EffectEdit ==
  ASSUME WorldForm, NEW w, NEW F \in SUBSET WorldFields, Effect(w),
         DOMAIN w = WorldFields, w = [f \in WorldFields |-> w[f]], "late" \notin F,
         \A f \in WorldFields \ F : w[f] = world[f]
  PROVE  /\ WorldForm' /\ Stay(F)
         /\ \A f \in WorldFields \ {"late"} : world'[f] = w[f]
<1>1. w.late \in Nat
  BY DEF WorldForm, WorldFields
<1>2. QED BY <1>1, EffectForm DEF WorldFields, WorldForm, Stay

\* What each outward step does to the world, field by field.
LEMMA OutwardFields ==
  ASSUME WorldForm
  PROVE  /\ Claim => WorldForm' /\ Stay({})
         /\ Comment => WorldForm' /\ Stay({"commented"}) /\ world'.commented = TRUE
         /\ ReuseWorktree => /\ WorldForm' /\ Stay({"content", "checked"})
                             /\ world'.content = 0
         /\ CreateWorktree =>
              \/ world' = world
              \/ /\ WorldForm' /\ Stay({"wt", "content", "checked", "tips"})
                 /\ world'.wt = mem.winner /\ world'.content = 0
                 /\ mem.winner \notin DOMAIN world.tips
                 /\ world'.tips = Put(world.tips, mem.winner, 0)
         /\ Apply => WorldForm' /\ Stay({"content"}) /\ world'.content = mem.winner
         /\ Verify => WorldForm' /\ Stay({"checked"}) /\ world'.checked = TRUE
         /\ Commit => /\ WorldForm' /\ Stay({"tips", "content", "good"})
                      /\ world'.content = 0
                      /\ world'.tips = Put(world.tips, world.wt, world.content)
                      /\ world.checked => world'.good = world.good \cup {world.wt}
         /\ Abandon \/ Finish => /\ WorldForm' /\ Stay({"wt"})
                                 /\ world'.wt \in {0, world.wt}
         /\ Push => \/ world' = world
                    \/ /\ WorldForm' /\ Stay({"pushed"}) /\ world.wt = mem.integ
                       /\ world'.pushed = Put(world.pushed, mem.integ,
                                              world.tips[mem.integ])
         /\ OpenPR => \/ world' = world
                      \/ /\ WorldForm' /\ Stay({"prs"})
                         /\ world'.prs = Append(world.prs, mem.integ)
<1>1. /\ Claim => WorldForm' /\ Stay({})
      /\ Comment => WorldForm' /\ Stay({"commented"}) /\ world'.commented = TRUE
  <2> DEFINE w == [world EXCEPT !.commented = TRUE]
  <2>1. (Claim => Effect(world)) /\ (Comment => Effect(w))
    BY DEF Claim, Comment
  <2>2. /\ DOMAIN w = WorldFields /\ w = [f \in WorldFields |-> w[f]]
        /\ w.commented = TRUE /\ \A f \in WorldFields \ {"commented"} : w[f] = world[f]
    BY DEF WorldForm, WorldFields
  <2> HIDE DEF w
  <2>3. Comment => WorldForm' /\ Stay({"commented"}) /\ world'.commented = TRUE
    BY <2>1, <2>2, EffectEdit DEF WorldFields
  <2>4. Claim => WorldForm' /\ Stay({})
    BY <2>1, EffectEdit, {} \in SUBSET WorldFields DEF WorldForm
  <2>5. QED BY <2>3, <2>4
<1>2. ASSUME ReuseWorktree
      PROVE  WorldForm' /\ Stay({"content", "checked"}) /\ world'.content = 0
  <2> DEFINE w == [world EXCEPT !.content = 0, !.checked = FALSE]
  <2>1. Effect(w)
    BY <1>2 DEF ReuseWorktree
  <2>2. /\ DOMAIN w = WorldFields /\ w = [f \in WorldFields |-> w[f]] /\ w.content = 0
        /\ \A f \in WorldFields \ {"content", "checked"} : w[f] = world[f]
    BY DEF WorldForm, WorldFields
  <2> HIDE DEF w
  <2>3. QED BY <2>1, <2>2, EffectEdit DEF WorldFields
<1>3. ASSUME CreateWorktree
      PROVE  \/ world' = world
             \/ /\ WorldForm' /\ Stay({"wt", "content", "checked", "tips"})
                /\ world'.wt = mem.winner /\ world'.content = 0
                /\ mem.winner \notin DOMAIN world.tips
                /\ world'.tips = Put(world.tips, mem.winner, 0)
  <2> DEFINE w == [world EXCEPT !.wt = mem.winner, !.content = 0, !.checked = FALSE,
                                !.tips = Put(@, mem.winner, 0)]
  <2>1. world' = world \/ (Effect(w) /\ mem.winner \notin DOMAIN world.tips)
    BY <1>3 DEF CreateWorktree
  <2>2. /\ DOMAIN w = WorldFields /\ w = [f \in WorldFields |-> w[f]] /\ w.content = 0
        /\ w.wt = mem.winner /\ w.tips = Put(world.tips, mem.winner, 0)
        /\ \A f \in WorldFields \ {"wt", "content", "checked", "tips"} : w[f] = world[f]
    BY DEF WorldForm, WorldFields
  <2> HIDE DEF w
  <2>3. QED BY <2>1, <2>2, EffectEdit DEF WorldFields
<1>4. ASSUME Apply PROVE WorldForm' /\ Stay({"content"}) /\ world'.content = mem.winner
  <2> DEFINE w == [world EXCEPT !.content = mem.winner]
  <2>1. Effect(w)
    BY <1>4 DEF Apply
  <2>2. /\ DOMAIN w = WorldFields /\ w = [f \in WorldFields |-> w[f]]
        /\ w.content = mem.winner /\ \A f \in WorldFields \ {"content"} : w[f] = world[f]
    BY DEF WorldForm, WorldFields
  <2> HIDE DEF w
  <2>3. QED BY <2>1, <2>2, EffectEdit DEF WorldFields
<1>5. ASSUME Verify PROVE WorldForm' /\ Stay({"checked"}) /\ world'.checked = TRUE
  <2> DEFINE w == [world EXCEPT !.checked = TRUE]
  <2>1. Effect(w)
    BY <1>5 DEF Verify
  <2>2. /\ DOMAIN w = WorldFields /\ w = [f \in WorldFields |-> w[f]]
        /\ w.checked = TRUE /\ \A f \in WorldFields \ {"checked"} : w[f] = world[f]
    BY DEF WorldForm, WorldFields
  <2> HIDE DEF w
  <2>3. QED BY <2>1, <2>2, EffectEdit DEF WorldFields
<1>6. ASSUME Commit
      PROVE  /\ WorldForm' /\ Stay({"tips", "content", "good"})
             /\ world'.content = 0
             /\ world'.tips = Put(world.tips, world.wt, world.content)
             /\ world.checked => world'.good = world.good \cup {world.wt}
  <2> DEFINE g == IF world.checked THEN world.good \cup {world.wt}
                  ELSE world.good \ {world.wt}
             w == [world EXCEPT !.tips = Put(@, world.wt, world.content), !.content = 0,
                                !.good = g]
  <2>1. Effect(w)
    BY <1>6 DEF Commit
  <2> HIDE DEF g
  <2>2. /\ DOMAIN w = WorldFields /\ w = [f \in WorldFields |-> w[f]] /\ w.content = 0
        /\ w.tips = Put(world.tips, world.wt, world.content) /\ w.good = g
        /\ \A f \in WorldFields \ {"tips", "content", "good"} : w[f] = world[f]
    BY DEF WorldForm, WorldFields
  <2> HIDE DEF w
  <2>3. world.checked => g = world.good \cup {world.wt}
    BY DEF g
  <2>4. QED BY <2>1, <2>2, <2>3, EffectEdit DEF WorldFields
<1>7. ASSUME Abandon \/ Finish
      PROVE  WorldForm' /\ Stay({"wt"}) /\ world'.wt \in {0, world.wt}
  <2> DEFINE n == IF mem.integ = world.wt THEN 0 ELSE world.wt
             w == [world EXCEPT !.wt = n]
  <2>1. Effect(w)
    BY <1>7 DEF Abandon, Finish
  <2>2. n \in {0, world.wt}
    OBVIOUS
  <2> HIDE DEF n
  <2>3. /\ DOMAIN w = WorldFields /\ w = [f \in WorldFields |-> w[f]]
        /\ w.wt = n /\ \A f \in WorldFields \ {"wt"} : w[f] = world[f]
    BY DEF WorldForm, WorldFields
  <2> HIDE DEF w
  <2>4. QED BY <2>1, <2>2, <2>3, EffectEdit DEF WorldFields
<1>8. ASSUME Push
      PROVE  \/ world' = world
             \/ /\ WorldForm' /\ Stay({"pushed"}) /\ world.wt = mem.integ
                /\ world'.pushed = Put(world.pushed, mem.integ, world.tips[mem.integ])
  <2> DEFINE w == [world EXCEPT !.pushed = Put(@, mem.integ, world.tips[mem.integ])]
  <2>1. world' = world \/ (Effect(w) /\ world.wt = mem.integ)
    BY <1>8 DEF Push
  <2>2. /\ DOMAIN w = WorldFields /\ w = [f \in WorldFields |-> w[f]]
        /\ w.pushed = Put(world.pushed, mem.integ, world.tips[mem.integ])
        /\ \A f \in WorldFields \ {"pushed"} : w[f] = world[f]
    BY DEF WorldForm, WorldFields
  <2> HIDE DEF w
  <2>3. QED BY <2>1, <2>2, EffectEdit DEF WorldFields
<1>9. ASSUME OpenPR
      PROVE  \/ world' = world
             \/ /\ WorldForm' /\ Stay({"prs"})
                /\ world'.prs = Append(world.prs, mem.integ)
  <2> DEFINE s == Append(world.prs, mem.integ)
             w == [world EXCEPT !.prs = s]
  <2>1. world' = world \/ Effect(w)
    BY <1>9 DEF OpenPR
  <2> HIDE DEF s
  <2>2. /\ DOMAIN w = WorldFields /\ w = [f \in WorldFields |-> w[f]]
        /\ w.prs = s /\ \A f \in WorldFields \ {"prs"} : w[f] = world[f]
    BY DEF WorldForm, WorldFields
  <2> HIDE DEF w
  <2>3. world' = world \/ (WorldForm' /\ Stay({"prs"}) /\ world'.prs = s)
    BY <2>1, <2>2, EffectEdit DEF WorldFields
  <2>4. QED BY <2>3 DEF s
<1>10. QED BY <1>1, <1>2, <1>3, <1>4, <1>5, <1>6, <1>7, <1>8, <1>9

\* The worktree is that of a known branch, and only known branches are pushed.
LEMMA WorldKeeps ==
  ASSUME ProcessInv, WorldInv, Inward \/ Outward
  PROVE  WorldInv'
<1>1. WorldForm
  BY DEF WorldForm, WorldInv
<1>2. CASE world' = world
  BY <1>2 DEF WorldInv
<1>3. CASE Inward
  BY <1>2, <1>3, InwardKeepsWorld
<1>4. CASE Claim \/ Comment \/ ReuseWorktree \/ Verify \/ OpenPR
  <2>1. \/ world' = world
        \/ /\ WorldForm' /\ world'.wt = world.wt /\ world'.tips = world.tips
           /\ world'.pushed = world.pushed /\ world'.content \in {0, world.content}
    BY <1>1, <1>4, OutwardFields DEF Stay, WorldFields
  <2>2. QED BY <1>2, <2>1 DEF WorldInv, WorldForm
<1>5. CASE CreateWorktree
  <2>1. mem.winner \in Nat
    BY <1>5, RunLive DEF CreateWorktree, Live, Run
  <2>2. \/ world' = world
        \/ /\ WorldForm' /\ world'.wt = mem.winner /\ world'.content = 0
           /\ world'.tips = Put(world.tips, mem.winner, 0)
           /\ world'.pushed = world.pushed
    BY <1>1, <1>5, OutwardFields DEF Stay, WorldFields
  <2>3. DOMAIN Put(world.tips, mem.winner, 0) = DOMAIN world.tips \cup {mem.winner}
    BY PutDomain, Zenon
  <2>4. QED BY <1>2, <2>1, <2>2, <2>3 DEF WorldInv, WorldForm
<1>6. CASE Apply
  <2>1. mem.winner \in Nat
    BY <1>6, RunLive DEF Apply, Live, Run
  <2>2. /\ WorldForm' /\ world'.wt = world.wt /\ world'.tips = world.tips
        /\ world'.pushed = world.pushed /\ world'.content = mem.winner
    BY <1>1, <1>6, OutwardFields DEF Stay, WorldFields
  <2>3. QED BY <2>1, <2>2 DEF WorldInv, WorldForm
<1>7. CASE Commit
  <2>1. /\ WorldForm' /\ world'.wt = world.wt /\ world'.content = 0
        /\ world'.tips = Put(world.tips, world.wt, world.content)
        /\ world'.pushed = world.pushed
    BY <1>1, <1>7, OutwardFields DEF Stay, WorldFields
  <2>2. DOMAIN Put(world.tips, world.wt, world.content) = DOMAIN world.tips \cup {world.wt}
    BY PutDomain, Zenon
  <2>3. QED BY <2>1, <2>2 DEF WorldInv, WorldForm
<1>8. CASE Abandon \/ Finish
  <2>1. /\ WorldForm' /\ world'.wt \in {0, world.wt} /\ world'.tips = world.tips
        /\ world'.pushed = world.pushed /\ world'.content = world.content
    BY <1>1, <1>8, OutwardFields DEF Stay, WorldFields
  <2>2. QED BY <2>1 DEF WorldInv, WorldForm
<1>9. CASE Push
  <2>1. mem.integ # 0
    BY <1>9 DEF Push, ProcessInv, At
  <2>2. \/ world' = world
        \/ /\ WorldForm' /\ world'.wt = world.wt /\ world'.tips = world.tips
           /\ world'.content = world.content /\ world.wt = mem.integ
           /\ world'.pushed = Put(world.pushed, mem.integ, world.tips[mem.integ])
    BY <1>1, <1>9, OutwardFields DEF Stay, WorldFields
  <2>3. CASE world' # world
    <3>1. DOMAIN Put(world.pushed, mem.integ, world.tips[mem.integ])
          = DOMAIN world.pushed \cup {mem.integ}
      BY PutDomain, Zenon
    <3>2. QED BY <2>1, <2>2, <2>3, <3>1 DEF WorldInv, WorldForm
  <2>4. QED BY <1>2, <2>3
<1>10. QED BY <1>3, <1>4, <1>5, <1>6, <1>7, <1>8, <1>9 DEF Outward

\* Every step of the system keeps the run and what its process holds of it.
LEMMA StepKeeps == ASSUME ProcessInv, OperatorInv, Next PROVE Keeps
BY IntakeKeeps, ExecutionKeeps, PublishingKeeps, CommandKeeps, StopKeeps, OperatorKeeps
DEF Next, ProcessStep

\* One step of the system keeps the types and the budget.
LEMMA TypeStep == ASSUME TypeInv, [Next]_vars PROVE TypeInv'
<1>1. CASE UNCHANGED vars
  BY <1>1 DEF vars, TypeInv, ProcessInv, OperatorInv, WorldInv
<1>2. CASE Next
  <2>1. WorldInv'
    BY <1>2, InwardOrOutward, WorldKeeps DEF TypeInv
  <2>2. ProcessInv'
    BY <1>2, StepKeeps DEF TypeInv, Keeps
  <2>3. OperatorInv'
    <3>1. CASE Operator
      BY <3>1, OperatorKeeps DEF TypeInv
    <3>2. CASE op' = op
      BY <3>2 DEF OperatorInv, TypeInv
    <3>3. QED BY <1>2, <3>1, <3>2, OperatorAlone DEF Next
  <2>4. QED BY <2>1, <2>2, <2>3 DEF TypeInv
<1>3. QED BY <1>1, <1>2

\* The invariant holds before the run is created.
LEMMA TypeInit == Init => TypeInv
<1> SUFFICES ASSUME Init PROVE TypeInv
  OBVIOUS
<1>1. "idle" \in Labels /\ At("idle", Absent, IdleCtx)
  BY DEF Labels, At
<1>2. ProcessInv
  BY <1>1, Fresh DEF Init, ProcessInv, Sound
<1>3. OperatorInv
  BY Fresh DEF Init, OperatorInv, NoOp, None
<1>4. WorldInv
  BY DEF Init, WorldInv, WorldFields
<1>5. QED BY <1>2, <1>3, <1>4 DEF TypeInv

\* So it holds in every state of every behaviour.
LEMMA TypeInvariant == Spec => []TypeInv
BY TypeInit, TypeStep, PTL DEF Spec

\* Every field of the run, of its process and of the world keeps its type; no count
\* of running candidates falls below zero, whoever wrote the run in between.
THEOREM TypeCorrect == Spec => []TypeOK
<1>1. TypeInv => TypeOK
  <2> SUFFICES ASSUME TypeInv PROVE TypeOK
    OBVIOUS
  <2>1. disk \in Run /\ mem \in Run /\ ctx.copy \in Run /\ op.copy \in Run
    BY Fresh DEF TypeInv, ProcessInv, OperatorInv, Sound, Live
  <2>2. /\ pc \in Labels /\ ctx.entry \in {None, "run", "resume", "provide"}
        /\ {ctx.todo, ctx.planned, ctx.done, ctx.updates} \subseteq Nat
    BY DEF TypeInv, ProcessInv, Ctx
  <2>3. QED BY <2>1, <2>2 DEF TypeInv, WorldInv, TypeOK
<1>2. QED BY <1>1, TypeInvariant, PTL

\* Candidate attempts never exceed the budget: neither the loop, nor the repair of a
\* publication, nor gg retry working on an old copy takes one that is not there.
THEOREM BudgetKept == Spec => []AttemptBudget
<1>1. TypeInv => AttemptBudget
  BY Fresh, ConfigAssumption
  DEF TypeInv, ProcessInv, Sound, Live, AttemptBudget
<1>2. QED BY <1>1, TypeInvariant, PTL

(***************************************************************************)
(* One late effect: LateInv.                                               *)
(***************************************************************************)

\* A write leaves a run that is over over, and one of a run that is not ends the
\* process.
LEMMA OverStays ==
  ASSUME disk.st \in Terminal
  PROVE  /\ \A l, m, c : Go(l, m, c) => disk' = disk
         /\ \A l, m, c : SaveCtx(m, l, c) => /\ disk'.st \in Terminal
                                             /\ m.st \notin Terminal => pc' = "idle"
         /\ \A r : SaveReturn(r) => disk'.st \in Terminal
         /\ Raise \/ Return \/ Break \/ Fail \/ Throttle => disk'.st \in Terminal
         /\ \A errors, throttles : Trouble(errors, throttles) => disk'.st \in Terminal
         /\ ActOnCancel => disk'.st \in Terminal
         /\ \A l, m : CheckCancel(l, m) => disk'.st \in Terminal
<1>1. \A l, m, c : Go(l, m, c) => disk' = disk
  BY DEF Go
<1>2. Raise \/ Return => disk' = disk
  BY DEF Raise, Return
<1>3. \A l, m, c : SaveCtx(m, l, c) => /\ disk'.st \in Terminal
                                       /\ m.st \notin Terminal => pc' = "idle"
  BY <1>2 DEF SaveCtx, Refuses, Raise, Exit
<1>4. \A r : SaveReturn(r) => disk'.st \in Terminal
  BY <1>2 DEF SaveReturn, Refuses
<1>5. Break \/ Fail \/ Throttle => disk'.st \in Terminal
  BY <1>2, <1>4 DEF Break, Fail, Throttle
<1>6. ActOnCancel => disk'.st \in Terminal
  <2>1. ~CanTransition(disk.st, "Cancelled")
    BY DEF CanTransition, Allowed, Terminal, TaskState
  <2>2. QED BY <1>2, <1>5, <2>1 DEF ActOnCancel
<1>7. \A errors, throttles : Trouble(errors, throttles) => disk'.st \in Terminal
  BY <1>5 DEF Trouble
<1>8. \A l, m : CheckCancel(l, m) => disk'.st \in Terminal
  BY <1>1, <1>6 DEF CheckCancel
<1>9. QED BY <1>1, <1>2, <1>3, <1>4, <1>5, <1>6, <1>7, <1>8

\* The ways an action of the process can end.
Forms == \/ \E l, m, c : Go(l, m, c) \/ SaveCtx(m, l, c)
         \/ \E r : SaveReturn(r)
         \/ Break \/ Fail \/ Throttle
         \/ \E l, m : CheckCancel(l, m)

\* Every action but two ends in one of them.
LEMMA ProcessForms == ProcessStep => Forms \/ UpdateWrite \/ CancelledWithPR
<1>1. \A errors, throttles : Trouble(errors, throttles) => Forms
  BY DEF Trouble, Forms
<1>2. \A l, m : Save(m, l) => Forms
  BY DEF Save, Forms
<1>3. \A l : Goto(l) => Forms
  BY DEF Goto, Forms
<1>4. /\ \A l, m, c : Go(l, m, c) \/ SaveCtx(m, l, c) => Forms
      /\ \A r : SaveReturn(r) => Forms
      /\ Break \/ Fail \/ Throttle => Forms
      /\ \A l, m : CheckCancel(l, m) => Forms
  BY DEF Forms
<1> HIDE DEF Forms
<1>5. IntakeStep => Forms
  BY <1>1, <1>2, <1>3, <1>4
  DEF IntakeStep, SelectIssue, RefuseDirty, Claim, StartAnalysis, Analyze, BriefReady,
      BriefBlocked, ContextTooLarge, MissingBrief, WaitLonger, TakeComment, NoComment,
      AskAgain, Reconsider, ResumePublishing, Republish, PlanRecovery, Recover, Provide,
      IntakeTrouble
<1>6. ExecutionStep => Forms \/ UpdateWrite
  BY <1>1, <1>2, <1>3, <1>4
  DEF ExecutionStep, SelectBlocked, SelectAgent, DiskShort, RunCandidates, RuntimeLimit,
      AgentGone, LaunchRound, CandidateLimit, CheckPlan, PlanCandidate, StartBatch,
      UpdateLoad, BatchDone, MergeCancel, RecordResult, CheckRound, Evaluate, NoProgress,
      AskInput, NextAttempt, GiveUp, Winner, ExecutionTrouble
<1>7. PublishingStep => Forms \/ CancelledWithPR
  BY <1>1, <1>2, <1>3, <1>4
  DEF PublishingStep, BeginPublish, Publishing, Local, Reuse, Preflight, PublishRefused,
      NoPatch, ReuseWorktree, CreateWorktree, RecordIntegration, Apply, Conflict, Verify,
      VerifyFails, Commit, NothingToCommit, Committed, Abandon, Repair, RepairExhausted,
      CheckPush, Push, RecordPush, CheckPR, OpenPR, KeepPR, RecordPR, CheckReview,
      WriteOutcome, GateFails, GatePasses, Comment, CommentFails, RecordComment,
      CheckFinish, Finish, DoneFails, MarkDone, Complete, PublishingTrouble
<1>8. QED BY <1>5, <1>6, <1>7 DEF ProcessStep

\* A run that is over stays over, whoever writes what copy of it.
LEMMA OverForGood ==
  ASSUME TypeInv, disk.st \in Terminal, Next
  PROVE  disk'.st \in Terminal
<1>1. CASE Forms
  BY <1>1, OverStays, Zenon DEF Forms
<1>2. CASE UpdateWrite
  <2>1. Break \/ disk' = disk \/ (~Refuses(ctx.copy) /\ disk' = ctx.copy)
    BY <1>2 DEF UpdateWrite, Go
  <2>2. QED BY <2>1, OverStays DEF Refuses
<1>3. CASE CancelledWithPR
  <2>1. Break \/ disk' = [disk EXCEPT !.pr = mem.pr, !.st = "Cancelled"]
    BY <1>3 DEF CancelledWithPR
  <2>2. Live(disk)
    BY <1>3, RunLive DEF CancelledWithPR, TypeInv
  <2>3. QED BY <2>1, <2>2, OverStays DEF Live, Run, Terminal
<1>4. CASE Command \/ StartProvide \/ Crash
  <2>1. disk # Absent
    BY Fresh DEF Terminal, NoRun
  <2>2. disk' = disk
    BY <1>4, <2>1 DEF Command, Start, StartResume, StartProvide, Go, Crash
  <2>3. QED BY <2>2
<1>5. CASE Signal
  <2>1. disk' \in {disk, Interrupted(disk)} /\ Live(disk)
    BY <1>5, RunLive DEF Signal, TypeInv
  <2>2. Interrupted(disk).st = disk.st
    BY <2>1 DEF Interrupted, Live, Run
  <2>3. QED BY <2>1, <2>2
<1>6. CASE Operator
  BY <1>6 DEF Operator, CancelLoad, RetryLoad, Load, CancelWrite, RetryWrite, Refuses
<1>7. QED BY <1>1, <1>2, <1>3, <1>4, <1>5, <1>6, ProcessForms DEF Next

\* What a process works on after a step of intake is not over, where it has judged it.
LEMMA IntakeJudges ==
  ASSUME TypeInv, LateInv, IntakeStep
  PROVE  pc' \notin Unjudged => mem'.st \notin Terminal
<1>1. pc # "idle" => Live(mem)
  BY RunLive DEF TypeInv
<1>2. CASE SelectIssue \/ Claim \/ StartAnalysis \/ BriefReady
  BY <1>1, <1>2
  DEF SelectIssue, Claim, StartAnalysis, BriefReady, Save, SaveCtx, Goto, Go, Raise, Exit,
      LateInv, Unjudged, Terminal, Live, Run
<1>3. CASE TakeComment
  <2>1. pc' \in Unjudged
    BY <1>3, EndsElsewhere DEF TakeComment, Save, Unjudged
  <2>2. QED BY <2>1
<1>4. CASE ResumePublishing \/ Republish \/ PlanRecovery \/ Recover
  BY <1>1, <1>4
  DEF ResumePublishing, Republish, PlanRecovery, Recover, Save, SaveCtx, Goto, Go, Fail,
      Break, SaveReturn, Raise, Exit, LateInv, Unjudged, Terminal, Live, Run
<1>5. CASE RefuseDirty \/ Analyze \/ BriefBlocked \/ ContextTooLarge \/ MissingBrief
           \/ WaitLonger \/ NoComment \/ AskAgain \/ Reconsider \/ Provide \/ IntakeTrouble
  <2>1. pc' \in Unjudged
    BY <1>5, EndsElsewhere
    DEF RefuseDirty, Analyze, BriefBlocked, ContextTooLarge, MissingBrief, WaitLonger,
        NoComment, AskAgain, Reconsider, Provide, IntakeTrouble, Save, Goto, Go, Unjudged
  <2>2. QED BY <2>1
<1>6. QED BY <1>2, <1>3, <1>4, <1>5 DEF IntakeStep

\* The rounds keep it so.
LEMMA ExecutionJudges ==
  ASSUME TypeInv, LateInv, ExecutionStep
  PROVE  pc' \notin Unjudged => mem'.st \notin Terminal
<1>1. /\ pc # "idle" => Live(mem)
      /\ pc \notin Unjudged => mem.st \notin Terminal
  BY RunLive DEF TypeInv, LateInv
<1>2. CASE pc' = "idle"
  BY <1>2 DEF Unjudged
<1>3. CASE SelectBlocked \/ DiskShort \/ RuntimeLimit \/ AgentGone \/ CandidateLimit
           \/ NoProgress \/ AskInput \/ GiveUp \/ ExecutionTrouble
  BY <1>2, <1>3, EndsElsewhere
  DEF SelectBlocked, DiskShort, RuntimeLimit, AgentGone, CandidateLimit, NoProgress,
      AskInput, GiveUp, ExecutionTrouble
<1>4. CASE SelectAgent \/ RunCandidates \/ Evaluate \/ NextAttempt
  <2>1. Live(mem) /\ Live([mem EXCEPT !.attempt = 1])
    BY <1>1, <1>4, ConfigAssumption
    DEF SelectAgent, RunCandidates, Evaluate, NextAttempt, Live, Run
  <2>2. PICK m \in {[mem EXCEPT !.st = "AgentSelection"], [mem EXCEPT !.st = "AgentRunning"],
                    Evaluated, [mem EXCEPT !.attempt = @ + 1, !.st = "AgentRunning"]},
             l \in Labels : SaveCtx(m, l, ctx)
    BY <1>4 DEF SelectAgent, RunCandidates, Evaluate, NextAttempt, Save, Labels
  <2>3. m.st \notin Terminal
    BY <2>1 DEF Evaluated, Live, Run, Terminal
  <2>4. QED BY <1>2, <2>2, <2>3, EndsElsewhere
<1>5. CASE LaunchRound \/ StartBatch \/ UpdateLoad \/ UpdateWrite \/ BatchDone \/ Winner
  <2>1. pc' = "idle" \/ mem' = mem
    <3>1. \/ \E l, c : SaveCtx(mem, l, c) \/ Go(l, mem, c)
          \/ Break \/ mem' = mem
      BY <1>5, Zenon
      DEF LaunchRound, StartBatch, UpdateLoad, UpdateWrite, BatchDone, Winner, Goto
    <3>2. QED BY <3>1, EndsElsewhere DEF Go
  <2>2. pc \notin Unjudged
    BY <1>5
    DEF LaunchRound, StartBatch, UpdateLoad, UpdateWrite, BatchDone, Winner, Unjudged
  <2>3. QED BY <1>1, <1>2, <2>1, <2>2
<1>6. CASE CheckPlan \/ CheckRound
  BY <1>1, <1>2, <1>6, EndsElsewhere DEF CheckPlan, CheckRound, Unjudged
<1>7. CASE PlanCandidate \/ MergeCancel \/ RecordResult
  <2>1. Live(mem) /\ pc \notin Unjudged
    BY <1>1, <1>7 DEF PlanCandidate, MergeCancel, RecordResult, Unjudged
  <2>2. PICK l, m, c : m.st = mem.st /\ (Go(l, m, c) \/ SaveCtx(m, l, c))
    <3>1. CASE PlanCandidate
      <4> DEFINE n == IF ctx.planned = 0 THEN mem.round + 1 ELSE mem.round
                 m == [mem EXCEPT !.running = @ + 1, !.planned = ctx.planned + 1, !.round = n]
      <4>1. SaveCtx(m, "plan", [ctx EXCEPT !.todo = @ - 1, !.planned = @ + 1])
        BY <3>1 DEF PlanCandidate
      <4> HIDE DEF n
      <4>2. m.st = mem.st
        BY <2>1 DEF Live, Run
      <4>3. QED BY <4>1, <4>2
    <3>2. CASE MergeCancel
      BY <2>1, <3>2 DEF MergeCancel, Live, Run
    <3>3. CASE RecordResult
      <4> DEFINE m == [mem EXCEPT !.running = @ - 1]
      <4>1. SaveCtx(m, "merge", [ctx EXCEPT !.done = @ - 1])
        BY <3>3 DEF RecordResult
      <4>2. m.st = mem.st
        BY <2>1 DEF Live, Run
      <4>3. QED BY <4>1, <4>2
    <3>4. QED BY <1>7, <3>1, <3>2, <3>3
  <2>3. pc' = "idle" \/ mem'.st = mem.st
    BY <2>2, EndsElsewhere DEF Go
  <2>4. QED BY <1>1, <1>2, <2>1, <2>3
<1>8. QED BY <1>3, <1>4, <1>5, <1>6, <1>7 DEF ExecutionStep

\* The steps of the publication that leave the state as it is in memory, and those
\* that write another.
LEMMA PublishingJudges ==
  ASSUME TypeInv, LateInv, PublishingStep
  PROVE  pc' \notin Unjudged => mem'.st \notin Terminal
<1>1. /\ pc # "idle" => Live(mem)
      /\ pc \notin Unjudged => mem.st \notin Terminal
  BY RunLive DEF TypeInv, LateInv
<1>2. CASE pc' = "idle"
  BY <1>2 DEF Unjudged
<1>3. CASE PublishRefused \/ RepairExhausted \/ GateFails \/ CommentFails \/ DoneFails
           \/ PublishingTrouble \/ CancelledWithPR \/ Complete
  BY <1>2, <1>3, EndsElsewhere
  DEF PublishRefused, RepairExhausted, GateFails, CommentFails, DoneFails,
      PublishingTrouble, CancelledWithPR, Complete, Exit
<1>4. CASE BeginPublish
  <2>1. [mem EXCEPT !.st = "OutcomePublishing"].st \notin Terminal
    BY <1>1, <1>4 DEF BeginPublish, Live, Run, Terminal
  <2>2. QED BY <1>2, <1>4, <2>1, EndsElsewhere DEF BeginPublish
<1>5. CASE Repair
  <2> DEFINE m == [mem EXCEPT !.attempt = @ + 1, !.step = "None",
                              !.st = "ReadyForExecution"]
  <2>1. m.st \notin Terminal
    BY <1>1, <1>5 DEF Repair, Live, Run, Terminal
  <2>2. QED BY <1>2, <1>5, <2>1, EndsElsewhere DEF Repair, Save
<1>6. CASE Publishing \/ Local \/ RecordIntegration \/ ReuseWorktree \/ Apply \/ Verify
           \/ Committed \/ RecordPush \/ RecordPR \/ RecordComment \/ MarkDone \/ OpenPR
  <2>1. Live(mem) /\ pc \notin Unjudged
    BY <1>1, <1>6
    DEF Publishing, Local, RecordIntegration, ReuseWorktree, Apply, Verify, Committed,
        RecordPush, RecordPR, RecordComment, MarkDone, OpenPR, Unjudged
  <2>2. PICK l, m, c : m.st = mem.st /\ (Go(l, m, c) \/ SaveCtx(m, l, c))
    <3>1. CASE Publishing
      <4> DEFINE s == IF mem.step = "None" THEN "started" ELSE mem.step
                 m == [mem EXCEPT !.step = s]
      <4>1. \E l : SaveCtx(m, l, ctx)
        BY <3>1 DEF Publishing, Save
      <4> HIDE DEF s
      <4>2. m.st = mem.st
        BY <2>1 DEF Live, Run
      <4>3. QED BY <4>1, <4>2
    <3>2. CASE OpenPR
      <4>1. \E b : Go("prOpened", [mem EXCEPT !.pr = b], ctx)
        BY <3>2 DEF OpenPR
      <4>2. QED BY <2>1, <4>1 DEF Live, Run
    <3>3. CASE RecordIntegration
      BY <2>1, <3>3 DEF RecordIntegration, Save, Live, Run
    <3>4. CASE Local
      BY <2>1, <3>4 DEF Local, Live, Run
    <3>5. CASE ReuseWorktree \/ Apply \/ Verify \/ Committed \/ RecordPush \/ RecordPR
               \/ RecordComment \/ MarkDone
      <4>1. \E s \in Steps, l \in Labels : SaveCtx([mem EXCEPT !.step = s], l, ctx)
        BY <3>5
        DEF ReuseWorktree, Apply, Verify, Committed, RecordPush, RecordPR, RecordComment,
            MarkDone, Save, Steps, Labels
      <4>2. QED BY <2>1, <4>1 DEF Live, Run
    <3>6. QED BY <1>6, <3>1, <3>2, <3>3, <3>4, <3>5
  <2>3. pc' = "idle" \/ mem'.st = mem.st
    BY <2>2, EndsElsewhere DEF Go
  <2>4. QED BY <1>1, <1>2, <2>1, <2>3
<1>7. CASE Reuse \/ Preflight \/ NoPatch \/ CreateWorktree \/ Conflict \/ VerifyFails
           \/ Commit \/ NothingToCommit \/ Abandon \/ CheckPush \/ Push \/ CheckPR
           \/ KeepPR \/ CheckReview \/ WriteOutcome \/ GatePasses \/ Comment
           \/ CheckFinish \/ Finish
  <2>1. pc \notin Unjudged
    BY <1>7
    DEF Reuse, Preflight, NoPatch, CreateWorktree, Conflict, VerifyFails, Commit,
        NothingToCommit, Abandon, CheckPush, Push, CheckPR, KeepPR, CheckReview,
        WriteOutcome, GatePasses, Comment, CheckFinish, Finish, Unjudged
  <2>2. pc' = "idle" \/ mem' = mem
    BY <1>7, EndsElsewhere
    DEF Reuse, Preflight, NoPatch, CreateWorktree, Conflict, VerifyFails, Commit,
        NothingToCommit, Abandon, CheckPush, Push, CheckPR, KeepPR, CheckReview,
        WriteOutcome, GatePasses, Comment, CheckFinish, Finish, Save, Goto, Go
  <2>3. QED BY <1>1, <1>2, <2>1, <2>2
<1>8. QED BY <1>3, <1>4, <1>5, <1>6, <1>7 DEF PublishingStep

\* So wherever a process has judged the run it works on, the run is not over in it.
LEMMA NextJudges ==
  ASSUME TypeInv, LateInv, Next
  PROVE  pc' \notin Unjudged => mem'.st \notin Terminal
<1>1. CASE ProcessStep
  BY <1>1, IntakeJudges, ExecutionJudges, PublishingJudges DEF ProcessStep
<1>2. CASE Command \/ StartProvide
  <2>1. \/ mem' = NewRun
        \/ mem' = disk /\ (disk.st \notin Terminal \/ disk.st \in Waiting)
    BY <1>2 DEF Command, Start, StartResume, StartProvide, Go
  <2>2. NewRun.st = InitialState
    BY DEF NewRun
  <2>3. QED BY <2>1, <2>2 DEF Waiting, Terminal, InitialState
<1>3. CASE Operator \/ Signal \/ Crash
  BY <1>3
  DEF Operator, CancelLoad, RetryLoad, Load, CancelWrite, RetryWrite, Signal, Crash, Exit,
      LateInv, Unjudged
<1>4. QED BY <1>1, <1>2, <1>3 DEF Next
--------------------------------------------------------------------------------
\* An effect is counted when the run is over.
LEMMA EffectCounts ==
  ASSUME TypeInv, Outward
  PROVE  \/ world' = world
         \/ world'.late = IF disk.st \in Terminal THEN world.late + 1 ELSE world.late
<1> DEFINE late == IF disk.st \in Terminal THEN world.late + 1 ELSE world.late
<1>1. world = [f \in WorldFields |-> world[f]] /\ DOMAIN world = WorldFields
  BY DEF TypeInv, WorldInv
<1>2. ASSUME NEW w, DOMAIN w = WorldFields, w = [f \in WorldFields |-> w[f]],
             w.late = world.late, Effect(w)
      PROVE  world'.late = late
  BY <1>2 DEF Effect, WorldFields
<1>3. CASE Claim \/ Comment
  <2>1. PICK w : Effect(w) /\ w \in {world, [world EXCEPT !.commented = TRUE]}
    BY <1>3 DEF Claim, Comment
  <2>2. QED BY <1>1, <1>2, <2>1 DEF WorldFields
<1>4. CASE ReuseWorktree \/ Apply \/ Verify
  <2>1. PICK w : /\ Effect(w)
                 /\ w \in {[world EXCEPT !.content = 0, !.checked = FALSE],
                          [world EXCEPT !.content = mem.winner],
                          [world EXCEPT !.checked = TRUE]}
    BY <1>4 DEF ReuseWorktree, Apply, Verify
  <2>2. QED BY <1>1, <1>2, <2>1 DEF WorldFields
<1>5. CASE CreateWorktree
  <2> DEFINE t == Put(world.tips, mem.winner, 0)
             w == [world EXCEPT !.wt = mem.winner, !.content = 0, !.checked = FALSE,
                                !.tips = t]
  <2>1. world' = world \/ Effect(w)
    BY <1>5 DEF CreateWorktree
  <2> HIDE DEF t
  <2>2. DOMAIN w = WorldFields /\ w = [f \in WorldFields |-> w[f]] /\ w.late = world.late
    BY <1>1 DEF WorldFields
  <2> HIDE DEF w
  <2>3. QED BY <1>2, <2>1, <2>2
<1>6. CASE Commit
  <2> DEFINE t == Put(world.tips, world.wt, world.content)
             g == IF world.checked THEN world.good \cup {world.wt}
                  ELSE world.good \ {world.wt}
             w == [world EXCEPT !.tips = t, !.content = 0, !.good = g]
  <2>1. Effect(w)
    BY <1>6 DEF Commit
  <2> HIDE DEF t, g
  <2>2. DOMAIN w = WorldFields /\ w = [f \in WorldFields |-> w[f]] /\ w.late = world.late
    BY <1>1 DEF WorldFields
  <2> HIDE DEF w
  <2>3. QED BY <1>2, <2>1, <2>2
<1>7. CASE Abandon \/ Finish
  <2> DEFINE n == IF mem.integ = world.wt THEN 0 ELSE world.wt
             w == [world EXCEPT !.wt = n]
  <2>1. Effect(w)
    BY <1>7 DEF Abandon, Finish
  <2> HIDE DEF n
  <2>2. DOMAIN w = WorldFields /\ w = [f \in WorldFields |-> w[f]] /\ w.late = world.late
    BY <1>1 DEF WorldFields
  <2> HIDE DEF w
  <2>3. QED BY <1>2, <2>1, <2>2
<1>8. CASE Push \/ OpenPR
  <2> DEFINE t == Put(world.pushed, mem.integ, world.tips[mem.integ])
             q == Append(world.prs, mem.integ)
             v == [world EXCEPT !.pushed = t]
             w == [world EXCEPT !.prs = q]
  <2>1. world' = world \/ Effect(v) \/ Effect(w)
    BY <1>8 DEF Push, OpenPR
  <2> HIDE DEF t, q
  <2>2. DOMAIN w = WorldFields /\ w = [f \in WorldFields |-> w[f]] /\ w.late = world.late
    BY <1>1 DEF WorldFields
  <2>3. DOMAIN v = WorldFields /\ v = [f \in WorldFields |-> v[f]] /\ v.late = world.late
    BY <1>1 DEF WorldFields
  <2> HIDE DEF v, w
  <2>4. QED BY <1>2, <2>1, <2>2, <2>3
<1>9. QED BY <1>3, <1>4, <1>5, <1>6, <1>7, <1>8 DEF Outward

\* After an effect made too late the process has to look or to write next.
LEMMA LateOutward ==
  ASSUME TypeInv, LateInv, Outward, disk.st \in Terminal
  PROVE  (pc \notin AfterEffect \/ world' = world) /\ pc' \in AfterEffect
<1>1. /\ pc # "idle" => Live(mem)
      /\ pc \notin Unjudged => mem.st \notin Terminal
  BY RunLive DEF TypeInv, LateInv
<1>2. pc \notin AfterEffect
  BY DEF Outward, Claim, ReuseWorktree, CreateWorktree, Apply, Verify, Commit, Abandon, Push,
         OpenPR, Comment, Finish, AfterEffect
<1>3. CASE ReuseWorktree \/ Apply \/ Verify
  <2>1. Live(mem) /\ mem.st \notin Terminal
    BY <1>1, <1>3 DEF ReuseWorktree, Apply, Verify, Unjudged
  <2>2. PICK s \in Steps, l \in Labels : SaveCtx([mem EXCEPT !.step = s], l, ctx)
    BY <1>3 DEF ReuseWorktree, Apply, Verify, Save, Steps, Labels
  <2>3. [mem EXCEPT !.step = s].st = mem.st
    BY <2>1 DEF Live, Run
  <2>4. pc' = "idle"
    BY <2>1, <2>2, <2>3, OverStays
  <2>5. QED BY <1>2, <2>4 DEF AfterEffect
<1>4. CASE Claim \/ CreateWorktree \/ Commit \/ Abandon \/ Push \/ OpenPR \/ Comment \/ Finish
  <2>1. pc' \in AfterEffect
    BY <1>4, EndsElsewhere
    DEF Claim, CreateWorktree, Commit, Abandon, Push, OpenPR, Comment, Finish, Goto, Go,
        AfterEffect
  <2>2. QED BY <1>2, <2>1
<1>5. QED BY <1>3, <1>4 DEF Outward

\* From there nothing leads on to another effect while the run is over.
LEMMA LateInward ==
  ASSUME TypeInv, LateInv, Inward, disk.st \in Terminal, pc \in AfterEffect
  PROVE  pc' \in AfterEffect
<1>1. /\ pc # "idle" => Live(mem)
      /\ pc \notin Unjudged => mem.st \notin Terminal
  BY RunLive DEF TypeInv, LateInv
<1>2. CASE pc' = "idle"
  BY <1>2 DEF AfterEffect
<1>3. CASE StartAnalysis \/ RecordIntegration \/ Committed \/ Repair \/ RecordPush
           \/ RecordPR \/ RecordComment \/ MarkDone
  <2>1. Live(mem) /\ mem.st \notin Terminal
    BY <1>1, <1>3
    DEF StartAnalysis, RecordIntegration, Committed, Repair, RecordPush, RecordPR,
        RecordComment, MarkDone, Unjudged
  <2>2. PICK m, l : SaveCtx(m, l, ctx) /\ m.st \notin Terminal
    <3>1. CASE StartAnalysis
      <4> DEFINE m == [mem EXCEPT !.st = "TaskAnalysis"]
      <4>1. m.st \notin Terminal
        BY <2>1 DEF Live, Run, Terminal
      <4>2. QED BY <3>1, <4>1 DEF StartAnalysis, Save
    <3>2. CASE RecordIntegration
      <4> DEFINE m == [mem EXCEPT !.step = "integration_created", !.integ = mem.winner]
      <4>1. m.st = mem.st
        BY <2>1 DEF Live, Run
      <4>2. QED BY <2>1, <3>2, <4>1 DEF RecordIntegration, Save
    <3>3. CASE Repair
      <4> DEFINE m == [mem EXCEPT !.attempt = @ + 1, !.step = "None",
                                  !.st = "ReadyForExecution"]
      <4>1. m.st \notin Terminal
        BY <2>1 DEF Live, Run, Terminal
      <4>2. QED BY <3>3, <4>1 DEF Repair, Save
    <3>4. CASE Committed \/ RecordPush \/ RecordPR \/ RecordComment \/ MarkDone
      <4>1. PICK s \in Steps, l \in Labels : SaveCtx([mem EXCEPT !.step = s], l, ctx)
        BY <3>4
        DEF Committed, RecordPush, RecordPR, RecordComment, MarkDone, Save, Steps, Labels
      <4>2. [mem EXCEPT !.step = s].st = mem.st
        BY <2>1 DEF Live, Run
      <4>3. QED BY <2>1, <4>1, <4>2
    <3>5. QED BY <1>3, <3>1, <3>2, <3>3, <3>4
  <2>3. QED BY <1>2, <2>2, OverStays
<1>4. CASE IntakeTrouble \/ CancelledWithPR \/ DoneFails \/ ExecutionTrouble
           \/ PublishingTrouble \/ Crash
  BY <1>2, <1>4, EndsElsewhere
  DEF IntakeTrouble, CancelledWithPR, DoneFails, ExecutionTrouble, PublishingTrouble, Crash,
      Exit
<1>5. CASE KeepPR
  BY <1>5 DEF KeepPR, Goto, Go, AfterEffect
<1>6. CASE Operator \/ Signal
  BY <1>6 DEF Operator, CancelLoad, RetryLoad, Load, CancelWrite, RetryWrite, Signal
<1>7. ~Command /\ ~StartProvide
  BY Fresh DEF Command, Start, StartResume, StartProvide, Waiting, Terminal, NoRun
<1>8. ExecutionStep => ExecutionTrouble
  BY DEF ExecutionStep, SelectBlocked, SelectAgent, DiskShort, RunCandidates, RuntimeLimit,
         AgentGone, LaunchRound, CandidateLimit, CheckPlan, PlanCandidate, StartBatch,
         UpdateLoad, UpdateWrite, BatchDone, MergeCancel, RecordResult, CheckRound,
         Evaluate, NoProgress, AskInput, NextAttempt, GiveUp, Winner, AfterEffect
<1>9. QED
  BY <1>3, <1>4, <1>5, <1>6, <1>7, <1>8
  DEF Inward, SelectIssue, RefuseDirty, Analyze, BriefReady, BriefBlocked, ContextTooLarge,
      MissingBrief, WaitLonger, TakeComment, NoComment, AskAgain, Reconsider,
      ResumePublishing, Republish, PlanRecovery, Recover, Provide, BeginPublish, Publishing,
      Local, Reuse, Preflight, PublishRefused, NoPatch, Conflict, VerifyFails,
      NothingToCommit, RepairExhausted, CheckPush, CheckPR, CheckReview, WriteOutcome,
      GateFails, GatePasses, CommentFails, CheckFinish, Complete, AfterEffect

\* The invariant is inductive, together with that of the types.
LEMMA LateStep == ASSUME TypeInv, LateInv, [Next]_vars PROVE LateInv'
<1>1. CASE UNCHANGED vars
  BY <1>1 DEF vars, LateInv
<1>2. CASE Next
  <2>1. world.late \in Nat
    BY DEF TypeInv, WorldInv
  <2>2. disk.st \in Terminal => disk'.st \in Terminal
    BY <1>2, OverForGood
  <2>3. \/ world'.late = 0
        \/ world'.late = 1 /\ disk'.st \in Terminal /\ pc' \in AfterEffect
    <3>1. CASE Inward
      BY <2>2, <3>1, InwardKeepsWorld, LateInward DEF LateInv
    <3>2. CASE Outward
      BY <2>1, <2>2, <3>2, EffectCounts, LateOutward DEF LateInv
    <3>3. QED BY <1>2, <3>1, <3>2, InwardOrOutward
  <2>4. QED BY <1>2, <2>3, NextJudges DEF LateInv
<1>3. QED BY <1>1, <1>2

\* Before the run is created nothing is late.
LEMMA LateInit == Init => LateInv
BY DEF Init, LateInv, Unjudged

\* After state.json says the run is over, whoever ended it, a process makes at most one
\* more effect outside: it looks at the latest state, or its write is refused, before
\* the next one.
THEOREM OneLateEffect == Spec => []AtMostOneLateEffect
<1>1. LateInv => AtMostOneLateEffect
  BY DEF LateInv, AtMostOneLateEffect
<1>2. QED BY <1>1, TypeInvariant, LateInit, LateStep, PTL DEF Spec

(***************************************************************************)
(* Nobody runs when a run is judged, until a signal: RestInv.              *)
(***************************************************************************)

\* A worker adds a candidate, as running, to a copy of the run that lacks it.
Adding == /\ pc = "batch"
          /\ Go("update", mem, [ctx EXCEPT !.copy = Added(disk), !.updates = @ + 1])
          /\ Spend("strays") /\ op' = op

\* What a step that adds none leaves of the counts, whatever the operator holds.
Settles == /\ ~ctx'.shutdown
           /\ Rests(disk') /\ Rests(mem') /\ Rests(ctx'.copy)
           /\ Counted(pc', mem', ctx')

\* Where no candidate is recorded as running.
Still == Labels \ (Counting \cup Taken \cup {"idle", "loop"})

\* Counts hold wherever none is running and the process has not just loaded the run.
LEMMA StillCounted ==
  ASSUME NEW l \in Still, NEW m, m.running <= used.strays, NEW c PROVE Counted(l, m, c) /\ Rests(m)
BY DEF Still, Counting, Taken, Counted, Rests

\* The process that has none running has none.
LEMMA NoneRunning == /\ NewRun.running = 0 /\ Absent.running = 0
                     /\ Absent.st = NoRun /\ Rests(Absent)
BY DEF NewRun, Absent, NoRun, Rests

\* A process that ends keeps the counts if what it leaves does.
LEMMA ExitSettles ==
  ASSUME Unsignalled, NEW how, Exit(how), Rests(disk') PROVE Settles
BY NoneRunning DEF Unsignalled, Exit, Settles, IdleCtx, Counted, Counting, Taken

\* An exception that leaves the command writes nothing.
LEMMA RaiseSettles == ASSUME Unsignalled, Raise PROVE Settles
BY ExitSettles DEF Raise, Unsignalled

\* What the process has of the worker and the signal handler.
Held(c) == c.copy = ctx.copy /\ c.shutdown = ctx.shutdown /\ c.entry = ctx.entry

\* Going on with what is counted.
LEMMA GoSettles ==
  ASSUME Unsignalled, NEW l, NEW m, NEW c, Go(l, m, c), Held(c), Rests(m), Counted(l, m, c)
  PROVE  Settles
BY DEF Go, Settles, Unsignalled, Held

\* So it is when it writes on the way,
LEMMA SaveSettles ==
  ASSUME Unsignalled, NEW l, NEW m, NEW c, SaveCtx(m, l, c), Held(c), Rests(m),
         Counted(l, m, c)
  PROVE  Settles
BY RaiseSettles DEF SaveCtx, Settles, Unsignalled, Held

\* and when it writes and returns.
LEMMA ReturnSettles ==
  ASSUME Unsignalled, NEW m, SaveReturn(m), Rests(m) PROVE Settles
BY RaiseSettles, ExitSettles DEF SaveReturn

\* A run that failed or is blocked is not judged.
LEMMA BreakSettles ==
  ASSUME Unsignalled, ProcessInv, pc # "idle", Break \/ Fail \/ Throttle PROVE Settles
<1>1. Live(mem) /\ mem \in Run
  BY RunLive DEF Live
<1> DEFINE r == [mem EXCEPT !.st = "Blocked", !.resumeTo = mem.st,
                            !.wait = TRUE, !.asks = FALSE]
<1>2. Rests(Failed(mem)) /\ Rests(r)
  BY <1>1 DEF Run, Failed, Rests
<1>3. Raise \/ SaveReturn(Failed(mem)) \/ SaveReturn(r)
  BY DEF Break, Fail, Throttle
<1> HIDE DEF r
<1>4. QED BY <1>2, <1>3, RaiseSettles, ReturnSettles

\* So is what the outside world refuses.
LEMMA TroubleSettles ==
  ASSUME Unsignalled, ProcessInv, NEW errors, NEW throttles,
         "idle" \notin errors \cup throttles, Trouble(errors, throttles)
  PROVE  Settles
BY BreakSettles DEF Trouble

\* A cancellation ends the run.
LEMMA CheckCancelSettles ==
  ASSUME Unsignalled, ProcessInv, pc # "idle", NEW l, NEW m, CheckCancel(l, m), Rests(m),
         Counted(l, m, ctx)
  PROVE  Settles
<1>1. CASE Go(l, m, ctx)
  BY <1>1, GoSettles DEF Held
<1>2. CASE Return
  BY <1>2, ExitSettles DEF Return, Unsignalled
<1>3. CASE Exit("returned") /\ disk' = [disk EXCEPT !.st = "Cancelled"]
  <2>1. Live(disk) /\ Rests(disk')
    BY <1>3, RunLive DEF Live, Run, Rests
  <2>2. QED BY <1>3, <2>1, ExitSettles
<1>4. CASE Break
  BY <1>4, BreakSettles
<1>5. QED BY <1>1, <1>2, <1>3, <1>4 DEF CheckCancel, ActOnCancel

\* Where none is running, a step that starts none leaves none.
LEMMA StillSettles ==
  ASSUME Unsignalled, NEW m, m.running <= used.strays,
         \/ \E l \in Still : Go(l, m, ctx) \/ SaveCtx(m, l, ctx) \/ CheckCancel(l, m)
         \/ SaveReturn(m),
         ProcessInv, pc # "idle"
  PROVE  Settles
<1>1. Rests(m) /\ \A l \in Still : Counted(l, m, ctx)
  BY StillCounted DEF Rests
<1>2. QED
  BY <1>1, GoSettles, SaveSettles, ReturnSettles, CheckCancelSettles DEF Held
--------------------------------------------------------------------------------
\* From the command to execution: a run that is taken over is reset, or is published
\* with none running.
LEMMA IntakeSettles == ASSUME Unsignalled, ProcessInv, IntakeStep PROVE Settles
<1>1. CASE RefuseDirty \/ MissingBrief \/ IntakeTrouble
  BY <1>1, BreakSettles, TroubleSettles DEF RefuseDirty, MissingBrief, IntakeTrouble
<1>2. CASE SelectIssue \/ Claim \/ StartAnalysis
  <2>1. Live(mem) /\ mem.running <= used.strays /\ pc # "idle"
    BY <1>2, RunLive
    DEF SelectIssue, Claim, StartAnalysis, Unsignalled, Counted, Counting, Taken, Analysing
  <2>2. \E m \in {mem, [mem EXCEPT !.st = "Claiming"], [mem EXCEPT !.st = "TaskAnalysis"]} :
          \E l \in Still : Go(l, m, ctx) \/ SaveCtx(m, l, ctx)
    BY <1>2
    DEF SelectIssue, Claim, StartAnalysis, Save, Goto, Still, Labels, Counting, Taken
  <2>3. \E m : m.running <= used.strays /\ \E l \in Still : Go(l, m, ctx) \/ SaveCtx(m, l, ctx)
    BY <2>1, <2>2 DEF Live, Run
  <2>4. QED BY <2>1, <2>3, StillSettles
<1>3. CASE BriefBlocked \/ ContextTooLarge \/ WaitLonger \/ AskAgain
  <2>1. Live(mem) /\ Rests(mem) /\ pc # "idle"
    BY <1>3, RunLive
    DEF BriefBlocked, ContextTooLarge, WaitLonger, AskAgain, Unsignalled
  <2>2. CASE Fail
    BY <2>1, <2>2, BreakSettles
  <2>3. CASE \E m : Rests(m) /\ SaveReturn(m)
    BY <2>3, ReturnSettles
  <2>4. QED
    BY <1>3, <2>1, <2>2, <2>3
    DEF BriefBlocked, ContextTooLarge, WaitLonger, AskAgain, Live, Run, Rests
<1>4. CASE Analyze
  <2>1. Counted("analyzing", mem, ctx) /\ Rests(mem)
    BY <1>4 DEF Analyze, Unsignalled, Counted, Counting, Taken, Analysing
  <2>2. QED BY <1>4, <2>1, SaveSettles DEF Analyze, Save, Held
<1>5. CASE Reconsider
  <2>1. pc \in Taken
    BY <1>5 DEF Reconsider, Taken
  <2>2. /\ Rests(mem) /\ ctx.entry # "run"
        /\ \A l \in {"analyze", "recover"} : Counted(l, mem, ctx)
    BY <2>1 DEF Unsignalled, Counted, Counting, Taken, Analysing
  <2>3. QED BY <1>5, <2>2, GoSettles DEF Reconsider, Goto, Held
<1>6. CASE BriefReady
  <2> DEFINE m == [mem EXCEPT !.brief = TRUE, !.st = "ReadyForExecution"]
             r == [mem EXCEPT !.brief = TRUE]
  <2>1. Live(mem) /\ pc = "analyzing" /\ Rests(mem)
    BY <1>6, RunLive DEF BriefReady, Unsignalled
  <2>2. Rests(m) /\ Rests(r)
    BY <2>1 DEF Live, Run, Rests
  <2>3. CASE ctx.entry = "run"
    <3>1. mem.running <= used.strays /\ m.running <= used.strays
      BY <2>1, <2>3 DEF Unsignalled, Counted, Counting, Taken, Analysing, Live, Run
    <3>2. Counted("select", m, ctx)
      BY <3>1, StillCounted DEF Still, Labels, Counting, Taken
    <3>3. QED BY <1>6, <2>2, <2>3, <3>2, SaveSettles DEF BriefReady, Save, Held
  <2>4. CASE ctx.entry # "run"
    <3>1. Counted("recover", r, ctx)
      BY <2>4 DEF Counted, Counting, Taken
    <3>2. QED BY <1>6, <2>2, <2>4, <3>1, GoSettles DEF BriefReady, Held
  <2>5. QED BY <2>3, <2>4
<1>7. CASE TakeComment \/ NoComment \/ Provide
  <2>1. /\ Live(mem) /\ pc \in {"loaded", "provided"} /\ mem.st \in Waiting
        /\ ctx.entry # "run" /\ Rests(disk) /\ pc # "idle"
    BY <1>7, RunLive DEF TakeComment, NoComment, Provide, Unsignalled, Counted, Taken
  <2>2. ASSUME NEW m PROVE Counted("answered", m, ctx)
    BY <2>1 DEF Counted, Counting, Taken
  <2>3. CASE CanTransition(mem.st, AfterInput)
    <3>1. AfterInput \notin {"ResultEvaluation", "OutcomePublishing", "Completed"}
      BY <2>1, <2>3 DEF CanTransition, Allowed, Waiting, TaskState
    <3>2. Rests(Answered)
      BY <2>1, <3>1 DEF Answered, Live, Run, Rests
    <3>3. \/ Go("answered", disk, ctx) \/ SaveCtx(Answered, "answered", ctx)
          \/ SaveReturn(Answered)
      BY <1>7, <2>3 DEF TakeComment, NoComment, Provide, Save
    <3> HIDE DEF Answered
    <3>4. QED BY <2>1, <2>2, <3>2, <3>3, GoSettles, SaveSettles, ReturnSettles DEF Held
  <2>4. CASE Go("answered", disk, ctx)
    BY <2>1, <2>2, <2>4, GoSettles DEF Held
  <2>5. CASE Break
    BY <2>1, <2>5, BreakSettles
  <2>6. QED BY <1>7, <2>3, <2>4, <2>5 DEF TakeComment, NoComment, Provide
<1>8. CASE ResumePublishing \/ Republish
  <2>1. Live(mem) /\ pc # "idle" /\ mem.running <= used.strays
    BY <1>8, RunLive
    DEF ResumePublishing, Republish, Unsignalled, Rests, Counted, Counting, Taken, Analysing
  <2>2. Fail \/ \E l \in Still : Go(l, mem, ctx) \/ SaveCtx(mem, l, ctx)
    BY <1>8
    DEF ResumePublishing, Republish, Save, Goto, Still, Labels, Counting, Taken
  <2>3. QED BY <2>1, <2>2, BreakSettles, StillSettles
<1>9. CASE PlanRecovery
  <2>1. Rests(mem) /\ Counted("recovering", mem, ctx)
    BY <1>9 DEF PlanRecovery, Unsignalled, Counted, Counting, Taken
  <2>2. QED BY <1>9, <2>1, SaveSettles DEF PlanRecovery, Save, Held
<1>10. CASE Recover
  <2>1. Live(mem) /\ pc # "idle" /\ 0 <= used.strays
    BY <1>10, RunLive DEF Recover, Unsignalled
  <2>2. \E m \in {[mem EXCEPT !.running = 0],
                  [mem EXCEPT !.st = "ReadyForExecution", !.running = 0]} :
          Go("select", m, ctx) \/ SaveCtx(m, "select", ctx)
    BY <1>10 DEF Recover, Save
  <2>3. \E m : /\ m.running <= used.strays
               /\ \E l \in Still : Go(l, m, ctx) \/ SaveCtx(m, l, ctx)
    BY <2>1, <2>2 DEF Live, Run, Still, Labels, Counting, Taken
  <2>4. QED BY <2>1, <2>3, StillSettles
<1>11. QED
  BY <1>1, <1>2, <1>3, <1>4, <1>5, <1>6, <1>7, <1>8, <1>9, <1>10 DEF IntakeStep
--------------------------------------------------------------------------------
\* The rounds of candidates: the process counts the ones it planned, and records each.
LEMMA ExecutionSettles ==
  ASSUME Unsignalled, ProcessInv, ExecutionStep, ~Adding PROVE Settles
<1>1. CASE RuntimeLimit \/ CandidateLimit \/ GiveUp \/ ExecutionTrouble
  BY <1>1, BreakSettles, TroubleSettles
  DEF RuntimeLimit, CandidateLimit, GiveUp, ExecutionTrouble
<1>2. CASE SelectBlocked \/ DiskShort \/ AgentGone
  <2>1. Live(mem) /\ pc # "idle" /\ (SaveReturn(Unavailable(mem)) \/ Break)
    BY <1>2, RunLive DEF SelectBlocked, DiskShort, AgentGone
  <2>2. Rests(Unavailable(mem))
    BY <2>1 DEF Unavailable, Live, Run, Rests
  <2>3. QED BY <2>1, <2>2, ReturnSettles, BreakSettles
<1>3. CASE SelectAgent \/ Evaluate \/ NoProgress \/ AskInput \/ Winner
  <2>1. Live(mem) /\ pc # "idle" /\ mem.running <= used.strays
    BY <1>3, RunLive
    DEF SelectAgent, Evaluate, NoProgress, AskInput, Winner, Unsignalled, Counted, Counting,
        Taken, Analysing
  <2>2. \E m \in {mem, [mem EXCEPT !.st = "AgentSelection"], Evaluated, Failed(Evaluated),
                  [mem EXCEPT !.st = "NeedsInput", !.resumeTo = "AgentRunning",
                              !.wait = FALSE, !.input = FALSE]} :
          \/ \E l \in Still : Go(l, m, ctx) \/ SaveCtx(m, l, ctx)
          \/ SaveReturn(m)
    BY <1>3
    DEF SelectAgent, Evaluate, NoProgress, AskInput, Winner, Save, Goto, Still, Labels,
        Counting, Taken
  <2>3. \E m : /\ m.running <= used.strays
               /\ \/ \E l \in Still : Go(l, m, ctx) \/ SaveCtx(m, l, ctx)
                  \/ SaveReturn(m)
    BY <2>1, <2>2 DEF Live, Run, Evaluated, Failed
  <2>4. QED BY <2>1, <2>3, StillSettles
<1>4. CASE RunCandidates \/ NextAttempt
  <2> DEFINE a == [mem EXCEPT !.st = "AgentRunning"]
             b == [mem EXCEPT !.attempt = @ + 1, !.st = "AgentRunning"]
  <2>1. Live(mem) /\ mem.running <= used.strays
    BY <1>4, RunLive
    DEF RunCandidates, NextAttempt, Unsignalled, Counted, Counting, Taken, Analysing
  <2>2. \A m \in {a, b} : m.running <= used.strays /\ m.st = "AgentRunning"
    BY <2>1 DEF Live, Run
  <2>3. \A m \in {a, b} : Rests(m) /\ Counted("loop", m, ctx)
    BY <2>2 DEF Rests, Counted, Counting, Taken
  <2>4. SaveCtx(a, "loop", ctx) \/ SaveCtx(b, "loop", ctx)
    BY <1>4 DEF RunCandidates, NextAttempt, Save
  <2>5. QED BY <2>3, <2>4, SaveSettles DEF Held
<1>5. CASE LaunchRound
  <2>1. PICK n : SaveCtx(mem, "plan", [ctx EXCEPT !.todo = n, !.planned = 0])
    BY <1>5 DEF LaunchRound
  <2> DEFINE c == [ctx EXCEPT !.todo = n, !.planned = 0]
  <2>2. Held(c) /\ c.planned = 0
    BY DEF ProcessInv, Ctx, Held
  <2>3. mem.running <= used.strays /\ Rests(mem) /\ mem.st = "AgentRunning"
    BY <1>5 DEF LaunchRound, Unsignalled, Counted, Counting, Taken, Analysing
  <2>4. mem.running <= c.planned + used.strays
    BY <2>2, <2>3 DEF Unsignalled
  <2>5. Counted("plan", mem, c)
    BY <2>3, <2>4 DEF Counted, Counting, Taken
  <2>6. QED BY <2>1, <2>2, <2>3, <2>5, SaveSettles
<1>6. CASE CheckPlan
  <2>1. pc # "idle" /\ Rests(mem) /\ Counted("planned", mem, ctx)
    BY <1>6 DEF CheckPlan, Unsignalled, Counted, Counting, Taken
  <2>2. QED BY <1>6, <2>1, CheckCancelSettles DEF CheckPlan
<1>7. CASE PlanCandidate
  <2> DEFINE n == IF ctx.planned = 0 THEN mem.round + 1 ELSE mem.round
             m == [mem EXCEPT !.running = @ + 1, !.planned = ctx.planned + 1, !.round = n]
             c == [ctx EXCEPT !.todo = @ - 1, !.planned = @ + 1]
  <2>1. SaveCtx(m, "plan", c)
    BY <1>7 DEF PlanCandidate
  <2>2. Live(mem) /\ mem.running <= ctx.planned + used.strays /\ mem.st = "AgentRunning"
    BY <1>7, RunLive DEF PlanCandidate, Unsignalled, Counted
  <2> HIDE DEF n
  <2>3. m.running = mem.running + 1 /\ m.st = mem.st /\ mem.running \in Nat
    BY <2>2 DEF Live, Run
  <2>4. Held(c) /\ c.planned = ctx.planned + 1 /\ ctx.planned \in Nat
    BY DEF ProcessInv, Ctx, Held
  <2> HIDE DEF m, c
  <2>5. Counted("plan", m, c)
    BY <2>2, <2>3, <2>4 DEF Unsignalled, Counted, Counting, Taken
  <2>6. Rests(m)
    BY <2>2, <2>3 DEF Rests
  <2>7. QED BY <2>1, <2>4, <2>5, <2>6, SaveSettles
<1>8. CASE (StartBatch \/ UpdateLoad) /\ ~Adding
  <2> DEFINE a == [ctx EXCEPT !.updates = 0]
             b == [ctx EXCEPT !.copy = disk, !.updates = @ + 1]
  <2>1. /\ a.planned = ctx.planned /\ Held(a) /\ a.entry = ctx.entry
        /\ b.planned = ctx.planned /\ b.copy = disk /\ b.shutdown = ctx.shutdown
        /\ b.entry = ctx.entry
    BY DEF ProcessInv, Ctx, Held
  <2>2. mem.running <= ctx.planned + used.strays /\ Rests(mem) /\ Rests(disk) /\ ~ctx.shutdown
    BY <1>8 DEF StartBatch, UpdateLoad, Unsignalled, Counted
  <2>3. Counted("batch", mem, a) /\ Counted("update", mem, b)
    BY <2>1, <2>2 DEF Counted, Counting, Taken
  <2>4. Go("batch", mem, a) \/ Go("update", mem, b)
    BY <1>8 DEF StartBatch, UpdateLoad, Adding
  <2> HIDE DEF a, b
  <2>5. CASE Go("batch", mem, a)
    BY <2>1, <2>2, <2>3, <2>5, GoSettles
  <2>6. CASE Go("update", mem, b)
    BY <2>1, <2>2, <2>3, <2>6 DEF Go, Settles
  <2>7. QED BY <2>4, <2>5, <2>6
<1>9. CASE UpdateWrite
  <2> DEFINE c == [ctx EXCEPT !.copy = Absent]
  <2>1. /\ c.planned = ctx.planned /\ c.copy = Absent /\ c.shutdown = ctx.shutdown
        /\ pc # "idle" /\ pc = "update"
    BY <1>9 DEF ProcessInv, Ctx, UpdateWrite
  <2>2. /\ mem.running <= ctx.planned + used.strays /\ Rests(mem) /\ Rests(disk) /\ Rests(ctx.copy)
        /\ ~ctx.shutdown
    BY <2>1 DEF Unsignalled, Counted
  <2>3. Counted("batch", mem, c)
    BY <2>1, <2>2 DEF Counted, Counting, Taken
  <2>4. CASE Break
    BY <2>1, <2>4, BreakSettles
  <2>5. CASE /\ disk' \in {disk, ctx.copy} /\ mem' = mem /\ pc' = "batch" /\ ctx' = c
    <3> HIDE DEF c
    <3>1. QED BY <2>1, <2>2, <2>3, <2>5, NoneRunning DEF Settles
  <2>6. QED BY <1>9, <2>4, <2>5 DEF UpdateWrite, Go
<1>10. CASE BatchDone
  <2>1. PICK n, f : /\ n \in (IF ctx.shutdown THEN 0..ctx.planned ELSE {ctx.planned})
                    /\ Go("merge", mem, [ctx EXCEPT !.done = n, !.found = f, !.planned = 0])
    BY <1>10 DEF BatchDone
  <2> DEFINE c == [ctx EXCEPT !.done = n, !.found = f, !.planned = 0]
  <2>2. Held(c) /\ c.done = n
    BY DEF ProcessInv, Ctx, Held
  <2>3. mem.running <= ctx.planned + used.strays /\ n = ctx.planned /\ Rests(mem)
    BY <1>10, <2>1 DEF BatchDone, Unsignalled, Counted
  <2>4. Counted("merge", mem, c)
    BY <2>2, <2>3 DEF Counted, Counting, Taken
  <2> HIDE DEF c
  <2>5. QED BY <2>1, <2>2, <2>3, <2>4, GoSettles DEF c
<1>11. CASE MergeCancel
  <2> DEFINE m == [mem EXCEPT !.cancel = @ \/ disk.cancel]
  <2>1. Live(mem) /\ mem.running <= ctx.done + used.strays /\ Rests(mem)
    BY <1>11, RunLive DEF MergeCancel, Unsignalled, Counted
  <2>2. m.running = mem.running /\ m.st = mem.st
    BY <2>1 DEF Live, Run
  <2>3. Rests(m) /\ Counted("record", m, ctx)
    BY <2>1, <2>2 DEF Rests, Counted, Counting, Taken
  <2>4. QED BY <1>11, <2>3, GoSettles DEF MergeCancel, Held
<1>12. CASE RecordResult
  <2> DEFINE m == [mem EXCEPT !.running = @ - 1]
             c == [ctx EXCEPT !.done = @ - 1]
  <2>1. /\ Live(mem) /\ mem.running <= ctx.done + used.strays /\ Rests(mem) /\ ctx.done > 0
        /\ ctx.done \in Nat /\ mem.running \in Nat
    BY <1>12, RunLive DEF RecordResult, Unsignalled, Counted, ProcessInv, At, Ctx,
       Live, Run
  <2>2. m.running = mem.running - 1 /\ m.st = mem.st
    BY <2>1 DEF Live, Run
  <2>3. Held(c) /\ c.done = ctx.done - 1
    BY DEF ProcessInv, Ctx, Held
  <2> HIDE DEF m, c
  <2>4. Rests(m) /\ Counted("merge", m, c)
    BY <2>1, <2>2, <2>3 DEF Unsignalled, Rests, Counted, Counting, Taken
  <2>5. QED BY <1>12, <2>3, <2>4, SaveSettles DEF RecordResult, m, c
<1>13. CASE CheckRound
  <2>1. pc # "idle" /\ mem.running <= used.strays /\ CheckCancel("evaluate", mem)
    BY <1>13 DEF CheckRound, Unsignalled, Counted
  <2>2. "evaluate" \in Still
    BY DEF Still, Labels, Counting, Taken
  <2>3. QED BY <2>1, <2>2, StillSettles
<1>14. QED
  BY <1>1, <1>2, <1>3, <1>4, <1>5, <1>6, <1>7, <1>8, <1>9, <1>10, <1>11, <1>12, <1>13
  DEF ExecutionStep

\* The publication starts with none running, and starts none.
LEMMA PublishingSettles == ASSUME Unsignalled, ProcessInv, PublishingStep PROVE Settles
<1>1. Live(mem) /\ Live(disk) /\ pc # "idle" /\ mem.running <= used.strays
  <2>1. pc \in Still
    BY DEF PublishingStep, BeginPublish, Publishing, Local, Reuse, Preflight, PublishRefused,
        NoPatch, ReuseWorktree, CreateWorktree, RecordIntegration, Apply, Conflict, Verify,
        VerifyFails, Commit, NothingToCommit, Committed, Abandon, Repair, RepairExhausted,
        CheckPush, Push, RecordPush, CheckPR, OpenPR, CancelledWithPR, KeepPR, RecordPR,
        CheckReview, WriteOutcome, GateFails, GatePasses, Comment, CommentFails,
        RecordComment, CheckFinish, Finish, DoneFails, MarkDone, Complete,
        PublishingTrouble, Trouble, Still, Labels, Counting, Taken
  <2>2. pc \notin Analysing
    BY DEF PublishingStep, BeginPublish, Publishing, Local, Reuse, Preflight, PublishRefused,
        NoPatch, ReuseWorktree, CreateWorktree, RecordIntegration, Apply, Conflict, Verify,
        VerifyFails, Commit, NothingToCommit, Committed, Abandon, Repair, RepairExhausted,
        CheckPush, Push, RecordPush, CheckPR, OpenPR, CancelledWithPR, KeepPR, RecordPR,
        CheckReview, WriteOutcome, GateFails, GatePasses, Comment, CommentFails,
        RecordComment, CheckFinish, Finish, DoneFails, MarkDone, Complete,
        PublishingTrouble, Trouble, Analysing
  <2>3. QED BY <2>1, <2>2, RunLive DEF Still, Unsignalled, Counted
<1>2. CASE PublishRefused \/ RepairExhausted \/ GateFails \/ CommentFails \/ DoneFails
           \/ PublishingTrouble
  BY <1>1, <1>2, BreakSettles, TroubleSettles
  DEF PublishRefused, RepairExhausted, GateFails, CommentFails, DoneFails, PublishingTrouble
<1>3. CASE BeginPublish \/ CheckPush \/ CheckPR \/ CheckReview \/ CheckFinish
  <2>1. \E m \in {mem, [mem EXCEPT !.st = "OutcomePublishing"]} :
          \E l \in Still : CheckCancel(l, m)
    BY <1>3
    DEF BeginPublish, CheckPush, CheckPR, CheckReview, CheckFinish, Still, Labels, Counting,
        Taken
  <2>2. \E m : m.running <= used.strays /\ \E l \in Still : CheckCancel(l, m)
    BY <1>1, <2>1 DEF Live, Run
  <2>3. QED BY <1>1, <2>2, StillSettles
<1>4. CASE Preflight \/ NoPatch \/ Conflict \/ VerifyFails \/ Abandon \/ KeepPR
           \/ WriteOutcome \/ GatePasses \/ Comment \/ Finish \/ Commit
           \/ Reuse \/ CreateWorktree \/ NothingToCommit \/ Push
  <2>1. Fail \/ Break \/ \E l \in Still : Go(l, mem, ctx) \/ SaveCtx(mem, l, ctx)
    BY <1>4
    DEF Preflight, NoPatch, Conflict, VerifyFails, Abandon, KeepPR, WriteOutcome,
        GatePasses, Comment, Finish, Commit, Reuse, CreateWorktree, NothingToCommit, Push,
        Save, Goto, Still, Labels, Counting, Taken
  <2>2. QED BY <1>1, <2>1, BreakSettles, StillSettles
<1>5. CASE ReuseWorktree \/ RecordIntegration \/ Apply \/ Verify \/ Repair \/ MarkDone
           \/ Complete \/ Committed \/ RecordPush \/ RecordPR \/ RecordComment
  <2>1. \E m \in {[mem EXCEPT !.step = "integration_created"],
                  [mem EXCEPT !.step = "integration_created", !.integ = mem.winner],
                  [mem EXCEPT !.step = "patch_applied"], [mem EXCEPT !.step = "verified"],
                  [mem EXCEPT !.attempt = @ + 1, !.step = "None",
                              !.st = "ReadyForExecution"],
                  [mem EXCEPT !.step = "done_marked"],
                  [mem EXCEPT !.st = "Completed", !.step = "completed"],
                  [mem EXCEPT !.step = "committed"], [mem EXCEPT !.step = "branch_pushed"],
                  [mem EXCEPT !.step = "pr_created"],
                  [mem EXCEPT !.step = "result_commented"]} :
          \/ \E l \in Still : Go(l, m, ctx) \/ SaveCtx(m, l, ctx)
          \/ SaveReturn(m)
    BY <1>5
    DEF ReuseWorktree, RecordIntegration, Apply, Verify, Repair, MarkDone, Complete,
        Committed, RecordPush, RecordPR, RecordComment, Save, Still, Labels, Counting, Taken
  <2>2. \E m : /\ m.running <= used.strays
               /\ \/ \E l \in Still : Go(l, m, ctx) \/ SaveCtx(m, l, ctx)
                  \/ SaveReturn(m)
    BY <1>1, <2>1 DEF Live, Run
  <2>3. QED BY <1>1, <2>2, StillSettles
<1>6. CASE Publishing \/ Local \/ OpenPR
  <2>1. \E s, u : \E l \in Still :
          \/ SaveCtx([mem EXCEPT !.step = s], l, ctx)
          \/ Go(l, [mem EXCEPT !.pr = u], ctx)
          \/ Go(l, [mem EXCEPT !.pr = u, !.step = s], ctx)
    BY <1>6 DEF Publishing, Local, OpenPR, Save, Still, Labels, Counting, Taken
  <2>2. \E m : m.running <= used.strays /\ \E l \in Still : Go(l, m, ctx) \/ SaveCtx(m, l, ctx)
    BY <1>1, <2>1 DEF Live, Run
  <2>3. QED BY <1>1, <2>2, StillSettles
<1>7. CASE CancelledWithPR
  <2>1. CASE Break
    BY <1>1, <2>1, BreakSettles
  <2>2. CASE Exit("returned") /\ disk' = [disk EXCEPT !.pr = mem.pr, !.st = "Cancelled"]
    <3>1. Rests(disk')
      BY <1>1, <2>2 DEF Live, Run, Rests
    <3>2. QED BY <2>2, <3>1, ExitSettles
  <2>3. QED BY <1>7, <2>1, <2>2 DEF CancelledWithPR
<1>8. QED
  BY <1>2, <1>3, <1>4, <1>5, <1>6, <1>7 DEF PublishingStep
--------------------------------------------------------------------------------
\* What of the environment's bounds a step uses.
LEMMA Spending ==
  ASSUME Next
  PROVE  \/ used' = used
         \/ \E f \in {"resumes", "crashes", "errors", "throttles", "inputs"} : Spend(f)
         \/ Signal /\ Spend("signals")
         \/ Operator /\ \E f \in {"cancels", "retries"} : Spend(f)
         \/ Adding
<1>1. CASE IntakeStep
  BY <1>1
  DEF IntakeStep, SelectIssue, RefuseDirty, Claim, StartAnalysis, Analyze, BriefReady,
      BriefBlocked, ContextTooLarge, MissingBrief, WaitLonger, TakeComment, NoComment,
      AskAgain, Reconsider, ResumePublishing, Republish, PlanRecovery, Recover, Provide,
      IntakeTrouble, Trouble, Quiet
<1>2. CASE ExecutionStep
  BY <1>2
  DEF ExecutionStep, SelectBlocked, SelectAgent, DiskShort, RunCandidates, RuntimeLimit,
      AgentGone, LaunchRound, CandidateLimit, CheckPlan, CheckCancel, PlanCandidate,
      StartBatch, UpdateLoad, UpdateWrite, BatchDone, MergeCancel, RecordResult,
      CheckRound, Evaluate, NoProgress, AskInput, NextAttempt, GiveUp, Winner,
      ExecutionTrouble, Trouble, Quiet, Adding
<1>3. CASE PublishingStep
  BY <1>3
  DEF PublishingStep, BeginPublish, Publishing, Local, Reuse, Preflight, PublishRefused,
      NoPatch, ReuseWorktree, CreateWorktree, RecordIntegration, Apply, Conflict, Verify,
      VerifyFails, Commit, NothingToCommit, Committed, Abandon, Repair, RepairExhausted,
      CheckPush, Push, RecordPush, CheckPR, OpenPR, CancelledWithPR, KeepPR, RecordPR,
      CheckReview, WriteOutcome, GateFails, GatePasses, Comment, CommentFails,
      RecordComment, CheckFinish, Finish, DoneFails, MarkDone, Complete,
      PublishingTrouble, CheckCancel, Trouble, Quiet
<1>4. CASE Command \/ StartProvide \/ Crash \/ Signal
  BY <1>4 DEF Command, Start, StartResume, StartProvide, Crash, Signal, Quiet
<1>5. CASE Operator
  BY <1>5 DEF Operator, CancelLoad, RetryLoad, Load, CancelWrite, RetryWrite
<1>6. QED BY <1>1, <1>2, <1>3, <1>4, <1>5 DEF Next, ProcessStep

\* Starting, stopping and the operator's commands pass on what was counted.
LEMMA OthersSettle ==
  ASSUME Unsignalled, TypeInv, Command \/ StartProvide \/ Crash \/ Operator
  PROVE  Settles /\ Rests(op'.copy)
<1>1. CASE \E noPr \in Modes : Start(noPr)
  <2>1. PICK n : Start(n)
    BY <1>1
  <2> DEFINE c == [IdleCtx EXCEPT !.entry = "run", !.noPr = n]
  <2>2. c.copy = Absent /\ c.shutdown = FALSE
    BY DEF IdleCtx
  <2>3. "created" \in Still /\ NewRun.running <= used.strays
    BY NoneRunning DEF Still, Labels, Counting, Taken, Unsignalled
  <2>4. Counted("created", NewRun, c) /\ Rests(NewRun)
    BY <2>3, StillCounted
  <2> HIDE DEF c
  <2>5. disk' = NewRun /\ mem' = NewRun /\ pc' = "created" /\ ctx' = c /\ op' = op
    BY <2>1 DEF Start, Quiet, c
  <2>6. QED BY <2>2, <2>4, <2>5, NoneRunning DEF Settles, Unsignalled
<1>2. CASE (\E noPr \in Modes : StartResume(noPr)) \/ StartProvide
  <2>1. PICK l, c : /\ Go(l, disk, c) /\ c.copy = Absent /\ ~c.shutdown /\ c.entry # "run"
                    /\ l = "loaded" \/ (l = "provided" /\ disk.st \in Waiting)
    <3>1. CASE StartProvide
      BY <3>1 DEF StartProvide, IdleCtx
    <3>2. CASE \E noPr \in Modes : StartResume(noPr)
      <4>1. PICK n : StartResume(n)
        BY <3>2
      <4> DEFINE c == [IdleCtx EXCEPT !.entry = "resume", !.noPr = n]
      <4>2. Go("loaded", disk, c)
        BY <4>1 DEF StartResume
      <4>3. c.copy = Absent /\ ~c.shutdown /\ c.entry = "resume"
        BY DEF IdleCtx
      <4> HIDE DEF c
      <4>4. QED BY <4>2, <4>3
    <3>3. QED BY <1>2, <3>1, <3>2
  <2>2. Counted(l, disk, c)
    BY <2>1 DEF Counted, Counting, Taken
  <2>3. op' = op
    BY <1>2, OperatorAlone DEF Command
  <2>4. QED BY <2>1, <2>2, <2>3, NoneRunning DEF Go, Settles, Unsignalled
<1>3. CASE Crash
  <2>1. Exit("crashed") /\ disk' = disk /\ op' = op
    BY <1>3, OperatorAlone DEF Crash
  <2>2. QED BY <2>1, ExitSettles DEF Unsignalled
<1>4. CASE Operator
  <2> DEFINE r == op.copy
             a == [r EXCEPT !.cancel = TRUE, !.asks = FALSE]
             b == [r EXCEPT !.st = "Cancelled", !.asks = FALSE]
             c == [r EXCEPT !.running = 0, !.attempt = @ + 1, !.st = "ReadyForExecution"]
  <2>1. r \in Run /\ Rests(r)
    BY DEF TypeInv, OperatorInv, Unsignalled
  <2>2. Rests(a) /\ Rests(b) /\ Rests(c)
    BY <2>1 DEF Run, Rests
  <2>3. /\ UNCHANGED <<mem, pc, ctx>>
        /\ disk' \in {disk, a, b, c}
        /\ op'.copy \in {disk, Absent}
    BY <1>4 DEF Operator, CancelLoad, RetryLoad, Load, CancelWrite, RetryWrite, NoOp
  <2> HIDE DEF a, b, c
  <2>4. QED BY <2>2, <2>3, NoneRunning DEF Settles, Unsignalled
<1>5. QED BY <1>1, <1>2, <1>3, <1>4 DEF Command

\* A candidate that is added is counted.
LEMMA AddingCounts == ASSUME TypeInv, RestInv, Unsignalled, Adding PROVE Unsignalled'
<1> DEFINE r == Added(disk)
           n == IF disk.round = mem.round THEN disk.planned + 1 ELSE 1
           c == [ctx EXCEPT !.copy = r, !.updates = @ + 1]
<1>1. /\ used'.strays = used.strays + 1 /\ used.strays \in Nat
      /\ UNCHANGED <<disk, mem, op>> /\ pc' = "update" /\ ctx' = c
  <2>1. used'.strays = used.strays + 1 /\ used.strays \in Nat
    BY DEF Adding, Spend, RestInv, Unsignalled
  <2>2. UNCHANGED <<disk, mem, op>> /\ pc' = "update" /\ ctx' = c
    BY DEF Adding, Go
  <2>3. QED BY <2>1, <2>2
<1>2. {disk, mem, op.copy} \subseteq Run
  BY Fresh DEF TypeInv, ProcessInv, OperatorInv, Sound, Live
<1>3. c.planned = ctx.planned /\ ~c.shutdown /\ c.copy = r /\ ctx.planned \in Nat
  BY DEF TypeInv, ProcessInv, Ctx, Unsignalled
<1>4. r = [disk EXCEPT !.running = @ + 1, !.round = mem.round, !.planned = n]
  BY DEF Added
<1> HIDE DEF n
<1>5. r.st = disk.st /\ r.running = disk.running + 1 /\ disk.running \in Nat
  BY <1>2, <1>4 DEF Run
<1> HIDE DEF r, c
<1>6. \A x \in {disk, mem, op.copy} : Rests(x) /\ x.running \in Nat
  BY <1>2 DEF Unsignalled, Run
<1>7. mem.running <= ctx.planned + used.strays
  BY DEF Unsignalled, Counted, Adding
<1>8. /\ Rests(disk)' /\ Rests(mem)' /\ Rests(op.copy)'
  BY <1>1, <1>6 DEF Rests
<1>9. Rests(ctx.copy)'
  BY <1>1, <1>3, <1>5, <1>6 DEF Rests
<1>10. mem'.running <= ctx'.planned + used'.strays
  BY <1>1, <1>3, <1>6, <1>7
<1>11. Counted(pc, mem, ctx)'
  BY <1>1, <1>10 DEF Counted, Counting, Taken
<1>12. QED BY <1>1, <1>3, <1>8, <1>9, <1>11 DEF Unsignalled

\* The invariant is inductive.
LEMMA RestStep == ASSUME TypeInv, RestInv, [Next]_vars PROVE RestInv'
<1>1. CASE UNCHANGED vars
  BY <1>1 DEF vars, RestInv, Unsignalled, Rests, Counted
<1>2. CASE Next
  <2>1. used' = used \/ \E f : Spend(f)
    BY <1>2, Spending DEF Adding
  <2>2. /\ {"signals", "strays"} \subseteq DOMAIN used' /\ used'.signals \in Nat
        /\ used'.signals = 0 => used.signals = 0
    BY <2>1 DEF RestInv, Spend
  <2>3. SUFFICES ASSUME used'.signals = 0 PROVE Unsignalled'
    BY <2>2 DEF RestInv
  <2>4. Unsignalled
    BY <2>2, <2>3 DEF RestInv
  <2>5. ~Signal
    BY <2>2, <2>3 DEF Signal, Spend, RestInv
  <2>6. CASE Adding
    BY <2>4, <2>6, AddingCounts
  <2>7. CASE ~Adding
    <3>1. Settles /\ Rests(op'.copy)
      <4>1. CASE ProcessStep
        BY <2>4, <2>7, <4>1, IntakeSettles, ExecutionSettles, PublishingSettles,
           OperatorAlone
        DEF ProcessStep, TypeInv, Unsignalled
      <4>2. QED BY <1>2, <2>4, <2>5, <4>1, OthersSettle DEF Next
    <3>2. used'.strays = used.strays
      <4>1. used' = used \/ \E f \in {"resumes", "crashes", "errors", "throttles", "inputs",
                                      "cancels", "retries"} : Spend(f)
        BY <1>2, <2>5, <2>7, Spending
      <4>2. QED BY <4>1 DEF RestInv, Spend
    <3>3. used.strays \in Nat
      BY <2>4 DEF Unsignalled
    <3>4. QED BY <3>1, <3>2, <3>3 DEF Settles, Unsignalled, Rests, Counted
  <2>8. QED BY <2>6, <2>7
<1>3. QED BY <1>1, <1>2

\* Before the run is created there is no candidate.
LEMMA RestInit == Init => RestInv
<1> SUFFICES ASSUME Init PROVE RestInv
  OBVIOUS
<1>1. {"signals", "strays"} \subseteq DOMAIN used /\ used.signals = 0 /\ used.strays = 0
  BY DEF Init
<1>2. ~ctx.shutdown /\ ctx.copy = Absent
  BY DEF Init, IdleCtx
<1>3. Counted("idle", Absent, ctx)
  BY <1>1, NoneRunning DEF Counted, Counting, Taken
<1>4. QED BY <1>1, <1>2, <1>3, NoneRunning DEF Init, NoOp, RestInv, Unsignalled

\* As long as no signal was handled a run is evaluated and published with no candidate
\* recorded as running but those that workers added to an old copy of gg cancel or gg
\* retry, which are counted, whatever is killed, resumed, repaired or written back.
THEOREM QuietUntilSignalled == Spec => []QuiescentWhenEvaluated
<1>1. RestInv => QuiescentWhenEvaluated
  BY DEF RestInv, Unsignalled, Rests, QuiescentWhenEvaluated
<1>2. QED BY <1>1, TypeInvariant, RestInit, RestStep, PTL DEF Spec

(***************************************************************************)
(* A run that asked goes on with an answer, or ends: AnswerInv.            *)
(***************************************************************************)

\* Every copy a process can write has the answer, asks, or is over.
AllTold == Told(disk) /\ Told(mem) /\ Told(ctx.copy)

\* What a step that is not the operator's leaves of the answers.
Tells == /\ AllTold => AllTold'
         /\ NeedsAnswer(disk') => NeedsAnswer(disk) \/ (Told(mem') /\ Told(ctx'.copy))
         /\ NeedsAnswer(ctx'.copy) => Told(mem')
         /\ Pends(pc', mem')
         /\ mem'.st \in Terminal => disk'.st \in Terminal
         /\ pc' # "update" => ctx'.copy = Absent
         /\ ctx'.entry = "run" => /\ ctx.entry = "run"
                                  /\ pc' \notin Taken
                                  /\ \A r \in {disk', mem', ctx'.copy} : ~NeedsAnswer(r)

\* Where a process can go on to with m.
Suits(l, m) == /\ AllTold => Told(m)
               /\ Pends(l, m)
               /\ l # "update"
               /\ ctx.entry = "run" => l \notin Taken /\ ~NeedsAnswer(m)

\* m asks, and is over, only as the run in memory does, and has the same answer.
Keeping(m) == /\ m.input = mem.input
              /\ \/ m.st \notin Waiting \cup Terminal
                 \/ m.st = mem.st /\ m.asks = mem.asks

\* The places past the decision where to take the run up.
Underway == Labels \ (Taken \cup {"idle", "update"})

\* What the process has of the worker.
Carried(c) == c.copy = ctx.copy /\ c.entry = ctx.entry

\* No run asks nothing.
LEMMA NothingAsked ==
  /\ Told(Absent) /\ ~NeedsAnswer(Absent) /\ Absent.st \notin Terminal
  /\ IdleCtx.copy = Absent /\ IdleCtx.entry # "run"
BY Fresh DEF Told, NeedsAnswer, NoRun, Terminal, IdleCtx, None

\* A process that ends leaves only what it wrote.
LEMMA ExitTells ==
  ASSUME AnswerInv, NEW how, Exit(how), AllTold => Told(disk') PROVE Tells
<1>1. Pends("idle", Absent)
  BY NothingAsked DEF Pends
<1>2. QED BY <1>1, NothingAsked DEF Exit, Tells, AllTold

\* An exception that leaves the command writes nothing.
LEMMA RaiseTells == ASSUME AnswerInv, Raise PROVE Tells
BY ExitTells DEF Raise, AllTold

\* What it writes before it returns was told, or ends the run.
LEMMA ReturnTells ==
  ASSUME AnswerInv, NEW m, SaveReturn(m), AllTold => Told(m) PROVE Tells
BY RaiseTells, ExitTells DEF SaveReturn

\* Going on to a place where m fits,
LEMMA GoTells ==
  ASSUME AnswerInv, pc # "update", NEW l, NEW m, NEW c, Go(l, m, c), Carried(c), Suits(l, m),
         m.st \in Terminal => disk.st \in Terminal
  PROVE  Tells
<1>1. /\ disk' = disk /\ mem' = m /\ pc' = l /\ ctx'.copy = Absent
      /\ ctx'.entry = ctx.entry /\ ctx.copy = Absent
  BY DEF Go, Carried, AnswerInv
<1>2. QED BY <1>1, NothingAsked DEF Tells, AllTold, Suits, AnswerInv

\* and writing m on the way.
LEMMA SaveTells ==
  ASSUME AnswerInv, pc # "update", NEW l, NEW m, NEW c, SaveCtx(m, l, c), Carried(c),
         Suits(l, m)
  PROVE  Tells
<1>1. CASE Raise
  BY <1>1, RaiseTells
<1>2. CASE disk' = m /\ mem' = m /\ pc' = l /\ ctx' = c
  <2>1. ctx'.copy = Absent /\ ctx'.entry = ctx.entry /\ ctx.copy = Absent
    BY <1>2 DEF Carried, AnswerInv
  <2>2. QED BY <1>2, <2>1, NothingAsked DEF Tells, AllTold, Suits, Told
<1>3. QED BY <1>1, <1>2 DEF SaveCtx

\* Past the decision where to take the run up, what was told has the answer.
LEMMA ToldThere ==
  ASSUME AnswerInv, ProcessInv, pc \notin Taken \cup {"idle"}
  PROVE  /\ AllTold => mem.input
         /\ NeedsAnswer(mem) \/ mem.st \in Terminal => mem.input
<1>1. mem # Absent /\ mem \in Run
  BY RunLive, Fresh DEF Live
<1>2. QED BY <1>1 DEF AnswerInv, AllTold, Told, Pends, Taken

\* There a step that keeps the answer, or ends the run, leaves the rest told.
LEMMA KeepingFits ==
  ASSUME AnswerInv, ProcessInv, pc \notin Taken \cup {"idle"}, NEW m, Keeping(m)
  PROVE  /\ AllTold => Told(m)
         /\ m.st \in Terminal => disk.st \in Terminal
         /\ \A l \in Underway : Suits(l, m)
<1>1. AllTold => Told(m)
  BY ToldThere DEF Keeping, Told
<1>2. NeedsAnswer(m) => NeedsAnswer(mem)
  BY DEF Keeping, NeedsAnswer, Waiting, Terminal
<1>3. m.st \in Terminal => mem.st \in Terminal
  BY DEF Keeping
<1>4. ASSUME NEW l \in Underway PROVE Suits(l, m)
  <2>1. l \notin Taken /\ l # "update"
    BY DEF Underway
  <2>2. Pends(l, m)
    BY <1>2, <1>3, ToldThere DEF Pends, Keeping
  <2>3. QED BY <1>1, <1>2, <2>1, <2>2 DEF Suits, AnswerInv
<1>5. QED BY <1>1, <1>3, <1>4 DEF AnswerInv

\* A failure ends the run; only run_issue blocks it, where nothing was asked.
LEMMA BreakTells ==
  ASSUME AnswerInv, ProcessInv, pc # "idle", Break \/ Fail \/ Throttle PROVE Tells
<1> DEFINE r == [mem EXCEPT !.st = "Blocked", !.resumeTo = mem.st,
                            !.wait = TRUE, !.asks = FALSE]
<1>1. mem \in Run
  BY RunLive DEF Live
<1>2. Told(Failed(mem)) /\ r.input = mem.input
  BY <1>1 DEF Run, Failed, Told, Terminal
<1>3. \/ Raise \/ SaveReturn(Failed(mem))
      \/ ctx.entry = "run" /\ SaveReturn(r)
  BY DEF Break, Fail, Throttle
<1> HIDE DEF r
<1>4. CASE ctx.entry = "run" /\ SaveReturn(r)
  <2>1. pc \notin Taken \cup {"idle"}
    BY <1>4 DEF AnswerInv
  <2>2. AllTold => Told(r)
    BY <1>2, <2>1, ToldThere DEF Told
  <2>3. QED BY <1>4, <2>2, ReturnTells
<1>5. QED BY <1>2, <1>3, <1>4, RaiseTells, ReturnTells

\* So it is when the outside world refuses.
LEMMA TroubleTells ==
  ASSUME AnswerInv, ProcessInv, NEW errors, NEW throttles,
         "idle" \notin errors \cup throttles, Trouble(errors, throttles)
  PROVE  Tells
BY BreakTells DEF Trouble

\* A cancellation ends the run.
LEMMA CheckCancelTells ==
  ASSUME AnswerInv, ProcessInv, pc \notin {"idle", "update"}, NEW l, NEW m,
         CheckCancel(l, m), Suits(l, m), m.st \in Terminal => disk.st \in Terminal
  PROVE  Tells
<1>1. CASE Go(l, m, ctx)
  BY <1>1, GoTells DEF Carried
<1>2. CASE Return
  BY <1>2, ExitTells DEF Return, AllTold
<1>3. CASE Exit("returned") /\ disk' = [disk EXCEPT !.st = "Cancelled"]
  <2>1. Told(disk')
    BY <1>3, RunLive DEF Live, Run, Told, Terminal
  <2>2. QED BY <1>3, <2>1, ExitTells
<1>4. CASE Break
  BY <1>4, BreakTells
<1>5. QED BY <1>1, <1>2, <1>3, <1>4 DEF CheckCancel, ActOnCancel

\* A step that keeps the answer leaves the rest told, whatever else it does in the locals.
LEMMA KeepingTellsCtx ==
  ASSUME AnswerInv, ProcessInv, pc \in Underway, NEW m, NEW c, NEW l \in Underway, Keeping(m),
         Carried(c), Go(l, m, c) \/ SaveCtx(m, l, c)
  PROVE  Tells
<1>1. pc \notin Taken \cup {"idle", "update"}
  BY DEF Underway
<1>2. QED BY <1>1, KeepingFits, GoTells, SaveTells

\* Most steps only keep the answer.
LEMMA KeepingTells ==
  ASSUME AnswerInv, ProcessInv, pc \in Underway, NEW m, Keeping(m),
         \/ \E l \in Underway : Go(l, m, ctx) \/ SaveCtx(m, l, ctx) \/ CheckCancel(l, m)
         \/ SaveReturn(m)
  PROVE  Tells
<1>1. pc \notin Taken \cup {"idle", "update"}
  BY DEF Underway
<1>2. Carried(ctx)
  BY DEF Carried
<1>3. QED
  BY <1>1, <1>2, KeepingFits, KeepingTellsCtx, ReturnTells, CheckCancelTells
--------------------------------------------------------------------------------
\* From the command to execution: a run that was taken over goes on with the answer it
\* waits for, or is left waiting.
LEMMA IntakeTells == ASSUME AnswerInv, ProcessInv, IntakeStep PROVE Tells
<1>1. CASE RefuseDirty \/ MissingBrief \/ IntakeTrouble
  BY <1>1, BreakTells, TroubleTells DEF RefuseDirty, MissingBrief, IntakeTrouble
<1>2. CASE SelectIssue \/ Claim \/ StartAnalysis \/ Analyze \/ Republish
           \/ (BriefReady /\ ctx.entry = "run")
  <2>1. Live(mem) /\ pc \in Underway
    BY <1>2, RunLive
    DEF SelectIssue, Claim, StartAnalysis, Analyze, Republish, BriefReady, Underway, Labels,
        Taken
  <2>2. \/ Fail
        \/ \E m \in {mem, [mem EXCEPT !.st = "Claiming"], [mem EXCEPT !.st = "TaskAnalysis"],
                    [mem EXCEPT !.brief = TRUE, !.st = "ReadyForExecution"]} :
             \E l \in Underway : Go(l, m, ctx) \/ SaveCtx(m, l, ctx)
    BY <1>2
    DEF SelectIssue, Claim, StartAnalysis, Analyze, Republish, BriefReady, Save, Goto,
        Underway, Labels, Taken
  <2>3. Fail \/ \E m : Keeping(m) /\ \E l \in Underway : Go(l, m, ctx) \/ SaveCtx(m, l, ctx)
    BY <2>1, <2>2 DEF Live, Run, Keeping, Waiting, Terminal
  <2>4. QED BY <2>1, <2>3, BreakTells, KeepingTells DEF Underway
<1>3. CASE BriefReady /\ ctx.entry # "run"
  <2> DEFINE m == [mem EXCEPT !.brief = TRUE]
  <2>1. Live(mem) /\ pc \notin Taken \cup {"idle", "update"} /\ Go("recover", m, ctx)
    BY <1>3, RunLive DEF BriefReady, Taken
  <2>2. m.st = mem.st /\ m.asks = mem.asks /\ m.input = mem.input
    BY <2>1 DEF Live, Run
  <2> HIDE DEF m
  <2>3. Keeping(m)
    BY <2>2 DEF Keeping
  <2>4. Pends("recover", m)
    BY <2>1, <2>2, ToldThere DEF Pends, NeedsAnswer
  <2>5. Suits("recover", m) /\ (m.st \in Terminal => disk.st \in Terminal)
    BY <1>3, <2>1, <2>3, <2>4, KeepingFits DEF Suits
  <2>6. QED BY <2>1, <2>5, GoTells DEF Carried
<1>4. CASE BriefBlocked
  <2> DEFINE t == IF mem.st = "Blocked" /\ mem.resumeTo # None THEN mem.resumeTo
                  ELSE "TaskAnalysis"
             r == [mem EXCEPT !.st = "Blocked", !.brief = TRUE, !.wait = FALSE,
                              !.asks = TRUE, !.resumeTo = t]
  <2>1. SaveReturn(r)
    BY <1>4 DEF BriefBlocked
  <2>2. Told(r)
    BY <1>4, RunLive DEF BriefBlocked, Live, Run, Told, NeedsAnswer
  <2>3. QED BY <2>1, <2>2, ReturnTells
<1>5. CASE ContextTooLarge
  <2> DEFINE r == [mem EXCEPT !.st = "Blocked", !.brief = TRUE, !.asks = FALSE]
  <2>1. Live(mem) /\ pc \notin Taken \cup {"idle"} /\ (Fail \/ SaveReturn(r))
    BY <1>5, RunLive DEF ContextTooLarge, Taken
  <2>2. AllTold => Told(r)
    BY <2>1, ToldThere DEF Live, Run, Told
  <2>3. QED BY <2>1, <2>2, BreakTells, ReturnTells
<1>6. CASE WaitLonger \/ AskAgain
  BY <1>6, ReturnTells DEF WaitLonger, AskAgain, AllTold
<1>7. CASE TakeComment \/ Provide
  <2>1. /\ Live(mem) /\ pc \in {"loaded", "provided"} /\ pc \notin {"idle", "update"}
        /\ ctx.entry # "run"
    BY <1>7, RunLive DEF TakeComment, Provide, AnswerInv, Taken
  <2>2. Answered.input
    BY <2>1 DEF Answered, Live, Run
  <2>3. Told(Answered) /\ Suits("answered", Answered)
    BY <2>1, <2>2 DEF Told, Suits, Pends
  <2>4. Break \/ SaveCtx(Answered, "answered", ctx) \/ SaveReturn(Answered)
    BY <1>7 DEF TakeComment, Provide, Save
  <2> HIDE DEF Answered
  <2>5. QED BY <2>1, <2>3, <2>4, BreakTells, SaveTells, ReturnTells DEF Carried
<1>8. CASE NoComment
  <2>1. ctx.entry # "run" /\ pc # "update" /\ Go("answered", disk, ctx)
    BY <1>8 DEF NoComment, AnswerInv, Taken
  <2>2. Suits("answered", disk)
    BY <2>1 DEF Suits, AllTold, Pends
  <2>3. QED BY <2>1, <2>2, GoTells DEF Carried
<1>9. CASE Reconsider
  <2>1. ctx.entry # "run" /\ pc # "update"
    BY <1>9 DEF Reconsider, AnswerInv, Taken
  <2>2. NeedsAnswer(mem) => mem.input
    BY <1>9
    DEF Reconsider, AnswerInv, Pends, NeedsAnswer, StillWaiting, Waiting
  <2>3. Suits("recover", mem) /\ (mem.input => Suits("analyze", mem))
    BY <2>1, <2>2 DEF Suits, AllTold, Pends
  <2>4. QED
    BY <1>9, <2>1, <2>3, GoTells DEF Reconsider, Goto, Carried, AnswerInv
<1>10. CASE ResumePublishing \/ PlanRecovery
  <2>1. pc = "recover" /\ ctx.entry # "run"
    BY <1>10 DEF ResumePublishing, PlanRecovery, AnswerInv, Taken
  <2>2. NeedsAnswer(mem) => mem.input
    BY <2>1 DEF AnswerInv, Pends
  <2>3. CASE ResumePublishing
    <3>1. Suits("republish", mem)
      BY <2>1, <2>2, <2>3 DEF ResumePublishing, Suits, AllTold, Pends, Terminal
    <3>2. QED BY <2>1, <2>3, <3>1, SaveTells DEF ResumePublishing, Save, Carried
  <2>4. CASE PlanRecovery
    <3>1. Suits("recovering", mem)
      BY <2>1, <2>2 DEF Suits, AllTold, Pends
    <3>2. QED BY <2>1, <2>4, <3>1, SaveTells DEF PlanRecovery, Save, Carried
  <2>5. QED BY <1>10, <2>3, <2>4
<1>11. CASE Recover
  <2> DEFINE a == [mem EXCEPT !.running = 0]
             b == [mem EXCEPT !.st = "ReadyForExecution", !.running = 0]
  <2>1. Live(mem) /\ pc = "recovering" /\ pc # "update" /\ ctx.entry # "run"
    BY <1>11, RunLive DEF Recover, AnswerInv, Taken
  <2>2. /\ a.st = mem.st /\ a.input = mem.input
        /\ b.st = "ReadyForExecution" /\ b.input = mem.input
    BY <2>1 DEF Live, Run
  <2>3. AllTold => mem.input \/ mem.st \in Terminal
    BY <2>1, Fresh DEF AllTold, Told, AnswerInv, Pends, Live
  <2> HIDE DEF a, b
  <2>4. CASE mem.st = "ReadyForExecution" /\ Go("select", a, ctx)
    <3>1. Suits("select", a) /\ a.st \notin Terminal
      BY <2>1, <2>2, <2>3, <2>4 DEF Suits, Told, Pends, NeedsAnswer, Terminal
    <3>2. QED BY <2>1, <2>4, <3>1, GoTells DEF Carried
  <2>5. CASE SaveCtx(b, "select", ctx)
    <3>1. CASE mem.st \in Terminal
      <4>1. Refuses(b)
        BY <2>2, <3>1 DEF Refuses, AnswerInv, Terminal
      <4>2. QED BY <2>5, <4>1, RaiseTells DEF SaveCtx
    <3>2. CASE mem.st \notin Terminal
      <4>1. Suits("select", b)
        BY <2>1, <2>2, <2>3, <3>2 DEF Suits, Told, Pends, NeedsAnswer, Terminal
      <4>2. QED BY <2>1, <2>5, <4>1, SaveTells DEF Carried
    <3>3. QED BY <3>1, <3>2
  <2>6. QED BY <1>11, <2>4, <2>5 DEF Recover, Save, a, b
<1>12. QED
  BY <1>1, <1>2, <1>3, <1>4, <1>5, <1>6, <1>7, <1>8, <1>9, <1>10, <1>11 DEF IntakeStep
--------------------------------------------------------------------------------
\* The rounds of candidates: the old answer is dropped only by the next question.
LEMMA ExecutionTells == ASSUME AnswerInv, ProcessInv, ExecutionStep PROVE Tells
<1>1. CASE RuntimeLimit \/ CandidateLimit \/ GiveUp \/ ExecutionTrouble
  BY <1>1, BreakTells, TroubleTells
  DEF RuntimeLimit, CandidateLimit, GiveUp, ExecutionTrouble
<1>2. CASE SelectBlocked \/ DiskShort \/ AgentGone
  <2>1. /\ Live(mem) /\ pc # "idle" /\ pc \notin Taken \cup {"idle"}
        /\ SaveReturn(Unavailable(mem)) \/ Break
    BY <1>2, RunLive DEF SelectBlocked, DiskShort, AgentGone, Taken
  <2>2. AllTold => Told(Unavailable(mem))
    BY <2>1, ToldThere DEF Unavailable, Live, Run, Told
  <2>3. QED BY <2>1, <2>2, ReturnTells, BreakTells
<1>3. CASE SelectAgent \/ RunCandidates \/ Evaluate \/ NextAttempt \/ Winner \/ CheckPlan
           \/ CheckRound \/ MergeCancel
  <2>1. Live(mem) /\ pc \in Underway
    BY <1>3, RunLive
    DEF SelectAgent, RunCandidates, Evaluate, NextAttempt, Winner, CheckPlan, CheckRound,
        MergeCancel, Underway, Labels, Taken
  <2>2. \E m \in {mem, [mem EXCEPT !.st = "AgentSelection"],
                  [mem EXCEPT !.st = "AgentRunning"], Evaluated,
                  [mem EXCEPT !.attempt = @ + 1, !.st = "AgentRunning"],
                  [mem EXCEPT !.cancel = @ \/ disk.cancel]} :
          \E l \in Underway : Go(l, m, ctx) \/ SaveCtx(m, l, ctx) \/ CheckCancel(l, m)
    BY <1>3
    DEF SelectAgent, RunCandidates, Evaluate, NextAttempt, Winner, CheckPlan, CheckRound,
        MergeCancel, Save, Goto, Underway, Labels, Taken
  <2>3. \E m : /\ Keeping(m)
               /\ \E l \in Underway : Go(l, m, ctx) \/ SaveCtx(m, l, ctx) \/ CheckCancel(l, m)
    BY <2>1, <2>2 DEF Live, Run, Evaluated, Keeping, Waiting, Terminal
  <2>4. QED BY <2>1, <2>3, KeepingTells
<1>4. CASE NoProgress
  BY <1>4, RunLive, ReturnTells
  DEF NoProgress, Failed, Evaluated, Live, Run, Told, Terminal
<1>5. CASE AskInput
  <2> DEFINE r == [mem EXCEPT !.st = "NeedsInput", !.resumeTo = "AgentRunning",
                              !.wait = FALSE, !.input = FALSE]
  <2>1. SaveReturn(r) /\ Told(r)
    BY <1>5, RunLive DEF AskInput, Live, Run, Told, NeedsAnswer
  <2>2. QED BY <2>1, ReturnTells
<1>6. CASE LaunchRound \/ PlanCandidate \/ StartBatch \/ BatchDone \/ RecordResult
  <2>1. Live(mem) /\ pc \in Underway
    BY <1>6, RunLive
    DEF LaunchRound, PlanCandidate, StartBatch, BatchDone, RecordResult, Underway, Labels,
        Taken
  <2>2. {"plan", "batch", "merge"} \subseteq Underway /\ Keeping(mem)
    BY DEF Underway, Labels, Taken, Keeping
  <2>3. CASE LaunchRound
    <3>1. PICK n : SaveCtx(mem, "plan", [ctx EXCEPT !.todo = n, !.planned = 0])
      BY <2>3 DEF LaunchRound
    <3>2. Carried([ctx EXCEPT !.todo = n, !.planned = 0])
      BY DEF ProcessInv, Ctx, Carried
    <3>3. QED BY <2>1, <2>2, <3>1, <3>2, KeepingTellsCtx
  <2>4. CASE PlanCandidate
    <3> DEFINE n == IF ctx.planned = 0 THEN mem.round + 1 ELSE mem.round
               m == [mem EXCEPT !.running = @ + 1, !.planned = ctx.planned + 1, !.round = n]
               c == [ctx EXCEPT !.todo = @ - 1, !.planned = @ + 1]
    <3>1. SaveCtx(m, "plan", c)
      BY <2>4 DEF PlanCandidate
    <3>2. Keeping(m)
      BY <2>1 DEF Live, Run, Keeping
    <3>3. Carried(c)
      BY DEF ProcessInv, Ctx, Carried
    <3> HIDE DEF m, c
    <3>4. QED BY <2>1, <2>2, <3>1, <3>2, <3>3, KeepingTellsCtx
  <2>5. CASE StartBatch
    <3>1. Carried([ctx EXCEPT !.updates = 0])
      BY DEF ProcessInv, Ctx, Carried
    <3>2. QED BY <2>1, <2>2, <2>5, <3>1, KeepingTellsCtx DEF StartBatch
  <2>6. CASE BatchDone
    <3>1. PICK n, f :
            Go("merge", mem, [ctx EXCEPT !.done = n, !.found = f, !.planned = 0])
      BY <2>6 DEF BatchDone
    <3>2. Carried([ctx EXCEPT !.done = n, !.found = f, !.planned = 0])
      BY DEF ProcessInv, Ctx, Carried
    <3>3. QED BY <2>1, <2>2, <3>1, <3>2, KeepingTellsCtx
  <2>7. CASE RecordResult
    <3> DEFINE m == [mem EXCEPT !.running = @ - 1]
               c == [ctx EXCEPT !.done = @ - 1]
    <3>1. SaveCtx(m, "merge", c)
      BY <2>7 DEF RecordResult
    <3>2. Keeping(m)
      BY <2>1 DEF Live, Run, Keeping
    <3>3. Carried(c)
      BY DEF ProcessInv, Ctx, Carried
    <3> HIDE DEF m, c
    <3>4. QED BY <2>1, <2>2, <3>1, <3>2, <3>3, KeepingTellsCtx
  <2>8. QED BY <1>6, <2>3, <2>4, <2>5, <2>6, <2>7
<1>7. CASE UpdateLoad
  <2> PICK r : /\ Alike(r, disk) /\ Live(r)
               /\ Go("update", mem, [ctx EXCEPT !.copy = r, !.updates = @ + 1])
    BY <1>7, WorkerCopy
  <2> DEFINE c == [ctx EXCEPT !.copy = r, !.updates = @ + 1]
  <2>1. c.copy = r /\ c.entry = ctx.entry
    BY DEF ProcessInv, Ctx
  <2>2. pc = "batch" /\ pc \notin Taken \cup {"idle"} /\ Go("update", mem, c)
    BY <1>7 DEF UpdateLoad, Taken
  <2>3. Pends("update", mem) /\ "update" \notin Taken
    BY <2>2, ToldThere DEF Pends, Taken
  <2> HIDE DEF c
  <2>4. disk' = disk /\ mem' = mem /\ pc' = "update" /\ ctx' = c
    BY <2>2 DEF Go
  <2>5. /\ NeedsAnswer(r) <=> NeedsAnswer(disk)
        /\ Told(disk) => Told(r)
    BY <1>7, RunLive, Fresh DEF Alike, NeedsAnswer, Told, UpdateLoad, Live
  <2>6. QED BY <2>1, <2>3, <2>4, <2>5 DEF Tells, AllTold, AnswerInv
<1>8. CASE UpdateWrite
  <2> DEFINE c == [ctx EXCEPT !.copy = Absent]
  <2>1. /\ c.copy = Absent /\ c.entry = ctx.entry
        /\ pc = "update" /\ pc \notin Taken \cup {"idle"}
    BY <1>8 DEF ProcessInv, Ctx, UpdateWrite, Taken
  <2>2. Pends("batch", mem) /\ "batch" \notin Taken
    BY <2>1, ToldThere DEF Pends, Taken
  <2>3. CASE Break
    BY <2>1, <2>3, BreakTells
  <2>4. CASE /\ disk' = disk \/ (disk' = ctx.copy /\ ~Refuses(ctx.copy))
             /\ mem' = mem /\ pc' = "batch" /\ ctx' = c
    <3> HIDE DEF c
    <3>1. mem'.st \in Terminal => disk'.st \in Terminal
      BY <2>4 DEF AnswerInv, Refuses
    <3>2. QED
      BY <2>1, <2>2, <2>4, <3>1, NothingAsked DEF Tells, AllTold, AnswerInv
  <2>5. QED BY <1>8, <2>3, <2>4 DEF UpdateWrite, Go
<1>9. QED
  BY <1>1, <1>2, <1>3, <1>4, <1>5, <1>6, <1>7, <1>8 DEF ExecutionStep

\* The publication carries the answer along.
LEMMA PublishingTells == ASSUME AnswerInv, ProcessInv, PublishingStep PROVE Tells
<1>1. Live(mem) /\ Live(disk) /\ pc \in Underway /\ pc # "idle"
  <2>1. pc \notin Taken \cup {"idle", "update"}
    BY DEF PublishingStep, BeginPublish, Publishing, Local, Reuse, Preflight, PublishRefused,
        NoPatch, ReuseWorktree, CreateWorktree, RecordIntegration, Apply, Conflict, Verify,
        VerifyFails, Commit, NothingToCommit, Committed, Abandon, Repair, RepairExhausted,
        CheckPush, Push, RecordPush, CheckPR, OpenPR, CancelledWithPR, KeepPR, RecordPR,
        CheckReview, WriteOutcome, GateFails, GatePasses, Comment, CommentFails,
        RecordComment, CheckFinish, Finish, DoneFails, MarkDone, Complete,
        PublishingTrouble, Trouble, Taken
  <2>2. QED BY <2>1, RunLive DEF ProcessInv, Underway
<1>2. CASE PublishRefused \/ RepairExhausted \/ GateFails \/ CommentFails \/ DoneFails
           \/ PublishingTrouble
  BY <1>1, <1>2, BreakTells, TroubleTells
  DEF PublishRefused, RepairExhausted, GateFails, CommentFails, DoneFails, PublishingTrouble
<1>3. CASE BeginPublish \/ CheckPush \/ CheckPR \/ CheckReview \/ CheckFinish
  <2>1. \E m \in {mem, [mem EXCEPT !.st = "OutcomePublishing"]} :
          \E l \in Underway : CheckCancel(l, m)
    BY <1>3
    DEF BeginPublish, CheckPush, CheckPR, CheckReview, CheckFinish, Underway, Labels, Taken
  <2>2. \E m : Keeping(m) /\ \E l \in Underway : CheckCancel(l, m)
    BY <1>1, <2>1 DEF Live, Run, Keeping, Waiting, Terminal
  <2>3. QED BY <1>1, <2>2, KeepingTells
<1>4. CASE Preflight \/ NoPatch \/ Conflict \/ VerifyFails \/ Abandon \/ KeepPR
           \/ WriteOutcome \/ GatePasses \/ Comment \/ Finish \/ Commit
           \/ Reuse \/ CreateWorktree \/ NothingToCommit \/ Push
  <2>1. Fail \/ Break \/ \E l \in Underway : Go(l, mem, ctx) \/ SaveCtx(mem, l, ctx)
    BY <1>4
    DEF Preflight, NoPatch, Conflict, VerifyFails, Abandon, KeepPR, WriteOutcome,
        GatePasses, Comment, Finish, Commit, Reuse, CreateWorktree, NothingToCommit, Push,
        Save, Goto, Underway, Labels, Taken
  <2>2. Keeping(mem)
    BY DEF Keeping
  <2>3. QED BY <1>1, <2>1, <2>2, BreakTells, KeepingTells
<1>5. CASE ReuseWorktree \/ RecordIntegration \/ Apply \/ Verify \/ Repair \/ MarkDone
           \/ Committed \/ RecordPush \/ RecordPR \/ RecordComment
  <2>1. \E m \in {[mem EXCEPT !.step = "integration_created"],
                  [mem EXCEPT !.step = "integration_created", !.integ = mem.winner],
                  [mem EXCEPT !.step = "patch_applied"], [mem EXCEPT !.step = "verified"],
                  [mem EXCEPT !.attempt = @ + 1, !.step = "None",
                              !.st = "ReadyForExecution"],
                  [mem EXCEPT !.step = "done_marked"],
                  [mem EXCEPT !.step = "committed"], [mem EXCEPT !.step = "branch_pushed"],
                  [mem EXCEPT !.step = "pr_created"],
                  [mem EXCEPT !.step = "result_commented"]} :
          \E l \in Underway : Go(l, m, ctx) \/ SaveCtx(m, l, ctx)
    BY <1>5
    DEF ReuseWorktree, RecordIntegration, Apply, Verify, Repair, MarkDone, Committed,
        RecordPush, RecordPR, RecordComment, Save, Underway, Labels, Taken
  <2>2. \E m : Keeping(m) /\ \E l \in Underway : Go(l, m, ctx) \/ SaveCtx(m, l, ctx)
    BY <1>1, <2>1 DEF Live, Run, Keeping, Waiting, Terminal
  <2>3. QED BY <1>1, <2>2, KeepingTells
<1>6. CASE Complete
  BY <1>1, <1>6, ReturnTells DEF Complete, Live, Run, Told, Terminal
<1>7. CASE Publishing \/ Local \/ OpenPR
  <2>1. \E s, u : \E l \in Underway :
          \/ SaveCtx([mem EXCEPT !.step = s], l, ctx)
          \/ Go(l, [mem EXCEPT !.pr = u], ctx)
          \/ Go(l, [mem EXCEPT !.pr = u, !.step = s], ctx)
    BY <1>7 DEF Publishing, Local, OpenPR, Save, Underway, Labels, Taken
  <2>2. \E m : Keeping(m) /\ \E l \in Underway : Go(l, m, ctx) \/ SaveCtx(m, l, ctx)
    BY <1>1, <2>1 DEF Live, Run, Keeping
  <2>3. QED BY <1>1, <2>2, KeepingTells
<1>8. CASE CancelledWithPR
  <2>1. CASE Break
    BY <1>1, <2>1, BreakTells
  <2>2. CASE Exit("returned") /\ disk' = [disk EXCEPT !.pr = mem.pr, !.st = "Cancelled"]
    <3>1. Told(disk')
      BY <1>1, <2>2 DEF Live, Run, Told, Terminal
    <3>2. QED BY <2>2, <3>1, ExitTells
  <2>3. QED BY <1>8, <2>1, <2>2 DEF CancelledWithPR
<1>9. QED
  BY <1>2, <1>3, <1>4, <1>5, <1>6, <1>7, <1>8 DEF PublishingStep
--------------------------------------------------------------------------------
\* The answers are there for every copy once they are for the ones a step changed.
LEMMA TellsKeeps ==
  ASSUME AnswerInv, Tells, op' = op, disk # Absent => disk' # Absent
  PROVE  AnswerInv'
<1>1. NeedsAnswer(disk) \/ NeedsAnswer(op.copy) => AllTold
  BY DEF AnswerInv, AllTold, Told
<1>2. /\ NeedsAnswer(disk') => Told(mem') /\ Told(ctx'.copy)
      /\ NeedsAnswer(op'.copy) => Told(disk') /\ Told(mem') /\ Told(ctx'.copy)
  BY <1>1 DEF Tells, AllTold
<1>3. disk' = Absent => op'.copy = Absent
  BY DEF AnswerInv
<1>4. ctx'.entry = "run" => ~NeedsAnswer(op'.copy)
  BY DEF AnswerInv, Tells
<1>5. QED BY <1>2, <1>3, <1>4 DEF AnswerInv, Tells

\* Whoever takes the run over reads what is on disk; a signal resets a run that asks
\* nothing.
LEMMA TakingTells ==
  ASSUME AnswerInv, ProcessInv,
         (\E noPr \in Modes : StartResume(noPr)) \/ StartProvide \/ Crash \/ Signal
  PROVE  Tells
<1>1. CASE (\E noPr \in Modes : StartResume(noPr)) \/ StartProvide
  <2>1. PICK l, c : /\ Go(l, disk, c) /\ c.copy = Absent /\ c.entry # "run"
                    /\ \/ l = "loaded" /\ disk.st \notin Terminal
                       \/ l = "provided" /\ disk.st \in Waiting
    <3>1. CASE StartProvide
      BY <3>1, NothingAsked DEF StartProvide, IdleCtx
    <3>2. CASE \E noPr \in Modes : StartResume(noPr)
      <4>1. PICK n : StartResume(n)
        BY <3>2
      <4> DEFINE c == [IdleCtx EXCEPT !.entry = "resume", !.noPr = n]
      <4>2. Go("loaded", disk, c) /\ disk.st \notin Terminal
        BY <4>1 DEF StartResume
      <4>3. c.copy = Absent /\ c.entry = "resume"
        BY DEF IdleCtx
      <4> HIDE DEF c
      <4>4. QED BY <4>2, <4>3
    <3>3. QED BY <1>1, <3>1, <3>2
  <2>2. Pends(l, disk)
    BY <2>1 DEF Pends, Waiting, Terminal
  <2>3. /\ disk' = disk /\ mem' = disk /\ pc' = l /\ ctx'.copy = Absent
        /\ ctx'.entry # "run"
    BY <2>1 DEF Go
  <2>4. QED BY <2>2, <2>3, NothingAsked DEF Tells, AllTold
<1>2. CASE Crash
  BY <1>2, ExitTells DEF Crash, AllTold
<1>3. CASE Signal
  <2> DEFINE c == [ctx EXCEPT !.shutdown = TRUE]
  <2>1. c.copy = ctx.copy /\ c.entry = ctx.entry
    BY DEF ProcessInv, Ctx
  <2>2. /\ mem' = mem /\ pc' = pc /\ ctx' = c
        /\ \/ disk' = disk
           \/ disk' = Interrupted(disk) /\ ctx.entry = "run"
    BY <1>3 DEF Signal
  <2> HIDE DEF c
  <2>3. disk \in Run /\ disk # Absent
    BY <1>3, RunLive, Fresh DEF Signal, Live
  <2>4. /\ ctx.entry = "run" /\ Told(disk) => Told(Interrupted(disk))
        /\ ~NeedsAnswer(Interrupted(disk)) \/ ctx.entry # "run"
        /\ disk.st \in Terminal => Interrupted(disk).st \in Terminal
    BY <2>3 DEF AnswerInv, Told, NeedsAnswer, Interrupted, Run, Terminal
  <2>5. QED BY <2>1, <2>2, <2>4 DEF Tells, AllTold, AnswerInv
<1>4. QED BY <1>1, <1>2, <1>3

\* The operator's copy is the operator's.
LEMMA TakingAlone ==
  ASSUME (\E noPr \in Modes : StartResume(noPr)) \/ StartProvide \/ Crash \/ Signal
  PROVE  op' = op
BY OperatorAlone DEF Command

\* A run is created when nobody has a copy of it.
LEMMA StartAnswers ==
  ASSUME AnswerInv, NEW n, Start(n) PROVE AnswerInv'
<1> DEFINE c == [IdleCtx EXCEPT !.entry = "run", !.noPr = n]
<1>1. c.copy = Absent
  BY DEF IdleCtx
<1> HIDE DEF c
<1>2. disk' = NewRun /\ mem' = NewRun /\ pc' = "created" /\ ctx' = c /\ op' = op
  BY DEF Start, Quiet, c
<1>3. op.copy = Absent
  BY DEF Start, AnswerInv
<1>4. ~NeedsAnswer(NewRun) /\ NewRun.st \notin Terminal
  BY DEF NewRun, InitialState, NeedsAnswer, Terminal
<1>5. NewRun # Absent
  BY Fresh DEF Live
<1>6. Pends("created", NewRun) /\ "created" \notin Taken
  BY <1>4 DEF Pends, Taken
<1>7. QED BY <1>1, <1>2, <1>3, <1>4, <1>5, <1>6, NothingAsked DEF AnswerInv

\* The operator writes a copy that was told, or one everybody else was told of.
LEMMA OperatorAnswers ==
  ASSUME TypeInv, AnswerInv, Operator PROVE AnswerInv'
<1> DEFINE r == op.copy
           a == [r EXCEPT !.cancel = TRUE, !.asks = FALSE]
           b == [r EXCEPT !.st = "Cancelled", !.asks = FALSE]
           c == [r EXCEPT !.running = 0, !.attempt = @ + 1, !.st = "ReadyForExecution"]
<1>1. UNCHANGED <<mem, pc, ctx>>
  BY DEF Operator, CancelLoad, RetryLoad, Load, CancelWrite, RetryWrite
<1>2. CASE CancelLoad \/ RetryLoad
  <2>1. disk' = disk /\ op'.copy = disk /\ disk # Absent
    BY <1>2 DEF CancelLoad, RetryLoad, Load
  <2>2. QED BY <1>1, <2>1 DEF AnswerInv, Told
<1>3. CASE CancelWrite \/ RetryWrite
  <2>1. /\ op'.copy = Absent
        /\ \/ disk' = disk
           \/ \E w \in {a, b, c} : disk' = w /\ ~Refuses(w)
    BY <1>3 DEF CancelWrite, RetryWrite, NoOp
  <2>2. r \in Run
    BY DEF TypeInv, OperatorInv
  <2>3. a.st = r.st /\ ~a.asks /\ b.st = "Cancelled" /\ c.st = "ReadyForExecution"
    BY <2>2 DEF Run
  <2> HIDE DEF a, b, c
  <2>4. NeedsAnswer(disk') => NeedsAnswer(disk) \/ NeedsAnswer(r)
    BY <2>1, <2>3 DEF NeedsAnswer
  <2>5. mem.st \in Terminal => disk'.st \in Terminal
    BY <2>1 DEF AnswerInv, Refuses
  <2>6. QED BY <1>1, <2>1, <2>4, <2>5, NothingAsked DEF AnswerInv
<1>4. QED BY <1>2, <1>3 DEF Operator

\* The invariant is inductive.
LEMMA AnswerStep == ASSUME TypeInv, AnswerInv, [Next]_vars PROVE AnswerInv'
<1>1. CASE UNCHANGED vars
  BY <1>1 DEF vars, AnswerInv
<1>2. CASE Next
  <2>1. disk # Absent => disk' # Absent
    BY <1>2, StepKeeps DEF TypeInv, Keeps
  <2>2. CASE ProcessStep
    BY <2>1, <2>2, IntakeTells, ExecutionTells, PublishingTells, OperatorAlone, TellsKeeps
    DEF ProcessStep, TypeInv, Tells
  <2>3. CASE (\E noPr \in Modes : StartResume(noPr)) \/ StartProvide \/ Crash \/ Signal
    BY <2>1, <2>3, TakingTells, TakingAlone, TellsKeeps DEF TypeInv, Tells
  <2>4. CASE \E noPr \in Modes : Start(noPr)
    BY <2>4, StartAnswers
  <2>5. CASE Operator
    BY <2>5, OperatorAnswers
  <2>6. QED BY <1>2, <2>2, <2>3, <2>4, <2>5 DEF Next, Command
<1>3. QED BY <1>1, <1>2

\* Before the run is created nobody asked anything.
LEMMA AnswerInit == Init => AnswerInv
<1>1. Init => Pends("idle", Absent)
  BY NothingAsked DEF Pends
<1>2. QED BY <1>1, NothingAsked DEF Init, NoOp, AnswerInv

\* A step that is not the operator's takes a run that asked on with the answer, or ends it.
LEMMA AnswerHolds ==
  ASSUME TypeInv, AnswerInv, [Next]_vars, op' = op, NeedsAnswer(disk), ~NeedsAnswer(disk')
  PROVE  disk'.input \/ disk'.st \in Terminal
<1>1. Next
  BY DEF vars
<1>2. AllTold /\ disk # Absent
  BY NothingAsked DEF AnswerInv, AllTold, Told
<1>3. disk' # Absent
  BY <1>1, <1>2, StepKeeps DEF TypeInv, Keeps
<1>4. ~Operator
  BY DEF Operator, CancelLoad, RetryLoad, Load, CancelWrite, RetryWrite, NoOp, None
<1>5. ~\E noPr \in Modes : Start(noPr)
  BY <1>2 DEF Start
<1>6. Tells
  BY <1>1, <1>4, <1>5, IntakeTells, ExecutionTells, PublishingTells, TakingTells
  DEF Next, Command, ProcessStep, TypeInv
<1>7. QED BY <1>2, <1>3, <1>6 DEF Tells, AllTold, Told

\* No process takes a run that asked a question further without an answer, however
\* stale the copy is that it, a worker or the operator wrote, and whatever was killed
\* or signalled on the way; it may only end it.
THEOREM AnsweredFirst == Spec => AnswerFirst
<1>1. TypeInv /\ AnswerInv /\ [Next]_vars
        => [op' = op /\ NeedsAnswer(disk) /\ ~NeedsAnswer(disk')
              => disk'.input \/ disk'.st \in Terminal]_vars
  BY AnswerHolds
<1>2. QED
  BY <1>1, TypeInvariant, AnswerInit, AnswerStep, PTL DEF Spec, AnswerFirst
================================================================================
