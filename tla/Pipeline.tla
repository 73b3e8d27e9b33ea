------------------------------- MODULE Pipeline -------------------------------
(***************************************************************************)
(* One run of src/gg/orchestrator/pipeline.py, whole: at most one process  *)
(* at a time holds the lock on the issue and takes the run through intake, *)
(* execution and publishing; the operator cancels and retries without that *)
(* lock; processes are killed, signalled, refused by git, the platform or  *)
(* the rate limiter, and the run is resumed.                               *)
(***************************************************************************)
EXTENDS Intake, Execution, Publishing

(***************************************************************************)
(* The operator: gg cancel and gg retry load the run, decide, and write    *)
(* the copy they loaded.                                                   *)
(***************************************************************************)
Load(kind, most) == /\ op = NoOp /\ disk # Absent
                    /\ used[most] < (IF most = "cancels" THEN MaxCancels ELSE MaxRetries)
                    /\ Spend(most)
                    /\ op' = [kind |-> kind, copy |-> disk]
                    /\ UNCHANGED <<disk, mem, pc, ctx, world, ended>>

CancelLoad == disk.st \notin Terminal /\ Load("cancel", "cancels")

\* The run is in the hands of candidates or of a publication: only ask.
Asks(r) == r.running > 0 \/ (r.st = "OutcomePublishing" /\ r.step \notin {"None", "started"})

CancelWrite ==
  /\ op.kind = "cancel"
  /\ LET r == IF Asks(op.copy)
                THEN [op.copy EXCEPT !.cancel = TRUE, !.asks = FALSE]
                ELSE [op.copy EXCEPT !.st = "Cancelled", !.asks = FALSE]
         legal == (Asks(op.copy) \/ CanTransition(op.copy.st, "Cancelled")) /\ ~Refuses(r)
     IN /\ disk' = IF legal THEN r ELSE disk
  /\ op' = NoOp
  /\ UNCHANGED <<mem, pc, ctx, world, used, ended>>

\* Faulty variant: the attempt budget is not consulted.
CanRetryAlways(r) == r.st \in {"AgentRunning", "ResultEvaluation"}

\* Only a run that is executing gets a new attempt, while there are any.
CanRetry(r) == r.st \in {"AgentRunning", "ResultEvaluation"} /\ r.attempt < MaxAttempts

RetryLoad == CanRetry(disk) /\ Load("retry", "retries")

RetryWrite ==
  /\ op.kind = "retry"
  /\ LET r == [op.copy EXCEPT !.running = 0, !.attempt = @ + 1,
                              !.st = "ReadyForExecution"]
     IN disk' = IF Refuses(r) THEN disk ELSE r
  /\ op' = NoOp
  /\ UNCHANGED <<mem, pc, ctx, world, used, ended>>

Operator == CancelLoad \/ CancelWrite \/ RetryLoad \/ RetryWrite

\* A command of the operator that becomes the process with the lock.
Command == \E noPr \in Modes : Start(noPr) \/ StartResume(noPr)

ProcessStep == IntakeStep \/ ExecutionStep \/ PublishingStep

Next == Command \/ StartProvide \/ ProcessStep \/ Operator \/ Crash \/ Signal

Spec == Init /\ [][Next]_vars

\* A process that is not killed goes on: git, the platform, the agents and the
\* verification commands all run under timeouts.
FairSpec == Spec /\ WF_vars(ProcessStep)

-----------------------------------------------------------------------------
(***************************************************************************)
(* Properties.                                                             *)
(***************************************************************************)

Labels ==
  {"idle", "created", "claiming", "claimed", "analyze", "analyzing", "loaded",
   "answered", "provided", "recover", "recovering", "republish", "select", "selected",
   "loop", "plan", "planned", "batch", "update", "merge", "record", "evaluate",
   "evaluated", "publish", "publishing", "local", "reuse", "preflight", "integrate",
   "integrated", "apply", "verify", "commit", "commits", "repair", "repairing",
   "pushCheck", "push", "pushed", "prCheck", "pr", "prOpened", "prFound",
   "reviewCheck", "outcome", "gate", "comment", "commented", "finishCheck",
   "finish", "finished", "complete"}

\* Every field of the run and of its process keeps its type; in particular no
\* count of running candidates falls below zero as results are recorded.
TypeOK == /\ {disk, mem, op.copy, ctx.copy} \subseteq Run
          /\ pc \in Labels
          /\ ctx.entry \in {None, "run", "resume", "provide"}
          /\ {ctx.todo, ctx.planned, ctx.done, ctx.updates} \subseteq Nat
          /\ world.wt \in Nat /\ world.content \in Nat /\ world.late \in Nat
          /\ DOMAIN world.pushed \subseteq DOMAIN world.tips

\* No more than one pull request is opened for a run, however often its publication
\* is interrupted and resumed: the url is remembered, or found by the branch.
OnePullRequest == Len(world.prs) <= 1

\* What is on the remote passed the verification in the integration worktree,
\* whatever was reset, repaired or resumed on the way.
PushedIsVerified == DOMAIN world.pushed \subseteq world.good

\* publishing_step never runs ahead of the side effect it records: a later process
\* that trusts it skips nothing that was not done.
StepsAreTrue ==
  /\ disk.step \in CommittedSteps => /\ disk.integ \in DOMAIN world.tips
                                     /\ world.tips[disk.integ] # 0
  /\ disk.step \in CommittedSteps \ {"committed"} => disk.integ \in DOMAIN world.pushed
  /\ disk.step \in {"pr_created", "result_commented"} => HasPR(disk.pr)
  /\ disk.step = "result_commented" => world.commented

\* A run published with a pull request, never throttled and never answered, completes
\* only with the patch of the winner its evaluation names pushed, in a pull request,
\* and reported on the issue.
PublishedIsSelected ==
  disk.st = "Completed" /\ used.throttles = 0 /\ used.inputs = 0
    => /\ HasPR(disk.pr) /\ world.commented
       /\ disk.winner # 0
       /\ world.pushed[disk.pr] = disk.winner

\* After state.json says the run is over, a process makes at most one more outside
\* effect: it looks at the latest state, or writes and is refused, before the next.
AtMostOneLateEffect == world.late <= 1

\* Candidate attempts never exceed the budget, whether a new one comes from the
\* loop, from the repair of a publication or from gg retry.
AttemptBudget == disk.attempt <= MaxAttempts

\* Until a signal is handled, a run that says it was evaluated records no candidate
\* as running but those that worker updates added to an old copy that lacked them.
QuiescentWhenEvaluated ==
  /\ used.signals = 0
  /\ disk.st \in {"ResultEvaluation", "OutcomePublishing", "Completed"}
  => disk.running <= used.strays

\* A process takes a run that asked a question further only with an answer, or ends
\* it.  (The write of an old copy by gg cancel can undo the question itself.)
NeedsAnswer(r) == r.st = "NeedsInput" \/ (r.st = "Blocked" /\ r.asks /\ ~r.input)

AnswerFirst == [][op' = op /\ NeedsAnswer(disk) /\ ~NeedsAnswer(disk')
                    => disk'.input \/ disk'.st \in Terminal]_vars

\* Every command returns: the loops over attempts, repairs and candidates end.
EveryCommandEnds == pc # "idle" ~> pc = "idle"

-----------------------------------------------------------------------------
(***************************************************************************)
(* The inductive invariants of the proofs.  TypeInv: what TypeOK and        *)
(* AttemptBudget rest on.                                                  *)
(***************************************************************************)
Ctx == [entry : {None, "run", "resume", "provide"}, noPr : BOOLEAN,
        todo : Nat, planned : Nat, done : Nat, found : {"none", "winner", "input"},
        copy : Run, updates : Nat, shutdown : BOOLEAN]

\* What holds of every copy of the run, wherever it is kept.
Live(r) == r \in Run /\ r.st # NoRun /\ r.attempt \in 1..MaxAttempts

Sound(r) == r = Absent \/ Live(r)

\* What a process with m in memory and c in its locals has reached at l: a run,
\* attempts left, candidates recorded as running, a round and a winner.
At(l, m, c) ==
  /\ l # "idle" => m.st # NoRun
  /\ l = "repairing" => m.attempt < MaxAttempts
  /\ l \in {"plan", "planned", "batch", "update"} => /\ c.planned <= m.running
                                                     /\ c.planned > 0 => m.round # 0
  /\ l = "planned" => c.todo > 0
  /\ l \in {"merge", "record"} => c.done <= m.running
  /\ l = "record" => c.done > 0
  /\ l \in {"merge", "record", "evaluate"} /\ c.found = "winner" => m.round # 0
  /\ l = "evaluated" /\ c.found = "winner" => m.winner # 0
  /\ l \in {"publish", "publishing", "preflight", "integrate", "integrated"}
       => m.winner # 0
  /\ l = "update" => c.copy # Absent
  /\ l \in {"apply", "verify", "commit", "commits", "pushCheck", "push"} => m.integ # 0

ProcessInv == /\ Sound(disk) /\ Sound(mem)
              /\ pc # "idle" => disk # Absent
              /\ ctx \in Ctx /\ Sound(ctx.copy)
              /\ pc \in Labels /\ At(pc, mem, ctx)

OperatorInv == /\ op \in [kind : {None, "cancel", "retry"}, copy : Run]
               /\ op.kind # None => Live(op.copy)
               /\ op.kind = "retry" => op.copy.attempt < MaxAttempts

WorldFields == {"wt", "content", "checked", "tips", "good", "pushed", "prs",
                "commented", "late"}

WorldInv == /\ DOMAIN world = WorldFields
            /\ world = [f \in WorldFields |-> world[f]]
            /\ {world.wt, world.content, world.late} \subseteq Nat
            /\ world.wt \in DOMAIN world.tips \cup {0}
            /\ DOMAIN world.pushed \subseteq DOMAIN world.tips

TypeInv == ProcessInv /\ OperatorInv /\ WorldInv

(***************************************************************************)
(* What PushedIsVerified rests on.  A copy of the run that says committed  *)
(* says it of a verified branch, even a stale one: no branch ever ceases   *)
(* to be verified, because nothing is committed without a verification in  *)
(* the worktree of that branch.                                            *)
(***************************************************************************)
Truthful(r, w) == r.step \in CommittedSteps => r.integ \in w.good

\* What has been done to the world w when a process with m and c has reached l.
Done(l, m, c, w) ==
  /\ l = "integrated" => w.wt = m.winner
  /\ l \in {"apply", "verify", "commit"} => w.wt = m.integ
  /\ l = "commit" => w.checked
  /\ l = "commits" => m.integ \in w.good
  /\ l \in {"reuse", "pushCheck", "push", "pushed", "prCheck", "pr", "prOpened",
            "prFound", "reviewCheck", "comment", "commented"} => m.step \in CommittedSteps
  /\ l = "local" => c.noPr
  /\ l \in {"outcome", "gate"} => c.noPr \/ m.step \in CommittedSteps

\* Only verified branches have commits, and only they are on the remote.
Backed(w) == /\ \A b \in DOMAIN w.tips : w.tips[b] # 0 => b \in w.good
             /\ DOMAIN w.pushed \subseteq w.good

VerifiedInv == /\ \A r \in {disk, mem, ctx.copy, op.copy} : Truthful(r, world)
               /\ Done(pc, mem, ctx, world)
               /\ Backed(world)

(***************************************************************************)
(* What AtMostOneLateEffect rests on.  After an effect a process is at one *)
(* of these places: from there it looks at the latest state or writes a    *)
(* run that is not over, which is refused if the run on disk is.           *)
(***************************************************************************)
AfterEffect == {"idle", "claimed", "integrated", "commits", "repairing", "pushed",
                "prOpened", "prFound", "commented", "finished"}

\* Here a process may have read a run that is over, and not yet judged it.
Unjudged == {"idle", "answered", "analyze", "analyzing", "recover", "recovering"}

LateInv == /\ \/ world.late = 0
              \/ world.late = 1 /\ disk.st \in Terminal /\ pc \in AfterEffect
           /\ pc \notin Unjudged => mem.st \notin Terminal

(***************************************************************************)
(* What StepsAreTrue rests on.  Every copy of the run, even a stale one,   *)
(* claims of the world w only what was done and is never undone.           *)
(***************************************************************************)
Reported == {"pr_created", "result_commented"}

Opened(w, b) == \E i \in 1..Len(w.prs) : w.prs[i] = b

Claims(r, w) ==
  /\ r.step \in CommittedSteps => r.integ \in DOMAIN w.tips /\ w.tips[r.integ] # 0
  /\ r.step \in CommittedSteps \ {"committed"} => r.integ \in DOMAIN w.pushed
  /\ r.step \in Reported => r.pr # 0
  /\ r.pr # 0 => Opened(w, r.pr)
  /\ r.step = "result_commented" => w.commented

\* What has been done to the world w when a process with m and c has reached l.
Made(l, m, c, w) ==
  /\ l \in {"integrate", "integrated", "apply", "verify", "commit"} => m.winner # 0
  /\ l \in {"verify", "commit"} => w.content # 0
  /\ l = "commits" => m.integ \in DOMAIN w.tips /\ w.tips[m.integ] # 0
  /\ l = "pushed" => m.integ \in DOMAIN w.pushed
  /\ l = "prCheck" => m.step # "committed"
  /\ l \in {"pr", "prOpened", "prFound"} => m.step = "branch_pushed"
  /\ l \in {"prOpened", "prFound"} => m.pr # 0
  /\ l \in {"outcome", "gate"} => c.noPr \/ m.step \in Reported
  /\ l \in {"comment", "commented", "reviewCheck"} => m.step \in Reported
  /\ l = "commented" => w.commented

StepsInv == /\ \A r \in {disk, mem, ctx.copy, op.copy} : Claims(r, world)
            /\ Made(pc, mem, ctx, world)
            /\ world.prs \in Seq(Nat) /\ 0 \notin DOMAIN world.tips

(***************************************************************************)
(* What OnePullRequest rests on, when nothing but the process and workers  *)
(* write the run.  Once a pull request is open, every copy that can still  *)
(* be written names it, or the branch it is found by.                      *)
(***************************************************************************)
LeftAlone == /\ op = NoOp
             /\ {"cancels", "retries"} \subseteq DOMAIN used
             /\ used.cancels = 0 /\ used.retries = 0

Knows(r, w) == \/ w.prs = <<>>
               \/ r.pr # 0
               \/ r.step = "branch_pushed" /\ r.integ = w.prs[1]

\* Here a process no longer finds a pull request by its branch.
Astray == {"preflight", "integrate", "integrated", "apply", "verify", "commit", "commits",
           "push", "pushed", "repair", "repairing", "finishCheck", "finish", "finished",
           "complete"}

OneInv == /\ LeftAlone /\ ~ctx.noPr
          /\ Len(world.prs) <= 1
          /\ disk = Absent => world.prs = <<>>
          /\ \A r \in {disk, mem, ctx.copy} \ {Absent} : Knows(r, world)
          /\ pc # "update" => ctx.copy = Absent
          /\ pc \in Astray => world.prs = <<>> \/ mem.pr # 0
          /\ pc \in {"reuse", "pushCheck", "prCheck", "pr"}
               => disk.step = mem.step /\ disk.integ = mem.integ

(***************************************************************************)
(* What QuiescentWhenEvaluated rests on, until a signal is handled: every  *)
(* copy of the run, even a stale one, that was evaluated has no candidate  *)
(* running but strays, and the process knows where it is how many it has.  *)
(* A process that takes the run over finds any number, and resets it or    *)
(* publishes.                                                              *)
(***************************************************************************)
Rests(r) == r.st \in {"ResultEvaluation", "OutcomePublishing", "Completed"}
              => r.running <= used.strays

Counting == {"plan", "planned", "batch", "update", "merge", "record"}
Taken == {"loaded", "answered", "provided", "recover", "recovering"}
Analysing == {"analyze", "analyzing"}

Counted(l, m, c) ==
  /\ l \in {"plan", "planned", "batch", "update"} => m.running <= c.planned + used.strays
  /\ l \in {"merge", "record"} => m.running <= c.done + used.strays
  /\ l \in Taken => c.entry # "run"
  /\ l = "provided" => m.st \in Waiting
  /\ l \in {"loop", "plan", "planned"} => m.st = "AgentRunning"
  /\ \/ m.running <= used.strays \/ l \in Counting \cup Taken
     \/ l \in Analysing /\ c.entry # "run"

Unsignalled == /\ ~ctx.shutdown /\ used.strays \in Nat
               /\ \A r \in {disk, mem, ctx.copy, op.copy} : Rests(r)
               /\ Counted(pc, mem, ctx)

RestInv == /\ {"signals", "strays"} \subseteq DOMAIN used
           /\ used.signals \in Nat
           /\ used.signals = 0 => Unsignalled

(***************************************************************************)
(* What PublishedIsSelected rests on, for a run that is not throttled and  *)
(* asks nothing.  What a copy says of its publication is of the winner its *)
(* evaluation names: a run leaves its publication with nothing published,  *)
(* or for good.                                                            *)
(***************************************************************************)
Undisturbed == /\ ~ctx.noPr
               /\ {"throttles", "inputs"} \subseteq DOMAIN used
               /\ used.throttles = 0 /\ used.inputs = 0

Delivered(r, w) == /\ Opened(w, r.pr) /\ w.commented
                   /\ r.winner # 0 /\ r.pr = r.winner /\ r.pr \in DOMAIN w.pushed

OfWinner(r, w) ==
  /\ ~r.input
  /\ r.st \notin {"OutcomePublishing"} \cup Terminal => r.step = "None" /\ r.pr = 0
  /\ r.st = "OutcomePublishing" =>
       /\ r.step \notin {"None", "started"} => r.integ = r.winner
       /\ r.step \in CommittedSteps \cup {"done_marked"} => r.winner \in DOMAIN w.tips
       /\ r.pr # 0 => /\ r.pr = r.winner
                      /\ r.step \in {"branch_pushed", "pr_created", "result_commented",
                                     "done_marked"}
       /\ r.step = "done_marked" => Delivered(r, w)
  /\ r.st = "Completed" => Delivered(r, w)

\* The places where a winner is being published, and those where none may be.
Publication == {"publishing", "reuse", "preflight", "integrate", "integrated", "apply",
                "verify", "commit", "commits", "repair", "repairing", "pushCheck", "push",
                "pushed", "prCheck", "pr", "prOpened", "prFound", "reviewCheck", "outcome",
                "gate", "comment", "commented", "finishCheck", "finish", "finished",
                "complete"}
Executing == {"created", "claiming", "claimed", "analyze", "analyzing", "recovering",
              "select", "selected", "loop", "plan", "planned", "batch", "update", "merge",
              "record", "evaluate", "evaluated"}

Publishes(l, m) ==
  /\ l \notin {"local", "provided"}
  /\ l \notin {"idle", "answered", "recover", "recovering"} => m.st \notin Terminal
  /\ l \in Executing => m.st # "OutcomePublishing"
  /\ l \in Publication => m.st = "OutcomePublishing"
  /\ l \in {"apply", "verify", "commit", "commits"} => m.integ = m.winner
  /\ l \in {"integrated", "apply", "verify", "commit", "commits", "repair", "repairing"}
       => m.pr = 0
  /\ l \in {"finishCheck", "finish", "finished"} => m.step = "result_commented"
  /\ l = "complete" => m.step = "done_marked"

\* A branch has the patch of the winner it is named after, or none.
Patched(w) == /\ \A b \in DOMAIN w.tips : w.tips[b] \in {0, b}
              /\ \A b \in DOMAIN w.pushed : w.pushed[b] = b

SelectedInv == /\ Undisturbed
               /\ \A r \in {disk, mem, ctx.copy, op.copy} : OfWinner(r, world)
               /\ mem.st \in Terminal => disk.st \in Terminal
               /\ op.kind = "retry" => op.copy.st \in {"AgentRunning", "ResultEvaluation"}
               /\ Publishes(pc, mem)
               /\ pc \in {"verify", "commit"} => world.content = mem.winner
               /\ Patched(world)

(***************************************************************************)
(* What AnswerFirst rests on.  Where somebody still has a copy of the run  *)
(* that asks, the copies a process can write have the answer, ask          *)
(* themselves, or are over: only an old copy of gg cancel or gg retry can  *)
(* lack it.                                                                *)
(***************************************************************************)
Told(r) == r = Absent \/ r.input \/ NeedsAnswer(r) \/ r.st \in Terminal

\* The places where a process has a run that asks, or is over, and no answer.
Pends(l, m) ==
  /\ NeedsAnswer(m) /\ ~m.input => l \in {"loaded", "answered", "provided"}
  /\ m.st \in Terminal /\ ~m.input => l \in {"answered", "recover", "recovering"}

AnswerInv ==
  /\ NeedsAnswer(disk) => Told(mem) /\ Told(ctx.copy)
  /\ NeedsAnswer(op.copy) => Told(disk) /\ Told(mem) /\ Told(ctx.copy)
  /\ NeedsAnswer(ctx.copy) => Told(mem)
  /\ Pends(pc, mem)
  /\ mem.st \in Terminal => disk.st \in Terminal
  /\ disk = Absent => op.copy = Absent
  /\ pc # "update" => ctx.copy = Absent
  /\ ctx.entry = "run" => /\ pc \notin Taken
                          /\ \A r \in {disk, mem, ctx.copy, op.copy} : ~NeedsAnswer(r)
===============================================================================
