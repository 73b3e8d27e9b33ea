-------------------------------- MODULE Intake --------------------------------
(***************************************************************************)
(* How a process comes to the point of execution: run_issue up to the task *)
(* brief, resume up to _execute_ready_state or _publish_winner, and the    *)
(* answers an operator or an issue comment gives in between.               *)
(***************************************************************************)
EXTENDS RunCore

(***************************************************************************)
(* run_issue: create the run, claim the issue, analyse the task.           *)
(***************************************************************************)
Start(noPr) ==
  /\ pc = "idle" /\ disk = Absent
  /\ disk' = NewRun /\ mem' = NewRun
  /\ pc' = "created"
  /\ ctx' = [IdleCtx EXCEPT !.entry = "run", !.noPr = noPr]
  /\ Quiet /\ UNCHANGED ended

SelectIssue == /\ pc = "created"
               /\ Save([mem EXCEPT !.st = "Claiming"], "claiming")
               /\ Quiet

\* _dirty_workspace_preflight found changes outside .gg.
RefuseDirty == /\ pc = "claiming"
               /\ Fail
               /\ Quiet

\* claim_task: the work label and the claim comment.
Claim == /\ pc = "claiming"
         /\ Goto("claimed")
         /\ Effect(world)
         /\ UNCHANGED <<op, used>>

\* Claiming -> Queued -> RunStarted -> TaskAnalysis, with one write.
StartAnalysis == /\ pc = "claimed"
                 /\ Save([mem EXCEPT !.st = "TaskAnalysis"], "analyze")
                 /\ Quiet

\* _refresh_task_analysis counts the attempt, writes and asks the agent.
Analyze == /\ pc = "analyze"
           /\ Save(mem, "analyzing")
           /\ Quiet

\* The brief is good: run_issue goes on to execution, resume to recovery.
BriefReady ==
  /\ pc = "analyzing"
  /\ IF ctx.entry = "run"
       THEN Save([mem EXCEPT !.brief = TRUE, !.st = "ReadyForExecution"], "select")
       ELSE Go("recover", [mem EXCEPT !.brief = TRUE], ctx)
  /\ Quiet

\* _block_on_task_analysis: the brief has open questions.
BriefBlocked ==
  /\ pc = "analyzing"
  /\ SaveReturn([mem EXCEPT !.st = "Blocked", !.brief = TRUE, !.wait = FALSE,
                            !.asks = TRUE,
                            !.resumeTo = IF mem.st = "Blocked" /\ @ # None THEN @
                                         ELSE "TaskAnalysis"])
  /\ Quiet

\* _handle_context_too_large, under either policy.
ContextTooLarge ==
  /\ pc = "analyzing"
  /\ \/ Fail
     \/ SaveReturn([mem EXCEPT !.st = "Blocked", !.brief = TRUE, !.asks = FALSE])
  /\ Quiet

(***************************************************************************)
(* resume: a new process loads the run and decides where to take it up.    *)
(***************************************************************************)
StartResume(noPr) ==
  /\ pc = "idle" /\ disk # Absent /\ disk.st \notin Terminal
  /\ used.resumes < MaxResumes /\ Spend("resumes")
  /\ Go("loaded", disk, [IdleCtx EXCEPT !.entry = "resume", !.noPr = noPr])
  /\ UNCHANGED <<op, world>>

Waiting == {"Blocked", "NeedsInput"}

MissingBrief == /\ pc = "loaded" /\ ~mem.brief
                /\ Fail
                /\ Quiet

\* blocked_until is still ahead: write the plan and come back later.
WaitLonger == /\ pc = "loaded" /\ mem.brief /\ mem.st \in Waiting /\ mem.wait
              /\ SaveReturn(mem)
              /\ Quiet

\* _transition_after_input, which is also how provide moves the run.
AfterInput == IF mem.st = "NeedsInput" THEN "AgentRunning"
              ELSE IF mem.resumeTo = None THEN "TaskAnalysis" ELSE mem.resumeTo

Answered == [mem EXCEPT !.st = AfterInput, !.input = TRUE,
                        !.resumeTo = None, !.wait = FALSE]

\* _ingest_issue_comment_input: somebody answered in a comment.
TakeComment == /\ pc = "loaded" /\ mem.brief /\ mem.st \in Waiting
               /\ used.inputs < MaxInputs /\ Spend("inputs")
               /\ IF CanTransition(mem.st, AfterInput) THEN Save(Answered, "answered")
                  ELSE Break
               /\ UNCHANGED <<op, world>>

\* No wait, or it is over, and no new comment; the run is loaded again.
NoComment == /\ pc = "loaded" /\ mem.brief /\ mem.st \in Waiting
             /\ Go("answered", disk, ctx)
             /\ Quiet

\* Faulty variant: only NeedsInput waits.
StillWaitingCandidate == mem.st = "NeedsInput"

\* _waiting_for_input without an answer: write the plan and return.
StillWaiting == mem.st = "NeedsInput" \/ (mem.st = "Blocked" /\ mem.asks)

AskAgain == /\ pc = "answered" /\ StillWaiting /\ ~mem.input
            /\ SaveReturn(mem)
            /\ Quiet

\* An answer given since the first analysis makes resume analyse again.
Reconsider ==
  /\ \/ pc = "loaded" /\ mem.brief /\ mem.st \notin Waiting
     \/ pc = "answered" /\ ~(StillWaiting /\ ~mem.input)
  /\ Goto(IF mem.input THEN "analyze" ELSE "recover")
  /\ Quiet

\* _write_resume_plan for a run that was publishing, then _resume_publishing.
ResumePublishing == /\ pc = "recover" /\ mem.st = "OutcomePublishing"
                    /\ Save(mem, "republish")
                    /\ Quiet

Republish == /\ pc = "republish"
             /\ IF mem.winner = 0 THEN Fail ELSE Goto("publish")
             /\ Quiet

\* Any other run executes again: its running candidates were interrupted.
PlanRecovery == /\ pc = "recover" /\ mem.st # "OutcomePublishing"
                /\ Save(mem, "recovering")
                /\ Quiet

Recover ==
  /\ pc = "recovering"
  /\ IF mem.st = "ReadyForExecution"
       THEN Go("select", [mem EXCEPT !.running = 0], ctx)
       ELSE Save([mem EXCEPT !.st = "ReadyForExecution", !.running = 0], "select")
  /\ Quiet

(***************************************************************************)
(* provide: the operator answers, under the lock on the issue.             *)
(***************************************************************************)
StartProvide == /\ pc = "idle" /\ disk.st \in Waiting
                /\ used.inputs < MaxInputs /\ Spend("inputs")
                /\ Go("provided", disk, [IdleCtx EXCEPT !.entry = "provide"])
                /\ UNCHANGED <<op, world>>

Provide == /\ pc = "provided"
           /\ IF CanTransition(mem.st, AfterInput) THEN SaveReturn(Answered) ELSE Break
           /\ Quiet

\* The platform is asked before, in and after the claim and when a run is resumed.
IntakeTrouble == /\ pc = "loaded" => mem.brief
                 /\ Trouble({"claiming", "claimed", "analyzing", "loaded"},
                            {"claiming", "claimed", "loaded"})

IntakeStep ==
  \/ SelectIssue \/ RefuseDirty \/ Claim \/ StartAnalysis
  \/ Analyze \/ BriefReady \/ BriefBlocked \/ ContextTooLarge
  \/ MissingBrief \/ WaitLonger \/ TakeComment \/ NoComment \/ AskAgain
  \/ Reconsider \/ ResumePublishing \/ Republish \/ PlanRecovery \/ Recover
  \/ Provide \/ IntakeTrouble
===============================================================================
