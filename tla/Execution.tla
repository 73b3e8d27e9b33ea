------------------------------- MODULE Execution -------------------------------
(***************************************************************************)
(* _execute_ready_state: the rounds of candidates, up to the choice of a   *)
(* winner.  A round plans its candidates one write each, runs them on      *)
(* worker threads that write state.json too, records their results one     *)
(* write each, and evaluates.                                              *)
(***************************************************************************)
EXTENDS RunCore

\* No agent, no sandbox or too little disk: the run waits for AgentSelection.
Unavailable(r) == [r EXCEPT !.st = "Blocked", !.resumeTo = "AgentSelection",
                            !.wait = FALSE, !.asks = FALSE]

SelectBlocked == /\ pc = "select"
                 /\ SaveReturn(Unavailable(mem))
                 /\ Quiet

\* _resource_preflight writes the run in AgentSelection.
SelectAgent == /\ pc = "select"
               /\ Save([mem EXCEPT !.st = "AgentSelection"], "selected")
               /\ Quiet

DiskShort == /\ pc = "selected"
             /\ SaveReturn(Unavailable(mem))
             /\ Quiet

\* The baseline is verified; written twice, the second time unchanged.
RunCandidates == /\ pc = "selected"
                 /\ Save([mem EXCEPT !.st = "AgentRunning"], "loop")
                 /\ Quiet

(***************************************************************************)
(* The head of the loop over attempts: limits, the agent, the plan.        *)
(***************************************************************************)
RuntimeLimit == /\ pc = "loop"
                /\ Fail
                /\ Quiet

\* The agent of this attempt is gone: AgentRunning -> Blocked is not in the table.
AgentGone == /\ pc = "loop"
             /\ IF CanTransition(mem.st, "Blocked") THEN SaveReturn(Unavailable(mem))
                ELSE Break
             /\ Quiet

LaunchRound == /\ pc = "loop"
               /\ \E n \in Batches :
                    SaveCtx(mem, "plan", [ctx EXCEPT !.todo = n, !.planned = 0])
               /\ Quiet

CandidateLimit == /\ pc = "plan" /\ ctx.planned = 0
                  /\ Fail
                  /\ Quiet

CheckPlan == /\ pc = "plan" /\ ctx.todo > 0
             /\ CheckCancel("planned", mem)

\* Faulty variant: the new candidate is not marked running.
PlanCandidateUnmarked ==
  /\ pc = "planned"
  /\ SaveCtx([mem EXCEPT !.planned = ctx.planned + 1,
                         !.round = IF ctx.planned = 0 THEN @ + 1 ELSE @],
             "plan",
             [ctx EXCEPT !.todo = @ - 1, !.planned = @ + 1])
  /\ Quiet

\* The next candidate gets its entry, status "running", before any is started.
PlanCandidate ==
  /\ pc = "planned"
  /\ SaveCtx([mem EXCEPT !.running = @ + 1, !.planned = ctx.planned + 1,
                         !.round = IF ctx.planned = 0 THEN @ + 1 ELSE @],
             "plan",
             [ctx EXCEPT !.todo = @ - 1, !.planned = @ + 1])
  /\ Quiet

StartBatch == /\ pc = "plan" /\ ctx.todo = 0
              /\ Go("batch", mem, [ctx EXCEPT !.updates = 0])
              /\ Quiet

(***************************************************************************)
(* _update_candidate_runtime_state, called by the worker threads one at a  *)
(* time: load, set the pid or the path of the candidate, write.  The lock  *)
(* is between workers: the operator can write before and in the middle.  A *)
(* run that gg cancel or gg retry loaded before the candidate was planned, *)
(* and wrote back since, lacks its entry: the worker adds one, as running. *)
(***************************************************************************)
Lacking(r) == IF r.round # mem.round THEN {TRUE}
              ELSE IF r.planned < ctx.planned THEN BOOLEAN
              ELSE {FALSE}

Added(r) == [r EXCEPT !.running = @ + 1, !.round = mem.round,
                      !.planned = IF r.round = mem.round THEN @ + 1 ELSE 1]

UpdateLoad ==
  /\ pc = "batch" /\ ctx.updates < MaxUpdates
  /\ \E lacking \in Lacking(disk) :
       /\ Go("update", mem, [ctx EXCEPT !.copy = IF lacking THEN Added(disk) ELSE disk,
                                        !.updates = @ + 1])
       /\ IF lacking THEN Spend("strays") ELSE UNCHANGED used
  /\ UNCHANGED <<op, world>>

\* A refused write fails the candidate, or the batch if it is the first update.
UpdateWrite ==
  /\ pc = "update"
  /\ IF Refuses(ctx.copy)
       THEN Break \/ Go("batch", mem, [ctx EXCEPT !.copy = Absent])
       ELSE /\ disk' = ctx.copy /\ mem' = mem /\ pc' = "batch"
            /\ ctx' = [ctx EXCEPT !.copy = Absent] /\ UNCHANGED ended
  /\ Quiet

\* The batch ends; after a signal some of the planned candidates never started.
BatchDone ==
  /\ pc = "batch"
  /\ \E n \in (IF ctx.shutdown THEN 0..ctx.planned ELSE {ctx.planned}) :
     \E f \in (IF n = 0 THEN {"none"} ELSE {"none", "winner", "input"}) :
       Go("merge", mem, [ctx EXCEPT !.done = n, !.found = f, !.planned = 0])
  /\ Quiet

\* A result is recorded: _merge_cancel_request reads the latest flag first.
MergeCancel == /\ pc = "merge" /\ ctx.done > 0
               /\ Go("record", [mem EXCEPT !.cancel = @ \/ disk.cancel], ctx)
               /\ Quiet

\* Faulty variant: the recorded candidate keeps its status.
RecordResultRunning == /\ pc = "record"
                       /\ SaveCtx(mem, "merge", [ctx EXCEPT !.done = @ - 1])
                       /\ Quiet

RecordResult == /\ pc = "record"
                /\ SaveCtx([mem EXCEPT !.running = @ - 1], "merge",
                           [ctx EXCEPT !.done = @ - 1])
                /\ Quiet

CheckRound == /\ pc = "merge" /\ ctx.done = 0
              /\ CheckCancel("evaluate", mem)

(***************************************************************************)
(* The evaluation of the round, and what follows from it.                  *)
(***************************************************************************)
Evaluated == [mem EXCEPT !.st = "ResultEvaluation",
                         !.winner = IF ctx.found = "winner" THEN mem.round ELSE 0]

Evaluate == /\ pc = "evaluate"
            /\ Save(Evaluated, "evaluated")
            /\ Quiet

NoProgress == /\ pc = "evaluate" /\ ctx.found # "winner"
              /\ SaveReturn(Failed(Evaluated))
              /\ Quiet

\* A candidate asks the operator: the old answer no longer counts.
AskInput == /\ pc = "evaluated" /\ ctx.found = "input"
            /\ SaveReturn([mem EXCEPT !.st = "NeedsInput", !.resumeTo = "AgentRunning",
                                      !.wait = FALSE, !.input = FALSE])
            /\ Quiet

NextAttempt == /\ pc = "evaluated" /\ ctx.found = "none" /\ mem.attempt < MaxAttempts
               /\ Save([mem EXCEPT !.attempt = @ + 1, !.st = "AgentRunning"], "loop")
               /\ Quiet

GiveUp == /\ pc = "evaluated" /\ ctx.found = "none" /\ mem.attempt >= MaxAttempts
          /\ Fail
          /\ Quiet

Winner == /\ pc = "evaluated" /\ ctx.found = "winner"
          /\ Goto("publish")
          /\ Quiet

\* git or the file system fails while a round is prepared or run.
ExecutionTrouble == Trouble({"select", "selected", "batch"}, {})

ExecutionStep ==
  \/ SelectBlocked \/ SelectAgent \/ DiskShort \/ RunCandidates
  \/ RuntimeLimit \/ AgentGone \/ LaunchRound \/ CandidateLimit
  \/ CheckPlan \/ PlanCandidate \/ StartBatch
  \/ UpdateLoad \/ UpdateWrite \/ BatchDone \/ MergeCancel \/ RecordResult
  \/ CheckRound \/ Evaluate \/ NoProgress
  \/ AskInput \/ NextAttempt \/ GiveUp \/ Winner
  \/ ExecutionTrouble
===============================================================================
