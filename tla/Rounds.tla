--------------------------------- MODULE Rounds ---------------------------------
(***************************************************************************)
(* The rounds of candidates of one run, with what is in their worktrees:   *)
(* _execute_ready_state, executor.run, _run_candidate_attempt, the         *)
(* integration of the winner's patch and the repair after it fails.        *)
(* Cancelling, signals, the issue and the pull request are in Pipeline;    *)
(* here the process may die and be resumed, and the default branch moves.  *)
(* A candidate is numbered by the count of candidates started before it.   *)
(***************************************************************************)
EXTENDS Patch, Verification, FinalGate, Sequences

CONSTANTS Candidates, RepairCandidates,  \* runtime.candidates, repair_candidates
          MaxParallel,                   \* runtime.max_parallel_candidates
          MaxAttempts, MaxTotal,         \* max_attempts, max_total_candidates_per_run
          StopAfter,                     \* stop_if_no_progress_after_rounds
          EscalateAfter, MaxEscalated,   \* the escalation policy
          Disallowed,                    \* the security rules in force
          Works,        \* what the setup command and then an agent may do: the files
                        \* each writes, and those the agent stages
          Spoils,       \* what a verification may write
          Merges,       \* what the default branch may come to meanwhile
          Baselines,    \* what the checks of the base commit may come to
          Checkouts,    \* the texts of the project's own checkout
          Dismissals,   \* the findings people have dismissed
          Manifested,   \* the sources of prompts recorded, if any were
          Installed,    \* those that are installed
          MaxCrashes, MaxResumes         \* bounds of the model

ASSUME RoundsAssumption ==
  /\ {Candidates, RepairCandidates, MaxParallel, MaxAttempts, MaxTotal, StopAfter} \subseteq Nat \ {0}
  /\ {EscalateAfter, MaxEscalated, MaxCrashes, MaxResumes} \subseteq Nat
  /\ Disallowed \subseteq DOMAIN Forbidden
  /\ Works \subseteq [setup : SUBSET Files, wrote : SUBSET Files, staged : SUBSET Files]
  /\ Spoils \subseteq SUBSET Files /\ Merges \subseteq Tree

VARIABLES run,       \* the fields of state.json the rounds use
          pc,        \* where the process is
          round,     \* the candidates of this round
          past,      \* the best score of the process's earlier records
          allowed,   \* how many candidates the disk allows
          upstream,  \* the tree of the default branch
          integ,     \* the integration worktree
          left,      \* what is left of the bounds
          seen       \* ghost: how the evaluated rounds compare, what was rejected

vars == <<run, pc, round, past, allowed, upstream, integ, left, seen>>

None == "none"
NoScore == -1000

Terminal == {"Completed", "TerminalFailure"}

Init ==
  /\ run = [st |-> "ReadyForExecution", attempt |-> 1, started |-> 0, best |-> NoScore,
            stuck |-> 0, used |-> 0, marked |-> FALSE, step |-> None, error |-> None,
            winner |-> <<>>, baseline |-> <<>>, base |-> Base]
  /\ pc = "select" /\ round = <<>> /\ past = NoScore /\ allowed = 0
  /\ upstream = Base /\ integ = <<>>
  /\ left = [crashes |-> MaxCrashes, resumes |-> MaxResumes]
  /\ seen = [top |-> NoScore, dry |-> 0, rejected |-> {}]

\* The run is written and the process goes on at p.
Save(r, p) == run' = r /\ pc' = p

\* ... or returns; what it had in memory is gone.
Return(r) == /\ Save(r, "idle")
             /\ round' = <<>> /\ past' = NoScore /\ allowed' = 0

FailRun(code) == Return([run EXCEPT !.st = "TerminalFailure", !.error = code])

InRounds  == UNCHANGED <<upstream, integ, left, seen>>
InMemory  == UNCHANGED <<round, past, allowed>>

-----------------------------------------------------------------------------
(***************************************************************************)
(* Before the loop: agent, sandbox, disk, baseline.                        *)
(***************************************************************************)
SelectBlocked == /\ pc = "select"
                 /\ Return([run EXCEPT !.st = "Blocked"])
                 /\ InRounds

\* _resource_preflight may allow fewer candidates than configured, never none.
AllowedCandidates == 1..Candidates

RunCandidates ==
  /\ pc = "select"
  /\ allowed' \in AllowedCandidates
  /\ \E b \in (IF run.baseline = <<>> THEN {<<c>> : c \in Baselines} ELSE {run.baseline}) :
       Save([run EXCEPT !.st = "AgentRunning", !.baseline = b], "loop")
  /\ round' = <<>> /\ past' = NoScore
  /\ InRounds

RuntimeLimit == /\ pc = "loop"
                /\ FailRun("run_timeout")
                /\ InRounds

\* _consume_escalation_marker: the round is escalated, and that is counted.
BeginRound ==
  /\ pc = "loop"
  /\ Save([run EXCEPT !.marked = FALSE, !.used = IF run.marked THEN @ + 1 ELSE @], "launch")
  /\ InMemory /\ InRounds

\* AgentRunning -> Blocked is refused, and breaks the run.
AgentGone == /\ pc = "launch"
             /\ FailRun("pipeline_error") \/ Return(run)
             /\ InRounds

BatchSize == IF run.attempt = 1 THEN SmallerOf(Candidates, allowed) ELSE RepairCandidates

\* Faulty variant: _runtime_limit_error without next_candidates.
WithinLimitLate(n) == run.started <= MaxTotal

WithinLimit(n) == run.started + n <= MaxTotal

CandidateLimit == /\ pc = "launch" /\ ~WithinLimit(BatchSize)
                  /\ FailRun("candidate_limit_exceeded")
                  /\ InRounds

\* Each candidate is counted and written before any of them starts.
Plan ==
  /\ pc \in {"launch", "plan"}
  /\ pc = "launch" => WithinLimit(BatchSize)
  /\ LET index == IF pc = "launch" THEN 1 ELSE Len(round) + 1
         new   == [phase |-> "planned", id |-> run.started + 1, index |-> index]
     IN /\ round' = IF pc = "launch" THEN <<new>> ELSE Append(round, new)
        /\ Save([run EXCEPT !.started = @ + 1], IF index = BatchSize THEN "batch" ELSE "plan")
  /\ UNCHANGED <<past, allowed>> /\ InRounds

-----------------------------------------------------------------------------
(***************************************************************************)
(* One candidate: its worktree, the setup, the agent in the sandbox.       *)
(***************************************************************************)

\* What an agent's run leaves: exit status and reply of the sandboxed command.
Generations == [exit : {"passed", "failed", "timeout"}, reply : {"", "done", "question"}]

\* _generate_in_sandbox: a failed command with some output still counts.
Raises(g) == g.exit = "timeout" \/ (g.exit = "failed" /\ g.reply = "")

\* What executor.run reports of the files and the patch of worktree w.
Reported(w, status) ==
  CASE status = "setup_failed" -> [listed |-> Listed(w), patch |-> {}]
    [] status = "raised"       -> [listed |-> {}, patch |-> {}]
    [] OTHER                   -> [listed |-> Listed(w), patch |-> PatchOf(w)]

\* The status of a candidate whose agent returned: the question counts only
\* when no file is listed, whoever wrote it.
StatusOf(w, g, full) == IF full THEN "failed"
                        ELSE IF Listed(w) # {} THEN "success"
                        ELSE IF g.reply = "question" THEN "needs_input" ELSE "failed"

\* The worktree after the setup command, and after the agent.
SetUp(a) == WriteFiles(Checkout(Base), a.setup, "edited")
Worked(a) == Stage(WriteFiles(SetUp(a), a.wrote, "edited"), a.staged)

Generated(w, status) ==
  [w |-> w, status |-> status, reported |-> Reported(w, status)]

Attempts ==
     {Generated(SetUp(a), "setup_failed") : a \in Works}
  \cup {Generated(Worked(a), IF Raises(g) THEN "raised" ELSE StatusOf(Worked(a), g, full)) :
          a \in Works, g \in Generations, full \in BOOLEAN}

\* The pool takes the candidates in order, so many at a time.
CanStart(i) == /\ \A j \in 1..(i - 1) : round[j].phase # "planned"
               /\ Cardinality({j \in DOMAIN round : round[j].phase = "generated"}) < MaxParallel

RunAgent(i) ==
  /\ pc = "batch" /\ round[i].phase = "planned" /\ CanStart(i)
  /\ \E a \in Attempts :
       round' = [round EXCEPT ![i] = [phase |-> "generated", id |-> @.id, index |-> @.index, did |-> a]]
  /\ UNCHANGED <<run, pc, past, allowed>> /\ InRounds

\* git worktree add fails, the sandbox is gone, or git's output is no text: the
\* exception ends the batch.
BatchBreaks == /\ pc = "batch" /\ \E i \in DOMAIN round : round[i].phase # "done"
               /\ FailRun("pipeline_error") \/ Return(run)
               /\ InRounds

-----------------------------------------------------------------------------
(***************************************************************************)
(* _run_candidate_attempt: the verification of a candidate, and whether it *)
(* changed what it verified.                                               *)
(***************************************************************************)
BaselineChecks == run.baseline[1]

\* What a verification may come to: passed or not, and how many commands fail.
VerdictsOf == [b \in Baselines |-> {[passed |-> VerificationPassed(k, b),
                                     failed |-> Cardinality(Failing(k))] : k \in Results}]

Verdicts == VerdictsOf[BaselineChecks]

\* Faulty variant: the lists of files are compared, not the patches.
MutatedList(before, w) == Listed(w) # before.listed

\* verification_mutated_worktree: against what the executor reported.
Mutated(before, w) == Listed(w) # before.listed \/ PatchOf(w) # before.patch

\* effective_status: a success that fails a test of the pipeline's own.
Effective(c, passed, mutated, w) ==
  IF c.status # "success" THEN IF c.status = "raised" THEN "failed" ELSE c.status
  ELSE IF ~passed \/ mutated \/ Violations(Listed(w), Disallowed) # {} THEN "failed"
  ELSE "success"

\* What is kept of a candidate that may win: its patch, and the worktree before and
\* after the verification.  Nothing reads those of the others.
Proof(before, after) == <<[patch |-> PatchOf(after), before |-> before, after |-> after]>>

VerifyCandidate(i) ==
  /\ pc = "batch" /\ round[i].phase = "generated"
  /\ LET c       == round[i].did
         skipped == c.status = "setup_failed" IN
     \E v \in (IF skipped THEN {[passed |-> TRUE, failed |-> 0]} ELSE Verdicts) :
     \E fs \in (IF skipped THEN {{}} ELSE Spoils) :
       LET w == WriteFiles(c.w, fs, "spoilt")
           m == Mutated(c.reported, w)
           r == [phase |-> "done", id |-> round[i].id, index |-> round[i].index,
                 status |-> Effective(c, v.passed, m, w),
                 passed |-> v.passed, mutated |-> m, failed |-> v.failed,
                 size |-> Cardinality(Listed(w)), proof |-> <<>>]
       IN round' = [round EXCEPT ![i] =
                      IF Eligible(r) THEN [r EXCEPT !.proof = Proof(c.w, w)] ELSE r]
  /\ UNCHANGED <<run, pc, past, allowed>> /\ InRounds

-----------------------------------------------------------------------------
(***************************************************************************)
(* The evaluation of the round and what follows.                           *)
(***************************************************************************)
Records == {round[i] : i \in DOMAIN round}

TopScore(rs) == Max({Score(r) : r \in rs})

LargerOf(a, b) == IF a > b THEN a ELSE b

\* Faulty variant: every round without a winner counts.
StuckAlways(current) == run.stuck + 1

\* _record_no_progress_and_should_stop: against the score of the round before.
Stuck(current) == IF run.best # NoScore /\ current <= run.best THEN run.stuck + 1 ELSE 0

\* The round in the ghost: did a candidate of it beat every earlier round?
Compared == LET own == TopScore(Records) IN
            [seen EXCEPT !.top = LargerOf(@, own),
                         !.dry = IF seen.top # NoScore /\ own <= seen.top THEN @ + 1 ELSE 0]

\* What the artifacts keep of the winner, for the gate and the publication.
Kept(w) == [id |-> w.id, status |-> w.status, passed |-> w.passed, mutated |-> w.mutated,
            patch |-> w.proof[1].patch, before |-> w.proof[1].before,
            after |-> w.proof[1].after]

\* The evaluation looks at all the records of this process.
Evaluate ==
  /\ pc = "batch" /\ \A i \in DOMAIN round : round[i].phase = "done"
  /\ LET winners == Winners(Records)
         current == LargerOf(past, TopScore(Records))
         stuck   == Stuck(current)
         r       == [run EXCEPT !.st = "ResultEvaluation"]
     IN IF winners # {}
          THEN /\ Save([r EXCEPT !.stuck = 0, !.winner = <<Kept(CHOOSE w \in winners : TRUE)>>],
                       "evaluated")
               /\ InMemory /\ UNCHANGED seen
          ELSE /\ seen' = Compared
               /\ IF stuck >= StopAfter
                    THEN Return([r EXCEPT !.stuck = stuck, !.best = current, !.winner = <<>>,
                                          !.st = "TerminalFailure", !.error = "no_progress"])
                    ELSE /\ Save([r EXCEPT !.stuck = stuck, !.best = current, !.winner = <<>>],
                                 "evaluated")
                         /\ past' = current /\ UNCHANGED <<round, allowed>>
  /\ UNCHANGED <<upstream, integ, left>>

Asked == \E r \in Records : r.status = "needs_input"

AskInput == /\ pc = "evaluated" /\ run.winner = <<>> /\ Asked
            /\ Return([run EXCEPT !.st = "NeedsInput"])
            /\ InRounds

\* _should_escalate_next_attempt.
Escalates == run.used < MaxEscalated /\ run.attempt >= EscalateAfter

NextAttempt ==
  /\ pc = "evaluated" /\ run.winner = <<>> /\ ~Asked /\ run.attempt < MaxAttempts
  /\ Save([run EXCEPT !.st = "AgentRunning", !.attempt = @ + 1, !.marked = @ \/ Escalates],
          "loop")
  /\ round' = <<>> /\ UNCHANGED <<past, allowed>> /\ InRounds

GiveUp == /\ pc = "evaluated" /\ run.winner = <<>> /\ ~Asked /\ run.attempt >= MaxAttempts
          /\ FailRun("candidate_failed")
          /\ InRounds

Publish == /\ pc = "evaluated" /\ run.winner # <<>>
           /\ Save([run EXCEPT !.st = "OutcomePublishing", !.step = "started"], "publish")
           /\ round' = <<>> /\ past' = NoScore /\ allowed' = 0
           /\ InRounds

-----------------------------------------------------------------------------
(***************************************************************************)
(* The winner's patch in an integration worktree of the default branch.    *)
(***************************************************************************)
Winner == run.winner[1]

\* The default branch cannot be fetched, or the base commit is gone from it.
PreflightFails == /\ pc = "publish" /\ run.step # "committed"
                  /\ FailRun("default_sync_failed")
                  /\ InRounds

\* _repair_after_publish_failure: a new attempt with new records, if there is one.
\* The evaluation that names the winner is not looked at again before the next one.
Rejected(code) ==
  /\ IF run.attempt < MaxAttempts
       THEN /\ Save([run EXCEPT !.st = "ReadyForExecution", !.step = None, !.attempt = @ + 1,
                                !.winner = <<>>], "select")
            /\ integ' = <<>>
       ELSE Save([run EXCEPT !.st = "TerminalFailure", !.error = code], "idle") /\ UNCHANGED integ
  /\ seen' = [seen EXCEPT !.rejected = @ \cup {Winner.id}]
  /\ InMemory /\ UNCHANGED <<upstream, left>>

EmptyPatch == /\ pc = "publish" /\ run.step # "committed" /\ Winner.patch = {}
              /\ Rejected("patch_conflict")

\* A publication that was interrupted before its commit was noted, verified or not,
\* starts again from the worktree it made, reset, on the commit that was based on.
Integrate ==
  /\ pc = "publish" /\ run.step # "committed" /\ Winner.patch # {}
  /\ LET new == run.step = "started" IN
     /\ Save([run EXCEPT !.step = "integration_created",
                         !.base = IF new THEN upstream ELSE @], "apply")
     /\ integ' = IF new THEN <<Checkout(upstream)>> ELSE <<Reset(integ[1])>>
  /\ InMemory /\ UNCHANGED <<upstream, left, seen>>

Apply == /\ pc = "apply" /\ ~MustRefuse(integ[1], Winner.patch)
         /\ Save([run EXCEPT !.step = "patch_applied"], "verify")
         /\ integ' = <<Patched(integ[1], Winner.patch)>>
         /\ InMemory /\ UNCHANGED <<upstream, left, seen>>

ApplyFails == /\ pc = "apply"
              /\ MustRefuse(integ[1], Winner.patch) \/ MayRefuse(integ[1], Winner.patch)
              /\ Rejected("patch_conflict")

\* What the commands write here is not looked for.
VerifyIntegration ==
  /\ pc = "verify"
  /\ \E v \in Verdicts : v.passed
  /\ \E fs \in Spoils : integ' = <<WriteFiles(integ[1], fs, "spoilt")>>
  /\ Save([run EXCEPT !.step = "verified"], "commit")
  /\ InMemory /\ UNCHANGED <<upstream, left, seen>>

VerifyFails == /\ pc = "verify"
               /\ \E v \in Verdicts : ~v.passed
               /\ Rejected("patch_conflict")

\* commit_all: everything in the worktree.
AllCommitted(w) == Checkout(w.tree)

Commit == /\ pc = "commit" /\ Listed(integ[1]) # {}
          /\ Save([run EXCEPT !.step = "committed"], "publish")
          /\ integ' = <<AllCommitted(integ[1])>>
          /\ InMemory /\ UNCHANGED <<upstream, left, seen>>

NothingToCommit == /\ pc = "commit" /\ Listed(integ[1]) = {} /\ integ[1].head = run.base
                   /\ FailRun("empty_patch")
                   /\ InRounds

\* ... which is fine when an interrupted publication has committed before.
AlreadyCommitted == /\ pc = "commit" /\ Listed(integ[1]) = {} /\ integ[1].head # run.base
                    /\ Save([run EXCEPT !.step = "committed"], "publish")
                    /\ InMemory /\ InRounds

\* The branch is pushed, the pull request opened; then the final gate.
Gate ==
  /\ pc = "publish" /\ run.step = "committed"
  /\ \E checkout \in Checkouts, dismissed \in Dismissals, recorded \in Manifested :
       IF Blockers(Winner, Listed(Winner.after), {}, checkout, dismissed,
                   ManifestStatus(recorded, Installed)) = {}
         THEN Return([run EXCEPT !.st = "Completed"])
         ELSE FailRun("final_verification_failed")
  /\ InRounds

-----------------------------------------------------------------------------
(***************************************************************************)
(* The world: the default branch moves once, the process dies, while a     *)
(* verification writes in the integration worktree or between its commit   *)
(* and the note of it too, and is resumed.                                 *)
(***************************************************************************)
\* Only Integrate looks at the default branch: it need not move earlier.  What is
\* merged there may be the very change the winner makes.
Merge == /\ pc = "publish" /\ upstream = Base
         /\ upstream' \in Merges
         /\ UNCHANGED <<run, pc, round, past, allowed, integ, left, seen>>

Crash == /\ pc # "idle" /\ left.crashes > 0
         /\ Return(run)
         /\ integ' \in IF pc = "verify" THEN {<<WriteFiles(integ[1], fs, "spoilt")>> : fs \in Spoils}
                       ELSE IF pc = "commit" THEN {integ, <<AllCommitted(integ[1])>>}
                       ELSE {integ}
         /\ left' = [left EXCEPT !.crashes = @ - 1]
         /\ UNCHANGED <<upstream, seen>>

\* resume: publishing goes on with the selected candidate, all else starts over.
Resume ==
  /\ pc = "idle" /\ run.st \notin Terminal /\ left.resumes > 0
  /\ IF run.st = "OutcomePublishing" THEN Save(run, "publish")
     ELSE Save([run EXCEPT !.st = "ReadyForExecution", !.winner = <<>>], "select")
  /\ left' = [left EXCEPT !.resumes = @ - 1]
  /\ InMemory /\ UNCHANGED <<upstream, integ, seen>>

Process ==
  \/ SelectBlocked \/ RunCandidates \/ RuntimeLimit \/ BeginRound \/ AgentGone
  \/ CandidateLimit \/ Plan
  \/ \E i \in DOMAIN round : RunAgent(i) \/ VerifyCandidate(i)
  \/ BatchBreaks \/ Evaluate \/ AskInput \/ NextAttempt \/ GiveUp
  \/ Publish \/ PreflightFails \/ EmptyPatch \/ Integrate \/ Apply \/ ApplyFails
  \/ VerifyIntegration \/ VerifyFails
  \/ Commit \/ NothingToCommit \/ AlreadyCommitted \/ Gate

Next == Process \/ Merge \/ Crash \/ Resume

Spec == Init /\ [][Next]_vars

-----------------------------------------------------------------------------
(***************************************************************************)
(* Properties.                                                             *)
(***************************************************************************)

Selected == pc \in {"publish", "apply", "verify", "commit"} \/ run.st = "Completed"

\* Every variable has its type; in particular no count of the run goes below zero.
TypeOK ==
  /\ run.attempt \in 1..MaxAttempts /\ run.stuck \in 0..StopAfter
  /\ {run.started, run.used} \subseteq Nat /\ run.marked \in BOOLEAN
  /\ run.best \in {NoScore} \cup (-400..150)
  /\ \A w \in Range(run.winner) : w.patch \subseteq [file : Files, from : Content, to : Content]
  /\ allowed \in 0..Candidates /\ upstream \in Tree
  /\ \A w \in Range(integ) : {w.head, w.index, w.tree} \subseteq Tree

\* The worktrees hold the same, up to new files that read the same as texts.
Alike(v, w) == /\ v.head = w.head /\ v.index = w.index
               /\ \A f \in Files : v.tree[f] = w.tree[f] \/ f \in Lossy \cap Untracked(w)

\* The winner that is published passed every test of its own round: its recorded
\* patch is that of the worktree the verification ran on, the verification left
\* that worktree as it was, as far as texts tell, and no earlier publication of it
\* failed.
WinnerIsProven ==
  Selected => /\ run.winner # <<>> /\ Eligible(Winner) /\ Winner.id \notin seen.rejected
              /\ Winner.patch = PatchOf(Winner.before)
              /\ Alike(Winner.after, Winner.before)
              /\ Violations(Listed(Winner.before), Disallowed) = {}

\* Across rounds, repairs, crashes and resumes a run starts no more candidates and
\* escalates no more rounds than it is configured to.
WorkIsBounded == run.started <= MaxTotal /\ run.used <= MaxEscalated

\* A run is given up for want of progress only when none of its last StopAfter
\* evaluated rounds beat everything before them.
StopIsEarned == run.error = "no_progress" => seen.dry >= StopAfter

\* What the patch brings to the default branch, at the first attempt and after any
\* interruption: the tracked files the winner's worktree changed and did not stage,
\* as they were verified or merged with what the branch changed meanwhile, texts
\* that lose their line ends excepted, and nothing to any file the winner did not touch.
CarriedByPatch ==
  pc = "verify" =>
    LET w == Winner.before IN
    \A f \in Files :
      /\ f \in Unstaged(w) \ (Lossy \ Binary) =>
           \/ integ[1].tree[f] = w.tree[f]
           \/ integ[1].tree[f] = "merged" /\ integ[1].head[f] # w.index[f]
      /\ w.tree[f] = Base[f] => integ[1].tree[f] = integ[1].head[f]

\* What the README and the diagrams say of a publication: the winner's patch is
\* applied, that is every new file of its worktree arrives as it was verified.
NewFilesCarried ==
  pc = "verify" => \A f \in Untracked(Winner.after) : integ[1].tree[f] = Winner.after.tree[f]
================================================================================
