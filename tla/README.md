# gg orchestrator: TLA+ specifications

`gg` takes an issue from GitHub or GitLab, has coding agents work on it in
isolated worktrees, evaluates what they produce, publishes the best patch as a
pull request and reports on the issue. Everything it must remember between two
commands is in `.gg/runs/<run id>/`: `state.json` (the run) and
`pipeline.jsonl` (its event log). Processes are killed, signalled, throttled
and cancelled in the middle of that, and are expected to be resumable. That is
what this project specifies. Paths below are relative to the repository; `P` is
`src/gg/orchestrator/pipeline.py`, `S` is `src/gg/orchestrator/store.py`.

## 1. The system

| component | state | operations | interacts with |
|---|---|---|---|
| task states (`state.py`) | `state`, `transitions`, `last_error`, the publishing and candidate fields of `RunState` | `transition`, `recover_to`, `fail` | every command |
| run store (`store.py`, `logging.py`) | `state.json`, `pipeline.jsonl`, artifacts, `.gg/objects` | `create`, `write`, `load`, `_reconcile_event_log`, `clean_*` | one file per run, shared by all processes |
| locks (`lock.py`) | lock files with metadata | issue lock, run lock, queue lock, heartbeats, stale owners | `run`, `resume`, `provide` (issue); batches and `clean` (queue) |
| pipeline (`pipeline.py`) | the `RunState` object of one process, its locals | `run_issue`, `run_batch`, `resume`, `provide`, `retry`, `cancel`, `clean` | all the others |
| executor and sandbox (`executor.py`, `sandbox.py`) | candidate worktrees, agent processes | setup, run, pause on quota, terminate | worker threads of the pipeline |
| evaluation, verification (`evaluation.py`, `verification.py`) | none | the choice of a winner; checks with retries and a baseline | the pipeline |
| git (`git.py`) | worktrees, branches, the remote | worktree, diff, apply, commit, push | execution, publishing |
| platforms (`platforms/`) | issues, labels, comments, pull requests | claim, comment, find and open a pull request, board | intake, publishing, input by comment |
| rate limiter (`rate_limit.py`) | a row per bucket in sqlite | look, record, backoff | every call to a platform |
| gates (`protocol.py`, `review_gates.py`, `agent_patterns.py`, `prompt_manifest.py`) | artifacts, the recorded manifest | obligations, gates, final verification | publishing |
| task analysis (`task_analysis.py`, `context.py`) | task brief, snapshot | analyse, ask, measure the context | intake |
| cleaner (part of `S` and `P`) | `.gg/runs-archive` | finished runs, stale waiting runs, orphan worktrees, objects | the store, git |
| knowledge base (`knowledge/`, `git_history.py`) | an event log, compiled pages, a counter per engine | record, rebuild, search | a finished run, the prompts |
| memory and truth (`memory.py`, `truth.py`, `finding_feedback.py`) | memory files, the constitution, the sync state, verdicts | append, teach, sync, judge | a finished run, the operator, the final gate |
| the rest (configuration, prompts, plugins, doctor, report, CLI, generators) | files it generates | parsing, generation, projection | reads the store |

What is hard here, and what must hold anyway:

* **Store.** Several processes write one file; a write is a read, an atomic
  rename and some appends, and can be cut anywhere. The log must agree with the
  state, no transition may be lost, a finished run must stay as it is.
* **Intake and recovery.** A run can be left in any state. Every one must either
  be finished or lead on; a run that asked a question must wait for its answer;
  an issue gets one run.
* **Execution.** Worker threads, the operator and a signal handler write the run
  while the pipeline holds a copy. Counts of running candidates and of attempts
  must stay right; what is verified, what is recorded and what is published must
  be the same text.
* **Publishing.** Irreversible effects outside (push, pull request, comment), each
  followed by a record of it. Nothing may be published twice, unverified, or in
  the place of something else, and nothing after the run is over.
* **Cancel and retry** come at any time, without the lock on the issue.
* **Clean** removes what it listed earlier, next to runs that are killed and
  resumed.
* **Locks and the rate limiter.** Threads and processes read a file or a row,
  are overtaken, and write.
* **Knowledge and memory.** Nothing is locked, everything is read, changed and
  written back; a process may die in the middle of a line.

`PROJECT.json` lists each of these hazards at its line with the property for it.

## 2. The modules

```
RunState ---- RunHistory            (what state.json promises)
   |              ^ refinement
   +------- RunStore --- RunStore_proofs, MCRunStore
   |
   +------- RunCore -+- Intake -----+              +- MCPipeline
                     +- Execution --+-- Pipeline --+
                     +- Publishing -+              +- Pipeline_proofs --- Pushed_proofs

Evaluation --- FinalGate -+                      RateLimit --- Tracker -+- MCTracker
Verification -------------+- Rounds -+- MCRounds                        +- Tracker_proofs
Patch --------------------+          +- Rounds_proofs
                                                 Worktrees --- Cleaner --- Workspace -+- MCWorkspace
Locks -+- MCLocks                                                                     +- Workspace_proofs
       +- Locks_proofs

GitHistory -+- KnowledgeViews -+- Knowledge -+
Places -----+                  +- Search ----+- Learning -+- MCLearning
            +---------------------- Truth ---+            +- Learning_proofs
```

Each family looks at the same runs from another side, with the state that
decides there. They are not multiplied into one specification: what a family
takes from another one is a choice in it (the verdict of the gate in Publishing,
the end of a round in Worktrees), and the other one computes it.

**RunState** is `state.py`: the states, the transition table, where `fail` is
legal, and the moves `recover_to` is used for. `recover_to` itself checks
nothing; `CanRecover` is the union of what its callers in `P` ask of it.

**RunHistory** is an abstract specification of one run: created once, extended
by legal moves only, never after a terminal state.

**RunStore** is one run on disk and the processes that use it. The program is
split where a process can be interleaved or die: a load is a read
(`ReadState`), a count of the logged events (`Count`) and one `Append...` per
missing event; a write is a read and check (`BeginWrite` / `RefuseWrite`), the
replacement of the file (`Replace`) and the appends. *Runners* are the commands that
enter the issue lock and load again inside it (`Acquire`); *Operators* (`gg
cancel`, `gg retry`) write without it; *Reporters* (`gg report`) only load. Two things
make the lock leak, and both are steps of the model. The signal handler of `gg run` loads,
marks and writes the run in the middle of what its process does (`Signal`, `HandlerReturn`;
`frame` is what it interrupted), and the process goes on with its own copy. An exception
(`Throw`) leaves the lock before the except clauses of `run_issue` write the
failure (`Escape`). `marked` and `crossed` are observers: the last transition on disk is the
handler's; two writers met of which one had no lock. The
history is modelled by its targets: `from` is always the target before. The content
of a run apart from its transitions is left to the pipeline modules.

**RunCore** holds what the pipeline's phases share: the fields of `RunState` that
decide something (`Run`), the process (`pc`, `mem`, `ctx`), the outside (`world`), and how
a process saves, returns, fails, raises, is throttled, looks for a cancellation
(`_cancelled_response`), is killed or signalled. **Intake** is `run_issue` up to the task
brief, `resume`, `provide` and input by comment. **Execution** is
`_execute_ready_state`: planning, the worker updates, recording, evaluation, the
loop over attempts. **Publishing** is `_publish_winner`, from the integration
worktree to Completed, with the repair that goes back to execution.
**Pipeline** puts them together and adds the operator.

One step of these four modules is one `store.write`, one outside effect, or the
work between two of them; `store.write` is a single step here because
RunStore shows what it is made of. Correspondence of the state:

| TLA+ | code |
|---|---|
| `disk`, `mem`, `op.copy`, `ctx.copy` | `state.json`; the object of the locked process, of cancel/retry, of a worker thread |
| `running`, `planned` | the number of `candidate_states` with status `running`; how many candidates of its last round a copy has entries for (a worker adds its own to a copy that lacks it) |
| `round`, `winner`, `integ`, `pr` | a batch of candidates, and the one whose winner is selected, has the integration artifact, has `pr_url` |
| `step` | `publishing_step` |
| `world.tips`, `world.pushed`, `world.good` | integration branches and what their heads hold, here and on the remote; which heads were verified |
| `world.wt`, `world.content`, `world.checked` | the integration worktree and its uncommitted content |
| `world.late` | how many effects came after `state.json` said the run was over (an observer) |
| `used`, `ended` | how much of each bound is used, and in `used.strays` how many entries workers added to old copies; how the last process ended (observers) |

Abstractions: what an agent, a verification command or a gate answers is a choice.
A round of several candidates keeps the number of them that run and the
round as the name of its winner. Labels and the project board are best effort in the
code and change no decision, so they are left out. A merge of an effect with the write behind
it (`ReuseWorktree`, `Apply`, `Verify`) is made only where a later process resets
the worktree before it looks at it. Times are reduced to
whether `blocked_until` has passed.

Operators headed *Faulty variant* are not part of any specification: each is a
plausible bug of the definition after it, and the property named with it in
`PROJECT.json` ("mutants") is violated when it is put in place.

**Rounds** is `_execute_ready_state` again, with what candidates leave in their
worktrees instead of who else writes the run: limits and escalation, the agent's work,
the policy checks, the verification that may change what it verifies, the score,
progress, the patch that is applied to a default branch that has moved, the repair
after that fails, the final gate. It is built from pure modules. **Patch** is git and
`git.py`: a worktree is what HEAD, index and directory hold, a content is one of a few
tokens; `diff()`, `git apply --3way --index`, `commit_all` and the special files are
operators on them. `Lossy` are the files that do not survive being read as text (`AsText`), as
`read_text(errors="replace")` and the text mode of `run_git` read them. **Verification** has the commands, their retries, the required
gates and the known failures of the baseline. **Evaluation** has `_score`,
eligibility, the choice of the winner and the review dimensions. **FinalGate** has
the verdict of `_write_final_verification`: reviewers a file calls for, patterns found in
the project's own checkout, the manifest of the prompts, dismissed findings. Publishing
treats the patch as what it is named after; Patch and Rounds say what it carries.

**Locks** is one lock file: `flock`, the metadata in it, the heartbeat thread that
reads and rewrites it, `__exit__` step by step, and the scan that calls owners stale.
**RateLimit** is the row of a bucket and the three steps of a command: look, send,
record. **Tracker** composes it with what a run shows on its issue: the lists of
commands behind `claim_task` and the `publish_*` operations, any of which may be
throttled, refused or fail with or without having worked.

**Worktrees** is what runs share on the disk: directories, worktrees, branches and
objects, made by batches, runs, crashes and resumes. **Cleaner** is `gg clean` in its
passes; **Workspace** composes the two. The archive keeps of a run what the code's summary says: that it
was made, and which worktrees were removed (its issue, and the outcome read from an artifact that most runs
do not have, are left out). `swept` observes whose integration went as an orphan.

**GitHistory**, **KnowledgeViews** and **Search** are pure: what is learned from the
commits, what the compiler makes of events and history, what a search ranks and a
prompt takes. `Reading` is what the analysis is shown of the commits: each is compared backwards
with its parent, and the first one forwards with the working tree, so that what later
commits did and what nobody has committed yet both show in it. `Prompt` ranks, cuts the search, cuts
each section, and cuts the text at its end (`Fits`): a line has a size, a heading and a risk
have another, and the order of the sections is the code's. **Places** has the two things that they and Truth do with records: a
comprehension over a sequence (`Picked`) and a dictionary written over another (`Over`).
Both are in closed form, and so is "the last one written wins" of `Written`: a loop over
events that overwrites a file per key leaves what the last of each key wrote. **Knowledge** is the engine: append, count, rebuild, with a log that may
hold a cut line. `dirty` are the committed files that differ in the working tree. `gg init` does not put
`.gg/knowledge` into `.gitignore`, so a project may have committed it: then the engine's own writes soil the tree
(`SoilsLog`, `SoilsPages`) and the next rebuild sees them. `Edit` is everybody else. **Truth** is the memory files, the constitution, the sync state and
the verdicts, with every read and every write a step. **Learning** composes all of
these for the processes of a project.

| TLA+ | code |
|---|---|
| `Rounds!round`, `past`, `run.winner`, `integ` | the batch and its records; `best_score` of this process's records; the kept evaluation; the integration worktree |
| `Locks!holder`, `file`, `beat`, `scan` | the owner of the flock; the metadata; the heartbeat threads; `recovery_scan`'s reading |
| `RateLimit!rows`, `cmd` | the table `rate_limits`; the command each process is in |
| `Worktrees!runs`, `trees`, `branches`, `objects` | `.gg/runs`; `.gg-worktrees`; git's branches; `.gg/objects` |
| `Cleaner!clean`, `archive` | phase, list and loaded run of the command; the summaries in `.gg/runs-archive` |
| `Knowledge!log`, `views`, `since` | `events.jsonl`; the pages; `_events_since_rebuild` of each engine |
| `Knowledge!history`, `dirty` | the commits; the committed files whose text in the working tree is another one |
| `Truth!memory`, `constitution`, `synced`, `feedback` | `.gg/memory/*.md`; the learned lessons; the sync state; the verdicts |

The bounds of the environment are constants or budgets (`left`, `room`, `history`); `seen`, `quiet`, `swept`,
`outlived`, `learned`, `taught` and `settled` are observers of the properties.

## 3. The runs

The longest takes about three minutes with two workers. Bounds are constants of the
specifications; each bounds something of the environment, never a step of the code.

| run | bounds | what it shows |
|---|---|---|
| store_sequential | 2 runners, an operator and a reporter, one at a time, histories to 3, 3 crashes, 1 signal | `LogIsPrefix`, `LogRepaired`: wherever a process dies, and until a signal is handled, the log is a prefix of the history without repetition, and every load completes it |
| store_locked | 2 runners and an operator that overlap, histories to 2, 1 crash, 1 signal, 1 torn line | `NoLostTransition`, `TerminalImmutable`, refinement of `RunHistory` |
| store_race | runner and operator overlapping, histories to 2 | `ReopenNeedsRace`: what is left of immutability without the lock |
| pipeline_publish | 3 attempts, rounds of 1 or 2, 3 resumes, 3 crashes, 1 error, 1 throttled call | `OnePullRequest`, `PushedIsVerified`, `StepsAreTrue`, `PublishedIsSelected` |
| pipeline_operator | 2 attempts, rounds of 1 or 2, 1 resume, 1 cancel, 1 retry, 1 error, 1 worker update | `AtMostOneLateEffect`, `AttemptBudget`, `QuiescentWhenEvaluated` |
| pipeline_ends | 2 attempts, rounds of 1, a resume, a cancel, an answer, an error, a throttled call, a signal | `AnswerFirst`, `EveryCommandEnds` |
| rounds | 3 attempts, 3 candidates in all, rounds of 2 and repairs of 1, 5 files, 1 crash, 1 resume | `WinnerIsProven`, `WorkIsBounded`, `StopIsEarned`, `CarriedByPatch` |
| patch_new_files | one candidate, 2 attempts | violated: `NewFilesCarried` (section 4) |
| lock_file | 2 locks on one file, clock to 5, 1 crash | `OwnerShown`, `NoGhost`, `LiveNotStale`, `EnterReturns` |
| issue_tracker | a runner and another process, 3 buckets, clock to 2, one trouble, crash, wait and remark | `RefusalHolds`, `CommentedOnce`, `LabelsTell`, `ThrottleEnds` |
| workspace | 2 runs of one issue, 2 attempts, 3 crashes, resumes, cancels or cleans | `OneRunPerIssue`, `FreshCandidates`, `ArchivedFirst`, `KeptUsable` |
| learning | 2 processes, histories of 1 or 3 commits that may grow by two, the knowledge base committed or not, an edit, 2 or 3 calls, at most one death | `IdempotentRebuild`, `LearnedInPrompt`, `RebuiltInTime`, `LessonOnce`, `SyncedWasWritten` |

Why these are enough.

* *store_\**: the races need two writers and a third party that dies; a
  history of three moves has a first, a middle and a last append. store_locked looks at a behaviour until
  two writers meet without the lock (`Apart`), since its properties promise nothing behind that, and
  at event logs that are not longer than the histories (`ShortLog`). With one signal and
  histories of two moves the handler's mark is made, replaced by the stale copy, and
  followed by another write; store_race, about writers that do meet, has no signal: two
  processes are enough there.
* *pipeline_\**: the errors in the order of publishing need a crash, a resume that
  trusts the recorded step, and a second crash there; three of each, with a repair
  that uses another attempt, is one more than the longest counterexample of a mutant. Two
  attempts distinguish a first, a last and a repeated one.
* *rounds*: a tracked source file and image, a new file, a new image in a new directory
  and a new manifest are one file for each way `git.py` treats a path. Works
  and spoils of the verification are written to them one or two at a time; a setup leaves
  a manifest under an agent that only talks, the one case in which it decides the status. The base commit's tests fail in a known way, since what a verification may come to
  then includes all it may come to over a base that passes. Three candidates over three attempts meet each limit from both sides; two
  dry rounds (`StopAfter`) need three evaluations, one of them after an escalation. The pool
  runs one candidate after another here (`MaxParallel = 1`): candidates share
  nothing in this model, and their writes of the run in parallel are in Execution. The
  default branch moves only before a publication (`Merge`): to another text, or
  the very change the winner makes.
* *lock_file*: a holder, a waiter, and the heartbeat of each are all the parties a file has;
  the second release of a lock adds nothing, since an object is used once. The clock lets
  a heartbeat age past `StaleAge` and a waiter run into its timeout while the other
  holds the lock. That a live owner is not called stale needs
  `Interval + 2 * Slack <= StaleAge`, an assumption of the module: the code checks
  no relation between the interval (5 seconds) and the age a scan is called with.
* *issue_tracker*: a refusal tells a reset, or none, or a budget besides. One refusal, one row overwritten by an older answer and one recovery
  need two processes and `MaxTold = 2`. The other process works only while the labels of
  `in_review` are changed (`Contended`, `Shared`), the longest list of commands. One
  remark with `MaxComments = 1` already pushes the marker out of sight.
* *workspace*: a race for an issue needs two runs of it, the runs are alike
  (`SYMMETRY`), and `KeepLast = 1` retains one of them. Three troubles are a crash, a resume
  and a clean, in any mixture: a clean that is killed after some files of a run are gone and is
  started again, and a publication that is killed, cleaned and resumed, are among them. The
  run has 4,624,759 distinct states. `OneRunPerIssue` is about batches: `gg run --issue` does
  not look for an existing run.
* *learning*: the calls of a behaviour are drawn from one of eight budgets (`MCBudgets`): each part
  alone with two or three calls, or with a death and two, one that mixes engine and truth, and ones with a commit
  or an edit between two rebuilds. In one of the histories the first commit has the knowledge base.
  `Threshold = 2` and the limits of lists of 1 and 2 make every cut happen. With `LessonLimit = 2` a lesson
  that was recorded twice takes both places. The decision scores above
  the two entities, so that its two results (as a decision and as an event) fill the search and
  no part of the project is shown: without the case of a full search `LearnedInPrompt` is violated. With
  `ContextLimit = 8` and `goals.md` of length 0 or 3 the end of the text falls before, in and behind the
  lessons and the modules; each exception of the property is met by some state. Scores of files are exact
  up to the 5 commits used. A death cuts a line of the log; memory files are appended in one
  write.

`CHECK_DEADLOCK FALSE` is set where the system really stops: a finished run takes no
command, the bounded number of commands, crashes and calls runs out. In the store
a process can always start again, and deadlock is checked. `TypeOK` of Locks, Tracker,
Workspace, Rounds and Learning is defined and was used while they were written; the
runs check what could be wrong.

**Fairness.** `FairSpec` is weak fairness of `ProcessStep`, the steps of the process
that has the lock. The code justifies it: agents, git, platform calls and
verification commands are subprocesses with timeouts, loops run over finite plans and a
budget of attempts, and no step waits for another process once the lock is
held. Commands, answers, the operator, crashes and signals have no fairness.
In Locks a process that polls goes on polling, threads go on, and time passes; nothing
says that a holder releases the lock, so `EnterReturns` rests on the timeout alone.
In Tracker time passes (`Pass`) and a process that started a command, itself a subprocess
with a timeout, goes on with it (`Work`, `OthersRecord`).

## 4. Where the code and what is said of it differ

**patch_new_files** is expected to end in a violation; the finding in `PROJECT.json` quotes
the sentences that say otherwise. `diff()` writes an untracked file as `--- /dev/null`, `+++ b/...`
and its lines, without a hunk header. `git apply` takes that for an empty new file, without an
error, so the new files of a winner are published empty; those the agent staged are not in the
patch at all, since `git diff` shows what is not staged.

The models show more, which no run is kept for: these are facts a reader of a property should
know, because it is stated around them.

*Store and pipeline.* `write` reads, decides and replaces in separate steps, and `cancel` and `retry`
write without the issue lock: a run that finishes in between is replaced (`ReopenNeedsRace` is
what remains). `cancel_requested`, written while candidates run, is overwritten by the next
write of the pipeline's own copy; `tests/test_orchestrator.py:1747` expects a
cancellation during a batch to hold, with timing in which nothing is written in between. `cancel` writes the copy it loaded before it
terminated the candidates. After `done_marked`, resume prepares a new integration worktree, whose
branch exists already, and git refuses. A refused call about the pull request moves the run
from OutcomePublishing to Blocked; resume executes again, selects another winner, and goes
on publishing from the step of the old one. An answer stays among the run's artifacts
(`last_input`), so each later resume analyses again, which can end the same way. The signal handler edits the file and the pipeline
goes on with its copy: the next write takes the handler's mark back, while the event log keeps it and never
gets the transition that took its place (`LogIsPrefix`, `LogRepaired` and `NoLostTransition`
except that, and the observers `marked` and `crossed` say how far the abstract history still holds). Candidates
planned and never started stay recorded as running. Without any signal, a worker adds its candidate as
running to a run that lacks it (P:1340): when `gg cancel` or `gg retry` writes a copy from before the batch
while the batch runs, the entry can stay running in OutcomePublishing, since the result goes to
the pipeline's copy. `QuiescentWhenEvaluated` counts these entries (`used.strays`) and allows
no more running candidates than them. The except clauses of `run_issue` write behind the lock, where another
runner may be writing; Pipeline takes them as still under it, RunStore does not. A load that
overlaps a writer appends events the writer then appends too. A process that dies in
`ExternalTaskReady`, or between `git worktree add` and its record (integration or
baseline), leaves a run that every resume raises on.

*Rounds and patches.* `best_score` is overwritten by a lower one after a resume. A candidate whose setup
failed can score above one that failed its tests; that more files only break ties is true up
to 25 of them, and ten files outweigh a failing advisory command. `run_git` strips the
diff, so that a patch whose last edit is binary is always refused, and one whose last line is blank may be. It
also reads it as text: a tracked file with other line ends loses them on the way (`CarriedByPatch` excepts
these), output that is not UTF-8 raises and breaks the batch, and a new file that is not UTF-8 is written into
the patch with replacement characters, so that a verification may change its bytes and pass for one that left
the worktree as it was (`Alike`). A new directory is one
line of `git status`: its files are not seen one by one. Staged changes are missing from
`git diff`. The final gate comes after the pull request, and scans the checkout of the
project, not the published worktree. The manifest of the prompts hashes the installed package: after
an upgrade of gg, final verifications fail. A finding that was dismissed comes back when its
line moves. The budget for costs has no caller.

*Clean.* It reads its lists first and removes later, without the issue locks, so all of its properties
say *as long as nothing overlapped*. Its pass over orphans removes baseline and integration
worktrees, because only the candidates' worktrees count as references; a publication that was killed
and cleaned cannot be resumed, since its recorded worktree is gone and its branch is still
there. `KeptUsable` states both sides: what clean leaves of such a run, and that the
integration can be made exactly if it was not swept. The summary in the archive is
written before the removals it tells of; a clean that is killed in `rmtree` and started again writes it anew, from
what is left, but it never stops naming a worktree of the candidates or the baseline, and what it names is gone. Branches of integrations are never deleted. A crash in
`rmtree` can leave artifacts without `state.json`.

*Tracker.* A refusal whose headers still tell a budget (a secondary limit) is recorded as
that budget and backs nobody off, so that the next command starts at once: `RefusalHolds` is about the refusals
that tell of none left. A throttled claim
is not repeated, and one whose label does not exist on the platform goes on without it (`LabelMissing`). A run that resumes without a question answered shows blocked next to
in_review at the end (`LabelsTell` speaks of calls that all succeeded). needs-input is shown as blocked. When the
publication of the outcome fails, the label work stays.

*Knowledge and memory.* What a prompt leaves out is decided by rank before it is decided by
kind. A lesson recorded again takes another of the three places, and every event is also a result of its
own, so that decisions and raw events that score high can leave no part of the project among the 15 results the
sections are made from. The text is cut at its end after that (`task_analysis.py:198`): a long
`goals.md` or long lessons push out what was chosen, and an exception while it is made (`goals.md` that is no
text, a cut line in the log) leaves the prompt without any of it. `LearnedInPrompt` names these cases, for the
exceptions in the model; a page that cannot be read, or a database of the imports that is broken, has the same
effect and is not in it. A cut line makes `read_all` raise for ever, for the pipeline too: the record of an
opened pull request fails the run behind it, while the analysis swallows it and works without
context. `since` is reset only by a rebuild that succeeded, so every later event raises as well. A rebuild
is idempotent up to its counts, if it is made from a working tree that it does not change itself. Where `.gg/knowledge`
is committed since the first commit, the pages and the log a rebuild writes are part of what the next one compares
the first commit with, and its hot files, owners and risks differ; `compiler.py:9` ("running it
twice produces the same output") then holds from the rebuild after that on. `IdempotentRebuild` is stated
for pages that come from the tree as it is (`settled`). Risks are numbered again in each rebuild, although
their ids are said to be stable, and the page stays when no risk is left. The files of a
finished research never count as touched. Discovery erases the description of an entity, and one
event overwrites a page rebuilt from many. Additions and removals of dependencies are swapped, since
the diff is taken backwards; churn is always zero. A cut feedback file makes each gate raise. A lesson
whose summary is contained in the constitution is dropped. `gg constitution` and `gg init --force`
write the constitution without its lessons, which still count as synced. The entries of a memory
file that two processes create at once can be lost to the title that the slower one writes (`Title` in
Truth does it); no property promises that entries stay, because they do not.

## 5. What is proved

`RunStore_proofs` is checked by TLAPS for any finite or infinite sets of processes and any bounds.

* `TypeCorrect`: `Spec => []TypeOK`, without further assumptions.
* For any processes, with overlap, operators, crashes, exceptions, signals and torn lines:
  `NothingLost` (`NoLostTransition`), `StoreImplementsHistory`
  (`HistorySpec`, the refinement) and `TerminalRunsImmutable`. They speak of the time until a writer without the
  lock meets another writer (`crossed`), which is part of the properties and no assumption. None is
  inductive. `LockInv` is; its part `Fresh` says that until then at most one process is between the
  read and the replacement of a write and that its copy extends the file, but for the mark its own
  handler made, and that the copy of the handler is the file with that mark. All
  histories, the interrupted one's included, are legal. A replacement then extends the file, or what the file was
  before the mark; a legal history
  that extends a finished one is equal to it (`FinishedHistoryEnds`), which
  is immutability, and no argument about the check in `write` is needed.
* Assuming `~Overlap` and `MaxTorn = 0` (one process at a time, which may die at any
  step): `LogAgrees` (`LogIsPrefix`) and `LoadsRepair` (`LogRepaired`). `LogInv`
  has two parts: one process at a time (`Alone`) and, until a signal is handled, `Appending`, which says what each
  process has left to append: exactly what the log lacks.
  Without either assumption the conclusion is false: a second process appends the same
  events, and a line appended behind a torn one is lost with it.

* With no assumption and no exception, and so for writers that do meet: `ReopenedByRace` (`ReopenNeedsRace`). `MayReplace` says of a process about to replace
  the file, and of one whose handler interrupted it there, that the transition was allowed from the file it had read, so a finished run can be
  reopened only by one that had read it unfinished. store_race shows that it happens.

The assumptions are hypotheses of the theorems, not of the specification.

`Pipeline_proofs` and `Pushed_proofs` are about the whole pipeline with the operator, for any
budget of attempts, any sizes of rounds and any bounds of the environment. They use
`ConfigAssumption` (a positive budget, positive rounds) and nothing else.

* `TypeCorrect` and `BudgetKept` rest on `TypeInv`, which TLC also finds invariant in the
  three passing runs of the pipeline. `TypeOK` alone is not inductive: that `running` stays
  a natural number needs `At`, which says of each place what a process has reached there:
  the candidates it planned and the results it has still to record are counted in its
  own `running`, whatever the operator did to `state.json`. That attempts stay in the
  budget needs it of every copy anybody keeps, since each can be written:
  `OperatorInv` says that `gg retry` holds a copy with an attempt left, `Live` that
  a copy is of a run that exists.
* `PushedVerified` rests on `VerifiedInv`, in three parts. `Truthful`: a copy that says
  *committed* or later names a verified branch. `Done`: what was done before each place
  of the publication. `Backed`: only verified branches have commits. Stale copies
  stay truthful because no branch ever ceases to be verified; so a write by the
  operator, a worker or the signal handler, which can undo almost everything else (section
  4), cannot bring an unverified branch to the remote.
* `OneLateEffect`, for any operator, rests on `LateInv`: a process that works on a run that is over
  does so only between one effect and the next look at the run (`AfterEffect`), where it finds the
  end of the run before it does anything else.
* `StepsHold` rests on `StepsInv`. `Claims` is required of every copy of the run, even of the stale ones
  that a worker, `gg cancel` or `gg retry` holds: what it says of commit, push, pull request and
  comment was done, and the world never takes it back (`Grows`). `Made` says what was done
  when a process reaches each place, before it is recorded there. The lemmas `Accounted` and
  `Recorded` say of every step of the system where what a copy says after it comes from:
  another copy, or the place that records it.
* `OnlyOnePullRequest` rests on `OneInv` and on the two before it: once a pull request is open, every copy
  that can be written names it, or the branch by which `_existing_pr_url` finds it (`Knows`), and a
  process has passed that lookup (`Astray`) only with the pull request in hand. It is proved for
  `MaxCancels = 0`, `MaxRetries = 0` and `Modes \subseteq {FALSE}`, as in the run that checks it, with crashes,
  errors, throttles, signals, workers' updates, repairs and resumes unbounded. With
  a retry, or with `BothModes`, TLC finds a second one. `gg retry` may write an old copy whose step is
  from before the push; when the run is resumed it executes again, and another winner has another
  branch. A part of the run taken with `--no-pr` clears `pr_url`. A `gg cancel` of an old copy
  also ends the run, so TLC finds no second one with a cancellation; but the check for it is skipped
  while `state.json` shows candidates running, as a later `gg cancel` may make it do
  again, and so the theorem leaves cancellations out.
* `SelectedIsPublished` rests on `SelectedInv` and on the invariants of the two results before
  `OnlyOnePullRequest`. Every copy, those of workers, `gg cancel` and `gg retry` included, that
  names a branch to publish names the one of the winner its evaluation selected
  (`OfWinner`), because a run leaves its publication only for good, or by a repair, which comes
  before a pull request and sets the step back; so a copy `gg retry` writes publishes nothing. A
  branch holds the patch of the winner it is named after, or none (`Patched`). Cancellations, retries,
  crashes, errors, signals, workers' updates, repairs and resumes are unbounded. It is proved for
  `Modes \subseteq {FALSE}`, `MaxThrottles = 0` and `MaxInputs = 0`, and TLC finds the property violated without
  any of the three: with `--no-pr` nothing is pushed; a throttled call about the pull request, or a
  new analysis behind an answer, takes a run out of its publication with its old step (section 4).
* `QuietUntilSignalled` rests on `RestInv`, without a further assumption on any constant: every copy of the run
  somebody keeps, however stale, shows in a state that judges candidates no more running ones than workers added to
  old copies (`Rests`), and each place of a process says how many it planned and has left to record, besides
  these (`Counted`); a process that takes over finds any number and resets it. `AddingCounts` is the step of a worker that adds
  an entry: it raises the number of running ones by one, and `strays` with it. The property holds until a
  signal is handled, which is what the theorem says: the handler makes the file
  resumable and leaves the candidates that were planned and never started recorded as
  running (section 4), and TLC finds it violated with one signal.

* `AnsweredFirst`, an action property without a further assumption on any constant, rests on `AnswerInv`. Several
  copies of a run can ask at once, and one of them can be older than the answer: `Told` says that as long as
  the file, or the copy of `gg cancel` or `gg retry`, still asks, whatever a process or a worker may write has
  the answer, asks too, or is over. `Pends` names the only places where a process has a run that asks and no answer:
  until it has decided where to take the run up. A process under `gg run` never has one, which is why the
  signal handler and the rate limiter, which set the state of the run without looking, undo no question.
  The operator's own write of an old copy can, and is excepted by the property.

Each of the other families has one inductive invariant, stated as `Invariant` of its proof
module, and its properties follow from it. All use one lemma per action that says what the
action does to the fields that matter, and one that says that it keeps the invariant.

`Locks_proofs`, for any number of processes, any clock and any number of failed writes:
`Exclusive`, `OwnerAlwaysShown`, `NoGhostLeft`, `LiveNeverStale`.

* `FlockHeld`: past `Acquire` and before `Unlock` there is one process. The file is
  another matter, since a heartbeat reads it and writes it back later. `BeatsInside`, `Unnamed`
  and `CopyOwn` say where each thread is relative to the release of its lock: `__exit__`
  stops and joins the thread before it empties the file, so a thread that writes an old owner back is
  one that outlived the join (`outlived`), which the properties except.
* A scan judges by its clock what it read before. `BeatTimes` and `SeenFresh` bound the
  delay of the thread, the age of what it writes and that of what the scan has read; their sum is
  below `StaleAge` by `TimesAssumption`, which includes `Interval + 2 * Slack <= StaleAge`. The code does
  not check that relation.

`Workspace_proofs`, for any runs, issues, attempts and number to keep (`WorktreesAssumption`,
`CleanerAssumption`): `OneRunOfAnIssue`, `NeverRefused`, `ArchivedBeforeRemoved`, `WhatCleanLeaves`.

* `Alone` and `OneRunPerIssue` go together: whoever has looked for another run of its issue
  holds the lock of the issue, so what it saw is still true when it creates its run.
* `NeverRefused` rests on `Tried` and `MadeFor`, what has the name of a candidate was made for one that
  `state.json` counts as tried, and on `Room`: the suffixes of an attempt are used one after the other, one for
  each process that came to plan, so there is always a next one.
* What `gg clean` listed becomes old. `Calm`, `Listed` and `Unused` say what of the list is still
  true as long as nothing overlapped: a run to be removed is as it was listed (`ListedRuns`), and of one that is being
  removed the summary names what its state recorded (`Says`) and what `gg clean` is about to remove, which is gone
  before its files are (`Archived`, `Gone`); so of a run that is gone both hold (`Retired`), also if the summary
  was written again after a clean had died. `Recorded` says that
  a worktree exists before its path is recorded, `Provided` what is there of a run that is to go on, and `Integrated` that the branch of a recorded
  integration is there, and its worktree exactly if it was not swept.

`Rounds_proofs`, for any files, edits, checks, budgets and limits (`RoundsAssumption`,
`PatchAssumption`, `VerificationAssumption`): `BoundedWork`, `EarnedStop`, `ProvenWinner`, `PatchIsCarried`.

* `Bounded`: a batch is planned only where the limit leaves room for all of it, repairs
  and resumed runs included. `Compares` relates the count in `state.json`, which a process that dies
  loses the increment of, to the rounds that were evaluated.
* `InRound` keeps what each candidate has shown (`Proven`), `Chosen` that the winner is one of
  these and was not rejected before, `Integrated` where the integration worktree is
  for the step on disk. A publication that was interrupted before
  the note of its commit starts from the reset worktree, whatever step it had reached. `PatchIsCarried` rests on
  lemmas about `diff` and `apply` alone, for any base and any default branch.

`Tracker_proofs`, for any buckets, processes, labels and comments (`TrackerAssumption`,
`RateAssumption`): `RefusalIsKept`, `OneCommentEach`, `LabelsAreTrue`.

* `RateInv` (`Asked`, `Quiets`): until the end of a refusal that told no budget its row stands, and every command
  past the check had looked before the refusal; the property excepts these, and
  rows an older answer has overwritten. A refusal that tells a budget is recorded as an answer is, and
  ends no quiet but by overwriting a row, as any answer does.
* `IssueInv`: `Due` says that the labels, once what is left of the call has been done, are
  those of the call; it needs that what is still to be added and removed does not meet (`Apart`), and
  that an answer tells what was done (`Applied`). `Checked` says that a comment about to be made is
  not among those its lookup saw, unless somebody else wrote in between.

`Learning_proofs`, for any processes, engines, texts, histories, limits, scores and budgets of calls
(`LearningAssumption`, `KnowledgeAssumption`, `ViewsAssumption`, `SearchAssumption`: histories are
sequences, the directories at the top are finitely many, limits and scores are numbers, what an event
names has a score): `RebuildInTime`, `EachLessonOnce`, `SyncedIsShown`, `RebuildIsIdempotent` and `LearnedIsPrompted`.

* `EngineInv`: an engine whose counter is at the threshold is in a rebuild, unless the log
  cannot be read.
* `TruthInv`: there is a registry of the entries made so far, each at its id, and whatever a
  process holds or a file shows comes from it. Processes that write the constitution over each other can
  lose a lesson, but each writes a text without repetition to which it adds one line that nothing in
  it says (`Once`), so no lesson is shown twice. Each id that a sync knows of has been taught, or is
  still on its own list (`Told`), wherever another sync is. The registry is an existential of
  the invariant: a step keeps it or adds the entry it makes.
* `RebuildIsIdempotent` rests on `ViewsInv`: once the pages come from the log, the commits and the working
  tree as they are, each is what the compiler makes of the log, the reading of the commits and the pages themselves
  (`Stands`); a write that soils the tree changes the reading, or leaves it and all that stands on it.
  `CompiledStands` shows that of any rebuild: pages written over pages twice are the same
  (`OverAgain`), and decisions, which are written in two passes over each other, too (`OverTwice`). The
  invariant has two steps to survive: the event of the rebuild itself, whose kind the
  compiler does not read (`RebuiltUnread`), and the page of lessons, which it does not compile
  (`LessonsApart`).
* `LearnedIsPrompted` rests on `PagesInv` (there are finitely many pages, what was learned is in the log)
  and on the ranking. `Best` takes what has fewer than *n* results ahead of it. The order is
  strict and total, because results of one kind differ in where they were met (`Ranked`,
  `AheadOrders`); then the number of results ahead maps the results one to one onto `0..c-1`, so *n* have
  fewer than *n* ahead (`FirstAreMany`), and who is not among the best has *n* ahead that fit no worse
  (`BestIsFull`). Two cuts follow one another, that of the search and that of the section;
  different results of entities have different names, so the second counts names (`PartShown`), and
  different lessons have different places in the log (`LessonShown`). The end of the text is no
  part of the argument: what is recalled or chosen is in the prompt or below it. No induction is
  needed: cardinalities are compared by injections.

## 5.1 What is only model-checked

`EveryCommandEnds`, `EnterReturns`, `ThrottleEnds`: liveness under fairness is out of the
prover's reach. Every safety invariant and action property of a passing run is the subject of a theorem,
some under the hypotheses named above. What the mutants of those runs show, that each property can be
broken by a plausible change of the code, is also TLC's.

## 6. What is not modelled

* Configuration and schemas: parsing and validation without state; their results are the
  constants of the models.
* Agents, command line, prompts, generators, analyzers of code and structure, doctor, report, review:
  text in, text out. Where they write a file another part reads (the constitution, the pages), that write
  is modelled with the reader.
* Dry runs write a preview; the recovery of mismatches between issue and run, and
  `recovery_scan`, only report. The order of eligible issues is left open. The project board is best
  effort and decides only which issues are eligible.
* The circuit breaker of the rate limiter: nothing in the program calls it. `record_fact`, `record_entity`,
  `record_decision`, `record_research` and `record_pr_merged` have no caller in production either; they are
  modelled, as calls of a process, because they are the interface of the knowledge base.
* What the parsers of test, lint and security output find, what an agent writes, what a gate is
  told: choices.
* Ports, process groups, environment and the sandbox's command line. The rule for LFS files, which is that for
  binaries.
* A signal that arrives inside the handler of another; an `OSError` in the middle of a write of the store. Rounds a
  shutdown ends without a candidate (they are in Pipeline, as rounds, but not in Rounds). What `gg retry` does to
  a run next to its worktrees: Pipeline has the stale write, Workspace has cancel and resume only.
* Causes for which a rebuild or a prompt fails other than a line that cannot be read and a `goals.md` that is no text:
  names of entities with a slash, unreadable pages, a full disk. New files that are staged but not committed show in
  the comparison of the first commit too; they are left out, as is what Truth writes, unless it is taken for an `Edit`.
* The pages on code, project and statistics, which are projections of one input. `Compile`
  writes all pages in one step: none is read by the compiler again, but those of entities and risks,
  which are in the model.
* A memory block cut by a crash; backups of `state.json` and the sums of costs.

## 7. Plan

1. *Done*: run store, its abstract history and proofs; the pipeline of one run, its types,
   its budget and what it pushes proved.
2. *Done*: cleaner next to live runs, batches over issues, locks with metadata and
   heartbeats, the rate limiter and the issue's labels and comments, the rounds with patches,
   verification, evaluation and the final gate, knowledge base and memory.
3. *Done*: the locks, the workspace, the rounds, the issue's labels and comments, and the
   knowledge and memory families proved.
4. *Done*: `OnePullRequest`, `StepsAreTrue`, `AtMostOneLateEffect`, `ReopenNeedsRace`,
   `QuiescentWhenEvaluated`, `PublishedIsSelected`, `AnswerFirst`: every safety property of the pipeline is
   proved, some under the hypotheses section 5 names.
5. *Done*: `IdempotentRebuild` and `LearnedInPrompt`, the last two safety properties without a theorem.
6. The breaker, when the program uses it; process groups and ports.
