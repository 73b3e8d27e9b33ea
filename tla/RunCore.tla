-------------------------------- MODULE RunCore --------------------------------
(***************************************************************************)
(* What the phases of src/gg/orchestrator/pipeline.py share: the state of  *)
(* one run on disk and in memory, the process that works on it, the        *)
(* outside world it changes, and how a process saves, ends, fails, is      *)
(* throttled, killed or interrupted.                                       *)
(*                                                                         *)
(* One step is one store.write, one outside effect, or the work between    *)
(* two of them; a crash, the operator and a signal can come between steps. *)
(* store.write is one step here: RunStore shows what it is made of.        *)
(***************************************************************************)
EXTENDS RunState, FiniteSets

CONSTANTS
  MaxAttempts,      \* runtime.max_attempts
  Batches,          \* the numbers of candidates a round can launch
  Modes,            \* the values of --no-pr the operator uses
  MaxResumes,       \* bounds of the environment: resumes,
  MaxCrashes,       \*   processes killed,
  MaxErrors,        \*   calls to git or the platform that fail,
  MaxThrottles,     \*   calls refused by the rate limiter,
  MaxSignals,       \*   SIGINT / SIGTERM,
  MaxCancels,       \*   gg cancel,
  MaxRetries,       \*   gg retry,
  MaxInputs,        \*   answers (gg provide or an issue comment),
  MaxUpdates        \*   and worker updates written during one round

ASSUME ConfigAssumption == /\ MaxAttempts \in Nat \ {0}
                           /\ Batches \subseteq Nat \ {0}
                           /\ Modes \subseteq BOOLEAN
ASSUME LimitAssumption ==
  {MaxResumes, MaxCrashes, MaxErrors, MaxThrottles, MaxSignals, MaxCancels,
   MaxRetries, MaxInputs, MaxUpdates} \subseteq Nat

VARIABLES
  disk,   \* state.json
  mem,    \* the RunState object of the process that has the issue lock
  pc,     \* where that process is; "idle" when there is none
  ctx,    \* its arguments and local variables
  op,     \* the copy gg cancel or gg retry works on, which take no issue lock
  world,  \* the integration worktree, its branches, the remote and the tracker
  used,   \* how much of each bound of the environment is used, and the strays:
          \* entries that workers added to copies of the run that lacked them
  ended   \* how the last process ended

vars == <<disk, mem, pc, ctx, op, world, used, ended>>

NoRun == "NoRun"
None == "None"

Steps == {"None", "started", "local_no_pr", "integration_created", "patch_applied",
          "verified", "committed", "branch_pushed", "pr_created",
          "result_commented", "done_marked", "completed"}

\* The steps after which the integration branch has its commit and is reused.
CommittedSteps == {"committed", "branch_pushed", "pr_created", "result_commented"}

(***************************************************************************)
(* The fields of RunState the pipeline's decisions read.  A round is one   *)
(* batch of candidates; its winner, and the integration branch named after *)
(* that winner, are known by the number of the round (0: none).            *)
(***************************************************************************)
Run == [st : TaskState \cup {NoRun},
        attempt : Nat,
        round : Nat,               \* rounds launched
        planned : Nat,             \* candidates of the last round it has entries for
        running : Nat,             \* candidates with status "running"
        cancel : BOOLEAN,          \* cancel_requested
        step : Steps,              \* publishing_step
        resumeTo : TaskState \cup {None},  \* blocked_resume_state
        wait : BOOLEAN,            \* blocked_until is set
        asks : BOOLEAN,            \* last_error.code = missing_task_info
        brief : BOOLEAN,           \* artifacts.task_brief
        input : BOOLEAN,           \* artifacts.last_input
        winner : Nat,              \* selected in artifacts.evaluation
        integ : Nat,               \* whose artifacts.publishing_integration is
        pr : Nat]                  \* whose branch pr_url is for

NewRun == [st |-> InitialState, attempt |-> 1, round |-> 0, planned |-> 0,
           running |-> 0, cancel |-> FALSE, step |-> "None", resumeTo |-> None,
           wait |-> FALSE, asks |-> FALSE, brief |-> FALSE, input |-> FALSE,
           winner |-> 0, integ |-> 0, pr |-> 0]

Absent == [NewRun EXCEPT !.st = NoRun]

\* Arguments and locals: the command, --no-pr, candidates still to plan, planned,
\* results still to record, what the round found, a worker's copy, its updates.
IdleCtx == [entry |-> None, noPr |-> FALSE, todo |-> 0, planned |-> 0, done |-> 0,
            found |-> "none", copy |-> Absent, updates |-> 0, shutdown |-> FALSE]

NoOp == [kind |-> None, copy |-> Absent]

(***************************************************************************)
(* wt: the round whose integration worktree exists; content: whose patch   *)
(* it holds, uncommitted; checked: verification passed on it.  tips and    *)
(* pushed: for each integration branch, here and on the remote, whose      *)
(* patch its head is (0: still the base).  good: the branches whose head   *)
(* was verified.  prs: the branches pull requests were opened for.  late:  *)
(* the effects made when state.json said the run was over.                 *)
(***************************************************************************)
Init == /\ disk = Absent /\ mem = Absent
        /\ pc = "idle" /\ ctx = IdleCtx /\ op = NoOp
        /\ world = [wt |-> 0, content |-> 0, checked |-> FALSE, tips |-> <<>>,
                    good |-> {}, pushed |-> <<>>, prs |-> <<>>,
                    commented |-> FALSE, late |-> 0]
        /\ used = [resumes |-> 0, crashes |-> 0, errors |-> 0, throttles |-> 0,
                   signals |-> 0, cancels |-> 0, retries |-> 0, inputs |-> 0,
                   strays |-> 0]
        /\ ended = [how |-> None, entry |-> None, at |-> None]

Spend(f) == used' = [used EXCEPT ![f] = @ + 1]

(***************************************************************************)
(* The definitions from here to Throttle say what becomes of the run and   *)
(* of its process: disk, mem, pc, ctx and ended.  The action that uses one *)
(* adds what becomes of the rest.                                          *)
(***************************************************************************)
Quiet == UNCHANGED <<op, world, used>>

\* On to l with m in memory and c in the locals, nothing written.
Go(l, m, c) == pc' = l /\ mem' = m /\ ctx' = c /\ UNCHANGED <<disk, ended>>

Goto(l) == Go(l, mem, ctx)

\* The process is gone: its memory is lost, the lock on the issue free.
Exit(how) == /\ pc' = "idle" /\ mem' = Absent /\ ctx' = IdleCtx
             /\ ended' = [how |-> how, entry |-> ctx.entry, at |-> pc]

Return == Exit("returned") /\ UNCHANGED disk
Raise == Exit("raised") /\ UNCHANGED disk

\* store.write does not move a terminal run: it raises.
Refuses(r) == disk.st \in Terminal /\ r.st # disk.st

\* store.write(r), after which the process goes on at l with c; the exception of
\* a refused write ends it (run_issue's handler writes again, and is refused too).
SaveCtx(r, l, c) ==
  \/ ~Refuses(r) /\ disk' = r /\ mem' = r /\ pc' = l /\ ctx' = c /\ UNCHANGED ended
  \/ Refuses(r) /\ Raise

Save(r, l) == SaveCtx(r, l, ctx)

\* store.write(r) and return from the command.
SaveReturn(r) == IF Refuses(r) THEN Raise ELSE Exit("returned") /\ disk' = r

\* RunState.fail, where it is legal.
Failed(r) == [r EXCEPT !.st = "TerminalFailure", !.asks = FALSE]

(***************************************************************************)
(* An exception.  run_issue records it as a failure of the run where that  *)
(* is legal, before the claim by recovery; resume and provide let it out.  *)
(***************************************************************************)
Break == IF ctx.entry = "run" /\ (CanFail(mem.st) \/ mem.st = InitialState)
           THEN SaveReturn(Failed(mem))
           ELSE Raise

\* The run fails with this error: RunState.fail, store.write, return.
Fail == IF CanFail(mem.st) THEN SaveReturn(Failed(mem)) ELSE Break

\* _block_on_rate_limit, for a RateLimitThrottleError in run_issue.
Throttle ==
  IF ctx.entry = "run"
    THEN SaveReturn([mem EXCEPT !.st = "Blocked", !.resumeTo = mem.st,
                                !.wait = TRUE, !.asks = FALSE])
    ELSE Raise

(***************************************************************************)
(* _cancelled_response: look at the latest state before going on at l with *)
(* m in memory.  A cancellation is acted on only when no candidate runs.   *)
(***************************************************************************)
CancelSeen == disk.running = 0 /\ (disk.cancel \/ disk.st = "Cancelled")

ActOnCancel ==
  IF disk.st = "Cancelled" THEN Return
  ELSE IF CanTransition(disk.st, "Cancelled")
    THEN Exit("returned") /\ disk' = [disk EXCEPT !.st = "Cancelled"]
    ELSE Break

\* Faulty variant: waits here until the candidates are done.
CheckCancelWaits(l, m) == /\ disk.cancel => disk.running = 0
                          /\ IF CancelSeen THEN ActOnCancel ELSE Go(l, m, ctx)
                          /\ Quiet

CheckCancel(l, m) == /\ IF CancelSeen THEN ActOnCancel ELSE Go(l, m, ctx)
                     /\ Quiet

\* f with the value v for b.
Put(f, b, v) == [x \in DOMAIN f \cup {b} |-> IF x = b THEN v ELSE f[x]]

\* An effect on the outside world; late counts those made too late.
Effect(w) == world' = [w EXCEPT !.late = IF disk.st \in Terminal THEN @ + 1 ELSE @]

\* git or the platform fails, or the platform is throttled, at one of these places.
Trouble(errors, throttles) ==
  /\ \/ pc \in errors /\ used.errors < MaxErrors /\ Spend("errors") /\ Break
     \/ pc \in throttles /\ used.throttles < MaxThrottles /\ Spend("throttles")
        /\ Throttle
  /\ UNCHANGED <<op, world>>

\* The process is killed (SIGKILL, power): whatever it had not saved is gone.
Crash == /\ pc # "idle" /\ used.crashes < MaxCrashes
         /\ Spend("crashes")
         /\ Exit("crashed")
         /\ UNCHANGED <<disk, op, world>>

(***************************************************************************)
(* SIGINT or SIGTERM.  The handler marks the active run interrupted and    *)
(* returns: the process goes on where it was.  Only run_issue names an     *)
(* active run; under resume the handler just sets the flag.                *)
(***************************************************************************)
Interrupted(r) ==
  [r EXCEPT !.running = 0, !.asks = FALSE,
            !.st = IF @ \in Terminal \cup {"OutcomePublishing"} THEN @
                   ELSE "ReadyForExecution"]

Signal == /\ pc # "idle" /\ ctx.entry \in {"run", "resume"}
          /\ used.signals < MaxSignals
          /\ Spend("signals")
          /\ ctx' = [ctx EXCEPT !.shutdown = TRUE]
          /\ disk' = IF ctx.entry = "run" THEN Interrupted(disk) ELSE disk
          /\ UNCHANGED <<mem, pc, op, world, ended>>
===============================================================================
