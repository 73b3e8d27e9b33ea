------------------------------- MODULE RunState -------------------------------
(***************************************************************************)
(* The task states of a run and the moves between them:                    *)
(* src/gg/orchestrator/state.py.  A pure module: the run store and the     *)
(* pipeline are both built on it.                                          *)
(***************************************************************************)
EXTENDS Integers, Sequences

\* class TaskState.
TaskState == {"ExternalTaskReady", "Claiming", "Queued", "RunStarted",
              "TaskAnalysis", "Blocked", "ReadyForExecution",
              "AgentSelection", "AgentRunning", "ResultEvaluation",
              "NeedsInput", "OutcomePublishing",
              "Completed", "TerminalFailure", "Cancelled"}

\* The default of RunState.state: every run is created in it.
InitialState == "ExternalTaskReady"

\* TERMINAL_STATES.
Terminal == {"Completed", "TerminalFailure", "Cancelled"}

\* ALLOWED_TRANSITIONS: the targets transition() accepts from each state.
Allowed == [s \in TaskState |->
  CASE s = "ExternalTaskReady" -> {"Claiming"}
    [] s = "Claiming"          -> {"Queued", "ExternalTaskReady",
                                   "TerminalFailure", "Cancelled"}
    [] s = "Queued"            -> {"RunStarted", "Cancelled"}
    [] s = "RunStarted"        -> {"TaskAnalysis", "TerminalFailure", "Cancelled"}
    [] s = "TaskAnalysis"      -> {"ReadyForExecution", "Blocked",
                                   "TerminalFailure", "Cancelled"}
    [] s = "Blocked"           -> {"TaskAnalysis", "AgentSelection",
                                   "TerminalFailure", "Cancelled"}
    [] s = "ReadyForExecution" -> {"AgentSelection", "Cancelled"}
    [] s = "AgentSelection"    -> {"AgentRunning", "Blocked",
                                   "TerminalFailure", "Cancelled"}
    [] s = "AgentRunning"      -> {"ResultEvaluation", "NeedsInput",
                                   "TerminalFailure", "Cancelled"}
    [] s = "ResultEvaluation"  -> {"AgentRunning", "OutcomePublishing", "NeedsInput",
                                   "TerminalFailure", "Cancelled"}
    [] s = "NeedsInput"        -> {"AgentRunning", "Cancelled", "TerminalFailure"}
    [] s = "OutcomePublishing" -> {"Completed", "TerminalFailure", "Cancelled"}
    [] OTHER                   -> {}]

\* RunState.transition raises InvalidTransitionError when this is false.
CanTransition(s, t) == t \in Allowed[s]

\* RunState.fail raises when the failure is not a legal transition and the run
\* has not failed already.
CanFail(s) == s = "TerminalFailure" \/ CanTransition(s, "TerminalFailure")

\* Faulty variant: a finished run can be recovered as well.
CanRecoverAny(s, t) == \/ t = "ReadyForExecution" /\ s # t
                       \/ t = "Blocked"
                       \/ t = "TerminalFailure" /\ s = InitialState

(***************************************************************************)
(* RunState.recover_to records any move without consulting the table.  Its *)
(* callers leave only unfinished runs: to ReadyForExecution (resume, retry,*)
(* interrupt, repair of a failed publication), to Blocked (rate limit, a   *)
(* task analysis that asks for information) and, before the claim, to      *)
(* TerminalFailure.                                                        *)
(***************************************************************************)
CanRecover(s, t) ==
  /\ s \notin Terminal
  /\ \/ t = "ReadyForExecution" /\ s # t
     \/ t = "Blocked"
     \/ t = "TerminalFailure" /\ s = InitialState

CanMove(s, t) == CanTransition(s, t) \/ CanRecover(s, t)

(***************************************************************************)
(* RunState.transitions, as the sequence of the states moved to: the state *)
(* of a run is the last of them, and each entry's "from" is the one before.*)
(***************************************************************************)
StateAfter(h, i) == IF i = 0 THEN InitialState ELSE h[i]

StateOf(h) == StateAfter(h, Len(h))

LegalHistory(h) == \A i \in 1..Len(h) : CanMove(StateAfter(h, i - 1), h[i])

\* h begins with g: what is recorded in g is recorded in h, in the same order.
Extends(h, g) == /\ Len(g) <= Len(h)
                 /\ \A i \in 1..Len(g) : h[i] = g[i]
===============================================================================
