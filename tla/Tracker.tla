--------------------------------- MODULE Tracker ---------------------------------
(***************************************************************************)
(* What a run shows on its issue: the labels and the stage comments that   *)
(* claim_task and the publish_* operations of GitPlatform set, each a list *)
(* of commands behind the rate limits of RateLimit, any of which may be    *)
(* throttled, refused, or fail with or without having done its work; and   *)
(* the calls the pipeline makes over the life of a run.                    *)
(*                                                                         *)
(* One process (Runner) has the lock on the issue; the others of Procs are *)
(* at work elsewhere and use the same buckets.                             *)
(***************************************************************************)
EXTENDS RateLimit, Sequences, SequencesExt

CONSTANTS Runner,
          Configured,     \* the labels that are not set to "" in the configuration
          PerLabel,       \* GitLab: one command for each label
          MaxComments,    \* MAX_COMMENTS: how many comments get_issue returns
          Shared,         \* bounds: the buckets the other processes use,
          Contended,      \*   the calls during which they do and the budget is told,
          MaxRemarks,     \*   comments of others,
          MaxTroubles,    \*   commands that do not answer "ok",
          MaxCrashes,     \*   crashes of the runner
          MaxWaits        \*   and times the run waits

\* The calls of the pipeline.
Calls == {"claim", "blocked", "unblock", "failed", "in_review", "done", "result"}

ASSUME TrackerAssumption ==
  /\ Runner \in Procs /\ Shared \subseteq Buckets
  /\ Configured \subseteq {"work", "blocked", "in_review", "done"}
  /\ {"issues:read", "issues:comment", "issues:labels"} \subseteq Buckets
  /\ None \notin Calls /\ PerLabel \in BOOLEAN
  /\ MaxComments \in Nat \ {0} /\ {MaxRemarks, MaxTroubles, MaxCrashes, MaxWaits} \subseteq Nat

VARIABLES labels,    \* the labels of gg on the issue
          comments,  \* the comments, oldest first: a stage of gg or a remark
          run,       \* where the run is, and the call it makes
          history    \* comments' lookups that failed, and what is spent
vars == <<rateVars, labels, comments, run, history>>

Phases == {"new", "working", "waiting", "commented", "reviewed", "completed", "over"}

\* The buckets of the commands of an issue, by their scope.
Scope == [view |-> "issues:read", comment |-> "issues:comment",
          add |-> "issues:labels", remove |-> "issues:labels"]

TypeOK ==
  /\ RateTypeOK
  /\ labels \subseteq Configured
  /\ comments \in Seq({"claim", "blocked", "result", "failed", "remark"})
  /\ run.phase \in Phases /\ run.clean \in BOOLEAN

Init == /\ RateInit
        /\ labels = {} /\ comments = <<>>
        /\ run = [phase |-> "new", call |-> None, todo |-> <<>>, clean |-> TRUE]
        /\ history = [blind |-> FALSE, troubles |-> 0, crashes |-> 0, waits |-> 0]

(***************************************************************************)
(* The operations, as the commands they start.                             *)
(***************************************************************************)
Command(op, what) == <<[op |-> op, what |-> what]>>

\* add_labels and remove_labels of the two adapters.
Labelling(op, S) ==
  IF S = {} THEN <<>>
  ELSE IF PerLabel
    THEN [i \in 1..Cardinality(S) |-> [op |-> op, what |-> {SetToSeq(S)[i]}]]
    ELSE Command(op, S)

\* Faulty variant: an operation only adds.
ApplyOnly(add, remove) == Labelling("add", add \cap Configured)

ApplyLabels(add, remove) ==
  Labelling("add", add \cap Configured) \o Labelling("remove", remove \cap Configured)

\* add_stage_comment_once.
CommentOnce(stage) == Command("view", stage) \o Command("comment", stage)

\* claim_task and the publish_* operations; unblock is _best_effort_labels of provide.
Operation(call) ==
  CASE call = "claim"     -> ApplyLabels({"work"}, {}) \o CommentOnce("claim")
    [] call = "blocked"   -> ApplyLabels({"blocked"}, {"work"}) \o CommentOnce("blocked")
    [] call = "unblock"   -> ApplyLabels({"work"}, {"blocked"})
    [] call = "failed"    -> ApplyLabels({}, {"work", "blocked"}) \o CommentOnce("failed")
    [] call = "in_review" -> ApplyLabels({"in_review"}, {"work"})
    [] call = "done"      -> ApplyLabels({"done"}, {"work", "blocked", "in_review"})
    [] call = "result"    -> CommentOnce("result")

(***************************************************************************)
(* The life of a run, as the pipeline calls them.  A run that waits or has *)
(* failed is written so before its issue is marked: the phase changes with *)
(* the call.  A claim, a result and the done label must succeed.           *)
(***************************************************************************)
Call(call, phase) ==
  /\ run.call = None /\ cmd[Runner].at = "idle"
  /\ run' = [run EXCEPT !.call = call, !.todo = Operation(call), !.phase = phase]
  /\ history' = [history EXCEPT !.waits = IF call = "blocked" THEN @ + 1 ELSE @]
  /\ UNCHANGED <<rateVars, labels, comments>>

MarkInReview == run.phase = "commented" /\ Call("in_review", "reviewed")

CallSomething ==
  \/ run.phase = "new" /\ Call("claim", "new")
  \/ run.phase = "working" /\ history.waits < MaxWaits /\ Call("blocked", "waiting")
  \/ run.phase = "waiting" /\ Call("unblock", "working")
  \/ run.phase = "working" /\ Call("failed", "over")
  \/ run.phase = "working" /\ \E c \in {"result", "done"} : Call(c, "working")
  \/ MarkInReview

\* resume takes a waiting run up without an answer: nobody touches its labels.
ResumeSilently == /\ run.phase = "waiting" /\ run.call = None
                  /\ run' = [run EXCEPT !.phase = "working", !.clean = FALSE]
                  /\ UNCHANGED <<rateVars, labels, comments, history>>

\* The call is over: where the run is after it.
After(ok) ==
  CASE run.call = "claim"     -> IF ok THEN "working" ELSE "over"
    [] run.call = "result"    -> IF ok THEN "commented" ELSE "over"
    [] run.call = "done"      -> IF ok THEN "completed" ELSE "over"
    [] run.call = "in_review" -> "completed"
    [] OTHER                  -> run.phase

\* A failing claim fails the run, which is then marked; a throttled one blocks it
\* until the reset, and nothing is marked.
End(ok, throttled) ==
  run' = IF run.call = "claim" /\ throttled
           THEN [phase |-> "waiting", call |-> None, todo |-> <<>>, clean |-> FALSE]
         ELSE IF run.call = "claim" /\ ~ok
           THEN [phase |-> "over", call |-> "failed", todo |-> Operation("failed"),
                 clean |-> FALSE]
         ELSE [phase |-> After(ok), call |-> None, todo |-> <<>>,
               clean |-> IF run.call = "done" /\ ok THEN TRUE ELSE run.clean /\ ok]

Return == /\ run.call # None /\ run.todo = <<>> /\ cmd[Runner].at = "idle"
          /\ End(TRUE, FALSE)
          /\ UNCHANGED <<rateVars, labels, comments, history>>

(***************************************************************************)
(* The runner's commands.                                                  *)
(***************************************************************************)
Now == Head(run.todo)

RunnerLook == /\ run.todo # <<>> /\ Look(Runner, Scope[Now.op])
              /\ UNCHANGED <<labels, comments, run, history>>
RunnerClear == Clear(Runner) /\ UNCHANGED <<labels, comments, run, history>>

\* A lookup that fails for any reason is a marker that is not there.
Blind == /\ run' = [run EXCEPT !.todo = Tail(@)]
         /\ history' = [history EXCEPT !.blind = TRUE]

RunnerThrottled == /\ Throttle(Runner)
                   /\ IF Now.op = "view" THEN Blind
                      ELSE End(FALSE, TRUE) /\ UNCHANGED history
                   /\ UNCHANGED <<labels, comments>>

\* The command's work on the issue.
Change == CASE Now.op = "add"     -> labels' = labels \cup Now.what /\ UNCHANGED comments
            [] Now.op = "remove"  -> labels' = labels \ Now.what /\ UNCHANGED comments
            [] Now.op = "comment" -> comments' = Append(comments, Now.what) /\ UNCHANGED labels
            [] Now.op = "view"    -> UNCHANGED <<labels, comments>>

RunnerSend(a) ==
  /\ a.kind # "ok" => history.troubles < MaxTroubles
  /\ a.headers # NoHeaders => run.call \in Contended
  /\ Send(Runner, a)
  /\ history' = IF a.kind = "ok" THEN history
                ELSE [history EXCEPT !.troubles = @ + 1]
  /\ \/ a.kind \in {"ok", "failed"} /\ Change
     \/ a.kind # "ok" /\ UNCHANGED <<labels, comments>>
  /\ UNCHANGED run

\* Faulty variant: the lookup finds no marker, as for a marker without the run.
SeenNever(stage) == FALSE

\* issue_has_comment_marker: among the last comments get_issue returns.
Seen(stage) ==
  \E i \in 1..Len(comments) : comments[i] = stage /\ i > Len(comments) - MaxComments

\* claim_task goes on when its label is "not found" on the platform.
LabelMissing == run.call = "claim" /\ Now.op = "add" /\ Now.what \cap labels = {}

RunnerRecord ==
  /\ Record(Runner)
  /\ LET kind == cmd[Runner].answer.kind IN
       IF Now.op = "view" THEN
         IF kind # "ok" THEN Blind
         ELSE /\ run' = [run EXCEPT !.todo = IF Seen(Now.what) THEN <<>> ELSE Tail(@)]
              /\ UNCHANGED history
       ELSE /\ \/ kind = "ok" /\ run' = [run EXCEPT !.todo = Tail(@)]
               \/ kind = "failed" /\ LabelMissing
                  /\ run' = [run EXCEPT !.todo = Tail(@), !.clean = FALSE]
               \/ kind # "ok" /\ End(FALSE, kind = "refused")
            /\ UNCHANGED history
  /\ UNCHANGED <<labels, comments>>

(***************************************************************************)
(* The process dies.  What the run had to do it does again when it is      *)
(* resumed, except the claim.                                              *)
(***************************************************************************)
Crash ==
  /\ run.call # None /\ history.crashes < MaxCrashes
  /\ history' = [history EXCEPT !.crashes = @ + 1]
  /\ IF cmd[Runner].at = "idle" THEN UNCHANGED rateVars ELSE Drop(Runner)
  /\ run' = [phase |-> IF run.call = "claim" THEN "over"
                       ELSE IF run.call = "in_review" THEN "commented" ELSE run.phase,
             call |-> None, todo |-> <<>>, clean |-> FALSE]
  /\ UNCHANGED <<labels, comments>>

\* Somebody comments on the issue, while the result is published (a bound).
Remark == /\ run.call = "result"
          /\ Len(SelectSeq(comments, LAMBDA c : c = "remark")) < MaxRemarks
          /\ comments' = Append(comments, "remark")
          /\ UNCHANGED <<rateVars, labels, run, history>>

\* Another process uses the platform.
Others == /\ run.call \in Contended
          /\ \E p \in Procs \ {Runner} :
               \/ \E b \in Shared : Look(p, b)
               \/ Clear(p) \/ Throttle(p)
               \/ \E a \in CanAnswer : Send(p, a)
          /\ UNCHANGED <<labels, comments, run, history>>

OthersRecord == /\ \E p \in Procs \ {Runner} : Record(p)
                /\ UNCHANGED <<labels, comments, run, history>>

Pass == Wait /\ UNCHANGED <<labels, comments, run, history>>

Work == \/ RunnerLook \/ RunnerClear \/ RunnerThrottled \/ RunnerRecord \/ Return
        \/ \E a \in CanAnswer : RunnerSend(a)

Next == CallSomething \/ ResumeSilently \/ Work \/ Crash \/ Remark \/ Others
        \/ OthersRecord \/ Pass

\* Time passes, and a process that has started a command goes on with it.
Fairness == WF_vars(Pass) /\ WF_vars(Work) /\ WF_vars(OthersRecord)

Spec == Init /\ [][Next]_vars /\ Fairness

(***************************************************************************)
(* Properties                                                              *)
(***************************************************************************)
\* A run comments once on each of its stages, however often it is blocked,
\* resumed or killed between the comment and the note that it was made: unless
\* a lookup failed, or others wrote more than get_issue returns.
CommentedOnce ==
  ~history.blind =>
     \A i, j \in 1..Len(comments) :
        i < j /\ comments[i] = comments[j] => comments[i] = "remark" \/ j - i > MaxComments

\* The labels of a run whose commands have all succeeded so far, each phase
\* whatever phases came before it.
Shown == CASE run.phase = "new"       -> {}
           [] run.phase = "working"   -> {"work"}
           [] run.phase = "commented" -> {"work"}
           [] run.phase = "waiting"   -> {"blocked"}
           [] run.phase = "over"      -> {}
           [] run.phase \in {"reviewed", "completed"} -> {"in_review"}

\* Between two calls the labels say what the run is doing, if no command has
\* failed; and a run completed without a pull request shows done and nothing
\* else whatever has failed before.
LabelsTell ==
  run.call = None /\ run.clean =>
     \/ labels = Shown \cap Configured
     \/ run.phase = "completed" /\ labels = {"done"} \cap Configured
================================================================================
