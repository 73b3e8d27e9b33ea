------------------------------ MODULE RunHistory ------------------------------
(***************************************************************************)
(* What state.json promises about one run, with no processes and no files: *)
(* the run is created once, its history of transitions only ever grows, by *)
(* legal moves, and a terminal run is immutable.  Two exceptions belong to *)
(* the promise: an interrupted process that goes on takes the mark of the  *)
(* interruption back, and nothing is promised from the moment at which two *)
(* writers have met without the lock of the issue.                         *)
(***************************************************************************)
EXTENDS RunState

VARIABLES born,     \* the run has been created
          history,  \* the transitions of the run, oldest first
          mark,     \* the last of them marks an interruption
          broken    \* two writers have met

hvars == <<born, history, mark, broken>>

HInit == born = FALSE /\ history = <<>> /\ mark = FALSE /\ broken = FALSE

\* RunStore.create.
Create(h) == /\ ~born
             /\ born' = TRUE
             /\ history' = h
             /\ mark' = FALSE

\* One store.write persists the moves made since the last one, if any.
Extend(h) == /\ born
             /\ StateOf(history) \notin Terminal
             /\ Extends(h, history)
             /\ history' = h
             /\ mark' = FALSE
             /\ UNCHANGED born

\* The signal handler leaves the run ready to be resumed.
Interrupt == /\ born
             /\ StateOf(history) \notin Terminal \cup {"ReadyForExecution"}
             /\ history' = Append(history, "ReadyForExecution")
             /\ mark' = TRUE
             /\ UNCHANGED born

\* The interrupted process writes what it makes of the run without the mark.
GoOn(h) == /\ mark /\ history # <<>>
           /\ Extends(h, SubSeq(history, 1, Len(history) - 1))
           /\ history' = h
           /\ mark' = FALSE
           /\ UNCHANGED born

HNext == /\ history' \in Seq(TaskState)
         /\ LegalHistory(history')
         /\ broken => broken'
         /\ broken' \/ Create(history') \/ Extend(history') \/ Interrupt \/ GoOn(history')

HSpec == HInit /\ [][HNext]_hvars
===============================================================================
