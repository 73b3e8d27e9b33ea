------------------------------- MODULE RunStore -------------------------------
(***************************************************************************)
(* One run in the durable store (src/gg/orchestrator/store.py): state.json *)
(* and pipeline.jsonl, and the gg processes that load, change and write    *)
(* them.  A write is a read of the old file, an atomic replacement, and    *)
(* then one append per event; a load appends the events the log is missing.*)
(* A process can die between any two of these.                             *)
(*                                                                         *)
(* Three kinds of process use a run.  Runners (gg run / resume / provide)  *)
(* change it under the lock of its issue; Operators (gg cancel, gg retry)  *)
(* load and write it without that lock; Reporters (gg report) only load.   *)
(* The run lock, taken by gg cancel alone, excludes no other kind.         *)
(*                                                                         *)
(* Two things make the lock leak.  Under gg run the signal handler loads,  *)
(* marks and writes the run in the middle of what the process was doing,   *)
(* which then goes on with its own copy.  And the except clauses of        *)
(* run_issue write the failure when the lock has been released.            *)
(***************************************************************************)
EXTENDS RunState

CONSTANTS Runners, Operators, Reporters, \* the processes, by kind
          Targets,        \* the states the callers of the store move to
          Overlap,        \* may a process start while another is running
          MaxTransitions, \* bound on the length of a history
          MaxCrashes,     \* bound on the processes that die
          MaxSignals,     \* bound on the signals handled
          MaxTorn,        \* how many of them tear the line they append
          NoOne           \* not a process

ASSUME ProcessAssumption == /\ Runners \cap Operators = {}
                            /\ Runners \cap Reporters = {}
                            /\ Operators \cap Reporters = {}
                            /\ NoOne \notin Runners \cup Operators \cup Reporters
ASSUME TargetAssumption == Targets \subseteq TaskState
ASSUME BoundAssumption == /\ Overlap \in BOOLEAN
                          /\ MaxTransitions \in Nat
                          /\ MaxCrashes \in Nat
                          /\ MaxSignals \in Nat
                          /\ MaxTorn \in Nat

Procs == Runners \cup Operators \cup Reporters

VARIABLES
  exists,   \* state.json is there
  disk,     \* its transitions
  created,  \* how many run_created lines pipeline.jsonl has
  log,      \* its state_transition lines: the states moved to
  torn,     \* its last line has no end
  holder,   \* the process inside the issue lock
  pc,       \* where each process is
  mem,      \* the RunState object it works on
  src,      \* the history it last read, or whose events it is appending
  pos,      \* the next entry of src to append
  owe,      \* it has a run_created line to append first
  active,   \* the process whose _active_run_id is this run
  frame,    \* what the signal handler interrupted in that process
  crashes,  \* how many processes died
  signals,  \* how many signals were handled
  marked,   \* the last transition on disk is the handler's (an observer)
  crossed   \* a writer without the lock met another writer (an observer)

files == <<exists, disk, created, log, torn>>
local == <<mem, src, pos, owe>>
main == <<active, frame, signals>>
vars == <<files, holder, pc, local, main, crashes, marked, crossed>>

\* Nothing is interrupted.
NoFrame == [pc |-> "idle", mem |-> <<>>, src |-> <<>>, pos |-> 1, owe |-> FALSE,
            wrote |-> FALSE]

Init == /\ exists = FALSE /\ disk = <<>>
        /\ created = 0 /\ log = <<>> /\ torn = FALSE
        /\ holder = NoOne
        /\ pc = [p \in Procs |-> "idle"]
        /\ mem = [p \in Procs |-> <<>>]
        /\ src = [p \in Procs |-> <<>>]
        /\ pos = [p \in Procs |-> 1]
        /\ owe = [p \in Procs |-> FALSE]
        /\ active = NoOne /\ frame = NoFrame
        /\ crashes = 0 /\ signals = 0
        /\ marked = FALSE /\ crossed = FALSE

Goto(p, l) == pc' = [pc EXCEPT ![p] = l]

MayStart(p) == /\ pc[p] = "idle"
               /\ Overlap \/ \A q \in Procs : pc[q] = "idle"

\* The process ends, orderly or not: its memory is gone and its flock released.
Exit(p) == /\ Goto(p, "idle")
           /\ holder' = IF holder = p THEN NoOne ELSE holder
           /\ mem' = [mem EXCEPT ![p] = <<>>]
           /\ src' = [src EXCEPT ![p] = <<>>]
           /\ pos' = [pos EXCEPT ![p] = 1]
           /\ owe' = [owe EXCEPT ![p] = FALSE]
           /\ active' = IF active = p THEN NoOne ELSE active
           /\ frame' = IF active = p THEN NoFrame ELSE frame

\* Process p runs the signal handler on top of what it was doing.
Handling(p) == active = p /\ frame.pc # "idle"

\* The copy of the run that the commands of p work on.
Copy(p) == IF Handling(p) THEN frame.mem ELSE mem[p]

\* p is in the except clauses of run_issue, behind the lock.
Escaped(p) == active = p /\ holder # p

\* p may write the run; p is at it.
Writer(p) == holder = p \/ Escaped(p) \/ p \in Operators
Writing(p) == pc[p] # "idle" /\ Writer(p)

Crossing == \E p, q \in Procs : p # q /\ Writing(p) /\ Writing(q)

\* run_issue takes the lock and builds the RunState; store.write(state) is next.
StartCreate(p) == /\ p \in Runners
                  /\ MayStart(p) /\ ~exists /\ holder = NoOne
                  /\ holder' = p
                  /\ mem' = [mem EXCEPT ![p] = <<>>]
                  /\ active' = p
                  /\ Goto(p, "ready")
                  /\ UNCHANGED <<files, src, pos, owe, frame, signals, crashes, marked>>

\* _load_state_file: what the process read is the copy it works on.
ReadState(p) == /\ mem' = [mem EXCEPT ![p] = disk]
                /\ src' = [src EXCEPT ![p] = disk]
                /\ Goto(p, "count")

\* The first load of resume, provide, retry, cancel and report: no lock is held.
StartLoad(p) == /\ MayStart(p) /\ exists
                /\ ReadState(p)
                /\ UNCHANGED <<files, holder, pos, owe, main, crashes, marked>>

\* Faulty variant: the copy loaded before the lock is used inside it.
AcquireStale(p) == /\ p \in Runners /\ active # p
                   /\ pc[p] = "ready" /\ holder = NoOne /\ exists
                   /\ holder' = p
                   /\ UNCHANGED <<files, local, pc, main, crashes, marked>>

\* resume and provide enter the lock of the issue and load again.
Acquire(p) == /\ p \in Runners /\ active # p
              /\ pc[p] = "ready" /\ holder = NoOne /\ exists
              /\ holder' = p
              /\ ReadState(p)
              /\ UNCHANGED <<files, pos, owe, main, crashes, marked>>

\* A look at the latest state that leaves the copy worked on alone
\* (_cancelled_response and _merge_cancel_request when nothing was cancelled).
Peek(p) == /\ pc[p] = "ready" /\ holder = p /\ exists /\ ~Handling(p)
           /\ src' = [src EXCEPT ![p] = disk]
           /\ Goto(p, "count")
           /\ UNCHANGED <<files, holder, mem, pos, owe, main, crashes, marked>>

\* Faulty variants: the slice of the reconciliation starts one entry early,
\* resp. nothing is reconciled.
CountEarly(p) == /\ pc[p] = "count"
                 /\ pos' = [pos EXCEPT ![p] = Len(log)]
                 /\ owe' = [owe EXCEPT ![p] = (created = 0)]
                 /\ Goto(p, "append")
                 /\ UNCHANGED <<files, holder, mem, src, main, crashes, marked>>
CountNothing(p) == /\ pc[p] = "count"
                   /\ Goto(p, "ready")
                   /\ UNCHANGED <<files, holder, local, main, crashes, marked>>

\* _reconcile_event_log counts what is logged; it will append the rest of src.
Count(p) == /\ pc[p] = "count"
            /\ pos' = [pos EXCEPT ![p] = Len(log) + 1]
            /\ owe' = [owe EXCEPT ![p] = (created = 0)]
            /\ Goto(p, "append")
            /\ UNCHANGED <<files, holder, mem, src, main, crashes, marked>>

\* A line appended behind an unfinished one makes a single unreadable line.
AppendCreated(p) == /\ pc[p] = "append" /\ owe[p]
                    /\ created' = IF torn THEN created ELSE created + 1
                    /\ torn' = FALSE
                    /\ owe' = [owe EXCEPT ![p] = FALSE]
                    /\ UNCHANGED <<exists, disk, log, holder, pc, mem, src, pos,
                                   main, crashes, marked>>

AppendTransition(p) == /\ pc[p] = "append" /\ ~owe[p] /\ pos[p] <= Len(src[p])
                       /\ log' = IF torn THEN log ELSE Append(log, src[p][pos[p]])
                       /\ torn' = FALSE
                       /\ pos' = [pos EXCEPT ![p] = @ + 1]
                       /\ UNCHANGED <<exists, disk, created, holder, pc, mem, src, owe,
                                      main, crashes, marked>>

Appended(p) == /\ pc[p] = "append" /\ ~owe[p] /\ pos[p] > Len(src[p])
               /\ Goto(p, "ready")
               /\ UNCHANGED <<files, holder, local, main, crashes, marked>>

\* The caller moves the run it holds in memory.  cancel and retry have one move.
Transition(p, t) ==
  /\ pc[p] = "ready" /\ t \in Targets /\ ~Handling(p)
  /\ \/ holder = p /\ exists
     \/ p \in Operators /\ t \in {"Cancelled", "ReadyForExecution"}
  /\ CanMove(StateOf(mem[p]), t)
  /\ Len(mem[p]) < MaxTransitions
  /\ mem' = [mem EXCEPT ![p] = Append(@, t)]
  /\ UNCHANGED <<files, holder, pc, src, pos, owe, main, crashes, marked>>

\* Faulty variants: no refusal; all the transitions are logged at each write.
NeverRefused(p) == FALSE
BeginWriteLogAll(p) == /\ pc[p] = "ready" /\ Writer(p) /\ ~(Handling(p) /\ frame.wrote)
                       /\ src' = [src EXCEPT ![p] = disk]
                       /\ pos' = [pos EXCEPT ![p] = 1]
                       /\ owe' = [owe EXCEPT ![p] = ~exists]
                       /\ frame' = IF Handling(p) THEN [frame EXCEPT !.wrote = TRUE] ELSE frame
                       /\ Goto(p, "replace")
                       /\ UNCHANGED <<files, holder, mem, active, signals, crashes, marked>>

\* write refuses to replace a terminal state by another one.
Refused(p) == exists /\ StateOf(disk) \in Terminal /\ StateOf(mem[p]) # StateOf(disk)

\* p has a write to begin; the handler writes once.
MayBegin(p) == pc[p] = "ready" /\ Writer(p) /\ ~(Handling(p) /\ frame.wrote)

\* write, first half: read what is there; its events are taken to be logged.
BeginWrite(p) == /\ MayBegin(p) /\ ~Refused(p)
                 /\ src' = [src EXCEPT ![p] = disk]
                 /\ pos' = [pos EXCEPT ![p] = Len(disk) + 1]
                 /\ owe' = [owe EXCEPT ![p] = ~exists]
                 /\ frame' = IF Handling(p) THEN [frame EXCEPT !.wrote = TRUE] ELSE frame
                 /\ Goto(p, "replace")
                 /\ UNCHANGED <<files, holder, mem, active, signals, crashes, marked>>

\* What the except clauses of run_issue make of the copy h: it failed or waits for
\* the rate limit, where that is a legal move.
Excepted(h) == IF StateOf(h) \in Terminal THEN {h}
               ELSE {Append(h, t) : t \in {x \in {"TerminalFailure", "Blocked"} :
                                             CanMove(StateOf(h), x)}}

\* An exception takes gg run out of the lock, and of the handler, to its last write.
Escape(p, h) == /\ h \in Excepted(Copy(p))
                /\ mem' = [mem EXCEPT ![p] = h]
                /\ holder' = NoOne
                /\ frame' = NoFrame
                /\ Goto(p, "ready")
                /\ UNCHANGED <<files, src, pos, owe, active, signals, crashes, marked>>

\* store.create has returned to run_issue, which has named its active run.
Created(p) == active = p /\ exists /\ (mem[p] # <<>> \/ pc[p] = "ready")

\* git, the platform or an agent raises under the lock of run_issue.
Throw(p) == /\ Created(p) /\ holder = p /\ pc[p] = "ready" /\ ~Handling(p)
            /\ Len(mem[p]) < MaxTransitions
            /\ \E h \in Excepted(mem[p]) : Escape(p, h)

\* The RuntimeError of a refused write ends the process, or gets gg run out of the
\* lock, where it fails the run and writes again.
RefuseWrite(p) == /\ MayBegin(p) /\ Refused(p)
                  /\ \/ Exit(p) /\ UNCHANGED <<files, signals, crashes, marked>>
                     \/ /\ active = p /\ holder = p
                        /\ \E h \in Excepted(Copy(p)) : Escape(p, h)

\* write, second half: state.json is replaced; _write_logs appends what is new.
Replace(p) == /\ pc[p] = "replace"
              /\ exists' = TRUE
              /\ disk' = mem[p]
              /\ src' = [src EXCEPT ![p] = mem[p]]
              /\ marked' = (Handling(p) /\ (marked \/ mem[p] # disk))
              /\ Goto(p, "append")
              /\ UNCHANGED <<created, log, torn, holder, mem, pos, owe, main, crashes>>

(***************************************************************************)
(* SIGINT or SIGTERM under gg run, at any step of the process: the handler *)
(* loads the run, marks it as interrupted, writes it and returns to where  *)
(* the process was, whose copy does not change.  (A signal in the handler  *)
(* would do the same on top of it, and is left out.)                       *)
(***************************************************************************)
Marked(h) == IF StateOf(h) \in Terminal \cup {"ReadyForExecution", "OutcomePublishing"}
               THEN h ELSE Append(h, "ReadyForExecution")

Signal(p) == /\ Created(p) /\ ~Handling(p) /\ signals < MaxSignals
             /\ signals' = signals + 1
             /\ frame' = [pc |-> pc[p], mem |-> mem[p], src |-> src[p], pos |-> pos[p],
                          owe |-> owe[p], wrote |-> FALSE]
             /\ mem' = [mem EXCEPT ![p] = Marked(disk)]
             /\ src' = [src EXCEPT ![p] = disk]
             /\ Goto(p, "count")
             /\ UNCHANGED <<files, holder, pos, owe, active, crashes, marked>>

HandlerReturn(p) == /\ Handling(p) /\ pc[p] = "ready" /\ frame.wrote
                    /\ Goto(p, frame.pc)
                    /\ mem' = [mem EXCEPT ![p] = frame.mem]
                    /\ src' = [src EXCEPT ![p] = frame.src]
                    /\ pos' = [pos EXCEPT ![p] = frame.pos]
                    /\ owe' = [owe EXCEPT ![p] = frame.owe]
                    /\ frame' = NoFrame
                    /\ UNCHANGED <<files, holder, active, signals, crashes, marked>>

Finish(p) == /\ pc[p] = "ready" /\ exists /\ ~Handling(p)
             /\ Exit(p)
             /\ UNCHANGED <<files, signals, crashes, marked>>

Crash(p) == /\ pc[p] # "idle" /\ crashes < MaxCrashes
            /\ crashes' = crashes + 1
            /\ Exit(p)
            /\ UNCHANGED <<files, signals, marked>>

\* The machine goes down while a line is written: part of it is in the file.
TornCrash(p) == /\ pc[p] = "append" /\ crashes < MaxTorn /\ crashes < MaxCrashes
                /\ owe[p] \/ pos[p] <= Len(src[p])
                /\ torn' = TRUE
                /\ crashes' = crashes + 1
                /\ Exit(p)
                /\ UNCHANGED <<exists, disk, created, log, signals, marked>>

Step(p) == \/ StartCreate(p) \/ StartLoad(p) \/ Acquire(p) \/ Peek(p)
           \/ Count(p) \/ AppendCreated(p) \/ AppendTransition(p) \/ Appended(p)
           \/ \E t \in TaskState : Transition(p, t)
           \/ BeginWrite(p) \/ RefuseWrite(p) \/ Replace(p) \/ Finish(p)
           \/ Signal(p) \/ HandlerReturn(p) \/ Throw(p)

Next == /\ \E p \in Procs : Step(p) \/ Crash(p) \/ TornCrash(p)
        /\ crossed' = (crossed \/ Crossing')

Spec == Init /\ [][Next]_vars
-------------------------------------------------------------------------------
Label == {"idle", "count", "append", "ready", "replace"}

Frame == [pc : Label, mem : Seq(TaskState), src : Seq(TaskState), pos : Nat \ {0},
          owe : BOOLEAN, wrote : BOOLEAN]

TypeOK == /\ exists \in BOOLEAN
          /\ disk \in Seq(TaskState)
          /\ created \in Nat
          /\ log \in Seq(TaskState)
          /\ torn \in BOOLEAN
          /\ holder \in Runners \cup {NoOne}
          /\ pc \in [Procs -> Label]
          /\ mem \in [Procs -> Seq(TaskState)]
          /\ src \in [Procs -> Seq(TaskState)]
          /\ pos \in [Procs -> Nat \ {0}]
          /\ owe \in [Procs -> BOOLEAN]
          /\ active \in Runners \cup {NoOne}
          /\ frame \in Frame
          /\ crashes \in Nat /\ signals \in Nat
          /\ marked \in BOOLEAN /\ crossed \in BOOLEAN

(***************************************************************************)
(* The log agrees with state.json: the transitions it shows are a prefix   *)
(* of those recorded, each once and in order, whatever died in between,    *)
(* until a signal is handled.  (The log keeps the handler's transition,    *)
(* and the one that takes its place in state.json is never appended.)      *)
(***************************************************************************)
LogIsPrefix == signals = 0 => Extends(disk, log) /\ created <= 1

\* A load repairs the log: a process that has loaded or written the run, and
\* appended its events, leaves every transition and the creation in the log.
LogRepaired == \A p \in Procs :
  pc[p] = "ready" /\ exists /\ signals = 0 => log = disk /\ created = 1

(***************************************************************************)
(* Whoever is about to write the run has in its copy every transition on   *)
(* disk, so that no write loses one that another process recorded, but one:*)
(* the mark that its own signal handler made.  Writers that meet without   *)
(* the lock lose more; until they do, nothing is lost.                     *)
(***************************************************************************)
Allowing(h, g) == \/ Extends(h, g)
                  \/ marked /\ Len(g) > 0 /\ Extends(h, SubSeq(g, 1, Len(g) - 1))

NoLostTransition ==
  ~crossed => \A p \in Procs : Writing(p) => /\ Allowing(Copy(p), disk)
                                             /\ active # p => Extends(Copy(p), disk)

\* state.json implements the abstract history: of an interrupted process, the mark can
\* be taken back, and the promise ends where two writers met without the lock.
History == INSTANCE RunHistory
             WITH born <- exists, history <- disk, mark <- marked, broken <- crossed
HistorySpec == History!HSpec

\* "Terminal runs are immutable": no write replaces the history of a finished run, as
\* long as no writer without the lock met another one.
TerminalImmutable ==
  [][exists /\ StateOf(disk) \in Terminal /\ ~crossed' => disk' = disk]_vars

\* Where writers race, a finished run is reopened only by a write that read the file
\* before the run had finished.
ReopenNeedsRace ==
  [][\A p \in Procs : /\ exists /\ StateOf(disk) \in Terminal
                       /\ pc[p] = "replace" /\ pc'[p] # "replace"
                       /\ StateOf(disk') # StateOf(disk)
                         => src[p] # disk]_vars
-------------------------------------------------------------------------------
(***************************************************************************)
(* The inductive invariants of the proofs.  Until writers meet, there is   *)
(* one, and what it holds in memory extends what is on disk, its own mark  *)
(* aside.                                                                  *)
(***************************************************************************)
Fresh == /\ ~Crossing
         /\ marked => StateOf(disk) = "ReadyForExecution"
         /\ \A p \in Procs :
              Writing(p) => /\ Allowing(Copy(p), disk)
                            /\ active # p => Extends(Copy(p), disk)
         /\ \A p \in Procs : Handling(p) /\ (~frame.wrote \/ pc[p] = "replace")
                               => mem[p] = Marked(disk)

LockInv == /\ ~exists => disk = <<>> /\ frame = NoFrame
           /\ LegalHistory(disk) /\ LegalHistory(frame.mem)
           /\ active = NoOne => frame = NoFrame
           /\ active \in {NoOne, holder} \/ exists
           /\ \A p \in Procs : /\ LegalHistory(mem[p])
                               /\ pc[p] = "replace" => Writer(p)
                               /\ holder = p \/ active = p => pc[p] # "idle"
           /\ ~crossed => Fresh

\* One process at a time (~Overlap, MaxTorn = 0), until a signal is handled: what is
\* left to append is exactly what the log is missing.
Appending ==
  /\ ~torn /\ LogIsPrefix /\ frame = NoFrame
  /\ ~exists => disk = <<>> /\ log = <<>> /\ created = 0
  /\ \A p \in Procs :
       /\ pc[p] # "idle" => Extends(mem[p], disk)
       /\ pc[p] = "count" => exists /\ src[p] = disk
       /\ pc[p] = "append" => /\ exists /\ src[p] = disk
                              /\ pos[p] = Len(log) + 1
                              /\ (owe[p] <=> created = 0)
       /\ pc[p] = "ready" /\ exists => log = disk /\ created = 1
       /\ pc[p] = "replace" => /\ log = disk
                               /\ pos[p] = Len(log) + 1
                               /\ (owe[p] <=> created = 0)
                               /\ (exists <=> created = 1)

Alone == \A p, q \in Procs : pc[p] # "idle" /\ pc[q] # "idle" => p = q

LogInv == Alone /\ (signals = 0 => Appending)
===============================================================================
