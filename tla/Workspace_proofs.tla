--------------------------- MODULE Workspace_proofs ---------------------------
(***************************************************************************)
(* What runs of one project and gg clean leave each other on the disk, for *)
(* any number of issues, runs and attempts, and any number of crashes,     *)
(* resumes, cancellations and cleans.                                      *)
(***************************************************************************)
EXTENDS Workspace, TLAPS

Integrations == {Integration(c) : c \in Candidates}

RunRec == [st : Statuses, issue : Issues \union {NoIssue}, state : BOOLEAN,
           arts : BOOLEAN, attempt : 1..MaxAttempts, tried : SUBSET Candidates,
           running : SUBSET Candidates, path : SUBSET Candidates, baseline : BOOLEAN,
           winner : Candidates \union {Nothing}, integ : Integrations \union {Nothing},
           cancel : BOOLEAN]

Pcs == {"idle", "selected", "body", "snapshot", "baseline", "verified", "plan", "create",
        "record", "work", "decide", "integrate", "integrated", "apply"}

ProcRec == [pc : Pcs, issue : Issues \union {NoIssue}, entry : {"run", "resume"},
            cand : Candidates \union {Nothing}]

FlowTypes == /\ runs \in [Runs -> RunRec] /\ proc \in [Runs -> ProcRec]
             /\ trees \subseteq Runs \X Names /\ branches \subseteq Runs \X Names
             /\ objects \subseteq Objects /\ left \in 0..MaxTroubles

\* What gg clean lists is of the kind its phase removes.
CleanTypes ==
  /\ clean = [pc |-> clean.pc, todo |-> clean.todo, run |-> clean.run, copy |-> clean.copy]
  /\ clean.pc \in {"idle", "terminal", "stale", "orphans", "objects"}
  /\ clean.run \in Runs \union {NoRun} /\ clean.copy \in RunRec
  /\ clean.pc \in {"terminal", "stale"} => clean.todo \subseteq Runs \X RunRec
  /\ clean.pc = "orphans" => clean.todo \subseteq Runs \X Names
  /\ archive \in [Runs -> [made : BOOLEAN, removed : SUBSET Names]]
  /\ swept \subseteq Runs
  /\ quiet \in BOOLEAN

\* A process that holds the lock on its issue.
Held(r) == proc[r].pc \notin {"idle", "selected"}

\* It works on a run of that issue that is not over; a run that was not made is blank.
WorkingAt(r) == /\ ~At(r, "idle") => proc[r].issue \in Issues
                /\ Held(r) => /\ proc[r].issue = runs[r].issue
                              /\ runs[r].st \notin Over \union {"none"}
                /\ At(r, "selected") => runs[r].st = "none"
                /\ runs[r].st = "none" => runs[r] = Blank
                /\ runs[r].st # "none" => runs[r].issue \in Issues
Working == \A r \in Runs : WorkingAt(r)

\* The other runs of its issue rest, and failed or were cancelled, or are not there.
Alone ==
  \A r, s \in Runs : r # s /\ Held(r) /\ runs[r].issue = runs[s].issue
    => /\ ~Held(s)
       /\ Known(s) => runs[s].st \in {"failed", "cancelled"}

\* Candidates that have a worktree, run or won were tried, in this attempt or before.
TriedAt(r) == /\ runs[r].running \union runs[r].path \subseteq runs[r].tried
              /\ \A c \in runs[r].tried : c[2] <= runs[r].attempt
              /\ proc[r].pc \in {"create", "record", "work", "decide"}
                   => proc[r].cand \in runs[r].tried
              /\ runs[r].st = "publishing" => runs[r].winner \in Candidates
              /\ proc[r].pc \in {"integrate", "integrated", "apply"}
                   => runs[r].st = "publishing"
Tried == \A r \in Runs : TriedAt(r)

\* The suffixes of an attempt are used one after the other, one for each process that
\* gets to plan; Spent(r) when the process of r did, or there is none.
Spent(r) == proc[r].pc \in {"idle", "create", "record", "work", "decide", "integrate",
                            "integrated", "apply"}
Suffixes(r, k) == \A n \in Nat : Candidate(runs[r].attempt, n) \in runs[r].tried <=> n \in 1..k
RoomAt(r) == \E k \in Nat : /\ Suffixes(r, k)
                             /\ k + left <= MaxTroubles + (IF Spent(r) THEN 1 ELSE 0)
Room == \A r \in Runs : RoomAt(r)

\* What has the name of a candidate was made for it.
MadeForAt(r) == \A c \in Candidates :
                  <<r, c>> \in trees \union branches =>
                    c \in runs[r].tried /\ ~(At(r, "create") /\ proc[r].cand = c)
MadeFor == \A r \in Runs : MadeForAt(r)

\* No clean that nothing overlaps sees a process.
Calm == quiet /\ ~In("idle") => ~Busy

\* The summary of a run names what its state recorded; what it names is gone.
Says(r) == runs[r].path \union {n \in {Baseline} : runs[r].baseline} \subseteq archive[r].removed
Gone(r) == \A n \in archive[r].removed : <<r, n>> \notin trees

\* A clean lists each run once and as it is, and removes one that it archived, its
\* worktrees first.
ListedRuns ==
  /\ clean.pc \in {"terminal", "stale"} =>
       /\ \A t \in clean.todo :
            /\ t[2].st \in {"waiting"} \union Over /\ t[1] # clean.run
            /\ quiet => /\ Known(t[1]) /\ t[2].path = runs[t[1]].path
                        /\ t[2].baseline = runs[t[1]].baseline
       /\ \A t, u \in clean.todo : t[1] = u[1] => t = u

Archived ==
  clean.run # NoRun =>
    /\ clean.pc \in {"terminal", "stale"}
    /\ archive[clean.run].made
    /\ quiet => /\ Says(clean.run)
                /\ clean.copy # Blank => archive[clean.run].removed = Paths(clean.run, clean.copy)
                /\ clean.copy = Blank => Gone(clean.run)

Listed == ListedRuns /\ Archived

\* Nothing works any more on a run that a clean removed.
Retired ==
  \A r \in Runs : runs[r].st # "none" /\ ~Known(r)
    => /\ archive[r].made
       /\ quiet => Says(r) /\ Gone(r) /\ At(r, "idle")

\* Nothing that is listed as unused is used.
Unused == quiet => /\ In("orphans") => clean.todo \intersect Referenced = {}
                   /\ In("objects") => clean.todo \intersect Named = {}

\* The worktree of a candidate is there when its path is recorded.
Recorded ==
  \A r \in Runs : quiet /\ At(r, "record") /\ ~runs[r].cancel => <<r, proc[r].cand>> \in trees

\* The snapshot and the worktrees of a run are there.
Sound(r) == /\ Snapshot(r) \subseteq objects
            /\ ~runs[r].cancel => \A n \in runs[r].path : <<r, n>> \in trees
UsableAt(r) == quiet /\ Known(r) /\ runs[r].st \notin Over /\ ~archive[r].made => Sound(r)
Provided == \A r \in Runs : UsableAt(r)

\* The integration of a publication: its branch stays, its worktree until it is swept.
Integ(r) == Integration(runs[r].winner)
IntegAt(r) ==
  quiet /\ ~archive[r].made /\ runs[r].st \notin Over =>
    /\ At(r, "integrated") => <<r, Integ(r)>> \in trees \intersect branches
    /\ runs[r].integ # Nothing =>
         /\ runs[r].st = "publishing" /\ runs[r].integ = Integ(r)
         /\ Held(r) => At(r, "integrate") \/ At(r, "apply")
         /\ <<r, Integ(r)>> \in branches
         /\ <<r, Integ(r)>> \in trees <=> r \notin swept
    /\ r \in swept => runs[r].integ # Nothing
Integrated == \A r \in Runs : IntegAt(r)

\* A step of the process of r, or of an operator on r.
Moves(r) == RunStep(r) \/ Resume(r) \/ Cancel(r) \/ \E i \in Issues : Select(r, i)

IInv == /\ FlowTypes /\ CleanTypes /\ Working /\ Alone /\ OneRunPerIssue
        /\ Tried /\ Room /\ MadeFor
        /\ Calm /\ Listed /\ Retired /\ Unused /\ Recorded /\ Provided /\ Integrated

\* Names and the bounds of the model.
LEMMA Bounds == /\ MaxAttempts \in Nat /\ 1 <= MaxAttempts /\ MaxTroubles \in Nat
                /\ NoIssue \notin Issues /\ NoRun \notin Runs
BY WorktreesAssumption, CleanerAssumption

\* A run that is not there has a state like any other.
LEMMA BlankTyped == Blank \in RunRec /\ Idle \in ProcRec
<1>1. 1 \in 1..MaxAttempts
  BY Bounds
<1>2. QED BY <1>1 DEF Blank, Idle, RunRec, ProcRec, Pcs, Statuses

\* The changes a step writes.
LEMMA StateTyped ==
  ASSUME NEW run \in RunRec
  PROVE  /\ \A st \in Statuses : [run EXCEPT !.st = st] \in RunRec
         /\ \A st \in Statuses, i \in Issues \union {NoIssue} :
              [run EXCEPT !.st = st, !.issue = i] \in RunRec
         /\ \A st \in Statuses : [run EXCEPT !.arts = TRUE, !.st = st] \in RunRec
         /\ \A st \in Statuses : [run EXCEPT !.baseline = TRUE, !.st = st] \in RunRec
         /\ \A st \in Statuses : [run EXCEPT !.running = {}, !.st = st] \in RunRec
         /\ \A st \in Statuses : [run EXCEPT !.st = st, !.running = {}] \in RunRec
         /\ \A st \in Statuses, c \in Candidates : [run EXCEPT !.st = st, !.winner = c] \in RunRec
         /\ [run EXCEPT !.cancel = TRUE] \in RunRec
         /\ \A b \in BOOLEAN : [run EXCEPT !.state = b] \in RunRec
BY DEF RunRec

LEMMA WorkTyped ==
  ASSUME NEW run \in RunRec, NEW c \in Candidates
  PROVE  /\ [run EXCEPT !.tried = run.tried \union {c}, !.running = {c}] \in RunRec
         /\ [run EXCEPT !.path = run.path \union {c}] \in RunRec
         /\ [run EXCEPT !.running = {}, !.path = run.path \union {c}] \in RunRec
         /\ [run EXCEPT !.integ = Integration(c)] \in RunRec
         /\ run.attempt < MaxAttempts =>
              /\ [run EXCEPT !.attempt = run.attempt + 1] \in RunRec
              /\ \A st \in Statuses :
                   [run EXCEPT !.attempt = run.attempt + 1, !.st = st, !.integ = Nothing] \in RunRec
<1>1. run.attempt < MaxAttempts => run.attempt + 1 \in 1..MaxAttempts
  BY Bounds DEF RunRec
<1>2. Integration(c) \in Integrations
  BY DEF Integrations
<1>3. QED BY <1>1, <1>2 DEF RunRec

\* What a step writes, and where it goes, is of the right kind.
LEMMA WriteTyped ==
  ASSUME runs \in [Runs -> RunRec], NEW r \in Runs, NEW run \in RunRec, Write(r, run)
  PROVE  runs' \in [Runs -> RunRec]
BY StateTyped DEF Write

LEMMA GotoTyped ==
  ASSUME proc \in [Runs -> ProcRec], NEW r \in Runs
  PROVE  /\ End(r) => proc' \in [Runs -> ProcRec]
         /\ \A pc \in Pcs : Goto(r, pc) => proc' \in [Runs -> ProcRec]
BY BlankTyped DEF End, Goto, ProcRec

LEMMA GoneTyped ==
  ASSUME runs \in [Runs -> RunRec], NEW q \in Runs
  PROVE  /\ [runs EXCEPT ![q].state = FALSE] \in [Runs -> RunRec]
         /\ [runs EXCEPT ![q].arts = FALSE] \in [Runs -> RunRec]
         /\ [runs EXCEPT ![q].state = FALSE, ![q].arts = FALSE] \in [Runs -> RunRec]
<1>1. [runs EXCEPT ![q].state = FALSE] \in [Runs -> RunRec]
  BY DEF RunRec
<1>2. [runs EXCEPT ![q].arts = FALSE] \in [Runs -> RunRec]
  BY DEF RunRec
<1>3. [runs EXCEPT ![q].state = FALSE, ![q].arts = FALSE] \in [Runs -> RunRec]
  BY DEF RunRec
<1>4. QED BY <1>1, <1>2, <1>3

LEMMA BreakTyped ==
  ASSUME FlowTypes, NEW r \in Runs, Break(r)
  PROVE  runs' \in [Runs -> RunRec] /\ proc' \in [Runs -> ProcRec]
<1>1. [runs[r] EXCEPT !.st = "failed"] \in RunRec
  BY StateTyped DEF FlowTypes, Statuses, Over
<1>2. QED BY <1>1, WriteTyped, GotoTyped DEF Break, FlowTypes

LEMMA CreateTyped ==
  ASSUME FlowTypes, NEW r \in Runs, NEW name \in Names, NEW pc \in Pcs, Create(r, name, pc)
  PROVE  FlowTypes'
<1>1. runs' \in [Runs -> RunRec] /\ proc' \in [Runs -> ProcRec]
  BY BreakTyped, GotoTyped DEF Create, FlowTypes
<1>2. <<r, name>> \in Runs \X Names
  OBVIOUS
<1>3. QED BY <1>1, <1>2 DEF Create, FlowTypes

\* Of the ids that are free one is chosen, the first.
LEMMA NextSuffix ==
  ASSUME NEW r \in Runs, NEW k \in Nat, Suffixes(r, k), k <= MaxTroubles,
         FlowTypes
  PROVE  /\ UniqueId(runs[r]) = Candidate(runs[r].attempt, k + 1)
         /\ Candidate(runs[r].attempt, k + 1) \in Candidates \ runs[r].tried
<1> DEFINE a == runs[r].attempt
           Is(c) == /\ c[2] = a /\ c \notin runs[r].tried
                    /\ \A n \in 1..(c[3] - 1) : Candidate(c[2], n) \in runs[r].tried
<1>1. a \in 1..MaxAttempts /\ k + 1 \in 1..(MaxTroubles + 1)
  BY Bounds DEF FlowTypes, RunRec
<1>2. Candidate(a, k + 1) \in Candidates \ runs[r].tried
  BY <1>1 DEF Candidates, Suffixes
<1>3. Is(Candidate(a, k + 1))
  BY <1>1, <1>2 DEF Suffixes, Candidate
<1>4. \A c \in Candidates : Is(c) => c = Candidate(a, k + 1)
  <2>1. SUFFICES ASSUME NEW b \in 1..MaxAttempts, NEW n \in 1..(MaxTroubles + 1),
                        Is(Candidate(b, n))
                 PROVE  Candidate(b, n) = Candidate(a, k + 1)
    BY DEF Candidates
  <2>2. b = a /\ n \in Nat \ {0} /\ ~(n \in 1..k)
    BY <2>1 DEF Suffixes, Candidate
  <2>3. n > k + 1 => Candidate(a, k + 1) \in runs[r].tried
    BY <2>1, <2>2 DEF Candidate
  <2>4. n = k + 1
    BY <2>2, <2>3, <1>2
  <2>5. QED BY <2>2, <2>4
<1>5. QED BY <1>2, <1>3, <1>4 DEF UniqueId

\* A process that plans finds a free id.
LEMMA RoomToPlan ==
  ASSUME FlowTypes, Room, NEW r \in Runs, At(r, "plan")
  PROVE  /\ UniqueId(runs[r]) \in Candidates \ runs[r].tried
         /\ UniqueId(runs[r])[2] = runs[r].attempt
         /\ \E k \in Nat : /\ Suffixes(r, k) /\ k + left <= MaxTroubles
                           /\ UniqueId(runs[r]) = Candidate(runs[r].attempt, k + 1)
<1>1. ~Spent(r)
  BY DEF At, Spent
<1>2. PICK k \in Nat : Suffixes(r, k) /\ k + left <= MaxTroubles + 0
  BY <1>1 DEF Room, RoomAt
<1>3. k <= MaxTroubles /\ k + left <= MaxTroubles
  BY <1>2, Bounds DEF FlowTypes
<1>4. /\ UniqueId(runs[r]) = Candidate(runs[r].attempt, k + 1)
      /\ UniqueId(runs[r]) \in Candidates \ runs[r].tried
  BY <1>2, <1>3, NextSuffix
<1>5. UniqueId(runs[r])[2] = runs[r].attempt
  BY <1>4 DEF Candidate
<1>6. QED BY <1>2, <1>3, <1>4, <1>5

\* Every step keeps the types of what the runs have.
LEMMA FlowStep ==
  ASSUME FlowTypes, CleanTypes, Working, Tried, Room, [Next]_vars
  PROVE  FlowTypes'
<1>1. ASSUME NEW r \in Runs, AlreadyClaimed(r) PROVE FlowTypes'
  BY <1>1, GotoTyped DEF AlreadyClaimed, FlowTypes, Disk
<1>2. ASSUME NEW r \in Runs, Claim(r) PROVE FlowTypes'
  <2>1. [runs[r] EXCEPT !.st = "new", !.issue = proc[r].issue] \in RunRec
    BY StateTyped DEF FlowTypes, ProcRec, Statuses
  <2>2. QED BY <1>2, <2>1, WriteTyped, GotoTyped DEF Claim, FlowTypes, Disk, Pcs
<1>3. ASSUME NEW r \in Runs, Put(r) PROVE FlowTypes'
  <2>1. {Body(proc[r].issue), Context} \subseteq Objects
    BY <1>3 DEF Put, Working, WorkingAt, At, Objects
  <2>2. QED BY <1>3, <2>1, GotoTyped DEF Put, FlowTypes, Pcs
<1>4. ASSUME NEW r \in Runs, ReadBack(r) PROVE FlowTypes'
  <2>1. [runs[r] EXCEPT !.arts = TRUE, !.st = "ready"] \in RunRec
    BY StateTyped DEF FlowTypes, Statuses
  <2>2. runs' \in [Runs -> RunRec] /\ proc' \in [Runs -> ProcRec]
    BY <1>4, <2>1, BreakTyped, WriteTyped, GotoTyped DEF ReadBack, FlowTypes, Pcs
  <2>3. QED BY <1>4, <2>2 DEF ReadBack, FlowTypes, Disk
<1>5. ASSUME NEW r \in Runs, CreateBaseline(r) PROVE FlowTypes'
  BY <1>5, CreateTyped DEF CreateBaseline, Names, Pcs
<1>6. ASSUME NEW r \in Runs, RecordBaseline(r) PROVE FlowTypes'
  <2>1. [runs[r] EXCEPT !.baseline = TRUE, !.st = "running"] \in RunRec
    BY StateTyped DEF FlowTypes, Statuses
  <2>2. QED
    BY <1>6, <2>1, WriteTyped, GotoTyped DEF RecordBaseline, FlowTypes, Disk, Pcs
<1>7. ASSUME NEW r \in Runs, Plan(r) PROVE FlowTypes'
  <2> DEFINE c == UniqueId(runs[r])
  <2>1. c \in Candidates
    BY <1>7, RoomToPlan DEF Plan
  <2>2. [runs[r] EXCEPT !.tried = runs[r].tried \union {c}, !.running = {c}] \in RunRec
    BY <2>1, WorkTyped DEF FlowTypes
  <2>3. runs' \in [Runs -> RunRec]
    BY <1>7, <2>2, WriteTyped DEF Plan, FlowTypes
  <2>4. proc' \in [Runs -> ProcRec]
    BY <1>7, <2>1 DEF Plan, FlowTypes, ProcRec, Pcs
  <2>5. QED BY <1>7, <2>3, <2>4 DEF Plan, FlowTypes, Disk
<1>8. ASSUME NEW r \in Runs, CreateCandidate(r) PROVE FlowTypes'
  <2>1. proc[r].cand \in Candidates
    BY <1>8 DEF CreateCandidate, At, Tried, TriedAt, FlowTypes, RunRec
  <2>2. QED BY <1>8, <2>1, CreateTyped DEF CreateCandidate, Names, Pcs
<1>9. ASSUME NEW r \in Runs, RecordCandidate(r) PROVE FlowTypes'
  <2>1. proc[r].cand \in Candidates
    BY <1>9 DEF RecordCandidate, At, Tried, TriedAt, FlowTypes, RunRec
  <2>2. [runs[r] EXCEPT !.path = runs[r].path \union {proc[r].cand}] \in RunRec
    BY <2>1, WorkTyped DEF FlowTypes
  <2>3. runs' \in [Runs -> RunRec] /\ proc' \in [Runs -> ProcRec]
    BY <1>9, <2>2, BreakTyped, WriteTyped, GotoTyped DEF RecordCandidate, FlowTypes, Pcs
  <2>4. QED BY <1>9, <2>3 DEF RecordCandidate, FlowTypes, Disk
<1>10. ASSUME NEW r \in Runs, Work(r) PROVE FlowTypes'
  <2>1. proc[r].cand \in Candidates
    BY <1>10 DEF Work, At, Tried, TriedAt, FlowTypes, RunRec
  <2>2. [runs[r] EXCEPT !.running = {}, !.path = runs[r].path \union {proc[r].cand}] \in RunRec
    BY <2>1, WorkTyped DEF FlowTypes
  <2>3. runs' \in [Runs -> RunRec] /\ proc' \in [Runs -> ProcRec]
    BY <1>10, <2>2, BreakTyped, WriteTyped, GotoTyped DEF Work, FlowTypes, Pcs
  <2>4. QED BY <1>10, <2>3 DEF Work, FlowTypes, Disk
<1>11. ASSUME NEW r \in Runs, Decide(r) PROVE FlowTypes'
  <2>1. proc[r].cand \in Candidates
    BY <1>11 DEF Decide, At, Tried, TriedAt, FlowTypes, RunRec
  <2>2. /\ [runs[r] EXCEPT !.st = "waiting"] \in RunRec
        /\ [runs[r] EXCEPT !.st = "failed"] \in RunRec
        /\ [runs[r] EXCEPT !.st = "publishing", !.winner = proc[r].cand] \in RunRec
    BY <2>1, StateTyped DEF FlowTypes, Statuses, Over
  <2>3. runs[r].attempt < MaxAttempts =>
          [runs[r] EXCEPT !.attempt = runs[r].attempt + 1] \in RunRec
    BY <2>1, WorkTyped DEF FlowTypes
  <2>4. runs' \in [Runs -> RunRec] /\ proc' \in [Runs -> ProcRec]
    BY <1>11, <2>2, <2>3, WriteTyped, GotoTyped DEF Decide, WriteEnd, FlowTypes, Pcs
  <2>5. QED BY <1>11, <2>4 DEF Decide, FlowTypes, Disk
<1>12. ASSUME NEW r \in Runs, Integrate(r) PROVE FlowTypes'
  <2>1. Integration(runs[r].winner) \in Names
    BY <1>12 DEF Integrate, At, Tried, TriedAt, Names
  <2>2. CASE Create(r, Integration(runs[r].winner), "integrated")
    BY <2>1, <2>2, CreateTyped DEF Pcs
  <2>3. CASE Goto(r, "apply") /\ UNCHANGED <<runs, left, Disk>>
    BY <2>3, GotoTyped DEF FlowTypes, Disk, Pcs
  <2>4. QED BY <1>12, <2>2, <2>3 DEF Integrate
<1>13. ASSUME NEW r \in Runs, RecordIntegration(r) PROVE FlowTypes'
  <2>1. [runs[r] EXCEPT !.integ = Integration(runs[r].winner)] \in RunRec
    BY <1>13, WorkTyped DEF RecordIntegration, At, Tried, TriedAt, FlowTypes
  <2>2. QED
    BY <1>13, <2>1, WriteTyped, GotoTyped DEF RecordIntegration, FlowTypes, Disk, Pcs
<1>14. ASSUME NEW r \in Runs, Complete(r) PROVE FlowTypes'
  <2>1. [runs[r] EXCEPT !.st = "completed"] \in RunRec
    BY StateTyped DEF FlowTypes, Statuses, Over
  <2>2. runs' \in [Runs -> RunRec] /\ proc' \in [Runs -> ProcRec]
    BY <1>14, <2>1, BreakTyped, WriteTyped, GotoTyped DEF Complete, WriteEnd, FlowTypes
  <2>3. QED BY <1>14, <2>2 DEF Complete, FlowTypes
<1>15. ASSUME NEW r \in Runs, Repair(r) PROVE FlowTypes'
  <2>1. [runs[r] EXCEPT !.st = "failed"] \in RunRec
    BY StateTyped DEF FlowTypes, Statuses, Over
  <2>2. runs[r].attempt < MaxAttempts =>
          [runs[r] EXCEPT !.attempt = runs[r].attempt + 1, !.st = "ready", !.integ = Nothing]
            \in RunRec
    BY <1>15, WorkTyped DEF Repair, At, Tried, TriedAt, FlowTypes, Statuses
  <2>3. runs' \in [Runs -> RunRec] /\ proc' \in [Runs -> ProcRec]
    BY <1>15, <2>1, <2>2, WriteTyped, GotoTyped DEF Repair, WriteEnd, FlowTypes, Pcs
  <2>4. QED BY <1>15, <2>3 DEF Repair, FlowTypes
<1>16. ASSUME NEW r \in Runs, Crash(r) PROVE FlowTypes'
  BY <1>16, GotoTyped, Bounds DEF Crash, FlowTypes, Disk
<1>17. ASSUME NEW r \in Runs, Cancelled(r) PROVE FlowTypes'
  <2>1. [runs[r] EXCEPT !.st = "cancelled", !.running = {}] \in RunRec
    BY StateTyped DEF FlowTypes, Statuses, Over
  <2>2. QED
    BY <1>17, <2>1, WriteTyped, GotoTyped DEF Cancelled, WriteEnd, FlowTypes, Disk
<1>18. ASSUME NEW r \in Runs, Resume(r) PROVE FlowTypes'
  <2>1. /\ [runs[r] EXCEPT !.st = "failed"] \in RunRec
        /\ \A st \in Statuses : [runs[r] EXCEPT !.running = {}, !.st = st] \in RunRec
    BY StateTyped DEF FlowTypes, Statuses, Over
  <2>2. (IF runs[r].st = "publishing" THEN runs[r].st ELSE "ready") \in Statuses
    BY DEF Statuses
  <2>3. runs' \in [Runs -> RunRec]
    BY <1>18, <2>1, <2>2, WriteTyped DEF Resume, FlowTypes
  <2>4. proc' \in [Runs -> ProcRec]
    BY <1>18 DEF Resume, FlowTypes, RunRec, ProcRec, Pcs
  <2>5. QED BY <1>18, <2>3, <2>4, Bounds DEF Resume, FlowTypes, Disk
<1>19. ASSUME NEW r \in Runs, Cancel(r) PROVE FlowTypes'
  <2>1. /\ [runs[r] EXCEPT !.cancel = TRUE] \in RunRec
        /\ [runs[r] EXCEPT !.st = "cancelled"] \in RunRec
    BY StateTyped DEF FlowTypes, Statuses, Over
  <2>2. runs' \in [Runs -> RunRec]
    BY <1>19, <2>1, WriteTyped DEF Cancel, FlowTypes
  <2>3. trees' \subseteq Runs \X Names
    BY <1>19 DEF Cancel, FlowTypes
  <2>4. QED BY <1>19, <2>2, <2>3, Bounds DEF Cancel, FlowTypes
<1>20. ASSUME NEW r \in Runs, NEW i \in Issues, Select(r, i) PROVE FlowTypes'
  <2>1. [Idle EXCEPT !.pc = "selected", !.issue = i] \in ProcRec
    BY DEF Idle, ProcRec, Pcs
  <2>2. QED BY <1>20, <2>1 DEF Select, FlowTypes, Disk
<1>21. CASE StartClean
  BY <1>21, Bounds DEF StartClean, FlowTypes, Disk
<1>22. CASE ListStale
  BY <1>22 DEF ListStale, FlowTypes, flow
<1>23. CASE Archive
  BY <1>23 DEF Archive, FlowTypes, flow
<1>24. CASE RemoveWorktrees
  BY <1>24 DEF RemoveWorktrees, FlowTypes
<1>25. CASE RemoveRun
  <2>1. clean.run \in Runs /\ runs \in [Runs -> RunRec]
    BY <1>25 DEF RemoveRun, CleanTypes, FlowTypes
  <2> DEFINE q == clean.run
  <2>2. \/ runs' = [runs EXCEPT ![q].state = FALSE]
        \/ runs' = [runs EXCEPT ![q].arts = FALSE]
        \/ runs' = [runs EXCEPT ![q].state = FALSE, ![q].arts = FALSE]
    BY <1>25, Zenon DEF RemoveRun
  <2>3. CASE runs' = [runs EXCEPT ![q].state = FALSE]
    BY <1>25, <2>1, <2>3, GoneTyped DEF RemoveRun, FlowTypes
  <2>4. CASE runs' = [runs EXCEPT ![q].arts = FALSE]
    BY <1>25, <2>1, <2>4, GoneTyped DEF RemoveRun, FlowTypes
  <2>5. CASE runs' = [runs EXCEPT ![q].state = FALSE, ![q].arts = FALSE]
    BY <1>25, <2>1, <2>5, GoneTyped DEF RemoveRun, FlowTypes
  <2>6. QED BY <2>2, <2>3, <2>4, <2>5
<1>26. CASE ListOrphans
  BY <1>26 DEF ListOrphans, FlowTypes, flow
<1>27. CASE RemoveOrphan
  BY <1>27 DEF RemoveOrphan, FlowTypes
<1>28. CASE ListObjects
  BY <1>28 DEF ListObjects, FlowTypes, flow
<1>29. CASE RemoveObject
  BY <1>29 DEF RemoveObject, FlowTypes
<1>30. CASE EndClean
  BY <1>30 DEF EndClean, FlowTypes, flow
<1>31. CASE CrashClean
  BY <1>31, Bounds DEF CrashClean, FlowTypes, Disk
<1>32. CASE UNCHANGED vars
  BY <1>32 DEF vars, flow, FlowTypes
<1>33. QED
  BY <1>1, <1>2, <1>3, <1>4, <1>5, <1>6, <1>7, <1>8, <1>9, <1>10, <1>11, <1>12, <1>13,
     <1>14, <1>15, <1>16, <1>17, <1>18, <1>19, <1>20, <1>21, <1>22, <1>23, <1>24, <1>25,
     <1>26, <1>27, <1>28, <1>29, <1>30, <1>31, <1>32
  DEF Next, Pipelines, Starts, RunStep, CleanStep

\* What a step leaves as it was of the runs and the processes.
Others(r)     == \A s \in Runs \ {r} : runs'[s] = runs[s]
Keeps(r, F)   ==
  /\ "st" \notin F => runs'[r].st = runs[r].st
  /\ "issue" \notin F => runs'[r].issue = runs[r].issue
  /\ "state" \notin F => runs'[r].state = runs[r].state
  /\ "arts" \notin F => runs'[r].arts = runs[r].arts
  /\ "attempt" \notin F => runs'[r].attempt = runs[r].attempt
  /\ "tried" \notin F => runs'[r].tried = runs[r].tried
  /\ "running" \notin F => runs'[r].running = runs[r].running
  /\ "path" \notin F => runs'[r].path = runs[r].path
  /\ "baseline" \notin F => runs'[r].baseline = runs[r].baseline
  /\ "winner" \notin F => runs'[r].winner = runs[r].winner
  /\ "integ" \notin F => runs'[r].integ = runs[r].integ
  /\ "cancel" \notin F => runs'[r].cancel = runs[r].cancel
OtherProcs(r) == \A s \in Runs \ {r} : proc'[s] = proc[s]
Ends(r)       == OtherProcs(r) /\ proc'[r] = Idle
Goes(r, pc)   == /\ OtherProcs(r) /\ proc'[r].pc = pc
                 /\ proc'[r].issue = proc[r].issue /\ proc'[r].cand = proc[r].cand
Broke(r)      == /\ Others(r) /\ Ends(r)
                 /\ \/ runs' = runs
                    \/ /\ Keeps(r, {"st", "state"})
                       /\ runs'[r].st = "failed" /\ runs'[r].state = TRUE
Stops(r)      == /\ Others(r) /\ Ends(r)
                 /\ Keeps(r, {"st", "running", "state"})
                 /\ runs'[r].running \in {{}, runs[r].running}
                 /\ runs'[r].st \in Over \union {"waiting"} /\ runs'[r].state = TRUE

\* What each kind of write changes.
LEMMA WriteState ==
  ASSUME FlowTypes, NEW r \in Runs, NEW x,
         Write(r, [runs[r] EXCEPT !.st = x])
  PROVE  /\ Others(r) /\ Keeps(r, {"st", "state"})
         /\ runs'[r].st = x /\ runs'[r].state = TRUE
BY DEF FlowTypes, Write, Others, Keeps

LEMMA WriteClaim ==
  ASSUME FlowTypes, NEW r \in Runs, NEW x1, NEW x2,
         Write(r, [runs[r] EXCEPT !.st = x1, !.issue = x2])
  PROVE  /\ Others(r) /\ Keeps(r, {"st", "issue", "state"})
         /\ runs'[r].st = x1 /\ runs'[r].issue = x2 /\ runs'[r].state = TRUE
BY DEF FlowTypes, Write, Others, Keeps

LEMMA WriteArts ==
  ASSUME FlowTypes, NEW r \in Runs, NEW x1, NEW x2,
         Write(r, [runs[r] EXCEPT !.arts = x1, !.st = x2])
  PROVE  /\ Others(r) /\ Keeps(r, {"arts", "st", "state"})
         /\ runs'[r].arts = x1 /\ runs'[r].st = x2 /\ runs'[r].state = TRUE
BY DEF FlowTypes, Write, Others, Keeps

LEMMA WriteBaseline ==
  ASSUME FlowTypes, NEW r \in Runs, NEW x1, NEW x2,
         Write(r, [runs[r] EXCEPT !.baseline = x1, !.st = x2])
  PROVE  /\ Others(r) /\ Keeps(r, {"baseline", "st", "state"})
         /\ runs'[r].baseline = x1 /\ runs'[r].st = x2 /\ runs'[r].state = TRUE
BY DEF FlowTypes, Write, Others, Keeps

LEMMA WritePlan ==
  ASSUME FlowTypes, NEW r \in Runs, NEW x1, NEW x2,
         Write(r, [runs[r] EXCEPT !.tried = x1, !.running = x2])
  PROVE  /\ Others(r) /\ Keeps(r, {"tried", "running", "state"})
         /\ runs'[r].tried = x1 /\ runs'[r].running = x2 /\ runs'[r].state = TRUE
BY DEF FlowTypes, Write, Others, Keeps

LEMMA WritePath ==
  ASSUME FlowTypes, NEW r \in Runs, NEW x,
         Write(r, [runs[r] EXCEPT !.path = x])
  PROVE  /\ Others(r) /\ Keeps(r, {"path", "state"})
         /\ runs'[r].path = x /\ runs'[r].state = TRUE
BY DEF FlowTypes, Write, Others, Keeps

LEMMA WriteResult ==
  ASSUME FlowTypes, NEW r \in Runs, NEW x1, NEW x2,
         Write(r, [runs[r] EXCEPT !.running = x1, !.path = x2])
  PROVE  /\ Others(r) /\ Keeps(r, {"running", "path", "state"})
         /\ runs'[r].running = x1 /\ runs'[r].path = x2 /\ runs'[r].state = TRUE
BY DEF FlowTypes, Write, Others, Keeps

LEMMA WriteAttempt ==
  ASSUME FlowTypes, NEW r \in Runs, NEW x,
         Write(r, [runs[r] EXCEPT !.attempt = x])
  PROVE  /\ Others(r) /\ Keeps(r, {"attempt", "state"})
         /\ runs'[r].attempt = x /\ runs'[r].state = TRUE
BY DEF FlowTypes, Write, Others, Keeps

LEMMA WriteWinner ==
  ASSUME FlowTypes, NEW r \in Runs, NEW x1, NEW x2,
         Write(r, [runs[r] EXCEPT !.st = x1, !.winner = x2])
  PROVE  /\ Others(r) /\ Keeps(r, {"st", "winner", "state"})
         /\ runs'[r].st = x1 /\ runs'[r].winner = x2 /\ runs'[r].state = TRUE
BY DEF FlowTypes, Write, Others, Keeps

LEMMA WriteInteg ==
  ASSUME FlowTypes, NEW r \in Runs, NEW x,
         Write(r, [runs[r] EXCEPT !.integ = x])
  PROVE  /\ Others(r) /\ Keeps(r, {"integ", "state"})
         /\ runs'[r].integ = x /\ runs'[r].state = TRUE
BY DEF FlowTypes, Write, Others, Keeps

LEMMA WriteCancelled ==
  ASSUME FlowTypes, NEW r \in Runs, NEW x1, NEW x2,
         Write(r, [runs[r] EXCEPT !.st = x1, !.running = x2])
  PROVE  /\ Others(r) /\ Keeps(r, {"st", "running", "state"})
         /\ runs'[r].st = x1 /\ runs'[r].running = x2 /\ runs'[r].state = TRUE
BY DEF FlowTypes, Write, Others, Keeps

LEMMA WriteResumed ==
  ASSUME FlowTypes, NEW r \in Runs, NEW x1, NEW x2,
         Write(r, [runs[r] EXCEPT !.running = x1, !.st = x2])
  PROVE  /\ Others(r) /\ Keeps(r, {"running", "st", "state"})
         /\ runs'[r].running = x1 /\ runs'[r].st = x2 /\ runs'[r].state = TRUE
BY DEF FlowTypes, Write, Others, Keeps

LEMMA WriteCancel ==
  ASSUME FlowTypes, NEW r \in Runs, NEW x,
         Write(r, [runs[r] EXCEPT !.cancel = x])
  PROVE  /\ Others(r) /\ Keeps(r, {"cancel", "state"})
         /\ runs'[r].cancel = x /\ runs'[r].state = TRUE
BY DEF FlowTypes, Write, Others, Keeps

\* Where a process goes.
LEMMA GotoDoes ==
  ASSUME FlowTypes, NEW r \in Runs
  PROVE  /\ End(r) => Ends(r)
         /\ \A pc : Goto(r, pc) => Goes(r, pc)
BY DEF FlowTypes, ProcRec, End, Goto, Ends, Goes, OtherProcs

LEMMA BreakDoes ==
  ASSUME FlowTypes, NEW r \in Runs, Break(r)
  PROVE  Broke(r)
BY GotoDoes, WriteState DEF Break, Broke, Others

LEMMA CreateDoes ==
  ASSUME FlowTypes, NEW r \in Runs, NEW name, NEW pc, Create(r, name, pc)
  PROVE  /\ UNCHANGED <<objects, left>>
         /\ \/ /\ Free(r, name) /\ Goes(r, pc) /\ UNCHANGED runs
               /\ trees' = trees \union {<<r, name>>}
               /\ branches' = branches \union {<<r, name>>}
            \/ Broke(r) /\ UNCHANGED <<trees, branches>>
BY GotoDoes, BreakDoes DEF Create

LEMMA Stopping ==
  ASSUME NEW r \in Runs, Others(r), End(r), FlowTypes,
         \/ Keeps(r, {"st", "running", "state"}) /\ runs'[r].running = {}
         \/ Keeps(r, {"st", "state"}),
         runs'[r].st \in Over \union {"waiting"}, runs'[r].state = TRUE
  PROVE  Stops(r)
BY GotoDoes DEF Stops, Keeps

\* What each action does.
LEMMA AlreadyClaimedDoes ==
  ASSUME FlowTypes, NEW r \in Runs, AlreadyClaimed(r)
  PROVE  /\ At(r, "selected") /\ Ends(r)
         /\ UNCHANGED <<runs, left, trees, branches, objects>>
BY GotoDoes DEF AlreadyClaimed, Disk

LEMMA ClaimDoes ==
  ASSUME FlowTypes, NEW r \in Runs, Claim(r)
  PROVE  /\ At(r, "selected") /\ Goes(r, "body")
         /\ Holders(proc[r].issue) = {} /\ Existing(proc[r].issue) = {}
         /\ Others(r) /\ Keeps(r, {"st", "issue", "state"})
         /\ runs'[r].st = "new" /\ runs'[r].issue = proc[r].issue /\ runs'[r].state = TRUE
         /\ UNCHANGED <<left, trees, branches, objects>>
BY WriteClaim, GotoDoes DEF Claim, Disk

LEMMA PutDoes ==
  ASSUME FlowTypes, NEW r \in Runs, Put(r)
  PROVE  /\ At(r, "body") /\ Goes(r, "snapshot")
         /\ objects' = objects \union {Body(proc[r].issue), Context}
         /\ UNCHANGED <<runs, left, trees, branches>>
BY GotoDoes DEF Put

LEMMA ReadBackDoes ==
  ASSUME FlowTypes, NEW r \in Runs, ReadBack(r)
  PROVE  /\ At(r, "snapshot")
         /\ \/ /\ {Body(proc[r].issue), Context} \subseteq objects
               /\ Goes(r, "baseline") /\ Others(r) /\ Keeps(r, {"arts", "st", "state"})
               /\ runs'[r].st = "ready" /\ runs'[r].arts = TRUE /\ runs'[r].state = TRUE
            \/ Broke(r)
         /\ UNCHANGED <<left, trees, branches, objects>>
BY WriteArts, GotoDoes, BreakDoes DEF ReadBack, Disk

LEMMA CreateBaselineDoes ==
  ASSUME FlowTypes, NEW r \in Runs, CreateBaseline(r)
  PROVE  /\ At(r, "baseline") /\ ~runs[r].baseline
         /\ \/ /\ Free(r, Baseline) /\ Goes(r, "verified") /\ UNCHANGED runs
               /\ trees' = trees \union {<<r, Baseline>>}
               /\ branches' = branches \union {<<r, Baseline>>}
            \/ Broke(r) /\ UNCHANGED <<trees, branches>>
         /\ UNCHANGED <<left, objects>>
BY CreateDoes DEF CreateBaseline

LEMMA RecordBaselineDoes ==
  ASSUME FlowTypes, NEW r \in Runs, RecordBaseline(r)
  PROVE  /\ At(r, "baseline") \/ At(r, "verified")
         /\ Goes(r, "plan") /\ Others(r) /\ Keeps(r, {"baseline", "st", "state"})
         /\ runs'[r].st = "running" /\ runs'[r].state = TRUE
         /\ UNCHANGED <<left, trees, branches, objects>>
BY WriteBaseline, GotoDoes DEF RecordBaseline, Disk

LEMMA PlanDoes ==
  ASSUME FlowTypes, NEW r \in Runs, Plan(r)
  PROVE  /\ At(r, "plan") /\ ~runs[r].cancel
         /\ Others(r) /\ Keeps(r, {"tried", "running", "state"})
         /\ runs'[r].tried = runs[r].tried \union {UniqueId(runs[r])}
         /\ runs'[r].running = {UniqueId(runs[r])} /\ runs'[r].state = TRUE
         /\ OtherProcs(r) /\ proc'[r].pc = "create" /\ proc'[r].issue = proc[r].issue
         /\ proc'[r].cand = UniqueId(runs[r])
         /\ UNCHANGED <<left, trees, branches, objects>>
<1>1. /\ OtherProcs(r) /\ proc'[r].pc = "create" /\ proc'[r].issue = proc[r].issue
      /\ proc'[r].cand = UniqueId(runs[r])
  BY DEF Plan, FlowTypes, OtherProcs
<1>2. QED BY <1>1, WritePlan DEF Plan, Disk

LEMMA CreateCandidateDoes ==
  ASSUME FlowTypes, NEW r \in Runs, CreateCandidate(r)
  PROVE  /\ At(r, "create")
         /\ \/ /\ Free(r, proc[r].cand) /\ Goes(r, "record") /\ UNCHANGED runs
               /\ trees' = trees \union {<<r, proc[r].cand>>}
               /\ branches' = branches \union {<<r, proc[r].cand>>}
            \/ Broke(r) /\ UNCHANGED <<trees, branches>>
         /\ UNCHANGED <<left, objects>>
BY CreateDoes DEF CreateCandidate

LEMMA RecordCandidateDoes ==
  ASSUME FlowTypes, NEW r \in Runs, RecordCandidate(r)
  PROVE  /\ At(r, "record")
         /\ \/ /\ Known(r) /\ Goes(r, "work") /\ Others(r) /\ Keeps(r, {"path", "state"})
               /\ runs'[r].path = runs[r].path \union {proc[r].cand} /\ runs'[r].state = TRUE
            \/ ~Known(r) /\ Broke(r)
         /\ UNCHANGED <<left, trees, branches, objects>>
BY WritePath, GotoDoes, BreakDoes DEF RecordCandidate, Disk

LEMMA WorkDoes ==
  ASSUME FlowTypes, NEW r \in Runs, Work(r)
  PROVE  /\ At(r, "work")
         /\ \/ /\ <<r, proc[r].cand>> \in trees
               /\ Goes(r, "decide") /\ Others(r) /\ Keeps(r, {"running", "path", "state"})
               /\ runs'[r].running = {} /\ runs'[r].path = runs[r].path \union {proc[r].cand}
               /\ runs'[r].state = TRUE
            \/ Broke(r)
         /\ UNCHANGED <<left, trees, branches, objects>>
BY WriteResult, GotoDoes, BreakDoes DEF Work, Disk

LEMMA DecideDoes ==
  ASSUME FlowTypes, NEW r \in Runs, Decide(r)
  PROVE  /\ At(r, "decide") /\ ~runs[r].cancel
         /\ Others(r) /\ runs'[r].state = TRUE
         /\ \/ Stops(r)
            \/ /\ Goes(r, "plan") /\ Keeps(r, {"attempt", "state"})
               /\ runs'[r].attempt = runs[r].attempt + 1
            \/ /\ Goes(r, "integrate") /\ Keeps(r, {"st", "winner", "state"})
               /\ runs'[r].st = "publishing" /\ runs'[r].winner = proc[r].cand
         /\ UNCHANGED <<left, trees, branches, objects>>
BY WriteState, WriteAttempt, WriteWinner, GotoDoes, Stopping
DEF Decide, WriteEnd, Over, Disk

LEMMA IntegrateDoes ==
  ASSUME FlowTypes, NEW r \in Runs, Integrate(r)
  PROVE  /\ At(r, "integrate")
         /\ \/ /\ Goes(r, "apply") /\ UNCHANGED <<runs, trees, branches>>
            \/ /\ Free(r, Integration(runs[r].winner)) /\ Goes(r, "integrated") /\ UNCHANGED runs
               /\ trees' = trees \union {<<r, Integration(runs[r].winner)>>}
               /\ branches' = branches \union {<<r, Integration(runs[r].winner)>>}
            \/ Broke(r) /\ UNCHANGED <<trees, branches>>
         /\ UNCHANGED <<left, objects>>
BY GotoDoes, CreateDoes DEF Integrate, Disk

LEMMA RecordIntegrationDoes ==
  ASSUME FlowTypes, NEW r \in Runs, RecordIntegration(r)
  PROVE  /\ At(r, "integrated") /\ Goes(r, "apply")
         /\ Others(r) /\ Keeps(r, {"integ", "state"})
         /\ runs'[r].integ = Integration(runs[r].winner) /\ runs'[r].state = TRUE
         /\ UNCHANGED <<left, trees, branches, objects>>
BY WriteInteg, GotoDoes DEF RecordIntegration, Disk

LEMMA CompleteDoes ==
  ASSUME FlowTypes, NEW r \in Runs, Complete(r)
  PROVE  /\ At(r, "apply")
         /\ \/ /\ Stops(r) /\ runs'[r].st = "completed"
               /\ trees' = trees \ {<<r, runs[r].integ>>}
            \/ Broke(r) /\ UNCHANGED trees
         /\ UNCHANGED <<left, branches, objects>>
BY WriteState, GotoDoes, BreakDoes, Stopping DEF Complete, WriteEnd, Over

LEMMA RepairDoes ==
  ASSUME FlowTypes, NEW r \in Runs, Repair(r)
  PROVE  /\ At(r, "apply") /\ Others(r) /\ runs'[r].state = TRUE
         /\ \/ /\ Goes(r, "baseline") /\ Keeps(r, {"attempt", "st", "integ", "state"})
               /\ runs'[r].attempt = runs[r].attempt + 1 /\ runs'[r].st = "ready"
               /\ runs'[r].integ = Nothing
               /\ trees' = trees \ {<<r, runs[r].integ>>}
            \/ Stops(r) /\ runs'[r].st = "failed" /\ UNCHANGED trees
         /\ UNCHANGED <<left, branches, objects>>
<1>1. CASE runs[r].attempt < MaxAttempts
  <2>1. Write(r, [runs[r] EXCEPT !.attempt = runs[r].attempt + 1, !.st = "ready",
                   !.integ = Nothing])
    BY <1>1 DEF Repair
  <2>2. /\ Others(r) /\ Keeps(r, {"attempt", "st", "integ", "state"})
        /\ runs'[r].attempt = runs[r].attempt + 1 /\ runs'[r].st = "ready"
        /\ runs'[r].integ = Nothing /\ runs'[r].state = TRUE
    BY <2>1 DEF Write, FlowTypes, Others, Keeps
  <2>3. Goes(r, "baseline")
    BY <1>1, GotoDoes DEF Repair
  <2>4. trees' = trees \ {<<r, runs[r].integ>>}
    BY <1>1 DEF Repair
  <2>5. QED BY <2>2, <2>3, <2>4 DEF Repair
<1>2. CASE ~(runs[r].attempt < MaxAttempts)
  BY <1>2, WriteState, Stopping DEF Repair, WriteEnd, Over
<1>3. QED BY <1>1, <1>2

LEMMA CrashDoes ==
  ASSUME FlowTypes, NEW r \in Runs, Crash(r)
  PROVE  /\ ~At(r, "idle") /\ Ends(r) /\ left > 0 /\ left' = left - 1
         /\ UNCHANGED <<runs, trees, branches, objects>>
BY GotoDoes DEF Crash, Disk

LEMMA CancelledDoes ==
  ASSUME FlowTypes, NEW r \in Runs, Cancelled(r)
  PROVE  /\ At(r, "plan") \/ At(r, "decide")
         /\ Stops(r) /\ runs'[r].st = "cancelled"
         /\ UNCHANGED <<left, trees, branches, objects>>
BY WriteCancelled, GotoDoes, Stopping DEF Cancelled, WriteEnd, Over, Disk

LEMMA CancelDoes ==
  ASSUME FlowTypes, NEW r \in Runs, Cancel(r)
  PROVE  /\ Known(r) /\ runs[r].st \notin Over /\ left > 0 /\ left' = left - 1
         /\ Others(r) /\ runs'[r].state = TRUE
         /\ \/ /\ runs[r].running # {} /\ Keeps(r, {"cancel", "state"}) /\ runs'[r].cancel = TRUE
               /\ trees' = {t \in trees : ~(t[1] = r /\ t[2] \in runs[r].path)}
            \/ /\ At(r, "idle") /\ Keeps(r, {"st", "state"}) /\ runs'[r].st = "cancelled"
               /\ UNCHANGED trees
         /\ UNCHANGED <<proc, branches, objects>>
BY WriteCancel, WriteState DEF Cancel

LEMMA ResumeDoes ==
  ASSUME FlowTypes, NEW r \in Runs, Resume(r)
  PROVE  /\ At(r, "idle") /\ Known(r) /\ runs[r].st \notin Over
         /\ Holders(runs[r].issue) = {} /\ left > 0 /\ left' = left - 1
         /\ UNCHANGED <<trees, branches, objects>>
         /\ Others(r) /\ OtherProcs(r)
         /\ \/ /\ runs[r].arts /\ Keeps(r, {"running", "st", "state"}) /\ runs'[r].running = {}
               /\ runs[r].st = "publishing" => runs'[r].st = "publishing" /\ proc'[r].pc = "integrate"
               /\ runs[r].st # "publishing" => /\ runs'[r].st = "ready"
                                               /\ proc'[r].pc \in {"body", "baseline"}
               /\ proc'[r].issue = runs[r].issue /\ runs'[r].state = TRUE
            \/ /\ Keeps(r, {"st", "state"}) /\ UNCHANGED proc
               /\ runs'[r].st = "failed" /\ runs'[r].state = TRUE
<1> SUFFICES /\ Others(r) /\ OtherProcs(r)
         /\ \/ /\ runs[r].arts /\ Keeps(r, {"running", "st", "state"}) /\ runs'[r].running = {}
               /\ runs[r].st = "publishing" => runs'[r].st = "publishing" /\ proc'[r].pc = "integrate"
               /\ runs[r].st # "publishing" => /\ runs'[r].st = "ready"
                                               /\ proc'[r].pc \in {"body", "baseline"}
               /\ proc'[r].issue = runs[r].issue /\ runs'[r].state = TRUE
            \/ /\ Keeps(r, {"st", "state"}) /\ UNCHANGED proc
               /\ runs'[r].st = "failed" /\ runs'[r].state = TRUE
  BY DEF Resume, Disk
<1>1. CASE runs[r].arts
  <2>1. /\ OtherProcs(r) /\ proc'[r].issue = runs[r].issue
        /\ runs[r].st = "publishing" => proc'[r].pc = "integrate"
        /\ runs[r].st # "publishing" => proc'[r].pc \in {"body", "baseline"}
    <3>1. proc' = [proc EXCEPT ![r] =
                     [pc |-> CASE runs[r].st = "publishing" -> "integrate"
                               [] runs[r].st = "waiting" -> "body"
                               [] OTHER -> "baseline",
                      issue |-> runs[r].issue, entry |-> "resume", cand |-> Nothing]]
      BY <1>1 DEF Resume
    <3>2. /\ proc'[r].issue = runs[r].issue
          /\ proc'[r].pc = CASE runs[r].st = "publishing" -> "integrate"
                             [] runs[r].st = "waiting" -> "body"
                             [] OTHER -> "baseline"
      BY <3>1 DEF FlowTypes
    <3>3. runs[r].st = "publishing" => proc'[r].pc = "integrate"
      BY <3>2
    <3>4. runs[r].st # "publishing" => proc'[r].pc \in {"body", "baseline"}
      BY <3>2
    <3>5. QED BY <3>1, <3>2, <3>3, <3>4 DEF OtherProcs
  <2>2. CASE runs[r].st = "publishing"
    <3>1. Write(r, [runs[r] EXCEPT !.running = {}, !.st = "publishing"])
      BY <1>1, <2>2 DEF Resume
    <3>2. /\ Others(r) /\ Keeps(r, {"running", "st", "state"}) /\ runs'[r].running = {}
          /\ runs'[r].st = "publishing" /\ runs'[r].state = TRUE
      BY <3>1, WriteResumed
    <3>3. QED BY <1>1, <2>1, <2>2, <3>2
  <2>3. CASE runs[r].st # "publishing"
    <3>1. Write(r, [runs[r] EXCEPT !.running = {}, !.st = "ready"])
      BY <1>1, <2>3 DEF Resume
    <3>2. /\ Others(r) /\ Keeps(r, {"running", "st", "state"}) /\ runs'[r].running = {}
          /\ runs'[r].st = "ready" /\ runs'[r].state = TRUE
      BY <3>1, WriteResumed
    <3>3. QED BY <1>1, <2>1, <2>3, <3>2
  <2>4. QED BY <2>2, <2>3
<1>2. CASE ~runs[r].arts
  BY <1>2, WriteState DEF Resume, OtherProcs
<1>3. QED BY <1>1, <1>2

LEMMA SelectDoes ==
  ASSUME FlowTypes, NEW r \in Runs, NEW i \in Issues, Select(r, i)
  PROVE  /\ runs' = runs /\ OtherProcs(r) /\ proc'[r].pc = "selected" /\ proc'[r].issue = i
         /\ At(r, "idle") /\ runs[r].st = "none"
         /\ UNCHANGED <<left, trees, branches, objects>>
BY DEF Select, FlowTypes, OtherProcs, Disk

LEMMA RemoveRunDoes ==
  ASSUME FlowTypes, CleanTypes, RemoveRun
  PROVE  /\ clean.run \in Runs /\ Others(clean.run) /\ Keeps(clean.run, {"state", "arts"})
         /\ runs'[clean.run].arts => runs[clean.run].arts
         /\ runs'[clean.run].state => runs[clean.run].state
<1>1. clean.run \in Runs
  BY DEF RemoveRun, CleanTypes
<1> DEFINE q == clean.run
<1>2. CASE runs' = [runs EXCEPT ![q].state = FALSE]
  BY <1>1, <1>2 DEF Others, Keeps
<1>3. CASE runs' = [runs EXCEPT ![q].arts = FALSE]
  BY <1>1, <1>3 DEF Others, Keeps
<1>4. CASE runs' = [runs EXCEPT ![q].state = FALSE, ![q].arts = FALSE]
  BY <1>1, <1>4 DEF FlowTypes, Others, Keeps
<1>5. QED BY <1>2, <1>3, <1>4 DEF RemoveRun

LEMMA OneMoves ==
  ASSUME FlowTypes, NEW r \in Runs, Moves(r)
  PROVE  Others(r) /\ OtherProcs(r)
<1>1. CASE AlreadyClaimed(r)
  BY <1>1, AlreadyClaimedDoes DEF Ends, Others
<1>2. CASE Claim(r)
  BY <1>2, ClaimDoes DEF Ends, Goes, Broke, Stops, Others, OtherProcs
<1>3. CASE Put(r)
  BY <1>3, PutDoes DEF Goes, Others
<1>4. CASE ReadBack(r)
  BY <1>4, ReadBackDoes DEF Ends, Goes, Broke, Stops, Others, OtherProcs
<1>5. CASE CreateBaseline(r)
  BY <1>5, CreateBaselineDoes DEF Ends, Goes, Broke, Stops, Others, OtherProcs
<1>6. CASE RecordBaseline(r)
  BY <1>6, RecordBaselineDoes DEF Ends, Goes, Broke, Stops, Others, OtherProcs
<1>7. CASE Plan(r)
  BY <1>7, PlanDoes DEF Ends, Goes, Broke, Stops, Others, OtherProcs
<1>8. CASE CreateCandidate(r)
  BY <1>8, CreateCandidateDoes DEF Ends, Goes, Broke, Stops, Others, OtherProcs
<1>9. CASE RecordCandidate(r)
  BY <1>9, RecordCandidateDoes DEF Ends, Goes, Broke, Stops, Others, OtherProcs
<1>10. CASE Work(r)
  BY <1>10, WorkDoes DEF Ends, Goes, Broke, Stops, Others, OtherProcs
<1>11. CASE Decide(r)
  BY <1>11, DecideDoes DEF Ends, Goes, Broke, Stops, Others, OtherProcs
<1>12. CASE Integrate(r)
  BY <1>12, IntegrateDoes DEF Ends, Goes, Broke, Stops, Others, OtherProcs
<1>13. CASE RecordIntegration(r)
  BY <1>13, RecordIntegrationDoes DEF Ends, Goes, Broke, Stops, Others, OtherProcs
<1>14. CASE Complete(r)
  BY <1>14, CompleteDoes DEF Ends, Goes, Broke, Stops, Others, OtherProcs
<1>15. CASE Repair(r)
  BY <1>15, RepairDoes DEF Ends, Goes, Broke, Stops, Others, OtherProcs
<1>16. CASE Crash(r)
  BY <1>16, CrashDoes DEF Ends, Others
<1>17. CASE Cancelled(r)
  BY <1>17, CancelledDoes DEF Ends, Goes, Broke, Stops, Others, OtherProcs
<1>18. CASE Resume(r)
  BY <1>18, ResumeDoes DEF Ends, Goes, Broke, Stops, Others, OtherProcs
<1>19. CASE Cancel(r)
  BY <1>19, CancelDoes DEF Ends, Goes, Broke, Stops, Others, OtherProcs
<1>20. CASE \E i \in Issues : Select(r, i)
  BY <1>20, SelectDoes DEF Others
<1>21. QED
  BY <1>1, <1>2, <1>3, <1>4, <1>5, <1>6, <1>7, <1>8, <1>9, <1>10, <1>11, <1>12, <1>13,
     <1>14, <1>15, <1>16, <1>17, <1>18, <1>19, <1>20 DEF Moves, RunStep

\* The types of one run.
LEMMA RunTypes ==
  ASSUME FlowTypes, NEW r \in Runs
  PROVE  /\ runs[r] \in RunRec /\ proc[r] \in ProcRec
         /\ runs[r].attempt \in 1..MaxAttempts /\ runs[r].attempt \in Nat
         /\ runs[r].tried \subseteq Candidates
         /\ proc[r].cand \in Candidates \union {Nothing}
BY DEF FlowTypes, RunRec, ProcRec

LEMMA AttemptOf == \A c \in Candidates : c[2] \in Nat
BY DEF Candidates, Candidate

LEMMA NamesApart ==
  /\ \A c \in Candidates : c # Baseline /\ c # Nothing
  /\ \A c, d \in Candidates : c # Integration(d)
BY DEF Candidates, Candidate, Baseline, Nothing, Integration

LEMMA KnownIsThere ==
  ASSUME NEW r \in Runs, WorkingAt(r), Known(r)
  PROVE  runs[r].st # "none" /\ runs[r].issue \in Issues
<1>1. ~Blank.state
  BY DEF Blank
<1>2. QED BY <1>1 DEF WorkingAt, Known

\* The process of a run stays at work on it.
LEMMA WorkingBroke ==
  ASSUME NEW r \in Runs, FlowTypes, WorkingAt(r), Held(r), Broke(r)
  PROVE  WorkingAt(r)'
BY DEF Broke, Ends, Keeps, Idle, Held, WorkingAt, Held, At

LEMMA WorkingStops ==
  ASSUME NEW r \in Runs, FlowTypes, WorkingAt(r), Held(r), Stops(r)
  PROVE  WorkingAt(r)'
BY DEF Stops, Ends, Keeps, Idle, Held, WorkingAt, Held, At, Over

LEMMA WorkingOwn ==
  ASSUME NEW r \in Runs, FlowTypes, WorkingAt(r), Moves(r)
  PROVE  WorkingAt(r)'
<1>1. CASE AlreadyClaimed(r)
  BY <1>1, AlreadyClaimedDoes DEF Ends, Idle, WorkingAt, Held, At
<1>2. CASE Claim(r)
  BY <1>2, ClaimDoes DEF Keeps, Ends, Goes, Idle, WorkingAt, Held, At, Over
<1>3. CASE Put(r)
  BY <1>3, PutDoes DEF Goes, WorkingAt, Held, At
<1>4. CASE ReadBack(r)
  BY <1>4, ReadBackDoes, WorkingBroke
  DEF Keeps, Ends, Goes, Idle, WorkingAt, Held, At, Over
<1>5. CASE CreateBaseline(r)
  BY <1>5, CreateBaselineDoes, WorkingBroke DEF Goes, WorkingAt, Held, At
<1>6. CASE RecordBaseline(r)
  BY <1>6, RecordBaselineDoes DEF Keeps, Ends, Goes, Idle, WorkingAt, Held, At, Over
<1>7. CASE Plan(r)
  BY <1>7, PlanDoes DEF Keeps, Ends, Goes, Idle, WorkingAt, Held, At, Over
<1>8. CASE CreateCandidate(r)
  BY <1>8, CreateCandidateDoes, WorkingBroke DEF Goes, WorkingAt, Held, At
<1>9. CASE RecordCandidate(r)
  BY <1>9, RecordCandidateDoes, WorkingBroke
  DEF Keeps, Ends, Goes, Idle, WorkingAt, Held, At, Over
<1>10. CASE Work(r)
  BY <1>10, WorkDoes, WorkingBroke
  DEF Keeps, Ends, Goes, Idle, WorkingAt, Held, At, Over
<1>11. CASE Decide(r)
  BY <1>11, DecideDoes, WorkingStops
  DEF Keeps, Ends, Goes, Idle, WorkingAt, Held, At, Over
<1>12. CASE Integrate(r)
  BY <1>12, IntegrateDoes, WorkingBroke DEF Goes, WorkingAt, Held, At
<1>13. CASE RecordIntegration(r)
  BY <1>13, RecordIntegrationDoes DEF Keeps, Ends, Goes, Idle, WorkingAt, Held, At, Over
<1>14. CASE Complete(r)
  BY <1>14, CompleteDoes, WorkingBroke, WorkingStops DEF Held, At
<1>15. CASE Repair(r)
  BY <1>15, RepairDoes, WorkingStops
  DEF Keeps, Ends, Goes, Idle, WorkingAt, Held, At, Over
<1>16. CASE Crash(r)
  BY <1>16, CrashDoes DEF Ends, Idle, WorkingAt, Held, At
<1>17. CASE Cancelled(r)
  BY <1>17, CancelledDoes, WorkingStops DEF Held, At
<1>18. CASE Resume(r)
  <2>1. /\ runs[r].st \notin {"none"} \union Over /\ At(r, "idle")
        /\ runs[r].issue \in Issues
    BY <1>18, ResumeDoes, KnownIsThere
  <2>2. CASE runs'[r].st = "failed" /\ Keeps(r, {"st", "state"}) /\ UNCHANGED proc
    BY <2>1, <2>2 DEF WorkingAt, Held, At, Keeps
  <2>3. CASE /\ runs'[r].st \in {"publishing", "ready"} /\ proc'[r].issue = runs[r].issue
             /\ proc'[r].pc \in {"integrate", "body", "baseline"}
             /\ Keeps(r, {"running", "st", "state"})
    BY <2>1, <2>3 DEF WorkingAt, At, Keeps, Over
  <2>4. QED BY <1>18, <2>2, <2>3, ResumeDoes
<1>19. CASE Cancel(r)
  <2>1. runs[r].st \notin {"none"} \union Over
    BY <1>19, CancelDoes, KnownIsThere
  <2>2. CASE Keeps(r, {"cancel", "state"})
    BY <1>19, <2>1, <2>2, CancelDoes DEF WorkingAt, Held, At, Keeps
  <2>3. CASE At(r, "idle") /\ Keeps(r, {"st", "state"}) /\ runs'[r].st = "cancelled"
    BY <1>19, <2>1, <2>3, CancelDoes DEF WorkingAt, Held, At, Keeps
  <2>4. QED BY <1>19, <2>2, <2>3, CancelDoes
<1>20. CASE \E i \in Issues : Select(r, i)
  BY <1>20, SelectDoes DEF WorkingAt, Held
<1>21. QED
  BY <1>1, <1>2, <1>3, <1>4, <1>5, <1>6, <1>7, <1>8, <1>9, <1>10, <1>11, <1>12, <1>13,
     <1>14, <1>15, <1>16, <1>17, <1>18, <1>19, <1>20 DEF Moves, RunStep

\* What it works on was tried.
LEMMA TriedBroke ==
  ASSUME NEW r \in Runs, FlowTypes, Room, TriedAt(r), Held(r), Broke(r)
  PROVE  TriedAt(r)'
BY DEF Broke, Ends, Keeps, Idle, TriedAt

LEMMA TriedStops ==
  ASSUME NEW r \in Runs, FlowTypes, Room, TriedAt(r), Held(r), Stops(r)
  PROVE  TriedAt(r)'
BY DEF Stops, Ends, Keeps, Idle, TriedAt, Over

LEMMA TriedOwn ==
  ASSUME NEW r \in Runs, FlowTypes, Room, TriedAt(r), Moves(r)
  PROVE  TriedAt(r)'
<1>1. CASE AlreadyClaimed(r)
  BY <1>1, AlreadyClaimedDoes DEF Ends, Idle, TriedAt
<1>2. CASE Claim(r)
  BY <1>2, ClaimDoes DEF Keeps, Ends, Goes, Idle, TriedAt, At, Held, Over
<1>3. CASE Put(r)
  BY <1>3, PutDoes DEF Goes, TriedAt
<1>4. CASE ReadBack(r)
  BY <1>4, ReadBackDoes, TriedBroke DEF Keeps, Ends, Goes, Idle, TriedAt, At, Held, Over
<1>5. CASE CreateBaseline(r)
  BY <1>5, CreateBaselineDoes, TriedBroke DEF Goes, TriedAt, At, Held
<1>6. CASE RecordBaseline(r)
  BY <1>6, RecordBaselineDoes DEF Keeps, Ends, Goes, Idle, TriedAt, At, Held, Over
<1>7. CASE Plan(r)
  <2>1. /\ UniqueId(runs[r]) \in Candidates /\ UniqueId(runs[r])[2] = runs[r].attempt
        /\ runs[r].attempt \in Nat
    BY <1>7, PlanDoes, RoomToPlan, RunTypes
  <2>2. /\ runs'[r].tried = runs[r].tried \union {UniqueId(runs[r])}
        /\ runs'[r].running = {UniqueId(runs[r])} /\ runs'[r].path = runs[r].path
        /\ runs'[r].attempt = runs[r].attempt
        /\ runs'[r].st = runs[r].st /\ runs'[r].winner = runs[r].winner
        /\ proc'[r].pc = "create" /\ proc'[r].cand = UniqueId(runs[r])
    BY <1>7, PlanDoes DEF Keeps
  <2>3. QED BY <2>1, <2>2 DEF TriedAt
<1>8. CASE CreateCandidate(r)
  BY <1>8, CreateCandidateDoes, TriedBroke DEF Goes, TriedAt, At, Held
<1>9. CASE RecordCandidate(r)
  BY <1>9, RecordCandidateDoes, TriedBroke
  DEF Keeps, Ends, Goes, Idle, TriedAt, At, Held, Over
<1>10. CASE Work(r)
  BY <1>10, WorkDoes, TriedBroke DEF Keeps, Ends, Goes, Idle, TriedAt, At, Held, Over
<1>11. CASE Decide(r)
  <2>1. /\ Goes(r, "plan") /\ Keeps(r, {"attempt", "state"})
        /\ runs'[r].attempt = runs[r].attempt + 1
        => TriedAt(r)'
    BY RunTypes, AttemptOf DEF TriedAt, Goes, Keeps
  <2>2. /\ At(r, "decide") /\ Goes(r, "integrate") /\ Keeps(r, {"st", "winner", "state"})
        /\ runs'[r].st = "publishing" /\ runs'[r].winner = proc[r].cand
        => TriedAt(r)'
    BY RunTypes DEF TriedAt, Goes, Keeps, At
  <2>3. QED BY <1>11, <2>1, <2>2, DecideDoes, TriedStops DEF Held, At
<1>12. CASE Integrate(r)
  BY <1>12, IntegrateDoes, TriedBroke DEF Goes, TriedAt, At, Held
<1>13. CASE RecordIntegration(r)
  BY <1>13, RecordIntegrationDoes DEF Keeps, Ends, Goes, Idle, TriedAt, At, Held, Over
<1>14. CASE Complete(r)
  BY <1>14, CompleteDoes, TriedBroke, TriedStops DEF At, Held
<1>15. CASE Repair(r)
  <2>1. /\ Goes(r, "baseline") /\ Keeps(r, {"attempt", "st", "integ", "state"})
        /\ runs'[r].attempt = runs[r].attempt + 1 /\ runs'[r].st = "ready"
        => TriedAt(r)'
    BY RunTypes, AttemptOf DEF TriedAt, Goes, Keeps
  <2>2. QED BY <1>15, <2>1, RepairDoes, TriedStops DEF Held, At
<1>16. CASE Crash(r)
  BY <1>16, CrashDoes DEF Ends, Idle, TriedAt
<1>17. CASE Cancelled(r)
  BY <1>17, CancelledDoes, TriedStops DEF At, Held
<1>18. CASE Resume(r)
  BY <1>18, ResumeDoes DEF Keeps, Ends, Goes, Idle, TriedAt, At, Held, Over
<1>19. CASE Cancel(r)
  BY <1>19, CancelDoes DEF Keeps, Ends, Goes, Idle, TriedAt, At, Held, Over
<1>20. CASE \E i \in Issues : Select(r, i)
  BY <1>20, SelectDoes DEF TriedAt
<1>21. QED
  BY <1>1, <1>2, <1>3, <1>4, <1>5, <1>6, <1>7, <1>8, <1>9, <1>10, <1>11, <1>12, <1>13,
     <1>14, <1>15, <1>16, <1>17, <1>18, <1>19, <1>20 DEF Moves, RunStep

\* What it makes is made for what it tried.
LEMMA MadeForBroke ==
  ASSUME NEW r \in Runs, FlowTypes, Room, TriedAt(r), MadeForAt(r), Held(r),
         Broke(r), trees' \subseteq trees, UNCHANGED branches
  PROVE  MadeForAt(r)'
BY DEF Broke, Ends, Keeps, Idle, MadeForAt, At

LEMMA MadeForStops ==
  ASSUME NEW r \in Runs, FlowTypes, Room, TriedAt(r), MadeForAt(r), Held(r),
         Stops(r), trees' \subseteq trees, UNCHANGED branches
  PROVE  MadeForAt(r)'
BY DEF Stops, Ends, Keeps, Idle, MadeForAt, At

LEMMA MadeForOwn ==
  ASSUME NEW r \in Runs, FlowTypes, Room, TriedAt(r), MadeForAt(r), Moves(r)
  PROVE  MadeForAt(r)'
<1>1. CASE AlreadyClaimed(r)
  BY <1>1, AlreadyClaimedDoes DEF Ends, Idle, MadeForAt, At
<1>2. CASE Claim(r)
  BY <1>2, ClaimDoes DEF Keeps, Ends, Goes, Idle, MadeForAt, At, Held, Free
<1>3. CASE Put(r)
  BY <1>3, PutDoes DEF Goes, MadeForAt, At
<1>4. CASE ReadBack(r)
  BY <1>4, ReadBackDoes, MadeForBroke
  DEF Keeps, Ends, Goes, Idle, MadeForAt, At, Held, Free
<1>5. CASE CreateBaseline(r)
  <2>1. /\ At(r, "baseline") /\ UNCHANGED runs /\ Goes(r, "verified")
        /\ trees' \union branches' = trees \union branches \union {<<r, Baseline>>}
        => MadeForAt(r)'
    BY NamesApart DEF MadeForAt, At, Goes
  <2>2. QED BY <1>5, <2>1, CreateBaselineDoes, MadeForBroke DEF Held, At
<1>6. CASE RecordBaseline(r)
  BY <1>6, RecordBaselineDoes DEF Keeps, Ends, Goes, Idle, MadeForAt, At, Held, Free
<1>7. CASE Plan(r)
  <2>1. At(r, "plan")
    BY <1>7, PlanDoes
  <2>2. UniqueId(runs[r]) \notin runs[r].tried
    BY <2>1, RoomToPlan
  <2>3. /\ runs'[r].tried = runs[r].tried \union {UniqueId(runs[r])}
        /\ proc'[r].cand = UniqueId(runs[r]) /\ trees' = trees /\ branches' = branches
    BY <1>7, PlanDoes
  <2>4. QED BY <2>2, <2>3 DEF MadeForAt
<1>8. CASE CreateCandidate(r)
  <2>1. /\ At(r, "create") /\ UNCHANGED runs /\ Goes(r, "record")
        /\ trees' \union branches' = trees \union branches \union {<<r, proc[r].cand>>}
        => MadeForAt(r)'
    BY DEF MadeForAt, At, Goes, TriedAt
  <2>2. QED BY <1>8, <2>1, CreateCandidateDoes, MadeForBroke DEF Held, At
<1>9. CASE RecordCandidate(r)
  BY <1>9, RecordCandidateDoes, MadeForBroke
  DEF Keeps, Ends, Goes, Idle, MadeForAt, At, Held, Free
<1>10. CASE Work(r)
  BY <1>10, WorkDoes, MadeForBroke
  DEF Keeps, Ends, Goes, Idle, MadeForAt, At, Held, Free
<1>11. CASE Decide(r)
  BY <1>11, DecideDoes, MadeForStops
  DEF Keeps, Ends, Goes, Idle, MadeForAt, At, Held, Free
<1>12. CASE Integrate(r)
  <2>1. /\ At(r, "integrate") /\ UNCHANGED runs /\ Goes(r, "integrated")
        /\ trees' \union branches' = trees \union branches \union {<<r, Integration(runs[r].winner)>>}
        => MadeForAt(r)'
    BY NamesApart DEF MadeForAt, At, Goes, TriedAt
  <2>2. At(r, "integrate") /\ UNCHANGED <<runs, trees, branches>> /\ Goes(r, "apply")
        => MadeForAt(r)'
    BY DEF MadeForAt, At, Goes
  <2>3. QED BY <1>12, <2>1, <2>2, IntegrateDoes, MadeForBroke DEF Held, At
<1>13. CASE RecordIntegration(r)
  BY <1>13, RecordIntegrationDoes DEF Keeps, Ends, Goes, Idle, MadeForAt, At, Held, Free
<1>14. CASE Complete(r)
  BY <1>14, CompleteDoes, MadeForBroke, MadeForStops DEF At, Held
<1>15. CASE Repair(r)
  BY <1>15, RepairDoes, MadeForStops
  DEF Keeps, Ends, Goes, Idle, MadeForAt, At, Held, Free
<1>16. CASE Crash(r)
  BY <1>16, CrashDoes DEF Ends, Idle, MadeForAt, At
<1>17. CASE Cancelled(r)
  BY <1>17, CancelledDoes, MadeForStops DEF At, Held
<1>18. CASE Resume(r)
  BY <1>18, ResumeDoes DEF Keeps, Ends, Goes, Idle, MadeForAt, At, Held, Free
<1>19. CASE Cancel(r)
  BY <1>19, CancelDoes DEF Keeps, Ends, Goes, Idle, MadeForAt, At, Held, Free
<1>20. CASE \E i \in Issues : Select(r, i)
  BY <1>20, SelectDoes DEF MadeForAt, At
<1>21. QED
  BY <1>1, <1>2, <1>3, <1>4, <1>5, <1>6, <1>7, <1>8, <1>9, <1>10, <1>11, <1>12, <1>13,
     <1>14, <1>15, <1>16, <1>17, <1>18, <1>19, <1>20 DEF Moves, RunStep

\* A budget that a step leaves or spends.
LEMMA Spending ==
  ASSUME NEW a \in Nat, NEW k \in Nat, NEW m \in Nat, NEW b
  PROVE  /\ b \in {a, a - 1} /\ k + a <= m => k + b <= m
         /\ b = a - 1 /\ k + a <= m + 1 => k + b <= m
         /\ k + a <= m => k + a <= m + 1
OBVIOUS

\* Suffixes stay in order while the attempt lasts, and start again with the next.
LEMMA RoomKept ==
  ASSUME NEW r \in Runs, FlowTypes, RoomAt(r), left' \in {left, left - 1},
         runs'[r].tried = runs[r].tried, runs'[r].attempt = runs[r].attempt,
         Spent(r) => Spent(r)' \/ left' = left - 1
  PROVE  RoomAt(r)'
<1>1. PICK k \in Nat : /\ Suffixes(r, k)
                       /\ k + left <= MaxTroubles + (IF Spent(r) THEN 1 ELSE 0)
  BY DEF RoomAt
<1>2. Suffixes(r, k)'
  BY <1>1 DEF Suffixes
<1>3. left \in Nat /\ MaxTroubles \in Nat /\ k \in Nat
  BY <1>1, Bounds DEF FlowTypes
<1>4. Spent(r) => k + left <= MaxTroubles + 1
  BY <1>1
<1>5. ~Spent(r) => k + left <= MaxTroubles
  BY <1>1, <1>3
<1>6. k + left' <= MaxTroubles + 1
  <2>1. k + left <= MaxTroubles + 1
    BY <1>3, <1>4, <1>5
  <2>2. MaxTroubles + 1 \in Nat
    BY <1>3
  <2>3. QED BY <1>3, <2>1, <2>2, Spending
<1>7. ~Spent(r)' => k + left' <= MaxTroubles
  BY <1>3, <1>4, <1>5, Spending
<1>8. k + left' <= MaxTroubles + (IF Spent(r)' THEN 1 ELSE 0)
  <2>1. CASE Spent(r)'
    BY <1>6, <2>1
  <2>2. CASE ~Spent(r)'
    <3>1. MaxTroubles + 0 = MaxTroubles
      BY <1>3
    <3>2. QED BY <1>7, <2>2, <3>1
  <2>3. QED BY <2>1, <2>2
<1>9. QED BY <1>2, <1>8 DEF RoomAt

LEMMA FullRoom == \A m \in Nat : \A n \in 0..m : 0 + n <= m + 1
OBVIOUS

LEMMA NoneUsed == \A m \in Nat : \A n \in 0..m : 0 + n <= m /\ m + 0 = m
OBVIOUS

LEMMA RoomAgain ==
  ASSUME NEW r \in Runs, left' \in 0..MaxTroubles,
         \A c \in runs'[r].tried : c[2] # runs'[r].attempt
  PROVE  RoomAt(r)'
<1>1. Suffixes(r, 0)'
  BY DEF Suffixes, Candidate
<1>2. 0 + left' <= MaxTroubles + (IF Spent(r)' THEN 1 ELSE 0)
  <2>1. 0 + left' <= MaxTroubles /\ MaxTroubles + 0 = MaxTroubles
    BY Bounds, NoneUsed
  <2>2. 0 + left' <= MaxTroubles + 1
    BY Bounds, FullRoom
  <2>3. CASE Spent(r)'
    BY <2>2, <2>3
  <2>4. CASE ~Spent(r)'
    BY <2>1, <2>4
  <2>5. QED BY <2>3, <2>4
<1>3. QED BY <1>1, <1>2 DEF RoomAt

LEMMA RoomPlanned ==
  ASSUME NEW r \in Runs, FlowTypes, Room, Plan(r)
  PROVE  RoomAt(r)'
<1>1. PICK k \in Nat : /\ Suffixes(r, k) /\ k + left <= MaxTroubles
                       /\ UniqueId(runs[r]) = Candidate(runs[r].attempt, k + 1)
  BY PlanDoes, RoomToPlan
<1>2. /\ runs'[r].tried = runs[r].tried \union {Candidate(runs[r].attempt, k + 1)}
      /\ runs'[r].attempt = runs[r].attempt /\ left' = left /\ proc'[r].pc = "create"
  BY <1>1, PlanDoes DEF Keeps
<1>3. \A n \in Nat : Candidate(runs[r].attempt, n) = Candidate(runs[r].attempt, k + 1)
                       <=> n = k + 1
  BY DEF Candidate
<1>4. Suffixes(r, k + 1)'
  BY <1>1, <1>2, <1>3 DEF Suffixes
<1>5. (k + 1) + left' <= MaxTroubles + (IF Spent(r)' THEN 1 ELSE 0)
  BY <1>1, <1>2, Bounds DEF FlowTypes, Spent
<1>6. QED BY <1>4, <1>5 DEF RoomAt

\* So there is always a suffix for the next process.
LEMMA RoomBroke ==
  ASSUME NEW r \in Runs, FlowTypes, RoomAt(r), Broke(r), left' = left
  PROVE  RoomAt(r)'
BY RoomKept DEF Broke, Ends, Keeps, Idle, Spent

LEMMA RoomStops ==
  ASSUME NEW r \in Runs, FlowTypes, RoomAt(r), Stops(r), left' = left
  PROVE  RoomAt(r)'
BY RoomKept DEF Stops, Ends, Keeps, Idle, Spent

LEMMA RoomOwn ==
  ASSUME NEW r \in Runs, FlowTypes, Room, RoomAt(r), WorkingAt(r), TriedAt(r), Moves(r)
  PROVE  RoomAt(r)'
<1>1. CASE AlreadyClaimed(r)
  BY <1>1, AlreadyClaimedDoes, RoomKept DEF Ends, Idle, Spent
<1>2. CASE Claim(r)
  BY <1>2, ClaimDoes, RoomKept DEF Keeps, Ends, Goes, Idle, Spent, At, Held
<1>3. CASE Put(r)
  BY <1>3, PutDoes, RoomKept DEF Spent, At
<1>4. CASE ReadBack(r)
  BY <1>4, ReadBackDoes, RoomBroke, RoomKept
  DEF Keeps, Ends, Goes, Idle, Spent, At, Held
<1>5. CASE CreateBaseline(r)
  <2>1. CASE UNCHANGED runs /\ (Goes(r, "verified"))
    BY <1>5, <2>1, CreateBaselineDoes, RoomKept DEF Spent, At
  <2>2. CASE Broke(r)
    BY <1>5, <2>2, CreateBaselineDoes, RoomBroke
  <2>3. QED BY <1>5, <2>1, <2>2, CreateBaselineDoes
<1>6. CASE RecordBaseline(r)
  BY <1>6, RecordBaselineDoes, RoomKept DEF Keeps, Ends, Goes, Idle, Spent, At, Held
<1>7. CASE Plan(r)
  BY <1>7, RoomPlanned
<1>8. CASE CreateCandidate(r)
  <2>1. CASE UNCHANGED runs /\ (Goes(r, "record"))
    BY <1>8, <2>1, CreateCandidateDoes, RoomKept DEF Goes, Spent
  <2>2. CASE Broke(r)
    BY <1>8, <2>2, CreateCandidateDoes, RoomBroke
  <2>3. QED BY <1>8, <2>1, <2>2, CreateCandidateDoes
<1>9. CASE RecordCandidate(r)
  BY <1>9, RecordCandidateDoes, RoomBroke, RoomKept
  DEF Keeps, Ends, Goes, Idle, Spent, At, Held
<1>10. CASE Work(r)
  BY <1>10, WorkDoes, RoomBroke, RoomKept DEF Keeps, Ends, Goes, Idle, Spent, At, Held
<1>11. CASE Decide(r)
  <2>1. /\ Goes(r, "plan") /\ runs'[r].attempt = runs[r].attempt + 1
        /\ runs'[r].tried = runs[r].tried /\ left' = left
        => RoomAt(r)'
    <3>1. \A c \in runs[r].tried : c[2] # runs[r].attempt + 1
      BY RunTypes DEF TriedAt
    <3>2. QED BY <3>1, RoomAgain DEF FlowTypes
  <2>2. CASE Stops(r)
    BY <1>11, <2>2, DecideDoes, RoomStops DEF Held, At
  <2>3. CASE /\ Goes(r, "plan") /\ Keeps(r, {"attempt", "state"})
             /\ runs'[r].attempt = runs[r].attempt + 1
    BY <1>11, <2>1, <2>3, DecideDoes DEF Keeps
  <2>4. CASE Goes(r, "integrate") /\ Keeps(r, {"st", "winner", "state"})
    BY <1>11, <2>4, DecideDoes, RoomKept DEF Keeps, Goes, Spent
  <2>5. QED BY <1>11, <2>2, <2>3, <2>4, DecideDoes
<1>12. CASE Integrate(r)
  <2>1. CASE UNCHANGED runs /\ (Goes(r, "integrated") \/ Goes(r, "apply"))
    BY <1>12, <2>1, IntegrateDoes, RoomKept DEF Goes, Spent
  <2>2. CASE Broke(r)
    BY <1>12, <2>2, IntegrateDoes, RoomBroke
  <2>3. QED BY <1>12, <2>1, <2>2, IntegrateDoes
<1>13. CASE RecordIntegration(r)
  BY <1>13, RecordIntegrationDoes, RoomKept DEF Keeps, Ends, Goes, Idle, Spent, At, Held
<1>14. CASE Complete(r)
  BY <1>14, CompleteDoes, RoomBroke, RoomStops
<1>15. CASE Repair(r)
  <2>1. /\ Goes(r, "baseline") /\ runs'[r].attempt = runs[r].attempt + 1
        /\ runs'[r].tried = runs[r].tried /\ left' = left
        => RoomAt(r)'
    <3>1. \A c \in runs[r].tried : c[2] # runs[r].attempt + 1
      BY RunTypes DEF TriedAt
    <3>2. QED BY <3>1, RoomAgain DEF FlowTypes
  <2>2. QED BY <1>15, <2>1, RepairDoes, RoomStops DEF Keeps, Held, At
<1>16. CASE Crash(r)
  BY <1>16, CrashDoes, RoomKept
<1>17. CASE Cancelled(r)
  BY <1>17, CancelledDoes, RoomStops
<1>18. CASE Resume(r)
  BY <1>18, ResumeDoes, RoomKept DEF Keeps, Ends, Goes, Idle, Spent, At, Held
<1>19. CASE Cancel(r)
  BY <1>19, CancelDoes, RoomKept DEF Keeps, Ends, Goes, Idle, Spent, At, Held
<1>20. CASE \E i \in Issues : Select(r, i)
  <2>1. /\ runs'[r] = Blank /\ left' = left
    BY <1>20, SelectDoes DEF WorkingAt
  <2>2. runs'[r].tried = {}
    BY <2>1 DEF Blank
  <2>3. QED BY <2>1, <2>2, RoomAgain DEF FlowTypes
<1>21. QED
  BY <1>1, <1>2, <1>3, <1>4, <1>5, <1>6, <1>7, <1>8, <1>9, <1>10, <1>11, <1>12, <1>13,
     <1>14, <1>15, <1>16, <1>17, <1>18, <1>19, <1>20 DEF Moves, RunStep

\* What the others see of it.
LEMMA OneDisk ==
  ASSUME FlowTypes, NEW r \in Runs, Moves(r), NEW s \in Runs \ {r}, NEW n
  PROVE  /\ left' \in {left, left - 1}
         /\ <<s, n>> \in trees' <=> <<s, n>> \in trees
         /\ <<s, n>> \in branches' <=> <<s, n>> \in branches
<1>1. CASE AlreadyClaimed(r)
  BY <1>1, AlreadyClaimedDoes
<1>2. CASE Claim(r)
  BY <1>2, ClaimDoes
<1>3. CASE Put(r)
  BY <1>3, PutDoes
<1>4. CASE ReadBack(r)
  BY <1>4, ReadBackDoes
<1>5. CASE CreateBaseline(r)
  BY <1>5, CreateBaselineDoes
<1>6. CASE RecordBaseline(r)
  BY <1>6, RecordBaselineDoes
<1>7. CASE Plan(r)
  BY <1>7, PlanDoes
<1>8. CASE CreateCandidate(r)
  BY <1>8, CreateCandidateDoes
<1>9. CASE RecordCandidate(r)
  BY <1>9, RecordCandidateDoes
<1>10. CASE Work(r)
  BY <1>10, WorkDoes
<1>11. CASE Decide(r)
  BY <1>11, DecideDoes
<1>12. CASE Integrate(r)
  BY <1>12, IntegrateDoes
<1>13. CASE RecordIntegration(r)
  BY <1>13, RecordIntegrationDoes
<1>14. CASE Complete(r)
  BY <1>14, CompleteDoes
<1>15. CASE Repair(r)
  BY <1>15, RepairDoes
<1>16. CASE Crash(r)
  BY <1>16, CrashDoes
<1>17. CASE Cancelled(r)
  BY <1>17, CancelledDoes
<1>18. CASE Resume(r)
  BY <1>18, ResumeDoes
<1>19. CASE Cancel(r)
  BY <1>19, CancelDoes
<1>20. CASE \E i \in Issues : Select(r, i)
  BY <1>20, SelectDoes
<1>21. QED
  BY <1>1, <1>2, <1>3, <1>4, <1>5, <1>6, <1>7, <1>8, <1>9, <1>10, <1>11, <1>12, <1>13,
     <1>14, <1>15, <1>16, <1>17, <1>18, <1>19, <1>20 DEF Moves, RunStep

LEMMA OtherRuns ==
  ASSUME FlowTypes, NEW r \in Runs, Moves(r), NEW s \in Runs \ {r}
  PROVE  /\ WorkingAt(s) => WorkingAt(s)'
         /\ TriedAt(s) => TriedAt(s)'
         /\ MadeForAt(s) => MadeForAt(s)'
         /\ RoomAt(s) => RoomAt(s)'
<1>1. runs'[s] = runs[s] /\ proc'[s] = proc[s]
  BY OneMoves DEF Others, OtherProcs
<1>2. WorkingAt(s) => WorkingAt(s)'
  BY <1>1 DEF WorkingAt, At, Held
<1>3. TriedAt(s) => TriedAt(s)'
  BY <1>1 DEF TriedAt
<1>4. MadeForAt(s) => MadeForAt(s)'
  BY <1>1, OneDisk DEF MadeForAt, At
<1>5. RoomAt(s) => RoomAt(s)'
  BY <1>1, OneDisk, RoomKept DEF Spent
<1>6. QED BY <1>2, <1>3, <1>4, <1>5

LEMMA MovesKeep ==
  ASSUME FlowTypes, Working, Tried, Room, MadeFor, NEW r \in Runs, Moves(r)
  PROVE  (Working /\ Tried /\ Room /\ MadeFor)'
<1>1. WorkingAt(r)' /\ TriedAt(r)' /\ RoomAt(r)' /\ MadeForAt(r)'
  BY WorkingOwn, TriedOwn, RoomOwn, MadeForOwn DEF Working, Tried, Room, MadeFor
<1>2. ASSUME NEW s \in Runs \ {r}
      PROVE  WorkingAt(s)' /\ TriedAt(s)' /\ RoomAt(s)' /\ MadeForAt(s)'
  BY OtherRuns DEF Working, Tried, Room, MadeFor
<1>3. QED BY <1>1, <1>2 DEF Working, Tried, Room, MadeFor

\* What gg clean takes from the runs.
Fades(s) == /\ Keeps(s, {"state", "arts"})
            /\ runs'[s].state => runs[s].state
            /\ runs'[s].arts => runs[s].arts
Fading == /\ UNCHANGED proc /\ left' \in {left, left - 1}
          /\ trees' \subseteq trees /\ branches' \subseteq branches /\ objects' \subseteq objects
          /\ \A s \in Runs : Fades(s) /\ (clean.run # s => runs'[s] = runs[s])

LEMMA CleanFades ==
  ASSUME FlowTypes, CleanTypes, CleanStep
  PROVE  Fading
<1> USE DEF Fading, Fades, Keeps
<1>1. CASE RemoveRun
  <2>1. /\ UNCHANGED <<proc, trees, branches, objects, left>>
    BY <1>1 DEF RemoveRun
  <2>2. ASSUME NEW s \in Runs PROVE Fades(s) /\ (clean.run # s => runs'[s] = runs[s])
    <3>1. CASE s = clean.run
      BY <1>1, <3>1, RemoveRunDoes
    <3>2. CASE s # clean.run
      BY <1>1, <3>2, RemoveRunDoes DEF Others
    <3>3. QED BY <3>1, <3>2
  <2>3. QED BY <2>1, <2>2
<1>2. CASE StartClean
  BY <1>2 DEF StartClean, Disk
<1>3. CASE ListStale
  BY <1>3 DEF ListStale, flow
<1>4. CASE Archive
  BY <1>4 DEF Archive, flow
<1>5. CASE RemoveWorktrees
  BY <1>5 DEF RemoveWorktrees
<1>6. CASE ListOrphans
  BY <1>6 DEF ListOrphans, flow
<1>7. CASE RemoveOrphan
  BY <1>7 DEF RemoveOrphan
<1>8. CASE ListObjects
  BY <1>8 DEF ListObjects, flow
<1>9. CASE RemoveObject
  BY <1>9 DEF RemoveObject
<1>10. CASE EndClean
  BY <1>10 DEF EndClean, flow
<1>11. CASE CrashClean
  BY <1>11 DEF CrashClean, Disk
<1>12. QED
  BY <1>1, <1>2, <1>3, <1>4, <1>5, <1>6, <1>7, <1>8, <1>9, <1>10, <1>11 DEF CleanStep

LEMMA CleanKeeps ==
  ASSUME FlowTypes, FlowTypes', Fading, Working, Tried, Room, MadeFor
  PROVE  (Working /\ Tried /\ Room /\ MadeFor)'
<1>1. SUFFICES ASSUME NEW s \in Runs
               PROVE  WorkingAt(s)' /\ TriedAt(s)' /\ RoomAt(s)' /\ MadeForAt(s)'
  BY DEF Working, Tried, Room, MadeFor
<1>2. WorkingAt(s) /\ TriedAt(s) /\ RoomAt(s) /\ MadeForAt(s)
  BY DEF Working, Tried, Room, MadeFor
<1>3. UNCHANGED proc /\ Fades(s)
  BY DEF Fading
<1>4. WorkingAt(s)'
  <2>1. runs[s] = Blank => runs'[s] = Blank
    <3>1. runs'[s] \in RunRec
      BY DEF FlowTypes
    <3>2. SUFFICES ASSUME runs[s] = Blank PROVE runs'[s] = Blank
      OBVIOUS
    <3>3. /\ runs[s].st = "none" /\ runs[s].issue = NoIssue /\ ~runs[s].state
          /\ ~runs[s].arts /\ runs[s].attempt = 1 /\ runs[s].tried = {}
          /\ runs[s].running = {} /\ runs[s].path = {} /\ runs[s].baseline = FALSE
          /\ runs[s].winner = Nothing /\ runs[s].integ = Nothing
          /\ runs[s].cancel = FALSE
      BY <3>2 DEF Blank
    <3>4. runs'[s].state = FALSE /\ runs'[s].arts = FALSE
      BY <1>3, <3>1, <3>3 DEF Fades
    <3>5. QED BY <1>3, <3>1, <3>3, <3>4 DEF Fades, Keeps, Blank, RunRec
  <2>2. QED BY <1>2, <1>3, <2>1 DEF WorkingAt, Held, At, Fades, Keeps
<1>5. TriedAt(s)'
  BY <1>2, <1>3 DEF TriedAt, Fades, Keeps
<1>6. RoomAt(s)'
  BY <1>2, <1>3, RoomKept DEF Fading, Fades, Keeps, Spent
<1>7. MadeForAt(s)'
  BY <1>2, <1>3 DEF MadeForAt, Fading, Fades, Keeps, At
<1>8. QED BY <1>4, <1>5, <1>6, <1>7

\* A step of the system is one of a run, one of the clean, or none.
LEMMA OneStep ==
  ASSUME [Next]_vars
  PROVE  \/ \E r \in Runs : Moves(r) /\ quiet' = (quiet /\ In("idle"))
                                  /\ UNCHANGED <<clean, archive, swept>>
         \/ CleanStep
         \/ UNCHANGED vars
BY DEF Next, Pipelines, Starts, Moves

\* How a process comes to hold the lock on an issue.
LockChange(r) ==
  \/ Held(r) /\ runs'[r].issue = runs[r].issue
  \/ ~Held(r) /\ ~Held(r)' /\ runs' = runs
  \/ /\ Holders(proc[r].issue) = {} /\ Existing(proc[r].issue) = {}
     /\ runs'[r].issue = proc[r].issue
  \/ /\ Known(r) /\ runs[r].st \notin Over /\ Holders(runs[r].issue) = {}
     /\ runs'[r].issue = runs[r].issue
  \/ /\ Known(r) /\ runs[r].st \notin Over /\ UNCHANGED proc
     /\ runs'[r].issue = runs[r].issue

LEMMA LocksChange ==
  ASSUME FlowTypes, NEW r \in Runs, Moves(r)
  PROVE  LockChange(r)
<1>1. CASE AlreadyClaimed(r)
  BY <1>1, AlreadyClaimedDoes DEF LockChange, Held, Ends, Idle
<1>2. CASE Claim(r)
  BY <1>2, ClaimDoes DEF LockChange, Held, At, Ends, Goes, Broke, Stops, Keeps, Idle
<1>3. CASE Put(r)
  BY <1>3, PutDoes DEF LockChange, Held, At
<1>4. CASE ReadBack(r)
  BY <1>4, ReadBackDoes DEF LockChange, Held, At, Ends, Goes, Broke, Stops, Keeps, Idle
<1>5. CASE CreateBaseline(r)
  BY <1>5, CreateBaselineDoes
  DEF LockChange, Held, At, Ends, Goes, Broke, Stops, Keeps, Idle
<1>6. CASE RecordBaseline(r)
  BY <1>6, RecordBaselineDoes
  DEF LockChange, Held, At, Ends, Goes, Broke, Stops, Keeps, Idle
<1>7. CASE Plan(r)
  BY <1>7, PlanDoes DEF LockChange, Held, At, Ends, Goes, Broke, Stops, Keeps, Idle
<1>8. CASE CreateCandidate(r)
  BY <1>8, CreateCandidateDoes
  DEF LockChange, Held, At, Ends, Goes, Broke, Stops, Keeps, Idle
<1>9. CASE RecordCandidate(r)
  BY <1>9, RecordCandidateDoes
  DEF LockChange, Held, At, Ends, Goes, Broke, Stops, Keeps, Idle
<1>10. CASE Work(r)
  BY <1>10, WorkDoes DEF LockChange, Held, At, Ends, Goes, Broke, Stops, Keeps, Idle
<1>11. CASE Decide(r)
  BY <1>11, DecideDoes DEF LockChange, Held, At, Ends, Goes, Broke, Stops, Keeps, Idle
<1>12. CASE Integrate(r)
  BY <1>12, IntegrateDoes
  DEF LockChange, Held, At, Ends, Goes, Broke, Stops, Keeps, Idle
<1>13. CASE RecordIntegration(r)
  BY <1>13, RecordIntegrationDoes
  DEF LockChange, Held, At, Ends, Goes, Broke, Stops, Keeps, Idle
<1>14. CASE Complete(r)
  BY <1>14, CompleteDoes DEF LockChange, Held, At, Ends, Goes, Broke, Stops, Keeps, Idle
<1>15. CASE Repair(r)
  BY <1>15, RepairDoes DEF LockChange, Held, At, Ends, Goes, Broke, Stops, Keeps, Idle
<1>16. CASE Crash(r)
  <2>1. ~Held(r)' /\ runs' = runs
    BY <1>16, CrashDoes DEF Ends, Idle, Held
  <2>2. QED BY <2>1 DEF LockChange
<1>17. CASE Cancelled(r)
  BY <1>17, CancelledDoes
  DEF LockChange, Held, At, Ends, Goes, Broke, Stops, Keeps, Idle
<1>18. CASE Resume(r)
  BY <1>18, ResumeDoes DEF LockChange, Held, At, Ends, Goes, Broke, Stops, Keeps, Idle
<1>19. CASE Cancel(r)
  BY <1>19, CancelDoes DEF LockChange, Held, At, Ends, Goes, Broke, Stops, Keeps, Idle
<1>20. CASE \E i \in Issues : Select(r, i)
  BY <1>20, SelectDoes DEF LockChange, Held
<1>21. QED
  BY <1>1, <1>2, <1>3, <1>4, <1>5, <1>6, <1>7, <1>8, <1>9, <1>10, <1>11, <1>12, <1>13,
     <1>14, <1>15, <1>16, <1>17, <1>18, <1>19, <1>20 DEF Moves, RunStep

LEMMA LocksKeep ==
  ASSUME FlowTypes, Working, Alone, OneRunPerIssue, NEW r \in Runs, Moves(r)
  PROVE  (Alone /\ OneRunPerIssue)'
<1> DEFINE Past(s) == runs[s].st \in {"failed", "cancelled"}
<1>1. \A s \in Runs \ {r} : runs'[s] = runs[s] /\ proc'[s] = proc[s]
  BY OneMoves DEF Others, OtherProcs
<1>2. \A s \in Runs \ {r} : Held(s)' <=> Held(s)
  BY <1>1 DEF Held
<1>3. \A s \in Runs : Held(s) => proc[s].issue = runs[s].issue
  BY DEF Working, WorkingAt
<1>4. ASSUME NEW s \in Runs \ {r}, Held(r)', runs'[r].issue = runs[s].issue
      PROVE  ~Held(s) /\ (Known(s) => Past(s))
  <2>1. CASE Held(r) /\ runs'[r].issue = runs[r].issue
    BY <1>4, <2>1 DEF Alone
  <2>2. CASE /\ Holders(proc[r].issue) = {} /\ Existing(proc[r].issue) = {}
             /\ runs'[r].issue = proc[r].issue
    BY <1>3, <1>4, <2>2 DEF Holders, Existing, Held
  <2>3. CASE /\ Known(r) /\ runs[r].st \notin Over /\ Holders(runs[r].issue) = {}
             /\ runs'[r].issue = runs[r].issue
    BY <1>3, <1>4, <2>3 DEF Holders, Held, OneRunPerIssue, Over
  <2>4. CASE /\ Known(r) /\ runs[r].st \notin Over /\ UNCHANGED proc
             /\ runs'[r].issue = runs[r].issue
    <3>1. Held(r)
      BY <1>4, <2>4 DEF Held
    <3>2. QED BY <1>4, <2>4, <3>1 DEF Alone
  <2>5. QED BY <1>4, <2>1, <2>2, <2>3, <2>4, LocksChange DEF LockChange
<1>5. ASSUME NEW s \in Runs \ {r}, Held(s), runs'[r].issue = runs[s].issue
      PROVE  ~Held(r)' /\ (Known(r)' => runs'[r].st \in {"failed", "cancelled"})
  <2>1. proc[s].issue = runs[s].issue
    BY <1>3, <1>5
  <2>2. CASE Held(r) /\ runs'[r].issue = runs[r].issue
    BY <1>5, <2>2 DEF Alone
  <2>3. CASE ~Held(r) /\ ~Held(r)' /\ runs' = runs
    BY <1>5, <2>3 DEF Alone, Known
  <2>4. CASE Holders(proc[r].issue) = {} /\ runs'[r].issue = proc[r].issue
    BY <1>5, <2>1, <2>4 DEF Holders, Held
  <2>5. CASE Known(r) /\ runs[r].st \notin Over /\ runs'[r].issue = runs[r].issue
    BY <1>5, <2>5 DEF Alone, Over
  <2>6. QED BY <2>2, <2>3, <2>4, <2>5, LocksChange DEF LockChange
<1>6. ASSUME NEW s \in Runs \ {r}, Known(r)', Known(s), runs'[r].issue = runs[s].issue
      PROVE  runs'[r].st \in {"failed", "cancelled"} \/ Past(s)
  <2>1. CASE Held(r) /\ runs'[r].issue = runs[r].issue
    BY <1>6, <2>1 DEF Alone
  <2>2. CASE runs' = runs
    BY <1>6, <2>2 DEF OneRunPerIssue, Known
  <2>3. CASE Existing(proc[r].issue) = {} /\ runs'[r].issue = proc[r].issue
    BY <1>6, <2>3 DEF Existing
  <2>4. CASE Known(r) /\ runs[r].st \notin Over /\ runs'[r].issue = runs[r].issue
    BY <1>6, <2>4 DEF OneRunPerIssue, Over
  <2>5. QED BY <2>1, <2>2, <2>3, <2>4, LocksChange DEF LockChange
<1>7. Alone'
  <2>1. SUFFICES ASSUME NEW a \in Runs, NEW b \in Runs, a # b, Held(a)',
                        runs'[a].issue = runs'[b].issue
                 PROVE  ~Held(b)' /\ (Known(b)' => runs'[b].st \in {"failed", "cancelled"})
    BY DEF Alone
  <2>2. CASE a = r
    BY <1>1, <1>2, <1>4, <2>1, <2>2 DEF Known
  <2>3. CASE b = r
    BY <1>1, <1>2, <1>5, <2>1, <2>3
  <2>4. CASE a # r /\ b # r
    <3>1. Held(a) /\ runs[a].issue = runs[b].issue
      BY <1>1, <1>2, <2>1, <2>4
    <3>2. ~Held(b) /\ (Known(b) => Past(b))
      BY <2>1, <3>1 DEF Alone
    <3>3. QED BY <1>1, <1>2, <2>4, <3>2 DEF Known
  <2>5. QED BY <2>2, <2>3, <2>4
<1>8. OneRunPerIssue'
  <2>1. SUFFICES ASSUME NEW a \in Runs, NEW b \in Runs, a # b, Known(a)', Known(b)',
                        runs'[a].issue = runs'[b].issue
                 PROVE  \/ runs'[a].st \in {"failed", "cancelled"}
                        \/ runs'[b].st \in {"failed", "cancelled"}
    BY DEF OneRunPerIssue
  <2>2. CASE a = r
    BY <1>1, <1>6, <2>1, <2>2 DEF Known
  <2>3. CASE b = r
    BY <1>1, <1>6, <2>1, <2>3 DEF Known
  <2>4. CASE a # r /\ b # r
    BY <1>1, <2>1, <2>4 DEF Known, OneRunPerIssue
  <2>5. QED BY <2>2, <2>3, <2>4
<1>9. QED BY <1>7, <1>8

LEMMA CleanLeavesLocks ==
  ASSUME Fading, Alone, OneRunPerIssue
  PROVE  (Alone /\ OneRunPerIssue)'
<1>1. \A s \in Runs : /\ runs'[s].st = runs[s].st /\ runs'[s].issue = runs[s].issue
                      /\ runs'[s].state => runs[s].state
  BY DEF Fading, Fades, Keeps
<1>2. \A s \in Runs : Held(s)' <=> Held(s)
  BY DEF Fading, Held
<1>3. Alone'
  BY <1>1, <1>2 DEF Alone, Known
<1>4. OneRunPerIssue'
  BY <1>1 DEF OneRunPerIssue, Known
<1>5. QED BY <1>3, <1>4

\* A run that is written is there again, and one that is gone is worked on no more.
LEMMA StateBack ==
  ASSUME FlowTypes, NEW r \in Runs, Moves(r)
  PROVE  \/ runs'[r].state = TRUE
         \/ runs' = runs /\ (~At(r, "idle") \/ runs[r].st = "none")
<1>1. CASE AlreadyClaimed(r)
  BY <1>1, AlreadyClaimedDoes DEF At
<1>2. CASE Claim(r)
  BY <1>2, ClaimDoes DEF Broke, Stops, At
<1>3. CASE Put(r)
  BY <1>3, PutDoes DEF At
<1>4. CASE ReadBack(r)
  BY <1>4, ReadBackDoes DEF Broke, Stops, At
<1>5. CASE CreateBaseline(r)
  BY <1>5, CreateBaselineDoes DEF Broke, Stops, At
<1>6. CASE RecordBaseline(r)
  BY <1>6, RecordBaselineDoes DEF Broke, Stops, At
<1>7. CASE Plan(r)
  BY <1>7, PlanDoes DEF Broke, Stops, At
<1>8. CASE CreateCandidate(r)
  BY <1>8, CreateCandidateDoes DEF Broke, Stops, At
<1>9. CASE RecordCandidate(r)
  BY <1>9, RecordCandidateDoes DEF Broke, Stops, At
<1>10. CASE Work(r)
  BY <1>10, WorkDoes DEF Broke, Stops, At
<1>11. CASE Decide(r)
  BY <1>11, DecideDoes DEF Broke, Stops, At
<1>12. CASE Integrate(r)
  BY <1>12, IntegrateDoes DEF Broke, Stops, At
<1>13. CASE RecordIntegration(r)
  BY <1>13, RecordIntegrationDoes DEF Broke, Stops, At
<1>14. CASE Complete(r)
  BY <1>14, CompleteDoes DEF Broke, Stops, At
<1>15. CASE Repair(r)
  BY <1>15, RepairDoes DEF Broke, Stops, At
<1>16. CASE Crash(r)
  BY <1>16, CrashDoes
<1>17. CASE Cancelled(r)
  BY <1>17, CancelledDoes DEF Broke, Stops, At
<1>18. CASE Resume(r)
  BY <1>18, ResumeDoes
<1>19. CASE Cancel(r)
  BY <1>19, CancelDoes DEF Broke, Stops, At
<1>20. CASE \E i \in Issues : Select(r, i)
  BY <1>20, SelectDoes
<1>21. QED
  BY <1>1, <1>2, <1>3, <1>4, <1>5, <1>6, <1>7, <1>8, <1>9, <1>10, <1>11, <1>12, <1>13,
     <1>14, <1>15, <1>16, <1>17, <1>18, <1>19, <1>20 DEF Moves, RunStep

LEMMA AtRest ==
  ASSUME NEW r \in Runs, Broke(r) \/ Stops(r) \/ Ends(r)
  PROVE  proc'[r].pc = "idle"
<1>1. Ends(r)
  BY DEF Broke, Stops
<1>2. QED BY <1>1 DEF Ends, Idle

\* What is done while gg clean rests.
LEMMA RetiredKept ==
  ASSUME FlowTypes, Retired, NEW r \in Runs, Moves(r), UNCHANGED archive,
         quiet' = (quiet /\ In("idle"))
  PROVE  Retired'
<1>1. SUFFICES ASSUME NEW s \in Runs, runs'[s].st # "none", ~Known(s)'
               PROVE  /\ archive[s].made
                      /\ quiet' => (Says(s) /\ Gone(s) /\ At(s, "idle"))'
  BY DEF Retired
<1>2. CASE s = r
  <2>1. runs' = runs /\ (~At(r, "idle") \/ runs[r].st = "none")
    BY <1>1, <1>2, StateBack DEF Known
  <2>2. runs[r].st # "none" /\ ~Known(r) /\ ~At(r, "idle")
    BY <1>1, <1>2, <2>1 DEF Known
  <2>3. archive[r].made /\ ~quiet
    BY <2>2 DEF Retired
  <2>4. QED BY <1>2, <2>3
<1>3. CASE s # r
  <2>1. runs'[s] = runs[s] /\ proc'[s] = proc[s]
    BY <1>3, OneMoves DEF Others, OtherProcs
  <2>2. \A n : <<s, n>> \in trees' <=> <<s, n>> \in trees
    BY <1>3, OneDisk
  <2>3. QED BY <1>1, <2>1, <2>2 DEF Retired, Known, At, Says, Gone
<1>4. QED BY <1>2, <1>3

LEMMA CleanRests ==
  ASSUME CleanTypes, Calm, Listed, Unused, UNCHANGED <<clean, archive, swept>>,
         quiet' = (quiet /\ In("idle"))
  PROVE  (CleanTypes /\ Calm /\ Listed /\ Unused)'
<1>1. quiet' \in BOOLEAN /\ (quiet' => quiet /\ clean.pc = "idle")
  BY DEF CleanTypes, In
<1>2. CleanTypes'
  BY <1>1 DEF CleanTypes
<1>3. Calm'
  BY <1>1 DEF Calm, In
<1>4. Listed'
  BY <1>1 DEF Listed, ListedRuns, Archived
<1>5. Unused'
  BY <1>1 DEF Unused, In
<1>6. QED BY <1>2, <1>3, <1>4, <1>5

\* The worktree of a candidate is there until its path is recorded.
RecordedAt(r) == quiet /\ At(r, "record") /\ ~runs[r].cancel => <<r, proc[r].cand>> \in trees

LEMMA RecordedOwn ==
  ASSUME NEW r \in Runs, FlowTypes, RecordedAt(r), Moves(r), quiet' => quiet
  PROVE  RecordedAt(r)'
<1>1. CASE AlreadyClaimed(r)
  <2>1. proc'[r].pc # "record"
    BY <1>1, AlreadyClaimedDoes, AtRest
  <2>2. QED BY <2>1 DEF RecordedAt, At
<1>2. CASE Claim(r)
  <2>1. proc'[r].pc # "record"
    BY <1>2, ClaimDoes, AtRest DEF Goes
  <2>2. QED BY <2>1 DEF RecordedAt, At
<1>3. CASE Put(r)
  <2>1. proc'[r].pc # "record"
    BY <1>3, PutDoes DEF Goes
  <2>2. QED BY <2>1 DEF RecordedAt, At
<1>4. CASE ReadBack(r)
  <2>1. proc'[r].pc # "record"
    BY <1>4, ReadBackDoes, AtRest DEF Goes
  <2>2. QED BY <2>1 DEF RecordedAt, At
<1>5. CASE CreateBaseline(r)
  <2>1. proc'[r].pc # "record"
    BY <1>5, CreateBaselineDoes, AtRest DEF Goes
  <2>2. QED BY <2>1 DEF RecordedAt, At
<1>6. CASE RecordBaseline(r)
  <2>1. proc'[r].pc # "record"
    BY <1>6, RecordBaselineDoes, AtRest DEF Goes
  <2>2. QED BY <2>1 DEF RecordedAt, At
<1>7. CASE Plan(r)
  <2>1. proc'[r].pc # "record"
    BY <1>7, PlanDoes, AtRest DEF Goes
  <2>2. QED BY <2>1 DEF RecordedAt, At
<1>8. CASE CreateCandidate(r)
  <2>1. CASE /\ Goes(r, "record")
             /\ trees' = trees \union {<<r, proc[r].cand>>}
    BY <2>1 DEF RecordedAt, Goes
  <2>2. CASE Broke(r)
    <3>1. proc'[r].pc # "record"
      BY <2>2, AtRest
    <3>2. QED BY <3>1 DEF RecordedAt, At
  <2>3. QED BY <1>8, <2>1, <2>2, CreateCandidateDoes
<1>9. CASE RecordCandidate(r)
  <2>1. proc'[r].pc # "record"
    BY <1>9, RecordCandidateDoes, AtRest DEF Goes
  <2>2. QED BY <2>1 DEF RecordedAt, At
<1>10. CASE Work(r)
  <2>1. proc'[r].pc # "record"
    BY <1>10, WorkDoes, AtRest DEF Goes
  <2>2. QED BY <2>1 DEF RecordedAt, At
<1>11. CASE Decide(r)
  <2>1. proc'[r].pc # "record"
    BY <1>11, DecideDoes, AtRest DEF Goes
  <2>2. QED BY <2>1 DEF RecordedAt, At
<1>12. CASE Integrate(r)
  <2>1. proc'[r].pc # "record"
    BY <1>12, IntegrateDoes, AtRest DEF Goes
  <2>2. QED BY <2>1 DEF RecordedAt, At
<1>13. CASE RecordIntegration(r)
  <2>1. proc'[r].pc # "record"
    BY <1>13, RecordIntegrationDoes, AtRest DEF Goes
  <2>2. QED BY <2>1 DEF RecordedAt, At
<1>14. CASE Complete(r)
  <2>1. proc'[r].pc # "record"
    BY <1>14, CompleteDoes, AtRest
  <2>2. QED BY <2>1 DEF RecordedAt, At
<1>15. CASE Repair(r)
  <2>1. proc'[r].pc # "record"
    BY <1>15, RepairDoes, AtRest DEF Goes
  <2>2. QED BY <2>1 DEF RecordedAt, At
<1>16. CASE Crash(r)
  <2>1. proc'[r].pc # "record"
    BY <1>16, CrashDoes, AtRest
  <2>2. QED BY <2>1 DEF RecordedAt, At
<1>17. CASE Cancelled(r)
  <2>1. proc'[r].pc # "record"
    BY <1>17, CancelledDoes, AtRest
  <2>2. QED BY <2>1 DEF RecordedAt, At
<1>18. CASE Resume(r)
  <2>1. proc'[r].pc # "record"
    BY <1>18, ResumeDoes, AtRest DEF Goes, At
  <2>2. QED BY <2>1 DEF RecordedAt, At
<1>19. CASE Cancel(r)
  <2>1. CASE runs'[r].cancel = TRUE
    BY <2>1 DEF RecordedAt
  <2>2. CASE At(r, "idle")
    BY <1>19, <2>2, CancelDoes DEF RecordedAt, At
  <2>3. QED BY <1>19, <2>1, <2>2, CancelDoes
<1>20. CASE \E i \in Issues : Select(r, i)
  <2>1. proc'[r].pc # "record"
    BY <1>20, SelectDoes
  <2>2. QED BY <2>1 DEF RecordedAt, At
<1>21. QED
  BY <1>1, <1>2, <1>3, <1>4, <1>5, <1>6, <1>7, <1>8, <1>9, <1>10, <1>11, <1>12, <1>13,
     <1>14, <1>15, <1>16, <1>17, <1>18, <1>19, <1>20 DEF Moves, RunStep

LEMMA RecordedKept ==
  ASSUME FlowTypes, Recorded, NEW r \in Runs, Moves(r), quiet' => quiet
  PROVE  Recorded'
<1>1. RecordedAt(r)'
  BY RecordedOwn DEF Recorded, RecordedAt
<1>2. ASSUME NEW s \in Runs \ {r} PROVE RecordedAt(s)'
  BY OneMoves, OneDisk DEF Recorded, RecordedAt, Others, OtherProcs, At
<1>3. QED BY <1>1, <1>2 DEF Recorded, RecordedAt

LEMMA SoundKept ==
  ASSUME NEW r \in Runs, Sound(r), runs'[r].arts = runs[r].arts,
         runs'[r].issue = runs[r].issue, runs'[r].cancel = runs[r].cancel,
         runs'[r].path = runs[r].path, objects \subseteq objects',
         \A n \in runs[r].path : <<r, n>> \in trees => <<r, n>> \in trees'
  PROVE  Sound(r)'
BY DEF Sound, Snapshot

LEMMA PathsApart ==
  ASSUME FlowTypes, NEW r \in Runs, TriedAt(r)
  PROVE  runs[r].integ \notin runs[r].path
<1>1. runs[r].path \subseteq Candidates
  BY RunTypes DEF TriedAt
<1>2. runs[r].integ \in Integrations \union {Nothing}
  BY DEF FlowTypes, RunRec
<1>3. QED BY <1>1, <1>2, NamesApart DEF Integrations

LEMMA BrokeSound ==
  ASSUME NEW r \in Runs, Broke(r), runs'[r].st \notin Over, Sound(r),
         objects' = objects, trees' = trees
  PROVE  Sound(r)'
<1>1. runs' = runs
  BY DEF Broke, Over
<1>2. QED BY <1>1 DEF Sound, Snapshot

LEMMA UsableOwn ==
  ASSUME NEW r \in Runs, FlowTypes, WorkingAt(r), TriedAt(r), RecordedAt(r), Retired,
         UsableAt(r), Moves(r), UNCHANGED archive, quiet' => quiet
  PROVE  UsableAt(r)'
<1>1. SUFFICES ASSUME quiet', Known(r)', runs'[r].st \notin Over, ~archive[r].made
               PROVE  Sound(r)'
  BY DEF UsableAt
<1>2. quiet
  BY <1>1
<1>3. Held(r) => Sound(r)
  BY <1>1, <1>2 DEF Retired, WorkingAt, UsableAt
<1>4. Known(r) /\ runs[r].st \notin Over => Sound(r)
  BY <1>1, <1>2 DEF UsableAt
<1>5. CASE AlreadyClaimed(r)
  <2>1. runs[r].st = "none" /\ runs' = runs
    BY <1>5, AlreadyClaimedDoes DEF WorkingAt
  <2>2. QED BY <1>1, <2>1, KnownIsThere DEF Known
<1>6. CASE Claim(r)
  <2>1. runs[r] = Blank
    BY <1>6, ClaimDoes DEF WorkingAt, At
  <2>2. ~runs'[r].arts /\ runs'[r].path = {}
    <3>1. ~runs[r].arts /\ runs[r].path = {}
      BY <2>1 DEF Blank
    <3>2. QED BY <1>6, <3>1, ClaimDoes DEF Keeps
  <2>3. QED BY <2>2 DEF Sound, Snapshot
<1>7. CASE Put(r)
  <2>1. runs'[r].arts = runs[r].arts /\ runs'[r].issue = runs[r].issue
        /\ runs'[r].cancel = runs[r].cancel /\ runs'[r].path = runs[r].path
    BY <1>7, PutDoes
  <2>2. QED BY <1>7, <1>3, <2>1, PutDoes, SoundKept DEF Held, At
<1>8. CASE ReadBack(r)
  <2>1. Sound(r) /\ proc[r].issue = runs[r].issue
    BY <1>8, <1>3, ReadBackDoes DEF WorkingAt, Held, At
  <2>2. CASE {Body(proc[r].issue), Context} \subseteq objects
             /\ Keeps(r, {"arts", "st", "state"})
    <3>1. /\ runs'[r].issue = runs[r].issue /\ runs'[r].cancel = runs[r].cancel
          /\ runs'[r].path = runs[r].path
      BY <2>2 DEF Keeps
    <3>2. QED BY <1>8, <2>1, <2>2, <3>1, ReadBackDoes DEF Sound, Snapshot
  <2>3. CASE Broke(r)
    BY <1>8, <1>1, <2>1, <2>3, ReadBackDoes, BrokeSound
  <2>4. QED BY <1>8, <2>2, <2>3, ReadBackDoes
<1>9. CASE CreateBaseline(r)
  <2>1. Sound(r)
    BY <1>9, <1>3, CreateBaselineDoes DEF Held, At
  <2>2. CASE UNCHANGED runs
    BY <1>9, <2>1, <2>2, CreateBaselineDoes, SoundKept
  <2>3. CASE Broke(r) /\ UNCHANGED <<trees, branches>>
    BY <1>9, <1>1, <2>1, <2>3, CreateBaselineDoes, BrokeSound
  <2>4. QED BY <1>9, <2>2, <2>3, CreateBaselineDoes
<1>10. CASE RecordBaseline(r)
  <2>1. runs'[r].arts = runs[r].arts /\ runs'[r].issue = runs[r].issue
        /\ runs'[r].cancel = runs[r].cancel /\ runs'[r].path = runs[r].path
    BY <1>10, RecordBaselineDoes DEF Keeps
  <2>2. QED BY <1>10, <1>3, <2>1, RecordBaselineDoes, SoundKept DEF Held, At
<1>11. CASE Plan(r)
  <2>1. runs'[r].arts = runs[r].arts /\ runs'[r].issue = runs[r].issue
        /\ runs'[r].cancel = runs[r].cancel /\ runs'[r].path = runs[r].path
    BY <1>11, PlanDoes DEF Keeps
  <2>2. QED BY <1>11, <1>3, <2>1, PlanDoes, SoundKept DEF Held, At
<1>12. CASE CreateCandidate(r)
  <2>1. Sound(r)
    BY <1>12, <1>3, CreateCandidateDoes DEF Held, At
  <2>2. CASE UNCHANGED runs
    BY <1>12, <2>1, <2>2, CreateCandidateDoes, SoundKept
  <2>3. CASE Broke(r) /\ UNCHANGED <<trees, branches>>
    BY <1>12, <1>1, <2>1, <2>3, CreateCandidateDoes, BrokeSound
  <2>4. QED BY <1>12, <2>2, <2>3, CreateCandidateDoes
<1>13. CASE RecordCandidate(r)
  <2>1. Sound(r) /\ (~runs[r].cancel => <<r, proc[r].cand>> \in trees)
    BY <1>13, <1>2, <1>3, RecordCandidateDoes DEF Held, At, RecordedAt
  <2>2. CASE /\ Keeps(r, {"path", "state"}) /\ runs'[r].path = runs[r].path \union {proc[r].cand}
    <3>1. /\ runs'[r].issue = runs[r].issue /\ runs'[r].cancel = runs[r].cancel
          /\ runs'[r].arts = runs[r].arts
      BY <2>2 DEF Keeps
    <3>2. UNCHANGED <<trees, objects>>
      BY <1>13, RecordCandidateDoes
    <3>3. Snapshot(r)' \subseteq objects'
      BY <2>1, <3>1, <3>2 DEF Sound, Snapshot
    <3>4. ~runs'[r].cancel => \A n \in runs'[r].path : <<r, n>> \in trees'
      BY <2>1, <2>2, <3>1, <3>2 DEF Sound
    <3>5. QED BY <3>3, <3>4 DEF Sound
  <2>3. CASE Broke(r)
    BY <1>13, <1>1, <2>1, <2>3, RecordCandidateDoes, BrokeSound
  <2>4. QED BY <1>13, <2>2, <2>3, RecordCandidateDoes
<1>14. CASE Work(r)
  <2>1. Sound(r)
    BY <1>14, <1>3, WorkDoes DEF Held, At
  <2>2. CASE /\ Keeps(r, {"running", "path", "state"}) /\ runs'[r].path = runs[r].path \union {proc[r].cand}
             /\ <<r, proc[r].cand>> \in trees
    <3>1. /\ runs'[r].issue = runs[r].issue /\ runs'[r].cancel = runs[r].cancel
          /\ runs'[r].arts = runs[r].arts
      BY <2>2 DEF Keeps
    <3>2. UNCHANGED <<trees, objects>>
      BY <1>14, WorkDoes
    <3>3. Snapshot(r)' \subseteq objects'
      BY <2>1, <3>1, <3>2 DEF Sound, Snapshot
    <3>4. ~runs'[r].cancel => \A n \in runs'[r].path : <<r, n>> \in trees'
      BY <2>1, <2>2, <3>1, <3>2 DEF Sound
    <3>5. QED BY <3>3, <3>4 DEF Sound
  <2>3. CASE Broke(r)
    BY <1>14, <1>1, <2>1, <2>3, WorkDoes, BrokeSound
  <2>4. QED BY <1>14, <2>2, <2>3, WorkDoes
<1>15. CASE Decide(r)
  <2>1. Sound(r)
    BY <1>15, <1>3, DecideDoes DEF Held, At
  <2>2. runs'[r].arts = runs[r].arts /\ runs'[r].issue = runs[r].issue
        /\ runs'[r].cancel = runs[r].cancel /\ runs'[r].path = runs[r].path
    BY <1>15, DecideDoes DEF Stops, Keeps
  <2>3. QED BY <1>15, <2>1, <2>2, DecideDoes, SoundKept
<1>16. CASE Integrate(r)
  <2>1. Sound(r)
    BY <1>16, <1>3, IntegrateDoes DEF Held, At
  <2>2. CASE UNCHANGED runs
    BY <1>16, <2>1, <2>2, IntegrateDoes, SoundKept
  <2>3. CASE Broke(r) /\ UNCHANGED <<trees, branches>>
    BY <1>16, <1>1, <2>1, <2>3, IntegrateDoes, BrokeSound
  <2>4. QED BY <1>16, <2>2, <2>3, IntegrateDoes
<1>17. CASE RecordIntegration(r)
  <2>1. runs'[r].arts = runs[r].arts /\ runs'[r].issue = runs[r].issue
        /\ runs'[r].cancel = runs[r].cancel /\ runs'[r].path = runs[r].path
    BY <1>17, RecordIntegrationDoes DEF Keeps
  <2>2. QED BY <1>17, <1>3, <2>1, RecordIntegrationDoes, SoundKept DEF Held, At
<1>18. CASE Complete(r)
  <2>1. Sound(r)
    BY <1>18, <1>3, CompleteDoes DEF Held, At
  <2>2. Broke(r) /\ UNCHANGED trees
    BY <1>18, <1>1, CompleteDoes DEF Over
  <2>3. QED BY <1>18, <1>1, <2>1, <2>2, CompleteDoes, BrokeSound
<1>19. CASE Repair(r)
  <2>1. Sound(r)
    BY <1>19, <1>3, RepairDoes DEF Held, At
  <2>2. /\ Keeps(r, {"attempt", "st", "integ", "state"})
        /\ trees' = trees \ {<<r, runs[r].integ>>}
    BY <1>19, <1>1, RepairDoes DEF Over
  <2>3. runs'[r].arts = runs[r].arts /\ runs'[r].issue = runs[r].issue
        /\ runs'[r].cancel = runs[r].cancel /\ runs'[r].path = runs[r].path
    BY <2>2 DEF Keeps
  <2>4. QED BY <1>19, <2>1, <2>2, <2>3, RepairDoes, PathsApart, SoundKept
<1>20. CASE Crash(r)
  <2>1. runs' = runs /\ Known(r) /\ runs[r].st \notin Over
    BY <1>20, <1>1, CrashDoes DEF Known
  <2>2. QED BY <1>20, <1>4, <2>1, CrashDoes, SoundKept
<1>21. CASE Cancelled(r)
  BY <1>21, <1>1, CancelledDoes DEF Over
<1>22. CASE Resume(r)
  <2>1. Sound(r)
    BY <1>22, <1>4, ResumeDoes
  <2>2. runs'[r].arts = runs[r].arts /\ runs'[r].issue = runs[r].issue
        /\ runs'[r].cancel = runs[r].cancel /\ runs'[r].path = runs[r].path
    BY <1>22, ResumeDoes DEF Keeps
  <2>3. QED BY <1>22, <2>1, <2>2, ResumeDoes, SoundKept
<1>23. CASE Cancel(r)
  <2>1. Sound(r)
    BY <1>23, <1>4, CancelDoes
  <2>2. Keeps(r, {"cancel", "state"}) /\ runs'[r].cancel = TRUE
    BY <1>23, <1>1, CancelDoes DEF Over
  <2>3. runs'[r].arts = runs[r].arts /\ runs'[r].issue = runs[r].issue
    BY <2>2 DEF Keeps
  <2>4. QED BY <1>23, <2>1, <2>2, <2>3, CancelDoes DEF Sound, Snapshot
<1>24. CASE \E i \in Issues : Select(r, i)
  <2>1. runs[r].st = "none" /\ runs' = runs
    BY <1>24, SelectDoes
  <2>2. QED BY <1>1, <2>1, KnownIsThere DEF Known
<1>25. QED
  BY <1>5, <1>6, <1>7, <1>8, <1>9, <1>10, <1>11, <1>12, <1>13, <1>14, <1>15, <1>16,
     <1>17, <1>18, <1>19, <1>20, <1>21, <1>22, <1>23, <1>24 DEF Moves, RunStep

LEMMA OneObjects ==
  ASSUME FlowTypes, NEW r \in Runs, Moves(r)
  PROVE  objects \subseteq objects'
<1>1. CASE AlreadyClaimed(r)
  BY <1>1, AlreadyClaimedDoes
<1>2. CASE Claim(r)
  BY <1>2, ClaimDoes
<1>3. CASE Put(r)
  BY <1>3, PutDoes
<1>4. CASE ReadBack(r)
  BY <1>4, ReadBackDoes
<1>5. CASE CreateBaseline(r)
  BY <1>5, CreateBaselineDoes
<1>6. CASE RecordBaseline(r)
  BY <1>6, RecordBaselineDoes
<1>7. CASE Plan(r)
  BY <1>7, PlanDoes
<1>8. CASE CreateCandidate(r)
  BY <1>8, CreateCandidateDoes
<1>9. CASE RecordCandidate(r)
  BY <1>9, RecordCandidateDoes
<1>10. CASE Work(r)
  BY <1>10, WorkDoes
<1>11. CASE Decide(r)
  BY <1>11, DecideDoes
<1>12. CASE Integrate(r)
  BY <1>12, IntegrateDoes
<1>13. CASE RecordIntegration(r)
  BY <1>13, RecordIntegrationDoes
<1>14. CASE Complete(r)
  BY <1>14, CompleteDoes
<1>15. CASE Repair(r)
  BY <1>15, RepairDoes
<1>16. CASE Crash(r)
  BY <1>16, CrashDoes
<1>17. CASE Cancelled(r)
  BY <1>17, CancelledDoes
<1>18. CASE Resume(r)
  BY <1>18, ResumeDoes
<1>19. CASE Cancel(r)
  BY <1>19, CancelDoes
<1>20. CASE \E i \in Issues : Select(r, i)
  BY <1>20, SelectDoes
<1>21. QED
  BY <1>1, <1>2, <1>3, <1>4, <1>5, <1>6, <1>7, <1>8, <1>9, <1>10, <1>11, <1>12, <1>13,
     <1>14, <1>15, <1>16, <1>17, <1>18, <1>19, <1>20 DEF Moves, RunStep

LEMMA UsableKept ==
  ASSUME FlowTypes, Working, Tried, Recorded, Retired, Provided, NEW r \in Runs, Moves(r),
         UNCHANGED archive, quiet' => quiet
  PROVE  Provided'
<1>1. \A s \in Runs : UsableAt(s)
  BY DEF Provided
<1>2. UsableAt(r)'
  BY <1>1, UsableOwn DEF Working, Tried, Recorded, RecordedAt
<1>3. ASSUME NEW s \in Runs \ {r} PROVE UsableAt(s)'
  <2>1. runs'[s] = runs[s]
    BY OneMoves DEF Others
  <2>2. \A n : <<s, n>> \in trees' <=> <<s, n>> \in trees
    BY OneDisk
  <2>3. Sound(s) => Sound(s)'
    BY <2>1, <2>2, OneObjects DEF Sound, Snapshot
  <2>4. QED BY <1>1, <2>1, <2>3 DEF UsableAt, Known
<1>4. QED BY <1>2, <1>3 DEF Provided

\* A run that has no integration yet, before and after a step.
LEMMA NotIntegrated ==
  ASSUME NEW r \in Runs, IntegAt(r), UNCHANGED <<archive, swept>>, quiet' => quiet,
         runs[r].st \in Over => runs'[r].st \in Over,
         runs[r].integ = Nothing, runs'[r].integ = Nothing, proc'[r].pc # "integrated"
  PROVE  IntegAt(r)'
BY DEF IntegAt, At, Integ

\* A process stops, and its run is over or as it was.
LEMMA BrokeIntegrated ==
  ASSUME NEW r \in Runs, IntegAt(r), Broke(r), UNCHANGED <<archive, swept, trees, branches>>,
         quiet' => quiet
  PROVE  IntegAt(r)'
<1>1. proc'[r].pc = "idle"
  BY DEF Broke, Ends, Idle
<1>2. runs' = runs \/ runs'[r].st \in Over
  BY DEF Broke, Over
<1>3. QED BY <1>1, <1>2 DEF IntegAt, Integ, At, Held

\* The process is nowhere near its publication: there is no integration yet.
LEMMA EarlyIntegrated ==
  ASSUME NEW r \in Runs, WorkingAt(r), IntegAt(r), UNCHANGED <<archive, swept>>,
         quiet' => quiet, Held(r), proc[r].pc \notin {"integrate", "apply"},
         runs'[r].integ = runs[r].integ, proc'[r].pc # "integrated"
  PROVE  IntegAt(r)'
<1>1. SUFFICES ASSUME quiet, ~archive[r].made PROVE IntegAt(r)'
  BY DEF IntegAt
<1>2. runs[r].st \notin Over /\ runs[r].integ = Nothing
  BY <1>1 DEF WorkingAt, IntegAt, At
<1>3. QED BY <1>2, NotIntegrated

LEMMA IntegratedOwn ==
  ASSUME NEW r \in Runs, FlowTypes, WorkingAt(r), TriedAt(r), IntegAt(r), Moves(r),
         UNCHANGED <<archive, swept>>, quiet' => quiet
  PROVE  IntegAt(r)'
<1>1. SUFFICES ASSUME quiet', quiet, ~archive[r].made, runs'[r].st \notin Over
               PROVE  IntegAt(r)'
  BY DEF IntegAt
<1>2. CASE AlreadyClaimed(r) \/ (\E i \in Issues : Select(r, i))
  <2>1. /\ UNCHANGED <<runs, trees, branches>> /\ runs[r] = Blank
        /\ proc'[r].pc \in {"idle", "selected"}
    BY <1>2, AlreadyClaimedDoes, SelectDoes DEF WorkingAt, Ends, Idle
  <2>2. runs[r].integ = Nothing
    BY <2>1 DEF Blank
  <2>3. QED BY <2>1, <2>2, NotIntegrated
<1>3. CASE Claim(r)
  <2>1. runs[r] = Blank /\ runs'[r].integ = runs[r].integ /\ proc'[r].pc = "body"
    BY <1>3, ClaimDoes DEF WorkingAt, At, Keeps, Goes
  <2>2. runs[r].integ = Nothing /\ runs[r].st \notin Over
    BY <2>1 DEF Blank, Over
  <2>3. QED BY <2>1, <2>2, NotIntegrated
<1>4. CASE Put(r)
  BY <1>4, PutDoes, EarlyIntegrated DEF Held, At, Goes
<1>5. CASE ReadBack(r)
  <2>1. CASE Broke(r)
    BY <1>5, <2>1, ReadBackDoes, BrokeIntegrated
  <2>2. CASE Goes(r, "baseline") /\ Keeps(r, {"arts", "st", "state"})
    BY <1>5, <2>2, ReadBackDoes, EarlyIntegrated DEF Held, At, Goes, Keeps
  <2>3. QED BY <1>5, <2>1, <2>2, ReadBackDoes
<1>6. CASE CreateBaseline(r)
  <2>1. CASE Broke(r) /\ UNCHANGED <<trees, branches>>
    BY <2>1, BrokeIntegrated
  <2>2. CASE Goes(r, "verified") /\ UNCHANGED runs
    BY <1>6, <2>2, CreateBaselineDoes, EarlyIntegrated DEF Held, At, Goes
  <2>3. QED BY <1>6, <2>1, <2>2, CreateBaselineDoes
<1>7. CASE RecordBaseline(r)
  BY <1>7, RecordBaselineDoes, EarlyIntegrated DEF Held, At, Goes, Keeps
<1>8. CASE Plan(r)
  BY <1>8, PlanDoes, EarlyIntegrated DEF Held, At, Keeps
<1>9. CASE CreateCandidate(r)
  <2>1. CASE Broke(r) /\ UNCHANGED <<trees, branches>>
    BY <2>1, BrokeIntegrated
  <2>2. CASE Goes(r, "record") /\ UNCHANGED runs
    BY <1>9, <2>2, CreateCandidateDoes, EarlyIntegrated DEF Held, At, Goes
  <2>3. QED BY <1>9, <2>1, <2>2, CreateCandidateDoes
<1>10. CASE RecordCandidate(r)
  <2>1. CASE Broke(r)
    BY <1>10, <2>1, RecordCandidateDoes, BrokeIntegrated
  <2>2. CASE Goes(r, "work") /\ Keeps(r, {"path", "state"})
    BY <1>10, <2>2, RecordCandidateDoes, EarlyIntegrated DEF Held, At, Goes, Keeps
  <2>3. QED BY <1>10, <2>1, <2>2, RecordCandidateDoes
<1>11. CASE Work(r)
  <2>1. CASE Broke(r)
    BY <1>11, <2>1, WorkDoes, BrokeIntegrated
  <2>2. CASE Goes(r, "decide") /\ Keeps(r, {"running", "path", "state"})
    BY <1>11, <2>2, WorkDoes, EarlyIntegrated DEF Held, At, Goes, Keeps
  <2>3. QED BY <1>11, <2>1, <2>2, WorkDoes
<1>12. CASE Decide(r)
  <2>1. runs'[r].integ = runs[r].integ /\ proc'[r].pc \in {"idle", "plan", "integrate"}
    BY <1>12, DecideDoes, AtRest DEF Stops, Goes, Keeps
  <2>2. QED BY <1>12, <2>1, DecideDoes, EarlyIntegrated DEF Held, At
<1>13. CASE Integrate(r)
  <2>1. CASE Broke(r) /\ UNCHANGED <<trees, branches>>
    BY <2>1, BrokeIntegrated
  <2>2. CASE Goes(r, "apply") /\ UNCHANGED <<runs, trees, branches>>
    BY <1>13, <2>2, IntegrateDoes DEF IntegAt, Integ, At, Held, Goes
  <2>3. CASE /\ Free(r, Integ(r)) /\ Goes(r, "integrated") /\ UNCHANGED runs
             /\ trees' = trees \union {<<r, Integ(r)>>}
             /\ branches' = branches \union {<<r, Integ(r)>>}
    <3>1. runs[r].integ = Nothing
      BY <1>1, <2>3 DEF IntegAt, Free
    <3>2. r \notin swept
      BY <1>1, <2>3, <3>1 DEF IntegAt
    <3>3. QED BY <2>3, <3>1, <3>2 DEF IntegAt, Integ, At
  <2>4. QED BY <1>13, <2>1, <2>2, <2>3, IntegrateDoes DEF Integ
<1>14. CASE RecordIntegration(r)
  <2>1. /\ runs'[r].integ = Integ(r) /\ Integ(r)' = Integ(r) /\ proc'[r].pc = "apply"
        /\ runs'[r].st = runs[r].st /\ UNCHANGED <<trees, branches>> /\ At(r, "integrated")
    BY <1>14, RecordIntegrationDoes DEF Keeps, Integ, Goes
  <2>2. runs[r].st = "publishing"
    BY <2>1 DEF TriedAt, At
  <2>3. <<r, Integ(r)>> \in trees \intersect branches
    BY <1>1, <2>1, <2>2 DEF IntegAt, Over
  <2>4. r \notin swept
    BY <1>1, <2>1, <2>2 DEF IntegAt, Over, At, Held
  <2>5. QED BY <2>1, <2>2, <2>3, <2>4 DEF IntegAt, At, Held
<1>15. CASE Complete(r)
  <2>1. Broke(r) /\ UNCHANGED trees
    BY <1>15, <1>1, CompleteDoes DEF Over
  <2>2. QED BY <1>15, <2>1, CompleteDoes, BrokeIntegrated
<1>16. CASE Repair(r)
  <2>1. /\ Goes(r, "baseline") /\ runs'[r].integ = Nothing /\ At(r, "apply")
        /\ <<r, runs[r].integ>> \in trees
    BY <1>16, <1>1, RepairDoes DEF Over, Repair
  <2>2. runs[r].integ # Nothing /\ runs[r].st \notin Over
    <3>1. Nothing \notin Names
      BY NamesApart DEF Names, Baseline, Nothing, Integration
    <3>2. QED BY <2>1, <3>1 DEF FlowTypes, TriedAt, At, Over
  <2>3. r \notin swept
    BY <1>1, <2>1, <2>2 DEF IntegAt
  <2>4. QED BY <2>1, <2>3 DEF IntegAt, At, Goes
<1>17. CASE Crash(r)
  <2>1. proc'[r].pc = "idle"
    BY <1>17, CrashDoes DEF Ends, Idle
  <2>2. QED BY <1>17, <2>1, CrashDoes DEF IntegAt, Integ, At, Held
<1>18. CASE Cancelled(r)
  BY <1>18, <1>1, CancelledDoes DEF Over
<1>19. CASE Resume(r)
  <2>1. /\ runs[r].integ = runs'[r].integ /\ Integ(r)' = Integ(r) /\ runs[r].st \notin Over
        /\ UNCHANGED <<trees, branches>> /\ proc'[r].pc # "integrated"
        /\ runs[r].st = "publishing" =>
             runs'[r].st = "publishing" /\ proc'[r].pc = "integrate"
    BY <1>19, <1>1, ResumeDoes DEF Keeps, Integ, Over
  <2>2. QED BY <1>1, <2>1 DEF IntegAt, At, Held
<1>20. CASE Cancel(r)
  <2>1. Keeps(r, {"cancel", "state"}) /\ UNCHANGED <<proc, branches>> /\ runs[r].st \notin Over
    BY <1>20, <1>1, CancelDoes DEF Over
  <2>2. trees' = {t \in trees : ~(t[1] = r /\ t[2] \in runs[r].path)}
    BY <1>20, <1>1, CancelDoes DEF Over
  <2>3. At(r, "integrated") \/ runs[r].st = "publishing" => runs[r].winner \in Candidates
    BY DEF TriedAt, At
  <2>4. runs[r].winner \in Candidates => Integ(r) \notin runs[r].path
    BY RunTypes, NamesApart DEF TriedAt, Integ
  <2>5. Integ(r)' = Integ(r) /\ runs'[r].integ = runs[r].integ /\ runs'[r].st = runs[r].st
    BY <2>1 DEF Keeps, Integ
  <2>6. QED BY <1>1, <2>1, <2>2, <2>3, <2>4, <2>5 DEF IntegAt, At, Held
<1>21. QED
  BY <1>2, <1>3, <1>4, <1>5, <1>6, <1>7, <1>8, <1>9, <1>10, <1>11, <1>12, <1>13, <1>14,
     <1>15, <1>16, <1>17, <1>18, <1>19, <1>20 DEF Moves, RunStep

LEMMA IntegratedKept ==
  ASSUME FlowTypes, Working, Tried, Integrated, NEW r \in Runs, Moves(r),
         UNCHANGED <<archive, swept>>, quiet' => quiet
  PROVE  Integrated'
<1>1. IntegAt(r)'
  BY IntegratedOwn DEF Integrated, Working, Tried
<1>2. ASSUME NEW s \in Runs \ {r} PROVE IntegAt(s)'
  <2>1. runs'[s] = runs[s] /\ proc'[s] = proc[s]
    BY OneMoves DEF Others, OtherProcs
  <2>2. \A n : /\ <<s, n>> \in trees' <=> <<s, n>> \in trees
              /\ <<s, n>> \in branches' <=> <<s, n>> \in branches
    BY OneDisk
  <2>3. QED BY <2>1, <2>2 DEF Integrated, IntegAt, Integ, At, Held
<1>3. QED BY <1>1, <1>2 DEF Integrated

LEMMA PhaseTyped ==
  ASSUME NEW pc, NEW todo, Phase(pc, todo)
  PROVE  /\ clean' = [pc |-> clean'.pc, todo |-> clean'.todo, run |-> clean'.run,
                      copy |-> clean'.copy]
         /\ clean'.pc = pc /\ clean'.todo = todo /\ clean'.run = NoRun
         /\ clean'.copy = Blank
BY DEF Phase, Resting

LEMMA RestingTyped ==
  ASSUME clean' = Resting
  PROVE  /\ clean' = [pc |-> clean'.pc, todo |-> clean'.todo, run |-> clean'.run,
                      copy |-> clean'.copy]
         /\ clean'.pc = "idle" /\ clean'.todo = {} /\ clean'.run = NoRun
         /\ clean'.copy = Blank
BY DEF Resting

\* The fields of the command that a removal writes.
LEMMA RemovalTyped ==
  ASSUME CleanTypes
  PROVE  /\ \A S : clean' = [clean EXCEPT !.todo = S] =>
              /\ clean' = [pc |-> clean.pc, todo |-> S, run |-> clean.run, copy |-> clean.copy]
         /\ \A q : clean' = [clean EXCEPT !.run = q] =>
              /\ clean' = [pc |-> clean.pc, todo |-> clean.todo, run |-> q, copy |-> clean.copy]
         /\ \A c : clean' = [clean EXCEPT !.copy = c] =>
              /\ clean' = [pc |-> clean.pc, todo |-> clean.todo, run |-> clean.run, copy |-> c]
         /\ \A S, q, c : clean' = [clean EXCEPT !.todo = S, !.run = q, !.copy = c] =>
              /\ clean' = [pc |-> clean.pc, todo |-> S, run |-> q, copy |-> c]
BY DEF CleanTypes

\* What the steps of gg clean list is of the kind it removes.
LEMMA CleanTypesKept ==
  ASSUME FlowTypes, CleanTypes, Listed, CleanStep
  PROVE  CleanTypes'
<1>1. CASE StartClean
  <2>1. \A q \in Finished : <<q, runs[q]>> \in Runs \X RunRec
    BY DEF Finished, FlowTypes
  <2>2. PICK S : Phase("terminal", S) /\ S \subseteq {<<q, runs[q]>> : q \in Finished}
    BY <1>1 DEF StartClean
  <2>3. S \subseteq Runs \X RunRec
    BY <2>1, <2>2
  <2>4. QED BY <1>1, <2>2, <2>3, PhaseTyped, BlankTyped DEF StartClean, CleanTypes
<1>2. CASE ListStale
  <2>1. PICK S : Phase("stale", S) /\ S \subseteq Runs \X RunRec
    BY <1>2 DEF ListStale, Waiting, FlowTypes
  <2>2. QED BY <1>2, <2>1, PhaseTyped, BlankTyped DEF ListStale, CleanTypes
<1>3. CASE Archive
  <2>1. PICK t \in clean.todo :
          /\ archive' = [archive EXCEPT ![t[1]] =
                           [made |-> TRUE, removed |-> Paths(t[1], t[2])]]
          /\ clean' = [clean EXCEPT !.todo = clean.todo \ {t}, !.run = t[1], !.copy = t[2]]
    BY <1>3 DEF Archive
  <2>2. t[1] \in Runs /\ t[2] \in RunRec
    BY <1>3, <2>1 DEF Archive, CleanTypes
  <2>3. archive' \in [Runs -> [made : BOOLEAN, removed : SUBSET Names]]
    <3>1. Paths(t[1], t[2]) \subseteq Names
      BY <2>2 DEF Paths, Names, RunRec, Integrations
    <3>2. QED BY <2>1, <3>1 DEF CleanTypes
  <2>4. clean' = [pc |-> clean.pc, todo |-> clean.todo \ {t}, run |-> t[1], copy |-> t[2]]
    BY <2>1, RemovalTyped
  <2>5. QED BY <1>3, <2>2, <2>3, <2>4 DEF Archive, CleanTypes
<1>4. CASE RemoveWorktrees
  <2>1. clean' = [pc |-> clean.pc, todo |-> clean.todo, run |-> clean.run, copy |-> Blank]
    BY <1>4, RemovalTyped DEF RemoveWorktrees
  <2>2. QED BY <1>4, <2>1, BlankTyped DEF RemoveWorktrees, CleanTypes
<1>5. CASE RemoveRun
  <2>1. \/ UNCHANGED clean
        \/ clean' = [pc |-> clean.pc, todo |-> clean.todo, run |-> NoRun, copy |-> clean.copy]
    BY <1>5, RemovalTyped DEF RemoveRun
  <2>2. QED BY <1>5, <2>1 DEF RemoveRun, CleanTypes
<1>6. CASE ListOrphans
  <2>1. trees \ Referenced \subseteq Runs \X Names
    BY DEF FlowTypes
  <2>2. QED BY <1>6, <2>1, PhaseTyped, BlankTyped DEF ListOrphans, CleanTypes
<1>7. CASE RemoveOrphan
  <2>1. PICK S : clean' = [clean EXCEPT !.todo = S] /\ S \subseteq clean.todo
    BY <1>7 DEF RemoveOrphan
  <2>2. clean' = [pc |-> clean.pc, todo |-> S, run |-> clean.run, copy |-> clean.copy]
    BY <2>1, RemovalTyped
  <2>3. swept' \subseteq Runs
    BY <1>7 DEF RemoveOrphan, CleanTypes
  <2>4. QED BY <1>7, <2>1, <2>2, <2>3 DEF RemoveOrphan, CleanTypes, In
<1>8. CASE ListObjects
  BY <1>8, PhaseTyped, BlankTyped DEF ListObjects, CleanTypes
<1>9. CASE RemoveObject
  <2>1. PICK S : clean' = [clean EXCEPT !.todo = S]
    BY <1>9 DEF RemoveObject
  <2>2. clean' = [pc |-> clean.pc, todo |-> S, run |-> clean.run, copy |-> clean.copy]
    BY <2>1, RemovalTyped
  <2>3. QED BY <1>9, <2>2 DEF RemoveObject, CleanTypes
<1>10. CASE EndClean
  BY <1>10, RestingTyped, BlankTyped DEF EndClean, CleanTypes
<1>11. CASE CrashClean
  BY <1>11, RestingTyped, BlankTyped DEF CrashClean, CleanTypes
<1>12. QED
  BY <1>1, <1>2, <1>3, <1>4, <1>5, <1>6, <1>7, <1>8, <1>9, <1>10, <1>11 DEF CleanStep

\* A clean that nothing overlapped started when nothing worked.
LEMMA CalmKept ==
  ASSUME Fading, CleanTypes, Calm, Listed, CleanStep
  PROVE  /\ Calm'
         /\ quiet' => quiet /\ ~Busy
<1>1. Busy' <=> Busy
  BY DEF Fading, Busy, At
<1>2. quiet' => quiet /\ ~Busy
  <2>1. CASE StartClean
    BY <2>1 DEF StartClean
  <2>2. CASE ~In("idle") /\ UNCHANGED quiet
    BY <2>2 DEF Calm
  <2>3. QED
    BY <2>1, <2>2
    DEF CleanStep, ListStale, Archive, RemoveWorktrees, RemoveRun, ListOrphans,
        RemoveOrphan, ListObjects, RemoveObject, EndClean, CrashClean, In, Listed, Archived
<1>3. Calm'
  BY <1>1, <1>2 DEF Calm
<1>4. QED BY <1>2, <1>3

\* It lists runs as they are, each once.
LEMMA ListedRunsKept ==
  ASSUME FlowTypes, CleanTypes, Fading, Listed, CleanStep
  PROVE  ListedRuns'
<1> USE DEF ListedRuns
<1>1. CASE StartClean
  <2>1. PICK S : Phase("terminal", S) /\ S \subseteq {<<r, runs[r]>> : r \in Finished}
    BY <1>1 DEF StartClean
  <2>2. clean'.pc = "terminal" /\ clean'.todo = S /\ clean'.run = NoRun
    BY <2>1, PhaseTyped
  <2>3. UNCHANGED runs
    BY <1>1 DEF StartClean
  <2>4. QED BY <2>1, <2>2, <2>3, Bounds DEF Finished, Known
<1>2. CASE ListStale
  <2>1. PICK S : Phase("stale", S) /\ S \subseteq {<<r, runs[r]>> : r \in Waiting}
    BY <1>2 DEF ListStale
  <2>2. clean'.pc = "stale" /\ clean'.todo = S /\ clean'.run = NoRun
    BY <2>1, PhaseTyped
  <2>3. UNCHANGED runs
    BY <1>2 DEF ListStale, flow
  <2>4. QED BY <2>1, <2>2, <2>3, Bounds DEF Waiting, Known
<1>3. CASE Archive
  <2>1. PICK t \in clean.todo :
          clean' = [clean EXCEPT !.todo = clean.todo \ {t}, !.run = t[1], !.copy = t[2]]
    BY <1>3 DEF Archive
  <2>2. clean'.pc = clean.pc /\ clean'.todo = clean.todo \ {t} /\ clean'.run = t[1]
    <3>1. clean' = [pc |-> clean.pc, todo |-> clean.todo \ {t}, run |-> t[1], copy |-> t[2]]
      BY <2>1, RemovalTyped
    <3>2. QED BY <3>1
  <2>3. UNCHANGED <<runs, quiet>> /\ clean.pc \in {"terminal", "stale"}
    BY <1>3 DEF Archive, flow
  <2>4. QED BY <2>1, <2>2, <2>3 DEF Listed, Known
<1>4. CASE RemoveWorktrees
  <2>1. clean'.pc = clean.pc /\ clean'.todo = clean.todo /\ clean'.run = clean.run
    BY <1>4, RemovalTyped DEF RemoveWorktrees
  <2>2. QED BY <1>4, <2>1 DEF RemoveWorktrees, Listed, Known
<1>5. CASE RemoveRun
  <2>1. \/ UNCHANGED clean
        \/ clean'.pc = clean.pc /\ clean'.todo = clean.todo /\ clean'.run = NoRun
    BY <1>5, RemovalTyped DEF RemoveRun
  <2>2. UNCHANGED quiet
    BY <1>5 DEF RemoveRun
  <2>3. \A t \in clean.todo :
           clean.pc \in {"terminal", "stale"} => t[1] \in Runs /\ t[1] # clean.run
    BY DEF CleanTypes, Listed
  <2>4. \A s \in Runs : s # clean.run => runs'[s] = runs[s]
    BY DEF Fading
  <2>5. QED BY <2>1, <2>2, <2>3, <2>4, Bounds DEF Listed, Known
<1>6. CASE ListOrphans
  <2>1. clean'.pc = "orphans"
    BY <1>6, PhaseTyped DEF ListOrphans
  <2>2. QED BY <2>1
<1>7. CASE RemoveOrphan \/ RemoveObject
  <2>1. PICK S : clean' = [clean EXCEPT !.todo = S]
    BY <1>7 DEF RemoveOrphan, RemoveObject
  <2>2. clean.pc \in {"orphans", "objects"}
    BY <1>7 DEF RemoveOrphan, RemoveObject, In
  <2>3. clean' = [pc |-> clean.pc, todo |-> S, run |-> clean.run, copy |-> clean.copy]
    BY <2>1, RemovalTyped
  <2>4. QED BY <2>2, <2>3
<1>8. CASE ListObjects
  <2>1. clean'.pc = "objects"
    BY <1>8, PhaseTyped DEF ListObjects
  <2>2. QED BY <2>1
<1>9. CASE EndClean \/ CrashClean
  <2>1. clean'.pc = "idle"
    BY <1>9, RestingTyped DEF EndClean, CrashClean
  <2>2. QED BY <2>1
<1>10. QED
  BY <1>1, <1>2, <1>3, <1>4, <1>5, <1>6, <1>7, <1>8, <1>9 DEF CleanStep

\* It archives a run before it removes its worktrees, and these before the run.
LEMMA ArchivedKept ==
  ASSUME FlowTypes, CleanTypes, Fading, Listed, CleanStep
  PROVE  Archived'
<1>1. CASE Archive
  <2>1. PICK t \in clean.todo :
          /\ archive' = [archive EXCEPT ![t[1]] =
                           [made |-> TRUE, removed |-> Paths(t[1], t[2])]]
          /\ clean' = [clean EXCEPT !.todo = clean.todo \ {t}, !.run = t[1], !.copy = t[2]]
    BY <1>1 DEF Archive
  <2>2. /\ t[1] \in Runs /\ t[2].st \in {"waiting"} \union Over
        /\ quiet => t[2].path = runs[t[1]].path /\ t[2].baseline = runs[t[1]].baseline
    BY <1>1, <2>1 DEF Archive, CleanTypes, Listed, ListedRuns
  <2>3. archive'[t[1]] = [made |-> TRUE, removed |-> Paths(t[1], t[2])]
    BY <2>1, <2>2 DEF CleanTypes
  <2>4. clean'.pc = clean.pc /\ clean'.run = t[1] /\ clean'.copy = t[2]
    <3>1. clean' = [pc |-> clean.pc, todo |-> clean.todo \ {t}, run |-> t[1], copy |-> t[2]]
      BY <2>1, RemovalTyped
    <3>2. QED BY <3>1
  <2>5. UNCHANGED <<runs, quiet>> /\ clean.pc \in {"terminal", "stale"}
    BY <1>1 DEF Archive, flow
  <2>6. t[2] # Blank
    BY <2>2 DEF Blank, Over
  <2>7. quiet => Says(t[1])'
    BY <2>2, <2>3, <2>5 DEF Says, Paths
  <2>8. QED BY <2>3, <2>4, <2>5, <2>6, <2>7 DEF Archived, Paths
<1>2. CASE RemoveWorktrees
  <2>1. clean'.pc = clean.pc /\ clean'.run = clean.run /\ clean'.copy = Blank
    BY <1>2, RemovalTyped DEF RemoveWorktrees
  <2>2. /\ UNCHANGED <<runs, archive, quiet>> /\ clean.copy # Blank
        /\ trees' = trees \ {<<clean.run, n>> : n \in Paths(clean.run, clean.copy)}
    BY <1>2 DEF RemoveWorktrees
  <2>3. QED BY <2>1, <2>2 DEF Listed, Archived, Says, Gone
<1>3. CASE RemoveRun
  <2>1. \/ UNCHANGED clean
        \/ clean'.run = NoRun
    BY <1>3, RemovalTyped DEF RemoveRun
  <2>2. UNCHANGED <<archive, quiet, trees>> /\ clean.run # NoRun /\ clean.copy = Blank
    BY <1>3 DEF RemoveRun
  <2>3. runs'[clean.run].path = runs[clean.run].path
        /\ runs'[clean.run].baseline = runs[clean.run].baseline
    BY <2>2 DEF Fading, Fades, Keeps, CleanTypes
  <2>4. QED BY <2>1, <2>2, <2>3 DEF Listed, Archived, Says, Gone
<1>4. CASE StartClean \/ ListStale \/ ListOrphans \/ ListObjects
  <2>1. clean'.run = NoRun
    BY <1>4, PhaseTyped DEF StartClean, ListStale, ListOrphans, ListObjects
  <2>2. QED BY <2>1 DEF Archived
<1>5. CASE RemoveOrphan \/ RemoveObject
  <2>1. PICK S : clean' = [clean EXCEPT !.todo = S]
    BY <1>5 DEF RemoveOrphan, RemoveObject
  <2>2. clean.run = NoRun
    BY <1>5 DEF RemoveOrphan, RemoveObject, In, Listed, Archived
  <2>3. clean' = [pc |-> clean.pc, todo |-> S, run |-> clean.run, copy |-> clean.copy]
    BY <2>1, RemovalTyped
  <2>4. QED BY <2>2, <2>3 DEF Archived
<1>6. CASE EndClean \/ CrashClean
  <2>1. clean'.run = NoRun
    BY <1>6, RestingTyped DEF EndClean, CrashClean
  <2>2. QED BY <2>1 DEF Archived
<1>7. QED
  BY <1>1, <1>2, <1>3, <1>4, <1>5, <1>6 DEF CleanStep

\* The archive changes when a run is archived, which is there if nothing overlapped.
LEMMA Archiving ==
  ASSUME CleanTypes, Listed, CleanStep, NEW s \in Runs
  PROVE  \/ archive'[s] = archive[s]
         \/ archive'[s].made /\ quiet' = quiet /\ (quiet => Known(s))
<1>1. CASE Archive
  <2>1. PICK t \in clean.todo :
          archive' = [archive EXCEPT ![t[1]] = [made |-> TRUE, removed |-> Paths(t[1], t[2])]]
    BY <1>1 DEF Archive
  <2>2. t[1] \in Runs /\ (quiet => Known(t[1]))
    BY <1>1, <2>1 DEF Archive, CleanTypes, Listed, ListedRuns
  <2>3. archive'[s] = IF s = t[1] THEN [made |-> TRUE, removed |-> Paths(t[1], t[2])]
                      ELSE archive[s]
    BY <2>1, <2>2 DEF CleanTypes
  <2>4. quiet' = quiet
    BY <1>1 DEF Archive
  <2>5. QED BY <2>2, <2>3, <2>4
<1>2. CASE ~Archive
  BY <1>2
  DEF CleanStep, StartClean, ListStale, RemoveWorktrees, RemoveRun, ListOrphans,
      RemoveOrphan, ListObjects, RemoveObject, EndClean, CrashClean
<1>3. QED BY <1>1, <1>2

LEMMA RetiredByClean ==
  ASSUME FlowTypes, CleanTypes, Fading, Calm, Listed, Retired, CleanStep
  PROVE  Retired'
<1>1. SUFFICES ASSUME NEW s \in Runs, runs'[s].st # "none", ~Known(s)'
               PROVE  /\ archive'[s].made
                      /\ quiet' => (Says(s) /\ Gone(s) /\ At(s, "idle"))'
  BY DEF Retired
<1>2. quiet' => quiet /\ ~Busy
  BY CalmKept
<1>3. /\ runs'[s].st = runs[s].st /\ runs'[s].path = runs[s].path
      /\ runs'[s].baseline = runs[s].baseline /\ proc'[s] = proc[s] /\ trees' \subseteq trees
  BY DEF Fading, Fades, Keeps
<1>4. CASE Known(s)
  <2>1. RemoveRun /\ s = clean.run /\ s # NoRun
    <3>1. runs'[s] # runs[s]
      BY <1>1, <1>4 DEF Known
    <3>2. s = clean.run
      BY <3>1 DEF Fading
    <3>3. RemoveRun
      BY <3>1
      DEF CleanStep, StartClean, ListStale, Archive, RemoveWorktrees, ListOrphans,
          RemoveOrphan, ListObjects, RemoveObject, EndClean, CrashClean, flow
    <3>4. QED BY <3>2, <3>3, Bounds
  <2>2. archive[s].made /\ (quiet => Says(s) /\ Gone(s))
    BY <2>1 DEF Listed, Archived, RemoveRun
  <2>3. UNCHANGED archive
    BY <2>1 DEF RemoveRun
  <2>4. quiet' => At(s, "idle")
    BY <1>2 DEF Busy
  <2>5. QED BY <1>2, <1>3, <2>2, <2>3, <2>4 DEF At, Says, Gone
<1>5. CASE ~Known(s)
  <2>1. archive[s].made /\ (quiet => Says(s) /\ Gone(s) /\ At(s, "idle"))
    BY <1>1, <1>3, <1>5 DEF Retired
  <2>2. archive'[s].made /\ (quiet => archive'[s] = archive[s])
    BY <1>5, <2>1, Archiving
  <2>3. QED BY <1>2, <1>3, <2>1, <2>2 DEF At, Says, Gone
<1>6. QED BY <1>4, <1>5

\* What is listed as unused stays unused.
LEMMA UnusedKept ==
  ASSUME CleanTypes, Listed, Unused, CleanStep
  PROVE  Unused'
<1>1. CASE StartClean
  <2>1. clean'.pc = "terminal"
    BY <1>1, PhaseTyped DEF StartClean
  <2>2. QED BY <2>1 DEF Unused, In
<1>2. CASE ListStale
  <2>1. clean'.pc = "stale"
    BY <1>2, PhaseTyped DEF ListStale
  <2>2. QED BY <2>1 DEF Unused, In
<1>3. CASE Archive
  <2>1. PICK t \in clean.todo :
          clean' = [clean EXCEPT !.todo = clean.todo \ {t}, !.run = t[1], !.copy = t[2]]
    BY <1>3 DEF Archive
  <2>2. clean' = [pc |-> clean.pc, todo |-> clean.todo \ {t}, run |-> t[1], copy |-> t[2]]
    BY <2>1, RemovalTyped
  <2>3. clean.pc \in {"terminal", "stale"}
    BY <1>3 DEF Archive
  <2>4. QED BY <2>2, <2>3 DEF Unused, In
<1>4. CASE RemoveWorktrees
  <2>1. clean'.pc = clean.pc
    BY <1>4, RemovalTyped DEF RemoveWorktrees
  <2>2. clean.pc \in {"terminal", "stale"}
    BY <1>4 DEF RemoveWorktrees, Listed, Archived
  <2>3. QED BY <2>1, <2>2 DEF Unused, In
<1>5. CASE RemoveRun
  <2>1. clean'.pc = clean.pc
    BY <1>5, RemovalTyped DEF RemoveRun
  <2>2. clean.pc \in {"terminal", "stale"}
    BY <1>5 DEF RemoveRun, Listed, Archived
  <2>3. QED BY <2>1, <2>2 DEF Unused, In
<1>6. CASE ListOrphans
  <2>1. clean'.pc = "orphans" /\ clean'.todo = trees \ Referenced
    BY <1>6, PhaseTyped DEF ListOrphans
  <2>2. Referenced' = Referenced
    BY <1>6 DEF ListOrphans, flow, Referenced, Known
  <2>3. QED BY <2>1, <2>2 DEF Unused, In
<1>7. CASE RemoveOrphan
  <2>1. PICK S : clean' = [clean EXCEPT !.todo = S] /\ S \subseteq clean.todo
    BY <1>7 DEF RemoveOrphan
  <2>2. clean' = [pc |-> clean.pc, todo |-> S, run |-> clean.run, copy |-> clean.copy]
    BY <2>1, RemovalTyped
  <2>3. clean.pc = "orphans" /\ UNCHANGED quiet
    BY <1>7 DEF RemoveOrphan, In
  <2>4. Referenced' = Referenced
    BY <1>7 DEF RemoveOrphan, Referenced, Known
  <2>5. QED BY <2>1, <2>2, <2>3, <2>4 DEF Unused, In
<1>8. CASE ListObjects
  <2>1. clean'.pc = "objects" /\ clean'.todo = objects \ Named
    BY <1>8, PhaseTyped DEF ListObjects
  <2>2. Named' = Named
    BY <1>8 DEF ListObjects, flow, Named, Snapshot
  <2>3. QED BY <2>1, <2>2 DEF Unused, In
<1>9. CASE RemoveObject
  <2>1. PICK S : clean' = [clean EXCEPT !.todo = S] /\ S \subseteq clean.todo
    BY <1>9 DEF RemoveObject
  <2>2. clean' = [pc |-> clean.pc, todo |-> S, run |-> clean.run, copy |-> clean.copy]
    BY <2>1, RemovalTyped
  <2>3. clean.pc = "objects" /\ UNCHANGED quiet
    BY <1>9 DEF RemoveObject, In
  <2>4. Named' = Named
    BY <1>9 DEF RemoveObject, Named, Snapshot
  <2>5. QED BY <2>1, <2>2, <2>3, <2>4 DEF Unused, In
<1>10. CASE EndClean
  <2>1. clean'.pc = "idle"
    BY <1>10, RestingTyped DEF EndClean
  <2>2. QED BY <2>1 DEF Unused, In
<1>11. CASE CrashClean
  <2>1. clean'.pc = "idle"
    BY <1>11, RestingTyped DEF CrashClean
  <2>2. QED BY <2>1 DEF Unused, In
<1>12. QED
  BY <1>1, <1>2, <1>3, <1>4, <1>5, <1>6, <1>7, <1>8, <1>9, <1>10, <1>11 DEF CleanStep

LEMMA RecordedByClean ==
  ASSUME Fading, CleanTypes, Calm, Listed, Recorded, CleanStep
  PROVE  Recorded'
<1>1. SUFFICES ASSUME NEW s \in Runs, quiet', At(s, "record")' PROVE FALSE
  BY DEF Recorded
<1>2. ~At(s, "idle")
  BY <1>1 DEF Fading, At
<1>3. QED BY <1>1, <1>2, CalmKept DEF Busy

\* A run that is not archived is left as it is.
LEMMA KeptAsItIs ==
  ASSUME Fading, Listed, CleanStep, NEW s \in Runs, ~archive[s].made
  PROVE  runs'[s] = runs[s]
<1>1. CASE RemoveRun
  BY <1>1 DEF RemoveRun, Listed, Archived, Fading
<1>2. CASE ~RemoveRun
  BY <1>2
  DEF CleanStep, StartClean, ListStale, Archive, RemoveWorktrees, ListOrphans,
      RemoveOrphan, ListObjects, RemoveObject, EndClean, CrashClean, flow
<1>3. QED BY <1>1, <1>2

\* A clean that nothing overlaps removes no worktree and no object of a run it keeps.
LEMMA RemovesUnused ==
  ASSUME FlowTypes, CleanTypes, Tried, Listed, Unused, CleanStep, quiet,
         NEW s \in Runs, Known(s), ~archive[s].made
  PROVE  /\ \A n \in runs[s].path : <<s, n>> \in trees => <<s, n>> \in trees'
         /\ Snapshot(s) \subseteq objects => Snapshot(s) \subseteq objects'
<1>1. CASE RemoveWorktrees
  <2>1. clean.run # s /\ UNCHANGED objects
    BY <1>1 DEF RemoveWorktrees, Listed, Archived
  <2>2. QED BY <1>1, <2>1 DEF RemoveWorktrees
<1>2. CASE RemoveOrphan
  <2>1. PICK S : S \subseteq clean.todo /\ trees' = trees \ S
    BY <1>2 DEF RemoveOrphan
  <2>2. ASSUME NEW n \in runs[s].path PROVE <<s, n>> \in Referenced
    <3>1. n \in Names
      BY <2>2, RunTypes DEF Tried, TriedAt, Names
    <3>2. QED BY <2>2, <3>1 DEF Referenced
  <2>3. clean.todo \intersect Referenced = {} /\ UNCHANGED objects
    BY <1>2 DEF RemoveOrphan, Unused
  <2>4. QED BY <2>1, <2>2, <2>3
<1>3. CASE RemoveObject
  <2>1. PICK x \in clean.todo : objects' = objects \ {x}
    BY <1>3 DEF RemoveObject
  <2>2. x \notin Snapshot(s) /\ UNCHANGED trees
    BY <1>3, <2>1 DEF RemoveObject, Unused, Named
  <2>3. QED BY <2>1, <2>2
<1>4. CASE UNCHANGED <<trees, objects>>
  BY <1>4
<1>5. QED
  BY <1>1, <1>2, <1>3, <1>4
  DEF CleanStep, StartClean, ListStale, Archive, RemoveRun, ListOrphans, ListObjects,
      EndClean, CrashClean, flow, Disk

LEMMA UsableByClean ==
  ASSUME FlowTypes, CleanTypes, Fading, Tried, Calm, Listed, Unused, Provided, CleanStep
  PROVE  Provided'
<1>1. SUFFICES ASSUME NEW s \in Runs, quiet', Known(s)', runs'[s].st \notin Over,
                      ~archive'[s].made
               PROVE  Sound(s)'
  BY DEF Provided, UsableAt
<1>2. quiet
  BY <1>1, CalmKept
<1>3. ~archive[s].made
  BY <1>1, Archiving
<1>4. Known(s) /\ runs[s].st \notin Over
  BY <1>1 DEF Fading, Fades, Keeps, Known
<1>5. runs'[s] = runs[s]
  BY <1>3, KeptAsItIs
<1>6. Sound(s)
  BY <1>2, <1>3, <1>4 DEF Provided, UsableAt
<1>7. QED BY <1>2, <1>3, <1>4, <1>5, <1>6, RemovesUnused DEF Sound, Snapshot

\* What a clean that nothing overlaps does to the integration of a run that it keeps.
LEMMA IntegratedByClean ==
  ASSUME FlowTypes, CleanTypes, Fading, Calm, Listed, Integrated, CleanStep
  PROVE  Integrated'
<1>1. SUFFICES ASSUME NEW s \in Runs, quiet', ~archive'[s].made, runs'[s].st \notin Over
               PROVE  IntegAt(s)'
  BY DEF Integrated, IntegAt
<1>2. quiet /\ ~Busy
  BY <1>1, CalmKept
<1>3. ~archive[s].made
  BY <1>1, Archiving
<1>4. runs'[s] = runs[s] /\ proc' = proc /\ At(s, "idle") /\ Integ(s)' = Integ(s)
  BY <1>2, <1>3, KeptAsItIs DEF Fading, Busy, Integ
<1>5. IntegAt(s) /\ runs[s].st \notin Over
  BY <1>1, <1>4 DEF Integrated
<1>6. CASE RemoveWorktrees
  <2>1. clean.run # s /\ UNCHANGED swept
    BY <1>3, <1>6 DEF RemoveWorktrees, Listed, Archived
  <2>2. \A n : /\ <<s, n>> \in trees' <=> <<s, n>> \in trees
              /\ <<s, n>> \in branches' <=> <<s, n>> \in branches
    BY <1>6, <2>1 DEF RemoveWorktrees
  <2>3. QED BY <1>2, <1>3, <1>4, <1>5, <2>1, <2>2 DEF IntegAt, At, Held
<1>7. CASE RemoveOrphan
  <2>1. PICK r \in Runs :
          /\ trees' = trees \ {t \in clean.todo : t[1] = r}
          /\ swept' = IF <<r, runs[r].integ>> \in {t \in clean.todo : t[1] = r}
                        THEN swept \union {r} ELSE swept
    BY <1>7 DEF RemoveOrphan
  <2>2. UNCHANGED branches /\ clean.todo \subseteq Runs \X Names
    BY <1>7 DEF RemoveOrphan, In, CleanTypes
  <2>3. <<r, runs[r].integ>> \in clean.todo => runs[r].integ # Nothing
    <3>1. Nothing \notin Names
      BY NamesApart DEF Names, Baseline, Nothing, Integration
    <3>2. QED BY <2>2, <3>1
  <2>4. CASE r # s
    BY <2>1, <2>2, <2>4, <1>2, <1>3, <1>4, <1>5 DEF IntegAt, At, Held
  <2>5. CASE r = s
    BY <2>1, <2>2, <2>3, <2>5, <1>2, <1>3, <1>4, <1>5 DEF IntegAt, At, Held
  <2>6. QED BY <2>4, <2>5
<1>8. CASE ~RemoveWorktrees /\ ~RemoveOrphan
  <2>1. UNCHANGED <<trees, branches, swept>>
    BY <1>8
    DEF CleanStep, StartClean, ListStale, Archive, RemoveRun, ListOrphans, ListObjects,
        RemoveObject, EndClean, CrashClean, flow, Disk
  <2>2. QED BY <2>1, <1>2, <1>3, <1>4, <1>5 DEF IntegAt, At, Held
<1>9. QED BY <1>6, <1>7, <1>8

\* The first state, and every step.
LEMMA AtFirst == Init => IInv
<1> SUFFICES ASSUME Init PROVE IInv
  OBVIOUS
<1> USE DEF Init, FlowInit, CleanInit
<1>1. FlowTypes
  BY BlankTyped, Bounds DEF FlowTypes
<1>2. /\ clean = [pc |-> clean.pc, todo |-> clean.todo, run |-> clean.run, copy |-> clean.copy]
      /\ clean.pc = "idle" /\ clean.todo = {} /\ clean.run = NoRun /\ clean.copy = Blank
  BY DEF Resting
<1>3. CleanTypes
  BY <1>2, BlankTyped DEF CleanTypes
<1>4. /\ Blank.st = "none" /\ ~Blank.state /\ Blank.running = {} /\ Blank.path = {}
      /\ Blank.tried = {}
  BY DEF Blank
<1>5. Idle.pc = "idle"
  BY DEF Idle
<1>6. \A r \in Runs : runs[r] = Blank /\ proc[r] = Idle
  OBVIOUS
<1>7. Working
  BY <1>4, <1>5, <1>6 DEF Working, WorkingAt, Held, At
<1>8. Alone /\ OneRunPerIssue
  BY <1>4, <1>5, <1>6 DEF Alone, OneRunPerIssue, Held, Known
<1>9. Tried
  BY <1>4, <1>5, <1>6 DEF Tried, TriedAt
<1>10. Room
  <2>1. SUFFICES ASSUME NEW r \in Runs PROVE RoomAt(r)
    BY DEF Room
  <2>2. Suffixes(r, 0)
    BY <1>4, <1>6 DEF Suffixes
  <2>3. Spent(r)
    BY <1>5, <1>6 DEF Spent
  <2>4. 0 + left <= MaxTroubles + (IF Spent(r) THEN 1 ELSE 0)
    BY <2>3, Bounds
  <2>5. QED BY <2>2, <2>4 DEF RoomAt
<1>11. MadeFor
  BY DEF MadeFor, MadeForAt
<1>12. Calm /\ Listed /\ Unused
  BY <1>2 DEF Calm, Listed, ListedRuns, Archived, Unused, In
<1>13. Retired
  BY <1>4, <1>6 DEF Retired
<1>14. Recorded
  BY <1>5, <1>6 DEF Recorded, At
<1>15. Provided /\ Integrated
  <2>1. Blank.integ = Nothing
    BY DEF Blank
  <2>2. QED BY <2>1, <1>4, <1>5, <1>6 DEF Provided, UsableAt, Known, Integrated, IntegAt, At
<1>16. QED
  BY <1>1, <1>3, <1>7, <1>8, <1>9, <1>10, <1>11, <1>12, <1>13, <1>14, <1>15 DEF IInv

LEMMA AtEveryStep == IInv /\ [Next]_vars => IInv'
<1> SUFFICES ASSUME IInv, [Next]_vars PROVE IInv'
  OBVIOUS
<1>1. FlowTypes'
  BY FlowStep DEF IInv
<1>2. ASSUME NEW r \in Runs, Moves(r), quiet' = (quiet /\ In("idle")),
             UNCHANGED <<clean, archive, swept>>
      PROVE  IInv'
  <2>1. (Working /\ Tried /\ Room /\ MadeFor)'
    BY <1>2, MovesKeep DEF IInv
  <2>2. (Alone /\ OneRunPerIssue)'
    BY <1>2, LocksKeep DEF IInv
  <2>3. (CleanTypes /\ Calm /\ Listed /\ Unused)'
    BY <1>2, CleanRests DEF IInv
  <2>4. Retired'
    BY <1>2, RetiredKept DEF IInv
  <2>5. quiet' => quiet
    BY <1>2
  <2>6. Recorded'
    BY <1>2, <2>5, RecordedKept DEF IInv
  <2>7. Provided' /\ Integrated'
    BY <1>2, <2>5, UsableKept, IntegratedKept DEF IInv
  <2>8. QED BY <1>1, <2>1, <2>2, <2>3, <2>4, <2>6, <2>7 DEF IInv
<1>3. CASE CleanStep
  <2>1. Fading
    BY <1>3, CleanFades DEF IInv
  <2>2. (Working /\ Tried /\ Room /\ MadeFor)'
    BY <1>1, <2>1, CleanKeeps DEF IInv
  <2>3. (Alone /\ OneRunPerIssue)'
    BY <2>1, CleanLeavesLocks DEF IInv
  <2>4. CleanTypes' /\ Calm' /\ Listed' /\ Unused'
    BY <1>3, <2>1, CleanTypesKept, CalmKept, ListedRunsKept, ArchivedKept, UnusedKept
    DEF IInv, Listed
  <2>5. Retired' /\ Recorded' /\ Provided' /\ Integrated'
    BY <1>3, <2>1, RetiredByClean, RecordedByClean, UsableByClean, IntegratedByClean DEF IInv
  <2>6. QED BY <1>1, <2>2, <2>3, <2>4, <2>5 DEF IInv
<1>4. CASE UNCHANGED vars
  <2>1. FlowTypes' /\ CleanTypes' /\ Working' /\ Alone' /\ OneRunPerIssue'
    BY <1>1, <1>4
    DEF IInv, vars, flow, cleaning, CleanTypes, Working, WorkingAt, At, Held, Alone,
        OneRunPerIssue, Known
  <2>2. Tried' /\ Room' /\ MadeFor'
    BY <1>4
    DEF IInv, vars, flow, Tried, TriedAt, Room, RoomAt, Suffixes, Spent, MadeFor,
        MadeForAt, At
  <2>3. Calm' /\ Listed' /\ Retired' /\ Unused'
    BY <1>4
    DEF IInv, vars, flow, cleaning, Calm, Busy, In, At, Listed, ListedRuns, Archived,
        Retired, Says, Gone, Paths, Known, Unused, Referenced, Named, Snapshot
  <2>4. Recorded' /\ Provided' /\ Integrated'
    BY <1>4
    DEF IInv, vars, flow, cleaning, Recorded, Provided, UsableAt, Sound, At, Known,
        Snapshot, Integrated, IntegAt, Integ, Held
  <2>5. QED BY <2>1, <2>2, <2>3, <2>4 DEF IInv
<1>5. QED BY <1>2, <1>3, <1>4, OneStep

\* What the runs and gg clean find on the disk is as they left it, in every state.
THEOREM Invariant == Spec => []IInv
<1>1. Init => IInv
  BY AtFirst
<1>2. IInv /\ [Next]_vars => IInv'
  BY AtEveryStep
<1>3. QED BY <1>1, <1>2, PTL DEF Spec

\* The types, and that a process works on the run of its own issue.
THEOREM TypeCorrect == Spec => []TypeOK
<1>1. IInv => TypeOK
  <2>1. SUFFICES ASSUME IInv PROVE TypeOK
    OBVIOUS
  <2>2. ASSUME NEW r \in Runs
        PROVE  /\ runs[r].st \in Statuses /\ runs[r].issue \in Issues \union {NoIssue}
               /\ runs[r].attempt \in 1..MaxAttempts /\ runs[r].tried \subseteq Candidates
    BY <2>1 DEF IInv, FlowTypes, RunRec
  <2>3. ASSUME NEW r \in Runs
        PROVE  /\ runs[r].running \union runs[r].path \subseteq runs[r].tried
               /\ proc[r].pc \notin {"idle", "selected"} /\ Known(r)
                    => proc[r].issue = runs[r].issue
    BY <2>1 DEF IInv, Working, WorkingAt, Tried, TriedAt, Held
  <2>4. /\ trees \subseteq Runs \X Names /\ branches \subseteq Runs \X Names
        /\ objects \subseteq Objects
        /\ \A r \in Runs : archive[r] \in [made : BOOLEAN, removed : SUBSET Names]
        /\ swept \subseteq Runs
    BY <2>1 DEF IInv, FlowTypes, CleanTypes
  <2>5. QED BY <2>2, <2>3, <2>4 DEF TypeOK
<1>2. QED BY <1>1, Invariant, PTL

\* However selections, crashes and resumes interleave, an issue never has two runs that
\* neither failed nor were cancelled.
THEOREM OneRunOfAnIssue == Spec => []OneRunPerIssue
<1>1. IInv => OneRunPerIssue
  BY DEF IInv
<1>2. QED BY <1>1, Invariant, PTL

\* A new candidate has neither a worktree nor a branch, whatever earlier processes left.
THEOREM NeverRefused == Spec => []FreshCandidates
<1>1. IInv => FreshCandidates
  <2>1. SUFFICES ASSUME IInv, NEW r \in Runs, At(r, "create") PROVE Free(r, proc[r].cand)
    BY DEF FreshCandidates
  <2>2. proc[r].cand \in Candidates
    BY <2>1, RunTypes DEF IInv, Tried, TriedAt, At
  <2>3. QED BY <2>1, <2>2 DEF IInv, MadeFor, MadeForAt, Free
<1>2. QED BY <1>1, Invariant, PTL

\* No run leaves .gg/runs before its summary is in the archive; nothing the summary
\* names is left, and it names all that the run's state recorded.
THEOREM ArchivedBeforeRemoved == Spec => []ArchivedFirst
<1>1. IInv => ArchivedFirst
  BY DEF IInv, Retired, ArchivedFirst, Says, Gone
<1>2. QED BY <1>1, Invariant, PTL

\* What a clean that nothing overlaps leaves of a run that it does not remove: all that
\* its snapshot and its candidates name, and its publication unless it was swept away.
THEOREM WhatCleanLeaves == Spec => []KeptUsable
<1>1. IInv => KeptUsable
  <2>1. SUFFICES ASSUME IInv, NEW r \in Runs, quiet, Known(r), runs[r].st \notin Over,
                        ~archive[r].made
                 PROVE  /\ Sound(r)
                        /\ runs[r].st = "publishing" /\ runs[r].integ # Nothing
                             => (CanIntegrate(r) <=> r \notin swept)
    BY DEF KeptUsable, Sound
  <2>2. Sound(r)
    BY <2>1 DEF IInv, Provided, UsableAt
  <2>3. runs[r].integ # Nothing =>
          /\ runs[r].integ = Integration(runs[r].winner)
          /\ <<r, runs[r].integ>> \in branches
          /\ <<r, runs[r].integ>> \in trees <=> r \notin swept
    BY <2>1 DEF IInv, Integrated, IntegAt, Integ
  <2>4. QED BY <2>2, <2>3 DEF CanIntegrate, Free
<1>2. QED BY <1>1, Invariant, PTL
===============================================================================
