------------------------------- MODULE Cleaner -------------------------------
(***************************************************************************)
(* gg clean, under the lock on the queue: the finished runs that are not   *)
(* retained and the runs that waited too long are archived and removed,    *)
(* then the worktrees no run refers to, then the objects no snapshot names.*)
(* It takes no lock on an issue, and can be killed anywhere.               *)
(***************************************************************************)
EXTENDS Worktrees

CONSTANTS KeepLast, NoRun

ASSUME CleanerAssumption == KeepLast \in Nat /\ NoRun \notin Runs

VARIABLES clean,    \* the phase of the command, what it listed and loaded
          archive,  \* .gg/runs-archive: whether a run has a summary, and which of its
                    \* worktrees that says were removed
          swept,    \* the runs whose integration was removed as an orphan
          quiet     \* no clean has overlapped a process that works on a run
cleaning == <<clean, archive, swept, quiet>>

Resting == [pc |-> "idle", todo |-> {}, run |-> NoRun, copy |-> Blank]
CleanInit == /\ clean = Resting
             /\ archive = [r \in Runs |-> [made |-> FALSE, removed |-> {}]]
             /\ swept = {} /\ quiet = TRUE

Busy == \E r \in Runs : ~At(r, "idle")
Phase(pc, todo) == clean' = [Resting EXCEPT !.pc = pc, !.todo = todo]
In(pc) == clean.pc = pc

Finished == {r \in Runs : Known(r) /\ runs[r].st \in Over}

\* The pass that lists without removing changes nothing and is left out.  The runs
\* written before the cutoff are any of those that are done; keep_last retains some
\* of them.  With a run id neither counts for that run.
StartClean ==
  /\ In("idle") /\ left > 0
  /\ left' = left - 1
  /\ \/ \E past \in SUBSET Finished :
          /\ Cardinality(Finished \ past) >= KeepLast \/ past = {}
          /\ Phase("terminal", {<<r, runs[r]>> : r \in past})
     \/ \E r \in Finished : Phase("terminal", {<<r, runs[r]>>})
  /\ quiet' = (quiet /\ ~Busy)
  /\ UNCHANGED <<runs, proc, Disk, archive, swept>>

Waiting == {r \in Runs : Known(r) /\ runs[r].st = "waiting"}

ListStale == /\ In("terminal") /\ clean.todo = {} /\ clean.run = NoRun
             /\ \E past \in SUBSET Waiting : Phase("stale", {<<r, runs[r]>> : r \in past})
             /\ UNCHANGED <<flow, archive, swept, quiet>>

\* Faulty variant: the run is removed without a summary of it.
ArchiveNot ==
  /\ clean.pc \in {"terminal", "stale"} /\ clean.run = NoRun
  /\ \E t \in clean.todo :
       clean' = [clean EXCEPT !.todo = @ \ {t}, !.run = t[1], !.copy = t[2]]
  /\ UNCHANGED <<flow, archive, swept, quiet>>

\* _run_worktree_paths, of the run as it was listed; the path of the integration is
\* read from an artifact.
Paths(r, copy) == copy.path \union (IF copy.baseline THEN {Baseline} ELSE {})
                  \union (IF runs[r].arts THEN {copy.integ} \ {Nothing} ELSE {})

\* The summary says that the worktrees are removed before they are.  (It also has the
\* issue and, while the artifacts are there, the outcome, which are left out.)
Archive ==
  /\ clean.pc \in {"terminal", "stale"} /\ clean.run = NoRun
  /\ \E t \in clean.todo :
       /\ archive' = [archive EXCEPT ![t[1]] = [made |-> TRUE, removed |-> Paths(t[1], t[2])]]
       /\ clean' = [clean EXCEPT !.todo = @ \ {t}, !.run = t[1], !.copy = t[2]]
  /\ UNCHANGED <<flow, swept, quiet>>

\* _remove_worktrees: the branch of a candidate goes with its worktree, and stays
\* when that is missing; the branch of an integration always stays.
RemoveWorktrees ==
  /\ clean.run # NoRun /\ clean.copy # Blank
  /\ LET r == clean.run
         c == clean.copy
         tried == {<<r, n>> : n \in c.path} \intersect trees
         base == IF c.baseline THEN {<<r, Baseline>>} ELSE {}
     IN /\ trees' = trees \ {<<r, n>> : n \in Paths(r, c)}
        /\ branches' = branches \ (tried \union base)
  /\ clean' = [clean EXCEPT !.copy = Blank]
  /\ UNCHANGED <<runs, proc, objects, left, archive, swept, quiet>>

\* rmtree takes the files one by one; a crash leaves either half.
RemoveRun ==
  /\ clean.run # NoRun /\ clean.copy = Blank
  /\ LET r == clean.run
     IN \/ /\ runs[r].state /\ runs[r].arts
           /\ \/ runs' = [runs EXCEPT ![r].state = FALSE]
              \/ runs' = [runs EXCEPT ![r].arts = FALSE]
           /\ UNCHANGED clean
        \/ /\ runs' = [runs EXCEPT ![r].state = FALSE, ![r].arts = FALSE]
           /\ clean' = [clean EXCEPT !.run = NoRun]
  /\ UNCHANGED <<proc, trees, branches, objects, left, archive, swept, quiet>>

\* Faulty variant: only the candidates that run count.
ReferencedRunning == {t \in Runs \X Names : Known(t[1]) /\ t[2] \in runs[t[1]].running}

\* Only the worktree_path of the candidates counts as a reference.
Referenced == {t \in Runs \X Names : Known(t[1]) /\ t[2] \in runs[t[1]].path}

ListOrphans == /\ In("stale") /\ clean.todo = {} /\ clean.run = NoRun
               /\ Phase("orphans", trees \ Referenced)
               /\ UNCHANGED <<flow, archive, swept, quiet>>

\* Run by run, as they lie on the disk.
RemoveOrphan ==
  /\ In("orphans")
  /\ \E r \in Runs : LET those == {t \in clean.todo : t[1] = r}
                    IN /\ those # {}
                       /\ trees' = trees \ those
                       /\ clean' = [clean EXCEPT !.todo = @ \ those]
                       /\ swept' = IF <<r, runs[r].integ>> \in those
                                     THEN swept \union {r} ELSE swept
  /\ UNCHANGED <<runs, proc, branches, objects, left, archive, quiet>>

\* The snapshots in every directory that is there, with or without state.json.
Named == UNION {Snapshot(r) : r \in Runs}

ListObjects == /\ In("orphans") /\ clean.todo = {}
               /\ Phase("objects", objects \ Named)
               /\ UNCHANGED <<flow, archive, swept, quiet>>

RemoveObject ==
  /\ In("objects")
  /\ \E o \in clean.todo : /\ objects' = objects \ {o}
                           /\ clean' = [clean EXCEPT !.todo = @ \ {o}]
  /\ UNCHANGED <<runs, proc, trees, branches, left, archive, swept, quiet>>

EndClean == /\ In("objects") /\ clean.todo = {}
            /\ clean' = Resting
            /\ UNCHANGED <<flow, archive, swept, quiet>>

CrashClean == /\ ~In("idle") /\ left > 0
              /\ left' = left - 1
              /\ clean' = Resting
              /\ UNCHANGED <<runs, proc, Disk, archive, swept, quiet>>

CleanStep == \/ StartClean \/ ListStale \/ Archive \/ RemoveWorktrees \/ RemoveRun
             \/ ListOrphans \/ RemoveOrphan \/ ListObjects \/ RemoveObject
             \/ EndClean \/ CrashClean
===============================================================================
