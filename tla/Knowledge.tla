------------------------------- MODULE Knowledge -------------------------------
(***************************************************************************)
(* The event log of the knowledge base and the engine that appends to it   *)
(* and rebuilds what is shown from it (knowledge/engine.py, events.py).    *)
(* Every gg command is a process with an engine of its own; none of them   *)
(* takes a lock for this.  A process can die anywhere, and in the middle   *)
(* of a line.                                                              *)
(***************************************************************************)
EXTENDS KnowledgeViews

CONSTANTS Procs,
          Events,       \* what the commands record
          Commits,      \* what people and agents commit meanwhile
          Histories,    \* the histories the project may start with
          LogFile,      \* the path of events.jsonl
          PageFiles,    \* the paths of what else the knowledge base keeps
          Threshold     \* 10: the events after which an engine rebuilds

ASSUME KnowledgeAssumption == /\ Threshold \in Nat \ {0}
                              /\ \A h \in Histories : h \in Seq({h[i] : i \in DOMAIN h})

VARIABLES log,       \* events.jsonl: the events; Cut is a line nobody can read
          issueLog,  \* issue-N.jsonl of each issue
          views,     \* what the compiler has written
          history,   \* the commits, newest first
          dirty,     \* the committed files whose text in the working tree is another one
          since,     \* of each engine: the events since its last rebuild
          at         \* where each process is in a call of the engine

knowledge == <<log, issueLog, views, history, dirty, since, at>>

Issues == {e.issue : e \in Events} \ {0}
Rebuilt == [NoEvent EXCEPT !.kind = "rebuilt"]

\* pc, the event recorded, and the copies read of the events and the commits.
Rest == [pc |-> "idle", ev |-> NoEvent, evs |-> <<>>, seen |-> <<>>]
In(p, pc) == at[p].pc = pc
Goto(p, pc) == at' = [at EXCEPT ![p].pc = pc]
Leave(p) == at' = [at EXCEPT ![p] = Rest]

KnowledgeInit == /\ log = <<>> /\ issueLog = [i \in Issues |-> <<>>]
                 /\ views = NoViews
                 /\ history \in Histories /\ dirty = {}
                 /\ since = [p \in Procs |-> 0]
                 /\ at = [p \in Procs |-> Rest]

files == <<log, issueLog>>
project == <<history, dirty>>
\* .gg/knowledge is not ignored by git: where it is committed, what is written there
\* soils the working tree.  A page may be written as it was.
SoilsLog == dirty' = dirty \union ({LogFile} \intersect InGit(history))
SoilsPages == \E changed \in SUBSET (PageFiles \intersect InGit(history)) : dirty' = dirty \union changed
\* A line appended behind a cut one becomes part of it.
With(lines, e) == IF lines # <<>> /\ Last(lines) = Cut THEN lines ELSE Append(lines, e)

\* _emit: the event is made.  A rebuild is a call without one.
Record(p, e) == /\ In(p, "idle")
                /\ at' = [at EXCEPT ![p] = [Rest EXCEPT !.pc = "append", !.ev = e]]
                /\ UNCHANGED <<files, views, project, since>>
CallRebuild(p) == /\ In(p, "idle")
                  /\ Goto(p, "rebuild")
                  /\ UNCHANGED <<files, views, project, since>>

\* What follows the rebuild or its omission, by the kind of the event: the lessons
\* are written anew, the directory of an analyzed file becomes an entity, what else
\* the compiler can do with one event it does.
Following(e) ==
  CASE e.kind = "lesson" -> "lessons"
    [] e.kind \in {"entity", "fact", "decision", "touch", "merged"} -> "update"
    [] e.kind = "research" /\ e.file.dir # "" -> "discover"
    [] OTHER -> "idle"
Follow(p) == at' = [at EXCEPT ![p] = IF Following(@.ev) = "idle" THEN Rest
                                     ELSE [Rest EXCEPT !.pc = Following(at[p].ev), !.ev = at[p].ev]]

\* Faulty variant: one event too late.
CountedLate(p) == /\ since' = [since EXCEPT ![p] = Min({@ + 1, Threshold})]
                  /\ IF at[p].ev.kind = "merged" \/ since[p] >= Threshold
                     THEN Goto(p, "rebuild") ELSE Follow(p)
\* _maybe_auto_rebuild
Counted(p) == /\ since' = [since EXCEPT ![p] = Min({@ + 1, Threshold})]
              /\ IF at[p].ev.kind = "merged" \/ since[p] + 1 >= Threshold
                 THEN Goto(p, "rebuild") ELSE Follow(p)

\* EventLog.append: the global log, then the log of the issue.
AppendGlobal(p) == /\ In(p, "append")
                   /\ log' = With(log, at[p].ev)
                   /\ IF at[p].ev.issue # 0
                      THEN Goto(p, "appendIssue") /\ UNCHANGED since
                      ELSE Counted(p)
                   /\ SoilsLog
                   /\ UNCHANGED <<issueLog, views, history>>
AppendIssue(p) == /\ In(p, "appendIssue")
                  /\ issueLog' = [issueLog EXCEPT ![at[p].ev.issue] = With(@, at[p].ev)]
                  /\ Counted(p)
                  /\ SoilsPages
                  /\ UNCHANGED <<log, views, history>>

\* rebuild: the commits, with the working tree, and the events are read.
Read(p) == /\ In(p, "rebuild") /\ Readable(log)
           /\ at' = [at EXCEPT ![p].pc = "compile", ![p].evs = log, ![p].seen = Reading(history, dirty)]
           /\ UNCHANGED <<files, views, project, since>>
\* A line that cannot be read: the exception leaves the call, since stays as it is.
ReadFails(p) == /\ In(p, "rebuild") \/ In(p, "lessons")
                /\ ~Readable(log)
                /\ Leave(p)
                /\ UNCHANGED <<files, views, project, since>>
\* The files are written one after the other; here in one step.
Compile(p) == /\ In(p, "compile")
              /\ views' = Compiled(at[p].evs, at[p].seen, views)
              /\ Goto(p, "rebuilt")
              /\ SoilsPages
              /\ UNCHANGED <<files, history, since>>
AppendRebuilt(p) == /\ In(p, "rebuilt")
                    /\ log' = With(log, Rebuilt)
                    /\ since' = [since EXCEPT ![p] = 0]
                    /\ Follow(p)
                    /\ SoilsLog
                    /\ UNCHANGED <<issueLog, views, history>>

\* incremental_update([ev])
Update(p) == /\ In(p, "update")
             /\ views' = Updated(<<at[p].ev>>, views)
             /\ Leave(p)
             /\ SoilsPages
             /\ UNCHANGED <<files, history, since>>
\* _auto_discover_entities: an entity without description or owner.
Discover(p) == /\ In(p, "discover")
               /\ at' = [at EXCEPT ![p] = [Rest EXCEPT !.pc = "append",
                     !.ev = [kind |-> "entity", issue |-> 0, name |-> at[p].ev.file.dir,
                             text |-> "", file |-> at[p].ev.file]]]
               /\ UNCHANGED <<files, views, project, since>>
\* _write_repair_lessons
ReadLessons(p) == /\ In(p, "lessons") /\ Readable(log)
                  /\ at' = [at EXCEPT ![p].pc = "writeLessons", ![p].evs = Of(log, "lesson")]
                  /\ UNCHANGED <<files, views, project, since>>
WriteLessons(p) == /\ In(p, "writeLessons")
                   /\ views' = [views EXCEPT !.lessons = at[p].evs]
                   /\ Leave(p)
                   /\ SoilsPages
                   /\ UNCHANGED <<files, history, since>>
\* The process dies, or ends and is started again: its engine is gone.  A line it
\* was appending may be cut.
Die(p) == /\ at' = [at EXCEPT ![p] = Rest]
          /\ since' = [since EXCEPT ![p] = 0]
          /\ \/ UNCHANGED <<files, dirty>>
             \/ In(p, "append") /\ log' = With(log, Cut) /\ SoilsLog /\ UNCHANGED issueLog
             \/ /\ In(p, "appendIssue")
                /\ issueLog' = [issueLog EXCEPT ![at[p].ev.issue] = With(@, Cut)]
                /\ SoilsPages
                /\ UNCHANGED log
          /\ UNCHANGED <<views, history>>

Commit == /\ \E c \in Commits :
               /\ \A i \in DOMAIN history : history[i].id # c.id
               /\ history' = <<c>> \o history
               /\ dirty' = dirty \ {t.path : t \in c.touched}
          /\ UNCHANGED <<files, views, since, at>>
\* A person, or another part of gg, changes a committed file, or takes that back.
Edit == /\ \E f \in InGit(history) : dirty' \in {dirty \union {f}, dirty \ {f}}
        /\ UNCHANGED <<files, views, history, since, at>>

EngineStep(p) == \/ AppendGlobal(p) \/ AppendIssue(p) \/ Read(p) \/ ReadFails(p) \/ Compile(p)
                 \/ AppendRebuilt(p) \/ Update(p) \/ Discover(p) \/ ReadLessons(p)
                 \/ WriteLessons(p)
===============================================================================
