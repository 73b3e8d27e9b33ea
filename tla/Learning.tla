------------------------------- MODULE Learning -------------------------------
(***************************************************************************)
(* The processes of one project that record what they learn: the engine of *)
(* the knowledge base (Knowledge) and the files next to it (Truth), each   *)
(* process in one call at a time, and what an agent's prompt takes from    *)
(* them (knowledge/search.py).  None of it is locked.                      *)
(***************************************************************************)
EXTENDS Knowledge, Truth, Search

CONSTANTS Budgets,    \* the calls of each part, the deaths, the commits and edits that a
                      \* behaviour has, and its events
          GoalTexts   \* what people may write into goals.md: its length, and whether it is text

VARIABLES room,         \* what is left of the budget
          learned,      \* the lessons that reached the log
          taught,       \* the summaries the constitution has shown
          settled       \* the views come from the log, the commits and the working tree as they are

vars == <<knowledge, truth, room, learned, taught, settled>>

ASSUME LearningAssumption ==
  /\ Actors = Procs
  /\ Budgets \subseteq [engine : Nat, truth : Nat, crashes : Nat, commits : Nat, edits : Nat,
                         events : SUBSET Events]
  /\ "entity" \in DOMAIN SectionLimits
  /\ {""} \union UNION {{e.name, e.file.dir} : e \in Events} \subseteq DOMAIN Scores

LearningInit == /\ KnowledgeInit /\ TruthInit
                /\ room \in Budgets
                /\ learned = {} /\ taught = {} /\ settled = FALSE

Spend(part) == room[part] > 0 /\ room' = [room EXCEPT ![part] = @ - 1]
AtRest(p) == In(p, "idle") /\ Doing(p, "idle")

\* What is remembered of the engine's steps.
Learns == learned' = learned \union {log'[i] : i \in {j \in DOMAIN log' : log'[j].kind = "lesson"}}
Unsoiled == dirty' = dirty \/ Reading(history, dirty') = Reading(history, dirty)
Settles(p) ==
  settled' = CASE In(p, "compile") -> at[p].evs = log /\ at[p].seen = Reading(history, dirty')
               [] In(p, "append") \/ In(p, "update") -> FALSE
               [] OTHER -> settled /\ Unsoiled
Shows == taught' = taught \union {s \in Summaries : Says(constitution', s)}

Work(p) == /\ EngineStep(p) /\ Learns /\ Settles(p)
           /\ UNCHANGED <<truth, room, taught>>
Paper(p) == /\ TruthStep(p) /\ Shows
            /\ UNCHANGED <<knowledge, room, learned, settled>>

\* A command or an agent's run calls the engine, or works on the files.
CallsEngine(p) == /\ AtRest(p) /\ Spend("engine")
                  /\ CallRebuild(p) \/ \E e \in room.events : Record(p, e)
                  /\ UNCHANGED <<truth, learned, taught, settled>>
CallsTruth(p) ==
  /\ AtRest(p) /\ Spend("truth")
  /\ \/ \E f \in DOMAIN memory, s \in Summaries, st \in Statuses : Remember(p, f, s, st)
     \/ Sync(p) \/ Regenerate(p)
     \/ \E f \in Findings, v \in Verdicts : Judge(p, f, v)
  /\ Shows
  /\ UNCHANGED <<knowledge, learned, settled>>
Commits1 == /\ Commit /\ Spend("commits") /\ settled' = FALSE
            /\ UNCHANGED <<truth, learned, taught>>
Edits == /\ Edit /\ Spend("edits") /\ settled' = (settled /\ Unsoiled)
         /\ UNCHANGED <<truth, learned, taught>>
Crash(p) == /\ Spend("crashes")
            /\ Die(p) /\ Perish(p)
            /\ settled' = (settled /\ log' = log /\ Unsoiled)
            /\ UNCHANGED <<learned, taught>>

Next == \/ Commits1 \/ Edits
        \/ \E p \in Procs : Work(p) \/ Paper(p) \/ CallsEngine(p) \/ CallsTruth(p) \/ Crash(p)
Spec == LearningInit /\ [][Next]_vars

-----------------------------------------------------------------------------
\* Type correctness of what this module adds.
TypeOK == /\ room.events \subseteq Events /\ room.engine \in Nat /\ room.truth \in Nat
          /\ room.crashes \in Nat /\ room.commits \in Nat /\ room.edits \in Nat
          /\ learned \subseteq Events /\ taught \subseteq Summaries /\ settled \in BOOLEAN
          /\ DOMAIN since = Procs /\ DOMAIN hand = Actors

\* compiler.py:9 calls a full rebuild idempotent: once the views come from the log, the
\* commits and the working tree as they are, to compile them again, over the files that
\* are there, changes nothing but the number of events read (the rebuild is one itself).
\* A rebuild that soils the working tree with its own committed pages has not come from
\* the tree it leaves: the next one has.
IdempotentRebuild ==
  settled => LET again == Compiled(log, Reading(history, dirty), views)
             IN [again EXCEPT !.stats = views.stats] = views

\* What an agent's repair taught, and what was recorded of a part of the project, is not
\* lost to the next prompts, whatever other processes wrote in between, whichever of
\* them died and whatever the pages say: as long as the log and goals.md can be read, the
\* lesson is in the prompt, unless as many records of others that fit no worse are
\* recalled, or it is recalled below the end of the context; the part is in it, unless
\* as many others are chosen that fit no worse, the search gave so many other results
\* that weigh no less, or it is chosen below that end.
LearnedInPrompt ==
  LET found == Related(log, views)
      recalled == Recalled(log, views)
      lines == PromptLines(found, recalled)
      parts == Chosen(found, "entity")
  IN Readable(log) => \A goals \in {g \in GoalTexts : g.readable} :
       LET prompt == Prompt(goals, log, views)
           Below(q) == ~Fits(q, goals, lines, views)
       IN /\ \A l \in learned : Scores[l.name] > 0 =>
               \/ \E r \in prompt.lessons : r.said = l
               \/ \E r \in recalled : r.said = l /\ Below(LessonLine(r))
               \/ Cardinality({r \in recalled : r.said # l /\ Scores[r.said.name] >= Scores[l.name]})
                    >= LessonLimit
          /\ \A n \in Named(Of(log, "entity")) : Scores[n] > 0 =>
               \/ n \in prompt.shown["entity"]
               \/ \E q \in parts : q.name = n /\ Below(q)
               \/ Cardinality({q \in parts : q.name # n /\ Scores[q.name] >= Scores[n]})
                    >= SectionLimits["entity"]
               \/ Cardinality({r \in found : /\ <<r.kind, r.name>> # <<"entity", n>>
                                           /\ r.fit >= Weight["entity"] * Scores[n]}) >= SearchLimit

\* An engine at rest is past the events after which it rebuilds only because the log
\* cannot be read: each call that comes after raises like this one (engine.py:383).
RebuiltInTime ==
  \A p \in Procs : (In(p, "idle") /\ since[p] >= Threshold) => ~Readable(log)

\* Finished runs, gg truth sync and its retry after a crash all add to the constitution,
\* unlocked, each from a copy it has read: no line ever says what a line above it says.
LessonOnce ==
  \A i, j \in DOMAIN constitution : i < j =>
    /\ constitution[i] # constitution[j]
    /\ <<constitution[j], constitution[i]>> \notin PartOf

\* A decision recorded as synced is never offered again, so it must have been in the
\* constitution: also when the process died on the way, or two of them synced at once.
SyncedWasWritten ==
  \A f \in DOMAIN memory : \A i \in DOMAIN Entries(f) :
    Entries(f)[i].id \in synced => Entries(f)[i].summary \in taught
===============================================================================
