--------------------------------- MODULE Truth ---------------------------------
(***************************************************************************)
(* What gg keeps about a project in files of its own, next to the knowledge*)
(* base: the memory of decisions and finished runs (memory.py), the lessons*)
(* in the constitution and which decisions were synced into it (truth.py), *)
(* and the verdicts on findings (finding_feedback.py).  None of these is   *)
(* locked.  A file that is not there is the empty sequence, else it is the *)
(* only member of one.                                                     *)
(***************************************************************************)
EXTENDS Places, SequencesExt

CONSTANTS Actors,      \* the processes
          Summaries,   \* of the decisions and of the finished runs
          PartOf,      \* the pairs of summaries of which the second contains the first
          Statuses,    \* the statuses decisions are recorded with
          Findings, Verdicts

VARIABLES memory,        \* decisions.md and session-handoff.md
          constitution,  \* the lines below "Learned Patterns"
          synced,        \* sync-state.json: the ids of the synced decisions
          feedback,      \* accepted-findings.json
          hand,          \* where each process is in one of these calls
          made           \* how many entries were made; their ids
truth == <<memory, constitution, synced, feedback, hand, made>>
papers == <<memory, constitution, synced, feedback>>

NoEntry == [id |-> 0, summary |-> "", status |-> ""]
Unsaid == [f \in Findings |-> "unsaid"]
\* pc, the entry and file worked on, the entries to sync, the copies read.
Free == [pc |-> "idle", entry |-> NoEntry, file |-> "", todo |-> <<>>, known |-> {},
         text |-> <<>>, verdicts |-> Unsaid]
Doing(p, pc) == hand[p].pc = pc
Set(p, now) == hand' = [hand EXCEPT ![p] = now]

TruthInit == /\ memory = [f \in {"decisions", "session-handoff"} |-> <<>>]
             /\ constitution = <<>> /\ synced = {}
             /\ feedback = [cut |-> FALSE, of |-> Unsaid]
             /\ hand = [p \in Actors |-> Free]
             /\ made = 0

\* append_memory_entry: gg memory append, or the end of a run (_record_completion_memory).
Remember(p, file, summary, status) ==
  /\ Doing(p, "idle")
  /\ made' = made + 1
  /\ Set(p, [Free EXCEPT !.pc = "look", !.file = file,
                         !.entry = [id |-> made + 1, summary |-> summary, status |-> status]])
  /\ UNCHANGED papers

\* The file is looked for, made with its title if it is missing, appended to.
Look(p) == /\ Doing(p, "look")
           /\ Set(p, [hand[p] EXCEPT !.pc = IF memory[hand[p].file] = <<>> THEN "title" ELSE "block"])
           /\ UNCHANGED <<papers, made>>
Title(p) == /\ Doing(p, "title")
            /\ memory' = [memory EXCEPT ![hand[p].file] = << <<>> >>]
            /\ Set(p, [hand[p] EXCEPT !.pc = "block"])
            /\ UNCHANGED <<constitution, synced, feedback, made>>
\* The end of a run teaches the constitution that the run was completed.
Block(p) == /\ Doing(p, "block")
            /\ memory' = [memory EXCEPT ![hand[p].file] = <<Append(@[1], hand[p].entry)>>]
            /\ Set(p, IF hand[p].file = "session-handoff"
                      THEN [Free EXCEPT !.pc = "teach", !.entry = hand[p].entry] ELSE Free)
            /\ UNCHANGED <<constitution, synced, feedback, made>>

\* "summary in text" is true of a summary that another line contains.
Says(text, s) == \E i \in DOMAIN text : text[i] = s \/ <<s, text[i]>> \in PartOf

\* What follows a lesson: the next decision to sync, or the record of them all.
Taught(p) == [hand[p] EXCEPT !.text = <<>>,
                !.pc = CASE hand[p].file # "sync" -> "idle"
                         [] hand[p].file = "sync" /\ Len(hand[p].todo) = 1 -> "mark"
                         [] OTHER -> "teach",
                !.entry = IF Len(hand[p].todo) > 1 THEN hand[p].todo[2] ELSE NoEntry,
                !.todo = IF @ = <<>> THEN <<>> ELSE Tail(@)]
Rested(now) == IF now.pc = "idle" THEN Free ELSE now

\* append_constitution_lesson: the text is read, and written with one line more.
ReadText(p) == /\ Doing(p, "teach")
               /\ Set(p, IF Says(constitution, hand[p].entry.summary) THEN Rested(Taught(p))
                         ELSE [hand[p] EXCEPT !.pc = "write", !.text = constitution])
               /\ UNCHANGED <<papers, made>>
\* Faulty variant: the line is added to the text as it is by then.
WriteNow(p) == /\ Doing(p, "write")
               /\ constitution' = Append(constitution, hand[p].entry.summary)
               /\ Set(p, Rested(Taught(p)))
               /\ UNCHANGED <<memory, synced, feedback, made>>
WriteText(p) == /\ Doing(p, "write")
                /\ constitution' = Append(hand[p].text, hand[p].entry.summary)
                /\ Set(p, Rested(Taught(p)))
                /\ UNCHANGED <<memory, synced, feedback, made>>

\* parse_memory_file
Entries(f) == IF memory[f] = <<>> THEN <<>> ELSE memory[f][1]

\* sync_approved_decisions: the decisions approved, edited or done that were not
\* synced; ids are never equal.
Eligible ==
  LET es == Entries("decisions")
  IN Picked(es, {i \in DOMAIN es : /\ es[i].status \in {"approved", "edited", "done"}
                                   /\ es[i].id \notin synced})
Marked(s) == {s[i].id : i \in DOMAIN s}
\* Faulty variant: they are recorded as synced before they are written.
SyncMarked(p) ==
  /\ Doing(p, "idle")
  /\ synced' = synced \union Marked(Eligible)
  /\ Set(p, [Free EXCEPT !.file = "sync", !.known = synced \union Marked(Eligible), !.todo = Eligible,
                         !.pc = IF Eligible = <<>> THEN "mark" ELSE "teach",
                         !.entry = IF Eligible = <<>> THEN NoEntry ELSE Eligible[1]])
  /\ UNCHANGED <<memory, constitution, feedback, made>>
Sync(p) == /\ Doing(p, "idle")
           /\ Set(p, [Free EXCEPT !.file = "sync", !.known = synced \union Marked(Eligible),
                                  !.todo = Eligible,
                                  !.pc = IF Eligible = <<>> THEN "mark" ELSE "teach",
                                  !.entry = IF Eligible = <<>> THEN NoEntry ELSE Eligible[1]])
           /\ UNCHANGED <<papers, made>>
\* _write_sync_state replaces the file with what was read and what was synced.
Mark(p) == /\ Doing(p, "mark")
           /\ synced' = hand[p].known
           /\ Set(p, Free)
           /\ UNCHANGED <<memory, constitution, feedback, made>>

\* gg constitution and gg init --force generate the file again, without lessons.
Regenerate(p) == /\ Doing(p, "idle")
                 /\ constitution' = <<>>
                 /\ UNCHANGED <<memory, synced, feedback, hand, made>>

\* record_finding_feedback: a file that was cut raises, for ever.
Judge(p, f, v) == /\ Doing(p, "idle")
                  /\ Set(p, IF feedback.cut THEN Free
                            ELSE [Free EXCEPT !.pc = "judge", !.file = f, !.entry.status = v,
                                              !.verdicts = feedback.of])
                  /\ UNCHANGED <<papers, made>>
WriteVerdicts(p) == /\ Doing(p, "judge")
                    /\ feedback' = [cut |-> FALSE, of |-> [hand[p].verdicts EXCEPT ![hand[p].file] = hand[p].entry.status]]
                    /\ Set(p, Free)
                    /\ UNCHANGED <<memory, constitution, synced, made>>

\* The process dies.  A file it was writing may be left empty: the constitution
\* without a line, the verdicts as text that cannot be parsed.
Perish(p) == /\ Set(p, Free)
             /\ \/ UNCHANGED papers
                \/ Doing(p, "write") /\ constitution' = <<>> /\ UNCHANGED <<memory, synced, feedback>>
                \/ /\ Doing(p, "judge")
                   /\ feedback' = [feedback EXCEPT !.cut = TRUE]
                   /\ UNCHANGED <<memory, constitution, synced>>
             /\ UNCHANGED made

TruthStep(p) == \/ Look(p) \/ Title(p) \/ Block(p) \/ ReadText(p) \/ WriteText(p) \/ Mark(p)
                \/ WriteVerdicts(p)
===============================================================================
