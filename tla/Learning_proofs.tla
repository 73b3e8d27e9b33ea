---------------------------- MODULE Learning_proofs ----------------------------
(***************************************************************************)
(* Proofs about what the processes of a project record: the engine of the  *)
(* knowledge base, the files next to it, the pages compiled from the log,  *)
(* and what a prompt takes from them.                                      *)
(***************************************************************************)
EXTENDS Learning, FiniteSetTheorems, SequenceTheorems, TLAPS

\* What most of the steps need of the constants.
LEMMA Given == /\ Actors = Procs /\ Threshold \in Nat \ {0}
               /\ Budgets \subseteq [engine : Nat, truth : Nat, crashes : Nat, commits : Nat, edits : Nat,
                                     events : SUBSET Events]
BY LearningAssumption, KnowledgeAssumption

USE Given

(***************************************************************************)
(* The engine.                                                             *)
(***************************************************************************)
\* The event that the engine makes of a file that was analyzed.
FoundIn(e) == [kind |-> "entity", issue |-> 0, name |-> e.file.dir, text |-> "",
               file |-> e.file]
Lines == Events \cup {Cut, Rebuilt} \cup {FoundIn(e) : e \in Events}

\* A process in a call has an event that can be in the log.
Called(r) == /\ r = [pc |-> r.pc, ev |-> r.ev, evs |-> r.evs, seen |-> r.seen]
             /\ r.ev \in Lines \cup {NoEvent}
             /\ r.pc \in {"append", "appendIssue"} => r.ev \in Lines
             /\ r.pc = "discover" => r.ev.kind = "research"

\* An engine past the threshold rebuilds, or the log cannot be read.
OnTime(r, n, lines) ==
  n >= Threshold => r.pc \in {"rebuild", "compile", "rebuilt"} \/ ~Readable(lines)

EngineInv == /\ log \in Seq(Lines) /\ learned \subseteq Events
             /\ at = [p \in Procs |-> at[p]] /\ since \in [Procs -> 0..Threshold]
             /\ \A p \in Procs : Called(at[p]) /\ OnTime(at[p], since[p], log)

\* Fields of where a process is, set one after the other.
LEMMA SetField ==
  ASSUME NEW x, x = [pc |-> x.pc, ev |-> x.ev, evs |-> x.evs, seen |-> x.seen], NEW v
  PROVE  /\ [x EXCEPT !.pc = v] = [pc |-> v, ev |-> x.ev, evs |-> x.evs, seen |-> x.seen]
         /\ [x EXCEPT !.ev = v] = [pc |-> x.pc, ev |-> v, evs |-> x.evs, seen |-> x.seen]
         /\ [x EXCEPT !.evs = v] = [pc |-> x.pc, ev |-> x.ev, evs |-> v, seen |-> x.seen]
         /\ [x EXCEPT !.seen = v] = [pc |-> x.pc, ev |-> x.ev, evs |-> x.evs, seen |-> v]
OBVIOUS

LEMMA SetTwo ==
  ASSUME NEW x, x = [pc |-> x.pc, ev |-> x.ev, evs |-> x.evs, seen |-> x.seen],
         NEW v, NEW w
  PROVE  /\ [x EXCEPT !.pc = v, !.ev = w]
               = [pc |-> v, ev |-> w, evs |-> x.evs, seen |-> x.seen]
         /\ [x EXCEPT !.pc = v, !.evs = w]
               = [pc |-> v, ev |-> x.ev, evs |-> w, seen |-> x.seen]
<1> DEFINE y == [x EXCEPT !.pc = v]
<1>1. y = [pc |-> v, ev |-> x.ev, evs |-> x.evs, seen |-> x.seen]
  OBVIOUS
<1> HIDE DEF y
<1>2. /\ [y EXCEPT !.ev = w] = [pc |-> v, ev |-> w, evs |-> x.evs, seen |-> x.seen]
      /\ [y EXCEPT !.evs = w] = [pc |-> v, ev |-> x.ev, evs |-> w, seen |-> x.seen]
  BY <1>1
<1> QED BY <1>2 DEF y

LEMMA RestIsCalled == Called(Rest) /\ Rest.pc = "idle"
BY DEF Called, Rest

\* The kinds of what is in the log besides the events.
LEMMA OtherKinds ==
  /\ NoEvent.kind = "none" /\ Cut.kind = "cut" /\ Rebuilt.kind = "rebuilt"
  /\ \A e : FoundIn(e).kind = "entity"
BY DEF Cut, NoEvent, Rebuilt, FoundIn

LEMMA LessonsAreEvents == \A e \in Lines : e.kind = "lesson" => e \in Events
BY OtherKinds DEF Lines

LEMMA ResearchIsEvent ==
  \A e \in Lines \cup {NoEvent} : e.kind = "research" => e \in Events
BY OtherKinds DEF Lines

LEMMA MinOfTwo ==
  ASSUME NEW a \in Int, NEW b \in Int
  PROVE  Min({a, b}) = IF a <= b THEN a ELSE b
BY DEF Min

\* A log with a line more stays a log, and unreadable if it was.
LEMMA WithLine ==
  ASSUME NEW lines \in Seq(Lines), NEW e \in Lines
  PROVE  /\ With(lines, e) \in Seq(Lines)
         /\ ~Readable(lines) => ~Readable(With(lines, e))
<1>1. /\ Append(lines, e) \in Seq(Lines) /\ Len(Append(lines, e)) = Len(lines) + 1
      /\ Len(lines) \in Nat
      /\ \A i \in 1..Len(lines) : Append(lines, e)[i] = lines[i]
  OBVIOUS
<1>2. ~Readable(lines) => ~Readable(Append(lines, e))
  <2>1. SUFFICES ASSUME NEW i \in DOMAIN lines, lines[i] = Cut
                 PROVE  \E j \in DOMAIN Append(lines, e) : Append(lines, e)[j] = Cut
    BY DEF Readable
  <2>2. i \in 1..Len(lines) /\ i \in 1..Len(Append(lines, e))
    BY <1>1
  <2>3. i \in DOMAIN Append(lines, e)
    BY <1>1, <2>2
  <2> QED BY <1>1, <2>1, <2>2, <2>3
<1> QED BY <1>1, <1>2 DEF With

\* A step of one process, and at most one line more.
LEMMA EngineKeeps ==
  ASSUME EngineInv, NEW p \in Procs, NEW r, NEW n \in 0..Threshold,
         at' = [at EXCEPT ![p] = r], since' = [since EXCEPT ![p] = n],
         log' = log \/ \E e \in Lines : log' = With(log, e),
         learned' = learned \/ Learns,
         Called(r), OnTime(r, n, log')
  PROVE  EngineInv'
<1>1. log' \in Seq(Lines) /\ (~Readable(log) => ~Readable(log'))
  BY WithLine DEF EngineInv
<1>2. learned' \subseteq Events
  <2>1. CASE learned' = learned
    BY <2>1 DEF EngineInv
  <2>2. CASE Learns
    <3>1. \A i \in DOMAIN log' : log'[i] \in Lines
      BY <1>1
    <3> QED BY <2>2, <3>1, LessonsAreEvents DEF EngineInv, Learns
  <2> QED BY <2>1, <2>2
<1>3. /\ at' = [q \in Procs |-> at'[q]]
      /\ \A q \in Procs : at'[q] = IF q = p THEN r ELSE at[q]
  BY DEF EngineInv
<1>4. /\ since' \in [Procs -> 0..Threshold]
      /\ \A q \in Procs : since'[q] = IF q = p THEN n ELSE since[q]
  BY DEF EngineInv
<1>5. ASSUME NEW q \in Procs  PROVE Called(at'[q]) /\ OnTime(at'[q], since'[q], log')
  BY <1>1, <1>3, <1>4 DEF EngineInv, OnTime
<1> QED BY <1>1, <1>2, <1>3, <1>4, <1>5 DEF EngineInv

\* A step in which the count stands still, and the engine stays where it counts.
LEMMA EngineGoes ==
  ASSUME EngineInv, NEW p \in Procs, NEW r, at' = [at EXCEPT ![p] = r], UNCHANGED since,
         log' = log \/ \E e \in Lines : log' = With(log, e),
         learned' = learned \/ Learns,
         Called(r),
         \/ at[p].pc \notin {"rebuild", "compile", "rebuilt"}
         \/ r.pc \in {"rebuild", "compile", "rebuilt"}
         \/ ~Readable(log)
  PROVE  EngineInv'
<1>1. since[p] \in 0..Threshold /\ since' = [since EXCEPT ![p] = since[p]]
  BY DEF EngineInv
<1>2. ~Readable(log) => ~Readable(log')
  BY WithLine DEF EngineInv
<1>3. OnTime(at[p], since[p], log)
  BY DEF EngineInv
<1>4. OnTime(r, since[p], log')
  BY <1>2, <1>3 DEF OnTime
<1> QED BY <1>1, <1>4, EngineKeeps

\* A field of where a process is, set.
LEMMA AtField ==
  ASSUME EngineInv, NEW p \in Procs, NEW pc
  PROVE  /\ [at[p] EXCEPT !.pc = pc]
              = [pc |-> pc, ev |-> at[p].ev, evs |-> at[p].evs, seen |-> at[p].seen]
         /\ [at EXCEPT ![p].pc = pc] = [at EXCEPT ![p] = [at[p] EXCEPT !.pc = pc]]
<1>1. at[p] = [pc |-> at[p].pc, ev |-> at[p].ev, evs |-> at[p].evs, seen |-> at[p].seen]
  BY DEF EngineInv, Called
<1> QED BY <1>1

\* What follows when the count is not due.
Followed(p) == IF Following(at[p].ev) = "idle" THEN Rest
               ELSE [Rest EXCEPT !.pc = Following(at[p].ev), !.ev = at[p].ev]

LEMMA FollowDoes ==
  ASSUME EngineInv, NEW p \in Procs, Follow(p)
  PROVE  at' = [at EXCEPT ![p] = Followed(p)] /\ Called(Followed(p))
<1>1. at[p].ev \in Lines \cup {NoEvent}
  BY DEF EngineInv, Called
<1>2. at' = [at EXCEPT ![p] = Followed(p)]
  BY DEF Follow, Followed
<1>3. CASE Following(at[p].ev) = "idle"
  BY <1>2, <1>3, RestIsCalled DEF Followed
<1>4. CASE Following(at[p].ev) # "idle"
  <2>1. Followed(p) = [pc |-> Following(at[p].ev), ev |-> at[p].ev, evs |-> <<>>,
                       seen |-> <<>>]
    BY <1>4 DEF Followed, Rest
  <2>2. /\ Following(at[p].ev) \notin {"append", "appendIssue"}
        /\ Following(at[p].ev) = "discover" => at[p].ev.kind = "research"
    BY DEF Following
  <2> QED BY <1>1, <1>2, <2>1, <2>2 DEF Called
<1> QED BY <1>3, <1>4

\* An event is counted.
LEMMA CountedKeeps ==
  ASSUME EngineInv, NEW p \in Procs, Counted(p),
         log' = log \/ \E e \in Lines : log' = With(log, e),
         learned' = learned \/ Learns
  PROVE  EngineInv'
<1> DEFINE n == Min({since[p] + 1, Threshold})
<1>1. since[p] \in 0..Threshold /\ Threshold \in Nat /\ 1 <= Threshold
  BY DEF EngineInv
<1>2. n = (IF since[p] + 1 <= Threshold THEN since[p] + 1 ELSE Threshold)
  BY <1>1, MinOfTwo
<1>3. n \in 0..Threshold /\ (n >= Threshold => since[p] + 1 >= Threshold)
  BY <1>1, <1>2
<1>4. since' = [since EXCEPT ![p] = n]
  BY DEF Counted
<1> HIDE DEF n
<1>5. CASE at[p].ev.kind = "merged" \/ since[p] + 1 >= Threshold
  <2> DEFINE r == [at[p] EXCEPT !.pc = "rebuild"]
  <2>1. at' = [at EXCEPT ![p] = r]
    BY <1>5 DEF Counted, Goto
  <2>2. r.pc = "rebuild" /\ Called(r)
    BY DEF EngineInv, Called
  <2> HIDE DEF r
  <2>3. OnTime(r, n, log')
    BY <2>2 DEF OnTime
  <2> QED BY <1>3, <1>4, <2>1, <2>2, <2>3, EngineKeeps
<1>6. CASE ~(at[p].ev.kind = "merged" \/ since[p] + 1 >= Threshold)
  <2>1. at' = [at EXCEPT ![p] = Followed(p)] /\ Called(Followed(p))
    BY <1>6, FollowDoes DEF Counted
  <2>2. OnTime(Followed(p), n, log')
    BY <1>3, <1>6 DEF OnTime
  <2> QED BY <1>3, <1>4, <2>1, <2>2, EngineKeeps
<1> QED BY <1>5, <1>6

LEMMA AppendGlobalKeeps ==
  ASSUME EngineInv, NEW p \in Procs, AppendGlobal(p), Learns  PROVE EngineInv'
<1>1. at[p].ev \in Lines /\ log' = With(log, at[p].ev) /\ at[p].pc = "append"
  BY DEF EngineInv, Called, AppendGlobal, In
<1>2. CASE at[p].ev.issue # 0
  <2> DEFINE r == [at[p] EXCEPT !.pc = "appendIssue"]
  <2>1. at' = [at EXCEPT ![p] = r] /\ UNCHANGED since
    BY <1>2 DEF AppendGlobal, Goto
  <2>2. Called(r)
    BY <1>1, AtField DEF Called
  <2> HIDE DEF r
  <2> QED BY <1>1, <2>1, <2>2, EngineGoes
<1>3. CASE ~(at[p].ev.issue # 0)
  BY <1>1, <1>3, CountedKeeps DEF AppendGlobal
<1> QED BY <1>2, <1>3

LEMMA ReadKeeps ==
  ASSUME EngineInv, NEW p \in Procs, Read(p), Learns  PROVE EngineInv'
<1> DEFINE r == [at[p] EXCEPT !.pc = "compile", !.evs = log, !.seen = Reading(history, dirty)]
<1>1. at[p] = [pc |-> at[p].pc, ev |-> at[p].ev, evs |-> at[p].evs, seen |-> at[p].seen]
      /\ at[p].ev \in Lines \cup {NoEvent}
  BY DEF EngineInv, Called
<1>2. /\ at' = [at EXCEPT ![p] = r] /\ UNCHANGED <<since, log>>
  BY <1>1 DEF Read, files
<1>3. r = [pc |-> "compile", ev |-> at[p].ev, evs |-> log, seen |-> Reading(history, dirty)]
  <2> DEFINE y == [at[p] EXCEPT !.pc = "compile", !.evs = log]
  <2>1. y = [pc |-> "compile", ev |-> at[p].ev, evs |-> log, seen |-> at[p].seen]
    BY <1>1, SetTwo
  <2> HIDE DEF y
  <2>2. [y EXCEPT !.seen = Reading(history, dirty)]
          = [pc |-> "compile", ev |-> at[p].ev, evs |-> log, seen |-> Reading(history, dirty)]
    BY <2>1
  <2> QED BY <2>2 DEF y
<1>4. Called(r) /\ r.pc = "compile"
  BY <1>1, <1>3 DEF Called
<1> HIDE DEF r
<1> QED BY <1>2, <1>4, EngineGoes

LEMMA CompileKeeps ==
  ASSUME EngineInv, NEW p \in Procs, Compile(p), Learns  PROVE EngineInv'
<1> DEFINE r == [at[p] EXCEPT !.pc = "rebuilt"]
<1>1. at' = [at EXCEPT ![p] = r] /\ UNCHANGED <<since, log>>
  BY DEF Compile, Goto, files
<1>2. Called(r) /\ r.pc = "rebuilt"
  BY DEF EngineInv, Called
<1> HIDE DEF r
<1> QED BY <1>1, <1>2, EngineGoes

LEMMA AppendRebuiltKeeps ==
  ASSUME EngineInv, NEW p \in Procs, AppendRebuilt(p), Learns  PROVE EngineInv'
<1>1. /\ at' = [at EXCEPT ![p] = Followed(p)] /\ Called(Followed(p))
      /\ since' = [since EXCEPT ![p] = 0] /\ log' = With(log, Rebuilt)
  BY FollowDoes DEF AppendRebuilt
<1>2. Rebuilt \in Lines /\ 0 \in 0..Threshold
  BY DEF Lines
<1>3. OnTime(Followed(p), 0, log')
  BY DEF OnTime
<1> QED BY <1>1, <1>2, <1>3, EngineKeeps

LEMMA DiscoverKeeps ==
  ASSUME EngineInv, NEW p \in Procs, Discover(p), Learns  PROVE EngineInv'
<1> DEFINE r == [Rest EXCEPT !.pc = "append",
                   !.ev = [kind |-> "entity", issue |-> 0, name |-> at[p].ev.file.dir,
                           text |-> "", file |-> at[p].ev.file]]
<1>1. /\ at' = [at EXCEPT ![p] = r] /\ UNCHANGED <<since, log>> /\ at[p].pc = "discover"
  BY DEF Discover, In, files
<1>2. at[p].ev \in Events
  BY <1>1, ResearchIsEvent DEF EngineInv, Called
<1>3. r = [pc |-> "append", ev |-> FoundIn(at[p].ev), evs |-> <<>>, seen |-> <<>>]
  <2>1. r = [pc |-> "append", ev |-> FoundIn(at[p].ev), evs |-> Rest.evs,
             seen |-> Rest.seen]
    BY RestIsCalled, SetTwo DEF Called, FoundIn
  <2> QED BY <2>1 DEF Rest
<1>4. FoundIn(at[p].ev) \in Lines
  BY <1>2 DEF Lines
<1>5. Called(r)
  BY <1>3, <1>4 DEF Called
<1> HIDE DEF r
<1> QED BY <1>1, <1>5, EngineGoes

LEMMA ReadLessonsKeeps ==
  ASSUME EngineInv, NEW p \in Procs, ReadLessons(p), Learns  PROVE EngineInv'
<1> DEFINE r == [at[p] EXCEPT !.pc = "writeLessons", !.evs = Of(log, "lesson")]
<1>1. at[p] = [pc |-> at[p].pc, ev |-> at[p].ev, evs |-> at[p].evs, seen |-> at[p].seen]
      /\ at[p].ev \in Lines \cup {NoEvent}
  BY DEF EngineInv, Called
<1>2. /\ at' = [at EXCEPT ![p] = r] /\ UNCHANGED <<since, log>> /\ at[p].pc = "lessons"
  BY <1>1 DEF ReadLessons, In, files
<1>3. r = [pc |-> "writeLessons", ev |-> at[p].ev, evs |-> Of(log, "lesson"),
           seen |-> at[p].seen]
  BY <1>1, SetTwo
<1>4. Called(r)
  BY <1>1, <1>3 DEF Called
<1> HIDE DEF r
<1> QED BY <1>2, <1>4, EngineGoes

\* The steps that end a call.
LEMMA LeaveKeeps ==
  ASSUME EngineInv, NEW p \in Procs, Leave(p), UNCHANGED <<since, log>>, Learns,
         at[p].pc \notin {"rebuild", "compile", "rebuilt"} \/ ~Readable(log)
  PROVE  EngineInv'
BY RestIsCalled, EngineGoes DEF Leave

LEMMA EngineStepKeeps ==
  ASSUME EngineInv, NEW p \in Procs, EngineStep(p), Learns  PROVE EngineInv'
<1>1. CASE AppendIssue(p)
  BY <1>1, CountedKeeps DEF AppendIssue
<1>2. CASE ReadFails(p)
  BY <1>2, LeaveKeeps DEF ReadFails, files
<1>3. CASE Update(p)
  BY <1>3, LeaveKeeps DEF Update, In, files
<1>4. CASE WriteLessons(p)
  BY <1>4, LeaveKeeps DEF WriteLessons, In, files
<1> QED
  BY <1>1, <1>2, <1>3, <1>4, AppendGlobalKeeps, ReadKeeps, CompileKeeps,
     AppendRebuiltKeeps, DiscoverKeeps, ReadLessonsKeeps DEF EngineStep

\* A call of the engine begins, or its process dies.
LEMMA RecordKeeps ==
  ASSUME EngineInv, NEW p \in Procs, NEW e \in Events, Record(p, e), UNCHANGED learned
  PROVE  EngineInv'
<1> DEFINE r == [Rest EXCEPT !.pc = "append", !.ev = e]
<1>1. /\ at' = [at EXCEPT ![p] = r] /\ UNCHANGED <<since, log>> /\ at[p].pc = "idle"
  BY DEF Record, In, files
<1>2. r = [pc |-> "append", ev |-> e, evs |-> Rest.evs, seen |-> Rest.seen]
  BY RestIsCalled, SetTwo DEF Called
<1>3. Called(r)
  BY <1>2 DEF Called, Lines
<1> HIDE DEF r
<1> QED BY <1>1, <1>3, EngineGoes

LEMMA CallRebuildKeeps ==
  ASSUME EngineInv, NEW p \in Procs, CallRebuild(p), UNCHANGED learned  PROVE EngineInv'
<1> DEFINE r == [at[p] EXCEPT !.pc = "rebuild"]
<1>1. /\ at' = [at EXCEPT ![p] = r] /\ UNCHANGED <<since, log>> /\ at[p].pc = "idle"
  BY DEF CallRebuild, Goto, In, files
<1>2. Called(r)
  BY DEF EngineInv, Called
<1> HIDE DEF r
<1> QED BY <1>1, <1>2, EngineGoes

LEMMA DieKeeps ==
  ASSUME EngineInv, NEW p \in Procs, Die(p), UNCHANGED learned  PROVE EngineInv'
<1>1. /\ at' = [at EXCEPT ![p] = Rest] /\ since' = [since EXCEPT ![p] = 0]
      /\ log' = log \/ log' = With(log, Cut)
  BY DEF Die, files
<1>2. Cut \in Lines /\ 0 \in 0..Threshold /\ OnTime(Rest, 0, log')
  BY DEF Lines, OnTime
<1> QED BY <1>1, <1>2, RestIsCalled, EngineKeeps

LEMMA EngineStands ==
  ASSUME EngineInv, UNCHANGED <<log, since, at, learned>>  PROVE EngineInv'
BY DEF EngineInv

(***************************************************************************)
(* The files next to the knowledge base.                                   *)
(***************************************************************************)
Files == {"decisions", "session-handoff"}
Entry == [id : Nat, summary : Summaries \cup {""}, status : Statuses \cup Verdicts \cup {""}]
Fresh == [id : Nat, summary : Summaries, status : Statuses]
Votes == [Findings -> Verdicts \cup {"unsaid"}]
Hand == [pc : {"idle", "look", "title", "block", "teach", "write", "mark", "judge"},
         entry : Entry, file : Files \cup Findings \cup {"", "sync"}, todo : Seq(Entry),
         known : SUBSET Nat, text : Seq(Summaries), verdicts : Votes]

\* The entries made so far, each at its id.
Registry(g, n) == /\ n \in Nat /\ g \in [1..n -> Fresh]
                  /\ \A k \in 1..n : g[k].id = k
Made(g, n) == {g[k] : k \in 1..n}

\* No line says what a line above it says.
Once(text) == \A i, j \in 1..Len(text) :
                i < j => text[i] # text[j] /\ <<text[j], text[i]>> \notin PartOf

\* A memory file has entries that were made.
Filed(m, g, n) == m # <<>> => m = <<m[1]>> /\ m[1] \in Seq(Made(g, n))

\* An id known to be synced has been taught, or will be.
Told(id, todo, g, n, tau) ==
  /\ id \in 1..n
  /\ g[id].summary \in tau \/ \E i \in 1..Len(todo) : todo[i].id = id

\* Where a process is in a call, for the entries made and the files there are.
HandOK(h, g, n, mem, tau) ==
  /\ h \in Hand
  /\ h.pc \in {"look", "title", "block"} => h.file \in Files /\ h.entry \in Made(g, n)
  /\ h.pc = "block" => mem[h.file] # <<>>
  /\ h.pc \in {"teach", "write"} =>
        /\ h.entry \in Made(g, n) /\ h.todo \in Seq(Made(g, n))
        /\ h.file # "sync" => h.todo = <<>>
        /\ h.file = "sync" => h.todo # <<>> /\ h.entry = h.todo[1]
  /\ h.pc \in {"teach", "write", "mark"} /\ h.file = "sync" =>
        \A id \in h.known : Told(id, h.todo, g, n, tau)
  /\ h.pc = "mark" => h.file = "sync" /\ h.todo = <<>>
  /\ h.pc = "judge" => h.entry.status \in Verdicts
  /\ h.pc = "write" => Once(h.text) /\ ~Says(h.text, h.entry.summary)

Shelf(g) ==
  /\ Registry(g, made)
  /\ memory = [f \in Files |-> memory[f]]
  /\ \A f \in Files : Filed(memory[f], g, made)
  /\ constitution \in Seq(Summaries) /\ Once(constitution) /\ taught \subseteq Summaries
  /\ \A s \in Summaries : Says(constitution, s) => s \in taught
  /\ \A id \in synced : Told(id, <<>>, g, made, taught)
  /\ feedback \in [cut : BOOLEAN, of : Votes]

TruthAt(g) == /\ Shelf(g) /\ hand = [p \in Actors |-> hand[p]]
              /\ \A p \in Actors : HandOK(hand[p], g, made, memory, taught)

TruthInv == \E g : TruthAt(g)

LEMMA FreeIsFree ==
  ASSUME NEW g, NEW n, NEW mem, NEW tau
  PROVE  Free.pc = "idle" /\ HandOK(Free, g, n, mem, tau)
<1>1. Unsaid \in Votes
  BY DEF Unsaid, Votes
<1>2. NoEntry \in Entry
  BY DEF NoEntry, Entry
<1>3. Free \in Hand /\ Free.pc = "idle"
  BY <1>1, <1>2 DEF Free, Hand
<1> QED BY <1>3 DEF HandOK

LEMMA MadeIsEntry ==
  ASSUME NEW g, NEW n, Registry(g, n), NEW e \in Made(g, n)
  PROVE  e \in Fresh /\ e \in Entry /\ e.id \in 1..n /\ g[e.id] = e
<1>1. PICK k \in 1..n : e = g[k]
  BY DEF Made
<1>2. e \in Fresh /\ e.id = k
  BY <1>1 DEF Registry
<1>3. e \in Entry
  BY <1>2 DEF Fresh, Entry
<1> QED BY <1>1, <1>2, <1>3

\* What a process holds stays right while entries, files and lessons are added.
Grown(g, n, mem, tau, g2, n2, mem2, tau2) ==
  /\ n \in Nat /\ n2 \in Nat /\ n <= n2 /\ \A k \in 1..n : g2[k] = g[k]
  /\ \A f \in Files : mem[f] # <<>> => mem2[f] # <<>>
  /\ tau \subseteq tau2

LEMMA HandStays ==
  ASSUME NEW g, NEW n, NEW mem, NEW tau, NEW h, HandOK(h, g, n, mem, tau),
         NEW g2, NEW n2, NEW mem2, NEW tau2, Grown(g, n, mem, tau, g2, n2, mem2, tau2)
  PROVE  HandOK(h, g2, n2, mem2, tau2)
<1> USE DEF Grown
<1>1. Made(g, n) \subseteq Made(g2, n2)
  <2>1. \A k \in 1..n : k \in 1..n2 /\ g2[k] = g[k]
    OBVIOUS
  <2> QED BY <2>1 DEF Made
<1>2. \A s : s \in Seq(Made(g, n)) => s \in Seq(Made(g2, n2))
  BY <1>1
<1>3. \A id, todo : Told(id, todo, g, n, tau) => Told(id, todo, g2, n2, tau2)
  BY DEF Told
<1> QED BY <1>1, <1>2, <1>3 DEF HandOK

LEMMA FiledStays ==
  ASSUME NEW g, NEW n \in Nat, NEW m, Filed(m, g, n), NEW g2, NEW n2 \in Nat, n <= n2,
         \A k \in 1..n : g2[k] = g[k]
  PROVE  Filed(m, g2, n2)
<1>1. Made(g, n) \subseteq Made(g2, n2)
  <2>1. \A k \in 1..n : k \in 1..n2 /\ g2[k] = g[k]
    OBVIOUS
  <2> QED BY <2>1 DEF Made
<1>2. \A s : s \in Seq(Made(g, n)) => s \in Seq(Made(g2, n2))
  BY <1>1
<1> QED BY <1>2 DEF Filed

(***************************************************************************)
(* The members of a sequence at some of its places: each is one of them.   *)
(***************************************************************************)
LEMMA RankExists ==
  ASSUME NEW n \in Nat, NEW P \in SUBSET (1..n), NEW k \in 1..Cardinality(P)
  PROVE  \E i \in P : Cardinality({j \in P : j <= i}) = k
<1> DEFINE c == Cardinality(P)
           Below(i) == {j \in P : j <= i}
           rank == [i \in P |-> Cardinality(Below(i))]
<1>1. IsFiniteSet(P) /\ c \in Nat
  <2>1. 1 \in Int /\ n \in Int
    OBVIOUS
  <2>2. IsFiniteSet(1..n)
    BY <2>1, FS_Interval
  <2> QED BY <2>2, FS_Subset, FS_CardinalityType
<1>2. ASSUME NEW i \in P
      PROVE  IsFiniteSet(Below(i)) /\ Cardinality(Below(i)) \in 1..c
  <2>1. Below(i) \in SUBSET P /\ i \in Below(i)
    OBVIOUS
  <2>2. IsFiniteSet(Below(i)) /\ Cardinality(Below(i)) <= c
    BY <2>1, <1>1, FS_Subset
  <2>3. Cardinality(Below(i)) \in Nat /\ Cardinality(Below(i)) # 0
    BY <2>1, <2>2, FS_CardinalityType, FS_EmptySet
  <2> QED BY <2>2, <2>3, <1>1
<1>3. ASSUME NEW i \in P, NEW j \in P, i < j
      PROVE  Cardinality(Below(i)) # Cardinality(Below(j))
  <2>1. Below(i) \in SUBSET Below(j) /\ j \in Below(j) /\ j \notin Below(i)
    <3>1. \A a \in P : a \in Nat
      OBVIOUS
    <3>2. ~(j <= i) /\ j <= j /\ \A a \in P : a <= i => a <= j
      BY <3>1, <1>3
    <3>3. Below(i) \in SUBSET Below(j)
      BY <3>2
    <3>4. j \in Below(j)
      BY <3>2
    <3>5. j \notin Below(i)
      BY <3>2
    <3> QED BY <3>3, <3>4, <3>5
  <2> HIDE DEF Below
  <2>2. Cardinality(Below(i)) = Cardinality(Below(j)) => Below(j) = Below(i)
    BY <2>1, <1>2, FS_Subset
  <2> QED BY <2>1, <2>2
<1>4. \A i, j \in P : i < j \/ j < i \/ i = j
  OBVIOUS
<1>5. rank \in [P -> 1..c]
  BY <1>2
<1>6. \A i \in P : rank[i] = Cardinality(Below(i))
  OBVIOUS
<1> HIDE DEF rank, Below, c
<1>7. rank \in Injection(P, 1..c)
  <2>1. ASSUME NEW i \in P, NEW j \in P, rank[i] = rank[j]  PROVE i = j
    <3>1. Cardinality(Below(i)) = Cardinality(Below(j))
      BY <1>6, <2>1
    <3> QED BY <1>3, <1>4, <3>1
  <2> QED BY <1>5, <2>1 DEF Injection, IsInjective
<1>8. IsFiniteSet(1..c) /\ Cardinality(1..c) = c
  <2>1. 1 \in Int /\ c \in Int /\ c >= 0
    BY <1>1
  <2> QED BY <2>1, FS_Interval
<1>9. rank \in Surjection(P, 1..c)
  <2>1. Cardinality(P) = Cardinality(1..c)
    BY <1>8 DEF c
  <2> QED BY <1>7, <1>8, <2>1, FS_Injection
<1>10. PICK i \in P : rank[i] = k
  BY <1>9 DEF Surjection, c
<1> QED BY <1>6, <1>10 DEF Below

LEMMA PickedMembers ==
  ASSUME NEW S, NEW s \in Seq(S), NEW P \in SUBSET (DOMAIN s)
  PROVE  Picked(s, P) \in Seq(S)
<1>1. Len(s) \in Nat /\ DOMAIN s = 1..Len(s) /\ \A i \in 1..Len(s) : s[i] \in S
  OBVIOUS
<1>2. Cardinality(P) \in Nat
  <2>1. 1 \in Int /\ Len(s) \in Int
    BY <1>1
  <2>2. IsFiniteSet(1..Len(s))
    BY <2>1, FS_Interval
  <2> QED BY <2>2, <1>1, FS_Subset, FS_CardinalityType
<1> DEFINE Place(k) == CHOOSE i \in P : Cardinality({j \in P : j <= i}) = k
           e(k) == s[Place(k)]
<1>3. ASSUME NEW k \in 1..Cardinality(P)  PROVE e(k) \in S
  <2>1. \E i \in P : Cardinality({j \in P : j <= i}) = k
    BY <1>1, RankExists
  <2>2. Place(k) \in P
    BY <2>1
  <2> QED BY <2>2, <1>1
<1>4. Picked(s, P) = [k \in 1..Cardinality(P) |-> e(k)]
  BY DEF Picked
<1> HIDE DEF e
<1> QED BY <1>2, <1>3, <1>4

\* The decisions to sync were made.
LEMMA EligibleIsMade ==
  ASSUME NEW g, TruthAt(g)
  PROVE  Eligible \in Seq(Made(g, made))
<1>1. Entries("decisions") \in Seq(Made(g, made))
  <2>1. Filed(memory["decisions"], g, made)
    BY DEF TruthAt, Shelf, Files
  <2> QED BY <2>1 DEF Filed, Entries
<1> QED BY <1>1, PickedMembers DEF Eligible

(***************************************************************************)
(* The lessons.                                                            *)
(***************************************************************************)
LEMMA AppendOnce ==
  ASSUME NEW text \in Seq(Summaries), Once(text), NEW s \in Summaries, ~Says(text, s)
  PROVE  /\ Append(text, s) \in Seq(Summaries) /\ Once(Append(text, s))
         /\ Says(Append(text, s), s)
<1> DEFINE t == Append(text, s)
<1>1. /\ t \in Seq(Summaries) /\ Len(t) = Len(text) + 1 /\ Len(text) \in Nat
      /\ t[Len(text) + 1] = s /\ \A i \in 1..Len(text) : t[i] = text[i]
      /\ DOMAIN text = 1..Len(text) /\ DOMAIN t = 1..Len(t)
  OBVIOUS
<1> HIDE DEF t
<1>2. \A i \in 1..Len(t) : i \in 1..Len(text) \/ i = Len(text) + 1
  BY <1>1
<1>3. ASSUME NEW i \in 1..Len(t), NEW j \in 1..Len(t), i < j
      PROVE  t[i] # t[j] /\ <<t[j], t[i]>> \notin PartOf
  <2>1. i \in 1..Len(text)
    BY <1>1, <1>3
  <2>2. CASE j \in 1..Len(text)
    BY <2>1, <2>2, <1>1, <1>3 DEF Once
  <2>3. CASE j = Len(text) + 1
    BY <2>1, <2>3, <1>1 DEF Says
  <2> QED BY <1>2, <2>2, <2>3
<1>4. Len(text) + 1 \in DOMAIN t
  BY <1>1
<1> QED BY <1>1, <1>3, <1>4 DEF Once, Says, t

LEMMA EmptyText == /\ <<>> \in Seq(Summaries) /\ Once(<<>>) /\ \A s : ~Says(<<>>, s)
BY DEF Once, Says

\* What the constitution shows is remembered; a file that is gone shows nothing.
Seen == \/ Shows
        \/ taught' = taught /\ (constitution' = constitution \/ constitution' = <<>>)

LEMMA SeenGrows ==
  ASSUME NEW g, TruthAt(g), Seen
  PROVE  /\ taught \subseteq taught' /\ taught' \subseteq Summaries
         /\ \A s \in Summaries : Says(constitution', s) => s \in taught'
<1>1. CASE Shows
  BY <1>1 DEF Shows, TruthAt, Shelf
<1>2. CASE ~Shows
  BY <1>2, EmptyText DEF Seen, TruthAt, Shelf
<1> QED BY <1>1, <1>2

\* A step of one process.
LEMMA TruthKeeps ==
  ASSUME NEW g, TruthAt(g), NEW p \in Actors, NEW h, hand' = [hand EXCEPT ![p] = h],
         NEW g2, Shelf(g2)', Grown(g, made, memory, taught, g2, made', memory', taught'),
         HandOK(h, g2, made', memory', taught')
  PROVE  TruthInv'
<1>1. /\ hand' = [q \in Actors |-> hand'[q]]
      /\ \A q \in Actors : hand'[q] = IF q = p THEN h ELSE hand[q]
  BY DEF TruthAt
<1>2. ASSUME NEW q \in Actors  PROVE HandOK(hand'[q], g2, made', memory', taught')
  <2>1. HandOK(hand[q], g, made, memory, taught)
    BY DEF TruthAt
  <2>2. HandOK(hand[q], g2, made', memory', taught')
    BY <2>1, HandStays
  <2> QED BY <1>1, <2>2
<1>3. TruthAt(g2)'
  BY <1>1, <1>2 DEF TruthAt
<1> QED BY <1>3 DEF TruthInv

\* A step that makes no entry, and writes no memory file.
LEMMA HandKeeps ==
  ASSUME NEW g, TruthAt(g), NEW p \in Actors, NEW h, hand' = [hand EXCEPT ![p] = h],
         UNCHANGED <<memory, made>>,
         constitution' \in Seq(Summaries), Once(constitution'), Seen,
         \A id \in synced' : Told(id, <<>>, g, made, taught'),
         feedback' \in [cut : BOOLEAN, of : Votes],
         HandOK(h, g, made, memory, taught')
  PROVE  TruthInv'
<1>1. made \in Nat /\ Shelf(g)
  BY DEF TruthAt, Shelf, Registry
<1>2. Grown(g, made, memory, taught, g, made', memory', taught')
  BY <1>1, SeenGrows DEF Grown
<1>3. Shelf(g)'
  BY <1>1, SeenGrows DEF Shelf
<1>4. HandOK(h, g, made', memory', taught')
  OBVIOUS
<1> QED BY <1>2, <1>3, <1>4, TruthKeeps

\* A step that works on none of the files.
LEMMA MoveKeeps ==
  ASSUME NEW g, TruthAt(g), NEW p \in Actors, NEW h, hand' = [hand EXCEPT ![p] = h],
         UNCHANGED <<papers, made>>, Seen,
         HandOK(h, g, made, memory, taught')
  PROVE  TruthInv'
<1>1. taught \subseteq taught'
  BY SeenGrows
<1>2. \A id \in synced' : Told(id, <<>>, g, made, taught')
  BY <1>1 DEF TruthAt, Shelf, Told, papers
<1>3. /\ constitution' \in Seq(Summaries) /\ Once(constitution')
      /\ feedback' \in [cut : BOOLEAN, of : Votes] /\ UNCHANGED <<memory, made>>
  BY DEF TruthAt, Shelf, papers
<1> QED BY <1>2, <1>3, HandKeeps

\* An entry is made.
LEMMA RememberKeeps ==
  ASSUME TruthInv, NEW p \in Actors, NEW f \in DOMAIN memory, NEW s \in Summaries,
         NEW st \in Statuses, Remember(p, f, s, st), Seen
  PROVE  TruthInv'
<1>1. PICK g : TruthAt(g)
  BY DEF TruthInv
<1>2. PICK n : n = made
  OBVIOUS
<1>3. PICK e : e = [id |-> n + 1, summary |-> s, status |-> st]
  OBVIOUS
<1>4. PICK g2 : g2 = [k \in 1..n + 1 |-> IF k = n + 1 THEN e ELSE g[k]]
  OBVIOUS
<1> DEFINE h == [Free EXCEPT !.pc = "look", !.file = f, !.entry = e]
<1>5. n \in Nat /\ made' = n + 1 /\ f \in Files
  BY <1>1, <1>2 DEF Remember, TruthAt, Shelf, Registry
<1>6. hand' = [hand EXCEPT ![p] = h] /\ UNCHANGED papers
  BY <1>2, <1>3 DEF Remember, Set
<1>7. e \in Fresh /\ e \in Entry /\ e.id = n + 1
  <2>1. n + 1 \in Nat
    BY <1>5
  <2> QED BY <2>1, <1>3 DEF Fresh, Entry
<1>8. \A k \in 1..n : g[k] \in Fresh /\ g[k].id = k
  BY <1>1, <1>2 DEF TruthAt, Shelf, Registry
<1>9. \A k \in 1..n : k \in 1..n + 1 /\ k # n + 1 /\ g2[k] = g[k]
  BY <1>4, <1>5
<1>10. g2[n + 1] = e /\ n + 1 \in 1..n + 1
  BY <1>4, <1>5
<1>11. Registry(g2, n + 1)
  <2>1. \A k \in 1..n + 1 : k \in 1..n \/ k = n + 1
    BY <1>5
  <2>2. ASSUME NEW k \in 1..n + 1  PROVE g2[k] \in Fresh /\ g2[k].id = k
    BY <1>7, <1>8, <1>9, <1>10, <2>1
  <2>3. g2 \in [1..n + 1 -> Fresh]
    BY <2>2, <1>4
  <2> QED BY <1>5, <2>2, <2>3 DEF Registry
<1>12. HandOK(h, g2, n + 1, memory', taught')
  <2>1. Free \in Hand
    BY FreeIsFree DEF HandOK
  <2>2. h \in Hand /\ h.pc = "look" /\ h.file = f /\ h.entry = e
    BY <2>1, <1>5, <1>7 DEF Hand
  <2>3. e \in Made(g2, n + 1)
    BY <1>10 DEF Made
  <2> HIDE DEF h
  <2> QED BY <2>2, <2>3, <1>5 DEF HandOK
<1> HIDE DEF h
<1>13. taught \subseteq taught'
  BY <1>1, SeenGrows
<1>14. Grown(g, made, memory, taught, g2, made', memory', taught')
  BY <1>2, <1>5, <1>6, <1>9, <1>13 DEF Grown, papers
<1>15. Shelf(g2)'
  <2>1. ASSUME NEW fl \in Files  PROVE Filed(memory[fl], g2, n + 1)
    <3>1. Filed(memory[fl], g, n)
      BY <1>1, <1>2 DEF TruthAt, Shelf
    <3>2. n + 1 \in Nat /\ n <= n + 1 /\ \A k \in 1..n : g2[k] = g[k]
      BY <1>5, <1>9
    <3> QED BY <3>1, <3>2, <1>5, FiledStays
  <2>2. ASSUME NEW id \in synced  PROVE Told(id, <<>>, g2, n + 1, taught')
    <3>1. Told(id, <<>>, g, n, taught)
      BY <1>1, <1>2 DEF TruthAt, Shelf
    <3> QED BY <3>1, <1>9, <1>13 DEF Told
  <2>3. Registry(g2, made)'
    BY <1>5, <1>11
  <2>4. \A fl \in Files : Filed(memory[fl], g2, made)'
    BY <1>5, <1>6, <2>1 DEF papers
  <2>5. \A id \in synced' : Told(id, <<>>, g2, made', taught')
    BY <1>5, <1>6, <2>2 DEF papers
  <2>6. /\ taught' \subseteq Summaries
        /\ \A x \in Summaries : Says(constitution', x) => x \in taught'
    BY <1>1, SeenGrows
  <2>7. /\ memory' = [fl \in Files |-> memory'[fl]] /\ constitution' \in Seq(Summaries)
        /\ Once(constitution') /\ feedback' \in [cut : BOOLEAN, of : Votes]
    BY <1>1, <1>6 DEF TruthAt, Shelf, papers
  <2> QED BY <2>3, <2>4, <2>5, <2>6, <2>7 DEF Shelf
<1>16. HandOK(h, g2, made', memory', taught')
  BY <1>5, <1>12
<1> QED BY <1>1, <1>6, <1>14, <1>15, <1>16, TruthKeeps

\* It is written.
LEMMA LookKeeps ==
  ASSUME TruthInv, NEW p \in Actors, Look(p), Seen  PROVE TruthInv'
<1>1. PICK g : TruthAt(g)
  BY DEF TruthInv
<1> DEFINE pc == IF memory[hand[p].file] = <<>> THEN "title" ELSE "block"
           h == [hand[p] EXCEPT !.pc = pc]
<1>2. HandOK(hand[p], g, made, memory, taught) /\ hand[p].pc = "look"
  BY <1>1 DEF TruthAt, Look, Doing
<1>3. /\ h \in Hand /\ h.pc = pc /\ h.entry = hand[p].entry /\ h.file = hand[p].file
      /\ h.known = hand[p].known /\ pc \in {"title", "block"}
  BY <1>2 DEF HandOK, Hand
<1>4. pc = "block" => memory[hand[p].file] # <<>>
  OBVIOUS
<1>5. hand' = [hand EXCEPT ![p] = h]
  BY DEF Look, Set
<1> HIDE DEF h, pc
<1>6. HandOK(h, g, made, memory, taught')
  BY <1>2, <1>3, <1>4 DEF HandOK
<1>7. UNCHANGED <<papers, made>>
  BY DEF Look
<1> QED BY <1>1, <1>5, <1>6, <1>7, MoveKeeps

\* A memory file is written.
LEMMA FileKeeps ==
  ASSUME NEW g, TruthAt(g), NEW p \in Actors, NEW h, hand' = [hand EXCEPT ![p] = h],
         NEW f \in Files, NEW m, memory' = [memory EXCEPT ![f] = <<m>>],
         m \in Seq(Made(g, made)),
         UNCHANGED <<constitution, synced, feedback, made>>, Seen,
         HandOK(h, g, made, memory', taught')
  PROVE  TruthInv'
<1>1. made \in Nat /\ Shelf(g)
  BY DEF TruthAt, Shelf, Registry
<1>2. /\ memory' = [fl \in Files |-> memory'[fl]]
      /\ \A fl \in Files : memory'[fl] = IF fl = f THEN <<m>> ELSE memory[fl]
  BY <1>1 DEF Shelf
<1>3. ASSUME NEW fl \in Files
      PROVE  Filed(memory'[fl], g, made) /\ (memory[fl] # <<>> => memory'[fl] # <<>>)
  <2>1. Filed(<<m>>, g, made) /\ <<m>> # <<>>
    BY DEF Filed
  <2>2. Filed(memory[fl], g, made)
    BY <1>1 DEF Shelf
  <2> QED BY <1>2, <2>1, <2>2
<1>4. /\ taught \subseteq taught' /\ taught' \subseteq Summaries
      /\ \A x \in Summaries : Says(constitution', x) => x \in taught'
  BY SeenGrows
<1>5. Grown(g, made, memory, taught, g, made', memory', taught')
  BY <1>1, <1>3, <1>4 DEF Grown
<1>6. \A id \in synced' : Told(id, <<>>, g, made, taught')
  BY <1>1, <1>4 DEF Shelf, Told
<1>7. Shelf(g)'
  BY <1>1, <1>2, <1>3, <1>4, <1>6 DEF Shelf
<1>8. HandOK(h, g, made', memory', taught')
  OBVIOUS
<1> QED BY <1>5, <1>7, <1>8, TruthKeeps

LEMMA TitleKeeps ==
  ASSUME TruthInv, NEW p \in Actors, Title(p), Seen  PROVE TruthInv'
<1>1. PICK g : TruthAt(g)
  BY DEF TruthInv
<1> DEFINE f == hand[p].file
           h == [hand[p] EXCEPT !.pc = "block"]
<1>2. HandOK(hand[p], g, made, memory, taught) /\ hand[p].pc = "title"
  BY <1>1 DEF TruthAt, Title, Doing
<1>3. /\ h \in Hand /\ h.pc = "block" /\ h.entry = hand[p].entry /\ h.file = f
      /\ f \in Files /\ h.entry \in Made(g, made)
  BY <1>2 DEF HandOK, Hand
<1>4. /\ hand' = [hand EXCEPT ![p] = h] /\ memory' = [memory EXCEPT ![f] = << <<>> >>]
      /\ UNCHANGED <<constitution, synced, feedback, made>>
  BY DEF Title, Set
<1> HIDE DEF h, f
<1>5. memory'[f] # <<>>
  BY <1>1, <1>3, <1>4 DEF TruthAt, Shelf
<1>6. HandOK(h, g, made, memory', taught')
  BY <1>3, <1>5 DEF HandOK
<1>7. <<>> \in Seq(Made(g, made))
  OBVIOUS
<1> QED BY <1>1, <1>3, <1>4, <1>6, <1>7, FileKeeps

\* What a process does that has appended an entry to a memory file.
Teaching(e) == [Free EXCEPT !.pc = "teach", !.entry = e]

LEMMA TeachingIsRight ==
  ASSUME NEW g, NEW n, Registry(g, n), NEW mem, NEW tau, NEW e \in Made(g, n)
  PROVE  HandOK(Teaching(e), g, n, mem, tau)
<1>1. Free \in Hand /\ Free.file = "" /\ Free.todo = <<>>
  BY FreeIsFree DEF HandOK, Free
<1>2. e \in Entry
  BY MadeIsEntry
<1> DEFINE h == Teaching(e)
<1>3. /\ h \in Hand /\ h.pc = "teach" /\ h.entry = e /\ h.file = "" /\ h.todo = <<>>
  BY <1>1, <1>2 DEF Hand, Teaching
<1> HIDE DEF h
<1>4. h.todo \in Seq(Made(g, n)) /\ h.file # "sync"
  BY <1>3, EmptySeq
<1>5. HandOK(h, g, n, mem, tau)
  BY <1>3, <1>4 DEF HandOK
<1> QED BY <1>5 DEF h

LEMMA BlockKeeps ==
  ASSUME TruthInv, NEW p \in Actors, Block(p), Seen  PROVE TruthInv'
<1>1. PICK g : TruthAt(g)
  BY DEF TruthInv
<1> DEFINE f == hand[p].file
           e == hand[p].entry
           m == Append(memory[f][1], e)
           h == IF f = "session-handoff" THEN Teaching(e) ELSE Free
<1>2. HandOK(hand[p], g, made, memory, taught) /\ hand[p].pc = "block"
  BY <1>1 DEF TruthAt, Block, Doing
<1>3. f \in Files /\ e \in Made(g, made) /\ memory[f] # <<>>
  BY <1>2 DEF HandOK
<1>4. memory[f][1] \in Seq(Made(g, made))
  BY <1>1, <1>3 DEF TruthAt, Shelf, Filed
<1>5. m \in Seq(Made(g, made))
  BY <1>3, <1>4
<1>6. /\ hand' = [hand EXCEPT ![p] = h] /\ memory' = [memory EXCEPT ![f] = <<m>>]
      /\ UNCHANGED <<constitution, synced, feedback, made>>
  BY DEF Block, Set, Teaching
<1>7. HandOK(Teaching(e), g, made, memory', taught')
  BY <1>1, <1>3, TeachingIsRight DEF TruthAt, Shelf
<1>8. HandOK(Free, g, made, memory', taught')
  BY FreeIsFree
<1>9. HandOK(h, g, made, memory', taught')
  BY <1>7, <1>8
<1> HIDE DEF h, f, e, m
<1> QED BY <1>1, <1>3, <1>5, <1>6, <1>9, FileKeeps

\* What follows a lesson that is in the constitution.
After(h) == [h EXCEPT !.text = <<>>,
               !.pc = CASE h.file # "sync" -> "idle"
                        [] h.file = "sync" /\ Len(h.todo) = 1 -> "mark"
                        [] OTHER -> "teach",
               !.entry = IF Len(h.todo) > 1 THEN h.todo[2] ELSE NoEntry,
               !.todo = IF @ = <<>> THEN <<>> ELSE Tail(@)]

LEMMA AfterIsRight ==
  ASSUME NEW g, NEW n, Registry(g, n), NEW mem, NEW tau, NEW h, HandOK(h, g, n, mem, tau),
         h.pc \in {"teach", "write"}, NEW tau2, tau \subseteq tau2,
         h.entry.summary \in tau2
  PROVE  HandOK(Rested(After(h)), g, n, mem, tau2)
<1> DEFINE a == After(h)
<1>1. /\ h \in Hand /\ h.entry \in Made(g, n) /\ h.todo \in Seq(Made(g, n))
      /\ h.file = "sync" => h.todo # <<>> /\ h.entry = h.todo[1]
      /\ h.file = "sync" => \A id \in h.known : Told(id, h.todo, g, n, tau)
  BY DEF HandOK
<1>2. CASE h.file # "sync"
  <2>1. a.pc = "idle"
    BY <1>1, <1>2 DEF After, Hand
  <2>2. Rested(a) = Free
    BY <2>1 DEF Rested
  <2> QED BY <2>2, FreeIsFree
<1>3. CASE h.file = "sync"
  <2> DEFINE todo == Tail(h.todo)
             pc == IF Len(h.todo) = 1 THEN "mark" ELSE "teach"
             entry == IF Len(h.todo) > 1 THEN h.todo[2] ELSE NoEntry
  <2>1. /\ todo \in Seq(Made(g, n)) /\ Len(todo) = Len(h.todo) - 1
        /\ \A i \in 1..Len(todo) : todo[i] = h.todo[i + 1]
        /\ Len(h.todo) \in Nat /\ Len(h.todo) >= 1 /\ Len(todo) \in Nat
    BY <1>1, <1>3
  <2>2. /\ Made(g, n) \subseteq Entry /\ NoEntry \in Entry
    BY MadeIsEntry, FreeIsFree DEF NoEntry, Entry
  <2>3. todo \in Seq(Entry) /\ <<>> \in Seq(Summaries)
    BY <2>1, <2>2
  <2>4. entry \in Entry /\ (pc = "teach" => entry \in Made(g, n) /\ todo # <<>> /\ entry = todo[1])
    <3>1. CASE Len(h.todo) = 1
      BY <3>1, <2>2
    <3>2. CASE Len(h.todo) > 1
      <4> DEFINE l == Len(h.todo)
                 t == Len(todo)
      <4>1. 2 \in 1..Len(h.todo) /\ 1 \in 1..Len(todo) /\ Len(todo) # 0
        <5>1. l \in Nat /\ t = l - 1 /\ l > 1
          BY <2>1, <3>2
        <5> HIDE DEF l, t
        <5>2. 2 \in 1..l /\ 1 \in 1..t /\ t # 0
          BY <5>1
        <5> QED BY <5>2 DEF t
      <4>2. h.todo[2] \in Made(g, n) /\ todo # <<>>
        BY <4>1, <1>1, <2>1, ElementOfSeq, EmptySeq
      <4>3. todo[1] = h.todo[2]
        BY <4>1, <2>1
      <4>4. entry = h.todo[2]
        BY <3>2
      <4> HIDE DEF pc, entry, todo
      <4> QED BY <4>2, <4>3, <4>4, <2>2
    <3> HIDE DEF pc, entry, todo
    <3>3. Len(h.todo) = 1 \/ Len(h.todo) > 1
      <4> DEFINE l == Len(h.todo)
      <4>1. l \in Nat /\ l >= 1
        BY <2>1
      <4> HIDE DEF l
      <4>2. l = 1 \/ l > 1
        BY <4>1
      <4> QED BY <4>2 DEF l
    <3> QED BY <3>1, <3>2, <3>3
  <2>5. pc = "mark" => todo = <<>>
    <3>1. pc = "mark" => Len(todo) = 0
      BY <2>1
    <3> HIDE DEF pc, todo
    <3> QED BY <2>1, <3>1
  <2>6. \A id \in h.known : Told(id, todo, g, n, tau2)
    <3>1. SUFFICES ASSUME NEW id \in h.known  PROVE Told(id, todo, g, n, tau2)
      OBVIOUS
    <3>2. Told(id, h.todo, g, n, tau)
      BY <1>1, <1>3
    <3>3. CASE g[id].summary \in tau
      BY <3>2, <3>3 DEF Told
    <3>4. ASSUME NEW i \in 1..Len(h.todo), h.todo[i].id = id  PROVE Told(id, todo, g, n, tau2)
      <4>1. CASE i = 1
        <5>1. h.entry.id = id
          BY <4>1, <3>4, <1>1, <1>3
        <5>2. g[id] = h.entry
          BY <5>1, <1>1, MadeIsEntry
        <5> QED BY <5>2, <3>2 DEF Told
      <4>2. CASE i # 1
        <5> DEFINE j == i - 1
        <5>1. j \in 1..Len(todo) /\ j + 1 = i
          BY <2>1, <4>2
        <5>2. todo[j].id = id
          BY <5>1, <2>1, <3>4
        <5> HIDE DEF j, todo
        <5> QED BY <5>1, <5>2, <3>2 DEF Told
      <4> QED BY <4>1, <4>2
    <3> QED BY <3>2, <3>3, <3>4 DEF Told
  <2>7. h.todo # <<>>
    BY <1>1, <1>3
  <2>8. /\ a \in Hand /\ a.pc = pc /\ a.entry = entry /\ a.todo = todo
        /\ a.file = "sync" /\ a.known = h.known
    <3> HIDE DEF entry, todo
    <3>1. a = [h EXCEPT !.text = <<>>, !.pc = pc, !.entry = entry, !.todo = todo]
      BY <1>1, <1>3, <2>7 DEF After, entry, todo, Hand
    <3> HIDE DEF a
    <3>2. pc \in {"mark", "teach"}
      OBVIOUS
    <3> HIDE DEF pc
    <3> QED BY <1>1, <1>3, <2>3, <2>4, <3>1, <3>2 DEF Hand
  <2>9. pc \in {"mark", "teach"}
    OBVIOUS
  <2> HIDE DEF a, pc, entry, todo
  <2>10. HandOK(a, g, n, mem, tau2)
    BY <2>1, <2>4, <2>5, <2>6, <2>8, <2>9 DEF HandOK
  <2>11. Rested(a) = a
    BY <2>8, <2>9 DEF Rested
  <2> QED BY <2>10, <2>11 DEF a
<1> QED BY <1>2, <1>3

LEMMA ReadTextKeeps ==
  ASSUME TruthInv, NEW p \in Actors, ReadText(p), Seen  PROVE TruthInv'
<1>1. PICK g : TruthAt(g)
  BY DEF TruthInv
<1>2. /\ HandOK(hand[p], g, made, memory, taught) /\ hand[p].pc = "teach"
      /\ Registry(g, made)
  BY <1>1 DEF TruthAt, Shelf, ReadText, Doing
<1>3. UNCHANGED <<papers, made>> /\ taught \subseteq taught'
  BY <1>1, SeenGrows DEF ReadText
<1>4. hand[p].entry.summary \in Summaries
  BY <1>2, MadeIsEntry DEF HandOK, Fresh
<1>5. CASE Says(constitution, hand[p].entry.summary)
  <2> DEFINE h == Rested(After(hand[p]))
  <2>1. hand' = [hand EXCEPT ![p] = h]
    BY <1>5 DEF ReadText, Set, Taught, After
  <2>2. hand[p].entry.summary \in taught'
    BY <1>1, <1>3, <1>4, <1>5 DEF TruthAt, Shelf
  <2>3. HandOK(h, g, made, memory, taught')
    BY <1>2, <1>3, <2>2, AfterIsRight
  <2> HIDE DEF h
  <2> QED BY <1>1, <1>3, <2>1, <2>3, MoveKeeps
<1>6. CASE ~Says(constitution, hand[p].entry.summary)
  <2> DEFINE h == [hand[p] EXCEPT !.pc = "write", !.text = constitution]
  <2>1. hand' = [hand EXCEPT ![p] = h]
    BY <1>6 DEF ReadText, Set
  <2>2. constitution \in Seq(Summaries) /\ Once(constitution)
    BY <1>1 DEF TruthAt, Shelf
  <2>3. HandOK(hand[p], g, made, memory, taught')
    <3>1. Grown(g, made, memory, taught, g, made, memory, taught')
      BY <1>2, <1>3 DEF Grown, Registry
    <3> QED BY <3>1, <1>2, HandStays
  <2>4. /\ h \in Hand /\ h.pc = "write" /\ h.text = constitution
        /\ h.entry = hand[p].entry /\ h.file = hand[p].file /\ h.todo = hand[p].todo
        /\ h.known = hand[p].known
    BY <1>2, <2>2 DEF HandOK, Hand
  <2> HIDE DEF h
  <2>5. HandOK(h, g, made, memory, taught')
    BY <1>2, <1>6, <2>2, <2>3, <2>4 DEF HandOK
  <2> QED BY <1>1, <1>3, <2>1, <2>5, MoveKeeps
<1> QED BY <1>5, <1>6

LEMMA WriteTextKeeps ==
  ASSUME TruthInv, NEW p \in Actors, WriteText(p), Shows  PROVE TruthInv'
<1>1. PICK g : TruthAt(g)
  BY DEF TruthInv
<1> DEFINE s == hand[p].entry.summary
           h == Rested(After(hand[p]))
<1>2. /\ HandOK(hand[p], g, made, memory, taught) /\ hand[p].pc = "write"
      /\ Registry(g, made)
  BY <1>1 DEF TruthAt, Shelf, WriteText, Doing
<1>3. /\ constitution' = Append(hand[p].text, s) /\ hand' = [hand EXCEPT ![p] = h]
      /\ UNCHANGED <<memory, synced, feedback, made>>
  BY DEF WriteText, Set, Taught, After
<1>4. s \in Summaries
  BY <1>2, MadeIsEntry DEF HandOK, Fresh
<1>5. hand[p].text \in Seq(Summaries) /\ Once(hand[p].text) /\ ~Says(hand[p].text, s)
  BY <1>2 DEF HandOK, Hand
<1>6. constitution' \in Seq(Summaries) /\ Once(constitution') /\ Says(constitution', s)
  BY <1>3, <1>4, <1>5, AppendOnce
<1>7. taught \subseteq taught' /\ s \in taught'
  BY <1>1, <1>4, <1>6, SeenGrows DEF Seen
<1>8. HandOK(h, g, made, memory, taught')
  BY <1>2, <1>7, AfterIsRight
<1>9. \A id \in synced' : Told(id, <<>>, g, made, taught')
  BY <1>1, <1>3, <1>7 DEF TruthAt, Shelf, Told
<1>10. feedback' \in [cut : BOOLEAN, of : Votes]
  BY <1>1, <1>3 DEF TruthAt, Shelf
<1> HIDE DEF h, s
<1> QED BY <1>1, <1>3, <1>6, <1>8, <1>9, <1>10, HandKeeps DEF Seen

\* The decisions that are to be synced.
LEMMA SyncKeeps ==
  ASSUME TruthInv, NEW p \in Actors, Sync(p), Seen  PROVE TruthInv'
<1>1. PICK g : TruthAt(g)
  BY DEF TruthInv
<1> DEFINE es == Eligible
           known == synced \cup Marked(es)
           pc == IF es = <<>> THEN "mark" ELSE "teach"
           entry == IF es = <<>> THEN NoEntry ELSE es[1]
           h == [Free EXCEPT !.file = "sync", !.known = known, !.todo = es,
                             !.pc = pc, !.entry = entry]
<1>2. es \in Seq(Made(g, made)) /\ Registry(g, made)
  BY <1>1, EligibleIsMade DEF TruthAt, Shelf
<1>3. hand' = [hand EXCEPT ![p] = h] /\ UNCHANGED <<papers, made>>
  BY DEF Sync, Set
<1>4. taught \subseteq taught'
  BY <1>1, SeenGrows
<1> HIDE DEF es
<1>5. DOMAIN es = 1..Len(es) /\ Len(es) \in Nat /\ \A i \in 1..Len(es) : es[i] \in Made(g, made)
  BY <1>2
<1>6. Made(g, made) \subseteq Entry /\ NoEntry \in Entry
  BY <1>2, MadeIsEntry DEF NoEntry, Entry
<1>7. es \in Seq(Entry)
  BY <1>2, <1>6
<1>8. \A id \in known : Told(id, es, g, made, taught')
  <2>1. ASSUME NEW id \in synced  PROVE Told(id, es, g, made, taught')
    BY <1>1, <1>4 DEF TruthAt, Shelf, Told
  <2>2. ASSUME NEW i \in 1..Len(es)  PROVE Told(es[i].id, es, g, made, taught')
    BY <1>2, <1>5, MadeIsEntry DEF Told
  <2> QED BY <1>5, <2>1, <2>2 DEF Marked
<1>9. known \subseteq Nat
  <2>1. made \in Nat
    BY <1>2 DEF Registry
  <2> QED BY <1>8, <2>1 DEF Told
<1>10. entry \in Entry /\ (pc = "teach" => entry \in Made(g, made) /\ es # <<>> /\ entry = es[1])
  <2>1. CASE es = <<>>
    BY <2>1, <1>6
  <2>2. CASE es # <<>>
    <3>1. Len(es) # 0 /\ 1 \in 1..Len(es)
      BY <2>2, <1>2, <1>5
    <3> QED BY <3>1, <2>2, <1>5, <1>6
  <2> QED BY <2>1, <2>2
<1>11. pc \in {"mark", "teach"} /\ (pc = "mark" => es = <<>>)
  OBVIOUS
<1> HIDE DEF known, pc, entry
<1>12. Free \in Hand
  BY FreeIsFree DEF HandOK
<1>13. /\ h \in Hand /\ h.pc = pc /\ h.file = "sync" /\ h.known = known /\ h.todo = es
       /\ h.entry = entry
  BY <1>7, <1>9, <1>10, <1>11, <1>12 DEF Hand
<1> HIDE DEF h
<1>14. HandOK(h, g, made, memory, taught')
  BY <1>2, <1>8, <1>10, <1>11, <1>13 DEF HandOK
<1> QED BY <1>1, <1>3, <1>14, MoveKeeps

LEMMA MarkKeeps ==
  ASSUME TruthInv, NEW p \in Actors, Mark(p), Seen  PROVE TruthInv'
<1>1. PICK g : TruthAt(g)
  BY DEF TruthInv
<1>2. HandOK(hand[p], g, made, memory, taught) /\ hand[p].pc = "mark"
  BY <1>1 DEF TruthAt, Mark, Doing
<1>3. /\ synced' = hand[p].known /\ hand' = [hand EXCEPT ![p] = Free]
      /\ UNCHANGED <<memory, constitution, feedback, made>>
  BY DEF Mark, Set
<1>4. \A id \in hand[p].known : Told(id, <<>>, g, made, taught)
  BY <1>2 DEF HandOK
<1>5. taught \subseteq taught'
  BY <1>1, SeenGrows
<1>6. \A id \in synced' : Told(id, <<>>, g, made, taught')
  BY <1>3, <1>4, <1>5 DEF Told
<1>7. /\ constitution' \in Seq(Summaries) /\ Once(constitution')
      /\ feedback' \in [cut : BOOLEAN, of : Votes]
  BY <1>1, <1>3 DEF TruthAt, Shelf
<1>8. HandOK(Free, g, made, memory, taught')
  BY FreeIsFree
<1> QED BY <1>1, <1>3, <1>6, <1>7, <1>8, HandKeeps

\* The constitution is generated again.
LEMMA RegenerateKeeps ==
  ASSUME TruthInv, NEW p \in Actors, Regenerate(p), Seen  PROVE TruthInv'
<1>1. PICK g : TruthAt(g)
  BY DEF TruthInv
<1>2. /\ constitution' = <<>> /\ UNCHANGED <<memory, synced, feedback, made>>
      /\ hand' = [hand EXCEPT ![p] = hand[p]]
  BY <1>1 DEF Regenerate, TruthAt
<1>3. taught \subseteq taught'
  BY <1>1, SeenGrows
<1>4. HandOK(hand[p], g, made, memory, taught')
  <2>1. HandOK(hand[p], g, made, memory, taught) /\ made \in Nat
    BY <1>1 DEF TruthAt, Shelf, Registry
  <2>2. Grown(g, made, memory, taught, g, made, memory, taught')
    BY <1>3, <2>1 DEF Grown
  <2> QED BY <2>1, <2>2, HandStays
<1>5. \A id \in synced' : Told(id, <<>>, g, made, taught')
  BY <1>1, <1>2, <1>3 DEF TruthAt, Shelf, Told
<1>6. constitution' \in Seq(Summaries) /\ Once(constitution')
  BY <1>2, EmptyText
<1>7. feedback' \in [cut : BOOLEAN, of : Votes]
  BY <1>1, <1>2 DEF TruthAt, Shelf
<1> QED BY <1>1, <1>2, <1>4, <1>5, <1>6, <1>7, HandKeeps

\* The verdicts.
LEMMA JudgeKeeps ==
  ASSUME TruthInv, NEW p \in Actors, NEW f \in Findings, NEW v \in Verdicts,
         Judge(p, f, v), Seen
  PROVE  TruthInv'
<1>1. PICK g : TruthAt(g)
  BY DEF TruthInv
<1> DEFINE h == [Free EXCEPT !.pc = "judge", !.file = f, !.entry.status = v,
                             !.verdicts = feedback.of]
<1>2. UNCHANGED <<papers, made>>
  BY DEF Judge
<1>3. Free \in Hand /\ feedback.of \in Votes
  BY <1>1, FreeIsFree DEF HandOK, TruthAt, Shelf
<1>4. h \in Hand /\ h.pc = "judge" /\ h.entry.status = v
  BY <1>3 DEF Hand, Entry
<1>5. HandOK(h, g, made, memory, taught') /\ HandOK(Free, g, made, memory, taught')
  <2> HIDE DEF h
  <2> QED BY <1>4, FreeIsFree DEF HandOK
<1>6. CASE feedback.cut
  <2>1. hand' = [hand EXCEPT ![p] = Free]
    BY <1>6 DEF Judge, Set
  <2> QED BY <1>1, <1>2, <1>5, <2>1, MoveKeeps
<1>7. CASE ~feedback.cut
  <2>1. hand' = [hand EXCEPT ![p] = h]
    BY <1>7 DEF Judge, Set
  <2> HIDE DEF h
  <2> QED BY <1>1, <1>2, <1>5, <2>1, MoveKeeps
<1> QED BY <1>6, <1>7

LEMMA WriteVerdictsKeeps ==
  ASSUME TruthInv, NEW p \in Actors, WriteVerdicts(p), Seen  PROVE TruthInv'
<1>1. PICK g : TruthAt(g)
  BY DEF TruthInv
<1>2. HandOK(hand[p], g, made, memory, taught) /\ hand[p].pc = "judge"
  BY <1>1 DEF TruthAt, WriteVerdicts, Doing
<1> DEFINE votes == [hand[p].verdicts EXCEPT ![hand[p].file] = hand[p].entry.status]
<1>3. /\ feedback' = [cut |-> FALSE, of |-> votes] /\ hand' = [hand EXCEPT ![p] = Free]
      /\ UNCHANGED <<memory, constitution, synced, made>>
  BY DEF WriteVerdicts, Set
<1>4. hand[p].verdicts \in Votes /\ hand[p].entry.status \in Verdicts
  BY <1>2 DEF HandOK, Hand
<1>5. votes \in Votes
  BY <1>4 DEF Votes
<1> HIDE DEF votes
<1>6. feedback' \in [cut : BOOLEAN, of : Votes]
  BY <1>3, <1>5
<1>7. taught \subseteq taught'
  BY <1>1, SeenGrows
<1>8. \A id \in synced' : Told(id, <<>>, g, made, taught')
  BY <1>1, <1>3, <1>7 DEF TruthAt, Shelf, Told
<1>9. constitution' \in Seq(Summaries) /\ Once(constitution')
  BY <1>1, <1>3 DEF TruthAt, Shelf
<1>10. HandOK(Free, g, made, memory, taught')
  BY FreeIsFree
<1> QED BY <1>1, <1>3, <1>6, <1>8, <1>9, <1>10, HandKeeps

\* The process dies.
LEMMA PerishKeeps ==
  ASSUME TruthInv, NEW p \in Actors, Perish(p), UNCHANGED taught  PROVE TruthInv'
<1>1. PICK g : TruthAt(g)
  BY DEF TruthInv
<1>2. /\ hand' = [hand EXCEPT ![p] = Free] /\ UNCHANGED <<memory, synced, made>>
      /\ constitution' = constitution \/ constitution' = <<>>
  BY DEF Perish, Set, papers
<1>3. feedback' \in [cut : BOOLEAN, of : Votes]
  <2>1. feedback' = feedback \/ feedback' = [feedback EXCEPT !.cut = TRUE]
    BY DEF Perish, papers
  <2>2. feedback \in [cut : BOOLEAN, of : Votes]
    BY <1>1 DEF TruthAt, Shelf
  <2> QED BY <2>1, <2>2
<1>4. constitution' \in Seq(Summaries) /\ Once(constitution')
  BY <1>1, <1>2, EmptyText DEF TruthAt, Shelf
<1>5. \A id \in synced' : Told(id, <<>>, g, made, taught')
  BY <1>1, <1>2 DEF TruthAt, Shelf
<1>6. HandOK(Free, g, made, memory, taught')
  BY FreeIsFree
<1>7. Seen
  BY <1>2 DEF Seen
<1> QED BY <1>1, <1>2, <1>3, <1>4, <1>5, <1>6, <1>7, HandKeeps

LEMMA TruthStepKeeps ==
  ASSUME TruthInv, NEW p \in Actors, TruthStep(p), Shows  PROVE TruthInv'
<1>1. Seen
  BY DEF Seen
<1> QED
  BY <1>1, LookKeeps, TitleKeeps, BlockKeeps, ReadTextKeeps, WriteTextKeeps, MarkKeeps,
     WriteVerdictsKeeps DEF TruthStep

LEMMA TruthStands ==
  ASSUME TruthInv, UNCHANGED <<truth, taught>>  PROVE TruthInv'
<1>1. PICK g : TruthAt(g)
  BY DEF TruthInv
<1>2. TruthAt(g)'
  BY <1>1 DEF TruthAt, Shelf, truth
<1> QED BY <1>2 DEF TruthInv

(***************************************************************************)
(* The two together.                                                       *)
(***************************************************************************)
RoomInv == /\ room \in [engine : Nat, truth : Nat, crashes : Nat, commits : Nat, edits : Nat,
                        events : SUBSET Events]
           /\ settled \in BOOLEAN

IInv == EngineInv /\ TruthInv /\ RoomInv

LEMMA Initially == LearningInit => IInv
<1> SUFFICES ASSUME LearningInit  PROVE IInv
  OBVIOUS
<1>1. EngineInv
  <2>1. \A p \in Procs : at[p] = Rest /\ since[p] = 0
    BY DEF LearningInit, KnowledgeInit
  <2>2. log = <<>> /\ log \in Seq(Lines)
    BY DEF LearningInit, KnowledgeInit
  <2>3. OnTime(Rest, 0, log)
    BY DEF OnTime
  <2>4. since \in [Procs -> 0..Threshold] /\ at = [p \in Procs |-> at[p]]
    BY DEF LearningInit, KnowledgeInit
  <2> QED BY <2>1, <2>2, <2>3, <2>4, RestIsCalled DEF EngineInv, LearningInit
<1>2. TruthInv
  <2>1. PICK g : g = [k \in 1..0 |-> NoEntry]
    OBVIOUS
  <2>2. /\ made = 0 /\ memory = [f \in Files |-> <<>>] /\ constitution = <<>> /\ synced = {}
        /\ feedback = [cut |-> FALSE, of |-> Unsaid] /\ hand = [p \in Actors |-> Free]
        /\ taught = {}
    BY DEF LearningInit, TruthInit, Files
  <2>3. Registry(g, 0)
    <3>1. \A k \in 1..0 : FALSE
      OBVIOUS
    <3> QED BY <2>1, <3>1 DEF Registry
  <2>4. \A f \in Files : Filed(memory[f], g, 0)
    BY <2>2 DEF Filed
  <2>5. Unsaid \in Votes
    BY DEF Unsaid, Votes
  <2>6. memory = [f \in Files |-> memory[f]] /\ hand = [p \in Actors |-> hand[p]]
    BY <2>2
  <2>7. Shelf(g)
    BY <2>2, <2>3, <2>4, <2>5, <2>6, EmptyText DEF Shelf
  <2>8. \A p \in Actors : HandOK(hand[p], g, made, memory, taught)
    BY <2>2, FreeIsFree
  <2> QED BY <2>6, <2>7, <2>8 DEF TruthInv, TruthAt
<1>3. RoomInv
  BY DEF RoomInv, LearningInit
<1> QED BY <1>1, <1>2, <1>3 DEF IInv

LEMMA SpendKeeps ==
  ASSUME RoomInv, NEW part \in {"engine", "truth", "crashes", "commits", "edits"}, Spend(part),
         settled' \in BOOLEAN
  PROVE  RoomInv'
<1>1. room' = [room EXCEPT ![part] = room[part] - 1] /\ room[part] > 0
  BY DEF Spend
<1>2. room[part] \in Nat
  BY DEF RoomInv
<1>3. room[part] - 1 \in Nat
  BY <1>1, <1>2
<1> QED BY <1>1, <1>3 DEF RoomInv

LEMMA Inductive == IInv /\ [Next]_vars => IInv'
<1> SUFFICES ASSUME IInv, [Next]_vars  PROVE IInv'
  OBVIOUS
<1> USE DEF IInv
<1>1. CASE UNCHANGED vars
  <2>1. UNCHANGED <<log, since, at, learned>> /\ UNCHANGED <<truth, taught>>
        /\ UNCHANGED <<room, settled>>
    BY <1>1 DEF vars, knowledge
  <2> QED BY <2>1, EngineStands, TruthStands DEF RoomInv
<1>2. CASE Commits1
  <2>1. UNCHANGED <<log, since, at, learned>> /\ UNCHANGED <<truth, taught>>
        /\ Spend("commits") /\ settled' \in BOOLEAN
    BY <1>2 DEF Commits1, Commit, files
  <2>2. RoomInv'
    BY <2>1, SpendKeeps
  <2> QED BY <2>1, <2>2, EngineStands, TruthStands
<1>8. CASE Edits
  <2>1. UNCHANGED <<log, since, at, learned>> /\ UNCHANGED <<truth, taught>>
        /\ Spend("edits") /\ settled' \in BOOLEAN
    BY <1>8 DEF Edits, Edit, files
  <2>2. RoomInv'
    BY <2>1, SpendKeeps
  <2> QED BY <2>1, <2>2, EngineStands, TruthStands
<1>3. ASSUME NEW p \in Procs, Work(p)  PROVE IInv'
  <2>1. EngineInv'
    BY <1>3, EngineStepKeeps DEF Work
  <2>2. TruthInv'
    BY <1>3, TruthStands DEF Work
  <2>3. settled' \in BOOLEAN
    <3>1. CASE In(p, "compile")
      BY <1>3, <3>1 DEF Work, Settles
    <3>2. CASE ~In(p, "compile") /\ (In(p, "append") \/ In(p, "update"))
      BY <1>3, <3>2 DEF Work, Settles
    <3>3. CASE ~In(p, "compile") /\ ~(In(p, "append") \/ In(p, "update"))
      BY <1>3, <3>3 DEF Work, Settles, RoomInv
    <3> QED BY <3>1, <3>2, <3>3
  <2> QED BY <1>3, <2>1, <2>2, <2>3 DEF Work, RoomInv
<1>4. ASSUME NEW p \in Procs, Paper(p)  PROVE IInv'
  <2>1. UNCHANGED <<log, since, at, learned>> /\ UNCHANGED <<room, settled>>
    BY <1>4 DEF Paper, knowledge
  <2>2. TruthInv'
    BY <1>4, TruthStepKeeps DEF Paper
  <2> QED BY <2>1, <2>2, EngineStands DEF RoomInv
<1>5. ASSUME NEW p \in Procs, CallsEngine(p)  PROVE IInv'
  <2>1. /\ CallRebuild(p) \/ \E e \in Events : Record(p, e)
        /\ UNCHANGED learned /\ UNCHANGED <<truth, taught>> /\ UNCHANGED settled
        /\ Spend("engine")
    BY <1>5 DEF CallsEngine, RoomInv
  <2>2. RoomInv'
    BY <2>1, SpendKeeps DEF RoomInv
  <2> QED BY <2>1, <2>2, CallRebuildKeeps, RecordKeeps, TruthStands
<1>6. ASSUME NEW p \in Procs, CallsTruth(p)  PROVE IInv'
  <2>1. /\ UNCHANGED <<log, since, at, learned>> /\ UNCHANGED settled /\ Seen
        /\ Spend("truth") /\ p \in Actors
    BY <1>6 DEF CallsTruth, knowledge, Seen
  <2>2. TruthInv'
    <3>1. CASE \E f \in DOMAIN memory, s \in Summaries, st \in Statuses : Remember(p, f, s, st)
      BY <2>1, <3>1, RememberKeeps
    <3>2. CASE Sync(p) \/ Regenerate(p)
      BY <2>1, <3>2, SyncKeeps, RegenerateKeeps
    <3>3. CASE \E f \in Findings, v \in Verdicts : Judge(p, f, v)
      BY <2>1, <3>3, JudgeKeeps
    <3> QED BY <1>6, <3>1, <3>2, <3>3 DEF CallsTruth
  <2>3. RoomInv'
    BY <2>1, SpendKeeps DEF RoomInv
  <2> QED BY <2>1, <2>2, <2>3, EngineStands
<1>7. ASSUME NEW p \in Procs, Crash(p)  PROVE IInv'
  <2>1. /\ Die(p) /\ Perish(p) /\ UNCHANGED learned /\ UNCHANGED taught
        /\ Spend("crashes") /\ settled' \in BOOLEAN
    BY <1>7 DEF Crash
  <2>2. RoomInv'
    BY <2>1, SpendKeeps
  <2> QED BY <2>1, <2>2, DieKeeps, PerishKeeps
<1> QED BY <1>1, <1>2, <1>3, <1>4, <1>5, <1>6, <1>7, <1>8 DEF Next

\* What is on disk and in the processes' hands at any time (IInv): the log holds events
\* that were recorded, every entry and every line comes from a call of the program, what
\* was read is used on what it was read for, whoever else writes and dies meanwhile.
THEOREM Invariant == Spec => []IInv
<1>1. IInv /\ [Next]_vars => IInv'
  BY Inductive
<1> QED BY <1>1, Initially, PTL DEF Spec

\* Every variable that the module adds holds a value of its type in every reachable state.
THEOREM TypeCorrect == Spec => []TypeOK
<1>1. IInv => TypeOK
  <2> SUFFICES ASSUME IInv  PROVE TypeOK
    OBVIOUS
  <2>1. room.events \subseteq Events /\ room.engine \in Nat /\ room.truth \in Nat
        /\ room.crashes \in Nat /\ room.commits \in Nat /\ room.edits \in Nat /\ settled \in BOOLEAN
    BY DEF IInv, RoomInv
  <2>2. learned \subseteq Events /\ DOMAIN since = Procs
    BY DEF IInv, EngineInv
  <2>3. taught \subseteq Summaries /\ DOMAIN hand = Actors
    BY DEF IInv, TruthInv, TruthAt, Shelf
  <2> QED BY <2>1, <2>2, <2>3 DEF TypeOK
<1> QED BY <1>1, Invariant, PTL

\* For any number of processes and events and every threshold: an engine at rest that has
\* counted the events after which a rebuild is due has one behind it, or a line of the
\* log cannot be read (engine.py _maybe_auto_rebuild).
THEOREM RebuildInTime == Spec => []RebuiltInTime
<1>1. IInv => RebuiltInTime
  BY DEF IInv, EngineInv, OnTime, RebuiltInTime, In
<1> QED BY <1>1, Invariant, PTL

\* However many processes read the constitution, add a line and write it back over each
\* other, no line of it ever says what a line above it says (truth.py
\* append_constitution_lesson).
THEOREM EachLessonOnce == Spec => []LessonOnce
<1>1. IInv => LessonOnce
  <2> SUFFICES ASSUME IInv  PROVE LessonOnce
    OBVIOUS
  <2>1. constitution \in Seq(Summaries) /\ Once(constitution)
    BY DEF IInv, TruthInv, TruthAt, Shelf
  <2>2. DOMAIN constitution = 1..Len(constitution)
    BY <2>1
  <2> QED BY <2>1, <2>2 DEF Once, LessonOnce
<1> QED BY <1>1, Invariant, PTL

\* A decision whose id is in sync-state.json was shown by the constitution at some time,
\* whichever processes synced at once and wherever one of them died (truth.py
\* sync_approved_decisions).
THEOREM SyncedIsShown == Spec => []SyncedWasWritten
<1>1. IInv => SyncedWasWritten
  <2> SUFFICES ASSUME IInv, NEW f \in DOMAIN memory, NEW i \in DOMAIN Entries(f),
                      Entries(f)[i].id \in synced
               PROVE  Entries(f)[i].summary \in taught
    BY DEF SyncedWasWritten
  <2>1. PICK g : TruthAt(g)
    BY DEF IInv, TruthInv
  <2>2. f \in Files /\ Registry(g, made) /\ Filed(memory[f], g, made)
    BY <2>1 DEF TruthAt, Shelf
  <2>3. Entries(f) \in Seq(Made(g, made))
    BY <2>2 DEF Filed, Entries
  <2>4. Entries(f)[i] \in Made(g, made)
    BY <2>3
  <2>5. g[Entries(f)[i].id] = Entries(f)[i]
    BY <2>2, <2>4, MadeIsEntry
  <2>6. Told(Entries(f)[i].id, <<>>, g, made, taught)
    BY <2>1 DEF TruthAt, Shelf
  <2>7. g[Entries(f)[i].id].summary \in taught
    <3>1. \A j : ~(j \in 1..Len(<<>>))
      OBVIOUS
    <3> QED BY <2>6, <3>1 DEF Told
  <2> QED BY <2>5, <2>7
<1> QED BY <1>1, Invariant, PTL

HIDE Given

(***************************************************************************)
(* The views: what is compiled again is what is there.                     *)
(***************************************************************************)
\* Written twice is written once, and what lies under it twice does not show.
LEMMA OverAgain ==
  ASSUME NEW f, NEW g  PROVE Over(f, Over(f, g)) = Over(f, g)
<1> DEFINE h == Over(f, g)
<1>1. /\ DOMAIN h = DOMAIN f \cup DOMAIN g
      /\ \A x \in DOMAIN h : h[x] = IF x \in DOMAIN f THEN f[x] ELSE g[x]
      /\ h = [x \in DOMAIN h |-> h[x]]
  BY DEF Over
<1> HIDE DEF h
<1>2. Over(f, h) = [x \in DOMAIN f \cup DOMAIN h |-> IF x \in DOMAIN f THEN f[x] ELSE h[x]]
  BY DEF Over
<1>3. DOMAIN f \cup DOMAIN h = DOMAIN h
  BY <1>1
<1>4. \A x \in DOMAIN h : (IF x \in DOMAIN f THEN f[x] ELSE h[x]) = h[x]
  BY <1>1
<1>5. Over(f, h) = h
  BY <1>1, <1>2, <1>3, <1>4
<1> QED BY <1>5 DEF h

\* Two writings, one over the other and both again, leave what one of each leaves.
LEMMA OverTwice ==
  ASSUME NEW e, NEW f, NEW g
  PROVE  Over(e, Over(f, Over(e, Over(f, g)))) = Over(e, Over(f, g))
<1> DEFINE h == Over(f, g)
           k == Over(e, h)
           m == Over(f, k)
<1>1. /\ DOMAIN h = DOMAIN f \cup DOMAIN g
      /\ \A x \in DOMAIN f : h[x] = f[x]
  BY DEF Over
<1> HIDE DEF h
<1>2. /\ DOMAIN k = DOMAIN e \cup DOMAIN h
      /\ \A x \in DOMAIN k : k[x] = IF x \in DOMAIN e THEN e[x] ELSE h[x]
      /\ k = [x \in DOMAIN k |-> k[x]]
  BY DEF Over
<1> HIDE DEF k
<1>3. /\ DOMAIN m = DOMAIN f \cup DOMAIN k
      /\ \A x \in DOMAIN m : m[x] = IF x \in DOMAIN f THEN f[x] ELSE k[x]
  BY DEF Over
<1> HIDE DEF m
<1>4. Over(e, m) = [x \in DOMAIN e \cup DOMAIN m |-> IF x \in DOMAIN e THEN e[x] ELSE m[x]]
  BY DEF Over
<1>5. DOMAIN e \cup DOMAIN m = DOMAIN k
  BY <1>1, <1>2, <1>3
<1>6. ASSUME NEW x \in DOMAIN k  PROVE (IF x \in DOMAIN e THEN e[x] ELSE m[x]) = k[x]
  <2>1. CASE x \in DOMAIN e
    BY <1>2, <2>1
  <2>2. CASE x \notin DOMAIN e
    <3>1. x \in DOMAIN m /\ k[x] = h[x]
      BY <1>2, <1>3, <2>2
    <3> QED BY <1>1, <1>3, <2>2, <3>1
  <2> QED BY <2>1, <2>2
<1>7. Over(e, m) = k
  BY <1>2, <1>4, <1>5, <1>6
<1> QED BY <1>7 DEF h, k, m

\* The fields of what is compiled.
Fields(v) == v = [entities |-> v.entities, registry |-> v.registry, decisions |-> v.decisions,
                  risks |-> v.risks, insights |-> v.insights, intel |-> v.intel,
                  checklist |-> v.checklist, patterns |-> v.patterns, stats |-> v.stats,
                  lessons |-> v.lessons]
\* The views are what a rebuild makes of them.
Stands(evs, h, v) ==
  LET g == Profile(h)
      here == h[1].tree IN
  /\ v.entities = CompileEntities(evs, g, v)
  /\ v.registry = CompileRegistry(evs, g)
  /\ v.decisions = CompileDecisions(evs, g, v)
  /\ v.risks = CompileRisks(evs, g, here.tools, v)
  /\ v.insights = CompileInsights(here.found, v)
  /\ v.intel = CompileIntel(here.found, v)
  /\ v.checklist = here.tools
  /\ v.patterns = CompilePatterns(evs, v)

\* What a rebuild leaves as it is, it leaves as it is but for the events read.
LEMMA StandsAgain ==
  ASSUME NEW evs, NEW h, NEW v, Fields(v), Stands(evs, h, v)
  PROVE  [Compiled(evs, h, v) EXCEPT !.stats = v.stats] = v
<1> DEFINE g == Profile(h)
           here == h[1].tree
           c == Compiled(evs, h, v)
<1>1. c = [entities |-> v.entities, registry |-> v.registry, decisions |-> v.decisions,
           risks |-> v.risks, insights |-> v.insights, intel |-> v.intel,
           checklist |-> v.checklist, patterns |-> v.patterns, stats |-> Stats(evs, v),
           lessons |-> v.lessons]
  BY DEF Stands, Compiled
<1> HIDE DEF c
<1>2. [c EXCEPT !.stats = v.stats]
        = [entities |-> v.entities, registry |-> v.registry, decisions |-> v.decisions,
           risks |-> v.risks, insights |-> v.insights, intel |-> v.intel,
           checklist |-> v.checklist, patterns |-> v.patterns, stats |-> v.stats,
           lessons |-> v.lessons]
  BY <1>1
<1> QED BY <1>2 DEF Fields, c

\* What was compiled stays what a rebuild makes of it.
LEMMA CompiledStands ==
  ASSUME NEW evs, NEW h, NEW old
  PROVE  Fields(Compiled(evs, h, old)) /\ Stands(evs, h, Compiled(evs, h, old))
<1> DEFINE g == Profile(h)
           here == h[1].tree
           v == Compiled(evs, h, old)
<1>1. /\ v.entities = CompileEntities(evs, g, old)
      /\ v.registry = CompileRegistry(evs, g)
      /\ v.decisions = CompileDecisions(evs, g, old)
      /\ v.risks = CompileRisks(evs, g, here.tools, old)
      /\ v.insights = CompileInsights(here.found, old)
      /\ v.intel = CompileIntel(here.found, old)
      /\ v.checklist = here.tools
      /\ v.patterns = CompilePatterns(evs, old)
      /\ Fields(v)
  BY DEF Compiled, Fields
<1> HIDE DEF v, g, here
<1>2. v.entities = CompileEntities(evs, g, v)
  BY <1>1, OverAgain DEF CompileEntities
<1>3. v.decisions = CompileDecisions(evs, g, v)
  <2> DEFINE a == AutoDecisions(g)
             ds == CollectedDecisions(evs)
             w == [k \in {ds[i].key : i \in DOMAIN ds} |->
                     ds[Max({i \in DOMAIN ds : ds[i].key = k})].text]
  <2>1. \A was : CompileDecisions(evs, g, was) = Over(a, Over(w, was.decisions))
    BY DEF CompileDecisions, Written
  <2> HIDE DEF a, ds, w
  <2> QED BY <1>1, <2>1, OverTwice
<1>4. v.risks = CompileRisks(evs, g, here.tools, v)
  BY <1>1 DEF CompileRisks
<1>5. v.insights = CompileInsights(here.found, v)
  BY <1>1 DEF CompileInsights
<1>6. v.intel = CompileIntel(here.found, v)
  BY <1>1 DEF CompileIntel
<1>7. v.patterns = CompilePatterns(evs, v)
  BY <1>1 DEF CompilePatterns
<1>8. Stands(evs, h, v)
  BY <1>1, <1>2, <1>3, <1>4, <1>5, <1>6, <1>7 DEF Stands, g, here
<1> QED BY <1>1, <1>8 DEF v

\* A sequence with a member more has the same ones at places it had.
LEMMA PickedLonger ==
  ASSUME NEW S, NEW s \in Seq(S), NEW e \in S, NEW P \in SUBSET (1..Len(s))
  PROVE  Picked(Append(s, e), P) = Picked(s, P)
<1> DEFINE Place(k) == CHOOSE i \in P : Cardinality({j \in P : j <= i}) = k
           t == Append(s, e)
<1>1. Len(s) \in Nat /\ \A i \in 1..Len(s) : t[i] = s[i]
  OBVIOUS
<1>2. ASSUME NEW k \in 1..Cardinality(P)  PROVE t[Place(k)] = s[Place(k)]
  <2>1. \E i \in P : Cardinality({j \in P : j <= i}) = k
    BY <1>1, RankExists
  <2>2. Place(k) \in P
    BY <2>1
  <2> QED BY <1>1, <2>2
<1> HIDE DEF t
<1>3. /\ Picked(s, P) = [k \in 1..Cardinality(P) |-> s[Place(k)]]
      /\ Picked(t, P) = [k \in 1..Cardinality(P) |-> t[Place(k)]]
  BY DEF Picked
<1> HIDE DEF Place
<1>4. Picked(t, P) = Picked(s, P)
  BY <1>2, <1>3
<1> QED BY <1>4 DEF t

\* The kinds of events that the compiler reads.
Compilable == {"entity", "fact", "decision", "error", "touch"}
Alike(evs, evs2) == \A k \in Compilable : Of(evs, k) = Of(evs2, k)

\* The line a rebuild adds is of no kind the compiler reads.
LEMMA RebuiltUnread ==
  ASSUME NEW lines \in Seq(Lines)  PROVE Alike(With(lines, Rebuilt), lines)
<1> DEFINE t == Append(lines, Rebuilt)
<1>1. Rebuilt \in Lines /\ Rebuilt.kind = "rebuilt"
  BY OtherKinds DEF Lines
<1>2. ASSUME NEW k \in Compilable  PROVE Of(t, k) = Of(lines, k)
  <2> DEFINE P == {i \in DOMAIN lines : lines[i].kind = k}
             Q == {i \in DOMAIN t : t[i].kind = k}
  <2>1. /\ Len(lines) \in Nat /\ DOMAIN lines = 1..Len(lines)
        /\ t \in Seq(Lines) /\ DOMAIN t = 1..(Len(lines) + 1)
        /\ \A i \in 1..Len(lines) : t[i] = lines[i]
        /\ t[Len(lines) + 1] = Rebuilt
    BY <1>1
  <2>2. k # "rebuilt"
    BY DEF Compilable
  <2> HIDE DEF t
  <2>3. \A i \in DOMAIN t : i \in DOMAIN lines \/ i = Len(lines) + 1
    BY <2>1
  <2>4. DOMAIN lines \subseteq DOMAIN t
    BY <2>1
  <2>5. \A i \in DOMAIN t : t[i].kind = k <=> i \in DOMAIN lines /\ lines[i].kind = k
    BY <1>1, <2>1, <2>2, <2>3
  <2>6. Q = P
    BY <2>4, <2>5
  <2>7. P \in SUBSET (1..Len(lines))
    BY <2>1
  <2> HIDE DEF P, Q
  <2>8. Picked(t, P) = Picked(lines, P)
    BY <1>1, <2>7, PickedLonger DEF t
  <2> QED BY <2>6, <2>8 DEF Of, P, Q
<1>3. With(lines, Rebuilt) = lines \/ With(lines, Rebuilt) = t
  BY DEF With
<1> QED BY <1>2, <1>3 DEF Alike

\* Logs that are alike are compiled alike.
LEMMA AlikeStands ==
  ASSUME NEW evs, NEW evs2, Alike(evs2, evs), NEW h, NEW v, Stands(evs, h, v)
  PROVE  Stands(evs2, h, v)
<1>1. /\ Of(evs2, "entity") = Of(evs, "entity") /\ Of(evs2, "fact") = Of(evs, "fact")
      /\ Of(evs2, "decision") = Of(evs, "decision") /\ Of(evs2, "error") = Of(evs, "error")
      /\ Of(evs2, "touch") = Of(evs, "touch")
  BY DEF Alike, Compilable
<1>2. /\ CollectedEntities(evs2) = CollectedEntities(evs)
      /\ CollectedFacts(evs2) = CollectedFacts(evs)
      /\ CollectedDecisions(evs2) = CollectedDecisions(evs)
      /\ ErrorPatterns(evs2) = ErrorPatterns(evs)
      /\ Touches(evs2) = Touches(evs)
  BY <1>1 DEF CollectedEntities, CollectedFacts, CollectedDecisions, ErrorPatterns, Touches
<1>3. \A g : /\ CompileEntities(evs2, g, v) = CompileEntities(evs, g, v)
             /\ CompileRegistry(evs2, g) = CompileRegistry(evs, g)
             /\ CompileDecisions(evs2, g, v) = CompileDecisions(evs, g, v)
             /\ \A tools : CompileRisks(evs2, g, tools, v) = CompileRisks(evs, g, tools, v)
  BY <1>2 DEF CompileEntities, CompileRegistry, CompileDecisions, CompileRisks, Risks
<1>4. CompilePatterns(evs2, v) = CompilePatterns(evs, v)
  BY <1>2 DEF CompilePatterns
<1> QED BY <1>3, <1>4 DEF Stands

\* The page of lessons is not compiled, and has no part in it.
LEMMA LessonsApart ==
  ASSUME NEW evs, NEW h, NEW v, Fields(v), Stands(evs, h, v), NEW ls
  PROVE  LET w == [v EXCEPT !.lessons = ls] IN Fields(w) /\ Stands(evs, h, w)
<1> DEFINE w == [v EXCEPT !.lessons = ls]
<1>1. w = [entities |-> v.entities, registry |-> v.registry, decisions |-> v.decisions,
           risks |-> v.risks, insights |-> v.insights, intel |-> v.intel,
           checklist |-> v.checklist, patterns |-> v.patterns, stats |-> v.stats,
           lessons |-> ls]
  BY DEF Fields
<1> HIDE DEF w
<1>2. /\ w.entities = v.entities /\ w.registry = v.registry /\ w.decisions = v.decisions
      /\ w.risks = v.risks /\ w.insights = v.insights /\ w.intel = v.intel
      /\ w.checklist = v.checklist /\ w.patterns = v.patterns
  BY <1>1
<1>3. Fields(w)
  BY <1>1 DEF Fields
<1>4. \A g : /\ CompileEntities(evs, g, w) = CompileEntities(evs, g, v)
             /\ CompileDecisions(evs, g, w) = CompileDecisions(evs, g, v)
             /\ \A tools : CompileRisks(evs, g, tools, w) = CompileRisks(evs, g, tools, v)
  BY <1>2 DEF CompileEntities, CompileDecisions, CompileRisks
<1>5. /\ CompilePatterns(evs, w) = CompilePatterns(evs, v)
      /\ \A found : /\ CompileInsights(found, w) = CompileInsights(found, v)
                    /\ CompileIntel(found, w) = CompileIntel(found, v)
  BY <1>2 DEF CompilePatterns, CompileInsights, CompileIntel
<1>6. Stands(evs, h, w)
  BY <1>2, <1>4, <1>5 DEF Stands
<1> QED BY <1>3, <1>6 DEF w

\* What a rebuild would read of the commits now.
Now == Reading(history, dirty)
\* Once the views come from the log, the commits and the working tree, they are what a
\* rebuild makes of them.
ViewsInv == settled => Fields(views) /\ Stands(log, Now, views)

\* A step that writes none of what the pages come from.
LEMMA ViewsStay ==
  ASSUME ViewsInv, UNCHANGED <<log, views>>, settled' => settled /\ UNCHANGED Now
  PROVE  ViewsInv'
BY DEF ViewsInv

\* A step of an engine.
LEMMA WorkKeepsViews ==
  ASSUME ViewsInv, EngineInv, RoomInv, NEW p \in Procs, Work(p)  PROVE ViewsInv'
<1>1. EngineStep(p) /\ Settles(p)
  BY DEF Work
<1>2. CASE Compile(p)
  <2>1. /\ views' = Compiled(at[p].evs, at[p].seen, views) /\ UNCHANGED <<log, history>>
        /\ settled' => at[p].evs = log /\ at[p].seen = Reading(history, dirty')
    <3>1. at[p].pc = "compile"
      BY <1>2 DEF Compile, In
    <3>2. settled' => at[p].evs = log /\ at[p].seen = Reading(history, dirty')
      BY <1>1, <3>1 DEF Settles, In
    <3> QED BY <1>2, <3>2 DEF Compile, files
  <2>2. SUFFICES ASSUME settled'  PROVE Fields(views') /\ Stands(log, Now', views')
    BY <2>1 DEF ViewsInv
  <2>3. at[p].seen = Now'
    BY <2>1, <2>2 DEF Now
  <2>4. views' = Compiled(log, Now', views)
    BY <2>1, <2>2, <2>3
  <2> QED BY <2>4, CompiledStands
<1>3. CASE AppendGlobal(p) \/ Update(p)
  <2>1. In(p, "append") \/ In(p, "update")
    BY <1>3 DEF AppendGlobal, Update
  <2>2. ~In(p, "compile")
    BY <2>1 DEF In
  <2>3. settled' = FALSE
    BY <1>1, <2>1, <2>2 DEF Settles
  <2> QED BY <2>3 DEF ViewsInv
<1>4. ASSUME at[p].pc \notin {"compile", "append", "update"}, UNCHANGED history
      PROVE  settled' => settled /\ UNCHANGED Now
  <2>1. settled' = (settled /\ Unsoiled)
    BY <1>1, <1>4 DEF Settles, In
  <2>2. Unsoiled => UNCHANGED Now
    BY <1>4 DEF Unsoiled, Now
  <2> QED BY <2>1, <2>2
<1>5. CASE AppendRebuilt(p)
  <2>1. /\ at[p].pc = "rebuilt" /\ log' = With(log, Rebuilt) /\ UNCHANGED <<views, history>>
    BY <1>5 DEF AppendRebuilt, In
  <2>2. settled' => settled /\ UNCHANGED Now
    BY <1>4, <2>1
  <2>3. Alike(log', log)
    BY <2>1, RebuiltUnread DEF EngineInv
  <2>4. SUFFICES ASSUME settled, UNCHANGED Now  PROVE Fields(views) /\ Stands(log', Now, views)
    BY <2>1, <2>2 DEF ViewsInv
  <2> QED BY <2>3, <2>4, AlikeStands DEF ViewsInv
<1>6. CASE WriteLessons(p)
  <2>1. /\ at[p].pc = "writeLessons" /\ views' = [views EXCEPT !.lessons = at[p].evs]
        /\ UNCHANGED <<log, history>>
    BY <1>6 DEF WriteLessons, In, files
  <2>2. settled' => settled /\ UNCHANGED Now
    BY <1>4, <2>1
  <2>3. SUFFICES ASSUME settled, UNCHANGED Now  PROVE Fields(views') /\ Stands(log, Now, views')
    BY <2>1, <2>2 DEF ViewsInv
  <2> QED BY <2>1, <2>3, LessonsApart DEF ViewsInv
<1>7. CASE AppendIssue(p) \/ Read(p) \/ ReadFails(p) \/ Discover(p) \/ ReadLessons(p)
  <2>1. /\ at[p].pc \in {"appendIssue", "rebuild", "lessons", "discover"}
        /\ UNCHANGED <<log, history, views>>
    BY <1>7 DEF AppendIssue, Read, ReadFails, Discover, ReadLessons, In, files, project
  <2>2. settled' => settled /\ UNCHANGED Now
    BY <1>4, <2>1
  <2> QED BY <2>1, <2>2, ViewsStay
<1> QED BY <1>1, <1>2, <1>3, <1>5, <1>6, <1>7 DEF EngineStep

\* Any step: no interleaving leaves pages that only seem to come from the log.
LEMMA ViewsKept == IInv /\ ViewsInv /\ [Next]_vars => ViewsInv'
<1> SUFFICES ASSUME IInv, ViewsInv, [Next]_vars  PROVE ViewsInv'
  OBVIOUS
<1>1. ASSUME UNCHANGED knowledge, UNCHANGED settled  PROVE ViewsInv'
  BY <1>1, ViewsStay DEF knowledge, Now
<1>2. CASE Commits1
  BY <1>2 DEF Commits1, ViewsInv
<1>3. ASSUME NEW p \in Procs, Work(p)  PROVE ViewsInv'
  BY <1>3, WorkKeepsViews DEF IInv
<1>4. ASSUME NEW p \in Procs, Paper(p) \/ CallsTruth(p)  PROVE ViewsInv'
  BY <1>1, <1>4 DEF Paper, CallsTruth
<1>5. ASSUME NEW p \in Procs, CallsEngine(p)  PROVE ViewsInv'
  <2>1. UNCHANGED <<log, views, settled>> /\ UNCHANGED Now
    BY <1>5 DEF CallsEngine, CallRebuild, Record, files, project, Now
  <2> QED BY <2>1, ViewsStay
<1>6. ASSUME NEW p \in Procs, Crash(p)  PROVE ViewsInv'
  <2>1. settled' = (settled /\ log' = log /\ Unsoiled) /\ UNCHANGED <<views, history>>
    BY <1>6 DEF Crash, Die
  <2>2. Unsoiled => UNCHANGED Now
    BY <2>1 DEF Unsoiled, Now
  <2> QED BY <2>1, <2>2 DEF ViewsInv
<1>7. CASE Edits
  <2>1. settled' = (settled /\ Unsoiled) /\ UNCHANGED <<log, views, history>>
    BY <1>7 DEF Edits, Edit, files
  <2>2. Unsoiled => UNCHANGED Now
    BY <2>1 DEF Unsoiled, Now
  <2> QED BY <2>1, <2>2, ViewsStay
<1>8. CASE UNCHANGED vars
  BY <1>1, <1>8 DEF vars
<1> QED BY <1>2, <1>3, <1>4, <1>5, <1>6, <1>7, <1>8 DEF Next

\* For every log, history, working tree and project: once the views come from the log, the
\* commits and the working tree as they are, a rebuild changes nothing but the number of
\* events read, however often it is repeated and by whom, and whatever pages were there
\* before (compiler.py rebuild).
THEOREM RebuildIsIdempotent == Spec => []IdempotentRebuild
<1>1. LearningInit => ViewsInv
  BY DEF LearningInit, ViewsInv
<1>2. Spec => []ViewsInv
  BY <1>1, ViewsKept, Invariant, PTL DEF Spec
<1>3. ViewsInv => IdempotentRebuild
  BY StandsAgain DEF ViewsInv, IdempotentRebuild, Now
<1> QED BY <1>2, <1>3, PTL

(***************************************************************************)
(* Finite sets, and the least of some numbers.                             *)
(***************************************************************************)
LEMMA RangeFinite ==
  ASSUME NEW S, IsFiniteSet(S), NEW f, NEW T, \A t \in T : \E x \in S : f[x] = t
  PROVE  IsFiniteSet(T)
<1> DEFINE U == {x \in S : f[x] \in T}
           g == [x \in U |-> f[x]]
<1>1. IsFiniteSet(U)
  BY FS_Subset
<1>2. g \in Surjection(U, T)
  BY DEF Surjection
<1> HIDE DEF U, g
<1> QED BY <1>1, <1>2, FS_Surjection

\* The least of some numbers is one of them.
LEMMA LeastOf ==
  ASSUME NEW n \in Nat, NEW P \in SUBSET (1..n), P # {}
  PROVE  Min(P) \in P /\ \A i \in P : Min(P) <= i
<1>1. IsFiniteSet(P) /\ Cardinality(P) \in Nat /\ Cardinality(P) # 0
  <2>1. 1 \in Int /\ n \in Int
    OBVIOUS
  <2>2. IsFiniteSet(1..n)
    BY <2>1, FS_Interval
  <2> QED BY <2>2, FS_Subset, FS_CardinalityType, FS_EmptySet
<1>2. 1 \in 1..Cardinality(P)
  BY <1>1
<1>3. PICK m \in P : Cardinality({j \in P : j <= m}) = 1
  BY <1>2, RankExists
<1>4. ASSUME NEW i \in P  PROVE m <= i
  <2>1. IsFiniteSet({j \in P : j <= m})
    BY <1>1, FS_Subset
  <2>2. PICK x : {j \in P : j <= m} = {x}
    BY <1>3, <2>1, FS_Singleton
  <2>3. m \in Int /\ i \in Int
    OBVIOUS
  <2>4. m \in {j \in P : j <= m}
    BY <2>3
  <2>5. i <= m => i = m
    BY <2>2, <2>4
  <2> QED BY <2>3, <2>5
<1>5. \E x \in P : \A y \in P : x <= y
  BY <1>4
<1> QED BY <1>5 DEF Min

(***************************************************************************)
(* Of some things in a strict order, n have fewer than n before them.      *)
(***************************************************************************)
StrictOrder(A, Less) ==
  /\ \A x \in A : <<x, x>> \notin Less
  /\ \A x, y, z \in A : <<x, y>> \in Less /\ <<y, z>> \in Less => <<x, z>> \in Less
  /\ \A x, y \in A : x = y \/ <<x, y>> \in Less \/ <<y, x>> \in Less
Before(A, Less, x) == {y \in A : <<y, x>> \in Less}
FirstOf(A, Less, n) == {x \in A : Cardinality(Before(A, Less, x)) < n}

\* Who comes later has more before him, and never everyone.
LEMMA RanksGrow ==
  ASSUME NEW A, IsFiniteSet(A), NEW Less, StrictOrder(A, Less)
  PROVE  /\ \A x \in A : Cardinality(Before(A, Less, x)) \in 0..(Cardinality(A) - 1)
         /\ \A x, y \in A : <<x, y>> \in Less =>
               Cardinality(Before(A, Less, x)) < Cardinality(Before(A, Less, y))
<1>1. Cardinality(A) \in Nat
  BY FS_CardinalityType
<1>2. ASSUME NEW x \in A
      PROVE  /\ IsFiniteSet(Before(A, Less, x)) /\ Cardinality(Before(A, Less, x)) \in Nat
             /\ Cardinality(Before(A, Less, x)) < Cardinality(A)
  <2>1. Before(A, Less, x) \in SUBSET A /\ x \notin Before(A, Less, x)
    BY DEF Before, StrictOrder
  <2>2. /\ IsFiniteSet(Before(A, Less, x))
        /\ Cardinality(Before(A, Less, x)) <= Cardinality(A)
        /\ Cardinality(A) = Cardinality(Before(A, Less, x)) => A = Before(A, Less, x)
    BY <2>1, FS_Subset
  <2>3. Cardinality(Before(A, Less, x)) \in Nat
    BY <2>2, FS_CardinalityType
  <2> QED BY <1>1, <2>1, <2>2, <2>3
<1>3. ASSUME NEW x \in A, NEW y \in A, <<x, y>> \in Less
      PROVE  Cardinality(Before(A, Less, x)) < Cardinality(Before(A, Less, y))
  <2>1. /\ Before(A, Less, x) \in SUBSET Before(A, Less, y)
        /\ x \in Before(A, Less, y) /\ x \notin Before(A, Less, x)
    BY <1>3 DEF Before, StrictOrder
  <2>2. /\ Cardinality(Before(A, Less, x)) <= Cardinality(Before(A, Less, y))
        /\ Cardinality(Before(A, Less, y)) = Cardinality(Before(A, Less, x))
             => Before(A, Less, y) = Before(A, Less, x)
    BY <1>2, <2>1, FS_Subset
  <2>3. /\ Cardinality(Before(A, Less, x)) \in Nat
        /\ Cardinality(Before(A, Less, y)) \in Nat
    BY <1>2
  <2> QED BY <2>1, <2>2, <2>3
<1> QED BY <1>1, <1>2, <1>3

\* Where there are n at all, n of them have fewer than n before them.
LEMMA FirstAreMany ==
  ASSUME NEW A, IsFiniteSet(A), NEW Less, StrictOrder(A, Less),
         NEW n \in Nat, n <= Cardinality(A)
  PROVE  IsFiniteSet(FirstOf(A, Less, n)) /\ Cardinality(FirstOf(A, Less, n)) >= n
<1> DEFINE c == Cardinality(A)
           rank == [x \in A |-> Cardinality(Before(A, Less, x))]
           B == FirstOf(A, Less, n)
           g == [k \in 0..(n - 1) |-> CHOOSE x \in A : rank[x] = k]
<1>1. c \in Nat
  BY FS_CardinalityType
<1>2. rank \in [A -> 0..(c - 1)]
  BY RanksGrow
<1>3. \A x, y \in A : x = y \/ rank[x] < rank[y] \/ rank[y] < rank[x]
  BY RanksGrow DEF StrictOrder
<1>4. B = {x \in A : rank[x] < n}
  BY DEF FirstOf
<1> HIDE DEF rank, B
<1>5. rank \in Injection(A, 0..(c - 1))
  <2>1. \A x, y \in A : rank[x] = rank[y] => x = y
    BY <1>1, <1>2, <1>3
  <2> QED BY <1>2, <2>1 DEF Injection, IsInjective
<1>6. IsFiniteSet(0..(c - 1)) /\ Cardinality(0..(c - 1)) = c
  <2>1. 0 \in Int /\ c - 1 \in Int
    BY <1>1
  <2> QED BY <1>1, <2>1, FS_Interval
<1>7. rank \in Surjection(A, 0..(c - 1))
  BY <1>5, <1>6, FS_Injection
<1>8. ASSUME NEW k \in 0..(n - 1)  PROVE g[k] \in A /\ rank[g[k]] = k
  <2>1. k \in 0..(c - 1)
    BY <1>1
  <2>2. \E x \in A : rank[x] = k
    BY <1>7, <2>1 DEF Surjection
  <2> QED BY <2>2
<1>9. g \in Injection(0..(n - 1), B)
  <2>1. g = [k \in 0..(n - 1) |-> g[k]]
    OBVIOUS
  <2> HIDE DEF g
  <2>2. \A k \in 0..(n - 1) : g[k] \in B
    BY <1>4, <1>8
  <2>3. \A k, m \in 0..(n - 1) : g[k] = g[m] => k = m
    BY <1>8
  <2> QED BY <2>1, <2>2, <2>3 DEF Injection, IsInjective
<1> HIDE DEF g
<1>10. IsFiniteSet(B)
  BY <1>4, FS_Subset
<1>11. Cardinality(0..(n - 1)) = n
  <2>1. 0 \in Int /\ n - 1 \in Int
    OBVIOUS
  <2> QED BY <2>1, FS_Interval
<1>12. Cardinality(0..(n - 1)) <= Cardinality(B)
  BY <1>9, <1>10, FS_Injection
<1>13. Cardinality(B) \in Nat
  BY <1>10, FS_CardinalityType
<1> QED BY <1>10, <1>11, <1>12, <1>13 DEF B

(***************************************************************************)
(* The ranking of results.                                                 *)
(***************************************************************************)
KindSet == {"entity", "fact", "decision", "event", "error_pattern", "file"}
PlaceOf(k) == CHOOSE i \in DOMAIN Kinds : Kinds[i] = k

\* The kinds of results are searched at different places.
LEMMA PlacesDiffer ==
  /\ \A k \in KindSet : PlaceOf(k) \in 1..6
  /\ \A k, m \in KindSet : PlaceOf(k) = PlaceOf(m) => k = m
<1>1. \A k \in KindSet : \E i \in DOMAIN Kinds : Kinds[i] = k
  <2>1. /\ DOMAIN Kinds = 1..6
        /\ Kinds[1] = "entity" /\ Kinds[2] = "fact" /\ Kinds[3] = "decision"
        /\ Kinds[4] = "event" /\ Kinds[5] = "error_pattern" /\ Kinds[6] = "file"
    BY DEF Kinds
  <2> QED BY <2>1 DEF KindSet
<1>2. \A k \in KindSet : PlaceOf(k) \in DOMAIN Kinds /\ Kinds[PlaceOf(k)] = k
  BY <1>1 DEF PlaceOf
<1>3. DOMAIN Kinds = 1..6
  BY DEF Kinds
<1> QED BY <1>2, <1>3

\* Results that can be ranked: those of a kind differ by where they were met.
Ranked(rs) ==
  /\ \A r \in rs : r.fit \in Int /\ r.at \in Int /\ r.kind \in KindSet
  /\ \A r, q \in rs : r.kind = q.kind /\ r.at = q.at => r = q

\* The order of two results, with their places named.
LEMMA AheadIs ==
  ASSUME NEW r, NEW q
  PROVE  Ahead(r, q) <=> \/ r.fit > q.fit
                         \/ r.fit = q.fit /\ PlaceOf(r.kind) < PlaceOf(q.kind)
                         \/ r.fit = q.fit /\ PlaceOf(r.kind) = PlaceOf(q.kind) /\ r.at < q.at
BY DEF Ahead, PlaceOf

Precedes(rs) == {x \in rs \X rs : Ahead(x[1], x[2])}

\* Results that can be ranked are strictly ordered.
LEMMA AheadOrders ==
  ASSUME NEW rs, Ranked(rs), NEW A \in SUBSET rs
  PROVE  StrictOrder(A, Precedes(rs))
<1>1. \A x, y \in A : <<x, y>> \in Precedes(rs) <=> Ahead(x, y)
  BY DEF Precedes
<1>2. \A x \in A : x.fit \in Int /\ x.at \in Int /\ PlaceOf(x.kind) \in 1..6
  BY PlacesDiffer DEF Ranked
<1>3. \A x, y \in A : PlaceOf(x.kind) = PlaceOf(y.kind) /\ x.at = y.at => x = y
  BY PlacesDiffer DEF Ranked
<1>4. \A x \in A : ~Ahead(x, x)
  BY <1>2, AheadIs
<1>5. \A x, y, z \in A : Ahead(x, y) /\ Ahead(y, z) => Ahead(x, z)
  BY <1>2, AheadIs
<1>6. \A x, y \in A : x = y \/ Ahead(x, y) \/ Ahead(y, x)
  BY <1>2, <1>3, AheadIs
<1> QED BY <1>1, <1>4, <1>5, <1>6 DEF StrictOrder

\* A result that fits is among the best, or as many are that fit no worse.
LEMMA BestIsFull ==
  ASSUME NEW rs, IsFiniteSet(rs), Ranked(rs), NEW n \in Nat,
         NEW q \in rs, q.fit > 0, q \notin Best(rs, n)
  PROVE  /\ IsFiniteSet({r \in Best(rs, n) : r.fit >= q.fit})
         /\ Cardinality({r \in Best(rs, n) : r.fit >= q.fit}) >= n
<1> DEFINE A == {r \in rs : Ahead(r, q)}
           Less == Precedes(rs)
           B == {r \in Best(rs, n) : r.fit >= q.fit}
<1>1. IsFiniteSet(A) /\ StrictOrder(A, Less)
  BY FS_Subset, AheadOrders
<1>2. n <= Cardinality(A)
  <2>1. ~(Cardinality(A) < n)
    BY DEF Best
  <2>2. Cardinality(A) \in Nat
    BY <1>1, FS_CardinalityType
  <2> QED BY <2>1, <2>2
<1>3. \A r \in A : r \in rs /\ r.fit \in Int /\ q.fit \in Int /\ r.fit >= q.fit
  BY AheadIs DEF Ranked
<1>4. ASSUME NEW x \in A  PROVE {r \in rs : Ahead(r, x)} = Before(A, Less, x)
  <2>1. StrictOrder(rs, Less) /\ q \in rs /\ x \in rs /\ <<x, q>> \in Less
    BY AheadOrders DEF Precedes
  <2>2. \A r \in rs : Ahead(r, x) => Ahead(r, q)
    <3>1. \A r, s \in rs : <<r, s>> \in Less <=> Ahead(r, s)
      BY DEF Precedes
    <3> QED BY <2>1, <3>1 DEF StrictOrder
  <2>3. \A r \in rs : <<r, x>> \in Less <=> Ahead(r, x)
    BY DEF Precedes
  <2> QED BY <2>2, <2>3 DEF Before
<1> HIDE DEF A, Less
<1>5. ASSUME NEW x \in FirstOf(A, Less, n)  PROVE x \in B
  <2>1. x \in A /\ Cardinality(Before(A, Less, x)) < n
    BY DEF FirstOf
  <2>2. x.fit > 0
    BY <1>3, <2>1
  <2>3. Cardinality({r \in rs : Ahead(r, x)}) < n
    BY <1>4, <2>1
  <2> QED BY <1>3, <2>1, <2>2, <2>3 DEF Best
<1>6. IsFiniteSet(B)
  <2>1. B \in SUBSET rs
    BY DEF Best
  <2> HIDE DEF B
  <2> QED BY <2>1, FS_Subset
<1>7. FirstOf(A, Less, n) \in SUBSET B
  BY <1>5
<1> HIDE DEF B
<1>8. Cardinality(FirstOf(A, Less, n)) <= Cardinality(B)
  BY <1>6, <1>7, FS_Subset
<1>9. /\ Cardinality(FirstOf(A, Less, n)) >= n
      /\ Cardinality(FirstOf(A, Less, n)) \in Nat /\ Cardinality(B) \in Nat
  BY <1>1, <1>2, <1>6, FirstAreMany, FS_CardinalityType
<1>10. IsFiniteSet(B) /\ Cardinality(B) >= n
  BY <1>6, <1>8, <1>9
<1> QED BY <1>10 DEF B

(***************************************************************************)
(* What is collected of some events.                                       *)
(***************************************************************************)
LEMMA OfMembers ==
  ASSUME NEW S, NEW evs \in Seq(S), NEW kind
  PROVE  /\ IsFiniteSet(DOMAIN Of(evs, kind))
         /\ \A k \in DOMAIN Of(evs, kind) :
               \E i \in 1..Len(evs) : evs[i].kind = kind /\ Of(evs, kind)[k] = evs[i]
<1> DEFINE P == {i \in DOMAIN evs : evs[i].kind = kind}
           Place(k) == CHOOSE i \in P : Cardinality({j \in P : j <= i}) = k
<1>1. Len(evs) \in Nat /\ DOMAIN evs = 1..Len(evs) /\ P \in SUBSET (1..Len(evs))
  OBVIOUS
<1>2. Cardinality(P) \in Nat
  <2>1. 1 \in Int /\ Len(evs) \in Int
    BY <1>1
  <2>2. IsFiniteSet(1..Len(evs))
    BY <2>1, FS_Interval
  <2> QED BY <2>2, <1>1, FS_Subset, FS_CardinalityType
<1>3. IsFiniteSet(1..Cardinality(P))
  <2>1. 1 \in Int /\ Cardinality(P) \in Int
    BY <1>2
  <2> QED BY <2>1, FS_Interval
<1>4. ASSUME NEW k \in 1..Cardinality(P)  PROVE Place(k) \in P
  <2>1. \E i \in P : Cardinality({j \in P : j <= i}) = k
    BY <1>1, RankExists
  <2> QED BY <2>1
<1>5. Of(evs, kind) = [k \in 1..Cardinality(P) |-> evs[Place(k)]]
  BY DEF Of, Picked
<1> HIDE DEF Place
<1>6. \A k \in 1..Cardinality(P) : Place(k) \in 1..Len(evs) /\ evs[Place(k)].kind = kind
  BY <1>1, <1>4
<1> QED BY <1>3, <1>5, <1>6

\* Finitely many events have finitely many names.
LEMMA NamedFinite ==
  ASSUME NEW evs, IsFiniteSet(DOMAIN evs)  PROVE IsFiniteSet(Named(evs))
<1> DEFINE f == [i \in DOMAIN evs |-> evs[i].name]
<1>1. \A n \in Named(evs) : \E i \in DOMAIN evs : f[i] = n
  BY DEF Named
<1> HIDE DEF f
<1> QED BY <1>1, RangeFinite

\* Finitely many pages over finitely many are finitely many.
LEMMA OverFinite ==
  ASSUME NEW f, NEW g, IsFiniteSet(DOMAIN f), IsFiniteSet(DOMAIN g)
  PROVE  IsFiniteSet(DOMAIN Over(f, g))
<1>1. DOMAIN Over(f, g) = DOMAIN f \cup DOMAIN g
  BY DEF Over
<1>2. IsFiniteSet(DOMAIN f \cup DOMAIN g)
  BY FS_Union
<1> QED BY <1>1, <1>2

\* What is collected from a log are finitely many pages.
LEMMA CollectedFinite ==
  ASSUME NEW S, NEW evs \in Seq(S)
  PROVE  /\ IsFiniteSet(DOMAIN CollectedEntities(evs))
         /\ \A old : IsFiniteSet(DOMAIN old)
                => IsFiniteSet(DOMAIN Written(CollectedDecisions(evs), old))
<1>1. IsFiniteSet(DOMAIN CollectedEntities(evs))
  <2>1. DOMAIN CollectedEntities(evs) = Named(Of(evs, "entity"))
    BY DEF CollectedEntities
  <2> QED BY <2>1, OfMembers, NamedFinite
<1>2. ASSUME NEW old, IsFiniteSet(DOMAIN old)
      PROVE  IsFiniteSet(DOMAIN Written(CollectedDecisions(evs), old))
  <2> DEFINE ds == CollectedDecisions(evs)
             f == [i \in DOMAIN ds |-> ds[i].key]
             K == {ds[i].key : i \in DOMAIN ds}
             w == [k \in K |-> ds[Max({i \in DOMAIN ds : ds[i].key = k})].text]
  <2>1. DOMAIN ds = DOMAIN Of(evs, "decision")
    BY DEF CollectedDecisions
  <2>2. IsFiniteSet(DOMAIN ds)
    BY <2>1, OfMembers
  <2>3. Written(ds, old) = Over(w, old)
    BY DEF Written
  <2> HIDE DEF ds
  <2>4. IsFiniteSet(K)
    <3>1. \A k \in K : \E i \in DOMAIN ds : f[i] = k
      OBVIOUS
    <3> HIDE DEF f, K
    <3> QED BY <2>2, <3>1, RangeFinite
  <2>5. DOMAIN w = K
    OBVIOUS
  <2> HIDE DEF w, K
  <2>6. IsFiniteSet(DOMAIN Written(ds, old))
    BY <1>2, <2>3, <2>4, <2>5, OverFinite
  <2> QED BY <2>6 DEF ds
<1> QED BY <1>1, <1>2

\* The commits that look like a decision are finitely many.
LEMMA AutoFinite ==
  ASSUME NEW S, NEW h \in Seq(S)  PROVE IsFiniteSet(DOMAIN AutoDecisions(Profile(h)))
<1> DEFINE g == Profile(h)
           telling == {c \in g.architectural :
                         c.type \in {"dependency_change", "refactor", "breaking_change", "restructuring"}}
           f == [i \in DOMAIN h |-> <<"auto", h[i].id>>]
<1>1. g.architectural = Architectural(h)
  BY DEF Profile
<1>2. \A c \in Architectural(h) : \E i \in DOMAIN h : c.commit = h[i].id
  BY DEF Architectural
<1> HIDE DEF g
<1>3. DOMAIN AutoDecisions(g) = {<<"auto", c.commit>> : c \in telling}
  BY DEF AutoDecisions
<1>4. \A k \in DOMAIN AutoDecisions(g) : \E i \in DOMAIN h : f[i] = k
  BY <1>1, <1>2, <1>3
<1>5. IsFiniteSet(DOMAIN h)
  <2>1. 1 \in Int /\ Len(h) \in Int /\ DOMAIN h = 1..Len(h)
    OBVIOUS
  <2> QED BY <2>1, FS_Interval
<1> HIDE DEF f
<1>6. IsFiniteSet(DOMAIN AutoDecisions(g))
  BY <1>4, <1>5, RangeFinite
<1> QED BY <1>6 DEF g

(***************************************************************************)
(* The results of a search: finitely many, and those of a kind differ by   *)
(* where they were met.                                                    *)
(***************************************************************************)
OfKind(rs, k) == IsFiniteSet(rs) /\ Ranked(rs) /\ \A r \in rs : r.kind = k
\* Every name that was recorded has a score.
Scored(evs) == \A i \in DOMAIN evs : evs[i].name \in DOMAIN Scores

\* Every kind weighs something.
LEMMA WeightIs == \A k \in KindSet : Weight[k] \in Nat \ {0}
BY DEF KindSet, Weight

\* The fields of a result.
LEMMA ResultIs ==
  ASSUME NEW k, NEW n, NEW i, NEW s
  PROVE  /\ Result(k, n, i, s) = [kind |-> k, name |-> n, fit |-> Weight[k] * s, at |-> i]
         /\ Result(k, n, i, s).kind = k /\ Result(k, n, i, s).name = n
         /\ Result(k, n, i, s).fit = Weight[k] * s /\ Result(k, n, i, s).at = i
BY DEF Result

\* A score is a number.
LEMMA ScoreIs ==
  ASSUME NEW n \in DOMAIN Scores  PROVE Scores[n] \in Nat
BY SearchAssumption

\* A weighed fit is a number.
LEMMA FitIs ==
  ASSUME NEW k \in KindSet, NEW s \in Nat  PROVE Weight[k] * s \in Nat
<1>1. Weight[k] \in Nat
  BY WeightIs
<1> HIDE DEF Weight
<1> QED BY <1>1

\* One result for each name, where it was met first.
LEMMA NamedResultsAre ==
  ASSUME NEW S, NEW evs \in Seq(S), Scored(evs), NEW k \in KindSet, NEW ev
  PROVE  /\ OfKind(NamedResults(k, evs, ev), k)
         /\ \A r \in NamedResults(k, evs, ev) :
               /\ r = Result(k, r.name, r.at, Scores[r.name])
               /\ r.name \in Named(Of(evs, ev)) /\ r.name \in DOMAIN Scores
         /\ \A r, q \in NamedResults(k, evs, ev) : r.name = q.name => r = q
         /\ \A n \in Named(Of(evs, ev)) : \E r \in NamedResults(k, evs, ev) : r.name = n
<1> DEFINE At(n) == {i \in DOMAIN evs : evs[i].kind = ev /\ evs[i].name = n}
           N == Named(Of(evs, ev))
           f == [n \in N |-> Result(k, n, Min(At(n)), Scores[n])]
           R == NamedResults(k, evs, ev)
<1>1. R = {f[n] : n \in N}
  BY DEF NamedResults
<1>2. IsFiniteSet(N)
  BY OfMembers, NamedFinite
<1>3. ASSUME NEW n \in N
      PROVE  /\ Min(At(n)) \in 1..Len(evs) /\ evs[Min(At(n))].name = n
             /\ n \in DOMAIN Scores
  <2>1. PICK j \in DOMAIN Of(evs, ev) : n = Of(evs, ev)[j].name
    BY DEF Named
  <2>2. PICK i \in 1..Len(evs) : evs[i].kind = ev /\ Of(evs, ev)[j] = evs[i]
    BY <2>1, OfMembers
  <2>3. At(n) \in SUBSET (1..Len(evs)) /\ At(n) # {} /\ Len(evs) \in Nat
    BY <2>1, <2>2
  <2>4. Min(At(n)) \in At(n)
    BY <2>3, LeastOf
  <2> QED BY <2>4 DEF Scored
<1>4. ASSUME NEW n \in N
      PROVE  /\ f[n].kind = k /\ f[n].name = n /\ f[n].at = Min(At(n))
             /\ f[n].fit = Weight[k] * Scores[n] /\ f[n].fit \in Nat
             /\ f[n] = Result(k, n, f[n].at, Scores[n])
  <2>1. Weight[k] * Scores[n] \in Nat
    BY <1>3, ScoreIs, FitIs
  <2>2. f[n] = Result(k, n, Min(At(n)), Scores[n])
    OBVIOUS
  <2> HIDE DEF f, At
  <2> QED BY <2>1, <2>2, ResultIs
<1> HIDE DEF f, At, R, N
<1>5. IsFiniteSet(R)
  <2>1. \A r \in R : \E n \in N : f[n] = r
    BY <1>1
  <2> QED BY <2>1, <1>2, RangeFinite
<1>6. Ranked(R) /\ \A r \in R : r.kind = k
  <2>1. \A n \in N : Min(At(n)) \in Int
    BY <1>3
  <2>2. \A n, m \in N : f[n].at = f[m].at => n = m
    BY <1>3, <1>4
  <2> QED BY <1>1, <1>4, <2>1, <2>2 DEF Ranked
<1>7. \A r \in R : /\ r = Result(k, r.name, r.at, Scores[r.name])
                   /\ r.name \in N /\ r.name \in DOMAIN Scores
  BY <1>1, <1>3, <1>4
<1>8. \A r, q \in R : r.name = q.name => r = q
  BY <1>1, <1>4
<1>9. \A n \in N : \E r \in R : r.name = n
  BY <1>1, <1>4
<1> QED BY <1>5, <1>6, <1>7, <1>8, <1>9 DEF OfKind, R, N

\* One result for each event of some kinds.
LEMMA EventResultsAre ==
  ASSUME NEW S, NEW evs \in Seq(S), Scored(evs), NEW k \in KindSet, NEW kinds
  PROVE  /\ OfKind(EventResults(k, evs, kinds), k)
         /\ \A r \in EventResults(k, evs, kinds) :
               /\ r.at \in 1..Len(evs) /\ r.name = evs[r.at].name
               /\ r.fit = Weight[k] * Scores[r.name] /\ r.name \in DOMAIN Scores
         /\ \A i \in 1..Len(evs) : evs[i].kind \in kinds =>
               \E r \in EventResults(k, evs, kinds) : r.at = i
<1> DEFINE I == {j \in DOMAIN evs : evs[j].kind \in kinds}
           f == [i \in I |-> Result(k, evs[i].name, i, Scores[evs[i].name])]
           R == EventResults(k, evs, kinds)
<1>1. R = {f[i] : i \in I}
  BY DEF EventResults
<1>2. I \in SUBSET (1..Len(evs)) /\ Len(evs) \in Nat
  OBVIOUS
<1>3. IsFiniteSet(I)
  <2>1. 1 \in Int /\ Len(evs) \in Int
    BY <1>2
  <2>2. IsFiniteSet(1..Len(evs))
    BY <2>1, FS_Interval
  <2> QED BY <1>2, <2>2, FS_Subset
<1>4. ASSUME NEW i \in I
      PROVE  /\ f[i].kind = k /\ f[i].name = evs[i].name /\ f[i].at = i
             /\ f[i].fit = Weight[k] * Scores[evs[i].name] /\ f[i].fit \in Nat
             /\ evs[i].name \in DOMAIN Scores
  <2>1. evs[i].name \in DOMAIN Scores
    BY DEF Scored
  <2>2. Weight[k] * Scores[evs[i].name] \in Nat
    BY <2>1, ScoreIs, FitIs
  <2>3. f[i] = Result(k, evs[i].name, i, Scores[evs[i].name])
    OBVIOUS
  <2> HIDE DEF f, I
  <2> QED BY <2>1, <2>2, <2>3, ResultIs
<1>5. \A i \in 1..Len(evs) : evs[i].kind \in kinds => i \in I
  OBVIOUS
<1> HIDE DEF f, I, R
<1>6. IsFiniteSet(R)
  <2>1. \A r \in R : \E i \in I : f[i] = r
    BY <1>1
  <2> QED BY <2>1, <1>3, RangeFinite
<1>7. Ranked(R) /\ \A r \in R : r.kind = k
  <2>1. \A i \in I : i \in Int
    BY <1>2
  <2> QED BY <1>1, <1>4, <2>1 DEF Ranked
<1> QED BY <1>1, <1>2, <1>4, <1>5, <1>6, <1>7 DEF OfKind, R

\* The results for error patterns, with their frequency weighed in.
LEMMA ErrorResultsAre ==
  ASSUME NEW S, NEW evs \in Seq(S), Scored(evs)
  PROVE  OfKind(ErrorResults(evs), "error_pattern")
<1> DEFINE k == "error_pattern"
           R == NamedResults(k, evs, "error")
           D(n) == Doublings(ErrorPatterns(evs)[n])
           f == [r \in R |-> [r EXCEPT !.fit = r.fit * D(r.name)]]
           E == ErrorResults(evs)
<1>1. E = {f[r] : r \in R}
  BY DEF ErrorResults
<1>2. /\ OfKind(R, k)
      /\ \A r \in R : /\ r = Result(k, r.name, r.at, Scores[r.name])
                      /\ r.name \in Named(Of(evs, "error")) /\ r.name \in DOMAIN Scores
  BY NamedResultsAre DEF KindSet
<1>3. ASSUME NEW n \in Named(Of(evs, "error"))  PROVE D(n) \in Nat
  <2> DEFINE es == Of(evs, "error")
             c == Cardinality({i \in DOMAIN es : es[i].name = n})
  <2>1. ErrorPatterns(evs)[n] = c
    BY DEF ErrorPatterns
  <2>2. IsFiniteSet(DOMAIN es)
    BY OfMembers
  <2> HIDE DEF es
  <2>3. c \in Nat
    BY <2>2, FS_Subset, FS_CardinalityType
  <2> HIDE DEF c
  <2>4. IsFiniteSet({j \in 1..c : 2^j <= c + 1})
    <3>1. 1 \in Int /\ c \in Int
      BY <2>3
    <3>2. IsFiniteSet(1..c)
      BY <3>1, FS_Interval
    <3> QED BY <3>2, FS_Subset
  <2>5. Doublings(c) \in Nat
    BY <2>4, FS_CardinalityType DEF Doublings
  <2> QED BY <2>1, <2>5
<1> HIDE DEF R, D, E
<1>4. ASSUME NEW r \in R
      PROVE  f[r].kind = k /\ f[r].at = r.at /\ f[r].fit \in Nat
  <2>1. r = [kind |-> k, name |-> r.name, fit |-> Weight[k] * Scores[r.name], at |-> r.at]
    BY <1>2 DEF Result
  <2>2. f[r] = [r EXCEPT !.fit = r.fit * D(r.name)]
    OBVIOUS
  <2> HIDE DEF f
  <2>3. f[r] = [kind |-> k, name |-> r.name, fit |-> r.fit * D(r.name), at |-> r.at]
    BY <2>1, <2>2
  <2>4. Weight[k] * Scores[r.name] \in Nat
    BY <1>2, ScoreIs, FitIs DEF KindSet
  <2>5. r.fit = Weight[k] * Scores[r.name] /\ D(r.name) \in Nat
    BY <1>2, <1>3, ResultIs
  <2>6. r.fit * D(r.name) \in Nat
    BY <2>4, <2>5
  <2> QED BY <2>3, <2>6
<1> HIDE DEF f
<1>5. IsFiniteSet(E)
  <2>1. \A e \in E : \E r \in R : f[r] = e
    BY <1>1
  <2> QED BY <2>1, <1>2, RangeFinite DEF OfKind
<1>6. Ranked(E) /\ \A e \in E : e.kind = k
  <2>1. \A r \in R : r.at \in Int
    BY <1>2 DEF OfKind, Ranked
  <2>2. \A r, q \in R : r.at = q.at => r = q
    BY <1>2 DEF OfKind, Ranked
  <2> QED BY <1>1, <1>4, <2>1, <2>2 DEF Ranked, KindSet
<1> QED BY <1>5, <1>6 DEF OfKind, E

\* The results for pages.
LEMMA FileResultsAre ==
  ASSUME NEW v, IsFiniteSet(DOMAIN v.entities), IsFiniteSet(DOMAIN v.decisions)
  PROVE  OfKind(FileResults(v), "file")
<1> DEFINE P == DOMAIN v.entities \cup {k[2] : k \in DOMAIN v.decisions}
           pages == SetToSeq(P)
           F(i) == IF pages[i] \in DOMAIN Scores THEN Scores[pages[i]] ELSE 0
           f == [i \in DOMAIN pages |-> Result("file", pages[i], i, F(i))]
           R == FileResults(v)
<1>1. IsFiniteSet(P)
  <2> DEFINE g == [k \in DOMAIN v.decisions |-> k[2]]
  <2>1. \A n \in {k[2] : k \in DOMAIN v.decisions} : \E k \in DOMAIN v.decisions : g[k] = n
    OBVIOUS
  <2> HIDE DEF g
  <2>2. IsFiniteSet({k[2] : k \in DOMAIN v.decisions})
    BY <2>1, RangeFinite
  <2> QED BY <2>2, FS_Union
<1>2. DOMAIN pages = 1..Cardinality(P) /\ Cardinality(P) \in Nat
  <2> HIDE DEF P
  <2>1. Cardinality(P) \in Nat /\ ExistsBijection(1..Cardinality(P), P)
    BY <1>1, FS_CardinalityType
  <2>2. \E b \in [1..Cardinality(P) -> P] : IsInjective(b)
    BY <2>1 DEF ExistsBijection, Bijection, Injection
  <2>3. pages \in [1..Cardinality(P) -> P]
    BY <2>2 DEF SetToSeq
  <2> QED BY <2>1, <2>3
<1>3. R = {f[i] : i \in DOMAIN pages}
  BY DEF FileResults
<1> HIDE DEF pages, P, R
<1>4. IsFiniteSet(DOMAIN pages) /\ \A i \in DOMAIN pages : i \in Int
  <2>1. 1 \in Int /\ Cardinality(P) \in Int
    BY <1>2
  <2>2. IsFiniteSet(1..Cardinality(P))
    BY <2>1, FS_Interval
  <2> QED BY <1>2, <2>2
<1>5. ASSUME NEW i \in DOMAIN pages
      PROVE  f[i].kind = "file" /\ f[i].at = i /\ f[i].fit \in Nat
  <2>1. F(i) \in Nat
    BY ScoreIs
  <2>2. f[i] = Result("file", pages[i], i, F(i))
    OBVIOUS
  <2> HIDE DEF F, f
  <2>3. Weight["file"] * F(i) \in Nat
    BY <2>1, FitIs DEF KindSet
  <2> QED BY <2>2, <2>3, ResultIs
<1> HIDE DEF f
<1>6. IsFiniteSet(R)
  <2>1. \A r \in R : \E i \in DOMAIN pages : f[i] = r
    BY <1>3
  <2> QED BY <2>1, <1>4, RangeFinite
<1>7. Ranked(R) /\ \A r \in R : r.kind = "file"
  BY <1>3, <1>4, <1>5 DEF Ranked, KindSet
<1> QED BY <1>6, <1>7 DEF OfKind, R

\* Results of a kind that was not searched yet join the others.
LEMMA TwoKinds ==
  ASSUME NEW rs, NEW qs, IsFiniteSet(rs), IsFiniteSet(qs), Ranked(rs), Ranked(qs),
         \A r \in rs, q \in qs : r.kind # q.kind
  PROVE  IsFiniteSet(rs \cup qs) /\ Ranked(rs \cup qs)
BY FS_Union DEF Ranked

\* All that is searched.
Results(evs, v) ==
  NamedResults("entity", evs, "entity") \union EventResults("fact", evs, {"fact"})
    \union EventResults("decision", evs, {"decision"})
    \union EventResults("event", evs, {evs[i].kind : i \in DOMAIN evs})
    \union ErrorResults(evs) \union FileResults(v)

\* All the results of a search can be ranked, and those for entities have their names.
LEMMA ResultsAre ==
  ASSUME NEW S, NEW evs \in Seq(S), Scored(evs), NEW v,
         IsFiniteSet(DOMAIN v.entities), IsFiniteSet(DOMAIN v.decisions)
  PROVE  /\ IsFiniteSet(Results(evs, v)) /\ Ranked(Results(evs, v))
         /\ \A r \in Results(evs, v) :
               r.kind = "entity" => r \in NamedResults("entity", evs, "entity")
<1> DEFINE A == NamedResults("entity", evs, "entity")
           B == EventResults("fact", evs, {"fact"})
           C == EventResults("decision", evs, {"decision"})
           D == EventResults("event", evs, {evs[i].kind : i \in DOMAIN evs})
           E == ErrorResults(evs)
           F == FileResults(v)
<1>1. /\ OfKind(A, "entity") /\ OfKind(B, "fact") /\ OfKind(C, "decision")
      /\ OfKind(D, "event") /\ OfKind(E, "error_pattern") /\ OfKind(F, "file")
  BY NamedResultsAre, EventResultsAre, ErrorResultsAre, FileResultsAre DEF KindSet
<1>2. Results(evs, v) = A \cup B \cup C \cup D \cup E \cup F
  BY DEF Results
<1> HIDE DEF A, B, C, D, E, F
<1>3. IsFiniteSet(A \cup B) /\ Ranked(A \cup B)
  BY <1>1, TwoKinds DEF OfKind
<1>4. IsFiniteSet(A \cup B \cup C) /\ Ranked(A \cup B \cup C)
  BY <1>1, <1>3, TwoKinds DEF OfKind
<1>5. IsFiniteSet(A \cup B \cup C \cup D) /\ Ranked(A \cup B \cup C \cup D)
  BY <1>1, <1>4, TwoKinds DEF OfKind
<1>6. IsFiniteSet(A \cup B \cup C \cup D \cup E) /\ Ranked(A \cup B \cup C \cup D \cup E)
  BY <1>1, <1>5, TwoKinds DEF OfKind
<1>7. IsFiniteSet(A \cup B \cup C \cup D \cup E \cup F)
      /\ Ranked(A \cup B \cup C \cup D \cup E \cup F)
  BY <1>1, <1>6, TwoKinds DEF OfKind
<1>8. \A r \in A \cup B \cup C \cup D \cup E \cup F : r.kind = "entity" => r \in A
  BY <1>1 DEF OfKind
<1> QED BY <1>2, <1>7, <1>8 DEF A

(***************************************************************************)
(* What of it a prompt takes.                                              *)
(***************************************************************************)
LEMMA InjectedMany ==
  ASSUME NEW S, NEW T, IsFiniteSet(T), NEW f, NEW n \in Nat,
         IsFiniteSet(S), Cardinality(S) >= n,
         \A x \in S : f[x] \in T, \A x, y \in S : f[x] = f[y] => x = y
  PROVE  Cardinality(T) >= n
<1> DEFINE g == [x \in S |-> f[x]]
<1>1. g \in Injection(S, T)
  BY DEF Injection, IsInjective
<1> HIDE DEF g
<1>2. Cardinality(S) <= Cardinality(T)
  BY <1>1, FS_Injection
<1>3. Cardinality(S) \in Nat /\ Cardinality(T) \in Nat
  BY FS_CardinalityType
<1> QED BY <1>2, <1>3

\* The best of finitely many are finitely many of them.
LEMMA BestFinite ==
  ASSUME NEW rs, IsFiniteSet(rs), NEW n  PROVE IsFiniteSet(Best(rs, n)) /\ Best(rs, n) \subseteq rs
<1>1. Best(rs, n) \in SUBSET rs
  BY DEF Best
<1> QED BY <1>1, FS_Subset

\* A recorded lesson is recalled, or as many records that fit no worse are.
LEMMA LessonShown ==
  ASSUME NEW S, NEW evs \in Seq(S), Scored(evs), NEW v,
         NEW i \in 1..Len(evs), evs[i].kind = "lesson", Scores[evs[i].name] > 0
  PROVE  \/ \E r \in Recalled(evs, v) : r.said = evs[i]
         \/ Cardinality({r \in Recalled(evs, v) : r.said # evs[i] /\
                           Scores[r.said.name] >= Scores[evs[i].name]}) >= LessonLimit
<1> DEFINE R == EventResults("event", evs, {"lesson"})
           T == Recalled(evs, v)
           f == [r \in R |-> [at |-> r.at, said |-> evs[r.at]]]
<1>1. /\ OfKind(R, "event")
      /\ \A r \in R : /\ r.at \in 1..Len(evs) /\ r.name = evs[r.at].name
                      /\ r.fit = 5 * Scores[r.name] /\ r.name \in DOMAIN Scores
  <2>1. Weight["event"] = 5
    BY DEF Weight
  <2> QED BY <2>1, EventResultsAre DEF KindSet
<1>2. PICK q \in R : q.at = i
  BY EventResultsAre DEF KindSet
<1>3. T = {f[r] : r \in Best(R, LessonLimit)}
  <2>1. Best(R, LessonLimit) \subseteq R
    BY <1>1, BestFinite DEF OfKind
  <2>2. T = {[at |-> r.at, said |-> evs[r.at]] : r \in Best(R, LessonLimit)}
    BY DEF Recalled
  <2>3. \A r \in Best(R, LessonLimit) : f[r] = [at |-> r.at, said |-> evs[r.at]]
    BY <2>1
  <2> HIDE DEF f, R, T
  <2> QED BY <2>2, <2>3
<1>4. \A r \in R : f[r].at = r.at /\ f[r].said = evs[r.at]
  OBVIOUS
<1> HIDE DEF R, T, f
<1>5. CASE q \in Best(R, LessonLimit)
  <2>1. f[q] \in T /\ f[q].said = evs[i]
    BY <1>2, <1>3, <1>4, <1>5
  <2> QED BY <2>1 DEF T
<1>6. CASE q \notin Best(R, LessonLimit) /\ \A x \in T : x.said # evs[i]
  <2> DEFINE B == {r \in Best(R, LessonLimit) : r.fit >= q.fit}
             U == {x \in T : x.said # evs[i] /\ Scores[x.said.name] >= Scores[evs[i].name]}
  <2>1. q.fit > 0
    <3>1. q.fit = 5 * Scores[evs[i].name] /\ evs[i].name \in DOMAIN Scores
      BY <1>1, <1>2
    <3>2. Scores[evs[i].name] \in Nat
      BY <3>1, ScoreIs
    <3> QED BY <3>1, <3>2
  <2>2. IsFiniteSet(B) /\ Cardinality(B) >= LessonLimit
    <3>1. LessonLimit \in Nat
      BY SearchAssumption
    <3>2. IsFiniteSet(R) /\ Ranked(R)
      BY <1>1 DEF OfKind
    <3> QED BY <1>6, <2>1, <3>1, <3>2, BestIsFull
  <2>3. IsFiniteSet(U)
    <3>1. IsFiniteSet(Best(R, LessonLimit))
      BY <1>1, BestFinite DEF OfKind
    <3>2. \A x \in U : \E r \in Best(R, LessonLimit) : f[r] = x
      BY <1>3
    <3> HIDE DEF U
    <3> QED BY <3>1, <3>2, RangeFinite
  <2>4. B \subseteq R
    BY <1>1, BestFinite DEF OfKind
  <2>5. ASSUME NEW r \in B  PROVE f[r] \in U
    <3>1. r \in R /\ f[r] \in T /\ r.fit >= q.fit /\ f[r].said = evs[r.at]
      BY <1>3, <1>4, <2>4
    <3>2. /\ r.fit = 5 * Scores[evs[r.at].name] /\ evs[r.at].name \in DOMAIN Scores
          /\ q.fit = 5 * Scores[evs[i].name] /\ evs[i].name \in DOMAIN Scores
      BY <1>1, <1>2, <3>1
    <3>3. Scores[evs[r.at].name] \in Nat /\ Scores[evs[i].name] \in Nat
      BY <3>2, ScoreIs
    <3>4. Scores[evs[r.at].name] >= Scores[evs[i].name]
      BY <3>1, <3>2, <3>3
    <3> QED BY <1>6, <3>1, <3>4
  <2>6. \A r, s \in B : f[r] = f[s] => r = s
    BY <1>1, <1>4, <2>4 DEF OfKind, Ranked
  <2> HIDE DEF B, U
  <2>7. Cardinality(U) >= LessonLimit
    BY <2>2, <2>3, <2>5, <2>6, InjectedMany, SearchAssumption
  <2> QED BY <2>7 DEF U, T
<1> QED BY <1>5, <1>6 DEF T

\* A recorded part is chosen, or as many are that fit no worse, or the search was full.
LEMMA PartChosen ==
  ASSUME NEW S, NEW evs \in Seq(S), Scored(evs), NEW v,
         IsFiniteSet(DOMAIN v.entities), IsFiniteSet(DOMAIN v.decisions),
         "entity" \in DOMAIN SectionLimits,
         NEW n \in Named(Of(evs, "entity")), Scores[n] > 0
  PROVE  LET found == Related(evs, v)
             parts == Chosen(found, "entity") IN
         \/ \E q \in parts : q.name = n
         \/ Cardinality({q \in parts : q.name # n /\ Scores[q.name] >= Scores[n]})
              >= SectionLimits["entity"]
         \/ Cardinality({r \in found : /\ <<r.kind, r.name>> # <<"entity", n>>
                                       /\ r.fit >= Weight["entity"] * Scores[n]}) >= SearchLimit
<1> DEFINE R == Results(evs, v)
           N == NamedResults("entity", evs, "entity")
           found == Related(evs, v)
           E == {q \in found : q.kind = "entity"}
           L == SectionLimits["entity"]
           parts == Chosen(found, "entity")
<1>1. /\ IsFiniteSet(R) /\ Ranked(R) /\ found = Best(R, SearchLimit)
      /\ \A r \in R : r.kind = "entity" => r \in N
  BY ResultsAre DEF Related, Results
<1>2. Weight["entity"] = 15
  BY DEF Weight
<1>3. /\ \A r \in N : /\ r.kind = "entity" /\ r.fit = 15 * Scores[r.name]
                      /\ Scores[r.name] \in Nat
      /\ \A r, q \in N : r.name = q.name => r = q
  <2>1. /\ OfKind(N, "entity")
        /\ \A r \in N : /\ r = Result("entity", r.name, r.at, Scores[r.name])
                        /\ r.name \in DOMAIN Scores
        /\ \A r, q \in N : r.name = q.name => r = q
    BY NamedResultsAre DEF KindSet
  <2> HIDE DEF N
  <2> QED BY <2>1, <1>2, ResultIs, ScoreIs DEF OfKind
<1>4. PICK q \in N : q.name = n
  BY NamedResultsAre DEF KindSet
<1>5. q \in R /\ q.kind = "entity" /\ q.fit = 15 * Scores[n] /\ Scores[n] \in Nat /\ q.fit > 0
  <2>1. q \in R
    BY DEF Results
  <2> HIDE DEF N
  <2> QED BY <1>3, <1>4, <2>1
<1>6. parts = Best(E, L) /\ L \in Nat /\ SearchLimit \in Nat
  BY SearchAssumption DEF Chosen
<1> HIDE DEF R, N, found, L, parts
<1>7. /\ found \subseteq R /\ E \subseteq R /\ IsFiniteSet(found) /\ IsFiniteSet(E) /\ Ranked(E)
      /\ E \subseteq N
  <2>1. IsFiniteSet(found) /\ found \subseteq R
    BY <1>1, BestFinite
  <2>2. E \in SUBSET found
    OBVIOUS
  <2>3. IsFiniteSet(E)
    BY <2>1, <2>2, FS_Subset
  <2> QED BY <1>1, <2>1, <2>2, <2>3 DEF Ranked
<1>8. CASE q \notin found
  <2> DEFINE B == {r \in found : r.fit >= q.fit}
             U == {r \in found : /\ <<r.kind, r.name>> # <<"entity", n>>
                                 /\ r.fit >= Weight["entity"] * Scores[n]}
  <2>1. Cardinality(B) >= SearchLimit
    BY <1>1, <1>5, <1>6, <1>8, BestIsFull
  <2>2. \A r \in found : r.kind = "entity" => r.name # n
    BY <1>1, <1>3, <1>4, <1>7, <1>8
  <2>3. B = U
    BY <1>2, <1>5, <2>2
  <2> HIDE DEF B
  <2> QED BY <2>1, <2>3 DEF found
<1>9. CASE q \in found /\ \A r \in parts : r.name # n
  <2>1. q \in E /\ q \notin Best(E, L)
    BY <1>4, <1>5, <1>6, <1>9
  <2> HIDE DEF E
  <2> DEFINE B == {r \in Best(E, L) : r.fit >= q.fit}
             U == {r \in parts : r.name # n /\ Scores[r.name] >= Scores[n]}
  <2>2. Cardinality(B) >= L
    BY <1>5, <1>6, <1>7, <2>1, BestIsFull
  <2>3. Best(E, L) \subseteq N
    BY <1>7, BestFinite
  <2>4. \A r \in Best(E, L) : r.fit >= q.fit <=> Scores[r.name] >= Scores[n]
    BY <1>3, <1>5, <2>3
  <2>5. B = U
    BY <1>6, <1>9, <2>4
  <2> HIDE DEF B
  <2> QED BY <2>2, <2>5 DEF L, parts, found
<1> QED BY <1>8, <1>9 DEF parts, found

(***************************************************************************)
(* The pages, and what was learned.                                        *)
(***************************************************************************)
\* A commit of a history the project may start with, or one that is made meanwhile.
Changes == Commits \cup UNION {{h[i] : i \in DOMAIN h} : h \in Histories}

\* There are finitely many pages, and what a rebuild reads are events and commits; the
\* lessons that were learned are in the log.
PagesAt(v) == Fields(v) /\ IsFiniteSet(DOMAIN v.entities) /\ IsFiniteSet(DOMAIN v.decisions)
ReadAt(r) == r.pc = "compile" => r.evs \in Seq(Lines) /\ \E T : r.seen \in Seq(T)
LearnedAt(ls, lines) == ls \subseteq {e \in {lines[i] : i \in DOMAIN lines} : e.kind = "lesson"}
PagesInv == /\ history \in Seq(Changes) /\ PagesAt(views)
            /\ \A p \in Procs : ReadAt(at[p])
            /\ LearnedAt(learned, log)

\* Nothing is written, and the history is one the project may start with.
LEMMA PagesInitially == LearningInit => PagesInv
<1> SUFFICES ASSUME LearningInit  PROVE PagesInv
  OBVIOUS
<1>1. history \in Seq(Changes)
  <2>1. history \in Histories
    BY DEF LearningInit, KnowledgeInit
  <2>2. history \in Seq({history[i] : i \in DOMAIN history})
    BY <2>1, KnowledgeAssumption
  <2>3. {history[i] : i \in DOMAIN history} \subseteq Changes
    BY <2>1 DEF Changes
  <2> DEFINE H == {history[i] : i \in DOMAIN history}
  <2> HIDE DEF H, Changes
  <2> QED BY <2>2, <2>3 DEF H
<1>2. PagesAt(views)
  <2>1. views = NoViews
    BY DEF LearningInit, KnowledgeInit
  <2>2. Fields(NoViews) /\ DOMAIN NoViews.entities = {} /\ DOMAIN NoViews.decisions = {}
    BY DEF NoViews, Fields
  <2> QED BY <2>1, <2>2, FS_EmptySet DEF PagesAt
<1>3. ASSUME NEW p \in Procs  PROVE ReadAt(at[p])
  BY RestIsCalled DEF LearningInit, KnowledgeInit, ReadAt
<1>4. LearnedAt(learned, log)
  BY DEF LearningInit, LearnedAt
<1> QED BY <1>1, <1>2, <1>3, <1>4 DEF PagesInv

\* What is read of a sequence of commits is one.
LEMMA ReadingIsSeq ==
  ASSUME NEW T, NEW h \in Seq(T), NEW d  PROVE \E U : Reading(h, d) \in Seq(U)
<1> DEFINE R == Reading(h, d)
           U == {R[i] : i \in 1..Len(h)}
<1>1. R = [i \in 1..Len(h) |-> R[i]] /\ Len(h) \in Nat
  BY DEF Reading
<1> HIDE DEF R
<1>2. R \in Seq(U)
  BY <1>1
<1> QED BY <1>2 DEF R

\* A rebuild and an update leave finitely many pages.
LEMMA CompiledPages ==
  ASSUME NEW S, NEW evs \in Seq(S), NEW T, NEW h \in Seq(T), NEW v, PagesAt(v)
  PROVE  PagesAt(Compiled(evs, h, v))
<1> DEFINE g == Profile(h)
           met == CollectedEntities(evs)
           c == Compiled(evs, h, v)
<1>1. Fields(c) /\ c.entities = CompileEntities(evs, g, v) /\ c.decisions = CompileDecisions(evs, g, v)
  <2>1. c.entities = CompileEntities(evs, g, v) /\ c.decisions = CompileDecisions(evs, g, v)
    BY DEF Compiled
  <2> QED BY <2>1, CompiledStands
<1> HIDE DEF c
<1>2. IsFiniteSet(DOMAIN CompileEntities(evs, g, v))
  <2> DEFINE Met(n) == IF n \in DOMAIN met THEN met[n] ELSE Unknown
             new == [n \in TopDirs \union DOMAIN met |-> Page(n, Met(n), Touches(evs), g)]
  <2>1. CompileEntities(evs, g, v) = Over(new, v.entities)
    BY DEF CompileEntities
  <2>2. IsFiniteSet(DOMAIN met) /\ DOMAIN new = TopDirs \cup DOMAIN met
    BY CollectedFinite
  <2>3. IsFiniteSet(DOMAIN new)
    BY <2>2, ViewsAssumption, FS_Union
  <2> HIDE DEF new
  <2> QED BY <2>1, <2>3, OverFinite DEF PagesAt
<1>3. IsFiniteSet(DOMAIN CompileDecisions(evs, g, v))
  <2> DEFINE w == Written(CollectedDecisions(evs), v.decisions)
             a == AutoDecisions(g)
  <2>1. IsFiniteSet(DOMAIN w) /\ IsFiniteSet(DOMAIN a)
    BY CollectedFinite, AutoFinite DEF PagesAt
  <2>2. CompileDecisions(evs, g, v) = Over(a, w)
    BY DEF CompileDecisions
  <2> HIDE DEF a, w
  <2> QED BY <2>1, <2>2, OverFinite
<1>4. PagesAt(c)
  BY <1>1, <1>2, <1>3 DEF PagesAt
<1> QED BY <1>4 DEF c

\* So does an update with new events.
LEMMA UpdatedPages ==
  ASSUME NEW S, NEW evs \in Seq(S), NEW v, PagesAt(v)
  PROVE  PagesAt(Updated(evs, v))
<1> DEFINE met == CollectedEntities(evs)
           u == Upserted(met, v)
           w == Written(CollectedDecisions(evs), v.decisions)
           t == Appended(CollectedFacts(evs), v.registry)
           new == [n \in DOMAIN met |->
                     [text |-> met[n].text, files |-> met[n].files, hot |-> {}, touched |-> {},
                      owners |-> {}, owner |-> "", bus |-> 0, risk |-> {}]]
<1>1. Updated(evs, v) = [v EXCEPT !.entities = u, !.decisions = w, !.registry = t]
  BY DEF Updated, PagesAt, Fields
<1>2. IsFiniteSet(DOMAIN met) /\ IsFiniteSet(DOMAIN w)
  BY CollectedFinite DEF PagesAt
<1>3. u = Over(new, v.entities) /\ DOMAIN new = DOMAIN met
  BY DEF Upserted
<1> HIDE DEF new, met, w, t, u
<1>4. IsFiniteSet(DOMAIN u)
  BY <1>2, <1>3, OverFinite DEF PagesAt
<1>5. Updated(evs, v) = [entities |-> u, registry |-> t, decisions |-> w, risks |-> v.risks,
                         insights |-> v.insights, intel |-> v.intel, checklist |-> v.checklist,
                         patterns |-> v.patterns, stats |-> v.stats, lessons |-> v.lessons]
  BY <1>1 DEF PagesAt, Fields
<1>6. /\ Fields(Updated(evs, v)) /\ Updated(evs, v).entities = u
      /\ Updated(evs, v).decisions = w
  BY <1>5 DEF Fields
<1> QED BY <1>2, <1>4, <1>6 DEF PagesAt

\* So does the page of lessons.
LEMMA LessonPages ==
  ASSUME NEW v, PagesAt(v), NEW ls  PROVE PagesAt([v EXCEPT !.lessons = ls])
<1> DEFINE w == [v EXCEPT !.lessons = ls]
<1>1. w = [entities |-> v.entities, registry |-> v.registry, decisions |-> v.decisions,
           risks |-> v.risks, insights |-> v.insights, intel |-> v.intel,
           checklist |-> v.checklist, patterns |-> v.patterns, stats |-> v.stats,
           lessons |-> ls]
  BY DEF PagesAt, Fields
<1> HIDE DEF w
<1>2. Fields(w) /\ w.entities = v.entities /\ w.decisions = v.decisions
  BY <1>1 DEF Fields
<1>3. PagesAt(w)
  BY <1>2 DEF PagesAt
<1> QED BY <1>3 DEF w

\* What the log has it keeps, and what reaches it is learned.
LEMMA LogKeeps ==
  ASSUME NEW lines \in Seq(Lines), NEW e \in Lines
  PROVE  {lines[i] : i \in DOMAIN lines} \subseteq
            {With(lines, e)[i] : i \in DOMAIN With(lines, e)}
<1> DEFINE t == Append(lines, e)
<1>1. \A i \in DOMAIN lines : i \in DOMAIN t /\ t[i] = lines[i]
  <2>1. /\ Len(lines) \in Nat /\ DOMAIN lines = 1..Len(lines)
        /\ t \in Seq(Lines) /\ DOMAIN t = 1..(Len(lines) + 1)
        /\ \A i \in 1..Len(lines) : t[i] = lines[i]
    OBVIOUS
  <2> HIDE DEF t
  <2> QED BY <2>1
<1> HIDE DEF t
<1>2. With(lines, e) = lines \/ With(lines, e) = t
  BY DEF With, t
<1> QED BY <1>1, <1>2

\* What was learned stays in the log.
LEMMA LearnedStays ==
  ASSUME EngineInv, LearnedAt(learned, log),
         log' = log \/ \E e \in Lines : log' = With(log, e),
         learned' = learned \/ Learns
  PROVE  LearnedAt(learned', log')
<1>1. {log[i] : i \in DOMAIN log} \subseteq {log'[i] : i \in DOMAIN log'}
  <2>1. CASE log' = log
    BY <2>1
  <2>2. ASSUME NEW e \in Lines, log' = With(log, e)
        PROVE  {log[i] : i \in DOMAIN log} \subseteq {log'[i] : i \in DOMAIN log'}
    <3>1. log \in Seq(Lines)
      BY DEF EngineInv
    <3> DEFINE t == With(log, e)
    <3>2. {log[i] : i \in DOMAIN log} \subseteq {t[i] : i \in DOMAIN t}
      BY <3>1, LogKeeps
    <3>3. log' = t
      BY <2>2
    <3> HIDE DEF t
    <3> QED BY <3>2, <3>3
  <2> QED BY <2>1, <2>2
<1>2. CASE learned' = learned
  BY <1>1, <1>2 DEF LearnedAt
<1>3. CASE Learns
  <2>1. \A l \in learned' : l \in learned \/ \E i \in DOMAIN log' : log'[i].kind = "lesson" /\ l = log'[i]
    BY <1>3 DEF Learns
  <2> QED BY <1>1, <2>1 DEF LearnedAt
<1> QED BY <1>2, <1>3

\* A step of an engine that writes finitely many pages.
LEMMA PagesKeep ==
  ASSUME EngineInv, PagesInv, NEW p \in Procs, NEW r, at' = [at EXCEPT ![p] = r], ReadAt(r),
         PagesAt(views'), UNCHANGED history,
         log' = log \/ \E e \in Lines : log' = With(log, e),
         learned' = learned \/ Learns
  PROVE  PagesInv'
<1>1. ASSUME NEW q \in Procs  PROVE ReadAt(at'[q])
  BY DEF EngineInv, PagesInv
<1> QED BY <1>1, LearnedStays DEF PagesInv

\* Where what follows, and a count, leave a process: it does not compile yet.
LEMMA FollowedRests ==
  ASSUME NEW p  PROVE Followed(p).pc # "compile"
<1>1. Following(at[p].ev) # "compile"
  BY DEF Following
<1>2. CASE Following(at[p].ev) = "idle"
  BY <1>2, RestIsCalled DEF Followed
<1>3. CASE Following(at[p].ev) # "idle"
  <2>1. Followed(p) = [pc |-> Following(at[p].ev), ev |-> at[p].ev, evs |-> <<>>, seen |-> <<>>]
    BY <1>3 DEF Followed, Rest
  <2> QED BY <1>1, <2>1
<1> QED BY <1>2, <1>3

\* A count.
LEMMA CountedAt ==
  ASSUME EngineInv, NEW p \in Procs, Counted(p)
  PROVE  \E r : at' = [at EXCEPT ![p] = r] /\ r.pc # "compile"
<1>1. CASE at[p].ev.kind = "merged" \/ since[p] + 1 >= Threshold
  <2> DEFINE r == [at[p] EXCEPT !.pc = "rebuild"]
  <2>1. at' = [at EXCEPT ![p] = r]
    BY <1>1 DEF Counted, Goto
  <2>2. r.pc = "rebuild"
    BY AtField
  <2> QED BY <2>1, <2>2
<1>2. CASE ~(at[p].ev.kind = "merged" \/ since[p] + 1 >= Threshold)
  <2>1. at' = [at EXCEPT ![p] = Followed(p)]
    BY <1>2, FollowDoes DEF Counted
  <2>2. Followed(p).pc # "compile"
    BY FollowedRests
  <2> QED BY <2>1, <2>2
<1> QED BY <1>1, <1>2

\* Each step of an engine.
LEMMA EngineKeepsPages ==
  ASSUME EngineInv, PagesInv, NEW p \in Procs, EngineStep(p), Learns  PROVE PagesInv'
<1>1. /\ at[p] = [pc |-> at[p].pc, ev |-> at[p].ev, evs |-> at[p].evs, seen |-> at[p].seen]
      /\ at[p].ev \in Lines \cup {NoEvent}
      /\ at[p].pc \in {"append", "appendIssue"} => at[p].ev \in Lines
  BY DEF EngineInv, Called
<1>2. PagesAt(views) /\ history \in Seq(Changes) /\ ReadAt(at[p]) /\ log \in Seq(Lines)
  BY DEF PagesInv, EngineInv
<1>3. \A r : r.pc # "compile" => ReadAt(r)
  BY DEF ReadAt
<1>4. CASE AppendGlobal(p)
  <2>1. /\ log' = With(log, at[p].ev) /\ at[p].ev \in Lines /\ UNCHANGED <<views, history>>
    BY <1>1, <1>4 DEF AppendGlobal, In
  <2>2. \E r : at' = [at EXCEPT ![p] = r] /\ r.pc # "compile"
    <3>1. CASE at[p].ev.issue # 0
      <4> DEFINE r == [at[p] EXCEPT !.pc = "appendIssue"]
      <4>1. at' = [at EXCEPT ![p] = r]
        BY <1>4, <3>1 DEF AppendGlobal, Goto
      <4>2. r.pc = "appendIssue"
        BY AtField
      <4> QED BY <4>1, <4>2
    <3>2. CASE ~(at[p].ev.issue # 0)
      BY <1>4, <3>2, CountedAt DEF AppendGlobal
    <3> QED BY <3>1, <3>2
  <2> QED BY <1>2, <1>3, <2>1, <2>2, PagesKeep
<1>5. CASE AppendIssue(p)
  <2>1. \E r : at' = [at EXCEPT ![p] = r] /\ r.pc # "compile"
    BY <1>5, CountedAt DEF AppendIssue
  <2>2. UNCHANGED <<log, views, history>>
    BY <1>5 DEF AppendIssue
  <2> QED BY <1>2, <1>3, <2>1, <2>2, PagesKeep
<1>6. CASE Read(p)
  <2> DEFINE r == [at[p] EXCEPT !.pc = "compile", !.evs = log, !.seen = Reading(history, dirty)]
  <2>1. at' = [at EXCEPT ![p] = r] /\ UNCHANGED <<log, views, history>>
    BY <1>1, <1>6 DEF Read, files, project
  <2>2. r = [pc |-> "compile", ev |-> at[p].ev, evs |-> log, seen |-> Reading(history, dirty)]
    <3> DEFINE y == [at[p] EXCEPT !.pc = "compile", !.evs = log]
    <3>1. y = [pc |-> "compile", ev |-> at[p].ev, evs |-> log, seen |-> at[p].seen]
      BY <1>1, SetTwo
    <3> HIDE DEF y
    <3>2. [y EXCEPT !.seen = Reading(history, dirty)]
            = [pc |-> "compile", ev |-> at[p].ev, evs |-> log, seen |-> Reading(history, dirty)]
      BY <3>1
    <3> QED BY <3>2 DEF y
  <2> HIDE DEF r
  <2>3. ReadAt(r)
    BY <1>2, <2>2, ReadingIsSeq DEF ReadAt
  <2> QED BY <1>2, <2>1, <2>3, PagesKeep
<1>7. CASE ReadFails(p)
  <2>1. at' = [at EXCEPT ![p] = Rest] /\ UNCHANGED <<log, views, history>>
    BY <1>7 DEF ReadFails, Leave, files, project
  <2> QED BY <1>2, <1>3, <2>1, RestIsCalled, PagesKeep
<1>8. CASE Compile(p)
  <2> DEFINE r == [at[p] EXCEPT !.pc = "rebuilt"]
  <2>1. /\ at' = [at EXCEPT ![p] = r] /\ UNCHANGED <<log, history>> /\ at[p].pc = "compile"
        /\ views' = Compiled(at[p].evs, at[p].seen, views)
    BY <1>8 DEF Compile, Goto, In, files
  <2>2. r.pc = "rebuilt"
    BY AtField
  <2>3. PagesAt(views')
    BY <1>2, <2>1, CompiledPages DEF ReadAt
  <2> HIDE DEF r
  <2> QED BY <1>2, <1>3, <2>1, <2>2, <2>3, PagesKeep
<1>9. CASE AppendRebuilt(p)
  <2>1. at' = [at EXCEPT ![p] = Followed(p)] /\ UNCHANGED <<views, history>> /\ log' = With(log, Rebuilt)
    BY <1>9, FollowDoes DEF AppendRebuilt
  <2>2. Rebuilt \in Lines
    BY DEF Lines
  <2> QED BY <1>2, <1>3, <2>1, <2>2, FollowedRests, PagesKeep
<1>10. CASE Update(p)
  <2>1. /\ at' = [at EXCEPT ![p] = Rest] /\ UNCHANGED <<log, history>>
        /\ views' = Updated(<<at[p].ev>>, views)
    BY <1>10 DEF Update, Leave, files
  <2>2. <<at[p].ev>> \in Seq({at[p].ev})
    OBVIOUS
  <2>3. PagesAt(views')
    BY <1>2, <2>1, <2>2, UpdatedPages
  <2> QED BY <1>2, <1>3, <2>1, <2>3, RestIsCalled, PagesKeep
<1>11. CASE Discover(p)
  <2> DEFINE e == [kind |-> "entity", issue |-> 0, name |-> at[p].ev.file.dir, text |-> "",
                   file |-> at[p].ev.file]
             r == [Rest EXCEPT !.pc = "append", !.ev = e]
  <2>1. at' = [at EXCEPT ![p] = r] /\ UNCHANGED <<log, views, history>>
    BY <1>11 DEF Discover, files, project
  <2> HIDE DEF e
  <2>2. r = [pc |-> "append", ev |-> e, evs |-> Rest.evs, seen |-> Rest.seen]
    BY RestIsCalled, SetTwo DEF Called
  <2>3. r.pc = "append"
    BY <2>2
  <2> HIDE DEF r
  <2> QED BY <1>2, <1>3, <2>1, <2>3, PagesKeep
<1>12. CASE ReadLessons(p)
  <2> DEFINE r == [at[p] EXCEPT !.pc = "writeLessons", !.evs = Of(log, "lesson")]
  <2>1. at' = [at EXCEPT ![p] = r] /\ UNCHANGED <<log, views, history>>
    BY <1>1, <1>12 DEF ReadLessons, files, project
  <2>2. r = [pc |-> "writeLessons", ev |-> at[p].ev, evs |-> Of(log, "lesson"),
             seen |-> at[p].seen]
    BY <1>1, SetTwo
  <2>3. r.pc = "writeLessons"
    BY <2>2
  <2> HIDE DEF r
  <2> QED BY <1>2, <1>3, <2>1, <2>3, PagesKeep
<1>13. CASE WriteLessons(p)
  <2>1. /\ at' = [at EXCEPT ![p] = Rest] /\ UNCHANGED <<log, history>>
        /\ views' = [views EXCEPT !.lessons = at[p].evs]
    BY <1>13 DEF WriteLessons, Leave, files
  <2>2. PagesAt(views')
    BY <1>2, <2>1, LessonPages
  <2> QED BY <1>2, <1>3, <2>1, <2>2, RestIsCalled, PagesKeep
<1> QED BY <1>4, <1>5, <1>6, <1>7, <1>8, <1>9, <1>10, <1>11, <1>12, <1>13 DEF EngineStep

\* A step that writes no page, no line and no copy.
LEMMA PagesStand ==
  ASSUME PagesInv, UNCHANGED <<log, views, at, learned>>, history' \in Seq(Changes)  PROVE PagesInv'
BY DEF PagesInv

\* Any step.
LEMMA PagesKept == IInv /\ PagesInv /\ [Next]_vars => PagesInv'
<1> SUFFICES ASSUME IInv, PagesInv, [Next]_vars  PROVE PagesInv'
  OBVIOUS
<1>1. EngineInv /\ PagesAt(views) /\ history \in Seq(Changes)
  BY DEF IInv, PagesInv
<1>2. \A r : r.pc # "compile" => ReadAt(r)
  BY DEF ReadAt
<1>3. CASE UNCHANGED vars
  BY <1>1, <1>3, PagesStand DEF vars, knowledge
<1>4. CASE Commits1
  <2>1. PICK c \in Commits : history' = <<c>> \o history
    BY <1>4 DEF Commits1, Commit
  <2>2. c \in Changes
    BY DEF Changes
  <2>3. history' \in Seq(Changes)
    BY <1>1, <2>1, <2>2
  <2> QED BY <1>4, <2>3, PagesStand DEF Commits1, Commit, files
<1>5. ASSUME NEW p \in Procs, Work(p)  PROVE PagesInv'
  BY <1>1, <1>5, EngineKeepsPages DEF Work
<1>6. ASSUME NEW p \in Procs, Paper(p) \/ CallsTruth(p)  PROVE PagesInv'
  BY <1>1, <1>6, PagesStand DEF Paper, CallsTruth, knowledge
<1>7. ASSUME NEW p \in Procs, CallsEngine(p)  PROVE PagesInv'
  <2>1. UNCHANGED <<learned, log, views, history>>
    BY <1>7 DEF CallsEngine, CallRebuild, Record, files, project
  <2>2. \E r : at' = [at EXCEPT ![p] = r] /\ r.pc # "compile"
    <3>1. CASE CallRebuild(p)
      <4> DEFINE r == [at[p] EXCEPT !.pc = "rebuild"]
      <4>1. at' = [at EXCEPT ![p] = r]
        BY <3>1 DEF CallRebuild, Goto
      <4>2. r.pc = "rebuild"
        BY <1>1, AtField
      <4> QED BY <4>1, <4>2
    <3>2. ASSUME NEW e, Record(p, e)  PROVE \E r : at' = [at EXCEPT ![p] = r] /\ r.pc # "compile"
      <4> DEFINE r == [Rest EXCEPT !.pc = "append", !.ev = e]
      <4>1. at' = [at EXCEPT ![p] = r]
        BY <3>2 DEF Record
      <4>2. r = [pc |-> "append", ev |-> e, evs |-> Rest.evs, seen |-> Rest.seen]
        BY RestIsCalled, SetTwo DEF Called
      <4>3. r.pc = "append"
        BY <4>2
      <4> QED BY <4>1, <4>3
    <3> QED BY <1>7, <3>1, <3>2 DEF CallsEngine
  <2> QED BY <1>1, <1>2, <2>1, <2>2, PagesKeep
<1>9. CASE Edits
  BY <1>1, <1>9, PagesStand DEF Edits, Edit, files
<1>8. ASSUME NEW p \in Procs, Crash(p)  PROVE PagesInv'
  <2>1. /\ at' = [at EXCEPT ![p] = Rest] /\ UNCHANGED <<learned, views, history>>
        /\ log' = log \/ log' = With(log, Cut)
    BY <1>8 DEF Crash, Die, files
  <2>2. Cut \in Lines
    BY DEF Lines
  <2> QED BY <1>1, <1>2, <2>1, <2>2, RestIsCalled, PagesKeep
<1> QED BY <1>3, <1>4, <1>5, <1>6, <1>7, <1>8, <1>9 DEF Next

\* The names of what is in the log have a score.
LEMMA LinesScored ==
  ASSUME NEW lines \in Seq(Lines)  PROVE Scored(lines)
<1>1. ASSUME NEW e \in Lines  PROVE e.name \in DOMAIN Scores
  <2>1. /\ "" \in DOMAIN Scores
        /\ \A x \in Events : x.name \in DOMAIN Scores /\ x.file.dir \in DOMAIN Scores
    <3>1. {""} \cup UNION {{x.name, x.file.dir} : x \in Events} \subseteq DOMAIN Scores
      BY LearningAssumption
    <3>2. \A x \in Events : {x.name, x.file.dir} \in {{y.name, y.file.dir} : y \in Events}
      OBVIOUS
    <3> QED BY <3>1, <3>2
  <2>2. Cut.name = "" /\ Rebuilt.name = "" /\ \A x : FoundIn(x).name = x.file.dir
    BY DEF Cut, Rebuilt, NoEvent, FoundIn
  <2> QED BY <2>1, <2>2 DEF Lines
<1>2. \A i \in DOMAIN lines : lines[i] \in Lines
  OBVIOUS
<1> QED BY <1>1, <1>2 DEF Scored

\* For every project and all limits: what an agent's repair taught, and what was recorded of
\* a part of the project, reaches the prompts that come after, unless as many as fit no
\* worse take its place, or it is chosen and its line ends below the cut; however many processes write the pages over each other and die
\* meanwhile (search.py find_repair_lessons, build_context_for_issue).
THEOREM LearnedIsPrompted == Spec => []LearnedInPrompt
<1>1. Spec => []PagesInv
  BY PagesInitially, PagesKept, Invariant, PTL DEF Spec
<1>2. ASSUME IInv, PagesInv  PROVE LearnedInPrompt
  <2>1. log \in Seq(Lines) /\ Scored(log) /\ DOMAIN log = 1..Len(log)
    BY <1>2, LinesScored DEF IInv, EngineInv
  <2>2. PagesAt(views) /\ LearnedAt(learned, log)
    BY <1>2 DEF PagesInv
  <2>3. "entity" \in DOMAIN SectionLimits
    BY LearningAssumption
  <2> DEFINE found == Related(log, views)
             recalled == Recalled(log, views)
             lines == PromptLines(found, recalled)
             parts == Chosen(found, "entity")
  <2>4. ASSUME NEW l \in learned, Scores[l.name] > 0
        PROVE  \/ \E r \in recalled : r.said = l
               \/ Cardinality({r \in recalled : r.said # l /\ Scores[r.said.name] >= Scores[l.name]})
                    >= LessonLimit
    <3>1. PICK i \in 1..Len(log) : l = log[i] /\ log[i].kind = "lesson"
      BY <2>1, <2>2 DEF LearnedAt
    <3>2. Scores[log[i].name] > 0
      BY <2>4, <3>1
    <3>3. \/ \E r \in recalled : r.said = log[i]
          \/ Cardinality({r \in recalled : r.said # log[i] /\ Scores[r.said.name] >= Scores[log[i].name]})
               >= LessonLimit
      BY <2>1, <3>1, <3>2, LessonShown
    <3> QED BY <3>1, <3>3
  <2>5. ASSUME NEW n \in Named(Of(log, "entity")), Scores[n] > 0
        PROVE  \/ \E q \in parts : q.name = n
               \/ Cardinality({q \in parts : q.name # n /\ Scores[q.name] >= Scores[n]})
                    >= SectionLimits["entity"]
               \/ Cardinality({r \in found : /\ <<r.kind, r.name>> # <<"entity", n>>
                                             /\ r.fit >= Weight["entity"] * Scores[n]}) >= SearchLimit
    <3>1. IsFiniteSet(DOMAIN views.entities) /\ IsFiniteSet(DOMAIN views.decisions)
      BY <2>2 DEF PagesAt
    <3> QED BY <2>1, <2>3, <2>5, <3>1, PartChosen
  <2>6. ASSUME Readable(log), NEW goals \in {g \in GoalTexts : g.readable}
        PROVE  /\ Prompt(goals, log, views).lessons
                    = {l \in recalled : Fits(LessonLine(l), goals, lines, views)}
               /\ Prompt(goals, log, views).shown["entity"]
                    = {r.name : r \in {q \in parts : Fits(q, goals, lines, views)}}
    BY <2>3, <2>6 DEF Prompt
  <2> HIDE DEF found, recalled, lines, parts
  <2>7. ASSUME Readable(log), NEW goals \in {g \in GoalTexts : g.readable}
        PROVE  LET prompt == Prompt(goals, log, views)
                   Below(q) == ~Fits(q, goals, lines, views)
               IN /\ \A l \in learned : Scores[l.name] > 0 =>
                       \/ \E r \in prompt.lessons : r.said = l
                       \/ \E r \in recalled : r.said = l /\ Below(LessonLine(r))
                       \/ Cardinality({r \in recalled : r.said # l /\ Scores[r.said.name] >= Scores[l.name]})
                            >= LessonLimit
                  /\ \A n \in Named(Of(log, "entity")) : Scores[n] > 0 =>
                       \/ n \in prompt.shown["entity"]
                       \/ \E q \in parts : q.name = n /\ Below(q)
                       \/ Cardinality({q \in parts : q.name # n /\ Scores[q.name] >= Scores[n]})
                            >= SectionLimits["entity"]
                       \/ Cardinality({r \in found : /\ <<r.kind, r.name>> # <<"entity", n>>
                                                     /\ r.fit >= Weight["entity"] * Scores[n]}) >= SearchLimit
    <3> DEFINE shown == Prompt(goals, log, views).lessons
               names == Prompt(goals, log, views).shown["entity"]
               Below(q) == ~Fits(q, goals, lines, views)
    <3>1. /\ shown = {l \in recalled : Fits(LessonLine(l), goals, lines, views)}
          /\ names = {r.name : r \in {q \in parts : Fits(q, goals, lines, views)}}
      BY <2>6, <2>7
    <3> HIDE DEF shown, names
    <3>2. \A r \in recalled : r \in shown \/ Below(LessonLine(r))
      BY <3>1
    <3>3. \A q \in parts : q.name \in names \/ Below(q)
      BY <3>1
    <3> HIDE DEF Below
    <3>4. ASSUME NEW l \in learned, Scores[l.name] > 0
          PROVE  \/ \E r \in shown : r.said = l
                 \/ \E r \in recalled : r.said = l /\ Below(LessonLine(r))
                 \/ Cardinality({r \in recalled : r.said # l /\ Scores[r.said.name] >= Scores[l.name]})
                      >= LessonLimit
      BY <2>4, <3>2, <3>4
    <3>5. ASSUME NEW n \in Named(Of(log, "entity")), Scores[n] > 0
          PROVE  \/ n \in names
                 \/ \E q \in parts : q.name = n /\ Below(q)
                 \/ Cardinality({q \in parts : q.name # n /\ Scores[q.name] >= Scores[n]})
                      >= SectionLimits["entity"]
                 \/ Cardinality({r \in found : /\ <<r.kind, r.name>> # <<"entity", n>>
                                               /\ r.fit >= Weight["entity"] * Scores[n]}) >= SearchLimit
      BY <2>5, <3>3, <3>5
    <3> QED BY <3>4, <3>5 DEF shown, names, Below
  <2> QED BY <2>7 DEF LearnedInPrompt, found, recalled, lines, parts
<1> QED BY <1>1, <1>2, Invariant, PTL

================================================================================
