-------------------------------- MODULE Search --------------------------------
(***************************************************************************)
(* What of the knowledge base a prompt takes for an issue                  *)
(* (knowledge/search.py): the results of a search of the log and of the    *)
(* pages, ranked together and cut, then sorted into sections that are cut  *)
(* again, and the lessons, searched apart; the text is cut at its end once *)
(* more (task_analysis.py).  How well a name fits the issue at hand, and   *)
(* how long the line it makes is, are constants; a kind weighs its fit, in *)
(* tenths.                                                                 *)
(***************************************************************************)
EXTENDS KnowledgeViews

CONSTANTS Scores,        \* of each name recorded: how well it fits the issue, 0 not at all
          LessonLimit,   \* 3: the lessons a prompt takes
          SearchLimit,   \* 15: the results a search for an issue gives
          SectionLimits, \* of each kind of result: 3 or 5 of them are shown
          RiskLimit,     \* 5: the lines of the risk register a prompt takes
          Sizes,         \* of each name recorded: the length of its line
          HeadSize,      \* the length of a section's heading, and of a risk
          ExemplarSize,  \* the length of the project's exemplars
          ContextLimit   \* 12000: project_context_chars, or less for a small model

ASSUME SearchAssumption == /\ LessonLimit \in Nat /\ SearchLimit \in Nat
                           /\ SectionLimits \in [DOMAIN SectionLimits -> Nat]
                           /\ Scores \in [DOMAIN Scores -> Nat]

\* The order in which the kinds are searched, which decides between equals.
Kinds == <<"entity", "fact", "decision", "event", "error_pattern", "file">>
Weight == [entity |-> 15, fact |-> 10, decision |-> 13, event |-> 5, error_pattern |-> 10, file |-> 3,
           lesson |-> 20]
Result(kind, name, at, fit) == [kind |-> kind, name |-> name, fit |-> Weight[kind] * fit, at |-> at]

\* The n best of some results: the first met, of those that fit equally.
Ahead(r, q) ==
  LET Place(x) == CHOOSE k \in DOMAIN Kinds : Kinds[k] = x.kind
  IN \/ r.fit > q.fit
     \/ r.fit = q.fit /\ Place(r) < Place(q)
     \/ r.fit = q.fit /\ Place(r) = Place(q) /\ r.at < q.at
Best(rs, n) == {q \in rs : q.fit > 0 /\ Cardinality({r \in rs : Ahead(r, q)}) < n}

\* _search_entities and the like: a name has one result, at its first event.
NamedResults(kind, evs, ev) ==
  LET At(n) == {i \in DOMAIN evs : evs[i].kind = ev /\ evs[i].name = n}
  IN {Result(kind, n, Min(At(n)), Scores[n]) : n \in Named(Of(evs, ev))}
\* _search_facts, _search_decisions, _search_events: every event has one.
EventResults(kind, evs, evKinds) ==
  {Result(kind, evs[i].name, i, Scores[evs[i].name]) : i \in {j \in DOMAIN evs : evs[j].kind \in evKinds}}
\* _search_error_patterns: a pattern weighs more the more often it occurred.
Doublings(n) == Cardinality({k \in 1..n : 2^k <= n + 1})
ErrorResults(evs) ==
  {[r EXCEPT !.fit = @ * Doublings(ErrorPatterns(evs)[r.name])] : r \in NamedResults("error_pattern", evs, "error")}
\* _search_markdown_files: pages of entities and decisions, whoever wrote them when.
FileResults(v) ==
  LET pages == SetToSeq(DOMAIN v.entities \union {k[2] : k \in DOMAIN v.decisions})
  IN {Result("file", pages[i], i, IF pages[i] \in DOMAIN Scores THEN Scores[pages[i]] ELSE 0) :
        i \in DOMAIN pages}

\* search, find_related_to_issue
Related(evs, v) ==
  Best(NamedResults("entity", evs, "entity") \union EventResults("fact", evs, {"fact"})
         \union EventResults("decision", evs, {"decision"})
         \union EventResults("event", evs, {evs[i].kind : i \in DOMAIN evs})
         \union ErrorResults(evs) \union FileResults(v), SearchLimit)

(***************************************************************************)
(* find_repair_lessons reads the log, not the page written from it.        *)
(***************************************************************************)
\* Faulty variant: the page of lessons is taken for the log.
RecalledFromPage(evs, v) ==
  {[at |-> r.at, said |-> v.lessons[r.at]] :
     r \in Best(EventResults("event", v.lessons, {"lesson"}), LessonLimit)}
Recalled(evs, v) ==
  {[at |-> r.at, said |-> evs[r.at]] : r \in Best(EventResults("event", evs, {"lesson"}), LessonLimit)}

(***************************************************************************)
(* build_context_for_issue, and the cut of TaskAnalysis.analyze: goals.md, *)
(* the risks, the lessons, the exemplars and the sections, in this order.  *)
(* What is found as a file is not shown; of the events of an issue, which  *)
(* are last, one line is.  An exception leaves the prompt without any of it*)
(* all: of goals.md that is no text, and of a log that cannot be read.     *)
(***************************************************************************)
Sections == <<"lesson", "entity", "decision", "fact", "error_pattern", "event">>
Chosen(found, k) == Best({q \in found : q.kind = k}, SectionLimits[k])
LessonLine(l) == Result("lesson", l.said.name, l.at, Scores[l.said.name])
PromptLines(found, recalled) == {LessonLine(l) : l \in recalled}
                                  \union UNION {Chosen(found, k) : k \in DOMAIN SectionLimits}

\* The text up to the end of a line: high risks stand for the whole register.
Above(r, q) ==
  LET Place(x) == CHOOSE k \in DOMAIN Sections : Sections[k] = x.kind
  IN Place(r) < Place(q) \/ (r.kind = q.kind /\ (r.fit > q.fit \/ (r.fit = q.fit /\ r.at <= q.at)))
EndOf(q, goals, lines, v) ==
  LET above == {r \in lines : Above(r, q)}
      headings == 1 + Cardinality({r.kind : r \in above})
      risks == Min({RiskLimit, Cardinality(v.risks)})
  IN goals.size + HeadSize * (headings + risks)
     + (IF q.kind = "lesson" THEN 0 ELSE ExemplarSize) + MapThenSumSet(LAMBDA r : Sizes[r.name], above)
Fits(q, goals, lines, v) == EndOf(q, goals, lines, v) <= ContextLimit

NoPrompt == [lessons |-> {}, shown |-> [k \in DOMAIN SectionLimits |-> {}]]
Prompt(goals, evs, v) ==
  LET found == Related(evs, v)
      recalled == Recalled(evs, v)
      lines == PromptLines(found, recalled)
  IN IF ~goals.readable \/ ~Readable(evs) THEN NoPrompt
     ELSE [lessons |-> {l \in recalled : Fits(LessonLine(l), goals, lines, v)},
           shown |-> [k \in DOMAIN SectionLimits |->
                        {r.name : r \in {q \in Chosen(found, k) : Fits(q, goals, lines, v)}}]]
===============================================================================
