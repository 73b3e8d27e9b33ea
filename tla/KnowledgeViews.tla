----------------------------- MODULE KnowledgeViews -----------------------------
(***************************************************************************)
(* What the knowledge base shows: the collectors (collectors.py) and the   *)
(* compiler (compiler.py), as functions of the events read, the history of *)
(* the project, and the files that are there already.  An event has a kind,*)
(* an issue (0 for none), a name (of an entity, a fact, a decision, an     *)
(* error pattern, a lesson), a text and a file.  Facts and owners given    *)
(* with an entity, and everything about layout, are left out.              *)
(***************************************************************************)
EXTENDS GitHistory, Places, SequencesExt, TLC

CONSTANTS TopDirs,       \* the directories at the top of the checkout
          Recurring,     \* 3: the occurrences that make an error a risk
          ManyDormant,   \* 10: more dormant files than this are a risk
          HighRisk       \* 5 points, in the 120ths of RiskScores

ASSUME ViewsAssumption == IsFiniteSet(TopDirs)

NoPath == [dir |-> "", name |-> "", sort |-> ""]
NoEvent == [kind |-> "none", issue |-> 0, name |-> "", text |-> "", file |-> NoPath]
Cut == [NoEvent EXCEPT !.kind = "cut"]
\* read_all raises at the first line it cannot read.
Readable(lines) == \A i \in DOMAIN lines : lines[i] # Cut
Of(evs, kind) == Picked(evs, {i \in DOMAIN evs : evs[i].kind = kind})
Named(evs) == {evs[i].name : i \in DOMAIN evs}

\* collect_entities_from_events: the last description, "" too, and all the files.
CollectedEntities(evs) ==
  LET found == Of(evs, "entity")
      At(n) == {i \in DOMAIN found : found[i].name = n}
  IN [n \in Named(found) |-> [text |-> found[Max(At(n))].text,
                              files |-> {found[i].file : i \in At(n)} \ {NoPath}]]
\* collect_facts_from_events, collect_decisions_from_events: in order, repeated ones too.
CollectedFacts(evs) == LET fs == Of(evs, "fact")
                       IN [i \in DOMAIN fs |-> <<fs[i].name, fs[i].text>>]
CollectedDecisions(evs) == LET ds == Of(evs, "decision")
                           IN [i \in DOMAIN ds |-> [key |-> <<"today", ds[i].name>>, text |-> ds[i].text]]
\* collect_error_patterns
ErrorPatterns(evs) ==
  LET es == Of(evs, "error")
  IN [n \in Named(es) |-> Cardinality({i \in DOMAIN es : es[i].name = n})]
\* collect_file_touch_frequency: what research analyzed is recorded under another key.
Touches(evs) ==
  LET ts == Of(evs, "touch")
  IN [f \in {ts[i].file : i \in DOMAIN ts} |-> Cardinality({i \in DOMAIN ts : ts[i].file = f})]

\* Nothing has been written yet; the registry is a sequence of at most one file.
NoViews == [entities |-> <<>>, registry |-> <<>>, decisions |-> <<>>, risks |-> {},
            insights |-> {}, intel |-> {}, checklist |-> {}, patterns |-> <<>>,
            stats |-> <<0, 0>>, lessons |-> <<>>]

(***************************************************************************)
(* _compile_entities: a page for each directory and each entity known from *)
(* events, with what the history and the agents' work say of its files.    *)
(***************************************************************************)
Page(n, known, touches, g) ==
  LET owners == {o \in g.ownership : o.path.dir = n}
  IN [text |-> known.text, files |-> known.files,
      hot |-> {x \in g.hot : x.path.dir = n},
      touched |-> {<<f, touches[f]>> : f \in {k \in DOMAIN touches : k.dir = n}},
      owners |-> owners, owner |-> IF owners = {} THEN g.lead ELSE "",
      bus |-> IF n \in DOMAIN g.bus THEN g.bus[n] ELSE 0,
      risk |-> {r \in g.risk : r.path.dir = n}]
Unknown == [text |-> "", files |-> {}]

CompileEntities(evs, g, old) ==
  LET met == CollectedEntities(evs)
      Met(n) == IF n \in DOMAIN met THEN met[n] ELSE Unknown
  IN Over([n \in TopDirs \union DOMAIN met |-> Page(n, Met(n), Touches(evs), g)], old.entities)

\* _upsert_entity: a page of what the new events alone say.
Upserted(met, old) ==
  Over([n \in DOMAIN met |->
          [text |-> met[n].text, files |-> met[n].files, hot |-> {}, touched |-> {},
           owners |-> {}, owner |-> "", bus |-> 0, risk |-> {}]], old.entities)

\* _compile_fact_registry: written anew; the count of events is in stats.
CompileRegistry(evs, g) ==
  <<[git |-> g, touched |-> Touches(evs), facts |-> CollectedFacts(evs), recent |-> <<>>]>>

\* _append_facts_to_registry: below a registry that is there.
Appended(facts, registry) ==
  IF registry = <<>> THEN registry ELSE [registry EXCEPT ![1].recent = @ \o facts]

\* Faulty variant: a decision written again gets a file of its own.
WrittenAgain(ds, old) ==
  FoldLeft(LAMBDA files, d : (<<ToString(Cardinality(DOMAIN files)), d.key[2]>> :> d.text) @@ files, old, ds)

\* _write_decision: one file for each day and title, the last one written wins.
Written(ds, old) ==
  LET At(k) == {i \in DOMAIN ds : ds[i].key = k}
  IN Over([k \in {ds[i].key : i \in DOMAIN ds} |-> ds[Max(At(k))].text], old)
\* _compile_decisions: the recorded ones, then the commits that look like one.
AutoDecisions(g) ==
  LET telling == {c \in g.architectural :
                    c.type \in {"dependency_change", "refactor", "breaking_change", "restructuring"}}
  IN [k \in {<<"auto", c.commit>> : c \in telling} |-> (CHOOSE c \in telling : c.commit = k[2]).type]
CompileDecisions(evs, g, old) == Over(AutoDecisions(g), Written(CollectedDecisions(evs), old.decisions))

(***************************************************************************)
(* _compile_risk_register: no file is written when there is no risk, and   *)
(* the one that is there stays.  Risks are numbered anew each time.        *)
(***************************************************************************)
Risks(evs, g, tools) ==
  LET Risk(category, about) == [category |-> category, about |-> about]
      volatile == {c \in g.churn : c.lines > 5 * c.changes /\ c.changes >= 5}
      high == {r \in g.risk : r.score > HighRisk}
      errors == ErrorPatterns(evs)
  IN {Risk("single contributor", m) : m \in {k \in DOMAIN g.bus : g.bus[k] <= 1}}
     \union {Risk("high churn", c.path.name) : c \in volatile}
     \union {Risk("missing", t) : t \in {"linters", "test_frameworks", "ci"} \ tools}
     \union (IF Cardinality(g.dormant) > ManyDormant THEN {Risk("dormant files", "")} ELSE {})
     \union (IF high # {} THEN {Risk("high risk files", "")} ELSE {})
     \union {Risk("recurring error", n) : n \in {k \in DOMAIN errors : errors[k] >= Recurring}}
CompileRisks(evs, g, tools, old) ==
  IF Risks(evs, g, tools) = {} THEN old.risks ELSE Risks(evs, g, tools)

\* _compile_codebase_insights, _compile_project_intel: what the checkout no longer
\* has stays described; the checklist alone is always written.
CompileInsights(found, old) ==
  LET shown == found \intersect {"todos", "routes", "env_vars", "imports"}
  IN IF shown = {} THEN old.insights ELSE shown
CompileIntel(found, old) ==
  old.intel \union (found \intersect {"endpoints", "tables", "components", "tests", "exemplars"})

\* _compile_error_patterns, _compile_pipeline_stats
CompilePatterns(evs, old) ==
  IF DOMAIN ErrorPatterns(evs) = {} THEN old.patterns ELSE ErrorPatterns(evs)
Stats(evs, old) ==
  IF evs = <<>> THEN old.stats
  ELSE <<Len(evs), Cardinality({evs[i].issue : i \in DOMAIN evs} \ {0})>>

\* KnowledgeCompiler.rebuild, up to the event it records.
Compiled(evs, h, old) ==
  LET g == Profile(h)
      here == h[1].tree
  IN [entities |-> CompileEntities(evs, g, old), registry |-> CompileRegistry(evs, g),
      decisions |-> CompileDecisions(evs, g, old), risks |-> CompileRisks(evs, g, here.tools, old),
      insights |-> CompileInsights(here.found, old), intel |-> CompileIntel(here.found, old),
      checklist |-> here.tools, patterns |-> CompilePatterns(evs, old), stats |-> Stats(evs, old),
      lessons |-> old.lessons]

\* KnowledgeCompiler.incremental_update
Updated(evs, old) ==
  [old EXCEPT !.entities = Upserted(CollectedEntities(evs), old),
              !.decisions = Written(CollectedDecisions(evs), @),
              !.registry = Appended(CollectedFacts(evs), @)]
===============================================================================
