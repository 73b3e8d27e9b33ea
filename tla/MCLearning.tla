------------------------------ MODULE MCLearning ------------------------------
\* A small instance of Learning: two processes of one project.
EXTENDS Learning

CONSTANTS p1, p2

MCProcs == {p1, p2}
MCSymmetry == Permutations(MCProcs)

app == [dir |-> "app", name |-> "app/main", sort |-> "code"]
lib == [dir |-> "lib", name |-> "lib/util", sort |-> "code"]
deps == [dir |-> "", name |-> "deps", sort |-> "dep"]
lock == [dir |-> "", name |-> "lock", sort |-> "noise"]
conf == [dir |-> "", name |-> "conf", sort |-> "config"]

Did(path, did) == [path |-> path, did |-> did]
Bare == [found |-> {}, tools |-> {}]
Furnished == [found |-> {"todos", "routes", "tests"}, tools |-> {"linters", "test_frameworks", "ci"}]
Change(id, author, day, type, bang, touched, tree) ==
  [id |-> id, author |-> author, day |-> day, type |-> type, bang |-> bang,
   touched |-> touched, tree |-> tree]

\* Committed, or not: the knowledge base of the project.
journal == [dir |-> ".gg", name |-> "events", sort |-> "code"]
page == [dir |-> ".gg", name |-> "registry", sort |-> "code"]
MCPageFiles == {page}

\* One person's first commit, and three commits of two files that belong together.
First == Change("c1", "ann", 10, "other", FALSE, {Did(app, "add"), Did(lock, "add")}, Bare)
MCHistories ==
  {<<[First EXCEPT !.touched = @ \union {Did(journal, "add"), Did(page, "add")}]>>,
   <<Change("c3", "ann", 220, "feat", FALSE, {Did(app, "change"), Did(lib, "change")}, Bare),
     Change("c2", "bob", 20, "feat", FALSE,
            {Did(app, "change"), Did(lib, "add"), Did(conf, "add")}, Bare),
     First>>}
\* Meanwhile a refactoring, and a dependency that furnishes the checkout with tools.
MCCommits ==
  {Change("c4", "bob", 230, "refactor", TRUE, {Did(app, "rename"), Did(lib, "change")}, Bare),
   Change("c5", "ann", 240, "fix", FALSE, {Did(deps, "add"), Did(lib, "change")}, Furnished)}

Event(kind, issue, name, text, file) ==
  [kind |-> kind, issue |-> issue, name |-> name, text |-> text, file |-> file]
MCEvents ==
  {Event("lesson", 1, "close", "", app), Event("lesson", 1, "far", "", lib),
   Event("entity", 0, "app", "the program", app), Event("entity", 0, "lib", "the library", lib),
   Event("fact", 0, "python", "3.12", NoPath),
   Event("decision", 0, "store", "files", NoPath), Event("error", 1, "timeout", "", NoPath),
   Event("touch", 1, "", "", app), Event("research", 1, "", "", lib),
   Event("merged", 1, "", "", NoPath)}
\* What is not named here has the name "".
MCScores == ("close" :> 2 @@ "far" :> 1 @@ "app" :> 2 @@ "lib" :> 1 @@ "store" :> 4 @@ "timeout" :> 1
             @@ "python" :> 0 @@ "" :> 0)
MCSectionLimits == [entity |-> 1, decision |-> 1, fact |-> 1, error_pattern |-> 1, event |-> 2]

Budget(calls, others, deaths, commits, edits, kinds) ==
  [engine |-> calls, truth |-> others, crashes |-> deaths, commits |-> commits, edits |-> edits,
   events |-> {e \in MCEvents : e.kind \in kinds}]
MCBudgets ==
  {Budget(3, 0, 0, 1, 0, {"lesson"}), Budget(2, 0, 1, 1, 0, {"lesson", "error"}),
   Budget(2, 0, 0, 2, 1, {"research"}), Budget(2, 0, 0, 1, 1, {"entity"}),
   Budget(2, 0, 0, 2, 0, {"touch", "fact", "decision", "merged", "entity"}),
   Budget(0, 3, 0, 0, 0, {}), Budget(0, 2, 1, 0, 0, {}), Budget(1, 1, 1, 1, 0, {"lesson"})}
\* goals.md is not there, long, or no text.
MCGoalTexts == {[readable |-> r, size |-> n] : r \in BOOLEAN, n \in {0, 3}}
MCSizes == ("close" :> 2 @@ "far" :> 2 @@ "app" :> 1 @@ "lib" :> 3 @@ "store" :> 1 @@ "timeout" :> 1
            @@ "python" :> 1 @@ "" :> 1)
MCPartOf == {<<"retries", "no retries">>}
===============================================================================
