----------------------------- MODULE GitHistory -----------------------------
(***************************************************************************)
(* analyzers/git_history.py: what is learned from the commits of a project.*)
(* A history is a sequence of commits, newest first, as iter_commits gives *)
(* them; a commit has an author, a day, the type and the "!" of its title  *)
(* and the paths it touched with what it did to each.  A reading of it has *)
(* in each commit, as touched, what the commit's diff shows; all but the   *)
(* first two operators are about readings.  Fewer paths than the limits of *)
(* the lists (10 to 30) are assumed, and linear histories.                 *)
(***************************************************************************)
EXTENDS Integers, Sequences, FiniteSets, FiniteSetsExt

CONSTANTS DormantDays,   \* 180 in the code
          CoupleMin,     \* 3: the commits a file needs to be compared
          LargeChange,   \* 8: the files of a large change
          MovedFiles     \* 3: the renames of a restructuring

\* _is_noise_file: lock files, messages, translations, caches.
Noise(f) == f.sort = "noise"

\* The paths that git follows: the newest commit that touched one did not delete it.
InGit(h) ==
  LET At(f) == {i \in DOMAIN h : \E t \in h[i].touched : t.path = f}
  IN {f \in {t.path : t \in UNION {h[i].touched : i \in DOMAIN h}} :
        \A t \in h[Min(At(f))].touched : t.path = f => t.did # "delete"}

(***************************************************************************)
(* What the analysis sees: c.diff(parent) goes from a commit to its parent,*)
(* so that what the commit added shows as deleted.  The first commit is    *)
(* compared with the working tree: with what later commits did, and with   *)
(* the paths in dirty, whose text there no commit has yet (a change that   *)
(* was taken back is left out).                                            *)
(***************************************************************************)
Backwards == [add |-> "deleted", delete |-> "new", change |-> "changed", rename |-> "renamed"]

Reading(h, dirty) ==
  LET first == {t.path : t \in h[Len(h)].touched}
      later == UNION {h[i].touched : i \in 1..(Len(h) - 1)}
      differ == {t.path : t \in later} \union dirty
      moved == {t.path : t \in {u \in later : u.did = "rename"}}
      Show(fs, shown) == {[path |-> f, shown |-> shown] : f \in fs}
      both == differ \intersect first \intersect InGit(h)
      compared == Show((differ \intersect first) \ InGit(h), "deleted")
                  \union Show((differ \intersect InGit(h)) \ first, "new")
                  \union Show(both \intersect moved, "renamed") \union Show(both \ moved, "changed")
  IN [i \in DOMAIN h |->
        [h[i] EXCEPT !.touched = IF i = Len(h) THEN compared
                                 ELSE {[path |-> t.path, shown |-> Backwards[t.did]] : t \in @}]]

Diff(h, i) == h[i].touched

Paths(h, i) == {d.path : d \in Diff(h, i)}
AllPaths(h) == UNION {Paths(h, i) : i \in DOMAIN h}

\* _build_commit_file_map: the commits of each file, the newest is the least.
FileMap(h) == [f \in AllPaths(h) |-> {i \in DOMAIN h : f \in Paths(h, i)}]

\* The most frequent of some commits' authors; of equals the one met first.
Count(h, at, a) == Cardinality({i \in at : h[i].author = a})
TopAuthor(h, at) ==
  LET most == Max({Count(h, at, h[i].author) : i \in at})
  IN h[Min({i \in at : Count(h, at, h[i].author) = most})].author

\* _extract_contributors
Contributors(h) ==
  {[name |-> a, commits |-> Count(h, DOMAIN h, a),
    last |-> h[Min({i \in DOMAIN h : h[i].author = a})].day] : a \in {h[i].author : i \in DOMAIN h}}

\* _extract_hot_files
HotFiles(h) ==
  {[path |-> f, changes |-> Cardinality(FileMap(h)[f])] : f \in {g \in AllPaths(h) : ~Noise(g)}}

\* _extract_coupled_files: pairs changed together in 3 of 10 of their commits.
Coupled(h) ==
  LET often == {f \in AllPaths(h) : ~Noise(f) /\ Cardinality(FileMap(h)[f]) >= CoupleMin}
      Both(f, g) == Cardinality(FileMap(h)[f] \intersect FileMap(h)[g])
      Any(f, g) == Cardinality(FileMap(h)[f] \union FileMap(h)[g])
  IN {[pair |-> {fg[1], fg[2]}, both |-> Both(fg[1], fg[2]), any |-> Any(fg[1], fg[2])] :
        fg \in {p \in often \X often : p[1] # p[2] /\ 10 * Both(p[1], p[2]) >= 3 * Any(p[1], p[2])}}

\* _analyze_file_ownership
Ownership(h) ==
  {[path |-> f, owner |-> TopAuthor(h, FileMap(h)[f]),
    share |-> <<Count(h, FileMap(h)[f], TopAuthor(h, FileMap(h)[f])), Cardinality(FileMap(h)[f])>>] :
     f \in AllPaths(h)}

\* _analyze_churn: these diffs are made without a patch, no line is ever counted.
Churn(h) ==
  {[path |-> f, changes |-> Cardinality(FileMap(h)[f]), lines |-> 0] : f \in AllPaths(h)}

\* _find_dormant_files
Dormant(h) ==
  {f \in AllPaths(h) : h[Min(FileMap(h)[f])].day < h[1].day - DormantDays}

\* _find_architectural_commits: the first of these that holds.
ArchitecturalType(h, i) ==
  LET Touches(sort) == \E f \in Paths(h, i) : f.sort = sort
      moved == {d \in Diff(h, i) : d.shown = "renamed"}
  IN CASE h[i].type = "refactor" -> "refactor"
       [] h[i].type # "refactor" /\ h[i].bang -> "breaking_change"
       [] h[i].type # "refactor" /\ ~h[i].bang /\ Cardinality(Diff(h, i)) >= LargeChange -> "large_change"
       [] OTHER -> IF Touches("dep") THEN "dependency_change"
                   ELSE IF Touches("config") THEN "config_change"
                   ELSE IF Cardinality(moved) >= MovedFiles THEN "restructuring" ELSE "none"
Architectural(h) ==
  {[commit |-> h[i].id, day |-> h[i].day, type |-> ArchitecturalType(h, i)] :
     i \in {j \in DOMAIN h : ArchitecturalType(h, j) # "none"}}

\* _find_dependency_changes
DependencyChanges(h) ==
  LET Action(d) == CASE d.shown = "new" -> "added"
                     [] d.shown = "deleted" -> "removed"
                     [] OTHER -> "modified"
  IN UNION {{[commit |-> h[i].id, path |-> d.path, action |-> Action(d)] :
               d \in {e \in Diff(h, i) : e.path.sort = "dep"}} : i \in DOMAIN h}

\* _calculate_bus_factor: the authors of each directory at the top.
Modules(h) == {f.dir : f \in {g \in AllPaths(h) : g.dir # "" /\ ~Noise(g)}}
BusFactor(h) ==
  [m \in Modules(h) |->
     Cardinality({h[i].author : i \in UNION {FileMap(h)[f] :
        f \in {g \in AllPaths(h) : g.dir = m /\ ~Noise(g)}}})]

\* _monthly_activity, _feature_velocity; a month has 30 days.
Month(c) == c.day \div 30
Monthly(h) ==
  [m \in {Month(h[i]) : i \in DOMAIN h} |-> Cardinality({i \in DOMAIN h : Month(h[i]) = m})]
Velocity(h) ==
  LET typed == {i \in DOMAIN h : h[i].type # "other"}
  IN [k \in {<<Month(h[i]), h[i].type>> : i \in typed} |->
        Cardinality({i \in typed : <<Month(h[i]), h[i].type>> = k})]

\* _analyze_commit_style: how many titles are conventional.
Style(h) == <<Cardinality({i \in DOMAIN h : h[i].type # "other"}), Len(h)>>

(***************************************************************************)
(* _calculate_risk_scores, in 120ths of a point (exact up to 5 commits):   *)
(* three points for the share of the hottest file's changes, two for each  *)
(* coupling's index, half as much again in a module that one person knows, *)
(* or that has no bus factor.  Churn adds nothing, its lines being 0.      *)
(***************************************************************************)
RiskScores(h) ==
  LET hottest == Max({x.changes : x \in HotFiles(h)})
      Heat(x) == (360 * x.changes) \div hottest
      Pull(f) == MapThenSumSet(LAMBDA c : (240 * c.both) \div c.any,
                                {c \in Coupled(h) : f \in c.pair})
      Known(f) == IF f.dir \in Modules(h) THEN BusFactor(h)[f.dir] ELSE 1
      Base(x) == Heat(x) + Pull(x.path)
      hot == {[path |-> x.path, score |-> IF Known(x.path) <= 1 THEN (3 * Base(x)) \div 2 ELSE Base(x)] :
                x \in HotFiles(h)}
      \* The churn list brings the paths the others leave out, with nothing.
      cold == {[path |-> f, score |-> 0] : f \in {g \in AllPaths(h) : Noise(g)}}
  IN hot \union cold

\* analyze_git_history
Profile(h) ==
  [contributors |-> Contributors(h), lead |-> TopAuthor(h, DOMAIN h), hot |-> HotFiles(h), coupled |-> Coupled(h),
   style |-> Style(h), monthly |-> Monthly(h), ownership |-> Ownership(h), churn |-> Churn(h),
   dormant |-> Dormant(h), architectural |-> Architectural(h),
   dependencies |-> DependencyChanges(h), bus |-> BusFactor(h), velocity |-> Velocity(h),
   risk |-> RiskScores(h), first |-> h[Len(h)].day, last |-> h[1].day, total |-> Len(h)]
===============================================================================
