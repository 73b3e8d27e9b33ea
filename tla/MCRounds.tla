-------------------------------- MODULE MCRounds --------------------------------
(* Values for Rounds: a tracked source file and a tracked image, a new source file,  *)
(* a new image in a new directory, a new dependency manifest.                        *)
EXTENDS Rounds, TLC

MCFiles == {"app", "logo", "fresh", "buried", "manifest"}

Work(s, fs, staged) == [setup |-> s, wrote |-> fs, staged |-> staged]

\* Without a setup, one agent that stages; a setup that leaves a lockfile, with an agent
\* that only talks.
MCWorks == {Work({}, fs, {}) : fs \in {{}, {"app", "logo"}, {"fresh"}, {"logo", "buried"}}}
           \cup {Work({}, {"app"}, {"app"}), Work({"manifest"}, {}, {})}

\* The default branch gets another text, or just what the agent wrote.
MCMerges == {[Base EXCEPT !["app"] = "upstream"], [Base EXCEPT !["app"] = "edited", !["logo"] = "edited"]}

\* The tests of the base commit fail in a known way: verifying a worktree can then come
\* to all it can come to over a base commit that passes, and more.
MCBaselines == {[c \in Commands |-> CHOOSE k \in Checks(c) :
                                       k.status = IF c = "test" THEN "failed" ELSE "passed"]}

\* The project's checkout is clean, has a loop nobody ends, or names a missing tool.
MCAreas == "app" :> {"frontend"} @@ "fresh" :> {"agent"} @@ "logo" :> {} @@ "buried" :> {"auth"}
           @@ Dir :> {"auth"} @@ "manifest" :> {"infra"}
Text(loops, long, refers, defines) ==
  [loops |-> loops, retries |-> {}, long |-> long, refers |-> refers, defines |-> defines]
Endless == Finding("unbounded-agent-loop", "app", 7, TRUE)
MCCheckouts == {"app" :> Text({}, TRUE, {"grep"}, {"grep"}), "app" :> Text({7}, FALSE, {}, {}),
                "app" :> Text({}, FALSE, {"grep"}, {})}
MCDismissals == {{}, {Endless}}
================================================================================
