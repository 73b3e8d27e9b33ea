-------------------------------- MODULE FinalGate --------------------------------
(***************************************************************************)
(* The last look at a winner, once its pull request is open                *)
(* (pipeline.py _write_final_verification): the dimensions of its          *)
(* evaluation, the reviewers its files call for (review_gates.py), the     *)
(* patterns found in those files as the project's own checkout has them    *)
(* (agent_patterns.py), and whether the sources of the prompts are those   *)
(* the project was set up with (prompt_manifest.py, protocol.py).  Of a    *)
(* text only what the scan looks for is kept: the lines of its unbounded   *)
(* loops and retries, whether it is long for a prompt, the tools it refers *)
(* to and those it defines.  Texts that are not scanned (other suffixes,   *)
(* caches, more than 512000 bytes) are not in the checkout.                *)
(***************************************************************************)
EXTENDS Evaluation

CONSTANT Areas   \* of each file: what its path tells of it

\* required_reviewers_for_files: the dimensions they look at.
Calls == [auth |-> "security", infra |-> "operability", frontend |-> "code", agent |-> "agent_patterns"]
Reviewed(files) == {"tests"} \cup {Calls[a] : a \in UNION {Areas[f] : f \in files}}

\* _finding: a fingerprint covers all of it, the line too.
Finding(rule, file, at, reliable) == [rule |-> rule, file |-> file, at |-> at, reliable |-> reliable]

\* _loop_safety_findings, _retry_limit_findings, _context_size_findings
FindingsIn(file, text) ==
  {Finding("unbounded-agent-loop", file, line, TRUE) : line \in text.loops}
  \cup {Finding("unbounded-retry", file, line, TRUE) : line \in text.retries}
  \cup (IF text.long THEN {Finding("context-size-risk", file, 1, FALSE)} ELSE {})

\* _tool_references, _defined_tools: a tool must be defined somewhere in the checkout.
Unregistered(files, checkout) ==
  LET defined == UNION {checkout[f].defines : f \in DOMAIN checkout}
  IN UNION {{Finding("tool-registry-mismatch", f, tool, TRUE) : tool \in checkout[f].refers \ defined} :
              f \in files}

\* verify_agent_patterns and blocking_agent_pattern_findings; dismissed are the
\* findings a person has accepted, ignored or called false.
Blocking(files, checkout, dismissed) ==
  LET scanned == files \cap DOMAIN checkout
      found == UNION {FindingsIn(f, checkout[f]) : f \in scanned} \cup Unregistered(scanned, checkout)
  IN {x \in found : x.reliable} \ dismissed

\* verify_prompt_manifest: recorded at gg init, or not at all; installed now.
ManifestStatus(recorded, installed) ==
  IF recorded = {} THEN "warn" ELSE IF recorded = {installed} THEN "pass" ELSE "fail"

\* The dimensions of the evaluation and the one the gate adds.
FinalDimensions(r, blocking) ==
  [d \in DOMAIN Dimensions(r) \cup {"agent_patterns"} |->
     IF d = "agent_patterns" THEN blocking = {} ELSE Dimensions(r)[d]]

\* build_protocol_obligations, those that block: artifacts, reviewers, the manifest.
Obligations(dimensions, reviewed, missing, manifest) ==
  {<<"artifact", a>> : a \in missing}
  \cup {<<"reviewer", d>> : d \in {e \in reviewed : ~dimensions[e]}}
  \cup (IF manifest = "fail" THEN {<<"surface", "prompt-manifest">>} ELSE {})

\* _write_final_verification: what keeps the winner's record r from being done.
Blockers(r, files, missing, checkout, dismissed, manifest) ==
  LET blocking == Blocking(files, checkout, dismissed)
      dimensions == FinalDimensions(r, blocking)
  IN {<<"dimension", d>> : d \in {e \in DOMAIN dimensions : ~dimensions[e]}}
     \cup {<<"pattern", x.rule>> : x \in blocking}
     \cup Obligations(dimensions, Reviewed(files), missing, manifest)
================================================================================
