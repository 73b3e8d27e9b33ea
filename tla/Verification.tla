------------------------------ MODULE Verification ------------------------------
(***************************************************************************)
(* src/gg/orchestrator/verification.py and its use in pipeline.py: the     *)
(* commands a worktree is verified with, their retries, what they find,    *)
(* and when a verification passes against that of the baseline.            *)
(***************************************************************************)
EXTENDS Integers, FiniteSets, FiniteSetsExt

CONSTANTS Configured,    \* the categories with a command in the configuration
          Discoverable,  \* the categories the project's files suggest a command for
          Advisory,      \* verify.advisory_checks
          RetryCount,    \* verify.test_retry_count
          AllowKnown,    \* verify.allow_known_baseline_failures
          BlockHigh      \* verify.block_on_security_high

Categories == {"test", "lint", "typecheck", "security", "coverage", "format",
               "dependency-audit"}

ASSUME VerificationAssumption ==
  /\ Configured \subseteq Categories /\ Discoverable \subseteq Categories
  /\ {Advisory, AllowKnown, BlockHigh} \subseteq BOOLEAN
  /\ RetryCount \in Nat

(***************************************************************************)
(* _verification_commands: the configured ones, then those discovered in   *)
(* categories nothing is configured for.  A command is named by its        *)
(* category.                                                               *)
(***************************************************************************)
Discovered == (Discoverable \cap {"test", "lint", "typecheck", "security"}) \ Configured

Commands == Configured \cup Discovered

Required(c) == IF c \in Configured
                 THEN c \in {"test", "lint", "typecheck", "security"} \/ ~Advisory
                 ELSE c = "test"

\* One execution: how it ends, what it prints, and the high findings in that.
Executions(c) ==
  [exit : {"zero", "nonzero", "late"}, out : {"a", "b"},
   high : IF c = "security" THEN {{}, {"leak"}} ELSE {{}}]

\* _run_once: a security command with findings has failed whatever its exit code.
RunOnce(c, x) ==
  [status |-> IF x.exit = "late" THEN "timeout"
              ELSE IF x.exit = "zero" /\ ~(c = "security" /\ x.high # {}) THEN "passed"
              ELSE "failed",
   exit |-> x.exit, out |-> x.out, high |-> x.high]

Passing == {"passed", "skipped", "flaky"}

(***************************************************************************)
(* VerificationRunner.run: up to RetryCount more executions.  The first    *)
(* that passes ends it, as flaky if another failed before; otherwise the   *)
(* last failure stands.                                                    *)
(***************************************************************************)
Check(c, xs) ==
  LET passes == {i \in DOMAIN xs : RunOnce(c, xs[i]).status = "passed"}
      i      == IF passes = {} THEN RetryCount + 1 ELSE Min(passes)
  IN [RunOnce(c, xs[i]) EXCEPT !.status = IF @ = "passed" /\ i > 1 THEN "flaky" ELSE @]

\* What the check of command c can come to.
Checks(c) == {Check(c, xs) : xs \in [1..(RetryCount + 1) -> Executions(c)]}

\* What verifying a worktree can come to.
Results == {k \in [Commands -> UNION {Checks(c) : c \in Commands}] :
              \A c \in Commands : k[c] \in Checks(c)}

Failing(checks) == {c \in DOMAIN checks : checks[c].status \notin Passing}

\* _check_fingerprint.
Fingerprint(k) == <<k.status, k.exit, k.out, k.high>>

High(checks) == UNION {checks[c].high : c \in DOMAIN checks}

\* _with_baseline_status and _verification_passed: failed there, and in the same way.
KnownFailure(c, checks, baseline) ==
  /\ c \in Failing(baseline)
  /\ Fingerprint(checks[c]) = Fingerprint(baseline[c])

(***************************************************************************)
(* _verification_passed: no high finding the baseline does not have, and   *)
(* no required command fails, or only as it fails on the baseline.         *)
(***************************************************************************)
VerificationPassed(checks, baseline) ==
  /\ BlockHigh => High(checks) \subseteq High(baseline)
  /\ \A c \in {d \in Failing(checks) : Required(d)} :
       AllowKnown /\ KnownFailure(c, checks, baseline)

================================================================================
