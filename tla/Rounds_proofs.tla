------------------------------ MODULE Rounds_proofs ------------------------------
(***************************************************************************)
(* What holds of the rounds of candidates for every configuration, every   *)
(* number of crashes and every repository, with its proof: the invariant   *)
(* of Rounds is IInv below.                                                *)
(***************************************************************************)
EXTENDS Rounds, FiniteSetTheorems, SequenceTheorems, WellFoundedInduction, TLAPS

RunFields == {"st", "attempt", "started", "best", "stuck", "used", "marked", "step",
              "error", "winner", "baseline", "base"}

InLoop     == {"loop", "launch", "plan", "batch"}
Publishing == {"publish", "apply", "verify", "commit"}
Pcs        == {"idle", "select", "evaluated"} \cup InLoop \cup Publishing

Scored == -400..150
Scores == {NoScore} \cup Scored

Worktree == [head : Tree, index : Tree, tree : Tree]

\* The worktree of a candidate before it is verified: files of the base commit, and
\* files that were written; what is staged is the one or the other.
AgentWork(w) ==
  /\ w \in Worktree /\ w.head = Base
  /\ \A f \in Files : w.tree[f] \in {Base[f], "edited"} /\ w.index[f] \in {Base[f], w.tree[f]}

\* What a winner has shown.
Proven(w) ==
  /\ Eligible(w) /\ AgentWork(w.before) /\ Alike(w.after, w.before)
  /\ w.patch = PatchOf(w.before) /\ Violations(Listed(w.before), Disallowed) = {}

\* What is known of a candidate of the round in each of its phases.
Candidate(c) ==
  /\ c.phase \in {"planned", "generated", "done"} /\ c.index \in Nat
  /\ c.id \in 1..run.started /\ c.id \notin seen.rejected
  /\ c.phase = "generated" =>
       /\ AgentWork(c.did.w)
       /\ c.did.status = "success" =>
            c.did.reported = Reported(c.did.w, "success") /\ Listed(c.did.w) # {}
  /\ c.phase = "done" =>
       c.failed \in 0..7 /\ c.size \in Nat /\ (Eligible(c) => Proven(Kept(c)))

\* Every field has its type.
Types ==
  /\ DOMAIN run = RunFields /\ pc \in Pcs
  /\ run.attempt \in 1..MaxAttempts /\ run.started \in Nat /\ run.used \in Nat
  /\ run.marked \in BOOLEAN /\ run.stuck \in Nat /\ {run.best, past} \subseteq Scores
  /\ run.winner # <<>> =>
       run.winner = <<Winner>> /\ Proven(Winner) /\ Winner.id \in 1..run.started
  /\ run.baseline \in {<<>>} \cup {<<b>> : b \in Baselines}
  /\ allowed \in 0..Candidates /\ upstream \in Tree
  /\ integ # <<>> => integ = <<integ[1]>> /\ integ[1] \in Worktree
  /\ left \in [crashes : 0..MaxCrashes, resumes : 0..MaxResumes]
  /\ seen \in [top : Scores, dry : Nat, rejected : SUBSET (1..run.started)]

\* The state of the run that is on disk while its process is at pc.
OnDisk ==
  /\ pc = "select" => run.st = "ReadyForExecution"
  /\ pc \in InLoop => run.st = "AgentRunning"
  /\ pc = "evaluated" => run.st = "ResultEvaluation"
  /\ pc \in Publishing => run.st = "OutcomePublishing"

\* A round has its candidates from the first that is planned until it is left.
InRound ==
  /\ pc \in InLoop \cup {"evaluated"} => allowed # 0 /\ run.baseline # <<>>
  /\ pc \notin {"plan", "batch", "evaluated"} => round = <<>>
  /\ pc \in {"plan", "batch", "evaluated"} => round # <<>>
  /\ round \in Seq(Records)
  /\ \A i \in DOMAIN round : Candidate(round[i])

\* There is room for the candidates of the batch that are still to be planned.
Bounded ==
  /\ run.started <= MaxTotal /\ run.used <= MaxEscalated
  /\ run.marked => run.used < MaxEscalated
  /\ pc = "plan" => Len(round) < BatchSize /\ run.started + (BatchSize - Len(round)) <= MaxTotal

\* The count in state.json is behind that of the evaluated rounds, and no score the
\* process compares with is above the best the run has had.
Compares ==
  /\ run.best <= seen.top /\ past <= seen.top
  /\ run.stuck <= seen.dry
  /\ run.st \notin Terminal => run.stuck < StopAfter
  /\ run.stuck <= StopAfter
  /\ run.error = "no_progress" => run.st \in Terminal /\ pc = "idle" /\ seen.dry >= StopAfter

\* What is published has been selected, and was not rejected before.
Chosen ==
  /\ run.st \in {"OutcomePublishing", "Completed"} => run.winner # <<>>
  /\ run.winner # <<>> /\ (pc = "evaluated" \/ run.st \in {"OutcomePublishing", "Completed"})
       => Winner.id \notin seen.rejected

\* The integration worktree, from the step that is on disk.
Integrated ==
  /\ run.st = "OutcomePublishing" /\ run.step # "started" => integ # <<>>
  /\ pc \in {"apply", "verify", "commit"} => integ # <<>>
  /\ pc = "apply" => integ = <<Checkout(integ[1].head)>>
  /\ CarriedByPatch

IInv == Types /\ OnDisk /\ InRound /\ Bounded /\ Compares /\ Chosen /\ Integrated

-----------------------------------------------------------------------------
(***************************************************************************)
(* Worktrees and patches.                                                  *)
(***************************************************************************)
LEMMA Bounds ==
  /\ Candidates \in Nat /\ 1 <= Candidates /\ RepairCandidates \in Nat /\ 1 <= RepairCandidates
  /\ MaxAttempts \in Nat /\ 1 <= MaxAttempts /\ MaxTotal \in Nat
  /\ StopAfter \in Nat /\ 1 <= StopAfter /\ MaxEscalated \in Nat
  /\ MaxCrashes \in Nat /\ MaxResumes \in Nat
BY RoundsAssumption

LEMMA BaseTyped == Base \in Tree /\ \A f \in Files : Base[f] \in {"base", "absent"}
BY DEF Base, Tree, Content

LEMMA CheckoutTyped ==
  ASSUME NEW t \in Tree
  PROVE  /\ Checkout(t) \in Worktree
         /\ Checkout(t).head = t /\ Checkout(t).index = t /\ Checkout(t).tree = t
BY DEF Checkout, Worktree

LEMMA AllCommittedTyped ==
  ASSUME NEW w \in Worktree
  PROVE  AllCommitted(w) \in Worktree
BY CheckoutTyped DEF AllCommitted, Worktree

LEMMA WriteDoes ==
  ASSUME NEW w \in Worktree, NEW fs, NEW c \in Content
  PROVE  LET v == WriteFiles(w, fs, c) IN
         /\ v \in Worktree /\ v.head = w.head /\ v.index = w.index
         /\ \A f \in Files : v.tree[f] = IF f \in fs THEN c ELSE w.tree[f]
BY DEF WriteFiles, Worktree, Tree

LEMMA StageDoes ==
  ASSUME NEW w \in Worktree, NEW fs
  PROVE  LET v == Stage(w, fs) IN
         /\ v \in Worktree /\ v.head = w.head /\ v.tree = w.tree
         /\ \A f \in Files : v.index[f] = IF f \in fs THEN w.tree[f] ELSE w.index[f]
BY DEF Stage, Worktree, Tree

\* The setup and the agent leave a candidate's worktree as AgentWork says.
LEMMA WorkedIs ==
  ASSUME NEW a
  PROVE  AgentWork(SetUp(a)) /\ AgentWork(Worked(a))
<1> DEFINE c == Checkout(Base)
           u == WriteFiles(c, a.setup, "edited")
           v == WriteFiles(u, a.wrote, "edited")
<1>1. c \in Worktree /\ c.head = Base /\ c.index = Base /\ c.tree = Base
  BY BaseTyped, CheckoutTyped
<1>2. "edited" \in Content
  BY DEF Content
<1>3. /\ u \in Worktree /\ u.head = Base /\ u.index = Base
      /\ \A f \in Files : u.tree[f] = IF f \in a.setup THEN "edited" ELSE Base[f]
  BY <1>1, <1>2, WriteDoes
<1>4. /\ v \in Worktree /\ v.head = Base /\ v.index = Base
      /\ \A f \in Files : v.tree[f] = IF f \in a.wrote THEN "edited" ELSE u.tree[f]
  BY <1>2, <1>3, WriteDoes
<1>5. SetUp(a) = u /\ Worked(a) = Stage(v, a.staged)
  BY DEF SetUp, Worked
<1> HIDE DEF c, u, v
<1>6. AgentWork(SetUp(a))
  BY <1>3, <1>5 DEF AgentWork
<1>7. AgentWork(Worked(a))
  BY <1>3, <1>4, <1>5, StageDoes DEF AgentWork
<1>8. QED BY <1>6, <1>7

\* The entry of a file in the diff.
Shown(w, f) == IF w.index[f] = "absent" THEN AsText(f, w.tree[f]) ELSE w.tree[f]

LEMMA EntryMade ==
  ASSUME NEW w, NEW f \in Unstaged(w) \cup Untracked(w)
  PROVE  \E e \in Diff(w) : e.file = f /\ e.to = Shown(w, f)
<1>1. CASE f \in Unstaged(w)
  <2>1. [file |-> f, from |-> w.index[f], to |-> w.tree[f]] \in Edits(w)
    BY <1>1 DEF Edits
  <2>2. QED BY <1>1, <2>1 DEF Diff, Shown, Unstaged
<1>2. CASE f \in Untracked(w)
  <2>1. [file |-> f, from |-> "absent", to |-> AsText(f, w.tree[f])] \in Blocks(w)
    BY <1>2 DEF Blocks
  <2>2. QED BY <1>2, <2>1 DEF Diff, Shown, Untracked
<1>3. QED BY <1>1, <1>2

\* Where a path is listed there is a patch to take.
LEMMA ListedWhereChanged ==
  ASSUME NEW w, NEW f \in Unstaged(w) \cup Untracked(w)
  PROVE  Listed(w) # {} /\ PatchOf(w) = Diff(w)
<1>1. Listed(w) # {}
  BY DEF Listed
<1>2. QED BY <1>1 DEF PatchOf

\* A verification that wrote into the worktree shows in what git tells of it: it writes
\* what no agent writes, so the file is in the diff with a text that was not there, or it
\* was a new file before and reads as it did.
LEMMA WritingShows ==
  ASSUME NEW w, AgentWork(w), NEW fs \in SUBSET Files,
         LET v == WriteFiles(w, fs, "spoilt") IN
           Listed(v) = Listed(w) /\ PatchOf(v) = PatchOf(w)
  PROVE  Alike(WriteFiles(w, fs, "spoilt"), w)
<1> DEFINE v == WriteFiles(w, fs, "spoilt")
<1>1. "spoilt" \in Content
  BY DEF Content
<1>2. /\ w \in Worktree /\ v \in Worktree /\ v.head = w.head /\ v.index = w.index
      /\ \A f \in Files : v.tree[f] = IF f \in fs THEN "spoilt" ELSE w.tree[f]
  BY <1>1, WriteDoes DEF AgentWork
<1>3. \A f \in Files : w.tree[f] # "spoilt" /\ w.index[f] # "spoilt"
  BY BaseTyped DEF AgentWork
<1> HIDE DEF v
<1>4. ASSUME NEW f \in fs PROVE f \in Lossy \cap Untracked(w)
  <2>1. v.tree[f] = "spoilt"
    BY <1>2
  <2>2. f \in Unstaged(v) \cup Untracked(v)
    BY <1>2, <1>3, <2>1 DEF Unstaged, Untracked
  <2>3. PatchOf(v) = Diff(v)
    BY <2>2, ListedWhereChanged
  <2>4. PICK e \in Diff(v) : e.file = f /\ e.to = Shown(v, f)
    BY <2>2, EntryMade
  <2>5. e \in Diff(w)
    BY <2>3, <2>4 DEF PatchOf, v
  <2>6. f \in Unstaged(w) \cup Untracked(w) /\ Shown(v, f) = Shown(w, f)
    BY <2>4, <2>5 DEF Diff, Edits, Blocks, Shown, Unstaged, Untracked
  <2>7. Shown(w, f) # w.tree[f] \/ Shown(v, f) # v.tree[f]
    BY <1>3, <2>1, <2>6
  <2>8. QED BY <1>2, <2>6, <2>7 DEF Shown, AsText, Unstaged, Untracked
<1>5. \A f \in Files : v.tree[f] = w.tree[f] \/ f \in Lossy \cap Untracked(w)
  BY <1>2, <1>4
<1>6. QED BY <1>2, <1>5 DEF Alike, v

\* The patch of a candidate names each file once.
LEMMA EntryOf ==
  ASSUME NEW w, AgentWork(w), NEW e \in PatchOf(w)
  PROVE  /\ e.file \in Unstaged(w) \cup Untracked(w)
         /\ e.from = w.index[e.file] /\ e.to = Shown(w, e.file)
         /\ e \in [file : Files, from : Content, to : Content]
         /\ e = [file |-> e.file, from |-> e.from, to |-> e.to]
<1>1. e \in Diff(w)
  BY DEF PatchOf
<1>2. PICK f \in Unstaged(w) \cup Untracked(w) :
        e = [file |-> f, from |-> w.index[f], to |-> Shown(w, f)]
  BY <1>1 DEF Diff, Edits, Blocks, Untracked, Unstaged, Shown
<1>3. f \in Files /\ w.index[f] \in Content /\ Shown(w, f) \in Content
  BY <1>2 DEF Unstaged, Untracked, AgentWork, Worktree, Tree, Shown, AsText, Content
<1>4. QED BY <1>2, <1>3

LEMMA EntryFor ==
  ASSUME NEW w, NEW f \in Unstaged(w) \cup Untracked(w)
  PROVE  \E e \in PatchOf(w) : e.file = f
<1>1. PatchOf(w) = Diff(w)
  BY ListedWhereChanged
<1>2. \E e \in Diff(w) : e.file = f
  BY EntryMade
<1>3. QED BY <1>1, <1>2

\* What a file of the integration worktree is after the patch was applied.
LEMMA PatchedFile ==
  ASSUME NEW w, AgentWork(w), NEW t \in Tree
  PROVE  LET i == Patched(Checkout(t), PatchOf(w)) IN
         /\ i \in Worktree /\ i.head = t
         /\ \A f \in Files : i.tree[f] =
              IF f \in Unstaged(w) \cup Untracked(w)
                THEN IF w.index[f] = "absent" THEN "blank"
                     ELSE IF f \in Lossy \ Binary THEN "garbled"
                     ELSE IF t[f] \in {w.index[f], w.tree[f]} THEN w.tree[f] ELSE "merged"
                ELSE t[f]
<1> DEFINE p == PatchOf(w)
           c == Checkout(t)
           new == [f \in Files |-> IF \E e \in p : e.file = f
                                     THEN Brought(c, CHOOSE e \in p : e.file = f)
                                     ELSE c.tree[f]]
<1>1. /\ c \in Worktree /\ c.head = t /\ c.tree = t
      /\ Patched(c, p) = [c EXCEPT !.tree = new, !.index = new]
  BY CheckoutTyped DEF Patched
<1>2. ASSUME NEW f \in Files
      PROVE  new[f] = IF f \in Unstaged(w) \cup Untracked(w)
                THEN IF w.index[f] = "absent" THEN "blank"
                     ELSE IF f \in Lossy \ Binary THEN "garbled"
                     ELSE IF t[f] \in {w.index[f], w.tree[f]} THEN w.tree[f] ELSE "merged"
                ELSE t[f]
  <2>1. CASE f \in Unstaged(w) \cup Untracked(w)
    <3> DEFINE e == CHOOSE x \in p : x.file = f
    <3>1. e \in p /\ e.file = f
      BY <2>1, EntryFor
    <3> HIDE DEF e
    <3>2. e.from = w.index[f] /\ (w.index[f] # "absent" => e.to = w.tree[f])
      BY <3>1, EntryOf DEF Shown
    <3>3. new[f] = Brought(c, e)
      BY <3>1 DEF e
    <3>4. QED BY <1>1, <2>1, <3>1, <3>2, <3>3 DEF Brought, IsBlock
  <2>2. CASE f \notin Unstaged(w) \cup Untracked(w)
    <3>1. ~\E e \in p : e.file = f
      BY <2>2, EntryOf
    <3>2. QED BY <1>1, <2>2, <3>1
  <2>3. QED BY <2>1, <2>2
<1>3. new \in Tree
  <2>1. \A f \in Files : new[f] \in Content
    BY <1>2 DEF Tree, Content, AgentWork
  <2>2. QED BY <2>1 DEF Tree
<1> HIDE DEF new
<1>4. QED BY <1>1, <1>2, <1>3 DEF Worktree

\* The patch brings what CarriedByPatch says, to any tree.
LEMMA PatchCarries ==
  ASSUME NEW w, AgentWork(w), NEW t \in Tree, NEW f \in Files
  PROVE  LET i == Patched(Checkout(t), PatchOf(w)) IN
         /\ f \in Unstaged(w) \ (Lossy \ Binary) =>
                                 \/ i.tree[f] = w.tree[f]
                                 \/ i.tree[f] = "merged" /\ i.head[f] # w.index[f]
         /\ w.tree[f] = Base[f] => i.tree[f] = i.head[f]
<1>1. f \in Unstaged(w) => w.index[f] # "absent"
  BY DEF Unstaged
<1>2. w.tree[f] = Base[f] => f \notin Unstaged(w) \cup Untracked(w)
  BY DEF AgentWork, Unstaged, Untracked
<1>3. QED BY <1>1, <1>2, PatchedFile

-----------------------------------------------------------------------------
(***************************************************************************)
(* Finite sets, scores and the evaluation of a round.                      *)
(***************************************************************************)
\* A finite set of integers has a largest one.
LEMMA MaxOfFinite ==
  ASSUME NEW S \in SUBSET Int, IsFiniteSet(S), S # {}
  PROVE  Max(S) \in S /\ \A y \in S : y <= Max(S)
<1> DEFINE Above(y) == {x \in S : x > y}
           T == {Above(y) : y \in S}
<1>1. T \subseteq FiniteSubsetsOf(S) /\ T # {}
  <2>1. \A y \in S : IsFiniteSet(Above(y))
    BY FS_Subset
  <2>2. QED BY <2>1 DEF FiniteSubsetsOf
<1>2. PICK U \in T : \A V \in T : <<V, U>> \notin StrictSubsetOrdering(S)
  BY <1>1, FS_StrictSubsetOrderingWellFounded, WFMin
<1>3. PICK y \in S : U = Above(y)
  BY <1>2
<1>4. ASSUME NEW z \in S, z > y PROVE FALSE
  <2>1. \A x \in S : x > z => x > y
    BY <1>4
  <2>2. z \in Above(y) /\ z \notin Above(z)
    BY <1>4
  <2>3. <<Above(z), Above(y)>> \in StrictSubsetOrdering(S)
    BY <2>1, <2>2 DEF StrictSubsetOrdering
  <2>4. QED BY <1>2, <1>3, <2>3
<1>5. \A z \in S : y >= z
  BY <1>4
<1>6. Max(S) \in S /\ \A z \in S : Max(S) >= z
  BY <1>5 DEF Max
<1>7. QED BY <1>6

\* What a function makes of a finite set is finite.
LEMMA ImageFinite ==
  ASSUME NEW S, IsFiniteSet(S), NEW f, DOMAIN f = S, f = [x \in S |-> f[x]]
  PROVE  IsFiniteSet({f[x] : x \in S})
<1>1. f \in Surjection(S, {f[x] : x \in S})
  BY DEF Surjection
<1>2. QED BY <1>1, FS_Surjection

LEMMA IntervalFinite == \A n \in Nat : IsFiniteSet(1..n)
<1>1. \A n \in Nat : 1 \in Int /\ n \in Int
  OBVIOUS
<1>2. QED BY <1>1, FS_Interval

LEMMA FailingFew ==
  ASSUME NEW k \in Results
  PROVE  Cardinality(Failing(k)) \in 0..7
<1> DEFINE f == <<"test", "lint", "typecheck", "security", "coverage", "format",
                  "dependency-audit">>
<1>1. f \in Surjection(1..7, Categories)
  BY DEF Surjection, Categories
<1>2. ExistsSurjection(1..7, Categories)
  BY <1>1 DEF ExistsSurjection
<1>3. IsFiniteSet(Categories) /\ Cardinality(Categories) <= 7
  <2> HIDE DEF f
  <2>1. IsFiniteSet(1..7)
    BY IntervalFinite
  <2>2. QED BY <1>1, <1>2, <2>1, FS_SurjCardinalityBound, FS_Surjection
<1>4. Failing(k) \in SUBSET Categories
  BY VerificationAssumption DEF Failing, Results, Commands, Discovered
<1>5. IsFiniteSet(Failing(k)) /\ Cardinality(Failing(k)) <= Cardinality(Categories)
  BY <1>3, <1>4, FS_Subset
<1>6. Cardinality(Failing(k)) \in Nat /\ Cardinality(Categories) \in Nat
  BY <1>3, <1>5, FS_CardinalityType
<1>7. QED BY <1>3, <1>5, <1>6

LEMMA VerdictTyped ==
  ASSUME NEW b \in Baselines, run.baseline = <<b>>, NEW v \in Verdicts
  PROVE  v.failed \in 0..7
<1>1. PICK k \in Results : v = [passed |-> VerificationPassed(k, b),
                                failed |-> Cardinality(Failing(k))]
  BY DEF Verdicts, VerdictsOf, BaselineChecks
<1>2. QED BY <1>1, FailingFew

LEMMA SizeTyped ==
  ASSUME NEW w
  PROVE  Cardinality(Listed(w)) \in Nat
<1>1. Listed(w) \in SUBSET (Files \cup {Dir})
  BY DEF Listed, Unstaged, Untracked
<1>2. IsFiniteSet(Files \cup {Dir})
  BY PatchAssumption, FS_AddElement
<1>3. QED BY <1>1, <1>2, FS_Subset, FS_CardinalityType

\* The score of every record lies between what the worst and the best can have.
LEMMA ScoreTyped ==
  ASSUME NEW r, r.failed \in 0..7, r.size \in Nat
  PROVE  Score(r) \in Scored
<1>1. SmallerOf(r.size, 25) \in 0..25
  BY DEF SmallerOf
<1>2. /\ (IF r.status = "success" THEN 100 ELSE -100) \in {100, -100}
      /\ (IF r.passed THEN 50 ELSE -50) \in {50, -50}
      /\ (IF r.mutated THEN 50 ELSE 0) \in {50, 0}
  OBVIOUS
<1>3. \A a \in {100, -100}, b \in {50, -50}, c \in {50, 0}, d \in 0..7, e \in 0..25 :
        a + b - c - 10 * d - e \in Scored
  BY DEF Scored
<1>4. QED BY <1>1, <1>2, <1>3 DEF Score

\* The evaluated records: as many as there are candidates in the round.
Evaluated == /\ round \in Seq(Records) /\ round # <<>>
             /\ \A r \in Records : r.failed \in 0..7 /\ r.size \in Nat /\ r.index \in Nat

LEMMA RecordsFinite ==
  ASSUME Evaluated
  PROVE  IsFiniteSet(Records) /\ Records # {}
<1>1. Len(round) \in Nat /\ DOMAIN round = 1..Len(round) /\ round = [i \in 1..Len(round) |-> round[i]]
      /\ Len(round) # 0
  BY DEF Evaluated
<1>2. IsFiniteSet(1..Len(round))
  BY <1>1, IntervalFinite
<1>3. IsFiniteSet({round[i] : i \in 1..Len(round)})
  BY <1>1, <1>2, ImageFinite
<1>4. QED BY <1>1, <1>3 DEF Records

LEMMA ScoresOf ==
  ASSUME NEW R, IsFiniteSet(R), R # {}, \A r \in R : r.failed \in 0..7 /\ r.size \in Nat
  PROVE  LET S == {Score(r) : r \in R} IN
         S \subseteq Scored /\ Max(S) \in S /\ \A y \in S : y <= Max(S)
<1> DEFINE f == [r \in R |-> Score(r)]
           S == {Score(r) : r \in R}
<1>1. IsFiniteSet({f[r] : r \in R})
  <2> HIDE DEF f
  <2>1. DOMAIN f = R /\ f = [r \in R |-> f[r]]
    BY DEF f
  <2>2. QED BY <2>1, ImageFinite
<1>2. S = {f[r] : r \in R}
  OBVIOUS
<1>3. S \subseteq Scored
  BY ScoreTyped
<1>4. S # {} /\ S \in SUBSET Int /\ IsFiniteSet(S)
  BY <1>1, <1>2, <1>3 DEF Scored
<1>5. QED BY <1>3, <1>4, MaxOfFinite

\* The best score of a round is a score.
LEMMA TopTyped ==
  ASSUME Evaluated
  PROVE  TopScore(Records) \in Scored
<1>1. IsFiniteSet(Records) /\ Records # {}
  BY RecordsFinite
<1>2. QED BY <1>1, ScoresOf DEF TopScore, Evaluated

\* A winner is one of the eligible records.
LEMMA WinnerIn ==
  ASSUME Evaluated, Winners(Records) # {}
  PROVE  LET w == CHOOSE x \in Winners(Records) : TRUE IN w \in Records /\ Eligible(w)
<1> DEFINE E == {r \in Records : Eligible(r)}
           top == Max({Score(r) : r \in E})
           B == {r \in E : Score(r) = top}
           N == {0 - r.index : r \in B}
           f == [r \in B |-> 0 - r.index]
<1>1. E # {} /\ Winners(Records) = {BestOf(E)}
  BY DEF Winners
<1>2. IsFiniteSet(E)
  BY RecordsFinite, FS_Subset
<1>3. /\ \A r \in E : Score(r) \in Int /\ Score(r) <= top
      /\ \E r \in E : Score(r) = top
  <2>1. \A r \in E : r.failed \in 0..7 /\ r.size \in Nat
    BY DEF Evaluated
  <2> HIDE DEF E
  <2>2. QED BY <1>1, <1>2, <2>1, ScoresOf DEF Scored
<1>4. IsFiniteSet(B) /\ B # {} /\ \A r \in B : r.index \in Nat /\ 0 - r.index \in Int
  <2>1. B \in SUBSET E /\ B # {}
    BY <1>3
  <2>2. \A r \in E : r.index \in Nat
    BY DEF Evaluated
  <2> HIDE DEF B, E
  <2>3. QED BY <1>2, <2>1, <2>2, FS_Subset
<1>5. IsFiniteSet({f[r] : r \in B})
  <2> HIDE DEF f
  <2>1. DOMAIN f = B /\ f = [r \in B |-> f[r]]
    BY DEF f
  <2>2. QED BY <1>4, <2>1, ImageFinite
<1>6. N = {f[r] : r \in B}
  OBVIOUS
<1>7. N # {} /\ N \in SUBSET Int /\ IsFiniteSet(N)
  BY <1>4, <1>5, <1>6
<1>8. PICK r \in B : \A s \in B : 0 - s.index <= 0 - r.index
  BY <1>7, MaxOfFinite
<1>9. \A s \in E : Better(r, s)
  <2>1. \A s \in E : Score(s) \in Int /\ Score(s) <= Score(r)
    BY <1>3, <1>8
  <2>2. \A s \in B : r.index <= s.index
    BY <1>4, <1>8
  <2>3. QED BY <1>3, <1>8, <2>1, <2>2 DEF Better
<1>10. BestOf(E) \in E
  BY <1>8, <1>9 DEF BestOf
<1>11. QED BY <1>1, <1>10

-----------------------------------------------------------------------------
(***************************************************************************)
(* What each action does to the run on disk and to the process.            *)
(***************************************************************************)
\* The fields of the run outside F stay as they are.
Keeps(F) ==
  /\ DOMAIN run' = RunFields
  /\ "st" \notin F => run'.st = run.st
  /\ "attempt" \notin F => run'.attempt = run.attempt
  /\ "started" \notin F => run'.started = run.started
  /\ "best" \notin F => run'.best = run.best
  /\ "stuck" \notin F => run'.stuck = run.stuck
  /\ "used" \notin F => run'.used = run.used
  /\ "marked" \notin F => run'.marked = run.marked
  /\ "step" \notin F => run'.step = run.step
  /\ "error" \notin F => run'.error = run.error
  /\ "winner" \notin F => run'.winner = run.winner
  /\ "baseline" \notin F => run'.baseline = run.baseline

SameWorld == upstream' = upstream /\ left' = left /\ seen' = seen

\* The process leaves the run: it is written with another state and error, and what was
\* in memory is gone.  In the worktree a verification may have been writing.
Stops ==
  /\ pc # "idle" /\ Keeps({"st", "error"})
  /\ run'.error = run.error \/ run'.error # "no_progress"
  /\ \/ run'.st = run.st \/ run'.st \in {"TerminalFailure", "Blocked", "NeedsInput"}
     \/ run.st = "OutcomePublishing" /\ run'.st = "Completed"
  /\ pc' = "idle" /\ round' = <<>> /\ past' = NoScore /\ allowed' = 0
  /\ upstream' = upstream /\ seen' = seen
  /\ \/ integ' = integ
     \/ pc = "verify" /\ \E fs : integ' = <<WriteFiles(integ[1], fs, "spoilt")>>
     \/ pc = "commit" /\ integ' = <<AllCommitted(integ[1])>>
  /\ left' \in [crashes : 0..MaxCrashes, resumes : 0..MaxResumes]

LEMMA FailStops ==
  ASSUME Types, NEW code, code # "no_progress", pc # "idle", FailRun(code), InRounds
  PROVE  Stops
BY DEF FailRun, Return, Save, InRounds, Types, Keeps, Stops

LEMMA ReturnStops ==
  ASSUME Types, pc # "idle", Return(run), InRounds
  PROVE  Stops
BY DEF Return, Save, InRounds, Types, Keeps, Stops

LEMMA StateStops ==
  ASSUME Types, NEW st, Return([run EXCEPT !.st = st]), InRounds, pc # "idle",
         \/ st \in {"Blocked", "NeedsInput"}
         \/ run.st = "OutcomePublishing" /\ st = "Completed"
  PROVE  Stops
BY DEF Return, Save, InRounds, Types, Keeps, Stops

LEMMA CrashStops ==
  ASSUME Types, Crash
  PROVE  Stops
<1>1. left' \in [crashes : 0..MaxCrashes, resumes : 0..MaxResumes]
  <2>1. left.crashes > 0 /\ left' = [left EXCEPT !.crashes = left.crashes - 1]
    BY DEF Crash
  <2>2. left.crashes - 1 \in 0..MaxCrashes
    BY <2>1, Bounds DEF Types
  <2>3. QED BY <2>1, <2>2 DEF Types
<1>2. QED BY <1>1 DEF Crash, Return, Save, Types, Keeps, Stops

\* The actions that end the work of the process on the run.
Quits == \/ SelectBlocked \/ RuntimeLimit \/ AgentGone \/ CandidateLimit \/ BatchBreaks
         \/ AskInput \/ GiveUp \/ PreflightFails \/ NothingToCommit \/ Gate \/ Crash

LEMMA QuitsStop ==
  ASSUME Types, OnDisk, Quits
  PROVE  Stops
<1>1. CASE SelectBlocked
  BY <1>1, StateStops DEF SelectBlocked
<1>2. CASE RuntimeLimit
  BY <1>2, FailStops DEF RuntimeLimit
<1>3. CASE AgentGone
  BY <1>3, FailStops, ReturnStops DEF AgentGone
<1>4. CASE CandidateLimit
  BY <1>4, FailStops DEF CandidateLimit
<1>5. CASE BatchBreaks
  BY <1>5, FailStops, ReturnStops DEF BatchBreaks
<1>6. CASE AskInput
  BY <1>6, StateStops DEF AskInput
<1>7. CASE GiveUp
  BY <1>7, FailStops DEF GiveUp
<1>8. CASE PreflightFails
  BY <1>8, FailStops DEF PreflightFails
<1>9. CASE NothingToCommit
  BY <1>9, FailStops DEF NothingToCommit
<1>10. CASE Gate
  <2>1. pc = "publish" /\ run.st = "OutcomePublishing"
    BY <1>10 DEF Gate, OnDisk, Publishing
  <2>2. Return([run EXCEPT !.st = "Completed"]) \/ FailRun("final_verification_failed")
    BY <1>10 DEF Gate
  <2>3. QED BY <1>10, <2>1, <2>2, FailStops, StateStops DEF Gate
<1>11. CASE Crash
  BY <1>11, CrashStops
<1>12. QED
  BY <1>1, <1>2, <1>3, <1>4, <1>5, <1>6, <1>7, <1>8, <1>9, <1>10, <1>11 DEF Quits

LEMMA RunCandidatesDoes ==
  ASSUME Types, RunCandidates
  PROVE  /\ pc = "select" /\ pc' = "loop" /\ Keeps({"st", "baseline"})
         /\ run'.st = "AgentRunning" /\ run'.baseline \in {<<b>> : b \in Baselines}
         /\ allowed' \in 1..Candidates /\ round' = <<>> /\ past' = NoScore
         /\ SameWorld /\ integ' = integ
<1>1. PICK b : /\ Save([run EXCEPT !.st = "AgentRunning", !.baseline = b], "loop")
               /\ b \in {<<c>> : c \in Baselines}
  BY DEF RunCandidates, Types
<1>2. QED
  BY <1>1 DEF RunCandidates, AllowedCandidates, Save, InRounds, SameWorld, Types, Keeps

LEMMA BeginRoundDoes ==
  ASSUME Types, BeginRound
  PROVE  /\ pc = "loop" /\ pc' = "launch" /\ Keeps({"marked", "used"})
         /\ run'.marked = FALSE
         /\ run'.used = IF run.marked THEN run.used + 1 ELSE run.used
         /\ round' = round /\ past' = past /\ allowed' = allowed
         /\ SameWorld /\ integ' = integ
BY DEF BeginRound, Save, InMemory, InRounds, SameWorld, Types, Keeps

LEMMA PlanDoes ==
  ASSUME Types, Plan
  PROVE  LET index == IF pc = "launch" THEN 1 ELSE Len(round) + 1
             new   == [phase |-> "planned", id |-> run.started + 1, index |-> index] IN
         /\ pc \in {"launch", "plan"}
         /\ pc = "launch" => WithinLimit(BatchSize)
         /\ Keeps({"started"}) /\ run'.started = run.started + 1
         /\ pc' = IF index = BatchSize THEN "batch" ELSE "plan"
         /\ round' = IF pc = "launch" THEN <<new>> ELSE Append(round, new)
         /\ past' = past /\ allowed' = allowed /\ SameWorld /\ integ' = integ
BY DEF Plan, Save, InRounds, SameWorld, Types, Keeps

LEMMA NextAttemptDoes ==
  ASSUME Types, NextAttempt
  PROVE  /\ pc = "evaluated" /\ pc' = "loop" /\ run.winner = <<>>
         /\ run.attempt < MaxAttempts /\ Keeps({"st", "attempt", "marked"})
         /\ run'.st = "AgentRunning" /\ run'.attempt = run.attempt + 1
         /\ run'.marked = (run.marked \/ Escalates)
         /\ round' = <<>> /\ past' = past /\ allowed' = allowed /\ SameWorld /\ integ' = integ
BY DEF NextAttempt, Save, InRounds, SameWorld, Types, Keeps

LEMMA PublishDoes ==
  ASSUME Types, Publish
  PROVE  /\ pc = "evaluated" /\ pc' = "publish" /\ run.winner # <<>>
         /\ Keeps({"st", "step"}) /\ run'.st = "OutcomePublishing" /\ run'.step = "started"
         /\ round' = <<>> /\ past' = NoScore /\ allowed' = 0 /\ SameWorld /\ integ' = integ
BY DEF Publish, Save, InRounds, SameWorld, Types, Keeps

LEMMA RejectedDoes ==
  ASSUME Types, NEW code, code # "no_progress", Rejected(code)
  PROVE  /\ \/ /\ run.attempt < MaxAttempts /\ Keeps({"st", "step", "attempt", "winner"})
               /\ run'.st = "ReadyForExecution" /\ run'.attempt = run.attempt + 1
               /\ run'.winner = <<>> /\ pc' = "select" /\ integ' = <<>>
            \/ /\ Keeps({"st", "error"}) /\ run'.st = "TerminalFailure" /\ run'.error = code
               /\ pc' = "idle" /\ integ' = integ
         /\ seen' = [seen EXCEPT !.rejected = @ \cup {Winner.id}]
         /\ round' = round /\ past' = past /\ allowed' = allowed
         /\ upstream' = upstream /\ left' = left
BY DEF Rejected, Save, InMemory, Types, RunFields, Keeps

Rejects == EmptyPatch \/ ApplyFails \/ VerifyFails

LEMMA RejectsAre ==
  ASSUME Rejects
  PROVE  pc \in Publishing /\ Rejected("patch_conflict")
BY DEF Rejects, EmptyPatch, ApplyFails, VerifyFails, Publishing

LEMMA IntegrateDoes ==
  ASSUME Types, Integrate
  PROVE  /\ pc = "publish"
         /\ Keeps({"step"}) /\ run'.step = "integration_created" /\ pc' = "apply"
         /\ integ' = IF run.step = "started" THEN <<Checkout(upstream)>>
                     ELSE <<Reset(integ[1])>>
         /\ round' = round /\ past' = past /\ allowed' = allowed /\ SameWorld
BY DEF Integrate, Save, InMemory, SameWorld, Types, RunFields, Keeps

LEMMA ApplyDoes ==
  ASSUME Types, Apply
  PROVE  /\ pc = "apply" /\ pc' = "verify" /\ Keeps({"step"}) /\ run'.step = "patch_applied"
         /\ integ' = <<Patched(integ[1], Winner.patch)>>
         /\ round' = round /\ past' = past /\ allowed' = allowed /\ SameWorld
BY DEF Apply, Save, InMemory, SameWorld, Types, Keeps

LEMMA VerifyIntegrationDoes ==
  ASSUME Types, VerifyIntegration
  PROVE  /\ pc = "verify" /\ pc' = "commit" /\ Keeps({"step"}) /\ run'.step = "verified"
         /\ \E fs : integ' = <<WriteFiles(integ[1], fs, "spoilt")>>
         /\ round' = round /\ past' = past /\ allowed' = allowed /\ SameWorld
BY DEF VerifyIntegration, Save, InMemory, SameWorld, Types, Keeps

LEMMA CommitDoes ==
  ASSUME Types, Commit
  PROVE  /\ pc = "commit" /\ pc' = "publish" /\ Keeps({"step"}) /\ run'.step = "committed"
         /\ integ' = <<AllCommitted(integ[1])>>
         /\ round' = round /\ past' = past /\ allowed' = allowed /\ SameWorld
BY DEF Commit, Save, InMemory, SameWorld, Types, Keeps

LEMMA AlreadyCommittedDoes ==
  ASSUME Types, AlreadyCommitted
  PROVE  /\ pc = "commit" /\ pc' = "publish" /\ Keeps({"step"}) /\ run'.step = "committed"
         /\ integ' = integ
         /\ round' = round /\ past' = past /\ allowed' = allowed /\ SameWorld
BY DEF AlreadyCommitted, Save, InMemory, InRounds, SameWorld, Types, Keeps

LEMMA MergeDoes ==
  ASSUME Types, Merge
  PROVE  /\ pc = "publish" /\ pc' = pc /\ run' = run /\ Keeps({}) /\ upstream' \in Tree
         /\ round' = round /\ past' = past /\ allowed' = allowed /\ integ' = integ
         /\ left' = left /\ seen' = seen
<1>1. upstream' \in Tree
  BY RoundsAssumption DEF Merge
<1>2. QED BY <1>1 DEF Merge, Types, Keeps

LEMMA ResumeDoes ==
  ASSUME Types, Resume
  PROVE  /\ pc = "idle" /\ run.st \notin Terminal
         /\ \/ run.st = "OutcomePublishing" /\ Keeps({}) /\ pc' = "publish"
            \/ /\ Keeps({"st", "winner"}) /\ pc' = "select"
               /\ run'.st = "ReadyForExecution" /\ run'.winner = <<>>
         /\ round' = round /\ past' = past /\ allowed' = allowed /\ integ' = integ
         /\ left' \in [crashes : 0..MaxCrashes, resumes : 0..MaxResumes]
         /\ upstream' = upstream /\ seen' = seen
<1>1. left' \in [crashes : 0..MaxCrashes, resumes : 0..MaxResumes]
  BY Bounds DEF Resume, Types
<1>2. QED BY <1>1 DEF Resume, Save, InMemory, Types, RunFields, Keeps

\* What a worktree shows is compared as the executor reported it.
LEMMA RunAgentDoes ==
  ASSUME Types, NEW i \in DOMAIN round, RunAgent(i)
  PROVE  /\ pc = "batch" /\ pc' = pc /\ run' = run /\ Keeps({})
         /\ \E a \in Attempts : round' = [round EXCEPT ![i] =
              [phase |-> "generated", id |-> round[i].id, index |-> round[i].index, did |-> a]]
         /\ past' = past /\ allowed' = allowed /\ SameWorld /\ integ' = integ
BY DEF RunAgent, InRounds, SameWorld, Types, RunFields, Keeps

\* The record of a candidate that was verified.
Record(i, v, w) ==
  [phase |-> "done", id |-> round[i].id, index |-> round[i].index,
   status |-> Effective(round[i].did, v.passed, Mutated(round[i].did.reported, w), w),
   passed |-> v.passed, mutated |-> Mutated(round[i].did.reported, w), failed |-> v.failed,
   size |-> Cardinality(Listed(w)), proof |-> <<>>]

LEMMA VerifyCandidateDoes ==
  ASSUME Types, InRound, NEW i \in DOMAIN round, VerifyCandidate(i)
  PROVE  /\ pc = "batch" /\ pc' = pc /\ run' = run /\ Keeps({}) /\ round[i].phase = "generated"
         /\ \E v, fs :
              LET w == WriteFiles(round[i].did.w, fs, "spoilt")
                  r == Record(i, v, w) IN
              /\ v.failed \in 0..7 /\ fs \in SUBSET Files
              /\ round' = [round EXCEPT ![i] =
                   IF Eligible(r) THEN [r EXCEPT !.proof = Proof(round[i].did.w, w)] ELSE r]
         /\ past' = past /\ allowed' = allowed /\ SameWorld /\ integ' = integ
<1>1. PICK v, fs :
        /\ v \in {[passed |-> TRUE, failed |-> 0]} \cup Verdicts
        /\ fs \in {{}} \cup Spoils
        /\ LET w == WriteFiles(round[i].did.w, fs, "spoilt")
               r == Record(i, v, w) IN
           round' = [round EXCEPT ![i] =
             IF Eligible(r) THEN [r EXCEPT !.proof = Proof(round[i].did.w, w)] ELSE r]
  BY DEF VerifyCandidate, Record
<1>2. pc = "batch"
  BY DEF VerifyCandidate
<1>3. v.failed \in 0..7
  BY <1>1, <1>2, VerdictTyped DEF InRound, InLoop, Types
<1>4. fs \in SUBSET Files
  BY <1>1, RoundsAssumption
<1>5. /\ pc' = pc /\ run' = run /\ Keeps({}) /\ round[i].phase = "generated"
      /\ past' = past /\ allowed' = allowed /\ SameWorld /\ integ' = integ
  BY DEF VerifyCandidate, InRounds, SameWorld, Types, Keeps
<1>6. QED BY <1>1, <1>2, <1>3, <1>4, <1>5

\* The three ways a round ends.
Won ==
  /\ Winners(Records) # {} /\ pc' = "evaluated" /\ Keeps({"st", "stuck", "winner"})
  /\ run'.stuck = 0 /\ run'.winner = <<Kept(CHOOSE w \in Winners(Records) : TRUE)>>
  /\ round' = round /\ past' = past /\ allowed' = allowed /\ seen' = seen
  /\ run'.st = "ResultEvaluation"

Current == LargerOf(past, TopScore(Records))

Lost ==
  /\ Keeps({"st", "stuck", "best", "winner", "error"})
  /\ run'.best = Current /\ run'.stuck = Stuck(Current) /\ run'.winner = <<>>
  /\ seen' = Compared
  /\ \/ /\ Stuck(Current) >= StopAfter /\ run'.st = "TerminalFailure"
        /\ run'.error = "no_progress" /\ pc' = "idle"
        /\ round' = <<>> /\ past' = NoScore /\ allowed' = 0
     \/ /\ ~(Stuck(Current) >= StopAfter) /\ run'.st = "ResultEvaluation"
        /\ run'.error = run.error /\ pc' = "evaluated"
        /\ past' = Current /\ round' = round /\ allowed' = allowed

LEMMA EvaluateDoes ==
  ASSUME Types, Evaluate
  PROVE  /\ pc = "batch" /\ \A i \in DOMAIN round : round[i].phase = "done"
         /\ upstream' = upstream /\ integ' = integ /\ left' = left
         /\ Won \/ Lost
<1>1. CASE Winners(Records) # {}
  BY <1>1 DEF Evaluate, Save, InMemory, Types, RunFields, Keeps, Won
<1>2. CASE Winners(Records) = {}
  <2>1. CASE Stuck(Current) >= StopAfter
    BY <1>2, <2>1 DEF Evaluate, Return, Save, Types, RunFields, Keeps, Lost, Current
  <2>2. CASE ~(Stuck(Current) >= StopAfter)
    BY <1>2, <2>2 DEF Evaluate, Save, Types, RunFields, Keeps, Lost, Current
  <2>3. QED BY <2>1, <2>2
<1>3. QED BY <1>1, <1>2

-----------------------------------------------------------------------------
(***************************************************************************)
(* The candidates of a round: what the agent leaves, what the verification *)
(* makes of it.                                                            *)
(***************************************************************************)
LEMMA AttemptIs ==
  ASSUME NEW a \in Attempts
  PROVE  /\ AgentWork(a.w)
         /\ a.status = "success" =>
              a.reported = Reported(a.w, "success") /\ Listed(a.w) # {}
<1>1. CASE a \in {Generated(SetUp(x), "setup_failed") : x \in Works}
  BY <1>1, WorkedIs DEF Generated
<1>2. CASE a \in {Generated(Worked(x), IF Raises(g) THEN "raised"
                                       ELSE StatusOf(Worked(x), g, full)) :
                    x \in Works, g \in Generations, full \in BOOLEAN}
  <2>1. PICK x, g, full :
          a = Generated(Worked(x), IF Raises(g) THEN "raised" ELSE StatusOf(Worked(x), g, full))
    BY <1>2
  <2>2. a.w = Worked(x) /\ a.reported = Reported(a.w, a.status)
    BY <2>1 DEF Generated
  <2>3. a.status = IF Raises(g) THEN "raised" ELSE StatusOf(a.w, g, full)
    BY <2>1 DEF Generated
  <2>4. a.status = "success" => Listed(a.w) # {}
    BY <2>3 DEF StatusOf
  <2>5. QED BY <2>2, <2>4, WorkedIs
<1>3. QED BY <1>1, <1>2 DEF Attempts

\* What is known of another candidate does not change.
LEMMA CandidateKept ==
  ASSUME Types, NEW c, Candidate(c), run.started \in Nat, run'.started \in Nat,
         run.started <= run'.started, seen'.rejected = seen.rejected
  PROVE  Candidate(c)'
BY DEF Candidate

LEMMA GeneratedIs ==
  ASSUME Types, NEW i, Candidate(round[i]), NEW a \in Attempts
  PROVE  Candidate([phase |-> "generated", id |-> round[i].id, index |-> round[i].index,
                    did |-> a])
BY AttemptIs DEF Candidate

\* A candidate that may win has proved it.
LEMMA EligibleProven ==
  ASSUME NEW i, NEW v, NEW fs \in SUBSET Files, Candidate(round[i]),
         round[i].phase = "generated",
         Eligible(Record(i, v, WriteFiles(round[i].did.w, fs, "spoilt")))
  PROVE  LET c == round[i].did
             w == WriteFiles(c.w, fs, "spoilt") IN
         /\ AgentWork(c.w) /\ Alike(w, c.w)
         /\ Listed(w) = Listed(c.w) /\ PatchOf(w) = PatchOf(c.w)
         /\ Violations(Listed(w), Disallowed) = {}
<1> DEFINE c == round[i].did
           w == WriteFiles(c.w, fs, "spoilt")
           m == Mutated(c.reported, w)
<1>1. Effective(c, v.passed, m, w) = "success" /\ v.passed /\ ~m
  BY DEF Eligible, Record
<1>2. c.status = "success" /\ Violations(Listed(w), Disallowed) = {}
  BY <1>1 DEF Effective
<1>3. AgentWork(c.w) /\ c.reported = Reported(c.w, "success")
  BY <1>2 DEF Candidate
<1>4. c.reported = [listed |-> Listed(c.w), patch |-> PatchOf(c.w)]
  BY <1>3 DEF Reported
<1>5. Listed(w) = Listed(c.w) /\ PatchOf(w) = PatchOf(c.w)
  BY <1>1, <1>4 DEF Mutated
<1>6. Alike(w, c.w)
  BY <1>3, <1>5, WritingShows
<1>7. QED BY <1>2, <1>3, <1>5, <1>6

LEMMA DoneIs ==
  ASSUME Types, NEW i, NEW v, NEW fs \in SUBSET Files, v.failed \in 0..7,
         Candidate(round[i]), round[i].phase = "generated"
  PROVE  LET w == WriteFiles(round[i].did.w, fs, "spoilt")
             r == Record(i, v, w) IN
         Candidate(IF Eligible(r) THEN [r EXCEPT !.proof = Proof(round[i].did.w, w)] ELSE r)
<1> DEFINE b == round[i].did.w
           w == WriteFiles(b, fs, "spoilt")
           r == Record(i, v, w)
           q == [r EXCEPT !.proof = Proof(b, w)]
<1>1. /\ r.phase = "done" /\ r.id = round[i].id /\ r.index = round[i].index
      /\ r.failed = v.failed /\ r.size = Cardinality(Listed(w))
  BY DEF Record
<1>2. r.size \in Nat
  BY <1>1, SizeTyped
<1>3. CASE ~Eligible(r)
  BY <1>1, <1>2, <1>3 DEF Candidate
<1>4. CASE Eligible(r)
  <2>1. /\ q.phase = "done" /\ q.id = round[i].id /\ q.index = round[i].index
        /\ q.failed = v.failed /\ q.size = r.size /\ q.status = r.status
        /\ q.passed = r.passed /\ q.mutated = r.mutated /\ q.proof = Proof(b, w)
    BY DEF Record
  <2>2. /\ AgentWork(b) /\ Alike(w, b) /\ PatchOf(w) = PatchOf(b)
        /\ Violations(Listed(b), Disallowed) = {}
    BY <1>4, EligibleProven
  <2> HIDE DEF b, w, r, q
  <2>3. q.proof[1] = [patch |-> PatchOf(b), before |-> b, after |-> w]
    BY <2>1, <2>2 DEF Proof
  <2>4. /\ Kept(q).patch = PatchOf(b) /\ Kept(q).before = b /\ Kept(q).after = w
        /\ Kept(q).status = r.status /\ Kept(q).passed = r.passed
        /\ Kept(q).mutated = r.mutated
    BY <2>1, <2>3 DEF Kept
  <2>5. Proven(Kept(q))
    BY <1>4, <2>2, <2>4 DEF Proven, Eligible
  <2>6. Candidate(q)
    BY <1>1, <1>2, <2>1, <2>5 DEF Candidate
  <2>7. QED BY <1>4, <2>6 DEF q, b, w, r
<1>5. QED BY <1>3, <1>4

\* A round whose candidates are all done can be evaluated.
LEMMA DoneEvaluated ==
  ASSUME InRound, pc = "batch", \A i \in DOMAIN round : round[i].phase = "done"
  PROVE  /\ Evaluated
         /\ \A r \in Records : r.id \in 1..run.started /\ r.id \notin seen.rejected
         /\ \A r \in Records : Eligible(r) => Proven(Kept(r))
<1>1. \A i \in DOMAIN round : Candidate(round[i])
  BY DEF InRound
<1>2. \A r \in Records : Candidate(r) /\ r.phase = "done"
  BY <1>1 DEF Records
<1>3. QED BY <1>2 DEF InRound, Candidate, Evaluated

-----------------------------------------------------------------------------
(***************************************************************************)
(* Sequences of candidates.                                                *)
(***************************************************************************)
LEMMA SeqInto ==
  ASSUME NEW S, NEW s \in Seq(S), NEW T, \A i \in DOMAIN s : s[i] \in T
  PROVE  s \in Seq(T)
OBVIOUS

LEMMA FirstOf ==
  ASSUME NEW c, round' = <<c>>
  PROVE  round' \in Seq(Records)' /\ Len(round') = 1 /\ DOMAIN round' = {1} /\ round'[1] = c
<1>1. c \in Records'
  BY DEF Records
<1>2. QED BY <1>1

LEMMA MoreOf ==
  ASSUME round \in Seq(Records), NEW c, round' = Append(round, c)
  PROVE  /\ round' \in Seq(Records)' /\ Len(round') = Len(round) + 1 /\ round' # <<>>
         /\ \A i \in DOMAIN round' :
              \/ i \in DOMAIN round /\ round'[i] = round[i]
              \/ round'[i] = c
<1>1. /\ Len(round') = Len(round) + 1 /\ DOMAIN round' = 1..(Len(round) + 1)
      /\ \A i \in 1..Len(round) : round'[i] = round[i]
      /\ round'[Len(round) + 1] = c
  OBVIOUS
<1>2. round' \in Seq(Records \cup {c})
  OBVIOUS
<1>3. \A i \in DOMAIN round' : round'[i] \in Records'
  BY DEF Records
<1>4. round' \in Seq(Records')
  BY <1>2, <1>3
<1>5. QED BY <1>1, <1>4

LEMMA OneOf ==
  ASSUME round \in Seq(Records), round # <<>>, NEW i \in DOMAIN round, NEW c,
         round' = [round EXCEPT ![i] = c]
  PROVE  /\ round' \in Seq(Records)' /\ Len(round') = Len(round) /\ round' # <<>>
         /\ DOMAIN round' = DOMAIN round /\ round'[i] = c
         /\ \A j \in DOMAIN round : j # i => round'[j] = round[j]
<1>1. round' \in Seq(Records \cup {c}) /\ Len(round') = Len(round)
  OBVIOUS
<1>2. /\ DOMAIN round' = DOMAIN round /\ round'[i] = c
      /\ \A j \in DOMAIN round : j # i => round'[j] = round[j]
  OBVIOUS
<1>3. \A j \in DOMAIN round' : round'[j] \in Records'
  BY DEF Records
<1>4. round' \in Seq(Records')
  BY <1>1, <1>3, SeqInto
<1>5. QED BY <1>1, <1>2, <1>4

-----------------------------------------------------------------------------
(***************************************************************************)
(* The invariant, for each action.                                         *)
(***************************************************************************)
LEMMA ScoresAre ==
  /\ \A x \in Scores : x \in Int /\ NoScore <= x
  /\ \A x \in Scored : x \in Int /\ NoScore < x /\ x \in Scores
BY DEF Scores, Scored, NoScore

LEMMA InitHolds ==
  ASSUME Init
  PROVE  IInv
<1>1. Types
  BY BaseTyped, Bounds DEF Init, Types, RunFields, Pcs, Scores
<1>2. OnDisk
  BY DEF Init, OnDisk, InLoop, Publishing
<1>3. InRound
  BY DEF Init, InRound, InLoop
<1>4. Bounded
  BY Bounds DEF Init, Bounded
<1>5. Compares
  BY Bounds DEF Init, Compares, NoScore, None
<1>6. Chosen
  BY DEF Init, Chosen
<1>7. Integrated
  BY DEF Init, Integrated, CarriedByPatch
<1>8. QED BY <1>1, <1>2, <1>3, <1>4, <1>5, <1>6, <1>7 DEF IInv

LEMMA EmptyRound ==
  ASSUME round' = <<>>
  PROVE  round' \in Seq(Records)' /\ \A i \in DOMAIN round' : Candidate(round[i])'
OBVIOUS

LEMMA QuitHolds ==
  ASSUME IInv, Stops
  PROVE  IInv'
<1>1. integ' # <<>> => integ' = <<integ'[1]>> /\ integ'[1] \in Worktree
  <2>1. "spoilt" \in Content
    BY DEF Content
  <2>2. CASE integ' = integ
    BY <2>2 DEF IInv, Types
  <2>3. CASE pc = "verify" /\ \E fs : integ' = <<WriteFiles(integ[1], fs, "spoilt")>>
    BY <2>1, <2>3, WriteDoes DEF IInv, Types, Integrated
  <2>4. CASE pc = "commit" /\ integ' = <<AllCommitted(integ[1])>>
    BY <2>4, AllCommittedTyped DEF IInv, Types, Integrated
  <2>5. QED BY <2>2, <2>3, <2>4 DEF Stops
<1>2. Types'
  <2>1. NoScore \in Scores
    BY DEF Scores
  <2>2. 0 \in 0..Candidates
    BY Bounds
  <2>3. QED BY <1>1, <2>1, <2>2 DEF IInv, Types, Stops, Keeps, Pcs, Winner
<1>3. OnDisk'
  BY DEF Stops, OnDisk, InLoop, Publishing
<1>4. InRound'
  BY DEF Stops, InRound, InLoop
<1>5. Bounded'
  BY DEF IInv, Bounded, Stops, Keeps
<1>6. Compares'
  <2>1. NoScore <= seen.top
    BY ScoresAre DEF IInv, Types
  <2>2. run'.st \notin Terminal => run.st \notin Terminal
    BY DEF Stops, Terminal, IInv, OnDisk, Types, Pcs
  <2>3. run'.error # "no_progress"
    BY DEF Stops, IInv, Compares
  <2>4. QED BY <2>1, <2>2, <2>3 DEF IInv, Compares, Stops, Keeps
<1>7. Chosen'
  BY DEF IInv, Chosen, Stops, Keeps, Winner
<1>8. Integrated'
  <2>1. integ # <<>> => integ' # <<>>
    <3>1. integ' = integ \/ \E w : integ' = <<w>>
      BY DEF Stops
    <3>2. QED BY <3>1
  <2>2. run'.st = "OutcomePublishing" => run.st = "OutcomePublishing"
    BY DEF Stops
  <2>3. QED BY <2>1, <2>2 DEF IInv, Integrated, Stops, Keeps, CarriedByPatch
<1>9. QED BY <1>2, <1>3, <1>4, <1>5, <1>6, <1>7, <1>8 DEF IInv

LEMMA RunCandidatesHolds ==
  ASSUME IInv, RunCandidates
  PROVE  IInv'
<1>1. Types'
  <2>1. allowed' \in 0..Candidates /\ NoScore \in Scores
    BY RunCandidatesDoes DEF IInv, Scores
  <2>2. run'.baseline \in {<<>>} \cup {<<b>> : b \in Baselines}
    BY RunCandidatesDoes DEF IInv
  <2>3. QED
    BY <2>1, <2>2, RunCandidatesDoes
    DEF IInv, Types, Keeps, SameWorld, Pcs, InLoop, Winner
<1>2. OnDisk'
  BY RunCandidatesDoes DEF IInv, OnDisk, Publishing
<1>3. InRound'
  <2>1. run'.baseline # <<>> /\ allowed' # 0
    <3>1. allowed' # 0
      BY RunCandidatesDoes DEF IInv
    <3>2. run'.baseline \in {<<b>> : b \in Baselines}
      BY RunCandidatesDoes DEF IInv
    <3>3. QED BY <3>1, <3>2
  <2>2. QED BY <2>1, RunCandidatesDoes DEF IInv, InRound
<1>4. Bounded'
  BY RunCandidatesDoes DEF IInv, Bounded, Keeps
<1>5. Compares'
  <2>1. NoScore <= seen.top
    BY ScoresAre DEF IInv, Types
  <2>2. QED
    BY <2>1, RunCandidatesDoes DEF IInv, Compares, Keeps, SameWorld, Terminal, OnDisk
<1>6. Chosen'
  BY RunCandidatesDoes DEF IInv, Chosen
<1>7. Integrated'
  BY RunCandidatesDoes DEF IInv, Integrated, CarriedByPatch
<1>8. QED BY <1>1, <1>2, <1>3, <1>4, <1>5, <1>6, <1>7 DEF IInv

LEMMA BeginRoundHolds ==
  ASSUME IInv, BeginRound
  PROVE  IInv'
<1> DEFINE used == IF run.marked THEN run.used + 1 ELSE run.used
<1>1. used \in Nat /\ used <= MaxEscalated
  <2>1. CASE run.marked
    BY <2>1, Bounds DEF IInv, Types, Bounded
  <2>2. CASE ~run.marked
    BY <2>2 DEF IInv, Types, Bounded
  <2>3. QED BY <2>1, <2>2
<1>2. run'.used = used
  BY BeginRoundDoes DEF IInv
<1> HIDE DEF used
<1>3. Types'
  BY <1>1, <1>2, BeginRoundDoes DEF IInv, Types, Keeps, SameWorld, Pcs, InLoop, Winner
<1>4. OnDisk'
  BY BeginRoundDoes DEF IInv, OnDisk, InLoop, Publishing, Keeps
<1>5. InRound'
  <2>1. round' = <<>>
    BY BeginRoundDoes DEF IInv, InRound
  <2>2. QED BY <2>1, BeginRoundDoes DEF IInv, InRound, InLoop, Keeps
<1>6. Bounded'
  BY <1>1, <1>2, BeginRoundDoes DEF IInv, Bounded, Keeps
<1>7. Compares'
  BY BeginRoundDoes DEF IInv, Compares, Keeps, SameWorld
<1>8. Chosen'
  BY BeginRoundDoes DEF IInv, Chosen, Keeps, SameWorld, Winner
<1>9. Integrated'
  BY BeginRoundDoes DEF IInv, Integrated, Keeps, CarriedByPatch
<1>10. QED BY <1>3, <1>4, <1>5, <1>6, <1>7, <1>8, <1>9 DEF IInv

\* Before the batch is planned it is checked that it fits.
LEMMA BatchSizeTyped ==
  ASSUME Types, allowed # 0
  PROVE  BatchSize \in Nat /\ 1 <= BatchSize
BY Bounds DEF BatchSize, SmallerOf, Types

LEMMA PlanHolds ==
  ASSUME IInv, Plan
  PROVE  IInv'
<1> DEFINE index == IF pc = "launch" THEN 1 ELSE Len(round) + 1
           new   == [phase |-> "planned", id |-> run.started + 1, index |-> index]
<1> USE DEF IInv
<1>1. /\ pc \in {"launch", "plan"}
      /\ pc = "launch" => WithinLimit(BatchSize)
      /\ Keeps({"started"}) /\ run'.started = run.started + 1
      /\ pc' = IF index = BatchSize THEN "batch" ELSE "plan"
      /\ round' = IF pc = "launch" THEN <<new>> ELSE Append(round, new)
      /\ past' = past /\ allowed' = allowed /\ SameWorld /\ integ' = integ
  BY PlanDoes
<1>2. /\ run.started \in Nat /\ run'.started \in Nat /\ run.started <= run'.started
      /\ run'.started \in 1..run'.started
  BY <1>1 DEF Types
<1>3. BatchSize \in Nat /\ 1 <= BatchSize /\ BatchSize' = BatchSize
  <2>1. allowed # 0
    BY <1>1 DEF InRound, InLoop
  <2>2. BatchSize' = BatchSize
    BY <1>1 DEF BatchSize, Keeps
  <2>3. QED BY <2>1, <2>2, BatchSizeTyped
<1>4. Len(round) \in Nat /\ index \in Nat
  OBVIOUS
<1> HIDE DEF index
<1>5. /\ round' \in Seq(Records)' /\ round' # <<>>
      /\ Len(round') = index
      /\ \A i \in DOMAIN round' : (i \in DOMAIN round /\ round'[i] = round[i]) \/ round'[i] = new
  <2>1. CASE pc = "launch"
    BY <1>1, <2>1, FirstOf DEF index
  <2>2. CASE pc = "plan"
    BY <1>1, <2>2, MoreOf DEF index, InRound
  <2>3. QED BY <1>1, <2>1, <2>2
<1>6. Types'
  <2>1. seen'.rejected \in SUBSET (1..run'.started)
    BY <1>1, <1>2 DEF Types, SameWorld
  <2>2. run'.winner # <<>> => run'.winner[1].id \in 1..run'.started
    BY <1>1, <1>2 DEF Types, Keeps
  <2>3. QED BY <1>1, <1>2, <2>1, <2>2 DEF Types, Keeps, SameWorld, Pcs, InLoop, Winner
<1>7. OnDisk'
  BY <1>1 DEF OnDisk, InLoop, Publishing, Keeps
<1>8. InRound'
  <2>1. \A c : Candidate(c) => Candidate(c)'
    BY <1>1, <1>2 DEF Candidate, SameWorld
  <2>2. \A c : c = new => Candidate(c)'
    BY <1>1, <1>2, <1>4 DEF Candidate, Types, SameWorld
  <2>3. ASSUME NEW i \in DOMAIN round' PROVE Candidate(round[i])'
    <3>1. PICK c : c = round'[i]
      OBVIOUS
    <3>2. Candidate(c)'
      BY <1>5, <2>1, <2>2, <3>1 DEF InRound
    <3>3. QED BY <3>1, <3>2
  <2>4. QED BY <1>1, <1>5, <2>3 DEF InRound, InLoop, Keeps
<1>9. Bounded'
  <2>1. run.started + (BatchSize - (index - 1)) <= MaxTotal /\ index <= BatchSize
    <3>1. CASE pc = "launch"
      BY <1>1, <1>3, <1>2, <3>1 DEF index, WithinLimit
    <3>2. CASE pc = "plan"
      BY <1>3, <1>4, <1>2, <3>2 DEF index, Bounded
    <3>3. QED BY <1>1, <3>1, <3>2
  <2>2. run'.started + (BatchSize - index) <= MaxTotal
    BY <1>1, <1>2, <1>3, <1>4, <2>1
  <2>3. run'.started <= MaxTotal
    BY <1>2, <1>3, <1>4, <2>1, <2>2, Bounds
  <2>4. pc' = "plan" => Len(round') < BatchSize' /\ run'.started + (BatchSize' - Len(round')) <= MaxTotal
    <3>1. pc' = "plan" => index # BatchSize
      BY <1>1
    <3>2. pc' = "plan" => index < BatchSize
      BY <1>3, <1>4, <2>1, <3>1
    <3>3. QED BY <1>3, <1>5, <2>2, <3>2
  <2>5. QED BY <1>1, <2>3, <2>4 DEF Bounded, Keeps
<1>10. Compares'
  BY <1>1 DEF Compares, Keeps, SameWorld
<1>11. Chosen'
  BY <1>1 DEF Chosen, Keeps, SameWorld, Winner
<1>12. Integrated'
  BY <1>1 DEF Integrated, Keeps, CarriedByPatch
<1>13. QED BY <1>6, <1>7, <1>8, <1>9, <1>10, <1>11, <1>12

\* An action that changes one candidate of the batch.
LEMMA BatchHolds ==
  ASSUME IInv, pc = "batch", pc' = pc, run' = run, Keeps({}), NEW i \in DOMAIN round, NEW c,
         Candidate(c), round' = [round EXCEPT ![i] = c],
         past' = past, allowed' = allowed, SameWorld, integ' = integ
  PROVE  IInv'
<1>1. Types'
  BY DEF IInv, Types, SameWorld, Winner
<1>2. OnDisk'
  BY DEF IInv, OnDisk
<1>3. InRound'
  <2>1. round \in Seq(Records) /\ round # <<>>
    BY DEF IInv, InRound
  <2>2. /\ round' \in Seq(Records)' /\ round' # <<>> /\ DOMAIN round' = DOMAIN round
        /\ round'[i] = c /\ \A j \in DOMAIN round : j # i => round'[j] = round[j]
    BY <2>1, OneOf
  <2>3. \A d : Candidate(d) => Candidate(d)'
    BY DEF Candidate, SameWorld
  <2>4. ASSUME NEW j \in DOMAIN round' PROVE Candidate(round[j])'
    <3>1. PICK d : d = round'[j]
      OBVIOUS
    <3>2. Candidate(d)
      BY <2>2, <3>1 DEF IInv, InRound
    <3>3. Candidate(d)'
      BY <2>3, <3>2
    <3>4. QED BY <3>1, <3>3
  <2>5. QED BY <2>2, <2>4 DEF IInv, InRound
<1>4. Bounded'
  BY DEF IInv, Bounded
<1>5. Compares'
  BY DEF IInv, Compares, SameWorld
<1>6. Chosen'
  BY DEF IInv, Chosen, SameWorld, Winner
<1>7. Integrated'
  BY DEF IInv, Integrated, CarriedByPatch
<1>8. QED BY <1>1, <1>2, <1>3, <1>4, <1>5, <1>6, <1>7 DEF IInv

LEMMA RunAgentHolds ==
  ASSUME IInv, NEW i \in DOMAIN round, RunAgent(i)
  PROVE  IInv'
<1>1. PICK a \in Attempts : round' = [round EXCEPT ![i] =
        [phase |-> "generated", id |-> round[i].id, index |-> round[i].index, did |-> a]]
  BY RunAgentDoes DEF IInv
<1>2. Candidate([phase |-> "generated", id |-> round[i].id, index |-> round[i].index,
                 did |-> a])
  BY GeneratedIs DEF IInv, InRound
<1>3. QED BY <1>1, <1>2, RunAgentDoes, BatchHolds DEF IInv

LEMMA VerifyCandidateHolds ==
  ASSUME IInv, NEW i \in DOMAIN round, VerifyCandidate(i)
  PROVE  IInv'
<1>1. /\ pc = "batch" /\ pc' = pc /\ run' = run /\ Keeps({}) /\ round[i].phase = "generated"
      /\ past' = past /\ allowed' = allowed /\ SameWorld /\ integ' = integ
  BY VerifyCandidateDoes DEF IInv
<1>2. PICK v, fs :
        LET w == WriteFiles(round[i].did.w, fs, "spoilt")
            r == Record(i, v, w) IN
        /\ v.failed \in 0..7 /\ fs \in SUBSET Files
        /\ round' = [round EXCEPT ![i] =
             IF Eligible(r) THEN [r EXCEPT !.proof = Proof(round[i].did.w, w)] ELSE r]
  BY VerifyCandidateDoes DEF IInv
<1> DEFINE w == WriteFiles(round[i].did.w, fs, "spoilt")
           r == Record(i, v, w)
           c == IF Eligible(r) THEN [r EXCEPT !.proof = Proof(round[i].did.w, w)] ELSE r
<1>3. Candidate(c)
  BY <1>1, <1>2, DoneIs DEF IInv, InRound
<1>4. round' = [round EXCEPT ![i] = c]
  BY <1>2
<1> HIDE DEF c
<1>5. QED BY <1>1, <1>3, <1>4, BatchHolds

\* A round with a winner: the winner has proved itself.
LEMMA WonHolds ==
  ASSUME IInv, Evaluate, Won
  PROVE  IInv'
<1> DEFINE w == CHOOSE x \in Winners(Records) : TRUE
<1>1. /\ pc = "batch" /\ \A i \in DOMAIN round : round[i].phase = "done"
      /\ upstream' = upstream /\ integ' = integ /\ left' = left
  BY EvaluateDoes DEF IInv
<1>2. /\ w \in Records /\ Eligible(w) /\ Proven(Kept(w))
      /\ w.id \in 1..run.started /\ w.id \notin seen.rejected
  BY <1>1, DoneEvaluated, WinnerIn DEF IInv, Won
<1>3. run'.winner = <<Kept(w)>>
  BY DEF Won
<1> HIDE DEF w
<1>4. Kept(w).id = w.id /\ run'.winner[1] = Kept(w) /\ run'.winner # <<>>
  BY <1>3 DEF Kept
<1>5. Types'
  BY <1>1, <1>2, <1>3, <1>4 DEF IInv, Types, Keeps, Won, Winner, Pcs
<1>6. OnDisk'
  BY DEF Won, OnDisk, InLoop, Publishing
<1>7. InRound'
  <2>1. \A d : Candidate(d) => Candidate(d)'
    BY DEF Candidate, Won, Keeps
  <2>2. \A j \in DOMAIN round' : Candidate(round[j])'
    BY <2>1 DEF Won, IInv, InRound, Keeps
  <2>3. Records' = Records
    BY DEF Won, Records
  <2>4. QED BY <1>1, <2>2, <2>3 DEF IInv, InRound, InLoop, Won, Keeps
<1>8. Bounded'
  BY DEF IInv, Bounded, Won, Keeps
<1>9. Compares'
  BY <1>1, Bounds DEF IInv, Compares, Won, Keeps, Types
<1>10. Chosen'
  BY <1>2, <1>4 DEF Chosen, Won, Winner
<1>11. Integrated'
  BY <1>1 DEF Integrated, Won, CarriedByPatch
<1>12. QED BY <1>5, <1>6, <1>7, <1>8, <1>9, <1>10, <1>11 DEF IInv

\* The arithmetic of the comparison: the count of state.json grows only when that of
\* the rounds does.
LEMMA Counting ==
  ASSUME NEW best \in Scores, NEW earlier \in Scores, NEW top \in Scores, NEW own \in Scored,
         NEW stuck \in Nat, NEW dry \in Nat,
         best <= top, earlier <= top, stuck <= dry
  PROVE  LET current == LargerOf(earlier, own)
             stuck2  == IF best # NoScore /\ current <= best THEN stuck + 1 ELSE 0
             top2    == LargerOf(top, own)
             dry2    == IF top # NoScore /\ own <= top THEN dry + 1 ELSE 0 IN
         /\ current \in Scores /\ current <= top2 /\ top2 \in Scores
         /\ stuck2 \in Nat /\ dry2 \in Nat /\ stuck2 <= dry2
         /\ stuck2 <= stuck + 1
<1>1. best \in Int /\ earlier \in Int /\ top \in Int /\ own \in Int
  BY ScoresAre
<1>2. own \in Scores /\ NoScore < own
  BY ScoresAre
<1>3. LargerOf(earlier, own) \in {earlier, own} /\ LargerOf(top, own) \in {top, own}
  BY DEF LargerOf
<1>4. /\ own <= LargerOf(earlier, own) /\ earlier <= LargerOf(earlier, own)
      /\ LargerOf(earlier, own) <= LargerOf(top, own)
  BY <1>1 DEF LargerOf
<1>5. best # NoScore /\ LargerOf(earlier, own) <= best => top # NoScore /\ own <= top
  BY <1>1, <1>2, <1>3, <1>4
<1>6. QED BY <1>1, <1>2, <1>3, <1>4, <1>5

LEMMA LostHolds ==
  ASSUME IInv, Evaluate, Lost
  PROVE  IInv'
<1> DEFINE own == TopScore(Records)
<1>1. /\ pc = "batch" /\ \A i \in DOMAIN round : round[i].phase = "done"
      /\ upstream' = upstream /\ integ' = integ /\ left' = left
  BY EvaluateDoes DEF IInv
<1>2. own \in Scored
  BY <1>1, DoneEvaluated, TopTyped DEF IInv
<1>3. /\ run.best \in Scores /\ past \in Scores /\ seen.top \in Scores
      /\ run.stuck \in Nat /\ seen.dry \in Nat
      /\ run.best <= seen.top /\ past <= seen.top /\ run.stuck <= seen.dry
  BY DEF IInv, Types, Compares
<1>4. /\ DOMAIN seen = {"top", "dry", "rejected"}
      /\ seen'.rejected = seen.rejected /\ seen' \in [top : {seen'.top}, dry : {seen'.dry},
                                                      rejected : {seen.rejected}]
      /\ seen'.top = LargerOf(seen.top, own)
      /\ seen'.dry = IF seen.top # NoScore /\ own <= seen.top THEN seen.dry + 1 ELSE 0
  BY DEF IInv, Types, Lost, Compared
<1>5. Stuck(Current) = IF run.best # NoScore /\ Current <= run.best THEN run.stuck + 1 ELSE 0
  BY DEF Stuck
<1>6. /\ Current \in Scores /\ Current <= seen'.top /\ seen'.top \in Scores
      /\ Stuck(Current) \in Nat /\ seen'.dry \in Nat /\ Stuck(Current) <= seen'.dry
      /\ Stuck(Current) <= run.stuck + 1
  BY <1>2, <1>3, <1>4, <1>5, Counting DEF Current
<1> HIDE DEF own
<1>7. run.st = "AgentRunning" /\ run.error # "no_progress" /\ run.stuck < StopAfter
  BY <1>1 DEF IInv, OnDisk, InLoop, Compares, Terminal
<1>8. Types'
  <2>1. past' \in Scores /\ allowed' \in 0..Candidates /\ pc' \in Pcs
    BY <1>6, Bounds DEF Lost, IInv, Types, Scores, Pcs
  <2>2. seen' \in [top : Scores, dry : Nat, rejected : SUBSET (1..run'.started)]
    BY <1>4, <1>6 DEF IInv, Types, Lost, Keeps
  <2>3. QED BY <1>1, <1>6, <2>1, <2>2 DEF IInv, Types, Keeps, Lost
<1>9. OnDisk'
  BY DEF Lost, OnDisk, InLoop, Publishing
<1>10. InRound'
  <2>1. CASE round' = <<>> /\ pc' = "idle"
    BY <2>1 DEF InRound, InLoop
  <2>2. CASE round' = round /\ pc' = "evaluated" /\ allowed' = allowed
    <3>1. \A d : Candidate(d) => Candidate(d)'
      BY <1>4 DEF Candidate, Lost, Keeps
    <3>2. \A j \in DOMAIN round' : Candidate(round[j])'
      BY <1>4, <2>2, <3>1 DEF IInv, InRound, Keeps
    <3>3. Records' = Records
      BY <2>2 DEF Records
    <3>4. QED BY <1>1, <2>2, <3>2, <3>3 DEF IInv, InRound, InLoop, Lost, Keeps
  <2>3. QED BY <2>1, <2>2 DEF Lost
<1>11. Bounded'
  BY DEF IInv, Bounded, Lost, Keeps
<1>12. Compares'
  <2>1. run'.best <= seen'.top /\ run'.stuck <= seen'.dry /\ run'.stuck = Stuck(Current)
    BY <1>6 DEF Lost
  <2>2. past' <= seen'.top
    BY <1>6, ScoresAre DEF Lost
  <2>3. Stuck(Current) <= StopAfter
    BY <1>6, <1>7, Bounds, <1>3
  <2>4. CASE Stuck(Current) >= StopAfter
    <3>1. seen'.dry >= StopAfter
      BY <1>6, <2>4, Bounds
    <3>2. run'.st = "TerminalFailure" /\ pc' = "idle"
      BY <2>4 DEF Lost
    <3>3. QED BY <2>1, <2>2, <2>3, <3>1, <3>2 DEF Compares, Terminal
  <2>5. CASE ~(Stuck(Current) >= StopAfter)
    <3>1. Stuck(Current) < StopAfter
      BY <1>6, <2>5, Bounds
    <3>2. run'.error # "no_progress"
      BY <1>7, <2>5 DEF Lost
    <3>3. QED BY <2>1, <2>2, <2>3, <3>1, <3>2 DEF Compares
  <2>6. QED BY <2>4, <2>5
<1>13. Chosen'
  BY DEF Chosen, Lost
<1>14. Integrated'
  BY <1>1 DEF Integrated, Lost, CarriedByPatch
<1>15. QED BY <1>8, <1>9, <1>10, <1>11, <1>12, <1>13, <1>14 DEF IInv

LEMMA EvaluateHolds ==
  ASSUME IInv, Evaluate
  PROVE  IInv'
BY EvaluateDoes, WonHolds, LostHolds DEF IInv

LEMMA NextAttemptHolds ==
  ASSUME IInv, NextAttempt
  PROVE  IInv'
<1>1. Types'
  <2>1. run'.attempt \in 1..MaxAttempts
    BY NextAttemptDoes, Bounds DEF IInv, Types
  <2>2. run'.marked \in BOOLEAN
    BY NextAttemptDoes DEF IInv, Types, Escalates
  <2>3. QED
    BY <2>1, <2>2, NextAttemptDoes DEF IInv, Types, Keeps, SameWorld, Pcs, InLoop
<1>2. OnDisk'
  BY NextAttemptDoes DEF IInv, OnDisk, Publishing
<1>3. InRound'
  BY NextAttemptDoes DEF IInv, InRound, Keeps
<1>4. Bounded'
  BY NextAttemptDoes DEF IInv, Bounded, Escalates, Keeps
<1>5. Compares'
  <2>1. run.stuck < StopAfter
    BY NextAttemptDoes DEF IInv, Compares, OnDisk, Terminal
  <2>2. QED BY <2>1, NextAttemptDoes DEF IInv, Compares, Keeps, SameWorld
<1>6. Chosen'
  BY NextAttemptDoes DEF IInv, Chosen
<1>7. Integrated'
  BY NextAttemptDoes DEF IInv, Integrated, CarriedByPatch
<1>8. QED BY <1>1, <1>2, <1>3, <1>4, <1>5, <1>6, <1>7 DEF IInv

LEMMA PublishHolds ==
  ASSUME IInv, Publish
  PROVE  IInv'
<1>1. Types'
  <2>1. 0 \in 0..Candidates /\ NoScore \in Scores
    BY Bounds DEF Scores
  <2>2. QED
    BY <2>1, PublishDoes DEF IInv, Types, Keeps, SameWorld, Pcs, Publishing, Winner
<1>2. OnDisk'
  BY PublishDoes DEF IInv, OnDisk, InLoop
<1>3. InRound'
  BY PublishDoes DEF IInv, InRound, InLoop
<1>4. Bounded'
  BY PublishDoes DEF IInv, Bounded, Keeps
<1>5. Compares'
  <2>1. run.stuck < StopAfter /\ NoScore <= seen.top
    BY PublishDoes, ScoresAre DEF IInv, Compares, OnDisk, Terminal, Types
  <2>2. QED BY <2>1, PublishDoes DEF IInv, Compares, Keeps, SameWorld
<1>6. Chosen'
  BY PublishDoes DEF IInv, Chosen, Keeps, SameWorld, Winner
<1>7. Integrated'
  BY PublishDoes DEF IInv, Integrated, CarriedByPatch
<1>8. QED BY <1>1, <1>2, <1>3, <1>4, <1>5, <1>6, <1>7 DEF IInv

LEMMA RejectsHolds ==
  ASSUME IInv, Rejects
  PROVE  IInv'
<1>1. pc \in Publishing /\ Rejected("patch_conflict")
  BY RejectsAre
<1>2. run.st = "OutcomePublishing" /\ run.winner # <<>> /\ round = <<>>
  BY <1>1 DEF IInv, OnDisk, Chosen, InRound, Publishing
<1>3. Winner.id \in 1..run.started
  BY <1>2 DEF IInv, Types
<1>4. /\ seen' = [seen EXCEPT !.rejected = @ \cup {Winner.id}]
      /\ round' = round /\ past' = past /\ allowed' = allowed
      /\ upstream' = upstream /\ left' = left
  BY <1>1, RejectedDoes DEF IInv
<1>5. /\ seen'.top = seen.top /\ seen'.dry = seen.dry
      /\ seen' \in [top : Scores, dry : Nat, rejected : SUBSET (1..run.started)]
  BY <1>3, <1>4 DEF IInv, Types
<1> DEFINE Again == /\ run.attempt < MaxAttempts /\ Keeps({"st", "step", "attempt", "winner"})
                    /\ run'.st = "ReadyForExecution" /\ run'.attempt = run.attempt + 1
                    /\ run'.winner = <<>> /\ pc' = "select" /\ integ' = <<>>
           Over  == /\ Keeps({"st", "error"}) /\ run'.st = "TerminalFailure"
                    /\ run'.error = "patch_conflict"
                    /\ pc' = "idle" /\ integ' = integ
<1>6. Again \/ Over
  BY <1>1, RejectedDoes DEF IInv
<1>7. Types'
  <2>1. CASE Again
    <3>1. run'.attempt \in 1..MaxAttempts
      BY <2>1, Bounds DEF IInv, Types
    <3>2. QED BY <1>4, <1>5, <2>1, <3>1 DEF IInv, Types, Keeps, Pcs
  <2>2. CASE Over
    BY <1>4, <1>5, <2>2 DEF IInv, Types, Keeps, Pcs, Winner
  <2>3. QED BY <1>6, <2>1, <2>2
<1>8. OnDisk'
  BY <1>6 DEF OnDisk, InLoop, Publishing
<1>9. InRound'
  BY <1>2, <1>4, <1>6 DEF InRound, InLoop
<1>10. Bounded'
  BY <1>6 DEF IInv, Bounded, Keeps
<1>11. Compares'
  <2>1. run.stuck < StopAfter /\ run.error # "no_progress"
    BY <1>2 DEF IInv, Compares, Terminal
  <2>2. QED BY <1>4, <1>5, <1>6, <2>1 DEF IInv, Compares, Keeps
<1>12. Chosen'
  BY <1>6 DEF Chosen
<1>13. Integrated'
  BY <1>6 DEF Integrated, CarriedByPatch
<1>14. QED BY <1>7, <1>8, <1>9, <1>10, <1>11, <1>12, <1>13 DEF IInv

\* An action of the publication, which leaves the round and the comparison alone.
LEMMA PublicationHolds ==
  ASSUME IInv, pc \in Publishing, pc' \in Publishing, Keeps({"step"}),
         round' = round, past' = past, allowed' = allowed, SameWorld,
         integ' # <<>> => integ' = <<integ'[1]>> /\ integ'[1] \in Worktree, Integrated'
  PROVE  IInv'
<1>1. Types'
  BY DEF IInv, Types, Keeps, SameWorld, Pcs, Winner
<1>2. OnDisk'
  BY DEF IInv, OnDisk, InLoop, Publishing, Keeps
<1>3. InRound'
  <2>1. round' = <<>>
    BY DEF IInv, InRound, Publishing
  <2>2. QED BY <2>1 DEF InRound, InLoop, Publishing
<1>4. Bounded'
  BY DEF IInv, Bounded, Keeps, Publishing
<1>5. Compares'
  BY DEF IInv, Compares, Keeps, SameWorld, Publishing
<1>6. Chosen'
  BY DEF IInv, Chosen, Keeps, SameWorld, Publishing, Winner
<1>7. QED BY <1>1, <1>2, <1>3, <1>4, <1>5, <1>6 DEF IInv

LEMMA IntegrateHolds ==
  ASSUME IInv, Integrate
  PROVE  IInv'
<1>1. pc = "publish" /\ run.st = "OutcomePublishing"
  BY IntegrateDoes DEF IInv, OnDisk, Publishing
<1>2. round' = round /\ past' = past /\ allowed' = allowed /\ SameWorld
  BY IntegrateDoes DEF IInv
<1>3. /\ Keeps({"step"}) /\ run'.step = "integration_created" /\ pc' = "apply"
      /\ integ' = IF run.step = "started" THEN <<Checkout(upstream)>>
                  ELSE <<Reset(integ[1])>>
  BY IntegrateDoes DEF IInv
<1>4. PICK t \in Tree : integ' = <<Checkout(t)>>
  <2>1. CASE run.step = "started"
    BY <1>3, <2>1 DEF IInv, Types
  <2>2. CASE run.step # "started"
    <3>1. integ # <<>>
      BY <1>1, <2>2 DEF IInv, Integrated
    <3>2. integ[1].head \in Tree
      BY <3>1 DEF IInv, Types, Worktree
    <3>3. QED BY <1>3, <2>2, <3>2 DEF Reset
  <2>3. QED BY <2>1, <2>2
<1>5. Checkout(t) \in Worktree /\ Checkout(t).head = t
  BY CheckoutTyped
<1>6. integ'[1] = Checkout(t) /\ integ' # <<>>
  BY <1>4
<1>7. integ' = <<Checkout(integ'[1].head)>>
  BY <1>4, <1>5, <1>6
<1>8. Integrated'
  BY <1>3, <1>6, <1>7 DEF Integrated, CarriedByPatch
<1>9. integ' # <<>> => integ' = <<integ'[1]>> /\ integ'[1] \in Worktree
  BY <1>4, <1>5, <1>6
<1>10. QED BY <1>1, <1>2, <1>3, <1>8, <1>9, PublicationHolds DEF Publishing

LEMMA ApplyHolds ==
  ASSUME IInv, Apply
  PROVE  IInv'
<1>1. /\ pc = "apply" /\ pc' = "verify" /\ Keeps({"step"}) /\ run'.step = "patch_applied"
      /\ integ' = <<Patched(integ[1], Winner.patch)>>
      /\ round' = round /\ past' = past /\ allowed' = allowed /\ SameWorld
  BY ApplyDoes DEF IInv
<1>2. Proven(Winner) /\ Winner' = Winner
  BY <1>1 DEF IInv, Types, Chosen, OnDisk, Publishing, Keeps, Winner
<1>3. PICK t \in Tree : integ[1] = Checkout(t)
  <2>1. integ # <<>> /\ integ = <<Checkout(integ[1].head)>>
    BY <1>1 DEF IInv, Integrated
  <2>2. integ[1].head \in Tree
    BY <2>1 DEF IInv, Types, Worktree
  <2>3. integ[1] = Checkout(integ[1].head)
    BY <2>1
  <2>4. QED BY <2>2, <2>3
<1> DEFINE w == Winner.before
           i == Patched(Checkout(t), PatchOf(w))
<1>4. AgentWork(w) /\ Winner.patch = PatchOf(w)
  BY <1>2 DEF Proven
<1>5. integ' = <<i>> /\ integ' # <<>> /\ integ'[1] = i
  BY <1>1, <1>3, <1>4
<1>6. i \in Worktree
  BY <1>4, PatchedFile
<1>7. CarriedByPatch'
  <2>1. Winner.before' = w
    BY <1>2, <1>4
  <2>2. \A f \in Files :
          /\ f \in Unstaged(w) \ (Lossy \ Binary) =>
                                  \/ i.tree[f] = w.tree[f]
                                  \/ i.tree[f] = "merged" /\ i.head[f] # w.index[f]
          /\ w.tree[f] = Base[f] => i.tree[f] = i.head[f]
    BY <1>4, PatchCarries
  <2> HIDE DEF i, w
  <2>3. QED BY <1>5, <2>1, <2>2 DEF CarriedByPatch
<1> HIDE DEF i, w
<1>8. Integrated'
  BY <1>1, <1>5, <1>7 DEF Integrated
<1>9. QED BY <1>1, <1>5, <1>6, <1>8, PublicationHolds DEF Publishing

LEMMA VerifyIntegrationHolds ==
  ASSUME IInv, VerifyIntegration
  PROVE  IInv'
<1>1. /\ pc = "verify" /\ pc' = "commit" /\ Keeps({"step"}) /\ run'.step = "verified"
      /\ round' = round /\ past' = past /\ allowed' = allowed /\ SameWorld
  BY VerifyIntegrationDoes DEF IInv
<1>2. PICK fs : integ' = <<WriteFiles(integ[1], fs, "spoilt")>>
  BY VerifyIntegrationDoes DEF IInv
<1>3. integ[1] \in Worktree
  BY <1>1 DEF IInv, Integrated, Types
<1>4. "spoilt" \in Content
  BY DEF Content
<1>5. integ' # <<>> /\ integ' = <<integ'[1]>> /\ integ'[1] \in Worktree
  BY <1>2, <1>3, <1>4, WriteDoes
<1>6. Integrated'
  BY <1>1, <1>5 DEF Integrated, CarriedByPatch
<1>7. QED BY <1>1, <1>5, <1>6, PublicationHolds DEF Publishing

LEMMA CommitHolds ==
  ASSUME IInv, Commit
  PROVE  IInv'
<1>1. /\ pc = "commit" /\ pc' = "publish" /\ Keeps({"step"}) /\ run'.step = "committed"
      /\ integ' = <<AllCommitted(integ[1])>>
      /\ round' = round /\ past' = past /\ allowed' = allowed /\ SameWorld
  BY CommitDoes DEF IInv
<1>2. Integrated'
  BY <1>1 DEF IInv, Integrated, CarriedByPatch
<1>3. integ' # <<>> => integ' = <<integ'[1]>> /\ integ'[1] \in Worktree
  BY <1>1, AllCommittedTyped DEF IInv, Types, Integrated
<1>4. QED BY <1>1, <1>2, <1>3, PublicationHolds DEF Publishing

LEMMA AlreadyCommittedHolds ==
  ASSUME IInv, AlreadyCommitted
  PROVE  IInv'
<1>1. /\ pc = "commit" /\ pc' = "publish" /\ Keeps({"step"}) /\ run'.step = "committed"
      /\ integ' = integ
      /\ round' = round /\ past' = past /\ allowed' = allowed /\ SameWorld
  BY AlreadyCommittedDoes DEF IInv
<1>2. Integrated'
  BY <1>1 DEF IInv, Integrated, CarriedByPatch
<1>3. integ' # <<>> => integ' = <<integ'[1]>> /\ integ'[1] \in Worktree
  BY <1>1 DEF IInv, Types
<1>4. QED BY <1>1, <1>2, <1>3, PublicationHolds DEF Publishing

LEMMA MergeHolds ==
  ASSUME IInv, Merge
  PROVE  IInv'
<1>1. /\ pc = "publish" /\ pc' = pc /\ run' = run /\ upstream' \in Tree
      /\ round' = round /\ past' = past /\ allowed' = allowed /\ integ' = integ
      /\ left' = left /\ seen' = seen
  BY MergeDoes DEF IInv
<1>2. Types'
  BY <1>1 DEF IInv, Types, Winner
<1>3. OnDisk' /\ Bounded' /\ Compares' /\ Chosen'
  BY <1>1 DEF IInv, OnDisk, Bounded, Compares, Chosen, Winner
<1>4. InRound'
  BY <1>1 DEF IInv, InRound
<1>5. Integrated'
  BY <1>1 DEF IInv, Integrated, CarriedByPatch
<1>6. QED BY <1>2, <1>3, <1>4, <1>5 DEF IInv

LEMMA ResumeHolds ==
  ASSUME IInv, Resume
  PROVE  IInv'
<1>1. /\ pc = "idle" /\ run.st \notin Terminal
      /\ round' = round /\ past' = past /\ allowed' = allowed /\ integ' = integ
      /\ left' \in [crashes : 0..MaxCrashes, resumes : 0..MaxResumes]
      /\ upstream' = upstream /\ seen' = seen
  BY ResumeDoes DEF IInv
<1>2. round' = <<>>
  BY <1>1 DEF IInv, InRound
<1>3. run.stuck < StopAfter /\ run.error # "no_progress"
  BY <1>1 DEF IInv, Compares
<1>4. CASE run.st = "OutcomePublishing" /\ Keeps({}) /\ pc' = "publish"
  <2>1. Types'
    BY <1>1, <1>4 DEF IInv, Types, Keeps, Pcs, Publishing, Winner
  <2>2. OnDisk'
    BY <1>4 DEF OnDisk, Keeps, InLoop
  <2>3. InRound'
    BY <1>2, <1>4 DEF InRound, InLoop
  <2>4. Bounded'
    BY <1>4 DEF IInv, Bounded, Keeps
  <2>5. Compares'
    BY <1>1, <1>3, <1>4 DEF IInv, Compares, Keeps
  <2>6. Chosen'
    BY <1>1, <1>4 DEF IInv, Chosen, Keeps, Winner
  <2>7. Integrated'
    BY <1>1, <1>4 DEF IInv, Integrated, Keeps, CarriedByPatch
  <2>8. QED BY <2>1, <2>2, <2>3, <2>4, <2>5, <2>6, <2>7 DEF IInv
<1>5. CASE /\ Keeps({"st", "winner"}) /\ pc' = "select"
           /\ run'.st = "ReadyForExecution" /\ run'.winner = <<>>
  <2>1. Types'
    BY <1>1, <1>5 DEF IInv, Types, Keeps, Pcs
  <2>2. OnDisk'
    BY <1>5 DEF OnDisk, InLoop, Publishing
  <2>3. InRound'
    BY <1>2, <1>5 DEF InRound, InLoop
  <2>4. Bounded'
    BY <1>5 DEF IInv, Bounded, Keeps
  <2>5. Compares'
    BY <1>1, <1>3, <1>5 DEF IInv, Compares, Keeps
  <2>6. Chosen'
    BY <1>5 DEF Chosen
  <2>7. Integrated'
    BY <1>5 DEF Integrated, CarriedByPatch
  <2>8. QED BY <2>1, <2>2, <2>3, <2>4, <2>5, <2>6, <2>7 DEF IInv
<1>6. QED BY <1>4, <1>5, ResumeDoes DEF IInv

LEMMA StepHolds ==
  ASSUME IInv, [Next]_vars
  PROVE  IInv'
<1>1. CASE Quits
  BY <1>1, QuitsStop, QuitHolds DEF IInv
<1>2. CASE Rejects
  BY <1>2, RejectsHolds
<1>3. CASE RunCandidates \/ BeginRound \/ Plan \/ NextAttempt
  BY <1>3, RunCandidatesHolds, BeginRoundHolds, PlanHolds, NextAttemptHolds
<1>4. CASE \E i \in DOMAIN round : RunAgent(i) \/ VerifyCandidate(i)
  BY <1>4, RunAgentHolds, VerifyCandidateHolds
<1>5. CASE Evaluate \/ Publish
  BY <1>5, EvaluateHolds, PublishHolds
<1>6. CASE Integrate \/ Apply \/ VerifyIntegration \/ Commit \/ AlreadyCommitted
  BY <1>6, IntegrateHolds, ApplyHolds, VerifyIntegrationHolds, CommitHolds, AlreadyCommittedHolds
<1>7. CASE Merge \/ Resume
  BY <1>7, MergeHolds, ResumeHolds
<1>8. CASE UNCHANGED vars
  BY <1>8
  DEF vars, IInv, Types, OnDisk, InRound, Bounded, Compares, Chosen, Integrated,
      CarriedByPatch, Candidate, Records, Winner, BatchSize
<1>9. QED
  BY <1>1, <1>2, <1>3, <1>4, <1>5, <1>6, <1>7, <1>8 DEF Next, Process, Quits, Rejects

-----------------------------------------------------------------------------
(***************************************************************************)
(* The theorems.                                                           *)
(***************************************************************************)

\* The invariant holds in every state of every behaviour.
THEOREM Invariant == Spec => []IInv
BY InitHolds, StepHolds, PTL DEF Spec

\* Every variable has its type, and no score or count leaves its range.
THEOREM TypeCorrect == Spec => []TypeOK
<1>1. IInv => TypeOK
  <2> SUFFICES ASSUME IInv PROVE TypeOK
    OBVIOUS
  <2>1. \A w \in Range(run.winner) : w.patch \subseteq [file : Files, from : Content, to : Content]
    <3>1. SUFFICES ASSUME NEW w \in Range(run.winner)
                   PROVE  w.patch \subseteq [file : Files, from : Content, to : Content]
      OBVIOUS
    <3>2. run.winner # <<>>
      BY DEF Range
    <3>3. w = Winner /\ Proven(Winner)
      BY <3>2 DEF IInv, Types, Range
    <3>4. QED BY <3>3, EntryOf DEF Proven
  <2>2. \A w \in Range(integ) : {w.head, w.index, w.tree} \subseteq Tree
    <3>1. SUFFICES ASSUME NEW w \in Range(integ) PROVE w \in Worktree
      BY DEF Worktree
    <3>2. integ # <<>>
      BY DEF Range
    <3>3. QED BY <3>2 DEF IInv, Types, Range
  <2>3. run.stuck \in 0..StopAfter
    BY DEF IInv, Types, Compares
  <2>4. QED BY <2>1, <2>2, <2>3 DEF IInv, Types, Scores, Scored, TypeOK
<1>2. QED BY <1>1, Invariant, PTL

\* Across rounds, repairs, crashes and resumes a run starts no more candidates and
\* escalates no more rounds than it is configured to: the batch is compared with the
\* limit before its first candidate is counted (_runtime_limit_error), and the marker of
\* an escalation is set only while there is one left (_should_escalate_next_attempt).
THEOREM BoundedWork == Spec => []WorkIsBounded
<1>1. IInv => WorkIsBounded
  BY DEF IInv, Bounded, WorkIsBounded
<1>2. QED BY <1>1, Invariant, PTL

\* A run is given up for want of progress only when none of its last StopAfter evaluated
\* rounds beat everything before them, although state.json keeps only the score of the
\* round before and a resumed process has no earlier records
\* (_record_no_progress_and_should_stop).
THEOREM EarnedStop == Spec => []StopIsEarned
<1>1. IInv => StopIsEarned
  BY DEF IInv, Compares, StopIsEarned
<1>2. QED BY <1>1, Invariant, PTL

\* What is published is the patch of the worktree the verification ran on, which the
\* verification left as it was but for new files that read the same, and no earlier publication of it failed
\* (_run_candidate_attempt, evaluate, _repair_after_publish_failure).
THEOREM ProvenWinner == Spec => []WinnerIsProven
<1>1. IInv => WinnerIsProven
  <2> SUFFICES ASSUME IInv, Selected PROVE WinnerIsProven
    BY DEF WinnerIsProven
  <2>1. run.st \in {"OutcomePublishing", "Completed"}
    BY DEF Selected, IInv, OnDisk, Publishing
  <2>2. run.winner # <<>> /\ Proven(Winner) /\ Winner.id \notin seen.rejected
    BY <2>1 DEF IInv, Chosen, Types
  <2>3. QED BY <2>2 DEF WinnerIsProven, Proven
<1>2. QED BY <1>1, Invariant, PTL

\* The patch brings the tracked files the winner changed to the default branch, whatever
\* that has become and however often the publication was interrupted, those that lose
\* their line ends excepted, and touches no file the winner did not (apply_patch).
THEOREM PatchIsCarried == Spec => []CarriedByPatch
<1>1. IInv => CarriedByPatch
  BY DEF IInv, Integrated
<1>2. QED BY <1>1, Invariant, PTL
================
