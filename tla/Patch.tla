--------------------------------- MODULE Patch ---------------------------------
(***************************************************************************)
(* What git and src/gg/orchestrator/git.py make of a worktree: the files   *)
(* git status names, the patch diff() writes down, and what git apply      *)
(* makes of that patch in another worktree.  A file's content is one of a  *)
(* few tokens; a worktree is what its HEAD, its index and its directory    *)
(* hold.                                                                   *)
(***************************************************************************)
EXTENDS Integers, FiniteSets

CONSTANTS Files,     \* the paths of the repository
          Tracked,   \* those the base commit has
          Binary,    \* those whose first bytes hold a zero
          Nested,    \* new files in a directory of which git tracks nothing
          Lossy,     \* those whose bytes and line ends do not survive being read as text
          Manifests  \* dependency manifests, by their names

Dir == "a directory"   \* how git status --short lists Nested

Content == {"absent", "base", "upstream", "edited", "merged", "blank", "spoilt", "garbled"}

ASSUME PatchAssumption == /\ Tracked \subseteq Files /\ Nested \subseteq Files \ Tracked
                          /\ {Binary, Lossy} \subseteq SUBSET Files /\ Manifests \subseteq Files
                          /\ IsFiniteSet(Files) /\ Dir \notin Files

Tree == [Files -> Content]

\* The tree of the base commit.
Base == [f \in Files |-> IF f \in Tracked THEN "base" ELSE "absent"]

\* git worktree add: HEAD, index and directory agree.
Checkout(tree) == [head |-> tree, index |-> tree, tree |-> tree]

\* A program writes the files of fs into the worktree.
WriteFiles(w, fs, c) == [w EXCEPT !.tree = [f \in Files |-> IF f \in fs THEN c ELSE @[f]]]

\* git add.
Stage(w, fs) == [w EXCEPT !.index = [f \in Files |-> IF f \in fs THEN w.tree[f] ELSE @[f]]]

Untracked(w) == {f \in Files : w.index[f] = "absent" /\ w.tree[f] # "absent"}

Unstaged(w) == {f \in Files : w.index[f] # "absent" /\ w.tree[f] # w.index[f]}

(***************************************************************************)
(* changed_files: the paths of git status --short, staged or not.  A       *)
(* directory with nothing git knows is one line, whatever is in it.        *)
(***************************************************************************)
Listed(w) ==
  LET changed == {f \in Files : w.index[f] # w.head[f]} \cup Unstaged(w) \cup Untracked(w)
      hidden  == changed \cap Nested \cap Untracked(w)
  IN (changed \ hidden) \cup (IF hidden = {} THEN {} ELSE {Dir})

(***************************************************************************)
(* diff: git diff against the index, then a block for every untracked      *)
(* file, which ls-files names one by one.  The blocks have no hunk header, *)
(* and what they hold was read as text: bytes that are no UTF-8 and line   *)
(* ends are not told apart.  The lines of git diff name the blobs too, so  *)
(* two edits of one file that differ always read differently.              *)
(***************************************************************************)
Edits(w) == {[file |-> f, from |-> w.index[f], to |-> w.tree[f]] : f \in Unstaged(w)}

\* read_text(errors="replace").
AsText(f, c) == IF f \in Lossy THEN "garbled" ELSE c

Blocks(w) == {[file |-> f, from |-> "absent", to |-> AsText(f, w.tree[f])] : f \in Untracked(w)}

Diff(w) == Edits(w) \cup Blocks(w)

\* _run_candidate_attempt and the executor: no diff is taken when no file is listed.
PatchOf(w) == IF Listed(w) = {} THEN {} ELSE Diff(w)

IsBlock(e) == e.from = "absent"

(***************************************************************************)
(* apply_patch: git apply --3way --index.  run_git strips the diff of the  *)
(* tracked files, which cuts the last of them, for sure when it is binary, *)
(* perhaps when it is a text whose last line is blank; a changed base is   *)
(* merged or conflicts, a binary one conflicts; a new file must not exist. *)
(***************************************************************************)
EditsOf(p) == {e \in p : ~IsBlock(e)}

MustRefuse(w, p) ==
  \/ \E e \in p : IsBlock(e) /\ w.tree[e.file] # "absent"
  \/ EditsOf(p) # {} /\ \A e \in EditsOf(p) : e.file \in Binary
  \/ \E e \in EditsOf(p) : e.file \in Binary /\ w.tree[e.file] \notin {e.from, e.to}

MayRefuse(w, p) == EditsOf(p) # {}

\* A block without a hunk creates an empty file; the line ends of a text are lost.
Brought(w, e) == IF IsBlock(e) THEN "blank"
                 ELSE IF e.file \in Lossy \ Binary THEN "garbled"
                 ELSE IF w.tree[e.file] \in {e.from, e.to} THEN e.to ELSE "merged"

Patched(w, p) ==
  LET new == [f \in Files |-> IF \E e \in p : e.file = f
                                THEN Brought(w, CHOOSE e \in p : e.file = f)
                                ELSE w.tree[f]]
  IN [w EXCEPT !.tree = new, !.index = new]

\* Faulty variant: what the interrupted publication left stays.
ResetNot(w) == w

\* reset_worktree: git reset --hard, git clean -fd.
Reset(w) == Checkout(w.head)

(***************************************************************************)
(* _candidate_policy_violations: each rule looks at the listed names.  A   *)
(* directory is no file, has no filter attribute and is no manifest.       *)
(***************************************************************************)
Forbidden == [binary |-> Binary, dependency |-> Manifests]

Violations(listed, disallowed) == {k \in disallowed : listed \cap Forbidden[k] # {}}
================================================================================
