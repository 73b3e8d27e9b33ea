----------------------------- MODULE Tracker_proofs -----------------------------
(***************************************************************************)
(* Proofs about the issue of a run and the rate limits of its commands.    *)
(***************************************************************************)
EXTENDS Tracker, FiniteSetTheorems, SequenceTheorems, TLAPS

USE TrackerAssumption, RateAssumption

(***************************************************************************)
(* The rate limits.                                                        *)
(***************************************************************************)
\* A command that has started has a bucket.
Asked == \A p \in Procs : cmd[p].at # "idle" => cmd[p].bucket \in Buckets

\* Until the end of a refusal its row stands, and whoever is past the check had
\* looked before.
Covered(b) ==
  clock < quiet[b].until /\ ~quiet[b].broken
  => /\ rows[b] = [remaining |-> 0, reset |-> quiet[b].until]
     /\ InFlight(b) \subseteq quiet[b].early

Quiets == \A b \in Buckets : Covered(b)

RateInv == RateTypeOK /\ Asked /\ Quiets

\* What an answer of the tool is.
LEMMA AnswerTypes ==
  ASSUME clock \in 0..MaxClock, NEW a \in CanAnswer
  PROVE  a \in Answers
BY DEF CanAnswer, Answers, Headers, NoHeaders, Soon, Times

LEMMA IdleTypes ==
  /\ Idle \in [at : {"idle", "looked", "cleared", "answered"},
               bucket : Buckets \cup {None}, answer : Answers]
  /\ Idle.at = "idle" /\ Idle.answer.kind = "none"
BY DEF Idle, NoAnswer, NoHeaders, Answers, Headers

Commands == [at : {"idle", "looked", "cleared", "answered"},
             bucket : Buckets \cup {None}, answer : Answers]

\* The steps of a command that write nothing to the database: they leave what is
\* past the check alone, unless the row lets it through.
LEMMA CmdStep ==
  ASSUME RateInv, NEW p \in Procs, NEW c \in Commands,
         cmd' = [cmd EXCEPT ![p] = c], UNCHANGED <<rows, quiet, clock>>,
         told' \in 0..MaxTold,
         c.at # "idle" => c.bucket \in Buckets,
         c.at \in {"cleared", "answered"} =>
            \/ cmd[p].at \in {"cleared", "answered"} /\ c.bucket = cmd[p].bucket
            \/ rows[c.bucket] = None \/ ~Exhausted(rows[c.bucket])
  PROVE  RateInv'
<1>1. cmd \in [Procs -> Commands] /\ cmd' \in [Procs -> Commands]
  BY DEF RateInv, RateTypeOK, Commands
<1>2. \A q \in Procs : cmd'[q] = IF q = p THEN c ELSE cmd[q]
  BY <1>1
<1>3. RateTypeOK'
  BY <1>1 DEF RateInv, RateTypeOK, Commands
<1>4. Asked'
  BY <1>2 DEF RateInv, Asked
<1>5. ASSUME NEW b \in Buckets  PROVE Covered(b)'
  <2>1. SUFFICES ASSUME clock < quiet[b].until, ~quiet[b].broken
                 PROVE  InFlight(b)' \subseteq quiet[b].early
    BY DEF RateInv, Quiets, Covered
  <2>2. /\ rows[b] = [remaining |-> 0, reset |-> quiet[b].until]
        /\ InFlight(b) \subseteq quiet[b].early
    BY <2>1 DEF RateInv, Quiets, Covered
  <2>3. rows[b] # None /\ Exhausted(rows[b])
    <3>1. quiet[b].until \in Nat
      BY DEF RateInv, RateTypeOK, Times
    <3> QED BY <3>1, <2>1, <2>2 DEF Exhausted
  <2>4. ASSUME NEW q \in Procs, cmd'[q].bucket = b, cmd'[q].at \in {"cleared", "answered"}
        PROVE  q \in InFlight(b)
    BY <1>2, <2>3, <2>4 DEF InFlight
  <2> QED BY <2>2, <2>4 DEF InFlight
<1> QED BY <1>3, <1>4, <1>5 DEF RateInv, Quiets

LEMMA LookKeeps == ASSUME RateInv, NEW p \in Procs, NEW b \in Buckets, Look(p, b)
                   PROVE  RateInv'
<1> DEFINE c == [Idle EXCEPT !.bucket = b,
                   !.at = IF rows[b] = None THEN "cleared" ELSE "looked"]
<1>1. /\ c \in Commands /\ c.bucket = b /\ c.answer.kind = "none"
      /\ c.at = IF rows[b] = None THEN "cleared" ELSE "looked"
  BY IdleTypes DEF Commands, Idle, NoAnswer
<1>2. cmd' = [cmd EXCEPT ![p] = c] /\ UNCHANGED <<rows, quiet, told, clock>>
  BY DEF Look
<1>3. told' \in 0..MaxTold
  BY <1>2 DEF RateInv, RateTypeOK
<1> HIDE DEF c
<1> QED BY <1>1, <1>2, <1>3, CmdStep

LEMMA ClearKeeps == ASSUME RateInv, NEW p \in Procs, Clear(p)  PROVE RateInv'
<1> DEFINE c == [cmd[p] EXCEPT !.at = "cleared"]
<1>0. cmd[p] \in Commands
  BY DEF RateInv, RateTypeOK, Commands
<1>1. /\ c \in Commands /\ c.bucket = cmd[p].bucket /\ c.answer = cmd[p].answer
      /\ c.at = "cleared"
  BY <1>0 DEF Commands
<1>2. /\ cmd' = [cmd EXCEPT ![p] = c] /\ UNCHANGED <<rows, quiet, told, clock>>
      /\ cmd[p].at = "looked" /\ ~Exhausted(rows[cmd[p].bucket])
  BY <1>0 DEF Clear
<1>3. told' \in 0..MaxTold /\ cmd[p].bucket \in Buckets
  BY <1>1, <1>2 DEF RateInv, RateTypeOK, Asked
<1> HIDE DEF c
<1> QED BY <1>1, <1>2, <1>3, CmdStep

LEMMA ThrottleKeeps == ASSUME RateInv, NEW p \in Procs, Throttle(p)  PROVE RateInv'
<1>1. /\ Idle \in Commands /\ Idle.at = "idle" /\ Idle.answer.kind = "none"
  BY IdleTypes DEF Commands
<1>2. told' \in 0..MaxTold
  BY DEF RateInv, RateTypeOK, Throttle
<1> QED BY <1>1, <1>2, CmdStep DEF Throttle

LEMMA SendKeeps == ASSUME RateInv, NEW p \in Procs, NEW a, Send(p, a)  PROVE RateInv'
<1> DEFINE c == [cmd[p] EXCEPT !.at = "answered", !.answer = a]
<1>0. cmd[p] \in Commands /\ a \in Answers /\ cmd[p].bucket \in Buckets
  BY DEF RateInv, RateTypeOK, Commands, Send, Asked
<1>1. /\ c \in Commands /\ c.bucket = cmd[p].bucket /\ c.answer = a /\ c.at = "answered"
  BY <1>0 DEF Commands
<1>2. /\ cmd' = [cmd EXCEPT ![p] = c] /\ UNCHANGED <<rows, quiet, clock>>
      /\ cmd[p].at = "cleared"
  BY <1>0 DEF Send, Commands, RateInv, RateTypeOK
<1>3. told' \in 0..MaxTold
  BY DEF RateInv, RateTypeOK, Send
<1> HIDE DEF c
<1> QED BY <1>0, <1>1, <1>2, <1>3, CmdStep

LEMMA WaitKeeps == ASSUME RateInv, Wait  PROVE RateInv'
<1>1. clock' = clock + 1 /\ UNCHANGED <<rows, cmd, quiet, told>> /\ clock \in 0..MaxClock
      /\ clock < MaxClock
  BY DEF Wait, RateInv, RateTypeOK
<1>2. RateTypeOK' /\ Asked'
  BY <1>1 DEF RateInv, RateTypeOK, Asked
<1>3. ASSUME NEW b \in Buckets  PROVE Covered(b)'
  <2>1. quiet[b].until \in Nat
    BY DEF RateInv, RateTypeOK, Times
  <2>2. clock' < quiet[b].until => clock < quiet[b].until
    BY <1>1, <2>1
  <2> QED BY <1>1, <2>2 DEF RateInv, Quiets, Covered, InFlight
<1> QED BY <1>2, <1>3 DEF RateInv, Quiets

LEMMA DropKeeps == ASSUME RateInv, NEW p \in Procs, Drop(p)  PROVE RateInv'
<1>1. /\ cmd' = [cmd EXCEPT ![p] = Idle] /\ UNCHANGED <<rows, told, clock>>
      /\ quiet' = [b \in Buckets |-> [quiet[b] EXCEPT !.early = @ \ {p}]]
  BY DEF Drop
<1>2. cmd \in [Procs -> Commands]
      /\ quiet \in [Buckets -> [until : Times, early : SUBSET Procs, broken : BOOLEAN]]
  BY DEF RateInv, RateTypeOK, Commands
<1>3. Idle \in Commands /\ Idle.at = "idle" /\ Idle.answer.kind = "none"
  BY IdleTypes DEF Commands
<1>4. /\ cmd' \in [Procs -> Commands]
      /\ \A q \in Procs : cmd'[q] = IF q = p THEN Idle ELSE cmd[q]
  BY <1>1, <1>2, <1>3
<1>5. \A b \in Buckets : /\ quiet'[b].until = quiet[b].until
                         /\ quiet'[b].broken = quiet[b].broken
                         /\ quiet'[b].early = quiet[b].early \ {p}
  BY <1>1, <1>2
<1>6. RateTypeOK'
  <2>1. quiet' \in [Buckets -> [until : Times, early : SUBSET Procs, broken : BOOLEAN]]
    BY <1>1, <1>2
  <2> QED BY <2>1, <1>1, <1>4 DEF RateInv, RateTypeOK, Commands
<1>7. Asked'
  BY <1>4, <1>3 DEF RateInv, Asked
<1>8. ASSUME NEW b \in Buckets  PROVE Covered(b)'
  <2>1. InFlight(b)' \subseteq InFlight(b) \ {p}
    BY <1>4, <1>3 DEF InFlight
  <2> QED BY <2>1, <1>1, <1>5 DEF RateInv, Quiets, Covered
<1> QED BY <1>6, <1>7, <1>8 DEF RateInv, Quiets

\* The row that an answer leaves.
LEMMA RecordedRow ==
  ASSUME RateTypeOK, NEW a \in Answers, NEW old \in Row \cup {None}
  PROVE  /\ Recorded(a, old) \in Row \cup {None}
         /\ Exhausts(a) =>
               Recorded(a, old) =
                 [remaining |-> 0, reset |-> IF a.headers.reset = None THEN clock + Default
                                             ELSE a.headers.reset]
<1>1. clock + Default \in Times
  BY DEF RateTypeOK, Times
<1>2. /\ a.headers.remaining \in {None, 0, 1} /\ a.headers.reset \in {None} \cup Times
  BY DEF Answers, Headers
<1>3. CASE a.headers.reset = None
  <2>1. HeaderRow(a.headers) = None
    BY <1>3 DEF HeaderRow
  <2> QED BY <2>1, <1>1, <1>3 DEF Recorded, Row, Exhausts
<1>4. CASE a.headers.reset # None
  <2> DEFINE n == IF a.headers.remaining = None THEN 0 ELSE a.headers.remaining
  <2>1. n \in 0..1 /\ n \in Nat /\ a.headers.reset \in Times /\ a.headers.reset \in Nat
    BY <1>2, <1>4 DEF Times
  <2>2. HeaderRow(a.headers) = [remaining |-> n, reset |-> a.headers.reset]
    BY <1>4 DEF HeaderRow
  <2>3. Exhausts(a) => n = 0
    BY DEF Exhausts
  <2> HIDE DEF n
  <2>4. HeaderRow(a.headers) \in Row /\ HeaderRow(a.headers) # None
    <3>1. HeaderRow(a.headers) \in Row
      BY <2>1, <2>2 DEF Row
    <3>2. HeaderRow(a.headers) \in [remaining : Nat, reset : Nat]
      BY <2>1, <2>2
    <3>3. None \notin [remaining : Nat, reset : Nat]
      OBVIOUS
    <3> QED BY <3>1, <3>2, <3>3, Zenon
  <2>5. Recorded(a, old) = HeaderRow(a.headers)
    BY <2>4 DEF Recorded
  <2> QED BY <2>2, <2>3, <2>4, <2>5, <1>4
<1> QED BY <1>3, <1>4

LEMMA RecordKeeps == ASSUME RateInv, NEW p \in Procs, Record(p)  PROVE RateInv'
<1> DEFINE b == cmd[p].bucket
           a == cmd[p].answer
           row == Recorded(a, rows[b])
           refused == Exhausts(a)
           until == IF a.headers.reset = None THEN clock + Default ELSE a.headers.reset
           q1 == [until |-> until, early |-> InFlight(b) \ {p}, broken |-> FALSE]
           q2 == [quiet[b] EXCEPT !.early = @ \ {p}, !.broken = @ \/ p \in quiet[b].early]
<1>1. /\ cmd[p].at = "answered" /\ rows' = [rows EXCEPT ![b] = row]
      /\ quiet' = [quiet EXCEPT ![b] = IF refused THEN q1 ELSE q2]
      /\ cmd' = [cmd EXCEPT ![p] = Idle] /\ UNCHANGED <<told, clock>>
  BY DEF Record
<1>2. /\ cmd \in [Procs -> Commands]
      /\ quiet \in [Buckets -> [until : Times, early : SUBSET Procs, broken : BOOLEAN]]
      /\ rows \in [Buckets -> Row \cup {None}]
      /\ a \in Answers /\ b \in Buckets
      /\ clock \in 0..MaxClock
  BY <1>1 DEF RateInv, RateTypeOK, Commands, Asked
<1>3. /\ row \in Row \cup {None}
      /\ refused => row = [remaining |-> 0, reset |-> until]
  BY <1>2, RecordedRow DEF RateInv
<1>4. until \in Times
  <2>1. clock + Default \in Times
    BY <1>2 DEF Times
  <2> QED BY <2>1, <1>2 DEF Answers, Headers
<1>5. /\ q1.until = until /\ q1.early = InFlight(b) \ {p} /\ q1.broken = FALSE
      /\ q1 \in [until : Times, early : SUBSET Procs, broken : BOOLEAN]
  BY <1>4 DEF InFlight
<1>6. /\ q2.until = quiet[b].until /\ q2.early = quiet[b].early \ {p}
      /\ q2.broken = (quiet[b].broken \/ p \in quiet[b].early)
      /\ q2 \in [until : Times, early : SUBSET Procs, broken : BOOLEAN]
  BY <1>2
<1>7. Idle \in Commands /\ Idle.at = "idle" /\ Idle.answer.kind = "none"
  BY IdleTypes DEF Commands
<1>8. /\ cmd' \in [Procs -> Commands]
      /\ \A q \in Procs : cmd'[q] = IF q = p THEN Idle ELSE cmd[q]
  BY <1>1, <1>2, <1>7
<1>9. p \in InFlight(b)
  BY <1>1 DEF InFlight
<1> HIDE DEF row, refused, until, q1, q2, a
<1>10. RateTypeOK'
  BY <1>1, <1>2, <1>3, <1>5, <1>6, <1>8 DEF RateInv, RateTypeOK, Commands
<1>11. Asked'
  BY <1>8, <1>7 DEF RateInv, Asked
<1>12. ASSUME NEW c \in Buckets  PROVE Covered(c)'
  <2>1. InFlight(c)' = InFlight(c) \ {p}
    BY <1>8, <1>7 DEF InFlight
  <2>2. CASE c # b
    <3>1. rows'[c] = rows[c] /\ quiet'[c] = quiet[c]
      BY <2>2, <1>1, <1>2
    <3> QED BY <3>1, <2>1, <1>1 DEF RateInv, Quiets, Covered
  <2>3. CASE c = b /\ refused
    <3>1. rows'[c] = row /\ quiet'[c] = q1
      BY <2>3, <1>1, <1>2
    <3> QED BY <3>1, <2>1, <2>3, <1>3, <1>5 DEF Covered
  <2>4. CASE c = b /\ ~refused
    <3>1. rows'[c] = row /\ quiet'[c] = q2
      BY <2>4, <1>1, <1>2
    <3>2. ~(clock < quiet[b].until /\ ~q2.broken)
      BY <1>6, <1>9, <1>2 DEF RateInv, Quiets, Covered
    <3> QED BY <3>1, <3>2, <2>4, <1>1, <1>6 DEF Covered
  <2> QED BY <2>2, <2>3, <2>4
<1> QED BY <1>10, <1>11, <1>12 DEF RateInv, Quiets

(***************************************************************************)
(* The lists of commands.                                                  *)
(***************************************************************************)
Stages == {"claim", "blocked", "result", "failed"}
Orders == [op : {"add", "remove"}, what : SUBSET Configured]
          \cup [op : {"view", "comment"}, what : Stages]

\* The labels that a list of commands sets, and those it takes away.
Adds(s) == {l \in Configured : \E i \in 1..Len(s) : s[i].op = "add" /\ l \in s[i].what}
Removes(s) ==
  {l \in Configured : \E i \in 1..Len(s) : s[i].op = "remove" /\ l \in s[i].what}

Labels(s) == \A i \in 1..Len(s) : s[i].op \in {"add", "remove"}

\* A comment comes last, after the lookup of its own stage.
Shape(s) ==
  \A i \in 1..Len(s) :
     /\ s[i].op = "comment" => i = Len(s) /\ (i > 1 => s[i - 1].op = "view")
     /\ s[i].op = "view" =>
           i < Len(s) /\ s[i + 1].op = "comment" /\ s[i + 1].what = s[i].what

Opens(s) == s # <<>> => s[1].op # "comment"

LEMMA SmallSets == ASSUME NEW S \in SUBSET Configured  PROVE IsFiniteSet(S)
<1>1. IsFiniteSet({"work", "blocked", "in_review", "done"})
  <2>1. IsFiniteSet({"work"})
    BY FS_EmptySet, FS_AddElement
  <2>2. IsFiniteSet({"work", "blocked"})
    BY <2>1, FS_AddElement
  <2>3. IsFiniteSet({"work", "blocked", "in_review"})
    BY <2>2, FS_AddElement
  <2> QED BY <2>3, FS_AddElement
<1> QED BY <1>1, FS_Subset

\* SetToSeq lists every element of a finite set.
LEMMA SetToSeqLists ==
  ASSUME NEW S, IsFiniteSet(S)
  PROVE  /\ Cardinality(S) \in Nat
         /\ SetToSeq(S) \in [1..Cardinality(S) -> S]
         /\ \A l \in S : \E i \in 1..Cardinality(S) : SetToSeq(S)[i] = l
<1> DEFINE n == Cardinality(S)
<1>1. n \in Nat /\ ExistsBijection(1..n, S)
  BY FS_CardinalityType
<1>2. \E f \in [1..n -> S] : IsInjective(f)
  BY <1>1 DEF ExistsBijection, Bijection, Injection
<1>3. SetToSeq(S) \in [1..n -> S] /\ IsInjective(SetToSeq(S))
  BY <1>2 DEF SetToSeq
<1>4. SetToSeq(S) \in Injection(1..n, S)
  BY <1>3 DEF Injection
<1>5. Cardinality(1..n) = n
  BY <1>1, FS_Interval
<1>6. SetToSeq(S) \in Surjection(1..n, S)
  BY <1>4, <1>5, FS_Injection
<1> QED BY <1>1, <1>3, <1>6 DEF Surjection

LEMMA LabellingMakes ==
  ASSUME NEW op \in {"add", "remove"}, NEW S \in SUBSET Configured
  PROVE  /\ Labelling(op, S) \in Seq(Orders)
         /\ \A i \in 1..Len(Labelling(op, S)) :
               Labelling(op, S)[i].op = op /\ Labelling(op, S)[i].what \subseteq S
         /\ \A l \in S : \E i \in 1..Len(Labelling(op, S)) : l \in Labelling(op, S)[i].what
<1> DEFINE s == Labelling(op, S)
<1>1. CASE S = {}
  <2>1. s = <<>>
    BY <1>1 DEF Labelling
  <2> QED BY <2>1, <1>1
<1>2. CASE S # {} /\ ~PerLabel
  <2>1. s = <<[op |-> op, what |-> S]>>
    BY <1>2 DEF Labelling, Command
  <2>2. [op |-> op, what |-> S] \in Orders
    BY DEF Orders
  <2>3. s \in Seq(Orders) /\ Len(s) = 1 /\ s[1] = [op |-> op, what |-> S]
    BY <2>1, <2>2
  <2>4. s[1].op = op /\ s[1].what = S
    BY <2>3
  <2>5. \A i \in 1..Len(s) : i = 1
    BY <2>3
  <2> HIDE DEF s
  <2>6. \A l \in S : \E i \in 1..Len(s) : l \in s[i].what
    BY <2>3, <2>4
  <2>7. \A i \in 1..Len(s) : s[i].op = op /\ s[i].what \subseteq S
    BY <2>4, <2>5
  <2> QED BY <2>3, <2>6, <2>7 DEF s
<1>3. CASE S # {} /\ PerLabel
  <2> DEFINE n == Cardinality(S)
             q == SetToSeq(S)
             e(i) == [op |-> op, what |-> {q[i]}]
  <2>1. /\ n \in Nat /\ q \in [1..n -> S] /\ \A l \in S : \E i \in 1..n : q[i] = l
    BY SmallSets, SetToSeqLists
  <2>2. s = [i \in 1..n |-> e(i)]
    BY <1>3 DEF Labelling
  <2> HIDE DEF n, q, s
  <2>3. \A i \in 1..n : e(i) \in Orders /\ e(i).op = op /\ e(i).what = {q[i]} /\ q[i] \in S
    BY <2>1 DEF Orders
  <2> HIDE DEF e
  <2>4. s \in Seq(Orders) /\ Len(s) = n /\ \A i \in 1..n : s[i] = e(i)
    <3>1. s \in Seq(Orders)
      BY <2>1, <2>2, <2>3
    <3>2. DOMAIN s = 1..n
      BY <2>2
    <3>3. Len(s) = n
      BY <3>1, <3>2, <2>1
    <3> QED BY <3>1, <3>3, <2>2
  <2>5. \A i \in 1..Len(s) : s[i].op = op /\ s[i].what \subseteq S
    BY <2>3, <2>4
  <2>6. ASSUME NEW l \in S  PROVE \E i \in 1..Len(s) : l \in s[i].what
    <3>1. PICK i \in 1..n : q[i] = l
      BY <2>1
    <3> QED BY <3>1, <2>3, <2>4
  <2> QED BY <2>4, <2>5, <2>6 DEF s
<1> QED BY <1>1, <1>2, <1>3

LEMMA ApplyMakes ==
  ASSUME NEW A, NEW R
  PROVE  /\ ApplyLabels(A, R) \in Seq(Orders) /\ Labels(ApplyLabels(A, R))
         /\ Adds(ApplyLabels(A, R)) = A \cap Configured
         /\ Removes(ApplyLabels(A, R)) = R \cap Configured
<1> DEFINE a == Labelling("add", A \cap Configured)
           r == Labelling("remove", R \cap Configured)
           s == a \o r
<1>1. ApplyLabels(A, R) = s
  BY DEF ApplyLabels
<1>2. /\ a \in Seq(Orders)
      /\ \A i \in 1..Len(a) : a[i].op = "add" /\ a[i].what \subseteq A \cap Configured
      /\ \A l \in A \cap Configured : \E i \in 1..Len(a) : l \in a[i].what
  BY LabellingMakes
<1>3. /\ r \in Seq(Orders)
      /\ \A i \in 1..Len(r) : r[i].op = "remove" /\ r[i].what \subseteq R \cap Configured
      /\ \A l \in R \cap Configured : \E i \in 1..Len(r) : l \in r[i].what
  BY LabellingMakes
<1> HIDE DEF a, r
<1>4. /\ s \in Seq(Orders) /\ Len(s) = Len(a) + Len(r)
      /\ Len(a) \in Nat /\ Len(r) \in Nat
      /\ \A i \in 1..Len(a) + Len(r) : s[i] = IF i <= Len(a) THEN a[i] ELSE r[i - Len(a)]
  BY <1>2, <1>3
<1> HIDE DEF s
<1>5. \A i \in 1..Len(a) : i \in 1..Len(s) /\ s[i] = a[i]
  BY <1>4
<1>6. ASSUME NEW i \in 1..Len(r)
      PROVE  i + Len(a) \in 1..Len(s) /\ s[i + Len(a)] = r[i]
  <2> DEFINE j == i + Len(a)
  <2>1. /\ j \in 1..Len(s) /\ j \in 1..Len(a) + Len(r)
        /\ ~(j <= Len(a)) /\ j - Len(a) = i
    BY <1>4
  <2> HIDE DEF j
  <2>2. s[j] = r[i]
    BY <2>1, <1>4
  <2> QED BY <2>1, <2>2 DEF j
<1>7. ASSUME NEW i \in 1..Len(s)
      PROVE  \/ i \in 1..Len(a) /\ s[i] = a[i]
             \/ i - Len(a) \in 1..Len(r) /\ s[i] = r[i - Len(a)]
  BY <1>4
<1>8. Labels(s)
  <2>1. ASSUME NEW i \in 1..Len(s)  PROVE s[i].op \in {"add", "remove"}
    <3>1. CASE i \in 1..Len(a) /\ s[i] = a[i]
      BY <3>1, <1>2
    <3>2. CASE i - Len(a) \in 1..Len(r) /\ s[i] = r[i - Len(a)]
      BY <3>2, <1>3
    <3> QED BY <3>1, <3>2, <1>7
  <2> QED BY <2>1 DEF Labels
<1>9. Adds(s) = A \cap Configured
  <2>1. ASSUME NEW l \in A \cap Configured  PROVE l \in Adds(s)
    <3>1. PICK i \in 1..Len(a) : l \in a[i].what
      BY <1>2
    <3> QED BY <3>1, <1>2, <1>5 DEF Adds
  <2>2. ASSUME NEW l \in Adds(s)  PROVE l \in A \cap Configured
    <3>1. PICK i \in 1..Len(s) : s[i].op = "add" /\ l \in s[i].what
      BY DEF Adds
    <3> QED BY <3>1, <1>7, <1>2, <1>3
  <2> QED BY <2>1, <2>2
<1>10. Removes(s) = R \cap Configured
  <2>1. ASSUME NEW l \in R \cap Configured  PROVE l \in Removes(s)
    <3>1. PICK i \in 1..Len(r) : l \in r[i].what
      BY <1>3
    <3> QED BY <3>1, <1>3, <1>6 DEF Removes
  <2>2. ASSUME NEW l \in Removes(s)  PROVE l \in R \cap Configured
    <3>1. PICK i \in 1..Len(s) : s[i].op = "remove" /\ l \in s[i].what
      BY DEF Removes
    <3> QED BY <3>1, <1>7, <1>2, <1>3
  <2> QED BY <2>1, <2>2
<1> QED BY <1>1, <1>4, <1>8, <1>9, <1>10

\* A list of label commands may stand alone, or with a comment after it.
LEMMA AloneMakes ==
  ASSUME NEW s \in Seq(Orders), Labels(s)  PROVE Shape(s) /\ Opens(s)
<1>1. s # <<>> => 1 \in 1..Len(s)
  OBVIOUS
<1> QED BY <1>1 DEF Labels, Shape, Opens

LEMMA CommentedMakes ==
  ASSUME NEW s \in Seq(Orders), Labels(s), NEW stage \in Stages
  PROVE  /\ s \o CommentOnce(stage) \in Seq(Orders)
         /\ Shape(s \o CommentOnce(stage)) /\ Opens(s \o CommentOnce(stage))
         /\ Adds(s \o CommentOnce(stage)) = Adds(s)
         /\ Removes(s \o CommentOnce(stage)) = Removes(s)
<1> DEFINE v == [op |-> "view", what |-> stage]
           c == [op |-> "comment", what |-> stage]
           t == s \o CommentOnce(stage)
<1>1. v \in Orders /\ c \in Orders
  BY DEF Orders
<1>2. CommentOnce(stage) \in Seq(Orders) /\ CommentOnce(stage) = <<v, c>>
  <2>1. <<v>> \o <<c>> = <<v, c>>
    <3> HIDE DEF v, c
    <3>1. /\ <<v>> \in Seq(Orders) /\ Len(<<v>>) = 1 /\ <<v>>[1] = v
          /\ <<c>> \in Seq(Orders) /\ Len(<<c>>) = 1 /\ <<c>>[1] = c
          /\ <<v, c>> \in Seq(Orders) /\ Len(<<v, c>>) = 2
          /\ <<v, c>>[1] = v /\ <<v, c>>[2] = c
      BY <1>1
    <3>2. /\ <<v>> \o <<c>> \in Seq(Orders) /\ Len(<<v>> \o <<c>>) = 1 + 1
          /\ \A i \in 1..1 + 1 : (<<v>> \o <<c>>)[i] = IF i <= 1 THEN <<v>>[i] ELSE <<c>>[i - 1]
      BY <3>1
    <3>3. (<<v>> \o <<c>>)[1] = v /\ (<<v>> \o <<c>>)[2] = c
      BY <3>1, <3>2
    <3> DEFINE x == <<v>> \o <<c>>
               y == <<v, c>>
    <3>4. \A i \in 1..2 : i = 1 \/ i = 2
      OBVIOUS
    <3>5. x \in Seq(Orders) /\ y \in Seq(Orders) /\ Len(x) = Len(y) /\ Len(x) = 2
      BY <3>1, <3>2
    <3>6. x[1] = y[1] /\ x[2] = y[2]
      BY <3>1, <3>3
    <3> HIDE DEF x, y
    <3>7. x = y
      BY <3>4, <3>5, <3>6, SeqEqual
    <3> QED BY <3>7 DEF x, y
  <2>2. CommentOnce(stage) = <<v>> \o <<c>>
    BY DEF CommentOnce, Command
  <2>3. <<v, c>> \in Seq(Orders)
    BY <1>1
  <2> QED BY <2>1, <2>2, <2>3
<1>3. /\ t \in Seq(Orders) /\ Len(t) = Len(s) + 2 /\ Len(s) \in Nat
      /\ \A i \in 1..Len(s) : t[i] = s[i]
      /\ t[Len(s) + 1] = v /\ t[Len(s) + 2] = c
  <2>1. Len(CommentOnce(stage)) = 2 /\ CommentOnce(stage)[1] = v /\ CommentOnce(stage)[2] = c
    BY <1>2
  <2>2. /\ t \in Seq(Orders) /\ Len(t) = Len(s) + 2 /\ Len(s) \in Nat
        /\ \A i \in 1..Len(s) + 2 :
             t[i] = IF i <= Len(s) THEN s[i] ELSE CommentOnce(stage)[i - Len(s)]
    BY <1>2, <2>1
  <2> HIDE DEF t, v, c
  <2> QED BY <2>1, <2>2
<1>4. v.op = "view" /\ c.op = "comment" /\ v.what = c.what
  OBVIOUS
<1> HIDE DEF t, v, c
<1>5. \A i \in 1..Len(t) : \/ i \in 1..Len(s) /\ t[i] = s[i] /\ s[i].op \in {"add", "remove"}
                           \/ i = Len(s) + 1 /\ t[i] = v
                           \/ i = Len(s) + 2 /\ t[i] = c
  BY <1>3 DEF Labels
<1>6. Shape(t)
  <2>1. ASSUME NEW i \in 1..Len(t), t[i].op = "comment"
        PROVE  i = Len(t) /\ (i > 1 => t[i - 1].op = "view")
    <3>1. i = Len(s) + 2
      BY <2>1, <1>4, <1>5
    <3>2. i - 1 = Len(s) + 1
      BY <3>1, <1>3
    <3> QED BY <3>1, <3>2, <1>3, <1>4
  <2>2. ASSUME NEW i \in 1..Len(t), t[i].op = "view"
        PROVE  i < Len(t) /\ t[i + 1].op = "comment" /\ t[i + 1].what = t[i].what
    <3>1. i = Len(s) + 1 /\ t[i] = v
      BY <2>2, <1>4, <1>5
    <3>2. i + 1 = Len(s) + 2 /\ i < Len(t)
      BY <3>1, <1>3
    <3> QED BY <3>1, <3>2, <1>3, <1>4
  <2> QED BY <2>1, <2>2 DEF Shape
<1>7. Opens(t)
  BY <1>3, <1>4, <1>5 DEF Opens
<1>8. \A i \in 1..Len(s) : i \in 1..Len(t) /\ t[i] = s[i]
  BY <1>3
<1>9. \A i \in 1..Len(t) : t[i].op \in {"add", "remove"} => i \in 1..Len(s) /\ t[i] = s[i]
  BY <1>4, <1>5
<1>10. Adds(t) = Adds(s)
  BY <1>8, <1>9 DEF Adds
<1>11. Removes(t) = Removes(s)
  BY <1>8, <1>9 DEF Removes
<1> QED BY <1>3, <1>6, <1>7, <1>10, <1>11 DEF t

\* The labels that a call sets, those it takes away, and those it leaves.
Gives(c) == CASE c \in {"claim", "unblock"} -> {"work"}
              [] c = "blocked" -> {"blocked"}
              [] c = "in_review" -> {"in_review"}
              [] c = "done" -> {"done"}
              [] OTHER -> {}
Takes(c) == CASE c \in {"blocked", "in_review"} -> {"work"}
              [] c = "unblock" -> {"blocked"}
              [] c = "failed" -> {"work", "blocked"}
              [] c = "done" -> {"work", "blocked", "in_review"}
              [] OTHER -> {}
Goal(c) == CASE c \in {"claim", "unblock", "result"} -> {"work"}
             [] c = "blocked" -> {"blocked"}
             [] c = "in_review" -> {"in_review"}
             [] c = "done" -> {"done"}
             [] OTHER -> {}

LEMMA OperationMakes ==
  ASSUME NEW c \in Calls
  PROVE  /\ Operation(c) \in Seq(Orders) /\ Shape(Operation(c)) /\ Opens(Operation(c))
         /\ Adds(Operation(c)) = Gives(c) \cap Configured
         /\ Removes(Operation(c)) = Takes(c) \cap Configured
<1>1. CASE c = "result"
  <2>1. <<>> \in Seq(Orders) /\ Labels(<<>>) /\ Adds(<<>>) = {} /\ Removes(<<>>) = {}
    BY DEF Labels, Adds, Removes
  <2>2. CommentOnce("result") = <<>> \o CommentOnce("result")
    <3>1. CommentOnce("result") \in Seq(Orders)
      BY DEF CommentOnce, Command, Orders, Stages
    <3> QED BY <3>1
  <2>3. Operation(c) = <<>> \o CommentOnce("result")
    BY <1>1, <2>2 DEF Operation
  <2>4. Gives(c) = {} /\ Takes(c) = {}
    BY <1>1 DEF Gives, Takes
  <2> QED BY <2>1, <2>3, <2>4, CommentedMakes DEF Stages
<1>2. CASE c \in {"claim", "blocked", "failed"}
  <2>1. Operation(c) = ApplyLabels(Gives(c), Takes(c)) \o CommentOnce(c)
    BY <1>2 DEF Operation, Gives, Takes
  <2> QED BY <1>2, <2>1, ApplyMakes, CommentedMakes DEF Stages
<1>3. CASE c \in {"unblock", "in_review", "done"}
  <2>1. Operation(c) = ApplyLabels(Gives(c), Takes(c))
    BY <1>3 DEF Operation, Gives, Takes
  <2> QED BY <2>1, ApplyMakes, AloneMakes
<1> QED BY <1>1, <1>2, <1>3 DEF Calls

\* What is left of a list after its first command.
LEMMA HeadIsFirst ==
  ASSUME NEW s \in Seq(Orders), s # <<>>
  PROVE  /\ Len(s) \in Nat \ {0} /\ Head(s) = s[1] /\ Head(s) \in Orders
         /\ Tail(s) \in Seq(Orders) /\ Len(Tail(s)) = Len(s) - 1
         /\ \A i \in 1..Len(Tail(s)) : Tail(s)[i] = s[i + 1]
OBVIOUS

LEMMA TailLeaves ==
  ASSUME NEW s \in Seq(Orders), s # <<>>, Shape(s)
  PROVE  /\ Tail(s) \in Seq(Orders) /\ Shape(Tail(s))
         /\ Tail(s) # <<>> /\ Tail(s)[1].op = "comment" =>
               Head(s).op = "view" /\ Tail(s)[1].what = Head(s).what
         /\ Adds(s) = Adds(Tail(s)) \cup (IF Head(s).op = "add" THEN Head(s).what ELSE {})
         /\ Removes(s) = Removes(Tail(s))
                         \cup (IF Head(s).op = "remove" THEN Head(s).what ELSE {})
<1> DEFINE t == Tail(s)
<1>1. /\ Len(s) \in Nat \ {0} /\ Head(s) = s[1] /\ Head(s) \in Orders
      /\ t \in Seq(Orders) /\ Len(t) = Len(s) - 1
      /\ \A i \in 1..Len(t) : t[i] = s[i + 1]
  OBVIOUS
<1> HIDE DEF t
<1>2. \A i \in 1..Len(t) : i + 1 \in 1..Len(s) /\ t[i] = s[i + 1]
  BY <1>1
<1>3. \A i \in 1..Len(s) : i = 1 \/ (i - 1 \in 1..Len(t) /\ s[i] = t[i - 1])
  BY <1>1
<1>4. Shape(t)
  <2>1. SUFFICES ASSUME NEW i \in 1..Len(t)
                 PROVE  /\ t[i].op = "comment" => i = Len(t) /\ (i > 1 => t[i - 1].op = "view")
                        /\ t[i].op = "view" =>
                              i < Len(t) /\ t[i + 1].op = "comment" /\ t[i + 1].what = t[i].what
    BY DEF Shape
  <2>2. /\ s[i + 1].op = "comment" => i + 1 = Len(s) /\ s[i].op = "view"
        /\ s[i + 1].op = "view" => /\ i + 1 < Len(s) /\ s[i + 2].op = "comment"
                                   /\ s[i + 2].what = s[i + 1].what
    BY <1>1, <1>2 DEF Shape
  <2>3. ASSUME i > 1  PROVE t[i - 1] = s[i]
    <3>1. i - 1 \in 1..Len(t) /\ (i - 1) + 1 = i
      BY <1>1, <2>3
    <3> QED BY <3>1, <1>1
  <2>4. ASSUME i < Len(t)  PROVE t[i + 1] = s[i + 2]
    <3>1. i + 1 \in 1..Len(t) /\ (i + 1) + 1 = i + 2
      BY <1>1, <2>4
    <3> QED BY <3>1, <1>1
  <2>5. t[i] = s[i + 1]
    BY <1>1
  <2>6. t[i].op = "comment" => i = Len(t) /\ (i > 1 => t[i - 1].op = "view")
    BY <1>1, <2>2, <2>3, <2>5
  <2>7. t[i].op = "view" => i < Len(t)
    BY <1>1, <2>2, <2>5
  <2> QED BY <2>2, <2>4, <2>5, <2>6, <2>7
<1>5. t # <<>> /\ t[1].op = "comment" => Head(s).op = "view" /\ t[1].what = Head(s).what
  <2>1. SUFFICES ASSUME t # <<>>, t[1].op = "comment"
                 PROVE  Head(s).op = "view" /\ t[1].what = Head(s).what
    OBVIOUS
  <2>2. Len(t) \in Nat \ {0} /\ t[1] = s[2] /\ 2 \in 1..Len(s) /\ 1 \in 1..Len(s)
    BY <1>1, <2>1
  <2>3. s[1].op = "view"
    BY <2>1, <2>2 DEF Shape
  <2>4. s[2].what = s[1].what
    BY <2>2, <2>3 DEF Shape
  <2> QED BY <1>1, <2>2, <2>3, <2>4
<1>6. Head(s).op \in {"add", "remove"} => Head(s).what \subseteq Configured
  BY <1>1 DEF Orders
<1>7. Adds(s) = Adds(t) \cup (IF Head(s).op = "add" THEN Head(s).what ELSE {})
  <2>1. ASSUME NEW l \in Adds(s)
        PROVE  l \in Adds(t) \/ (s[1].op = "add" /\ l \in s[1].what)
    <3>1. PICK i \in 1..Len(s) : s[i].op = "add" /\ l \in s[i].what
      BY DEF Adds
    <3>2. CASE i = 1
      BY <3>1, <3>2
    <3>3. CASE i - 1 \in 1..Len(t) /\ s[i] = t[i - 1]
      BY <3>1, <3>3 DEF Adds
    <3> QED BY <3>2, <3>3, <1>3
  <2>2. ASSUME NEW l \in Adds(t)  PROVE l \in Adds(s)
    <3>1. PICK i \in 1..Len(t) : t[i].op = "add" /\ l \in t[i].what
      BY DEF Adds
    <3> QED BY <3>1, <1>2 DEF Adds
  <2>3. ASSUME s[1].op = "add", NEW l \in s[1].what  PROVE l \in Adds(s)
    BY <2>3, <1>1, <1>6 DEF Adds
  <2> QED BY <2>1, <2>2, <2>3, <1>1
<1>8. Removes(s) = Removes(t) \cup (IF Head(s).op = "remove" THEN Head(s).what ELSE {})
  <2>1. ASSUME NEW l \in Removes(s)
        PROVE  l \in Removes(t) \/ (s[1].op = "remove" /\ l \in s[1].what)
    <3>1. PICK i \in 1..Len(s) : s[i].op = "remove" /\ l \in s[i].what
      BY DEF Removes
    <3>2. CASE i = 1
      BY <3>1, <3>2
    <3>3. CASE i - 1 \in 1..Len(t) /\ s[i] = t[i - 1]
      BY <3>1, <3>3 DEF Removes
    <3> QED BY <3>2, <3>3, <1>3
  <2>2. ASSUME NEW l \in Removes(t)  PROVE l \in Removes(s)
    <3>1. PICK i \in 1..Len(t) : t[i].op = "remove" /\ l \in t[i].what
      BY DEF Removes
    <3> QED BY <3>1, <1>2 DEF Removes
  <2>3. ASSUME s[1].op = "remove", NEW l \in s[1].what  PROVE l \in Removes(s)
    BY <2>3, <1>1, <1>6 DEF Removes
  <2> QED BY <2>1, <2>2, <2>3, <1>1
<1> QED BY <1>1, <1>4, <1>5, <1>7, <1>8 DEF t

\* Behind a lookup there is only the comment.
LEMMA LookupIsLast ==
  ASSUME NEW s \in Seq(Orders), s # <<>>, Shape(s), Head(s).op = "view"
  PROVE  Adds(s) = {} /\ Removes(s) = {}
<1>1. Len(s) \in Nat \ {0} /\ Head(s) = s[1]
  OBVIOUS
<1>2. 1 < Len(s) /\ s[2].op = "comment"
  BY <1>1 DEF Shape
<1>3. Len(s) = 2
  <2>1. 2 \in 1..Len(s)
    BY <1>1, <1>2
  <2> QED BY <2>1, <1>2 DEF Shape
<1>4. \A i \in 1..Len(s) : s[i].op \notin {"add", "remove"}
  BY <1>1, <1>2, <1>3
<1> QED BY <1>4 DEF Adds, Removes

(***************************************************************************)
(* The issue of the run.                                                   *)
(***************************************************************************)
Runs == [phase : Phases, call : Calls \cup {None}, todo : Seq(Orders), clean : BOOLEAN]

Types == /\ run \in Runs /\ labels \subseteq Configured
         /\ comments \in Seq(Stages \cup {"remark"})
         /\ history \in [blind : BOOLEAN, troubles : Nat, crashes : Nat, waits : Nat]

at == cmd[Runner].at
ok == cmd[Runner].answer.kind = "ok"

\* A command is at work only for a call, and it is the first of the list.
Queued == /\ Shape(run.todo)
          /\ run.call = None => run.todo = <<>> /\ at = "idle"
          /\ at # "idle" => run.todo # <<>>

\* The phase in which a call is made.
During(c) == CASE c = "claim" -> "new"
               [] c = "blocked" -> "waiting"
               [] c = "failed" -> "over"
               [] c = "in_review" -> "reviewed"
               [] OTHER -> "working"

InCall == run.call # None => run.phase = During(run.call)

\* The platform has done what it says it has done.
Applied == at = "answered" /\ ok =>
             /\ Now.op = "add" => Now.what \subseteq labels
             /\ Now.op = "remove" => Now.what \cap labels = {}

Apart == Adds(run.todo) \cap Removes(run.todo) = {}

\* The labels, when what is left of the call has been done, are those of the call.
Final == (labels \cup Adds(run.todo)) \ Removes(run.todo)
Due == run.call # None /\ (run.clean \/ run.call = "done")
       => Final = Goal(run.call) \cap Configured

\* A comment about to be made is not among those that the lookup returned.
Old(stage) ==
  \A i \in 1..Len(comments) : comments[i] = stage => i + MaxComments <= Len(comments)

Checked == ~history.blind /\ run.todo # <<>> /\ run.todo[1].op = "comment"
           /\ at # "answered" => Old(run.todo[1].what)

IssueInv == Types /\ Queued /\ InCall /\ Applied /\ Apart /\ Due /\ Checked
            /\ CommentedOnce /\ LabelsTell

LEMMA Nothing == /\ <<>> \in Seq(Orders) /\ Shape(<<>>)
                 /\ Adds(<<>>) = {} /\ Removes(<<>>) = {}
BY DEF Shape, Adds, Removes

\* A step that leaves the issue alone, and no answer comes of it.
LEMMA AsideKeeps ==
  ASSUME IssueInv, UNCHANGED <<labels, comments, run, history>>,
         \/ at' = at /\ ok' = ok
         \/ run.todo # <<>> /\ at # "answered" /\ at' # "answered"
  PROVE  IssueInv'
<1>1. Types' /\ InCall' /\ Apart' /\ Due' /\ CommentedOnce' /\ LabelsTell'
  BY DEF IssueInv, Types, InCall, Apart, Due, Final, CommentedOnce, LabelsTell, Shown
<1>2. Queued'
  BY DEF IssueInv, Queued
<1>3. Applied'
  BY DEF IssueInv, Applied, Now
<1>4. Checked'
  BY DEF IssueInv, Checked, Old
<1> QED BY <1>1, <1>2, <1>3, <1>4 DEF IssueInv

\* A call that ends without all of its commands done.
LEMMA StopKeeps ==
  ASSUME IssueInv, UNCHANGED <<labels, comments>>, run' \in Runs,
         history' \in [blind : BOOLEAN, troubles : Nat, crashes : Nat, waits : Nat],
         history'.blind = history.blind,
         at' = "idle", run'.call = None, run'.todo = <<>>, run'.clean = FALSE
  PROVE  IssueInv'
<1>1. Types' /\ CommentedOnce'
  BY DEF IssueInv, Types, CommentedOnce
<1>2. Queued' /\ Apart'
  BY Nothing DEF Queued, Apart
<1>3. InCall' /\ Due' /\ LabelsTell'
  BY DEF InCall, Due, LabelsTell
<1>4. Applied' /\ Checked'
  BY DEF Applied, Checked
<1> QED BY <1>1, <1>2, <1>3, <1>4 DEF IssueInv

\* A call, from the phase in which the pipeline makes it.
From(c) == CASE c = "claim" -> "new"
             [] c = "unblock" -> "waiting"
             [] c = "in_review" -> "commented"
             [] OTHER -> "working"

LEMMA StartKeeps ==
  ASSUME IssueInv, UNCHANGED <<labels, comments>>, NEW c \in Calls,
         run' \in Runs, run'.call = c, run'.todo = Operation(c), run'.phase = During(c),
         run'.clean => run.call = None /\ run.phase = From(c) /\ run.clean,
         history' \in [blind : BOOLEAN, troubles : Nat, crashes : Nat, waits : Nat],
         history'.blind = history.blind, at' = "idle"
  PROVE  IssueInv'
<1>1. /\ Shape(Operation(c)) /\ Opens(Operation(c))
      /\ Adds(Operation(c)) = Gives(c) \cap Configured
      /\ Removes(Operation(c)) = Takes(c) \cap Configured
  BY OperationMakes
<1>2. Types' /\ CommentedOnce'
  BY DEF IssueInv, Types, CommentedOnce
<1>3. c # None
  OBVIOUS
<1>4. Queued' /\ InCall' /\ LabelsTell' /\ Applied'
  BY <1>1, <1>3 DEF Queued, InCall, LabelsTell, Applied
<1>5. Checked'
  BY <1>1 DEF Checked, Opens
<1>6. Apart'
  <2>1. Gives(c) \cap Takes(c) = {}
    BY DEF Gives, Takes
  <2> QED BY <1>1, <2>1 DEF Apart
<1>7. Due'
  <2>1. SUFFICES ASSUME run'.clean \/ c = "done"
                 PROVE  (labels \cup (Gives(c) \cap Configured)) \ (Takes(c) \cap Configured)
                        = Goal(c) \cap Configured
    BY <1>1 DEF Due, Final
  <2>2. CASE c = "done"
    <3>1. /\ Gives(c) = {"done"} /\ Goal(c) = {"done"}
          /\ Takes(c) = {"work", "blocked", "in_review"}
      BY <2>2 DEF Gives, Takes, Goal
    <3>2. labels \subseteq Configured /\ Configured \subseteq {"work", "blocked", "in_review", "done"}
      BY DEF IssueInv, Types
    <3> QED BY <3>1, <3>2
  <2>3. CASE c # "done"
    <3>1. labels = Shown \cap Configured /\ run.phase = From(c)
      <4>1. From(c) # "completed"
        BY DEF From
      <4> QED BY <2>1, <2>3, <4>1 DEF IssueInv, LabelsTell
    <3>2. CASE c = "claim"
      BY <3>1, <3>2 DEF From, Shown, Gives, Takes, Goal
    <3>3. CASE c = "blocked"
      BY <3>1, <3>3 DEF From, Shown, Gives, Takes, Goal
    <3>4. CASE c = "unblock"
      BY <3>1, <3>4 DEF From, Shown, Gives, Takes, Goal
    <3>5. CASE c = "failed"
      BY <3>1, <3>5 DEF From, Shown, Gives, Takes, Goal
    <3>6. CASE c = "in_review"
      BY <3>1, <3>6 DEF From, Shown, Gives, Takes, Goal
    <3>7. CASE c = "result"
      BY <3>1, <3>7 DEF From, Shown, Gives, Takes, Goal
    <3> QED BY <2>3, <3>2, <3>3, <3>4, <3>5, <3>6, <3>7 DEF Calls
  <2> QED BY <2>2, <2>3
<1> QED BY <1>2, <1>4, <1>5, <1>6, <1>7 DEF IssueInv

\* A call whose commands are all done.
LEMMA ReturnKeeps ==
  ASSUME IssueInv, UNCHANGED <<labels, comments, history>>,
         run.call # None, run.todo = <<>>, run' \in Runs,
         run'.call = None, run'.todo = <<>>, run'.phase = After(TRUE),
         run'.clean => run.clean \/ run.call = "done",
         at' = "idle"
  PROVE  IssueInv'
<1>1. Types' /\ CommentedOnce'
  BY DEF IssueInv, Types, CommentedOnce
<1>2. Queued' /\ Apart'
  BY Nothing DEF Queued, Apart
<1>3. InCall' /\ Due' /\ Applied' /\ Checked'
  BY DEF InCall, Due, Applied, Checked
<1>4. LabelsTell'
  <2>1. SUFFICES ASSUME run'.clean  PROVE LabelsTell'
    BY DEF LabelsTell
  <2>2. labels = Goal(run.call) \cap Configured
    BY <2>1, Nothing DEF IssueInv, Due, Final
  <2>3. run.phase = During(run.call) /\ run.call \in Calls
    BY DEF IssueInv, InCall, Types, Runs
  <2>4. CASE run.call = "done"
    BY <2>2, <2>4 DEF LabelsTell, After, Goal
  <2>5. CASE run.call # "done"
    <3>1. Shown' = Goal(run.call)
      <4>1. CASE run.call \in {"claim", "unblock"}
        BY <4>1, <2>3 DEF Shown, After, Goal, During
      <4>2. CASE run.call \in {"blocked", "failed"}
        BY <4>2, <2>3 DEF Shown, After, Goal, During
      <4>3. CASE run.call \in {"in_review", "result"}
        BY <4>3, <2>3 DEF Shown, After, Goal
      <4> QED BY <4>1, <4>2, <4>3, <2>3, <2>5 DEF Calls
    <3> QED BY <3>1, <2>2 DEF LabelsTell
  <2> QED BY <2>4, <2>5
<1> QED BY <1>1, <1>2, <1>3, <1>4 DEF IssueInv

\* A command is done, or a lookup has failed, and the next one's turn has come.
LEMMA NextKeeps ==
  ASSUME IssueInv, UNCHANGED <<labels, comments>>, run.todo # <<>>,
         run' = [run EXCEPT !.todo = Tail(@)],
         history' \in [blind : BOOLEAN, troubles : Nat, crashes : Nat, waits : Nat],
         history.blind => history'.blind, at' = "idle",
         Now.op = "add" => Now.what \subseteq labels,
         Now.op = "remove" => Now.what \cap labels = {},
         Now.op = "view" => history'.blind \/ Old(Now.what)
  PROVE  IssueInv'
<1> DEFINE t == Tail(run.todo)
<1>1. /\ run \in Runs /\ run.todo \in Seq(Orders) /\ Shape(run.todo)
      /\ run.call # None
  BY DEF IssueInv, Types, Runs, Queued
<1>2. /\ t \in Seq(Orders) /\ Shape(t)
      /\ t # <<>> /\ t[1].op = "comment" => Now.op = "view" /\ t[1].what = Now.what
      /\ Adds(run.todo) = Adds(t) \cup (IF Now.op = "add" THEN Now.what ELSE {})
      /\ Removes(run.todo) = Removes(t) \cup (IF Now.op = "remove" THEN Now.what ELSE {})
  BY <1>1, TailLeaves DEF Now
<1>3. /\ run' \in Runs /\ run'.todo = t /\ run'.call = run.call
      /\ run'.phase = run.phase /\ run'.clean = run.clean
  BY <1>1, <1>2 DEF Runs
<1> HIDE DEF t
<1>4. Types' /\ CommentedOnce'
  BY <1>3 DEF IssueInv, Types, CommentedOnce
<1>5. Queued' /\ InCall' /\ LabelsTell' /\ Applied'
  BY <1>1, <1>2, <1>3 DEF IssueInv, Queued, InCall, LabelsTell, Applied
<1>6. Apart'
  BY <1>2, <1>3 DEF IssueInv, Apart
<1>7. Due'
  <2>1. Final' = Final
    <3>1. CASE Now.op = "add"
      BY <3>1, <1>2, <1>3 DEF Final
    <3>2. CASE Now.op = "remove"
      <4>1. Now.what \cap Adds(t) = {}
        BY <3>2, <1>2 DEF IssueInv, Apart
      <4> QED BY <3>2, <4>1, <1>2, <1>3 DEF Final
    <3>3. CASE Now.op \notin {"add", "remove"}
      BY <3>3, <1>2, <1>3 DEF Final
    <3> QED BY <3>1, <3>2, <3>3
  <2> QED BY <2>1, <1>3 DEF IssueInv, Due
<1>8. Checked'
  BY <1>2, <1>3 DEF Checked, Old
<1> QED BY <1>4, <1>5, <1>6, <1>7, <1>8 DEF IssueInv

\* A label of the claim is missing in the repository: it goes on with the next.
LEMMA MissingKeeps ==
  ASSUME IssueInv, UNCHANGED <<labels, comments, history>>, run.todo # <<>>,
         run.call = "claim", Now.op = "add",
         run' = [run EXCEPT !.todo = Tail(@), !.clean = FALSE], at' = "idle"
  PROVE  IssueInv'
<1> DEFINE t == Tail(run.todo)
<1>1. run \in Runs /\ run.todo \in Seq(Orders) /\ Shape(run.todo)
  BY DEF IssueInv, Types, Runs, Queued
<1>2. /\ t \in Seq(Orders) /\ Shape(t)
      /\ ~(t # <<>> /\ t[1].op = "comment")
      /\ Adds(t) \subseteq Adds(run.todo) /\ Removes(t) \subseteq Removes(run.todo)
  BY <1>1, TailLeaves DEF Now
<1>3. /\ run' \in Runs /\ run'.todo = t /\ run'.call = "claim"
      /\ run'.phase = run.phase /\ run'.clean = FALSE
  BY <1>1, <1>2 DEF Runs
<1> HIDE DEF t
<1>4. Types' /\ CommentedOnce'
  BY <1>3 DEF IssueInv, Types, CommentedOnce
<1>5. Queued' /\ InCall' /\ LabelsTell' /\ Applied'
  BY <1>1, <1>2, <1>3 DEF IssueInv, Queued, InCall, LabelsTell, Applied
<1>6. Apart' /\ Due' /\ Checked'
  BY <1>2, <1>3 DEF IssueInv, Apart, Due, Checked
<1> QED BY <1>4, <1>5, <1>6 DEF IssueInv

\* The lookup finds the comment: nothing is left to do.
LEMMA SeenKeeps ==
  ASSUME IssueInv, UNCHANGED <<labels, comments, history>>, run.todo # <<>>,
         Now.op = "view", run' = [run EXCEPT !.todo = <<>>], at' = "idle"
  PROVE  IssueInv'
<1>1. /\ run \in Runs /\ run.todo \in Seq(Orders) /\ Shape(run.todo) /\ run.call # None
  BY DEF IssueInv, Types, Runs, Queued
<1>2. Adds(run.todo) = {} /\ Removes(run.todo) = {}
  BY <1>1, LookupIsLast DEF Now
<1>3. /\ run' \in Runs /\ run'.todo = <<>> /\ run'.call = run.call
      /\ run'.phase = run.phase /\ run'.clean = run.clean
  BY <1>1, Nothing DEF Runs
<1>4. Types' /\ CommentedOnce'
  BY <1>3 DEF IssueInv, Types, CommentedOnce
<1>5. Queued' /\ InCall' /\ LabelsTell' /\ Applied' /\ Checked'
  BY <1>1, <1>3, Nothing DEF IssueInv, Queued, InCall, LabelsTell, Applied, Checked
<1>6. Apart' /\ Due'
  BY <1>2, <1>3, Nothing DEF IssueInv, Apart, Due, Final
<1> QED BY <1>4, <1>5, <1>6 DEF IssueInv

\* The tool has run: its work is done, or not.
LEMMA SendKeepsIssue ==
  ASSUME IssueInv, UNCHANGED run, NEW a,
         history' \in [blind : BOOLEAN, troubles : Nat, crashes : Nat, waits : Nat],
         history'.blind = history.blind,
         at = "cleared", at' = "answered", ok' => a.kind = "ok",
         \/ a.kind \in {"ok", "failed"} /\ Change
         \/ a.kind # "ok" /\ UNCHANGED <<labels, comments>>
  PROVE  IssueInv'
<1>1. /\ run \in Runs /\ run.todo \in Seq(Orders) /\ run.todo # <<>> /\ run.call # None
      /\ Shape(run.todo) /\ labels \subseteq Configured
  BY DEF IssueInv, Types, Runs, Queued
<1>2. Now = run.todo[1] /\ Now \in Orders
  BY <1>1 DEF Now
<1>3. /\ Now.op = "add" => Now.what \subseteq Adds(run.todo)
      /\ Now.op = "remove" => Now.what \subseteq Removes(run.todo)
  BY <1>1, TailLeaves DEF Now
<1>4. /\ Now.op \in {"add", "remove"} => Now.what \subseteq Configured
      /\ Now.op \in {"view", "comment"} => Now.what \in Stages
      /\ Now.op \in {"add", "remove", "view", "comment"}
  BY <1>2 DEF Orders
<1>5. /\ labels' \subseteq Configured
      /\ (labels' \cup Adds(run.todo)) \ Removes(run.todo)
           = (labels \cup Adds(run.todo)) \ Removes(run.todo)
      /\ a.kind = "ok" /\ Now.op = "add" => Now.what \subseteq labels'
      /\ a.kind = "ok" /\ Now.op = "remove" => Now.what \cap labels' = {}
      /\ \/ comments' = comments
         \/ Now.op = "comment" /\ comments' = Append(comments, Now.what)
  BY <1>1, <1>3, <1>4 DEF Change
<1>6. comments \in Seq(Stages \cup {"remark"})
  BY DEF IssueInv, Types
<1>7. Types'
  <2>1. comments' \in Seq(Stages \cup {"remark"})
    BY <1>4, <1>5, <1>6, AppendProperties
  <2> QED BY <2>1, <1>1, <1>5 DEF Types
<1>8. CommentedOnce'
  <2>1. CASE comments' = comments
    BY <2>1 DEF IssueInv, CommentedOnce
  <2>2. CASE Now.op = "comment" /\ comments' = Append(comments, Now.what)
    <3>1. SUFFICES ASSUME ~history.blind, NEW i \in 1..Len(comments'),
                          NEW j \in 1..Len(comments'), i < j, comments'[i] = comments'[j]
                   PROVE  comments'[i] = "remark" \/ j - i > MaxComments
      BY DEF CommentedOnce
    <3>2. /\ Len(comments) \in Nat /\ Len(comments') = Len(comments) + 1
          /\ comments'[Len(comments) + 1] = Now.what
          /\ \A k \in 1..Len(comments) : comments'[k] = comments[k]
      BY <2>2, <1>4, <1>6
    <3>3. i \in 1..Len(comments)
      BY <3>1, <3>2
    <3>4. CASE j \in 1..Len(comments)
      BY <3>1, <3>2, <3>3, <3>4 DEF IssueInv, CommentedOnce
    <3>5. CASE j = Len(comments) + 1
      <4>1. Old(Now.what)
        BY <2>2, <3>1, <1>1, <1>2 DEF IssueInv, Checked
      <4>2. comments[i] = Now.what
        BY <3>1, <3>2, <3>3, <3>5
      <4>3. i + MaxComments <= Len(comments)
        BY <4>1, <4>2, <3>3 DEF Old
      <4> QED BY <4>3, <3>2, <3>5
    <3> QED BY <3>2, <3>4, <3>5
  <2> QED BY <1>5, <2>1, <2>2
<1>9. Queued' /\ InCall' /\ LabelsTell' /\ Apart'
  BY <1>1 DEF IssueInv, Queued, InCall, LabelsTell, Apart
<1>10. Due'
  BY <1>5 DEF IssueInv, Due, Final
<1>11. Applied' /\ Checked'
  BY <1>5 DEF Applied, Checked, Now
<1> QED BY <1>7, <1>8, <1>9, <1>10, <1>11 DEF IssueInv

\* Somebody comments.
LEMMA RemarkKeeps ==
  ASSUME IssueInv, UNCHANGED <<labels, run, history, cmd>>,
         comments' = Append(comments, "remark")
  PROVE  IssueInv'
<1>1. /\ comments \in Seq(Stages \cup {"remark"}) /\ run.todo \in Seq(Orders)
      /\ Shape(run.todo)
  BY DEF IssueInv, Types, Runs, Queued
<1>2. /\ Len(comments) \in Nat /\ Len(comments') = Len(comments) + 1
      /\ comments' \in Seq(Stages \cup {"remark"})
      /\ comments'[Len(comments) + 1] = "remark"
      /\ \A k \in 1..Len(comments) : comments'[k] = comments[k]
  BY <1>1
<1>3. Types' /\ Queued' /\ InCall' /\ Apart' /\ Due' /\ LabelsTell' /\ Applied'
  BY <1>2
  DEF IssueInv, Types, Queued, InCall, Apart, Due, Final, LabelsTell, Shown, Applied,
      Now, at, ok
<1>4. CommentedOnce'
  <2>1. SUFFICES ASSUME ~history.blind, NEW i \in 1..Len(comments'),
                        NEW j \in 1..Len(comments'), i < j, comments'[i] = comments'[j]
                 PROVE  comments'[i] = "remark" \/ j - i > MaxComments
    BY DEF CommentedOnce
  <2>2. CASE j \in 1..Len(comments)
    <3>1. i \in 1..Len(comments)
      BY <2>1, <2>2, <1>2
    <3> QED BY <2>1, <2>2, <3>1, <1>2 DEF IssueInv, CommentedOnce
  <2>3. CASE j = Len(comments) + 1
    BY <2>1, <2>3, <1>2
  <2> QED BY <2>2, <2>3, <1>2
<1>5. Checked'
  <2>1. SUFFICES ASSUME ~history.blind, run.todo # <<>>, run.todo[1].op = "comment",
                        at # "answered",
                        NEW i \in 1..Len(comments'), comments'[i] = run.todo[1].what
                 PROVE  i + MaxComments <= Len(comments')
    BY DEF Checked, Old, at
  <2>2. run.todo[1].what \in Stages
    <3>1. run.todo[1] \in Orders
      BY <1>1, <2>1
    <3> QED BY <3>1, <2>1 DEF Orders
  <2>3. i \in 1..Len(comments)
    BY <2>1, <2>2, <1>2 DEF Stages
  <2>4. i + MaxComments <= Len(comments)
    BY <2>1, <2>3, <1>2 DEF IssueInv, Checked, Old
  <2> QED BY <2>3, <2>4, <1>2
<1> QED BY <1>3, <1>4, <1>5 DEF IssueInv

(***************************************************************************)
(* The steps.                                                              *)
(***************************************************************************)
IInv == RateInv /\ IssueInv

LEMMA CmdTypes == ASSUME RateInv  PROVE cmd \in [Procs -> Commands] /\ Runner \in Procs
BY DEF RateInv, RateTypeOK, Commands

LEMMA EndKeeps ==
  ASSUME IssueInv, UNCHANGED <<labels, comments, history>>, NEW throttled \in BOOLEAN,
         End(FALSE, throttled), at' = "idle"
  PROVE  IssueInv'
<1>1. /\ run \in Runs
      /\ history \in [blind : BOOLEAN, troubles : Nat, crashes : Nat, waits : Nat]
  BY DEF IssueInv, Types
<1>2. CASE run.call = "claim" /\ ~throttled
  <2>1. run' = [phase |-> "over", call |-> "failed", todo |-> Operation("failed"),
                clean |-> FALSE]
    BY <1>2 DEF End
  <2>2. "failed" \in Calls /\ During("failed") = "over"
    BY DEF Calls, During
  <2>3. run' \in Runs
    BY <2>1, <2>2, OperationMakes DEF Runs, Phases
  <2> QED BY <2>1, <2>2, <2>3, <1>1, StartKeeps
<1>3. CASE ~(run.call = "claim" /\ ~throttled)
  <2>1. PICK ph \in Phases :
          run' = [phase |-> ph, call |-> None, todo |-> <<>>, clean |-> FALSE]
    <3>1. CASE run.call = "claim" /\ throttled
      BY <3>1 DEF End, Phases
    <3>2. CASE run.call # "claim"
      <4>1. After(FALSE) \in Phases
        BY <1>1 DEF After, Phases, Runs
      <4>2. (IF run.call = "done" /\ FALSE THEN TRUE ELSE run.clean /\ FALSE) = FALSE
        OBVIOUS
      <4> QED BY <3>2, <4>1, <4>2 DEF End
    <3> QED BY <3>1, <3>2, <1>3
  <2>2. run' \in Runs
    BY <2>1 DEF Runs
  <2> QED BY <2>1, <2>2, <1>1, StopKeeps
<1> QED BY <1>2, <1>3

LEMMA CallKeeps == ASSUME IInv, CallSomething  PROVE IInv'
<1>1. PICK c \in Calls : Call(c, During(c)) /\ run.phase = From(c)
  <2>1. CASE run.phase = "new" /\ Call("claim", "new")
    BY <2>1 DEF Calls, During, From
  <2>2. CASE run.phase = "working" /\ Call("blocked", "waiting")
    BY <2>2 DEF Calls, During, From
  <2>3. CASE run.phase = "waiting" /\ Call("unblock", "working")
    BY <2>3 DEF Calls, During, From
  <2>4. CASE run.phase = "working" /\ Call("failed", "over")
    BY <2>4 DEF Calls, During, From
  <2>5. CASE run.phase = "working" /\ \E c \in {"result", "done"} : Call(c, "working")
    BY <2>5 DEF Calls, During, From
  <2>6. CASE MarkInReview
    BY <2>6 DEF MarkInReview, Calls, During, From
  <2> QED BY <2>1, <2>2, <2>3, <2>4, <2>5, <2>6 DEF CallSomething
<1>2. /\ run \in Runs
      /\ history \in [blind : BOOLEAN, troubles : Nat, crashes : Nat, waits : Nat]
  BY DEF IInv, IssueInv, Types
<1>3. /\ run.call = None /\ at = "idle" /\ UNCHANGED <<rateVars, labels, comments>>
      /\ run' = [run EXCEPT !.call = c, !.todo = Operation(c), !.phase = During(c)]
  BY <1>1 DEF Call, at
<1>4. /\ run' \in Runs /\ run'.call = c /\ run'.todo = Operation(c)
      /\ run'.phase = During(c) /\ run'.clean = run.clean
  <2>1. During(c) \in Phases /\ Operation(c) \in Seq(Orders)
    BY OperationMakes DEF During, Phases
  <2> QED BY <2>1, <1>2, <1>3 DEF Runs
<1>5. /\ history' \in [blind : BOOLEAN, troubles : Nat, crashes : Nat, waits : Nat]
      /\ history'.blind = history.blind
  <2>1. CASE c = "blocked"
    <3>1. history' = [history EXCEPT !.waits = history.waits + 1]
      BY <2>1, <1>1, <1>2 DEF Call
    <3> QED BY <3>1, <1>2
  <2>2. CASE c # "blocked"
    <3>1. history' = [history EXCEPT !.waits = history.waits]
      BY <2>2, <1>1 DEF Call
    <3> QED BY <3>1, <1>2
  <2> QED BY <2>1, <2>2
<1>6. at' = "idle"
  BY <1>3 DEF at, rateVars
<1>7. IssueInv'
  BY <1>1, <1>3, <1>4, <1>5, <1>6, StartKeeps DEF IInv
<1>8. RateInv'
  BY <1>3 DEF IInv, RateInv, RateTypeOK, Asked, Quiets, Covered, InFlight, rateVars
<1> QED BY <1>7, <1>8 DEF IInv

LEMMA ResumeKeeps == ASSUME IInv, ResumeSilently  PROVE IInv'
<1>1. /\ run \in Runs /\ run.call = None /\ run.todo = <<>> /\ at = "idle"
      /\ history \in [blind : BOOLEAN, troubles : Nat, crashes : Nat, waits : Nat]
  BY DEF IInv, IssueInv, Types, Queued, ResumeSilently
<1>2. /\ run' = [run EXCEPT !.phase = "working", !.clean = FALSE]
      /\ UNCHANGED <<rateVars, labels, comments, history>>
  BY DEF ResumeSilently
<1>3. /\ run' \in Runs /\ run'.call = None /\ run'.todo = <<>> /\ run'.clean = FALSE
  BY <1>1, <1>2 DEF Runs, Phases
<1>4. at' = "idle"
  BY <1>1, <1>2 DEF at, rateVars
<1>5. IssueInv'
  BY <1>1, <1>2, <1>3, <1>4, StopKeeps DEF IInv
<1>6. RateInv'
  BY <1>2 DEF IInv, RateInv, RateTypeOK, Asked, Quiets, Covered, InFlight, rateVars
<1> QED BY <1>5, <1>6 DEF IInv

LEMMA LookStep == ASSUME IInv, RunnerLook  PROVE IInv'
<1>1. /\ run \in Runs /\ run.todo \in Seq(Orders) /\ run.todo # <<>>
      /\ cmd \in [Procs -> Commands] /\ Runner \in Procs
  BY CmdTypes DEF IInv, IssueInv, Types, Runs, RunnerLook
<1>2. Scope[Now.op] \in Buckets
  <2>1. Now.op \in {"add", "remove", "view", "comment"}
    BY <1>1 DEF Now, Orders
  <2> QED BY <2>1 DEF Scope
<1>3. Look(Runner, Scope[Now.op]) /\ UNCHANGED <<labels, comments, run, history>>
  BY DEF RunnerLook
<1>4. at # "answered" /\ at' # "answered"
  BY <1>1, <1>3 DEF Look, at
<1> QED BY <1>1, <1>2, <1>3, <1>4, LookKeeps, AsideKeeps DEF IInv

LEMMA ClearStep == ASSUME IInv, RunnerClear  PROVE IInv'
<1>1. /\ Clear(Runner) /\ UNCHANGED <<labels, comments, run, history>>
      /\ cmd \in [Procs -> Commands] /\ Runner \in Procs
  BY CmdTypes DEF IInv, RunnerClear
<1>2. at = "looked" /\ at' = "cleared"
  BY <1>1 DEF Clear, at
<1>3. run.todo # <<>>
  BY <1>2 DEF IInv, IssueInv, Queued
<1> QED BY <1>1, <1>2, <1>3, ClearKeeps, AsideKeeps DEF IInv

\* A lookup that has failed.
LEMMA BlindKeeps ==
  ASSUME IssueInv, Blind, UNCHANGED <<labels, comments>>, run.todo # <<>>,
         Now.op = "view", at' = "idle"
  PROVE  IssueInv'
<1>1. history \in [blind : BOOLEAN, troubles : Nat, crashes : Nat, waits : Nat]
  BY DEF IssueInv, Types
<1>2. /\ history' \in [blind : BOOLEAN, troubles : Nat, crashes : Nat, waits : Nat]
      /\ history'.blind
  BY <1>1 DEF Blind
<1> QED BY <1>2, NextKeeps DEF Blind

LEMMA ThrottledStep == ASSUME IInv, RunnerThrottled  PROVE IInv'
<1>1. /\ Throttle(Runner) /\ UNCHANGED <<labels, comments>>
      /\ cmd \in [Procs -> Commands] /\ Runner \in Procs
  BY CmdTypes DEF IInv, RunnerThrottled
<1>2. at = "looked" /\ at' = "idle"
  BY <1>1 DEF Throttle, at, Idle
<1>3. run.todo # <<>>
  BY <1>2 DEF IInv, IssueInv, Queued
<1>4. CASE Now.op = "view"
  BY <1>1, <1>2, <1>3, <1>4, ThrottleKeeps, BlindKeeps DEF IInv, RunnerThrottled
<1>5. CASE Now.op # "view"
  BY <1>1, <1>2, <1>5, ThrottleKeeps, EndKeeps DEF IInv, RunnerThrottled
<1> QED BY <1>4, <1>5

LEMMA SendStep == ASSUME IInv, NEW a \in CanAnswer, RunnerSend(a)  PROVE IInv'
<1>1. /\ Send(Runner, a) /\ UNCHANGED run
      /\ cmd \in [Procs -> Commands] /\ Runner \in Procs
      /\ history \in [blind : BOOLEAN, troubles : Nat, crashes : Nat, waits : Nat]
  BY CmdTypes DEF IInv, IssueInv, Types, RunnerSend
<1>2. at = "cleared" /\ at' = "answered" /\ (ok' => a.kind = "ok")
  BY <1>1 DEF Send, at, ok
<1>3. /\ history' \in [blind : BOOLEAN, troubles : Nat, crashes : Nat, waits : Nat]
      /\ history'.blind = history.blind
  BY <1>1 DEF RunnerSend
<1>4. \/ a.kind \in {"ok", "failed"} /\ Change
      \/ a.kind # "ok" /\ UNCHANGED <<labels, comments>>
  BY DEF RunnerSend
<1>5. IssueInv'
  BY <1>1, <1>2, <1>3, <1>4, SendKeepsIssue DEF IInv
<1> QED BY <1>1, <1>5, SendKeeps DEF IInv

LEMMA RecordStep == ASSUME IInv, RunnerRecord  PROVE IInv'
<1>1. /\ Record(Runner) /\ UNCHANGED <<labels, comments>>
      /\ cmd \in [Procs -> Commands] /\ Runner \in Procs
      /\ run \in Runs /\ comments \in Seq(Stages \cup {"remark"})
      /\ history \in [blind : BOOLEAN, troubles : Nat, crashes : Nat, waits : Nat]
  BY CmdTypes DEF IInv, IssueInv, Types, RunnerRecord
<1>2. at = "answered" /\ at' = "idle"
  BY <1>1 DEF Record, at, Idle
<1>3. run.todo # <<>>
  BY <1>2 DEF IInv, IssueInv, Queued
<1>4. CASE Now.op = "view" /\ ~ok
  <2>1. Blind
    BY <1>4 DEF RunnerRecord, ok
  <2> QED BY <2>1, <1>1, <1>2, <1>3, <1>4, RecordKeeps, BlindKeeps DEF IInv
<1>5. CASE Now.op = "view" /\ ok /\ Seen(Now.what)
  <2>1. run' = [run EXCEPT !.todo = <<>>] /\ UNCHANGED history
    BY <1>5 DEF RunnerRecord, ok
  <2> QED BY <2>1, <1>1, <1>2, <1>3, <1>5, RecordKeeps, SeenKeeps DEF IInv
<1>6. CASE Now.op = "view" /\ ok /\ ~Seen(Now.what)
  <2>1. run' = [run EXCEPT !.todo = Tail(@)] /\ UNCHANGED history
    BY <1>6 DEF RunnerRecord, ok
  <2>2. Old(Now.what)
    <3>1. Len(comments) \in Nat
      BY <1>1
    <3> QED BY <3>1, <1>6 DEF Old, Seen
  <2> QED BY <2>1, <2>2, <1>1, <1>2, <1>3, <1>6, RecordKeeps, NextKeeps DEF IInv
<1>7. CASE Now.op # "view" /\ ok
  <2>1. run' = [run EXCEPT !.todo = Tail(@)] /\ UNCHANGED history
    BY <1>7 DEF RunnerRecord, ok
  <2>2. /\ Now.op = "add" => Now.what \subseteq labels
        /\ Now.op = "remove" => Now.what \cap labels = {}
    BY <1>2, <1>7 DEF IInv, IssueInv, Applied
  <2> QED BY <2>1, <2>2, <1>1, <1>2, <1>3, <1>7, RecordKeeps, NextKeeps DEF IInv
<1>8. CASE Now.op # "view" /\ ~ok
  <2>1. /\ UNCHANGED history
        /\ \/ LabelMissing /\ run' = [run EXCEPT !.todo = Tail(@), !.clean = FALSE]
           \/ End(FALSE, cmd[Runner].answer.kind = "refused")
    BY <1>8 DEF RunnerRecord, ok
  <2>2. CASE LabelMissing /\ run' = [run EXCEPT !.todo = Tail(@), !.clean = FALSE]
    <3>1. IssueInv'
      BY <2>1, <2>2, <1>1, <1>2, <1>3, MissingKeeps DEF IInv, LabelMissing
    <3> QED BY <3>1, <1>1, RecordKeeps DEF IInv
  <2>3. CASE End(FALSE, cmd[Runner].answer.kind = "refused")
    <3>1. (cmd[Runner].answer.kind = "refused") \in BOOLEAN
      OBVIOUS
    <3>2. IssueInv'
      BY <2>1, <2>3, <3>1, <1>1, <1>2, EndKeeps DEF IInv
    <3> QED BY <3>2, <1>1, RecordKeeps DEF IInv
  <2> QED BY <2>1, <2>2, <2>3
<1> QED BY <1>4, <1>5, <1>6, <1>7, <1>8

LEMMA ReturnStep == ASSUME IInv, Return  PROVE IInv'
<1>1. /\ run \in Runs /\ run.call # None /\ run.todo = <<>> /\ at = "idle"
      /\ UNCHANGED <<rateVars, labels, comments, history>>
  BY DEF IInv, IssueInv, Types, Return, at
<1>2. run' = [phase |-> After(TRUE), call |-> None, todo |-> <<>>,
              clean |-> IF run.call = "done" THEN TRUE ELSE run.clean]
  <2>1. run.clean \in BOOLEAN
    BY <1>1 DEF Runs
  <2> QED BY <2>1 DEF Return, End
<1>3. /\ run' \in Runs /\ run'.call = None /\ run'.todo = <<>> /\ run'.phase = After(TRUE)
      /\ run'.clean => run.clean \/ run.call = "done"
  <2>1. After(TRUE) \in Phases /\ run.clean \in BOOLEAN
    BY <1>1 DEF After, Phases, Runs
  <2> QED BY <2>1, <1>2, Nothing DEF Runs
<1>4. at' = "idle"
  BY <1>1 DEF at, rateVars
<1>5. IssueInv'
  BY <1>1, <1>3, <1>4, ReturnKeeps DEF IInv
<1>6. RateInv'
  BY <1>1 DEF IInv, RateInv, RateTypeOK, Asked, Quiets, Covered, InFlight, rateVars
<1> QED BY <1>5, <1>6 DEF IInv

LEMMA CrashStep == ASSUME IInv, Crash  PROVE IInv'
<1>1. /\ run \in Runs /\ UNCHANGED <<labels, comments>>
      /\ cmd \in [Procs -> Commands] /\ Runner \in Procs
      /\ history \in [blind : BOOLEAN, troubles : Nat, crashes : Nat, waits : Nat]
  BY CmdTypes DEF IInv, IssueInv, Types, Crash
<1>2. /\ history' \in [blind : BOOLEAN, troubles : Nat, crashes : Nat, waits : Nat]
      /\ history'.blind = history.blind
  BY <1>1 DEF Crash
<1>3. PICK ph \in Phases :
        run' = [phase |-> ph, call |-> None, todo |-> <<>>, clean |-> FALSE]
  BY <1>1 DEF Crash, Phases, Runs
<1>4. run' \in Runs
  BY <1>3 DEF Runs
<1>5. RateInv' /\ at' = "idle"
  <2>1. CASE at = "idle"
    <3>1. UNCHANGED rateVars
      BY <2>1 DEF Crash, at
    <3> QED
      BY <3>1, <2>1
      DEF IInv, RateInv, RateTypeOK, Asked, Quiets, Covered, InFlight, rateVars, at
  <2>2. CASE at # "idle"
    <3>1. Drop(Runner)
      BY <2>2 DEF Crash, at
    <3> QED BY <3>1, <1>1, DropKeeps DEF IInv, Drop, at, Idle
  <2> QED BY <2>1, <2>2
<1>6. IssueInv'
  BY <1>1, <1>2, <1>3, <1>4, <1>5, StopKeeps DEF IInv
<1> QED BY <1>5, <1>6 DEF IInv

LEMMA RemarkStep == ASSUME IInv, Remark  PROVE IInv'
<1>1. IssueInv'
  BY RemarkKeeps DEF IInv, Remark, rateVars
<1>2. RateInv'
  BY DEF IInv, RateInv, RateTypeOK, Asked, Quiets, Covered, InFlight, rateVars, Remark
<1> QED BY <1>1, <1>2 DEF IInv

\* The commands of the others leave the runner's alone.
LEMMA OthersStep == ASSUME IInv, Others \/ OthersRecord  PROVE IInv'
<1>1. /\ UNCHANGED <<labels, comments, run, history>>
      /\ cmd \in [Procs -> Commands] /\ Runner \in Procs
  BY CmdTypes DEF IInv, Others, OthersRecord
<1>2. PICK p \in Procs \ {Runner} :
        \/ \E b \in Shared : Look(p, b)
        \/ Clear(p) \/ Throttle(p)
        \/ \E a \in CanAnswer : Send(p, a)
        \/ Record(p)
  BY DEF Others, OthersRecord
<1>3. RateInv'
  BY <1>2, LookKeeps, ClearKeeps, ThrottleKeeps, SendKeeps, RecordKeeps DEF IInv
<1>4. cmd'[Runner] = cmd[Runner]
  <2>1. CASE \E b \in Shared : Look(p, b)
    BY <2>1, <1>1, <1>2 DEF Look
  <2>2. CASE Clear(p)
    BY <2>2, <1>1, <1>2 DEF Clear
  <2>3. CASE Throttle(p)
    BY <2>3, <1>1, <1>2 DEF Throttle
  <2>4. CASE \E a \in CanAnswer : Send(p, a)
    BY <2>4, <1>1, <1>2 DEF Send
  <2>5. CASE Record(p)
    BY <2>5, <1>1, <1>2 DEF Record
  <2> QED BY <1>2, <2>1, <2>2, <2>3, <2>4, <2>5
<1>5. at' = at /\ ok' = ok
  BY <1>4 DEF at, ok
<1> QED BY <1>1, <1>3, <1>5, AsideKeeps DEF IInv

LEMMA PassStep == ASSUME IInv, Pass  PROVE IInv'
<1>1. UNCHANGED <<labels, comments, run, history>> /\ at' = at /\ ok' = ok
  BY DEF Pass, Wait, at, ok
<1> QED BY <1>1, WaitKeeps, AsideKeeps DEF IInv, Pass

LEMMA StutterStep == ASSUME IInv, UNCHANGED vars  PROVE IInv'
<1>1. UNCHANGED <<labels, comments, run, history>> /\ at' = at /\ ok' = ok
  BY DEF vars, rateVars, at, ok
<1>2. RateInv'
  BY DEF IInv, RateInv, RateTypeOK, Asked, Quiets, Covered, InFlight, rateVars, vars
<1> QED BY <1>1, <1>2, AsideKeeps DEF IInv

LEMMA InitHolds == ASSUME Init  PROVE IInv
<1>1. RateInv
  <2>1. RateTypeOK
    <3>1. cmd \in [Procs -> Commands]
      BY IdleTypes DEF Init, RateInit, Commands
    <3>2. 0 \in Times /\ 0 \in 0..MaxTold /\ 0 \in 0..MaxClock
      BY DEF Times
    <3> QED BY <3>1, <3>2 DEF Init, RateInit, RateTypeOK, Commands
  <2>2. Asked
    BY IdleTypes DEF Init, RateInit, Asked
  <2>3. Quiets
    BY DEF Init, RateInit, Quiets, Covered
  <2> QED BY <2>1, <2>2, <2>3 DEF RateInv
<1>2. at = "idle"
  BY IdleTypes DEF Init, RateInit, at
<1>3. Types
  BY DEF Init, Types, Runs, Phases
<1>4. Queued /\ InCall /\ Applied /\ Apart /\ Due /\ Checked
  BY <1>2, Nothing DEF Init, Queued, InCall, Applied, Apart, Due, Checked
<1>5. CommentedOnce
  BY DEF Init, CommentedOnce
<1>6. LabelsTell
  BY DEF Init, LabelsTell, Shown
<1> QED BY <1>1, <1>3, <1>4, <1>5, <1>6 DEF IInv, IssueInv

LEMMA NextStep == ASSUME IInv, [Next]_vars  PROVE IInv'
BY CallKeeps, ResumeKeeps, LookStep, ClearStep, ThrottledStep, SendStep, RecordStep,
   ReturnStep, CrashStep, RemarkStep, OthersStep, PassStep, StutterStep DEF Next, Work

(***************************************************************************)
(* The theorems.                                                           *)
(***************************************************************************)
\* The inductive invariant of an issue and of the budgets of its commands.
THEOREM Invariant == Spec => []IInv
<1>1. Init => IInv
  BY InitHolds
<1>2. IInv /\ [Next]_vars => IInv'
  BY NextStep
<1> QED BY <1>1, <1>2, PTL DEF Spec

\* The state of the issue and of the budgets stays in its types, whatever fails.
THEOREM TypeCorrect == Spec => []TypeOK
<1>1. IInv => TypeOK
  BY DEF IInv, RateInv, IssueInv, Types, Runs, TypeOK, Stages
<1> QED BY <1>1, Invariant, PTL

\* Behind a refusal no command is started before the reset that was told, or the
\* default wait, by any number of processes in any number of buckets.
THEOREM RefusalIsKept == Spec => []RefusalHolds
<1>1. IInv => RefusalHolds
  BY DEF IInv, RateInv, Quiets, Covered, InFlight, RefusalHolds
<1> QED BY <1>1, Invariant, PTL

\* A stage of a run is commented once among as many comments as a lookup returns,
\* for any number of crashes, refusals and remarks of others.
THEOREM OneCommentEach == Spec => []CommentedOnce
<1>1. IInv => CommentedOnce
  BY DEF IInv, IssueInv
<1> QED BY <1>1, Invariant, PTL

\* Between two calls the labels of an issue say what its run does, for every set
\* of configured labels and with one command for each or for all of them.
THEOREM LabelsAreTrue == Spec => []LabelsTell
<1>1. IInv => LabelsTell
  BY DEF IInv, IssueInv
<1> QED BY <1>1, Invariant, PTL

=================================================================================
