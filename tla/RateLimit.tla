-------------------------------- MODULE RateLimit --------------------------------
(***************************************************************************)
(* A command of the platform's CLI behind the budget of its bucket: the    *)
(* rows of rate_limits in .gg/rate-limits.sqlite3, which all processes of  *)
(* a project share, and GitPlatform._run_command, which reads them before  *)
(* it starts the command and writes them from its answer.                  *)
(*                                                                         *)
(* Every statement on the database is one step: none of the three steps of *)
(* a command keeps the others out.  Time is a counter.                     *)
(***************************************************************************)
EXTENDS Integers, FiniteSets

CONSTANTS Procs, Buckets, None,
          Window,      \* how far ahead the reset is that the answers name
          Default,     \* the 60 seconds of _backoff, when they name none
          MaxTold,     \* bound: answers that change a row
          MaxClock

ASSUME RateAssumption == /\ {Window, Default, MaxTold, MaxClock} \subseteq Nat \ {0}
                         /\ None \notin Buckets \cup Nat \cup [remaining : Nat, reset : Nat]

VARIABLES rows,     \* rate_limits: bucket -> row
          cmd,      \* the command of each process
          quiet,    \* history: of the last refusal in a bucket that told no budget
          told,     \* how much of MaxTold is used
          clock
rateVars == <<rows, cmd, quiet, told, clock>>

Times == 0..(MaxClock + Window + Default)
Row == [remaining : 0..1, reset : Times]

\* What the headers of an answer can say, as far as the code tells it apart.
Headers == [remaining : {None, 0, 1}, reset : {None} \cup Times]

Answers == [kind : {"ok", "failed", "refused", "none"}, headers : Headers]
NoHeaders == [remaining |-> None, reset |-> None]
NoAnswer == [kind |-> "none", headers |-> NoHeaders]

Idle == [at |-> "idle", bucket |-> None, answer |-> NoAnswer]

RateTypeOK ==
  /\ rows \in [Buckets -> Row \cup {None}]
  /\ cmd \in [Procs -> [at : {"idle", "looked", "cleared", "answered"},
                        bucket : Buckets \cup {None}, answer : Answers]]
  /\ quiet \in [Buckets -> [until : Times, early : SUBSET Procs, broken : BOOLEAN]]
  /\ told \in 0..MaxTold /\ clock \in 0..MaxClock

RateInit == /\ rows = [b \in Buckets |-> None]
            /\ cmd = [p \in Procs |-> Idle]
            /\ quiet = [b \in Buckets |-> [until |-> 0, early |-> {}, broken |-> FALSE]]
            /\ told = 0 /\ clock = 0

\* Faulty variant: a used up budget is never given back.
ExhaustedForever(row) == row # None /\ row.remaining = 0

\* should_throttle.
Exhausted(row) == row # None /\ row.remaining = 0 /\ row.reset > clock

(***************************************************************************)
(* The first half of _raise_if_throttled: get.                             *)
(***************************************************************************)
Look(p, b) ==
  /\ cmd[p].at = "idle"
  /\ cmd' = [cmd EXCEPT ![p] = [Idle EXCEPT !.bucket = b,
               !.at = IF rows[b] = None THEN "cleared" ELSE "looked"]]
  /\ UNCHANGED <<rows, quiet, told, clock>>

\* should_throttle reads the row again.
Clear(p) == /\ cmd[p].at = "looked" /\ ~Exhausted(rows[cmd[p].bucket])
            /\ cmd' = [cmd EXCEPT ![p].at = "cleared"]
            /\ UNCHANGED <<rows, quiet, told, clock>>

\* RateLimitThrottleError: the command is not started.
Throttle(p) == /\ cmd[p].at = "looked" /\ Exhausted(rows[cmd[p].bucket])
               /\ cmd' = [cmd EXCEPT ![p] = Idle]
               /\ UNCHANGED <<rows, quiet, told, clock>>

(***************************************************************************)
(* What the tool can answer.  A refusal tells when the budget comes back,  *)
(* with or without what is left of it (a secondary limit refuses while the *)
(* headers still have a budget), or tells nothing; "failed" is any other   *)
(* exit code and the TimeoutExpired of subprocess.run, which tell nothing  *)
(* either.                                                                 *)
(***************************************************************************)
Soon == clock + Window
CanAnswer ==
  {[kind |-> "ok", headers |-> h] :
      h \in {NoHeaders, [remaining |-> 1, reset |-> Soon], [remaining |-> 0, reset |-> Soon]}}
  \cup {[kind |-> k, headers |-> NoHeaders] : k \in {"failed", "refused"}}
  \cup {[kind |-> "refused", headers |-> [remaining |-> n, reset |-> Soon]] : n \in {None, 1}}

Tells(a) == a.kind = "refused" \/ a.headers.reset # None

Send(p, a) == /\ cmd[p].at = "cleared" /\ a \in CanAnswer
              /\ Tells(a) => told < MaxTold /\ {Soon, clock + Default} \subseteq 0..MaxClock
              /\ told' = IF Tells(a) THEN told + 1 ELSE told
              /\ cmd' = [cmd EXCEPT ![p].at = "answered", ![p].answer = a]
              /\ UNCHANGED <<rows, quiet, clock>>

\* record_http_headers: nothing is written without a reset, and a reset without
\* a budget is a budget of nothing.
HeaderRow(h) ==
  IF h.reset = None THEN None
  ELSE [remaining |-> IF h.remaining = None THEN 0 ELSE h.remaining, reset |-> h.reset]

\* Faulty variant: only an answer with headers is recorded.
RecordedHeaders(a, old) ==
  IF HeaderRow(a.headers) # None THEN HeaderRow(a.headers) ELSE old

\* ... and _backoff, for a refusal that told no reset: one that told a budget as well
\* is recorded as that budget, and backs nobody off.
Recorded(a, old) ==
  IF HeaderRow(a.headers) # None THEN HeaderRow(a.headers)
  ELSE IF a.kind = "refused" THEN [remaining |-> 0, reset |-> clock + Default]
  ELSE old

\* The rest of _run_command.
Exhausts(a) == a.kind = "refused" /\ a.headers.remaining \in {None, 0}

InFlight(b) == {q \in Procs : cmd[q].bucket = b /\ cmd[q].at \in {"cleared", "answered"}}

Record(p) ==
  LET b == cmd[p].bucket  a == cmd[p].answer  row == Recorded(a, rows[b]) IN
  /\ cmd[p].at = "answered"
  /\ rows' = [rows EXCEPT ![b] = row]
  /\ quiet' = [quiet EXCEPT ![b] =
        IF Exhausts(a)
          THEN [until |-> IF a.headers.reset = None THEN clock + Default ELSE a.headers.reset,
                early |-> InFlight(b) \ {p}, broken |-> FALSE]
          ELSE [quiet[b] EXCEPT !.early = @ \ {p}, !.broken = @ \/ p \in quiet[b].early]]
  /\ cmd' = [cmd EXCEPT ![p] = Idle]
  /\ UNCHANGED <<told, clock>>

\* The process dies with its command; what the tool did is done.
Drop(p) == /\ cmd[p].at # "idle"
           /\ cmd' = [cmd EXCEPT ![p] = Idle]
           /\ quiet' = [b \in Buckets |-> [quiet[b] EXCEPT !.early = @ \ {p}]]
           /\ UNCHANGED <<rows, told, clock>>

\* Time passes while somebody can tell: a reset lies ahead, or an answer with one
\* is on its way; a refusal without one is written within the second.
Wait == /\ clock < MaxClock /\ clock' = clock + 1
        /\ \/ \E b \in Buckets : rows[b] # None /\ rows[b].reset > clock
           \/ \E p \in Procs : cmd[p].answer.headers # NoHeaders
        /\ \A p \in Procs : cmd[p].answer # [kind |-> "refused", headers |-> NoHeaders]
        /\ UNCHANGED <<rows, cmd, quiet, told>>

(***************************************************************************)
(* Properties                                                              *)
(***************************************************************************)
\* A command that is refused, and not told that a budget is left, keeps every process
\* of the project from starting another one in the bucket until the reset it was told,
\* or for the default wait; except those that had looked before the refusal was
\* written, and until the answer of one of those is written over it.
RefusalHolds ==
  \A p \in Procs, b \in Buckets :
     cmd[p].at = "cleared" /\ cmd[p].bucket = b /\ clock < quiet[b].until
     => p \in quiet[b].early \/ quiet[b].broken

\* No bucket stays throttled for ever.
ThrottleEnds ==
  \A b \in Buckets : Exhausted(rows[b]) ~> ~Exhausted(rows[b])
================================================================================
