--------------------------------- MODULE Locks ---------------------------------
(***************************************************************************)
(* FileLock: flock on a file that also holds the metadata of its owner,    *)
(* which a heartbeat thread rewrites, and the scan that calls an owner     *)
(* stale.  A member of Locks is one FileLock object, used once, each in a  *)
(* process of its own; all of them are on one file.                        *)
(*                                                                         *)
(* Time is a counter.  A heartbeat thread that runs is never later than    *)
(* Slack beyond its interval; the one second __exit__ waits for it may     *)
(* nevertheless be too short (it may be in fsync), which "outlived" notes. *)
(***************************************************************************)
EXTENDS Integers, FiniteSets

CONSTANTS Locks, None,
          Interval, Slack,     \* heartbeat_interval_seconds, and how late it may be
          Timeout,             \* timeout_seconds
          StaleAge,            \* max_heartbeat_age_seconds of the scan
          MaxClock, MaxCrashes

ASSUME TimesAssumption ==
  /\ {Interval, Slack, Timeout, StaleAge, MaxClock, MaxCrashes} \subseteq Nat
  /\ Interval + 2 * Slack <= StaleAge
  /\ None \notin Locks

VARIABLES holder,    \* who has the flock
          file,      \* what the lock file says
          lock,      \* lock[l]: where the owner is, and since when it waits
          beat,      \* beat[l]: where its heartbeat thread is, and what it read
          outlived,  \* locks whose heartbeat thread survived the join of __exit__
          scan,      \* the scan: what it read, what it reports
          clock
vars == <<holder, file, lock, beat, outlived, scan, clock>>

Empty   == [owner |-> None, at |-> 0]
Garbage == [owner |-> None, at |-> -1]        \* a write cut short: not JSON
Owned(l) == [owner |-> l, at |-> clock]

Metadata == [owner: Locks, at: 0..MaxClock] \cup {Empty, Garbage}

TypeOK ==
  /\ holder \in Locks \cup {None}
  /\ file \in Metadata
  /\ lock \in [Locks -> [pc: {"idle", "waiting", "locked", "held", "stopping",
                              "joined", "cleared", "unlocked", "closed", "dead"},
                         since: 0..MaxClock]]
  /\ beat \in [Locks -> [pc: {"off", "waiting", "reading", "beating", "failed"},
                         copy: Metadata, at: 0..MaxClock]]
  /\ outlived \subseteq Locks
  /\ scan \in [pc: {"idle", "read", "done"}, seen: Metadata,
               reason: {"none", "invalid_metadata", "owner_not_running",
                        "heartbeat_stale"},
               of: Locks \cup {None}]
  /\ clock \in 0..MaxClock

NoScan == [pc |-> "idle", seen |-> Empty, reason |-> "none", of |-> None]

Init ==
  /\ holder = None /\ file = Empty
  /\ lock = [l \in Locks |-> [pc |-> "idle", since |-> 0]]
  /\ beat = [l \in Locks |-> [pc |-> "off", copy |-> Empty, at |-> 0]]
  /\ outlived = {} /\ scan = NoScan /\ clock = 0

Open(l)  == lock[l].pc \in {"held", "stopping", "joined", "cleared", "unlocked"}
Alive(l) == lock[l].pc \notin {"idle", "closed", "dead"}
Beats(l) == beat[l].pc \in {"waiting", "reading", "beating"}

Step(l, pc) == lock' = [lock EXCEPT ![l] = [pc |-> pc, since |-> 0]]
Quiet(pc) == [pc |-> pc, copy |-> Empty, at |-> 0]

(***************************************************************************)
(* __enter__                                                               *)
(***************************************************************************)
\* (Only while the clock can still reach the deadline.)
Enter(l) == /\ lock[l].pc = "idle" /\ clock + Timeout <= MaxClock
            /\ lock' = [lock EXCEPT ![l] = [pc |-> "waiting", since |-> clock]]
            /\ UNCHANGED <<holder, file, beat, outlived, scan, clock>>

Acquire(l) == /\ lock[l].pc = "waiting" /\ holder = None
              /\ holder' = l /\ Step(l, "locked")
              /\ UNCHANGED <<file, beat, outlived, scan, clock>>

\* Faulty variant: a blocking flock, the deadline looked at when it returns.
GiveUpLate(l) == /\ lock[l].pc = "waiting" /\ holder = None
                 /\ clock - lock[l].since >= Timeout
                 /\ Step(l, "closed")
                 /\ UNCHANGED <<holder, file, beat, outlived, scan, clock>>

GiveUp(l) == /\ lock[l].pc = "waiting" /\ holder # None
             /\ clock - lock[l].since >= Timeout
             /\ Step(l, "closed")
             /\ UNCHANGED <<holder, file, beat, outlived, scan, clock>>

\* _write_metadata and _start_auto_heartbeat.
Announce(l) == /\ lock[l].pc = "locked"
               /\ file' = Owned(l) /\ Step(l, "held")
               /\ beat' = [beat EXCEPT ![l].pc = "waiting", ![l].at = clock]
               /\ UNCHANGED <<holder, outlived, scan, clock>>

\* The disk is full: __enter__ raises, and the flock goes with the file object.
AnnounceFails(l) == /\ lock[l].pc = "locked"
                    /\ file' \in {file, Empty, Garbage} /\ Step(l, "closed")
                    /\ holder' = None
                    /\ beat' = [beat EXCEPT ![l] = Quiet("failed")]
                    /\ UNCHANGED <<outlived, scan, clock>>

(***************************************************************************)
(* _heartbeat_loop: read the metadata, change the time, write it back; the *)
(* two halves take _metadata_lock each for itself.                         *)
(***************************************************************************)
Wake(l) == /\ beat[l].pc = "waiting" /\ lock[l].pc = "held"
           /\ clock - beat[l].at >= Interval
           /\ beat' = [beat EXCEPT ![l].pc = "reading"]
           /\ UNCHANGED <<holder, file, lock, outlived, scan, clock>>

\* Faulty variant: the time of the heartbeat is not brought up to date.
ReadOwnOld(l) ==
  /\ beat[l].pc = "reading"
  /\ beat' = [beat EXCEPT ![l].pc = "beating",
                          ![l].copy = IF file = Empty THEN Owned(l) ELSE file]
  /\ UNCHANGED <<holder, file, lock, outlived, scan, clock>>

ReadOwn(l) ==
  /\ beat[l].pc = "reading"
  /\ beat' = [beat EXCEPT ![l].pc = "beating",
                          ![l].copy = IF file = Empty THEN Owned(l)
                                      ELSE IF file = Garbage THEN file
                                      ELSE [file EXCEPT !.at = clock]]
  /\ UNCHANGED <<holder, file, lock, outlived, scan, clock>>

\* The file is open until __exit__ closes it; afterwards the thread ends.
WriteOwn(l) ==
  /\ beat[l].pc = "beating"
  /\ file' = IF Open(l) THEN beat[l].copy ELSE file
  /\ beat' = [beat EXCEPT ![l] = IF lock[l].pc = "held"
                                 THEN [pc |-> "waiting", copy |-> Empty, at |-> clock]
                                 ELSE Quiet("off")]
  /\ UNCHANGED <<holder, lock, outlived, scan, clock>>

\* The write fails, at any point of it: the loop returns and nothing beats any more.
BeatFails(l) ==
  /\ beat[l].pc = "beating" /\ Open(l)
  /\ file' \in {file, Empty, Garbage}
  /\ beat' = [beat EXCEPT ![l] = Quiet("failed")]
  /\ UNCHANGED <<holder, lock, outlived, scan, clock>>

StopBeating(l) ==
  /\ beat[l].pc = "waiting" /\ lock[l].pc # "held"
  /\ beat' = [beat EXCEPT ![l] = Quiet("off")]
  /\ UNCHANGED <<holder, file, lock, outlived, scan, clock>>

(***************************************************************************)
(* __exit__: stop the thread, clear the file, unlock, close.               *)
(***************************************************************************)
Stop(l) == /\ lock[l].pc = "held" /\ Step(l, "stopping")
           /\ UNCHANGED <<holder, file, beat, outlived, scan, clock>>

\* Faulty variant: the flock is given up before the file is cleared.
JoinUnlock(l) == /\ lock[l].pc = "stopping" /\ Step(l, "joined")
                 /\ holder' = None
                 /\ UNCHANGED <<file, beat, outlived, scan, clock>>

Join(l) == /\ lock[l].pc = "stopping" /\ Step(l, "joined")
           /\ outlived' = IF Beats(l) THEN outlived \cup {l} ELSE outlived
           /\ UNCHANGED <<holder, file, beat, scan, clock>>

\* Faulty variant: the file is not cleared.
ClearNot(l) == /\ lock[l].pc = "joined" /\ Step(l, "cleared")
               /\ UNCHANGED <<holder, file, beat, outlived, scan, clock>>

Clear(l) == /\ lock[l].pc = "joined" /\ Step(l, "cleared")
            /\ file' = Empty
            /\ UNCHANGED <<holder, beat, outlived, scan, clock>>

Unlock(l) == /\ lock[l].pc = "cleared" /\ Step(l, "unlocked")
             /\ holder' = None
             /\ UNCHANGED <<file, beat, outlived, scan, clock>>

Close(l) == /\ lock[l].pc = "unlocked" /\ Step(l, "closed")
            /\ UNCHANGED <<holder, file, beat, outlived, scan, clock>>

\* The process is killed: the kernel releases the flock, the file stays.
Crash(l) == /\ Alive(l)
            /\ Cardinality({k \in Locks : lock[k].pc = "dead"}) < MaxCrashes
            /\ Step(l, "dead")
            /\ holder' = IF holder = l THEN None ELSE holder
            /\ beat' = [beat EXCEPT ![l] = IF @.pc = "failed" THEN @ ELSE Quiet("off")]
            /\ UNCHANGED <<file, outlived, scan, clock>>

(***************************************************************************)
(* stale_owner: read the file, then look at the process and the clock; at  *)
(* most once in a unit of time.                                            *)
(***************************************************************************)
ScanRead == /\ scan.pc = "idle" /\ file # Empty
            /\ scan' = [NoScan EXCEPT !.pc = "read", !.seen = file]
            /\ UNCHANGED <<holder, file, lock, beat, outlived, clock>>

Judged(m) == IF m = Garbage THEN "invalid_metadata"
             ELSE IF ~Alive(m.owner) THEN "owner_not_running"
             ELSE IF clock - m.at > StaleAge THEN "heartbeat_stale"
             ELSE "none"

ScanJudge == /\ scan.pc = "read"
             /\ scan' = [pc |-> "done", seen |-> Empty, of |-> scan.seen.owner,
                         reason |-> Judged(scan.seen)]
             /\ UNCHANGED <<holder, file, lock, beat, outlived, clock>>

Tick == /\ clock < MaxClock
        /\ \A l \in Locks : lock[l].pc = "held" /\ Beats(l)
                            => clock - beat[l].at < Interval + Slack
        /\ scan.pc # "read"
        /\ clock' = clock + 1
        /\ scan' = NoScan
        /\ UNCHANGED <<holder, file, lock, beat, outlived>>

EnterStep(l) == Acquire(l) \/ GiveUp(l)
ExitStep(l)  == Stop(l) \/ Join(l) \/ Clear(l) \/ Unlock(l) \/ Close(l)
BeatStep(l)  == Wake(l) \/ ReadOwn(l) \/ WriteOwn(l) \/ StopBeating(l)

Next == \/ \E l \in Locks : \/ Enter(l) \/ EnterStep(l) \/ Announce(l) \/ AnnounceFails(l)
                            \/ BeatStep(l) \/ BeatFails(l)
                            \/ ExitStep(l) \/ Crash(l)
        \/ ScanRead \/ ScanJudge \/ Tick

\* A process that polls goes on polling, a thread goes on, and time passes;
\* nothing says that a holder ever releases the lock.
Fairness == /\ \A l \in Locks : WF_vars(EnterStep(l)) /\ WF_vars(BeatStep(l))
            /\ WF_vars(Tick) /\ WF_vars(ScanJudge)

Spec == Init /\ [][Next]_vars /\ Fairness

(***************************************************************************)
(* Properties                                                              *)
(***************************************************************************)
\* The file names the process that has the lock, from its first write until
\* __exit__ clears it, whoever held the lock before and however that ended,
\* unless a heartbeat thread outlived its lock or could not write.
OwnerShown ==
  outlived = {} =>
    \A l \in Locks : /\ lock[l].pc \in {"held", "stopping", "joined"}
                     /\ beat[l].pc # "failed"
                     => file.owner = l

\* Nobody finds the metadata of a released lock: what a free lock file shows
\* is a process that died, or one whose heartbeat thread went wrong.
NoGhost ==
  holder = None /\ file # Empty =>
    \/ \E l \in Locks : l \in outlived \/ beat[l].pc = "failed"
    \/ lock[file.owner].pc = "dead"

\* The scan does not call a process stale for its heartbeat while that process
\* holds the lock and its heartbeat thread is running.
LiveNotStale ==
  scan.reason = "heartbeat_stale" /\ outlived = {} =>
    ~(lock[scan.of].pc = "held" /\ Beats(scan.of))

\* Every attempt to take the lock ends, with the lock or with a TimeoutError,
\* whether the holder releases it, is killed or keeps it for ever.
EnterReturns ==
  \A l \in Locks : lock[l].pc = "waiting" ~> lock[l].pc # "waiting"
===============================================================================
