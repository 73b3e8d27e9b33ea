----------------------------- MODULE Locks_proofs -----------------------------
(***************************************************************************)
(* Who the lock file names, what a free lock file shows and what a scan    *)
(* may call stale, for every number of processes, every interval and every *)
(* number of crashes.                                                      *)
(***************************************************************************)
EXTENDS Locks, TLAPS

\* Where a process is that has the flock, that has shown it, and that has not yet
\* got it.
Holding == {"locked", "held", "stopping", "joined", "cleared"}
Showing == {"held", "stopping", "joined"}
Early   == {"idle", "waiting", "locked"}

\* The flock is with the process that is past the acquisition and before the unlock.
FlockHeld == \A l \in Locks : lock[l].pc \in Holding <=> holder = l

\* A heartbeat thread runs while its lock is shown, unless it outlived it.
BeatsInside ==
  \A l \in Locks : Beats(l) => lock[l].pc \in {"held", "stopping"} \/ l \in outlived

\* Nothing names a process that has not written the file yet.
Unnamed ==
  \A l \in Locks : lock[l].pc \in Early =>
    /\ beat[l].pc = "off"
    /\ file.owner # l /\ scan.seen.owner # l /\ scan.of # l
    /\ \A k \in Locks : beat[k].copy.owner # l

\* What a heartbeat thread is about to write names its own process.
CopyOwn ==
  outlived = {} => \A l \in Locks : beat[l].pc = "beating" => beat[l].copy.owner = l

\* Every thread still runs as it should, or has ended as it should.
Healthy == outlived = {} /\ \A l \in Locks : beat[l].pc # "failed"

\* Then the file is empty, or names a process that shows its lock or died.
FileExplained ==
  Healthy => \/ file = Empty
             \/ /\ file.owner \in Locks
                /\ lock[file.owner].pc \in Showing \cup {"dead"}

\* The times of a thread whose lock is held.
Paced(l) == lock[l].pc = "held" /\ Beats(l)
BeatTimes ==
  \A l \in Locks : Paced(l) =>
    /\ beat[l].at <= clock /\ clock - beat[l].at <= Interval + Slack
    /\ beat[l].pc \in {"reading", "beating"} => beat[l].at + Interval <= clock
    /\ outlived = {} => /\ beat[l].at - Slack <= file.at
                        /\ beat[l].pc = "beating" =>
                             beat[l].at + Interval <= beat[l].copy.at

\* What a scan has read of such a thread is not too old, and is judged so.
SeenFresh ==
  outlived = {} =>
    \A l \in Locks : Paced(l) =>
      /\ scan.pc = "read" /\ scan.seen.owner = l => clock - scan.seen.at <= StaleAge
      /\ scan.of = l => scan.reason # "heartbeat_stale"

\* A scan judges what it found, and calls nobody stale but the owner it found.
ScanOwner == /\ scan.pc = "read" => scan.seen # Empty
             /\ scan.reason = "heartbeat_stale" => scan.of \in Locks

IInv == /\ TypeOK /\ FlockHeld /\ BeatsInside /\ Unnamed /\ CopyOwn /\ OwnerShown
        /\ FileExplained /\ BeatTimes /\ ScanOwner /\ SeenFresh

\* The clock and the times of the code are numbers.
LEMMA Times == /\ Interval \in Nat /\ Slack \in Nat /\ Timeout \in Nat /\ StaleAge \in Nat
               /\ MaxClock \in Nat /\ Interval + 2 * Slack <= StaleAge /\ None \notin Locks
BY TimesAssumption

\* What is written to the file is the metadata of a lock, or is cut short.
LEMMA MetadataOf ==
  ASSUME clock \in 0..MaxClock
  PROVE  /\ Empty \in Metadata /\ Garbage \in Metadata
         /\ \A l \in Locks : Owned(l) \in Metadata
         /\ \A m \in Metadata \ {Empty, Garbage} : [m EXCEPT !.at = clock] \in Metadata
BY DEF Metadata, Owned

\* A thread's state, of which a step changes two fields.
BeatRec == [pc: {"off", "waiting", "reading", "beating", "failed"},
            copy: Metadata, at: 0..MaxClock]
LEMMA BeatChanged ==
  ASSUME NEW f \in [Locks -> BeatRec], NEW l \in Locks
  PROVE  /\ \A m \in Metadata :
              [f EXCEPT ![l].pc = "beating", ![l].copy = m] \in [Locks -> BeatRec]
         /\ \A t \in 0..MaxClock :
              [f EXCEPT ![l].pc = "waiting", ![l].at = t] \in [Locks -> BeatRec]
BY DEF BeatRec

\* Every step keeps the types.
LEMMA TypeStep ==
  ASSUME TypeOK, [Next]_vars
  PROVE  TypeOK'
<1>1. ASSUME NEW l \in Locks, Enter(l) PROVE TypeOK'
  BY <1>1 DEF Enter, TypeOK
<1>2. ASSUME NEW l \in Locks, Acquire(l) PROVE TypeOK'
  BY <1>2, Times DEF Acquire, TypeOK, Step
<1>3. ASSUME NEW l \in Locks, GiveUp(l) PROVE TypeOK'
  BY <1>3, Times DEF GiveUp, TypeOK, Step
<1>4. ASSUME NEW l \in Locks, Announce(l) PROVE TypeOK'
  <2>1. file' \in Metadata
    BY <1>4, MetadataOf DEF Announce, TypeOK
  <2>2. beat' \in [Locks -> BeatRec]
    <3>1. beat \in [Locks -> BeatRec]
      BY DEF TypeOK, BeatRec
    <3>2. QED BY <1>4, <3>1, BeatChanged DEF Announce, TypeOK
  <2>3. lock' \in [Locks -> [pc: {"idle", "waiting", "locked", "held", "stopping",
                                "joined", "cleared", "unlocked", "closed", "dead"},
                           since: 0..MaxClock]]
    BY <1>4, Times DEF Announce, TypeOK, Step
  <2>4. QED BY <1>4, <2>1, <2>2, <2>3 DEF Announce, TypeOK, BeatRec
<1>5. ASSUME NEW l \in Locks, AnnounceFails(l) PROVE TypeOK'
  BY <1>5, Times DEF AnnounceFails, TypeOK, Metadata, Step, Quiet
<1>6. ASSUME NEW l \in Locks, Wake(l) PROVE TypeOK'
  BY <1>6 DEF Wake, TypeOK
<1>7. ASSUME NEW l \in Locks, ReadOwn(l) PROVE TypeOK'
  <2>1. PICK m \in Metadata :
               beat' = [beat EXCEPT ![l].pc = "beating", ![l].copy = m]
    BY <1>7, MetadataOf DEF ReadOwn, TypeOK
  <2>2. beat \in [Locks -> BeatRec]
    BY DEF TypeOK, BeatRec
  <2>3. beat' \in [Locks -> BeatRec]
    BY <2>1, <2>2, BeatChanged
  <2>4. QED BY <1>7, <2>1, <2>3 DEF ReadOwn, TypeOK, BeatRec
<1>8. ASSUME NEW l \in Locks, WriteOwn(l) PROVE TypeOK'
  BY <1>8, Times DEF WriteOwn, TypeOK, Metadata, Quiet
<1>9. ASSUME NEW l \in Locks, BeatFails(l) PROVE TypeOK'
  BY <1>9, Times DEF BeatFails, TypeOK, Metadata, Quiet
<1>10. ASSUME NEW l \in Locks, StopBeating(l) PROVE TypeOK'
  BY <1>10, Times DEF StopBeating, TypeOK, Metadata, Quiet
<1>11. ASSUME NEW l \in Locks, Stop(l) PROVE TypeOK'
  BY <1>11, Times DEF Stop, TypeOK, Step
<1>12. ASSUME NEW l \in Locks, Join(l) PROVE TypeOK'
  BY <1>12, Times DEF Join, TypeOK, Step
<1>13. ASSUME NEW l \in Locks, Clear(l) PROVE TypeOK'
  BY <1>13, Times DEF Clear, TypeOK, Metadata, Step
<1>14. ASSUME NEW l \in Locks, Unlock(l) PROVE TypeOK'
  BY <1>14, Times DEF Unlock, TypeOK, Step
<1>15. ASSUME NEW l \in Locks, Close(l) PROVE TypeOK'
  BY <1>15, Times DEF Close, TypeOK, Step
<1>16. ASSUME NEW l \in Locks, Crash(l) PROVE TypeOK'
  BY <1>16, Times DEF Crash, TypeOK, Metadata, Step, Quiet
<1>17. CASE ScanRead
  BY <1>17, Times
  DEF ScanRead, TypeOK, Metadata, Step, Quiet, Empty, Garbage, Owned, NoScan
<1>18. CASE ScanJudge
  BY <1>18 DEF ScanJudge, TypeOK, Metadata, Empty, Garbage, Judged
<1>19. CASE Tick
  BY <1>19, Times DEF Tick, TypeOK, Metadata, NoScan
<1>20. CASE UNCHANGED vars
  BY <1>20 DEF vars, TypeOK
<1>21. QED
  BY <1>1, <1>2, <1>3, <1>4, <1>5, <1>6, <1>7, <1>8, <1>9, <1>10, <1>11, <1>12, <1>13,
     <1>14, <1>15, <1>16, <1>17, <1>18, <1>19, <1>20
  DEF Next, EnterStep, ExitStep, BeatStep

\* The flock has one holder, the process that took it and has not given it back.
LEMMA FlockStep ==
  ASSUME TypeOK, FlockHeld, [Next]_vars
  PROVE  FlockHeld'
<1>1. ASSUME NEW l \in Locks, Enter(l) PROVE FlockHeld'
  BY <1>1 DEF Enter, FlockHeld, Holding
<1>2. ASSUME NEW l \in Locks, Acquire(l) PROVE FlockHeld'
  BY <1>2, Times DEF Acquire, TypeOK, FlockHeld, Holding, Step
<1>3. ASSUME NEW l \in Locks, GiveUp(l) PROVE FlockHeld'
  BY <1>3 DEF GiveUp, FlockHeld, Holding, Step
<1>4. ASSUME NEW l \in Locks, Announce(l) PROVE FlockHeld'
  BY <1>4 DEF Announce, FlockHeld, Holding, Step
<1>5. ASSUME NEW l \in Locks, AnnounceFails(l) PROVE FlockHeld'
  BY <1>5, Times DEF AnnounceFails, TypeOK, FlockHeld, Holding, Step
<1>6. ASSUME NEW l \in Locks, Wake(l) PROVE FlockHeld'
  BY <1>6 DEF Wake, FlockHeld
<1>7. ASSUME NEW l \in Locks, ReadOwn(l) PROVE FlockHeld'
  BY <1>7 DEF ReadOwn, FlockHeld
<1>8. ASSUME NEW l \in Locks, WriteOwn(l) PROVE FlockHeld'
  BY <1>8 DEF WriteOwn, FlockHeld
<1>9. ASSUME NEW l \in Locks, BeatFails(l) PROVE FlockHeld'
  BY <1>9 DEF BeatFails, FlockHeld
<1>10. ASSUME NEW l \in Locks, StopBeating(l) PROVE FlockHeld'
  BY <1>10 DEF StopBeating, FlockHeld
<1>11. ASSUME NEW l \in Locks, Stop(l) PROVE FlockHeld'
  BY <1>11 DEF Stop, FlockHeld, Holding, Step
<1>12. ASSUME NEW l \in Locks, Join(l) PROVE FlockHeld'
  BY <1>12 DEF Join, FlockHeld, Holding, Step
<1>13. ASSUME NEW l \in Locks, Clear(l) PROVE FlockHeld'
  BY <1>13 DEF Clear, FlockHeld, Holding, Step
<1>14. ASSUME NEW l \in Locks, Unlock(l) PROVE FlockHeld'
  BY <1>14, Times DEF Unlock, TypeOK, FlockHeld, Holding, Step
<1>15. ASSUME NEW l \in Locks, Close(l) PROVE FlockHeld'
  BY <1>15 DEF Close, FlockHeld, Holding, Step
<1>16. ASSUME NEW l \in Locks, Crash(l) PROVE FlockHeld'
  BY <1>16, Times DEF Crash, TypeOK, FlockHeld, Holding, Step
<1>17. CASE ScanRead
  BY <1>17 DEF ScanRead, FlockHeld
<1>18. CASE ScanJudge
  BY <1>18 DEF ScanJudge, FlockHeld
<1>19. CASE Tick
  BY <1>19 DEF Tick, FlockHeld
<1>20. CASE UNCHANGED vars
  BY <1>20 DEF vars, FlockHeld
<1>21. QED
  BY <1>1, <1>2, <1>3, <1>4, <1>5, <1>6, <1>7, <1>8, <1>9, <1>10, <1>11, <1>12, <1>13,
     <1>14, <1>15, <1>16, <1>17, <1>18, <1>19, <1>20
  DEF Next, EnterStep, ExitStep, BeatStep

\* __exit__ waits for the thread before it goes on, and notes when it waited in vain.
LEMMA BeatsStep ==
  ASSUME TypeOK, BeatsInside, [Next]_vars
  PROVE  BeatsInside'
<1>1. ASSUME NEW l \in Locks, Enter(l) PROVE BeatsInside'
  BY <1>1 DEF Enter, BeatsInside, Beats
<1>2. ASSUME NEW l \in Locks, Acquire(l) PROVE BeatsInside'
  BY <1>2 DEF Acquire, BeatsInside, Beats, Step
<1>3. ASSUME NEW l \in Locks, GiveUp(l) PROVE BeatsInside'
  BY <1>3 DEF GiveUp, BeatsInside, Beats, Step
<1>4. ASSUME NEW l \in Locks, Announce(l) PROVE BeatsInside'
  BY <1>4 DEF Announce, TypeOK, BeatsInside, Beats, Step
<1>5. ASSUME NEW l \in Locks, AnnounceFails(l) PROVE BeatsInside'
  BY <1>5 DEF AnnounceFails, BeatsInside, Beats, Step, Quiet
<1>6. ASSUME NEW l \in Locks, Wake(l) PROVE BeatsInside'
  BY <1>6 DEF Wake, BeatsInside, Beats
<1>7. ASSUME NEW l \in Locks, ReadOwn(l) PROVE BeatsInside'
  BY <1>7 DEF ReadOwn, TypeOK, BeatsInside, Beats
<1>8. ASSUME NEW l \in Locks, WriteOwn(l) PROVE BeatsInside'
  BY <1>8 DEF WriteOwn, BeatsInside, Beats
<1>9. ASSUME NEW l \in Locks, BeatFails(l) PROVE BeatsInside'
  BY <1>9 DEF BeatFails, BeatsInside, Beats
<1>10. ASSUME NEW l \in Locks, StopBeating(l) PROVE BeatsInside'
  BY <1>10 DEF StopBeating, BeatsInside, Beats
<1>11. ASSUME NEW l \in Locks, Stop(l) PROVE BeatsInside'
  BY <1>11 DEF Stop, BeatsInside, Beats, Step
<1>12. ASSUME NEW l \in Locks, Join(l) PROVE BeatsInside'
  BY <1>12 DEF Join, BeatsInside, Beats, Step
<1>13. ASSUME NEW l \in Locks, Clear(l) PROVE BeatsInside'
  BY <1>13 DEF Clear, BeatsInside, Beats, Step
<1>14. ASSUME NEW l \in Locks, Unlock(l) PROVE BeatsInside'
  BY <1>14 DEF Unlock, BeatsInside, Beats, Step
<1>15. ASSUME NEW l \in Locks, Close(l) PROVE BeatsInside'
  BY <1>15 DEF Close, BeatsInside, Beats, Step
<1>16. ASSUME NEW l \in Locks, Crash(l) PROVE BeatsInside'
  BY <1>16 DEF Crash, TypeOK, BeatsInside, Beats, Step, Quiet
<1>17. CASE ScanRead
  BY <1>17 DEF ScanRead, BeatsInside, Beats
<1>18. CASE ScanJudge
  BY <1>18 DEF ScanJudge, BeatsInside, Beats
<1>19. CASE Tick
  BY <1>19 DEF Tick, BeatsInside, Beats
<1>20. CASE UNCHANGED vars
  BY <1>20 DEF vars, BeatsInside, Beats
<1>21. QED
  BY <1>1, <1>2, <1>3, <1>4, <1>5, <1>6, <1>7, <1>8, <1>9, <1>10, <1>11, <1>12, <1>13,
     <1>14, <1>15, <1>16, <1>17, <1>18, <1>19, <1>20
  DEF Next, EnterStep, ExitStep, BeatStep

\* A process gets into the file by its own first write.
LEMMA UnnamedStep ==
  ASSUME TypeOK, BeatsInside, Unnamed, [Next]_vars
  PROVE  Unnamed'
<1>1. ASSUME NEW l \in Locks, Enter(l) PROVE Unnamed'
  BY <1>1 DEF Enter, Unnamed, Early
<1>2. ASSUME NEW l \in Locks, Acquire(l) PROVE Unnamed'
  BY <1>2 DEF Acquire, Unnamed, Early, Step
<1>3. ASSUME NEW l \in Locks, GiveUp(l) PROVE Unnamed'
  BY <1>3 DEF GiveUp, Unnamed, Early, Step
<1>4. ASSUME NEW l \in Locks, Announce(l) PROVE Unnamed'
  BY <1>4 DEF Announce, TypeOK, Unnamed, Early, Step, Owned
<1>5. ASSUME NEW l \in Locks, AnnounceFails(l) PROVE Unnamed'
  BY <1>5, Times DEF AnnounceFails, TypeOK, Unnamed, Early, Step, Quiet, Empty, Garbage
<1>6. ASSUME NEW l \in Locks, Wake(l) PROVE Unnamed'
  BY <1>6 DEF Wake, Unnamed
<1>7. ASSUME NEW l \in Locks, ReadOwn(l) PROVE Unnamed'
  BY <1>7 DEF ReadOwn, TypeOK, Unnamed
<1>8. ASSUME NEW l \in Locks, WriteOwn(l) PROVE Unnamed'
  BY <1>8, Times DEF WriteOwn, Unnamed, Quiet, Empty
<1>9. ASSUME NEW l \in Locks, BeatFails(l) PROVE Unnamed'
  BY <1>9, Times DEF BeatFails, Unnamed, Quiet, Empty, Garbage
<1>10. ASSUME NEW l \in Locks, StopBeating(l) PROVE Unnamed'
  BY <1>10, Times DEF StopBeating, Unnamed, Quiet, Empty
<1>11. ASSUME NEW l \in Locks, Stop(l) PROVE Unnamed'
  BY <1>11 DEF Stop, Unnamed, Early, Step
<1>12. ASSUME NEW l \in Locks, Join(l) PROVE Unnamed'
  BY <1>12 DEF Join, Unnamed, Early, Step
<1>13. ASSUME NEW l \in Locks, Clear(l) PROVE Unnamed'
  BY <1>13, Times DEF Clear, Unnamed, Early, Step, Empty
<1>14. ASSUME NEW l \in Locks, Unlock(l) PROVE Unnamed'
  BY <1>14 DEF Unlock, Unnamed, Early, Step
<1>15. ASSUME NEW l \in Locks, Close(l) PROVE Unnamed'
  BY <1>15 DEF Close, Unnamed, Early, Step
<1>16. ASSUME NEW l \in Locks, Crash(l) PROVE Unnamed'
  BY <1>16, Times DEF Crash, Unnamed, Early, Step, Quiet, Empty
<1>17. CASE ScanRead
  BY <1>17, Times DEF ScanRead, Unnamed, NoScan
<1>18. CASE ScanJudge
  BY <1>18, Times DEF ScanJudge, Unnamed, Empty
<1>19. CASE Tick
  BY <1>19, Times DEF Tick, Unnamed, Empty, NoScan
<1>20. CASE UNCHANGED vars
  BY <1>20 DEF vars, Unnamed
<1>21. QED
  BY <1>1, <1>2, <1>3, <1>4, <1>5, <1>6, <1>7, <1>8, <1>9, <1>10, <1>11, <1>12, <1>13,
     <1>14, <1>15, <1>16, <1>17, <1>18, <1>19, <1>20
  DEF Next, EnterStep, ExitStep, BeatStep

\* A thread reads its own metadata, or none.
LEMMA CopyStep ==
  ASSUME TypeOK, BeatsInside, CopyOwn, OwnerShown, [Next]_vars
  PROVE  CopyOwn'
<1>1. ASSUME NEW l \in Locks, Enter(l) PROVE CopyOwn'
  BY <1>1 DEF Enter, CopyOwn
<1>2. ASSUME NEW l \in Locks, Acquire(l) PROVE CopyOwn'
  BY <1>2 DEF Acquire, CopyOwn
<1>3. ASSUME NEW l \in Locks, GiveUp(l) PROVE CopyOwn'
  BY <1>3 DEF GiveUp, CopyOwn
<1>4. ASSUME NEW l \in Locks, Announce(l) PROVE CopyOwn'
  BY <1>4 DEF Announce, TypeOK, CopyOwn
<1>5. ASSUME NEW l \in Locks, AnnounceFails(l) PROVE CopyOwn'
  BY <1>5 DEF AnnounceFails, CopyOwn, Quiet
<1>6. ASSUME NEW l \in Locks, Wake(l) PROVE CopyOwn'
  BY <1>6 DEF Wake, CopyOwn
<1>7. ASSUME NEW l \in Locks, ReadOwn(l) PROVE CopyOwn'
  BY <1>7 DEF ReadOwn, TypeOK, CopyOwn, Owned, BeatsInside, Beats, OwnerShown
<1>8. ASSUME NEW l \in Locks, WriteOwn(l) PROVE CopyOwn'
  BY <1>8 DEF WriteOwn, CopyOwn, Quiet
<1>9. ASSUME NEW l \in Locks, BeatFails(l) PROVE CopyOwn'
  BY <1>9 DEF BeatFails, CopyOwn, Quiet
<1>10. ASSUME NEW l \in Locks, StopBeating(l) PROVE CopyOwn'
  BY <1>10 DEF StopBeating, CopyOwn, Quiet
<1>11. ASSUME NEW l \in Locks, Stop(l) PROVE CopyOwn'
  BY <1>11 DEF Stop, CopyOwn
<1>12. ASSUME NEW l \in Locks, Join(l) PROVE CopyOwn'
  BY <1>12 DEF Join, CopyOwn
<1>13. ASSUME NEW l \in Locks, Clear(l) PROVE CopyOwn'
  BY <1>13 DEF Clear, CopyOwn
<1>14. ASSUME NEW l \in Locks, Unlock(l) PROVE CopyOwn'
  BY <1>14 DEF Unlock, CopyOwn
<1>15. ASSUME NEW l \in Locks, Close(l) PROVE CopyOwn'
  BY <1>15 DEF Close, CopyOwn
<1>16. ASSUME NEW l \in Locks, Crash(l) PROVE CopyOwn'
  BY <1>16 DEF Crash, CopyOwn, Quiet
<1>17. CASE ScanRead
  BY <1>17 DEF ScanRead, CopyOwn
<1>18. CASE ScanJudge
  BY <1>18 DEF ScanJudge, CopyOwn
<1>19. CASE Tick
  BY <1>19 DEF Tick, CopyOwn
<1>20. CASE UNCHANGED vars
  BY <1>20 DEF vars, CopyOwn
<1>21. QED
  BY <1>1, <1>2, <1>3, <1>4, <1>5, <1>6, <1>7, <1>8, <1>9, <1>10, <1>11, <1>12, <1>13,
     <1>14, <1>15, <1>16, <1>17, <1>18, <1>19, <1>20
  DEF Next, EnterStep, ExitStep, BeatStep

\* Only the process that has the flock writes to the file, and writes itself.
LEMMA OwnerStep ==
  ASSUME TypeOK, FlockHeld, BeatsInside, Unnamed, CopyOwn, OwnerShown, [Next]_vars
  PROVE  OwnerShown'
<1>1. ASSUME NEW l \in Locks, Enter(l) PROVE OwnerShown'
  BY <1>1 DEF Enter, OwnerShown
<1>2. ASSUME NEW l \in Locks, Acquire(l) PROVE OwnerShown'
  BY <1>2 DEF Acquire, OwnerShown, Step
<1>3. ASSUME NEW l \in Locks, GiveUp(l) PROVE OwnerShown'
  BY <1>3 DEF GiveUp, OwnerShown, Step
<1>4. ASSUME NEW l \in Locks, Announce(l) PROVE OwnerShown'
  BY <1>4 DEF Announce, OwnerShown, FlockHeld, Holding, Step, Owned
<1>5. ASSUME NEW l \in Locks, AnnounceFails(l) PROVE OwnerShown'
  BY <1>5 DEF AnnounceFails, OwnerShown, FlockHeld, Holding, Step
<1>6. ASSUME NEW l \in Locks, Wake(l) PROVE OwnerShown'
  BY <1>6 DEF Wake, OwnerShown
<1>7. ASSUME NEW l \in Locks, ReadOwn(l) PROVE OwnerShown'
  BY <1>7 DEF ReadOwn, TypeOK, OwnerShown
<1>8. ASSUME NEW l \in Locks, WriteOwn(l) PROVE OwnerShown'
  BY <1>8 DEF WriteOwn, OwnerShown, BeatsInside, Beats, CopyOwn
<1>9. ASSUME NEW l \in Locks, BeatFails(l) PROVE OwnerShown'
  BY <1>9 DEF BeatFails, TypeOK, OwnerShown, Quiet, BeatsInside, Beats
<1>10. ASSUME NEW l \in Locks, StopBeating(l) PROVE OwnerShown'
  BY <1>10 DEF StopBeating, OwnerShown
<1>11. ASSUME NEW l \in Locks, Stop(l) PROVE OwnerShown'
  BY <1>11 DEF Stop, OwnerShown, Step
<1>12. ASSUME NEW l \in Locks, Join(l) PROVE OwnerShown'
  BY <1>12 DEF Join, OwnerShown, Step
<1>13. ASSUME NEW l \in Locks, Clear(l) PROVE OwnerShown'
  BY <1>13 DEF Clear, TypeOK, OwnerShown, FlockHeld, Holding, Step
<1>14. ASSUME NEW l \in Locks, Unlock(l) PROVE OwnerShown'
  BY <1>14 DEF Unlock, OwnerShown, Step
<1>15. ASSUME NEW l \in Locks, Close(l) PROVE OwnerShown'
  BY <1>15 DEF Close, OwnerShown, Step
<1>16. ASSUME NEW l \in Locks, Crash(l) PROVE OwnerShown'
  BY <1>16 DEF Crash, OwnerShown, Step
<1>17. CASE ScanRead
  BY <1>17 DEF ScanRead, OwnerShown
<1>18. CASE ScanJudge
  BY <1>18 DEF ScanJudge, OwnerShown
<1>19. CASE Tick
  BY <1>19 DEF Tick, OwnerShown
<1>20. CASE UNCHANGED vars
  BY <1>20 DEF vars, OwnerShown
<1>21. QED
  BY <1>1, <1>2, <1>3, <1>4, <1>5, <1>6, <1>7, <1>8, <1>9, <1>10, <1>11, <1>12, <1>13,
     <1>14, <1>15, <1>16, <1>17, <1>18, <1>19, <1>20
  DEF Next, EnterStep, ExitStep, BeatStep

\* The file is cleared before the flock is given back, or its owner dies.
LEMMA ExplainedStep ==
  ASSUME TypeOK, FlockHeld, BeatsInside, Unnamed, CopyOwn, FileExplained, [Next]_vars
  PROVE  FileExplained'
<1>1. ASSUME NEW l \in Locks, Enter(l) PROVE FileExplained'
  BY <1>1 DEF Enter, FileExplained, Healthy, Showing
<1>2. ASSUME NEW l \in Locks, Acquire(l) PROVE FileExplained'
  BY <1>2 DEF Acquire, FileExplained, Healthy, Showing, Step
<1>3. ASSUME NEW l \in Locks, GiveUp(l) PROVE FileExplained'
  BY <1>3 DEF GiveUp, FileExplained, Healthy, Showing, Step
<1>4. ASSUME NEW l \in Locks, Announce(l) PROVE FileExplained'
  BY <1>4 DEF Announce, TypeOK, FileExplained, Showing, Step, Owned
<1>5. ASSUME NEW l \in Locks, AnnounceFails(l) PROVE FileExplained'
  BY <1>5 DEF AnnounceFails, TypeOK, FileExplained, Healthy, Quiet
<1>6. ASSUME NEW l \in Locks, Wake(l) PROVE FileExplained'
  BY <1>6 DEF Wake, FileExplained, Healthy
<1>7. ASSUME NEW l \in Locks, ReadOwn(l) PROVE FileExplained'
  BY <1>7 DEF ReadOwn, TypeOK, FileExplained, Healthy
<1>8. ASSUME NEW l \in Locks, WriteOwn(l) PROVE FileExplained'
  BY <1>8 DEF WriteOwn, FileExplained, Healthy, Showing, BeatsInside, Beats, CopyOwn
<1>9. ASSUME NEW l \in Locks, BeatFails(l) PROVE FileExplained'
  BY <1>9 DEF BeatFails, TypeOK, FileExplained, Healthy, Quiet
<1>10. ASSUME NEW l \in Locks, StopBeating(l) PROVE FileExplained'
  BY <1>10 DEF StopBeating, FileExplained, Healthy
<1>11. ASSUME NEW l \in Locks, Stop(l) PROVE FileExplained'
  BY <1>11 DEF Stop, FileExplained, Healthy, Showing, Step
<1>12. ASSUME NEW l \in Locks, Join(l) PROVE FileExplained'
  BY <1>12 DEF Join, FileExplained, Healthy, Showing, Step
<1>13. ASSUME NEW l \in Locks, Clear(l) PROVE FileExplained'
  BY <1>13 DEF Clear, FileExplained
<1>14. ASSUME NEW l \in Locks, Unlock(l) PROVE FileExplained'
  BY <1>14 DEF Unlock, FileExplained, Healthy, Showing, Step
<1>15. ASSUME NEW l \in Locks, Close(l) PROVE FileExplained'
  BY <1>15 DEF Close, FileExplained, Healthy, Showing, Step
<1>16. ASSUME NEW l \in Locks, Crash(l) PROVE FileExplained'
  BY <1>16 DEF Crash, FileExplained, Healthy, Step
<1>17. CASE ScanRead
  BY <1>17 DEF ScanRead, FileExplained, Healthy
<1>18. CASE ScanJudge
  BY <1>18 DEF ScanJudge, FileExplained, Healthy
<1>19. CASE Tick
  BY <1>19 DEF Tick, FileExplained, Healthy
<1>20. CASE UNCHANGED vars
  BY <1>20 DEF vars, FileExplained, Healthy
<1>21. QED
  BY <1>1, <1>2, <1>3, <1>4, <1>5, <1>6, <1>7, <1>8, <1>9, <1>10, <1>11, <1>12, <1>13,
     <1>14, <1>15, <1>16, <1>17, <1>18, <1>19, <1>20
  DEF Next, EnterStep, ExitStep, BeatStep

\* A thread that is not late writes a time that is not old.
LEMMA TimesStep ==
  ASSUME TypeOK, BeatsInside, Unnamed, OwnerShown, CopyOwn, FlockHeld, BeatTimes, [Next]_vars
  PROVE  BeatTimes'
<1>1. ASSUME NEW l \in Locks, Enter(l) PROVE BeatTimes'
  BY <1>1 DEF Enter, BeatTimes, Paced, Beats
<1>2. ASSUME NEW l \in Locks, Acquire(l) PROVE BeatTimes'
  BY <1>2 DEF Acquire, BeatTimes, Paced, Beats, Step
<1>3. ASSUME NEW l \in Locks, GiveUp(l) PROVE BeatTimes'
  BY <1>3 DEF GiveUp, BeatTimes, Paced, Beats, Step
<1>4. ASSUME NEW l \in Locks, Announce(l) PROVE BeatTimes'
  BY <1>4, Times DEF Announce, TypeOK, BeatTimes, Paced, Beats, Step, Owned
<1>5. ASSUME NEW l \in Locks, AnnounceFails(l) PROVE BeatTimes'
  BY <1>5 DEF AnnounceFails, BeatTimes, Paced, Step, FlockHeld, Holding
<1>6. ASSUME NEW l \in Locks, Wake(l) PROVE BeatTimes'
  BY <1>6, Times DEF Wake, TypeOK, BeatTimes, Paced, Beats
<1>7. ASSUME NEW l \in Locks, ReadOwn(l) PROVE BeatTimes'
  BY <1>7, Times
  DEF ReadOwn, TypeOK, BeatTimes, Paced, Beats, OwnerShown, Owned, Garbage
<1>8. ASSUME NEW l \in Locks, WriteOwn(l) PROVE BeatTimes'
  <2>1. CASE outlived # {}
    BY <1>8, <2>1, Times DEF WriteOwn, TypeOK, BeatTimes, Paced, Beats
  <2>2. CASE outlived = {}
    <3>1. \A k \in Locks \ {l} : ~(lock[k].pc = "held")
      BY <1>8, <2>2 DEF WriteOwn, BeatsInside, Beats, FlockHeld, Holding
    <3>2. SUFFICES ASSUME Paced(l)'
                   PROVE  /\ beat'[l].at = clock /\ beat'[l].pc = "waiting"
                          /\ beat'[l].at - Slack <= file'.at
      BY <1>8, <2>2, <3>1, Times DEF WriteOwn, TypeOK, BeatTimes, Paced
    <3>3. lock[l].pc = "held" /\ Paced(l)
      BY <1>8, <3>2 DEF WriteOwn, Paced, Beats
    <3>4. beat'[l] = [pc |-> "waiting", copy |-> Empty, at |-> clock] /\ file' = beat[l].copy
      BY <1>8, <3>3 DEF WriteOwn, TypeOK, Open
    <3>5. beat[l].copy.at \in Int /\ beat[l].at \in Int /\ clock \in Int
      BY DEF TypeOK, Metadata, Empty, Garbage
    <3>6. beat[l].at + Interval <= beat[l].copy.at /\ clock - beat[l].at <= Interval + Slack
      BY <1>8, <2>2, <3>3 DEF WriteOwn, BeatTimes
    <3>7. QED BY <3>4, <3>5, <3>6, Times
  <2>3. QED BY <2>1, <2>2
<1>9. ASSUME NEW l \in Locks, BeatFails(l) PROVE BeatTimes'
  BY <1>9
  DEF BeatFails, TypeOK, BeatTimes, Paced, Beats, Quiet, FlockHeld, Holding, BeatsInside
<1>10. ASSUME NEW l \in Locks, StopBeating(l) PROVE BeatTimes'
  BY <1>10 DEF StopBeating, BeatTimes, Paced, Beats
<1>11. ASSUME NEW l \in Locks, Stop(l) PROVE BeatTimes'
  BY <1>11 DEF Stop, BeatTimes, Paced, Beats, Step
<1>12. ASSUME NEW l \in Locks, Join(l) PROVE BeatTimes'
  BY <1>12 DEF Join, BeatTimes, Paced, Beats, Step
<1>13. ASSUME NEW l \in Locks, Clear(l) PROVE BeatTimes'
  BY <1>13 DEF Clear, BeatTimes, Paced, Step, FlockHeld, Holding
<1>14. ASSUME NEW l \in Locks, Unlock(l) PROVE BeatTimes'
  BY <1>14 DEF Unlock, BeatTimes, Paced, Beats, Step
<1>15. ASSUME NEW l \in Locks, Close(l) PROVE BeatTimes'
  BY <1>15 DEF Close, BeatTimes, Paced, Beats, Step
<1>16. ASSUME NEW l \in Locks, Crash(l) PROVE BeatTimes'
  BY <1>16 DEF Crash, TypeOK, BeatTimes, Paced, Beats, Step
<1>17. CASE ScanRead
  BY <1>17 DEF ScanRead, BeatTimes, Paced, Beats
<1>18. CASE ScanJudge
  BY <1>18 DEF ScanJudge, BeatTimes, Paced, Beats
<1>19. CASE Tick
  BY <1>19, Times DEF Tick, TypeOK, BeatTimes, Paced, Beats
<1>20. CASE UNCHANGED vars
  BY <1>20 DEF vars, BeatTimes, Paced, Beats
<1>21. QED
  BY <1>1, <1>2, <1>3, <1>4, <1>5, <1>6, <1>7, <1>8, <1>9, <1>10, <1>11, <1>12, <1>13,
     <1>14, <1>15, <1>16, <1>17, <1>18, <1>19, <1>20
  DEF Next, EnterStep, ExitStep, BeatStep

\* What a scan reads is judged within the same second.
LEMMA SeenStep ==
  ASSUME TypeOK, Unnamed, OwnerShown, BeatTimes, SeenFresh, [Next]_vars
  PROVE  SeenFresh'
<1>1. ASSUME NEW l \in Locks, Enter(l) PROVE SeenFresh'
  BY <1>1 DEF Enter, SeenFresh, Paced, Beats
<1>2. ASSUME NEW l \in Locks, Acquire(l) PROVE SeenFresh'
  BY <1>2 DEF Acquire, SeenFresh, Paced, Beats, Step
<1>3. ASSUME NEW l \in Locks, GiveUp(l) PROVE SeenFresh'
  BY <1>3 DEF GiveUp, SeenFresh, Paced, Beats, Step
<1>4. ASSUME NEW l \in Locks, Announce(l) PROVE SeenFresh'
  BY <1>4 DEF Announce, TypeOK, SeenFresh, Paced, Beats, Step, Unnamed, Early
<1>5. ASSUME NEW l \in Locks, AnnounceFails(l) PROVE SeenFresh'
  BY <1>5 DEF AnnounceFails, SeenFresh, Paced, Beats, Step
<1>6. ASSUME NEW l \in Locks, Wake(l) PROVE SeenFresh'
  BY <1>6 DEF Wake, SeenFresh, Paced, Beats
<1>7. ASSUME NEW l \in Locks, ReadOwn(l) PROVE SeenFresh'
  BY <1>7 DEF ReadOwn, TypeOK, SeenFresh, Paced, Beats
<1>8. ASSUME NEW l \in Locks, WriteOwn(l) PROVE SeenFresh'
  BY <1>8 DEF WriteOwn, SeenFresh, Paced, Beats
<1>9. ASSUME NEW l \in Locks, BeatFails(l) PROVE SeenFresh'
  BY <1>9 DEF BeatFails, SeenFresh, Paced, Beats
<1>10. ASSUME NEW l \in Locks, StopBeating(l) PROVE SeenFresh'
  BY <1>10 DEF StopBeating, SeenFresh, Paced, Beats
<1>11. ASSUME NEW l \in Locks, Stop(l) PROVE SeenFresh'
  BY <1>11 DEF Stop, SeenFresh, Paced, Beats, Step
<1>12. ASSUME NEW l \in Locks, Join(l) PROVE SeenFresh'
  BY <1>12 DEF Join, SeenFresh, Paced, Beats, Step
<1>13. ASSUME NEW l \in Locks, Clear(l) PROVE SeenFresh'
  BY <1>13 DEF Clear, SeenFresh, Paced, Beats, Step
<1>14. ASSUME NEW l \in Locks, Unlock(l) PROVE SeenFresh'
  BY <1>14 DEF Unlock, SeenFresh, Paced, Beats, Step
<1>15. ASSUME NEW l \in Locks, Close(l) PROVE SeenFresh'
  BY <1>15 DEF Close, SeenFresh, Paced, Beats, Step
<1>16. ASSUME NEW l \in Locks, Crash(l) PROVE SeenFresh'
  BY <1>16 DEF Crash, TypeOK, SeenFresh, Paced, Beats, Step
<1>17. CASE ScanRead
  <2>1. SUFFICES ASSUME NEW k \in Locks, outlived = {}, Paced(k), file.owner = k
                 PROVE  clock - file.at <= StaleAge
    BY <1>17 DEF ScanRead, SeenFresh, Paced, Beats, NoScan
  <2>2. file.at \in Int /\ beat[k].at \in Int /\ clock \in Int
    BY DEF TypeOK, Metadata, Empty, Garbage
  <2>3. beat[k].at - Slack <= file.at /\ clock - beat[k].at <= Interval + Slack
    BY <2>1 DEF BeatTimes
  <2>4. QED BY <2>2, <2>3, Times
<1>18. CASE ScanJudge
  <2>1. SUFFICES ASSUME NEW k \in Locks, outlived = {}, Paced(k), scan.seen.owner = k
                 PROVE  Judged(scan.seen) # "heartbeat_stale"
    BY <1>18 DEF ScanJudge, SeenFresh, Paced, Beats
  <2>2. clock - scan.seen.at <= StaleAge
    BY <1>18, <2>1 DEF ScanJudge, SeenFresh
  <2>3. scan.seen.at \in Int /\ clock \in Int
    BY DEF TypeOK, Metadata, Empty, Garbage
  <2>4. QED BY <2>2, <2>3, Times DEF Judged
<1>19. CASE Tick
  BY <1>19 DEF Tick, SeenFresh, NoScan
<1>20. CASE UNCHANGED vars
  BY <1>20 DEF vars, SeenFresh, Paced, Beats
<1>21. QED
  BY <1>1, <1>2, <1>3, <1>4, <1>5, <1>6, <1>7, <1>8, <1>9, <1>10, <1>11, <1>12, <1>13,
     <1>14, <1>15, <1>16, <1>17, <1>18, <1>19, <1>20
  DEF Next, EnterStep, ExitStep, BeatStep

\* A scan looks at a file that says something.
LEMMA ScanStep == ASSUME TypeOK, ScanOwner, [Next]_vars PROVE ScanOwner'
<1>1. CASE ScanRead
  BY <1>1 DEF ScanRead, ScanOwner, NoScan
<1>2. CASE ScanJudge
  BY <1>2 DEF ScanJudge, ScanOwner, Judged, TypeOK, Metadata
<1>3. CASE Tick
  BY <1>3 DEF Tick, ScanOwner, NoScan
<1>4. CASE UNCHANGED scan
  BY <1>4 DEF ScanOwner
<1>5. QED
  BY <1>1, <1>2, <1>3, <1>4
  DEF Next, vars, EnterStep, ExitStep, BeatStep, Enter, Acquire, GiveUp, Announce,
      AnnounceFails, Wake, ReadOwn, WriteOwn, BeatFails, StopBeating, Stop, Join, Clear,
      Unlock, Close, Crash

\* At first nobody has the flock, and the file is empty.
LEMMA InitIInv == Init => IInv
<1> SUFFICES ASSUME Init PROVE IInv
  OBVIOUS
<1>1. TypeOK
  BY Times DEF Init, TypeOK, Metadata, NoScan
<1>2. FlockHeld /\ BeatsInside /\ CopyOwn /\ OwnerShown /\ FileExplained
  BY Times
  DEF Init, FlockHeld, Holding, BeatsInside, Beats, CopyOwn, OwnerShown, FileExplained
<1>3. Unnamed
  BY Times DEF Init, Unnamed, NoScan, Empty
<1>4. BeatTimes /\ ScanOwner /\ SeenFresh
  BY DEF Init, BeatTimes, Paced, ScanOwner, SeenFresh, NoScan
<1>5. QED
  BY <1>1, <1>2, <1>3, <1>4 DEF IInv

\* The inductive invariant: who has the flock, where its thread is, what the file and
\* a scan of it say, and how old that may be.
THEOREM Invariant == Spec => []IInv
<1>1. IInv /\ [Next]_vars => IInv'
  BY TypeStep, FlockStep, BeatsStep, UnnamedStep, CopyStep, OwnerStep, ExplainedStep,
     TimesStep, ScanStep, SeenStep DEF IInv
<1>2. QED
  BY InitIInv, <1>1, PTL DEF Spec

\* State of the lock file, its owners, their threads and the scan (FileLock).
THEOREM TypeCorrect == Spec => []TypeOK
<1>1. IInv => TypeOK
  BY DEF IInv
<1>2. QED BY <1>1, Invariant, PTL

\* At most one process is between the acquisition of the flock and its release, for any
\* interleaving of acquisitions, releases, time-outs, failed writes and kills.
THEOREM Exclusive ==
  Spec => [](\A k, l \in Locks : lock[k].pc \in Holding /\ lock[l].pc \in Holding => k = l)
<1>1. IInv => \A k, l \in Locks :
                lock[k].pc \in Holding /\ lock[l].pc \in Holding => k = l
  BY DEF IInv, FlockHeld
<1>2. QED BY <1>1, Invariant, PTL

\* The lock file names the process that has the lock (_write_metadata, _heartbeat_loop).
THEOREM OwnerAlwaysShown == Spec => []OwnerShown
<1>1. IInv => OwnerShown
  BY DEF IInv
<1>2. QED BY <1>1, Invariant, PTL

\* A released lock leaves no metadata behind (__exit__).
THEOREM NoGhostLeft == Spec => []NoGhost
<1>1. IInv => NoGhost
  <2>1. SUFFICES ASSUME IInv, holder = None, file # Empty, Healthy
                 PROVE  lock[file.owner].pc = "dead"
    BY DEF NoGhost, Healthy, IInv, TypeOK
  <2>2. file.owner \in Locks /\ lock[file.owner].pc \in Showing \cup {"dead"}
    BY <2>1 DEF IInv, FileExplained
  <2>3. lock[file.owner].pc \notin Holding
    BY <2>1, <2>2, Times DEF IInv, FlockHeld
  <2>4. QED BY <2>2, <2>3 DEF Showing, Holding
<1>2. QED BY <1>1, Invariant, PTL

\* A process that holds the lock and whose thread runs is not called stale for its
\* heartbeat (stale_owner), for every interval and delay with
\* Interval + 2 * Slack <= StaleAge.
THEOREM LiveNeverStale == Spec => []LiveNotStale
<1>1. IInv => LiveNotStale
  BY DEF IInv, LiveNotStale, ScanOwner, SeenFresh, Paced
<1>2. QED BY <1>1, Invariant, PTL
===============================================================================
