---------------------------- MODULE RunStore_proofs ----------------------------
(* What the run store guarantees for any set of processes and any bounds. *)
EXTENDS RunStore, TLAPS

\* The initial state is a task state, and the table of moves yields task states.
LEMMA TaskStateFacts ==
  /\ InitialState \in TaskState
  /\ InitialState \notin Terminal
  /\ \A s \in Terminal : \A t : ~CanMove(s, t)
<1>1. InitialState \in TaskState /\ InitialState \notin Terminal
  BY DEF InitialState, TaskState, Terminal
<1>2. ASSUME NEW s \in Terminal, NEW t PROVE ~CanMove(s, t)
  <2>1. s \in TaskState /\ Allowed[s] = {}
    BY DEF Terminal, TaskState, Allowed
  <2>2. QED BY <2>1 DEF CanMove, CanTransition, CanRecover
<1>3. QED BY <1>1, <1>2

\* The state of a well-typed history is a task state.
LEMMA StateOfType ==
  ASSUME NEW h \in Seq(TaskState)
  PROVE  /\ StateOf(h) \in TaskState
         /\ \A i \in 0..Len(h) : StateAfter(h, i) \in TaskState
<1>1. Len(h) \in Nat /\ \A i \in 1..Len(h) : h[i] \in TaskState
  OBVIOUS
<1>2. QED BY <1>1, TaskStateFacts DEF StateOf, StateAfter

\* Appending an element of S to a sequence over S.
LEMMA AppendType ==
  ASSUME NEW S, NEW s \in Seq(S), NEW e \in S
  PROVE  Append(s, e) \in Seq(S)
OBVIOUS

\* What the except clauses make of a copy is that copy, finished, or a legal move of it.
LEMMA ExceptedMoves ==
  ASSUME NEW g \in Seq(TaskState), NEW h \in Excepted(g)
  PROVE  /\ h \in Seq(TaskState)
         /\ \/ h = g
            \/ \E t \in TaskState : CanMove(StateOf(g), t) /\ h = Append(g, t)
<1>1. CASE StateOf(g) \in Terminal
  BY <1>1 DEF Excepted
<1>2. CASE StateOf(g) \notin Terminal
  <2>1. PICK t \in {x \in {"TerminalFailure", "Blocked"} : CanMove(StateOf(g), x)} :
          h = Append(g, t)
    BY <1>2 DEF Excepted
  <2>2. t \in TaskState /\ CanMove(StateOf(g), t)
    BY DEF TaskState
  <2>3. QED BY <2>1, <2>2, AppendType
<1>3. QED BY <1>1, <1>2

\* The handler marks a copy by a move, or leaves it alone.
LEMMA MarkedType ==
  ASSUME NEW h \in Seq(TaskState)
  PROVE  Marked(h) \in Seq(TaskState)
<1>1. "ReadyForExecution" \in TaskState
  BY DEF TaskState
<1>2. QED BY <1>1, AppendType DEF Marked

\* Every step of a process keeps the variables in their types.
THEOREM TypeCorrect == Spec => []TypeOK
<1>1. Init => TypeOK
  <2> SUFFICES ASSUME Init PROVE TypeOK
    OBVIOUS
  <2>1. <<>> \in Seq(TaskState)
    OBVIOUS
  <2>2. disk \in Seq(TaskState) /\ log \in Seq(TaskState)
    BY <2>1 DEF Init
  <2>3. mem \in [Procs -> Seq(TaskState)] /\ src \in [Procs -> Seq(TaskState)]
    BY <2>1 DEF Init
  <2>4. pc \in [Procs -> Label] /\ pos \in [Procs -> Nat \ {0}]
    BY DEF Init, Label
  <2>5. exists \in BOOLEAN /\ torn \in BOOLEAN /\ owe \in [Procs -> BOOLEAN]
    BY DEF Init
  <2>6. /\ created \in Nat /\ crashes \in Nat /\ signals \in Nat
        /\ {holder, active} \subseteq Runners \cup {NoOne}
        /\ marked \in BOOLEAN /\ crossed \in BOOLEAN
    BY DEF Init
  <2>7. frame \in Frame
    BY <2>1 DEF Init, NoFrame, Frame, Label
  <2>8. QED BY <2>2, <2>3, <2>4, <2>5, <2>6, <2>7 DEF TypeOK
<1>2. TypeOK /\ [Next]_vars => TypeOK'
  <2> SUFFICES ASSUME TypeOK, [Next]_vars PROVE TypeOK'
    OBVIOUS
  <2>a. /\ crossed' \in BOOLEAN
        /\ Next \/ UNCHANGED vars
    BY DEF Next, vars, TypeOK
  <2> USE DEF TypeOK, Label, files, local, main, Goto
  <2>1. ASSUME NEW p \in Procs, StartCreate(p) PROVE TypeOK'
    BY <2>1, <2>a DEF StartCreate
  <2>2. ASSUME NEW p \in Procs, StartLoad(p) PROVE TypeOK'
    BY <2>2, <2>a DEF StartLoad, ReadState
  <2>3. ASSUME NEW p \in Procs, Acquire(p) PROVE TypeOK'
    BY <2>3, <2>a DEF Acquire, ReadState
  <2>4. ASSUME NEW p \in Procs, Peek(p) PROVE TypeOK'
    BY <2>4, <2>a DEF Peek
  <2>5. ASSUME NEW p \in Procs, Count(p) PROVE TypeOK'
    BY <2>5, <2>a DEF Count
  <2>6. ASSUME NEW p \in Procs, AppendCreated(p) PROVE TypeOK'
    <3>1. created' \in Nat
      <4>1. created' = created \/ created' = created + 1
        BY <2>6 DEF AppendCreated
      <4>2. QED BY <4>1
    <3>2. owe' \in [Procs -> BOOLEAN] /\ torn' \in BOOLEAN
      BY <2>6 DEF AppendCreated
    <3>3. UNCHANGED <<exists, disk, log, holder, pc, mem, src, pos, main, crashes, marked>>
      BY <2>6 DEF AppendCreated
    <3>4. QED BY <3>1, <3>2, <3>3, <2>a
  <2>7. ASSUME NEW p \in Procs, AppendTransition(p) PROVE TypeOK'
    <3>1. src[p][pos[p]] \in TaskState
      BY <2>7 DEF AppendTransition
    <3>2. log' \in Seq(TaskState)
      <4>1. log' = log \/ log' = Append(log, src[p][pos[p]])
        BY <2>7 DEF AppendTransition
      <4>2. Append(log, src[p][pos[p]]) \in Seq(TaskState)
        BY <3>1, AppendType
      <4>3. QED BY <4>1, <4>2
    <3>3. pos' \in [Procs -> Nat \ {0}]
      <4>1. pos' = [pos EXCEPT ![p] = @ + 1]
        BY <2>7 DEF AppendTransition
      <4>2. pos[p] + 1 \in Nat \ {0}
        OBVIOUS
      <4>3. QED BY <4>1, <4>2
    <3>4. torn' \in BOOLEAN
      BY <2>7 DEF AppendTransition
    <3>5. UNCHANGED <<exists, disk, created, holder, pc, mem, src, owe, main, crashes, marked>>
      BY <2>7 DEF AppendTransition
    <3>6. QED BY <3>2, <3>3, <3>4, <3>5, <2>a
  <2>8. ASSUME NEW p \in Procs, Appended(p) PROVE TypeOK'
    BY <2>8, <2>a DEF Appended
  <2>9. ASSUME NEW p \in Procs, NEW t \in TaskState, Transition(p, t) PROVE TypeOK'
    BY <2>9, <2>a DEF Transition
  <2>10. ASSUME NEW p \in Procs, BeginWrite(p) PROVE TypeOK'
    <3>1. frame' \in Frame
      <4>1. Handling(p) \in BOOLEAN
        BY DEF Handling
      <4>2. QED BY <4>1, <2>10 DEF BeginWrite, Frame
    <3>2. QED BY <2>10, <2>a, <3>1 DEF BeginWrite
  <2>11. ASSUME NEW p \in Procs, Replace(p) PROVE TypeOK'
    <3>1. marked' \in BOOLEAN
      BY <2>11 DEF Replace, Handling
    <3>2. QED BY <2>11, <2>a, <3>1 DEF Replace
  <2>b. NoFrame \in Frame
    BY DEF NoFrame, Frame
  <2>12. ASSUME NEW p \in Procs, Exit(p), UNCHANGED <<exists, disk, created, log>>,
                torn' \in BOOLEAN, crashes' \in Nat, UNCHANGED <<signals, marked>>
         PROVE  TypeOK'
    BY <2>12, <2>a, <2>b DEF Exit
  <2>13. ASSUME NEW p \in Procs, NEW h \in Excepted(Copy(p)), Escape(p, h)
         PROVE  TypeOK'
    <3>1. Copy(p) \in Seq(TaskState)
      BY DEF Copy, Frame
    <3>2. h \in Seq(TaskState)
      BY <3>1, ExceptedMoves
    <3>3. QED BY <2>13, <3>2, <2>a, <2>b DEF Escape
  <2>14. ASSUME NEW p \in Procs, RefuseWrite(p) PROVE TypeOK'
    BY <2>12, <2>13, <2>14 DEF RefuseWrite
  <2>15. ASSUME NEW p \in Procs, Throw(p) PROVE TypeOK'
    BY <2>13, <2>15 DEF Throw, Copy
  <2>16. ASSUME NEW p \in Procs, Signal(p) PROVE TypeOK'
    <3>1. Marked(disk) \in Seq(TaskState)
      BY MarkedType
    <3>2. frame' \in Frame
      BY <2>16 DEF Signal, Frame
    <3>3. QED BY <2>16, <2>a, <3>1, <3>2 DEF Signal
  <2>17. ASSUME NEW p \in Procs, HandlerReturn(p) PROVE TypeOK'
    BY <2>17, <2>a, <2>b DEF HandlerReturn, Frame
  <2>18. ASSUME NEW p \in Procs, Finish(p) PROVE TypeOK'
    BY <2>12, <2>18 DEF Finish
  <2>19. ASSUME NEW p \in Procs, Crash(p) PROVE TypeOK'
    BY <2>12, <2>19 DEF Crash
  <2>20. ASSUME NEW p \in Procs, TornCrash(p) PROVE TypeOK'
    BY <2>12, <2>20 DEF TornCrash
  <2>21. CASE UNCHANGED vars
    BY <2>21 DEF vars
  <2>22. QED
    BY <2>1, <2>2, <2>3, <2>4, <2>5, <2>6, <2>7, <2>8, <2>9, <2>10, <2>11, <2>14,
       <2>15, <2>16, <2>17, <2>18, <2>19, <2>20, <2>21, <2>a DEF Next, Step
<1>3. QED BY <1>1, <1>2, PTL DEF Spec
-------------------------------------------------------------------------------
\* A history that extends a finished one is that one: nothing follows the end.
LEMMA FinishedHistoryEnds ==
  ASSUME NEW g \in Seq(TaskState), NEW h \in Seq(TaskState),
         LegalHistory(h), Extends(h, g), StateOf(g) \in Terminal
  PROVE  h = g
<1>1. Len(g) \in Nat /\ Len(h) \in Nat /\ Len(g) <= Len(h)
  BY DEF Extends
<1>2. ASSUME Len(h) > Len(g) PROVE FALSE
  <2>1. Len(g) + 1 \in 1..Len(h)
    BY <1>1, <1>2
  <2>2. CanMove(StateAfter(h, Len(g)), h[Len(g) + 1])
    BY <1>1, <2>1 DEF LegalHistory
  <2>3. StateAfter(h, Len(g)) = StateOf(g)
    BY <1>1 DEF StateAfter, StateOf, Extends
  <2>4. QED BY <2>2, <2>3, TaskStateFacts
<1>3. Len(h) = Len(g)
  BY <1>1, <1>2
<1>4. \A i \in 1..Len(g) : h[i] = g[i]
  BY DEF Extends
<1>5. QED BY <1>3, <1>4

\* Recording a legal move keeps a history legal.
LEMMA LegalAppend ==
  ASSUME NEW h \in Seq(TaskState), NEW t \in TaskState,
         LegalHistory(h), CanMove(StateOf(h), t)
  PROVE  LegalHistory(Append(h, t))
<1> DEFINE k == Append(h, t)
<1>1. Len(h) \in Nat /\ Len(k) = Len(h) + 1 /\ k[Len(h) + 1] = t
  OBVIOUS
<1>2. \A i \in 1..Len(h) : k[i] = h[i]
  OBVIOUS
<1>3. \A i \in 0..Len(h) : StateAfter(k, i) = StateAfter(h, i)
  BY <1>1, <1>2 DEF StateAfter
<1>4. ASSUME NEW i \in 1..Len(k) PROVE CanMove(StateAfter(k, i - 1), k[i])
  <2>1. CASE i = Len(k)
    BY <1>1, <1>3, <2>1 DEF StateOf
  <2>2. CASE i # Len(k)
    <3>1. i \in 1..Len(h) /\ i - 1 \in 0..Len(h)
      BY <1>1, <2>2
    <3>2. QED BY <1>2, <1>3, <3>1 DEF LegalHistory
  <2>3. QED BY <2>1, <2>2
<1>5. QED BY <1>4 DEF LegalHistory

\* A longer history still begins with what a prefix of it began with.
LEMMA ExtendsAppend ==
  ASSUME NEW g \in Seq(TaskState), NEW h \in Seq(TaskState), NEW t \in TaskState,
         Extends(h, g)
  PROVE  Extends(Append(h, t), g)
BY DEF Extends

\* A history begins with itself.
LEMMA ExtendsItself ==
  ASSUME NEW h \in Seq(TaskState)
  PROVE  Extends(h, h) /\ Extends(h, <<>>)
BY DEF Extends

\* The empty history is legal.
LEMMA LegalEmpty == LegalHistory(<<>>)
BY DEF LegalHistory

\* What allows a copy allows it with one more move; a copy that extends all is allowed.
LEMMA AllowingMore ==
  ASSUME NEW g \in Seq(TaskState), NEW h \in Seq(TaskState), NEW t \in TaskState
  PROVE  /\ Allowing(h, g) => Allowing(Append(h, t), g)
         /\ Extends(h, g) => Allowing(h, g) /\ Extends(Append(h, t), g)
<1>1. SubSeq(g, 1, Len(g) - 1) \in Seq(TaskState)
  OBVIOUS
<1>2. QED BY <1>1, ExtendsAppend DEF Allowing

\* Marking is a legal move or none, and marking twice is marking once.
LEMMA MarkedMove ==
  ASSUME NEW h \in Seq(TaskState)
  PROVE  /\ \/ Marked(h) = h
            \/ /\ StateOf(h) # "ReadyForExecution" /\ StateOf(h) \notin Terminal
               /\ Marked(h) = Append(h, "ReadyForExecution")
               /\ CanMove(StateOf(h), "ReadyForExecution")
               /\ StateOf(Marked(h)) = "ReadyForExecution"
               /\ SubSeq(Marked(h), 1, Len(Marked(h)) - 1) = h
               /\ Len(Marked(h)) > 0
         /\ Marked(Marked(h)) = Marked(h)
<1>1. CASE Marked(h) = h
  BY <1>1
<1>2. CASE Marked(h) # h
  <2> DEFINE k == Append(h, "ReadyForExecution")
  <2>1. /\ Marked(h) = k /\ StateOf(h) \notin Terminal
        /\ StateOf(h) # "ReadyForExecution"
    BY <1>2 DEF Marked
  <2>2. Len(k) = Len(h) + 1 /\ k[Len(h) + 1] = "ReadyForExecution" /\ k # <<>>
    BY DEF TaskState
  <2>3. StateOf(k) = "ReadyForExecution"
    BY <2>2 DEF StateOf, StateAfter
  <2>4. Marked(k) = k
    BY <2>3 DEF Marked
  <2>5. SubSeq(k, 1, Len(k) - 1) = h
    <3>1. "ReadyForExecution" \in TaskState
      BY DEF TaskState
    <3>2. QED BY <3>1
  <2>6. CanMove(StateOf(h), "ReadyForExecution")
    BY <2>1 DEF CanMove, CanRecover
  <2>7. Len(k) > 0
    BY <2>2
  <2>8. k = Append(h, "ReadyForExecution")
    OBVIOUS
  <2> HIDE DEF k
  <2>9. /\ StateOf(Marked(h)) = "ReadyForExecution" /\ Len(Marked(h)) > 0
        /\ SubSeq(Marked(h), 1, Len(Marked(h)) - 1) = h
        /\ Marked(Marked(h)) = Marked(h)
    BY <2>1, <2>3, <2>4, <2>5, <2>7
  <2>10. QED BY <2>1, <2>6, <2>8, <2>9
<1>3. QED BY <1>1, <1>2

\* A history that ends with a mark is not empty.
LEMMA MarkNotEmpty ==
  ASSUME NEW h \in Seq(TaskState), StateOf(h) = "ReadyForExecution"
  PROVE  Len(h) > 0
BY DEF StateOf, StateAfter, InitialState

\* Only a Runner is active, so only a Runner handles a signal.
LEMMA RunnersHandle ==
  ASSUME TypeOK, NEW p \in Procs, active = p \/ holder = p
  PROVE  p \in Runners
BY ProcessAssumption DEF TypeOK, Procs

\* The actions that change neither state.json nor what a process works on.
Idling(p) == \/ Peek(p) \/ Count(p) \/ AppendCreated(p)
             \/ AppendTransition(p) \/ Appended(p)

\* One step preserves all of LockInv but what is asked until writers meet.
LEMMA LegalStep ==
  ASSUME TypeOK, TypeOK', LockInv, [Next]_vars
  PROVE  /\ ~exists' => disk' = <<>> /\ frame' = NoFrame
         /\ LegalHistory(disk') /\ LegalHistory(frame'.mem)
         /\ active' = NoOne => frame' = NoFrame
         /\ active' \in {NoOne, holder'} \/ exists'
         /\ \A p \in Procs : /\ LegalHistory(mem'[p])
                             /\ pc'[p] = "replace" => Writer(p)'
                             /\ holder' = p \/ active' = p => pc'[p] # "idle"
<1> DEFINE Goal == /\ ~exists' => disk' = <<>> /\ frame' = NoFrame
                   /\ LegalHistory(disk') /\ LegalHistory(frame'.mem)
                   /\ active' = NoOne => frame' = NoFrame
                   /\ active' \in {NoOne, holder'} \/ exists'
                   /\ \A p \in Procs : /\ LegalHistory(mem'[p])
                                       /\ pc'[p] = "replace" => Writer(p)'
                                       /\ holder' = p \/ active' = p => pc'[p] # "idle"
<1> SUFFICES Goal
  OBVIOUS
<1> USE DEF files, local, main, Goto, Label
<1>0. /\ disk \in Seq(TaskState) /\ \A p \in Procs : mem[p] \in Seq(TaskState)
      /\ frame.mem \in Seq(TaskState)
      /\ mem \in [Procs -> Seq(TaskState)] /\ pc \in [Procs -> Label]
      /\ NoOne \notin Procs /\ <<>> \in Seq(TaskState)
      /\ LegalHistory(<<>>) /\ LegalHistory(NoFrame.mem)
  <2>1. /\ disk \in Seq(TaskState) /\ frame.mem \in Seq(TaskState)
        /\ mem \in [Procs -> Seq(TaskState)] /\ pc \in [Procs -> Label]
    BY DEF TypeOK, Frame
  <2>2. NoOne \notin Procs
    BY ProcessAssumption DEF Procs
  <2>3. <<>> \in Seq(TaskState) /\ NoFrame.mem = <<>>
    BY DEF NoFrame
  <2>4. QED BY <2>1, <2>2, <2>3, LegalEmpty
<1>1. ASSUME NEW p \in Procs, StartCreate(p) PROVE Goal
  <2>1. /\ UNCHANGED <<exists, disk, frame>> /\ ~exists /\ holder' = p /\ active' = p
        /\ mem' = [mem EXCEPT ![p] = <<>>] /\ pc' = [pc EXCEPT ![p] = "ready"]
        /\ \A q \in Procs : pc[q] = "replace" => ~(holder = q) /\ ~(active = q /\ pc[q] = "idle")
        /\ pc[p] = "idle" /\ holder = NoOne
    BY <1>1, <1>0 DEF StartCreate, MayStart
  <2>2. active \in Procs => pc[active] # "idle"
    BY DEF LockInv
  <2>3. ASSUME NEW q \in Procs, pc'[q] = "replace" PROVE Writer(q)'
    <3>1. q # p /\ pc[q] = "replace" /\ holder # q
      BY <2>1, <2>3, <1>0
    <3>2. Writer(q) /\ active = NoOne
      BY <2>1, <3>1 DEF LockInv
    <3>3. QED BY <3>1, <3>2, <1>0 DEF Writer, Escaped
  <2>4. QED BY <2>1, <2>2, <2>3, <1>0 DEF LockInv
<1>2. ASSUME NEW p \in Procs, StartLoad(p) \/ Acquire(p) PROVE Goal
  <2>1. /\ UNCHANGED <<exists, disk, frame, active>>
        /\ mem' = [mem EXCEPT ![p] = disk] /\ pc' = [pc EXCEPT ![p] = "count"]
        /\ \A q \in Procs : Writer(q) => Writer(q)'
        /\ holder' = holder \/ holder' = p
        /\ exists
    BY <1>2, <1>0 DEF StartLoad, Acquire, ReadState, Writer, Escaped
  <2>2. QED BY <2>1, <1>0 DEF LockInv
<1>3. ASSUME NEW p \in Procs, Idling(p) PROVE Goal
  <2>1. /\ UNCHANGED <<exists, disk, holder, active, frame, mem>>
        /\ \A q \in Procs : pc'[q] = "replace" => pc[q] = "replace"
        /\ \A q \in Procs : pc[q] # "idle" => pc'[q] # "idle"
    BY <1>3, <1>0 DEF Idling, Peek, Count, AppendCreated, AppendTransition, Appended
  <2>2. QED BY <2>1 DEF LockInv, Writer, Escaped
<1>4. ASSUME NEW p \in Procs, NEW t \in TaskState, Transition(p, t) PROVE Goal
  <2>1. /\ CanMove(StateOf(mem[p]), t)
        /\ mem' = [mem EXCEPT ![p] = Append(mem[p], t)]
        /\ UNCHANGED <<exists, disk, holder, pc, active, frame>>
    BY <1>4 DEF Transition
  <2>2. LegalHistory(Append(mem[p], t))
    BY <2>1, <1>0, LegalAppend DEF LockInv
  <2>3. QED BY <2>1, <2>2, <1>0 DEF LockInv, Writer, Escaped
<1>5. ASSUME NEW p \in Procs, BeginWrite(p) PROVE Goal
  <2>1. /\ UNCHANGED <<exists, disk, holder, mem, active>> /\ Writer(p)
        /\ frame'.mem = frame.mem /\ (frame = NoFrame => frame' = NoFrame)
        /\ pc' = [pc EXCEPT ![p] = "replace"]
    <3>1. frame'.mem = frame.mem
      BY <1>5, <1>0 DEF BeginWrite, TypeOK, Frame
    <3>2. frame = NoFrame => frame' = NoFrame
      BY <1>5 DEF BeginWrite, Handling, NoFrame
    <3>3. QED BY <3>1, <3>2, <1>5 DEF BeginWrite, MayBegin
  <2>2. QED BY <2>1, <1>0 DEF LockInv, Writer, Escaped
<1>6. ASSUME NEW p \in Procs, Replace(p) PROVE Goal
  <2>1. /\ disk' = mem[p] /\ exists' = TRUE
        /\ UNCHANGED <<holder, mem, active, frame>>
        /\ \A q \in Procs : pc'[q] = "replace" => pc[q] = "replace"
        /\ \A q \in Procs : pc[q] # "idle" => pc'[q] # "idle"
    BY <1>6, <1>0 DEF Replace
  <2>2. QED BY <2>1, <1>0 DEF LockInv, Writer, Escaped
<1>7. ASSUME NEW p \in Procs, Exit(p), UNCHANGED <<exists, disk>> PROVE Goal
  <2>1. /\ \A q \in Procs \ {p} : pc'[q] = pc[q] /\ mem'[q] = mem[q]
        /\ pc'[p] = "idle" /\ mem'[p] = <<>> /\ holder' # p /\ active' # p
        /\ \A q \in Procs \ {p} : (holder' = q <=> holder = q) /\ (active' = q <=> active = q)
        /\ frame' = frame \/ frame' = NoFrame
        /\ active' = NoOne => frame' = NoFrame
        /\ frame = NoFrame => frame' = NoFrame
        /\ active' \in {NoOne, holder'} \/ exists'
    BY <1>7, <1>0 DEF Exit, LockInv
  <2>2. \A q \in Procs \ {p} : Writer(q) => Writer(q)'
    BY <2>1 DEF Writer, Escaped
  <2>3. QED BY <1>7, <2>1, <2>2, <1>0 DEF LockInv
<1>8. ASSUME NEW p \in Procs, NEW h \in Excepted(Copy(p)), Escape(p, h), exists,
             active = p, holder = p
      PROVE  Goal
  <2>1. Copy(p) \in Seq(TaskState) /\ LegalHistory(Copy(p))
    BY <1>0 DEF Copy, LockInv
  <2>2. LegalHistory(h)
    BY <2>1, ExceptedMoves, LegalAppend
  <2>3. /\ mem' = [mem EXCEPT ![p] = h] /\ holder' = NoOne /\ frame' = NoFrame
        /\ pc' = [pc EXCEPT ![p] = "ready"] /\ UNCHANGED <<exists, disk, active>>
    BY <1>8 DEF Escape
  <2>4. \A q \in Procs \ {p} : Writer(q) => Writer(q)'
    BY <2>3, <1>8 DEF Writer, Escaped
  <2>5. QED BY <1>8, <2>2, <2>3, <2>4, <1>0 DEF LockInv
<1>9. ASSUME NEW p \in Procs, RefuseWrite(p) PROVE Goal
  BY <1>7, <1>8, <1>9 DEF RefuseWrite, Refused
<1>10. ASSUME NEW p \in Procs, Throw(p) PROVE Goal
  BY <1>8, <1>10 DEF Throw, Created, Copy
<1>11. ASSUME NEW p \in Procs, Finish(p) \/ Crash(p) \/ TornCrash(p) PROVE Goal
  BY <1>7, <1>11 DEF Finish, Crash, TornCrash
<1>12. ASSUME NEW p \in Procs, Signal(p) PROVE Goal
  <2>1. LegalHistory(Marked(disk))
    <3>1. "ReadyForExecution" \in TaskState
      BY DEF TaskState
    <3>2. QED BY <3>1, <1>0, MarkedMove, LegalAppend DEF LockInv
  <2>2. /\ exists /\ active = p /\ frame'.mem = mem[p]
        /\ mem' = [mem EXCEPT ![p] = Marked(disk)]
        /\ pc' = [pc EXCEPT ![p] = "count"] /\ UNCHANGED <<exists, disk, holder, active>>
    BY <1>12 DEF Signal, Created
  <2>3. QED BY <2>1, <2>2, <1>0 DEF LockInv, Writer, Escaped
<1>13. ASSUME NEW p \in Procs, HandlerReturn(p) PROVE Goal
  <2>1. /\ active = p /\ frame.pc # "idle" /\ frame' = NoFrame
        /\ mem' = [mem EXCEPT ![p] = frame.mem]
        /\ pc' = [pc EXCEPT ![p] = frame.pc] /\ UNCHANGED <<exists, disk, holder, active>>
    BY <1>13 DEF HandlerReturn, Handling
  <2>2. QED BY <2>1, <1>0 DEF LockInv, Writer, Escaped
<1>14. CASE UNCHANGED vars
  BY <1>14 DEF vars, LockInv, Writer, Escaped
<1>15. QED
  BY <1>1, <1>2, <1>3, <1>4, <1>5, <1>6, <1>9, <1>10, <1>11, <1>12, <1>13, <1>14
  DEF Next, Step, Idling

\* As long as writers do not meet, one step leaves the only one with all of the file.
LEMMA FreshStep ==
  ASSUME TypeOK, TypeOK', LockInv, [Next]_vars, ~crossed'
  PROVE  Fresh'
<1> USE DEF files, local, main, Goto, Label
<1>a. ~crossed /\ ~Crossing' /\ Fresh
  <2>1. CASE Next
    <3>1. ~crossed /\ ~Crossing'
      BY <2>1 DEF Next
    <3>2. QED BY <3>1 DEF LockInv
  <2>2. CASE UNCHANGED vars
    BY <2>2 DEF vars, LockInv, Fresh, Crossing, Writing, Writer, Escaped
  <2>3. QED BY <2>1, <2>2
<1>0. /\ disk \in Seq(TaskState) /\ \A p \in Procs : mem[p] \in Seq(TaskState)
      /\ frame.mem \in Seq(TaskState) /\ \A p \in Procs : Copy(p) \in Seq(TaskState)
      /\ mem \in [Procs -> Seq(TaskState)] /\ pc \in [Procs -> Label]
      /\ NoOne \notin Procs /\ <<>> \in Seq(TaskState)
  <2>1. /\ disk \in Seq(TaskState) /\ frame.mem \in Seq(TaskState)
        /\ mem \in [Procs -> Seq(TaskState)] /\ pc \in [Procs -> Label]
    BY DEF TypeOK, Frame
  <2>2. NoOne \notin Procs
    BY ProcessAssumption DEF Procs
  <2>3. \A p \in Procs : Copy(p) \in Seq(TaskState)
    BY <2>1 DEF Copy
  <2>4. QED BY <2>1, <2>2, <2>3
<1> DEFINE Has(p) == /\ Allowing(Copy(p), disk)
                     /\ active # p => Extends(Copy(p), disk)
           Held(p) == Writing(p) => Has(p)
           Fit(p) == Handling(p) /\ (~frame.wrote \/ pc[p] = "replace")
                       => mem[p] = Marked(disk)
<1>b. /\ ~Crossing
      /\ marked => StateOf(disk) = "ReadyForExecution"
      /\ \A p \in Procs : Held(p) /\ Fit(p)
  BY <1>a DEF Fresh
<1>c. ASSUME marked' => StateOf(disk') = "ReadyForExecution",
             \A p \in Procs : Held(p)' /\ Fit(p)'
      PROVE  Fresh'
  BY <1>a, <1>c DEF Fresh
<1>d. NoFrame.pc = "idle" /\ NoFrame.mem = <<>>
  BY DEF NoFrame
\* A process whose part of the state and the file stay as they are.
<1>e. ASSUME NEW q \in Procs, UNCHANGED <<disk, marked>>, Writing(q)' => Writing(q),
             Copy(q)' = Copy(q), active' = q <=> active = q
      PROVE  Held(q)'
  BY <1>e, <1>b DEF Allowing
<1>f. ASSUME NEW q \in Procs, UNCHANGED <<disk, marked>>, Writing(q)' => Copy(q)' = disk
      PROVE  Held(q)'
  BY <1>f, <1>0, AllowingMore, ExtendsItself DEF Allowing
<1>1. ASSUME NEW p \in Procs, StartCreate(p) PROVE Fresh'
  <2>1. /\ UNCHANGED <<disk, marked, frame>> /\ disk = <<>> /\ frame = NoFrame
        /\ mem' = [mem EXCEPT ![p] = <<>>] /\ pc' = [pc EXCEPT ![p] = "ready"]
        /\ holder' = p /\ active' = p /\ holder = NoOne /\ p \in Runners
    BY <1>1 DEF StartCreate, LockInv
  <2>2. \A q \in Procs : Fit(q)'
    BY <2>1, <1>d DEF Handling
  <2>3. Held(p)'
    BY <2>1, <1>d, <1>0, <1>f DEF Copy, Handling
  <2>4. ASSUME NEW q \in Procs, q # p, Writing(q)' PROVE FALSE
    <3>1. Writing(p)'
      BY <2>1, <1>0 DEF Writing, Writer
    <3>2. QED BY <2>4, <3>1, <1>a DEF Crossing
  <2>5. \A q \in Procs : Held(q)'
    BY <2>3, <2>4
  <2>6. QED BY <2>1, <2>2, <2>5, <1>b, <1>c
<1>2. ASSUME NEW p \in Procs, StartLoad(p) \/ Acquire(p) PROVE Fresh'
  <2>1. /\ UNCHANGED <<exists, disk, marked, frame, active>> /\ active # p
        /\ mem' = [mem EXCEPT ![p] = disk] /\ pc' = [pc EXCEPT ![p] = "count"]
        /\ holder' = holder \/ holder' = p
    BY <1>2, <1>0 DEF StartLoad, Acquire, ReadState, MayStart, LockInv
  <2>2. ASSUME NEW q \in Procs PROVE Fit(q)'
    BY <2>1, <1>0, <1>b DEF Handling
  <2>3. Held(p)'
    BY <2>1, <1>0, <1>f DEF Copy, Handling
  <2>4. ASSUME NEW q \in Procs, q # p PROVE Held(q)'
    <3>1. Writing(q)' => Writing(q)
      BY <2>1, <2>4, <1>0, <1>2 DEF Writing, Writer, Escaped, StartLoad, Acquire
    <3>2. Copy(q)' = Copy(q)
      BY <2>1, <2>4, <1>0 DEF Copy, Handling
    <3>3. QED BY <2>1, <3>1, <3>2, <1>e
  <2>5. QED BY <2>1, <2>2, <2>3, <2>4, <1>b, <1>c
<1>3. ASSUME NEW p \in Procs, Idling(p) PROVE Fresh'
  <2>1. /\ UNCHANGED <<exists, disk, marked, holder, active, frame, mem>>
        /\ \A q \in Procs : pc'[q] = "replace" => pc[q] = "replace"
        /\ \A q \in Procs : pc'[q] # "idle" => pc[q] # "idle"
    BY <1>3, <1>0 DEF Idling, Peek, Count, AppendCreated, AppendTransition, Appended
  <2>2. ASSUME NEW q \in Procs PROVE Held(q)' /\ Fit(q)'
    <3>1. Fit(q)'
      BY <2>1, <1>b DEF Handling
    <3>2. (Writing(q)' => Writing(q)) /\ Copy(q)' = Copy(q)
      BY <2>1 DEF Writing, Writer, Escaped, Copy, Handling
    <3>3. QED BY <2>1, <3>1, <3>2, <1>e
  <2>3. QED BY <2>1, <2>2, <1>b, <1>c
\* The writer p goes on with its copy, or with one more move in it.
<1>4. ASSUME NEW p \in Procs, Writing(p), UNCHANGED <<disk, marked, active>>,
             \/ Copy(p)' = Copy(p)
             \/ \E t \in TaskState : Copy(p)' = Append(Copy(p), t)
      PROVE  Held(p)'
  <2>1. Has(p)
    BY <1>4, <1>b
  <2>2. Allowing(Copy(p)', disk) /\ (active # p => Extends(Copy(p)', disk))
    BY <1>4, <2>1, <1>0, AllowingMore
  <2>3. QED BY <1>4, <2>2 DEF Allowing
<1>5. ASSUME NEW p \in Procs, NEW t \in TaskState, Transition(p, t) PROVE Fresh'
  <2>1. /\ mem' = [mem EXCEPT ![p] = Append(mem[p], t)] /\ ~Handling(p)
        /\ UNCHANGED <<exists, disk, marked, holder, pc, active, frame>>
        /\ Writing(p)
    BY <1>5 DEF Transition, Writing, Writer
  <2>2. ASSUME NEW q \in Procs, q # p PROVE Held(q)' /\ Fit(q)'
    <3>1. /\ Fit(q)' /\ (Writing(q)' => Writing(q)) /\ Copy(q)' = Copy(q)
      BY <2>1, <2>2, <1>0, <1>b DEF Handling, Writing, Writer, Escaped, Copy
    <3>2. QED BY <2>1, <3>1, <1>e
  <2>3. Copy(p)' = Append(Copy(p), t) /\ ~Handling(p)'
    BY <2>1, <1>0 DEF Copy, Handling
  <2>4. Held(p)' /\ Fit(p)'
    BY <2>1, <2>3, <1>4
  <2>5. QED BY <2>1, <2>2, <2>4, <1>b, <1>c
<1>6. ASSUME NEW p \in Procs, BeginWrite(p) PROVE Fresh'
  <2>1. /\ UNCHANGED <<exists, disk, marked, holder, mem, active>> /\ Writing(p)
        /\ frame'.mem = frame.mem /\ frame'.pc = frame.pc
        /\ ~Handling(p) => frame' = frame
        /\ Handling(p) => ~frame.wrote
        /\ pc' = [pc EXCEPT ![p] = "replace"]
    BY <1>6, <1>0 DEF BeginWrite, MayBegin, Writing, TypeOK, Frame
  <2>2. ASSUME NEW q \in Procs PROVE Handling(q)' = Handling(q) /\ Copy(q)' = Copy(q)
    BY <2>1 DEF Handling, Copy
  <2>3. ASSUME NEW q \in Procs, q # p PROVE Held(q)' /\ Fit(q)'
    <3>1. Handling(q) => ~Handling(p)
      BY <2>3 DEF Handling
    <3>2. Fit(q)' /\ (Writing(q)' => Writing(q))
      BY <2>1, <2>2, <2>3, <3>1, <1>0, <1>b DEF Writing, Writer, Escaped
    <3>3. QED BY <2>1, <2>2, <3>2, <1>e
  <2>4. Held(p)' /\ Fit(p)'
    BY <2>1, <2>2, <1>4, <1>b
  <2>5. QED BY <2>1, <2>3, <2>4, <1>b, <1>c
<1>7. ASSUME NEW p \in Procs, Replace(p) PROVE Fresh'
  <2>1. /\ disk' = mem[p] /\ UNCHANGED <<holder, mem, active, frame>>
        /\ pc[p] = "replace" /\ pc' = [pc EXCEPT ![p] = "append"]
        /\ marked' = (Handling(p) /\ (marked \/ mem[p] # disk))
    BY <1>7 DEF Replace
  <2>2. Writing(p)
    BY <2>1 DEF LockInv, Writing
  <2>3. ASSUME NEW q \in Procs, q # p PROVE ~Writing(q)'
    <3>1. ~Writing(q)
      BY <2>2, <2>3, <1>b DEF Crossing
    <3>2. QED BY <3>1, <2>1, <2>3, <1>0 DEF Writing, Writer, Escaped
  <2>4. ASSUME NEW q \in Procs PROVE Handling(q)' = Handling(q) /\ Copy(q)' = Copy(q)
    BY <2>1 DEF Handling, Copy
  <2>5. ASSUME NEW q \in Procs, q # p PROVE Held(q)' /\ Fit(q)'
    <3>1. ~Handling(q)
      BY <2>1, <2>3, <2>5, <1>0 DEF Handling, Writing, Writer, Escaped, LockInv
    <3>2. QED BY <2>3, <2>4, <2>5, <3>1
  <2>6. CASE ~Handling(p)
    <3>1. ~marked' /\ Copy(p)' = disk' /\ ~Handling(p)'
      BY <2>1, <2>4, <2>6 DEF Copy
    <3>2. Extends(Copy(p)', disk')
      BY <2>1, <3>1, <1>0, ExtendsItself
    <3>3. Held(p)' /\ Fit(p)'
      BY <3>1, <3>2 DEF Allowing
    <3>4. QED BY <2>5, <3>1, <3>3, <1>c
  <2>7. CASE Handling(p) /\ Marked(disk) = disk
    <3>1. mem[p] = disk /\ UNCHANGED <<disk, marked>>
      BY <2>1, <2>7, <1>b DEF TypeOK
    <3>2. Held(p)' /\ Fit(p)'
      <4>1. Fit(p)'
        BY <3>1, <2>1, <2>7
      <4>2. QED BY <3>1, <2>2, <2>4, <2>1, <4>1, <1>4
    <3>3. QED BY <2>5, <3>1, <3>2, <1>b, <1>c
  <2>8. CASE Handling(p) /\ Marked(disk) # disk
    <3> DEFINE k == Marked(disk)
    <3>1. mem[p] = k /\ disk' = k /\ marked'
      BY <2>1, <2>8, <1>b DEF TypeOK
    <3>2. /\ StateOf(k) = "ReadyForExecution" /\ Len(k) > 0
          /\ SubSeq(k, 1, Len(k) - 1) = disk /\ Marked(k) = k
          /\ StateOf(disk) # "ReadyForExecution"
      BY <2>8, <1>0, MarkedMove
    <3>3. Extends(Copy(p), disk) /\ active = p
      <4>1. Has(p) /\ ~marked
        BY <2>2, <3>2, <1>b
      <4>2. QED BY <4>1, <2>8 DEF Allowing, Handling
    <3> HIDE DEF k
    <3>4. Allowing(Copy(p), disk)'
      BY <2>4, <3>1, <3>2, <3>3 DEF Allowing
    <3>5. Held(p)' /\ Fit(p)'
      <4>1. Fit(p)'
        BY <3>1, <3>2, <2>1
      <4>2. QED BY <3>3, <3>4, <2>1, <4>1
    <3>6. QED BY <2>5, <3>1, <3>2, <3>5, <1>c
  <2>9. QED BY <2>6, <2>7, <2>8
<1>8. ASSUME NEW p \in Procs, Exit(p), UNCHANGED <<exists, disk, marked>> PROVE Fresh'
  <2>1. /\ \A q \in Procs \ {p} : pc'[q] = pc[q] /\ mem'[q] = mem[q]
        /\ pc'[p] = "idle" /\ active' # p
        /\ \A q \in Procs \ {p} : (holder' = q <=> holder = q) /\ (active' = q <=> active = q)
        /\ active = p \/ frame' = frame
    BY <1>8, <1>0 DEF Exit
  <2>2. ASSUME NEW q \in Procs, q # p PROVE Held(q)' /\ Fit(q)'
    <3>1. Handling(q)' = Handling(q) /\ (Handling(q) => frame' = frame)
      BY <2>1, <2>2 DEF Handling
    <3>2. Copy(q)' = Copy(q) /\ (Writing(q)' => Writing(q))
      BY <2>1, <2>2, <3>1 DEF Copy, Writing, Writer, Escaped
    <3>3. Fit(q)'
      BY <2>1, <2>2, <3>1, <1>8, <1>b
    <3>4. QED BY <2>1, <2>2, <3>2, <3>3, <1>8, <1>e
  <2>3. Held(p)' /\ Fit(p)'
    BY <2>1 DEF Writing, Handling
  <2>4. QED BY <2>2, <2>3, <1>8, <1>b, <1>c
<1>9. ASSUME NEW p \in Procs, NEW h \in Excepted(Copy(p)), Escape(p, h), exists,
             active = p, holder = p, pc[p] = "ready"
      PROVE  Fresh'
  <2>1. /\ mem' = [mem EXCEPT ![p] = h] /\ holder' = NoOne /\ frame' = NoFrame
        /\ pc' = [pc EXCEPT ![p] = "ready"] /\ UNCHANGED <<exists, disk, marked, active>>
        /\ Writing(p)
    BY <1>9 DEF Escape, Writing, Writer
  <2>2. ASSUME NEW q \in Procs, q # p PROVE Held(q)' /\ Fit(q)'
    <3>1. ~Handling(q)' /\ ~Handling(q)
      BY <2>1, <2>2, <1>9 DEF Handling
    <3>2. Copy(q)' = Copy(q) /\ (Writing(q)' => Writing(q))
      BY <2>1, <2>2, <3>1, <1>9, <1>0 DEF Copy, Writing, Writer, Escaped
    <3>3. QED BY <2>1, <3>1, <3>2, <1>e
  <2>3. Copy(p)' = h /\ ~Handling(p)'
    BY <2>1, <1>0, <1>d DEF Copy, Handling
  <2>4. h = Copy(p) \/ \E t \in TaskState : h = Append(Copy(p), t)
    BY <1>0, <1>9, ExceptedMoves
  <2>5. Held(p)' /\ Fit(p)'
    BY <2>1, <2>3, <2>4, <1>4
  <2>6. QED BY <2>1, <2>2, <2>5, <1>b, <1>c
<1>10. ASSUME NEW p \in Procs, RefuseWrite(p) PROVE Fresh'
  BY <1>8, <1>9, <1>10 DEF RefuseWrite, Refused, MayBegin
<1>11. ASSUME NEW p \in Procs, Throw(p) PROVE Fresh'
  BY <1>9, <1>11 DEF Throw, Created, Copy
<1>12. ASSUME NEW p \in Procs, Finish(p) \/ Crash(p) \/ TornCrash(p) PROVE Fresh'
  BY <1>8, <1>12 DEF Finish, Crash, TornCrash
<1>13. ASSUME NEW p \in Procs, Signal(p) PROVE Fresh'
  <2>1. /\ active = p /\ frame'.mem = mem[p] /\ ~Handling(p)
        /\ mem' = [mem EXCEPT ![p] = Marked(disk)] /\ frame'.pc = pc[p]
        /\ pc' = [pc EXCEPT ![p] = "count"]
        /\ UNCHANGED <<exists, disk, marked, holder, active>>
    BY <1>13 DEF Signal, Created
  <2>2. pc[p] # "idle" /\ Writing(p)
    BY <2>1 DEF LockInv, Writing, Writer, Escaped
  <2>3. ASSUME NEW q \in Procs, q # p PROVE Held(q)' /\ Fit(q)'
    <3>1. ~Handling(q)' /\ ~Handling(q)
      BY <2>1, <2>3 DEF Handling
    <3>2. Copy(q)' = Copy(q) /\ (Writing(q)' => Writing(q))
      BY <2>1, <2>3, <3>1, <1>0 DEF Copy, Writing, Writer, Escaped
    <3>3. QED BY <2>1, <3>1, <3>2, <1>e
  <2>4. Copy(p)' = Copy(p) /\ mem'[p] = Marked(disk)
    BY <2>1, <2>2, <1>0 DEF Copy, Handling
  <2>5. Held(p)' /\ Fit(p)'
    BY <2>1, <2>2, <2>4, <1>4
  <2>6. QED BY <2>1, <2>3, <2>5, <1>b, <1>c
<1>14. ASSUME NEW p \in Procs, HandlerReturn(p) PROVE Fresh'
  <2>1. /\ active = p /\ Handling(p) /\ frame' = NoFrame /\ pc[p] = "ready"
        /\ mem' = [mem EXCEPT ![p] = frame.mem]
        /\ pc' = [pc EXCEPT ![p] = frame.pc]
        /\ UNCHANGED <<exists, disk, marked, holder, active>>
    BY <1>14 DEF HandlerReturn, Handling
  <2>2. Writing(p)
    BY <2>1 DEF Writing, Writer, Escaped
  <2>3. ASSUME NEW q \in Procs, q # p PROVE Held(q)' /\ Fit(q)'
    <3>1. ~Handling(q)' /\ ~Handling(q)
      BY <2>1, <2>3 DEF Handling
    <3>2. Copy(q)' = Copy(q) /\ (Writing(q)' => Writing(q))
      BY <2>1, <2>3, <3>1, <1>0 DEF Copy, Writing, Writer, Escaped
    <3>3. QED BY <2>1, <3>1, <3>2, <1>e
  <2>4. Copy(p)' = Copy(p) /\ ~Handling(p)'
    BY <2>1, <1>0, <1>d DEF Copy, Handling
  <2>5. Held(p)' /\ Fit(p)'
    BY <2>1, <2>2, <2>4, <1>4
  <2>6. QED BY <2>1, <2>3, <2>5, <1>b, <1>c
<1>15. CASE UNCHANGED vars
  BY <1>15, <1>a DEF vars, Fresh, Crossing, Writing, Writer, Escaped, Handling, Copy, Allowing
<1>16. QED
  BY <1>1, <1>2, <1>3, <1>5, <1>6, <1>7, <1>10, <1>11, <1>12, <1>13, <1>14, <1>15
  DEF Next, Step, Idling

\* LockInv holds before the run is created.
LEMMA LockInit == Init => LockInv
<1> SUFFICES ASSUME Init PROVE LockInv
  OBVIOUS
<1>1. /\ disk = <<>> /\ holder = NoOne /\ active = NoOne /\ NoOne \notin Procs
      /\ frame = NoFrame /\ ~marked
  BY ProcessAssumption DEF Init, Procs
<1>2. \A p \in Procs : mem[p] = <<>> /\ pc[p] = "idle"
  BY DEF Init
<1>3. LegalHistory(frame.mem)
  BY <1>1, LegalEmpty DEF NoFrame
<1>4. Fresh
  BY <1>1, <1>2 DEF Fresh, Crossing, Writing, Handling
<1>5. QED BY <1>1, <1>2, <1>3, <1>4, LegalEmpty DEF LockInv

\* LockInv holds for any processes, whoever locks, with crashes, signals, exceptions.
LEMMA LockInvariant == Spec => []LockInv
<1>1. Init => LockInv
  BY LockInit
<1>2. TypeOK /\ TypeOK' /\ LockInv /\ [Next]_vars => LockInv'
  BY LegalStep, FreshStep DEF LockInv
<1>3. QED BY <1>1, <1>2, TypeCorrect, PTL DEF Spec

\* Until writers meet without the lock, whoever writes the run has in its copy every
\* transition on disk, but at most the mark of its own signal handler.
THEOREM NothingLost == Spec => []NoLostTransition
<1>1. LockInv => NoLostTransition
  BY DEF LockInv, Fresh, NoLostTransition
<1>2. QED BY <1>1, LockInvariant, PTL

\* What one step does to state.json until writers meet.
LEMMA DiskStep ==
  ASSUME TypeOK, LockInv, [Next]_vars, ~crossed'
  PROVE  \/ UNCHANGED <<exists, disk, marked>>
         \/ /\ exists' = TRUE /\ disk' \in Seq(TaskState) /\ LegalHistory(disk')
            /\ \/ Extends(disk', disk) /\ marked' = FALSE
               \/ /\ Marked(disk) # disk /\ disk' = Marked(disk)
                  /\ marked' = TRUE /\ exists
               \/ /\ marked /\ Len(disk) > 0 /\ marked' = FALSE
                  /\ Extends(disk', SubSeq(disk, 1, Len(disk) - 1))
<1> USE DEF files
<1>1. ASSUME NEW p \in Procs, Replace(p)
      PROVE  \/ UNCHANGED <<exists, disk, marked>>
             \/ /\ exists' = TRUE /\ disk' \in Seq(TaskState) /\ LegalHistory(disk')
                /\ \/ Extends(disk', disk) /\ marked' = FALSE
                   \/ /\ Marked(disk) # disk /\ disk' = Marked(disk)
                      /\ marked' = TRUE /\ exists
                   \/ /\ marked /\ Len(disk) > 0 /\ marked' = FALSE
                      /\ Extends(disk', SubSeq(disk, 1, Len(disk) - 1))
  <2>1. /\ disk' = mem[p] /\ exists' = TRUE /\ pc[p] = "replace"
        /\ marked' = (Handling(p) /\ (marked \/ mem[p] # disk))
    BY <1>1 DEF Replace
  <2>2. /\ disk' \in Seq(TaskState) /\ LegalHistory(disk') /\ Writing(p)
    BY <2>1 DEF LockInv, TypeOK, Writing
  <2>3. Fresh
    BY DEF LockInv, Next, vars
  <2>4. CASE Handling(p)
    <3>1. mem[p] = Marked(disk)
      BY <2>1, <2>3, <2>4 DEF Fresh
    <3>2. exists
      BY <2>4 DEF LockInv, Handling, NoFrame
    <3>3. CASE Marked(disk) = disk
      BY <2>1, <2>4, <3>1, <3>2, <3>3 DEF TypeOK
    <3>4. CASE Marked(disk) # disk
      BY <2>1, <2>2, <2>4, <3>1, <3>2, <3>4
    <3>5. QED BY <3>3, <3>4
  <2>5. CASE ~Handling(p)
    <3>1. Allowing(mem[p], disk)
      BY <2>2, <2>3, <2>5 DEF Fresh, Copy
    <3>2. QED BY <2>1, <2>2, <2>5, <3>1 DEF Allowing
  <2>6. QED BY <2>4, <2>5
<1>2. ASSUME NEW p \in Procs, Step(p) \/ Crash(p) \/ TornCrash(p), ~Replace(p)
      PROVE  UNCHANGED <<exists, disk, marked>>
  BY <1>2 DEF Step, Crash, TornCrash, StartCreate, StartLoad, Acquire, Peek, Count,
     AppendCreated, AppendTransition, Appended, Transition, BeginWrite, RefuseWrite,
     Finish, Signal, HandlerReturn, Throw, Escape
<1>3. CASE UNCHANGED vars
  BY <1>3 DEF vars
<1>4. QED BY <1>1, <1>2, <1>3 DEF Next

\* The instance of the abstract history speaks of the same states and moves.
LEMMA SameVocabulary ==
  /\ History!TaskState = TaskState
  /\ History!Terminal = Terminal
  /\ \A h : History!LegalHistory(h) <=> LegalHistory(h)
  /\ \A h, g : History!Extends(h, g) <=> Extends(h, g)
  /\ \A h : History!StateOf(h) = StateOf(h)
<1>1. /\ History!TaskState = TaskState /\ History!Terminal = Terminal
      /\ History!InitialState = InitialState
  BY DEF TaskState, Terminal, InitialState,
     History!TaskState, History!Terminal, History!InitialState
<1>2. History!Allowed = Allowed
  BY <1>1 DEF Allowed, History!Allowed
<1>3. \A s, t : History!CanMove(s, t) <=> CanMove(s, t)
  BY <1>1, <1>2 DEF CanMove, CanTransition, CanRecover,
     History!CanMove, History!CanTransition, History!CanRecover
<1>4. \A h, i : History!StateAfter(h, i) = StateAfter(h, i)
  BY <1>1 DEF StateAfter, History!StateAfter
<1>5. QED
  BY <1>1, <1>3, <1>4 DEF LegalHistory, Extends, StateOf,
     History!LegalHistory, History!Extends, History!StateOf

\* Until writers meet state.json implements the abstract history: created once, growing
\* by legal moves, from which only the mark of an interruption is taken back.
THEOREM StoreImplementsHistory == Spec => HistorySpec
<1>1. Init => History!HInit
  BY DEF Init, History!HInit
<1>2. TypeOK /\ TypeOK' /\ LockInv /\ [Next]_vars => [History!HNext]_(History!hvars)
  <2> SUFFICES ASSUME TypeOK, TypeOK', LockInv, [Next]_vars,
                      ~UNCHANGED <<exists, disk, marked, crossed>>
               PROVE  History!HNext
    BY DEF History!hvars
  <2>1. crossed => crossed'
    BY DEF Next, vars
  <2>2. disk' \in Seq(TaskState) /\ LegalHistory(disk')
    BY LegalStep DEF TypeOK
  <2>3. CASE crossed'
    BY <2>1, <2>2, <2>3, SameVocabulary DEF History!HNext
  <2>4. CASE ~crossed'
    <3>0. ~UNCHANGED <<exists, disk, marked>> /\ Fresh
      <4>1. ~crossed
        BY <2>1, <2>4
      <4>2. QED BY <4>1, <2>4 DEF LockInv, TypeOK
    <3>1. exists' = TRUE
      BY <3>0, <2>4, DiskStep
    <3>2. CASE ~exists
      <4>1. marked' = FALSE
        BY <3>0, <3>2, <2>4, DiskStep
      <4>2. History!Create(disk')
        BY <3>1, <3>2, <4>1 DEF History!Create
      <4>3. QED BY <2>1, <2>2, <4>2, SameVocabulary DEF History!HNext
    <3>3. CASE exists
      <4>0. exists' = exists
        BY <3>1, <3>3 DEF TypeOK
      <4>1. CASE Extends(disk', disk) /\ marked' = FALSE
        <5>1. StateOf(disk) \notin Terminal
          <6>1. SUFFICES ASSUME StateOf(disk) \in Terminal PROVE FALSE
            OBVIOUS
          <6>2. disk' = disk
            BY <2>2, <4>1, <6>1, FinishedHistoryEnds DEF TypeOK
          <6>3. marked
            BY <3>0, <4>0, <4>1, <6>2 DEF TypeOK
          <6>4. QED BY <6>1, <6>3, <3>0 DEF Fresh, Terminal
        <5>2. History!Extend(disk')
          BY <3>3, <4>0, <4>1, <5>1, SameVocabulary DEF History!Extend
        <5>3. QED BY <2>1, <2>2, <5>2, SameVocabulary DEF History!HNext
      <4>2. CASE Marked(disk) # disk /\ disk' = Marked(disk) /\ marked' = TRUE
        <5>1. History!Interrupt
          BY <3>3, <4>0, <4>2, MarkedMove, SameVocabulary DEF History!Interrupt, TypeOK
        <5>2. QED BY <2>1, <2>2, <5>1, SameVocabulary DEF History!HNext
      <4>3. CASE /\ marked /\ Len(disk) > 0 /\ marked' = FALSE
                 /\ Extends(disk', SubSeq(disk, 1, Len(disk) - 1))
        <5>1. disk # <<>>
          BY <4>3
        <5>2. History!GoOn(disk')
          BY <4>0, <4>3, <5>1, SameVocabulary DEF History!GoOn
        <5>3. QED BY <2>1, <2>2, <5>2, SameVocabulary DEF History!HNext
      <4>4. QED BY <3>0, <2>4, <4>1, <4>2, <4>3, DiskStep
    <3>4. QED BY <3>2, <3>3
  <2>5. QED BY <2>3, <2>4
<1>3. QED BY <1>1, <1>2, TypeCorrect, LockInvariant, PTL DEF Spec, HistorySpec, History!HSpec

\* "Terminal runs are immutable", as long as no writer without the lock met another.
THEOREM TerminalRunsImmutable == Spec => TerminalImmutable
<1>1. TypeOK /\ LockInv /\ [Next]_vars
        => [exists /\ StateOf(disk) \in Terminal /\ ~crossed' => disk' = disk]_vars
  <2> SUFFICES ASSUME TypeOK, LockInv, [Next]_vars, StateOf(disk) \in Terminal, ~crossed'
               PROVE  disk' = disk
    OBVIOUS
  <2>1. Fresh
    BY DEF LockInv, Next, vars
  <2>2. ~marked
    BY <2>1 DEF Fresh, Terminal
  <2>3. Marked(disk) = disk
    BY DEF Marked
  <2>4. QED BY <2>2, <2>3, DiskStep, FinishedHistoryEnds DEF TypeOK
<1>2. QED BY <1>1, TypeCorrect, LockInvariant, PTL DEF Spec, TerminalImmutable
-------------------------------------------------------------------------------
\* Two histories of one length that agree entry by entry are equal.
LEMMA ExtendsSameLength ==
  ASSUME NEW g \in Seq(TaskState), NEW h \in Seq(TaskState),
         Extends(h, g), Len(h) <= Len(g)
  PROVE  h = g
<1>1. Len(h) = Len(g) /\ \A i \in 1..Len(g) : h[i] = g[i]
  BY DEF Extends
<1>2. QED BY <1>1

\* Appending to the log the entry it lacks first keeps it a prefix.
LEMMA ExtendsByNext ==
  ASSUME NEW g \in Seq(TaskState), NEW h \in Seq(TaskState),
         Extends(h, g), Len(g) + 1 <= Len(h)
  PROVE  Extends(h, Append(g, h[Len(g) + 1])) /\ h[Len(g) + 1] \in TaskState
BY DEF Extends

\* LogInv holds before the run is created.
LEMMA LogInit == Init => LogInv
<1> SUFFICES ASSUME Init PROVE LogInv
  OBVIOUS
<1>1. disk = <<>> /\ log = <<>> /\ created = 0 /\ ~exists /\ ~torn
      /\ frame = NoFrame
  BY DEF Init
<1>2. \A p \in Procs : pc[p] = "idle"
  BY DEF Init
<1>3. LogIsPrefix
  <2>1. Extends(<<>>, <<>>)
    BY DEF Extends
  <2>2. QED BY <1>1, <2>1 DEF LogIsPrefix
<1>4. ASSUME NEW p \in Procs
      PROVE  /\ pc[p] # "count" /\ pc[p] # "append"
             /\ pc[p] # "ready" /\ pc[p] # "replace" /\ ~(pc[p] # "idle")
  BY <1>2
<1>5. \A p, q \in Procs : pc[p] # "idle" /\ pc[q] # "idle" => p = q
  BY <1>2
<1>6. QED BY <1>1, <1>3, <1>4, <1>5 DEF LogInv, Alone, Appending

\* One process at a time, no torn line, no signal: what is left to append stays right.
LEMMA LogStep ==
  ASSUME Overlap = FALSE, MaxTorn = 0, TypeOK, TypeOK', Alone, Appending, signals' = 0,
         [Next]_vars
  PROVE  Appending'
<1> USE DEF files, local, main, Goto, Label
<1>0. /\ disk \in Seq(TaskState) /\ log \in Seq(TaskState)
      /\ \A p \in Procs : mem[p] \in Seq(TaskState) /\ src[p] \in Seq(TaskState)
      /\ mem \in [Procs -> Seq(TaskState)] /\ src \in [Procs -> Seq(TaskState)]
      /\ pc \in [Procs -> Label] /\ pos \in [Procs -> Nat \ {0}]
      /\ owe \in [Procs -> BOOLEAN] /\ created \in Nat
      /\ exists \in BOOLEAN /\ torn \in BOOLEAN /\ <<>> \in Seq(TaskState)
      /\ signals \in Nat
  BY DEF TypeOK
<1>e. ASSUME NEW p \in Procs
      PROVE  ~Handling(p) /\ Copy(p) = mem[p] /\ ~HandlerReturn(p) /\ ~TornCrash(p)
  BY <1>0 DEF Handling, Copy, HandlerReturn, TornCrash, Appending, NoFrame, TypeOK
<1>f. /\ frame' = NoFrame /\ signals = 0
      /\ ~\E p \in Procs : Signal(p)
  <2>1. signals' = signals \/ signals' = signals + 1
    BY <1>e DEF Next, Step, StartCreate, StartLoad, Acquire, Peek, Count, AppendCreated,
       AppendTransition, Appended, Transition, BeginWrite, RefuseWrite, Replace, Finish,
       Crash, TornCrash, Signal, HandlerReturn, Throw, Escape, vars
  <2>2. signals = 0
    BY <2>1, <1>0
  <2>3. ~\E p \in Procs : Signal(p)
    BY <2>2 DEF Signal
  <2>4. frame' = NoFrame
    BY <1>e, <2>3 DEF Next, Step, StartCreate, StartLoad, Acquire, Peek, Count, AppendCreated,
       AppendTransition, Appended, Transition, BeginWrite, RefuseWrite, Replace, Finish,
       Crash, TornCrash, HandlerReturn, Throw, Escape, Exit, Appending, vars
  <2>5. QED BY <2>2, <2>3, <2>4
<1>1. ASSUME NEW p \in Procs, StartCreate(p) PROVE Appending'
  <2>1. /\ ~exists /\ UNCHANGED files /\ mem' = [mem EXCEPT ![p] = <<>>]
        /\ pc' = [pc EXCEPT ![p] = "ready"] /\ \A q \in Procs : pc[q] = "idle"
    BY <1>1 DEF StartCreate, MayStart
  <2>2. Extends(mem'[p], disk) /\ pc'[p] = "ready"
    BY <2>1, <1>0, ExtendsItself DEF Appending, Alone
  <2>3. \A q \in Procs : q # p => pc'[q] = "idle"
    BY <2>1, <1>0
  <2>4. QED BY <1>f, <2>1, <2>2, <2>3 DEF Appending, Alone, LogIsPrefix
<1>2. ASSUME NEW p \in Procs,
             \/ StartLoad(p) \/ Acquire(p) \/ Peek(p)
      PROVE  Appending'
  <2>1. /\ UNCHANGED files /\ src' = [src EXCEPT ![p] = disk]
        /\ pc' = [pc EXCEPT ![p] = "count"]
        /\ mem' = mem \/ mem' = [mem EXCEPT ![p] = disk]
        /\ pc[p] = "idle" => mem' = [mem EXCEPT ![p] = disk]
    BY <1>2, <1>0 DEF StartLoad, ReadState, Acquire, Peek, MayStart
  <2>2. \A q \in Procs : q # p => pc[q] = "idle"
    BY <1>2 DEF StartLoad, Acquire, Peek, MayStart, Appending, Alone
  <2>3. exists
    BY <1>2, <1>0 DEF StartLoad, Acquire, Peek
  <2>4. Extends(mem'[p], disk) /\ src'[p] = disk /\ pc'[p] = "count"
    BY <2>1, <1>0, ExtendsItself DEF Appending, Alone
  <2>5. \A q \in Procs : q # p => pc'[q] = "idle"
    BY <2>1, <2>2, <1>0
  <2>6. QED BY <1>f, <2>1, <2>3, <2>4, <2>5 DEF Appending, Alone, LogIsPrefix
<1>3. ASSUME NEW p \in Procs, Count(p) PROVE Appending'
  <2>1. /\ UNCHANGED <<files, mem, src>> /\ pc[p] = "count"
        /\ pos' = [pos EXCEPT ![p] = Len(log) + 1]
        /\ owe' = [owe EXCEPT ![p] = (created = 0)]
        /\ pc' = [pc EXCEPT ![p] = "append"]
    BY <1>3 DEF Count
  <2>2. /\ pc'[p] = "append" /\ pos'[p] = Len(log) + 1 /\ (owe'[p] <=> created = 0)
        /\ exists /\ src[p] = disk /\ Extends(mem[p], disk)
    BY <2>1, <1>0 DEF Appending, Alone
  <2>3. \A q \in Procs : q # p => pc[q] = "idle" /\ pc'[q] = "idle"
    BY <2>1, <1>0 DEF Appending, Alone
  <2>4. QED BY <1>f, <2>1, <2>2, <2>3 DEF Appending, Alone, LogIsPrefix
<1>4. ASSUME NEW p \in Procs, AppendCreated(p) PROVE Appending'
  <2>1. /\ UNCHANGED <<exists, disk, log, pc, mem, src, pos>>
        /\ pc[p] = "append" /\ owe[p] /\ created' = created + 1 /\ ~torn'
        /\ owe' = [owe EXCEPT ![p] = FALSE]
    BY <1>4, <1>0 DEF AppendCreated, Appending, Alone
  <2>2. /\ created = 0 /\ created' = 1 /\ ~owe'[p]
        /\ exists /\ src[p] = disk /\ Extends(mem[p], disk)
        /\ pos[p] = Len(log) + 1
    BY <2>1, <1>0 DEF Appending, Alone
  <2>3. \A q \in Procs : q # p => pc[q] = "idle"
    BY <2>1, <1>0 DEF Appending, Alone
  <2>4. \A q \in Procs : q # p => /\ pc'[q] # "count" /\ pc'[q] # "append"
                                  /\ pc'[q] # "ready" /\ pc'[q] # "replace"
    BY <2>1, <2>3
  <2>5. LogIsPrefix'
    <3>1. created' <= 1
      BY <2>2
    <3>2. QED BY <1>f, <2>1, <3>1 DEF LogIsPrefix, Appending
  <2>6. \A q, r \in Procs : pc'[q] # "idle" /\ pc'[r] # "idle" => q = r
    BY <2>1 DEF Appending, Alone
  <2>7. /\ pc'[p] = "append" /\ pc'[p] # "count" /\ pc'[p] # "ready" /\ pc'[p] # "replace"
        /\ (owe'[p] <=> created' = 0)
    BY <2>1, <2>2
  <2>8. QED BY <1>f, <2>1, <2>2, <2>3, <2>4, <2>5, <2>6, <2>7, Zenon DEF Appending, Alone
<1>5. ASSUME NEW p \in Procs, AppendTransition(p) PROVE Appending'
  <2>1. /\ UNCHANGED <<exists, disk, created, pc, mem, src, owe>>
        /\ pc[p] = "append" /\ pos[p] <= Len(src[p]) /\ ~torn'
        /\ log' = Append(log, src[p][pos[p]])
        /\ pos' = [pos EXCEPT ![p] = pos[p] + 1]
    BY <1>5, <1>0 DEF AppendTransition, Appending, Alone
  <2>2. /\ exists /\ src[p] = disk /\ Extends(mem[p], disk)
        /\ pos[p] = Len(log) + 1 /\ (owe[p] <=> created = 0)
    BY <2>1 DEF Appending, Alone
  <2>3. log' = Append(log, disk[Len(log) + 1]) /\ Len(log) + 1 <= Len(disk)
    BY <2>1, <2>2
  <2>4. Extends(disk, log') /\ Len(log') = Len(log) + 1
    BY <1>f, <2>3, <1>0, ExtendsByNext DEF Appending, Alone, LogIsPrefix
  <2>5. pos'[p] = Len(log') + 1
    BY <2>1, <2>2, <2>4, <1>0
  <2>6. \A q \in Procs : q # p => pc[q] = "idle"
    BY <2>1, <1>0 DEF Appending, Alone
  <2>7. QED BY <1>f, <2>1, <2>2, <2>4, <2>5, <2>6 DEF Appending, Alone, LogIsPrefix
<1>6. ASSUME NEW p \in Procs, Appended(p) PROVE Appending'
  <2>1. /\ UNCHANGED <<files, local>> /\ pc[p] = "append"
        /\ ~owe[p] /\ pos[p] > Len(src[p])
        /\ pc' = [pc EXCEPT ![p] = "ready"]
    BY <1>6, <1>0 DEF Appended
  <2>2. /\ src[p] = disk /\ pos[p] = Len(log) + 1 /\ Extends(mem[p], disk)
        /\ created # 0 /\ created <= 1 /\ Extends(disk, log)
    BY <1>f, <2>1 DEF Appending, Alone, LogIsPrefix
  <2>3. log = disk
    <3>1. Len(disk) <= Len(log)
      BY <2>1, <2>2, <1>0
    <3>2. QED BY <3>1, <2>2, <1>0, ExtendsSameLength
  <2>4. created = 1
    BY <2>2, <1>0
  <2>5. pc'[p] = "ready" /\ \A q \in Procs : q # p => pc[q] = "idle" /\ pc'[q] = "idle"
    BY <2>1, <1>0 DEF Appending, Alone
  <2>6. QED BY <1>f, <2>1, <2>2, <2>3, <2>4, <2>5 DEF Appending, Alone, LogIsPrefix
<1>7. ASSUME NEW p \in Procs, NEW t \in TaskState, Transition(p, t) PROVE Appending'
  <2>1. /\ UNCHANGED <<files, pc, src, pos, owe>> /\ pc[p] = "ready"
        /\ mem' = [mem EXCEPT ![p] = Append(mem[p], t)]
    BY <1>7 DEF Transition
  <2>2. Extends(mem[p], disk)
    BY <2>1 DEF Appending, Alone
  <2>3. Extends(mem'[p], disk)
    BY <2>1, <2>2, <1>0, ExtendsAppend
  <2>4. \A q \in Procs : q # p => pc[q] = "idle"
    BY <2>1, <1>0 DEF Appending, Alone
  <2>5. QED BY <1>f, <2>1, <2>3, <2>4 DEF Appending, Alone, LogIsPrefix
<1>8. ASSUME NEW p \in Procs, BeginWrite(p) PROVE Appending'
  <2>1. /\ UNCHANGED <<files, mem>> /\ pc[p] = "ready"
        /\ pos' = [pos EXCEPT ![p] = Len(disk) + 1]
        /\ owe' = [owe EXCEPT ![p] = ~exists]
        /\ pc' = [pc EXCEPT ![p] = "replace"]
    BY <1>8 DEF BeginWrite, MayBegin
  <2>2. log = disk /\ Extends(mem[p], disk) /\ (exists <=> created = 1)
        /\ (created = 0 \/ created = 1)
    BY <2>1, <1>0 DEF Appending, Alone, LogIsPrefix
  <2>3. pos'[p] = Len(log) + 1 /\ (owe'[p] <=> created = 0) /\ pc'[p] = "replace"
    <3>1. pos'[p] = Len(log) + 1 /\ pc'[p] = "replace"
      BY <2>1, <2>2, <1>0
    <3>2. owe'[p] <=> ~exists
      BY <2>1, <1>0
    <3>3. QED BY <2>2, <3>1, <3>2
  <2>4. \A q \in Procs : q # p => pc[q] = "idle" /\ pc'[q] = "idle"
    BY <2>1, <1>0 DEF Appending, Alone
  <2>5. QED BY <1>f, <2>1, <2>2, <2>3, <2>4 DEF Appending, Alone, LogIsPrefix
<1>9. ASSUME NEW p \in Procs, Replace(p) PROVE Appending'
  <2>1. /\ UNCHANGED <<created, log, torn, mem, pos, owe>> /\ pc[p] = "replace"
        /\ exists' /\ disk' = mem[p] /\ src' = [src EXCEPT ![p] = mem[p]]
        /\ pc' = [pc EXCEPT ![p] = "append"]
    BY <1>9 DEF Replace
  <2>2. /\ log = disk /\ Extends(mem[p], disk) /\ created <= 1
        /\ pos[p] = Len(log) + 1 /\ (owe[p] <=> created = 0)
    BY <1>f, <2>1 DEF Appending, Alone, LogIsPrefix
  <2>3. /\ Extends(disk', log) /\ Extends(mem[p], disk') /\ src'[p] = disk'
        /\ pc'[p] = "append"
    BY <2>1, <2>2, <1>0, ExtendsItself
  <2>4. \A q \in Procs : q # p => pc[q] = "idle" /\ pc'[q] = "idle"
    BY <2>1, <1>0 DEF Appending, Alone
  <2>5. QED BY <1>f, <2>1, <2>2, <2>3, <2>4 DEF Appending, Alone, LogIsPrefix
<1>10. ASSUME NEW p \in Procs, pc[p] # "idle", Exit(p), UNCHANGED files
       PROVE  Appending'
  <2>1. \A q \in Procs : pc'[q] = "idle"
    BY <1>10, <1>0 DEF Exit, Alone
  <2>2. QED BY <1>f, <1>10, <2>1 DEF Appending, LogIsPrefix
<1>11. ASSUME NEW p \in Procs, pc[p] = "ready", NEW h \in Excepted(Copy(p)), Escape(p, h)
       PROVE  Appending'
  <2>1. /\ UNCHANGED <<files, src, pos, owe>> /\ pc' = [pc EXCEPT ![p] = "ready"]
        /\ mem' = [mem EXCEPT ![p] = h]
    BY <1>11 DEF Escape
  <2>2. Extends(mem[p], disk)
    BY <1>11 DEF Appending
  <2>3. Extends(mem'[p], disk) /\ pc'[p] = "ready"
    <3>1. Copy(p) \in Seq(TaskState) /\ Copy(p) = mem[p]
      BY <1>e, <1>0
    <3>2. h = mem[p] \/ \E t \in TaskState : h = Append(mem[p], t)
      BY <3>1, <1>11, ExceptedMoves
    <3>3. Extends(h, disk)
      BY <2>2, <3>2, <1>0, ExtendsAppend
    <3>4. QED BY <2>1, <3>3, <1>0
  <2>4. \A q \in Procs : q # p => pc[q] = "idle" /\ pc'[q] = "idle"
    BY <1>11, <2>1, <1>0 DEF Alone
  <2>5. QED BY <1>f, <1>11, <2>1, <2>3, <2>4 DEF Appending, LogIsPrefix
<1>12. ASSUME NEW p \in Procs, RefuseWrite(p) \/ Throw(p) PROVE Appending'
  <2>1. pc[p] = "ready" /\ pc[p] # "idle"
    BY <1>12 DEF RefuseWrite, MayBegin, Throw
  <2>2. CASE \E h \in Excepted(Copy(p)) : Escape(p, h)
    BY <1>11, <2>1, <2>2
  <2>3. CASE Exit(p) /\ UNCHANGED files
    BY <1>10, <2>1, <2>3
  <2>4. QED BY <1>12, <1>e, <2>2, <2>3 DEF RefuseWrite, Throw
<1>13. ASSUME NEW p \in Procs, Finish(p) \/ Crash(p) PROVE Appending'
  <2>1. pc[p] # "idle" /\ Exit(p) /\ UNCHANGED files
    BY <1>13 DEF Finish, Crash
  <2>2. QED BY <1>10, <2>1
<1>14. CASE UNCHANGED vars
  BY <1>14, <1>f DEF vars, Appending, LogIsPrefix
<1>15. QED
  BY <1>1, <1>2, <1>3, <1>4, <1>5, <1>6, <1>7, <1>8, <1>9, <1>12, <1>13, <1>14, <1>e, <1>f
  DEF Next, Step

\* No process starts beside another one.
LEMMA AloneStep ==
  ASSUME Overlap = FALSE, TypeOK, LockInv, Alone, [Next]_vars
  PROVE  Alone'
<1>a. ASSUME NEW p \in Procs, HandlerReturn(p) \/ Signal(p)  PROVE pc[p] # "idle"
  BY <1>a DEF HandlerReturn, Signal, Created, Handling, LockInv
<1>1. ASSUME NEW p \in Procs, Step(p) \/ Crash(p) \/ TornCrash(p)
      PROVE  Alone'
  <2>1. \A q \in Procs \ {p} : pc'[q] = pc[q]
    BY <1>1 DEF Step, StartCreate, StartLoad, Acquire, Peek, Count, AppendCreated, ReadState,
       AppendTransition, Appended, Transition, BeginWrite, RefuseWrite, Replace, Finish,
       Crash, TornCrash, Signal, HandlerReturn, Throw, Escape, Exit, Goto, TypeOK
  <2>2. pc[p] # "idle" \/ \A q \in Procs : pc[q] = "idle"
    <3>1. ASSUME HandlerReturn(p) \/ Signal(p)  PROVE pc[p] # "idle"
      BY <3>1, <1>a
    <3>2. QED
      BY <1>1, <3>1 DEF Step, StartCreate, StartLoad, Acquire, Peek, Count, AppendCreated,
         AppendTransition, Appended, Transition, BeginWrite, RefuseWrite, Replace, Finish,
         Crash, TornCrash, Throw, MayStart, MayBegin
  <2>3. QED BY <2>1, <2>2 DEF Alone
<1>2. CASE UNCHANGED vars
  BY <1>2 DEF vars, Alone
<1>3. QED BY <1>1, <1>2 DEF Next

\* One process at a time, each of which may die at any step but not tear a line.
LEMMA LogInvariant ==
  ASSUME Overlap = FALSE, MaxTorn = 0
  PROVE  Spec => []LogInv
<1>1. Init => LogInv
  BY LogInit
<1>2. TypeOK /\ TypeOK' /\ LockInv /\ LogInv /\ [Next]_vars => LogInv'
  <2> SUFFICES ASSUME TypeOK, TypeOK', LockInv, LogInv, [Next]_vars
               PROVE  LogInv'
    OBVIOUS
  <2>1. Alone'
    BY AloneStep DEF LogInv
  <2>2. signals' = 0 => signals = 0
    BY DEF Next, Step, StartCreate, StartLoad, Acquire, Peek, Count, AppendCreated,
       AppendTransition, Appended, Transition, BeginWrite, RefuseWrite, Replace, Finish,
       Crash, TornCrash, Signal, HandlerReturn, Throw, Escape, main, vars, TypeOK
  <2>3. signals' = 0 => Appending'
    BY <2>2, LogStep DEF LogInv
  <2>4. QED BY <2>1, <2>3 DEF LogInv
<1>3. QED BY <1>1, <1>2, TypeCorrect, LockInvariant, PTL DEF Spec

\* Then, until a signal is handled, the log is always a prefix of the recorded history,
\* with at most one run_created.
THEOREM LogAgrees ==
  ASSUME Overlap = FALSE, MaxTorn = 0
  PROVE  Spec => []LogIsPrefix
<1>1. LogInv => LogIsPrefix
  BY DEF LogInv, Appending, LogIsPrefix
<1>2. QED BY <1>1, LogInvariant, PTL

\* And whoever has loaded or written the run finds all of it in the log, until then.
THEOREM LoadsRepair ==
  ASSUME Overlap = FALSE, MaxTorn = 0
  PROVE  Spec => []LogRepaired
<1>1. LogInv => LogRepaired
  BY DEF LogInv, Appending, LogRepaired
<1>2. QED BY <1>1, LogInvariant, PTL

-----------------------------------------------------------------------------
\* Whatever runs and whoever overlaps: what a process is about to replace a file by
\* was not refused for the file it has read.
MayReplace ==
  /\ ~exists => disk = <<>>
  /\ \A p \in Procs : pc[p] = "replace" /\ StateOf(src[p]) \in Terminal
                        => StateOf(mem[p]) = StateOf(src[p])
  /\ frame.pc = "replace" /\ StateOf(frame.src) \in Terminal
       => StateOf(frame.mem) = StateOf(frame.src)

\* A run without transitions has not ended.
LEMMA UnbornLives == StateOf(<<>>) \notin Terminal
<1>1. Len(<<>>) = 0
  OBVIOUS
<1>2. QED BY <1>1 DEF StateOf, StateAfter, Terminal, InitialState

LEMMA MayReplaceStep ==
  ASSUME TypeOK, MayReplace, [Next]_vars
  PROVE  MayReplace'
<1> USE DEF files, local, main
<1>1. ASSUME NEW p \in Procs,
             \/ StartCreate(p) \/ StartLoad(p) \/ Acquire(p) \/ Peek(p)
             \/ Count(p) \/ AppendCreated(p) \/ AppendTransition(p) \/ Appended(p)
             \/ \E t \in TaskState : Transition(p, t)
      PROVE  MayReplace'
  <2>1. /\ UNCHANGED <<exists, disk, frame>>
        /\ pc[p] # "replace" /\ pc'[p] # "replace"
        /\ \A q \in Procs \ {p} :
             pc'[q] = pc[q] /\ mem'[q] = mem[q] /\ src'[q] = src[q]
    BY <1>1 DEF StartCreate, StartLoad, Acquire, Peek, Count, AppendCreated, ReadState,
       AppendTransition, Appended, Transition, Goto, MayStart, files, local, TypeOK
  <2>2. QED BY <2>1 DEF MayReplace
<1>2. ASSUME NEW p \in Procs, BeginWrite(p)
      PROVE  MayReplace'
  <2>1. /\ UNCHANGED <<exists, disk, mem>> /\ src'[p] = disk /\ ~Refused(p)
        /\ frame'.pc = frame.pc /\ frame'.mem = frame.mem /\ frame'.src = frame.src
        /\ \A q \in Procs \ {p} : pc'[q] = pc[q] /\ src'[q] = src[q]
    BY <1>2 DEF BeginWrite, Goto, TypeOK, Frame
  <2>2. StateOf(disk) \in Terminal => StateOf(mem[p]) = StateOf(disk)
    BY <2>1, UnbornLives DEF Refused, MayReplace
  <2>3. QED BY <2>1, <2>2 DEF MayReplace
<1>3. ASSUME NEW p \in Procs, Replace(p)
      PROVE  MayReplace'
  <2>1. /\ exists' /\ pc'[p] = "append" /\ UNCHANGED <<mem, frame>>
        /\ \A q \in Procs \ {p} : pc'[q] = pc[q] /\ src'[q] = src[q]
    BY <1>3 DEF Replace, Goto, TypeOK
  <2>2. QED BY <2>1 DEF MayReplace
<1>4. ASSUME NEW p \in Procs, UNCHANGED <<exists, disk>>, pc'[p] # "replace",
             frame'.pc # "replace" \/ frame' = frame,
             \A q \in Procs \ {p} :
               pc'[q] = pc[q] /\ mem'[q] = mem[q] /\ src'[q] = src[q]
      PROVE  MayReplace'
  BY <1>4 DEF MayReplace
<1>5. ASSUME NEW p \in Procs,
             RefuseWrite(p) \/ Throw(p) \/ Finish(p) \/ Crash(p) \/ TornCrash(p)
      PROVE  MayReplace'
  <2>1. Exit(p) \/ (\E h \in Excepted(Copy(p)) : Escape(p, h))
    BY <1>5 DEF RefuseWrite, Throw, Copy, Finish, Crash, TornCrash
  <2>2. UNCHANGED <<exists, disk>>
    BY <1>5 DEF RefuseWrite, Throw, Escape, Finish, Crash, TornCrash
  <2>3. NoFrame.pc # "replace"
    BY DEF NoFrame
  <2>4. /\ pc'[p] # "replace" /\ (frame'.pc # "replace" \/ frame' = frame)
        /\ \A q \in Procs \ {p} :
             pc'[q] = pc[q] /\ mem'[q] = mem[q] /\ src'[q] = src[q]
    BY <2>1, <2>3 DEF Exit, Escape, Goto, TypeOK
  <2>5. QED BY <1>4, <2>2, <2>4
<1>6. ASSUME NEW p \in Procs, Signal(p)
      PROVE  MayReplace'
  <2>1. /\ UNCHANGED <<exists, disk>> /\ pc'[p] = "count"
        /\ frame'.pc = pc[p] /\ frame'.mem = mem[p] /\ frame'.src = src[p]
        /\ \A q \in Procs \ {p} :
             pc'[q] = pc[q] /\ mem'[q] = mem[q] /\ src'[q] = src[q]
    BY <1>6 DEF Signal, Goto, TypeOK
  <2>2. QED BY <2>1 DEF MayReplace
<1>7. ASSUME NEW p \in Procs, HandlerReturn(p)
      PROVE  MayReplace'
  <2>1. /\ UNCHANGED <<exists, disk>> /\ frame'.pc = "idle"
        /\ pc'[p] = frame.pc /\ mem'[p] = frame.mem /\ src'[p] = frame.src
        /\ \A q \in Procs \ {p} :
             pc'[q] = pc[q] /\ mem'[q] = mem[q] /\ src'[q] = src[q]
    BY <1>7 DEF HandlerReturn, Goto, TypeOK, NoFrame
  <2>2. QED BY <2>1 DEF MayReplace
<1>8. CASE UNCHANGED vars
  BY <1>8 DEF vars, MayReplace
<1>9. QED BY <1>1, <1>2, <1>3, <1>5, <1>6, <1>7, <1>8 DEF Next, Step

\* For any processes, with or without the lock: a finished run is reopened only by a
\* process that read the file before the run had finished.
THEOREM ReopenedByRace == Spec => ReopenNeedsRace
<1>1. Init => MayReplace
  BY DEF Init, MayReplace, NoFrame
<1>2. TypeOK /\ MayReplace /\ [Next]_vars => MayReplace'
  BY MayReplaceStep
<1>3. TypeOK /\ MayReplace /\ [Next]_vars
        => [\A p \in Procs : /\ exists /\ StateOf(disk) \in Terminal
                              /\ pc[p] = "replace" /\ pc'[p] # "replace"
                              /\ StateOf(disk') # StateOf(disk)
                                => src[p] # disk]_vars
  <2> SUFFICES ASSUME TypeOK, MayReplace, [Next]_vars, NEW p \in Procs,
                      StateOf(disk) \in Terminal, pc[p] = "replace", pc'[p] # "replace",
                      src[p] = disk
               PROVE  StateOf(disk') = StateOf(disk)
    OBVIOUS
  <2>1. ASSUME NEW q \in Procs, Replace(q)  PROVE StateOf(disk') = StateOf(disk)
    <3>1. q = p
      BY <2>1 DEF Replace, Goto, TypeOK
    <3>2. disk' = mem[p]
      BY <2>1, <3>1 DEF Replace
    <3>3. QED BY <3>2 DEF MayReplace
  <2>2. ASSUME ~\E q \in Procs : Replace(q)  PROVE disk' = disk
    BY <2>2 DEF Next, Step, StartCreate, StartLoad, Acquire, Peek, Count, AppendCreated,
       AppendTransition, Appended, Transition, BeginWrite, RefuseWrite, Finish, Crash,
       TornCrash, Signal, HandlerReturn, Throw, Escape, files, vars
  <2>3. QED BY <2>1, <2>2
<1>4. QED BY <1>1, <1>2, <1>3, TypeCorrect, PTL DEF Spec, ReopenNeedsRace
===============================================================================
