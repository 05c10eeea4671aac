-------------------------- MODULE OvercommitProofs --------------------------
(***************************************************************************)
(* Theorems about OvercommitDemo that hold for every number of children,   *)
(* every goal, chunk size and pipe capacity, and any set of faults.        *)
(***************************************************************************)
EXTENDS OvercommitDemo, FiniteSetTheorems, TLAPS

\* The invariant is proved action by action; these are all the tuples a step
\* may leave unchanged.
Assumptions == /\ N \in Nat \ {0} /\ Goal \in Nat /\ Chunk \in Nat \ {0}
               /\ LogCap \in Nat \ {0} /\ CmdCap \in Nat \ {0}
               /\ Faults \subseteq FaultKinds /\ MaxKills \in Nat

\* The named assumptions together.
LEMMA ConstantsOK == Assumptions
BY NAssumption, GoalAssumption, ChunkAssumption, PipeAssumption,
   FaultsAssumption, KillsAssumption DEF Assumptions

\* Byte counts are natural numbers.
LEMMA BytesNat == ASSUME NEW k \in Nat PROVE k * Chunk \in Nat
BY ChunkAssumption

\* The turn always passes to a child.
LEMMA NextAfterChild == ASSUME NEW c \in Children PROVE NextAfter(c) \in Children
BY NAssumption DEF Children, NextAfter

\* The initial state has the right types.
LEMMA InitTypeOK == Init => TypeOK
<1> SUFFICES ASSUME Init PROVE TypeOK OBVIOUS
<1>1. 0 \in Children BY NAssumption DEF Children
<1>2. \A c \in Children : Len(log[c]) <= LogCap /\ Len(cmds[c]) <= CmdCap
  BY PipeAssumption DEF Init
<1> QED BY <1>1, <1>2, ConstantsOK DEF Init, TypeOK, Assumptions, ParentPCs

\* Appending to a pipe that is not full, and reading its head, keep every pipe
\* within its capacity.
LEMMA PipeAppend ==
  ASSUME NEW S, NEW pipe \in [Children -> Seq(S)], NEW cap \in Nat,
         \A d \in Children : Len(pipe[d]) <= cap,
         NEW c \in Children, NEW x \in S, Len(pipe[c]) < cap
  PROVE  LET new == [pipe EXCEPT ![c] = Append(@, x)] IN
           /\ new \in [Children -> Seq(S)]
           /\ \A d \in Children : Len(new[d]) <= cap
<1> DEFINE new == [pipe EXCEPT ![c] = Append(@, x)]
<1>1. Append(pipe[c], x) \in Seq(S) /\ Len(Append(pipe[c], x)) = Len(pipe[c]) + 1
  OBVIOUS
<1>2. Len(pipe[c]) \in Nat OBVIOUS
<1>3. ASSUME NEW d \in Children PROVE Len(new[d]) <= cap
  <2>1. CASE d = c BY <1>1, <1>2, <2>1
  <2>2. CASE d # c BY <2>2
  <2> QED BY <2>1, <2>2
<1> QED BY <1>1, <1>3

LEMMA PipeTail ==
  ASSUME NEW S, NEW pipe \in [Children -> Seq(S)], NEW cap \in Nat,
         \A d \in Children : Len(pipe[d]) <= cap,
         NEW c \in Children, pipe[c] # <<>>
  PROVE  LET new == [pipe EXCEPT ![c] = Tail(@)] IN
           /\ Head(pipe[c]) \in S
           /\ new \in [Children -> Seq(S)]
           /\ \A d \in Children : Len(new[d]) <= cap
<1> DEFINE new == [pipe EXCEPT ![c] = Tail(@)]
<1>1. /\ Tail(pipe[c]) \in Seq(S) /\ Head(pipe[c]) \in S
      /\ Len(Tail(pipe[c])) = Len(pipe[c]) - 1
  OBVIOUS
<1>2. Len(pipe[c]) \in Nat OBVIOUS
<1>3. ASSUME NEW d \in Children PROVE Len(new[d]) <= cap
  <2>1. CASE d = c BY <1>1, <1>2, <2>1
  <2>2. CASE d # c BY <2>2
  <2> QED BY <2>1, <2>2
<1> QED BY <1>1, <1>3

\* What a report does to the shared state keeps the types.
LEMMA ReportTypes ==
  ASSUME TypeOK, NEW c \in Children, NEW kind \in Lines, NEW bytes \in Nat,
         NEW next \in ChildPCs, Report(c, kind, bytes, next)
  PROVE  /\ child' \in [Children -> {"unborn"} \cup ChildPCs \cup DeadPCs]
         /\ log' \in [Children -> Seq(LineType)]
         /\ \A d \in Children : Len(log'[d]) <= LogCap
         /\ UNCHANGED <<parentVars, cmds, kills>>
<1>1. UNCHANGED <<parentVars, cmds, kills>> BY DEF Report
<1>2. CASE LogReader(c) /\ Len(log[c]) < LogCap
  <2> DEFINE line == Line(kind, bytes)
             new == [log EXCEPT ![c] = Append(@, line)]
  <2>1. log' = new /\ child' = [child EXCEPT ![c] = next]
    BY <1>2 DEF Report
  <2>2. line \in LineType BY DEF Line, LineType
  <2>3. /\ log \in [Children -> Seq(LineType)] /\ LogCap \in Nat
        /\ \A d \in Children : Len(log[d]) <= LogCap
    BY PipeAssumption DEF TypeOK
  <2> HIDE DEF line
  <2>4. /\ new \in [Children -> Seq(LineType)]
        /\ \A d \in Children : Len(new[d]) <= LogCap
    BY <2>2, <2>3, <1>2, PipeAppend
  <2> QED BY <1>1, <2>1, <2>4 DEF TypeOK
<1>3. CASE ~(LogReader(c) /\ Len(log[c]) < LogCap)
  BY <1>1, <1>3 DEF Report, TypeOK, DeadPCs
<1> QED BY <1>2, <1>3

\* A step of a child keeps the types.
LEMMA ChildTypes ==
  ASSUME TypeOK, NEW c \in Children, ChildStep(c) PROVE TypeOK'
<1> USE DEF ChildMoves, viewVars, phaseVars, clockVars, parentVars, workVars
<1>1. CASE Calloc(c) BY <1>1 DEF Calloc, TypeOK, ChildPCs
<1>2. CASE CallocFail(c)
  <2>1. Report(c, "ALLOC_DONE", 0, "closing") /\ UNCHANGED workVars
    BY <1>2 DEF CallocFail
  <2> QED BY <2>1, ReportTypes DEF TypeOK, Lines, ChildPCs
<1>3. CASE Start(c)
  <2>1. Report(c, "START", 0, "map") /\ UNCHANGED workVars BY <1>3 DEF Start
  <2> QED BY <2>1, ReportTypes DEF TypeOK, Lines, ChildPCs
<1>4. CASE MapChunk(c)
  <2>1. regions[c] \in Nat BY DEF TypeOK
  <2>2. ReservedBytes(c) + Chunk \in Nat
    BY <2>1, BytesNat, ChunkAssumption DEF ReservedBytes
  <2>3. /\ Report(c, "ALLOC_OK", ReservedBytes(c) + Chunk, "map")
        /\ regions' \in [Children -> Nat] /\ UNCHANGED touchedRegions
    BY <1>4, <2>1 DEF MapChunk, TypeOK
  <2> QED BY <2>2, <2>3, ReportTypes DEF TypeOK, Lines, ChildPCs
<1>5. CASE MapFails(c) BY <1>5 DEF MapFails, TypeOK, ChildPCs
<1>6. CASE ReportMapFail(c)
  <2>1. ReservedBytes(c) \in Nat BY BytesNat DEF TypeOK, ReservedBytes
  <2>2. Report(c, "ALLOC_FAIL", ReservedBytes(c), "mapped") /\ UNCHANGED workVars
    BY <1>6 DEF ReportMapFail
  <2> QED BY <2>1, <2>2, ReportTypes DEF TypeOK, Lines, ChildPCs
<1>7. CASE ReportAllocDone(c)
  <2>1. ReservedBytes(c) \in Nat BY BytesNat DEF TypeOK, ReservedBytes
  <2>2. Report(c, "ALLOC_DONE", ReservedBytes(c), "cmd") /\ UNCHANGED workVars
    BY <1>7 DEF ReportAllocDone
  <2> QED BY <2>1, <2>2, ReportTypes DEF TypeOK, Lines, ChildPCs
<1>8. CASE ReadCmd(c)
  <2>1. CASE cmds[c] # <<>>
    <3>1. /\ cmds' = [cmds EXCEPT ![c] = Tail(@)]
          /\ child' \in [Children -> {"unborn"} \cup ChildPCs \cup DeadPCs]
      BY <1>8, <2>1 DEF ReadCmd, TypeOK, ChildPCs
    <3>2. /\ cmds' \in [Children -> Seq(Commands)]
          /\ \A d \in Children : Len(cmds'[d]) <= CmdCap
      BY <2>1, <3>1, PipeTail, PipeAssumption DEF TypeOK
    <3> QED BY <1>8, <3>1, <3>2 DEF ReadCmd, TypeOK
  <2>2. CASE cmds[c] = <<>> BY <1>8, <2>2 DEF ReadCmd, TypeOK, ChildPCs
  <2> QED BY <2>1, <2>2
<1>9. CASE Touch(c)
  <2>1. touchedRegions[c] \in Nat BY DEF TypeOK
  <2>2. TouchedBytes(c) \in Nat /\ TouchedBytes(c) + Chunk \in Nat
    BY <2>1, BytesNat, ChunkAssumption DEF TouchedBytes
  <2>3. PICK kind \in Lines, bytes \in Nat : Report(c, kind, bytes, "cmd")
    BY <1>9, <2>2 DEF Touch, Lines
  <2>4. touchedRegions' \in [Children -> Nat] /\ UNCHANGED regions
    <3>1. \/ touchedRegions' = [touchedRegions EXCEPT ![c] = @ + 1]
          \/ UNCHANGED touchedRegions
      BY <1>9 DEF Touch
    <3>2. UNCHANGED regions BY <1>9 DEF Touch
    <3>3. touchedRegions \in [Children -> Nat] BY DEF TypeOK
    <3> QED BY <2>1, <3>1, <3>2, <3>3
  <2> QED BY <2>3, <2>4, ReportTypes DEF TypeOK, ChildPCs
<1>10. CASE Exit(c)
  <2>1. TouchedBytes(c) \in Nat BY BytesNat DEF TypeOK, TouchedBytes
  <2>2. Report(c, "EXIT", TouchedBytes(c), "closing") /\ UNCHANGED workVars
    BY <1>10 DEF Exit
  <2> QED BY <2>1, <2>2, ReportTypes DEF TypeOK, Lines, ChildPCs
<1>11. CASE CloseAll(c) BY <1>11 DEF CloseAll, TypeOK, DeadPCs
<1>12. CASE Notify(c) BY <1>12 DEF Notify, TypeOK, DeadPCs, ParentUp
<1> QED BY <1>1, <1>2, <1>3, <1>4, <1>5, <1>6, <1>7, <1>8, <1>9, <1>10, <1>11,
           <1>12 DEF ChildStep

\* Sending a command to a child whose pipe is not full keeps the types.
LEMMA SendTypes ==
  ASSUME TypeOK, NEW c \in Children, NEW cmd \in Commands, CanSend(c),
         cmds' = [cmds EXCEPT ![c] = Append(@, cmd)]
  PROVE  /\ cmds' \in [Children -> Seq(Commands)]
         /\ \A d \in Children : Len(cmds'[d]) <= CmdCap
<1> DEFINE new == [cmds EXCEPT ![c] = Append(@, cmd)]
<1>1. /\ cmds \in [Children -> Seq(Commands)] /\ CmdCap \in Nat
      /\ \A d \in Children : Len(cmds[d]) <= CmdCap
      /\ Len(cmds[c]) < CmdCap
  BY PipeAssumption DEF TypeOK, CanSend
<1>2. /\ new \in [Children -> Seq(Commands)]
      /\ \A d \in Children : Len(new[d]) <= CmdCap
  BY <1>1, PipeAppend
<1> QED BY <1>2

\* A step of the parent keeps the types.
LEMMA ParentTypes == ASSUME TypeOK, ParentStep PROVE TypeOK'
<1> USE DEF viewVars, phaseVars, clockVars, parentVars, workVars
<1>1. CASE Spawn
  <2>1. forked' \in 0 .. N /\ (parent' = "fork" => forked' < N)
    BY <1>1, NAssumption DEF Spawn, TypeOK
  <2>2. /\ child' \in [Children -> {"unborn"} \cup ChildPCs \cup DeadPCs]
        /\ parent' \in ParentPCs
    BY <1>1 DEF Spawn, TypeOK, ParentPCs, ChildPCs
  <2> QED BY <1>1, <2>1, <2>2 DEF Spawn, TypeOK
<1>2. CASE SpawnFails BY <1>2 DEF SpawnFails, TypeOK, StoppedPCs
<1>3. CASE Select BY <1>3 DEF Select, TypeOK, ParentPCs
<1>4. CASE CheckSignal BY <1>4 DEF CheckSignal, TypeOK, ParentPCs
<1>5. ASSUME NEW c \in Children, Reap(c) PROVE TypeOK'
  <2>1. /\ log' \in [Children -> Seq(LineType)]
        /\ cmds' \in [Children -> Seq(Commands)]
        /\ \A d \in Children : Len(log'[d]) <= LogCap /\ Len(cmds'[d]) <= CmdCap
    BY <1>5, PipeAssumption DEF Reap, TypeOK
  <2> QED BY <1>5, <2>1 DEF Reap, TypeOK, DeadPCs
<1>6. CASE ReapEnd BY <1>6 DEF ReapEnd, TypeOK, ParentPCs
<1>7. CASE ClearFlag BY <1>7 DEF ClearFlag, TypeOK, ParentPCs
<1>8. CASE ReadLine
  <2>1. PICK c \in Children :
          /\ log[c] # <<>>
          /\ Consume(c, Head(log[c]))
          /\ log' = [log EXCEPT ![c] = Tail(@)]
          /\ rfds' \subseteq rfds
    BY <1>8 DEF ReadLine
  <2>2. /\ Head(log[c]) \in LineType
        /\ log' \in [Children -> Seq(LineType)]
        /\ \A d \in Children : Len(log'[d]) <= LogCap
    BY <2>1, PipeTail, PipeAssumption DEF TypeOK
  <2>3. /\ reserved' \in [Children -> Nat]
        /\ touched' \in [Children -> Nat]
        /\ allocDone' \in [Children -> BOOLEAN]
    BY <2>1, <2>2 DEF Consume, TypeOK, LineType
  <2> QED BY <1>8, <2>1, <2>2, <2>3 DEF ReadLine, TypeOK
<1>9. CASE ReadEof BY <1>9 DEF ReadEof, TypeOK
<1>10. CASE ReadEnd BY <1>10 DEF ReadEnd, TypeOK, ParentPCs
<1>11. CASE Decide
  <2>1. touchPhase' \in BOOLEAN BY <1>11 DEF Decide, TypeOK, AllAllocDone
  <2> QED BY <1>11, <2>1 DEF Decide, TypeOK, ParentPCs
<1>12. CASE RequestTouch
  <2>1. touchPhase' \in BOOLEAN BY <1>12 DEF RequestTouch, TypeOK, AllAllocDone
  <2>2. PICK c \in Children :
          \/ /\ CanSend(c)
             /\ cmds' = [cmds EXCEPT ![c] = Append(@, "T")]
             /\ nextTouch' = NextAfter(c)
             /\ newSecond' = FALSE
             /\ parent' = "quit"
          \/ parent' = "sigpipe" /\ UNCHANGED <<cmds, nextTouch, newSecond>>
    BY <1>12 DEF RequestTouch
  <2>3. CASE parent' = "sigpipe" /\ UNCHANGED <<cmds, nextTouch, newSecond>>
    BY <1>12, <2>1, <2>3 DEF RequestTouch, TypeOK, StoppedPCs
  <2>4. CASE ~(parent' = "sigpipe" /\ UNCHANGED <<cmds, nextTouch, newSecond>>)
    <3>1. "T" \in Commands BY DEF Commands
    <3>2. /\ cmds' \in [Children -> Seq(Commands)]
          /\ \A d \in Children : Len(cmds'[d]) <= CmdCap
      BY <2>2, <2>4, <3>1, SendTypes
    <3> QED BY <1>12, <2>1, <2>2, <2>4, <3>2, NextAfterChild
         DEF RequestTouch, TypeOK, ParentPCs
  <2> QED BY <2>3, <2>4
<1>13. CASE EndIteration
  BY <1>13 DEF EndIteration, TypeOK, ParentPCs, StoppedPCs
<1>14. CASE TellQuit
  <2>1. PICK c \in Children :
          /\ untold' \subseteq untold
          /\ parent' \in {parent, "sigpipe"}
          /\ \/ UNCHANGED cmds
             \/ CanSend(c) /\ cmds' = [cmds EXCEPT ![c] = Append(@, "Q")]
    BY <1>14 DEF TellQuit
  <2>2. "Q" \in Commands BY DEF Commands
  <2>3. /\ cmds' \in [Children -> Seq(Commands)]
        /\ \A d \in Children : Len(cmds'[d]) <= CmdCap
    BY <2>1, <2>2, SendTypes DEF TypeOK
  <2> QED BY <1>14, <2>1, <2>3 DEF TellQuit, TypeOK, StoppedPCs
<1>15. CASE TellEnd BY <1>15 DEF TellEnd, TypeOK, ParentPCs
<1> QED BY <1>1, <1>2, <1>3, <1>4, <1>5, <1>6, <1>7, <1>8, <1>9,
           <1>10, <1>11, <1>12, <1>13, <1>14, <1>15 DEF ParentStep

\* Every step keeps the types.
LEMMA NextTypeOK == TypeOK /\ [Next]_vars => TypeOK'
<1> SUFFICES ASSUME TypeOK, [Next]_vars PROVE TypeOK' OBVIOUS
<1>1. CASE ParentStep BY <1>1, ParentTypes
<1>2. ASSUME NEW c \in Children, ChildStep(c) PROVE TypeOK' BY <1>2, ChildTypes
<1>3. ASSUME NEW c \in Children, Kill(c) PROVE TypeOK'
  <2>1. kills' \in 0 .. MaxKills
    BY <1>3, KillsAssumption DEF Kill, TypeOK
  <2> QED BY <1>3, <2>1 DEF Kill, TypeOK, DeadPCs, viewVars, phaseVars,
                            clockVars, parentVars, workVars
<1>4. CASE ClockTick
  BY <1>4 DEF ClockTick, TypeOK, viewVars, workVars
<1>5. CASE UNCHANGED vars
  BY <1>5 DEF vars, TypeOK, viewVars, phaseVars, clockVars, parentVars, workVars
<1>6. CASE Ended BY <1>5, <1>6 DEF Ended
<1> QED BY <1>1, <1>2, <1>3, <1>4, <1>5, <1>6 DEF Next

\* Every variable keeps its type and no pipe overflows, for any number of
\* children, any sizes and any faults.
THEOREM TypeCorrect == Spec => []TypeOK
<1> QED BY InitTypeOK, NextTypeOK, PTL DEF Spec
-----------------------------------------------------------------------------
(***************************************************************************)
(* Why the two phases never overlap.  TouchBarrier is not inductive: it    *)
(* says nothing of the lines still in the log pipes, which are what moves  *)
(* the parent into the touch phase.                                        *)
(***************************************************************************)
EndKinds == {"ALLOC_DONE", "ALLOC_FAIL"}

SeenMeansFinished == \A c \in Children : allocDone[c] => ~Reserving(c)
SentMeansFinished ==
  \A c \in Children : \A k \in 1 .. Len(log[c]) :
    log[c][k].kind \in EndKinds => ~Reserving(c)
PhaseMeansSeen == touchPhase => AllAllocDone
TouchMeansPhase == \A c \in Children : TouchingBegan(c) => touchPhase

BarrierInv == /\ SeenMeansFinished /\ SentMeansFinished
              /\ PhaseMeansSeen /\ TouchMeansPhase

\* The strengthened invariant gives the property.
LEMMA BarrierSuffices == BarrierInv => TouchBarrier
BY DEF BarrierInv, TouchBarrier, SeenMeansFinished, PhaseMeansSeen,
       TouchMeansPhase, AllAllocDone

LEMMA InitBarrier == Init => BarrierInv
BY DEF Init, BarrierInv, SeenMeansFinished, SentMeansFinished, PhaseMeansSeen,
       TouchMeansPhase, TouchingBegan

\* The members of a sequence after Append and after Tail.
LEMMA AppendMembers ==
  ASSUME NEW S, NEW q \in Seq(S), NEW x \in S,
         NEW k \in 1 .. Len(Append(q, x))
  PROVE  \/ k \in 1 .. Len(q) /\ Append(q, x)[k] = q[k]
         \/ Append(q, x)[k] = x
OBVIOUS

LEMMA TailMembers ==
  ASSUME NEW S, NEW q \in Seq(S), q # <<>>, NEW k \in 1 .. Len(Tail(q))
  PROVE  k + 1 \in 1 .. Len(q) /\ Tail(q)[k] = q[k + 1]
OBVIOUS

\* A report keeps the barrier if a child that reports the end, or is past it,
\* goes on to a place where it does not reserve.
LEMMA ReportBarrier ==
  ASSUME TypeOK, BarrierInv, NEW c \in Children, NEW kind \in Lines,
         NEW bytes \in Nat, NEW next \in ChildPCs, Report(c, kind, bytes, next),
         kind \in EndKinds \/ ~Reserving(c) => next \notin ReservingPCs,
         next # "touch"
  PROVE  /\ SeenMeansFinished' /\ SentMeansFinished' /\ PhaseMeansSeen'
         /\ \A d \in Children : child'[d] = "touch" => child[d] = "touch"
<1>1. UNCHANGED <<allocDone, touchPhase>>
  BY DEF Report, parentVars, viewVars, phaseVars, clockVars
<1>2. child' = [child EXCEPT ![c] = next] \/ child' = [child EXCEPT ![c] = "gone"]
  BY DEF Report
<1>3. \A d \in Children : ~Reserving(d) => ~Reserving(d)'
  BY <1>2 DEF Reserving, ReservingPCs, TypeOK
<1>4. SentMeansFinished'
  <2>1. CASE UNCHANGED log
    BY <2>1, <1>3 DEF BarrierInv, SentMeansFinished
  <2>2. CASE /\ log' = [log EXCEPT ![c] = Append(@, Line(kind, bytes))]
             /\ child' = [child EXCEPT ![c] = next]
    <3> SUFFICES ASSUME NEW d \in Children, NEW k \in 1 .. Len(log'[d]),
                        log'[d][k].kind \in EndKinds
                 PROVE  ~Reserving(d)'
      BY DEF SentMeansFinished
    <3>1. CASE d # c
      BY <2>2, <3>1, <1>3 DEF BarrierInv, SentMeansFinished, TypeOK
    <3>2. CASE d = c
      <4>1. Line(kind, bytes) \in LineType BY DEF Line, LineType
      <4>2. log[c] \in Seq(LineType) /\ log'[c] = Append(log[c], Line(kind, bytes))
        BY <2>2 DEF TypeOK
      <4>3. \/ k \in 1 .. Len(log[c]) /\ log'[c][k] = log[c][k]
            \/ log'[c][k] = Line(kind, bytes)
        BY <3>2, <4>1, <4>2, AppendMembers
      <4>4. CASE k \in 1 .. Len(log[c]) /\ log'[c][k] = log[c][k]
        BY <3>2, <4>4, <1>3 DEF BarrierInv, SentMeansFinished
      <4>5. CASE log'[c][k] = Line(kind, bytes)
        <5>1. kind \in EndKinds BY <3>2, <4>5 DEF Line
        <5> QED BY <3>2, <5>1, <2>2 DEF Reserving, TypeOK
      <4> QED BY <4>3, <4>4, <4>5
    <3> QED BY <3>1, <3>2
  <2> QED BY <2>1, <2>2 DEF Report
<1>5. SeenMeansFinished' BY <1>1, <1>3 DEF BarrierInv, SeenMeansFinished
<1>6. PhaseMeansSeen' BY <1>1 DEF BarrierInv, PhaseMeansSeen, AllAllocDone
<1>7. \A d \in Children : child'[d] = "touch" => child[d] = "touch"
  BY <1>2 DEF TypeOK
<1> QED BY <1>4, <1>5, <1>6, <1>7

\* Steps that leave commands and touching alone keep TouchMeansPhase.
LEMMA FrameTouch ==
  ASSUME BarrierInv, UNCHANGED <<touchedRegions, cmds>>, touchPhase => touchPhase',
         \A d \in Children : child'[d] = "touch" => child[d] = "touch"
  PROVE  TouchMeansPhase'
BY DEF BarrierInv, TouchMeansPhase, TouchingBegan

\* A step that moves children between places only, none of them into
\* reserving or touching, keeps the invariant.
LEMMA FrameBarrier ==
  ASSUME BarrierInv,
         UNCHANGED <<allocDone, touchPhase, touchedRegions, cmds, log>>,
         \A d \in Children : /\ child'[d] = "touch" => child[d] = "touch"
                             /\ ~Reserving(d) => ~Reserving(d)'
  PROVE  BarrierInv'
<1>1. TouchMeansPhase' BY FrameTouch
<1> QED BY <1>1 DEF BarrierInv, SeenMeansFinished, SentMeansFinished,
                    PhaseMeansSeen, AllAllocDone

\* A child's report that touches nothing keeps the invariant.
LEMMA PlainReportBarrier ==
  ASSUME TypeOK, BarrierInv, NEW c \in Children, NEW kind \in Lines,
         NEW bytes \in Nat, NEW next \in ChildPCs, Report(c, kind, bytes, next),
         kind \in EndKinds \/ ~Reserving(c) => next \notin ReservingPCs,
         next # "touch", UNCHANGED touchedRegions
  PROVE  BarrierInv'
<1>1. UNCHANGED <<cmds, touchPhase>>
  BY DEF Report, parentVars, phaseVars, clockVars
<1>2. /\ SeenMeansFinished' /\ SentMeansFinished' /\ PhaseMeansSeen'
      /\ \A d \in Children : child'[d] = "touch" => child[d] = "touch"
  BY ReportBarrier
<1>3. TouchMeansPhase' BY <1>1, <1>2, FrameTouch
<1> QED BY <1>2, <1>3 DEF BarrierInv

LEMMA ChildBarrier ==
  ASSUME TypeOK, BarrierInv, NEW c \in Children, ChildStep(c) PROVE BarrierInv'
<1> USE DEF viewVars, phaseVars, clockVars, parentVars, workVars
<1>0. ReservedBytes(c) \in Nat /\ TouchedBytes(c) \in Nat
  BY BytesNat DEF TypeOK, ReservedBytes, TouchedBytes
<1>1. CASE Calloc(c)
  BY <1>1, FrameBarrier DEF Calloc, ChildMoves, TypeOK, Reserving, ReservingPCs
<1>2. CASE CallocFail(c)
  <2>1. Report(c, "ALLOC_DONE", 0, "closing") /\ UNCHANGED workVars
    BY <1>2 DEF CallocFail
  <2> QED BY <2>1, PlainReportBarrier DEF Lines, ChildPCs, ReservingPCs
<1>3. CASE Start(c)
  <2>1. /\ Report(c, "START", 0, "map") /\ UNCHANGED workVars
        /\ Reserving(c)
    BY <1>3 DEF Start, Reserving, ReservingPCs
  <2> QED BY <2>1, PlainReportBarrier DEF Lines, ChildPCs, EndKinds
<1>4. CASE MapChunk(c)
  <2>1. /\ Report(c, "ALLOC_OK", ReservedBytes(c) + Chunk, "map")
        /\ UNCHANGED touchedRegions /\ Reserving(c)
    BY <1>4 DEF MapChunk, Reserving, ReservingPCs
  <2>2. ReservedBytes(c) + Chunk \in Nat BY <1>0, ChunkAssumption
  <2> QED BY <2>1, <2>2, PlainReportBarrier DEF Lines, ChildPCs, EndKinds
<1>5. CASE MapFails(c)
  BY <1>5, FrameBarrier DEF MapFails, ChildMoves, TypeOK, Reserving, ReservingPCs
<1>6. CASE ReportMapFail(c)
  <2>1. Report(c, "ALLOC_FAIL", ReservedBytes(c), "mapped") /\ UNCHANGED workVars
    BY <1>6 DEF ReportMapFail
  <2> QED BY <1>0, <2>1, PlainReportBarrier DEF Lines, ChildPCs, ReservingPCs
<1>7. CASE ReportAllocDone(c)
  <2>1. Report(c, "ALLOC_DONE", ReservedBytes(c), "cmd") /\ UNCHANGED workVars
    BY <1>7 DEF ReportAllocDone
  <2> QED BY <1>0, <2>1, PlainReportBarrier DEF Lines, ChildPCs, ReservingPCs
<1>8. CASE ReadCmd(c)
  <2>1. /\ UNCHANGED <<allocDone, touchPhase, touchedRegions, log>>
        /\ \A d \in Children : ~Reserving(d) => ~Reserving(d)'
    BY <1>8 DEF ReadCmd, TypeOK, Reserving, ReservingPCs
  <2>2. CASE cmds[c] = <<>>
    BY <1>8, <2>1, <2>2, FrameBarrier DEF ReadCmd, TypeOK
  <2>3. CASE cmds[c] # <<>>
    <3>1. /\ cmds' = [cmds EXCEPT ![c] = Tail(@)]
          /\ child' = [child EXCEPT ![c] =
                         IF Head(cmds[c]) = "Q" THEN "exit" ELSE "touch"]
      BY <1>8, <2>3 DEF ReadCmd
    <3>2. cmds[c] \in Seq(Commands) BY DEF TypeOK
    <3>3. child'[c] = "touch" => touchPhase
      <4>1. /\ Head(cmds[c]) \in Commands /\ 1 \in 1 .. Len(cmds[c])
            /\ Head(cmds[c]) = cmds[c][1]
        BY <2>3, <3>2
      <4> QED BY <3>1, <4>1 DEF TypeOK, Commands, BarrierInv, TouchMeansPhase,
                                TouchingBegan
    <3>4. \A k \in 1 .. Len(cmds'[c]) : cmds'[c][k] = "T" => touchPhase
      <4> SUFFICES ASSUME NEW k \in 1 .. Len(cmds'[c]), cmds'[c][k] = "T"
                   PROVE  touchPhase
        OBVIOUS
      <4>1. cmds'[c] = Tail(cmds[c]) BY <3>1 DEF TypeOK
      <4>2. k + 1 \in 1 .. Len(cmds[c]) /\ cmds[c][k + 1] = "T"
        BY <2>3, <3>2, <4>1, TailMembers
      <4> QED BY <4>2 DEF BarrierInv, TouchMeansPhase, TouchingBegan
    <3>5. TouchMeansPhase'
      <4> SUFFICES ASSUME NEW d \in Children, TouchingBegan(d)' PROVE touchPhase
        BY <2>1 DEF TouchMeansPhase
      <4>1. CASE d = c
        BY <2>1, <3>3, <3>4, <4>1
        DEF TouchingBegan, BarrierInv, TouchMeansPhase
      <4>2. CASE d # c
        BY <2>1, <3>1, <4>2 DEF TouchingBegan, BarrierInv, TouchMeansPhase, TypeOK
      <4> QED BY <4>1, <4>2
    <3> QED BY <2>1, <3>5 DEF BarrierInv, SeenMeansFinished, SentMeansFinished,
                              PhaseMeansSeen, AllAllocDone
  <2> QED BY <2>2, <2>3
<1>9. CASE Touch(c)
  <2>1. child[c] = "touch" BY <1>9 DEF Touch
  <2>2. TouchedBytes(c) + Chunk \in Nat BY <1>0, ChunkAssumption
  <2>3. PICK kind \in Lines, bytes \in Nat : Report(c, kind, bytes, "cmd")
    BY <1>0, <1>9, <2>2 DEF Touch, Lines
  <2>4. /\ SeenMeansFinished' /\ SentMeansFinished' /\ PhaseMeansSeen'
        /\ UNCHANGED <<touchPhase, cmds>>
    BY <2>3, ReportBarrier DEF ChildPCs, ReservingPCs, Report
  <2>5. touchPhase BY <2>1 DEF BarrierInv, TouchMeansPhase, TouchingBegan
  <2> QED BY <2>4, <2>5 DEF BarrierInv, TouchMeansPhase
<1>10. CASE Exit(c)
  <2>1. Report(c, "EXIT", TouchedBytes(c), "closing") /\ UNCHANGED workVars
    BY <1>10 DEF Exit
  <2> QED BY <1>0, <2>1, PlainReportBarrier DEF Lines, ChildPCs, ReservingPCs
<1>11. CASE CloseAll(c)
  BY <1>11, FrameBarrier DEF CloseAll, ChildMoves, TypeOK, Reserving, ReservingPCs
<1>12. CASE Notify(c)
  BY <1>12, FrameBarrier DEF Notify, TypeOK, Reserving, ReservingPCs
<1> QED BY <1>1, <1>2, <1>3, <1>4, <1>5, <1>6, <1>7, <1>8, <1>9, <1>10, <1>11,
           <1>12 DEF ChildStep

\* Children are forked in index order: those the loop has not reached are
\* still unborn.
ForkOrder == \A d \in Children :
               parent = "fork" /\ d >= forked => child[d] = "unborn"

LEMMA InitForkOrder == Init => ForkOrder
BY DEF Init, ForkOrder

\* Whatever a child does, it was born before, and concerns no other child.
LEMMA ChildMovesItself ==
  ASSUME NEW c \in Children, ChildStep(c) \/ Kill(c)
  PROVE  /\ child[c] # "unborn"
         /\ \E pc : child' = [child EXCEPT ![c] = pc]
         /\ UNCHANGED <<parent, forked>>
<1> USE DEF parentVars
<1>1. \A kind, bytes, next : Report(c, kind, bytes, next) =>
        /\ \E pc : child' = [child EXCEPT ![c] = pc]
        /\ UNCHANGED <<parent, forked>>
  BY DEF Report
<1>2. \A from, to : ChildMoves(c, from, to) =>
        /\ child[c] = from
        /\ \E pc : child' = [child EXCEPT ![c] = pc]
        /\ UNCHANGED <<parent, forked>>
  BY DEF ChildMoves
<1>3. CASE Calloc(c) BY <1>2, <1>3 DEF Calloc
<1>4. CASE CallocFail(c) BY <1>1, <1>4 DEF CallocFail
<1>5. CASE Start(c) BY <1>1, <1>5 DEF Start
<1>6. CASE MapChunk(c) BY <1>1, <1>6 DEF MapChunk
<1>7. CASE MapFails(c) BY <1>2, <1>7 DEF MapFails
<1>8. CASE ReportMapFail(c) BY <1>1, <1>8 DEF ReportMapFail
<1>9. CASE ReportAllocDone(c) BY <1>1, <1>9 DEF ReportAllocDone
<1>10. CASE ReadCmd(c) BY <1>10 DEF ReadCmd
<1>11. CASE Touch(c) BY <1>1, <1>11 DEF Touch
<1>12. CASE Exit(c) BY <1>1, <1>12 DEF Exit
<1>13. CASE CloseAll(c) BY <1>2, <1>13 DEF CloseAll
<1>14. CASE Notify(c) BY <1>14 DEF Notify
<1>15. CASE Kill(c) BY <1>15 DEF Kill, ChildUp, ChildPCs
<1> QED BY <1>3, <1>4, <1>5, <1>6, <1>7, <1>8, <1>9, <1>10, <1>11, <1>12,
           <1>13, <1>14, <1>15 DEF ChildStep

LEMMA NextForkOrder == TypeOK /\ ForkOrder /\ [Next]_vars => ForkOrder'
<1> SUFFICES ASSUME TypeOK, ForkOrder, [Next]_vars PROVE ForkOrder' OBVIOUS
<1>1. ASSUME NEW c \in Children, ChildStep(c) \/ Kill(c) PROVE ForkOrder'
  BY <1>1, ChildMovesItself DEF ForkOrder, TypeOK
<1>2. CASE Spawn BY <1>2 DEF Spawn, ForkOrder, TypeOK, Children
<1>3. ASSUME parent' = "fork" /\ ~Spawn => UNCHANGED <<parent, forked, child>>
      PROVE  ForkOrder'
  BY <1>2, <1>3 DEF ForkOrder
<1>4. CASE ParentStep
  <2>1. parent' = "fork" /\ ~Spawn => UNCHANGED <<parent, forked, child>>
    BY <1>4 DEF ParentStep, SpawnFails, Select, CheckSignal, Reap, ReapEnd,
                ClearFlag, ReadLine, ReadEof, ReadEnd, Decide, RequestTouch,
                EndIteration, TellQuit, TellEnd
  <2> QED BY <1>3, <2>1
<1>5. CASE ClockTick \/ Ended \/ UNCHANGED vars
  BY <1>3, <1>5 DEF ClockTick, Ended, vars, parentVars
<1> QED BY <1>1, <1>4, <1>5 DEF Next

\* Sending a command in the touch phase keeps TouchMeansPhase; only a 'T' needs
\* the phase.
LEMMA SendBarrier ==
  ASSUME TypeOK, TouchMeansPhase, NEW c \in Children, NEW cmd \in Commands,
         cmds' = [cmds EXCEPT ![c] = Append(@, cmd)],
         UNCHANGED <<child, touchedRegions>>,
         touchPhase => touchPhase', cmd = "T" => touchPhase'
  PROVE  TouchMeansPhase'
<1> SUFFICES ASSUME NEW d \in Children, TouchingBegan(d)' PROVE touchPhase'
  BY DEF TouchMeansPhase
<1>1. CASE TouchingBegan(d) BY <1>1 DEF TouchMeansPhase
<1>2. CASE ~TouchingBegan(d)
  <2>1. PICK k \in 1 .. Len(cmds'[d]) : cmds'[d][k] = "T"
    BY <1>2 DEF TouchingBegan
  <2>2. d = c BY <1>2, <2>1 DEF TouchingBegan, TypeOK
  <2>3. cmds[c] \in Seq(Commands) /\ cmds'[c] = Append(cmds[c], cmd)
    BY DEF TypeOK
  <2>4. \/ k \in 1 .. Len(cmds[c]) /\ cmds'[c][k] = cmds[c][k]
        \/ cmds'[c][k] = cmd
    BY <2>1, <2>2, <2>3, AppendMembers
  <2> QED BY <1>2, <2>1, <2>2, <2>4 DEF TouchingBegan
<1> QED BY <1>1, <1>2

LEMMA ParentBarrier ==
  ASSUME TypeOK, ForkOrder, BarrierInv, ParentStep PROVE BarrierInv'
<1> USE DEF viewVars, phaseVars, clockVars, parentVars, workVars
<1>1. CASE Spawn
  <2>1. \A d \in Children : /\ child'[d] = "touch" => child[d] = "touch"
                            /\ ~Reserving(d) => ~Reserving(d)'
    BY <1>1 DEF Spawn, TypeOK, Reserving, ReservingPCs, ForkOrder, Children
  <2> QED BY <1>1, <2>1, FrameBarrier DEF Spawn
<1>2. CASE SpawnFails BY <1>2, FrameBarrier DEF SpawnFails, Reserving
<1>3. CASE Select BY <1>3, FrameBarrier DEF Select, Reserving
<1>4. CASE CheckSignal BY <1>4, FrameBarrier DEF CheckSignal, Reserving
<1>5. ASSUME NEW c \in Children, Reap(c) PROVE BarrierInv'
  <2>1. \A d \in Children : /\ child'[d] = "touch" => child[d] = "touch"
                            /\ ~Reserving(d) => ~Reserving(d)'
                            /\ log'[d] = log[d] \/ log'[d] = <<>>
                            /\ cmds'[d] = cmds[d] \/ cmds'[d] = <<>>
    BY <1>5 DEF Reap, TypeOK, Reserving, ReservingPCs
  <2>2. UNCHANGED <<allocDone, touchPhase, touchedRegions>> BY <1>5 DEF Reap
  <2>3. SentMeansFinished' BY <2>1 DEF BarrierInv, SentMeansFinished
  <2>4. TouchMeansPhase'
    BY <2>1, <2>2 DEF BarrierInv, TouchMeansPhase, TouchingBegan
  <2> QED BY <2>1, <2>2, <2>3, <2>4
          DEF BarrierInv, SeenMeansFinished, PhaseMeansSeen, AllAllocDone
<1>6. CASE ReapEnd BY <1>6, FrameBarrier DEF ReapEnd, Reserving
<1>7. CASE ClearFlag BY <1>7, FrameBarrier DEF ClearFlag, Reserving
<1>8. CASE ReadLine
  <2>1. PICK c \in Children :
          /\ log[c] # <<>>
          /\ Consume(c, Head(log[c]))
          /\ log' = [log EXCEPT ![c] = Tail(@)]
    BY <1>8 DEF ReadLine
  <2>2. UNCHANGED <<touchPhase, touchedRegions, cmds, child>>
    BY <1>8 DEF ReadLine
  <2>3. /\ log[c] \in Seq(LineType) /\ 1 \in 1 .. Len(log[c])
        /\ Head(log[c]) = log[c][1]
    BY <2>1 DEF TypeOK
  <2>4. \A d \in Children :
          /\ allocDone[d] => allocDone'[d]
          /\ allocDone'[d] => allocDone[d] \/ (d = c /\ Head(log[c]).kind \in EndKinds)
    BY <2>1 DEF Consume, TypeOK, EndKinds
  <2>5. SeenMeansFinished'
    BY <2>2, <2>3, <2>4
    DEF BarrierInv, SeenMeansFinished, SentMeansFinished, Reserving
  <2>6. SentMeansFinished'
    <3> SUFFICES ASSUME NEW d \in Children, NEW k \in 1 .. Len(log'[d]),
                        log'[d][k].kind \in EndKinds
                 PROVE  ~Reserving(d)
      BY <2>2 DEF SentMeansFinished, Reserving
    <3>1. CASE d # c BY <2>1, <3>1 DEF BarrierInv, SentMeansFinished, TypeOK
    <3>2. CASE d = c
      <4>1. log'[c] = Tail(log[c]) BY <2>1 DEF TypeOK
      <4>2. k \in 1 .. Len(Tail(log[c])) /\ Tail(log[c])[k].kind \in EndKinds
        BY <3>2, <4>1
      <4>3. k + 1 \in 1 .. Len(log[c]) /\ Tail(log[c])[k] = log[c][k + 1]
        BY <2>1, <2>3, <4>2, TailMembers
      <4> QED BY <3>2, <4>2, <4>3 DEF BarrierInv, SentMeansFinished
    <3> QED BY <3>1, <3>2
  <2>7. PhaseMeansSeen' BY <2>2, <2>4 DEF BarrierInv, PhaseMeansSeen, AllAllocDone
  <2>8. TouchMeansPhase' BY <2>2, FrameTouch
  <2> QED BY <2>5, <2>6, <2>7, <2>8 DEF BarrierInv
<1>9. CASE ReadEof BY <1>9, FrameBarrier DEF ReadEof, Reserving
<1>10. CASE ReadEnd BY <1>10, FrameBarrier DEF ReadEnd, Reserving
<1>11. ASSUME touchPhase' = (touchPhase \/ AllAllocDone),
              UNCHANGED <<child, touchedRegions, log, allocDone>>
       PROVE  SeenMeansFinished' /\ SentMeansFinished' /\ PhaseMeansSeen'
  BY <1>11 DEF BarrierInv, SeenMeansFinished, SentMeansFinished, PhaseMeansSeen,
               AllAllocDone, Reserving
<1>12. CASE Decide
  <2>1. TouchMeansPhase' BY <1>12, FrameTouch DEF Decide
  <2> QED BY <1>11, <1>12, <2>1 DEF Decide, BarrierInv
<1>13. CASE RequestTouch
  <2>1. /\ touchPhase' = (touchPhase \/ AllAllocDone) /\ touchPhase'
        /\ UNCHANGED <<child, touchedRegions, log, allocDone>>
    BY <1>13 DEF RequestTouch
  <2>2. PICK c \in Children : \/ cmds' = [cmds EXCEPT ![c] = Append(@, "T")]
                              \/ UNCHANGED cmds
    BY <1>13 DEF RequestTouch
  <2>3. "T" \in Commands BY DEF Commands
  <2>4. TouchMeansPhase'
    BY <2>1, <2>2, <2>3, SendBarrier, FrameTouch DEF BarrierInv
  <2> QED BY <1>11, <2>1, <2>4 DEF BarrierInv
<1>14. CASE EndIteration BY <1>14, FrameBarrier DEF EndIteration, Reserving
<1>15. CASE TellQuit
  <2>1. UNCHANGED <<child, touchedRegions, log, allocDone, touchPhase>>
    BY <1>15 DEF TellQuit
  <2>2. PICK c \in Children : \/ cmds' = [cmds EXCEPT ![c] = Append(@, "Q")]
                              \/ UNCHANGED cmds
    BY <1>15 DEF TellQuit
  <2>3. "Q" \in Commands /\ "Q" # "T" BY DEF Commands
  <2>4. TouchMeansPhase'
    BY <2>1, <2>2, <2>3, SendBarrier, FrameTouch DEF BarrierInv
  <2> QED BY <2>1, <2>4 DEF BarrierInv, SeenMeansFinished, SentMeansFinished,
                            PhaseMeansSeen, AllAllocDone, Reserving
<1>16. CASE TellEnd BY <1>16, FrameBarrier DEF TellEnd, Reserving
<1> QED BY <1>1, <1>2, <1>3, <1>4, <1>5, <1>6, <1>7, <1>8, <1>9, <1>10, <1>12,
           <1>13, <1>14, <1>15, <1>16 DEF ParentStep

LEMMA NextBarrier == TypeOK /\ ForkOrder /\ BarrierInv /\ [Next]_vars => BarrierInv'
<1> SUFFICES ASSUME TypeOK, ForkOrder, BarrierInv, [Next]_vars PROVE BarrierInv' OBVIOUS
<1> USE DEF viewVars, phaseVars, clockVars, parentVars, workVars
<1>1. CASE ParentStep BY <1>1, ParentBarrier
<1>2. ASSUME NEW c \in Children, ChildStep(c) PROVE BarrierInv'
  BY <1>2, ChildBarrier
<1>3. ASSUME NEW c \in Children, Kill(c) PROVE BarrierInv'
  BY <1>3, FrameBarrier DEF Kill, TypeOK, Reserving, ReservingPCs
<1>4. CASE ClockTick BY <1>4, FrameBarrier DEF ClockTick, Reserving
<1>5. CASE UNCHANGED vars BY <1>5, FrameBarrier DEF vars, Reserving
<1>6. CASE Ended BY <1>5, <1>6 DEF Ended
<1> QED BY <1>1, <1>2, <1>3, <1>4, <1>5, <1>6 DEF Next

\* No chunk is touched, or asked to be touched, while any child still reserves,
\* whatever fails and however far the log pipes lag behind.
THEOREM BarrierHolds == Spec => []TouchBarrier
<1>1. Spec => []TypeOK BY TypeCorrect
<1>2. Spec => []ForkOrder BY <1>1, InitForkOrder, NextForkOrder, PTL DEF Spec
<1>3. Spec => []BarrierInv
  BY <1>1, <1>2, InitBarrier, NextBarrier, PTL DEF Spec
<1> QED BY <1>3, BarrierSuffices, PTL
-----------------------------------------------------------------------------
(***************************************************************************)
(* What the parent believes of a child, and what the lines under way will  *)
(* have it believe.  The lines of one child tell of more and more; the     *)
(* last of them tells all of what the child did, unless it died at a line  *)
(* nobody could read; and none is missing once the end has been reported.  *)
(***************************************************************************)
AllocKinds == {"ALLOC_OK", "ALLOC_DONE"}
TouchKinds == {"TOUCH_OK", "TOUCH_DONE"}
Early == {"unborn", "calloc", "callocfail", "start"}

Sent(c) == 1 .. Len(log[c])
Within(c) == /\ reserved[c] <= ReservedBytes(c)
             /\ touched[c] <= TouchedBytes(c)
             /\ touchedRegions[c] <= regions[c]
LinesBounded(c) ==
  \A k \in Sent(c) :
    /\ log[c][k].kind \in AllocKinds =>
         reserved[c] <= log[c][k].bytes /\ log[c][k].bytes <= ReservedBytes(c)
    /\ log[c][k].kind \in TouchKinds =>
         touched[c] <= log[c][k].bytes /\ log[c][k].bytes <= TouchedBytes(c)
LinesGrow(c) ==
  \A j, k \in Sent(c) : j < k =>
    /\ log[c][j].kind \in AllocKinds /\ log[c][k].kind \in AllocKinds =>
         log[c][j].bytes <= log[c][k].bytes
    /\ log[c][j].kind \in TouchKinds /\ log[c][k].kind \in TouchKinds =>
         log[c][j].bytes <= log[c][k].bytes
\* With the first n lines read, the parent knows all that c has reserved.
Told(c, n) ==
  \/ reserved[c] = ReservedBytes(c)
  \/ \E k \in 1 .. n : log[c][k].kind \in AllocKinds /\ log[c][k].bytes = ReservedBytes(c)
AllTold(c) ==
  /\ child[c] \in {"unborn"} \cup ChildPCs => Told(c, Len(log[c]))
  /\ \A k \in Sent(c) : log[c][k].kind \in EndKinds => Told(c, k)
  /\ allocDone[c] => reserved[c] = ReservedBytes(c)
  /\ child[c] \in Early => regions[c] = 0

View(c) == Within(c) /\ LinesBounded(c) /\ LinesGrow(c) /\ AllTold(c)
ViewInv == \A c \in Children : View(c)

\* A sequence and what it becomes by Append and by Tail.
LEMMA AppendFacts ==
  ASSUME NEW S, NEW q \in Seq(S), NEW x \in S
  PROVE  /\ Len(q) \in Nat /\ Len(Append(q, x)) = Len(q) + 1
         /\ \A k \in 1 .. Len(q) : Append(q, x)[k] = q[k]
         /\ Append(q, x)[Len(q) + 1] = x
OBVIOUS

LEMMA TailFacts ==
  ASSUME NEW S, NEW q \in Seq(S), q # <<>>
  PROVE  /\ Len(q) \in Nat \ {0} /\ Len(Tail(q)) = Len(q) - 1 /\ Head(q) = q[1]
         /\ \A k \in 1 .. Len(q) - 1 : Tail(q)[k] = q[k + 1]
OBVIOUS

\* More chunks, more bytes.
LEMMA BytesGrow ==
  ASSUME NEW j \in Nat, NEW k \in Nat
  PROVE  /\ j <= k => j * Chunk <= k * Chunk
         /\ j < k => j * Chunk < k * Chunk
         /\ (k + 1) * Chunk = k * Chunk + Chunk
BY ChunkAssumption

\* The types a child's view is made of.
LEMMA ViewTypes ==
  ASSUME TypeOK, NEW c \in Children
  PROVE  /\ reserved[c] \in Nat /\ touched[c] \in Nat
         /\ regions[c] \in Nat /\ touchedRegions[c] \in Nat
         /\ ReservedBytes(c) \in Nat /\ TouchedBytes(c) \in Nat
         /\ log[c] \in Seq(LineType) /\ Len(log[c]) \in Nat
         /\ \A k \in Sent(c) : log[c][k].bytes \in Nat /\ log[c][k].kind \in Lines
<1>1. /\ reserved[c] \in Nat /\ touched[c] \in Nat
      /\ regions[c] \in Nat /\ touchedRegions[c] \in Nat
      /\ log[c] \in Seq(LineType)
  BY DEF TypeOK
<1>2. ReservedBytes(c) \in Nat /\ TouchedBytes(c) \in Nat
  BY <1>1, BytesNat DEF ReservedBytes, TouchedBytes
<1>3. \A k \in Sent(c) : log[c][k] \in LineType
  BY <1>1 DEF Sent
<1> QED
  BY <1>1, <1>2, <1>3 DEF LineType

\* What a view depends on.
LEMMA ViewFrame ==
  ASSUME NEW c \in Children, View(c),
         reserved'[c] = reserved[c], touched'[c] = touched[c], allocDone'[c] = allocDone[c],
         regions'[c] = regions[c], touchedRegions'[c] = touchedRegions[c],
         log'[c] = log[c],
         child'[c] \in {"unborn"} \cup ChildPCs => child[c] \in {"unborn"} \cup ChildPCs,
         child'[c] \in Early => child[c] \in Early
  PROVE  View(c)'
BY DEF View, Within, LinesBounded, LinesGrow, AllTold, Told, Sent, ReservedBytes, TouchedBytes

\* A report that tells the truth keeps the view.
LEMMA ReportView ==
  ASSUME TypeOK, TypeOK', NEW c \in Children, View(c), child[c] \in ChildPCs,
         NEW kind \in Lines, NEW bytes \in Nat, NEW next \in ChildPCs \ Early,
         Report(c, kind, bytes, next),
         kind \in AllocKinds => bytes = ReservedBytes(c)',
         kind \in TouchKinds => bytes = TouchedBytes(c)',
         regions'[c] = regions[c] \/ (/\ regions'[c] = regions[c] + 1 /\ kind = "ALLOC_OK"
                                      /\ ~allocDone[c]
                                      /\ \A k \in Sent(c) : log[c][k].kind \notin EndKinds),
         touchedRegions'[c] \in {touchedRegions[c], touchedRegions[c] + 1},
         touchedRegions'[c] <= regions'[c]
  PROVE  View(c)'
<1> DEFINE R == ReservedBytes(c)  R1 == ReservedBytes(c)'
           T == TouchedBytes(c)   T1 == TouchedBytes(c)'
<1>1. /\ reserved'[c] = reserved[c] /\ touched'[c] = touched[c] /\ allocDone'[c] = allocDone[c]
  BY DEF Report, parentVars, viewVars
<1>2. /\ R \in Nat /\ T \in Nat /\ R1 \in Nat /\ T1 \in Nat /\ R <= R1 /\ T <= T1
      /\ regions'[c] = regions[c] => R1 = R
  <2>1. /\ regions[c] \in Nat /\ touchedRegions[c] \in Nat
        /\ regions'[c] \in Nat /\ touchedRegions'[c] \in Nat
    BY DEF TypeOK
  <2>2. regions[c] <= regions'[c] /\ touchedRegions[c] <= touchedRegions'[c]
    BY <2>1
  <2>3. /\ R \in Nat /\ T \in Nat /\ R1 \in Nat /\ T1 \in Nat
    BY <2>1, BytesNat DEF ReservedBytes, TouchedBytes
  <2>4. R <= R1 /\ T <= T1
    BY <2>1, <2>2, BytesGrow DEF ReservedBytes, TouchedBytes
  <2> QED
    BY <2>3, <2>4 DEF ReservedBytes
<1>3. Within(c)'
  BY <1>1, <1>2, ViewTypes DEF View, Within
<1> HIDE DEF R, R1, T, T1
<1>4. CASE UNCHANGED log /\ child' = [child EXCEPT ![c] = "gone"]
  <2>1. child'[c] = "gone"
    BY <1>4 DEF TypeOK
  <2>2. LinesBounded(c)'
    <3>1. ASSUME NEW k \in Sent(c)
          PROVE  /\ log[c][k].kind \in AllocKinds =>
                      reserved[c] <= log[c][k].bytes /\ log[c][k].bytes <= R1
                 /\ log[c][k].kind \in TouchKinds =>
                      touched[c] <= log[c][k].bytes /\ log[c][k].bytes <= T1
      <4>1. log[c][k].bytes \in Nat
        BY ViewTypes
      <4>2. /\ log[c][k].kind \in AllocKinds =>
                 reserved[c] <= log[c][k].bytes /\ log[c][k].bytes <= R
            /\ log[c][k].kind \in TouchKinds =>
                 touched[c] <= log[c][k].bytes /\ log[c][k].bytes <= T
        BY DEF View, LinesBounded, R, T
      <4>3. \A x \in Nat : (x <= R => x <= R1) /\ (x <= T => x <= T1)
        BY <1>2
      <4> QED
        BY <4>1, <4>2, <4>3
    <3> QED
      BY <1>1, <1>4, <3>1 DEF LinesBounded, Sent, R1, T1
  <2>3. LinesGrow(c)'
    BY <1>4 DEF View, LinesGrow, Sent
  <2>4. AllTold(c)'
    BY <1>1, <1>2, <1>4, <2>1 DEF View, AllTold, Told, Sent, R, R1, ChildPCs, Early
  <2> QED
    BY <1>3, <2>2, <2>3, <2>4 DEF View
<1>5. CASE /\ log' = [log EXCEPT ![c] = Append(@, Line(kind, bytes))]
           /\ child' = [child EXCEPT ![c] = next]
  <2>0. PICK n \in Nat : n = Len(log[c])
    BY ViewTypes
  <2>1. Line(kind, bytes) \in LineType /\ Line(kind, bytes).kind = kind
        /\ Line(kind, bytes).bytes = bytes
    BY DEF Line, LineType
  <2>2. /\ n \in Nat /\ Len(log'[c]) = n + 1 /\ child'[c] = next
        /\ \A k \in 1 .. n : log'[c][k] = log[c][k]
        /\ log'[c][n + 1].kind = kind /\ log'[c][n + 1].bytes = bytes
    BY <1>5, <2>0, <2>1, AppendFacts DEF TypeOK
  <2>3. \A k \in Sent(c) : log[c][k].bytes \in Nat
    BY ViewTypes
  <2>4. Sent(c)' = 1 .. n + 1 /\ Sent(c) = 1 .. n
    BY <2>0, <2>2 DEF Sent
  <2>5. /\ Within(c) /\ reserved[c] \in Nat /\ touched[c] \in Nat
        /\ reserved[c] <= R /\ touched[c] <= T
    BY ViewTypes DEF View, Within, R, T
  <2>b. \A k \in 1 .. n :
          /\ log[c][k].kind \in AllocKinds =>
               reserved[c] <= log[c][k].bytes /\ log[c][k].bytes <= R
          /\ log[c][k].kind \in TouchKinds =>
               touched[c] <= log[c][k].bytes /\ log[c][k].bytes <= T
    BY <2>4 DEF View, LinesBounded, R, T
  <2>6. LinesBounded(c)'
    <3>1. ASSUME NEW k \in 1 .. n + 1
          PROVE  /\ log'[c][k].kind \in AllocKinds =>
                      reserved[c] <= log'[c][k].bytes /\ log'[c][k].bytes <= R1
                 /\ log'[c][k].kind \in TouchKinds =>
                      touched[c] <= log'[c][k].bytes /\ log'[c][k].bytes <= T1
      <4>1. CASE k = n + 1
        BY <1>2, <2>2, <2>5, <4>1 DEF R1, T1
      <4>2. CASE k # n + 1
        <5>1. k \in 1 .. n
          BY <4>2
        <5>2. log'[c][k] = log[c][k] /\ log[c][k].bytes \in Nat
          BY <2>2, <2>3, <2>4, <5>1
        <5>3. /\ log[c][k].kind \in AllocKinds =>
                   reserved[c] <= log[c][k].bytes /\ log[c][k].bytes <= R
              /\ log[c][k].kind \in TouchKinds =>
                   touched[c] <= log[c][k].bytes /\ log[c][k].bytes <= T
          BY <2>b, <5>1
        <5>4. \A x \in Nat : (x <= R => x <= R1) /\ (x <= T => x <= T1)
          BY <1>2
        <5> QED
          BY <5>2, <5>3, <5>4
      <4> QED
        BY <4>1, <4>2
    <3> QED
      BY <1>1, <2>4, <3>1 DEF LinesBounded, R1, T1
  <2>7. LinesGrow(c)'
    <3>1. ASSUME NEW j \in 1 .. n + 1, NEW k \in 1 .. n + 1, j < k
          PROVE  /\ log'[c][j].kind \in AllocKinds /\ log'[c][k].kind \in AllocKinds =>
                      log'[c][j].bytes <= log'[c][k].bytes
                 /\ log'[c][j].kind \in TouchKinds /\ log'[c][k].kind \in TouchKinds =>
                      log'[c][j].bytes <= log'[c][k].bytes
      <4>0. j \in 1 .. n
        BY <3>1
      <4>1. CASE k = n + 1
        <5>1. log'[c][j] = log[c][j] /\ log[c][j].bytes \in Nat
          BY <2>2, <2>3, <2>4, <4>0
        <5>2. /\ log[c][j].kind \in AllocKinds => log[c][j].bytes <= R
              /\ log[c][j].kind \in TouchKinds => log[c][j].bytes <= T
          BY <2>b, <4>0
        <5>3. \A x \in Nat : (x <= R => x <= R1) /\ (x <= T => x <= T1)
          BY <1>2
        <5>4. /\ log'[c][k].kind \in AllocKinds => log'[c][k].bytes = R1
              /\ log'[c][k].kind \in TouchKinds => log'[c][k].bytes = T1
          BY <2>2, <4>1 DEF R1, T1
        <5> QED
          BY <5>1, <5>2, <5>3, <5>4
      <4>2. CASE k # n + 1
        <5>1. k \in 1 .. n
          BY <4>2
        <5> QED
          BY <2>2, <2>4, <3>1, <4>0, <5>1 DEF View, LinesGrow
      <4> QED
        BY <4>1, <4>2
    <3> QED
      BY <2>4, <3>1 DEF LinesGrow
  <2>8. Told(c, n)
    BY <2>0 DEF View, AllTold
  <2>9. Told(c, n + 1)'
    <3>1. CASE kind \in AllocKinds
      <4>1. n + 1 \in 1 .. n + 1
        OBVIOUS
      <4> QED
        BY <2>2, <3>1, <4>1 DEF Told
    <3>2. CASE kind \notin AllocKinds
      <4>1. R1 = R
        BY <1>2, <3>2 DEF AllocKinds
      <4>2. CASE reserved[c] = R
        BY <1>1, <4>1, <4>2 DEF Told, R, R1
      <4>3. ASSUME NEW k \in 1 .. n, log[c][k].kind \in AllocKinds, log[c][k].bytes = R
            PROVE  Told(c, n + 1)'
        <5>1. k \in 1 .. n + 1 /\ log'[c][k] = log[c][k]
          BY <2>2
        <5> QED
          BY <4>1, <4>3, <5>1 DEF Told, R1
      <4> QED
        BY <2>8, <4>2, <4>3 DEF Told, R
    <3> QED
      BY <3>1, <3>2
  <2>10. \A k \in 1 .. n : log[c][k].kind \in EndKinds => Told(c, k)'
    <3> SUFFICES ASSUME NEW k \in 1 .. n, log[c][k].kind \in EndKinds PROVE Told(c, k)'
      OBVIOUS
    <3>1. Told(c, k) /\ R1 = R
      BY <1>2, <2>4 DEF View, AllTold
    <3>2. 1 .. k \subseteq 1 .. n
      BY <2>2
    <3> QED
      BY <1>1, <2>2, <3>1, <3>2 DEF Told, R, R1
  <2>11. /\ child'[c] \in {"unborn"} \cup ChildPCs => Told(c, Len(log[c]))'
         /\ child'[c] \in Early => regions'[c] = 0
    BY <2>2, <2>9
  <2>12. \A k \in Sent(c)' : log'[c][k].kind \in EndKinds => Told(c, k)'
    <3>1. ASSUME NEW k \in 1 .. n + 1, log'[c][k].kind \in EndKinds PROVE Told(c, k)'
      <4>1. CASE k = n + 1
        BY <2>9, <4>1
      <4>2. CASE k \in 1 .. n
        BY <2>2, <2>10, <3>1, <4>2
      <4> QED
        BY <2>2, <4>1, <4>2
    <3> QED
      BY <2>4, <3>1
  <2>13. allocDone'[c] => reserved'[c] = ReservedBytes(c)'
    BY <1>1, <1>2 DEF View, AllTold, R, R1
  <2>14. AllTold(c)'
    BY <2>11, <2>12, <2>13 DEF AllTold
  <2> QED
    BY <1>3, <2>6, <2>7, <2>14 DEF View
<1> QED
  BY <1>4, <1>5 DEF Report

\* A child and what it shares with the parent, as a step leaves them.
Unmoved(d) ==
  /\ child'[d] = child[d] /\ log'[d] = log[d] /\ cmds'[d] = cmds[d]
  /\ regions'[d] = regions[d] /\ touchedRegions'[d] = touchedRegions[d]

\* A child's step concerns no other child, and nothing of the parent's but the
\* signal.
LEMMA ChildAlone ==
  ASSUME TypeOK, NEW c \in Children, ChildStep(c) \/ Kill(c)
  PROVE  /\ \A d \in Children \ {c} : Unmoved(d)
         /\ UNCHANGED <<parent, forked, viewVars, phaseVars>>
<1> USE DEF parentVars, workVars
<1>0. /\ child \in [Children -> {"unborn"} \cup ChildPCs \cup DeadPCs]
      /\ regions \in [Children -> Nat] /\ touchedRegions \in [Children -> Nat]
      /\ log \in [Children -> Seq(LineType)] /\ cmds \in [Children -> Seq(Commands)]
  BY DEF TypeOK
<1>1. \A kind, bytes, next : Report(c, kind, bytes, next) =>
        /\ \A d \in Children \ {c} : child'[d] = child[d] /\ log'[d] = log[d]
        /\ UNCHANGED <<parent, forked, viewVars, phaseVars, cmds>>
  BY <1>0 DEF Report
<1>2. \A from, to : ChildMoves(c, from, to) =>
        /\ \A d \in Children \ {c} : Unmoved(d)
        /\ UNCHANGED <<parent, forked, viewVars, phaseVars>>
  BY <1>0 DEF ChildMoves, Unmoved
<1>3. CASE Calloc(c) \/ MapFails(c) \/ CloseAll(c)
  BY <1>2, <1>3 DEF Calloc, MapFails, CloseAll
<1>4. CASE CallocFail(c) \/ Start(c) \/ ReportMapFail(c) \/ ReportAllocDone(c) \/ Exit(c)
  BY <1>1, <1>4
  DEF CallocFail, Start, ReportMapFail, ReportAllocDone, Exit, Unmoved
<1>5. CASE MapChunk(c)
  BY <1>0, <1>1, <1>5 DEF MapChunk, Unmoved
<1>6. CASE Touch(c)
  <2>1. \A d \in Children \ {c} : touchedRegions'[d] = touchedRegions[d]
    BY <1>0, <1>6 DEF Touch
  <2>2. \E kind, bytes, next : Report(c, kind, bytes, next)
    BY <1>6 DEF Touch
  <2> QED
    BY <1>1, <1>6, <2>1, <2>2 DEF Touch, Unmoved
<1>7. CASE ReadCmd(c)
  <2>1. \A d \in Children \ {c} : child'[d] = child[d] /\ cmds'[d] = cmds[d]
    BY <1>0, <1>7 DEF ReadCmd
  <2> QED
    BY <1>7, <2>1 DEF ReadCmd, Unmoved
<1>8. CASE Notify(c)
  BY <1>0, <1>8 DEF Notify, Unmoved
<1>9. CASE Kill(c)
  BY <1>0, <1>9 DEF Kill, Unmoved
<1> QED
  BY <1>3, <1>4, <1>5, <1>6, <1>7, <1>8, <1>9 DEF ChildStep

\* What a child does keeps what the parent may believe of it.
LEMMA ChildView ==
  ASSUME TypeOK, TypeOK', BarrierInv, NEW c \in Children, View(c),
         ChildStep(c) \/ Kill(c)
  PROVE  View(c)'
<1> USE DEF parentVars, workVars
<1>0. /\ UNCHANGED viewVars /\ regions[c] \in Nat /\ touchedRegions[c] \in Nat
      /\ touchedRegions[c] <= regions[c]
      /\ child \in [Children -> {"unborn"} \cup ChildPCs \cup DeadPCs]
      /\ regions \in [Children -> Nat] /\ touchedRegions \in [Children -> Nat]
  BY ChildAlone DEF TypeOK, View, Within
<1>1. ASSUME NEW from \in ChildPCs \ Early, NEW to, ChildMoves(c, from, to),
             to \notin Early
      PROVE  View(c)'
  <2>1. /\ UNCHANGED <<regions, touchedRegions, log>> /\ child[c] \in ChildPCs
        /\ child'[c] = to
    BY <1>0, <1>1 DEF ChildMoves
  <2> QED
    BY <1>0, <1>1, <2>1, ViewFrame DEF viewVars
<1>2. ASSUME NEW kind \in Lines, NEW bytes \in Nat, NEW next \in ChildPCs \ Early,
             Report(c, kind, bytes, next), UNCHANGED workVars, child[c] \in ChildPCs,
             kind \in AllocKinds => bytes = ReservedBytes(c),
             kind \in TouchKinds => bytes = TouchedBytes(c)
      PROVE  View(c)'
  <2>1. ReservedBytes(c)' = ReservedBytes(c) /\ TouchedBytes(c)' = TouchedBytes(c)
    BY <1>2 DEF ReservedBytes, TouchedBytes
  <2>2. regions'[c] = regions[c] /\ touchedRegions'[c] = touchedRegions[c]
    BY <1>2
  <2> QED
    BY <1>0, <1>2, <2>1, <2>2, ReportView
<1>3. ReservedBytes(c) \in Nat /\ TouchedBytes(c) \in Nat
  BY ViewTypes
<1>4. CASE Calloc(c)
  <2>1. /\ UNCHANGED <<regions, touchedRegions, log>> /\ child[c] \in Early
        /\ child[c] \in ChildPCs
    BY <1>4 DEF Calloc, ChildMoves, Early, ChildPCs
  <2> QED
    BY <1>0, <2>1, ViewFrame DEF viewVars
<1>5. CASE CallocFail(c)
  <2>1. ReservedBytes(c) = 0
    <3>1. regions[c] = 0
      BY <1>5 DEF CallocFail, View, AllTold, Early
    <3> QED
      BY <3>1, ChunkAssumption DEF ReservedBytes
  <2> QED
    BY <1>2, <1>5, <2>1 DEF CallocFail, Lines, ChildPCs, Early, TouchKinds
<1>6. CASE Start(c)
  BY <1>2, <1>6 DEF Start, Lines, ChildPCs, Early, TouchKinds, AllocKinds
<1>7. CASE MapChunk(c)
  <2>1. /\ child[c] = "map" /\ regions'[c] = regions[c] + 1
        /\ touchedRegions'[c] = touchedRegions[c]
        /\ Report(c, "ALLOC_OK", ReservedBytes(c) + Chunk, "map")
    BY <1>0, <1>7 DEF MapChunk
  <2>2. ReservedBytes(c)' = ReservedBytes(c) + Chunk
    BY <1>0, <2>1, BytesGrow DEF ReservedBytes
  <2>3. ReservedBytes(c) + Chunk \in Nat
    BY <1>3, ChunkAssumption
  <2>4. Reserving(c)
    BY <2>1 DEF Reserving, ReservingPCs
  <2>5. ~allocDone[c] /\ \A k \in Sent(c) : log[c][k].kind \notin EndKinds
    BY <2>4 DEF BarrierInv, SeenMeansFinished, SentMeansFinished, Sent
  <2>6. touchedRegions'[c] <= regions'[c]
    BY <1>0, <2>1
  <2>7. "map" \in ChildPCs \ Early /\ "ALLOC_OK" \in Lines /\ "ALLOC_OK" \notin TouchKinds
    BY DEF ChildPCs, Early, Lines, TouchKinds
  <2> QED
    BY <2>1, <2>2, <2>3, <2>5, <2>6, <2>7, ReportView
<1>8. CASE MapFails(c)
  BY <1>1, <1>8 DEF MapFails, ChildPCs, Early
<1>9. CASE ReportMapFail(c)
  BY <1>2, <1>3, <1>9 DEF ReportMapFail, Lines, ChildPCs, Early, TouchKinds, AllocKinds
<1>10. CASE ReportAllocDone(c)
  BY <1>2, <1>3, <1>10 DEF ReportAllocDone, Lines, ChildPCs, Early, TouchKinds
<1>11. CASE ReadCmd(c)
  <2>1. /\ UNCHANGED <<regions, touchedRegions, log>> /\ child[c] \in ChildPCs
        /\ child'[c] \notin Early
    BY <1>0, <1>11 DEF ReadCmd, ChildPCs, Early
  <2> QED
    BY <1>0, <2>1, ViewFrame DEF viewVars
<1>12. CASE Touch(c)
  <2>1. child[c] = "touch" /\ "touch" \in ChildPCs /\ "cmd" \in ChildPCs \ Early
    BY <1>12 DEF Touch, ChildPCs, Early
  <2>2. CASE touchedRegions[c] < regions[c]
    <3>1. /\ touchedRegions'[c] = touchedRegions[c] + 1 /\ regions'[c] = regions[c]
          /\ Report(c, "TOUCH_OK", TouchedBytes(c) + Chunk, "cmd")
      BY <1>0, <1>12, <2>2 DEF Touch
    <3>2. TouchedBytes(c)' = TouchedBytes(c) + Chunk
      BY <1>0, <3>1, BytesGrow DEF TouchedBytes
    <3>3. TouchedBytes(c) + Chunk \in Nat
      BY <1>3, ChunkAssumption
    <3>4. touchedRegions'[c] <= regions'[c]
      BY <1>0, <2>2, <3>1
    <3>5. "TOUCH_OK" \in Lines \ AllocKinds
      BY DEF Lines, AllocKinds
    <3> QED
      BY <2>1, <3>1, <3>2, <3>3, <3>4, <3>5, ReportView
  <2>3. CASE ~(touchedRegions[c] < regions[c])
    <3>1. /\ UNCHANGED workVars /\ Report(c, "TOUCH_DONE", TouchedBytes(c), "cmd")
      BY <1>12, <2>3 DEF Touch
    <3>2. "TOUCH_DONE" \in Lines \ AllocKinds
      BY DEF Lines, AllocKinds
    <3> QED
      BY <1>2, <1>3, <2>1, <3>1, <3>2
  <2> QED
    BY <2>2, <2>3
<1>13. CASE Exit(c)
  BY <1>2, <1>3, <1>13 DEF Exit, Lines, ChildPCs, Early, TouchKinds, AllocKinds
<1>14. CASE CloseAll(c)
  BY <1>1, <1>14 DEF CloseAll, ChildPCs, Early
<1>15. CASE Notify(c) \/ Kill(c)
  <2>1. /\ UNCHANGED <<regions, touchedRegions, log>>
        /\ child'[c] \in {"gone", "zombie"}
    BY <1>0, <1>15 DEF Notify, Kill
  <2>2. child'[c] \notin {"unborn"} \cup ChildPCs /\ child'[c] \notin Early
    BY <2>1 DEF ChildPCs, Early
  <2> QED
    BY <1>0, <2>1, <2>2, ViewFrame DEF viewVars
<1> QED
  BY <1>4, <1>5, <1>6, <1>7, <1>8, <1>9, <1>10, <1>11, <1>12, <1>13, <1>14, <1>15
  DEF ChildStep

\* Reading a line of c tells the parent no more than is true, and it misses
\* nothing by it.
LEMMA ReadView ==
  ASSUME TypeOK, TypeOK', NEW c \in Children, View(c), log[c] # <<>>,
         Consume(c, Head(log[c])), log' = [log EXCEPT ![c] = Tail(@)],
         UNCHANGED <<child, regions, touchedRegions>>
  PROVE  /\ View(c)'
         /\ reserved'[c] >= reserved[c] /\ touched'[c] >= touched[c]
<1> DEFINE R == ReservedBytes(c)  T == TouchedBytes(c)
<1>0. log[c] \in Seq(LineType)
  BY DEF TypeOK
<1>a. Len(log[c]) - 1 \in Nat
  BY <1>0, TailFacts
<1>1. PICK n \in Nat : n = Len(log[c]) - 1
  BY <1>a
<1>2. /\ Len(log[c]) = n + 1 /\ Len(log'[c]) = n /\ Head(log[c]) = log[c][1]
      /\ \A k \in 1 .. n : log'[c][k] = log[c][k + 1]
  BY <1>1, TailFacts DEF TypeOK
<1>3. PICK h \in LineType : h = log[c][1]
  BY <1>2 DEF TypeOK
<1>4. /\ reserved'[c] = (IF h.kind \in AllocKinds THEN h.bytes ELSE reserved[c])
      /\ touched'[c] = (IF h.kind \in TouchKinds THEN h.bytes ELSE touched[c])
      /\ allocDone'[c] => allocDone[c] \/ h.kind \in EndKinds
  BY <1>2, <1>3 DEF Consume, TypeOK, AllocKinds, TouchKinds, EndKinds
<1>5. /\ R \in Nat /\ T \in Nat /\ reserved[c] \in Nat /\ touched[c] \in Nat
      /\ h.bytes \in Nat /\ reserved[c] <= R /\ touched[c] <= T
      /\ reserved'[c] \in Nat /\ touched'[c] \in Nat
  BY ViewTypes DEF LineType, View, Within, TypeOK
<1>6. ReservedBytes(c)' = R /\ TouchedBytes(c)' = T
  BY DEF ReservedBytes, TouchedBytes
<1> HIDE DEF R, T
<1>7. Sent(c) = 1 .. n + 1 /\ Sent(c)' = 1 .. n
  BY <1>2 DEF Sent
<1>8. /\ h.kind \in AllocKinds => reserved[c] <= h.bytes /\ h.bytes <= R
      /\ h.kind \in TouchKinds => touched[c] <= h.bytes /\ h.bytes <= T
  BY <1>3, <1>7 DEF View, LinesBounded, R, T
<1>9. /\ reserved'[c] >= reserved[c] /\ touched'[c] >= touched[c]
      /\ reserved'[c] <= R /\ touched'[c] <= T
  BY <1>4, <1>5, <1>8
<1>10. Within(c)'
  BY <1>6, <1>9 DEF Within, View
<1>11. \A k \in 1 .. n : k + 1 \in 1 .. n + 1 /\ log[c][k + 1].bytes \in Nat
  BY <1>7, ViewTypes
<1>12. LinesBounded(c)'
  <2>1. ASSUME NEW k \in 1 .. n
        PROVE  /\ log'[c][k].kind \in AllocKinds =>
                    reserved'[c] <= log'[c][k].bytes /\ log'[c][k].bytes <= R
               /\ log'[c][k].kind \in TouchKinds =>
                    touched'[c] <= log'[c][k].bytes /\ log'[c][k].bytes <= T
    <3>1. /\ k + 1 \in 1 .. n + 1 /\ log[c][k + 1].bytes \in Nat
          /\ log'[c][k] = log[c][k + 1]
      BY <1>2, <1>11
    <3>0. 1 \in 1 .. n + 1 /\ 1 < k + 1
      OBVIOUS
    <3>2. /\ log[c][k + 1].kind \in AllocKinds =>
               reserved[c] <= log[c][k + 1].bytes /\ log[c][k + 1].bytes <= R
          /\ log[c][k + 1].kind \in TouchKinds =>
               touched[c] <= log[c][k + 1].bytes /\ log[c][k + 1].bytes <= T
      BY <1>7, <3>1 DEF View, LinesBounded, R, T
    <3>3. /\ h.kind \in AllocKinds /\ log[c][k + 1].kind \in AllocKinds =>
               h.bytes <= log[c][k + 1].bytes
          /\ h.kind \in TouchKinds /\ log[c][k + 1].kind \in TouchKinds =>
               h.bytes <= log[c][k + 1].bytes
      BY <1>3, <1>7, <3>0, <3>1 DEF View, LinesGrow
    <3> QED
      BY <1>4, <3>1, <3>2, <3>3
  <2> QED
    BY <1>6, <1>7, <2>1 DEF LinesBounded
<1>13. LinesGrow(c)'
  <2>1. ASSUME NEW j \in 1 .. n, NEW k \in 1 .. n, j < k
        PROVE  /\ log'[c][j].kind \in AllocKinds /\ log'[c][k].kind \in AllocKinds =>
                    log'[c][j].bytes <= log'[c][k].bytes
               /\ log'[c][j].kind \in TouchKinds /\ log'[c][k].kind \in TouchKinds =>
                    log'[c][j].bytes <= log'[c][k].bytes
    <3>1. /\ j + 1 \in Sent(c) /\ k + 1 \in Sent(c) /\ j + 1 < k + 1
          /\ log'[c][j] = log[c][j + 1] /\ log'[c][k] = log[c][k + 1]
      BY <1>2, <1>7, <2>1
    <3> QED
      BY <3>1 DEF View, LinesGrow
  <2> QED
    BY <1>7, <2>1 DEF LinesGrow
<1>14. ASSUME NEW m \in 0 .. n, Told(c, m + 1) PROVE Told(c, m)'
  <2>1. CASE reserved[c] = R
    BY <1>4, <1>5, <1>6, <1>8, <2>1 DEF Told
  <2>2. ASSUME NEW k \in 1 .. m + 1, log[c][k].kind \in AllocKinds, log[c][k].bytes = R
        PROVE  Told(c, m)'
    <3>1. CASE k = 1
      BY <1>3, <1>4, <1>6, <2>2, <3>1 DEF Told
    <3>2. CASE k # 1
      <4>1. k - 1 \in 1 .. m /\ k - 1 \in 1 .. n /\ (k - 1) + 1 = k
        BY <3>2
      <4>2. log'[c][k - 1] = log[c][k]
        BY <1>2, <4>1
      <4> QED
        BY <1>6, <2>2, <4>1, <4>2 DEF Told
    <3> QED
      BY <3>1, <3>2
  <2> QED
    BY <1>14, <2>1, <2>2 DEF Told, R
<1>15. AllTold(c)'
  <2>1. child[c] \in {"unborn"} \cup ChildPCs => Told(c, n)'
    BY <1>2, <1>14 DEF View, AllTold
  <2>2. ASSUME NEW k \in 1 .. n, log'[c][k].kind \in EndKinds PROVE Told(c, k)'
    <3>1. k + 1 \in Sent(c) /\ log[c][k + 1].kind \in EndKinds /\ k \in 0 .. n
      BY <1>2, <1>7, <2>2
    <3> QED
      BY <1>14, <3>1 DEF View, AllTold
  <2>3. allocDone'[c] => reserved'[c] = R
    <3>1. CASE allocDone[c]
      BY <1>4, <1>5, <1>8, <3>1 DEF View, AllTold, R
    <3>2. CASE h.kind \in EndKinds
      <4>1. Told(c, 1)
        BY <1>3, <1>7, <3>2 DEF View, AllTold
      <4>2. Told(c, 0)'
        BY <1>14, <4>1
      <4> QED
        BY <1>6, <4>2 DEF Told
    <3> QED
      BY <1>4, <3>1, <3>2
  <2> QED
    BY <1>2, <1>6, <1>7, <2>1, <2>2, <2>3 DEF AllTold, View
<1> QED
  BY <1>9, <1>10, <1>12, <1>13, <1>15 DEF View

\* What the parent does keeps what it may believe, and reports only grow.
LEMMA ParentView ==
  ASSUME TypeOK, TypeOK', ForkOrder, ViewInv, ParentStep \/ ClockTick \/ UNCHANGED vars
  PROVE  /\ ViewInv'
         /\ \A c \in Children : /\ reserved'[c] >= reserved[c]
                                /\ touched'[c] >= touched[c]
                                /\ allocDone[c] => allocDone'[c]
<1> USE DEF viewVars, phaseVars, clockVars, parentVars, workVars
<1>0. \A c \in Children : View(c) /\ reserved[c] \in Nat /\ touched[c] \in Nat
  BY DEF ViewInv, TypeOK
<1>1. ASSUME UNCHANGED <<allocDone, reserved, touched, regions, touchedRegions>>,
             \A c \in Children :
               /\ log'[c] = log[c]
               /\ child'[c] = child[c] \/ (child[c] = "unborn" /\ child'[c] = "calloc")
      PROVE  /\ ViewInv'
             /\ \A c \in Children : /\ reserved'[c] >= reserved[c]
                                    /\ touched'[c] >= touched[c]
                                    /\ allocDone[c] => allocDone'[c]
  <2>1. ASSUME NEW c \in Children PROVE View(c)'
    <3>1. /\ child'[c] \in {"unborn"} \cup ChildPCs => child[c] \in {"unborn"} \cup ChildPCs
          /\ child'[c] \in Early => child[c] \in Early
      BY <1>1 DEF Early
    <3> QED
      BY <1>0, <1>1, <3>1, ViewFrame
  <2> QED
    BY <1>0, <1>1, <2>1 DEF ViewInv
<1>2. CASE Spawn
  BY <1>1, <1>2 DEF Spawn, ForkOrder, TypeOK, Children
<1>3. ASSUME NEW c \in Children, Reap(c)
      PROVE  /\ ViewInv'
             /\ \A d \in Children : /\ reserved'[d] >= reserved[d]
                                    /\ touched'[d] >= touched[d]
                                    /\ allocDone[d] => allocDone'[d]
  <2>1. /\ UNCHANGED <<allocDone, reserved, touched, regions, touchedRegions>>
        /\ log'[c] = <<>> /\ child'[c] = "reaped"
        /\ \A d \in Children \ {c} : log'[d] = log[d] /\ child'[d] = child[d]
    BY <1>3 DEF Reap, TypeOK
  <2>2. Sent(c)' = {}
    BY <2>1 DEF Sent
  <2>3. View(c)'
    <3>1. Within(c)' /\ LinesBounded(c)' /\ LinesGrow(c)'
      BY <1>0, <2>1, <2>2 DEF View, Within, LinesBounded, LinesGrow, ReservedBytes, TouchedBytes
    <3>2. AllTold(c)'
      BY <1>0, <2>1, <2>2 DEF View, AllTold, ReservedBytes, ChildPCs, Early
    <3> QED
      BY <3>1, <3>2 DEF View
  <2>4. ASSUME NEW d \in Children \ {c} PROVE View(d)'
    BY <1>0, <2>1, ViewFrame
  <2> QED
    BY <1>0, <2>1, <2>3, <2>4 DEF ViewInv
<1>4. CASE ReadLine
  <2>1. PICK c \in Children : /\ log[c] # <<>> /\ Consume(c, Head(log[c]))
                              /\ log' = [log EXCEPT ![c] = Tail(@)]
    BY <1>4 DEF ReadLine
  <2>2. UNCHANGED <<child, regions, touchedRegions>>
    BY <1>4 DEF ReadLine
  <2>3. View(c)' /\ reserved'[c] >= reserved[c] /\ touched'[c] >= touched[c]
    BY <1>0, <2>1, <2>2, ReadView
  <2>4. /\ \A d \in Children \ {c} : /\ reserved'[d] = reserved[d] /\ touched'[d] = touched[d]
                                     /\ allocDone'[d] = allocDone[d] /\ log'[d] = log[d]
        /\ allocDone[c] => allocDone'[c]
    BY <2>1 DEF Consume, TypeOK
  <2>5. ASSUME NEW d \in Children \ {c} PROVE View(d)'
    BY <1>0, <2>2, <2>4, ViewFrame
  <2> QED
    BY <1>0, <2>3, <2>4, <2>5 DEF ViewInv
<1>5. CASE SpawnFails \/ Select \/ CheckSignal \/ ReapEnd \/ ClearFlag \/ ReadEof \/ ReadEnd
  BY <1>1, <1>5 DEF SpawnFails, Select, CheckSignal, ReapEnd, ClearFlag, ReadEof, ReadEnd
<1>6. CASE Decide \/ RequestTouch \/ EndIteration \/ TellQuit \/ TellEnd
  BY <1>1, <1>6 DEF Decide, RequestTouch, EndIteration, TellQuit, TellEnd
<1>7. CASE ClockTick \/ UNCHANGED vars
  BY <1>1, <1>7 DEF ClockTick, vars
<1> QED
  BY <1>2, <1>3, <1>4, <1>5, <1>6, <1>7 DEF ParentStep

LEMMA InitView == Init => ViewInv
<1> SUFFICES ASSUME Init, NEW c \in Children PROVE View(c)
  BY DEF ViewInv
<1>1. /\ regions[c] = 0 /\ touchedRegions[c] = 0 /\ reserved[c] = 0 /\ touched[c] = 0
      /\ log[c] = <<>> /\ ~allocDone[c]
  BY DEF Init
<1>2. ReservedBytes(c) = 0 /\ TouchedBytes(c) = 0
  BY <1>1, ChunkAssumption DEF ReservedBytes, TouchedBytes
<1>3. Sent(c) = {}
  BY <1>1 DEF Sent
<1> QED
  BY <1>1, <1>2, <1>3 DEF View, Within, LinesBounded, LinesGrow, AllTold, Told

LEMMA NextView ==
  ASSUME TypeOK, TypeOK', ForkOrder, BarrierInv, ViewInv, [Next]_vars
  PROVE  /\ ViewInv'
         /\ \A c \in Children : /\ reserved'[c] >= reserved[c]
                                /\ touched'[c] >= touched[c]
                                /\ allocDone[c] => allocDone'[c]
<1>1. ASSUME NEW c \in Children, ChildStep(c) \/ Kill(c)
      PROVE  /\ ViewInv'
             /\ \A d \in Children : /\ reserved'[d] >= reserved[d]
                                    /\ touched'[d] >= touched[d]
                                    /\ allocDone[d] => allocDone'[d]
  <2>1. UNCHANGED <<allocDone, reserved, touched>>
    BY <1>1, ChildAlone DEF viewVars
  <2>2. View(c)'
    BY <1>1, ChildView DEF ViewInv
  <2>3. ASSUME NEW d \in Children \ {c} PROVE View(d)'
    <3>1. Unmoved(d)
      BY <1>1, ChildAlone
    <3> QED
      BY <2>1, <3>1, ViewFrame DEF Unmoved, ViewInv
  <2>4. \A d \in Children : reserved[d] \in Nat /\ touched[d] \in Nat
    BY DEF TypeOK
  <2> QED
    BY <2>1, <2>2, <2>3, <2>4 DEF ViewInv
<1> QED
  BY <1>1, ParentView DEF Next, Ended

\* What a child has reported is never taken back, however many lines are under
\* way and whatever fails.
THEOREM ReportsHold == Spec => ReportsOnlyGrow
<1>1. Spec => []TypeOK
  BY TypeCorrect
<1>2. Spec => []ForkOrder
  BY <1>1, InitForkOrder, NextForkOrder, PTL DEF Spec
<1>3. Spec => []BarrierInv
  BY <1>1, <1>2, InitBarrier, NextBarrier, PTL DEF Spec
<1>4. TypeOK /\ TypeOK' /\ ForkOrder /\ BarrierInv /\ ViewInv /\ [Next]_vars => ViewInv'
  BY NextView
<1>5. Spec => []ViewInv
  BY <1>1, <1>2, <1>3, <1>4, InitView, PTL DEF Spec
<1>6. TypeOK /\ TypeOK' /\ ForkOrder /\ BarrierInv /\ ViewInv /\ [Next]_vars =>
        [\A c \in Children : /\ reserved'[c] >= reserved[c]
                             /\ touched'[c] >= touched[c]
                             /\ allocDone[c] => allocDone'[c]]_vars
  BY NextView
<1> QED
  BY <1>1, <1>2, <1>3, <1>5, <1>6, PTL DEF Spec, ReportsOnlyGrow
-----------------------------------------------------------------------------
(***************************************************************************)
(* What the parent may rely on.  Its descriptors follow the life of a      *)
(* child, and the 'Q' goes to children that have touched everything.       *)
(***************************************************************************)
LivesInv ==
  /\ \A c \in Children : /\ alive[c] <=> child[c] \notin {"unborn", "reaped"}
                         /\ toFd[c] <=> alive[c]
                         /\ fromFd[c] => alive[c]
  /\ parent \notin {"fork", "die"} => \A c \in Children : child[c] # "unborn"
  /\ parent = "fork" => \A c \in Children : child[c] = "unborn" <=> c >= forked
  /\ parent = "done" => \A c \in Children : child[c] = "reaped"

Dismissed(c) == HasQuit(c) \/ child[c] = "exit" \/ (parent = "tell" /\ c \in untold)
QuitsInv == \A c \in Children :
              Dismissed(c) => touchPhase /\ touchedRegions[c] = regions[c]

\* A child that does something has been born and not been waited for.
LEMMA ChildRuns ==
  ASSUME TypeOK, NEW c \in Children, ChildStep(c) \/ Kill(c)
  PROVE  /\ child[c] \in ChildPCs \cup {"gone"}
         /\ child'[c] \in ChildPCs \cup {"gone", "zombie"}
<1>0. child \in [Children -> {"unborn"} \cup ChildPCs \cup DeadPCs]
  BY DEF TypeOK
<1>1. \A kind, bytes : \A next \in ChildPCs : Report(c, kind, bytes, next) =>
        child'[c] \in ChildPCs \cup {"gone", "zombie"}
  BY <1>0 DEF Report
<1>2. CASE CallocFail(c) \/ Start(c) \/ MapChunk(c) \/ ReportMapFail(c)
           \/ ReportAllocDone(c)
  BY <1>1, <1>2 DEF CallocFail, Start, MapChunk, ReportMapFail, ReportAllocDone, ChildPCs
<1>3. CASE Touch(c) \/ Exit(c)
  BY <1>1, <1>3 DEF Touch, Exit, ChildPCs
<1>4. CASE Calloc(c) \/ MapFails(c) \/ CloseAll(c)
  BY <1>0, <1>4 DEF Calloc, MapFails, CloseAll, ChildMoves, ChildPCs
<1>5. CASE ReadCmd(c) \/ Notify(c) \/ Kill(c)
  BY <1>0, <1>5 DEF ReadCmd, Notify, Kill, ChildUp, ChildPCs
<1> QED
  BY <1>2, <1>3, <1>4, <1>5 DEF ChildStep

LEMMA InitLives == Init => LivesInv /\ QuitsInv
<1> SUFFICES ASSUME Init PROVE LivesInv /\ QuitsInv
  OBVIOUS
<1>1. LivesInv
  BY NAssumption DEF Init, LivesInv, Children
<1>2. QuitsInv
  BY DEF Init, QuitsInv, Dismissed, HasQuit
<1> QED
  BY <1>1, <1>2

LEMMA NextLives ==
  ASSUME TypeOK, LivesInv, [Next]_vars PROVE LivesInv'
<1> USE DEF viewVars, phaseVars, clockVars, parentVars, workVars
<1>1. ASSUME NEW c \in Children, ChildStep(c) \/ Kill(c) PROVE LivesInv'
  <2>1. /\ \A d \in Children \ {c} : child'[d] = child[d]
        /\ UNCHANGED <<parent, forked, alive, fromFd, toFd>>
    BY <1>1, ChildAlone DEF Unmoved
  <2>2. /\ child[c] \notin {"unborn", "reaped"} /\ child'[c] \notin {"unborn", "reaped"}
    BY <1>1, ChildRuns DEF ChildPCs
  <2> QED
    BY <2>1, <2>2 DEF LivesInv
<1>2. CASE Spawn
  <2>1. /\ forked \in Children /\ parent = "fork" /\ forked' = forked + 1
        /\ parent' = IF forked + 1 = N THEN "select" ELSE "fork"
    BY <1>2, NAssumption DEF Spawn, TypeOK, Children
  <2>2. /\ child'[forked] = "calloc" /\ alive'[forked] /\ toFd'[forked]
        /\ \A d \in Children \ {forked} :
             /\ child'[d] = child[d] /\ alive'[d] = alive[d] /\ toFd'[d] = toFd[d]
             /\ fromFd'[d] = fromFd[d]
    BY <1>2, <2>1 DEF Spawn, TypeOK
  <2>3. \A d \in Children : child'[d] = "unborn" <=> d >= forked + 1
    BY <2>1, <2>2 DEF LivesInv, Children
  <2>4. forked + 1 = N => \A d \in Children : child'[d] # "unborn"
    BY <2>3, NAssumption DEF Children
  <2> QED
    BY <2>1, <2>2, <2>3, <2>4 DEF LivesInv
<1>3. ASSUME NEW c \in Children, Reap(c) PROVE LivesInv'
  BY <1>3 DEF Reap, LivesInv, TypeOK
<1>4. CASE EndIteration
  BY <1>4 DEF EndIteration, LivesInv, AnyoneAlive
<1>5. CASE ReadEof
  BY <1>5 DEF ReadEof, LivesInv, TypeOK
<1>6. CASE SpawnFails \/ Select \/ CheckSignal \/ ReapEnd \/ ClearFlag \/ ReadLine \/ ReadEnd
  BY <1>6 DEF SpawnFails, Select, CheckSignal, ReapEnd, ClearFlag, ReadLine, ReadEnd, LivesInv
<1>7. CASE Decide \/ RequestTouch \/ TellQuit \/ TellEnd \/ ClockTick \/ Ended \/ UNCHANGED vars
  BY <1>7 DEF Decide, RequestTouch, TellQuit, TellEnd, ClockTick, Ended, vars, LivesInv
<1> QED
  BY <1>1, <1>2, <1>3, <1>4, <1>5, <1>6, <1>7 DEF Next, ParentStep

\* Once the touch phase has begun the parent knows all that was reserved.
LEMMA PhaseKnows ==
  ASSUME BarrierInv, ViewInv, touchPhase, NEW c \in Children
  PROVE  ~Reserving(c) /\ reserved[c] = ReservedBytes(c)
<1>1. allocDone[c]
  BY DEF BarrierInv, PhaseMeansSeen, AllAllocDone
<1> QED
  BY <1>1 DEF BarrierInv, SeenMeansFinished, ViewInv, View, AllTold

\* Steps after which no child is more dismissed than before, and nothing has
\* been touched or reserved.
LEMMA QuitsFrame ==
  ASSUME QuitsInv, UNCHANGED <<regions, touchedRegions>>, touchPhase => touchPhase',
         \A c \in Children : Dismissed(c)' => Dismissed(c)
  PROVE  QuitsInv'
BY DEF QuitsInv

\* A 'Q' in a pipe after Append and after Tail.
LEMMA QuitAppended ==
  ASSUME TypeOK, NEW c \in Children, NEW cmd \in Commands,
         cmds' = [cmds EXCEPT ![c] = Append(@, cmd)]
  PROVE  \A d \in Children : HasQuit(d)' => HasQuit(d) \/ (d = c /\ cmd = "Q")
<1> SUFFICES ASSUME NEW d \in Children, NEW k \in 1 .. Len(cmds'[d]), cmds'[d][k] = "Q"
             PROVE  HasQuit(d) \/ (d = c /\ cmd = "Q")
  BY DEF HasQuit
<1>1. CASE d = c
  <2>1. cmds[c] \in Seq(Commands) /\ cmds'[c] = Append(cmds[c], cmd)
    BY DEF TypeOK
  <2>2. \/ k \in 1 .. Len(cmds[c]) /\ cmds'[c][k] = cmds[c][k]
        \/ cmds'[c][k] = cmd
    BY <1>1, <2>1, AppendMembers
  <2> QED
    BY <1>1, <2>2 DEF HasQuit
<1>2. CASE d # c
  BY <1>2 DEF HasQuit, TypeOK
<1> QED
  BY <1>1, <1>2

LEMMA QuitTaken ==
  ASSUME TypeOK, NEW c \in Children, cmds[c] # <<>>,
         cmds' = [cmds EXCEPT ![c] = Tail(@)]
  PROVE  /\ HasQuit(c)' => HasQuit(c)
         /\ Head(cmds[c]) = "Q" => HasQuit(c)
<1>1. cmds[c] \in Seq(Commands) /\ cmds'[c] = Tail(cmds[c])
  BY DEF TypeOK
<1>2. 1 \in 1 .. Len(cmds[c]) /\ Head(cmds[c]) = cmds[c][1]
  BY <1>1
<1>3. ASSUME NEW k \in 1 .. Len(cmds'[c]), cmds'[c][k] = "Q" PROVE HasQuit(c)
  <2>1. k \in 1 .. Len(Tail(cmds[c])) /\ Tail(cmds[c])[k] = "Q"
    BY <1>1, <1>3
  <2>2. k + 1 \in 1 .. Len(cmds[c]) /\ Tail(cmds[c])[k] = cmds[c][k + 1]
    BY <1>1, <2>1, TailMembers
  <2> QED
    BY <2>1, <2>2 DEF HasQuit
<1> QED
  BY <1>2, <1>3 DEF HasQuit

\* A child does not work once it is dismissed.
LEMMA ChildQuits ==
  ASSUME TypeOK, BarrierInv, ViewInv, QuitsInv, NEW c \in Children,
         ChildStep(c) \/ Kill(c)
  PROVE  QuitsInv'
<1> USE DEF parentVars, workVars
<1>0. /\ child \in [Children -> {"unborn"} \cup ChildPCs \cup DeadPCs]
      /\ regions[c] \in Nat /\ touchedRegions[c] \in Nat /\ touchedRegions[c] <= regions[c]
  BY DEF TypeOK, ViewInv, View, Within
<1>1. /\ UNCHANGED <<parent, untold, touchPhase>>
      /\ \A d \in Children \ {c} : Unmoved(d)
  BY ChildAlone DEF phaseVars, clockVars
<1>2. \A d \in Children \ {c} : Dismissed(d)' => touchPhase /\ touchedRegions'[d] = regions'[d]
  <2> SUFFICES ASSUME NEW d \in Children \ {c}, Dismissed(d)'
               PROVE  touchPhase /\ touchedRegions'[d] = regions'[d]
    OBVIOUS
  <2>1. Dismissed(d)
    BY <1>1 DEF Dismissed, HasQuit, Unmoved
  <2> QED
    BY <1>1, <2>1 DEF QuitsInv, Unmoved
<1>3. ASSUME UNCHANGED <<regions, touchedRegions>>, Dismissed(c)' => Dismissed(c)
      PROVE  QuitsInv'
  BY <1>1, <1>2, <1>3 DEF QuitsInv
<1>4. ASSUME UNCHANGED cmds, child'[c] # "exit" \/ child[c] = "exit"
      PROVE  Dismissed(c)' => Dismissed(c)
  BY <1>1, <1>4 DEF Dismissed, HasQuit
<1>5. \A kind, bytes : \A next \in ChildPCs \ {"exit"} : Report(c, kind, bytes, next) =>
        child'[c] # "exit" /\ UNCHANGED cmds
  BY <1>0 DEF Report
<1>6. CASE CallocFail(c) \/ Start(c) \/ ReportMapFail(c) \/ ReportAllocDone(c) \/ Exit(c)
  BY <1>3, <1>4, <1>5, <1>6
  DEF CallocFail, Start, ReportMapFail, ReportAllocDone, Exit, ChildPCs
<1>7. CASE Calloc(c) \/ MapFails(c) \/ CloseAll(c) \/ Notify(c) \/ Kill(c)
  <2>1. UNCHANGED <<regions, touchedRegions, cmds>> /\ child'[c] # "exit"
    BY <1>0, <1>7 DEF Calloc, MapFails, CloseAll, ChildMoves, Notify, Kill
  <2> QED
    BY <1>3, <1>4, <2>1
<1>8. CASE MapChunk(c)
  <2>1. Reserving(c) /\ child[c] # "exit"
    BY <1>8 DEF MapChunk, Reserving, ReservingPCs
  <2>2. ~touchPhase
    BY <2>1, PhaseKnows
  <2>3. child'[c] # "exit" /\ UNCHANGED cmds
    BY <1>5, <1>8 DEF MapChunk, ChildPCs
  <2>4. ~Dismissed(c)'
    BY <1>4, <2>2, <2>3 DEF QuitsInv
  <2> QED
    BY <1>1, <1>2, <2>4 DEF QuitsInv
<1>9. CASE Touch(c)
  <2>1. child'[c] # "exit" /\ UNCHANGED <<cmds, regions>> /\ child[c] # "exit"
    BY <1>5, <1>9 DEF Touch, ChildPCs
  <2>2. CASE Dismissed(c)'
    <3>1. Dismissed(c)
      BY <1>4, <2>1, <2>2
    <3>2. touchedRegions[c] = regions[c]
      BY <3>1 DEF QuitsInv
    <3>3. UNCHANGED touchedRegions
      BY <1>0, <1>9, <3>2 DEF Touch
    <3> QED
      BY <1>3, <2>1, <3>1, <3>3
  <2>3. CASE ~Dismissed(c)'
    BY <1>1, <1>2, <2>3 DEF QuitsInv
  <2> QED
    BY <2>2, <2>3
<1>10. CASE ReadCmd(c)
  <2>1. CASE cmds[c] = <<>>
    <3>1. UNCHANGED <<regions, touchedRegions, cmds>> /\ child'[c] # "exit"
      BY <1>0, <1>10, <2>1 DEF ReadCmd
    <3> QED
      BY <1>3, <1>4, <3>1
  <2>2. CASE cmds[c] # <<>>
    <3>1. /\ cmds' = [cmds EXCEPT ![c] = Tail(@)] /\ UNCHANGED <<regions, touchedRegions>>
          /\ child'[c] = (IF Head(cmds[c]) = "Q" THEN "exit" ELSE "touch")
      BY <1>0, <1>10, <2>2 DEF ReadCmd
    <3>2. Dismissed(c)' => Dismissed(c)
      BY <1>1, <2>2, <3>1, QuitTaken DEF Dismissed
    <3> QED
      BY <1>3, <3>1, <3>2
  <2> QED
    BY <2>1, <2>2
<1> QED
  BY <1>6, <1>7, <1>8, <1>9, <1>10 DEF ChildStep

\* The parent dismisses a child only when it has seen it touch everything.
LEMMA ParentQuits ==
  ASSUME TypeOK, BarrierInv, ViewInv, QuitsInv, ParentStep PROVE QuitsInv'
<1> USE DEF viewVars, phaseVars, clockVars, parentVars, workVars
<1>1. CASE Spawn
  BY <1>1, QuitsFrame DEF Spawn, Dismissed, HasQuit, TypeOK
<1>2. ASSUME NEW c \in Children, Reap(c) PROVE QuitsInv'
  <2>1. \A d \in Children : Dismissed(d)' => Dismissed(d)
    BY <1>2 DEF Reap, Dismissed, HasQuit, TypeOK
  <2> QED
    BY <1>2, <2>1, QuitsFrame DEF Reap
<1>3. CASE RequestTouch
  <2>1. PICK c \in Children : \/ cmds' = [cmds EXCEPT ![c] = Append(@, "T")]
                              \/ UNCHANGED cmds
    BY <1>3 DEF RequestTouch
  <2>2. \A d \in Children : HasQuit(d)' => HasQuit(d)
    <3>1. CASE UNCHANGED cmds
      BY <3>1 DEF HasQuit
    <3>2. "T" \in Commands /\ "T" # "Q"
      BY DEF Commands
    <3> QED
      BY <2>1, <3>1, <3>2, QuitAppended
  <2>3. UNCHANGED <<untold, child, regions, touchedRegions>> /\ parent' # "tell" /\ touchPhase'
    BY <1>3 DEF RequestTouch
  <2> QED
    BY <2>2, <2>3, QuitsFrame DEF Dismissed
<1>4. CASE EndIteration
  <2>1. UNCHANGED <<child, cmds, regions, touchedRegions, touchPhase>>
    BY <1>4 DEF EndIteration
  <2>2. ASSUME NEW c \in Children, Dismissed(c)', ~Dismissed(c)
        PROVE  touchPhase /\ touchedRegions[c] = regions[c]
    <3>1. parent' = "tell" /\ c \in untold'
      BY <2>1, <2>2 DEF Dismissed, HasQuit
    <3>2. touchPhase /\ Touchable = {} /\ alive[c]
      BY <1>4, <3>1 DEF EndIteration, Quitting
    <3>3. ~(reserved[c] > touched[c])
      BY <3>2 DEF Touchable
    <3>4. /\ reserved[c] = ReservedBytes(c) /\ touched[c] <= TouchedBytes(c)
          /\ touchedRegions[c] <= regions[c]
      BY <3>2, PhaseKnows DEF ViewInv, View, Within
    <3>5. ReservedBytes(c) <= TouchedBytes(c)
      BY <3>3, <3>4, ViewTypes
    <3>6. regions[c] \in Nat /\ touchedRegions[c] \in Nat
      BY DEF TypeOK
    <3>7. regions[c] * Chunk \in Nat /\ touchedRegions[c] * Chunk \in Nat
      BY <3>6, BytesNat
    <3>8. ~(touchedRegions[c] < regions[c])
      <4>1. touchedRegions[c] < regions[c] => touchedRegions[c] * Chunk < regions[c] * Chunk
        BY <3>6, BytesGrow
      <4> QED
        BY <3>5, <3>7, <4>1 DEF ReservedBytes, TouchedBytes
    <3> QED
      BY <3>2, <3>4, <3>6, <3>8
  <2> QED
    BY <2>1, <2>2 DEF QuitsInv
<1>5. CASE TellQuit
  <2>1. PICK c \in Children :
          /\ c \in untold /\ untold' \subseteq untold
          /\ cmds' = [cmds EXCEPT ![c] = Append(@, "Q")] \/ UNCHANGED cmds
    BY <1>5 DEF TellQuit, IsFirst
  <2>2. \A d \in Children : HasQuit(d)' => HasQuit(d) \/ d = c
    <3>1. CASE UNCHANGED cmds
      BY <3>1 DEF HasQuit
    <3>2. "Q" \in Commands
      BY DEF Commands
    <3> QED
      BY <2>1, <3>1, <3>2, QuitAppended
  <2>3. UNCHANGED <<child, regions, touchedRegions, touchPhase>> /\ parent = "tell"
    BY <1>5 DEF TellQuit
  <2> QED
    BY <2>1, <2>2, <2>3, QuitsFrame DEF Dismissed
<1>6. CASE SpawnFails \/ Select \/ CheckSignal \/ ReapEnd \/ ClearFlag \/ ReadLine \/ ReadEof
           \/ ReadEnd
  BY <1>6, QuitsFrame DEF SpawnFails, Select, CheckSignal, ReapEnd, ClearFlag, ReadLine,
     ReadEof, ReadEnd, Dismissed, HasQuit
<1>7. CASE Decide \/ TellEnd
  <2>1. UNCHANGED <<untold, child, cmds, regions, touchedRegions>> /\ parent' # "tell"
    BY <1>7 DEF Decide, TellEnd
  <2>2. touchPhase => touchPhase'
    BY <1>7 DEF Decide, TellEnd
  <2>3. \A c \in Children : HasQuit(c)' => HasQuit(c)
    BY <2>1 DEF HasQuit
  <2>4. \A c \in Children : Dismissed(c)' => Dismissed(c)
    BY <2>1, <2>3 DEF Dismissed
  <2> QED
    BY <2>1, <2>2, <2>4, QuitsFrame
<1> QED
  BY <1>1, <1>2, <1>3, <1>4, <1>5, <1>6, <1>7 DEF ParentStep

LEMMA NextQuits ==
  ASSUME TypeOK, BarrierInv, ViewInv, QuitsInv, [Next]_vars PROVE QuitsInv'
<1>1. CASE ClockTick \/ Ended \/ UNCHANGED vars
  BY <1>1, QuitsFrame DEF ClockTick, Ended, vars, parentVars, phaseVars, clockVars,
     workVars, Dismissed, HasQuit
<1> QED
  BY <1>1, ChildQuits, ParentQuits DEF Next

\* The slots of the regions array are enough for the whole goal.
LEMMA SlotsEnough ==
  ASSUME NEW n \in Nat, n * Chunk < Goal PROVE n < Capacity
<1>1. Goal \in Nat /\ Chunk \in Nat \ {0}
  BY GoalAssumption, ChunkAssumption
<1>2. PICK q \in Nat : q = Goal \div Chunk
  BY <1>1
<1>3. Goal < (q + 1) * Chunk
  BY <1>1, <1>2
<1>4. q + 1 <= n => (q + 1) * Chunk <= n * Chunk
  BY <1>2, BytesGrow
<1>5. n * Chunk \in Nat /\ (q + 1) * Chunk \in Nat
  BY <1>2, BytesNat
<1>6. ~(q + 1 <= n)
  BY <1>1, <1>3, <1>4, <1>5
<1> QED
  BY <1>2, <1>6 DEF Capacity

\* What is known in every reachable state implies what the parent may rely on.
LEMMA KnowsSuffices ==
  ASSUME TypeOK, BarrierInv, ViewInv, LivesInv, QuitsInv PROVE ParentKnows
<1>1. ViewLags
  <2> SUFFICES ASSUME NEW c \in Children PROVE touched[c] <= reserved[c]
    BY DEF ViewLags, ViewInv, View, Within
  <2>1. /\ touched[c] \in Nat /\ reserved[c] \in Nat
        /\ regions[c] \in Nat /\ touchedRegions[c] \in Nat
        /\ TouchedBytes(c) \in Nat /\ ReservedBytes(c) \in Nat
        /\ touched[c] <= TouchedBytes(c) /\ touchedRegions[c] <= regions[c]
    BY ViewTypes DEF ViewInv, View, Within
  <2>2. CASE touchedRegions[c] = 0
    <3>1. TouchedBytes(c) = 0
      BY <2>2, ChunkAssumption DEF TouchedBytes
    <3> QED
      BY <2>1, <3>1
  <2>3. CASE touchedRegions[c] # 0
    <3>1. touchPhase
      BY <2>1, <2>3 DEF BarrierInv, TouchMeansPhase, TouchingBegan
    <3>2. reserved[c] = ReservedBytes(c)
      BY <3>1, PhaseKnows
    <3>3. TouchedBytes(c) <= ReservedBytes(c)
      BY <2>1, BytesGrow DEF TouchedBytes, ReservedBytes
    <3> QED
      BY <2>1, <3>2, <3>3
  <2> QED
    BY <2>2, <2>3
<1>2. QuitMeansTouched
  BY DEF QuitsInv, QuitMeansTouched, Dismissed
<1>3. DoneMeansReaped
  BY DEF LivesInv, DoneMeansReaped
<1>4. FdDiscipline
  BY DEF LivesInv, FdDiscipline, Touchable
<1>5. NoRealloc
  BY SlotsEnough DEF NoRealloc, ReservedBytes, TypeOK
<1> QED
  BY <1>1, <1>2, <1>3, <1>4, <1>5 DEF ParentKnows

\* All that is known of every reachable state.
KnownInv == TypeOK /\ ForkOrder /\ BarrierInv /\ ViewInv /\ LivesInv /\ QuitsInv

LEMMA KnownHolds == Spec => []KnownInv
<1>1. Init => KnownInv
  BY InitTypeOK, InitForkOrder, InitBarrier, InitView, InitLives DEF KnownInv
<1>2. KnownInv /\ [Next]_vars => KnownInv'
  <2> SUFFICES ASSUME KnownInv, [Next]_vars PROVE KnownInv'
    OBVIOUS
  <2>1. TypeOK'
    BY NextTypeOK DEF KnownInv
  <2> QED
    BY <2>1, NextForkOrder, NextBarrier, NextView, NextLives, NextQuits DEF KnownInv
<1> QED
  BY <1>1, <1>2, PTL DEF Spec

\* What the parent believes, prints and does agrees with what the children are
\* and did.
THEOREM KnowsHold == Spec => []ParentKnows
<1>1. KnownInv => ParentKnows
  BY KnowsSuffices DEF KnownInv
<1> QED
  BY <1>1, KnownHolds, PTL
-----------------------------------------------------------------------------
(***************************************************************************)
(* Every step of the processes is a step of ReserveThenTouch, or none.     *)
(***************************************************************************)
ReadyPCs == {"callocfail", "mapfail", "mapped", "cmd", "touch"}
LeftPCs == {"closing", "gone", "zombie", "reaped"}
PhaseFacts(c) ==
  /\ child[c] \in ReservingPCs => PhaseOf(c) = "reserving"
  /\ child[c] \in ReadyPCs => PhaseOf(c) = "ready"
  /\ child[c] = "exit" => PhaseOf(c) = "dismissed"
  /\ child[c] \in LeftPCs => PhaseOf(c) = "left"

\* The four places a child may be in, before and after a step.
LEMMA PhasesKnown == ASSUME NEW c PROVE PhaseFacts(c) /\ PhaseFacts(c)'
BY DEF PhaseFacts, PhaseOf, Reserving, ReservingPCs, ReadyPCs, LeftPCs

PhaseMap == [c \in Children |-> PhaseOf(c)]

\* A step of one child changes the phase of that child only.
LEMMA OnePhase ==
  ASSUME NEW c \in Children, \A d \in Children \ {c} : child'[d] = child[d]
  PROVE  /\ PhaseMap' = [PhaseMap EXCEPT ![c] = PhaseOf(c)']
         /\ PhaseOf(c)' = PhaseOf(c) => PhaseMap' = PhaseMap
<1>1. \A d \in Children \ {c} : PhaseOf(d)' = PhaseOf(d)
  BY DEF PhaseOf, Reserving
<1> QED
  BY <1>1 DEF PhaseMap

\* The abstract steps, said of the variables of the processes.
LEMMA StepsMap ==
  ASSUME NEW c \in Children, \A d \in Children \ {c} : child'[d] = child[d]
  PROVE  /\ UNCHANGED workVars /\ PhaseOf(c)' = PhaseOf(c) => UNCHANGED Abstract!vars
         /\ UNCHANGED workVars /\ PhaseOf(c)' = "left" =>
              [Abstract!Next]_(Abstract!vars)
         /\ UNCHANGED workVars /\ PhaseOf(c) = "reserving" /\ PhaseOf(c)' = "ready" =>
              Abstract!Finish(c)
         /\ UNCHANGED workVars /\ PhaseOf(c) = "ready" /\ PhaseOf(c)' = "dismissed"
              /\ touchedRegions[c] = regions[c] => Abstract!Dismiss(c)
<1>1. /\ PhaseMap' = [PhaseMap EXCEPT ![c] = PhaseOf(c)']
      /\ PhaseOf(c)' = PhaseOf(c) => PhaseMap' = PhaseMap
      /\ PhaseMap[c] = PhaseOf(c)
  BY OnePhase DEF PhaseMap
<1>2. UNCHANGED workVars /\ PhaseOf(c)' = PhaseOf(c) => UNCHANGED Abstract!vars
  BY <1>1 DEF PhaseMap, Abstract!vars, workVars
<1>3. UNCHANGED workVars /\ PhaseOf(c)' = "left" /\ PhaseOf(c) # "left" => Abstract!Leave(c)
  BY <1>1 DEF PhaseMap, Abstract!Leave, workVars
<1>4. UNCHANGED workVars /\ PhaseOf(c) = "reserving" /\ PhaseOf(c)' = "ready" =>
        Abstract!Finish(c)
  BY <1>1 DEF PhaseMap, Abstract!Finish, workVars
<1>5. UNCHANGED workVars /\ PhaseOf(c) = "ready" /\ PhaseOf(c)' = "dismissed"
        /\ touchedRegions[c] = regions[c] => Abstract!Dismiss(c)
  BY <1>1 DEF PhaseMap, Abstract!Dismiss, workVars
<1> QED
  BY <1>2, <1>3, <1>4, <1>5 DEF Abstract!Next

\* The initial states are initial states of the abstract specification.
LEMMA InitMaps == Init => Abstract!Init
<1> SUFFICES ASSUME Init PROVE Abstract!Init
  OBVIOUS
<1>1. \A c \in Children : PhaseOf(c) = "reserving"
  BY DEF Init, PhaseOf, Reserving, ReservingPCs
<1> QED
  BY <1>1 DEF Init, Abstract!Init

\* What a child does is one step of ReserveThenTouch, or none.
LEMMA ChildMaps ==
  ASSUME KnownInv, KnownInv', NEW c \in Children, ChildStep(c) \/ Kill(c)
  PROVE  [Abstract!Next]_(Abstract!vars)
<1> USE DEF workVars
<1>0. /\ child \in [Children -> {"unborn"} \cup ChildPCs \cup DeadPCs]
      /\ regions \in [Children -> Nat] /\ touchedRegions \in [Children -> Nat]
  BY DEF KnownInv, TypeOK
<1>1. \A d \in Children \ {c} : child'[d] = child[d]
  BY <1>0, ChildAlone DEF KnownInv, Unmoved
<1>2. PhaseFacts(c) /\ PhaseFacts(c)'
  BY PhasesKnown
<1>3. ASSUME UNCHANGED workVars,
             \/ PhaseOf(c)' = PhaseOf(c)
             \/ PhaseOf(c)' = "left"
             \/ PhaseOf(c) = "reserving" /\ PhaseOf(c)' = "ready"
      PROVE  [Abstract!Next]_(Abstract!vars)
  BY <1>1, <1>3, StepsMap DEF Abstract!Next
<1>4. \A kind, bytes, next : Report(c, kind, bytes, next) => child'[c] \in {next, "gone"}
  BY <1>0 DEF Report
<1>5. \A from, to : ChildMoves(c, from, to) =>
        child[c] = from /\ child'[c] = to /\ UNCHANGED workVars
  BY <1>0 DEF ChildMoves
<1>6. CASE Calloc(c) \/ MapFails(c) \/ CloseAll(c)
  BY <1>2, <1>3, <1>5, <1>6
  DEF Calloc, MapFails, CloseAll, PhaseFacts, ReservingPCs, ReadyPCs, LeftPCs
<1>7. CASE CallocFail(c) \/ Start(c) \/ ReportMapFail(c) \/ Exit(c)
  BY <1>2, <1>3, <1>4, <1>7
  DEF CallocFail, Start, ReportMapFail, Exit, PhaseFacts, ReservingPCs, ReadyPCs, LeftPCs
<1>8. CASE ReportAllocDone(c)
  BY <1>2, <1>3, <1>4, <1>8
  DEF ReportAllocDone, PhaseFacts, ReservingPCs, ReadyPCs, LeftPCs
<1>9. CASE Notify(c)
  BY <1>0, <1>2, <1>3, <1>9 DEF Notify, PhaseFacts, LeftPCs
<1>10. CASE Kill(c)
  BY <1>0, <1>2, <1>3, <1>10 DEF Kill, PhaseFacts, LeftPCs
<1>11. CASE MapChunk(c)
  <2>1. /\ child[c] = "map" /\ regions' = [regions EXCEPT ![c] = @ + 1]
        /\ UNCHANGED touchedRegions /\ child'[c] \in {"map", "gone"}
    BY <1>4, <1>11 DEF MapChunk
  <2>2. PhaseOf(c) = "reserving" /\ PhaseOf(c)' \in {"reserving", "left"}
    BY <1>2, <2>1 DEF PhaseFacts, ReservingPCs, LeftPCs
  <2>3. /\ PhaseMap' = [PhaseMap EXCEPT ![c] = PhaseOf(c)'] /\ PhaseMap[c] = PhaseOf(c)
        /\ PhaseOf(c)' = PhaseOf(c) => PhaseMap' = PhaseMap
    BY <1>1, OnePhase DEF PhaseMap
  <2>4. CASE PhaseOf(c)' = "reserving"
    <3>1. Abstract!Reserve(c)
      BY <2>1, <2>2, <2>3, <2>4 DEF PhaseMap, Abstract!Reserve
    <3> QED
      BY <3>1 DEF Abstract!Next
  <2>5. CASE PhaseOf(c)' = "left"
    <3>1. Abstract!ReserveAndLeave(c)
      BY <2>1, <2>2, <2>3, <2>5 DEF PhaseMap, Abstract!ReserveAndLeave
    <3> QED
      BY <3>1 DEF Abstract!Next
  <2> QED
    BY <2>2, <2>4, <2>5
<1>12. CASE ReadCmd(c)
  <2>1. /\ child[c] = "cmd" /\ UNCHANGED workVars
        /\ child'[c] \in {"closing", "touch"} \/ (child'[c] = "exit" /\ cmds[c] # <<>>
             /\ Head(cmds[c]) = "Q" /\ cmds' = [cmds EXCEPT ![c] = Tail(@)])
    BY <1>0, <1>12 DEF ReadCmd
  <2>2. CASE child'[c] \in {"closing", "touch"}
    BY <1>2, <1>3, <2>1, <2>2 DEF PhaseFacts, ReadyPCs, LeftPCs
  <2>3. CASE child'[c] = "exit"
    <3>1. HasQuit(c)
      BY <2>1, <2>3, QuitTaken DEF KnownInv
    <3>2. touchedRegions[c] = regions[c]
      BY <3>1 DEF KnownInv, QuitsInv, Dismissed
    <3>3. PhaseOf(c) = "ready" /\ PhaseOf(c)' = "dismissed"
      BY <1>2, <2>1, <2>3 DEF PhaseFacts, ReadyPCs
    <3>4. Abstract!Dismiss(c)
      BY <1>1, <2>1, <3>2, <3>3, StepsMap
    <3> QED
      BY <3>4 DEF Abstract!Next
  <2> QED
    BY <2>1, <2>2, <2>3
<1>13. CASE Touch(c)
  <2>1. child[c] = "touch" /\ UNCHANGED regions /\ child'[c] \in {"cmd", "gone"}
    BY <1>4, <1>13 DEF Touch
  <2>2. PhaseOf(c) = "ready" /\ PhaseOf(c)' \in {"ready", "left"}
    BY <1>2, <2>1 DEF PhaseFacts, ReadyPCs, LeftPCs
  <2>3. CASE UNCHANGED touchedRegions
    BY <1>3, <2>1, <2>2, <2>3
  <2>4. CASE /\ touchedRegions[c] < regions[c]
             /\ touchedRegions' = [touchedRegions EXCEPT ![c] = @ + 1]
    <3>1. \A d \in Children : ~Reserving(d)
      BY <2>1 DEF KnownInv, BarrierInv, TouchMeansPhase, TouchingBegan, PhaseMeansSeen,
                  AllAllocDone, SeenMeansFinished
    <3>2. \A d \in Children : PhaseMap[d] # "reserving"
      BY <3>1 DEF PhaseMap, PhaseOf
    <3>3. /\ PhaseMap' = [PhaseMap EXCEPT ![c] = PhaseOf(c)'] /\ PhaseMap[c] = PhaseOf(c)
          /\ PhaseOf(c)' = PhaseOf(c) => PhaseMap' = PhaseMap
      BY <1>1, OnePhase DEF PhaseMap
    <3>4. Abstract!Touch(c)
      BY <2>1, <2>2, <2>4, <3>2, <3>3 DEF PhaseMap, Abstract!Touch
    <3> QED
      BY <3>4 DEF Abstract!Next
  <2> QED
    BY <1>13, <2>3, <2>4 DEF Touch
<1> QED
  BY <1>6, <1>7, <1>8, <1>9, <1>10, <1>11, <1>12, <1>13 DEF ChildStep

\* What the parent does is no step of it.
LEMMA ParentMaps ==
  ASSUME KnownInv, ParentStep \/ ClockTick \/ Ended \/ UNCHANGED vars
  PROVE  UNCHANGED Abstract!vars
<1> USE DEF viewVars, phaseVars, clockVars, parentVars, workVars
<1>0. child \in [Children -> {"unborn"} \cup ChildPCs \cup DeadPCs]
  BY DEF KnownInv, TypeOK
<1>1. CASE UNCHANGED <<child, regions, touchedRegions>>
  BY <1>1 DEF Abstract!vars, PhaseOf, Reserving
<1>2. CASE Spawn
  <2>0. forked \in Children
    BY <1>2, NAssumption DEF Spawn, KnownInv, TypeOK, Children
  <2>a. PICK c \in Children : c = forked
    BY <2>0
  <2>1. child[c] = "unborn" /\ child'[c] = "calloc" /\ UNCHANGED workVars
    BY <1>0, <1>2, <2>a DEF Spawn, KnownInv, ForkOrder, Children
  <2>2. \A d \in Children \ {c} : child'[d] = child[d]
    BY <1>0, <1>2, <2>a DEF Spawn
  <2>3. PhaseOf(c)' = PhaseOf(c)
    BY <2>1, PhasesKnown DEF PhaseFacts, ReservingPCs
  <2> QED
    BY <2>1, <2>2, <2>3, StepsMap
<1>3. ASSUME NEW c \in Children, Reap(c) PROVE UNCHANGED Abstract!vars
  <2>1. /\ child[c] = "zombie" /\ child'[c] = "reaped" /\ UNCHANGED workVars
        /\ \A d \in Children \ {c} : child'[d] = child[d]
    BY <1>0, <1>3 DEF Reap
  <2>2. PhaseOf(c)' = PhaseOf(c)
    BY <2>1, PhasesKnown DEF PhaseFacts, LeftPCs
  <2> QED
    BY <2>1, <2>2, StepsMap
<1>4. CASE SpawnFails \/ Select \/ CheckSignal \/ ReapEnd \/ ClearFlag \/ ReadLine \/ ReadEof
           \/ ReadEnd \/ Decide \/ RequestTouch \/ EndIteration \/ TellQuit \/ TellEnd
  BY <1>1, <1>4 DEF SpawnFails, Select, CheckSignal, ReapEnd, ClearFlag, ReadLine, ReadEof,
     ReadEnd, Decide, RequestTouch, EndIteration, TellQuit, TellEnd
<1>5. CASE ClockTick \/ Ended \/ UNCHANGED vars
  BY <1>1, <1>5 DEF ClockTick, Ended, vars
<1> QED
  BY <1>2, <1>3, <1>4, <1>5 DEF ParentStep

\* The processes with their pipes and signals implement ReserveThenTouch: all
\* chunks are reserved before the first is touched, and no child is dismissed
\* with a chunk untouched.
THEOREM Implements == Spec => ReservesThenTouches
<1>1. KnownInv /\ KnownInv' /\ [Next]_vars => [Abstract!Next]_(Abstract!vars)
  BY ChildMaps, ParentMaps DEF Next
<1> QED
  BY <1>1, InitMaps, KnownHolds, PTL DEF Spec, ReservesThenTouches, Abstract!Spec
-----------------------------------------------------------------------------
(***************************************************************************)
(* Round robin.  A request moves from the command pipe through the child   *)
(* to its touched chunks, or to a TOUCH_DONE; once the parent has read     *)
(* that, the child is not asked again.  Whoever is to be asked before      *)
(* another has been asked no more often.                                   *)
(***************************************************************************)
Turn(c, next) == (c - next) % N

TurnsKept ==
  \A c, d \in Touchable : ChildUp(c) /\ ChildUp(d) =>
    /\ Requests(c) <= Requests(d) + 1
    /\ Turn(c, nextTouch) < Turn(d, nextTouch) => Requests(c) <= Requests(d)
TurnsInv == touchPhase => TurnsKept

TouchLines(c) ==
  \A k \in Sent(c) :
    /\ log[c][k].kind \in TouchKinds => touchPhase
    /\ log[c][k].kind = "TOUCH_DONE" => log[c][k].bytes = ReservedBytes(c)
TouchLinesInv == \A c \in Children : TouchLines(c)

\* How many members of a sequence are of a set.
Count(q, S) == Cardinality({k \in 1 .. Len(q) : q[k] \in S})
DoneLines == {line \in LineType : line.kind = "TOUCH_DONE"}

\* The count is a number; one more or one less by Append and by Tail.
LEMMA CountType ==
  ASSUME NEW T, NEW S, NEW q \in Seq(T)
  PROVE  /\ IsFiniteSet({k \in 1 .. Len(q) : q[k] \in S})
         /\ Count(q, S) \in Nat
<1>1. IsFiniteSet(1 .. Len(q))
  BY FS_Interval
<1>2. {k \in 1 .. Len(q) : q[k] \in S} \in SUBSET (1 .. Len(q))
  OBVIOUS
<1> QED
  BY <1>1, <1>2, FS_Subset, FS_CardinalityType DEF Count

LEMMA CountAppend ==
  ASSUME NEW T, NEW S, NEW q \in Seq(T), NEW x \in T
  PROVE  Count(Append(q, x), S) = Count(q, S) + (IF x \in S THEN 1 ELSE 0)
<1> DEFINE old == {k \in 1 .. Len(q) : q[k] \in S}
           new == {k \in 1 .. Len(Append(q, x)) : Append(q, x)[k] \in S}
           n == Len(q) + 1
<1>1. IsFiniteSet(old) /\ Cardinality(old) \in Nat
  BY CountType DEF Count
<1>2. /\ Len(q) \in Nat /\ Len(Append(q, x)) = n
      /\ \A k \in 1 .. Len(q) : Append(q, x)[k] = q[k]
      /\ Append(q, x)[n] = x
  BY AppendFacts
<1>3. n \notin old
  BY <1>2
<1>4. CASE x \in S
  <2>1. new = old \cup {n}
    BY <1>2, <1>4
  <2>2. Cardinality(old \cup {n}) = Cardinality(old) + 1
    BY <1>1, <1>3, FS_AddElement
  <2> QED
    BY <1>4, <2>1, <2>2 DEF Count
<1>5. CASE x \notin S
  <2>1. new = old
    BY <1>2, <1>5
  <2>2. Cardinality(new) = Cardinality(old) + 0
    <3> HIDE DEF old, new
    <3> QED
      BY <1>1, <2>1
  <2> QED
    BY <1>5, <2>2 DEF Count
<1> QED
  BY <1>4, <1>5

LEMMA CountTail ==
  ASSUME NEW T, NEW S, NEW q \in Seq(T), q # <<>>
  PROVE  Count(q, S) = Count(Tail(q), S) + (IF Head(q) \in S THEN 1 ELSE 0)
<1> DEFINE old == {k \in 1 .. Len(q) : q[k] \in S}
           rest == old \ {1}
           new == {k \in 1 .. Len(Tail(q)) : Tail(q)[k] \in S}
           f == [k \in new |-> k + 1]
<1>1. /\ IsFiniteSet(old) /\ Cardinality(old) \in Nat
      /\ IsFiniteSet(new) /\ Cardinality(new) \in Nat
  <2>1. Tail(q) \in Seq(T)
    OBVIOUS
  <2> QED
    BY <2>1, CountType DEF Count
<1>2. /\ Len(q) \in Nat \ {0} /\ Len(Tail(q)) = Len(q) - 1 /\ Head(q) = q[1]
      /\ \A k \in 1 .. Len(q) - 1 : Tail(q)[k] = q[k + 1]
  BY TailFacts
<1>3. f \in Bijection(new, rest)
  <2>1. ASSUME NEW k \in new PROVE k \in 1 .. Len(q) - 1 /\ k + 1 \in rest
    BY <1>2
  <2>2. f \in [new -> rest]
    BY <2>1
  <2>3. \A j, k \in new : f[j] = f[k] => j = k
    BY <2>1
  <2>4. ASSUME NEW k \in rest PROVE \E j \in new : f[j] = k
    <3>1. k - 1 \in 1 .. Len(q) - 1 /\ (k - 1) + 1 = k
      BY <1>2
    <3>2. k - 1 \in new
      BY <1>2, <3>1
    <3>3. f[k - 1] = k
      BY <3>1, <3>2
    <3> QED
      BY <3>2, <3>3
  <2> HIDE DEF f, new, rest
  <2> QED
    BY <2>2, <2>3, <2>4 DEF Bijection, Injection, Surjection, IsInjective
<1>4. Cardinality(rest) = Cardinality(new)
  BY <1>1, <1>3, FS_Bijection DEF ExistsBijection
<1>5. Cardinality(rest) = IF 1 \in old THEN Cardinality(old) - 1 ELSE Cardinality(old)
  BY <1>1, FS_RemoveElement
<1>6. 1 \in old <=> Head(q) \in S
  BY <1>2
<1>7. Count(q, S) = Cardinality(old) /\ Count(Tail(q), S) = Cardinality(new)
  BY DEF Count
<1> HIDE DEF old, new, rest
<1> QED
  BY <1>1, <1>4, <1>5, <1>6, <1>7

LEMMA CountNone ==
  ASSUME NEW S, NEW q, \A k \in 1 .. Len(q) : q[k] \notin S
  PROVE  Count(q, S) = 0
<1>1. {k \in 1 .. Len(q) : q[k] \in S} = {}
  OBVIOUS
<1> QED
  BY <1>1, FS_EmptySet DEF Count

\* The requests of a child, with its pipes counted.
Counted(c) == touchedRegions[c] + Count(cmds[c], {"T"})
              + (IF child[c] = "touch" THEN 1 ELSE 0) + Count(log[c], DoneLines)

LEMMA RequestsCounted ==
  ASSUME TypeOK, NEW c \in Children
  PROVE  /\ Requests(c) = Counted(c) /\ Requests(c) \in Nat
         /\ touchedRegions[c] \in Nat
         /\ Count(cmds[c], {"T"}) \in Nat /\ Count(log[c], DoneLines) \in Nat
<1>1. log[c] \in Seq(LineType) /\ cmds[c] \in Seq(Commands) /\ touchedRegions[c] \in Nat
  BY DEF TypeOK
<1>2. {k \in 1 .. Len(log[c]) : log[c][k] \in DoneLines}
        = {k \in 1 .. Len(log[c]) : log[c][k].kind = "TOUCH_DONE"}
  BY <1>1 DEF DoneLines
<1>3. {k \in 1 .. Len(cmds[c]) : cmds[c][k] \in {"T"}}
        = {k \in 1 .. Len(cmds[c]) : cmds[c][k] = "T"}
  OBVIOUS
<1>4. Requests(c) = Counted(c)
  BY <1>2, <1>3 DEF Requests, Counted, Count
<1>5. Count(cmds[c], {"T"}) \in Nat /\ Count(log[c], DoneLines) \in Nat
  BY <1>1, CountType
<1> QED
  BY <1>1, <1>4, <1>5 DEF Counted

\* Before the touch phase nothing has been asked for.
LEMMA NothingAsked ==
  ASSUME TypeOK, BarrierInv, TouchLinesInv, ~touchPhase, NEW c \in Children
  PROVE  Requests(c) = 0
<1>1. ~TouchingBegan(c)
  BY DEF BarrierInv, TouchMeansPhase
<1>2. touchedRegions[c] = 0 /\ child[c] # "touch"
  BY <1>1 DEF TouchingBegan, TypeOK
<1>3. \A k \in 1 .. Len(cmds[c]) : cmds[c][k] \notin {"T"}
  BY <1>1 DEF TouchingBegan
<1>4. \A k \in 1 .. Len(log[c]) : log[c][k] \notin DoneLines
  BY DEF TouchLinesInv, TouchLines, DoneLines, Sent, TouchKinds
<1>5. Counted(c) = 0
  BY <1>2, <1>3, <1>4, CountNone DEF Counted
<1> QED
  BY <1>5, RequestsCounted

\* Whatever the phase, the turns are kept.
LEMMA TurnsNow ==
  ASSUME TypeOK, BarrierInv, TouchLinesInv, TurnsInv PROVE TurnsKept
<1>1. CASE touchPhase
  BY <1>1 DEF TurnsInv
<1>2. CASE ~touchPhase
  <2>1. \A c \in Touchable : Requests(c) = 0
    BY <1>2, NothingAsked DEF Touchable
  <2> QED
    BY <2>1 DEF TurnsKept
<1> QED
  BY <1>1, <1>2

\* A report keeps what is known of the lines about touching.
LEMMA ReportTouchLines ==
  ASSUME TypeOK, NEW c \in Children, TouchLines(c), NEW kind \in Lines, NEW bytes \in Nat,
         NEW next, Report(c, kind, bytes, next), UNCHANGED touchPhase,
         regions'[c] = regions[c] \/ ~touchPhase,
         kind \in TouchKinds => touchPhase,
         kind = "TOUCH_DONE" => bytes = ReservedBytes(c)
  PROVE  TouchLines(c)'
<1>0. /\ regions'[c] = regions[c] => ReservedBytes(c)' = ReservedBytes(c)
      /\ "TOUCH_DONE" \in TouchKinds
  BY DEF ReservedBytes, TouchKinds
<1>1. CASE UNCHANGED log
  BY <1>0, <1>1 DEF TouchLines, Sent
<1>2. CASE log' = [log EXCEPT ![c] = Append(@, Line(kind, bytes))]
  <2>1. Line(kind, bytes) \in LineType /\ Line(kind, bytes).kind = kind
        /\ Line(kind, bytes).bytes = bytes
    BY DEF Line, LineType
  <2>2. log[c] \in Seq(LineType) /\ log'[c] = Append(log[c], Line(kind, bytes))
    BY <1>2 DEF TypeOK
  <2>3. ASSUME NEW k \in Sent(c)'
        PROVE  /\ log'[c][k].kind \in TouchKinds => touchPhase
               /\ log'[c][k].kind = "TOUCH_DONE" => log'[c][k].bytes = ReservedBytes(c)'
    <3>1. k \in 1 .. Len(Append(log[c], Line(kind, bytes)))
      BY <2>2 DEF Sent
    <3>2. \/ k \in 1 .. Len(log[c]) /\ log'[c][k] = log[c][k]
          \/ log'[c][k] = Line(kind, bytes)
      BY <2>1, <2>2, <3>1, AppendMembers
    <3>3. CASE k \in 1 .. Len(log[c]) /\ log'[c][k] = log[c][k]
      BY <1>0, <3>3 DEF TouchLines, Sent
    <3>4. CASE log'[c][k] = Line(kind, bytes)
      BY <1>0, <2>1, <3>4
    <3> QED
      BY <3>2, <3>3, <3>4
  <2> QED
    BY <2>3 DEF TouchLines
<1> QED
  BY <1>1, <1>2 DEF Report

LEMMA ChildTouchLines ==
  ASSUME KnownInv, NEW c \in Children, TouchLines(c), ChildStep(c) \/ Kill(c)
  PROVE  TouchLines(c)'
<1> USE DEF parentVars, workVars
<1>0. /\ UNCHANGED touchPhase
      /\ regions[c] \in Nat /\ touchedRegions[c] \in Nat /\ touchedRegions[c] <= regions[c]
      /\ ReservedBytes(c) \in Nat /\ TouchedBytes(c) \in Nat /\ TypeOK
  BY ChildAlone, ViewTypes DEF phaseVars, clockVars, KnownInv, TypeOK, ViewInv, View, Within
<1>1. ASSUME UNCHANGED <<regions, log>> PROVE TouchLines(c)'
  BY <1>0, <1>1 DEF TouchLines, Sent, ReservedBytes
<1>2. ASSUME NEW kind \in Lines \ TouchKinds, NEW bytes \in Nat, NEW next,
             Report(c, kind, bytes, next), UNCHANGED regions
      PROVE  TouchLines(c)'
  BY <1>0, <1>2, ReportTouchLines DEF TouchKinds
<1>3. CASE CallocFail(c) \/ Start(c) \/ ReportMapFail(c) \/ ReportAllocDone(c) \/ Exit(c)
  BY <1>0, <1>2, <1>3
  DEF CallocFail, Start, ReportMapFail, ReportAllocDone, Exit, Lines, TouchKinds
<1>4. CASE MapChunk(c)
  <2>1. Reserving(c) /\ Report(c, "ALLOC_OK", ReservedBytes(c) + Chunk, "map")
    BY <1>4 DEF MapChunk, Reserving, ReservingPCs
  <2>2. ~touchPhase
    BY <2>1, PhaseKnows DEF KnownInv
  <2>3. /\ ReservedBytes(c) + Chunk \in Nat
        /\ "ALLOC_OK" \in Lines \ TouchKinds /\ "ALLOC_OK" # "TOUCH_DONE"
    BY <1>0, ChunkAssumption DEF Lines, TouchKinds
  <2> QED
    BY <1>0, <2>1, <2>2, <2>3, ReportTouchLines
<1>5. CASE Touch(c)
  <2>1. touchPhase /\ UNCHANGED regions
    BY <1>5 DEF Touch, KnownInv, BarrierInv, TouchMeansPhase, TouchingBegan
  <2>2. TouchedBytes(c) + Chunk \in Nat
    BY <1>0, ChunkAssumption
  <2>3. touchedRegions[c] >= regions[c] => TouchedBytes(c) = ReservedBytes(c)
    BY <1>0 DEF TouchedBytes, ReservedBytes
  <2>4. \E kind \in Lines, bytes \in Nat :
          Report(c, kind, bytes, "cmd") /\ (kind = "TOUCH_DONE" => bytes = ReservedBytes(c))
    BY <1>0, <1>5, <2>2, <2>3 DEF Touch, Lines
  <2> QED
    BY <1>0, <2>1, <2>4, ReportTouchLines
<1>6. CASE Calloc(c) \/ MapFails(c) \/ CloseAll(c)
  BY <1>1, <1>6 DEF Calloc, MapFails, CloseAll, ChildMoves
<1>7. CASE ReadCmd(c) \/ Notify(c) \/ Kill(c)
  BY <1>1, <1>7 DEF ReadCmd, Notify, Kill
<1> QED
  BY <1>3, <1>4, <1>5, <1>6, <1>7 DEF ChildStep

LEMMA NextTouchLines ==
  ASSUME KnownInv, TouchLinesInv, [Next]_vars PROVE TouchLinesInv'
<1> USE DEF viewVars, phaseVars, clockVars, parentVars, workVars
<1>1. ASSUME NEW c \in Children, ChildStep(c) \/ Kill(c) PROVE TouchLinesInv'
  <2>1. TouchLines(c)'
    BY <1>1, ChildTouchLines DEF TouchLinesInv
  <2>2. ASSUME NEW d \in Children \ {c} PROVE TouchLines(d)'
    <3>1. Unmoved(d) /\ UNCHANGED touchPhase
      BY <1>1, ChildAlone DEF KnownInv
    <3>2. TouchLines(d)
      BY DEF TouchLinesInv
    <3> QED
      BY <3>1, <3>2 DEF TouchLines, Sent, Unmoved, ReservedBytes
  <2> QED
    BY <2>1, <2>2 DEF TouchLinesInv
<1>2. ASSUME touchPhase => touchPhase', UNCHANGED regions, NEW d \in Children,
             log'[d] = log[d] \/ log'[d] = <<>>
      PROVE  TouchLines(d)'
  <2>1. TouchLines(d)
    BY DEF TouchLinesInv
  <2> QED
    BY <1>2, <2>1 DEF TouchLines, Sent, ReservedBytes
<1>3. CASE ReadLine
  <2>1. PICK c \in Children : log[c] # <<>> /\ log' = [log EXCEPT ![c] = Tail(@)]
    BY <1>3 DEF ReadLine
  <2>2. UNCHANGED <<regions, touchPhase>>
    BY <1>3 DEF ReadLine
  <2>3. TouchLines(c)'
    <3>1. log[c] \in Seq(LineType) /\ log'[c] = Tail(log[c])
      BY <2>1 DEF KnownInv, TypeOK
    <3>2. ASSUME NEW k \in Sent(c)'
          PROVE  k + 1 \in Sent(c) /\ log'[c][k] = log[c][k + 1]
      BY <2>1, <3>1, <3>2, TailMembers DEF Sent
    <3>3. TouchLines(c)
      BY DEF TouchLinesInv
    <3> QED
      BY <2>2, <3>2, <3>3 DEF TouchLines, ReservedBytes
  <2>4. ASSUME NEW d \in Children \ {c} PROVE TouchLines(d)'
    <3>1. log'[d] = log[d]
      BY <2>1 DEF KnownInv, TypeOK
    <3> QED
      BY <1>2, <2>2, <3>1
  <2> QED
    BY <2>3, <2>4 DEF TouchLinesInv
<1>4. ASSUME NEW c \in Children, Reap(c) PROVE TouchLinesInv'
  <2>1. /\ UNCHANGED <<regions, touchPhase>>
        /\ \A d \in Children : log'[d] = log[d] \/ log'[d] = <<>>
    BY <1>4 DEF Reap, KnownInv, TypeOK
  <2> QED
    BY <1>2, <2>1 DEF TouchLinesInv
<1>5. CASE Spawn \/ SpawnFails \/ Select \/ CheckSignal \/ ReapEnd \/ ClearFlag \/ ReadEof
           \/ ReadEnd
  BY <1>2, <1>5 DEF Spawn, SpawnFails, Select, CheckSignal, ReapEnd, ClearFlag, ReadEof,
     ReadEnd, TouchLinesInv
<1>6. CASE Decide
  <2>1. (touchPhase => touchPhase') /\ UNCHANGED <<regions, log>>
    BY <1>6 DEF Decide
  <2> QED
    BY <1>2, <2>1 DEF TouchLinesInv
<1>7. CASE RequestTouch
  <2>1. (touchPhase => touchPhase') /\ UNCHANGED <<regions, log>>
    BY <1>7 DEF RequestTouch
  <2> QED
    BY <1>2, <2>1 DEF TouchLinesInv
<1>8. CASE EndIteration \/ TellQuit \/ TellEnd \/ ClockTick \/ Ended \/ UNCHANGED vars
  BY <1>2, <1>8 DEF EndIteration, TellQuit, TellEnd, ClockTick, Ended, vars, TouchLinesInv
<1> QED
  BY <1>1, <1>3, <1>4, <1>5, <1>6, <1>7, <1>8 DEF Next, ParentStep

\* A request does not get lost on its way through a child that lives on.
LEMMA ChildRequests ==
  ASSUME KnownInv, KnownInv', NEW c \in Children, ChildStep(c) \/ Kill(c), ChildUp(c)'
  PROVE  ChildUp(c) /\ Requests(c)' = Requests(c)
<1> USE DEF parentVars, workVars
<1>0. /\ child \in [Children -> {"unborn"} \cup ChildPCs \cup DeadPCs]
      /\ log[c] \in Seq(LineType) /\ cmds[c] \in Seq(Commands)
      /\ log \in [Children -> Seq(LineType)] /\ cmds \in [Children -> Seq(Commands)]
      /\ touchedRegions \in [Children -> Nat] /\ touchedRegions[c] \in Nat
      /\ TypeOK /\ TypeOK'
  BY DEF KnownInv, TypeOK
<1>1. ChildUp(c)
  <2>1. child[c] # "gone"
    BY <1>0 DEF ChildStep, Calloc, CallocFail, Start, MapChunk, MapFails, ReportMapFail,
       ReportAllocDone, ReadCmd, Touch, Exit, CloseAll, ChildMoves, Notify, Kill, ChildUp,
       ChildPCs
  <2> QED
    BY <1>0, <2>1, ChildRuns DEF ChildUp
<1>2. /\ Requests(c) = Counted(c) /\ Requests(c)' = Counted(c)'
      /\ Count(cmds[c], {"T"}) \in Nat /\ Count(log[c], DoneLines) \in Nat
  <2>1. Requests(c) = Counted(c) /\ Count(cmds[c], {"T"}) \in Nat
        /\ Count(log[c], DoneLines) \in Nat
    BY <1>0, RequestsCounted
  <2>2. /\ {k \in 1 .. Len(log'[c]) : log'[c][k] \in DoneLines}
             = {k \in 1 .. Len(log'[c]) : log'[c][k].kind = "TOUCH_DONE"}
        /\ {k \in 1 .. Len(cmds'[c]) : cmds'[c][k] \in {"T"}}
             = {k \in 1 .. Len(cmds'[c]) : cmds'[c][k] = "T"}
    <3>1. log'[c] \in Seq(LineType)
      BY <1>0 DEF TypeOK
    <3> QED
      BY <3>1 DEF DoneLines
  <2>3. Requests(c)' = Counted(c)'
    BY <2>2 DEF Requests, Counted, Count
  <2> QED
    BY <2>1, <2>3
<1> SUFFICES Counted(c)' = Counted(c)
  BY <1>1, <1>2
<1>3. ASSUME NEW kind \in Lines, NEW bytes \in Nat, NEW next, Report(c, kind, bytes, next)
      PROVE  /\ child'[c] = next /\ UNCHANGED cmds
             /\ Count(log'[c], DoneLines)
                  = Count(log[c], DoneLines) + (IF kind = "TOUCH_DONE" THEN 1 ELSE 0)
  <2>1. /\ child'[c] = next /\ UNCHANGED cmds
        /\ log'[c] = Append(log[c], Line(kind, bytes))
    BY <1>0, <1>3 DEF Report, ChildUp, ChildPCs
  <2>2. /\ Line(kind, bytes) \in LineType
        /\ Line(kind, bytes) \in DoneLines <=> kind = "TOUCH_DONE"
    BY DEF Line, LineType, DoneLines
  <2> QED
    BY <1>0, <2>1, <2>2, CountAppend
<1>4. ASSUME NEW kind \in Lines \ {"TOUCH_DONE"}, NEW bytes \in Nat,
             NEW next \in ChildPCs \ {"touch"}, Report(c, kind, bytes, next),
             UNCHANGED touchedRegions, child[c] # "touch"
      PROVE  Counted(c)' = Counted(c)
  <2>1. /\ child'[c] = next /\ UNCHANGED cmds
        /\ Count(log'[c], DoneLines) = Count(log[c], DoneLines)
    BY <1>2, <1>3, <1>4
  <2> QED
    BY <1>4, <2>1 DEF Counted
<1>5. ASSUME UNCHANGED <<touchedRegions, cmds, log>>, child[c] # "touch", child'[c] # "touch"
      PROVE  Counted(c)' = Counted(c)
  BY <1>5 DEF Counted
<1>6. ReservedBytes(c) \in Nat /\ TouchedBytes(c) \in Nat
      /\ ReservedBytes(c) + Chunk \in Nat /\ TouchedBytes(c) + Chunk \in Nat
  BY <1>0, ViewTypes, ChunkAssumption
<1>7. CASE CallocFail(c) \/ Start(c) \/ MapChunk(c) \/ ReportMapFail(c) \/ ReportAllocDone(c)
           \/ Exit(c)
  BY <1>2, <1>4, <1>6, <1>7
  DEF CallocFail, Start, MapChunk, ReportMapFail, ReportAllocDone, Exit, Lines, ChildPCs
<1>8. CASE Calloc(c) \/ MapFails(c) \/ CloseAll(c)
  BY <1>0, <1>2, <1>5, <1>8 DEF Calloc, MapFails, CloseAll, ChildMoves
<1>9. CASE Notify(c) \/ Kill(c)
  BY <1>0, <1>9 DEF Notify, Kill, ChildUp, ChildPCs
<1>10. CASE Touch(c)
  <2>1. child[c] = "touch"
    BY <1>10 DEF Touch
  <2>2. CASE touchedRegions[c] < regions[c]
    <3>1. /\ touchedRegions'[c] = touchedRegions[c] + 1
          /\ Report(c, "TOUCH_OK", TouchedBytes(c) + Chunk, "cmd")
      <4>1. regions[c] \in Nat
        BY DEF KnownInv, TypeOK
      <4> QED
        BY <1>0, <1>10, <2>2, <4>1 DEF Touch
    <3>2. /\ child'[c] = "cmd" /\ UNCHANGED cmds
          /\ Count(log'[c], DoneLines) = Count(log[c], DoneLines)
      BY <1>2, <1>3, <1>6, <3>1 DEF Lines
    <3> QED
      BY <1>0, <1>2, <2>1, <3>1, <3>2 DEF Counted
  <2>3. CASE ~(touchedRegions[c] < regions[c])
    <3>1. /\ UNCHANGED touchedRegions
          /\ Report(c, "TOUCH_DONE", TouchedBytes(c), "cmd")
      BY <1>10, <2>3 DEF Touch
    <3>2. /\ child'[c] = "cmd" /\ UNCHANGED cmds
          /\ Count(log'[c], DoneLines) = Count(log[c], DoneLines) + 1
      BY <1>2, <1>3, <1>6, <3>1 DEF Lines
    <3> QED
      BY <1>0, <1>2, <2>1, <3>1, <3>2 DEF Counted
  <2> QED
    BY <2>2, <2>3
<1>11. CASE ReadCmd(c)
  <2>1. child[c] = "cmd" /\ UNCHANGED <<touchedRegions, log>>
    BY <1>11 DEF ReadCmd
  <2>2. CASE cmds[c] = <<>>
    BY <1>0, <1>2, <1>5, <1>11, <2>1, <2>2 DEF ReadCmd
  <2>3. CASE cmds[c] # <<>>
    <3>1. /\ cmds'[c] = Tail(cmds[c])
          /\ child'[c] = (IF Head(cmds[c]) = "Q" THEN "exit" ELSE "touch")
      BY <1>0, <1>11, <2>3 DEF ReadCmd
    <3>2. Head(cmds[c]) \in {"T", "Q"}
      BY <1>0, <2>3 DEF Commands
    <3>3. Count(cmds[c], {"T"})
            = Count(Tail(cmds[c]), {"T"}) + (IF Head(cmds[c]) \in {"T"} THEN 1 ELSE 0)
      BY <1>0, <2>3, CountTail
    <3>4. Tail(cmds[c]) \in Seq(Commands)
      BY <1>0, <2>3
    <3>5. Count(Tail(cmds[c]), {"T"}) \in Nat
      BY <3>4, CountType
    <3>6. CASE Head(cmds[c]) = "T"
      BY <1>0, <1>2, <2>1, <3>1, <3>3, <3>5, <3>6 DEF Counted
    <3>7. CASE Head(cmds[c]) = "Q"
      BY <1>0, <1>2, <2>1, <3>1, <3>3, <3>5, <3>7 DEF Counted
    <3> QED
      BY <3>2, <3>6, <3>7
  <2> QED
    BY <2>2, <2>3
<1> QED
  BY <1>7, <1>8, <1>9, <1>10, <1>11 DEF ChildStep

\* Steps that ask nobody and make nobody touchable keep the turns.
LEMMA TurnsFrame ==
  ASSUME TurnsKept, UNCHANGED nextTouch, Touchable' \subseteq Touchable,
         \A c \in Touchable' : ChildUp(c)' => ChildUp(c) /\ Requests(c)' = Requests(c)
  PROVE  TurnsKept'
BY DEF TurnsKept, Turn

\* How the turn passes: the one asked comes last, the others move up.
LEMMA TurnPasses ==
  ASSUME NEW t \in Children, NEW m \in Children
  PROVE  /\ Turn(t, NextAfter(t)) = N - 1
         /\ \A c \in Children \ {t} : Turn(t, m) <= Turn(c, m) =>
              /\ Turn(t, m) < Turn(c, m)
              /\ Turn(c, NextAfter(t)) = Turn(c, m) - Turn(t, m) - 1
         /\ \A c \in Children : Turn(c, m) \in 0 .. N - 1
<1>1. N \in Nat \ {0}
  BY NAssumption
<1>2. \A c, n \in Children : Turn(c, n) = IF c >= n THEN c - n ELSE c - n + N
  <2> SUFFICES ASSUME NEW c \in Children, NEW n \in Children
               PROVE  (c - n) % N = IF c >= n THEN c - n ELSE c - n + N
    BY DEF Turn
  <2> USE DEF Children
  <2>1. CASE c >= n
    <3>1. c - n \in 0 .. N - 1
      BY <1>1, <2>1
    <3> QED
      BY <1>1, <2>1, <3>1
  <2>2. CASE ~(c >= n)
    <3>1. c - n + N \in 0 .. N - 1 /\ c - n = (0 - 1) * N + (c - n + N)
      BY <1>1, <2>2
    <3>2. (c - n) % N = c - n + N
      BY <1>1, <3>1
    <3> QED
      BY <2>2, <3>2
  <2> QED
    BY <2>1, <2>2
<1>3. NextAfter(t) = IF t + 1 = N THEN 0 ELSE t + 1
  <2>1. t + 1 = N => (t + 1) % N = 0
    BY <1>1
  <2>2. t + 1 # N => t + 1 \in 0 .. N - 1
    BY <1>1 DEF Children
  <2>3. t + 1 # N => (t + 1) % N = t + 1
    BY <1>1, <2>2
  <2> QED
    BY <2>1, <2>3 DEF NextAfter
<1>4. NextAfter(t) \in Children
  BY NextAfterChild
<1>5. Turn(t, NextAfter(t)) = N - 1
  BY <1>1, <1>2, <1>3, <1>4 DEF Children
<1>6. \A c \in Children : Turn(c, m) \in 0 .. N - 1
  BY <1>1, <1>2 DEF Children
<1>7. ASSUME NEW c \in Children \ {t}, Turn(t, m) <= Turn(c, m)
      PROVE  /\ Turn(t, m) < Turn(c, m)
             /\ Turn(c, NextAfter(t)) = Turn(c, m) - Turn(t, m) - 1
  <2>1. /\ Turn(t, m) = IF t >= m THEN t - m ELSE t - m + N
        /\ Turn(c, m) = IF c >= m THEN c - m ELSE c - m + N
    BY <1>2
  <2>2. Turn(c, NextAfter(t)) =
          IF c >= NextAfter(t) THEN c - NextAfter(t) ELSE c - NextAfter(t) + N
    BY <1>2, <1>4
  <2>3. c \in 0 .. N - 1 /\ t \in 0 .. N - 1 /\ m \in 0 .. N - 1 /\ c # t
    BY DEF Children
  <2>4. Turn(t, m) < Turn(c, m)
    BY <1>1, <1>7, <2>1, <2>3
  <2>5. CASE t + 1 = N
    <3>1. NextAfter(t) = 0
      BY <1>3, <2>5
    <3> QED
      BY <1>1, <1>7, <2>1, <2>2, <2>3, <2>4, <2>5, <3>1
  <2>6. CASE t + 1 # N
    <3>1. NextAfter(t) = t + 1
      BY <1>3, <2>6
    <3> QED
      BY <1>1, <1>7, <2>1, <2>2, <2>3, <2>4, <2>6, <3>1
  <2> QED
    BY <2>5, <2>6
<1> QED
  BY <1>5, <1>6, <1>7

\* A child nothing was done to has as many requests as before.
LEMMA SameRequests ==
  ASSUME NEW d \in Children, Unmoved(d)
  PROVE  Requests(d)' = Requests(d) /\ (ChildUp(d)' <=> ChildUp(d))
BY DEF Unmoved, Requests, ChildUp

\* A command sent to c: a 'T' is one request more, a 'Q' none.
LEMMA SendRequests ==
  ASSUME TypeOK, TypeOK', NEW c \in Children, NEW cmd \in Commands,
         cmds' = [cmds EXCEPT ![c] = Append(@, cmd)],
         UNCHANGED <<child, regions, touchedRegions, log>>
  PROVE  /\ Requests(c)' = Requests(c) + (IF cmd = "T" THEN 1 ELSE 0)
         /\ \A d \in Children \ {c} : Unmoved(d)
<1>1. /\ cmds \in [Children -> Seq(Commands)] /\ cmds[c] \in Seq(Commands)
      /\ cmds'[c] = Append(cmds[c], cmd)
      /\ \A d \in Children \ {c} : cmds'[d] = cmds[d]
  BY DEF TypeOK
<1>2. Count(cmds'[c], {"T"}) = Count(cmds[c], {"T"}) + (IF cmd = "T" THEN 1 ELSE 0)
  BY <1>1, CountAppend
<1>3. /\ Requests(c) = Counted(c)
      /\ touchedRegions[c] \in Nat /\ Count(cmds[c], {"T"}) \in Nat
      /\ Count(log[c], DoneLines) \in Nat
  BY RequestsCounted
<1>4. Requests(c)' = Counted(c)'
  <2>1. /\ {k \in 1 .. Len(log'[c]) : log'[c][k] \in DoneLines}
             = {k \in 1 .. Len(log'[c]) : log'[c][k].kind = "TOUCH_DONE"}
        /\ {k \in 1 .. Len(cmds'[c]) : cmds'[c][k] \in {"T"}}
             = {k \in 1 .. Len(cmds'[c]) : cmds'[c][k] = "T"}
    <3>1. log'[c] \in Seq(LineType)
      BY DEF TypeOK
    <3> QED
      BY <3>1 DEF DoneLines
  <2> QED
    BY <2>1 DEF Requests, Counted, Count
<1>5. Counted(c)' = Counted(c) + (IF cmd = "T" THEN 1 ELSE 0)
  BY <1>2, <1>3 DEF Counted
<1>6. \A d \in Children \ {c} : Unmoved(d)
  BY <1>1 DEF Unmoved
<1> QED
  BY <1>3, <1>4, <1>5, <1>6

\* Asking the child whose turn it is keeps the turns.
LEMMA RequestTurns ==
  ASSUME TypeOK, TypeOK', TurnsKept, NEW t \in Children, IsTouchTarget(t), ChildUp(t),
         cmds' = [cmds EXCEPT ![t] = Append(@, "T")], nextTouch' = NextAfter(t),
         UNCHANGED <<child, regions, touchedRegions, log, alive, reserved, touched>>
  PROVE  TurnsKept'
<1>1. /\ Requests(t)' = Requests(t) + 1
      /\ \A d \in Children \ {t} : Requests(d)' = Requests(d)
      /\ \A d \in Children : ChildUp(d)' <=> ChildUp(d)
  <2>1. "T" \in Commands
    BY DEF Commands
  <2>2. /\ Requests(t)' = Requests(t) + 1
        /\ \A d \in Children \ {t} : Unmoved(d)
    BY <2>1, SendRequests
  <2> QED
    BY <2>2, SameRequests DEF ChildUp
<1>2. Touchable' = Touchable /\ Touchable \subseteq Children
  BY DEF Touchable
<1>3. PICK m \in Children : m = nextTouch
  BY DEF TypeOK
<1>4. \A d \in Touchable : Turn(t, m) <= Turn(d, m)
  BY <1>3 DEF IsTouchTarget, Turn
<1>5. \A d \in Children : Requests(d) \in Nat
  BY RequestsCounted
<1>6. t \in Touchable
  BY DEF IsTouchTarget
<1>7. \A c, d \in Touchable : ChildUp(c) /\ ChildUp(d) =>
        /\ Requests(c) <= Requests(d) + 1
        /\ Turn(c, m) < Turn(d, m) => Requests(c) <= Requests(d)
  BY <1>3 DEF TurnsKept
<1>8. /\ Turn(t, NextAfter(t)) = N - 1
      /\ \A c \in Touchable \ {t} :
              /\ Turn(t, m) < Turn(c, m)
              /\ Turn(c, NextAfter(t)) = Turn(c, m) - Turn(t, m) - 1
      /\ \A c \in Touchable : Turn(c, m) \in 0 .. N - 1
  BY <1>2, <1>4, TurnPasses
<1>9. ASSUME NEW c \in Touchable, NEW d \in Touchable, ChildUp(c), ChildUp(d)
      PROVE  /\ Requests(c)' <= Requests(d)' + 1
             /\ Turn(c, NextAfter(t)) < Turn(d, NextAfter(t)) => Requests(c)' <= Requests(d)'
  <2>0. Requests(c) \in Nat /\ Requests(d) \in Nat /\ Requests(t) \in Nat /\ N \in Nat \ {0}
    BY <1>2, <1>5, NAssumption
  <2>1. CASE c = t /\ d = t
    BY <1>1, <2>0, <2>1
  <2>2. CASE c = t /\ d # t
    <3>1. Requests(t) <= Requests(d)
      BY <1>6, <1>7, <1>8, <1>9, <2>2
    <3>2. Requests(c)' = Requests(t) + 1 /\ Requests(d)' = Requests(d)
      BY <1>1, <1>2, <2>2
    <3>3. Turn(d, m) \in 0 .. N - 1 /\ Turn(t, m) \in 0 .. N - 1
      BY <1>6, <1>8
    <3>4. ~(Turn(c, NextAfter(t)) < Turn(d, NextAfter(t)))
      BY <1>8, <2>0, <2>2, <3>3
    <3> QED
      BY <2>0, <3>1, <3>2, <3>4
  <2>3. CASE c # t /\ d = t
    <3>1. Requests(c) <= Requests(t) + 1
      BY <1>6, <1>7, <1>9, <2>3
    <3>2. Requests(d)' = Requests(t) + 1 /\ Requests(c)' = Requests(c)
      BY <1>1, <1>2, <2>3
    <3> QED
      BY <2>0, <3>1, <3>2
  <2>4. CASE c # t /\ d # t
    <3>1. /\ Requests(c) <= Requests(d) + 1
          /\ Turn(c, m) < Turn(d, m) => Requests(c) <= Requests(d)
      BY <1>7, <1>9
    <3>2. Requests(d)' = Requests(d) /\ Requests(c)' = Requests(c)
      BY <1>1, <1>2, <2>4
    <3>3. Turn(d, m) \in Int /\ Turn(t, m) \in Int /\ Turn(c, m) \in Int
      BY <1>6, <1>8, <2>0
    <3>4. Turn(c, NextAfter(t)) < Turn(d, NextAfter(t)) => Turn(c, m) < Turn(d, m)
      BY <1>8, <2>4, <3>3
    <3> QED
      BY <3>1, <3>2, <3>4
  <2> QED
    BY <2>1, <2>2, <2>3, <2>4
<1> QED
  BY <1>1, <1>2, <1>9 DEF TurnsKept, Turn

LEMMA NextTurns ==
  ASSUME KnownInv, KnownInv', TouchLinesInv, TurnsInv, [Next]_vars PROVE TurnsInv'
<1> USE DEF viewVars, phaseVars, clockVars, parentVars, workVars
<1>0. /\ TurnsKept /\ TypeOK /\ TypeOK'
      /\ child \in [Children -> {"unborn"} \cup ChildPCs \cup DeadPCs]
      /\ log \in [Children -> Seq(LineType)] /\ cmds \in [Children -> Seq(Commands)]
  BY TurnsNow DEF KnownInv, TypeOK
<1>1. ASSUME NEW c \in Children, ChildStep(c) \/ Kill(c) PROVE TurnsInv'
  <2>1. /\ UNCHANGED <<alive, reserved, touched, nextTouch>>
        /\ \A d \in Children \ {c} : Unmoved(d)
    BY <1>0, <1>1, ChildAlone
  <2>2. Touchable' = Touchable
    BY <2>1 DEF Touchable
  <2>3. ASSUME NEW d \in Touchable, ChildUp(d)' PROVE ChildUp(d) /\ Requests(d)' = Requests(d)
    <3>1. CASE d = c
      BY <1>1, <2>3, <3>1, ChildRequests
    <3>2. CASE d # c
      BY <2>1, <2>3, <3>2, SameRequests DEF Touchable
    <3> QED
      BY <3>1, <3>2
  <2> QED
    BY <1>0, <2>1, <2>2, <2>3, TurnsFrame DEF TurnsInv
<1>2. ASSUME UNCHANGED <<alive, reserved, touched, nextTouch, child, regions, touchedRegions,
                         cmds, log>>
      PROVE  TurnsInv'
  <2>1. \A d \in Children : Unmoved(d)
    BY <1>2 DEF Unmoved
  <2>2. Touchable' = Touchable /\ Touchable \subseteq Children
    BY <1>2 DEF Touchable
  <2>3. \A d \in Touchable : ChildUp(d)' => ChildUp(d) /\ Requests(d)' = Requests(d)
    BY <2>1, <2>2, SameRequests
  <2> QED
    BY <1>0, <1>2, <2>2, <2>3, TurnsFrame DEF TurnsInv
<1>3. CASE Spawn
  <2>1. /\ forked \in Children /\ child[forked] = "unborn" /\ UNCHANGED touchPhase
    BY <1>3, NAssumption DEF Spawn, KnownInv, TypeOK, ForkOrder, Children
  <2>2. ~touchPhase
    BY <2>1, PhaseKnows DEF KnownInv, Reserving, ReservingPCs
  <2> QED
    BY <2>1, <2>2 DEF TurnsInv
<1>4. ASSUME NEW c \in Children, Reap(c) PROVE TurnsInv'
  <2>1. /\ UNCHANGED <<reserved, touched, nextTouch>> /\ alive \in [Children -> BOOLEAN]
        /\ alive' = [alive EXCEPT ![c] = FALSE]
        /\ \A d \in Children \ {c} : Unmoved(d)
    BY <1>0, <1>4 DEF Reap, TypeOK, Unmoved
  <2>2. Touchable' \subseteq Touchable \ {c}
    BY <2>1 DEF Touchable
  <2>3. \A d \in Touchable' : ChildUp(d)' => ChildUp(d) /\ Requests(d)' = Requests(d)
    BY <2>1, <2>2, SameRequests DEF Touchable
  <2> QED
    BY <1>0, <2>1, <2>2, <2>3, TurnsFrame DEF TurnsInv
<1>5. CASE ReadLine
  <2>1. PICK c \in Children : /\ log[c] # <<>> /\ Consume(c, Head(log[c]))
                              /\ log' = [log EXCEPT ![c] = Tail(@)]
    BY <1>5 DEF ReadLine
  <2>2. UNCHANGED <<alive, touchPhase, nextTouch, child, regions, touchedRegions, cmds>>
    BY <1>5 DEF ReadLine
  <2>3. CASE ~touchPhase
    BY <2>2, <2>3 DEF TurnsInv
  <2>4. CASE touchPhase
    <3>1. ASSUME NEW d \in Children
          PROVE  /\ reserved'[d] = reserved[d] /\ reserved[d] = ReservedBytes(d)
                 /\ reserved[d] \in Nat /\ touched[d] \in Nat
                 /\ touched'[d] \in Nat /\ touched'[d] >= touched[d]
      <4>1. reserved[d] = ReservedBytes(d)
        BY <2>4, PhaseKnows DEF KnownInv
      <4>2. reserved'[d] <= ReservedBytes(d)
        BY <2>2 DEF KnownInv, ViewInv, View, Within, ReservedBytes
      <4>3. reserved'[d] >= reserved[d] /\ touched'[d] >= touched[d]
        BY <1>0, <1>5, ParentView DEF KnownInv, ParentStep
      <4>4. /\ reserved[d] \in Nat /\ reserved'[d] \in Nat
            /\ touched[d] \in Nat /\ touched'[d] \in Nat
        BY <1>0 DEF TypeOK
      <4> QED
        BY <4>1, <4>2, <4>3, <4>4
    <3>2. Touchable' \subseteq Touchable
      BY <2>2, <3>1 DEF Touchable
    <3>3. \A d \in Children \ {c} : Unmoved(d)
      BY <1>0, <2>1, <2>2 DEF Unmoved
    <3>4. log[c] \in Seq(LineType) /\ log'[c] = Tail(log[c]) /\ log'[c] \in Seq(LineType)
      BY <1>0, <2>1
    <3>5. CASE Head(log[c]) \in DoneLines
      <4>1. 1 \in Sent(c) /\ Head(log[c]) = log[c][1]
        BY <2>1, <3>4 DEF Sent
      <4>2. log[c][1].kind = "TOUCH_DONE" /\ log[c][1].bytes = ReservedBytes(c)
        BY <3>5, <4>1 DEF TouchLinesInv, TouchLines, DoneLines
      <4>3. touched'[c] = ReservedBytes(c)
        BY <1>0, <2>1, <4>1, <4>2 DEF Consume, TypeOK
      <4>4. c \notin Touchable'
        BY <3>1, <4>3 DEF Touchable
      <4>5. \A d \in Touchable' : ChildUp(d)' => ChildUp(d) /\ Requests(d)' = Requests(d)
        BY <3>3, <4>4, SameRequests DEF Touchable
      <4> QED
        BY <1>0, <2>2, <3>2, <4>5, TurnsFrame DEF TurnsInv
    <3>6. CASE Head(log[c]) \notin DoneLines
      <4>1. Count(log[c], DoneLines) = Count(log'[c], DoneLines) + 0
        BY <2>1, <3>4, <3>6, CountTail
      <4>2. Count(log'[c], DoneLines) = Count(log[c], DoneLines)
        <5>1. Count(log'[c], DoneLines) \in Nat
          BY <3>4, CountType
        <5> QED
          BY <4>1, <5>1
      <4>3. {k \in 1 .. Len(log'[c]) : log'[c][k] \in DoneLines}
              = {k \in 1 .. Len(log'[c]) : log'[c][k].kind = "TOUCH_DONE"}
        BY <3>4 DEF DoneLines
      <4>4. {k \in 1 .. Len(log[c]) : log[c][k] \in DoneLines}
              = {k \in 1 .. Len(log[c]) : log[c][k].kind = "TOUCH_DONE"}
        BY <3>4 DEF DoneLines
      <4>5. Requests(c)' = Requests(c)
        BY <2>2, <4>2, <4>3, <4>4 DEF Requests, Count
      <4>6. \A d \in Touchable' : ChildUp(d)' => ChildUp(d) /\ Requests(d)' = Requests(d)
        BY <2>2, <3>3, <4>5, SameRequests DEF Touchable, ChildUp
      <4> QED
        BY <1>0, <2>2, <3>2, <4>6, TurnsFrame DEF TurnsInv
    <3> QED
      BY <3>5, <3>6
  <2> QED
    BY <2>3, <2>4
<1>6. CASE TellQuit
  <2>1. UNCHANGED <<alive, reserved, touched, nextTouch, child, regions, touchedRegions, log>>
    BY <1>6 DEF TellQuit
  <2>2. PICK c \in Children : cmds' = [cmds EXCEPT ![c] = Append(@, "Q")] \/ UNCHANGED cmds
    BY <1>6 DEF TellQuit
  <2>3. CASE UNCHANGED cmds
    BY <1>2, <2>1, <2>3
  <2>4. CASE cmds' = [cmds EXCEPT ![c] = Append(@, "Q")]
    <3>1. "Q" \in Commands /\ "Q" # "T"
      BY DEF Commands
    <3>2. Requests(c)' = Requests(c) + 0 /\ \A d \in Children \ {c} : Unmoved(d)
      BY <1>0, <2>1, <2>4, <3>1, SendRequests
    <3>3. Requests(c) \in Nat
      BY <1>0, RequestsCounted
    <3>4. Touchable' = Touchable /\ Touchable \subseteq Children
      BY <2>1 DEF Touchable
    <3>5. \A d \in Touchable : ChildUp(d)' => ChildUp(d) /\ Requests(d)' = Requests(d)
      BY <2>1, <3>2, <3>3, <3>4, SameRequests DEF ChildUp
    <3> QED
      BY <1>0, <2>1, <3>4, <3>5, TurnsFrame DEF TurnsInv
  <2> QED
    BY <2>2, <2>3, <2>4
<1>7. CASE RequestTouch
  <2>1. UNCHANGED <<alive, reserved, touched, child, regions, touchedRegions, log>>
    BY <1>7 DEF RequestTouch
  <2>2. PICK t \in Children :
          /\ IsTouchTarget(t)
          /\ \/ /\ ChildUp(t) /\ cmds' = [cmds EXCEPT ![t] = Append(@, "T")]
                /\ nextTouch' = NextAfter(t)
             \/ UNCHANGED <<cmds, nextTouch>>
    BY <1>7 DEF RequestTouch
  <2>3. CASE UNCHANGED <<cmds, nextTouch>>
    BY <1>2, <2>1, <2>3
  <2>4. CASE /\ ChildUp(t) /\ cmds' = [cmds EXCEPT ![t] = Append(@, "T")]
             /\ nextTouch' = NextAfter(t)
    BY <1>0, <2>1, <2>2, <2>4, RequestTurns DEF TurnsInv
  <2> QED
    BY <2>2, <2>3, <2>4
<1>8. CASE SpawnFails \/ Select \/ CheckSignal \/ ReapEnd \/ ClearFlag \/ ReadEof \/ ReadEnd
  BY <1>2, <1>8 DEF SpawnFails, Select, CheckSignal, ReapEnd, ClearFlag, ReadEof, ReadEnd
<1>9. CASE Decide \/ EndIteration \/ TellEnd \/ ClockTick \/ Ended \/ UNCHANGED vars
  BY <1>2, <1>9 DEF Decide, EndIteration, TellEnd, ClockTick, Ended, vars
<1> QED
  BY <1>1, <1>3, <1>4, <1>5, <1>6, <1>7, <1>8, <1>9 DEF Next, ParentStep

\* Of two living children with memory left to touch, neither is asked more than
\* once more than the other, wherever the requests and the answers are.
THEOREM TurnsHold == Spec => []RoundRobin
<1>1. Init => TouchLinesInv /\ TurnsInv
  BY DEF Init, TouchLinesInv, TouchLines, Sent, TurnsInv
<1>2. KnownInv /\ KnownInv' /\ TouchLinesInv /\ TurnsInv /\ [Next]_vars =>
        TouchLinesInv' /\ TurnsInv'
  BY NextTouchLines, NextTurns
<1>3. Spec => [](TouchLinesInv /\ TurnsInv)
  BY <1>1, <1>2, KnownHolds, PTL DEF Spec
<1>4. KnownInv /\ TouchLinesInv /\ TurnsInv => RoundRobin
  BY TurnsNow DEF KnownInv, TurnsKept, RoundRobin
<1> QED
  BY <1>3, <1>4, KnownHolds, PTL
=============================================================================
