---------------------------- MODULE FtraceProofs ----------------------------
(***************************************************************************)
(* Theorems about FtraceIt for any number of sessions, any process ids and *)
(* any failures, overlapping or not.                                       *)
(***************************************************************************)
EXTENDS FtraceIt, TLAPS

\* Every action once, for the leaves that look at all of them.
USE DEF ParentMoves, ChildMoves, Observed, traceVars, procVars, recordVars, Written

LEMMA InitTypeOK == Init => TypeOK
BY PidsAssumption DEF Init, TypeOK, ChildPCs

LEMMA NextTypeOK == TypeOK /\ [Next]_vars => TypeOK'
<1> SUFFICES ASSUME TypeOK, [Next]_vars PROVE TypeOK' OBVIOUS
<1> USE DEF TypeOK, Working, Stopped, ChildPCs
<1>1. ASSUME NEW s \in Sessions, Fork(s) PROVE TypeOK'
  BY <1>1 DEF Fork, Free
<1>2. ASSUME NEW s \in Sessions, ParentStep(s) PROVE TypeOK'
  <2>1. CASE RouteIrqs(s) BY <2>1 DEF RouteIrqs
  <2>2. CASE SetTracer(s) BY <2>2 DEF SetTracer
  <2>3. CASE SetFilter(s) BY <2>3 DEF SetFilter
  <2>4. CASE Release(s) BY <2>4 DEF Release
  <2>5. CASE Wait(s) BY <2>5 DEF Wait
  <2>6. CASE Disable(s) BY <2>6 DEF Disable
  <2>7. CASE Fail(s) BY <2>7 DEF Fail
  <2> QED BY <1>2, <2>1, <2>2, <2>3, <2>4, <2>5, <2>6, <2>7 DEF ParentStep
<1>3. ASSUME NEW s \in Sessions, Interrupt(s) PROVE TypeOK'
  BY <1>3 DEF Interrupt
<1>4. ASSUME NEW s \in Sessions, ChildStep(s) \/ Run(s) \/ End(s) PROVE TypeOK'
  <2>1. missed' \subseteq Sessions
    BY <1>4 DEF ChildStep, SeeSemaphore, Pin, Exec, End, Run
  <2>2. child' \in [Sessions -> ChildPCs]
    BY <1>4 DEF ChildStep, SeeSemaphore, Pin, Exec, End, Run
  <2> QED BY <1>4, <2>1, <2>2
          DEF ChildStep, SeeSemaphore, Pin, Exec, End, Run
<1>5. CASE UNCHANGED vars BY <1>5 DEF vars
<1> QED BY <1>1, <1>2, <1>3, <1>4, <1>5 DEF Next

\* Every variable keeps its type.
THEOREM TypeCorrect == Spec => []TypeOK
<1> QED BY InitTypeOK, NextTypeOK, PTL DEF Spec

\* What a step can do to the tracefs files and to the sessions' places: the
\* tracer goes on with SetTracer, off with Disable, and the filter only grows.
LEMMA StepEffects ==
  ASSUME TypeOK, [Next]_vars
  PROVE  /\ filter \subseteq filter'
         /\ tracer' # tracer => \E s \in Sessions : SetTracer(s) \/ Disable(s)
<1>1. CASE UNCHANGED vars BY <1>1 DEF vars
<1>2. ASSUME NEW s \in Sessions, Fork(s) \/ Interrupt(s) \/ ChildStep(s) \/ Run(s) \/ End(s)
      PROVE  UNCHANGED traceVars
  BY <1>2 DEF Fork, Interrupt, ChildStep, SeeSemaphore, Pin, Exec, End,
              Run
<1>3. ASSUME NEW s \in Sessions, ParentStep(s)
      PROVE  /\ filter \subseteq filter'
             /\ tracer' # tracer => SetTracer(s) \/ Disable(s)
  BY <1>3 DEF ParentStep, RouteIrqs, SetTracer, SetFilter, Release, Wait, Disable,
              Fail
<1> QED BY <1>1, <1>2, <1>3 DEF Next

\* Where a parent can be after a step, given where it was.
LEMMA ParentMoved ==
  ASSUME TypeOK, [Next]_vars, NEW s \in Sessions
  PROVE  \/ parent'[s] = parent[s] /\ (pid'[s] = pid[s] \/ parent'[s] = "off")
         \/ parent[s] = "off" /\ parent'[s] = "irq"
         \/ parent[s] = "irq" /\ parent'[s] = "tracer"
         \/ parent[s] = "tracer" /\ parent'[s] = "filter" /\ tracer' = "function"
         \/ parent[s] = "filter" /\ parent'[s] = "ready" /\ pid'[s] \in filter'
         \/ parent[s] = "ready" /\ parent'[s] = "wait" /\ pid'[s] = pid[s]
         \/ parent[s] = "wait" /\ parent'[s] = "disable"
         \/ parent[s] = "disable" /\ parent'[s] = "done" /\ tracer' = "nop"
         \/ parent'[s] \in {"failed", "interrupted"}
<1>1. CASE UNCHANGED vars BY <1>1 DEF vars
<1>2. ASSUME NEW t \in Sessions, ChildStep(t) \/ Run(t) \/ End(t)
      PROVE  UNCHANGED <<parent, pid>>
  BY <1>2 DEF ChildStep, SeeSemaphore, Pin, Exec, End, Run
<1>3. ASSUME NEW t \in Sessions, t # s, Fork(t) \/ ParentStep(t) \/ Interrupt(t)
      PROVE  parent'[s] = parent[s] /\ pid'[s] = pid[s]
  BY <1>3 DEF TypeOK, Fork, Interrupt, ParentStep, RouteIrqs, SetTracer, SetFilter,
              Release, Wait, Disable, Fail
<1>4. CASE Fork(s) BY <1>4 DEF Fork, TypeOK
<1>5. CASE Interrupt(s) BY <1>5 DEF Interrupt, TypeOK
<1>6. CASE ParentStep(s)
  BY <1>6 DEF TypeOK, ParentStep, RouteIrqs, SetTracer, SetFilter, Release, Wait,
              Disable, Fail
<1> QED BY <1>1, <1>2, <1>3, <1>4, <1>5, <1>6 DEF Next

\* A session that has written its pid stays in the filter until it stops waiting,
\* whatever other sessions write.
THEOREM OwnPidStays == Spec => []OwnPidFiltered
<1>1. Init => OwnPidFiltered BY DEF Init, OwnPidFiltered
<1>2. TypeOK /\ OwnPidFiltered /\ [Next]_vars => OwnPidFiltered'
  <2> SUFFICES ASSUME TypeOK, OwnPidFiltered, [Next]_vars, NEW s \in Sessions,
                      parent'[s] \in {"ready", "wait"}
               PROVE  pid'[s] \in filter'
    BY DEF OwnPidFiltered
  <2>1. filter \subseteq filter' BY StepEffects
  <2> QED BY <2>1, ParentMoved DEF OwnPidFiltered
<1> QED BY <1>1, <1>2, TypeCorrect, PTL DEF Spec

\* OffAtTheEnd is not inductive: it does not say who keeps the tracer on.
\* OnMeansConfigured does.
LEMMA NextOnMeansConfigured ==
  TypeOK /\ OnMeansConfigured /\ [Next]_vars => OnMeansConfigured'
<1> SUFFICES ASSUME TypeOK, OnMeansConfigured, [Next]_vars, tracer' = "function"
             PROVE  \E s \in Sessions :
                      parent'[s] \notin {"off", "irq", "tracer", "done"}
  BY DEF OnMeansConfigured
<1>1. CASE tracer = "function"
  <2>1. PICK s \in Sessions : parent[s] \notin {"off", "irq", "tracer", "done"}
    BY <1>1 DEF OnMeansConfigured
  <2> QED BY <2>1, ParentMoved
<1>2. CASE tracer # "function"
  <2>1. PICK s \in Sessions : SetTracer(s)
    BY <1>2, StepEffects DEF Disable
  <2> QED BY <2>1 DEF SetTracer, TypeOK
<1> QED BY <1>1, <1>2

\* When every session that started has come to its end the tracer is off, however
\* the sessions overlapped.
THEOREM OffWhenAllDone == Spec => []OffAtTheEnd
<1>1. Init => OnMeansConfigured BY DEF Init, OnMeansConfigured
<1>2. TypeOK /\ OnMeansConfigured => OffAtTheEnd
  BY DEF OnMeansConfigured, OffAtTheEnd, TypeOK
<1>3. Spec => []OnMeansConfigured
  BY <1>1, NextOnMeansConfigured, TypeCorrect, PTL DEF Spec
<1> QED BY <1>2, <1>3, TypeCorrect, PTL
-----------------------------------------------------------------------------
(***************************************************************************)
(* NothingMissed: a session that met no other one runs its child only      *)
(* while the tracer is on and its pid is in the filter.                    *)
(***************************************************************************)
\* Sessions that work at the same time have met.
MetInv ==
  \A s, t \in Sessions :
    s # t /\ parent[s] \in Working /\ parent[t] \in Working => s \in met

\* The semaphore holds the child back until its parent waits for it.
SemaphoreInv ==
  \A s \in Sessions :
    /\ parent[s] \in {"off", "irq", "tracer", "filter", "ready"} => semaphore[s] = 0
    /\ child[s] = "spin" /\ semaphore[s] # 0 => parent[s] = "wait"
    /\ child[s] \in {"pin", "exec", "run", "zombie"} => parent[s] = "wait"

\* Only another session turns the tracer off under a session's child.
SoloInv ==
  \A s \in Sessions \ met :
    parent[s] \in {"filter", "ready", "wait"} => tracer = "function"

LEMMA MetGrows == [Next]_vars => met \subseteq met'
BY DEF Next, vars, Fork, Interrupt, ParentStep, RouteIrqs, SetTracer, SetFilter,
       Release, Wait, Disable, Fail, ChildStep, SeeSemaphore, Pin, Exec, Run, End

LEMMA NextMetInv == TypeOK /\ MetInv /\ [Next]_vars => MetInv'
<1> SUFFICES ASSUME TypeOK, MetInv, [Next]_vars, NEW s \in Sessions, NEW t \in Sessions,
                    s # t, parent'[s] \in Working, parent'[t] \in Working
             PROVE  s \in met'
  BY DEF MetInv
<1>1. ASSUME NEW u \in Sessions, Fork(u) PROVE s \in met'
  <2>1. parent' = [parent EXCEPT ![u] = "irq"] BY <1>1 DEF Fork
  <2>2. CASE s # u /\ t # u
    BY <2>1, <2>2, MetGrows DEF MetInv, TypeOK
  <2>3. CASE s = u
    <3>1. parent[t] \in Working BY <2>1, <2>3 DEF TypeOK
    <3> QED BY <1>1, <2>3, <3>1 DEF Fork
  <2>4. CASE t = u
    <3>1. parent[s] \in Working BY <2>1, <2>4 DEF TypeOK
    <3> QED BY <1>1, <3>1 DEF Fork
  <2> QED BY <2>2, <2>3, <2>4
<1>2. CASE ~\E u \in Sessions : Fork(u)
  <2>1. \A u \in Sessions : parent'[u] \in Working => parent[u] \in Working
    BY <1>2 DEF TypeOK, Working, Next, vars, Interrupt, ParentStep, RouteIrqs, SetTracer,
           SetFilter, Release, Wait, Disable, Fail, ChildStep, SeeSemaphore, Pin, Exec,
           Run, End
  <2> QED BY <2>1, MetGrows DEF MetInv
<1> QED BY <1>1, <1>2

LEMMA NextSemaphoreInv == TypeOK /\ SemaphoreInv /\ [Next]_vars => SemaphoreInv'
<1> SUFFICES ASSUME TypeOK, SemaphoreInv, [Next]_vars PROVE SemaphoreInv' OBVIOUS
<1> USE DEF TypeOK, SemaphoreInv
<1>1. ASSUME NEW s \in Sessions, Fork(s) PROVE SemaphoreInv' BY <1>1 DEF Fork
<1>2. ASSUME NEW s \in Sessions, ParentStep(s) PROVE SemaphoreInv'
  <2>1. CASE RouteIrqs(s) BY <2>1 DEF RouteIrqs
  <2>2. CASE SetTracer(s) BY <2>2 DEF SetTracer
  <2>3. CASE SetFilter(s) BY <2>3 DEF SetFilter
  <2>4. CASE Release(s) BY <2>4 DEF Release
  <2>5. CASE Wait(s) BY <2>5 DEF Wait
  <2>6. CASE Disable(s) BY <2>6 DEF Disable
  <2>7. CASE Fail(s) BY <2>7 DEF Fail, FailsAt
  <2> QED BY <1>2, <2>1, <2>2, <2>3, <2>4, <2>5, <2>6, <2>7 DEF ParentStep
<1>3. ASSUME NEW s \in Sessions, Interrupt(s) PROVE SemaphoreInv'
  BY <1>3 DEF Interrupt, Working
<1>4. ASSUME NEW s \in Sessions, ChildStep(s) PROVE SemaphoreInv'
  BY <1>4 DEF ChildStep, SeeSemaphore, Pin, Exec, Go
<1>5. ASSUME NEW s \in Sessions, Run(s) \/ End(s) PROVE SemaphoreInv'
  BY <1>5 DEF Run, End, procVars
<1>6. CASE UNCHANGED vars BY <1>6 DEF vars
<1> QED BY <1>1, <1>2, <1>3, <1>4, <1>5, <1>6 DEF Next

LEMMA NextSoloInv == TypeOK /\ MetInv /\ SoloInv /\ [Next]_vars => SoloInv'
<1> SUFFICES ASSUME TypeOK, MetInv, SoloInv, [Next]_vars, NEW s \in Sessions \ met',
                    parent'[s] \in {"filter", "ready", "wait"}
             PROVE  tracer' = "function"
  BY DEF SoloInv
<1>1. s \notin met BY MetGrows
<1>2. CASE parent[s] = "tracer"
  BY <1>2, ParentMoved
<1>3. CASE parent[s] # "tracer"
  <2>1. parent[s] \in {"filter", "ready", "wait"} BY <1>3, ParentMoved
  <2>2. tracer = "function" BY <1>1, <2>1 DEF SoloInv
  <2>3. ASSUME NEW t \in Sessions, Disable(t) PROVE FALSE
    <3>1. parent[t] = "disable" /\ t # s BY <2>1, <2>3 DEF Disable
    <3> QED BY <1>1, <2>1, <3>1 DEF MetInv, Working
  <2> QED BY <2>2, <2>3, StepEffects DEF SetTracer
<1> QED BY <1>2, <1>3

\* A step is observed only while the parent waits.
LEMMA NextNothingMissed ==
  /\ TypeOK /\ OwnPidFiltered /\ SemaphoreInv /\ SoloInv /\ NothingMissed
  /\ [Next]_vars
  => NothingMissed'
<1> SUFFICES ASSUME TypeOK, OwnPidFiltered, SemaphoreInv, SoloInv, NothingMissed,
                    [Next]_vars
             PROVE  NothingMissed'
  OBVIOUS
<1>1. CASE UNCHANGED missed BY <1>1, MetGrows DEF NothingMissed
<1>2. ASSUME NEW s \in Sessions, Pin(s) \/ Exec(s) \/ Run(s) \/ End(s)
      PROVE  NothingMissed'
  <2>1. child[s] \in {"pin", "exec", "run"} BY <1>2 DEF Pin, Exec, Run, End
  <2>2. met' = met /\ missed' = IF Recorded(pid[s]) THEN missed ELSE missed \cup {s}
    BY <1>2 DEF Pin, Exec, Run, End
  <2>3. parent[s] = "wait" BY <2>1 DEF SemaphoreInv
  <2>4. s \notin met => Recorded(pid[s])
    BY <2>3 DEF SoloInv, OwnPidFiltered, Recorded
  <2> QED BY <2>2, <2>4 DEF NothingMissed
<1> QED BY <1>1, <1>2
        DEF Next, vars, Fork, Interrupt, ParentStep, RouteIrqs, SetTracer, SetFilter,
            Release, Wait, Disable, Fail, ChildStep, SeeSemaphore

\* Everything the program of a session does is recorded, unless the session
\* overlapped another one.
THEOREM NothingIsMissed == Spec => []NothingMissed
<1>1. Init => MetInv /\ SemaphoreInv /\ SoloInv /\ NothingMissed
  BY DEF Init, MetInv, SemaphoreInv, SoloInv, NothingMissed, Working
<1> QED BY <1>1, NextMetInv, NextSemaphoreInv, NextSoloInv, NextNothingMissed,
           TypeCorrect, OwnPidStays, PTL DEF Spec
=============================================================================
