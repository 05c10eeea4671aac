------------------------------ MODULE FtraceIt ------------------------------
(***************************************************************************)
(* min_prog_trace/ftrace_it.c: trace the kernel functions one program      *)
(* runs.  A session is one invocation: it forks a child that spins on a    *)
(* shared semaphore, configures ftrace through tracefs, releases the child,*)
(* which pins itself to CPU 1 and executes the program, waits for it, and  *)
(* turns the tracer off.                                                   *)
(*                                                                         *)
(* Every session, and the rest of the machine, shares one tracefs:         *)
(* current_tracer and set_ftrace_pid.  The second is opened without        *)
(* O_TRUNC, so writing it adds a pid; nothing ever removes one.  An empty  *)
(* filter means that every process is traced.                              *)
(***************************************************************************)
EXTENDS Integers, FiniteSets

CONSTANTS
  Sessions,     (* invocations of ftrace_it                                 *)
  Pids,         (* process ids the kernel hands out, and hands out again    *)
  Faults        (* which failures may happen                                *)

FaultKinds == {"irq", "tracer", "filter", "pin", "exec", "disable",
               "interrupt"}

ASSUME PidsAssumption   == Pids # {}
ASSUME FaultsAssumption == Faults \subseteq FaultKinds

VARIABLES
  tracer,       (* current_tracer                                           *)
  filter,       (* set_ftrace_pid                                           *)
  parent,       (* where main() of each session is                          *)
  child,        (* where its forked child is                                *)
  semaphore,    (* the shared semaphore of each session                     *)
  pid,          (* the child's process id, once there is one                *)
  missed,       (* sessions whose program ran kernel code unrecorded        *)
  met           (* sessions that overlapped another one                     *)

traceVars == <<tracer, filter>>
procVars  == <<parent, child, semaphore, pid>>
recordVars == <<missed, met>>
vars == <<traceVars, procVars, recordVars>>

Working == {"irq", "tracer", "filter", "ready", "wait", "disable"}
Stopped == {"done", "failed", "interrupted"}
ChildPCs == {"none", "spin", "pin", "exec", "run", "zombie", "reaped"}

\* The process ids of children that are gone may be given out again.
Free == Pids \ {pid[s] : s \in {t \in Sessions : child[t] \notin {"none", "reaped"}}}

\* The kernel records what process p does.
Recorded(p) == tracer = "function" /\ (filter = {} \/ p \in filter)

Init ==
  /\ tracer = "nop" /\ filter = {}
  /\ parent    = [s \in Sessions |-> "off"]
  /\ child     = [s \in Sessions |-> "none"]
  /\ semaphore = [s \in Sessions |-> 0]
  /\ pid       = [s \in Sessions |-> CHOOSE p \in Pids : TRUE]
  /\ missed = {} /\ met = {}
-----------------------------------------------------------------------------
(***************************************************************************)
(* The parent.                                                             *)
(***************************************************************************)
ParentMoves(s, from, to) ==
  parent[s] = from /\ parent' = [parent EXCEPT ![s] = to]

Fork(s) ==
  /\ ParentMoves(s, "off", "irq")
  /\ \E p \in Free : pid' = [pid EXCEPT ![s] = p]
  /\ child' = [child EXCEPT ![s] = "spin"]
  /\ LET others == {t \in Sessions : parent[t] \in Working}
     IN  met' = IF others = {} THEN met ELSE met \cup others \cup {s}
  /\ UNCHANGED <<traceVars, semaphore, missed>>

\* set_irq_affinity(0): a single interrupt that cannot be moved is skipped.
RouteIrqs(s) ==
  /\ ParentMoves(s, "irq", "tracer")
  /\ UNCHANGED <<traceVars, child, semaphore, pid, recordVars>>

\* setup_ftrace(), first the tracer, then the filter.
SetTracer(s) ==
  /\ ParentMoves(s, "tracer", "filter")
  /\ tracer' = "function"
  /\ UNCHANGED <<filter, child, semaphore, pid, recordVars>>

\* Mutants: the file is opened with O_TRUNC; the terminating zero is written too.
WrittenAnew(p) == {p}
WrittenWithNul(p) == filter \cup {p, 0}
\* What writing a pid without O_TRUNC leaves in set_ftrace_pid.
Written(p) == filter \cup {p}

SetFilter(s) ==
  /\ ParentMoves(s, "filter", "ready")
  /\ filter' = Written(pid[s])
  /\ UNCHANGED <<tracer, child, semaphore, pid, recordVars>>

\* The operator presses enter.
Release(s) ==
  /\ ParentMoves(s, "ready", "wait")
  /\ semaphore' = [semaphore EXCEPT ![s] = 1]
  /\ UNCHANGED <<traceVars, child, pid, recordVars>>

Wait(s) ==
  /\ ParentMoves(s, "wait", "disable")
  /\ child[s] = "zombie"
  /\ child' = [child EXCEPT ![s] = "reaped"]
  /\ UNCHANGED <<traceVars, semaphore, pid, recordVars>>

\* Mutant: the write is left out.
DisableNothing(s) ==
  /\ ParentMoves(s, "disable", "done")
  /\ UNCHANGED <<traceVars, child, semaphore, pid, recordVars>>
Disable(s) ==
  /\ ParentMoves(s, "disable", "done")
  /\ tracer' = "nop"
  /\ UNCHANGED <<filter, child, semaphore, pid, recordVars>>

\* A file of /proc or tracefs cannot be opened or written: the parent exits
\* where it stands, and undoes nothing.
FailsAt == {"irq", "tracer", "filter", "disable"}
Fail(s) ==
  /\ \E step \in FailsAt \cap Faults : ParentMoves(s, step, "failed")
  /\ UNCHANGED <<traceVars, child, semaphore, pid, recordVars>>

\* Ctrl-C reaches the whole foreground group: the parent and its child.
Interrupt(s) ==
  /\ "interrupt" \in Faults /\ parent[s] \in Working
  /\ parent' = [parent EXCEPT ![s] = "interrupted"]
  /\ child' = [child EXCEPT ![s] = "reaped"]
  /\ UNCHANGED <<traceVars, semaphore, pid, recordVars>>
-----------------------------------------------------------------------------
(***************************************************************************)
(* The child.  After the semaphore every step of it is kernel work the     *)
(* session wants to see.                                                   *)
(***************************************************************************)
ChildMoves(s, from, to) ==
  child[s] = from /\ child' = [child EXCEPT ![s] = to]
Observed(s) == missed' = IF Recorded(pid[s]) THEN missed ELSE missed \cup {s}

\* Mutants: the child does not wait; the mapping is private, so the child never
\* sees the store.
EagerGo(s) == TRUE
PrivateGo(s) == FALSE
\* The semaphore the child spins on.
Go(s) == semaphore[s] # 0

SeeSemaphore(s) ==
  /\ ChildMoves(s, "spin", "pin") /\ Go(s)
  /\ UNCHANGED <<traceVars, parent, semaphore, pid, recordVars>>

\* pin_to_cpu(): without a second CPU the child gives up.
Pin(s) ==
  /\ \/ ChildMoves(s, "pin", "exec")
     \/ "pin" \in Faults /\ ChildMoves(s, "pin", "zombie")
  /\ Observed(s)
  /\ UNCHANGED <<traceVars, parent, semaphore, pid, met>>

Exec(s) ==
  /\ \/ ChildMoves(s, "exec", "run")
     \/ "exec" \in Faults /\ ChildMoves(s, "exec", "zombie")
  /\ Observed(s)
  /\ UNCHANGED <<traceVars, parent, semaphore, pid, met>>

Run(s) ==
  /\ child[s] = "run"
  /\ Observed(s)
  /\ UNCHANGED <<traceVars, procVars, met>>

\* The traced program need not end; min does not.
End(s) ==
  /\ ChildMoves(s, "run", "zombie")
  /\ Observed(s)
  /\ UNCHANGED <<traceVars, parent, semaphore, pid, met>>
-----------------------------------------------------------------------------
ParentStep(s) == \/ RouteIrqs(s) \/ SetTracer(s) \/ SetFilter(s) \/ Release(s)
                 \/ Wait(s) \/ Disable(s) \/ Fail(s)
ChildStep(s) == SeeSemaphore(s) \/ Pin(s) \/ Exec(s)

Next == \E s \in Sessions :
          \/ Fork(s) \/ ParentStep(s) \/ Interrupt(s)
          \/ ChildStep(s) \/ Run(s) \/ End(s)

\* A process that can run does, and the operator does press enter.  Nobody has
\* to start a session or interrupt one, and the program need not end.
Fairness == \A s \in Sessions : WF_vars(ParentStep(s)) /\ WF_vars(ChildStep(s))

Spec == Init /\ [][Next]_vars
FairSpec == Spec /\ Fairness
-----------------------------------------------------------------------------
\* The type of every variable.
TypeOK ==
  /\ tracer \in {"nop", "function"} /\ filter \subseteq Pids
  /\ parent \in [Sessions -> {"off"} \cup Working \cup Stopped]
  /\ child \in [Sessions -> ChildPCs]
  /\ semaphore \in [Sessions -> {0, 1}]
  /\ pid \in [Sessions -> Pids]
  /\ missed \subseteq Sessions /\ met \subseteq Sessions

\* "capturing all kernel interactions" (README.md, line 49): everything the child
\* of a session does after its release is recorded, unless sessions overlap.
NothingMissed == missed \subseteq met

\* A session writing its pid never takes another session's pid out of the
\* filter: until it ends, a session that has configured ftrace is filtered in.
OwnPidFiltered ==
  \A s \in Sessions : parent[s] \in {"ready", "wait"} => pid[s] \in filter

\* However sessions overlap, when the last one has come to its end the tracer
\* is off.
OffAtTheEnd ==
  (\A s \in Sessions : parent[s] \in {"off", "done"}) => tracer = "nop"

\* The tracer is on only because some session turned it on and has not turned it
\* off again.
OnMeansConfigured ==
  tracer = "function" =>
    \E s \in Sessions : parent[s] \notin {"off", "irq", "tracer", "done"}

\* Every session that starts comes to its end, or fails, or runs a program that
\* does not end (README.md, lines 42-43); and a child spins for ever only behind a
\* parent that failed: every other parent releases it.
SessionsEnd ==
  \A s \in Sessions :
    /\ parent[s] = "irq" ~> parent[s] \in Stopped \/ child[s] = "run"
    /\ child[s] = "zombie" ~> parent[s] \in Stopped
    /\ child[s] = "spin" ~> (child[s] # "spin" \/ parent[s] = "failed")
=============================================================================
