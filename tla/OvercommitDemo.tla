--------------------------- MODULE OvercommitDemo ---------------------------
(***************************************************************************)
(* package/overcommit_demo/src/overcommit_demo.c: a parent and N forked    *)
(* children.  Each child reserves address space chunk by chunk (mmap) and  *)
(* reports every step as one text line on its log pipe (c2p).  When every  *)
(* child has reported the end of its reservation, the parent asks the      *)
(* children, round robin and at most once per second, to touch one more    *)
(* chunk ('T' on the command pipe p2c), and finally to leave ('Q').        *)
(*                                                                         *)
(* What the processes share is the pipes, the SIGCHLD flag and the         *)
(* process table.  A step is a stretch of local computation with at most   *)
(* one system call that another process can observe.                       *)
(*                                                                         *)
(* Descriptors are inherited: child d is forked while the parent holds the *)
(* log read end and the command write end of every earlier child, and      *)
(* child_main closes none of them.                                         *)
(***************************************************************************)
EXTENDS Integers, Sequences, FiniteSets

CONSTANTS
  N,          (* nchildren, after clamping to 4..MAX_CHILDREN               *)
  Goal,       (* reserve_goal_bytes_per_child                               *)
  Chunk,      (* chunk_bytes                                                *)
  LogCap,     (* lines a log pipe holds before its writer blocks            *)
  CmdCap,     (* commands a command pipe holds before its writer blocks     *)
  Faults,     (* which of the failures below may happen                     *)
  MaxKills    (* bound: children killed from outside (OOM killer, operator) *)

FaultKinds == {"fork", "calloc", "mmap", "kill"}

ASSUME NAssumption       == N \in Nat \ {0}
ASSUME GoalAssumption    == Goal \in Nat
ASSUME ChunkAssumption   == Chunk \in Nat \ {0}
ASSUME PipeAssumption    == LogCap \in Nat \ {0} /\ CmdCap \in Nat \ {0}
ASSUME FaultsAssumption  == Faults \subseteq FaultKinds
ASSUME KillsAssumption   == MaxKills \in Nat

Children == 0 .. N-1

VARIABLES
  \* ---- parent ----
  parent,       (* where main() is                                          *)
  forked,       (* children forked so far: the i of the fork loop           *)
  gSigchld,     (* g_sigchld, set by the handler                            *)
  rfds,         (* log pipes select() found readable and not read yet       *)
  alive,        (* children[i].alive                                        *)
  fromFd,       (* children[i].from_child_fd >= 0                           *)
  toFd,         (* children[i].to_child_fd >= 0                             *)
  allocDone,    (* children[i].alloc_done                                   *)
  reserved,     (* children[i].reserved_bytes                               *)
  touched,      (* children[i].touched_bytes                                *)
  touchPhase,   (* touch_phase                                              *)
  nextTouch,    (* next_touch_child                                         *)
  newSecond,    (* time(NULL) # last_touch                                  *)
  untold,       (* children the 'Q' loop of this iteration has yet to reach *)
  \* ---- children ----
  child,        (* where child_main() is                                    *)
  regions,      (* region_count                                             *)
  touchedRegions,
  \* ---- shared ----
  log,          (* unread lines of each log pipe                            *)
  cmds,         (* unread bytes of each command pipe                        *)
  kills         (* children killed from outside so far                      *)

viewVars   == <<alive, fromFd, toFd, allocDone, reserved, touched>>
clockVars  == <<touchPhase, nextTouch, newSecond>>
phaseVars  == <<clockVars, untold>>
parentVars == <<parent, forked, gSigchld, rfds, viewVars, phaseVars>>
workVars   == <<regions, touchedRegions>>
vars == <<parentVars, child, workVars, log, cmds, kills>>

ParentPCs == {"fork", "select", "signal", "reap", "clear", "read", "decide",
              "quit", "tell"}
StoppedPCs == {"done", "die", "sigpipe"}
ChildPCs == {"calloc", "callocfail", "start", "map", "mapfail", "mapped",
             "cmd", "touch", "exit", "closing"}
DeadPCs == {"gone", "zombie", "reaped"}

Lines == {"START", "ALLOC_OK", "ALLOC_FAIL", "ALLOC_DONE", "TOUCH_OK",
          "TOUCH_DONE", "EXIT"}
LineType == [kind : Lines, bytes : Nat]
Line(kind, bytes) == [kind |-> kind, bytes |-> bytes]
Commands == {"T", "Q"}

ParentUp == parent \notin StoppedPCs
ChildUp(c) == child[c] \in ChildPCs     \* its descriptors are still open

\* Who can still read the lines c writes, and who can still send it commands:
\* the parent, and every later child through the descriptors it inherited.
LogReader(c) == \/ ParentUp /\ fromFd[c]
                \/ \E d \in Children : d > c /\ ChildUp(d)
\* Mutant: the child keeps its own command write end (line 425 missing).
CmdWriterSelf(c) == \/ ParentUp /\ toFd[c]
                    \/ \E d \in Children : d >= c /\ ChildUp(d)
CmdWriter(c) == \/ ParentUp /\ toFd[c]
                \/ \E d \in Children : d > c /\ ChildUp(d)

\* Mutant: no spare slots.
CapacityTight == Goal \div Chunk
Capacity == Goal \div Chunk + 8      \* slots of the regions array
ReservedBytes(c) == regions[c] * Chunk
TouchedBytes(c)  == touchedRegions[c] * Chunk

Init ==
  /\ parent = "fork" /\ forked = 0 /\ gSigchld = FALSE /\ rfds = {}
  /\ alive     = [c \in Children |-> FALSE]
  /\ fromFd    = [c \in Children |-> FALSE]
  /\ toFd      = [c \in Children |-> FALSE]
  /\ allocDone = [c \in Children |-> FALSE]
  /\ reserved  = [c \in Children |-> 0]
  /\ touched   = [c \in Children |-> 0]
  /\ touchPhase = FALSE /\ nextTouch = 0 /\ newSecond = TRUE
  /\ untold = {}
  /\ child = [c \in Children |-> "unborn"]
  /\ regions = [c \in Children |-> 0]
  /\ touchedRegions = [c \in Children |-> 0]
  /\ log  = [c \in Children |-> <<>>]
  /\ cmds = [c \in Children |-> <<>>]
  /\ kills = 0
-----------------------------------------------------------------------------
(***************************************************************************)
(* child_main(): every report is one blocking write() to the log pipe; if  *)
(* nobody can read that pipe any more the write raises SIGPIPE instead.    *)
(***************************************************************************)
Report(c, kind, bytes, next) ==
  /\ \/ /\ LogReader(c) /\ Len(log[c]) < LogCap
        /\ log' = [log EXCEPT ![c] = Append(@, Line(kind, bytes))]
        /\ child' = [child EXCEPT ![c] = next]
     \/ /\ ~LogReader(c)
        /\ child' = [child EXCEPT ![c] = "gone"]
        /\ UNCHANGED log
  /\ UNCHANGED <<parentVars, cmds, kills>>

\* A step of c that touches no pipe.
ChildMoves(c, from, to) ==
  /\ child[c] = from
  /\ child' = [child EXCEPT ![c] = to]
  /\ UNCHANGED <<parentVars, workVars, log, cmds, kills>>

Calloc(c) == \/ ChildMoves(c, "calloc", "start")
             \/ "calloc" \in Faults /\ ChildMoves(c, "calloc", "callocfail")

\* The line of a failed calloc carries no reserved_bytes= field, so the parent
\* keeps reserved_bytes = 0.
CallocFail(c) == /\ child[c] = "callocfail"
                 /\ Report(c, "ALLOC_DONE", 0, "closing")
                 /\ UNCHANGED workVars

Start(c) == /\ child[c] = "start"
            /\ Report(c, "START", 0, "map")
            /\ UNCHANGED workVars

MapChunk(c) ==
  /\ child[c] = "map" /\ ReservedBytes(c) < Goal
  /\ regions' = [regions EXCEPT ![c] = @ + 1]
  /\ Report(c, "ALLOC_OK", ReservedBytes(c) + Chunk, "map")
  /\ UNCHANGED touchedRegions

MapFails(c) == /\ "mmap" \in Faults
               /\ ReservedBytes(c) < Goal
               /\ ChildMoves(c, "map", "mapfail")

ReportMapFail(c) == /\ child[c] = "mapfail"
                    /\ Report(c, "ALLOC_FAIL", ReservedBytes(c), "mapped")
                    /\ UNCHANGED workVars

ReportAllocDone(c) ==
  /\ \/ child[c] = "map" /\ ReservedBytes(c) >= Goal
     \/ child[c] = "mapped"
  /\ Report(c, "ALLOC_DONE", ReservedBytes(c), "cmd")
  /\ UNCHANGED workVars

\* read(read_fd): one command, or end of file once no writer is left.
ReadCmd(c) ==
  /\ child[c] = "cmd"
  /\ \/ /\ cmds[c] # <<>>
        /\ child' = [child EXCEPT ![c] =
                       IF Head(cmds[c]) = "Q" THEN "exit" ELSE "touch"]
        /\ cmds' = [cmds EXCEPT ![c] = Tail(@)]
     \/ /\ cmds[c] = <<>> /\ ~CmdWriter(c)
        /\ child' = [child EXCEPT ![c] = "closing"]
        /\ UNCHANGED cmds
  /\ UNCHANGED <<parentVars, workVars, log, kills>>

Touch(c) ==
  /\ child[c] = "touch"
  /\ \/ /\ touchedRegions[c] < regions[c]
        /\ touchedRegions' = [touchedRegions EXCEPT ![c] = @ + 1]
        /\ Report(c, "TOUCH_OK", TouchedBytes(c) + Chunk, "cmd")
     \/ /\ touchedRegions[c] >= regions[c]
        /\ Report(c, "TOUCH_DONE", TouchedBytes(c), "cmd")
        /\ UNCHANGED touchedRegions
  /\ UNCHANGED regions

Exit(c) == /\ child[c] = "exit"
           /\ Report(c, "EXIT", TouchedBytes(c), "closing")
           /\ UNCHANGED workVars

CloseAll(c) == ChildMoves(c, "closing", "gone")

\* The kernel closes a process's descriptors before it notifies the parent;
\* the handler runs before the parent's next instruction.
Notify(c) ==
  /\ child[c] = "gone"
  /\ child' = [child EXCEPT ![c] = "zombie"]
  /\ gSigchld' = (gSigchld \/ ParentUp)
  /\ UNCHANGED <<parent, forked, rfds, viewVars, phaseVars, workVars, log,
                 cmds, kills>>

\* The OOM killer or an operator kills a child, whatever it is doing.
Kill(c) ==
  /\ "kill" \in Faults /\ kills < MaxKills
  /\ ChildUp(c)
  /\ child' = [child EXCEPT ![c] = "gone"]
  /\ kills' = kills + 1
  /\ UNCHANGED <<parentVars, workVars, log, cmds>>

ChildStep(c) ==
  \/ Calloc(c) \/ CallocFail(c) \/ Start(c) \/ MapChunk(c) \/ MapFails(c)
  \/ ReportMapFail(c) \/ ReportAllocDone(c) \/ ReadCmd(c) \/ Touch(c)
  \/ Exit(c) \/ CloseAll(c) \/ Notify(c)
-----------------------------------------------------------------------------
(***************************************************************************)
(* main(): spawn the children.  A failing pipe() or fork() is fatal; the   *)
(* children spawned so far are left behind.                                *)
(***************************************************************************)
Spawn ==
  /\ parent = "fork"
  /\ child'  = [child  EXCEPT ![forked] = "calloc"]
  /\ alive'  = [alive  EXCEPT ![forked] = TRUE]
  /\ fromFd' = [fromFd EXCEPT ![forked] = TRUE]
  /\ toFd'   = [toFd   EXCEPT ![forked] = TRUE]
  /\ forked' = forked + 1
  /\ parent' = IF forked + 1 = N THEN "select" ELSE "fork"
  /\ UNCHANGED <<gSigchld, rfds, allocDone, reserved, touched, phaseVars,
                 workVars, log, cmds, kills>>

SpawnFails ==
  /\ parent = "fork" /\ "fork" \in Faults
  /\ parent' = "die"
  /\ UNCHANGED <<forked, gSigchld, rfds, viewVars, phaseVars, child, workVars,
                 log, cmds, kills>>

\* select() returns what is readable (data, or end of file) at that moment;
\* with nothing readable it returns after a signal or the 250 ms timeout.
Select ==
  /\ parent = "select"
  /\ rfds' = {c \in Children : /\ alive[c] /\ fromFd[c]
                               /\ log[c] # <<>> \/ ~ChildUp(c)}
  /\ parent' = "signal"
  /\ UNCHANGED <<forked, gSigchld, viewVars, phaseVars, child, workVars, log,
                 cmds, kills>>

CheckSignal ==
  /\ parent = "signal"
  /\ parent' = IF gSigchld THEN "reap" ELSE "read"
  /\ UNCHANGED <<forked, gSigchld, rfds, viewVars, phaseVars, child, workVars,
                 log, cmds, kills>>

(***************************************************************************)
(* reap_children(): waitpid(WNOHANG) until it finds nothing, then clear    *)
(* the flag.  Reaping closes both descriptors, and with them drops the     *)
(* lines of that child nobody has read.                                    *)
(***************************************************************************)
Reap(c) ==
  /\ parent = "reap" /\ child[c] = "zombie"
  /\ child'  = [child  EXCEPT ![c] = "reaped"]
  /\ alive'  = [alive  EXCEPT ![c] = FALSE]
  /\ fromFd' = [fromFd EXCEPT ![c] = FALSE]
  /\ toFd'   = [toFd   EXCEPT ![c] = FALSE]
  /\ log'    = [log    EXCEPT ![c] = <<>>]
  /\ cmds'   = [cmds   EXCEPT ![c] = <<>>]
  /\ UNCHANGED <<parent, forked, gSigchld, rfds, allocDone, reserved, touched,
                 phaseVars, workVars, kills>>

ReapEnd ==
  /\ parent = "reap" /\ \A c \in Children : child[c] # "zombie"
  /\ parent' = "clear"
  /\ UNCHANGED <<forked, gSigchld, rfds, viewVars, phaseVars, child, workVars,
                 log, cmds, kills>>

ClearFlag ==
  /\ parent = "clear"
  /\ gSigchld' = FALSE
  /\ parent' = "read"
  /\ UNCHANGED <<forked, rfds, viewVars, phaseVars, child, workVars, log, cmds,
                 kills>>

(***************************************************************************)
(* consume_child_line(): what one complete line changes in children[c].    *)
(***************************************************************************)
\* Mutant: the kind of a line is not looked at before its bytes are stored.
ConsumeAnyKind(c, line) ==
  /\ reserved' = [reserved EXCEPT ![c] =
       IF line.kind \in {"ALLOC_OK", "ALLOC_DONE"} THEN line.bytes ELSE @]
  /\ allocDone' = [allocDone EXCEPT ![c] =
       @ \/ line.kind \in {"ALLOC_DONE", "ALLOC_FAIL"}]
  /\ touched' = [touched EXCEPT ![c] = line.bytes]
\* Mutant: alloc_done follows the last line instead of remembering.
ConsumeForgets(c, line) ==
  /\ reserved' = [reserved EXCEPT ![c] =
       IF line.kind \in {"ALLOC_OK", "ALLOC_DONE"} THEN line.bytes ELSE @]
  /\ allocDone' = [allocDone EXCEPT ![c] =
       line.kind \in {"ALLOC_DONE", "ALLOC_FAIL"}]
  /\ touched' = [touched EXCEPT ![c] =
       IF line.kind \in {"TOUCH_OK", "TOUCH_DONE"} THEN line.bytes ELSE @]
Consume(c, line) ==
  /\ reserved' = [reserved EXCEPT ![c] =
       IF line.kind \in {"ALLOC_OK", "ALLOC_DONE"} THEN line.bytes ELSE @]
  /\ allocDone' = [allocDone EXCEPT ![c] =
       @ \/ line.kind \in {"ALLOC_DONE", "ALLOC_FAIL"}]
  /\ touched' = [touched EXCEPT ![c] =
       IF line.kind \in {"TOUCH_OK", "TOUCH_DONE"} THEN line.bytes ELSE @]

\* The pipes still to be read: those select() reported and reap_children()
\* has not closed, in index order.
Unread == {c \in rfds : alive[c] /\ fromFd[c]}
IsFirst(c, S) == c \in S /\ \A d \in S : c <= d

\* One read() of up to 256 bytes completes at least one line (a line is shorter
\* than that and was written whole), and more if more are there.
ReadLine ==
  /\ parent = "read"
  /\ \E c \in Children :
       /\ IsFirst(c, Unread)
       /\ log[c] # <<>>
       /\ Consume(c, Head(log[c]))
       /\ log' = [log EXCEPT ![c] = Tail(@)]
       /\ \/ rfds' = rfds \ {c}
          \/ Len(log[c]) > 1 /\ UNCHANGED rfds
  /\ UNCHANGED <<parent, forked, gSigchld, alive, fromFd, toFd, phaseVars,
                 child, workVars, cmds, kills>>

ReadEof ==
  /\ parent = "read"
  /\ \E c \in Children :
       /\ IsFirst(c, Unread)
       /\ log[c] = <<>>
       /\ fromFd' = [fromFd EXCEPT ![c] = FALSE]
       /\ rfds' = rfds \ {c}
  /\ UNCHANGED <<parent, forked, gSigchld, alive, toFd, allocDone, reserved,
                 touched, phaseVars, child, workVars, log, cmds, kills>>

ReadEnd ==
  /\ parent = "read" /\ Unread = {}
  /\ parent' = "decide"
  /\ rfds' = {}
  /\ UNCHANGED <<forked, gSigchld, viewVars, phaseVars, child, workVars, log,
                 cmds, kills>>
-----------------------------------------------------------------------------
\* Mutant: one finished child is enough.
AnyAllocDone == \E c \in Children : allocDone[c]
AllAllocDone == \A c \in Children : allocDone[c]
\* Mutants: the last chunk is left out; dead children are not skipped (line
\* 513 missing); >= for >.
TouchableButLast == {c \in Children : alive[c] /\ reserved[c] > touched[c] + Chunk}
TouchableDead == {c \in Children : reserved[c] > touched[c]}
TouchableForever == {c \in Children : alive[c] /\ reserved[c] >= touched[c]}
Touchable == {c \in Children : alive[c] /\ reserved[c] > touched[c]}

\* The first touchable child at or after next_touch_child, cyclically.
IsTouchTarget(c) == /\ c \in Touchable
                    /\ \A d \in Touchable :
                         (c - nextTouch) % N <= (d - nextTouch) % N

\* Mutants: the turn does not pass on; it does not wrap around.
NextStays(c) == c
NextUnwrapped(c) == c + 1
NextAfter(c) == (c + 1) % N

\* A write to a command pipe: SIGPIPE kills the parent if its only reader, the
\* child, has closed it; a full pipe blocks.
CanSend(c) == Len(cmds[c]) < CmdCap

Decide ==
  /\ parent = "decide"
  /\ touchPhase' = (touchPhase \/ AllAllocDone)
  /\ ~(touchPhase' /\ Touchable # {} /\ newSecond)
  /\ parent' = "quit"
  /\ UNCHANGED <<forked, gSigchld, rfds, viewVars, nextTouch, newSecond, untold,
                 child, workVars, log, cmds, kills>>

RequestTouch ==
  /\ parent = "decide"
  /\ touchPhase' = (touchPhase \/ AllAllocDone)
  /\ touchPhase' /\ newSecond
  /\ \E c \in Children :
       /\ IsTouchTarget(c)
       /\ \/ /\ ChildUp(c) /\ CanSend(c)
             /\ cmds' = [cmds EXCEPT ![c] = Append(@, "T")]
             /\ nextTouch' = NextAfter(c)
             /\ newSecond' = FALSE
             /\ parent' = "quit"
          \/ /\ ~ChildUp(c)
             /\ parent' = "sigpipe"
             /\ UNCHANGED <<cmds, nextTouch, newSecond>>
  /\ UNCHANGED <<forked, gSigchld, rfds, viewVars, untold, child, workVars, log,
                 kills>>

(***************************************************************************)
(* The end of an iteration: leave when nobody is alive; when there is      *)
(* nothing left to touch, tell every living child to quit, again and again *)
(* in every iteration.  A command behind a 'Q' is never read, so one 'Q'   *)
(* stands for all of them.                                                 *)
(***************************************************************************)
\* Mutant: a child at end of file counts as gone.
AnyoneTalking == \E c \in Children : alive[c] /\ fromFd[c]
AnyoneAlive == \E c \in Children : alive[c]
Quitting == touchPhase /\ Touchable = {}
HasQuit(c) == \E k \in 1 .. Len(cmds[c]) : cmds[c][k] = "Q"

EndIteration ==
  /\ parent = "quit"
  /\ \/ /\ ~AnyoneAlive
        /\ parent' = "done"
        /\ UNCHANGED untold
     \/ /\ AnyoneAlive /\ ~Quitting
        /\ parent' = "select"
        /\ UNCHANGED untold
     \/ /\ AnyoneAlive /\ Quitting
        /\ parent' = "tell"
        /\ untold' = {c \in Children : alive[c] /\ toFd[c]}
  /\ UNCHANGED <<forked, gSigchld, rfds, viewVars, clockVars, child, workVars,
                 log, cmds, kills>>

TellQuit ==
  /\ parent = "tell"
  /\ \E c \in Children :
       /\ IsFirst(c, untold)
       /\ \/ /\ ChildUp(c) /\ HasQuit(c)
             /\ untold' = untold \ {c}
             /\ UNCHANGED <<cmds, parent>>
          \/ /\ ChildUp(c) /\ ~HasQuit(c) /\ CanSend(c)
             /\ cmds' = [cmds EXCEPT ![c] = Append(@, "Q")]
             /\ untold' = untold \ {c}
             /\ UNCHANGED parent
          \/ /\ ~ChildUp(c)
             /\ parent' = "sigpipe"
             /\ UNCHANGED <<cmds, untold>>
  /\ UNCHANGED <<forked, gSigchld, rfds, viewVars, clockVars, child, workVars,
                 log, kills>>

TellEnd ==
  /\ parent = "tell" /\ untold = {}
  /\ parent' = "select"
  /\ UNCHANGED <<forked, gSigchld, rfds, viewVars, phaseVars, child, workVars,
                 log, cmds, kills>>

ClockTick ==
  /\ ParentUp /\ ~newSecond
  /\ newSecond' = TRUE
  /\ UNCHANGED <<parent, forked, gSigchld, rfds, viewVars, touchPhase,
                 nextTouch, untold, child, workVars, log, cmds, kills>>

ParentStep ==
  \/ Spawn \/ SpawnFails \/ Select \/ CheckSignal
  \/ (\E c \in Children : Reap(c))
  \/ ReapEnd \/ ClearFlag \/ ReadLine \/ ReadEof \/ ReadEnd
  \/ Decide \/ RequestTouch \/ EndIteration \/ TellQuit \/ TellEnd

\* Nothing is left to run.
Ended == /\ ~ParentUp
         /\ \A c \in Children : child[c] \in {"unborn", "zombie", "reaped"}
         /\ UNCHANGED vars

Next == \/ ParentStep
        \/ \E c \in Children : ChildStep(c) \/ Kill(c)
        \/ ClockTick
        \/ Ended

\* The kernel schedules every runnable process, and time passes.
Fairness == /\ WF_vars(ParentStep)
            /\ \A c \in Children : WF_vars(ChildStep(c))
            /\ WF_vars(ClockTick)

Spec == Init /\ [][Next]_vars
FairSpec == Spec /\ Fairness
-----------------------------------------------------------------------------
(***************************************************************************)
(* Properties.                                                             *)
(***************************************************************************)

\* The type of every variable; pipes never hold more than their capacity.
TypeOK ==
  /\ parent \in ParentPCs \cup StoppedPCs
  /\ forked \in 0 .. N /\ (parent = "fork" => forked < N)
  /\ gSigchld \in BOOLEAN /\ newSecond \in BOOLEAN /\ touchPhase \in BOOLEAN
  /\ rfds \subseteq Children /\ untold \subseteq Children
  /\ alive \in [Children -> BOOLEAN]
  /\ fromFd \in [Children -> BOOLEAN]
  /\ toFd \in [Children -> BOOLEAN]
  /\ allocDone \in [Children -> BOOLEAN]
  /\ reserved \in [Children -> Nat]
  /\ touched \in [Children -> Nat]
  /\ nextTouch \in Children
  /\ child \in [Children -> {"unborn"} \cup ChildPCs \cup DeadPCs]
  /\ regions \in [Children -> Nat]
  /\ touchedRegions \in [Children -> Nat]
  /\ log \in [Children -> Seq(LineType)]
  /\ cmds \in [Children -> Seq(Commands)]
  /\ \A c \in Children : Len(log[c]) <= LogCap /\ Len(cmds[c]) <= CmdCap
  /\ kills \in 0 .. MaxKills

\* c may still reserve address space.
ReservingPCs == {"unborn", "calloc", "start", "map"}
Reserving(c) == child[c] \in ReservingPCs

(***************************************************************************)
(* The two phases never overlap (all_alloc_done, lines 498-507): once one  *)
(* child has been asked to touch a chunk, or has touched one, no child     *)
(* reserves any more.  The parent only knows what the log pipes told it.   *)
(***************************************************************************)
TouchingBegan(c) == \/ touchedRegions[c] > 0 \/ child[c] = "touch"
                    \/ \E k \in 1 .. Len(cmds[c]) : cmds[c][k] = "T"

TouchBarrier ==
  (\E c \in Children : TouchingBegan(c))
    => \A d \in Children : ~Reserving(d)

(***************************************************************************)
(* The screen never shows more than there is: what the parent believes of  *)
(* a child (reserved_bytes, touched_bytes) lags behind what the child did, *)
(* and it never believes that more was touched than reserved.              *)
(***************************************************************************)
ViewLags ==
  \A c \in Children : /\ reserved[c] <= ReservedBytes(c)
                      /\ touched[c] <= TouchedBytes(c)
                      /\ touched[c] <= reserved[c]

\* A 'Q' reaches only children that have touched all they reserved, although
\* the parent decides so from lines that may be long under way.
QuitMeansTouched ==
  \A c \in Children :
    HasQuit(c) \/ child[c] = "exit" => touchedRegions[c] = regions[c]

\* "All children are gone. End of test." (line 539) is printed only when every
\* child has been waited for.
DoneMeansReaped ==
  parent = "done" => \A c \in Children : child[c] = "reaped"

\* Descriptors follow life: the 'T' of line 516, which does not look at
\* to_child_fd, always has an open one, and waiting for a child leaks none.
FdDiscipline ==
  \A c \in Children : /\ c \in Touchable => toFd[c]
                      /\ child[c] = "reaped" => ~fromFd[c] /\ ~toFd[c]

\* The regions array never has to grow: lines 197-208 are unreachable.
NoRealloc ==
  \A c \in Children :
    child[c] = "map" /\ ReservedBytes(c) < Goal => regions[c] < Capacity

(***************************************************************************)
(* What the parent knows and does is consistent with what the children are *)
(* and did, however long their lines and signals have been under way.      *)
(***************************************************************************)
ParentKnows == ViewLags /\ QuitMeansTouched /\ DoneMeansReaped
               /\ FdDiscipline /\ NoRealloc

(***************************************************************************)
(* Round robin is fair: of two children the parent still has to make touch *)
(* memory, neither has been asked more than once more than the other.      *)
(* Requests sent to c are those it obeyed, holds, has read, or answered    *)
(* with a TOUCH_DONE the parent has not read.                              *)
(***************************************************************************)
Requests(c) ==
  touchedRegions[c]
  + Cardinality({k \in 1 .. Len(cmds[c]) : cmds[c][k] = "T"})
  + (IF child[c] = "touch" THEN 1 ELSE 0)
  + Cardinality({k \in 1 .. Len(log[c]) : log[c][k].kind = "TOUCH_DONE"})

RoundRobin ==
  \A c, d \in Touchable : ChildUp(c) /\ ChildUp(d) =>
    Requests(c) <= Requests(d) + 1

(***************************************************************************)
(* What a child has reported is never taken back: bytes only grow, and the *)
(* end of a reservation, once seen, stays seen.                            *)
(***************************************************************************)
ReportsOnlyGrow ==
  [][\A c \in Children : /\ reserved'[c] >= reserved[c]
                         /\ touched'[c] >= touched[c]
                         /\ allocDone[c] => allocDone'[c]]_vars

\* Something has failed: fork, calloc or mmap, or a child was killed.
SomethingFailed == \/ parent = "die" \/ kills > 0
                   \/ \E c \in Children : child[c] \in {"callocfail", "mapfail"}

\* Unless something fails every child ends up having touched its whole goal, so
\* the demo shows what it is for.
GoalRegions == (Goal + Chunk - 1) \div Chunk
GoalTouched == \A c \in Children : touchedRegions[c] = GoalRegions
EverythingTouched == <>(GoalTouched \/ SomethingFailed)

\* The parent does not run for ever unless some child died before the parent
\* had read the end of its reservation.
StuckOnlyByEarlyDeath ==
  \/ <>~ParentUp
  \/ \E c \in Children : <>[](~ChildUp(c) /\ ~allocDone[c])

\* No child outlives the parent for good: however the parent stops, end of
\* file or SIGPIPE reaches every child, the last one first.
NoOrphans ==
  ~ParentUp ~> \A c \in Children : child[c] \in {"unborn", "zombie", "reaped"}

\* When every child has ended the test ends (line 528).
AllGoneEndsTest ==
  (\A c \in Children : child[c] \in {"zombie", "reaped"}) ~> ~ParentUp

\* The test ends with "All children are gone. End of test." (line 539).
EndReported == <>(parent = "done")

(***************************************************************************)
(* The processes, their pipes and signals implement ReserveThenTouch.  A   *)
(* child not yet forked counts as reserving: it will.                      *)
(***************************************************************************)
PhaseOf(c) ==
  CASE Reserving(c)                                            -> "reserving"
    [] child[c] \in {"callocfail", "mapfail", "mapped", "cmd", "touch"} -> "ready"
    [] child[c] = "exit"                                       -> "dismissed"
    [] OTHER                                                   -> "left"

Abstract == INSTANCE ReserveThenTouch
              WITH phase    <- [c \in Children |-> PhaseOf(c)],
                   reserved <- regions,
                   touched  <- touchedRegions

ReservesThenTouches == Abstract!Spec
=============================================================================
