----------------------------- MODULE Madvsnoop -----------------------------
(***************************************************************************)
(* madvsnoop.py: show the madvise() calls of all processes, or of one.     *)
(* Built like killsnoop, but the exit handler leaves the entry in the map, *)
(* and the map has a capacity.                                             *)
(***************************************************************************)
EXTENDS SnoopKernel

CONSTANTS
  Starts,       (* addresses a call is about                                *)
  Lengths,      (* its lengths                                              *)
  MaxInt,       (* the greatest int: 2^31 - 1, or less to keep sets small   *)
  PidFilters,   (* command lines: the processes that are traced (-p)        *)
  MapSize       (* entries of BPF_HASH, 10240 by default                    *)

ASSUME NumbersAssumption ==
  /\ Starts \subseteq Nat /\ Lengths \subseteq Nat
  /\ PidFilters \subseteq SUBSET Pids
  /\ MaxInt \in Nat /\ MapSize \in Nat \ {0}

VARIABLES
  attached,     (* the tracepoints that are in place                        *)
  pids,         (* the processes -p selects                                 *)
  left          (* the call each entry of infotmp was left by; history, no  *)
                (* step reads it but to note it with an event               *)

vars == <<owner, call, infotmp, ring, polling, attached, pids, left>>

Probes == {"entry", "exit"}

\* Assignment to an int keeps the low bits, as a signed number.
ToInt(x) == LET low == x % (2 * (MaxInt + 1))
            IN  IF low > MaxInt THEN low - 2 * (MaxInt + 1) ELSE low
Ints == -(MaxInt + 1) .. MaxInt

\* struct val_t without the advice, an int from beginning to end.
Value == [comm : Pids, start : Ints, length : Ints]
Data  == [pid : Pids, comm : Pids, start : Ints, length : Ints, ret : Rets]

\* A call in progress.  seen: its entry tracepoint was in place; stored: its own
\* arguments went into infotmp.
Call == [pid : Pids, start : Starts, length : Lengths,
         seen : BOOLEAN, stored : BOOLEAN]
\* An event, with the call it is submitted for and the one that left the entry.
Event == [data : Data, of : Call, from : Call]

Init == KernelInit /\ attached = {} /\ pids \in PidFilters /\ left = NoEntries
-----------------------------------------------------------------------------
Attach(p) ==
  /\ p \notin attached
  /\ attached' = attached \cup {p}
  /\ UNCHANGED <<owner, call, infotmp, ring, polling, pids, left>>

OpenPerfBuffer ==
  /\ attached = Probes /\ ~polling
  /\ polling' = TRUE
  /\ UNCHANGED <<owner, call, infotmp, ring, attached, pids, left>>

\* print_event() prints the event, or with -x drops one that succeeded.
Show(c) ==
  /\ polling /\ Taken(c)
  /\ UNCHANGED <<owner, call, infotmp, polling, attached, pids, left>>

\* Ctrl-C: the tracepoints, the map and the buffers go with the process.
Quit ==
  /\ attached # {}
  /\ attached' = {} /\ polling' = FALSE
  /\ infotmp' = NoEntries /\ left' = NoEntries
  /\ ring' = [c \in Cpus |-> <<>>]
  /\ call' = [t \in DOMAIN call |->
       [call[t] EXCEPT !.seen = FALSE, !.stored = FALSE]]
  /\ UNCHANGED <<owner, pids>>

-----------------------------------------------------------------------------
\* Mutant: the filter is left out.
PassesAlways(c) == TRUE
Passes(c) == c.pid \in pids

\* Mutants: one place too few; an entry is not replaced (BPF_NOEXIST).
FitsTight(t) == t \in DOMAIN infotmp \/ Cardinality(DOMAIN infotmp) < MapSize - 1
FitsOnce(t) == t \notin DOMAIN infotmp /\ Cardinality(DOMAIN infotmp) < MapSize
\* update() fails for a new key when the map is full; nobody looks.
Fits(t) == t \in DOMAIN infotmp \/ Cardinality(DOMAIN infotmp) < MapSize

\* Mutants: the length is stored twice; the fields are as wide as the arguments.
ValueSwapped(c) == [comm |-> c.pid, start |-> ToInt(c.length), length |-> ToInt(c.length)]
ValueWide(c) == [comm |-> c.pid, start |-> c.start, length |-> c.length]
ValueOf(c) == [comm |-> c.pid, start |-> ToInt(c.start), length |-> ToInt(c.length)]

\* sys_enter_madvise.
Enter(t) ==
  /\ t \in Idle
  /\ \E start \in Starts, length \in Lengths :
       LET c == [pid |-> owner[t], start |-> start, length |-> length,
                 seen |-> "entry" \in attached, stored |-> FALSE]
           d == [c EXCEPT !.stored = TRUE]
       IN  IF c.seen /\ Passes(c) /\ Fits(t)
           THEN /\ infotmp' = Put(infotmp, t, ValueOf(c))
                /\ call' = Put(call, t, d) /\ left' = Put(left, t, d)
           ELSE /\ call' = Put(call, t, c)
                /\ UNCHANGED <<infotmp, left>>
  /\ UNCHANGED <<owner, ring, polling, attached, pids>>

EventOf(t, ret) ==
  [data |-> [pid |-> owner[t], comm |-> infotmp[t].comm, start |-> infotmp[t].start,
             length |-> infotmp[t].length, ret |-> ret],
   of |-> call[t], from |-> left[t]]

\* sys_exit_madvise.
Return(t) ==
  /\ t \in DOMAIN call
  /\ call' = Drop(call, t)
  /\ IF "exit" \in attached /\ t \in DOMAIN infotmp
     THEN \E c \in Cpus, ret \in Rets : ring' = Submitted(c, EventOf(t, ret))
     ELSE UNCHANGED ring
  /\ UNCHANGED <<owner, infotmp, polling, attached, pids, left>>

Next == \/ \E p \in Probes : Attach(p)
        \/ OpenPerfBuffer
        \/ \E c \in Cpus : Show(c)
        \/ Quit
        \/ \E t \in Tids : Enter(t) \/ Return(t)
        \/ (ThreadEnds \/ ThreadStarts) /\ UNCHANGED <<attached, pids, left>>

Spec == Init /\ [][Next]_vars
-----------------------------------------------------------------------------
\* The type of every variable.
TypeOK ==
  /\ DOMAIN owner \subseteq Tids /\ \A t \in DOMAIN owner : owner[t] \in Pids
  /\ DOMAIN call \subseteq DOMAIN owner /\ \A t \in DOMAIN call : call[t] \in Call
  /\ DOMAIN infotmp \subseteq Tids /\ Cardinality(DOMAIN infotmp) <= MapSize
  /\ \A t \in DOMAIN infotmp : infotmp[t] \in Value
  /\ ring \in [Cpus -> Seq(Event)]
  /\ \A c \in Cpus : Len(ring[c]) <= RingSize
  /\ polling \in BOOLEAN /\ attached \subseteq Probes
  /\ pids \in PidFilters
  /\ DOMAIN left = DOMAIN infotmp /\ \A t \in DOMAIN left : left[t] \in Call

\* The events that are submitted and not shown yet.
Pending == UNION {{ring[c][i] : i \in DOMAIN ring[c]} : c \in Cpus}

\* An int that agrees with x as far as it is wide: the low bits of x, signed.
Shows(shown, x) == shown \in Ints /\ (x - shown) % (2 * (MaxInt + 1)) = 0

\* Every line, also one with the pid of a process that is not traced, bears the
\* name and shows the arguments, as far as an int is wide, of one call of a traced
\* process, and of no other call if the pid is traced.
EventsTrue ==
  \A e \in Pending :
    /\ e.data.pid = e.of.pid
    /\ e.data.comm = e.from.pid /\ e.from.pid \in pids
    /\ Shows(e.data.start, e.from.start) /\ Shows(e.data.length, e.from.length)
    /\ Passes(e.of) => e.from = e.of

\* A line about a traced process is true of its call; any other repeats, under the
\* pid of another process, a whole call of a traced one.
LinesTrue == TypeOK /\ EventsTrue

\* A traced call is passed over only because the map is full of other threads.
MissedOnlyIfFull ==
  \A t \in DOMAIN call :
    call[t].seen /\ Passes(call[t]) /\ ~call[t].stored =>
      t \notin DOMAIN infotmp /\ Cardinality(DOMAIN infotmp) = MapSize

\* "trace this PID only" (madvsnoop.py line 35): the event is of a call one of
\* the traced processes made.
OnlyThePid == \A e \in Pending : e.data.pid \in pids

\* "trace all madvise() signals" (madvsnoop.py line 25): a call entered after the
\* tool is ready has its arguments stored.
AllTraced == \A t \in DOMAIN call : call[t].seen /\ Passes(call[t]) => call[t].stored
=============================================================================
