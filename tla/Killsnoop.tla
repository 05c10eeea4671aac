----------------------------- MODULE Killsnoop -----------------------------
(***************************************************************************)
(* killsnoop.py and killsnoopTP.py: show who sends which signal to whom.   *)
(* The entry handler stores the arguments of a call under the caller's     *)
(* thread id; the exit handler looks them up, adds the result, submits an  *)
(* event and deletes them.                                                 *)
(*                                                                         *)
(* killsnoop.py puts a kprobe, then a kretprobe on kill().  killsnoopTP.py *)
(* lets bcc attach its tracepoints on kill(), tkill() and tgkill() in an   *)
(* order of its own, and has no -T.                                        *)
(***************************************************************************)
EXTENDS SnoopKernel

CONSTANTS
  Targets,      (* process ids a signal is sent to                          *)
  Sigs,         (* signals                                                  *)
  TpCalls,      (* the calls killsnoopTP traces                             *)
  Options       (* command lines: the tool, and the senders (-p), targets   *)
                (* (-T) and signals (-s) it traces                          *)

Tools == {"killsnoop", "killsnoopTP"}
ASSUME OptionsAssumption ==
  Options \subseteq [tool : Tools, pids : SUBSET Pids, tpids : SUBSET Targets,
                     sigs : SUBSET Sigs]

VARIABLES
  attached,     (* the probes that are in place                             *)
  opt           (* the command line                                         *)

vars == <<owner, call, infotmp, ring, polling, attached, opt>>

Kprobes == opt.tool = "killsnoop"
SysCalls == IF Kprobes THEN {"kill"} ELSE TpCalls
Probes == SysCalls \X {"entry", "exit"}

\* struct val_t: comm, the name of the process, stands for the process.
Value == [comm : Pids, tpid : Targets, sig : Sigs]
Data  == [pid : Pids, comm : Pids, tpid : Targets, sig : Sigs, ret : Rets]

\* A call in progress.  seen: its entry probe was in place; hooked: so was its
\* exit probe; stored: its own arguments went into infotmp.
Call == [pid : Pids, name : {"kill"} \cup TpCalls, tpid : Targets, sig : Sigs,
         seen : BOOLEAN, hooked : BOOLEAN, stored : BOOLEAN]

\* An event with the call whose return submitted it.
Event == [data : Data, of : Call]

Init == KernelInit /\ attached = {} /\ opt \in Options
-----------------------------------------------------------------------------
(***************************************************************************)
(* Starting and ending the tool.                                           *)
(***************************************************************************)
Attach(p) ==
  /\ p \notin attached
  /\ Kprobes /\ p[2] = "exit" => <<p[1], "entry">> \in attached
  /\ attached' = attached \cup {p}
  /\ UNCHANGED <<owner, call, infotmp, ring, polling, opt>>

OpenPerfBuffer ==
  /\ attached = Probes /\ ~polling
  /\ polling' = TRUE
  /\ UNCHANGED <<owner, call, infotmp, ring, attached, opt>>

\* print_event() prints the event, or with -x drops one that succeeded.
Show(c) ==
  /\ polling /\ Taken(c)
  /\ UNCHANGED <<owner, call, infotmp, polling, attached, opt>>

\* Ctrl-C: the probes, the map and the buffers go with the process.
Quit ==
  /\ attached # {}
  /\ attached' = {} /\ polling' = FALSE
  /\ infotmp' = NoEntries /\ ring' = [c \in Cpus |-> <<>>]
  /\ call' = [t \in DOMAIN call |->
       [call[t] EXCEPT !.seen = FALSE, !.hooked = FALSE, !.stored = FALSE]]
  /\ UNCHANGED <<owner, opt>>
-----------------------------------------------------------------------------
(***************************************************************************)
(* The handlers.                                                           *)
(***************************************************************************)
\* TPID_FILTER, PID_FILTER and SIGNAL_FILTER.
Passes(c) ==
  /\ c.pid \in opt.pids
  /\ c.tpid \in opt.tpids
  /\ c.sig \in opt.sigs

\* Mutants: val.sig is not set, or the two arguments are swapped; an entry is not
\* replaced (BPF_NOEXIST); the exit deletes nothing, or everything.
ValueOfUnset(c) == [comm |-> c.pid, tpid |-> c.tpid, sig |-> CHOOSE s \in Sigs : TRUE]
ValueOfSwapped(c) == [comm |-> c.pid, tpid |-> c.sig, sig |-> c.tpid]
StoredOnce(t, v) == IF t \in DOMAIN infotmp THEN infotmp ELSE Put(infotmp, t, v)
Kept(t) == infotmp
Cleared(t) == NoEntries
ValueOf(c) == [comm |-> c.pid, tpid |-> c.tpid, sig |-> c.sig]
Stored(t, v) == Put(infotmp, t, v)
Deleted(t) == Drop(infotmp, t)

\* A kretprobe hooks a call as it enters; an exit tracepoint needs no more than
\* to be there when the call returns.
ReturnSeen(c) == IF Kprobes THEN c.hooked ELSE <<c.name, "exit">> \in attached

\* Thread t at the entry of a call.
NewCall(t, name, tpid, sig) ==
  [pid |-> owner[t], name |-> name, tpid |-> tpid, sig |-> sig,
   seen |-> <<name, "entry">> \in attached,
   hooked |-> <<name, "exit">> \in attached, stored |-> FALSE]

\* syscall__kill() and kill_entry().
Enter(t) ==
  /\ t \in Idle
  /\ \E name \in SysCalls, tpid \in Targets, sig \in Sigs :
       LET c == NewCall(t, name, tpid, sig)
       IN  IF c.seen /\ Passes(c)
           THEN /\ infotmp' = Stored(t, ValueOf(c))
                /\ call' = Put(call, t, [c EXCEPT !.stored = TRUE])
           ELSE /\ call' = Put(call, t, c)
                /\ UNCHANGED infotmp
  /\ UNCHANGED <<owner, ring, polling, attached, opt>>

\* The event do_ret_sys_kill() and kill_exit() make of thread t's entry.
EventOf(t, ret) ==
  [data |-> [pid |-> owner[t], comm |-> infotmp[t].comm, tpid |-> infotmp[t].tpid,
             sig |-> infotmp[t].sig, ret |-> ret],
   of |-> call[t]]

Return(t) ==
  /\ t \in DOMAIN call
  /\ call' = Drop(call, t)
  /\ IF ReturnSeen(call[t]) /\ t \in DOMAIN infotmp
     THEN /\ \E c \in Cpus, ret \in Rets : ring' = Submitted(c, EventOf(t, ret))
          /\ infotmp' = Deleted(t)
     ELSE UNCHANGED <<infotmp, ring>>
  /\ UNCHANGED <<owner, polling, attached, opt>>

Next == \/ \E p \in Probes : Attach(p)
        \/ OpenPerfBuffer
        \/ \E c \in Cpus : Show(c)
        \/ Quit
        \/ \E t \in Tids : Enter(t) \/ Return(t)
        \/ (ThreadEnds \/ ThreadStarts) /\ UNCHANGED <<attached, opt>>

Spec == Init /\ [][Next]_vars
-----------------------------------------------------------------------------
\* The type of every variable.
TypeOK ==
  /\ DOMAIN owner \subseteq Tids /\ \A t \in DOMAIN owner : owner[t] \in Pids
  /\ DOMAIN call \subseteq DOMAIN owner /\ \A t \in DOMAIN call : call[t] \in Call
  /\ DOMAIN infotmp \subseteq Tids
  /\ \A t \in DOMAIN infotmp : infotmp[t] \in Value
  /\ ring \in [Cpus -> Seq(Event)]
  /\ \A c \in Cpus : Len(ring[c]) <= RingSize
  /\ polling \in BOOLEAN /\ opt \in Options /\ attached \subseteq Probes

\* The truth about a call that returned ret.
Truth(c, ret) ==
  [pid |-> c.pid, comm |-> c.pid, tpid |-> c.tpid, sig |-> c.sig, ret |-> ret]

\* An event whose call passed the filters at its entry tells the truth about
\* that one call, whichever threads and thread ids came between.
TrueEvent(e) == Passes(e.of) /\ e.data = Truth(e.of, e.data.ret)
EventsTrue ==
  \A c \in Cpus : \A i \in DOMAIN ring[c] : ring[c][i].of.stored => TrueEvent(ring[c][i])

\* A thread between its entry and its return finds its own arguments.
EntryIsOwn ==
  \A t \in DOMAIN call : call[t].stored =>
    /\ t \in DOMAIN infotmp /\ infotmp[t] = ValueOf(call[t])
    /\ call[t].seen /\ Passes(call[t]) /\ call[t].pid = owner[t]

\* killsnoop.py without filters: every event tells the truth about one call,
\* even about calls in flight while the probes were attached.
NoFilter == opt.pids = Pids /\ opt.tpids = Targets /\ opt.sigs = Sigs
AllEventsTrue ==
  Kprobes /\ NoFilter =>
    \A c \in Cpus : \A i \in DOMAIN ring[c] : TrueEvent(ring[c][i])

\* Only what is asked for is shown ("trace this signal only", killsnoop.py line
\* 40): the call that returned had one of the signals.
OnlyTheSignal ==
  \A c \in Cpus : \A i \in DOMAIN ring[c] : ring[c][i].of.sig \in opt.sigs

\* Entries that no call in progress has stored.
Leftovers == {t \in DOMAIN infotmp : t \notin DOMAIN call \/ ~call[t].stored}

\* Once every probe is in place, only a call that was in flight before leaves an
\* entry behind: nothing fills the map in the long run.
NoNewLeftovers ==
  [][attached = Probes =>
       \A t \in Leftovers' \ Leftovers : ~call[t].hooked]_vars

\* No call that passes the filters and was entered after the tool was ready goes
\* by without a true event, unless the perf buffer is full.
NothingSkipped ==
  [][\A t \in DOMAIN call \ DOMAIN call' :
       polling /\ call[t].seen /\ call[t].hooked /\ Passes(call[t]) =>
         \E c \in Cpus :
           \/ ~Room(c)
           \/ /\ Len(ring'[c]) = Len(ring[c]) + 1
              /\ LET e == ring'[c][Len(ring'[c])].data
                 IN  e = Truth(call[t], e.ret)]_vars
=============================================================================
