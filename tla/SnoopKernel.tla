---------------------------- MODULE SnoopKernel ----------------------------
(***************************************************************************)
(* What the tools of jules_mentorship_code rely on and do not implement:   *)
(* threads of processes that make system calls, the hash map and the perf  *)
(* buffers of BPF, and thread ids that are given out again.  A tool's      *)
(* module adds the handlers that run when a call is entered and returns.   *)
(***************************************************************************)
EXTENDS Integers, Sequences, FiniteSets

CONSTANTS
  Tids,         (* thread ids the kernel hands out, and hands out again     *)
  Pids,         (* process ids                                              *)
  Rets,         (* results of a call: 0, or a negative error code           *)
  Cpus,         (* processors, each with a perf buffer of its own           *)
  RingSize      (* events one perf buffer holds                             *)

ASSUME RetsAssumption == Rets \subseteq Int
ASSUME RingAssumption == RingSize \in Nat \ {0}

VARIABLES
  owner,        (* the process each live thread belongs to                  *)
  call,         (* the call each thread inside the traced calls is making   *)
  infotmp,      (* BPF_HASH(infotmp): what a thread's entry left behind     *)
  ring,         (* BPF_PERF_OUTPUT(events): submitted, not yet shown        *)
  polling       (* has the tool opened the perf buffers?                    *)

\* Maps as functions: an entry is added, replaced or taken out.
Put(f, k, v) == [x \in DOMAIN f \cup {k} |-> IF x = k THEN v ELSE f[x]]
Drop(f, k) == [x \in DOMAIN f \ {k} |-> f[x]]
NoEntries == [x \in {} |-> 0]

KernelInit ==
  /\ owner \in [Tids -> Pids]
  /\ call = NoEntries /\ infotmp = NoEntries
  /\ ring = [c \in Cpus |-> <<>>] /\ polling = FALSE

Idle == DOMAIN owner \ DOMAIN call

\* A thread ends between calls; its id goes to a new thread, perhaps of another
\* process.
ThreadEnds ==
  /\ \E t \in Idle : owner' = Drop(owner, t)
  /\ UNCHANGED <<call, infotmp, ring, polling>>
ThreadStarts ==
  /\ \E t \in Tids \ DOMAIN owner, p \in Pids : owner' = Put(owner, t, p)
  /\ UNCHANGED <<call, infotmp, ring, polling>>

\* perf_submit() on processor c: before the buffers are open, and when this one
\* is full, the event is lost.
Room(c) == polling /\ Len(ring[c]) < RingSize
Submitted(c, e) == IF Room(c) THEN [ring EXCEPT ![c] = Append(@, e)] ELSE ring

\* perf_buffer_poll() takes the oldest event of some buffer.
Taken(c) == ring[c] # <<>> /\ ring' = [ring EXCEPT ![c] = Tail(@)]
=============================================================================
