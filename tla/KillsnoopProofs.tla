-------------------------- MODULE KillsnoopProofs --------------------------
(***************************************************************************)
(* Theorems about Killsnoop, for kprobes and for tracepoints, any filters, *)
(* any number of threads, processors and buffer places.                    *)
(***************************************************************************)
EXTENDS Killsnoop, TLAPS

-----------------------------------------------------------------------------
(* The kernel: what the perf buffers hold after an event is submitted or   *)
(* taken; threads that come and go leave the calls in progress alone.      *)

\* What Submitted does to the buffers.
LEMMA SubmittedSeq ==
  ASSUME NEW S, ring \in [Cpus -> Seq(S)], NEW c \in Cpus, NEW e \in S
  PROVE  /\ Submitted(c, e) \in [Cpus -> Seq(S)]
         /\ \A d \in Cpus : \A i \in DOMAIN Submitted(c, e)[d] :
              \/ i \in DOMAIN ring[d] /\ Submitted(c, e)[d][i] = ring[d][i]
              \/ Submitted(c, e)[d][i] = e
         /\ (\A d \in Cpus : Len(ring[d]) <= RingSize) =>
              \A d \in Cpus : Len(Submitted(c, e)[d]) <= RingSize
<1>1. CASE ~Room(c) BY <1>1 DEF Submitted
<1>2. CASE Room(c)
  <2> DEFINE new == [ring EXCEPT ![c] = Append(@, e)]
  <2>1. Submitted(c, e) = new BY <1>2 DEF Submitted
  <2>2. ring[c] \in Seq(S) /\ Append(ring[c], e) \in Seq(S) OBVIOUS
  <2>3. new \in [Cpus -> Seq(S)] BY <2>2
  <2>4. ASSUME NEW d \in Cpus, NEW i \in DOMAIN new[d]
        PROVE  (i \in DOMAIN ring[d] /\ new[d][i] = ring[d][i]) \/ new[d][i] = e
    <3>1. CASE d = c BY <2>2, <2>4, <3>1
    <3>2. CASE d # c BY <2>4, <3>2
    <3> QED BY <3>1, <3>2
  <2>5. ASSUME NEW d \in Cpus, \A x \in Cpus : Len(ring[x]) <= RingSize
        PROVE  Len(new[d]) <= RingSize
    <3>1. CASE d = c
      <4>1. Len(new[d]) = Len(ring[c]) + 1 /\ Len(ring[c]) \in Nat BY <2>2, <3>1
      <4> QED BY <1>2, <4>1, RingAssumption DEF Room
    <3>2. CASE d # c BY <2>5, <3>2
    <3> QED BY <3>1, <3>2
  <2> QED BY <2>1, <2>3, <2>4, <2>5
<1> QED BY <1>1, <1>2

\* Taking the head of a buffer leaves events that were there.
LEMMA TakenSeq ==
  ASSUME NEW S, ring \in [Cpus -> Seq(S)], NEW c \in Cpus, Taken(c)
  PROVE  /\ ring' \in [Cpus -> Seq(S)]
         /\ \A d \in Cpus : \A i \in DOMAIN ring'[d] :
              \E j \in DOMAIN ring[d] : ring'[d][i] = ring[d][j]
         /\ \A d \in Cpus : Len(ring'[d]) <= Len(ring[d])
<1>1. ring[c] \in Seq(S) /\ ring[c] # <<>> BY DEF Taken
<1>2. /\ Tail(ring[c]) \in Seq(S) /\ Len(Tail(ring[c])) = Len(ring[c]) - 1
      /\ \A i \in 1..Len(Tail(ring[c])) : Tail(ring[c])[i] = ring[c][i + 1]
      /\ Len(ring[c]) \in Nat /\ DOMAIN ring[c] = 1..Len(ring[c])
      /\ DOMAIN Tail(ring[c]) = 1..Len(Tail(ring[c]))
  BY <1>1
<1>3. ring' = [ring EXCEPT ![c] = Tail(@)] BY DEF Taken
<1>4. ring' \in [Cpus -> Seq(S)] BY <1>2, <1>3
<1>5. ASSUME NEW d \in Cpus
      PROVE  /\ \A i \in DOMAIN ring'[d] :
                  \E j \in DOMAIN ring[d] : ring'[d][i] = ring[d][j]
             /\ Len(ring'[d]) <= Len(ring[d])
  <2>1. CASE d = c
    <3>1. ring'[d] = Tail(ring[c]) BY <1>3, <2>1
    <3>2. ASSUME NEW i \in DOMAIN ring'[d]
          PROVE  \E j \in DOMAIN ring[d] : ring'[d][i] = ring[d][j]
      <4>1. i + 1 \in DOMAIN ring[d] /\ ring'[d][i] = ring[d][i + 1]
        BY <1>2, <2>1, <3>1, <3>2
      <4> QED BY <4>1
    <3>3. Len(ring'[d]) <= Len(ring[d]) BY <1>2, <2>1, <3>1
    <3> QED BY <3>2, <3>3
  <2>2. CASE d # c
    <3>1. ring'[d] = ring[d] BY <1>3, <2>2
    <3>2. ring[d] \in Seq(S) /\ Len(ring[d]) \in Nat OBVIOUS
    <3> QED BY <3>1, <3>2
  <2> QED BY <2>1, <2>2
<1> QED BY <1>4, <1>5

\* Empty buffers.
LEMMA EmptyRing ==
  ASSUME NEW S
  PROVE  LET r == [c \in Cpus |-> <<>>]
         IN  r \in [Cpus -> Seq(S)] /\ \A c \in Cpus : Len(r[c]) <= RingSize
<1>1. <<>> \in Seq(S) /\ Len(<<>>) = 0 OBVIOUS
<1> QED BY <1>1, RingAssumption

\* Threads that come and go leave the threads inside a call alone.
LEMMA ThreadCases ==
  ASSUME DOMAIN owner \subseteq Tids, \A t \in DOMAIN owner : owner[t] \in Pids,
         DOMAIN call \subseteq DOMAIN owner, ThreadEnds \/ ThreadStarts
  PROVE  /\ DOMAIN owner' \subseteq Tids
         /\ \A t \in DOMAIN owner' : owner'[t] \in Pids
         /\ DOMAIN call \subseteq DOMAIN owner'
         /\ \A t \in DOMAIN call : owner'[t] = owner[t]
         /\ call' = call /\ infotmp' = infotmp /\ ring' = ring
         /\ polling' = polling
<1>1. CASE ThreadEnds
  <2>1. PICK t \in Idle : owner' = Drop(owner, t) BY <1>1 DEF ThreadEnds
  <2> QED BY <1>1, <2>1 DEF Drop, ThreadEnds, Idle
<1>2. CASE ThreadStarts
  <2>1. PICK t \in Tids \ DOMAIN owner, p \in Pids : owner' = Put(owner, t, p)
    BY <1>2 DEF ThreadStarts
  <2>2. /\ DOMAIN owner' = DOMAIN owner \cup {t} /\ owner'[t] = p
        /\ \A x \in DOMAIN owner : x # t => owner'[x] = owner[x]
    BY <2>1 DEF Put
  <2> QED BY <1>2, <2>1, <2>2 DEF ThreadStarts
<1> QED BY <1>1, <1>2

-----------------------------------------------------------------------------
(* The tool. *)


\* Entering a call adds a call of thread t, stored with its value if the entry
\* probe saw it pass the filters.
Entered(t, c) ==
  /\ c.pid = owner[t] /\ call' = Put(call, t, c)
  /\ c.hooked => <<c.name, "exit">> \in attached
  /\ c.seen /\ Passes(c) => c.stored
  /\ \/ /\ c.stored /\ c.seen /\ Passes(c)
        /\ infotmp' = Put(infotmp, t, ValueOf(c))
     \/ ~c.stored /\ infotmp' = infotmp

LEMMA EnterCases ==
  ASSUME TypeOK, NEW t \in Tids, Enter(t)
  PROVE  /\ t \in DOMAIN owner /\ t \notin DOMAIN call
         /\ owner' = owner /\ ring' = ring /\ polling' = polling
         /\ attached' = attached /\ opt' = opt
         /\ \E c \in Call : Entered(t, c) /\ ValueOf(c) \in Value
<1>1. PICK name \in SysCalls, tpid \in Targets, sig \in Sigs :
        LET c == NewCall(t, name, tpid, sig) IN
          IF c.seen /\ Passes(c)
          THEN /\ infotmp' = Put(infotmp, t, ValueOf(c))
               /\ call' = Put(call, t, [c EXCEPT !.stored = TRUE])
          ELSE /\ call' = Put(call, t, c)
               /\ infotmp' = infotmp
  BY DEF Enter, Stored
<1>2. /\ t \in DOMAIN owner /\ t \notin DOMAIN call
      /\ owner' = owner /\ ring' = ring /\ polling' = polling
      /\ attached' = attached /\ opt' = opt
  BY DEF Enter, Idle
<1> DEFINE c == NewCall(t, name, tpid, sig)
           d == [c EXCEPT !.stored = TRUE]
<1>3. owner[t] \in Pids BY <1>2 DEF TypeOK
<1>4. c \in Call
  <2>1. name \in {"kill"} \cup TpCalls BY DEF SysCalls
  <2> QED BY <1>3, <2>1 DEF NewCall, Call
<1>5. d \in Call BY <1>4 DEF Call
<1>6. /\ c.stored = FALSE /\ d.stored = TRUE
      /\ c.pid = owner[t] /\ d.pid = c.pid /\ d.tpid = c.tpid /\ d.sig = c.sig
      /\ d.seen = c.seen /\ d.hooked = c.hooked /\ d.name = c.name
      /\ c.hooked => <<c.name, "exit">> \in attached
  BY DEF NewCall
<1>7. ValueOf(c) \in Value /\ ValueOf(d) = ValueOf(c)
  <2>1. c.pid \in Pids /\ c.tpid \in Targets /\ c.sig \in Sigs BY <1>4 DEF Call
  <2> HIDE DEF c, d
  <2> QED BY <1>6, <2>1 DEF ValueOf, Value
<1>8. Passes(c) => Passes(d)
  <2> HIDE DEF c, d
  <2> QED BY <1>6 DEF Passes
<1>9. CASE c.seen /\ Passes(c)
  <2>1. infotmp' = Put(infotmp, t, ValueOf(d)) /\ call' = Put(call, t, d)
    BY <1>1, <1>7, <1>9
  <2>2. Entered(t, d)
    <3> HIDE DEF c, d
    <3> QED BY <1>6, <1>8, <1>9, <2>1 DEF Entered
  <2> QED BY <1>2, <1>5, <1>7, <2>2
<1>10. CASE ~(c.seen /\ Passes(c))
  <2>1. infotmp' = infotmp /\ call' = Put(call, t, c) BY <1>1, <1>10
  <2>2. Entered(t, c)
    <3> HIDE DEF c
    <3> QED BY <1>6, <1>10, <2>1 DEF Entered
  <2> QED BY <1>2, <1>4, <1>7, <2>2
<1> QED BY <1>9, <1>10

\* An exit handler's event has the right type.
LEMMA EventType ==
  ASSUME TypeOK, NEW t \in DOMAIN call, t \in DOMAIN infotmp, NEW ret \in Rets
  PROVE  EventOf(t, ret) \in Event
BY DEF TypeOK, EventOf, Event, Data, Value

LEMMA InitTypeOK == Init => TypeOK
<1> SUFFICES ASSUME Init PROVE TypeOK OBVIOUS
<1>1. ring \in [Cpus -> Seq(Event)] /\ \A c \in Cpus : Len(ring[c]) <= RingSize
  BY EmptyRing DEF Init, KernelInit
<1>2. DOMAIN call = {} /\ DOMAIN infotmp = {} BY DEF Init, KernelInit, NoEntries
<1>3. DOMAIN owner = Tids /\ \A t \in DOMAIN owner : owner[t] \in Pids
  BY DEF Init, KernelInit
<1>4. polling \in BOOLEAN /\ attached \subseteq Probes /\ opt \in Options
  BY DEF Init, KernelInit
<1> QED BY <1>1, <1>2, <1>3, <1>4 DEF TypeOK

\* The command line, and with it the probes and the filters, never changes.
LEMMA OptStays == [Next]_vars => opt' = opt /\ Probes' = Probes
<1> SUFFICES ASSUME [Next]_vars PROVE opt' = opt
  BY DEF Probes, SysCalls, Kprobes
<1> QED BY DEF Next, vars, Attach, OpenPerfBuffer, Show, Quit, Enter, Return,
               ThreadEnds, ThreadStarts

LEMMA NextTypeOK == TypeOK /\ [Next]_vars => TypeOK'
<1> SUFFICES ASSUME TypeOK, [Next]_vars PROVE TypeOK' OBVIOUS
<1>0. Probes' = Probes /\ opt' = opt BY OptStays
<1>1. ASSUME NEW p \in Probes, Attach(p) PROVE TypeOK'
  BY <1>0, <1>1 DEF Attach, TypeOK
<1>2. CASE OpenPerfBuffer BY <1>0, <1>2 DEF OpenPerfBuffer, TypeOK
<1>3. ASSUME NEW c \in Cpus, Show(c) PROVE TypeOK'
  <2>1. ring \in [Cpus -> Seq(Event)] BY DEF TypeOK
  <2>2. /\ ring' \in [Cpus -> Seq(Event)]
        /\ \A d \in Cpus : Len(ring'[d]) <= Len(ring[d])
    BY <1>3, <2>1, TakenSeq DEF Show
  <2>3. \A d \in Cpus : Len(ring'[d]) \in Nat /\ Len(ring[d]) \in Nat BY <2>1, <2>2
  <2>4. \A d \in Cpus : Len(ring'[d]) <= RingSize
    BY <2>2, <2>3, RingAssumption DEF TypeOK
  <2> QED BY <1>0, <1>3, <2>2, <2>4 DEF Show, TypeOK
<1>4. CASE Quit
  <2>1. ring' \in [Cpus -> Seq(Event)] /\ \A c \in Cpus : Len(ring'[c]) <= RingSize
    BY <1>4, EmptyRing DEF Quit
  <2>2. DOMAIN infotmp' = {} BY <1>4 DEF Quit, NoEntries
  <2>3. DOMAIN call' = DOMAIN call /\ \A t \in DOMAIN call' : call'[t] \in Call
    BY <1>4 DEF Quit, TypeOK, Call
  <2>4. owner' = owner /\ polling' = FALSE /\ attached' = {} /\ opt' = opt BY <1>4 DEF Quit
  <2> QED BY <1>0, <2>1, <2>2, <2>3, <2>4 DEF TypeOK
<1>5. ASSUME NEW t \in Tids, Enter(t) PROVE TypeOK'
  <2>1. PICK c \in Call : Entered(t, c) /\ ValueOf(c) \in Value
    BY <1>5, EnterCases
  <2>2. /\ t \in DOMAIN owner /\ t \notin DOMAIN call
        /\ owner' = owner /\ ring' = ring /\ polling' = polling
        /\ attached' = attached /\ opt' = opt
    BY <1>5, EnterCases
  <2>3. /\ DOMAIN call' = DOMAIN call \cup {t} /\ call'[t] = c
        /\ \A x \in DOMAIN call : x # t => call'[x] = call[x]
    BY <2>1 DEF Entered, Put
  <2>4. DOMAIN infotmp' \subseteq Tids /\ \A x \in DOMAIN infotmp' : infotmp'[x] \in Value
    <3>1. CASE infotmp' = infotmp BY <3>1 DEF TypeOK
    <3>2. CASE infotmp' = Put(infotmp, t, ValueOf(c))
      <4>1. /\ DOMAIN infotmp' = DOMAIN infotmp \cup {t} /\ infotmp'[t] = ValueOf(c)
            /\ \A x \in DOMAIN infotmp : x # t => infotmp'[x] = infotmp[x]
        BY <3>2 DEF Put
      <4> QED BY <2>1, <4>1 DEF TypeOK
    <3> QED BY <2>1, <3>1, <3>2 DEF Entered
  <2> QED BY <1>0, <2>2, <2>3, <2>4 DEF TypeOK
<1>6. ASSUME NEW t \in Tids, Return(t) PROVE TypeOK'
  <2>1. ring' \in [Cpus -> Seq(Event)] /\ \A c \in Cpus : Len(ring'[c]) <= RingSize
    <3>1. CASE UNCHANGED ring BY <3>1 DEF TypeOK
    <3>2. CASE ~UNCHANGED ring
      <4>1. t \in DOMAIN call /\ t \in DOMAIN infotmp BY <1>6, <3>2 DEF Return
      <4>2. PICK c \in Cpus, ret \in Rets : ring' = Submitted(c, EventOf(t, ret))
        BY <1>6, <3>2 DEF Return
      <4> QED BY <4>1, <4>2, EventType, SubmittedSeq DEF TypeOK
    <3> QED BY <3>1, <3>2
  <2>2. DOMAIN infotmp' \subseteq Tids /\ \A x \in DOMAIN infotmp' : infotmp'[x] \in Value
    <3>1. CASE infotmp' = infotmp BY <3>1 DEF TypeOK
    <3>2. CASE infotmp' = Drop(infotmp, t) BY <3>2 DEF Drop, TypeOK
    <3> QED BY <1>6, <3>1, <3>2 DEF Return, Deleted
  <2>3. call' = Drop(call, t) /\ UNCHANGED <<owner, polling, attached, opt>>
    BY <1>6 DEF Return
  <2> QED BY <1>0, <2>1, <2>2, <2>3 DEF Drop, TypeOK
<1>7. CASE (ThreadEnds \/ ThreadStarts) /\ UNCHANGED <<attached, opt>>
  BY <1>0, <1>7, ThreadCases DEF TypeOK
<1>8. CASE UNCHANGED vars BY <1>0, <1>8 DEF vars, TypeOK
<1> QED BY <1>1, <1>2, <1>3, <1>4, <1>5, <1>6, <1>7, <1>8 DEF Next

\* Every variable keeps its type.
THEOREM TypeCorrect == Spec => []TypeOK
<1> QED BY InitTypeOK, NextTypeOK, PTL DEF Spec
-----------------------------------------------------------------------------
LEMMA NextEntryIsOwn == TypeOK /\ EntryIsOwn /\ [Next]_vars => EntryIsOwn'
<1> SUFFICES ASSUME TypeOK, EntryIsOwn, [Next]_vars PROVE EntryIsOwn' OBVIOUS
<1>0. opt' = opt BY OptStays
<1>1. ASSUME NEW p \in Probes, Attach(p) PROVE EntryIsOwn'
  BY <1>0, <1>1 DEF Attach, EntryIsOwn, ValueOf, Passes
<1>2. CASE OpenPerfBuffer BY <1>0, <1>2 DEF OpenPerfBuffer, EntryIsOwn, ValueOf, Passes
<1>3. ASSUME NEW c \in Cpus, Show(c) PROVE EntryIsOwn'
  BY <1>0, <1>3 DEF Show, EntryIsOwn, ValueOf, Passes
<1>4. CASE Quit
  <2>1. \A t \in DOMAIN call' : ~call'[t].stored BY <1>4 DEF Quit, TypeOK, Call
  <2> QED BY <2>1 DEF EntryIsOwn
<1>5. ASSUME NEW t \in Tids, Enter(t) PROVE EntryIsOwn'
  <2>1. PICK c \in Call : Entered(t, c) BY <1>5, EnterCases
  <2>2. t \notin DOMAIN call /\ owner' = owner BY <1>5, EnterCases
  <2>3. /\ DOMAIN call' = DOMAIN call \cup {t} /\ call'[t] = c
        /\ \A x \in DOMAIN call : x # t => call'[x] = call[x]
    BY <2>1 DEF Entered, Put
  <2>4. ASSUME NEW x \in DOMAIN call', call'[x].stored, x # t
        PROVE  /\ x \in DOMAIN infotmp' /\ infotmp'[x] = ValueOf(call'[x])
               /\ call'[x].seen /\ Passes(call'[x]) /\ call'[x].pid = owner'[x]
    <3>1. x \in DOMAIN call /\ call'[x] = call[x] BY <2>3, <2>4
    <3>2. x \in DOMAIN infotmp => x \in DOMAIN infotmp' /\ infotmp'[x] = infotmp[x]
      BY <2>1, <2>4 DEF Entered, Put
    <3> QED BY <2>2, <2>4, <3>1, <3>2 DEF EntryIsOwn
  <2>5. ASSUME c.stored
        PROVE  /\ t \in DOMAIN infotmp' /\ infotmp'[t] = ValueOf(c)
               /\ c.seen /\ Passes(c) /\ c.pid = owner[t]
    BY <2>1, <2>5 DEF Entered, Put
  <2>6. SUFFICES ASSUME NEW x \in DOMAIN call', call'[x].stored
                 PROVE  /\ x \in DOMAIN infotmp' /\ infotmp'[x] = ValueOf(call'[x])
                        /\ call'[x].seen /\ Passes(call'[x])
                        /\ call'[x].pid = owner'[x]
    BY <1>0 DEF EntryIsOwn, ValueOf, Passes
  <2> QED BY <2>2, <2>3, <2>4, <2>5, <2>6
<1>6. ASSUME NEW t \in Tids, Return(t) PROVE EntryIsOwn'
  <2>1. call' = Drop(call, t) /\ owner' = owner
        /\ infotmp' \in {infotmp, Drop(infotmp, t)}
    BY <1>6 DEF Return, Deleted
  <2> QED BY <1>0, <2>1 DEF Drop, EntryIsOwn, ValueOf, Passes
<1>7. CASE (ThreadEnds \/ ThreadStarts) /\ UNCHANGED <<attached, opt>>
  BY <1>0, <1>7, ThreadCases DEF TypeOK, EntryIsOwn, ValueOf, Passes
<1>8. CASE UNCHANGED vars BY <1>0, <1>8 DEF vars, EntryIsOwn, ValueOf, Passes
<1> QED BY <1>1, <1>2, <1>3, <1>4, <1>5, <1>6, <1>7, <1>8 DEF Next

\* Between the entry and the return of a traced call the map holds its own
\* arguments, whatever other threads do and however thread ids are reused.
THEOREM EntriesAreOwn == Spec => []EntryIsOwn
<1>1. Init => EntryIsOwn BY DEF Init, KernelInit, EntryIsOwn, NoEntries
<1> QED BY <1>1, NextEntryIsOwn, TypeCorrect, PTL DEF Spec
-----------------------------------------------------------------------------
LEMMA NextEventsTrue ==
  TypeOK /\ EntryIsOwn /\ EventsTrue /\ [Next]_vars => EventsTrue'
<1> SUFFICES ASSUME TypeOK, EntryIsOwn, EventsTrue, [Next]_vars,
                    NEW d \in Cpus, NEW i \in DOMAIN ring'[d],
                    ring'[d][i].of.stored
             PROVE  TrueEvent(ring'[d][i])
  BY OptStays DEF EventsTrue, TrueEvent, Passes, Truth
<1>1. CASE UNCHANGED ring BY <1>1 DEF EventsTrue
<1>2. ASSUME NEW c \in Cpus, Show(c) PROVE TrueEvent(ring'[d][i])
  <2>1. PICK j \in DOMAIN ring[d] : ring'[d][i] = ring[d][j]
    BY <1>2, TakenSeq DEF Show, TypeOK
  <2> QED BY <2>1 DEF EventsTrue
<1>3. CASE Quit
  <2>1. ring'[d] = <<>> BY <1>3 DEF Quit
  <2> QED BY <2>1
<1>4. ASSUME NEW t \in Tids, Return(t), ~UNCHANGED ring
      PROVE  TrueEvent(ring'[d][i])
  <2>1. t \in DOMAIN call /\ t \in DOMAIN infotmp BY <1>4 DEF Return
  <2>2. PICK c \in Cpus, ret \in Rets : ring' = Submitted(c, EventOf(t, ret))
    BY <1>4 DEF Return
  <2>3. CASE i \in DOMAIN ring[d] /\ ring'[d][i] = ring[d][i]
    BY <2>3 DEF EventsTrue
  <2>4. CASE ring'[d][i] = EventOf(t, ret)
    <3>1. call[t].stored BY <2>4 DEF EventOf
    <3>2. /\ infotmp[t] = ValueOf(call[t]) /\ Passes(call[t])
          /\ call[t].pid = owner[t]
      BY <2>1, <3>1 DEF EntryIsOwn
    <3> QED BY <2>4, <3>2 DEF EventOf, TrueEvent, Truth, ValueOf
  <2> QED BY <2>1, <2>2, <2>3, <2>4, EventType, SubmittedSeq DEF TypeOK
<1> QED BY <1>1, <1>2, <1>3, <1>4
        DEF Next, vars, Attach, OpenPerfBuffer, Enter, ThreadEnds, ThreadStarts

\* An event of a call that passed the filters tells the truth about that call.
THEOREM EventsAreTrue == Spec => []EventsTrue
<1>1. Init => EventsTrue BY DEF Init, KernelInit, EventsTrue
<1> QED BY <1>1, NextEventsTrue, TypeCorrect, EntriesAreOwn, PTL DEF Spec
-----------------------------------------------------------------------------
\* A call whose return will be hooked finds an exit probe in place.
HookedInv ==
  \A t \in DOMAIN call : call[t].hooked => <<call[t].name, "exit">> \in attached

\* The entry handler stores every call that it sees and that passes the filters.
StoredInv ==
  \A t \in DOMAIN call : call[t].seen /\ Passes(call[t]) => call[t].stored

LEMMA NextCallsInv ==
  TypeOK /\ HookedInv /\ StoredInv /\ [Next]_vars => HookedInv' /\ StoredInv'
<1> SUFFICES ASSUME TypeOK, HookedInv, StoredInv, [Next]_vars
             PROVE  HookedInv' /\ StoredInv'
  OBVIOUS
<1>0. opt' = opt BY OptStays
<1>1. CASE UNCHANGED call /\ attached \subseteq attached'
  BY <1>0, <1>1 DEF HookedInv, StoredInv, Passes
<1>2. CASE Quit
  <2>1. \A t \in DOMAIN call' : ~call'[t].seen /\ ~call'[t].hooked
    BY <1>2 DEF Quit, TypeOK, Call
  <2> QED BY <2>1 DEF HookedInv, StoredInv
<1>3. ASSUME NEW t \in Tids, Enter(t) PROVE HookedInv' /\ StoredInv'
  <2>1. PICK c \in Call : Entered(t, c) BY <1>3, EnterCases
  <2>2. attached' = attached BY <1>3, EnterCases
  <2>3. /\ DOMAIN call' = DOMAIN call \cup {t} /\ call'[t] = c
        /\ \A x \in DOMAIN call : x # t => call'[x] = call[x]
    BY <2>1 DEF Entered, Put
  <2>4. HookedInv' BY <2>1, <2>2, <2>3 DEF Entered, HookedInv
  <2>5. StoredInv' BY <1>0, <2>1, <2>3 DEF Entered, StoredInv, Passes
  <2> QED BY <2>4, <2>5
<1>4. ASSUME NEW t \in Tids, Return(t) PROVE HookedInv' /\ StoredInv'
  <2>1. call' = Drop(call, t) /\ attached' = attached BY <1>4 DEF Return
  <2> QED BY <1>0, <2>1 DEF Drop, HookedInv, StoredInv, Passes
<1> QED BY <1>1, <1>2, <1>3, <1>4
        DEF Next, vars, Attach, OpenPerfBuffer, Show, ThreadEnds, ThreadStarts

LEMMA CallsHold == Spec => [](TypeOK /\ EntryIsOwn /\ HookedInv /\ StoredInv)
<1>1. Init => HookedInv /\ StoredInv
  BY DEF Init, KernelInit, HookedInv, StoredInv, NoEntries
<1> QED BY <1>1, NextCallsInv, TypeCorrect, EntriesAreOwn, PTL DEF Spec

\* Either way of tracing, the return of such a call runs the exit handler.
LEMMA HookedReturns ==
  ASSUME HookedInv, NEW t \in DOMAIN call, call[t].hooked
  PROVE  ReturnSeen(call[t])
BY DEF HookedInv, ReturnSeen

\* Once every probe is in place, only a call that was in flight before leaves
\* its entry in the map.
THEOREM NothingLeaks == Spec => NoNewLeftovers
<1> DEFINE Leak == attached = Probes =>
                     \A t \in Leftovers' \ Leftovers : ~call[t].hooked
<1>1. ASSUME TypeOK, HookedInv, [Next]_vars PROVE Leak
  <2> SUFFICES ASSUME NEW s \in Leftovers' \ Leftovers, call[s].hooked
               PROVE  FALSE
    OBVIOUS
  <2>1. CASE UNCHANGED <<call, infotmp>> BY <2>1 DEF Leftovers
  <2>2. CASE Quit BY <2>2 DEF Quit, Leftovers, NoEntries
  <2>3. ASSUME NEW t \in Tids, Enter(t) PROVE FALSE
    <3>1. PICK c \in Call : Entered(t, c) BY <1>1, <2>3, EnterCases
    <3>2. t \notin DOMAIN call BY <1>1, <2>3, EnterCases
    <3>3. /\ DOMAIN call' = DOMAIN call \cup {t} /\ call'[t] = c
          /\ \A x \in DOMAIN call : x # t => call'[x] = call[x]
      BY <3>1 DEF Entered, Put
    <3>4. DOMAIN infotmp' \subseteq DOMAIN infotmp \cup {t}
          /\ (~c.stored => infotmp' = infotmp)
      BY <3>1 DEF Entered, Put
    <3> QED BY <3>2, <3>3, <3>4 DEF Leftovers
  <2>4. ASSUME NEW t \in Tids, Return(t) PROVE FALSE
    <3>1. t \in DOMAIN call /\ call' = Drop(call, t) BY <2>4 DEF Return
    <3>2. DOMAIN infotmp' \subseteq DOMAIN infotmp BY <2>4 DEF Return, Deleted, Drop
    <3>3. s = t BY <3>1, <3>2 DEF Leftovers, Drop
    <3>4. ReturnSeen(call[t]) BY <1>1, <3>1, <3>3, HookedReturns
    <3>5. t \notin DOMAIN infotmp' BY <2>4, <3>4 DEF Return, Deleted, Drop
    <3> QED BY <3>3, <3>5 DEF Leftovers
  <2> QED BY <1>1, <2>1, <2>2, <2>3, <2>4
          DEF Next, vars, Attach, OpenPerfBuffer, Show, ThreadEnds, ThreadStarts
<1>2. TypeOK /\ HookedInv /\ [Next]_vars => [Leak]_vars BY <1>1
<1> QED BY <1>2, CallsHold, PTL DEF Spec, NoNewLeftovers

\* A call that passes the filters and was entered after the tool was ready is
\* shown with its true arguments, unless the perf buffer is full.
THEOREM NothingIsSkipped == Spec => NothingSkipped
<1> DEFINE
      Shown(t) == \E c \in Cpus :
        \/ ~Room(c)
        \/ /\ Len(ring'[c]) = Len(ring[c]) + 1
           /\ LET e == ring'[c][Len(ring'[c])].data IN e = Truth(call[t], e.ret)
      Skip == \A t \in DOMAIN call \ DOMAIN call' :
        polling /\ call[t].seen /\ call[t].hooked /\ Passes(call[t]) => Shown(t)
<1>1. ASSUME TypeOK, EntryIsOwn, HookedInv, StoredInv, [Next]_vars PROVE Skip
  <2> SUFFICES ASSUME NEW s \in DOMAIN call \ DOMAIN call',
                      call[s].seen, call[s].hooked, Passes(call[s])
               PROVE  Shown(s)
    OBVIOUS
  <2>1. CASE DOMAIN call \subseteq DOMAIN call' BY <2>1
  <2>2. ASSUME NEW t \in Tids, Return(t) PROVE Shown(s)
    <3>1. t \in DOMAIN call /\ s = t BY <2>2 DEF Return, Drop
    <3>2. ReturnSeen(call[t]) BY <1>1, <3>1, HookedReturns
    <3>3. call[t].stored BY <1>1, <3>1 DEF StoredInv
    <3>4. /\ t \in DOMAIN infotmp /\ infotmp[t] = ValueOf(call[t])
          /\ call[t].pid = owner[t]
      BY <1>1, <3>1, <3>3 DEF EntryIsOwn
    <3>5. PICK c \in Cpus, ret \in Rets : ring' = Submitted(c, EventOf(t, ret))
      BY <2>2, <3>2, <3>4 DEF Return
    <3>6. EventOf(t, ret).data = Truth(call[t], ret)
      BY <3>4 DEF EventOf, Truth, ValueOf
    <3>7. CASE ~Room(c) BY <3>7
    <3>8. CASE Room(c)
      <4>1. ring[c] \in Seq(Event) BY <1>1 DEF TypeOK
      <4>2. ring'[c] = Append(ring[c], EventOf(t, ret))
        BY <1>1, <3>5, <3>8 DEF Submitted, TypeOK
      <4>3. /\ Len(ring'[c]) = Len(ring[c]) + 1
            /\ ring'[c][Len(ring'[c])] = EventOf(t, ret)
        BY <4>1, <4>2
      <4>4. Truth(call[t], ret).ret = ret BY DEF Truth
      <4> QED BY <3>1, <3>6, <4>3, <4>4
    <3> QED BY <3>7, <3>8
  <2>3. ASSUME NEW t \in Tids, Enter(t) PROVE DOMAIN call \subseteq DOMAIN call'
    <3>1. PICK c \in Call : Entered(t, c) BY <1>1, <2>3, EnterCases
    <3> QED BY <3>1 DEF Entered, Put
  <2> QED BY <1>1, <2>1, <2>2, <2>3
          DEF Next, vars, Attach, OpenPerfBuffer, Show, Quit, ThreadEnds, ThreadStarts
<1>2. TypeOK /\ EntryIsOwn /\ HookedInv /\ StoredInv /\ [Next]_vars => [Skip]_vars
  BY <1>1
<1> QED BY <1>2, CallsHold, PTL DEF Spec, NothingSkipped
=============================================================================
