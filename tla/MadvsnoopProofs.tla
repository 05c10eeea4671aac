-------------------------- MODULE MadvsnoopProofs --------------------------
(***************************************************************************)
(* Theorems about Madvsnoop, for any number of threads, any filter, any    *)
(* width of int and any size of the map and of the buffers.                *)
(***************************************************************************)
EXTENDS Madvsnoop, FiniteSetTheorems, TLAPS

-----------------------------------------------------------------------------
(* The kernel: what the perf buffers hold after an event is submitted or   *)
(* taken; threads that come and go leave the calls in progress alone.      *)

\* What Submitted does to the buffers.
LEMMA SubmittedSeq ==
  ASSUME NEW S, ring \in [Cpus -> Seq(S)], NEW c \in Cpus, NEW e \in S
  PROVE  /\ Submitted(c, e) \in [Cpus -> Seq(S)]
         /\ \A d \in Cpus : \A i \in DOMAIN Submitted(c, e)[d] :
              \/ i \in DOMAIN ring[d] /\ Submitted(c, e)[d][i] = ring[d][i]
              \/ Submitted(c, e)[d][i] = e
         /\ (\A d \in Cpus : Len(ring[d]) <= RingSize) =>
              \A d \in Cpus : Len(Submitted(c, e)[d]) <= RingSize
<1>1. CASE ~Room(c) BY <1>1 DEF Submitted
<1>2. CASE Room(c)
  <2> DEFINE new == [ring EXCEPT ![c] = Append(@, e)]
  <2>1. Submitted(c, e) = new BY <1>2 DEF Submitted
  <2>2. ring[c] \in Seq(S) /\ Append(ring[c], e) \in Seq(S) OBVIOUS
  <2>3. new \in [Cpus -> Seq(S)] BY <2>2
  <2>4. ASSUME NEW d \in Cpus, NEW i \in DOMAIN new[d]
        PROVE  (i \in DOMAIN ring[d] /\ new[d][i] = ring[d][i]) \/ new[d][i] = e
    <3>1. CASE d = c BY <2>2, <2>4, <3>1
    <3>2. CASE d # c BY <2>4, <3>2
    <3> QED BY <3>1, <3>2
  <2>5. ASSUME NEW d \in Cpus, \A x \in Cpus : Len(ring[x]) <= RingSize
        PROVE  Len(new[d]) <= RingSize
    <3>1. CASE d = c
      <4>1. Len(new[d]) = Len(ring[c]) + 1 /\ Len(ring[c]) \in Nat BY <2>2, <3>1
      <4> QED BY <1>2, <4>1, RingAssumption DEF Room
    <3>2. CASE d # c BY <2>5, <3>2
    <3> QED BY <3>1, <3>2
  <2> QED BY <2>1, <2>3, <2>4, <2>5
<1> QED BY <1>1, <1>2

\* Taking the head of a buffer leaves events that were there.
LEMMA TakenSeq ==
  ASSUME NEW S, ring \in [Cpus -> Seq(S)], NEW c \in Cpus, Taken(c)
  PROVE  /\ ring' \in [Cpus -> Seq(S)]
         /\ \A d \in Cpus : \A i \in DOMAIN ring'[d] :
              \E j \in DOMAIN ring[d] : ring'[d][i] = ring[d][j]
         /\ \A d \in Cpus : Len(ring'[d]) <= Len(ring[d])
<1>1. ring[c] \in Seq(S) /\ ring[c] # <<>> BY DEF Taken
<1>2. /\ Tail(ring[c]) \in Seq(S) /\ Len(Tail(ring[c])) = Len(ring[c]) - 1
      /\ \A i \in 1..Len(Tail(ring[c])) : Tail(ring[c])[i] = ring[c][i + 1]
      /\ Len(ring[c]) \in Nat /\ DOMAIN ring[c] = 1..Len(ring[c])
      /\ DOMAIN Tail(ring[c]) = 1..Len(Tail(ring[c]))
  BY <1>1
<1>3. ring' = [ring EXCEPT ![c] = Tail(@)] BY DEF Taken
<1>4. ring' \in [Cpus -> Seq(S)] BY <1>2, <1>3
<1>5. ASSUME NEW d \in Cpus
      PROVE  /\ \A i \in DOMAIN ring'[d] :
                  \E j \in DOMAIN ring[d] : ring'[d][i] = ring[d][j]
             /\ Len(ring'[d]) <= Len(ring[d])
  <2>1. CASE d = c
    <3>1. ring'[d] = Tail(ring[c]) BY <1>3, <2>1
    <3>2. ASSUME NEW i \in DOMAIN ring'[d]
          PROVE  \E j \in DOMAIN ring[d] : ring'[d][i] = ring[d][j]
      <4>1. i + 1 \in DOMAIN ring[d] /\ ring'[d][i] = ring[d][i + 1]
        BY <1>2, <2>1, <3>1, <3>2
      <4> QED BY <4>1
    <3>3. Len(ring'[d]) <= Len(ring[d]) BY <1>2, <2>1, <3>1
    <3> QED BY <3>2, <3>3
  <2>2. CASE d # c
    <3>1. ring'[d] = ring[d] BY <1>3, <2>2
    <3>2. ring[d] \in Seq(S) /\ Len(ring[d]) \in Nat OBVIOUS
    <3> QED BY <3>1, <3>2
  <2> QED BY <2>1, <2>2
<1> QED BY <1>4, <1>5

\* Empty buffers.
LEMMA EmptyRing ==
  ASSUME NEW S
  PROVE  LET r == [c \in Cpus |-> <<>>]
         IN  r \in [Cpus -> Seq(S)] /\ \A c \in Cpus : Len(r[c]) <= RingSize
<1>1. <<>> \in Seq(S) /\ Len(<<>>) = 0 OBVIOUS
<1> QED BY <1>1, RingAssumption

\* Threads that come and go leave the threads inside a call alone.
LEMMA ThreadCases ==
  ASSUME DOMAIN owner \subseteq Tids, \A t \in DOMAIN owner : owner[t] \in Pids,
         DOMAIN call \subseteq DOMAIN owner, ThreadEnds \/ ThreadStarts
  PROVE  /\ DOMAIN owner' \subseteq Tids
         /\ \A t \in DOMAIN owner' : owner'[t] \in Pids
         /\ DOMAIN call \subseteq DOMAIN owner'
         /\ \A t \in DOMAIN call : owner'[t] = owner[t]
         /\ call' = call /\ infotmp' = infotmp /\ ring' = ring
         /\ polling' = polling
<1>1. CASE ThreadEnds
  <2>1. PICK t \in Idle : owner' = Drop(owner, t) BY <1>1 DEF ThreadEnds
  <2> QED BY <1>1, <2>1 DEF Drop, ThreadEnds, Idle
<1>2. CASE ThreadStarts
  <2>1. PICK t \in Tids \ DOMAIN owner, p \in Pids : owner' = Put(owner, t, p)
    BY <1>2 DEF ThreadStarts
  <2>2. /\ DOMAIN owner' = DOMAIN owner \cup {t} /\ owner'[t] = p
        /\ \A x \in DOMAIN owner : x # t => owner'[x] = owner[x]
    BY <2>1 DEF Put
  <2> QED BY <1>2, <2>1, <2>2 DEF ThreadStarts
<1> QED BY <1>1, <1>2

-----------------------------------------------------------------------------
(* The tool. *)


\* A remainder is what is left, and a multiple leaves none.
LEMMA Remainder ==
  ASSUME NEW a \in Nat, NEW b \in Nat, b > 0
  PROVE  a % b \in 0 .. b - 1 /\ \E q \in Nat : a = b * q + (a % b)
<1>1. a \div b \in Nat /\ a = b * (a \div b) + (a % b) /\ a % b \in 0 .. b - 1
  OBVIOUS
<1> QED
  BY <1>1
LEMMA Multiple ==
  ASSUME NEW b \in Nat, b > 0, NEW q \in Int
  PROVE  (b * q + 0) % b = 0
OBVIOUS

\* An int shows its number as far as it is wide.
LEMMA ToIntShows == \A x \in Nat : Shows(ToInt(x), x)
<1> SUFFICES ASSUME NEW x \in Nat PROVE Shows(ToInt(x), x)
  OBVIOUS
<1> DEFINE w == 2 * (MaxInt + 1)
           low == x % w
<1>1. MaxInt \in Nat /\ w \in Nat /\ w > 0 /\ w = 2 * (MaxInt + 1)
  BY NumbersAssumption
<1>2. ToInt(x) = IF low > MaxInt THEN low - w ELSE low
  BY DEF ToInt
<1>3. Shows(ToInt(x), x) <=> ToInt(x) \in Ints /\ (x - ToInt(x)) % w = 0
  BY DEF Shows
<1> HIDE DEF w
<1>4. low \in 0 .. w - 1 /\ \E q \in Nat : x = w * q + low
  BY <1>1, Remainder
<1> HIDE DEF low
<1>5. PICK q \in Nat : x = w * q + low
  BY <1>4
<1>6. w * q \in Nat /\ w * (q + 1) = w * q + w
  BY <1>1
<1>7. CASE low > MaxInt
  <2>1. x - ToInt(x) = w * (q + 1) + 0
    BY <1>1, <1>2, <1>4, <1>5, <1>6, <1>7
  <2>2. (w * (q + 1) + 0) % w = 0
    BY <1>1, Multiple
  <2>3. ToInt(x) \in Ints
    BY <1>1, <1>2, <1>4, <1>7 DEF Ints
  <2> QED
    BY <1>3, <2>1, <2>2, <2>3
<1>8. CASE ~(low > MaxInt)
  <2>1. x - ToInt(x) = w * q + 0
    BY <1>1, <1>2, <1>4, <1>5, <1>6, <1>8
  <2>2. (w * q + 0) % w = 0
    BY <1>1, Multiple
  <2>3. ToInt(x) \in Ints
    BY <1>1, <1>2, <1>4, <1>8 DEF Ints
  <2> QED
    BY <1>3, <2>1, <2>2, <2>3
<1> QED
  BY <1>7, <1>8

LEMMA ToIntType == \A x \in Nat : ToInt(x) \in Ints
BY ToIntShows DEF Shows

\* The map: its entries are of threads, and there is room for them.
MapInv ==
  /\ DOMAIN infotmp \subseteq Tids /\ IsFiniteSet(DOMAIN infotmp)
  /\ Cardinality(DOMAIN infotmp) <= MapSize
  /\ \A t \in DOMAIN infotmp : infotmp[t] \in Value
  /\ DOMAIN left = DOMAIN infotmp
  /\ \A t \in DOMAIN left : left[t] \in Call /\ Passes(left[t]) /\ infotmp[t] = ValueOf(left[t])
  /\ "entry" \notin attached => DOMAIN infotmp = {}

CallsInv ==
  /\ DOMAIN owner \subseteq Tids /\ \A t \in DOMAIN owner : owner[t] \in Pids
  /\ DOMAIN call \subseteq DOMAIN owner
  /\ \A t \in DOMAIN call : call[t] \in Call /\ call[t].pid = owner[t]

\* The entry of a call that was stored is its own until it returns, since its
\* thread cannot end, and a call that nobody saw finds none; MissedOnlyIfFull with
\* it.
StoredInv ==
  \A t \in DOMAIN call :
    /\ call[t].stored => t \in DOMAIN infotmp /\ left[t] = call[t]
    /\ ~call[t].seen => t \notin DOMAIN infotmp
    /\ call[t].seen /\ Passes(call[t]) /\ ~call[t].stored =>
         t \notin DOMAIN infotmp /\ Cardinality(DOMAIN infotmp) = MapSize

TrueEvent(e) ==
  /\ e.data.pid = e.of.pid
  /\ e.data.comm = e.from.pid /\ e.from.pid \in pids
  /\ Shows(e.data.start, e.from.start) /\ Shows(e.data.length, e.from.length)
  /\ Passes(e.of) => e.from = e.of
RingInv ==
  /\ ring \in [Cpus -> Seq(Event)]
  /\ \A c \in Cpus : Len(ring[c]) <= RingSize
  /\ \A c \in Cpus : \A i \in DOMAIN ring[c] : TrueEvent(ring[c][i])

ToolInv == polling \in BOOLEAN /\ attached \subseteq Probes /\ pids \in PidFilters

Inv == MapInv /\ CallsInv /\ StoredInv /\ RingInv /\ ToolInv

LEMMA InitInv == Init => Inv
<1> SUFFICES ASSUME Init PROVE Inv
  OBVIOUS
<1>1. DOMAIN infotmp = {} /\ DOMAIN left = {} /\ DOMAIN call = {}
  BY DEF Init, KernelInit, NoEntries
<1>2. IsFiniteSet(DOMAIN infotmp) /\ Cardinality(DOMAIN infotmp) = 0
  BY <1>1, FS_EmptySet
<1>3. ring \in [Cpus -> Seq(Event)] /\ \A c \in Cpus : Len(ring[c]) <= RingSize
  BY EmptyRing DEF Init, KernelInit
<1>4. \A c \in Cpus : DOMAIN ring[c] = {}
  BY DEF Init, KernelInit
<1>5. MapInv
  BY <1>1, <1>2, NumbersAssumption DEF MapInv
<1>6. CallsInv /\ StoredInv
  BY <1>1 DEF Init, KernelInit, CallsInv, StoredInv
<1>7. RingInv
  BY <1>3, <1>4 DEF RingInv
<1>8. ToolInv
  BY DEF Init, KernelInit, ToolInv
<1> QED
  BY <1>5, <1>6, <1>7, <1>8 DEF Inv

\* The handler of sys_enter_madvise.
LEMMA EnterCases ==
  ASSUME Inv, NEW t \in Tids, Enter(t)
  PROVE  /\ t \in DOMAIN owner /\ t \notin DOMAIN call
         /\ UNCHANGED <<owner, ring, polling, attached, pids>>
         /\ \E c \in Call :
              /\ c.pid = owner[t] /\ call' = Put(call, t, c)
              /\ ValueOf(c) \in Value /\ (c.seen /\ Passes(c) /\ Fits(t) <=> c.stored)
              /\ infotmp' = IF c.stored THEN Put(infotmp, t, ValueOf(c)) ELSE infotmp
              /\ left' = IF c.stored THEN Put(left, t, c) ELSE left
              /\ c.seen <=> "entry" \in attached
<1>1. /\ t \in DOMAIN owner /\ t \notin DOMAIN call
      /\ UNCHANGED <<owner, ring, polling, attached, pids>>
  BY DEF Enter, Idle
<1>2. PICK start \in Starts, length \in Lengths :
        LET c == [pid |-> owner[t], start |-> start, length |-> length,
                  seen |-> "entry" \in attached, stored |-> FALSE]
        IN  IF c.seen /\ Passes(c) /\ Fits(t)
            THEN /\ infotmp' = Put(infotmp, t, ValueOf(c))
                 /\ call' = Put(call, t, [c EXCEPT !.stored = TRUE])
                 /\ left' = Put(left, t, [c EXCEPT !.stored = TRUE])
            ELSE /\ call' = Put(call, t, c)
                 /\ infotmp' = infotmp /\ left' = left
  BY DEF Enter
<1> DEFINE c == [pid |-> owner[t], start |-> start, length |-> length,
                 seen |-> "entry" \in attached, stored |-> FALSE]
           d == [c EXCEPT !.stored = TRUE]
<1>3. c \in Call /\ d \in Call
  <2>1. owner[t] \in Pids
    BY <1>1 DEF Inv, CallsInv
  <2>2. c \in Call
    BY <2>1 DEF Call
  <2>3. d \in Call
    BY <2>2 DEF Call
  <2> QED
    BY <2>2, <2>3
<1>4. /\ c.stored = FALSE /\ d.stored = TRUE /\ d.seen = c.seen
      /\ c.seen <=> "entry" \in attached
      /\ c.pid = owner[t] /\ d.pid = c.pid /\ d.start = c.start /\ d.length = c.length
  OBVIOUS
<1>5. c.start \in Nat /\ c.length \in Nat /\ c.pid \in Pids
  BY <1>3, NumbersAssumption DEF Call
<1> HIDE DEF c, d
<1>6. ValueOf(d) = ValueOf(c) /\ ValueOf(c) \in Value /\ Passes(d) = Passes(c)
  BY <1>4, <1>5, ToIntType DEF ValueOf, Value, Passes
<1>7. CASE c.seen /\ Passes(c) /\ Fits(t)
  <2>1. infotmp' = Put(infotmp, t, ValueOf(d)) /\ call' = Put(call, t, d) /\ left' = Put(left, t, d)
    BY <1>2, <1>6, <1>7 DEF c, d
  <2> QED
    BY <1>1, <1>3, <1>4, <1>6, <1>7, <2>1
<1>8. CASE ~(c.seen /\ Passes(c) /\ Fits(t))
  <2>1. infotmp' = infotmp /\ left' = left /\ call' = Put(call, t, c)
    BY <1>2, <1>8 DEF c
  <2> QED
    BY <1>1, <1>3, <1>4, <1>6, <1>8, <2>1
<1> QED
  BY <1>7, <1>8

LEMMA EnterInv ==
  ASSUME Inv, NEW t \in Tids, Enter(t)
  PROVE  Inv'
<1>1. /\ t \in DOMAIN owner /\ t \notin DOMAIN call
      /\ UNCHANGED <<owner, ring, polling, attached, pids>>
  BY EnterCases
<1>2. PICK c \in Call :
        /\ c.pid = owner[t] /\ call' = Put(call, t, c)
        /\ ValueOf(c) \in Value /\ (c.seen /\ Passes(c) /\ Fits(t) <=> c.stored)
        /\ infotmp' = IF c.stored THEN Put(infotmp, t, ValueOf(c)) ELSE infotmp
        /\ left' = IF c.stored THEN Put(left, t, c) ELSE left
        /\ c.seen <=> "entry" \in attached
  BY EnterCases
<1>3. /\ DOMAIN call' = DOMAIN call \cup {t} /\ call'[t] = c
      /\ \A u \in DOMAIN call : u # t /\ call'[u] = call[u]
  BY <1>1, <1>2 DEF Put
<1>4. CallsInv' /\ RingInv' /\ ToolInv'
  BY <1>1, <1>2, <1>3 DEF Inv, CallsInv, RingInv, TrueEvent, ToolInv, Passes
<1>5. IsFiniteSet(DOMAIN infotmp) /\ Cardinality(DOMAIN infotmp) \in Nat
  BY FS_CardinalityType DEF Inv, MapInv
<1>6. CASE c.stored
  <2>1. /\ DOMAIN infotmp' = DOMAIN infotmp \cup {t} /\ infotmp'[t] = ValueOf(c)
        /\ \A u \in DOMAIN infotmp \ {t} : infotmp'[u] = infotmp[u]
        /\ DOMAIN left' = DOMAIN left \cup {t} /\ left'[t] = c
        /\ \A u \in DOMAIN left \ {t} : left'[u] = left[u]
        /\ c.seen /\ Passes(c)
    BY <1>2, <1>6 DEF Put
  <2>2. /\ IsFiniteSet(DOMAIN infotmp \cup {t})
        /\ Cardinality(DOMAIN infotmp \cup {t}) =
             IF t \in DOMAIN infotmp THEN Cardinality(DOMAIN infotmp)
             ELSE Cardinality(DOMAIN infotmp) + 1
    BY <1>5, FS_AddElement
  <2>3. Cardinality(DOMAIN infotmp') <= MapSize
    BY <1>2, <1>5, <1>6, <2>1, <2>2, NumbersAssumption DEF Fits, Inv, MapInv
  <2>5. MapInv'
    <3>1. /\ \A u \in DOMAIN infotmp' : infotmp'[u] \in Value
          /\ DOMAIN left' = DOMAIN infotmp' /\ DOMAIN infotmp' \subseteq Tids
      BY <1>2, <2>1 DEF Inv, MapInv
    <3>2. ASSUME NEW u \in DOMAIN left'
          PROVE  left'[u] \in Call /\ left'[u].pid \in pids /\ infotmp'[u] = ValueOf(left'[u])
      <4>1. CASE u = t
        BY <2>1, <4>1 DEF Passes
      <4>2. CASE u # t
        <5>1. u \in DOMAIN left /\ left'[u] = left[u] /\ infotmp'[u] = infotmp[u]
          BY <2>1, <3>2, <4>2 DEF Inv, MapInv
        <5> QED
          BY <5>1 DEF Inv, MapInv, Passes
      <4> QED
        BY <4>1, <4>2
    <3> QED
      BY <1>1, <1>2, <2>1, <2>2, <2>3, <3>1, <3>2 DEF MapInv, Passes, ValueOf
  <2>6. ASSUME NEW u \in DOMAIN call', u # t
        PROVE  /\ call'[u].stored => u \in DOMAIN infotmp' /\ left'[u] = call'[u]
               /\ ~call'[u].seen => u \notin DOMAIN infotmp'
               /\ call'[u].seen /\ call'[u].pid \in pids /\ ~call'[u].stored =>
                    u \notin DOMAIN infotmp' /\ Cardinality(DOMAIN infotmp') = MapSize
    <3>1. u \in DOMAIN call /\ call'[u] = call[u]
      BY <1>3, <2>6
    <3>2. call[u].seen /\ call[u].pid \in pids /\ ~call[u].stored =>
            u \notin DOMAIN infotmp /\ Cardinality(DOMAIN infotmp) = MapSize
      BY <3>1 DEF Inv, StoredInv, Passes
    <3>3. Cardinality(DOMAIN infotmp) = MapSize => t \in DOMAIN infotmp
      BY <1>2, <1>6, NumbersAssumption DEF Fits
    <3>4. call[u].seen /\ call[u].pid \in pids /\ ~call[u].stored =>
            u \notin DOMAIN infotmp' /\ Cardinality(DOMAIN infotmp') = MapSize
      BY <2>1, <2>2, <2>6, <3>2, <3>3
    <3>5. /\ call[u].stored => u \in DOMAIN infotmp' /\ left'[u] = call[u]
          /\ ~call[u].seen => u \notin DOMAIN infotmp'
      BY <2>1, <2>6, <3>1 DEF Inv, StoredInv, MapInv
    <3> QED
      BY <3>1, <3>4, <3>5
  <2>7. StoredInv'
    BY <1>1, <1>3, <1>6, <2>1, <2>6 DEF StoredInv, Passes
  <2> QED
    BY <1>4, <2>5, <2>7 DEF Inv
<1>7. CASE ~c.stored
  <2>1. infotmp' = infotmp /\ left' = left
    BY <1>2, <1>7
  <2>2. c.seen /\ Passes(c) => t \notin DOMAIN infotmp /\ Cardinality(DOMAIN infotmp) = MapSize
    BY <1>2, <1>5, <1>7, NumbersAssumption DEF Fits, Inv, MapInv
  <2>3. MapInv'
    BY <1>1, <2>1 DEF Inv, MapInv, Passes, ValueOf
  <2>4. ~c.seen => t \notin DOMAIN infotmp
    BY <1>2 DEF Inv, MapInv
  <2>5. StoredInv'
    BY <1>1, <1>3, <1>7, <2>1, <2>2, <2>4 DEF Inv, StoredInv, Passes
  <2> QED
    BY <1>4, <2>3, <2>5 DEF Inv
<1> QED
  BY <1>6, <1>7

\* The handler of sys_exit_madvise leaves the entry where it is.
LEMMA ReturnInv ==
  ASSUME Inv, NEW t \in Tids, Return(t)
  PROVE  Inv'
<1>1. /\ t \in DOMAIN call /\ call' = Drop(call, t)
      /\ UNCHANGED <<owner, infotmp, polling, attached, pids, left>>
  BY DEF Return
<1>2. DOMAIN call' \subseteq DOMAIN call /\ \A u \in DOMAIN call' : call'[u] = call[u]
  BY <1>1 DEF Drop
<1>3. MapInv' /\ CallsInv' /\ StoredInv' /\ ToolInv'
  BY <1>1, <1>2 DEF Inv, MapInv, CallsInv, StoredInv, ToolInv, Passes, ValueOf
<1>4. CASE UNCHANGED ring
  BY <1>1, <1>3, <1>4 DEF Inv, RingInv, TrueEvent, Passes
<1>5. CASE ~UNCHANGED ring
  <2>1. t \in DOMAIN infotmp
    BY <1>5 DEF Return
  <2>2. PICK c \in Cpus, ret \in Rets : ring' = Submitted(c, EventOf(t, ret))
    BY <1>5 DEF Return
  <2>3. EventOf(t, ret) \in Event
    BY <1>1, <2>1 DEF EventOf, Event, Data, Value, Inv, MapInv, CallsInv
  <2>4. TrueEvent(EventOf(t, ret))
    <3>1. /\ left[t] \in Call /\ Passes(left[t]) /\ infotmp[t] = ValueOf(left[t])
          /\ call[t].pid = owner[t]
      BY <1>1, <2>1 DEF Inv, MapInv, CallsInv
    <3>2. Passes(call[t]) => left[t] = call[t]
      BY <1>1, <2>1 DEF Inv, StoredInv, CallsInv, Call
    <3>3. left[t].start \in Nat /\ left[t].length \in Nat
      BY <3>1, NumbersAssumption DEF Call
    <3> QED
      BY <3>1, <3>2, <3>3, ToIntShows DEF TrueEvent, EventOf, ValueOf, Passes
  <2>5. /\ ring' \in [Cpus -> Seq(Event)]
        /\ \A d \in Cpus : \A i \in DOMAIN ring'[d] :
             \/ i \in DOMAIN ring[d] /\ ring'[d][i] = ring[d][i]
             \/ ring'[d][i] = EventOf(t, ret)
        /\ \A d \in Cpus : Len(ring'[d]) <= RingSize
    <3>1. ring \in [Cpus -> Seq(Event)] /\ \A d \in Cpus : Len(ring[d]) <= RingSize
      BY DEF Inv, RingInv
    <3> HIDE DEF Inv
    <3> QED
      BY <2>2, <2>3, <3>1, SubmittedSeq
  <2>6. \A d \in Cpus : \A i \in DOMAIN ring'[d] : TrueEvent(ring'[d][i])
    BY <2>4, <2>5 DEF Inv, RingInv
  <2>7. RingInv'
    BY <1>1, <2>5, <2>6 DEF RingInv, TrueEvent, Passes
  <2> QED
    BY <1>3, <2>7 DEF Inv
<1> QED
  BY <1>4, <1>5

LEMMA ShowInv ==
  ASSUME Inv, NEW c \in Cpus, Show(c)
  PROVE  Inv'
<1>1. UNCHANGED <<owner, call, infotmp, polling, attached, pids, left>>
  BY DEF Show
<1>2. /\ ring' \in [Cpus -> Seq(Event)]
      /\ \A d \in Cpus : \A i \in DOMAIN ring'[d] :
           \E j \in DOMAIN ring[d] : ring'[d][i] = ring[d][j]
      /\ \A d \in Cpus : Len(ring'[d]) <= Len(ring[d])
  BY TakenSeq DEF Show, Inv, RingInv
<1>3. \A d \in Cpus : Len(ring'[d]) <= RingSize
  <2>1. \A d \in Cpus : Len(ring'[d]) \in Nat /\ Len(ring[d]) \in Nat
    BY <1>2 DEF Inv, RingInv
  <2> QED
    BY <1>2, <2>1, RingAssumption DEF Inv, RingInv
<1>4. \A d \in Cpus : \A i \in DOMAIN ring'[d] : TrueEvent(ring'[d][i])
  BY <1>2 DEF Inv, RingInv
<1> QED
  BY <1>1, <1>2, <1>3, <1>4
     DEF Inv, MapInv, CallsInv, StoredInv, RingInv, ToolInv, TrueEvent, Passes, ValueOf

LEMMA QuitInv ==
  ASSUME Inv, Quit
  PROVE  Inv'
<1>1. DOMAIN infotmp' = {} /\ DOMAIN left' = {} /\ ring' = [c \in Cpus |-> <<>>] /\ UNCHANGED <<owner, pids>>
  BY DEF Quit, NoEntries
<1>2. IsFiniteSet(DOMAIN infotmp') /\ Cardinality(DOMAIN infotmp') = 0
  BY <1>1, FS_EmptySet
<1>3. /\ ring' \in [Cpus -> Seq(Event)] /\ \A c \in Cpus : Len(ring'[c]) <= RingSize
      /\ \A c \in Cpus : DOMAIN ring'[c] = {}
  BY <1>1, EmptyRing
<1>4. /\ DOMAIN call' = DOMAIN call
      /\ \A t \in DOMAIN call : /\ call'[t] \in Call /\ call'[t].pid = call[t].pid
                                /\ ~call'[t].seen /\ ~call'[t].stored
  BY DEF Quit, Call, Inv, CallsInv
<1>5. MapInv' /\ RingInv'
  BY <1>1, <1>2, <1>3, NumbersAssumption DEF MapInv, RingInv
<1>6. CallsInv' /\ StoredInv'
  BY <1>1, <1>4 DEF Inv, CallsInv, StoredInv
<1>7. ToolInv'
  BY <1>1 DEF Quit, Inv, ToolInv
<1> QED
  BY <1>5, <1>6, <1>7 DEF Inv

LEMMA NextInv == Inv /\ [Next]_vars => Inv'
<1> SUFFICES ASSUME Inv, [Next]_vars PROVE Inv'
  OBVIOUS
<1> USE DEF Inv, MapInv, CallsInv, StoredInv, RingInv, ToolInv, TrueEvent, Passes, ValueOf
<1>1. ASSUME NEW p \in Probes, Attach(p) PROVE Inv'
  BY <1>1 DEF Attach
<1>2. CASE OpenPerfBuffer
  BY <1>2 DEF OpenPerfBuffer
<1>3. CASE (ThreadEnds \/ ThreadStarts) /\ UNCHANGED <<attached, pids, left>>
  BY <1>3, ThreadCases
<1>4. CASE UNCHANGED vars
  BY <1>4 DEF vars
<1> QED
  BY <1>1, <1>2, <1>3, <1>4, EnterInv, ReturnInv, ShowInv, QuitInv DEF Next

\* Every line shows, with its name and its arguments, one call of a traced process,
\* the one it is about if that is a call of a traced process.
THEOREM LinesAreTrue == Spec => []LinesTrue
<1>1. Inv => LinesTrue
  <2> SUFFICES ASSUME Inv PROVE LinesTrue
    OBVIOUS
  <2>1. TypeOK
    BY DEF Inv, MapInv, CallsInv, RingInv, ToolInv, TypeOK
  <2>2. \A e \in Pending : TrueEvent(e)
    BY DEF Inv, RingInv, Pending
  <2> QED
    BY <2>1, <2>2 DEF LinesTrue, EventsTrue, TrueEvent
<1> QED
  BY <1>1, InitInv, NextInv, PTL DEF Spec

\* A traced call is passed over only because the map is full of other threads.
THEOREM OnlyFullMapMisses == Spec => []MissedOnlyIfFull
<1>1. Inv => MissedOnlyIfFull
  BY DEF Inv, StoredInv, MissedOnlyIfFull
<1> QED
  BY <1>1, InitInv, NextInv, PTL DEF Spec
=============================================================================
