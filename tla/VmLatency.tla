----------------------------- MODULE VmLatency ------------------------------
(***************************************************************************)
(* vm_latency_demo: one process maps a few pages, touches them at evenly   *)
(* spaced offsets in a read and a write campaign, and prints the time of   *)
(* every access as a bar.  A page is mapped by its first access and        *)
(* copied by its first write: the campaigns are there to show that.        *)
(***************************************************************************)
EXTENDS Integers, Sequences, FiniteSets, Functions, SequencesExt, FiniteSetsExt

CONSTANTS
  PageSize,     \* bytes in a page
  NumPages,     \* NUM_PAGES
  NumSamples,   \* NUM_SAMPLES, the default
  BarWidth,     \* BAR_WIDTH
  Word,         \* 2^64: size_t and uint64_t wrap here
  Giga,         \* nanoseconds in a second
  Numbers,      \* what strtoull() makes of the numerals that are tried
  Moments,      \* when an access may begin, in nanoseconds
  Elapsed,      \* how long an access may take
  MaxArgs       \* bound on argc

Region == PageSize * NumPages
PagesOf(offset) == offset \div PageSize

\* Pages and their number are powers of two, and an access takes less than
\* 2^64 / BAR_WIDTH nanoseconds, eleven years.
ASSUME VmAssumption ==
  /\ {PageSize, NumPages, NumSamples, BarWidth, Giga} \subseteq Nat \ {0}
  /\ Word \in Nat /\ Word > 8 * Region
  /\ \A s \in 1 .. PageSize : Region % s = 0 => PageSize % s = 0
  /\ {NumSamples} \cup Numbers \subseteq 0 .. Word - 1 /\ Moments \subseteq Nat
  /\ \A d \in Elapsed : d \in Nat /\ d * BarWidth < Word

\* An argument is a text and the number strtoull() finds at its start.
Tokens == ({"-n", "-o", "rw", "wr", "x"} \X {0}) \cup ({"numeral"} \X Numbers)
Is(t, text) == t[1] = text
Strtoull(t) == t[2]

VARIABLES
  argv,         \* the arguments still to be read
  numSamples,   \* num_samples
  readFirst,    \* order_read_first
  offsets,      \* offsets[]
  lat,          \* per campaign, latencies_ns[] so far
  took,         \* per campaign, the true durations
  page,         \* per page: "none", "zero" (read only) or "own"
  faults,       \* per campaign, the pages that were faulted in
  printed,      \* per campaign, what print_samples() printed
  state         \* "args", "alloc", "run", "print", "done" or how it ended

vars == <<argv, numSamples, readFirst, offsets, lat, took, page, faults,
          printed, state>>
Campaigns == {"read", "write"}

Init ==
  /\ argv \in SeqOf(Tokens, MaxArgs)
  /\ numSamples = NumSamples /\ readFirst = TRUE
  /\ offsets = <<>>
  /\ lat = [c \in Campaigns |-> <<>>] /\ took = lat
  /\ page = [p \in 0 .. NumPages - 1 |-> "none"]
  /\ faults = [c \in Campaigns |-> {}]
  /\ printed = <<>>
  /\ state = "args"

-----------------------------------------------------------------------------
Fails == state' = "EXIT_FAILURE" /\ UNCHANGED <<argv, numSamples, readFirst>>

\* One turn of the loop over argv, with the argument it takes.
ReadOption ==
  /\ state = "args" /\ argv # <<>>
  /\ LET valued == Len(argv) > 1 IN
       \/ /\ Is(Head(argv), "-n") /\ valued
          /\ numSamples' = Strtoull(argv[2])
          /\ argv' = SubSeq(argv, 3, Len(argv))
          /\ UNCHANGED <<readFirst, state>>
       \/ /\ Is(Head(argv), "-o") /\ valued
          /\ Is(argv[2], "rw") \/ Is(argv[2], "wr")
          /\ readFirst' = Is(argv[2], "rw")
          /\ argv' = SubSeq(argv, 3, Len(argv))
          /\ UNCHANGED <<numSamples, state>>
       \/ /\ Is(Head(argv), "-o") /\ valued
          /\ ~(Is(argv[2], "rw") \/ Is(argv[2], "wr")) /\ Fails
       \/ /\ ~valued \/ ~(Is(Head(argv), "-n") \/ Is(Head(argv), "-o"))
          /\ Fails
  /\ UNCHANGED <<offsets, lat, took, page, faults, printed>>

\* mmap() and the five malloc()s; the size of an array wraps.
ArraySize == (numSamples * 8) % Word
Allocate ==
  /\ state = "args" /\ argv = <<>>
  /\ state' \in {"alloc", "EXIT_FAILURE"}
  /\ UNCHANGED <<argv, numSamples, readFirst, offsets, lat, took, page, faults,
                 printed>>

\* Mutants: a step of at least a page; the step is not bounded from below.
PageStep == Max({Region \div numSamples, PageSize})
Step == Max({Region \div numSamples, 1})

\* build_offsets() divides by num_samples, and fills an array that is too
\* small if its size wrapped.
BuildOffsets ==
  /\ state = "alloc"
  /\ \/ numSamples = 0 /\ state' = "SIGFPE" /\ UNCHANGED offsets
     \/ ArraySize < numSamples * 8 /\ state' = "overrun" /\ UNCHANGED offsets
     \/ /\ numSamples > 0 /\ ArraySize = numSamples * 8
        /\ offsets' = [i \in 1 .. numSamples |-> ((i - 1) * Step) % Region]
        /\ state' = "run"
  /\ UNCHANGED <<argv, numSamples, readFirst, lat, took, page, faults, printed>>

\* A time is a pair of seconds and nanoseconds.
Timespec(t) == <<t \div Giga, t % Giga>>
\* Mutant: the nanoseconds are not carried.
DiffUncarried(a, b) == (b[1] - a[1]) * Giga + Max({b[2] - a[2], 0})
TimespecDiff(a, b) == ((b[1] - a[1]) * Giga + ((b[2] - a[2]) % Word)) % Word

Order == IF readFirst THEN <<"read", "write">> ELSE <<"write", "read">>
Complete(c) == Len(lat[c]) = numSamples
\* Mutant: the campaigns always run in the default order.
DefaultRunning == IF Complete("read") THEN "write" ELSE "read"
Running == IF Complete(Order[1]) THEN Order[2] ELSE Order[1]

\* What an access finds and leaves, as the kernel does it.
Faulting(c, p) == page[p] = "none" \/ (c = "write" /\ page[p] = "zero")
Mapped(c, p) == IF c = "write" THEN "own"
                ELSE IF page[p] = "none" THEN "zero" ELSE page[p]

\* One sample of run_read_campaign() or run_write_campaign().
Sample ==
  /\ state = "run" /\ \E c \in Campaigns : ~Complete(c)
  /\ LET c == Running
         p == PagesOf(offsets[Len(lat[c]) + 1])
     IN
       /\ \E t \in Moments, d \in Elapsed :
            /\ lat' = [lat EXCEPT ![c] =
                 Append(@, TimespecDiff(Timespec(t), Timespec(t + d)))]
            /\ took' = [took EXCEPT ![c] = Append(@, d)]
       /\ page' = [page EXCEPT ![p] = Mapped(c, p)]
       /\ faults' = [faults EXCEPT ![c] = IF Faulting(c, p) THEN @ \cup {p} ELSE @]
  /\ UNCHANGED <<argv, numSamples, readFirst, offsets, printed, state>>
\* clock_gettime() fails.
ClockFails ==
  /\ state = "run" /\ \E c \in Campaigns : ~Complete(c)
  /\ state' = "EXIT_FAILURE"
  /\ UNCHANGED <<argv, numSamples, readFirst, offsets, lat, took, page, faults,
                 printed>>

\* Mutant: a short access has no bar.
BarRounded(l, max) == IF max > 0 THEN (l * BarWidth) \div max ELSE 0
Bar(l, max) == LET b == IF max > 0 THEN ((l * BarWidth) % Word) \div max ELSE 0
               IN IF b = 0 /\ l > 0 THEN 1 ELSE b

Printout(c) ==
  LET ls == Range(lat[c]) IN
    [min  |-> Min(ls), max |-> Max(ls), sum |-> SumFunction(lat[c]) % Word,
     bars |-> [i \in 1 .. numSamples |-> Bar(lat[c][i], Max(ls))],
     at   |-> [i \in 1 .. numSamples |->
                 <<PagesOf(offsets[i]), offsets[i] % PageSize>>]]

\* print_samples() twice, then munmap().
PrintSamples ==
  /\ state = "run" /\ \A c \in Campaigns : Complete(c)
  /\ printed' = [c \in Campaigns |-> Printout(c)]
  /\ state' \in {"EXIT_SUCCESS", "EXIT_FAILURE"}
  /\ UNCHANGED <<argv, numSamples, readFirst, offsets, lat, took, page, faults>>

Next == ReadOption \/ Allocate \/ BuildOffsets \/ Sample \/ ClockFails
        \/ PrintSamples
Spec == Init /\ [][Next]_vars
-----------------------------------------------------------------------------
Ended == printed # <<>>
SampledPages == {PagesOf(offsets[i]) : i \in DOMAIN offsets}
SamplesOn(p) == Cardinality({i \in DOMAIN offsets : PagesOf(offsets[i]) = p})

(***************************************************************************)
(* What the demonstration is about.  Every write campaign faults once on   *)
(* every page it samples; reads fault only if they come first.  The pages  *)
(* are sampled equally often when the number of samples divides the region *)
(* and is not below the number of pages; no offset is sampled twice before *)
(* all are.                                                                *)
(***************************************************************************)
PagesMeasured ==
  Ended =>
    /\ faults["write"] = SampledPages
    /\ faults["read"] = IF readFirst THEN SampledPages ELSE {}
    /\ (Region % numSamples = 0 /\ numSamples >= NumPages) =>
         \A p \in 0 .. NumPages - 1 : SamplesOn(p) = numSamples \div NumPages
    /\ numSamples <= Region => Cardinality(Range(offsets)) = numSamples

(***************************************************************************)
(* The report is true: the times are the durations of the accesses, the    *)
(* longest has a bar of full width, a bar is never longer than that of a   *)
(* longer access, and only an access that took no time has none.           *)
(***************************************************************************)
BarsTrue(c) ==
  LET b == printed[c].bars  d == took[c] IN
    /\ printed[c].min = Min(Range(d)) /\ printed[c].max = Max(Range(d))
    /\ \A i, j \in DOMAIN d : d[i] <= d[j] => b[i] <= b[j]
    /\ \A i \in DOMAIN d : (b[i] = 0) = (d[i] = 0)
    /\ \A i \in DOMAIN d : d[i] > 0 /\ d[i] = printed[c].max => b[i] = BarWidth
ReportTrue ==
  /\ Ended => \A c \in Campaigns : lat[c] = took[c] /\ BarsTrue(c)
  /\ state = "SIGFPE" => numSamples = 0
  /\ state = "overrun" => numSamples > Region

\* Both: the accesses are those wanted, and are shown as they were.
DemoTrue == PagesMeasured /\ ReportTrue
=============================================================================
