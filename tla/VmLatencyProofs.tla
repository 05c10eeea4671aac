-------------------------- MODULE VmLatencyProofs --------------------------
(***************************************************************************)
(* DemoTrue for any command line, any number of samples, any page that is  *)
(* a power of two and any durations below the wrap of a bar.  The proof    *)
(* rests on three things: arithmetic (the carry of the nanoseconds, the    *)
(* length of a bar, the offsets), the state of the pages as a function of  *)
(* the samples taken so far, and the order of the two campaigns.           *)
(***************************************************************************)
EXTENDS VmLatency, FiniteSetTheorems, WellFoundedInduction, TLAPS

-----------------------------------------------------------------------------
(* Arithmetic. *)

\* The constants, as VmAssumption has them.
LEMMA Constants ==
  /\ PageSize \in Nat /\ PageSize > 0 /\ NumPages \in Nat /\ NumPages > 0
  /\ NumSamples \in Nat /\ BarWidth \in Nat /\ BarWidth > 0
  /\ Giga \in Nat /\ Giga > 0 /\ Region \in Nat /\ Region > 0
  /\ Word \in Nat /\ Word > 8 * Region /\ Word > 0
<1>1. /\ PageSize \in Nat /\ PageSize > 0 /\ NumPages \in Nat /\ NumPages > 0
      /\ NumSamples \in Nat /\ BarWidth \in Nat /\ BarWidth > 0
      /\ Giga \in Nat /\ Giga > 0 /\ Word \in Nat /\ Word > 8 * Region
  BY VmAssumption
<1>2. Region \in Nat /\ Region > 0
  BY <1>1 DEF Region
<1> QED
  BY <1>1, <1>2

\* The quotient and the remainder of a division.
LEMMA Division ==
  ASSUME NEW a \in Int, NEW b \in Nat, b > 0
  PROVE  /\ a \div b \in Int /\ a % b \in 0 .. b - 1
         /\ a = b * (a \div b) + (a % b)
         /\ a >= 0 => a \div b \in Nat
OBVIOUS

\* They are the only ones.
LEMMA Quotient ==
  ASSUME NEW b \in Nat, b > 0, NEW q \in Int, NEW r \in 0 .. b - 1
  PROVE  (b * q + r) \div b = q /\ (b * q + r) % b = r
OBVIOUS

LEMMA QuotientGrows ==
  ASSUME NEW a \in Nat, NEW c \in Nat, a <= c, NEW b \in Nat, b > 0
  PROVE  a \div b <= c \div b
OBVIOUS

\* A sum may be wrapped once more.
LEMMA Wraps ==
  ASSUME NEW x \in Int, NEW y \in Int, NEW b \in Nat, b > 0
  PROVE  (x + (y % b)) % b = (x + y) % b
<1> DEFINE q == y \div b  a == x + (y % b)  k == a \div b  r == a % b
<1>1. q \in Int /\ y % b \in Int /\ y = b * q + (y % b) /\ a \in Int
  BY Division
<1> HIDE DEF a
<1>2. k \in Int /\ r \in 0 .. b - 1 /\ a = b * k + r
  BY <1>1, Division
<1> HIDE DEF q, k, r
<1>3. x + y = b * q + (b * k + r)
  <2>1. b * q \in Int /\ b * k \in Int
    BY <1>1, <1>2
  <2> QED
    BY <1>1, <1>2, <2>1 DEF a
<1>4. b * q + (b * k + r) = b * (q + k) + r
  BY <1>1, <1>2
<1> DEFINE p == q + k
<1>5. p \in Int
  BY <1>1, <1>2
<1> HIDE DEF p
<1>6. (b * p + r) % b = r
  BY <1>2, <1>5, Quotient
<1> QED
  BY <1>3, <1>4, <1>6 DEF p, a, r

\* The time of an access is its duration, whenever it begins.
LEMMA DiffIsElapsed ==
  ASSUME NEW t \in Nat, NEW d \in 0 .. Word - 1
  PROVE  TimespecDiff(Timespec(t), Timespec(t + d)) = d
<1> DEFINE s == t \div Giga  n == t % Giga
           u == (t + d) \div Giga  m == (t + d) % Giga
<1>1. /\ {s, n, u, m} \subseteq Nat
      /\ t = Giga * s + n /\ t + d = Giga * u + m
  BY Constants, Division
<1>2. TimespecDiff(Timespec(t), Timespec(t + d))
        = ((u - s) * Giga + ((m - n) % Word)) % Word
  BY DEF TimespecDiff, Timespec
<1> HIDE DEF s, n, u, m
<1> DEFINE x == (u - s) * Giga  y == m - n
<1>3. x \in Int /\ y \in Int /\ x + y = d
  <2>1. (u - s) * Giga = Giga * u - Giga * s
    BY <1>1, Constants
  <2>2. Giga * u \in Int /\ Giga * s \in Int
    BY <1>1, Constants
  <2>3. x = Giga * u - Giga * s
    BY <2>1
  <2> QED
    BY <1>1, <2>2, <2>3
<1> HIDE DEF x, y
<1>4. (x + (y % Word)) % Word = d % Word
  <2>1. (x + (y % Word)) % Word = (x + y) % Word
    BY <1>3, Wraps, Constants
  <2> QED
    BY <1>3, <2>1
<1>5. d % Word = d
  BY Constants
<1> QED
  BY <1>2, <1>4, <1>5 DEF x, y

\* A set of durations has a longest.
LEMMA Longest ==
  ASSUME NEW S \in SUBSET Nat, S # {}, NEW n \in Nat, \A x \in S : x <= n
  PROVE  Max(S) \in S /\ \A y \in S : Max(S) >= y
<1> DEFINE T == {n - x : x \in S}
<1>1. T \subseteq Nat /\ T # {} /\ \A x \in S : n - x \in T
  <2>1. \A x \in S : n - x \in Nat
    OBVIOUS
  <2> QED
    BY <2>1
<1>2. PICK z \in T : \A y \in T : ~(<<y, z>> \in OpToRel(<, Nat))
  BY <1>1, WFMin, NatLessThanWellFounded, Zenon
<1>3. \A y \in T : z <= y
  <2> SUFFICES ASSUME NEW y \in T, ~(z <= y) PROVE FALSE
    OBVIOUS
  <2> HIDE DEF T
  <2>1. <<y, z>> \in OpToRel(<, Nat)
    BY <1>1 DEF OpToRel
  <2> QED
    BY <1>2, <2>1
<1>4. \E x \in S : \A y \in S : x >= y
  <2>1. PICK x \in S : z = n - x
    OBVIOUS
  <2>2. ASSUME NEW y \in S PROVE x >= y
    <3>1. n - x <= n - y
      BY <1>1, <1>3, <2>1
    <3> HIDE DEF T
    <3> QED
      BY <3>1
  <2> QED
    BY <2>2
<1> QED
  BY <1>4 DEF Max

\* How the bars of two accesses compare, if the longest took max.
LEMMA Bars ==
  ASSUME NEW max \in Nat, NEW l \in 0 .. max, NEW k \in 0 .. max,
         max * BarWidth < Word, l <= k
  PROVE  /\ Bar(l, max) <= Bar(k, max) /\ (Bar(l, max) = 0) = (l = 0)
         /\ l > 0 /\ l = max => Bar(l, max) = BarWidth
<1> DEFINE raw(x) == (x * BarWidth) \div max
<1>1. ASSUME NEW x \in 0 .. max
      PROVE  x * BarWidth \in Nat /\ (x * BarWidth) % Word = x * BarWidth
  <2>1. x * BarWidth \in Nat /\ x * BarWidth <= max * BarWidth
    BY <1>1, Constants
  <2> QED
    BY <2>1, Constants
<1>2. CASE max = 0
  BY <1>2 DEF Bar
<1>3. CASE max > 0
  <2>1. ASSUME NEW x \in 0 .. max
        PROVE  /\ raw(x) \in Nat
               /\ Bar(x, max) = IF raw(x) = 0 /\ x > 0 THEN 1 ELSE raw(x)
    BY <1>1, <1>3, Division DEF Bar
  <2>2. raw(l) <= raw(k)
    <3>1. l * BarWidth <= k * BarWidth
      BY Constants
    <3> QED
      BY <1>1, <1>3, <3>1, QuotientGrows
  <2>3. raw(0) = 0 /\ raw(max) = BarWidth
    <3>1. (max * BarWidth + 0) \div max = BarWidth /\ (max * 0 + 0) \div max = 0
      BY <1>3, Constants, Quotient
    <3> QED
      BY <3>1, <1>3, Constants
  <2> HIDE DEF raw
  <2> QED
    BY <1>3, <2>1, <2>2, <2>3, Constants
<1> QED
  BY <1>2, <1>3

-----------------------------------------------------------------------------
(* The offsets. *)

Laid == [i \in 1 .. numSamples |-> ((i - 1) * Step) % Region]

\* A step is at least a byte, and the quotient if that is.
LEMMA StepIs ==
  ASSUME numSamples \in Nat, numSamples > 0
  PROVE  /\ Step \in Nat /\ Step >= 1
         /\ numSamples <= Region =>
              /\ Step = Region \div numSamples
              /\ Region = numSamples * Step + (Region % numSamples)
<1> DEFINE q == Region \div numSamples  r == Region % numSamples
<1>1. q \in Nat /\ Region = numSamples * q + r /\ r \in 0 .. numSamples - 1
  BY Constants, Division
<1>2. Step \in {q, 1} /\ \A x \in {q, 1} : Step >= x
  <2>1. {q, 1} \in SUBSET Nat /\ {q, 1} # {} /\ \A x \in {q, 1} : x <= q + 1
    BY <1>1
  <2>2. q + 1 \in Nat
    BY <1>1
  <2> HIDE DEF q
  <2>3. Step = Max({q, 1})
    BY DEF Step, q
  <2> QED
    BY <2>1, <2>2, <2>3, Longest
<1> HIDE DEF q, r
<1>3. numSamples <= Region => q >= 1
  <2>1. q = 0 => numSamples * q = 0
    OBVIOUS
  <2> QED
    BY <1>1, <2>1, Constants
<1>4. Step \in Nat /\ Step >= 1 /\ (numSamples <= Region => Step = q)
  BY <1>1, <1>2, <1>3
<1> QED
  BY <1>1, <1>4 DEF q, r

\* As long as there are bytes enough, the samples do not come round.
LEMMA OffsetIs ==
  ASSUME numSamples \in Nat, numSamples > 0, numSamples <= Region,
         NEW i \in 1 .. numSamples
  PROVE  Laid[i] = (i - 1) * Step
<1>1. /\ Step \in Nat /\ Step >= 1 /\ Region % numSamples \in Nat
      /\ Region = numSamples * Step + (Region % numSamples)
  BY StepIs, Division, Constants
<1>2. (i - 1) * Step \in Nat /\ numSamples * Step \in Nat
      /\ (i - 1) * Step < numSamples * Step
  <2>1. numSamples * Step = (i - 1) * Step + (numSamples - (i - 1)) * Step
    BY <1>1
  <2>2. (numSamples - (i - 1)) * Step > 0
    BY <1>1
  <2>3. (i - 1) * Step \in Nat /\ (numSamples - (i - 1)) * Step \in Nat
    BY <1>1
  <2> QED
    BY <2>1, <2>2, <2>3
<1> DEFINE o == (i - 1) * Step
<1>3. o \in 0 .. Region - 1
  BY <1>1, <1>2, Constants
<1>4. Laid[i] = o % Region
  BY DEF Laid
<1> HIDE DEF o
<1>5. o % Region = o
  BY <1>3, Constants
<1> QED
  BY <1>4, <1>5 DEF o

\* Then no offset is sampled twice.
LEMMA Distinct ==
  ASSUME numSamples \in Nat, numSamples > 0, numSamples <= Region
  PROVE  Cardinality(Range(Laid)) = numSamples
<1> DEFINE f == Laid  T == Range(Laid)
<1>1. DOMAIN f = 1 .. numSamples /\ f = [i \in 1 .. numSamples |-> f[i]]
  BY DEF Laid
<1>2. ASSUME NEW i \in 1 .. numSamples, NEW j \in 1 .. numSamples, f[i] = f[j]
      PROVE  i = j
  <2>1. (i - 1) * Step = (j - 1) * Step
    BY <1>2, OffsetIs
  <2>2. Step \in Nat /\ Step >= 1
    BY StepIs
  <2> QED
    BY <2>1, <2>2
<1>3. f \in Surjection(1 .. numSamples, T) /\ f \in Injection(1 .. numSamples, T)
  <2> HIDE DEF f
  <2>1. T = {f[i] : i \in 1 .. numSamples}
    BY <1>1 DEF Range, f
  <2>2. f \in [1 .. numSamples -> T]
    BY <1>1, <2>1
  <2> HIDE DEF T
  <2> QED
    BY <1>1, <1>2, <2>1, <2>2 DEF Surjection, Injection, IsInjective
<1>4. IsFiniteSet(1 .. numSamples) /\ Cardinality(1 .. numSamples) = numSamples
  BY FS_Interval
<1>5. Cardinality(T) = Cardinality(1 .. numSamples)
  <2> HIDE DEF f, T
  <2> QED
    BY <1>3, <1>4, FS_Surjection
<1> QED
  BY <1>4, <1>5

\* If the samples divide the region, they fall on its pages evenly: a page has
\* room for a whole number of steps.
LEMMA Even ==
  ASSUME numSamples \in Nat, numSamples > 0, offsets = Laid,
         Region % numSamples = 0, numSamples >= NumPages,
         NEW p \in 0 .. NumPages - 1
  PROVE  SamplesOn(p) = numSamples \div NumPages
<1> DEFINE k == PageSize \div Step
<1>1. numSamples <= Region
  <2>1. Region = numSamples * (Region \div numSamples) /\ Region \div numSamples \in Nat
    BY Constants, Division
  <2> HIDE DEF k
  <2> DEFINE q == Region \div numSamples
  <2>2. q \in Nat /\ Region = numSamples * q
    BY <2>1
  <2> HIDE DEF q
  <2>3. q # 0
    BY <2>2, Constants
  <2> QED
    BY <2>2, <2>3
<1>2. Step \in Nat /\ Step >= 1 /\ Region = numSamples * Step
  <2>1. Region = numSamples * Step + 0 /\ Step \in Nat /\ Step >= 1
    BY <1>1, StepIs
  <2> QED
    BY <2>1
<1>3. Step <= PageSize
  <2>1. numSamples * Step = PageSize * NumPages
    BY <1>2 DEF Region
  <2>2. NumPages * Step <= numSamples * Step
    BY <1>2, Constants
  <2>3. ASSUME Step > PageSize PROVE FALSE
    <3>1. NumPages * Step > NumPages * PageSize
      BY <1>2, <2>3, Constants
    <3>2. NumPages * PageSize = PageSize * NumPages /\ NumPages * Step \in Nat
          /\ PageSize * NumPages \in Nat /\ numSamples * Step \in Nat
      BY <1>2, Constants
    <3> QED
      BY <2>1, <2>2, <3>1, <3>2
  <2> QED
    BY <1>2, <2>3, Constants
<1>4. PageSize = Step * k /\ k \in Nat /\ k > 0
  <2>1. (Step * numSamples + 0) % Step = 0
    BY <1>2, Quotient
  <2>2. Region % Step = 0
    <3>1. Step * numSamples + 0 = Region
      BY <1>2
    <3> QED
      BY <2>1, <3>1
  <2>3. PageSize % Step = 0
    <3>1. Step \in 1 .. PageSize
      BY <1>2, <1>3, Constants
    <3> QED
      BY <2>2, <3>1, VmAssumption, Zenon
  <2>4. PageSize = Step * k + 0 /\ k \in Nat
    BY <1>2, <2>3, Constants, Division
  <2> HIDE DEF k
  <2>5. k # 0
    BY <1>2, <2>4, Constants
  <2> QED
    BY <1>2, <2>4, <2>5
<1> HIDE DEF k
<1>5. numSamples = NumPages * k
  <2>1. Step * numSamples = Step * (NumPages * k)
    <3>1. Step * numSamples = (Step * k) * NumPages
      BY <1>2, <1>4 DEF Region
    <3> QED
      BY <1>2, <1>4, <3>1, Constants
  <2> DEFINE m == NumPages * k
  <2>2. m \in Nat
    BY <1>4, Constants
  <2>3. Step * numSamples = Step * m
    BY <2>1
  <2> HIDE DEF m
  <2>4. numSamples = m
    BY <1>2, <2>2, <2>3
  <2> QED
    BY <2>4 DEF m
<1>6. ASSUME NEW i \in 1 .. numSamples
      PROVE  PagesOf(offsets[i]) = (i - 1) \div k
  <2> DEFINE q == (i - 1) \div k  r == (i - 1) % k
  <2>1. q \in Nat /\ r \in 0 .. k - 1 /\ i - 1 = k * q + r
    BY <1>4, Division
  <2> HIDE DEF q, r
  <2>2. offsets[i] = (i - 1) * Step
    BY <1>1, OffsetIs
  <2>3. (i - 1) * Step = PageSize * q + r * Step
    <3>1. (k * q + r) * Step = (Step * k) * q + r * Step
      BY <1>2, <1>4, <2>1
    <3> QED
      BY <1>4, <2>1, <3>1
  <2>4. r * Step \in 0 .. PageSize - 1
    <3>1. r * Step \in Nat /\ (k - r) * Step \in Nat /\ (k - r) * Step > 0
      BY <1>2, <1>4, <2>1
    <3>2. r * Step + (k - r) * Step = Step * k
      BY <1>2, <1>4, <2>1
    <3> QED
      BY <1>4, <3>1, <3>2, Constants
  <2> DEFINE x == r * Step
  <2>5. x \in 0 .. PageSize - 1 /\ offsets[i] = PageSize * q + x
    BY <2>2, <2>3, <2>4
  <2> HIDE DEF x
  <2>6. (PageSize * q + x) \div PageSize = q
    BY <2>1, <2>5, Constants, Quotient
  <2> QED
    BY <2>5, <2>6 DEF PagesOf, q
<1> DEFINE a == k * p
<1>7. a \in Nat /\ a + k <= numSamples
  <2>1. NumPages * k = a + k + (NumPages - p - 1) * k
    BY <1>4, Constants
  <2>2. a \in Nat /\ (NumPages - p - 1) * k \in Nat
    BY <1>4, Constants
  <2> QED
    BY <1>4, <1>5, <2>1, <2>2
<1>8. {i \in DOMAIN offsets : PagesOf(offsets[i]) = p} = (a + 1) .. (a + k)
  <2>1. DOMAIN offsets = 1 .. numSamples
    BY DEF Laid
  <2>2. ASSUME NEW i \in 1 .. numSamples
        PROVE  (i - 1) \div k = p <=> i \in (a + 1) .. (a + k)
    <3>1. ASSUME i \in (a + 1) .. (a + k) PROVE (i - 1) \div k = p
      <4> DEFINE r == i - 1 - a
      <4>1. r \in 0 .. k - 1 /\ i - 1 = k * p + r
        BY <1>4, <1>7, <3>1
      <4> HIDE DEF r, a
      <4>2. (k * p + r) \div k = p
        BY <1>4, <4>1, Quotient
      <4> QED
        BY <4>1, <4>2
    <3>2. ASSUME (i - 1) \div k = p PROVE i \in (a + 1) .. (a + k)
      <4>1. (i - 1) % k \in 0 .. k - 1 /\ i - 1 = k * p + ((i - 1) % k)
        BY <1>4, <3>2, Division
      <4> QED
        BY <1>4, <1>7, <4>1
    <3> QED
      BY <3>1, <3>2
  <2> HIDE DEF a
  <2>3. \A i \in 1 .. numSamples :
          PagesOf(offsets[i]) = p <=> i \in (a + 1) .. (a + k)
    BY <1>6, <2>2
  <2>4. (a + 1) .. (a + k) \subseteq 1 .. numSamples
    BY <1>4, <1>7
  <2> QED
    BY <2>1, <2>3, <2>4
<1>9. SamplesOn(p) = k
  <2> HIDE DEF a
  <2> DEFINE x == a + 1  y == a + k
  <2>2. x \in Int /\ y \in Int /\ ~(x > y) /\ y - x + 1 = k
    BY <1>4, <1>7
  <2> HIDE DEF x, y
  <2>3. Cardinality(x .. y) = k
    BY <2>2, FS_Interval
  <2> QED
    BY <1>8, <2>3 DEF SamplesOn, x, y
<1>10. (NumPages * k + 0) \div NumPages = k
  BY <1>4, Constants, Quotient
<1> QED
  BY <1>4, <1>5, <1>9, <1>10, Constants

-----------------------------------------------------------------------------
(* The invariant. *)

\* The pages the samples of a campaign have touched so far.
Covered(c) == {PagesOf(offsets[i]) : i \in 1 .. Len(lat[c])}

ArgsInv == argv \in Seq(Tokens) /\ numSamples \in Nat /\ readFirst \in BOOLEAN

TimesInv ==
  /\ lat \in [Campaigns -> Seq(Elapsed)] /\ took = lat
  /\ \A c \in Campaigns : Len(lat[c]) <= numSamples

\* Nothing is touched before the offsets are laid.
FreshInv ==
  state \in {"args", "alloc"} =>
    /\ lat = [c \in Campaigns |-> <<>>] /\ faults = [c \in Campaigns |-> {}]
    /\ page = [p \in 0 .. NumPages - 1 |-> "none"]

Measuring == state = "run" \/ Ended
OffsetsInv == Measuring => numSamples > 0 /\ offsets = Laid

\* The second campaign begins when the first is complete.
OrderInv ==
  Measuring => IF readFirst THEN Len(lat["write"]) = 0 \/ Complete("read")
               ELSE Len(lat["read"]) = 0 \/ Complete("write")

\* The pages, and the faults so far, follow from the samples taken.
PageInv ==
  Measuring =>
    /\ DOMAIN page = 0 .. NumPages - 1
    /\ \A p \in 0 .. NumPages - 1 :
         page[p] = IF p \in Covered("write") THEN "own"
                   ELSE IF p \in Covered("read") THEN "zero" ELSE "none"
    /\ DOMAIN faults = Campaigns
    /\ faults["write"] = Covered("write")
    /\ faults["read"] = IF readFirst THEN Covered("read") ELSE {}

EndInv ==
  /\ Ended => /\ state \in {"EXIT_SUCCESS", "EXIT_FAILURE"}
              /\ \A c \in Campaigns : Complete(c)
              /\ printed = [c \in Campaigns |-> Printout(c)]
  /\ state = "SIGFPE" => numSamples = 0
  /\ state = "overrun" => numSamples > Region

Inv == ArgsInv /\ TimesInv /\ FreshInv /\ OffsetsInv /\ OrderInv /\ PageInv /\ EndInv

\* It holds at the start.
LEMMA InitInv == Init => Inv
<1> SUFFICES ASSUME Init PROVE Inv
  OBVIOUS
<1>1. argv \in Seq(Tokens)
  BY DEF Init, SeqOf
<1>2. <<>> \in Seq(Elapsed) /\ Len(<<>>) = 0
  OBVIOUS
<1>3. ArgsInv /\ TimesInv
  BY <1>1, <1>2, Constants DEF Init, ArgsInv, TimesInv
<1>4. FreshInv /\ OffsetsInv /\ OrderInv /\ PageInv /\ EndInv
  BY DEF Init, FreshInv, OffsetsInv, OrderInv, PageInv, EndInv, Measuring, Ended
<1> QED
  BY <1>3, <1>4 DEF Inv

\* Sizes wrap only for more samples than the region has bytes.
LEMMA Wrapped ==
  ASSUME numSamples \in Nat, ArraySize < numSamples * 8
  PROVE  numSamples > Region
<1>1. numSamples * 8 >= Word
  <2>1. CASE numSamples * 8 < Word
    BY <2>1, Constants DEF ArraySize
  <2> QED
    BY <2>1, Constants
<1> QED
  BY <1>1, Constants

\* A sample adds its page to those of its campaign, and its duration to both
\* lists.
LEMMA SampleCases ==
  ASSUME Inv, Sample
  PROVE  \E c \in Campaigns, p \in 0 .. NumPages - 1, d \in Elapsed :
           /\ c = Running /\ ~Complete(c)
           /\ lat' = [lat EXCEPT ![c] = Append(@, d)] /\ took' = lat'
           /\ Covered(c)' = Covered(c) \cup {p}
           /\ \A e \in Campaigns : e # c => Covered(e)' = Covered(e)
           /\ page' = [page EXCEPT ![p] = Mapped(c, p)]
           /\ faults' = [faults EXCEPT ![c] = IF Faulting(c, p) THEN @ \cup {p} ELSE @]
<1>1. PICK c \in Campaigns : c = Running /\ ~Complete(c)
  <2>1. \E e \in Campaigns : ~Complete(e)
    BY DEF Sample
  <2> QED
    BY <2>1 DEF Running, Order, Campaigns
<1> DEFINE p == PagesOf(offsets[Len(lat[c]) + 1])
<1>2. /\ state = "run" /\ offsets' = offsets /\ numSamples' = numSamples
      /\ page' = [page EXCEPT ![p] = Mapped(c, p)]
      /\ faults' = [faults EXCEPT ![c] = IF Faulting(c, p) THEN @ \cup {p} ELSE @]
  BY <1>1 DEF Sample
<1>3. PICK t \in Moments, d \in Elapsed :
        /\ lat' = [lat EXCEPT ![c] =
                     Append(@, TimespecDiff(Timespec(t), Timespec(t + d)))]
        /\ took' = [took EXCEPT ![c] = Append(@, d)]
  BY <1>1 DEF Sample
<1>4. lat' = [lat EXCEPT ![c] = Append(@, d)] /\ took' = lat'
  <2>1. t \in Nat /\ d \in 0 .. Word - 1
    <3>1. t \in Nat /\ d \in Nat /\ d * BarWidth < Word
      BY VmAssumption
    <3>2. d <= d * BarWidth
      BY <3>1, Constants
    <3> QED
      BY <3>1, <3>2, Constants
  <2>2. TimespecDiff(Timespec(t), Timespec(t + d)) = d
    BY <2>1, DiffIsElapsed
  <2>3. took = lat
    BY DEF Inv, TimesInv
  <2> QED
    BY <1>3, <2>2, <2>3
<1>5. /\ lat[c] \in Seq(Elapsed) /\ Len(lat[c]) \in Nat /\ Len(lat[c]) < numSamples
      /\ \A e \in Campaigns : lat'[e] = IF e = c THEN Append(lat[c], d) ELSE lat[e]
  <2>1. lat \in [Campaigns -> Seq(Elapsed)] /\ Len(lat[c]) <= numSamples
        /\ numSamples \in Nat
    BY DEF Inv, ArgsInv, TimesInv
  <2> QED
    BY <1>1, <1>4, <2>1 DEF Complete
<1>6. p \in 0 .. NumPages - 1
  <2> DEFINE i == Len(lat[c]) + 1
  <2>1. i \in 1 .. numSamples /\ numSamples \in Nat
    BY <1>5 DEF Inv, ArgsInv
  <2>2. numSamples > 0 /\ offsets = Laid
    BY <1>2 DEF Inv, OffsetsInv, Measuring
  <2> HIDE DEF i
  <2> DEFINE n == (i - 1) * Step
  <2>3. offsets[i] = n % Region /\ n \in Int
    <3>1. Step \in Nat
      BY <2>1, <2>2, StepIs
    <3> QED
      BY <2>1, <2>2, <3>1 DEF Laid
  <2> HIDE DEF n
  <2>4. offsets[i] \in 0 .. Region - 1
    BY <2>3, Constants, Division
  <2> DEFINE o == offsets[i]
  <2>5. o \in Nat /\ o < PageSize * NumPages
    BY <2>4, Constants DEF Region
  <2> HIDE DEF o
  <2>6. o \div PageSize \in Nat /\ o = PageSize * (o \div PageSize) + (o % PageSize)
        /\ o % PageSize \in Nat
    BY <2>5, Constants, Division
  <2> DEFINE q == o \div PageSize
  <2>7. q \in Nat /\ PageSize * q < PageSize * NumPages
    <3>1. PageSize * q \in Nat
      BY <2>6, Constants
    <3> QED
      BY <2>5, <2>6, <3>1, Constants
  <2> HIDE DEF q
  <2>8. q < NumPages
    BY <2>7, Constants
  <2> QED
    BY <2>7, <2>8, Constants DEF PagesOf, q, o, i
<1>7. Covered(c)' = Covered(c) \cup {p}
  <2> DEFINE n == Len(lat[c])
  <2>1. n \in Nat /\ Covered(c) = {PagesOf(offsets[i]) : i \in 1 .. n}
    BY <1>5 DEF Covered
  <2>2. Len(lat'[c]) = n + 1
    <3>1. lat'[c] = Append(lat[c], d)
      BY <1>5
    <3> QED
      BY <1>5, <3>1
  <2>3. Covered(c)' = {PagesOf(offsets[i]) : i \in 1 .. n + 1}
    <3>1. \A e : Covered(e)' = {PagesOf(offsets[i]) : i \in 1 .. Len(lat'[e])}
      BY <1>2 DEF Covered, PagesOf
    <3> QED
      BY <2>2, <3>1
  <2>4. p = PagesOf(offsets[n + 1])
    OBVIOUS
  <2> HIDE DEF n, p
  <2>5. 1 .. n + 1 = (1 .. n) \cup {n + 1}
    BY <2>1
  <2> QED
    BY <2>1, <2>3, <2>4, <2>5
<1>8. \A e \in Campaigns : e # c => Covered(e)' = Covered(e)
  BY <1>2, <1>5 DEF Covered, PagesOf
<1> HIDE DEF p
<1> QED
  BY <1>1, <1>2, <1>4, <1>6, <1>7, <1>8

\* A sample keeps it.
LEMMA SampleInv == Inv /\ Sample => Inv'
<1> SUFFICES ASSUME Inv, Sample PROVE Inv'
  OBVIOUS
<1>1. PICK c \in Campaigns, p \in 0 .. NumPages - 1, d \in Elapsed :
        /\ c = Running /\ ~Complete(c)
        /\ lat' = [lat EXCEPT ![c] = Append(@, d)] /\ took' = lat'
        /\ Covered(c)' = Covered(c) \cup {p}
        /\ \A e \in Campaigns : e # c => Covered(e)' = Covered(e)
        /\ page' = [page EXCEPT ![p] = Mapped(c, p)]
        /\ faults' = [faults EXCEPT ![c] = IF Faulting(c, p) THEN @ \cup {p} ELSE @]
  BY SampleCases
<1>2. /\ state = "run" /\ UNCHANGED <<argv, numSamples, readFirst, offsets, printed, state>>
      /\ Measuring /\ numSamples > 0 /\ offsets = Laid
  BY DEF Sample, Inv, OffsetsInv, Measuring
<1>3. ArgsInv'
  BY <1>2 DEF Inv, ArgsInv
<1>4. /\ lat \in [Campaigns -> Seq(Elapsed)] /\ numSamples \in Nat
      /\ \A e \in Campaigns : Len(lat[e]) \in Nat /\ Len(lat[e]) <= numSamples
  <2>1. lat \in [Campaigns -> Seq(Elapsed)] /\ numSamples \in Nat
        /\ \A e \in Campaigns : Len(lat[e]) <= numSamples
    BY DEF Inv, ArgsInv, TimesInv
  <2> QED
    BY <2>1
<1>5. /\ lat'[c] = Append(lat[c], d) /\ lat'[c] \in Seq(Elapsed)
      /\ Len(lat'[c]) = Len(lat[c]) + 1
      /\ \A e \in Campaigns : e # c => lat'[e] = lat[e]
  <2>1. lat[c] \in Seq(Elapsed) /\ lat'[c] = Append(lat[c], d)
    BY <1>1, <1>4
  <2> QED
    BY <1>1, <1>4, <2>1
<1>6. TimesInv'
  <2>1. lat' \in [Campaigns -> Seq(Elapsed)]
    BY <1>1, <1>4, <1>5
  <2>2. \A e \in Campaigns : Len(lat'[e]) <= numSamples
    BY <1>1, <1>4, <1>5 DEF Complete
  <2> QED
    BY <1>1, <1>2, <2>1, <2>2 DEF TimesInv
<1>7. FreshInv' /\ OffsetsInv' /\ EndInv'
  <2>1. OffsetsInv'
    BY <1>2 DEF OffsetsInv, Measuring, Laid, Step
  <2>2. ~Ended'
    BY <1>2 DEF Inv, EndInv, Ended
  <2> QED
    BY <1>2, <2>1, <2>2 DEF FreshInv, EndInv
\* The campaign that runs is the first one, or the first one is complete.
<1>8. /\ c \in {"read", "write"}
      /\ readFirst => (c = "read" /\ Len(lat["write"]) = 0)
                      \/ (c = "write" /\ Complete("read"))
      /\ ~readFirst => (c = "write" /\ Len(lat["read"]) = 0)
                       \/ (c = "read" /\ Complete("write"))
  <2>1. c = IF readFirst THEN IF Complete("read") THEN "write" ELSE "read"
            ELSE IF Complete("write") THEN "read" ELSE "write"
    BY <1>1 DEF Running, Order
  <2> QED
    BY <1>1, <1>2, <2>1 DEF Inv, OrderInv, Campaigns
<1>9. OrderInv'
  <2>1. \A e \in Campaigns : e # c => (Complete(e)' <=> Complete(e))
                                      /\ Len(lat'[e]) = Len(lat[e])
    BY <1>2, <1>5 DEF Complete
  <2>2. "read" \in Campaigns /\ "write" \in Campaigns
    BY DEF Campaigns
  <2> QED
    BY <1>2, <1>8, <2>1, <2>2 DEF OrderInv
<1>10. PageInv'
  <2>1. /\ DOMAIN page = 0 .. NumPages - 1 /\ DOMAIN faults = Campaigns
        /\ \A q \in 0 .. NumPages - 1 :
             page[q] = IF q \in Covered("write") THEN "own"
                       ELSE IF q \in Covered("read") THEN "zero" ELSE "none"
        /\ faults["write"] = Covered("write")
        /\ faults["read"] = IF readFirst THEN Covered("read") ELSE {}
    BY <1>2 DEF Inv, PageInv
  <2>2. DOMAIN page' = 0 .. NumPages - 1 /\ DOMAIN faults' = Campaigns
    BY <1>1, <2>1
  <2>3. /\ \A q \in 0 .. NumPages - 1 :
             page'[q] = IF q = p THEN Mapped(c, p) ELSE page[q]
        /\ \A e \in Campaigns :
             faults'[e] = IF e = c /\ Faulting(c, p) THEN faults[e] \cup {p} ELSE faults[e]
    BY <1>1, <2>1
  <2>4. "read" \in Campaigns /\ "write" \in Campaigns /\ "read" # "write"
    BY DEF Campaigns
  <2>5. CASE c = "write"
    <3>1. Covered("write")' = Covered("write") \cup {p} /\ Covered("read")' = Covered("read")
      BY <1>1, <2>4, <2>5
    <3>2. Mapped(c, p) = "own" /\ (Faulting(c, p) <=> p \notin Covered("write"))
      BY <2>1, <2>5 DEF Mapped, Faulting
    <3>3. faults'["write"] = Covered("write") \cup {p}
      BY <2>1, <2>3, <2>4, <2>5, <3>2
    <3>4. faults'["read"] = faults["read"]
      BY <2>3, <2>4, <2>5
    <3>5. \A q \in 0 .. NumPages - 1 :
            page'[q] = IF q \in Covered("write") \cup {p} THEN "own"
                       ELSE IF q \in Covered("read") THEN "zero" ELSE "none"
      BY <2>1, <2>3, <3>2
    <3> QED
      BY <1>2, <2>1, <2>2, <3>1, <3>3, <3>4, <3>5 DEF PageInv
  <2>6. CASE c = "read"
    <3>1. Covered("read")' = Covered("read") \cup {p} /\ Covered("write")' = Covered("write")
      BY <1>1, <2>4, <2>6
    <3>2. Mapped(c, p) = IF p \in Covered("write") THEN "own" ELSE "zero"
      BY <2>1, <2>6 DEF Mapped
    <3>3. Faulting(c, p) <=> p \notin Covered("write") /\ p \notin Covered("read")
      BY <2>1, <2>6 DEF Faulting
    <3>4. readFirst => Covered("write") = {}
      BY <1>8, <2>6 DEF Covered
    <3>5. ~readFirst => p \in Covered("write")
      <4> SUFFICES ASSUME ~readFirst PROVE p \in Covered("write")
        OBVIOUS
      <4>1. Len(lat["write"]) = numSamples
        BY <1>8, <2>6 DEF Complete
      <4>2. p \in Covered("read")'
        BY <3>1
      <4>3. Covered("read")' = {PagesOf(offsets[i]) : i \in 1 .. Len(lat'["read"])}
        BY <1>2 DEF Covered, PagesOf
      <4>4. Len(lat'["read"]) <= numSamples /\ Len(lat'["read"]) \in Nat
        BY <1>2, <1>4, <1>5, <1>6, <2>6 DEF TimesInv
      <4>5. PICK i \in 1 .. Len(lat'["read"]) : p = PagesOf(offsets[i])
        BY <4>2, <4>3
      <4>6. i \in 1 .. Len(lat["write"])
        BY <1>4, <4>1, <4>4
      <4> QED
        BY <4>5, <4>6 DEF Covered
    <3>6. faults'["write"] = faults["write"]
      BY <2>3, <2>4, <2>6
    <3>7. faults'["read"] = IF readFirst THEN Covered("read") \cup {p} ELSE {}
      BY <2>1, <2>3, <2>4, <2>6, <3>3, <3>4, <3>5
    <3>8. \A q \in 0 .. NumPages - 1 :
            page'[q] = IF q \in Covered("write") THEN "own"
                       ELSE IF q \in Covered("read") \cup {p} THEN "zero" ELSE "none"
      BY <2>1, <2>3, <3>2
    <3> QED
      BY <1>2, <2>1, <2>2, <3>1, <3>6, <3>7, <3>8 DEF PageInv
  <2> QED
    BY <1>8, <2>5, <2>6
<1> QED
  BY <1>3, <1>6, <1>7, <1>9, <1>10 DEF Inv

\* So do the other steps.
LEMMA NextInv == Inv /\ [Next]_vars => Inv'
<1> SUFFICES ASSUME Inv, [Next]_vars PROVE Inv'
  OBVIOUS
<1>0. argv \in Seq(Tokens) /\ numSamples \in Nat /\ readFirst \in BOOLEAN
  BY DEF Inv, ArgsInv
<1>1. CASE ReadOption
  <2>1. /\ state = "args" /\ UNCHANGED <<offsets, lat, took, page, faults, printed>>
        /\ state' \in {"args", "EXIT_FAILURE"}
    BY <1>1 DEF ReadOption, Fails
  <2>2. ArgsInv'
    <3>1. CASE Len(argv) > 1
      <4>1. argv[2] \in Tokens /\ SubSeq(argv, 3, Len(argv)) \in Seq(Tokens)
        BY <1>0, <3>1
      <4>2. Strtoull(argv[2]) \in Nat
        BY <4>1, VmAssumption, Constants DEF Tokens, Strtoull
      <4>3. argv' \in Seq(Tokens)
        BY <1>0, <1>1, <4>1 DEF ReadOption, Fails
      <4>4. numSamples' \in Nat
        BY <1>0, <1>1, <4>2 DEF ReadOption, Fails
      <4>5. readFirst' \in BOOLEAN
        BY <1>0, <1>1 DEF ReadOption, Fails, Is
      <4> QED
        BY <4>3, <4>4, <4>5 DEF ArgsInv
    <3>2. CASE ~(Len(argv) > 1)
      BY <1>0, <1>1, <3>2 DEF ReadOption, Fails, ArgsInv
    <3> QED
      BY <3>1, <3>2
  <2>3. ~Ended /\ ~Ended' /\ ~Measuring' /\ lat = [c \in Campaigns |-> <<>>]
    BY <2>1 DEF Inv, EndInv, FreshInv, Ended, Measuring
  <2>4. TimesInv'
    <3>1. <<>> \in Seq(Elapsed) /\ Len(<<>>) = 0
      OBVIOUS
    <3>2. took' = lat' /\ lat' = [c \in Campaigns |-> <<>>] /\ numSamples' \in Nat
      BY <2>1, <2>2, <2>3 DEF Inv, TimesInv, ArgsInv
    <3> QED
      BY <3>1, <3>2 DEF TimesInv
  <2>5. FreshInv' /\ OffsetsInv' /\ OrderInv' /\ PageInv' /\ EndInv'
    BY <2>1, <2>3 DEF Inv, FreshInv, OffsetsInv, OrderInv, PageInv, EndInv
  <2> QED
    BY <2>2, <2>4, <2>5 DEF Inv
<1>2. CASE Allocate
  <2>1. /\ state = "args" /\ state' \in {"alloc", "EXIT_FAILURE"}
        /\ UNCHANGED <<argv, numSamples, readFirst, offsets, lat, took, page, faults, printed>>
    BY <1>2 DEF Allocate
  <2>2. ~Ended' /\ ~Measuring'
    BY <2>1 DEF Inv, EndInv, Ended, Measuring
  <2> QED
    BY <2>1, <2>2 DEF Inv, ArgsInv, TimesInv, FreshInv, OffsetsInv, OrderInv, PageInv, EndInv
<1>3. CASE BuildOffsets
  <2>1. /\ state = "alloc"
        /\ UNCHANGED <<argv, numSamples, readFirst, lat, took, page, faults, printed>>
    BY <1>3 DEF BuildOffsets
  <2>2. /\ ~Ended' /\ lat = [c \in Campaigns |-> <<>>] /\ faults = [c \in Campaigns |-> {}]
        /\ page = [p \in 0 .. NumPages - 1 |-> "none"]
    BY <2>1 DEF Inv, EndInv, FreshInv, Ended
  <2>3. ArgsInv' /\ TimesInv'
    BY <2>1 DEF Inv, ArgsInv, TimesInv
  <2>4. CASE state' = "run"
    <3>1. numSamples > 0 /\ offsets' = Laid
      BY <1>3, <2>4 DEF BuildOffsets, Laid
    <3>2. OffsetsInv' /\ FreshInv'
      BY <2>1, <2>4, <3>1 DEF OffsetsInv, FreshInv, Laid, Step
    <3>3. \A c \in Campaigns : Len(lat'[c]) = 0
      BY <2>1, <2>2
    <3>4. "read" \in Campaigns /\ "write" \in Campaigns
      BY DEF Campaigns
    <3>5. Covered("write")' = {} /\ Covered("read")' = {}
      BY <3>3, <3>4 DEF Covered
    <3>6. OrderInv' /\ PageInv'
      BY <2>1, <2>2, <3>3, <3>4, <3>5 DEF OrderInv, PageInv
    <3>7. EndInv'
      BY <2>2, <2>4 DEF EndInv
    <3> QED
      BY <2>3, <3>2, <3>6, <3>7 DEF Inv
  <2>5. CASE state' # "run"
    <3>1. ~Measuring'
      BY <2>2, <2>5 DEF Measuring
    <3>2. EndInv'
      BY <1>0, <1>3, <2>1, <2>2, <2>5, Wrapped DEF BuildOffsets, EndInv
    <3>3. state' \in {"SIGFPE", "overrun"}
      BY <1>3, <2>5 DEF BuildOffsets
    <3> QED
      BY <2>3, <3>1, <3>2, <3>3 DEF Inv, FreshInv, OffsetsInv, OrderInv, PageInv
  <2> QED
    BY <2>4, <2>5
<1>4. CASE Sample
  BY <1>4, SampleInv
<1>5. CASE ClockFails
  <2>1. /\ state = "run" /\ state' = "EXIT_FAILURE"
        /\ UNCHANGED <<argv, numSamples, readFirst, offsets, lat, took, page, faults, printed>>
    BY <1>5 DEF ClockFails
  <2>2. ~Ended' /\ ~Measuring'
    BY <2>1 DEF Inv, EndInv, Ended, Measuring
  <2> QED
    BY <2>1, <2>2 DEF Inv, ArgsInv, TimesInv, FreshInv, OffsetsInv, OrderInv, PageInv, EndInv
<1>6. CASE PrintSamples
  <2>1. /\ state = "run" /\ state' \in {"EXIT_SUCCESS", "EXIT_FAILURE"}
        /\ \A c \in Campaigns : Complete(c)
        /\ printed' = [c \in Campaigns |-> Printout(c)]
        /\ UNCHANGED <<argv, numSamples, readFirst, offsets, lat, took, page, faults>>
    BY <1>6 DEF PrintSamples
  <2>2. Measuring
    BY <2>1 DEF Measuring
  <2>3. ArgsInv' /\ TimesInv' /\ FreshInv'
    BY <2>1 DEF Inv, ArgsInv, TimesInv, FreshInv
  <2>4. OffsetsInv'
    BY <2>1, <2>2 DEF Inv, OffsetsInv, Laid, Step
  <2>5. \A c \in Campaigns : (Complete(c)' <=> Complete(c)) /\ Printout(c)' = Printout(c)
    BY <2>1 DEF Complete, Printout, Bar, PagesOf
  <2>6. EndInv'
    BY <2>1, <2>5 DEF EndInv
  <2>7. \A c : Covered(c)' = Covered(c)
    BY <2>1 DEF Covered, PagesOf
  <2>8. OrderInv' /\ PageInv'
    BY <2>1, <2>2, <2>7 DEF Inv, OrderInv, PageInv, Complete
  <2> QED
    BY <2>3, <2>4, <2>6, <2>8 DEF Inv
<1>7. CASE UNCHANGED vars
  <2>1. \A c : Covered(c)' = Covered(c) /\ Printout(c)' = Printout(c)
               /\ (Complete(c)' <=> Complete(c))
    BY <1>7 DEF vars, Covered, PagesOf, Printout, Bar, Complete
  <2>2. (Ended' <=> Ended) /\ (Measuring' <=> Measuring) /\ Laid' = Laid
    BY <1>7 DEF vars, Ended, Measuring, Laid, Step
  <2>3. UNCHANGED <<argv, numSamples, readFirst, offsets, lat, took, page, faults, printed, state>>
    BY <1>7 DEF vars
  <2>4. ArgsInv' /\ TimesInv' /\ FreshInv'
    BY <2>3 DEF Inv, ArgsInv, TimesInv, FreshInv
  <2>5. OffsetsInv' /\ OrderInv' /\ PageInv'
    BY <2>1, <2>2, <2>3 DEF Inv, OffsetsInv, OrderInv, PageInv
  <2>6. EndInv'
    BY <2>1, <2>2, <2>3 DEF Inv, EndInv
  <2> QED
    BY <2>4, <2>5, <2>6 DEF Inv
<1> QED
  BY <1>1, <1>2, <1>3, <1>4, <1>5, <1>6, <1>7 DEF Next

-----------------------------------------------------------------------------
(* The theorem. *)

\* At the end all offsets are covered.
LEMMA InvMeasured == Inv => PagesMeasured
<1> SUFFICES ASSUME Inv, Ended PROVE
        /\ faults["write"] = SampledPages
        /\ faults["read"] = IF readFirst THEN SampledPages ELSE {}
        /\ (Region % numSamples = 0 /\ numSamples >= NumPages) =>
             \A p \in 0 .. NumPages - 1 : SamplesOn(p) = numSamples \div NumPages
        /\ numSamples <= Region => Cardinality(Range(offsets)) = numSamples
  BY DEF PagesMeasured
<1>1. numSamples \in Nat /\ numSamples > 0 /\ offsets = Laid
  BY DEF Inv, ArgsInv, OffsetsInv, Measuring
<1>2. \A c \in Campaigns : Covered(c) = SampledPages
  <2>1. DOMAIN offsets = 1 .. numSamples
    BY <1>1 DEF Laid
  <2>2. \A c \in Campaigns : Len(lat[c]) = numSamples
    BY DEF Inv, EndInv, Complete
  <2> QED
    BY <2>1, <2>2 DEF Covered, SampledPages
<1>3. /\ faults["write"] = Covered("write")
      /\ faults["read"] = IF readFirst THEN Covered("read") ELSE {}
  BY DEF Inv, PageInv, Measuring
<1>4. "read" \in Campaigns /\ "write" \in Campaigns
  BY DEF Campaigns
<1>5. (Region % numSamples = 0 /\ numSamples >= NumPages) =>
         \A p \in 0 .. NumPages - 1 : SamplesOn(p) = numSamples \div NumPages
  BY <1>1, Even
<1>6. numSamples <= Region => Cardinality(Range(offsets)) = numSamples
  BY <1>1, Distinct
<1> QED
  BY <1>2, <1>3, <1>4, <1>5, <1>6

\* What is printed follows from the durations.
LEMMA InvReport == Inv => ReportTrue
<1> SUFFICES ASSUME Inv PROVE ReportTrue
  OBVIOUS
<1>1. ASSUME Ended, NEW c \in Campaigns PROVE lat[c] = took[c] /\ BarsTrue(c)
  <2> DEFINE d == took[c]  b == printed[c].bars  max == Max(Range(d))
  <2>1. took = lat /\ lat \in [Campaigns -> Seq(Elapsed)]
    BY DEF Inv, TimesInv
  <2>2. /\ printed[c].min = Min(Range(d)) /\ printed[c].max = max
        /\ b = [i \in 1 .. numSamples |-> Bar(d[i], max)]
    <3>1. printed[c] = Printout(c)
      BY <1>1 DEF Inv, EndInv
    <3> QED
      BY <2>1, <3>1 DEF Printout
  <2>3. numSamples \in Nat /\ numSamples > 0 /\ DOMAIN d = 1 .. numSamples
        /\ \A i \in 1 .. numSamples : d[i] \in Elapsed
    <3>1. Len(d) = numSamples /\ d \in Seq(Elapsed)
      BY <1>1, <2>1 DEF Inv, EndInv, Complete
    <3>2. numSamples \in Nat /\ numSamples > 0
      BY <1>1 DEF Inv, ArgsInv, OffsetsInv, Measuring
    <3> HIDE DEF d
    <3> QED
      BY <3>1, <3>2
  <2> HIDE DEF d, b
  <2>4. \A x \in Elapsed : x \in Nat /\ x * BarWidth < Word /\ x <= Word
    <3> SUFFICES ASSUME NEW x \in Elapsed
                 PROVE  x \in Nat /\ x * BarWidth < Word /\ x <= Word
      OBVIOUS
    <3>1. x \in Nat /\ x * BarWidth < Word
      BY VmAssumption
    <3>2. x <= x * BarWidth
      BY <3>1, Constants
    <3> QED
      BY <3>1, <3>2, Constants
  <2>5. max \in Range(d) /\ \A y \in Range(d) : max >= y
    <3>1. Range(d) \in SUBSET Elapsed /\ Range(d) # {}
      BY <2>3 DEF Range
    <3>2. Range(d) \in SUBSET Nat /\ Word \in Nat /\ \A y \in Range(d) : y <= Word
      BY <2>4, <3>1, Constants
    <3> DEFINE S == Range(d)
    <3> HIDE DEF S
    <3>3. Max(S) \in S /\ \A y \in S : Max(S) >= y
      BY <3>1, <3>2, Longest DEF S
    <3> QED
      BY <3>3 DEF S
  <2> HIDE DEF max
  <2>6. max \in Nat /\ max * BarWidth < Word
        /\ \A i \in 1 .. numSamples : d[i] \in 0 .. max
    <3>1. \A i \in 1 .. numSamples : d[i] \in Range(d)
      BY <2>3 DEF Range
    <3>2. max \in Elapsed
      BY <2>3, <2>5 DEF Range
    <3> QED
      BY <2>3, <2>4, <2>5, <3>1, <3>2
  <2>7. ASSUME NEW i \in DOMAIN d, NEW j \in DOMAIN d, d[i] <= d[j]
        PROVE  /\ b[i] <= b[j] /\ (b[i] = 0) = (d[i] = 0)
               /\ d[i] > 0 /\ d[i] = max => b[i] = BarWidth
    <3>1. i \in 1 .. numSamples /\ j \in 1 .. numSamples
      BY <2>3
    <3>2. b[i] = Bar(d[i], max) /\ b[j] = Bar(d[j], max)
      BY <2>2, <3>1
    <3>3. d[i] \in 0 .. max /\ d[j] \in 0 .. max
      BY <2>6, <3>1
    <3>4. /\ Bar(d[i], max) <= Bar(d[j], max) /\ (Bar(d[i], max) = 0) = (d[i] = 0)
          /\ d[i] > 0 /\ d[i] = max => Bar(d[i], max) = BarWidth
      BY <2>6, <2>7, <3>3, Bars
    <3> QED
      BY <3>2, <3>4
  <2>8. \A i \in DOMAIN d : d[i] <= d[i]
    BY <2>3, <2>6
  <2>9. /\ \A i, j \in DOMAIN d : d[i] <= d[j] => b[i] <= b[j]
        /\ \A i \in DOMAIN d : (b[i] = 0) = (d[i] = 0)
        /\ \A i \in DOMAIN d : d[i] > 0 /\ d[i] = max => b[i] = BarWidth
    BY <2>7, <2>8
  <2>10. BarsTrue(c)
    BY <2>2, <2>9 DEF BarsTrue, b, d, max
  <2> QED
    BY <2>1, <2>10
<1>2. /\ state = "SIGFPE" => numSamples = 0
      /\ state = "overrun" => numSamples > Region
  BY DEF Inv, EndInv
<1> QED
  BY <1>1, <1>2 DEF ReportTrue

\* The campaigns touch the pages they should, as often as they should, and the
\* report shows every access as long as it was.
THEOREM DemonstrationIsTrue == Spec => []DemoTrue
<1>1. Inv => DemoTrue
  BY InvMeasured, InvReport DEF DemoTrue
<1> QED
  BY <1>1, InitInv, NextInv, PTL DEF Spec
=============================================================================
