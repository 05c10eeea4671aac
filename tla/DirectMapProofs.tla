--------------------------- MODULE DirectMapProofs ---------------------------
(***************************************************************************)
(* Theorems about DirectMapView and the probe it uses, for any memory, any *)
(* command line, any number of other users and any bounds on them.         *)
(***************************************************************************)
EXTENDS DirectMapView, FiniteSetTheorems, TLAPS

-----------------------------------------------------------------------------
(***************************************************************************)
(* What the probe's own steps preserve, for any number of writers and      *)
(* readers.  ProbeTrue is not inductive: it does not say what the globals  *)
(* are in the middle of a look.  LooksInv does, for the one look that has  *)
(* met no other.                                                           *)
(***************************************************************************)

Places == {"idle", "input", "clear hits", "clear offset", "clear valid", "checked",
           "validate", "slab", "scan", "hits", "offset"}
CallRec == [at : Places, pfn : Nat, slot : Slots, loaded : Nat, alone : BOOLEAN]
LastRec == [input : Nat, checked : Nat, hits : Nat, offset : Nat, valid : BOOLEAN]

ProbeType ==
  /\ DOMAIN mem = Frames
  /\ {loaded, solo} \subseteq BOOLEAN
  /\ last \in LastRec
  /\ call \in [Writers -> CallRec]
  /\ \A w \in Writers : call[w].at = "checked" => call[w].pfn # 0
  /\ DOMAIN report = Readers
  /\ \A r \in Readers :
       /\ DOMAIN report[r] = {"left", "got", "clean"}
       /\ report[r].left \subseteq Globals /\ report[r].clean \in BOOLEAN
       /\ DOMAIN report[r].got = Globals \ report[r].left

\* A look that has met no other is the only one.
AloneInv ==
  \A v, w \in Writers : v # w /\ Working(v) /\ call[v].alone => ~Working(w)

\* What the globals are while a look that has met no other is at its step.
LookSoFar(c) ==
  /\ c.at # "input" => last.input = c.pfn
  /\ c.at \in {"clear offset", "clear valid", "checked", "validate", "slab", "scan",
               "hits"} => last.hits = 0
  /\ c.at \in {"checked", "validate"} => c.pfn # 0 /\ last.valid = FALSE
  /\ c.at \in {"validate", "slab", "scan", "hits", "offset"} => last.checked = c.pfn - 1
  /\ c.at \in {"slab", "scan", "hits", "offset"} =>
       c.pfn # 0 /\ last.valid = TRUE /\ c.pfn - 1 \in Frames
  /\ c.at \in {"scan", "hits", "offset"} =>
       \A s \in Slots : s > c.slot => ~Accepts(c.pfn - 1, s)
  /\ c.at = "scan" => "SLAB" \in mem[c.pfn - 1]
  /\ c.at \in {"hits", "offset"} => Accepts(c.pfn - 1, c.slot)
  /\ c.at = "hits" => c.loaded = 0
  /\ c.at = "offset" => last.hits = 1
LooksInv == \A w \in Writers : Working(w) /\ call[w].alone => LookSoFar(call[w])

SoloInv == solo => (\A w \in Writers : ~Working(w)) /\ IsLookAt(last.input, last)
LoadInv == ~loaded => \A w \in Writers : ~Working(w)

\* A clean report has read what still is.
ReportInv ==
  \A r \in Readers : report[r].clean =>
    /\ solo
    /\ \A g \in Globals \ report[r].left : report[r].got[g] = last[g]

ProbeInv ==
  ProbeType /\ AloneInv /\ LooksInv /\ SoloInv /\ LoadInv /\ ReportInv

LEMMA SlotsAreNat ==
  /\ Slots \subseteq Nat /\ 0 \in Slots
  /\ FirstSlot = 0
  /\ LastSlot \in Slots /\ \A s \in Slots : s <= LastSlot
  /\ \A s \in Slots : s # 0 => s - 1 \in Slots
<1>1. PICK n \in Nat : Slots = 0..n BY SlotsAssumption
<1>2. 0 \in Slots /\ \A s \in Slots : 0 <= s BY <1>1
<1>3. n \in Slots /\ \A s \in Slots : n >= s BY <1>1
<1>4. FirstSlot = 0
  <2>1. FirstSlot \in Slots /\ \A t \in Slots : FirstSlot <= t BY <1>2 DEF FirstSlot
  <2> QED BY <1>1, <2>1
<1>5. LastSlot \in Slots /\ \A s \in Slots : LastSlot >= s BY <1>3 DEF LastSlot
<1> QED BY <1>1, <1>2, <1>4, <1>5

LEMMA SlotOrder ==
  \A s, t \in Slots :
    /\ s > t \/ s <= t
    /\ s > t - 1 => s > t \/ s = t
    /\ s > 0 \/ s = 0
BY SlotsAssumption

\* The invariant says what the module promises.
LEMMA ProbeInvTrue == ProbeInv => ProbeTrue
<1> SUFFICES ASSUME ProbeInv PROVE ProbeTrue OBVIOUS
<1>1. LookTrue BY DEF ProbeInv, SoloInv, LookTrue
<1>2. ASSUME NEW r \in Readers, report[r].left = {}, report[r].clean
      PROVE  IsLookAt(report[r].got.input, report[r].got)
  <2>1. solo /\ \A g \in Globals : report[r].got[g] = last[g]
    BY <1>2 DEF ProbeInv, ReportInv
  <2>2. /\ report[r].got.input = last.input /\ report[r].got.checked = last.checked
        /\ report[r].got.hits = last.hits /\ report[r].got.offset = last.offset
        /\ report[r].got.valid = last.valid
    BY <2>1 DEF Globals
  <2>3. IsLookAt(last.input, last) BY <2>1 DEF ProbeInv, SoloInv
  <2> QED BY <2>2, <2>3 DEF IsLookAt
<1> QED BY <1>1, <1>2 DEF ProbeTrue, ReportTrue

LEMMA ProbeInitInv ==
  ASSUME ProbeInit, DOMAIN mem = Frames
  PROVE  ProbeInv
<1>1. Idle \in CallRec BY SlotsAreNat DEF Idle, CallRec, Places
<1>2. \A w \in Writers : ~Working(w) BY DEF ProbeInit, Working, Idle
<1>3. Zeroed \in LastRec BY DEF Zeroed, LastRec
<1>4. \A r \in Readers :
        /\ DOMAIN report[r] = {"left", "got", "clean"}
        /\ report[r].left = Globals /\ report[r].clean = FALSE
        /\ DOMAIN report[r].got = {}
  BY DEF ProbeInit, NoReport
<1>5. ProbeType BY <1>1, <1>3, <1>4 DEF ProbeInit, ProbeType, Idle
<1>6. ~solo BY DEF ProbeInit
<1> QED BY <1>2, <1>4, <1>5, <1>6
        DEF ProbeInv, AloneInv, LooksInv, SoloInv, LoadInv, ReportInv

LEMMA StutterInv ==
  ASSUME ProbeInv, UNCHANGED <<mem, probeVars>>
  PROVE  ProbeInv'
BY DEF ProbeInv, ProbeType, AloneInv, LooksInv, SoloInv, LoadInv, ReportInv, Working,
       LookSoFar, Accepts, IsLookAt, HasObject, Before, probeVars

\* A look at one frame does not notice the change of another.
LEMMA FrameInv ==
  ASSUME ProbeInv, NEW f \in Frames, NEW flags, FrameChanges(f, flags)
  PROVE  ProbeInv'
<1> USE DEF ProbeInv
<1>1. /\ DOMAIN mem' = Frames
      /\ \A g \in Frames \ {f} : mem'[g] = mem[g]
  BY DEF FrameChanges, ProbeType
<1>2. \A g \in Frames \ {f} : \A s \in Slots : Accepts(g, s)' <=> Accepts(g, s)
  BY <1>1 DEF Accepts
<1>3. loaded' = loaded /\ last' = last /\ solo' = (solo /\ last.input # f + 1)
  BY DEF FrameChanges
<1>4. ASSUME NEW w \in Writers
      PROVE  /\ call'[w] \in CallRec /\ call'[w].at = call[w].at
             /\ call'[w].pfn = call[w].pfn
             /\ call'[w].alone => call'[w] = call[w]
             /\ Working(w) /\ call'[w].alone => call[w].pfn # f + 1
  <2>1. call'[w] = IF Working(w) /\ call[w].pfn = f + 1
                   THEN [call[w] EXCEPT !.alone = FALSE] ELSE call[w]
    BY DEF FrameChanges
  <2>2. call[w] \in CallRec BY DEF ProbeType
  <2> DEFINE d == [call[w] EXCEPT !.alone = FALSE]
  <2>3. d \in CallRec /\ d.at = call[w].at /\ d.pfn = call[w].pfn /\ d.alone = FALSE
    BY <2>2 DEF CallRec
  <2> HIDE DEF d
  <2>4. CASE Working(w) /\ call[w].pfn = f + 1
    <3>1. call'[w] = d BY <2>1, <2>4 DEF d
    <3> QED BY <2>3, <3>1
  <2>5. CASE ~(Working(w) /\ call[w].pfn = f + 1)
    <3>1. call'[w] = call[w] BY <2>1, <2>5
    <3> QED BY <2>2, <2>5, <3>1
  <2> QED BY <2>4, <2>5
<1>5. call' \in [Writers -> CallRec]
  <2>1. DOMAIN call' = Writers /\ call' = [w \in Writers |-> call'[w]]
    BY DEF FrameChanges
  <2> QED BY <1>4, <2>1
<1>6. ASSUME NEW r \in Readers
      PROVE  /\ DOMAIN report'[r] = DOMAIN report[r]
             /\ report'[r].left = report[r].left /\ report'[r].got = report[r].got
             /\ report'[r].clean = (report[r].clean /\ last.input # f + 1)
  <2>1. report'[r] = [report[r] EXCEPT !.clean = @ /\ last.input # f + 1]
    BY DEF FrameChanges
  <2>2. DOMAIN report[r] = {"left", "got", "clean"} BY DEF ProbeType
  <2> QED BY <2>1, <2>2
<1>7. ProbeType'
  <2>1. DOMAIN report' = Readers BY DEF FrameChanges
  <2>2. \A r \in Readers : report[r].clean \in BOOLEAN BY DEF ProbeType
  <2>3. \A r \in Readers : report'[r].clean \in BOOLEAN BY <1>6
  <2>4. {loaded', solo'} \subseteq BOOLEAN BY <1>3 DEF ProbeType
  <2>5. \A w \in Writers : call'[w].at = "checked" => call'[w].pfn # 0
    BY <1>4 DEF ProbeType
  <2> QED BY <1>1, <1>3, <1>5, <1>6, <2>1, <2>3, <2>4, <2>5 DEF ProbeType
<1>8. AloneInv' BY <1>4 DEF AloneInv, Working
<1>9. LooksInv'
  <2> SUFFICES ASSUME NEW w \in Writers, Working(w)', call'[w].alone
               PROVE  LookSoFar(call[w])'
    BY <1>4 DEF LooksInv
  <2>1. call'[w] = call[w] /\ Working(w) /\ call[w].pfn # f + 1
    BY <1>4 DEF Working
  <2>2. call[w] \in CallRec /\ f \in Nat /\ call[w].pfn \in Nat
    BY FramesAssumption DEF ProbeType, CallRec
  <2>3. call[w].pfn - 1 # f BY <2>1, <2>2
  <2>4. LookSoFar(call[w]) BY <2>1 DEF LooksInv
  <2>5. call[w].at \in {"slab", "scan", "hits", "offset"} =>
          call[w].pfn - 1 \in Frames \ {f}
    BY <2>3, <2>4 DEF LookSoFar
  <2> DEFINE c == call[w]
  <2>6. c' = c BY <2>1
  <2>7. /\ c.at \in {"scan", "hits", "offset"} =>
             \A s \in Slots : s > c.slot => ~Accepts(c.pfn - 1, s)'
        /\ c.at = "scan" => "SLAB" \in mem'[c.pfn - 1]
    BY <1>1, <1>2, <2>4, <2>5, <2>6 DEF LookSoFar
  <2>8. c.at \in {"hits", "offset"} => Accepts(c.pfn - 1, c.slot)'
    BY <1>2, <2>2, <2>4, <2>5, <2>6 DEF LookSoFar, CallRec
  <2> QED BY <1>3, <2>1, <2>4, <2>7, <2>8 DEF LookSoFar
<1>10. SoloInv'
  <2> SUFFICES ASSUME solo'
               PROVE  (\A w \in Writers : ~Working(w)') /\ IsLookAt(last.input, last)'
    BY DEF SoloInv
  <2>1. IsLookAt(last.input, last) /\ last.input # f + 1 /\ \A w \in Writers : ~Working(w)
    BY <1>3 DEF SoloInv
  <2>2. last.input \in Nat /\ f \in Nat BY FramesAssumption DEF ProbeType, LastRec
  <2>3. last.input # 0 => last.input - 1 # f BY <2>1, <2>2
  <2>4. last.input - 1 \in Frames =>
          \A s \in Slots : Accepts(last.input - 1, s)' <=> Accepts(last.input - 1, s)
    BY <1>2, <1>3, <2>1, <2>2
  <2>5. HasObject(last.input)' <=> HasObject(last.input)
    BY <1>3, <2>4 DEF HasObject, Before
  <2>6. HasObject(last.input) => last.input - 1 \in Frames BY DEF HasObject, Before
  <2>7. HasObject(last.input) /\ IsLookAt(last.input, last) =>
          last.offset \in Slots
    BY <2>6, ObjectsAssumption DEF IsLookAt, Accepts, Before
  <2>8. IsLookAt(last.input, last)'
    <3>1. HasObject(last.input) =>
            /\ Accepts(Before(last.input), last.offset)'
            /\ \A s \in Slots : Accepts(Before(last.input), s)' => s <= last.offset
      BY <1>3, <2>1, <2>4, <2>6, <2>7 DEF IsLookAt, Before
    <3>2. last.hits = IF HasObject(last.input) THEN 1 ELSE 0 BY <2>1 DEF IsLookAt
    <3>3. /\ last.input # 0 => last.checked = Before(last.input)
          /\ last.valid = (last.input # 0 /\ Before(last.input) \in Frames)
      BY <2>1 DEF IsLookAt
    <3>4. (HasObject(last.input))' <=> HasObject(last.input) BY <2>5
    <3> HIDE DEF HasObject
    <3> QED BY <1>3, <3>1, <3>2, <3>3, <3>4 DEF IsLookAt, Before
  <2> QED BY <1>4, <2>1, <2>8 DEF Working
<1>11. LoadInv' BY <1>3, <1>4 DEF LoadInv, Working
<1>12. ReportInv' BY <1>3, <1>6 DEF ReportInv
<1> QED BY <1>7, <1>8, <1>9, <1>10, <1>11, <1>12

LEMMA ModuleInv ==
  ASSUME ProbeInv, Load \/ Unload
  PROVE  ProbeInv'
<1> USE DEF ProbeInv
<1>1. CASE Load
  <2>1. Zeroed \in LastRec BY DEF Zeroed, LastRec
  <2>2. \A w \in Writers : ~Working(w)' BY <1>1 DEF Load, LoadInv, Working
  <2>3. \A r \in Readers :
          /\ DOMAIN report'[r] = {"left", "got", "clean"}
          /\ report'[r].left = Globals /\ report'[r].clean = FALSE
          /\ DOMAIN report'[r].got = {}
    BY <1>1 DEF Load, NoReport
  <2>4. mem' = mem /\ call' = call /\ loaded' = TRUE /\ solo' = FALSE /\ last' = Zeroed
        /\ DOMAIN report' = Readers
    BY <1>1 DEF Load
  <2>5. ProbeType' BY <2>1, <2>3, <2>4 DEF ProbeType
  <2> QED BY <2>2, <2>3, <2>4, <2>5
          DEF AloneInv, LooksInv, SoloInv, LoadInv, ReportInv
<1>2. CASE Unload
  <2>1. UNCHANGED <<mem, last, call, report, solo>> /\ loaded' = FALSE
        /\ \A w \in Writers : ~Working(w)
    BY <1>2 DEF Unload
  <2> QED BY <2>1 DEF ProbeType, AloneInv, LooksInv, SoloInv, LoadInv, ReportInv, Working,
                      LookSoFar, Accepts, IsLookAt, HasObject, Before
<1> QED BY <1>1, <1>2

\* A new look disturbs every other.
LEMMA WriteInv ==
  ASSUME ProbeInv, NEW w \in Writers, NEW q \in Nat, Write(w, q)
  PROVE  ProbeInv'
<1> USE DEF ProbeInv
<1> DEFINE a == \A u \in Writers : ~Working(u)
           c == [Idle EXCEPT !.at = "input", !.pfn = q, !.alone = a]
<1>0. a \in BOOLEAN OBVIOUS
<1> HIDE DEF a
<1>1. c.at = "input" /\ c.alone = a BY DEF Idle
<1>2. c \in CallRec BY <1>0, SlotsAreNat DEF CallRec, Places, Idle
<1>3. /\ loaded /\ mem' = mem /\ last' = last /\ loaded' = loaded /\ solo' = FALSE
      /\ call' = [v \in Writers |-> IF v = w THEN c ELSE [call[v] EXCEPT !.alone = FALSE]]
      /\ report' = [r \in Readers |-> [report[r] EXCEPT !.clean = FALSE]]
  BY DEF Write, a
<1> HIDE DEF c
<1>4. ASSUME NEW v \in Writers, v # w
      PROVE  /\ call'[v] \in CallRec /\ ~call'[v].alone
             /\ call'[v].at = call[v].at /\ call'[v].pfn = call[v].pfn
  <2> DEFINE d == [call[v] EXCEPT !.alone = FALSE]
  <2>1. call'[v] = d BY <1>3, <1>4
  <2>2. call[v] \in CallRec BY DEF ProbeType
  <2>3. d \in CallRec /\ d.alone = FALSE /\ d.at = call[v].at /\ d.pfn = call[v].pfn
    BY <2>2 DEF CallRec
  <2> HIDE DEF d
  <2> QED BY <2>1, <2>3
<1>5. call'[w] = c BY <1>3
<1>6. call' \in [Writers -> CallRec]
  <2>1. \A v \in Writers : call'[v] \in CallRec BY <1>2, <1>4, <1>5
  <2>2. DOMAIN call' = Writers /\ call' = [v \in Writers |-> call'[v]] BY <1>3
  <2> QED BY <2>1, <2>2
<1>7. ASSUME NEW r \in Readers
      PROVE  /\ DOMAIN report'[r] = DOMAIN report[r]
             /\ report'[r].left = report[r].left /\ report'[r].got = report[r].got
             /\ report'[r].clean = FALSE
  <2>1. report'[r] = [report[r] EXCEPT !.clean = FALSE] BY <1>3
  <2>2. DOMAIN report[r] = {"left", "got", "clean"} BY DEF ProbeType
  <2> QED BY <2>1, <2>2
<1>8. ProbeType'
  <2>1. DOMAIN report' = Readers /\ DOMAIN mem' = Frames /\ last' \in LastRec
    BY <1>3 DEF ProbeType
  <2>2. loaded' \in BOOLEAN /\ solo' \in BOOLEAN BY <1>3 DEF ProbeType
  <2>3. \A r \in Readers :
          /\ DOMAIN report'[r] = {"left", "got", "clean"}
          /\ report'[r].left \subseteq Globals /\ report'[r].clean \in BOOLEAN
          /\ DOMAIN report'[r].got = Globals \ report'[r].left
    BY <1>7 DEF ProbeType
  <2>4. \A v \in Writers : call'[v].at = "checked" => call'[v].pfn # 0
    BY <1>1, <1>4, <1>5 DEF ProbeType
  <2> QED BY <1>6, <2>1, <2>2, <2>3, <2>4 DEF ProbeType
<1>9. AloneInv'
  <2>1. a => \A u \in Writers : call[u].at = "idle" BY DEF a, Working
  <2> QED BY <1>1, <1>4, <1>5, <2>1 DEF AloneInv, Working
<1>10. LooksInv'
  <2> SUFFICES ASSUME NEW v \in Writers, call'[v].alone PROVE LookSoFar(call[v])'
    BY DEF LooksInv
  <2>1. v = w BY <1>4
  <2> QED BY <1>1, <1>5, <2>1 DEF LookSoFar
<1>11. SoloInv' /\ LoadInv' /\ ReportInv' BY <1>3, <1>7 DEF SoloInv, LoadInv, ReportInv
<1> QED BY <1>8, <1>9, <1>10, <1>11

\* A read that nothing disturbs goes on reading the same.
LEMMA ReadInv ==
  ASSUME ProbeInv, NEW r \in Readers, Read(r)
  PROVE  ProbeInv'
<1> USE DEF ProbeInv
<1>1. PICK g \in report[r].left :
        report' = [report EXCEPT
          ![r].left = @ \ {g},
          ![r].got = [h \in DOMAIN @ \cup {g} |-> IF h = g THEN last[g] ELSE @[h]],
          ![r].clean = IF report[r].left = Globals THEN solo ELSE @]
  BY DEF Read
<1>2. UNCHANGED <<mem, loaded, last, call, solo>> BY DEF Read
<1>3. DOMAIN report[r] = {"left", "got", "clean"} /\ DOMAIN report = Readers
  BY DEF ProbeType
<1>4. /\ DOMAIN report' = Readers /\ DOMAIN report'[r] = {"left", "got", "clean"}
      /\ report'[r].left = report[r].left \ {g}
      /\ report'[r].got = [h \in DOMAIN report[r].got \cup {g} |->
                            IF h = g THEN last[g] ELSE report[r].got[h]]
      /\ report'[r].clean = IF report[r].left = Globals THEN solo ELSE report[r].clean
      /\ \A x \in Readers \ {r} : report'[x] = report[x]
  BY <1>1, <1>3
<1>5. g \in Globals /\ DOMAIN report[r].got = Globals \ report[r].left
  BY DEF ProbeType
<1>6. ProbeType'
  <2>1. report'[r].left \subseteq Globals /\ report'[r].clean \in BOOLEAN
        /\ DOMAIN report'[r].got = Globals \ report'[r].left
    BY <1>4, <1>5 DEF ProbeType
  <2> QED BY <1>2, <1>4, <2>1 DEF ProbeType
<1>7. ReportInv'
  <2> SUFFICES ASSUME NEW x \in Readers, report'[x].clean
               PROVE  /\ solo
                      /\ \A h \in Globals \ report'[x].left : report'[x].got[h] = last[h]
    BY <1>2 DEF ReportInv
  <2>1. CASE x # r BY <1>4, <2>1 DEF ReportInv
  <2>2. CASE x = r
    <3>1. solo BY <1>4, <2>2 DEF ReportInv
    <3>2. ASSUME NEW h \in Globals \ report'[r].left PROVE report'[r].got[h] = last[h]
      <4>1. h \in DOMAIN report[r].got \cup {g} BY <1>4, <1>5, <3>2
      <4>2. CASE h = g BY <1>4, <4>1, <4>2
      <4>3. CASE h # g
        <5>1. h \in Globals \ report[r].left BY <1>5, <4>1, <4>3
        <5>2. report[r].clean BY <1>4, <2>2, <5>1
        <5> QED BY <1>4, <4>1, <4>3, <5>1, <5>2 DEF ReportInv
      <4> QED BY <4>2, <4>3
    <3> QED BY <2>2, <3>1, <3>2
  <2> QED BY <2>1, <2>2
<1> QED BY <1>2, <1>6, <1>7
        DEF AloneInv, LooksInv, SoloInv, LoadInv, Working, LookSoFar, Accepts, IsLookAt,
            HasObject, Before
-----------------------------------------------------------------------------
(***************************************************************************)
(* The steps of a look.                                                    *)
(***************************************************************************)
\* A step of look w that leaves it at work: w's call becomes d.  Only w has to be
\* looked at: if it has met no other there is none, and no other is alone beside it.
LEMMA MoveInv ==
  ASSUME ProbeInv, NEW w \in Writers, Working(w), NEW d \in CallRec,
         d.at # "idle", d.alone = call[w].alone, d.at = "checked" => d.pfn # 0,
         call' = [call EXCEPT ![w] = d],
         last' \in LastRec, UNCHANGED <<mem, loaded, report, solo>>,
         d.alone => LookSoFar(d)'
  PROVE  ProbeInv'
<1> USE DEF ProbeInv
<1>1. call' \in [Writers -> CallRec] /\ call'[w] = d
      /\ \A v \in Writers \ {w} : call'[v] = call[v]
  BY DEF ProbeType
<1>2. \A v \in Writers : Working(v)' <=> Working(v) BY <1>1 DEF Working
<1>3. ~solo BY DEF SoloInv
<1>4. loaded BY DEF LoadInv
<1>5. ProbeType' BY <1>1 DEF ProbeType
<1>6. AloneInv' BY <1>1, <1>2 DEF AloneInv
<1>7. LooksInv'
  <2> SUFFICES ASSUME NEW v \in Writers, Working(v)', call'[v].alone
               PROVE  LookSoFar(call[v])'
    BY DEF LooksInv
  <2>1. v = w BY <1>1, <1>2 DEF AloneInv
  <2> QED BY <1>1, <2>1 DEF LookSoFar
<1>8. SoloInv' /\ LoadInv' /\ ReportInv'
  BY <1>3, <1>4 DEF SoloInv, LoadInv, ReportInv
<1> QED BY <1>5, <1>6, <1>7, <1>8

\* A look that ends: if it has met no other, the globals are what it found.
LEMMA EndInv ==
  ASSUME ProbeInv, NEW w \in Writers, Working(w), Ends(w),
         last' \in LastRec, UNCHANGED <<mem, loaded>>,
         call[w].alone => IsLookAt(last.input, last)'
  PROVE  ProbeInv'
<1> USE DEF ProbeInv
<1>1. Idle \in CallRec BY SlotsAreNat DEF Idle, CallRec, Places
<1>2. call' = [call EXCEPT ![w] = Idle] /\ solo' = call[w].alone /\ report' = report
  BY DEF Ends
<1>3. call' \in [Writers -> CallRec] /\ call'[w] = Idle
      /\ \A v \in Writers \ {w} : call'[v] = call[v]
  BY <1>1, <1>2 DEF ProbeType
<1>4. ~Working(w)' /\ \A v \in Writers \ {w} : Working(v)' <=> Working(v)
  BY <1>3 DEF Working, Idle
<1>5. ~solo BY DEF SoloInv
<1>6. ProbeType'
  <2>1. call[w].alone \in BOOLEAN BY DEF ProbeType, CallRec
  <2> QED BY <1>2, <1>3, <2>1 DEF ProbeType, Idle
<1>7. AloneInv' BY <1>3, <1>4 DEF AloneInv
<1>8. LooksInv'
  <2> SUFFICES ASSUME NEW v \in Writers, Working(v)', call'[v].alone PROVE FALSE
    BY DEF LooksInv
  <2>1. v # w /\ Working(v) /\ call[v].alone BY <1>3, <1>4
  <2> QED BY <2>1 DEF AloneInv
<1>9. SoloInv'
  <2> SUFFICES ASSUME solo'
               PROVE  (\A v \in Writers : ~Working(v)') /\ IsLookAt(last.input, last)'
    BY DEF SoloInv
  <2>1. call[w].alone BY <1>2
  <2> QED BY <1>4, <2>1 DEF AloneInv
<1>10. LoadInv' BY DEF LoadInv
<1>11. ReportInv' BY <1>2, <1>5 DEF ReportInv
<1> QED BY <1>6, <1>7, <1>8, <1>9, <1>10, <1>11

\* A step that moves on, and sets one global or none.
LEMMA StepInv ==
  ASSUME ProbeInv, NEW w \in Writers, NEW from \in Places, NEW to \in Places,
         from # "idle", to # "idle", Steps(w, from, to),
         to = "checked" => call[w].pfn # 0,
         last' \in LastRec, UNCHANGED <<mem, loaded>>,
         NEW d, d = [call[w] EXCEPT !.at = to],
         d.alone => LookSoFar(d)'
  PROVE  ProbeInv'
<1>1. call[w].at = from /\ call' = [call EXCEPT ![w] = d] /\ UNCHANGED <<report, solo>>
  BY DEF Steps, ProbeInv, ProbeType
<1>2. call[w] \in CallRec BY DEF ProbeInv, ProbeType
<1>3. d \in CallRec /\ d.at = to /\ d.alone = call[w].alone /\ d.pfn = call[w].pfn
  BY <1>2 DEF CallRec
<1>4. Working(w) BY <1>1 DEF Working
<1> QED BY <1>1, <1>3, <1>4, MoveInv

\* The record of the next step, and what setting a global leaves.
LEMMA StepRec ==
  ASSUME ProbeInv, NEW w \in Writers, NEW to \in Places
  PROVE  \E d \in CallRec :
           /\ d = [call[w] EXCEPT !.at = to]
           /\ d.at = to /\ d.pfn = call[w].pfn /\ d.slot = call[w].slot
           /\ d.loaded = call[w].loaded /\ d.alone = call[w].alone
<1> DEFINE d == [call[w] EXCEPT !.at = to]
<1>1. call[w] \in CallRec BY DEF ProbeInv, ProbeType
<1>2. /\ d.at = to /\ d.pfn = call[w].pfn /\ d.slot = call[w].slot
      /\ d.loaded = call[w].loaded /\ d.alone = call[w].alone
      /\ d \in CallRec
  BY <1>1 DEF CallRec
<1> HIDE DEF d
<1>3. d = [call[w] EXCEPT !.at = to] BY DEF d
<1> QED BY <1>2, <1>3

LEMMA SetsRec ==
  ASSUME ProbeInv
  PROVE  /\ \A v \in Nat :
              /\ Sets("input", v) => /\ last' \in LastRec /\ last'.input = v
                                     /\ last'.checked = last.checked
                                     /\ last'.hits = last.hits
                                     /\ last'.offset = last.offset
                                     /\ last'.valid = last.valid
              /\ Sets("checked", v) => /\ last' \in LastRec /\ last'.checked = v
                                       /\ last'.input = last.input
                                       /\ last'.hits = last.hits
                                       /\ last'.offset = last.offset
                                       /\ last'.valid = last.valid
              /\ Sets("hits", v) => /\ last' \in LastRec /\ last'.hits = v
                                    /\ last'.checked = last.checked
                                    /\ last'.input = last.input
                                    /\ last'.offset = last.offset
                                    /\ last'.valid = last.valid
              /\ Sets("offset", v) => /\ last' \in LastRec /\ last'.offset = v
                                      /\ last'.checked = last.checked
                                      /\ last'.hits = last.hits
                                      /\ last'.input = last.input
                                      /\ last'.valid = last.valid
         /\ \A v \in BOOLEAN :
              Sets("valid", v) => /\ last' \in LastRec /\ last'.valid = v
                                  /\ last'.checked = last.checked
                                  /\ last'.hits = last.hits
                                  /\ last'.offset = last.offset
                                  /\ last'.input = last.input
BY DEF ProbeInv, ProbeType, LastRec, Sets

LEMMA LookInv ==
  ASSUME ProbeInv, NEW w \in Writers, LookStep(w)
  PROVE  ProbeInv'
<1>0. /\ UNCHANGED <<mem, loaded>> /\ ProbeType
      /\ call[w] \in CallRec /\ call[w].pfn \in Nat /\ call[w].slot \in Slots
      /\ call[w].loaded \in Nat /\ last \in LastRec /\ last.hits \in Nat
  BY DEF LookStep, ProbeInv, ProbeType, CallRec, LastRec
<1>1. call[w].at # "idle" /\ call[w].alone => LookSoFar(call[w])
  BY DEF ProbeInv, LooksInv, Working
<1>2. \A g, s : Accepts(g, s)' <=> Accepts(g, s) BY <1>0 DEF Accepts
<1>4. Places = {"idle", "input", "clear hits", "clear offset", "clear valid", "checked",
                "validate", "slab", "scan", "hits", "offset"}
  BY DEF Places
<1>3. PICK p \in Nat, k \in Slots : call[w].pfn = p /\ call[w].slot = k BY <1>0
<1> DEFINE Moved(d, to) ==
      /\ d = [call[w] EXCEPT !.at = to]
      /\ d.at = to /\ d.pfn = call[w].pfn /\ d.slot = call[w].slot
      /\ d.loaded = call[w].loaded /\ d.alone = call[w].alone
<1>5. CASE SetInput(w)
  <2>1. call[w].at = "input" /\ Steps(w, "input", "clear hits") /\ Sets("input", call[w].pfn)
    BY <1>5 DEF SetInput, Steps
  <2>2. last' \in LastRec /\ last'.input = call[w].pfn
    BY <1>0, <2>1, SetsRec
  <2>3. PICK d \in CallRec : Moved(d, "clear hits") BY <1>4, StepRec
  <2>4. d.alone => LookSoFar(d)' BY <1>1, <2>1, <2>2, <2>3 DEF LookSoFar
  <2> QED BY <1>0, <1>4, <2>1, <2>2, <2>3, <2>4, StepInv
<1>6. CASE ClearHits(w)
  <2>1. call[w].at = "clear hits" /\ Steps(w, "clear hits", "clear offset") /\ Sets("hits", 0)
    BY <1>6 DEF ClearHits, Steps
  <2>2. last' \in LastRec /\ last'.hits = 0 /\ last'.input = last.input
    BY <1>0, <2>1, SetsRec
  <2>3. PICK d \in CallRec : Moved(d, "clear offset") BY <1>4, StepRec
  <2>4. d.alone => LookSoFar(d)' BY <1>1, <2>1, <2>2, <2>3 DEF LookSoFar
  <2> QED BY <1>0, <1>4, <2>1, <2>2, <2>3, <2>4, StepInv
<1>7. CASE ClearOffset(w)
  <2>1. call[w].at = "clear offset" /\ Steps(w, "clear offset", "clear valid") /\ Sets("offset", 0)
    BY <1>7 DEF ClearOffset, Steps
  <2>2. last' \in LastRec /\ last'.hits = last.hits /\ last'.input = last.input
    BY <1>0, <2>1, SetsRec
  <2>3. PICK d \in CallRec : Moved(d, "clear valid") BY <1>4, StepRec
  <2>4. d.alone => LookSoFar(d)' BY <1>1, <2>1, <2>2, <2>3 DEF LookSoFar
  <2> QED BY <1>0, <1>4, <2>1, <2>2, <2>3, <2>4, StepInv
<1>8. CASE ClearValid(w)
  <2>1. call[w].at = "clear valid" /\ Sets("valid", FALSE)
    BY <1>8 DEF ClearValid, Steps
  <2>2. last' \in LastRec /\ last'.valid = FALSE /\ last'.hits = last.hits
        /\ last'.input = last.input
    BY <2>1, SetsRec
  <2>3. CASE call[w].pfn # 0
    <3>1. Steps(w, "clear valid", "checked") BY <1>8, <2>3 DEF ClearValid
    <3>2. PICK d \in CallRec : Moved(d, "checked") BY <1>4, StepRec
    <3>3. d.alone => LookSoFar(d)' BY <1>1, <2>1, <2>2, <2>3, <3>2 DEF LookSoFar
    <3> QED BY <1>0, <1>4, <2>2, <2>3, <3>1, <3>2, <3>3, StepInv
  <2>4. CASE call[w].pfn = 0
    <3>1. Ends(w) /\ Working(w) BY <1>8, <2>1, <2>4 DEF ClearValid, Working
    <3>2. ASSUME call[w].alone PROVE IsLookAt(last.input, last)'
      <4>1. last.input = 0 /\ last.hits = 0
        BY <1>1, <2>1, <2>4, <3>2 DEF LookSoFar
      <4> QED BY <2>2, <4>1 DEF IsLookAt, HasObject
    <3> QED BY <1>0, <2>2, <3>1, <3>2, EndInv
  <2> QED BY <2>3, <2>4
<1>9. CASE SetChecked(w)
  <2>1. call[w].at = "checked" /\ Steps(w, "checked", "validate")
        /\ Sets("checked", call[w].pfn - 1)
    BY <1>9 DEF SetChecked, Steps
  <2>2. call[w].pfn # 0 /\ call[w].pfn - 1 \in Nat BY <1>0, <2>1 DEF ProbeType
  <2>3. last' \in LastRec /\ last'.checked = call[w].pfn - 1 /\ last'.hits = last.hits
        /\ last'.input = last.input /\ last'.valid = last.valid
    BY <2>1, <2>2, SetsRec
  <2>4. PICK d \in CallRec : Moved(d, "validate") BY <1>4, StepRec
  <2>5. d.alone => LookSoFar(d)' BY <1>1, <2>1, <2>3, <2>4 DEF LookSoFar
  <2> QED BY <1>0, <1>4, <2>1, <2>3, <2>4, <2>5, StepInv
<1>10. CASE Validate(w)
  <2>1. call[w].at = "validate" BY <1>10 DEF Validate, Steps
  <2>2. CASE call[w].pfn - 1 \in Frames
    <3>1. Steps(w, "validate", "slab") /\ Sets("valid", TRUE) BY <1>10, <2>2 DEF Validate
    <3>2. last' \in LastRec /\ last'.valid = TRUE /\ last'.hits = last.hits
          /\ last'.input = last.input /\ last'.checked = last.checked
      BY <3>1, SetsRec
    <3>3. PICK d \in CallRec : Moved(d, "slab") BY <1>4, StepRec
    <3>4. d.alone => LookSoFar(d)' BY <1>1, <2>1, <2>2, <3>2, <3>3 DEF LookSoFar
    <3> QED BY <1>0, <1>4, <3>1, <3>2, <3>3, <3>4, StepInv
  <2>3. CASE call[w].pfn - 1 \notin Frames
    <3>1. Ends(w) /\ Working(w) /\ last' = last BY <1>10, <2>1, <2>3 DEF Validate, Working
    <3>2. ASSUME call[w].alone PROVE IsLookAt(last.input, last)'
      <4>1. /\ last.input = call[w].pfn /\ last.hits = 0 /\ last.valid = FALSE
            /\ last.checked = call[w].pfn - 1
        BY <1>1, <2>1, <3>2 DEF LookSoFar
      <4> QED BY <2>3, <3>1, <4>1 DEF IsLookAt, HasObject, Before
    <3> QED BY <1>0, <3>1, <3>2, EndInv
  <2> QED BY <2>2, <2>3
<1>11. CASE PageSlab(w)
  <2>1. call[w].at = "slab" /\ last' = last BY <1>11 DEF PageSlab
  <2>2. CASE "SLAB" \in mem[call[w].pfn - 1]
    <3> DEFINE e == [call[w] EXCEPT !.at = "scan", !.slot = LastSlot]
    <3>1. e \in CallRec /\ e.at = "scan" /\ e.slot = LastSlot /\ e.pfn = call[w].pfn
          /\ e.alone = call[w].alone
      BY <1>0, <1>4, SlotsAreNat DEF CallRec
    <3>2. call' = [call EXCEPT ![w] = e] /\ UNCHANGED <<report, solo>>
      BY <1>0, <1>11, <2>2 DEF PageSlab, ProbeType
    <3> HIDE DEF e
    <3>3. PICK d \in CallRec : d = e BY <3>1
    <3>4. \A s \in Slots : ~(s > LastSlot) BY SlotsAreNat
    <3>5. d.alone => LookSoFar(d)'
      BY <1>0, <1>1, <2>1, <2>2, <3>1, <3>3, <3>4 DEF LookSoFar
    <3> QED BY <1>0, <2>1, <3>1, <3>2, <3>3, <3>5, MoveInv DEF Working
  <2>3. CASE "SLAB" \notin mem[call[w].pfn - 1]
    <3>1. Ends(w) /\ Working(w) BY <1>11, <2>1, <2>3 DEF PageSlab, Working
    <3>2. ASSUME call[w].alone PROVE IsLookAt(last.input, last)'
      <4>1. /\ last.input = p /\ last.hits = 0 /\ last.valid = TRUE
            /\ last.checked = p - 1 /\ p # 0 /\ p - 1 \in Frames
        BY <1>1, <1>3, <2>1, <3>2 DEF LookSoFar
      <4>2. \A s : ~Accepts(p - 1, s)' BY <1>0, <1>3, <2>3 DEF Accepts
      <4> QED BY <2>1, <4>1, <4>2 DEF IsLookAt, HasObject, Before
    <3> QED BY <1>0, <2>1, <3>1, <3>2, EndInv
  <2> QED BY <2>2, <2>3
<1>12. CASE Scan(w)
  <2>1. call[w].at = "scan" /\ last' = last BY <1>12 DEF Scan
  <2>2. CASE Accepts(call[w].pfn - 1, call[w].slot)
    <3> DEFINE e == [call[w] EXCEPT !.at = "hits", !.loaded = last.hits]
    <3>1. e \in CallRec /\ e.at = "hits" /\ e.slot = call[w].slot /\ e.pfn = call[w].pfn
          /\ e.alone = call[w].alone /\ e.loaded = last.hits
      BY <1>0, <1>4 DEF CallRec
    <3>2. call' = [call EXCEPT ![w] = e] /\ UNCHANGED <<report, solo>>
      BY <1>0, <1>12, <2>2 DEF Scan, ProbeType
    <3> HIDE DEF e
    <3>3. PICK d \in CallRec : d = e BY <3>1
    <3>4. d.alone => LookSoFar(d)'
      BY <1>0, <1>1, <1>2, <2>1, <2>2, <3>1, <3>3 DEF LookSoFar
    <3> QED BY <1>0, <2>1, <3>1, <3>2, <3>3, <3>4, MoveInv DEF Working
  <2>3. CASE ~Accepts(call[w].pfn - 1, call[w].slot) /\ call[w].slot # FirstSlot
    <3> DEFINE e == [call[w] EXCEPT !.slot = call[w].slot - 1]
    <3>0. call[w].slot - 1 \in Slots BY <1>0, <2>3, SlotsAreNat
    <3>1. e \in CallRec /\ e.at = "scan" /\ e.slot = call[w].slot - 1
          /\ e.pfn = call[w].pfn /\ e.alone = call[w].alone
      BY <1>0, <1>4, <2>1, <3>0 DEF CallRec
    <3>2. call' = [call EXCEPT ![w] = e] /\ UNCHANGED <<report, solo>>
      BY <1>0, <1>12, <2>3 DEF Scan, ProbeType
    <3> HIDE DEF e
    <3>3. PICK d \in CallRec : d = e BY <3>1
    <3>4. \A s \in Slots : s > call[w].slot - 1 => s > call[w].slot \/ s = call[w].slot
      BY <1>0, SlotOrder
    <3>5. d.alone => LookSoFar(d)'
      BY <1>0, <1>1, <1>2, <2>1, <2>3, <3>1, <3>3, <3>4 DEF LookSoFar
    <3> QED BY <1>0, <2>1, <3>1, <3>2, <3>3, <3>5, MoveInv DEF Working
  <2>4. CASE ~Accepts(call[w].pfn - 1, call[w].slot) /\ call[w].slot = FirstSlot
    <3>1. Ends(w) /\ Working(w) BY <1>12, <2>1, <2>4 DEF Scan, Working
    <3>2. ASSUME call[w].alone PROVE IsLookAt(last.input, last)'
      <4>1. /\ last.input = p /\ last.hits = 0 /\ last.valid = TRUE
            /\ last.checked = p - 1 /\ p # 0 /\ p - 1 \in Frames
            /\ \A s \in Slots : s > k => ~Accepts(p - 1, s)
        BY <1>1, <1>3, <2>1, <3>2 DEF LookSoFar
      <4>2. \A s \in Slots : s > k \/ s = k
        BY <1>3, <2>4, SlotsAreNat, SlotOrder
      <4>3. \A s \in Slots : ~Accepts(p - 1, s)'
        BY <1>2, <1>3, <2>4, <4>1, <4>2
      <4> QED BY <2>1, <4>1, <4>3 DEF IsLookAt, HasObject, Before
    <3> QED BY <1>0, <2>1, <3>1, <3>2, EndInv
  <2> QED BY <2>2, <2>3, <2>4
<1>13. CASE CountHit(w)
  <2>1. call[w].at = "hits" /\ Steps(w, "hits", "offset")
        /\ Sets("hits", call[w].loaded + 1)
    BY <1>13 DEF CountHit, Steps
  <2>2. call[w].loaded + 1 \in Nat BY <1>0
  <2>3. last' \in LastRec /\ last'.hits = call[w].loaded + 1
        /\ last'.input = last.input /\ last'.valid = last.valid
        /\ last'.checked = last.checked
    BY <2>1, <2>2, SetsRec
  <2>4. PICK d \in CallRec : Moved(d, "offset") BY <1>4, StepRec
  <2>5. d.alone => LookSoFar(d)' BY <1>0, <1>1, <1>2, <2>1, <2>3, <2>4 DEF LookSoFar
  <2> QED BY <1>0, <1>4, <2>1, <2>3, <2>4, <2>5, StepInv
<1>14. CASE SetOffset(w)
  <2>1. call[w].at = "offset" /\ Sets("offset", call[w].slot) /\ Ends(w) /\ Working(w)
    BY <1>14 DEF SetOffset, Working
  <2>2. call[w].slot \in Nat BY <1>0, SlotsAreNat
  <2>3. last' \in LastRec /\ last'.offset = call[w].slot /\ last'.hits = last.hits
        /\ last'.input = last.input /\ last'.valid = last.valid
        /\ last'.checked = last.checked
    BY <2>1, <2>2, SetsRec
  <2>4. ASSUME call[w].alone PROVE IsLookAt(last.input, last)'
    <3>1. /\ last.input = p /\ last.hits = 1 /\ last.valid = TRUE
          /\ last.checked = p - 1 /\ p # 0 /\ p - 1 \in Frames /\ Accepts(p - 1, k)
          /\ \A s \in Slots : s > k => ~Accepts(p - 1, s)
      BY <1>1, <1>3, <2>1, <2>4 DEF LookSoFar
    <3>2. \A s \in Slots : s > k \/ s <= k BY SlotOrder
    <3>3. last'.offset = k BY <1>3, <2>3
    <3>4. Accepts(p - 1, k)' /\ \A s \in Slots : Accepts(p - 1, s)' => s <= k
      BY <1>2, <3>1, <3>2
    <3>5. HasObject(p)' BY <3>1, <3>4 DEF HasObject, Before
    <3> HIDE DEF HasObject
    <3>6. last'.input = p /\ last'.hits = 1 /\ last'.valid = TRUE /\ last'.checked = p - 1
      BY <2>3, <3>1
    <3> QED BY <3>1, <3>3, <3>4, <3>5, <3>6 DEF IsLookAt, Before
  <2> QED BY <1>0, <2>1, <2>3, <2>4, EndInv
<1> QED BY <1>5, <1>6, <1>7, <1>8, <1>9, <1>10, <1>11, <1>12, <1>13, <1>14 DEF LookStep

-----------------------------------------------------------------------------
\* The tool, and the probe among its users.

Sample == [pfn : Nat, left : {"slab"}, right : Users]
Stages == {"parse", "allocate", "open", "scan", "summary", "samples", "probe", "exit"}
Kinds == {"changes", "writes", "reads", "loads"}

ViewType ==
  /\ pc \in Stages /\ opt \in Command
  /\ pfn \in Nat /\ prev \in Classes \cup {"none"}
  /\ counts \in [Classes -> Nat] /\ slabToUser \in Nat /\ otherToUser \in Nat
  /\ samples \in Seq(Sample) /\ Len(samples) <= MaxSamples
  /\ seen \in Seq(Classes)
  /\ next \in Nat /\ next >= 1 /\ next <= Len(samples) + 1
  /\ pc \in {"parse", "allocate", "open", "scan"} => next = 1
  /\ haveProbe \in BOOLEAN
  /\ status \in {-1, 0, 1, 2, 137} /\ (pc = "exit") = (status # -1)
  /\ spent \in [Kinds -> Nat]
  /\ DOMAIN was = Frames /\ moved \subseteq Frames

LEMMA WordIs ==
  \E m \in Nat : /\ m > 0 /\ Word = 16 * m /\ Word \div 8 = 2 * m
                 /\ Word \div 16 = m /\ Word \div 2 = 8 * m
<1>1. PICK m \in 1..Word : Word = 16 * m BY WordAssumption
<1>2. m \in Nat /\ m > 0 BY <1>1, WordAssumption
<1> QED BY <1>1, <1>2

\* An entry of /proc/kpageflags, of frames that exist and that do not.
LEMMA EntryIs ==
  ASSUME NEW p \in Nat
  PROVE  /\ Entry(p).rc \in {"ok", "error", "eof"}
         /\ p < Word \div 8 =>
              /\ p \in Frames => Entry(p).rc = "ok" /\ Entry(p).flags = mem[p]
              /\ p \notin Frames => Entry(p).rc # "ok"
<1>1. PICK m \in Nat : /\ m > 0 /\ Word = 16 * m /\ Word \div 8 = 2 * m
                       /\ Word \div 16 = m /\ Word \div 2 = 8 * m
  BY WordIs
<1> DEFINE off == (p * 8) % Word
<1>2. off \in Nat BY <1>1
<1>3. ASSUME p < Word \div 8 PROVE off = p * 8 /\ off \div 8 = p
  <2>1. p * 8 < Word /\ p * 8 \in Nat /\ Word \in Nat BY <1>1, <1>3
  <2>2. (p * 8) % Word = p * 8 BY <2>1
  <2> QED BY <2>2
<1>4. p \in Frames => p < m BY <1>1, ReachAssumption
<1>5. Entry(p) = CASE off >= Word \div 2    -> [rc |-> "error"]
                   [] off \div 8 \in Frames -> [rc |-> "ok", flags |-> mem[off \div 8]]
                   [] OTHER                 -> [rc |-> "eof"]
  BY DEF Entry
<1> HIDE DEF off
<1>6. CASE off >= Word \div 2
  <2>1. off \div 8 \notin Frames
    <3>1. off \div 8 >= m BY <1>1, <1>2, <1>6
    <3>2. off \div 8 \in Nat BY <1>2
    <3> QED BY <1>1, <3>1, <3>2, ReachAssumption
  <2>2. Entry(p).rc = "error" BY <1>5, <1>6, <2>1
  <2> QED BY <1>3, <2>1, <2>2
<1>7. CASE ~(off >= Word \div 2) /\ off \div 8 \in Frames
  <2>1. Entry(p).rc = "ok" /\ Entry(p).flags = mem[off \div 8] BY <1>5, <1>7
  <2> QED BY <1>3, <1>7, <2>1
<1>8. CASE ~(off >= Word \div 2) /\ off \div 8 \notin Frames
  <2>1. Entry(p).rc = "eof" BY <1>5, <1>8
  <2> QED BY <1>3, <1>8, <2>1
<1> QED BY <1>6, <1>7, <1>8

\* Whether there is an entry does not depend on what is in it.
LEMMA EntryRc ==
  ASSUME NEW p \in Nat
  PROVE  (Entry(p).rc)' = Entry(p).rc
<1> DEFINE off == (p * 8) % Word
           Is(frames) == CASE off >= Word \div 2    -> [rc |-> "error"]
                           [] off \div 8 \in Frames -> [rc |-> "ok", flags |-> frames[off \div 8]]
                           [] OTHER                 -> [rc |-> "eof"]
<1>1. Entry(p) = Is(mem) /\ Entry(p)' = Is(mem') BY DEF Entry
<1>2. PICK m \in Nat : /\ m > 0 /\ Word \div 16 = m /\ Word \div 2 = 8 * m /\ Word = 16 * m
  BY WordIs
<1>3. off \in Nat BY <1>2
<1>4. off >= Word \div 2 => off \div 8 \notin Frames
  <2> SUFFICES ASSUME off >= 8 * m PROVE off \div 8 \notin Frames BY <1>2
  <2> HIDE DEF off
  <2>1. off \div 8 >= m /\ off \div 8 \in Nat BY <1>2, <1>3
  <2> QED BY <1>2, <2>1, ReachAssumption
<1> HIDE DEF off
<1>5. ASSUME NEW frames PROVE Is(frames).rc = IF off >= Word \div 2 THEN "error"
                                   ELSE IF off \div 8 \in Frames THEN "ok" ELSE "eof"
  BY <1>4
<1> QED BY <1>1, <1>5

\* Only slab frames are shown as slab.
LEMMA ClassifyIs ==
  ASSUME NEW f
  PROVE  Classify(f) \in Classes /\ (Classify(f) = "slab" => "SLAB" \in f)
<1> DEFINE holds == {i \in DOMAIN Tests : Tests[i].flags \cap f # {}}
           first == CHOOSE i \in holds : \A j \in holds : i <= j
<1>1. DOMAIN Tests = 1..7 BY DEF Tests
<1>2. CASE holds = {} BY <1>2 DEF Classify, Classes
<1>3. CASE holds # {}
  <2>1. \E i \in holds : \A j \in holds : i <= j
    BY <1>1, <1>3
  <2>2. first \in holds BY <2>1
  <2>3. Classify(f) = Tests[first].class BY <1>3 DEF Classify
  <2> HIDE DEF first
  <2>4. first \in 1..7 /\ Tests[first].flags \cap f # {} BY <1>1, <2>2
  <2>5. /\ first = 1 => Tests[first].class = "offline"
        /\ first = 2 => Tests[first].class = "free"
        /\ first = 3 => Tests[first].class = "slab" /\ Tests[first].flags = {"SLAB"}
        /\ first = 4 => Tests[first].class = "pgtable"
        /\ first = 5 => Tests[first].class = "huge"
        /\ first = 6 => Tests[first].class = "user-anon"
        /\ first = 7 => Tests[first].class = "user-file"
    BY <2>4 DEF Tests
  <2>6. first \in {1, 2, 3, 4, 5, 6, 7} BY <2>4
  <2> QED BY <2>3, <2>4, <2>5, <2>6 DEF Classes
<1> QED BY <1>2, <1>3
-----------------------------------------------------------------------------
(***************************************************************************)
(* The probe among its users.                                              *)
(***************************************************************************)
\* What a step is to the probe: the viewer submits a number and looks for it, or
\* others do one thing.
LEMMA StepKinds ==
  ASSUME ViewType, [Next]_vars
  PROVE  \/ UNCHANGED <<mem, probeVars>>
         \/ \E f \in Frames, flags \in Uses : FrameChanges(f, flags)
         \/ Load \/ Unload
         \/ \E w \in Writers, q \in Nat : Write(w, q)
         \/ \E w \in Writers : LookStep(w)
         \/ \E r \in Readers : Read(r)
<1>1. CASE UNCHANGED vars BY <1>1 DEF vars
<1>2. CASE ParseArgs \/ Allocate \/ Open \/ ScanFrame \/ ScanDone \/ AskProbe
           \/ Probed \/ Finish
  BY <1>2 DEF ParseArgs, Allocate, Open, ScanFrame, ScanDone, AskProbe, Probed, Finish
<1>3. CASE Submit
  <2>1. next \in 1..Len(samples) BY <1>3 DEF Submit, ViewType
  <2>2. samples[next] \in Sample BY <2>1 DEF ViewType
  <2>3. samples[next].pfn + 1 \in Nat BY <2>2 DEF Sample
  <2>4. Submitted(samples[next]) \in Nat
    BY <2>3, WordIs DEF Submitted
  <2>5. UNCHANGED <<mem, probeVars>> \/ Write(Viewer, Submitted(samples[next]))
    BY <1>3 DEF Submit
  <2> QED BY <2>4, <2>5, ViewerAssumption
<1>4. CASE Probe BY <1>4, ViewerAssumption DEF Probe
<1>5. CASE MemoryChanges BY <1>5 DEF MemoryChanges
<1>6. CASE OthersWrite BY <1>6, NumbersAssumption DEF OthersWrite
<1>7. CASE OthersRead BY <1>7 DEF OthersRead
<1>8. CASE ModuleChanges BY <1>8 DEF ModuleChanges
<1>9. CASE Over BY <1>9 DEF Over, vars
<1> QED BY <1>1, <1>2, <1>3, <1>4, <1>5, <1>6, <1>7, <1>8, <1>9 DEF Next, ViewerStep

LEMMA NextProbeInv == ViewType /\ ProbeInv /\ [Next]_vars => ProbeInv'
<1> SUFFICES ASSUME ViewType, ProbeInv, [Next]_vars PROVE ProbeInv' OBVIOUS
<1> QED BY StepKinds, StutterInv, FrameInv, ModuleInv, WriteInv, LookInv, ReadInv
-----------------------------------------------------------------------------
(***************************************************************************)
(* The types.                                                              *)
(***************************************************************************)
\* The classes counted, and the frames read, change together, in Render.
LEMMA RenderTyped ==
  ASSUME ViewType, NEW class \in Classes, Render(class), pc = "scan"
  PROVE  /\ pfn' = pfn + 1 /\ pfn' \in Nat /\ prev' = class
         /\ counts' \in [Classes -> Nat]
         /\ counts' = [counts EXCEPT ![class] = @ + 1]
         /\ seen' = Append(seen, class) /\ seen' \in Seq(Classes)
         /\ pc' = "scan" /\ status' = status
         /\ Record(prev, class)
BY DEF Render, ViewType, Goto

LEMMA RecordTyped ==
  ASSUME ViewType, NEW class \in Classes, Record(prev, class), prev = "slab" => pfn > 0
  PROVE  /\ samples' \in Seq(Sample) /\ Len(samples') <= MaxSamples
         /\ Len(samples') >= Len(samples)
         /\ slabToUser' \in Nat /\ otherToUser' \in Nat
<1>1. CASE prev = "slab" /\ class \in Users
  <2> DEFINE s == [pfn |-> pfn - 1, left |-> prev, right |-> class]
  <2>1. pfn - 1 \in Nat BY <1>1 DEF ViewType
  <2>2. s \in Sample BY <1>1, <2>1 DEF Sample
  <2>3. slabToUser' = slabToUser + 1 /\ otherToUser' = otherToUser
        /\ samples' = IF Len(samples) < MaxSamples THEN Append(samples, s) ELSE samples
    BY <1>1 DEF Record
  <2> HIDE DEF s
  <2>4. /\ Append(samples, s) \in Seq(Sample)
        /\ Len(Append(samples, s)) = Len(samples) + 1 /\ Len(samples) \in Nat
    BY <2>2 DEF ViewType
  <2> QED BY <2>3, <2>4, SamplesAssumption DEF ViewType
<1>2. CASE ~(prev = "slab" /\ class \in Users)
  <2>1. UNCHANGED <<slabToUser, samples>>
        /\ otherToUser' = otherToUser + (IF prev = "other" /\ class \in Users THEN 1 ELSE 0)
    BY <1>2 DEF Record
  <2> QED BY <2>1 DEF ViewType
<1> QED BY <1>1, <1>2

\* One round of the scan: a class is shown, or the scan stops.
LEMMA ScanCases ==
  ASSUME ViewType, ScanFrame
  PROVE  /\ pc = "scan" /\ pfn < opt.start + opt.count
         /\ UNCHANGED <<mem, probeVars, opt, summaryVars, envVars>>
         /\ \/ \E class \in Classes :
                 /\ Render(class)
                 /\ pfn \in Frames => class = Classify(mem[pfn])
                 /\ pfn \notin Frames /\ pfn < Word \div 8 => class = "offline"
            \/ /\ AfterScan /\ UNCHANGED scanVars
               /\ Entry(pfn).rc = "eof" /\ opt.stopOnEof
            \/ Exit(1) /\ UNCHANGED scanVars
<1> DEFINE e == Entry(pfn)
<1>1. /\ pc = "scan" /\ pfn < opt.start + opt.count
      /\ CASE e.rc = "ok"                       -> Render(Classify(e.flags))
           [] e.rc = "eof" /\ opt.stopOnEof     -> AfterScan /\ UNCHANGED scanVars
           [] e.rc = "error" /\ opt.stopOnError -> Exit(1) /\ UNCHANGED scanVars
           [] OTHER                             -> Render("offline")
      /\ UNCHANGED <<mem, probeVars, opt, summaryVars, envVars>>
  BY DEF ScanFrame
<1>2. /\ e.rc \in {"ok", "error", "eof"}
      /\ pfn < Word \div 8 =>
           /\ pfn \in Frames => e.rc = "ok" /\ e.flags = mem[pfn]
           /\ pfn \notin Frames => e.rc # "ok"
  BY EntryIs DEF ViewType
<1>3. pfn \in Frames => pfn < Word \div 8
  <2>1. PICK m \in Nat : m > 0 /\ Word \div 8 = 2 * m /\ Word \div 16 = m BY WordIs
  <2> QED BY <2>1, ReachAssumption DEF ViewType
<1>4. "offline" \in Classes BY DEF Classes
<1>5. Classify(e.flags) \in Classes BY ClassifyIs
<1> HIDE DEF e
<1>6. CASE e.rc = "ok"
  <2>1. Render(Classify(e.flags)) BY <1>1, <1>6
  <2> QED BY <1>1, <1>2, <1>3, <1>5, <1>6, <2>1
<1>7. CASE e.rc = "eof" /\ opt.stopOnEof
  <2>1. AfterScan /\ UNCHANGED scanVars BY <1>1, <1>7
  <2> QED BY <1>1, <1>7, <2>1 DEF e
<1>8. CASE e.rc = "error" /\ opt.stopOnError
  <2>1. Exit(1) /\ UNCHANGED scanVars BY <1>1, <1>8
  <2> QED BY <1>1, <2>1
<1>9. CASE e.rc # "ok" /\ ~(e.rc = "eof" /\ opt.stopOnEof)
           /\ ~(e.rc = "error" /\ opt.stopOnError)
  <2>1. Render("offline") BY <1>1, <1>9
  <2> QED BY <1>1, <1>2, <1>3, <1>4, <1>9, <2>1
<1> QED BY <1>2, <1>6, <1>7, <1>8, <1>9

\* How far the scan is.
Begun == pc \in {"scan", "summary", "samples", "probe"} \/ seen # <<>>
RangeInv ==
  /\ Begun => /\ pfn = opt.start + Len(seen) /\ Len(seen) <= opt.count
              /\ opt.start + opt.count < Word
  /\ pc \in {"parse", "allocate", "open"} => seen = <<>>
  /\ prev = IF seen = <<>> THEN "none" ELSE seen[Len(seen)]

\* The steps that show no frame.
Quiet == UNCHANGED <<opt, prev, counts, slabToUser, otherToUser, samples, seen>>

LEMMA QuietSteps ==
  ASSUME ViewType, [Next]_vars
  PROVE  \/ Quiet /\ UNCHANGED pfn
         \/ Quiet /\ Open
         \/ ScanFrame /\ \E class \in Classes : Render(class)
<1>1. CASE UNCHANGED vars BY <1>1 DEF vars, viewVars, scanVars, Quiet
<1>2. CASE ParseArgs \/ Allocate \/ ScanDone \/ AskProbe \/ Submit \/ Probe \/ Probed
           \/ Finish
  BY <1>2 DEF ParseArgs, Allocate, ScanDone, AskProbe, Submit, Probe, Probed, Finish,
              Quiet, scanVars, viewVars
<1>3. CASE Open BY <1>3 DEF Open, Quiet
<1>4. CASE ScanFrame
  <2>1. opt' = opt BY <1>4, ScanCases
  <2>2. UNCHANGED scanVars \/ \E class \in Classes : Render(class) BY <1>4, ScanCases
  <2> QED BY <1>4, <2>1, <2>2 DEF scanVars, Quiet
<1>5. CASE MemoryChanges \/ OthersWrite \/ OthersRead \/ ModuleChanges \/ Over
  BY <1>5 DEF MemoryChanges, OthersWrite, OthersRead, ModuleChanges, Over, vars,
              viewVars, scanVars, Quiet
<1> QED BY <1>1, <1>2, <1>3, <1>4, <1>5 DEF Next, ViewerStep

\* How main() goes on.
LEMMA PlaceMoves ==
  ASSUME ViewType, [Next]_vars
  PROVE  \/ pc' = pc /\ status' = status
         \/ pc = "parse" /\ pc' = "allocate" /\ status' = status
         \/ pc = "parse" /\ pc' = "exit" /\ status' = 0 /\ opt.kind # "scan"
         \/ pc = "parse" /\ pc' = "exit" /\ status' = 2
         \/ pc = "allocate" /\ pc' = "open" /\ status' = status
         \/ pc \in {"allocate", "open", "scan"} /\ pc' = "exit" /\ status' \in {1, 2, 137}
         \/ Open /\ pc = "open" /\ pc' = "scan" /\ status' = status
         \/ ScanFrame /\ pc = "scan" /\ AfterScan /\ UNCHANGED scanVars
              /\ Entry(pfn).rc = "eof" /\ opt.stopOnEof
         \/ ScanDone
         \/ /\ pc \in {"summary", "samples", "probe"}
            /\ pc' \in {"samples", "probe"} /\ status' = status
         \/ pc = "samples" /\ pc' = "exit" /\ status' = 0
<1>1. CASE UNCHANGED vars BY <1>1 DEF vars, viewVars
<1>2. CASE ParseArgs
  <2>1. /\ pc = "parse"
        /\ CASE opt.kind = "help" -> Exit(0)
             [] opt.kind = "bad"  -> Exit(2)
             [] OTHER             -> Goto("allocate")
    BY <1>2 DEF ParseArgs
  <2>2. CASE opt.kind = "help"
    <3>1. Exit(0) BY <2>1, <2>2
    <3> QED BY <2>1, <2>2, <3>1 DEF Exit
  <2>3. CASE opt.kind = "bad"
    <3>1. Exit(2) BY <2>1, <2>3
    <3> QED BY <2>1, <3>1 DEF Exit
  <2>4. CASE opt.kind # "help" /\ opt.kind # "bad"
    <3>1. Goto("allocate") BY <2>1, <2>4
    <3> QED BY <2>1, <3>1 DEF Goto
  <2> QED BY <2>2, <2>3, <2>4
<1>3. CASE Allocate BY <1>3 DEF Allocate, Exit, Goto
<1>4. CASE Open BY <1>4 DEF Open, Exit, Goto
<1>5. CASE ScanFrame
  <2>1. CASE \E class \in Classes : Render(class)
    BY <1>5, <2>1, ScanCases, RenderTyped
  <2>2. CASE Exit(1) BY <1>5, <2>2, ScanCases DEF Exit
  <2> QED BY <1>5, <2>1, <2>2, ScanCases
<1>6. CASE AskProbe \/ Submit BY <1>6 DEF AskProbe, Submit, Goto
<1>7. CASE Probe BY <1>7 DEF Probe, viewVars
<1>8. CASE Probed \/ Finish BY <1>8 DEF Probed, Finish, Goto, Exit
<1>9. CASE MemoryChanges \/ OthersWrite \/ OthersRead \/ ModuleChanges \/ Over
  BY <1>9 DEF MemoryChanges, OthersWrite, OthersRead, ModuleChanges, Over, vars, viewVars
<1> QED BY <1>1, <1>2, <1>3, <1>4, <1>5, <1>6, <1>7, <1>8, <1>9 DEF Next, ViewerStep

LEMMA NextRangeInv == ViewType /\ RangeInv /\ [Next]_vars => RangeInv'
<1> SUFFICES ASSUME ViewType, RangeInv, [Next]_vars PROVE RangeInv' OBVIOUS
<1>0. opt.start \in Nat /\ opt.count \in Nat /\ opt.start < Word /\ opt.count < Word
      /\ Word \in Nat
  BY WordAssumption DEF ViewType, Command
<1>1. CASE Quiet /\ Open
  <2>1. seen = <<>> /\ seen' = <<>> /\ prev' = prev /\ opt' = opt
    BY <1>1 DEF Open, RangeInv, Quiet
  <2>2. prev = "none" BY <2>1 DEF RangeInv
  <2>3. CASE pc' = "exit" BY <2>1, <2>2, <2>3 DEF RangeInv, Begun
  <2>4. CASE pc' # "exit"
    <3>1. LET end == (opt.start + opt.count) % Word
          IN  end >= opt.start /\ Goto("scan") /\ pfn' = opt.start
      BY <1>1, <2>4 DEF Open, Exit
    <3>2. opt.start + opt.count < Word BY <1>0, <3>1
    <3>3. pc' = "scan" BY <3>1 DEF Goto
    <3>4. pfn' = opt.start BY <3>1
    <3>5. Len(seen') = 0 BY <2>1
    <3>6. pfn' = opt'.start + Len(seen') /\ Len(seen') <= opt'.count
          /\ opt'.start + opt'.count < Word
      BY <1>0, <2>1, <3>2, <3>4, <3>5
    <3> QED BY <2>1, <2>2, <3>3, <3>6 DEF RangeInv
  <2> QED BY <2>3, <2>4
<1>2. ASSUME ScanFrame, NEW class \in Classes, Render(class) PROVE RangeInv'
  <2>1. pc = "scan" /\ pfn < opt.start + opt.count /\ opt' = opt BY <1>2, ScanCases
  <2>2. pfn' = pfn + 1 /\ prev' = class /\ seen' = Append(seen, class) /\ pc' = "scan"
    BY <1>2, <2>1, RenderTyped
  <2>3. /\ Len(seen') = Len(seen) + 1 /\ seen'[Len(seen')] = class /\ seen' # <<>>
        /\ Len(seen) \in Nat
    BY <2>2 DEF ViewType
  <2>4. /\ pfn = opt.start + Len(seen) /\ Len(seen) <= opt.count
        /\ opt.start + opt.count < Word
    BY <2>1 DEF RangeInv, Begun
  <2>5. pfn' = opt'.start + Len(seen') /\ Len(seen') <= opt'.count
        /\ opt'.start + opt'.count < Word
    BY <1>0, <2>1, <2>2, <2>3, <2>4
  <2> QED BY <2>2, <2>3, <2>5 DEF RangeInv
<1>3. CASE Quiet /\ UNCHANGED pfn /\ ~Open
  <2>1. /\ pc' \in {"scan", "summary", "samples", "probe"} =>
             pc \in {"scan", "summary", "samples", "probe"}
        /\ pc' \in {"parse", "allocate", "open"} => pc \in {"parse", "allocate", "open"}
    BY <1>3, PlaceMoves DEF ScanDone, AfterScan, Exit, Goto
  <2>2. UNCHANGED <<opt, pfn, seen, prev>> BY <1>3 DEF Quiet
  <2> QED BY <2>1, <2>2 DEF RangeInv, Begun
<1> QED BY <1>1, <1>2, <1>3, QuietSteps

\* Whatever others do, they spend it, and memory changes in frames that exist.
LEMMA OthersTyped ==
  ASSUME ViewType, MemoryChanges \/ OthersWrite \/ OthersRead \/ ModuleChanges
  PROVE  /\ UNCHANGED viewVars
         /\ spent' \in [Kinds -> Nat] /\ \A k \in Kinds : spent'[k] >= spent[k]
         /\ DOMAIN was' = Frames /\ moved' \subseteq Frames
<1>1. \A k \in Kinds : spent[k] \in Nat BY DEF ViewType
<1>2. spent' = spent \/ \E k \in Kinds : spent' = [spent EXCEPT ![k] = @ + 1]
  BY DEF MemoryChanges, OthersWrite, OthersRead, ModuleChanges, Spend, Kinds
<1>3. spent' \in [Kinds -> Nat] /\ \A k \in Kinds : spent'[k] >= spent[k]
  <2>1. CASE spent' = spent BY <1>1, <2>1 DEF ViewType
  <2>2. ASSUME NEW k \in Kinds, spent' = [spent EXCEPT ![k] = @ + 1]
        PROVE  spent' \in [Kinds -> Nat] /\ \A j \in Kinds : spent'[j] >= spent[j]
    <3>1. spent \in [Kinds -> Nat] /\ spent[k] + 1 \in Nat BY <1>1 DEF ViewType
    <3>2. spent' \in [Kinds -> Nat] BY <2>2, <3>1
    <3>3. \A j \in Kinds : spent'[j] = IF j = k THEN spent[j] + 1 ELSE spent[j]
      BY <2>2, <3>1
    <3> QED BY <1>1, <3>2, <3>3
  <2> QED BY <1>2, <2>1, <2>2
<1>4. UNCHANGED viewVars
  BY DEF MemoryChanges, OthersWrite, OthersRead, ModuleChanges
<1>5. DOMAIN was' = Frames /\ moved' \subseteq Frames
  BY DEF MemoryChanges, OthersWrite, OthersRead, ModuleChanges, ViewType
<1> QED BY <1>3, <1>4, <1>5

LEMMA NextViewType ==
  ViewType /\ RangeInv /\ ProbeInv /\ [Next]_vars => ViewType'
<1> SUFFICES ASSUME ViewType, RangeInv, ProbeInv, [Next]_vars PROVE ViewType' OBVIOUS
<1>1. CASE UNCHANGED vars \/ Over
  BY <1>1 DEF Over, vars, viewVars, scanVars, summaryVars, envVars, ViewType
<1>2. CASE MemoryChanges \/ OthersWrite \/ OthersRead \/ ModuleChanges
  BY <1>2, OthersTyped DEF ViewType, viewVars, scanVars, summaryVars
<1>3. CASE ParseArgs \/ Allocate \/ ScanDone \/ Finish
  <2>1. UNCHANGED <<opt, scanVars, summaryVars, envVars>>
    BY <1>3 DEF ParseArgs, Allocate, ScanDone, Finish
  <2>2. /\ pc' \in Stages /\ status' \in {-1, 0, 1, 2, 137}
        /\ (pc' = "exit") = (status' # -1)
        /\ pc' \in {"parse", "allocate", "open", "scan"} =>
             pc \in {"parse", "allocate", "open", "scan"}
    BY <1>3, PlaceMoves DEF ScanDone, AfterScan, Exit, Goto, ViewType, Stages
  <2> QED BY <2>1, <2>2 DEF ViewType, scanVars, summaryVars, envVars
<1>4. CASE Open
  <2>1. UNCHANGED <<opt, prev, counts, slabToUser, otherToUser, samples, seen,
                    summaryVars, envVars>>
    BY <1>4 DEF Open
  <2>2. pfn' \in Nat BY <1>4 DEF Open, ViewType, Command
  <2>3. /\ pc = "open" /\ pc' \in Stages /\ status' \in {-1, 0, 1, 2, 137}
        /\ (pc' = "exit") = (status' # -1)
    BY <1>4 DEF Open, Exit, Goto, ViewType, Stages
  <2> QED BY <2>1, <2>2, <2>3 DEF ViewType, summaryVars, envVars
<1>5. CASE ScanFrame
  <2>1. pc = "scan" /\ UNCHANGED <<opt, summaryVars, envVars>> BY <1>5, ScanCases
  <2>2. ASSUME NEW class \in Classes, Render(class) PROVE ViewType'
    <3>1. /\ pfn' \in Nat /\ prev' = class /\ counts' \in [Classes -> Nat]
          /\ seen' \in Seq(Classes) /\ pc' = "scan" /\ status' = status
          /\ Record(prev, class)
      BY <2>1, <2>2, RenderTyped
    <3>2. prev = "slab" => pfn > 0
      <4>1. prev = "slab" => seen # <<>> /\ Len(seen) > 0 BY DEF RangeInv, ViewType
      <4> QED BY <4>1 DEF RangeInv, Begun, ViewType, Command
    <3>3. /\ samples' \in Seq(Sample) /\ Len(samples') <= MaxSamples
          /\ slabToUser' \in Nat /\ otherToUser' \in Nat
          /\ Len(samples') >= Len(samples)
      BY <3>1, <3>2, RecordTyped
    <3>4. next' = 1 /\ 1 <= Len(samples') + 1
      BY <2>1, <3>3 DEF ViewType, summaryVars
    <3>5. pc' \in Stages /\ status' \in {-1, 0, 1, 2, 137} /\ (pc' = "exit") = (status' # -1)
      BY <2>1, <3>1 DEF ViewType, Stages
    <3> QED BY <2>1, <3>1, <3>3, <3>4, <3>5 DEF ViewType, summaryVars, envVars
  <2>3. CASE UNCHANGED scanVars
    <3>1. /\ pc' \in Stages /\ status' \in {-1, 0, 1, 2, 137}
          /\ (pc' = "exit") = (status' # -1)
      BY <2>1, PlaceMoves DEF ScanDone, AfterScan, Exit, Goto, ViewType, Stages
    <3> QED BY <2>1, <2>3, <3>1 DEF ViewType, scanVars, summaryVars, envVars
  <2> QED BY <1>5, <2>2, <2>3, ScanCases
<1>6. CASE AskProbe
  <2>1. UNCHANGED <<opt, scanVars, next, claims, envVars>> /\ pc = "summary"
        /\ pc' = "samples" /\ status' = status /\ haveProbe' = loaded
    BY <1>6 DEF AskProbe, Goto
  <2>2. haveProbe' \in BOOLEAN BY <2>1 DEF ProbeInv, ProbeType
  <2> QED BY <2>1, <2>2 DEF ViewType, scanVars, envVars, Stages
<1>7. CASE Submit \/ Probe \/ Probed
  <2>1. UNCHANGED <<opt, scanVars, haveProbe, envVars>> /\ pc \in {"samples", "probe"}
        /\ pc' \in {"samples", "probe"} /\ status' = status
    BY <1>7 DEF Submit, Probe, Probed, Goto, viewVars, summaryVars
  <2>2. next' \in Nat /\ next' >= 1 /\ next' <= Len(samples) + 1
    <3>1. CASE Submit BY <3>1 DEF Submit, ViewType
    <3>2. CASE Probe \/ Probed
      BY <3>2 DEF Probe, Probed, viewVars, summaryVars, ViewType
    <3> QED BY <1>7, <3>1, <3>2
  <2> QED BY <2>1, <2>2 DEF ViewType, scanVars, envVars, Stages
<1> QED BY <1>1, <1>2, <1>3, <1>4, <1>5, <1>6, <1>7 DEF Next, ViewerStep

LEMMA InitTyped == Init => ViewType /\ RangeInv /\ ProbeInv
<1> SUFFICES ASSUME Init PROVE ViewType /\ RangeInv /\ ProbeInv OBVIOUS
<1>1. DOMAIN mem = Frames BY LayoutsAssumption DEF Init
<1>2. ProbeInv BY <1>1, ProbeInitInv DEF Init
<1>3. counts \in [Classes -> Nat] BY DEF Init
<1>4. samples \in Seq(Sample) /\ Len(samples) = 0 /\ seen \in Seq(Classes) BY DEF Init
<1>5. spent \in [Kinds -> Nat] BY DEF Init, Kinds
<1>6. opt \in Command BY OptionsAssumption DEF Init
<1>7. DOMAIN was = Frames BY DEF Init
<1>8. ViewType
  <2>1. next = 1 /\ next <= Len(samples) + 1 /\ Len(samples) <= MaxSamples
    BY <1>4, SamplesAssumption DEF Init
  <2>2. /\ pc = "parse" /\ status = -1 /\ haveProbe = FALSE /\ pfn = 0 /\ prev = "none"
        /\ slabToUser = 0 /\ otherToUser = 0 /\ moved = {}
    BY DEF Init
  <2>3. pc \in Stages /\ status \in {-1, 0, 1, 2, 137} /\ (pc = "exit") = (status # -1)
    BY <2>2 DEF Stages
  <2>4. next \in Nat /\ next >= 1 BY <2>1
  <2> QED BY <1>3, <1>4, <1>5, <1>6, <1>7, <2>1, <2>2, <2>3, <2>4 DEF ViewType
<1>9. RangeInv BY DEF Init, RangeInv, Begun
<1> QED BY <1>2, <1>8, <1>9

LEMMA BaseHolds == Spec => [](ViewType /\ RangeInv /\ ProbeInv)
<1> QED BY InitTyped, NextViewType, NextRangeInv, NextProbeInv, PTL DEF Spec

\* The globals of the module and every undisturbed report tell the truth about the
\* frame before the number written, whoever uses the probe and whatever becomes of
\* memory and of the module.
THEOREM ProbeIsTrue == Spec => []ProbeTrue
<1> QED BY BaseHolds, ProbeInvTrue, PTL
-----------------------------------------------------------------------------
(***************************************************************************)
(* The summary counts what was read.                                       *)
(***************************************************************************)
\* Appending a class adds one place, and a meeting if it meets the last one.
LEMMA Meets ==
  ASSUME seen \in Seq(Classes), NEW class \in Classes, seen' = Append(seen, class),
         NEW left, NEW right, left \subseteq Classes
  PROVE  LET n == Len(seen)
             old == Meetings(left, right)
         IN  /\ IsFiniteSet(old) /\ Cardinality(old) \in Nat /\ old \subseteq 2..n
             /\ Meetings(left, right)' =
                  IF n >= 1 /\ seen[n] \in left /\ class \in right THEN old \cup {n + 1} ELSE old
             /\ Cardinality(Meetings(left, right)') =
                  IF n >= 1 /\ seen[n] \in left /\ class \in right
                  THEN Cardinality(old) + 1 ELSE Cardinality(old)
<1> DEFINE n == Len(seen)
           old == Meetings(left, right)
<1>1. /\ n \in Nat /\ Len(seen') = n + 1 /\ seen'[n + 1] = class
      /\ \A i \in 1..n : seen'[i] = seen[i]
  OBVIOUS
<1>2. old \subseteq 2..n BY DEF Meetings
<1>3. IsFiniteSet(old) /\ Cardinality(old) \in Nat
  <2>1. IsFiniteSet(2..n) BY <1>1, FS_Interval
  <2>2. IsFiniteSet(old) BY <1>2, <2>1, FS_Subset
  <2> HIDE DEF old
  <2> QED BY <2>2, FS_CardinalityType
<1>4. n + 1 \notin old BY <1>1, <1>2
<1>5. Meetings(left, right)' =
        IF n >= 1 /\ seen[n] \in left /\ class \in right THEN old \cup {n + 1} ELSE old
  <2>1. \A i : i \in Meetings(left, right)' <=>
               /\ i \in 2..n + 1 /\ seen'[i - 1] \in left /\ seen'[i] \in right
    BY <1>1 DEF Meetings
  <2>2. \A i \in 2..n : seen'[i - 1] = seen[i - 1] /\ seen'[i] = seen[i] BY <1>1
  <2>3. \A i \in 2..n : i \in Meetings(left, right)' <=> i \in old
    BY <1>1, <2>1, <2>2 DEF Meetings
  <2>4. n + 1 \in Meetings(left, right)' <=>
          n >= 1 /\ seen[n] \in left /\ class \in right
    <3>1. n + 1 \in 2..n + 1 <=> n >= 1 BY <1>1
    <3>2. n >= 1 => seen'[n + 1 - 1] = seen[n] BY <1>1
    <3> QED BY <1>1, <2>1, <3>1, <3>2
  <2>5. \A i \in Meetings(left, right)' : i \in 2..n \/ i = n + 1 BY <1>1, <2>1
  <2> DEFINE new == Meetings(left, right)'
  <2>6. /\ \A i \in 2..n : i \in new <=> i \in old
        /\ n + 1 \in new <=> n >= 1 /\ seen[n] \in left /\ class \in right
        /\ \A i \in new : i \in 2..n \/ i = n + 1
    BY <2>3, <2>4, <2>5
  <2> HIDE DEF old, n, new
  <2>7. new = IF n >= 1 /\ seen[n] \in left /\ class \in right THEN old \cup {n + 1} ELSE old
    <3>1. \A i \in old : i \in 2..n BY <1>2
    <3>2. CASE n >= 1 /\ seen[n] \in left /\ class \in right
      <4>1. \A i : i \in new <=> i \in old \/ i = n + 1 BY <2>6, <3>1, <3>2
      <4>2. new = old \cup {n + 1} BY <4>1
      <4> QED BY <3>2, <4>2
    <3>3. CASE ~(n >= 1 /\ seen[n] \in left /\ class \in right)
      <4>1. \A i : i \in new <=> i \in old BY <2>6, <3>1, <3>3
      <4>2. new = old BY <4>1
      <4> QED BY <3>3, <4>2
    <3> QED BY <3>2, <3>3
  <2> QED BY <2>7 DEF new
<1>6. Cardinality(old \cup {n + 1}) = Cardinality(old) + 1
  BY <1>3, <1>4, FS_AddElement
<1> HIDE DEF old, n
<1> QED BY <1>2, <1>3, <1>5, <1>6 DEF old, n

\* The places where a class was seen.
PlacesOf(c) == {i \in DOMAIN seen : seen[i] = c}

LEMMA Counted ==
  ASSUME seen \in Seq(Classes), NEW class \in Classes, seen' = Append(seen, class),
         NEW c \in Classes
  PROVE  /\ Cardinality(PlacesOf(c)) \in Nat
         /\ Cardinality(PlacesOf(c)') =
              IF c = class THEN Cardinality(PlacesOf(c)) + 1 ELSE Cardinality(PlacesOf(c))
<1> DEFINE n == Len(seen)
           old == PlacesOf(c)
           new == PlacesOf(c)'
<1>1. /\ n \in Nat /\ DOMAIN seen = 1..n /\ DOMAIN seen' = 1..n + 1
      /\ seen'[n + 1] = class /\ \A i \in 1..n : seen'[i] = seen[i]
  OBVIOUS
<1>2. old \subseteq 1..n /\ n + 1 \notin old BY <1>1 DEF PlacesOf
<1>3. IsFiniteSet(old) /\ Cardinality(old) \in Nat
  <2>0. 1 \in Int /\ n \in Int BY <1>1
  <2>1. IsFiniteSet(1..n) BY <2>0, FS_Interval
  <2>2. IsFiniteSet(old) BY <1>2, <2>1, FS_Subset
  <2> HIDE DEF old
  <2> QED BY <2>2, FS_CardinalityType
<1>4. \A i : i \in new <=> i \in 1..n + 1 /\ seen'[i] = c BY <1>1 DEF PlacesOf
<1>5. \A i \in 1..n : i \in new <=> i \in old BY <1>1, <1>4 DEF PlacesOf
<1>6. n + 1 \in new <=> c = class BY <1>1, <1>4
<1>7. \A i \in new : i \in 1..n \/ i = n + 1 BY <1>1, <1>4
<1> HIDE DEF old, n, new
<1>8. CASE c = class
  <2>1. \A i : i \in new <=> i \in old \/ i = n + 1 BY <1>2, <1>5, <1>6, <1>7, <1>8
  <2>2. new = old \cup {n + 1} BY <2>1
  <2>3. Cardinality(new) = Cardinality(old) + 1 BY <1>2, <1>3, <2>2, FS_AddElement
  <2> QED BY <1>3, <1>8, <2>3 DEF old, new
<1>9. CASE c # class
  <2>1. \A i : i \in new <=> i \in old BY <1>2, <1>5, <1>6, <1>7, <1>9
  <2>2. new = old BY <2>1
  <2> QED BY <1>3, <1>9, <2>2 DEF old, new
<1> QED BY <1>8, <1>9

\* The k-th sample is the k-th boundary from slab to a user's memory.
SampleIs(k) ==
  \E i \in Meetings({"slab"}, Users) :
    /\ samples[k].pfn = PfnOf(i) - 1 /\ samples[k].right = seen[i]
    /\ Cardinality({j \in Meetings({"slab"}, Users) : j < i}) = k - 1

LEMMA RenderSamples ==
  ASSUME ViewType, RangeInv, SummaryTrue, pc = "scan", opt' = opt,
         NEW class \in Classes, Render(class)
  PROVE  /\ slabToUser' = Cardinality(Meetings({"slab"}, Users)')
         /\ otherToUser' = Cardinality(Meetings({"other"}, Users)')
         /\ Len(samples') = IF slabToUser' < MaxSamples THEN slabToUser' ELSE MaxSamples
         /\ \A k \in DOMAIN samples' : SampleIs(k)'
<1> DEFINE n == Len(seen)
           found == Meetings({"slab"}, Users)
           found2 == Meetings({"slab"}, Users)'
           others == Meetings({"other"}, Users)
           others2 == Meetings({"other"}, Users)'
           last2 == prev = "slab" /\ class \in Users
<1>0. {"slab"} \subseteq Classes /\ {"other"} \subseteq Classes BY DEF Classes
<1>1. /\ pfn' = pfn + 1 /\ seen' = Append(seen, class) /\ Record(prev, class)
      /\ seen \in Seq(Classes) /\ n \in Nat
  BY RenderTyped DEF ViewType
<1>2. prev = IF n = 0 THEN "none" ELSE seen[n] BY <1>1 DEF RangeInv, ViewType
<1>3. /\ found \subseteq 2..n /\ Cardinality(found) \in Nat
      /\ found2 = IF last2 THEN found \cup {n + 1} ELSE found
      /\ Cardinality(found2) = IF last2 THEN Cardinality(found) + 1 ELSE Cardinality(found)
  <2>1. n >= 1 /\ seen[n] \in {"slab"} /\ class \in Users <=> last2
    BY <1>1, <1>2
  <2>5. {"slab"} \subseteq Classes BY <1>0
  <2>6. found \subseteq 2..n /\ Cardinality(found) \in Nat BY <1>1, <2>5, Meets
  <2>7. Cardinality(found2) = IF n >= 1 /\ seen[n] \in {"slab"} /\ class \in Users
                              THEN Cardinality(found) + 1 ELSE Cardinality(found)
    BY <1>1, <2>5, Meets
  <2>8. found2 = IF n >= 1 /\ seen[n] \in {"slab"} /\ class \in Users
                 THEN found \cup {n + 1} ELSE found
    BY <1>1, <2>5, Meets
  <2>2. /\ found \subseteq 2..n /\ Cardinality(found) \in Nat
        /\ found2 = IF n >= 1 /\ seen[n] \in {"slab"} /\ class \in Users
                    THEN found \cup {n + 1} ELSE found
        /\ Cardinality(found2) = IF n >= 1 /\ seen[n] \in {"slab"} /\ class \in Users
                                 THEN Cardinality(found) + 1 ELSE Cardinality(found)
    BY <2>6, <2>7, <2>8
  <2> HIDE DEF found, found2
  <2>3. CASE last2 BY <2>1, <2>2, <2>3
  <2>4. CASE ~last2 BY <2>1, <2>2, <2>4
  <2> QED BY <2>3, <2>4
<1>4. /\ Cardinality(others) \in Nat
      /\ Cardinality(others2) = IF prev = "other" /\ class \in Users
                               THEN Cardinality(others) + 1 ELSE Cardinality(others)
  <2>1. n >= 1 /\ seen[n] \in {"other"} /\ class \in Users
          <=> prev = "other" /\ class \in Users
    BY <1>1, <1>2
  <2> QED BY <1>0, <1>1, <2>1, Meets
<1>5. /\ slabToUser = Cardinality(found) /\ otherToUser = Cardinality(others)
      /\ Len(samples) = IF slabToUser < MaxSamples THEN slabToUser ELSE MaxSamples
      /\ \A k \in DOMAIN samples : SampleIs(k)
  BY DEF SummaryTrue, SampleIs
<1>6. \A i \in found : i \in found2 /\ {j \in found2 : j < i} = {j \in found : j < i}
        /\ seen'[i] = seen[i] /\ PfnOf(i)' = PfnOf(i)
  <2> SUFFICES ASSUME NEW i \in found
               PROVE  /\ i \in found2 /\ {j \in found2 : j < i} = {j \in found : j < i}
                      /\ seen'[i] = seen[i] /\ PfnOf(i)' = PfnOf(i)
    OBVIOUS
  <2>1. i \in 2..n BY <1>3
  <2>2. seen'[i] = seen[i] BY <1>1, <2>1
  <2>3. PfnOf(i)' = PfnOf(i) BY DEF PfnOf
  <2>4. ~(n + 1 < i) BY <1>1, <2>1
  <2> HIDE DEF found, found2
  <2>5. \A j : j \in found2 /\ j < i <=> j \in found /\ j < i BY <1>3, <2>4
  <2> QED BY <1>3, <2>2, <2>3, <2>5
<1>7. \A k \in DOMAIN samples : samples'[k] = samples[k] => SampleIs(k)'
  <2> SUFFICES ASSUME NEW k \in DOMAIN samples, samples'[k] = samples[k]
               PROVE  SampleIs(k)'
    OBVIOUS
  <2>1. PICK i \in found : /\ samples[k].pfn = PfnOf(i) - 1 /\ samples[k].right = seen[i]
                           /\ Cardinality({j \in found : j < i}) = k - 1
    BY <1>5 DEF SampleIs
  <2>2. /\ i \in found2 /\ samples'[k].pfn = PfnOf(i)' - 1 /\ samples'[k].right = seen'[i]
        /\ Cardinality({j \in found2 : j < i}) = k - 1
    BY <1>6, <2>1
  <2> QED BY <2>2 DEF SampleIs
<1>8. CASE ~last2
  <2>1. UNCHANGED <<slabToUser, samples>>
        /\ otherToUser' = otherToUser + (IF prev = "other" /\ class \in Users THEN 1 ELSE 0)
    BY <1>1, <1>8 DEF Record
  <2>2. \A k \in DOMAIN samples' : SampleIs(k)' BY <1>7, <2>1
  <2> HIDE DEF found, found2, others, others2
  <2>3. slabToUser' = Cardinality(found2) BY <1>3, <1>5, <1>8, <2>1
  <2>4. otherToUser' = Cardinality(others2) BY <1>4, <1>5, <2>1
  <2> QED BY <1>5, <2>1, <2>2, <2>3, <2>4 DEF found2, others2
<1>9. CASE last2
  <2> DEFINE s == [pfn |-> pfn - 1, left |-> prev, right |-> class]
  <2>1. /\ slabToUser' = slabToUser + 1 /\ otherToUser' = otherToUser
        /\ samples' = IF Len(samples) < MaxSamples THEN Append(samples, s) ELSE samples
    BY <1>1, <1>9 DEF Record
  <2>2. samples \in Seq(Sample) /\ Len(samples) \in Nat /\ DOMAIN samples = 1..Len(samples)
    BY DEF ViewType
  <2>3. s.pfn = pfn - 1 /\ s.right = class OBVIOUS
  <2> HIDE DEF s
  <2>4. otherToUser' = Cardinality(others2)
    <3> HIDE DEF others, others2
    <3> QED BY <1>4, <1>5, <1>9, <2>1
  <2>5. slabToUser' = Cardinality(found2)
    <3> HIDE DEF found, found2
    <3> QED BY <1>3, <1>5, <1>9, <2>1
  <2>6. CASE Len(samples) < MaxSamples
    <3>1. samples' = Append(samples, s) BY <2>1, <2>6
    <3>2. /\ Len(samples') = Len(samples) + 1 /\ DOMAIN samples' = 1..Len(samples) + 1
          /\ samples'[Len(samples) + 1] = s
          /\ \A k \in 1..Len(samples) : samples'[k] = samples[k]
      BY <2>2, <3>1
    <3>3. Len(samples) = slabToUser BY <1>5, <2>6, SamplesAssumption
    <3>4. PICK k \in Nat : k = Len(samples) + 1 BY <2>2
    <3>5. SampleIs(k)'
      <4>1. PICK q \in Nat : q = n BY <1>1
      <4>2. q + 1 \in found2 BY <1>3, <1>9, <4>1
      <4>3. pfn = opt.start + q /\ opt.start \in Nat
        BY <4>1 DEF RangeInv, Begun, ViewType, Command
      <4>4. samples'[k].pfn = PfnOf(q + 1)' - 1
        <5>1. PfnOf(q + 1)' = opt.start + (q + 1) - 1 BY DEF PfnOf
        <5>2. samples'[k].pfn = pfn - 1 BY <2>3, <3>2, <3>4
        <5> QED BY <4>3, <5>1, <5>2
      <4>5. samples'[k].right = seen'[q + 1] BY <1>1, <2>3, <3>2, <3>4, <4>1
      <4>6. {j \in found2 : j < q + 1} = found
        <5>1. \A j \in found : j < q + 1 BY <1>3, <4>1
        <5>2. \A j \in found2 : j < q + 1 => j \in found BY <1>3, <1>9, <4>1
        <5>3. found \subseteq found2 BY <1>3, <1>9
        <5> HIDE DEF found, found2
        <5> QED BY <5>1, <5>2, <5>3
      <4>7. Cardinality(found) = k - 1 BY <1>5, <3>3, <3>4
      <4>8. Cardinality({j \in found2 : j < q + 1}) = k - 1 BY <4>6, <4>7
      <4> QED BY <4>2, <4>4, <4>5, <4>8 DEF SampleIs
    <3>6. \A j \in DOMAIN samples' : SampleIs(j)'
      <4>1. \A j \in DOMAIN samples' : j \in DOMAIN samples \/ j = k
        BY <2>2, <3>2, <3>4
      <4> QED BY <1>7, <2>2, <3>2, <3>5, <4>1
    <3>7. Len(samples') = IF slabToUser' < MaxSamples THEN slabToUser' ELSE MaxSamples
      BY <2>1, <2>2, <2>6, <3>2, <3>3, SamplesAssumption
    <3> QED BY <2>4, <2>5, <3>6, <3>7
  <2>7. CASE ~(Len(samples) < MaxSamples)
    <3>1. samples' = samples BY <2>1, <2>7
    <3>2. \A k \in DOMAIN samples' : SampleIs(k)' BY <1>7, <3>1
    <3>3. Len(samples) = MaxSamples /\ ~(slabToUser < MaxSamples)
      BY <1>5, <2>2, <2>7, SamplesAssumption DEF ViewType
    <3>4. ~(slabToUser' < MaxSamples)
      BY <2>1, <3>3, SamplesAssumption DEF ViewType
    <3> QED BY <2>4, <2>5, <3>1, <3>2, <3>3, <3>4
  <2> QED BY <2>6, <2>7
<1> QED BY <1>8, <1>9

LEMMA NextSummary ==
  ViewType /\ RangeInv /\ SummaryTrue /\ [Next]_vars => SummaryTrue'
<1> SUFFICES ASSUME ViewType, RangeInv, SummaryTrue, [Next]_vars PROVE SummaryTrue'
  OBVIOUS
<1>1. CASE Quiet
  <2>1. UNCHANGED <<opt, counts, slabToUser, otherToUser, samples, seen>> BY <1>1 DEF Quiet
  <2>2. \A left, right : Meetings(left, right)' = Meetings(left, right)
    BY <2>1 DEF Meetings
  <2>3. \A i : PfnOf(i)' = PfnOf(i) BY <2>1 DEF PfnOf
  <2>4. \A c \in Classes : counts[c] = Cardinality({i \in DOMAIN seen : seen[i] = c})
    BY DEF SummaryTrue
  <2>5. /\ slabToUser = Cardinality(Meetings({"slab"}, Users))
        /\ otherToUser = Cardinality(Meetings({"other"}, Users))
        /\ Len(samples) = IF slabToUser < MaxSamples THEN slabToUser ELSE MaxSamples
        /\ \A k \in DOMAIN samples :
              \E i \in Meetings({"slab"}, Users) :
                /\ samples[k].pfn = PfnOf(i) - 1 /\ samples[k].right = seen[i]
                /\ Cardinality({j \in Meetings({"slab"}, Users) : j < i}) = k - 1
    BY DEF SummaryTrue
  <2>6. \A c \in Classes : counts'[c] = Cardinality({i \in DOMAIN seen' : seen'[i] = c})
    BY <2>1, <2>4
  <2>7. \A k \in DOMAIN samples' :
          \E i \in Meetings({"slab"}, Users)' :
            /\ samples'[k].pfn = PfnOf(i)' - 1 /\ samples'[k].right = seen'[i]
            /\ Cardinality({j \in Meetings({"slab"}, Users)' : j < i}) = k - 1
    BY <2>1, <2>2, <2>3, <2>5
  <2>8. /\ slabToUser' = Cardinality(Meetings({"slab"}, Users)')
        /\ otherToUser' = Cardinality(Meetings({"other"}, Users)')
        /\ Len(samples') = IF slabToUser' < MaxSamples THEN slabToUser' ELSE MaxSamples
    BY <2>1, <2>2, <2>5
  <2> QED BY <2>6, <2>7, <2>8 DEF SummaryTrue
<1>2. ASSUME ScanFrame, NEW class \in Classes, Render(class) PROVE SummaryTrue'
  <2>1. pc = "scan" /\ opt' = opt BY <1>2, ScanCases
  <2>2. counts' = [counts EXCEPT ![class] = @ + 1] /\ seen' = Append(seen, class)
        /\ seen \in Seq(Classes)
    BY <1>2, <2>1, RenderTyped DEF ViewType
  <2>3. ASSUME NEW c \in Classes
        PROVE  counts'[c] = Cardinality({i \in DOMAIN seen : seen[i] = c})'
    <3>1. counts[c] = Cardinality(PlacesOf(c)) /\ counts \in [Classes -> Nat]
      BY DEF SummaryTrue, PlacesOf, ViewType
    <3>2. Cardinality(PlacesOf(c)') =
            IF c = class THEN Cardinality(PlacesOf(c)) + 1 ELSE Cardinality(PlacesOf(c))
      BY <2>2, Counted
    <3>3. counts'[c] = IF c = class THEN counts[c] + 1 ELSE counts[c] BY <2>2, <3>1
    <3>4. counts'[c] = Cardinality(PlacesOf(c)') BY <3>1, <3>2, <3>3
    <3> QED BY <3>4 DEF PlacesOf
  <2>4. /\ slabToUser' = Cardinality(Meetings({"slab"}, Users)')
        /\ otherToUser' = Cardinality(Meetings({"other"}, Users)')
        /\ Len(samples') = IF slabToUser' < MaxSamples THEN slabToUser' ELSE MaxSamples
        /\ \A k \in DOMAIN samples' : SampleIs(k)'
    BY <1>2, <2>1, RenderSamples
  <2> QED BY <2>3, <2>4 DEF SummaryTrue, SampleIs
<1> QED BY <1>1, <1>2, QuietSteps

LEMMA InitSummary == Init => SummaryTrue
<1> SUFFICES ASSUME Init PROVE SummaryTrue OBVIOUS
<1>1. seen = <<>> /\ samples = <<>> /\ slabToUser = 0 /\ otherToUser = 0
      /\ counts = [c \in Classes |-> 0]
  BY DEF Init
<1>2. DOMAIN seen = {} /\ Len(seen) = 0 /\ DOMAIN samples = {} /\ Len(samples) = 0
  BY <1>1
<1>3. \A left, right : Meetings(left, right) = {} BY <1>2 DEF Meetings
<1>4. Cardinality({}) = 0 BY FS_EmptySet
<1>5. \A c : {i \in DOMAIN seen : seen[i] = c} = {} BY <1>2
<1>6. \A c \in Classes : counts[c] = Cardinality({i \in DOMAIN seen : seen[i] = c})
  BY <1>1, <1>4, <1>5
<1>7. /\ slabToUser = Cardinality(Meetings({"slab"}, Users))
      /\ otherToUser = Cardinality(Meetings({"other"}, Users))
  BY <1>1, <1>3, <1>4
<1>8. Len(samples) = IF slabToUser < MaxSamples THEN slabToUser ELSE MaxSamples
  BY <1>1, <1>2, SamplesAssumption
<1> QED BY <1>2, <1>6, <1>7, <1>8 DEF SummaryTrue
-----------------------------------------------------------------------------
(***************************************************************************)
(* What was read of a frame was so.                                        *)
(***************************************************************************)
\* A frame that has not changed since it was read is still what it was then.
FramesInv ==
  /\ \A f \in Frames : Classify(mem[f]) \in was[f]
  /\ \A i \in DOMAIN seen :
       PfnOf(i) \in Frames \ moved => seen[i] = Classify(mem[PfnOf(i)])

\* Memory changes in one kind of step only.
LEMMA MemoryStays ==
  [Next]_vars => MemoryChanges \/ UNCHANGED <<mem, was, moved>>
BY DEF Next, vars, envVars, viewVars, ViewerStep, ParseArgs, Allocate, Open, ScanFrame, ScanDone, AskProbe,
       Submit, Probe, Probed, Finish, OthersWrite, OthersRead, ModuleChanges, Over,
       Write, LookStep, Read, Load, Unload

LEMMA NextFramesInv ==
  ViewType /\ RangeInv /\ ProbeInv /\ FramesInv /\ ScanTrue /\ [Next]_vars
  => FramesInv' /\ ScanTrue'
<1> SUFFICES ASSUME ViewType, RangeInv, ProbeInv, FramesInv, ScanTrue, [Next]_vars
             PROVE  FramesInv' /\ ScanTrue'
  OBVIOUS
<1>1. PICK m \in Nat : m > 0 /\ Word = 16 * m /\ Word \div 8 = 2 * m /\ Word \div 16 = m
  BY WordIs
<1>2. CASE MemoryChanges
  <2>1. UNCHANGED <<opt, seen>> BY <1>2 DEF MemoryChanges, viewVars, scanVars
  <2>2. PICK f \in Frames, flags \in Uses :
          /\ FrameChanges(f, flags)
          /\ was' = [was EXCEPT ![f] = @ \cup {Classify(flags)}]
          /\ moved' = IF FrameRead(f) THEN moved \cup {f} ELSE moved
    BY <1>2 DEF MemoryChanges
  <2>3. \A g \in Frames : mem'[g] = IF g = f THEN flags ELSE mem[g]
    BY <2>2 DEF FrameChanges, ProbeInv, ProbeType
  <2>4. \A g \in Frames : was[g] \subseteq was'[g] /\ was'[f] = was[f] \cup {Classify(flags)}
    BY <2>2 DEF ViewType
  <2>5. \A g \in Frames : Classify(mem'[g]) \in was'[g]
    <3> SUFFICES ASSUME NEW g \in Frames PROVE Classify(mem'[g]) \in was'[g] OBVIOUS
    <3>1. CASE g = f BY <2>3, <2>4, <3>1
    <3>2. CASE g # f BY <2>3, <2>4, <3>2 DEF FramesInv
    <3> QED BY <3>1, <3>2
  <2>6. \A g \in Frames : Classify(mem'[g]) \in was'[g] BY <2>5
  <2>7. \A i : PfnOf(i)' = PfnOf(i) BY <2>1 DEF PfnOf
  <2>8. ASSUME NEW i \in DOMAIN seen, PfnOf(i) \in Frames \ moved'
        PROVE  seen[i] = Classify(mem'[PfnOf(i)])
    <3>1. CASE PfnOf(i) = f
      <4>1. f < m /\ f \in Nat BY <1>1, ReachAssumption, FramesAssumption
      <4>2. f % (Word \div 8) = f BY <1>1, <4>1
      <4>3. opt.start + i - 1 = f BY <3>1 DEF PfnOf
      <4>4. FrameRead(f) BY <4>2, <4>3 DEF FrameRead
      <4> QED BY <2>2, <2>8, <3>1, <4>4
    <3>2. CASE PfnOf(i) # f
      <4>1. PfnOf(i) \in Frames \ moved BY <2>2, <2>8
      <4> QED BY <2>3, <3>2, <4>1 DEF FramesInv
    <3> QED BY <3>1, <3>2
  <2>9. FramesInv'
    <3>1. \A i \in DOMAIN seen' : PfnOf(i)' \in Frames \ moved'
             => seen'[i] = Classify(mem'[PfnOf(i)'])
      BY <2>1, <2>7, <2>8
    <3> QED BY <2>6, <3>1 DEF FramesInv
  <2>10. ScanTrue'
    <3>1. \A i \in DOMAIN seen' : PfnOf(i)' < Word \div 8 =>
            IF PfnOf(i)' \in Frames THEN seen'[i] \in was'[PfnOf(i)']
            ELSE seen'[i] = "offline"
      BY <2>1, <2>4, <2>7 DEF ScanTrue
    <3> QED BY <3>1 DEF ScanTrue
  <2> QED BY <2>9, <2>10
<1>3. CASE UNCHANGED <<mem, was, moved>> /\ Quiet
  BY <1>3 DEF Quiet, FramesInv, ScanTrue, PfnOf
<1>4. ASSUME UNCHANGED <<mem, was, moved>>, ScanFrame PROVE FramesInv' /\ ScanTrue'
  <2>1. CASE UNCHANGED scanVars
    <3>1. opt' = opt BY <1>4, ScanCases
    <3> QED BY <1>4, <2>1, <3>1 DEF scanVars, FramesInv, ScanTrue, PfnOf
  <2>2. CASE ~UNCHANGED scanVars
    <3>1. PICK class \in Classes :
            /\ Render(class)
            /\ pfn \in Frames => class = Classify(mem[pfn])
            /\ pfn \notin Frames /\ pfn < Word \div 8 => class = "offline"
      BY <1>4, <2>2, ScanCases
    <3>2. pc = "scan" /\ opt' = opt BY <1>4, ScanCases
    <3>3. seen' = Append(seen, class) /\ seen \in Seq(Classes)
      BY <3>1, <3>2, RenderTyped DEF ViewType
    <3>4. PICK q \in Nat : q = Len(seen) BY <3>3
    <3>5. /\ DOMAIN seen = 1..q /\ DOMAIN seen' = 1..q + 1 /\ seen'[q + 1] = class
          /\ \A i \in 1..q : seen'[i] = seen[i]
      BY <3>3, <3>4
    <3>6. pfn = opt.start + q /\ opt.start \in Nat
      BY <3>2, <3>4 DEF RangeInv, Begun, ViewType, Command
    <3>7. /\ \A i : PfnOf(i)' = PfnOf(i) /\ PfnOf(q + 1) = pfn
      BY <3>2, <3>6 DEF PfnOf
    <3>8. pfn \in Frames => pfn < Word \div 8
      BY <1>1, <3>6, ReachAssumption
    <3>9. \A i \in DOMAIN seen' : i \in DOMAIN seen \/ i = q + 1 BY <3>5
    <3>10. \A i \in DOMAIN seen' : PfnOf(i)' \in Frames \ moved'
             => seen'[i] = Classify(mem'[PfnOf(i)'])
      BY <1>4, <3>1, <3>5, <3>7, <3>9 DEF FramesInv
    <3>11. \A i \in DOMAIN seen' : PfnOf(i)' < Word \div 8 =>
             IF PfnOf(i)' \in Frames THEN seen'[i] \in was'[PfnOf(i)']
             ELSE seen'[i] = "offline"
      BY <1>4, <3>1, <3>5, <3>7, <3>9 DEF FramesInv, ScanTrue
    <3>12. \A f \in Frames : Classify(mem'[f]) \in was'[f] BY <1>4 DEF FramesInv
    <3> QED BY <3>10, <3>11, <3>12 DEF FramesInv, ScanTrue
  <2> QED BY <2>1, <2>2
<1>5. Quiet \/ ScanFrame BY QuietSteps
<1> QED BY <1>2, <1>3, <1>4, <1>5, MemoryStays

LEMMA InitFramesInv == Init => FramesInv /\ ScanTrue
BY DEF Init, FramesInv, ScanTrue

ScanInv == SummaryTrue /\ FramesInv /\ ScanTrue

LEMMA ScanHolds == Spec => []ScanInv
<1>1. Init => ScanInv BY InitSummary, InitFramesInv DEF ScanInv
<1>2. /\ ViewType /\ RangeInv /\ ProbeInv
      /\ ScanInv /\ [Next]_vars
      => ScanInv'
  BY NextSummary, NextFramesInv DEF ScanInv
<1> QED BY <1>1, <1>2, BaseHolds, PTL DEF Spec

LEMMA Typed == ViewType /\ ProbeInv => TypeOK
<1> SUFFICES ASSUME ViewType, ProbeInv PROVE TypeOK OBVIOUS
<1>1. \A g \in Globals \ {"valid"} : last[g] \in Nat
  <2>1. Globals \ {"valid"} = {"input", "checked", "hits", "offset"} BY DEF Globals
  <2> QED BY <2>1 DEF ProbeInv, ProbeType, LastRec
<1>2. {last.valid, loaded} \subseteq BOOLEAN BY DEF ProbeInv, ProbeType, LastRec
<1>3. \A w \in Writers : DOMAIN call[w] = DOMAIN Idle
  BY DEF ProbeInv, ProbeType, CallRec, Idle
<1>4. next \in 1..MaxSamples + 1 BY SamplesAssumption DEF ViewType
<1> QED BY <1>1, <1>2, <1>3, <1>4 DEF TypeOK, ViewType

\* The counts, the boundaries and the first of them are those of what was read, and
\* what was shown of a frame it was at some time of the scan, whatever changes.
THEOREM OutputIsTrue == Spec => []OutputTrue
<1>1. ViewType /\ ProbeInv /\ ScanInv => OutputTrue BY Typed DEF ScanInv, OutputTrue
<1> QED BY <1>1, BaseHolds, ScanHolds, PTL
-----------------------------------------------------------------------------
(***************************************************************************)
(* What the viewer asks the probe.                                         *)
(***************************************************************************)
Targets == Meetings({"slab"}, {"user-anon"})

\* A number the viewer submits follows slab memory it has seen, and it submits
\* none unless the module was there when it asked.
AskInv ==
  /\ Working(Viewer) => pc = "probe" /\ \E i \in Targets : call[Viewer].pfn = PfnOf(i)
  /\ \A c \in claims : /\ \E i \in Targets : c.pfn = PfnOf(i)
                       /\ c.taken \/ spent["loads"] > 0
  /\ haveProbe /\ spent["loads"] = 0 => loaded

\* The targets seen stay.
LEMMA TargetsStay ==
  ASSUME ViewType, [Next]_vars
  PROVE  \A i \in Targets : i \in Targets' /\ PfnOf(i)' = PfnOf(i)
<1>1. CASE Quiet
  <2>1. Targets' = Targets BY <1>1 DEF Quiet, Targets, Meetings
  <2>2. \A i : PfnOf(i)' = PfnOf(i) BY <1>1 DEF Quiet, PfnOf
  <2> QED BY <2>1, <2>2
<1>2. ASSUME ScanFrame, NEW class \in Classes, Render(class)
      PROVE  \A i \in Targets : i \in Targets' /\ PfnOf(i)' = PfnOf(i)
  <2>1. pc = "scan" /\ opt' = opt BY <1>2, ScanCases
  <2>2. seen' = Append(seen, class) /\ seen \in Seq(Classes)
    BY <1>2, <2>1, RenderTyped DEF ViewType
  <2>3. \A i : PfnOf(i)' = PfnOf(i) BY <2>1 DEF PfnOf
  <2>4. ASSUME NEW i \in Targets PROVE i \in Targets'
    <3>1. i \in 2..Len(seen) /\ seen[i - 1] \in {"slab"} /\ seen[i] \in {"user-anon"}
      BY <2>4 DEF Targets, Meetings
    <3>2. i \in 2..Len(seen') /\ seen'[i - 1] = seen[i - 1] /\ seen'[i] = seen[i]
      BY <2>2, <3>1
    <3> QED BY <3>1, <3>2 DEF Targets, Meetings
  <2> QED BY <2>3, <2>4
<1> QED BY <1>1, <1>2, QuietSteps

\* What happens to the viewer's call.
LEMMA LookKeeps ==
  ASSUME ProbeInv, NEW w \in Writers, LookStep(w)
  PROVE  /\ \A v \in Writers : Working(v)' => Working(v) /\ call'[v].pfn = call[v].pfn
         /\ loaded' = loaded
<1>1. call \in [Writers -> CallRec] BY DEF ProbeInv, ProbeType
<1>2. Working(w)
  BY DEF LookStep, SetInput, ClearHits, ClearOffset, ClearValid, SetChecked, Validate,
         PageSlab, Scan, CountHit, SetOffset, Steps, Working
<1>3. \/ call' = [call EXCEPT ![w] = Idle]
      \/ \E to : call' = [call EXCEPT ![w].at = to]
      \/ \E to, s : call' = [call EXCEPT ![w].at = to, ![w].slot = s]
      \/ \E to, n : call' = [call EXCEPT ![w].at = to, ![w].loaded = n]
      \/ \E s : call' = [call EXCEPT ![w].slot = s]
  BY DEF LookStep, SetInput, ClearHits, ClearOffset, ClearValid, SetChecked, Validate,
         PageSlab, Scan, CountHit, SetOffset, Steps, Ends
<1>4. call'[w] = Idle \/ call'[w].pfn = call[w].pfn
  <2>1. DOMAIN call[w] = {"at", "pfn", "slot", "loaded", "alone"} BY <1>1 DEF CallRec
  <2> QED BY <1>1, <1>3, <2>1
<1>5. \A v \in Writers : v # w => call'[v] = call[v] BY <1>1, <1>3
<1>6. loaded' = loaded BY DEF LookStep
<1> QED BY <1>2, <1>4, <1>5, <1>6 DEF Working, Idle

LEMMA WriteSets ==
  ASSUME ProbeInv, NEW w \in Writers, NEW q \in Nat, Write(w, q)
  PROVE  /\ call'[w].pfn = q
         /\ \A v \in Writers \ {w} : (Working(v)' => Working(v)) /\ call'[v].pfn = call[v].pfn
         /\ loaded' = loaded
<1>1. \A v \in Writers : DOMAIN call[v] = {"at", "pfn", "slot", "loaded", "alone"}
  BY DEF ProbeInv, ProbeType, CallRec
<1>2. \A v \in Writers \ {w} :
        call'[v] = [call[v] EXCEPT !.alone = FALSE]
  BY DEF Write
<1>3. call'[w].pfn = q BY DEF Write, Idle
<1>4. loaded' = loaded BY DEF Write
<1>5. \A v \in Writers \ {w} : call'[v].at = call[v].at /\ call'[v].pfn = call[v].pfn
  BY <1>1, <1>2
<1> QED BY <1>3, <1>4, <1>5 DEF Working

LEMMA NextAskInv ==
  ViewType /\ RangeInv /\ ProbeInv /\ ScanInv /\ AskInv /\ [Next]_vars => AskInv'
<1> SUFFICES ASSUME ViewType, RangeInv, ProbeInv, ScanInv, AskInv, [Next]_vars
             PROVE  AskInv'
  OBVIOUS
<1>0. \A i \in Targets : i \in Targets' /\ PfnOf(i)' = PfnOf(i) BY TargetsStay
<1>a. "loads" \in Kinds /\ spent["loads"] \in Nat BY DEF Kinds, ViewType
<1>1. CASE UNCHANGED vars \/ Over
  <2>1. UNCHANGED <<pc, call, claims, haveProbe, spent, loaded>>
    BY <1>1 DEF Over, vars, probeVars, viewVars, summaryVars, envVars
  <2>2. Working(Viewer)' <=> Working(Viewer) BY <2>1 DEF Working
  <2> QED BY <1>0, <2>1, <2>2 DEF AskInv
<1>2. CASE ParseArgs \/ Allocate \/ Open \/ ScanFrame \/ ScanDone \/ AskProbe \/ Probed
           \/ Finish
  <2>1. UNCHANGED <<call, loaded, claims, spent>>
    BY <1>2 DEF ParseArgs, Allocate, Open, ScanFrame, ScanDone, AskProbe, Probed, Finish,
                probeVars, summaryVars, envVars
  <2>2. ~Working(Viewer)
    BY <1>2 DEF ParseArgs, Allocate, Open, ScanFrame, ScanDone, AskProbe, Probed, Finish,
                AskInv
  <2>3. ~Working(Viewer)' BY <2>1, <2>2 DEF Working
  <2>4. haveProbe' = haveProbe \/ haveProbe' = loaded
    BY <1>2 DEF ParseArgs, Allocate, Open, ScanFrame, ScanDone, AskProbe, Probed, Finish,
                summaryVars
  <2> QED BY <1>0, <2>1, <2>3, <2>4 DEF AskInv
<1>3. CASE Submit
  <2> DEFINE s == samples[next]
  <2>1. pc = "samples" /\ next \in 1..Len(samples) BY <1>3 DEF Submit, ViewType
  <2>2. PICK k \in Nat : k = next /\ k \in DOMAIN samples BY <2>1 DEF ViewType
  <2>3. SampleIs(k) BY <2>2 DEF ScanInv, SummaryTrue, SampleIs
  <2>4. ~Working(Viewer) BY <2>1 DEF AskInv
  <2>5. UNCHANGED <<haveProbe, spent>> BY <1>3 DEF Submit, envVars
  <2>6. CASE ~Wanted(s)
    <3>1. UNCHANGED <<call, loaded, claims>> BY <1>3, <2>6 DEF Submit, probeVars
    <3>2. ~Working(Viewer)' BY <2>4, <3>1 DEF Working
    <3> QED BY <1>0, <2>5, <3>1, <3>2 DEF AskInv
  <2>7. CASE Wanted(s)
    <3>1. PICK i \in Meetings({"slab"}, Users) :
            s.pfn = PfnOf(i) - 1 /\ s.right = seen[i]
      BY <2>2, <2>3 DEF SampleIs
    <3>2. i \in Targets /\ i \in 2..Len(seen)
      BY <2>7, <3>1 DEF Wanted, Targets, Meetings
    <3>3. Submitted(s) = PfnOf(i)
      <4>1. PICK q \in Nat : q = PfnOf(i) /\ q >= 1 /\ q < Word
        BY <2>1, <3>2, WordAssumption DEF PfnOf, RangeInv, Begun, ViewType, Command
      <4>2. s.pfn + 1 = q BY <3>1, <4>1
      <4> QED BY <4>1, <4>2, WordAssumption DEF Submitted
    <3>4. claims' = claims \cup {[pfn |-> Submitted(s), taken |-> loaded]}
      BY <1>3, <2>7 DEF Submit
    <3>5. haveProbe BY <2>7 DEF Wanted
    <3>6. loaded \/ spent["loads"] > 0 BY <1>a, <3>5 DEF AskInv
    <3>7. \A c \in claims' : /\ \E j \in Targets' : c.pfn = PfnOf(j)'
                             /\ c.taken \/ spent'["loads"] > 0
      BY <1>0, <2>5, <3>2, <3>3, <3>4, <3>6 DEF AskInv
    <3>8. CASE loaded
      <4>1. Write(Viewer, Submitted(s)) /\ pc' = "probe"
        BY <1>3, <2>7, <3>8 DEF Submit, Goto
      <4>2. Submitted(s) \in Nat
        BY <2>1, <3>2, <3>3 DEF PfnOf, ViewType, Command
      <4>3. PICK q \in Nat : q = Submitted(s) BY <4>2
      <4>4. call'[Viewer].pfn = q /\ loaded' = loaded
        BY <4>1, <4>3, WriteSets, ViewerAssumption
      <4>5. \E j \in Targets' : call'[Viewer].pfn = PfnOf(j)'
        BY <1>0, <3>2, <3>3, <4>3, <4>4
      <4>6. haveProbe' /\ spent'["loads"] = 0 => loaded' BY <3>8, <4>4
      <4> QED BY <3>7, <4>1, <4>5, <4>6 DEF AskInv
    <3>9. CASE ~loaded
      <4>1. UNCHANGED <<call, loaded>> BY <1>3, <2>7, <3>9 DEF Submit, probeVars
      <4>2. ~Working(Viewer)' BY <2>4, <4>1 DEF Working
      <4>3. haveProbe' /\ spent'["loads"] = 0 => loaded' BY <2>5, <4>1 DEF AskInv
      <4> QED BY <3>7, <4>2, <4>3 DEF AskInv
    <3> QED BY <3>8, <3>9
  <2> QED BY <2>6, <2>7
<1>4. CASE Probe
  <2>1. UNCHANGED <<pc, claims, haveProbe, spent>> /\ LookStep(Viewer)
    BY <1>4 DEF Probe, viewVars, summaryVars, envVars
  <2>2. /\ Working(Viewer)' => Working(Viewer) /\ call'[Viewer].pfn = call[Viewer].pfn
        /\ loaded' = loaded
    BY <2>1, LookKeeps, ViewerAssumption
  <2> QED BY <1>0, <2>1, <2>2 DEF AskInv
<1>5. CASE MemoryChanges \/ OthersWrite \/ OthersRead \/ ModuleChanges
  <2>1. UNCHANGED <<pc, claims, haveProbe>> /\ spent'["loads"] \in Nat
        /\ spent'["loads"] >= spent["loads"]
    BY <1>5, <1>a, OthersTyped DEF viewVars, summaryVars
  <2>2. /\ Working(Viewer)' => Working(Viewer) /\ call'[Viewer].pfn = call[Viewer].pfn
        /\ loaded' = loaded \/ spent'["loads"] > 0
    <3>1. CASE MemoryChanges
      <4>1. PICK f \in Frames, flags \in Uses : FrameChanges(f, flags)
        BY <3>1 DEF MemoryChanges
      <4>2. call[Viewer] \in CallRec
        BY ViewerAssumption DEF ProbeInv, ProbeType
      <4>3. call'[Viewer] = call[Viewer]
              \/ call'[Viewer] = [call[Viewer] EXCEPT !.alone = FALSE]
        BY <4>1, ViewerAssumption DEF FrameChanges
      <4>4. call'[Viewer].at = call[Viewer].at /\ call'[Viewer].pfn = call[Viewer].pfn
        BY <4>2, <4>3 DEF CallRec
      <4>5. loaded' = loaded BY <4>1 DEF FrameChanges
      <4> QED BY <4>4, <4>5 DEF Working
    <3>2. CASE OthersWrite
      <4>1. ASSUME NEW w \in Writers \ {Viewer}, NEW q \in Numbers, Write(w, q)
            PROVE  /\ Working(Viewer)' => /\ Working(Viewer)
                                          /\ call'[Viewer].pfn = call[Viewer].pfn
                   /\ loaded' = loaded
        BY <4>1, WriteSets, ViewerAssumption, NumbersAssumption
      <4>2. ASSUME NEW w \in Writers \ {Viewer}, LookStep(w)
            PROVE  /\ Working(Viewer)' => /\ Working(Viewer)
                                          /\ call'[Viewer].pfn = call[Viewer].pfn
                   /\ loaded' = loaded
        BY <4>2, LookKeeps, ViewerAssumption
      <4> QED BY <3>2, <4>1, <4>2 DEF OthersWrite
    <3>3. CASE OthersRead
      <4>1. UNCHANGED <<call, loaded>> BY <3>3 DEF OthersRead, Read
      <4> QED BY <4>1 DEF Working
    <3>4. CASE ModuleChanges
      <4>1. UNCHANGED call BY <3>4 DEF ModuleChanges, Load, Unload
      <4>2. spent' = [spent EXCEPT !["loads"] = @ + 1] BY <3>4 DEF ModuleChanges, Spend
      <4>3. spent'["loads"] = spent["loads"] + 1 BY <1>a, <4>2 DEF ViewType
      <4> QED BY <1>a, <4>1, <4>3 DEF Working
    <3> QED BY <1>5, <3>1, <3>2, <3>3, <3>4
  <2>3. spent["loads"] > 0 => spent'["loads"] > 0 BY <1>a, <2>1
  <2>4. Working(Viewer)' =>
          pc' = "probe" /\ \E i \in Targets' : call'[Viewer].pfn = PfnOf(i)'
    BY <1>0, <2>1, <2>2 DEF AskInv
  <2>5. \A c \in claims' : /\ \E i \in Targets' : c.pfn = PfnOf(i)'
                           /\ c.taken \/ spent'["loads"] > 0
    BY <1>0, <2>1, <2>3 DEF AskInv
  <2>6. haveProbe' /\ spent'["loads"] = 0 => loaded' BY <1>a, <2>1, <2>2 DEF AskInv
  <2> QED BY <2>4, <2>5, <2>6 DEF AskInv
<1> QED BY <1>1, <1>2, <1>3, <1>4, <1>5 DEF Next, ViewerStep

LEMMA InitAskInv == Init => AskInv
<1> SUFFICES ASSUME Init PROVE AskInv OBVIOUS
<1>1. ~Working(Viewer) BY ViewerAssumption DEF Init, ProbeInit, Working, Idle
<1> QED BY <1>1 DEF Init, AskInv

\* A look for a number the viewer submitted finds the slab it has seen there.
LEMMA BoundaryLook ==
  ViewType /\ RangeInv /\ ProbeInv /\ ScanInv /\ AskInv => BoundariesProbed
<1> SUFFICES ASSUME ViewType, RangeInv, ProbeInv, ScanInv, AskInv PROVE BoundariesProbed
  OBVIOUS
<1>1. SubmitsBoundaries BY DEF AskInv, SubmitsBoundaries, Targets
<1>2. ASSUME NEW c \in claims, solo, last.input = c.pfn, c.pfn - 1 \in Frames \ moved
      PROVE  last.valid /\ (Objects[c.pfn - 1] # {} => last.hits = 1)
  <2>1. PICK i \in Targets : c.pfn = PfnOf(i) BY DEF AskInv
  <2>2. i \in 2..Len(seen) /\ seen[i - 1] = "slab" BY DEF Targets, Meetings
  <2>3. PICK q \in Nat : q = c.pfn BY <2>1, <2>2 DEF PfnOf, ViewType, Command
  <2>4. q - 1 \in Nat /\ q # 0 BY <1>2, <2>3, FramesAssumption
  <2>5. IsLookAt(q, last) BY <1>2, <2>3 DEF ProbeInv, SoloInv
  <2>6. last.valid BY <1>2, <2>3, <2>4, <2>5 DEF IsLookAt, Before
  <2>7. PICK j \in Nat : j = i - 1 /\ j \in DOMAIN seen BY <2>2 DEF ViewType
  <2>8. PfnOf(j) = q - 1
    BY <2>1, <2>2, <2>3, <2>7 DEF PfnOf, ViewType, Command
  <2>9. Classify(mem[q - 1]) = "slab"
    BY <1>2, <2>2, <2>3, <2>7, <2>8 DEF ScanInv, FramesInv
  <2>10. "SLAB" \in mem[q - 1]
    <3>1. PICK flags : flags = mem[q - 1] OBVIOUS
    <3> QED BY <2>9, <3>1, ClassifyIs
  <2>11. ASSUME Objects[q - 1] # {} PROVE last.hits = 1
    <3>1. PICK o \in Objects[q - 1] : TRUE BY <2>11
    <3>2. o \in Slots BY <1>2, <2>3, <3>1, ObjectsAssumption
    <3>3. HasObject(q)
      BY <1>2, <2>3, <2>4, <2>10, <3>1, <3>2 DEF HasObject, Accepts, Before
    <3> QED BY <2>5, <3>3 DEF IsLookAt
  <2> QED BY <2>3, <2>6, <2>11
<1>3. BoundaryProbed BY <1>2 DEF BoundaryProbed
<1> QED BY <1>1, <1>3 DEF BoundariesProbed

\* Every number the viewer submits follows slab memory it has seen before a user's,
\* and an undisturbed look for it finds the frame and its object.
THEOREM BoundariesAreProbed == Spec => []BoundariesProbed
<1>1. Spec => []AskInv
  BY BaseHolds, ScanHolds, InitAskInv, NextAskInv, PTL DEF Spec
<1> QED BY <1>1, BaseHolds, ScanHolds, BoundaryLook, PTL
-----------------------------------------------------------------------------
(***************************************************************************)
(* Success.                                                                *)
(***************************************************************************)
Complete == Len(seen) = opt.count \/ (opt.stopOnEof /\ Entry(pfn).rc = "eof")

\* From the summary on the range has been shown.
CompleteInv ==
  pc \in {"summary", "samples", "probe"} \/ (status = 0 /\ opt.kind = "scan") => Complete

LEMMA NextCompleteInv ==
  ViewType /\ RangeInv /\ CompleteInv /\ [Next]_vars => CompleteInv'
<1> SUFFICES ASSUME ViewType, RangeInv, CompleteInv, [Next]_vars PROVE CompleteInv'
  OBVIOUS
<1> DEFINE Late == pc \in {"summary", "samples", "probe"} \/ (status = 0 /\ opt.kind = "scan")
<1>1. PICK p \in Nat : p = pfn BY DEF ViewType
<1>2. (Entry(p).rc)' = Entry(p).rc BY EntryRc
<1>3. ASSUME Complete, UNCHANGED <<seen, opt, pfn>> PROVE Complete'
  BY <1>1, <1>2, <1>3 DEF Complete
<1>4. CASE Quiet /\ UNCHANGED pfn
  <2>1. UNCHANGED <<seen, opt, pfn>> BY <1>4 DEF Quiet
  <2>2. CASE Late BY <1>3, <2>1, <2>2 DEF CompleteInv
  <2>3. CASE ~Late
    <3>1. CASE ScanDone
      <4>1. pc = "scan" /\ pfn = opt.start + opt.count BY <3>1 DEF ScanDone
      <4>2. pfn = opt.start + Len(seen) /\ Len(seen) \in Nat
        BY <4>1 DEF RangeInv, Begun, ViewType
      <4>3. Len(seen) = opt.count BY <4>1, <4>2 DEF ViewType, Command
      <4>4. Complete BY <4>3 DEF Complete
      <4> QED BY <1>3, <2>1, <4>4 DEF CompleteInv
    <3>2. CASE Entry(pfn).rc = "eof" /\ opt.stopOnEof
      <4>1. Complete BY <3>2 DEF Complete
      <4> QED BY <1>3, <2>1, <4>1 DEF CompleteInv
    <3>3. CASE Open
      <4>1. pc = "open" /\ status = -1 BY <3>3 DEF Open, ViewType
      <4>2. (pc' = "scan" /\ status' = status) \/ (status' \in {1, 2} /\ pc' = "exit")
        BY <3>3 DEF Open, Exit, Goto
      <4> QED BY <4>1, <4>2 DEF CompleteInv
    <3>4. CASE ~ScanDone /\ ~(Entry(pfn).rc = "eof" /\ opt.stopOnEof) /\ ~Open
      <4>1. ~Late'
        BY <2>1, <2>3, <3>4, PlaceMoves DEF ViewType
      <4> QED BY <4>1 DEF CompleteInv
    <3> QED BY <3>1, <3>2, <3>3, <3>4
  <2> QED BY <2>2, <2>3
<1>5. CASE Open
  <2>1. pc = "open" /\ status = -1 BY <1>5 DEF Open, ViewType
  <2>2. (pc' = "scan" /\ status' = status) \/ (status' \in {1, 2} /\ pc' = "exit")
    BY <1>5 DEF Open, Exit, Goto
  <2> QED BY <2>1, <2>2 DEF CompleteInv
<1>6. ASSUME ScanFrame, NEW class \in Classes, Render(class) PROVE CompleteInv'
  <2>1. pc = "scan" /\ status = -1 BY <1>6, ScanCases DEF ViewType
  <2>2. pc' = "scan" /\ status' = status BY <1>6, <2>1, RenderTyped
  <2> QED BY <2>1, <2>2 DEF CompleteInv
<1> QED BY <1>4, <1>5, <1>6, QuietSteps

\* Success means that the whole range was shown, or that the rest lies past the last
\* frame and the end of the file was to stop the scan.
THEOREM SuccessIsWhole == Spec => []SuccessIsComplete
<1>1. Init => CompleteInv BY DEF Init, CompleteInv
<1>2. Spec => []CompleteInv
  BY <1>1, NextCompleteInv, BaseHolds, PTL DEF Spec
<1>3. CompleteInv => SuccessIsComplete BY DEF CompleteInv, Complete, SuccessIsComplete
<1> QED BY <1>2, <1>3, PTL
=============================================================================
