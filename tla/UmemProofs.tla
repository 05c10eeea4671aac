----------------------------- MODULE UmemProofs -----------------------------
(***************************************************************************)
(* Theorems about UmemPoke, for any processes, frames and writers.         *)
(***************************************************************************)
EXTENDS UmemPoke, FiniteSetTheorems, TLAPS

\* A writer that has passed the check does not hold the frame of zeros.
PastCheckNotZero == \A w \in Writers : pc[w] = "store" => page[w] # Zero

\* What the argument needs of the types.
Shapes == /\ word \in [AllFrames -> Values]
          /\ pc \in [Writers -> PCs]
          /\ DOMAIN page = Writers

ZeroInv == Shapes /\ PastCheckNotZero /\ ZeroStaysZero

LEMMA InitZero == Init => ZeroInv
BY FramesAssumption, ValuesAssumption
   DEF Init, ZeroInv, Shapes, PastCheckNotZero, ZeroStaysZero, AllFrames, PCs

\* What processes and memory management do to a word: they leave the frame of
\* zeros alone.
LEMMA KernelKeepsZero ==
  ASSUME ZeroInv, KernelStep
  PROVE  word' \in [AllFrames -> Values] /\ word'[Zero] = 0 /\ UNCHANGED writerVars
<1> USE FramesAssumption DEF ZeroInv, Shapes, ZeroStaysZero, AllFrames
<1> DEFINE Kept == word' \in [AllFrames -> Values] /\ word'[Zero] = 0
                   /\ UNCHANGED writerVars
<1>1. ASSUME NEW t \in Tasks, Starts(t) PROVE Kept
  BY <1>1 DEF Starts, Born
<1>2. ASSUME NEW t \in Tasks, Ends(t) PROVE Kept
  BY <1>2 DEF Ends
<1>3. ASSUME NEW t \in Tasks, Reaped(t) PROVE Kept
  BY <1>3 DEF Reaped, memVars
<1>4. ASSUME NEW t \in Tasks, Reads(t) PROVE Kept
  BY <1>4 DEF Reads, Maps
<1>5. ASSUME NEW t \in Tasks, Unmaps(t) PROVE Kept
  BY <1>5 DEF Unmaps
<1>6. ASSUME NEW t \in Tasks, NEW v \in Values, WritesInPlace(t, v) PROVE Kept
  BY <1>6 DEF WritesInPlace
<1>7. ASSUME NEW t \in Tasks, NEW v \in Values, WritesCopy(t, v) PROVE Kept
  BY <1>7 DEF WritesCopy, Maps, FreeFrames
<1>8. ASSUME NEW t \in Tasks, NEW u \in Tasks, Forks(t, u) PROVE Kept
  BY <1>8 DEF Forks, Born
<1>9. ASSUME NEW t \in Tasks, NEW u \in Tasks, Merges(t, u) PROVE Kept
  BY <1>9 DEF Merges
<1>10. CASE CacheFills
  BY <1>10 DEF CacheFills, FreeFrames
<1>11. CASE CacheDrops
  BY <1>11 DEF CacheDrops
<1> QED
  BY <1>1, <1>2, <1>3, <1>4, <1>5, <1>6, <1>7, <1>8, <1>9, <1>10, <1>11
     DEF KernelStep

\* What the handler does: it stores only past the check.
LEMMA WriterKeepsZero ==
  ASSUME ZeroInv, NEW w \in Writers, WriterStep(w)
  PROVE  ZeroInv'
<1> USE FramesAssumption
    DEF ZeroInv, Shapes, PastCheckNotZero, ZeroStaysZero, AllFrames, PCs, Goes
<1>1. CASE Call(w)
  BY <1>1 DEF Call, memVars
<1>2. CASE FindTask(w)
  BY <1>2 DEF FindTask, memVars
<1>3. CASE GetMm(w)
  BY <1>3 DEF GetMm, memVars
<1>4. CASE LookUp(w)
  BY <1>4 DEF LookUp
<1>5. CASE Release(w)
  BY <1>5 DEF Release
<1>6. CASE Check(w)
  <2>1. CASE Goes(w, "check", "store") /\ Usable(page[w]) /\ UNCHANGED <<word, page>>
    BY <2>1 DEF Usable
  <2>2. CASE Goes(w, "check", "idle") /\ PutsPage(w) /\ UNCHANGED word
    BY <2>2 DEF PutsPage
  <2> QED BY <1>6, <2>1, <2>2 DEF Check, memVars
<1>7. CASE Store(w)
  BY <1>7 DEF Store, Hit
<1>8. CASE Put(w)
  BY <1>8 DEF Put, PutsPage
<1> QED
  BY <1>1, <1>2, <1>3, <1>4, <1>5, <1>6, <1>7, <1>8 DEF WriterStep

LEMMA NextZero == ZeroInv /\ [Next]_vars => ZeroInv'
<1> SUFFICES ASSUME ZeroInv, [Next]_vars PROVE ZeroInv'
  OBVIOUS
<1>1. CASE KernelStep
  BY <1>1, KernelKeepsZero
     DEF ZeroInv, Shapes, PastCheckNotZero, ZeroStaysZero, writerVars
<1>2. CASE \E w \in Writers : WriterStep(w)
  BY <1>2, WriterKeepsZero
<1>3. CASE UNCHANGED vars
  BY <1>3 DEF vars, memVars, writerVars, ZeroInv, Shapes, PastCheckNotZero,
              ZeroStaysZero
<1> QED
  BY <1>1, <1>2, <1>3 DEF Next

\* No sequence of requests, whatever the processes do meanwhile, changes what all
\* processes read as zero (is_zero_pfn(), line 106).
THEOREM ZeroKept == Spec => []ZeroStaysZero
<1>1. ZeroInv => ZeroStaysZero
  BY DEF ZeroInv
<1> QED
  BY <1>1, InitZero, NextZero, PTL DEF Spec
-----------------------------------------------------------------------------
(***************************************************************************)
(* References.  What counts them are the sizes of sets of processes and of *)
(* callers, of which a step moves at most one at a time.                   *)
(***************************************************************************)
\* Two sets that differ in x at most differ by x in their sizes.
LEMMA CountWithout ==
  ASSUME NEW S, IsFiniteSet(S), NEW A \in SUBSET S, NEW B \in SUBSET S, NEW x,
         A \ {x} = B \ {x}
  PROVE  /\ Cardinality(A) \in Nat /\ Cardinality(B) \in Nat
         /\ x \in A => Cardinality(A) > 0
         /\ Cardinality(B) = Cardinality(A) - (IF x \in A THEN 1 ELSE 0)
                                            + (IF x \in B THEN 1 ELSE 0)
<1>1. IsFiniteSet(A) /\ IsFiniteSet(B)
  BY FS_Subset
<1>2. /\ Cardinality(A) \in Nat /\ Cardinality(B) \in Nat
      /\ Cardinality(A \ {x}) \in Nat
  BY <1>1, FS_CardinalityType, FS_RemoveElement
<1>3. Cardinality(A \ {x}) = IF x \in A THEN Cardinality(A) - 1 ELSE Cardinality(A)
  BY <1>1, FS_RemoveElement
<1>4. Cardinality(B \ {x}) = IF x \in B THEN Cardinality(B) - 1 ELSE Cardinality(B)
  BY <1>1, FS_RemoveElement
<1>5. Cardinality(A \ {x}) = Cardinality(B \ {x})
  OBVIOUS
<1>6. CASE x \in A
  BY <1>2, <1>3, <1>4, <1>5, <1>6
<1>7. CASE x \notin A
  BY <1>2, <1>3, <1>4, <1>5, <1>7
<1> QED
  BY <1>6, <1>7

Holders(f) == {w \in Writers : page[w] = f}
Users(f) == Cardinality(Holders(f))
            + (IF f = Zero THEN 0 ELSE Cardinality(Mappers(f)))
            + (IF kind[f] = "file" THEN 1 ELSE 0)

\* A frame has as many references as users, and none when it is free.
FramesInv ==
  /\ map \in [Tasks -> AllFrames \cup {None}]
  /\ kind \in [AllFrames -> Kinds] /\ refs \in [AllFrames -> Nat]
  /\ page \in [Writers -> AllFrames \cup {None}]
  /\ \A f \in AllFrames : refs[f] = Users(f)
  /\ \A f \in Frames : kind[f] = "free" => refs[f] = 0
  /\ kind[Zero] = "zero"

\* One process less or more that maps a frame, one caller less or more that holds it.
LEMMA MapperMoves ==
  ASSUME FramesInv, NEW t \in Tasks, \A o \in Tasks \ {t} : map'[o] = map[o], NEW f
  PROVE  /\ Cardinality(Mappers(f)) \in Nat /\ Cardinality(Mappers(f)') \in Nat
         /\ map[t] = f => Cardinality(Mappers(f)) > 0
         /\ Cardinality(Mappers(f)') = Cardinality(Mappers(f))
              - (IF map[t] = f THEN 1 ELSE 0) + (IF map'[t] = f THEN 1 ELSE 0)
<1>1. Mappers(f) \in SUBSET Tasks /\ Mappers(f)' \in SUBSET Tasks
  BY DEF Mappers
<1>2. /\ t \in Mappers(f) <=> map[t] = f
      /\ t \in Mappers(f)' <=> map'[t] = f
      /\ Mappers(f) \ {t} = Mappers(f)' \ {t}
  BY DEF Mappers, FramesInv
<1> QED
  BY <1>1, <1>2, CountWithout, TasksAssumption

LEMMA HolderMoves ==
  ASSUME FramesInv, NEW w \in Writers, \A o \in Writers \ {w} : page'[o] = page[o], NEW f
  PROVE  /\ Cardinality(Holders(f)) \in Nat /\ Cardinality(Holders(f)') \in Nat
         /\ page[w] = f => Cardinality(Holders(f)) > 0
         /\ Cardinality(Holders(f)') = Cardinality(Holders(f))
              - (IF page[w] = f THEN 1 ELSE 0) + (IF page'[w] = f THEN 1 ELSE 0)
<1>1. Holders(f) \in SUBSET Writers /\ Holders(f)' \in SUBSET Writers
  BY DEF Holders
<1>2. /\ w \in Holders(f) <=> page[w] = f
      /\ w \in Holders(f)' <=> page'[w] = f
      /\ Holders(f) \ {w} = Holders(f)' \ {w}
  BY DEF Holders, FramesInv
<1> QED
  BY <1>1, <1>2, CountWithout, WritersAssumption

\* The numbers are numbers, and whoever maps or holds a frame keeps it from being free.
LEMMA InUse ==
  ASSUME FramesInv, NEW f \in AllFrames
  PROVE  /\ Cardinality(Mappers(f)) \in Nat /\ Cardinality(Holders(f)) \in Nat
         /\ \A t \in Tasks : map[t] = f /\ f # Zero => refs[f] > 0 /\ kind[f] # "free"
         /\ \A w \in Writers : page[w] = f => refs[f] > 0 /\ kind[f] # "free"
<1>1. /\ Mappers(f) \in SUBSET Tasks /\ Holders(f) \in SUBSET Writers
  BY DEF Mappers, Holders
<1>2. /\ Cardinality(Mappers(f)) \in Nat /\ Cardinality(Holders(f)) \in Nat
      /\ \A t \in Mappers(f) : Cardinality(Mappers(f)) > 0
      /\ \A w \in Holders(f) : Cardinality(Holders(f)) > 0
  BY <1>1, CountWithout, TasksAssumption, WritersAssumption
<1>3. refs[f] = Users(f) /\ (f # Zero => f \in Frames) /\ kind[Zero] # "free"
      /\ (f \in Frames /\ kind[f] = "free" => refs[f] = 0)
  BY DEF FramesInv, AllFrames
<1>4. ASSUME NEW t \in Tasks, map[t] = f, f # Zero PROVE refs[f] > 0 /\ kind[f] # "free"
  BY <1>2, <1>3, <1>4 DEF Users, Mappers
<1>5. ASSUME NEW w \in Writers, page[w] = f PROVE refs[f] > 0 /\ kind[f] # "free"
  <2>1. Cardinality(Holders(f)) > 0
    BY <1>2, <1>5 DEF Holders
  <2>2. refs[f] > 0
    BY <1>2, <1>3, <2>1 DEF Users
  <2> QED
    BY <1>3, <2>2
<1> QED
  BY <1>2, <1>4, <1>5
\* Ref and Unref count one frame, and not the frame of zeros.
LEMMA OneReference ==
  ASSUME NEW r \in [AllFrames -> Int], NEW f
  PROVE  /\ Ref(r, f) \in [AllFrames -> Int] /\ Unref(r, f) \in [AllFrames -> Int]
         /\ \A g \in AllFrames :
              /\ Ref(r, f)[g] = r[g] + (IF f = g /\ g # Zero THEN 1 ELSE 0)
              /\ Unref(r, f)[g] = r[g] - (IF f = g /\ g # Zero THEN 1 ELSE 0)
BY FramesAssumption DEF Ref, Unref, AllFrames

\* Frames keep what they are used for, or are freed because nobody refers to them:
\* then it is enough that the new references count the new users.
LEMMA Recounted ==
  ASSUME FramesInv,
         map' \in [Tasks -> AllFrames \cup {None}], kind' \in [AllFrames -> Kinds],
         refs' \in [AllFrames -> Int], page' \in [Writers -> AllFrames \cup {None}],
         \A g \in AllFrames :
           /\ Cardinality(Holders(g)') \in Nat /\ Cardinality(Mappers(g)') \in Nat
           /\ refs'[g] = Cardinality(Holders(g)')
                         + (IF g = Zero THEN 0 ELSE Cardinality(Mappers(g)'))
                         + (IF kind[g] = "file" THEN 1 ELSE 0)
           /\ \/ kind'[g] = KindsAfter(refs')[g]
              \/ /\ kind'[g] = "file" <=> kind[g] = "file"
                 /\ kind'[g] = "free" => kind[g] = "free"
                 /\ g = Zero => kind'[g] = "zero"
           /\ kind[g] = "free" /\ kind'[g] = "free" => refs'[g] = 0
  PROVE  FramesInv'
<1>1. ASSUME NEW g \in AllFrames
      PROVE  /\ kind'[g] = "file" <=> kind[g] = "file"
             /\ g \in Frames /\ kind'[g] = "free" => refs'[g] = 0
             /\ g = Zero => kind'[g] = "zero"
  <2>1. refs'[g] \in Nat /\ (kind[g] = "file" => refs'[g] # 0)
    OBVIOUS
  <2>2. CASE kind'[g] = KindsAfter(refs')[g]
    BY <2>1, <2>2, FramesAssumption DEF KindsAfter, FramesInv, AllFrames
  <2>3. CASE kind'[g] # KindsAfter(refs')[g]
    BY <2>3
  <2> QED
    BY <2>2, <2>3
<1>2. ASSUME NEW g \in AllFrames
      PROVE  refs'[g] = Users(g)' /\ refs'[g] \in Nat
  BY <1>1 DEF Users
<1>3. refs' \in [AllFrames -> Nat]
  BY <1>2
<1> QED
  BY <1>1, <1>2, <1>3 DEF FramesInv, AllFrames

\* A process maps another frame than it did, or none.
LEMMA MapsCounted ==
  ASSUME FramesInv, NEW t \in Tasks, NEW f \in AllFrames \cup {None},
         map' = [map EXCEPT ![t] = f], refs' = Ref(Unref(refs, map[t]), f),
         UNCHANGED page, NEW g \in AllFrames
  PROVE  /\ map' \in [Tasks -> AllFrames \cup {None}] /\ refs' \in [AllFrames -> Int]
         /\ page' \in [Writers -> AllFrames \cup {None}]
         /\ Cardinality(Holders(g)') \in Nat /\ Cardinality(Mappers(g)') \in Nat
         /\ refs'[g] = Cardinality(Holders(g)')
                       + (IF g = Zero THEN 0 ELSE Cardinality(Mappers(g)'))
                       + (IF kind[g] = "file" THEN 1 ELSE 0)
         /\ g # f => refs'[g] <= refs[g]
<1>1. /\ map' \in [Tasks -> AllFrames \cup {None}]
      /\ page' \in [Writers -> AllFrames \cup {None}]
      /\ refs[g] = Users(g) /\ refs \in [AllFrames -> Int]
  BY DEF FramesInv
<1>2. Holders(g)' = Holders(g)
  BY DEF Holders
<1>3. Cardinality(Holders(g)) \in Nat
  BY InUse
<1>4. /\ Cardinality(Mappers(g)) \in Nat /\ Cardinality(Mappers(g)') \in Nat
      /\ Cardinality(Mappers(g)') = Cardinality(Mappers(g))
              - (IF map[t] = g THEN 1 ELSE 0) + (IF f = g THEN 1 ELSE 0)
  <2>1. (\A o \in Tasks \ {t} : map'[o] = map[o]) /\ map'[t] = f
    BY DEF FramesInv
  <2> QED BY <2>1, MapperMoves
<1>5. /\ refs' \in [AllFrames -> Int]
      /\ refs'[g] = refs[g] - (IF map[t] = g /\ g # Zero THEN 1 ELSE 0)
                            + (IF f = g /\ g # Zero THEN 1 ELSE 0)
  BY <1>1, OneReference
<1> QED
  BY <1>1, <1>2, <1>3, <1>4, <1>5 DEF Users
\* No reference to a frame that is none.
LEMMA NoneUncounted == \A r : Ref(r, None) = r /\ Unref(r, None) = r
BY FramesAssumption DEF Ref, Unref

LEMMA BornFrames ==
  ASSUME FramesInv, NEW u \in Tasks, NEW f \in AllFrames \cup {None}, Born(u, f),
         map[u] = None, f \in Frames => kind[f] # "free"
  PROVE  FramesInv'
<1>1. /\ map' = [map EXCEPT ![u] = f] /\ refs' = Ref(Unref(refs, map[u]), f)
      /\ UNCHANGED page /\ kind' = kind
  BY NoneUncounted DEF Born, writerVars
<1>2. kind' \in [AllFrames -> Kinds] /\ kind[Zero] = "zero"
  BY <1>1 DEF FramesInv
<1>3. ASSUME NEW g \in AllFrames, kind[g] = "free" PROVE refs'[g] = 0
  <2>1. g \in Frames /\ refs[g] = 0 /\ g # f
    BY <1>2, <1>3 DEF FramesInv, AllFrames
  <2>2. refs'[g] <= refs[g] /\ refs'[g] = Cardinality(Holders(g)')
                       + (IF g = Zero THEN 0 ELSE Cardinality(Mappers(g)'))
                       + (IF kind[g] = "file" THEN 1 ELSE 0)
        /\ Cardinality(Holders(g)') \in Nat /\ Cardinality(Mappers(g)') \in Nat
    BY <1>1, <2>1, MapsCounted
  <2> QED
    BY <2>1, <2>2
<1>4. ASSUME NEW g \in AllFrames
      PROVE  /\ Cardinality(Holders(g)') \in Nat /\ Cardinality(Mappers(g)') \in Nat
             /\ refs'[g] = Cardinality(Holders(g)')
                       + (IF g = Zero THEN 0 ELSE Cardinality(Mappers(g)'))
                       + (IF kind[g] = "file" THEN 1 ELSE 0)
  BY <1>1, MapsCounted
<1>5. /\ map' \in [Tasks -> AllFrames \cup {None}] /\ refs' \in [AllFrames -> Int]
      /\ page' \in [Writers -> AllFrames \cup {None}]
  BY <1>1, OneReference DEF FramesInv
<1> QED
  BY <1>1, <1>2, <1>3, <1>4, <1>5, Recounted

\* The frame that a process gives up is freed if nobody else refers to it.
LEMMA UnmapsFrames ==
  ASSUME FramesInv, NEW t \in Tasks, map' = [map EXCEPT ![t] = None],
         refs' = Unref(refs, map[t]), kind' = KindsAfter(refs'), UNCHANGED page
  PROVE  FramesInv'
<1>1. refs' = Ref(Unref(refs, map[t]), None)
  BY NoneUncounted
<1>2. kind' \in [AllFrames -> Kinds]
  BY DEF FramesInv, KindsAfter, Kinds
<1>3. ASSUME NEW g \in AllFrames, kind[g] = "free" PROVE refs'[g] = 0
  <2>1. g \in Frames /\ refs[g] = 0 /\ g # None
    BY <1>3, FramesAssumption DEF FramesInv, AllFrames
  <2>2. refs'[g] <= refs[g] /\ refs'[g] = Cardinality(Holders(g)')
                       + (IF g = Zero THEN 0 ELSE Cardinality(Mappers(g)'))
                       + (IF kind[g] = "file" THEN 1 ELSE 0)
        /\ Cardinality(Holders(g)') \in Nat /\ Cardinality(Mappers(g)') \in Nat
    BY <1>1, <2>1, MapsCounted
  <2> QED
    BY <2>1, <2>2
<1>4. ASSUME NEW g \in AllFrames
      PROVE  /\ Cardinality(Holders(g)') \in Nat /\ Cardinality(Mappers(g)') \in Nat
             /\ refs'[g] = Cardinality(Holders(g)')
                       + (IF g = Zero THEN 0 ELSE Cardinality(Mappers(g)'))
                       + (IF kind[g] = "file" THEN 1 ELSE 0)
  BY <1>1, MapsCounted
<1>5. /\ map' \in [Tasks -> AllFrames \cup {None}] /\ refs' \in [AllFrames -> Int]
      /\ page' \in [Writers -> AllFrames \cup {None}]
  <2>1. /\ map' \in [Tasks -> AllFrames \cup {None}] /\ refs \in [AllFrames -> Int]
        /\ page' \in [Writers -> AllFrames \cup {None}]
    BY DEF FramesInv
  <2> QED
    BY <2>1, OneReference
<1> QED
  BY <1>1, <1>2, <1>3, <1>4, <1>5, Recounted

\* While others use the mm, its memory stays.
LEMMA MmPutFrames ==
  ASSUME FramesInv, NEW t \in Tasks, MmPut(t), UNCHANGED page
  PROVE  FramesInv'
<1>1. CASE mmUsers[t] = 1
  BY <1>1, UnmapsFrames DEF MmPut
<1>2. CASE mmUsers[t] # 1
  <2>1. UNCHANGED <<map, refs, page>> /\ kind' = KindsAfter(refs')
    BY <1>2 DEF MmPut
  <2>2. ASSUME NEW g \in AllFrames
        PROVE  /\ Cardinality(Holders(g)') \in Nat /\ Cardinality(Mappers(g)') \in Nat
               /\ refs'[g] = Cardinality(Holders(g)')
                         + (IF g = Zero THEN 0 ELSE Cardinality(Mappers(g)'))
                         + (IF kind[g] = "file" THEN 1 ELSE 0)
               /\ kind[g] = "free" => refs'[g] = 0
    <3>1. Holders(g)' = Holders(g) /\ Mappers(g)' = Mappers(g)
      BY <2>1 DEF Holders, Mappers
    <3>2. refs[g] = Users(g) /\ (kind[g] = "free" => refs[g] = 0)
      BY DEF FramesInv, AllFrames
    <3> QED
      BY <2>1, <3>1, <3>2, InUse DEF Users
  <2>3. /\ map' \in [Tasks -> AllFrames \cup {None}] /\ kind' \in [AllFrames -> Kinds]
        /\ refs' \in [AllFrames -> Int] /\ page' \in [Writers -> AllFrames \cup {None}]
    BY <2>1 DEF FramesInv, KindsAfter, Kinds
  <2> QED
    BY <2>1, <2>2, <2>3, Recounted
<1> QED
  BY <1>1, <1>2

LEMMA MapsFrames ==
  ASSUME FramesInv, NEW t \in Tasks, NEW f \in AllFrames, NEW k \in Kinds, NEW v,
         Maps(t, f, k, v), k # "free", k = "file" <=> kind[f] = "file",
         f = Zero => k = "zero"
  PROVE  FramesInv'
<1>1. /\ map' = [map EXCEPT ![t] = f] /\ refs' = Ref(Unref(refs, map[t]), f)
      /\ UNCHANGED page /\ kind' = [KindsAfter(refs') EXCEPT ![f] = k]
  BY DEF Maps, writerVars
<1>2. /\ kind' \in [AllFrames -> Kinds] /\ kind'[f] = k
      /\ \A g \in AllFrames \ {f} : kind'[g] = KindsAfter(refs')[g]
  BY <1>1 DEF FramesInv, KindsAfter, Kinds
<1>3. ASSUME NEW g \in AllFrames, kind[g] = "free", kind'[g] = "free" PROVE refs'[g] = 0
  <2>1. g \in Frames /\ refs[g] = 0 /\ g # f
    BY <1>2, <1>3 DEF FramesInv, AllFrames
  <2>2. refs'[g] <= refs[g] /\ refs'[g] = Cardinality(Holders(g)')
                       + (IF g = Zero THEN 0 ELSE Cardinality(Mappers(g)'))
                       + (IF kind[g] = "file" THEN 1 ELSE 0)
        /\ Cardinality(Holders(g)') \in Nat /\ Cardinality(Mappers(g)') \in Nat
    BY <1>1, <2>1, MapsCounted
  <2> QED
    BY <2>1, <2>2, <1>3
<1> QED
  BY <1>1, <1>2, <1>3, MapsCounted, Recounted
\* KSM: two frames with one user each become one with two.
LEMMA MergesFrames ==
  ASSUME FramesInv, NEW t \in Tasks, NEW u \in Tasks, Merges(t, u)
  PROVE  FramesInv'
<1> DEFINE a == map[t]
           b == map[u]
<1>1. /\ t # u /\ a \in Frames /\ b \in Frames /\ a # b /\ a # Zero /\ b # Zero
      /\ kind[a] = "anon" /\ refs[a] = 1 /\ kind[b] = "anon" /\ refs[b] = 1
      /\ map' = [map EXCEPT ![u] = a] /\ UNCHANGED page
      /\ refs' = [refs EXCEPT ![a] = 2, ![b] = 0]
      /\ kind' = [kind EXCEPT ![a] = "ksm", ![b] = "free"]
  BY FramesAssumption DEF Merges, writerVars
<1>2. /\ map' \in [Tasks -> AllFrames \cup {None}] /\ kind' \in [AllFrames -> Kinds]
      /\ refs' \in [AllFrames -> Nat] /\ page' \in [Writers -> AllFrames \cup {None}]
      /\ kind'[Zero] = "zero"
  BY <1>1 DEF FramesInv, Kinds, AllFrames
<1>3. ASSUME NEW g \in AllFrames PROVE refs'[g] = Users(g)'
  <2>1. Cardinality(Mappers(g)') = Cardinality(Mappers(g))
              - (IF b = g THEN 1 ELSE 0) + (IF a = g THEN 1 ELSE 0)
    <3>1. (\A o \in Tasks \ {u} : map'[o] = map[o]) /\ map'[u] = a
      BY <1>1 DEF FramesInv
    <3> QED
      BY <3>1, MapperMoves
  <2>2. Holders(g)' = Holders(g) /\ refs[g] = Users(g) /\ refs[g] \in Nat
    BY <1>1 DEF Holders, FramesInv
  <2>3. Cardinality(Mappers(g)) \in Nat /\ Cardinality(Holders(g)) \in Nat
    BY InUse
  <2>4. refs'[g] = (IF g = a THEN 2 ELSE IF g = b THEN 0 ELSE refs[g])
    BY <1>1 DEF FramesInv
  <2>5. (kind'[g] = "file") <=> (kind[g] = "file")
    BY <1>1 DEF FramesInv
  <2>6. Users(g)' = Cardinality(Holders(g)) + (IF g = Zero THEN 0 ELSE Cardinality(Mappers(g)'))
                    + (IF kind[g] = "file" THEN 1 ELSE 0)
    BY <2>2, <2>5 DEF Users
  <2>7. CASE g = Zero
    BY <1>1, <2>1, <2>2, <2>3, <2>4, <2>6, <2>7 DEF Users
  <2>8. CASE g # Zero
    BY <1>1, <2>1, <2>2, <2>3, <2>4, <2>6, <2>8 DEF Users
  <2> QED
    BY <2>7, <2>8
<1>4. ASSUME NEW g \in Frames, kind'[g] = "free" PROVE refs'[g] = 0
  BY <1>1, <1>4 DEF FramesInv, AllFrames
<1> QED
  BY <1>2, <1>3, <1>4 DEF FramesInv

\* The page cache refers to what it holds.
LEMMA CacheChanges ==
  ASSUME FramesInv, NEW f \in Frames, UNCHANGED <<map, page>>,
         kind[f] \in {"free", "file"}, refs[f] = IF kind[f] = "free" THEN 0 ELSE 1,
         kind' = [kind EXCEPT ![f] = IF kind[f] = "free" THEN "file" ELSE "free"],
         refs' = [refs EXCEPT ![f] = IF kind[f] = "free" THEN 1 ELSE 0]
  PROVE  FramesInv'
<1>1. /\ map' \in [Tasks -> AllFrames \cup {None}] /\ kind' \in [AllFrames -> Kinds]
      /\ refs' \in [AllFrames -> Nat] /\ page' \in [Writers -> AllFrames \cup {None}]
      /\ kind'[Zero] = "zero"
  BY FramesAssumption DEF FramesInv, Kinds, AllFrames
<1>2. ASSUME NEW g \in AllFrames PROVE refs'[g] = Users(g)'
  <2>1. /\ Holders(g)' = Holders(g) /\ Mappers(g)' = Mappers(g)
        /\ refs[g] = Users(g) /\ refs[g] \in Nat
    BY DEF Holders, Mappers, FramesInv
  <2>2. Cardinality(Mappers(g)) \in Nat /\ Cardinality(Holders(g)) \in Nat
    BY InUse
  <2>3. /\ refs'[g] = (IF g # f THEN refs[g] ELSE IF kind[f] = "free" THEN 1 ELSE 0)
        /\ kind'[g] = (IF g # f THEN kind[g] ELSE IF kind[f] = "free" THEN "file" ELSE "free")
    BY DEF FramesInv
  <2> QED
    BY <2>1, <2>2, <2>3 DEF Users
<1>3. ASSUME NEW g \in Frames, kind'[g] = "free" PROVE refs'[g] = 0
  BY <1>3 DEF FramesInv, AllFrames
<1> QED
  BY <1>1, <1>2, <1>3 DEF FramesInv

LEMMA CacheFrames ==
  ASSUME FramesInv, CacheFills \/ CacheDrops
  PROVE  FramesInv'
<1>1. CASE CacheFills
  <2>1. PICK f \in FreeFrames :
          kind' = [kind EXCEPT ![f] = "file"] /\ refs' = [refs EXCEPT ![f] = 1]
    BY <1>1 DEF CacheFills
  <2>2. /\ f \in Frames /\ kind[f] = "free" /\ refs[f] = 0 /\ UNCHANGED <<map, page>>
    BY <1>1, <2>1 DEF CacheFills, FreeFrames, FramesInv, writerVars
  <2> QED
    BY <2>1, <2>2, CacheChanges
<1>2. CASE CacheDrops
  <2>1. PICK f \in Frames : /\ kind[f] = "file" /\ refs[f] = 1
                            /\ kind' = [kind EXCEPT ![f] = "free"]
                            /\ refs' = [refs EXCEPT ![f] = 0]
    BY <1>2 DEF CacheDrops
  <2>2. UNCHANGED <<map, page>>
    BY <1>2, <2>1 DEF CacheDrops, writerVars
  <2> QED
    BY <2>1, <2>2, CacheChanges
<1> QED
  BY <1>1, <1>2

\* The handler refers to what it looked up, and gives it back.
LEMMA LookUpFrames ==
  ASSUME FramesInv, NEW w \in Writers, target[w] \in Tasks, page[w] = None, LookUp(w)
  PROVE  FramesInv'
<1> DEFINE f == map[target[w]]
<1>1. /\ page' = [page EXCEPT ![w] = f] /\ UNCHANGED <<map, kind>>
      /\ refs' = IF f = None THEN refs ELSE [refs EXCEPT ![f] = @ + 1]
      /\ f \in AllFrames \cup {None}
  BY DEF LookUp, FramesInv
<1>2. ASSUME NEW g \in AllFrames
      PROVE  /\ Cardinality(Holders(g)') \in Nat /\ Cardinality(Mappers(g)') \in Nat
             /\ refs'[g] = Cardinality(Holders(g)')
                       + (IF g = Zero THEN 0 ELSE Cardinality(Mappers(g)'))
                       + (IF kind[g] = "file" THEN 1 ELSE 0)
             /\ kind[g] = "free" => refs'[g] = 0
  <2>1. /\ Mappers(g)' = Mappers(g) /\ refs[g] = Users(g) /\ refs[g] \in Nat /\ g # None
        /\ kind[g] = "free" => g \in Frames /\ refs[g] = 0
    BY <1>1, FramesAssumption DEF Mappers, FramesInv, AllFrames
  <2>2. /\ Cardinality(Mappers(g)) \in Nat /\ Cardinality(Holders(g)) \in Nat
        /\ f = g /\ g # Zero => kind[g] # "free"
    BY InUse
  <2>3. /\ Cardinality(Holders(g)') \in Nat
        /\ Cardinality(Holders(g)') = Cardinality(Holders(g)) + (IF f = g THEN 1 ELSE 0)
    <3>1. (\A o \in Writers \ {w} : page'[o] = page[o]) /\ page'[w] = f /\ page[w] # g
      BY <1>1, <2>1 DEF FramesInv
    <3> QED
      BY <3>1, <2>2, HolderMoves
  <2>4. refs'[g] = refs[g] + (IF f = g THEN 1 ELSE 0)
    BY <1>1, <2>1 DEF FramesInv
  <2>5. kind[Zero] = "zero"
    BY DEF FramesInv
  <2>6. kind[g] = "free" => refs'[g] = 0
    BY <2>1, <2>2, <2>4, <2>5
  <2>7. refs'[g] = Cardinality(Holders(g)) + (IF f = g THEN 1 ELSE 0)
                   + (IF g = Zero THEN 0 ELSE Cardinality(Mappers(g)))
                   + (IF kind[g] = "file" THEN 1 ELSE 0)
    BY <2>1, <2>2, <2>4 DEF Users
  <2> QED
    BY <2>1, <2>2, <2>3, <2>6, <2>7
<1>3. /\ map' \in [Tasks -> AllFrames \cup {None}] /\ kind' \in [AllFrames -> Kinds]
      /\ refs' \in [AllFrames -> Int] /\ page' \in [Writers -> AllFrames \cup {None}]
  BY <1>1 DEF FramesInv
<1> QED
  BY <1>1, <1>2, <1>3, Recounted DEF FramesInv

LEMMA PutsFrames ==
  ASSUME FramesInv, NEW w \in Writers, page[w] # None, PutsPage(w), UNCHANGED map
  PROVE  FramesInv'
<1> DEFINE f == page[w]
<1>1. /\ page' = [page EXCEPT ![w] = None] /\ kind' = KindsAfter(refs')
      /\ refs' = [refs EXCEPT ![f] = @ - 1] /\ f \in AllFrames
  BY DEF PutsPage, FramesInv
<1>2. ASSUME NEW g \in AllFrames
      PROVE  /\ Cardinality(Holders(g)') \in Nat /\ Cardinality(Mappers(g)') \in Nat
             /\ refs'[g] = Cardinality(Holders(g)')
                       + (IF g = Zero THEN 0 ELSE Cardinality(Mappers(g)'))
                       + (IF kind[g] = "file" THEN 1 ELSE 0)
             /\ kind[g] = "free" => refs'[g] = 0
  <2>1. /\ Mappers(g)' = Mappers(g) /\ refs[g] = Users(g) /\ refs[g] \in Nat /\ g # None
        /\ kind[g] = "free" => g \in Frames /\ refs[g] = 0
    BY <1>1, FramesAssumption DEF Mappers, FramesInv, AllFrames
  <2>2. /\ Cardinality(Mappers(g)) \in Nat /\ Cardinality(Holders(g)) \in Nat
        /\ f = g => kind[g] # "free"
    BY InUse
  <2>3. /\ Cardinality(Holders(g)') \in Nat
        /\ Cardinality(Holders(g)') = Cardinality(Holders(g)) - (IF f = g THEN 1 ELSE 0)
    <3>1. (\A o \in Writers \ {w} : page'[o] = page[o]) /\ page'[w] = None
      BY <1>1 DEF FramesInv
    <3> QED
      BY <3>1, <2>1, <2>2, HolderMoves
  <2>4. refs'[g] = refs[g] - (IF f = g THEN 1 ELSE 0)
    BY <1>1, <2>1 DEF FramesInv
  <2> QED
    BY <2>1, <2>2, <2>3, <2>4 DEF Users
<1>3. /\ map' \in [Tasks -> AllFrames \cup {None}] /\ kind' \in [AllFrames -> Kinds]
      /\ refs' \in [AllFrames -> Int] /\ page' \in [Writers -> AllFrames \cup {None}]
  BY <1>1 DEF FramesInv, KindsAfter, Kinds
<1> QED
  BY <1>1, <1>2, <1>3, Recounted
-----------------------------------------------------------------------------
\* Callers that hold a task, and that use an mm.
FindersOf(t) == {w \in Writers : pc[w] = "mm" /\ target[w] = t}
MmUsersOf(t) == {w \in Writers : pc[w] \in {"look", "mmput"} /\ target[w] = t}

TasksInv ==
  /\ task \in [Tasks -> {"none", "live", "zombie"}]
  /\ taskRefs \in [Tasks -> Nat] /\ mmUsers \in [Tasks -> Nat]
  /\ pc \in [Writers -> PCs] /\ target \in [Writers -> Tasks]
  /\ \A t \in Tasks :
       /\ taskRefs[t] = Cardinality(FindersOf(t)) + (IF task[t] = "none" THEN 0 ELSE 1)
       /\ mmUsers[t] = Cardinality(MmUsersOf(t)) + (IF task[t] = "live" THEN 1 ELSE 0)

\* Memory is mapped as long as an mm is used, and a caller holds a page from the
\* look-up until it puts it.
HeldInv ==
  /\ \A t \in Tasks : mmUsers[t] = 0 => map[t] = None
  /\ \A w \in Writers : page[w] # None => pc[w] \in {"mmput", "check", "store", "put"}
  /\ \A w \in Writers : pc[w] \in {"check", "store", "put"} => page[w] # None

Others == word \in [AllFrames -> Values]
HoldsInv == FramesInv /\ TasksInv /\ HeldInv /\ Others

LEMMA WriterMoves ==
  ASSUME NEW w \in Writers, NEW t \in Tasks,
         \A o \in Writers \ {w} : pc'[o] = pc[o] /\ target'[o] = target[o]
  PROVE  /\ Cardinality(FindersOf(t)) \in Nat /\ Cardinality(MmUsersOf(t)) \in Nat
         /\ w \in FindersOf(t) => Cardinality(FindersOf(t)) > 0
         /\ w \in MmUsersOf(t) => Cardinality(MmUsersOf(t)) > 0
         /\ Cardinality(FindersOf(t)') = Cardinality(FindersOf(t))
              - (IF w \in FindersOf(t) THEN 1 ELSE 0) + (IF w \in FindersOf(t)' THEN 1 ELSE 0)
         /\ Cardinality(MmUsersOf(t)') = Cardinality(MmUsersOf(t))
              - (IF w \in MmUsersOf(t) THEN 1 ELSE 0) + (IF w \in MmUsersOf(t)' THEN 1 ELSE 0)
<1>1. /\ FindersOf(t) \in SUBSET Writers /\ FindersOf(t)' \in SUBSET Writers
      /\ MmUsersOf(t) \in SUBSET Writers /\ MmUsersOf(t)' \in SUBSET Writers
  BY DEF FindersOf, MmUsersOf
<1>2. /\ FindersOf(t) \ {w} = FindersOf(t)' \ {w}
      /\ MmUsersOf(t) \ {w} = MmUsersOf(t)' \ {w}
  BY DEF FindersOf, MmUsersOf
<1> QED
  BY <1>1, <1>2, CountWithout, WritersAssumption

\* Nobody's count is less than nothing, and who is alive has an mm in use.
LEMMA TasksCounted ==
  ASSUME TasksInv, NEW t \in Tasks
  PROVE  /\ Cardinality(FindersOf(t)) \in Nat /\ Cardinality(MmUsersOf(t)) \in Nat
         /\ task[t] = "live" => mmUsers[t] > 0
         /\ \A w \in FindersOf(t) : taskRefs[t] > 0
         /\ \A w \in MmUsersOf(t) : mmUsers[t] > 0
<1>1. FindersOf(t) \in SUBSET Writers /\ MmUsersOf(t) \in SUBSET Writers
  BY DEF FindersOf, MmUsersOf
<1>2. /\ IsFiniteSet(FindersOf(t)) /\ IsFiniteSet(MmUsersOf(t))
      /\ Cardinality(FindersOf(t)) \in Nat /\ Cardinality(MmUsersOf(t)) \in Nat
  BY <1>1, FS_Subset, FS_CardinalityType, WritersAssumption
<1>3. /\ \A w \in FindersOf(t) : Cardinality(FindersOf(t)) > 0
      /\ \A w \in MmUsersOf(t) : Cardinality(MmUsersOf(t)) > 0
  BY <1>1, CountWithout, WritersAssumption
<1>4. /\ taskRefs[t] = Cardinality(FindersOf(t)) + (IF task[t] = "none" THEN 0 ELSE 1)
      /\ mmUsers[t] = Cardinality(MmUsersOf(t)) + (IF task[t] = "live" THEN 1 ELSE 0)
  BY DEF TasksInv
<1> QED
  BY <1>2, <1>3, <1>4

\* The kernel's steps leave the callers alone: they count what a process itself counts.
LEMMA KernelCounts ==
  ASSUME TasksInv, UNCHANGED writerVars, NEW u \in Tasks,
         \A t \in Tasks \ {u} : /\ task'[t] = task[t] /\ taskRefs'[t] = taskRefs[t]
                                /\ mmUsers'[t] = mmUsers[t],
         task' \in [Tasks -> {"none", "live", "zombie"}],
         taskRefs' \in [Tasks -> Int], mmUsers' \in [Tasks -> Int],
         taskRefs'[u] = taskRefs[u] - (IF task[u] = "none" THEN 0 ELSE 1)
                                    + (IF task'[u] = "none" THEN 0 ELSE 1),
         mmUsers'[u] = mmUsers[u] - (IF task[u] = "live" THEN 1 ELSE 0)
                                  + (IF task'[u] = "live" THEN 1 ELSE 0)
  PROVE  TasksInv'
<1>1. pc' \in [Writers -> PCs] /\ target' \in [Writers -> Tasks]
  BY DEF TasksInv, writerVars
<1>2. ASSUME NEW t \in Tasks
      PROVE  /\ taskRefs'[t] = Cardinality(FindersOf(t)') + (IF task'[t] = "none" THEN 0 ELSE 1)
             /\ mmUsers'[t] = Cardinality(MmUsersOf(t)') + (IF task'[t] = "live" THEN 1 ELSE 0)
             /\ taskRefs'[t] \in Nat /\ mmUsers'[t] \in Nat
  <2>1. FindersOf(t)' = FindersOf(t) /\ MmUsersOf(t)' = MmUsersOf(t)
    BY DEF FindersOf, MmUsersOf, writerVars
  <2>2. Cardinality(FindersOf(t)) \in Nat /\ Cardinality(MmUsersOf(t)) \in Nat
    BY TasksCounted
  <2>3. /\ taskRefs[t] = Cardinality(FindersOf(t)) + (IF task[t] = "none" THEN 0 ELSE 1)
        /\ mmUsers[t] = Cardinality(MmUsersOf(t)) + (IF task[t] = "live" THEN 1 ELSE 0)
    BY DEF TasksInv
  <2>4. CASE t = u
    BY <2>1, <2>2, <2>3, <2>4
  <2>5. CASE t # u
    BY <2>1, <2>2, <2>3, <2>5
  <2> QED
    BY <2>4, <2>5
<1>3. taskRefs' \in [Tasks -> Nat] /\ mmUsers' \in [Tasks -> Nat]
  BY <1>2
<1> QED
  BY <1>1, <1>2, <1>3 DEF TasksInv
\* What does not change tasks keeps what is counted of them, and what changes the
\* memory of the living only leaves nobody's behind.
LEMMA MemoryOnly ==
  ASSUME HoldsInv, UNCHANGED <<taskVars, writerVars>>,
         \A t \in Tasks : map'[t] # map[t] => task[t] = "live"
  PROVE  TasksInv' /\ HeldInv'
<1>1. UNCHANGED <<task, taskRefs, mmUsers, pc, target, page>>
  BY DEF taskVars, writerVars
<1>2. TasksInv'
  BY <1>1 DEF HoldsInv, TasksInv, FindersOf, MmUsersOf
<1>3. \A t \in Tasks : mmUsers'[t] = 0 => map'[t] = None
  BY <1>1, TasksCounted DEF HoldsInv, HeldInv
<1> QED
  BY <1>1, <1>2, <1>3 DEF HoldsInv, HeldInv

LEMMA BornHolds ==
  ASSUME HoldsInv, NEW u \in Tasks, NEW f \in AllFrames \cup {None}, Born(u, f),
         f \in Frames => kind[f] # "free"
  PROVE  HoldsInv'
<1>1. map[u] = None
  BY DEF HoldsInv, HeldInv, Born, Fresh
<1>2. FramesInv'
  BY <1>1, BornFrames DEF HoldsInv
<1>3. TasksInv'
  BY KernelCounts DEF HoldsInv, TasksInv, Born, Fresh, writerVars
<1>4. HeldInv'
  BY DEF HoldsInv, HeldInv, TasksInv, FramesInv, Born, writerVars
<1> QED
  BY <1>2, <1>3, <1>4 DEF HoldsInv, Others, Born

\* Whoever the last user of an mm is.
LEMMA MmPutHeld ==
  ASSUME HoldsInv, NEW t \in Tasks, MmPut(t), mmUsers[t] > 0
  PROVE  /\ \A u \in Tasks : mmUsers'[u] = 0 => map'[u] = None
         /\ mmUsers' = [mmUsers EXCEPT ![t] = @ - 1]
         /\ mmUsers' \in [Tasks -> Nat] /\ mmUsers'[t] = mmUsers[t] - 1
BY DEF HoldsInv, HeldInv, TasksInv, FramesInv, MmPut

LEMMA KernelHolds ==
  ASSUME HoldsInv, KernelStep
  PROVE  HoldsInv'
<1> USE DEF HoldsInv
<1>1. ASSUME NEW t \in Tasks, Starts(t) PROVE HoldsInv'
  BY <1>1, BornHolds, FramesAssumption DEF Starts, Others
<1>2. ASSUME NEW t \in Tasks, Ends(t) PROVE HoldsInv'
  <2>1. mmUsers[t] > 0
    BY <1>2, TasksCounted DEF Ends
  <2>2. FramesInv'
    BY <1>2, MmPutFrames DEF Ends, writerVars
  <2>3. TasksInv'
    <3>1. /\ mmUsers' \in [Tasks -> Int] /\ mmUsers'[t] = mmUsers[t] - 1
          /\ \A u \in Tasks \ {t} : mmUsers'[u] = mmUsers[u]
      BY <1>2, <2>1, MmPutHeld DEF Ends, TasksInv
    <3>2. /\ task[t] = "live" /\ task' = [task EXCEPT ![t] = "zombie"]
          /\ UNCHANGED taskRefs /\ UNCHANGED writerVars
      BY <1>2 DEF Ends
    <3> QED
      BY <3>1, <3>2, KernelCounts DEF TasksInv
  <2>4. HeldInv'
    BY <1>2, <2>1, MmPutHeld DEF Ends, HeldInv, writerVars
  <2> QED
    BY <1>2, <2>2, <2>3, <2>4 DEF Ends, Others, AfterPut, Disturbed
<1>3. ASSUME NEW t \in Tasks, Reaped(t) PROVE HoldsInv'
  <2>1. TasksInv'
    BY <1>3, KernelCounts DEF Reaped, TasksInv
  <2> QED
    BY <1>3, <2>1 DEF Reaped, memVars, writerVars, FramesInv, Users, Holders, Mappers,
                      HeldInv, Others
<1>4. ASSUME NEW t \in Tasks, NEW f \in AllFrames, NEW k \in Kinds, NEW v \in Values,
             Maps(t, f, k, v), task[t] = "live", k # "free",
             k = "file" <=> kind[f] = "file", f = Zero => k = "zero"
      PROVE  HoldsInv'
  <2>1. FramesInv'
    BY <1>4, MapsFrames
  <2>2. TasksInv' /\ HeldInv'
    BY <1>4, MemoryOnly DEF Maps, FramesInv
  <2> QED
    BY <1>4, <2>1, <2>2 DEF Maps, Others, Changes, Disturbed
<1>5. ASSUME NEW t \in Tasks, Reads(t) PROVE HoldsInv'
  <2>1. CASE Maps(t, Zero, "zero", word[Zero])
    BY <1>4, <1>5, <2>1 DEF Reads, Others, AllFrames, Kinds, FramesInv
  <2>2. ASSUME NEW f \in Frames, kind[f] = "file", Maps(t, f, "file", word[f])
        PROVE  HoldsInv'
    BY <1>4, <1>5, <2>2, FramesAssumption DEF Reads, Others, AllFrames, Kinds
  <2> QED
    BY <1>5, <2>1, <2>2 DEF Reads
<1>6. ASSUME NEW t \in Tasks, NEW v \in Values, WritesCopy(t, v) PROVE HoldsInv'
  <2>1. PICK f \in FreeFrames : Maps(t, f, "anon", v)
    BY <1>6 DEF WritesCopy
  <2>2. f \in AllFrames /\ f # Zero /\ kind[f] = "free" /\ task[t] = "live"
    BY <1>6, FramesAssumption DEF FreeFrames, AllFrames, WritesCopy
  <2> QED
    BY <1>4, <2>1, <2>2 DEF Kinds
<1>7. ASSUME NEW t \in Tasks, NEW v \in Values, WritesInPlace(t, v) PROVE HoldsInv'
  <2>1. TasksInv' /\ HeldInv'
    BY <1>7, MemoryOnly DEF WritesInPlace
  <2> QED
    BY <1>7, <2>1 DEF WritesInPlace, writerVars, FramesInv, Users, Holders, Mappers, Others
<1>8. ASSUME NEW t \in Tasks, Unmaps(t) PROVE HoldsInv'
  <2>1. FramesInv'
    BY <1>8, UnmapsFrames DEF Unmaps, writerVars
  <2>2. TasksInv' /\ HeldInv'
    BY <1>8, MemoryOnly DEF Unmaps, FramesInv
  <2> QED
    BY <1>8, <2>1, <2>2 DEF Unmaps, Others, Changes, Disturbed
<1>9. ASSUME NEW t \in Tasks, NEW u \in Tasks, Forks(t, u) PROVE HoldsInv'
  <2>1. map[t] \in AllFrames \cup {None} /\ (map[t] \in Frames => kind[map[t]] # "free")
    BY InUse, FramesAssumption DEF FramesInv, AllFrames
  <2> QED
    BY <1>9, <2>1, BornHolds DEF Forks, Changes, Disturbed, Others
<1>10. ASSUME NEW t \in Tasks, NEW u \in Tasks, Merges(t, u) PROVE HoldsInv'
  <2>1. FramesInv'
    BY <1>10, MergesFrames
  <2>2. TasksInv' /\ HeldInv'
    BY <1>10, MemoryOnly DEF Merges, FramesInv
  <2> QED
    BY <1>10, <2>1, <2>2 DEF Merges, Others, Changes, Disturbed
<1>11. CASE CacheFills \/ CacheDrops
  <2>1. FramesInv'
    BY <1>11, CacheFrames
  <2>2. UNCHANGED <<taskVars, map, writerVars, changed>>
    BY <1>11 DEF CacheFills, CacheDrops
  <2>3. TasksInv' /\ HeldInv'
    BY <2>2, MemoryOnly
  <2>4. word' \in [AllFrames -> Values]
    BY <1>11 DEF CacheFills, CacheDrops, Others
  <2> QED
    BY <2>1, <2>2, <2>3, <2>4 DEF Others
<1> QED
  BY <1>1, <1>2, <1>3, <1>5, <1>6, <1>7, <1>8, <1>9, <1>10, <1>11 DEF KernelStep
\* What a caller's own step counts.
LEMMA WriterCounts ==
  ASSUME TasksInv, NEW w \in Writers, UNCHANGED task,
         \A o \in Writers \ {w} : pc'[o] = pc[o] /\ target'[o] = target[o],
         pc' \in [Writers -> PCs], target' \in [Writers -> Tasks],
         taskRefs' \in [Tasks -> Int], mmUsers' \in [Tasks -> Int],
         \A t \in Tasks :
           /\ taskRefs'[t] = taskRefs[t] - (IF w \in FindersOf(t) THEN 1 ELSE 0)
                                         + (IF w \in FindersOf(t)' THEN 1 ELSE 0)
           /\ mmUsers'[t] = mmUsers[t] - (IF w \in MmUsersOf(t) THEN 1 ELSE 0)
                                       + (IF w \in MmUsersOf(t)' THEN 1 ELSE 0)
  PROVE  TasksInv'
<1>1. ASSUME NEW t \in Tasks
      PROVE  /\ taskRefs'[t] = Cardinality(FindersOf(t)') + (IF task[t] = "none" THEN 0 ELSE 1)
             /\ mmUsers'[t] = Cardinality(MmUsersOf(t)') + (IF task[t] = "live" THEN 1 ELSE 0)
             /\ taskRefs'[t] \in Nat /\ mmUsers'[t] \in Nat
  <2>1. /\ taskRefs[t] = Cardinality(FindersOf(t)) + (IF task[t] = "none" THEN 0 ELSE 1)
        /\ mmUsers[t] = Cardinality(MmUsersOf(t)) + (IF task[t] = "live" THEN 1 ELSE 0)
    BY DEF TasksInv
  <2>2. /\ Cardinality(FindersOf(t)) \in Nat /\ Cardinality(MmUsersOf(t)) \in Nat
        /\ w \in FindersOf(t) => Cardinality(FindersOf(t)) > 0
        /\ w \in MmUsersOf(t) => Cardinality(MmUsersOf(t)) > 0
        /\ Cardinality(FindersOf(t)') = Cardinality(FindersOf(t))
             - (IF w \in FindersOf(t) THEN 1 ELSE 0) + (IF w \in FindersOf(t)' THEN 1 ELSE 0)
        /\ Cardinality(MmUsersOf(t)') = Cardinality(MmUsersOf(t))
             - (IF w \in MmUsersOf(t) THEN 1 ELSE 0) + (IF w \in MmUsersOf(t)' THEN 1 ELSE 0)
    BY WriterMoves
  <2> QED
    BY <2>1, <2>2
<1>2. taskRefs' \in [Tasks -> Nat] /\ mmUsers' \in [Tasks -> Nat]
  BY <1>1
<1> QED
  BY <1>1, <1>2 DEF TasksInv

\* A caller that goes from one place to another, of which neither counts, counts as before.
LEMMA UncountedStep ==
  ASSUME TasksInv, NEW w \in Writers, UNCHANGED taskVars,
         \A o \in Writers \ {w} : pc'[o] = pc[o] /\ target'[o] = target[o],
         pc' \in [Writers -> PCs], target' \in [Writers -> Tasks],
         {pc[w], pc'[w]} \cap {"mm", "look", "mmput"} = {}
  PROVE  TasksInv'
<1>1. \A t \in Tasks : /\ w \notin FindersOf(t) /\ w \notin FindersOf(t)'
                       /\ w \notin MmUsersOf(t) /\ w \notin MmUsersOf(t)'
  BY DEF FindersOf, MmUsersOf
<1>2. UNCHANGED <<task, taskRefs, mmUsers>>
  BY DEF taskVars
<1>3. \A t \in Tasks : /\ taskRefs'[t] = taskRefs[t] - 0 + 0
                       /\ mmUsers'[t] = mmUsers[t] - 0 + 0
  BY <1>2 DEF TasksInv
<1>4. taskRefs' \in [Tasks -> Int] /\ mmUsers' \in [Tasks -> Int]
  BY <1>2 DEF TasksInv
<1> QED
  BY <1>1, <1>2, <1>3, <1>4, WriterCounts

LEMMA WriterHolds ==
  ASSUME HoldsInv, NEW w \in Writers, WriterStep(w)
  PROVE  HoldsInv'
<1> USE DEF HoldsInv
<1>0. /\ pc \in [Writers -> PCs] /\ target \in [Writers -> Tasks]
      /\ page \in [Writers -> AllFrames \cup {None}] /\ map \in [Tasks -> AllFrames \cup {None}]
      /\ taskRefs \in [Tasks -> Nat] /\ mmUsers \in [Tasks -> Nat]
  BY DEF TasksInv, FramesInv
<1>1. CASE Call(w)
  <2>1. TasksInv'
    BY <1>0, <1>1, UncountedStep DEF Call, Goes, PCs
  <2> QED
    BY <1>0, <1>1, <2>1 DEF Call, Goes, taskVars, memVars, FramesInv, Users, Holders, Mappers,
                      HeldInv, Others
<1>2. CASE FindTask(w)
  <2> DEFINE t == target[w]
  <2>1. TasksInv'
    <3>1. CASE task[t] = "none"
      BY <1>0, <1>2, <3>1, UncountedStep DEF FindTask, Goes, PCs, taskVars
    <3>2. CASE task[t] # "none"
      <4>1. /\ \A u \in Tasks : /\ w \notin FindersOf(u) /\ (w \in FindersOf(u)' <=> u = t)
                                /\ w \notin MmUsersOf(u) /\ w \notin MmUsersOf(u)'
            /\ \A o \in Writers \ {w} : pc'[o] = pc[o] /\ target'[o] = target[o]
            /\ pc' \in [Writers -> PCs] /\ target' \in [Writers -> Tasks] /\ UNCHANGED task
        BY <1>0, <1>2, <3>2 DEF FindTask, Goes, PCs, FindersOf, MmUsersOf
      <4>2. /\ taskRefs' \in [Tasks -> Int] /\ mmUsers' \in [Tasks -> Int]
            /\ \A u \in Tasks : /\ taskRefs'[u] = taskRefs[u] - 0 + (IF u = t THEN 1 ELSE 0)
                                /\ mmUsers'[u] = mmUsers[u] - 0 + 0
        BY <1>0, <1>2, <3>2 DEF FindTask
      <4> QED
        BY <4>1, <4>2, WriterCounts
    <3> QED
      BY <3>1, <3>2
  <2>2. UNCHANGED <<mmUsers, map, kind, refs, word, page, changed>>
    BY <1>2 DEF FindTask, memVars
  <2>3. HeldInv'
    BY <1>0, <1>2, <2>2 DEF FindTask, Goes, HeldInv
  <2> QED
    BY <2>1, <2>2, <2>3 DEF FramesInv, Users, Holders, Mappers, Others
<1>3. CASE GetMm(w)
  <2> DEFINE t == target[w]
  <2>1. pc[w] = "mm" /\ t \in Tasks /\ w \in FindersOf(t) /\ taskRefs[t] > 0
    BY <1>0, <1>3, TasksCounted DEF GetMm, Goes, FindersOf
  <2>2. /\ \A u \in Tasks : /\ (w \in FindersOf(u) <=> u = t) /\ w \notin FindersOf(u)'
                            /\ w \notin MmUsersOf(u)
                            /\ (w \in MmUsersOf(u)' <=> u = t /\ task[t] = "live")
        /\ \A o \in Writers \ {w} : pc'[o] = pc[o] /\ target'[o] = target[o]
        /\ pc' \in [Writers -> PCs] /\ target' \in [Writers -> Tasks] /\ UNCHANGED task
    BY <1>0, <1>3 DEF GetMm, Goes, PCs, FindersOf, MmUsersOf
  <2>3. /\ taskRefs' \in [Tasks -> Int] /\ mmUsers' \in [Tasks -> Int]
        /\ \A u \in Tasks :
             /\ taskRefs'[u] = taskRefs[u] - (IF u = t THEN 1 ELSE 0) + 0
             /\ mmUsers'[u] = mmUsers[u] - 0 + (IF u = t /\ task[t] = "live" THEN 1 ELSE 0)
    BY <1>0, <1>3 DEF GetMm
  <2>4. TasksInv'
    BY <2>2, <2>3, WriterCounts
  <2>5. UNCHANGED <<map, kind, refs, word, page, changed>>
    BY <1>3 DEF GetMm, memVars
  <2>6. HeldInv'
    BY <1>0, <1>3, <2>3, <2>5 DEF GetMm, Goes, HeldInv
  <2> QED
    BY <2>4, <2>5, <2>6 DEF FramesInv, Users, Holders, Mappers, Others
<1>4. CASE LookUp(w)
  <2>1. page[w] = None
    BY <1>4 DEF LookUp, Goes, HeldInv
  <2>2. FramesInv'
    BY <1>0, <1>4, <2>1, LookUpFrames
  <2>3. /\ \A u \in Tasks : /\ w \notin FindersOf(u) /\ w \notin FindersOf(u)'
                            /\ w \in MmUsersOf(u) <=> u = target[w]
                            /\ w \in MmUsersOf(u)' <=> u = target[w]
        /\ \A o \in Writers \ {w} : pc'[o] = pc[o] /\ target'[o] = target[o]
        /\ pc' \in [Writers -> PCs] /\ target' \in [Writers -> Tasks]
        /\ UNCHANGED <<task, taskRefs, mmUsers, map, word, changed>>
    BY <1>0, <1>4 DEF LookUp, Goes, PCs, FindersOf, MmUsersOf, taskVars
  <2>4. TasksInv'
    <3>1. \A u \in Tasks : /\ taskRefs'[u] = taskRefs[u] - 0 + 0
                           /\ mmUsers'[u] = mmUsers[u] - (IF u = target[w] THEN 1 ELSE 0)
                                                       + (IF u = target[w] THEN 1 ELSE 0)
      BY <1>0, <2>3
    <3>2. taskRefs' \in [Tasks -> Int] /\ mmUsers' \in [Tasks -> Int]
      BY <1>0, <2>3
    <3> QED
      BY <2>3, <3>1, <3>2, WriterCounts
  <2>5. HeldInv'
    BY <1>0, <1>4, <2>3 DEF LookUp, Goes, HeldInv
  <2> QED
    BY <2>2, <2>3, <2>4, <2>5 DEF Others
<1>5. CASE Release(w)
  <2> DEFINE t == target[w]
  <2>1. /\ pc[w] = "mmput" /\ t \in Tasks /\ w \in MmUsersOf(t) /\ mmUsers[t] > 0
        /\ MmPut(t) /\ UNCHANGED <<task, taskRefs, word, target, page>>
    BY <1>0, <1>5, TasksCounted DEF Release, Goes, MmUsersOf
  <2>2. FramesInv'
    BY <2>1, MmPutFrames
  <2>3. /\ \A u \in Tasks : /\ w \notin FindersOf(u) /\ w \notin FindersOf(u)'
                            /\ w \in MmUsersOf(u) <=> u = t
                            /\ w \notin MmUsersOf(u)'
        /\ \A o \in Writers \ {w} : pc'[o] = pc[o] /\ target'[o] = target[o]
        /\ pc' \in [Writers -> PCs] /\ target' \in [Writers -> Tasks]
        /\ pc' = [pc EXCEPT ![w] = IF page[w] = None THEN "idle" ELSE "check"]
    BY <1>0, <1>5 DEF Release, Goes, PCs, FindersOf, MmUsersOf
  <2>4. /\ taskRefs' \in [Tasks -> Int] /\ mmUsers' \in [Tasks -> Int]
        /\ \A u \in Tasks : /\ taskRefs'[u] = taskRefs[u] - 0 + 0
                            /\ mmUsers'[u] = mmUsers[u] - (IF u = t THEN 1 ELSE 0) + 0
        /\ \A u \in Tasks : mmUsers'[u] = 0 => map'[u] = None
    BY <1>0, <2>1, MmPutHeld
  <2>5. TasksInv'
    BY <2>1, <2>3, <2>4, WriterCounts
  <2>6. HeldInv'
    BY <1>0, <2>1, <2>3, <2>4 DEF HeldInv
  <2> QED
    BY <1>5, <2>1, <2>2, <2>5, <2>6 DEF Release, Others, AfterPut, Disturbed
<1>6. ASSUME Goes(w, "check", "idle") \/ Goes(w, "put", "idle"), PutsPage(w),
             UNCHANGED <<taskVars, map, word, target>>
      PROVE  HoldsInv'
  <2>1. page[w] # None
    BY <1>6 DEF Goes, HeldInv
  <2>2. FramesInv'
    BY <1>6, <2>1, PutsFrames
  <2>3. TasksInv'
    BY <1>0, <1>6, UncountedStep DEF Goes, PCs
  <2>4. HeldInv'
    BY <1>0, <1>6 DEF Goes, HeldInv, PutsPage, taskVars
  <2> QED
    BY <1>6, <2>2, <2>3, <2>4 DEF PutsPage, Others
<1>7. CASE Check(w)
  <2>1. CASE /\ Goes(w, "check", "store") /\ Usable(page[w])
             /\ UNCHANGED <<taskVars, memVars, target, page, changed>>
    <3>1. TasksInv'
      BY <1>0, <2>1, UncountedStep DEF Goes, PCs
    <3> QED
      BY <1>0, <2>1, <3>1 DEF Goes, taskVars, memVars, FramesInv, Users, Holders, Mappers,
                         HeldInv, Others
  <2> QED
    BY <1>6, <1>7, <2>1 DEF Check
<1>8. CASE Store(w)
  <2>1. TasksInv'
    BY <1>0, <1>8, UncountedStep DEF Store, Goes, PCs
  <2>2. word' \in [AllFrames -> Values]
    BY <1>8 DEF Store, Others
  <2> QED
    BY <1>0, <1>8, <2>1, <2>2 DEF Store, Goes, taskVars, FramesInv, Users, Holders, Mappers,
                            HeldInv, Others
<1>9. CASE Put(w)
  BY <1>6, <1>9 DEF Put
<1> QED
  BY <1>1, <1>2, <1>3, <1>4, <1>5, <1>7, <1>8, <1>9 DEF WriterStep
LEMMA InitHolds == Init => HoldsInv
<1> SUFFICES ASSUME Init PROVE HoldsInv
  OBVIOUS
<1>1. /\ \A f \in AllFrames : Holders(f) = {} /\ Mappers(f) = {}
      /\ \A t \in Tasks : FindersOf(t) = {} /\ MmUsersOf(t) = {}
  BY FramesAssumption DEF Init, Holders, Mappers, FindersOf, MmUsersOf, AllFrames
<1>2. FramesInv
  <2>1. \A f \in AllFrames : Cardinality(Holders(f)) = 0 /\ Cardinality(Mappers(f)) = 0
    BY <1>1, FS_EmptySet
  <2>2. \A f \in AllFrames : refs[f] = 0 /\ kind[f] # "file"
    BY DEF Init
  <2>3. \A f \in AllFrames : refs[f] = Users(f)
    BY <2>1, <2>2 DEF Users
  <2> QED
    BY <2>2, <2>3, FramesAssumption DEF Init, FramesInv, AllFrames, Kinds
<1>3. TasksInv
  <2>1. target \in [Writers -> Tasks]
    BY DEF Init
  <2>2. \A t \in Tasks : /\ taskRefs[t] = 0 + (IF task[t] = "none" THEN 0 ELSE 1)
                         /\ mmUsers[t] = 0 + (IF task[t] = "live" THEN 1 ELSE 0)
    BY DEF Init
  <2>3. \A t \in Tasks : Cardinality(FindersOf(t)) = 0 /\ Cardinality(MmUsersOf(t)) = 0
    BY <1>1, FS_EmptySet
  <2>4. /\ task \in [Tasks -> {"none", "live", "zombie"}]
        /\ taskRefs \in [Tasks -> Nat] /\ mmUsers \in [Tasks -> Nat]
        /\ pc \in [Writers -> PCs]
    BY DEF Init, PCs
  <2> QED
    BY <2>1, <2>2, <2>3, <2>4 DEF TasksInv
<1> QED
  BY <1>2, <1>3, ValuesAssumption DEF HoldsInv, HeldInv, Others, Init

LEMMA NextHolds == HoldsInv /\ [Next]_vars => HoldsInv'
<1> SUFFICES ASSUME HoldsInv, [Next]_vars PROVE HoldsInv'
  OBVIOUS
<1>1. CASE UNCHANGED vars
  <2>1. UNCHANGED <<taskVars, map, kind, refs, word, pc, target, page, crosses>>
    BY <1>1 DEF vars, memVars, writerVars
  <2>2. TasksInv' /\ HeldInv'
    BY <2>1, MemoryOnly DEF writerVars
  <2>3. FramesInv'
    BY <2>1 DEF HoldsInv, FramesInv, Users, Holders, Mappers
  <2> QED
    BY <2>1, <2>2, <2>3 DEF HoldsInv, Others
<1> QED
  BY <1>1, KernelHolds, WriterHolds DEF Next

\* What is noted of a caller: whether its word crosses the end of the page, and the
\* history of its look-up.
Noted == /\ crosses \subseteq Writers /\ changed \subseteq Writers
         /\ kin \in [Writers -> SUBSET Tasks]

LEMMA InitNoted == Init => Noted
BY DEF Init, Noted

LEMMA NextNoted == Noted /\ [Next]_vars => Noted'
<1> SUFFICES ASSUME Noted, [Next]_vars PROVE Noted'
  OBVIOUS
<1> USE DEF Noted
<1>1. CASE KernelStep
  BY <1>1 DEF KernelStep, Starts, Forks, Born, Ends, AfterPut, Reaped, Reads, Maps, Unmaps,
     WritesInPlace, WritesCopy, Merges, CacheFills, CacheDrops, Changes, Disturbed, writerVars
<1>2. ASSUME NEW w \in Writers, WriterStep(w) PROVE Noted'
  <2>1. CASE LookUp(w)
    <3>1. Having(map[target[w]]) \in SUBSET Tasks
      BY DEF Having, Mappers
    <3> QED
      BY <2>1, <3>1 DEF LookUp
  <2>2. CASE ~LookUp(w)
    BY <1>2, <2>2 DEF WriterStep, Call, FindTask, GetMm, Release, AfterPut, Disturbed, Check,
       Store, Put, Forgets
  <2> QED
    BY <2>1, <2>2
<1> QED
  BY <1>1, <1>2 DEF Next, vars, writerVars

LEMMA HoldsUses == HoldsInv /\ Noted => HoldsWhatItUses
<1> SUFFICES ASSUME HoldsInv, Noted PROVE HoldsWhatItUses
  OBVIOUS
<1>1. TypeOK
  BY DEF HoldsInv, FramesInv, TasksInv, Others, Noted, TypeOK
<1>2. Balanced
  <2>1. ASSUME NEW t \in Tasks
        PROVE  LET here == {w \in Writers : target[w] = t}
               IN  /\ At({"mm"}) \cap here = FindersOf(t)
                   /\ At({"look", "mmput"}) \cap here = MmUsersOf(t)
    BY DEF At, FindersOf, MmUsersOf
  <2>2. \A f : {w \in Writers : page[w] = f} = Holders(f)
    BY DEF Holders
  <2> QED
    BY <2>1, <2>2 DEF Balanced, HoldsInv, TasksInv, FramesInv, Users
<1>3. StoreHitsHeld
  <2> SUFFICES ASSUME NEW w \in Writers, pc[w] \in {"check", "store", "put"}
               PROVE  page[w] # None /\ kind[page[w]] # "free"
    BY DEF StoreHitsHeld, At, Hit
  <2>1. page[w] # None
    BY DEF HoldsInv, HeldInv
  <2>2. page[w] \in AllFrames
    BY <2>1 DEF HoldsInv, FramesInv
  <2> QED
    BY <2>1, <2>2, InUse DEF HoldsInv
<1> QED
  BY <1>1, <1>2, <1>3 DEF HoldsWhatItUses

\* Whatever the processes do meanwhile and on whichever way a call leaves, every
\* reference to a task, an mm and a page is given back once, and the page that was
\* found has not been given up when it is stored to (get_user_linear_mapping(), lines
\* 77 to 136).  Of the frame next to it, which a word that runs over the end of the
\* page reaches, nothing is known.
THEOREM HoldsKept == Spec => []HoldsWhatItUses
<1> QED
  BY InitHolds, InitNoted, NextHolds, NextNoted, HoldsUses, PTL DEF Spec

-----------------------------------------------------------------------------
(***************************************************************************)
(* The target.  A process that changes what it maps is noted for every     *)
(* caller that has looked it up; for the others nothing has changed.       *)
(***************************************************************************)
Alone(w) == kind[page[w]] = "anon" => Mappers(page[w]) = {target[w]}
TargetsInv ==
  \A w \in Writers \ changed :
    /\ pc[w] \in LookedUp => map[target[w]] = page[w]
    /\ pc[w] = "store" => Alone(w)

\* What a step by somebody else has to leave alone.
LEMMA LeftAlone ==
  ASSUME TargetsInv, NEW w \in Writers, w \notin changed' => w \notin changed,
         pc'[w] = pc[w], target'[w] = target[w], page'[w] = page[w],
         w \notin changed' /\ pc[w] \in LookedUp => map'[target[w]] = map[target[w]],
         w \notin changed' /\ pc[w] = "store" /\ kind'[page[w]] = "anon" =>
           kind[page[w]] = "anon" /\ Mappers(page[w])' = Mappers(page[w])
  PROVE  w \notin changed' => /\ pc'[w] \in LookedUp => map'[target'[w]] = page'[w]
                              /\ pc'[w] = "store" => Alone(w)'
BY DEF TargetsInv, Alone

\* One who has looked its target up, and for whom nothing has changed.
LEMMA Undisturbed ==
  ASSUME HoldsInv, TargetsInv, NEW w \in Writers, w \notin changed
  PROVE  /\ pc[w] \in LookedUp => map[target[w]] = page[w] /\ target[w] \in Tasks
         /\ pc[w] \in {"check", "store"} =>
              page[w] # None /\ page[w] \in AllFrames /\ kind[page[w]] # "free"
         /\ pc[w] \in LookedUp => ~Fresh(target[w])
<1>1. target[w] \in Tasks
  BY DEF HoldsInv, TasksInv
<1>2. pc[w] \in {"check", "store"} =>
        page[w] # None /\ page[w] \in AllFrames /\ kind[page[w]] # "free"
  BY InUse DEF HoldsInv, HeldInv, FramesInv
<1>3. pc[w] \in LookedUp => map[target[w]] = page[w]
  BY DEF TargetsInv
<1>4. pc[w] = "mmput" => mmUsers[target[w]] > 0
  BY <1>1, TasksCounted DEF HoldsInv, MmUsersOf
<1>5. pc[w] \in {"check", "store"} => mmUsers[target[w]] # 0
  BY <1>1, <1>2, <1>3 DEF HoldsInv, HeldInv, LookedUp
<1> QED
  BY <1>1, <1>2, <1>3, <1>4, <1>5 DEF LookedUp, Fresh

\* The last user of an mm takes its memory down; before that nothing is different.
LEMMA MmPutTargets ==
  ASSUME HoldsInv, TargetsInv, NEW t \in Tasks, MmPut(t), NEW w \in Writers,
         UNCHANGED page, w \notin changed', mmUsers[t] = 1 /\ pc[w] \in LookedUp => target[w] # t,
         w \notin changed, pc[w] \in LookedUp
  PROVE  /\ map'[target[w]] = map[target[w]]
         /\ pc[w] = "store" /\ kind'[page[w]] = "anon" =>
              kind[page[w]] = "anon" /\ Mappers(page[w])' = Mappers(page[w])
<1>1. target[w] \in Tasks /\ map \in [Tasks -> AllFrames \cup {None}]
  BY DEF HoldsInv, TasksInv, FramesInv
<1>2. map'[target[w]] = map[target[w]]
  BY <1>1 DEF MmPut
<1>3. ASSUME pc[w] = "store", kind'[page[w]] = "anon"
      PROVE  kind[page[w]] = "anon" /\ Mappers(page[w])' = Mappers(page[w])
  <2>1. page[w] \in AllFrames /\ page[w] # None
    BY <1>3, Undisturbed
  <2>2. kind[page[w]] = "anon"
    BY <1>3, <2>1 DEF MmPut, KindsAfter
  <2>3. Mappers(page[w]) = {target[w]}
    BY <1>3, <2>2 DEF TargetsInv, Alone
  <2>4. mmUsers[t] = 1 => map[t] # page[w]
    BY <2>3, <1>3 DEF Mappers, LookedUp
  <2> QED
    BY <1>1, <2>1, <2>2, <2>4 DEF MmPut, Mappers
<1> QED
  BY <1>2, <1>3
LEMMA KernelTargets ==
  ASSUME HoldsInv, TargetsInv, KernelStep, NEW w \in Writers
  PROVE  w \notin changed' => /\ pc'[w] \in LookedUp => map'[target'[w]] = page'[w]
                              /\ pc'[w] = "store" => Alone(w)'
<1> DEFINE Told(S) == \A v \in Writers \ changed' :
                        v \notin changed /\ (pc[v] \in LookedUp => target[v] \notin S)
           Kept == /\ map'[target[w]] = map[target[w]]
                   /\ pc[w] = "store" /\ kind'[page[w]] = "anon" =>
                        kind[page[w]] = "anon" /\ Mappers(page[w])' = Mappers(page[w])
<1> USE DEF LookedUp
<1>0. /\ map \in [Tasks -> AllFrames \cup {None}] /\ kind \in [AllFrames -> Kinds]
      /\ target[w] \in Tasks
  BY DEF HoldsInv, FramesInv, TasksInv
<1>a. UNCHANGED writerVars
  BY DEF KernelStep, Starts, Forks, Born, Ends, Reaped, Reads, Maps, Unmaps, WritesInPlace,
     WritesCopy, Merges, CacheFills, CacheDrops
<1> SUFFICES ASSUME w \notin changed' PROVE w \notin changed /\ (pc[w] \in LookedUp => Kept)
  BY <1>a, LeftAlone DEF writerVars
<1>b. w \notin changed =>
        /\ pc[w] \in LookedUp => ~Fresh(target[w])
        /\ pc[w] = "store" => page[w] \in AllFrames /\ page[w] # None /\ kind[page[w]] # "free"
                              /\ (kind[page[w]] = "anon" => Mappers(page[w]) = {target[w]})
  BY Undisturbed DEF TargetsInv, Alone
<1>1. ASSUME NEW u \in Tasks, Starts(u) PROVE w \notin changed /\ (pc[w] \in LookedUp => Kept)
  BY <1>0, <1>a, <1>b, <1>1 DEF Starts, Born, Mappers, writerVars
<1>2. ASSUME NEW t \in Tasks, NEW u \in Tasks, Forks(t, u)
      PROVE  w \notin changed /\ (pc[w] \in LookedUp => Kept)
  <2>1. w \notin changed /\ (pc[w] \in LookedUp => target[w] # t)
    BY <1>2 DEF Forks, Changes, Disturbed
  <2>2. pc[w] \in LookedUp => target[w] # u
    BY <1>2, <1>b, <2>1 DEF Forks, Born
  <2>3. pc[w] = "store" /\ kind[page[w]] = "anon" => map[t] # page[w] /\ map[u] # page[w]
    BY <1>b, <2>1, <2>2 DEF Mappers
  <2> QED
    BY <1>0, <1>a, <1>b, <1>2, <2>1, <2>2, <2>3 DEF Forks, Born, Mappers, writerVars
<1>3. ASSUME NEW t \in Tasks, Ends(t) PROVE w \notin changed /\ (pc[w] \in LookedUp => Kept)
  <2>1. w \notin changed /\ (mmUsers[t] = 1 /\ pc[w] \in LookedUp => target[w] # t)
    BY <1>3 DEF Ends, AfterPut, Disturbed
  <2> QED
    BY <1>a, <1>3, <2>1, MmPutTargets DEF Ends, writerVars
<1>4. ASSUME NEW t \in Tasks, Reaped(t) PROVE w \notin changed /\ (pc[w] \in LookedUp => Kept)
  BY <1>a, <1>4 DEF Reaped, memVars, Mappers, writerVars
<1>5. ASSUME NEW t \in Tasks, NEW f \in AllFrames, NEW k, NEW v, Maps(t, f, k, v),
             k = "anon" => kind[f] = "free"
      PROVE  w \notin changed /\ (pc[w] \in LookedUp => Kept)
  <2>1. w \notin changed /\ (pc[w] \in LookedUp => target[w] # t)
    BY <1>5 DEF Maps, Changes, Disturbed
  <2>2. ASSUME pc[w] = "store", kind'[page[w]] = "anon"
        PROVE  kind[page[w]] = "anon" /\ map[t] # page[w] /\ f # page[w]
    <3>1. page[w] \in AllFrames /\ page[w] # f
      BY <1>0, <1>b, <1>5, <2>1, <2>2 DEF Maps, KindsAfter
    <3>2. kind[page[w]] = "anon"
      BY <1>0, <1>5, <2>2, <3>1 DEF Maps, KindsAfter
    <3> QED
      BY <1>b, <2>1, <2>2, <3>1, <3>2 DEF Mappers
  <2> QED
    BY <1>0, <1>a, <1>5, <2>1, <2>2 DEF Maps, Mappers, writerVars
<1>6. ASSUME NEW t \in Tasks, Reads(t) PROVE w \notin changed /\ (pc[w] \in LookedUp => Kept)
  BY <1>5, <1>6 DEF Reads, AllFrames
<1>7. ASSUME NEW t \in Tasks, NEW v \in Values, WritesCopy(t, v)
      PROVE  w \notin changed /\ (pc[w] \in LookedUp => Kept)
  BY <1>5, <1>7 DEF WritesCopy, FreeFrames, AllFrames
<1>8. ASSUME NEW t \in Tasks, NEW v \in Values, WritesInPlace(t, v)
      PROVE  w \notin changed /\ (pc[w] \in LookedUp => Kept)
  BY <1>a, <1>8 DEF WritesInPlace, Mappers, writerVars
<1>9. ASSUME NEW t \in Tasks, Unmaps(t) PROVE w \notin changed /\ (pc[w] \in LookedUp => Kept)
  <2>1. w \notin changed /\ (pc[w] \in LookedUp => target[w] # t)
    BY <1>9 DEF Unmaps, Changes, Disturbed
  <2>2. ASSUME pc[w] = "store", kind'[page[w]] = "anon"
        PROVE  kind[page[w]] = "anon" /\ map[t] # page[w] /\ None # page[w]
    <3>1. kind[page[w]] = "anon"
      BY <1>0, <1>b, <1>9, <2>1, <2>2 DEF Unmaps, KindsAfter
    <3> QED
      BY <1>b, <2>1, <2>2, <3>1 DEF Mappers
  <2> QED
    BY <1>0, <1>a, <1>9, <2>1, <2>2 DEF Unmaps, Mappers, writerVars
<1>10. ASSUME NEW t \in Tasks, NEW u \in Tasks, Merges(t, u)
       PROVE  w \notin changed /\ (pc[w] \in LookedUp => Kept)
  <2>1. w \notin changed /\ (pc[w] \in LookedUp => target[w] # t /\ target[w] # u)
    BY <1>10 DEF Merges, Changes, Disturbed
  <2>2. ASSUME pc[w] = "store", kind'[page[w]] = "anon"
        PROVE  kind[page[w]] = "anon" /\ map[t] # page[w] /\ map[u] # page[w]
    <3>1. kind[page[w]] = "anon"
      BY <1>0, <1>b, <1>10, <2>1, <2>2 DEF Merges, AllFrames
    <3> QED
      BY <1>b, <2>1, <2>2, <3>1 DEF Mappers
  <2> QED
    BY <1>0, <1>a, <1>10, <2>1, <2>2 DEF Merges, Mappers, writerVars
<1>11. CASE CacheFills \/ CacheDrops
  <2>1. UNCHANGED <<map, changed>>
    BY <1>11 DEF CacheFills, CacheDrops
  <2>2. pc[w] = "store" /\ kind'[page[w]] = "anon" => kind[page[w]] = "anon"
    BY <1>0, <1>b, <1>11, <2>1 DEF CacheFills, CacheDrops, FreeFrames
  <2> QED
    BY <1>a, <2>1, <2>2 DEF Mappers, writerVars
<1> QED
  BY <1>1, <1>2, <1>3, <1>4, <1>6, <1>7, <1>8, <1>9, <1>10, <1>11 DEF KernelStep

\* What another writer does leaves a pending look-up alone.
LEMMA OthersTarget ==
  ASSUME HoldsInv, TargetsInv, NEW o \in Writers, WriterStep(o),
         NEW w \in Writers \ {o}, w \notin changed'
  PROVE  /\ pc'[w] \in LookedUp => map'[target'[w]] = page'[w]
         /\ pc'[w] = "store" => Alone(w)'
<1> USE DEF LookedUp
<1>0. /\ kind \in [AllFrames -> Kinds] /\ target \in [Writers -> Tasks]
      /\ pc \in [Writers -> PCs] /\ page \in [Writers -> AllFrames \cup {None}]
  BY DEF HoldsInv, FramesInv, TasksInv
<1>1. pc'[w] = pc[w] /\ target'[w] = target[w] /\ page'[w] = page[w]
  BY <1>0 DEF WriterStep, Call, FindTask, GetMm, LookUp, Release, Check, Store, Put, PutsPage,
              Goes
<1>2. CASE Release(o)
  <2>1. w \notin changed /\ (mmUsers[target[o]] = 1 /\ pc[w] \in LookedUp => target[w] # target[o])
    BY <1>2 DEF Release, AfterPut, Disturbed
  <2>2. ASSUME pc[w] \in LookedUp
        PROVE  /\ map'[target[w]] = map[target[w]]
               /\ pc[w] = "store" /\ kind'[page[w]] = "anon" =>
                    kind[page[w]] = "anon" /\ Mappers(page[w])' = Mappers(page[w])
    BY <1>0, <1>2, <2>1, <2>2, MmPutTargets DEF Release
  <2> QED
    BY <1>1, <2>1, <2>2, LeftAlone
<1>3. CASE ~Release(o)
  <2>1. map' = map /\ w \notin changed
    BY <1>3 DEF WriterStep, Call, FindTask, GetMm, LookUp, Check, Store, Put, PutsPage, Forgets,
                memVars
  <2>2. Mappers(page[w])' = Mappers(page[w])
    BY <1>1, <2>1 DEF Mappers
  <2>3. pc[w] = "store" => page[w] \in AllFrames
    BY <2>1, Undisturbed
  <2>4. pc[w] = "store" /\ kind'[page[w]] = "anon" => kind[page[w]] = "anon"
    BY <1>0, <1>3, <2>3 DEF WriterStep, Call, FindTask, GetMm, LookUp, Check, Store, Put, PutsPage,
                       memVars, KindsAfter
  <2> QED
    BY <1>1, <2>1, <2>2, <2>4, LeftAlone
<1> QED
  BY <1>2, <1>3

\* The writer itself: it finds the page the target has, and stores only where the
\* target is the only one to map it.
LEMMA OwnTarget ==
  ASSUME HoldsInv, TargetsInv, NEW w \in Writers, WriterStep(w), w \notin changed'
  PROVE  /\ pc'[w] \in LookedUp => map'[target'[w]] = page'[w]
         /\ pc'[w] = "store" => Alone(w)'
<1> USE DEF LookedUp
<1>0. /\ kind \in [AllFrames -> Kinds] /\ target \in [Writers -> Tasks]
      /\ map \in [Tasks -> AllFrames \cup {None}]
      /\ pc \in [Writers -> PCs] /\ page \in [Writers -> AllFrames \cup {None}]
  BY DEF HoldsInv, FramesInv, TasksInv
<1>1. CASE Call(w) \/ FindTask(w) \/ GetMm(w) \/ Store(w) \/ Put(w)
  <2>1. pc'[w] \in {"find", "mm", "look", "idle", "put"}
    BY <1>0, <1>1 DEF Call, FindTask, GetMm, Store, Put, Goes
  <2> QED
    BY <2>1
<1>2. CASE LookUp(w)
  BY <1>0, <1>2 DEF LookUp, Goes
<1>3. CASE Release(w)
  <2>1. pc'[w] \in {"idle", "check"} /\ target'[w] = target[w] /\ page'[w] = page[w]
    BY <1>0, <1>3 DEF Release, Goes
  <2>2. CASE page[w] = None
    BY <1>0, <1>3, <2>2 DEF Release, Goes
  <2>3. CASE page[w] # None
    <3>1. w \notin changed /\ mmUsers[target[w]] # 1
      BY <1>3, <2>3 DEF Release, AfterPut, Disturbed, Goes
    <3>2. map' = map /\ map[target[w]] = page[w]
      BY <1>3, <3>1 DEF Release, MmPut, TargetsInv, Goes
    <3> QED
      BY <2>1, <3>2
  <2> QED
    BY <2>2, <2>3
<1>4. CASE Check(w)
  <2>1. CASE pc'[w] = "store"
    <3>1. Usable(page[w]) /\ UNCHANGED <<memVars, target, page, changed>> /\ pc[w] = "check"
      BY <1>0, <1>4, <2>1 DEF Check, Goes
    <3>2. map[target[w]] = page[w]
      BY <3>1 DEF TargetsInv
    <3>3. Mappers(page[w]) \subseteq Tasks /\ IsFiniteSet(Mappers(page[w]))
      BY TasksAssumption, FS_Subset DEF Mappers
    <3>4. target[w] \in Mappers(page[w])
      BY <1>0, <3>2 DEF Mappers
    <3>5. ASSUME kind[page[w]] = "anon" PROVE Mappers(page[w]) = {target[w]}
      <4>1. ~(Cardinality(Mappers(page[w])) > 1)
        BY <3>1, <3>5 DEF Usable
      <4>2. /\ IsFiniteSet(Mappers(page[w]) \ {target[w]})
            /\ Cardinality(Mappers(page[w]) \ {target[w]}) = Cardinality(Mappers(page[w])) - 1
        BY <3>3, <3>4, FS_RemoveElement
      <4>3. /\ Cardinality(Mappers(page[w])) \in Nat
            /\ Cardinality(Mappers(page[w]) \ {target[w]}) \in Nat
        BY <3>3, <4>2, FS_CardinalityType
      <4>4. Cardinality(Mappers(page[w]) \ {target[w]}) = 0
        BY <4>1, <4>2, <4>3
      <4>5. Mappers(page[w]) \ {target[w]} = {}
        BY <4>2, <4>4, FS_EmptySet
      <4> QED
        BY <3>4, <4>5
    <3> QED
      BY <2>1, <3>1, <3>2, <3>5 DEF Alone, Mappers, memVars
  <2>2. CASE pc'[w] # "store"
    BY <1>0, <1>4, <2>2 DEF Check, Goes
  <2> QED
    BY <2>1, <2>2
<1> QED
  BY <1>1, <1>2, <1>3, <1>4 DEF WriterStep

LEMMA InitTargets ==
  Init => TargetsInv
BY DEF Init, TargetsInv, LookedUp

LEMMA NextTargets ==
  HoldsInv /\ TargetsInv /\ [Next]_vars => TargetsInv'
<1> SUFFICES ASSUME HoldsInv, TargetsInv, [Next]_vars, NEW w \in Writers, w \notin changed'
             PROVE  /\ pc'[w] \in LookedUp => map'[target'[w]] = page'[w]
                    /\ pc'[w] = "store" => Alone(w)'
  BY DEF TargetsInv
<1>1. CASE KernelStep
  BY <1>1, KernelTargets
<1>2. ASSUME NEW o \in Writers, WriterStep(o)
      PROVE  /\ pc'[w] \in LookedUp => map'[target'[w]] = page'[w]
             /\ pc'[w] = "store" => Alone(w)'
  <2>1. CASE w = o
    BY <1>2, <2>1, OwnTarget
  <2>2. CASE w # o
    BY <1>2, <2>2, OthersTarget
  <2> QED
    BY <2>1, <2>2
<1>3. CASE UNCHANGED vars
  BY <1>3 DEF vars, writerVars, memVars, TargetsInv, Alone, Mappers
<1> QED
  BY <1>1, <1>2, <1>3 DEF Next

\* While a frame is held it does not become anonymous, and who comes to map an
\* anonymous frame gets it by fork.
KinInv == \A w \in Writers : pc[w] \in LookedUp /\ IsAnon(page[w]) =>
                            Mappers(page[w]) \subseteq kin[w]

\* Who puts an mm maps nothing more.
LEMMA MmPutFewer ==
  ASSUME HoldsInv, NEW t \in Tasks, MmPut(t), NEW f, f # None
  PROVE  IsAnon(f)' => IsAnon(f) /\ Mappers(f)' \subseteq Mappers(f)
<1>1. map \in [Tasks -> AllFrames \cup {None}]
  BY DEF HoldsInv, FramesInv
<1> QED
  BY <1>1 DEF MmPut, KindsAfter, IsAnon, Mappers, AllFrames

LEMMA KernelKin ==
  ASSUME HoldsInv, KinInv, KernelStep, NEW w \in Writers, pc[w] \in LookedUp, IsAnon(page[w])'
  PROVE  Mappers(page[w])' \subseteq kin'[w]
<1> DEFINE p == page[w]
           Fewer == UNCHANGED kin /\ IsAnon(p) /\ Mappers(p)' \subseteq Mappers(p)
<1>0. /\ map \in [Tasks -> AllFrames \cup {None}] /\ kind \in [AllFrames -> Kinds]
      /\ UNCHANGED writerVars
  BY DEF HoldsInv, FramesInv, KernelStep, Starts, Forks, Born, Ends, Reaped, Reads, Maps, Unmaps,
         WritesInPlace, WritesCopy, Merges, CacheFills, CacheDrops
<1>1. p \in Frames /\ p \in AllFrames /\ p # None /\ p # Zero /\ kind[p] # "free"
      /\ kind'[p] = "anon"
  BY <1>0, InUse, FramesAssumption DEF IsAnon, HoldsInv, AllFrames, writerVars
<1>2. ASSUME Fewer PROVE Mappers(p)' \subseteq kin'[w]
  BY <1>2 DEF KinInv
<1>3. ASSUME NEW u \in Tasks, Starts(u) PROVE Mappers(p)' \subseteq kin'[w]
  <2>1. IsAnon(p) /\ Mappers(p)' \subseteq Mappers(p) \ {u}
    BY <1>0, <1>1, <1>3 DEF Starts, Born, IsAnon, Mappers, writerVars
  <2>2. Mappers(p) \subseteq kin[w] /\ kin'[w] = kin[w] \ {u}
    BY <1>3, <2>1 DEF Starts, KinInv
  <2> QED
    BY <2>1, <2>2
<1>4. ASSUME NEW t \in Tasks, NEW u \in Tasks, Forks(t, u) PROVE Mappers(p)' \subseteq kin'[w]
  <2>1. IsAnon(p) /\ Mappers(p) \subseteq kin[w]
    BY <1>1, <1>4 DEF Forks, Born, IsAnon, KinInv
  <2>2. Mappers(p)' \subseteq (IF p = map[t] THEN Mappers(p) \cup {u} ELSE Mappers(p) \ {u})
    BY <1>0, <1>4 DEF Forks, Born, Mappers, writerVars
  <2>3. kin'[w] = IF p = map[t] THEN kin[w] \cup {u} ELSE kin[w] \ {u}
    BY <1>4, <2>1 DEF Forks
  <2> QED
    BY <2>1, <2>2, <2>3
<1>5. ASSUME NEW t \in Tasks, NEW f \in AllFrames, NEW k, NEW v, Maps(t, f, k, v),
             k = "anon" => kind[f] = "free"
      PROVE  Fewer
  <2>1. p # f
    BY <1>0, <1>1, <1>5 DEF Maps, KindsAfter
  <2> QED
    BY <1>0, <1>1, <1>5, <2>1 DEF Maps, KindsAfter, Changes, IsAnon, Mappers, writerVars
<1>6. ASSUME NEW t \in Tasks, Reads(t) PROVE Fewer
  BY <1>5, <1>6 DEF Reads, AllFrames
<1>7. ASSUME NEW t \in Tasks, NEW v \in Values, WritesCopy(t, v) PROVE Fewer
  BY <1>5, <1>7 DEF WritesCopy, FreeFrames, AllFrames
<1>8. ASSUME NEW t \in Tasks, Ends(t) PROVE Fewer
  BY <1>0, <1>1, <1>8, MmPutFewer DEF Ends, writerVars, IsAnon
<1>9. ASSUME NEW t \in Tasks, Reaped(t) \/ Unmaps(t) \/ \E v \in Values : WritesInPlace(t, v)
      PROVE  Fewer
  BY <1>0, <1>1, <1>9 DEF Reaped, Unmaps, WritesInPlace, memVars, KindsAfter, Changes, IsAnon,
                          Mappers, writerVars
<1>10. ASSUME NEW t \in Tasks, NEW u \in Tasks, Merges(t, u) PROVE Fewer
  <2>1. p # map[t]
    BY <1>0, <1>1, <1>10 DEF Merges, AllFrames
  <2> QED
    BY <1>0, <1>1, <1>10, <2>1 DEF Merges, Changes, IsAnon, Mappers, writerVars
<1>11. ASSUME CacheFills \/ CacheDrops PROVE Fewer
  BY <1>0, <1>1, <1>11 DEF CacheFills, CacheDrops, FreeFrames, IsAnon, Mappers, writerVars
<1> HIDE DEF Fewer
<1> QED
  BY <1>2, <1>3, <1>4, <1>6, <1>7, <1>8, <1>9, <1>10, <1>11 DEF KernelStep

LEMMA WriterKin ==
  ASSUME HoldsInv, Noted, KinInv, NEW o \in Writers, WriterStep(o)
  PROVE  KinInv'
<1> SUFFICES ASSUME NEW w \in Writers, pc'[w] \in LookedUp, IsAnon(page[w])'
             PROVE  Mappers(page[w])' \subseteq kin'[w]
  BY DEF KinInv
<1>0. /\ kind \in [AllFrames -> Kinds] /\ target \in [Writers -> Tasks]
      /\ pc \in [Writers -> PCs] /\ page \in [Writers -> AllFrames \cup {None}]
      /\ kin \in [Writers -> SUBSET Tasks]
  BY DEF HoldsInv, FramesInv, TasksInv, Noted
<1>1. CASE LookUp(o) /\ w = o
  BY <1>0, <1>1 DEF LookUp, IsAnon, Having, Mappers
<1>2. CASE ~(LookUp(o) /\ w = o)
  <2>1. pc[w] \in LookedUp /\ page'[w] = page[w] /\ kin'[w] = kin[w]
    <3>1. CASE w = o
      BY <1>0, <1>2, <3>1 DEF WriterStep, Call, FindTask, GetMm, LookUp, Release, Check, Store,
                              Put, Goes, LookedUp
    <3>2. CASE w # o
      BY <1>0, <3>2 DEF WriterStep, Call, FindTask, GetMm, LookUp, Release, Check, Store, Put,
                        PutsPage, Forgets, Goes
    <3> QED
      BY <3>1, <3>2
  <2>2. page[w] \in Frames /\ page[w] # None
    BY <2>1, FramesAssumption DEF IsAnon
  <2>3. IsAnon(page[w]) /\ Mappers(page[w])' \subseteq Mappers(page[w])
    <3>1. CASE Release(o)
      BY <1>0, <2>1, <2>2, <3>1, MmPutFewer DEF Release, IsAnon
    <3>2. CASE ~Release(o)
      <4>1. UNCHANGED map /\ (UNCHANGED kind \/ kind' = KindsAfter(refs'))
        BY <3>2 DEF WriterStep, Call, FindTask, GetMm, LookUp, Check, Store, Put, PutsPage, memVars
      <4> QED
        BY <2>1, <2>2, <4>1 DEF IsAnon, KindsAfter, Mappers, AllFrames
    <3> QED
      BY <3>1, <3>2
  <2> QED
    BY <2>1, <2>3 DEF KinInv
<1> QED
  BY <1>1, <1>2

LEMMA NextKin == HoldsInv /\ Noted /\ KinInv /\ [Next]_vars => KinInv'
<1> SUFFICES ASSUME HoldsInv, Noted, KinInv, [Next]_vars PROVE KinInv'
  OBVIOUS
<1>1. CASE KernelStep
  <2>1. UNCHANGED writerVars
    BY <1>1 DEF KernelStep, Starts, Forks, Born, Ends, Reaped, Reads, Maps, Unmaps,
                WritesInPlace, WritesCopy, Merges, CacheFills, CacheDrops
  <2>2. ASSUME NEW w \in Writers, pc[w] \in LookedUp, IsAnon(page[w])'
        PROVE  Mappers(page[w])' \subseteq kin'[w]
    BY <1>1, <2>2, KernelKin
  <2> QED
    BY <2>1, <2>2 DEF KinInv, writerVars
<1>2. CASE UNCHANGED vars
  BY <1>2 DEF vars, writerVars, memVars, KinInv, IsAnon, Mappers
<1> QED
  BY <1>1, <1>2, WriterKin DEF Next

\* The store reaches the process the request names and, if the memory is anonymous
\* and the word ends within the page, no other, unless that process changed its
\* mapping, forked or ended since the page was looked up; in any case nobody who
\* neither had the page then nor got it since by fork.
THEOREM TargetReached == Spec => []ReachesTarget
<1>1. HoldsInv /\ TargetsInv /\ KinInv => ReachesTarget
  <2> SUFFICES ASSUME HoldsInv, TargetsInv, KinInv, NEW w \in Writers, pc[w] = "store"
               PROVE  /\ w \notin changed => map[target[w]] = page[w]
                      /\ kind[page[w]] = "anon" =>
                           /\ Mappers(page[w]) \subseteq kin[w]
                           /\ w \notin changed => Mappers(page[w]) = {target[w]}
    BY DEF ReachesTarget, At, Hit
  <2>1. page[w] \in AllFrames
    BY DEF HoldsInv, HeldInv, FramesInv
  <2>2. kind[page[w]] = "anon" => IsAnon(page[w])
    BY <2>1 DEF HoldsInv, FramesInv, IsAnon, AllFrames
  <2> QED
    BY <2>2 DEF TargetsInv, KinInv, Alone, LookedUp
<1>2. Init => HoldsInv /\ Noted /\ TargetsInv /\ KinInv
  BY InitHolds, InitTargets, InitNoted DEF Init, KinInv, LookedUp
<1>3. /\ HoldsInv /\ Noted /\ TargetsInv /\ KinInv /\ [Next]_vars
      => (HoldsInv /\ Noted /\ TargetsInv /\ KinInv)'
  BY NextHolds, NextNoted, NextTargets, NextKin
<1> QED
  BY <1>1, <1>2, <1>3, PTL DEF Spec
=============================================================================
