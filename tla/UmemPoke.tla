------------------------------ MODULE UmemPoke ------------------------------
(***************************************************************************)
(* package/umem_poke/src/kmod/umem_poke.c: writing "pid:address:value" to  *)
(* /proc/umem_poke stores the value in the memory of that process.  The    *)
(* handler finds the task, takes its mm, looks the page up, checks it, and *)
(* stores through the kernel's own mapping of the page, while the process  *)
(* runs, forks, writes, unmaps or ends.                                    *)
(*                                                                         *)
(* Every process has one word of memory, the one the request is about.  A  *)
(* word may begin in the last bytes of its page, since nobody looks at how *)
(* an address is aligned: the store goes on into the next frame, whoever   *)
(* has it.  What the kernel does with tasks, page tables and frames is     *)
(* external.  A task keeps its number: while somebody holds the old one it *)
(* is not used again, since the handler would find no mm in it either way. *)
(***************************************************************************)
EXTENDS Integers, FiniteSets

CONSTANTS
  Tasks,        (* processes, by their pid                                  *)
  Frames,       (* frames of memory, by number                              *)
  Zero,         (* the frame of zeros all processes read                    *)
  None,         (* no frame                                                 *)
  Writers,      (* calls of umem_poke_write() that run at the same time     *)
  Values        (* words                                                    *)

ASSUME FramesAssumption ==
  /\ Frames \subseteq Nat
  /\ Zero \notin Frames /\ None \notin Frames \cup {Zero}
ASSUME ValuesAssumption == 0 \in Values
ASSUME TasksAssumption == IsFiniteSet(Tasks) /\ Tasks # {}
ASSUME WritersAssumption == IsFiniteSet(Writers)

VARIABLES
  task,         (* a process in the table, alive or waiting to be reaped    *)
  taskRefs,     (* references to its task_struct                            *)
  mmUsers,      (* mm_users of its mm                                       *)
  map,          (* the frame that backs the word                            *)
  kind,         (* what a frame is used for                                 *)
  refs,         (* references to a frame                                    *)
  word,         (* its contents                                             *)
  pc,           (* where each writer is                                     *)
  target,       (* the pid it was given                                     *)
  page,         (* the page it found                                        *)
  crosses,      (* writers whose word runs over the end of the page         *)
  changed,      (* writers whose target changed its mapping since they      *)
                (* looked it up; history, no step reads it                  *)
  kin           (* who had the anonymous page a writer found, and who got   *)
                (* it from them by fork; history, no step reads it          *)

taskVars   == <<task, taskRefs, mmUsers>>
memVars    == <<map, kind, refs, word>>
writerVars == <<pc, target, page, crosses>>
vars == <<taskVars, memVars, writerVars, changed, kin>>

AllFrames == Frames \cup {Zero}
Kinds == {"free", "anon", "ksm", "file", "zero"}
PCs == {"idle", "find", "mm", "look", "mmput", "check", "store", "put"}

Mappers(f) == {t \in Tasks : map[t] = f}
FreeFrames == {f \in Frames : kind[f] = "free"}
IsAnon(f) == f \in Frames /\ kind[f] = "anon"

\* One reference less; frames nobody refers to are free.  Mapping the frame of
\* zeros takes no reference.
Unref(r, f) == IF f \in Frames THEN [r EXCEPT ![f] = @ - 1] ELSE r
Ref(r, f)   == IF f \in Frames THEN [r EXCEPT ![f] = @ + 1] ELSE r
KindsAfter(r) == [f \in AllFrames |->
                    IF f \in Frames /\ r[f] = 0 THEN "free" ELSE kind[f]]

Init ==
  /\ task     = [t \in Tasks |-> "live"]
  /\ taskRefs = [t \in Tasks |-> 1]
  /\ mmUsers  = [t \in Tasks |-> 1]
  /\ map      = [t \in Tasks |-> None]
  /\ kind     = [f \in AllFrames |-> IF f = Zero THEN "zero" ELSE "free"]
  /\ refs     = [f \in AllFrames |-> 0]
  /\ word     = [f \in AllFrames |-> 0]
  /\ pc       = [w \in Writers |-> "idle"]
  /\ target   \in [Writers -> Tasks]
  /\ page     = [w \in Writers |-> None]
  /\ crosses  = {}
  /\ changed  = {}
  /\ kin      = [w \in Writers |-> {}]
-----------------------------------------------------------------------------
(***************************************************************************)
(* Processes and memory management.                                        *)
(***************************************************************************)
LookedUp == {"mmput", "check", "store"}
Disturbed(S) ==
  changed \cup {w \in Writers : pc[w] \in LookedUp /\ target[w] \in S}
Changes(S) == changed' = Disturbed(S) /\ UNCHANGED kin

\* A process nobody refers to any more makes room for a new one, which runs
\* another program (f = None) or is a copy of t.
Fresh(u) == task[u] = "none" /\ taskRefs[u] = 0 /\ mmUsers[u] = 0
Born(u, f) ==
  /\ Fresh(u)
  /\ task' = [task EXCEPT ![u] = "live"]
  /\ taskRefs' = [taskRefs EXCEPT ![u] = 1]
  /\ mmUsers' = [mmUsers EXCEPT ![u] = 1]
  /\ map' = [map EXCEPT ![u] = f]
  /\ refs' = Ref(refs, f)
  /\ UNCHANGED <<kind, word, writerVars>>

Starts(u) ==
  /\ Born(u, None)
  /\ kin' = [w \in Writers |-> kin[w] \ {u}]
  /\ UNCHANGED changed
Forks(t, u) ==
  /\ task[t] = "live"
  /\ Born(u, map[t])
  /\ changed' = Disturbed({t})
  /\ kin' = [w \in Writers |->
                IF pc[w] \in LookedUp /\ page[w] = map[t] /\ IsAnon(page[w])
                THEN kin[w] \cup {u} ELSE kin[w] \ {u}]

\* One user of t's mm less; the last one takes the memory down.
AfterPut(t) == IF mmUsers[t] = 1 THEN Disturbed({t}) ELSE changed
MmPut(t) ==
  LET last == mmUsers[t] = 1
  IN  /\ mmUsers' = [mmUsers EXCEPT ![t] = @ - 1]
      /\ map' = IF last THEN [map EXCEPT ![t] = None] ELSE map
      /\ refs' = IF last THEN Unref(refs, map[t]) ELSE refs
      /\ kind' = KindsAfter(refs')

Ends(t) ==
  /\ task[t] = "live"
  /\ task' = [task EXCEPT ![t] = "zombie"]
  /\ MmPut(t)
  /\ changed' = AfterPut(t)
  /\ UNCHANGED <<taskRefs, word, writerVars, kin>>

Reaped(t) ==
  /\ task[t] = "zombie"
  /\ task' = [task EXCEPT ![t] = "none"]
  /\ taskRefs' = [taskRefs EXCEPT ![t] = @ - 1]
  /\ UNCHANGED <<mmUsers, memVars, writerVars, changed, kin>>

\* t now has frame f, holding v, in place of what it had.
Maps(t, f, k, v) ==
  /\ map' = [map EXCEPT ![t] = f]
  /\ refs' = Ref(Unref(refs, map[t]), f)
  /\ kind' = [KindsAfter(refs') EXCEPT ![f] = k]
  /\ word' = [word EXCEPT ![f] = v]
  /\ Changes({t})
  /\ UNCHANGED <<taskVars, writerVars>>

\* A read of memory not touched before, or of a file the page cache has or gets
\* (the cache holds a reference of its own).
Reads(t) ==
  /\ task[t] = "live" /\ map[t] = None
  /\ \/ Maps(t, Zero, "zero", word[Zero])
     \/ \E f \in Frames : kind[f] = "file" /\ Maps(t, f, "file", word[f])
CacheFills ==
  /\ \E f \in FreeFrames, v \in Values :
       /\ kind' = [kind EXCEPT ![f] = "file"]
       /\ refs' = [refs EXCEPT ![f] = 1]
       /\ word' = [word EXCEPT ![f] = v]
  /\ UNCHANGED <<taskVars, map, writerVars, changed, kin>>
CacheDrops ==
  /\ \E f \in Frames :
       /\ kind[f] = "file" /\ refs[f] = 1
       /\ kind' = [kind EXCEPT ![f] = "free"]
       /\ refs' = [refs EXCEPT ![f] = 0]
  /\ UNCHANGED <<taskVars, map, word, writerVars, changed, kin>>

\* A write: in place if the frame is t's alone, to a copy if it is shared or
\* somebody else refers to it.
WritesInPlace(t, v) ==
  /\ task[t] = "live" /\ map[t] \in Frames /\ kind[map[t]] = "anon"
  /\ Mappers(map[t]) = {t}
  /\ word' = [word EXCEPT ![map[t]] = v]
  /\ UNCHANGED <<taskVars, map, kind, refs, writerVars, changed, kin>>
WritesCopy(t, v) ==
  /\ task[t] = "live"
  /\ ~(map[t] \in Frames /\ kind[map[t]] = "anon" /\ refs[map[t]] = 1)
  /\ \E f \in FreeFrames : Maps(t, f, "anon", v)

Unmaps(t) ==
  /\ task[t] = "live" /\ map[t] # None
  /\ map' = [map EXCEPT ![t] = None]
  /\ refs' = Unref(refs, map[t])
  /\ kind' = KindsAfter(refs')
  /\ Changes({t})
  /\ UNCHANGED <<taskVars, word, writerVars>>

\* KSM gives two processes with equal pages, to which nobody else refers, one
\* frame.
Merges(t, u) ==
  /\ t # u /\ {task[t], task[u]} = {"live"}
  /\ {map[t], map[u]} \subseteq Frames /\ map[t] # map[u]
  /\ \A f \in {map[t], map[u]} : kind[f] = "anon" /\ refs[f] = 1
  /\ word[map[t]] = word[map[u]]
  /\ map' = [map EXCEPT ![u] = map[t]]
  /\ refs' = [refs EXCEPT ![map[t]] = 2, ![map[u]] = 0]
  /\ kind' = [kind EXCEPT ![map[t]] = "ksm", ![map[u]] = "free"]
  /\ Changes({t, u})
  /\ UNCHANGED <<taskVars, word, writerVars>>

KernelStep ==
  \/ \E t \in Tasks : \/ Starts(t) \/ Ends(t) \/ Reaped(t) \/ Reads(t) \/ Unmaps(t)
                      \/ \E v \in Values : WritesInPlace(t, v) \/ WritesCopy(t, v)
                      \/ \E u \in Tasks : Forks(t, u) \/ Merges(t, u)
  \/ CacheFills \/ CacheDrops
-----------------------------------------------------------------------------
(***************************************************************************)
(* umem_poke_write().  A request that is too long or does not parse is     *)
(* turned down before anything happens.  Every failure of the look-up is   *)
(* reported as -EFAULT; the results are left out.                          *)
(***************************************************************************)
Goes(w, from, to) == pc[w] = from /\ pc' = [pc EXCEPT ![w] = to]

Call(w) ==
  /\ Goes(w, "idle", "find")
  /\ \E t \in Tasks : target' = [target EXCEPT ![w] = t]
  /\ UNCHANGED <<taskVars, memVars, page, crosses, changed, kin>>

\* Mutant: without get_task_struct().
FindTaskUnreferenced(w) ==
  /\ Goes(w, "find", IF task[target[w]] = "none" THEN "idle" ELSE "mm")
  /\ UNCHANGED <<taskVars, memVars, target, page, crosses, changed, kin>>
\* pid_task() and get_task_struct(), under rcu_read_lock().
FindTask(w) ==
  LET t == target[w]
  IN  /\ \/ /\ task[t] # "none"
            /\ Goes(w, "find", "mm")
            /\ taskRefs' = [taskRefs EXCEPT ![t] = @ + 1]
         \/ /\ task[t] = "none"
            /\ Goes(w, "find", "idle")
            /\ UNCHANGED taskRefs
      /\ UNCHANGED <<task, mmUsers, memVars, target, page, crosses, changed, kin>>

\* get_task_mm() and put_task_struct(); a task that has ended has no mm.
GetMm(w) ==
  LET t == target[w]
  IN  /\ taskRefs' = [taskRefs EXCEPT ![t] = @ - 1]
      /\ \/ /\ task[t] = "live"
            /\ Goes(w, "mm", "look")
            /\ mmUsers' = [mmUsers EXCEPT ![t] = @ + 1]
         \/ /\ task[t] # "live"
            /\ Goes(w, "mm", "idle")
            /\ UNCHANGED mmUsers
      /\ UNCHANGED <<task, memVars, target, page, crosses, changed, kin>>

\* Those who can be hit by a store into frame f, if it is anonymous.
Having(f) == IF IsAnon(f) THEN Mappers(f) ELSE {}

\* Mutant: the page is read off the page table without a reference.
LookUpUnreferenced(w) ==
  /\ Goes(w, "look", "mmput")
  /\ page' = [page EXCEPT ![w] = map[target[w]]]
  /\ kin' = [kin EXCEPT ![w] = Having(map[target[w]])]
  /\ UNCHANGED <<taskVars, memVars, target, crosses, changed>>
\* get_user_pages_remote() under mmap_read_lock(): with FOLL_NOFAULT it takes
\* what is mapped, if anything is, and a reference to it.
LookUp(w) ==
  /\ Goes(w, "look", "mmput")
  /\ page' = [page EXCEPT ![w] = map[target[w]]]
  /\ refs' = IF map[target[w]] = None THEN refs
             ELSE [refs EXCEPT ![map[target[w]]] = @ + 1]
  /\ kin' = [kin EXCEPT ![w] = Having(map[target[w]])]
  /\ UNCHANGED <<taskVars, map, kind, word, target, crosses, changed>>

\* The mm is put before the page is looked at.
Release(w) ==
  /\ Goes(w, "mmput", IF page[w] = None THEN "idle" ELSE "check")
  /\ MmPut(target[w])
  /\ changed' = AfterPut(target[w]) \ (IF page[w] = None THEN {w} ELSE {})
  /\ UNCHANGED <<task, taskRefs, word, target, page, crosses, kin>>

\* put_page(): the writer is done with its page.
PutsPage(w) ==
  /\ refs' = [refs EXCEPT ![page[w]] = @ - 1]
  /\ kind' = KindsAfter(refs')
  /\ page' = [page EXCEPT ![w] = None]

\* The history of a look-up ends with the store, or without one.
Forgets(w) == /\ changed' = changed \ {w}
              /\ kin' = [kin EXCEPT ![w] = {}]

\* Mutants: the test for the frame of zeros is left out; the one for sharing is.
UsableZero(f) == ~(kind[f] = "anon" /\ Cardinality(Mappers(f)) > 1)
UsableShared(f) == f # Zero
\* The frame of zeros and shared anonymous memory are left alone; KSM's and a
\* file's pages are not.
Usable(f) == f # Zero /\ ~(kind[f] = "anon" /\ Cardinality(Mappers(f)) > 1)

\* The offset in the page is added to the kernel's address of it, however near
\* to the end; or the kernel has no address of its own for the page.
Check(w) ==
  \/ /\ Goes(w, "check", "store") /\ Usable(page[w])
     /\ crosses' \in {crosses, crosses \cup {w}}
     /\ UNCHANGED <<taskVars, memVars, target, page, changed, kin>>
  \/ /\ Goes(w, "check", "idle")
     /\ PutsPage(w) /\ Forgets(w)
     /\ UNCHANGED <<taskVars, map, word, target, crosses>>

\* The frames a store hits: the one found and, if the word runs over its end, the
\* one that comes next in the kernel's mapping of memory.
Hit(w) == {page[w]} \cup (IF w \in crosses THEN {page[w] + 1} \cap Frames ELSE {})

Store(w) ==
  /\ Goes(w, "store", "put")
  /\ \E v, over \in Values :
       word' = [f \in AllFrames |-> IF f = page[w] THEN v
                                   ELSE IF f \in Hit(w) THEN over ELSE word[f]]
  /\ crosses' = crosses \ {w}
  /\ Forgets(w)
  /\ UNCHANGED <<taskVars, map, kind, refs, target, page>>

\* put_user_linear_mapping().
Put(w) ==
  /\ Goes(w, "put", "idle")
  /\ PutsPage(w)
  /\ UNCHANGED <<taskVars, map, word, target, crosses, changed, kin>>

WriterStep(w) == \/ Call(w) \/ FindTask(w) \/ GetMm(w) \/ LookUp(w) \/ Release(w)
                 \/ Check(w) \/ Store(w) \/ Put(w)

Next == KernelStep \/ \E w \in Writers : WriterStep(w)

Spec == Init /\ [][Next]_vars
-----------------------------------------------------------------------------
\* The type of every variable.
TypeOK ==
  /\ task \in [Tasks -> {"none", "live", "zombie"}]
  /\ taskRefs \in [Tasks -> Nat] /\ mmUsers \in [Tasks -> Nat]
  /\ map \in [Tasks -> AllFrames \cup {None}]
  /\ kind \in [AllFrames -> Kinds] /\ refs \in [AllFrames -> Nat]
  /\ word \in [AllFrames -> Values]
  /\ pc \in [Writers -> PCs] /\ target \in [Writers -> Tasks]
  /\ page \in [Writers -> AllFrames \cup {None}]
  /\ crosses \subseteq Writers /\ changed \subseteq Writers
  /\ kin \in [Writers -> SUBSET Tasks]

At(places) == {w \in Writers : pc[w] \in places}

\* Every reference the handler takes it gives back, once, on whichever way it
\* leaves: tasks, mms and frames have as many references as there are users.
Balanced ==
  /\ \A t \in Tasks :
       LET here == {w \in Writers : target[w] = t}
       IN  /\ taskRefs[t] = Cardinality(At({"mm"}) \cap here)
                            + (IF task[t] = "none" THEN 0 ELSE 1)
           /\ mmUsers[t] = Cardinality(At({"look", "mmput"}) \cap here)
                           + (IF task[t] = "live" THEN 1 ELSE 0)
  /\ \A f \in AllFrames :
       refs[f] = Cardinality({w \in Writers : page[w] = f})
                 + (IF f = Zero THEN 0 ELSE Cardinality(Mappers(f)))
                 + (IF kind[f] = "file" THEN 1 ELSE 0)

\* The store never hits a frame that has been given up, though the process may
\* have ended since it was looked up, if its word ends within the page.  If it
\* does not, only the frame that was found is known to be held.
StoreHitsHeld ==
  \A w \in At({"check", "store", "put"}) :
    /\ page[w] # None /\ kind[page[w]] # "free"
    /\ w \notin crosses => \A f \in Hit(w) : kind[f] # "free"

\* The handler holds what it uses, and no more than it gives back.
HoldsWhatItUses == TypeOK /\ Balanced /\ StoreHitsHeld

\* What all processes read as zero stays zero.
ZeroStaysZero == word[Zero] = 0

\* The store reaches the process it is for, and, if the memory is anonymous and
\* the word ends within the page, no other, unless that process changed its
\* mapping, forked or ended after the page was looked up: no lock is held then.
\* Whatever happened meanwhile, a store into an anonymous page is seen only by who
\* had it when it was looked up and by whom they passed it on to by fork.
ReachesTarget ==
  \A w \in At({"store"}) :
    /\ w \notin changed => map[target[w]] = page[w]
    /\ w \notin crosses =>
         \A f \in Hit(w) : kind[f] = "anon" =>
           /\ Mappers(f) \subseteq kin[w]
           /\ w \notin changed => Mappers(f) = {target[w]}
=============================================================================
