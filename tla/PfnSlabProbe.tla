---------------------------- MODULE PfnSlabProbe ----------------------------
(***************************************************************************)
(* package/pfn-mod/src/pfn_slab_probe.c: writing a page frame number to    *)
(* debugfs has the module look at the frame before it and, if that is slab *)
(* memory, search it backwards for an object; reading the file shows what  *)
(* the last look found.  That is kept in five globals no lock protects, so *)
(* calls of several users interleave global by global.                     *)
(*                                                                         *)
(* What the frames are used for (mem) is the kernel's and changes          *)
(* meanwhile; in a slab frame kmem_dump_obj() accepts the slots Objects.   *)
(***************************************************************************)
EXTENDS Integers, FiniteSets

CONSTANTS
  Frames,       (* the frames that exist, 0..n                              *)
  Slots,        (* the places of a frame the scan tries, 0..n               *)
  Objects,      (* the slots of a frame that hold an object of its slab     *)
  Writers,      (* calls of pfn_write() that run at the same time           *)
  Readers       (* calls of pfn_read()                                      *)

ASSUME FramesAssumption  == Frames \subseteq Nat
ASSUME SlotsAssumption   == \E n \in Slots : n \in Nat /\ Slots = 0..n
ASSUME ObjectsAssumption == Objects \in [Frames -> SUBSET Slots]

VARIABLES
  mem,          (* the page flags of every frame                            *)
  loaded,       (* the module is in the kernel                              *)
  last,         (* the five globals last_...                                *)
  call,         (* what each writer is doing                                *)
  report,       (* what each reader has read so far                         *)
  solo          (* the last look is over, met no other, and its frame has   *)
                (* not changed since; history, no step reads it             *)

probeVars == <<loaded, last, call, report, solo>>

Globals == {"input", "checked", "hits", "offset", "valid"}
Idle == [at |-> "idle", pfn |-> 0, slot |-> 0, loaded |-> 0, alone |-> FALSE]
NoReport == [left |-> Globals, got |-> <<>>, clean |-> FALSE]
Working(w) == call[w].at # "idle"

Accepts(f, s) == "SLAB" \in mem[f] /\ s \in Objects[f]
FirstSlot == CHOOSE s \in Slots : \A t \in Slots : s <= t
LastSlot == CHOOSE s \in Slots : \A t \in Slots : s >= t

Zeroed == [input |-> 0, checked |-> 0, hits |-> 0, offset |-> 0, valid |-> FALSE]

ProbeInit ==
  /\ loaded \in BOOLEAN
  /\ last = Zeroed
  /\ call = [w \in Writers |-> Idle]
  /\ report = [r \in Readers |-> NoReport]
  /\ solo = FALSE

\* Whoever looks at frame f, or has, is disturbed by its change.
FrameChanges(f, flags) ==
  /\ mem' = [mem EXCEPT ![f] = flags]
  /\ call' = [w \in Writers |-> IF Working(w) /\ call[w].pfn = f + 1
                                THEN [call[w] EXCEPT !.alone = FALSE] ELSE call[w]]
  /\ solo' = (solo /\ last.input # f + 1)
  /\ report' = [r \in Readers |-> [report[r] EXCEPT !.clean = @ /\ last.input # f + 1]]
  /\ UNCHANGED <<loaded, last>>

\* insmod, and rmmod, which waits for open files; loading starts from zeros.
Load ==
  /\ ~loaded
  /\ loaded' = TRUE /\ last' = Zeroed /\ solo' = FALSE
  /\ report' = [r \in Readers |-> NoReport]
  /\ UNCHANGED <<mem, call>>
Unload ==
  /\ loaded
  /\ \A w \in Writers : ~Working(w)
  /\ \A r \in Readers : report[r].left \in {{}, Globals}
  /\ loaded' = FALSE
  /\ UNCHANGED <<mem, last, call, report, solo>>
-----------------------------------------------------------------------------
(***************************************************************************)
(* pfn_write() and probe_previous_pfn().  What is too long, cannot be      *)
(* copied or is no number is turned down before anything is touched, and   *)
(* is left out.                                                            *)
(***************************************************************************)
Steps(w, from, to) ==
  /\ call[w].at = from
  /\ call' = [call EXCEPT ![w].at = to]
  /\ UNCHANGED <<report, solo>>
Sets(g, v) == last' = [last EXCEPT ![g] = v]
Ends(w) ==
  /\ call' = [call EXCEPT ![w] = Idle]
  /\ solo' = call[w].alone
  /\ UNCHANGED report

Write(w, q) ==
  /\ loaded /\ ~Working(w)
  /\ call' = [v \in Writers |->
                IF v = w
                THEN [Idle EXCEPT !.at = "input", !.pfn = q,
                                  !.alone = \A u \in Writers : ~Working(u)]
                ELSE [call[v] EXCEPT !.alone = FALSE]]
  /\ solo' = FALSE
  /\ report' = [r \in Readers |-> [report[r] EXCEPT !.clean = FALSE]]
  /\ UNCHANGED <<mem, loaded, last>>

SetInput(w) == Steps(w, "input", "clear hits") /\ Sets("input", call[w].pfn)
\* Mutant: the hits of earlier looks are kept.
KeepHits(w) == Steps(w, "clear hits", "clear offset") /\ UNCHANGED last
ClearHits(w) == Steps(w, "clear hits", "clear offset") /\ Sets("hits", 0)
ClearOffset(w) == Steps(w, "clear offset", "clear valid") /\ Sets("offset", 0)
\* There is no frame before frame 0: last_checked_pfn keeps what it had.
ClearValid(w) ==
  /\ Sets("valid", FALSE)
  /\ \/ call[w].pfn # 0 /\ Steps(w, "clear valid", "checked")
     \/ call[w].pfn = 0 /\ call[w].at = "clear valid" /\ Ends(w)
\* Mutant: the frame itself is looked at.
SetCheckedItself(w) == Steps(w, "checked", "validate") /\ Sets("checked", call[w].pfn)
SetChecked(w) == Steps(w, "checked", "validate") /\ Sets("checked", call[w].pfn - 1)
Validate(w) ==
  \/ /\ call[w].pfn - 1 \in Frames
     /\ Steps(w, "validate", "slab") /\ Sets("valid", TRUE)
  \/ /\ call[w].at = "validate" /\ call[w].pfn - 1 \notin Frames
     /\ Ends(w) /\ UNCHANGED last
\* The flags are read once; the scan goes on whatever becomes of the frame.
PageSlab(w) ==
  /\ call[w].at = "slab"
  /\ IF "SLAB" \in mem[call[w].pfn - 1]
     THEN /\ call' = [call EXCEPT ![w].at = "scan", ![w].slot = LastSlot]
          /\ UNCHANGED <<report, solo>>
     ELSE Ends(w)
  /\ UNCHANGED last
\* Mutant: the scan goes on past an object and so ends with the first of the frame.
ScanAll(w) ==
  LET s == call[w].slot
  IN  /\ call[w].at = "scan"
      /\ IF s = FirstSlot /\ Accepts(call[w].pfn - 1, s)
         THEN /\ call' = [call EXCEPT ![w].at = "hits", ![w].loaded = last.hits]
              /\ UNCHANGED <<report, solo>>
         ELSE IF s # FirstSlot
         THEN call' = [call EXCEPT ![w].slot = s - 1] /\ UNCHANGED <<report, solo>>
         ELSE Ends(w)
      /\ UNCHANGED last
\* One round of the loop; last_hits++ loads the count here and stores it later.
Scan(w) ==
  LET s == call[w].slot
  IN  /\ call[w].at = "scan"
      /\ IF Accepts(call[w].pfn - 1, s)
         THEN /\ call' = [call EXCEPT ![w].at = "hits", ![w].loaded = last.hits]
              /\ UNCHANGED <<report, solo>>
         ELSE IF s # FirstSlot
         THEN call' = [call EXCEPT ![w].slot = s - 1] /\ UNCHANGED <<report, solo>>
         ELSE Ends(w)
      /\ UNCHANGED last
CountHit(w) == Steps(w, "hits", "offset") /\ Sets("hits", call[w].loaded + 1)
SetOffset(w) == call[w].at = "offset" /\ Sets("offset", call[w].slot) /\ Ends(w)

LookStep(w) ==
  /\ \/ SetInput(w) \/ ClearHits(w) \/ ClearOffset(w) \/ ClearValid(w) \/ SetChecked(w)
     \/ Validate(w) \/ PageSlab(w) \/ Scan(w) \/ CountHit(w) \/ SetOffset(w)
  /\ UNCHANGED <<mem, loaded>>

\* pfn_read() loads the globals in the order the compiler likes.
Read(r) ==
  /\ \E g \in report[r].left :
       report' = [report EXCEPT
         ![r].left = @ \ {g},
         ![r].got = [h \in DOMAIN @ \cup {g} |-> IF h = g THEN last[g] ELSE @[h]],
         ![r].clean = IF report[r].left = Globals THEN solo ELSE @]
  /\ loaded
  /\ UNCHANGED <<mem, loaded, last, call, solo>>
-----------------------------------------------------------------------------
\* What one look at the frame before q finds, of memory as it is.
Before(q) == q - 1
HasObject(q) ==
  q # 0 /\ Before(q) \in Frames /\ \E s \in Slots : Accepts(Before(q), s)
IsLookAt(q, g) ==
  /\ g.input = q
  /\ q # 0 => g.checked = Before(q)
  /\ g.valid = (q # 0 /\ Before(q) \in Frames)
  /\ g.hits = IF HasObject(q) THEN 1 ELSE 0
  /\ HasObject(q) => /\ Accepts(Before(q), g.offset)
                     /\ \A s \in Slots : Accepts(Before(q), s) => s <= g.offset

\* The globals tell the truth about the frame before the number written: whether
\* it exists, whether it holds an object, and the last one; unless another look
\* ran at the same time, or the frame has changed.
LookTrue == solo => IsLookAt(last.input, last)

\* So does a report that no write and no change of the frame overlapped, whatever
\* the order of its loads.
ReportTrue ==
  \A r \in Readers :
    report[r].left = {} /\ report[r].clean => IsLookAt(report[r].got.input, report[r].got)

\* Both: what the module holds and what it shows.
ProbeTrue == LookTrue /\ ReportTrue
=============================================================================
