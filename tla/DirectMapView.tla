---------------------------- MODULE DirectMapView ---------------------------
(***************************************************************************)
(* package/direct_map_view/src/direct_map_view.c: occupy memory, read the  *)
(* flags of a range of page frames from /proc/kpageflags, count their      *)
(* classes and the places where kernel memory touches a user's, and submit *)
(* those where the kernel's is slab to pfn_slab_probe (PfnSlabProbe, of    *)
(* whose callers the viewer is one), while frames change their use and     *)
(* others use the probe.  Legend, colours and rows are left out.           *)
(***************************************************************************)
EXTENDS PfnSlabProbe, Sequences

CONSTANTS
  Viewer,       (* the viewer, among Writers                                *)
  Word,         (* 2^64: PFNs and file offsets are taken modulo this        *)
  MaxSamples,   (* MAX_SAMPLES                                              *)
  Options,      (* command lines                                            *)
  Layouts,      (* what memory may look like at first                       *)
  Uses,         (* what a frame may change to                               *)
  Numbers,      (* what others write to the probe                           *)
  MaxChanges, MaxWrites, MaxReads, MaxLoads      (* bounds on the others    *)

\* opts_t, and whether parse_args() accepts the command line.
Command == [kind : {"scan", "help", "bad"}, percentage : Int, start : 0..Word - 1,
            count : 0..Word - 1, stopOnEof : BOOLEAN, stopOnError : BOOLEAN,
            summary : BOOLEAN]

\* A frame's entry has an offset that an off_t holds.
ASSUME ViewerAssumption  == Viewer \in Writers
ASSUME WordAssumption    == Word \in Nat /\ \E m \in 1..Word : Word = 16 * m
ASSUME ReachAssumption   == \A f \in Frames : f < Word \div 16
ASSUME SamplesAssumption == MaxSamples \in Nat
ASSUME OptionsAssumption == Options \subseteq Command
ASSUME LayoutsAssumption == \A m \in Layouts : DOMAIN m = Frames
ASSUME NumbersAssumption == Numbers \subseteq Nat

VARIABLES
  pc,           (* where main() is                                          *)
  opt,          (* the command line                                         *)
  pfn,          (* the next frame render_range() reads                      *)
  prev,         (* the class of the one before, or "none"                   *)
  counts,       (* class_counts                                             *)
  slabToUser, otherToUser,
  samples,      (* first_boundary_...[], in order                           *)
  next,         (* the sample print_summary() is at                         *)
  haveProbe,    (* slab_probe_available(), asked once                       *)
  status,       (* the exit status                                          *)
  spent,        (* what the others have done so far                         *)
  seen,         (* history: the class found for each frame of the range     *)
  was,          (* history: the classes each frame has had                  *)
  moved,        (* history: frames that changed after they were read        *)
  claims        (* history: the numbers reported as submitted, and whether  *)
                (* the probe was there to take them                         *)

scanVars    == <<pfn, prev, counts, slabToUser, otherToUser, samples, seen>>
summaryVars == <<next, haveProbe, claims>>
viewVars    == <<pc, opt, scanVars, summaryVars, status>>
envVars     == <<spent, was, moved>>
vars        == <<mem, probeVars, viewVars, envVars>>

Classes == {"free", "slab", "user-anon", "user-file", "pgtable", "huge", "other", "offline"}
Users == {"user-anon", "user-file"}

\* classify_flags(): the first test that holds decides.
Tests == <<
  [class |-> "offline",   flags |-> {"OFFLINE", "NOPAGE"}],
  [class |-> "free",      flags |-> {"BUDDY"}],
  [class |-> "slab",      flags |-> {"SLAB"}],
  [class |-> "pgtable",   flags |-> {"PGTABLE"}],
  [class |-> "huge",      flags |-> {"HUGE", "THP", "COMPOUND"}],
  [class |-> "user-anon", flags |-> {"ANON"}],
  [class |-> "user-file", flags |-> {"MMAP"}] >>
Classify(f) ==
  LET holds == {i \in DOMAIN Tests : Tests[i].flags \cap f # {}}
  IN  IF holds = {} THEN "other"
      ELSE Tests[CHOOSE i \in holds : \A j \in holds : i <= j].class

\* Mutant: the entries are taken for four bytes each.
Entry4(p) ==
  LET off == (p * 4) % Word
  IN  CASE off >= Word \div 2          -> [rc |-> "error"]
        [] off \div 8 \in Frames       -> [rc |-> "ok", flags |-> mem[off \div 8]]
        [] OTHER                       -> [rc |-> "eof"]
\* read_kpageflags_entry(): the offset wraps, and is negative as an off_t from
\* half of the word on; reads past the last frame find nothing.
Entry(p) ==
  LET off == (p * 8) % Word
  IN  CASE off >= Word \div 2          -> [rc |-> "error"]
        [] off \div 8 \in Frames       -> [rc |-> "ok", flags |-> mem[off \div 8]]
        [] OTHER                       -> [rc |-> "eof"]

Init ==
  /\ mem \in Layouts
  /\ ProbeInit
  /\ opt \in Options
  /\ pc = "parse"
  /\ pfn = 0 /\ prev = "none"
  /\ counts = [c \in Classes |-> 0] /\ slabToUser = 0 /\ otherToUser = 0
  /\ samples = <<>> /\ seen = <<>>
  /\ next = 1 /\ haveProbe = FALSE /\ claims = {}
  /\ status = -1
  /\ spent = [changes |-> 0, writes |-> 0, reads |-> 0, loads |-> 0]
  /\ was = [f \in Frames |-> {Classify(mem[f])}]
  /\ moved = {}
-----------------------------------------------------------------------------
(***************************************************************************)
(* main().                                                                 *)
(***************************************************************************)
Exit(code) == pc' = "exit" /\ status' = code
Goto(place) == pc' = place /\ UNCHANGED status

\* parse_args(): --help, or something that is no option or no number.
ParseArgs ==
  /\ pc = "parse"
  /\ CASE opt.kind = "help" -> Exit(0)
       [] opt.kind = "bad"  -> Exit(2)
       [] OTHER             -> Goto("allocate")
  /\ UNCHANGED <<mem, probeVars, opt, scanVars, summaryVars, envVars>>

\* allocate_and_touch(): no MemTotal, mmap() fails, or the kernel kills what
\* touches too much; a failing mlock() is only reported.
Allocate ==
  /\ pc = "allocate"
  /\ IF opt.percentage \notin 1..100 THEN Exit(1)
     ELSE Goto("open") \/ Exit(1) \/ Exit(137)
  /\ UNCHANGED <<mem, probeVars, opt, scanVars, summaryVars, envVars>>

\* open(), and the test render_range() begins with.
Open ==
  LET end == (opt.start + opt.count) % Word
  IN  /\ pc = "open"
      /\ \/ Exit(1) /\ UNCHANGED pfn
         \/ end < opt.start /\ Exit(2) /\ UNCHANGED pfn
         \/ end >= opt.start /\ Goto("scan") /\ pfn' = opt.start
      /\ UNCHANGED <<mem, probeVars, opt, prev, counts, slabToUser, otherToUser,
                     samples, seen, summaryVars, envVars>>

\* Mutant: a full array is counted as no boundary.
RecordDropsCount(left, right) ==
  IF left = "slab" /\ right \in Users
  THEN /\ samples' = IF Len(samples) < MaxSamples
                     THEN Append(samples, [pfn |-> pfn - 1, left |-> left, right |-> right])
                     ELSE samples
       /\ slabToUser' = Len(samples')
       /\ UNCHANGED otherToUser
  ELSE /\ otherToUser' = otherToUser + (IF left = "other" /\ right \in Users THEN 1 ELSE 0)
       /\ UNCHANGED <<slabToUser, samples>>
\* Mutant: the bound of the array is not looked at.
RecordUnbounded(left, right) ==
  IF left = "slab" /\ right \in Users
  THEN /\ samples' = Append(samples, [pfn |-> pfn - 1, left |-> left, right |-> right])
       /\ slabToUser' = slabToUser + 1
       /\ UNCHANGED otherToUser
  ELSE /\ otherToUser' = otherToUser + (IF left = "other" /\ right \in Users THEN 1 ELSE 0)
       /\ UNCHANGED <<slabToUser, samples>>
\* The first MAX_SAMPLES of the strong boundaries are kept, all are counted.
Record(left, right) ==
  IF left = "slab" /\ right \in Users
  THEN /\ samples' = IF Len(samples) < MaxSamples
                     THEN Append(samples, [pfn |-> pfn - 1, left |-> left, right |-> right])
                     ELSE samples
       /\ slabToUser' = slabToUser + 1
       /\ UNCHANGED otherToUser
  ELSE /\ otherToUser' = otherToUser + (IF left = "other" /\ right \in Users THEN 1 ELSE 0)
       /\ UNCHANGED <<slabToUser, samples>>

AfterScan == IF opt.summary THEN Goto("summary") ELSE Exit(0)

\* A frame of the range is counted and shown.
Render(class) ==
  /\ counts' = [counts EXCEPT ![class] = @ + 1]
  /\ Record(prev, class)
  /\ prev' = class
  /\ seen' = Append(seen, class)
  /\ pfn' = pfn + 1
  /\ Goto("scan")
\* One round of the loop of render_range().
\* Mutant: an error ends the scan as the end of the file does.
ScanFrameQuiet ==
  LET e == Entry(pfn)
  IN  /\ pc = "scan" /\ pfn < opt.start + opt.count
      /\ IF e.rc = "ok" THEN Render(Classify(e.flags))
         ELSE IF opt.stopOnEof \/ opt.stopOnError THEN AfterScan /\ UNCHANGED scanVars
         ELSE Render("offline")
      /\ UNCHANGED <<mem, probeVars, opt, summaryVars, envVars>>
ScanFrame ==
  LET e == Entry(pfn)
  IN  /\ pc = "scan" /\ pfn < opt.start + opt.count
      /\ CASE e.rc = "ok"                           -> Render(Classify(e.flags))
           [] e.rc = "eof" /\ opt.stopOnEof         -> AfterScan /\ UNCHANGED scanVars
           [] e.rc = "error" /\ opt.stopOnError     -> Exit(1) /\ UNCHANGED scanVars
           [] OTHER                                 -> Render("offline")
      /\ UNCHANGED <<mem, probeVars, opt, summaryVars, envVars>>
ScanDone ==
  /\ pc = "scan" /\ pfn = opt.start + opt.count
  /\ AfterScan
  /\ UNCHANGED <<mem, probeVars, opt, scanVars, summaryVars, envVars>>

AskProbe ==
  /\ pc = "summary"
  /\ haveProbe' = loaded
  /\ Goto("samples")
  /\ UNCHANGED <<mem, probeVars, opt, scanVars, next, claims, envVars>>

\* Mutant: the left of the two frames is submitted.
SubmittedLeft(s) == s.pfn
\* The probe looks at the frame before the number it is given.
Submitted(s) == (s.pfn + 1) % Word
Wanted(s) == haveProbe /\ s.left = "slab" /\ s.right = "user-anon"

\* print_summary() claims the submission whether or not the file could be opened.
Submit ==
  LET s == samples[next]
  IN  /\ pc = "samples" /\ next <= Len(samples)
      /\ next' = next + 1
      /\ IF Wanted(s)
         THEN /\ claims' = claims \cup {[pfn |-> Submitted(s), taken |-> loaded]}
              /\ IF loaded THEN Goto("probe") /\ Write(Viewer, Submitted(s))
                 ELSE Goto("samples") /\ UNCHANGED <<mem, probeVars>>
         ELSE Goto("samples") /\ UNCHANGED <<mem, probeVars, claims>>
      /\ UNCHANGED <<opt, scanVars, haveProbe, envVars>>
Probe ==
  /\ pc = "probe" /\ LookStep(Viewer)
  /\ UNCHANGED <<viewVars, envVars>>
Probed ==
  /\ pc = "probe" /\ ~Working(Viewer)
  /\ Goto("samples")
  /\ UNCHANGED <<mem, probeVars, opt, scanVars, summaryVars, envVars>>
Finish ==
  /\ pc = "samples" /\ next > Len(samples)
  /\ Exit(0)
  /\ UNCHANGED <<mem, probeVars, opt, scanVars, summaryVars, envVars>>

ViewerStep == \/ ParseArgs \/ Allocate \/ Open \/ ScanFrame \/ ScanDone
              \/ AskProbe \/ Submit \/ Probe \/ Probed \/ Finish
-----------------------------------------------------------------------------
(***************************************************************************)
(* Everybody else: memory, other users of the probe, insmod and rmmod.     *)
(***************************************************************************)
Spend(what, limit) ==
  spent[what] < limit /\ spent' = [spent EXCEPT ![what] = @ + 1]

FrameRead(f) == \E i \in DOMAIN seen : (opt.start + i - 1) % (Word \div 8) = f
MemoryChanges ==
  /\ pc \in {"scan", "summary", "samples", "probe"} /\ Spend("changes", MaxChanges)
  /\ \E f \in Frames, flags \in Uses :
       /\ mem[f] # flags
       /\ FrameChanges(f, flags)
       /\ was' = [was EXCEPT ![f] = @ \cup {Classify(flags)}]
       /\ moved' = IF FrameRead(f) THEN moved \cup {f} ELSE moved
  /\ UNCHANGED viewVars
OthersWrite ==
  /\ \/ /\ Spend("writes", MaxWrites)
        /\ \E w \in Writers \ {Viewer}, q \in Numbers : Write(w, q)
     \/ UNCHANGED spent /\ \E w \in Writers \ {Viewer} : LookStep(w)
  /\ UNCHANGED <<viewVars, was, moved>>
OthersRead ==
  /\ \E r \in Readers :
       /\ Read(r)
       /\ IF report[r].left = Globals THEN Spend("reads", MaxReads) ELSE UNCHANGED spent
  /\ UNCHANGED <<viewVars, was, moved>>
ModuleChanges ==
  /\ Spend("loads", MaxLoads)
  /\ Load \/ Unload
  /\ UNCHANGED <<viewVars, was, moved>>

Over == pc = "exit" /\ UNCHANGED vars
Next == ViewerStep \/ MemoryChanges \/ OthersWrite \/ OthersRead \/ ModuleChanges \/ Over

Spec == Init /\ [][Next]_vars
-----------------------------------------------------------------------------
\* The type of every variable.
TypeOK ==
  /\ \A g \in Globals \ {"valid"} : last[g] \in Nat
  /\ {last.valid, loaded} \subseteq BOOLEAN
  /\ \A w \in Writers : DOMAIN call[w] = DOMAIN Idle
  /\ prev \in Classes \cup {"none"} /\ counts \in [Classes -> Nat]
  /\ status \in {-1, 0, 1, 2, 137} /\ (pc = "exit") = (status # -1)
  /\ Len(samples) <= MaxSamples /\ next \in 1..MaxSamples + 1

PfnOf(i) == opt.start + i - 1
Meetings(left, right) ==
  {i \in 2..Len(seen) : seen[i - 1] \in left /\ seen[i] \in right}

\* The numbers of the summary are those of what was read, and the samples are the
\* first of the boundaries counted, however many there were.
SummaryTrue ==
  /\ \A c \in Classes : counts[c] = Cardinality({i \in DOMAIN seen : seen[i] = c})
  /\ slabToUser = Cardinality(Meetings({"slab"}, Users))
  /\ otherToUser = Cardinality(Meetings({"other"}, Users))
  /\ LET found == Meetings({"slab"}, Users)
     IN  /\ Len(samples) = IF slabToUser < MaxSamples THEN slabToUser ELSE MaxSamples
         /\ \A k \in DOMAIN samples :
              \E i \in found : /\ samples[k].pfn = PfnOf(i) - 1
                               /\ samples[k].right = seen[i]
                               /\ Cardinality({j \in found : j < i}) = k - 1

\* What is shown of a frame it was at some time of the scan; numbers past the
\* last frame show as offline, up to where the offset wraps.
ScanTrue ==
  \A i \in DOMAIN seen :
    PfnOf(i) < Word \div 8 =>
      IF PfnOf(i) \in Frames THEN seen[i] \in was[PfnOf(i)] ELSE seen[i] = "offline"

\* What the viewer prints is what it read, and what it read was so.
OutputTrue == TypeOK /\ SummaryTrue /\ ScanTrue

\* The viewer has the probe look at nothing but slab it has seen before a user's
\* anonymous memory, and what it says it submitted was taken, unless the module
\* went away after it was asked for.
SubmitsBoundaries ==
  /\ Working(Viewer) =>
       \E i \in Meetings({"slab"}, {"user-anon"}) : call[Viewer].pfn = PfnOf(i)
  /\ \A c \in claims : c.taken \/ spent.loads > 0

\* If neither frame changed after the scan read it, and no other look disturbs
\* the viewer's, the probe says the frame exists and finds the object next to the
\* boundary, if there is one.
BoundaryProbed ==
  \A c \in claims :
    solo /\ last.input = c.pfn /\ c.pfn - 1 \in Frames \ moved =>
      last.valid /\ (Objects[c.pfn - 1] # {} => last.hits = 1)

\* What the viewer asks the probe, and what the probe finds for it.
BoundariesProbed == SubmitsBoundaries /\ BoundaryProbed

\* Success means the whole range was shown, or the rest is past the end and that
\* was to stop it.
SuccessIsComplete ==
  status = 0 /\ opt.kind = "scan" =>
    \/ Len(seen) = opt.count
    \/ opt.stopOnEof /\ Entry(pfn).rc = "eof"
=============================================================================
