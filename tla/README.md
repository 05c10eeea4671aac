# Formal models of the LFSCS tools

TLA+ models, model-checking configurations and machine-checked proofs for the
programs this repository owns: the demonstrators of the "Elisa PoC" packages
(`buildroot-PoC-framework/package/`), the tracing programs of
`min_prog_trace/`, the BPF tools of `jules_mentorship_code/`; and for the one
part of the Buildroot tree that is a program with a state of its own and that every
user of the framework runs, the configurator `support/kconfig/`. The rest of
`buildroot-PoC-framework/` is the upstream Buildroot tree, and the remaining
directories are documents.

## Inventory

| Part | State it keeps | Operations | Interacts through | Hard behaviour | Correct when |
|---|---|---|---|---|---|
| `overcommit_demo` | parent: `children[]`, phase, turn, `g_sigchld`; child: regions, touched regions | spawn, select, reap, read a line, request a touch, quit; child: reserve, report, obey | two pipes per child, inherited descriptors, SIGCHLD, SIGPIPE | interleaving of N+1 processes, lost signals, death at any point, stale view | nobody touches memory while somebody reserves; the shown numbers never exceed the real ones; the test ends and says so |
| `pfn_slab_probe` (module) | the `last_*` globals | write a PFN, show the report, load, unload | debugfs | globals without a lock, backward scan | a report that met nobody is about one look |
| `direct_map_view` | counters, boundary samples | parse, allocate, scan page flags, submit boundaries | `/proc/kpageflags`, `pfn_slab_probe` | memory changes during the scan, wrapping numbers, a full sample array | the summary is that of what was read; only what was seen is submitted |
| `ftrace_it`, `min` | tracefs (`current_tracer`, `set_ftrace_pid`), semaphore | fork, move interrupts, configure, release, pin, exec, wait, disable | shared semaphore, tracefs, `waitpid` | failure of one of several steps, sessions in a row or at once, a traced program that never ends | nothing of the program is missed; the tracer is off at the end |
| `killsnoop`, `killsnoopTP` | BPF hash `infotmp`, per-CPU perf buffers | attach, enter, return, poll, show, quit | kprobe and kretprobe, or tracepoints; perf buffer | calls in flight while attaching, thread ids used again, a full buffer | every line tells the truth about one call that was asked for; none is skipped |
| `madvsnoop` | as above, never deletes an entry | as above | tracepoints; perf buffer | a full map, stale entries, truncation to int | as above |
| `umem_poke` (module) | one physical word, reference counts | validate, look up, write | `/proc/umem_poke`, page tables | the page may move between look-up and store; a word may run over the end of its page | references are balanced; the word lands where the victim reads it |
| `umem_poke` demo (`poc.sh`, victim) | a FIFO, the message | script dialogue | FIFO, SIGPIPE | blocking opens and reads that nothing but a sleep orders | the script reads whole lines and ends |
| `vm_latency_demo` | sample buffers | random accesses, statistics | none | boundaries of the statistics, wrapping sizes | the report is that of the samples |
| kconfig expressions (`expr.c`) | expression trees rewritten in place | evaluate, compare, transform, eliminate, print | menus, symbols | rewriting a tree while walking it, three-valued logic | no rewriting changes a value |
| kconfig menus (`menu.c`) | the menu tree | finalize, visibility | expressions, symbols | conditions joined entry by entry while the tree changes | no entry is lost, each keeps its condition, selects are gathered |
| kconfig symbols (`symbol.c`) | values kept until forgotten, flags | calculate, set, invalidate | menus, files | caching along a graph, choices calculated against the order | a kept value is what would be worked out anew |
| kconfig files (`confdata.c`) | `.config`, `.config.old`, `auto.conf`, headers | read, write, rename, touch | symbols; the files | being killed between two steps, values no longer legal | a file is whole and reads back to what was saved |
| kconfig front ends `conf`, `mconf`, `nconf` | questions left, the menu shown | ask, set, save, load, quit | symbols, files | asking in rounds, hiding what is being asked | an answer takes effect; asking ends |
| kconfig front ends `qconf`, `gconf` | rows kept on the screen | set, open, back, load, save | symbols, files | partial updates of lists | what is shown is what is |
| lxdialog, `nconf.gui.c` | - | drawing | - | - | not modelled |
| `starter` | none | print, sleep, exec | none | none | not modelled |
| other Buildroot (vendored), documents | - | - | - | third-party | not modelled |

`PROJECT.json` lists the same parts with their status and, under "hazards", the
lines where each of these behaviours bites.

## Modules

| Module | Models | Built on |
|---|---|---|
| `OvercommitDemo` | overcommit_demo.c | - |
| `ReserveThenTouch` | what overcommit_demo promises | - |
| `MCOvercommit`, `OvercommitProofs` | its instances and theorems | `OvercommitDemo` |
| `PfnSlabProbe` | pfn_slab_probe.c | - |
| `DirectMapView` | direct_map_view.c | `PfnSlabProbe`, of whose callers it is one |
| `MCDirectMap` | memory and command lines for it | `DirectMapView` |
| `DirectMapProofs` | the invariants and theorems of both | `DirectMapView` |
| `FtraceIt` | ftrace_it.c and the traced program | - |
| `FtraceProofs` | its theorems | `FtraceIt` |
| `SnoopKernel` | threads, BPF map and perf buffers (external) | - |
| `Killsnoop` | killsnoop.py, killsnoopTP.py | `SnoopKernel` |
| `MCKillsnoop`, `KillsnoopProofs` | its command lines and theorems | `Killsnoop` |
| `Madvsnoop`, `MadvsnoopProofs` | madvsnoop.py, its theorems | `SnoopKernel` |
| `UmemPoke` | the write handler of umem_poke.c, processes and memory (external) | - |
| `MCUmemPoke`, `UmemProofs` | its symmetry and theorems | `UmemPoke` |
| `PokeDialogue` | poc.sh and the victim | - |
| `VmLatency`, `VmLatencyProofs` | vm_latency_demo.c, its theorem | - |
| `KconfigExpr` | expr.c, the grammar of expressions | - |
| `KconfigMenu` | menu.c | `KconfigExpr` |
| `KconfigCycles` | the search of symbol.c for recursive dependencies | `KconfigMenu` |
| `KconfigBuild`, `MCKconfigBuild` | finalizing and checking a Config.in, and the inputs for it | `KconfigCycles` |
| `KconfigSymbol` | symbol.c | `KconfigMenu` |
| `KconfigFile` | confdata.c | `KconfigSymbol` |
| `HeaderUpdate` | what conf_write_autoconf() promises of the headers, and the proof | - |
| `KconfigSession` | conf.c, mconf.c, nconf.c, the files between programs | `KconfigFile` |
| `KconfigGui`, `MCKconfigSession` | qconf.cc, gconf.c; the inputs for all front ends | `KconfigSession` |

A definition called `...Tight`, `...Swapped`, `Kept` and the like under a
"Mutant" comment is a plausible bug that replaces the definition below it; each
property of a passing run is shown to fail under one of them.

### `OvercommitDemo.tla` - overcommit_demo.c

One process per child and one parent. `parent` is the place in `main()`,
`child[c]` the place in `child_main()`; a step is a stretch of local work with at
most one system call another process can see. `log[c]` is the child-to-parent pipe (a
sequence of lines, each reduced to its keyword and its byte count), `cmds[c]`
the command pipe. `alive`, `fromFd`, `toFd`, `allocDone`, `reserved`, `touched`
are the fields of `child_state_t`; `gSigchld` is the flag set by the handler.
The end of file and SIGPIPE rules follow from who holds a descriptor:
`LogReader` and `CmdWriter` count the parent and every later child, which
inherits the descriptors the parent had when it was forked.

Not in the model: the screen and the fields only the screen reads, failures of
`sigaction`, `fcntl`, `select` and `read`, and a `READ_CMD_ERR`. A command behind
a `Q` is never read, so several `Q`s are kept as one.

### `ReserveThenTouch.tla` - what overcommit_demo promises

Children reserve; when none reserves any more they touch, chunk by chunk; a
child is dismissed with all its chunks touched, or leaves early.
`OvercommitDemo!ReservesThenTouches` is the refinement: the abstract phase of a
child is read off its place in `child_main()`, its chunks off `regions` and
`touchedRegions`.

### `PfnSlabProbe.tla` and `DirectMapView.tla`

The probe keeps the result of a look in five globals and takes no lock, so each
store of `probe_previous_pfn()` is a step, and `last_hits++` two: a load (into
`call[w].loaded`) and a store, which another writer may come between. A reader
loads the globals for its report in any order. `solo` is
history: the last look is over, met no other and its frame has not changed
since. `mem` holds the page flags of every frame, and `Objects` the places of
a slab frame that `kmem_dump_obj()` accepts.

The viewer is the writer `Viewer` of the probe. `pc` is its place in `main()`;
PFNs and file offsets are taken modulo `Word`, an `off_t` is signed, so that a
read at half the word and above fails (`Entry`). `seen`, `was`, `moved` and
`claims` are history: the classes shown, all classes a frame has had during the scan, the
frames that changed, the submissions. The program prints "[submitted to slab
probe]" without looking whether the file could be opened, so a claim may have been taken
by nobody (`claims[..].taken`) - but only if the module was unloaded meanwhile.

Not in the model: requests the probe turns down before it touches anything,
failures of debugfs; colours, columns and the legend; `2svg.sh`.

### `FtraceIt.tla` - ftrace_it.c

A session is one invocation; several share one tracefs. `parent[s]` and
`child[s]` are the places in the two halves of `main()`, `semaphore[s]` the
mapping they share, `tracer` and `filter` the contents of `current_tracer` and
`set_ftrace_pid`. The second is opened without `O_TRUNC`, so writing adds a pid
(`Written`), and nothing removes one. `Recorded(p)` is what the kernel does with
the two: an empty filter lets everything through. Process ids are handed out
again once their process is gone. `missed` and `met` are history: the sessions
whose program ran kernel code unrecorded, and those that overlapped another.

Every failure exit of the program is an action (`Fail`, and the second
disjuncts of `Pin` and `Exec`), and so is Ctrl-C, which reaches parent and child.

Not in the model: which interrupts are moved to CPU 0 (no other step reads the
masks; nothing moves them back, line 113), `is_number()` (never called), the
rest of the machine, whose activity is recorded as well between the two writes of
`setup_ftrace()`, and processes other than the sessions' own whose id happens
to be left in the filter.

### `SnoopKernel.tla`, `Killsnoop.tla`, `Madvsnoop.tla` - the BPF tools

`SnoopKernel` is external: what the tools expect of the kernel and of bcc.
`owner` maps each live thread to its process, `call` each thread inside a traced
system call to that call, `infotmp` is the BPF hash, `ring` the perf buffer of
each CPU, `polling` whether it has been opened. A thread may end between calls
and its id may go to a thread of another process.

`Killsnoop` adds `Attach` (a kprobe, then a kretprobe; or tracepoints in any
order), the two handlers (`Enter`, `Return`), `Show` and `Quit`. The two tools
differ in three ways the module keeps apart by `opt.tool`: the calls they trace,
the order of attaching, and when a return is seen (`ReturnSeen`: a kretprobe
hooks a call as it enters, an exit tracepoint only has to be there when the call
returns). `opt` is the command line: who, to whom and which signal.
`Madvsnoop` has the entry that is never deleted, the capacity of the
map (`Fits`) and `ToInt`, the assignment of an address or length to an `int`.

An event carries, beside its data, the call whose return produced it (`of`), and
a call records whether its own arguments were stored; that is how the
properties compare a line with the truth. Neither is read by the handlers.
`Madvsnoop` keeps, beside each entry of the map, the call that stored it (`left`),
and an event carries that too (`from`). Since entries stay, a line may bear the
pid of a process that is not traced and be false of its call; `LinesTrue` says what
it shows then: one whole call of a traced process, and never a mixture. A line with
the pid of a traced process shows that very call.

Not in the model: the wording of a line and its clock (madvsnoop prints the time
of printing, line 137, while the manual page says "Time of the madvise() call"),
`-x`, which drops events after everything else has happened, the advice, the
order of the events of several CPUs, and the capacity of killsnoop's map, which
deletes its entries (`NoNewLeftovers` is why that is enough).

### `UmemPoke.tla` - umem_poke.c

`pc[w]` is the place of a call in `umem_poke_write()` and
`get_user_linear_mapping()`; `target[w]` the pid it was given, `page[w]` the
page it found. `taskRefs`, `mmUsers` and `refs` are the kernel's reference
counts, which the handler shares with processes that start, fork, write, read,
unmap, are merged by KSM and end (`KernelStep`, external). The look-up under
`mmap_read_lock()` is one step: nothing can change the mapping during it.
`changed` and `kin` are history: the calls whose target changed its mapping after
they looked it up, and for each call who had its page then, if it was anonymous, or
got it by fork since.

A process has one word; which address a request names is left out, and so are
parsing and the error codes: the
handler turns every failure of the look-up into `-EFAULT`. The value of a
request is chosen when it is stored, since nothing reads it before. On the two
architectures of `Config.in` the kernel has an address for every page; the exits
for the other case are kept, as a way out of `Check`.

What the model makes plain about the sharing test (line 111): it protects
ordinary anonymous memory only. A page KSM has merged, and a page of the page
cache, are stored to whoever else maps them; and a page that was shared when it
was found is stored to if its target copies it before the test, when
only the other process has it. `ReachesTarget` says exactly what remains: the
target and nobody else as long as the target's mapping stays, and in any case nobody
who neither had the anonymous page at the look-up nor got it by fork since.

Nothing looks at the alignment of the address (lines 66, 122, 194): in the last
seven bytes of a page an `unsigned long` runs over its end. `crosses` is chosen with the
offset, and `Hit` then has two frames, the one found and the next by number, which
no one looked up: whatever that one is used for, its word changes. `HoldsWhatItUses`
and `ReachesTarget` promise nothing about it; they speak of the frame that was
found, and of a word that ends in its page. A next frame that is neither memory of a
process nor of a file is outside the model.

### `PokeDialogue.tla` and `VmLatency.tla`

`PokeDialogue` steps through `poc.sh` command by command and through the victim
system call by system call; the FIFO blocks an open until the other end is
there, a write with no reader is SIGPIPE. Each `read` of the script opens and
closes the FIFO. The stored word takes the place of the message's newline too, so
the second `read` ends only at the end of file, when the victim has exited. The
store itself is `UmemPoke`'s, here it succeeds or not.

`VmLatency` is one process: its command line, the array sizes (which wrap
for a huge number of samples), the offsets, the two campaigns against a kernel
that maps a page at its first access and copies it at its first write, and the
report. An argument is a pair of its text and the number `strtoull()` finds at its
start. `took` is history: how long each access really took.

### The configurator

`KconfigExpr` is the algebra: a place the C code rewrites through a pointer is
the result of an operator. `KconfigMenu` gives the finalized tree (`Built`) of
the entries as they are written. `KconfigCycles` is the search for recursive
dependencies: its state is the marks, the stack and the chains printed.
`KconfigBuild` has the two steps of `conf_parse()`, finalizing and checking the symbols
in an order the hash table chooses (`Orders`), and the properties that compare what is
built with what is written on every assignment.
`KconfigSymbol` keeps the symbols' state in one record (`cur`, the flags `valid`,
`write`, `def`, `changed`, ...); a function of symbol.c that changes it is an
operator from state to state, in the order in which the code calculates, so
that a value kept too long shows. `KconfigFile` adds a file as the sequence of its
lines, what reading sets, and what writing takes. `KconfigSession` runs
programs one after the other over the files: every mode of `conf`, the menus
of `mconf` and `nconf` (one action `Menu`; they differ in their keys and in how a
choice is opened), the renames that end a save as separate steps, and a kill
between any two. `KconfigGui` adds the rows `qconf` and `gconf` keep, and
updates them as the code does, in part.

`HeaderUpdate` is what the files of a session promise a build: an update first
touches headers of symbols, then writes new files that differ from auto.conf only
where it did, and replaces auto.conf last; it may stop anywhere. A symbol the
files disagree about then has its header touched (`HeadersTouched`). The refinement
`KconfigSession!UpdatesHeaders` forgets everything but these files and the place in
`conf_write_autoconf()`.

Ghost state: `sym.lapsed`, the symbols that were worked out with what the user gave,
or did not give, where that has changed since and nothing was forgotten: conf_read() drops a
text that is out of range, sym_calc_choice() forgets the user's choice, gconf
toggles a text; `view.old`, set when gconf goes on showing rows from before
a load. `ValuesTrue` and `FilesReadBack` hold in these states too, for every symbol but
those `Concerned`: the ones in `lapsed`, those toggled without a text (`Bare`), and what is
worked out from them. All of it is described under "Observations". `sym.dead` is set where a
text that is NULL is read: the step is not taken, the program ends (`Stops`).

Not in the model: quoting, line formats, comments, `menuconfig` entries, environment symbols, `allnoconfig_y`, KCONFIG_OVERWRITECONFIG,
KCONFIG_PROBABILITY, the list of default files, SIGINT in the middle of a
calculation, a defconfig half written by a kill, a text whose default is not
accepted, single-menu mode and showing hidden options, search, help and what only
redraws; in the windows also the option modes "all" and "prompt", the row `..`
and going on after a failed save. Optional choices are in `kc_build` only.

## Runs

| Run | Instance | What it shows |
|---|---|---|
| `oc_faults` | 2 children, goal 3 in chunks of 2, pipes of 2 lines and 1 command, failing fork, calloc, mmap, one kill | the phases do not overlap (`TouchBarrier`), the parent's view lags but never lies, quits are justified, descriptors follow life (`ParentKnows`), requests are dealt out evenly (`RoundRobin`), reports only grow, and the refinement `ReservesThenTouches` |
| `oc_live` | 2 children, 1 chunk each, every fault | everything is touched unless something fails; the parent runs on for ever only because of a child that died while reserving; no child outlives the parent |
| `oc_end` | 2 children, no faults | violated: the end of the test is not always reported |
| `dmv_all` | 4 frames, 5 ranges and 3 other command lines, another writer, a reader, one load or unload, one frame that changes | the probe's globals and undisturbed reports are true (`ProbeTrue`), the summary is that of what was read (`OutputTrue`), only boundaries that were seen are submitted (`BoundariesProbed`), exit 0 means the whole range (`SuccessIsComplete`) |
| `ft_all` | 3 sessions, 2 process ids, every failure | nothing is missed unless sessions overlap; no pid is taken out; the tracer ends up off; sessions and children come to an end |
| `poke_all` | the whole dialogue | the address is read whole and the second line is the message after the store (`ReadsServe`); the script ends, or the victim woke up before the script listened again (`Ends`) |
| `ks_all` | 2 threads, 2 processes, every combination of `-p`, `-T`, `-s`; killsnoopTP with `-p -s` and two calls; 1 CPU, a buffer of one event | what passed the filters is reported truly and never skipped; stale entries date from attaching |
| `mv_all` | 3 threads, a map of 2, ints of 4 bits, with and without `-p` | every line shows one whole call of a traced process, the very call if its pid is a traced one (`LinesTrue`); only a full map misses one |
| `um_all` | 2 processes, 2 neighbouring frames and the frame of zeros, 2 calls, 2 words, each of which may run over the end of its page | references balance and the page that was found is still held when it is stored to (`HoldsWhatItUses`), it is never the frame of zeros, and a word that ends in its page reaches the target alone unless its mapping changed after the look-up, and then nobody but who had the page at the look-up or got it by fork (`ReachesTarget`) |
| `vm_all` | pages of 2 bytes, 4 of them, up to 4 arguments | the campaigns fault where they should and the report is true (`DemoTrue`) |
| `kc_build` | all dependencies of 3 operands (at most one of them an `m`, as two expand to more than TLC's stack holds), and of 2 under a negation (both may be), over a bool and a tristate; rows of up to 3 of a dozen entries, choices and knots of references among them; two orders of the symbols | finalizing keeps every entry and the value of every condition, gathers selects rightly, makes submenus only of what depends on the symbol above, and what is printed parses back to the same; a recursive dependency is reported if and only if there is one (`CyclesFound`) |
| `kc_session` | 2 Config.in files with 4 states of the files, 2 programs in a row, the first in any front end, one change, and in gconf any texts toggled | kept values are what would be worked out anew (`ValuesTrue`), headers are touched wherever a program is killed (`HeadersTouched`, and the refinement `UpdatesHeaders`), files read back, the windows show what is, answers take effect, asking ends |

### Why the bounds are enough

- **overcommit_demo.** Two children are the smallest instance in which a later
  child holds an earlier one's descriptors, in which the view of one child
  is complete and of the other not, and in which the round robin has a
  choice. A goal of 3 in chunks of 2 makes the last chunk overshoot the goal.
  Log pipes of one or two lines make every report block; a real pipe only
  blocks later. The program itself uses at least four children; nothing
  in the code depends on the number, and the theorems below are for any.
  `MaxKills` bounds the children killed from outside.
- **direct_map_view.** Four frames hold two slab and two user frames and so two
  boundaries, one more than `MaxSamples`; a `Word` of 128 has
  room for 16 entries, half of them at negative offsets, and ranges start at its
  edges. Two slots make the scan backwards try more than one place. One
  change, write, read and load (`MaxChanges`, `MaxWrites`, `MaxReads`,
  `MaxLoads`) suffice to disturb any one look; the theorems have no such bound.
- **ftrace_it.** Three sessions over two process ids: two can overlap while
  a third starts with a process id a former one left in the filter.
- **BPF tools.** Two threads are enough for a thread id to change hands while
  another call is in flight, two processes, two targets and two signals for each
  filter to pass one and stop one. A buffer of one event is full as soon as
  one is waiting. killsnoopTP's three calls are handled alike; two show what
  happens when one call's entry is read by the return of another. `Rets` is a
  single result: the handlers copy it and nothing depends on it. One CPU: the
  buffers of several only multiply the states. For madvsnoop three threads
  over a map of two fill it with one left out, and with 4-bit ints (`MaxInt` 7)
  an address of 12 turns negative, as one of 2^31 and more does in 32.
- **umem_poke.** Two processes for a parent and its child, two frames for a page
  and its copy; with both in use a frame given back is used again at once,
  which is what a missing reference would show. Two calls hold references to
  one task, mm and page at the same time. Processes and calls are interchangeable
  (`Symmetry`), frames are not, since one comes after the other; the run has invariants only. The dialogue has nothing to bound.
- **vm_latency_demo.** Four pages and four samples by default; the numerals 1, 3,
  4, 5 and a huge one that wraps with `Word` 128 leave pages out, hit each
  once, hit some twice, and wrap the arrays. Accesses begin at the first or the
  last nanosecond of a second (`Moments`) and take none, one or more than a second. A
  fifth argument only repeats an option. `DemonstrationIsTrue` has none of these bounds.
- **kconfig.** Every rewriting rule of expr.c looks at two leaves at a time; three
  operands let a rule act on the result of another. Three entries are one
  that others may depend on and two that are joined or pulled into its submenu.
  The two Config.in files of `kc_session` have, between them, a select, an imply,
  a range, a bool and a tristate choice, a hidden menu, and a symbol
  visible only because of what is below it; two programs, because the second reads what
  the first has left. `MaxEdits` is one change: a second one in the second
  program does not fit into the time of a run. A text that gconf toggles is not
  counted, so that one can be followed by a change and a save. `GuiStarts`
  has the windows only as first program.

Deadlock is checked in every run but these: in `ft_all` every session may be over,
or its child may spin behind a parent that failed; `poke_all` really may stop (see
`Ends`); `vm_all` and `kc_build` end when the program does; in `kc_session` the
bounds end it. `OvercommitDemo` has an explicit `Ended` step for the end of the test.

### Fairness

- `OvercommitDemo!Fairness`: the kernel schedules every process that can run, and
  seconds go by (`ClockTick`). Nothing makes a fault happen, and
  nothing prefers one child to another.
- `FtraceIt!Fairness`: parent and child of each session are scheduled, and the
  operator does press enter (`Release`, the `read()` of the parent). Nobody has
  to start a session or to interrupt one, and the traced program need
  not end (`End` is not fair): `min` is a `while (1)`.
- `PokeDialogue!FairSpec`: script and victim run when they can; the victim's sleep
  ends. That the sleep is long enough is not assumed.
- `KconfigSession!Asking`: whoever is asked at least presses Enter; it is weak
  fairness of `Asks`, spelt out. Nobody has to answer anything else.
- `UmemPoke`, `DirectMapView`, `VmLatency` and the BPF modules have no liveness
  properties and no fairness: their calls have no loop that waits for another;
  whether a line of a BPF tool appears depends on the operator and on the kernel,
  and what can be said of it (`NothingSkipped`, `MissedOnlyIfFull`) is safety.

## Where the code and its documents disagree

`oc_end` ends with a counterexample. The parent writes `Q` to a finished child in
every iteration (overcommit_demo.c:533) until it has waited for it. A child that has
obeyed the first closes its pipe before its SIGCHLD arrives; the next write
raises SIGPIPE, which nothing handles, and "All children are gone. End of
test." (line 539) is never printed.

Four more statements of the documents are written down as definitions and known not to
hold; no run lists them, and the properties that are checked say what holds
instead:

- `OvercommitDemo!AllGoneEndsTest`: `reap_children()` resets `g_sigchld` after the last
  `waitpid()` (line 383). A child that ends between the two is never waited
  for, and the test does not end (`StuckOnlyByEarlyDeath` tells when).
- `Killsnoop!OnlyTheSignal`: a call entered between the attaching of kprobe and
  kretprobe (killsnoop.py:142-143) leaves its entry behind. The next call of that
  thread, with a signal the filter stops, picks it up on return: `-s` is
  to "trace this signal only" (line 40).
- `Madvsnoop!OnlyThePid`: madvsnoop never deletes an entry; a thread id that goes to
  another process makes that process's calls appear although `-p` is to "trace
  this PID only" (madvsnoop.py:35).
- `Madvsnoop!AllTraced`: for the same reason the map fills up with the ids of
  threads long gone, and later threads are not traced at all.

`min` never ends, so the "Waits ... Disables ftrace" of `min_prog_trace/README.md`
never happens to the program the README uses; `madvsnoop` shows START and
LENGTH modulo 2^32, signed (the model has it, `LinesTrue` says as much).

### Observations on the configurator

Met while modelling `support/kconfig/`; the model does what the code does, and the
properties are stated around them.

- conf_read() drops a text that is out of range (confdata.c:455-470) after values
  that rest on it were worked out; conf_write() (789) saves those until the next
  change. sym_calc_choice() takes the user's mark from a choice unless all its visible
  values bear one (symbol.c:320), also a mark that its value rests on. Both put
  the symbol into `lapsed`.
- gconf's toggle_sym_value() does not ask for the type (gconf.c:846-860): a click into the
  value of an int, a hex or a string (922), or a double click on its name (917, and 1019 in
  the left tree), comes to sym_toggle_tristate_value(). A text counts
  as n, so the third try is "no change" and accepted: the symbol is marked as the
  user's, without a text (symbol.c:539), and nothing is forgotten. What is shown and
  saved until the next change is no longer what would be worked out. After it the value is
  NULL (symbol.c:449): a hex or int is then saved as `CONFIG_X=(null)`, which does not
  read back, and one with a range (171), one that is compared (expr.c:1066-1075) or a
  string that is saved (confdata.c:639) ends the program. `kc_session` has the
  first two.
- sym_calc_value() marks the values of a choice to be written by their visibility
  (symbol.c:480-491), which for a choice that is not y may be one of before: a value
  that has become invisible is written.
- If the last rename of a save fails (confdata.c:831-833) and the user saves again,
  SYMBOL_WRITE is already cleared and the second .config is nearly empty.
- sym_set_string_value() with the text that was set last returns without
  invalidating anything (symbol.c:713-716), although it may just have given back
  the user's mark that text had lost (700-703).
- menu_is_visible() marks a hidden symbol with a visible submenu as set by the user
  (menu.c:657-660).
- A load in mconf also changes the name under which it saves (mconf.c:914); nconf
  leaves even if writing failed; qconf's "save as" ignores the name
  chosen (qconf.cc:1550).
- `expr_trans_compare()` is not exact for the negation of a tristate at m (expr.c:945),
  and comparisons of tristates with constants compare texts.
- sym_check_deps() comes back with NULL whatever it finds: every way back
  closes at a symbol that is still on the stack (symbol.c:1321-1324), so that
  conf_parse() counts no error and a Config.in with a recursive dependency is
  taken, although "error: recursive dependency detected!" is printed. An `imply` is not followed, so a way through
  one is not found. A way from a value of a choice that comes back only to the
  choice is found only if a symbol outside is looked at first, which
  depends on the order of the hash table; a choice may be printed twice in a chain.
- A promptless symbol, too, pulls what depends on it into a submenu of its own.
- gconf's partial update stops after it has removed the last row of a list, so
  that later rows that became visible are not added (gconf.c:1290, 1315); after a
  load it shows the old rows beside the new; a text typed in it updates from the
  root whatever is shown; its back button at the root has no menu to go to.

## Proofs

`OvercommitProofs`, `DirectMapProofs`, `FtraceProofs`, `KillsnoopProofs`,
`MadvsnoopProofs`, `UmemProofs`, `VmLatencyProofs` and `HeaderUpdate` hold for
every value of the constants that satisfies the modules' named assumptions: any number
of children, sessions, threads, frames, writers, readers, samples and symbols, any sizes,
capacities, filters, command lines, durations, bounds and faults.

| Theorem | Says | Argument |
|---|---|---|
| `OvercommitProofs!TypeCorrect` | `TypeOK` | inductive; one lemma each for the reports, the child, a command sent and the parent |
| `OvercommitProofs!BarrierHolds` | `TouchBarrier` | `BarrierInv`: what is under way in the pipes |
| `OvercommitProofs!ReportsHold` | `ReportsOnlyGrow` | `ViewInv`: the lines in a pipe are ordered between what was read and what is |
| `OvercommitProofs!KnowsHold` | `ParentKnows` | `KnownInv`: all of these with `LivesInv` and `QuitsInv` |
| `OvercommitProofs!Implements` | `ReservesThenTouches` | every step of a child or the parent maps to an abstract step or a stutter, under `KnownInv` |
| `OvercommitProofs!TurnsHold` | `RoundRobin` | `TurnsInv`: counting requests in the pipes |
| `DirectMapProofs!ProbeIsTrue` | `ProbeTrue` | `ProbeInv` |
| `DirectMapProofs!OutputIsTrue` | `OutputTrue` | `RangeInv`, `SummaryTrue`, `FramesInv`, `ScanTrue` |
| `DirectMapProofs!BoundariesAreProbed` | `BoundariesProbed` | `AskInv` with `ScanInv` and `ProbeInv` |
| `DirectMapProofs!SuccessIsWhole` | `SuccessIsComplete` | `CompleteInv` |
| `FtraceProofs!TypeCorrect` | `TypeOK` | inductive |
| `FtraceProofs!OwnPidStays` | `OwnPidFiltered` | the filter only grows and a session's pid changes only at its fork |
| `FtraceProofs!OffWhenAllDone` | `OffAtTheEnd` | `OnMeansConfigured` |
| `FtraceProofs!NothingIsMissed` | `NothingMissed` | `MetInv`, `SemaphoreInv`, `SoloInv` |
| `KillsnoopProofs!TypeCorrect` | `TypeOK` | inductive; lemmas on appending to and taking from a buffer |
| `KillsnoopProofs!EntriesAreOwn` | `EntryIsOwn` | inductive with `TypeOK` |
| `KillsnoopProofs!EventsAreTrue` | `EventsTrue` | inductive with `EntryIsOwn` |
| `KillsnoopProofs!NothingLeaks` | `NoNewLeftovers` | `HookedInv`, `StoredInv` |
| `KillsnoopProofs!NothingIsSkipped` | `NothingSkipped` | `HookedInv`, `StoredInv`, `EntryIsOwn` |
| `MadvsnoopProofs!LinesAreTrue` | `LinesTrue` | `Inv` |
| `MadvsnoopProofs!OnlyFullMapMisses` | `MissedOnlyIfFull` | `StoredInv`, part of `Inv` |
| `UmemProofs!ZeroKept` | `ZeroStaysZero` | `PastCheckNotZero`: a call about to store does not hold the frame of zeros |
| `UmemProofs!HoldsKept` | `HoldsWhatItUses` | `HoldsInv`: every count is the number of its holders |
| `UmemProofs!TargetReached` | `ReachesTarget` | `TargetsInv` and `KinInv` with `HoldsInv` |
| `VmLatencyProofs!DemonstrationIsTrue` | `DemoTrue` | `Inv`: the pages follow from the samples taken; arithmetic of offsets and bars |
| `HeaderUpdate!ChangesAreSeen` | `HeadersTouched` | `UpdateInv`: what is on its way into the files differs only where headers were touched |

**The barrier.** That nobody touches memory while somebody reserves is not
inductive: the parent decides from lines that were sent long ago. `BarrierInv`
follows the information along its way. A child whose end-of-reservation line is
in the pipe no longer reserves (`SentMeansFinished`); one whose line the parent
has read no longer reserves either (`SeenMeansFinished`); the parent
enters the touch phase only when it has read all the lines (`PhaseMeansSeen`), and
a request or a touch exists only in that phase (`TouchMeansPhase`). `ForkOrder`
adds that a child not yet forked has done nothing.

**What the parent knows.** `ViewInv` says of each child's pipe that its byte counts lie
between the parent's and the child's (`Within`, `LinesBounded`), grow from one
line to the next (`LinesGrow`), and that once the line that ends the
reservation has been read the parent's number is the child's (`AllTold`).
`LivesInv` ties the descriptors and flags of `child_state_t` to the life of the child.
`QuitsInv` says that a child that is dismissed, or about to be, has
touched everything, which rests on `AllTold`: the parent compares two numbers it
was told, and only the end line makes the larger one final.

**The refinement.** Under `KnownInv` the refinement mapping takes the initial state
to the initial state; `ChildMaps` and `ParentMaps` take each action in turn. The
guard that needs the invariant is the abstract touch: no child reserves
(`TouchBarrier`), and the abstract dismissal: all chunks touched (`QuitsInv`).

**Round robin.** A request is counted wherever it is: read by the parent as touched
bytes, under way as a line, in the child's hands, or in its command pipe. It moves
from one to the next without being lost (the lemmas on `Count` of sequences under
`Append` and `Tail`), until a TOUCH_DONE takes the child out. `TurnsKept`
orders the children by their distance from `nextTouch`; a request goes to the
first touchable child, the parent sends at most one ahead, and `TouchLinesInv` says
what a TOUCH_DONE under way is worth.

**The probe.** The promise is about a look that met no other. `LooksInv` says for
each step of a look that is alone what the globals are at that moment
(`LookSoFar`), `AloneInv` that it is the only one, `SoloInv` that its result
stays until somebody writes or the frame changes, and `ReportInv` that a clean report
has loaded what still is. The scan backwards has its loop invariant in `LookSoFar`: no
place above the one tried is accepted.

**The viewer.** `RangeInv` ties position and range to the frames shown; that
`opt.start + opt.count` does not wrap is what the test in `Open` buys.
`SummaryTrue` says counters, boundaries and samples are those of `seen`, whose
recount after one more frame is a lemma on cardinalities. `FramesInv`
keeps with every frame the classes it has had. `AskInv` says every submission is
of a boundary in `seen`, and taken unless the module was loaded or unloaded after
the viewer looked for it.

**The tracer.** `OffAtTheEnd` speaks of a state in which all sessions are over;
the step that gets there is the last `Disable`. The invariant that makes it
go through, `OnMeansConfigured`, says that an active tracer always has a session
that got past turning it on and has not turned it off: a session that ends
turns the tracer off even when others are still running, which is why
`NothingMissed` excludes sessions that overlap. For those that do not,
`SemaphoreInv` holds the child back until its parent has configured everything,
and `SoloInv` says nobody else turns the tracer off.

**Thread ids.** The entry found at the return of a stored call is its own
because a thread inside a call neither ends nor enters another, so no other
call can write under its id (`EntryIsOwn`). Nothing is assumed about entries no
call in progress has stored; those are the ones `OnlyTheSignal` is about. The command
line never changes (`OptStays`), which the filters in `EventsTrue` need. For
madvsnoop the map only grows, and a call that passes the filter and was
not stored found it full (`StoredInv`). What is in the map is always what one call of a
traced process left there (`MapInv`), and the entry under the id of a traced call in
progress is its own, or there is none: if it entered before the tracepoint did, it found the map empty (`StoredInv`).

**References.** `HoldsInv` makes each of the three counts the cardinality of its
holders: `taskRefs` of the calls between finding a task and letting it go, and
of the process; `mmUsers` likewise; `refs` of a frame of the mappings and the calls that
have its page. Every step that moves a reference is one application of the
lemmas on adding and taking one element. `TargetsInv` then says that a target
that has not changed its mapping since the look-up still maps the page, and alone if the
sharing test has passed. `KinInv` needs the reference too: while a frame is held it is
not given back, so it never turns anonymous under a call, and who comes to map an anonymous
frame got it by fork from one who had it.

**The latency demonstration.** `PageInv` says that the state of every page is a
function of the samples so far: "own" if the write campaign has come to it, "zero" if
only the read campaign has. With `OrderInv`, that the second campaign starts
when the first is complete, the faults of both are known at every step: in the
order read, write each campaign faults once on each of its pages; in the other
the reads never fault, because every page they come to is among those written.
What remains is arithmetic. `DiffIsElapsed`: whatever is carried between seconds and
nanoseconds, and whatever wraps on the way, the difference is the duration.
`Bars`: the length of a bar grows with the time, is 0 for 0 only and full for the
longest; that there is a longest (`Longest`) is the well-foundedness of the
numbers (`WFMin`). `Even`: if the samples divide the region, a page holds a
whole number of steps, and the samples of page p are an interval of that length.
`Distinct`: while there are as many bytes as samples no offset comes twice.

**The headers.** The promise is not inductive, since the renames take temporary
files the promise says nothing of. `WrittenInv` does: what is on its way into
the files differs from auto.conf only where headers were touched, and autoconf.h and
tristate.conf have it before auto.conf, whose rename is the only step that takes the
touched headers for done. `KconfigSession`, with its parsers and trees, is shown by TLC to
implement `HeaderUpdate`; the theorem then holds for any symbols and values.

**Assumptions on constants.** `SnoopKernel`, `Madvsnoop`: results are
integers, buffers and map have room for something, addresses and lengths are natural
numbers, filters are sets of processes. `UmemPoke`: finitely many tasks and calls (cardinalities), frames are
numbers, `Zero` is not one of them, 0 is a word. `PfnSlabProbe`: frames are numbers and the slots are
`0..n`. `DirectMapView`: the viewer is a writer, `Word` is a multiple of 16
(entries of 8 bytes, half of the offsets negative), every frame's entry is in reach of a positive
offset, command lines are of type `Command`, layouts are about the frames that
exist. `OvercommitDemo`: at least one child, a chunk and pipes of at least one, a
goal and a number of kills that are natural numbers. `FtraceIt`: there is a process
id. `Killsnoop`: options are sets of processes, targets and signals. `VmLatency`: sizes
are positive; 2^64 exceeds eight times the region; a divisor of the region that is no larger than a
page divides the page, since page size and number of pages are powers of two; no access
takes so long that its bar wraps (2^64 / 50 nanoseconds, eleven years). TLC
evaluates all of them in the runs.

**What stays with TLC.** Liveness (`EverythingTouched`, `StuckOnlyByEarlyDeath`,
`NoOrphans`, `SessionsEnd`, `Ends`, `AskingEnds`), because the prover has no rules for
fairness or ENABLED. The configurator (`kc_build`, `kc_session`) but for what
`HeaderUpdate` abstracts from it: `ConditionsKept`, `GatheredRight`, `SubmenusDepend`,
`PrintedTrue`, `CyclesFound`, `ValuesTrue`, `ShownTrue`, `TakesEffect`,
`FilesReadBack` and the step `UpdatesHeaders` speak of expressions, menus and
symbols that refer to each other; their operators are RECURSIVE, and every statement
about them is an induction over data. `PokeDialogue!ReadsServe`: the module has no
constants, so TLC's run is exhaustive and a proof would add nothing to it. In
`VmLatency` the sum that is printed as an average is a fold, and no
property speaks of it.

## Plan

Done: all parts marked modelled or partly modelled in the inventory, and the theorems
above. What could follow:

1. The configurator's operators that are not recursive - the tables of three-valued
   logic, and the rules for two leaves - in a module of their own that
   `KconfigExpr` can use, so that the rules of `expr_join_or()` and
   `expr_join_and()` can be proved for every value.
2. `nconf.gui.c`'s lists: which item stays in view.

Not planned: `starter` (one process, three calls, no shared state), the vendored
Buildroot tree other than `support/kconfig/`, drawing (`2svg.sh`, `render_screen()`,
lxdialog, `nconf.gui.c`), and documents.
