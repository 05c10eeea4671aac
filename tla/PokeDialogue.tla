---------------------------- MODULE PokeDialogue ----------------------------
(***************************************************************************)
(* package/umem_poke/src/poc.sh and the victim of src/victim: the script   *)
(* runs the victim with its output in a FIFO, reads the address the victim *)
(* announces, has /proc/umem_poke (UmemPoke) store over the message there, *)
(* and reads the message.  Each `read' opens and closes the FIFO; the      *)
(* victim sleeps between its two lines, and nothing else orders the two.   *)
(* Output is a sequence of pieces, of which "nl" ends a line.              *)
(***************************************************************************)
EXTENDS Sequences, Naturals

VARIABLES
  script,       (* the command of poc.sh that is next, or where a read is   *)
  victim,       (* the system call of the victim that is next               *)
  fifo,         (* what is in the FIFO                                      *)
  open,         (* the script has the FIFO open                             *)
  opened,       (* ... or has had since the victim waits for a reader       *)
  loaded,       (* umem_poke.ko is in the kernel                            *)
  message,      (* the victim's message                                     *)
  str,          (* what the read has so far                                 *)
  shown,        (* the lines the script has printed                         *)
  late          (* the victim woke up before the script listened again;     *)
                (* history, no step reads it                                *)

vars == <<script, victim, fifo, open, opened, loaded, message, str, shown, late>>

Original == <<"<TOKEN>", "nl">>
\* 0x1074707572726F63 is "corrupt" and a byte 16: it takes the place of all eight
\* bytes of the message, its newline too.
Corrupted == <<"corrupt">>

Gone == {"none", "exited", "killed"}
Holding == {"prefix", "hex", "newline", "sleep", "msg", "exit"}

Init ==
  /\ script = "first run" /\ victim = "none"
  /\ fifo = <<>> /\ open = FALSE /\ opened = FALSE
  /\ loaded \in BOOLEAN
  /\ message = Original /\ str = <<>> /\ shown = <<>> /\ late = FALSE
-----------------------------------------------------------------------------
(***************************************************************************)
(* The victim.                                                             *)
(***************************************************************************)
Step(from, to) == victim = from /\ victim' = to
scriptVars == <<script, open, opened, loaded, str, shown>>

\* The shell opens the FIFO for it, which takes a reader.
OpenForWriting ==
  /\ opened /\ Step("open", "prefix")
  /\ UNCHANGED <<scriptVars, fifo, message, late>>
\* Without a reader a write is the end of the victim.
Writes(from, to, pieces) ==
  /\ \/ open /\ Step(from, to) /\ fifo' = fifo \o pieces
     \/ ~open /\ Step(from, "killed") /\ fifo' = <<>>
  /\ UNCHANGED <<scriptVars, message, late>>
Announces == \/ Writes("prefix", "hex", <<"message address:">>)
             \/ Writes("hex", "newline", <<"0x...">>)
             \/ Writes("newline", "sleep", <<"nl">>)
Wakes ==
  /\ Step("sleep", "msg")
  /\ late' = (script \notin {"read 2", "close 2"})
  /\ UNCHANGED <<scriptVars, fifo, message>>
\* Mutant: the victim prints the message from a copy.
WritesCopy == Writes("msg", "exit", Original)
WritesMessage == Writes("msg", "exit", message)
\* With nobody left to hold it the FIFO loses what is in it.
Exits ==
  /\ Step("exit", "exited")
  /\ fifo' = IF open THEN fifo ELSE <<>>
  /\ UNCHANGED <<scriptVars, message, late>>

VictimStep == OpenForWriting \/ Announces \/ Wakes \/ WritesMessage \/ Exits
-----------------------------------------------------------------------------
(***************************************************************************)
(* poc.sh.                                                                 *)
(***************************************************************************)
Runs(from, to) == script = from /\ script' = to

\* The first victim prints to the terminal and is waited for.
FirstRun ==
  /\ Runs("first run", "insmod")
  /\ UNCHANGED <<victim, fifo, open, opened, loaded, message, str, shown, late>>
\* It may fail; the script goes on in any case.
Insmod ==
  /\ Runs("insmod", "mkfifo")
  /\ loaded' \in {TRUE, loaded}
  /\ UNCHANGED <<victim, fifo, open, opened, message, str, shown, late>>
MkFifo ==
  /\ Runs("mkfifo", "start") /\ fifo' = <<>>
  /\ UNCHANGED <<victim, open, opened, loaded, message, str, shown, late>>
StartVictim ==
  /\ Runs("start", "open 1") /\ victim' = "open"
  /\ UNCHANGED <<fifo, open, opened, loaded, message, str, shown, late>>

\* Mutant: the second line is added to the first.
OpenKeepsLine(from, to) ==
  /\ Runs(from, to)
  /\ victim \in Holding \cup {"open"}
  /\ open' = TRUE /\ opened' = TRUE
  /\ UNCHANGED <<victim, fifo, loaded, message, str, shown, late>>
\* The redirection of a `read' waits for a writer.
OpenForReading(from, to) ==
  /\ Runs(from, to)
  /\ victim \in Holding \cup {"open"}
  /\ open' = TRUE /\ opened' = TRUE /\ str' = <<>>
  /\ UNCHANGED <<victim, fifo, loaded, message, shown, late>>
\* Mutant: the read takes what is there and does not wait for the end of the line.
ReadsAtOnce(at, to) ==
  /\ fifo # <<>> /\ Runs(at, to)
  /\ str' = IF Head(fifo) = "nl" THEN str ELSE Append(str, Head(fifo))
  /\ fifo' = Tail(fifo)
  /\ UNCHANGED <<victim, open, opened, loaded, message, shown, late>>
\* Mutant: the read waits for the end of a line only.
ReadsLine(at, to) ==
  /\ fifo # <<>>
  /\ Runs(at, IF Head(fifo) = "nl" THEN to ELSE at)
  /\ str' = IF Head(fifo) = "nl" THEN str ELSE Append(str, Head(fifo))
  /\ fifo' = Tail(fifo)
  /\ UNCHANGED <<victim, open, opened, loaded, message, shown, late>>
\* Byte by byte, to the end of a line or of the file.
Reads(at, to) ==
  /\ \/ /\ fifo # <<>>
        /\ Runs(at, IF Head(fifo) = "nl" THEN to ELSE at)
        /\ str' = IF Head(fifo) = "nl" THEN str ELSE Append(str, Head(fifo))
        /\ fifo' = Tail(fifo)
     \/ /\ fifo = <<>> /\ victim \in Gone
        /\ Runs(at, to)
        /\ UNCHANGED <<str, fifo>>
  /\ UNCHANGED <<victim, open, opened, loaded, message, shown, late>>
\* The FIFO is closed, the line printed.
Closes(from, to) ==
  /\ Runs(from, to)
  /\ open' = FALSE
  /\ fifo' = IF victim \in Gone THEN <<>> ELSE fifo
  /\ shown' = Append(shown, str)
  /\ UNCHANGED <<victim, opened, loaded, message, str, late>>

AddressOf(line) == Len(line) = 2
\* Without the module there is no such file; with it the victim's memory may not
\* be found, which nobody looks at either.
Poke ==
  /\ Runs("poke", "open 2")
  /\ \/ UNCHANGED message
     \/ /\ loaded /\ AddressOf(str) /\ victim \notin Gone
        /\ message' = Corrupted
  /\ UNCHANGED <<victim, fifo, open, opened, loaded, str, shown, late>>
Waits ==
  /\ Runs("wait", "done") /\ victim \in Gone
  /\ UNCHANGED <<victim, fifo, open, opened, loaded, message, str, shown, late>>

ScriptStep ==
  \/ FirstRun \/ Insmod \/ MkFifo \/ StartVictim
  \/ OpenForReading("open 1", "read 1") \/ Reads("read 1", "close 1") \/ Closes("close 1", "poke")
  \/ Poke
  \/ OpenForReading("open 2", "read 2") \/ Reads("read 2", "close 2") \/ Closes("close 2", "wait")
  \/ Waits

Over == script = "done" /\ UNCHANGED vars
Next == ScriptStep \/ VictimStep \/ Over
Spec == Init /\ [][Next]_vars
\* Both run when they can; the victim's sleep ends.
FairSpec == Spec /\ WF_vars(ScriptStep) /\ WF_vars(VictimStep)
-----------------------------------------------------------------------------
\* The type of every variable.
TypeOK ==
  /\ victim \in Gone \cup Holding \cup {"open"}
  /\ {open, opened, loaded, late} \subseteq BOOLEAN
  /\ message \in {Original, Corrupted}
  /\ Len(fifo) <= 5 /\ Len(str) <= 2 /\ Len(shown) <= 2

\* However the victim's three writes fall, the script has the whole address when
\* it asks for the store, and the victim is still there to be stored to unless it
\* has slept its time out.
AddressKnown ==
  /\ script = "poke" => str = <<"message address:", "0x...">>
  /\ script = "poke" /\ ~late => victim = "sleep"

\* The second line is the message as it is after the store, unless the victim woke
\* up before the script listened again.
ShowsTheStore ==
  script = "done" /\ ~late =>
    shown[2] = IF message = Corrupted THEN Corrupted ELSE <<"<TOKEN>">>

\* Both: the two reads of the script do what it needs them for.
ReadsServe == TypeOK /\ AddressKnown /\ ShowsTheStore

\* The script ends, unless the victim is late: then it may be killed by its write,
\* and the script's second open waits for a writer for ever, and nothing else does.
Ends == \/ <>[](script = "done")
        \/ <>[](late /\ script = "open 2" /\ victim \in Gone)
=============================================================================
