---------------------------- MODULE HeaderUpdate -----------------------------
(***************************************************************************)
(* What conf_write_autoconf() promises to make (confdata.c).  Objects are  *)
(* compiled against autoconf.h and tristate.conf, and depend on one header *)
(* per symbol they use; auto.conf is what these headers are compared with  *)
(* the next time.  Whatever steps were done before a program stopped, a    *)
(* symbol about which the three files disagree has its header touched.     *)
(* A file is the lines it has for every symbol.                            *)
(***************************************************************************)
EXTENDS TLAPS

CONSTANTS
  Syms,     \* the symbols
  Lines     \* what lines may say

VARIABLES
  at,       \* where the writer is, "idle" if there is none
  tmp,      \* what it writes to the temporary files
  header,   \* autoconf.h
  tristate, \* tristate.conf
  auto,     \* auto.conf
  touched   \* the symbols whose header is newer than auto.conf
vars == <<at, tmp, header, tristate, auto, touched>>

Files == [Syms -> SUBSET Lines]
NoFile == [s \in Syms |-> {}]
Init ==
  /\ at = "idle" /\ tmp = NoFile /\ touched = {}
  /\ auto \in Files /\ header = auto /\ tristate = auto

\* conf_split_config(), which may give up after some headers.
Split ==
  /\ at = "idle" /\ at' \in {"idle", "auto"}
  /\ touched \subseteq touched' /\ touched' \subseteq Syms
  /\ UNCHANGED <<tmp, header, tristate, auto>>
\* What is written differs from the last auto.conf only where headers were touched.
WriteAuto ==
  /\ at = "auto" /\ at' = "header"
  /\ tmp' \in Files /\ \A s \in Syms \ touched : tmp'[s] = auto[s]
  /\ UNCHANGED <<header, tristate, auto, touched>>
RenameHeader ==
  /\ at = "header" /\ at' = "tristate"
  /\ header' = tmp
  /\ UNCHANGED <<tmp, tristate, auto, touched>>
RenameTristate ==
  /\ at = "tristate" /\ at' = "last"
  /\ tristate' = tmp
  /\ UNCHANGED <<tmp, header, auto, touched>>
\* auto.conf is the last: it says that the others are done.
RenameAuto ==
  /\ at = "last" /\ at' = "idle"
  /\ auto' = tmp /\ tmp' = NoFile /\ touched' = {}
  /\ UNCHANGED <<header, tristate>>
Stops ==
  /\ at # "idle" /\ at' = "idle" /\ tmp' = NoFile
  /\ UNCHANGED <<header, tristate, auto, touched>>

Next == Split \/ WriteAuto \/ RenameHeader \/ RenameTristate \/ RenameAuto \/ Stops
Spec == Init /\ [][Next]_vars
-----------------------------------------------------------------------------
\* Of a symbol that the three files do not agree about, the header that stands for
\* it was touched after auto.conf was last replaced, wherever a program stopped.
HeadersTouched ==
  \A s \in Syms : header[s] # auto[s] \/ tristate[s] # auto[s] => s \in touched

\* It is so because what is on its way into the files differs from auto.conf only
\* where headers were touched, and is in all of them before it is in auto.conf.
WrittenInv ==
  /\ at \in {"header", "tristate", "last"} => \A s \in Syms \ touched : tmp[s] = auto[s]
  /\ at \in {"tristate", "last"} => header = tmp
  /\ at = "last" => tristate = tmp
UpdateInv == WrittenInv /\ HeadersTouched

\* Every step keeps both.
LEMMA NextUpdateInv == UpdateInv /\ [Next]_vars => UpdateInv'
<1> SUFFICES ASSUME UpdateInv, [Next]_vars PROVE UpdateInv' OBVIOUS
<1> USE DEF UpdateInv, WrittenInv, HeadersTouched
<1>1. CASE Split BY <1>1 DEF Split
<1>2. CASE WriteAuto BY <1>2 DEF WriteAuto
<1>3. CASE RenameHeader BY <1>3 DEF RenameHeader
<1>4. CASE RenameTristate BY <1>4 DEF RenameTristate
<1>5. CASE RenameAuto BY <1>5 DEF RenameAuto
<1>6. CASE Stops BY <1>6 DEF Stops
<1>7. CASE UNCHANGED vars BY <1>7 DEF vars
<1> QED BY <1>1, <1>2, <1>3, <1>4, <1>5, <1>6, <1>7 DEF Next

\* Make never misses a change, for any symbols and values and any interruption of
\* conf_write_autoconf().
THEOREM ChangesAreSeen == Spec => []HeadersTouched
<1>1. Init => UpdateInv BY DEF Init, UpdateInv, WrittenInv, HeadersTouched
<1>2. UpdateInv => HeadersTouched BY DEF UpdateInv
<1> QED BY <1>1, <1>2, NextUpdateInv, PTL DEF Spec
=============================================================================
