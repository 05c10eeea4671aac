---------------------------- MODULE MCKillsnoop ----------------------------
(***************************************************************************)
(* Command lines for Killsnoop.                                            *)
(***************************************************************************)
EXTENDS Killsnoop

\* The command line of a tool with some of -p 11, -T 12 and -s 9.
Line(tool, flags) ==
  [tool  |-> tool,
   pids  |-> IF "p" \in flags THEN {11} ELSE Pids,
   tpids |-> IF "T" \in flags THEN {12} ELSE Targets,
   sigs  |-> IF "s" \in flags THEN {9} ELSE Sigs]

MCOptions ==
  {Line("killsnoop", flags) : flags \in SUBSET {"p", "T", "s"}}
  \cup {Line("killsnoopTP", {"p", "s"})}
=============================================================================
