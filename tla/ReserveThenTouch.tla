-------------------------- MODULE ReserveThenTouch --------------------------
(***************************************************************************)
(* What overcommit_demo promises, without pipes, signals or a parent: every*)
(* child first reserves chunks of address space; only when no child is     *)
(* reserving any more are chunks touched, one at a time; a child is        *)
(* dismissed only with everything it reserved touched.  A child may leave  *)
(* early at any time (it is killed, or its peers have gone).               *)
(***************************************************************************)
EXTENDS Integers

CONSTANT Children

VARIABLES
  phase,      (* of each child                                              *)
  reserved,   (* chunks each child has reserved                             *)
  touched     (* chunks each child has touched                              *)

vars == <<phase, reserved, touched>>

Phases == {"reserving", "ready", "dismissed", "left"}

Init == /\ phase    = [c \in Children |-> "reserving"]
        /\ reserved = [c \in Children |-> 0]
        /\ touched  = [c \in Children |-> 0]

Reserve(c) == /\ phase[c] = "reserving"
              /\ reserved' = [reserved EXCEPT ![c] = @ + 1]
              /\ UNCHANGED <<phase, touched>>

\* A chunk whose mapping nobody hears of: the child leaves with it.
ReserveAndLeave(c) == /\ phase[c] = "reserving"
                      /\ reserved' = [reserved EXCEPT ![c] = @ + 1]
                      /\ phase' = [phase EXCEPT ![c] = "left"]
                      /\ UNCHANGED touched

Finish(c) == /\ phase[c] = "reserving"
             /\ phase' = [phase EXCEPT ![c] = "ready"]
             /\ UNCHANGED <<reserved, touched>>

Touch(c) == /\ phase[c] = "ready"
            /\ \A d \in Children : phase[d] # "reserving"
            /\ touched[c] < reserved[c]
            /\ touched' = [touched EXCEPT ![c] = @ + 1]
            /\ \/ UNCHANGED phase
               \/ phase' = [phase EXCEPT ![c] = "left"]
            /\ UNCHANGED reserved

Dismiss(c) == /\ phase[c] = "ready"
              /\ touched[c] = reserved[c]
              /\ phase' = [phase EXCEPT ![c] = "dismissed"]
              /\ UNCHANGED <<reserved, touched>>

Leave(c) == /\ phase[c] # "left"
            /\ phase' = [phase EXCEPT ![c] = "left"]
            /\ UNCHANGED <<reserved, touched>>

Next == \E c \in Children :
          \/ Reserve(c) \/ ReserveAndLeave(c) \/ Finish(c) \/ Touch(c)
          \/ Dismiss(c) \/ Leave(c)

Spec == Init /\ [][Next]_vars
=============================================================================
