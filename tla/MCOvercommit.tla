---------------------------- MODULE MCOvercommit ----------------------------
(* Instances of OvercommitDemo for TLC; the values are in the .cfg files.   *)
EXTENDS OvercommitDemo
=============================================================================
