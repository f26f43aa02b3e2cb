---------------------------- MODULE MCOverrides ----------------------------
(* Overrides for TLC. *)
EXTENDS Overrides
====
