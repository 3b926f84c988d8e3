------------------------------ MODULE MCWorkIq ------------------------------
(* The daemon with one digest job that may overlap with itself. *)
EXTENDS WorkIq
=============================================================================
