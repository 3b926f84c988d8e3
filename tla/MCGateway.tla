----------------------------- MODULE MCGateway -----------------------------
(* Three keys for a cache of two entries, one channel. *)
EXTENDS Gateway, TLC

CONSTANTS ch

MCBurst == ch :> 2
=============================================================================
