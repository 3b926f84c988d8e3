----------------------------- MODULE MCIngress -----------------------------
(* Two connections on one page: a frame that is repeated, and another. *)
EXTENDS Ingress, TLC

CONSTANTS r1, again, r2, k1, k2, c1, c2, ch1, ch2, p

MCRequests == {r1, again, r2}
MCKeyOf == (r1 :> k1) @@ (again :> k1) @@ (r2 :> k2)
MCChannelOf == (r1 :> ch1) @@ (again :> ch1) @@ (r2 :> ch2)
MCPageOf == [r \in MCRequests |-> p]
MCConnOf == (r1 :> c1) @@ (again :> c1) @@ (r2 :> c2)
MCBurst == (ch1 :> 2) @@ (ch2 :> 1)
=============================================================================
