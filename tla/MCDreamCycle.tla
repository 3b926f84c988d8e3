---------------------------- MODULE MCDreamCycle ----------------------------
(* Two messages on two pages that say the same; the log of one is too long. *)
EXTENDS DreamCycle, TLC

CONSTANTS m1, m2, p, q, fact

MCMessages == {m1, m2}
MCPageOf == (m1 :> p) @@ (m2 :> q)
MCFactOf == [m \in MCMessages |-> fact]
=============================================================================
