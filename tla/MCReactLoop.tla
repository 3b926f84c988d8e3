---------------------------- MODULE MCReactLoop ----------------------------
(* Two concurrent turns of one connection over one call of each tier. *)
EXTENDS ReactLoop, TLC

CONSTANTS t1, t2, read, write, banned, conn

OneOfEachTier ==
    (read :> "AutoApprove") @@ (write :> "Prompt") @@ (banned :> "Deny")

SameConnection == [t \in Turns |-> conn]
=============================================================================
