----------------------------- MODULE MCDenoPool -----------------------------
(* Small instances of the sidecar pool: one slot that is hit hard, and two  *)
(* of which one is healed while the other works.                            *)
EXTENDS DenoPool, TLC

MCFaults == (1 :> [crashes |-> 2, noise |-> 1]) @@ (2 :> [crashes |-> 1, noise |-> 0])
=============================================================================
