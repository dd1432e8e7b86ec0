---------------------------- MODULE ReleaseOrder ----------------------------
(***************************************************************************)
(* What a release promises of its artifacts, whatever fails on the way:    *)
(* each becomes public at most once, is never taken back, and none does    *)
(* before those it relies on.                                              *)
(***************************************************************************)
CONSTANTS
    Good,       \* the artifacts of every version
    Relies      \* [Good -> SUBSET Good]: what must be public before it

VARIABLE public

Init == public = {}

(* One artifact becomes public.                                            *)
Publish(g) ==
    /\ g \notin public
    /\ Relies[g] \subseteq public
    /\ public' = public \cup {g}

Next == \E g \in Good : Publish(g)

Spec == Init /\ [][Next]_public

=============================================================================
