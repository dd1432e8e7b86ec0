------------------------------ MODULE FormatOnce ------------------------------
(***************************************************************************)
(* What `tsv format` promises, with no pool, no queue and no thread: the   *)
(* files are found one by one or all together, each found file is          *)
(* formatted at most once, in any order and while others are still being   *)
(* found, and at the end one report lists every file found, each once, in  *)
(* path order.  A hand may be lost and then takes what it did not hand     *)
(* over with it: those files are reported as lost, never formatted again,  *)
(* and only when no hand is left may a file be reported that nobody took.  *)
(***************************************************************************)
EXTENDS Integers, Sequences

CONSTANTS Files, Rank

VARIABLES
    found,   \* the files the walk has found
    fate,    \* "none", "done" (formatted, outcome kept) or "lost"
    manned,  \* somebody is left to format
    listing  \* the files of the final report, in order; <<>> before it

vars == <<found, fate, manned, listing>>

Init ==
    /\ found = {}
    /\ fate = [f \in Files |-> "none"]
    /\ manned = TRUE
    /\ listing = <<>>

Find(S) ==
    /\ listing = <<>> /\ S # {} /\ S \cap found = {}
    /\ found' = found \cup S
    /\ UNCHANGED <<fate, manned, listing>>

Format(f) ==
    /\ manned /\ listing = <<>> /\ f \in found /\ fate[f] = "none"
    /\ fate' = [fate EXCEPT ![f] = "done"]
    /\ UNCHANGED <<found, manned, listing>>

\* a hand is lost with the file it was at and the outcomes it kept
LoseHand(S) ==
    /\ manned /\ listing = <<>> /\ S \subseteq found /\ S # {}
    /\ \A f \in S : fate[f] # "lost"
    /\ fate' = [f \in Files |-> IF f \in S THEN "lost" ELSE fate[f]]
    /\ manned' \in BOOLEAN
    /\ UNCHANGED <<found, listing>>

\* a hand lost before turns out to have been the last
Abandon ==
    /\ manned /\ listing = <<>> /\ \E f \in Files : fate[f] = "lost"
    /\ manned' = FALSE
    /\ UNCHANGED <<found, fate, listing>>

InOrder(s) == \A i, j \in 1..Len(s) : i < j => Rank[s[i]] < Rank[s[j]]

Publish ==
    /\ listing = <<>>
    /\ manned => \A f \in found : fate[f] # "none"
    /\ {listing'[k] : k \in 1..Len(listing')} = found
    /\ InOrder(listing')
    /\ UNCHANGED <<found, fate, manned>>

Next ==
    \/ \E f \in Files : Format(f)
    \/ \E S \in SUBSET Files : Find(S) \/ LoseHand(S)
    \/ Abandon \/ Publish

Spec == Init /\ [][Next]_vars
=============================================================================
