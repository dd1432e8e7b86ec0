------------------------------ MODULE LtRegions ------------------------------
(***************************************************************************)
(* The `<` regions open at a point of the parse (struct LtRegions): where  *)
(* tsc's reading of a type-argument list may still be going on, in the     *)
(* order they opened.  A region is the place of its `<` and the grouping   *)
(* depth it lives at.  The parser tracks the first Cap of them.            *)
(***************************************************************************)
EXTENDS Naturals, Sequences, FiniteSets

Cap == 3    \* LtRegions::CAP, the most lists one token (`>>>`) closes

\* mutant: the earliest region makes room.
OpenedEvicting(regions, region) ==
    IF Len(regions) < Cap THEN Append(regions, region) ELSE Append(Tail(regions), region)
Opened(regions, region) == IF Len(regions) < Cap THEN Append(regions, region) ELSE regions

\* The slots are popped from the end, so what is left ends with a region that lives on.
CloseAbove(regions, depth) ==
    SubSeq(regions, 1,
        CHOOSE n \in 0..Len(regions) :
            /\ n > 0 => regions[n].floor <= depth
            /\ \A later \in (n + 1)..Len(regions) : regions[later].floor > depth)

ReanchorAbove(regions, depth) ==
    [i \in DOMAIN regions |->
        IF regions[i].floor > depth THEN [regions[i] EXCEPT !.floor = depth] ELSE regions[i]]

OpenBefore(regions, operandStart) ==
    Cardinality({i \in DOMAIN regions : \A j \in 1..i : regions[j].lt < operandStart})
=============================================================================
