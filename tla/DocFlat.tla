------------------------------- MODULE DocFlat -------------------------------
(***************************************************************************)
(* The flat write-out (arena_render_flat.rs), a second code path that      *)
(* writes a document of one line without the renderer, and the renderer    *)
(* held against the document it prints, as DocLayout measures and spells   *)
(* it.                                                                     *)
(***************************************************************************)
EXTENDS DocRender, DocLayout

-----------------------------------------------------------------------------
(* try_print_flat: a document that needs one line at most is written by a   *)
(* walk of its own, beside the renderer, if the walk can tell.  left is     *)
(* what the print width leaves, ok says nothing was refused.                *)
Unwritten == [out |-> <<>>, left |-> width, ok |-> TRUE]
Written(walk, what, w) ==
    [walk EXCEPT !.out = Append(@, <<what, w>>), !.left = @ - w]
\* mutant: a reserve is free
ChargedNothing(walk, n) == walk

\* what the caller writes after a document is charged where it is passed
Charged(walk, n) == [walk EXCEPT !.left = @ - n]

Refused(walk) == [walk EXCEPT !.ok = FALSE]

RECURSIVE FlatWalk(_, _, _)
FlatWalk(walk, d, flat) ==
    CASE d.k = "text" -> Written(walk, d.of, d.w)
      [] d.k = "line" /\ flat /\ d.kind \notin Hards ->
            Written(walk, "flat", IF d.kind = "normal" THEN 1 ELSE 0)
      [] d.k \in {"concat", "fill"} ->
            FoldLeft(LAMBDA w, kid : FlatWalk(w, kid, flat \/ d.k = "fill"), walk, d.kids)
      [] d.k \in {"indent", "dedent", "align", "align_root"} -> FlatWalk(walk, d.c, flat)
      [] d.k = "group" /\ ~d.brk /\ d.states = <<>> /\ d.id = 0 -> FlatWalk(walk, d.c, TRUE)
      [] d.k = "reserve" /\ d.flags = {} -> FlatWalk(Charged(walk, d.n), d.c, flat)
      [] OTHER -> Refused(walk)

FlatWritten == FlatWalk(Unwritten, doc, FALSE)
Accepted    == FlatWritten.ok /\ FlatWritten.left >= 0

-----------------------------------------------------------------------------
\* The measure of a group, with its memoized widths, is what Measured declares.
FitsIsMeasured ==
    (Printing({"group"}) /\ ~Cmd.inline) =>
        \A part \in {Cmd.doc.c} \cup {State(s) : s \in Range(Cmd.doc.states)} :
            LET todo == <<<<part, "flat">>>> \o AsTodo(Rest)
            IN  Fitting(todo, Remaining(pos), suffixes # <<>>, FALSE)
                  <=> Measured(todo, Remaining(pos), suffixes # <<>>)

\* The walk stands in for the renderer: what it accepts, the renderer writes as
\* the same tokens, with nothing left deferred.  The renderer may still break a
\* group or a fill that the walk took for one line: each measures what is left
\* from its own place, with its own reserve.  Stated before the last trim, which
\* the entries the walk stands in for do not do.
FlatIsRendered ==
    (~done /\ commands = <<>> /\ fills = <<>> /\ Accepted)
        => out = FlatWritten.out /\ suffixes = <<>>

\* Every comment of one of the document's spellings is printed, once and in
\* order, those of several lines among those deferred around them: the buffers
\* they wait in are flushed ahead of what would pass them, none is dropped with
\* the part of a fill it was met in.
CommentsKept ==
    LET remarks == SelectSeq(out, LAMBDA t : t[1] \in {"comment", "block", "first", "last"})
    IN  done => [i \in DOMAIN remarks |-> remarks[i][2]] \in SpelledRemarks(doc, "break")
=============================================================================
