------------------------------ MODULE DocLayout ------------------------------
(***************************************************************************)
(* The questions the renderer asks of a document tree: the memoized layout *)
(* cell of a subtree (arena.rs), the width test of a group with its        *)
(* look-ahead (arena_fits.rs), what a document starts and ends with        *)
(* (arena_render_suffix.rs) and what it spells.  Beside the width test, a  *)
(* declarative reading of it to hold it against.                           *)
(*                                                                         *)
(* Left out: the flow contexts of a fill, embedded documents' ends, texts  *)
(* with a newline inside.                                                  *)
(***************************************************************************)
EXTENDS DocNodes

-----------------------------------------------------------------------------
(* The layout cell: a flat width, or one of two marks below every width.    *)
Forced == -1    \* LAYOUT_BREAKS_FORCED: no flat width, the group must break
Soft   == -2    \* LAYOUT_BREAKS_SOFT: no flat width, the walk must visit it

\* mutant: a deferred run and a flush-scoped break count as no columns
RECURSIVE LayoutBlind(_)
LayoutBlind(d) ==
    CASE d.k = "text" -> d.w
      [] d.k \in {"multiline", "break_parent"} -> Forced
      [] d.k = "line" -> IF d.kind \in Hards THEN Forced
                         ELSE IF d.kind = "soft" THEN 0 ELSE 1
      [] Wraps(d) -> LayoutBlind(d.c)
      [] d.k = "reserve" -> IF LayoutBlind(d.c) < 0 THEN LayoutBlind(d.c)
                            ELSE LayoutBlind(d.c) + d.n
      [] d.k = "group" -> IF d.brk THEN Forced ELSE LayoutBlind(d.c)
      [] d.k = "if_break" -> IF LayoutBlind(d.flat) = Forced THEN Soft
                             ELSE LayoutBlind(d.flat)
      [] d.k \in {"concat", "fill"} ->
            LET cells == [i \in DOMAIN d.kids |-> LayoutBlind(d.kids[i])]
            IN  IF Forced \in Range(cells) THEN Forced
                ELSE IF Soft \in Range(cells) THEN Soft ELSE Total(cells)
      [] d.k \in {"suffix", "boundary", "flush_break"} -> 0

\* subtree_layout_fill: what a subtree occupies on one line, if it can
RECURSIVE Layout(_)
Layout(d) ==
    CASE d.k = "text" -> d.w
      [] d.k \in {"multiline", "break_parent"} -> Forced
      [] d.k = "line" -> IF d.kind \in Hards THEN Forced
                         ELSE IF d.kind = "soft" THEN 0 ELSE 1
      [] Wraps(d) -> Layout(d.c)
      [] d.k = "reserve" -> IF Layout(d.c) < 0 THEN Layout(d.c)
                            ELSE Layout(d.c) + d.n
      [] d.k = "group" -> IF d.brk THEN Forced ELSE Layout(d.c)
      [] d.k = "if_break" -> IF Layout(d.flat) = Forced THEN Soft
                             ELSE Layout(d.flat)
      [] d.k \in {"concat", "fill"} ->
            LET cells == [i \in DOMAIN d.kids |-> Layout(d.kids[i])]
            IN  IF Forced \in Range(cells) THEN Forced
                ELSE IF Soft \in Range(cells) THEN Soft ELSE Total(cells)
      [] d.k \in {"suffix", "boundary", "flush_break"} -> Soft

WillBreak(d) == Layout(d) = Forced

\* can_break: whether there is a line to break at, in either arm
RECURSIVE CanBreak(_)
CanBreak(d) ==
    CASE d.k \in {"line", "multiline", "break_parent"} -> TRUE
      [] d.k \in {"text", "boundary", "flush_break"} -> FALSE
      [] Wraps(d) \/ d.k \in {"reserve", "suffix"} -> CanBreak(d.c)
      [] d.k = "group" ->
            CanBreak(d.c) \/ \E s \in Range(d.states) : CanBreak(s)
      [] d.k = "if_break" -> CanBreak(d.brk) \/ CanBreak(d.flat)
      [] d.k \in {"concat", "fill"} -> \E kid \in Range(d.kids) : CanBreak(kid)

-----------------------------------------------------------------------------
(* Does it fit?  todo is what is measured and then the look-ahead, each     *)
(* document with its mode; flush says a flush-scoped break is pending.      *)

\* what of a group a measure in mode m looks at
GroupMode(d, m) == IF d.brk THEN "break" ELSE m
GroupPart(d, m) ==
    IF GroupMode(d, m) = "break" /\ d.states # <<>> THEN Last(d.states) ELSE d.c

RECURSIVE Fits(_, _, _, _)
Fits(todo, remaining, suffix, flush) ==
    IF remaining < 0 THEN FALSE
    ELSE IF todo = <<>> THEN TRUE
    ELSE LET d    == Head(todo)[1]
             m    == Head(todo)[2]
             then == Tail(todo)
             On(docs) == Fits(docs \o then, remaining, suffix, flush)
         IN
    CASE d.k = "text" -> Fits(then, remaining - d.w, suffix, flush)
      [] d.k # "text" /\ m = "flat" /\ ~flush /\ Layout(d) >= 0 ->
            Fits(then, remaining - Layout(d), suffix, flush)
      [] OTHER ->
    CASE d.k = "multiline" -> remaining >= d.first
      [] d.k = "line" -> ~(flush /\ m = "flat" /\ d.kind \notin Hards)
      [] d.k = "group" -> On(<<<<GroupPart(d, m), GroupMode(d, m)>>>>)
      [] Wraps(d) -> On(<<<<d.c, m>>>>)
      [] d.k = "if_break" ->
            IF d.id = 0 /\ m = "break" THEN On(<<<<d.brk, m>>>>)
            ELSE IF flush /\ d.id = 0 /\ CanBreak(d.brk) THEN FALSE
            ELSE On(<<<<d.flat, m>>>>)
      [] d.k \in {"concat", "fill"} -> On(Moded(d.kids, m))
      [] d.k = "reserve" ->
            Fits(<<<<d.c, m>>>> \o then, remaining - d.n, suffix, flush)
      [] d.k = "suffix" -> Fits(then, remaining, TRUE, flush)
      [] d.k = "boundary" -> IF suffix THEN FALSE ELSE On(<<>>)
      [] d.k = "break_parent" -> FALSE
      [] d.k = "flush_break" -> Fits(then, remaining, suffix, TRUE)

-----------------------------------------------------------------------------
(* The same question, declared.  A document in a mode is a sequence of what *)
(* a measure can meet: columns, the end of the line, a line kept flat (or a *)
(* conditional kept flat that could break), a deferred run, a boundary, a   *)
(* flush-scoped break and a forced break.                                   *)
RECURSIVE Items(_, _)
Items(d, m) ==
    CASE d.k = "text" -> <<<<"cols", d.w>>>>
      [] d.k = "multiline" -> <<<<"cols", d.first>>, <<"eol", 0>>>>
      [] d.k = "line" ->
            IF m = "break" \/ d.kind \in Hards THEN <<<<"eol", 0>>>>
            ELSE <<<<"kept", 0>>, <<"cols", IF d.kind = "soft" THEN 0 ELSE 1>>>>
      [] d.k = "group" -> Items(GroupPart(d, m), GroupMode(d, m))
      [] Wraps(d) -> Items(d.c, m)
      [] d.k = "if_break" ->
            IF d.id = 0 /\ m = "break" THEN Items(d.brk, m)
            ELSE (IF d.id = 0 /\ CanBreak(d.brk) THEN <<<<"kept", 0>>>> ELSE <<>>)
                 \o Items(d.flat, m)
      [] d.k \in {"concat", "fill"} ->
            FlattenSeq([i \in DOMAIN d.kids |-> Items(d.kids[i], m)])
      [] d.k = "reserve" -> <<<<"cols", d.n>>>> \o Items(d.c, m)
      [] d.k \in {"suffix", "boundary", "break_parent", "flush_break"} ->
            <<<<d.k, 0>>>>

\* It fits if what comes before the first end of line needs no more than the
\* columns that remain, holds no forced break, no boundary that a deferred run
\* would have to be flushed at, and keeps no line flat that such a run needs.
Measured(todo, remaining, suffix) ==
    LET items == FlattenSeq([i \in DOMAIN todo |-> Items(todo[i][1], todo[i][2])])
        ends  == {i \in DOMAIN items : items[i][1] = "eol"}
        head  == IF ends = {} THEN items
                 ELSE SubSeq(items, 1, (CHOOSE i \in ends : \A j \in ends : i <= j) - 1)
        Before(i, what) == \E j \in 1..i - 1 : head[j][1] = what
    IN  /\ Total([i \in DOMAIN head |-> head[i][2]]) <= remaining
        /\ \A i \in DOMAIN head :
              /\ head[i][1] # "break_parent"
              /\ head[i][1] = "boundary" => ~suffix /\ ~Before(i, "suffix")
              /\ head[i][1] = "kept" => ~Before(i, "flush_break")
-----------------------------------------------------------------------------
(* edge_emission: the first or the last thing a document prints, "none" if  *)
(* it prints nothing; keyed holds the groups that broke.                    *)
RECURSIVE Edge(_, _, _, _)
Edge(d, m, last, keyed) ==
    CASE d.k = "text" -> d.of
      [] d.k = "line" -> IF d.kind \in Hards \/ m = "break" THEN "break"
                         ELSE IF d.kind = "normal" THEN "space" ELSE "none"
      [] d.k = "multiline" -> "opaque"
      [] d.k = "if_break" ->
            Edge(IF (IF d.id = 0 THEN m = "break" ELSE d.id \in keyed)
                 THEN d.brk ELSE d.flat, m, last, keyed)
      [] Wraps(d) \/ d.k \in {"group", "reserve", "suffix"} -> Edge(d.c, m, last, keyed)
      [] d.k \in {"concat", "fill"} ->
            LET kids == IF last THEN Reverse(d.kids) ELSE d.kids
            IN  FoldLeft(LAMBDA e, kid : IF e = "none" THEN Edge(kid, m, last, keyed) ELSE e,
                         "none", kids)
      [] d.k \in {"boundary", "break_parent", "flush_break"} -> "none"

-----------------------------------------------------------------------------
(* What a document may print of some kinds of text, in order, in one choice *)
(* of each group's mode and state.  An item of a fill takes either mode.    *)
RECURSIVE Spelled(_, _, _)
Spelled(of, d, m) ==
    LET Either(c) == Spelled(of, c, "flat") \cup Spelled(of, c, "break")
    IN
    CASE d.k = "text" -> {IF d.of \in of THEN <<d.w>> ELSE <<>>}
      [] d.k = "multiline" -> {IF "first" \in of THEN <<d.first, d.last>> ELSE <<>>}
      [] d.k \in {"line", "boundary", "break_parent", "flush_break"} -> {<<>>}
      [] d.k = "group" -> UNION {Either(c) : c \in {d.c} \cup Range(d.states)}
      [] d.k = "if_break" ->
            (IF d.id # 0 \/ m = "break" THEN Spelled(of, d.brk, m) ELSE {})
            \cup (IF d.id # 0 \/ m = "flat" THEN Spelled(of, d.flat, m) ELSE {})
      [] Wraps(d) \/ d.k \in {"reserve", "suffix"} -> Spelled(of, d.c, m)
      [] d.k \in {"concat", "fill"} ->
            IF d.kids = <<>> THEN {<<>>}
            ELSE LET first == IF d.k = "fill" THEN Either(Head(d.kids))
                              ELSE Spelled(of, Head(d.kids), m)
                     then  == Spelled(of, [d EXCEPT !.kids = Tail(@)], m)
                 IN  {p \o q : p \in first, q \in then}

SpelledWords(d, m)   == Spelled({"word"}, d, m)
SpelledRemarks(d, m) == Spelled({"comment", "block", "first"}, d, m)
=============================================================================
