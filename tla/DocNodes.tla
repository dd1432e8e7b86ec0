------------------------------ MODULE DocNodes -------------------------------
(***************************************************************************)
(* The documents a printer builds (arena.rs): a document is a record whose *)
(* field k is its kind.  Words are told apart by their width only.         *)
(***************************************************************************)
EXTENDS Integers, Sequences, SequencesExt

Word(w)          == [k |-> "text", of |-> "word", w |-> w]
Space            == [k |-> "text", of |-> "space", w |-> 1]
Comment(w)       == [k |-> "text", of |-> "comment", w |-> w]
Block(w)         == [k |-> "text", of |-> "block", w |-> w]
Multiline(v, w)  == [k |-> "multiline", first |-> v, last |-> w]
Line(kind)       == [k |-> "line", kind |-> kind]
Concat(kids)     == [k |-> "concat", kids |-> kids]
Fill(parts)      == [k |-> "fill", kids |-> parts]
Group(c)         == [k |-> "group", c |-> c, brk |-> FALSE, states |-> <<>>, id |-> 0]
GroupBreak(c)    == [Group(c) EXCEPT !.brk = TRUE]
Keyed(id, c)     == [Group(c) EXCEPT !.id = id]
Conditional(s)   == [Group(Head(s)) EXCEPT !.states = Tail(s)]
Gated(p, c, a)   == [k |-> "gated", probe |-> p, c |-> c, admit |-> a]
Indent(c)        == [k |-> "indent", c |-> c]
Dedent(c)        == [k |-> "dedent", c |-> c]
Align(n, c)      == [k |-> "align", n |-> n, c |-> c]
AlignRoot(n, c)  == [k |-> "align_root", n |-> n, c |-> c]
IfBreak(b, f)    == [k |-> "if_break", brk |-> b, flat |-> f, id |-> 0]
IfKeyBroke(id, b, f) == [IfBreak(b, f) EXCEPT !.id = id]
IndentIfBreak(id, c) == [k |-> "indent_if_break", c |-> c, id |-> id]
Reserve(n, c)    == [k |-> "reserve", n |-> n, c |-> c, flags |-> {}]
Flowing(flag, c) == [Reserve(0, c) EXCEPT !.flags = {flag}]
LineSuffix(c)    == [k |-> "suffix", c |-> c]
Boundary         == [k |-> "boundary"]
BreakParent      == [k |-> "break_parent"]
FlushBreak       == [k |-> "flush_break"]

Hards == {"hard", "literal"}
Wraps(d) ==
    d.k \in {"indent", "dedent", "align", "align_root", "indent_if_break", "gated"}

Total(widths) == FoldLeft(+, 0, widths)

\* a row of documents in one mode, as the measure takes them
Moded(kids, m) == [i \in DOMAIN kids |-> <<kids[i], m>>]
=============================================================================
