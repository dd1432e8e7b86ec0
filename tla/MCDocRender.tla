----------------------------- MODULE MCDocRender -----------------------------
(* Small documents to print: every way to fill the places of a few shapes   *)
(* of nested groups.                                                        *)
EXTENDS DocFlat

Trailer == LineSuffix(Concat(<<Space, Comment(3)>>))

Filled(n, atoms) == [1..n -> atoms]

\* words and lines, with a comment deferred among them
Plainly == {Word(1), Word(3), Line("soft"), Line("normal"), Line("hard")}
Nested ==
    {Group(Concat(<<p[1], p[2], Group(Concat(<<p[3], p[4]>>)), p[5], last>>))
        : p \in Filled(5, Plainly), last \in {Word(1), Line("normal")}}
Beside ==
    {Concat(<<Group(Concat(<<p[1], Indent(Concat(<<p[2], p[3]>>))>>)), p[4],
              Group(Concat(<<p[5], Trailer, last>>)), Word(1)>>)
        : p \in Filled(5, Plainly), last \in {Word(1), Line("normal")}}

\* deferred comments, at the end of a line or on one of their own, with what
\* may flush them
OwnLine == LineSuffix(Concat(<<Line("hard"), Comment(3)>>))
Aside   == LineSuffix(Group(Concat(<<Space, Block(2)>>)))
Spanning == Concat(<<Space, Multiline(1, 2)>>)
Commented == {Word(1), Line("normal"), Line("hard"), Trailer, OwnLine, Aside, Boundary,
              FlushBreak, Spanning}
CommentDocs ==
    {Group(Concat(<<Word(1), p[1], Indent(Group(Concat(<<p[2], p[3]>>))), p[4], last>>))
        : p \in Filled(4, Commented), last \in {Word(1), Boundary}}

\* groups with states, conditionals on a group's own mode or on another's, and
\* the ways to indent them
Choosy == {Word(1), Word(3), Line("soft"), IfBreak(Word(1), Line("normal")),
           IfBreak(Line("soft"), Word(2))}
Ways(d) == {Indent(d), Dedent(d), Align(1, d), Indent(AlignRoot(0, d)), Reserve(2, d)}
Ladders ==
    UNION {Ways(Conditional(<<Concat(<<p[1], p[2]>>),
                              Concat(<<p[1], Line("hard"), Group(Concat(<<p[2], p[3]>>)), Word(1)>>),
                              Concat(<<p[3], Group(Concat(<<p[4], Word(2)>>))>>)>>))
           : p \in Filled(4, Choosy)}
Gates ==
    {Indent(Conditional(<<Concat(<<p[1], p[2], Word(1)>>),
                          Gated(p[3], Concat(<<Word(1), Line("hard"), p[2]>>), admit),
                          Concat(<<p[1], Line("soft"), p[3]>>)>> \o last))
        : p \in Filled(3, Choosy), admit \in {"overflows", "fits"},
          last \in {<<>>, <<Gated(Word(1), Word(1), "never")>>}}
Keys ==
    {Concat(<<Keyed(1, Concat(<<p[1], p[2]>>)), IndentIfBreak(1, Group(Concat(<<p[3], p[4]>>))),
              IfKeyBroke(1, Concat(<<Line("hard"), Word(1)>>), Word(1)), p[5]>>)
        : p \in Filled(5, Choosy)}
\* what is packed: the values of an array, each with its comma, the words of a
\* CSS value or of a text, with a line or an author's blank line between
Packs  == {Word(1), Word(3), Concat(<<Word(2), Word(1)>>), Multiline(1, 2)}
Gap    == Concat(<<Line("literal"), Line("hard")>>)
Calls  == Packs \cup {Concat(<<Word(1), Group(Concat(<<Line("soft"), Word(1), Line("soft"), Word(1)>>))>>)}
Arrays ==
    {Group(Concat(<<Word(1), Indent(Concat(<<Line("soft"), Fill(<<p[1], gap, p[2], Line("normal"), p[3]>>)>>)),
                    Line("soft"), Word(1)>>)) : p \in Filled(3, Packs), gap \in {Line("normal"), Gap}}
Values ==
    {Concat(<<Word(1), Group(Indent(Concat(<<line, Reserve(1, Fill(<<p[1], Line("normal"), p[2], Line("normal"), p[3]>>))>>)))>>)
        : p \in Filled(3, Calls), line \in {Line("normal"), Word(1)}}
Texts ==
    {Concat(<<Fill(lead \o <<p[1], Line("normal"), p[2]>> \o trail), p[3]>>)
        : p \in Filled(3, Packs), lead, trail \in {<<>>, <<Line("normal")>>}}
Elements == {Group(Concat(<<p[1], Indent(Concat(<<Line("soft"), p[2]>>)), Line("soft"), Word(1)>>))
             : p \in Filled(2, {Word(1), Word(2), Word(3)})}
Folds ==
    {Concat(<<Flowing("after_element_fold",
                      Fill(<<element, Line("normal"), p[1], Line("normal"), p[2]>>)),
              Line("hard"), Word(1)>>) : element \in Elements, p \in Filled(2, Packs)}
Glued ==
    {Concat(<<Word(3), Flowing("glued_lead", Fill(<<p[1]>> \o more))>>)
        : p \in Filled(1, Packs), more \in {<<>>} \cup {<<Line("normal"), w>> : w \in Packs}}

\* what fits on one line, or nearly: reserves inside and around fills and groups
Short == {Word(1), Concat(<<Word(1), Reserve(1, Word(1))>>), Line("normal"),
          Group(Concat(<<Word(1), Line("soft"), Word(1)>>)),
          Fill(<<Word(1), Line("normal"), Word(1)>>)}
Lines ==
    {Reserve(n, Concat(<<p[1], between, p[2]>>)) : n \in {0, 1}, p \in Filled(2, Short),
        between \in {Group(Line("normal")), Word(1), Align(1, Line("soft"))}}
    \cup {Concat(<<Reserve(n, Fill(<<p[1], Line(kind), p[2]>>)), p[3]>>)
            : n \in {0, 1, 2}, p \in Filled(3, Short \cup {Space}), kind \in {"normal", "soft"}}
    \cup {Reserve(n, d) : n \in {1, 2}, d \in {Fill(<<p[1], Line("normal"), p[2]>>) : p \in Filled(2, Short)}}
    \cup {Group(Concat(<<p[1], Line("soft"), Reserve(n, Indent(p[2])), p[3]>>))
            : n \in {0, 1}, p \in Filled(3, Short)}

PrintedShapes ==
    {Nested, Beside, CommentDocs, Ladders, Gates, Keys, Arrays, Values, Texts, Folds,
     {Concat(<<Word(1), d>>) : d \in Folds}, Glued, Lines}

\* a CSS value whose commas stand in the separators (build_comma_fill_doc)
Comma == Concat(<<Word(1), Line("normal")>>)
CommaDocs ==
    {Concat(<<Word(1), Group(Indent(Concat(<<Line("normal"),
               Reserve(1, Fill(<<p[1], Comma, p[2], Comma, p[3]>>))>>)))>>) : p \in Filled(3, {Word(1), Word(2)})}

\* the hug of a call's first argument (inline_hug_first_or_expand_all): a
\* function with parameters to break and a body on lines of its own, and the
\* argument behind it
HugDocs ==
    {LET Params == Group(Concat(<<p[1], Line("soft"), p[2]>>))
         Fn     == Concat(<<Params, Indent(Concat(<<Line("hard"), p[3]>>)), Line("hard"), Word(1)>>)
         Behind == Group(Concat(<<p[4], Line("soft"), Word(1)>>))
     IN  Conditional(<<Concat(<<Fn, Word(1), Behind>>), Concat(<<GroupBreak(Fn), Word(1), Behind>>),
                       Concat(<<Fn, Line("hard"), Behind>>)>>)
        : p \in Filled(4, {Word(1), Word(2), Word(3)})}

CommaShapes == {CommaDocs}
HugShapes   == {HugDocs}

\* the arena a document is built in
RECURSIVE Nodes(_)
Nodes(d) == {d} \cup UNION {Nodes(c) : c \in Parts(d)}
=============================================================================
