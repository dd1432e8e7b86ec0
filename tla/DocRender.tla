------------------------------ MODULE DocRender ------------------------------
(***************************************************************************)
(* The document renderer (arena_render.rs, arena_render_suffix.rs): a      *)
(* stack of commands, each a document with its indent and its mode, is     *)
(* printed one command a step.  A group is laid flat when it fits and      *)
(* broken when it does not; deferred runs (trailing comments) are printed  *)
(* at the end of their line, from the same stack.                          *)
(*                                                                         *)
(* The output is a sequence of tokens <<what, columns>>: a word, a space,  *)
(* a line comment, a block comment, a line kept flat, the first and the    *)
(* last line of a comment of several, or "nl" with the column the new line *)
(* starts at.  A document and a print width are chosen in Init.  What is   *)
(* asked of a whole document (does it fit, must it break, what does it     *)
(* start and end with) is a parameter: DocLayout has the answers.          *)
(***************************************************************************)
EXTENDS DocNodes, FiniteSets

CONSTANTS
    Shapes,     \* the documents to print, by what they are built for
    Widths,     \* the print widths
    TabWidth,   \* TAB_WIDTH
    Arena(_),   \* the nodes of the arena a document is built in
    Fitting(_, _, _, _), \* arena_fits_with_lookahead: what is measured with what
                         \* follows, the columns, a run is deferred, a break is due
    MustBreak(_),        \* will_break
    EdgeOf(_, _, _, _),  \* edge_emission: of a document in a mode, the last or the
                         \* first, with the groups that broke
    WordsOf(_, _)        \* what words a document may print, in a mode

ASSUME WidthsAssumption == Widths \subseteq Nat /\ TabWidth \in Nat

Modes == {"flat", "break"}

Leaves == {"text", "multiline", "line", "boundary", "break_parent", "flush_break"}

\* the arena is closed: what a node is made of was built before it
Parts(d) ==
    CASE d.k \in {"concat", "fill"} -> Range(d.kids)
      [] d.k = "group" -> {d.c} \cup Range(d.states)
      [] d.k = "if_break" -> {d.brk, d.flat}
      [] Wraps(d) \/ d.k \in {"reserve", "suffix"} -> {d.c}
      [] d.k \in Leaves -> {}

TextKinds == {"word", "space", "comment", "block"}
WellBuilt(d, arena) ==
    /\ Wraps(d) \/ d.k \in {"concat", "fill", "group", "if_break", "reserve", "suffix"} \cup Leaves
    /\ d.k \in {"concat", "fill"} => d = [k |-> d.k, kids |-> d.kids] /\ d.kids \in Seq(arena)
    /\ d.k = "group" => d.states \in Seq(arena)
    /\ d.k = "text" => d.of \in TextKinds /\ d.w \in Nat
    /\ d.k = "multiline" => d.first \in Nat /\ d.last \in Nat
    /\ d.k \in {"align", "align_root", "reserve"} => d.n \in Nat
    /\ d.k = "reserve" => d.flags \subseteq {"glued_lead", "after_element_fold"}

ASSUME ArenaAssumption ==
    \A docs \in Shapes : \A root \in docs :
        LET arena == Arena(root)
        IN  root \in arena /\ \A d \in arena : Parts(d) \subseteq arena /\ WellBuilt(d, arena)

\* The words of a document are put together from the words of its parts.
Silent(d) ==
    \/ d.k = "text" /\ d.of # "word"
    \/ d.k \in {"multiline", "line", "suffix", "boundary", "break_parent", "flush_break"}
Spells(d, m) ==
    LET words    == WordsOf(d, m)
        Row(j)   == WordsOf([d EXCEPT !.kids = SubSeq(@, j, Len(@))], m)
    IN
    /\ words \subseteq Seq(Nat)
    /\ Silent(d) => <<>> \in words
    /\ d.k = "text" /\ d.of = "word" => <<d.w>> \in words
    /\ Wraps(d) \/ d.k = "reserve" => WordsOf(d.c, m) \subseteq words
    /\ d.k = "suffix" => WordsOf(d.c, m) \subseteq {<<>>}
    /\ d.k = "group" => \A c \in Parts(d), n \in Modes : WordsOf(c, n) \subseteq words
    /\ d.k = "if_break" =>
          /\ d.id # 0 \/ m = "break" => WordsOf(d.brk, m) \subseteq words
          /\ d.id # 0 \/ m = "flat" => WordsOf(d.flat, m) \subseteq words
    /\ d.k \in {"concat", "fill"} =>
          /\ <<>> \in Row(Len(d.kids) + 1)
          /\ \A j \in 1..Len(d.kids) :
                LET here == Row(j)
                    then == Row(j + 1)
                IN  /\ then \subseteq Seq(Nat)
                    /\ \A n \in IF d.k = "fill" THEN Modes ELSE {m} :
                          \A p \in WordsOf(d.kids[j], n), q \in then : p \o q \in here

\* What is deferred is a comment: it holds no word.
ASSUME WordsAssumption ==
    \A docs \in Shapes : \A root \in docs :
        \A d \in Arena(root), m \in Modes : Spells(d, m)

VARIABLES
    doc, width,
    fills,      \* the fills being packed, the innermost first
    commands,   \* what is left to print, the next command first
    suffixes,   \* line_suffix: the deferred commands
    out, pos,   \* the output and the column
    remeasure,  \* should_remeasure
    keyed,      \* keyed_group_modes: the groups that broke, by id
    done

vars == <<doc, width, fills, commands, suffixes, out, pos, remeasure, keyed, done>>

-----------------------------------------------------------------------------
(* RenderIndent and ArenaCommand.                                           *)
NoIndent     == [tabs |-> 0, aligns |-> 0, spaces |-> 0]
Indented(i)  == [NoIndent EXCEPT !.tabs = i.tabs + i.aligns + 1]

Dedented(i)  == [i EXCEPT !.tabs = IF @ = 0 THEN 0 ELSE @ - 1]
Aligned(i, n) == [i EXCEPT !.aligns = @ + 1, !.spaces = @ + n]
Leveled(n)   == [NoIndent EXCEPT !.tabs = n]
StartColumn(i) == i.tabs * TabWidth + i.spaces

Reindented(d, i) ==
    CASE d.k = "indent" -> Indented(i)
      [] d.k = "dedent" -> Dedented(i)
      [] d.k = "align"  -> Aligned(i, d.n)
      [] d.k = "align_root" -> Leveled(d.n)

\* inline says that the command is printed by a flush (no tracking of suffixes)
Command(d, i, m) == [doc |-> d, indent |-> i, mode |-> m, inline |-> FALSE]
With(cmd, d)     == [cmd EXCEPT !.doc = d]
AsTodo(cmds)     == [i \in DOMAIN cmds |-> <<cmds[i].doc, cmds[i].mode>>]

Init ==
    /\ \E docs \in Shapes : doc \in docs
    /\ width \in Widths
    /\ commands = <<Command(doc, NoIndent, "break")>>
    /\ fills = <<>> /\ suffixes = <<>> /\ out = <<>> /\ pos = 0
    /\ remeasure = FALSE /\ keyed = {} /\ done = FALSE

-----------------------------------------------------------------------------
(* Printing, on a page: the output, the column and the remeasure flag.      *)
Page == [out |-> out, pos |-> pos, remeasure |-> remeasure]

Put(page, what, w) ==
    [page EXCEPT !.out = Append(@, <<what, w>>), !.pos = @ + w]

Blanks == {"space", "flat"}
Trimmed(tokens) ==
    LET kept == {i \in DOMAIN tokens : tokens[i][1] \notin Blanks}
    IN  SubSeq(tokens, 1, IF kept = {} THEN 0
                          ELSE CHOOSE i \in kept : \A j \in kept : j <= i)

\* render_line_break: what ends the line trims the blanks before it
LineBreak(page, kind, mode, indent) ==
    IF mode = "flat" /\ kind \notin Hards
    THEN Put(page, "flat", IF kind = "normal" THEN 1 ELSE 0)
    ELSE LET column == IF kind = "literal" THEN 0 ELSE StartColumn(indent)
         IN  [page EXCEPT
                !.out = Append(IF kind = "literal" THEN @ ELSE Trimmed(@),
                               <<"nl", column>>),
                !.pos = column]

Broke(id) == id \in keyed

\* mutant: the obligation is left out
ObligedNever(page, kind, mode) == page

\* the remeasure obligation of a hard line in flat mode
Obliged(page, kind, mode) ==
    IF kind \in Hards /\ mode = "flat" THEN [page EXCEPT !.remeasure = TRUE] ELSE page

\* a comment of several lines is one token
Whole(cmd) ==
    Put(LineBreak(Obliged(Put(Page, "first", cmd.doc.first), "hard", cmd.mode),
                  "hard", cmd.mode, cmd.indent),
        "last", cmd.doc.last)

EndsLine(cmd)       == cmd.mode = "break" \/ cmd.doc.kind \in Hards
EndsInComment(cmd)  == EdgeOf(cmd.doc, cmd.mode, TRUE, keyed) = "comment"
OpensItsLine(cmd)   == EdgeOf(cmd.doc, cmd.mode, FALSE, keyed) = "break"

-----------------------------------------------------------------------------
(* One step per command, by the kind of its document.                       *)
Cmd  == Head(commands)
Rest == Tail(commands)
Printing(kinds) == ~done /\ commands # <<>> /\ Cmd.doc.k \in kinds

Printed(page) ==
    /\ out' = page.out /\ pos' = page.pos /\ remeasure' = page.remeasure

\* go on with another document in this one's place
GoOn(cmd) ==
    /\ commands' = <<cmd>> \o Rest
    /\ UNCHANGED <<doc, width, fills, suffixes, out, pos, remeasure, keyed, done>>

RenderText ==
    /\ Printing({"text"})
    /\ Printed(Put(Page, Cmd.doc.of, Cmd.doc.w))
    /\ commands' = Rest
    /\ UNCHANGED <<doc, width, fills, suffixes, keyed, done>>

\* mutant: what is deferred waits for the first break, inside the comment
RenderMultilineFirst ==
    /\ Printing({"multiline"})
    /\ Printed(Put(Page, "first", Cmd.doc.first))
    /\ commands' = <<With(Cmd, Line("hard")),
                     With(Cmd, [k |-> "text", of |-> "last", w |-> Cmd.doc.last])>> \o Rest
    /\ UNCHANGED <<doc, width, fills, suffixes, keyed, done>>

\* render_multiline_text: one token, so nothing deferred may land inside it
RenderMultiline ==
    /\ Printing({"multiline"})
    /\ suffixes = <<>>
    /\ Printed(Whole(Cmd))
    /\ commands' = Rest
    /\ UNCHANGED <<doc, width, fills, suffixes, keyed, done>>

\* render_line_node: what is deferred has been flushed before a line that ends
RenderLine ==
    /\ Printing({"line"})
    /\ ~EndsLine(Cmd) \/ suffixes = <<>>
    /\ Printed(LineBreak(Obliged(Page, Cmd.doc.kind, Cmd.mode),
                         Cmd.doc.kind, Cmd.mode, Cmd.indent))
    /\ commands' = Rest
    /\ UNCHANGED <<doc, width, fills, suffixes, keyed, done>>

RenderIndent ==
    /\ Printing({"indent", "dedent", "align", "align_root"})
    /\ GoOn([With(Cmd, Cmd.doc.c) EXCEPT !.indent = Reindented(Cmd.doc, @)])

RenderIndentIfBreak ==
    /\ Printing({"indent_if_break"})
    /\ GoOn([With(Cmd, Cmd.doc.c) EXCEPT
                !.indent = IF Broke(Cmd.doc.id) THEN Indented(@) ELSE @])

RenderIfBreak ==
    /\ Printing({"if_break"})
    /\ LET broke == IF Cmd.doc.id = 0 THEN Cmd.mode = "break" ELSE Broke(Cmd.doc.id)
       IN  GoOn(With(Cmd, IF broke THEN Cmd.doc.brk ELSE Cmd.doc.flat))

RenderWrapped ==
    /\ Printing({"gated", "reserve"})
    /\ Cmd.doc.k = "reserve" => ~Cmd.inline /\ Cmd.doc.c.k # "fill"
    /\ GoOn(With(Cmd, Cmd.doc.c))

RenderConcat ==
    /\ Printing({"concat"})
    /\ commands' = [i \in DOMAIN Cmd.doc.kids |-> With(Cmd, Cmd.doc.kids[i])] \o Rest
    /\ UNCHANGED <<doc, width, fills, suffixes, out, pos, remeasure, keyed, done>>

RenderSuffix ==
    /\ Printing({"suffix"}) /\ ~Cmd.inline
    /\ suffixes' = Append(suffixes, With(Cmd, Cmd.doc.c))
    /\ commands' = Rest
    /\ UNCHANGED <<doc, width, fills, out, pos, remeasure, keyed, done>>

\* in a flush: a group passes through in the mode it is met in, a suffix prints
\* in place
RenderInline ==
    /\ Printing({"group", "suffix", "reserve"}) /\ Cmd.inline
    /\ GoOn(With(Cmd, Cmd.doc.c))

\* a boundary with something pending is a hard line
RenderBoundary ==
    /\ Printing({"boundary"})
    /\ commands' = (IF suffixes = <<>> THEN <<>> ELSE <<With(Cmd, Line("hard"))>>)
                   \o Rest
    /\ UNCHANGED <<doc, width, fills, suffixes, out, pos, remeasure, keyed, done>>

RenderMarker ==
    /\ Printing({"break_parent", "flush_break"})
    /\ commands' = Rest
    /\ UNCHANGED <<doc, width, fills, suffixes, out, pos, remeasure, keyed, done>>

-----------------------------------------------------------------------------
(* Flushes.  What is deferred is taken onto the stack as a run, ahead of    *)
(* the break it was waiting for, and printed in the order it was deferred.  *)
Run(cmds, behind) ==    \* behind says that a line comment has just been printed
    Command([k |-> "run", cmds |-> cmds, behind |-> behind], NoIndent, "break")
HeadSpace(at) == [k |-> "head", at |-> at]

\* a line that ends flushes what is deferred first
FlushAtLine ==
    /\ Printing({"line"}) /\ EndsLine(Cmd) /\ suffixes # <<>>
    /\ Printed(Obliged(Page, Cmd.doc.kind, Cmd.mode))
    /\ commands' = <<Run(suffixes, FALSE)>> \o commands
    /\ suffixes' = <<>>
    /\ UNCHANGED <<doc, width, fills, keyed, done>>

\* flush_suffix_ahead_of_multiline_text: the separator before the comment
\* goes, the run is printed, and the separator is put back unless the run
\* ends in a line comment, which the line must end behind
FlushAhead ==
    /\ Printing({"multiline"}) /\ suffixes # <<>>
    /\ LET bare == Trimmed(out)
           cut  == SubSeq(out, Len(bare) + 1, Len(out))
           back == IF EndsInComment(Last(suffixes)) THEN <<Line("hard")>>
                   ELSE [i \in DOMAIN cut |-> [k |-> "text", of |-> cut[i][1], w |-> cut[i][2]]]
       IN  /\ out' = bare
           /\ pos' = pos - Total([i \in DOMAIN cut |-> cut[i][2]])
           /\ commands' = <<Run(suffixes, FALSE)>>
                          \o [i \in DOMAIN back |-> With(Cmd, back[i])] \o commands
    /\ suffixes' = <<>>
    /\ UNCHANGED <<doc, width, fills, remeasure, keyed, done>>

\* what a part of a fill, or the document, still defers at its end
FlushAtEnd ==
    /\ ~done /\ commands = <<>> /\ suffixes # <<>>
    /\ fills # <<>> => Head(fills).busy
    /\ commands' = <<Run(suffixes, FALSE)>> /\ suffixes' = <<>>
    /\ UNCHANGED <<doc, width, fills, out, pos, remeasure, keyed, done>>

\* mutant: a run is printed with no separator
FlushWelded ==
    /\ Printing({"run"}) /\ Cmd.doc.cmds # <<>>
    /\ LET run == Cmd.doc.cmds
       IN  commands' = <<[Head(run) EXCEPT !.inline = TRUE], Run(Tail(run), FALSE)>> \o Rest
    /\ UNCHANGED <<doc, width, fills, suffixes, out, pos, remeasure, keyed, done>>

\* mutant: the last deferred is printed first
FlushLast ==
    /\ Printing({"run"}) /\ Cmd.doc.cmds # <<>>
    /\ LET run == Cmd.doc.cmds
       IN  commands' = <<[Last(run) EXCEPT !.inline = TRUE], Run(Front(run), FALSE)>> \o Rest
    /\ UNCHANGED <<doc, width, fills, suffixes, out, pos, remeasure, keyed, done>>

\* flush_line_suffix_run: the next of the run, on a line of its own when a line
\* comment ends the one before it
FlushNext ==
    /\ Printing({"run"}) /\ Cmd.doc.cmds # <<>>
    /\ LET cmd       == [Head(Cmd.doc.cmds) EXCEPT !.inline = TRUE]
           then      == Run(Tail(Cmd.doc.cmds), EndsInComment(cmd))
           separated == Cmd.doc.behind /\ ~OpensItsLine(cmd)
           page      == IF separated THEN LineBreak(Page, "hard", cmd.mode, cmd.indent) ELSE Page
       IN  /\ Printed(page)
           /\ commands' = (IF separated THEN <<cmd, With(cmd, HeadSpace(Len(page.out) + 1)), then>>
                           ELSE <<cmd, then>>) \o Rest
    /\ UNCHANGED <<doc, width, fills, suffixes, keyed, done>>

FlushDone ==
    /\ Printing({"run"}) /\ Cmd.doc.cmds = <<>>
    /\ commands' = Rest
    /\ UNCHANGED <<doc, width, fills, suffixes, out, pos, remeasure, keyed, done>>

\* drop_line_head_space: the separator a run's break replaced
DropHeadSpace ==
    /\ Printing({"head"})
    /\ LET at == Cmd.doc.at
       IN  IF at <= Len(out) /\ out[at] \in {<<"space", 1>>, <<"flat", 1>>}
           THEN /\ out' = RemoveAt(out, at)
                /\ pos' = IF \E i \in at..Len(out) : out[i][1] = "nl" THEN pos ELSE pos - 1
           ELSE UNCHANGED <<out, pos>>
    /\ commands' = Rest
    /\ UNCHANGED <<doc, width, fills, suffixes, remeasure, keyed, done>>

-----------------------------------------------------------------------------
(* Groups.                                                                  *)
Remaining(column) == IF column > width THEN 0 ELSE width - column

\* mutant: the look-ahead left out of the measure
FitsAlone(d) == Fitting(<<<<d, "flat">>>>, Remaining(pos), suffixes # <<>>, FALSE)

FitsFlat(d) ==
    Fitting(<<<<d, "flat">>>> \o AsTodo(Rest), Remaining(pos), suffixes # <<>>, FALSE)

\* admissible_group_state: a gated state's probe is measured on the line after
Admissible(d) ==
    d.k = "gated" =>
        LET fits == Fitting(<<<<d.probe, "flat">>>> \o AsTodo(Rest),
                         Remaining(StartColumn(Indented(Cmd.indent))), FALSE, FALSE)
        IN  CASE d.admit = "overflows" -> ~fits
              [] d.admit = "fits"      -> fits
              [] d.admit = "never"     -> FALSE

State(d) == IF d.k = "gated" THEN d.c ELSE d

\* fallback_group_state: the last state, unless it is there to be measured only
Fallback(d) ==
    IF Last(d.states).k = "gated" /\ Last(d.states).admit = "never"
    THEN IF Len(d.states) = 1 THEN d.c ELSE Last(Front(d.states))
    ELSE Last(d.states)

\* the mode and the part a group is laid out with, and whether a measure that
\* fits settles the remeasure obligation
Laid(mode, part, settles) == [mode |-> mode, part |-> part, settles |-> settles]

ChooseState(d) ==
    LET fitting == {i \in 1..Len(d.states) - 1 :
                       Admissible(d.states[i]) /\ FitsFlat(State(d.states[i]))}
    IN  IF d.brk /\ fills = <<>> THEN Laid("break", Fallback(d), FALSE)
        ELSE IF FitsFlat(d.c) THEN Laid("flat", d.c, TRUE)
        ELSE IF fitting # {}
        THEN Laid("flat", State(d.states[CHOOSE i \in fitting : \A j \in fitting : i <= j]), TRUE)
        ELSE Laid("break", Fallback(d), FALSE)

ChooseMode(d) ==
    IF d.brk \/ MustBreak(d.c) THEN Laid("break", d.c, FALSE)
    ELSE IF Cmd.mode = "flat" /\ ~remeasure THEN Laid("flat", d.c, FALSE)
    ELSE IF FitsFlat(d.c) THEN Laid("flat", d.c, TRUE)
    ELSE Laid("break", d.c, FALSE)

RenderGroup ==
    /\ Printing({"group"}) /\ ~Cmd.inline
    /\ LET d    == Cmd.doc
           laid == IF d.states # <<>> THEN ChooseState(d) ELSE ChooseMode(d)
       IN  /\ commands' = <<[With(Cmd, laid.part) EXCEPT !.mode = laid.mode]>> \o Rest
           /\ remeasure' = (remeasure /\ ~laid.settles)
           /\ keyed' = IF d.id = 0 THEN keyed
                       ELSE IF laid.mode = "break" THEN keyed \cup {d.id} ELSE keyed \ {d.id}
    /\ UNCHANGED <<doc, width, fills, suffixes, out, pos, done>>

-----------------------------------------------------------------------------
(* Fills.  Items and separators alternate and are packed greedily.  Each is *)
(* rendered by itself (render_single_doc): the groups in it see nothing     *)
(* behind it, and what it defers is printed before the next.  A fill is     *)
(* never deferred.                                                          *)
RenderFill ==
    /\ Printing({"fill", "reserve"}) /\ ~Cmd.inline
    /\ LET reserved == Cmd.doc.k = "reserve"
           context  == IF reserved THEN Cmd.doc ELSE Reserve(0, Cmd.doc)
           fill     == context.c
       IN  /\ fill.k = "fill"
           /\ fills' = <<[parts |-> fill.kids, at |-> 1, jobs |-> <<>>, busy |-> FALSE,
                          indent |-> Cmd.indent, reserve |-> context.n, flags |-> context.flags,
                          rest |-> Rest, deferred |-> suffixes]>> \o fills
    /\ commands' = <<>> /\ suffixes' = <<>>
    /\ UNCHANGED <<doc, width, out, pos, remeasure, keyed, done>>

Packing == Head(fills)
InFill  == ~done /\ commands = <<>> /\ fills # <<>>

Content   == Packing.parts[Packing.at]
Separator == Packing.parts[Packing.at + 1]
IsFinal   == Packing.at + 1 >= Len(Packing.parts)
Start     == StartColumn(Packing.indent)
FromFits(fits) == IF fits THEN "flat" ELSE "break"

Collapsible(d)   == d.k = "line" /\ d.kind \notin Hards
MultilineLeaf(d) == d.k = "multiline"

PartsFit(docs, ahead, columns) ==
    Fitting(Moded(docs, "flat") \o ahead, columns, Packing.deferred # <<>>, FALSE)

\* the columns left to this item: the last one of all leaves the reserve free
Available ==
    IF IsFinal /\ Packing.rest = <<>> THEN Remaining(pos + Packing.reserve) ELSE Remaining(pos)

\* content_fits: the last item with what follows the fill; a line in an item's
\* place with the word it stands before
ContentFits ==
    PartsFit(IF Collapsible(Content) /\ Packing.at < Len(Packing.parts)
             THEN <<Content, Separator>> ELSE <<Content>>,
             IF IsFinal THEN AsTodo(Packing.rest) ELSE <<>>, Available)

\* on_shallower_indentation: nothing on this line but an indent short of the fill's
OnShallower ==
    /\ pos < Start
    /\ Trimmed(out) # <<>> /\ Last(Trimmed(out))[1] = "nl"

Dropped ==
    IF pos = Start \/ OnShallower THEN Page
    ELSE LineBreak(Page, "hard", "break", Packing.indent)

\* is_glued_head: no break may land before it
GluedHead == "glued_lead" \in Packing.flags /\ Packing.at = 1
\* an element with the text behind it
Folded == "after_element_fold" \in Packing.flags

Poisoned(page) == [page EXCEPT !.remeasure = TRUE]

\* an arm of the decision: the page to go on from and the parts to render, each
\* with its mode; "by_fit" asks again when the part before it stands
Arm(page, modes) ==
    [page |-> page,
     jobs |-> [i \in DOMAIN modes |->
                  [doc |-> Packing.parts[Packing.at + i - 1], mode |-> modes[i]]]]

LastItem ==
    IF Collapsible(Content) THEN Arm(Page, <<FromFits(ContentFits)>>)
    ELSE Arm(IF ContentFits THEN Page ELSE Poisoned(IF GluedHead THEN Page ELSE Dropped),
             <<"flat">>)

LastItemAndSeparator ==
    LET fits == IF Packing.rest = <<>> THEN ContentFits
                ELSE PartsFit(<<Content, Separator>>, AsTodo(Packing.rest), Remaining(pos))
    IN  IF Collapsible(Content) THEN Arm(Page, <<FromFits(ContentFits), FromFits(fits)>>)
        ELSE Arm(IF ContentFits THEN Page ELSE Poisoned(Page), <<"flat", FromFits(fits)>>)

ItemAndSeparator ==
    LET midLine     == pos # Start
        fitsAtStart == PartsFit(<<Content>>, <<>>, Remaining(Start))
    IN  IF PartsFit(<<Content, Separator, Packing.parts[Packing.at + 2]>>, <<>>, Remaining(pos))
        THEN Arm(Page, <<"flat", "flat">>)
        ELSE IF ContentFits THEN Arm(Page, <<"flat", "break">>)
        ELSE IF midLine /\ Folded /\ ~fitsAtStart THEN Arm(Page, <<"break", "break">>)
        ELSE IF midLine /\ Collapsible(Content) THEN Arm(Page, <<"break", "flat">>)
        ELSE LET page == IF midLine /\ ~GluedHead THEN Dropped ELSE Page
             IN  IF MultilineLeaf(Content) \/ (midLine /\ ~GluedHead /\ fitsAtStart)
                 THEN Arm(page, <<"flat", "by_fit">>)
                 ELSE Arm(page, <<"break", IF Folded /\ ~midLine THEN "by_fit" ELSE "break">>)

\* one turn of the loop: how the next item and its separator are laid out
PackItem ==
    /\ InFill /\ ~Packing.busy /\ Packing.jobs = <<>> /\ Packing.at <= Len(Packing.parts)
    /\ LET arm == CASE Packing.at = Len(Packing.parts)     -> LastItem
                    [] Packing.at + 1 = Len(Packing.parts) -> LastItemAndSeparator
                    [] OTHER                               -> ItemAndSeparator
       IN  /\ Printed(arm.page)
           /\ fills' = [fills EXCEPT ![1].jobs = arm.jobs, ![1].at = @ + 2]
    /\ UNCHANGED <<doc, width, commands, suffixes, keyed, done>>

\* next_fits_after_space
NextFits ==
    PartsFit(<<Packing.parts[Packing.at]>>, <<>>, Remaining(pos + 1))

RenderPart ==
    /\ InFill /\ ~Packing.busy /\ Packing.jobs # <<>>
    /\ LET job == Head(Packing.jobs)
       IN  commands' = <<Command(job.doc, Packing.indent,
                                 IF job.mode = "by_fit" THEN FromFits(NextFits) ELSE job.mode)>>
    /\ fills' = [fills EXCEPT ![1].jobs = Tail(@), ![1].busy = TRUE]
    /\ UNCHANGED <<doc, width, suffixes, out, pos, remeasure, keyed, done>>

\* render_single_doc's own suffixes are flushed before it returns
PartRendered ==
    /\ InFill /\ Packing.busy /\ suffixes = <<>>
    /\ fills' = [fills EXCEPT ![1].busy = FALSE]
    /\ UNCHANGED <<doc, width, commands, suffixes, out, pos, remeasure, keyed, done>>

\* mutant: the loop stops one item early
FillShort ==
    /\ InFill /\ ~Packing.busy /\ Packing.jobs = <<>> /\ Packing.at >= Len(Packing.parts)
    /\ commands' = Packing.rest /\ suffixes' = Packing.deferred
    /\ fills' = Tail(fills)
    /\ UNCHANGED <<doc, width, out, pos, remeasure, keyed, done>>

FillDone ==
    /\ InFill /\ ~Packing.busy /\ Packing.jobs = <<>> /\ Packing.at > Len(Packing.parts)
    /\ commands' = Packing.rest /\ suffixes' = Packing.deferred
    /\ fills' = Tail(fills)
    /\ UNCHANGED <<doc, width, out, pos, remeasure, keyed, done>>

\* the end of the document: its last line is trimmed
Finish ==
    /\ ~done /\ commands = <<>> /\ fills = <<>> /\ suffixes = <<>>
    /\ out' = Trimmed(out) /\ done' = TRUE
    /\ UNCHANGED <<doc, width, fills, commands, suffixes, pos, remeasure, keyed>>

Terminated == done /\ UNCHANGED vars

Next ==
    \/ RenderText \/ RenderMultiline \/ RenderLine \/ RenderIndent
    \/ RenderIndentIfBreak \/ RenderIfBreak \/ RenderWrapped \/ RenderConcat
    \/ RenderSuffix \/ RenderInline \/ RenderBoundary \/ RenderMarker \/ RenderGroup
    \/ FlushAtLine \/ FlushAhead \/ FlushAtEnd \/ FlushNext \/ FlushDone \/ DropHeadSpace
    \/ RenderFill \/ PackItem \/ RenderPart \/ PartRendered \/ FillDone
    \/ Finish \/ Terminated

Spec == Init /\ [][Next]_vars

-----------------------------------------------------------------------------
TypeOK ==
    /\ width \in Widths /\ pos \in Nat
    /\ remeasure \in BOOLEAN /\ done \in BOOLEAN
    /\ \A fill \in Range(fills) : fill.at \in 1..Len(fill.parts) + 2
    /\ \A cmd \in Range(commands) \cup Range(suffixes) :
          /\ cmd.mode \in Modes
          /\ cmd.indent \in [tabs : Nat, aligns : Nat, spaces : Nat]
    /\ \A t \in Range(out) :
          t[1] \in {"word", "space", "comment", "block", "flat", "first", "last", "nl"} /\ t[2] \in Nat

NewLines == {i \in DOMAIN out : out[i][1] = "nl"}
LineHead == IF NewLines = {} THEN 0 ELSE CHOOSE i \in NewLines : \A j \in NewLines : j <= i
Column(i) == Total([j \in 1..i - LineHead |-> out[j + LineHead][2]])

\* The print width is a hard limit where a line can break.
\* A line is kept flat only where what follows it up to the next break fits:
\* no word overflows the print width behind a line that was kept flat within
\* it.  Deferred comments are not counted, they are free of the width; nor is
\* what a layout state holds behind a hard line of its own, which no measure
\* reaches until a group is met (should_remeasure).
WidthHonoured ==
    LET start == IF LineHead = 0 THEN 0 ELSE out[LineHead][2]
    IN  \A i, j \in LineHead + 1..Len(out) :
          (~remeasure /\ i < j /\ out[i][1] = "flat" /\ out[j][1] \in {"word", "first", "last"})
            => ~(start + Column(i - 1) <= width /\ start + Column(j) > width)

\* A line comment runs to the end of its line: nothing but blanks is printed
\* behind one, whatever deferred it and wherever it is flushed.
NothingSwallowed ==
    \A i, j \in DOMAIN out :
        (i < j /\ out[i][1] = "comment" /\ out[j][1] \notin Blanks)
            => \E n \in i + 1..j : out[n][1] = "nl"

\* A group met in flat mode is not measured, the measure that laid its
\* surroundings flat has counted it: measuring it here would only say yes.
PassThroughFits ==
    (Printing({"group"}) /\ ~Cmd.inline /\ Cmd.mode = "flat" /\ ~remeasure
       /\ Cmd.doc.states = <<>> /\ ~Cmd.doc.brk /\ ~MustBreak(Cmd.doc.c))
      => FitsFlat(Cmd.doc.c)

\* A comment of several lines is one token: neither a deferred run nor the
\* separator it drops lands between its lines.
PiecesWhole ==
    \A i \in DOMAIN out :
        /\ out[i][1] = "first" =>
              /\ i + 2 \in DOMAIN out
              /\ out[i + 1][1] = "nl" /\ out[i + 2][1] = "last"
        /\ out[i][1] = "last" => i - 2 \in DOMAIN out /\ out[i - 2][1] = "first"

\* Every word of one of the document's spellings is printed, once and in order:
\* neither a choice of layout, nor the packing of a fill, nor a deferred run or
\* the break it is flushed at drops, repeats or moves one.
WordsKept ==
    LET words == {i \in DOMAIN out : out[i][1] = "word"}
    IN  done => \E s \in WordsOf(doc, "break") :
                   /\ Len(s) = Cardinality(words)
                   /\ \A i \in words :
                         out[i][2] = s[Cardinality({j \in words : j <= i})]

\* What the printers built comes out: no layout, fill or flush loses, repeats,
\* moves or tears text.
TextKept == WordsKept /\ PiecesWhole
=============================================================================
