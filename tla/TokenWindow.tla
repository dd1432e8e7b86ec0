----------------------------- MODULE TokenWindow -----------------------------
(***************************************************************************)
(* The TypeScript parser as a machine over its text: a window of two       *)
(* tokens (the current one and a cached peek), the ledger of comments the  *)
(* window has drained, the grouping depth with its `<` regions, and the    *)
(* speculative parses that run from a checkpoint and are rewound: an       *)
(* arrow head that may be a conditional's grouped consequent, a            *)
(* type-argument list that may be two comparisons, and the comparison      *)
(* tried at a list whose follower only tsc refuses.                        *)
(*                                                                         *)
(* A text is a sequence of atoms, a position an index into it.  The        *)
(* grammar is abstracted to what it may do next: at each token the parse   *)
(* reads on, opens or closes a construct the token allows, looks ahead, or *)
(* (inside a speculation) fails.                                           *)
(***************************************************************************)
EXTENDS LtRegions

CONSTANTS
    Texts,      \* the texts to parse
    Outermost,  \* the context of a text's top level, by its goal
    Nesting     \* bound: constructs open at once

Block == {"cast", "multiline"}      \* a block comment, one with a newline in it
CommentAtoms == Block \cup {"line"}
Breaks == {"nl", "multiline"}
Blank == CommentAtoms \cup {"nl"}

\* A name or another leaf, punctuation, white space, and what no token begins with.
Atoms ==
    {"a", "<", ">", "=", "(", ")", "[", "]", "{", "}", ",", ":", ";", "?", "+", "/", "bad"} \cup Blank

\* The flags an expression inherits, but for ambience, which no construct here changes.
Contexts == [await : BOOLEAN, yield : BOOLEAN, strict : BOOLEAN]

ASSUME TextsAssumption == Texts \subseteq Seq(Atoms)
ASSUME OutermostAssumption == Outermost \in Contexts

VARIABLES
    text,
    window,     \* the tokens, the line terminator flags and the lexer's cursor
    comments,   \* the ledger: where each comment stands, and whether a node owns it
    depth,      \* grouping_depth
    regions,    \* lt_regions; `all` is the history the parser does not keep
    base,       \* lt_regions_statement_base
    frames,     \* what is open, outermost first
    verdicts,   \* type-argument lists abandoned, and kept, each `<` with its context
    claims,     \* history: comments claimed by the readings that stand
    compared    \* history: what was put to the comparison, once and again

vars == <<text, window, comments, depth, regions, base, frames, verdicts, claims, compared>>

-----------------------------------------------------------------------------
(* The lexer. *)

Operators ==
    {<<"<">>, <<"<", "<">>, <<"<", "=">>, <<"<", "<", "=">>,
     <<">">>, <<">", ">">>, <<">", ">", ">">>,
     <<">", "=">>, <<">", ">", "=">>, <<">", ">", ">", "=">>,
     <<"=">>, <<"=", "=">>, <<"=", "=", "=">>, <<"=", ">">>}

NoToken == [kind |-> <<"none">>, start |-> 0, end |-> 0]
Past == Len(text) + 1

Spelled(op, p) == p + Len(op) <= Past /\ SubSeq(text, p, p + Len(op) - 1) = op
BreakIn(p, q) == \E i \in p..(q - 1) : text[i] \in Breaks

\* The longest operator spelled at p, or the one atom there.
TokenAt(p) ==
    IF p = Past THEN [kind |-> <<>>, start |-> p, end |-> p]
    ELSE LET ops == {op \in Operators : Spelled(op, p)}
             longest == CHOOSE op \in ops : \A o \in ops : Len(o) <= Len(op)
             kind == IF ops = {} THEN <<text[p]>> ELSE longest
         IN [kind |-> kind, start |-> p, end |-> p + Len(kind)]

\* The members of a set of places, first to last.
Listed(S) ==
    [i \in 1..Cardinality(S) |-> CHOOSE p \in S : Cardinality({q \in S : q < p}) = i - 1]
CommentsIn(p, q) == Listed({i \in p..(q - 1) : text[i] \in CommentAtoms})

\* The comments between two places, in the ledger's form.
Drained(p, q) ==
    [i \in DOMAIN CommentsIn(p, q) |-> [at |-> CommentsIn(p, q)[i], owned |-> FALSE]]

\* The next code token at or after p, with the comments drained on the way.
Fetch(p) ==
    LET q == CHOOSE q \in p..Past :
                 /\ q = Past \/ text[q] \notin Blank
                 /\ \A i \in p..(q - 1) : text[i] \in Blank
        bad == q < Past /\ text[q] = "bad"
    IN [token |-> TokenAt(q), bad |-> bad, broken |-> BreakIn(p, q),
        cursor |-> IF bad THEN q ELSE TokenAt(q).end,
        drained |-> Drained(p, q)]

-----------------------------------------------------------------------------
(* The window.  A step of it is a record of the window and ledger after it, *)
(* and whether it succeeded.                                                *)

Kind == window.current.kind
At == window.current.start

\* advance: a stored lexer error first, then the cached peek, then the lexer.
Advanced(w, ledger) ==
    LET f == Fetch(w.cursor) IN
    IF w.error THEN [ok |-> FALSE, window |-> [w EXCEPT !.error = FALSE], comments |-> ledger]
    ELSE IF w.peek # NoToken
         THEN [ok |-> TRUE, comments |-> ledger,
               window |-> [w EXCEPT !.prevEnd = w.current.end, !.current = w.peek,
                                    !.peek = NoToken, !.broken = w.peekBroken]]
         ELSE [ok |-> ~f.bad, comments |-> ledger \o f.drained,
               window |-> [w EXCEPT !.prevEnd = w.current.end, !.current = f.token,
                                    !.broken = f.broken, !.cursor = f.cursor]]

\* peek_kind: the drained comments are in the ledger at once, an error is kept for advance.
\* No caller peeks at a `/`, which may have to be read again as a regular expression.
Peek ==
    /\ window.peek = NoToken
    /\ ~window.error
    /\ Kind # <<"/">>
    /\ LET f == Fetch(window.cursor) IN
           /\ window' = [window EXCEPT !.peek = IF f.bad THEN NoToken ELSE f.token,
                                       !.error = f.bad,
                                       !.peekBroken = f.broken,
                                       !.cursor = f.cursor]
           /\ comments' = comments \o f.drained
    /\ UNCHANGED <<text, depth, regions, base, frames, verdicts, claims, compared>>

Narrowed(w, ledger) ==
    [ok |-> TRUE, comments |-> ledger,
     window |-> [w EXCEPT !.current = [kind |-> Tail(w.current.kind),
                                       start |-> w.current.start + 1, end |-> w.current.end],
                          !.prevEnd = w.current.start + 1]]

\* The last comments of the ledger are dropped while they stand at or after a place.
DroppedFrom(ledger, from) ==
    SubSeq(ledger, 1,
        CHOOSE n \in 0..Len(ledger) :
            /\ n > 0 => ledger[n].at < from
            /\ \A later \in (n + 1)..Len(ledger) : ledger[later].at >= from)

\* mutant: the peek is kept, as the `>>` arm may.
RelexedKeepingPeek(w, ledger) ==
    LET from == w.current.start + 1 IN
    [ok |-> TRUE,
     comments |-> DroppedFrom(ledger, from),
     window |-> [w EXCEPT !.current = TokenAt(from), !.prevEnd = from,
                          !.cursor = TokenAt(from).end]]
\* A comparison or assignment operator that begins with `>`: the rest is lexed again.
Relexed(w, ledger) ==
    LET from == w.current.start + 1 IN
    [ok |-> TRUE,
     comments |-> DroppedFrom(ledger, from),
     window |-> [w EXCEPT !.current = TokenAt(from), !.prevEnd = from,
                          !.peek = NoToken, !.cursor = TokenAt(from).end]]

\* expect_greater_than_in_type and expect_less_than_in_type
GreaterSplit(w, ledger) ==
    CASE w.current.kind = <<">">> -> Advanced(w, ledger)
      [] w.current.kind \in {<<">", ">">>, <<">", ">", ">">>} -> Narrowed(w, ledger)
      [] OTHER -> Relexed(w, ledger)
LessSplit(w, ledger) ==
    IF w.current.kind = <<"<">> THEN Advanced(w, ledger) ELSE Narrowed(w, ledger)

LeadsGreater == Kind # <<>> /\ Head(Kind) = ">"
OpensLess == Kind \in {<<"<">>, <<"<", "<">>}

Take(step) == step.ok /\ window' = step.window /\ comments' = step.comments

-----------------------------------------------------------------------------
(* Checkpoints, and what is open. *)

\* with_fn_context: an arrow's own scope neither awaits nor yields.
ArrowContext(context) == [context EXCEPT !.await = FALSE, !.yield = FALSE]

\* The flags the parse reads under: those of the innermost scope that is open.
Context ==
    LET scopes == {i \in DOMAIN frames : frames[i].is \in {"arrowHead", "arrowBody", "body"}}
    IN IF scopes = {} THEN Outermost
       ELSE frames[CHOOSE i \in scopes : \A j \in scopes : j <= i].context

\* With the flags of its place, which the parse holds again once it is back there: each
\* combinator restores its own on the way out, by an error too.
Checkpoint ==
    [window |-> window, comments |-> Len(comments), depth |-> depth,
     regions |-> regions, claims |-> claims, context |-> Context]

\* What a verdict is remembered under: the `<`, and type_arguments_context_key.
KeyOf(cp) == <<cp.window.current.start, cp.context>>

\* A list is tried at the `<` its checkpoint stands on; it may be abandoned once it has
\* read a separator.  A comparison remembers the comments it must leave unclaimed.
ListTried(cp, separated) == [is |-> "list", cp |-> cp, separated |-> separated]
Comparison(cp, closeEnd, unclaimed) ==
    [is |-> "comparison", cp |-> cp, closeEnd |-> closeEnd, unclaimed |-> unclaimed]
Arrow(cp, is) == [is |-> is, cp |-> cp, context |-> ArrowContext(cp.context)]
Body(context) == [is |-> "body", regions |-> regions, base |-> base, context |-> context]
Grouping(is, cast) ==
    [is |-> is, cast |-> cast, castAt |-> {comments[i].at : i \in cast}]

Program == [is |-> "program"]
Top == IF frames = <<>> THEN Program ELSE frames[Len(frames)]
Outer == SubSeq(frames, 1, Len(frames) - 1)
Within(kinds) == Top.is \in kinds
Pushed(frame) == Append(frames, frame)
Room == Len(frames) < Nesting

Groupings == {"paren", "delimiter", "parameters"}
Statements == {"program", "body"}
Expressions == Statements \cup {"paren", "delimiter", "comparison", "arrowBody"}
Types == {"list", "typeArguments", "parameters", "arrowHead"}

RegionsClosedAbove(d) ==
    [r \in DOMAIN regions |-> CloseAbove(regions[r], d)]
RegionsReanchoredAbove(d) ==
    [r \in DOMAIN regions |-> ReanchorAbove(regions[r], d)]
NoRegions == [tracked |-> <<>>, all |-> <<>>]

Init ==
    /\ text \in Texts
    /\ LET f == Fetch(1) IN
           /\ ~f.bad
           /\ window = [current |-> f.token, peek |-> NoToken, prevEnd |-> 1, broken |-> FALSE,
                        peekBroken |-> FALSE, error |-> FALSE, cursor |-> f.cursor]
           /\ comments = f.drained
    /\ depth = 0
    /\ regions = NoRegions
    /\ base = NoRegions
    /\ frames = <<>>
    /\ verdicts = [abandoned |-> {}, kept |-> {}]
    /\ claims = {}
    /\ compared = [once |-> {}, again |-> {}]

-----------------------------------------------------------------------------
(* Reading on. *)

Plain ==
    IF Within(Types)
    THEN {<<"a">>, <<":">>, <<"=">>} \cup (IF Top.is = "list" THEN {} ELSE {<<",">>})
    ELSE {<<":">>, <<",">>, <<"?">>, <<"+">>, <<"/">>} \cup
         {op \in Operators : op \notin {<<"<">>, <<"<", "<">>, <<"=", ">">>}}

Read ==
    /\ Kind \in Plain
    /\ Take(Advanced(window, comments))
    /\ UNCHANGED <<text, depth, regions, base, frames, verdicts, claims, compared>>

\* A leaf of an expression owns the block comment glued to it (bind_leading_comment).
Leaf ==
    /\ Within(Expressions)
    /\ Kind = <<"a">>
    /\ LET step == Advanced(window, comments)
           glued == {i \in DOMAIN comments :
                        comments[i].at = At - 1 /\ text[At - 1] \in Block}
       IN /\ step.ok
          /\ window' = step.window
          /\ comments' = [i \in DOMAIN step.comments |->
                              IF i \in glued THEN [step.comments[i] EXCEPT !.owned = TRUE]
                              ELSE step.comments[i]]
          /\ claims' = claims \cup {comments[i].at : i \in glued}
    /\ UNCHANGED <<text, depth, regions, base, frames, verdicts, compared>>

\* The `/` is read again as a regular expression, which ends at the next one on its line.  The
\* `/` of a comment would end it inside the comment; no atom stands for what that leaves.
RelexRegex ==
    /\ Within(Expressions)
    /\ Kind = <<"/">>
    /\ \E close \in (At + 2)..Len(text) :
          /\ text[close] = "/"
          /\ \A i \in (At + 1)..(close - 1) : text[i] \notin Blank \cup {"/"}
          /\ LET f == Fetch(close + 1) IN
                 /\ ~f.bad
                 /\ window' = [window EXCEPT !.current = f.token, !.prevEnd = close + 1,
                                             !.broken = f.broken, !.cursor = f.cursor]
                 /\ comments' = comments \o f.drained
    /\ UNCHANGED <<text, depth, regions, base, frames, verdicts, claims, compared>>

\* A binary `<` opens one region, a `<<` two; the parser has no room for a fourth.
Compare ==
    /\ Within(Expressions)
    /\ OpensLess
    /\ Take(Advanced(window, comments))
    /\ LET region == [floor |-> depth, lt |-> At]
           once(r) == [tracked |-> Opened(r.tracked, region), all |-> Append(r.all, region)]
       IN regions' = IF Len(Kind) = 1 THEN once(regions) ELSE once(once(regions))
    /\ UNCHANGED <<text, depth, base, frames, verdicts, claims, compared>>

\* The next statement of a body starts from the regions the body inherited.
EndStatement ==
    /\ Within(Statements)
    /\ Kind = <<";">>
    /\ Take(Advanced(window, comments))
    /\ regions' = base
    /\ UNCHANGED <<text, depth, base, frames, verdicts, claims, compared>>

\* A function's body, or a class's: its header, of which the text holds nothing, says
\* whether it awaits or yields, and its directives may turn strictness on.
EnterBody ==
    /\ Room /\ Within(Expressions)
    /\ Kind = <<"{">>
    /\ Take(Advanced(window, comments))
    /\ \E context \in Contexts :
          /\ Context.strict => context.strict
          /\ frames' = Pushed(Body(context))
    /\ base' = regions
    /\ UNCHANGED <<text, depth, regions, verdicts, claims, compared>>

ExitBody ==
    /\ Within({"body"})
    /\ Kind = <<"}">>
    /\ Take(Advanced(window, comments))
    /\ frames' = Outer
    /\ base' = Top.base
    /\ regions' = Top.regions
    /\ UNCHANGED <<text, depth, verdicts, claims, compared>>

\* The comment of a cast, on any line above its `(`, as an index into the ledger.
CastComment ==
    {i \in DOMAIN comments :
        /\ text[comments[i].at] = "cast"
        /\ comments[i].at < At
        /\ \A p \in (comments[i].at + 1)..(At - 1) : text[p] = "nl"}

\* A grouping paren or a call's, an index or (in a type) a computed key.
OpenGrouping ==
    /\ Room
    /\ Take(Advanced(window, comments))
    /\ depth' = depth + 1
    /\ \/ /\ Kind = <<"(">> /\ Within(Expressions)
          /\ frames' = Pushed(Grouping("paren", CastComment))
       \/ /\ Kind = <<"(">> /\ Within(Expressions)
          /\ frames' = Pushed(Grouping("delimiter", {}))
       \/ /\ Kind = <<"[">>
          /\ frames' = Pushed(Grouping("delimiter", {}))
    /\ UNCHANGED <<text, regions, base, verdicts, claims, compared>>

\* The closer ends the regions opened inside; those in a paren the printer may strip move out.
CloseGrouping ==
    /\ Within({"delimiter", "parameters"})
    /\ Kind \in {<<")">>, <<"]">>}
    /\ Take(Advanced(window, comments))
    /\ depth' = depth - 1
    /\ frames' = Outer
    /\ regions' = RegionsClosedAbove(depth - 1)
    /\ UNCHANGED <<text, base, verdicts, claims, compared>>

CloseParen ==
    /\ Within({"paren"})
    /\ Kind = <<")">>
    /\ LET step == Advanced(window, comments) IN
           /\ step.ok
           /\ window' = step.window
           /\ comments' = [i \in DOMAIN step.comments |->
                               IF i \in Top.cast THEN [step.comments[i] EXCEPT !.owned = TRUE]
                               ELSE step.comments[i]]
    /\ claims' = claims \cup Top.castAt
    /\ depth' = depth - 1
    /\ frames' = Outer
    /\ regions' = RegionsReanchoredAbove(depth - 1)
    /\ UNCHANGED <<text, base, verdicts, compared>>

-----------------------------------------------------------------------------
(* Type arguments a type takes: no speculation. *)

OpenTypeArguments ==
    /\ Room /\ Within(Types)
    /\ OpensLess
    /\ Take(LessSplit(window, comments))
    /\ frames' = Pushed(Grouping("typeArguments", {}))
    /\ UNCHANGED <<text, depth, regions, base, verdicts, claims, compared>>

CloseTypeArguments ==
    /\ Within({"typeArguments"})
    /\ LeadsGreater
    /\ Take(GreaterSplit(window, comments))
    /\ frames' = Outer
    /\ UNCHANGED <<text, depth, regions, base, verdicts, claims, compared>>

-----------------------------------------------------------------------------
(* Speculation. *)

\* mutant: an error skips the combinator that restores the base.
RewindKeepingBase(cp, step, outer) ==
    /\ window' = step.window
    /\ comments' = step.comments
    /\ depth' = cp.depth
    /\ regions' = cp.regions
    /\ claims' = cp.claims
    /\ base' = base
\* Back to a checkpoint taken under `outer`, and one step on when the parse reads on from it;
\* bodies the abandoned parse was in put back, each on its way out, what a statement starts from.
Rewind(cp, step, outer) ==
    LET left == {i \in DOMAIN frames : i > Len(outer) /\ frames[i].is = "body"} IN
    /\ window' = step.window
    /\ comments' = step.comments
    /\ depth' = cp.depth
    /\ regions' = cp.regions
    /\ claims' = cp.claims
    /\ base' = IF left = {} THEN base
               ELSE frames[CHOOSE i \in left : \A j \in left : i <= j].base
\* mutant: the ledger keeps what the abandoned parse drained.
RewoundWithLedger(cp) == [window |-> cp.window, comments |-> comments]
Rewound(cp) == [window |-> cp.window, comments |-> SubSeq(comments, 1, cp.comments)]

\* An annotated arrow head in a conditional's consequent (parse_annotated_arrow_in_consequent):
\* it opens with a parameter, never with a second paren.
TryArrow ==
    /\ Len(frames) + 2 <= Nesting
    /\ Within(Expressions)
    /\ Kind = <<"(">>
    /\ LET step == Advanced(window, comments) IN
           /\ Take(step)
           /\ step.window.current.kind = <<"a">>
    /\ depth' = depth + 1
    /\ frames' = frames \o <<Arrow(Checkpoint, "arrowHead"), Grouping("parameters", {})>>
    /\ UNCHANGED <<text, regions, base, verdicts, claims, compared>>

\* expect_arrow refuses a `=>` on a line of its own.
ExpectArrow ==
    /\ Within({"arrowHead"})
    /\ Kind = <<"=", ">">>
    /\ ~window.broken
    /\ Take(Advanced(window, comments))
    /\ frames' = Append(Outer, Arrow(Top.cp, "arrowBody"))
    /\ UNCHANGED <<text, depth, regions, base, verdicts, claims, compared>>

\* The arrow is kept when a `:` follows it; else its annotation was the conditional's.
EndArrow ==
    /\ Within({"arrowBody"})
    /\ frames' = Outer
    /\ IF Kind = <<":">>
       THEN UNCHANGED <<window, comments, depth, regions, base, claims>>
       ELSE Rewind(Top.cp, Rewound(Top.cp), Outer)
    /\ UNCHANGED <<text, verdicts, compared>>

\* Both are asked under the flags of the moment: a verdict of another context answers neither.
AbandonedAt(lt) == <<lt, Context>> \in verdicts.abandoned
\* mutant: the verdict is looked up where the other one is kept.
KeptAtAbandoned(lt) == AbandonedAt(lt)
KeptAt(lt) == <<lt, Context>> \in verdicts.kept

\* parse_type_arguments_or_rewind, as far as the `<`.
TryList ==
    /\ Room /\ Within(Expressions)
    /\ OpensLess
    /\ ~AbandonedAt(At)
    /\ Top.is = "comparison" => Top.cp.window.current.start # At
    /\ Take(LessSplit(window, comments))
    /\ frames' = Pushed(ListTried(Checkpoint, FALSE))
    /\ UNCHANGED <<text, depth, regions, base, verdicts, claims, compared>>

Separator ==
    /\ Within({"list"})
    /\ Kind = <<",">>
    /\ Take(Advanced(window, comments))
    /\ frames' = Append(Outer, ListTried(Top.cp, TRUE))
    /\ UNCHANGED <<text, depth, regions, base, verdicts, claims, compared>>

\* type_args_follower_refused_by_tsc_alone
RefusedByTscAlone(closeEnd, after) ==
    /\ after < Past
    /\ after + 1 < Past => text[after + 1] \notin {text[after], "="}
    /\ \/ text[after] = "<"
       \/ text[after] = "+" /\ BreakIn(closeEnd, after)

\* mutant: a comparison's claims are left to the rewind, which only truncates.
UnclaimedNone(lt, ledger) == {i \in DOMAIN ledger : i > Len(ledger)}
\* The comments drained ahead of a checkpoint that a reading from it may still claim.
Unclaimed(lt, ledger) == {i \in DOMAIN ledger : ledger[i].at >= lt /\ ~ledger[i].owned}

\* The list is whole: it stands, unless its follower asks for tsc's comparison, which is then
\* read from the same `<`.
CloseList ==
    /\ Within({"list"})
    /\ LeadsGreater
    /\ LET close == GreaterSplit(window, comments)
           cp == Top.cp
           lt == cp.window.current.start
           doubted == RefusedByTscAlone(close.window.prevEnd, close.window.current.start)
       IN /\ close.ok
          /\ IF ~doubted \/ KeptAt(lt)
             THEN /\ Take(close)
                  /\ frames' = Outer
                  /\ UNCHANGED <<depth, regions, base, claims, compared>>
             ELSE /\ Rewind(cp, Rewound(cp), Outer)
                  /\ frames' = Append(Outer, Comparison(cp, close.window.prevEnd,
                                                        Unclaimed(lt, Rewound(cp).comments)))
                  /\ compared' = [once |-> compared.once \cup {KeyOf(cp)},
                                   again |-> compared.again \cup ({KeyOf(cp)} \cap compared.once)]
    /\ UNCHANGED <<text, verdicts>>

\* The end of the comparison that frame i tried: the parse is put back at the `<` whatever
\* the answer, and a list it does not replace is read again.
Settle(i, reads) ==
    LET cp == frames[i].cp
        outer == SubSeq(frames, 1, i - 1)
        ledger == [j \in 1..cp.comments |->
                      IF j \in frames[i].unclaimed THEN [comments[j] EXCEPT !.owned = FALSE]
                      ELSE comments[j]]
        settled == reads /\ window.prevEnd >= frames[i].closeEnd
    IN IF settled
       THEN /\ Rewind(cp, [window |-> cp.window, comments |-> ledger], outer)
            /\ verdicts' = [verdicts EXCEPT !.abandoned = @ \cup {KeyOf(cp)}]
            /\ frames' = outer
       ELSE /\ Rewind(cp, LessSplit(cp.window, ledger), outer)
            /\ verdicts' = [verdicts EXCEPT !.kept = @ \cup {KeyOf(cp)}]
            /\ frames' = Append(outer, ListTried(cp, FALSE))

EndComparison ==
    /\ Within({"comparison"})
    /\ Settle(Len(frames), TRUE)
    /\ UNCHANGED <<text, compared>>

\* An error passes up to a speculation that takes it: a comparison takes every one, a list
\* those past its first separator, and a list or an arrow may hand it on (a goal gate, the
\* depth limit, a list the printed form could complete).
Throw ==
    \E i \in DOMAIN frames :
        LET outer == SubSeq(frames, 1, i - 1)
            cp == frames[i].cp
        IN /\ \A j \in (i + 1)..Len(frames) : frames[j].is # "comparison"
           /\ \/ /\ frames[i].is = "comparison"
                 /\ Settle(i, FALSE)
              \/ /\ frames[i].is = "list" /\ frames[i].separated
                 /\ Rewind(cp, Rewound(cp), outer)
                 /\ frames' = outer
                 /\ verdicts' = [verdicts EXCEPT !.abandoned = @ \cup {KeyOf(cp)}]
              \/ /\ frames[i].is \in {"arrowHead", "arrowBody"}
                 /\ Rewind(cp, Rewound(cp), outer)
                 /\ frames' = outer
                 /\ UNCHANGED verdicts
           /\ UNCHANGED <<text, compared>>

Next ==
    \/ Peek \/ Read \/ Leaf \/ RelexRegex \/ Compare
    \/ EndStatement \/ EnterBody \/ ExitBody
    \/ OpenGrouping \/ CloseGrouping \/ CloseParen
    \/ OpenTypeArguments \/ CloseTypeArguments
    \/ TryArrow \/ ExpectArrow \/ EndArrow
    \/ TryList \/ Separator \/ CloseList \/ EndComparison
    \/ Throw

Spec == Init /\ [][Next]_vars

-----------------------------------------------------------------------------
(* Properties. *)

\* Whatever was peeked, split, lexed again or rewound, the window is the text's: the current
\* token is what is spelled there, nothing but comments and white space lies
\* between it and the token before, and the peek (or the error kept in its place) is what
\* follows it, with the lexer standing right behind.
WindowIsSource ==
    LET next == Fetch(window.current.end) IN
    /\ Kind = SubSeq(text, At, window.current.end - 1)
    /\ \A p \in window.prevEnd..(At - 1) : text[p] \in Blank
    /\ window.prevEnd \in 2..(At - 1) => window.broken = BreakIn(window.prevEnd, At)
    /\ CASE window.peek # NoToken ->
               /\ window.peek = next.token
               /\ window.peekBroken = next.broken
               /\ window.cursor = next.cursor
         [] window.error -> next.bad
         [] OTHER -> window.cursor = window.current.end

\* The ledger holds every comment the lexer has passed, each once and in order, however often
\* its text was lexed: comments are drained by peeks and steps, dropped by a rewind or before
\* a second lexing, and drained again.
LedgerIsSource == [i \in DOMAIN comments |-> comments[i].at] = CommentsIn(1, window.cursor)

\* A comment is owned exactly when a reading that stands has claimed it: an abandoned reading
\* leaves no claim (the comment would be printed by no node), and a rewind takes none away.
ClaimsStand == {comments[i].at : i \in {j \in DOMAIN comments : comments[j].owned}} = claims

\* The counters a rewind puts back agree with what is open: the depth is the number of open
\* groupings, and a statement would start from the regions its innermost body inherited.
ContextIsNesting ==
    LET bodies == {i \in DOMAIN frames : frames[i].is = "body"} IN
    /\ depth = Cardinality({i \in DOMAIN frames : frames[i].is \in Groupings})
    /\ base = IF bodies = {} THEN NoRegions
              ELSE frames[CHOOSE i \in bodies : \A j \in bodies : j <= i].regions

\* Tracking the first three regions loses nothing: for every operand that ends at the current
\* token and every token that closes one, two or three lists, the answer is that of the
\* regions without a bound.
CapLosesNothing ==
    \A operandStart \in 1..At, lists \in 1..Cap :
        (OpenBefore(regions.tracked, operandStart) >= lists) =
        (OpenBefore(regions.all, operandStart) >= lists)

\* The comparison is read at most once for each `<` and context: its verdict outlives the
\* rewinds of the readings around it, or nested lists would double the work at each level.  A
\* reading in another context (an arrow's head read again as a grouping) asks anew, and
\* remembers an answer of its own.
ComparedOnce == compared.again = {}

\* An arrow's `=>` is refused only where a line terminator does stand between it and the token
\* before it, which is what the flag is documented to say.
ArrowRefusedForBreak ==
    Within({"arrowHead"}) /\ Kind = <<"=", ">">> /\ window.broken => BreakIn(window.prevEnd, At)
=============================================================================
