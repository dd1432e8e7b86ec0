---------------------------- MODULE MCTokenWindow ----------------------------
(* Texts that hold the speculations in one another, the splits, the comments *)
(* around them, and more `<` than the parser tracks regions.                *)
EXTENDS TokenWindow

\* f<T, U><V>(x), its arguments led by comments
Followed == <<"a", "<", "cast", "a", ",", "multiline", "a", ">", "<", "a", ">", "(", "a", ")">>
\* a list in a list's computed key, both with a follower only tsc refuses
Nested == <<"a", "<", "[", "a", "<", "cast", "a", ">", "<", "a", "]", ",", "a", ">", "<", "a">>
\* a conditional's consequent that may be an annotated arrow, its annotation closed by `>=`
Consequent == <<"a", "<", "a", "?", "cast", "(", "a", ")", ":", "a", "<", "a", "<", "a", ">", ">", "=", ">",
                "multiline", "{", "a", "<", "a", ";", "a", "}", ":", "a">>
\* an annotation whose closer opens a line, glued to the arrow
Glued == <<"(", "a", ")", ":", "a", "<", "a", "nl", ">", "=", ">", "a">>
\* a body inside a doubted list's computed key, behind a `<`
Bodied == <<"a", "<", "[", "a", "<", "{", "a", "<", "a", ";", "cast", "a", "}", "]", ",", "a", ">", "<", "a">>
\* lists closed by `>>`, `>>=` and across a line
Shifts == <<"a", "<", "a", "<", "<", "a", "<", "a", ">", ">", ">", "line", "nl", "a", ">", ">", "=", "cast", "a", "bad">>
\* four `<` at several depths, inside groupings that may be stripped
Regioned == <<"a", "<", "(", "a", "<", "<", "a", "[", "a", "<", "a", "]", ")", "<", "a",
              ">", ">", ">", "a">>
\* regular expressions, divisions, and a text that ends in a lexer error
Slashes == <<"multiline", "a", "=", "/", "<", "/", "nl", "line", "nl", "<", "a", "/", "a", ",", "cast", "bad">>

\* a doubted list in the annotation of an arrow that is not one: it is read in the arrow's
\* context, and again in the one around
Recontexted == <<"(", "a", ")", ":", "[", "a", "<", "a", ">", "<", "a", "]", "=", ">", "a">>

\* every short text that begins a list, of tokens one space could not join
Tight == {"a", ",", "<", ">", "=", "cast", "nl"}
Short ==
    {t \in {<<"a", "<">> \o s : s \in [1..5 -> Tight]} :
        \A i \in 1..6 : ~(t[i] = "a" /\ t[i + 1] = "a")}

MCTexts == {Followed, Nested, Consequent, Glued, Bodied, Shifts, Regioned, Slashes, Recontexted} \cup Short

\* the top level of a module
Module == [await |-> TRUE, yield |-> FALSE, strict |-> TRUE]
=============================================================================
