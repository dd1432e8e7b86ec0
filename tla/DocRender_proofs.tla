-------------------------- MODULE DocRender_proofs --------------------------
(***************************************************************************)
(* What the renderer prints, for every document and every print width,     *)
(* whatever the width test answers: each word of one of the document's     *)
(* spellings, once and in order, and comments of several lines in one      *)
(* piece.                                                                   *)
(*                                                                         *)
(* What is left to print lies on a stack of commands, under it the fills   *)
(* being packed, each with the commands it was met in front of.  A command *)
(* has spellings; Readings is the row of those of the stack, Packed says   *)
(* what may be printed before each fill still has to add its own.  The     *)
(* invariant is that what is printed can be completed, by a choice of      *)
(* spellings of all that is left, to one of the document's (Kept).  At the *)
(* end nothing is left to add.                                             *)
(***************************************************************************)
EXTENDS DocRender, FiniteSetTheorems, SequenceTheorems, TLAPS

TokenKinds == {"word", "space", "comment", "block", "flat", "first", "last", "nl"}
Tokens     == TokenKinds \X Nat

---------------------------------------------------------------------------
(* The output *)

\* y is what the words of the tokens spell: g is where the words stand
StandAt(tokens, y, g) ==
    /\ g \in [1..Len(y) -> 1..Len(tokens)]
    /\ \A m, n \in 1..Len(y) : m < n => g[m] < g[n]
    /\ \A n \in 1..Len(y) : tokens[g[n]] = <<"word", y[n]>>
    /\ \A i \in 1..Len(tokens) : tokens[i][1] = "word" => \E n \in 1..Len(y) : g[n] = i
Spelt(tokens, y) == y \in Seq(Nat) /\ \E g : StandAt(tokens, y, g)

\* the pieces of a comment stand together
Whole3(tokens) ==
    \A i \in 1..Len(tokens) :
        /\ tokens[i][1] = "first" =>
              /\ i + 2 \in 1..Len(tokens)
              /\ tokens[i + 1][1] = "nl" /\ tokens[i + 2][1] = "last"
        /\ tokens[i][1] = "last" => i - 2 \in 1..Len(tokens) /\ tokens[i - 2][1] = "first"

LEMMA NothingSpelt == Spelt(<<>>, <<>>) /\ Whole3(<<>>)
<1>1. StandAt(<<>>, <<>>, <<>>)
  BY DEF StandAt
<1> QED BY <1>1 DEF Spelt, Whole3

LEMMA PutKeeps ==
    ASSUME NEW s \in Seq(Tokens), NEW what \in TokenKinds \ {"word"}, NEW w \in Nat
    PROVE  /\ Append(s, <<what, w>>) \in Seq(Tokens)
           /\ \A y : Spelt(s, y) => Spelt(Append(s, <<what, w>>), y)
           /\ what \notin {"first", "last"} /\ Whole3(s) => Whole3(Append(s, <<what, w>>))
<1> DEFINE t == Append(s, <<what, w>>)
<1>1. <<what, w>> \in Tokens BY DEF Tokens
<1>2. t \in Seq(Tokens) /\ Len(t) = Len(s) + 1 /\ t[Len(s) + 1] = <<what, w>>
      /\ \A i \in 1..Len(s) : t[i] = s[i]
  BY <1>1
<1>3. Len(s) \in Nat OBVIOUS
<1> HIDE DEF t
<1>4. ASSUME NEW y, Spelt(s, y) PROVE Spelt(t, y)
  <2>1. PICK g : StandAt(s, y, g) BY <1>4 DEF Spelt
  <2>2. StandAt(t, y, g)
    <3>1. g \in [1..Len(y) -> 1..Len(t)] BY <1>2, <1>3, <2>1 DEF StandAt
    <3>2. \A n \in 1..Len(y) : t[g[n]] = <<"word", y[n]>> BY <1>2, <2>1 DEF StandAt
    <3>3. ASSUME NEW i \in 1..Len(t), t[i][1] = "word" PROVE \E n \in 1..Len(y) : g[n] = i
      <4>1. i # Len(s) + 1 BY <1>2, <3>3
      <4>2. i \in 1..Len(s) BY <1>2, <1>3, <4>1
      <4> QED BY <1>2, <2>1, <3>3, <4>2 DEF StandAt
    <3> QED BY <2>1, <3>1, <3>2, <3>3 DEF StandAt
  <2> QED BY <1>4, <2>2 DEF Spelt
<1>5. ASSUME what \notin {"first", "last"}, Whole3(s) PROVE Whole3(t)
  <2>1. PICK n \in Nat : n = Len(s) BY <1>3
  <2>2. Len(t) = n + 1 /\ t[n + 1] = <<what, w>> /\ \A i \in 1..n : t[i] = s[i]
    BY <1>2, <2>1
  <2>3. \A i \in 1..n :
           /\ s[i][1] = "first" =>
                 i + 2 \in 1..n /\ s[i + 1][1] = "nl" /\ s[i + 2][1] = "last"
           /\ s[i][1] = "last" => i - 2 \in 1..n /\ s[i - 2][1] = "first"
    BY <1>5, <2>1 DEF Whole3
  <2>4. t[n + 1][1] = what BY <2>2
  <2>5. ASSUME NEW i \in 1..n
        PROVE  /\ t[i][1] = "first" =>
                     i + 2 \in 1..n + 1 /\ t[i + 1][1] = "nl" /\ t[i + 2][1] = "last"
               /\ t[i][1] = "last" => i - 2 \in 1..n + 1 /\ t[i - 2][1] = "first"
    <3>1. t[i] = s[i] BY <2>2
    <3>2. CASE s[i][1] = "first"
      <4>1. i + 2 \in 1..n /\ i + 1 \in 1..n BY <2>3, <3>2
      <4>2. t[i + 1] = s[i + 1] /\ t[i + 2] = s[i + 2] BY <2>2, <4>1
      <4> QED BY <2>3, <3>1, <3>2, <4>1, <4>2
    <3>3. CASE s[i][1] = "last"
      <4>1. i - 2 \in 1..n BY <2>3, <3>3
      <4>2. t[i - 2] = s[i - 2] BY <2>2, <4>1
      <4> QED BY <2>3, <3>1, <3>3, <4>1, <4>2
    <3> QED BY <3>1, <3>2, <3>3
  <2>6. \A i \in 1..n + 1 : i = n + 1 \/ i \in 1..n OBVIOUS
  <2>7. what # "first" /\ what # "last" BY <1>5
  <2>8. \A i \in 1..n + 1 :
           /\ t[i][1] = "first" =>
                 i + 2 \in 1..n + 1 /\ t[i + 1][1] = "nl" /\ t[i + 2][1] = "last"
           /\ t[i][1] = "last" => i - 2 \in 1..n + 1 /\ t[i - 2][1] = "first"
    BY <2>4, <2>5, <2>6, <2>7
  <2>9. Len(t) = n + 1 BY <2>2
  <2> QED BY <2>8, <2>9, Zenon DEF Whole3
<1> QED BY <1>2, <1>4, <1>5 DEF t

LEMMA PutWord ==
    ASSUME NEW s \in Seq(Tokens), NEW w \in Nat, NEW y, Spelt(s, y)
    PROVE  /\ Append(s, <<"word", w>>) \in Seq(Tokens)
           /\ Spelt(Append(s, <<"word", w>>), y \o <<w>>)
<1> DEFINE t == Append(s, <<"word", w>>)
           z == y \o <<w>>
<1>1. <<"word", w>> \in Tokens BY DEF Tokens, TokenKinds
<1>2. t \in Seq(Tokens) /\ Len(t) = Len(s) + 1 /\ t[Len(s) + 1] = <<"word", w>>
      /\ \A i \in 1..Len(s) : t[i] = s[i]
  BY <1>1
<1>3. Len(s) \in Nat OBVIOUS
<1>4. y \in Seq(Nat) BY DEF Spelt
<1>5. z \in Seq(Nat) /\ Len(z) = Len(y) + 1 /\ z[Len(y) + 1] = w
      /\ \A i \in 1..Len(y) : z[i] = y[i]
  BY <1>4
<1>6. Len(y) \in Nat BY <1>4
<1> HIDE DEF t, z
<1>7. PICK g : StandAt(s, y, g) BY DEF Spelt
<1> DEFINE h == [n \in 1..Len(z) |-> IF n = Len(z) THEN Len(t) ELSE g[n]]
<1>8. h[Len(z)] = Len(t) /\ \A n \in 1..Len(y) : h[n] = g[n] /\ g[n] \in 1..Len(s)
  <2>1. Len(z) \in 1..Len(z) /\ \A n \in 1..Len(y) : n \in 1..Len(z) /\ n # Len(z)
    BY <1>5, <1>6
  <2>2. \A n \in 1..Len(y) : g[n] \in 1..Len(s) BY <1>7 DEF StandAt
  <2> QED BY <2>1, <2>2
<1>9. h \in [1..Len(z) -> 1..Len(t)]
  <2>1. \A n \in 1..Len(z) : n = Len(z) \/ n \in 1..Len(y) BY <1>5, <1>6
  <2> HIDE DEF h
  <2>2. \A n \in 1..Len(z) : h[n] \in 1..Len(t) BY <1>2, <1>3, <1>8, <2>1
  <2> QED BY <2>2 DEF h
<1> HIDE DEF h
<1>10. \A n \in 1..Len(z) : n = Len(z) \/ n \in 1..Len(y) BY <1>5, <1>6
<1>11. StandAt(t, z, h)
  <2>1. ASSUME NEW m \in 1..Len(z), NEW n \in 1..Len(z), m < n PROVE h[m] < h[n]
    <3>1. m \in 1..Len(y) BY <1>5, <1>6, <2>1
    <3>2. CASE n = Len(z) BY <1>2, <1>3, <1>8, <3>1, <3>2
    <3>3. CASE n \in 1..Len(y) BY <1>7, <1>8, <2>1, <3>1, <3>3 DEF StandAt
    <3> QED BY <1>10, <3>2, <3>3
  <2>2. ASSUME NEW n \in 1..Len(z) PROVE t[h[n]] = <<"word", z[n]>>
    <3>1. CASE n = Len(z) BY <1>2, <1>5, <1>8, <3>1
    <3>2. CASE n \in 1..Len(y)
      <4>1. s[g[n]] = <<"word", y[n]>> BY <1>7, <3>2 DEF StandAt
      <4>2. t[g[n]] = s[g[n]] BY <1>2, <1>8, <3>2
      <4> QED BY <1>5, <1>8, <3>2, <4>1, <4>2
    <3> QED BY <1>10, <3>1, <3>2
  <2>3. ASSUME NEW i \in 1..Len(t), t[i][1] = "word" PROVE \E n \in 1..Len(z) : h[n] = i
    <3>1. CASE i = Len(t) BY <1>5, <1>6, <1>8, <3>1
    <3>2. CASE i # Len(t)
      <4>1. i \in 1..Len(s) /\ s[i][1] = "word" BY <1>2, <1>3, <2>3, <3>2
      <4>2. PICK n \in 1..Len(y) : g[n] = i BY <1>7, <4>1 DEF StandAt
      <4>3. n \in 1..Len(z) BY <1>5, <1>6
      <4>4. h[n] = i BY <1>8, <4>2
      <4> QED BY <4>3, <4>4, Zenon
    <3> QED BY <3>1, <3>2
  <2> QED BY <1>9, <2>1, <2>2, <2>3 DEF StandAt
<1> QED BY <1>2, <1>5, <1>11 DEF Spelt, t, z

\* a beginning that leaves only blanks out
LEMMA CutKeeps ==
    ASSUME NEW s \in Seq(Tokens), NEW n \in 0..Len(s),
           \A i \in n + 1..Len(s) : s[i][1] \in Blanks
    PROVE  /\ SubSeq(s, 1, n) \in Seq(Tokens)
           /\ \A y : Spelt(s, y) => Spelt(SubSeq(s, 1, n), y)
           /\ Whole3(s) => Whole3(SubSeq(s, 1, n))
<1> DEFINE t == SubSeq(s, 1, n)
<1>1. Len(s) \in Nat /\ n \in Nat /\ n <= Len(s) OBVIOUS
<1>2. t \in Seq(Tokens) /\ Len(t) = n /\ \A i \in 1..n : t[i] = s[i] BY <1>1
<1>3. \A i \in 1..Len(s) : s[i][1] \in {"word", "first", "last", "nl"} => i \in 1..n
  <2>1. ASSUME NEW i \in 1..Len(s), s[i][1] \in {"word", "first", "last", "nl"} PROVE i \in 1..n
    <3>1. s[i][1] \notin Blanks BY <2>1 DEF Blanks
    <3> QED BY <1>1, <2>1, <3>1
  <2> QED BY <2>1
<1> HIDE DEF t
<1>4. ASSUME NEW y, Spelt(s, y) PROVE Spelt(t, y)
  <2>1. PICK g : StandAt(s, y, g) BY <1>4 DEF Spelt
  <2>2. \A m \in 1..Len(y) : g[m] \in 1..n
    <3>1. \A m \in 1..Len(y) : g[m] \in 1..Len(s) /\ s[g[m]][1] = "word" BY <2>1 DEF StandAt
    <3> QED BY <1>3, <3>1
  <2>3. StandAt(t, y, g)
    <3>1. g \in [1..Len(y) -> 1..Len(t)] BY <1>2, <2>1, <2>2 DEF StandAt
    <3>2. \A m \in 1..Len(y) : t[g[m]] = <<"word", y[m]>> BY <1>2, <2>1, <2>2 DEF StandAt
    <3>3. ASSUME NEW i \in 1..Len(t), t[i][1] = "word" PROVE \E m \in 1..Len(y) : g[m] = i
      <4>1. i \in 1..Len(s) /\ s[i][1] = "word" BY <1>1, <1>2, <3>3
      <4> QED BY <2>1, <4>1 DEF StandAt
    <3>4. \A m, k \in 1..Len(y) : m < k => g[m] < g[k] BY <2>1 DEF StandAt
    <3> QED BY <3>1, <3>2, <3>3, <3>4 DEF StandAt
  <2> QED BY <1>4, <2>3 DEF Spelt
<1>5. ASSUME Whole3(s) PROVE Whole3(t)
  <2>1. ASSUME NEW i \in 1..n
        PROVE  /\ t[i][1] = "first" =>
                    /\ i + 2 \in 1..n
                    /\ t[i + 1][1] = "nl" /\ t[i + 2][1] = "last"
               /\ t[i][1] = "last" => i - 2 \in 1..n /\ t[i - 2][1] = "first"
    <3>0. i \in 1..Len(s) /\ t[i] = s[i] BY <1>1, <1>2
    <3>1. ASSUME t[i][1] = "first"
          PROVE i + 2 \in 1..n /\ t[i + 1][1] = "nl" /\ t[i + 2][1] = "last"
      <4>1. i + 2 \in 1..Len(s) /\ s[i + 1][1] = "nl" /\ s[i + 2][1] = "last"
        BY <1>5, <3>0, <3>1 DEF Whole3
      <4>2. i + 2 \in 1..n BY <1>3, <4>1
      <4>3. i + 1 \in 1..n BY <1>1, <4>2
      <4> QED BY <1>2, <4>1, <4>2, <4>3
    <3>2. ASSUME t[i][1] = "last" PROVE i - 2 \in 1..n /\ t[i - 2][1] = "first"
      <4>1. i - 2 \in 1..Len(s) /\ s[i - 2][1] = "first" BY <1>5, <3>0, <3>2 DEF Whole3
      <4>2. i - 2 \in 1..n BY <1>1, <4>1
      <4> QED BY <1>2, <4>1, <4>2
    <3> QED BY <3>1, <3>2
  <2> QED BY <1>2, <2>1 DEF Whole3
<1> QED BY <1>2, <1>4, <1>5 DEF t

LEMMA DropKeeps ==
    ASSUME NEW s \in Seq(Tokens), NEW at \in 1..Len(s), s[at][1] \in Blanks
    PROVE  /\ RemoveAt(s, at) \in Seq(Tokens)
           /\ \A y : Spelt(s, y) => Spelt(RemoveAt(s, at), y)
           /\ Whole3(s) => Whole3(RemoveAt(s, at))
<1> DEFINE t == RemoveAt(s, at)
           Down(i) == IF i < at THEN i ELSE i - 1
           Up(i) == IF i < at THEN i ELSE i + 1
<1>1. Len(s) \in Nat /\ at \in Nat /\ Len(s) > 0 OBVIOUS
<1>2. t \in Seq(Tokens) /\ Len(t) = Len(s) - 1
      /\ \A i \in 1..Len(s) - 1 : t[i] = s[Up(i)]
  <2>1. SubSeq(s, 1, at - 1) \in Seq(Tokens) /\ Len(SubSeq(s, 1, at - 1)) = at - 1
        /\ \A i \in 1..at - 1 : SubSeq(s, 1, at - 1)[i] = s[i]
    BY <1>1
  <2>2. SubSeq(s, at + 1, Len(s)) \in Seq(Tokens) /\ Len(SubSeq(s, at + 1, Len(s))) = Len(s) - at
        /\ \A i \in 1..Len(s) - at : SubSeq(s, at + 1, Len(s))[i] = s[i + at]
    BY <1>1
  <2>3. \A i \in 1..Len(s) - 1 : i < at \/ i - (at - 1) \in 1..Len(s) - at BY <1>1
  <2> DEFINE a == SubSeq(s, 1, at - 1)
             b == SubSeq(s, at + 1, Len(s))
  <2>4. t = a \o b BY DEF RemoveAt
  <2> HIDE DEF t, a, b
  <2>5. a \o b \in Seq(Tokens) /\ Len(a \o b) = Len(a) + Len(b)
        /\ \A i \in 1..Len(a) + Len(b) : (a \o b)[i] = IF i <= Len(a) THEN a[i] ELSE b[i - Len(a)]
    BY <2>1, <2>2, ConcatProperties DEF a, b
  <2>6. Len(a) = at - 1 /\ Len(b) = Len(s) - at BY <2>1, <2>2 DEF a, b
  <2>7. ASSUME NEW i \in 1..Len(s) - 1 PROVE t[i] = s[Up(i)]
    <3>1. CASE i < at
      <4>1. i \in 1..at - 1 /\ i <= Len(a) /\ i \in 1..Len(a) + Len(b) BY <1>1, <2>6, <3>1
      <4>2. t[i] = a[i] BY <2>4, <2>5, <4>1
      <4>3. a[i] = s[i] BY <2>1, <4>1 DEF a
      <4> QED BY <3>1, <4>2, <4>3
    <3>2. CASE ~(i < at)
      <4>1. i - (at - 1) \in 1..Len(s) - at /\ ~(i <= Len(a)) /\ i \in 1..Len(a) + Len(b)
            /\ i - Len(a) = i - (at - 1) /\ (i - (at - 1)) + at = i + 1
        BY <1>1, <2>3, <2>6, <3>2
      <4>2. t[i] = b[i - (at - 1)] BY <2>4, <2>5, <4>1
      <4>3. b[i - (at - 1)] = s[i + 1] BY <2>2, <4>1 DEF b
      <4> QED BY <3>2, <4>2, <4>3
    <3> QED BY <3>1, <3>2
  <2>8. Len(t) = Len(s) - 1 BY <1>1, <2>4, <2>5, <2>6
  <2>9. t \in Seq(Tokens) BY <2>4, <2>5
  <2> QED BY <2>7, <2>8, <2>9
<1> HIDE DEF t
<1>3. \A i \in 1..Len(s) : s[i][1] \in {"word", "first", "last", "nl"} => i # at
  BY DEF Blanks
<1>4. \A i \in 1..Len(s) : i # at => Down(i) \in 1..Len(t) /\ Up(Down(i)) = i /\ t[Down(i)] = s[i]
  <2>1. ASSUME NEW i \in 1..Len(s), i # at
        PROVE Down(i) \in 1..Len(s) - 1 /\ Up(Down(i)) = i
    BY <1>1, <2>1
  <2> QED BY <1>2, <2>1
<1>5. ASSUME NEW y, Spelt(s, y) PROVE Spelt(t, y)
  <2>1. PICK g : StandAt(s, y, g) BY <1>5 DEF Spelt
  <2>2. \A m \in 1..Len(y) : g[m] \in 1..Len(s) /\ g[m] # at
    <3>1. \A m \in 1..Len(y) : g[m] \in 1..Len(s) /\ s[g[m]][1] = "word" BY <2>1 DEF StandAt
    <3> QED BY <1>3, <3>1
  <2> DEFINE h == [m \in 1..Len(y) |-> Down(g[m])]
  <2>3. \A m \in 1..Len(y) : h[m] = Down(g[m]) /\ h[m] \in 1..Len(t) /\ t[h[m]] = s[g[m]]
    BY <1>4, <2>2
  <2>4. h \in [1..Len(y) -> 1..Len(t)] BY <2>3
  <2> HIDE DEF h
  <2>5. ASSUME NEW m \in 1..Len(y), NEW n \in 1..Len(y), m < n PROVE h[m] < h[n]
    <3>1. g[m] < g[n] BY <2>1, <2>5 DEF StandAt
    <3>2. g[m] \in 1..Len(s) /\ g[n] \in 1..Len(s) /\ g[m] # at /\ g[n] # at BY <2>2
    <3>3. Down(g[m]) < Down(g[n]) BY <1>1, <3>1, <3>2
    <3> QED BY <2>3, <3>3
  <2>6. ASSUME NEW i \in 1..Len(t), t[i][1] = "word" PROVE \E n \in 1..Len(y) : h[n] = i
    <3>1. i \in 1..Len(s) - 1 BY <1>2
    <3>2. Up(i) \in 1..Len(s) /\ Down(Up(i)) = i BY <1>1, <3>1
    <3>3. s[Up(i)][1] = "word" BY <1>2, <2>6, <3>1
    <3>4. PICK n \in 1..Len(y) : g[n] = Up(i) BY <2>1, <3>2, <3>3 DEF StandAt
    <3> QED BY <2>3, <3>2, <3>4
  <2>7. \A n \in 1..Len(y) : t[h[n]] = <<"word", y[n]>> BY <2>1, <2>3 DEF StandAt
  <2>8. StandAt(t, y, h) BY <2>4, <2>5, <2>6, <2>7 DEF StandAt
  <2> QED BY <1>5, <2>8 DEF Spelt
<1>6. ASSUME Whole3(s) PROVE Whole3(t)
  <2>1. ASSUME NEW i \in 1..Len(t)
        PROVE  /\ t[i][1] = "first" =>
                    /\ i + 2 \in 1..Len(t)
                    /\ t[i + 1][1] = "nl" /\ t[i + 2][1] = "last"
               /\ t[i][1] = "last" => i - 2 \in 1..Len(t) /\ t[i - 2][1] = "first"
    <3> DEFINE j == Up(i)
    <3>1. i \in 1..Len(s) - 1 BY <1>2
    <3>2. j \in 1..Len(s) /\ Down(j) = i /\ t[i] = s[j] BY <1>1, <1>2, <3>1
    <3> HIDE DEF j
    <3>3. ASSUME t[i][1] = "first"
          PROVE i + 2 \in 1..Len(t) /\ t[i + 1][1] = "nl" /\ t[i + 2][1] = "last"
      <4>1. j + 2 \in 1..Len(s) /\ s[j + 1][1] = "nl" /\ s[j + 2][1] = "last"
        BY <1>6, <3>2, <3>3 DEF Whole3
      <4>2. j + 1 \in 1..Len(s) BY <3>2, <4>1
      <4>3. j # at /\ j + 1 # at /\ j + 2 # at BY <1>3, <3>2, <3>3, <4>1, <4>2
      <4>4. Down(j + 1) = i + 1 /\ Down(j + 2) = i + 2 BY <1>1, <3>1, <3>2, <4>3
      <4>5. t[Down(j + 1)] = s[j + 1] /\ t[Down(j + 2)] = s[j + 2] /\ Down(j + 2) \in 1..Len(t)
        BY <1>4, <4>1, <4>2, <4>3
      <4> QED BY <4>1, <4>4, <4>5
    <3>4. ASSUME t[i][1] = "last" PROVE i - 2 \in 1..Len(t) /\ t[i - 2][1] = "first"
      <4>1. j - 2 \in 1..Len(s) /\ s[j - 2][1] = "first" BY <1>6, <3>2, <3>4 DEF Whole3
      <4>2. s[(j - 2) + 1][1] = "nl" BY <1>6, <4>1 DEF Whole3
      <4>3. j - 1 \in 1..Len(s) /\ (j - 2) + 1 = j - 1 BY <3>2, <4>1
      <4>4. j # at /\ j - 1 # at /\ j - 2 # at BY <1>3, <3>2, <3>4, <4>1, <4>2, <4>3
      <4>5. Down(j - 2) = i - 2 BY <1>1, <3>1, <3>2, <4>4
      <4>6. t[Down(j - 2)] = s[j - 2] /\ Down(j - 2) \in 1..Len(t) BY <1>4, <4>1, <4>4
      <4> QED BY <4>1, <4>5, <4>6
    <3> QED BY <3>3, <3>4
  <2> QED BY <2>1 DEF Whole3
<1> QED BY <1>2, <1>5, <1>6 DEF t

---------------------------------------------------------------------------
(* Trimming and breaking a line *)

LEMMA LowestOf ==
    ASSUME NEW T \in SUBSET Nat, T # {}
    PROVE  \E m \in T : \A n \in T : m <= n
<1> DEFINE R == StrictSubsetOrdering(Nat)
           Below == {0..n : n \in T}
<1>1. Below \subseteq FiniteSubsetsOf(Nat) /\ Below # {}
  <2>1. \A n \in Nat : 0..n \in FiniteSubsetsOf(Nat)
    BY FS_Interval DEF FiniteSubsetsOf
  <2> QED BY <2>1
<1>2. \E x \in Below : \A y \in Below : ~ (<<y, x>> \in R)
  <2>1. IsWellFoundedOn(R, FiniteSubsetsOf(Nat))
    BY FS_StrictSubsetOrderingWellFounded
  <2> HIDE DEF R, Below
  <2> QED BY <1>1, <2>1, WFMin
<1>3. PICK m \in T : \A n \in T : ~ (<<0..n, 0..m>> \in R)
  BY <1>2
<1>4. ASSUME NEW n \in T, n < m PROVE <<0..n, 0..m>> \in R
  <2>1. n \in Nat /\ m \in Nat
    OBVIOUS
  <2>2. 0..n \subseteq 0..m /\ m \in 0..m /\ m \notin 0..n
    BY <1>4, <2>1
  <2> QED BY <2>1, <2>2 DEF StrictSubsetOrdering
<1> HIDE DEF R, Below
<1>5. \A n \in T : ~(n < m)
  BY <1>3, <1>4
<1> QED
  BY <1>5

\* the trimmed output is the output up to its last token that is no blank
LEMMA TrimmedIs ==
    ASSUME NEW s \in Seq(Tokens)
    PROVE  \E n \in 0..Len(s) :
              /\ Trimmed(s) = SubSeq(s, 1, n)
              /\ \A i \in n + 1..Len(s) : s[i][1] \in Blanks
              /\ n # 0 => s[n][1] \notin Blanks
<1> DEFINE kept == {i \in 1..Len(s) : s[i][1] \notin Blanks}
           IsLast(i) == i \in kept /\ \A j \in kept : j <= i
           top  == CHOOSE i \in kept : \A j \in kept : j <= i
<1>1. Len(s) \in Nat /\ DOMAIN s = 1..Len(s) OBVIOUS
<1>2. Trimmed(s) = SubSeq(s, 1, IF kept = {} THEN 0 ELSE top)
  BY <1>1 DEF Trimmed
<1>3. CASE kept = {}
  <2>1. \A i \in 1..Len(s) : s[i][1] \in Blanks BY <1>3
  <2> HIDE DEF kept
  <2> QED BY <1>1, <1>2, <1>3, <2>1
<1>4. CASE kept # {}
  <2>1. \E i \in kept : \A j \in kept : j <= i
    <3> DEFINE T == {Len(s) - i : i \in kept}
    <3>1. T \in SUBSET Nat /\ T # {} BY <1>1, <1>4
    <3>2. PICK d \in T : \A e \in T : d <= e
      <4> HIDE DEF T
      <4> QED BY <3>1, LowestOf
    <3>3. PICK i \in kept : d = Len(s) - i BY <3>2
    <3>4. \A j \in kept : Len(s) - i <= Len(s) - j BY <3>2, <3>3
    <3>5. \A j \in kept : j <= i BY <1>1, <3>4
    <3> QED BY <3>5
  <2>2. top \in kept /\ \A j \in kept : j <= top
    <3> HIDE DEF kept
    <3> QED BY <2>1
  <2> HIDE DEF top
  <2>3. top \in 1..Len(s) /\ s[top][1] \notin Blanks BY <2>2
  <2>4. \A i \in top + 1..Len(s) : s[i][1] \in Blanks
    <3>1. ASSUME NEW i \in top + 1..Len(s), s[i][1] \notin Blanks PROVE FALSE
      <4>1. i \in kept BY <1>1, <2>3, <3>1
      <4>2. i <= top BY <2>2, <4>1
      <4> QED BY <1>1, <2>3, <4>2
    <3> QED BY <3>1
  <2>5. Trimmed(s) = SubSeq(s, 1, top)
    <3> HIDE DEF kept
    <3> QED BY <1>2, <1>4
  <2> QED BY <1>1, <2>3, <2>4, <2>5
<1> QED BY <1>3, <1>4

\* trimming takes blanks off the end: no word, and no line of a comment of several
LEMMA TrimKeeps ==
    ASSUME NEW s \in Seq(Tokens)
    PROVE  /\ Trimmed(s) \in Seq(Tokens)
           /\ \A y : Spelt(s, y) => Spelt(Trimmed(s), y)
           /\ Whole3(s) => Whole3(Trimmed(s))
<1>1. PICK n \in 0..Len(s) :
         Trimmed(s) = SubSeq(s, 1, n) /\ \A i \in n + 1..Len(s) : s[i][1] \in Blanks
  BY TrimmedIs
<1> QED BY <1>1, CutKeeps

\* what ends in no blank is trimmed already
LEMMA TrimmedEnd ==
    ASSUME NEW s \in Seq(Tokens), NEW what \in TokenKinds \ Blanks, NEW w \in Nat
    PROVE  Trimmed(Append(s, <<what, w>>)) = Append(s, <<what, w>>)
<1> DEFINE t == Append(s, <<what, w>>)
<1>1. <<what, w>> \in Tokens BY DEF Tokens
<1>2. t \in Seq(Tokens) /\ Len(t) = Len(s) + 1 /\ t[Len(s) + 1] = <<what, w>>
  BY <1>1
<1> HIDE DEF t
<1>3. PICK n \in 0..Len(t) :
         Trimmed(t) = SubSeq(t, 1, n) /\ \A i \in n + 1..Len(t) : t[i][1] \in Blanks
  BY <1>2, TrimmedIs
<1>4. n = Len(t)
  <2>1. SUFFICES ASSUME n # Len(t) PROVE FALSE OBVIOUS
  <2>2. Len(s) \in Nat OBVIOUS
  <2>3. Len(s) + 1 \in n + 1..Len(t) BY <1>2, <1>3, <2>1, <2>2
  <2> QED BY <1>2, <1>3, <2>3
<1>5. SubSeq(t, 1, Len(t)) = t BY <1>2
<1> QED BY <1>3, <1>4, <1>5 DEF t

\* a page holds what it held: what it spells and its comments of several lines
Keeps(page, from) ==
    /\ page.out \in Seq(Tokens)
    /\ \A y : Spelt(from, y) => Spelt(page.out, y)
    /\ Whole3(from) => Whole3(page.out)

Indents == [tabs : Nat, aligns : Nat, spaces : Nat]

LEMMA ColumnIsNat ==
    ASSUME NEW i \in Indents
    PROVE  StartColumn(i) \in Nat
<1>1. i.tabs \in Nat /\ i.spaces \in Nat BY DEF Indents
<1>2. i.tabs * TabWidth \in Nat BY <1>1, WidthsAssumption
<1> QED BY <1>1, <1>2 DEF StartColumn

IsPage(page) ==
    page = [out |-> page.out, pos |-> page.pos, remeasure |-> page.remeasure]

LEMMA PagePut ==
    ASSUME NEW page, IsPage(page), NEW what, NEW w
    PROVE  /\ IsPage(Put(page, what, w))
           /\ Put(page, what, w).out = Append(page.out, <<what, w>>)
<1>1. Put(page, what, w) = [out |-> Append(page.out, <<what, w>>), pos |-> page.pos + w,
                            remeasure |-> page.remeasure]
  <2>1. PICK o, p, r : o = page.out /\ p = page.pos /\ r = page.remeasure OBVIOUS
  <2>2. page = [out |-> o, pos |-> p, remeasure |-> r] BY <2>1 DEF IsPage
  <2>3. PICK v : v = page.pos + w OBVIOUS
  <2>4. Put(page, what, w) = [page EXCEPT !.out = Append(page.out, <<what, w>>), !.pos = v]
    BY <2>3 DEF Put
  <2>5. Put(page, what, w) = [out |-> Append(o, <<what, w>>), pos |-> v, remeasure |-> r]
    BY <2>2, <2>4
  <2> QED BY <2>1, <2>3, <2>5
<1> QED BY <1>1 DEF IsPage

LEMMA PutPageKeeps ==
    ASSUME NEW page, IsPage(page), page.out \in Seq(Tokens),
           NEW what \in TokenKinds \ {"word", "first", "last"}, NEW w \in Nat
    PROVE  IsPage(Put(page, what, w)) /\ Keeps(Put(page, what, w), page.out)
<1>1. IsPage(Put(page, what, w)) /\ Put(page, what, w).out = Append(page.out, <<what, w>>)
  BY PagePut
<1>2. what \in TokenKinds \ {"word"} /\ what \notin {"first", "last"} OBVIOUS
<1>3. /\ Append(page.out, <<what, w>>) \in Seq(Tokens)
      /\ \A y : Spelt(page.out, y) => Spelt(Append(page.out, <<what, w>>), y)
      /\ Whole3(page.out) => Whole3(Append(page.out, <<what, w>>))
  BY <1>2, PutKeeps
<1> QED BY <1>1, <1>3 DEF Keeps

LEMMA PageObliged ==
    ASSUME NEW page, IsPage(page), NEW kind, NEW mode
    PROVE  IsPage(Obliged(page, kind, mode)) /\ Obliged(page, kind, mode).out = page.out
<1>1. CASE kind \in Hards /\ mode = "flat"
  <2>1. Obliged(page, kind, mode) = [out |-> page.out, pos |-> page.pos, remeasure |-> TRUE]
    BY <1>1 DEF Obliged, IsPage
  <2> QED BY <2>1 DEF IsPage
<1>2. CASE ~(kind \in Hards /\ mode = "flat")
  BY <1>2 DEF Obliged
<1> QED BY <1>1, <1>2

Carried(page, kind) == IF kind = "literal" THEN page.out ELSE Trimmed(page.out)

\* a line that is broken: the output, but for a literal line trimmed, and "nl"
LEMMA PageBroken ==
    ASSUME NEW page, IsPage(page), NEW kind, NEW mode, NEW indent \in Indents,
           mode # "flat" \/ kind \in Hards
    PROVE  /\ IsPage(LineBreak(page, kind, mode, indent))
           /\ \E column \in Nat :
                LineBreak(page, kind, mode, indent).out =
                    Append(Carried(page, kind), <<"nl", column>>)
<1> DEFINE column == IF kind = "literal" THEN 0 ELSE StartColumn(indent)
           line   == Append(Carried(page, kind), <<"nl", column>>)
<1>1. column \in Nat BY ColumnIsNat
<1>2. LineBreak(page, kind, mode, indent) =
        [out |-> line, pos |-> column, remeasure |-> page.remeasure]
  <2>1. PICK o, p, r : o = page.out /\ p = page.pos /\ r = page.remeasure OBVIOUS
  <2>2. page = [out |-> o, pos |-> p, remeasure |-> r] BY <2>1 DEF IsPage
  <2>3. LineBreak(page, kind, mode, indent) =
          [page EXCEPT !.out = Append(IF kind = "literal" THEN page.out ELSE Trimmed(page.out),
                                      <<"nl", column>>),
                       !.pos = column]
    BY DEF LineBreak
  <2> HIDE DEF column
  <2>4. LineBreak(page, kind, mode, indent) =
          [out |-> Append(IF kind = "literal" THEN page.out ELSE Trimmed(page.out),
                          <<"nl", column>>),
           pos |-> column, remeasure |-> r]
    BY <2>2, <2>3
  <2> QED BY <2>1, <2>4 DEF Carried
<1> HIDE DEF column
<1>3. LineBreak(page, kind, mode, indent).out = line BY <1>2
<1>4. IsPage(LineBreak(page, kind, mode, indent)) BY <1>2 DEF IsPage
<1> QED BY <1>1, <1>3, <1>4

\* neither does a break of any kind in any mode
LEMMA LineBreakKeeps ==
    ASSUME NEW page, IsPage(page), page.out \in Seq(Tokens),
           NEW kind, NEW mode, NEW indent \in Indents
    PROVE  /\ IsPage(LineBreak(page, kind, mode, indent))
           /\ Keeps(LineBreak(page, kind, mode, indent), page.out)
<1>1. CASE mode = "flat" /\ kind \notin Hards
  <2>1. LineBreak(page, kind, mode, indent) = Put(page, "flat", IF kind = "normal" THEN 1 ELSE 0)
    BY <1>1 DEF LineBreak
  <2>2. "flat" \in TokenKinds \ {"word", "first", "last"} BY DEF TokenKinds
  <2>3. (IF kind = "normal" THEN 1 ELSE 0) \in Nat OBVIOUS
  <2> QED BY <2>1, <2>2, <2>3, PutPageKeeps
<1>2. CASE mode # "flat" \/ kind \in Hards
  <2> DEFINE base == Carried(page, kind)
  <2>1. /\ base \in Seq(Tokens)
        /\ \A y : Spelt(page.out, y) => Spelt(base, y)
        /\ Whole3(page.out) => Whole3(base)
    BY TrimKeeps DEF Carried
  <2> HIDE DEF base
  <2>2. PICK column \in Nat :
           LineBreak(page, kind, mode, indent).out = Append(base, <<"nl", column>>)
    BY <1>2, PageBroken DEF base
  <2>3. "nl" \in TokenKinds \ {"word"} /\ "nl" \notin {"first", "last"} BY DEF TokenKinds
  <2>4. /\ Append(base, <<"nl", column>>) \in Seq(Tokens)
        /\ \A y : Spelt(base, y) => Spelt(Append(base, <<"nl", column>>), y)
        /\ Whole3(base) => Whole3(Append(base, <<"nl", column>>))
    BY <2>1, <2>3, PutKeeps
  <2>5. IsPage(LineBreak(page, kind, mode, indent)) BY <1>2, PageBroken
  <2> QED BY <2>1, <2>2, <2>4, <2>5 DEF Keeps
<1> QED BY <1>1, <1>2

LEMMA ThisPage == IsPage(Page) /\ Page.out = out
  BY DEF Page, IsPage

\* the three tokens of a comment of several lines
LEMMA WholeKeeps ==
    ASSUME out \in Seq(Tokens), NEW cmd, cmd.indent \in Indents,
           cmd.doc.first \in Nat, cmd.doc.last \in Nat
    PROVE  Keeps(Whole(cmd), out)
<1> DEFINE a == Put(Page, "first", cmd.doc.first)
           b == Obliged(a, "hard", cmd.mode)
           c == LineBreak(b, "hard", cmd.mode, cmd.indent)
           d == Put(c, "last", cmd.doc.last)
           s == Append(out, <<"first", cmd.doc.first>>)
<1>1. Whole(cmd) = d BY DEF Whole
<1>2. IsPage(a) /\ a.out = s BY ThisPage, PagePut
<1>3. IsPage(b) /\ b.out = s
  <2> HIDE DEF a
  <2> QED BY <1>2, PageObliged
<1>4. IsPage(c) /\ \E column \in Nat : c.out = Append(Trimmed(s), <<"nl", column>>)
  <2>1. "hard" \in Hards /\ Carried(b, "hard") = Trimmed(s) BY <1>3 DEF Hards, Carried
  <2> HIDE DEF a, b, d, s
  <2> QED BY <1>3, <2>1, PageBroken
<1>5. PICK column \in Nat : c.out = Append(Trimmed(s), <<"nl", column>>) BY <1>4
<1>6. Trimmed(s) = s
  <2>1. "first" \in TokenKinds \ Blanks BY DEF TokenKinds, Blanks
  <2> QED BY <2>1, TrimmedEnd
<1>7. d.out = Append(Append(s, <<"nl", column>>), <<"last", cmd.doc.last>>)
  <2>1. PICK p : p = c OBVIOUS
  <2>2. IsPage(p) /\ p.out = Append(s, <<"nl", column>>)
    <3> HIDE DEF c, s
    <3> QED BY <1>4, <1>5, <1>6, <2>1
  <2>3. Put(p, "last", cmd.doc.last).out = Append(p.out, <<"last", cmd.doc.last>>)
    <3>1. \A w : Put(p, "last", w).out = Append(p.out, <<"last", w>>) BY <2>2, PagePut
    <3> QED BY <3>1, Zenon
  <2>4. d = Put(p, "last", cmd.doc.last)
    <3> HIDE DEF c
    <3> QED BY <2>1
  <2> HIDE DEF d, s
  <2> QED BY <2>2, <2>3, <2>4
<1> DEFINE t == Append(s, <<"nl", column>>)
           u == Append(t, <<"last", cmd.doc.last>>)
<1>8. "first" \in TokenKinds \ {"word"} /\ "nl" \in TokenKinds \ {"word"}
      /\ "last" \in TokenKinds \ {"word"}
  BY DEF TokenKinds
<1>9. s \in Seq(Tokens) /\ \A y : Spelt(out, y) => Spelt(s, y)
  BY <1>8, PutKeeps
<1>10. t \in Seq(Tokens) /\ \A y : Spelt(s, y) => Spelt(t, y)
  <2> HIDE DEF s
  <2> QED BY <1>8, <1>9, PutKeeps
<1>11. u \in Seq(Tokens) /\ \A y : Spelt(t, y) => Spelt(u, y)
  <2> HIDE DEF t
  <2> QED BY <1>8, <1>10, PutKeeps
<1>12. ASSUME Whole3(out) PROVE Whole3(u)
  <2>1. Len(out) \in Nat OBVIOUS
  <2>2. /\ <<"first", cmd.doc.first>> \in Tokens /\ <<"nl", column>> \in Tokens
        /\ <<"last", cmd.doc.last>> \in Tokens
    BY <1>8 DEF Tokens
  <2>3. Len(s) = Len(out) + 1 /\ s[Len(out) + 1] = <<"first", cmd.doc.first>>
        /\ \A i \in 1..Len(out) : s[i] = out[i]
    OBVIOUS
  <2>4. Len(t) = Len(s) + 1 /\ t[Len(s) + 1] = <<"nl", column>>
        /\ \A i \in 1..Len(s) : t[i] = s[i]
    <3> HIDE DEF s
    <3> QED BY <1>9
  <2>5. Len(u) = Len(t) + 1 /\ u[Len(t) + 1] = <<"last", cmd.doc.last>>
        /\ \A i \in 1..Len(t) : u[i] = t[i]
    <3> HIDE DEF t
    <3> QED BY <1>10
  <2> HIDE DEF s, t, u
  <2>6. Len(u) = Len(out) + 3 /\ u[Len(out) + 1] = <<"first", cmd.doc.first>>
        /\ u[Len(out) + 2] = <<"nl", column>> /\ u[Len(out) + 3] = <<"last", cmd.doc.last>>
        /\ \A i \in 1..Len(out) : u[i] = out[i]
    BY <2>1, <2>3, <2>4, <2>5
  <2>7. ASSUME NEW i \in 1..Len(u)
        PROVE  /\ u[i][1] = "first" =>
                    /\ i + 2 \in 1..Len(u)
                    /\ u[i + 1][1] = "nl" /\ u[i + 2][1] = "last"
               /\ u[i][1] = "last" => i - 2 \in 1..Len(u) /\ u[i - 2][1] = "first"
    <3>1. CASE i \in 1..Len(out)
      <4>1. u[i] = out[i] BY <2>6, <3>1
      <4>2. ASSUME u[i][1] = "first"
            PROVE i + 2 \in 1..Len(u) /\ u[i + 1][1] = "nl" /\ u[i + 2][1] = "last"
        <5>1. i + 2 \in 1..Len(out) /\ out[i + 1][1] = "nl" /\ out[i + 2][1] = "last"
          BY <1>12, <3>1, <4>1, <4>2 DEF Whole3
        <5>2. i + 1 \in 1..Len(out) BY <2>1, <3>1, <5>1
        <5>3. u[i + 1] = out[i + 1] /\ u[i + 2] = out[i + 2] BY <2>6, <5>1, <5>2
        <5>4. i + 2 \in 1..Len(u) BY <2>1, <2>6, <5>1
        <5> QED BY <5>1, <5>3, <5>4, Zenon
      <4>3. ASSUME u[i][1] = "last" PROVE i - 2 \in 1..Len(u) /\ u[i - 2][1] = "first"
        <5>1. i - 2 \in 1..Len(out) /\ out[i - 2][1] = "first"
          BY <1>12, <3>1, <4>1, <4>3 DEF Whole3
        <5>2. u[i - 2] = out[i - 2] BY <2>6, <5>1
        <5>3. i - 2 \in 1..Len(u) BY <2>1, <2>6, <5>1
        <5> QED BY <5>1, <5>2, <5>3, Zenon
      <4> QED BY <4>2, <4>3
    <3>2. CASE i = Len(out) + 1 BY <2>1, <2>6, <3>2
    <3>3. CASE i = Len(out) + 2 BY <2>1, <2>6, <3>3
    <3>4. CASE i = Len(out) + 3 BY <2>1, <2>6, <3>4
    <3> QED BY <2>1, <2>6, <3>1, <3>2, <3>3, <3>4
  <2> QED BY <2>7 DEF Whole3
<1> HIDE DEF a, b, c, s, t, u
<1>13. Whole(cmd).out = u
  BY <1>1, <1>7 DEF t, u
<1> QED BY <1>9, <1>10, <1>11, <1>12, <1>13 DEF Keeps

---------------------------------------------------------------------------
(* What is left to print, read as a row of sets of spellings: each place of *)
(* the row adds one of its spellings to what is printed.                    *)
Spellings == Seq(Nat)
Rows      == Seq(SUBSET Spellings)

\* F[i] is what may be printed when i is the next place of the row
Chain(F, row, goal) ==
    /\ F \in [1..Len(row) + 1 -> SUBSET Spellings]
    /\ F[Len(row) + 1] \subseteq goal
    /\ \A i \in 1..Len(row) : \A x \in F[i], s \in row[i] : x \o s \in F[i + 1]

\* what may be printed before the row, for whatever the row adds to reach the goal
Before(row, goal) == {y \in Spellings : \E F : Chain(F, row, goal) /\ y \in F[1]}

LEMMA BeforeChain ==
    ASSUME NEW row \in Rows, NEW goal
    PROVE  \E G : Chain(G, row, goal) /\ G[1] = Before(row, goal)
<1> DEFINE G == [i \in 1..Len(row) + 1 |->
                    {x \in Spellings : \E F : Chain(F, row, goal) /\ x \in F[i]}]
<1>1. Len(row) \in Nat BY DEF Rows
<1>2. \A i \in 1..Len(row) + 1 : \A x :
         x \in G[i] <=> x \in Spellings /\ \E F : Chain(F, row, goal) /\ x \in F[i]
  OBVIOUS
<1>3. G \in [1..Len(row) + 1 -> SUBSET Spellings] OBVIOUS
<1> HIDE DEF G
<1>4. 1 \in 1..Len(row) + 1 /\ Len(row) + 1 \in 1..Len(row) + 1 BY <1>1
<1>5. G[Len(row) + 1] \subseteq goal BY <1>2, <1>4 DEF Chain
<1>6. ASSUME NEW i \in 1..Len(row), NEW x \in G[i], NEW s \in row[i] PROVE x \o s \in G[i + 1]
  <2>1. i \in 1..Len(row) + 1 /\ i + 1 \in 1..Len(row) + 1 BY <1>1
  <2>2. PICK F : Chain(F, row, goal) /\ x \in F[i] BY <1>2, <1>6, <2>1
  <2>3. x \o s \in F[i + 1] BY <1>6, <2>2 DEF Chain
  <2>4. F[i + 1] \subseteq Spellings BY <2>1, <2>2 DEF Chain
  <2> QED BY <1>2, <2>1, <2>2, <2>3, <2>4
<1>7. Chain(G, row, goal) BY <1>3, <1>5, <1>6 DEF Chain
<1>8. G[1] = Before(row, goal)
  <2>1. \A x : x \in G[1] <=> x \in Before(row, goal) BY <1>2, <1>4 DEF Before
  <2> QED BY <2>1
<1> QED BY <1>7, <1>8

LEMMA BeforeIsSpelt ==
    ASSUME NEW row, NEW goal
    PROVE  Before(row, goal) \subseteq Spellings
  BY DEF Before

LEMMA BeforeNothing ==
    ASSUME NEW goal \in SUBSET Spellings
    PROVE  Before(<<>>, goal) = goal
<1>1. ASSUME NEW y \in Before(<<>>, goal) PROVE y \in goal
  <2>1. PICK F : Chain(F, <<>>, goal) /\ y \in F[1] BY <1>1 DEF Before
  <2>2. Len(<<>>) + 1 = 1 OBVIOUS
  <2> QED BY <2>1, <2>2 DEF Chain
<1>2. ASSUME NEW y \in goal PROVE y \in Before(<<>>, goal)
  <2> DEFINE F == [i \in 1..1 |-> goal]
  <2>1. Len(<<>>) = 0 /\ 0 + 1 = 1 OBVIOUS
  <2>2. F \in [1..1 -> SUBSET Spellings] /\ F[1] = goal OBVIOUS
  <2> HIDE DEF F
  <2>3. Chain(F, <<>>, goal) BY <2>1, <2>2 DEF Chain
  <2> QED BY <1>2, <2>2, <2>3 DEF Before
<1> QED BY <1>1, <1>2

\* the first place of a row adds one of its spellings
LEMMA BeforeHead ==
    ASSUME NEW row \in Rows, row # <<>>, NEW goal, NEW y \in Before(row, goal), NEW s \in Head(row)
    PROVE  y \o s \in Before(Tail(row), goal)
<1>1. Len(row) \in Nat /\ Len(row) >= 1 /\ Head(row) = row[1] BY DEF Rows
<1>2. PICK F : Chain(F, row, goal) /\ y \in F[1] BY DEF Before
<1>3. Tail(row) \in Rows /\ Len(Tail(row)) = Len(row) - 1
      /\ \A i \in 1..Len(Tail(row)) : Tail(row)[i] = row[i + 1]
  BY HeadTailProperties DEF Rows
<1> DEFINE n == Len(Tail(row))
           G == [i \in 1..n + 1 |-> F[i + 1]]
<1>4. n \in Nat /\ n = Len(row) - 1 BY <1>1, <1>3
<1> HIDE DEF n
<1>5. \A i \in 1..n + 1 : i + 1 \in 1..Len(row) + 1 BY <1>1, <1>4
<1>6. \A i \in 1..n + 1 : G[i] = F[i + 1] OBVIOUS
<1>7. G \in [1..n + 1 -> SUBSET Spellings] BY <1>2, <1>5 DEF Chain
<1> HIDE DEF G
<1>8. G[n + 1] \subseteq goal
  <2>1. n + 1 \in 1..n + 1 /\ (n + 1) + 1 = Len(row) + 1 BY <1>1, <1>4
  <2> QED BY <1>2, <1>6, <2>1 DEF Chain
<1>9. ASSUME NEW i \in 1..n, NEW x \in G[i], NEW t \in Tail(row)[i] PROVE x \o t \in G[i + 1]
  <2>1. i \in 1..n + 1 /\ i + 1 \in 1..n + 1 /\ i + 1 \in 1..Len(row) BY <1>1, <1>4
  <2>2. x \in F[i + 1] /\ t \in row[i + 1] BY <1>3, <1>6, <1>9, <2>1 DEF n
  <2>3. x \o t \in F[(i + 1) + 1] BY <1>2, <2>1, <2>2 DEF Chain
  <2> QED BY <1>6, <2>1, <2>3
<1>10. Chain(G, Tail(row), goal) BY <1>7, <1>8, <1>9 DEF Chain, n
<1>11. y \o s \in G[1]
  <2>1. 1 \in 1..Len(row) /\ 1 \in 1..n + 1 BY <1>1, <1>4
  <2>2. y \o s \in F[1 + 1] BY <1>1, <1>2, <2>1 DEF Chain
  <2> QED BY <1>6, <2>1, <2>2
<1>12. G[1] \subseteq Spellings
  <2>1. 1 \in 1..n + 1 BY <1>4
  <2> QED BY <1>7, <2>1
<1> QED BY <1>10, <1>11, <1>12 DEF Before

\* a row before a row
LEMMA BeforeJoined ==
    ASSUME NEW p \in Rows, NEW q \in Rows, NEW goal, NEW y \in Before(p, Before(q, goal))
    PROVE  p \o q \in Rows /\ y \in Before(p \o q, goal)
<1>1. Len(p) \in Nat /\ Len(q) \in Nat BY DEF Rows
<1>2. p \o q \in Rows /\ Len(p \o q) = Len(p) + Len(q)
      /\ \A i \in 1..Len(p) + Len(q) : (p \o q)[i] = IF i <= Len(p) THEN p[i] ELSE q[i - Len(p)]
  BY ConcatProperties DEF Rows
<1>3. PICK F : Chain(F, p, Before(q, goal)) /\ y \in F[1] BY DEF Before
<1>4. PICK G : Chain(G, q, goal) /\ G[1] = Before(q, goal) BY BeforeChain
<1> DEFINE n == Len(p)
           m == Len(q)
           H == [i \in 1..n + m + 1 |-> IF i <= n THEN F[i] ELSE G[i - n]]
<1>5. n \in Nat /\ m \in Nat BY <1>1
<1> HIDE DEF n, m
<1>6. \A i \in 1..n + m + 1 : H[i] = IF i <= n THEN F[i] ELSE G[i - n] OBVIOUS
<1>7. \A i \in 1..n + m + 1 : (i <= n => i \in 1..n + 1) /\ (~(i <= n) => i - n \in 1..m + 1)
  BY <1>5
<1>8. H \in [1..n + m + 1 -> SUBSET Spellings]
  <2>1. F \in [1..n + 1 -> SUBSET Spellings] BY <1>3 DEF Chain, n
  <2>2. G \in [1..m + 1 -> SUBSET Spellings] BY <1>4 DEF Chain, m
  <2> QED BY <1>7, <2>1, <2>2
<1> HIDE DEF H
<1>9. H[n + m + 1] \subseteq goal
  <2>1. n + m + 1 \in 1..n + m + 1 /\ ~(n + m + 1 <= n) /\ (n + m + 1) - n = m + 1 BY <1>5
  <2>2. H[n + m + 1] = G[m + 1] BY <1>6, <2>1
  <2> QED BY <1>4, <2>2 DEF Chain, m
<1>10. ASSUME NEW i \in 1..n + m, NEW x \in H[i], NEW s \in (p \o q)[i] PROVE x \o s \in H[i + 1]
  <2>1. i \in 1..n + m + 1 /\ i + 1 \in 1..n + m + 1 BY <1>5
  <2>2. CASE i + 1 <= n
    <3>1. i <= n /\ i \in 1..n BY <1>5, <2>2
    <3>2. x \in F[i] /\ s \in p[i] BY <1>2, <1>6, <1>10, <2>1, <3>1 DEF n, m
    <3>3. x \o s \in F[i + 1] BY <1>3, <3>1, <3>2 DEF Chain, n
    <3> QED BY <1>6, <2>1, <2>2, <3>3
  <2>3. CASE i = n
    <3>1. i <= n /\ i \in 1..n BY <1>5, <2>3
    <3>2. x \in F[i] /\ s \in p[i] BY <1>2, <1>6, <1>10, <2>1, <3>1 DEF n, m
    <3>3. x \o s \in F[n + 1] BY <1>3, <2>3, <3>1, <3>2 DEF Chain, n
    <3>4. F[n + 1] \subseteq G[1] BY <1>3, <1>4 DEF Chain, n
    <3>5. H[i + 1] = G[1]
      <4>1. ~(i + 1 <= n) /\ (i + 1) - n = 1 BY <1>5, <2>3
      <4> QED BY <1>6, <2>1, <4>1
    <3> QED BY <3>3, <3>4, <3>5
  <2>4. CASE i > n
    <3>1. ~(i <= n) /\ ~(i + 1 <= n) /\ i - n \in 1..m /\ (i + 1) - n = (i - n) + 1 BY <1>5, <2>4
    <3>2. x \in G[i - n] BY <1>6, <1>10, <2>1, <3>1
    <3>3. s \in q[i - n] BY <1>2, <1>10, <3>1 DEF n, m
    <3>4. x \o s \in G[(i - n) + 1] BY <1>4, <3>1, <3>2, <3>3 DEF Chain, m
    <3>5. H[i + 1] = G[(i - n) + 1] BY <1>6, <2>1, <3>1
    <3> QED BY <3>4, <3>5
  <2> QED BY <1>5, <2>2, <2>3, <2>4
<1>11. Chain(H, p \o q, goal)
  <2>1. Len(p \o q) = n + m BY <1>2 DEF n, m
  <2> QED BY <1>8, <1>9, <1>10, <2>1 DEF Chain
<1>12. y \in H[1]
  <2>1. 1 \in 1..n + m + 1 BY <1>5
  <2>2. CASE n > 0
    <3>1. 1 <= n BY <1>5, <2>2
    <3> QED BY <1>3, <1>6, <2>1, <3>1
  <2>3. CASE n = 0
    <3>1. ~(1 <= n) /\ 1 - n = 1 /\ n + 1 = 1 BY <2>3
    <3>2. y \in G[1] BY <1>3, <1>4, <3>1 DEF Chain, n
    <3> QED BY <1>6, <2>1, <3>1, <3>2
  <2> QED BY <1>5, <2>2, <2>3
<1>13. y \in Spellings BY DEF Before
<1> QED BY <1>2, <1>11, <1>12, <1>13 DEF Before

\* a row that adds nothing
LEMMA BeforeSilent ==
    ASSUME NEW row \in Rows, \A i \in 1..Len(row) : row[i] \subseteq {<<>>},
           NEW goal \in SUBSET Spellings, NEW y \in goal
    PROVE  y \in Before(row, goal)
<1>1. Len(row) \in Nat BY DEF Rows
<1> DEFINE F == [i \in 1..Len(row) + 1 |-> goal]
<1>2. F \in [1..Len(row) + 1 -> SUBSET Spellings] OBVIOUS
<1>3. \A i \in 1..Len(row) + 1 : F[i] = goal OBVIOUS
<1> HIDE DEF F
<1>4. ASSUME NEW i \in 1..Len(row), NEW x \in F[i], NEW s \in row[i] PROVE x \o s \in F[i + 1]
  <2>1. i \in 1..Len(row) + 1 /\ i + 1 \in 1..Len(row) + 1 BY <1>1
  <2>2. s = <<>> BY <1>4
  <2>3. x \in goal /\ x \in Spellings BY <1>3, <1>4, <2>1
  <2>4. x \o s = x BY <2>2, <2>3, ConcatEmptySeq DEF Spellings
  <2> QED BY <1>3, <2>1, <2>3, <2>4
<1>5. Len(row) + 1 \in 1..Len(row) + 1 /\ 1 \in 1..Len(row) + 1 BY <1>1
<1>6. Chain(F, row, goal) BY <1>2, <1>3, <1>4, <1>5 DEF Chain
<1> QED BY <1>3, <1>5, <1>6 DEF Before

\* a place before a row
LEMMA BeforeOne ==
    ASSUME NEW words \in SUBSET Spellings, NEW row \in Rows, NEW goal, NEW y \in Spellings,
           \A s \in words : y \o s \in Before(row, goal)
    PROVE  <<words>> \o row \in Rows /\ y \in Before(<<words>> \o row, goal)
<1>1. <<words>> \in Rows /\ Len(<<words>>) = 1 /\ <<words>>[1] = words BY DEF Rows
<1> DEFINE F == [i \in 1..2 |-> IF i = 1 THEN {y} ELSE Before(row, goal)]
<1>2. F \in [1..2 -> SUBSET Spellings] BY BeforeIsSpelt
<1>3. F[1] = {y} /\ F[2] = Before(row, goal) OBVIOUS
<1> HIDE DEF F
<1>4. Chain(F, <<words>>, Before(row, goal))
  <2>1. Len(<<words>>) + 1 = 2 /\ 1..1 = {1} BY <1>1
  <2>2. \A i \in 1..1 : \A x \in F[i], s \in <<words>>[i] : x \o s \in F[i + 1]
    BY <1>1, <1>3, <2>1
  <2> QED BY <1>1, <1>2, <1>3, <2>1, <2>2 DEF Chain
<1>5. y \in Before(<<words>>, Before(row, goal)) BY <1>3, <1>4 DEF Before
<1> QED BY <1>1, <1>5, BeforeJoined

---------------------------------------------------------------------------
(* Commands, and what they spell. *)
Rooted(root) == \E docs \in Shapes : root \in docs

Boxed(docs)    == [doc : docs, indent : Indents, mode : Modes, inline : BOOLEAN]
Deferred(root) == {c \in Boxed(Arena(root)) : WordsOf(c.doc, c.mode) \subseteq {<<>>}}

\* what the renderer puts on its stack beside the nodes of the document
Restored   == {Line("hard")} \cup {[k |-> "text", of |-> b, w |-> n] : b \in Blanks, n \in Nat}
Heads      == {HeadSpace(n) : n \in Nat \ {0}}
Runs(root) == [k : {"run"}, cmds : Seq(Deferred(root)), behind : BOOLEAN]
Printables(root) == Arena(root) \cup Restored \cup Heads \cup Runs(root)
Commands(root)   == Boxed(Printables(root))

Reading(c) ==
    IF c.doc.k \in {"run", "head"} \/ Silent(c.doc) THEN {<<>>} ELSE WordsOf(c.doc, c.mode)
Readings(cmds) == [i \in 1..Len(cmds) |-> Reading(cmds[i])]

LEMMA NodeIs ==
    ASSUME NEW root, Rooted(root), NEW d \in Arena(root)
    PROVE  /\ Parts(d) \subseteq Arena(root)
           /\ WellBuilt(d, Arena(root))
           /\ \A m \in Modes : Spells(d, m)
<1>1. PICK docs \in Shapes : root \in docs BY DEF Rooted
<1>2. Parts(d) \subseteq Arena(root) /\ WellBuilt(d, Arena(root)) BY <1>1, ArenaAssumption
<1>3. \A m \in Modes : Spells(d, m) BY <1>1, WordsAssumption
<1> QED BY <1>2, <1>3

LEMMA NodeWords ==
    ASSUME NEW root, Rooted(root), NEW d \in Arena(root), NEW m \in Modes
    PROVE  /\ WordsOf(d, m) \subseteq Spellings
           /\ Silent(d) => <<>> \in WordsOf(d, m)
<1>1. Spells(d, m) BY NodeIs
<1> QED BY <1>1 DEF Spells, Spellings

LEMMA RootIs ==
    ASSUME NEW root, Rooted(root)
    PROVE  root \in Arena(root)
  BY ArenaAssumption DEF Rooted

LEMMA CommandIs ==
    ASSUME NEW root, NEW c \in Commands(root)
    PROVE  /\ c.doc \in Printables(root) /\ c.indent \in Indents /\ c.mode \in Modes
           /\ c.inline \in BOOLEAN
           /\ c = [doc |-> c.doc, indent |-> c.indent, mode |-> c.mode, inline |-> c.inline]
  BY DEF Commands, Boxed

\* a command in place of a command: another document, indent, mode or route
LEMMA BoxedIs ==
    ASSUME NEW docs, NEW d \in docs, NEW i \in Indents, NEW m \in Modes, NEW inl \in BOOLEAN
    PROVE  [doc |-> d, indent |-> i, mode |-> m, inline |-> inl] \in Boxed(docs)
  BY DEF Boxed

LEMMA WithIs ==
    ASSUME NEW root, NEW c \in Commands(root), NEW d
    PROVE  With(c, d) = [doc |-> d, indent |-> c.indent, mode |-> c.mode, inline |-> c.inline]
<1>1. PICK e, i, m, inl : e = c.doc /\ i = c.indent /\ m = c.mode /\ inl = c.inline OBVIOUS
<1>2. c = [doc |-> e, indent |-> i, mode |-> m, inline |-> inl] BY <1>1, CommandIs
<1>3. With(c, d) = [doc |-> d, indent |-> i, mode |-> m, inline |-> inl] BY <1>2 DEF With
<1> QED BY <1>1, <1>3

LEMMA WithTyped ==
    ASSUME NEW root, NEW c \in Commands(root), NEW d \in Printables(root)
    PROVE  /\ With(c, d) \in Commands(root)
           /\ With(c, d).doc = d /\ With(c, d).indent = c.indent
           /\ With(c, d).mode = c.mode /\ With(c, d).inline = c.inline
<1>1. With(c, d) = [doc |-> d, indent |-> c.indent, mode |-> c.mode, inline |-> c.inline]
  BY WithIs
<1>2. c.indent \in Indents /\ c.mode \in Modes /\ c.inline \in BOOLEAN BY CommandIs
<1>3. With(c, d) \in Commands(root) BY <1>1, <1>2, BoxedIs DEF Commands
<1> QED BY <1>1, <1>3

LEMMA DeferredIs ==
    ASSUME NEW root, Rooted(root), NEW c \in Deferred(root)
    PROVE  /\ c \in Commands(root) /\ c.doc \in Arena(root)
           /\ WordsOf(c.doc, c.mode) \subseteq {<<>>} /\ Reading(c) \subseteq {<<>>}
<1>1. c \in Boxed(Arena(root)) /\ WordsOf(c.doc, c.mode) \subseteq {<<>>} BY DEF Deferred
<1>2. c \in Commands(root) /\ c.doc \in Arena(root)
  BY <1>1 DEF Boxed, Commands, Printables
<1>3. Reading(c) \subseteq {<<>>} BY <1>1 DEF Reading
<1> QED BY <1>1, <1>2, <1>3

\* what is not a node of the document prints no word
LEMMA AddedIsSilent ==
    ASSUME NEW root, NEW c \in Commands(root), c.doc \in Restored \cup Heads \cup Runs(root)
    PROVE  Reading(c) = {<<>>}
<1>1. CASE c.doc = Line("hard")
  <2>1. c.doc.k = "line" BY <1>1 DEF Line
  <2> QED BY <2>1 DEF Reading, Silent
<1>2. CASE \E b \in Blanks, n \in Nat : c.doc = [k |-> "text", of |-> b, w |-> n]
  <2>1. c.doc.k = "text" /\ c.doc.of # "word" BY <1>2 DEF Blanks
  <2> QED BY <2>1 DEF Reading, Silent
<1>3. CASE c.doc \in Heads
  <2>1. c.doc.k = "head" BY <1>3 DEF Heads, HeadSpace
  <2> QED BY <2>1 DEF Reading
<1>4. CASE c.doc \in Runs(root)
  <2>1. c.doc.k = "run" BY <1>4 DEF Runs
  <2> QED BY <2>1 DEF Reading
<1> QED BY <1>1, <1>2, <1>3, <1>4 DEF Restored

LEMMA NodeReading ==
    ASSUME NEW root, Rooted(root), NEW c \in Commands(root), c.doc \in Arena(root)
    PROVE  Reading(c) \subseteq WordsOf(c.doc, c.mode)
<1>1. c.mode \in Modes BY CommandIs
<1>2. WellBuilt(c.doc, Arena(root)) BY NodeIs
<1>3. c.doc.k \notin {"run", "head"} BY <1>2 DEF WellBuilt, Wraps, Leaves
<1>4. CASE Silent(c.doc)
  <2>1. <<>> \in WordsOf(c.doc, c.mode) BY <1>1, <1>4, NodeWords
  <2> QED BY <1>4, <2>1 DEF Reading
<1>5. CASE ~Silent(c.doc) BY <1>3, <1>5 DEF Reading
<1> QED BY <1>4, <1>5

LEMMA ReadingIsSpelt ==
    ASSUME NEW root, Rooted(root), NEW c \in Commands(root)
    PROVE  Reading(c) \in SUBSET Spellings
<1>1. c.doc \in Printables(root) /\ c.mode \in Modes BY CommandIs
<1>2. {<<>>} \subseteq Spellings BY DEF Spellings
<1>3. CASE c.doc \in Arena(root)
  <2>1. WordsOf(c.doc, c.mode) \subseteq Spellings BY <1>1, <1>3, NodeWords
  <2> QED BY <1>2, <2>1 DEF Reading
<1>4. CASE c.doc \notin Arena(root)
  <2>1. Reading(c) = {<<>>} BY <1>1, <1>4, AddedIsSilent DEF Printables
  <2> QED BY <1>2, <2>1
<1> QED BY <1>3, <1>4

LEMMA ReadingsAre ==
    ASSUME NEW root, Rooted(root), NEW cmds \in Seq(Commands(root))
    PROVE  /\ Readings(cmds) \in Rows /\ Len(Readings(cmds)) = Len(cmds)
           /\ \A i \in 1..Len(cmds) : Readings(cmds)[i] = Reading(cmds[i])
<1>1. Len(cmds) \in Nat /\ \A i \in 1..Len(cmds) : cmds[i] \in Commands(root) OBVIOUS
<1>2. \A i \in 1..Len(cmds) : Reading(cmds[i]) \in SUBSET Spellings BY <1>1, ReadingIsSpelt
<1>3. Readings(cmds) \in [1..Len(cmds) -> SUBSET Spellings]
  BY <1>2 DEF Readings
<1>4. Readings(cmds) \in Seq(SUBSET Spellings) /\ Len(Readings(cmds)) = Len(cmds)
  BY <1>1, <1>3
<1> QED BY <1>4 DEF Readings, Rows

LEMMA ReadingsJoined ==
    ASSUME NEW root, Rooted(root), NEW p \in Seq(Commands(root)), NEW q \in Seq(Commands(root))
    PROVE  /\ p \o q \in Seq(Commands(root))
           /\ Readings(p \o q) = Readings(p) \o Readings(q)
<1>1. Len(p) \in Nat /\ Len(q) \in Nat OBVIOUS
<1>2. p \o q \in Seq(Commands(root)) /\ Len(p \o q) = Len(p) + Len(q)
      /\ \A i \in 1..Len(p) + Len(q) : (p \o q)[i] = IF i <= Len(p) THEN p[i] ELSE q[i - Len(p)]
  BY ConcatProperties
<1>3. /\ Readings(p) \in Rows /\ Len(Readings(p)) = Len(p)
      /\ \A i \in 1..Len(p) : Readings(p)[i] = Reading(p[i])
  BY ReadingsAre
<1>4. /\ Readings(q) \in Rows /\ Len(Readings(q)) = Len(q)
      /\ \A i \in 1..Len(q) : Readings(q)[i] = Reading(q[i])
  BY ReadingsAre
<1> DEFINE l == Readings(p \o q)
           r == Readings(p) \o Readings(q)
<1>5. r \in Rows /\ Len(r) = Len(p) + Len(q)
      /\ \A i \in 1..Len(p) + Len(q) :
            r[i] = IF i <= Len(p) THEN Readings(p)[i] ELSE Readings(q)[i - Len(p)]
  <2>1. PICK a \in Rows, b \in Rows : a = Readings(p) /\ b = Readings(q) BY <1>3, <1>4
  <2>2. a \o b \in Rows /\ Len(a \o b) = Len(a) + Len(b)
        /\ \A i \in 1..Len(a) + Len(b) :
              (a \o b)[i] = IF i <= Len(a) THEN a[i] ELSE b[i - Len(a)]
    BY ConcatProperties DEF Rows
  <2> QED BY <1>3, <1>4, <2>1, <2>2
<1>6. l \in Rows /\ Len(l) = Len(p) + Len(q)
      /\ \A i \in 1..Len(p) + Len(q) : l[i] = Reading((p \o q)[i])
  BY <1>2, ReadingsAre
<1> HIDE DEF l, r
<1>7. ASSUME NEW i \in 1..Len(p) + Len(q) PROVE l[i] = r[i]
  <2>1. CASE i <= Len(p)
    <3>1. i \in 1..Len(p) BY <1>1, <2>1
    <3> QED BY <1>2, <1>3, <1>5, <1>6, <2>1, <3>1
  <2>2. CASE ~(i <= Len(p))
    <3>1. i - Len(p) \in 1..Len(q) BY <1>1, <2>2
    <3> QED BY <1>2, <1>4, <1>5, <1>6, <2>2, <3>1
  <2> QED BY <2>1, <2>2
<1>8. l = r BY <1>5, <1>6, <1>7, SeqEqual DEF Rows
<1> QED BY <1>2, <1>8 DEF l, r

\* a row of commands is read in two parts
LEMMA ReadingsSplit ==
    ASSUME NEW root, Rooted(root), NEW cmds \in Seq(Commands(root)), cmds # <<>>
    PROVE  /\ Head(cmds) \in Commands(root) /\ Tail(cmds) \in Seq(Commands(root))
           /\ Readings(cmds) # <<>>
           /\ Head(Readings(cmds)) = Reading(Head(cmds))
           /\ Tail(Readings(cmds)) = Readings(Tail(cmds))
<1>1. Len(cmds) \in Nat /\ Len(cmds) >= 1 OBVIOUS
<1>2. Head(cmds) = cmds[1] /\ Head(cmds) \in Commands(root) /\ Tail(cmds) \in Seq(Commands(root))
      /\ Len(Tail(cmds)) = Len(cmds) - 1
      /\ \A i \in 1..Len(Tail(cmds)) : Tail(cmds)[i] = cmds[i + 1]
  BY HeadTailProperties
<1> DEFINE r == Readings(cmds)
           t == Readings(Tail(cmds))
<1>3. r \in Rows /\ Len(r) = Len(cmds) /\ \A i \in 1..Len(cmds) : r[i] = Reading(cmds[i])
  BY ReadingsAre
<1>4. t \in Rows /\ Len(t) = Len(cmds) - 1
      /\ \A i \in 1..Len(cmds) - 1 : t[i] = Reading(Tail(cmds)[i])
  BY <1>2, ReadingsAre
<1> HIDE DEF r, t
<1>5. r # <<>> BY <1>1, <1>3
<1>6. Head(r) = r[1] /\ 1 \in 1..Len(cmds) BY <1>1, <1>3 DEF Rows
<1>7. Tail(r) \in Rows /\ Len(Tail(r)) = Len(r) - 1
      /\ \A i \in 1..Len(Tail(r)) : Tail(r)[i] = r[i + 1]
  BY <1>3, <1>5, HeadTailProperties DEF Rows
<1>8. ASSUME NEW i \in 1..Len(cmds) - 1 PROVE Tail(r)[i] = t[i]
  <2>1. i \in 1..Len(cmds) /\ i + 1 \in 1..Len(cmds) BY <1>1
  <2> QED BY <1>2, <1>3, <1>4, <1>7, <2>1
<1>9. Tail(r) = t BY <1>3, <1>4, <1>7, <1>8, SeqEqual DEF Rows
<1> QED BY <1>2, <1>3, <1>5, <1>6, <1>9 DEF r, t

---------------------------------------------------------------------------
(* What a step does to the stack. *)

LEMMA HeadAdds ==
    ASSUME NEW root, Rooted(root), NEW cmds \in Seq(Commands(root)), cmds # <<>>, NEW goal,
           NEW y \in Before(Readings(cmds), goal), NEW s \in Reading(Head(cmds))
    PROVE  y \o s \in Before(Readings(Tail(cmds)), goal)
<1>1. Readings(cmds) \in Rows BY ReadingsAre
<1>2. /\ Readings(cmds) # <<>> /\ Head(Readings(cmds)) = Reading(Head(cmds))
      /\ Tail(Readings(cmds)) = Readings(Tail(cmds))
  BY ReadingsSplit
<1>3. s \in Head(Readings(cmds)) BY <1>2
<1>4. y \o s \in Before(Tail(Readings(cmds)), goal) BY <1>1, <1>2, <1>3, BeforeHead
<1> QED BY <1>2, <1>4

LEMMA HeadDropped ==
    ASSUME NEW root, Rooted(root), NEW cmds \in Seq(Commands(root)), cmds # <<>>, NEW goal,
           NEW y \in Before(Readings(cmds), goal), <<>> \in Reading(Head(cmds))
    PROVE  y \in Before(Readings(Tail(cmds)), goal)
<1>1. y \o <<>> \in Before(Readings(Tail(cmds)), goal) BY HeadAdds
<1>2. y \in Seq(Nat) BY BeforeIsSpelt DEF Spellings
<1>3. y \o <<>> = y BY <1>2, ConcatEmptySeq
<1> QED BY <1>1, <1>3

LEMMA HeadSwapped ==
    ASSUME NEW root, Rooted(root), NEW cmds \in Seq(Commands(root)), cmds # <<>>, NEW goal,
           NEW y \in Before(Readings(cmds), goal),
           NEW c \in Commands(root), Reading(c) \subseteq Reading(Head(cmds))
    PROVE  /\ <<c>> \o Tail(cmds) \in Seq(Commands(root))
           /\ y \in Before(Readings(<<c>> \o Tail(cmds)), goal)
<1>1. Tail(cmds) \in Seq(Commands(root)) BY ReadingsSplit
<1>2. <<c>> \in Seq(Commands(root)) /\ Len(<<c>>) = 1 /\ <<c>>[1] = c OBVIOUS
<1>3. Readings(<<c>>) = <<Reading(c)>> BY <1>2 DEF Readings
<1>4. /\ <<c>> \o Tail(cmds) \in Seq(Commands(root))
      /\ Readings(<<c>> \o Tail(cmds)) = <<Reading(c)>> \o Readings(Tail(cmds))
  BY <1>1, <1>2, <1>3, ReadingsJoined
<1>5. Reading(c) \in SUBSET Spellings BY ReadingIsSpelt
<1>6. Readings(Tail(cmds)) \in Rows BY <1>1, ReadingsAre
<1>7. \A s \in Reading(c) : y \o s \in Before(Readings(Tail(cmds)), goal) BY HeadAdds
<1>8. y \in Spellings BY BeforeIsSpelt
<1>9. y \in Before(<<Reading(c)>> \o Readings(Tail(cmds)), goal)
  BY <1>5, <1>6, <1>7, <1>8, BeforeOne
<1> QED BY <1>4, <1>9

\* silent commands ahead of what is left
LEMMA PushedSilent ==
    ASSUME NEW root, Rooted(root), NEW new \in Seq(Commands(root)),
           \A i \in 1..Len(new) : Reading(new[i]) \subseteq {<<>>},
           NEW cmds \in Seq(Commands(root)), NEW goal, NEW y \in Before(Readings(cmds), goal)
    PROVE  /\ new \o cmds \in Seq(Commands(root))
           /\ y \in Before(Readings(new \o cmds), goal)
<1>1. /\ Readings(new) \in Rows /\ Len(Readings(new)) = Len(new)
      /\ \A i \in 1..Len(new) : Readings(new)[i] = Reading(new[i])
  BY ReadingsAre
<1>2. \A i \in 1..Len(Readings(new)) : Readings(new)[i] \subseteq {<<>>} BY <1>1
<1>3. Before(Readings(cmds), goal) \in SUBSET Spellings BY BeforeIsSpelt
<1>4. y \in Before(Readings(new), Before(Readings(cmds), goal)) BY <1>1, <1>2, <1>3, BeforeSilent
<1>5. Readings(cmds) \in Rows BY ReadingsAre
<1>6. y \in Before(Readings(new) \o Readings(cmds), goal) BY <1>1, <1>4, <1>5, BeforeJoined
<1> QED BY <1>6, ReadingsJoined

---------------------------------------------------------------------------
(* Rows of parts: concatenations and fills. *)

LEMMA Regrouped ==
    ASSUME NEW x \in Seq(Nat), NEW s \in Seq(Nat), NEW q \in Seq(Nat)
    PROVE  (x \o s) \o q = x \o (s \o q)
  BY ConcatAssociative, SMTT(60)

\* what the parts from the j-th on spell
RowWords(d, j, m) == WordsOf([d EXCEPT !.kids = SubSeq(@, j, Len(@))], m)

LEMMA RowIs ==
    ASSUME NEW root, Rooted(root), NEW d \in Arena(root), d.k \in {"concat", "fill"},
           NEW m \in Modes
    PROVE  /\ d = [k |-> d.k, kids |-> d.kids] /\ d.kids \in Seq(Arena(root))
           /\ RowWords(d, 1, m) = WordsOf(d, m)
           /\ <<>> \in RowWords(d, Len(d.kids) + 1, m)
           /\ \A j \in 1..Len(d.kids) :
                 /\ RowWords(d, j + 1, m) \subseteq Spellings
                 /\ \A n \in IF d.k = "fill" THEN Modes ELSE {m} :
                       \A p \in WordsOf(d.kids[j], n), q \in RowWords(d, j + 1, m) :
                          p \o q \in RowWords(d, j, m)
<1>1. WellBuilt(d, Arena(root)) /\ Spells(d, m) BY NodeIs
<1>2. d = [k |-> d.k, kids |-> d.kids] /\ d.kids \in Seq(Arena(root)) BY <1>1 DEF WellBuilt
<1>3. RowWords(d, 1, m) = WordsOf(d, m)
  <2>1. PICK k, kids : k = d.k /\ kids = d.kids OBVIOUS
  <2>2. d = [k |-> k, kids |-> kids] /\ kids \in Seq(Arena(root)) BY <1>2, <2>1
  <2>3. SubSeq(kids, 1, Len(kids)) = kids BY <2>2, SubSeqFull
  <2>4. [d EXCEPT !.kids = SubSeq(kids, 1, Len(kids))] = d BY <2>2, <2>3
  <2>5. [d EXCEPT !.kids = SubSeq(@, 1, Len(@))] = [d EXCEPT !.kids = SubSeq(kids, 1, Len(kids))]
    BY <2>1
  <2> QED BY <2>4, <2>5 DEF RowWords
<1>4. /\ <<>> \in RowWords(d, Len(d.kids) + 1, m)
      /\ \A j \in 1..Len(d.kids) :
                 /\ RowWords(d, j + 1, m) \subseteq Spellings
                 /\ \A n \in IF d.k = "fill" THEN Modes ELSE {m} :
                       \A p \in WordsOf(d.kids[j], n), q \in RowWords(d, j + 1, m) :
                          p \o q \in RowWords(d, j, m)
  BY <1>1 DEF Spells, RowWords, Spellings
<1> QED BY <1>2, <1>3, <1>4

\* the parts of a concatenation, each a command of its own
LEMMA ConcatSpelt ==
    ASSUME NEW root, Rooted(root), NEW d \in Arena(root), d.k = "concat",
           NEW m \in Modes, NEW goal \in SUBSET Spellings, NEW y \in Spellings,
           \A p \in WordsOf(d, m) : y \o p \in goal,
           NEW cmds \in Seq(Commands(root)), Len(cmds) = Len(d.kids),
           \A i \in 1..Len(cmds) : cmds[i].doc = d.kids[i] /\ cmds[i].mode = m
    PROVE  y \in Before(Readings(cmds), goal)
<1>1. /\ d.kids \in Seq(Arena(root))
      /\ RowWords(d, 1, m) = WordsOf(d, m)
      /\ <<>> \in RowWords(d, Len(d.kids) + 1, m)
      /\ \A j \in 1..Len(d.kids) :
            /\ RowWords(d, j + 1, m) \subseteq Spellings
            /\ \A p \in WordsOf(d.kids[j], m), q \in RowWords(d, j + 1, m) :
                  p \o q \in RowWords(d, j, m)
  BY RowIs
<1> DEFINE n == Len(cmds)
           F == [j \in 1..n + 1 |-> {x \in Spellings : \A q \in RowWords(d, j, m) : x \o q \in goal}]
<1>2. n \in Nat OBVIOUS
<1>3. \A j \in 1..n + 1 : \A x : x \in F[j] <=> x \in Spellings /\ \A q \in RowWords(d, j, m) : x \o q \in goal
  OBVIOUS
<1>4. F \in [1..n + 1 -> SUBSET Spellings] OBVIOUS
<1> HIDE DEF F
<1>5. F[n + 1] \subseteq goal
  <2>1. ASSUME NEW x \in F[n + 1] PROVE x \in goal
    <3>1. n + 1 \in 1..n + 1 BY <1>2
    <3>2. x \in Spellings /\ x \o <<>> \in goal BY <1>1, <1>3, <2>1, <3>1
    <3>3. x \o <<>> = x BY <3>2, ConcatEmptySeq DEF Spellings
    <3> QED BY <3>2, <3>3
  <2> QED BY <2>1
<1>6. /\ Readings(cmds) \in Rows /\ Len(Readings(cmds)) = n
      /\ \A i \in 1..n : Readings(cmds)[i] = Reading(cmds[i])
  BY ReadingsAre
<1>7. ASSUME NEW i \in 1..n, NEW x \in F[i], NEW s \in Readings(cmds)[i] PROVE x \o s \in F[i + 1]
  <2>1. i \in 1..n + 1 /\ i + 1 \in 1..n + 1 /\ i \in 1..Len(d.kids) BY <1>2
  <2>2. cmds[i] \in Commands(root) /\ cmds[i].doc = d.kids[i] /\ cmds[i].mode = m
        /\ d.kids[i] \in Arena(root)
    BY <1>1, <2>1
  <2>3. Reading(cmds[i]) \subseteq WordsOf(d.kids[i], m) BY <2>2, NodeReading
  <2>4. s \in WordsOf(d.kids[i], m) BY <1>6, <1>7, <2>3
  <2>5. WordsOf(d.kids[i], m) \subseteq Spellings BY <2>2, NodeWords
  <2>6. x \in Seq(Nat) /\ s \in Seq(Nat) BY <1>3, <1>7, <2>1, <2>4, <2>5 DEF Spellings
  <2>7. x \o s \in Spellings BY <2>6, ConcatProperties DEF Spellings
  <2>8. ASSUME NEW q \in RowWords(d, i + 1, m) PROVE (x \o s) \o q \in goal
    <3>1. q \in Seq(Nat) BY <1>1, <2>1, <2>8 DEF Spellings
    <3>2. s \o q \in RowWords(d, i, m) BY <1>1, <2>1, <2>4, <2>8
    <3>3. x \o (s \o q) \in goal BY <1>3, <1>7, <2>1, <3>2
    <3>4. (x \o s) \o q = x \o (s \o q) BY <2>6, <3>1, Regrouped, Zenon
    <3> QED BY <3>3, <3>4, Zenon
  <2> QED BY <1>3, <2>1, <2>7, <2>8
<1>8. Chain(F, Readings(cmds), goal) BY <1>4, <1>5, <1>6, <1>7 DEF Chain
<1>9. y \in F[1]
  <2>1. 1 \in 1..n + 1 BY <1>2
  <2> QED BY <1>1, <1>3, <2>1
<1> QED BY <1>8, <1>9 DEF Before

---------------------------------------------------------------------------
(* Fills. *)
Jobs(root) == [doc : Arena(root), mode : Modes \cup {"by_fit"}]
Fillings(root) ==
    {f \in [parts : Seq(Arena(root)), at : Nat \ {0}, jobs : Seq(Jobs(root)), busy : BOOLEAN,
            indent : Indents, reserve : Nat,
            flags : SUBSET {"glued_lead", "after_element_fold"},
            rest : Seq(Commands(root)), deferred : Seq(Deferred(root))]
        : Fill(f.parts) \in Arena(root)}

Either(d)      == WordsOf(d, "flat") \cup WordsOf(d, "break")
JobReads(jobs) == [i \in 1..Len(jobs) |-> Either(jobs[i].doc)]

\* what may be printed before the parts a fill has not packed
Pending(parts, at, m, goal) ==
    {x \in Spellings : \A q \in RowWords(Fill(parts), at, m) : x \o q \in goal}

\* X is what may be printed when nothing of the current part is left, Y what
\* may be printed before what the fill was met in front of has been printed
FillStep(f, X, Y) ==
    \E m \in Modes :
        X \subseteq Before(JobReads(f.jobs),
                           Pending(f.parts, f.at, m, Before(Readings(f.rest), Y)))

\* A[i] is what may be printed when the i-th fill is the innermost
Stack(A, root, fls) ==
    /\ A \in [1..Len(fls) + 1 -> SUBSET Spellings]
    /\ A[Len(fls) + 1] \subseteq WordsOf(root, "break")
    /\ \A i \in 1..Len(fls) : FillStep(fls[i], A[i], A[i + 1])

Packed(root, fls, X) == \E A : Stack(A, root, fls) /\ A[1] = X

\* what is printed can still be completed to one of the document's spellings
Kept(root, tokens, cmds, fls) ==
    \E X, y : Packed(root, fls, X) /\ Spelt(tokens, y) /\ y \in Before(Readings(cmds), X)

LEMMA RowEnd ==
    ASSUME NEW S, NEW parts \in Seq(S), NEW at \in Nat, at > Len(parts), NEW m
    PROVE  RowWords(Fill(parts), at, m) = RowWords(Fill(parts), Len(parts) + 1, m)
<1>1. Len(parts) \in Nat OBVIOUS
<1>2. SubSeq(parts, at, Len(parts)) = <<>> BY <1>1
<1>3. SubSeq(parts, Len(parts) + 1, Len(parts)) = <<>> BY <1>1
<1>4. Fill(parts).kids = parts BY DEF Fill
<1> QED BY <1>2, <1>3, <1>4 DEF RowWords

LEMMA EitherIsSpelt ==
    ASSUME NEW root, Rooted(root), NEW d \in Arena(root)
    PROVE  Either(d) \in SUBSET Spellings
  BY NodeWords DEF Either, Modes

LEMMA JobReadsAre ==
    ASSUME NEW root, Rooted(root), NEW jobs \in Seq(Jobs(root))
    PROVE  /\ JobReads(jobs) \in Rows /\ Len(JobReads(jobs)) = Len(jobs)
           /\ \A i \in 1..Len(jobs) : JobReads(jobs)[i] = Either(jobs[i].doc)
<1>1. Len(jobs) \in Nat /\ \A i \in 1..Len(jobs) : jobs[i].doc \in Arena(root)
  <2>1. Len(jobs) \in Nat /\ \A i \in 1..Len(jobs) : jobs[i] \in Jobs(root) OBVIOUS
  <2>2. \A j \in Jobs(root) : j.doc \in Arena(root) BY DEF Jobs
  <2> QED BY <2>1, <2>2
<1>2. \A i \in 1..Len(jobs) : Either(jobs[i].doc) \in SUBSET Spellings BY <1>1, EitherIsSpelt
<1>3. JobReads(jobs) \in [1..Len(jobs) -> SUBSET Spellings] BY <1>2 DEF JobReads
<1>4. JobReads(jobs) \in Seq(SUBSET Spellings) /\ Len(JobReads(jobs)) = Len(jobs)
  BY <1>1, <1>3
<1> QED BY <1>4 DEF JobReads, Rows

\* a part is taken from the parts that wait: it may be printed in either mode
LEMMA PartTaken ==
    ASSUME NEW root, Rooted(root), NEW parts \in Seq(Arena(root)), Fill(parts) \in Arena(root),
           NEW at \in 1..Len(parts), NEW m \in Modes, NEW goal,
           NEW x \in Pending(parts, at, m, goal), NEW p \in Either(parts[at])
    PROVE  x \o p \in Pending(parts, at + 1, m, goal)
<1>1. parts[at] \in Arena(root) OBVIOUS
<1>2. Either(parts[at]) \subseteq Spellings BY <1>1, EitherIsSpelt
<1>3. x \in Seq(Nat) /\ p \in Seq(Nat) BY <1>2 DEF Pending, Spellings
<1>4. x \o p \in Spellings BY <1>3, ConcatProperties DEF Spellings
<1>5. Fill(parts).k = "fill" /\ Fill(parts).kids = parts BY DEF Fill
<1>6. /\ RowWords(Fill(parts), at + 1, m) \subseteq Spellings
      /\ \A n \in Modes : \A s \in WordsOf(parts[at], n), q \in RowWords(Fill(parts), at + 1, m) :
            s \o q \in RowWords(Fill(parts), at, m)
  BY <1>5, RowIs
<1>7. ASSUME NEW q \in RowWords(Fill(parts), at + 1, m) PROVE (x \o p) \o q \in goal
  <2>1. q \in Seq(Nat) BY <1>6 DEF Spellings
  <2>2. \E n \in Modes : p \in WordsOf(parts[at], n) BY DEF Either, Modes
  <2>3. p \o q \in RowWords(Fill(parts), at, m) BY <1>6, <2>2
  <2>4. x \o (p \o q) \in goal BY <2>3 DEF Pending
  <2>5. (x \o p) \o q = x \o (p \o q) BY <1>3, <2>1, Regrouped, Zenon
  <2> QED BY <2>4, <2>5, Zenon
<1> QED BY <1>4, <1>7 DEF Pending

\* no part is left
LEMMA PartsDone ==
    ASSUME NEW root, Rooted(root), NEW parts \in Seq(Arena(root)), Fill(parts) \in Arena(root),
           NEW at \in Nat, at > Len(parts), NEW m \in Modes, NEW goal,
           NEW x \in Pending(parts, at, m, goal)
    PROVE  x \in goal
<1>1. Fill(parts).k = "fill" /\ Fill(parts).kids = parts BY DEF Fill
<1>2. <<>> \in RowWords(Fill(parts), Len(parts) + 1, m) BY <1>1, RowIs
<1>3. <<>> \in RowWords(Fill(parts), at, m) BY <1>2, RowEnd
<1>4. x \in Seq(Nat) /\ x \o <<>> \in goal BY <1>3 DEF Pending, Spellings
<1>5. x \o <<>> = x BY <1>4, ConcatEmptySeq
<1> QED BY <1>4, <1>5

\* past the last part it makes no difference how far
LEMMA PastTheLast ==
    ASSUME NEW S, NEW parts \in Seq(S), NEW m, NEW goal
    PROVE  Pending(parts, Len(parts) + 2, m, goal) = Pending(parts, Len(parts) + 1, m, goal)
<1>1. Len(parts) \in Nat /\ Len(parts) + 2 \in Nat /\ Len(parts) + 2 > Len(parts) OBVIOUS
<1>2. RowWords(Fill(parts), Len(parts) + 2, m) = RowWords(Fill(parts), Len(parts) + 1, m)
  BY <1>1, RowEnd
<1> QED BY <1>2 DEF Pending

LEMMA PendingSpelt ==
    ASSUME NEW parts, NEW at, NEW m, NEW goal
    PROVE  Pending(parts, at, m, goal) \in SUBSET Spellings
  BY DEF Pending

\* the next one or two parts become the jobs of a turn
LEMMA TurnTaken ==
    ASSUME NEW root, Rooted(root), NEW parts \in Seq(Arena(root)), Fill(parts) \in Arena(root),
           NEW at \in 1..Len(parts), NEW m \in Modes, NEW goal,
           NEW jobs \in Seq(Jobs(root)), Len(jobs) = (IF at = Len(parts) THEN 1 ELSE 2),
           \A i \in 1..Len(jobs) : jobs[i].doc = parts[at + i - 1],
           NEW x \in Pending(parts, at, m, goal)
    PROVE  x \in Before(JobReads(jobs), Pending(parts, at + 2, m, goal))
<1> DEFINE R == JobReads(jobs)
           F == [i \in 1..Len(jobs) + 1 |-> Pending(parts, at + i - 1, m, goal)]
<1>1. Len(parts) \in Nat /\ at \in Nat OBVIOUS
<1>2. R \in Rows /\ Len(R) = Len(jobs) /\ \A i \in 1..Len(jobs) : R[i] = Either(parts[at + i - 1])
  BY JobReadsAre
<1>3. Len(jobs) \in 1..2 BY <1>1
<1>4. F \in [1..Len(jobs) + 1 -> SUBSET Spellings] BY PendingSpelt
<1>5. \A i \in 1..Len(jobs) + 1 : F[i] = Pending(parts, at + i - 1, m, goal) OBVIOUS
<1> HIDE DEF F, R
<1>6. F[Len(jobs) + 1] = Pending(parts, at + 2, m, goal)
  <2>1. Len(jobs) + 1 \in 1..Len(jobs) + 1 BY <1>3
  <2>2. F[Len(jobs) + 1] = Pending(parts, at + (Len(jobs) + 1) - 1, m, goal) BY <1>5, <2>1
  <2>3. CASE at = Len(parts)
    <3>1. at + (Len(jobs) + 1) - 1 = Len(parts) + 1 /\ at + 2 = Len(parts) + 2 BY <1>1, <2>3
    <3> QED BY <2>2, <3>1, PastTheLast
  <2>4. CASE at # Len(parts)
    <3>1. at + (Len(jobs) + 1) - 1 = at + 2 BY <1>1, <2>4
    <3> QED BY <2>2, <3>1
  <2> QED BY <2>3, <2>4
<1>7. ASSUME NEW i \in 1..Len(jobs), NEW z \in F[i], NEW s \in R[i] PROVE z \o s \in F[i + 1]
  <2>1. at + i - 1 \in 1..Len(parts) /\ i \in 1..Len(jobs) + 1 /\ i + 1 \in 1..Len(jobs) + 1
        /\ at + (i + 1) - 1 = (at + i - 1) + 1
    BY <1>1, <1>3
  <2>2. z \in Pending(parts, at + i - 1, m, goal) /\ s \in Either(parts[at + i - 1])
    BY <1>2, <1>5, <1>7, <2>1
  <2>3. z \o s \in Pending(parts, (at + i - 1) + 1, m, goal) BY <2>1, <2>2, PartTaken
  <2> QED BY <1>5, <2>1, <2>3
<1>8. Chain(F, R, Pending(parts, at + 2, m, goal)) BY <1>2, <1>4, <1>6, <1>7 DEF Chain
<1>9. x \in F[1]
  <2>1. 1 \in 1..Len(jobs) + 1 /\ at + 1 - 1 = at BY <1>1, <1>3
  <2> QED BY <1>5, <2>1
<1>10. x \in Spellings BY PendingSpelt
<1> QED BY <1>8, <1>9, <1>10 DEF Before, R

---------------------------------------------------------------------------
(* The stack of fills. *)

\* a fill on top of those it is packed in
LEMMA Pack ==
    ASSUME NEW root, NEW fls \in Seq(Fillings(root)), fls # <<>>, NEW X \in SUBSET Spellings, NEW Y,
           FillStep(fls[1], X, Y), Packed(root, Tail(fls), Y)
    PROVE  Packed(root, fls, X)
<1>1. Len(fls) \in Nat /\ Len(fls) >= 1 OBVIOUS
<1>2. Len(Tail(fls)) = Len(fls) - 1 /\ \A i \in 1..Len(fls) - 1 : Tail(fls)[i] = fls[i + 1]
  BY HeadTailProperties
<1>3. PICK A : Stack(A, root, Tail(fls)) /\ A[1] = Y BY DEF Packed
<1> DEFINE n == Len(fls)
           B == [i \in 1..n + 1 |-> IF i = 1 THEN X ELSE A[i - 1]]
<1>4. A \in [1..n -> SUBSET Spellings] /\ A[n] \subseteq WordsOf(root, "break")
      /\ \A i \in 1..n - 1 : FillStep(fls[i + 1], A[i], A[i + 1])
  <2>1. Len(Tail(fls)) + 1 = n BY <1>1, <1>2
  <2> QED BY <1>1, <1>2, <1>3, <2>1 DEF Stack
<1>5. n \in Nat /\ n >= 1 BY <1>1
<1> HIDE DEF n
<1>6. \A i \in 1..n + 1 : i # 1 => i - 1 \in 1..n BY <1>5
<1>7. B \in [1..n + 1 -> SUBSET Spellings] BY <1>4, <1>6
<1>8. \A i \in 1..n + 1 : B[i] = IF i = 1 THEN X ELSE A[i - 1] OBVIOUS
<1> HIDE DEF B
<1>9. B[1] = X
  <2>1. 1 \in 1..n + 1 BY <1>5
  <2> QED BY <1>8, <2>1
<1>10. B[n + 1] = A[n]
  <2>1. n + 1 \in 1..n + 1 /\ n + 1 # 1 /\ (n + 1) - 1 = n BY <1>5
  <2> QED BY <1>8, <2>1
<1>11. ASSUME NEW i \in 1..n PROVE FillStep(fls[i], B[i], B[i + 1])
  <2>1. i + 1 \in 1..n + 1 /\ i + 1 # 1 /\ (i + 1) - 1 = i /\ i \in 1..n + 1 BY <1>5
  <2>2. B[i + 1] = A[i] BY <1>8, <2>1
  <2>3. CASE i = 1 BY <1>3, <1>9, <2>2, <2>3
  <2>4. CASE i # 1
    <3>1. i - 1 \in 1..n - 1 /\ (i - 1) + 1 = i BY <1>5, <2>4
    <3>2. B[i] = A[i - 1] BY <1>8, <2>1, <2>4
    <3>3. FillStep(fls[i], A[i - 1], A[i]) BY <1>4, <3>1
    <3> QED BY <2>2, <3>2, <3>3
  <2> QED BY <2>3, <2>4
<1>12. Stack(B, root, fls) BY <1>4, <1>7, <1>10, <1>11 DEF Stack, n
<1> QED BY <1>9, <1>12 DEF Packed

LEMMA Unpack ==
    ASSUME NEW root, NEW fls \in Seq(Fillings(root)), fls # <<>>, NEW X, Packed(root, fls, X)
    PROVE  \E Y : FillStep(fls[1], X, Y) /\ Packed(root, Tail(fls), Y)
<1>1. Len(fls) \in Nat /\ Len(fls) >= 1 OBVIOUS
<1>2. PICK new \in Seq(Fillings(root)) :
         /\ new = Tail(fls) /\ Len(new) = Len(fls) - 1
         /\ \A i \in 1..Len(new) : new[i] = fls[i + 1]
  BY HeadTailProperties
<1>3. PICK A : Stack(A, root, fls) /\ A[1] = X BY DEF Packed
<1> DEFINE B == [i \in 1..Len(new) + 1 |-> A[i + 1]]
<1>4. A \in [1..Len(fls) + 1 -> SUBSET Spellings] /\ A[Len(fls) + 1] \subseteq WordsOf(root, "break")
      /\ \A i \in 1..Len(fls) : FillStep(fls[i], A[i], A[i + 1])
  BY <1>3 DEF Stack
<1>5. \A i \in 1..Len(new) + 1 : i + 1 \in 1..Len(fls) + 1 BY <1>1, <1>2
<1>6. B \in [1..Len(new) + 1 -> SUBSET Spellings] BY <1>4, <1>5
<1>7. \A i \in 1..Len(new) + 1 : B[i] = A[i + 1] OBVIOUS
<1> HIDE DEF B
<1>8. B[1] = A[2]
  <2>1. 1 \in 1..Len(new) + 1 /\ 1 + 1 = 2 BY <1>1, <1>2
  <2> QED BY <1>7, <2>1
<1>9. B[Len(new) + 1] = A[Len(fls) + 1]
  <2>1. Len(new) + 1 \in 1..Len(new) + 1 /\ (Len(new) + 1) + 1 = Len(fls) + 1 BY <1>1, <1>2
  <2> QED BY <1>7, <2>1
<1>10. ASSUME NEW i \in 1..Len(new) PROVE FillStep(new[i], B[i], B[i + 1])
  <2>1. i + 1 \in 1..Len(new) + 1 /\ i \in 1..Len(new) + 1 /\ i + 1 \in 1..Len(fls) BY <1>1, <1>2
  <2>2. new[i] = fls[i + 1] /\ B[i] = A[i + 1] /\ B[i + 1] = A[(i + 1) + 1] BY <1>2, <1>7, <2>1
  <2>3. FillStep(fls[i + 1], A[i + 1], A[(i + 1) + 1]) BY <1>4, <2>1
  <2> QED BY <2>2, <2>3
<1>11. Stack(B, root, new) BY <1>4, <1>6, <1>9, <1>10 DEF Stack
<1>12. FillStep(fls[1], X, A[2])
  <2>1. 1 \in 1..Len(fls) /\ 1 + 1 = 2 BY <1>1
  <2>2. FillStep(fls[1], A[1], A[1 + 1]) BY <1>4, <2>1
  <2> QED BY <1>3, <2>1, <2>2
<1>13. Packed(root, Tail(fls), A[2]) BY <1>2, <1>8, <1>11 DEF Packed
<1> QED BY <1>12, <1>13

LEMMA PackedSpelt ==
    ASSUME NEW root, NEW fls \in Seq(Fillings(root)), NEW X, Packed(root, fls, X)
    PROVE  X \in SUBSET Spellings
<1>1. PICK A : Stack(A, root, fls) /\ A[1] = X BY DEF Packed
<1>2. 1 \in 1..Len(fls) + 1 OBVIOUS
<1> QED BY <1>1, <1>2 DEF Stack

---------------------------------------------------------------------------
(* What is printed stays completable. *)

LEMMA KeptAsPrinted ==
    ASSUME NEW root, NEW s, NEW t, \A y : Spelt(s, y) => Spelt(t, y),
           NEW cmds, NEW fls, Kept(root, s, cmds, fls)
    PROVE  Kept(root, t, cmds, fls)
  BY DEF Kept

LEMMA KeptDropped ==
    ASSUME NEW root, Rooted(root), NEW cmds \in Seq(Commands(root)), cmds # <<>>,
           <<>> \in Reading(Head(cmds)), NEW s, NEW fls, Kept(root, s, cmds, fls)
    PROVE  Kept(root, s, Tail(cmds), fls)
<1>1. PICK X, y : Packed(root, fls, X) /\ Spelt(s, y) /\ y \in Before(Readings(cmds), X)
  BY DEF Kept
<1>2. y \in Before(Readings(Tail(cmds)), X) BY <1>1, HeadDropped
<1> QED BY <1>1, <1>2 DEF Kept

LEMMA KeptSwapped ==
    ASSUME NEW root, Rooted(root), NEW cmds \in Seq(Commands(root)), cmds # <<>>,
           NEW c \in Commands(root), Reading(c) \subseteq Reading(Head(cmds)),
           NEW s, NEW fls, Kept(root, s, cmds, fls)
    PROVE  /\ <<c>> \o Tail(cmds) \in Seq(Commands(root))
           /\ Kept(root, s, <<c>> \o Tail(cmds), fls)
<1>1. PICK X, y : Packed(root, fls, X) /\ Spelt(s, y) /\ y \in Before(Readings(cmds), X)
  BY DEF Kept
<1>2. /\ <<c>> \o Tail(cmds) \in Seq(Commands(root))
      /\ y \in Before(Readings(<<c>> \o Tail(cmds)), X)
  BY <1>1, HeadSwapped
<1> QED BY <1>1, <1>2 DEF Kept

LEMMA KeptPushed ==
    ASSUME NEW root, Rooted(root), NEW new \in Seq(Commands(root)),
           \A i \in 1..Len(new) : Reading(new[i]) \subseteq {<<>>},
           NEW cmds \in Seq(Commands(root)), NEW s, NEW fls, Kept(root, s, cmds, fls)
    PROVE  /\ new \o cmds \in Seq(Commands(root))
           /\ Kept(root, s, new \o cmds, fls)
<1>1. PICK X, y : Packed(root, fls, X) /\ Spelt(s, y) /\ y \in Before(Readings(cmds), X)
  BY DEF Kept
<1>2. /\ new \o cmds \in Seq(Commands(root))
      /\ y \in Before(Readings(new \o cmds), X)
  BY <1>1, PushedSilent
<1> QED BY <1>1, <1>2 DEF Kept

\* a word is printed
LEMMA KeptWord ==
    ASSUME NEW root, Rooted(root), NEW cmds \in Seq(Commands(root)), cmds # <<>>,
           NEW w \in Nat, <<w>> \in Reading(Head(cmds)),
           NEW s \in Seq(Tokens), NEW fls, Kept(root, s, cmds, fls)
    PROVE  Kept(root, Append(s, <<"word", w>>), Tail(cmds), fls)
<1>1. PICK X, y : Packed(root, fls, X) /\ Spelt(s, y) /\ y \in Before(Readings(cmds), X)
  BY DEF Kept
<1>2. y \o <<w>> \in Before(Readings(Tail(cmds)), X) BY <1>1, HeadAdds
<1>3. Spelt(Append(s, <<"word", w>>), y \o <<w>>) BY <1>1, PutWord
<1> QED BY <1>1, <1>2, <1>3 DEF Kept

\* a concatenation is replaced by its parts
LEMMA KeptUnfolded ==
    ASSUME NEW root, Rooted(root), NEW cmds \in Seq(Commands(root)), cmds # <<>>,
           Head(cmds).doc \in Arena(root), Head(cmds).doc.k = "concat",
           NEW new \in Seq(Commands(root)), Len(new) = Len(Head(cmds).doc.kids),
           \A i \in 1..Len(new) :
               new[i].doc = Head(cmds).doc.kids[i] /\ new[i].mode = Head(cmds).mode,
           NEW s, NEW fls, Kept(root, s, cmds, fls)
    PROVE  /\ new \o Tail(cmds) \in Seq(Commands(root))
           /\ Kept(root, s, new \o Tail(cmds), fls)
<1>1. PICK X, y : Packed(root, fls, X) /\ Spelt(s, y) /\ y \in Before(Readings(cmds), X)
  BY DEF Kept
<1>2. PICK c \in Commands(root) : c = Head(cmds) BY ReadingsSplit
<1>3. Tail(cmds) \in Seq(Commands(root)) BY ReadingsSplit
<1>4. c.mode \in Modes BY CommandIs
<1>5. Reading(c) = WordsOf(c.doc, c.mode) BY <1>2 DEF Reading, Silent
<1>6. \A p \in WordsOf(c.doc, c.mode) : y \o p \in Before(Readings(Tail(cmds)), X)
  BY <1>1, <1>2, <1>5, HeadAdds
<1>7. Before(Readings(Tail(cmds)), X) \in SUBSET Spellings /\ y \in Spellings
  BY <1>1, BeforeIsSpelt
<1>8. y \in Before(Readings(new), Before(Readings(Tail(cmds)), X))
  BY <1>2, <1>4, <1>6, <1>7, ConcatSpelt
<1>9. Readings(new) \in Rows /\ Readings(Tail(cmds)) \in Rows BY <1>3, ReadingsAre
<1>10. /\ new \o Tail(cmds) \in Seq(Commands(root))
       /\ Readings(new \o Tail(cmds)) = Readings(new) \o Readings(Tail(cmds))
  BY <1>3, ReadingsJoined
<1>11. y \in Before(Readings(new \o Tail(cmds)), X)
  BY <1>8, <1>9, <1>10, BeforeJoined
<1> QED BY <1>1, <1>10, <1>11 DEF Kept

LEMMA NoReadings == Readings(<<>>) = <<>> /\ JobReads(<<>>) = <<>>
  BY DEF Readings, JobReads

LEMMA FillStepIs ==
    ASSUME NEW f, NEW X, NEW Y
    PROVE  FillStep(f, X, Y) <=>
              \E m \in Modes :
                 X \subseteq Before(JobReads(f.jobs),
                                    Pending(f.parts, f.at, m, Before(Readings(f.rest), Y)))
  BY DEF FillStep

\* where no job is left, what may be printed is what waits for the parts
LEMMA IdleStep ==
    ASSUME NEW f, f.jobs = <<>>, NEW X, NEW Y
    PROVE  FillStep(f, X, Y) <=>
              \E m \in Modes : X \subseteq Pending(f.parts, f.at, m, Before(Readings(f.rest), Y))
<1>1. \A m : Before(<<>>, Pending(f.parts, f.at, m, Before(Readings(f.rest), Y)))
              = Pending(f.parts, f.at, m, Before(Readings(f.rest), Y))
  BY PendingSpelt, BeforeNothing
<1> QED BY <1>1, NoReadings DEF FillStep

\* a fill is met
LEMMA KeptFill ==
    ASSUME NEW root, Rooted(root), NEW cmds \in Seq(Commands(root)), cmds # <<>>,
           NEW d \in Arena(root), d.k = "fill", NEW m \in Modes,
           WordsOf(d, m) \subseteq Reading(Head(cmds)),
           NEW new \in Seq(Fillings(root)), new # <<>>,
           new[1].parts = d.kids, new[1].at = 1, new[1].jobs = <<>>, new[1].rest = Tail(cmds),
           NEW s, Kept(root, s, cmds, Tail(new))
    PROVE  Kept(root, s, <<>>, new)
<1>1. PICK Y, y : Packed(root, Tail(new), Y) /\ Spelt(s, y) /\ y \in Before(Readings(cmds), Y)
  BY DEF Kept
<1>2. y \in Spellings BY <1>1, BeforeIsSpelt
<1>3. d = [k |-> d.k, kids |-> d.kids] /\ RowWords(d, 1, m) = WordsOf(d, m) BY RowIs
<1>4. PICK f : f = new[1] OBVIOUS
<1>5. Fill(f.parts) = d BY <1>3, <1>4 DEF Fill
<1>6. \A q \in WordsOf(d, m) : y \o q \in Before(Readings(Tail(cmds)), Y)
  BY <1>1, HeadAdds
<1>7. y \in Pending(f.parts, f.at, m, Before(Readings(f.rest), Y))
  BY <1>2, <1>3, <1>4, <1>5, <1>6 DEF Pending
<1>8. PICK X \in SUBSET Spellings : X = {y} BY <1>2
<1>9. FillStep(f, X, Y)
  <2>1. X \subseteq Pending(f.parts, f.at, m, Before(Readings(f.rest), Y)) BY <1>7, <1>8
  <2> QED BY <1>4, <2>1, IdleStep
<1>10. FillStep(new[1], X, Y) BY <1>4, <1>9
<1>11. Packed(root, new, X) BY <1>1, <1>10, Pack
<1>12. y \in Before(Readings(<<>>), X) BY <1>8, NoReadings, BeforeNothing
<1> QED BY <1>1, <1>11, <1>12 DEF Kept

\* a turn of the loop takes the next item and its separator
LEMMA KeptTurn ==
    ASSUME NEW root, Rooted(root), NEW fls \in Seq(Fillings(root)), fls # <<>>,
           fls[1].jobs = <<>>, fls[1].at <= Len(fls[1].parts),
           NEW new \in Seq(Fillings(root)), new # <<>>, Tail(new) = Tail(fls),
           new[1].parts = fls[1].parts, new[1].rest = fls[1].rest, new[1].at = fls[1].at + 2,
           Len(new[1].jobs) = (IF fls[1].at = Len(fls[1].parts) THEN 1 ELSE 2),
           \A i \in 1..Len(new[1].jobs) : new[1].jobs[i].doc = fls[1].parts[fls[1].at + i - 1],
           NEW s, Kept(root, s, <<>>, fls)
    PROVE  Kept(root, s, <<>>, new)
<1>1. PICK X, y : Packed(root, fls, X) /\ Spelt(s, y) /\ y \in Before(Readings(<<>>), X)
  BY DEF Kept
<1>2. X \in SUBSET Spellings BY <1>1, PackedSpelt
<1>3. 1 \in 1..Len(fls) /\ 1 \in 1..Len(new) OBVIOUS
<1>4. PICK Y : FillStep(fls[1], X, Y) /\ Packed(root, Tail(fls), Y) BY <1>1, Unpack
<1>5. PICK f \in Fillings(root), g \in Fillings(root) : f = fls[1] /\ g = new[1] BY <1>3
<1>6. PICK m \in Modes : X \subseteq Pending(f.parts, f.at, m, Before(Readings(f.rest), Y))
  BY <1>4, <1>5, IdleStep
<1>7. f.parts \in Seq(Arena(root)) /\ Fill(f.parts) \in Arena(root) /\ f.at \in Nat \ {0}
      /\ g.jobs \in Seq(Jobs(root))
  BY DEF Fillings
<1>8. f.at \in 1..Len(f.parts) BY <1>5, <1>7
<1>9. ASSUME NEW x \in X
      PROVE  x \in Before(JobReads(g.jobs),
                          Pending(f.parts, f.at + 2, m, Before(Readings(f.rest), Y)))
  <2>1. x \in Pending(f.parts, f.at, m, Before(Readings(f.rest), Y)) BY <1>6
  <2>2. Len(g.jobs) = (IF f.at = Len(f.parts) THEN 1 ELSE 2)
        /\ \A i \in 1..Len(g.jobs) : g.jobs[i].doc = f.parts[f.at + i - 1]
    BY <1>5
  <2> QED BY <1>7, <1>8, <2>1, <2>2, TurnTaken
<1>10. FillStep(new[1], X, Y)
  <2>1. g.parts = f.parts /\ g.rest = f.rest /\ g.at = f.at + 2 BY <1>5
  <2>2. FillStep(g, X, Y) BY <1>9, <2>1, FillStepIs
  <2> QED BY <1>5, <2>2
<1>11. Packed(root, Tail(new), Y) BY <1>4
<1>12. Packed(root, new, X) BY <1>2, <1>10, <1>11, Pack
<1> QED BY <1>1, <1>12 DEF Kept

LEMMA JobReadsSplit ==
    ASSUME NEW root, Rooted(root), NEW jobs \in Seq(Jobs(root)), jobs # <<>>
    PROVE  /\ JobReads(jobs) \in Rows /\ JobReads(jobs) # <<>>
           /\ Head(JobReads(jobs)) = Either(Head(jobs).doc)
           /\ Tail(JobReads(jobs)) = JobReads(Tail(jobs))
<1>1. Len(jobs) \in Nat /\ Len(jobs) >= 1 OBVIOUS
<1>2. Head(jobs) = jobs[1] /\ Tail(jobs) \in Seq(Jobs(root)) /\ Len(Tail(jobs)) = Len(jobs) - 1
      /\ \A i \in 1..Len(Tail(jobs)) : Tail(jobs)[i] = jobs[i + 1]
  BY HeadTailProperties
<1>3. PICK r \in Rows : r = JobReads(jobs) /\ Len(r) = Len(jobs)
         /\ \A i \in 1..Len(jobs) : r[i] = Either(jobs[i].doc)
  BY JobReadsAre
<1>4. PICK t \in Rows : t = JobReads(Tail(jobs)) /\ Len(t) = Len(jobs) - 1
         /\ \A i \in 1..Len(jobs) - 1 : t[i] = Either(Tail(jobs)[i].doc)
  BY <1>2, JobReadsAre
<1>5. r # <<>> BY <1>1, <1>3
<1>6. Head(r) = r[1] /\ 1 \in 1..Len(jobs) BY <1>1, <1>3 DEF Rows
<1>7. Tail(r) \in Rows /\ Len(Tail(r)) = Len(r) - 1
      /\ \A i \in 1..Len(Tail(r)) : Tail(r)[i] = r[i + 1]
  BY <1>5, HeadTailProperties DEF Rows
<1>8. ASSUME NEW i \in 1..Len(jobs) - 1 PROVE Tail(r)[i] = t[i]
  <2>1. i \in 1..Len(jobs) /\ i + 1 \in 1..Len(jobs) BY <1>1
  <2>2. Tail(r)[i] = r[i + 1] BY <1>3, <1>7
  <2>3. r[i + 1] = Either(jobs[i + 1].doc) BY <1>3, <2>1
  <2>4. Tail(jobs)[i] = jobs[i + 1] BY <1>2
  <2>5. t[i] = Either(Tail(jobs)[i].doc) BY <1>4
  <2> QED BY <2>2, <2>3, <2>4, <2>5
<1>9. Tail(r) = t BY <1>3, <1>4, <1>7, <1>8, SeqEqual DEF Rows
<1> QED BY <1>2, <1>3, <1>4, <1>5, <1>6, <1>9

\* a part is taken up
LEMMA KeptPart ==
    ASSUME NEW root, Rooted(root), NEW fls \in Seq(Fillings(root)), fls # <<>>,
           fls[1].jobs # <<>>,
           NEW new \in Seq(Fillings(root)), new # <<>>, Tail(new) = Tail(fls),
           new[1].parts = fls[1].parts, new[1].rest = fls[1].rest, new[1].at = fls[1].at,
           new[1].jobs = Tail(fls[1].jobs),
           NEW c \in Commands(root), Reading(c) \subseteq Either(Head(fls[1].jobs).doc),
           NEW s, Kept(root, s, <<>>, fls)
    PROVE  Kept(root, s, <<c>>, new)
<1>1. PICK Z, y : Packed(root, fls, Z) /\ Spelt(s, y) /\ y \in Before(Readings(<<>>), Z)
  BY DEF Kept
<1>2. Z \in SUBSET Spellings BY <1>1, PackedSpelt
<1>3. y \in Z BY <1>1, <1>2, NoReadings, BeforeNothing
<1>4. 1 \in 1..Len(fls) /\ 1 \in 1..Len(new) OBVIOUS
<1>5. PICK Y : FillStep(fls[1], Z, Y) /\ Packed(root, Tail(fls), Y) BY <1>1, Unpack
<1>6. PICK f \in Fillings(root), g \in Fillings(root) : f = fls[1] /\ g = new[1] BY <1>4
<1>7. PICK m \in Modes :
         Z \subseteq Before(JobReads(f.jobs),
                            Pending(f.parts, f.at, m, Before(Readings(f.rest), Y)))
  BY <1>5, <1>6, FillStepIs
<1>8. PICK goal : goal = Pending(f.parts, f.at, m, Before(Readings(f.rest), Y)) OBVIOUS
<1>9. f.jobs \in Seq(Jobs(root)) /\ f.jobs # <<>> /\ g.jobs = Tail(f.jobs) BY <1>6 DEF Fillings
<1>10. /\ JobReads(f.jobs) \in Rows /\ JobReads(f.jobs) # <<>>
       /\ Head(JobReads(f.jobs)) = Either(Head(f.jobs).doc)
       /\ Tail(JobReads(f.jobs)) = JobReads(g.jobs)
  BY <1>9, JobReadsSplit
<1>11. y \in Before(JobReads(f.jobs), goal) BY <1>3, <1>7, <1>8
<1>12. PICK X \in SUBSET Spellings : X = Before(JobReads(g.jobs), goal) BY BeforeIsSpelt
<1>13. \A e \in Either(Head(f.jobs).doc) : y \o e \in X BY <1>10, <1>11, <1>12, BeforeHead
<1>14. FillStep(new[1], X, Y)
  <2>1. g.parts = f.parts /\ g.rest = f.rest /\ g.at = f.at BY <1>6
  <2>2. FillStep(g, X, Y) BY <1>8, <1>12, <2>1, FillStepIs
  <2> QED BY <1>6, <2>2
<1>15. Packed(root, Tail(new), Y) BY <1>5
<1>16. Packed(root, new, X) BY <1>14, <1>15, Pack
<1>17. y \in Before(Readings(<<c>>), X)
  <2>1. Reading(c) \in SUBSET Spellings BY ReadingIsSpelt
  <2>2. <<>> \in Rows BY DEF Rows
  <2>3. y \in Spellings BY <1>2, <1>3
  <2>4. Before(<<>>, X) = X BY BeforeNothing
  <2>5. \A e \in Reading(c) : y \o e \in Before(<<>>, X) BY <1>6, <1>13, <2>4
  <2>6. y \in Before(<<Reading(c)>> \o <<>>, X) BY <2>1, <2>2, <2>3, <2>5, BeforeOne
  <2>7. <<Reading(c)>> \in Seq(SUBSET Spellings) BY <2>1
  <2>8. <<Reading(c)>> \o <<>> = <<Reading(c)>> BY <2>7, ConcatEmptySeq
  <2>9. Readings(<<c>>) = <<Reading(c)>> BY DEF Readings
  <2> QED BY <2>6, <2>8, <2>9
<1> QED BY <1>1, <1>16, <1>17 DEF Kept

\* a part is done
LEMMA KeptSame ==
    ASSUME NEW root, NEW fls \in Seq(Fillings(root)), fls # <<>>,
           NEW new \in Seq(Fillings(root)), new # <<>>, Tail(new) = Tail(fls),
           new[1].parts = fls[1].parts, new[1].rest = fls[1].rest, new[1].at = fls[1].at,
           new[1].jobs = fls[1].jobs,
           NEW s, NEW cmds, Kept(root, s, cmds, fls)
    PROVE  Kept(root, s, cmds, new)
<1>1. PICK X, y : Packed(root, fls, X) /\ Spelt(s, y) /\ y \in Before(Readings(cmds), X)
  BY DEF Kept
<1>2. X \in SUBSET Spellings BY <1>1, PackedSpelt
<1>3. PICK Y : FillStep(fls[1], X, Y) /\ Packed(root, Tail(fls), Y) BY <1>1, Unpack
<1>4. FillStep(new[1], X, Y) BY <1>3, FillStepIs
<1>5. Packed(root, Tail(new), Y) BY <1>3
<1>6. Packed(root, new, X) BY <1>2, <1>4, <1>5, Pack
<1> QED BY <1>1, <1>6 DEF Kept

\* the fill is packed
LEMMA KeptPopped ==
    ASSUME NEW root, Rooted(root), NEW fls \in Seq(Fillings(root)), fls # <<>>,
           fls[1].jobs = <<>>, fls[1].at > Len(fls[1].parts),
           NEW s, Kept(root, s, <<>>, fls)
    PROVE  Kept(root, s, fls[1].rest, Tail(fls))
<1>1. PICK X, y : Packed(root, fls, X) /\ Spelt(s, y) /\ y \in Before(Readings(<<>>), X)
  BY DEF Kept
<1>2. X \in SUBSET Spellings BY <1>1, PackedSpelt
<1>3. y \in X BY <1>1, <1>2, NoReadings, BeforeNothing
<1>4. 1 \in 1..Len(fls) OBVIOUS
<1>5. PICK Y : FillStep(fls[1], X, Y) /\ Packed(root, Tail(fls), Y) BY <1>1, Unpack
<1>6. PICK f \in Fillings(root) : f = fls[1] BY <1>4
<1>7. PICK m \in Modes : X \subseteq Pending(f.parts, f.at, m, Before(Readings(f.rest), Y))
  BY <1>5, <1>6, IdleStep
<1>8. f.parts \in Seq(Arena(root)) /\ Fill(f.parts) \in Arena(root) /\ f.at \in Nat
  BY DEF Fillings
<1>9. y \in Pending(f.parts, f.at, m, Before(Readings(f.rest), Y)) BY <1>3, <1>7
<1>10. y \in Before(Readings(f.rest), Y) BY <1>6, <1>8, <1>9, PartsDone
<1> QED BY <1>1, <1>5, <1>6, <1>10 DEF Kept

\* nothing is left: what is printed is one of the document's spellings
LEMMA KeptAtEnd ==
    ASSUME NEW root, NEW s, Kept(root, s, <<>>, <<>>)
    PROVE  \E y \in WordsOf(root, "break") : Spelt(s, y)
<1>1. PICK X, y : Packed(root, <<>>, X) /\ Spelt(s, y) /\ y \in Before(Readings(<<>>), X)
  BY DEF Kept
<1>2. PICK A : Stack(A, root, <<>>) /\ A[1] = X BY <1>1 DEF Packed
<1>3. Len(<<>>) + 1 = 1 /\ 1 \in 1..1 OBVIOUS
<1>4. X \in SUBSET Spellings /\ X \subseteq WordsOf(root, "break")
  BY <1>2, <1>3 DEF Stack
<1>5. y \in X BY <1>1, <1>4, NoReadings, BeforeNothing
<1> QED BY <1>1, <1>4, <1>5

---------------------------------------------------------------------------
(* The invariant. *)
Typed(root, tokens, cmds, sufs, fls) ==
    /\ tokens \in Seq(Tokens) /\ cmds \in Seq(Commands(root))
    /\ sufs \in Seq(Deferred(root)) /\ fls \in Seq(Fillings(root))
Good(root, tokens, cmds, sufs, fls) ==
    /\ Rooted(root) /\ Typed(root, tokens, cmds, sufs, fls)
    /\ Whole3(tokens) /\ Kept(root, tokens, cmds, fls)
\* PrintInv: all that waits on the stack was built in the arena or by the renderer,
\* the output is whole, and what is left can complete it
PrintInv ==
    /\ Good(doc, out, commands, suffixes, fills)
    /\ done => commands = <<>> /\ fills = <<>>

LEMMA StepGood ==
    ASSUME Good(doc, out', commands', suffixes', fills'), doc' = doc,
           ~done, done' = done
    PROVE  PrintInv'
  BY DEF PrintInv

\* the kind of a document says where it comes from
LEMMA NodeKind ==
    ASSUME NEW root, Rooted(root), NEW c \in Commands(root)
    PROVE  /\ c.doc.k \notin {"text", "line", "head", "run"} => c.doc \in Arena(root)
           /\ c.doc.k = "run" => c.doc \in Runs(root)
           /\ c.doc.k = "head" => c.doc \in Heads
           /\ c.doc.k = "text" => c.doc \in Arena(root) \cup Restored
<1>1. c.doc \in Arena(root) \cup Restored \cup Heads \cup Runs(root)
  BY CommandIs DEF Printables
<1>2. \A d \in Restored : d.k \in {"text", "line"} BY DEF Restored, Line
<1>3. \A d \in Heads : d.k = "head" BY DEF Heads, HeadSpace
<1>4. \A d \in Runs(root) : d.k = "run" BY DEF Runs
<1>5. \A d \in Arena(root) : d.k \notin {"head", "run"}
  <2>1. \A d \in Arena(root) : WellBuilt(d, Arena(root)) BY NodeIs
  <2> QED BY <2>1 DEF WellBuilt, Wraps, Leaves
<1> QED BY <1>1, <1>2, <1>3, <1>4, <1>5

LEMMA HeadIs ==
    ASSUME PrintInv, commands # <<>>
    PROVE  /\ Rooted(doc) /\ Typed(doc, out, commands, suffixes, fills)
           /\ Whole3(out) /\ Kept(doc, out, commands, fills)
           /\ Cmd \in Commands(doc) /\ Cmd = Head(commands)
           /\ Rest \in Seq(Commands(doc)) /\ Rest = Tail(commands)
<1>1. /\ Rooted(doc) /\ Typed(doc, out, commands, suffixes, fills)
      /\ Whole3(out) /\ Kept(doc, out, commands, fills)
  BY DEF PrintInv, Good
<1>2. commands \in Seq(Commands(doc)) BY <1>1 DEF Typed
<1> QED BY <1>1, <1>2, ReadingsSplit DEF Cmd, Rest

\* the document itself is the only command
LEMMA InitInv ==
    ASSUME Init
    PROVE  PrintInv
<1>1. Rooted(doc) BY DEF Init, Rooted
<1>2. doc \in Arena(doc) BY <1>1, RootIs
<1>3. PICK c : c = Command(doc, NoIndent, "break") OBVIOUS
<1>4. c = [doc |-> doc, indent |-> NoIndent, mode |-> "break", inline |-> FALSE]
  BY <1>3 DEF Command
<1>5. NoIndent \in Indents /\ "break" \in Modes /\ doc \in Printables(doc)
  BY <1>2 DEF NoIndent, Indents, Modes, Printables
<1>6. c \in Commands(doc) BY <1>4, <1>5, BoxedIs DEF Commands
<1>7. commands = <<c>> BY <1>3 DEF Init
<1>8. Typed(doc, out, commands, suffixes, fills)
  <2>1. <<c>> \in Seq(Commands(doc)) BY <1>6
  <2> QED BY <1>7, <2>1 DEF Init, Typed
<1>9. Kept(doc, out, commands, fills)
  <2> DEFINE words == WordsOf(doc, "break")
             A == [i \in 1..1 |-> words]
  <2>1. words \in SUBSET Spellings BY <1>1, <1>2, <1>5, NodeWords
  <2>2. A \in [1..1 -> SUBSET Spellings] /\ A[1] = words BY <2>1
  <2> HIDE DEF A
  <2>3. Len(<<>>) = 0 /\ 0 + 1 = 1 /\ 1..0 = {} OBVIOUS
  <2>4. Stack(A, doc, <<>>) BY <2>2, <2>3 DEF Stack
  <2>5. Packed(doc, <<>>, words) BY <2>2, <2>4 DEF Packed
  <2>6. Reading(c) \subseteq words BY <1>1, <1>2, <1>4, <1>6, NodeReading
  <2>7. Reading(c) \in SUBSET Spellings BY <1>1, <1>6, ReadingIsSpelt
  <2>8. Readings(<<c>>) = <<Reading(c)>>
    <3>1. Len(<<c>>) = 1 /\ <<c>>[1] = c OBVIOUS
    <3> QED BY <3>1 DEF Readings
  <2> HIDE DEF words
  <2>9. <<>> \in Before(Readings(<<c>>), words)
    <3>1. <<>> \in Spellings /\ <<>> \in Rows BY DEF Spellings, Rows
    <3>2. \A s \in Reading(c) : <<>> \o s \in Before(<<>>, words)
      <4>1. Before(<<>>, words) = words BY <2>1, BeforeNothing
      <4>2. \A s \in Reading(c) : <<>> \o s = s BY <2>7, ConcatEmptySeq DEF Spellings
      <4> QED BY <2>6, <4>1, <4>2
    <3>3. <<>> \in Before(<<Reading(c)>> \o <<>>, words) BY <2>7, <3>1, <3>2, BeforeOne
    <3>4. <<Reading(c)>> \in Seq(SUBSET Spellings) BY <2>7
    <3>5. <<Reading(c)>> \o <<>> = <<Reading(c)>> BY <3>4, ConcatEmptySeq
    <3> QED BY <2>8, <3>3, <3>5
  <2>10. Spelt(<<>>, <<>>) BY NothingSpelt
  <2>11. out = <<>> /\ fills = <<>> BY DEF Init
  <2> QED BY <1>7, <2>5, <2>9, <2>10, <2>11 DEF Kept
<1>10. Whole3(out) BY NothingSpelt DEF Init
<1>11. ~done BY DEF Init
<1> QED BY <1>1, <1>8, <1>9, <1>10, <1>11 DEF PrintInv, Good

---------------------------------------------------------------------------
(* Steps that put another command in a command's place. *)

LEMMA Replaced ==
    ASSUME PrintInv, ~done, commands # <<>>,
           NEW c \in Commands(doc), Reading(c) \subseteq Reading(Cmd),
           commands' = <<c>> \o Rest, UNCHANGED <<doc, fills, suffixes, out, done>>
    PROVE  PrintInv'
<1>1. /\ Rooted(doc) /\ Typed(doc, out, commands, suffixes, fills)
      /\ Whole3(out) /\ Kept(doc, out, commands, fills)
      /\ Cmd = Head(commands) /\ Rest = Tail(commands)
  BY HeadIs
<1>2. commands \in Seq(Commands(doc)) BY <1>1 DEF Typed
<1>3. commands' \in Seq(Commands(doc)) /\ Kept(doc, out, commands', fills)
  BY <1>1, <1>2, KeptSwapped
<1>4. Typed(doc, out', commands', suffixes', fills') BY <1>1, <1>3 DEF Typed
<1>5. Whole3(out') /\ Kept(doc, out', commands', fills') BY <1>1, <1>3
<1> QED BY <1>1, <1>4, <1>5, StepGood DEF Good

\* a part of a node, in the node's mode
LEMMA PartOf ==
    ASSUME PrintInv, ~done, commands # <<>>, Cmd.doc \in Arena(doc), ~Silent(Cmd.doc),
           NEW d \in Arena(doc), NEW i \in Indents, NEW m \in Modes,
           WordsOf(d, m) \subseteq WordsOf(Cmd.doc, Cmd.mode),
           commands' = <<[doc |-> d, indent |-> i, mode |-> m, inline |-> Cmd.inline]>> \o Rest,
           UNCHANGED <<doc, fills, suffixes, out, done>>
    PROVE  PrintInv'
<1>1. Rooted(doc) /\ Cmd \in Commands(doc) BY HeadIs
<1>2. PICK c : c = [doc |-> d, indent |-> i, mode |-> m, inline |-> Cmd.inline] OBVIOUS
<1>3. Cmd.inline \in BOOLEAN BY <1>1, CommandIs
<1>4. c \in Commands(doc)
  <2>1. d \in Printables(doc) BY DEF Printables
  <2> QED BY <1>2, <1>3, <2>1, BoxedIs DEF Commands
<1>5. Reading(c) \subseteq Reading(Cmd)
  <2>1. Reading(c) \subseteq WordsOf(d, m) BY <1>1, <1>2, <1>4, NodeReading
  <2>2. Cmd.doc.k \notin {"run", "head"}
    <3>1. WellBuilt(Cmd.doc, Arena(doc)) BY <1>1, NodeIs
    <3> QED BY <3>1 DEF WellBuilt, Wraps, Leaves
  <2>3. Reading(Cmd) = WordsOf(Cmd.doc, Cmd.mode) BY <2>2 DEF Reading
  <2> QED BY <2>1, <2>3
<1> QED BY <1>2, <1>4, <1>5, Replaced

LEMMA Reindents ==
    ASSUME NEW i \in Indents, NEW d, d.k \in {"indent", "dedent", "align", "align_root"},
           d.k \in {"align", "align_root"} => d.n \in Nat
    PROVE  Reindented(d, i) \in Indents
<1>1. PICK t \in Nat, a \in Nat, s \in Nat : i = [tabs |-> t, aligns |-> a, spaces |-> s]
  BY DEF Indents
<1>2. CASE d.k = "indent"
  <2>1. Reindented(d, i) = [tabs |-> t + a + 1, aligns |-> 0, spaces |-> 0]
    BY <1>1, <1>2 DEF Reindented, Indented, NoIndent
  <2> QED BY <2>1 DEF Indents
<1>3. CASE d.k = "dedent"
  <2>1. Reindented(d, i) = [tabs |-> IF t = 0 THEN 0 ELSE t - 1, aligns |-> a, spaces |-> s]
    BY <1>1, <1>3 DEF Reindented, Dedented
  <2>2. (IF t = 0 THEN 0 ELSE t - 1) \in Nat OBVIOUS
  <2> QED BY <2>1, <2>2 DEF Indents
<1>4. CASE d.k = "align"
  <2>1. PICK n \in Nat : n = d.n BY <1>4
  <2>2. Reindented(d, i) = [tabs |-> t, aligns |-> a + 1, spaces |-> s + n]
    BY <1>1, <1>4, <2>1 DEF Reindented, Aligned
  <2> QED BY <2>2 DEF Indents
<1>5. CASE d.k = "align_root"
  <2>1. PICK n \in Nat : n = d.n BY <1>5
  <2>2. Reindented(d, i) = [tabs |-> n, aligns |-> 0, spaces |-> 0]
    BY <1>5, <2>1 DEF Reindented, Leveled, NoIndent
  <2> QED BY <2>2 DEF Indents
<1> QED BY <1>2, <1>3, <1>4, <1>5

LEMMA IndentedIs ==
    ASSUME NEW i \in Indents
    PROVE  Indented(i) \in Indents
<1>1. PICK t \in Nat, a \in Nat, s \in Nat : i = [tabs |-> t, aligns |-> a, spaces |-> s]
  BY DEF Indents
<1>2. Indented(i) = [tabs |-> t + a + 1, aligns |-> 0, spaces |-> 0]
  BY <1>1 DEF Indented, NoIndent
<1> QED BY <1>2 DEF Indents

\* what wraps a document spells what the document does
LEMMA WrappedIs ==
    ASSUME NEW root, Rooted(root), NEW d \in Arena(root), Wraps(d) \/ d.k = "reserve", NEW m \in Modes
    PROVE  d.c \in Arena(root) /\ WordsOf(d.c, m) \subseteq WordsOf(d, m) /\ ~Silent(d)
<1>1. Parts(d) \subseteq Arena(root) /\ Spells(d, m) BY NodeIs
<1>2. Parts(d) = {d.c} BY DEF Parts, Wraps, Leaves
<1>3. ~Silent(d) BY DEF Silent, Wraps
<1>4. WordsOf(d.c, m) \subseteq WordsOf(d, m) BY <1>1 DEF Spells
<1> QED BY <1>1, <1>2, <1>3, <1>4

\* a command with another document and another indent
LEMMA Rewritten ==
    ASSUME NEW root, NEW c \in Commands(root), NEW d, NEW i
    PROVE  [With(c, d) EXCEPT !.indent = i]
              = [doc |-> d, indent |-> i, mode |-> c.mode, inline |-> c.inline]
<1>1. PICK e, m, inl : e = c.indent /\ m = c.mode /\ inl = c.inline OBVIOUS
<1>2. With(c, d) = [doc |-> d, indent |-> e, mode |-> m, inline |-> inl] BY <1>1, WithIs
<1> QED BY <1>1, <1>2

\* an indent leaves what is printed and what the command spells
LEMMA RenderIndentInv ==
    ASSUME PrintInv, RenderIndent
    PROVE  PrintInv'
<1>1. /\ ~done /\ commands # <<>> /\ Cmd.doc.k \in {"indent", "dedent", "align", "align_root"}
      /\ commands' = <<[With(Cmd, Cmd.doc.c) EXCEPT !.indent = Reindented(Cmd.doc, @)]>> \o Rest
      /\ UNCHANGED <<doc, fills, suffixes, out, done>>
  BY DEF RenderIndent, Printing, GoOn
<1>2. Rooted(doc) /\ Cmd \in Commands(doc) BY <1>1, HeadIs
<1>3. Cmd.doc \in Arena(doc) BY <1>1, <1>2, NodeKind
<1>4. Cmd.mode \in Modes /\ Cmd.indent \in Indents BY <1>2, CommandIs
<1>5. Wraps(Cmd.doc) BY <1>1 DEF Wraps
<1>6. /\ Cmd.doc.c \in Arena(doc) /\ ~Silent(Cmd.doc)
      /\ WordsOf(Cmd.doc.c, Cmd.mode) \subseteq WordsOf(Cmd.doc, Cmd.mode)
  BY <1>2, <1>3, <1>4, <1>5, WrappedIs
<1>7. Reindented(Cmd.doc, Cmd.indent) \in Indents
  <2>1. WellBuilt(Cmd.doc, Arena(doc)) BY <1>2, <1>3, NodeIs
  <2>2. Cmd.doc.k \in {"align", "align_root"} => Cmd.doc.n \in Nat BY <2>1 DEF WellBuilt
  <2> QED BY <1>1, <1>4, <2>2, Reindents
<1>8. With(Cmd, Cmd.doc.c).indent = Cmd.indent
  <2>1. Cmd.doc.c \in Printables(doc) BY <1>6 DEF Printables
  <2> QED BY <1>2, <2>1, WithTyped
<1>9. commands' = <<[doc |-> Cmd.doc.c, indent |-> Reindented(Cmd.doc, Cmd.indent),
                     mode |-> Cmd.mode, inline |-> Cmd.inline]>> \o Rest
  <2>1. PICK i : i = Reindented(Cmd.doc, Cmd.indent) OBVIOUS
  <2>2. commands' = <<[With(Cmd, Cmd.doc.c) EXCEPT !.indent = i]>> \o Rest
    BY <1>1, <1>8, <2>1
  <2> QED BY <1>2, <2>1, <2>2, Rewritten
<1> QED BY <1>1, <1>3, <1>4, <1>6, <1>7, <1>9, PartOf

\* so does an indent that a keyed group decides, whatever the group's mode
LEMMA RenderIndentIfBreakInv ==
    ASSUME PrintInv, RenderIndentIfBreak
    PROVE  PrintInv'
<1>1. /\ ~done /\ commands # <<>> /\ Cmd.doc.k = "indent_if_break"
      /\ commands' = <<[With(Cmd, Cmd.doc.c) EXCEPT
                           !.indent = IF Broke(Cmd.doc.id) THEN Indented(@) ELSE @]>> \o Rest
      /\ UNCHANGED <<doc, fills, suffixes, out, done>>
  BY DEF RenderIndentIfBreak, Printing, GoOn
<1>2. Rooted(doc) /\ Cmd \in Commands(doc) BY <1>1, HeadIs
<1>3. Cmd.doc \in Arena(doc) BY <1>1, <1>2, NodeKind
<1>4. Cmd.mode \in Modes /\ Cmd.indent \in Indents BY <1>2, CommandIs
<1>5. Wraps(Cmd.doc) BY <1>1 DEF Wraps
<1>6. /\ Cmd.doc.c \in Arena(doc) /\ ~Silent(Cmd.doc)
      /\ WordsOf(Cmd.doc.c, Cmd.mode) \subseteq WordsOf(Cmd.doc, Cmd.mode)
  BY <1>2, <1>3, <1>4, <1>5, WrappedIs
<1>7. PICK i \in Indents : i = IF Broke(Cmd.doc.id) THEN Indented(Cmd.indent) ELSE Cmd.indent
  BY <1>4, IndentedIs
<1>8. With(Cmd, Cmd.doc.c).indent = Cmd.indent
  <2>1. Cmd.doc.c \in Printables(doc) BY <1>6 DEF Printables
  <2> QED BY <1>2, <2>1, WithTyped
<1>9. commands' = <<[doc |-> Cmd.doc.c, indent |-> i,
                     mode |-> Cmd.mode, inline |-> Cmd.inline]>> \o Rest
  <2>1. commands' = <<[With(Cmd, Cmd.doc.c) EXCEPT !.indent = i]>> \o Rest
    BY <1>1, <1>7, <1>8
  <2> QED BY <1>2, <2>1, Rewritten
<1> QED BY <1>1, <1>3, <1>4, <1>6, <1>9, PartOf

\* a conditional: either arm is among its spellings, whichever the mode or the key takes
LEMMA RenderIfBreakInv ==
    ASSUME PrintInv, RenderIfBreak
    PROVE  PrintInv'
<1>1. /\ ~done /\ commands # <<>> /\ Cmd.doc.k = "if_break"
      /\ UNCHANGED <<doc, fills, suffixes, out, done>>
  BY DEF RenderIfBreak, Printing, GoOn
<1>2. Rooted(doc) /\ Cmd \in Commands(doc) BY <1>1, HeadIs
<1>3. Cmd.doc \in Arena(doc) BY <1>1, <1>2, NodeKind
<1>4. Cmd.mode \in Modes /\ Cmd.indent \in Indents BY <1>2, CommandIs
<1>5. /\ Cmd.doc.brk \in Arena(doc) /\ Cmd.doc.flat \in Arena(doc) /\ ~Silent(Cmd.doc)
      /\ Cmd.doc.id # 0 \/ Cmd.mode = "break" =>
            WordsOf(Cmd.doc.brk, Cmd.mode) \subseteq WordsOf(Cmd.doc, Cmd.mode)
      /\ Cmd.doc.id # 0 \/ Cmd.mode = "flat" =>
            WordsOf(Cmd.doc.flat, Cmd.mode) \subseteq WordsOf(Cmd.doc, Cmd.mode)
  <2>1. Parts(Cmd.doc) \subseteq Arena(doc) /\ Spells(Cmd.doc, Cmd.mode)
    BY <1>2, <1>3, <1>4, NodeIs
  <2>2. Parts(Cmd.doc) = {Cmd.doc.brk, Cmd.doc.flat} BY <1>1 DEF Parts, Wraps, Leaves
  <2>3. ~Silent(Cmd.doc) BY <1>1 DEF Silent
  <2> QED BY <1>1, <2>1, <2>2, <2>3 DEF Spells
<1>6. PICK d \in Arena(doc) :
         /\ WordsOf(d, Cmd.mode) \subseteq WordsOf(Cmd.doc, Cmd.mode)
         /\ commands' = <<With(Cmd, d)>> \o Rest
  <2> DEFINE broke == IF Cmd.doc.id = 0 THEN Cmd.mode = "break" ELSE Broke(Cmd.doc.id)
  <2>1. commands' = <<With(Cmd, IF broke THEN Cmd.doc.brk ELSE Cmd.doc.flat)>> \o Rest
    BY DEF RenderIfBreak, GoOn
  <2>2. CASE broke
    <3>1. Cmd.doc.id # 0 \/ Cmd.mode = "break" BY <2>2
    <3> QED BY <1>5, <2>1, <2>2, <3>1
  <2>3. CASE ~broke
    <3>1. Cmd.doc.id # 0 \/ Cmd.mode = "flat" BY <1>4, <2>3 DEF Modes
    <3> QED BY <1>5, <2>1, <2>3, <3>1
  <2> QED BY <2>2, <2>3
<1>7. commands' = <<[doc |-> d, indent |-> Cmd.indent,
                     mode |-> Cmd.mode, inline |-> Cmd.inline]>> \o Rest
  BY <1>2, <1>6, WithIs
<1> QED BY <1>1, <1>3, <1>4, <1>5, <1>6, <1>7, PartOf

\* what a gate or a reserve holds is printed in its place
LEMMA RenderWrappedInv ==
    ASSUME PrintInv, RenderWrapped
    PROVE  PrintInv'
<1>1. /\ ~done /\ commands # <<>> /\ Cmd.doc.k \in {"gated", "reserve"}
      /\ commands' = <<With(Cmd, Cmd.doc.c)>> \o Rest
      /\ UNCHANGED <<doc, fills, suffixes, out, done>>
  BY DEF RenderWrapped, Printing, GoOn
<1>2. Rooted(doc) /\ Cmd \in Commands(doc) BY <1>1, HeadIs
<1>3. Cmd.doc \in Arena(doc) BY <1>1, <1>2, NodeKind
<1>4. Cmd.mode \in Modes /\ Cmd.indent \in Indents BY <1>2, CommandIs
<1>5. Wraps(Cmd.doc) \/ Cmd.doc.k = "reserve" BY <1>1 DEF Wraps
<1>6. /\ Cmd.doc.c \in Arena(doc) /\ ~Silent(Cmd.doc)
      /\ WordsOf(Cmd.doc.c, Cmd.mode) \subseteq WordsOf(Cmd.doc, Cmd.mode)
  BY <1>2, <1>3, <1>4, <1>5, WrappedIs
<1>7. commands' = <<[doc |-> Cmd.doc.c, indent |-> Cmd.indent,
                     mode |-> Cmd.mode, inline |-> Cmd.inline]>> \o Rest
  BY <1>1, <1>2, WithIs
<1> QED BY <1>1, <1>3, <1>4, <1>6, <1>7, PartOf

\* a group: the part it is laid out with is one of its parts, or what a gated
\* one of them holds
LEMMA LaidIs ==
    ASSUME NEW root, Rooted(root), NEW d \in Arena(root), d.k = "group", NEW m \in Modes,
           NEW part, part \in Parts(d) \/ \E s \in Parts(d) : part = State(s), NEW n \in Modes
    PROVE  part \in Arena(root) /\ WordsOf(part, n) \subseteq WordsOf(d, m)
<1>1. Parts(d) \subseteq Arena(root) /\ Spells(d, m) BY NodeIs
<1>2. \A c \in Parts(d) : WordsOf(c, n) \subseteq WordsOf(d, m) BY <1>1 DEF Spells
<1>3. CASE part \in Parts(d) BY <1>1, <1>2, <1>3
<1>4. ASSUME NEW s \in Parts(d), part = State(s)
      PROVE  part \in Arena(root) /\ WordsOf(part, n) \subseteq WordsOf(d, m)
  <2>1. CASE s.k = "gated"
    <3>1. Wraps(s) /\ part = s.c BY <1>4, <2>1 DEF Wraps, State
    <3>2. part \in Arena(root) /\ WordsOf(part, n) \subseteq WordsOf(s, n)
      BY <1>1, <3>1, WrappedIs
    <3> QED BY <1>2, <3>2
  <2>2. CASE s.k # "gated"
    <3>1. part = s BY <1>4, <2>2 DEF State
    <3> QED BY <1>3, <3>1
  <2> QED BY <2>1, <2>2
<1> QED BY <1>3, <1>4

LEMMA LastIs ==
    ASSUME NEW S, NEW s \in Seq(S), s # <<>>
    PROVE  Last(s) \in Range(s) /\ (Len(s) # 1 => Last(Front(s)) \in Range(s))
<1>1. Len(s) \in Nat /\ Len(s) >= 1 OBVIOUS
<1>2. \A i \in 1..Len(s) : s[i] \in Range(s) BY DEF Range
<1>3. Last(s) \in Range(s) BY <1>1, <1>2 DEF Last
<1>4. ASSUME Len(s) # 1 PROVE Last(Front(s)) \in Range(s)
  <2>0. PICK l \in Nat : l = Len(s) /\ l >= 1 /\ l # 1 BY <1>1, <1>4
  <2>1. PICK n \in Nat : n = Len(s) - 1 /\ n >= 1 /\ n + 1 = Len(s)
    <3>1. l - 1 \in Nat /\ l - 1 >= 1 /\ (l - 1) + 1 = l BY <2>0
    <3> QED BY <2>0, <3>1
  <2>2. Len(SubSeq(s, 1, n)) = n /\ \A i \in 1..n : SubSeq(s, 1, n)[i] = s[i]
    BY <2>1, SubSeqProperties
  <2>3. n \in 1..n /\ n \in 1..Len(s) BY <2>1
  <2>4. Last(Front(s)) = s[n] BY <2>1, <2>2, <2>3 DEF Last, Front
  <2> QED BY <1>2, <2>3, <2>4
<1> QED BY <1>3, <1>4

LEMMA FallbackIs ==
    ASSUME NEW root, Rooted(root), NEW d \in Arena(root), d.k = "group", d.states # <<>>
    PROVE  Fallback(d) \in Parts(d)
<1>1. WellBuilt(d, Arena(root)) BY NodeIs
<1>2. PICK s \in Seq(Arena(root)) : s = d.states BY <1>1 DEF WellBuilt
<1>3. Parts(d) = {d.c} \cup Range(s) BY <1>2 DEF Parts, Wraps, Leaves
<1>4. Last(s) \in Range(s) /\ (Len(s) # 1 => Last(Front(s)) \in Range(s)) BY <1>2, LastIs
<1>5. \/ Fallback(d) = d.c
      \/ Len(s) # 1 /\ Fallback(d) = Last(Front(s))
      \/ Fallback(d) = Last(s)
  BY <1>2 DEF Fallback
<1> QED BY <1>3, <1>4, <1>5

\* the mode and the part a group is laid out with
LEMMA LaidOut ==
    ASSUME NEW root, Rooted(root), NEW d \in Arena(root), d.k = "group", NEW laid,
           laid = IF d.states # <<>> THEN ChooseState(d) ELSE ChooseMode(d)
    PROVE  /\ laid.mode \in Modes
           /\ laid.part \in Parts(d) \/ \E s \in Parts(d) : laid.part = State(s)
<1>1. WellBuilt(d, Arena(root)) BY NodeIs
<1>2. PICK s \in Seq(Arena(root)) : s = d.states BY <1>1 DEF WellBuilt
<1>3. Parts(d) = {d.c} \cup Range(s) BY <1>2 DEF Parts, Wraps, Leaves
<1>4. "flat" \in Modes /\ "break" \in Modes /\ d.c \in Parts(d) BY <1>3 DEF Modes
<1>5. CASE s # <<>>
  <2> DEFINE fitting == {i \in 1..Len(s) - 1 : Admissible(s[i]) /\ FitsFlat(State(s[i]))}
             least   == CHOOSE i \in fitting : \A j \in fitting : i <= j
  <2>1. laid = ChooseState(d) BY <1>2, <1>5
  <2>2. \/ laid = Laid("break", Fallback(d), FALSE)
        \/ laid = Laid("flat", d.c, TRUE)
        \/ fitting # {} /\ laid = Laid("flat", State(s[least]), TRUE)
    BY <1>2, <2>1 DEF ChooseState
  <2>3. CASE laid = Laid("break", Fallback(d), FALSE)
    <3>1. Fallback(d) \in Parts(d) BY <1>2, <1>5, FallbackIs
    <3> QED BY <1>4, <2>3, <3>1 DEF Laid
  <2>4. CASE laid = Laid("flat", d.c, TRUE)
    BY <1>4, <2>4 DEF Laid
  <2>5. CASE fitting # {} /\ laid = Laid("flat", State(s[least]), TRUE)
    <3>1. Len(s) \in Nat OBVIOUS
    <3>2. fitting \in SUBSET Nat BY <3>1
    <3>3. \E i \in fitting : \A j \in fitting : i <= j
      <4> HIDE DEF fitting
      <4> QED BY <2>5, <3>2, LowestOf
    <3>4. least \in fitting
      <4> HIDE DEF fitting
      <4> QED BY <3>3
    <3>5. least \in 1..Len(s) BY <3>1, <3>4
    <3> HIDE DEF least, fitting
    <3>6. s[least] \in Parts(d) BY <1>3, <3>5 DEF Range
    <3>7. laid.mode = "flat" /\ laid.part = State(s[least]) BY <2>5 DEF Laid
    <3> QED BY <1>4, <3>6, <3>7
  <2> HIDE DEF fitting, least
  <2> QED BY <2>2, <2>3, <2>4, <2>5
<1>6. CASE s = <<>>
  <2>1. laid = ChooseMode(d) BY <1>2, <1>6
  <2>2. \E m \in Modes : \E settles : laid = Laid(m, d.c, settles)
    BY <1>4, <2>1 DEF ChooseMode
  <2>3. laid.mode \in Modes /\ laid.part = d.c BY <2>2 DEF Laid
  <2> QED BY <1>4, <2>3
<1> QED BY <1>5, <1>6

\* a command with another document and another mode
LEMMA Remoded ==
    ASSUME NEW root, NEW c \in Commands(root), NEW d, NEW n
    PROVE  [With(c, d) EXCEPT !.mode = n]
              = [doc |-> d, indent |-> c.indent, mode |-> n, inline |-> c.inline]
<1>1. PICK e, m, inl : e = c.indent /\ m = c.mode /\ inl = c.inline OBVIOUS
<1>2. With(c, d) = [doc |-> d, indent |-> e, mode |-> m, inline |-> inl] BY <1>1, WithIs
<1> QED BY <1>1, <1>2

\* whatever state a group is laid out with, the spelling left to print was one of the group's
LEMMA RenderGroupInv ==
    ASSUME PrintInv, RenderGroup
    PROVE  PrintInv'
<1>1. /\ ~done /\ commands # <<>> /\ Cmd.doc.k = "group"
      /\ UNCHANGED <<doc, fills, suffixes, out, done>>
  BY DEF RenderGroup, Printing
<1>2. Rooted(doc) /\ Cmd \in Commands(doc) BY <1>1, HeadIs
<1>3. Cmd.doc \in Arena(doc) BY <1>1, <1>2, NodeKind
<1>4. Cmd.mode \in Modes /\ Cmd.indent \in Indents BY <1>2, CommandIs
<1>5. PICK d : d = Cmd.doc OBVIOUS
<1>6. PICK laid :
         /\ laid = IF d.states # <<>> THEN ChooseState(d) ELSE ChooseMode(d)
         /\ commands' = <<[With(Cmd, laid.part) EXCEPT !.mode = laid.mode]>> \o Rest
  BY <1>5 DEF RenderGroup
<1>7. PICK part, mode : part = laid.part /\ mode = laid.mode OBVIOUS
<1>8. mode \in Modes /\ (part \in Parts(d) \/ \E s \in Parts(d) : part = State(s))
  BY <1>1, <1>2, <1>3, <1>5, <1>6, <1>7, LaidOut
<1>9. part \in Arena(doc) /\ WordsOf(part, mode) \subseteq WordsOf(d, Cmd.mode)
  BY <1>1, <1>2, <1>3, <1>4, <1>5, <1>8, LaidIs
<1>10. commands' = <<[doc |-> part, indent |-> Cmd.indent,
                      mode |-> mode, inline |-> Cmd.inline]>> \o Rest
  BY <1>2, <1>6, <1>7, Remoded
<1>11. ~Silent(Cmd.doc) BY <1>1 DEF Silent
<1> QED BY <1>1, <1>3, <1>4, <1>5, <1>8, <1>9, <1>10, <1>11, PartOf

\* in a flush a group, a suffix and a reserve pass their document through
LEMMA RenderInlineInv ==
    ASSUME PrintInv, RenderInline
    PROVE  PrintInv'
<1>1. /\ ~done /\ commands # <<>> /\ Cmd.doc.k \in {"group", "suffix", "reserve"}
      /\ commands' = <<With(Cmd, Cmd.doc.c)>> \o Rest
      /\ UNCHANGED <<doc, fills, suffixes, out, done>>
  BY DEF RenderInline, Printing, GoOn
<1>2. Rooted(doc) /\ Cmd \in Commands(doc) BY <1>1, HeadIs
<1>3. Cmd.doc \in Arena(doc) BY <1>1, <1>2, NodeKind
<1>4. Cmd.mode \in Modes /\ Cmd.indent \in Indents BY <1>2, CommandIs
<1>5. Parts(Cmd.doc) \subseteq Arena(doc) /\ Spells(Cmd.doc, Cmd.mode)
  BY <1>2, <1>3, <1>4, NodeIs
<1>6. Cmd.doc.c \in Parts(Cmd.doc) BY <1>1 DEF Parts, Wraps, Leaves
<1>7. Cmd.doc.c \in Printables(doc) BY <1>5, <1>6 DEF Printables
<1>8. With(Cmd, Cmd.doc.c) \in Commands(doc) /\ With(Cmd, Cmd.doc.c).doc = Cmd.doc.c
      /\ With(Cmd, Cmd.doc.c).mode = Cmd.mode
  BY <1>2, <1>7, WithTyped
<1>9. Reading(With(Cmd, Cmd.doc.c)) \subseteq WordsOf(Cmd.doc.c, Cmd.mode)
  BY <1>2, <1>5, <1>6, <1>8, NodeReading
<1>10. WordsOf(Cmd.doc.c, Cmd.mode) \subseteq Reading(Cmd)
  <2>1. CASE Cmd.doc.k = "suffix"
    <3>1. WordsOf(Cmd.doc.c, Cmd.mode) \subseteq {<<>>} BY <1>5, <2>1 DEF Spells
    <3>2. Reading(Cmd) = {<<>>} BY <2>1 DEF Reading, Silent
    <3> QED BY <3>1, <3>2
  <2>2. CASE Cmd.doc.k \in {"group", "reserve"}
    <3>1. Reading(Cmd) = WordsOf(Cmd.doc, Cmd.mode) BY <2>2 DEF Reading, Silent
    <3>2. WordsOf(Cmd.doc.c, Cmd.mode) \subseteq WordsOf(Cmd.doc, Cmd.mode)
      BY <1>4, <1>5, <1>6, <2>2 DEF Spells
    <3> QED BY <3>1, <3>2
  <2> QED BY <1>1, <2>1, <2>2
<1> QED BY <1>1, <1>8, <1>9, <1>10, Replaced

---------------------------------------------------------------------------
(* Steps that print, and steps that leave a command behind. *)
Holds(from, to) ==
    /\ to \in Seq(Tokens)
    /\ \A y : Spelt(from, y) => Spelt(to, y)
    /\ Whole3(from) => Whole3(to)

LEMMA HoldsStill ==
    ASSUME PrintInv
    PROVE  Holds(out, out)
  BY DEF PrintInv, Good, Typed, Holds

\* a command that prints no word, and silent ones in its place
LEMMA Passed ==
    ASSUME PrintInv, ~done, commands # <<>>, <<>> \in Reading(Cmd),
           NEW new \in Seq(Commands(doc)), \A i \in 1..Len(new) : Reading(new[i]) \subseteq {<<>>},
           commands' = new \o Rest,
           Holds(out, out'), suffixes' \in Seq(Deferred(doc)), UNCHANGED <<doc, fills, done>>
    PROVE  PrintInv'
<1>1. /\ Rooted(doc) /\ Typed(doc, out, commands, suffixes, fills)
      /\ Whole3(out) /\ Kept(doc, out, commands, fills)
      /\ Cmd = Head(commands) /\ Rest = Tail(commands) /\ Rest \in Seq(Commands(doc))
  BY HeadIs
<1>2. commands \in Seq(Commands(doc)) BY <1>1 DEF Typed
<1>3. Kept(doc, out, Rest, fills) BY <1>1, <1>2, KeptDropped
<1>4. PICK t : t = out' OBVIOUS
<1>5. t \in Seq(Tokens) /\ (\A y : Spelt(out, y) => Spelt(t, y)) /\ Whole3(t)
  BY <1>1, <1>4 DEF Holds
<1>6. Kept(doc, t, Rest, fills) BY <1>3, <1>5, KeptAsPrinted
<1>7. commands' \in Seq(Commands(doc)) /\ Kept(doc, t, commands', fills)
  BY <1>1, <1>6, KeptPushed
<1>8. Typed(doc, out', commands', suffixes', fills') BY <1>1, <1>4, <1>5, <1>7 DEF Typed
<1>9. Whole3(out') /\ Kept(doc, out', commands', fills') BY <1>4, <1>5, <1>7
<1> QED BY <1>1, <1>8, <1>9, StepGood DEF Good

LEMMA Left ==
    ASSUME PrintInv, ~done, commands # <<>>, <<>> \in Reading(Cmd), commands' = Rest,
           Holds(out, out'), suffixes' \in Seq(Deferred(doc)), UNCHANGED <<doc, fills, done>>
    PROVE  PrintInv'
<1>1. Rest \in Seq(Commands(doc)) BY HeadIs
<1>2. PICK new \in Seq(Commands(doc)) : new = <<>> BY EmptySeq
<1>3. commands' = new \o Rest BY <1>1, <1>2, ConcatEmptySeq
<1>4. \A i \in 1..Len(new) : Reading(new[i]) \subseteq {<<>>} BY <1>2
<1> QED BY <1>3, <1>4, Passed

LEMMA PutWhole ==
    ASSUME NEW s \in Seq(Tokens), NEW w \in Nat, Whole3(s)
    PROVE  Whole3(Append(s, <<"word", w>>))
<1> DEFINE t == Append(s, <<"word", w>>)
<1>1. <<"word", w>> \in Tokens BY DEF Tokens, TokenKinds
<1>2. t \in Seq(Tokens) /\ Len(t) = Len(s) + 1 /\ t[Len(s) + 1] = <<"word", w>>
      /\ \A i \in 1..Len(s) : t[i] = s[i]
  BY <1>1
<1>3. Len(s) \in Nat OBVIOUS
<1> HIDE DEF t
<1>4. Whole3(t)
  <2>1. ASSUME NEW i \in 1..Len(t)
        PROVE  /\ t[i][1] = "first" =>
                    /\ i + 2 \in 1..Len(t)
                    /\ t[i + 1][1] = "nl" /\ t[i + 2][1] = "last"
               /\ t[i][1] = "last" => i - 2 \in 1..Len(t) /\ t[i - 2][1] = "first"
    <3>1. CASE i = Len(s) + 1
      <4>1. t[i][1] = "word" BY <1>2, <3>1
      <4> QED BY <4>1
    <3>2. CASE i \in 1..Len(s)
      <4>1. t[i] = s[i] BY <1>2, <3>2
      <4>2. ASSUME t[i][1] = "first"
            PROVE i + 2 \in 1..Len(t) /\ t[i + 1][1] = "nl" /\ t[i + 2][1] = "last"
        <5>1. i + 2 \in 1..Len(s) /\ s[i + 1][1] = "nl" /\ s[i + 2][1] = "last"
          BY <3>2, <4>1, <4>2 DEF Whole3
        <5>2. i + 1 \in 1..Len(s) BY <1>3, <3>2, <5>1
        <5> QED BY <1>2, <1>3, <5>1, <5>2
      <4>3. ASSUME t[i][1] = "last" PROVE i - 2 \in 1..Len(t) /\ t[i - 2][1] = "first"
        <5>1. i - 2 \in 1..Len(s) /\ s[i - 2][1] = "first"
          BY <3>2, <4>1, <4>3 DEF Whole3
        <5> QED BY <1>2, <1>3, <5>1
      <4> QED BY <4>2, <4>3
    <3> QED BY <1>2, <1>3, <3>1, <3>2
  <2> QED BY <2>1 DEF Whole3
<1> QED BY <1>4 DEF t

\* a text prints its word, the first of a spelling of what was left
LEMMA RenderTextInv ==
    ASSUME PrintInv, RenderText
    PROVE  PrintInv'
<1>1. /\ ~done /\ commands # <<>> /\ Cmd.doc.k = "text" /\ commands' = Rest
      /\ out' = Put(Page, Cmd.doc.of, Cmd.doc.w).out
      /\ UNCHANGED <<doc, fills, suffixes, done>>
  BY DEF RenderText, Printing, Printed
<1>2. /\ Rooted(doc) /\ Typed(doc, out, commands, suffixes, fills)
      /\ Whole3(out) /\ Kept(doc, out, commands, fills)
      /\ Cmd \in Commands(doc) /\ Cmd = Head(commands)
      /\ Rest \in Seq(Commands(doc)) /\ Rest = Tail(commands)
  BY <1>1, HeadIs
<1>3. /\ out \in Seq(Tokens) /\ commands \in Seq(Commands(doc))
      /\ suffixes \in Seq(Deferred(doc)) /\ fills \in Seq(Fillings(doc))
  BY <1>2 DEF Typed
<1>4. PICK of, w : of = Cmd.doc.of /\ w = Cmd.doc.w OBVIOUS
<1>5. IsPage(Page) /\ Page.out = out BY ThisPage
<1>6. out' = Append(out, <<of, w>>) BY <1>1, <1>4, <1>5, PagePut
<1>7. CASE of = "word"
  <2>1. Cmd.doc \in Arena(doc)
    <3>1. Cmd.doc \in Arena(doc) \cup Restored BY <1>1, <1>2, NodeKind
    <3>2. \A d \in Restored : d.k = "text" => d.of # "word" BY DEF Restored, Line, Blanks
    <3> QED BY <1>1, <1>4, <1>7, <3>1, <3>2
  <2>2. Cmd.mode \in Modes BY <1>2, CommandIs
  <2>3. WellBuilt(Cmd.doc, Arena(doc)) /\ Spells(Cmd.doc, Cmd.mode) BY <1>2, <2>1, <2>2, NodeIs
  <2>4. w \in Nat BY <1>1, <1>4, <2>3 DEF WellBuilt
  <2>5. <<w>> \in WordsOf(Cmd.doc, Cmd.mode) BY <1>1, <1>4, <1>7, <2>3 DEF Spells
  <2>6. Reading(Cmd) = WordsOf(Cmd.doc, Cmd.mode) BY <1>1, <1>4, <1>7 DEF Reading, Silent
  <2>7. PICK t : t = Append(out, <<"word", w>>) OBVIOUS
  <2>8. Kept(doc, t, Rest, fills) BY <1>2, <1>3, <2>4, <2>5, <2>6, <2>7, KeptWord
  <2>9. <<"word", w>> \in Tokens BY <2>4 DEF Tokens, TokenKinds
  <2>10. t \in Seq(Tokens) BY <1>3, <2>7, <2>9
  <2>11. Whole3(t) BY <1>2, <1>3, <2>4, <2>7, PutWhole
  <2>12. out' = t BY <1>6, <1>7, <2>7
  <2>13. Typed(doc, out', commands', suffixes', fills') BY <1>1, <1>2, <1>3, <2>10, <2>12 DEF Typed
  <2>14. Whole3(out') /\ Kept(doc, out', commands', fills') BY <1>1, <2>8, <2>11, <2>12
  <2> QED BY <1>1, <1>2, <2>13, <2>14, StepGood DEF Good
<1>8. CASE of # "word"
  <2>1. of \in {"space", "comment", "block", "flat"} /\ w \in Nat
    <3>1. Cmd.doc \in Arena(doc) \cup Restored BY <1>1, <1>2, NodeKind
    <3>2. CASE Cmd.doc \in Arena(doc)
      <4>1. WellBuilt(Cmd.doc, Arena(doc)) BY <1>2, <3>2, NodeIs
      <4> QED BY <1>1, <1>4, <1>8, <4>1 DEF WellBuilt, TextKinds
    <3>3. CASE Cmd.doc \in Restored
      <4>1. \A d \in Restored : d.k = "text" => d.of \in Blanks /\ d.w \in Nat
        BY DEF Restored, Line
      <4> QED BY <1>1, <1>4, <3>3, <4>1 DEF Blanks
    <3> QED BY <3>1, <3>2, <3>3
  <2>2. of \in TokenKinds \ {"word", "first", "last"} BY <2>1 DEF TokenKinds
  <2>3. Keeps(Put(Page, of, w), out) BY <1>3, <1>5, <2>1, <2>2, PutPageKeeps
  <2>4. out' = Put(Page, of, w).out BY <1>1, <1>4
  <2>5. Holds(out, out') BY <2>3, <2>4 DEF Keeps, Holds
  <2>6. <<>> \in Reading(Cmd) BY <1>1, <1>4, <1>8 DEF Reading, Silent
  <2> QED BY <1>1, <1>3, <2>5, <2>6, Left
<1> QED BY <1>7, <1>8

LEMMA LineHolds ==
    ASSUME out \in Seq(Tokens), NEW kind, NEW mode, NEW indent \in Indents
    PROVE  /\ Holds(out, LineBreak(Page, kind, mode, indent).out)
           /\ Holds(out, LineBreak(Obliged(Page, kind, mode), kind, mode, indent).out)
<1>1. IsPage(Page) /\ Page.out = out BY ThisPage
<1>2. PICK page : page = Obliged(Page, kind, mode) OBVIOUS
<1>3. IsPage(page) /\ page.out = out BY <1>1, <1>2, PageObliged
<1>4. Keeps(LineBreak(Page, kind, mode, indent), out) BY <1>1, LineBreakKeeps
<1>5. Keeps(LineBreak(page, kind, mode, indent), out) BY <1>3, LineBreakKeeps
<1> QED BY <1>2, <1>4, <1>5 DEF Keeps, Holds

\* a line prints a blank or trims and breaks: no word
LEMMA RenderLineInv ==
    ASSUME PrintInv, RenderLine
    PROVE  PrintInv'
<1>1. /\ ~done /\ commands # <<>> /\ Cmd.doc.k = "line" /\ commands' = Rest
      /\ out' = LineBreak(Obliged(Page, Cmd.doc.kind, Cmd.mode),
                          Cmd.doc.kind, Cmd.mode, Cmd.indent).out
      /\ UNCHANGED <<doc, fills, suffixes, done>>
  BY DEF RenderLine, Printing, Printed
<1>2. /\ Rooted(doc) /\ Typed(doc, out, commands, suffixes, fills) /\ Cmd \in Commands(doc)
  BY <1>1, HeadIs
<1>3. out \in Seq(Tokens) /\ suffixes \in Seq(Deferred(doc)) BY <1>2 DEF Typed
<1>4. Cmd.indent \in Indents BY <1>2, CommandIs
<1>5. Holds(out, out') BY <1>1, <1>3, <1>4, LineHolds
<1>6. <<>> \in Reading(Cmd) BY <1>1 DEF Reading, Silent
<1> QED BY <1>1, <1>3, <1>5, <1>6, Left

\* a comment of several lines is put whole
LEMMA RenderMultilineInv ==
    ASSUME PrintInv, RenderMultiline
    PROVE  PrintInv'
<1>1. /\ ~done /\ commands # <<>> /\ Cmd.doc.k = "multiline" /\ commands' = Rest
      /\ out' = Whole(Cmd).out
      /\ UNCHANGED <<doc, fills, suffixes, done>>
  BY DEF RenderMultiline, Printing, Printed
<1>2. /\ Rooted(doc) /\ Typed(doc, out, commands, suffixes, fills) /\ Cmd \in Commands(doc)
  BY <1>1, HeadIs
<1>3. out \in Seq(Tokens) /\ suffixes \in Seq(Deferred(doc)) BY <1>2 DEF Typed
<1>4. Cmd.indent \in Indents BY <1>2, CommandIs
<1>5. Cmd.doc \in Arena(doc) BY <1>1, <1>2, NodeKind
<1>6. WellBuilt(Cmd.doc, Arena(doc)) BY <1>2, <1>5, NodeIs
<1>7. Cmd.doc.first \in Nat /\ Cmd.doc.last \in Nat BY <1>1, <1>6 DEF WellBuilt
<1>8. PICK cmd : cmd = Cmd OBVIOUS
<1>9. Keeps(Whole(cmd), out) BY <1>3, <1>4, <1>7, <1>8, WholeKeeps
<1>10. Holds(out, out') BY <1>1, <1>8, <1>9 DEF Keeps, Holds
<1>11. <<>> \in Reading(Cmd) BY <1>1 DEF Reading, Silent
<1> QED BY <1>1, <1>3, <1>10, <1>11, Left

\* a marker prints nothing
LEMMA RenderMarkerInv ==
    ASSUME PrintInv, RenderMarker
    PROVE  PrintInv'
<1>1. /\ ~done /\ commands # <<>> /\ Cmd.doc.k \in {"break_parent", "flush_break"}
      /\ commands' = Rest /\ UNCHANGED <<doc, fills, suffixes, out, done>>
  BY DEF RenderMarker, Printing
<1>2. Typed(doc, out, commands, suffixes, fills) BY <1>1, HeadIs
<1>3. suffixes' \in Seq(Deferred(doc)) BY <1>1, <1>2 DEF Typed
<1>4. <<>> \in Reading(Cmd) BY <1>1 DEF Reading, Silent
<1>5. Holds(out, out') BY <1>1, HoldsStill
<1> QED BY <1>1, <1>3, <1>4, <1>5, Left

\* what is deferred is taken off the stack and holds no word
LEMMA RenderSuffixInv ==
    ASSUME PrintInv, RenderSuffix
    PROVE  PrintInv'
<1>1. /\ ~done /\ commands # <<>> /\ Cmd.doc.k = "suffix" /\ commands' = Rest
      /\ suffixes' = Append(suffixes, With(Cmd, Cmd.doc.c))
      /\ UNCHANGED <<doc, fills, out, done>>
  BY DEF RenderSuffix, Printing
<1>2. Rooted(doc) /\ Typed(doc, out, commands, suffixes, fills) /\ Cmd \in Commands(doc)
  BY <1>1, HeadIs
<1>3. suffixes \in Seq(Deferred(doc)) BY <1>2 DEF Typed
<1>4. Cmd.doc \in Arena(doc) BY <1>1, <1>2, NodeKind
<1>5. Cmd.mode \in Modes /\ Cmd.indent \in Indents /\ Cmd.inline \in BOOLEAN BY <1>2, CommandIs
<1>6. Cmd.doc.c \in Arena(doc) /\ WordsOf(Cmd.doc.c, Cmd.mode) \subseteq {<<>>}
  <2>1. Parts(Cmd.doc) \subseteq Arena(doc) /\ Spells(Cmd.doc, Cmd.mode)
    BY <1>2, <1>4, <1>5, NodeIs
  <2>2. Parts(Cmd.doc) = {Cmd.doc.c} BY <1>1 DEF Parts, Wraps, Leaves
  <2> QED BY <1>1, <2>1, <2>2 DEF Spells
<1>7. PICK c : c = With(Cmd, Cmd.doc.c) OBVIOUS
<1>8. c \in Deferred(doc)
  <2>1. c = [doc |-> Cmd.doc.c, indent |-> Cmd.indent, mode |-> Cmd.mode, inline |-> Cmd.inline]
    BY <1>2, <1>7, WithIs
  <2>2. c \in Boxed(Arena(doc)) BY <1>5, <1>6, <2>1, BoxedIs
  <2>3. c.doc = Cmd.doc.c /\ c.mode = Cmd.mode BY <2>1
  <2> QED BY <1>6, <2>2, <2>3 DEF Deferred
<1>9. suffixes' \in Seq(Deferred(doc)) BY <1>1, <1>3, <1>7, <1>8, AppendProperties
<1>10. <<>> \in Reading(Cmd) BY <1>1 DEF Reading, Silent
<1>11. Holds(out, out') BY <1>1, HoldsStill
<1> QED BY <1>1, <1>9, <1>10, <1>11, Left

\* the parts of a concatenation, in order, spell what it spells
LEMMA RenderConcatInv ==
    ASSUME PrintInv, RenderConcat
    PROVE  PrintInv'
<1>1. /\ ~done /\ commands # <<>> /\ Cmd.doc.k = "concat"
      /\ commands' = [i \in DOMAIN Cmd.doc.kids |-> With(Cmd, Cmd.doc.kids[i])] \o Rest
      /\ UNCHANGED <<doc, fills, suffixes, out, done>>
  BY DEF RenderConcat, Printing
<1>2. /\ Rooted(doc) /\ Typed(doc, out, commands, suffixes, fills)
      /\ Whole3(out) /\ Kept(doc, out, commands, fills)
      /\ Cmd \in Commands(doc) /\ Cmd = Head(commands)
      /\ Rest \in Seq(Commands(doc)) /\ Rest = Tail(commands)
  BY <1>1, HeadIs
<1>3. commands \in Seq(Commands(doc)) BY <1>2 DEF Typed
<1>4. Cmd.doc \in Arena(doc) BY <1>1, <1>2, NodeKind
<1>5. WellBuilt(Cmd.doc, Arena(doc)) BY <1>2, <1>4, NodeIs
<1>6. PICK kids \in Seq(Arena(doc)) : kids = Cmd.doc.kids BY <1>1, <1>5 DEF WellBuilt
<1>7. PICK new : new = [i \in 1..Len(kids) |-> With(Cmd, kids[i])] OBVIOUS
<1>8. DOMAIN kids = 1..Len(kids) /\ Len(kids) \in Nat OBVIOUS
<1>9. \A i \in 1..Len(kids) :
         /\ new[i] \in Commands(doc) /\ new[i].doc = kids[i] /\ new[i].mode = Cmd.mode
  <2>1. ASSUME NEW i \in 1..Len(kids)
        PROVE /\ new[i] \in Commands(doc) /\ new[i].doc = kids[i] /\ new[i].mode = Cmd.mode
    <3>1. kids[i] \in Printables(doc) BY DEF Printables
    <3>2. new[i] = With(Cmd, kids[i]) BY <1>7
    <3> QED BY <1>2, <3>1, <3>2, WithTyped
  <2> QED BY <2>1
<1>10. new \in Seq(Commands(doc)) /\ Len(new) = Len(kids)
  <2>1. new \in [1..Len(kids) -> Commands(doc)] BY <1>7, <1>9
  <2> QED BY <1>8, <2>1
<1>11. commands' = new \o Rest BY <1>1, <1>6, <1>7, <1>8
<1>12. \A i \in 1..Len(new) :
          new[i].doc = Head(commands).doc.kids[i] /\ new[i].mode = Head(commands).mode
  <2>1. Head(commands).doc.kids = kids /\ Head(commands).mode = Cmd.mode BY <1>2, <1>6, Zenon
  <2>2. Len(new) = Len(kids) BY <1>10
  <2> QED BY <1>9, <2>1, <2>2, Zenon
<1>13. commands' \in Seq(Commands(doc)) /\ Kept(doc, out, commands', fills)
  <2>1. Head(commands).doc \in Arena(doc) /\ Head(commands).doc.k = "concat"
    BY <1>1, <1>2, <1>4, Zenon
  <2>2. Len(new) = Len(Head(commands).doc.kids) BY <1>2, <1>6, <1>10, Zenon
  <2>3. new \o Tail(commands) \in Seq(Commands(doc)) /\ Kept(doc, out, new \o Tail(commands), fills)
    BY <1>1, <1>2, <1>3, <1>10, <1>12, <2>1, <2>2, KeptUnfolded
  <2> QED BY <1>2, <1>11, <2>3, Zenon
<1>14. Typed(doc, out', commands', suffixes', fills') BY <1>1, <1>2, <1>13 DEF Typed
<1>15. Whole3(out') /\ Kept(doc, out', commands', fills') BY <1>1, <1>2, <1>13
<1> QED BY <1>1, <1>2, <1>14, <1>15, StepGood DEF Good

---------------------------------------------------------------------------
(* Boundaries and flushes. *)

\* what the renderer adds is a command that prints no word
LEMMA AddedIs ==
    ASSUME NEW root, Rooted(root), NEW c \in Commands(root), NEW d \in Restored \cup Heads
    PROVE  With(c, d) \in Commands(root) /\ Reading(With(c, d)) \subseteq {<<>>}
<1>1. d \in Printables(root) BY DEF Printables
<1>2. With(c, d) \in Commands(root) /\ With(c, d).doc = d BY <1>1, WithTyped
<1> QED BY <1>2, AddedIsSilent

LEMMA RunIs ==
    ASSUME NEW root, Rooted(root), NEW cmds \in Seq(Deferred(root)), NEW behind \in BOOLEAN
    PROVE  Run(cmds, behind) \in Commands(root) /\ Reading(Run(cmds, behind)) \subseteq {<<>>}
<1>1. PICK d : d = [k |-> "run", cmds |-> cmds, behind |-> behind] OBVIOUS
<1>2. d \in Runs(root) BY <1>1 DEF Runs
<1>3. PICK c : c = Run(cmds, behind) OBVIOUS
<1>4. c = [doc |-> d, indent |-> NoIndent, mode |-> "break", inline |-> FALSE]
  BY <1>1, <1>3 DEF Run, Command
<1>5. NoIndent \in Indents /\ "break" \in Modes /\ d \in Printables(root)
  BY <1>2 DEF NoIndent, Indents, Modes, Printables
<1>6. c \in Commands(root) BY <1>4, <1>5, BoxedIs DEF Commands
<1>7. c.doc \in Runs(root) BY <1>2, <1>4
<1>8. Reading(c) = {<<>>} BY <1>6, <1>7, AddedIsSilent
<1> QED BY <1>3, <1>6, <1>8

\* a boundary leaves a hard line or nothing
LEMMA RenderBoundaryInv ==
    ASSUME PrintInv, RenderBoundary
    PROVE  PrintInv'
<1>1. /\ ~done /\ commands # <<>> /\ Cmd.doc.k = "boundary"
      /\ UNCHANGED <<doc, fills, suffixes, out, done>>
  BY DEF RenderBoundary, Printing
<1>2. Rooted(doc) /\ Typed(doc, out, commands, suffixes, fills) /\ Cmd \in Commands(doc)
  BY <1>1, HeadIs
<1>3. suffixes' \in Seq(Deferred(doc)) BY <1>1, <1>2 DEF Typed
<1>4. <<>> \in Reading(Cmd) BY <1>1 DEF Reading, Silent
<1>5. Holds(out, out') BY <1>1, HoldsStill
<1>6. PICK c : c = With(Cmd, Line("hard")) OBVIOUS
<1>7. c \in Commands(doc) /\ Reading(c) \subseteq {<<>>}
  BY <1>2, <1>6, AddedIs DEF Restored
<1>8. PICK new : new = IF suffixes = <<>> THEN <<>> ELSE <<c>> OBVIOUS
<1>9. new \in Seq(Commands(doc)) /\ \A i \in 1..Len(new) : Reading(new[i]) \subseteq {<<>>}
  <2>1. CASE suffixes = <<>>
    <3>1. new = <<>> BY <1>8, <2>1
    <3>2. new \in Seq(Commands(doc)) /\ Len(new) = 0 BY <3>1, EmptySeq
    <3> QED BY <3>2
  <2>2. CASE suffixes # <<>>
    <3>1. new = <<c>> BY <1>8, <2>2
    <3>2. new \in Seq(Commands(doc)) /\ Len(new) = 1 /\ new[1] = c BY <1>7, <3>1
    <3> QED BY <1>7, <3>2
  <2> QED BY <2>1, <2>2
<1>10. commands' = new \o Rest BY <1>6, <1>8 DEF RenderBoundary
<1> QED BY <1>1, <1>3, <1>4, <1>5, <1>9, <1>10, Passed

\* silent commands ahead of the commands
LEMMA Pushed ==
    ASSUME PrintInv, ~done,
           NEW new \in Seq(Commands(doc)), \A i \in 1..Len(new) : Reading(new[i]) \subseteq {<<>>},
           commands' = new \o commands,
           Holds(out, out'), suffixes' = <<>>, UNCHANGED <<doc, fills, done>>
    PROVE  PrintInv'
<1>1. /\ Rooted(doc) /\ Typed(doc, out, commands, suffixes, fills)
      /\ Whole3(out) /\ Kept(doc, out, commands, fills)
  BY DEF PrintInv, Good
<1>2. commands \in Seq(Commands(doc)) BY <1>1 DEF Typed
<1>3. PICK t : t = out' OBVIOUS
<1>4. t \in Seq(Tokens) /\ (\A y : Spelt(out, y) => Spelt(t, y)) /\ Whole3(t)
  BY <1>1, <1>3 DEF Holds
<1>5. Kept(doc, t, commands, fills) BY <1>1, <1>4, KeptAsPrinted
<1>6. commands' \in Seq(Commands(doc)) /\ Kept(doc, t, commands', fills)
  BY <1>1, <1>2, <1>5, KeptPushed
<1>7. suffixes' \in Seq(Deferred(doc)) BY EmptySeq
<1>8. Typed(doc, out', commands', suffixes', fills') BY <1>1, <1>3, <1>4, <1>6, <1>7 DEF Typed
<1>9. Whole3(out') /\ Kept(doc, out', commands', fills') BY <1>3, <1>4, <1>6
<1> QED BY <1>1, <1>8, <1>9, StepGood DEF Good

\* what is deferred, as a run
LEMMA FlushedRun ==
    ASSUME PrintInv
    PROVE  /\ <<Run(suffixes, FALSE)>> \in Seq(Commands(doc))
           /\ \A i \in 1..Len(<<Run(suffixes, FALSE)>>) :
                 Reading(<<Run(suffixes, FALSE)>>[i]) \subseteq {<<>>}
<1>1. Rooted(doc) /\ suffixes \in Seq(Deferred(doc)) BY DEF PrintInv, Good, Typed
<1>2. PICK c : c = Run(suffixes, FALSE) OBVIOUS
<1>3. c \in Commands(doc) /\ Reading(c) \subseteq {<<>>} BY <1>1, <1>2, RunIs
<1>4. <<c>> \in Seq(Commands(doc)) /\ Len(<<c>>) = 1 /\ <<c>>[1] = c BY <1>3
<1>5. \A i \in 1..Len(<<c>>) : Reading(<<c>>[i]) \subseteq {<<>>} BY <1>3, <1>4
<1> QED BY <1>2, <1>4, <1>5

\* the run goes ahead of the line it was waiting for
LEMMA FlushAtLineInv ==
    ASSUME PrintInv, FlushAtLine
    PROVE  PrintInv'
<1>1. /\ ~done /\ commands' = <<Run(suffixes, FALSE)>> \o commands /\ suffixes' = <<>>
      /\ out' = Obliged(Page, Cmd.doc.kind, Cmd.mode).out
      /\ UNCHANGED <<doc, fills, done>>
  BY DEF FlushAtLine, Printing, Printed
<1>2. out' = out BY <1>1, ThisPage, PageObliged
<1>3. Holds(out, out') BY <1>2, HoldsStill
<1> QED BY <1>1, <1>3, FlushedRun, Pushed

\* and onto the empty stack at the end of a part or of the document
LEMMA FlushAtEndInv ==
    ASSUME PrintInv, FlushAtEnd
    PROVE  PrintInv'
<1>1. /\ ~done /\ commands = <<>> /\ commands' = <<Run(suffixes, FALSE)>> /\ suffixes' = <<>>
      /\ UNCHANGED <<doc, fills, out, done>>
  BY DEF FlushAtEnd
<1>2. PICK new \in Seq(Commands(doc)) :
         /\ new = <<Run(suffixes, FALSE)>>
         /\ \A i \in 1..Len(new) : Reading(new[i]) \subseteq {<<>>}
  BY FlushedRun
<1>3. commands' = new \o commands BY <1>1, <1>2, ConcatEmptySeq
<1>4. Holds(out, out') BY <1>1, HoldsStill
<1> QED BY <1>1, <1>2, <1>3, <1>4, Pushed

\* an empty run is dropped
LEMMA FlushDoneInv ==
    ASSUME PrintInv, FlushDone
    PROVE  PrintInv'
<1>1. /\ ~done /\ commands # <<>> /\ Cmd.doc.k = "run" /\ commands' = Rest
      /\ UNCHANGED <<doc, fills, suffixes, out, done>>
  BY DEF FlushDone, Printing
<1>2. Typed(doc, out, commands, suffixes, fills) BY <1>1, HeadIs
<1>3. suffixes' \in Seq(Deferred(doc)) BY <1>1, <1>2 DEF Typed
<1>4. <<>> \in Reading(Cmd) BY <1>1 DEF Reading
<1>5. Holds(out, out') BY <1>1, HoldsStill
<1> QED BY <1>1, <1>3, <1>4, <1>5, Left

LEMMA SilentJoined ==
    ASSUME NEW root, NEW a \in Seq(Commands(root)), NEW b \in Seq(Commands(root)),
           \A i \in 1..Len(a) : Reading(a[i]) \subseteq {<<>>},
           \A i \in 1..Len(b) : Reading(b[i]) \subseteq {<<>>}
    PROVE  /\ a \o b \in Seq(Commands(root))
           /\ \A i \in 1..Len(a \o b) : Reading((a \o b)[i]) \subseteq {<<>>}
<1>1. PICK new : new = a \o b OBVIOUS
<1>2. new \in Seq(Commands(root)) /\ Len(new) = Len(a) + Len(b)
      /\ \A i \in 1..Len(a) + Len(b) : new[i] = IF i <= Len(a) THEN a[i] ELSE b[i - Len(a)]
  BY <1>1, ConcatProperties
<1>3. Len(a) \in Nat /\ Len(b) \in Nat OBVIOUS
<1>4. \A i \in 1..Len(a) + Len(b) : i \in 1..Len(a) \/ (~(i <= Len(a)) /\ i - Len(a) \in 1..Len(b))
  BY <1>3
<1>5. ASSUME NEW i \in 1..Len(a) + Len(b) PROVE Reading(new[i]) \subseteq {<<>>}
  <2>1. CASE i \in 1..Len(a)
    <3>1. new[i] = a[i] BY <1>2, <1>3, <2>1
    <3> QED BY <2>1, <3>1
  <2>2. CASE ~(i <= Len(a)) /\ i - Len(a) \in 1..Len(b)
    <3>1. new[i] = b[i - Len(a)] BY <1>2, <2>2
    <3> QED BY <2>2, <3>1
  <2> QED BY <1>4, <2>1, <2>2
<1> QED BY <1>1, <1>2, <1>5

\* the trimmed output, and what is put back of what was trimmed
LEMMA FlushAheadInv ==
    ASSUME PrintInv, FlushAhead
    PROVE  PrintInv'
<1> DEFINE bare == Trimmed(out)
           cut  == SubSeq(out, Len(bare) + 1, Len(out))
           back == IF EndsInComment(Last(suffixes)) THEN <<Line("hard")>>
                   ELSE [i \in DOMAIN cut |-> [k |-> "text", of |-> cut[i][1], w |-> cut[i][2]]]
<1>1. /\ ~done /\ commands # <<>> /\ suffixes' = <<>> /\ out' = bare
      /\ commands' = <<Run(suffixes, FALSE)>>
                     \o [i \in DOMAIN back |-> With(Cmd, back[i])] \o commands
      /\ UNCHANGED <<doc, fills, done>>
  BY DEF FlushAhead, Printing
<1>2. Rooted(doc) /\ Typed(doc, out, commands, suffixes, fills) /\ Cmd \in Commands(doc)
  BY <1>1, HeadIs
<1>3. out \in Seq(Tokens) BY <1>2 DEF Typed
<1>4. Holds(out, out') BY <1>1, <1>3, TrimKeeps DEF Holds
<1>5. PICK n \in 0..Len(out) :
         bare = SubSeq(out, 1, n) /\ \A i \in n + 1..Len(out) : out[i][1] \in Blanks
  BY <1>3, TrimmedIs
<1>6. /\ cut \in Seq(Tokens)
      /\ \A i \in 1..Len(cut) : cut[i][1] \in Blanks /\ cut[i][2] \in Nat
  <2>1. Len(out) \in Nat /\ n \in Nat /\ n <= Len(out) BY <1>3
  <2>2. Len(bare) = n BY <1>3, <1>5, <2>1
  <2> HIDE DEF bare
  <2>3. /\ SubSeq(out, n + 1, Len(out)) \in Seq(Tokens)
        /\ Len(SubSeq(out, n + 1, Len(out))) = Len(out) - n
        /\ \A i \in 1..Len(out) - n : SubSeq(out, n + 1, Len(out))[i] = out[n + i]
    BY <1>3, <2>1
  <2>4. \A i \in 1..Len(out) - n : n + i \in n + 1..Len(out) /\ n + i \in 1..Len(out) BY <2>1
  <2>5. \A i \in 1..Len(out) : out[i][2] \in Nat BY <1>3 DEF Tokens
  <2> QED BY <1>5, <2>2, <2>3, <2>4, <2>5
<1> HIDE DEF bare, cut
<1>7. back \in Seq(Restored)
  <2>1. CASE EndsInComment(Last(suffixes))
    <3>1. Line("hard") \in Restored BY DEF Restored
    <3>2. back = <<Line("hard")>> BY <2>1
    <3> QED BY <3>1, <3>2
  <2>2. CASE ~EndsInComment(Last(suffixes))
    <3>1. DOMAIN cut = 1..Len(cut) /\ Len(cut) \in Nat BY <1>6
    <3>2. back = [i \in 1..Len(cut) |-> [k |-> "text", of |-> cut[i][1], w |-> cut[i][2]]]
      BY <2>2, <3>1
    <3>3. \A i \in 1..Len(cut) : [k |-> "text", of |-> cut[i][1], w |-> cut[i][2]] \in Restored
      BY <1>6 DEF Restored
    <3> HIDE DEF back
    <3>4. back \in [1..Len(cut) -> Restored] BY <3>2, <3>3
    <3> QED BY <3>1, <3>4
  <2> QED BY <2>1, <2>2
<1> HIDE DEF back
<1>8. PICK b : b = [i \in DOMAIN back |-> With(Cmd, back[i])] OBVIOUS
<1>9. b \in Seq(Commands(doc)) /\ \A i \in 1..Len(b) : Reading(b[i]) \subseteq {<<>>}
  <2>1. DOMAIN back = 1..Len(back) /\ Len(back) \in Nat /\ \A i \in 1..Len(back) : back[i] \in Restored
    BY <1>7
  <2>2. \A i \in 1..Len(back) : With(Cmd, back[i]) \in Commands(doc)
           /\ Reading(With(Cmd, back[i])) \subseteq {<<>>}
    BY <1>2, <2>1, AddedIs
  <2>3. b \in [1..Len(back) -> Commands(doc)] BY <1>8, <2>1, <2>2
  <2>4. b \in Seq(Commands(doc)) /\ Len(b) = Len(back) BY <2>1, <2>3
  <2>5. \A i \in 1..Len(back) : b[i] = With(Cmd, back[i]) BY <1>8, <2>1
  <2> QED BY <2>2, <2>4, <2>5
<1>10. PICK a \in Seq(Commands(doc)) :
          /\ a = <<Run(suffixes, FALSE)>>
          /\ \A i \in 1..Len(a) : Reading(a[i]) \subseteq {<<>>}
  BY FlushedRun
<1>11. PICK new : new = a \o b OBVIOUS
<1>12. new \in Seq(Commands(doc)) /\ \A i \in 1..Len(new) : Reading(new[i]) \subseteq {<<>>}
  BY <1>9, <1>10, <1>11, SilentJoined
<1>13. commands' = new \o commands BY <1>1, <1>8, <1>10, <1>11
<1> QED BY <1>1, <1>4, <1>12, <1>13, Pushed

\* a deferred command that a flush takes up
LEMMA Taken ==
    ASSUME NEW root, Rooted(root), NEW c \in Deferred(root)
    PROVE  /\ [c EXCEPT !.inline = TRUE] \in Deferred(root)
           /\ [c EXCEPT !.inline = TRUE] \in Commands(root)
           /\ Reading([c EXCEPT !.inline = TRUE]) \subseteq {<<>>}
<1>1. PICK d \in Arena(root), i \in Indents, m \in Modes, inl \in BOOLEAN :
         /\ c = [doc |-> d, indent |-> i, mode |-> m, inline |-> inl]
         /\ WordsOf(d, m) \subseteq {<<>>}
  BY DEF Deferred, Boxed
<1>2. PICK b : b = [c EXCEPT !.inline = TRUE] OBVIOUS
<1>3. b = [doc |-> d, indent |-> i, mode |-> m, inline |-> TRUE] BY <1>1, <1>2
<1>4. b \in Boxed(Arena(root)) BY <1>3, BoxedIs
<1>5. b.doc = d /\ b.mode = m BY <1>3
<1>6. b \in Deferred(root) BY <1>1, <1>4, <1>5 DEF Deferred
<1> QED BY <1>2, <1>6, DeferredIs

\* a deferred command is taken up, on a line of its own where it must
LEMMA FlushNextInv ==
    ASSUME PrintInv, FlushNext
    PROVE  PrintInv'
<1> DEFINE cmd       == [Head(Cmd.doc.cmds) EXCEPT !.inline = TRUE]
           then      == Run(Tail(Cmd.doc.cmds), EndsInComment(cmd))
           separated == Cmd.doc.behind /\ ~OpensItsLine(cmd)
           page      == IF separated THEN LineBreak(Page, "hard", cmd.mode, cmd.indent) ELSE Page
           new       == IF separated THEN <<cmd, With(cmd, HeadSpace(Len(page.out) + 1)), then>>
                        ELSE <<cmd, then>>
<1>1. /\ ~done /\ commands # <<>> /\ Cmd.doc.k = "run" /\ Cmd.doc.cmds # <<>>
      /\ out' = page.out /\ commands' = new \o Rest
      /\ UNCHANGED <<doc, fills, suffixes, done>>
  BY DEF FlushNext, Printing, Printed
<1>2. Rooted(doc) /\ Typed(doc, out, commands, suffixes, fills) /\ Cmd \in Commands(doc)
  BY <1>1, HeadIs
<1>3. out \in Seq(Tokens) /\ suffixes' \in Seq(Deferred(doc)) BY <1>1, <1>2 DEF Typed
<1>4. <<>> \in Reading(Cmd) BY <1>1 DEF Reading
<1>5. Cmd.doc \in Runs(doc) BY <1>1, <1>2, NodeKind
<1>6. PICK run \in Seq(Deferred(doc)) : run = Cmd.doc.cmds /\ run # <<>> BY <1>1, <1>5 DEF Runs
<1>7. Head(run) \in Deferred(doc) /\ Tail(run) \in Seq(Deferred(doc)) BY <1>6, HeadTailProperties
<1>8. PICK c : c = cmd OBVIOUS
<1>9. c \in Commands(doc) /\ Reading(c) \subseteq {<<>>} BY <1>2, <1>6, <1>7, <1>8, Taken
<1>10. c.indent \in Indents BY <1>9, CommandIs
<1>11. PICK t : t = Run(Tail(run), EndsInComment(c)) OBVIOUS
<1>12. t \in Commands(doc) /\ Reading(t) \subseteq {<<>>}
  <2>1. EndsInComment(c) \in BOOLEAN BY DEF EndsInComment
  <2> QED BY <1>2, <1>7, <1>11, <2>1, RunIs
<1>13. t = then BY <1>6, <1>8, <1>11
<1> HIDE DEF cmd, then
<1>14. Holds(out, page.out)
  <2>1. CASE separated
    <3>1. page = LineBreak(Page, "hard", c.mode, c.indent) BY <1>8, <2>1
    <3>2. Holds(out, LineBreak(Page, "hard", c.mode, c.indent).out) BY <1>3, <1>10, LineHolds
    <3> HIDE DEF page
    <3> QED BY <3>1, <3>2
  <2>2. CASE ~separated
    <3>1. page = Page BY <2>2
    <3> HIDE DEF page
    <3> QED BY <3>1, ThisPage, HoldsStill
  <2> QED BY <2>1, <2>2
<1>15. Holds(out, out') BY <1>1, <1>14
<1>16. PICK h : h = With(c, HeadSpace(Len(page.out) + 1)) OBVIOUS
<1>17. h \in Commands(doc) /\ Reading(h) \subseteq {<<>>}
  <2>1. page.out \in Seq(Tokens) BY <1>14 DEF Holds
  <2> HIDE DEF page
  <2>2. Len(page.out) + 1 \in Nat \ {0} BY <2>1
  <2>3. HeadSpace(Len(page.out) + 1) \in Heads BY <2>2 DEF Heads
  <2> QED BY <1>2, <1>9, <1>16, <2>3, AddedIs
<1>18. new = IF separated THEN <<c, h, t>> ELSE <<c, t>> BY <1>8, <1>13, <1>16
<1> HIDE DEF page, new, separated
<1>19. new \in Seq(Commands(doc)) /\ \A i \in 1..Len(new) : Reading(new[i]) \subseteq {<<>>}
  <2>1. <<c, h, t>> \in Seq(Commands(doc))
        /\ \A i \in 1..Len(<<c, h, t>>) : Reading(<<c, h, t>>[i]) \subseteq {<<>>}
    BY <1>9, <1>12, <1>17
  <2>2. <<c, t>> \in Seq(Commands(doc))
        /\ \A i \in 1..Len(<<c, t>>) : Reading(<<c, t>>[i]) \subseteq {<<>>}
    BY <1>9, <1>12
  <2> QED BY <1>18, <2>1, <2>2
<1>20. commands' = new \o Rest BY <1>1
<1> QED BY <1>1, <1>3, <1>4, <1>15, <1>19, <1>20, Passed

\* the token removed is a blank: the others stand as they stood, those of a comment together
LEMMA DropHeadSpaceInv ==
    ASSUME PrintInv, DropHeadSpace
    PROVE  PrintInv'
<1>1. /\ ~done /\ commands # <<>> /\ Cmd.doc.k = "head" /\ commands' = Rest
      /\ UNCHANGED <<doc, fills, suffixes, done>>
      /\ \/ /\ Cmd.doc.at <= Len(out) /\ out[Cmd.doc.at] \in {<<"space", 1>>, <<"flat", 1>>}
            /\ out' = RemoveAt(out, Cmd.doc.at)
         \/ out' = out
  BY DEF DropHeadSpace, Printing
<1>2. Rooted(doc) /\ Typed(doc, out, commands, suffixes, fills) /\ Cmd \in Commands(doc)
  BY <1>1, HeadIs
<1>3. out \in Seq(Tokens) /\ suffixes' \in Seq(Deferred(doc)) BY <1>1, <1>2 DEF Typed
<1>4. <<>> \in Reading(Cmd) BY <1>1 DEF Reading
<1>5. Cmd.doc \in Heads BY <1>1, <1>2, NodeKind
<1>6. PICK at \in Nat \ {0} : at = Cmd.doc.at BY <1>5 DEF Heads, HeadSpace
<1>7. Holds(out, out')
  <2>1. CASE out' = out BY <2>1, HoldsStill
  <2>2. CASE /\ at <= Len(out) /\ out[at] \in {<<"space", 1>>, <<"flat", 1>>}
             /\ out' = RemoveAt(out, at)
    <3>1. at \in 1..Len(out) BY <1>3, <2>2
    <3>2. out[at][1] \in Blanks BY <2>2 DEF Blanks
    <3>3. /\ RemoveAt(out, at) \in Seq(Tokens)
          /\ \A y : Spelt(out, y) => Spelt(RemoveAt(out, at), y)
          /\ Whole3(out) => Whole3(RemoveAt(out, at))
      BY <1>3, <3>1, <3>2, DropKeeps
    <3> QED BY <2>2, <3>3 DEF Holds
  <2> QED BY <1>1, <1>6, <2>1, <2>2
<1> QED BY <1>1, <1>3, <1>4, <1>7, Left

---------------------------------------------------------------------------
(* Steps of a fill. *)
Flags == {"glued_lead", "after_element_fold"}

LEMMA FillingTyped ==
    ASSUME NEW root, NEW p \in Seq(Arena(root)), Fill(p) \in Arena(root), NEW at \in Nat \ {0},
           NEW jobs \in Seq(Jobs(root)), NEW busy \in BOOLEAN, NEW i \in Indents, NEW n \in Nat,
           NEW flags \in SUBSET Flags, NEW rest \in Seq(Commands(root)),
           NEW late \in Seq(Deferred(root))
    PROVE  [parts |-> p, at |-> at, jobs |-> jobs, busy |-> busy, indent |-> i, reserve |-> n,
            flags |-> flags, rest |-> rest, deferred |-> late] \in Fillings(root)
  BY DEF Fillings, Flags

LEMMA FillingIs ==
    ASSUME NEW root, NEW f \in Fillings(root)
    PROVE  /\ f.parts \in Seq(Arena(root)) /\ Fill(f.parts) \in Arena(root) /\ f.at \in Nat \ {0}
           /\ f.jobs \in Seq(Jobs(root)) /\ f.busy \in BOOLEAN /\ f.indent \in Indents
           /\ f.reserve \in Nat /\ f.flags \in SUBSET Flags
           /\ f.rest \in Seq(Commands(root)) /\ f.deferred \in Seq(Deferred(root))
           /\ f = [parts |-> f.parts, at |-> f.at, jobs |-> f.jobs, busy |-> f.busy,
                   indent |-> f.indent, reserve |-> f.reserve, flags |-> f.flags,
                   rest |-> f.rest, deferred |-> f.deferred]
  BY DEF Fillings, Flags

LEMMA OneMore ==
    ASSUME NEW S, NEW s \in Seq(S), NEW e \in S
    PROVE  /\ <<e>> \o s \in Seq(S) /\ <<e>> \o s # <<>>
           /\ (<<e>> \o s)[1] = e /\ Tail(<<e>> \o s) = s
<1>1. PICK t : t = <<e>> \o s OBVIOUS
<1>2. Len(s) \in Nat OBVIOUS
<1>3. t \in Seq(S) /\ Len(t) = Len(s) + 1 /\ t[1] = e /\ \A i \in 1..Len(s) : t[i + 1] = s[i]
  <2>1. <<e>> \in Seq(S) /\ Len(<<e>>) = 1 /\ <<e>>[1] = e OBVIOUS
  <2>2. t \in Seq(S) /\ Len(t) = 1 + Len(s)
        /\ \A i \in 1..1 + Len(s) : t[i] = IF i <= 1 THEN <<e>>[i] ELSE s[i - 1]
    BY <1>1, <2>1, ConcatProperties
  <2>3. t[1] = e
    <3>1. 1 \in 1..1 + Len(s) BY <1>2
    <3> QED BY <2>1, <2>2, <3>1
  <2>4. ASSUME NEW i \in 1..Len(s) PROVE t[i + 1] = s[i]
    <3>1. i + 1 \in 1..1 + Len(s) /\ ~(i + 1 <= 1) /\ (i + 1) - 1 = i BY <1>2
    <3> QED BY <2>2, <3>1
  <2> QED BY <1>2, <2>2, <2>3, <2>4
<1>4. t # <<>> BY <1>2, <1>3
<1>5. PICK r : r = Tail(t) OBVIOUS
<1>6. r \in Seq(S) /\ Len(r) = Len(t) - 1 /\ \A i \in 1..Len(r) : r[i] = t[i + 1]
  BY <1>3, <1>4, <1>5, HeadTailProperties
<1>7. \A i \in 1..Len(s) : r[i] = s[i] BY <1>2, <1>3, <1>6
<1>8. r = s BY <1>2, <1>3, <1>6, <1>7, SeqEqual
<1> QED BY <1>1, <1>3, <1>4, <1>5, <1>8

\* the innermost fill is replaced
LEMMA Renewed ==
    ASSUME NEW S, NEW s \in Seq(S), s # <<>>, NEW e \in S
    PROVE  /\ [s EXCEPT ![1] = e] \in Seq(S) /\ [s EXCEPT ![1] = e] # <<>>
           /\ [s EXCEPT ![1] = e][1] = e /\ Tail([s EXCEPT ![1] = e]) = Tail(s)
<1>1. PICK t : t = [s EXCEPT ![1] = e] OBVIOUS
<1>2. Len(s) \in Nat /\ Len(s) >= 1 OBVIOUS
<1>3. t \in Seq(S) /\ Len(t) = Len(s) /\ t[1] = e /\ \A i \in 2..Len(s) : t[i] = s[i]
  BY <1>1, <1>2
<1>4. t # <<>> BY <1>2, <1>3
<1>5. PICK p, q : p = Tail(s) /\ q = Tail(t) OBVIOUS
<1>6. p \in Seq(S) /\ Len(p) = Len(s) - 1 /\ \A i \in 1..Len(p) : p[i] = s[i + 1]
  BY <1>5, HeadTailProperties
<1>7. q \in Seq(S) /\ Len(q) = Len(t) - 1 /\ \A i \in 1..Len(q) : q[i] = t[i + 1]
  BY <1>3, <1>4, <1>5, HeadTailProperties
<1>8. \A i \in 1..Len(p) : q[i] = p[i]
  <2>1. \A i \in 1..Len(p) : i + 1 \in 2..Len(s) BY <1>2, <1>6
  <2> QED BY <1>3, <1>6, <1>7, <2>1
<1>9. q = p BY <1>2, <1>3, <1>6, <1>7, <1>8, SeqEqual
<1> QED BY <1>1, <1>3, <1>4, <1>5, <1>9

\* a fill puts aside the commands and the suffixes it was met with
LEMMA RenderFillInv ==
    ASSUME PrintInv, RenderFill
    PROVE  PrintInv'
<1> DEFINE context == IF Cmd.doc.k = "reserve" THEN Cmd.doc ELSE Reserve(0, Cmd.doc)
<1>1. /\ ~done /\ commands # <<>> /\ Cmd.doc.k \in {"fill", "reserve"}
      /\ context.c.k = "fill"
      /\ fills' = <<[parts |-> context.c.kids, at |-> 1, jobs |-> <<>>, busy |-> FALSE,
                     indent |-> Cmd.indent, reserve |-> context.n, flags |-> context.flags,
                     rest |-> Rest, deferred |-> suffixes]>> \o fills
      /\ commands' = <<>> /\ suffixes' = <<>> /\ UNCHANGED <<doc, out, done>>
  BY DEF RenderFill, Printing
<1>2. /\ Rooted(doc) /\ Typed(doc, out, commands, suffixes, fills)
      /\ Whole3(out) /\ Kept(doc, out, commands, fills)
      /\ Cmd \in Commands(doc) /\ Cmd = Head(commands)
      /\ Rest \in Seq(Commands(doc)) /\ Rest = Tail(commands)
  BY <1>1, HeadIs
<1>3. /\ out \in Seq(Tokens) /\ commands \in Seq(Commands(doc))
      /\ suffixes \in Seq(Deferred(doc)) /\ fills \in Seq(Fillings(doc))
  BY <1>2 DEF Typed
<1>4. Cmd.doc \in Arena(doc) BY <1>1, <1>2, NodeKind
<1>5. Cmd.mode \in Modes /\ Cmd.indent \in Indents BY <1>2, CommandIs
<1>6. PICK d \in Arena(doc), n \in Nat, flags \in SUBSET Flags :
         /\ d = context.c /\ n = context.n /\ flags = context.flags
         /\ WordsOf(d, Cmd.mode) \subseteq Reading(Cmd)
  <2>1. CASE Cmd.doc.k = "reserve"
    <3>1. context = Cmd.doc BY <2>1
    <3>2. WellBuilt(Cmd.doc, Arena(doc)) BY <1>2, <1>4, NodeIs
    <3>3. Cmd.doc.n \in Nat /\ Cmd.doc.flags \in SUBSET Flags BY <2>1, <3>2 DEF WellBuilt, Flags
    <3>4. /\ Cmd.doc.c \in Arena(doc)
          /\ WordsOf(Cmd.doc.c, Cmd.mode) \subseteq WordsOf(Cmd.doc, Cmd.mode)
      BY <1>2, <1>4, <1>5, <2>1, WrappedIs
    <3>5. Reading(Cmd) = WordsOf(Cmd.doc, Cmd.mode) BY <2>1 DEF Reading, Silent
    <3> QED BY <3>1, <3>3, <3>4, <3>5
  <2>2. CASE Cmd.doc.k = "fill"
    <3>1. context = Reserve(0, Cmd.doc) BY <2>2
    <3>2. context.c = Cmd.doc /\ context.n = 0 /\ context.flags = {} BY <3>1 DEF Reserve
    <3>3. Reading(Cmd) = WordsOf(Cmd.doc, Cmd.mode) BY <2>2 DEF Reading, Silent
    <3> HIDE DEF context
    <3> QED BY <1>4, <3>2, <3>3
  <2> QED BY <1>1, <2>1, <2>2
<1> HIDE DEF context
<1>7. d.k = "fill" BY <1>1, <1>6
<1>8. d = [k |-> d.k, kids |-> d.kids] /\ d.kids \in Seq(Arena(doc)) BY <1>2, <1>5, <1>7, RowIs
<1>9. Fill(d.kids) \in Arena(doc) BY <1>7, <1>8 DEF Fill
<1>10. PICK f : f = [parts |-> d.kids, at |-> 1, jobs |-> <<>>, busy |-> FALSE,
                     indent |-> Cmd.indent, reserve |-> n, flags |-> flags,
                     rest |-> Rest, deferred |-> suffixes]
  OBVIOUS
<1>11. f \in Fillings(doc)
  <2>1. <<>> \in Seq(Jobs(doc)) /\ 1 \in Nat \ {0} BY EmptySeq
  <2> QED BY <1>2, <1>3, <1>5, <1>8, <1>9, <1>10, <2>1, FillingTyped
<1>12. f.parts = d.kids /\ f.at = 1 /\ f.jobs = <<>> /\ f.rest = Rest BY <1>10
<1>13. PICK new : new = <<f>> \o fills OBVIOUS
<1>14. new \in Seq(Fillings(doc)) /\ new # <<>> /\ new[1] = f /\ Tail(new) = fills
  BY <1>3, <1>11, <1>13, OneMore
<1>15. fills' = new BY <1>1, <1>6, <1>10, <1>13
<1>16. Kept(doc, out, <<>>, new)
  <2>1. /\ new[1].parts = d.kids /\ new[1].at = 1 /\ new[1].jobs = <<>>
        /\ new[1].rest = Tail(commands)
    BY <1>2, <1>12, <1>14, Zenon
  <2>2. Kept(doc, out, commands, Tail(new)) BY <1>2, <1>14
  <2>3. WordsOf(d, Cmd.mode) \subseteq Reading(Head(commands)) BY <1>2, <1>6, Zenon
  <2> QED BY <1>1, <1>2, <1>3, <1>5, <1>7, <1>14, <2>1, <2>2, <2>3, KeptFill
<1>17. Typed(doc, out', commands', suffixes', fills')
  <2>1. <<>> \in Seq(Commands(doc)) /\ <<>> \in Seq(Deferred(doc)) BY EmptySeq
  <2> QED BY <1>1, <1>3, <1>14, <1>15, <2>1 DEF Typed
<1>18. Whole3(out') /\ Kept(doc, out', commands', fills') BY <1>1, <1>2, <1>15, <1>16
<1> QED BY <1>1, <1>2, <1>17, <1>18, StepGood DEF Good

LEMMA InFillIs ==
    ASSUME PrintInv, InFill
    PROVE  /\ ~done /\ commands = <<>> /\ fills # <<>>
           /\ Rooted(doc) /\ Whole3(out) /\ Kept(doc, out, <<>>, fills)
           /\ out \in Seq(Tokens) /\ suffixes \in Seq(Deferred(doc))
           /\ fills \in Seq(Fillings(doc))
           /\ Packing \in Fillings(doc) /\ Packing = fills[1]
<1>1. /\ ~done /\ commands = <<>> /\ fills # <<>> BY DEF InFill
<1>2. /\ Rooted(doc) /\ Typed(doc, out, commands, suffixes, fills)
      /\ Whole3(out) /\ Kept(doc, out, commands, fills)
  BY DEF PrintInv, Good
<1>3. fills \in Seq(Fillings(doc)) BY <1>2 DEF Typed
<1>4. Packing \in Fillings(doc) /\ Packing = fills[1] BY <1>1, <1>3, HeadTailProperties DEF Packing
<1> QED BY <1>1, <1>2, <1>3, <1>4 DEF Typed

\* after a step of the innermost fill
LEMMA FillGood ==
    ASSUME PrintInv, InFill,
           NEW t \in Seq(Tokens), Whole3(t), out' = t,
           NEW cmds \in Seq(Commands(doc)), commands' = cmds,
           NEW new \in Seq(Fillings(doc)), fills' = new,
           NEW late \in Seq(Deferred(doc)), suffixes' = late,
           Kept(doc, t, cmds, new), UNCHANGED <<doc, done>>
    PROVE  PrintInv'
<1>1. ~done /\ Rooted(doc) BY InFillIs
<1>2. Typed(doc, out', commands', suffixes', fills') BY DEF Typed
<1>3. Whole3(out') /\ Kept(doc, out', commands', fills') OBVIOUS
<1> QED BY <1>1, <1>2, <1>3, StepGood DEF Good

\* a part is done when its commands are
LEMMA PartRenderedInv ==
    ASSUME PrintInv, PartRendered
    PROVE  PrintInv'
<1>1. /\ InFill /\ fills' = [fills EXCEPT ![1].busy = FALSE]
      /\ UNCHANGED <<doc, commands, suffixes, out, done>>
  BY DEF PartRendered
<1>2. /\ commands = <<>> /\ fills # <<>>
      /\ Rooted(doc) /\ Whole3(out) /\ Kept(doc, out, <<>>, fills)
      /\ out \in Seq(Tokens) /\ suffixes \in Seq(Deferred(doc))
      /\ fills \in Seq(Fillings(doc))
  BY <1>1, InFillIs
<1>3. PICK f \in Fillings(doc) : f = fills[1] BY <1>1, InFillIs
<1>4. PICK g : g = [f EXCEPT !.busy = FALSE] OBVIOUS
<1>5. /\ g \in Fillings(doc) /\ g.parts = f.parts /\ g.rest = f.rest /\ g.at = f.at
      /\ g.jobs = f.jobs
  <2>1. PICK p, at, jobs, busy, i, n, flags, rest, late :
           /\ f = [parts |-> p, at |-> at, jobs |-> jobs, busy |-> busy, indent |-> i,
                   reserve |-> n, flags |-> flags, rest |-> rest, deferred |-> late]
           /\ p \in Seq(Arena(doc)) /\ Fill(p) \in Arena(doc) /\ at \in Nat \ {0}
           /\ jobs \in Seq(Jobs(doc)) /\ i \in Indents /\ n \in Nat /\ flags \in SUBSET Flags
           /\ rest \in Seq(Commands(doc)) /\ late \in Seq(Deferred(doc))
    BY FillingIs
  <2>2. g = [parts |-> p, at |-> at, jobs |-> jobs, busy |-> FALSE, indent |-> i,
             reserve |-> n, flags |-> flags, rest |-> rest, deferred |-> late]
    BY <1>4, <2>1
  <2>3. g \in Fillings(doc) BY <2>1, <2>2, FillingTyped
  <2> QED BY <2>1, <2>2, <2>3
<1>6. PICK new : new = [fills EXCEPT ![1] = g] OBVIOUS
<1>7. new \in Seq(Fillings(doc)) /\ new # <<>> /\ new[1] = g /\ Tail(new) = Tail(fills)
  BY <1>2, <1>5, <1>6, Renewed
<1>8. fills' = new BY <1>1, <1>3, <1>4, <1>6
<1>9. Kept(doc, out, <<>>, new)
  <2>1. /\ new[1].parts = fills[1].parts /\ new[1].rest = fills[1].rest
        /\ new[1].at = fills[1].at /\ new[1].jobs = fills[1].jobs
    BY <1>3, <1>5, <1>7, Zenon
  <2> QED BY <1>2, <1>7, <2>1, KeptSame
<1>10. <<>> \in Seq(Commands(doc)) /\ commands' = <<>> BY <1>1, <1>2, EmptySeq
<1> QED BY <1>1, <1>2, <1>7, <1>8, <1>9, <1>10, FillGood

\* past the last part what was put aside is taken back
LEMMA FillDoneInv ==
    ASSUME PrintInv, FillDone
    PROVE  PrintInv'
<1>1. /\ InFill /\ Packing.jobs = <<>> /\ Packing.at > Len(Packing.parts)
      /\ commands' = Packing.rest /\ suffixes' = Packing.deferred /\ fills' = Tail(fills)
      /\ UNCHANGED <<doc, out, done>>
  BY DEF FillDone
<1>2. /\ fills # <<>>
      /\ Rooted(doc) /\ Whole3(out) /\ Kept(doc, out, <<>>, fills)
      /\ out \in Seq(Tokens) /\ fills \in Seq(Fillings(doc))
  BY <1>1, InFillIs
<1>3. PICK f \in Fillings(doc) : f = fills[1] /\ f = Packing BY <1>1, InFillIs
<1>4. f.rest \in Seq(Commands(doc)) /\ f.deferred \in Seq(Deferred(doc)) BY FillingIs
<1>5. Tail(fills) \in Seq(Fillings(doc)) BY <1>2, HeadTailProperties
<1>6. fills[1].jobs = <<>> /\ fills[1].at > Len(fills[1].parts) BY <1>1, <1>3, Zenon
<1>7. Kept(doc, out, fills[1].rest, Tail(fills)) BY <1>2, <1>6, KeptPopped
<1>8. commands' = f.rest /\ suffixes' = f.deferred /\ out' = out BY <1>1, <1>3
<1>9. Kept(doc, out, f.rest, Tail(fills)) BY <1>3, <1>7
<1> QED BY <1>1, <1>2, <1>4, <1>5, <1>8, <1>9, FillGood

\* a job becomes the only command
LEMMA RenderPartInv ==
    ASSUME PrintInv, RenderPart
    PROVE  PrintInv'
<1>1. /\ InFill /\ Packing.jobs # <<>>
      /\ fills' = [fills EXCEPT ![1].jobs = Tail(@), ![1].busy = TRUE]
      /\ commands' = <<Command(Head(Packing.jobs).doc, Packing.indent,
                               IF Head(Packing.jobs).mode = "by_fit" THEN FromFits(NextFits)
                               ELSE Head(Packing.jobs).mode)>>
      /\ UNCHANGED <<doc, suffixes, out, done>>
  BY DEF RenderPart
<1>2. /\ fills # <<>>
      /\ Rooted(doc) /\ Whole3(out) /\ Kept(doc, out, <<>>, fills)
      /\ out \in Seq(Tokens) /\ suffixes \in Seq(Deferred(doc))
      /\ fills \in Seq(Fillings(doc))
  BY <1>1, InFillIs
<1>3. PICK f \in Fillings(doc) : f = fills[1] /\ f = Packing BY <1>1, InFillIs
<1>4. f.jobs \in Seq(Jobs(doc)) /\ f.jobs # <<>> /\ f.indent \in Indents BY <1>1, <1>3, FillingIs
<1>5. PICK g : g = [f EXCEPT !.jobs = Tail(@), !.busy = TRUE] OBVIOUS
<1>6. /\ g \in Fillings(doc) /\ g.parts = f.parts /\ g.rest = f.rest /\ g.at = f.at
      /\ g.jobs = Tail(f.jobs)
  <2>1. PICK p, at, jobs, busy, i, n, flags, rest, late :
           /\ f = [parts |-> p, at |-> at, jobs |-> jobs, busy |-> busy, indent |-> i,
                   reserve |-> n, flags |-> flags, rest |-> rest, deferred |-> late]
           /\ p \in Seq(Arena(doc)) /\ Fill(p) \in Arena(doc) /\ at \in Nat \ {0}
           /\ jobs \in Seq(Jobs(doc)) /\ i \in Indents /\ n \in Nat /\ flags \in SUBSET Flags
           /\ rest \in Seq(Commands(doc)) /\ late \in Seq(Deferred(doc))
    BY FillingIs
  <2>2. PICK left : left = Tail(jobs) OBVIOUS
  <2>3. left \in Seq(Jobs(doc)) /\ f.jobs = jobs
    <3>1. f.jobs = jobs BY <2>1
    <3> QED BY <1>4, <2>2, <3>1, HeadTailProperties
  <2>4. g = [parts |-> p, at |-> at, jobs |-> left, busy |-> TRUE, indent |-> i,
             reserve |-> n, flags |-> flags, rest |-> rest, deferred |-> late]
    BY <1>5, <2>1, <2>2
  <2>5. g \in Fillings(doc) BY <2>1, <2>3, <2>4, FillingTyped
  <2> QED BY <2>1, <2>2, <2>3, <2>4, <2>5
<1>7. PICK new : new = [fills EXCEPT ![1] = g] OBVIOUS
<1>8. new \in Seq(Fillings(doc)) /\ new # <<>> /\ new[1] = g /\ Tail(new) = Tail(fills)
  BY <1>2, <1>6, <1>7, Renewed
<1>9. fills' = new BY <1>1, <1>3, <1>5, <1>7
<1>10. PICK d \in Arena(doc), m \in Modes :
          /\ d = Head(f.jobs).doc
          /\ commands' = <<Command(d, f.indent, m)>>
  <2>1. Head(f.jobs) \in Jobs(doc) BY <1>4, HeadTailProperties
  <2>2. PICK d \in Arena(doc), n \in Modes \cup {"by_fit"} :
           d = Head(f.jobs).doc /\ n = Head(f.jobs).mode
    BY <2>1 DEF Jobs
  <2>3. PICK m : m = IF n = "by_fit" THEN FromFits(NextFits) ELSE n OBVIOUS
  <2>4. m \in Modes BY <2>2, <2>3 DEF FromFits, Modes
  <2>5. commands' = <<Command(d, f.indent, m)>> BY <1>1, <1>3, <2>2, <2>3
  <2> QED BY <2>2, <2>4, <2>5
<1>11. PICK c : c = Command(d, f.indent, m) OBVIOUS
<1>12. c \in Commands(doc) /\ Reading(c) \subseteq Either(d)
  <2>1. c = [doc |-> d, indent |-> f.indent, mode |-> m, inline |-> FALSE] BY <1>11 DEF Command
  <2>2. d \in Printables(doc) BY DEF Printables
  <2>3. c \in Commands(doc) BY <1>4, <2>1, <2>2, BoxedIs DEF Commands
  <2>4. c.doc = d /\ c.mode = m BY <2>1
  <2>5. Reading(c) \subseteq WordsOf(d, m) BY <1>2, <2>3, <2>4, NodeReading
  <2> QED BY <2>3, <2>5 DEF Either, Modes
<1>13. Kept(doc, out, <<c>>, new)
  <2>1. /\ new[1].parts = fills[1].parts /\ new[1].rest = fills[1].rest
        /\ new[1].at = fills[1].at /\ new[1].jobs = Tail(fills[1].jobs)
    BY <1>3, <1>6, <1>8, Zenon
  <2>2. fills[1].jobs # <<>> BY <1>3, <1>4
  <2>3. Reading(c) \subseteq Either(Head(fills[1].jobs).doc) BY <1>3, <1>10, <1>12
  <2> QED BY <1>2, <1>8, <1>12, <2>1, <2>2, <2>3, KeptPart
<1>14. <<c>> \in Seq(Commands(doc)) BY <1>12
<1>15. commands' = <<c>> /\ out' = out /\ suffixes' = suffixes BY <1>1, <1>10, <1>11
<1> QED BY <1>1, <1>2, <1>8, <1>9, <1>13, <1>14, <1>15, FillGood

\* a page an item is packed on: nothing is lost by the break before it
Fine(page) == IsPage(page) /\ Holds(out, page.out)

LEMMA Remeasured ==
    ASSUME NEW o, NEW p, NEW r, NEW s
    PROVE  [[out |-> o, pos |-> p, remeasure |-> r] EXCEPT !.remeasure = s]
             = [out |-> o, pos |-> p, remeasure |-> s]
  OBVIOUS

LEMMA PagesAre ==
    ASSUME out \in Seq(Tokens), Packing.indent \in Indents
    PROVE  Fine(Page) /\ Fine(Poisoned(Page)) /\ Fine(Dropped) /\ Fine(Poisoned(Dropped))
<1>1. Fine(Page) BY ThisPage DEF Fine, Holds
<1>2. Fine(Dropped)
  <2>1. PICK page : page = LineBreak(Page, "hard", "break", Packing.indent) OBVIOUS
  <2>2. IsPage(page) /\ Keeps(page, out) BY <2>1, ThisPage, LineBreakKeeps
  <2>3. Fine(page) BY <2>2 DEF Fine, Keeps, Holds
  <2> QED BY <1>1, <2>1, <2>3 DEF Dropped
<1>3. ASSUME NEW page, Fine(page) PROVE Fine(Poisoned(page))
  <2>0. PICK o, p, r : o = page.out /\ p = page.pos /\ r = page.remeasure OBVIOUS
  <2>0a. page = [out |-> page.out, pos |-> page.pos, remeasure |-> page.remeasure]
    BY <1>3, Zenon DEF Fine, IsPage
  <2>1. page = [out |-> o, pos |-> p, remeasure |-> r] BY <2>0, <2>0a, Zenon
  <2>1a. [[out |-> o, pos |-> p, remeasure |-> r] EXCEPT !.remeasure = TRUE]
         = [out |-> o, pos |-> p, remeasure |-> TRUE]
    BY Remeasured
  <2>2. Poisoned(page) = [out |-> o, pos |-> p, remeasure |-> TRUE]
    BY <2>1, <2>1a, Zenon DEF Poisoned
  <2>3. page.out = o /\ Poisoned(page).out = o BY <2>1, <2>2
  <2>4. IsPage(Poisoned(page)) BY <2>2 DEF IsPage
  <2> QED BY <1>3, <2>3, <2>4 DEF Fine
<1> QED BY <1>1, <1>2, <1>3

Ways == Modes \cup {"by_fit"}

\* an arm of n parts, each laid out in one of the ways
Arms(arm, n) ==
    \E page : \E modes \in Seq(Ways) : Fine(page) /\ Len(modes) = n /\ arm = Arm(page, modes)

LEMMA ArmOfOne ==
    ASSUME NEW arm, NEW page, Fine(page), NEW a \in Ways, arm = Arm(page, <<a>>)
    PROVE  Arms(arm, 1)
<1>1. PICK modes : modes = <<a>> OBVIOUS
<1>2. modes \in Seq(Ways) /\ Len(modes) = 1 BY <1>1
<1>3. arm = Arm(page, modes) BY <1>1
<1> QED BY <1>2, <1>3, Zenon DEF Arms

LEMMA ArmOfTwo ==
    ASSUME NEW arm, NEW page, Fine(page), NEW a \in Ways, NEW b \in Ways,
           arm = Arm(page, <<a, b>>)
    PROVE  Arms(arm, 2)
<1>1. PICK modes : modes = <<a, b>> OBVIOUS
<1>2. modes \in Seq(Ways) /\ Len(modes) = 2 BY <1>1
<1>3. arm = Arm(page, modes) BY <1>1
<1> QED BY <1>2, <1>3, Zenon DEF Arms

\* the arms of a turn: the last item
LEMMA LastItemIs ==
    ASSUME out \in Seq(Tokens), Packing.indent \in Indents
    PROVE  Arms(LastItem, 1)
<1>1. Fine(Page) /\ Fine(Poisoned(Page)) /\ Fine(Dropped) /\ Fine(Poisoned(Dropped))
  BY PagesAre
<1>2. FromFits(ContentFits) \in Ways /\ "flat" \in Ways BY DEF Ways, FromFits, Modes
<1>3. CASE Collapsible(Content)
  <2>1. LastItem = Arm(Page, <<FromFits(ContentFits)>>) BY <1>3 DEF LastItem
  <2>2. PICK a \in Ways : a = FromFits(ContentFits) BY <1>2
  <2>3. LastItem = Arm(Page, <<a>>) BY <2>1, <2>2, Zenon
  <2> QED BY <1>1, <2>3, ArmOfOne
<1>4. CASE ~Collapsible(Content)
  <2>1. PICK page : page = IF ContentFits THEN Page ELSE Poisoned(IF GluedHead THEN Page ELSE Dropped)
    OBVIOUS
  <2>2. LastItem = Arm(page, <<"flat">>) BY <1>4, <2>1 DEF LastItem
  <2>3. Fine(page) BY <1>1, <2>1
  <2> QED BY <1>2, <2>2, <2>3, ArmOfOne
<1> QED BY <1>3, <1>4

\* the last item and its separator
LEMMA LastPairIs ==
    ASSUME out \in Seq(Tokens), Packing.indent \in Indents
    PROVE  Arms(LastItemAndSeparator, 2)
<1>1. Fine(Page) /\ Fine(Poisoned(Page))
  BY PagesAre
<1>2. "flat" \in Ways /\ \A fits : FromFits(fits) \in Ways BY DEF Ways, FromFits, Modes
<1> DEFINE fits == IF Packing.rest = <<>> THEN ContentFits
                   ELSE PartsFit(<<Content, Separator>>, AsTodo(Packing.rest), Remaining(pos))
<1>3. LastItemAndSeparator =
         IF Collapsible(Content) THEN Arm(Page, <<FromFits(ContentFits), FromFits(fits)>>)
         ELSE Arm(IF ContentFits THEN Page ELSE Poisoned(Page), <<"flat", FromFits(fits)>>)
  BY DEF LastItemAndSeparator
<1>4. PICK a \in Ways, b \in Ways : a = FromFits(ContentFits) /\ b = FromFits(fits)
  BY <1>2, Zenon
<1> HIDE DEF fits
<1>5. CASE Collapsible(Content)
  <2>1. LastItemAndSeparator = Arm(Page, <<FromFits(ContentFits), FromFits(fits)>>)
    BY <1>3, <1>5
  <2>2. LastItemAndSeparator = Arm(Page, <<a, b>>) BY <1>4, <2>1, Zenon
  <2> QED BY <1>1, <2>2, ArmOfTwo
<1>6. CASE ~Collapsible(Content)
  <2>1. PICK page : page = IF ContentFits THEN Page ELSE Poisoned(Page) OBVIOUS
  <2>2. LastItemAndSeparator = Arm(page, <<"flat", FromFits(fits)>>) BY <1>3, <1>6, <2>1
  <2>3. Fine(page) BY <1>1, <2>1
  <2>4. LastItemAndSeparator = Arm(page, <<"flat", b>>) BY <1>4, <2>2, Zenon
  <2> QED BY <1>2, <2>3, <2>4, ArmOfTwo
<1> QED BY <1>5, <1>6

\* an item and the separator before the next
LEMMA PairIs ==
    ASSUME out \in Seq(Tokens), Packing.indent \in Indents
    PROVE  Arms(ItemAndSeparator, 2)
<1>1. Fine(Page) /\ Fine(Dropped)
  BY PagesAre
<1>2. "flat" \in Ways /\ "break" \in Ways /\ "by_fit" \in Ways BY DEF Ways, Modes
<1> DEFINE midLine     == pos # Start
           fitsAtStart == PartsFit(<<Content>>, <<>>, Remaining(Start))
           page        == IF midLine /\ ~GluedHead THEN Dropped ELSE Page
<1>3. PICK b \in Ways : b = IF Folded /\ ~midLine THEN "by_fit" ELSE "break" BY <1>2
<1>4. PICK p : p = page OBVIOUS
<1>5. Fine(p) BY <1>1, <1>4
<1>6. \/ ItemAndSeparator = Arm(Page, <<"flat", "flat">>)
      \/ ItemAndSeparator = Arm(Page, <<"flat", "break">>)
      \/ ItemAndSeparator = Arm(Page, <<"break", "break">>)
      \/ ItemAndSeparator = Arm(Page, <<"break", "flat">>)
      \/ ItemAndSeparator = Arm(page, <<"flat", "by_fit">>)
      \/ ItemAndSeparator = Arm(page, <<"break", IF Folded /\ ~midLine THEN "by_fit" ELSE "break">>)
  BY DEF ItemAndSeparator
<1> HIDE DEF midLine, fitsAtStart, page
<1>7. \/ ItemAndSeparator = Arm(Page, <<"flat", "flat">>)
      \/ ItemAndSeparator = Arm(Page, <<"flat", "break">>)
      \/ ItemAndSeparator = Arm(Page, <<"break", "break">>)
      \/ ItemAndSeparator = Arm(Page, <<"break", "flat">>)
      \/ ItemAndSeparator = Arm(p, <<"flat", "by_fit">>)
      \/ ItemAndSeparator = Arm(p, <<"break", b>>)
  BY <1>3, <1>4, <1>6
<1> QED BY <1>1, <1>2, <1>5, <1>7, ArmOfTwo

\* what an arm leaves to render are the next parts
LEMMA ArmIs ==
    ASSUME NEW page, NEW f \in Fillings(doc), f = Packing, NEW n \in {1, 2},
           f.at + n - 1 <= Len(f.parts),
           NEW modes \in Seq(Ways), Len(modes) = n
    PROVE  /\ Arm(page, modes).page = page
           /\ Arm(page, modes).jobs \in Seq(Jobs(doc)) /\ Len(Arm(page, modes).jobs) = n
           /\ \A i \in 1..n : Arm(page, modes).jobs[i].doc = f.parts[f.at + i - 1]
<1>1. f.parts \in Seq(Arena(doc)) /\ f.at \in Nat \ {0} BY FillingIs
<1>2. DOMAIN modes = 1..n /\ \A i \in 1..n : modes[i] \in Ways OBVIOUS
<1>3. PICK jobs : jobs = [i \in 1..n |-> [doc |-> f.parts[f.at + i - 1], mode |-> modes[i]]]
  OBVIOUS
<1>4. Arm(page, modes) = [page |-> page, jobs |-> jobs] BY <1>2, <1>3 DEF Arm
<1>5. \A i \in 1..n : f.parts[f.at + i - 1] \in Arena(doc)
  <2>1. PICK p \in Seq(Arena(doc)), at \in Nat \ {0} : p = f.parts /\ at = f.at BY <1>1
  <2>2. \A i \in 1..n : at + i - 1 \in 1..Len(p) BY <2>1
  <2>3. \A i \in 1..n : p[at + i - 1] \in Arena(doc) BY <2>1, <2>2
  <2> QED BY <2>1, <2>3
<1>6. \A i \in 1..n : jobs[i] \in Jobs(doc) /\ jobs[i].doc = f.parts[f.at + i - 1]
  BY <1>2, <1>3, <1>5 DEF Jobs, Ways
<1>7. jobs \in Seq(Jobs(doc)) /\ Len(jobs) = n
  <2>1. jobs \in [1..n -> Jobs(doc)] BY <1>3, <1>6
  <2>2. n \in Nat OBVIOUS
  <2> QED BY <2>1, <2>2
<1>8. Arm(page, modes).page = page /\ Arm(page, modes).jobs = jobs BY <1>4
<1> QED BY <1>6, <1>7, <1>8

\* a turn makes jobs of the next one or two parts, each once, in whatever mode
LEMMA PackItemInv ==
    ASSUME PrintInv, PackItem
    PROVE  PrintInv'
<1> DEFINE arm == CASE Packing.at = Len(Packing.parts)     -> LastItem
                    [] Packing.at + 1 = Len(Packing.parts) -> LastItemAndSeparator
                    [] OTHER                               -> ItemAndSeparator
<1>1. /\ InFill /\ Packing.jobs = <<>> /\ Packing.at <= Len(Packing.parts)
      /\ out' = arm.page.out
      /\ fills' = [fills EXCEPT ![1].jobs = arm.jobs, ![1].at = @ + 2]
      /\ UNCHANGED <<doc, commands, suffixes, done>>
  BY DEF PackItem, Printed
<1>2. /\ commands = <<>> /\ fills # <<>>
      /\ Rooted(doc) /\ Whole3(out) /\ Kept(doc, out, <<>>, fills)
      /\ out \in Seq(Tokens) /\ suffixes \in Seq(Deferred(doc))
      /\ fills \in Seq(Fillings(doc))
  BY <1>1, InFillIs
<1>3. PICK f \in Fillings(doc) : f = fills[1] /\ f = Packing BY <1>1, InFillIs
<1>4. /\ f.parts \in Seq(Arena(doc)) /\ f.at \in Nat \ {0} /\ f.indent \in Indents
      /\ f.jobs = <<>> /\ f.at <= Len(f.parts)
  BY <1>1, <1>3, FillingIs
<1>5. PICK n \in {1, 2} : n = (IF f.at = Len(f.parts) THEN 1 ELSE 2) OBVIOUS
<1>5a. Arms(arm, n)
  <2>1. Packing.indent \in Indents BY <1>3, <1>4
  <2>2. CASE f.at = Len(f.parts)
    <3>1. arm = LastItem BY <1>3, <2>2
    <3>2. Arms(LastItem, 1) BY <1>2, <2>1, LastItemIs
    <3>3. n = 1 BY <1>5, <2>2
    <3> HIDE DEF arm
    <3> QED BY <3>1, <3>2, <3>3, Zenon
  <2>3. CASE f.at # Len(f.parts)
    <3>1. arm \in {LastItemAndSeparator, ItemAndSeparator} BY <1>3, <2>3
    <3>2. Arms(LastItemAndSeparator, 2) BY <1>2, <2>1, LastPairIs
    <3>3. Arms(ItemAndSeparator, 2) BY <1>2, <2>1, PairIs
    <3>4. n = 2 BY <1>5, <2>3
    <3> HIDE DEF arm
    <3>5. arm = LastItemAndSeparator \/ arm = ItemAndSeparator BY <3>1
    <3> QED BY <3>2, <3>3, <3>4, <3>5, Zenon
  <2> QED BY <2>2, <2>3
<1> HIDE DEF arm
<1>5b. PICK page : \E modes \in Seq(Ways) : Fine(page) /\ Len(modes) = n /\ arm = Arm(page, modes)
  BY <1>5a, Zenon DEF Arms
<1>5c. PICK modes \in Seq(Ways) : Fine(page) /\ Len(modes) = n /\ arm = Arm(page, modes)
  BY <1>5b, Zenon
<1>6. f.at + n - 1 <= Len(f.parts)
  <2>1. PICK p \in Nat, at \in Nat : p = Len(f.parts) /\ at = f.at BY <1>4
  <2>2. at <= p BY <1>4, <2>1
  <2>3. n = IF at = p THEN 1 ELSE 2 BY <1>5, <2>1
  <2>4. at + n - 1 <= p BY <2>2, <2>3
  <2> QED BY <2>1, <2>4
<1>7. PICK work \in Seq(Jobs(doc)) :
         /\ work = arm.jobs /\ Len(work) = n /\ arm.page = page
         /\ \A i \in 1..n : work[i].doc = f.parts[f.at + i - 1]
  BY <1>3, <1>5, <1>5c, <1>6, ArmIs
<1>8. PICK g : g = [f EXCEPT !.jobs = work, !.at = @ + 2] OBVIOUS
<1>9. /\ g \in Fillings(doc) /\ g.parts = f.parts /\ g.rest = f.rest /\ g.at = f.at + 2
      /\ g.jobs = work
  <2>1. PICK p, at, jobs, busy, i, k, flags, rest, late :
           /\ f = [parts |-> p, at |-> at, jobs |-> jobs, busy |-> busy, indent |-> i,
                   reserve |-> k, flags |-> flags, rest |-> rest, deferred |-> late]
           /\ p \in Seq(Arena(doc)) /\ Fill(p) \in Arena(doc) /\ at \in Nat \ {0}
           /\ busy \in BOOLEAN /\ i \in Indents /\ k \in Nat /\ flags \in SUBSET Flags
           /\ rest \in Seq(Commands(doc)) /\ late \in Seq(Deferred(doc))
    BY FillingIs
  <2>2. PICK next \in Nat \ {0} : next = at + 2 BY <2>1
  <2>3. g = [parts |-> p, at |-> next, jobs |-> work, busy |-> busy, indent |-> i,
             reserve |-> k, flags |-> flags, rest |-> rest, deferred |-> late]
    BY <1>8, <2>1, <2>2
  <2>4. g \in Fillings(doc) BY <2>1, <2>3, FillingTyped
  <2> QED BY <2>1, <2>2, <2>3, <2>4
<1>10. PICK new : new = [fills EXCEPT ![1] = g] OBVIOUS
<1>11. new \in Seq(Fillings(doc)) /\ new # <<>> /\ new[1] = g /\ Tail(new) = Tail(fills)
  BY <1>2, <1>9, <1>10, Renewed
<1>12. fills' = new BY <1>1, <1>3, <1>7, <1>8, <1>10
<1>13. out' = page.out BY <1>1, <1>7
<1>14. PICK t : t = page.out OBVIOUS
<1>15. t \in Seq(Tokens) /\ (\A y : Spelt(out, y) => Spelt(t, y)) /\ Whole3(t)
  BY <1>2, <1>5c, <1>14 DEF Fine, Holds
<1>16. Kept(doc, t, <<>>, fills) BY <1>2, <1>15, KeptAsPrinted
<1>17. Kept(doc, t, <<>>, new)
  <2>1. /\ fills[1].jobs = <<>> /\ fills[1].at <= Len(fills[1].parts)
        /\ new[1].parts = fills[1].parts /\ new[1].rest = fills[1].rest
        /\ new[1].at = fills[1].at + 2
    BY <1>3, <1>4, <1>9, <1>11, Zenon
  <2>2. Len(new[1].jobs) = (IF fills[1].at = Len(fills[1].parts) THEN 1 ELSE 2)
    BY <1>3, <1>5, <1>7, <1>9, <1>11
  <2>3. \A i \in 1..Len(new[1].jobs) : new[1].jobs[i].doc = fills[1].parts[fills[1].at + i - 1]
    BY <1>3, <1>7, <1>9, <1>11
  <2> QED BY <1>2, <1>11, <1>16, <2>1, <2>2, <2>3, KeptTurn
<1>18. <<>> \in Seq(Commands(doc)) /\ commands' = <<>> BY <1>1, <1>2, EmptySeq
<1> QED BY <1>1, <1>2, <1>11, <1>12, <1>13, <1>14, <1>15, <1>17, <1>18, FillGood

\* the last line is trimmed, and nothing is left to print
LEMMA FinishInv ==
    ASSUME PrintInv, Finish
    PROVE  PrintInv'
<1>1. /\ commands = <<>> /\ fills = <<>> /\ suffixes = <<>>
      /\ out' = Trimmed(out)
      /\ UNCHANGED <<doc, fills, commands, suffixes>>
  BY DEF Finish
<1>2. Good(doc, out, commands, suffixes, fills) BY DEF PrintInv
<1>3. /\ Rooted(doc) /\ Whole3(out) /\ Kept(doc, out, commands, fills)
      /\ out \in Seq(Tokens) /\ commands \in Seq(Commands(doc))
      /\ suffixes \in Seq(Deferred(doc)) /\ fills \in Seq(Fillings(doc))
  BY <1>2 DEF Good, Typed
<1>4. PICK t : t = Trimmed(out) OBVIOUS
<1>5. t \in Seq(Tokens) /\ (\A y : Spelt(out, y) => Spelt(t, y)) /\ Whole3(t)
  BY <1>3, <1>4, TrimKeeps
<1>6. Kept(doc, t, commands, fills) BY <1>3, <1>5, KeptAsPrinted
<1>7. Good(doc, t, commands, suffixes, fills) BY <1>3, <1>5, <1>6 DEF Good, Typed
<1>8. Good(doc, out, commands, suffixes, fills)'
  BY <1>1, <1>4, <1>7
<1>9. (done => commands = <<>> /\ fills = <<>>)' BY <1>1
<1> QED BY <1>8, <1>9 DEF PrintInv

\* a stutter changes nothing
LEMMA StillInv ==
    ASSUME PrintInv, UNCHANGED vars
    PROVE  PrintInv'
  BY DEF PrintInv, Good, Typed, vars

LEMMA NextInv ==
    ASSUME PrintInv, [Next]_vars
    PROVE  PrintInv'
<1>1. CASE RenderText BY <1>1, RenderTextInv
<1>2. CASE RenderMultiline BY <1>2, RenderMultilineInv
<1>3. CASE RenderLine BY <1>3, RenderLineInv
<1>4. CASE RenderIndent BY <1>4, RenderIndentInv
<1>5. CASE RenderIndentIfBreak BY <1>5, RenderIndentIfBreakInv
<1>6. CASE RenderIfBreak BY <1>6, RenderIfBreakInv
<1>7. CASE RenderWrapped BY <1>7, RenderWrappedInv
<1>8. CASE RenderConcat BY <1>8, RenderConcatInv
<1>9. CASE RenderSuffix BY <1>9, RenderSuffixInv
<1>10. CASE RenderInline BY <1>10, RenderInlineInv
<1>11. CASE RenderBoundary BY <1>11, RenderBoundaryInv
<1>12. CASE RenderMarker BY <1>12, RenderMarkerInv
<1>13. CASE RenderGroup BY <1>13, RenderGroupInv
<1>14. CASE FlushAtLine BY <1>14, FlushAtLineInv
<1>15. CASE FlushAhead BY <1>15, FlushAheadInv
<1>16. CASE FlushAtEnd BY <1>16, FlushAtEndInv
<1>17. CASE FlushNext BY <1>17, FlushNextInv
<1>18. CASE FlushDone BY <1>18, FlushDoneInv
<1>19. CASE DropHeadSpace BY <1>19, DropHeadSpaceInv
<1>20. CASE RenderFill BY <1>20, RenderFillInv
<1>21. CASE PackItem BY <1>21, PackItemInv
<1>22. CASE RenderPart BY <1>22, RenderPartInv
<1>23. CASE PartRendered BY <1>23, PartRenderedInv
<1>24. CASE FillDone BY <1>24, FillDoneInv
<1>25. CASE Finish BY <1>25, FinishInv
<1>26. CASE UNCHANGED vars BY <1>26, StillInv
<1> QED
  BY <1>1, <1>2, <1>3, <1>4, <1>5, <1>6, <1>7, <1>8, <1>9, <1>10, <1>11, <1>12, <1>13,
     <1>14, <1>15, <1>16, <1>17, <1>18, <1>19, <1>20, <1>21, <1>22, <1>23, <1>24, <1>25,
     <1>26 DEF Next, Terminated

\* Whatever layout the width test chooses, every step of the renderer, of a fill
\* and of a flush leaves an output that what is left completes to one of the
\* document's spellings.
THEOREM PrintInvariant == Spec => []PrintInv
<1>1. Init => PrintInv BY InitInv
<1>2. PrintInv /\ [Next]_vars => PrintInv' BY NextInv
<1> QED BY <1>1, <1>2, PTL DEF Spec

-----------------------------------------------------------------------------
(* What the invariant says of the output. *)

LEMMA PiecesAre ==
    ASSUME PrintInv
    PROVE  PiecesWhole
<1>1. out \in Seq(Tokens) /\ Whole3(out) BY DEF PrintInv, Good, Typed
<1>2. DOMAIN out = 1..Len(out) BY <1>1
<1> QED BY <1>1, <1>2, Zenon DEF Whole3, PiecesWhole

\* render_multiline_text: no deferred run, no separator and no trim ever comes
\* between the lines of a comment of several.
THEOREM PiecesStand == Spec => []PiecesWhole
<1>1. PrintInv => PiecesWhole BY PiecesAre
<1> QED BY <1>1, PrintInvariant, PTL

\* the nth word of a spelling stands behind n - 1 others
LEMMA StandsAt ==
    ASSUME NEW tokens \in Seq(Tokens), NEW y \in Seq(Nat), NEW g, StandAt(tokens, y, g)
    PROVE  LET words == {i \in DOMAIN tokens : tokens[i][1] = "word"}
           IN  /\ Cardinality(words) = Len(y)
               /\ \A i \in words :
                     tokens[i][2] = y[Cardinality({j \in words : j <= i})]
<1> DEFINE words == {i \in DOMAIN tokens : tokens[i][1] = "word"}
<1>1. PICK n \in Nat, t \in Nat : n = Len(y) /\ t = Len(tokens) OBVIOUS
<1>2. DOMAIN tokens = 1..t BY <1>1
<1>3. /\ g \in [1..n -> 1..t]
      /\ \A a, b \in 1..n : a < b => g[a] < g[b]
      /\ \A a \in 1..n : tokens[g[a]] = <<"word", y[a]>>
      /\ \A i \in 1..t : tokens[i][1] = "word" => \E a \in 1..n : g[a] = i
  BY <1>1 DEF StandAt
<1>4. \A a \in 1..n : g[a] \in words
  <2>1. \A a \in 1..n : tokens[g[a]][1] = "word" BY <1>3
  <2> QED BY <1>2, <1>3, <2>1
<1>5. \A i \in words : \E a \in 1..n : g[a] = i BY <1>2, <1>3
<1>6. \A a, b \in 1..n : g[a] = g[b] => a = b
  <2> SUFFICES ASSUME NEW a \in 1..n, NEW b \in 1..n, g[a] = g[b] PROVE a = b OBVIOUS
  <2>1. g[a] \in Nat /\ g[b] \in Nat BY <1>3
  <2>2. ~(a < b) /\ ~(b < a) BY <1>3, <2>1
  <2> QED BY <2>2
<1>7. \A m \in 0..n : Cardinality({g[a] : a \in 1..m}) = m
  <2> SUFFICES ASSUME NEW m \in 0..n PROVE Cardinality({g[a] : a \in 1..m}) = m OBVIOUS
  <2> DEFINE S == {g[a] : a \in 1..m}
             h == [a \in 1..m |-> g[a]]
  <2>1. \A a \in 1..m : a \in 1..n BY <1>1
  <2>2. h \in Bijection(1..m, S)
    <3>1. h \in [1..m -> S] OBVIOUS
    <3>2. \A a, b \in 1..m : h[a] = h[b] => a = b BY <1>6, <2>1
    <3>3. \A s \in S : \E a \in 1..m : h[a] = s OBVIOUS
    <3> QED BY <3>1, <3>2, <3>3 DEF Bijection, Injection, Surjection, IsInjective
  <2>3. ExistsBijection(1..m, S) BY <2>2 DEF ExistsBijection
  <2>4. m \in Int /\ 1 \in Int BY <1>1
  <2>5. IsFiniteSet(1..m) /\ Cardinality(1..m) = IF 1 > m THEN 0 ELSE m - 1 + 1
    BY <2>4, FS_Interval
  <2>6. Cardinality(1..m) = m BY <1>1, <2>5
  <2>7. Cardinality(S) = Cardinality(1..m) BY <2>3, <2>5, FS_Bijection
  <2> QED BY <2>6, <2>7
<1>8. words = {g[a] : a \in 1..n}
  <2> HIDE DEF words
  <2> QED BY <1>4, <1>5
<1>9. Cardinality(words) = n
  <2>1. n \in 0..n BY <1>1
  <2> HIDE DEF words
  <2> QED BY <1>7, <1>8, <2>1
<1>10. ASSUME NEW i \in words
       PROVE  tokens[i][2] = y[Cardinality({j \in words : j <= i})]
  <2>1. PICK a \in 1..n : g[a] = i BY <1>5
  <2>2. {j \in words : j <= i} = {g[b] : b \in 1..a}
    <3>1. \A b \in 1..n : g[b] <= g[a] <=> b <= a
      <4> SUFFICES ASSUME NEW b \in 1..n PROVE g[b] <= g[a] <=> b <= a OBVIOUS
      <4>1. g[a] \in Nat /\ g[b] \in Nat BY <1>3
      <4>2. CASE b < a BY <1>3, <4>1, <4>2
      <4>3. CASE b = a BY <4>1, <4>3
      <4>4. CASE a < b BY <1>3, <4>1, <4>4
      <4> QED BY <4>2, <4>3, <4>4
    <3>2. 1..a = {b \in 1..n : b <= a} BY <1>1
    <3> HIDE DEF words
    <3> QED BY <1>8, <2>1, <3>1, <3>2
  <2>3. a \in 0..n BY <1>1
  <2>4. Cardinality({j \in words : j <= i}) = a
    <3>1. Cardinality({g[b] : b \in 1..a}) = a BY <1>7, <2>3
    <3> HIDE DEF words
    <3> QED BY <2>2, <3>1
  <2>5. tokens[i] = <<"word", y[a]>> BY <1>3, <2>1
  <2>6. tokens[i][2] = y[a] BY <2>5
  <2> HIDE DEF words
  <2> QED BY <2>4, <2>6
<1> QED BY <1>1, <1>9, <1>10

LEMMA WordsAre ==
    ASSUME PrintInv
    PROVE  WordsKept
<1> SUFFICES ASSUME done
    PROVE  LET words == {i \in DOMAIN out : out[i][1] = "word"}
           IN  \E s \in WordsOf(doc, "break") :
                  /\ Len(s) = Cardinality(words)
                  /\ \A i \in words : out[i][2] = s[Cardinality({j \in words : j <= i})]
  BY DEF WordsKept
<1> DEFINE words == {i \in DOMAIN out : out[i][1] = "word"}
<1>1. Kept(doc, out, <<>>, <<>>) /\ out \in Seq(Tokens) BY DEF PrintInv, Good, Typed
<1>2. PICK y \in WordsOf(doc, "break") : Spelt(out, y) BY <1>1, KeptAtEnd
<1>3. y \in Seq(Nat) /\ \E g : StandAt(out, y, g) BY <1>2 DEF Spelt
<1>4. PICK g : StandAt(out, y, g) BY <1>3
<1>5. /\ Cardinality(words) = Len(y)
      /\ \A i \in words : out[i][2] = y[Cardinality({j \in words : j <= i})]
  BY <1>1, <1>3, <1>4, StandsAt
<1> HIDE DEF words
<1>6. \E s \in WordsOf(doc, "break") :
         /\ Len(s) = Cardinality(words)
         /\ \A i \in words : out[i][2] = s[Cardinality({j \in words : j <= i})]
  BY <1>5
<1> QED BY <1>6 DEF words

\* render_doc_core, render_fill_iterative and flush_line_suffix_run drop, repeat
\* and move no word: the printed ones are one of the document's spellings.
THEOREM WordsAreKept == Spec => []WordsKept
<1>1. PrintInv => WordsKept BY WordsAre
<1> QED BY <1>1, PrintInvariant, PTL

\* Both: whatever the arena, the width and the answers of the width test, what
\* the printers built comes out, whole and in order.
THEOREM TextIsKept == Spec => []TextKept
<1>1. WordsKept /\ PiecesWhole => TextKept BY DEF TextKept
<1> QED BY <1>1, WordsAreKept, PiecesStand, PTL
=============================================================================
