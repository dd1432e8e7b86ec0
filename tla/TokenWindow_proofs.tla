-------------------------- MODULE TokenWindow_proofs --------------------------
(***************************************************************************)
(* What the parser's machine does on every text and however deep its       *)
(* constructs nest: its window is the text's, what a rewind puts back      *)
(* agrees with what is open, three tracked regions answer as all would,    *)
(* and no `<` is put to the comparison twice in one context.               *)
(***************************************************************************)
EXTENDS TokenWindow, FiniteSetTheorems, SequenceTheorems, TLAPS

---------------------------------------------------------------------------
(* The invariant: the window *)

Tokens == [kind : Seq(Atoms), start : Nat, end : Nat]
Windows ==
    [current : Tokens, peek : Tokens \cup {NoToken}, prevEnd : Nat, broken : BOOLEAN,
     peekBroken : BOOLEAN, error : BOOLEAN, cursor : Nat]

(* A token is what is spelled at its place: an operator, one atom, or the    *)
(* end of the text.                                                          *)
TokenOK(t) ==
    /\ t \in Tokens
    /\ 1 <= t.start /\ t.start <= t.end /\ t.end <= Past
    /\ t.kind = SubSeq(text, t.start, t.end - 1)
    /\ \/ t.start = Past
       \/ t.end = t.start + 1
       \/ t.kind \in Operators

(* WindowIsSource of a window, and what it takes to stay so.                 *)
WindowOK(w) ==
    LET next == Fetch(w.current.end) IN
    /\ w \in Windows /\ TokenOK(w.current)
    /\ 1 <= w.prevEnd /\ w.prevEnd <= w.current.start
    /\ \A p \in w.prevEnd..(w.current.start - 1) : text[p] \in Blank
    /\ w.prevEnd \in 2..(w.current.start - 1) => w.broken = BreakIn(w.prevEnd, w.current.start)
    /\ w.peek # NoToken =>
          /\ ~w.error /\ ~next.bad
          /\ w.peek = next.token /\ w.peekBroken = next.broken /\ w.cursor = next.cursor
    /\ w.error => next.bad
    /\ w.peek = NoToken /\ ~w.error => w.cursor = w.current.end
    /\ w.current.kind = <<"/">> => w.peek = NoToken /\ ~w.error

---------------------------------------------------------------------------
(* The invariant: what is open *)

Speculative == {"list", "comparison", "arrowHead", "arrowBody"}
Tried == {"list", "comparison"}
FrameKinds == Speculative \cup Groupings \cup {"typeArguments", "body"}

Stack(s) == Len(s) \in Nat /\ s \in Seq({s[i] : i \in DOMAIN s})

Region == [floor : Nat, lt : Nat]

(* The tracked regions are the first of them all. *)
Capped(tracked, all) ==
    /\ Len(tracked) = IF Len(all) < Cap THEN Len(all) ELSE Cap
    /\ \A i \in 1..Len(tracked) : tracked[i] = all[i]

(* The regions open at a depth lie in the order of their depths, so a closer *)
(* ends a run of them at the end.                                            *)
Fits(r, d) ==
    /\ r.tracked \in Seq(Region) /\ r.all \in Seq(Region)
    /\ r = [tracked |-> r.tracked, all |-> r.all]
    /\ \A i \in 1..Len(r.all) : r.all[i].floor <= d
    /\ \A i \in 1..Len(r.all), j \in 1..Len(r.all) : i <= j => r.all[i].floor <= r.all[j].floor
    /\ Capped(r.tracked, r.all)

Grouped(s, n) == {i \in 1..n : s[i].is \in Groupings}
DepthAt(s, n) == Cardinality(Grouped(s, n))

(* What a statement would start from with n constructs open. *)
BaseIs(s, n, b) ==
    \/ b = NoRegions /\ \A i \in 1..n : s[i].is # "body"
    \/ \E m \in 1..n : /\ s[m].is = "body" /\ b = s[m].regions
                       /\ \A i \in (m + 1)..n : s[i].is # "body"

Scoping == {"arrowHead", "arrowBody", "body"}

(* The flags the parse reads under with n constructs open. *)
ContextAt(s, n) ==
    LET scopes == {i \in 1..n : s[i].is \in Scoping}
    IN IF scopes = {} THEN Outermost
       ELSE s[CHOOSE i \in scopes : \A j \in scopes : j <= i].context

FrameOK(s, i) ==
    /\ s[i].is \in FrameKinds
    /\ s[i].is \in Speculative =>
          /\ s[i].cp.depth = DepthAt(s, i - 1) /\ Fits(s[i].cp.regions, DepthAt(s, i - 1))
          /\ s[i].cp.context = ContextAt(s, i - 1)
    /\ s[i].is = "body" => BaseIs(s, i - 1, s[i].base) /\ Fits(s[i].regions, DepthAt(s, i - 1))

(* Depth, base and regions are those of what is open, and every checkpoint   *)
(* holds those of its place.                                                 *)
NestOK(s, d, b, r) ==
    /\ Stack(s)
    /\ \A i \in 1..Len(s) : FrameOK(s, i)
    /\ d = DepthAt(s, Len(s)) /\ BaseIs(s, Len(s), b) /\ Fits(r, d)

---------------------------------------------------------------------------
(* The invariant: speculations *)

Place(f) == f.cp.window.current.start
Key(f) == KeyOf(f.cp)

(* The `<` of a window can be stepped over. *)
CanStep(w) ==
    w.current.kind = <<"<">> => /\ ~w.error
                                /\ w.peek = NoToken => ~Fetch(w.cursor).bad

Less == {<<"<">>, <<"<", "<">>}

(* Speculations lie in the order of their places, all behind the current     *)
(* token, but for a comparison that has read nothing yet.                    *)
OrderOK(s, w) ==
    \A i \in 1..Len(s) : s[i].is \in Speculative =>
        /\ \A j \in (i + 1)..Len(s) : s[j].is \in Speculative => Place(s[i]) < Place(s[j])
        /\ \/ Place(s[i]) < w.current.start
           \/ /\ s[i].is = "comparison" /\ i = Len(s)
              /\ w.current = s[i].cp.window.current
        /\ s[i].is \in Tried =>
              /\ s[i].cp.window.current.kind \in Less
              /\ CanStep(s[i].cp.window)

(* A `<` once compared has, in its context, its verdict, or its comparison   *)
(* is being read; an abandoned one is not tried.                             *)
VerdictsOK(s, v, c) ==
    /\ c = [once |-> c.once, again |-> {}]
    /\ \A k \in c.once :
          \/ k \in v.kept \cup v.abandoned
          \/ \E i \in 1..Len(s) : s[i].is = "comparison" /\ Key(s[i]) = k
    /\ \A i \in 1..Len(s) : s[i].is \in Tried => Key(s[i]) \notin v.abandoned
    /\ v = [abandoned |-> v.abandoned, kept |-> v.kept]

Reads == \A w \in {window} : WindowOK(w)
FramesRead ==
    \A i \in {j \in 1..Len(frames) : frames[j].is \in Speculative} :
        \A w \in {frames[i].cp.window} : WindowOK(w)
Nested == NestOK(frames, depth, base, regions)
InOrder == OrderOK(frames, window)
Judged == VerdictsOK(frames, verdicts, compared)

ParseInv ==
    /\ text \in Seq(Atoms)
    /\ Reads /\ FramesRead /\ Nested /\ InOrder /\ Judged


---------------------------------------------------------------------------
(* Numbers *)

LEMMA Least ==
    ASSUME NEW T \in SUBSET Nat, T # {}
    PROVE  \E m \in T : \A n \in T : m <= n
<1> DEFINE R == StrictSubsetOrdering(Nat)
           Below == {0..n : n \in T}
<1>1. Below \subseteq FiniteSubsetsOf(Nat) /\ Below # {}
  <2>1. \A n \in Nat : 0..n \in FiniteSubsetsOf(Nat)
    BY FS_Interval DEF FiniteSubsetsOf
  <2> QED BY <2>1
<1>2. \E x \in Below : \A y \in Below : ~ (<<y, x>> \in R)
  <2>1. IsWellFoundedOn(R, FiniteSubsetsOf(Nat))
    BY FS_StrictSubsetOrderingWellFounded
  <2> HIDE DEF R, Below
  <2> QED BY <1>1, <2>1, WFMin
<1>3. PICK m \in T : \A n \in T : ~ (<<0..n, 0..m>> \in R)
  BY <1>2
<1>4. ASSUME NEW n \in T, n < m PROVE <<0..n, 0..m>> \in R
  <2>1. n \in Nat /\ m \in Nat
    OBVIOUS
  <2>2. 0..n \subseteq 0..m /\ m \in 0..m /\ m \notin 0..n
    BY <1>4, <2>1
  <2>3. 0..n \in SUBSET Nat /\ 0..m \in SUBSET Nat
    OBVIOUS
  <2> QED BY <2>2, <2>3 DEF StrictSubsetOrdering
<1> HIDE DEF R, Below
<1>5. \A n \in T : ~(n < m)
  BY <1>3, <1>4
<1> QED
  BY <1>5

LEMMA Greatest ==
    ASSUME NEW n \in Nat, NEW T \in SUBSET (0..n), T # {}
    PROVE  \E m \in T : \A k \in T : k <= m
<1> DEFINE D == {n - k : k \in T}
<1>1. D \in SUBSET Nat /\ D # {}
  OBVIOUS
<1>2. PICK d \in D : \A e \in D : d <= e
  <2> HIDE DEF D
  <2> QED BY <1>1, Least
<1>3. PICK m \in T : d = n - m
  OBVIOUS
<1>4. \A k \in T : n - m <= n - k
  BY <1>2, <1>3
<1> QED
  BY <1>4

---------------------------------------------------------------------------
(* Sequences *)

LEMMA Segment ==
    ASSUME NEW S, NEW s \in Seq(S), NEW p \in Nat \ {0}, NEW q \in Nat,
           q <= Len(s), p <= q + 1
    PROVE  /\ SubSeq(s, p, q) \in Seq(S)
           /\ Len(SubSeq(s, p, q)) = q - p + 1
           /\ \A i \in 1..(q - p + 1) : SubSeq(s, p, q)[i] = s[p + i - 1]
OBVIOUS

LEMMA SameSequence ==
    ASSUME NEW S, NEW s \in Seq(S), NEW t \in Seq(S), Len(s) = Len(t),
           \A i \in 1..Len(s) : s[i] = t[i]
    PROVE  s = t
OBVIOUS

LEMMA OneAtom ==
    ASSUME NEW S, NEW s \in Seq(S), NEW p \in 1..Len(s)
    PROVE  /\ <<s[p]>> \in Seq(S) /\ Len(<<s[p]>>) = 1
           /\ SubSeq(s, p, p) = <<s[p]>>
<1>1. PICK u : u = <<s[p]>>
  OBVIOUS
<1>2. u \in Seq(S) /\ Len(u) = 1 /\ u[1] = s[p]
  BY <1>1
<1>3. PICK t : t = SubSeq(s, p, p)
  OBVIOUS
<1>4. t \in Seq(S) /\ Len(t) = 1 /\ t[1] = s[p]
  <2>1. p \in Nat \ {0} /\ p <= Len(s) /\ p - p + 1 = 1 /\ p + 1 - 1 = p
    OBVIOUS
  <2>2. \A i \in 1..1 : t[i] = s[p + i - 1]
    BY <1>3, <2>1, Segment
  <2> QED BY <1>3, <2>1, <2>2, Segment
<1>5. t = u
  BY <1>2, <1>4, SameSequence
<1> QED
  BY <1>1, <1>2, <1>3, <1>5

LEMMA NoAtom ==
    ASSUME NEW S, NEW s \in Seq(S), NEW p \in 1..(Len(s) + 1)
    PROVE  SubSeq(s, p, p - 1) \in Seq(S) /\ SubSeq(s, p, p - 1) = <<>>
<1>1. PICK t : t = SubSeq(s, p, p - 1)
  OBVIOUS
<1>2. t \in Seq(S) /\ Len(t) = 0
  BY <1>1
<1> QED
  BY <1>1, <1>2

---------------------------------------------------------------------------
(* The lexer *)

LEMMA Symbols == "<" \in Atoms /\ ">" \in Atoms /\ "=" \in Atoms
BY DEF Atoms

LEMMA OperatorsAreShort ==
    ASSUME NEW op \in Operators
    PROVE  op \in Seq(Atoms) /\ Len(op) \in 1..4
<1>1. PICK S : S = Atoms
  OBVIOUS
<1>2. "<" \in S /\ ">" \in S /\ "=" \in S
  BY <1>1, Symbols
<1>3. ASSUME NEW a \in S, NEW b \in S, NEW c \in S, NEW d \in S
      PROVE  /\ <<a>> \in Seq(S) /\ Len(<<a>>) = 1
             /\ <<a, b>> \in Seq(S) /\ Len(<<a, b>>) = 2
             /\ <<a, b, c>> \in Seq(S) /\ Len(<<a, b, c>>) = 3
             /\ <<a, b, c, d>> \in Seq(S) /\ Len(<<a, b, c, d>>) = 4
  OBVIOUS
<1>4. PICK a \in S, b \in S, c \in S, d \in S :
          op = <<a>> \/ op = <<a, b>> \/ op = <<a, b, c>> \/ op = <<a, b, c, d>>
  BY <1>2 DEF Operators
<1>5. op \in Seq(S) /\ Len(op) \in 1..4
  <2>1. CASE op = <<a>>
    BY <1>3, <2>1
  <2>2. CASE op = <<a, b>>
    BY <1>3, <2>2
  <2>3. CASE op = <<a, b, c>>
    BY <1>3, <2>3
  <2>4. CASE op = <<a, b, c, d>>
    BY <1>3, <2>4
  <2> QED BY <1>4, <2>1, <2>2, <2>3, <2>4
<1> QED
  BY <1>1, <1>5

LEMMA LongestExists ==
    ASSUME NEW ops \in SUBSET Operators, ops # {}
    PROVE  \E op \in ops : \A o \in ops : Len(o) <= Len(op)
<1>1. PICK T : T = {Len(o) : o \in ops}
  OBVIOUS
<1>2. \A op \in ops : Len(op) \in 0..4
  <2>1. \A op \in ops : Len(op) \in 1..4
    BY OperatorsAreShort
  <2> QED BY <2>1
<1>3. T \in SUBSET (0..4) /\ T # {}
  BY <1>1, <1>2
<1>4. PICK m \in T : \A k \in T : k <= m
  BY <1>3, Greatest
<1> QED BY <1>1, <1>4

LEMMA OperatorsAreSymbols ==
    ASSUME NEW op \in Operators, NEW i \in 1..Len(op)
    PROVE  op[i] \in {"<", ">", "="}
<1>1. PICK S : S = {"<", ">", "="}
  OBVIOUS
<1>2. ASSUME NEW a \in S, NEW b \in S, NEW c \in S, NEW d \in S
      PROVE  /\ <<a>> \in Seq(S) /\ <<a, b>> \in Seq(S)
             /\ <<a, b, c>> \in Seq(S) /\ <<a, b, c, d>> \in Seq(S)
  OBVIOUS
<1>3. "<" \in S /\ ">" \in S /\ "=" \in S
  BY <1>1
<1>4. \E a \in S, b \in S, c \in S, d \in S :
          op = <<a>> \/ op = <<a, b>> \/ op = <<a, b, c>> \/ op = <<a, b, c, d>>
  BY <1>3 DEF Operators
<1>5. op \in Seq(S)
  BY ZenonT(60), <1>2, <1>4
<1> QED
  BY <1>1, <1>5

(* A token with its text. *)
LEMMA TokenStands ==
    ASSUME text \in Seq(Atoms), NEW p \in Nat \ {0}, NEW k \in Seq(Atoms), NEW e \in Nat,
           p <= e, e <= Past, k = SubSeq(text, p, e - 1),
           p = Past \/ e = p + 1 \/ k \in Operators
    PROVE  /\ TokenOK([kind |-> k, start |-> p, end |-> e])
           /\ [kind |-> k, start |-> p, end |-> e] # NoToken
<1>1. PICK t : t = [kind |-> k, start |-> p, end |-> e]
  OBVIOUS
<1>2. t \in Tokens /\ t.kind = k /\ t.start = p /\ t.end = e
  BY <1>1 DEF Tokens
<1>3. Past \in Nat
  BY DEF Past
<1>4. TokenOK(t)
  BY <1>2, <1>3 DEF TokenOK
<1>5. t # NoToken
  BY <1>2 DEF NoToken
<1> QED
  BY <1>1, <1>4, <1>5

(* The token at a place starts there and is what is spelled there.           *)
LEMMA TokenIsSpelled ==
    ASSUME text \in Seq(Atoms), NEW p \in 1..Past
    PROVE  /\ TokenOK(TokenAt(p))
           /\ TokenAt(p).start = p
           /\ p < Past => TokenAt(p).end > p
           /\ TokenAt(p) # NoToken
           /\ TokenAt(p) = [kind |-> TokenAt(p).kind, start |-> p, end |-> TokenAt(p).end]
<1> USE DEF Past
<1>0. Past \in Nat \ {0}
  OBVIOUS
<1>1. CASE p = Past
  <2>1. TokenAt(p) = [kind |-> <<>>, start |-> p, end |-> p]
    BY <1>1 DEF TokenAt
  <2>2. PICK e : e = SubSeq(text, p, p - 1) /\ e \in Seq(Atoms) /\ e = <<>>
    <3>1. p \in 1..(Len(text) + 1)
      BY <1>1
    <3> QED BY <3>1, NoAtom
  <2> HIDE DEF Past
  <2>3. TokenOK([kind |-> e, start |-> p, end |-> p]) /\ [kind |-> e, start |-> p, end |-> p] # NoToken
    <3>1. p \in Nat \ {0} /\ p <= p /\ p <= Past /\ e = SubSeq(text, p, p - 1)
      BY <1>0, <1>1, <2>2
    <3>2. e \in Seq(Atoms)
      BY <2>2
    <3>3. PICK q : q = p
      OBVIOUS
    <3>4. /\ q \in Nat /\ p <= q /\ q <= Past /\ e = SubSeq(text, p, q - 1)
      BY <3>1, <3>3
    <3>5. TokenOK([kind |-> e, start |-> p, end |-> q]) /\ [kind |-> e, start |-> p, end |-> q] # NoToken
      BY ZenonT(60), <1>1, <3>1, <3>2, <3>4, TokenStands
    <3> QED BY <3>3, <3>5
  <2>4. TokenAt(p) = [kind |-> e, start |-> p, end |-> p]
    BY <2>1, <2>2
  <2> QED BY <1>1, <2>3, <2>4
<1>2. CASE p # Past
  <2> DEFINE ops == {op \in Operators : Spelled(op, p)}
             longest == CHOOSE op \in ops : \A o \in ops : Len(o) <= Len(op)
             kind == IF ops = {} THEN <<text[p]>> ELSE longest
  <2>1. TokenAt(p) = [kind |-> kind, start |-> p, end |-> p + Len(kind)]
    BY <1>2 DEF TokenAt
  <2>2. p \in 1..Len(text) /\ text[p] \in Atoms
    BY <1>2
  <2>3. CASE ops = {}
    <3>1. PICK k : k = <<text[p]>>
      OBVIOUS
    <3>2. k \in Seq(Atoms) /\ Len(k) = 1 /\ k = SubSeq(text, p, p)
      BY <2>2, <3>1, OneAtom
    <3>3. TokenAt(p) = [kind |-> k, start |-> p, end |-> p + 1]
      BY <2>1, <2>3, <3>1, <3>2
    <3>4. p + 1 <= Past /\ p + 1 - 1 = p
      BY <2>2
    <3> HIDE DEF Past, ops, longest, kind
    <3>5. PICK e : e = p + 1
      OBVIOUS
    <3>6. e \in Nat /\ p \in Nat \ {0} /\ p < e /\ e - 1 = p /\ e <= Past
      BY <3>4, <3>5, <1>0
    <3>7. /\ TokenOK([kind |-> k, start |-> p, end |-> e])
          /\ [kind |-> k, start |-> p, end |-> e] # NoToken
      <4>1. k = SubSeq(text, p, e - 1) /\ k \in Seq(Atoms) /\ p <= e
        BY <3>2, <3>6
      <4> QED BY <4>1, <3>5, <3>6, TokenStands
    <3> QED BY <3>3, <3>5, <3>6, <3>7
  <2>4. CASE ops # {}
    <3>1. \E op \in ops : \A o \in ops : Len(o) <= Len(op)
      BY <2>4, LongestExists
    <3>2. PICK k : k = longest
      OBVIOUS
    <3>3. k \in Operators /\ Spelled(k, p)
      BY <3>1, <3>2
    <3>4. k \in Seq(Atoms) /\ Len(k) \in 1..4
      BY <3>3, OperatorsAreShort
    <3>5. TokenAt(p) = [kind |-> k, start |-> p, end |-> p + Len(k)]
      BY <2>1, <2>4, <3>2
    <3>6. p + Len(k) <= Past /\ k = SubSeq(text, p, p + Len(k) - 1)
      BY <3>3 DEF Spelled
    <3> HIDE DEF ops, longest, kind, Past
    <3>7. PICK n \in 1..4 : n = Len(k)
      BY <3>4
    <3>10. PICK e : e = p + n
      OBVIOUS
    <3>8. p \in Nat \ {0} /\ e \in Nat /\ p < e
      BY <3>10, <1>0
    <3>9. /\ TokenOK([kind |-> k, start |-> p, end |-> e])
          /\ [kind |-> k, start |-> p, end |-> e] # NoToken
      <4>1. k = SubSeq(text, p, e - 1) /\ p <= e /\ e <= Past
        BY <3>6, <3>7, <3>8, <3>10
      <4>2. k \in Seq(Atoms) /\ k \in Operators
        BY <3>3, <3>4
      <4> QED BY <4>1, <4>2, <3>8, TokenStands
    <3> QED BY <3>5, <3>7, <3>8, <3>9, <3>10
  <2> QED BY <2>3, <2>4
<1> QED BY <1>1, <1>2

(* No operator spelled at a place is longer than the token read there.       *)
LEMMA LongestIsRead ==
    ASSUME text \in Seq(Atoms), NEW p \in 1..Past, p # Past,
           NEW op \in Operators, Spelled(op, p)
    PROVE  TokenAt(p).kind \in Operators /\ Len(op) <= Len(TokenAt(p).kind)
<1> DEFINE ops == {o \in Operators : Spelled(o, p)}
           longest == CHOOSE o \in ops : \A other \in ops : Len(other) <= Len(o)
<1>1. ops # {} /\ ops \in SUBSET Operators /\ op \in ops
  OBVIOUS
<1>2. TokenAt(p) = [kind |-> longest, start |-> p, end |-> p + Len(longest)]
  BY <1>1 DEF TokenAt
<1>3. \E o \in ops : \A other \in ops : Len(other) <= Len(o)
  <2> HIDE DEF ops
  <2> QED BY <1>1, LongestExists
<1>4. longest \in ops /\ \A other \in ops : Len(other) <= Len(longest)
  <2> HIDE DEF ops
  <2> QED BY <1>3
<1> HIDE DEF ops, longest
<1> QED
  BY <1>1, <1>2, <1>4

(* What Fetch finds: the first place that is neither a comment nor white      *)
(* space.                                                                    *)
LEMMA FetchFinds ==
    ASSUME text \in Seq(Atoms), NEW p \in 1..Past
    PROVE  \E q \in p..Past :
              /\ q = Past \/ text[q] \notin Blank
              /\ \A i \in p..(q - 1) : text[i] \in Blank
              /\ Fetch(p).token = TokenAt(q)
              /\ Fetch(p).bad = (q < Past /\ text[q] = "bad")
              /\ Fetch(p).broken = BreakIn(p, q)
              /\ Fetch(p).cursor = IF Fetch(p).bad THEN q ELSE TokenAt(q).end
              /\ Fetch(p).drained = Drained(p, q)
<1> DEFINE Stop(q) == /\ q = Past \/ text[q] \notin Blank
                      /\ \A i \in p..(q - 1) : text[i] \in Blank
           T == {q \in p..Past : q = Past \/ text[q] \notin Blank}
<1>1. \E q \in p..Past : Stop(q)
  <2>1. Past \in Nat
    BY DEF Past
  <2>2. T \in SUBSET Nat /\ Past \in T
    BY <2>1
  <2>3. PICK q \in T : \A n \in T : q <= n
    <3> HIDE DEF T
    <3> QED BY <2>2, Least
  <2>4. \A i \in p..(q - 1) : text[i] \in Blank
    BY <2>1, <2>3
  <2> QED BY <2>3, <2>4
<1>2. PICK q : q = CHOOSE c \in p..Past :
                 /\ c = Past \/ text[c] \notin Blank
                 /\ \A i \in p..(c - 1) : text[i] \in Blank
  OBVIOUS
<1>3. q \in p..Past /\ Stop(q)
  BY <1>1, <1>2
<1> HIDE DEF Stop, T
<1>4. /\ Fetch(p).token = TokenAt(q)
      /\ Fetch(p).bad = (q < Past /\ text[q] = "bad")
      /\ Fetch(p).broken = BreakIn(p, q)
      /\ Fetch(p).cursor = IF Fetch(p).bad THEN q ELSE TokenAt(q).end
      /\ Fetch(p).drained = Drained(p, q)
  <2>0. PICK bad \in BOOLEAN : bad = (q < Past /\ text[q] = "bad")
    OBVIOUS
  <2>1. Fetch(p) = [token |-> TokenAt(q), bad |-> q < Past /\ text[q] = "bad",
                    broken |-> BreakIn(p, q),
                    cursor |-> IF q < Past /\ text[q] = "bad" THEN q ELSE TokenAt(q).end,
                    drained |-> Drained(p, q)]
    BY <1>2 DEF Fetch
  <2>2. Fetch(p) = [token |-> TokenAt(q), bad |-> bad, broken |-> BreakIn(p, q),
                    cursor |-> IF bad THEN q ELSE TokenAt(q).end,
                    drained |-> Drained(p, q)]
    BY <2>0, <2>1
  <2> QED BY <2>0, <2>2
<1> QED BY <1>3, <1>4 DEF Stop

---------------------------------------------------------------------------
(* The window's steps *)

LEMMA TokenHasText ==
    ASSUME text \in Seq(Atoms), NEW t, TokenOK(t)
    PROVE  /\ t \in Tokens /\ t.start \in Nat \ {0} /\ t.end \in Nat
           /\ t.start <= t.end /\ t.end <= Past /\ Past \in Nat
           /\ t.kind \in Seq(Atoms) /\ Len(t.kind) = t.end - t.start
           /\ \A i \in 1..(t.end - t.start) : t.kind[i] = text[t.start + i - 1]
           /\ t.start < Past => t.start < t.end
           /\ t.kind # <<>> => t.start < t.end /\ t.start < Past
<1>1. t \in Tokens /\ t.start \in Nat \ {0} /\ t.end \in Nat /\ t.start <= t.end /\ t.end <= Past
  BY DEF TokenOK, Tokens
<1>2. Past \in Nat /\ Past = Len(text) + 1
  BY DEF Past
<1>3. t.kind = SubSeq(text, t.start, t.end - 1)
  BY DEF TokenOK
<1>4. CASE t.start < t.end
  <2>1. PICK q : q = t.end - 1
    OBVIOUS
  <2>2. q \in Nat /\ q <= Len(text) /\ t.start <= q + 1 /\ q - t.start + 1 = t.end - t.start
    BY SMTT(60), <1>1, <1>2, <1>4, <2>1
  <2>3. /\ t.kind \in Seq(Atoms) /\ Len(t.kind) = t.end - t.start
        /\ \A i \in 1..(t.end - t.start) : t.kind[i] = text[t.start + i - 1]
    BY SMTT(60), <1>1, <1>3, <2>1, <2>2, Segment
  <2> QED BY <1>1, <1>2, <1>4, <2>3
<1>5. CASE t.start = t.end
  <2>1. t.start \in 1..(Len(text) + 1)
    BY <1>1, <1>2, <1>5
  <2>2. t.kind \in Seq(Atoms) /\ t.kind = <<>> /\ Len(t.kind) = 0
    <3>1. t.kind \in Seq(Atoms) /\ t.kind = <<>>
      BY <1>3, <1>5, <2>1, NoAtom
    <3> QED BY <3>1
  <2>3. t.start = Past
    <3>1. ASSUME t.kind \in Operators PROVE FALSE
      <4>1. Len(t.kind) \in 1..4
        BY <3>1, OperatorsAreShort
      <4> QED BY <2>2, <4>1
    <3> QED BY <1>1, <1>5, <3>1 DEF TokenOK
  <2> QED BY <1>1, <1>2, <1>5, <2>2, <2>3
<1> QED
  BY <1>1, <1>4, <1>5

(* A window whose current token has just been fetched.                       *)
LEMMA FetchedWindow ==
    ASSUME text \in Seq(Atoms), NEW e \in 1..Past, NEW v \in Windows,
           ~Fetch(e).bad, v.current = Fetch(e).token, v.prevEnd = e,
           v.broken = Fetch(e).broken, v.cursor = Fetch(e).cursor,
           v.peek = NoToken, ~v.error
    PROVE  WindowOK(v) /\ v.current.start >= e
<1>1. PICK q \in e..Past :
              /\ q = Past \/ text[q] \notin Blank
              /\ \A i \in e..(q - 1) : text[i] \in Blank
              /\ Fetch(e).token = TokenAt(q)
              /\ Fetch(e).bad = (q < Past /\ text[q] = "bad")
              /\ Fetch(e).broken = BreakIn(e, q)
              /\ Fetch(e).cursor = IF Fetch(e).bad THEN q ELSE TokenAt(q).end
  BY FetchFinds
<1>2. Past \in Nat
  BY DEF Past
<1>3. TokenOK(v.current) /\ v.current.start = q
  BY <1>1, <1>2, TokenIsSpelled
<1>4. v.cursor = v.current.end
  BY <1>1
<1>5. v.broken = BreakIn(v.prevEnd, v.current.start)
  BY <1>1, <1>3
<1> QED
  BY <1>1, <1>2, <1>3, <1>4, <1>5 DEF WindowOK

(* The type of what Fetch returns. *)
LEMMA FetchIsTyped ==
    ASSUME text \in Seq(Atoms), NEW e \in 1..Past
    PROVE  /\ Fetch(e).token \in Tokens /\ Fetch(e).token # NoToken
           /\ Fetch(e).broken \in BOOLEAN /\ Fetch(e).cursor \in Nat /\ Fetch(e).bad \in BOOLEAN
           /\ Fetch(e).token.start >= e
<1>1. PICK q \in e..Past :
              /\ Fetch(e).token = TokenAt(q)
              /\ Fetch(e).bad = (q < Past /\ text[q] = "bad")
              /\ Fetch(e).broken = BreakIn(e, q)
              /\ Fetch(e).cursor = IF Fetch(e).bad THEN q ELSE TokenAt(q).end
  BY FetchFinds
<1>2. Past \in Nat
  BY DEF Past
<1>3. TokenOK(TokenAt(q)) /\ TokenAt(q) # NoToken /\ TokenAt(q).start = q
  BY <1>1, <1>2, TokenIsSpelled
<1>4. TokenAt(q) \in Tokens /\ TokenAt(q).end \in Nat
  BY <1>3, TokenHasText
<1>5. Fetch(e).cursor \in Nat
  BY <1>1, <1>2, <1>4
<1>6. Fetch(e).broken \in BOOLEAN
  BY <1>1 DEF BreakIn
<1> QED
  BY <1>1, <1>3, <1>4, <1>5, <1>6

(* What a step of the window must do: leave it the text's, further on.       *)
Onward(w, v) == WindowOK(v) /\ v.current.start > w.current.start

LEMMA AdvancedIsOnward ==
    ASSUME text \in Seq(Atoms), NEW w, WindowOK(w), NEW ledger,
           Advanced(w, ledger).ok
    PROVE  LET v == Advanced(w, ledger).window IN
           /\ WindowOK(v) /\ v.current.start >= w.current.end /\ v.prevEnd = w.current.end
           /\ w.current.start < Past => Onward(w, v)
<1>1. PICK v : v = Advanced(w, ledger).window
  OBVIOUS
<1>2. PICK e : e = w.current.end
  OBVIOUS
<1>3. w \in Windows /\ TokenOK(w.current)
  BY DEF WindowOK
<1>4. w.current.start < Past => w.current.start < e
  BY <1>2, <1>3, TokenHasText
<1>5. e \in 1..Past /\ e \in Nat /\ w.current.start \in Nat
  BY <1>2, <1>3, TokenHasText
<1>6. ~w.error
  BY DEF Advanced
<1>7. WindowOK(v) /\ v.current.start >= e /\ v.prevEnd = e
  <2>1. CASE w.peek # NoToken
    <3>1. v = [w EXCEPT !.prevEnd = w.current.end, !.current = w.peek,
                        !.peek = NoToken, !.broken = w.peekBroken]
      BY <1>1, <1>6, <2>1 DEF Advanced
    <3>3. v \in Windows /\ v.current = w.peek /\ v.prevEnd = e /\ v.broken = w.peekBroken
          /\ v.cursor = w.cursor /\ v.peek = NoToken /\ v.error = w.error
      BY <1>2, <1>3, <1>5, <2>1, <3>1 DEF Windows
    <3>4. ~Fetch(e).bad /\ w.peek = Fetch(e).token /\ w.peekBroken = Fetch(e).broken
          /\ w.cursor = Fetch(e).cursor
      BY <1>2, <2>1 DEF WindowOK
    <3> QED BY <1>5, <1>6, <3>3, <3>4, FetchedWindow
  <2>2. CASE w.peek = NoToken
    <3>1. w.cursor = e
      BY <1>2, <1>6, <2>2 DEF WindowOK
    <3>2. PICK f : f = Fetch(e)
      OBVIOUS
    <3>3. ~f.bad /\ v = [w EXCEPT !.prevEnd = w.current.end, !.current = f.token,
                        !.broken = f.broken, !.cursor = f.cursor]
      BY <1>1, <1>6, <2>2, <3>1, <3>2 DEF Advanced
    <3>4. f.token \in Tokens /\ f.broken \in BOOLEAN /\ f.cursor \in Nat
      BY <1>5, <3>2, FetchIsTyped
    <3>5. v \in Windows /\ v.current = f.token /\ v.prevEnd = e /\ v.broken = f.broken
          /\ v.cursor = f.cursor /\ v.peek = w.peek /\ v.error = w.error
      BY <1>2, <1>3, <1>5, <3>3, <3>4 DEF Windows
    <3> QED BY <1>5, <1>6, <2>2, <3>2, <3>3, <3>5, FetchedWindow
  <2> QED BY <2>1, <2>2
<1>8. w.current.start < Past => Onward(w, v)
  <2>1. v.current.start \in Nat
    <3>1. TokenOK(v.current)
      BY <1>7 DEF WindowOK
    <3> QED BY <3>1, TokenHasText
  <2> QED BY <1>4, <1>5, <1>7, <2>1 DEF Onward
<1> QED
  BY <1>1, <1>2, <1>7, <1>8

LEMMA TailStands ==
    ASSUME text \in Seq(Atoms), NEW t, TokenOK(t), t.start < t.end
    PROVE  /\ Tail(t.kind) \in Seq(Atoms) /\ Len(Tail(t.kind)) = t.end - (t.start + 1)
           /\ Tail(t.kind) = SubSeq(text, t.start + 1, t.end - 1)
<1>1. /\ t.start \in Nat \ {0} /\ t.end \in Nat /\ t.end <= Past /\ Past \in Nat
      /\ t.kind \in Seq(Atoms) /\ Len(t.kind) = t.end - t.start
      /\ \A i \in 1..(t.end - t.start) : t.kind[i] = text[t.start + i - 1]
  BY TokenHasText
<1>2. PICK k : k = Tail(t.kind)
  OBVIOUS
<1>3. \E p \in Nat \ {0}, q \in Nat, n \in Nat :
          /\ p = t.start + 1 /\ q = t.end - 1 /\ n = t.end - (t.start + 1)
  <2>1. t.start + 1 \in Nat \ {0} /\ t.end - 1 \in Nat /\ t.end - (t.start + 1) \in Nat
    BY SMTT(60), <1>1
  <2> QED BY <2>1
<1>11. PICK p \in Nat \ {0}, q \in Nat, n \in Nat :
          /\ p = t.start + 1 /\ q = t.end - 1 /\ n = t.end - (t.start + 1)
  BY <1>3
<1>4. Past = Len(text) + 1
  BY DEF Past
<1>5. q <= Len(text) /\ p <= q + 1 /\ q - p + 1 = n
  <2>1. PICK a \in Nat, b \in Nat : a = t.start /\ b = t.end
    BY <1>1
  <2>2. b <= Len(text) + 1 /\ Len(text) \in Nat /\ a < b
    BY <1>1, <1>4, <2>1
  <2>3. p = a + 1 /\ q = b - 1 /\ n = b - (a + 1)
    BY <1>11, <2>1
  <2> QED BY <2>2, <2>3
<1>6. k \in Seq(Atoms) /\ Len(k) = n /\ \A i \in 1..n : k[i] = t.kind[i + 1]
  <2>1. Len(t.kind) = n + 1 /\ t.kind # <<>>
    BY SMTT(60), <1>1, <1>11
  <2> QED BY <1>1, <1>2, <2>1
<1>7. \A i \in 1..n : k[i] = text[p + i - 1]
  <2> TAKE i \in 1..n
  <2>1. PICK a \in Nat, b \in Nat, j \in Nat : a = t.start /\ b = t.end /\ j = i + 1
    BY <1>1
  <2>2. j \in 1..(b - a) /\ a + j - 1 = p + i - 1
    <3>1. p = a + 1 /\ n = b - (a + 1)
      BY <1>11, <2>1
    <3> QED BY SMTT(60), <2>1, <3>1
  <2>3. t.kind[j] = text[a + j - 1]
    BY <1>1, <2>1, <2>2
  <2> QED BY <1>6, <2>1, <2>2, <2>3
<1>8. PICK u : u = SubSeq(text, p, q)
  OBVIOUS
<1>9. u \in Seq(Atoms) /\ Len(u) = n /\ \A i \in 1..n : u[i] = text[p + i - 1]
  BY <1>5, <1>8, Segment
<1>10. k = u
  BY <1>6, <1>7, <1>9, SameSequence
<1> QED
  BY <1>2, <1>11, <1>6, <1>8, <1>10

Narrowable == {<<"<", "<">>, <<">", ">">>, <<">", ">", ">">>}
Relexable == {<<">", "=">>, <<">", ">", "=">>, <<">", ">", ">", "=">>}

LEMMA TailsAreOperators ==
    ASSUME NEW k \in Narrowable \cup Relexable
    PROVE  /\ Len(k) \in 2..4 /\ Tail(k) \in Operators
<1>1. \A k1, k2 : Len(<<k1, k2>>) = 2 /\ Tail(<<k1, k2>>) = <<k2>>
  OBVIOUS
<1>2. \A k1, k2, k3 : Len(<<k1, k2, k3>>) = 3 /\ Tail(<<k1, k2, k3>>) = <<k2, k3>>
  OBVIOUS
<1>3. \A k1, k2, k3, k4 : Len(<<k1, k2, k3, k4>>) = 4 /\ Tail(<<k1, k2, k3, k4>>) = <<k2, k3, k4>>
  OBVIOUS
<1>4. CASE k = <<"<", "<">>
  <2>1. Len(k) = 2 /\ Tail(k) = <<"<">>
    BY <1>1, <1>4
  <2> QED BY <2>1 DEF Operators
<1>5. CASE k = <<">", ">">>
  <2>1. Len(k) = 2 /\ Tail(k) = <<">">>
    BY <1>1, <1>5
  <2> QED BY <2>1 DEF Operators
<1>6. CASE k = <<">", "=">>
  <2>1. Len(k) = 2 /\ Tail(k) = <<"=">>
    BY <1>1, <1>6
  <2> QED BY <2>1 DEF Operators
<1>7. CASE k = <<">", ">", ">">>
  <2>1. Len(k) = 3 /\ Tail(k) = <<">", ">">>
    BY <1>2, <1>7
  <2> QED BY <2>1 DEF Operators
<1>8. CASE k = <<">", ">", "=">>
  <2>1. Len(k) = 3 /\ Tail(k) = <<">", "=">>
    BY <1>2, <1>8
  <2> QED BY <2>1 DEF Operators
<1>9. CASE k = <<">", ">", ">", "=">>
  <2>1. Len(k) = 4 /\ Tail(k) = <<">", ">", "=">>
    BY <1>3, <1>9
  <2> QED BY <2>1 DEF Operators
<1> QED
  BY <1>4, <1>5, <1>6, <1>7, <1>8, <1>9 DEF Narrowable, Relexable

LEMMA NarrowedIsOnward ==
    ASSUME text \in Seq(Atoms), NEW w, WindowOK(w), NEW ledger,
           w.current.kind \in Narrowable
    PROVE  Onward(w, Narrowed(w, ledger).window)
<1>1. PICK t : t = w.current
  OBVIOUS
<1>2. PICK v : v = Narrowed(w, ledger).window
  OBVIOUS
<1>3. w \in Windows /\ TokenOK(t) /\ t.kind \in Narrowable
  BY <1>1 DEF WindowOK
<1>4. /\ t \in Tokens /\ t.start \in Nat \ {0} /\ t.end \in Nat /\ t.end <= Past /\ Past \in Nat
      /\ Len(t.kind) = t.end - t.start
  BY <1>3, TokenHasText
<1>5. Len(t.kind) \in 2..4 /\ Tail(t.kind) \in Operators
  BY <1>3, TailsAreOperators
<1>6. t.start + 1 < t.end
  BY SMTT(60), <1>4, <1>5
<1>7. /\ Tail(t.kind) \in Seq(Atoms) /\ Len(Tail(t.kind)) = t.end - (t.start + 1)
      /\ Tail(t.kind) = SubSeq(text, t.start + 1, t.end - 1)
  BY SMTT(60), <1>3, <1>4, <1>6, TailStands
<1>8. PICK u : u = [kind |-> Tail(t.kind), start |-> t.start + 1, end |-> t.end]
  OBVIOUS
<1>9. TokenOK(u) /\ u \in Tokens /\ u.kind \in Operators /\ u.start = t.start + 1 /\ u.end = t.end
  <2>1. PICK k, p : k = Tail(t.kind) /\ p = t.start + 1
    OBVIOUS
  <2>2. p \in Nat \ {0} /\ p <= t.end /\ k \in Seq(Atoms) /\ k = SubSeq(text, p, t.end - 1)
    <3>1. p \in Nat \ {0} /\ p <= t.end
      BY SMTT(60), <1>4, <1>6, <2>1
    <3> QED BY <1>7, <2>1, <3>1
  <2>3. TokenOK([kind |-> k, start |-> p, end |-> t.end])
    BY <1>4, <1>5, <2>1, <2>2, TokenStands
  <2>4. TokenOK(u)
    BY <1>8, <2>1, <2>3
  <2> QED BY <1>5, <1>8, <2>4 DEF TokenOK
<1>10. v = [w EXCEPT !.current = u, !.prevEnd = t.start + 1]
  <2>1. v = [w EXCEPT !.current = [kind |-> Tail(w.current.kind), start |-> w.current.start + 1,
                                   end |-> w.current.end], !.prevEnd = w.current.start + 1]
    BY <1>2 DEF Narrowed
  <2> QED BY <1>1, <1>8, <2>1
<1>11. /\ v \in Windows /\ v.current = u /\ v.prevEnd = t.start + 1
       /\ v.peek = w.peek /\ v.peekBroken = w.peekBroken /\ v.error = w.error
       /\ v.cursor = w.cursor /\ v.broken = w.broken
  <2>1. PICK n \in Nat : n = t.start + 1
    BY <1>4
  <2>2. v = [w EXCEPT !.current = u, !.prevEnd = n]
    BY <1>10, <2>1
  <2>3. u \in Tokens
    BY <1>9
  <2>4. /\ v \in Windows /\ v.current = u /\ v.prevEnd = n
        /\ v.peek = w.peek /\ v.peekBroken = w.peekBroken /\ v.error = w.error
        /\ v.cursor = w.cursor /\ v.broken = w.broken
    BY <1>3, <2>2, <2>3 DEF Windows
  <2> QED BY <2>1, <2>4
<1>12. u.kind # <<"/">>
  BY <1>9 DEF Operators
<1>13. WindowOK(v)
  <2>1. v.prevEnd = v.current.start /\ v.current.end = w.current.end /\ v.prevEnd \in Nat
    BY <1>1, <1>4, <1>9, <1>11
  <2>2. 1 <= v.prevEnd /\ v.prevEnd..(v.current.start - 1) = {}
    BY <1>4, <1>9, <1>11
  <2>3. TokenOK(v.current) /\ v.current.kind # <<"/">>
    BY <1>9, <1>11, <1>12
  <2> QED BY <1>11, <2>1, <2>2, <2>3 DEF WindowOK
<1> QED
  BY <1>1, <1>2, <1>4, <1>9, <1>11, <1>13 DEF Onward

LEMMA RelexedIsOnward ==
    ASSUME text \in Seq(Atoms), NEW w, WindowOK(w), NEW ledger,
           w.current.kind \in Relexable
    PROVE  /\ Onward(w, Relexed(w, ledger).window)
           /\ Relexed(w, ledger).window.current.end >= w.current.end
           /\ Relexed(w, ledger).window.cursor = Relexed(w, ledger).window.current.end
<1>1. PICK t : t = w.current
  OBVIOUS
<1>2. PICK v : v = Relexed(w, ledger).window
  OBVIOUS
<1>3. w \in Windows /\ TokenOK(t) /\ t.kind \in Relexable
  BY <1>1 DEF WindowOK
<1>4. PICK a \in Nat \ {0}, e \in Nat : a = t.start /\ e = t.end
  BY <1>3, TokenHasText
<1>5. /\ e <= Past /\ Past \in Nat /\ t.kind \in Seq(Atoms) /\ Len(t.kind) = e - a
      /\ \A i \in 1..(e - a) : t.kind[i] = text[a + i - 1]
  BY <1>3, <1>4, TokenHasText
<1>6. Len(t.kind) \in 2..4 /\ Tail(t.kind) \in Operators
  BY <1>3, TailsAreOperators
<1>7. PICK from \in Nat : from = a + 1
  OBVIOUS
<1>8. from < e /\ from \in 1..Past /\ from # Past
  BY <1>5, <1>6, <1>7
<1>9. PICK u : u = TokenAt(from)
  OBVIOUS
<1>10. TokenOK(u) /\ u.start = from /\ u.end > from
  BY <1>5, <1>8, <1>9, TokenIsSpelled
<1>11. PICK z \in Nat : z = u.end
  BY <1>10, TokenHasText
<1>12. /\ u \in Tokens /\ z <= Past /\ Len(u.kind) = z - from
       /\ \A i \in 1..(z - from) : u.kind[i] = text[from + i - 1]
  BY SMTT(60), <1>10, <1>11, TokenHasText
<1>13. u.kind \in Operators /\ e <= z
  <2>1. /\ Len(Tail(t.kind)) = e - from
        /\ Tail(t.kind) = SubSeq(text, from, e - 1)
    <3>1. t.start < t.end /\ t.start + 1 = from
      BY <1>4, <1>7, <1>8
    <3>2. /\ Len(Tail(t.kind)) = t.end - (t.start + 1)
          /\ Tail(t.kind) = SubSeq(text, t.start + 1, t.end - 1)
      BY <1>3, <3>1, TailStands
    <3> QED BY <1>4, <3>1, <3>2
  <2>2. PICK k : k = Tail(t.kind)
    OBVIOUS
  <2>3. PICK n \in Nat : n = e - from
    BY <1>8
  <2>4. Len(k) = n /\ from + n = e /\ k = SubSeq(text, from, e - 1) /\ k \in Operators
    BY <1>6, <1>8, <2>1, <2>2, <2>3
  <2>5. from + Len(k) <= Past /\ from + Len(k) - 1 = e - 1
    BY <2>4, <1>5
  <2>6. Spelled(k, from)
    BY <2>4, <2>5 DEF Spelled
  <2>7. u.kind \in Operators /\ Len(k) <= Len(u.kind)
    BY <1>8, <1>9, <2>4, <2>6, LongestIsRead
  <2> QED BY <1>12, <2>4, <2>7
<1>14. v = [w EXCEPT !.current = u, !.prevEnd = from, !.peek = NoToken, !.cursor = z]
  <2>1. v = [w EXCEPT !.current = TokenAt(w.current.start + 1), !.prevEnd = w.current.start + 1,
                      !.peek = NoToken, !.cursor = TokenAt(w.current.start + 1).end]
    BY <1>2 DEF Relexed
  <2> QED BY <1>1, <1>4, <1>7, <1>9, <1>11, <2>1
<1>15. /\ v \in Windows /\ v.current = u /\ v.prevEnd = from /\ v.peek = NoToken
       /\ v.cursor = z /\ v.error = w.error
  BY <1>3, <1>12, <1>14 DEF Windows
<1>16. u.kind # <<"/">>
  <2>1. <<"/">> \notin Operators
    BY DEF Operators
  <2> QED BY <1>13, <2>1
<1>17. ASSUME w.error PROVE z = e
  <2>1. Fetch(e).bad
    BY <1>1, <1>4, <1>17 DEF WindowOK
  <2>2. e \in 1..Past
    BY <1>5, <1>8
  <2>3. PICK q \in e..Past : /\ \A i \in e..(q - 1) : text[i] \in Blank
                             /\ q < Past /\ text[q] = "bad"
    BY <2>1, <2>2, FetchFinds
  <2>4. text[e] \in Blank \cup {"bad"}
    <3>1. CASE q = e
      BY <2>3, <3>1
    <3>2. CASE q # e
      <4>1. e \in e..(q - 1)
        BY <1>5, <3>2
      <4> QED BY <2>3, <4>1
    <3> QED BY <3>1, <3>2
  <2>5. ASSUME e < z PROVE FALSE
    <3>1. PICK i \in Nat : i = e - from + 1
      BY <1>8
    <3>2. i \in 1..(z - from) /\ from + i - 1 = e
      BY <1>8, <2>5, <3>1
    <3>3. u.kind[i] = text[e] /\ i \in 1..Len(u.kind)
      BY <1>12, <3>2
    <3>4. u.kind[i] \in {"<", ">", "="}
      BY <1>13, <3>3, OperatorsAreSymbols
    <3> QED BY <2>4, <3>3, <3>4 DEF Blank, CommentAtoms, Block
  <2> QED BY <1>13, <2>5
<1>18. WindowOK(v)
  <2>1. v.current.start = from /\ v.current.end = z /\ v.prevEnd = from
    BY <1>10, <1>11, <1>15
  <2>2. TokenOK(v.current) /\ v.current.kind # <<"/">> /\ 1 <= from
    BY <1>8, <1>10, <1>15, <1>16
  <2>3. v.error => Fetch(v.current.end).bad
    <3>1. ASSUME w.error PROVE Fetch(z).bad
      BY <1>1, <1>4, <1>17, <3>1 DEF WindowOK
    <3> QED BY <1>15, <2>1, <3>1
  <2> QED BY <1>15, <2>1, <2>2, <2>3 DEF WindowOK
<1>19. Onward(w, v)
  BY <1>1, <1>4, <1>7, <1>10, <1>15, <1>18 DEF Onward
<1>20. v.current.end >= w.current.end /\ v.cursor = v.current.end
  BY <1>1, <1>4, <1>11, <1>13, <1>15
<1> QED
  BY <1>2, <1>19, <1>20

---------------------------------------------------------------------------
(* The splits *)

LEMMA LeadingGreater ==
    ASSUME text \in Seq(Atoms), NEW t, TokenOK(t), t.kind # <<>>, Head(t.kind) = ">",
           t.kind # <<">">>
    PROVE  t.kind \in Narrowable \cup Relexable
<1>1. PICK a \in Nat \ {0}, e \in Nat : a = t.start /\ e = t.end
  BY TokenHasText
<1>2. t.kind \in Seq(Atoms) /\ Len(t.kind) = e - a /\ a < e
  BY <1>1, TokenHasText
<1>3. CASE t.kind \in Operators
  BY <1>3 DEF Operators, Narrowable, Relexable
<1>4. CASE t.kind \notin Operators
  <2>1. e = a + 1
    BY <1>1, <1>2, <1>4, TokenHasText DEF TokenOK
  <2>2. Len(t.kind) = 1 /\ t.kind[1] = ">"
    BY <1>2, <2>1
  <2>3. t.kind = <<">">>
    BY <1>2, <2>2
  <2> QED BY <2>3
<1> QED
  BY <1>3, <1>4

LEMMA GreaterSplitIsOnward ==
    ASSUME text \in Seq(Atoms), NEW w, WindowOK(w), NEW ledger,
           w.current.kind # <<>>, Head(w.current.kind) = ">", GreaterSplit(w, ledger).ok
    PROVE  Onward(w, GreaterSplit(w, ledger).window)
<1>1. TokenOK(w.current)
  BY DEF WindowOK
<1>2. w.current.start < Past
  BY <1>1, TokenHasText
<1>3. CASE w.current.kind = <<">">>
  BY <1>2, <1>3, AdvancedIsOnward DEF GreaterSplit
<1>4. CASE w.current.kind \in {<<">", ">">>, <<">", ">", ">">>}
  <2>1. w.current.kind \in Narrowable /\ w.current.kind # <<">">>
    BY <1>4 DEF Narrowable
  <2>2. GreaterSplit(w, ledger) = Narrowed(w, ledger)
    BY <1>4, <2>1 DEF GreaterSplit
  <2> QED BY <2>1, <2>2, NarrowedIsOnward
<1>5. CASE w.current.kind \notin {<<">">>, <<">", ">">>, <<">", ">", ">">>}
  <2>1. w.current.kind \in Relexable
    <3>1. ASSUME w.current.kind = <<"<", "<">> PROVE FALSE
      <4>1. Head(w.current.kind) = "<"
        BY <3>1
      <4> QED BY <4>1
    <3>2. w.current.kind \in Narrowable \cup Relexable
      BY <1>1, <1>5, LeadingGreater
    <3> QED BY <1>5, <3>1, <3>2 DEF Narrowable
  <2>2. GreaterSplit(w, ledger) = Relexed(w, ledger)
    BY <1>5 DEF GreaterSplit
  <2> QED BY <2>1, <2>2, RelexedIsOnward
<1> QED
  BY <1>3, <1>4, <1>5

LEMMA LessSplitIsOnward ==
    ASSUME text \in Seq(Atoms), NEW w, WindowOK(w), NEW ledger,
           w.current.kind \in Less, LessSplit(w, ledger).ok
    PROVE  Onward(w, LessSplit(w, ledger).window)
<1>1. TokenOK(w.current) /\ w.current.kind # <<>>
  <2>1. w.current.kind # <<>>
    BY SMTT(60) DEF Less
  <2> QED BY <2>1 DEF WindowOK
<1>2. w.current.start < Past
  BY <1>1, TokenHasText
<1>3. CASE w.current.kind = <<"<">>
  BY <1>2, <1>3, AdvancedIsOnward DEF LessSplit
<1>4. CASE w.current.kind = <<"<", "<">>
  <2>1. w.current.kind \in Narrowable /\ w.current.kind # <<"<">>
    BY <1>4 DEF Narrowable
  <2> QED BY <2>1, NarrowedIsOnward DEF LessSplit
<1> QED
  BY <1>3, <1>4 DEF Less

(* Whether a `<` can be stepped over does not depend on the ledger.          *)
LEMMA LessSplitIsTheWindows ==
    ASSUME NEW w, w.current.kind \in Less, NEW ledger
    PROVE  CanStep(w) <=> LessSplit(w, ledger).ok
<1>1. CASE w.current.kind = <<"<">>
  <2>1. LessSplit(w, ledger) = Advanced(w, ledger)
    BY <1>1 DEF LessSplit
  <2>2. Advanced(w, ledger).ok <=> ~w.error /\ (w.peek = NoToken => ~Fetch(w.cursor).bad)
    BY DEF Advanced
  <2> QED BY <1>1, <2>1, <2>2 DEF CanStep
<1>2. CASE w.current.kind # <<"<">>
  <2>1. LessSplit(w, ledger) = Narrowed(w, ledger)
    BY <1>2 DEF LessSplit
  <2>2. Narrowed(w, ledger).ok
    BY DEF Narrowed
  <2> QED BY <1>2, <2>1, <2>2 DEF CanStep
<1> QED
  BY <1>1, <1>2

---------------------------------------------------------------------------
(* The regions *)

LEMMA CapIsThree == Cap = 3
BY DEF Cap

Ahead(r, x) == {i \in DOMAIN r : \A j \in 1..i : r[j].lt < x}

(* At least n regions are open before x exactly when the n-th is.            *)
LEMMA OpenIsReached ==
    ASSUME NEW S, NEW r \in Seq(S), NEW x, NEW n \in Nat \ {0}
    PROVE  (OpenBefore(r, x) >= n) <=> n \in Ahead(r, x)
<1>1. PICK A : A = Ahead(r, x)
  OBVIOUS
<1>2. OpenBefore(r, x) = Cardinality(A)
  BY <1>1 DEF OpenBefore, Ahead
<1>3. A \subseteq 1..Len(r) /\ Len(r) \in Nat
  BY <1>1 DEF Ahead
<1>4. IsFiniteSet(A)
  <2>1. 1 \in Int /\ Len(r) \in Int
    BY <1>3
  <2>2. IsFiniteSet(1..Len(r))
    BY <2>1, FS_Interval
  <2> QED BY <1>3, <2>2, FS_Subset
<1>5. Cardinality(A) \in Nat
  BY <1>4, FS_CardinalityType
<1>6. ASSUME n \in A PROVE Cardinality(A) >= n
  <2>1. 1..n \subseteq A
    <3> SUFFICES ASSUME NEW i \in 1..n PROVE i \in A
      OBVIOUS
    <3>1. \A j \in 1..n : r[j].lt < x
      BY <1>1, <1>6 DEF Ahead
    <3>2. \A j \in 1..i : j \in 1..n
      OBVIOUS
    <3>3. i \in DOMAIN r
      BY <1>3, <1>6
    <3> QED BY <1>1, <3>1, <3>2, <3>3 DEF Ahead
  <2>2. 1..n \in SUBSET A
    BY <2>1
  <2>3. Cardinality(1..n) = n
    <3>1. 1 \in Int /\ n \in Int
      OBVIOUS
    <3>2. Cardinality(1..n) = IF 1 > n THEN 0 ELSE n - 1 + 1
      BY <3>1, FS_Interval
    <3> QED BY <3>2
  <2>4. Cardinality(1..n) <= Cardinality(A)
    BY <1>4, <2>2, FS_Subset
  <2> QED BY <1>5, <2>3, <2>4
<1>7. ASSUME n \notin A PROVE Cardinality(A) < n
  <2>1. A \subseteq 1..(n - 1)
    <3> SUFFICES ASSUME NEW i \in A, i >= n PROVE FALSE
      BY <1>3
    <3>1. i \in DOMAIN r /\ i \in 1..Len(r) /\ \A j \in 1..i : r[j].lt < x
      BY <1>1, <1>3 DEF Ahead
    <3>2. n \in DOMAIN r /\ \A j \in 1..n : j \in 1..i
      BY <3>1
    <3> QED BY <1>1, <1>7, <3>1, <3>2 DEF Ahead
  <2>2. IsFiniteSet(1..(n - 1)) /\ Cardinality(1..(n - 1)) = n - 1
    <3>1. 1 \in Int /\ n - 1 \in Int
      OBVIOUS
    <3>2. IsFiniteSet(1..(n - 1)) /\ Cardinality(1..(n - 1)) = IF 1 > n - 1 THEN 0 ELSE (n - 1) - 1 + 1
      BY <3>1, FS_Interval
    <3> QED BY <3>2
  <2>3. Cardinality(A) <= Cardinality(1..(n - 1))
    BY <2>1, <2>2, FS_Subset
  <2> QED BY <1>5, <2>2, <2>3
<1> QED
  BY <1>1, <1>2, <1>5, <1>6, <1>7

(* Three tracked regions answer as all of them would, up to three.           *)
LEMMA CapIsSound ==
    ASSUME NEW tracked \in Seq(Region), NEW all \in Seq(Region), Capped(tracked, all),
           NEW x, NEW n \in 1..Cap
    PROVE  (OpenBefore(tracked, x) >= n) <=> (OpenBefore(all, x) >= n)
<1>1. n \in Nat \ {0} /\ n <= 3 /\ Cap = 3
  BY CapIsThree
<1>2. /\ Len(tracked) \in Nat /\ Len(all) \in Nat
      /\ Len(tracked) = IF Len(all) < 3 THEN Len(all) ELSE 3
      /\ \A i \in 1..Len(tracked) : tracked[i] = all[i]
  BY <1>1 DEF Capped
<1>3. n \in DOMAIN tracked <=> n \in DOMAIN all
  BY <1>1, <1>2
<1>4. n \in DOMAIN tracked => \A j \in 1..n : tracked[j] = all[j]
  BY <1>1, <1>2
<1>5. n \in Ahead(tracked, x) <=> n \in Ahead(all, x)
  BY <1>3, <1>4 DEF Ahead
<1> QED
  BY <1>1, <1>5, OpenIsReached

LEMMA NothingFits ==
    ASSUME NEW d \in Nat
    PROVE  Fits(NoRegions, d)
<1>1. PICK e : e = <<>>
  OBVIOUS
<1>2. e \in Seq(Region) /\ Len(e) = 0
  BY <1>1
<1>3. NoRegions = [tracked |-> e, all |-> e]
  BY <1>1 DEF NoRegions
<1> QED
  BY <1>2, <1>3, CapIsThree DEF Fits, Capped

LEMMA FitsDeeper ==
    ASSUME NEW r, NEW d \in Nat, NEW e \in Nat, d <= e, Fits(r, d)
    PROVE  Fits(r, e)
<1>1. \A i \in 1..Len(r.all) : r.all[i].floor \in Nat
  <2>1. PICK A : A = r.all
    OBVIOUS
  <2>2. A \in Seq(Region)
    BY <2>1 DEF Fits
  <2>3. \A i \in 1..Len(A) : A[i] \in Region
    BY <2>2
  <2>4. \A i \in 1..Len(A) : A[i].floor \in Nat
    BY <2>3 DEF Region
  <2> QED BY <2>1, <2>4
<1> QED
  BY <1>1 DEF Fits

LEMMA OpenedFits ==
    ASSUME NEW r, NEW d \in Nat, NEW lt \in Nat, Fits(r, d), NEW region,
           region = [floor |-> d, lt |-> lt]
    PROVE  Fits([tracked |-> Opened(r.tracked, region), all |-> Append(r.all, region)], d)
<1>1. PICK T, A : T = r.tracked /\ A = r.all
  OBVIOUS
<1>2. PICK t, a : t = Opened(T, region) /\ a = Append(A, region)
  OBVIOUS
<1>3. region \in Region /\ region.floor = d
  BY DEF Region
<1>4. T \in Seq(Region) /\ A \in Seq(Region) /\ Capped(T, A)
  BY <1>1 DEF Fits
<1>5. \A i \in 1..Len(A) : A[i].floor <= d
  BY <1>1 DEF Fits
<1>6. \A i \in 1..Len(A), j \in 1..Len(A) : i <= j => A[i].floor <= A[j].floor
  BY <1>1 DEF Fits
<1>7. a \in Seq(Region) /\ Len(a) = Len(A) + 1 /\ a[Len(A) + 1] = region
      /\ \A i \in 1..Len(A) : a[i] = A[i]
  BY <1>2, <1>3, <1>4
<1>8. Len(A) \in Nat /\ Len(T) \in Nat
  BY <1>4
<1>9. \A i \in 1..Len(a) : i \in 1..Len(A) \/ i = Len(A) + 1
  BY <1>7, <1>8
<1>10. \A i \in 1..Len(a) : a[i].floor <= d
  BY <1>3, <1>5, <1>7, <1>9
<1>11. \A i \in 1..Len(a), j \in 1..Len(a) : i <= j => a[i].floor <= a[j].floor
  <2> SUFFICES ASSUME NEW i \in 1..Len(a), NEW j \in 1..Len(a), i <= j
               PROVE  a[i].floor <= a[j].floor
    OBVIOUS
  <2>1. CASE j \in 1..Len(A)
    <3>1. i \in 1..Len(A)
      BY <2>1, <1>8
    <3> QED BY <1>6, <1>7, <2>1, <3>1
  <2>2. CASE j = Len(A) + 1
    BY <1>3, <1>7, <1>10, <2>2
  <2> QED BY <1>9, <2>1, <2>2
<1>12. t \in Seq(Region) /\ Capped(t, a)
  <2>1. CASE Len(T) < Cap
    <3>1. t = Append(T, region)
      BY <1>2, <2>1 DEF Opened
    <3>2. Len(T) = Len(A) /\ \A i \in 1..Len(T) : T[i] = A[i]
      BY <1>4, <1>8, <2>1, CapIsThree DEF Capped
    <3>3. t \in Seq(Region) /\ Len(t) = Len(T) + 1 /\ t[Len(T) + 1] = region
          /\ \A i \in 1..Len(T) : t[i] = T[i]
      BY <1>3, <1>4, <3>1
    <3>4. \A i \in 1..Len(t) : t[i] = a[i]
      <4> SUFFICES ASSUME NEW i \in 1..Len(t) PROVE t[i] = a[i]
        OBVIOUS
      <4>1. i \in 1..Len(T) \/ i = Len(T) + 1
        BY <1>8, <3>3
      <4> QED BY <1>7, <3>2, <3>3, <4>1
    <3>5. Len(t) = IF Len(a) < Cap THEN Len(a) ELSE Cap
      BY <1>7, <1>8, <2>1, <3>2, <3>3, CapIsThree
    <3> QED BY <3>3, <3>4, <3>5 DEF Capped
  <2>2. CASE ~(Len(T) < Cap)
    <3>1. t = T
      BY <1>2, <2>2 DEF Opened
    <3>2. Len(T) = Cap /\ ~(Len(A) < Cap) /\ \A i \in 1..Len(T) : T[i] = A[i]
      BY <1>4, <1>8, <2>2, CapIsThree DEF Capped
    <3>3. \A i \in 1..Len(T) : i \in 1..Len(A)
      BY <1>8, <3>2, CapIsThree
    <3>4. \A i \in 1..Len(t) : t[i] = a[i]
      BY SMTT(60), <1>7, <3>1, <3>2, <3>3
    <3>5. Len(t) = IF Len(a) < Cap THEN Len(a) ELSE Cap
      BY <1>7, <1>8, <3>1, <3>2, CapIsThree
    <3> QED BY <1>4, <3>1, <3>4, <3>5 DEF Capped
  <2> QED BY <2>1, <2>2
<1>13. PICK s : s = [tracked |-> t, all |-> a]
  OBVIOUS
<1>14. Fits(s, d)
  BY <1>7, <1>10, <1>11, <1>12, <1>13 DEF Fits
<1> QED
  BY <1>1, <1>2, <1>13, <1>14

(* The closer drops the run of regions deeper than it, and keeps the rest.   *)
LEMMA CloseKeeps ==
    ASSUME NEW r \in Seq(Region), NEW d \in Nat
    PROVE  \E n \in 0..Len(r) :
              /\ CloseAbove(r, d) = SubSeq(r, 1, n)
              /\ n > 0 => r[n].floor <= d
              /\ \A later \in (n + 1)..Len(r) : r[later].floor > d
<1> DEFINE Kept(n) == /\ n > 0 => r[n].floor <= d
                      /\ \A later \in (n + 1)..Len(r) : r[later].floor > d
           T == {n \in 0..Len(r) : n > 0 => r[n].floor <= d}
<1>1. Len(r) \in Nat /\ \A i \in 1..Len(r) : r[i].floor \in Nat
  <2>1. \A i \in 1..Len(r) : r[i] \in Region
    OBVIOUS
  <2> QED BY <2>1 DEF Region
<1>2. T \in SUBSET (0..Len(r)) /\ 0 \in T
  BY <1>1
<1>3. PICK m \in T : \A k \in T : k <= m
  <2> HIDE DEF T
  <2> QED BY <1>1, <1>2, Greatest
<1>4. m \in 0..Len(r) /\ Kept(m)
  <2>1. ASSUME NEW later \in (m + 1)..Len(r) PROVE r[later].floor > d
    <3>1. later \in 1..Len(r) /\ later \in 0..Len(r) /\ later > m /\ m \in Nat
      BY <1>1, <1>3
    <3>2. later \notin T
      BY <1>3, <3>1
    <3>3. ~(r[later].floor <= d)
      BY <3>1, <3>2
    <3> QED BY <1>1, <3>1, <3>3
  <2> QED BY <1>3, <2>1
<1>5. PICK c : c = CHOOSE n \in 0..Len(r) :
            /\ n > 0 => r[n].floor <= d
            /\ \A later \in (n + 1)..Len(r) : r[later].floor > d
  OBVIOUS
<1>6. c \in 0..Len(r) /\ Kept(c)
  BY <1>4, <1>5
<1>7. CloseAbove(r, d) = SubSeq(r, 1, c)
  BY <1>5 DEF CloseAbove
<1> QED
  BY SMTT(60), <1>6, <1>7

LEMMA Prefix ==
    ASSUME NEW S, NEW s \in Seq(S), NEW n \in 0..Len(s)
    PROVE  /\ SubSeq(s, 1, n) \in Seq(S) /\ Len(SubSeq(s, 1, n)) = n
           /\ \A i \in 1..n : SubSeq(s, 1, n)[i] = s[i]
OBVIOUS

LEMMA ClosedFits ==
    ASSUME NEW r, NEW d \in Nat, NEW e \in Nat, Fits(r, e)
    PROVE  Fits([x \in DOMAIN r |-> CloseAbove(r[x], d)], d)
<1>1. PICK T, A : T = r.tracked /\ A = r.all
  OBVIOUS
<1>2. PICK t, a : t = CloseAbove(T, d) /\ a = CloseAbove(A, d)
  OBVIOUS
<1>3. T \in Seq(Region) /\ A \in Seq(Region) /\ Capped(T, A)
      /\ r = [tracked |-> T, all |-> A]
  BY <1>1 DEF Fits
<1>4. \A i \in 1..Len(A), j \in 1..Len(A) : i <= j => A[i].floor <= A[j].floor
  BY <1>1 DEF Fits
<1>5. PICK n \in 0..Len(T) :
              /\ t = SubSeq(T, 1, n)
              /\ n > 0 => T[n].floor <= d
              /\ \A later \in (n + 1)..Len(T) : T[later].floor > d
  BY <1>2, <1>3, CloseKeeps
<1>6. PICK m \in 0..Len(A) :
              /\ a = SubSeq(A, 1, m)
              /\ m > 0 => A[m].floor <= d
              /\ \A later \in (m + 1)..Len(A) : A[later].floor > d
  BY <1>2, <1>3, CloseKeeps
<1>7. /\ Len(T) \in Nat /\ Len(A) \in Nat /\ n \in Nat /\ m \in Nat
      /\ Len(T) = IF Len(A) < 3 THEN Len(A) ELSE 3
      /\ \A i \in 1..Len(T) : T[i] = A[i]
  BY <1>3, CapIsThree DEF Capped
<1>8. t \in Seq(Region) /\ Len(t) = n /\ \A i \in 1..n : t[i] = T[i]
  BY <1>3, <1>5, Prefix
<1>9. a \in Seq(Region) /\ Len(a) = m /\ \A i \in 1..m : a[i] = A[i]
  BY <1>3, <1>6, Prefix
<1>10. \A i \in 1..Len(A) : A[i].floor \in Nat
  <2>1. \A i \in 1..Len(A) : A[i] \in Region
    BY <1>3
  <2> QED BY <2>1 DEF Region
<1>11. \A i \in 1..m : i \in 1..Len(A) /\ A[i].floor <= d
  <2> SUFFICES ASSUME NEW i \in 1..m PROVE i \in 1..Len(A) /\ A[i].floor <= d
    OBVIOUS
  <2>1. i \in 1..Len(A) /\ m \in 1..Len(A) /\ i <= m /\ m > 0
    BY <1>7
  <2>2. A[i].floor <= A[m].floor /\ A[m].floor <= d
    BY <1>4, <1>6, <2>1
  <2> QED BY SMTT(60), <1>10, <2>1, <2>2
<1>12. n <= m
  <2> SUFFICES ASSUME m < n PROVE FALSE
    BY <1>7
  <2>1. n \in 1..Len(T) /\ n > 0 /\ n \in (m + 1)..Len(A) /\ n \in 1..Len(A)
    BY <1>7
  <2>2. T[n].floor <= d /\ T[n] = A[n] /\ A[n].floor > d
    BY <1>5, <1>6, <1>7, <2>1
  <2> QED BY SMTT(60), <1>10, <2>1, <2>2
<1>13. n < m => n = Len(T)
  <2> SUFFICES ASSUME n < m, n # Len(T) PROVE FALSE
    OBVIOUS
  <2>1. n + 1 \in 1..m /\ n + 1 \in (n + 1)..Len(T) /\ n + 1 \in 1..Len(T) /\ n + 1 \in 1..Len(A)
    BY <1>7
  <2>2. T[n + 1].floor > d /\ T[n + 1] = A[n + 1] /\ A[n + 1].floor <= d
    BY <1>5, <1>7, <1>11, <2>1
  <2> QED BY <1>10, <2>1, <2>2
<1>14. Capped(t, a)
  <2>1. Len(t) = IF Len(a) < 3 THEN Len(a) ELSE 3
    BY <1>7, <1>8, <1>9, <1>12, <1>13
  <2>2. \A i \in 1..Len(t) : i \in 1..n /\ i \in 1..m /\ i \in 1..Len(T)
    BY <1>7, <1>8, <1>12
  <2>3. \A i \in 1..Len(t) : t[i] = a[i]
    BY SMTT(60), <1>7, <1>8, <1>9, <2>2
  <2> QED BY <2>1, <2>3, CapIsThree DEF Capped
<1>15. \A i \in 1..Len(a) : a[i].floor <= d
  BY <1>9, <1>11
<1>16. \A i \in 1..Len(a), j \in 1..Len(a) : i <= j => a[i].floor <= a[j].floor
  BY SMTT(60), <1>4, <1>9, <1>11
<1>17. PICK s : s = [tracked |-> t, all |-> a]
  OBVIOUS
<1>18. Fits(s, d)
  BY SMTT(60), <1>8, <1>9, <1>14, <1>15, <1>16, <1>17 DEF Fits
<1>19. [x \in DOMAIN r |-> CloseAbove(r[x], d)] = s
  BY <1>2, <1>3, <1>17
<1> QED
  BY <1>18, <1>19

LEMMA ReanchoredFits ==
    ASSUME NEW r, NEW d \in Nat, NEW e \in Nat, Fits(r, e)
    PROVE  Fits([x \in DOMAIN r |-> ReanchorAbove(r[x], d)], d)
<1>1. PICK T, A : T = r.tracked /\ A = r.all
  OBVIOUS
<1>2. PICK t, a : t = ReanchorAbove(T, d) /\ a = ReanchorAbove(A, d)
  OBVIOUS
<1>3. T \in Seq(Region) /\ A \in Seq(Region) /\ Capped(T, A)
      /\ r = [tracked |-> T, all |-> A]
  BY <1>1 DEF Fits
<1>4. \A i \in 1..Len(A), j \in 1..Len(A) : i <= j => A[i].floor <= A[j].floor
  BY <1>1 DEF Fits
<1> DEFINE Anchored(region) == IF region.floor > d THEN [region EXCEPT !.floor = d] ELSE region
<1>5. \A region \in Region :
         /\ Anchored(region) \in Region
         /\ Anchored(region).floor = IF region.floor > d THEN d ELSE region.floor
  BY DEF Region
<1>6. /\ t = [i \in 1..Len(T) |-> Anchored(T[i])]
      /\ a = [i \in 1..Len(A) |-> Anchored(A[i])]
  BY <1>2, <1>3 DEF ReanchorAbove
<1> HIDE DEF Anchored
<1>7. \A s \in Seq(Region) : \A u :
         u = [i \in 1..Len(s) |-> Anchored(s[i])] =>
            /\ u \in Seq(Region) /\ Len(u) = Len(s)
            /\ \A i \in 1..Len(s) : u[i] = Anchored(s[i])
  <2> SUFFICES ASSUME NEW s \in Seq(Region), NEW u, u = [i \in 1..Len(s) |-> Anchored(s[i])]
               PROVE  /\ u \in Seq(Region) /\ Len(u) = Len(s)
                      /\ \A i \in 1..Len(s) : u[i] = Anchored(s[i])
    OBVIOUS
  <2>1. Len(s) \in Nat /\ \A i \in 1..Len(s) : s[i] \in Region
    OBVIOUS
  <2>2. u \in [1..Len(s) -> Region] /\ \A i \in 1..Len(s) : u[i] = Anchored(s[i])
    BY <1>5, <2>1
  <2> QED BY <2>1, <2>2
<1>8. t \in Seq(Region) /\ Len(t) = Len(T) /\ \A i \in 1..Len(T) : t[i] = Anchored(T[i])
  BY <1>3, <1>6, <1>7
<1>9. a \in Seq(Region) /\ Len(a) = Len(A) /\ \A i \in 1..Len(A) : a[i] = Anchored(A[i])
  BY <1>3, <1>6, <1>7
<1>10. \A i \in 1..Len(A) : A[i] \in Region /\ A[i].floor \in Nat
  <2>1. \A i \in 1..Len(A) : A[i] \in Region
    BY <1>3
  <2> QED BY <2>1 DEF Region
<1>11. \A i \in 1..Len(A) : a[i].floor = IF A[i].floor > d THEN d ELSE A[i].floor
  BY <1>5, <1>9, <1>10
<1>12. \A i \in 1..Len(a) : a[i].floor <= d
  BY <1>9, <1>10, <1>11
<1>13. \A i \in 1..Len(a), j \in 1..Len(a) : i <= j => a[i].floor <= a[j].floor
  <2> SUFFICES ASSUME NEW i \in 1..Len(a), NEW j \in 1..Len(a), i <= j
               PROVE  a[i].floor <= a[j].floor
    OBVIOUS
  <2>1. A[i].floor <= A[j].floor
    BY <1>4, <1>9
  <2> QED BY SMTT(60), <1>9, <1>10, <1>11, <2>1
<1>14. Capped(t, a)
  <2>1. /\ Len(T) \in Nat /\ Len(A) \in Nat
        /\ Len(T) = IF Len(A) < Cap THEN Len(A) ELSE Cap
        /\ \A i \in 1..Len(T) : T[i] = A[i]
    BY <1>3 DEF Capped
  <2>2. \A i \in 1..Len(T) : i \in 1..Len(A)
    BY <2>1, CapIsThree
  <2>3. \A i \in 1..Len(t) : t[i] = a[i]
    BY <1>8, <1>9, <2>1, <2>2
  <2> QED BY <1>8, <1>9, <2>1, <2>3 DEF Capped
<1>15. PICK s : s = [tracked |-> t, all |-> a]
  OBVIOUS
<1>16. Fits(s, d)
  BY <1>8, <1>9, <1>12, <1>13, <1>14, <1>15 DEF Fits
<1>17. [x \in DOMAIN r |-> ReanchorAbove(r[x], d)] = s
  BY <1>2, <1>3, <1>15
<1> QED
  BY <1>16, <1>17

---------------------------------------------------------------------------
(* The stack *)

LEMMA SequencesStack ==
    ASSUME NEW S, NEW s \in Seq(S)
    PROVE  Stack(s)
<1>1. PICK R : R = {s[i] : i \in DOMAIN s}
  OBVIOUS
<1>2. Len(s) \in Nat /\ s \in [1..Len(s) -> R]
  BY <1>1
<1>3. s \in Seq(R)
  BY <1>2
<1> QED
  BY <1>1, <1>2, <1>3 DEF Stack

Same(t, s, n) == \A i \in 1..n : t[i] = s[i]

LEMMA StackPushed ==
    ASSUME NEW s, Stack(s), NEW x
    PROVE  /\ Stack(Append(s, x)) /\ Len(s) \in Nat /\ Len(Append(s, x)) = Len(s) + 1
           /\ Append(s, x)[Len(s) + 1] = x /\ Same(Append(s, x), s, Len(s))
<1>1. PICK S : S = {s[i] : i \in DOMAIN s} \cup {x}
  OBVIOUS
<1>2. s \in Seq(S) /\ x \in S
  <2>1. PICK R : R = {s[i] : i \in DOMAIN s}
    OBVIOUS
  <2>2. s \in Seq(R) /\ R \subseteq S
    BY <1>1, <2>1 DEF Stack
  <2> QED BY <1>1, <2>2
<1>3. PICK t : t = Append(s, x)
  OBVIOUS
<1>4. /\ t \in Seq(S) /\ Len(s) \in Nat /\ Len(t) = Len(s) + 1
      /\ t[Len(s) + 1] = x /\ \A i \in 1..Len(s) : t[i] = s[i]
  BY <1>2, <1>3
<1> QED
  BY <1>3, <1>4, SequencesStack DEF Same

LEMMA StackCut ==
    ASSUME NEW s, Stack(s), NEW n \in 0..Len(s)
    PROVE  /\ Stack(SubSeq(s, 1, n)) /\ Len(SubSeq(s, 1, n)) = n
           /\ Same(SubSeq(s, 1, n), s, n)
<1>1. PICK S : S = {s[i] : i \in DOMAIN s}
  OBVIOUS
<1>2. s \in Seq(S)
  BY <1>1 DEF Stack
<1> QED
  BY <1>2, Prefix, SequencesStack DEF Same

LEMMA DepthIsNatural ==
    ASSUME NEW s, NEW n \in Nat
    PROVE  IsFiniteSet(Grouped(s, n)) /\ DepthAt(s, n) \in Nat
<1>1. Grouped(s, n) \subseteq 1..n
  BY DEF Grouped
<1>2. IsFiniteSet(1..n)
  <2>1. 1 \in Int /\ n \in Int
    OBVIOUS
  <2> QED BY <2>1, FS_Interval
<1>3. IsFiniteSet(Grouped(s, n))
  BY <1>1, <1>2, FS_Subset
<1> QED
  BY <1>3, FS_CardinalityType DEF DepthAt

LEMMA DepthGrows ==
    ASSUME NEW s, NEW m \in Nat, NEW n \in Nat, m <= n
    PROVE  DepthAt(s, m) <= DepthAt(s, n)
<1>1. Grouped(s, m) \subseteq Grouped(s, n)
  BY DEF Grouped
<1> QED
  BY <1>1, DepthIsNatural, FS_Subset DEF DepthAt

LEMMA DepthNext ==
    ASSUME NEW s, NEW n \in Nat \ {0}
    PROVE  DepthAt(s, n) = IF s[n].is \in Groupings THEN DepthAt(s, n - 1) + 1 ELSE DepthAt(s, n - 1)
<1>1. PICK m \in Nat : m = n - 1
  OBVIOUS
<1>2. PICK G : G = Grouped(s, m)
  OBVIOUS
<1>3. \A i : i \in 1..n <=> i \in 1..m \/ i = n
  BY <1>1
<1>4. IsFiniteSet(G) /\ n \notin G
  <2>1. n \notin 1..m
    BY <1>1
  <2> QED BY <1>2, <2>1, DepthIsNatural DEF Grouped
<1>5. CASE s[n].is \in Groupings
  <2>1. Grouped(s, n) = G \cup {n}
    BY <1>2, <1>3, <1>5 DEF Grouped
  <2>2. Cardinality(G \cup {n}) = Cardinality(G) + 1
    BY <1>4, FS_AddElement
  <2> QED BY <1>1, <1>2, <1>5, <2>1, <2>2 DEF DepthAt
<1>6. CASE s[n].is \notin Groupings
  <2>1. Grouped(s, n) = G
    BY <1>2, <1>3, <1>6 DEF Grouped
  <2> QED BY <1>1, <1>2, <1>6, <2>1 DEF DepthAt
<1> QED
  BY <1>5, <1>6

LEMMA SamePlaces ==
    ASSUME NEW s, NEW t, NEW n \in Nat, Same(t, s, n), NEW m \in Nat, m <= n
    PROVE  /\ DepthAt(t, m) = DepthAt(s, m)
           /\ \A b : BaseIs(s, m, b) <=> BaseIs(t, m, b)
           /\ ContextAt(t, m) = ContextAt(s, m)
<1>1. \A i \in 1..m : t[i] = s[i]
  BY DEF Same
<1>2. Grouped(t, m) = Grouped(s, m)
  BY <1>1 DEF Grouped
<1>3. ASSUME NEW b PROVE BaseIs(s, m, b) <=> BaseIs(t, m, b)
  <2>1. \A k \in 1..m : \A i \in (k + 1)..m : i \in 1..m
    OBVIOUS
  <2> QED BY <1>1, <2>1 DEF BaseIs
<1>4. ContextAt(t, m) = ContextAt(s, m)
  <2>1. PICK scopes : scopes = {i \in 1..m : s[i].is \in Scoping}
    OBVIOUS
  <2>2. scopes = {i \in 1..m : t[i].is \in Scoping}
    BY <1>1, <2>1
  <2>3. CASE scopes = {}
    BY <2>1, <2>2, <2>3 DEF ContextAt
  <2>4. CASE scopes # {}
    <3>1. scopes \in SUBSET (0..m) /\ scopes \subseteq 1..m
      BY <2>1
    <3>2. \E i \in scopes : \A j \in scopes : j <= i
      BY <2>4, <3>1, Greatest
    <3>3. PICK k : k = CHOOSE i \in scopes : \A j \in scopes : j <= i
      OBVIOUS
    <3>4. k \in 1..m
      BY <3>1, <3>2, <3>3
    <3>5. ContextAt(s, m) = s[k].context /\ ContextAt(t, m) = t[k].context
      BY <2>1, <2>2, <2>4, <3>3 DEF ContextAt
    <3> QED BY <1>1, <3>4, <3>5
  <2> QED BY <2>3, <2>4
<1> QED
  BY <1>2, <1>3, <1>4 DEF DepthAt

(* Only a scope changes the flags. *)
LEMMA ContextPasses ==
    ASSUME NEW s, NEW n \in Nat, s[n + 1].is \notin Scoping
    PROVE  ContextAt(s, n + 1) = ContextAt(s, n)
<1>1. \A i : i \in 1..(n + 1) <=> i \in 1..n \/ i = n + 1
  OBVIOUS
<1> DEFINE Flags(T) == IF T = {} THEN Outermost ELSE s[CHOOSE i \in T : \A j \in T : j <= i].context
           Scopes(k) == {i \in 1..k : s[i].is \in Scoping}
<1>2. Scopes(n + 1) = Scopes(n)
  BY <1>1
<1>3. \A k : ContextAt(s, k) = Flags(Scopes(k))
  BY DEF ContextAt
<1> HIDE DEF Flags, Scopes
<1> QED
  BY <1>2, <1>3

LEMMA ContextNow ==
    ASSUME Len(frames) \in Nat, DOMAIN frames = 1..Len(frames)
    PROVE  Context = ContextAt(frames, Len(frames))
BY DEF Context, ContextAt, Scoping

LEMMA SameFrames ==
    ASSUME NEW s, NEW t, NEW n \in Nat, Same(t, s, n), NEW i \in 1..n, FrameOK(s, i)
    PROVE  FrameOK(t, i)
<1>1. t[i] = s[i]
  BY DEF Same
<1>2. i - 1 \in Nat /\ i - 1 <= n
  OBVIOUS
<1>3. PICK m \in Nat : m = i - 1
  BY <1>2
<1>4. /\ DepthAt(t, m) = DepthAt(s, m) /\ ContextAt(t, m) = ContextAt(s, m)
      /\ \A b : BaseIs(s, m, b) <=> BaseIs(t, m, b)
  BY <1>2, <1>3, SamePlaces
<1> QED
  BY <1>1, <1>3, <1>4 DEF FrameOK

(* With no body opened since, a statement starts from what it did.           *)
LEMMA BaseStands ==
    ASSUME NEW s, NEW n \in Nat, NEW m \in Nat, m <= n, NEW b, BaseIs(s, n, b),
           \A i \in (m + 1)..n : s[i].is # "body"
    PROVE  BaseIs(s, m, b)
<1>1. CASE b = NoRegions /\ \A i \in 1..n : s[i].is # "body"
  <2>1. \A i \in 1..m : i \in 1..n
    OBVIOUS
  <2> QED BY <1>1, <2>1 DEF BaseIs
<1>2. CASE \E k \in 1..n : /\ s[k].is = "body" /\ b = s[k].regions
                           /\ \A i \in (k + 1)..n : s[i].is # "body"
  <2>1. PICK k \in 1..n : /\ s[k].is = "body" /\ b = s[k].regions
                          /\ \A i \in (k + 1)..n : s[i].is # "body"
    BY <1>2
  <2>2. k \in 1..m
    <3>1. k \notin (m + 1)..n
      BY <2>1
    <3> QED BY <3>1
  <2>3. \A i \in (k + 1)..m : i \in (k + 1)..n
    OBVIOUS
  <2> QED BY <2>1, <2>2, <2>3 DEF BaseIs
<1> QED
  BY <1>1, <1>2 DEF BaseIs

LEMMA BaseFits ==
    ASSUME NEW s, NEW d, NEW b, NEW r, NestOK(s, d, b, r)
    PROVE  Fits(b, d)
<1>1. Len(s) \in Nat /\ d = DepthAt(s, Len(s)) /\ BaseIs(s, Len(s), b)
      /\ \A i \in 1..Len(s) : FrameOK(s, i)
  BY DEF NestOK, Stack
<1>2. d \in Nat
  BY <1>1, DepthIsNatural
<1>3. CASE b = NoRegions
  BY <1>2, <1>3, NothingFits
<1>4. CASE \E m \in 1..Len(s) : s[m].is = "body" /\ b = s[m].regions
  <2>1. PICK m \in 1..Len(s) : s[m].is = "body" /\ b = s[m].regions
    BY <1>4
  <2>2. PICK k \in Nat : k = m - 1
    OBVIOUS
  <2>3. Fits(b, DepthAt(s, k)) /\ k <= Len(s)
    BY <1>1, <2>1, <2>2 DEF FrameOK
  <2>4. DepthAt(s, k) \in Nat /\ DepthAt(s, k) <= d
    BY <1>1, <2>3, DepthIsNatural, DepthGrows
  <2> QED BY <1>2, <2>3, <2>4, FitsDeeper
<1> QED
  BY <1>1, <1>3, <1>4 DEF BaseIs

(* A construct is opened. *)
LEMMA NestPushed ==
    ASSUME NEW s, NEW d, NEW b, NEW r, NestOK(s, d, b, r),
           NEW x, x.is \in FrameKinds,
           x.is \in Speculative => /\ x.cp.depth = d /\ x.cp.regions = r
                                   /\ x.cp.context = ContextAt(s, Len(s)),
           x.is = "body" => x.base = b /\ x.regions = r,
           NEW e, e = (IF x.is \in Groupings THEN d + 1 ELSE d),
           NEW c, c = (IF x.is = "body" THEN r ELSE b),
           NEW q, Fits(q, e)
    PROVE  NestOK(Append(s, x), e, c, q)
<1>1. PICK n \in Nat : n = Len(s)
  BY DEF NestOK, Stack
<1>2. PICK t : t = Append(s, x)
  OBVIOUS
<1>3. PICK m \in Nat : m = n + 1
  OBVIOUS
<1>4. Stack(t) /\ Len(t) = m /\ t[m] = x /\ Same(t, s, n)
  BY <1>1, <1>2, <1>3, StackPushed DEF NestOK
<1>5. /\ \A i \in 1..n : FrameOK(s, i)
      /\ d = DepthAt(s, n) /\ BaseIs(s, n, b) /\ Fits(r, d)
  BY <1>1 DEF NestOK
<1>6. DepthAt(t, n) = d /\ BaseIs(t, n, b) /\ ContextAt(t, n) = ContextAt(s, Len(s))
  BY <1>1, <1>4, <1>5, SamePlaces
<1>7. m - 1 = n /\ m \in Nat \ {0}
  BY <1>3
<1>8. e = DepthAt(t, m)
  BY <1>4, <1>6, <1>7, DepthNext
<1>9. BaseIs(t, m, c)
  <2>1. m \in 1..m /\ (m + 1)..m = {}
    BY <1>3
  <2>2. CASE x.is = "body"
    <3>1. t[m].is = "body" /\ c = t[m].regions
      BY <1>4, <2>2
    <3> QED BY <2>1, <3>1 DEF BaseIs
  <2>3. CASE x.is # "body"
    <3>1. c = b /\ t[m].is # "body"
      BY <1>4, <2>3
    <3>2. CASE b = NoRegions /\ \A i \in 1..n : t[i].is # "body"
      <4>1. \A i \in 1..m : i \in 1..n \/ i = m
        BY <1>3
      <4> QED BY <3>1, <3>2, <4>1 DEF BaseIs
    <3>3. CASE \E k \in 1..n : /\ t[k].is = "body" /\ b = t[k].regions
                               /\ \A i \in (k + 1)..n : t[i].is # "body"
      <4>1. PICK k \in 1..n : /\ t[k].is = "body" /\ b = t[k].regions
                              /\ \A i \in (k + 1)..n : t[i].is # "body"
        BY <3>3
      <4>2. k \in 1..m /\ \A i \in (k + 1)..m : i \in (k + 1)..n \/ i = m
        BY <1>3
      <4> QED BY <3>1, <4>1, <4>2 DEF BaseIs
    <3> QED BY <1>6, <3>2, <3>3 DEF BaseIs
  <2> QED BY <2>2, <2>3
<1>10. \A i \in 1..m : FrameOK(t, i)
  <2> SUFFICES ASSUME NEW i \in 1..m PROVE FrameOK(t, i)
    OBVIOUS
  <2>1. CASE i \in 1..n
    BY <1>4, <1>5, <2>1, SameFrames
  <2>2. CASE i = m
    <3>1. /\ DepthAt(t, i - 1) = d /\ BaseIs(t, i - 1, b) /\ t[i] = x
          /\ ContextAt(t, i - 1) = ContextAt(s, Len(s))
      BY <1>4, <1>6, <1>7, <2>2
    <3> QED BY <1>5, <3>1 DEF FrameOK
  <2> QED BY <1>3, <2>1, <2>2
<1> QED
  BY <1>2, <1>4, <1>8, <1>9, <1>10 DEF NestOK

(* Constructs are closed, or left by a rewind.                               *)
LEMMA NestCut ==
    ASSUME NEW s, NEW d, NEW b, NEW r, NestOK(s, d, b, r),
           NEW n \in 0..Len(s), NEW c, BaseIs(s, n, c), NEW q, Fits(q, DepthAt(s, n))
    PROVE  NestOK(SubSeq(s, 1, n), DepthAt(s, n), c, q)
<1>1. PICK t : t = SubSeq(s, 1, n)
  OBVIOUS
<1>2. Stack(s) /\ Len(s) \in Nat /\ \A i \in 1..Len(s) : FrameOK(s, i)
  BY DEF NestOK, Stack
<1>3. Stack(t) /\ Len(t) = n /\ Same(t, s, n) /\ n \in Nat /\ n <= Len(s)
  BY <1>1, <1>2, StackCut
<1>4. DepthAt(t, n) = DepthAt(s, n) /\ BaseIs(t, n, c)
  BY <1>3, SamePlaces
<1>5. \A i \in 1..n : FrameOK(t, i)
  <2> SUFFICES ASSUME NEW i \in 1..n PROVE FrameOK(t, i)
    OBVIOUS
  <2>1. FrameOK(s, i)
    BY <1>2, <1>3
  <2> QED BY <1>3, <2>1, SameFrames
<1> QED
  BY <1>1, <1>3, <1>4, <1>5 DEF NestOK

---------------------------------------------------------------------------
(* The text never changes, so what is said of it can be said of the next     *)
(* state.                                                                    *)

LEMMA SameText ==
    ASSUME text' = text
    PROVE /\ \A w : WindowOK(w)' <=> WindowOK(w)
          /\ \A w : CanStep(w)' <=> CanStep(w)
<1>1. ASSUME NEW w PROVE WindowOK(w)' <=> WindowOK(w)
  BY SMTT(60) DEF WindowOK, TokenOK, BreakIn, Past, Spelled, Fetch, TokenAt, Drained, CommentsIn
<1>2. ASSUME NEW w PROVE CanStep(w)' <=> CanStep(w)
  BY DEF CanStep, BreakIn, Past, Spelled, Fetch, TokenAt
<1> QED BY <1>1, <1>2

(* The invariant of a state given by its parts. *)
ReadAll(s) == \A i \in 1..Len(s) : s[i].is \in Speculative => WindowOK(s[i].cp.window)
Good(s, w, d, b, r, v, c) ==
    /\ WindowOK(w) /\ ReadAll(s)
    /\ NestOK(s, d, b, r) /\ OrderOK(s, w) /\ VerdictsOK(s, v, c)

LEMMA GoodNow ==
    ASSUME ParseInv
    PROVE  text \in Seq(Atoms) /\ Good(frames, window, depth, base, regions, verdicts, compared)
<1>1. WindowOK(window)
  BY DEF ParseInv, Reads
<1>2. ReadAll(frames)
  BY DEF ParseInv, FramesRead, ReadAll
<1> QED
  BY <1>1, <1>2 DEF ParseInv, Good, Nested, InOrder, Judged

LEMMA GoodNext ==
    ASSUME text' = text, text \in Seq(Atoms),
           Good(frames', window', depth', base', regions', verdicts', compared')
    PROVE  ParseInv'
<1>1. Reads'
  <2>1. WindowOK(window')
    BY DEF Good
  <2>2. \A w : WindowOK(w)' <=> WindowOK(w)
    BY SameText
  <2> QED BY <2>1, <2>2 DEF Reads
<1>2. FramesRead'
  <2>1. \A i \in 1..Len(frames') : frames'[i].is \in Speculative => WindowOK(frames'[i].cp.window)
    BY DEF Good, ReadAll
  <2>2. \A w : WindowOK(w)' <=> WindowOK(w)
    BY SameText
  <2> QED BY <2>1, <2>2 DEF FramesRead
<1>3. Nested'
  BY DEF Good, Nested
<1>4. InOrder'
  <2>1. OrderOK(frames', window')
    BY DEF Good
  <2>2. \A w : CanStep(w)' <=> CanStep(w)
    BY SameText
  <2> QED BY <2>1, <2>2 DEF InOrder, OrderOK
<1>5. Judged'
  <2>1. VerdictsOK(frames', verdicts', compared')
    BY DEF Good
  <2> QED BY <2>1 DEF Judged, VerdictsOK
<1> QED
  BY <1>1, <1>2, <1>3, <1>4, <1>5 DEF ParseInv

---------------------------------------------------------------------------
(* The parse's steps, apart from what the grammar makes of them *)

LEMMA PlacesAreNatural ==
    ASSUME text \in Seq(Atoms), NEW w, WindowOK(w)
    PROVE  w.current.start \in Nat \ {0} /\ w.current \in Tokens
BY TokenHasText DEF WindowOK

(* Every speculation's place is behind where an onward step leads.           *)
LEMMA PlacesBehind ==
    ASSUME text \in Seq(Atoms), NEW s, NEW w, WindowOK(w), OrderOK(s, w),
           NEW v, Onward(w, v), ReadAll(s)
    PROVE  \A i \in 1..Len(s) : s[i].is \in Speculative => Place(s[i]) < v.current.start
<1>1. v.current.start \in Nat /\ w.current.start \in Nat /\ w.current.start < v.current.start
  BY PlacesAreNatural DEF Onward
<1>2. SUFFICES ASSUME NEW i \in 1..Len(s), s[i].is \in Speculative
               PROVE  Place(s[i]) < v.current.start
  OBVIOUS
<1>3. Place(s[i]) \in Nat
  BY <1>2, PlacesAreNatural DEF ReadAll, Place
<1>4. Place(s[i]) < w.current.start \/ Place(s[i]) = w.current.start
  BY <1>2 DEF OrderOK, Place
<1> QED
  BY <1>1, <1>3, <1>4

(* Reading on, with nothing opened or closed.                                *)
LEMMA StaysGood ==
    ASSUME text \in Seq(Atoms), NEW s, NEW w, NEW d, NEW b, NEW r, NEW v, NEW c,
           Good(s, w, d, b, r, v, c),
           NEW x, WindowOK(x), Onward(w, x) \/ x.current = w.current,
           NEW q, Fits(q, d)
    PROVE  Good(s, x, d, b, q, v, c)
<1>1. WindowOK(w) /\ ReadAll(s) /\ NestOK(s, d, b, r) /\ OrderOK(s, w) /\ VerdictsOK(s, v, c)
  BY DEF Good
<1>2. NestOK(s, d, b, q)
  BY <1>1 DEF NestOK
<1>3. OrderOK(s, x)
  <2>1. CASE Onward(w, x)
    <3>1. \A i \in 1..Len(s) : s[i].is \in Speculative => Place(s[i]) < x.current.start
      BY <1>1, <2>1, PlacesBehind
    <3> QED BY <1>1, <3>1 DEF OrderOK
  <2>2. CASE x.current = w.current
    BY <1>1, <2>2 DEF OrderOK
  <2> QED BY <2>1, <2>2
<1> QED
  BY <1>1, <1>2, <1>3 DEF Good

(* What is open, with one more or fewer at its end.                          *)
LEMMA PushedParts ==
    ASSUME NEW s, Stack(s), NEW x, NEW t, t = Append(s, x), NEW n, n = Len(s)
    PROVE  /\ n \in Nat /\ Len(t) = n + 1 /\ t[n + 1] = x
           /\ \A i \in 1..n : t[i] = s[i] /\ i \in 1..Len(t)
           /\ \A i \in 1..Len(t) : i \in 1..n \/ i = n + 1
<1>1. /\ n \in Nat /\ Len(t) = n + 1 /\ t[n + 1] = x /\ Same(t, s, n)
  BY StackPushed
<1> QED
  BY <1>1 DEF Same

(* A construct that is not a speculation is opened.                          *)
LEMMA OpenedIsGood ==
    ASSUME text \in Seq(Atoms), NEW s, NEW w, NEW d, NEW b, NEW r, NEW v, NEW c,
           Good(s, w, d, b, r, v, c),
           NEW y, WindowOK(y),
           \A i \in 1..Len(s) : s[i].is \in Speculative => Place(s[i]) < y.current.start,
           NEW x, x.is \in FrameKinds \ Speculative, x.is = "body" => x.base = b /\ x.regions = r,
           NEW e, e = (IF x.is \in Groupings THEN d + 1 ELSE d)
    PROVE  Good(Append(s, x), y, e, IF x.is = "body" THEN r ELSE b, r, v, c)
<1>1. WindowOK(w) /\ ReadAll(s) /\ NestOK(s, d, b, r) /\ OrderOK(s, w) /\ VerdictsOK(s, v, c)
  BY DEF Good
<1>2. PICK t : t = Append(s, x)
  OBVIOUS
<1>3. PICK n : n = Len(s)
  OBVIOUS
<1>4. /\ n \in Nat /\ Len(t) = n + 1 /\ t[n + 1] = x
      /\ \A i \in 1..n : t[i] = s[i] /\ i \in 1..Len(t)
      /\ \A i \in 1..Len(t) : i \in 1..n \/ i = n + 1
  BY <1>1, <1>2, <1>3, PushedParts DEF NestOK
<1>5. NestOK(t, e, IF x.is = "body" THEN r ELSE b, r)
  <2>1. Fits(r, d) /\ d \in Nat
    BY <1>1, <1>3, <1>4, DepthIsNatural DEF NestOK
  <2>2. e \in Nat /\ d <= e
    BY <2>1
  <2>3. Fits(r, e)
    BY <2>1, <2>2, FitsDeeper
  <2> QED BY SMTT(60), <1>1, <1>2, <2>3, NestPushed
<1>6. x.is \notin Speculative /\ x.is \notin Tried /\ x.is # "comparison"
  BY DEF Speculative, Tried
<1>7. ReadAll(t)
  BY <1>1, <1>3, <1>4, <1>6 DEF ReadAll
<1>9. OrderOK(t, y)
  <2> SUFFICES ASSUME NEW i \in 1..Len(t), t[i].is \in Speculative
               PROVE  /\ \A j \in (i + 1)..Len(t) : t[j].is \in Speculative => Place(t[i]) < Place(t[j])
                      /\ Place(t[i]) < y.current.start
                      /\ t[i].is \in Tried => /\ t[i].cp.window.current.kind \in Less
                                              /\ CanStep(t[i].cp.window)
    BY DEF OrderOK
  <2>1. i \in 1..n /\ t[i] = s[i]
    BY <1>4, <1>6
  <2>2. \A j \in (i + 1)..Len(t) : t[j].is \in Speculative => j \in (i + 1)..n /\ t[j] = s[j]
    BY <1>4, <1>6, <2>1
  <2> QED BY <1>1, <1>3, <2>1, <2>2 DEF OrderOK
<1>10. VerdictsOK(t, v, c)
  <2>1. \A i \in 1..Len(s) : s[i].is = "comparison" => i \in 1..Len(t) /\ t[i] = s[i]
    BY <1>3, <1>4
  <2>2. \A i \in 1..Len(t) : t[i].is \in Tried => i \in 1..Len(s) /\ t[i] = s[i]
    BY <1>3, <1>4, <1>6
  <2> QED BY <1>1, <2>1, <2>2 DEF VerdictsOK
<1> QED
  BY <1>2, <1>5, <1>7, <1>9, <1>10 DEF Good

(* The construct open last, no comparison, is closed.                        *)
LEMMA ClosedIsGood ==
    ASSUME text \in Seq(Atoms), NEW s, NEW w, NEW d, NEW b, NEW r, NEW v, NEW c,
           Good(s, w, d, b, r, v, c),
           NEW n \in Nat, Len(s) = n + 1, s[n + 1].is # "comparison",
           NEW y, WindowOK(y), Onward(w, y) \/ y = w,
           NEW k, BaseIs(s, n, k), NEW q, Fits(q, DepthAt(s, n))
    PROVE  Good(SubSeq(s, 1, n), y, DepthAt(s, n), k, q, v, c)
<1>1. WindowOK(w) /\ ReadAll(s) /\ NestOK(s, d, b, r) /\ OrderOK(s, w) /\ VerdictsOK(s, v, c)
  BY DEF Good
<1>2. PICK t : t = SubSeq(s, 1, n)
  OBVIOUS
<1>3. n \in 0..Len(s)
  OBVIOUS
<1>4. Len(t) = n /\ \A i \in 1..n : t[i] = s[i] /\ i \in 1..Len(s) /\ i # Len(s)
  <2>1. Len(t) = n /\ Same(t, s, n)
    BY <1>1, <1>2, <1>3, StackCut DEF NestOK
  <2> QED BY <2>1 DEF Same
<1>5. NestOK(t, DepthAt(s, n), k, q)
  BY <1>1, <1>2, <1>3, NestCut
<1>6. ReadAll(t)
  BY <1>1, <1>4 DEF ReadAll
<1>7. \A i \in 1..n : s[i].is \in Speculative => Place(s[i]) < y.current.start
  <2>1. CASE Onward(w, y)
    BY <1>1, <1>4, <2>1, PlacesBehind
  <2>2. CASE y = w
    BY <1>1, <1>4, <2>2 DEF OrderOK
  <2> QED BY <2>1, <2>2
<1>8. OrderOK(t, y)
  <2> SUFFICES ASSUME NEW i \in 1..Len(t), t[i].is \in Speculative
               PROVE  /\ \A j \in (i + 1)..Len(t) : t[j].is \in Speculative => Place(t[i]) < Place(t[j])
                      /\ Place(t[i]) < y.current.start
                      /\ t[i].is \in Tried => /\ t[i].cp.window.current.kind \in Less
                                              /\ CanStep(t[i].cp.window)
    BY DEF OrderOK
  <2>1. \A j \in (i + 1)..Len(t) : j \in (i + 1)..Len(s) /\ t[j] = s[j]
    BY <1>4
  <2> QED BY <1>1, <1>4, <1>7, <2>1 DEF OrderOK
<1>9. VerdictsOK(t, v, c)
  <2>1. \A i \in 1..Len(s) : s[i].is = "comparison" => i \in 1..Len(t) /\ t[i] = s[i]
    BY <1>4
  <2>2. \A i \in 1..Len(t) : t[i].is \in Tried => i \in 1..Len(s) /\ t[i] = s[i]
    BY <1>4
  <2> QED BY <1>1, <2>1, <2>2 DEF VerdictsOK
<1> QED
  BY <1>2, <1>5, <1>6, <1>8, <1>9 DEF Good

(* What a statement starts from once a rewind has left the bodies above n.   *)
Restored(s, b, n) ==
    LET left == {i \in DOMAIN s : i > n /\ s[i].is = "body"} IN
    IF left = {} THEN b ELSE s[CHOOSE i \in left : \A j \in left : i <= j].base

LEMMA RestoredIsBase ==
    ASSUME NEW s, NEW d, NEW b, NEW r, NestOK(s, d, b, r), NEW n \in 0..Len(s)
    PROVE  BaseIs(s, n, Restored(s, b, n))
<1>1. /\ Len(s) \in Nat /\ DOMAIN s = 1..Len(s) /\ n \in Nat
      /\ BaseIs(s, Len(s), b) /\ \A i \in 1..Len(s) : FrameOK(s, i)
  <2>1. Len(s) \in Nat /\ s \in Seq({s[i] : i \in DOMAIN s})
    BY DEF NestOK, Stack
  <2>2. DOMAIN s = 1..Len(s)
    <3>1. PICK S : S = {s[i] : i \in DOMAIN s}
      OBVIOUS
    <3>2. s \in Seq(S)
      BY <2>1, <3>1
    <3> QED BY <3>2
  <2> QED BY <2>1, <2>2 DEF NestOK
<1>2. PICK left : left = {i \in DOMAIN s : i > n /\ s[i].is = "body"}
  OBVIOUS
<1>3. CASE left = {}
  <2>1. \A i \in (n + 1)..Len(s) : s[i].is # "body"
    <3>1. \A i \in (n + 1)..Len(s) : i \in DOMAIN s /\ i > n
      BY <1>1
    <3> QED BY <1>2, <1>3, <3>1
  <2>2. Restored(s, b, n) = b
    BY <1>2, <1>3 DEF Restored
  <2> QED BY <1>1, <2>1, <2>2, BaseStands
<1>4. CASE left # {}
  <2>1. left \in SUBSET Nat /\ left \subseteq 1..Len(s)
    BY <1>1, <1>2
  <2>2. \E i \in left : \A j \in left : i <= j
    BY <1>4, <2>1, Least
  <2>3. PICK i : i = CHOOSE k \in left : \A j \in left : k <= j
    OBVIOUS
  <2>4. i \in left /\ \A j \in left : i <= j
    BY <2>2, <2>3
  <2>5. i \in 1..Len(s) /\ i > n /\ s[i].is = "body"
    BY <1>1, <1>2, <2>4
  <2>6. Restored(s, b, n) = s[i].base
    BY <1>2, <1>4, <2>3 DEF Restored
  <2>7. PICK m \in Nat : m = i - 1
    BY <2>5
  <2>8. BaseIs(s, m, s[i].base)
    BY <1>1, <2>5, <2>7 DEF FrameOK
  <2>9. \A j \in (n + 1)..m : s[j].is # "body"
    <3> SUFFICES ASSUME NEW j \in (n + 1)..m, s[j].is = "body" PROVE FALSE
      OBVIOUS
    <3>1. j \in 1..Len(s) /\ j > n /\ j < i
      BY <1>1, <2>5, <2>7
    <3>2. j \in left
      BY <1>1, <1>2, <3>1
    <3> QED BY <2>4, <2>5, <3>1, <3>2
  <2>10. n <= m
    BY SMTT(60), <1>1, <2>5, <2>7
  <2> QED BY <1>1, <2>6, <2>7, <2>8, <2>9, <2>10, BaseStands
<1> QED
  BY <1>3, <1>4

(* Back to the checkpoint of speculation n + 1, no comparison being above    *)
(* it; a comparison that ends has its verdict.                               *)
LEMMA BackIsGood ==
    ASSUME text \in Seq(Atoms), NEW s, NEW w, NEW d, NEW b, NEW r, NEW v, NEW c,
           Good(s, w, d, b, r, v, c),
           NEW n \in Nat, n + 1 \in 1..Len(s), s[n + 1].is \in Speculative,
           \A j \in (n + 2)..Len(s) : s[j].is # "comparison",
           NEW cp, cp = s[n + 1].cp,
           NEW u, u = [abandoned |-> u.abandoned, kept |-> u.kept],
           v.abandoned \subseteq u.abandoned, v.kept \subseteq u.kept,
           u.abandoned \subseteq v.abandoned \cup {KeyOf(cp)},
           s[n + 1].is = "comparison" => KeyOf(cp) \in u.kept \cup u.abandoned
    PROVE  /\ Good(SubSeq(s, 1, n), cp.window, cp.depth, Restored(s, b, n), cp.regions, u, c)
           /\ cp.context = ContextAt(s, n)
           /\ \A i \in 1..n : s[i].is \in Speculative => Place(s[i]) < cp.window.current.start
<1>1. WindowOK(w) /\ ReadAll(s) /\ NestOK(s, d, b, r) /\ OrderOK(s, w) /\ VerdictsOK(s, v, c)
  BY DEF Good
<1>2. PICK t : t = SubSeq(s, 1, n)
  OBVIOUS
<1>3. PICK m \in Nat : m = n + 1
  OBVIOUS
<1>4. Len(s) \in Nat /\ m \in 1..Len(s) /\ m - 1 = n /\ n \in 0..Len(s)
  <2>1. Len(s) \in Nat
    BY <1>1 DEF NestOK, Stack
  <2>2. m \in 1..Len(s)
    BY <1>3
  <2> QED BY <1>3, <2>1, <2>2
<1>5. Len(t) = n /\ \A i \in 1..n : t[i] = s[i] /\ i \in 1..Len(s) /\ m \in (i + 1)..Len(s)
  <2>1. Len(t) = n /\ Same(t, s, n)
    BY <1>1, <1>2, <1>4, StackCut DEF NestOK
  <2> QED BY <1>3, <1>4, <2>1 DEF Same
<1>6. cp.depth = DepthAt(s, n) /\ Fits(cp.regions, DepthAt(s, n)) /\ cp.context = ContextAt(s, n)
  <2>1. FrameOK(s, m)
    BY <1>1, <1>4 DEF NestOK
  <2> QED BY <1>3, <1>4, <2>1 DEF FrameOK
<1>7. NestOK(t, cp.depth, Restored(s, b, n), cp.regions)
  <2>1. BaseIs(s, n, Restored(s, b, n))
    BY <1>1, <1>4, RestoredIsBase
  <2> QED BY <1>1, <1>2, <1>4, <1>6, <2>1, NestCut
<1>8. ReadAll(t)
  BY SMTT(60), <1>1, <1>5 DEF ReadAll
<1>9. WindowOK(cp.window) /\ Place(s[m]) = cp.window.current.start
  BY <1>1, <1>3, <1>4 DEF ReadAll, Place
<1>10. \A i \in 1..n : s[i].is \in Speculative => Place(s[i]) < cp.window.current.start
  <2> SUFFICES ASSUME NEW i \in 1..n, s[i].is \in Speculative
               PROVE  Place(s[i]) < cp.window.current.start
    OBVIOUS
  <2>1. i \in 1..Len(s) /\ m \in (i + 1)..Len(s) /\ s[m].is \in Speculative
    BY <1>3, <1>5
  <2> QED BY SMTT(60), <1>1, <1>9, <2>1 DEF OrderOK
<1>11. OrderOK(t, cp.window)
  <2> SUFFICES ASSUME NEW i \in 1..Len(t), t[i].is \in Speculative
               PROVE  /\ \A j \in (i + 1)..Len(t) : t[j].is \in Speculative => Place(t[i]) < Place(t[j])
                      /\ Place(t[i]) < cp.window.current.start
                      /\ t[i].is \in Tried => /\ t[i].cp.window.current.kind \in Less
                                              /\ CanStep(t[i].cp.window)
    BY DEF OrderOK
  <2>1. \A j \in (i + 1)..Len(t) : j \in (i + 1)..Len(s) /\ t[j] = s[j]
    BY SMTT(60), <1>4, <1>5
  <2> QED BY <1>1, <1>5, <1>10, <2>1 DEF OrderOK
<1>12. VerdictsOK(t, u, c)
  <2>1. \A i \in 1..Len(t) : t[i].is \in Tried => Key(t[i]) \notin u.abandoned
    <3> SUFFICES ASSUME NEW i \in 1..Len(t), t[i].is \in Tried PROVE Key(t[i]) \notin u.abandoned
      OBVIOUS
    <3>1. i \in 1..n /\ t[i] = s[i] /\ i \in 1..Len(s) /\ s[i].is \in Speculative
      BY <1>5 DEF Tried, Speculative
    <3>2. Key(s[i]) \notin v.abandoned
      BY <1>1, <3>1 DEF VerdictsOK
    <3>3. Place(s[i]) < cp.window.current.start
      BY <1>10, <3>1
    <3>4. Key(s[i]) # KeyOf(cp)
      <4>1. Place(s[i]) \in Nat
        BY <1>1, <3>1, PlacesAreNatural DEF ReadAll, Place
      <4>2. Place(s[i]) # cp.window.current.start
        BY <3>3, <4>1
      <4> QED BY <4>2 DEF Key, KeyOf, Place
    <3> QED BY SMTT(60), <3>1, <3>2, <3>4
  <2>2. ASSUME NEW k \in c.once
        PROVE  \/ k \in u.kept \cup u.abandoned
               \/ \E i \in 1..Len(t) : t[i].is = "comparison" /\ Key(t[i]) = k
    <3>1. CASE k \in v.kept \cup v.abandoned
      BY <3>1
    <3>2. CASE \E i \in 1..Len(s) : s[i].is = "comparison" /\ Key(s[i]) = k
      <4>1. PICK i \in 1..Len(s) : s[i].is = "comparison" /\ Key(s[i]) = k
        BY <3>2
      <4>2. i \notin (n + 2)..Len(s)
        BY SMTT(60), <4>1
      <4>3. i \in 1..n \/ i = m
        BY SMTT(60), <1>3, <1>4, <4>2
      <4>4. CASE i = m
        BY <1>3, <4>1, <4>4 DEF Key
      <4>5. CASE i \in 1..n
        BY SMTT(60), <1>5, <4>1, <4>5
      <4> QED BY <4>3, <4>4, <4>5
    <3> QED BY <1>1, <2>2, <3>1, <3>2 DEF VerdictsOK
  <2> QED BY <1>1, <2>1, <2>2 DEF VerdictsOK
<1> QED
  BY <1>2, <1>6, <1>7, <1>8, <1>9, <1>10, <1>11, <1>12 DEF Good

(* A speculation is opened from a checkpoint, and read into.                 *)
LEMMA SpeculationIsGood ==
    ASSUME text \in Seq(Atoms), NEW s, NEW w, NEW d, NEW b, NEW r, NEW v, NEW c,
           Good(s, w, d, b, r, v, c),
           \A i \in 1..Len(s) : s[i].is \in Speculative => Place(s[i]) < w.current.start,
           NEW x, x.is \in {"list", "arrowHead", "arrowBody"},
           x.cp.window = w, x.cp.depth = d, x.cp.regions = r, x.cp.context = ContextAt(s, Len(s)),
           x.is = "list" => /\ w.current.kind \in Less /\ CanStep(w)
                            /\ KeyOf(x.cp) \notin v.abandoned,
           NEW y, Onward(w, y), NEW q, Fits(q, d)
    PROVE  Good(Append(s, x), y, d, b, q, v, c)
<1>1. WindowOK(w) /\ ReadAll(s) /\ NestOK(s, d, b, r) /\ OrderOK(s, w) /\ VerdictsOK(s, v, c)
  BY DEF Good
<1>2. PICK t : t = Append(s, x)
  OBVIOUS
<1>3. PICK n : n = Len(s)
  OBVIOUS
<1>4. /\ n \in Nat /\ Len(t) = n + 1 /\ t[n + 1] = x
      /\ \A i \in 1..n : t[i] = s[i] /\ i \in 1..Len(t)
      /\ \A i \in 1..Len(t) : i \in 1..n \/ i = n + 1
  BY <1>1, <1>2, <1>3, PushedParts DEF NestOK
<1>5. x.is \in FrameKinds /\ x.is \notin Groupings /\ x.is # "body" /\ x.is # "comparison"
      /\ (x.is \in Tried => x.is = "list")
  BY DEF FrameKinds, Speculative, Groupings, Tried
<1>6. NestOK(t, d, b, q)
  BY <1>1, <1>2, <1>5, NestPushed
<1>7. ReadAll(t)
  BY <1>1, <1>3, <1>4 DEF ReadAll
<1>8. Place(x) = w.current.start /\ w.current.start < y.current.start /\ WindowOK(y)
      /\ w.current.start \in Nat /\ y.current.start \in Nat
  BY <1>1, PlacesAreNatural DEF Place, Onward
<1>9. \A i \in 1..n : s[i].is \in Speculative => Place(s[i]) < w.current.start /\ Place(s[i]) < y.current.start
  <2> SUFFICES ASSUME NEW i \in 1..n, s[i].is \in Speculative
               PROVE  Place(s[i]) < w.current.start /\ Place(s[i]) < y.current.start
    OBVIOUS
  <2>1. Place(s[i]) \in Nat
    BY <1>1, <1>3, PlacesAreNatural DEF ReadAll, Place
  <2> QED BY <1>3, <1>8, <2>1
<1>10. OrderOK(t, y)
  <2> SUFFICES ASSUME NEW i \in 1..Len(t), t[i].is \in Speculative
               PROVE  /\ \A j \in (i + 1)..Len(t) : t[j].is \in Speculative => Place(t[i]) < Place(t[j])
                      /\ Place(t[i]) < y.current.start
                      /\ t[i].is \in Tried => /\ t[i].cp.window.current.kind \in Less
                                              /\ CanStep(t[i].cp.window)
    BY DEF OrderOK
  <2>1. CASE i \in 1..n
    <3>1. \A j \in (i + 1)..Len(t) : j = n + 1 \/ (j \in (i + 1)..n /\ t[j] = s[j])
      BY <1>4, <2>1
    <3>2. t[i] = s[i] /\ i \in 1..Len(s)
      BY <1>3, <1>4, <2>1
    <3> QED BY <1>1, <1>3, <1>4, <1>8, <1>9, <2>1, <3>1, <3>2 DEF OrderOK
  <2>2. CASE i = n + 1
    <3>1. (i + 1)..Len(t) = {}
      BY <1>4, <2>2
    <3> QED BY <1>4, <1>5, <1>8, <2>2, <3>1
  <2> QED BY <1>4, <2>1, <2>2
<1>11. VerdictsOK(t, v, c)
  <2>1. \A i \in 1..Len(s) : s[i].is = "comparison" => i \in 1..Len(t) /\ t[i] = s[i]
    BY <1>3, <1>4
  <2>2. \A i \in 1..Len(t) : t[i].is \in Tried => Key(t[i]) \notin v.abandoned
    <3> SUFFICES ASSUME NEW i \in 1..Len(t), t[i].is \in Tried PROVE Key(t[i]) \notin v.abandoned
      OBVIOUS
    <3>1. CASE i \in 1..n
      BY <1>1, <1>3, <1>4, <3>1 DEF VerdictsOK
    <3>2. CASE i = n + 1
      BY <1>4, <1>5, <3>2 DEF Key
    <3> QED BY <1>4, <3>1, <3>2
  <2> QED BY SMTT(60), <1>1, <2>1, <2>2 DEF VerdictsOK
<1> QED
  BY <1>2, <1>6, <1>7, <1>8, <1>10, <1>11 DEF Good

(* The comparison is tried at a `<` that has no verdict in its context.      *)
LEMMA ComparisonIsGood ==
    ASSUME text \in Seq(Atoms), NEW s, NEW w, NEW d, NEW b, NEW r, NEW v, NEW c,
           Good(s, w, d, b, r, v, c),
           \A i \in 1..Len(s) : s[i].is \in Speculative => Place(s[i]) < w.current.start,
           NEW x, x.is = "comparison",
           x.cp.window = w, x.cp.depth = d, x.cp.regions = r, x.cp.context = ContextAt(s, Len(s)),
           w.current.kind \in Less, CanStep(w),
           NEW key, key = KeyOf(x.cp), key \notin v.kept, key \notin v.abandoned
    PROVE  Good(Append(s, x), w, d, b, r, v,
                [once |-> c.once \cup {key}, again |-> c.again \cup ({key} \cap c.once)])
<1>1. WindowOK(w) /\ ReadAll(s) /\ NestOK(s, d, b, r) /\ OrderOK(s, w) /\ VerdictsOK(s, v, c)
  BY DEF Good
<1>2. PICK t : t = Append(s, x)
  OBVIOUS
<1>3. PICK n : n = Len(s)
  OBVIOUS
<1>4. /\ n \in Nat /\ Len(t) = n + 1 /\ t[n + 1] = x
      /\ \A i \in 1..n : t[i] = s[i] /\ i \in 1..Len(t)
      /\ \A i \in 1..Len(t) : i \in 1..n \/ i = n + 1
  BY <1>1, <1>2, <1>3, PushedParts DEF NestOK
<1>5. x.is \in FrameKinds /\ x.is \notin Groupings /\ x.is # "body" /\ x.is \in Speculative
  BY DEF FrameKinds, Speculative, Groupings
<1>6. NestOK(t, d, b, r)
  <2>1. Fits(r, d)
    BY <1>1 DEF NestOK
  <2> QED BY <1>1, <1>2, <1>5, <2>1, NestPushed
<1>7. ReadAll(t)
  BY <1>1, <1>3, <1>4 DEF ReadAll
<1>8. PICK lt : lt = w.current.start
  OBVIOUS
<1>9. /\ Place(x) = lt
      /\ \A i \in 1..n : s[i].is \in Speculative => Place(s[i]) < lt /\ Place(s[i]) # lt
  <2>1. Place(x) = lt /\ lt \in Nat
    BY <1>1, <1>8, PlacesAreNatural DEF Place
  <2> SUFFICES ASSUME NEW i \in 1..n, s[i].is \in Speculative
               PROVE  Place(s[i]) < lt /\ Place(s[i]) # lt
    BY <2>1
  <2>2. Place(s[i]) \in Nat
    BY <1>1, <1>3, PlacesAreNatural DEF ReadAll, Place
  <2> QED BY <1>3, <1>8, <2>1, <2>2
<1>10. OrderOK(t, w)
  <2> SUFFICES ASSUME NEW i \in 1..Len(t), t[i].is \in Speculative
               PROVE  /\ \A j \in (i + 1)..Len(t) : t[j].is \in Speculative => Place(t[i]) < Place(t[j])
                      /\ \/ Place(t[i]) < w.current.start
                         \/ /\ t[i].is = "comparison" /\ i = Len(t)
                            /\ w.current = t[i].cp.window.current
                      /\ t[i].is \in Tried => /\ t[i].cp.window.current.kind \in Less
                                              /\ CanStep(t[i].cp.window)
    BY DEF OrderOK
  <2>1. CASE i \in 1..n
    <3>1. \A j \in (i + 1)..Len(t) : j = n + 1 \/ (j \in (i + 1)..n /\ t[j] = s[j])
      BY <1>4, <2>1
    <3>2. t[i] = s[i] /\ i \in 1..Len(s)
      BY <1>3, <1>4, <2>1
    <3> QED BY <1>1, <1>3, <1>4, <1>8, <1>9, <2>1, <3>1, <3>2 DEF OrderOK
  <2>2. CASE i = n + 1
    <3>1. (i + 1)..Len(t) = {}
      BY <1>4, <2>2
    <3> QED BY <1>4, <1>5, <1>8, <2>2, <3>1
  <2> QED BY <1>4, <2>1, <2>2
<1>11. /\ c = [once |-> c.once, again |-> {}]
       /\ v = [abandoned |-> v.abandoned, kept |-> v.kept]
  BY <1>1 DEF VerdictsOK
<1>12. key \notin c.once
  <2> SUFFICES ASSUME key \in c.once PROVE FALSE
    OBVIOUS
  <2>1. \E i \in 1..Len(s) : s[i].is = "comparison" /\ Key(s[i]) = key
    BY <1>1 DEF VerdictsOK
  <2>2. PICK i \in 1..n : s[i].is = "comparison" /\ Key(s[i]) = key
    BY <1>3, <2>1
  <2>3. Place(s[i]) = lt
    BY <1>8, <2>2 DEF Key, KeyOf, Place
  <2>4. s[i].is \in Speculative
    BY <2>2 DEF Speculative
  <2> QED BY <1>9, <2>3, <2>4
<1>13. PICK e : e = [once |-> c.once \cup {key}, again |-> c.again \cup ({key} \cap c.once)]
  OBVIOUS
<1>14. e = [once |-> e.once, again |-> {}] /\ e.once = c.once \cup {key}
  <2>1. c.again = {} /\ {key} \cap c.once = {}
    BY <1>11, <1>12
  <2> QED BY <1>13, <2>1
<1>15. VerdictsOK(t, v, e)
  <2>1. ASSUME NEW k \in e.once
        PROVE  \/ k \in v.kept \cup v.abandoned
               \/ \E i \in 1..Len(t) : t[i].is = "comparison" /\ Key(t[i]) = k
    <3>1. CASE k = key
      <4>1. n + 1 \in 1..Len(t) /\ t[n + 1].is = "comparison" /\ Key(t[n + 1]) = key
        BY <1>4 DEF Key
      <4> QED BY <3>1, <4>1
    <3>2. CASE k \in c.once
      <4>1. \A i \in 1..Len(s) : i \in 1..Len(t) /\ t[i] = s[i]
        BY <1>3, <1>4
      <4> QED BY <1>1, <3>2, <4>1 DEF VerdictsOK
    <3> QED BY <1>14, <2>1, <3>1, <3>2
  <2>2. \A i \in 1..Len(t) : t[i].is \in Tried => Key(t[i]) \notin v.abandoned
    <3> SUFFICES ASSUME NEW i \in 1..Len(t), t[i].is \in Tried PROVE Key(t[i]) \notin v.abandoned
      OBVIOUS
    <3>1. CASE i \in 1..n
      BY <1>1, <1>3, <1>4, <3>1 DEF VerdictsOK
    <3>2. CASE i = n + 1
      BY <1>4, <3>2 DEF Key
    <3> QED BY <1>4, <3>1, <3>2
  <2> QED BY <1>11, <1>14, <2>1, <2>2 DEF VerdictsOK
<1> QED
  BY <1>1, <1>2, <1>6, <1>7, <1>10, <1>13, <1>15 DEF Good

---------------------------------------------------------------------------
(* Each step *)

LEMMA InitIsGood == Init => ParseInv
<1> SUFFICES ASSUME Init PROVE ParseInv
  OBVIOUS
<1>1. text \in Seq(Atoms)
  BY TextsAssumption DEF Init
<1>2. Len(text) \in Nat /\ 1 \in 1..Past
  BY <1>1 DEF Past
<1>3. PICK f : f = Fetch(1)
  OBVIOUS
<1>4. ~f.bad /\ window = [current |-> f.token, peek |-> NoToken, prevEnd |-> 1, broken |-> FALSE,
                        peekBroken |-> FALSE, error |-> FALSE, cursor |-> f.cursor]
  BY <1>3 DEF Init
<1>5. f.token \in Tokens /\ f.cursor \in Nat
  BY <1>1, <1>2, <1>3, FetchIsTyped
<1>6. window \in Windows
  BY <1>4, <1>5 DEF Windows
<1>7. Reads
  <2>1. PICK v : v = [window EXCEPT !.broken = f.broken]
    OBVIOUS
  <2>2. f.broken \in BOOLEAN
    BY <1>1, <1>2, <1>3, FetchIsTyped
  <2>3. v \in Windows /\ v.current = f.token /\ v.prevEnd = 1 /\ v.broken = f.broken
        /\ v.cursor = f.cursor /\ v.peek = NoToken /\ ~v.error
    BY <1>4, <1>6, <2>1, <2>2 DEF Windows
  <2>4. WindowOK(v)
    BY <1>1, <1>2, <1>3, <1>4, <2>3, FetchedWindow
  <2>5. WindowOK(window)
    BY <1>4, <1>6, <2>3, <2>4 DEF WindowOK
  <2> QED BY <2>5 DEF Reads
<1>8. Len(frames) = 0 /\ 1..Len(frames) = {} /\ Stack(frames)
  <2>1. PICK e : e = <<>>
    OBVIOUS
  <2>2. e \in Seq(Nat) /\ Len(e) = 0
    BY <2>1
  <2>3. frames = e
    BY <2>1 DEF Init
  <2>4. Stack(e)
    BY <2>2, SequencesStack
  <2>5. 1..Len(e) = {}
    BY <2>2
  <2> QED BY <2>2, <2>3, <2>4, <2>5
<1>9. FramesRead
  BY <1>8 DEF FramesRead
<1>10. Nested
  <2>1. Grouped(frames, 0) = {}
    BY DEF Grouped
  <2>2. DepthAt(frames, 0) = 0
    BY <2>1, FS_EmptySet DEF DepthAt
  <2>3. Fits(NoRegions, 0)
    BY NothingFits
  <2>4. depth = 0 /\ base = NoRegions /\ regions = NoRegions
    BY DEF Init
  <2> QED BY <1>8, <2>2, <2>3, <2>4 DEF Nested, NestOK, BaseIs
<1>11. InOrder
  BY <1>8 DEF InOrder, OrderOK
<1>12. Judged
  <2>1. verdicts = [abandoned |-> {}, kept |-> {}] /\ compared = [once |-> {}, again |-> {}]
    BY DEF Init
  <2> QED BY <1>2, <1>8, <2>1 DEF Judged, VerdictsOK
<1> QED
  BY <1>1, <1>7, <1>9, <1>10, <1>11, <1>12 DEF ParseInv

LEMMA LessIsRead ==
    ASSUME OpensLess
    PROVE  Kind # <<>> /\ window.current.kind \in Less
<1>1. Kind = <<"<">> \/ Kind = <<"<", "<">>
  BY DEF OpensLess
<1>2. Kind # <<>>
  <2>1. CASE Kind = <<"<">>
    BY <2>1
  <2>2. CASE Kind = <<"<", "<">>
    <3>1. Len(Kind) = 2
      BY <2>2
    <3>2. PICK e : e = <<>>
      OBVIOUS
    <3>3. Len(e) = 0
      BY <3>2
    <3> QED BY <3>1, <3>2, <3>3
  <2> QED BY <1>1, <2>1, <2>2
<1> QED
  BY <1>1, <1>2 DEF Less, Kind

LEMMA CurrentIsRead ==
    ASSUME ParseInv, Kind # <<>>
    PROVE  window.current.start < Past /\ At \in Nat \ {0} /\ TokenOK(window.current)
<1>1. TokenOK(window.current) /\ text \in Seq(Atoms)
  BY GoodNow DEF Good, WindowOK
<1> QED
  BY <1>1, TokenHasText DEF Kind, At

(* A step over the current token. *)
LEMMA TakeIsOnward ==
    ASSUME ParseInv, Kind # <<>>, NEW ledger, Advanced(window, ledger).ok
    PROVE  Onward(window, Advanced(window, ledger).window)
<1>1. window.current.start < Past /\ WindowOK(window) /\ text \in Seq(Atoms)
  BY CurrentIsRead, GoodNow DEF Good
<1> QED
  BY <1>1, AdvancedIsOnward

LEMMA RegionsFit == ASSUME ParseInv PROVE Fits(regions, depth) /\ depth \in Nat
<1>1. NestOK(frames, depth, base, regions)
  BY GoodNow DEF Good
<1>2. depth = DepthAt(frames, Len(frames)) /\ Len(frames) \in Nat /\ Fits(regions, depth)
  BY <1>1 DEF NestOK, Stack
<1> QED
  BY <1>2, DepthIsNatural

(* A step that reads on, opening and closing nothing.                        *)
LEMMA StepStays ==
    ASSUME ParseInv, text' = text, WindowOK(window'),
           Onward(window, window') \/ window'.current = window.current,
           Fits(regions', depth),
           UNCHANGED <<depth, base, frames, verdicts, compared>>
    PROVE  ParseInv'
<1>1. text \in Seq(Atoms) /\ Good(frames, window, depth, base, regions, verdicts, compared)
  BY GoodNow
<1>2. PICK x, q : x = window' /\ q = regions'
  OBVIOUS
<1>3. Good(frames, x, depth, base, q, verdicts, compared)
  BY <1>1, <1>2, StaysGood
<1>4. /\ frames' = frames /\ depth' = depth /\ base' = base
      /\ verdicts' = verdicts /\ compared' = compared
  OBVIOUS
<1>5. Good(frames', window', depth', base', regions', verdicts', compared')
  BY <1>2, <1>3, <1>4
<1> QED
  BY <1>1, <1>5, GoodNext

LEMMA PeekKeeps == ParseInv /\ Peek => ParseInv'
<1> SUFFICES ASSUME ParseInv, Peek PROVE ParseInv'
  OBVIOUS
<1>1. text \in Seq(Atoms) /\ WindowOK(window)
  BY GoodNow DEF Good
<1>2. PICK w : w = window
  OBVIOUS
<1>3. w \in Windows /\ TokenOK(w.current) /\ WindowOK(w)
  BY <1>1, <1>2 DEF WindowOK
<1>4. PICK e : e = w.current.end
  OBVIOUS
<1>5. e \in 1..Past
  BY <1>1, <1>3, <1>4, TokenHasText
<1>6. w.peek = NoToken /\ ~w.error /\ w.cursor = e /\ w.current.kind # <<"/">>
  BY <1>2, <1>3, <1>4 DEF Peek, Kind, WindowOK
<1>7. PICK f : f = Fetch(e)
  OBVIOUS
<1>8. PICK v : v = window'
  OBVIOUS
<1>9. v = [w EXCEPT !.peek = IF f.bad THEN NoToken ELSE f.token, !.error = f.bad,
                    !.peekBroken = f.broken, !.cursor = f.cursor]
  BY <1>2, <1>6, <1>7, <1>8 DEF Peek
<1>10. f.token \in Tokens /\ f.token # NoToken /\ f.broken \in BOOLEAN /\ f.cursor \in Nat
       /\ f.bad \in BOOLEAN
  BY <1>1, <1>5, <1>7, FetchIsTyped
<1>11. WindowOK(v) /\ v.current = w.current
  <2>1. CASE f.bad
    <3>1. v = [w EXCEPT !.error = TRUE, !.peekBroken = f.broken, !.cursor = f.cursor]
      BY <1>3, <1>6, <1>9, <1>10, <2>1 DEF Windows
    <3>2. /\ v \in Windows /\ v.current = w.current /\ v.prevEnd = w.prevEnd
          /\ v.broken = w.broken /\ v.peek = NoToken /\ v.error
      BY <1>3, <1>6, <1>10, <3>1 DEF Windows
    <3> QED BY <1>3, <1>4, <1>6, <1>7, <2>1, <3>2 DEF WindowOK
  <2>2. CASE ~f.bad
    <3>1. v = [w EXCEPT !.peek = f.token, !.peekBroken = f.broken, !.cursor = f.cursor]
      BY <1>3, <1>6, <1>9, <1>10, <2>2 DEF Windows
    <3>2. /\ v \in Windows /\ v.current = w.current /\ v.prevEnd = w.prevEnd
          /\ v.broken = w.broken /\ v.peek = f.token /\ ~v.error
          /\ v.peekBroken = f.broken /\ v.cursor = f.cursor
      BY <1>3, <1>6, <1>10, <3>1 DEF Windows
    <3> QED BY <1>3, <1>4, <1>6, <1>7, <1>10, <2>2, <3>2 DEF WindowOK
  <2> QED BY <2>1, <2>2
<1>12. /\ UNCHANGED <<depth, base, frames, verdicts, compared>>
       /\ text' = text /\ regions' = regions
  BY DEF Peek
<1> QED
  BY <1>2, <1>8, <1>11, <1>12, RegionsFit, StepStays

LEMMA ReadKeeps == ParseInv /\ Read => ParseInv'
<1> SUFFICES ASSUME ParseInv, Read PROVE ParseInv'
  OBVIOUS
<1>1. Kind # <<>>
  <2>1. <<>> \notin Operators
    BY DEF Operators
  <2>2. <<>> \notin Plain
    BY <2>1 DEF Plain
  <2> QED BY <2>2 DEF Read
<1>2. Onward(window, window')
  BY <1>1, TakeIsOnward DEF Read, Take
<1>3. /\ UNCHANGED <<depth, base, frames, verdicts, compared>>
      /\ text' = text /\ regions' = regions
  BY DEF Read
<1> QED
  BY <1>2, <1>3, RegionsFit, StepStays DEF Onward

LEMMA LeafKeeps == ParseInv /\ Leaf => ParseInv'
<1> SUFFICES ASSUME ParseInv, Leaf PROVE ParseInv'
  OBVIOUS
<1>1. Kind # <<>>
  BY DEF Leaf
<1>2. Onward(window, window')
  BY <1>1, TakeIsOnward DEF Leaf
<1>3. /\ UNCHANGED <<depth, base, frames, verdicts, compared>>
      /\ text' = text /\ regions' = regions
  BY DEF Leaf
<1> QED
  BY <1>2, <1>3, RegionsFit, StepStays DEF Onward

LEMMA RelexRegexKeeps == ParseInv /\ RelexRegex => ParseInv'
<1> SUFFICES ASSUME ParseInv, RelexRegex PROVE ParseInv'
  OBVIOUS
<1>1. text \in Seq(Atoms) /\ WindowOK(window)
  BY GoodNow DEF Good
<1>2. PICK w : w = window
  OBVIOUS
<1>3. PICK v : v = window'
  OBVIOUS
<1>4. PICK close \in (At + 2)..Len(text) :
          LET f == Fetch(close + 1) IN
              /\ ~f.bad
              /\ window' = [window EXCEPT !.current = f.token, !.prevEnd = close + 1,
                                          !.broken = f.broken, !.cursor = f.cursor]
  BY DEF RelexRegex
<1>5. At \in Nat \ {0} /\ TokenOK(window.current)
  BY CurrentIsRead DEF RelexRegex
<1>6. PICK e \in Nat : e = close + 1
  BY <1>5
<1>7. e \in 1..Past /\ At < e
  BY <1>5, <1>6 DEF Past
<1>8. PICK f : f = Fetch(e)
  OBVIOUS
<1>9. ~f.bad /\ v = [w EXCEPT !.current = f.token, !.prevEnd = e, !.broken = f.broken,
                              !.cursor = f.cursor]
  BY <1>2, <1>3, <1>4, <1>6, <1>8
<1>10. f.token \in Tokens /\ f.broken \in BOOLEAN /\ f.cursor \in Nat
  BY <1>1, <1>7, <1>8, FetchIsTyped
<1>11. w \in Windows /\ w.peek = NoToken /\ ~w.error
  BY <1>1, <1>2 DEF WindowOK, RelexRegex, Kind
<1>12. /\ v \in Windows /\ v.current = f.token /\ v.prevEnd = e /\ v.broken = f.broken
       /\ v.cursor = f.cursor /\ v.peek = NoToken /\ ~v.error
  BY <1>6, <1>9, <1>10, <1>11 DEF Windows
<1>13. WindowOK(v) /\ v.current.start >= e
  BY <1>1, <1>7, <1>8, <1>9, <1>12, FetchedWindow
<1>14. Onward(window, window')
  <2>1. v.current.start \in Nat
    BY <1>1, <1>13, PlacesAreNatural
  <2> QED BY SMTT(60), <1>3, <1>5, <1>6, <1>7, <1>13, <2>1 DEF Onward, At
<1>15. /\ UNCHANGED <<depth, base, frames, verdicts, compared>>
       /\ text' = text /\ regions' = regions
  BY DEF RelexRegex
<1> QED
  BY <1>14, <1>15, RegionsFit, StepStays DEF Onward

LEMMA CompareKeeps == ParseInv /\ Compare => ParseInv'
<1> SUFFICES ASSUME ParseInv, Compare PROVE ParseInv'
  OBVIOUS
<1>1. Kind # <<>>
  BY LessIsRead DEF Compare
<1>2. Onward(window, window')
  BY <1>1, TakeIsOnward DEF Compare, Take
<1>3. At \in Nat /\ depth \in Nat /\ Fits(regions, depth)
  BY <1>1, CurrentIsRead, RegionsFit
<1>4. PICK region : region = [floor |-> depth, lt |-> At]
  OBVIOUS
<1> DEFINE once(r) == [tracked |-> Opened(r.tracked, region), all |-> Append(r.all, region)]
<1>5. \A r : Fits(r, depth) => Fits(once(r), depth)
  BY <1>3, <1>4, OpenedFits
<1>6. regions' = once(regions) \/ regions' = once(once(regions))
  BY <1>4 DEF Compare
<1> HIDE DEF once
<1>7. Fits(regions', depth)
  BY <1>3, <1>5, <1>6
<1>8. UNCHANGED <<depth, base, frames, verdicts, compared>> /\ text' = text
  BY DEF Compare
<1> QED
  BY <1>2, <1>7, <1>8, StepStays DEF Onward

LEMMA EndStatementKeeps == ParseInv /\ EndStatement => ParseInv'
<1> SUFFICES ASSUME ParseInv, EndStatement PROVE ParseInv'
  OBVIOUS
<1>1. Kind # <<>>
  BY DEF EndStatement
<1>2. Onward(window, window')
  BY <1>1, TakeIsOnward DEF EndStatement, Take
<1>3. Fits(base, depth)
  BY GoodNow, BaseFits DEF Good
<1>4. /\ UNCHANGED <<depth, base, frames, verdicts, compared>>
      /\ text' = text /\ regions' = base
  BY DEF EndStatement
<1> QED
  BY <1>2, <1>3, <1>4, StepStays DEF Onward

(* A step over the current token that opens a construct.                     *)
LEMMA StepOpens ==
    ASSUME ParseInv, text' = text, Onward(window, window'),
           NEW x, frames' = Append(frames, x), x.is \in FrameKinds \ Speculative,
           x.is = "body" => x.base = base /\ x.regions = regions,
           depth' = (IF x.is \in Groupings THEN depth + 1 ELSE depth),
           base' = (IF x.is = "body" THEN regions ELSE base),
           UNCHANGED <<regions, verdicts, compared>>
    PROVE  ParseInv'
<1>1. text \in Seq(Atoms) /\ Good(frames, window, depth, base, regions, verdicts, compared)
  BY GoodNow
<1>2. PICK y, e, k : y = window' /\ e = depth' /\ k = base'
  OBVIOUS
<1>3. Good(Append(frames, x), y, e, k, regions, verdicts, compared)
  <2>1. WindowOK(y) /\ \A i \in 1..Len(frames) :
            frames[i].is \in Speculative => Place(frames[i]) < y.current.start
    BY <1>1, <1>2, PlacesBehind DEF Good, Onward
  <2> QED BY <1>1, <1>2, <2>1, OpenedIsGood
<1>4. verdicts' = verdicts /\ compared' = compared /\ regions' = regions
  OBVIOUS
<1>5. Good(frames', window', depth', base', regions', verdicts', compared')
  BY <1>2, <1>3, <1>4
<1> QED
  BY <1>1, <1>5, GoodNext

(* The construct open last, as the invariant knows it.                       *)
LEMMA TopStands ==
    ASSUME ParseInv, Top.is # "program"
    PROVE  \E n \in Nat :
              /\ Len(frames) = n + 1 /\ frames[n + 1] = Top /\ Outer = SubSeq(frames, 1, n)
              /\ FrameOK(frames, n + 1)
              /\ depth = IF Top.is \in Groupings THEN DepthAt(frames, n) + 1 ELSE DepthAt(frames, n)
              /\ DepthAt(frames, n) \in Nat
              /\ BaseIs(frames, n, IF Top.is = "body" THEN Top.base ELSE base)
<1>1. NestOK(frames, depth, base, regions)
  BY GoodNow DEF Good
<1>2. /\ Len(frames) \in Nat /\ Stack(frames) /\ depth = DepthAt(frames, Len(frames))
      /\ BaseIs(frames, Len(frames), base) /\ \A i \in 1..Len(frames) : FrameOK(frames, i)
  BY <1>1 DEF NestOK, Stack
<1>3. frames # <<>>
  BY DEF Top, Program
<1>4. Top = frames[Len(frames)]
  BY <1>3 DEF Top
<1>5. Len(frames) # 0
  <2>1. PICK S : S = {frames[i] : i \in DOMAIN frames}
    OBVIOUS
  <2>2. frames \in Seq(S)
    BY <1>2, <2>1 DEF Stack
  <2> QED BY <1>3, <2>2
<1>6. PICK m \in Nat \ {0} : m = Len(frames)
  BY <1>2, <1>5
<1>7. PICK n \in Nat : n = m - 1
  OBVIOUS
<1>8. m = n + 1 /\ Outer = SubSeq(frames, 1, n) /\ n <= m /\ m \in 1..Len(frames)
  BY <1>6, <1>7 DEF Outer
<1>9. FrameOK(frames, m) /\ Top = frames[m]
  BY <1>2, <1>4, <1>6, <1>8
<1>10. /\ depth = IF Top.is \in Groupings THEN DepthAt(frames, n) + 1 ELSE DepthAt(frames, n)
       /\ DepthAt(frames, n) \in Nat
  BY <1>2, <1>6, <1>7, <1>9, DepthNext, DepthIsNatural
<1>11. BaseIs(frames, n, IF Top.is = "body" THEN Top.base ELSE base)
  <2>1. CASE Top.is = "body"
    BY <1>7, <1>9, <2>1 DEF FrameOK
  <2>2. CASE Top.is # "body"
    <3>1. \A i \in (n + 1)..m : frames[i].is # "body"
      <4>1. \A i \in (n + 1)..m : i = m
        BY <1>7
      <4> QED BY <1>9, <2>2, <4>1
    <3>2. BaseIs(frames, n, base)
      BY <1>2, <1>6, <1>8, <3>1, BaseStands
    <3> QED BY <2>2, <3>2
  <2> QED BY <2>1, <2>2
<1> QED
  BY <1>6, <1>8, <1>9, <1>10, <1>11

(* A step that closes the construct open last.                               *)
LEMMA StepCloses ==
    ASSUME ParseInv, text' = text, WindowOK(window'),
           Onward(window, window') \/ window' = window,
           Top.is \notin {"program", "comparison"}, frames' = Outer,
           depth' = (IF Top.is \in Groupings THEN depth - 1 ELSE depth),
           base' = (IF Top.is = "body" THEN Top.base ELSE base),
           Fits(regions', depth'),
           UNCHANGED <<verdicts, compared>>
    PROVE  ParseInv'
<1>1. text \in Seq(Atoms) /\ Good(frames, window, depth, base, regions, verdicts, compared)
  BY GoodNow
<1>2. PICK n \in Nat :
              /\ Len(frames) = n + 1 /\ frames[n + 1] = Top /\ Outer = SubSeq(frames, 1, n)
              /\ depth = IF Top.is \in Groupings THEN DepthAt(frames, n) + 1 ELSE DepthAt(frames, n)
              /\ DepthAt(frames, n) \in Nat
              /\ BaseIs(frames, n, IF Top.is = "body" THEN Top.base ELSE base)
  BY TopStands
<1>3. PICK y, e, k, q : y = window' /\ e = depth' /\ k = base' /\ q = regions'
  OBVIOUS
<1>4. e = DepthAt(frames, n)
  BY <1>2, <1>3
<1>5. Good(SubSeq(frames, 1, n), y, e, k, q, verdicts, compared)
  <2>1. BaseIs(frames, n, k) /\ Fits(q, DepthAt(frames, n))
    BY <1>2, <1>3, <1>4
  <2>2. frames[n + 1].is # "comparison" /\ WindowOK(y) /\ (Onward(window, y) \/ y = window)
    BY <1>2, <1>3
  <2> QED BY <1>1, <1>2, <1>4, <2>1, <2>2, ClosedIsGood
<1>6. verdicts' = verdicts /\ compared' = compared
  OBVIOUS
<1>7. Good(frames', window', depth', base', regions', verdicts', compared')
  BY <1>2, <1>3, <1>5, <1>6
<1> QED
  BY <1>1, <1>7, GoodNext

LEMMA EnterBodyKeeps == ParseInv /\ EnterBody => ParseInv'
<1> SUFFICES ASSUME ParseInv, EnterBody PROVE ParseInv'
  OBVIOUS
<1>1. Kind # <<>>
  BY DEF EnterBody
<1>2. Onward(window, window')
  BY <1>1, TakeIsOnward DEF EnterBody, Take
<1>3. PICK context \in Contexts : frames' = Pushed(Body(context))
  BY DEF EnterBody
<1>6. PICK x : x = Body(context)
  OBVIOUS
<1>4. x.is = "body" /\ x.base = base /\ x.regions = regions
  BY <1>6 DEF Body
<1>5. /\ x.is \in FrameKinds \ Speculative /\ x.is \notin Groupings
      /\ frames' = Append(frames, x) /\ depth' = depth /\ base' = regions
      /\ UNCHANGED <<text, regions, verdicts, compared>>
  BY <1>3, <1>4, <1>6 DEF EnterBody, Pushed, FrameKinds, Speculative, Groupings
<1> QED
  BY <1>2, <1>4, <1>5, StepOpens

LEMMA ExitBodyKeeps == ParseInv /\ ExitBody => ParseInv'
<1> SUFFICES ASSUME ParseInv, ExitBody PROVE ParseInv'
  OBVIOUS
<1>1. Kind # <<>> /\ Top.is = "body"
  BY DEF ExitBody, Within
<1>2. Onward(window, window')
  BY <1>1, TakeIsOnward DEF ExitBody, Take
<1>3. /\ frames' = Outer /\ depth' = depth /\ base' = Top.base /\ regions' = Top.regions
      /\ UNCHANGED <<text, verdicts, compared>>
  BY DEF ExitBody
<1>4. Fits(Top.regions, depth)
  <2>1. PICK n \in Nat :
              /\ frames[n + 1] = Top /\ FrameOK(frames, n + 1)
              /\ depth = IF Top.is \in Groupings THEN DepthAt(frames, n) + 1 ELSE DepthAt(frames, n)
    BY <1>1, TopStands
  <2>2. n + 1 - 1 = n /\ "body" \notin Groupings
    BY DEF Groupings
  <2> QED BY <1>1, <2>1, <2>2 DEF FrameOK
<1>5. "body" \notin Groupings
  BY DEF Groupings
<1> QED
  BY <1>1, <1>2, <1>3, <1>4, <1>5, StepCloses DEF Onward

LEMMA OpenGroupingKeeps == ParseInv /\ OpenGrouping => ParseInv'
<1> SUFFICES ASSUME ParseInv, OpenGrouping PROVE ParseInv'
  OBVIOUS
<1>1. Kind # <<>>
  BY DEF OpenGrouping
<1>2. Onward(window, window')
  BY <1>1, TakeIsOnward DEF OpenGrouping, Take
<1>3. PICK x : frames' = Append(frames, x) /\ x.is \in {"paren", "delimiter"}
  BY DEF OpenGrouping, Pushed, Grouping
<1>4. x.is \in FrameKinds \ Speculative /\ x.is \in Groupings /\ x.is # "body"
  BY <1>3 DEF FrameKinds, Speculative, Groupings
<1>5. depth' = depth + 1 /\ UNCHANGED <<text, regions, base, verdicts, compared>>
  BY DEF OpenGrouping
<1> QED
  BY <1>2, <1>3, <1>4, <1>5, StepOpens

LEMMA ClosedDepth ==
    ASSUME ParseInv, Top.is \in Groupings
    PROVE  depth - 1 \in Nat
<1>1. Top.is # "program"
  BY DEF Groupings
<1>2. PICK n \in Nat :
              /\ depth = IF Top.is \in Groupings THEN DepthAt(frames, n) + 1 ELSE DepthAt(frames, n)
              /\ DepthAt(frames, n) \in Nat
  BY <1>1, TopStands
<1> QED
  BY <1>2

LEMMA CloseGroupingKeeps == ParseInv /\ CloseGrouping => ParseInv'
<1> SUFFICES ASSUME ParseInv, CloseGrouping PROVE ParseInv'
  OBVIOUS
<1>1. Kind # <<>>
  BY DEF CloseGrouping
<1>2. Onward(window, window')
  BY <1>1, TakeIsOnward DEF CloseGrouping, Take
<1>3. Top.is \in {"delimiter", "parameters"}
  BY DEF CloseGrouping, Within
<1>4. Top.is \in Groupings /\ Top.is \notin {"program", "comparison", "body"}
  BY <1>3 DEF Groupings
<1>5. depth - 1 \in Nat /\ Fits(regions, depth) /\ depth \in Nat
  BY <1>4, ClosedDepth, RegionsFit
<1>6. Fits(regions', depth - 1)
  BY <1>5, ClosedFits DEF CloseGrouping, RegionsClosedAbove
<1>7. frames' = Outer /\ depth' = depth - 1 /\ base' = base /\ UNCHANGED <<text, verdicts, compared>>
  BY DEF CloseGrouping
<1> QED
  BY <1>2, <1>4, <1>6, <1>7, StepCloses DEF Onward

LEMMA CloseParenKeeps == ParseInv /\ CloseParen => ParseInv'
<1> SUFFICES ASSUME ParseInv, CloseParen PROVE ParseInv'
  OBVIOUS
<1>1. Kind # <<>>
  BY DEF CloseParen
<1>2. Onward(window, window')
  BY <1>1, TakeIsOnward DEF CloseParen
<1>3. Top.is = "paren"
  BY DEF CloseParen, Within
<1>4. Top.is \in Groupings /\ Top.is \notin {"program", "comparison", "body"}
  BY <1>3 DEF Groupings
<1>5. depth - 1 \in Nat /\ Fits(regions, depth) /\ depth \in Nat
  BY <1>4, ClosedDepth, RegionsFit
<1>6. Fits(regions', depth - 1)
  BY <1>5, ReanchoredFits DEF CloseParen, RegionsReanchoredAbove
<1>7. frames' = Outer /\ depth' = depth - 1 /\ base' = base /\ UNCHANGED <<text, verdicts, compared>>
  BY DEF CloseParen
<1> QED
  BY <1>2, <1>4, <1>6, <1>7, StepCloses DEF Onward

(* A split of the current token is a step over some of it.                   *)
LEMMA LessIsOnward ==
    ASSUME ParseInv, OpensLess, NEW ledger, LessSplit(window, ledger).ok
    PROVE  Onward(window, LessSplit(window, ledger).window)
BY GoodNow, LessIsRead, LessSplitIsOnward DEF Good

LEMMA GreaterIsOnward ==
    ASSUME ParseInv, LeadsGreater, NEW ledger, GreaterSplit(window, ledger).ok
    PROVE  Onward(window, GreaterSplit(window, ledger).window)
<1>1. window.current.kind # <<>> /\ Head(window.current.kind) = ">"
  BY DEF LeadsGreater, Kind
<1> QED
  BY <1>1, GoodNow, GreaterSplitIsOnward DEF Good

LEMMA OpenTypeArgumentsKeeps == ParseInv /\ OpenTypeArguments => ParseInv'
<1> SUFFICES ASSUME ParseInv, OpenTypeArguments PROVE ParseInv'
  OBVIOUS
<1>1. Onward(window, window')
  BY LessIsOnward DEF OpenTypeArguments, Take
<1>2. PICK x : frames' = Append(frames, x) /\ x.is = "typeArguments"
  BY DEF OpenTypeArguments, Pushed, Grouping
<1>3. x.is \in FrameKinds \ Speculative /\ x.is \notin Groupings /\ x.is # "body"
  BY <1>2 DEF FrameKinds, Speculative, Groupings
<1>4. UNCHANGED <<text, depth, regions, base, verdicts, compared>>
  BY DEF OpenTypeArguments
<1> QED
  BY <1>1, <1>2, <1>3, <1>4, StepOpens

LEMMA CloseTypeArgumentsKeeps == ParseInv /\ CloseTypeArguments => ParseInv'
<1> SUFFICES ASSUME ParseInv, CloseTypeArguments PROVE ParseInv'
  OBVIOUS
<1>1. Onward(window, window')
  BY GreaterIsOnward DEF CloseTypeArguments, Take
<1>2. Top.is = "typeArguments"
  BY DEF CloseTypeArguments, Within
<1>3. Top.is \notin Groupings /\ Top.is \notin {"program", "comparison", "body"}
  BY <1>2 DEF Groupings
<1>4. frames' = Outer /\ UNCHANGED <<text, depth, regions, base, verdicts, compared>>
  BY DEF CloseTypeArguments
<1> QED
  BY <1>1, <1>3, <1>4, RegionsFit, StepCloses DEF Onward

---------------------------------------------------------------------------
(* Speculation's steps *)

LEMMA FramesStack ==
    ASSUME ParseInv
    PROVE  Len(frames) \in Nat /\ DOMAIN frames = 1..Len(frames) /\ Stack(frames)
<1>1. Stack(frames)
  BY GoodNow DEF Good, NestOK
<1>2. PICK S : S = {frames[i] : i \in DOMAIN frames}
  OBVIOUS
<1>3. frames \in Seq(S)
  BY <1>1, <1>2 DEF Stack
<1> QED
  BY <1>1, <1>3

(* Nothing is being tried at the current token. *)
LEMMA AllBehind ==
    ASSUME ParseInv,
           \/ window.current.kind \notin Less
           \/ Top.is = "comparison" => Top.cp.window.current.start # At
    PROVE  \A i \in 1..Len(frames) :
              frames[i].is \in Speculative => Place(frames[i]) < window.current.start
<1>1. OrderOK(frames, window) /\ Len(frames) \in Nat
  BY GoodNow, FramesStack DEF Good
<1>2. SUFFICES ASSUME NEW i \in 1..Len(frames), frames[i].is = "comparison", i = Len(frames),
                      window.current = frames[i].cp.window.current,
                      frames[i].cp.window.current.kind \in Less
               PROVE  FALSE
  BY <1>1 DEF OrderOK, Tried
<1>3. Top = frames[i]
  <2>1. frames # <<>>
    <3>1. PICK e : e = <<>>
      OBVIOUS
    <3>2. Len(e) = 0
      BY <3>1
    <3>3. Len(frames) # 0
      BY <1>2
    <3> QED BY <3>1, <3>2, <3>3
  <2> QED BY <1>2, <2>1 DEF Top
<1> QED
  BY <1>2, <1>3 DEF At

LEMMA StackTwice ==
    ASSUME NEW s, Stack(s), NEW x, NEW y
    PROVE  s \o <<x, y>> = Append(Append(s, x), y)
<1>1. PICK S : S = {s[i] : i \in DOMAIN s} \cup {x, y}
  OBVIOUS
<1>2. s \in Seq(S) /\ x \in S /\ y \in S
  <2>1. PICK R : R = {s[i] : i \in DOMAIN s}
    OBVIOUS
  <2>2. s \in Seq(R) /\ R \subseteq S
    BY <1>1, <2>1 DEF Stack
  <2> QED BY <1>1, <2>2
<1>3. PICK p : p = <<x, y>>
  OBVIOUS
<1>4. p \in Seq(S) /\ Len(p) = 2 /\ p[1] = x /\ p[2] = y
  BY <1>2, <1>3
<1>5. PICK t : t = s \o p
  OBVIOUS
<1>6. PICK n \in Nat : n = Len(s)
  BY <1>2
<1>7. /\ t \in Seq(S) /\ Len(t) = n + 2 /\ \A i \in 1..n : t[i] = s[i]
      /\ t[n + 1] = x /\ t[n + 2] = y
  <2>1. t \in Seq(S) /\ Len(t) = Len(s) + Len(p)
    BY <1>2, <1>4, <1>5, ConcatProperties
  <2>2. Len(t) = n + 2
    BY <1>4, <1>6, <2>1
  <2>3. \A i \in 1..(n + 2) : t[i] = IF i <= n THEN s[i] ELSE p[i - n]
    <3>1. \A i \in 1..(Len(s) + Len(p)) : t[i] = IF i <= Len(s) THEN s[i] ELSE p[i - Len(s)]
      BY <1>2, <1>4, <1>5, ConcatProperties
    <3> QED BY <1>4, <1>6, <3>1
  <2>4. n + 1 \in 1..(n + 2) /\ ~(n + 1 <= n) /\ n + 1 - n = 1
    OBVIOUS
  <2>5. n + 2 \in 1..(n + 2) /\ ~(n + 2 <= n) /\ n + 2 - n = 2
    OBVIOUS
  <2>6. t[n + 1] = x
    BY <1>4, <2>3, <2>4
  <2>7. t[n + 2] = y
    BY <1>4, <2>3, <2>5
  <2>8. \A i \in 1..n : i \in 1..(n + 2) /\ i <= n
    OBVIOUS
  <2> QED BY <2>1, <2>2, <2>3, <2>6, <2>7, <2>8
<1>11. PICK u : u = Append(Append(s, x), y)
  OBVIOUS
<1>8. /\ u \in Seq(S) /\ Len(u) = n + 2 /\ \A i \in 1..n : u[i] = s[i]
      /\ u[n + 1] = x /\ u[n + 2] = y
  BY <1>2, <1>6, <1>11
<1>9. \A i \in 1..Len(t) : i \in 1..n \/ i = n + 1 \/ i = n + 2
  BY <1>7
<1>10. t = u
  BY <1>7, <1>8, <1>9, SameSequence
<1> QED
  BY <1>3, <1>5, <1>10, <1>11

LEMMA TryArrowKeeps == ParseInv /\ TryArrow => ParseInv'
<1> SUFFICES ASSUME ParseInv, TryArrow PROVE ParseInv'
  OBVIOUS
<1>1. Kind = <<"(">> /\ Kind # <<>> /\ window.current.kind \notin Less
  <2>1. Kind = <<"(">>
    BY DEF TryArrow
  <2> QED BY <2>1 DEF Less, Kind
<1>2. Onward(window, window')
  BY <1>1, TakeIsOnward DEF TryArrow, Take
<1>3. text \in Seq(Atoms) /\ Good(frames, window, depth, base, regions, verdicts, compared)
      /\ Fits(regions, depth) /\ depth \in Nat
  BY GoodNow, RegionsFit
<1>4. PICK x, y : x = Arrow(Checkpoint, "arrowHead") /\ y = Grouping("parameters", {})
  OBVIOUS
<1>5. /\ x.is = "arrowHead" /\ x.cp.window = window /\ x.cp.depth = depth /\ x.cp.regions = regions
      /\ x.cp.context = Context /\ y.is = "parameters"
  BY <1>4 DEF Arrow, Checkpoint, Grouping
<1>6. PICK w, e : w = window' /\ e = depth'
  OBVIOUS
<1>7. PICK t : t = Append(frames, x)
  OBVIOUS
<1>8. Good(t, w, depth, base, regions, verdicts, compared)
  <2>1. \A i \in 1..Len(frames) :
              frames[i].is \in Speculative => Place(frames[i]) < window.current.start
    BY <1>1, AllBehind
  <2>2. x.cp.context = ContextAt(frames, Len(frames))
    BY <1>5, ContextNow, FramesStack
  <2> QED BY <1>2, <1>3, <1>5, <1>6, <1>7, <2>1, <2>2, SpeculationIsGood
<1>9. \A i \in 1..Len(t) : t[i].is \in Speculative => Place(t[i]) < w.current.start
  <2>1. OrderOK(t, w)
    BY <1>8 DEF Good
  <2>2. t[Len(t)] = x
    BY <1>7, FramesStack, PushedParts
  <2> QED BY <1>5, <2>1, <2>2 DEF OrderOK
<1>10. /\ y.is \in FrameKinds \ Speculative /\ y.is \in Groupings /\ y.is # "body"
       /\ e = depth + 1
  BY <1>5, <1>6 DEF FrameKinds, Speculative, Groupings, TryArrow
<1>11. Good(Append(t, y), w, e, base, regions, verdicts, compared)
  <2>1. WindowOK(w)
    BY <1>8 DEF Good
  <2> QED BY <1>3, <1>8, <1>9, <1>10, <2>1, OpenedIsGood
<1>12. frames' = Append(t, y)
  BY <1>4, <1>7, FramesStack, StackTwice DEF TryArrow
<1>13. UNCHANGED <<text, regions, base, verdicts, compared>>
  BY DEF TryArrow
<1>14. Good(frames', window', depth', base', regions', verdicts', compared')
  BY <1>6, <1>11, <1>12, <1>13
<1> QED
  BY <1>3, <1>13, <1>14, GoodNext

LEMMA TryListKeeps == ParseInv /\ TryList => ParseInv'
<1> SUFFICES ASSUME ParseInv, TryList PROVE ParseInv'
  OBVIOUS
<1>1. OpensLess /\ window.current.kind \in Less /\ (Top.is = "comparison" => Top.cp.window.current.start # At)
  BY LessIsRead DEF TryList
<1>2. LessSplit(window, comments).ok /\ window' = LessSplit(window, comments).window
  BY DEF TryList, Take
<1>3. Onward(window, window') /\ CanStep(window)
  BY SMTT(60), <1>1, <1>2, LessIsOnward, LessSplitIsTheWindows
<1>4. text \in Seq(Atoms) /\ Good(frames, window, depth, base, regions, verdicts, compared)
      /\ Fits(regions, depth)
  BY GoodNow, RegionsFit
<1>5. PICK x : x = ListTried(Checkpoint, FALSE)
  OBVIOUS
<1>6. /\ x.is = "list" /\ x.cp.window = window /\ x.cp.depth = depth /\ x.cp.regions = regions
      /\ x.cp.context = Context /\ Context = ContextAt(frames, Len(frames))
  BY <1>5, ContextNow, FramesStack DEF ListTried, Checkpoint
<1>7. KeyOf(x.cp) \notin verdicts.abandoned
  BY <1>6 DEF TryList, AbandonedAt, At, KeyOf
<1>8. \A i \in 1..Len(frames) :
              frames[i].is \in Speculative => Place(frames[i]) < window.current.start
  BY <1>1, AllBehind
<1>9. PICK w : w = window'
  OBVIOUS
<1>10. Good(Append(frames, x), w, depth, base, regions, verdicts, compared)
  BY <1>1, <1>3, <1>4, <1>6, <1>7, <1>8, <1>9, SpeculationIsGood
<1>11. frames' = Append(frames, x) /\ UNCHANGED <<text, depth, regions, base, verdicts, compared>>
  BY <1>5 DEF TryList, Pushed
<1>12. Good(frames', window', depth', base', regions', verdicts', compared')
  BY SMTT(60), <1>9, <1>10, <1>11
<1> QED
  BY <1>4, <1>11, <1>12, GoodNext

(* No verdict is lost, and none is given against another `<` or context.     *)
Judgement(v, u, key) ==
    /\ u = [abandoned |-> u.abandoned, kept |-> u.kept]
    /\ v.abandoned \subseteq u.abandoned /\ v.kept \subseteq u.kept
    /\ u.abandoned \subseteq v.abandoned \cup {key}

(* Back to the checkpoint of speculation n + 1.                              *)
LEMMA Returned ==
    ASSUME ParseInv, NEW n \in Nat, n + 1 \in 1..Len(frames), frames[n + 1].is \in Speculative,
           \A j \in (n + 2)..Len(frames) : frames[j].is # "comparison",
           NEW cp, cp = frames[n + 1].cp,
           NEW outer, outer = SubSeq(frames, 1, n),
           NEW step, Rewind(cp, step, outer),
           NEW u, Judgement(verdicts, u, KeyOf(cp)),
           frames[n + 1].is = "comparison" => KeyOf(cp) \in u.kept \cup u.abandoned
    PROVE  /\ Good(outer, cp.window, depth', base', regions', u, compared)
           /\ cp.context = ContextAt(outer, Len(outer))
           /\ depth' = cp.depth /\ regions' = cp.regions /\ window' = step.window
           /\ \A i \in 1..Len(outer) :
                 outer[i].is \in Speculative => Place(outer[i]) < cp.window.current.start
<1>1. text \in Seq(Atoms) /\ Good(frames, window, depth, base, regions, verdicts, compared)
  BY GoodNow
<1>2. n \in 0..Len(frames) /\ Stack(frames)
  BY FramesStack
<1>3. Len(outer) = n /\ Same(outer, frames, n)
  BY SMTT(60), <1>2, StackCut
<1>4. depth' = cp.depth /\ regions' = cp.regions /\ window' = step.window
  BY SMTT(60) DEF Rewind
<1>5. base' = Restored(frames, base, n)
  <2>1. PICK left : left = {i \in DOMAIN frames : i > Len(outer) /\ frames[i].is = "body"}
    OBVIOUS
  <2>2. base' = IF left = {} THEN base
                ELSE frames[CHOOSE i \in left : \A j \in left : i <= j].base
    BY <2>1 DEF Rewind
  <2>3. left = {i \in DOMAIN frames : i > n /\ frames[i].is = "body"}
    BY <1>3, <2>1
  <2> QED BY <2>2, <2>3 DEF Restored
<1>6. /\ Good(outer, cp.window, cp.depth, Restored(frames, base, n), cp.regions, u, compared)
      /\ cp.context = ContextAt(frames, n)
      /\ \A i \in 1..n : frames[i].is \in Speculative => Place(frames[i]) < cp.window.current.start
  <2>1. /\ u = [abandoned |-> u.abandoned, kept |-> u.kept]
        /\ verdicts.abandoned \subseteq u.abandoned /\ verdicts.kept \subseteq u.kept
        /\ u.abandoned \subseteq verdicts.abandoned \cup {KeyOf(cp)}
    BY DEF Judgement
  <2>2. /\ Good(SubSeq(frames, 1, n), cp.window, cp.depth, Restored(frames, base, n), cp.regions,
                u, compared)
        /\ cp.context = ContextAt(frames, n)
        /\ \A i \in 1..n : frames[i].is \in Speculative => Place(frames[i]) < cp.window.current.start
    BY SMTT(100), <1>1, <2>1, BackIsGood
  <2> QED BY <2>2
<1>7. ContextAt(outer, Len(outer)) = ContextAt(frames, n)
  BY <1>3, SamePlaces
<1> QED
  BY <1>3, <1>4, <1>5, <1>6, <1>7 DEF Same

(* What a speculation of the stack holds.                                    *)
LEMMA SpeculationStands ==
    ASSUME ParseInv, NEW i \in 1..Len(frames), frames[i].is \in Tried,
           NEW cp, cp = frames[i].cp
    PROVE  /\ WindowOK(cp.window) /\ cp.window.current.kind \in Less /\ CanStep(cp.window)
           /\ KeyOf(cp) \notin verdicts.abandoned
<1>1. frames[i].is \in Speculative
  BY DEF Tried, Speculative
<1>2. KeyOf(cp) \notin verdicts.abandoned
  BY GoodNow DEF Good, VerdictsOK, Key
<1> QED
  BY <1>1, <1>2, GoodNow DEF Good, ReadAll, OrderOK

LEMMA VerdictsAreSets ==
    ASSUME ParseInv
    PROVE  /\ verdicts = [abandoned |-> verdicts.abandoned, kept |-> verdicts.kept]
           /\ \A key : Judgement(verdicts, verdicts, key)
BY GoodNow DEF Good, VerdictsOK, Judgement

LEMMA EndArrowKeeps == ParseInv /\ EndArrow => ParseInv'
<1> SUFFICES ASSUME ParseInv, EndArrow PROVE ParseInv'
  OBVIOUS
<1>1. Top.is = "arrowBody" /\ frames' = Outer /\ UNCHANGED <<text, verdicts, compared>>
  BY DEF EndArrow, Within
<1>2. Top.is \notin Groupings /\ Top.is \notin {"program", "comparison", "body"}
  BY <1>1 DEF Groupings
<1>3. CASE UNCHANGED <<window, comments, depth, regions, base, claims>>
  <2>1. WindowOK(window') /\ Fits(regions', depth')
    BY <1>3, GoodNow, RegionsFit DEF Good
  <2> QED BY <1>1, <1>2, <1>3, <2>1, StepCloses
<1>4. CASE Rewind(Top.cp, Rewound(Top.cp), Outer)
  <2>1. PICK n \in Nat : Len(frames) = n + 1 /\ frames[n + 1] = Top /\ Outer = SubSeq(frames, 1, n)
    BY <1>2, TopStands
  <2>2. n + 1 \in 1..Len(frames) /\ (n + 2)..Len(frames) = {}
    BY <2>1
  <2>3. PICK cp, outer, step : cp = Top.cp /\ outer = Outer /\ step = Rewound(Top.cp)
    OBVIOUS
  <2>4. step.window = cp.window
    BY <2>3 DEF Rewound
  <2>5. frames[n + 1].is \in Speculative /\ frames[n + 1].is # "comparison"
    BY <1>1, <2>1 DEF Speculative
  <2>6. Good(outer, cp.window, depth', base', regions', verdicts, compared) /\ window' = step.window
    BY ZenonT(60), <1>4, <2>1, <2>2, <2>3, <2>5, Returned, VerdictsAreSets
  <2>7. Good(frames', window', depth', base', regions', verdicts', compared')
    BY <1>1, <2>3, <2>4, <2>6
  <2> QED BY <1>1, <2>7, GoodNow, GoodNext
<1> QED
  BY <1>3, <1>4 DEF EndArrow

(* A list or an arrow goes on, as a speculation of the same checkpoint.      *)
LEMMA StepReopens ==
    ASSUME ParseInv, Top.is \in {"list", "arrowHead"}, Onward(window, window'),
           NEW x, frames' = Append(Outer, x), x.cp = Top.cp,
           x.is \in {"list", "arrowBody"}, x.is = "list" => Top.is = "list",
           UNCHANGED <<text, depth, regions, base, verdicts, compared>>
    PROVE  ParseInv'
<1>1. Top.is \notin Groupings /\ Top.is \notin {"program", "comparison", "body"}
      /\ Top.is \in Speculative
  BY DEF Groupings, Speculative
<1>2. PICK n \in Nat :
              /\ Len(frames) = n + 1 /\ frames[n + 1] = Top /\ Outer = SubSeq(frames, 1, n)
              /\ FrameOK(frames, n + 1)
              /\ depth = IF Top.is \in Groupings THEN DepthAt(frames, n) + 1 ELSE DepthAt(frames, n)
  BY <1>1, TopStands
<1>3. n + 1 \in 1..Len(frames) /\ (n + 2)..Len(frames) = {} /\ n + 1 - 1 = n
  BY <1>2
<1>4. PICK cp, s, w : cp = Top.cp /\ s = Outer /\ w = window'
  OBVIOUS
<1>5. text \in Seq(Atoms) /\ Good(frames, window, depth, base, regions, verdicts, compared)
      /\ Fits(regions, depth)
  BY GoodNow, RegionsFit
<1>6. cp.depth = depth /\ cp.context = ContextAt(frames, n)
  BY <1>1, <1>2, <1>3, <1>4 DEF FrameOK
<1>7. Restored(frames, base, n) = base
  <2>1. \A i \in DOMAIN frames : i > n => i = n + 1
    BY <1>2, FramesStack
  <2>2. frames[n + 1].is # "body"
    BY <1>1, <1>2
  <2>3. {i \in DOMAIN frames : i > n /\ frames[i].is = "body"} = {}
    BY <2>1, <2>2
  <2> QED BY <2>3 DEF Restored
<1>8. /\ Good(s, cp.window, depth, base, cp.regions, verdicts, compared)
      /\ \A i \in 1..n : frames[i].is \in Speculative => Place(frames[i]) < cp.window.current.start
  <2>1. n + 1 \in 1..Len(frames) /\ frames[n + 1].is \in Speculative
        /\ frames[n + 1].is # "comparison" /\ cp = frames[n + 1].cp
    BY <1>1, <1>2, <1>3, <1>4
  <2>2. \A j \in (n + 2)..Len(frames) : frames[j].is # "comparison"
    BY <1>3
  <2>3. verdicts = [abandoned |-> verdicts.abandoned, kept |-> verdicts.kept]
    BY VerdictsAreSets
  <2>4. frames[n + 1].is = "comparison"
          => KeyOf(cp) \in verdicts.kept \cup verdicts.abandoned
    BY <2>1
  <2>5. verdicts.abandoned \subseteq verdicts.abandoned \cup {KeyOf(cp)}
    BY SMTT(60)
  <2>6. /\ Good(SubSeq(frames, 1, n), cp.window, cp.depth, Restored(frames, base, n), cp.regions,
                verdicts, compared)
        /\ \A i \in 1..n : frames[i].is \in Speculative => Place(frames[i]) < cp.window.current.start
    BY SMTT(60), <1>5, <2>1, <2>2, <2>3, <2>4, <2>5, BackIsGood
  <2> QED BY <1>2, <1>4, <1>6, <1>7, <2>6
<1>9. /\ \A i \in 1..Len(s) : s[i].is \in Speculative => Place(s[i]) < cp.window.current.start
      /\ cp.context = ContextAt(s, Len(s))
  <2>1. Len(s) = n /\ Same(s, frames, n)
    <3>1. n \in 0..Len(frames)
      BY <1>2
    <3> QED BY <1>2, <1>4, <3>1, StackCut, FramesStack
  <2>2. ContextAt(s, n) = ContextAt(frames, n)
    BY <2>1, SamePlaces
  <2> QED BY <1>6, <1>8, <2>1, <2>2 DEF Same
<1>10. Onward(cp.window, w)
  <2>1. WindowOK(cp.window)
    BY <1>8 DEF Good
  <2>2. Place(frames[n + 1]) = cp.window.current.start
    BY <1>2, <1>4 DEF Place
  <2>3. OrderOK(frames, window) /\ WindowOK(window)
    BY <1>5 DEF Good
  <2>4. cp.window.current.start < window.current.start
    BY <1>1, <1>2, <1>3, <2>2, <2>3 DEF OrderOK
  <2>5. /\ cp.window.current.start \in Nat /\ window.current.start \in Nat
        /\ w.current.start \in Nat /\ WindowOK(w) /\ window.current.start < w.current.start
    BY <1>4, <1>5, <2>1, <2>3, PlacesAreNatural DEF Onward
  <2> QED BY <2>4, <2>5 DEF Onward
<1>11. x.is = "list" => /\ cp.window.current.kind \in Less /\ CanStep(cp.window)
                        /\ KeyOf(cp) \notin verdicts.abandoned
  <2>1. Top.is = "list" => frames[n + 1].is \in Tried
    BY <1>2 DEF Tried
  <2> QED BY <1>2, <1>3, <1>4, <2>1, SpeculationStands
<1>12. x.cp = cp /\ x.cp.window = cp.window /\ x.cp.depth = depth /\ x.cp.regions = cp.regions
       /\ x.is \in {"list", "arrowHead", "arrowBody"}
  BY <1>4, <1>6
<1>13. Good(Append(s, x), w, depth, base, regions, verdicts, compared)
  BY <1>5, <1>8, <1>9, <1>10, <1>11, <1>12, SpeculationIsGood
<1>14. Good(frames', window', depth', base', regions', verdicts', compared')
  BY <1>4, <1>13
<1> QED
  BY <1>5, <1>14, GoodNext

LEMMA ExpectArrowKeeps == ParseInv /\ ExpectArrow => ParseInv'
<1> SUFFICES ASSUME ParseInv, ExpectArrow PROVE ParseInv'
  OBVIOUS
<1>1. Kind # <<>>
  <2>1. PICK e : e = <<>>
    OBVIOUS
  <2>2. Len(e) = 0 /\ Len(Kind) = 2
    BY <2>1 DEF ExpectArrow
  <2> QED BY <2>1, <2>2
<1>2. Onward(window, window')
  BY <1>1, TakeIsOnward DEF ExpectArrow, Take
<1>3. PICK x : x = Arrow(Top.cp, "arrowBody")
  OBVIOUS
<1>4. x.cp = Top.cp /\ x.is = "arrowBody" /\ frames' = Append(Outer, x)
  BY <1>3 DEF Arrow, ExpectArrow
<1>5. Top.is = "arrowHead" /\ UNCHANGED <<text, depth, regions, base, verdicts, compared>>
  BY DEF ExpectArrow, Within
<1> QED
  BY <1>2, <1>4, <1>5, StepReopens

LEMMA SeparatorKeeps == ParseInv /\ Separator => ParseInv'
<1> SUFFICES ASSUME ParseInv, Separator PROVE ParseInv'
  OBVIOUS
<1>1. Kind # <<>>
  BY DEF Separator
<1>2. Onward(window, window')
  BY <1>1, TakeIsOnward DEF Separator, Take
<1>3. PICK x : x = ListTried(Top.cp, TRUE)
  OBVIOUS
<1>4. x.cp = Top.cp /\ x.is = "list" /\ frames' = Append(Outer, x)
  BY <1>3 DEF ListTried, Separator
<1>5. Top.is = "list" /\ UNCHANGED <<text, depth, regions, base, verdicts, compared>>
  BY DEF Separator, Within
<1> QED
  BY <1>2, <1>4, <1>5, StepReopens

(* A list is read under the flags of its checkpoint, which its own frame     *)
(* leaves alone.                                                             *)
LEMMA TriedContext ==
    ASSUME ParseInv, Top.is \in Tried
    PROVE  Context = Top.cp.context
<1>1. Top.is # "program" /\ Top.is \in Speculative /\ Top.is \notin Scoping
  BY DEF Tried, Speculative, Scoping
<1>2. PICK n \in Nat : Len(frames) = n + 1 /\ frames[n + 1] = Top /\ FrameOK(frames, n + 1)
  BY <1>1, TopStands
<1>3. n + 1 - 1 = n
  OBVIOUS
<1>4. Top.cp.context = ContextAt(frames, n)
  BY <1>1, <1>2, <1>3 DEF FrameOK
<1>5. ContextAt(frames, n + 1) = ContextAt(frames, n)
  BY <1>1, <1>2, ContextPasses
<1> QED
  BY <1>2, <1>4, <1>5, ContextNow, FramesStack

LEMMA CloseListKeeps == ParseInv /\ CloseList => ParseInv'
<1> SUFFICES ASSUME ParseInv, CloseList PROVE ParseInv'
  OBVIOUS
<1>1. Top.is = "list" /\ LeadsGreater /\ UNCHANGED <<text, verdicts>>
  BY DEF CloseList, Within
<1>2. Top.is \notin Groupings /\ Top.is \notin {"program", "comparison", "body"}
      /\ Top.is \in Speculative /\ Top.is \in Tried
  BY <1>1 DEF Groupings, Speculative, Tried
<1>3. PICK close, cp, lt : /\ close = GreaterSplit(window, comments) /\ cp = Top.cp
                           /\ lt = cp.window.current.start
  OBVIOUS
<1>4. close.ok
  BY <1>3 DEF CloseList
<1>5. CASE /\ Take(close) /\ frames' = Outer
           /\ UNCHANGED <<depth, regions, base, claims, compared>>
  <2>1. Onward(window, window')
    BY <1>1, <1>3, <1>4, <1>5, GreaterIsOnward DEF Take
  <2> QED BY <1>1, <1>2, <1>5, <2>1, RegionsFit, StepCloses DEF Onward
<1>6. CASE /\ ~KeptAt(lt)
           /\ Rewind(cp, Rewound(cp), Outer)
           /\ frames' = Append(Outer, Comparison(cp, close.window.prevEnd,
                                                 Unclaimed(lt, Rewound(cp).comments)))
           /\ compared' = [once |-> compared.once \cup {KeyOf(cp)},
                            again |-> compared.again \cup ({KeyOf(cp)} \cap compared.once)]
  <2>1. PICK n \in Nat : Len(frames) = n + 1 /\ frames[n + 1] = Top /\ Outer = SubSeq(frames, 1, n)
    BY <1>2, TopStands
  <2>2. n + 1 \in 1..Len(frames) /\ (n + 2)..Len(frames) = {}
    BY <2>1
  <2>3. PICK outer, step : outer = Outer /\ step = Rewound(cp)
    OBVIOUS
  <2>4. step.window = cp.window
    BY <2>3 DEF Rewound
  <2>5. PICK x : x = Comparison(cp, close.window.prevEnd, Unclaimed(lt, Rewound(cp).comments))
    OBVIOUS
  <2>6. x.is = "comparison" /\ x.cp = cp
    BY <2>5 DEF Comparison
  <2>7. PICK d, b, r, w, c : d = depth' /\ b = base' /\ r = regions' /\ w = window' /\ c = compared'
    BY SMTT(60)
  <2>8. /\ Good(outer, cp.window, d, b, r, verdicts, compared)
        /\ d = cp.depth /\ r = cp.regions /\ w = cp.window
        /\ cp.context = ContextAt(outer, Len(outer))
        /\ \A i \in 1..Len(outer) :
              outer[i].is \in Speculative => Place(outer[i]) < cp.window.current.start
    BY ZenonT(150), <1>2, <1>3, <1>6, <2>1, <2>2, <2>3, <2>4, <2>7, Returned, VerdictsAreSets
  <2>9. /\ cp.window.current.kind \in Less /\ CanStep(cp.window)
        /\ KeyOf(cp) \notin verdicts.abandoned
    BY <1>2, <1>3, <2>1, <2>2, SpeculationStands
  <2>10. KeyOf(cp) \notin verdicts.kept
    <3>1. Context = cp.context
      BY <1>2, <1>3, TriedContext
    <3> QED BY <1>3, <1>6, <3>1 DEF KeptAt, KeyOf
  <2>11. text \in Seq(Atoms)
    BY GoodNow
  <2>12. Good(Append(outer, x), cp.window, d, b, r, verdicts,
              [once |-> compared.once \cup {KeyOf(cp)},
               again |-> compared.again \cup ({KeyOf(cp)} \cap compared.once)])
    BY <2>6, <2>8, <2>9, <2>10, <2>11, ComparisonIsGood
  <2>13. Good(frames', window', depth', base', regions', verdicts', compared')
    BY <1>1, <1>6, <2>3, <2>5, <2>7, <2>8, <2>12
  <2> QED BY <1>1, <2>11, <2>13, GoodNext
<1> QED
  BY <1>3, <1>5, <1>6 DEF CloseList

(* The end of a comparison, whatever it answers.                             *)
LEMMA SettleKeeps ==
    ASSUME ParseInv, NEW i \in 1..Len(frames), frames[i].is = "comparison",
           \A j \in (i + 1)..Len(frames) : frames[j].is # "comparison",
           NEW reads \in BOOLEAN, Settle(i, reads), UNCHANGED <<text, compared>>
    PROVE  ParseInv'
<1>1. PICK n \in Nat : n = i - 1
  OBVIOUS
<1>2. n + 1 = i /\ n + 2 = i + 1
  BY <1>1
<1>3. PICK cp, outer : cp = frames[i].cp /\ outer = SubSeq(frames, 1, i - 1)
  OBVIOUS
<1>4. PICK ledger : ledger = [j \in 1..cp.comments |->
                      IF j \in frames[i].unclaimed THEN [comments[j] EXCEPT !.owned = FALSE]
                      ELSE comments[j]]
  OBVIOUS
<1>5. frames[i].is \in Speculative /\ frames[i].is \in Tried
  BY DEF Speculative, Tried
<1>6. text \in Seq(Atoms)
  BY GoodNow
<1>7. PICK u : u = verdicts'
  OBVIOUS
<1>11. /\ n + 1 \in 1..Len(frames) /\ frames[n + 1].is \in Speculative
       /\ cp = frames[n + 1].cp /\ outer = SubSeq(frames, 1, n)
  BY <1>1, <1>2, <1>3, <1>5
<1>12. \A j \in (n + 2)..Len(frames) : frames[j].is # "comparison"
  BY <1>2
<1>8. CASE /\ Rewind(cp, [window |-> cp.window, comments |-> ledger], outer)
           /\ verdicts' = [verdicts EXCEPT !.abandoned = @ \cup {KeyOf(cp)}]
           /\ frames' = outer
  <2>1. PICK step : step = [window |-> cp.window, comments |-> ledger]
    OBVIOUS
  <2>2. step.window = cp.window
    BY <2>1
  <2>3. /\ u = [abandoned |-> u.abandoned, kept |-> u.kept]
        /\ u.abandoned = verdicts.abandoned \cup {KeyOf(cp)} /\ u.kept = verdicts.kept
    BY <1>7, <1>8, VerdictsAreSets
  <2>6. /\ Judgement(verdicts, u, KeyOf(cp))
        /\ KeyOf(cp) \in u.kept \cup u.abandoned
    BY <2>3 DEF Judgement
  <2>7. Rewind(cp, step, outer)
    BY <1>8, <2>1
  <2>4. Good(outer, cp.window, depth', base', regions', u, compared) /\ window' = step.window
    BY <1>11, <1>12, <2>6, <2>7, Returned, ZenonT(150)
  <2>5. Good(frames', window', depth', base', regions', verdicts', compared')
    BY <1>7, <1>8, <2>2, <2>4
  <2> QED BY <1>6, <2>5, GoodNext
<1>9. CASE /\ Rewind(cp, LessSplit(cp.window, ledger), outer)
           /\ verdicts' = [verdicts EXCEPT !.kept = @ \cup {KeyOf(cp)}]
           /\ frames' = Append(outer, ListTried(cp, FALSE))
  <2>1. PICK step : step = LessSplit(cp.window, ledger)
    OBVIOUS
  <2>2. /\ u = [abandoned |-> u.abandoned, kept |-> u.kept]
        /\ u.abandoned = verdicts.abandoned /\ u.kept = verdicts.kept \cup {KeyOf(cp)}
    BY <1>7, <1>9, VerdictsAreSets
  <2>11. /\ Judgement(verdicts, u, KeyOf(cp))
         /\ KeyOf(cp) \in u.kept \cup u.abandoned
    BY <2>2 DEF Judgement
  <2>12. Rewind(cp, step, outer)
    BY <1>9, <2>1
  <2>3. /\ Good(outer, cp.window, depth', base', regions', u, compared)
        /\ depth' = cp.depth /\ regions' = cp.regions /\ window' = step.window
        /\ cp.context = ContextAt(outer, Len(outer))
        /\ \A j \in 1..Len(outer) :
              outer[j].is \in Speculative => Place(outer[j]) < cp.window.current.start
    BY <1>11, <1>12, <2>11, <2>12, Returned, ZenonT(150)
  <2>4. /\ WindowOK(cp.window) /\ cp.window.current.kind \in Less /\ CanStep(cp.window)
        /\ KeyOf(cp) \notin u.abandoned
    BY <1>3, <1>5, <2>2, SpeculationStands
  <2>13. PICK w : w = window'
    OBVIOUS
  <2>14. PICK b : b = base'
    OBVIOUS
  <2>15. w = step.window /\ Good(outer, cp.window, cp.depth, b, cp.regions, u, compared)
    BY <2>3, <2>13, <2>14
  <2>5. Onward(cp.window, w)
    BY <1>6, <2>1, <2>4, <2>15, LessSplitIsOnward, LessSplitIsTheWindows
  <2>6. PICK x : x = ListTried(cp, FALSE)
    OBVIOUS
  <2>7. x.is = "list" /\ x.cp = cp
    BY <2>6 DEF ListTried
  <2>8. Fits(cp.regions, cp.depth)
    BY <2>15 DEF Good, NestOK
  <2>16. /\ x.is \in {"list", "arrowHead", "arrowBody"}
         /\ x.cp.window = cp.window /\ x.cp.depth = cp.depth /\ x.cp.regions = cp.regions
         /\ x.cp.context = ContextAt(outer, Len(outer))
         /\ (x.is = "list" => /\ cp.window.current.kind \in Less /\ CanStep(cp.window)
                              /\ KeyOf(x.cp) \notin u.abandoned)
    BY <2>3, <2>4, <2>7
  <2>9. Good(Append(outer, x), w, cp.depth, b, cp.regions, u, compared)
    BY <1>6, <2>3, <2>5, <2>8, <2>15, <2>16, SpeculationIsGood
  <2>10. Good(frames', window', depth', base', regions', verdicts', compared')
    BY <1>7, <1>9, <2>3, <2>6, <2>9, <2>13, <2>14
  <2> QED BY <1>6, <2>10, GoodNext
<1> QED
  BY <1>3, <1>4, <1>8, <1>9 DEF Settle

LEMMA EndComparisonKeeps == ParseInv /\ EndComparison => ParseInv'
<1> SUFFICES ASSUME ParseInv, EndComparison PROVE ParseInv'
  OBVIOUS
<1>1. Top.is = "comparison" /\ Settle(Len(frames), TRUE) /\ UNCHANGED <<text, compared>>
  BY DEF EndComparison, Within
<1>2. PICK n \in Nat : Len(frames) = n + 1 /\ frames[n + 1] = Top
  BY <1>1, TopStands
<1>3. PICK i : i = Len(frames)
  OBVIOUS
<1>4. i \in 1..Len(frames) /\ frames[i].is = "comparison" /\ (i + 1)..Len(frames) = {}
  BY <1>1, <1>2, <1>3
<1> QED
  BY <1>1, <1>3, <1>4, SettleKeeps

LEMMA ThrowKeeps == ParseInv /\ Throw => ParseInv'
<1> SUFFICES ASSUME ParseInv, Throw PROVE ParseInv'
  OBVIOUS
<1>1. PICK i \in DOMAIN frames :
        LET outer == SubSeq(frames, 1, i - 1)
            cp == frames[i].cp
        IN /\ \A j \in (i + 1)..Len(frames) : frames[j].is # "comparison"
           /\ \/ /\ frames[i].is = "comparison"
                 /\ Settle(i, FALSE)
              \/ /\ frames[i].is = "list" /\ frames[i].separated
                 /\ Rewind(cp, Rewound(cp), outer)
                 /\ frames' = outer
                 /\ verdicts' = [verdicts EXCEPT !.abandoned = @ \cup {KeyOf(cp)}]
              \/ /\ frames[i].is \in {"arrowHead", "arrowBody"}
                 /\ Rewind(cp, Rewound(cp), outer)
                 /\ frames' = outer
                 /\ UNCHANGED verdicts
           /\ UNCHANGED <<text, compared>>
  BY DEF Throw
<1>2. i \in 1..Len(frames) /\ text \in Seq(Atoms)
  BY FramesStack, GoodNow
<1>3. PICK n \in Nat : n = i - 1
  BY <1>2
<1>4. n + 1 = i /\ n + 2 = i + 1
  BY <1>2, <1>3
<1>5. PICK cp, outer, step : /\ cp = frames[i].cp /\ outer = SubSeq(frames, 1, i - 1)
                             /\ step = Rewound(cp)
  OBVIOUS
<1>6. CASE frames[i].is = "comparison" /\ Settle(i, FALSE)
  BY <1>1, <1>2, <1>6, SettleKeeps
<1>7. CASE /\ frames[i].is \in {"list", "arrowHead", "arrowBody"}
           /\ Rewind(cp, step, outer) /\ frames' = outer
           /\ \/ verdicts' = [verdicts EXCEPT !.abandoned = @ \cup {KeyOf(cp)}]
              \/ verdicts' = verdicts
  <2>1. frames[i].is \in Speculative /\ frames[i].is # "comparison"
    BY <1>7 DEF Speculative
  <2>2. PICK u : u = verdicts'
    OBVIOUS
  <2>3. Judgement(verdicts, u, KeyOf(cp))
    <3>1. CASE verdicts' = verdicts
      BY <2>2, <3>1, VerdictsAreSets
    <3>2. CASE verdicts' = [verdicts EXCEPT !.abandoned = @ \cup {KeyOf(cp)}]
      BY <2>2, <3>2, VerdictsAreSets DEF Judgement
    <3> QED BY <1>7, <3>1, <3>2
  <2>4. step.window = cp.window
    BY <1>5 DEF Rewound
  <2>5. \A j \in (n + 2)..Len(frames) : frames[j].is # "comparison"
    BY <1>1, <1>4
  <2>6. /\ n + 1 \in 1..Len(frames) /\ frames[n + 1].is \in Speculative
        /\ cp = frames[n + 1].cp /\ outer = SubSeq(frames, 1, n)
        /\ frames[n + 1].is # "comparison"
    BY <1>2, <1>3, <1>4, <1>5, <2>1
  <2>9. Rewind(cp, step, outer)
    BY <1>7
  <2>7. Good(outer, cp.window, depth', base', regions', u, compared) /\ window' = step.window
    BY <2>3, <2>5, <2>6, <2>9, Returned
  <2>8. Good(frames', window', depth', base', regions', verdicts', compared')
    BY <1>1, <1>7, <2>2, <2>4, <2>7
  <2> QED BY <1>1, <1>2, <2>8, GoodNext
<1> QED
  BY <1>1, <1>5, <1>6, <1>7

---------------------------------------------------------------------------
(* The invariant *)

LEMMA NextKeeps == ParseInv /\ [Next]_vars => ParseInv'
<1> SUFFICES ASSUME ParseInv, [Next]_vars PROVE ParseInv'
  OBVIOUS
<1>1. CASE Peek
  BY <1>1, PeekKeeps
<1>2. CASE Read
  BY SMTT(60), <1>2, ReadKeeps
<1>3. CASE Leaf
  BY <1>3, LeafKeeps
<1>4. CASE RelexRegex
  BY <1>4, RelexRegexKeeps
<1>5. CASE Compare
  BY <1>5, CompareKeeps
<1>6. CASE EndStatement
  BY <1>6, EndStatementKeeps
<1>7. CASE EnterBody
  BY <1>7, EnterBodyKeeps
<1>8. CASE ExitBody
  BY <1>8, ExitBodyKeeps
<1>9. CASE OpenGrouping
  BY <1>9, OpenGroupingKeeps
<1>10. CASE CloseGrouping
  BY <1>10, CloseGroupingKeeps
<1>11. CASE CloseParen
  BY <1>11, CloseParenKeeps
<1>12. CASE OpenTypeArguments
  BY <1>12, OpenTypeArgumentsKeeps
<1>13. CASE CloseTypeArguments
  BY <1>13, CloseTypeArgumentsKeeps
<1>14. CASE TryArrow
  BY <1>14, TryArrowKeeps
<1>15. CASE ExpectArrow
  BY <1>15, ExpectArrowKeeps
<1>16. CASE EndArrow
  BY <1>16, EndArrowKeeps
<1>17. CASE TryList
  BY <1>17, TryListKeeps
<1>18. CASE Separator
  BY <1>18, SeparatorKeeps
<1>19. CASE CloseList
  BY <1>19, CloseListKeeps
<1>20. CASE EndComparison
  BY <1>20, EndComparisonKeeps
<1>21. CASE Throw
  BY <1>21, ThrowKeeps
<1>22. CASE UNCHANGED vars
  <2>1. Good(frames', window', depth', base', regions', verdicts', compared')
    BY <1>22, GoodNow DEF vars
  <2> QED BY <1>22, <2>1, GoodNow, GoodNext DEF vars
<1> QED
  BY <1>1, <1>2, <1>3, <1>4, <1>5, <1>6, <1>7, <1>8, <1>9, <1>10, <1>11, <1>12, <1>13, <1>14,
     <1>15, <1>16, <1>17, <1>18, <1>19, <1>20, <1>21, <1>22 DEF Next

(* What every state of the parse satisfies: the tokens of the window and of  *)
(* every checkpoint are the text's, the counters and the regions are those   *)
(* of what is open, speculations lie in the order of their places, and a     *)
(* `<` compared has, in its context, its verdict or is being compared.       *)
THEOREM ParseInvariant == Spec => []ParseInv
<1>1. Init => ParseInv
  BY InitIsGood
<1>2. ParseInv /\ [Next]_vars => ParseInv'
  BY NextKeeps
<1> QED
  BY <1>1, <1>2, PTL DEF Spec

---------------------------------------------------------------------------
(* What it is for *)

(* Through peeks, splits, second lexings and rewinds the window is the       *)
(* text's: the parser reads no token that is not spelled where it stands,    *)
(* and no line break goes unnoticed (prime, advance, peek_kind, the splits   *)
(* and rewind).                                                              *)
THEOREM WindowReadsSource == Spec => []WindowIsSource
<1>1. ParseInv => WindowIsSource
  <2> SUFFICES ASSUME ParseInv PROVE WindowIsSource
    OBVIOUS
  <2>1. WindowOK(window)
    BY GoodNow DEF Good
  <2>2. PICK next : next = Fetch(window.current.end)
    OBVIOUS
  <2>3. Kind = SubSeq(text, At, window.current.end - 1)
    BY <2>1 DEF WindowOK, TokenOK, Kind, At
  <2>4. /\ \A p \in window.prevEnd..(At - 1) : text[p] \in Blank
        /\ (window.prevEnd \in 2..(At - 1) => window.broken = BreakIn(window.prevEnd, At))
    BY <2>1 DEF WindowOK, At
  <2>5. window.peek # NoToken
           => window.peek = next.token /\ window.peekBroken = next.broken /\ window.cursor = next.cursor
    BY <2>1, <2>2 DEF WindowOK
  <2>6. window.error => window.peek = NoToken /\ next.bad
    BY <2>1, <2>2 DEF WindowOK
  <2>7. window.peek = NoToken /\ ~window.error => window.cursor = window.current.end
    BY <2>1 DEF WindowOK
  <2> QED BY <2>2, <2>3, <2>4, <2>5, <2>6, <2>7 DEF WindowIsSource
<1> QED
  BY <1>1, ParseInvariant, PTL

(* Whatever a rewind abandons, the depth is the number of open groupings and *)
(* a statement starts from what its innermost body inherited (rewind and     *)
(* with_statement_regions).                                                  *)
THEOREM ContextStands == Spec => []ContextIsNesting
<1>1. ParseInv => ContextIsNesting
  <2> SUFFICES ASSUME ParseInv PROVE ContextIsNesting
    OBVIOUS
  <2>1. Len(frames) \in Nat /\ DOMAIN frames = 1..Len(frames)
    BY FramesStack
  <2>2. depth = DepthAt(frames, Len(frames)) /\ BaseIs(frames, Len(frames), base)
    BY GoodNow DEF Good, NestOK
  <2>3. depth = Cardinality({i \in DOMAIN frames : frames[i].is \in Groupings})
    BY <2>1, <2>2 DEF DepthAt, Grouped
  <2>4. PICK bodies : bodies = {i \in DOMAIN frames : frames[i].is = "body"}
    OBVIOUS
  <2>5. base = IF bodies = {} THEN NoRegions
               ELSE frames[CHOOSE i \in bodies : \A j \in bodies : j <= i].regions
    <3>1. CASE base = NoRegions /\ \A i \in 1..Len(frames) : frames[i].is # "body"
      BY <2>1, <2>4, <3>1
    <3>2. CASE \E m \in 1..Len(frames) :
                  /\ frames[m].is = "body" /\ base = frames[m].regions
                  /\ \A i \in (m + 1)..Len(frames) : frames[i].is # "body"
      <4>1. PICK m \in 1..Len(frames) :
                  /\ frames[m].is = "body" /\ base = frames[m].regions
                  /\ \A i \in (m + 1)..Len(frames) : frames[i].is # "body"
        BY <3>2
      <4>2. m \in bodies /\ bodies \subseteq 1..Len(frames)
        BY <2>1, <2>4, <4>1
      <4>3. \A j \in bodies : j <= m
        <5> SUFFICES ASSUME NEW j \in bodies, ~(j <= m) PROVE FALSE
          OBVIOUS
        <5>1. j \in (m + 1)..Len(frames)
          BY <2>1, <4>2
        <5> QED BY <2>4, <4>1, <5>1
      <4>4. PICK k : k = CHOOSE i \in bodies : \A j \in bodies : j <= i
        OBVIOUS
      <4>5. k \in bodies /\ \A j \in bodies : j <= k
        BY <4>2, <4>3, <4>4
      <4>6. k = m
        BY <2>1, <4>2, <4>3, <4>5
      <4> QED BY <4>1, <4>2, <4>4, <4>6
    <3> QED BY <2>2, <3>1, <3>2 DEF BaseIs
  <2> QED BY <2>3, <2>4, <2>5 DEF ContextIsNesting
<1> QED
  BY <1>1, ParseInvariant, PTL

(* However many `<` a text opens, no question the parser puts to the three   *)
(* regions it tracks is answered otherwise than by all of them               *)
(* (LtRegions::CAP and open_before).                                         *)
THEOREM ThreeRegionsSuffice == Spec => []CapLosesNothing
<1>1. ParseInv => CapLosesNothing
  <2> SUFFICES ASSUME ParseInv PROVE CapLosesNothing
    OBVIOUS
  <2>1. Fits(regions, depth)
    BY RegionsFit
  <2>2. WindowOK(window) /\ text \in Seq(Atoms)
    BY GoodNow DEF Good
  <2>3. At \in Nat
    BY <2>2, PlacesAreNatural DEF At
  <2> SUFFICES ASSUME NEW operandStart \in 1..At, NEW lists \in 1..Cap
               PROVE  (OpenBefore(regions.tracked, operandStart) >= lists)
                          = (OpenBefore(regions.all, operandStart) >= lists)
    BY DEF CapLosesNothing
  <2> QED BY <2>1, <2>3, CapIsSound DEF Fits
<1> QED
  BY <1>1, ParseInvariant, PTL

(* However deep the lists nest and whatever is rewound around them, the      *)
(* comparison is read at most once for each `<` and context                  *)
(* (parse_type_arguments_or_rewind and its verdicts).                        *)
THEOREM OneComparison == Spec => []ComparedOnce
<1>1. ParseInv => ComparedOnce
  <2> SUFFICES ASSUME ParseInv PROVE ComparedOnce
    OBVIOUS
  <2>1. VerdictsOK(frames, verdicts, compared)
    BY GoodNow DEF Good
  <2>2. compared = [once |-> compared.once, again |-> {}]
    BY <2>1 DEF VerdictsOK
  <2> QED BY <2>2 DEF ComparedOnce
<1> QED
  BY <1>1, ParseInvariant, PTL
=============================================================================
