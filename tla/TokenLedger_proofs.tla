-------------------------- MODULE TokenLedger_proofs --------------------------
(***************************************************************************)
(* What the parser's ledger holds on every text and however deep its       *)
(* constructs nest: every comment the lexer has passed, each once, in      *)
(* order, owned exactly when a reading that stands has claimed it.         *)
(***************************************************************************)
EXTENDS TokenWindow_proofs

---------------------------------------------------------------------------
(* The invariant: what a ledger holds *)

Comment == [at : Nat, owned : BOOLEAN]
UpTo(p) == {q \in 1..(p - 1) : text[q] \in CommentAtoms}
Rank(p) == Cardinality(UpTo(p))

(* The comments before p, each once and in order, those in c owned.          *)
Ledger(l, p, c) ==
    /\ l \in Seq(Comment) /\ Len(l) = Rank(p)
    /\ \A i \in 1..Len(l) : /\ l[i].at \in UpTo(p)
                            /\ Rank(l[i].at) = i - 1
                            /\ l[i].owned <=> l[i].at \in c

(* No token begins or ends with a blank, the lexer stands no less far than   *)
(* the current one, and claims are made behind it.                           *)
Settled(w, c) ==
    /\ w \in Windows
    /\ w.current.end <= w.cursor /\ w.cursor <= Past
    /\ w.prevEnd = 1 \/ text[w.prevEnd - 1] \notin Blank
    /\ w.current.start < Past => text[w.current.start] \notin Blank
    /\ c \subseteq UpTo(w.prevEnd)

---------------------------------------------------------------------------
(* The invariant: what is open *)

(* What a frame holds: a checkpoint counts the comments its lexer had passed; *)
(* places in the ledger are those of the comments they stand for.            *)
Held(f) ==
    /\ f.is \in Speculative => /\ Settled(f.cp.window, f.cp.claims)
                               /\ f.cp.comments = Rank(f.cp.window.cursor)
    /\ f.is = "comparison" =>
          \A p \in UpTo(f.cp.window.cursor) :
              Rank(p) + 1 \in f.unclaimed <=> p >= Place(f) /\ p \notin f.cp.claims
    /\ f.is = "paren" => \A p \in UpTo(Past) : Rank(p) + 1 \in f.cast <=> p \in f.castAt

(* No reading inside a speculation claims a comment before this place: it    *)
(* was drained before, or (a comparison's, which gives back what it claimed) *)
(* stands before the `<`.                                                    *)
Limit(f) == IF f.is = "comparison" THEN Place(f) ELSE f.cp.window.cursor

(* A window and its claims come after a frame was opened. *)
After(f, w, c) ==
    /\ f.is \in Speculative => /\ f.cp.window.cursor <= w.cursor
                               /\ f.cp.claims \subseteq c
                               /\ \A p \in c \ f.cp.claims : Limit(f) <= p
    /\ f.is = "paren" => f.castAt \subseteq UpTo(w.prevEnd)

(* The window has left the tokens that the checkpoint's lexer had seen. *)
Beyond(f, w) == Limit(f) <= w.prevEnd /\ f.cp.window.cursor <= w.current.end

(* Or it has read no more than a token peeked at, or the first half of `<<`, *)
(* or not even the comparison's `<`: nothing is claimed yet.                 *)
Fresh(s, i, w) ==
    \/ /\ \A k \in i..Len(s) : s[k].is \in Types
       /\ \/ s[i].cp.window.cursor <= w.current.end
          \/ i = Len(s) /\ s[i].is = "list" /\ w.current.kind = <<"<">>
    \/ i = Len(s) /\ s[i].is = "comparison" /\ w.current = s[i].cp.window.current

(* Frame g was opened in frame f, and beyond its tokens. *)
Stacked(f, g) ==
    /\ g.is \in Speculative =>
          /\ After(f, g.cp.window, g.cp.claims)
          /\ f.is \in Speculative => Beyond(f, g.cp.window)
    /\ g.is = "paren" /\ f.is \in Speculative => \A p \in g.castAt : Limit(f) <= p

Ordered(s) ==
    /\ \A i \in 1..Len(s) : Held(s[i])
    /\ \A i \in 1..Len(s), j \in 1..Len(s) : i < j => Stacked(s[i], s[j])

FramesOpen(s, w, c) ==
    /\ Ordered(s)
    /\ \A i \in 1..Len(s) : /\ After(s[i], w, c)
                            /\ s[i].is \in Speculative => Beyond(s[i], w) \/ Fresh(s, i, w)

LedgerOK(s, l, w, c) == Ledger(l, w.cursor, c) /\ Settled(w, c) /\ FramesOpen(s, w, c)

LedgerStands == LedgerOK(frames, comments, window, claims)
LedgerInv == ParseInv /\ LedgerStands


---------------------------------------------------------------------------
(* Counting comments *)

LEMMA RankIsNatural ==
    ASSUME NEW p \in Nat
    PROVE  IsFiniteSet(UpTo(p)) /\ Rank(p) \in Nat
<1>1. IsFiniteSet(1..(p - 1))
  BY FS_Interval
<1>2. UpTo(p) \subseteq 1..(p - 1)
  BY DEF UpTo
<1>3. IsFiniteSet(UpTo(p))
  BY <1>1, <1>2, FS_Subset
<1> QED
  BY <1>3, FS_CardinalityType DEF Rank

LEMMA RankGrows ==
    ASSUME NEW p \in Nat, NEW q \in Nat, p <= q
    PROVE  UpTo(p) \subseteq UpTo(q) /\ Rank(p) <= Rank(q)
<1>1. UpTo(p) \subseteq UpTo(q)
  BY DEF UpTo
<1> QED
  BY <1>1, RankIsNatural, FS_Subset DEF Rank

LEMMA RankNext ==
    ASSUME NEW p \in Nat, p > 0, text[p] \in CommentAtoms
    PROVE  Rank(p + 1) = Rank(p) + 1
<1>1. UpTo(p + 1) = UpTo(p) \cup {p} /\ p \notin UpTo(p)
  BY DEF UpTo
<1>2. IsFiniteSet(UpTo(p))
  BY RankIsNatural
<1> QED
  BY <1>1, <1>2, FS_AddElement DEF Rank

(* A comment raises the count of every place behind it. *)
LEMMA RankPassed ==
    ASSUME NEW q \in Nat, NEW p \in UpTo(q)
    PROVE  p \in Nat /\ p > 0 /\ p < q /\ Rank(p) + 1 <= Rank(q)
<1>1. p \in Nat /\ p > 0 /\ p < q /\ text[p] \in CommentAtoms
  BY DEF UpTo
<1>2. p + 1 \in Nat /\ p + 1 <= q
  BY <1>1
<1>3. Rank(p + 1) <= Rank(q)
  BY <1>2, RankGrows
<1> QED
  BY <1>1, <1>3, RankNext

LEMMA RankTells ==
    ASSUME NEW r \in Nat, NEW p \in UpTo(r), NEW q \in UpTo(r), Rank(p) = Rank(q)
    PROVE  p = q
<1>1. /\ p \in Nat /\ p > 0 /\ text[p] \in CommentAtoms
      /\ q \in Nat /\ q > 0 /\ text[q] \in CommentAtoms
  BY DEF UpTo
<1>2. Rank(p) \in Nat
  BY <1>1, RankIsNatural
<1>3. p < q => p \in UpTo(q)
  BY <1>1 DEF UpTo
<1>4. q < p => q \in UpTo(p)
  BY <1>1 DEF UpTo
<1>5. ~(p < q)
  BY <1>1, <1>2, <1>3, RankPassed
<1>6. ~(q < p)
  BY <1>1, <1>2, <1>4, RankPassed
<1> QED
  BY <1>1, <1>5, <1>6

LEMMA RankOver ==
    ASSUME NEW p \in Nat, NEW q \in Nat, p > 0, p <= q,
           \A i \in p..(q - 1) : text[i] \notin CommentAtoms
    PROVE  UpTo(p) = UpTo(q) /\ Rank(p) = Rank(q)
<1>1. UpTo(q) \subseteq UpTo(p)
  BY DEF UpTo
<1>2. UpTo(p) \subseteq UpTo(q)
  BY RankGrows
<1> QED
  BY <1>1, <1>2 DEF Rank

(* Every count below that of a place is some comment's. *)
LEMMA RankReached ==
    ASSUME NEW q \in Nat, NEW n \in Nat, n < Rank(q)
    PROVE  \E p \in UpTo(q) : Rank(p) = n
<1> DEFINE T == {m \in Nat : n < Rank(m)}
<1>1. T \in SUBSET Nat /\ T # {}
  OBVIOUS
<1>2. \E m \in T : \A k \in T : m <= k
  <2> HIDE DEF T
  <2> QED
    BY <1>1, Least
<1>3. PICK m \in T : \A k \in T : m <= k
  BY <1>2
<1>4. m \in Nat /\ n < Rank(m) /\ m <= q
  BY <1>3
<1>5. UpTo(0) = {} /\ UpTo(1) = {}
  BY DEF UpTo
<1>6. Rank(0) = 0 /\ Rank(1) = 0
  BY <1>5, FS_EmptySet DEF Rank
<1>7. m > 1
  BY <1>4, <1>6
<1>8. PICK p \in Nat : m = p + 1 /\ p > 0
  <2>1. m - 1 \in Nat /\ m = (m - 1) + 1 /\ m - 1 > 0
    BY <1>4, <1>7
  <2> QED
    BY <2>1
<1>9. p \notin T
  BY <1>3, <1>8
<1>10. ~(n < Rank(p))
  BY <1>8, <1>9
<1>11. text[p] \in CommentAtoms
  <2> SUFFICES ASSUME text[p] \notin CommentAtoms
               PROVE  FALSE
    OBVIOUS
  <2>1. p + 1 \in Nat /\ p <= p + 1 /\ \A i \in p..((p + 1) - 1) : text[i] \notin CommentAtoms
    BY <1>8
  <2>2. Rank(p) = Rank(p + 1)
    BY <1>8, <2>1, RankOver
  <2> QED
    BY <2>2, <1>4, <1>8, <1>10
<1>12. Rank(m) = Rank(p) + 1 /\ Rank(p) \in Nat
  BY <1>8, <1>11, RankNext, RankIsNatural
<1>13. p \in UpTo(q)
  BY <1>4, <1>8, <1>11 DEF UpTo
<1>14. Rank(p) = n
  BY <1>4, <1>10, <1>12
<1> QED
  BY <1>13, <1>14

LEMMA RankBetween ==
    ASSUME NEW p \in Nat, NEW q \in Nat, p > 0, p <= q
    PROVE  /\ Cardinality({i \in p..(q - 1) : text[i] \in CommentAtoms}) = Rank(q) - Rank(p)
           /\ Rank(q) - Rank(p) \in Nat
<1> DEFINE D == {i \in p..(q - 1) : text[i] \in CommentAtoms}
<1>1. UpTo(q) = UpTo(p) \cup D /\ UpTo(p) \cap D = {} /\ D \subseteq UpTo(q)
  BY DEF UpTo
<1>2. IsFiniteSet(UpTo(p)) /\ IsFiniteSet(UpTo(q)) /\ Rank(p) \in Nat /\ Rank(q) \in Nat
  BY RankIsNatural
<1> HIDE DEF D
<1>3. IsFiniteSet(D)
  BY <1>1, <1>2, FS_Subset
<1>4. Cardinality(UpTo(p) \cup D) = Cardinality(UpTo(p)) + Cardinality(D) - Cardinality(UpTo(p) \cap D)
  BY <1>2, <1>3, FS_Union
<1>5. Cardinality({}) = 0
  BY FS_EmptySet
<1>6. Cardinality(D) \in Nat
  BY <1>3, FS_CardinalityType
<1>7. Rank(q) = Rank(p) + Cardinality(D)
  <2>1. Rank(q) = Cardinality(UpTo(q)) /\ Rank(p) = Cardinality(UpTo(p))
    BY DEF Rank
  <2>2. Rank(q) = Rank(p) + Cardinality(D) - 0
    BY <1>1, <1>4, <1>5, <2>1
  <2> QED
    BY <1>2, <1>6, <2>2
<1>8. Cardinality(D) = Rank(q) - Rank(p)
  BY <1>2, <1>6, <1>7
<1> QED
  BY <1>6, <1>8 DEF D

(* What is listed between two places: the comments there, by their counts.   *)
LEMMA CommentsAreListed ==
    ASSUME NEW p \in Nat, NEW q \in Nat, p > 0, p <= q
    PROVE  /\ CommentsIn(p, q) \in Seq(Nat)
           /\ Len(CommentsIn(p, q)) = Rank(q) - Rank(p)
           /\ Rank(q) - Rank(p) \in Nat
           /\ \A i \in 1..(Rank(q) - Rank(p)) :
                 /\ CommentsIn(p, q)[i] \in UpTo(q) \ UpTo(p)
                 /\ Rank(CommentsIn(p, q)[i]) = Rank(p) + (i - 1)
<1> DEFINE D == {i \in p..(q - 1) : text[i] \in CommentAtoms}
<1> DEFINE n == Rank(q) - Rank(p)
<1> DEFINE s == CommentsIn(p, q)
<1> DEFINE place(i) == CHOOSE x \in D : Cardinality({y \in D : y < x}) = i - 1
<1>1. Cardinality(D) = n /\ n \in Nat /\ Rank(p) \in Nat /\ Rank(q) \in Nat
  BY RankBetween, RankIsNatural
<1>2. ASSUME NEW x \in D
      PROVE  /\ x \in Nat /\ p <= x /\ x \in UpTo(q) \ UpTo(p)
             /\ Cardinality({y \in D : y < x}) = Rank(x) - Rank(p)
             /\ Rank(x) \in Nat
  <2>1. x \in Nat /\ p <= x /\ x <= q - 1 /\ text[x] \in CommentAtoms
    OBVIOUS
  <2>2. {y \in D : y < x} = {i \in p..(x - 1) : text[i] \in CommentAtoms}
    BY <2>1
  <2>3. Rank(x) \in Nat /\ Cardinality({i \in p..(x - 1) : text[i] \in CommentAtoms}) = Rank(x) - Rank(p)
    BY <2>1, RankBetween, RankIsNatural
  <2>4. x \in UpTo(q) \ UpTo(p)
    BY <2>1 DEF UpTo
  <2> QED
    BY <2>1, <2>2, <2>3, <2>4
<1>3. ASSUME NEW x \in UpTo(q), Rank(x) >= Rank(p)
      PROVE  x \in D
  <2>1. x \in Nat /\ 1 <= x /\ x <= q - 1 /\ text[x] \in CommentAtoms
    BY DEF UpTo
  <2>2. x < p => x \in UpTo(p)
    BY <2>1 DEF UpTo
  <2>3. x < p => Rank(x) + 1 <= Rank(p)
    BY <2>2, RankPassed
  <2>4. Rank(x) \in Nat
    BY <2>1, RankIsNatural
  <2> QED
    BY <1>1, <1>3, <2>1, <2>3, <2>4
<1>4. s = [i \in 1..n |-> place(i)]
  BY <1>1 DEF CommentsIn, Listed
<1> HIDE DEF s, D
<1>5. ASSUME NEW i \in 1..n
      PROVE  s[i] \in D /\ Rank(s[i]) = Rank(p) + (i - 1)
  <2>1. Rank(p) + (i - 1) \in Nat /\ Rank(p) + (i - 1) < Rank(q) /\ Rank(p) + (i - 1) >= Rank(p)
    BY <1>1
  <2>2. PICK x \in UpTo(q) : Rank(x) = Rank(p) + (i - 1)
    BY <2>1, RankReached
  <2>3. x \in D
    BY <2>1, <2>2, <1>3
  <2>4. Cardinality({y \in D : y < x}) = Rank(x) - Rank(p)
    BY <2>3, <1>2
  <2>5. Cardinality({y \in D : y < x}) = i - 1
    BY <2>2, <2>4, <1>1
  <2>6. s[i] = place(i)
    BY <1>4
  <2>7. s[i] \in D /\ Cardinality({y \in D : y < s[i]}) = i - 1
    BY <2>3, <2>5, <2>6
  <2>8. Rank(s[i]) \in Nat /\ Cardinality({y \in D : y < s[i]}) = Rank(s[i]) - Rank(p)
    BY <2>7, <1>2
  <2> QED
    BY <2>7, <2>8, <1>1
<1>6. \A i \in 1..n : s[i] \in Nat /\ s[i] \in UpTo(q) \ UpTo(p) /\ Rank(s[i]) = Rank(p) + (i - 1)
  BY <1>5, <1>2
<1>7. \A i \in 1..n : place(i) \in Nat
  <2> HIDE DEF place
  <2> QED
    BY <1>4, <1>6
<1>8. s \in [1..n -> Nat]
  <2> HIDE DEF place
  <2> QED
    BY <1>4, <1>7
<1>9. s \in Seq(Nat) /\ Len(s) = n
  <2> HIDE DEF n
  <2>1. s \in Seq(Nat) /\ DOMAIN s = 1..n
    BY <1>1, <1>8
  <2> QED
    BY <2>1, <1>1
<1> QED
  BY <1>1, <1>6, <1>9 DEF s

---------------------------------------------------------------------------
(* The ledger *)

LEMMA LedgerOf ==
    ASSUME NEW l, NEW q \in Nat, NEW c, Ledger(l, q, c), NEW i \in 1..Len(l)
    PROVE  /\ i \in Nat /\ i > 0 /\ l[i] \in Comment /\ l[i].at \in Nat /\ l[i].at > 0 /\ l[i].at < q
           /\ l[i].at \in UpTo(q) /\ Rank(l[i].at) + 1 = i
           /\ l[i].owned <=> l[i].at \in c
           /\ l[i] = [at |-> l[i].at, owned |-> l[i].owned]
<1>1. /\ l[i].at \in UpTo(q) /\ Rank(l[i].at) = i - 1 /\ (l[i].owned <=> l[i].at \in c)
      /\ l \in Seq(Comment)
  BY DEF Ledger
<1>2. l[i] \in Comment /\ i \in Nat /\ i > 0
  BY <1>1
<1>3. l[i] = [at |-> l[i].at, owned |-> l[i].owned]
  BY <1>2 DEF Comment
<1>4. l[i].at \in Nat /\ l[i].at > 0 /\ l[i].at < q
  BY <1>1, RankPassed
<1> QED
  BY <1>1, <1>2, <1>3, <1>4

(* Every comment the lexer has passed is in the ledger.                      *)
LEMMA LedgerHas ==
    ASSUME NEW l, NEW q \in Nat, NEW c, Ledger(l, q, c), NEW p \in UpTo(q)
    PROVE  Rank(p) + 1 \in 1..Len(l) /\ l[Rank(p) + 1].at = p
<1>1. p \in Nat /\ Rank(p) + 1 <= Rank(q) /\ Rank(p) \in Nat
  BY RankPassed, RankIsNatural
<1>2. Len(l) = Rank(q)
  BY DEF Ledger
<1>3. Rank(p) + 1 \in 1..Len(l)
  BY <1>1, <1>2
<1>4. l[Rank(p) + 1].at \in UpTo(q) /\ Rank(l[Rank(p) + 1].at) = (Rank(p) + 1) - 1
  BY <1>3 DEF Ledger
<1>5. Rank(l[Rank(p) + 1].at) = Rank(p)
  BY <1>1, <1>4
<1>6. l[Rank(p) + 1].at = p
  BY <1>4, <1>5, RankTells
<1> QED
  BY <1>3, <1>6

LEMMA DrainedAre ==
    ASSUME NEW p \in Nat, NEW q \in Nat, p > 0, p <= q
    PROVE  /\ Drained(p, q) \in Seq(Comment)
           /\ Len(Drained(p, q)) = Rank(q) - Rank(p)
           /\ \A i \in 1..(Rank(q) - Rank(p)) :
                 /\ Drained(p, q)[i].at \in UpTo(q) \ UpTo(p)
                 /\ Rank(Drained(p, q)[i].at) = Rank(p) + (i - 1)
                 /\ ~Drained(p, q)[i].owned
<1> DEFINE s == CommentsIn(p, q)
<1> DEFINE n == Rank(q) - Rank(p)
<1> DEFINE d == Drained(p, q)
<1>1. /\ s \in Seq(Nat) /\ Len(s) = n /\ n \in Nat
      /\ \A i \in 1..n : s[i] \in UpTo(q) \ UpTo(p) /\ Rank(s[i]) = Rank(p) + (i - 1)
  BY CommentsAreListed
<1>2. d = [i \in DOMAIN s |-> [at |-> s[i], owned |-> FALSE]]
  BY DEF Drained
<1> HIDE DEF s, d, n
<1>3. DOMAIN s = 1..n
  BY <1>1
<1>4. \A i \in 1..n : s[i] \in Nat
  BY <1>1
<1>5. \A i \in 1..n : /\ d[i] = [at |-> s[i], owned |-> FALSE]
                      /\ [at |-> s[i], owned |-> FALSE] \in Comment
  BY <1>2, <1>3, <1>4 DEF Comment
<1>6. d \in [1..n -> Comment]
  BY <1>2, <1>3, <1>4 DEF Comment
<1>7. d \in Seq(Comment) /\ DOMAIN d = 1..n
  BY <1>1, <1>6
<1>8. Len(d) = n
  BY <1>1, <1>7
<1>9. ASSUME NEW i \in 1..n
      PROVE  d[i].at = s[i] /\ ~d[i].owned
  <2>1. d[i] = [at |-> s[i], owned |-> FALSE]
    BY <1>5
  <2>2. d[i].at = s[i]
    BY <2>1
  <2>3. ~d[i].owned
    <3>1. \A x : [at |-> x, owned |-> FALSE].owned = FALSE
      OBVIOUS
    <3> QED
      BY <2>1, <3>1
  <2> QED
    BY <2>2, <2>3
<1> QED
  BY <1>1, <1>7, <1>8, <1>9 DEF n, d

(* What is drained on the way to a place completes the ledger up to it.      *)
LEMMA LedgerGrows ==
    ASSUME NEW l, NEW p \in Nat, NEW q \in Nat, p > 0, p <= q,
           NEW c, c \subseteq UpTo(p), Ledger(l, p, c)
    PROVE  /\ Ledger(l \o Drained(p, q), q, c)
           /\ Len(l) <= Len(l \o Drained(p, q))
           /\ \A i \in 1..Len(l) : (l \o Drained(p, q))[i] = l[i]
<1> DEFINE d == Drained(p, q)
<1> DEFINE m == l \o d
<1>1. /\ d \in Seq(Comment) /\ Len(d) = Rank(q) - Rank(p)
      /\ \A i \in 1..(Rank(q) - Rank(p)) : /\ d[i].at \in UpTo(q) \ UpTo(p)
                                           /\ Rank(d[i].at) = Rank(p) + (i - 1)
                                           /\ ~d[i].owned
  BY DrainedAre
<1>2. l \in Seq(Comment) /\ Len(l) = Rank(p)
  BY DEF Ledger
<1>3. Rank(p) \in Nat /\ Rank(q) \in Nat /\ UpTo(p) \subseteq UpTo(q)
  BY RankIsNatural, RankGrows
<1> HIDE DEF d
<1>4. /\ m \in Seq(Comment) /\ Len(m) = Len(l) + Len(d)
      /\ \A i \in 1..Len(l) : m[i] = l[i]
      /\ \A i \in 1..Len(d) : m[i + Len(l)] = d[i]
  <2>1. /\ m \in Seq(Comment) /\ Len(m) = Len(l) + Len(d)
        /\ \A i \in 1..(Len(l) + Len(d)) : m[i] = IF i <= Len(l) THEN l[i] ELSE d[i - Len(l)]
    BY ZenonT(60), <1>1, <1>2, ConcatProperties
  <2>2. Len(l) \in Nat /\ Len(d) \in Nat
    BY <1>1, <1>2
  <2> HIDE DEF m
  <2>3. ASSUME NEW i \in 1..Len(d)
        PROVE  m[i + Len(l)] = d[i]
    <3>1. i + Len(l) \in 1..(Len(l) + Len(d)) /\ ~(i + Len(l) <= Len(l)) /\ (i + Len(l)) - Len(l) = i
      BY <2>2
    <3> QED
      BY <2>1, <3>1
  <2>4. \A i \in 1..Len(l) : m[i] = l[i]
    BY <2>1, <2>2
  <2> QED
    BY <2>1, <2>3, <2>4
<1> HIDE DEF m
<1>5. Len(m) = Rank(q) /\ Len(l) <= Len(m)
  BY SMTT(60), <1>1, <1>2, <1>3, <1>4
<1>6. ASSUME NEW i \in 1..Len(m)
      PROVE  m[i].at \in UpTo(q) /\ Rank(m[i].at) = i - 1 /\ (m[i].owned <=> m[i].at \in c)
  <2>1. CASE i <= Len(l)
    <3>1. i \in 1..Len(l) /\ m[i] = l[i]
      BY <1>4, <2>1, <1>5, <1>2, <1>3
    <3>2. l[i].at \in UpTo(p) /\ Rank(l[i].at) = i - 1 /\ (l[i].owned <=> l[i].at \in c)
      BY <3>1 DEF Ledger
    <3> QED
      BY <3>1, <3>2, <1>3
  <2>2. CASE ~(i <= Len(l))
    <3>1. PICK k \in 1..Len(d) : i = k + Len(l)
      <4>1. i - Len(l) \in 1..Len(d) /\ i = (i - Len(l)) + Len(l)
        BY SMTT(60), <1>1, <1>2, <1>3, <1>5, <2>2
      <4> QED
        BY <4>1
    <3>2. m[i] = d[k]
      BY <1>4, <3>1
    <3>3. /\ d[k].at \in UpTo(q) \ UpTo(p) /\ Rank(d[k].at) = Rank(p) + (k - 1)
          /\ ~d[k].owned
      BY <1>1, <3>1
    <3>4. d[k].at \notin c
      BY <3>3
    <3>5. Rank(p) + (k - 1) = i - 1
      BY SMTT(60), <1>2, <1>3, <3>1
    <3> QED
      BY <3>2, <3>3, <3>4, <3>5
  <2> QED
    BY <2>1, <2>2
<1>7. Ledger(m, q, c)
  BY <1>4, <1>5, <1>6 DEF Ledger
<1> QED
  BY <1>4, <1>5, <1>7 DEF m, d

(* Cut to the comments before a place, a ledger is that of the place.        *)
LEMMA LedgerCut ==
    ASSUME NEW l, NEW p \in Nat, NEW q \in Nat, p <= q, NEW c, NEW d, Ledger(l, q, c),
           \A x \in UpTo(p) : x \in c <=> x \in d
    PROVE  /\ Rank(p) \in 0..Len(l) /\ Ledger(SubSeq(l, 1, Rank(p)), p, d)
           /\ \A i \in 1..Rank(p) : SubSeq(l, 1, Rank(p))[i] = l[i]
<1> DEFINE n == Rank(p)
<1> DEFINE m == SubSeq(l, 1, n)
<1>1. l \in Seq(Comment) /\ Len(l) = Rank(q)
  BY DEF Ledger
<1>2. Rank(p) \in Nat /\ Rank(q) \in Nat /\ Rank(p) <= Rank(q)
  BY RankIsNatural, RankGrows
<1>3. n \in 0..Len(l)
  BY <1>1, <1>2
<1>4. /\ m \in Seq(Comment) /\ Len(m) = n
      /\ \A i \in 1..n : m[i] = l[i]
  <2> HIDE DEF n
  <2> QED
    BY <1>1, <1>3, Prefix
<1>5. ASSUME NEW i \in 1..n
      PROVE  m[i].at \in UpTo(p) /\ Rank(m[i].at) = i - 1 /\ (m[i].owned <=> m[i].at \in d)
  <2>1. m[i] = l[i] /\ i \in 1..Len(l)
    BY <1>3, <1>4
  <2>2. l[i].at \in UpTo(q) /\ Rank(l[i].at) = i - 1 /\ (l[i].owned <=> l[i].at \in c)
    BY <2>1 DEF Ledger
  <2>3. l[i].at \in Nat /\ l[i].at > 0 /\ text[l[i].at] \in CommentAtoms
    BY <2>2 DEF UpTo
  <2>4. p <= l[i].at => Rank(p) <= Rank(l[i].at)
    BY <2>3, RankGrows
  <2>5. ~(p <= l[i].at)
    BY <1>2, <2>2, <2>4
  <2>6. l[i].at \in UpTo(p)
    BY <2>3, <2>5 DEF UpTo
  <2> QED
    BY <2>1, <2>2, <2>6
<1>6. Ledger(m, p, d)
  <2> HIDE DEF m
  <2> QED
    BY <1>4, <1>5 DEF Ledger
<1> QED
  BY <1>3, <1>4, <1>6

(* What is dropped before a second lexing are the comments from its place on. *)
LEMMA LedgerDropped ==
    ASSUME NEW l, NEW p \in Nat, NEW q \in Nat, p <= q, NEW c, Ledger(l, q, c)
    PROVE  DroppedFrom(l, p) = SubSeq(l, 1, Rank(p))
<1> DEFINE P(n) == /\ n > 0 => l[n].at < p
                   /\ \A later \in (n + 1)..Len(l) : l[later].at >= p
<1>1. l \in Seq(Comment) /\ Len(l) = Rank(q)
  BY DEF Ledger
<1>2. Rank(p) \in Nat /\ Rank(q) \in Nat /\ Rank(p) <= Rank(q)
  BY RankIsNatural, RankGrows
<1>3. ASSUME NEW i \in 1..Len(l)
      PROVE  l[i].at < p <=> i <= Rank(p)
  <2>1. PICK x \in Nat : x = l[i].at
    BY LedgerOf
  <2>2. x \in UpTo(q) /\ Rank(x) + 1 = i /\ i \in Nat /\ x > 0
    BY ZenonT(60), <2>1, LedgerOf
  <2>3. x < p => x \in UpTo(p)
    BY <2>1, <2>2 DEF UpTo
  <2>4. x < p => Rank(x) + 1 <= Rank(p)
    BY <2>3, RankPassed
  <2>5. p <= x => Rank(p) <= Rank(x)
    BY RankGrows
  <2>6. Rank(x) \in Nat
    BY RankIsNatural
  <2> QED
    BY SMTT(60), <2>1, <2>2, <2>4, <2>5, <2>6, <1>2
<1>4. Rank(p) \in 0..Len(l) /\ P(Rank(p))
  <2>1. Rank(p) \in 0..Len(l)
    BY <1>1, <1>2
  <2>2. Rank(p) > 0 => l[Rank(p)].at < p
    BY <2>1, <1>2, <1>3
  <2>3. ASSUME NEW k \in (Rank(p) + 1)..Len(l)
        PROVE  l[k].at >= p
    <3>1. k \in 1..Len(l) /\ ~(k <= Rank(p))
      BY <1>1, <1>2
    <3>2. l[k].at \in Nat
      BY <3>1, LedgerOf
    <3> QED
      BY <1>3, <3>1, <3>2
  <2> QED
    BY <2>1, <2>2, <2>3
<1>5. PICK n \in 0..Len(l) : /\ P(n) /\ DroppedFrom(l, p) = SubSeq(l, 1, n)
  <2> DEFINE k == CHOOSE n \in 0..Len(l) : P(n)
  <2>1. k \in 0..Len(l) /\ P(k)
    <3> HIDE DEF P
    <3> QED
      BY <1>4
  <2>2. DroppedFrom(l, p) = SubSeq(l, 1, k)
    BY DEF DroppedFrom
  <2> HIDE DEF k
  <2> QED
    BY <2>1, <2>2
<1>6. n \in Nat /\ n <= Len(l) /\ Len(l) \in Nat
  BY <1>1, <1>2
<1>7. ~(n > Rank(p))
  <2> SUFFICES ASSUME n > Rank(p)
               PROVE  FALSE
    OBVIOUS
  <2>1. n \in 1..Len(l) /\ n > 0
    BY <1>2, <1>6
  <2>2. l[n].at < p
    BY <1>5, <2>1
  <2> QED
    BY <1>2, <1>3, <1>6, <2>1, <2>2
<1>8. ~(n < Rank(p))
  <2> SUFFICES ASSUME n < Rank(p)
               PROVE  FALSE
    OBVIOUS
  <2>1. n + 1 \in 1..Len(l) /\ n + 1 \in (n + 1)..Len(l) /\ n + 1 <= Rank(p)
    BY <1>1, <1>2, <1>6
  <2>2. l[n + 1].at >= p
    BY <1>5, <2>1
  <2>3. l[n + 1].at < p /\ l[n + 1].at \in Nat
    BY <1>3, <2>1, LedgerOf
  <2> QED
    BY <2>2, <2>3
<1>9. n = Rank(p)
  BY <1>2, <1>6, <1>7, <1>8
<1> QED
  BY <1>5, <1>9

---------------------------------------------------------------------------
(* The window's steps *)

LEMMA WindowPlaces ==
    ASSUME text \in Seq(Atoms), NEW w, WindowOK(w)
    PROVE  /\ w \in Windows /\ w.current \in Tokens /\ w.current.start \in Nat /\ w.current.end \in Nat
           /\ w.current.end \in 1..Past
           /\ w.prevEnd \in Nat /\ w.cursor \in Nat /\ Past \in Nat
           /\ 1 <= w.prevEnd /\ w.prevEnd <= w.current.start
           /\ w.current.start <= w.current.end /\ w.current.end <= Past
           /\ w.current.start < Past => w.current.start < w.current.end
           /\ w.current.kind # <<>> => w.current.start < Past
<1>1. w \in Windows /\ TokenOK(w.current) /\ 1 <= w.prevEnd /\ w.prevEnd <= w.current.start
  BY DEF WindowOK
<1>2. /\ w.current \in Tokens /\ w.current.start \in Nat \ {0} /\ w.current.end \in Nat
      /\ w.current.start <= w.current.end /\ w.current.end <= Past /\ Past \in Nat
      /\ w.current.start < Past => w.current.start < w.current.end
      /\ w.current.kind # <<>> => w.current.start < Past
  BY <1>1, TokenHasText
<1>3. w.prevEnd \in Nat /\ w.cursor \in Nat
  BY <1>1 DEF Windows
<1> QED
  BY <1>1, <1>2, <1>3

(* A token that does not begin with a blank holds none.                      *)
LEMMA TokenIsDark ==
    ASSUME text \in Seq(Atoms), NEW t, TokenOK(t), t.start < Past, text[t.start] \notin Blank,
           NEW i \in t.start..(t.end - 1)
    PROVE  text[i] \notin Blank
<1>1. PICK a \in Nat \ {0}, e \in Nat : a = t.start /\ e = t.end
  BY TokenHasText
<1>2. /\ t.kind \in Seq(Atoms) /\ Len(t.kind) = e - a /\ a < e /\ i \in a..(e - 1)
      /\ \A k \in 1..(e - a) : t.kind[k] = text[a + k - 1]
  BY <1>1, TokenHasText
<1>3. PICK j \in Nat : j = i /\ a <= j /\ j <= e - 1
  <2>1. i \in a..(e - 1)
    BY <1>1
  <2> QED
    BY <2>1
<1>4. CASE e = a + 1
  <2>1. j = a
    BY <1>4, <1>3
  <2> QED
    BY <1>1, <1>3, <2>1
<1>5. CASE t.kind \in Operators
  <2>1. PICK k \in Nat : k = j - a + 1
    BY <1>3
  <2>2. k \in 1..(e - a) /\ a + k - 1 = j /\ k \in 1..Len(t.kind)
    BY SMTT(60), <1>2, <1>3, <2>1
  <2>3. t.kind[k] = text[i]
    <3>1. t.kind[k] = text[a + k - 1]
      BY ZenonT(60), <1>2, <2>2
    <3> QED BY ZenonT(60), <1>3, <2>2, <3>1
  <2>4. t.kind[k] \in {"<", ">", "="}
    BY <1>5, <2>2, OperatorsAreSymbols
  <2> QED
    BY <2>3, <2>4 DEF Blank, CommentAtoms, Block
<1> QED
  BY <1>1, <1>4, <1>5 DEF TokenOK

(* What lies between a place and where Fetch leaves the lexer is drained.    *)
LEMMA FetchDrains ==
    ASSUME text \in Seq(Atoms), NEW p \in 1..Past
    PROVE  \E q \in p..Past :
              /\ Fetch(p).drained = Drained(p, q)
              /\ q \in Nat /\ Fetch(p).cursor \in Nat /\ q <= Fetch(p).cursor /\ Fetch(p).cursor <= Past
              /\ UpTo(q) = UpTo(Fetch(p).cursor)
              /\ Fetch(p).token.start = q
              /\ q < Past => text[q] \notin Blank
              /\ ~Fetch(p).bad => Fetch(p).cursor = Fetch(p).token.end
<1>1. PICK q \in p..Past :
              /\ q = Past \/ text[q] \notin Blank
              /\ Fetch(p).token = TokenAt(q)
              /\ Fetch(p).cursor = IF Fetch(p).bad THEN q ELSE TokenAt(q).end
              /\ Fetch(p).drained = Drained(p, q)
  BY FetchFinds
<1>2. Past \in Nat
  BY DEF Past
<1>3. q \in Nat /\ q > 0 /\ q \in 1..Past /\ q <= Past
  BY <1>2
<1>4. PICK u : u = TokenAt(q)
  OBVIOUS
<1>5. TokenOK(u) /\ u.start = q
  BY <1>3, <1>4, TokenIsSpelled
<1>6. u.end \in Nat /\ q <= u.end /\ u.end <= Past
  BY <1>5, TokenHasText
<1>7. q < Past => text[q] \notin Blank
  BY <1>1, <1>3
<1>8. \A i \in q..(u.end - 1) : text[i] \notin CommentAtoms
  <2> SUFFICES ASSUME NEW i \in q..(u.end - 1)
               PROVE  text[i] \notin CommentAtoms
    OBVIOUS
  <2>1. q < Past
    BY <1>2, <1>3, <1>6
  <2>2. text[i] \notin Blank
    BY <1>5, <1>7, <2>1, TokenIsDark
  <2> QED
    BY <2>2 DEF Blank
<1>9. UpTo(q) = UpTo(u.end)
  BY <1>3, <1>6, <1>8, RankOver
<1> QED
  BY <1>1, <1>2, <1>3, <1>4, <1>5, <1>6, <1>7, <1>9

LEMMA SameLedger ==
    ASSUME NEW l, NEW p, NEW q, NEW c, Ledger(l, p, c), UpTo(p) = UpTo(q)
    PROVE  Ledger(l, q, c)
BY DEF Ledger, Rank

LEMMA FetchedLedger ==
    ASSUME text \in Seq(Atoms), NEW p \in 1..Past, NEW c, c \subseteq UpTo(p),
           NEW l, Ledger(l, p, c)
    PROVE  LET m == l \o Fetch(p).drained IN
           /\ Ledger(m, Fetch(p).cursor, c)
           /\ Len(l) <= Len(m) /\ \A i \in 1..Len(l) : m[i] = l[i]
<1>1. Past \in Nat /\ p \in Nat /\ p > 0
  BY DEF Past
<1>2. PICK q \in p..Past : /\ Fetch(p).drained = Drained(p, q)
                           /\ q \in Nat /\ UpTo(q) = UpTo(Fetch(p).cursor)
  BY FetchDrains
<1>3. p <= q
  BY <1>1
<1>4. /\ Ledger(l \o Drained(p, q), q, c)
      /\ Len(l) <= Len(l \o Drained(p, q))
      /\ \A i \in 1..Len(l) : (l \o Drained(p, q))[i] = l[i]
  BY <1>1, <1>2, <1>3, LedgerGrows
<1>5. Ledger(l \o Drained(p, q), Fetch(p).cursor, c)
  BY <1>2, <1>4, SameLedger
<1> QED
  BY <1>2, <1>4, <1>5

(* A step leaves tokens behind, never their text. *)
Passed(w, v) ==
    /\ w.prevEnd <= v.prevEnd /\ w.current.end <= v.current.end
    /\ w.current.end <= v.cursor

LEMMA AdvancedKeeps ==
    ASSUME text \in Seq(Atoms), NEW w, WindowOK(w), NEW c, Settled(w, c),
           NEW l, Ledger(l, w.cursor, c), w.current.start < Past,
           Advanced(w, l).ok,
           NEW v, v = Advanced(w, l).window, NEW m, m = Advanced(w, l).comments
    PROVE  /\ WindowOK(v) /\ Ledger(m, v.cursor, c) /\ Settled(v, c) /\ Passed(w, v)
           /\ v.prevEnd = w.current.end /\ w.cursor <= v.current.end
           /\ Len(l) <= Len(m) /\ \A i \in 1..Len(l) : m[i] = l[i]
<1>1. WindowOK(v) /\ v.prevEnd = w.current.end
  BY AdvancedIsOnward
<1>2. ~w.error
  BY DEF Advanced
<1>3. PICK e \in Nat : e = w.current.end
  BY WindowPlaces
<1>4. e \in 1..Past /\ Past \in Nat /\ w.current.start < e /\ w.current.start \in Nat
  BY <1>3, WindowPlaces
<1>5. PICK f : f = Fetch(e)
  OBVIOUS
<1>6. PICK q \in e..Past : /\ f.cursor \in Nat /\ q \in Nat /\ q <= f.cursor /\ f.cursor <= Past
                           /\ f.token.start = q
                           /\ q < Past => text[q] \notin Blank
                           /\ ~f.bad => f.cursor = f.token.end
  BY <1>4, <1>5, FetchDrains
<1>7. c \subseteq UpTo(w.prevEnd) /\ w.prevEnd \in Nat /\ w.prevEnd <= e
  BY SMTT(60), <1>3, <1>4, WindowPlaces DEF Settled
<1>8. c \subseteq UpTo(e)
  BY <1>7, RankGrows
<1>9. /\ ~f.bad /\ v.current = f.token /\ v.cursor = f.cursor
      /\ w.cursor <= f.cursor /\ w.cursor \in Nat
      /\ Ledger(m, v.cursor, c)
      /\ Len(l) <= Len(m) /\ \A i \in 1..Len(l) : m[i] = l[i]
  <2>1. CASE w.peek # NoToken
    <3>1. ~f.bad /\ w.peek = f.token /\ w.cursor = f.cursor
      BY <1>3, <1>5, <2>1 DEF WindowOK
    <3>2. /\ v = [w EXCEPT !.prevEnd = w.current.end, !.current = w.peek,
                           !.peek = NoToken, !.broken = w.peekBroken]
          /\ m = l
      BY <1>2, <2>1 DEF Advanced
    <3>3. w \in Windows
      BY DEF WindowOK
    <3>4. v.current = w.peek /\ v.cursor = w.cursor
      BY <3>2, <3>3 DEF Windows
    <3>5. Len(l) \in Nat
      BY DEF Ledger
    <3> QED
      BY <1>6, <3>1, <3>2, <3>4, <3>5
  <2>2. CASE w.peek = NoToken
    <3>1. w.cursor = e
      BY <1>2, <1>3, <2>2 DEF WindowOK
    <3>2. /\ v = [w EXCEPT !.prevEnd = w.current.end, !.current = f.token,
                           !.broken = f.broken, !.cursor = f.cursor]
          /\ m = l \o f.drained /\ ~f.bad
      BY <1>2, <1>5, <2>2, <3>1 DEF Advanced
    <3>3. w \in Windows
      BY DEF WindowOK
    <3>4. v.current = f.token /\ v.cursor = f.cursor
      BY <3>2, <3>3 DEF Windows
    <3>5. Ledger(l, e, c)
      BY <3>1
    <3>6. Ledger(m, f.cursor, c) /\ Len(l) <= Len(m) /\ \A i \in 1..Len(l) : m[i] = l[i]
      BY SMTT(60), <1>4, <1>5, <1>8, <3>2, <3>5, FetchedLedger
    <3> QED
      BY <1>3, <1>4, <1>6, <3>1, <3>2, <3>4, <3>6
  <2> QED
    BY <2>1, <2>2
<1>10. v.current.end = v.cursor /\ v.current.start = q /\ v.cursor = f.cursor
  BY <1>6, <1>9
<1>11. Settled(v, c)
  <2>1. w.current.start < Past => text[w.current.start] \notin Blank
    BY DEF Settled
  <2>2. e - 1 \in w.current.start..(w.current.end - 1)
    BY SMTT(60), <1>3, <1>4
  <2>3. TokenOK(w.current)
    BY DEF WindowOK
  <2>4. text[e - 1] \notin Blank
    BY <2>1, <2>2, <2>3, TokenIsDark
  <2>5. v \in Windows
    BY <1>1 DEF WindowOK
  <2>6. v.current.start < Past => text[v.current.start] \notin Blank
    BY <1>6, <1>10
  <2>7. v.prevEnd = e
    BY <1>1, <1>3
  <2>8. v.current.end <= v.cursor /\ v.cursor <= Past
    BY <1>6, <1>10
  <2> QED
    BY <1>8, <2>4, <2>5, <2>6, <2>7, <2>8 DEF Settled
<1>12. Passed(w, v)
  <2>1. v.prevEnd = e /\ w.current.end = e /\ w.prevEnd <= e
    BY <1>1, <1>3, <1>7
  <2>2. e <= f.cursor
    BY <1>4, <1>6
  <2> QED
    BY <1>10, <2>1, <2>2 DEF Passed
<1> QED
  BY <1>1, <1>9, <1>10, <1>11, <1>12

LEMMA Kinds ==
    ASSUME NEW k
    PROVE  /\ k \in {<<">", ">">>, <<">", ">", ">">>} => k \in Narrowable /\ k # <<">">>
           /\ k = <<"<", "<">> => k \in Narrowable /\ k # <<"<">>
           /\ k \in Less \cup Narrowable \cup Relexable => k # <<>>
           /\ k \in Less => ~(k # <<>> /\ Head(k) = ">")
<1>1. k \in {<<">", ">">>, <<">", ">", ">">>} => k \in Narrowable /\ k # <<">">>
  BY DEF Narrowable
<1>2. k = <<"<", "<">> => k \in Narrowable /\ k # <<"<">>
  BY DEF Narrowable
<1>3. k \in Less \cup Narrowable \cup Relexable => k # <<>>
  BY DEF Less, Narrowable, Relexable
<1>4. k \in Less => Head(k) = "<"
  BY DEF Less
<1> QED
  BY <1>1, <1>2, <1>3, <1>4

(* What every step of the window keeps. *)
Steps(w, c, v, m) == WindowOK(v) /\ Ledger(m, v.cursor, c) /\ Settled(v, c) /\ Passed(w, v)

LEMMA NarrowedKeeps ==
    ASSUME text \in Seq(Atoms), NEW w, WindowOK(w), NEW c, Settled(w, c),
           NEW l, Ledger(l, w.cursor, c), w.current.kind \in Narrowable,
           NEW v, v = Narrowed(w, l).window, NEW m, m = Narrowed(w, l).comments
    PROVE  /\ Steps(w, c, v, m)
           /\ v.current.kind = Tail(w.current.kind) /\ v.cursor = w.cursor
<1>1. WindowOK(v)
  BY NarrowedIsOnward DEF Onward
<1>2. PICK a \in Nat, e \in Nat : a = w.current.start /\ e = w.current.end
  BY WindowPlaces
<1>3. TokenOK(w.current) /\ w \in Windows
  BY DEF WindowOK
<1>4. Len(w.current.kind) \in 2..4
  BY TailsAreOperators
<1>5. w.current.kind # <<>>
  BY Kinds
<1>6. a < Past /\ e <= Past /\ Past \in Nat /\ a > 0 /\ Len(w.current.kind) = e - a
  <2>1. a < Past /\ e <= Past /\ Past \in Nat
    BY <1>2, <1>5, WindowPlaces
  <2>2. a > 0 /\ Len(w.current.kind) = e - a
    BY SMTT(60), <1>2, <1>3, TokenHasText
  <2> QED
    BY <2>1, <2>2
<1>7. a + 1 < e
  BY SMTT(60), <1>2, <1>4, <1>6
<1>8. text[a] \notin Blank /\ text[a + 1] \notin Blank
  <2>1. text[a] \notin Blank
    BY <1>2, <1>6 DEF Settled
  <2>2. a + 1 \in w.current.start..(w.current.end - 1)
    BY SMTT(60), <1>2, <1>7
  <2> QED
    BY <1>2, <1>3, <1>6, <2>1, <2>2, TokenIsDark
<1>9. /\ m = l
      /\ v.current = [kind |-> Tail(w.current.kind), start |-> w.current.start + 1,
                      end |-> w.current.end]
      /\ v.prevEnd = w.current.start + 1 /\ v.cursor = w.cursor
  <2>1. v = [w EXCEPT !.current = [kind |-> Tail(w.current.kind), start |-> w.current.start + 1,
                                   end |-> w.current.end], !.prevEnd = w.current.start + 1]
    BY DEF Narrowed
  <2>2. m = l
    BY DEF Narrowed
  <2> QED
    BY <1>3, <2>1, <2>2 DEF Windows
<1>10. v.current.start = a + 1 /\ v.current.end = e /\ v.prevEnd = a + 1
       /\ v.current.kind = Tail(w.current.kind)
  BY <1>2, <1>9
<1>11. c \subseteq UpTo(a + 1)
  <2>1. c \subseteq UpTo(w.prevEnd) /\ w.prevEnd \in Nat /\ w.prevEnd <= a + 1
    BY <1>2, WindowPlaces DEF Settled
  <2> QED
    BY <2>1, RankGrows
<1>12. e <= w.cursor /\ w.cursor <= Past /\ w.cursor \in Nat
  BY <1>2, WindowPlaces DEF Settled
<1>13. Settled(v, c)
  <2>1. v \in Windows
    BY <1>1 DEF WindowOK
  <2>2. (a + 1) - 1 = a
    BY <1>6
  <2> QED
    BY SMTT(60), <1>8, <1>9, <1>10, <1>11, <1>12, <2>1, <2>2 DEF Settled
<1>14. Passed(w, v)
  <2>1. w.prevEnd \in Nat /\ w.prevEnd <= a
    BY <1>2, WindowPlaces
  <2> QED
    BY SMTT(60), <1>2, <1>6, <1>9, <1>10, <1>12, <2>1 DEF Passed
<1> QED
  BY <1>1, <1>9, <1>10, <1>13, <1>14 DEF Steps

LEMMA RelexedKeeps ==
    ASSUME text \in Seq(Atoms), NEW w, WindowOK(w), NEW c, Settled(w, c),
           NEW l, Ledger(l, w.cursor, c), w.current.kind \in Relexable,
           NEW v, v = Relexed(w, l).window, NEW m, m = Relexed(w, l).comments
    PROVE  Steps(w, c, v, m)
<1>1. WindowOK(v) /\ v.current.end >= w.current.end /\ v.cursor = v.current.end
  BY RelexedIsOnward DEF Onward
<1>2. PICK a \in Nat, e \in Nat : a = w.current.start /\ e = w.current.end
  BY WindowPlaces
<1>3. TokenOK(w.current) /\ w \in Windows
  BY DEF WindowOK
<1>4. Len(w.current.kind) \in 2..4
  BY TailsAreOperators
<1>5. w.current.kind # <<>>
  BY Kinds
<1>6. a < Past /\ e <= Past /\ Past \in Nat /\ a > 0 /\ Len(w.current.kind) = e - a
  <2>1. a < Past /\ e <= Past /\ Past \in Nat
    BY <1>2, <1>5, WindowPlaces
  <2>2. a > 0 /\ Len(w.current.kind) = e - a
    BY SMTT(60), <1>2, <1>3, TokenHasText
  <2> QED
    BY <2>1, <2>2
<1>7. PICK from \in Nat : from = a + 1
  OBVIOUS
<1>8. from < e /\ from - 1 = a /\ from \in 1..Past /\ from < Past
  BY SMTT(60), <1>2, <1>4, <1>6, <1>7
<1>9. text[a] \notin Blank /\ text[from] \notin Blank
  <2>1. text[a] \notin Blank
    BY <1>2, <1>6 DEF Settled
  <2>2. from \in w.current.start..(w.current.end - 1)
    BY SMTT(60), <1>2, <1>7, <1>8
  <2> QED
    BY <1>2, <1>3, <1>6, <2>1, <2>2, TokenIsDark
<1>10. m = DroppedFrom(l, from) /\ v.current = TokenAt(from) /\ v.prevEnd = from
  <2>1. m = DroppedFrom(l, w.current.start + 1)
    BY DEF Relexed
  <2>2. v = [w EXCEPT !.current = TokenAt(w.current.start + 1), !.prevEnd = w.current.start + 1,
                      !.peek = NoToken, !.cursor = TokenAt(w.current.start + 1).end]
    BY DEF Relexed
  <2> QED
    BY <1>2, <1>3, <1>7, <2>1, <2>2 DEF Windows
<1>11. TokenOK(v.current) /\ v.current.start = from
  BY <1>8, <1>10, TokenIsSpelled
<1>12. PICK z \in Nat : z = v.current.end /\ from <= z /\ z <= Past
  BY <1>11, TokenHasText
<1>13. UpTo(from) = UpTo(z)
  <2>1. \A i \in from..(z - 1) : text[i] \notin CommentAtoms
    <3> SUFFICES ASSUME NEW i \in from..(z - 1)
                 PROVE  text[i] \notin CommentAtoms
      OBVIOUS
    <3>1. i \in v.current.start..(v.current.end - 1)
      BY <1>11, <1>12
    <3>2. text[i] \notin Blank
      BY <1>8, <1>9, <1>11, <3>1, TokenIsDark
    <3> QED
      BY <3>2 DEF Blank
  <2> QED
    BY SMTT(60), <1>8, <1>12, <2>1, RankOver
<1>14. e <= w.cursor /\ w.cursor \in Nat
  BY <1>2, WindowPlaces DEF Settled
<1>15. Ledger(m, v.cursor, c)
  <2>1. from <= w.cursor
    BY <1>8, <1>14
  <2>2. Ledger(SubSeq(l, 1, Rank(from)), from, c)
    BY <1>14, <2>1, LedgerCut
  <2>3. m = SubSeq(l, 1, Rank(from))
    BY <1>10, <1>14, <2>1, LedgerDropped
  <2> QED
    BY <1>1, <1>12, <1>13, <2>2, <2>3, SameLedger
<1>16. c \subseteq UpTo(from)
  <2>1. c \subseteq UpTo(w.prevEnd) /\ w.prevEnd \in Nat /\ w.prevEnd <= from
    BY SMTT(60), <1>2, <1>7, WindowPlaces DEF Settled
  <2> QED
    BY <2>1, RankGrows
<1>17. Settled(v, c)
  <2>1. v \in Windows
    BY <1>1 DEF WindowOK
  <2> QED
    BY <1>1, <1>8, <1>9, <1>10, <1>11, <1>12, <1>16, <2>1 DEF Settled
<1>18. Passed(w, v)
  <2>1. w.prevEnd \in Nat /\ w.prevEnd <= a
    BY <1>2, WindowPlaces
  <2> QED
    BY <1>1, <1>2, <1>7, <1>10, <1>12, <2>1 DEF Passed
<1> QED
  BY <1>1, <1>15, <1>17, <1>18 DEF Steps

LEMMA GreaterSplitKeeps ==
    ASSUME text \in Seq(Atoms), NEW w, WindowOK(w), NEW c, Settled(w, c),
           NEW l, Ledger(l, w.cursor, c),
           w.current.kind # <<>>, Head(w.current.kind) = ">", GreaterSplit(w, l).ok,
           NEW v, v = GreaterSplit(w, l).window, NEW m, m = GreaterSplit(w, l).comments
    PROVE  Steps(w, c, v, m)
<1>1. TokenOK(w.current)
  BY DEF WindowOK
<1>2. w.current.start < Past
  BY <1>1, TokenHasText
<1>3. CASE w.current.kind = <<">">>
  <2>1. GreaterSplit(w, l) = Advanced(w, l)
    BY <1>3 DEF GreaterSplit
  <2>2. /\ Advanced(w, l).ok /\ v = Advanced(w, l).window /\ m = Advanced(w, l).comments
    BY <2>1
  <2> QED
    BY <1>2, <2>2, AdvancedKeeps DEF Steps
<1>4. CASE w.current.kind \in {<<">", ">">>, <<">", ">", ">">>}
  <2>1. w.current.kind \in Narrowable /\ w.current.kind # <<">">>
    BY <1>4, Kinds
  <2>2. GreaterSplit(w, l) = Narrowed(w, l)
    BY <1>4, <2>1 DEF GreaterSplit
  <2>3. v = Narrowed(w, l).window /\ m = Narrowed(w, l).comments
    BY <2>2
  <2> QED
    BY <2>1, <2>3, NarrowedKeeps
<1>5. CASE w.current.kind \notin {<<">">>, <<">", ">">>, <<">", ">", ">">>}
  <2>1. w.current.kind \in Relexable
    <3>1. ASSUME w.current.kind = <<"<", "<">> PROVE FALSE
      <4>1. Head(w.current.kind) = "<"
        BY <3>1
      <4> QED
        BY <4>1
    <3>2. w.current.kind \in Narrowable \cup Relexable
      BY <1>1, <1>5, LeadingGreater
    <3> QED
      BY <1>5, <3>1, <3>2 DEF Narrowable
  <2>2. GreaterSplit(w, l) = Relexed(w, l)
    BY <1>5 DEF GreaterSplit
  <2>3. v = Relexed(w, l).window /\ m = Relexed(w, l).comments
    BY <2>2
  <2> QED
    BY <2>1, <2>3, RelexedKeeps
<1> QED
  BY <1>3, <1>4, <1>5

(* A `<` stepped over leaves what the lexer had seen, or `<<` its second half. *)
LEMMA LessSplitKeeps ==
    ASSUME text \in Seq(Atoms), NEW w, WindowOK(w), NEW c, Settled(w, c),
           NEW l, Ledger(l, w.cursor, c), w.current.kind \in Less, LessSplit(w, l).ok,
           NEW v, v = LessSplit(w, l).window, NEW m, m = LessSplit(w, l).comments
    PROVE  /\ Steps(w, c, v, m) /\ w.cursor <= v.cursor
           /\ w.current.kind = <<"<">> => v.prevEnd = w.current.end /\ w.cursor <= v.current.end
           /\ w.current.kind # <<"<">> => v.current.kind = <<"<">>
<1>1. TokenOK(w.current) /\ w.current.kind # <<>>
  <2>1. TokenOK(w.current)
    BY DEF WindowOK
  <2> QED
    BY <2>1, Kinds
<1>2. w.current.start < Past
  BY <1>1, TokenHasText
<1>3. CASE w.current.kind = <<"<">>
  <2>1. LessSplit(w, l) = Advanced(w, l)
    BY <1>3 DEF LessSplit
  <2>2. /\ Advanced(w, l).ok /\ v = Advanced(w, l).window /\ m = Advanced(w, l).comments
    BY <2>1
  <2>3. Steps(w, c, v, m) /\ v.prevEnd = w.current.end /\ w.cursor <= v.current.end
    BY <1>2, <2>2, AdvancedKeeps DEF Steps
  <2>4. WindowOK(v) /\ v.current.end <= v.cursor
    BY <2>3 DEF Steps, Settled
  <2>5. v.current.end \in Nat /\ v.cursor \in Nat /\ w.cursor \in Nat
    BY <2>4, WindowPlaces
  <2> QED
    BY <1>3, <2>3, <2>4, <2>5
<1>4. CASE w.current.kind = <<"<", "<">>
  <2>1. w.current.kind \in Narrowable /\ w.current.kind # <<"<">>
    BY <1>4, Kinds
  <2>2. LessSplit(w, l) = Narrowed(w, l)
    BY <2>1 DEF LessSplit
  <2>3. v = Narrowed(w, l).window /\ m = Narrowed(w, l).comments
    BY <2>2
  <2>4. Steps(w, c, v, m) /\ v.current.kind = Tail(w.current.kind) /\ v.cursor = w.cursor
    BY <2>1, <2>3, NarrowedKeeps
  <2>5. Tail(<<"<", "<">>) = <<"<">>
    OBVIOUS
  <2>6. w.cursor \in Nat
    BY WindowPlaces
  <2> QED
    BY <1>4, <2>1, <2>4, <2>5, <2>6
<1> QED
  BY <1>3, <1>4 DEF Less

---------------------------------------------------------------------------
(* What is open, as the window moves *)

(* Every speculation has left its checkpoint's tokens. *)
Clear(s, w, c) ==
    /\ Ordered(s)
    /\ \A i \in 1..Len(s) : /\ After(s[i], w, c)
                            /\ s[i].is \in Speculative => Beyond(s[i], w)

LEMMA Numbers ==
    ASSUME NEW w \in Windows
    PROVE  /\ w.cursor \in Nat /\ w.prevEnd \in Nat
           /\ w.current.start \in Nat /\ w.current.end \in Nat
BY DEF Windows, Tokens

LEMMA HeldPlaces ==
    ASSUME NEW f, Held(f), f.is \in Speculative
    PROVE  /\ f.cp.window \in Windows
           /\ f.cp.window.cursor \in Nat /\ Place(f) \in Nat /\ Limit(f) \in Nat
           /\ f.is # "paren"
<1>1. f.cp.window \in Windows
  BY DEF Held, Settled
<1>2. f.is # "paren"
  BY DEF Speculative
<1> QED
  BY <1>1, <1>2, Numbers DEF Limit, Place

LEMMA ClearIsOpen ==
    ASSUME NEW s, NEW w, NEW c, Clear(s, w, c)
    PROVE  FramesOpen(s, w, c)
BY DEF Clear, FramesOpen

(* A frame whose checkpoint's tokens are behind stays so.                    *)
LEMMA FramePasses ==
    ASSUME NEW f, Held(f), NEW w \in Windows, NEW c, After(f, w, c),
           f.is \in Speculative => f.cp.window.cursor <= w.current.end,
           NEW v \in Windows, Passed(w, v)
    PROVE  /\ After(f, v, c)
           /\ f.is \in Speculative => f.cp.window.cursor <= v.current.end
           /\ f.is \in Speculative /\ Beyond(f, w) => Beyond(f, v)
<1>1. /\ w.prevEnd \in Nat /\ v.prevEnd \in Nat /\ w.current.end \in Nat /\ v.current.end \in Nat
      /\ v.cursor \in Nat
  BY Numbers
<1>2. w.prevEnd <= v.prevEnd /\ w.current.end <= v.current.end /\ w.current.end <= v.cursor
  BY DEF Passed
<1>3. CASE f.is \in Speculative
  <2>1. f.cp.window.cursor \in Nat /\ Limit(f) \in Nat /\ f.is # "paren"
    BY <1>3, HeldPlaces
  <2>2. f.cp.window.cursor <= v.cursor /\ f.cp.window.cursor <= v.current.end
    BY <1>1, <1>2, <1>3, <2>1
  <2>3. After(f, v, c)
    BY <1>3, <2>1, <2>2 DEF After
  <2>4. Beyond(f, w) => Beyond(f, v)
    BY <1>1, <1>2, <2>1, <2>2 DEF Beyond
  <2> QED
    BY <2>2, <2>3, <2>4
<1>4. CASE f.is \notin Speculative
  <2>1. UpTo(w.prevEnd) \subseteq UpTo(v.prevEnd)
    BY <1>1, <1>2, RankGrows
  <2>2. After(f, v, c)
    BY <1>4, <2>1 DEF After
  <2> QED
    BY <1>4, <2>2
<1> QED
  BY <1>3, <1>4

LEMMA ClearPasses ==
    ASSUME NEW s, NEW w \in Windows, NEW c, Clear(s, w, c), NEW v \in Windows, Passed(w, v)
    PROVE  Clear(s, v, c)
<1>1. ASSUME NEW i \in 1..Len(s)
      PROVE  After(s[i], v, c) /\ (s[i].is \in Speculative => Beyond(s[i], v))
  <2>1. /\ Held(s[i]) /\ After(s[i], w, c)
        /\ s[i].is \in Speculative => Beyond(s[i], w)
    BY DEF Clear, Ordered
  <2>2. s[i].is \in Speculative => s[i].cp.window.cursor <= w.current.end
    BY <2>1 DEF Beyond
  <2> QED
    BY <2>1, <2>2, FramePasses
<1> QED
  BY <1>1 DEF Clear

(* Readings that have begun, other than a comparison's, begin still.         *)
LEMMA OpenPasses ==
    ASSUME NEW s, NEW w \in Windows, NEW c, FramesOpen(s, w, c), NEW v \in Windows, Passed(w, v),
           w.current.kind # <<"<">>,
           \A i \in 1..Len(s) : i = Len(s) => s[i].is # "comparison"
    PROVE  FramesOpen(s, v, c)
<1>1. ASSUME NEW i \in 1..Len(s)
      PROVE  After(s[i], v, c) /\ (s[i].is \in Speculative => Beyond(s[i], v) \/ Fresh(s, i, v))
  <2>1. /\ Held(s[i]) /\ After(s[i], w, c)
        /\ s[i].is \in Speculative => Beyond(s[i], w) \/ Fresh(s, i, w)
    BY DEF FramesOpen, Ordered
  <2>2. s[i].is \in Speculative /\ ~Beyond(s[i], w) =>
            /\ \A k \in i..Len(s) : s[k].is \in Types
            /\ s[i].cp.window.cursor <= w.current.end
    BY <2>1 DEF Fresh
  <2>3. s[i].is \in Speculative => s[i].cp.window.cursor <= w.current.end
    BY <2>2 DEF Beyond
  <2>4. /\ After(s[i], v, c)
        /\ s[i].is \in Speculative => s[i].cp.window.cursor <= v.current.end
        /\ s[i].is \in Speculative /\ Beyond(s[i], w) => Beyond(s[i], v)
    BY <2>1, <2>3, FramePasses
  <2>5. s[i].is \in Speculative /\ ~Beyond(s[i], w) => Fresh(s, i, v)
    BY <2>2, <2>4 DEF Fresh
  <2> QED
    BY <2>4, <2>5
<1> QED
  BY <1>1 DEF FramesOpen

(* A whole token read leaves every checkpoint's tokens behind, but for a     *)
(* list whose first token it is.                                             *)
LEMMA FrameAdvances ==
    ASSUME NEW s, NEW w \in Windows, NEW c, NEW v \in Windows,
           w.current.start <= w.current.end,
           v.prevEnd = w.current.end, w.cursor <= v.current.end, v.current.end <= v.cursor,
           Passed(w, v),
           NEW i \in 1..Len(s), Held(s[i]), After(s[i], w, c),
           s[i].is \in Speculative => Beyond(s[i], w) \/ Fresh(s, i, w)
    PROVE  /\ After(s[i], v, c)
           /\ s[i].is \in Speculative =>
                 \/ Beyond(s[i], v)
                 \/ /\ i = Len(s) /\ s[i].is = "list" /\ w.current.kind = <<"<">>
                    /\ s[i].cp.window.cursor <= v.current.end
<1>1. CASE s[i].is \notin Speculative
  <2>1. s[i].is \in Speculative => s[i].cp.window.cursor <= w.current.end
    BY <1>1
  <2> QED
    BY <1>1, <2>1, FramePasses
<1>2. CASE s[i].is \in Speculative
  <2>1. PICK k \in Nat : k = s[i].cp.window.cursor
    BY <1>2, HeldPlaces
  <2>2. PICK x \in Nat : x = Limit(s[i])
    BY <1>2, HeldPlaces
  <2>3. /\ w.cursor \in Nat /\ w.prevEnd \in Nat /\ w.current.start \in Nat /\ w.current.end \in Nat
        /\ v.cursor \in Nat /\ v.prevEnd \in Nat /\ v.current.start \in Nat /\ v.current.end \in Nat
    BY Numbers
  <2>4. k <= w.cursor
    BY <1>2, <2>1 DEF After
  <2>5. k <= v.cursor /\ k <= v.current.end
    BY SMTT(60), <2>3, <2>4
  <2>6. After(s[i], v, c)
    <3>1. s[i].is # "paren"
      BY <1>2 DEF Speculative
    <3> QED
      BY <1>2, <2>1, <2>5, <3>1 DEF After
  <2>7. CASE x <= w.current.end
    <3>1. Beyond(s[i], v)
      BY <2>1, <2>2, <2>5, <2>7 DEF Beyond
    <3> QED
      BY <2>6, <3>1
  <2>8. CASE ~(x <= w.current.end)
    <3>1. ~Beyond(s[i], w)
      <4>1. w.prevEnd <= w.current.end
        BY DEF Passed
      <4> QED
        BY SMTT(60), <2>2, <2>3, <2>8, <4>1 DEF Beyond
    <3>2. Fresh(s, i, w)
      BY <1>2, <3>1
    <3>3. ~(i = Len(s) /\ s[i].is = "comparison" /\ w.current = s[i].cp.window.current)
      <4> SUFFICES ASSUME s[i].is = "comparison", w.current = s[i].cp.window.current
                   PROVE  FALSE
        OBVIOUS
      <4>1. x = w.current.start
        BY <2>2 DEF Limit, Place
      <4> QED
        BY <2>3, <2>8, <4>1
    <3>4. s[i].is # "comparison"
      <4>1. \A j \in i..Len(s) : s[j].is \in Types
        BY <3>2, <3>3 DEF Fresh
      <4>2. i \in i..Len(s)
        OBVIOUS
      <4> QED
        BY <4>1, <4>2 DEF Types
    <3>5. x = k
      BY <2>1, <2>2, <3>4 DEF Limit
    <3>6. ~(s[i].cp.window.cursor <= w.current.end)
      BY <2>1, <2>8, <3>5
    <3>7. i = Len(s) /\ s[i].is = "list" /\ w.current.kind = <<"<">>
      BY <3>2, <3>3, <3>6 DEF Fresh
    <3> QED
      BY <2>1, <2>5, <2>6, <3>7
  <2> QED
    BY SMTT(60), <2>3, <2>7, <2>8
<1> QED
  BY <1>1, <1>2

LEMMA OpenAdvances ==
    ASSUME NEW s, NEW w \in Windows, NEW c, NEW v \in Windows, FramesOpen(s, w, c),
           w.current.start <= w.current.end,
           v.prevEnd = w.current.end, w.cursor <= v.current.end, v.current.end <= v.cursor,
           Passed(w, v),
           w.current.kind = <<"<">> => \A i \in 1..Len(s) : i = Len(s) => s[i].is # "list"
    PROVE  Clear(s, v, c)
<1>1. ASSUME NEW i \in 1..Len(s)
      PROVE  After(s[i], v, c) /\ (s[i].is \in Speculative => Beyond(s[i], v))
  <2>1. /\ Held(s[i]) /\ After(s[i], w, c)
        /\ s[i].is \in Speculative => Beyond(s[i], w) \/ Fresh(s, i, w)
    BY DEF FramesOpen, Ordered
  <2>2. /\ After(s[i], v, c)
        /\ s[i].is \in Speculative =>
                 \/ Beyond(s[i], v)
                 \/ /\ i = Len(s) /\ s[i].is = "list" /\ w.current.kind = <<"<">>
                    /\ s[i].cp.window.cursor <= v.current.end
    BY <2>1, FrameAdvances
  <2> QED
    BY <2>2
<1> QED
  BY <1>1 DEF Clear, FramesOpen

(* A peek moves the lexer alone. *)
LEMMA OpenPeeks ==
    ASSUME NEW s, NEW w \in Windows, NEW c, NEW v \in Windows, FramesOpen(s, w, c),
           v.current = w.current, v.prevEnd = w.prevEnd, w.cursor <= v.cursor
    PROVE  FramesOpen(s, v, c)
<1>1. ASSUME NEW i \in 1..Len(s)
      PROVE  After(s[i], v, c) /\ (s[i].is \in Speculative => Beyond(s[i], v) \/ Fresh(s, i, v))
  <2>1. /\ Held(s[i]) /\ After(s[i], w, c)
        /\ s[i].is \in Speculative => Beyond(s[i], w) \/ Fresh(s, i, w)
    BY DEF FramesOpen, Ordered
  <2>2. Beyond(s[i], w) => Beyond(s[i], v)
    BY DEF Beyond
  <2>3. Fresh(s, i, w) => Fresh(s, i, v)
    BY DEF Fresh
  <2>4. s[i].is \in Speculative => s[i].cp.window.cursor <= v.cursor
    <3> SUFFICES ASSUME s[i].is \in Speculative
                 PROVE  s[i].cp.window.cursor <= v.cursor
      OBVIOUS
    <3>1. s[i].cp.window.cursor \in Nat /\ s[i].cp.window.cursor <= w.cursor
      BY <2>1, HeldPlaces DEF After
    <3> QED
      BY <3>1, Numbers
  <2>5. After(s[i], v, c)
    BY <2>1, <2>4 DEF After
  <2> QED
    BY <2>1, <2>2, <2>3, <2>5
<1> QED
  BY <1>1 DEF FramesOpen

---------------------------------------------------------------------------
(* What is open, as frames come and go *)

(* Nothing fresh is left where an expression reads on past a speculation's `<`. *)
LEMMA OpenIsClear ==
    ASSUME NEW s, NEW w, NEW c, FramesOpen(s, w, c),
           \A i \in 1..Len(s) : i = Len(s) =>
               /\ s[i].is \notin Types
               /\ s[i].is = "comparison" => w.current # s[i].cp.window.current
    PROVE  Clear(s, w, c)
<1>1. ASSUME NEW i \in 1..Len(s), s[i].is \in Speculative
      PROVE  Beyond(s[i], w)
  <2>1. Beyond(s[i], w) \/ Fresh(s, i, w)
    BY <1>1 DEF FramesOpen
  <2>2. Len(s) \in i..Len(s) /\ Len(s) \in 1..Len(s)
    OBVIOUS
  <2>3. ~Fresh(s, i, w)
    <3>1. ~(\A k \in i..Len(s) : s[k].is \in Types)
      BY <2>2
    <3>2. ~(i = Len(s) /\ s[i].is = "comparison" /\ w.current = s[i].cp.window.current)
      OBVIOUS
    <3> QED
      BY <3>1, <3>2 DEF Fresh
  <2> QED
    BY <2>1, <2>3
<1> QED
  BY <1>1 DEF FramesOpen, Clear

LEMMA ClearCut ==
    ASSUME NEW s, NEW w, NEW c, Clear(s, w, c),
           NEW n \in 0..Len(s), NEW t, Len(t) = n, Same(t, s, n)
    PROVE  Clear(t, w, c)
<1>1. \A i \in 1..Len(t) : i \in 1..Len(s) /\ t[i] = s[i]
  BY DEF Same
<1>2. Ordered(t)
  BY <1>1 DEF Clear, Ordered
<1> QED
  BY <1>1, <1>2 DEF Clear

LEMMA OpenCut ==
    ASSUME NEW s, NEW w, NEW c, FramesOpen(s, w, c),
           NEW n \in Nat, Len(s) = n + 1, NEW t, Len(t) = n, Same(t, s, n)
    PROVE  FramesOpen(t, w, c)
<1>1. \A i \in 1..Len(t) : i \in 1..Len(s) /\ t[i] = s[i] /\ i # Len(s)
  BY DEF Same
<1>2. Ordered(t)
  BY <1>1 DEF FramesOpen, Ordered
<1>3. ASSUME NEW i \in 1..Len(t)
      PROVE  After(t[i], w, c) /\ (t[i].is \in Speculative => Beyond(t[i], w) \/ Fresh(t, i, w))
  <2>1. t[i] = s[i] /\ i \in 1..Len(s) /\ i # Len(s)
    BY <1>1
  <2>2. After(s[i], w, c) /\ (s[i].is \in Speculative => Beyond(s[i], w) \/ Fresh(s, i, w))
    BY <2>1 DEF FramesOpen
  <2>3. Fresh(s, i, w) => Fresh(t, i, w)
    <3> SUFFICES ASSUME Fresh(s, i, w)
                 PROVE  Fresh(t, i, w)
      OBVIOUS
    <3>1. /\ \A k \in i..Len(s) : s[k].is \in Types
          /\ s[i].cp.window.cursor <= w.current.end
      BY <2>1 DEF Fresh
    <3>2. \A k \in i..Len(t) : k \in i..Len(s) /\ k \in 1..Len(t)
      OBVIOUS
    <3>3. \A k \in i..Len(t) : t[k].is \in Types
      BY <1>1, <3>1, <3>2
    <3> QED
      BY <2>1, <3>1, <3>3 DEF Fresh
  <2> QED
    BY <2>1, <2>2, <2>3
<1> QED
  BY <1>2, <1>3 DEF FramesOpen

LEMMA OpenPushed ==
    ASSUME NEW s, Stack(s), NEW w, NEW c, Clear(s, w, c),
           NEW f, Held(f), After(f, w, c), \A i \in 1..Len(s) : Stacked(s[i], f),
           NEW t, t = Append(s, f),
           f.is \in Speculative => Beyond(f, w) \/ Fresh(t, Len(t), w)
    PROVE  /\ FramesOpen(t, w, c)
           /\ (f.is \in Speculative => Beyond(f, w)) => Clear(t, w, c)
<1>1. PICK n \in Nat : /\ n = Len(s) /\ Len(t) = n + 1 /\ t[n + 1] = f
                       /\ \A i \in 1..n : t[i] = s[i] /\ i \in 1..Len(t)
                       /\ \A i \in 1..Len(t) : i \in 1..n \/ i = n + 1
  BY PushedParts
<1>2. Ordered(t)
  <2>1. \A i \in 1..n : Held(s[i])
    BY <1>1 DEF Clear, Ordered
  <2>2. \A i \in 1..n, j \in 1..n : i < j => Stacked(s[i], s[j])
    BY <1>1 DEF Clear, Ordered
  <2>3. \A i \in 1..Len(t) : Held(t[i])
    BY <1>1, <2>1
  <2>4. ASSUME NEW i \in 1..Len(t), NEW j \in 1..Len(t), i < j
        PROVE  Stacked(t[i], t[j])
    <3>1. i \in 1..n
      BY <1>1, <2>4
    <3>2. CASE j \in 1..n
      BY <1>1, <2>2, <2>4, <3>1, <3>2
    <3>3. CASE j = n + 1
      BY <1>1, <3>1, <3>3
    <3> QED
      BY <1>1, <3>2, <3>3
  <2> QED
    BY <2>3, <2>4 DEF Ordered
<1>3. \A i \in 1..n : /\ After(t[i], w, c)
                      /\ t[i].is \in Speculative => Beyond(t[i], w)
  BY <1>1 DEF Clear
<1>4. After(t[n + 1], w, c) /\ n + 1 = Len(t)
      /\ (t[n + 1].is \in Speculative => Beyond(t[n + 1], w) \/ Fresh(t, n + 1, w))
  BY <1>1
<1>5. FramesOpen(t, w, c)
  BY <1>1, <1>2, <1>3, <1>4 DEF FramesOpen
<1>6. (f.is \in Speculative => Beyond(f, w)) => Clear(t, w, c)
  BY <1>1, <1>2, <1>3, <1>4 DEF Clear
<1> QED
  BY <1>5, <1>6

(* Nothing is asked of a frame that is neither a speculation nor a paren.    *)
LEMMA PlainPushed ==
    ASSUME NEW s, Stack(s), NEW w, NEW c, Clear(s, w, c),
           NEW f, f.is \notin Speculative, f.is # "paren"
    PROVE  Clear(Append(s, f), w, c)
<1>1. Held(f) /\ After(f, w, c) /\ \A i \in 1..Len(s) : Stacked(s[i], f)
  <2>1. f.is # "comparison"
    BY DEF Speculative
  <2> QED
    BY <2>1 DEF Held, After, Stacked
<1> QED
  BY <1>1, OpenPushed

LEMMA ClearClaims ==
    ASSUME NEW s, NEW w, NEW c, Clear(s, w, c), NEW d,
           \A i \in 1..Len(s) : s[i].is \in Speculative => \A p \in d : Limit(s[i]) <= p
    PROVE  Clear(s, w, c \cup d)
<1>1. ASSUME NEW i \in 1..Len(s)
      PROVE  After(s[i], w, c \cup d)
  <2>1. After(s[i], w, c)
    BY DEF Clear
  <2> QED
    BY <2>1 DEF After
<1> QED
  BY <1>1 DEF Clear

(* Where a window has left the tokens of every checkpoint, what is claimed    *)
(* between its own tokens is no reading's that was there before.             *)
LEMMA ClaimedInFront ==
    ASSUME NEW s, NEW w \in Windows, NEW c, Clear(s, w, c),
           NEW p \in Nat, w.prevEnd <= p, NEW i \in 1..Len(s), s[i].is \in Speculative
    PROVE  Limit(s[i]) <= p
<1>1. Held(s[i]) /\ Limit(s[i]) <= w.prevEnd
  BY DEF Clear, Ordered, Beyond
<1> QED
  BY <1>1, Numbers, HeldPlaces

LEMMA StackedSame ==
    ASSUME NEW h, NEW f, NEW g, f.is \in Speculative, g.is \in Speculative, f.cp = g.cp,
           Stacked(h, f)
    PROVE  Stacked(h, g)
BY DEF Stacked, Speculative

---------------------------------------------------------------------------
(* Back to a checkpoint *)

LEMMA Listing ==
    ASSUME NEW S, NEW n \in Nat, NEW m \in [1..n -> S]
    PROVE  m \in Seq(S) /\ Len(m) = n
<1>1. m \in Seq(S) /\ DOMAIN m = 1..n
  OBVIOUS
<1> QED
  BY <1>1

LEMMA Marked ==
    ASSUME NEW x \in Comment, NEW b \in BOOLEAN
    PROVE  /\ [x EXCEPT !.owned = b] \in Comment
           /\ [x EXCEPT !.owned = b].at = x.at
           /\ [x EXCEPT !.owned = b].owned <=> b
<1>1. x = [at |-> x.at, owned |-> x.owned] /\ x.at \in Nat
  BY DEF Comment
<1>2. [x EXCEPT !.owned = b] = [at |-> x.at, owned |-> b]
  BY <1>1
<1>3. [at |-> x.at, owned |-> b] \in Comment
  BY <1>1 DEF Comment
<1>4. [at |-> x.at, owned |-> b].at = x.at
  OBVIOUS
<1>5. [at |-> x.at, owned |-> b].owned = b
  OBVIOUS
<1> QED
  BY <1>2, <1>3, <1>4, <1>5

LEMMA OpenBack ==
    ASSUME NEW s, NEW w, NEW c, FramesOpen(s, w, c),
           NEW n \in Nat, n + 1 \in 1..Len(s), NEW f, f = s[n + 1], f.is \in Speculative,
           NEW t, Len(t) = n, Same(t, s, n)
    PROVE  /\ Clear(t, f.cp.window, f.cp.claims) /\ Settled(f.cp.window, f.cp.claims)
           /\ f.cp.comments = Rank(f.cp.window.cursor)
           /\ \A i \in 1..n : Stacked(t[i], f)
<1>1. \A i \in 1..n : i \in 1..Len(s) /\ t[i] = s[i] /\ i < n + 1
  BY DEF Same
<1>2. Held(f) /\ Ordered(s)
  BY DEF FramesOpen, Ordered
<1>3. \A i \in 1..n : Stacked(t[i], f)
  BY <1>1, <1>2 DEF Ordered
<1>4. Ordered(t)
  BY <1>1, <1>2 DEF Ordered
<1>5. Clear(t, f.cp.window, f.cp.claims)
  BY <1>3, <1>4 DEF Clear, Stacked
<1> QED
  BY <1>2, <1>3, <1>5 DEF Held

(* The claims that stand before a checkpoint are those it holds: a list or   *)
(* an arrow puts back the ledger by cutting it.                              *)
LEMMA LedgerBack ==
    ASSUME NEW w \in Windows, NEW c, NEW f, Held(f), After(f, w, c), f.is \in Speculative,
           f.is # "comparison", NEW l, Ledger(l, w.cursor, c)
    PROVE  /\ f.cp.comments \in 0..Len(l)
           /\ Ledger(SubSeq(l, 1, f.cp.comments), f.cp.window.cursor, f.cp.claims)
<1>1. PICK k \in Nat : k = f.cp.window.cursor
  BY HeldPlaces
<1>2. k <= w.cursor /\ w.cursor \in Nat
  BY <1>1, Numbers DEF After
<1>3. ASSUME NEW x \in UpTo(k)
      PROVE  x \in c <=> x \in f.cp.claims
  <2>1. x \in Nat /\ x < k
    BY RankPassed
  <2>2. x \in c \ f.cp.claims => k <= x
    BY <1>1 DEF After, Limit
  <2>3. f.cp.claims \subseteq c
    BY DEF After
  <2> QED
    BY <2>1, <2>2, <2>3
<1>4. f.cp.comments = Rank(k)
  BY SMTT(60), <1>1 DEF Held
<1> QED
  BY ZenonT(60), <1>1, <1>2, <1>3, <1>4, LedgerCut

(* A comparison gives back what was claimed inside it.                       *)
LEMMA LedgerSettled ==
    ASSUME NEW w \in Windows, NEW c, NEW f, Held(f), After(f, w, c), f.is = "comparison",
           NEW l, Ledger(l, w.cursor, c),
           NEW m, m = [j \in 1..f.cp.comments |->
                          IF j \in f.unclaimed THEN [l[j] EXCEPT !.owned = FALSE] ELSE l[j]]
    PROVE  Ledger(m, f.cp.window.cursor, f.cp.claims)
<1>1. f.is \in Speculative
  BY DEF Speculative
<1>2. PICK k \in Nat : k = f.cp.window.cursor
  BY <1>1, HeldPlaces
<1>3. k <= w.cursor /\ w.cursor \in Nat
  BY <1>1, <1>2, Numbers DEF After
<1>4. f.cp.comments = Rank(k)
  BY <1>1, <1>2 DEF Held
<1>5. Rank(k) \in 0..Len(l) /\ Rank(k) \in Nat /\ Len(l) \in Nat
  <2>1. \A x \in UpTo(k) : x \in c <=> x \in c
    OBVIOUS
  <2>2. Rank(k) \in 0..Len(l)
    BY <1>3, <2>1, LedgerCut
  <2>3. Len(l) = Rank(w.cursor)
    BY DEF Ledger
  <2> QED
    BY <1>3, <2>2, <2>3, RankIsNatural
<1>6. ASSUME NEW j \in 1..Rank(k)
      PROVE  /\ m[j] \in Comment /\ m[j].at \in UpTo(k) /\ Rank(m[j].at) = j - 1
             /\ m[j].owned <=> m[j].at \in f.cp.claims
  <2>1. j \in 1..Len(l)
    BY <1>5
  <2>2. PICK p \in Nat : p = l[j].at
    BY ZenonT(60), <1>3, <2>1, LedgerOf
  <2>3. /\ l[j] \in Comment /\ l[j] = [at |-> p, owned |-> l[j].owned]
        /\ p \in UpTo(w.cursor) /\ Rank(p) + 1 = j /\ p > 0
        /\ l[j].owned <=> p \in c
    BY ZenonT(60), <1>3, <2>1, <2>2, LedgerOf
  <2>4. p \in UpTo(k)
    <3>1. Rank(p) \in Nat /\ Rank(p) < Rank(k)
      BY <1>5, <2>2, <2>3, RankIsNatural
    <3>2. ~(k <= p)
      BY <1>5, <3>1, RankGrows
    <3> QED
      BY <2>3, <3>2 DEF UpTo
  <2>5. j \in f.unclaimed <=> p >= Place(f) /\ p \notin f.cp.claims
    BY <1>2, <2>3, <2>4 DEF Held
  <2>6. p \in c \ f.cp.claims => Place(f) <= p
    BY <1>1 DEF After, Limit
  <2>7. f.cp.claims \subseteq c
    BY <1>1 DEF After
  <2>8. Place(f) \in Nat
    BY <1>1, HeldPlaces
  <2>9. m[j] = IF j \in f.unclaimed THEN [l[j] EXCEPT !.owned = FALSE] ELSE l[j]
    BY <1>4
  <2>10. CASE j \in f.unclaimed
    <3>1. PICK b \in BOOLEAN : b = FALSE
      OBVIOUS
    <3>2. m[j] = [l[j] EXCEPT !.owned = b]
      BY <2>9, <2>10, <3>1
    <3>3. p \notin f.cp.claims
      BY <2>5, <2>10
    <3>4. m[j] \in Comment /\ m[j].at = p /\ ~m[j].owned
      BY <2>2, <2>3, <3>1, <3>2, Marked
    <3>5. Rank(p) = j - 1
      BY <2>3, RankIsNatural
    <3> QED
      BY <2>4, <3>3, <3>4, <3>5
  <2>11. CASE j \notin f.unclaimed
    <3>1. m[j] = l[j]
      BY <2>9, <2>11
    <3>2. p \in c <=> p \in f.cp.claims
      BY <2>5, <2>6, <2>7, <2>8, <2>11
    <3>3. Rank(p) = j - 1
      BY <2>3, RankIsNatural
    <3> QED
      BY <2>2, <2>3, <2>4, <3>1, <3>2, <3>3
  <2> QED
    BY <2>10, <2>11
<1>7. m \in [1..Rank(k) -> Comment]
  BY <1>4, <1>6
<1>8. m \in Seq(Comment) /\ Len(m) = Rank(k)
  BY <1>5, <1>7, Listing
<1> QED
  BY <1>2, <1>6, <1>8 DEF Ledger

---------------------------------------------------------------------------
(* Speculations open *)

(* A list is open on what follows its `<`, seen or not.                      *)
LEMMA ListOpens ==
    ASSUME text \in Seq(Atoms), NEW s, Stack(s), NEW w, WindowOK(w), NEW c, Settled(w, c),
           NEW l, Ledger(l, w.cursor, c), Clear(s, w, c),
           w.current.kind \in Less, LessSplit(w, l).ok,
           NEW f, f.is = "list", f.cp.window = w, f.cp.claims = c,
           f.cp.comments = Rank(w.cursor),
           NEW v, v = LessSplit(w, l).window, NEW m, m = LessSplit(w, l).comments
    PROVE  LedgerOK(Append(s, f), m, v, c)
<1>1. /\ Steps(w, c, v, m) /\ w.cursor <= v.cursor
      /\ w.current.kind = <<"<">> => w.cursor <= v.current.end
      /\ w.current.kind # <<"<">> => v.current.kind = <<"<">>
  BY LessSplitKeeps
<1>2. WindowOK(v) /\ Ledger(m, v.cursor, c) /\ Settled(v, c) /\ Passed(w, v)
  BY <1>1 DEF Steps
<1>3. w \in Windows /\ v \in Windows
  BY <1>2, WindowPlaces
<1>4. Clear(s, v, c)
  BY <1>2, <1>3, ClearPasses
<1>5. f.is \in Speculative /\ f.is # "comparison" /\ f.is # "paren" /\ f.is \in Types
  BY DEF Speculative, Types
<1>6. Held(f)
  BY <1>5 DEF Held
<1>7. After(f, v, c)
  BY <1>1, <1>5 DEF After
<1>8. \A i \in 1..Len(s) : Stacked(s[i], f)
  BY <1>5 DEF Stacked, Clear
<1>9. PICK t : t = Append(s, f)
  OBVIOUS
<1>10. PICK n \in Nat : n = Len(s) /\ Len(t) = n + 1 /\ t[n + 1] = f
  BY <1>9, PushedParts
<1>11. Fresh(t, Len(t), v)
  <2>1. \A k \in (n + 1)..Len(t) : t[k].is \in Types
    <3>1. \A k \in (n + 1)..Len(t) : k = n + 1
      BY <1>10
    <3> QED
      BY <1>5, <1>10, <3>1
  <2>2. t[n + 1].cp.window.cursor <= v.current.end \/ v.current.kind = <<"<">>
    BY <1>1, <1>10
  <2> QED
    BY <1>10, <2>1, <2>2 DEF Fresh
<1>12. FramesOpen(t, v, c)
  BY <1>4, <1>6, <1>7, <1>8, <1>9, <1>11, OpenPushed
<1> QED
  BY <1>2, <1>9, <1>12 DEF LedgerOK

LEMMA ComparisonOpens ==
    ASSUME NEW s, Stack(s), NEW w \in Windows, NEW c, Settled(w, c),
           NEW l, Ledger(l, w.cursor, c), Clear(s, w, c),
           NEW f, f.is = "comparison", f.cp.window = w, f.cp.claims = c,
           f.cp.comments = Rank(w.cursor), f.unclaimed = Unclaimed(w.current.start, l)
    PROVE  LedgerOK(Append(s, f), l, w, c)
<1>1. f.is \in Speculative /\ f.is # "paren"
  BY DEF Speculative
<1>2. Held(f)
  <2>1. ASSUME NEW p \in UpTo(w.cursor)
        PROVE  Rank(p) + 1 \in f.unclaimed <=> p >= w.current.start /\ p \notin c
    <3>1. PICK j \in Nat : j = Rank(p) + 1
      <4>1. p \in Nat
        BY DEF UpTo
      <4> QED
        BY <4>1, RankIsNatural
    <3>2. w.cursor \in Nat
      BY Numbers
    <3>3. j \in 1..Len(l) /\ l[j].at = p
      BY <3>1, <3>2, LedgerHas
    <3>4. l[j].owned <=> p \in c
      BY <3>3 DEF Ledger
    <3>5. DOMAIN l = 1..Len(l)
      BY DEF Ledger
    <3>6. j \in f.unclaimed <=> l[j].at >= w.current.start /\ ~l[j].owned
      BY <3>3, <3>5 DEF Unclaimed
    <3> QED
      BY <3>1, <3>3, <3>4, <3>6
  <2> QED
    BY <1>1, <2>1 DEF Held, Place
<1>3. After(f, w, c)
  <2>1. w.cursor \in Nat
    BY Numbers
  <2> QED
    BY <1>1, <2>1 DEF After
<1>4. \A i \in 1..Len(s) : Stacked(s[i], f)
  BY <1>1 DEF Stacked, Clear
<1>5. PICK t : t = Append(s, f)
  OBVIOUS
<1>6. PICK n \in Nat : n = Len(s) /\ Len(t) = n + 1 /\ t[n + 1] = f
  BY <1>5, PushedParts
<1>7. Fresh(t, Len(t), w)
  BY <1>6 DEF Fresh
<1>8. FramesOpen(t, w, c)
  BY <1>2, <1>3, <1>4, <1>5, <1>7, OpenPushed
<1> QED
  BY <1>5, <1>8 DEF LedgerOK

(* A speculation that reads on from the same checkpoint. *)
LEMMA Reopened ==
    ASSUME NEW s, Stack(s), NEW w, NEW c, Clear(s, w, c),
           NEW n \in Nat, Len(s) = n + 1, s[n + 1].is \in Speculative, s[n + 1].is # "comparison",
           NEW g, g.is \in Speculative, g.is # "comparison", g.cp = s[n + 1].cp
    PROVE  Clear(Append(SubSeq(s, 1, n), g), w, c)
<1>1. n \in 0..Len(s) /\ n + 1 \in 1..Len(s)
  OBVIOUS
<1>2. PICK f : f = s[n + 1]
  OBVIOUS
<1>3. PICK t : t = SubSeq(s, 1, n)
  OBVIOUS
<1>4. Stack(t) /\ Len(t) = n /\ Same(t, s, n)
  BY <1>1, <1>3, StackCut
<1>5. Clear(t, w, c)
  BY <1>1, <1>4, ClearCut
<1>6. Held(f) /\ After(f, w, c) /\ Beyond(f, w)
  BY <1>1, <1>2 DEF Clear, Ordered
<1>7. g.is # "paren" /\ f.is # "paren"
  BY <1>2 DEF Speculative
<1>8. Held(g)
  BY <1>2, <1>6, <1>7 DEF Held
<1>9. Limit(g) = Limit(f)
  BY <1>2 DEF Limit
<1>10. After(g, w, c) /\ Beyond(g, w)
  BY <1>2, <1>6, <1>7, <1>9 DEF After, Beyond
<1>11. ASSUME NEW i \in 1..Len(t)
       PROVE  Stacked(t[i], g)
  <2>1. i \in 1..Len(s) /\ t[i] = s[i] /\ i < n + 1
    BY <1>4 DEF Same
  <2>2. Stacked(s[i], f)
    BY <1>1, <1>2, <2>1 DEF Clear, Ordered
  <2> QED
    BY <1>2, <2>1, <2>2, StackedSame
<1>12. Clear(Append(t, g), w, c)
  BY <1>4, <1>5, <1>8, <1>10, <1>11, OpenPushed
<1> QED
  BY <1>3, <1>12

(* Inside types nothing is claimed: what has begun there begins still. *)
Begun(s, i, w) ==
    /\ \A k \in i..Len(s) : s[k].is \in Types
    /\ s[i].cp.window.cursor <= w.current.end

LEMMA TypesPushed ==
    ASSUME NEW s, Stack(s), NEW w, NEW c, Ordered(s),
           \A i \in 1..Len(s) : /\ After(s[i], w, c)
                                /\ s[i].is \in Speculative => Beyond(s[i], w) \/ Begun(s, i, w),
           NEW f, f.is \in {"typeArguments", "parameters"}
    PROVE  FramesOpen(Append(s, f), w, c)
<1>1. PICK t : t = Append(s, f)
  OBVIOUS
<1>2. PICK n \in Nat : /\ n = Len(s) /\ Len(t) = n + 1 /\ t[n + 1] = f
                       /\ \A i \in 1..n : t[i] = s[i] /\ i \in 1..Len(t)
                       /\ \A i \in 1..Len(t) : i \in 1..n \/ i = n + 1
  BY <1>1, PushedParts
<1>3. /\ f.is \notin Speculative /\ f.is # "paren" /\ f.is # "comparison" /\ f.is \in Types
  BY DEF Speculative, Types
<1>4. Held(f) /\ After(f, w, c) /\ \A i \in 1..n : Stacked(s[i], f)
  BY <1>3 DEF Held, After, Stacked
<1>5. Ordered(t)
  <2>1. \A i \in 1..n : Held(s[i])
    BY <1>2 DEF Ordered
  <2>2. \A i \in 1..n, j \in 1..n : i < j => Stacked(s[i], s[j])
    BY <1>2 DEF Ordered
  <2>3. \A i \in 1..Len(t) : Held(t[i])
    BY <1>2, <1>4, <2>1
  <2>4. ASSUME NEW i \in 1..Len(t), NEW j \in 1..Len(t), i < j
        PROVE  Stacked(t[i], t[j])
    <3>1. i \in 1..n
      BY <1>2, <2>4
    <3>2. CASE j \in 1..n
      BY <1>2, <2>2, <2>4, <3>1, <3>2
    <3>3. CASE j = n + 1
      BY <1>2, <1>4, <3>1, <3>3
    <3> QED
      BY <1>2, <3>2, <3>3
  <2> QED
    BY <2>3, <2>4 DEF Ordered
<1>6. ASSUME NEW i \in 1..n
      PROVE  /\ After(t[i], w, c)
             /\ t[i].is \in Speculative => Beyond(t[i], w) \/ Fresh(t, i, w)
  <2>1. /\ t[i] = s[i] /\ After(s[i], w, c)
        /\ s[i].is \in Speculative => Beyond(s[i], w) \/ Begun(s, i, w)
    BY <1>2
  <2>2. Begun(s, i, w) => Fresh(t, i, w)
    <3> SUFFICES ASSUME Begun(s, i, w)
                 PROVE  Fresh(t, i, w)
      OBVIOUS
    <3>1. ASSUME NEW k \in i..Len(t)
          PROVE  t[k].is \in Types
      <4>1. k \in i..n \/ k = n + 1
        BY <1>2
      <4>2. k \in i..n => t[k] = s[k] /\ s[k].is \in Types
        BY <1>2 DEF Begun
      <4> QED
        BY <1>2, <1>3, <4>1, <4>2
    <3>2. t[i].cp.window.cursor <= w.current.end
      BY <2>1 DEF Begun
    <3> QED
      BY <3>1, <3>2 DEF Fresh
  <2> QED
    BY <2>1, <2>2
<1>7. FramesOpen(t, w, c)
  BY <1>2, <1>3, <1>4, <1>5, <1>6 DEF FramesOpen
<1> QED
  BY <1>1, <1>7

---------------------------------------------------------------------------
(* The parse's steps, apart from what the grammar makes of them *)

LEMMA LedgerNow ==
    ASSUME ParseInv, LedgerStands
    PROVE  /\ text \in Seq(Atoms) /\ WindowOK(window) /\ window \in Windows /\ Stack(frames)
           /\ Len(frames) \in Nat /\ DOMAIN frames = 1..Len(frames)
           /\ Ledger(comments, window.cursor, claims) /\ Settled(window, claims)
           /\ FramesOpen(frames, window, claims)
<1>1. text \in Seq(Atoms) /\ WindowOK(window)
  BY GoodNow DEF Good
<1>2. window \in Windows
  BY <1>1 DEF WindowOK
<1> QED
  BY <1>1, <1>2, FramesStack DEF LedgerStands, LedgerOK

(* The invariant of a state given by its parts. *)
LEMMA LedgerNext ==
    ASSUME text' = text, LedgerOK(frames', comments', window', claims')
    PROVE  LedgerStands'
<1>1. \A p : UpTo(p)' = UpTo(p)
  BY DEF UpTo
<1>2. \A p : Rank(p)' = Rank(p)
  BY <1>1 DEF Rank
<1>3. Past' = Past
  BY DEF Past
<1>4. ASSUME NEW l, NEW p, NEW c
      PROVE  Ledger(l, p, c)' <=> Ledger(l, p, c)
  BY <1>1, <1>2 DEF Ledger
<1>5. ASSUME NEW w, NEW c
      PROVE  Settled(w, c)' <=> Settled(w, c)
  BY <1>1, <1>3 DEF Settled
<1>6. ASSUME NEW f
      PROVE  Held(f)' <=> Held(f)
  BY <1>1, <1>2, <1>3, <1>5 DEF Held
<1>7. ASSUME NEW f, NEW w, NEW c
      PROVE  After(f, w, c)' <=> After(f, w, c)
  BY <1>1 DEF After
<1>8. ASSUME NEW f, NEW g
      PROVE  Stacked(f, g)' <=> Stacked(f, g)
  BY <1>7 DEF Stacked, Beyond
<1>9. ASSUME NEW s, NEW w, NEW c
      PROVE  FramesOpen(s, w, c)' <=> FramesOpen(s, w, c)
  BY <1>6, <1>7, <1>8 DEF FramesOpen, Ordered, Beyond, Fresh
<1>10. PICK s, l, w, c : s = frames' /\ l = comments' /\ w = window' /\ c = claims'
  OBVIOUS
<1>11. LedgerOK(s, l, w, c)
  BY <1>10
<1> QED
  BY <1>4, <1>5, <1>9, <1>10, <1>11 DEF LedgerStands, LedgerOK

(* Where a comparison or an expression reads a token other than its `<`.     *)
LEMMA TopIs ==
    ASSUME ParseInv, NEW i \in 1..Len(frames), i = Len(frames)
    PROVE  frames[i] = Top /\ frames # <<>>
<1>1. PICK e : e = <<>>
  OBVIOUS
<1>2. Len(e) = 0 /\ Len(frames) # 0
  BY <1>1
<1>3. frames # <<>>
  BY <1>1, <1>2
<1> QED
  BY <1>3 DEF Top

LEMMA ExpressionIsClear ==
    ASSUME ParseInv, LedgerStands, Within(Expressions),
           \/ window.current.kind \notin Less
           \/ Top.is = "comparison" => Top.cp.window.current.start # At
    PROVE  Clear(frames, window, claims)
<1>1. FramesOpen(frames, window, claims)
  BY LedgerNow
<1>2. ASSUME NEW i \in 1..Len(frames), i = Len(frames)
      PROVE  /\ frames[i].is \notin Types
             /\ frames[i].is = "comparison" => window.current # frames[i].cp.window.current
  <2>1. frames[i] = Top
    BY <1>2, TopIs
  <2>2. frames[i].is \notin Types
    BY <2>1 DEF Within, Expressions, Statements, Types
  <2>3. ASSUME frames[i].is = "comparison", window.current = frames[i].cp.window.current
        PROVE  FALSE
    <3>1. frames[i].is \in Speculative
      BY <2>3 DEF Speculative
    <3>2. \A j \in 1..Len(frames) :
              frames[j].is \in Speculative => Place(frames[j]) < window.current.start
      BY AllBehind
    <3>3. window.current.start < window.current.start
      BY <2>3, <3>1, <3>2 DEF Place
    <3>4. window.current.start \in Nat
      BY LedgerNow, Numbers
    <3> QED
      BY <3>3, <3>4
  <2> QED
    BY <2>2, <2>3
<1> QED
  BY <1>1, <1>2, OpenIsClear

(* The current token is read. *)
LEMMA ReadsOn ==
    ASSUME ParseInv, LedgerStands, Kind # <<>>, Advanced(window, comments).ok,
           Kind = <<"<">> => Top.is # "list",
           NEW v, v = Advanced(window, comments).window,
           NEW m, m = Advanced(window, comments).comments
    PROVE  /\ v \in Windows /\ v.prevEnd = window.current.end /\ Passed(window, v)
           /\ Ledger(m, v.cursor, claims) /\ Settled(v, claims) /\ Clear(frames, v, claims)
           /\ Len(comments) <= Len(m) /\ \A i \in 1..Len(comments) : m[i] = comments[i]
<1>1. /\ text \in Seq(Atoms) /\ WindowOK(window) /\ window \in Windows
      /\ Ledger(comments, window.cursor, claims) /\ Settled(window, claims)
      /\ FramesOpen(frames, window, claims)
  BY LedgerNow
<1>2. window.current.start < Past
  BY CurrentIsRead
<1>3. /\ WindowOK(v) /\ Ledger(m, v.cursor, claims) /\ Settled(v, claims) /\ Passed(window, v)
      /\ v.prevEnd = window.current.end /\ window.cursor <= v.current.end
      /\ Len(comments) <= Len(m) /\ \A i \in 1..Len(comments) : m[i] = comments[i]
  BY <1>1, <1>2, AdvancedKeeps
<1>4. v \in Windows /\ v.current.end <= v.cursor
  BY <1>3 DEF Settled
<1>5. window.current.kind = <<"<">> => \A i \in 1..Len(frames) : i = Len(frames) => frames[i].is # "list"
  BY TopIs DEF Kind
<1>6. window.current.start <= window.current.end
  BY <1>1, WindowPlaces
<1>7. Clear(frames, v, claims)
  BY <1>1, <1>3, <1>4, <1>5, <1>6, OpenAdvances
<1> QED
  BY <1>3, <1>4, <1>7

LEMMA ClearIsLedger ==
    ASSUME text' = text, Ledger(comments', window'.cursor, claims'), Settled(window', claims'),
           Clear(frames', window', claims')
    PROVE  LedgerStands'
<1>1. FramesOpen(frames', window', claims')
  <2>1. PICK s, w, c : s = frames' /\ w = window' /\ c = claims'
    OBVIOUS
  <2>2. Clear(s, w, c)
    BY <2>1
  <2> QED
    BY <2>1, <2>2, ClearIsOpen
<1>2. LedgerOK(frames', comments', window', claims')
  BY <1>1 DEF LedgerOK
<1> QED
  BY <1>2, LedgerNext

(* A step that reads the current token, opening and closing nothing.         *)
LEMMA ReadingStays ==
    ASSUME ParseInv, LedgerStands, Kind # <<>>, Kind = <<"<">> => Top.is # "list",
           Take(Advanced(window, comments)), UNCHANGED <<text, frames, claims>>
    PROVE  LedgerStands'
<1>1. PICK v, m : v = window' /\ m = comments'
  OBVIOUS
<1>2. /\ Advanced(window, comments).ok
      /\ v = Advanced(window, comments).window /\ m = Advanced(window, comments).comments
  BY <1>1 DEF Take
<1>3. Ledger(m, v.cursor, claims) /\ Settled(v, claims) /\ Clear(frames, v, claims)
  BY <1>2, ReadsOn
<1> QED
  BY <1>1, <1>3, ClearIsLedger

LEMMA ReadLedger == ParseInv /\ LedgerStands /\ Read => LedgerStands'
<1> SUFFICES ASSUME ParseInv, LedgerStands, Read PROVE LedgerStands'
  OBVIOUS
<1>1. Kind # <<>> /\ Kind # <<"<">>
  <2>1. <<>> \notin Operators
    BY DEF Operators
  <2>2. <<>> \notin Plain
    BY <2>1 DEF Plain
  <2>3. <<"<">> \notin Plain
    BY DEF Plain
  <2> QED
    BY <2>2, <2>3 DEF Read
<1> QED
  BY <1>1, ReadingStays DEF Read

LEMMA CompareLedger == ParseInv /\ LedgerStands /\ Compare => LedgerStands'
<1> SUFFICES ASSUME ParseInv, LedgerStands, Compare PROVE LedgerStands'
  OBVIOUS
<1>1. Kind # <<>>
  BY LessIsRead DEF Compare
<1>2. Top.is # "list"
  BY DEF Compare, Within, Expressions, Statements
<1> QED
  BY <1>1, <1>2, ReadingStays DEF Compare

LEMMA EndStatementLedger == ParseInv /\ LedgerStands /\ EndStatement => LedgerStands'
<1> SUFFICES ASSUME ParseInv, LedgerStands, EndStatement PROVE LedgerStands'
  OBVIOUS
<1>1. Kind # <<>>
  BY DEF EndStatement
<1>2. Top.is # "list"
  BY DEF EndStatement, Within, Statements
<1> QED
  BY <1>1, <1>2, ReadingStays DEF EndStatement

---------------------------------------------------------------------------
(* Constructs open and close *)

LEMMA ReadingOpens ==
    ASSUME ParseInv, LedgerStands, Kind # <<>>, Kind # <<"<">>,
           Take(Advanced(window, comments)), UNCHANGED <<text, claims>>,
           NEW x, x.is \notin Speculative, x.is # "paren", frames' = Append(frames, x)
    PROVE  LedgerStands'
<1>1. PICK v, m : v = window' /\ m = comments'
  OBVIOUS
<1>2. /\ Advanced(window, comments).ok
      /\ v = Advanced(window, comments).window /\ m = Advanced(window, comments).comments
  BY <1>1 DEF Take
<1>3. Ledger(m, v.cursor, claims) /\ Settled(v, claims) /\ Clear(frames, v, claims)
  BY <1>2, ReadsOn
<1>4. Stack(frames)
  BY LedgerNow
<1>5. Clear(Append(frames, x), v, claims)
  BY <1>3, <1>4, PlainPushed
<1> QED
  BY <1>1, <1>3, <1>5, ClearIsLedger

LEMMA EnterBodyLedger == ParseInv /\ LedgerStands /\ EnterBody => LedgerStands'
<1> SUFFICES ASSUME ParseInv, LedgerStands, EnterBody PROVE LedgerStands'
  OBVIOUS
<1>1. Kind # <<>> /\ Kind # <<"<">>
  BY DEF EnterBody
<1>2. PICK context \in Contexts : frames' = Pushed(Body(context))
  BY DEF EnterBody
<1>3. PICK x : x = Body(context)
  OBVIOUS
<1>4. x.is \notin Speculative /\ x.is # "paren" /\ frames' = Append(frames, x)
  BY <1>2, <1>3 DEF Body, Speculative, Pushed
<1> QED
  BY <1>1, <1>4, ReadingOpens DEF EnterBody

(* A cast's comment lies between the token before its paren and the paren.   *)
LEMMA CastIsAhead ==
    ASSUME ParseInv, LedgerStands, NEW i \in CastComment
    PROVE  /\ i \in 1..Len(comments) /\ comments[i].at \in Nat
           /\ window.prevEnd <= comments[i].at /\ comments[i].at < window.current.start
<1>1. /\ WindowOK(window) /\ text \in Seq(Atoms) /\ Settled(window, claims)
      /\ Ledger(comments, window.cursor, claims) /\ window \in Windows
  BY LedgerNow
<1>2. DOMAIN comments = 1..Len(comments) /\ window.cursor \in Nat
  BY <1>1, Numbers DEF Ledger
<1>3. i \in 1..Len(comments)
  BY <1>2 DEF CastComment
<1>4. PICK p \in Nat : p = comments[i].at /\ p > 0
  <2>1. PICK k \in Nat : k = window.cursor
    BY <1>2
  <2>2. Ledger(comments, k, claims)
    BY <1>1, <2>1
  <2>3. comments[i].at \in Nat /\ comments[i].at > 0
    BY <1>3, <2>2, LedgerOf
  <2> QED
    BY <2>3
<1>5. text[p] = "cast" /\ p < window.current.start
      /\ \A q \in (p + 1)..(window.current.start - 1) : text[q] = "nl"
  BY <1>4 DEF CastComment, At
<1>6. PICK b \in Nat, a \in Nat : b = window.prevEnd /\ a = window.current.start /\ b <= a
  BY <1>1, WindowPlaces
<1>7. ASSUME p < b
      PROVE  FALSE
  <2>1. text[b - 1] \notin Blank
    BY <1>1, <1>4, <1>6, <1>7 DEF Settled
  <2>2. b - 1 = p \/ b - 1 \in (p + 1)..(a - 1)
    BY <1>4, <1>6, <1>7
  <2>3. text[b - 1] \in {"cast", "nl"}
    BY <1>5, <1>6, <2>2
  <2> QED
    BY <2>1, <2>3 DEF Blank, CommentAtoms, Block
<1> QED
  BY <1>3, <1>4, <1>5, <1>6, <1>7

LEMMA ParenOpens ==
    ASSUME ParseInv, LedgerStands, Kind = <<"(">>, Within(Expressions),
           Take(Advanced(window, comments)), UNCHANGED <<text, claims>>,
           NEW x, x = Grouping("paren", CastComment), frames' = Append(frames, x)
    PROVE  LedgerStands'
<1>1. PICK v, m : v = window' /\ m = comments'
  OBVIOUS
<1>2. /\ Advanced(window, comments).ok
      /\ v = Advanced(window, comments).window /\ m = Advanced(window, comments).comments
  BY <1>1 DEF Take
<1>3. Kind # <<>> /\ Kind # <<"<">> /\ window.current.kind \notin Less
  BY DEF Less, Kind
<1>4. /\ Ledger(m, v.cursor, claims) /\ Settled(v, claims) /\ Clear(frames, v, claims)
      /\ v.prevEnd = window.current.end /\ v \in Windows
  BY <1>2, <1>3, ReadsOn
<1>5. /\ text \in Seq(Atoms) /\ WindowOK(window) /\ window \in Windows /\ Stack(frames)
      /\ Ledger(comments, window.cursor, claims) /\ Settled(window, claims)
  BY LedgerNow
<1>6. Clear(frames, window, claims)
  BY <1>3, ExpressionIsClear
<1>7. /\ x.is = "paren" /\ x.cast = CastComment
      /\ x.castAt = {comments[i].at : i \in CastComment}
  BY DEF Grouping
<1>8. PICK k \in Nat : k = window.cursor
  BY <1>5, Numbers
<1>9. PICK a \in Nat, e \in Nat : /\ a = window.current.start /\ e = window.current.end /\ a <= e
                                  /\ e <= Past /\ Past \in Nat
  BY <1>5, WindowPlaces
<1>10. k <= Past
  BY <1>5, <1>8 DEF Settled
<1>11. Ledger(comments, k, claims)
  BY <1>5, <1>8
<1>12. ASSUME NEW i \in CastComment
       PROVE  /\ comments[i].at \in UpTo(k) /\ Rank(comments[i].at) + 1 = i
              /\ comments[i].at < a /\ window.prevEnd <= comments[i].at /\ comments[i].at \in Nat
  <2>1. i \in 1..Len(comments)
    BY CastIsAhead
  <2> QED
    BY <1>9, <1>11, <2>1, CastIsAhead, LedgerOf
<1>13. UpTo(k) \subseteq UpTo(Past)
  BY <1>9, <1>10, RankGrows
<1>14. Held(x)
  <2>1. ASSUME NEW p \in UpTo(Past), Rank(p) + 1 \in x.cast
        PROVE  p \in x.castAt
    <3>1. PICK i \in CastComment : i = Rank(p) + 1
      BY <1>7, <2>1
    <3>2. comments[i].at \in UpTo(Past) /\ Rank(comments[i].at) + 1 = Rank(p) + 1
      BY <1>12, <1>13, <3>1
    <3>3. p \in Nat /\ comments[i].at \in Nat
      BY <1>12, <3>1 DEF UpTo
    <3>4. Rank(comments[i].at) = Rank(p)
      <4>1. Rank(comments[i].at) \in Nat /\ Rank(p) \in Nat
        BY <3>3, RankIsNatural
      <4> QED
        BY <3>2, <4>1
    <3>5. comments[i].at = p
      BY <1>9, <3>2, <3>4, RankTells
    <3> QED
      BY <1>7, <3>5
  <2>2. ASSUME NEW p \in UpTo(Past), p \in x.castAt
        PROVE  Rank(p) + 1 \in x.cast
    <3>1. PICK i \in CastComment : p = comments[i].at
      BY <1>7, <2>2
    <3> QED
      BY <1>7, <1>12, <3>1
  <2> QED
    BY <1>7, <2>1, <2>2 DEF Held, Speculative
<1>15. After(x, v, claims)
  <2>1. ASSUME NEW p \in x.castAt
        PROVE  p \in UpTo(e)
    <3>1. PICK i \in CastComment : p = comments[i].at
      BY <1>7
    <3>2. p \in UpTo(k) /\ p < a /\ p \in Nat
      BY <1>12, <3>1
    <3> QED
      BY SMTT(60), <1>9, <3>2 DEF UpTo
  <2> QED
    BY <1>4, <1>7, <1>9, <2>1 DEF After, Speculative
<1>16. ASSUME NEW i \in 1..Len(frames)
       PROVE  Stacked(frames[i], x)
  <2>1. ASSUME frames[i].is \in Speculative, NEW p \in x.castAt
        PROVE  Limit(frames[i]) <= p
    <3>1. PICK j \in CastComment : p = comments[j].at
      BY <1>7
    <3>2. p \in Nat /\ window.prevEnd <= p
      BY <1>12, <3>1
    <3> QED
      BY <1>5, <1>6, <2>1, <3>2, ClaimedInFront
  <2> QED
    BY <1>7, <2>1 DEF Stacked, Speculative
<1>17. x.is \notin Speculative
  BY <1>7 DEF Speculative
<1>18. Clear(Append(frames, x), v, claims)
  BY <1>4, <1>5, <1>14, <1>15, <1>16, <1>17, OpenPushed
<1> QED
  BY <1>1, <1>4, <1>18, ClearIsLedger

LEMMA OpenGroupingLedger == ParseInv /\ LedgerStands /\ OpenGrouping => LedgerStands'
<1> SUFFICES ASSUME ParseInv, LedgerStands, OpenGrouping PROVE LedgerStands'
  OBVIOUS
<1>1. /\ Take(Advanced(window, comments)) /\ UNCHANGED <<text, claims>>
  BY DEF OpenGrouping
<1>2. CASE /\ Kind = <<"(">> /\ Within(Expressions)
           /\ frames' = Pushed(Grouping("paren", CastComment))
  BY <1>1, <1>2, ParenOpens DEF Pushed
<1>3. CASE Kind \in {<<"(">>, <<"[">>} /\ frames' = Pushed(Grouping("delimiter", {}))
  <2>1. PICK x : x = Grouping("delimiter", {})
    OBVIOUS
  <2>2. x.is \notin Speculative /\ x.is # "paren"
    BY <2>1 DEF Grouping, Speculative
  <2>3. Kind # <<>> /\ Kind # <<"<">>
    BY <1>3
  <2> QED
    BY <1>1, <1>3, <2>1, <2>2, <2>3, ReadingOpens DEF Pushed
<1> QED
  BY <1>2, <1>3 DEF OpenGrouping

(* Past every speculation's tokens, the construct open last is closed.       *)
LEMMA ClearCloses ==
    ASSUME ParseInv, Top.is # "program", text' = text,
           Ledger(comments', window'.cursor, claims'), Settled(window', claims'),
           Clear(frames, window', claims'), frames' = Outer
    PROVE  LedgerStands'
<1>1. PICK n \in Nat : Len(frames) = n + 1 /\ Outer = SubSeq(frames, 1, n)
  BY TopStands
<1>2. n \in 0..Len(frames) /\ Stack(frames)
  BY <1>1, FramesStack
<1>3. PICK t : t = SubSeq(frames, 1, n)
  OBVIOUS
<1>4. Len(t) = n /\ Same(t, frames, n)
  BY <1>2, <1>3, StackCut
<1>5. PICK w, c : w = window' /\ c = claims'
  OBVIOUS
<1>6. Clear(frames, w, c)
  BY <1>5
<1>7. Clear(t, w, c)
  BY <1>2, <1>4, <1>6, ClearCut
<1>8. Clear(frames', window', claims')
  BY <1>1, <1>3, <1>5, <1>7
<1> QED
  BY <1>8, ClearIsLedger

LEMMA ReadingCloses ==
    ASSUME ParseInv, LedgerStands, Kind # <<>>, Kind # <<"<">>, Top.is # "program",
           Take(Advanced(window, comments)), UNCHANGED <<text, claims>>, frames' = Outer
    PROVE  LedgerStands'
<1>1. PICK v, m : v = window' /\ m = comments'
  OBVIOUS
<1>2. /\ Advanced(window, comments).ok
      /\ v = Advanced(window, comments).window /\ m = Advanced(window, comments).comments
  BY <1>1 DEF Take
<1>3. Ledger(m, v.cursor, claims) /\ Settled(v, claims) /\ Clear(frames, v, claims)
  BY <1>2, ReadsOn
<1> QED
  BY <1>1, <1>3, ClearCloses

LEMMA ExitBodyLedger == ParseInv /\ LedgerStands /\ ExitBody => LedgerStands'
<1> SUFFICES ASSUME ParseInv, LedgerStands, ExitBody PROVE LedgerStands'
  OBVIOUS
<1>1. Kind # <<>> /\ Kind # <<"<">> /\ Top.is # "program"
  BY DEF ExitBody, Within
<1> QED
  BY <1>1, ReadingCloses DEF ExitBody

LEMMA CloseGroupingLedger == ParseInv /\ LedgerStands /\ CloseGrouping => LedgerStands'
<1> SUFFICES ASSUME ParseInv, LedgerStands, CloseGrouping PROVE LedgerStands'
  OBVIOUS
<1>1. Kind # <<>> /\ Kind # <<"<">> /\ Top.is # "program"
  BY DEF CloseGrouping, Within
<1> QED
  BY <1>1, ReadingCloses DEF CloseGrouping

---------------------------------------------------------------------------
(* Type arguments a type takes *)

LEMMA OpenTypeArgumentsLedger == ParseInv /\ LedgerStands /\ OpenTypeArguments => LedgerStands'
<1> SUFFICES ASSUME ParseInv, LedgerStands, OpenTypeArguments PROVE LedgerStands'
  OBVIOUS
<1>1. /\ text \in Seq(Atoms) /\ WindowOK(window) /\ window \in Windows /\ Stack(frames)
      /\ Ledger(comments, window.cursor, claims) /\ Settled(window, claims)
      /\ FramesOpen(frames, window, claims)
  BY LedgerNow
<1>2. PICK v, m : v = window' /\ m = comments'
  OBVIOUS
<1>3. /\ LessSplit(window, comments).ok
      /\ v = LessSplit(window, comments).window /\ m = LessSplit(window, comments).comments
  BY <1>2 DEF OpenTypeArguments, Take
<1>4. window.current.kind \in Less
  BY LessIsRead DEF OpenTypeArguments
<1>5. /\ Steps(window, claims, v, m)
      /\ window.current.kind = <<"<">> =>
            v.prevEnd = window.current.end /\ window.cursor <= v.current.end
  BY <1>1, <1>3, <1>4, LessSplitKeeps
<1>6. /\ WindowOK(v) /\ Ledger(m, v.cursor, claims) /\ Settled(v, claims) /\ Passed(window, v)
      /\ v \in Windows /\ v.current.end <= v.cursor
  BY <1>5 DEF Steps, Settled
<1>7. window.current.start <= window.current.end
  BY <1>1, WindowPlaces
<1>8. ASSUME NEW i \in 1..Len(frames)
      PROVE  /\ After(frames[i], v, claims)
             /\ frames[i].is \in Speculative => Beyond(frames[i], v) \/ Begun(frames, i, v)
  <2>1. /\ Held(frames[i]) /\ After(frames[i], window, claims)
        /\ frames[i].is \in Speculative => Beyond(frames[i], window) \/ Fresh(frames, i, window)
    BY <1>1 DEF FramesOpen, Ordered
  <2>2. CASE window.current.kind = <<"<">>
    <3>1. /\ After(frames[i], v, claims)
          /\ frames[i].is \in Speculative =>
                \/ Beyond(frames[i], v)
                \/ /\ i = Len(frames) /\ frames[i].is = "list" /\ window.current.kind = <<"<">>
                   /\ frames[i].cp.window.cursor <= v.current.end
      <4>1. v.prevEnd = window.current.end /\ window.cursor <= v.current.end
        BY <1>5, <2>2
      <4>2. window \in Windows
        BY <1>1
      <4>3. v \in Windows /\ v.current.end <= v.cursor /\ Passed(window, v)
        BY <1>6
      <4> QED
        BY <1>7, <2>1, <4>1, <4>2, <4>3, FrameAdvances
    <3>2. ASSUME i = Len(frames), frames[i].is = "list", frames[i].cp.window.cursor <= v.current.end
          PROVE  Begun(frames, i, v)
      <4>1. \A k \in i..Len(frames) : k = i
        BY <3>2
      <4> QED
        BY <3>2, <4>1 DEF Begun, Types
    <3> QED
      BY <3>1, <3>2
  <2>3. CASE window.current.kind # <<"<">>
    <3>1. ~(i = Len(frames) /\ frames[i].is = "comparison")
      <4> SUFFICES ASSUME i = Len(frames), frames[i].is = "comparison"
                   PROVE  FALSE
        OBVIOUS
      <4>1. frames[i] = Top
        BY TopIs
      <4> QED
        BY <4>1 DEF OpenTypeArguments, Within, Types
    <3>2. frames[i].is \in Speculative /\ ~Beyond(frames[i], window) =>
              /\ \A k \in i..Len(frames) : frames[k].is \in Types
              /\ frames[i].cp.window.cursor <= window.current.end
      BY <2>1, <2>3, <3>1 DEF Fresh
    <3>3. frames[i].is \in Speculative => frames[i].cp.window.cursor <= window.current.end
      BY <3>2 DEF Beyond
    <3>4. /\ After(frames[i], v, claims)
          /\ frames[i].is \in Speculative => frames[i].cp.window.cursor <= v.current.end
          /\ frames[i].is \in Speculative /\ Beyond(frames[i], window) => Beyond(frames[i], v)
      BY <1>1, <1>6, <2>1, <3>3, FramePasses
    <3> QED
      BY <3>2, <3>4 DEF Begun
  <2> QED
    BY <2>2, <2>3
<1>9. PICK x : x = Grouping("typeArguments", {})
  OBVIOUS
<1>10. x.is \in {"typeArguments", "parameters"}
  BY <1>9 DEF Grouping
<1>11. Ordered(frames)
  BY <1>1 DEF FramesOpen
<1>12. FramesOpen(Append(frames, x), v, claims)
  BY <1>1, <1>8, <1>10, <1>11, TypesPushed
<1>13. frames' = Append(frames, x) /\ UNCHANGED <<text, claims>>
  BY <1>9 DEF OpenTypeArguments, Pushed
<1>14. LedgerOK(frames', comments', window', claims')
  BY <1>2, <1>6, <1>12, <1>13 DEF LedgerOK
<1> QED
  BY <1>13, <1>14, LedgerNext

LEMMA GreaterCloses ==
    ASSUME ParseInv, LedgerStands, LeadsGreater, Take(GreaterSplit(window, comments)),
           Top.is \notin {"program", "comparison"}, frames' = Outer, UNCHANGED <<text, claims>>
    PROVE  LedgerStands'
<1>1. /\ text \in Seq(Atoms) /\ WindowOK(window) /\ window \in Windows /\ Stack(frames)
      /\ Ledger(comments, window.cursor, claims) /\ Settled(window, claims)
      /\ FramesOpen(frames, window, claims)
  BY LedgerNow
<1>2. PICK v, m : v = window' /\ m = comments'
  OBVIOUS
<1>3. /\ GreaterSplit(window, comments).ok
      /\ v = GreaterSplit(window, comments).window /\ m = GreaterSplit(window, comments).comments
  BY <1>2 DEF Take
<1>4. window.current.kind # <<>> /\ Head(window.current.kind) = ">"
  BY DEF LeadsGreater, Kind
<1>5. Steps(window, claims, v, m)
  BY <1>1, <1>3, <1>4, GreaterSplitKeeps
<1>6. Ledger(m, v.cursor, claims) /\ Settled(v, claims) /\ Passed(window, v) /\ v \in Windows
  BY <1>5 DEF Steps, Settled
<1>7. window.current.kind # <<"<">>
  <2>1. PICK o : o = <<"<">>
    OBVIOUS
  <2>2. Head(o) = "<"
    BY <2>1
  <2> QED
    BY <1>4, <2>1, <2>2
<1>8. \A i \in 1..Len(frames) : i = Len(frames) => frames[i].is # "comparison"
  BY TopIs
<1>9. FramesOpen(frames, v, claims)
  BY <1>1, <1>6, <1>7, <1>8, OpenPasses
<1>10. PICK n \in Nat : Len(frames) = n + 1 /\ Outer = SubSeq(frames, 1, n)
  BY TopStands
<1>11. PICK t : t = SubSeq(frames, 1, n)
  OBVIOUS
<1>12. n \in 0..Len(frames)
  BY <1>10
<1>13. Len(t) = n /\ Same(t, frames, n)
  BY <1>1, <1>11, <1>12, StackCut
<1>14. FramesOpen(t, v, claims)
  BY <1>9, <1>10, <1>13, OpenCut
<1>15. LedgerOK(frames', comments', window', claims')
  BY <1>2, <1>6, <1>10, <1>11, <1>14 DEF LedgerOK
<1> QED
  BY <1>15, LedgerNext

LEMMA CloseTypeArgumentsLedger == ParseInv /\ LedgerStands /\ CloseTypeArguments => LedgerStands'
<1> SUFFICES ASSUME ParseInv, LedgerStands, CloseTypeArguments PROVE LedgerStands'
  OBVIOUS
<1>1. Top.is \notin {"program", "comparison"}
  BY DEF CloseTypeArguments, Within
<1> QED
  BY <1>1, GreaterCloses DEF CloseTypeArguments

(* A peek drains the comments it passes and moves the lexer alone. *)
LEMMA PeekLedger == ParseInv /\ LedgerStands /\ Peek => LedgerStands'
<1> SUFFICES ASSUME ParseInv, LedgerStands, Peek PROVE LedgerStands'
  OBVIOUS
<1>1. /\ text \in Seq(Atoms) /\ WindowOK(window) /\ window \in Windows
      /\ Ledger(comments, window.cursor, claims) /\ Settled(window, claims)
      /\ FramesOpen(frames, window, claims)
  BY LedgerNow
<1>2. PICK w : w = window
  OBVIOUS
<1>3. PICK e \in Nat : e = w.current.end /\ e \in 1..Past
  BY <1>1, <1>2, WindowPlaces
<1>4. w.cursor = e /\ w.peek = NoToken /\ ~w.error
  BY <1>1, <1>2, <1>3 DEF Peek, WindowOK
<1>5. PICK f : f = Fetch(e)
  OBVIOUS
<1>6. PICK v, m : v = window' /\ m = comments'
  OBVIOUS
<1>7. /\ v = [w EXCEPT !.peek = IF f.bad THEN NoToken ELSE f.token, !.error = f.bad,
                       !.peekBroken = f.broken, !.cursor = f.cursor]
      /\ m = comments \o f.drained
  BY <1>2, <1>4, <1>5, <1>6 DEF Peek
<1>8. /\ f.token \in Tokens /\ f.broken \in BOOLEAN /\ f.cursor \in Nat /\ f.bad \in BOOLEAN
  BY <1>1, <1>3, <1>5, FetchIsTyped
<1>9. PICK q \in e..Past : q \in Nat /\ q <= f.cursor /\ f.cursor <= Past
  BY <1>1, <1>3, <1>5, FetchDrains
<1>10. /\ v.current = w.current /\ v.prevEnd = w.prevEnd /\ v.cursor = f.cursor
       /\ v \in Windows
  <2>1. w \in Windows
    BY <1>1, <1>2
  <2>2. PICK p : p = IF f.bad THEN NoToken ELSE f.token
    OBVIOUS
  <2>3. p \in Tokens \cup {NoToken}
    BY <1>8, <2>2
  <2>4. v = [w EXCEPT !.peek = p, !.error = f.bad, !.peekBroken = f.broken, !.cursor = f.cursor]
    BY <1>7, <2>2
  <2> QED
    BY <1>8, <2>1, <2>3, <2>4 DEF Windows
<1>11. e <= f.cursor
  BY <1>3, <1>8, <1>9
<1>12. claims \subseteq UpTo(e)
  <2>1. claims \subseteq UpTo(w.prevEnd)
    BY <1>1, <1>2 DEF Settled
  <2>2. w.prevEnd \in Nat /\ w.prevEnd <= e
    BY SMTT(60), <1>1, <1>2, <1>3, WindowPlaces
  <2> QED
    BY <1>3, <2>1, <2>2, RankGrows
<1>13. Ledger(m, f.cursor, claims)
  <2>1. Ledger(comments, e, claims)
    BY <1>1, <1>2, <1>4
  <2> QED
    BY <1>1, <1>3, <1>5, <1>7, <1>12, <2>1, FetchedLedger
<1>14. Settled(v, claims)
  BY <1>1, <1>2, <1>3, <1>9, <1>10, <1>11 DEF Settled
<1>15. FramesOpen(frames, v, claims)
  BY <1>1, <1>2, <1>4, <1>10, <1>11, OpenPeeks
<1>16. frames' = frames /\ claims' = claims /\ text' = text
  BY DEF Peek
<1>17. LedgerOK(frames', comments', window', claims')
  BY <1>6, <1>10, <1>13, <1>14, <1>15, <1>16 DEF LedgerOK
<1> QED
  BY <1>16, <1>17, LedgerNext

---------------------------------------------------------------------------
(* Comments are claimed *)

LEMMA Owning ==
    ASSUME NEW q \in Nat, NEW c, NEW l, Ledger(l, q, c), NEW S, NEW d,
           \A i \in 1..Len(l) : i \in S <=> l[i].at \in d,
           NEW m, m = [i \in DOMAIN l |-> IF i \in S THEN [l[i] EXCEPT !.owned = TRUE] ELSE l[i]]
    PROVE  Ledger(m, q, c \cup d)
<1>1. PICK n \in Nat : n = Len(l) /\ n = Rank(q)
  BY RankIsNatural DEF Ledger
<1>2. DOMAIN l = 1..n
  BY <1>1 DEF Ledger
<1>3. ASSUME NEW i \in 1..n
      PROVE  /\ m[i] \in Comment /\ m[i].at = l[i].at /\ l[i].at \in UpTo(q)
             /\ Rank(l[i].at) = i - 1
             /\ m[i].owned <=> m[i].at \in c \cup d
  <2>1. i \in 1..Len(l)
    BY <1>1
  <2>2. /\ l[i] \in Comment /\ l[i].at \in UpTo(q) /\ (l[i].owned <=> l[i].at \in c)
    BY <2>1, LedgerOf
  <2>3. Rank(l[i].at) = i - 1
    BY <2>1 DEF Ledger
  <2>4. m[i] = IF i \in S THEN [l[i] EXCEPT !.owned = TRUE] ELSE l[i]
    BY <1>2
  <2>5. i \in S <=> l[i].at \in d
    BY <2>1
  <2>6. CASE i \in S
    <3>1. PICK b \in BOOLEAN : b = TRUE
      OBVIOUS
    <3>2. m[i] = [l[i] EXCEPT !.owned = b]
      BY <2>4, <2>6, <3>1
    <3>3. m[i] \in Comment /\ m[i].at = l[i].at /\ m[i].owned
      <4>1. PICK x \in Comment : x = l[i]
        BY <2>2
      <4>2. PICK z : z = [x EXCEPT !.owned = b]
        OBVIOUS
      <4>3. z \in Comment /\ z.at = x.at /\ (z.owned <=> b)
        BY <4>2, Marked
      <4> QED
        BY <3>1, <3>2, <4>1, <4>2, <4>3
    <3> QED
      BY <2>2, <2>3, <2>5, <2>6, <3>3
  <2>7. CASE i \notin S
    <3>1. m[i] = l[i]
      BY <2>4, <2>7
    <3> QED
      BY <2>2, <2>3, <2>5, <2>7, <3>1
  <2> QED
    BY <2>6, <2>7
<1>4. m \in [1..n -> Comment]
  BY <1>2, <1>3
<1>5. m \in Seq(Comment) /\ Len(m) = n
  BY <1>4, Listing
<1> QED
  BY <1>1, <1>3, <1>5 DEF Ledger

LEMMA SettledMore ==
    ASSUME NEW w, NEW c, Settled(w, c), NEW d, d \subseteq UpTo(w.prevEnd)
    PROVE  Settled(w, c \cup d)
BY DEF Settled

LEMMA LeafLedger == ParseInv /\ LedgerStands /\ Leaf => LedgerStands'
<1> SUFFICES ASSUME ParseInv, LedgerStands, Leaf PROVE LedgerStands'
  OBVIOUS
<1>1. /\ text \in Seq(Atoms) /\ WindowOK(window) /\ window \in Windows
      /\ Ledger(comments, window.cursor, claims) /\ Settled(window, claims)
      /\ DOMAIN comments = 1..Len(comments)
  BY LedgerNow DEF Ledger
<1>2. PICK glued : glued = {i \in DOMAIN comments :
                               comments[i].at = At - 1 /\ text[At - 1] \in Block}
  OBVIOUS
<1>3. PICK d : d = {comments[i].at : i \in glued}
  OBVIOUS
<1>4. PICK v, l : v = window' /\ l = Advanced(window, comments).comments
  OBVIOUS
<1>5. /\ Advanced(window, comments).ok /\ v = Advanced(window, comments).window
      /\ comments' = [i \in DOMAIN l |-> IF i \in glued THEN [l[i] EXCEPT !.owned = TRUE]
                                         ELSE l[i]]
      /\ claims' = claims \cup d /\ frames' = frames /\ text' = text
  BY <1>2, <1>3, <1>4 DEF Leaf
<1>6. Kind # <<>> /\ Kind # <<"<">> /\ window.current.kind \notin Less /\ Within(Expressions)
  BY DEF Leaf, Less, Kind
<1>7. /\ Ledger(l, v.cursor, claims) /\ Settled(v, claims) /\ Clear(frames, v, claims)
      /\ v.prevEnd = window.current.end /\ v \in Windows /\ Passed(window, v)
      /\ Len(comments) <= Len(l) /\ \A i \in 1..Len(comments) : l[i] = comments[i]
  BY <1>4, <1>5, <1>6, ReadsOn
<1>8. PICK k \in Nat : k = v.cursor
  BY <1>7, Numbers
<1>9. PICK b \in Nat, a \in Nat, e \in Nat :
          /\ b = window.prevEnd /\ a = window.current.start /\ e = window.current.end
          /\ b <= a /\ a <= e /\ 1 <= b
  BY <1>1, WindowPlaces
<1>10. Ledger(l, k, claims)
  BY <1>7, <1>8
<1>11. Len(comments) \in Nat /\ Len(l) \in Nat
  BY <1>1, <1>10 DEF Ledger
<1>12. ASSUME NEW i \in glued
       PROVE  /\ i \in 1..Len(l) /\ l[i] = comments[i] /\ comments[i].at = a - 1 /\ a - 1 \in Nat
              /\ b <= a - 1 /\ a - 1 \in UpTo(e)
  <2>1. i \in 1..Len(comments) /\ comments[i].at = a - 1 /\ text[a - 1] \in Block
    BY <1>1, <1>2, <1>9 DEF At
  <2>2. i \in 1..Len(l) /\ l[i] = comments[i]
    BY <1>7, <1>11, <2>1
  <2>3. l[i].at \in Nat /\ l[i].at > 0
    BY <1>10, <2>2, LedgerOf
  <2>4. a - 1 \in Nat /\ a - 1 > 0
    BY <2>1, <2>2, <2>3
  <2>5. text[a - 1] \in CommentAtoms /\ text[a - 1] \in Blank
    BY <2>1 DEF CommentAtoms, Blank
  <2>6. b # a
    BY SMTT(60), <1>1, <1>9, <2>4, <2>5 DEF Settled
  <2> QED
    BY SMTT(60), <1>9, <2>1, <2>2, <2>4, <2>5, <2>6 DEF UpTo
<1>13. \A i \in 1..Len(l) : i \in glued <=> l[i].at \in d
  <2> SUFFICES ASSUME NEW i \in 1..Len(l), l[i].at \in d
               PROVE  i \in glued
    BY <1>3, <1>12
  <2>1. PICK j \in glued : l[i].at = comments[j].at
    BY <1>3
  <2>2. j \in 1..Len(l) /\ l[i].at = l[j].at
    BY <1>12, <2>1
  <2>3. Rank(l[i].at) + 1 = i /\ Rank(l[j].at) + 1 = j
    BY ZenonT(60), <1>10, <2>2, LedgerOf
  <2> QED
    BY <2>1, <2>2, <2>3
<1>14. Ledger(comments', k, claims \cup d)
  <2>1. PICK m : m = comments'
    OBVIOUS
  <2>2. m = [i \in DOMAIN l |-> IF i \in glued THEN [l[i] EXCEPT !.owned = TRUE] ELSE l[i]]
    BY <1>5, <2>1
  <2>3. Ledger(m, k, claims \cup d)
    BY <1>10, <1>13, <2>2, Owning
  <2> QED
    BY <2>1, <2>3
<1>15. Settled(v, claims \cup d)
  <2>1. d \subseteq UpTo(v.prevEnd)
    BY <1>3, <1>7, <1>9, <1>12
  <2> QED
    BY <1>7, <2>1, SettledMore
<1>16. Clear(frames, v, claims \cup d)
  <2>1. Clear(frames, window, claims)
    BY <1>6, ExpressionIsClear
  <2>2. ASSUME NEW i \in 1..Len(frames), frames[i].is \in Speculative, NEW p \in d
        PROVE  Limit(frames[i]) <= p
    <3>1. p = a - 1 /\ p \in Nat /\ b <= p
      BY <1>3, <1>12
    <3>2. window.prevEnd <= p
      BY <1>9, <3>1
    <3> QED
      BY <1>1, <2>1, <2>2, <3>1, <3>2, ClaimedInFront
  <2> QED
    BY <1>7, <2>2, ClearClaims
<1> QED
  BY <1>4, <1>5, <1>8, <1>14, <1>15, <1>16, ClearIsLedger

LEMMA CloseParenLedger == ParseInv /\ LedgerStands /\ CloseParen => LedgerStands'
<1> SUFFICES ASSUME ParseInv, LedgerStands, CloseParen PROVE LedgerStands'
  OBVIOUS
<1>1. PICK v, l : v = window' /\ l = Advanced(window, comments).comments
  OBVIOUS
<1>2. PICK g : g = Top
  OBVIOUS
<1>3. /\ Advanced(window, comments).ok /\ v = Advanced(window, comments).window
      /\ comments' = [i \in DOMAIN l |-> IF i \in g.cast THEN [l[i] EXCEPT !.owned = TRUE]
                                         ELSE l[i]]
      /\ claims' = claims \cup g.castAt /\ frames' = Outer /\ text' = text
      /\ g.is = "paren"
  BY <1>1, <1>2 DEF CloseParen, Within
<1>4. Kind # <<>> /\ Kind # <<"<">>
  BY DEF CloseParen
<1>5. /\ Ledger(l, v.cursor, claims) /\ Settled(v, claims) /\ Clear(frames, v, claims)
      /\ v \in Windows
  BY <1>1, <1>3, <1>4, ReadsOn
<1>6. Top.is # "program"
  BY <1>2, <1>3
<1>7. PICK n \in Nat : /\ Len(frames) = n + 1 /\ frames[n + 1] = Top
                       /\ Outer = SubSeq(frames, 1, n)
  BY <1>6, TopStands
<1>8. n \in 0..Len(frames) /\ n + 1 \in 1..Len(frames) /\ Stack(frames)
  BY <1>7, FramesStack
<1>9. Held(g) /\ After(g, v, claims)
  BY <1>2, <1>5, <1>7, <1>8 DEF Clear, Ordered
<1>10. PICK k \in Nat : k = v.cursor
  BY <1>5, Numbers
<1>11. k <= Past /\ Past \in Nat
  BY <1>5, <1>10, LedgerNow, WindowPlaces DEF Settled
<1>12. Ledger(l, k, claims)
  BY <1>5, <1>10
<1>13. ASSUME NEW i \in 1..Len(l)
       PROVE  i \in g.cast <=> l[i].at \in g.castAt
  <2>1. l[i].at \in UpTo(k) /\ Rank(l[i].at) + 1 = i
    BY <1>12, LedgerOf
  <2>2. l[i].at \in UpTo(Past)
    BY <1>11, <2>1, RankGrows
  <2>3. \A p \in UpTo(Past) : Rank(p) + 1 \in g.cast <=> p \in g.castAt
    BY <1>3, <1>9 DEF Held
  <2> QED
    BY <2>1, <2>2, <2>3
<1>14. Ledger(comments', k, claims \cup g.castAt)
  <2>1. PICK m : m = comments'
    OBVIOUS
  <2>2. m = [i \in DOMAIN l |-> IF i \in g.cast THEN [l[i] EXCEPT !.owned = TRUE] ELSE l[i]]
    BY <1>3, <2>1
  <2>3. Ledger(m, k, claims \cup g.castAt)
    BY <1>12, <1>13, <2>2, Owning
  <2> QED
    BY <2>1, <2>3
<1>15. Settled(v, claims \cup g.castAt)
  <2>1. g.castAt \subseteq UpTo(v.prevEnd)
    BY <1>3, <1>9 DEF After
  <2> QED
    BY <1>5, <2>1, SettledMore
<1>16. PICK t : t = SubSeq(frames, 1, n)
  OBVIOUS
<1>17. Len(t) = n /\ Same(t, frames, n)
  BY <1>8, <1>16, StackCut
<1>18. Clear(t, v, claims \cup g.castAt)
  <2>1. Clear(t, v, claims)
    BY <1>5, <1>8, <1>17, ClearCut
  <2>2. ASSUME NEW i \in 1..Len(t), t[i].is \in Speculative, NEW p \in g.castAt
        PROVE  Limit(t[i]) <= p
    <3>1. i \in 1..Len(frames) /\ t[i] = frames[i] /\ i < n + 1
      BY <1>7, <1>17 DEF Same
    <3>2. Stacked(frames[i], g)
      BY <1>2, <1>5, <1>7, <1>8, <3>1 DEF Clear, Ordered
    <3> QED
      BY <1>3, <2>2, <3>1, <3>2 DEF Stacked
  <2> QED
    BY <2>1, <2>2, ClearClaims
<1> QED
  BY <1>1, <1>3, <1>7, <1>10, <1>14, <1>15, <1>16, <1>18, ClearIsLedger

---------------------------------------------------------------------------
(* A regular expression, and an arrow's head *)

LEMMA RelexRegexLedger == ParseInv /\ LedgerStands /\ RelexRegex => LedgerStands'
<1> SUFFICES ASSUME ParseInv, LedgerStands, RelexRegex PROVE LedgerStands'
  OBVIOUS
<1>1. /\ text \in Seq(Atoms) /\ WindowOK(window) /\ window \in Windows
      /\ Ledger(comments, window.cursor, claims) /\ Settled(window, claims)
  BY SMTT(60), LedgerNow
<1>2. PICK w : w = window
  OBVIOUS
<1>3. PICK v, m : v = window' /\ m = comments'
  OBVIOUS
<1>4. PICK close \in (At + 2)..Len(text) :
          /\ text[close] = "/"
          /\ \A i \in (At + 1)..(close - 1) : text[i] \notin Blank \cup {"/"}
          /\ LET f == Fetch(close + 1) IN
                 /\ ~f.bad
                 /\ window' = [window EXCEPT !.current = f.token, !.prevEnd = close + 1,
                                             !.broken = f.broken, !.cursor = f.cursor]
                 /\ comments' = comments \o f.drained
  BY DEF RelexRegex
<1>5. window.current.kind = <<"/">> /\ window.current.kind \notin Less /\ Kind # <<>>
  BY DEF RelexRegex, Kind, Less
<1>6. PICK a \in Nat : a = window.current.start /\ a = At /\ a > 0
  BY <1>5, CurrentIsRead DEF At
<1>7. PICK e \in Nat : e = close + 1
  BY <1>6
<1>8. e \in 1..Past /\ a + 2 < e /\ e - 1 = close /\ Past \in Nat
  BY <1>6, <1>7 DEF Past
<1>9. window.current.end = a + 1
  <2>1. PICK z \in Nat : z = window.current.end
    BY <1>1, WindowPlaces
  <2>2. Len(window.current.kind) = z - a
    <3>1. TokenOK(window.current)
      BY <1>1 DEF WindowOK
    <3> QED
      BY <1>1, <1>6, <2>1, <3>1, TokenHasText
  <2>3. Len(<<"/">>) = 1
    OBVIOUS
  <2> QED
    BY SMTT(60), <1>5, <2>1, <2>2, <2>3
<1>10. PICK f : f = Fetch(e)
  OBVIOUS
<1>11. /\ ~f.bad /\ m = comments \o f.drained
       /\ v = [w EXCEPT !.current = f.token, !.prevEnd = e, !.broken = f.broken,
                        !.cursor = f.cursor]
  BY <1>2, <1>3, <1>4, <1>7, <1>10
<1>12. f.token \in Tokens /\ f.broken \in BOOLEAN /\ f.cursor \in Nat
  BY <1>1, <1>8, <1>10, FetchIsTyped
<1>13. /\ v \in Windows /\ v.current = f.token /\ v.prevEnd = e /\ v.cursor = f.cursor
  BY <1>1, <1>2, <1>7, <1>11, <1>12 DEF Windows
<1>14. PICK q \in e..Past : /\ f.cursor \in Nat /\ q \in Nat /\ q <= f.cursor /\ f.cursor <= Past
                            /\ f.token.start = q
                            /\ q < Past => text[q] \notin Blank
                            /\ ~f.bad => f.cursor = f.token.end
  BY <1>1, <1>8, <1>10, FetchDrains
<1>15. window.cursor = a + 1
  BY <1>1, <1>5, <1>9 DEF WindowOK
<1>16. UpTo(a + 1) = UpTo(e)
  <2>1. ASSUME NEW i \in (a + 1)..(e - 1)
        PROVE  text[i] \notin CommentAtoms
    <3>1. i = close \/ i \in (At + 1)..(close - 1)
      BY <1>6, <1>8
    <3> QED
      BY <1>4, <3>1 DEF Blank, CommentAtoms, Block
  <2>2. a + 1 \in Nat /\ a + 1 > 0 /\ a + 1 <= e
    BY <1>6, <1>8
  <2> QED
    BY <2>1, <2>2, RankOver
<1>17. Ledger(comments, e, claims)
  <2>1. Ledger(comments, a + 1, claims)
    BY <1>1, <1>15
  <2> QED
    BY <1>16, <2>1, SameLedger
<1>18. claims \subseteq UpTo(e) /\ window.prevEnd \in Nat /\ window.prevEnd <= e
  <2>1. claims \subseteq UpTo(window.prevEnd)
    BY <1>1 DEF Settled
  <2>2. window.prevEnd \in Nat /\ window.prevEnd <= a
    BY <1>1, <1>6, WindowPlaces
  <2>3. window.prevEnd <= e
    BY <1>8, <2>2
  <2> QED
    BY <1>8, <2>1, <2>2, <2>3, RankGrows
<1>19. Ledger(m, v.cursor, claims)
  BY <1>1, <1>8, <1>10, <1>11, <1>13, <1>17, <1>18, FetchedLedger
<1>20. Settled(v, claims)
  <2>1. text[e - 1] \notin Blank
    BY <1>4, <1>8 DEF Blank, CommentAtoms, Block
  <2>2. v.current.end = f.cursor /\ v.current.start = q
    BY <1>11, <1>13, <1>14
  <2> QED
    BY SMTT(60), <1>12, <1>13, <1>14, <1>18, <2>1, <2>2 DEF Settled
<1>21. Passed(window, v)
  <2>1. v.current.end = f.cursor /\ a + 1 <= f.cursor
    BY SMTT(60), <1>8, <1>11, <1>13, <1>14
  <2> QED
    BY <1>9, <1>13, <1>18, <2>1 DEF Passed
<1>22. Clear(frames, v, claims)
  <2>1. Clear(frames, window, claims)
    BY <1>5, ExpressionIsClear DEF RelexRegex
  <2> QED
    BY <1>1, <1>13, <1>21, <2>1, ClearPasses
<1>23. frames' = frames /\ claims' = claims /\ text' = text
  BY DEF RelexRegex
<1> QED
  BY <1>3, <1>19, <1>20, <1>22, <1>23, ClearIsLedger

(* A checkpoint taken here counts the comments its lexer has passed.         *)
LEMMA CheckpointHeld ==
    ASSUME ParseInv, LedgerStands, NEW x, x.is \in Speculative, x.is # "comparison",
           x.cp = Checkpoint
    PROVE  /\ Held(x) /\ x.cp.window = window /\ x.cp.claims = claims
           /\ x.cp.comments = Rank(window.cursor)
<1>1. /\ x.cp.window = window /\ x.cp.claims = claims /\ x.cp.comments = Len(comments)
  BY DEF Checkpoint
<1>2. Ledger(comments, window.cursor, claims) /\ Settled(window, claims)
  BY LedgerNow
<1>3. x.cp.comments = Rank(window.cursor)
  BY <1>1, <1>2 DEF Ledger
<1> QED
  BY <1>1, <1>2, <1>3 DEF Held, Speculative

LEMMA TryArrowLedger == ParseInv /\ LedgerStands /\ TryArrow => LedgerStands'
<1> SUFFICES ASSUME ParseInv, LedgerStands, TryArrow PROVE LedgerStands'
  OBVIOUS
<1>1. /\ text \in Seq(Atoms) /\ WindowOK(window) /\ window \in Windows /\ Stack(frames)
      /\ Ledger(comments, window.cursor, claims) /\ Settled(window, claims)
  BY LedgerNow
<1>2. PICK v, m : v = window' /\ m = comments'
  OBVIOUS
<1>3. /\ Advanced(window, comments).ok /\ v = Advanced(window, comments).window
      /\ m = Advanced(window, comments).comments
  BY <1>2 DEF TryArrow, Take
<1>4. Kind # <<>> /\ Kind # <<"<">> /\ window.current.kind \notin Less /\ Within(Expressions)
  BY DEF TryArrow, Less, Kind
<1>5. window.current.start < Past
  BY <1>4, CurrentIsRead
<1>6. /\ Ledger(m, v.cursor, claims) /\ Settled(v, claims) /\ Passed(window, v)
      /\ window.cursor <= v.current.end /\ v \in Windows /\ v.current.end <= v.cursor
  BY ZenonT(60), <1>1, <1>3, <1>5, AdvancedKeeps DEF Settled
<1>7. Clear(frames, window, claims)
  BY <1>4, ExpressionIsClear
<1>8. Clear(frames, v, claims)
  BY <1>1, <1>6, <1>7, ClearPasses
<1>9. PICK x, y : x = Arrow(Checkpoint, "arrowHead") /\ y = Grouping("parameters", {})
  OBVIOUS
<1>10. /\ x.is = "arrowHead" /\ x.cp = Checkpoint /\ y.is = "parameters"
       /\ x.is \in Speculative /\ x.is # "comparison" /\ x.is # "paren" /\ x.is \in Types
  BY <1>9 DEF Arrow, Grouping, Speculative, Types
<1>11. /\ Held(x) /\ x.cp.window = window /\ x.cp.claims = claims
  BY <1>10, CheckpointHeld
<1>12. After(x, v, claims)
  <2>1. window.cursor <= v.cursor
    <3>1. /\ window.cursor \in Nat /\ v.cursor \in Nat /\ v.current.end \in Nat
      BY <1>1, <1>6, Numbers
    <3> QED
      BY <1>6, <3>1
  <2> QED
    BY <1>10, <1>11, <2>1 DEF After
<1>13. \A i \in 1..Len(frames) : Stacked(frames[i], x)
  BY <1>7, <1>10, <1>11 DEF Stacked, Clear
<1>14. PICK t : t = Append(frames, x)
  OBVIOUS
<1>15. PICK n \in Nat : /\ n = Len(frames) /\ Len(t) = n + 1 /\ t[n + 1] = x
                        /\ \A i \in 1..n : t[i] = frames[i] /\ i \in 1..Len(t)
                        /\ \A i \in 1..Len(t) : i \in 1..n \/ i = n + 1
  BY <1>1, <1>14, PushedParts
<1>16. Begun(t, n + 1, v)
  <2>1. \A k \in (n + 1)..Len(t) : k = n + 1
    BY <1>15
  <2> QED
    BY <1>6, <1>10, <1>11, <1>15, <2>1 DEF Begun
<1>17. FramesOpen(t, v, claims)
  <2>1. Fresh(t, Len(t), v)
    BY <1>15, <1>16 DEF Begun, Fresh
  <2> QED
    BY <1>1, <1>8, <1>11, <1>12, <1>13, <1>14, <2>1, OpenPushed
<1>18. \A i \in 1..Len(t) : /\ After(t[i], v, claims)
                            /\ t[i].is \in Speculative => Beyond(t[i], v) \/ Begun(t, i, v)
  <2> SUFFICES ASSUME NEW i \in 1..Len(t)
               PROVE  /\ After(t[i], v, claims)
                      /\ t[i].is \in Speculative => Beyond(t[i], v) \/ Begun(t, i, v)
    OBVIOUS
  <2>1. CASE i \in 1..n
    <3>1. /\ After(frames[i], v, claims)
          /\ frames[i].is \in Speculative => Beyond(frames[i], v)
      BY <1>8, <1>15, <2>1 DEF Clear
    <3> QED
      BY <1>15, <2>1, <3>1
  <2>2. CASE i = n + 1
    BY <1>12, <1>15, <1>16, <2>2
  <2> QED
    BY <1>15, <2>1, <2>2
<1>19. Stack(t)
  BY <1>1, <1>14, StackPushed
<1>20. Ordered(t)
  BY <1>17 DEF FramesOpen
<1>21. FramesOpen(Append(t, y), v, claims)
  <2>1. y.is \in {"typeArguments", "parameters"}
    BY <1>10
  <2> QED
    BY <1>18, <1>19, <1>20, <2>1, TypesPushed
<1>22. frames' = Append(t, y) /\ claims' = claims /\ text' = text
  BY <1>1, <1>9, <1>14, StackTwice DEF TryArrow
<1>23. LedgerOK(frames', comments', window', claims')
  BY <1>2, <1>6, <1>21, <1>22 DEF LedgerOK
<1> QED
  BY <1>22, <1>23, LedgerNext

---------------------------------------------------------------------------
(* Speculation's steps *)

LEMMA ReadingReopens ==
    ASSUME ParseInv, LedgerStands, Kind # <<>>, Kind # <<"<">>,
           Take(Advanced(window, comments)), UNCHANGED <<text, claims>>,
           Top.is \in {"arrowHead", "list"},
           NEW g, g.is \in {"arrowBody", "list"}, g.cp = Top.cp, frames' = Append(Outer, g)
    PROVE  LedgerStands'
<1>1. PICK v, m : v = window' /\ m = comments'
  OBVIOUS
<1>2. /\ Advanced(window, comments).ok
      /\ v = Advanced(window, comments).window /\ m = Advanced(window, comments).comments
  BY <1>1 DEF Take
<1>3. Ledger(m, v.cursor, claims) /\ Settled(v, claims) /\ Clear(frames, v, claims)
  BY <1>2, ReadsOn
<1>4. PICK n \in Nat : /\ Len(frames) = n + 1 /\ frames[n + 1] = Top
                       /\ Outer = SubSeq(frames, 1, n)
  BY TopStands
<1>5. /\ frames[n + 1].is \in Speculative /\ frames[n + 1].is # "comparison"
      /\ g.is \in Speculative /\ g.is # "comparison" /\ g.cp = frames[n + 1].cp
  BY <1>4 DEF Speculative
<1>6. Stack(frames)
  BY LedgerNow
<1>7. Clear(Append(SubSeq(frames, 1, n), g), v, claims)
  BY <1>3, <1>4, <1>5, <1>6, Reopened
<1> QED
  BY <1>1, <1>3, <1>4, <1>7, ClearIsLedger

LEMMA ExpectArrowLedger == ParseInv /\ LedgerStands /\ ExpectArrow => LedgerStands'
<1> SUFFICES ASSUME ParseInv, LedgerStands, ExpectArrow PROVE LedgerStands'
  OBVIOUS
<1>1. Kind # <<>> /\ Kind # <<"<">>
  <2>1. PICK e, o : e = <<>> /\ o = <<"<">>
    OBVIOUS
  <2>2. Len(e) = 0 /\ Len(o) = 1 /\ Len(Kind) = 2
    BY <2>1 DEF ExpectArrow
  <2>3. Kind # e /\ Kind # o
    BY <2>2
  <2> QED
    BY <2>1, <2>3
<1>2. PICK x : x = Arrow(Top.cp, "arrowBody")
  OBVIOUS
<1>3. x.cp = Top.cp /\ x.is \in {"arrowBody", "list"} /\ frames' = Append(Outer, x)
  BY <1>2 DEF Arrow, ExpectArrow
<1>4. Top.is \in {"arrowHead", "list"}
  BY DEF ExpectArrow, Within
<1> QED
  BY <1>1, <1>3, <1>4, ReadingReopens DEF ExpectArrow

LEMMA SeparatorLedger == ParseInv /\ LedgerStands /\ Separator => LedgerStands'
<1> SUFFICES ASSUME ParseInv, LedgerStands, Separator PROVE LedgerStands'
  OBVIOUS
<1>1. Kind # <<>> /\ Kind # <<"<">>
  BY DEF Separator
<1>2. PICK x : x = ListTried(Top.cp, TRUE)
  OBVIOUS
<1>3. x.cp = Top.cp /\ x.is \in {"arrowBody", "list"} /\ frames' = Append(Outer, x)
  BY <1>2 DEF ListTried, Separator
<1>4. Top.is \in {"arrowHead", "list"}
  BY DEF Separator, Within
<1>5. Take(Advanced(window, comments)) /\ UNCHANGED <<text, claims>>
  BY DEF Separator
<1> QED
  BY <1>1, <1>3, <1>4, <1>5, ReadingReopens

(* What a rewind finds under the speculation it abandons.                    *)
LEMMA BackTo ==
    ASSUME ParseInv, LedgerStands, NEW n \in Nat, n + 1 \in 1..Len(frames),
           NEW f, f = frames[n + 1], f.is \in Speculative,
           NEW t, t = SubSeq(frames, 1, n)
    PROVE  /\ Stack(t) /\ Held(f) /\ After(f, window, claims)
           /\ f.cp.window \in Windows
           /\ f.cp.comments = Rank(f.cp.window.cursor)
           /\ Clear(t, f.cp.window, f.cp.claims) /\ Settled(f.cp.window, f.cp.claims)
           /\ f.is # "comparison" =>
                 Ledger(Rewound(f.cp).comments, f.cp.window.cursor, f.cp.claims)
<1>1. /\ window \in Windows /\ Stack(frames) /\ Len(frames) \in Nat
      /\ Ledger(comments, window.cursor, claims) /\ FramesOpen(frames, window, claims)
  BY LedgerNow
<1>2. n \in 0..Len(frames)
  BY <1>1
<1>3. Stack(t) /\ Len(t) = n /\ Same(t, frames, n)
  BY <1>1, <1>2, StackCut
<1>4. Held(f) /\ After(f, window, claims)
  BY <1>1 DEF FramesOpen, Ordered
<1>5. f.cp.window \in Windows
  BY <1>4, HeldPlaces
<1>6. /\ Clear(t, f.cp.window, f.cp.claims) /\ Settled(f.cp.window, f.cp.claims)
      /\ f.cp.comments = Rank(f.cp.window.cursor)
  BY <1>1, <1>3, OpenBack
<1>7. ASSUME f.is # "comparison"
      PROVE  Ledger(Rewound(f.cp).comments, f.cp.window.cursor, f.cp.claims)
  <2>1. Ledger(SubSeq(comments, 1, f.cp.comments), f.cp.window.cursor, f.cp.claims)
    BY <1>1, <1>4, <1>7, LedgerBack
  <2>2. Rewound(f.cp).comments = SubSeq(comments, 1, f.cp.comments)
    BY DEF Rewound
  <2> QED
    BY <2>1, <2>2
<1> QED
  BY <1>3, <1>4, <1>5, <1>6, <1>7

(* A list or an arrow is abandoned.                                          *)
LEMMA AbandonedLedger ==
    ASSUME ParseInv, LedgerStands, NEW n \in Nat, n + 1 \in 1..Len(frames),
           NEW f, f = frames[n + 1], f.is \in {"list", "arrowHead", "arrowBody"},
           NEW t, t = SubSeq(frames, 1, n), Rewind(f.cp, Rewound(f.cp), t), frames' = t,
           text' = text
    PROVE  LedgerStands'
<1>1. f.is \in Speculative /\ f.is # "comparison"
  BY DEF Speculative
<1>2. /\ Clear(t, f.cp.window, f.cp.claims) /\ Settled(f.cp.window, f.cp.claims)
      /\ Ledger(Rewound(f.cp).comments, f.cp.window.cursor, f.cp.claims)
  BY <1>1, BackTo
<1>3. /\ window' = f.cp.window /\ comments' = Rewound(f.cp).comments /\ claims' = f.cp.claims
  BY DEF Rewind, Rewound
<1>4. Clear(frames', window', claims')
  BY <1>2, <1>3
<1>5. Ledger(comments', window'.cursor, claims') /\ Settled(window', claims')
  BY <1>2, <1>3
<1> QED
  BY <1>4, <1>5, ClearIsLedger

LEMMA EndArrowLedger == ParseInv /\ LedgerStands /\ EndArrow => LedgerStands'
<1> SUFFICES ASSUME ParseInv, LedgerStands, EndArrow PROVE LedgerStands'
  OBVIOUS
<1>1. Top.is = "arrowBody" /\ frames' = Outer /\ text' = text
  BY DEF EndArrow, Within
<1>2. CASE Kind = <<":">> /\ UNCHANGED <<window, comments, claims>>
  <2>1. window.current.kind \notin Less
    BY <1>2 DEF Kind, Less
  <2>2. Within(Expressions)
    BY <1>1 DEF Within, Expressions
  <2>3. Clear(frames, window, claims)
    BY <2>1, <2>2, ExpressionIsClear
  <2>4. Ledger(comments', window'.cursor, claims') /\ Settled(window', claims')
    BY <1>2, LedgerNow
  <2>5. Clear(frames, window', claims')
    BY <1>2, <2>3
  <2> QED
    BY <1>1, <2>4, <2>5, ClearCloses
<1>3. CASE Rewind(Top.cp, Rewound(Top.cp), Outer)
  <2>1. PICK n \in Nat : /\ Len(frames) = n + 1 /\ frames[n + 1] = Top
                         /\ Outer = SubSeq(frames, 1, n)
    BY <1>1, TopStands
  <2>2. n + 1 \in 1..Len(frames)
    BY <2>1
  <2>3. PICK f, t : f = Top /\ t = Outer
    OBVIOUS
  <2>4. /\ f = frames[n + 1] /\ f.is \in {"list", "arrowHead", "arrowBody"}
        /\ t = SubSeq(frames, 1, n) /\ Rewind(f.cp, Rewound(f.cp), t) /\ frames' = t
    BY <1>1, <1>3, <2>1, <2>3
  <2> QED
    BY <1>1, <2>2, <2>4, AbandonedLedger
<1> QED
  BY <1>2, <1>3 DEF EndArrow

LEMMA TryListLedger == ParseInv /\ LedgerStands /\ TryList => LedgerStands'
<1> SUFFICES ASSUME ParseInv, LedgerStands, TryList PROVE LedgerStands'
  OBVIOUS
<1>1. /\ text \in Seq(Atoms) /\ WindowOK(window) /\ Stack(frames)
      /\ Ledger(comments, window.cursor, claims) /\ Settled(window, claims)
  BY LedgerNow
<1>2. PICK v, m : v = window' /\ m = comments'
  OBVIOUS
<1>3. /\ LessSplit(window, comments).ok
      /\ v = LessSplit(window, comments).window /\ m = LessSplit(window, comments).comments
  BY <1>2 DEF TryList, Take
<1>4. window.current.kind \in Less
  BY LessIsRead DEF TryList
<1>5. Clear(frames, window, claims)
  BY ExpressionIsClear DEF TryList
<1>6. PICK x : x = ListTried(Checkpoint, FALSE)
  OBVIOUS
<1>7. x.is = "list" /\ x.is \in Speculative /\ x.is # "comparison" /\ x.cp = Checkpoint
  BY <1>6 DEF ListTried, Speculative
<1>8. x.cp.window = window /\ x.cp.claims = claims /\ x.cp.comments = Rank(window.cursor)
  BY <1>7, CheckpointHeld
<1>9. LedgerOK(Append(frames, x), m, v, claims)
  BY <1>1, <1>3, <1>4, <1>5, <1>7, <1>8, ListOpens
<1>10. frames' = Append(frames, x) /\ claims' = claims /\ text' = text
  BY <1>6 DEF TryList, Pushed
<1>11. LedgerOK(frames', comments', window', claims')
  BY <1>2, <1>9, <1>10
<1> QED
  BY <1>10, <1>11, LedgerNext

LEMMA CloseListLedger == ParseInv /\ LedgerStands /\ CloseList => LedgerStands'
<1> SUFFICES ASSUME ParseInv, LedgerStands, CloseList PROVE LedgerStands'
  OBVIOUS
<1>1. Top.is = "list" /\ LeadsGreater /\ text' = text
  BY DEF CloseList, Within
<1>2. PICK close, cp, lt : /\ close = GreaterSplit(window, comments) /\ cp = Top.cp
                           /\ lt = cp.window.current.start
  OBVIOUS
<1>3. CASE Take(close) /\ frames' = Outer /\ claims' = claims
  <2>1. Top.is \notin {"program", "comparison"} /\ Take(GreaterSplit(window, comments))
        /\ UNCHANGED <<text, claims>>
    BY <1>1, <1>2, <1>3
  <2> QED
    BY <1>1, <1>3, <2>1, GreaterCloses
<1>4. CASE /\ Rewind(cp, Rewound(cp), Outer)
           /\ frames' = Append(Outer, Comparison(cp, close.window.prevEnd,
                                                 Unclaimed(lt, Rewound(cp).comments)))
  <2>1. PICK n \in Nat : /\ Len(frames) = n + 1 /\ frames[n + 1] = Top
                         /\ Outer = SubSeq(frames, 1, n)
    BY <1>1, TopStands
  <2>2. n + 1 \in 1..Len(frames)
    BY <2>1
  <2>3. PICK f, t : f = Top /\ t = Outer
    OBVIOUS
  <2>4. /\ f = frames[n + 1] /\ t = SubSeq(frames, 1, n) /\ f.cp = cp
        /\ f.is \in Speculative /\ f.is # "comparison"
    BY <1>1, <1>2, <2>1, <2>3 DEF Speculative
  <2>5. /\ Stack(t) /\ f.cp.window \in Windows
        /\ f.cp.comments = Rank(f.cp.window.cursor)
        /\ Clear(t, f.cp.window, f.cp.claims) /\ Settled(f.cp.window, f.cp.claims)
        /\ Ledger(Rewound(f.cp).comments, f.cp.window.cursor, f.cp.claims)
    BY <2>2, <2>4, BackTo
  <2>6. PICK l : l = Rewound(cp).comments
    OBVIOUS
  <2>7. PICK x : x = Comparison(cp, close.window.prevEnd, Unclaimed(lt, l))
    OBVIOUS
  <2>8. x.is = "comparison" /\ x.cp = cp /\ x.unclaimed = Unclaimed(cp.window.current.start, l)
    BY <1>2, <2>7 DEF Comparison
  <2>9. PICK w, c : w = cp.window /\ c = cp.claims
    OBVIOUS
  <2>10. /\ w \in Windows /\ Settled(w, c) /\ Ledger(l, w.cursor, c) /\ Clear(t, w, c)
         /\ x.cp.window = w /\ x.cp.claims = c /\ x.cp.comments = Rank(w.cursor)
         /\ x.unclaimed = Unclaimed(w.current.start, l)
    BY <2>4, <2>5, <2>6, <2>8, <2>9
  <2>11. LedgerOK(Append(t, x), l, w, c)
    BY <2>5, <2>8, <2>10, ComparisonOpens
  <2>12. /\ window' = w /\ comments' = l /\ claims' = c
    BY <1>4, <2>6, <2>9 DEF Rewind, Rewound
  <2>13. frames' = Append(t, x)
    BY <1>4, <2>3, <2>6, <2>7
  <2>14. LedgerOK(frames', comments', window', claims')
    BY SMTT(60), <2>11, <2>12, <2>13
  <2> QED
    BY <1>1, <2>14, LedgerNext
<1> QED
  BY <1>2, <1>3, <1>4 DEF CloseList

LEMMA SettleLedger ==
    ASSUME ParseInv, LedgerStands, NEW i \in 1..Len(frames), frames[i].is = "comparison",
           NEW reads \in BOOLEAN, Settle(i, reads), text' = text
    PROVE  LedgerStands'
<1>1. PICK n \in Nat : n = i - 1
  OBVIOUS
<1>2. PICK f, t : f = frames[i] /\ t = SubSeq(frames, 1, i - 1)
  OBVIOUS
<1>3. /\ n + 1 = i /\ n + 1 \in 1..Len(frames) /\ f = frames[n + 1] /\ t = SubSeq(frames, 1, n)
      /\ f.is = "comparison" /\ f.is \in Speculative /\ f.is \in Tried
  BY <1>1, <1>2 DEF Speculative, Tried
<1>4. /\ Stack(t) /\ Held(f) /\ After(f, window, claims) /\ f.cp.window \in Windows
      /\ f.cp.comments = Rank(f.cp.window.cursor)
      /\ Clear(t, f.cp.window, f.cp.claims) /\ Settled(f.cp.window, f.cp.claims)
  BY <1>3, BackTo
<1>5. PICK cp, w, c : cp = f.cp /\ w = f.cp.window /\ c = f.cp.claims
  OBVIOUS
<1>6. PICK ledger : ledger = [j \in 1..cp.comments |->
                      IF j \in f.unclaimed THEN [comments[j] EXCEPT !.owned = FALSE]
                      ELSE comments[j]]
  OBVIOUS
<1>7. Ledger(ledger, w.cursor, c)
  <2>1. window \in Windows /\ Ledger(comments, window.cursor, claims)
    BY LedgerNow
  <2>2. ledger = [j \in 1..f.cp.comments |->
                      IF j \in f.unclaimed THEN [comments[j] EXCEPT !.owned = FALSE]
                      ELSE comments[j]]
    BY <1>5, <1>6
  <2>3. Ledger(ledger, f.cp.window.cursor, f.cp.claims)
    BY SMTT(60), <1>3, <1>4, <2>1, <2>2, LedgerSettled
  <2> QED
    BY <1>5, <2>3
<1>8. CASE /\ Rewind(cp, [window |-> cp.window, comments |-> ledger], t)
           /\ frames' = t
  <2>1. window' = w /\ comments' = ledger /\ claims' = c
    BY <1>5, <1>8 DEF Rewind
  <2>2. Ledger(comments', window'.cursor, claims') /\ Settled(window', claims')
    BY <1>4, <1>5, <1>7, <2>1
  <2>3. Clear(frames', window', claims')
    BY <1>4, <1>5, <1>8, <2>1
  <2> QED
    BY <2>2, <2>3, ClearIsLedger
<1>9. CASE /\ Rewind(cp, LessSplit(cp.window, ledger), t)
           /\ frames' = Append(t, ListTried(cp, FALSE))
  <2>1. WindowOK(w) /\ w.current.kind \in Less /\ CanStep(w)
    BY <1>3, <1>5, SpeculationStands
  <2>2. LessSplit(w, ledger).ok
    BY <2>1, LessSplitIsTheWindows
  <2>3. PICK x : x = ListTried(cp, FALSE)
    OBVIOUS
  <2>4. /\ x.is = "list" /\ x.cp.window = w /\ x.cp.claims = c /\ x.cp.comments = Rank(w.cursor)
    BY <1>4, <1>5, <2>3 DEF ListTried
  <2>5. PICK v, m : v = LessSplit(w, ledger).window /\ m = LessSplit(w, ledger).comments
    OBVIOUS
  <2>6. text \in Seq(Atoms) /\ Clear(t, w, c) /\ Settled(w, c)
    BY <1>4, <1>5, LedgerNow
  <2>7. LedgerOK(Append(t, x), m, v, c)
    <3>1. Stack(t)
      BY <1>4
    <3> HIDE <1>6
    <3> QED
      BY <1>7, <2>1, <2>2, <2>4, <2>5, <2>6, <3>1, ListOpens
  <2>8. window' = v /\ comments' = m /\ claims' = c
    BY <1>5, <1>9, <2>5 DEF Rewind
  <2>9. LedgerOK(frames', comments', window', claims')
    BY <1>9, <2>3, <2>7, <2>8
  <2> QED
    BY <2>9, LedgerNext
<1> QED
  BY <1>2, <1>5, <1>6, <1>8, <1>9 DEF Settle

LEMMA EndComparisonLedger == ParseInv /\ LedgerStands /\ EndComparison => LedgerStands'
<1> SUFFICES ASSUME ParseInv, LedgerStands, EndComparison PROVE LedgerStands'
  OBVIOUS
<1>1. Top.is = "comparison" /\ Settle(Len(frames), TRUE) /\ text' = text
  BY DEF EndComparison, Within
<1>2. PICK n \in Nat : Len(frames) = n + 1 /\ frames[n + 1] = Top
  BY <1>1, TopStands
<1>3. PICK i : i = Len(frames)
  OBVIOUS
<1>4. i \in 1..Len(frames) /\ frames[i].is = "comparison"
  BY <1>1, <1>2, <1>3
<1> QED
  BY <1>1, <1>3, <1>4, SettleLedger

LEMMA ThrowLedger == ParseInv /\ LedgerStands /\ Throw => LedgerStands'
<1> SUFFICES ASSUME ParseInv, LedgerStands, Throw PROVE LedgerStands'
  OBVIOUS
<1>1. PICK i \in DOMAIN frames :
        LET outer == SubSeq(frames, 1, i - 1)
            cp == frames[i].cp
        IN /\ \/ /\ frames[i].is = "comparison"
                 /\ Settle(i, FALSE)
              \/ /\ frames[i].is \in {"list", "arrowHead", "arrowBody"}
                 /\ Rewind(cp, Rewound(cp), outer)
                 /\ frames' = outer
           /\ text' = text
  BY DEF Throw
<1>2. i \in 1..Len(frames)
  BY FramesStack
<1>3. CASE frames[i].is = "comparison" /\ Settle(i, FALSE)
  BY <1>1, <1>2, <1>3, SettleLedger
<1>4. CASE /\ frames[i].is \in {"list", "arrowHead", "arrowBody"}
           /\ Rewind(frames[i].cp, Rewound(frames[i].cp), SubSeq(frames, 1, i - 1))
           /\ frames' = SubSeq(frames, 1, i - 1)
  <2>1. PICK n \in Nat : n = i - 1 /\ n + 1 = i
    BY <1>2
  <2>2. PICK f, t : f = frames[i] /\ t = SubSeq(frames, 1, i - 1)
    OBVIOUS
  <2>3. /\ n + 1 \in 1..Len(frames) /\ f = frames[n + 1]
        /\ f.is \in {"list", "arrowHead", "arrowBody"}
        /\ t = SubSeq(frames, 1, n) /\ Rewind(f.cp, Rewound(f.cp), t) /\ frames' = t
        /\ text' = text
    BY <1>1, <1>2, <1>4, <2>1, <2>2
  <2> QED
    BY <2>3, AbandonedLedger
<1> QED
  BY <1>1, <1>3, <1>4

---------------------------------------------------------------------------
(* The invariant *)

LEMMA InitLedger == Init => LedgerStands
<1> SUFFICES ASSUME Init PROVE LedgerStands
  OBVIOUS
<1>1. text \in Seq(Atoms) /\ WindowOK(window) /\ window \in Windows
  <2>1. ParseInv
    BY InitIsGood
  <2> QED
    BY <2>1, GoodNow DEF Good, WindowOK
<1>2. 1 \in 1..Past /\ Past \in Nat
  BY <1>1 DEF Past
<1>3. PICK f : f = Fetch(1)
  OBVIOUS
<1>4. /\ ~f.bad /\ window.current = f.token /\ window.prevEnd = 1 /\ window.cursor = f.cursor
      /\ comments = f.drained /\ frames = <<>> /\ claims = {}
  BY <1>3 DEF Init
<1>5. PICK q \in 1..Past : /\ f.drained = Drained(1, q)
                           /\ q \in Nat /\ f.cursor \in Nat /\ q <= f.cursor /\ f.cursor <= Past
                           /\ UpTo(q) = UpTo(f.cursor)
                           /\ f.token.start = q
                           /\ q < Past => text[q] \notin Blank
                           /\ ~f.bad => f.cursor = f.token.end
  BY <1>1, <1>2, <1>3, FetchDrains
<1>6. Rank(1) = 0
  <2>1. UpTo(1) = {}
    BY DEF UpTo
  <2> QED
    BY <2>1, FS_EmptySet DEF Rank
<1>7. Ledger(Drained(1, q), q, {})
  <2>1. PICK d, n : d = Drained(1, q) /\ n = Rank(q) - Rank(1)
    OBVIOUS
  <2>2. /\ d \in Seq(Comment) /\ Len(d) = n
        /\ \A i \in 1..n : /\ d[i].at \in UpTo(q) \ UpTo(1)
                           /\ Rank(d[i].at) = Rank(1) + (i - 1)
                           /\ ~d[i].owned
    <3>1. 1 \in Nat /\ q \in Nat /\ 1 > 0 /\ 1 <= q
      BY <1>5
    <3> QED
      BY <2>1, <3>1, DrainedAre
  <2>3. Rank(q) \in Nat
    BY <1>5, RankIsNatural
  <2>4. n = Rank(q)
    BY <1>6, <2>1, <2>3
  <2>5. \A i \in 1..n : Rank(d[i].at) = i - 1
    BY <1>6, <2>2
  <2>6. Ledger(d, q, {})
    BY <2>2, <2>4, <2>5 DEF Ledger
  <2> QED
    BY <2>1, <2>6
<1>8. Ledger(comments, window.cursor, claims)
  BY <1>4, <1>5, <1>7, SameLedger
<1>9. Settled(window, claims)
  BY <1>1, <1>2, <1>4, <1>5 DEF Settled
<1>10. FramesOpen(frames, window, claims)
  <2>1. PICK e : e = <<>>
    OBVIOUS
  <2>2. Len(e) = 0
    BY <2>1
  <2>3. 1..Len(e) = {}
    BY <2>2
  <2>4. frames = e
    BY <1>4, <2>1
  <2> QED
    BY <2>3, <2>4 DEF FramesOpen, Ordered
<1> QED
  BY <1>8, <1>9, <1>10 DEF LedgerStands, LedgerOK

LEMMA NextLedger == ParseInv /\ LedgerStands /\ [Next]_vars => LedgerStands'
<1> SUFFICES ASSUME ParseInv, LedgerStands, [Next]_vars PROVE LedgerStands'
  OBVIOUS
<1>1. CASE Peek
  BY <1>1, PeekLedger
<1>2. CASE Read
  BY SMTT(60), <1>2, ReadLedger
<1>3. CASE Leaf
  BY <1>3, LeafLedger
<1>4. CASE RelexRegex
  BY <1>4, RelexRegexLedger
<1>5. CASE Compare
  BY <1>5, CompareLedger
<1>6. CASE EndStatement
  BY <1>6, EndStatementLedger
<1>7. CASE EnterBody
  BY <1>7, EnterBodyLedger
<1>8. CASE ExitBody
  BY <1>8, ExitBodyLedger
<1>9. CASE OpenGrouping
  BY <1>9, OpenGroupingLedger
<1>10. CASE CloseGrouping
  BY <1>10, CloseGroupingLedger
<1>11. CASE CloseParen
  BY <1>11, CloseParenLedger
<1>12. CASE OpenTypeArguments
  BY <1>12, OpenTypeArgumentsLedger
<1>13. CASE CloseTypeArguments
  BY <1>13, CloseTypeArgumentsLedger
<1>14. CASE TryArrow
  BY <1>14, TryArrowLedger
<1>15. CASE ExpectArrow
  BY <1>15, ExpectArrowLedger
<1>16. CASE EndArrow
  BY <1>16, EndArrowLedger
<1>17. CASE TryList
  BY <1>17, TryListLedger
<1>18. CASE Separator
  BY <1>18, SeparatorLedger
<1>19. CASE CloseList
  BY <1>19, CloseListLedger
<1>20. CASE EndComparison
  BY <1>20, EndComparisonLedger
<1>21. CASE Throw
  BY <1>21, ThrowLedger
<1>22. CASE UNCHANGED vars
  <2>1. LedgerOK(frames', comments', window', claims')
    BY <1>22 DEF vars, LedgerStands
  <2> QED
    BY <1>22, <2>1, LedgerNext DEF vars
<1> QED
  BY SMTT(60), <1>1, <1>2, <1>3, <1>4, <1>5, <1>6, <1>7, <1>8, <1>9, <1>10, <1>11, <1>12, <1>13, <1>14,
     <1>15, <1>16, <1>17, <1>18, <1>19, <1>20, <1>21, <1>22 DEF Next

(* What every state of the parse satisfies beside ParseInv: the ledger is    *)
(* the text's comments up to the lexer, owned as claimed, and every          *)
(* checkpoint stands where a rewind or a comparison's end can restore it     *)
(* (checkpoint, rewind, clear_owned_since and what they are put to).         *)
THEOREM LedgerInvariant == Spec => []LedgerInv
<1>1. Init => LedgerInv
  BY InitIsGood, InitLedger DEF LedgerInv
<1>2. LedgerInv /\ [Next]_vars => LedgerInv'
  BY NextKeeps, NextLedger DEF LedgerInv
<1> QED
  BY <1>1, <1>2, PTL DEF Spec

---------------------------------------------------------------------------
(* What it is for *)

(* However often a text is peeked at, split, lexed again or rewound over,    *)
(* the ledger holds every comment the lexer has passed, each once and in the *)
(* text's order (drain_comments, rewind and the second lexing of a `>`).     *)
THEOREM LedgerReadsSource == Spec => []LedgerIsSource
<1>1. LedgerInv => LedgerIsSource
  <2> SUFFICES ASSUME LedgerInv PROVE LedgerIsSource
    OBVIOUS
  <2>1. /\ text \in Seq(Atoms) /\ WindowOK(window) /\ window \in Windows
        /\ Ledger(comments, window.cursor, claims) /\ Settled(window, claims)
    BY LedgerNow DEF LedgerInv
  <2>2. PICK k \in Nat : k = window.cursor
    BY <2>1, Numbers
  <2>3. 1 <= k
    <3>1. window.current.end \in 1..Past /\ window.current.end <= k /\ Past \in Nat
      BY <2>1, <2>2, WindowPlaces DEF Settled
    <3> QED
      BY <2>2, <3>1
  <2>4. Ledger(comments, k, claims)
    BY <2>1, <2>2
  <2>5. PICK n \in Nat : n = Rank(k)
    BY RankIsNatural
  <2>6. Rank(1) = 0
    <3>1. UpTo(1) = {}
      BY DEF UpTo
    <3> QED
      BY <3>1, FS_EmptySet DEF Rank
  <2>7. PICK s : s = CommentsIn(1, k)
    OBVIOUS
  <2>8. /\ s \in Seq(Nat) /\ Len(s) = n
        /\ \A i \in 1..n : s[i] \in UpTo(k) /\ Rank(s[i]) = i - 1
    <3>1. 1 \in Nat /\ 1 > 0
      OBVIOUS
    <3>2. PICK d : d = Rank(k) - Rank(1)
      OBVIOUS
    <3>3. /\ s \in Seq(Nat) /\ Len(s) = d
          /\ \A i \in 1..d : /\ s[i] \in UpTo(k) \ UpTo(1)
                             /\ Rank(s[i]) = Rank(1) + (i - 1)
      BY <2>3, <2>7, <3>1, <3>2, CommentsAreListed
    <3>4. d = n
      BY <2>5, <2>6, <3>2
    <3> QED
      BY <2>6, <3>3, <3>4
  <2>9. PICK t : t = [i \in DOMAIN comments |-> comments[i].at]
    OBVIOUS
  <2>10. /\ DOMAIN comments = 1..n
         /\ \A i \in 1..n : /\ comments[i].at \in UpTo(k) /\ Rank(comments[i].at) = i - 1
                            /\ comments[i].at \in Nat
    <3>1. Len(comments) = n /\ DOMAIN comments = 1..n
      BY <2>4, <2>5 DEF Ledger
    <3>2. \A i \in 1..n : comments[i].at \in UpTo(k) /\ Rank(comments[i].at) = i - 1
      BY <2>4, <3>1 DEF Ledger
    <3> QED
      BY <3>1, <3>2 DEF UpTo
  <2>11. t \in [1..n -> Nat] /\ \A i \in 1..n : t[i] = comments[i].at
    BY <2>9, <2>10
  <2>12. t \in Seq(Nat) /\ Len(t) = n
    BY <2>11, Listing
  <2>13. ASSUME NEW i \in 1..n
         PROVE  t[i] = s[i]
    <3>1. /\ t[i] \in UpTo(k) /\ s[i] \in UpTo(k) /\ Rank(t[i]) = Rank(s[i])
      BY <2>8, <2>10, <2>11
    <3> QED
      BY <3>1, RankTells
  <2>14. t = s
    BY <2>8, <2>12, <2>13, SameSequence
  <2> QED
    BY <2>2, <2>7, <2>9, <2>14 DEF LedgerIsSource
<1> QED
  BY <1>1, LedgerInvariant, PTL

(* A comment is owned exactly when a reading that stands has claimed it: no  *)
(* abandoned reading leaves a claim behind, and no rewind takes one away     *)
(* (bind_leading_comment, the cast's claim and clear_owned_since).           *)
THEOREM ClaimsOfStandingReadings == Spec => []ClaimsStand
<1>1. LedgerInv => ClaimsStand
  <2> SUFFICES ASSUME LedgerInv PROVE ClaimsStand
    OBVIOUS
  <2>1. /\ text \in Seq(Atoms) /\ WindowOK(window) /\ window \in Windows
        /\ Ledger(comments, window.cursor, claims) /\ Settled(window, claims)
    BY LedgerNow DEF LedgerInv
  <2>2. PICK k \in Nat : k = window.cursor
    BY <2>1, Numbers
  <2>3. Ledger(comments, k, claims) /\ DOMAIN comments = 1..Len(comments)
    BY <2>1, <2>2 DEF Ledger
  <2>4. claims \subseteq UpTo(k)
    <3>1. PICK b \in Nat, e \in Nat : b = window.prevEnd /\ e = window.current.end /\ b <= e
      <4>1. /\ window.prevEnd \in Nat /\ window.current.start \in Nat /\ window.current.end \in Nat
            /\ window.prevEnd <= window.current.start
            /\ window.current.start <= window.current.end
        BY <2>1, WindowPlaces
      <4> QED
        BY <4>1
    <3>2. claims \subseteq UpTo(b) /\ b <= k
      BY <2>1, <2>2, <3>1 DEF Settled
    <3> QED
      BY <3>2, RankGrows
  <2>5. ASSUME NEW i \in DOMAIN comments, comments[i].owned
        PROVE  comments[i].at \in claims
    BY <2>3, <2>5 DEF Ledger
  <2>6. ASSUME NEW p \in claims
        PROVE  \E i \in DOMAIN comments : comments[i].owned /\ comments[i].at = p
    <3>1. p \in UpTo(k)
      BY <2>4
    <3>2. Rank(p) + 1 \in 1..Len(comments) /\ comments[Rank(p) + 1].at = p
      BY <2>3, <3>1, LedgerHas
    <3>3. comments[Rank(p) + 1].owned
      BY <2>3, <3>2 DEF Ledger
    <3> QED
      BY <2>3, <3>2, <3>3
  <2> QED
    BY <2>5, <2>6 DEF ClaimsStand
<1> QED
  BY <1>1, LedgerInvariant, PTL
=============================================================================
