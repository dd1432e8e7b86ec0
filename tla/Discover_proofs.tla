---------------------------- MODULE Discover_proofs ----------------------------
(***************************************************************************)
(* What discovery does on every tree, under every ignore file and for any  *)
(* arguments: the stack is the chain of the directories above, no file is  *)
(* taken up twice, what a run finds is what the replay of each file by     *)
(* itself takes, and what it prunes over a negation is warned of.          *)
(***************************************************************************)
EXTENDS Discover, FiniteSetTheorems, SequenceTheorems, TLAPS

---------------------------------------------------------------------------
(* The invariant: the walk *)

Elements(s) == {s[i] : i \in DOMAIN s}
IsSeq(s) == Len(s) \in Nat /\ s \in Seq(Elements(s))
IsStack(st) ==
    /\ st = [gitignore |-> st.gitignore, overrides |-> st.overrides]
    /\ IsSeq(st.gitignore) /\ IsSeq(st.overrides)

(* A path at or below an argument, through no link but the argument's own.   *)
Under(arg, p) ==
    /\ Above(arg.path, p)
    /\ Canonical(p) = Canonical(arg.path) \o Below(p, arg.path)

(* A directory of the walk of an argument, the frames fs, the format root    *)
(* root: listed, and the child of the one it was listed in, which has crossed *)
(* it off; what it pushed is what its layers are.                            *)
FrameStands(fs, i, root, arg) ==
    LET f == fs[i] IN
    /\ f = [dir |-> f.dir, todo |-> f.todo, pushed |-> f.pushed, active |-> f.active]
    /\ f.dir \in Seq(Names) /\ Canonical(f.dir) \in Dirs /\ Under(arg, f.dir)
    /\ f.todo \subseteq Entries(f.dir)
    /\ i > 1 => LET up == fs[i - 1] IN
                /\ f.dir # <<>> /\ Parent(f.dir) = up.dir /\ Name(f.dir) \notin up.todo
                /\ f.pushed = PushLayers(FullStack(root, up.dir), f.dir, root).pushed

(* The walk starts at its argument, from whose format root down to the       *)
(* innermost directory the stack is the whole stack.                         *)
Walk(fs, st, root, arg) ==
    /\ IsSeq(fs)
    /\ \A i \in 1..Len(fs) : FrameStands(fs, i, root, arg)
    /\ fs # <<>> =>
          /\ fs[1].dir = arg.path
          /\ root = FormatRootOf(arg.path)
          /\ st = FullStack(root, fs[Len(fs)].dir)

WalkStands ==
    /\ Walk(frames, stack, formatRoot, args[at])
    /\ frames # <<>> => at \in 1..Len(args) /\ args[at].kind = "dir"

(* A directory of a scope's way down to dir, with what it pushed.            *)
ScopeLevel(root, dir, k) ==
    LET level == Prefix(dir, Len(root.path) + k - 1) IN
    [dir |-> level,
     pushed |-> PushDirLayers(Preload(root, dir, k - 1).stack, level, root).pushed]

(* A scope for dir is what is read for it from nothing.                      *)
ScopeFor(sc, dir) ==
    /\ dir \in Seq(Names) /\ sc.root = FormatRootOf(dir)
    /\ IsSeq(sc.dirs) /\ Len(sc.dirs) = Len(dir) - Len(sc.root.path) + 1
    /\ sc.stack = Preload(sc.root, dir, Len(sc.dirs)).stack
    /\ \A k \in 1..Len(sc.dirs) : sc.dirs[k] = ScopeLevel(sc.root, dir, k)

ScopeStands ==
    \/ scope.dirs = <<>> /\ scope.stack = EmptyStack
    \/ \E dir \in Seq(Names) : ScopeFor(scope, dir)

---------------------------------------------------------------------------
(* The invariant: what is found *)

(* Nothing that is still to be visited is a file found, or lies above one.   *)
Ahead(fs, p) == \A i \in 1..Len(fs) : \A n \in fs[i].todo : ~Above(Append(fs[i].dir, n), p)

(* A file found lies under an argument taken; under the only argument, it is *)
(* found once and is not to be visited again.                                *)
FoundStands ==
    /\ \A p \in DOMAIN found :
          /\ p \in Seq(Names) /\ Canonical(p) \in Files
          /\ \E i \in 1..Len(args) : i <= at /\ Under(args[i], p)
    /\ Len(args) = 1 => \A p \in DOMAIN found : found[p] = 1 /\ Ahead(frames, p)

TakenOnce == Done => \A p, q \in files : Canonical(p) = Canonical(q) => p = q

ArgsStand == args \in Seq(Arguments) /\ at \in Nat

DiscoverInv == ArgsStand /\ WalkStands /\ ScopeStands /\ FoundStands /\ TakenOnce

---------------------------------------------------------------------------
(* Numbers, sequences *)

LEMMA Least ==
    ASSUME NEW T \in SUBSET Nat, T # {}
    PROVE  \E m \in T : \A n \in T : m <= n
<1> DEFINE R == StrictSubsetOrdering(Nat)
           Under0 == {0..n : n \in T}
<1>1. Under0 \subseteq FiniteSubsetsOf(Nat) /\ Under0 # {}
  <2>1. \A n \in Nat : 0..n \in FiniteSubsetsOf(Nat)
    BY FS_Interval DEF FiniteSubsetsOf
  <2> QED BY <2>1
<1>2. \E x \in Under0 : \A y \in Under0 : ~ (<<y, x>> \in R)
  <2>1. IsWellFoundedOn(R, FiniteSubsetsOf(Nat))
    BY FS_StrictSubsetOrderingWellFounded
  <2> HIDE DEF R, Under0
  <2> QED BY <1>1, <2>1, WFMin
<1>3. PICK m \in T : \A n \in T : ~ (<<0..n, 0..m>> \in R)
  BY <1>2
<1>4. ASSUME NEW n \in T, n < m PROVE <<0..n, 0..m>> \in R
  <2>1. n \in Nat /\ m \in Nat
    OBVIOUS
  <2>2. 0..n \subseteq 0..m /\ m \in 0..m /\ m \notin 0..n
    BY <1>4, <2>1
  <2>3. 0..n \in SUBSET Nat /\ 0..m \in SUBSET Nat
    OBVIOUS
  <2> QED BY <2>2, <2>3 DEF StrictSubsetOrdering
<1> HIDE DEF R, Under0
<1>5. \A n \in T : ~(n < m)
  BY <1>3, <1>4
<1>6. \A n \in T : m <= n
  BY <1>5
<1> QED
  BY <1>6

(* The greatest of a bounded set of numbers. *)
LEMMA Greatest ==
    ASSUME NEW n \in Nat, NEW T \in SUBSET (0..n), T # {}
    PROVE  LastOf(T) \in T /\ \A k \in T : k <= LastOf(T)
<1>1. {n - k : k \in T} \in SUBSET Nat /\ {n - k : k \in T} # {}
  <2>1. \A k \in T : n - k \in Nat
    OBVIOUS
  <2> QED BY <2>1
<1>2. PICK d \in {n - k : k \in T} : \A e \in {n - k : k \in T} : d <= e
  <2> HIDE DEF LastOf
  <2> QED BY <1>1, Least
<1>3. PICK m \in T : d = n - m
  OBVIOUS
<1>4. \A k \in T : n - m <= n - k
  BY <1>2, <1>3
<1>5. \A k \in T : k <= m
  BY <1>4
<1> QED
  BY <1>5 DEF LastOf

LEMMA PrefixIs ==
    ASSUME NEW S, NEW p \in Seq(S), NEW k \in 0..Len(p)
    PROVE  /\ Prefix(p, k) \in Seq(S) /\ Len(Prefix(p, k)) = k
           /\ \A i \in 1..k : Prefix(p, k)[i] = p[i]
           /\ Prefix(p, Len(p)) = p /\ Prefix(p, 0) = <<>>
<1>1. /\ Prefix(p, k) \in Seq(S) /\ Len(Prefix(p, k)) = k
      /\ \A i \in 1..k : Prefix(p, k)[i] = p[i]
  BY DEF Prefix
<1>2. SubSeq(p, 1, Len(p)) = p
  OBVIOUS
<1>3. SubSeq(p, 1, 0) = <<>>
  OBVIOUS
<1> QED BY <1>1, <1>2, <1>3 DEF Prefix

LEMMA PrefixOfPrefix ==
    ASSUME NEW S, NEW p \in Seq(S), NEW k \in 0..Len(p), NEW j \in 0..k
    PROVE  Prefix(Prefix(p, k), j) = Prefix(p, j)
<1>1. /\ Prefix(p, k) \in Seq(S) /\ Len(Prefix(p, k)) = k
      /\ \A i \in 1..k : Prefix(p, k)[i] = p[i]
  BY PrefixIs
<1>2. /\ Prefix(p, j) \in Seq(S) /\ Len(Prefix(p, j)) = j
      /\ \A i \in 1..j : Prefix(p, j)[i] = p[i]
  BY PrefixIs
<1> DEFINE q == Prefix(p, k)
<1> HIDE DEF q
<1>3. /\ Prefix(q, j) \in Seq(S) /\ Len(Prefix(q, j)) = j
      /\ \A i \in 1..j : Prefix(q, j)[i] = q[i]
  BY <1>1, PrefixIs DEF q
<1>4. \A i \in 1..j : Prefix(q, j)[i] = Prefix(p, j)[i]
  BY <1>1, <1>2, <1>3 DEF q
<1>5. Prefix(q, j) = Prefix(p, j)
  <2> DEFINE s == Prefix(q, j)
             t == Prefix(p, j)
  <2>1. s \in Seq(S) /\ t \in Seq(S) /\ Len(s) = j /\ Len(t) = j /\ \A i \in 1..j : s[i] = t[i]
    BY <1>2, <1>3, <1>4
  <2> HIDE DEF s, t
  <2>2. s = t
    BY <2>1, SeqEqual
  <2> QED BY <2>2 DEF s, t
<1> QED BY <1>5 DEF q

LEMMA Appended ==
    ASSUME NEW S, NEW p \in Seq(S), NEW e \in S
    PROVE  /\ Append(p, e) \in Seq(S) /\ Len(Append(p, e)) = Len(p) + 1
           /\ Append(p, e) # <<>>
           /\ Prefix(Append(p, e), Len(p) + 1) = Append(p, e)
           /\ \A k \in 0..Len(p) : Prefix(Append(p, e), k) = Prefix(p, k)
           /\ Prefix(Append(p, e), Len(p)) = p
           /\ Parent(Append(p, e)) = p /\ Name(Append(p, e)) = e
<1> DEFINE q == Append(p, e)
<1>1. q \in Seq(S) /\ Len(q) = Len(p) + 1 /\ q[Len(p) + 1] = e /\ \A i \in 1..Len(p) : q[i] = p[i]
  OBVIOUS
<1> HIDE DEF q
<1>2. ASSUME NEW k \in 0..Len(p) PROVE Prefix(q, k) = Prefix(p, k)
  <2> DEFINE s == Prefix(q, k)
             t == Prefix(p, k)
  <2>1. s \in Seq(S) /\ Len(s) = k /\ \A i \in 1..k : s[i] = q[i]
    BY <1>1, PrefixIs
  <2>2. t \in Seq(S) /\ Len(t) = k /\ \A i \in 1..k : t[i] = p[i]
    BY PrefixIs
  <2>3. \A i \in 1..k : s[i] = t[i]
    BY SMTT(60), <1>1, <2>1, <2>2
  <2> HIDE DEF s, t
  <2>4. s = t
    BY <2>1, <2>2, <2>3, SeqEqual
  <2> QED BY <2>4 DEF s, t
<1>3. Prefix(q, Len(p)) = p /\ Prefix(q, Len(p) + 1) = q
  BY <1>1, <1>2, PrefixIs
<1>4. Parent(q) = p /\ Name(q) = e /\ q # <<>>
  BY <1>1, <1>3 DEF Parent, Name
<1> QED BY <1>1, <1>2, <1>3, <1>4 DEF q

LEMMA LastSplit ==
    ASSUME NEW S, NEW p \in Seq(S), p # <<>>
    PROVE  /\ Parent(p) \in Seq(S) /\ Name(p) \in S /\ Len(p) > 0
           /\ Len(Parent(p)) = Len(p) - 1
           /\ p = Append(Parent(p), Name(p))
<1>1. Len(p) \in Nat /\ Len(p) > 0
  OBVIOUS
<1>2. /\ Parent(p) \in Seq(S) /\ Len(Parent(p)) = Len(p) - 1
      /\ \A i \in 1..(Len(p) - 1) : Parent(p)[i] = p[i]
  BY <1>1, PrefixIs DEF Parent
<1>3. Name(p) \in S /\ Name(p) = p[Len(p)]
  BY <1>1 DEF Name
<1> DEFINE q == Parent(p)
           e == Name(p)
<1> HIDE DEF q, e
<1>4. Append(q, e) \in Seq(S) /\ Len(Append(q, e)) = Len(p) /\ \A i \in 1..Len(p) : Append(q, e)[i] = p[i]
  BY <1>1, <1>2, <1>3 DEF q, e
<1>5. Append(q, e) = p
  BY <1>4, SeqEqual
<1> QED BY <1>1, <1>2, <1>3, <1>5 DEF q, e

---------------------------------------------------------------------------
(* Paths *)

LEMMA AboveIs ==
    ASSUME NEW S, NEW p \in Seq(S), NEW q \in Seq(S)
    PROVE  Above(p, q) <=> Len(p) <= Len(q) /\ \A i \in 1..Len(p) : p[i] = q[i]
<1>1. ASSUME Len(p) <= Len(q)
      PROVE  Prefix(q, Len(p)) = p <=> \A i \in 1..Len(p) : p[i] = q[i]
  <2>1. Len(p) \in 0..Len(q)
    BY <1>1
  <2> DEFINE s == Prefix(q, Len(p))
  <2>2. s \in Seq(S) /\ Len(s) = Len(p) /\ \A i \in 1..Len(p) : s[i] = q[i]
    BY <2>1, PrefixIs
  <2> HIDE DEF s
  <2>3. (\A i \in 1..Len(p) : p[i] = q[i]) => s = p
    <3>1. ASSUME \A i \in 1..Len(p) : p[i] = q[i] PROVE s = p
      <4>1. \A i \in 1..Len(s) : s[i] = p[i]
        BY <3>1, <2>2
      <4> QED BY <2>2, <4>1, SeqEqual
    <3> QED BY <3>1
  <2>4. s = p => \A i \in 1..Len(p) : p[i] = q[i]
    BY <2>2
  <2> QED BY <2>3, <2>4 DEF s
<1> QED BY <1>1 DEF Above

LEMMA AboveOrder ==
    ASSUME NEW S, NEW p \in Seq(S), NEW q \in Seq(S), NEW r \in Seq(S)
    PROVE  /\ Above(p, p) /\ Above(<<>>, p)
           /\ Above(p, q) /\ Above(q, r) => Above(p, r)
           /\ Above(p, r) /\ Above(q, r) /\ Len(p) <= Len(q) => Above(p, q)
           /\ Above(p, r) /\ Above(q, r) /\ Len(p) = Len(q) => p = q
           /\ Above(p, q) => Len(p) <= Len(q)
<1>1. <<>> \in Seq(S) /\ Len(<<>>) = 0 /\ Len(p) \in Nat /\ Len(q) \in Nat /\ Len(r) \in Nat
  OBVIOUS
<1>2. Above(p, p) /\ Above(<<>>, p)
  <2>1. Prefix(p, Len(p)) = p /\ Prefix(p, 0) = <<>>
    BY PrefixIs
  <2> QED BY <1>1, <2>1 DEF Above
<1>3. ASSUME Above(p, q), Above(q, r) PROVE Above(p, r)
  <2>1. Len(p) <= Len(q) /\ \A i \in 1..Len(p) : p[i] = q[i]
    BY <1>3, AboveIs
  <2>2. Len(q) <= Len(r) /\ \A i \in 1..Len(q) : q[i] = r[i]
    BY <1>3, AboveIs
  <2>3. Len(p) <= Len(r) /\ \A i \in 1..Len(p) : p[i] = r[i]
    BY <1>1, <2>1, <2>2
  <2> QED BY <2>3, AboveIs
<1>4. ASSUME Above(p, r), Above(q, r), Len(p) <= Len(q) PROVE Above(p, q)
  <2>1. \A i \in 1..Len(p) : p[i] = r[i]
    BY <1>4, AboveIs
  <2>2. \A i \in 1..Len(q) : q[i] = r[i]
    BY <1>4, AboveIs
  <2>3. \A i \in 1..Len(p) : p[i] = q[i]
    BY <1>1, <1>4, <2>1, <2>2
  <2> QED BY <1>4, <2>3, AboveIs
<1>5. ASSUME Above(p, r), Above(q, r), Len(p) = Len(q) PROVE p = q
  <2>1. \A i \in 1..Len(p) : p[i] = r[i]
    BY <1>5, AboveIs
  <2>2. \A i \in 1..Len(q) : q[i] = r[i]
    BY <1>5, AboveIs
  <2>3. \A i \in 1..Len(p) : p[i] = q[i]
    BY <1>5, <2>1, <2>2
  <2> QED BY <1>5, <2>3, SeqEqual
<1> QED BY <1>2, <1>3, <1>4, <1>5 DEF Above

LEMMA PrefixAbove ==
    ASSUME NEW S, NEW p \in Seq(S), NEW k \in 0..Len(p)
    PROVE  Above(Prefix(p, k), p)
<1>1. Len(Prefix(p, k)) = k /\ k <= Len(p)
  BY PrefixIs
<1> QED BY <1>1 DEF Above

(* What is above a child is above its parent, or the child itself. *)
LEMMA AboveChild ==
    ASSUME NEW S, NEW p \in Seq(S), NEW q \in Seq(S), NEW e \in S
    PROVE  /\ Above(p, q) => Above(p, Append(q, e))
           /\ Above(p, Append(q, e)) => Above(p, q) \/ p = Append(q, e)
           /\ Len(p) > Len(q) /\ Above(p, Append(q, e)) => p = Append(q, e)
<1> DEFINE c == Append(q, e)
<1>1. c \in Seq(S) /\ Len(c) = Len(q) + 1 /\ \A k \in 0..Len(q) : Prefix(c, k) = Prefix(q, k)
  BY Appended
<1>2. Prefix(c, Len(c)) = c
  BY Appended
<1> HIDE DEF c
<1>3. Len(p) \in Nat /\ Len(q) \in Nat
  OBVIOUS
<1>4. Above(p, q) => Above(p, c)
  BY <1>1, <1>3 DEF Above
<1>5. Above(p, c) => Above(p, q) \/ p = c
  <2>1. CASE Len(p) <= Len(q)
    BY <1>1, <1>3, <2>1 DEF Above
  <2>2. CASE Len(p) > Len(q)
    <3>1. Above(p, c) => Len(p) = Len(c) /\ Prefix(c, Len(c)) = p
      BY <1>1, <1>3, <2>2 DEF Above
    <3> QED BY <3>1, <1>2
  <2> QED BY <1>3, <2>1, <2>2
<1>6. Len(p) > Len(q) => ~Above(p, q)
  BY <1>3 DEF Above
<1> QED BY <1>4, <1>5, <1>6 DEF c

(* What lies below a path, and the path, are what it is made of. *)
LEMMA Rejoined ==
    ASSUME NEW S, NEW a \in Seq(S), NEW p \in Seq(S), Above(a, p)
    PROVE  /\ Below(p, a) \in Seq(S) /\ Len(Below(p, a)) = Len(p) - Len(a)
           /\ \A i \in 1..(Len(p) - Len(a)) : Below(p, a)[i] = p[Len(a) + i]
           /\ a \o Below(p, a) = p
<1> DEFINE m == Len(a)
           n == Len(p)
<1>1. m \in Nat /\ n \in Nat /\ m <= n /\ \A i \in 1..m : a[i] = p[i]
  BY AboveIs
<1>2. SubSeq(p, m + 1, n) \in Seq(S) /\ Len(SubSeq(p, m + 1, n)) = n - m
      /\ \A i \in 1..(n - m) : SubSeq(p, m + 1, n)[i] = p[m + i]
  <2>1. n = Len(p)
    OBVIOUS
  <2> HIDE DEF m, n
  <2> QED BY <1>1, <2>1
<1> DEFINE b == Below(p, a)
<1>3. b \in Seq(S) /\ Len(b) = n - m /\ \A i \in 1..(n - m) : b[i] = p[m + i]
  BY <1>2 DEF Below
<1> HIDE DEF b
<1>4. a \o b \in Seq(S) /\ Len(a \o b) = n
      /\ \A i \in 1..n : (a \o b)[i] = IF i <= m THEN a[i] ELSE b[i - m]
  BY <1>1, <1>3
<1>5. \A i \in 1..n : (a \o b)[i] = p[i]
  BY <1>1, <1>3, <1>4
<1>6. a \o b = p
  <2> DEFINE s == a \o b
  <2>1. s \in Seq(S) /\ Len(s) = Len(p) /\ \A i \in 1..Len(s) : s[i] = p[i]
    BY <1>4, <1>5
  <2> HIDE DEF s
  <2>2. s = p
    BY <2>1, SeqEqual
  <2> QED BY <2>2 DEF s
<1> QED BY <1>3, <1>6 DEF b

LEMMA Joined ==
    ASSUME NEW S, NEW a \in Seq(S), NEW b \in Seq(S)
    PROVE  /\ a \o b \in Seq(S) /\ Len(a \o b) = Len(a) + Len(b)
           /\ Above(a, a \o b) /\ Below(a \o b, a) = b
<1> DEFINE p == a \o b
<1>1. p \in Seq(S) /\ Len(p) = Len(a) + Len(b) /\ \A i \in 1..Len(a) : p[i] = a[i]
  OBVIOUS
<1>2. \A i \in 1..Len(b) : p[Len(a) + i] = b[i]
  OBVIOUS
<1> HIDE DEF p
<1>3. Above(a, p)
  BY <1>1, AboveIs
<1>4. /\ Below(p, a) \in Seq(S) /\ Len(Below(p, a)) = Len(b)
      /\ \A i \in 1..Len(b) : Below(p, a)[i] = p[Len(a) + i]
  BY <1>1, <1>3, Rejoined
<1>5. Below(p, a) = b
  <2> DEFINE s == Below(p, a)
  <2>1. s \in Seq(S) /\ Len(s) = Len(b) /\ \A i \in 1..Len(s) : s[i] = b[i]
    BY <1>2, <1>4
  <2> HIDE DEF s
  <2>2. s = b
    BY <2>1, SeqEqual
  <2> QED BY <2>2 DEF s
<1> QED BY <1>1, <1>3, <1>5 DEF p

LEMMA SameBehind ==
    ASSUME NEW S, NEW a \in Seq(S), NEW b \in Seq(S), NEW c \in Seq(S), a \o b = a \o c
    PROVE  b = c
<1>1. Below(a \o b, a) = b /\ Below(a \o c, a) = c
  BY Joined
<1> QED BY <1>1

LEMMA BelowChild ==
    ASSUME NEW S, NEW a \in Seq(S), NEW p \in Seq(S), NEW e \in S, NEW c \in Seq(S), Above(a, p)
    PROVE  /\ Below(Append(p, e), a) = Append(Below(p, a), e)
           /\ c \o Below(Append(p, e), a) = Append(c \o Below(p, a), e)
<1> DEFINE b == Below(p, a)
<1>1. b \in Seq(S) /\ a \o b = p
  BY Rejoined
<1> HIDE DEF b
<1>2. \A x \in Seq(S) : x \o Append(b, e) = Append(x \o b, e)
  <2>1. ASSUME NEW x \in Seq(S) PROVE x \o Append(b, e) = Append(x \o b, e)
    <3>1. <<e>> \in Seq(S) /\ x \o b \in Seq(S)
      BY <1>1, Joined
    <3>2. Append(b, e) = b \o <<e>>
      BY <1>1, AppendIsConcat
    <3>3. Append(x \o b, e) = (x \o b) \o <<e>>
      BY <3>1, AppendIsConcat
    <3>4. (x \o b) \o <<e>> = x \o (b \o <<e>>)
      <4> DEFINE last == <<e>>
      <4>1. last \in Seq(S)
        BY <3>1
      <4> HIDE DEF last
      <4>2. b \in Seq(S)
        BY <1>1
      <4>3. (x \o b) \o last = x \o (b \o last)
        BY SMTT(60), <4>1, <4>2, ConcatAssociative
      <4> QED BY <4>3 DEF last
    <3> QED BY <3>2, <3>3, <3>4
  <2> QED BY <2>1
<1>3. Append(b, e) \in Seq(S) /\ Append(p, e) = a \o Append(b, e)
  BY SMTT(60), <1>1, <1>2
<1>4. Below(Append(p, e), a) = Append(b, e)
  BY ZenonT(60), <1>3, Joined
<1> QED BY SMTT(60), <1>2, <1>4 DEF b

---------------------------------------------------------------------------
(* The tree, and the links into it *)

LEMMA TreeTypes ==
    /\ Dirs \subseteq Seq(Names) /\ Files \subseteq Seq(Names) /\ DOMAIN LinkTo \subseteq Seq(Names)
    /\ <<>> \in Dirs /\ \A l \in DOMAIN LinkTo : l # <<>> /\ l \notin Dirs \cup Files /\ LinkTo[l] \in Dirs
    /\ \A f \in Files : f # <<>> /\ f \notin Dirs
BY TreeAssumption DEF Paths

LEMMA DirsAbove ==
    ASSUME NEW p \in Paths, NEW k \in 0..(Len(p) - 1)
    PROVE  Prefix(p, k) \in Dirs
<1> DEFINE n == Len(p)
           T == {d \in Nat : d \in 1..n /\ Prefix(p, n - d) \notin Dirs}
<1>1. p \in Seq(Names) /\ n \in Nat
  BY TreeAssumption
<1>2. \A q \in Paths \ {<<>>} : Prefix(q, Len(q) - 1) \in Dirs
  BY TreeAssumption
<1>3. T = {}
  <2> SUFFICES ASSUME T # {} PROVE FALSE
    OBVIOUS
  <2>1. PICK d \in T : \A e \in T : d <= e
    <3>1. T \in SUBSET Nat
      OBVIOUS
    <3> HIDE DEF T
    <3> QED BY <3>1, Least
  <2>2. d \in 1..n /\ Prefix(p, n - d) \notin Dirs
    BY <2>1
  <2>3. CASE d = 1
    <3>1. p # <<>>
      BY <1>1, <2>2
    <3> QED BY <3>1, <1>2, <2>2, <2>3
  <2>4. CASE d # 1
    <3>1. d - 1 \in 1..n /\ ~(d <= d - 1)
      BY <1>1, <2>2, <2>4
    <3>2. d - 1 \notin T
      BY <2>1, <3>1
    <3>3. Prefix(p, n - (d - 1)) \in Dirs
      BY <3>1, <3>2
    <3> DEFINE m == n - (d - 1)
               q == Prefix(p, m)
    <3>4. m \in 0..n /\ m - 1 \in 0..m /\ m - 1 = n - d /\ m > 0
      BY <1>1, <2>2, <2>4
    <3>5. Len(q) = m /\ q \in Seq(Names)
      BY ZenonT(60), <1>1, <3>4, PrefixIs
    <3>6. q # <<>> /\ q \in Paths
      BY <3>3, <3>4, <3>5 DEF Paths
    <3>7. Prefix(q, m - 1) \in Dirs
      BY <1>2, <3>5, <3>6
    <3>8. Prefix(q, m - 1) = Prefix(p, m - 1)
      BY <1>1, <3>4, PrefixOfPrefix
    <3> QED BY <2>2, <3>4, <3>7, <3>8
  <2> QED BY <2>3, <2>4
<1>4. n - k \in 1..n /\ n - (n - k) = k /\ n - k \in Nat
  BY <1>1
<1>5. n - k \notin T
  <2> HIDE DEF T
  <2> QED BY <1>3
<1>6. Prefix(p, n - (n - k)) \in Dirs
  BY <1>4, <1>5
<1> QED BY <1>4, <1>6

(* What is above a path of the tree is a directory, or the path. *)
LEMMA AboveInTree ==
    ASSUME NEW p \in Paths, NEW q \in Seq(Names), Above(q, p)
    PROVE  q = p \/ q \in Dirs
<1>1. p \in Seq(Names) /\ Len(p) \in Nat /\ Len(q) \in Nat
  BY TreeAssumption
<1>2. Len(q) <= Len(p) /\ Prefix(p, Len(q)) = q
  BY DEF Above
<1>3. Len(q) = Len(p) => q = p
  BY <1>1, <1>2, PrefixIs
<1>4. Len(q) < Len(p) => Len(q) \in 0..(Len(p) - 1)
  BY <1>1
<1> QED BY <1>1, <1>2, <1>3, <1>4, DirsAbove

LEMMA NoLinkAbove ==
    ASSUME NEW p \in Dirs \cup Files, NEW l \in DOMAIN LinkTo
    PROVE  ~Above(l, p)
BY TreeTypes, AboveInTree DEF Paths

LEMMA OneLink ==
    ASSUME NEW p \in Seq(Names), NEW l \in DOMAIN LinkTo, NEW m \in DOMAIN LinkTo,
           Above(l, p), Above(m, p)
    PROVE  l = m
<1>1. l \in Seq(Names) /\ m \in Seq(Names) /\ Len(l) \in Nat /\ Len(m) \in Nat
  BY TreeTypes
<1>2. Above(l, m) \/ Above(m, l)
  BY <1>1, AboveOrder
<1> QED BY <1>1, <1>2, TreeTypes, AboveInTree DEF Paths

LEMMA CanonicalIs ==
    /\ \A p \in Seq(Names), l \in DOMAIN LinkTo :
          Above(l, p) => Canonical(p) = LinkTo[l] \o Below(p, l)
    /\ \A p \in Seq(Names) : (\A l \in DOMAIN LinkTo : ~Above(l, p)) => Canonical(p) = p
    /\ \A p \in Dirs \cup Files : Canonical(p) = p
    /\ \A l \in DOMAIN LinkTo : Canonical(l) = LinkTo[l]
    /\ \A p \in Seq(Names) : Canonical(p) \in Seq(Names)
<1>1. ASSUME NEW p \in Seq(Names), NEW l \in DOMAIN LinkTo, Above(l, p)
      PROVE  Canonical(p) = LinkTo[l] \o Below(p, l)
  <2> DEFINE m == CHOOSE m \in DOMAIN LinkTo : Above(m, p)
  <2>1. m \in DOMAIN LinkTo /\ Above(m, p)
    BY <1>1
  <2>2. m = l
    <3> HIDE DEF m
    <3> QED BY <1>1, <2>1, OneLink
  <2> QED BY <1>1, <2>2 DEF Canonical
<1>2. ASSUME NEW p \in Seq(Names), \A l \in DOMAIN LinkTo : ~Above(l, p)
      PROVE  Canonical(p) = p
  BY <1>2 DEF Canonical
<1>3. ASSUME NEW p \in Dirs \cup Files PROVE Canonical(p) = p
  BY <1>2, NoLinkAbove, TreeTypes
<1>4. ASSUME NEW l \in DOMAIN LinkTo PROVE Canonical(l) = LinkTo[l]
  <2>1. l \in Seq(Names) /\ LinkTo[l] \in Seq(Names)
    BY TreeTypes
  <2>2. Above(l, l)
    BY <2>1, AboveOrder
  <2>3. Below(l, l) = <<>>
    <3>1. Len(l) + 1 \in Int /\ Len(l) \in Int /\ Len(l) < Len(l) + 1
      BY <2>1
    <3> QED BY <3>1, SubSeqEmpty DEF Below
  <2>4. LinkTo[l] \o <<>> = LinkTo[l]
    BY <2>1, ConcatEmptySeq
  <2> QED BY <2>1, <2>2, <2>3, <2>4, <1>1
<1>5. ASSUME NEW p \in Seq(Names) PROVE Canonical(p) \in Seq(Names)
  <2>1. CASE \E l \in DOMAIN LinkTo : Above(l, p)
    <3>1. PICK l \in DOMAIN LinkTo : Above(l, p)
      BY <2>1
    <3>2. l \in Seq(Names) /\ LinkTo[l] \in Seq(Names)
      BY TreeTypes
    <3>3. Below(p, l) \in Seq(Names)
      BY <3>1, <3>2, Rejoined
    <3>4. LinkTo[l] \o Below(p, l) \in Seq(Names)
      BY <3>2, <3>3, Joined
    <3> QED BY <1>1, <3>1, <3>4
  <2> QED BY <1>2, <2>1
<1> QED BY <1>1, <1>2, <1>3, <1>4, <1>5

(* What a listing holds lies in the tree, at the child's own place. *)
LEMMA EntryIs ==
    ASSUME NEW dir \in Seq(Names), Canonical(dir) \in Dirs, NEW name \in Entries(dir)
    PROVE  /\ name \in Names /\ Append(dir, name) \in Seq(Names)
           /\ Canonical(Append(dir, name)) = Append(Canonical(dir), name)
           /\ Canonical(Append(dir, name)) \in Dirs \cup Files
<1>1. PICK q \in (Dirs \cup Files) \ {<<>>} : Parent(q) = Canonical(dir) /\ name = Name(q)
  BY DEF Entries
<1>2. q \in Seq(Names) /\ q # <<>> /\ Canonical(dir) \in Seq(Names)
  BY <1>1, TreeTypes
<1>3. name \in Names /\ q = Append(Canonical(dir), name)
  BY <1>1, <1>2, LastSplit
<1> DEFINE c == Append(dir, name)
<1>4. c \in Seq(Names) /\ Len(c) = Len(dir) + 1
  BY <1>3, Appended
<1>5. CASE \E l \in DOMAIN LinkTo : Above(l, dir)
  <2>1. PICK l \in DOMAIN LinkTo : Above(l, dir)
    BY <1>5
  <2>2. l \in Seq(Names) /\ LinkTo[l] \in Seq(Names)
    BY TreeTypes
  <2>3. Above(l, c)
    BY <1>3, <2>1, <2>2, AboveChild
  <2>4. Canonical(c) = LinkTo[l] \o Below(c, l) /\ Canonical(dir) = LinkTo[l] \o Below(dir, l)
    BY <1>4, <2>1, <2>3, CanonicalIs
  <2>5. LinkTo[l] \o Below(c, l) = Append(LinkTo[l] \o Below(dir, l), name)
    BY SMTT(60), <1>3, <2>1, <2>2, BelowChild
  <2> QED BY <1>1, <1>3, <1>4, <2>4, <2>5
<1>6. CASE ~\E l \in DOMAIN LinkTo : Above(l, dir)
  <2>1. Canonical(dir) = dir
    BY <1>6, CanonicalIs
  <2>2. c = q
    BY <1>3, <2>1
  <2>3. Canonical(q) = q
    BY <1>1, CanonicalIs
  <2> QED BY <1>1, <1>3, <1>4, <2>1, <2>2, <2>3
<1> QED BY <1>5, <1>6

LEMMA UnderChild ==
    ASSUME NEW arg, arg.path \in Seq(Names), NEW dir \in Seq(Names), NEW name \in Names,
           Under(arg, dir), Canonical(Append(dir, name)) = Append(Canonical(dir), name)
    PROVE  Under(arg, Append(dir, name))
<1>1. Above(arg.path, dir) /\ Canonical(dir) = Canonical(arg.path) \o Below(dir, arg.path)
  BY DEF Under
<1>2. Above(arg.path, Append(dir, name))
  BY <1>1, AboveChild
<1>3. Canonical(arg.path) \in Seq(Names)
  BY CanonicalIs
<1>4. Canonical(arg.path) \o Below(Append(dir, name), arg.path) = Append(Canonical(dir), name)
  BY SMTT(60), <1>1, <1>3, BelowChild
<1> QED BY <1>2, <1>4 DEF Under

LEMMA UnderSelf ==
    ASSUME NEW arg, arg.path \in Seq(Names)
    PROVE  Under(arg, arg.path)
<1> DEFINE p == arg.path
<1>1. Above(p, p)
  BY AboveOrder
<1>2. Below(p, p) = <<>>
  <2>1. Len(p) + 1 \in Int /\ Len(p) \in Int /\ Len(p) < Len(p) + 1
    OBVIOUS
  <2> HIDE DEF p
  <2> QED BY <2>1, SubSeqEmpty DEF Below
<1>3. Canonical(p) \in Seq(Names)
  BY CanonicalIs
<1>4. Canonical(p) \o <<>> = Canonical(p)
  BY <1>3, ConcatEmptySeq
<1> QED BY <1>1, <1>2, <1>4 DEF Under

(* Two paths under an argument have the same canonical path only if they are *)
(* one; under two, only if the arguments overlap.                            *)
LEMMA UnderTells ==
    ASSUME NEW a, NEW b, a.path \in Seq(Names), b.path \in Seq(Names),
           NEW p \in Seq(Names), NEW q \in Seq(Names), Canonical(p) = Canonical(q),
           Under(a, p), Under(b, q)
    PROVE  /\ a.path = b.path => p = q
           /\ Above(Canonical(a.path), Canonical(b.path)) \/ Above(Canonical(b.path), Canonical(a.path))
<1> DEFINE A == Canonical(a.path)
           B == Canonical(b.path)
           C == Canonical(p)
<1>1. A \in Seq(Names) /\ B \in Seq(Names) /\ C \in Seq(Names)
  BY CanonicalIs
<1>2. /\ Above(a.path, p) /\ C = A \o Below(p, a.path)
      /\ Above(b.path, q) /\ C = B \o Below(q, b.path)
  BY DEF Under
<1> HIDE DEF A, B, C
<1>3. /\ Below(p, a.path) \in Seq(Names) /\ a.path \o Below(p, a.path) = p
      /\ Below(q, b.path) \in Seq(Names) /\ b.path \o Below(q, b.path) = q
  <2>1. Below(p, a.path) \in Seq(Names) /\ a.path \o Below(p, a.path) = p
    <3>1. Above(a.path, p)
      BY <1>2
    <3> QED BY <3>1, Rejoined
  <2>2. Below(q, b.path) \in Seq(Names) /\ b.path \o Below(q, b.path) = q
    <3>1. Above(b.path, q)
      BY <1>2
    <3> QED BY <3>1, Rejoined
  <2> QED BY <2>1, <2>2
<1>4. Above(A, C) /\ Above(B, C)
  <2>1. Above(A, A \o Below(p, a.path)) /\ Above(B, B \o Below(q, b.path))
    BY <1>1, <1>3, Joined
  <2> QED BY <1>2, <2>1
<1>5. Above(A, B) \/ Above(B, A)
  <2>1. Len(A) \in Nat /\ Len(B) \in Nat
    BY <1>1
  <2>2. Len(A) <= Len(B) \/ Len(B) <= Len(A)
    BY <2>1
  <2> QED BY <1>1, <1>4, <2>2, AboveOrder
<1>6. ASSUME a.path = b.path PROVE p = q
  <2>1. A = B
    BY <1>6 DEF A, B
  <2>2. A \o Below(p, a.path) = A \o Below(q, b.path)
    BY <1>2, <1>3, <2>1
  <2>3. Below(p, a.path) = Below(q, b.path)
    BY ZenonT(60), <1>1, <1>2, <1>3, <2>2, SameBehind
  <2> QED BY <1>2, <1>3, <1>6, <2>3
<1> QED BY <1>5, <1>6 DEF A, B

---------------------------------------------------------------------------
(* Stacks *)

LEMMA SeqIs ==
    ASSUME NEW S, NEW s \in Seq(S)
    PROVE  IsSeq(s)
<1>1. Len(s) \in Nat /\ DOMAIN s = 1..Len(s)
  OBVIOUS
<1>2. \A i \in 1..Len(s) : s[i] \in Elements(s)
  BY <1>1 DEF Elements
<1> HIDE DEF Elements
<1>3. s \in [1..Len(s) -> Elements(s)]
  BY <1>1, <1>2
<1>4. s \in Seq(Elements(s))
  BY <1>1, <1>3
<1> QED BY <1>1, <1>4 DEF IsSeq

LEMMA SeqGrows ==
    ASSUME NEW s, IsSeq(s), NEW e
    PROVE  /\ IsSeq(Append(s, e)) /\ Len(Append(s, e)) = Len(s) + 1
           /\ Append(s, e)[Len(s) + 1] = e /\ \A i \in 1..Len(s) : Append(s, e)[i] = s[i]
           /\ Append(s, e) # <<>>
           /\ Prefix(Append(s, e), Len(s)) = s /\ PopLast(Append(s, e)) = s
<1> DEFINE S == Elements(s) \cup {e}
<1>1. s \in Seq(Elements(s)) /\ Elements(s) \subseteq S /\ e \in S
  BY DEF IsSeq
<1> HIDE DEF S
<1>2. s \in Seq(S)
  BY <1>1, SeqMonotonic
<1>3. /\ Append(s, e) \in Seq(S) /\ Len(Append(s, e)) = Len(s) + 1
      /\ Append(s, e) # <<>> /\ Prefix(Append(s, e), Len(s)) = s
  BY <1>1, <1>2, Appended
<1>4. Append(s, e)[Len(s) + 1] = e /\ \A i \in 1..Len(s) : Append(s, e)[i] = s[i]
  BY <1>1, <1>2, AppendProperties
<1>5. IsSeq(Append(s, e))
  BY <1>3, SeqIs
<1>6. Len(s) \in Nat
  BY DEF IsSeq
<1>7. PopLast(Append(s, e)) = Prefix(Append(s, e), Len(s))
  BY <1>3, <1>6 DEF PopLast
<1> QED BY <1>3, <1>4, <1>5, <1>7

LEMMA EmptyIsStack == IsStack(EmptyStack)
<1>1. IsSeq(<<>>)
  <2>1. <<>> \in Seq({})
    OBVIOUS
  <2> QED BY <2>1, SeqIs
<1> QED BY <1>1 DEF IsStack, EmptyStack

(* What a directory pushes, whatever lies under it. *)
LEMMA PushPop ==
    ASSUME NEW st, IsStack(st), NEW dir, NEW root
    PROVE  /\ IsStack(PushLayers(st, dir, root).stack)
           /\ PopFrom(PushLayers(st, dir, root).pushed, PushLayers(st, dir, root).stack) = st
<1> DEFINE P == PushLayers(st, dir, root)
           over == OverrideFile(dir, root.inRepo)
           git == IgnoreFile("gitignore", dir)
           anchor == RelTo(root, dir)
           o == Layer(anchor, over.rules)
           g == Layer(anchor, git.rules)
           st1 == IF Readable(over) THEN PushOverride(st, anchor, over.rules) ELSE st
           both == root.inRepo /\ git.kind = "file"
<1>1. /\ P.pushed = [overrides |-> Readable(over), gitignore |-> both]
      /\ P.stack = IF both THEN PushGitignore(st1, anchor, git.rules) ELSE st1
  BY DEF PushLayers
<1>2. st = [gitignore |-> st.gitignore, overrides |-> st.overrides] /\ IsSeq(st.gitignore) /\ IsSeq(st.overrides)
  BY DEF IsStack
<1>3. st1 = [gitignore |-> st.gitignore,
             overrides |-> IF Readable(over) THEN Append(st.overrides, o) ELSE st.overrides]
  BY SMTT(60), <1>2 DEF PushOverride
<1> HIDE DEF P, over, git, anchor, o, both, st1
<1>4. IsSeq(Append(st.overrides, o)) /\ PopLast(Append(st.overrides, o)) = st.overrides
  BY <1>2, SeqGrows
<1>5. IsSeq(Append(st.gitignore, g)) /\ PopLast(Append(st.gitignore, g)) = st.gitignore
  <2> HIDE DEF g
  <2> QED BY <1>2, SeqGrows
<1>6. P.stack = [gitignore |-> IF both THEN Append(st.gitignore, g) ELSE st.gitignore,
                 overrides |-> IF Readable(over) THEN Append(st.overrides, o) ELSE st.overrides]
  BY <1>1, <1>3 DEF PushGitignore
<1> HIDE DEF g
<1>7. IsStack(P.stack)
  BY <1>2, <1>4, <1>5, <1>6 DEF IsStack
<1>8. /\ \A a, b : PopGitignore([gitignore |-> a, overrides |-> b]) = [gitignore |-> PopLast(a), overrides |-> b]
      /\ \A a, b : PopOverride([gitignore |-> a, overrides |-> b]) = [gitignore |-> a, overrides |-> PopLast(b)]
  BY DEF PopGitignore, PopOverride
<1>9. (P.pushed.overrides <=> Readable(over)) /\ (P.pushed.gitignore <=> both)
  BY <1>1
<1>10. PopFrom(P.pushed, P.stack) = st
  <2>1. CASE both /\ Readable(over)
    <3>1. P.stack = [gitignore |-> Append(st.gitignore, g), overrides |-> Append(st.overrides, o)]
      BY <1>6, <2>1
    <3>2. PopOverride(P.stack) = [gitignore |-> Append(st.gitignore, g), overrides |-> st.overrides]
      BY ZenonT(60), <1>4, <1>8, <3>1
    <3>3. PopGitignore(PopOverride(P.stack)) = [gitignore |-> st.gitignore, overrides |-> st.overrides]
      BY <1>5, <1>8, <3>2
    <3> QED BY <1>2, <1>9, <2>1, <3>3 DEF PopFrom
  <2>2. CASE both /\ ~Readable(over)
    BY ZenonT(150), <1>2, <1>5, <1>6, <1>8, <1>9, <2>2 DEF PopFrom
  <2>3. CASE ~both /\ Readable(over)
    BY ZenonT(60), <1>2, <1>4, <1>6, <1>8, <1>9, <2>3 DEF PopFrom
  <2>4. CASE ~both /\ ~Readable(over)
    BY <1>2, <1>6, <1>9, <2>4 DEF PopFrom
  <2> QED BY <2>1, <2>2, <2>3, <2>4
<1> QED BY <1>7, <1>10 DEF P

LEMMA PushDirPop ==
    ASSUME NEW st, IsStack(st), NEW dir, NEW root
    PROVE  /\ IsStack(PushDirLayers(st, dir, root).stack)
           /\ PopFrom(PushDirLayers(st, dir, root).pushed, PushDirLayers(st, dir, root).stack) = st
<1>1. CASE IsIgnored(st, RelTo(root, dir), TRUE)
  BY <1>1 DEF PushDirLayers, PopFrom, NonePushed
<1>2. CASE ~IsIgnored(st, RelTo(root, dir), TRUE)
  BY <1>2, PushPop DEF PushDirLayers
<1> QED BY <1>1, <1>2

---------------------------------------------------------------------------
(* The layers down to a directory, one directory after the other *)

(* Both ways the layers of a way down are put together: the whole stack of an *)
(* editor, and what a walk or a scope reads before it.                       *)
Ways == {"full", "preload"}
Start(way) ==
    IF way = "full" THEN EmptyStack ELSE [stack |-> EmptyStack, active |-> TRUE, warned |-> {}]
Loaded(way, above, level, root) ==
    IF way = "full" THEN PushLayers(above, level, root).stack
    ELSE LET more == PushDirLayers(above.stack, level, root)
         IN  [stack |-> more.stack, active |-> above.active /\ ~more.pushed.gitignore,
              warned |-> above.warned \cup more.warned]
Level(root, dir, k) == Prefix(dir, Len(root.path) + k - 1)
Loads(way, f, n, root, dir) ==
    f = [k \in 0..n |-> IF k = 0 THEN Start(way) ELSE Loaded(way, f[k - 1], Level(root, dir, k), root)]
Load(way, root, dir, n) == (CHOOSE f : Loads(way, f, n, root, dir))[n]

LEMMA PreloadIs ==
    ASSUME NEW root, NEW dir, NEW n
    PROVE  Preload(root, dir, n) = Load("preload", root, dir, n)
BY DEF Preload, Load, Loads, Loaded, Start, Level

LEMMA FullStackIs ==
    ASSUME NEW root, NEW dir
    PROVE  FullStack(root, dir) = Load("full", root, dir, Len(dir) - Len(root.path) + 1)
BY DEF FullStack, Load, Loads, Loaded, Start, Level

LEMMA LoadsOne ==
    ASSUME NEW way, NEW root, NEW dir, NEW e, NEW n \in Nat, NEW m \in 0..n, NEW f, NEW g,
           Loads(way, f, n, root, dir), Loads(way, g, m, root, e),
           \A k \in 1..m : Level(root, dir, k) = Level(root, e, k)
    PROVE  \A k \in 0..m : f[k] = g[k]
<1> DEFINE T == {k \in Nat : k \in 0..m /\ f[k] # g[k]}
<1>1. f[0] = Start(way) /\ g[0] = Start(way)
  BY DEF Loads
<1>2. ASSUME NEW k \in 1..m
      PROVE  /\ f[k] = Loaded(way, f[k - 1], Level(root, dir, k), root)
             /\ g[k] = Loaded(way, g[k - 1], Level(root, e, k), root)
  BY DEF Loads
<1>3. T = {}
  <2> SUFFICES ASSUME T # {} PROVE FALSE
    OBVIOUS
  <2>1. PICK k \in T : \A j \in T : k <= j
    <3>1. T \in SUBSET Nat
      OBVIOUS
    <3> HIDE DEF T
    <3> QED BY <3>1, Least
  <2>2. k \in 1..m /\ f[k] # g[k]
    BY <1>1, <2>1
  <2>3. k - 1 \in 0..m /\ k - 1 \in Nat /\ ~(k <= k - 1)
    BY <2>2
  <2>4. f[k - 1] = g[k - 1]
    BY <2>1, <2>3
  <2> QED BY <1>2, <2>2, <2>4
<1> QED BY <1>3

LEMMA LoadsSome ==
    ASSUME NEW way, NEW root, NEW dir, NEW n \in Nat
    PROVE  \E f : Loads(way, f, n, root, dir)
<1> DEFINE T == {m \in Nat : ~\E f : Loads(way, f, m, root, dir)}
<1> SUFFICES ASSUME T # {} PROVE FALSE
  OBVIOUS
<1>1. PICK m \in T : \A k \in T : m <= k
  <2>1. T \in SUBSET Nat
    OBVIOUS
  <2> HIDE DEF T
  <2> QED BY <2>1, Least
<1>2. CASE m = 0
  <2>1. Loads(way, [k \in 0..0 |-> Start(way)], 0, root, dir)
    BY DEF Loads
  <2> QED BY <1>1, <1>2, <2>1
<1>3. CASE m # 0
  <2>1. m - 1 \in Nat /\ ~(m <= m - 1) /\ m \in Nat
    BY <1>1, <1>3
  <2>2. PICK g : Loads(way, g, m - 1, root, dir)
    BY <1>1, <2>1
  <2> DEFINE f == [k \in 0..m |-> IF k = m THEN Loaded(way, g[m - 1], Level(root, dir, m), root)
                                  ELSE g[k]]
  <2>3. ASSUME NEW k \in 0..m
        PROVE  f[k] = IF k = 0 THEN Start(way)
                      ELSE Loaded(way, f[k - 1], Level(root, dir, k), root)
    <3>1. CASE k = m
      <4>1. f[k - 1] = g[m - 1]
        BY <1>3, <2>1, <3>1
      <4> QED BY <1>3, <3>1, <4>1
    <3>2. CASE k # m /\ k # 0
      <4>1. k \in 0..(m - 1) /\ k - 1 \in 0..m /\ k - 1 # m
        BY <2>1, <3>2
      <4>2. f[k] = g[k] /\ f[k - 1] = g[k - 1]
        BY <3>2, <4>1
      <4>3. g[k] = Loaded(way, g[k - 1], Level(root, dir, k), root)
        BY <2>2, <3>2, <4>1 DEF Loads
      <4> QED BY <3>2, <4>2, <4>3
    <3>3. CASE k # m /\ k = 0
      <4>1. 0 \in 0..(m - 1)
        BY <2>1
      <4>2. g[0] = Start(way)
        BY <2>2, <4>1 DEF Loads
      <4> QED BY <3>3, <4>2
    <3> QED BY <3>1, <3>2, <3>3
  <2>4. f = [k \in 0..m |-> f[k]]
    OBVIOUS
  <2> HIDE DEF f
  <2>5. Loads(way, f, m, root, dir)
    BY <2>3, <2>4 DEF Loads
  <2> QED BY <1>1, <2>5
<1> QED BY <1>2, <1>3

(* The layers down to a directory are those of the way to it alone. *)
LEMMA LoadSteps ==
    ASSUME NEW way, NEW root, NEW dir, NEW e, NEW n \in Nat,
           \A k \in 1..n : Level(root, dir, k) = Level(root, e, k)
    PROVE  /\ Load(way, root, dir, 0) = Start(way)
           /\ Load(way, root, dir, n) = Load(way, root, e, n)
           /\ Load(way, root, dir, n + 1) =
                 Loaded(way, Load(way, root, dir, n), Level(root, dir, n + 1), root)
<1> DEFINE F(d, k) == CHOOSE f : Loads(way, f, k, root, d)
<1>1. \A d : \A k \in Nat : Loads(way, F(d, k), k, root, d) /\ Load(way, root, d, k) = F(d, k)[k]
  BY LoadsSome DEF Load
<1> HIDE DEF F
<1>2. F(dir, 0)[0] = Start(way)
  BY <1>1 DEF Loads
<1>3. F(dir, n)[n] = F(e, n)[n]
  <2>1. n \in 0..n /\ Loads(way, F(dir, n), n, root, dir) /\ Loads(way, F(e, n), n, root, e)
    BY <1>1
  <2>2. \A k \in 0..n : F(dir, n)[k] = F(e, n)[k]
    BY <2>1, LoadsOne
  <2> QED BY <2>1, <2>2
<1>4. F(dir, n + 1)[n] = F(dir, n)[n]
  <2>1. n + 1 \in Nat /\ n \in 0..(n + 1) /\ n \in 0..n
    OBVIOUS
  <2>2. Loads(way, F(dir, n + 1), n + 1, root, dir) /\ Loads(way, F(dir, n), n, root, dir)
    BY <1>1, <2>1
  <2>3. \A k \in 0..n : F(dir, n + 1)[k] = F(dir, n)[k]
    BY <2>1, <2>2, LoadsOne
  <2> QED BY <2>1, <2>3
<1>5. F(dir, n + 1)[n + 1] = Loaded(way, F(dir, n + 1)[n], Level(root, dir, n + 1), root)
  <2>1. n + 1 \in 0..(n + 1) /\ n + 1 # 0 /\ (n + 1) - 1 = n /\ n + 1 \in Nat
    OBVIOUS
  <2>2. Loads(way, F(dir, n + 1), n + 1, root, dir)
    BY <1>1, <2>1
  <2> QED BY <2>1, <2>2 DEF Loads
<1>6. 0 \in Nat /\ n + 1 \in Nat
  OBVIOUS
<1> QED BY <1>1, <1>2, <1>3, <1>4, <1>5, <1>6

LEMMA LoadedIs ==
    ASSUME NEW x, NEW level, NEW root
    PROVE  /\ Loaded("full", x, level, root) = PushLayers(x, level, root).stack
           /\ Loaded("preload", x, level, root).stack = PushDirLayers(x.stack, level, root).stack
           /\ Loaded("preload", x, level, root).active
                 = (x.active /\ ~PushDirLayers(x.stack, level, root).pushed.gitignore)
BY DEF Loaded

LEMMA LoadedAreStacks ==
    ASSUME NEW root, NEW dir, NEW n \in Nat
    PROVE  IsStack(Load("full", root, dir, n)) /\ IsStack(Load("preload", root, dir, n).stack)
<1> DEFINE P(m) == IsStack(Load("full", root, dir, m)) /\ IsStack(Load("preload", root, dir, m).stack)
           T == {m \in Nat : ~P(m)}
<1>1. P(0)
  <2>1. \A way : Load(way, root, dir, 0) = Start(way)
    BY LoadSteps
  <2> QED BY <2>1, EmptyIsStack DEF Start
<1>2. ASSUME NEW m \in Nat, P(m) PROVE P(m + 1)
  <2>1. \A way : Load(way, root, dir, m + 1) = Loaded(way, Load(way, root, dir, m), Level(root, dir, m + 1), root)
    BY LoadSteps
  <2>2. Load("full", root, dir, m + 1) = PushLayers(Load("full", root, dir, m), Level(root, dir, m + 1), root).stack
    BY <2>1, LoadedIs
  <2>3. Load("preload", root, dir, m + 1).stack
          = PushDirLayers(Load("preload", root, dir, m).stack, Level(root, dir, m + 1), root).stack
    BY <2>1, LoadedIs
  <2> QED BY <1>2, <2>2, <2>3, PushPop, PushDirPop
<1> HIDE DEF P
<1>3. T = {}
  <2> SUFFICES ASSUME T # {} PROVE FALSE
    OBVIOUS
  <2>1. PICK m \in T : \A k \in T : m <= k
    <3>1. T \in SUBSET Nat
      OBVIOUS
    <3> HIDE DEF T
    <3> QED BY <3>1, Least
  <2>2. m # 0 /\ m - 1 \in Nat /\ ~(m <= m - 1) /\ (m - 1) + 1 = m
    BY <1>1, <2>1
  <2>3. P(m - 1)
    BY <2>1, <2>2
  <2>4. P(m)
    BY <1>2, <2>2, <2>3
  <2> QED BY <2>1, <2>4
<1>4. P(n)
  BY <1>3
<1> QED BY <1>4 DEF P

LEMMA PrefixBelow ==
    ASSUME NEW a \in Seq(Names), NEW p \in Seq(Names), Above(a, p), NEW j \in 0..(Len(p) - Len(a))
    PROVE  /\ Prefix(p, Len(a) + j) \in Seq(Names) /\ Above(a, Prefix(p, Len(a) + j))
           /\ Below(Prefix(p, Len(a) + j), a) = Prefix(Below(p, a), j)
           /\ Prefix(Below(p, a), j) \in Seq(Names) /\ Len(Prefix(Below(p, a), j)) = j
<1> DEFINE q == Prefix(p, Len(a) + j)
           b == Below(p, a)
<1>1. Len(a) \in Nat /\ Len(p) \in Nat /\ Len(a) <= Len(p) /\ Len(a) + j \in 0..Len(p)
  BY DEF Above
<1>2. q \in Seq(Names) /\ Len(q) = Len(a) + j /\ \A i \in 1..(Len(a) + j) : q[i] = p[i]
  BY <1>1, PrefixIs
<1>3. Above(q, p)
  BY <1>1, PrefixAbove
<1>4. Above(a, q)
  <2> HIDE DEF q
  <2>1. Len(a) <= Len(q)
    BY <1>1, <1>2
  <2> QED BY <1>2, <1>3, <2>1, AboveOrder
<1>5. b \in Seq(Names) /\ Len(b) = Len(p) - Len(a) /\ \A i \in 1..(Len(p) - Len(a)) : b[i] = p[Len(a) + i]
  BY Rejoined
<1> HIDE DEF q, b
<1>6. /\ Below(q, a) \in Seq(Names) /\ Len(Below(q, a)) = j
      /\ \A i \in 1..j : Below(q, a)[i] = q[Len(a) + i]
  <2>1. /\ Below(q, a) \in Seq(Names) /\ Len(Below(q, a)) = Len(q) - Len(a)
        /\ \A i \in 1..(Len(q) - Len(a)) : Below(q, a)[i] = q[Len(a) + i]
    BY ZenonT(60), <1>2, <1>4, Rejoined
  <2>2. Len(q) - Len(a) = j
    BY <1>1, <1>2
  <2> QED BY <2>1, <2>2
<1>7. Prefix(b, j) \in Seq(Names) /\ Len(Prefix(b, j)) = j /\ \A i \in 1..j : Prefix(b, j)[i] = b[i]
  BY <1>5, PrefixIs
<1>8. Below(q, a) = Prefix(b, j)
  <2> DEFINE s == Below(q, a)
             t == Prefix(b, j)
  <2>1. ASSUME NEW i \in 1..j PROVE s[i] = t[i]
    <3>1. Len(a) + i \in 1..(Len(a) + j) /\ i \in 1..(Len(p) - Len(a))
      BY <1>1
    <3>2. s[i] = q[Len(a) + i] /\ q[Len(a) + i] = p[Len(a) + i]
      BY <1>2, <1>6, <3>1
    <3>3. t[i] = b[i] /\ b[i] = p[Len(a) + i]
      BY <1>5, <1>7, <3>1
    <3> QED BY <3>2, <3>3
  <2>2. s \in Seq(Names) /\ t \in Seq(Names) /\ Len(s) = j /\ Len(t) = j
    BY <1>6, <1>7
  <2> HIDE DEF s, t
  <2>3. s = t
    BY <2>1, <2>2, SeqEqual
  <2> QED BY <2>3 DEF s, t
<1> QED BY <1>2, <1>4, <1>7, <1>8 DEF q, b

(* The layers exclude the path or a directory above it. *)
Out(st, path, k, isDir) == LastLayerSays(st.gitignore \o st.overrides, Prefix(path, k), isDir) = Exclude

LEMMA IgnoredIs ==
    ASSUME NEW st, NEW path \in Seq(Names), NEW isDir \in BOOLEAN
    PROVE  IsIgnored(st, path, isDir) <=> \E k \in 1..Len(path) : Out(st, path, k, k < Len(path) \/ isDir)
<1> DEFINE layers == st.gitignore \o st.overrides
           out == {k \in 1..Len(path) : LastLayerSays(layers, Prefix(path, k), k < Len(path) \/ isDir) = Exclude}
           first == CHOOSE k \in out : \A j \in out : k <= j
<1>1. Exclusion(layers, path, isDir) =
         IF out = {} THEN NotExcluded
         ELSE [depth |-> first,
               layer |-> LastToSpeak(layers, Prefix(path, first), first < Len(path) \/ isDir)]
  BY DEF Exclusion
<1>2. out # {} => first \in out
  <2>1. out \in SUBSET Nat
    OBVIOUS
  <2> HIDE DEF out
  <2>2. out # {} => \E k \in out : \A j \in out : k <= j
    BY <2>1, Least
  <2> QED BY <2>2
<1>3. out # {} => first # 0
  <2>1. \A k \in out : k # 0
    OBVIOUS
  <2> HIDE DEF out, first
  <2> QED BY <1>2, <2>1
<1>4. out # {} <=> \E k \in 1..Len(path) : Out(st, path, k, k < Len(path) \/ isDir)
  BY DEF Out
<1> HIDE DEF out, first, layers
<1>5. out # {} => Exclusion(layers, path, isDir).depth # 0
  BY <1>1, <1>3
<1>6. Exclusion(layers, path, isDir) # NotExcluded <=> out # {}
  BY <1>1, <1>5 DEF NotExcluded
<1>7. IsIgnored(st, path, isDir) <=> Exclusion(layers, path, isDir) # NotExcluded
  BY DEF IsIgnored, layers
<1> QED BY <1>4, <1>6, <1>7

LEMMA LevelIs ==
    ASSUME NEW root, root.path \in Seq(Names), NEW dir \in Seq(Names), Above(root.path, dir),
           NEW k \in 1..(Len(dir) - Len(root.path) + 1)
    PROVE  /\ Level(root, dir, k) = Prefix(dir, Len(root.path) + (k - 1))
           /\ Level(root, dir, k) \in Seq(Names) /\ Above(root.path, Level(root, dir, k))
           /\ RelTo(root, Level(root, dir, k)) = Prefix(RelTo(root, dir), k - 1)
           /\ Prefix(RelTo(root, dir), k - 1) \in Seq(Names)
           /\ Len(Prefix(RelTo(root, dir), k - 1)) = k - 1
<1>1. Len(root.path) \in Nat /\ Len(dir) \in Nat /\ k - 1 \in 0..(Len(dir) - Len(root.path))
  BY DEF Above
<1>2. Len(root.path) + k - 1 = Len(root.path) + (k - 1)
  BY <1>1
<1>3. /\ Prefix(dir, Len(root.path) + (k - 1)) \in Seq(Names)
      /\ Above(root.path, Prefix(dir, Len(root.path) + (k - 1)))
      /\ Below(Prefix(dir, Len(root.path) + (k - 1)), root.path) = Prefix(Below(dir, root.path), k - 1)
      /\ Prefix(Below(dir, root.path), k - 1) \in Seq(Names)
      /\ Len(Prefix(Below(dir, root.path), k - 1)) = k - 1
  BY <1>1, PrefixBelow
<1> QED BY <1>2, <1>3 DEF Level, RelTo

LEMMA LastLevel ==
    ASSUME NEW root, root.path \in Seq(Names), NEW dir \in Seq(Names), Above(root.path, dir)
    PROVE  /\ Len(dir) - Len(root.path) \in Nat
           /\ Level(root, dir, (Len(dir) - Len(root.path)) + 1) = dir
           /\ RelTo(root, dir) \in Seq(Names) /\ Len(RelTo(root, dir)) = Len(dir) - Len(root.path)
<1>1. Len(root.path) \in Nat /\ Len(dir) \in Nat /\ Len(root.path) <= Len(dir)
  BY DEF Above
<1>2. Len(root.path) + ((Len(dir) - Len(root.path)) + 1) - 1 = Len(dir)
  BY <1>1
<1>3. Prefix(dir, Len(dir)) = dir
  BY PrefixIs
<1>4. Below(dir, root.path) \in Seq(Names) /\ Len(Below(dir, root.path)) = Len(dir) - Len(root.path)
  BY Rejoined
<1> QED BY <1>1, <1>2, <1>3, <1>4 DEF Level, RelTo

(* A directory's whole stack is its parent's and what it pushes itself. *)
LEMMA FullStackChild ==
    ASSUME NEW root, root.path \in Seq(Names), NEW dir \in Seq(Names), Above(root.path, dir),
           NEW name \in Names
    PROVE  /\ FullStack(root, Append(dir, name)) =
                 PushLayers(FullStack(root, dir), Append(dir, name), root).stack
           /\ IsStack(FullStack(root, dir))
<1> DEFINE c == Append(dir, name)
           n == Len(dir) - Len(root.path) + 1
<1>1. Len(root.path) \in Nat /\ Len(dir) \in Nat /\ Len(root.path) <= Len(dir) /\ n \in Nat
  BY DEF Above
<1>2. c \in Seq(Names) /\ Len(c) = Len(dir) + 1 /\ \A k \in 0..Len(dir) : Prefix(c, k) = Prefix(dir, k)
  BY Appended
<1>3. Prefix(c, Len(dir) + 1) = c
  BY Appended
<1> HIDE DEF c
<1>4. \A k \in 1..n : Level(root, c, k) = Level(root, dir, k)
  <2>1. ASSUME NEW k \in 1..n PROVE Level(root, c, k) = Level(root, dir, k)
    <3>1. Len(root.path) + k - 1 \in 0..Len(dir)
      BY <1>1
    <3> QED BY <1>2, <3>1 DEF Level
  <2> QED BY <2>1
<1>5. Level(root, c, n + 1) = c
  <2>1. Len(root.path) + (n + 1) - 1 = Len(dir) + 1
    BY <1>1
  <2> QED BY <1>3, <2>1 DEF Level
<1>6. Len(c) - Len(root.path) + 1 = n + 1
  BY <1>1, <1>2
<1> HIDE DEF n
<1>7. /\ Load("full", root, c, n) = Load("full", root, dir, n)
      /\ Load("full", root, c, n + 1) = Loaded("full", Load("full", root, c, n), Level(root, c, n + 1), root)
  BY <1>1, <1>4, LoadSteps
<1>8. FullStack(root, dir) = Load("full", root, dir, n) /\ FullStack(root, c) = Load("full", root, c, n + 1)
  BY <1>6, FullStackIs DEF n
<1>9. IsStack(FullStack(root, dir))
  BY <1>1, <1>8, LoadedAreStacks
<1>10. Loaded("full", Load("full", root, dir, n), c, root) = PushLayers(Load("full", root, dir, n), c, root).stack
  BY LoadedIs
<1>11. FullStack(root, c) = PushLayers(FullStack(root, dir), c, root).stack
  BY <1>5, <1>7, <1>8, <1>10
<1> QED BY <1>9, <1>11 DEF c

(* What is read before a walk is the whole stack, unless a rule excludes a   *)
(* directory of the way: it then excludes what lies under it.                *)
LEMMA PreloadIsFull ==
    ASSUME NEW root, root.path \in Seq(Names), NEW dir \in Seq(Names), Above(root.path, dir),
           NEW n \in 0..(Len(dir) - Len(root.path))
    PROVE  \/ Load("preload", root, dir, n).stack = Load("full", root, dir, n)
           \/ \E j \in 1..(n - 1) : Out(Load("preload", root, dir, n).stack, RelTo(root, dir), j, TRUE)
<1> DEFINE N == Len(dir) - Len(root.path)
           rel == RelTo(root, dir)
           Pre(m) == Load("preload", root, dir, m)
           Full(m) == Load("full", root, dir, m)
           P(m) == Pre(m).stack = Full(m) \/ \E j \in 1..(m - 1) : Out(Pre(m).stack, rel, j, TRUE)
           T == {m \in Nat : m \in 0..N /\ ~P(m)}
<1>1. N \in Nat /\ rel \in Seq(Names) /\ Len(rel) = N
  BY LastLevel
<1>2. P(0)
  <2>1. \A way : Load(way, root, dir, 0) = Start(way)
    BY LoadSteps
  <2> QED BY <2>1 DEF Start
<1>3. ASSUME NEW m \in Nat, m + 1 \in 0..N, P(m) PROVE P(m + 1)
  <2> DEFINE level == Level(root, dir, m + 1)
  <2>1. \A way : Load(way, root, dir, m + 1) = Loaded(way, Load(way, root, dir, m), level, root)
    BY LoadSteps
  <2>2. /\ Full(m + 1) = PushLayers(Full(m), level, root).stack
        /\ Pre(m + 1).stack = PushDirLayers(Pre(m).stack, level, root).stack
    BY <2>1, LoadedIs
  <2>3. /\ RelTo(root, level) = Prefix(rel, m) /\ Prefix(rel, m) \in Seq(Names) /\ Len(Prefix(rel, m)) = m
    <3>1. m + 1 \in 1..(N + 1) /\ (m + 1) - 1 = m
      <4> HIDE DEF N
      <4> QED BY <1>1, <1>3
    <3>2. /\ RelTo(root, Level(root, dir, m + 1)) = Prefix(RelTo(root, dir), (m + 1) - 1)
          /\ Prefix(RelTo(root, dir), (m + 1) - 1) \in Seq(Names)
          /\ Len(Prefix(RelTo(root, dir), (m + 1) - 1)) = (m + 1) - 1
      BY ZenonT(60), <3>1, LevelIs
    <3> HIDE DEF N
    <3> QED BY <3>1, <3>2
  <2>4. \A j \in 0..m : Prefix(Prefix(rel, m), j) = Prefix(rel, j)
    <3>1. m \in 0..Len(rel)
      BY <1>1, <1>3
    <3> QED BY <1>1, <3>1, PrefixOfPrefix
  <2> HIDE DEF level, rel, Pre, Full
  <2>5. IsIgnored(Pre(m).stack, Prefix(rel, m), TRUE) <=> \E j \in 1..m : Out(Pre(m).stack, rel, j, TRUE)
    <3>1. IsIgnored(Pre(m).stack, Prefix(rel, m), TRUE)
            <=> \E j \in 1..m : Out(Pre(m).stack, Prefix(rel, m), j, j < m \/ TRUE)
      BY <2>3, IgnoredIs
    <3>2. ASSUME NEW j \in 1..m
          PROVE  Out(Pre(m).stack, Prefix(rel, m), j, j < m \/ TRUE) <=> Out(Pre(m).stack, rel, j, TRUE)
      <4>1. (j < m \/ TRUE) = TRUE /\ Prefix(Prefix(rel, m), j) = Prefix(rel, j)
        BY <2>4
      <4> QED BY <4>1 DEF Out
    <3> QED BY <3>1, <3>2
  <2>6. CASE IsIgnored(Pre(m).stack, Prefix(rel, m), TRUE)
    <3>1. Pre(m + 1).stack = Pre(m).stack
      BY <2>2, <2>3, <2>6 DEF PushDirLayers
    <3>2. (m + 1) - 1 = m
      OBVIOUS
    <3>3. \E j \in 1..((m + 1) - 1) : Out(Pre(m + 1).stack, rel, j, TRUE)
      BY <2>5, <2>6, <3>1, <3>2
    <3> QED BY <3>3 DEF Pre
  <2>7. CASE ~IsIgnored(Pre(m).stack, Prefix(rel, m), TRUE)
    <3>1. Pre(m + 1).stack = PushLayers(Pre(m).stack, level, root).stack
      BY <2>2, <2>3, <2>7 DEF PushDirLayers
    <3>2. Pre(m).stack = Full(m) \/ \E j \in 1..(m - 1) : Out(Pre(m).stack, rel, j, TRUE)
      BY <1>3 DEF Pre, Full, rel
    <3>3. 1..(m - 1) \subseteq 1..m
      OBVIOUS
    <3>4. Pre(m).stack = Full(m)
      BY <2>5, <2>7, <3>2, <3>3
    <3>5. Pre(m + 1).stack = Full(m + 1)
      BY <2>2, <3>1, <3>4
    <3> QED BY <3>5 DEF Pre, Full
  <2> QED BY <2>6, <2>7
<1> HIDE DEF P
<1>4. T = {}
  <2> SUFFICES ASSUME T # {} PROVE FALSE
    OBVIOUS
  <2>1. PICK m \in T : \A k \in T : m <= k
    <3>1. T \in SUBSET Nat
      OBVIOUS
    <3> HIDE DEF T
    <3> QED BY <3>1, Least
  <2>2. m # 0 /\ m - 1 \in Nat /\ m - 1 \in 0..N /\ ~(m <= m - 1) /\ (m - 1) + 1 = m
    BY <1>1, <1>2, <2>1
  <2>3. P(m - 1)
    BY <2>1, <2>2
  <2>4. P(m)
    BY <1>3, <2>1, <2>2, <2>3
  <2> QED BY <2>1, <2>4
<1>5. P(n)
  BY SMTT(60), <1>1, <1>4
<1> QED BY <1>5 DEF P

LEMMA RootStack ==
    ASSUME NEW root, root.path \in Seq(Names), NEW dir \in Seq(Names), Above(root.path, dir),
           NEW isDir \in BOOLEAN,
           ~RootExcluded(Preload(root, dir, Len(dir) - Len(root.path)).stack, RelTo(root, dir), isDir)
    PROVE  /\ Preload(root, dir, Len(dir) - Len(root.path)).stack
                 = Load("full", root, dir, Len(dir) - Len(root.path))
           /\ PushLayers(Preload(root, dir, Len(dir) - Len(root.path)).stack, dir, root).stack
                 = FullStack(root, dir)
<1> DEFINE N == Len(dir) - Len(root.path)
           rel == RelTo(root, dir)
           st == Preload(root, dir, N).stack
<1>1. N \in Nat /\ rel \in Seq(Names) /\ Len(rel) = N /\ Level(root, dir, N + 1) = dir
  BY LastLevel
<1>2. \A j \in 1..N : ~Out(st, rel, j, j < N \/ isDir)
  <2>1. ~IsIgnored(st, rel, isDir)
    BY DEF RootExcluded
  <2> HIDE DEF st, rel, N
  <2> QED BY <1>1, <2>1, IgnoredIs
<1>3. \A j \in 1..(N - 1) : (j < N \/ isDir) = TRUE /\ j \in 1..N
  BY <1>1
<1>4. \A j \in 1..(N - 1) : ~Out(st, rel, j, TRUE)
  <2> HIDE DEF st, rel, N
  <2> QED BY <1>2, <1>3
<1>5. st = Load("preload", root, dir, N).stack
  BY PreloadIs
<1>6. N \in 0..(Len(dir) - Len(root.path))
  BY <1>1
<1>7. st = Load("full", root, dir, N)
  <2>1. st = Load("full", root, dir, N) \/ \E j \in 1..(N - 1) : Out(st, rel, j, TRUE)
    BY <1>5, <1>6, PreloadIsFull
  <2> QED BY <1>4, <2>1
<1>8. Load("full", root, dir, N + 1) = PushLayers(Load("full", root, dir, N), dir, root).stack
  <2>1. Load("full", root, dir, N + 1) = Loaded("full", Load("full", root, dir, N), Level(root, dir, N + 1), root)
    BY ZenonT(60), <1>1, LoadSteps
  <2>2. Loaded("full", Load("full", root, dir, N), dir, root) = PushLayers(Load("full", root, dir, N), dir, root).stack
    BY LoadedIs
  <2> HIDE DEF N
  <2> QED BY <1>1, <2>1, <2>2
<1>9. FullStack(root, dir) = Load("full", root, dir, N + 1)
  BY FullStackIs
<1> QED BY <1>7, <1>8, <1>9

LEMMA RootIs ==
    ASSUME NEW dir \in Seq(Names)
    PROVE  FormatRootOf(dir).path \in Seq(Names) /\ Above(FormatRootOf(dir).path, dir)
<1> DEFINE repos == {k \in 0..Len(dir) : Canonical(Prefix(dir, k)) \in disk.repos}
<1>1. Len(dir) \in Nat
  OBVIOUS
<1>2. CASE repos = {}
  <2>1. FormatRootOf(dir).path = <<>>
    BY <1>2 DEF FormatRootOf
  <2> QED BY <2>1, AboveOrder
<1>3. CASE repos # {}
  <2>1. LastOf(repos) \in 0..Len(dir)
    <3>1. repos \in SUBSET (0..Len(dir))
      OBVIOUS
    <3> HIDE DEF repos
    <3> QED BY <1>1, <1>3, <3>1, Greatest
  <2>2. FormatRootOf(dir).path = Prefix(dir, LastOf(repos))
    BY <1>3 DEF FormatRootOf
  <2> QED BY <2>1, <2>2, PrefixIs, PrefixAbove
<1> QED BY <1>2, <1>3

---------------------------------------------------------------------------
(* What the disk alone decides stands while the disk does *)

LEMMA RootKept ==
    ASSUME disk' = disk, NEW dir
    PROVE  FormatRootOf(dir)' = FormatRootOf(dir)
BY DEF FormatRootOf

LEMMA PushKept ==
    ASSUME disk' = disk, NEW st, NEW dir, NEW root
    PROVE  PushLayers(st, dir, root)' = PushLayers(st, dir, root)
BY DEF PushLayers, OverrideFile, IgnoreFile

LEMMA PushDirKept ==
    ASSUME disk' = disk, NEW st, NEW dir, NEW root
    PROVE  PushDirLayers(st, dir, root)' = PushDirLayers(st, dir, root)
BY DEF PushDirLayers, PushLayers, OverrideFile, IgnoreFile

LEMMA PreloadKept ==
    ASSUME disk' = disk, NEW root, NEW dir, NEW n
    PROVE  Preload(root, dir, n)' = Preload(root, dir, n)
BY DEF Preload, PushDirLayers, PushLayers, OverrideFile, IgnoreFile

LEMMA FullStackKept ==
    ASSUME disk' = disk, NEW root, NEW dir
    PROVE  FullStack(root, dir)' = FullStack(root, dir)
BY DEF FullStack, PushLayers, OverrideFile, IgnoreFile

LEMMA WalkKept ==
    ASSUME disk' = disk, NEW fs, NEW st, NEW root, NEW arg
    PROVE  Walk(fs, st, root, arg)' = Walk(fs, st, root, arg)
<1>1. \A i : FrameStands(fs, i, root, arg)' = FrameStands(fs, i, root, arg)
  BY PushKept, FullStackKept DEF FrameStands
<1>2. FormatRootOf(arg.path)' = FormatRootOf(arg.path)
  BY RootKept
<1>3. FullStack(root, fs[Len(fs)].dir)' = FullStack(root, fs[Len(fs)].dir)
  BY FullStackKept
<1> QED BY <1>1, <1>2, <1>3 DEF Walk

LEMMA ScopeKept ==
    ASSUME disk' = disk, NEW sc, NEW dir
    PROVE  ScopeFor(sc, dir)' = ScopeFor(sc, dir)
<1>1. \A k : ScopeLevel(sc.root, dir, k)' = ScopeLevel(sc.root, dir, k)
  BY PushDirKept, PreloadKept DEF ScopeLevel
<1>2. FormatRootOf(dir)' = FormatRootOf(dir)
  BY RootKept
<1>3. Preload(sc.root, dir, Len(sc.dirs))' = Preload(sc.root, dir, Len(sc.dirs))
  BY PreloadKept
<1> QED BY <1>1, <1>2, <1>3 DEF ScopeFor

---------------------------------------------------------------------------
(* The frames of a walk *)

LEMMA FramesAre ==
    ASSUME NEW fs, NEW st, NEW root, NEW arg, Walk(fs, st, root, arg), NEW i \in 1..Len(fs)
    PROVE  /\ fs[i] = [dir |-> fs[i].dir, todo |-> fs[i].todo, pushed |-> fs[i].pushed, active |-> fs[i].active]
           /\ fs[i].dir \in Seq(Names) /\ Canonical(fs[i].dir) \in Dirs /\ Under(arg, fs[i].dir)
           /\ fs[i].todo \subseteq Entries(fs[i].dir)
<1>1. FrameStands(fs, i, root, arg)
  BY DEF Walk
<1> QED BY <1>1 DEF FrameStands

LEMMA ChildFrame ==
    ASSUME NEW fs, NEW st, NEW root, NEW arg, Walk(fs, st, root, arg), NEW i \in 1..Len(fs), i > 1
    PROVE  /\ i - 1 \in 1..Len(fs) /\ fs[i].dir # <<>>
           /\ Parent(fs[i].dir) = fs[i - 1].dir /\ Name(fs[i].dir) \notin fs[i - 1].todo
           /\ fs[i].pushed = PushLayers(FullStack(root, fs[i - 1].dir), fs[i].dir, root).pushed
<1>1. FrameStands(fs, i, root, arg) /\ Len(fs) \in Nat
  BY DEF Walk, IsSeq
<1>2. i - 1 \in 1..Len(fs)
  BY <1>1
<1> QED BY <1>1, <1>2 DEF FrameStands

LEMMA LastFrame ==
    ASSUME NEW fs, IsSeq(fs), fs # <<>>
    PROVE  Len(fs) \in 1..Len(fs)
<1>1. fs \in Seq(Elements(fs)) /\ Len(fs) \in Nat
  BY DEF IsSeq
<1> HIDE DEF Elements
<1>2. Len(fs) # 0
  BY <1>1
<1> QED BY <1>1, <1>2

(* A name crossed off, everything else as it was. *)
CrossedOff(fs, name, gs) == gs = [fs EXCEPT ![Len(fs)].todo = @ \ {name}]

LEMMA Crossed ==
    ASSUME NEW fs, NEW st, NEW root, NEW arg, Walk(fs, st, root, arg), fs # <<>>, NEW name, NEW gs,
           CrossedOff(fs, name, gs)
    PROVE  /\ Walk(gs, st, root, arg) /\ gs # <<>> /\ Len(gs) = Len(fs)
           /\ \A i \in 1..Len(fs) : gs[i].dir = fs[i].dir /\ gs[i].todo \subseteq fs[i].todo
           /\ gs[Len(fs)].todo = fs[Len(fs)].todo \ {name}
<1> DEFINE n == Len(fs)
           f == fs[n]
           S == Elements(fs) \cup {[f EXCEPT !.todo = @ \ {name}]}
<1>1. IsSeq(fs) /\ n \in 1..n
  BY LastFrame DEF Walk
<1>2. fs \in Seq(S) /\ n \in Nat /\ DOMAIN fs = 1..n
  <2>1. fs \in Seq(Elements(fs)) /\ n \in Nat
    BY <1>1 DEF IsSeq
  <2>2. Elements(fs) \subseteq S
    OBVIOUS
  <2> HIDE DEF Elements, S
  <2> QED BY <2>1, <2>2, SeqMonotonic
<1>3. gs \in Seq(S) /\ Len(gs) = n /\ DOMAIN gs = 1..n
  <2>1. [f EXCEPT !.todo = @ \ {name}] \in S
    OBVIOUS
  <2>2. gs = [fs EXCEPT ![n].todo = @ \ {name}]
    BY DEF CrossedOff
  <2> HIDE DEF S
  <2> QED BY <1>1, <1>2, <2>1, <2>2
<1>4. IsSeq(gs) /\ gs # <<>>
  <2>1. n # 0
    <3> HIDE DEF n
    <3> QED BY <1>1, <1>2
  <2> HIDE DEF S, n
  <2>2. gs # <<>>
    BY <1>3, <2>1
  <2>3. IsSeq(gs)
    BY <1>3, SeqIs
  <2> QED BY <2>2, <2>3
<1>5. \A i \in 1..n : i # n => gs[i] = fs[i]
  BY <1>1, <1>2 DEF CrossedOff
<1>6. gs[n] = [f EXCEPT !.todo = @ \ {name}]
  BY <1>1, <1>2 DEF CrossedOff
<1>7. gs[n] = [dir |-> f.dir, todo |-> f.todo \ {name}, pushed |-> f.pushed, active |-> f.active]
  <2>1. f = [dir |-> f.dir, todo |-> f.todo, pushed |-> f.pushed, active |-> f.active]
    BY <1>1, FramesAre
  <2> HIDE DEF f
  <2> QED BY <1>6, <2>1
<1> HIDE DEF S
<1>8. \A i \in 1..n : /\ gs[i] = [dir |-> gs[i].dir, todo |-> gs[i].todo, pushed |-> gs[i].pushed, active |-> gs[i].active]
                      /\ gs[i].dir = fs[i].dir /\ gs[i].pushed = fs[i].pushed /\ gs[i].todo \subseteq fs[i].todo
  <2>1. ASSUME NEW i \in 1..n, i # n
        PROVE  /\ gs[i] = [dir |-> gs[i].dir, todo |-> gs[i].todo, pushed |-> gs[i].pushed, active |-> gs[i].active]
               /\ gs[i].dir = fs[i].dir /\ gs[i].pushed = fs[i].pushed /\ gs[i].todo \subseteq fs[i].todo
    BY <1>5, <2>1, FramesAre
  <2>2. /\ gs[n] = [dir |-> gs[n].dir, todo |-> gs[n].todo, pushed |-> gs[n].pushed, active |-> gs[n].active]
        /\ gs[n].dir = f.dir /\ gs[n].pushed = f.pushed /\ gs[n].todo \subseteq f.todo
    <3> DEFINE g == gs[n]
    <3>1. g = [dir |-> f.dir, todo |-> f.todo \ {name}, pushed |-> f.pushed, active |-> f.active]
      BY <1>7
    <3> HIDE DEF f, g
    <3>2. /\ g = [dir |-> g.dir, todo |-> g.todo, pushed |-> g.pushed, active |-> g.active]
          /\ g.dir = f.dir /\ g.pushed = f.pushed /\ g.todo \subseteq f.todo
      BY <3>1
    <3> QED BY <3>2 DEF g
  <2> QED BY <2>1, <2>2
<1>9. gs[n].todo = f.todo \ {name}
  BY <1>7
<1>10. ASSUME NEW i \in 1..n PROVE FrameStands(gs, i, root, arg)
  <2>1. /\ fs[i].dir \in Seq(Names) /\ Canonical(fs[i].dir) \in Dirs /\ Under(arg, fs[i].dir)
        /\ fs[i].todo \subseteq Entries(fs[i].dir)
        /\ i > 1 => /\ i - 1 \in 1..Len(fs) /\ fs[i].dir # <<>>
                    /\ Parent(fs[i].dir) = fs[i - 1].dir /\ Name(fs[i].dir) \notin fs[i - 1].todo
                    /\ fs[i].pushed = PushLayers(FullStack(root, fs[i - 1].dir), fs[i].dir, root).pushed
    <3>1. i \in 1..Len(fs)
      OBVIOUS
    <3> HIDE DEF n, f
    <3>2. /\ fs[i].dir \in Seq(Names) /\ Canonical(fs[i].dir) \in Dirs /\ Under(arg, fs[i].dir)
          /\ fs[i].todo \subseteq Entries(fs[i].dir)
      BY <3>1, FramesAre
    <3>3. i > 1 => /\ i - 1 \in 1..Len(fs) /\ fs[i].dir # <<>>
                   /\ Parent(fs[i].dir) = fs[i - 1].dir /\ Name(fs[i].dir) \notin fs[i - 1].todo
                   /\ fs[i].pushed = PushLayers(FullStack(root, fs[i - 1].dir), fs[i].dir, root).pushed
      BY <3>1, ChildFrame
    <3> QED BY <3>2, <3>3
  <2> QED BY <1>8, <2>1 DEF FrameStands
<1>11. gs[1].dir = fs[1].dir /\ gs[Len(gs)].dir = fs[n].dir
  BY <1>1, <1>3, <1>8
<1>12. Walk(gs, st, root, arg)
  BY <1>3, <1>4, <1>10, <1>11 DEF Walk
<1> QED BY <1>3, <1>4, <1>8, <1>9, <1>12

(* A directory opened on the frames of a walk. *)
LEMMA FrameOpened ==
    ASSUME NEW fs, NEW st, NEW root, NEW arg, Walk(fs, st, root, arg), fs # <<>>, NEW frame,
           FrameStands(Append(fs, frame), Len(fs) + 1, root, arg)
    PROVE  Walk(Append(fs, frame), FullStack(root, frame.dir), root, arg)
<1> DEFINE gs == Append(fs, frame)
           n == Len(fs)
<1>1. IsSeq(fs) /\ n \in 1..n
  BY LastFrame DEF Walk
<1>2. IsSeq(gs) /\ Len(gs) = n + 1 /\ gs[n + 1] = frame /\ (\A i \in 1..n : gs[i] = fs[i]) /\ gs # <<>>
  BY <1>1, SeqGrows
<1>3. FrameStands(gs, n + 1, root, arg)
  OBVIOUS
<1> HIDE DEF gs
<1>4. ASSUME NEW i \in 1..n PROVE FrameStands(gs, i, root, arg)
  <2>1. FrameStands(fs, i, root, arg)
    BY DEF Walk
  <2>2. i > 1 => i - 1 \in 1..n
    BY <1>1
  <2> QED BY SMTT(60), <1>2, <2>1, <2>2 DEF FrameStands
<1>5. \A i \in 1..(n + 1) : FrameStands(gs, i, root, arg)
  BY <1>1, <1>4, <1>3
<1>6. gs[1].dir = arg.path /\ root = FormatRootOf(arg.path)
  BY <1>1, <1>2 DEF Walk
<1>7. gs[Len(gs)].dir = frame.dir
  BY <1>2
<1>8. Walk(gs, FullStack(root, frame.dir), root, arg)
  BY <1>2, <1>5, <1>6, <1>7 DEF Walk
<1>9. gs = Append(fs, frame)
  BY DEF gs
<1> QED BY <1>8, <1>9

(* A directory left: the stack is its parent's again. *)
LEMMA Left ==
    ASSUME NEW fs, NEW st, NEW root, NEW arg, Walk(fs, st, root, arg), fs # <<>>, arg.path \in Seq(Names)
    PROVE  /\ Walk(Prefix(fs, Len(fs) - 1), PopFrom(fs[Len(fs)].pushed, st), root, arg)
           /\ Len(Prefix(fs, Len(fs) - 1)) = Len(fs) - 1
           /\ \A i \in 1..(Len(fs) - 1) : Prefix(fs, Len(fs) - 1)[i] = fs[i]
<1> DEFINE n == Len(fs)
           m == n - 1
           gs == Prefix(fs, m)
           S == Elements(fs)
<1>1. IsSeq(fs) /\ n \in 1..n /\ n \in Nat /\ m \in 0..n
  BY LastFrame DEF Walk, IsSeq
<1>2. gs \in Seq(S) /\ Len(gs) = m /\ \A i \in 1..m : gs[i] = fs[i]
  <2>1. fs \in Seq(S)
    BY <1>1 DEF IsSeq
  <2> HIDE DEF S, m
  <2> QED BY <1>1, <2>1, PrefixIs
<1>3. IsSeq(gs)
  <2> HIDE DEF S, gs
  <2> QED BY <1>2, SeqIs
<1> HIDE DEF gs, S
<1>4. ASSUME NEW i \in 1..m PROVE FrameStands(gs, i, root, arg)
  <2>1. FrameStands(fs, i, root, arg) /\ i \in 1..n
    BY <1>1 DEF Walk
  <2>2. i > 1 => i - 1 \in 1..m
    BY <1>1
  <2> QED BY <1>2, <2>1, <2>2 DEF FrameStands
<1>5. ASSUME gs # <<>>
      PROVE  /\ gs[1].dir = arg.path /\ root = FormatRootOf(arg.path)
             /\ PopFrom(fs[n].pushed, st) = FullStack(root, gs[Len(gs)].dir)
  <2>1. m \in 1..m /\ 1 \in 1..m /\ n > 1
    <3>1. m # 0
      BY <1>2, <1>5
    <3> HIDE DEF n
    <3> QED BY <1>1, <3>1
  <2>2. gs[1].dir = arg.path /\ root = FormatRootOf(arg.path) /\ st = FullStack(root, fs[n].dir)
    BY <1>2, <2>1 DEF Walk
  <2> DEFINE dir == fs[m].dir
             name == Name(fs[n].dir)
             X == FullStack(root, dir)
  <2>3. /\ fs[n].dir # <<>> /\ Parent(fs[n].dir) = dir /\ fs[n].dir \in Seq(Names)
        /\ fs[n].pushed = PushLayers(X, fs[n].dir, root).pushed
    <3>1. n \in 1..Len(fs)
      BY <1>1
    <3> HIDE DEF n
    <3>2. n > 1 => /\ n - 1 \in 1..Len(fs) /\ fs[n].dir # <<>>
                   /\ Parent(fs[n].dir) = fs[n - 1].dir /\ Name(fs[n].dir) \notin fs[n - 1].todo
                   /\ fs[n].pushed = PushLayers(FullStack(root, fs[n - 1].dir), fs[n].dir, root).pushed
      BY <3>1, ChildFrame
    <3>3. fs[n].dir \in Seq(Names)
      BY <3>1, FramesAre
    <3> QED BY <2>1, <3>2, <3>3
  <2>4. dir \in Seq(Names) /\ Under(arg, dir)
    <3>1. m \in 1..Len(fs)
      BY <1>1, <2>1
    <3> HIDE DEF m
    <3>2. fs[m].dir \in Seq(Names) /\ Under(arg, fs[m].dir)
      BY <3>1, FramesAre
    <3> QED BY <3>2
  <2>5. name \in Names /\ fs[n].dir = Append(dir, name)
    BY <2>3, LastSplit
  <2>6. root.path \in Seq(Names) /\ Above(root.path, dir)
    <3>1. root.path \in Seq(Names) /\ Above(root.path, arg.path)
      BY <2>2, RootIs
    <3>2. Above(arg.path, dir)
      BY <2>4 DEF Under
    <3> QED BY <2>4, <3>1, <3>2, AboveOrder
  <2> HIDE DEF dir, name, X
  <2>7. FullStack(root, Append(dir, name)) = PushLayers(FullStack(root, dir), Append(dir, name), root).stack
        /\ IsStack(FullStack(root, dir))
    BY <2>4, <2>5, <2>6, FullStackChild
  <2>8. st = PushLayers(X, fs[n].dir, root).stack /\ IsStack(X)
    BY <2>2, <2>5, <2>7 DEF X
  <2>9. PopFrom(fs[n].pushed, st) = X
    BY <2>3, <2>8, PushPop
  <2>10. gs[Len(gs)].dir = dir
    BY <1>2, <2>1 DEF dir
  <2> QED BY <2>2, <2>9, <2>10 DEF X
<1>6. Walk(gs, PopFrom(fs[n].pushed, st), root, arg)
  BY <1>2, <1>3, <1>4, <1>5 DEF Walk
<1> QED BY <1>2, <1>6 DEF gs

(* Each directory walked lies below the ones it was listed in. *)
LEMMA Nested ==
    ASSUME NEW fs, NEW st, NEW root, NEW arg, Walk(fs, st, root, arg), NEW i \in 1..Len(fs),
           NEW j \in i..Len(fs)
    PROVE  Above(fs[i].dir, fs[j].dir)
<1> DEFINE P(k) == Above(fs[i].dir, fs[k].dir)
           T == {k \in Nat : k \in i..Len(fs) /\ ~P(k)}
<1>1. Len(fs) \in Nat /\ i \in Nat
  BY DEF Walk, IsSeq
<1>2. P(i)
  <2>1. fs[i].dir \in Seq(Names)
    BY FramesAre
  <2> QED BY <2>1, AboveOrder
<1>3. ASSUME NEW k \in i..Len(fs), k # i, P(k - 1) PROVE P(k)
  <2>1. k \in 1..Len(fs) /\ k > 1 /\ k - 1 \in 1..Len(fs)
    BY <1>1, <1>3
  <2>2. fs[k].dir \in Seq(Names)
    BY <2>1, FramesAre
  <2>3. fs[k - 1].dir \in Seq(Names)
    <3> DEFINE m == k - 1
    <3>1. m \in 1..Len(fs)
      BY <2>1
    <3> HIDE DEF m
    <3>2. fs[m].dir \in Seq(Names)
      BY <3>1, FramesAre
    <3> QED BY <3>2 DEF m
  <2>4. fs[i].dir \in Seq(Names)
    BY FramesAre
  <2>5. fs[k].dir # <<>> /\ Parent(fs[k].dir) = fs[k - 1].dir
    BY <2>1, ChildFrame
  <2>6. Name(fs[k].dir) \in Names /\ fs[k].dir = Append(fs[k - 1].dir, Name(fs[k].dir))
    BY <2>2, <2>5, LastSplit
  <2> QED BY ZenonT(150), <1>3, <2>3, <2>4, <2>6, AboveChild
<1> HIDE DEF P
<1>4. T = {}
  <2> SUFFICES ASSUME T # {} PROVE FALSE
    OBVIOUS
  <2>1. PICK k \in T : \A l \in T : k <= l
    <3>1. T \in SUBSET Nat
      OBVIOUS
    <3> HIDE DEF T
    <3> QED BY <3>1, Least
  <2>2. k # i /\ k - 1 \in Nat /\ k - 1 \in i..Len(fs) /\ ~(k <= k - 1)
    BY <1>1, <1>2, <2>1
  <2>3. P(k - 1)
    BY <2>1, <2>2
  <2> QED BY <1>3, <2>1, <2>2, <2>3
<1>5. P(j)
  BY <1>1, <1>4
<1> QED BY <1>5 DEF P

(* What was crossed off last is not ahead any more, nor is what lies below it *)
(* where the names left to visit are those left before.                      *)
LEMMA NotAhead ==
    ASSUME NEW fs, NEW st, NEW root, NEW arg, Walk(fs, st, root, arg), fs # <<>>, NEW name,
           name \in fs[Len(fs)].todo, NEW gs, CrossedOff(fs, name, gs)
    PROVE  Ahead(gs, Append(fs[Len(fs)].dir, name))
<1> DEFINE n == Len(fs)
           top == fs[n].dir
           p == Append(top, name)
<1>1. n \in 1..n /\ n \in Nat
  BY LastFrame DEF Walk, IsSeq
<1>2. /\ Walk(gs, st, root, arg) /\ Len(gs) = n
      /\ \A i \in 1..n : gs[i].dir = fs[i].dir /\ gs[i].todo \subseteq fs[i].todo
      /\ gs[n].todo = fs[n].todo \ {name}
  BY Crossed
<1>3. top \in Seq(Names) /\ name \in Entries(top) /\ Canonical(top) \in Dirs
  BY <1>1, FramesAre
<1>4. name \in Names
  BY <1>3, EntryIs
<1>5. p \in Seq(Names) /\ Len(p) = Len(top) + 1
  BY <1>3, <1>4, Appended
<1> SUFFICES ASSUME NEW i \in 1..n, NEW m \in gs[i].todo, Above(Append(gs[i].dir, m), p)
             PROVE  FALSE
  BY <1>2 DEF Ahead
<1> DEFINE d == fs[i].dir
           q == Append(d, m)
<1>6. d \in Seq(Names) /\ m \in fs[i].todo /\ m \in Entries(d) /\ Canonical(d) \in Dirs
  <2>1. fs[i].dir \in Seq(Names) /\ Canonical(fs[i].dir) \in Dirs /\ fs[i].todo \subseteq Entries(fs[i].dir)
    BY FramesAre
  <2> QED BY <1>2, <2>1
<1>7. m \in Names
  BY <1>6, EntryIs
<1>8. q \in Seq(Names) /\ Len(q) = Len(d) + 1 /\ Name(q) = m /\ Parent(q) = d
  BY <1>6, <1>7, Appended
<1>9. Above(q, p)
  BY <1>2
<1>10. CASE i = n
  <2>1. m # name
    BY <1>2, <1>10
  <2>2. d = top
    BY <1>10
  <2>3. Len(q) = Len(p)
    BY <1>5, <1>8, <2>2
  <2>4. Name(p) = name
    BY <1>3, <1>4, Appended
  <2> HIDE DEF p, q
  <2>5. q = p
    <3>1. Above(p, p)
      BY <1>5, AboveOrder
    <3> QED BY <1>5, <1>8, <1>9, <2>3, <3>1, AboveOrder
  <2> QED BY <1>8, <2>1, <2>4, <2>5
<1>11. CASE i # n
  <2>1. i + 1 \in 1..n /\ i + 1 > 1 /\ n \in (i + 1)..n /\ (i + 1) - 1 = i
    BY <1>1, <1>11
  <2> DEFINE k == i + 1
             e == fs[k].dir
  <2>2. e # <<>> /\ Parent(e) = d /\ Name(e) \notin fs[i].todo
    <3>1. k \in 1..Len(fs) /\ k > 1 /\ k - 1 = i
      BY <2>1
    <3> HIDE DEF k
    <3> QED BY <3>1, ChildFrame
  <2>3. Above(e, top)
    <3>1. k \in 1..Len(fs) /\ n \in k..Len(fs)
      BY <2>1
    <3> HIDE DEF k, n
    <3> QED BY <3>1, Nested
  <2>4. e \in Seq(Names)
    <3>1. k \in 1..Len(fs)
      BY <2>1
    <3> HIDE DEF k
    <3> QED BY <3>1, FramesAre
  <2> HIDE DEF e, k, p, q, d, top
  <2>5. Name(e) \in Names /\ Len(e) = Len(d) + 1
    <3>1. Len(Parent(e)) = Len(e) - 1 /\ Name(e) \in Names /\ Len(e) \in Nat
      BY <2>2, <2>4, LastSplit
    <3> QED BY <2>2, <3>1
  <2>6. Above(e, p)
    <3>1. Above(e, Append(top, name))
      BY <1>3, <1>4, <2>3, <2>4, AboveChild
    <3> QED BY <3>1 DEF p
  <2>7. e = q
    BY <1>5, <1>8, <1>9, <2>4, <2>5, <2>6, AboveOrder
  <2> QED BY <1>6, <1>8, <2>2, <2>7
<1> QED BY <1>10, <1>11

LEMMA CrossedAhead ==
    ASSUME NEW fs, NEW st, NEW root, NEW arg, Walk(fs, st, root, arg), fs # <<>>, NEW name,
           NEW gs, CrossedOff(fs, name, gs), NEW p, Ahead(fs, p)
    PROVE  Ahead(gs, p)
<1>1. /\ Len(gs) = Len(fs)
      /\ \A i \in 1..Len(fs) : gs[i].dir = fs[i].dir /\ gs[i].todo \subseteq fs[i].todo
  BY Crossed
<1> QED BY <1>1 DEF Ahead

(* What is ahead in a directory just opened lies below what was ahead. *)
LEMMA StillNotAhead ==
    ASSUME NEW fs, NEW st, NEW root, NEW arg, Walk(fs, st, root, arg), fs # <<>>, NEW name,
           name \in fs[Len(fs)].todo, NEW gs, CrossedOff(fs, name, gs),
           NEW p \in Seq(Names), Ahead(fs, p), NEW frame,
           frame.dir = Append(fs[Len(fs)].dir, name), Canonical(frame.dir) \in Dirs,
           frame.todo \subseteq Entries(frame.dir)
    PROVE  Ahead(Append(gs, frame), p)
<1> DEFINE n == Len(fs)
           top == fs[n].dir
           hs == Append(gs, frame)
<1>1. n \in 1..n /\ n \in Nat
  BY LastFrame DEF Walk, IsSeq
<1>2. /\ IsSeq(gs) /\ Len(gs) = n
      /\ \A i \in 1..n : gs[i].dir = fs[i].dir /\ gs[i].todo \subseteq fs[i].todo
  <2>1. /\ Walk(gs, st, root, arg) /\ Len(gs) = n
        /\ \A i \in 1..n : gs[i].dir = fs[i].dir /\ gs[i].todo \subseteq fs[i].todo
    BY Crossed
  <2> QED BY <2>1 DEF Walk
<1>3. Ahead(gs, p)
  BY CrossedAhead
<1>4. Len(hs) = n + 1 /\ hs[n + 1] = frame /\ \A i \in 1..n : hs[i] = gs[i]
  BY <1>2, SeqGrows
<1> HIDE DEF hs
<1>5. ~Above(frame.dir, p)
  BY <1>1 DEF Ahead
<1>6. frame.dir \in Seq(Names)
  <2>1. top \in Seq(Names) /\ name \in Entries(top) /\ Canonical(top) \in Dirs
    BY <1>1, FramesAre
  <2>2. Append(top, name) \in Seq(Names)
    BY <2>1, EntryIs
  <2> QED BY <2>2
<1>7. ASSUME NEW m \in frame.todo PROVE ~Above(Append(frame.dir, m), p)
  <2>1. m \in Entries(frame.dir)
    OBVIOUS
  <2>2. m \in Names /\ Append(frame.dir, m) \in Seq(Names)
    BY <1>6, <2>1, EntryIs
  <2> DEFINE d == frame.dir
             c == Append(d, m)
  <2>3. d \in Seq(Names) /\ ~Above(d, p) /\ c \in Seq(Names)
    BY <1>5, <1>6, <2>2
  <2>4. Above(d, c)
    <3> HIDE DEF d
    <3>1. Above(d, d)
      BY <2>3, AboveOrder
    <3> QED BY <2>2, <2>3, <3>1, AboveChild
  <2> HIDE DEF d, c
  <2>5. ~Above(c, p)
    BY <2>3, <2>4, AboveOrder
  <2> QED BY <2>5 DEF c, d
<1>8. Ahead(hs, p)
  <2>1. ASSUME NEW i \in 1..(n + 1), NEW m \in hs[i].todo PROVE ~Above(Append(hs[i].dir, m), p)
    <3>1. CASE i = n + 1
      BY <1>4, <1>7, <3>1
    <3>2. CASE i # n + 1
      <4>1. i \in 1..n /\ hs[i] = gs[i] /\ Len(gs) = n
        BY <1>1, <1>2, <1>4, <3>2
      <4> HIDE DEF n
      <4> QED BY <1>3, <4>1 DEF Ahead
    <3> QED BY <3>1, <3>2
  <2> QED BY <1>4, <2>1 DEF Ahead
<1> QED BY <1>8 DEF hs

---------------------------------------------------------------------------
(* A scope moved from directory to directory *)

LEMMA PreloadSteps ==
    ASSUME NEW root, NEW dir, NEW n \in Nat, NEW more,
           more = PushDirLayers(Preload(root, dir, n).stack, Level(root, dir, n + 1), root)
    PROVE  /\ Preload(root, dir, 0).stack = EmptyStack
           /\ Preload(root, dir, n + 1).stack = more.stack
           /\ ScopeLevel(root, dir, n + 1) = [dir |-> Level(root, dir, n + 1), pushed |-> more.pushed]
           /\ PopFrom(more.pushed, Preload(root, dir, n + 1).stack) = Preload(root, dir, n).stack
<1>1. /\ Load("preload", root, dir, 0) = Start("preload")
      /\ Load("preload", root, dir, n + 1) =
            Loaded("preload", Load("preload", root, dir, n), Level(root, dir, n + 1), root)
  BY LoadSteps
<1>2. \A k : Preload(root, dir, k) = Load("preload", root, dir, k)
  BY PreloadIs
<1>3. Preload(root, dir, 0).stack = EmptyStack
  <2>1. Start("preload").stack = EmptyStack
    BY DEF Start
  <2> QED BY <1>1, <1>2, <2>1
<1>4. Preload(root, dir, n + 1).stack = more.stack
  <2>1. Loaded("preload", Load("preload", root, dir, n), Level(root, dir, n + 1), root).stack =
           PushDirLayers(Load("preload", root, dir, n).stack, Level(root, dir, n + 1), root).stack
    BY LoadedIs
  <2> QED BY <1>1, <1>2, <2>1
<1>5. ScopeLevel(root, dir, n + 1) = [dir |-> Level(root, dir, n + 1), pushed |-> more.pushed]
  <2>1. (n + 1) - 1 = n
    OBVIOUS
  <2>2. Level(root, dir, n + 1) = Prefix(dir, Len(root.path) + (n + 1) - 1)
    BY DEF Level
  <2> QED BY <2>1, <2>2 DEF ScopeLevel
<1>6. IsStack(Preload(root, dir, n).stack)
  BY <1>2, LoadedAreStacks
<1>7. PopFrom(more.pushed, more.stack) = Preload(root, dir, n).stack
  BY <1>6, PushDirPop
<1> QED BY <1>3, <1>4, <1>5, <1>7

(* The layers down to n directories are those of any way that shares them. *)
LEMMA PreloadShared ==
    ASSUME NEW root, NEW dir, NEW e, NEW n \in Nat,
           \A k \in 1..n : Level(root, dir, k) = Level(root, e, k)
    PROVE  /\ Preload(root, dir, n) = Preload(root, e, n)
           /\ \A k \in 1..n : ScopeLevel(root, dir, k) = ScopeLevel(root, e, k)
<1>1. ASSUME NEW m \in 0..n PROVE Preload(root, dir, m) = Preload(root, e, m)
  <2>1. m \in Nat /\ \A k \in 1..m : Level(root, dir, k) = Level(root, e, k)
    OBVIOUS
  <2>2. Load("preload", root, dir, m) = Load("preload", root, e, m)
    BY <2>1, LoadSteps
  <2> QED BY <2>2, PreloadIs
<1>2. ASSUME NEW k \in 1..n PROVE ScopeLevel(root, dir, k) = ScopeLevel(root, e, k)
  <2>1. k - 1 \in 0..n /\ Level(root, dir, k) = Level(root, e, k)
    OBVIOUS
  <2>2. Preload(root, dir, k - 1) = Preload(root, e, k - 1)
    BY <1>1, <2>1
  <2> QED BY <2>1, <2>2 DEF ScopeLevel, Level
<1> QED BY <1>1, <1>2

(* A scope for a directory, or for none yet. *)
ScopeTo(sc, root, dir) ==
    /\ sc.root = root /\ IsSeq(sc.dirs)
    /\ sc.stack = Preload(root, dir, Len(sc.dirs)).stack
    /\ \A k \in 1..Len(sc.dirs) : sc.dirs[k] = ScopeLevel(root, dir, k)

LEMMA UnwoundIs ==
    ASSUME NEW sc, NEW root, NEW dir, ScopeTo(sc, root, dir), NEW n \in 0..Len(sc.dirs)
    PROVE  Unwound(sc, n) = Preload(root, dir, n).stack
<1> DEFINE L == Len(sc.dirs)
           S(k) == Preload(root, dir, k).stack
           Takes(g) == g = [k \in n..L |-> IF k = L THEN sc.stack
                                           ELSE PopFrom(sc.dirs[k + 1].pushed, g[k + 1])]
           off == CHOOSE g : Takes(g)
<1>1. L \in Nat /\ n \in Nat /\ n <= L
  BY DEF ScopeTo, IsSeq
<1>2. Unwound(sc, n) = off[n]
  BY DEF Unwound
<1>3. S(L) = sc.stack
  BY DEF ScopeTo
<1>4. ASSUME NEW k \in n..L, k # L PROVE PopFrom(sc.dirs[k + 1].pushed, S(k + 1)) = S(k)
  <2>1. k \in Nat /\ k + 1 \in 1..L
    BY <1>1, <1>4
  <2> DEFINE more == PushDirLayers(Preload(root, dir, k).stack, Level(root, dir, k + 1), root)
  <2>2. sc.dirs[k + 1] = ScopeLevel(root, dir, k + 1)
    <3> DEFINE m == k + 1
    <3>1. m \in 1..Len(sc.dirs)
      BY <2>1
    <3> HIDE DEF m
    <3>2. sc.dirs[m] = ScopeLevel(root, dir, m)
      BY <3>1 DEF ScopeTo
    <3> QED BY <3>2 DEF m
  <2> HIDE DEF more
  <2>3. /\ ScopeLevel(root, dir, k + 1) = [dir |-> Level(root, dir, k + 1), pushed |-> more.pushed]
        /\ PopFrom(more.pushed, Preload(root, dir, k + 1).stack) = Preload(root, dir, k).stack
    BY <2>1, PreloadSteps DEF more
  <2>4. sc.dirs[k + 1].pushed = more.pushed
    BY <2>2, <2>3
  <2> QED BY <2>3, <2>4
<1> HIDE DEF S, L
<1>5. Takes([k \in n..L |-> S(k)])
  <2> DEFINE g == [k \in n..L |-> S(k)]
  <2>1. ASSUME NEW k \in n..L
        PROVE  g[k] = IF k = L THEN sc.stack ELSE PopFrom(sc.dirs[k + 1].pushed, g[k + 1])
    <3>1. CASE k = L
      BY <1>3, <3>1
    <3>2. CASE k # L
      <4>1. k + 1 \in n..L
        BY <1>1, <3>2
      <4> QED BY <1>4, <3>2, <4>1
    <3> QED BY <3>1, <3>2
  <2>2. g = [k \in n..L |-> g[k]]
    OBVIOUS
  <2> HIDE DEF g
  <2>3. Takes(g)
    BY <2>1, <2>2
  <2> QED BY <2>3 DEF g
<1>6. Takes(off)
  <2> HIDE DEF Takes
  <2> QED BY <1>5
<1> HIDE DEF off
<1>7. \A k \in n..L : off[k] = IF k = L THEN sc.stack ELSE PopFrom(sc.dirs[k + 1].pushed, off[k + 1])
  BY <1>6
<1> HIDE DEF Takes
<1> DEFINE T == {d \in Nat : d \in 0..(L - n) /\ off[L - d] # S(L - d)}
<1>8. T = {}
  <2> SUFFICES ASSUME T # {} PROVE FALSE
    OBVIOUS
  <2>1. PICK d \in T : \A e \in T : d <= e
    <3>1. T \in SUBSET Nat
      OBVIOUS
    <3> HIDE DEF T
    <3> QED BY SMTT(60), <3>1, Least
  <2> DEFINE k == L - d
  <2>2. k \in n..L /\ off[k] # S(k) /\ d \in Nat
    BY <1>1, <2>1
  <2>3. k # L
    BY <1>3, <1>7, <2>2
  <2>4. d - 1 \in Nat /\ d - 1 \in 0..(L - n) /\ ~(d <= d - 1) /\ L - (d - 1) = k + 1
    BY <1>1, <2>1, <2>3
  <2>5. off[k + 1] = S(k + 1)
    BY <2>1, <2>4
  <2>6. off[k] = PopFrom(sc.dirs[k + 1].pushed, off[k + 1])
    <3> HIDE DEF k
    <3> QED BY <1>7, <2>2, <2>3
  <2>7. PopFrom(sc.dirs[k + 1].pushed, S(k + 1)) = S(k)
    <3> HIDE DEF k
    <3> QED BY <1>4, <2>2, <2>3
  <2> QED BY <2>2, <2>5, <2>6, <2>7
<1>9. off[n] = S(n)
  <2>1. L - n \in Nat /\ L - n \in 0..(L - n) /\ L - (L - n) = n
    BY <1>1
  <2> QED BY <1>8, <2>1
<1> QED BY <1>2, <1>9 DEF S

Moved(above, root, dir, k) ==
    LET level == Prefix(dir, Len(root.path) + k - 1)
        more == PushDirLayers(above.stack, level, root)
    IN  [root |-> root, stack |-> more.stack,
         dirs |-> Append(above.dirs, [dir |-> level, pushed |-> more.pushed]),
         warned |-> above.warned \cup more.warned]
Base(sc, root, n) ==
    [root |-> root, stack |-> Unwound(sc, n), dirs |-> Prefix(sc.dirs, n), warned |-> {}]
Moves(f, sc, root, dir, n, depth) ==
    f = [k \in n..depth |-> IF k = n THEN Base(sc, root, n) ELSE Moved(f[k - 1], root, dir, k)]

LEMMA MovesSome ==
    ASSUME NEW sc, NEW root, NEW dir, NEW n \in Nat, NEW depth \in Nat, n <= depth
    PROVE  \E f : Moves(f, sc, root, dir, n, depth)
<1> DEFINE T == {m \in Nat : n <= m /\ ~\E f : Moves(f, sc, root, dir, n, m)}
<1> SUFFICES ASSUME T # {} PROVE FALSE
  OBVIOUS
<1>1. PICK m \in T : \A k \in T : m <= k
  <2>1. T \in SUBSET Nat
    OBVIOUS
  <2> HIDE DEF T
  <2> QED BY <2>1, Least
<1>2. CASE m = n
  <2>1. Moves([k \in n..n |-> Base(sc, root, n)], sc, root, dir, n, n)
    BY DEF Moves
  <2> QED BY <1>1, <1>2, <2>1
<1>3. CASE m # n
  <2>1. m - 1 \in Nat /\ n <= m - 1 /\ ~(m <= m - 1) /\ m \in Nat
    BY <1>1, <1>3
  <2>2. PICK g : Moves(g, sc, root, dir, n, m - 1)
    BY <1>1, <2>1
  <2> DEFINE f == [k \in n..m |-> IF k = m THEN Moved(g[m - 1], root, dir, m) ELSE g[k]]
  <2>3. ASSUME NEW k \in n..m
        PROVE  f[k] = IF k = n THEN Base(sc, root, n) ELSE Moved(f[k - 1], root, dir, k)
    <3>1. CASE k = m
      <4>1. f[k - 1] = g[m - 1]
        BY <1>3, <2>1, <3>1
      <4> QED BY <1>3, <3>1, <4>1
    <3>2. CASE k # m /\ k # n
      <4>1. k \in n..(m - 1) /\ k - 1 \in n..m /\ k - 1 # m
        BY <2>1, <3>2
      <4>2. f[k] = g[k] /\ f[k - 1] = g[k - 1]
        BY <3>2, <4>1
      <4>3. g[k] = Moved(g[k - 1], root, dir, k)
        BY <2>2, <3>2, <4>1 DEF Moves
      <4> QED BY <3>2, <4>2, <4>3
    <3>3. CASE k # m /\ k = n
      <4>1. n \in n..(m - 1)
        BY <2>1
      <4>2. g[n] = Base(sc, root, n)
        BY <2>2, <4>1 DEF Moves
      <4> QED BY <3>3, <4>2
    <3> QED BY <3>1, <3>2, <3>3
  <2>4. f = [k \in n..m |-> f[k]]
    OBVIOUS
  <2> HIDE DEF f
  <2>5. Moves(f, sc, root, dir, n, m)
    BY <2>3, <2>4 DEF Moves
  <2> QED BY <1>1, <2>5
<1> QED BY <1>2, <1>3

(* Each step of the way down leaves the scope of the directory reached. *)
LEMMA MovesTo ==
    ASSUME NEW sc, NEW root, NEW e, ScopeTo(sc, root, e), NEW n \in 0..Len(sc.dirs), NEW dir,
           \A k \in 1..n : Level(root, dir, k) = Level(root, e, k),
           NEW depth \in Nat, n <= depth, NEW f, Moves(f, sc, root, dir, n, depth)
    PROVE  ScopeTo(f[depth], root, dir) /\ Len(f[depth].dirs) = depth
<1> DEFINE P(k) == ScopeTo(f[k], root, dir) /\ Len(f[k].dirs) = k
           T == {k \in Nat : k \in n..depth /\ ~P(k)}
<1>1. n \in Nat /\ IsSeq(sc.dirs) /\ sc.dirs \in Seq(Elements(sc.dirs))
  BY DEF ScopeTo, IsSeq
<1>2. \A k \in n..depth : f[k] = IF k = n THEN Base(sc, root, n) ELSE Moved(f[k - 1], root, dir, k)
  BY DEF Moves
<1>3. P(n)
  <2> DEFINE d == Prefix(sc.dirs, n)
  <2>1. IsSeq(d) /\ Len(d) = n /\ \A k \in 1..n : d[k] = sc.dirs[k]
    <3>1. d \in Seq(Elements(sc.dirs)) /\ Len(d) = n /\ \A k \in 1..n : d[k] = sc.dirs[k]
      <4> HIDE DEF Elements
      <4> QED BY <1>1, PrefixIs
    <3> HIDE DEF d, Elements
    <3> QED BY <3>1, SeqIs
  <2>2. /\ Preload(root, dir, n) = Preload(root, e, n)
        /\ \A k \in 1..n : ScopeLevel(root, dir, k) = ScopeLevel(root, e, k)
    BY <1>1, PreloadShared
  <2>3. Unwound(sc, n) = Preload(root, e, n).stack
    BY UnwoundIs
  <2>4. \A k \in 1..n : sc.dirs[k] = ScopeLevel(root, e, k)
    BY <1>1 DEF ScopeTo, IsSeq
  <2>5. n \in n..depth
    BY <1>1
  <2>6. f[n] = [root |-> root, stack |-> Unwound(sc, n), dirs |-> d, warned |-> {}]
    BY <1>2, <2>5 DEF Base
  <2> HIDE DEF d
  <2>7. f[n].root = root /\ f[n].stack = Unwound(sc, n) /\ f[n].dirs = d
    BY <2>6
  <2> QED BY <2>1, <2>2, <2>3, <2>4, <2>7 DEF ScopeTo
<1>4. ASSUME NEW k \in n..depth, k # n, P(k - 1) PROVE P(k)
  <2> DEFINE m == k - 1
             more == PushDirLayers(f[m].stack, Level(root, dir, k), root)
             d == Append(f[m].dirs, [dir |-> Level(root, dir, k), pushed |-> more.pushed])
  <2>1. m \in Nat /\ m + 1 = k /\ k \in Nat
    BY SMTT(60), <1>1, <1>4
  <2>2. ScopeTo(f[m], root, dir) /\ Len(f[m].dirs) = m
    BY <1>4
  <2>3. f[k] = [root |-> root, stack |-> more.stack, dirs |-> d, warned |-> f[m].warned \cup more.warned]
    BY <1>2, <1>4 DEF Moved, Level
  <2> HIDE DEF more, d, m
  <2>4. f[k].root = root /\ f[k].stack = more.stack /\ f[k].dirs = d
    BY <2>3
  <2>5. IsSeq(f[m].dirs) /\ f[m].stack = Preload(root, dir, m).stack
        /\ \A i \in 1..m : f[m].dirs[i] = ScopeLevel(root, dir, i)
    BY <2>2 DEF ScopeTo
  <2>6. more = PushDirLayers(Preload(root, dir, m).stack, Level(root, dir, m + 1), root)
    BY <2>1, <2>5 DEF more
  <2>7. /\ Preload(root, dir, k).stack = more.stack
        /\ ScopeLevel(root, dir, k) = [dir |-> Level(root, dir, k), pushed |-> more.pushed]
    <3>1. /\ Preload(root, dir, m + 1).stack = more.stack
          /\ ScopeLevel(root, dir, m + 1) = [dir |-> Level(root, dir, m + 1), pushed |-> more.pushed]
      BY <2>1, <2>6, PreloadSteps
    <3> QED BY <2>1, <3>1
  <2>8. IsSeq(d) /\ Len(d) = k /\ d[k] = ScopeLevel(root, dir, k) /\ \A i \in 1..m : d[i] = f[m].dirs[i]
    <3>1. d = Append(f[m].dirs, ScopeLevel(root, dir, k))
      BY <2>7 DEF d
    <3>2. IsSeq(d) /\ Len(d) = m + 1 /\ d[m + 1] = ScopeLevel(root, dir, k) /\ \A i \in 1..m : d[i] = f[m].dirs[i]
      BY SMTT(60), <2>2, <2>5, <3>1, SeqGrows
    <3> QED BY <2>1, <3>2
  <2>9. \A i \in 1..k : d[i] = ScopeLevel(root, dir, i)
    <3>1. \A i \in 1..k : i = k \/ i \in 1..m
      BY <2>1
    <3> QED BY <2>5, <2>8, <3>1
  <2> QED BY <2>4, <2>7, <2>8, <2>9 DEF ScopeTo
<1> HIDE DEF P
<1>5. T = {}
  <2> SUFFICES ASSUME T # {} PROVE FALSE
    OBVIOUS
  <2>1. PICK k \in T : \A l \in T : k <= l
    <3>1. T \in SUBSET Nat
      OBVIOUS
    <3> HIDE DEF T
    <3> QED BY <3>1, Least
  <2>2. k # n /\ k - 1 \in Nat /\ k - 1 \in n..depth /\ ~(k <= k - 1)
    BY <1>1, <1>3, <2>1
  <2>3. P(k - 1)
    BY <2>1, <2>2
  <2> QED BY <1>4, <2>1, <2>2, <2>3
<1>6. P(depth)
  BY <1>1, <1>5
<1> QED BY <1>6 DEF P

(* The scope kept shares a way down, and its moves lead to the directory. *)
LEMMA ScopeEntered ==
    ASSUME NEW held, NEW dir \in Seq(Names),
           (held.dirs = <<>> /\ held.stack = EmptyStack) \/ \E d \in Seq(Names) : ScopeFor(held, d)
    PROVE  ScopeFor(EnterScope(held, dir), dir)
<1> DEFINE root == FormatRootOf(dir)
           kept == KeptScope(held, root)
           n == SharedWith(kept, dir)
           depth == Len(dir) - Len(root.path) + 1
           down == CHOOSE f : Moves(f, kept, root, dir, n, depth)
<1>1. root.path \in Seq(Names) /\ Above(root.path, dir) /\ Len(root.path) \in Nat /\ Len(dir) \in Nat
      /\ depth \in Nat
  <2>1. root.path \in Seq(Names) /\ Above(root.path, dir)
    BY RootIs
  <2>2. Len(root.path) \in Nat /\ Len(dir) \in Nat /\ Len(root.path) <= Len(dir)
    <3> HIDE DEF root
    <3> QED BY <2>1 DEF Above
  <2> QED BY <2>1, <2>2
<1>2. EnterScope(held, dir) = down[depth]
  BY DEF EnterScope, Moves, Moved, Base
<1>3. \E e \in Seq(Names) : ScopeTo(kept, root, e)
  <2>1. ASSUME kept.dirs = <<>>, kept.stack = EmptyStack, kept.root = root
        PROVE  ScopeTo(kept, root, dir)
    <3>1. IsSeq(<<>>)
      BY EmptyIsStack DEF IsStack, EmptyStack
    <3>2. Preload(root, dir, 0).stack = EmptyStack
      <4> HIDE DEF root
      <4>1. 0 \in Nat
        OBVIOUS
      <4> QED BY <4>1, PreloadSteps
    <3>3. Len(kept.dirs) = 0
      BY <2>1
    <3> HIDE DEF kept, root
    <3> QED BY <2>1, <3>1, <3>2, <3>3 DEF ScopeTo
  <2>2. CASE root # held.root
    <3>1. kept = [root |-> root, stack |-> EmptyStack, dirs |-> <<>>]
      BY <2>2 DEF KeptScope, NoScope
    <3>2. kept.dirs = <<>> /\ kept.stack = EmptyStack /\ kept.root = root
      <4> HIDE DEF kept, root
      <4> QED BY <3>1
    <3> QED BY <2>1, <3>2
  <2>3. CASE root = held.root
    <3>1. kept = held
      BY <2>3 DEF KeptScope
    <3>2. CASE held.dirs = <<>> /\ held.stack = EmptyStack
      BY <2>1, <2>3, <3>1, <3>2
    <3>3. CASE \E d \in Seq(Names) : ScopeFor(held, d)
      <4>1. PICK d \in Seq(Names) : ScopeFor(held, d)
        BY <3>3
      <4>2. ScopeTo(held, held.root, d)
        BY <4>1 DEF ScopeFor, ScopeTo
      <4> QED BY <2>3, <3>1, <4>2
    <3> QED BY <3>2, <3>3
  <2> QED BY <2>2, <2>3
<1>4. PICK e \in Seq(Names) : ScopeTo(kept, root, e)
  BY <1>3
<1> HIDE DEF root, kept, depth, down
<1>5. IsSeq(kept.dirs) /\ Len(kept.dirs) \in Nat /\ kept.root = root
      /\ \A k \in 1..Len(kept.dirs) : kept.dirs[k].dir = Level(root, e, k)
  <2>1. IsSeq(kept.dirs) /\ Len(kept.dirs) \in Nat /\ kept.root = root
        /\ \A k \in 1..Len(kept.dirs) : kept.dirs[k] = ScopeLevel(root, e, k)
    BY <1>4 DEF ScopeTo, IsSeq
  <2>2. \A k : ScopeLevel(root, e, k).dir = Level(root, e, k)
    BY DEF ScopeLevel, Level
  <2> QED BY <2>1, <2>2
<1>6. /\ n \in 0..Len(kept.dirs)
      /\ \A i \in 1..n : /\ Len(root.path) + i - 1 <= Len(dir)
                         /\ kept.dirs[i].dir = Prefix(dir, Len(root.path) + i - 1)
  <2> DEFINE Shares(m) == \A i \in 1..m : LET k == Len(kept.root.path) + i - 1
                                          IN  k <= Len(dir) /\ kept.dirs[i].dir = Prefix(dir, k)
             all == {m \in 0..Len(kept.dirs) : Shares(m)}
  <2>1. n = LastOf(all)
    BY DEF SharedWith
  <2>2. 0 \in all
    BY <1>5
  <2>3. all \in SUBSET (0..Len(kept.dirs)) /\ all # {}
    BY <2>2
  <2>4. LastOf(all) \in all
    <3> HIDE DEF all
    <3> QED BY <1>5, <2>3, Greatest
  <2> HIDE DEF n
  <2> QED BY <1>5, <2>1, <2>4
<1> HIDE DEF n
<1>7. \A k \in 1..n : Level(root, dir, k) = Level(root, e, k)
  BY SMTT(60), <1>5, <1>6 DEF Level
<1>8. n \in Nat /\ n <= depth
  <2>1. CASE n = 0
    BY <1>1, <2>1
  <2>2. CASE n # 0
    <3>1. n \in 1..n /\ n \in Nat
      BY <1>5, <1>6, <2>2
    <3>2. Len(root.path) + n - 1 <= Len(dir)
      BY <1>6, <3>1
    <3> QED BY <1>1, <3>1, <3>2 DEF depth
  <2> QED BY <2>1, <2>2
<1>9. Moves(down, kept, root, dir, n, depth)
  <2>1. \E f : Moves(f, kept, root, dir, n, depth)
    BY <1>1, <1>8, MovesSome
  <2> QED BY <2>1 DEF down
<1>10. ScopeTo(down[depth], root, dir) /\ Len(down[depth].dirs) = depth
  BY <1>1, <1>4, <1>6, <1>7, <1>8, <1>9, MovesTo
<1>11. ScopeFor(down[depth], dir)
  BY <1>10 DEF ScopeTo, ScopeFor, root, depth
<1> QED BY <1>2, <1>11

---------------------------------------------------------------------------
(* What a walk starts with, and what it goes on with *)

LEMMA WalkNone ==
    ASSUME NEW fs, fs = <<>>, NEW st, NEW root, NEW arg
    PROVE  Walk(fs, st, root, arg) /\ \A p : Ahead(fs, p)
<1>1. IsSeq(fs) /\ Len(fs) = 0
  BY EmptyIsStack DEF IsStack, EmptyStack
<1> QED BY <1>1 DEF Walk, Ahead

LEMMA WalkStarts ==
    ASSUME NEW arg, arg.path \in Seq(Names), Canonical(arg.path) \in Dirs,
           NEW pushed, NEW active, NEW frame,
           frame = [dir |-> arg.path, todo |-> Entries(arg.path), pushed |-> pushed, active |-> active]
    PROVE  Walk(Append(<<>>, frame), FullStack(FormatRootOf(arg.path), arg.path),
                FormatRootOf(arg.path), arg)
<1> DEFINE fs == Append(<<>>, frame)
           root == FormatRootOf(arg.path)
<1>1. IsSeq(<<>>) /\ Len(<<>>) = 0
  BY EmptyIsStack DEF IsStack, EmptyStack
<1>2. IsSeq(fs) /\ Len(fs) = 1 /\ fs[1] = frame
  <2>1. IsSeq(fs) /\ Len(fs) = Len(<<>>) + 1 /\ fs[Len(<<>>) + 1] = frame
    BY ZenonT(60), <1>1, SeqGrows
  <2> HIDE DEF fs
  <2> QED BY <1>1, <2>1
<1>3. /\ frame = [dir |-> frame.dir, todo |-> frame.todo, pushed |-> frame.pushed, active |-> frame.active]
      /\ frame.dir = arg.path /\ frame.todo = Entries(arg.path)
  OBVIOUS
<1>4. Under(arg, arg.path)
  BY UnderSelf
<1> HIDE DEF fs, root
<1>5. FrameStands(fs, 1, root, arg)
  BY <1>2, <1>3, <1>4 DEF FrameStands
<1>6. Walk(fs, FullStack(root, arg.path), root, arg)
  <2>1. \A i \in 1..Len(fs) : i = 1
    BY <1>2
  <2> QED BY <1>2, <1>3, <1>5, <2>1 DEF Walk, root
<1> QED BY <1>6 DEF fs, root

(* A listed directory opened in its place. *)
LEMMA WalkDeeper ==
    ASSUME NEW fs, NEW st, NEW root, NEW arg, Walk(fs, st, root, arg), fs # <<>>,
           arg.path \in Seq(Names), NEW name, name \in fs[Len(fs)].todo,
           NEW gs, CrossedOff(fs, name, gs),
           NEW dir, dir = Append(fs[Len(fs)].dir, name), Canonical(dir) \in Dirs,
           NEW active, NEW frame,
           frame = [dir |-> dir, todo |-> Entries(dir),
                    pushed |-> PushLayers(st, dir, root).pushed, active |-> active]
    PROVE  Walk(Append(gs, frame), PushLayers(st, dir, root).stack, root, arg)
<1> DEFINE n == Len(fs)
           top == fs[n].dir
<1>1. n \in 1..n /\ n \in Nat /\ root = FormatRootOf(arg.path) /\ st = FullStack(root, top)
  BY LastFrame DEF Walk, IsSeq
<1>2. /\ Walk(gs, st, root, arg) /\ Len(gs) = n /\ gs # <<>>
      /\ \A i \in 1..n : gs[i].dir = fs[i].dir
      /\ gs[n].todo = fs[n].todo \ {name}
  BY Crossed
<1>3. top \in Seq(Names) /\ name \in Entries(top) /\ Canonical(top) \in Dirs /\ Under(arg, top)
  BY <1>1, FramesAre
<1>4. dir = Append(top, name)
  OBVIOUS
<1> HIDE DEF n, top
<1>5. name \in Names /\ dir \in Seq(Names) /\ Canonical(dir) = Append(Canonical(top), name)
  BY <1>3, <1>4, EntryIs
<1>6. dir # <<>> /\ Parent(dir) = top /\ Name(dir) = name
  <2>1. top \in Seq(Names) /\ name \in Names
    BY <1>3, <1>5
  <2>2. /\ Append(top, name) # <<>> /\ Parent(Append(top, name)) = top
        /\ Name(Append(top, name)) = name
    BY SMTT(60), <2>1, Appended
  <2> QED BY <1>4, <2>2
<1>7. Under(arg, dir)
  BY <1>3, <1>4, <1>5, UnderChild
<1>8. root.path \in Seq(Names) /\ Above(root.path, top)
  <2>1. root.path \in Seq(Names) /\ Above(root.path, arg.path)
    BY <1>1, RootIs
  <2>2. Above(arg.path, top)
    BY <1>3 DEF Under
  <2> QED BY <1>3, <2>1, <2>2, AboveOrder
<1>9. FullStack(root, dir) = PushLayers(st, dir, root).stack
  <2>1. FullStack(root, Append(top, name)) = PushLayers(FullStack(root, top), Append(top, name), root).stack
    BY <1>3, <1>5, <1>8, FullStackChild
  <2> QED BY <1>1, <1>4, <2>1
<1>10. /\ frame = [dir |-> frame.dir, todo |-> frame.todo, pushed |-> frame.pushed, active |-> frame.active]
       /\ frame.dir = dir /\ frame.todo = Entries(dir) /\ frame.pushed = PushLayers(st, dir, root).pushed
  OBVIOUS
<1> DEFINE hs == Append(gs, frame)
<1>11. hs[n + 1] = frame /\ hs[n] = gs[n]
  <2>1. IsSeq(gs)
    BY <1>2 DEF Walk
  <2> QED BY <1>1, <1>2, <2>1, SeqGrows
<1> HIDE DEF hs
<1>12. hs[n].dir = top /\ name \notin hs[n].todo
  BY SMTT(60), <1>1, <1>2, <1>11 DEF top
<1>13. FrameStands(hs, n + 1, root, arg)
  <2>1. (n + 1) - 1 = n
    BY <1>1
  <2>2. frame.pushed = PushLayers(FullStack(root, top), dir, root).pushed
    BY <1>1, <1>10
  <2> QED BY <1>5, <1>6, <1>7, <1>10, <1>11, <1>12, <2>1, <2>2 DEF FrameStands
<1>14. Walk(Append(gs, frame), FullStack(root, frame.dir), root, arg)
  <2>1. FrameStands(Append(gs, frame), Len(gs) + 1, root, arg)
    BY <1>2, <1>13 DEF hs
  <2> QED BY <1>2, <2>1, FrameOpened
<1> QED BY <1>9, <1>10, <1>14

---------------------------------------------------------------------------
(* The bag of what is found *)

LEMMA OneMore ==
    ASSUME NEW B, NEW e
    PROVE  /\ DOMAIN (B (+) SetToBag({e})) = DOMAIN B \cup {e}
           /\ e \notin DOMAIN B => (B (+) SetToBag({e}))[e] = 1
           /\ \A x \in DOMAIN B : x # e /\ B[x] = 1 => (B (+) SetToBag({e}))[x] = 1
BY DEF (+), SetToBag, BagToSet, EmptyBag

---------------------------------------------------------------------------
(* The steps *)

LEMMA ArgumentIs ==
    ASSUME ArgsStand, NEW i \in 1..Len(args)
    PROVE  /\ args[i].kind \in {"dir", "file"} /\ args[i].path \in Seq(Names)
           /\ args[i].kind = "dir" => Canonical(args[i].path) \in Dirs
           /\ args[i].kind = "file" => args[i].path \in Files
<1>1. args[i] \in Arguments
  BY DEF ArgsStand
<1> DEFINE a == args[i]
<1> HIDE DEF a
<1>2. \/ a.kind = "dir" /\ a.path \in Dirs \cup DOMAIN LinkTo
      \/ a.kind = "file" /\ a.path \in Files
  BY <1>1 DEF Arguments, a
<1>3. a.path \in Seq(Names)
  BY <1>2, TreeTypes
<1>4. a.kind = "dir" => Canonical(a.path) \in Dirs
  BY <1>2, CanonicalIs, TreeTypes
<1> QED BY <1>2, <1>3, <1>4 DEF a

LEMMA Entered ==
    ASSUME ArgsStand, FoundStands, NEW kinds, NextArg(kinds), args' = args
    PROVE  /\ frames = <<>> /\ at + 1 \in 1..Len(args) /\ at' = at + 1 /\ args[at + 1].kind \in kinds
           /\ ArgsStand' /\ TakenOnce'
           /\ Len(args) = 1 => DOMAIN found = {}
<1>1. /\ frames = <<>> /\ at < Len(args) /\ args[at + 1].kind \in kinds /\ at' = at + 1
      /\ at \in Nat /\ args \in Seq(Arguments) /\ Len(args) \in Nat
  BY DEF NextArg, ArgsStand
<1>2. at + 1 \in 1..Len(args)
  BY <1>1
<1>3. ArgsStand'
  BY <1>1 DEF ArgsStand
<1>4. TakenOnce'
  BY <1>1 DEF TakenOnce, Done
<1>5. Len(args) = 1 => DOMAIN found = {}
  <2>1. ASSUME Len(args) = 1, NEW p \in DOMAIN found PROVE FALSE
    <3>1. PICK i \in 1..Len(args) : i <= at
      BY DEF FoundStands
    <3> QED BY <1>1, <2>1, <3>1
  <2> QED BY <2>1
<1> QED BY <1>1, <1>2, <1>3, <1>4, <1>5

(* The walk's part of the invariant for what the next state holds. *)
LEMMA WalkNext ==
    ASSUME disk' = disk, args' = args, Walk(frames', stack', formatRoot', args[at']),
           frames' # <<>> => at' \in 1..Len(args) /\ args[at'].kind = "dir"
    PROVE  WalkStands'
<1>1. Walk(frames, stack, formatRoot, args[at])' <=> Walk(frames', stack', formatRoot', args'[at'])
  BY WalkKept
<1> QED BY <1>1 DEF WalkStands

LEMMA ScopeNext ==
    ASSUME disk' = disk, scope' = scope, ScopeStands
    PROVE  ScopeStands'
<1>1. CASE scope.dirs = <<>> /\ scope.stack = EmptyStack
  BY <1>1 DEF ScopeStands
<1>2. CASE \E dir \in Seq(Names) : ScopeFor(scope, dir)
  <2>1. PICK dir \in Seq(Names) : ScopeFor(scope, dir)
    BY <1>2
  <2>2. ScopeFor(scope, dir)'
    BY <2>1, ScopeKept
  <2> QED BY <2>2 DEF ScopeStands
<1> QED BY <1>1, <1>2 DEF ScopeStands

(* What is found stays found under its argument. *)
LEMMA FoundNext ==
    ASSUME args' = args, found' = found, FoundStands, at \in Nat, at' \in Nat, at <= at',
           Len(args) = 1 => \A p \in DOMAIN found : p \in Seq(Names) /\ Ahead(frames, p) => Ahead(frames', p)
    PROVE  FoundStands'
<1>1. ASSUME NEW p \in DOMAIN found
      PROVE  /\ p \in Seq(Names) /\ Canonical(p) \in Files
             /\ \E i \in 1..Len(args) : i <= at' /\ Under(args[i], p)
  <2>1. /\ p \in Seq(Names) /\ Canonical(p) \in Files
        /\ \E i \in 1..Len(args) : i <= at /\ Under(args[i], p)
    BY DEF FoundStands
  <2>2. PICK i \in 1..Len(args) : i <= at /\ Under(args[i], p)
    BY <2>1
  <2>3. i <= at'
    BY <2>2
  <2> QED BY <2>1, <2>2, <2>3
<1>2. Len(args) = 1 => \A p \in DOMAIN found : found[p] = 1 /\ Ahead(frames', p)
  BY <1>1 DEF FoundStands
<1> QED BY <1>1, <1>2 DEF FoundStands

LEMMA OpenIs ==
    ASSUME NEW dir, NEW outer, NEW isTarget, NEW active, NEW st, NEW root, NEW raised,
           Open(dir, outer, isTarget, active, st, root, raised)
    PROVE  \/ frames' = outer /\ stack' = st
           \/ /\ frames' = Append(outer, [dir |-> dir, todo |-> Entries(dir),
                                          pushed |-> PushLayers(st, dir, root).pushed,
                                          active |-> ChildHeuristic(active, PushLayers(st, dir, root).pushed)])
              /\ stack' = PushLayers(st, dir, root).stack
BY DEF Open

LEMMA InitStands == Init => DiscoverInv
<1> SUFFICES ASSUME Init PROVE DiscoverInv
  OBVIOUS
<1>1. ArgsStand
  BY TreeAssumption DEF Init, ArgsStand
<1>2. WalkStands
  BY WalkNone DEF Init, WalkStands
<1>3. ScopeStands
  BY DEF Init, ScopeStands, NoScope
<1>4. FoundStands
  <2>1. DOMAIN found = {}
    BY DEF Init, EmptyBag, SetToBag
  <2> QED BY <2>1 DEF FoundStands
<1>5. TakenOnce
  BY DEF Init, TakenOnce
<1> QED BY <1>1, <1>2, <1>3, <1>4, <1>5 DEF DiscoverInv

LEMMA CollectRootStands ==
    ASSUME DiscoverInv, CollectRoot
    PROVE  DiscoverInv'
<1> DEFINE arg == args[at + 1]
           root == FormatRootOf(arg.path)
           above == Preload(root, arg.path, Len(arg.path) - Len(root.path))
           link == arg.path \in DOMAIN LinkTo
           own == PushLayers(above.stack, arg.path, root)
<1>1. /\ NextArg({"dir"}) /\ EnterRoot(arg, root, above)
      /\ disk' = disk /\ args' = args /\ scope' = scope /\ found' = found /\ files' = files
  BY DEF CollectRoot
<1>2. ArgsStand /\ ScopeStands /\ FoundStands
  BY DEF DiscoverInv
<1>3. /\ frames = <<>> /\ at + 1 \in 1..Len(args) /\ at' = at + 1 /\ arg.kind = "dir"
      /\ ArgsStand' /\ TakenOnce' /\ (Len(args) = 1 => DOMAIN found = {})
  BY <1>1, <1>2, Entered
<1>4. arg.path \in Seq(Names) /\ Canonical(arg.path) \in Dirs
  <2> DEFINE i == at + 1
  <2>1. i \in 1..Len(args) /\ args[i].kind = "dir"
    BY <1>3
  <2> HIDE DEF i
  <2>2. args[i].path \in Seq(Names) /\ Canonical(args[i].path) \in Dirs
    BY <1>2, <2>1, ArgumentIs
  <2> QED BY <2>2 DEF i
<1> HIDE DEF arg
<1>5. root.path \in Seq(Names) /\ Above(root.path, arg.path)
  BY <1>4, RootIs
<1>6. formatRoot' = root
  BY <1>1 DEF EnterRoot
<1>7. Walk(frames', stack', root, arg)
  <2>1. CASE RootExcluded(above.stack, RelTo(root, arg.path), ~link)
    <3>1. frames' = <<>>
      BY <1>1, <1>3, <2>1 DEF EnterRoot
    <3> QED BY <3>1, WalkNone
  <2>2. CASE ~RootExcluded(above.stack, RelTo(root, arg.path), ~link)
    <3>1. own.stack = FullStack(root, arg.path)
      <4>1. (~link) \in BOOLEAN
        OBVIOUS
      <4> HIDE DEF root, link
      <4> QED BY <1>4, <1>5, <2>2, <4>1, RootStack
    <3>2. Open(arg.path, <<>>, TRUE, above.active, above.stack, root, warned \cup above.warned)
      BY <1>1, <2>2 DEF EnterRoot
    <3> DEFINE frame == [dir |-> arg.path, todo |-> Entries(arg.path), pushed |-> own.pushed,
                         active |-> ChildHeuristic(above.active, own.pushed)]
    <3>3. \/ frames' = <<>>
          \/ frames' = Append(<<>>, frame) /\ stack' = own.stack
      BY <3>2, OpenIs
    <3>4. CASE frames' = <<>>
      BY <3>4, WalkNone
    <3>5. CASE frames' = Append(<<>>, frame) /\ stack' = own.stack
      <4>1. Walk(Append(<<>>, frame), FullStack(root, arg.path), root, arg)
        BY <1>4, WalkStarts
      <4> HIDE DEF frame, own, root
      <4> QED BY <3>1, <3>5, <4>1
    <3> QED BY <3>3, <3>4, <3>5
  <2> QED BY <2>1, <2>2
<1>8. WalkStands'
  <2>1. args[at'] = arg
    BY <1>3 DEF arg
  <2>2. at' \in 1..Len(args) /\ args[at'].kind = "dir"
    BY <1>3, <2>1
  <2> HIDE DEF root
  <2> QED BY <1>1, <1>6, <1>7, <2>1, <2>2, WalkNext
<1>9. ScopeStands'
  BY <1>1, <1>2, ScopeNext
<1>10. FoundStands'
  <2>1. at \in Nat /\ at' \in Nat /\ at <= at'
    BY <1>2, <1>3 DEF ArgsStand
  <2> QED BY <1>1, <1>2, <1>3, <2>1, FoundNext
<1> QED BY <1>3, <1>8, <1>9, <1>10 DEF DiscoverInv

(* Where a step within a walk is taken. *)
LEMMA Walking ==
    ASSUME DiscoverInv, frames # <<>>
    PROVE  /\ Walk(frames, stack, formatRoot, args[at]) /\ at \in 1..Len(args) /\ at \in Nat
           /\ args[at].kind = "dir" /\ args[at].path \in Seq(Names)
           /\ Len(frames) \in 1..Len(frames) /\ Top = frames[Len(frames)]
           /\ Top.dir \in Seq(Names) /\ Canonical(Top.dir) \in Dirs /\ Under(args[at], Top.dir)
           /\ Top.todo \subseteq Entries(Top.dir)
<1>1. ArgsStand /\ Walk(frames, stack, formatRoot, args[at]) /\ at \in 1..Len(args) /\ args[at].kind = "dir"
  BY DEF DiscoverInv, WalkStands
<1>2. at \in Nat /\ args[at].path \in Seq(Names)
  BY <1>1, ArgumentIs DEF ArgsStand
<1>3. Len(frames) \in 1..Len(frames) /\ Top = frames[Len(frames)]
  BY <1>1, LastFrame DEF Walk, Top
<1>4. /\ Top.dir \in Seq(Names) /\ Canonical(Top.dir) \in Dirs /\ Under(args[at], Top.dir)
      /\ Top.todo \subseteq Entries(Top.dir)
  <2> DEFINE n == Len(frames)
  <2>1. n \in 1..Len(frames)
    BY <1>3
  <2> HIDE DEF n
  <2>2. /\ frames[n].dir \in Seq(Names) /\ Canonical(frames[n].dir) \in Dirs /\ Under(args[at], frames[n].dir)
        /\ frames[n].todo \subseteq Entries(frames[n].dir)
    BY <1>1, <2>1, FramesAre
  <2> QED BY <1>3, <2>2 DEF n
<1> QED BY <1>1, <1>2, <1>3, <1>4

LEMMA VisitDirStands ==
    ASSUME DiscoverInv, VisitDir
    PROVE  DiscoverInv'
<1>1. PICK name \in Top.todo :
        /\ Canonical(Child(name)) \in Dirs
        /\ \/ Open(Child(name), TodoWithout(name), FALSE, Top.active, stack, formatRoot, warned)
           \/ frames' = TodoWithout(name) /\ stack' = stack
  BY DEF VisitDir
<1>2. /\ frames # <<>> /\ disk' = disk /\ args' = args /\ at' = at /\ formatRoot' = formatRoot
      /\ scope' = scope /\ found' = found /\ files' = files
  BY DEF VisitDir
<1>3. ArgsStand /\ ScopeStands /\ FoundStands /\ TakenOnce
  BY DEF DiscoverInv
<1> DEFINE dir == Child(name)
           gs == TodoWithout(name)
           arg == args[at]
           frame == [dir |-> dir, todo |-> Entries(dir),
                     pushed |-> PushLayers(stack, dir, formatRoot).pushed,
                     active |-> ChildHeuristic(Top.active, PushLayers(stack, dir, formatRoot).pushed)]
<1>4. /\ Walk(frames, stack, formatRoot, arg) /\ at \in 1..Len(args) /\ at \in Nat
      /\ arg.kind = "dir" /\ arg.path \in Seq(Names) /\ Top = frames[Len(frames)]
  BY <1>2, Walking
<1>5. CrossedOff(frames, name, gs)
  BY DEF CrossedOff, TodoWithout
<1>6. dir = Append(frames[Len(frames)].dir, name) /\ name \in frames[Len(frames)].todo
  BY <1>1, <1>4 DEF Child
<1>7. \/ frames' = gs /\ stack' = stack
      \/ frames' = Append(gs, frame) /\ stack' = PushLayers(stack, dir, formatRoot).stack
  <2>1. Open(dir, gs, FALSE, Top.active, stack, formatRoot, warned) =>
          \/ frames' = gs /\ stack' = stack
          \/ frames' = Append(gs, frame) /\ stack' = PushLayers(stack, dir, formatRoot).stack
    <3> HIDE DEF dir, gs
    <3> QED BY OpenIs
  <2> QED BY <1>1, <2>1
<1>8. frame.dir = dir /\ frame.todo = Entries(dir)
  OBVIOUS
<1>9. Canonical(dir) \in Dirs
  BY <1>1
<1>10. Walk(gs, stack, formatRoot, arg)
  <2> HIDE DEF gs, arg
  <2> QED BY <1>2, <1>4, <1>5, Crossed
<1>11. Walk(Append(gs, frame), PushLayers(stack, dir, formatRoot).stack, formatRoot, arg)
  <2> DEFINE a == ChildHeuristic(Top.active, PushLayers(stack, dir, formatRoot).pushed)
  <2>1. frame = [dir |-> dir, todo |-> Entries(dir),
                 pushed |-> PushLayers(stack, dir, formatRoot).pushed, active |-> a]
    OBVIOUS
  <2> HIDE DEF gs, arg, dir, frame, a
  <2> QED BY <1>2, <1>4, <1>5, <1>6, <1>9, <2>1, WalkDeeper
<1>12. ASSUME NEW p \in Seq(Names), Ahead(frames, p) PROVE Ahead(gs, p) /\ Ahead(Append(gs, frame), p)
  <2> HIDE DEF gs, arg, dir, frame
  <2>1. Ahead(gs, p)
    BY <1>2, <1>4, <1>5, <1>12, CrossedAhead
  <2>2. Ahead(Append(gs, frame), p)
    <3>1. frame.dir = Append(frames[Len(frames)].dir, name) /\ Canonical(frame.dir) \in Dirs
          /\ frame.todo \subseteq Entries(frame.dir)
      BY <1>6, <1>8, <1>9
    <3> QED BY <1>2, <1>4, <1>5, <1>6, <1>12, <3>1, StillNotAhead
  <2> QED BY <2>1, <2>2
<1> HIDE DEF dir, gs, frame
<1>13. Walk(frames', stack', formatRoot', args[at'])
  BY <1>2, <1>7, <1>10, <1>11
<1>14. WalkStands'
  BY <1>2, <1>4, <1>13, WalkNext
<1>15. ScopeStands'
  BY <1>2, <1>3, ScopeNext
<1>16. FoundStands'
  <2>1. \A p \in DOMAIN found : p \in Seq(Names) /\ Ahead(frames, p) => Ahead(frames', p)
    BY <1>7, <1>12
  <2>2. at' \in Nat /\ at <= at'
    BY <1>2, <1>4
  <2> QED BY <1>2, <1>3, <1>4, <2>1, <2>2, FoundNext
<1>17. ArgsStand' /\ TakenOnce'
  BY <1>2, <1>3 DEF ArgsStand, TakenOnce, Done
<1> QED BY <1>14, <1>15, <1>16, <1>17 DEF DiscoverInv

(* What a file found adds. *)
LEMMA FoundMore ==
    ASSUME args' = args, FoundStands, at' \in Nat, at \in Nat, at <= at', NEW file \in Seq(Names),
           Canonical(file) \in Files, found' = found (+) SetToBag({file}),
           NEW i \in 1..Len(args), i <= at', Under(args[i], file),
           Len(args) = 1 => /\ file \notin DOMAIN found /\ Ahead(frames', file)
                            /\ \A p \in DOMAIN found : p \in Seq(Names) /\ Ahead(frames, p) => Ahead(frames', p)
    PROVE  FoundStands'
<1>1. /\ DOMAIN (found') = DOMAIN found \cup {file}
      /\ file \notin DOMAIN found => (found')[file] = 1
      /\ \A x \in DOMAIN found : x # file /\ found[x] = 1 => (found')[x] = 1
  <2> DEFINE B == found (+) SetToBag({file})
  <2>1. /\ DOMAIN B = DOMAIN found \cup {file}
        /\ file \notin DOMAIN found => B[file] = 1
        /\ \A x \in DOMAIN found : x # file /\ found[x] = 1 => B[x] = 1
    BY ZenonT(60), OneMore
  <2>2. found' = B
    OBVIOUS
  <2> HIDE DEF B
  <2> QED BY <2>1, <2>2
<1>2. ASSUME NEW p \in DOMAIN found
      PROVE  /\ p \in Seq(Names) /\ Canonical(p) \in Files
             /\ \E j \in 1..Len(args) : j <= at' /\ Under(args[j], p)
  <2>1. /\ p \in Seq(Names) /\ Canonical(p) \in Files
        /\ \E j \in 1..Len(args) : j <= at /\ Under(args[j], p)
    BY DEF FoundStands
  <2>2. PICK j \in 1..Len(args) : j <= at /\ Under(args[j], p)
    BY <2>1
  <2>3. j <= at'
    BY <2>2
  <2> QED BY <2>1, <2>2, <2>3
<1>3. ASSUME NEW p \in DOMAIN (found')
      PROVE  /\ p \in Seq(Names) /\ Canonical(p) \in Files
             /\ \E j \in 1..Len(args) : j <= at' /\ Under(args[j], p)
  BY <1>1, <1>2
<1>4. ASSUME Len(args) = 1, NEW p \in DOMAIN (found') PROVE (found')[p] = 1 /\ Ahead(frames', p)
  <2>1. CASE p = file
    BY <1>1, <1>4, <2>1
  <2>2. CASE p # file
    <3>1. p \in DOMAIN found /\ p \in Seq(Names)
      BY <1>1, <1>2, <2>2
    <3>2. found[p] = 1 /\ Ahead(frames, p)
      BY <1>4, <3>1 DEF FoundStands
    <3> QED BY <1>1, <1>4, <2>2, <3>1, <3>2
  <2> QED BY <2>1, <2>2
<1> QED BY <1>3, <1>4 DEF FoundStands

LEMMA VisitFileStands ==
    ASSUME DiscoverInv, VisitFile
    PROVE  DiscoverInv'
<1>1. PICK name \in Top.todo :
        /\ Canonical(Child(name)) \in Files
        /\ frames' = TodoWithout(name)
        /\ \/ found' = found
           \/ found' = found (+) SetToBag({Child(name)})
  BY DEF VisitFile
<1>2. /\ frames # <<>> /\ disk' = disk /\ args' = args /\ at' = at /\ formatRoot' = formatRoot
      /\ scope' = scope /\ stack' = stack /\ files' = files
  BY DEF VisitFile
<1>3. ArgsStand /\ ScopeStands /\ FoundStands /\ TakenOnce
  BY DEF DiscoverInv
<1> DEFINE file == Child(name)
           gs == TodoWithout(name)
           arg == args[at]
<1>4. /\ Walk(frames, stack, formatRoot, arg) /\ at \in 1..Len(args) /\ at \in Nat
      /\ arg.kind = "dir" /\ arg.path \in Seq(Names) /\ Top = frames[Len(frames)]
      /\ Top.dir \in Seq(Names) /\ Canonical(Top.dir) \in Dirs /\ Under(arg, Top.dir)
      /\ Top.todo \subseteq Entries(Top.dir) /\ Len(frames) \in 1..Len(frames)
  BY <1>2, Walking
<1>5. CrossedOff(frames, name, gs)
  BY DEF CrossedOff, TodoWithout
<1>6. file = Append(Top.dir, name) /\ name \in frames[Len(frames)].todo
  BY <1>1, <1>4 DEF Child
<1>7. file \in Seq(Names) /\ Under(arg, file) /\ Above(file, file)
  <2> DEFINE d == Top.dir
  <2>1. d \in Seq(Names) /\ Canonical(d) \in Dirs /\ name \in Entries(d) /\ Under(arg, d)
    BY <1>4
  <2>2. file = Append(d, name)
    BY <1>6
  <2> HIDE DEF file, d, arg
  <2>3. name \in Names /\ file \in Seq(Names) /\ Canonical(file) = Append(Canonical(d), name)
    BY <2>1, <2>2, EntryIs
  <2>4. Under(arg, file)
    BY <1>4, <2>1, <2>2, <2>3, UnderChild
  <2>5. Above(file, file)
    BY <2>3, AboveOrder
  <2> QED BY <2>3, <2>4, <2>5
<1>8. Walk(gs, stack, formatRoot, arg)
  <2> HIDE DEF gs, arg
  <2> QED BY <1>2, <1>4, <1>5, Crossed
<1>9. \A p : Ahead(frames, p) => Ahead(gs, p)
  <2> HIDE DEF gs, arg
  <2> QED BY <1>2, <1>4, <1>5, CrossedAhead
<1>10. Ahead(gs, file)
  <2>1. file = Append(frames[Len(frames)].dir, name)
    BY <1>4, <1>6
  <2> HIDE DEF gs, arg, file
  <2> QED BY <1>2, <1>4, <1>5, <1>6, <2>1, NotAhead
<1>11. Len(args) = 1 => file \notin DOMAIN found
  <2>1. ASSUME Ahead(frames, file) PROVE FALSE
    <3>1. ~Above(Append(frames[Len(frames)].dir, name), file)
      <4> HIDE DEF file
      <4> QED BY <1>4, <1>6, <2>1 DEF Ahead
    <3>2. file = Append(frames[Len(frames)].dir, name)
      BY <1>4, <1>6
    <3> HIDE DEF file
    <3> QED BY <1>7, <3>1, <3>2
  <2> HIDE DEF file
  <2> QED BY <1>3, <2>1 DEF FoundStands
<1>12. Canonical(file) \in Files /\ frames' = gs /\ (found' = found \/ found' = found (+) SetToBag({file}))
  BY <1>1
<1>13. at' \in Nat /\ at <= at'
  BY <1>2, <1>4
<1> HIDE DEF file, gs
<1>14. FoundStands'
  <2>1. CASE found' = found
    BY <1>2, <1>3, <1>4, <1>9, <1>12, <1>13, <2>1, FoundNext
  <2>2. CASE found' = found (+) SetToBag({file})
    <3>1. at <= at' /\ at \in 1..Len(args) /\ Under(args[at], file)
      BY <1>4, <1>7, <1>13
    <3>2. Len(args) = 1 => /\ file \notin DOMAIN found /\ Ahead(frames', file)
                           /\ \A p \in DOMAIN found : p \in Seq(Names) /\ Ahead(frames, p) => Ahead(frames', p)
      BY <1>9, <1>10, <1>11, <1>12
    <3> HIDE DEF arg
    <3> QED BY <1>2, <1>3, <1>4, <1>7, <1>12, <1>13, <2>2, <3>1, <3>2, FoundMore
  <2> QED BY <1>12, <2>1, <2>2
<1>15. WalkStands'
  <2>1. Walk(frames', stack', formatRoot', args[at'])
    BY <1>2, <1>8, <1>12
  <2> QED BY <1>2, <1>4, <2>1, WalkNext
<1>16. ScopeStands'
  BY <1>2, <1>3, ScopeNext
<1>17. ArgsStand' /\ TakenOnce'
  BY <1>2, <1>3 DEF ArgsStand, TakenOnce, Done
<1> QED BY <1>14, <1>15, <1>16, <1>17 DEF DiscoverInv

LEMMA LeaveStands ==
    ASSUME DiscoverInv, Leave
    PROVE  DiscoverInv'
<1>1. /\ frames # <<>> /\ stack' = PopFrom(Top.pushed, stack) /\ frames' = Prefix(frames, Len(frames) - 1)
      /\ disk' = disk /\ args' = args /\ at' = at /\ formatRoot' = formatRoot
      /\ scope' = scope /\ found' = found /\ files' = files
  BY DEF Leave
<1>2. ArgsStand /\ ScopeStands /\ FoundStands /\ TakenOnce
  BY DEF DiscoverInv
<1>3. /\ Walk(frames, stack, formatRoot, args[at]) /\ at \in 1..Len(args) /\ at \in Nat
      /\ args[at].kind = "dir" /\ args[at].path \in Seq(Names) /\ Top = frames[Len(frames)]
      /\ Len(frames) \in 1..Len(frames)
  BY <1>1, Walking
<1>4. /\ Walk(Prefix(frames, Len(frames) - 1), PopFrom(frames[Len(frames)].pushed, stack), formatRoot, args[at])
      /\ Len(Prefix(frames, Len(frames) - 1)) = Len(frames) - 1
      /\ \A i \in 1..(Len(frames) - 1) : Prefix(frames, Len(frames) - 1)[i] = frames[i]
  BY <1>1, <1>3, Left
<1>5. WalkStands'
  <2>1. Walk(frames', stack', formatRoot', args[at'])
    BY <1>1, <1>3, <1>4
  <2> QED BY <1>1, <1>3, <2>1, WalkNext
<1>6. \A p : Ahead(frames, p) => Ahead(frames', p)
  <2> DEFINE n == Len(frames)
             gs == frames'
  <2>1. n \in Nat /\ Len(gs) = n - 1 /\ \A i \in 1..(n - 1) : gs[i] = frames[i]
    BY <1>1, <1>3, <1>4 DEF Walk, IsSeq
  <2> HIDE DEF gs, n
  <2>2. ASSUME NEW p, Ahead(frames, p) PROVE Ahead(gs, p)
    <3>1. 1..(n - 1) \subseteq 1..n
      BY <2>1
    <3>2. \A i \in 1..n : \A m \in frames[i].todo : ~Above(Append(frames[i].dir, m), p)
      BY <2>2 DEF Ahead, n
    <3>3. \A i \in 1..(n - 1) : \A m \in gs[i].todo : ~Above(Append(gs[i].dir, m), p)
      BY <2>1, <3>1, <3>2
    <3> QED BY <2>1, <3>3 DEF Ahead
  <2> QED BY <2>2 DEF gs
<1>7. ScopeStands'
  BY <1>1, <1>2, ScopeNext
<1>8. FoundStands'
  <2>1. at' \in Nat /\ at <= at'
    BY <1>1, <1>3
  <2> QED BY <1>1, <1>2, <1>3, <1>6, <2>1, FoundNext
<1>9. ArgsStand' /\ TakenOnce'
  BY <1>1, <1>2 DEF ArgsStand, TakenOnce, Done
<1> QED BY <1>5, <1>7, <1>8, <1>9 DEF DiscoverInv

LEMMA CollectFileStands ==
    ASSUME DiscoverInv, CollectFile
    PROVE  DiscoverInv'
<1> DEFINE arg == args[at + 1]
           dir == Parent(arg.path)
           moved == EnterScope(scope, dir)
<1>1. /\ NextArg({"file"}) /\ GradeFile(arg, moved)
      /\ disk' = disk /\ args' = args /\ frames' = frames /\ stack' = stack /\ formatRoot' = formatRoot
      /\ files' = files
  BY DEF CollectFile
<1>2. ArgsStand /\ ScopeStands /\ FoundStands
  BY DEF DiscoverInv
<1>3. /\ frames = <<>> /\ at + 1 \in 1..Len(args) /\ at' = at + 1 /\ arg.kind = "file"
      /\ ArgsStand' /\ TakenOnce' /\ (Len(args) = 1 => DOMAIN found = {})
  BY <1>1, <1>2, Entered
<1>4. arg.path \in Files
  <2> DEFINE i == at + 1
  <2>1. i \in 1..Len(args) /\ args[i].kind = "file"
    BY <1>3
  <2> HIDE DEF i
  <2>2. args[i].path \in Files
    BY <1>2, <2>1, ArgumentIs
  <2> QED BY <2>2 DEF i
<1> HIDE DEF arg
<1>5. arg.path \in Seq(Names) /\ Canonical(arg.path) \in Files /\ dir \in Seq(Names) /\ Under(arg, arg.path)
  <2>1. arg.path \in Seq(Names) /\ arg.path # <<>>
    BY <1>4, TreeTypes
  <2>2. dir \in Seq(Names)
    BY <2>1, LastSplit
  <2>3. Canonical(arg.path) \in Files
    BY <1>4, CanonicalIs
  <2>4. Under(arg, arg.path)
    BY <2>1, UnderSelf
  <2> QED BY <2>1, <2>2, <2>3, <2>4
<1> HIDE DEF dir
<1>6. WalkStands'
  <2>1. frames' = <<>>
    BY <1>1, <1>3
  <2>2. Walk(frames', stack', formatRoot', args[at'])
    BY <2>1, WalkNone
  <2> QED BY <1>1, <2>1, <2>2, WalkNext
<1>7. ScopeStands'
  <2>1. ScopeFor(moved, dir)
    BY <1>2, <1>5, ScopeEntered DEF ScopeStands
  <2>2. scope' = [root |-> moved.root, stack |-> moved.stack, dirs |-> moved.dirs]
    BY <1>1 DEF GradeFile
  <2> HIDE DEF moved
  <2>3. (scope').root = moved.root /\ (scope').stack = moved.stack /\ (scope').dirs = moved.dirs
    BY <2>2
  <2> DEFINE sc == scope'
  <2>4. ScopeFor(sc, dir)
    <3> HIDE DEF sc
    <3>1. sc.root = moved.root /\ sc.stack = moved.stack /\ sc.dirs = moved.dirs
      BY <2>3 DEF sc
    <3> QED BY <2>1, <3>1 DEF ScopeFor
  <2>5. \E e \in Seq(Names) : ScopeFor(sc, e)
    BY <1>5, <2>4
  <2>6. (\E e \in Seq(Names) : ScopeFor(scope, e))' <=> \E e \in Seq(Names) : ScopeFor(sc, e)
    <3>1. \A e : ScopeFor(scope, e)' <=> ScopeFor(sc, e)
      BY <1>1, ScopeKept
    <3> QED BY <3>1
  <2> QED BY <2>5, <2>6 DEF ScopeStands
<1>8. FoundStands'
  <2>1. at \in Nat /\ at' \in Nat /\ at <= at'
    BY <1>2, <1>3 DEF ArgsStand
  <2>2. CASE found' = found
    <3>1. Len(args) = 1 => \A p \in DOMAIN found : p \in Seq(Names) /\ Ahead(frames, p) => Ahead(frames', p)
      BY <1>1
    <3> QED BY <1>1, <1>2, <2>1, <2>2, <3>1, FoundNext
  <2>3. CASE found' = found (+) SetToBag({arg.path})
    <3> DEFINE i == at + 1
               file == arg.path
    <3>1. i \in 1..Len(args) /\ i <= at' /\ Under(args[i], file)
      BY <1>3, <1>5, <2>1 DEF arg
    <3>2. Ahead(frames', file)
      <4>1. frames' = <<>>
        BY <1>1, <1>3
      <4> QED BY <4>1, WalkNone
    <3>3. Len(args) = 1 => /\ file \notin DOMAIN found /\ Ahead(frames', file)
                           /\ \A p \in DOMAIN found : p \in Seq(Names) /\ Ahead(frames, p) => Ahead(frames', p)
      BY <1>3, <3>2
    <3>4. file \in Seq(Names) /\ Canonical(file) \in Files /\ found' = found (+) SetToBag({file})
      BY <1>5, <2>3
    <3> HIDE DEF i, file
    <3> QED BY <1>1, <1>2, <2>1, <3>1, <3>3, <3>4, FoundMore
  <2> QED BY <1>1, <2>2, <2>3 DEF GradeFile
<1> QED BY <1>3, <1>6, <1>7, <1>8 DEF DiscoverInv

(* One spelling is kept where two arguments can overlap; elsewhere a file     *)
(* could be found under one of them alone, in one spelling.                  *)
LEMMA FinishStands ==
    ASSUME DiscoverInv, Finish
    PROVE  DiscoverInv'
<1> DEFINE spelled == DOMAIN found
           kept(c) == CHOOSE p \in spelled : Canonical(p) = c
<1>1. /\ frames = <<>> /\ at = Len(args) /\ at' = at + 1
      /\ disk' = disk /\ args' = args /\ frames' = frames /\ stack' = stack /\ formatRoot' = formatRoot
      /\ scope' = scope /\ found' = found
      /\ files' = IF RootsCanOverlap THEN {kept(Canonical(p)) : p \in spelled} ELSE spelled
  BY DEF Finish, BagToSet
<1>2. ArgsStand /\ ScopeStands /\ FoundStands
  BY DEF DiscoverInv
<1>3. at \in Nat /\ args \in Seq(Arguments)
  BY <1>2 DEF ArgsStand
<1>4. WalkStands'
  <2>1. frames' = <<>>
    BY <1>1
  <2>2. Walk(frames', stack', formatRoot', args[at'])
    BY <2>1, WalkNone
  <2> QED BY <1>1, <2>1, <2>2, WalkNext
<1>5. ScopeStands'
  BY <1>1, <1>2, ScopeNext
<1>6. FoundStands'
  <2>1. at' \in Nat /\ at <= at'
    BY <1>1, <1>3
  <2>2. \A p \in DOMAIN found : p \in Seq(Names) /\ Ahead(frames, p) => Ahead(frames', p)
    BY <1>1
  <2> QED BY <1>1, <1>2, <1>3, <2>1, <2>2, FoundNext
<1>7. ASSUME NEW p \in files', NEW q \in files', Canonical(p) = Canonical(q)
      PROVE  p = q
  <2>1. CASE RootsCanOverlap
    <3>1. \A r \in spelled : kept(Canonical(r)) \in spelled /\ Canonical(kept(Canonical(r))) = Canonical(r)
      OBVIOUS
    <3>2. PICK r \in spelled : p = kept(Canonical(r))
      BY <1>1, <2>1
    <3>3. PICK s \in spelled : q = kept(Canonical(s))
      BY <1>1, <2>1
    <3> HIDE DEF kept, spelled
    <3>4. Canonical(p) = Canonical(r) /\ Canonical(q) = Canonical(s)
      BY <3>1, <3>2, <3>3
    <3>5. Canonical(r) = Canonical(s)
      BY <1>7, <3>4
    <3> QED BY <3>2, <3>3, <3>5
  <2>2. CASE ~RootsCanOverlap
    <3>1. p \in DOMAIN found /\ q \in DOMAIN found
      BY <1>1, <2>2
    <3>2. p \in Seq(Names) /\ q \in Seq(Names)
      BY <1>2, <3>1 DEF FoundStands
    <3>3. PICK i \in 1..Len(args) : Under(args[i], p)
      BY <1>2, <3>1 DEF FoundStands
    <3>4. PICK j \in 1..Len(args) : Under(args[j], q)
      BY <1>2, <3>1 DEF FoundStands
    <3>5. args[i].path \in Seq(Names) /\ args[j].path \in Seq(Names)
      BY <1>2, ArgumentIs
    <3>6. /\ args[i].path = args[j].path => p = q
          /\ Above(Canonical(args[i].path), Canonical(args[j].path))
               \/ Above(Canonical(args[j].path), Canonical(args[i].path))
      <4> DEFINE a == args[i]
                 b == args[j]
      <4>1. a.path \in Seq(Names) /\ b.path \in Seq(Names) /\ Under(a, p) /\ Under(b, q)
        BY <3>3, <3>4, <3>5
      <4> HIDE DEF a, b
      <4>2. /\ a.path = b.path => p = q
            /\ Above(Canonical(a.path), Canonical(b.path)) \/ Above(Canonical(b.path), Canonical(a.path))
        BY <1>7, <3>2, <4>1, UnderTells
      <4> QED BY <4>2 DEF a, b
    <3>7. CASE i = j
      BY <3>6, <3>7
    <3>8. CASE i # j
      <4>1. DOMAIN args = 1..Len(args) /\ Len(args) \in Nat
        BY <1>3
      <4>2. Len(args) >= 2
        BY <3>8, <4>1
      <4>3. ~\E k, l \in DOMAIN args : k # l /\ Above(Canonical(args[k].path), Canonical(args[l].path))
        BY <2>2, <4>2 DEF RootsCanOverlap
      <4> QED BY <3>6, <3>8, <4>1, <4>3
    <3> QED BY <3>7, <3>8
  <2> QED BY <2>1, <2>2
<1>8. TakenOnce'
  BY <1>7 DEF TakenOnce
<1>9. ArgsStand'
  BY <1>1, <1>3 DEF ArgsStand
<1> QED BY <1>4, <1>5, <1>6, <1>8, <1>9 DEF DiscoverInv

LEMMA StutterStands ==
    ASSUME DiscoverInv, UNCHANGED vars
    PROVE  DiscoverInv'
<1>1. /\ disk' = disk /\ args' = args /\ at' = at /\ frames' = frames /\ stack' = stack
      /\ formatRoot' = formatRoot /\ scope' = scope /\ found' = found /\ files' = files
  BY DEF vars
<1>2. ArgsStand /\ WalkStands /\ ScopeStands /\ FoundStands /\ TakenOnce
  BY DEF DiscoverInv
<1>3. WalkStands'
  <2>1. Walk(frames', stack', formatRoot', args[at'])
        /\ (frames' # <<>> => at' \in 1..Len(args) /\ args[at'].kind = "dir")
    BY <1>1, <1>2 DEF WalkStands
  <2> QED BY <1>1, <2>1, WalkNext
<1>4. ScopeStands'
  BY <1>1, <1>2, ScopeNext
<1>5. ArgsStand' /\ FoundStands' /\ TakenOnce'
  BY <1>1, <1>2 DEF ArgsStand, FoundStands, TakenOnce, Done, Ahead
<1> QED BY <1>3, <1>4, <1>5 DEF DiscoverInv

---------------------------------------------------------------------------
(* The theorems *)

(* On every tree, under every content of its ignore files and for all         *)
(* arguments, the frames, the stack, the scope and what is found stand to     *)
(* each other as they should.                                                *)
THEOREM DiscoverInvariant == Spec => []DiscoverInv
<1>1. DiscoverInv /\ [Next]_vars => DiscoverInv'
  <2> SUFFICES ASSUME DiscoverInv, [Next]_vars PROVE DiscoverInv'
    OBVIOUS
  <2>1. CASE CollectRoot
    BY <2>1, CollectRootStands
  <2>2. CASE VisitDir
    BY <2>2, VisitDirStands
  <2>3. CASE VisitFile
    BY <2>3, VisitFileStands
  <2>4. CASE Leave
    BY <2>4, LeaveStands
  <2>5. CASE CollectFile
    BY <2>5, CollectFileStands
  <2>6. CASE Finish
    BY <2>6, FinishStands
  <2>7. CASE Stopped
    BY <2>7, StutterStands DEF Stopped
  <2>8. CASE UNCHANGED vars
    BY <2>8, StutterStands
  <2> QED BY <2>1, <2>2, <2>3, <2>4, <2>5, <2>6, <2>7, <2>8 DEF Next
<1> QED
  BY <1>1, InitStands, PTL DEF Spec

(* Whatever was pushed, popped and kept, the walk's stack is the whole stack  *)
(* of its directory, and the scope is the one read from nothing (the pops of  *)
(* Leave, the gate of a root, enter_scope).                                  *)
THEOREM StackStaysChain == Spec => []StackIsChain
<1>1. DiscoverInv => StackIsChain
  <2> SUFFICES ASSUME DiscoverInv PROVE StackIsChain
    OBVIOUS
  <2>1. frames # <<>> => stack = FullStack(formatRoot, Top.dir)
    BY DEF DiscoverInv, WalkStands, Walk, Top
  <2>2. ASSUME scope.dirs # <<>>
        PROVE  LET dir == scope.dirs[Len(scope.dirs)].dir
                   root == FormatRootOf(dir)
               IN  /\ scope.root = root
                   /\ scope.stack = Preload(root, dir, Len(dir) - Len(root.path) + 1).stack
    <3>1. PICK e \in Seq(Names) : ScopeFor(scope, e)
      BY <2>2 DEF DiscoverInv, ScopeStands
    <3> DEFINE root == FormatRootOf(e)
               n == Len(scope.dirs)
    <3>2. /\ scope.root = root /\ IsSeq(scope.dirs) /\ n = Len(e) - Len(root.path) + 1
          /\ scope.stack = Preload(root, e, n).stack
          /\ \A k \in 1..n : scope.dirs[k] = ScopeLevel(root, e, k)
      BY <3>1 DEF ScopeFor
    <3>3. root.path \in Seq(Names) /\ Above(root.path, e)
      BY RootIs
    <3> HIDE DEF root
    <3>4. Level(root, e, Len(e) - Len(root.path) + 1) = e
      BY <3>3, LastLevel
    <3>5. n \in 1..n
      BY <2>2, <3>2, LastFrame
    <3>6. scope.dirs[n].dir = e
      <4>1. ScopeLevel(root, e, n).dir = Level(root, e, n)
        BY DEF ScopeLevel, Level
      <4> HIDE DEF n
      <4> QED BY <3>2, <3>4, <3>5, <4>1
    <3> QED BY <3>2, <3>6 DEF root
  <2> QED BY <2>1, <2>2 DEF StackIsChain
<1> QED
  BY <1>1, DiscoverInvariant, PTL

(* No file is taken up twice, however its arguments spell it and however they *)
(* overlap (the canonical paths kept at the end, the single root streamed).   *)
THEOREM FilesTakenOnce == Spec => []OncePerFile
<1>1. DiscoverInv => OncePerFile
  BY DEF DiscoverInv, TakenOnce, FoundStands, OncePerFile, BagToSet
<1> QED
  BY <1>1, DiscoverInvariant, PTL

---------------------------------------------------------------------------
(* What is taken is what the replay of each file takes                      *)

(* The names above a path of the walk are directories to the matcher, but for *)
(* the link an argument names.                                               *)
AsDir(arg, root, k) == ~(k = Len(RelTo(root, arg.path)) /\ arg.path \in DOMAIN LinkTo)

(* The verdict on a path where the layers are the ones the replay asks.      *)
Descends(st, rel) == ClassifyInner(st, rel, ~HasGitignoreAbove(st, rel)) = "descend"

(* A directory the walk of an argument has reached: no rule excludes it or a  *)
(* directory above it, the walk descends to it, and can list all the way.    *)
Reached(arg, root, d) ==
    LET st == FullStack(root, d)
        rel == RelTo(root, d)
    IN  /\ \A k \in 1..Len(rel) : LastMatchAt(st, Prefix(rel, k), AsDir(arg, root, k)) # Exclude
        /\ \A k \in Len(RelTo(root, arg.path)) + 1 .. Len(rel) : Descends(st, Prefix(rel, k))
        /\ \A k \in Len(arg.path)..Len(d) : Canonical(Prefix(d, k)) \notin disk.locked

(* Each frame is such a directory, and its heuristic is off once a .gitignore *)
(* is on the stack.                                                          *)
FrameReached(fs, i, root, arg) ==
    /\ Reached(arg, root, fs[i].dir)
    /\ fs[i].active = (FullStack(root, fs[i].dir).gitignore = <<>>)

FramesReached == \A i \in 1..Len(frames) : FrameReached(frames, i, formatRoot, args[at])

(* What was found is in scope of an argument taken; what is in scope of one   *)
(* is found, or is still ahead in the walk of it.                            *)
TakenStands ==
    /\ \A p \in DOMAIN found : \E i \in 1..Len(args) : i <= at /\ p \in Replayed(args[i])
    /\ \A i \in 1..Len(args) : i <= at =>
          \A p \in Replayed(args[i]) : p \in DOMAIN found \/ (i = at /\ ~Ahead(frames, p))

ReplayInv == DiscoverInv /\ FramesReached /\ TakenStands

---------------------------------------------------------------------------
(* The layers that speak of a path *)

LEMMA LastOfIs ==
    ASSUME NEW T \in SUBSET Nat, NEW m \in T, \A k \in T : k <= m
    PROVE  LastOf(T) = m
<1>1. \A i \in T : (\A j \in T : j <= i) => i = m
  <2>1. ASSUME NEW i \in T, \A j \in T : j <= i PROVE i = m
    <3>1. m <= i /\ i <= m /\ i \in Nat /\ m \in Nat
      BY <2>1
    <3> QED BY <3>1
  <2> QED BY <2>1
<1> QED BY <1>1 DEF LastOf

(* The list M is the list L with x put in at j.                              *)
PutIn(L, M, j, x) ==
    /\ Len(L) \in Nat /\ Len(M) = Len(L) + 1 /\ j \in 1..Len(M) /\ M[j] = x
    /\ \A i \in 1..(j - 1) : M[i] = L[i]
    /\ \A i \in j..Len(L) : M[i + 1] = L[i]

(* A layer that says nothing of a path can be put anywhere among the layers.  *)
LEMMA SilentLayer ==
    ASSUME NEW L, NEW M, NEW j, NEW x, PutIn(L, M, j, x),
           NEW path, NEW isDir, LayerSays(x, path, isDir) = Silent
    PROVE  LastLayerSays(M, path, isDir) = LastLayerSays(L, path, isDir)
<1> USE DEF PutIn
<1> DEFINE Speaks(layers, i) == LayerSays(layers[i], path, isDir) # Silent
           S == {i \in 0..Len(L) : i = 0 \/ Speaks(L, i)}
           T == {i \in 0..Len(M) : i = 0 \/ Speaks(M, i)}
           a == LastOf(S)
           b == IF a < j THEN a ELSE a + 1
<1>1. LastToSpeak(L, path, isDir) = LastOf(S) /\ LastToSpeak(M, path, isDir) = LastOf(T)
  BY DEF LastToSpeak
<1>2. a \in S /\ \A k \in S : k <= a
  <2>1. S \in SUBSET (0..Len(L)) /\ S # {}
    OBVIOUS
  <2> HIDE DEF S
  <2> QED BY <2>1, Greatest
<1>3. \A i \in 1..Len(M) : Speaks(M, i) =>
         \/ i < j /\ i \in 1..Len(L) /\ Speaks(L, i)
         \/ i > j /\ i - 1 \in 1..Len(L) /\ Speaks(L, i - 1)
  <2>1. ASSUME NEW i \in 1..Len(M), Speaks(M, i), i < j PROVE i \in 1..Len(L) /\ Speaks(L, i)
    <3>1. i \in 1..(j - 1) /\ i \in 1..Len(L)
      BY <2>1
    <3> QED BY <2>1, <3>1
  <2>2. ASSUME NEW i \in 1..Len(M), Speaks(M, i), i > j PROVE i - 1 \in 1..Len(L) /\ Speaks(L, i - 1)
    <3>1. i - 1 \in j..Len(L) /\ i - 1 \in 1..Len(L) /\ (i - 1) + 1 = i
      BY <2>2
    <3>2. M[(i - 1) + 1] = L[i - 1]
      BY <3>1
    <3> QED BY <2>2, <3>1, <3>2
  <2>3. ASSUME NEW i \in 1..Len(M), Speaks(M, i) PROVE i # j
    BY <2>3
  <2> HIDE DEF Speaks
  <2> QED BY <2>1, <2>2, <2>3
<1>4. b \in T /\ (a # 0 => M[b] = L[a])
  <2>1. CASE a = 0
    BY <2>1
  <2>2. CASE a # 0 /\ a < j
    <3>1. a \in 1..(j - 1) /\ a \in 0..Len(M)
      BY <1>2, <2>2
    <3>2. M[a] = L[a] /\ Speaks(L, a)
      BY <1>2, <2>2, <3>1
    <3> QED BY <2>2, <3>1, <3>2
  <2>3. CASE a # 0 /\ ~(a < j)
    <3>1. a \in j..Len(L) /\ a + 1 \in 0..Len(M)
      BY <1>2, <2>3
    <3>2. M[a + 1] = L[a] /\ Speaks(L, a)
      BY <1>2, <2>3, <3>1
    <3> HIDE DEF a
    <3> QED BY <2>3, <3>1, <3>2
  <2> QED BY <2>1, <2>2, <2>3
<1>5. \A k \in T : k <= b
  <2> SUFFICES ASSUME NEW k \in T PROVE k <= b
    OBVIOUS
  <2>1. CASE k = 0
    BY <1>2, <2>1
  <2>2. CASE k # 0
    <3>1. k \in 1..Len(M) /\ Speaks(M, k)
      BY <2>2
    <3>2. \/ k < j /\ k \in 1..Len(L) /\ Speaks(L, k)
          \/ k > j /\ k - 1 \in 1..Len(L) /\ Speaks(L, k - 1)
      BY <1>3, <3>1
    <3>3. k < j => k \in S
      BY <3>2
    <3>4. k > j => k - 1 \in S
      BY <3>2
    <3>5. a \in 0..Len(L)
      BY <1>2
    <3> HIDE DEF S, a, Speaks
    <3>6. CASE k < j
      BY <1>2, <3>1, <3>3, <3>5, <3>6
    <3>7. CASE k > j
      <4>1. k - 1 <= a
        BY <1>2, <3>4, <3>7
      <4> QED BY <3>1, <3>5, <3>7, <4>1
    <3> QED BY <3>2, <3>6, <3>7
  <2> QED BY <2>1, <2>2
<1>6. LastOf(T) = b
  <2>1. T \in SUBSET Nat
    OBVIOUS
  <2> HIDE DEF T, b
  <2> QED BY <1>4, <1>5, <2>1, LastOfIs
<1>7. a = 0 <=> b = 0
  <2>1. a \in Nat
    BY <1>2
  <2> HIDE DEF a
  <2> QED BY <2>1
<1> HIDE DEF a, b, S, T
<1> QED BY <1>1, <1>4, <1>6, <1>7 DEF LastLayerSays, a

(* A layer put at the end of the first, or of the second, of two lists.      *)
LEMMA InsertedIs ==
    ASSUME NEW A, NEW B, IsSeq(A), IsSeq(B), NEW g
    PROVE  PutIn(A \o B, Append(A, g) \o B, Len(A) + 1, g)
<1> DEFINE S == Elements(A) \cup Elements(B) \cup {g}
<1>1. A \in Seq(S) /\ B \in Seq(S) /\ g \in S
  <2>1. A \in Seq(Elements(A)) /\ B \in Seq(Elements(B))
    BY DEF IsSeq
  <2>2. Elements(A) \subseteq S /\ Elements(B) \subseteq S
    OBVIOUS
  <2> HIDE DEF Elements, S
  <2> QED BY <2>1, <2>2, SeqMonotonic DEF S
<1> HIDE DEF S
<1>2. Append(A, g) \in Seq(S)
  BY <1>1
<1> QED BY <1>1, <1>2 DEF PutIn

LEMMA AddedIs ==
    ASSUME NEW A, NEW B, IsSeq(A), IsSeq(B), NEW o
    PROVE  PutIn(A \o B, A \o Append(B, o), Len(A \o B) + 1, o)
<1> DEFINE S == Elements(A) \cup Elements(B) \cup {o}
<1>1. A \in Seq(S) /\ B \in Seq(S) /\ o \in S
  <2>1. A \in Seq(Elements(A)) /\ B \in Seq(Elements(B))
    BY DEF IsSeq
  <2>2. Elements(A) \subseteq S /\ Elements(B) \subseteq S
    OBVIOUS
  <2> HIDE DEF Elements, S
  <2> QED BY <2>1, <2>2, SeqMonotonic DEF S
<1> HIDE DEF S
<1>2. Append(B, o) \in Seq(S)
  BY <1>1
<1> QED BY <1>1, <1>2 DEF PutIn

(* What a directory pushes. *)
LEMMA PushedIs ==
    ASSUME NEW st, IsStack(st), NEW dir, NEW root, NEW P, P = PushLayers(st, dir, root)
    PROVE  \E g, o : /\ g.anchor = RelTo(root, dir) /\ o.anchor = RelTo(root, dir)
                     /\ P.stack.gitignore =
                          (IF P.pushed.gitignore THEN Append(st.gitignore, g) ELSE st.gitignore)
                     /\ P.stack.overrides =
                          (IF P.pushed.overrides THEN Append(st.overrides, o) ELSE st.overrides)
<1> DEFINE over == OverrideFile(dir, root.inRepo)
           git == IgnoreFile("gitignore", dir)
           o == Layer(RelTo(root, dir), over.rules)
           g == Layer(RelTo(root, dir), git.rules)
           st1 == IF Readable(over) THEN PushOverride(st, RelTo(root, dir), over.rules) ELSE st
           both == root.inRepo /\ git.kind = "file"
<1>1. /\ P.pushed = [overrides |-> Readable(over), gitignore |-> both]
      /\ P.stack = IF both THEN PushGitignore(st1, RelTo(root, dir), git.rules) ELSE st1
  BY DEF PushLayers
<1>2. st = [gitignore |-> st.gitignore, overrides |-> st.overrides]
  BY DEF IsStack
<1>3. o.anchor = RelTo(root, dir) /\ g.anchor = RelTo(root, dir)
  BY DEF Layer
<1>4. st1 = [gitignore |-> st.gitignore,
             overrides |-> IF Readable(over) THEN Append(st.overrides, o) ELSE st.overrides]
  BY <1>2 DEF PushOverride
<1> HIDE DEF st1, both, over
<1>5. P.stack = [gitignore |-> IF both THEN Append(st.gitignore, g) ELSE st.gitignore,
                 overrides |-> IF Readable(over) THEN Append(st.overrides, o) ELSE st.overrides]
  BY <1>1, <1>4 DEF PushGitignore
<1> HIDE DEF g, o
<1>6. (P.pushed.overrides <=> Readable(over)) /\ (P.pushed.gitignore <=> both)
  BY <1>1
<1> QED BY <1>3, <1>5, <1>6

(* A layer says nothing of its own directory nor of what lies above it.      *)
LEMMA AnchorSilent ==
    ASSUME NEW x, NEW path, Len(path) \in Nat, Len(x.anchor) \in Nat, Len(path) <= Len(x.anchor)
    PROVE  ~Relativizes(x, path) /\ \A isDir : LayerSays(x, path, isDir) = Silent
BY DEF Relativizes, LayerSays

(* What a directory pushes changes nothing of what is said above it.         *)
LEMMA PushSilent ==
    ASSUME NEW st, IsStack(st), NEW dir, NEW root, Len(RelTo(root, dir)) \in Nat,
           NEW path, Len(path) \in Nat, Len(path) <= Len(RelTo(root, dir))
    PROVE  /\ \A isDir : LastMatchAt(PushLayers(st, dir, root).stack, path, isDir) = LastMatchAt(st, path, isDir)
           /\ HasGitignoreAbove(PushLayers(st, dir, root).stack, path) <=> HasGitignoreAbove(st, path)
<1> DEFINE P == PushLayers(st, dir, root)
<1>1. PICK g, o : /\ g.anchor = RelTo(root, dir) /\ o.anchor = RelTo(root, dir)
                  /\ P.stack.gitignore =
                       (IF P.pushed.gitignore THEN Append(st.gitignore, g) ELSE st.gitignore)
                  /\ P.stack.overrides =
                       (IF P.pushed.overrides THEN Append(st.overrides, o) ELSE st.overrides)
  BY PushedIs
<1>2. /\ ~Relativizes(g, path) /\ \A isDir : LayerSays(g, path, isDir) = Silent
      /\ ~Relativizes(o, path) /\ \A isDir : LayerSays(o, path, isDir) = Silent
  BY <1>1, AnchorSilent
<1>3. IsSeq(st.gitignore) /\ IsSeq(st.overrides) /\ IsSeq(P.stack.gitignore)
  BY PushPop DEF IsStack
<1> DEFINE A == st.gitignore
           B == st.overrides
           A2 == P.stack.gitignore
           B2 == P.stack.overrides
<1>4. IsSeq(A) /\ IsSeq(B) /\ IsSeq(A2)
  BY <1>3
<1>5. /\ A2 = IF P.pushed.gitignore THEN Append(A, g) ELSE A
      /\ B2 = IF P.pushed.overrides THEN Append(B, o) ELSE B
  BY <1>1
<1> HIDE DEF P, A, B, A2, B2
<1>6. ASSUME NEW isDir PROVE LastLayerSays(A2 \o B, path, isDir) = LastLayerSays(A \o B, path, isDir)
  <2>1. CASE ~P.pushed.gitignore
    BY <1>5, <2>1
  <2>2. CASE P.pushed.gitignore
    <3>1. A2 = Append(A, g)
      BY <1>5, <2>2
    <3>2. PutIn(A \o B, A2 \o B, Len(A) + 1, g)
      BY <1>4, <3>1, InsertedIs
    <3> QED BY <1>2, <3>2, SilentLayer
  <2> QED BY <2>1, <2>2
<1>7. ASSUME NEW isDir PROVE LastLayerSays(A2 \o B2, path, isDir) = LastLayerSays(A2 \o B, path, isDir)
  <2>1. CASE ~P.pushed.overrides
    BY <1>5, <2>1
  <2>2. CASE P.pushed.overrides
    <3>1. B2 = Append(B, o)
      BY <1>5, <2>2
    <3>2. PutIn(A2 \o B, A2 \o B2, Len(A2 \o B) + 1, o)
      BY <1>4, <3>1, AddedIs
    <3> QED BY <1>2, <3>2, SilentLayer
  <2> QED BY <2>1, <2>2
<1>8. \A isDir : LastMatchAt(P.stack, path, isDir) = LastMatchAt(st, path, isDir)
  BY <1>6, <1>7 DEF LastMatchAt, A, B, A2, B2
<1>9. HasGitignoreAbove(P.stack, path) <=> HasGitignoreAbove(st, path)
  <2>1. CASE ~P.pushed.gitignore
    BY <1>5, <2>1 DEF A, A2, HasGitignoreAbove
  <2>2. CASE P.pushed.gitignore
    <3>1. A2 = Append(A, g)
      BY <1>5, <2>2
    <3>2. /\ DOMAIN A2 = 1..(Len(A) + 1) /\ DOMAIN A = 1..Len(A) /\ Len(A) \in Nat
          /\ A2[Len(A) + 1] = g /\ \A i \in 1..Len(A) : A2[i] = A[i]
      <4>1. A \in Seq(Elements(A)) /\ A2 \in Seq(Elements(A2)) /\ Len(A2) = Len(A) + 1
            /\ A2[Len(A) + 1] = g /\ \A i \in 1..Len(A) : A2[i] = A[i]
        BY <1>4, <3>1, SeqGrows DEF IsSeq
      <4> HIDE DEF Elements
      <4> QED BY <4>1
    <3> QED BY SMTT(60), <1>2, <3>2 DEF A, A2, HasGitignoreAbove
  <2> QED BY <2>1, <2>2
<1> QED BY <1>8, <1>9 DEF P

(* Two stacks say the same of a path.                                        *)
SaySame(st, su, path) ==
    /\ \A isDir : LastMatchAt(st, path, isDir) = LastMatchAt(su, path, isDir)
    /\ HasGitignoreAbove(st, path) <=> HasGitignoreAbove(su, path)

(* The layers below a directory say nothing of it, of what lies above it and  *)
(* of its entries.                                                           *)
LEMMA SaidAbove ==
    ASSUME NEW root, root.path \in Seq(Names), NEW d \in Seq(Names), Above(root.path, d),
           NEW e \in Seq(Names), Above(d, e),
           NEW path, Len(path) \in Nat, Len(path) <= Len(d) - Len(root.path) + 1
    PROVE  SaySame(FullStack(root, e), FullStack(root, d), path)
<1> DEFINE At(n) == {f \in Seq(Names) : Above(d, f) /\ Len(f) = Len(d) + n}
           T == {n \in Nat : \E f \in At(n) : ~SaySame(FullStack(root, f), FullStack(root, d), path)}
<1>1. Len(root.path) \in Nat /\ Len(d) \in Nat /\ Len(root.path) <= Len(d)
  BY DEF Above
<1>2. 0 \notin T
  <2>1. ASSUME NEW f \in At(0) PROVE f = d
    <3>1. f \in Seq(Names) /\ Above(d, f) /\ Len(f) = Len(d)
      BY <1>1
    <3>2. Above(f, f)
      BY <3>1, AboveOrder
    <3> QED BY <3>1, <3>2, AboveOrder
  <2>2. SaySame(FullStack(root, d), FullStack(root, d), path)
    BY DEF SaySame
  <2> QED BY <2>1, <2>2
<1>3. ASSUME NEW n \in Nat, n + 1 \in T PROVE n \in T
  <2>1. PICK f \in At(n + 1) : ~SaySame(FullStack(root, f), FullStack(root, d), path)
    BY <1>3
  <2>2. f \in Seq(Names) /\ Above(d, f) /\ Len(f) = Len(d) + (n + 1)
    BY <2>1
  <2> HIDE DEF At
  <2> DEFINE g == Parent(f)
             name == Name(f)
  <2>3. f # <<>>
    BY <1>1, <2>2
  <2>4. g \in Seq(Names) /\ name \in Names /\ Len(g) = Len(f) - 1 /\ f = Append(g, name)
    BY <2>2, <2>3, LastSplit
  <2> HIDE DEF g, name
  <2>5. Above(d, g)
    <3>1. Above(d, g) \/ d = f
      BY <2>2, <2>4, AboveChild
    <3> QED BY <1>1, <2>2, <3>1
  <2>6. g \in At(n)
    BY <1>1, <2>2, <2>4, <2>5 DEF At
  <2> HIDE DEF T
  <2>7. Above(root.path, g) /\ Above(root.path, f)
    <3>1. Above(root.path, g)
      BY <2>4, <2>5, AboveOrder
    <3>2. Above(root.path, f)
      BY <2>2, AboveOrder
    <3> QED BY <3>1, <3>2
  <2>8. FullStack(root, f) = PushLayers(FullStack(root, g), f, root).stack /\ IsStack(FullStack(root, g))
    BY <2>4, <2>7, FullStackChild
  <2>9. Len(RelTo(root, f)) = Len(f) - Len(root.path)
    BY <2>2, <2>7, LastLevel
  <2>10. Len(RelTo(root, f)) \in Nat /\ Len(path) <= Len(RelTo(root, f))
    BY SMTT(60), <1>1, <2>2, <2>9
  <2>11. SaySame(FullStack(root, f), FullStack(root, g), path)
    BY <2>8, <2>10, PushSilent DEF SaySame
  <2>12. ~SaySame(FullStack(root, g), FullStack(root, d), path)
    BY <2>1, <2>11 DEF SaySame
  <2> QED BY <2>6, <2>12 DEF T
<1> HIDE DEF T
<1>4. T = {}
  <2> SUFFICES ASSUME T # {} PROVE FALSE
    OBVIOUS
  <2>1. T \in SUBSET Nat
    BY DEF T
  <2>2. PICK m \in T : \A k \in T : m <= k
    BY <2>1, Least
  <2>3. m - 1 \in Nat /\ (m - 1) + 1 = m /\ ~(m <= m - 1)
    BY <1>2, <2>1, <2>2
  <2>4. m - 1 \in T
    BY <1>3, <2>2, <2>3
  <2> QED BY <2>2, <2>3, <2>4
<1>5. Len(e) - Len(d) \in Nat /\ Len(e) = Len(d) + (Len(e) - Len(d))
  BY <1>1 DEF Above
<1>6. e \in At(Len(e) - Len(d))
  BY <1>5
<1> QED BY <1>4, <1>5, <1>6 DEF T

(* The same of what is read above a directory, for the directory and what     *)
(* lies above it.                                                            *)
LEMMA SaidByParent ==
    ASSUME NEW root, root.path \in Seq(Names), NEW d \in Seq(Names), Above(root.path, d),
           NEW path, Len(path) \in Nat, Len(path) <= Len(d) - Len(root.path)
    PROVE  SaySame(FullStack(root, d), Load("full", root, d, Len(d) - Len(root.path)), path)
<1> DEFINE N == Len(d) - Len(root.path)
<1>1. N \in Nat /\ Len(RelTo(root, d)) = N /\ Level(root, d, N + 1) = d
  BY LastLevel
<1>2. FullStack(root, d) = Load("full", root, d, N + 1)
  BY FullStackIs
<1> HIDE DEF N
<1>3. Load("full", root, d, N + 1) = Loaded("full", Load("full", root, d, N), Level(root, d, N + 1), root)
  BY <1>1, LoadSteps
<1>4. Loaded("full", Load("full", root, d, N), d, root) = PushLayers(Load("full", root, d, N), d, root).stack
  BY LoadedIs
<1>5. IsStack(Load("full", root, d, N))
  BY <1>1, LoadedAreStacks
<1>6. FullStack(root, d) = PushLayers(Load("full", root, d, N), d, root).stack
  BY <1>1, <1>2, <1>3, <1>4
<1>7. SaySame(FullStack(root, d), Load("full", root, d, N), path)
  <2>1. Len(path) <= Len(RelTo(root, d)) /\ Len(RelTo(root, d)) \in Nat
    BY <1>1 DEF N
  <2> QED BY <1>5, <1>6, <2>1, PushSilent DEF SaySame
<1> QED BY <1>7 DEF N

(* Every .gitignore layer of a directory's stack speaks of its entries.      *)
LEMMA AnchorsAbove ==
    ASSUME NEW root, root.path \in Seq(Names), NEW d \in Seq(Names), Above(root.path, d)
    PROVE  LET git == FullStack(root, d).gitignore
           IN  \A i \in DOMAIN git : /\ Above(git[i].anchor, RelTo(root, d))
                                     /\ git[i].anchor \in Seq(Names)
<1> DEFINE N == Len(d) - Len(root.path)
           rel == RelTo(root, d)
           Git(m) == Load("full", root, d, m).gitignore
           P(m) == \A i \in DOMAIN Git(m) : Above(Git(m)[i].anchor, rel) /\ Git(m)[i].anchor \in Seq(Names)
           T == {m \in Nat : m \in 0..(N + 1) /\ ~P(m)}
<1>1. N \in Nat /\ rel \in Seq(Names) /\ Len(rel) = N
  BY LastLevel
<1>2. P(0)
  <2>1. Load("full", root, d, 0) = EmptyStack
    BY LoadSteps DEF Start
  <2> QED BY <2>1 DEF EmptyStack
<1>3. ASSUME NEW m \in Nat, m + 1 \in 0..(N + 1), P(m) PROVE P(m + 1)
  <2> DEFINE level == Level(root, d, m + 1)
             st == Load("full", root, d, m)
             push == PushLayers(st, level, root)
  <2>1. Load("full", root, d, m + 1) = push.stack
    <3>1. Load("full", root, d, m + 1) = Loaded("full", st, level, root)
      BY LoadSteps
    <3>2. Loaded("full", st, level, root) = push.stack
      BY LoadedIs
    <3> QED BY <3>1, <3>2
  <2>2. RelTo(root, level) = Prefix(rel, m)
    <3>1. m + 1 \in 1..(N + 1) /\ (m + 1) - 1 = m
      <4> HIDE DEF N, Git
      <4> QED BY <1>1, <1>3
    <3>2. RelTo(root, Level(root, d, m + 1)) = Prefix(RelTo(root, d), (m + 1) - 1)
      BY <3>1, LevelIs
    <3> QED BY <3>1, <3>2
  <2>3. Prefix(rel, m) \in Seq(Names) /\ Above(Prefix(rel, m), rel)
    <3>1. m \in 0..Len(rel)
      <4> HIDE DEF N, Git, rel
      <4> QED BY <1>1, <1>3
    <3> HIDE DEF rel
    <3> QED BY <1>1, <3>1, PrefixIs, PrefixAbove
  <2>4. IsStack(st)
    BY LoadedAreStacks
  <2> HIDE DEF level, push
  <2>5. PICK g, o : /\ g.anchor = RelTo(root, level)
                    /\ push.stack.gitignore =
                         (IF push.pushed.gitignore THEN Append(st.gitignore, g) ELSE st.gitignore)
    BY <2>4, PushedIs DEF push
  <2>6. CASE ~push.pushed.gitignore
    BY <1>3, <2>1, <2>5, <2>6
  <2>7. CASE push.pushed.gitignore
    <3> DEFINE A == st.gitignore
               B == Git(m + 1)
    <3>1. B = Append(A, g) /\ IsSeq(A)
      BY <2>1, <2>4, <2>5, <2>7 DEF IsStack
    <3>2. \A i \in DOMAIN A : Above(A[i].anchor, rel) /\ A[i].anchor \in Seq(Names)
      BY <1>3
    <3>3. Above(g.anchor, rel) /\ g.anchor \in Seq(Names)
      BY <2>2, <2>3, <2>5
    <3> HIDE DEF A, B, rel
    <3>4. /\ DOMAIN B = 1..(Len(A) + 1) /\ DOMAIN A = 1..Len(A) /\ Len(A) \in Nat
          /\ B[Len(A) + 1] = g /\ \A i \in 1..Len(A) : B[i] = A[i]
      <4>1. IsSeq(B) /\ Len(B) = Len(A) + 1 /\ B[Len(A) + 1] = g /\ \A i \in 1..Len(A) : B[i] = A[i]
        BY <3>1, SeqGrows
      <4>2. A \in Seq(Elements(A)) /\ B \in Seq(Elements(B)) /\ Len(A) \in Nat
        BY <3>1, <4>1 DEF IsSeq
      <4> HIDE DEF Elements
      <4> QED BY <4>1, <4>2
    <3>5. \A i \in DOMAIN B : Above(B[i].anchor, rel) /\ B[i].anchor \in Seq(Names)
      BY <3>2, <3>3, <3>4
    <3> QED BY <3>5 DEF B
  <2> QED BY <2>6, <2>7
<1> HIDE DEF P
<1>4. T = {}
  <2> SUFFICES ASSUME T # {} PROVE FALSE
    OBVIOUS
  <2>1. PICK m \in T : \A k \in T : m <= k
    <3>1. T \in SUBSET Nat
      OBVIOUS
    <3> HIDE DEF T
    <3> QED BY <3>1, Least
  <2>2. m # 0 /\ m - 1 \in Nat /\ m - 1 \in 0..(N + 1) /\ ~(m <= m - 1) /\ (m - 1) + 1 = m
    BY SMTT(60), <1>1, <1>2, <2>1
  <2>3. P(m - 1)
    BY SMTT(60), <2>1, <2>2
  <2>4. P(m)
    BY <1>3, <2>1, <2>2, <2>3
  <2> QED BY <2>1, <2>4
<1>5. P(N + 1)
  <2> HIDE DEF N
  <2> QED BY <1>1, <1>4
<1>6. FullStack(root, d) = Load("full", root, d, N + 1)
  BY FullStackIs
<1> QED BY <1>5, <1>6 DEF P

LEMMA GitignoreAbove ==
    ASSUME NEW root, root.path \in Seq(Names), NEW d \in Seq(Names), Above(root.path, d), NEW name \in Names
    PROVE  HasGitignoreAbove(FullStack(root, d), RelTo(root, Append(d, name)))
              <=> FullStack(root, d).gitignore # <<>>
<1> DEFINE git == FullStack(root, d).gitignore
           rel == RelTo(root, d)
<1>1. RelTo(root, Append(d, name)) = Append(rel, name)
  BY BelowChild DEF RelTo
<1>2. rel \in Seq(Names)
  BY LastLevel
<1>3. \A i \in DOMAIN git : Above(git[i].anchor, rel) /\ git[i].anchor \in Seq(Names)
  BY AnchorsAbove
<1>4. git # <<>> <=> DOMAIN git # {}
  <2>1. IsSeq(git)
    BY FullStackChild DEF IsStack
  <2>2. git \in Seq(Elements(git)) /\ Len(git) \in Nat
    BY <2>1 DEF IsSeq
  <2> HIDE DEF Elements, git
  <2>3. DOMAIN git = 1..Len(git)
    BY <2>2
  <2>4. git # <<>> => DOMAIN git # {}
    BY <2>1, <2>3, LastFrame
  <2>5. git = <<>> => DOMAIN git = {}
    OBVIOUS
  <2> QED BY <2>4, <2>5
<1> HIDE DEF rel, git
<1>5. ASSUME NEW i \in DOMAIN git PROVE Relativizes(git[i], Append(rel, name))
  <2> DEFINE a == git[i].anchor
  <2>1. a \in Seq(Names) /\ Above(a, rel)
    BY <1>3
  <2> HIDE DEF a
  <2>2. Above(a, Append(rel, name))
    BY <1>2, <2>1, AboveChild
  <2>3. Len(Append(rel, name)) = Len(rel) + 1 /\ Len(a) <= Len(rel) /\ Len(a) \in Nat /\ Len(rel) \in Nat
    BY <1>2, <2>1 DEF Above
  <2> QED BY <2>2, <2>3 DEF Relativizes, a
<1> QED BY <1>1, <1>4, <1>5 DEF HasGitignoreAbove, git

---------------------------------------------------------------------------
(* The heuristic is off once a .gitignore is on the stack                    *)

LEMMA ChildActive ==
    ASSUME NEW st, IsStack(st), NEW dir, NEW root, NEW active, active = (st.gitignore = <<>>)
    PROVE  ChildHeuristic(active, PushLayers(st, dir, root).pushed)
              = (PushLayers(st, dir, root).stack.gitignore = <<>>)
<1> DEFINE P == PushLayers(st, dir, root)
<1>1. PICK g : P.stack.gitignore = IF P.pushed.gitignore THEN Append(st.gitignore, g) ELSE st.gitignore
  BY PushedIs
<1>2. Append(st.gitignore, g) # <<>>
  BY SeqGrows DEF IsStack
<1> HIDE DEF P
<1>3. CASE P.pushed.gitignore
  <2>1. P.stack.gitignore # <<>>
    BY <1>1, <1>2, <1>3
  <2> QED BY <1>3, <2>1 DEF ChildHeuristic, P
<1>4. CASE ~P.pushed.gitignore
  <2>1. P.stack.gitignore = st.gitignore
    BY <1>1, <1>4
  <2> QED BY <1>4, <2>1 DEF ChildHeuristic, P
<1> QED BY <1>3, <1>4

LEMMA PreloadActive ==
    ASSUME NEW root, NEW dir, NEW n \in Nat
    PROVE  Preload(root, dir, n).active = (Preload(root, dir, n).stack.gitignore = <<>>)
<1> DEFINE Pre(m) == Load("preload", root, dir, m)
           P(m) == Pre(m).active = (Pre(m).stack.gitignore = <<>>)
           T == {m \in Nat : ~P(m)}
<1>1. P(0)
  <2>1. Pre(0) = Start("preload")
    BY LoadSteps
  <2>2. Start("preload").active = TRUE /\ Start("preload").stack.gitignore = <<>>
    BY DEF Start, EmptyStack
  <2> QED BY <2>1, <2>2
<1>2. ASSUME NEW m \in Nat, P(m) PROVE P(m + 1)
  <2> DEFINE level == Level(root, dir, m + 1)
             st == Pre(m).stack
  <2>1. /\ Pre(m + 1).stack = PushDirLayers(st, level, root).stack
        /\ Pre(m + 1).active = (Pre(m).active /\ ~PushDirLayers(st, level, root).pushed.gitignore)
    <3>1. Pre(m + 1) = Loaded("preload", Pre(m), level, root)
      BY LoadSteps
    <3> QED BY <3>1, LoadedIs
  <2>2. IsStack(st) /\ Pre(m).active = (st.gitignore = <<>>)
    BY <1>2, LoadedAreStacks
  <2> HIDE DEF Pre, level, st
  <2>3. CASE IsIgnored(st, RelTo(root, level), TRUE)
    <3>1. /\ PushDirLayers(st, level, root).stack = st
          /\ PushDirLayers(st, level, root).pushed.gitignore = FALSE
      BY <2>3 DEF PushDirLayers, NonePushed
    <3> QED BY <2>1, <2>2, <3>1
  <2>4. CASE ~IsIgnored(st, RelTo(root, level), TRUE)
    <3>1. PushDirLayers(st, level, root) = PushLayers(st, level, root)
      BY <2>4 DEF PushDirLayers
    <3>2. ChildHeuristic(Pre(m).active, PushLayers(st, level, root).pushed)
             = (PushLayers(st, level, root).stack.gitignore = <<>>)
      BY <2>2, ChildActive
    <3> QED BY <2>1, <3>1, <3>2 DEF ChildHeuristic
  <2> QED BY <2>3, <2>4 DEF Pre
<1> HIDE DEF P
<1>3. T = {}
  <2> SUFFICES ASSUME T # {} PROVE FALSE
    OBVIOUS
  <2>1. PICK m \in T : \A k \in T : m <= k
    <3>1. T \in SUBSET Nat
      OBVIOUS
    <3> HIDE DEF T
    <3> QED BY <3>1, Least
  <2>2. m # 0 /\ m - 1 \in Nat /\ ~(m <= m - 1) /\ (m - 1) + 1 = m
    BY <1>1, <2>1
  <2>3. P(m - 1)
    BY <2>1, <2>2
  <2>4. P(m)
    BY <1>2, <2>2, <2>3
  <2> QED BY <2>1, <2>4
<1>4. P(n)
  BY <1>3
<1>5. Preload(root, dir, n) = Load("preload", root, dir, n)
  BY PreloadIs
<1> QED BY <1>4, <1>5 DEF P

(* Whether a walk descends is what the layers say of the directory, and       *)
(* whether the heuristic is on.                                              *)
LEMMA VerdictIs ==
    ASSUME NEW st, NEW rel, rel # <<>>, NEW active \in BOOLEAN
    PROVE  ClassifyInner(st, rel, active) = "descend" <=>
              /\ Name(rel) \notin Nets
              /\ active /\ Name(rel) \in Guesses => LastMatchAt(st, rel, TRUE) = Include
              /\ LastMatchAt(st, rel, TRUE) # Exclude
<1> DEFINE prune == IF NegationUnder(st, rel) THEN "prune, warn" ELSE "prune"
<1>1. prune # "descend"
  OBVIOUS
<1>2. ClassifyInner(st, rel, active) =
        IF Name(rel) \in Nets THEN "prune"
        ELSE IF active /\ Name(rel) \in Guesses /\ ~IsReincluded(st, rel, TRUE) THEN prune
        ELSE IF IsIgnoredLeaf(st, rel, TRUE) THEN prune
        ELSE "descend"
  BY DEF ClassifyInner
<1>3. /\ IsReincluded(st, rel, TRUE) <=> LastMatchAt(st, rel, TRUE) = Include
      /\ IsIgnoredLeaf(st, rel, TRUE) <=> LastMatchAt(st, rel, TRUE) = Exclude
  BY DEF IsReincluded, IsIgnoredLeaf, LeafPolarity
<1> HIDE DEF prune
<1>4. CASE Name(rel) \in Nets
  BY <1>2, <1>4
<1>5. CASE Name(rel) \notin Nets /\ active /\ Name(rel) \in Guesses /\ ~IsReincluded(st, rel, TRUE)
  BY <1>1, <1>2, <1>3, <1>5
<1>6. CASE Name(rel) \notin Nets /\ ~(active /\ Name(rel) \in Guesses /\ ~IsReincluded(st, rel, TRUE))
  <2>1. CASE IsIgnoredLeaf(st, rel, TRUE)
    BY <1>1, <1>2, <1>3, <1>6, <2>1
  <2>2. CASE ~IsIgnoredLeaf(st, rel, TRUE)
    <3>1. ClassifyInner(st, rel, active) = "descend"
      BY <1>2, <1>6, <2>2
    <3> QED BY <1>3, <1>6, <2>2, <3>1
  <2> QED BY <2>1, <2>2
<1> QED BY <1>4, <1>5, <1>6

LEMMA VerdictSame ==
    ASSUME NEW st, NEW su, NEW rel, rel # <<>>, SaySame(st, su, rel)
    PROVE  /\ Descends(st, rel) <=> Descends(su, rel)
           /\ \A active : active = (~HasGitignoreAbove(su, rel)) =>
                (Descends(st, rel) <=> ClassifyInner(su, rel, active) = "descend")
<1>1. /\ LastMatchAt(st, rel, TRUE) = LastMatchAt(su, rel, TRUE)
      /\ HasGitignoreAbove(st, rel) <=> HasGitignoreAbove(su, rel)
  BY DEF SaySame
<1> DEFINE Goes(s, active) ==
              /\ Name(rel) \notin Nets
              /\ active /\ Name(rel) \in Guesses => LastMatchAt(s, rel, TRUE) = Include
              /\ LastMatchAt(s, rel, TRUE) # Exclude
<1>2. \A s : \A active \in BOOLEAN : ClassifyInner(s, rel, active) = "descend" <=> Goes(s, active)
  BY VerdictIs
<1>3. Goes(st, ~HasGitignoreAbove(st, rel)) <=> Goes(su, ~HasGitignoreAbove(su, rel))
  BY <1>1
<1> HIDE DEF Goes
<1>4. Descends(st, rel) <=> Descends(su, rel)
  <2>1. (~HasGitignoreAbove(st, rel)) \in BOOLEAN /\ (~HasGitignoreAbove(su, rel)) \in BOOLEAN
    OBVIOUS
  <2> QED BY <1>2, <1>3, <2>1 DEF Descends
<1> QED BY <1>4 DEF Descends

---------------------------------------------------------------------------
(* The gate of an argument                                                   *)

(* Where the layers read before an argument are not all of them, all of them  *)
(* exclude a directory above it.                                             *)
LEMMA PreloadTells ==
    ASSUME NEW root, root.path \in Seq(Names), NEW dir \in Seq(Names), Above(root.path, dir),
           NEW n \in 0..(Len(dir) - Len(root.path))
    PROVE  \/ Load("preload", root, dir, n).stack = Load("full", root, dir, n)
           \/ \E j \in 1..(n - 1) : Out(Load("full", root, dir, n), RelTo(root, dir), j, TRUE)
<1> DEFINE N == Len(dir) - Len(root.path)
           rel == RelTo(root, dir)
           Pre(m) == Load("preload", root, dir, m)
           Full(m) == Load("full", root, dir, m)
           P(m) == Pre(m).stack = Full(m) \/ \E j \in 1..(m - 1) : Out(Full(m), rel, j, TRUE)
           T == {m \in Nat : m \in 0..N /\ ~P(m)}
<1>1. N \in Nat /\ rel \in Seq(Names) /\ Len(rel) = N
  BY LastLevel
<1>2. P(0)
  <2>1. \A way : Load(way, root, dir, 0) = Start(way)
    BY LoadSteps
  <2> QED BY <2>1 DEF Start
<1>3. ASSUME NEW m \in Nat, m + 1 \in 0..N, P(m) PROVE P(m + 1)
  <2> DEFINE level == Level(root, dir, m + 1)
  <2>1. \A way : Load(way, root, dir, m + 1) = Loaded(way, Load(way, root, dir, m), level, root)
    BY LoadSteps
  <2>2. /\ Full(m + 1) = PushLayers(Full(m), level, root).stack
        /\ Pre(m + 1).stack = PushDirLayers(Pre(m).stack, level, root).stack
    BY <2>1, LoadedIs
  <2>3. /\ RelTo(root, level) = Prefix(rel, m) /\ Prefix(rel, m) \in Seq(Names) /\ Len(Prefix(rel, m)) = m
    <3>1. m + 1 \in 1..(N + 1) /\ (m + 1) - 1 = m
      <4> HIDE DEF N, P
      <4> QED BY <1>1, <1>3
    <3>2. /\ RelTo(root, Level(root, dir, m + 1)) = Prefix(RelTo(root, dir), (m + 1) - 1)
          /\ Prefix(RelTo(root, dir), (m + 1) - 1) \in Seq(Names)
          /\ Len(Prefix(RelTo(root, dir), (m + 1) - 1)) = (m + 1) - 1
      BY <3>1, LevelIs
    <3> HIDE DEF N
    <3> QED BY <3>1, <3>2
  <2>4. \A j \in 0..m : Prefix(Prefix(rel, m), j) = Prefix(rel, j) /\ Len(Prefix(rel, j)) = j
    <3>1. m \in 0..Len(rel)
      <4> HIDE DEF N, P, rel
      <4> QED BY <1>1, <1>3
    <3>2. \A j \in 0..m : j \in 0..Len(rel)
      <4> HIDE DEF N, P, rel
      <4> QED BY <1>1, <3>1
    <3> HIDE DEF rel, N, P, T
    <3>3. \A j \in 0..m : Prefix(Prefix(rel, m), j) = Prefix(rel, j)
      BY <1>1, <3>1, PrefixOfPrefix
    <3>4. \A j \in 0..m : Len(Prefix(rel, j)) = j
      BY <1>1, <3>2, PrefixIs
    <3> QED BY <3>3, <3>4
  <2>5. IsStack(Full(m))
    BY LoadedAreStacks
  <2>6. P(m)
    BY <1>3
  <2> HIDE DEF level, rel, Pre, Full
  <2>7. \A j \in 1..m : Out(Full(m + 1), rel, j, TRUE) <=> Out(Full(m), rel, j, TRUE)
    <3>1. ASSUME NEW j \in 1..m
          PROVE  LastMatchAt(Full(m + 1), Prefix(rel, j), TRUE) = LastMatchAt(Full(m), Prefix(rel, j), TRUE)
      <4>1. Len(Prefix(rel, j)) \in Nat /\ Len(RelTo(root, level)) \in Nat
            /\ Len(Prefix(rel, j)) <= Len(RelTo(root, level))
        BY <2>3, <2>4
      <4> DEFINE path == Prefix(rel, j)
                 st == Full(m)
      <4>2. IsStack(st) /\ Len(path) \in Nat /\ Len(RelTo(root, level)) \in Nat
            /\ Len(path) <= Len(RelTo(root, level)) /\ Full(m + 1) = PushLayers(st, level, root).stack
        BY <2>2, <2>5, <4>1
      <4> HIDE DEF path, st, N, P, T
      <4>3. SaySame(PushLayers(st, level, root).stack, st, path)
        BY <4>2, PushSilent DEF SaySame
      <4>4. LastMatchAt(PushLayers(st, level, root).stack, path, TRUE) = LastMatchAt(st, path, TRUE)
        BY <4>3 DEF SaySame
      <4> QED BY <4>2, <4>4 DEF path, st
    <3> QED BY <3>1 DEF Out, LastMatchAt
  <2>8. (m + 1) - 1 = m /\ 1..(m - 1) \subseteq 1..m
    OBVIOUS
  <2>9. CASE Pre(m).stack = Full(m)
    <3>1. IsIgnored(Full(m), Prefix(rel, m), TRUE) <=> \E j \in 1..m : Out(Full(m), rel, j, TRUE)
      <4>1. IsIgnored(Full(m), Prefix(rel, m), TRUE)
              <=> \E j \in 1..m : Out(Full(m), Prefix(rel, m), j, j < m \/ TRUE)
        BY <2>3, IgnoredIs
      <4>2. ASSUME NEW j \in 1..m
            PROVE  Out(Full(m), Prefix(rel, m), j, j < m \/ TRUE) <=> Out(Full(m), rel, j, TRUE)
        <5>1. (j < m \/ TRUE) = TRUE /\ Prefix(Prefix(rel, m), j) = Prefix(rel, j)
          BY <2>4
        <5> QED BY <5>1 DEF Out
      <4> QED BY <4>1, <4>2
    <3>2. CASE IsIgnored(Full(m), Prefix(rel, m), TRUE)
      <4>1. \E j \in 1..((m + 1) - 1) : Out(Full(m + 1), rel, j, TRUE)
        BY <2>7, <2>8, <3>1, <3>2
      <4> QED BY <4>1
    <3>3. CASE ~IsIgnored(Full(m), Prefix(rel, m), TRUE)
      <4>1. Pre(m + 1).stack = Full(m + 1)
        BY <2>2, <2>3, <2>9, <3>3 DEF PushDirLayers
      <4> QED BY <4>1
    <3> QED BY <3>2, <3>3
  <2>10. CASE \E j \in 1..(m - 1) : Out(Full(m), rel, j, TRUE)
    <3>1. \E j \in 1..((m + 1) - 1) : Out(Full(m + 1), rel, j, TRUE)
      BY <2>7, <2>8, <2>10
    <3> QED BY <3>1
  <2> QED BY <2>6, <2>9, <2>10
<1> HIDE DEF P
<1>4. T = {}
  <2> SUFFICES ASSUME T # {} PROVE FALSE
    OBVIOUS
  <2>1. PICK m \in T : \A k \in T : m <= k
    <3>1. T \in SUBSET Nat
      OBVIOUS
    <3> HIDE DEF T
    <3> QED BY <3>1, Least
  <2>2. m # 0 /\ m - 1 \in Nat /\ m - 1 \in 0..N /\ ~(m <= m - 1) /\ (m - 1) + 1 = m
    BY <1>1, <1>2, <2>1
  <2>3. P(m - 1)
    BY <2>1, <2>2
  <2>4. P(m)
    BY <1>3, <2>1, <2>2, <2>3
  <2> QED BY <2>1, <2>4
<1>5. P(n)
  BY <1>1, <1>4
<1> QED BY <1>5 DEF P

(* The layers exclude the first k names of a path.                           *)
Refused(st, path, k, isDir) == LastMatchAt(st, Prefix(path, k), k < Len(path) \/ isDir) = Exclude

(* The gate refuses an argument exactly when the whole stack excludes it or a *)
(* directory above it.                                                       *)
LEMMA Gate ==
    ASSUME NEW root, root.path \in Seq(Names), NEW dir \in Seq(Names), Above(root.path, dir),
           NEW isDir \in BOOLEAN, NEW n, n = Len(dir) - Len(root.path)
    PROVE  /\ n \in Nat /\ Len(RelTo(root, dir)) = n
           /\ IsIgnored(Preload(root, dir, n).stack, RelTo(root, dir), isDir) <=>
                \E k \in 1..n : Refused(Load("full", root, dir, n), RelTo(root, dir), k, isDir)
<1> DEFINE rel == RelTo(root, dir)
           pre == Preload(root, dir, n).stack
           full == Load("full", root, dir, n)
<1>1. n \in Nat /\ rel \in Seq(Names) /\ Len(rel) = n
  BY LastLevel
<1>2. IsIgnored(pre, rel, isDir) <=> \E k \in 1..n : Out(pre, rel, k, k < n \/ isDir)
  <2> HIDE DEF pre, rel
  <2> QED BY <1>1, IgnoredIs
<1>3. pre = full \/ \E j \in 1..(n - 1) : Out(full, rel, j, TRUE)
  <2>1. n \in 0..(Len(dir) - Len(root.path))
    BY <1>1
  <2>2. Preload(root, dir, n) = Load("preload", root, dir, n)
    BY PreloadIs
  <2> QED BY <2>1, <2>2, PreloadTells
<1>4. pre = full \/ \E j \in 1..(n - 1) : Out(pre, rel, j, TRUE)
  <2>1. n \in 0..(Len(dir) - Len(root.path))
    BY <1>1
  <2>2. Preload(root, dir, n) = Load("preload", root, dir, n)
    BY PreloadIs
  <2> QED BY <2>1, <2>2, PreloadIsFull
<1> HIDE DEF pre, full, rel
<1>5. \A st : (\E j \in 1..(n - 1) : Out(st, rel, j, TRUE)) => \E k \in 1..n : Out(st, rel, k, k < n \/ isDir)
  <2>1. ASSUME NEW st, NEW j \in 1..(n - 1), Out(st, rel, j, TRUE)
        PROVE  j \in 1..n /\ Out(st, rel, j, j < n \/ isDir)
    <3>1. j \in 1..n /\ (j < n \/ isDir) = TRUE
      BY <1>1
    <3> QED BY <2>1, <3>1
  <2> QED BY <2>1
<1>6. (\E k \in 1..n : Out(pre, rel, k, k < n \/ isDir)) <=> \E k \in 1..n : Out(full, rel, k, k < n \/ isDir)
  BY <1>3, <1>4, <1>5
<1>7. \A k : Out(full, rel, k, k < n \/ isDir) <=> Refused(full, rel, k, isDir)
  BY <1>1 DEF Out, LastMatchAt, Refused
<1> QED BY <1>1, <1>2, <1>6, <1>7 DEF pre, full, rel

---------------------------------------------------------------------------
(* The replay, one directory at a time                                       *)

(* A file under an argument, as the walk of it spells the path.              *)
Spells(arg, p) == p \in Seq(Names) /\ Canonical(p) \in Files /\ Under(arg, p)

(* What the replay asks of a file that the walk of a directory spells.       *)
Graded(arg, root, p) ==
    LET st == FullStack(root, Parent(p))
        rel == RelTo(root, p)
    IN  /\ \A k \in 1..Len(rel) :
             LastMatchAt(st, Prefix(rel, k), k < Len(rel) /\ AsDir(arg, root, k)) # Exclude
        /\ \A k \in Len(RelTo(root, arg.path)) + 1 .. Len(rel) - 1 : Descends(st, Prefix(rel, k))
        /\ \A k \in Len(arg.path)..Len(p) - 1 : Canonical(Prefix(p, k)) \notin disk.locked

LEMMA SpelledIs ==
    ASSUME NEW arg, arg.path \in Dirs \cup DOMAIN LinkTo, NEW p
    PROVE  Spells(arg, p)
             <=> p \in {arg.path \o Below(f, Canonical(arg.path)) :
                          f \in {f \in Files : Above(Canonical(arg.path), f)}}
<1> DEFINE dir == arg.path
           c == Canonical(arg.path)
<1>1. dir \in Seq(Names) /\ c \in Seq(Names)
  BY TreeTypes, CanonicalIs
<1> HIDE DEF dir, c
<1>2. ASSUME NEW f \in Files, Above(c, f), p = dir \o Below(f, c) PROVE Spells(arg, p)
  <2>1. f \in Seq(Names)
    BY TreeTypes
  <2>2. Below(f, c) \in Seq(Names) /\ c \o Below(f, c) = f
    BY <1>1, <1>2, <2>1, Rejoined
  <2>3. p \in Seq(Names) /\ Above(dir, p) /\ Below(p, dir) = Below(f, c)
    BY <1>1, <1>2, <2>2, Joined
  <2>4. Canonical(p) = f
    <3>1. CASE dir \in Dirs
      <4>1. c = dir
        BY <3>1, CanonicalIs DEF c, dir
      <4>2. p = f
        BY <1>2, <2>2, <4>1
      <4> QED BY <4>2, CanonicalIs
    <3>2. CASE dir \in DOMAIN LinkTo
      <4>1. c = LinkTo[dir]
        BY <3>2, CanonicalIs DEF c, dir
      <4>2. Canonical(p) = LinkTo[dir] \o Below(p, dir)
        BY <2>3, <3>2, CanonicalIs
      <4> QED BY <2>2, <2>3, <4>1, <4>2
    <3> QED BY <3>1, <3>2 DEF dir
  <2> QED BY <2>2, <2>3, <2>4 DEF Spells, Under, dir, c
<1>3. ASSUME Spells(arg, p) PROVE \E f \in Files : Above(c, f) /\ p = dir \o Below(f, c)
  <2>1. p \in Seq(Names) /\ Above(dir, p) /\ Canonical(p) \in Files /\ Canonical(p) = c \o Below(p, dir)
    BY <1>3 DEF Spells, Under, dir, c
  <2>2. Below(p, dir) \in Seq(Names) /\ dir \o Below(p, dir) = p
    BY <1>1, <2>1, Rejoined
  <2>3. Above(c, Canonical(p)) /\ Below(Canonical(p), c) = Below(p, dir)
    BY <1>1, <2>1, <2>2, Joined
  <2> QED BY <2>1, <2>2, <2>3
<1> QED BY <1>2, <1>3 DEF dir, c

LEMMA ReplayedIs ==
    ASSUME NEW arg, arg.kind = "dir", arg.path \in Dirs \cup DOMAIN LinkTo, NEW p
    PROVE  p \in Replayed(arg) <=> Spells(arg, p) /\ Graded(arg, FormatRootOf(arg.path), p)
<1> DEFINE dir == arg.path
           root == FormatRootOf(dir)
           depth == Len(RelTo(root, dir))
           spelled == {dir \o Below(f, Canonical(dir)) : f \in {f \in Files : Above(Canonical(dir), f)}}
           full(f) == FullStack(root, Parent(f))
           isDir(rel, k) == k < Len(rel) /\ ~(k = depth /\ dir \in DOMAIN LinkTo)
           kept(rel, st) == \A k \in 1..Len(rel) : LastMatchAt(st, Prefix(rel, k), isDir(rel, k)) # Exclude
           listed(f) == \A k \in Len(dir)..Len(f) - 1 : Canonical(Prefix(f, k)) \notin disk.locked
<1>1. Replayed(arg) = {f \in spelled : /\ kept(RelTo(root, f), full(f))
                                       /\ ~PrunedBelow(full(f), RelTo(root, f), depth)
                                       /\ listed(f)}
  BY DEF Replayed
<1>2. p \in spelled <=> Spells(arg, p)
  BY SpelledIs
<1>3. Graded(arg, root, p) <=> /\ kept(RelTo(root, p), full(p))
                               /\ ~PrunedBelow(full(p), RelTo(root, p), depth)
                               /\ listed(p)
  BY DEF Graded, PrunedBelow, Descends, AsDir
<1> HIDE DEF spelled, full, kept, listed, depth
<1> QED BY <1>1, <1>2, <1>3

(* A file named is graded by the rules alone.                                *)
LEMMA ReplayedFileIs ==
    ASSUME NEW arg, arg.kind = "file", arg.path \in Files, NEW p
    PROVE  LET root == FormatRootOf(Parent(arg.path))
               rel == RelTo(root, arg.path)
           IN  p \in Replayed(arg) <=>
                 /\ p = arg.path
                 /\ \A k \in 1..Len(rel) :
                      LastMatchAt(FullStack(root, Parent(arg.path)), Prefix(rel, k), k < Len(rel)) # Exclude
<1> DEFINE dir == arg.path
           root == FormatRootOf(Parent(dir))
           depth == Len(RelTo(root, dir))
           spelled == {dir}
           full(f) == FullStack(root, Parent(f))
           isDir(rel, k) == k < Len(rel) /\ ~(k = depth /\ dir \in DOMAIN LinkTo)
           kept(rel, st) == \A k \in 1..Len(rel) : LastMatchAt(st, Prefix(rel, k), isDir(rel, k)) # Exclude
           listed(f) == \A k \in Len(dir)..Len(f) - 1 : Canonical(Prefix(f, k)) \notin disk.locked
<1>1. Replayed(arg) = {f \in spelled : /\ kept(RelTo(root, f), full(f))
                                       /\ ~PrunedBelow(full(f), RelTo(root, f), depth)
                                       /\ listed(f)}
  BY DEF Replayed
<1>2. dir \notin DOMAIN LinkTo /\ dir \in Seq(Names)
  BY TreeTypes
<1>3. Len(dir) \in Nat /\ depth \in Nat
  <2>1. Parent(dir) \in Seq(Names) /\ dir \in Seq(Names) /\ Above(Parent(dir), dir)
    <3>1. dir # <<>>
      BY TreeTypes
    <3>2. Parent(dir) \in Seq(Names) /\ Name(dir) \in Names /\ dir = Append(Parent(dir), Name(dir))
      BY <1>2, <3>1, LastSplit
    <3>3. Above(Parent(dir), Append(Parent(dir), Name(dir)))
      BY <3>2, AboveChild, AboveOrder
    <3> QED BY <1>2, <3>2, <3>3
  <2>2. root.path \in Seq(Names) /\ Above(root.path, Parent(dir))
    BY <2>1, RootIs
  <2>3. Above(root.path, dir)
    BY <2>1, <2>2, AboveOrder
  <2> HIDE DEF root, dir
  <2> QED BY <1>2, <2>2, <2>3, LastLevel
<1>4. listed(dir)
  <2>1. Len(dir)..(Len(dir) - 1) = {}
    BY <1>3
  <2> QED BY <2>1
<1>5. ~PrunedBelow(full(dir), RelTo(root, dir), depth)
  <2>1. (depth + 1)..(depth - 1) = {}
    BY <1>3
  <2> QED BY <2>1 DEF PrunedBelow
<1>6. kept(RelTo(root, dir), full(dir))
        <=> \A k \in 1..Len(RelTo(root, dir)) :
              LastMatchAt(FullStack(root, Parent(dir)), Prefix(RelTo(root, dir), k),
                          k < Len(RelTo(root, dir))) # Exclude
  <2>1. ASSUME NEW k \in 1..Len(RelTo(root, dir))
        PROVE  isDir(RelTo(root, dir), k) = (k < Len(RelTo(root, dir)))
    BY <1>2
  <2> HIDE DEF isDir, dir, root
  <2> QED BY <2>1
<1>7. p \in Replayed(arg) <=> p = dir /\ kept(RelTo(root, dir), full(dir))
  <2> HIDE DEF full, kept, listed, depth, root
  <2> QED BY <1>1, <1>4, <1>5
<1> QED BY <1>6, <1>7

LEMMA ChildPath ==
    ASSUME NEW root, root.path \in Seq(Names), NEW d \in Seq(Names), Above(root.path, d), NEW name \in Names
    PROVE  LET c == Append(d, name)
               rel == RelTo(root, d)
           IN  /\ c \in Seq(Names) /\ Len(c) = Len(d) + 1 /\ Len(d) \in Nat /\ Above(root.path, c) /\ Above(d, c)
               /\ rel \in Seq(Names) /\ Len(rel) \in Nat /\ Len(rel) = Len(d) - Len(root.path)
               /\ RelTo(root, c) = Append(rel, name) /\ Len(RelTo(root, c)) = Len(rel) + 1
               /\ RelTo(root, c) # <<>>
               /\ Prefix(RelTo(root, c), Len(rel) + 1) = RelTo(root, c) /\ Prefix(c, Len(d) + 1) = c
               /\ \A k \in 0..Len(rel) : Prefix(RelTo(root, c), k) = Prefix(rel, k)
               /\ \A k \in 0..Len(d) : Prefix(c, k) = Prefix(d, k)
<1> DEFINE c == Append(d, name)
           rel == RelTo(root, d)
<1>1. rel \in Seq(Names) /\ Len(rel) \in Nat /\ Len(rel) = Len(d) - Len(root.path)
  BY LastLevel
<1>2. RelTo(root, c) = Append(rel, name)
  BY BelowChild DEF RelTo
<1>3. Above(root.path, c) /\ Above(d, c)
  BY AboveChild, AboveOrder
<1>4. /\ c \in Seq(Names) /\ Len(c) = Len(d) + 1 /\ Prefix(c, Len(d) + 1) = c
      /\ \A k \in 0..Len(d) : Prefix(c, k) = Prefix(d, k)
  BY Appended
<1> HIDE DEF c, rel
<1>5. /\ Append(rel, name) # <<>> /\ Len(Append(rel, name)) = Len(rel) + 1
      /\ Prefix(Append(rel, name), Len(rel) + 1) = Append(rel, name)
      /\ \A k \in 0..Len(rel) : Prefix(Append(rel, name), k) = Prefix(rel, k)
  <2>1. rel \in Seq(Names)
    BY <1>1
  <2> QED BY SMTT(60), <2>1, Appended
<1>6. Len(d) \in Nat
  OBVIOUS
<1> QED BY <1>1, <1>2, <1>3, <1>4, <1>5, <1>6 DEF c, rel

(* A directory above one reached is reached.                                 *)
LEMMA ReachedAbove ==
    ASSUME NEW arg, NEW root, root.path \in Seq(Names), NEW d \in Seq(Names), Above(root.path, d),
           NEW e \in Seq(Names), Above(d, e), Reached(arg, root, e), Len(RelTo(root, arg.path)) \in Nat
    PROVE  Reached(arg, root, d)
<1> DEFINE rel == RelTo(root, d)
           far == RelTo(root, e)
<1>1. /\ rel \in Seq(Names) /\ Len(rel) \in Nat /\ Len(rel) = Len(d) - Len(root.path)
      /\ far \in Seq(Names) /\ Len(far) \in Nat /\ Len(far) = Len(e) - Len(root.path)
      /\ Len(d) \in Nat /\ Len(e) \in Nat /\ Len(root.path) \in Nat
  <2>1. Above(root.path, e)
    BY AboveOrder
  <2>2. Len(d) \in Nat /\ Len(e) \in Nat /\ Len(root.path) \in Nat
    OBVIOUS
  <2>3. Len(d) - Len(root.path) \in Nat /\ rel \in Seq(Names) /\ Len(rel) = Len(d) - Len(root.path)
    BY LastLevel
  <2>4. Len(e) - Len(root.path) \in Nat /\ far \in Seq(Names) /\ Len(far) = Len(e) - Len(root.path)
    BY <2>1, LastLevel
  <2> HIDE DEF rel, far
  <2> QED BY <2>2, <2>3, <2>4
<1>2. Len(d) <= Len(e) /\ Len(rel) <= Len(far) /\ Prefix(e, Len(d)) = d
  BY <1>1 DEF Above
<1>3. \A k \in 0..Len(d) : Prefix(e, k) = Prefix(d, k)
  BY <1>1, <1>2, PrefixOfPrefix
<1>4. \A k \in 0..Len(rel) : Prefix(far, k) = Prefix(rel, k) /\ Len(Prefix(rel, k)) = k
  <2>1. Above(root.path, e)
    BY AboveOrder
  <2>2. ASSUME NEW k \in 0..Len(rel) PROVE Prefix(far, k) = Prefix(rel, k) /\ Len(Prefix(rel, k)) = k
    <3>1. k \in 0..(Len(d) - Len(root.path)) /\ k \in 0..(Len(e) - Len(root.path))
      <4> HIDE DEF rel, far
      <4> QED BY <1>1, <1>2
    <3>2. /\ Below(Prefix(d, Len(root.path) + k), root.path) = Prefix(Below(d, root.path), k)
          /\ Len(Prefix(Below(d, root.path), k)) = k
          /\ Below(Prefix(e, Len(root.path) + k), root.path) = Prefix(Below(e, root.path), k)
      BY ZenonT(60), <2>1, <3>1, PrefixBelow
    <3>3. Len(root.path) + k \in 0..Len(d)
      <4> HIDE DEF rel, far
      <4> QED BY <1>1, <3>1
    <3> QED BY <1>3, <3>2, <3>3 DEF RelTo
  <2> QED BY <2>2
<1> HIDE DEF rel, far
<1>5. ASSUME NEW k \in 1..Len(rel)
      PROVE  /\ Prefix(far, k) = Prefix(rel, k) /\ Prefix(rel, k) # <<>>
             /\ SaySame(FullStack(root, e), FullStack(root, d), Prefix(rel, k))
  <2>1. k \in 0..Len(rel) /\ Prefix(far, k) = Prefix(rel, k) /\ Len(Prefix(rel, k)) = k /\ k # 0
    BY SMTT(60), <1>1, <1>4
  <2>2. Len(Prefix(rel, k)) \in Nat /\ Len(Prefix(rel, k)) <= Len(d) - Len(root.path) + 1
    BY SMTT(60), <1>1, <2>1
  <2> QED BY SMTT(60), <2>1, <2>2, SaidAbove
<1>6. /\ \A k \in 1..Len(far) : LastMatchAt(FullStack(root, e), Prefix(far, k), AsDir(arg, root, k)) # Exclude
      /\ \A k \in Len(RelTo(root, arg.path)) + 1 .. Len(far) : Descends(FullStack(root, e), Prefix(far, k))
      /\ \A k \in Len(arg.path)..Len(e) : Canonical(Prefix(e, k)) \notin disk.locked
  BY DEF Reached, far
<1>7. ASSUME NEW k \in 1..Len(rel) PROVE LastMatchAt(FullStack(root, d), Prefix(rel, k), AsDir(arg, root, k)) # Exclude
  <2>1. k \in 1..Len(far)
    BY <1>1, <1>2
  <2> QED BY <1>5, <1>6, <2>1 DEF SaySame
<1>8. ASSUME NEW k \in Len(RelTo(root, arg.path)) + 1 .. Len(rel) PROVE Descends(FullStack(root, d), Prefix(rel, k))
  <2>1. k \in Len(RelTo(root, arg.path)) + 1 .. Len(far) /\ k \in 1..Len(rel)
    BY <1>1, <1>2
  <2>2. Descends(FullStack(root, e), Prefix(rel, k))
    BY <1>5, <1>6, <2>1
  <2> QED BY <1>5, <2>1, <2>2, VerdictSame
<1>9. ASSUME NEW k \in Len(arg.path)..Len(d) PROVE Canonical(Prefix(d, k)) \notin disk.locked
  <2>1. k \in Len(arg.path)..Len(e)
    BY <1>1, <1>2
  <2> QED BY <1>3, <1>6, <2>1
<1> QED BY <1>7, <1>8, <1>9 DEF Reached, rel

(* One directory deeper: the walk descends to it and can list it.            *)
LEMMA ReachedChild ==
    ASSUME NEW arg, arg.path \in Seq(Names), NEW root, root.path \in Seq(Names), Above(root.path, arg.path),
           NEW d \in Seq(Names), Above(arg.path, d), NEW name \in Names, NEW c, c = Append(d, name)
    PROVE  Reached(arg, root, c) <=>
              /\ Reached(arg, root, d)
              /\ Descends(FullStack(root, d), RelTo(root, c))
              /\ Canonical(c) \notin disk.locked
<1> DEFINE rel == RelTo(root, d)
           far == RelTo(root, c)
           base == Len(RelTo(root, arg.path))
<1>1. Above(root.path, d)
  BY AboveOrder
<1>2. /\ c \in Seq(Names) /\ Len(c) = Len(d) + 1 /\ Len(d) \in Nat /\ Above(root.path, c) /\ Above(d, c)
      /\ rel \in Seq(Names) /\ Len(rel) \in Nat /\ Len(rel) = Len(d) - Len(root.path)
      /\ Len(far) = Len(rel) + 1 /\ far # <<>>
      /\ Prefix(far, Len(rel) + 1) = far /\ Prefix(c, Len(d) + 1) = c
      /\ \A k \in 0..Len(d) : Prefix(c, k) = Prefix(d, k)
  BY <1>1, ChildPath
<1>3. base \in Nat /\ base = Len(arg.path) - Len(root.path) /\ Len(arg.path) \in Nat /\ Len(root.path) \in Nat
  <2>1. base \in Nat /\ base = Len(arg.path) - Len(root.path)
    BY LastLevel
  <2> QED BY <2>1
<1>4. Len(arg.path) <= Len(d)
  BY DEF Above
<1>5. far \in Seq(Names)
  BY <1>2, LastLevel
<1> HIDE DEF rel, far, base
<1>6. base <= Len(rel)
  BY <1>2, <1>3, <1>4
<1>7. /\ \A k \in 1..Len(far) : k \in 1..Len(rel) \/ k = Len(far)
      /\ \A k \in base + 1 .. Len(far) : k # Len(far) => k \in base + 1 .. Len(rel) /\ k \in 1..Len(rel)
  <2>1. Len(far) = Len(rel) + 1 /\ Len(rel) \in Nat /\ base \in Nat
    BY <1>2, <1>3
  <2> QED BY SMTT(60), <2>1
<1>8. SaySame(FullStack(root, c), FullStack(root, d), far)
  <2>1. Len(far) \in Nat /\ Len(far) <= Len(d) - Len(root.path) + 1
    BY <1>2, <1>3
  <2> QED BY <1>1, <1>2, <2>1, SaidAbove
<1>9. Descends(FullStack(root, c), far) <=> Descends(FullStack(root, d), far)
  BY <1>2, <1>8, VerdictSame
<1>10. ASSUME Reached(arg, root, c)
      PROVE  Reached(arg, root, d) /\ Descends(FullStack(root, d), far) /\ Canonical(c) \notin disk.locked
  <2>1. Len(RelTo(root, arg.path)) \in Nat
    BY <1>3 DEF base
  <2>2. Reached(arg, root, d)
    BY <1>1, <1>2, <1>10, <2>1, ReachedAbove
  <2>3. /\ \A k \in base + 1 .. Len(far) : Descends(FullStack(root, c), Prefix(far, k))
        /\ \A k \in Len(arg.path)..Len(c) : Canonical(Prefix(c, k)) \notin disk.locked
    BY <1>10 DEF Reached, far, base
  <2>4. Len(far) \in base + 1 .. Len(far) /\ Len(c) \in Len(arg.path)..Len(c)
    BY SMTT(60), <1>2, <1>3, <1>4, <1>6
  <2>5. Descends(FullStack(root, c), far) /\ Canonical(c) \notin disk.locked
    BY <1>2, <2>3, <2>4
  <2> QED BY <1>9, <2>2, <2>5
<1>11. ASSUME Reached(arg, root, d), Descends(FullStack(root, d), far), Canonical(c) \notin disk.locked
       PROVE  Reached(arg, root, c)
  <2>1. /\ \A k \in 1..Len(rel) : LastMatchAt(FullStack(root, d), Prefix(rel, k), AsDir(arg, root, k)) # Exclude
        /\ \A k \in base + 1 .. Len(rel) : Descends(FullStack(root, d), Prefix(rel, k))
        /\ \A k \in Len(arg.path)..Len(d) : Canonical(Prefix(d, k)) \notin disk.locked
    BY <1>11 DEF Reached, rel, base
  <2>2. ASSUME NEW k \in 1..Len(rel)
        PROVE  /\ Prefix(far, k) = Prefix(rel, k) /\ Prefix(rel, k) # <<>>
               /\ SaySame(FullStack(root, c), FullStack(root, d), Prefix(rel, k))
    <3>1. k \in 0..Len(rel) /\ k # 0
      BY <1>2
    <3>2. Prefix(far, k) = Prefix(rel, k)
      BY <1>1, <3>1, ChildPath DEF rel, far
    <3>3. Len(Prefix(rel, k)) = k
      BY SMTT(60), <1>2, <3>1, PrefixIs
    <3>4. Len(Prefix(rel, k)) \in Nat /\ Len(Prefix(rel, k)) <= Len(d) - Len(root.path) + 1
      BY <1>2, <1>3, <3>3
    <3>5. SaySame(FullStack(root, c), FullStack(root, d), Prefix(rel, k))
      BY <1>1, <1>2, <3>4, SaidAbove
    <3>6. Prefix(rel, k) # <<>>
      BY <3>1, <3>3
    <3> QED BY <3>2, <3>5, <3>6
  <2>3. LastMatchAt(FullStack(root, c), far, TRUE) # Exclude
    <3>1. ClassifyInner(FullStack(root, d), far, ~HasGitignoreAbove(FullStack(root, d), far)) = "descend"
      BY <1>11 DEF Descends
    <3>2. LastMatchAt(FullStack(root, d), far, TRUE) # Exclude
      <4>1. (~HasGitignoreAbove(FullStack(root, d), far)) \in BOOLEAN
        OBVIOUS
      <4> QED BY <1>2, <3>1, <4>1, VerdictIs
    <3> QED BY <1>8, <3>2 DEF SaySame
  <2>4. ASSUME NEW k \in 1..Len(far)
        PROVE  LastMatchAt(FullStack(root, c), Prefix(far, k), AsDir(arg, root, k)) # Exclude
    <3>1. CASE k \in 1..Len(rel)
      BY <2>1, <2>2, <3>1 DEF SaySame
    <3>2. CASE k = Len(far)
      <4>1. AsDir(arg, root, k) = TRUE
        <5>1. k # base
          BY SMTT(60), <1>2, <1>3, <1>6, <3>2
        <5> QED BY <5>1 DEF AsDir, base
      <4>2. Prefix(far, k) = far
        BY <1>2, <3>2
      <4> QED BY <2>3, <4>1, <4>2
    <3> QED BY <1>7, <3>1, <3>2
  <2>5. ASSUME NEW k \in base + 1 .. Len(far) PROVE Descends(FullStack(root, c), Prefix(far, k))
    <3>1. CASE k = Len(far)
      BY <1>2, <1>9, <1>11, <3>1
    <3>2. CASE k # Len(far)
      <4>1. k \in base + 1 .. Len(rel) /\ k \in 1..Len(rel)
        BY <1>7, <3>2
      <4>2. Descends(FullStack(root, d), Prefix(rel, k))
        BY <2>1, <4>1
      <4> QED BY <2>2, <4>1, <4>2, VerdictSame
    <3> QED BY <3>1, <3>2
  <2>6. ASSUME NEW k \in Len(arg.path)..Len(c) PROVE Canonical(Prefix(c, k)) \notin disk.locked
    <3>1. CASE k = Len(c)
      BY <1>2, <1>11, <3>1
    <3>2. CASE k # Len(c)
      <4>1. k \in Len(arg.path)..Len(d) /\ k \in 0..Len(d)
        BY SMTT(60), <1>2, <1>3, <3>2
      <4> QED BY <1>2, <2>1, <4>1
    <3> QED BY <3>1, <3>2
  <2> QED BY <2>4, <2>5, <2>6 DEF Reached, far, base
<1> QED BY <1>10, <1>11 DEF far

(* A file: its directory is reached, and no rule excludes it.                *)
LEMMA FileGraded ==
    ASSUME NEW arg, arg.path \in Seq(Names), NEW root, root.path \in Seq(Names), Above(root.path, arg.path),
           NEW d \in Seq(Names), Above(arg.path, d), NEW name \in Names, NEW p, p = Append(d, name)
    PROVE  Graded(arg, root, p) <=>
              Reached(arg, root, d) /\ ~IsIgnoredLeaf(FullStack(root, d), RelTo(root, p), FALSE)
<1> DEFINE rel == RelTo(root, d)
           far == RelTo(root, p)
           base == Len(RelTo(root, arg.path))
           st == FullStack(root, d)
<1>1. Above(root.path, d)
  BY AboveOrder
<1>2. /\ p \in Seq(Names) /\ Len(p) = Len(d) + 1 /\ Len(d) \in Nat
      /\ rel \in Seq(Names) /\ Len(rel) \in Nat
      /\ Len(far) = Len(rel) + 1 /\ far # <<>> /\ Prefix(far, Len(rel) + 1) = far
      /\ \A k \in 0..Len(rel) : Prefix(far, k) = Prefix(rel, k)
      /\ \A k \in 0..Len(d) : Prefix(p, k) = Prefix(d, k)
  BY <1>1, ChildPath
<1>3. Parent(p) = d
  BY Appended
<1>4. base \in Nat /\ Len(arg.path) \in Nat
  BY LastLevel
<1>5. /\ Len(far) - 1 = Len(rel) /\ Len(p) - 1 = Len(d)
      /\ \A k \in 1..Len(far) : k \in 1..Len(rel) \/ k = Len(far)
      /\ \A k \in 1..Len(rel) : k \in 1..Len(far) /\ k < Len(far) /\ k \in 0..Len(rel)
      /\ Len(far) \in 1..Len(far)
      /\ \A k \in base + 1 .. Len(rel) : k \in 0..Len(rel)
      /\ \A k \in Len(arg.path)..Len(d) : k \in 0..Len(d)
  <2> HIDE DEF rel, far, base
  <2> QED BY SMTT(60), <1>2, <1>4
<1>6. IsIgnoredLeaf(st, far, FALSE) <=> LastMatchAt(st, far, FALSE) = Exclude
  BY <1>2 DEF IsIgnoredLeaf, LeafPolarity
<1> DEFINE Said(k) == LastMatchAt(st, Prefix(far, k), k < Len(far) /\ AsDir(arg, root, k)) # Exclude
           Heard(k) == LastMatchAt(st, Prefix(rel, k), AsDir(arg, root, k)) # Exclude
<1>7. \A k \in 1..Len(rel) : Said(k) <=> Heard(k)
  <2>1. ASSUME NEW k \in 1..Len(rel) PROVE (k < Len(far) /\ AsDir(arg, root, k)) = AsDir(arg, root, k)
    BY <1>5 DEF AsDir
  <2> HIDE DEF st
  <2> QED BY <1>2, <1>5, <2>1
<1>8. Said(Len(far)) <=> LastMatchAt(st, far, FALSE) # Exclude
  <2>1. (Len(far) < Len(far) /\ AsDir(arg, root, Len(far))) = FALSE
    BY <1>2
  <2>2. Prefix(far, Len(far)) = far
    BY <1>2
  <2> HIDE DEF far, st
  <2> QED BY <2>1, <2>2
<1>9. Graded(arg, root, p) <=>
        /\ \A k \in 1..Len(far) : Said(k)
        /\ \A k \in base + 1 .. Len(rel) : Descends(st, Prefix(far, k))
        /\ \A k \in Len(arg.path)..Len(d) : Canonical(Prefix(p, k)) \notin disk.locked
  BY <1>3, <1>5 DEF Graded
<1>10. Reached(arg, root, d) <=>
        /\ \A k \in 1..Len(rel) : Heard(k)
        /\ \A k \in base + 1 .. Len(rel) : Descends(st, Prefix(rel, k))
        /\ \A k \in Len(arg.path)..Len(d) : Canonical(Prefix(d, k)) \notin disk.locked
  BY DEF Reached
<1>11. (\A k \in base + 1 .. Len(rel) : Descends(st, Prefix(far, k)))
          <=> \A k \in base + 1 .. Len(rel) : Descends(st, Prefix(rel, k))
  BY SMTT(60), <1>2, <1>5
<1>12. (\A k \in Len(arg.path)..Len(d) : Canonical(Prefix(p, k)) \notin disk.locked)
          <=> \A k \in Len(arg.path)..Len(d) : Canonical(Prefix(d, k)) \notin disk.locked
  BY <1>2, <1>5
<1> HIDE DEF Said, Heard, far, rel, base, st
<1>13. (\A k \in 1..Len(far) : Said(k)) <=> (\A k \in 1..Len(rel) : Heard(k)) /\ Said(Len(far))
  BY <1>5, <1>7
<1> QED BY <1>6, <1>8, <1>9, <1>10, <1>11, <1>12, <1>13 DEF far, st

(* The argument itself: its gate lets it through, and it can be listed.      *)
LEMMA RootReached ==
    ASSUME NEW arg, arg.path \in Seq(Names), NEW root, root.path \in Seq(Names), Above(root.path, arg.path)
    PROVE  Reached(arg, root, arg.path) <=>
              /\ ~RootExcluded(Preload(root, arg.path, Len(arg.path) - Len(root.path)).stack,
                               RelTo(root, arg.path), arg.path \notin DOMAIN LinkTo)
              /\ Canonical(arg.path) \notin disk.locked
<1> DEFINE dir == arg.path
           n == Len(dir) - Len(root.path)
           isDir == dir \notin DOMAIN LinkTo
           rel == RelTo(root, dir)
           full == Load("full", root, dir, n)
           st == FullStack(root, dir)
           Heard(k) == LastMatchAt(st, Prefix(rel, k), AsDir(arg, root, k)) # Exclude
           Gated(k) == LastMatchAt(full, Prefix(rel, k), k < n \/ isDir) # Exclude
<1>1. n \in Nat /\ Len(rel) = n /\ rel \in Seq(Names) /\ Len(dir) \in Nat
  <2>1. n \in Nat /\ Len(rel) = n /\ rel \in Seq(Names)
    BY LastLevel
  <2> QED BY <2>1
<1>2. RootExcluded(Preload(root, dir, n).stack, rel, isDir) <=> \E k \in 1..n : ~Gated(k)
  <2>1. isDir \in BOOLEAN /\ dir \in Seq(Names) /\ Above(root.path, dir) /\ n = Len(dir) - Len(root.path)
    OBVIOUS
  <2> HIDE DEF isDir, dir, n
  <2>2. IsIgnored(Preload(root, dir, n).stack, RelTo(root, dir), isDir) <=>
           \E k \in 1..n : Refused(Load("full", root, dir, n), RelTo(root, dir), k, isDir)
    BY SMTT(60), <2>1, Gate
  <2>3. \A k : Refused(full, rel, k, isDir) <=> ~Gated(k)
    BY <1>1 DEF Refused
  <2> HIDE DEF Gated
  <2> QED BY <2>2, <2>3 DEF RootExcluded
<1>3. ASSUME NEW k \in 1..n PROVE Heard(k) <=> Gated(k)
  <2>1. k \in 0..Len(rel)
    BY <1>1
  <2>2. Len(Prefix(rel, k)) = k
    <3> HIDE DEF rel
    <3> QED BY <1>1, <2>1, PrefixIs
  <2>3. Len(Prefix(rel, k)) \in Nat /\ Len(Prefix(rel, k)) <= Len(dir) - Len(root.path)
    <3> HIDE DEF rel
    <3> QED BY <1>1, <2>2
  <2>4. SaySame(st, Load("full", root, dir, Len(dir) - Len(root.path)), Prefix(rel, k))
    BY <2>3, SaidByParent
  <2>5. AsDir(arg, root, k) = (k < n \/ isDir)
    <3>1. k # n <=> k < n
      <4> HIDE DEF n, rel, full, st, Heard, Gated
      <4> QED BY <1>1
    <3> QED BY <1>1, <3>1 DEF AsDir
  <2>6. LastMatchAt(st, Prefix(rel, k), AsDir(arg, root, k))
          = LastMatchAt(full, Prefix(rel, k), AsDir(arg, root, k))
    BY <2>4 DEF SaySame
  <2> HIDE DEF st, full
  <2> QED BY <2>5, <2>6
<1>4. Reached(arg, root, dir) <=> (\A k \in 1..n : Heard(k)) /\ Canonical(dir) \notin disk.locked
  <2>1. Len(rel) + 1 .. Len(rel) = {} /\ Len(dir)..Len(dir) = {Len(dir)} /\ Prefix(dir, Len(dir)) = dir
    <3>1. Prefix(dir, Len(dir)) = dir
      BY <1>1, PrefixIs
    <3>2. Len(rel) \in Nat /\ Len(dir) \in Nat
      BY <1>1
    <3> HIDE DEF rel, dir
    <3>3. Len(rel) + 1 .. Len(rel) = {}
      BY <3>2
    <3>4. Len(dir)..Len(dir) = {Len(dir)}
      BY <3>2
    <3> QED BY <3>1, <3>3, <3>4
  <2> QED BY SMTT(60), <1>1, <2>1 DEF Reached
<1> HIDE DEF Heard, Gated
<1> QED BY <1>2, <1>3, <1>4

(* What lies above a path does so under another name of the directory above.  *)
LEMMA AboveRenamed ==
    ASSUME NEW s \in Seq(Names), NEW a \in Seq(Names), NEW c \in Seq(Names), NEW p \in Seq(Names),
           Above(s, c), Above(c, p)
    PROVE  /\ a \o Below(c, s) \in Seq(Names) /\ Len(a \o Below(c, s)) = Len(a) + (Len(c) - Len(s))
           /\ a \o Below(p, s) \in Seq(Names) /\ Len(a \o Below(p, s)) = Len(a) + (Len(p) - Len(s))
           /\ Above(a \o Below(c, s), a \o Below(p, s))
<1>1. Above(s, p)
  BY AboveOrder
<1> DEFINE b == Below(c, s)
           q == Below(p, s)
<1>2. /\ b \in Seq(Names) /\ Len(b) = Len(c) - Len(s) /\ \A i \in 1..(Len(c) - Len(s)) : b[i] = c[Len(s) + i]
      /\ q \in Seq(Names) /\ Len(q) = Len(p) - Len(s) /\ \A i \in 1..(Len(p) - Len(s)) : q[i] = p[Len(s) + i]
  BY <1>1, Rejoined
<1>3. Len(c) <= Len(p) /\ \A i \in 1..Len(c) : c[i] = p[i]
  BY AboveIs
<1>4. Len(c) \in Nat /\ Len(p) \in Nat /\ Len(s) \in Nat /\ Len(a) \in Nat /\ Len(s) <= Len(c)
  BY DEF Above
<1> HIDE DEF b, q
<1>5. Len(b) <= Len(q) /\ \A i \in 1..Len(b) : b[i] = q[i]
  <2>1. ASSUME NEW i \in 1..Len(b) PROVE b[i] = q[i]
    <3>1. i \in 1..(Len(c) - Len(s)) /\ i \in 1..(Len(p) - Len(s)) /\ Len(s) + i \in 1..Len(c)
      BY <1>2, <1>3, <1>4
    <3> QED BY SMTT(60), <1>2, <1>3, <3>1
  <2> QED BY <1>2, <1>3, <1>4, <2>1
<1>6. a \o b \in Seq(Names) /\ Len(a \o b) = Len(a) + Len(b) /\ a \o q \in Seq(Names) /\ Len(a \o q) = Len(a) + Len(q)
  BY <1>2, Joined
<1>7. Len(a \o b) <= Len(a \o q)
  BY <1>2, <1>3, <1>4, <1>6
<1>8. ASSUME NEW i \in 1..Len(a \o b) PROVE (a \o b)[i] = (a \o q)[i]
  <2>1. CASE i <= Len(a)
    BY <1>2, <2>1
  <2>2. CASE ~(i <= Len(a))
    <3>1. i - Len(a) \in 1..Len(b)
      BY <1>2, <1>4, <1>6, <2>2
    <3> QED BY SMTT(60), <1>2, <1>4, <1>5, <1>6, <1>7, <2>2, <3>1
  <2> QED BY <2>1, <2>2
<1>9. Above(a \o b, a \o q)
  BY <1>6, <1>7, <1>8, AboveIs
<1> QED BY <1>2, <1>6, <1>9 DEF b, q

(* Under an argument, what lies above in one spelling does in the other.     *)
LEMMA CanonicalAbove ==
    ASSUME NEW arg, arg.path \in Seq(Names), NEW c \in Seq(Names), Under(arg, c),
           NEW p \in Seq(Names), Under(arg, p), Above(c, p)
    PROVE  /\ Canonical(c) \in Seq(Names) /\ Above(Canonical(c), Canonical(p))
           /\ Canonical(c) = Canonical(p) => c = p
<1> DEFINE s == arg.path
           a == Canonical(s)
<1>1. /\ Above(s, p) /\ Above(s, c)
      /\ Canonical(p) = a \o Below(p, s) /\ Canonical(c) = a \o Below(c, s)
  BY DEF Under
<1>2. a \in Seq(Names) /\ s \in Seq(Names)
  BY CanonicalIs
<1> HIDE DEF a, s
<1>3. /\ Canonical(c) \in Seq(Names) /\ Len(Canonical(c)) = Len(a) + (Len(c) - Len(s))
      /\ Len(Canonical(p)) = Len(a) + (Len(p) - Len(s))
      /\ Above(Canonical(c), Canonical(p))
  <2>1. /\ a \o Below(c, s) \in Seq(Names) /\ Len(a \o Below(c, s)) = Len(a) + (Len(c) - Len(s))
        /\ Len(a \o Below(p, s)) = Len(a) + (Len(p) - Len(s))
        /\ Above(a \o Below(c, s), a \o Below(p, s))
    BY <1>1, <1>2, AboveRenamed
  <2> QED BY <1>1, <2>1
<1>4. Len(p) \in Nat /\ Len(c) \in Nat /\ Len(a) \in Nat /\ Len(s) \in Nat
  BY <1>2
<1>5. ASSUME Canonical(c) = Canonical(p) PROVE c = p
  <2>1. Len(c) = Len(p)
    BY <1>3, <1>4, <1>5
  <2>2. Above(p, p)
    BY AboveOrder
  <2> QED BY <2>1, <2>2, AboveOrder
<1> QED BY <1>3, <1>5

(* Where the files are, the paths end.                                       *)
LEMMA FilesEnd ==
    ASSUME NEW arg, arg.path \in Seq(Names), NEW c \in Seq(Names), Under(arg, c),
           NEW p \in Seq(Names), Under(arg, p), Canonical(p) \in Dirs \cup Files, Above(c, p)
    PROVE  /\ Canonical(c) \in Files => c = p
           /\ Canonical(c) \in Dirs /\ Canonical(p) \in Files => c # p
<1>1. /\ Canonical(c) \in Seq(Names) /\ Above(Canonical(c), Canonical(p))
      /\ Canonical(c) = Canonical(p) => c = p
  BY CanonicalAbove
<1>2. Canonical(c) = Canonical(p) \/ Canonical(c) \in Dirs
  <2>1. Canonical(p) \in Paths
    BY DEF Paths
  <2> QED BY <1>1, <2>1, AboveInTree
<1> QED BY <1>1, <1>2, TreeTypes

(* The way down to a path goes through the listing of each directory on it.  *)
LEMMA NextName ==
    ASSUME NEW arg, arg.path \in Seq(Names),
           NEW d \in Seq(Names), Under(arg, d), Canonical(d) \in Dirs,
           NEW p \in Seq(Names), Under(arg, p), Canonical(p) \in Dirs \cup Files, Above(d, p), d # p
    PROVE  \E name \in Entries(d) : name \in Names /\ Above(Append(d, name), p)
<1> DEFINE a == Canonical(arg.path)
           name == p[Len(d) + 1]
           c == Append(d, name)
           q == Append(Canonical(d), name)
<1>1. /\ Above(arg.path, p) /\ Above(arg.path, d)
      /\ Canonical(p) = a \o Below(p, arg.path) /\ Canonical(d) = a \o Below(d, arg.path)
  BY DEF Under
<1>2. a \in Seq(Names) /\ Canonical(d) \in Seq(Names)
  BY CanonicalIs
<1>3. Len(d) \in Nat /\ Len(p) \in Nat /\ Len(d) < Len(p)
  <2>1. Len(d) <= Len(p) /\ Len(d) \in Nat /\ Len(p) \in Nat
    BY DEF Above
  <2>2. Len(d) # Len(p)
    <3>1. Above(p, p)
      BY AboveOrder
    <3> QED BY <3>1, AboveOrder
  <2> QED BY <2>1, <2>2
<1>4. name \in Names
  BY <1>3
<1> HIDE DEF a, name
<1>5. c \in Seq(Names) /\ Above(c, p)
  <2>1. c \in Seq(Names) /\ Len(c) = Len(d) + 1 /\ c[Len(d) + 1] = name /\ \A i \in 1..Len(d) : c[i] = d[i]
    BY <1>4
  <2>2. \A i \in 1..Len(d) : d[i] = p[i]
    BY AboveIs
  <2>3. \A i \in 1..Len(c) : c[i] = p[i]
    <3> HIDE DEF c
    <3>1. \A i \in 1..Len(c) : i \in 1..Len(d) \/ i = Len(d) + 1
      BY <1>3, <2>1
    <3> QED BY <2>1, <2>2, <3>1 DEF name
  <2> HIDE DEF c
  <2>4. Len(c) <= Len(p)
    BY <1>3, <2>1
  <2> QED BY SMTT(60), <2>1, <2>3, <2>4, AboveIs
<1>6. Above(arg.path, c) /\ a \o Below(c, arg.path) = q
  <2>1. Above(arg.path, c)
    BY <1>1, <1>4, AboveChild
  <2>2. a \o Below(Append(d, name), arg.path) = Append(a \o Below(d, arg.path), name)
    <3>1. Above(arg.path, d)
      BY <1>1
    <3>2. a \in Seq(Names)
      BY <1>2
    <3> HIDE DEF c, q
    <3>3. \A b \in Seq(Names) : b \o Below(Append(d, name), arg.path) = Append(b \o Below(d, arg.path), name)
      BY SMTT(60), <1>4, <3>1, BelowChild
    <3> QED BY SMTT(60), <3>2, <3>3
  <2> QED BY <1>1, <2>1, <2>2
<1>7. q \in Seq(Names) /\ Above(q, Canonical(p))
  <2> HIDE DEF c, q
  <2>1. Above(a \o Below(c, arg.path), a \o Below(p, arg.path)) /\ a \o Below(c, arg.path) \in Seq(Names)
    BY <1>1, <1>2, <1>5, <1>6, AboveRenamed
  <2> QED BY <1>1, <1>6, <2>1
<1>8. q \in Dirs \cup Files
  <2>1. Canonical(p) \in Paths
    BY DEF Paths
  <2> HIDE DEF q
  <2> QED BY <1>7, <2>1, AboveInTree
<1>9. q # <<>> /\ Parent(q) = Canonical(d) /\ Name(q) = name
  BY ZenonT(150), <1>2, <1>4, Appended
<1>10. name \in Entries(d)
  BY <1>8, <1>9 DEF Entries
<1> QED BY <1>4, <1>5, <1>10

(* The replay of a file passes every directory above it.                     *)
LEMMA GradedAbove ==
    ASSUME NEW arg, arg.path \in Seq(Names), NEW root, root.path \in Seq(Names), Above(root.path, arg.path),
           NEW p, Spells(arg, p), Graded(arg, root, p),
           NEW d \in Seq(Names), Above(arg.path, d), Above(d, p), d # p
    PROVE  Reached(arg, root, d)
<1>1. p \in Seq(Names) /\ Above(arg.path, p)
  BY DEF Spells, Under
<1>2. p # <<>>
  <2>1. Len(d) <= Len(p) /\ Len(d) \in Nat
    BY DEF Above
  <2>2. p = <<>> => d = p
    <3> SUFFICES ASSUME p = <<>> PROVE d = p
      OBVIOUS
    <3>1. Len(d) = Len(p) /\ Above(p, p)
      BY <1>1, <2>1, AboveOrder
    <3> QED BY <1>1, <3>1, AboveOrder
  <2> QED BY <2>2
<1> DEFINE e == Parent(p)
           name == Name(p)
<1>3. e \in Seq(Names) /\ name \in Names /\ p = Append(e, name)
  BY <1>1, <1>2, LastSplit
<1> HIDE DEF e, name
<1>4. Above(d, e)
  BY <1>3, AboveChild
<1>5. Above(arg.path, e) /\ Above(root.path, d)
  BY <1>3, <1>4, AboveOrder
<1>6. Reached(arg, root, e)
  BY <1>3, <1>5, FileGraded
<1>7. Len(RelTo(root, arg.path)) \in Nat
  <2>1. Len(arg.path) - Len(root.path) \in Nat /\ Len(RelTo(root, arg.path)) = Len(arg.path) - Len(root.path)
    BY LastLevel
  <2> QED BY <2>1
<1> QED BY <1>3, <1>4, <1>5, <1>6, <1>7, ReachedAbove

(* A file named is taken exactly when it is in the scope it is graded in.    *)
LEMMA FileNamed ==
    ASSUME NEW arg, arg.kind = "file", arg.path \in Files, NEW moved, ScopeFor(moved, Parent(arg.path)), NEW p
    PROVE  p \in Replayed(arg)
             <=> p = arg.path /\ ~IsIgnored(moved.stack, RelTo(moved.root, arg.path), FALSE)
<1> DEFINE file == arg.path
           dir == Parent(file)
           root == FormatRootOf(dir)
           n == Len(file) - Len(root.path)
           rel == RelTo(root, file)
           st == FullStack(root, dir)
           pre == Preload(root, file, n).stack
           Kept(k) == LastMatchAt(st, Prefix(rel, k), k < Len(rel)) # Exclude
<1>1. /\ file \in Seq(Names) /\ dir \in Seq(Names) /\ Len(dir) = Len(file) - 1 /\ Len(file) \in Nat
      /\ Above(dir, file) /\ \A k \in 0..Len(dir) : Prefix(file, k) = Prefix(dir, k)
  <2>1. file \in Seq(Names) /\ file # <<>>
    BY TreeTypes
  <2> HIDE DEF file
  <2>2. dir \in Seq(Names) /\ Name(file) \in Names /\ Len(dir) = Len(file) - 1 /\ file = Append(dir, Name(file))
    BY <2>1, LastSplit
  <2> DEFINE name == Name(file)
  <2> HIDE DEF dir, name
  <2>3. Above(dir, Append(dir, name)) /\ \A k \in 0..Len(dir) : Prefix(Append(dir, name), k) = Prefix(dir, k)
    BY <2>2, AboveChild, AboveOrder, Appended DEF name
  <2>4. Len(file) \in Nat
    BY <2>1
  <2> QED BY <2>1, <2>2, <2>3, <2>4 DEF name
<1> HIDE DEF file, dir
<1>2. root.path \in Seq(Names) /\ Above(root.path, dir) /\ Above(root.path, file)
  <2>1. root.path \in Seq(Names) /\ Above(root.path, dir)
    BY <1>1, RootIs
  <2> QED BY <1>1, <2>1, AboveOrder
<1> HIDE DEF root
<1>3. n \in Nat /\ Len(rel) = n /\ n = Len(dir) - Len(root.path) + 1 /\ Len(root.path) \in Nat
  <2>1. n \in Nat /\ Len(rel) = n
    BY <1>1, <1>2, LastLevel
  <2>2. Len(root.path) \in Nat
    BY <1>2
  <2> HIDE DEF rel
  <2> QED BY <1>1, <2>1, <2>2
<1>4. \A k \in 1..n : Level(root, dir, k) = Level(root, file, k)
  <2>1. ASSUME NEW k \in 1..n PROVE Len(root.path) + k - 1 \in 0..Len(dir)
    <3> HIDE DEF rel
    <3> QED BY <1>1, <1>3
  <2> HIDE DEF n
  <2> QED BY <1>1, <2>1 DEF Level
<1>5. moved.root = root /\ moved.stack = pre
  <2>1. /\ moved.root = root /\ Len(moved.dirs) = Len(dir) - Len(root.path) + 1
        /\ moved.stack = Preload(root, dir, Len(moved.dirs)).stack
    BY DEF ScopeFor, file, dir, root
  <2>2. moved.stack = Preload(root, dir, n).stack
    BY <1>3, <2>1
  <2> HIDE DEF n
  <2>3. Preload(root, dir, n) = Preload(root, file, n)
    BY <1>3, <1>4, PreloadShared
  <2> QED BY <2>1, <2>2, <2>3
<1>6. st = Load("full", root, file, n)
  <2>1. st = Load("full", root, dir, n)
    BY <1>3, FullStackIs
  <2> HIDE DEF n, st
  <2>2. Load("full", root, dir, n) = Load("full", root, file, n)
    <3>1. n \in Nat
      BY <1>3
    <3> HIDE DEF rel, pre, Kept
    <3> QED BY <1>4, <3>1, LoadSteps
  <2> QED BY <2>1, <2>2
<1>7. IsIgnored(pre, rel, FALSE) <=> \E k \in 1..n : Refused(st, rel, k, FALSE)
  <2>1. n = Len(file) - Len(root.path) /\ FALSE \in BOOLEAN
    OBVIOUS
  <2> HIDE DEF n, st
  <2> QED BY <1>1, <1>2, <1>6, <2>1, Gate
<1>8. \A k : Refused(st, rel, k, FALSE) <=> ~Kept(k)
  <2>1. \A k : (k < Len(rel) \/ FALSE) = (k < Len(rel))
    OBVIOUS
  <2> HIDE DEF st, rel
  <2> QED BY <2>1 DEF Refused
<1>9. p \in Replayed(arg) <=> p = file /\ \A k \in 1..n : Kept(k)
  <2>1. p \in Replayed(arg) <=> p = file /\ \A k \in 1..Len(rel) : Kept(k)
    BY ReplayedFileIs DEF file, dir, root
  <2> HIDE DEF Kept, rel, n
  <2> QED BY <1>3, <2>1
<1> HIDE DEF Kept, rel, n, st, pre
<1> QED BY <1>5, <1>7, <1>8, <1>9 DEF file, rel

---------------------------------------------------------------------------
(* What no step changes                                                      *)

LEMMA ReplayedKept ==
    ASSUME disk' = disk, NEW arg
    PROVE  Replayed(arg)' = Replayed(arg)
<1>1. /\ \A dir : FormatRootOf(dir)' = FormatRootOf(dir)
      /\ \A root, dir : FullStack(root, dir)' = FullStack(root, dir)
  BY RootKept, FullStackKept
<1> QED BY ZenonT(60), <1>1 DEF Replayed

LEMMA FrameReachedKept ==
    ASSUME disk' = disk, NEW fs, NEW i, NEW root, NEW arg
    PROVE  FrameReached(fs, i, root, arg)' <=> FrameReached(fs, i, root, arg)
<1>1. \A d : FullStack(root, d)' = FullStack(root, d)
  BY FullStackKept
<1> QED BY <1>1 DEF FrameReached, Reached

(* The frames after a step are reached. *)
LEMMA ReachedNext ==
    ASSUME disk' = disk, args' = args, \A i \in 1..Len(frames') : FrameReached(frames', i, formatRoot', args[at'])
    PROVE  FramesReached'
<1>1. \A i : FrameReached(frames, i, formatRoot, args[at])' <=> FrameReached(frames', i, formatRoot', args'[at'])
  BY FrameReachedKept
<1> QED BY <1>1 DEF FramesReached

(* What an argument adds, or a step of its walk.                             *)
LEMMA TakenNext ==
    ASSUME disk' = disk, args' = args, TakenStands, at \in Nat,
           at' = at \/ (at' = at + 1 /\ frames = <<>>),
           \A p \in DOMAIN found : p \in DOMAIN (found'),
           \A p \in DOMAIN (found') : p \in DOMAIN found \/ (at' \in 1..Len(args) /\ p \in Replayed(args[at'])),
           at' \in 1..Len(args) =>
              \A p \in Replayed(args[at']) : p \in DOMAIN (found') \/ ~Ahead(frames', p)
    PROVE  TakenStands'
<1> DEFINE now == at'
           fs == frames'
           bag == found'
<1>1. \A i : Replayed(args[i])' = Replayed(args[i])
  BY ReplayedKept
<1>2. now \in Nat /\ at <= now
  OBVIOUS
<1>3. ASSUME NEW p \in DOMAIN bag PROVE \E i \in 1..Len(args) : i <= now /\ p \in Replayed(args[i])
  <2>1. CASE p \in DOMAIN found
    <3>1. PICK i \in 1..Len(args) : i <= at /\ p \in Replayed(args[i])
      BY <2>1 DEF TakenStands
    <3>2. i <= now
      <4> HIDE DEF now
      <4> QED BY <1>2, <3>1
    <3> QED BY <3>1, <3>2
  <2>2. CASE p \notin DOMAIN found
    <3>1. now \in 1..Len(args) /\ p \in Replayed(args[now])
      BY <2>2
    <3> QED BY <1>2, <3>1
  <2> QED BY <2>1, <2>2
<1>4. ASSUME NEW i \in 1..Len(args), i <= now, NEW p \in Replayed(args[i])
      PROVE  p \in DOMAIN bag \/ (i = now /\ ~Ahead(fs, p))
  <2>1. CASE i = now
    BY <2>1
  <2>2. CASE i # now
    <3>1. i <= at /\ (i # at \/ frames = <<>>)
      BY <1>4, <2>2
    <3>2. \A q : frames = <<>> => Ahead(frames, q)
      BY WalkNone
    <3>3. p \in DOMAIN found
      BY <3>1, <3>2 DEF TakenStands
    <3> QED BY <3>3
  <2> QED BY <2>1, <2>2
<1>5. TakenStands' <=>
        /\ \A p \in DOMAIN bag : \E i \in 1..Len(args) : i <= now /\ p \in Replayed(args[i])
        /\ \A i \in 1..Len(args) : i <= now =>
              \A p \in Replayed(args[i]) : p \in DOMAIN bag \/ (i = now /\ ~Ahead(fs, p))
  BY <1>1 DEF TakenStands
<1> HIDE DEF now, fs, bag
<1> QED BY <1>3, <1>4, <1>5

---------------------------------------------------------------------------
(* What is still ahead                                                       *)

LEMMA CrossedElsewhere ==
    ASSUME NEW fs, NEW st, NEW root, NEW arg, Walk(fs, st, root, arg), fs # <<>>, NEW name, NEW gs,
           CrossedOff(fs, name, gs)
    PROVE  /\ \A i \in 1..Len(fs) : gs[i].dir = fs[i].dir /\ gs[i].active = fs[i].active
           /\ \A i \in 1..Len(fs) : i # Len(fs) => gs[i].todo = fs[i].todo
<1> DEFINE n == Len(fs)
<1>1. IsSeq(fs) /\ n \in 1..n
  BY LastFrame DEF Walk
<1>2. DOMAIN fs = 1..n
  <2>1. fs \in Seq(Elements(fs)) /\ n \in Nat
    BY <1>1 DEF IsSeq
  <2> HIDE DEF Elements
  <2> QED BY <2>1
<1>3. \A i \in 1..n : fs[i] = [dir |-> fs[i].dir, todo |-> fs[i].todo, pushed |-> fs[i].pushed, active |-> fs[i].active]
  BY FramesAre
<1>4. gs = [fs EXCEPT ![n] = [fs[n] EXCEPT !.todo = @ \ {name}]]
  BY DEF CrossedOff
<1> HIDE DEF n
<1>5. \A i \in 1..n : i # n => gs[i] = fs[i]
  BY <1>2, <1>4
<1>6. gs[n] = [fs[n] EXCEPT !.todo = @ \ {name}]
  BY <1>1, <1>2, <1>4
<1>7. gs[n].dir = fs[n].dir /\ gs[n].active = fs[n].active
  BY <1>1, <1>3, <1>6
<1> QED BY <1>5, <1>7 DEF n

(* What was ahead still is, or lies under the name crossed off.              *)
LEMMA StillAhead ==
    ASSUME NEW fs, NEW st, NEW root, NEW arg, Walk(fs, st, root, arg), fs # <<>>, NEW name, NEW gs,
           CrossedOff(fs, name, gs), NEW p, ~Ahead(fs, p)
    PROVE  ~Ahead(gs, p) \/ Above(Append(fs[Len(fs)].dir, name), p)
<1> DEFINE n == Len(fs)
<1>1. PICK i \in 1..n : \E m \in fs[i].todo : Above(Append(fs[i].dir, m), p)
  BY DEF Ahead
<1>2. PICK m \in fs[i].todo : Above(Append(fs[i].dir, m), p)
  BY <1>1
<1>3. /\ Len(gs) = n /\ gs[n].todo = fs[n].todo \ {name}
      /\ \A j \in 1..n : gs[j].dir = fs[j].dir
  BY Crossed
<1>4. \A j \in 1..n : j # n => gs[j].todo = fs[j].todo
  BY CrossedElsewhere
<1> HIDE DEF n
<1>5. CASE i # n
  <2>1. i \in 1..Len(gs) /\ m \in gs[i].todo /\ Above(Append(gs[i].dir, m), p)
    BY <1>2, <1>3, <1>4, <1>5
  <2> QED BY <2>1 DEF Ahead
<1>6. CASE i = n /\ m # name
  <2>1. i \in 1..Len(gs) /\ m \in gs[i].todo /\ Above(Append(gs[i].dir, m), p)
    BY <1>2, <1>3, <1>6
  <2> QED BY <2>1 DEF Ahead
<1>7. CASE i = n /\ m = name
  BY <1>2, <1>7 DEF n
<1> QED BY <1>5, <1>6, <1>7

(* A frame opened keeps what is ahead, and adds what it lists.               *)
LEMMA OpenedAhead ==
    ASSUME NEW fs, IsSeq(fs), NEW frame, NEW p
    PROVE  /\ Len(Append(fs, frame)) = Len(fs) + 1 /\ Append(fs, frame)[Len(fs) + 1] = frame
           /\ \A i \in 1..Len(fs) : Append(fs, frame)[i] = fs[i]
           /\ ~Ahead(fs, p) => ~Ahead(Append(fs, frame), p)
           /\ (\E m \in frame.todo : Above(Append(frame.dir, m), p)) => ~Ahead(Append(fs, frame), p)
<1> DEFINE gs == Append(fs, frame)
           n == Len(fs)
<1>1. Len(gs) = n + 1 /\ gs[n + 1] = frame /\ (\A i \in 1..n : gs[i] = fs[i]) /\ n \in Nat
  BY SeqGrows DEF IsSeq
<1> HIDE DEF gs, n
<1>2. 1..n \subseteq 1..(n + 1) /\ n + 1 \in 1..(n + 1)
  BY <1>1
<1>3. ASSUME ~Ahead(fs, p) PROVE ~Ahead(gs, p)
  <2>1. PICK i \in 1..n : \E m \in fs[i].todo : Above(Append(fs[i].dir, m), p)
    BY <1>3 DEF Ahead, n
  <2>2. i \in 1..Len(gs) /\ \E m \in gs[i].todo : Above(Append(gs[i].dir, m), p)
    BY <1>1, <1>2, <2>1
  <2> QED BY <2>2 DEF Ahead
<1>4. ASSUME \E m \in frame.todo : Above(Append(frame.dir, m), p) PROVE ~Ahead(gs, p)
  <2>1. n + 1 \in 1..Len(gs) /\ \E m \in gs[n + 1].todo : Above(Append(gs[n + 1].dir, m), p)
    BY <1>1, <1>2, <1>4
  <2> QED BY <2>1 DEF Ahead
<1> QED BY <1>1, <1>3, <1>4 DEF gs, n

---------------------------------------------------------------------------
(* Every step                                                                *)

LEMMA RootNamed ==
    ASSUME ArgsStand, NEW i \in 1..Len(args), args[i].kind = "dir"
    PROVE  args[i].path \in Dirs \cup DOMAIN LinkTo
<1>1. args[i] \in Arguments
  BY DEF ArgsStand
<1> DEFINE a == args[i]
<1> HIDE DEF a
<1>2. \/ a.kind = "dir" /\ a.path \in Dirs \cup DOMAIN LinkTo
      \/ a.kind = "file" /\ a.path \in Files
  BY <1>1 DEF Arguments, a
<1>3. a.kind = "dir"
  BY DEF a
<1> QED BY <1>2, <1>3 DEF a

LEMMA OpenTells ==
    ASSUME NEW dir, NEW outer, NEW isTarget, NEW active, NEW st, NEW root, NEW raised,
           Open(dir, outer, isTarget, active, st, root, raised)
    PROVE  \/ Canonical(dir) \in disk.locked /\ frames' = outer
           \/ /\ Canonical(dir) \notin disk.locked
              /\ frames' = Append(outer, [dir |-> dir, todo |-> Entries(dir),
                                          pushed |-> PushLayers(st, dir, root).pushed,
                                          active |-> ChildHeuristic(active, PushLayers(st, dir, root).pushed)])
BY DEF Open

(* Where a walk is when it takes up a name.                                  *)
LEMMA Visiting ==
    ASSUME ReplayInv, frames # <<>>, NEW name \in Top.todo
    PROVE  /\ formatRoot = FormatRootOf(args[at].path) /\ formatRoot.path \in Seq(Names)
           /\ Above(formatRoot.path, args[at].path) /\ Above(args[at].path, Top.dir)
           /\ args[at].path \in Dirs \cup DOMAIN LinkTo
           /\ stack = FullStack(formatRoot, Top.dir) /\ IsStack(stack)
           /\ Reached(args[at], formatRoot, Top.dir) /\ Top.active = (stack.gitignore = <<>>)
           /\ name \in Names /\ Child(name) = Append(Top.dir, name) /\ Child(name) \in Seq(Names)
           /\ Under(args[at], Child(name)) /\ RelTo(formatRoot, Child(name)) # <<>>
           /\ Top.active = ~HasGitignoreAbove(stack, RelTo(formatRoot, Child(name)))
<1>1. /\ Walk(frames, stack, formatRoot, args[at]) /\ at \in 1..Len(args)
      /\ args[at].kind = "dir" /\ args[at].path \in Seq(Names)
      /\ Len(frames) \in 1..Len(frames) /\ Top = frames[Len(frames)]
      /\ Top.dir \in Seq(Names) /\ Canonical(Top.dir) \in Dirs /\ Under(args[at], Top.dir)
      /\ Top.todo \subseteq Entries(Top.dir)
  BY Walking DEF ReplayInv
<1>2. formatRoot = FormatRootOf(args[at].path) /\ stack = FullStack(formatRoot, Top.dir)
  BY <1>1 DEF Walk
<1>3. args[at].path \in Dirs \cup DOMAIN LinkTo
  BY <1>1, RootNamed DEF ReplayInv, DiscoverInv
<1>4. FrameReached(frames, Len(frames), formatRoot, args[at])
  BY <1>1 DEF ReplayInv, FramesReached
<1>5. Reached(args[at], formatRoot, Top.dir) /\ Top.active = (stack.gitignore = <<>>)
  BY <1>1, <1>2, <1>4 DEF FrameReached
<1> DEFINE d == Top.dir
           c == Child(name)
           arg == args[at]
           root == formatRoot
<1>6. c = Append(d, name)
  BY DEF Child
<1>7. d \in Seq(Names) /\ Canonical(d) \in Dirs /\ name \in Entries(d) /\ Under(arg, d) /\ arg.path \in Seq(Names)
      /\ root = FormatRootOf(arg.path) /\ stack = FullStack(root, d)
  BY <1>1, <1>2
<1> HIDE DEF d, c, arg, root
<1>8. name \in Names /\ c \in Seq(Names) /\ Canonical(c) = Append(Canonical(d), name)
  BY <1>6, <1>7, EntryIs
<1>9. Under(arg, c)
  BY SMTT(60), <1>6, <1>7, <1>8, UnderChild
<1>10. root.path \in Seq(Names) /\ Above(root.path, arg.path) /\ Above(arg.path, d)
  BY <1>7, RootIs DEF Under
<1>11. Above(root.path, d)
  BY <1>7, <1>10, AboveOrder
<1>12. RelTo(root, c) # <<>>
  <2>1. d \in Seq(Names) /\ name \in Names /\ root.path \in Seq(Names)
    BY <1>7, <1>8, <1>10
  <2>2. RelTo(root, Append(d, name)) = Append(RelTo(root, d), name)
    BY <1>11, <2>1, BelowChild DEF RelTo
  <2>3. RelTo(root, d) \in Seq(Names)
    BY <1>11, <2>1, LastLevel
  <2>4. Append(RelTo(root, d), name) # <<>>
    BY ZenonT(60), <2>1, <2>3, Appended
  <2> QED BY <1>6, <2>2, <2>4
<1>13. IsStack(stack)
  BY <1>7, <1>8, <1>10, <1>11, FullStackChild
<1>14. HasGitignoreAbove(stack, RelTo(root, c)) <=> stack.gitignore # <<>>
  BY <1>6, <1>7, <1>8, <1>10, <1>11, GitignoreAbove
<1>15. Top.active = ~HasGitignoreAbove(stack, RelTo(root, c))
  BY <1>5, <1>14
<1> QED BY <1>2, <1>3, <1>5, <1>6, <1>8, <1>9, <1>10, <1>12, <1>13, <1>15 DEF d, c, arg, root

LEMMA VisitFileReplays ==
    ASSUME ReplayInv, VisitFile
    PROVE  FramesReached' /\ TakenStands'
<1>1. PICK name \in Top.todo :
        /\ Canonical(Child(name)) \in Files
        /\ frames' = TodoWithout(name)
        /\ found' = IF IsIgnoredLeaf(stack, RelTo(formatRoot, Child(name)), FALSE)
                    THEN found ELSE found (+) SetToBag({Child(name)})
  BY DEF VisitFile
<1>2. frames # <<>> /\ disk' = disk /\ args' = args /\ at' = at /\ formatRoot' = formatRoot
  BY DEF VisitFile
<1> DEFINE file == Child(name)
           gs == TodoWithout(name)
           arg == args[at]
           d == Top.dir
           ignored == IsIgnoredLeaf(stack, RelTo(formatRoot, file), FALSE)
<1>3. /\ Walk(frames, stack, formatRoot, arg) /\ at \in 1..Len(args) /\ at \in Nat /\ arg.kind = "dir"
      /\ arg.path \in Seq(Names) /\ Top = frames[Len(frames)] /\ d \in Seq(Names)
  BY <1>2, Walking DEF ReplayInv
<1>4. /\ formatRoot = FormatRootOf(arg.path) /\ formatRoot.path \in Seq(Names)
      /\ Above(formatRoot.path, arg.path) /\ Above(arg.path, d) /\ arg.path \in Dirs \cup DOMAIN LinkTo
      /\ stack = FullStack(formatRoot, d) /\ Reached(arg, formatRoot, d)
      /\ name \in Names /\ file = Append(d, name) /\ file \in Seq(Names) /\ Under(arg, file)
  BY <1>1, <1>2, Visiting
<1>5. CrossedOff(frames, name, gs)
  BY DEF CrossedOff, TodoWithout
<1>6. DOMAIN (found') = IF ignored THEN DOMAIN found ELSE DOMAIN found \cup {file}
  <2>1. CASE ignored
    BY <1>1, <2>1
  <2>2. CASE ~ignored
    <3>1. found' = found (+) SetToBag({file})
      BY <1>1, <2>2
    <3> HIDE DEF file
    <3> QED BY <2>2, <3>1, OneMore
  <2> QED BY <2>1, <2>2
<1>7. Canonical(file) \in Files /\ frames' = gs
  BY <1>1
<1> HIDE DEF file, gs, arg, d, ignored
<1>8. \A p : p \in Replayed(arg) <=> Spells(arg, p) /\ Graded(arg, formatRoot, p)
  BY <1>3, <1>4, ReplayedIs
<1>9. file \in Replayed(arg) <=> ~ignored
  <2>1. Spells(arg, file)
    BY <1>4, <1>7 DEF Spells
  <2>2. Graded(arg, formatRoot, file) <=> ~ignored
    <3>1. Graded(arg, formatRoot, file) <=>
            Reached(arg, formatRoot, d) /\ ~IsIgnoredLeaf(FullStack(formatRoot, d), RelTo(formatRoot, file), FALSE)
      BY <1>3, <1>4, FileGraded
    <3> QED BY <1>4, <3>1 DEF ignored
  <2> QED BY <1>8, <2>1, <2>2
<1>10. /\ Len(gs) = Len(frames)
       /\ \A i \in 1..Len(frames) : gs[i].dir = frames[i].dir /\ gs[i].active = frames[i].active
  BY <1>2, <1>3, <1>5, Crossed, CrossedElsewhere
<1>11. FramesReached'
  <2>1. \A i \in 1..Len(gs) : FrameReached(gs, i, formatRoot, arg)
    BY <1>10 DEF ReplayInv, FramesReached, FrameReached, arg
  <2>2. \A i \in 1..Len(frames') : FrameReached(frames', i, formatRoot', args[at'])
    BY <1>2, <1>7, <2>1 DEF arg
  <2> QED BY <1>2, <2>2, ReachedNext
<1>12. ASSUME NEW p \in Replayed(arg) PROVE p \in DOMAIN (found') \/ ~Ahead(frames', p)
  <2>1. p \in DOMAIN found \/ ~Ahead(frames, p)
    BY <1>3 DEF ReplayInv, TakenStands, arg
  <2>2. CASE p \in DOMAIN found
    BY <1>6, <2>2
  <2>3. CASE ~Ahead(frames, p)
    <3>1. ~Ahead(gs, p) \/ Above(Append(frames[Len(frames)].dir, name), p)
      BY <1>2, <1>3, <1>5, <2>3, StillAhead
    <3>2. CASE ~Ahead(gs, p)
      BY <1>7, <3>2
    <3>3. CASE Above(file, p)
      <4>1. p \in Seq(Names) /\ Canonical(p) \in Dirs \cup Files /\ Under(arg, p)
        BY <1>8 DEF Spells
      <4>2. file = p
        BY <1>3, <1>4, <1>7, <3>3, <4>1, FilesEnd
      <4> QED BY <1>6, <1>9, <4>2
    <3> QED BY <1>3, <1>4, <3>1, <3>2, <3>3 DEF d
  <2> QED BY <2>1, <2>2, <2>3
<1>13. TakenStands'
  <2>1. \A p \in DOMAIN (found') : p \in DOMAIN found \/ p \in Replayed(arg)
    BY <1>6, <1>9
  <2>2. \A p \in DOMAIN found : p \in DOMAIN (found')
    BY <1>6
  <2>3. args[at'] = arg /\ at' \in 1..Len(args)
    BY <1>2, <1>3 DEF arg
  <2>4. TakenStands
    BY DEF ReplayInv
  <2> QED BY <1>2, <1>3, <1>12, <2>1, <2>2, <2>3, <2>4, TakenNext
<1> QED BY <1>11, <1>13

LEMMA VisitDirReplays ==
    ASSUME ReplayInv, VisitDir
    PROVE  FramesReached' /\ TakenStands'
<1>1. PICK name \in Top.todo :
        /\ Canonical(Child(name)) \in Dirs
        /\ IF ClassifyInner(stack, RelTo(formatRoot, Child(name)), Top.active) = "descend"
           THEN Open(Child(name), TodoWithout(name), FALSE, Top.active, stack, formatRoot, warned)
           ELSE frames' = TodoWithout(name)
  BY DEF VisitDir
<1>2. frames # <<>> /\ disk' = disk /\ args' = args /\ at' = at /\ formatRoot' = formatRoot /\ found' = found
  BY DEF VisitDir
<1> DEFINE dir == Child(name)
           gs == TodoWithout(name)
           arg == args[at]
           d == Top.dir
           own == PushLayers(stack, dir, formatRoot)
           active == ChildHeuristic(Top.active, own.pushed)
           frame == [dir |-> dir, todo |-> Entries(dir), pushed |-> own.pushed, active |-> active]
           goes == Descends(stack, RelTo(formatRoot, dir)) /\ Canonical(dir) \notin disk.locked
<1>3. /\ Walk(frames, stack, formatRoot, arg) /\ at \in 1..Len(args) /\ at \in Nat /\ arg.kind = "dir"
      /\ arg.path \in Seq(Names) /\ Top = frames[Len(frames)] /\ d \in Seq(Names)
  BY <1>2, Walking DEF ReplayInv
<1>4. /\ formatRoot = FormatRootOf(arg.path) /\ formatRoot.path \in Seq(Names)
      /\ Above(formatRoot.path, arg.path) /\ Above(arg.path, d) /\ arg.path \in Dirs \cup DOMAIN LinkTo
      /\ stack = FullStack(formatRoot, d) /\ IsStack(stack) /\ Reached(arg, formatRoot, d)
      /\ name \in Names /\ dir = Append(d, name) /\ dir \in Seq(Names) /\ Under(arg, dir)
  BY <1>1, <1>2, Visiting
<1>5. Top.active = (stack.gitignore = <<>>) /\ Top.active = ~HasGitignoreAbove(stack, RelTo(formatRoot, dir))
  BY <1>1, <1>2, Visiting
<1>6. CrossedOff(frames, name, gs)
  BY DEF CrossedOff, TodoWithout
<1>7. \/ ~goes /\ frames' = gs
      \/ goes /\ frames' = Append(gs, frame)
  <2>1. Descends(stack, RelTo(formatRoot, dir)) <=> ClassifyInner(stack, RelTo(formatRoot, dir), Top.active) = "descend"
    BY <1>5 DEF Descends
  <2>2. CASE Descends(stack, RelTo(formatRoot, dir))
    <3>1. Open(dir, gs, FALSE, Top.active, stack, formatRoot, warned)
      BY <1>1, <2>1, <2>2
    <3>2. \/ Canonical(dir) \in disk.locked /\ frames' = gs
          \/ Canonical(dir) \notin disk.locked /\ frames' = Append(gs, frame)
      <4> HIDE DEF gs, dir
      <4> QED BY <3>1, OpenTells
    <3> QED BY <2>2, <3>2
  <2>3. CASE ~Descends(stack, RelTo(formatRoot, dir))
    BY <1>1, <2>1, <2>3
  <2> QED BY <2>2, <2>3
<1>8. frame.dir = dir /\ frame.todo = Entries(dir) /\ frame.active = active
  OBVIOUS
<1>9. Canonical(dir) \in Dirs
  BY <1>1
<1>10. active = (own.stack.gitignore = <<>>)
  <2> HIDE DEF dir
  <2> QED BY <1>4, <1>5, ChildActive
<1> HIDE DEF dir, gs, arg, d, frame, active
<1>11. own.stack = FullStack(formatRoot, dir)
  <2>1. Above(formatRoot.path, d)
    BY <1>3, <1>4, AboveOrder
  <2>2. FullStack(formatRoot, Append(d, name)) = PushLayers(FullStack(formatRoot, d), Append(d, name), formatRoot).stack
    BY <1>3, <1>4, <2>1, FullStackChild
  <2> QED BY <1>4, <2>2
<1> HIDE DEF own
<1>12. Reached(arg, formatRoot, dir) <=> goes
  <2>1. Reached(arg, formatRoot, dir) <=>
          /\ Reached(arg, formatRoot, d)
          /\ Descends(FullStack(formatRoot, d), RelTo(formatRoot, dir))
          /\ Canonical(dir) \notin disk.locked
    BY <1>3, <1>4, ReachedChild
  <2> QED BY <1>4, <2>1
<1> HIDE DEF goes
<1>13. /\ Walk(gs, stack, formatRoot, arg) /\ Len(gs) = Len(frames)
       /\ \A i \in 1..Len(frames) : gs[i].dir = frames[i].dir /\ gs[i].active = frames[i].active
  BY <1>2, <1>3, <1>6, Crossed, CrossedElsewhere
<1>14. \A i \in 1..Len(gs) : FrameReached(gs, i, formatRoot, arg)
  BY <1>13 DEF ReplayInv, FramesReached, FrameReached, arg
<1>15. \A p : /\ Len(Append(gs, frame)) = Len(gs) + 1 /\ Append(gs, frame)[Len(gs) + 1] = frame
              /\ \A i \in 1..Len(gs) : Append(gs, frame)[i] = gs[i]
              /\ ~Ahead(gs, p) => ~Ahead(Append(gs, frame), p)
              /\ (\E m \in frame.todo : Above(Append(frame.dir, m), p)) => ~Ahead(Append(gs, frame), p)
  BY <1>13, OpenedAhead DEF Walk
<1>16. goes => \A i \in 1..Len(Append(gs, frame)) : FrameReached(Append(gs, frame), i, formatRoot, arg)
  <2> SUFFICES ASSUME goes, NEW i \in 1..Len(Append(gs, frame))
               PROVE  FrameReached(Append(gs, frame), i, formatRoot, arg)
    OBVIOUS
  <2> DEFINE hs == Append(gs, frame)
  <2>1. Len(hs) = Len(gs) + 1 /\ hs[Len(gs) + 1] = frame /\ \A j \in 1..Len(gs) : hs[j] = gs[j]
    BY <1>15
  <2>2. Len(gs) \in Nat
    BY <1>13 DEF Walk, IsSeq
  <2>3. i \in 1..Len(hs)
    OBVIOUS
  <2> HIDE DEF hs
  <2>4. i \in 1..Len(gs) \/ i = Len(gs) + 1
    BY <2>1, <2>2, <2>3
  <2>5. CASE i \in 1..Len(gs)
    <3>1. hs[i] = gs[i] /\ FrameReached(gs, i, formatRoot, arg)
      BY <1>14, <2>1, <2>5
    <3> QED BY <3>1 DEF FrameReached, hs
  <2>6. CASE i = Len(gs) + 1
    <3>1. hs[i].dir = dir /\ hs[i].active = active
      BY <1>8, <2>1, <2>6
    <3> QED BY <1>10, <1>11, <1>12, <3>1 DEF FrameReached, hs
  <2> QED BY <2>4, <2>5, <2>6
<1>17. FramesReached'
  <2>1. \A i \in 1..Len(frames') : FrameReached(frames', i, formatRoot', args[at'])
    BY <1>2, <1>7, <1>14, <1>16 DEF arg
  <2> QED BY <1>2, <2>1, ReachedNext
<1>18. ASSUME NEW p \in Replayed(arg) PROVE p \in DOMAIN found \/ ~Ahead(frames', p)
  <2>1. p \in DOMAIN found \/ ~Ahead(frames, p)
    BY <1>3 DEF ReplayInv, TakenStands, arg
  <2>2. Spells(arg, p) /\ Graded(arg, formatRoot, p)
    BY <1>3, <1>4, ReplayedIs
  <2>3. ASSUME ~Ahead(gs, p) PROVE ~Ahead(frames', p)
    BY <1>7, <1>15, <2>3
  <2>4. ASSUME Above(dir, p) PROVE ~Ahead(frames', p)
    <3>1. p \in Seq(Names) /\ Canonical(p) \in Files /\ Canonical(p) \in Dirs \cup Files /\ Under(arg, p)
      BY <2>2 DEF Spells
    <3>2. dir # p
      BY <1>3, <1>4, <1>9, <2>4, <3>1, FilesEnd
    <3>3. goes
      <4>1. Above(arg.path, dir)
        BY <1>4 DEF Under
      <4>2. Reached(arg, formatRoot, dir)
        BY <1>3, <1>4, <2>2, <2>4, <3>2, <4>1, GradedAbove
      <4> QED BY <1>12, <4>2
    <3>4. \E m \in Entries(dir) : Above(Append(dir, m), p)
      BY <1>3, <1>4, <1>9, <2>4, <3>1, <3>2, NextName
    <3> QED BY <1>7, <1>8, <1>15, <3>3, <3>4
  <2>5. ASSUME ~Ahead(frames, p) PROVE ~Ahead(gs, p) \/ Above(dir, p)
    <3>1. ~Ahead(gs, p) \/ Above(Append(frames[Len(frames)].dir, name), p)
      BY <1>2, <1>3, <1>6, <2>5, StillAhead
    <3> QED BY <1>3, <1>4, <3>1 DEF d
  <2> QED BY <2>1, <2>3, <2>4, <2>5
<1>19. TakenStands'
  <2>1. args[at'] = arg /\ at' \in 1..Len(args)
    BY <1>2, <1>3 DEF arg
  <2>2. TakenStands
    BY DEF ReplayInv
  <2> QED BY <1>2, <1>3, <1>18, <2>1, <2>2, TakenNext
<1> QED BY <1>17, <1>19

LEMMA LeaveReplays ==
    ASSUME ReplayInv, Leave
    PROVE  FramesReached' /\ TakenStands'
<1>1. /\ frames # <<>> /\ Top.todo = {} /\ frames' = Prefix(frames, Len(frames) - 1)
      /\ disk' = disk /\ args' = args /\ at' = at /\ formatRoot' = formatRoot /\ found' = found
  BY DEF Leave
<1>2. /\ Walk(frames, stack, formatRoot, args[at]) /\ at \in 1..Len(args) /\ at \in Nat
      /\ args[at].path \in Seq(Names) /\ Top = frames[Len(frames)] /\ Len(frames) \in 1..Len(frames)
  BY <1>1, Walking DEF ReplayInv
<1> DEFINE n == Len(frames)
           gs == frames'
<1>3. Len(gs) = n - 1 /\ n \in Nat /\ \A i \in 1..(n - 1) : gs[i] = frames[i]
  <2>1. /\ Len(Prefix(frames, Len(frames) - 1)) = Len(frames) - 1
        /\ \A i \in 1..(Len(frames) - 1) : Prefix(frames, Len(frames) - 1)[i] = frames[i]
    BY <1>1, <1>2, Left
  <2> QED BY <1>1, <1>2, <2>1 DEF Walk, IsSeq
<1>4. frames[n].todo = {} /\ \A i \in 1..n : FrameReached(frames, i, formatRoot, args[at])
  BY <1>1, <1>2 DEF ReplayInv, FramesReached
<1> HIDE DEF n, gs
<1>5. \A i \in 1..n : i \in 1..(n - 1) \/ i = n
  BY <1>3
<1>6. 1..(n - 1) \subseteq 1..n
  BY <1>3
<1>7. FramesReached'
  <2>1. \A i \in 1..Len(gs) : FrameReached(gs, i, formatRoot, args[at])
    BY <1>3, <1>4, <1>6 DEF FrameReached
  <2>2. \A i \in 1..Len(frames') : FrameReached(frames', i, formatRoot', args[at'])
    BY <1>1, <2>1 DEF gs
  <2> QED BY <1>1, <2>2, ReachedNext
<1>8. \A p : ~Ahead(frames, p) => ~Ahead(gs, p)
  <2>1. ASSUME NEW p, ~Ahead(frames, p) PROVE ~Ahead(gs, p)
    <3>1. PICK i \in 1..n : \E m \in frames[i].todo : Above(Append(frames[i].dir, m), p)
      BY <2>1 DEF Ahead, n
    <3>2. i \in 1..Len(gs) /\ gs[i] = frames[i]
      BY <1>3, <1>4, <1>5, <3>1
    <3> QED BY <3>1, <3>2 DEF Ahead
  <2> QED BY <2>1
<1>9. TakenStands'
  <2>1. \A p \in Replayed(args[at']) : p \in DOMAIN (found') \/ ~Ahead(frames', p)
    BY <1>1, <1>2, <1>8 DEF ReplayInv, TakenStands, gs
  <2>2. TakenStands
    BY DEF ReplayInv
  <2> QED BY <1>1, <1>2, <2>1, <2>2, TakenNext
<1> QED BY <1>7, <1>9

LEMMA FinishReplays ==
    ASSUME ReplayInv, Finish
    PROVE  FramesReached' /\ TakenStands'
<1>1. /\ frames = <<>> /\ at = Len(args) /\ at' = at + 1
      /\ disk' = disk /\ args' = args /\ frames' = frames /\ found' = found
  BY DEF Finish
<1>2. FramesReached'
  <2>1. \A i \in 1..Len(frames') : FrameReached(frames', i, formatRoot', args[at'])
    BY <1>1
  <2> QED BY <1>1, <2>1, ReachedNext
<1>3. at \in Nat /\ TakenStands
  BY DEF ReplayInv, DiscoverInv, ArgsStand
<1>4. at' \notin 1..Len(args)
  BY <1>1, <1>3
<1> QED BY <1>1, <1>2, <1>3, <1>4, TakenNext

LEMMA StutterReplays ==
    ASSUME ReplayInv, UNCHANGED vars
    PROVE  FramesReached' /\ TakenStands'
<1>1. /\ disk' = disk /\ args' = args /\ at' = at /\ frames' = frames
      /\ formatRoot' = formatRoot /\ found' = found
  BY DEF vars
<1>2. FramesReached /\ TakenStands /\ at \in Nat
  BY DEF ReplayInv, DiscoverInv, ArgsStand
<1>3. FramesReached'
  <2>1. \A i \in 1..Len(frames') : FrameReached(frames', i, formatRoot', args[at'])
    BY <1>1, <1>2 DEF FramesReached
  <2> QED BY <1>1, <2>1, ReachedNext
<1>4. TakenStands'
  <2>1. at' \in 1..Len(args) => \A p \in Replayed(args[at']) : p \in DOMAIN (found') \/ ~Ahead(frames', p)
    BY <1>1, <1>2 DEF TakenStands
  <2> QED BY <1>1, <1>2, <2>1, TakenNext
<1> QED BY <1>3, <1>4

LEMMA CollectFileReplays ==
    ASSUME ReplayInv, CollectFile
    PROVE  FramesReached' /\ TakenStands'
<1> DEFINE arg == args[at + 1]
           dir == Parent(arg.path)
           moved == EnterScope(scope, dir)
           ignored == IsIgnored(moved.stack, RelTo(moved.root, arg.path), FALSE)
<1>1. /\ NextArg({"file"}) /\ GradeFile(arg, moved)
      /\ disk' = disk /\ args' = args /\ frames' = frames
  BY DEF CollectFile
<1>2. ArgsStand /\ ScopeStands /\ FoundStands /\ TakenStands
  BY DEF ReplayInv, DiscoverInv
<1>3. frames = <<>> /\ at + 1 \in 1..Len(args) /\ at' = at + 1 /\ arg.kind = "file" /\ at \in Nat
  BY <1>1, <1>2, Entered DEF ArgsStand
<1>4. arg.path \in Files
  <2> DEFINE i == at + 1
  <2>1. i \in 1..Len(args) /\ args[i].kind = "file"
    BY <1>3
  <2> HIDE DEF i
  <2>2. args[i].path \in Files
    BY <1>2, <2>1, ArgumentIs
  <2> QED BY <2>2 DEF i
<1>5. DOMAIN (found') = IF ignored THEN DOMAIN found ELSE DOMAIN found \cup {arg.path}
  <2>1. found' = IF ignored THEN found ELSE found (+) SetToBag({arg.path})
    BY <1>1 DEF GradeFile
  <2> HIDE DEF ignored, arg
  <2>2. DOMAIN (found (+) SetToBag({arg.path})) = DOMAIN found \cup {arg.path}
    BY ZenonT(60), OneMore
  <2> QED BY <2>1, <2>2
<1> HIDE DEF arg
<1>6. ScopeFor(moved, dir)
  <2>1. arg.path \in Seq(Names) /\ arg.path # <<>>
    BY <1>4, TreeTypes
  <2>2. dir \in Seq(Names)
    BY <2>1, LastSplit
  <2> HIDE DEF dir
  <2> QED BY <1>2, <2>2, ScopeEntered DEF ScopeStands
<1>7. \A p : p \in Replayed(arg) <=> p = arg.path /\ ~ignored
  <2> HIDE DEF moved
  <2> QED BY <1>3, <1>4, <1>6, FileNamed
<1> HIDE DEF ignored, moved
<1>8. FramesReached'
  <2>1. \A i \in 1..Len(frames') : FrameReached(frames', i, formatRoot', args[at'])
    BY <1>1, <1>3
  <2> QED BY <1>1, <2>1, ReachedNext
<1>9. TakenStands'
  <2>1. args[at'] = arg /\ at' \in 1..Len(args)
    BY <1>3 DEF arg
  <2>2. \A p \in DOMAIN (found') : p \in DOMAIN found \/ p \in Replayed(arg)
    BY <1>5, <1>7
  <2>3. \A p \in DOMAIN found : p \in DOMAIN (found')
    BY <1>5
  <2>4. \A p \in Replayed(arg) : p \in DOMAIN (found') \/ ~Ahead(frames', p)
    BY <1>5, <1>7
  <2> QED BY <1>1, <1>2, <1>3, <2>1, <2>2, <2>3, <2>4, TakenNext
<1> QED BY <1>8, <1>9

LEMMA CollectRootReplays ==
    ASSUME ReplayInv, CollectRoot
    PROVE  FramesReached' /\ TakenStands'
<1> DEFINE arg == args[at + 1]
           root == FormatRootOf(arg.path)
           above == Preload(root, arg.path, Len(arg.path) - Len(root.path))
           isDir == arg.path \notin DOMAIN LinkTo
           own == PushLayers(above.stack, arg.path, root)
           active == ChildHeuristic(above.active, own.pushed)
           frame == [dir |-> arg.path, todo |-> Entries(arg.path), pushed |-> own.pushed, active |-> active]
           refused == RootExcluded(above.stack, RelTo(root, arg.path), isDir)
           goes == ~refused /\ Canonical(arg.path) \notin disk.locked
<1>1. /\ NextArg({"dir"}) /\ EnterRoot(arg, root, above)
      /\ disk' = disk /\ args' = args /\ found' = found
  BY DEF CollectRoot
<1>2. ArgsStand /\ FoundStands /\ TakenStands
  BY DEF ReplayInv, DiscoverInv
<1>3. frames = <<>> /\ at + 1 \in 1..Len(args) /\ at' = at + 1 /\ arg.kind = "dir" /\ at \in Nat
  BY <1>1, <1>2, Entered DEF ArgsStand
<1>4. arg.path \in Seq(Names) /\ Canonical(arg.path) \in Dirs /\ arg.path \in Dirs \cup DOMAIN LinkTo
  <2> DEFINE i == at + 1
  <2>1. i \in 1..Len(args) /\ args[i].kind = "dir"
    BY <1>3
  <2> HIDE DEF i
  <2>2. args[i].path \in Seq(Names) /\ Canonical(args[i].path) \in Dirs /\ args[i].path \in Dirs \cup DOMAIN LinkTo
    BY SMTT(60), <1>2, <2>1, ArgumentIs, RootNamed
  <2> QED BY <2>2 DEF i
<1>5. formatRoot' = root
  BY SMTT(60), <1>1 DEF EnterRoot
<1>6. \/ ~goes /\ frames' = <<>>
      \/ goes /\ frames' = Append(<<>>, frame)
  <2>1. CASE refused
    <3>1. frames' = <<>>
      BY <1>1, <1>3, <2>1 DEF EnterRoot
    <3> QED BY <2>1, <3>1
  <2>2. CASE ~refused
    <3>1. Open(arg.path, <<>>, TRUE, above.active, above.stack, root, warned \cup above.warned)
      BY <1>1, <2>2 DEF EnterRoot
    <3>2. \/ Canonical(arg.path) \in disk.locked /\ frames' = <<>>
          \/ Canonical(arg.path) \notin disk.locked /\ frames' = Append(<<>>, frame)
      <4> HIDE DEF above, root, arg
      <4> QED BY <3>1, OpenTells
    <3> QED BY <2>2, <3>2
  <2> QED BY <2>1, <2>2
<1>7. frame.dir = arg.path /\ frame.todo = Entries(arg.path) /\ frame.active = active
  OBVIOUS
<1> HIDE DEF arg
<1>8. root.path \in Seq(Names) /\ Above(root.path, arg.path)
  BY <1>4, RootIs
<1>9. Reached(arg, root, arg.path) <=> goes
  <2> HIDE DEF root
  <2> QED BY <1>4, <1>8, RootReached
<1>10. goes => own.stack = FullStack(root, arg.path)
  <2> SUFFICES ASSUME goes PROVE own.stack = FullStack(root, arg.path)
    OBVIOUS
  <2>1. isDir \in BOOLEAN /\ ~RootExcluded(above.stack, RelTo(root, arg.path), isDir)
    OBVIOUS
  <2> HIDE DEF root, isDir
  <2> QED BY <1>4, <1>8, <2>1, RootStack
<1>11. active = (own.stack.gitignore = <<>>)
  <2> DEFINE n == Len(arg.path) - Len(root.path)
  <2>1. n \in Nat
    BY <1>4, <1>8, LastLevel
  <2> HIDE DEF root, n
  <2>2. Preload(root, arg.path, n).active = (Preload(root, arg.path, n).stack.gitignore = <<>>)
    BY <2>1, PreloadActive
  <2>3. IsStack(Preload(root, arg.path, n).stack)
    <3>1. Preload(root, arg.path, n) = Load("preload", root, arg.path, n)
      BY PreloadIs
    <3> QED BY <2>1, <3>1, LoadedAreStacks
  <2>4. above.active = (above.stack.gitignore = <<>>) /\ IsStack(above.stack)
    BY <2>2, <2>3 DEF n
  <2> HIDE DEF above
  <2> QED BY <2>4, ChildActive
<1> HIDE DEF root, above, own, active, frame, goes, isDir, refused
<1>12. \A p : /\ Len(Append(<<>>, frame)) = 1 /\ Append(<<>>, frame)[1] = frame
              /\ (\E m \in frame.todo : Above(Append(frame.dir, m), p)) => ~Ahead(Append(<<>>, frame), p)
  <2> DEFINE fs == <<>>
  <2>1. IsSeq(fs) /\ Len(fs) = 0
    BY EmptyIsStack DEF IsStack, EmptyStack
  <2> HIDE DEF fs
  <2>2. \A p : /\ Len(Append(fs, frame)) = Len(fs) + 1 /\ Append(fs, frame)[Len(fs) + 1] = frame
               /\ (\E m \in frame.todo : Above(Append(frame.dir, m), p)) => ~Ahead(Append(fs, frame), p)
    BY <2>1, OpenedAhead
  <2>3. Len(fs) + 1 = 1
    BY <2>1
  <2> QED BY <2>2, <2>3 DEF fs
<1>13. FramesReached'
  <2>1. args[at'] = arg
    BY <1>3 DEF arg
  <2>2. goes => \A i \in 1..Len(Append(<<>>, frame)) : FrameReached(Append(<<>>, frame), i, root, arg)
    BY <1>7, <1>9, <1>10, <1>11, <1>12 DEF FrameReached
  <2>3. \A i \in 1..Len(frames') : FrameReached(frames', i, formatRoot', args[at'])
    <3>1. CASE ~goes /\ frames' = <<>>
      BY <3>1
    <3>2. CASE goes /\ frames' = Append(<<>>, frame)
      BY <1>5, <2>1, <2>2, <3>2
    <3> QED BY <1>6, <3>1, <3>2
  <2> QED BY <1>1, <2>3, ReachedNext
<1>14. ASSUME NEW p \in Replayed(arg) PROVE ~Ahead(frames', p)
  <2>1. Spells(arg, p) /\ Graded(arg, root, p)
    BY <1>3, <1>4, ReplayedIs DEF root
  <2>2. /\ Under(arg, arg.path) /\ Above(arg.path, arg.path) /\ Above(arg.path, p)
        /\ p \in Seq(Names) /\ Canonical(p) \in Files /\ Canonical(p) \in Dirs \cup Files /\ Under(arg, p)
    BY <1>4, <2>1, UnderSelf, AboveOrder DEF Spells, Under
  <2>3. arg.path # p
    BY <1>4, <2>2, FilesEnd
  <2>4. goes
    BY <1>4, <1>8, <1>9, <2>1, <2>2, <2>3, GradedAbove
  <2>5. \E m \in Entries(arg.path) : Above(Append(arg.path, m), p)
    BY <1>4, <2>2, <2>3, NextName
  <2> QED BY <1>6, <1>7, <1>12, <2>4, <2>5
<1>15. TakenStands'
  <2>1. args[at'] = arg /\ at' \in 1..Len(args)
    BY <1>3 DEF arg
  <2> QED BY <1>1, <1>2, <1>3, <1>14, <2>1, TakenNext
<1> QED BY <1>13, <1>15

LEMMA InitReplays == Init => FramesReached /\ TakenStands
<1> SUFFICES ASSUME Init PROVE FramesReached /\ TakenStands
  OBVIOUS
<1>1. frames = <<>> /\ at = 0 /\ DOMAIN found = {}
  BY DEF Init, EmptyBag, SetToBag
<1> QED BY <1>1 DEF FramesReached, TakenStands

(* For every tree and all arguments: the walk lists only what the replay      *)
(* passes, and leaves out nothing that it takes (classify_dir and the gate of *)
(* a root against is_path_pruned).                                           *)
THEOREM ReplayInvariant == Spec => []ReplayInv
<1>1. Init => ReplayInv
  BY InitStands, InitReplays DEF ReplayInv
<1>2. ReplayInv /\ DiscoverInv' /\ [Next]_vars => ReplayInv'
  <2> SUFFICES ASSUME ReplayInv, DiscoverInv', [Next]_vars PROVE FramesReached' /\ TakenStands'
    BY DEF ReplayInv
  <2>1. CASE CollectRoot
    BY <2>1, CollectRootReplays
  <2>2. CASE VisitDir
    BY SMTT(60), <2>2, VisitDirReplays
  <2>3. CASE VisitFile
    BY <2>3, VisitFileReplays
  <2>4. CASE Leave
    BY <2>4, LeaveReplays
  <2>5. CASE CollectFile
    BY <2>5, CollectFileReplays
  <2>6. CASE Finish
    BY <2>6, FinishReplays
  <2>7. CASE Stopped
    BY <2>7, StutterReplays DEF Stopped
  <2>8. CASE UNCHANGED vars
    BY <2>8, StutterReplays
  <2> QED BY <2>1, <2>2, <2>3, <2>4, <2>5, <2>6, <2>7, <2>8 DEF Next
<1> QED
  BY <1>1, <1>2, DiscoverInvariant, PTL DEF Spec

(* What a run finds is what the replay of each file under its arguments takes *)
(* (policy.rs, is_path_pruned: "Equivalent to running classify_dir down a     *)
(* real single-path walk").                                                  *)
THEOREM WalkIsReplay == Spec => []TakenAsReplayed
<1>1. ReplayInv => TakenAsReplayed
  <2> SUFFICES ASSUME ReplayInv, Done PROVE BagToSet(found) = UNION {Replayed(args[i]) : i \in DOMAIN args}
    BY DEF TakenAsReplayed
  <2>1. ArgsStand /\ TakenStands /\ (frames # <<>> => at \in 1..Len(args))
    BY DEF ReplayInv, DiscoverInv, WalkStands
  <2>2. at > Len(args) /\ at \in Nat /\ args \in Seq(Arguments) /\ Len(args) \in Nat
    BY <2>1 DEF Done, ArgsStand
  <2>3. DOMAIN args = 1..Len(args)
    BY <2>2
  <2>4. \A i \in 1..Len(args) : i <= at /\ i # at
    BY <2>2
  <2>5. \A p \in DOMAIN found : \E i \in 1..Len(args) : p \in Replayed(args[i])
    BY <2>1 DEF TakenStands
  <2>6. \A i \in 1..Len(args) : \A p \in Replayed(args[i]) : p \in DOMAIN found
    BY <2>1, <2>4 DEF TakenStands
  <2> QED BY <2>3, <2>5, <2>6 DEF BagToSet
<1> QED
  BY <1>1, ReplayInvariant, PTL


---------------------------------------------------------------------------
(* What is pruned over a negation is warned of                              *)

(* A directory under an argument that the walk of it comes to and prunes over *)
(* a negation: it descends into the ones above and can list them.            *)
Shadowed(arg, root, p) ==
    /\ p \in Seq(Names) /\ Canonical(p) \in Dirs /\ Under(arg, p) /\ p # arg.path
    /\ Passes(arg, root)
    /\ \A j \in Len(arg.path) + 1 .. Len(p) - 1 : Verdict(root, p, j) = "descend"
    /\ \A j \in Len(arg.path) .. Len(p) - 1 : Canonical(Prefix(p, j)) \notin disk.locked
    /\ Verdict(root, p, Len(p)) = "prune, warn"

Raised(ws, p) == \E w \in ws : w[1] = "shadow" /\ w[2] = p

(* It has been warned of, or is still ahead in the walk.                     *)
ShadowsTold ==
    \A i \in 1..Len(args) : i <= at /\ args[i].kind = "dir" =>
       \A p : Shadowed(args[i], FormatRootOf(args[i].path), p) => Raised(warned, p) \/ (i = at /\ ~Ahead(frames, p))

ShadowInv == ReplayInv /\ DiskType(disk) /\ ShadowsTold


(* A negation that spells its way through a directory reaches under it.      *)
LEMMA SpelledReaches ==
    ASSUME NEW layer, layer.anchor \in Seq(Names), NEW rel \in Seq(Names), NEW far \in Seq(Names),
           Above(layer.anchor, rel), Len(layer.anchor) < Len(rel), Above(rel, far),
           NEW rule \in Rules, rule.negated, NEW down, down = Len(rel) - Len(layer.anchor),
           Len(rule.segs) > down, Prefix(rule.segs, down) = Prefix(Below(far, layer.anchor), down),
           \A n \in 1..down : rule.segs[n] \notin {Star, DoubleStar}
    PROVE  ReachesUnder(layer, rule, rel)
<1> DEFINE a == layer.anchor
           segs == rule.segs
           run == LiteralRun(segs)
           b == Below(rel, a)
           S == Names \cup STRING
<1>1. segs \in Seq(STRING) /\ Len(segs) \in Nat
  BY DEF Rules
<1>2. Len(a) \in Nat /\ Len(rel) \in Nat /\ Len(far) \in Nat /\ Len(rel) <= Len(far)
  BY DEF Above
<1>3. down \in 1..Len(segs) /\ down \in 0..Len(segs) /\ Len(a) + down = Len(rel) /\ down \in 0..(Len(far) - Len(a))
  BY <1>1, <1>2
<1>4. run \in 0..Len(segs) /\ down <= run
  <2> DEFINE T == {n \in 0..Len(segs) : \A i \in 1..n : segs[i] \notin {Star, DoubleStar}}
  <2>1. down \in T
    BY <1>3
  <2>2. T \in SUBSET (0..Len(segs)) /\ T # {}
    BY <2>1
  <2>3. run = LastOf(T)
    BY DEF LiteralRun
  <2> HIDE DEF T, run
  <2>4. LastOf(T) \in T /\ \A k \in T : k <= LastOf(T)
    BY <1>1, <2>2, Greatest
  <2> QED BY <2>1, <2>2, <2>3, <2>4
<1>5. /\ b \in Seq(Names) /\ Len(b) = down /\ a \o b = rel /\ b = Prefix(segs, down)
      /\ \A i \in 1..down : b[i] = rel[Len(a) + i]
  <2>1. Above(a, far)
    BY SMTT(150), AboveOrder
  <2>2. Below(Prefix(far, Len(a) + down), a) = Prefix(Below(far, a), down)
    BY ZenonT(60), <1>3, <2>1, PrefixBelow
  <2>3. Prefix(far, Len(rel)) = rel
    BY DEF Above
  <2>4. b \in Seq(Names) /\ Len(b) = Len(rel) - Len(a) /\ a \o b = rel
        /\ \A i \in 1..(Len(rel) - Len(a)) : b[i] = rel[Len(a) + i]
    <3>1. a \in Seq(Names) /\ Above(a, rel)
      OBVIOUS
    <3> HIDE DEF a
    <3> QED BY SMTT(60), <3>1, Rejoined
  <2> QED BY <1>3, <2>2, <2>3, <2>4
<1> HIDE DEF a, segs, run, b, S
<1> DEFINE head == Prefix(segs, run)
           fixed == a \o head
<1>6. /\ head \in Seq(STRING) /\ Len(head) = run /\ \A i \in 1..run : head[i] = segs[i]
  BY <1>1, <1>4, PrefixIs
<1>7. \A i \in 1..down : b[i] = segs[i]
  <2>1. \A i \in 1..down : Prefix(segs, down)[i] = segs[i]
    BY ZenonT(60), <1>1, <1>3, PrefixIs
  <2> QED BY <1>5, <2>1
<1> HIDE DEF head
<1>8. a \in Seq(S) /\ head \in Seq(S) /\ rel \in Seq(S)
  <2>1. Names \subseteq S /\ STRING \subseteq S
    BY DEF S
  <2>2. a \in Seq(Names)
    BY DEF a
  <2> QED BY <1>6, <2>1, <2>2, SeqMonotonic
<1>9. fixed \in Seq(S) /\ Len(fixed) = Len(a) + run
  BY ZenonT(60), <1>6, <1>8, Joined
<1>10. \A i \in 1..Len(a) : fixed[i] = a[i] /\ rel[i] = a[i]
  <2>1. \A i \in 1..Len(a) : fixed[i] = a[i]
    BY <1>8
  <2>2. \A i \in 1..Len(a) : rel[i] = a[i]
    BY SMTT(60), AboveIs DEF a
  <2> QED BY <2>1, <2>2
<1>11. \A i \in 1..run : fixed[Len(a) + i] = head[i]
  BY <1>6, <1>8
<1> HIDE DEF fixed
<1>12. \A i \in 1..Len(rel) : rel[i] = fixed[i]
  <2> SUFFICES ASSUME NEW i \in 1..Len(rel) PROVE rel[i] = fixed[i]
    OBVIOUS
  <2>1. CASE i <= Len(a)
    BY <1>2, <1>10, <2>1
  <2>2. CASE ~(i <= Len(a))
    <3> DEFINE k == i - Len(a)
    <3>1. k \in 1..down /\ k \in 1..run /\ Len(a) + k = i
      BY SMTT(60), <1>2, <1>3, <1>4, <2>2
    <3> HIDE DEF k
    <3>2. rel[Len(a) + k] = b[k] /\ b[k] = segs[k] /\ fixed[Len(a) + k] = head[k] /\ head[k] = segs[k]
      BY <1>5, <1>6, <1>7, <1>11, <3>1
    <3> QED BY <3>1, <3>2
  <2> QED BY <2>1, <2>2
<1>13. Len(rel) <= Len(fixed)
  BY SMTT(60), <1>2, <1>3, <1>4, <1>9
<1>14. Above(rel, fixed)
  BY <1>8, <1>9, <1>12, <1>13, AboveIs
<1>15. Len(fixed) > Len(rel) \/ run < Len(segs)
  <2>1. run = Len(segs) => Len(fixed) > Len(rel)
    BY SMTT(60), <1>1, <1>2, <1>3, <1>9 DEF segs
  <2>2. run # Len(segs) => run < Len(segs)
    BY <1>1, <1>4
  <2> QED BY <2>1, <2>2
<1> QED BY <1>14, <1>15 DEF ReachesUnder, fixed, head, run, segs, a


LEMMA PushedOverride ==
    ASSUME NEW st, IsStack(st), NEW dir, NEW root
    PROVE  LET P == PushLayers(st, dir, root)
               over == OverrideFile(dir, root.inRepo)
           IN  P.stack.overrides =
                 (IF Readable(over) THEN Append(st.overrides, Layer(RelTo(root, dir), over.rules)) ELSE st.overrides)
<1> DEFINE over == OverrideFile(dir, root.inRepo)
           git == IgnoreFile("gitignore", dir)
           o == Layer(RelTo(root, dir), over.rules)
           st1 == IF Readable(over) THEN PushOverride(st, RelTo(root, dir), over.rules) ELSE st
           both == root.inRepo /\ git.kind = "file"
<1>1. PushLayers(st, dir, root).stack = IF both THEN PushGitignore(st1, RelTo(root, dir), git.rules) ELSE st1
  BY DEF PushLayers
<1>2. st = [gitignore |-> st.gitignore, overrides |-> st.overrides]
  BY DEF IsStack
<1>3. st1 = [gitignore |-> st.gitignore,
             overrides |-> IF Readable(over) THEN Append(st.overrides, o) ELSE st.overrides]
  BY <1>2 DEF PushOverride
<1> HIDE DEF st1, both, over, o
<1>4. PushLayers(st, dir, root).stack.overrides = IF Readable(over) THEN Append(st.overrides, o) ELSE st.overrides
  BY <1>1, <1>3 DEF PushGitignore
<1> QED BY <1>4 DEF over, o

(* The directories of a path are directories, as the disk knows them.        *)
OnDisk(root, d) == \A k \in 0..(Len(d) - Len(root.path)) : Canonical(Prefix(d, Len(root.path) + k)) \in Dirs

LEMMA OverrideTyped ==
    ASSUME DiskType(disk), NEW dir, Canonical(dir) \in Dirs, NEW inRepo
    PROVE  OverrideFile(dir, inRepo).rules \in Seq(Rules)
<1>1. \A n \in {"formatignore", "prettierignore"} : IgnoreFile(n, dir).rules \in Seq(Rules)
  BY DEF DiskType, IgnoreFile
<1> QED BY <1>1 DEF OverrideFile

(* Every override layer of a directory's stack is one of a directory above   *)
(* it, with the rules read there.                                            *)
LEMMA OverridesAbove ==
    ASSUME DiskType(disk), NEW root, root.path \in Seq(Names), NEW d \in Seq(Names), Above(root.path, d),
           OnDisk(root, d)
    PROVE  LET over == FullStack(root, d).overrides
           IN  \A i \in DOMAIN over : /\ Above(over[i].anchor, RelTo(root, d))
                                      /\ over[i].anchor \in Seq(Names) /\ over[i].rules \in Seq(Rules)
<1> DEFINE N == Len(d) - Len(root.path)
           rel == RelTo(root, d)
           Good(x) == Above(x.anchor, rel) /\ x.anchor \in Seq(Names) /\ x.rules \in Seq(Rules)
           Over(m) == Load("full", root, d, m).overrides
           P(m) == \A i \in DOMAIN Over(m) : Good(Over(m)[i])
           T == {m \in Nat : m \in 0..(N + 1) /\ ~P(m)}
<1>1. N \in Nat /\ rel \in Seq(Names) /\ Len(rel) = N
  BY LastLevel
<1>2. P(0)
  <2>1. Load("full", root, d, 0) = EmptyStack
    BY LoadSteps DEF Start
  <2> QED BY <2>1 DEF EmptyStack
<1>3. ASSUME NEW m \in Nat, m + 1 \in 0..(N + 1), P(m) PROVE P(m + 1)
  <2> DEFINE level == Level(root, d, m + 1)
             st == Load("full", root, d, m)
             over == OverrideFile(level, root.inRepo)
             o == Layer(RelTo(root, level), over.rules)
  <2>1. Load("full", root, d, m + 1) = PushLayers(st, level, root).stack
    <3>1. Load("full", root, d, m + 1) = Loaded("full", st, level, root)
      BY LoadSteps
    <3>2. Loaded("full", st, level, root) = PushLayers(st, level, root).stack
      BY LoadedIs
    <3> QED BY <3>1, <3>2
  <2>2. RelTo(root, level) = Prefix(rel, m) /\ level = Prefix(d, Len(root.path) + m)
    <3>1. m + 1 \in 1..(N + 1) /\ (m + 1) - 1 = m
      <4> HIDE DEF N, Over, Good
      <4> QED BY <1>1, <1>3
    <3>2. /\ RelTo(root, Level(root, d, m + 1)) = Prefix(RelTo(root, d), (m + 1) - 1)
          /\ Level(root, d, m + 1) = Prefix(d, Len(root.path) + ((m + 1) - 1))
      BY <3>1, LevelIs
    <3> QED BY <3>1, <3>2
  <2>3. m \in 0..N
    <3> HIDE DEF N, Over, Good
    <3> QED BY <1>1, <1>3
  <2>4. Prefix(rel, m) \in Seq(Names) /\ Above(Prefix(rel, m), rel)
    <3>1. m \in 0..Len(rel)
      BY <1>1, <2>3
    <3> HIDE DEF rel
    <3> QED BY <1>1, <3>1, PrefixIs, PrefixAbove
  <2>5. IsStack(st)
    BY LoadedAreStacks
  <2>6. over.rules \in Seq(Rules)
    <3>1. Canonical(level) \in Dirs
      BY <2>2, <2>3 DEF OnDisk
    <3> HIDE DEF level
    <3> QED BY <3>1, OverrideTyped
  <2>7. Good(o)
    <3> HIDE DEF over, level
    <3> QED BY <2>2, <2>4, <2>6 DEF Layer
  <2>8. Over(m + 1) = IF Readable(over) THEN Append(st.overrides, o) ELSE st.overrides
    <3>1. PushLayers(st, level, root).stack.overrides
            = IF Readable(over) THEN Append(st.overrides, o) ELSE st.overrides
      <4> HIDE DEF st, level
      <4> QED BY <2>5, PushedOverride
    <3> QED BY <2>1, <3>1
  <2> DEFINE A == st.overrides
             B == Over(m + 1)
  <2>9. IsSeq(A) /\ \A i \in DOMAIN A : Good(A[i])
    BY <1>3, <2>5 DEF IsStack
  <2>10. B = IF Readable(over) THEN Append(A, o) ELSE A
    BY <2>8
  <2> HIDE DEF A, B, o, over, Good
  <2>11. \A i \in DOMAIN B : Good(B[i])
    <3>1. CASE ~Readable(over)
      BY <2>9, <2>10, <3>1
    <3>2. CASE Readable(over)
      <4>1. B = Append(A, o)
        BY <2>10, <3>2
      <4>2. IsSeq(B) /\ Len(B) = Len(A) + 1 /\ B[Len(A) + 1] = o /\ \A i \in 1..Len(A) : B[i] = A[i]
        BY <2>9, <4>1, SeqGrows
      <4>3. A \in Seq(Elements(A)) /\ B \in Seq(Elements(B)) /\ Len(A) \in Nat
        BY <2>9, <4>2 DEF IsSeq
      <4> HIDE DEF Elements
      <4>4. DOMAIN B = 1..(Len(A) + 1) /\ DOMAIN A = 1..Len(A)
        BY <4>2, <4>3
      <4> QED BY <2>7, <2>9, <4>2, <4>3, <4>4
    <3> QED BY <3>1, <3>2
  <2> QED BY <2>11 DEF B
<1> HIDE DEF P
<1>4. T = {}
  <2> SUFFICES ASSUME T # {} PROVE FALSE
    OBVIOUS
  <2>1. PICK m \in T : \A k \in T : m <= k
    <3>1. T \in SUBSET Nat
      OBVIOUS
    <3> HIDE DEF T
    <3> QED BY <3>1, Least
  <2>2. m # 0 /\ m - 1 \in Nat /\ m - 1 \in 0..(N + 1) /\ ~(m <= m - 1) /\ (m - 1) + 1 = m
    BY SMTT(60), <1>1, <1>2, <2>1
  <2>3. P(m - 1)
    BY SMTT(60), <2>1, <2>2
  <2>4. P(m)
    BY <1>3, <2>1, <2>2, <2>3
  <2> QED BY <2>1, <2>4
<1>5. P(N + 1)
  <2> HIDE DEF N
  <2> QED BY <1>1, <1>4
<1>6. FullStack(root, d) = Load("full", root, d, N + 1)
  BY FullStackIs
<1> QED BY <1>5, <1>6 DEF P


(* What lies above a path of the walk is a directory.                        *)
LEMMA OnTheWay ==
    ASSUME NEW arg, arg.path \in Dirs \cup DOMAIN LinkTo,
           NEW p \in Seq(Names), Under(arg, p), Canonical(p) \in Dirs \cup Files,
           NEW q \in Seq(Names), Above(q, p)
    PROVE  /\ Canonical(q) \in Dirs \/ q = p
           /\ Above(arg.path, q) => Under(arg, q)
<1> DEFINE s == arg.path
<1>1. s \in Seq(Names) /\ Above(s, p) /\ Canonical(p) = Canonical(s) \o Below(p, s)
  BY TreeTypes DEF Under
<1>2. s \in Dirs => Canonical(s) = s /\ p \in Paths
  <2>1. s \in Dirs => Canonical(s) = s
    BY CanonicalIs
  <2>2. s \o Below(p, s) = p
    <3> HIDE DEF s
    <3> QED BY <1>1, Rejoined
  <2> QED BY <1>1, <2>1, <2>2 DEF Paths
<1>3. ASSUME Above(s, q) PROVE Under(arg, q)
  <2>1. CASE s \in DOMAIN LinkTo
    <3>1. Canonical(q) = LinkTo[s] \o Below(q, s) /\ Canonical(s) = LinkTo[s]
      BY <1>3, <2>1, CanonicalIs
    <3> QED BY <1>3, <3>1 DEF Under
  <2>2. CASE s \in Dirs
    <3>1. q \in Dirs \/ q = p
      BY <1>2, <2>2, AboveInTree
    <3>2. CASE q = p
      BY <3>2
    <3>3. CASE q \in Dirs
      <4>1. Canonical(q) = q /\ Canonical(s) = s
        BY <1>2, <2>2, <3>3, CanonicalIs
      <4>2. s \o Below(q, s) = q
        <5> HIDE DEF s
        <5> QED BY SMTT(60), <1>1, <1>3, Rejoined
      <4> QED BY <1>3, <4>1, <4>2 DEF Under
    <3> QED BY <3>1, <3>2, <3>3
  <2> QED BY <2>1, <2>2
<1>4. CASE Above(s, q)
  <2>1. Under(arg, q)
    BY <1>3, <1>4
  <2>2. /\ Canonical(q) \in Seq(Names) /\ Above(Canonical(q), Canonical(p))
        /\ Canonical(q) = Canonical(p) => q = p
    BY <1>1, <2>1, CanonicalAbove
  <2>3. Canonical(q) = Canonical(p) \/ Canonical(q) \in Dirs
    <3>1. Canonical(p) \in Paths
      BY DEF Paths
    <3> QED BY <2>2, <3>1, AboveInTree
  <2> QED BY <2>1, <2>2, <2>3
<1>5. CASE ~Above(s, q)
  <2>1. Above(q, s) /\ q # s
    <3> HIDE DEF s
    <3>1. Len(q) \in Nat /\ Len(s) \in Nat
      BY <1>1
    <3>2. Len(q) <= Len(s) \/ Len(s) <= Len(q)
      BY <3>1
    <3> QED BY <1>1, <1>5, <3>2, AboveOrder
  <2>2. s \in Paths
    BY DEF Paths
  <2>3. q \in Dirs
    BY <2>1, <2>2, AboveInTree
  <2> QED BY <1>5, <2>3, CanonicalIs
<1> QED BY <1>3, <1>4, <1>5

(* The gate asks what all the layers above the argument say.                 *)
LEMMA GatePasses ==
    ASSUME NEW root, root.path \in Seq(Names), NEW dir \in Seq(Names), Above(root.path, dir),
           NEW isDir \in BOOLEAN
    PROVE  RootExcluded(Preload(root, dir, Len(dir) - Len(root.path)).stack, RelTo(root, dir), isDir)
             <=> RootExcluded(FullStack(root, Parent(dir)), RelTo(root, dir), isDir)
<1> DEFINE n == Len(dir) - Len(root.path)
           rel == RelTo(root, dir)
           full == Load("full", root, dir, n)
<1>1. n \in Nat /\ rel \in Seq(Names) /\ Len(rel) = n
  BY LastLevel
<1>2. IsIgnored(Preload(root, dir, n).stack, rel, isDir) <=> \E k \in 1..n : Refused(full, rel, k, isDir)
  <2>1. n = Len(dir) - Len(root.path)
    OBVIOUS
  <2> HIDE DEF n
  <2> QED BY <2>1, Gate
<1>3. \A st : IsIgnored(st, rel, isDir) <=> \E k \in 1..n : Refused(st, rel, k, isDir)
  <2>1. \A st : IsIgnored(st, rel, isDir) <=> \E k \in 1..Len(rel) : Out(st, rel, k, k < Len(rel) \/ isDir)
    <3> HIDE DEF rel
    <3> QED BY <1>1, IgnoredIs
  <2>2. \A st, k : Out(st, rel, k, k < Len(rel) \/ isDir) <=> Refused(st, rel, k, isDir)
    BY DEF Out, LastMatchAt, Refused
  <2> HIDE DEF rel, n
  <2> QED BY <1>1, <2>1, <2>2
<1>4. CASE n = 0
  <2>1. \A st : ~IsIgnored(st, rel, isDir)
    <3> HIDE DEF n, rel
    <3> QED BY <1>3, <1>4
  <2> QED BY <2>1 DEF RootExcluded
<1>5. CASE n # 0
  <2> DEFINE up == Parent(dir)
  <2>1. Len(dir) \in Nat /\ Len(root.path) \in Nat /\ dir # <<>>
    <3>1. Len(dir) \in Nat /\ Len(root.path) \in Nat
      OBVIOUS
    <3>2. Len(dir) # 0
      BY <1>1, <1>5, <3>1
    <3> QED BY <3>1, <3>2
  <2>2. Len(up) = Len(dir) - 1 /\ \A k \in 0..Len(up) : Prefix(up, k) = Prefix(dir, k)
    <3>1. Len(up) = Len(dir) - 1
      BY <2>1, LastSplit
    <3>2. Len(dir) - 1 \in 0..Len(dir)
      <4>1. Len(dir) # 0
        BY <1>1, <1>5, <2>1
      <4> QED BY <2>1, <4>1
    <3>3. \A k \in 0..(Len(dir) - 1) : Prefix(Prefix(dir, Len(dir) - 1), k) = Prefix(dir, k)
      BY <3>2, PrefixOfPrefix
    <3> QED BY <3>1, <3>3 DEF Parent
  <2> HIDE DEF up
  <2>3. \A k \in 1..n : Level(root, up, k) = Level(root, dir, k)
    <3>1. \A k \in 1..n : Len(root.path) + k - 1 \in 0..Len(up)
      BY <2>1, <2>2
    <3> HIDE DEF n
    <3> QED BY <2>2, <3>1 DEF Level
  <2>4. Len(up) - Len(root.path) + 1 = n
    BY <2>1, <2>2
  <2>5. FullStack(root, up) = Load("full", root, up, Len(up) - Len(root.path) + 1)
    BY FullStackIs
  <2> HIDE DEF n
  <2>6. Load("full", root, up, n) = Load("full", root, dir, n)
    <3> HIDE DEF rel, full
    <3> QED BY <1>1, <2>3, LoadSteps
  <2>7. FullStack(root, up) = full
    BY <2>4, <2>5, <2>6
  <2> QED BY <1>2, <1>3, <2>7 DEF RootExcluded, n, up
<1> QED BY <1>4, <1>5

(* The verdict on a name above a path is the walk's on that directory.       *)
LEMMA VerdictOn ==
    ASSUME NEW root, NEW d \in Seq(Names), NEW name \in Names,
           NEW p \in Seq(Names), Above(Append(d, name), p)
    PROVE  LET c == Append(d, name)
           IN  /\ Len(c) \in 1..Len(p) /\ Len(c) = Len(d) + 1 /\ Len(c) \in Nat /\ Prefix(p, Len(c)) = c
               /\ (Len(c) = Len(p) => c = p) /\ Len(p) \in Nat /\ Prefix(p, Len(d)) = d
               /\ Verdict(root, p, Len(c)) = VerdictIn(root, d, c)
<1> DEFINE c == Append(d, name)
<1>1. c \in Seq(Names) /\ Len(c) = Len(d) + 1 /\ Prefix(c, Len(d)) = d /\ Len(d) \in Nat /\ Len(p) \in Nat
  BY Appended
<1>2. Len(c) <= Len(p) /\ Prefix(p, Len(c)) = c
  BY DEF Above
<1> HIDE DEF c
<1>3. Len(c) \in 1..Len(p) /\ Len(c) \in 0..Len(p) /\ Len(d) \in 0..Len(c) /\ Len(c) - 1 = Len(d)
  BY <1>1, <1>2
<1>4. Prefix(p, Len(d)) = d
  <2>1. Prefix(Prefix(p, Len(c)), Len(d)) = Prefix(p, Len(d))
    BY <1>3, PrefixOfPrefix
  <2> QED BY <1>1, <1>2, <2>1
<1>5. Len(c) = Len(p) => c = p
  BY <1>2, PrefixIs
<1>6. Verdict(root, p, Len(c)) = VerdictIn(root, d, c)
  <2>1. Prefix(p, Len(c) - 1) = d /\ Prefix(p, Len(c)) = c
    BY <1>2, <1>3, <1>4
  <2> QED BY <2>1 DEF Verdict
<1> QED BY <1>1, <1>2, <1>3, <1>4, <1>5, <1>6 DEF c

LEMMA VerdictAt ==
    ASSUME NEW root, NEW d \in Seq(Names), NEW name \in Names,
           NEW p \in Seq(Names), Above(Append(d, name), p)
    PROVE  Verdict(root, p, Len(Append(d, name))) = VerdictIn(root, d, Append(d, name))
BY ZenonT(60), VerdictOn


LEMMA ShadowedKept ==
    ASSUME disk' = disk, NEW arg, NEW p
    PROVE  Shadowed(arg, FormatRootOf(arg.path), p)' <=> Shadowed(arg, FormatRootOf(arg.path), p)
<1>1. /\ \A dir : FormatRootOf(dir)' = FormatRootOf(dir)
      /\ \A root, dir : FullStack(root, dir)' = FullStack(root, dir)
  BY RootKept, FullStackKept
<1>2. \A root, k : Verdict(root, p, k)' = Verdict(root, p, k)
  BY <1>1 DEF Verdict, VerdictIn
<1>3. \A root : Passes(arg, root)' <=> Passes(arg, root)
  BY <1>1 DEF Passes
<1> QED BY <1>1, <1>2, <1>3 DEF Shadowed

(* What is to be told of the argument a step is about.                       *)
TellsNow ==
    at' \in 1..Len(args) /\ args[at'].kind = "dir" =>
       \A p : Shadowed(args[at'], FormatRootOf(args[at'].path), p) => Raised(warned', p) \/ ~Ahead(frames', p)

LEMMA ToldNext ==
    ASSUME disk' = disk, args' = args, ShadowsTold, at \in Nat,
           at' = at \/ (at' = at + 1 /\ frames = <<>>), warned \subseteq warned', TellsNow
    PROVE  ShadowsTold'
<1> DEFINE now == at'
           fs == frames'
           ws == warned'
           Shadow(i, p) == Shadowed(args[i], FormatRootOf(args[i].path), p)
<1>1. \A i, p : Shadowed(args[i], FormatRootOf(args[i].path), p)' <=> Shadow(i, p)
  BY ShadowedKept
<1>2. now \in Nat /\ at <= now /\ (now # at => frames = <<>>)
  OBVIOUS
<1>3. ASSUME NEW i \in 1..Len(args), i <= now, args[i].kind = "dir", NEW p, Shadow(i, p)
      PROVE  Raised(ws, p) \/ (i = now /\ ~Ahead(fs, p))
  <2>1. CASE i = now
    BY <1>3, <2>1 DEF TellsNow
  <2>2. CASE i # now
    <3>1. i <= at /\ (i # at \/ frames = <<>>)
      BY <1>2, <1>3, <2>2
    <3>2. \A q : frames = <<>> => Ahead(frames, q)
      BY WalkNone
    <3>3. Raised(warned, p)
      BY <1>3, <3>1, <3>2 DEF ShadowsTold
    <3> QED BY <3>3 DEF Raised
  <2> QED BY <2>1, <2>2
<1>4. ShadowsTold' <=>
        \A i \in 1..Len(args) : i <= now /\ args[i].kind = "dir" =>
           \A p : Shadow(i, p) => Raised(ws, p) \/ (i = now /\ ~Ahead(fs, p))
  BY <1>1 DEF ShadowsTold, Raised
<1> HIDE DEF now, fs, ws, Shadow
<1> QED BY <1>3, <1>4

LEMMA OpenWarns ==
    ASSUME NEW dir, NEW outer, NEW isTarget, NEW active, NEW st, NEW root, NEW raised,
           Open(dir, outer, isTarget, active, st, root, raised)
    PROVE  raised \subseteq warned'
BY DEF Open

(* A directory on the way down to a shadowed one.                            *)
OnWayTo(root, d, c, p) ==
    /\ c = p => VerdictIn(root, d, c) = "prune, warn"
    /\ c # p => VerdictIn(root, d, c) = "descend" /\ Canonical(c) \notin disk.locked

LEMMA OnTheWayDown ==
    ASSUME NEW arg, arg.path \in Seq(Names), NEW root, NEW p \in Seq(Names), Shadowed(arg, root, p),
           NEW d \in Seq(Names), Above(arg.path, d), NEW name \in Names, Above(Append(d, name), p)
    PROVE  OnWayTo(root, d, Append(d, name), p)
<1> DEFINE c == Append(d, name)
<1>2. Verdict(root, p, Len(c)) = VerdictIn(root, d, c)
  BY VerdictAt
<1>3. /\ Len(c) \in 1..Len(p) /\ Len(c) = Len(d) + 1 /\ Len(c) \in Nat /\ Prefix(p, Len(c)) = c
      /\ (Len(c) = Len(p) => c = p) /\ Len(p) \in Nat
  BY ZenonT(60), VerdictOn
<1> HIDE DEF c
<1>4. Len(arg.path) \in Nat /\ Len(arg.path) <= Len(d) /\ Len(d) \in Nat
  BY DEF Above
<1>5. c = p => VerdictIn(root, d, c) = "prune, warn"
  BY <1>2 DEF Shadowed
<1>6. ASSUME c # p PROVE VerdictIn(root, d, c) = "descend" /\ Canonical(c) \notin disk.locked
  <2>1. Len(c) \in Len(arg.path) + 1 .. Len(p) - 1 /\ Len(c) \in Len(arg.path) .. Len(p) - 1
    BY <1>3, <1>4, <1>6
  <2> QED BY <1>2, <1>3, <2>1 DEF Shadowed
<1> QED BY <1>5, <1>6 DEF c, OnWayTo


LEMMA StillRaised ==
    ASSUME NEW ws, NEW more, ws \subseteq more, NEW p, Raised(ws, p)
    PROVE  Raised(more, p)
BY DEF Raised

(* What has been told of the argument being walked, or is ahead in its walk. *)
LEMMA ToldSoFar ==
    ASSUME ShadowInv, NEW i \in 1..Len(args), i <= at, args[i].kind = "dir",
           NEW p, Shadowed(args[i], FormatRootOf(args[i].path), p)
    PROVE  Raised(warned, p) \/ (i = at /\ ~Ahead(frames, p))
BY DEF ShadowInv, ShadowsTold

LEMMA VisitDirTells ==
    ASSUME ShadowInv, VisitDir
    PROVE  ShadowsTold'
<1>1. PICK name \in Top.todo :
        /\ Canonical(Child(name)) \in Dirs
        /\ IF ClassifyInner(stack, RelTo(formatRoot, Child(name)), Top.active) = "descend"
           THEN Open(Child(name), TodoWithout(name), FALSE, Top.active, stack, formatRoot, warned)
           ELSE /\ frames' = TodoWithout(name)
                /\ warned' = warned \cup
                     (IF ClassifyInner(stack, RelTo(formatRoot, Child(name)), Top.active) = "prune, warn"
                      THEN {<<"shadow", Child(name), ShadowWarning(stack, RelTo(formatRoot, Child(name)))>>}
                      ELSE {})
  BY DEF VisitDir
<1>2. frames # <<>> /\ disk' = disk /\ args' = args /\ at' = at
  BY DEF VisitDir
<1> DEFINE dir == Child(name)
           gs == TodoWithout(name)
           arg == args[at]
           d == Top.dir
           verdict == VerdictIn(formatRoot, d, dir)
           own == PushLayers(stack, dir, formatRoot)
           frame == [dir |-> dir, todo |-> Entries(dir), pushed |-> own.pushed,
                     active |-> ChildHeuristic(Top.active, own.pushed)]
<1>3. ReplayInv
  BY DEF ShadowInv
<1>4. /\ Walk(frames, stack, formatRoot, arg) /\ at \in 1..Len(args) /\ at \in Nat /\ arg.kind = "dir"
      /\ arg.path \in Seq(Names) /\ Top = frames[Len(frames)] /\ d \in Seq(Names)
  BY <1>2, <1>3, Walking DEF ReplayInv
<1>5. /\ formatRoot = FormatRootOf(arg.path) /\ Above(arg.path, d)
      /\ stack = FullStack(formatRoot, d) /\ Top.active = (stack.gitignore = <<>>)
      /\ name \in Names /\ dir = Append(d, name) /\ dir \in Seq(Names) /\ Under(arg, dir)
  BY <1>1, <1>2, <1>3, Visiting
<1>6. ClassifyInner(stack, RelTo(formatRoot, dir), Top.active) = verdict
  <2>1. verdict = ClassifyInner(FullStack(formatRoot, d), RelTo(formatRoot, dir), FullStack(formatRoot, d).gitignore = <<>>)
    BY DEF VerdictIn
  <2> HIDE DEF dir, verdict, d
  <2> QED BY <1>5, <2>1
<1>7. CrossedOff(frames, name, gs)
  BY DEF CrossedOff, TodoWithout
<1>8. frame.dir = dir /\ frame.todo = Entries(dir)
  OBVIOUS
<1>9. Canonical(dir) \in Dirs
  BY <1>1
<1>10. verdict = "descend" =>
         /\ frames' = gs \/ frames' = Append(gs, frame)
         /\ Canonical(dir) \notin disk.locked => frames' = Append(gs, frame)
         /\ warned \subseteq warned'
  <2> SUFFICES ASSUME verdict = "descend"
               PROVE  /\ frames' = gs \/ frames' = Append(gs, frame)
                      /\ Canonical(dir) \notin disk.locked => frames' = Append(gs, frame)
                      /\ warned \subseteq warned'
    OBVIOUS
  <2>1. Open(dir, gs, FALSE, Top.active, stack, formatRoot, warned)
    BY <1>1, <1>6
  <2> HIDE DEF gs, dir
  <2> QED BY <2>1, OpenTells, OpenWarns
<1>11. verdict # "descend" =>
         /\ frames' = gs /\ warned \subseteq warned'
         /\ verdict = "prune, warn" => Raised(warned', dir)
  <2> SUFFICES ASSUME verdict # "descend"
               PROVE  /\ frames' = gs /\ warned \subseteq warned'
                      /\ verdict = "prune, warn" => Raised(warned', dir)
    OBVIOUS
  <2>1. frames' = gs
    BY <1>1, <1>6
  <2>2. warned' = warned \cup (IF verdict = "prune, warn"
                               THEN {<<"shadow", dir, ShadowWarning(stack, RelTo(formatRoot, dir))>>} ELSE {})
    BY <1>1, <1>6
  <2> DEFINE w == <<"shadow", dir, ShadowWarning(stack, RelTo(formatRoot, dir))>>
  <2>3. w[1] = "shadow" /\ w[2] = dir
    OBVIOUS
  <2>4. warned' = warned \cup (IF verdict = "prune, warn" THEN {w} ELSE {})
    BY <2>2
  <2> HIDE DEF dir, verdict, w
  <2>5. verdict = "prune, warn" => w \in warned'
    BY <2>4
  <2> QED BY <2>1, <2>3, <2>4, <2>5 DEF Raised
<1> HIDE DEF dir, gs, arg, d, frame, verdict
<1>12. /\ Walk(gs, stack, formatRoot, arg)
       /\ \A p : ~Ahead(frames, p) => ~Ahead(gs, p) \/ Above(dir, p)
  <2>1. Walk(gs, stack, formatRoot, arg)
    BY <1>2, <1>4, <1>7, Crossed
  <2>2. \A p : ~Ahead(frames, p) => ~Ahead(gs, p) \/ Above(Append(frames[Len(frames)].dir, name), p)
    BY <1>2, <1>4, <1>7, StillAhead
  <2> QED BY <1>4, <1>5, <2>1, <2>2 DEF d
<1>13. \A p : /\ ~Ahead(gs, p) => ~Ahead(Append(gs, frame), p)
              /\ (\E m \in frame.todo : Above(Append(frame.dir, m), p)) => ~Ahead(Append(gs, frame), p)
  <2>1. IsSeq(gs)
    BY <1>12 DEF Walk
  <2> QED BY <2>1, OpenedAhead
<1>14. warned \subseteq warned' /\ \A p : ~Ahead(gs, p) => ~Ahead(frames', p)
  BY <1>10, <1>11, <1>13
<1>15. ASSUME NEW p, Shadowed(arg, formatRoot, p) PROVE Raised(warned', p) \/ ~Ahead(frames', p)
  <2>1. Raised(warned, p) \/ ~Ahead(frames, p)
    <3>1. at <= at /\ Shadowed(args[at], FormatRootOf(args[at].path), p)
      BY <1>4, <1>5, <1>15 DEF arg
    <3> QED BY <1>4, <3>1, ToldSoFar DEF arg
  <2>2. CASE Raised(warned, p)
    BY <1>14, <2>2, StillRaised
  <2>3. CASE ~Ahead(gs, p)
    BY <1>14, <2>3
  <2>4. CASE Above(dir, p)
    <3>1. p \in Seq(Names) /\ Under(arg, p) /\ Canonical(p) \in Dirs \cup Files
      BY <1>15 DEF Shadowed
    <3>2. Above(Append(d, name), p)
      BY <1>5, <2>4
    <3>3. OnWayTo(formatRoot, d, Append(d, name), p)
      <4>1. arg.path \in Seq(Names) /\ d \in Seq(Names) /\ Above(arg.path, d) /\ name \in Names
        BY <1>4, <1>5
      <4> QED BY <1>15, <3>1, <3>2, <4>1, OnTheWayDown
    <3>4. /\ dir = p => verdict = "prune, warn"
          /\ dir # p => verdict = "descend" /\ Canonical(dir) \notin disk.locked
      BY <1>5, <3>3 DEF verdict, OnWayTo
    <3>5. CASE dir = p
      BY <1>11, <3>4, <3>5
    <3>6. CASE dir # p
      <4>1. \E m \in Entries(dir) : Above(Append(dir, m), p)
        BY <1>4, <1>5, <1>9, <2>4, <3>1, <3>6, NextName
      <4> QED BY <1>8, <1>10, <1>13, <3>4, <3>6, <4>1
    <3> QED BY <3>5, <3>6
  <2> QED BY <1>12, <2>1, <2>2, <2>3, <2>4
<1>16. TellsNow
  BY <1>2, <1>5, <1>15 DEF TellsNow, arg
<1>17. ShadowsTold
  BY DEF ShadowInv
<1> QED BY <1>2, <1>4, <1>14, <1>16, <1>17, ToldNext

LEMMA VisitFileTells ==
    ASSUME ShadowInv, VisitFile
    PROVE  ShadowsTold'
<1>1. PICK name \in Top.todo : Canonical(Child(name)) \in Files /\ frames' = TodoWithout(name)
  BY DEF VisitFile
<1>2. frames # <<>> /\ disk' = disk /\ args' = args /\ at' = at /\ warned' = warned
  BY DEF VisitFile
<1> DEFINE file == Child(name)
           gs == TodoWithout(name)
           arg == args[at]
           d == Top.dir
<1>3. ReplayInv
  BY DEF ShadowInv
<1>4. /\ Walk(frames, stack, formatRoot, arg) /\ at \in 1..Len(args) /\ at \in Nat /\ arg.kind = "dir"
      /\ arg.path \in Seq(Names) /\ Top = frames[Len(frames)]
  BY <1>2, <1>3, Walking DEF ReplayInv
<1>5. /\ formatRoot = FormatRootOf(arg.path)
      /\ file = Append(d, name) /\ file \in Seq(Names) /\ Under(arg, file)
  BY <1>1, <1>2, <1>3, Visiting
<1>6. CrossedOff(frames, name, gs)
  BY DEF CrossedOff, TodoWithout
<1>7. Canonical(file) \in Files /\ frames' = gs
  BY <1>1
<1> HIDE DEF file, gs, arg, d
<1>8. ASSUME NEW p, Shadowed(arg, formatRoot, p) PROVE Raised(warned', p) \/ ~Ahead(frames', p)
  <2>1. Raised(warned, p) \/ ~Ahead(frames, p)
    <3>1. at <= at /\ Shadowed(args[at], FormatRootOf(args[at].path), p)
      BY <1>4, <1>5, <1>8 DEF arg
    <3> QED BY <1>4, <3>1, ToldSoFar DEF arg
  <2>2. ASSUME ~Ahead(frames, p) PROVE ~Ahead(gs, p)
    <3>1. ~Ahead(gs, p) \/ Above(Append(frames[Len(frames)].dir, name), p)
      BY <1>2, <1>4, <1>6, <2>2, StillAhead
    <3>2. ~Above(file, p)
      <4>1. p \in Seq(Names) /\ Under(arg, p) /\ Canonical(p) \in Dirs
        BY <1>8 DEF Shadowed
      <4>2. Above(file, p) => file = p
        BY <1>4, <1>5, <1>7, <4>1, FilesEnd
      <4> QED BY <1>7, <4>1, <4>2, TreeTypes
    <3> QED BY <1>4, <1>5, <3>1, <3>2 DEF d
  <2> QED BY <1>2, <1>7, <2>1, <2>2
<1>9. TellsNow
  BY <1>2, <1>5, <1>8 DEF TellsNow, arg
<1>10. ShadowsTold
  BY DEF ShadowInv
<1> QED BY <1>2, <1>4, <1>9, <1>10, ToldNext


LEMMA LeaveTells ==
    ASSUME ShadowInv, Leave
    PROVE  ShadowsTold'
<1>1. /\ frames # <<>> /\ Top.todo = {} /\ frames' = Prefix(frames, Len(frames) - 1)
      /\ disk' = disk /\ args' = args /\ at' = at /\ warned' = warned
  BY DEF Leave
<1>2. ReplayInv
  BY DEF ShadowInv
<1>3. /\ Walk(frames, stack, formatRoot, args[at]) /\ at \in 1..Len(args) /\ at \in Nat
      /\ args[at].kind = "dir" /\ args[at].path \in Seq(Names) /\ Top = frames[Len(frames)]
      /\ Len(frames) \in 1..Len(frames)
  BY <1>1, <1>2, Walking DEF ReplayInv
<1> DEFINE n == Len(frames)
           gs == frames'
<1>4. Len(gs) = n - 1 /\ n \in Nat /\ \A i \in 1..(n - 1) : gs[i] = frames[i]
  <2>1. /\ Len(Prefix(frames, Len(frames) - 1)) = Len(frames) - 1
        /\ \A i \in 1..(Len(frames) - 1) : Prefix(frames, Len(frames) - 1)[i] = frames[i]
    BY SMTT(60), <1>1, <1>3, Left
  <2> QED BY <1>1, <1>3, <2>1 DEF Walk, IsSeq
<1>5. frames[n].todo = {}
  BY <1>1, <1>3
<1> HIDE DEF n, gs
<1>6. \A i \in 1..n : i \in 1..(n - 1) \/ i = n
  BY <1>4
<1>7. \A p : ~Ahead(frames, p) => ~Ahead(gs, p)
  <2>1. ASSUME NEW p, ~Ahead(frames, p) PROVE ~Ahead(gs, p)
    <3>1. PICK i \in 1..n : \E m \in frames[i].todo : Above(Append(frames[i].dir, m), p)
      BY <2>1 DEF Ahead, n
    <3>2. i \in 1..Len(gs) /\ gs[i] = frames[i]
      BY <1>4, <1>5, <1>6, <3>1
    <3> QED BY <3>1, <3>2 DEF Ahead
  <2> QED BY <2>1
<1>8. TellsNow
  <2>1. at <= at
    BY <1>3
  <2>2. ASSUME NEW p, Shadowed(args[at], FormatRootOf(args[at].path), p)
        PROVE  Raised(warned, p) \/ ~Ahead(gs, p)
    BY <1>3, <1>7, <2>1, <2>2, ToldSoFar
  <2> QED BY <1>1, <2>2 DEF TellsNow, gs
<1>9. ShadowsTold
  BY DEF ShadowInv
<1> QED BY <1>1, <1>3, <1>8, <1>9, ToldNext

LEMMA CollectRootTells ==
    ASSUME ShadowInv, CollectRoot
    PROVE  ShadowsTold'
<1> DEFINE arg == args[at + 1]
           root == FormatRootOf(arg.path)
           above == Preload(root, arg.path, Len(arg.path) - Len(root.path))
           isDir == arg.path \notin DOMAIN LinkTo
           own == PushLayers(above.stack, arg.path, root)
           frame == [dir |-> arg.path, todo |-> Entries(arg.path), pushed |-> own.pushed,
                     active |-> ChildHeuristic(above.active, own.pushed)]
           refused == RootExcluded(above.stack, RelTo(root, arg.path), isDir)
<1>1. NextArg({"dir"}) /\ EnterRoot(arg, root, above) /\ disk' = disk /\ args' = args
  BY DEF CollectRoot
<1>2. ArgsStand /\ FoundStands /\ ShadowsTold
  BY DEF ShadowInv, ReplayInv, DiscoverInv
<1>3. frames = <<>> /\ at + 1 \in 1..Len(args) /\ at' = at + 1 /\ arg.kind = "dir" /\ at \in Nat
  BY <1>1, <1>2, Entered DEF ArgsStand
<1>4. arg.path \in Seq(Names) /\ Canonical(arg.path) \in Dirs
  <2> DEFINE i == at + 1
  <2>1. i \in 1..Len(args) /\ args[i].kind = "dir"
    BY <1>3
  <2> HIDE DEF i
  <2>2. args[i].path \in Seq(Names) /\ Canonical(args[i].path) \in Dirs
    BY <1>2, <2>1, ArgumentIs
  <2> QED BY <2>2 DEF i
<1>5. /\ warned \subseteq warned'
      /\ ~refused /\ Canonical(arg.path) \notin disk.locked => frames' = Append(<<>>, frame)
  <2>1. CASE refused
    <3>1. warned' = warned \cup above.warned \cup ExcludedWarnings(above.stack, RelTo(root, arg.path), arg, isDir)
      BY <1>1, <2>1 DEF EnterRoot
    <3> QED BY <2>1, <3>1
  <2>2. CASE ~refused
    <3>1. Open(arg.path, <<>>, TRUE, above.active, above.stack, root, warned \cup above.warned)
      BY <1>1, <2>2 DEF EnterRoot
    <3> HIDE DEF above, root, arg
    <3>2. /\ warned \cup above.warned \subseteq warned'
          /\ Canonical(arg.path) \notin disk.locked => frames' = Append(<<>>, frame)
      BY <3>1, OpenTells, OpenWarns
    <3> QED BY <3>2
  <2> QED BY <2>1, <2>2
<1>6. frame.dir = arg.path /\ frame.todo = Entries(arg.path)
  OBVIOUS
<1> HIDE DEF arg
<1>7. root.path \in Seq(Names) /\ Above(root.path, arg.path)
  BY <1>4, RootIs
<1>8. Passes(arg, root) => ~refused
  <2>1. isDir \in BOOLEAN
    OBVIOUS
  <2> HIDE DEF root, isDir
  <2>2. refused <=> RootExcluded(FullStack(root, Parent(arg.path)), RelTo(root, arg.path), isDir)
    BY <1>4, <1>7, <2>1, GatePasses
  <2> QED BY <2>2 DEF Passes, isDir
<1> HIDE DEF root, above, own, frame, refused, isDir
<1>9. \A p : (\E m \in frame.todo : Above(Append(frame.dir, m), p)) => ~Ahead(Append(<<>>, frame), p)
  <2> DEFINE fs == <<>>
  <2>1. IsSeq(fs)
    BY EmptyIsStack DEF IsStack, EmptyStack
  <2> HIDE DEF fs
  <2>2. \A p : (\E m \in frame.todo : Above(Append(frame.dir, m), p)) => ~Ahead(Append(fs, frame), p)
    BY <2>1, OpenedAhead
  <2> QED BY <2>2 DEF fs
<1>10. ASSUME NEW p, Shadowed(arg, root, p) PROVE ~Ahead(frames', p)
  <2>1. /\ p \in Seq(Names) /\ Canonical(p) \in Dirs \cup Files /\ Under(arg, p) /\ p # arg.path
        /\ ~refused
        /\ \A j \in Len(arg.path) .. Len(p) - 1 : Canonical(Prefix(p, j)) \notin disk.locked
    BY <1>8, <1>10 DEF Shadowed
  <2>2. Above(arg.path, p) /\ Under(arg, arg.path)
    BY <1>4, <2>1, UnderSelf DEF Under
  <2>3. Canonical(arg.path) \notin disk.locked
    <3> DEFINE n == Len(arg.path)
    <3>1. n <= Len(p) /\ Prefix(p, n) = arg.path /\ n \in Nat /\ Len(p) \in Nat
      BY <1>4, <2>1, <2>2 DEF Above
    <3>2. n # Len(p)
      <4>1. Prefix(p, Len(p)) = p
        BY <2>1, PrefixIs
      <4> QED BY <2>1, <3>1, <4>1
    <3>3. n \in n .. Len(p) - 1
      <4> HIDE DEF n
      <4> QED BY <3>1, <3>2
    <3> QED BY <2>1, <3>1, <3>3
  <2>4. \E m \in Entries(arg.path) : Above(Append(arg.path, m), p)
    BY <1>4, <2>1, <2>2, NextName
  <2> QED BY <1>5, <1>6, <1>9, <2>1, <2>3, <2>4
<1>11. TellsNow
  <2>1. args[at'] = arg
    BY <1>3 DEF arg
  <2> QED BY <1>10, <2>1 DEF TellsNow, root
<1> QED BY <1>1, <1>2, <1>3, <1>5, <1>11, ToldNext

LEMMA CollectFileTells ==
    ASSUME ShadowInv, CollectFile
    PROVE  ShadowsTold'
<1>1. /\ NextArg({"file"}) /\ GradeFile(args[at + 1], EnterScope(scope, Parent(args[at + 1].path)))
      /\ disk' = disk /\ args' = args
  BY DEF CollectFile
<1>2. ArgsStand /\ FoundStands /\ ShadowsTold
  BY DEF ShadowInv, ReplayInv, DiscoverInv
<1>3. frames = <<>> /\ at' = at + 1 /\ args[at'].kind = "file" /\ at \in Nat
  BY <1>1, <1>2, Entered DEF ArgsStand
<1>4. warned \subseteq warned'
  BY <1>1 DEF GradeFile
<1>5. TellsNow
  BY <1>3 DEF TellsNow
<1> QED BY <1>1, <1>2, <1>3, <1>4, <1>5, ToldNext

LEMMA FinishTells ==
    ASSUME ShadowInv, Finish
    PROVE  ShadowsTold'
<1>1. /\ frames = <<>> /\ at = Len(args) /\ at' = at + 1 /\ disk' = disk /\ args' = args /\ warned' = warned
  BY DEF Finish
<1>2. at \in Nat /\ ShadowsTold
  BY DEF ShadowInv, ReplayInv, DiscoverInv, ArgsStand
<1>3. at' \notin 1..Len(args)
  BY <1>1, <1>2
<1> QED BY <1>1, <1>2, <1>3, ToldNext DEF TellsNow

LEMMA StutterTells ==
    ASSUME ShadowInv, UNCHANGED vars
    PROVE  ShadowsTold'
<1>1. disk' = disk /\ args' = args /\ at' = at /\ frames' = frames /\ warned' = warned
  BY DEF vars
<1>2. at \in Nat /\ ShadowsTold
  BY DEF ShadowInv, ReplayInv, DiscoverInv, ArgsStand
<1>3. TellsNow
  BY <1>1, <1>2 DEF TellsNow, ShadowsTold
<1> QED BY <1>1, <1>2, <1>3, ToldNext

LEMMA InitTells == Init => DiskType(disk) /\ ShadowsTold
<1> SUFFICES ASSUME Init PROVE DiskType(disk) /\ ShadowsTold
  OBVIOUS
<1>1. DiskType(disk)
  BY TreeAssumption DEF Init
<1>2. at = 0
  BY DEF Init
<1> QED BY <1>1, <1>2 DEF ShadowsTold

(* For every tree and all arguments: what is pruned over a negation is warned *)
(* of or is still ahead, as the disk stays what it is.                       *)
THEOREM ShadowInvariant == Spec => []ShadowInv
<1>1. Init => ShadowInv
  BY InitStands, InitReplays, InitTells DEF ReplayInv, ShadowInv
<1>2. ShadowInv /\ ReplayInv' /\ [Next]_vars => ShadowInv'
  <2> SUFFICES ASSUME ShadowInv, ReplayInv', [Next]_vars PROVE DiskType(disk)' /\ ShadowsTold'
    BY DEF ShadowInv
  <2>1. disk' = disk
    BY DEF Next, CollectRoot, VisitDir, VisitFile, Leave, CollectFile, Finish, Stopped, vars
  <2>2. DiskType(disk)'
    BY <2>1 DEF ShadowInv, DiskType
  <2>3. ShadowsTold'
    BY CollectRootTells, VisitDirTells, VisitFileTells, LeaveTells, CollectFileTells, FinishTells, StutterTells
       DEF Next, Stopped
  <2> QED BY <2>2, <2>3
<1> QED
  BY <1>1, <1>2, ReplayInvariant, PTL DEF Spec


(* A negation above a directory that spells it and goes on reaches under it.  *)
LEMMA NegationReaches ==
    ASSUME DiskType(disk), NEW arg, arg.path \in Dirs \cup DOMAIN LinkTo,
           NEW root, root.path \in Seq(Names), Above(root.path, arg.path),
           NEW f \in Seq(Names), Under(arg, f), Canonical(f) \in Files,
           NEW d \in Seq(Names), Above(arg.path, d), NEW name \in Names, NEW c, c = Append(d, name), Above(c, f),
           NEW l \in DOMAIN FullStack(root, d).overrides, NEW layer, layer = FullStack(root, d).overrides[l],
           SpelledBy(layer, Below(RelTo(root, f), layer.anchor), Len(c) - Len(root.path) - Len(layer.anchor))
    PROVE  NegationUnder(FullStack(root, d), RelTo(root, c))
<1> DEFINE rel == RelTo(root, c)
           far == RelTo(root, f)
           down == Len(c) - Len(root.path) - Len(layer.anchor)
<1>1. arg.path \in Seq(Names) /\ Above(root.path, d)
  <2>1. arg.path \in Seq(Names)
    BY TreeTypes
  <2> QED BY <2>1, AboveOrder
<1>2. /\ c \in Seq(Names) /\ Len(c) = Len(d) + 1 /\ Len(d) \in Nat /\ Above(root.path, c) /\ Above(d, c)
      /\ RelTo(root, d) \in Seq(Names) /\ Len(RelTo(root, d)) = Len(d) - Len(root.path)
      /\ rel = Append(RelTo(root, d), name) /\ Len(rel) = Len(RelTo(root, d)) + 1
  BY <1>1, ChildPath
<1>3. Len(c) <= Len(f) /\ Prefix(f, Len(c)) = c /\ Len(f) \in Nat /\ Len(root.path) \in Nat /\ Above(d, f)
      /\ Above(root.path, f) /\ Len(root.path) <= Len(d)
  <2>1. Above(d, f)
    BY <1>2, AboveOrder
  <2>2. Above(root.path, f)
    BY <1>1, <2>1, AboveOrder
  <2> QED BY <1>1, <2>1, <2>2 DEF Above
<1>4. far \in Seq(Names) /\ Len(far) = Len(f) - Len(root.path)
  BY <1>3, LastLevel
<1> HIDE DEF rel, far
<1>5. rel \in Seq(Names) /\ Len(rel) = Len(c) - Len(root.path) /\ Above(rel, far) /\ Above(RelTo(root, d), rel)
  <2> DEFINE k == Len(c) - Len(root.path)
  <2>1. k \in 0..(Len(f) - Len(root.path)) /\ Len(root.path) + k = Len(c) /\ k \in 0..Len(far)
    BY SMTT(60), <1>2, <1>3, <1>4
  <2>2. Below(Prefix(f, Len(root.path) + k), root.path) = Prefix(Below(f, root.path), k)
    <3> HIDE DEF k
    <3> QED BY <1>3, <2>1, PrefixBelow
  <2>3. rel = Prefix(far, k)
    BY <1>3, <2>1, <2>2 DEF rel, far, RelTo
  <2>4. Prefix(far, k) \in Seq(Names) /\ Len(Prefix(far, k)) = k /\ Above(Prefix(far, k), far)
    <3> HIDE DEF k
    <3> QED BY SMTT(60), <1>4, <2>1, PrefixIs, PrefixAbove
  <2>5. Above(RelTo(root, d), Append(RelTo(root, d), name))
    <3>1. RelTo(root, d) \in Seq(Names)
      BY <1>2
    <3> QED BY <3>1, AboveChild, AboveOrder
  <2> QED BY <1>2, <2>3, <2>4, <2>5
<1>6. OnDisk(root, d)
  <2> SUFFICES ASSUME NEW k \in 0..(Len(d) - Len(root.path))
               PROVE  Canonical(Prefix(d, Len(root.path) + k)) \in Dirs
    BY DEF OnDisk
  <2> DEFINE q == Prefix(d, Len(root.path) + k)
  <2>1. Len(root.path) + k \in 0..Len(d)
    BY <1>2, <1>3
  <2>2. q \in Seq(Names) /\ Len(q) = Len(root.path) + k /\ Above(q, d)
    BY <2>1, PrefixIs, PrefixAbove
  <2> HIDE DEF q
  <2>3. Above(q, f)
    BY <1>3, <2>2, AboveOrder
  <2>4. q # f
    BY <1>2, <1>3, <2>1, <2>2
  <2>5. Canonical(q) \in Dirs \/ q = f
    BY <2>2, <2>3, OnTheWay
  <2> QED BY <2>4, <2>5 DEF q
<1>7. Above(layer.anchor, RelTo(root, d)) /\ layer.anchor \in Seq(Names) /\ layer.rules \in Seq(Rules)
  BY <1>1, <1>6, OverridesAbove
<1>8. Above(layer.anchor, rel) /\ Len(layer.anchor) < Len(rel) /\ down = Len(rel) - Len(layer.anchor)
  <2> DEFINE a == layer.anchor
             up == RelTo(root, d)
  <2>1. a \in Seq(Names) /\ up \in Seq(Names) /\ rel \in Seq(Names) /\ Above(a, up) /\ Above(up, rel)
    BY <1>2, <1>5, <1>7
  <2>2. Len(rel) = Len(up) + 1
    BY <1>2
  <2>3. down = Len(rel) - Len(a)
    <3>1. Len(rel) = Len(c) - Len(root.path)
      BY <1>5
    <3> QED BY <3>1
  <2> HIDE DEF a, up, down
  <2>4. Above(a, rel)
    BY <2>1, AboveOrder
  <2>5. Len(a) <= Len(up) /\ Len(a) \in Nat /\ Len(up) \in Nat
    BY <2>1 DEF Above
  <2>6. Len(a) < Len(rel)
    BY <2>2, <2>5
  <2> QED BY <2>3, <2>4, <2>6 DEF a
<1> HIDE DEF down
<1>9. SpelledBy(layer, Below(far, layer.anchor), down)
  BY DEF far, down
<1>10. PICK r \in DOMAIN layer.rules :
        /\ layer.rules[r].negated
        /\ Len(layer.rules[r].segs) > down
        /\ Prefix(layer.rules[r].segs, down) = Prefix(Below(far, layer.anchor), down)
        /\ \A n \in 1..down : layer.rules[r].segs[n] \notin {Star, DoubleStar}
  BY <1>9 DEF SpelledBy
<1> DEFINE rule == layer.rules[r]
<1>11. rule \in Rules
  BY SMTT(60), <1>7
<1>12. /\ rule.negated /\ Len(rule.segs) > down
       /\ Prefix(rule.segs, down) = Prefix(Below(far, layer.anchor), down)
       /\ \A n \in 1..down : rule.segs[n] \notin {Star, DoubleStar}
  BY <1>10
<1>13. rule \in Range(layer.rules) /\ layer \in Range(FullStack(root, d).overrides)
  BY SMTT(60) DEF Range
<1> HIDE DEF rule
<1>14. ReachesUnder(layer, rule, rel)
  BY <1>4, <1>5, <1>7, <1>8, <1>11, <1>12, SpelledReaches
<1> QED BY <1>13, <1>14 DEF NegationUnder, rel

LEMMA WarnsOver ==
    ASSUME NEW st, NEW rel, NEW active, NegationUnder(st, rel), Name(rel) \notin Nets,
           ClassifyInner(st, rel, active) # "descend"
    PROVE  ClassifyInner(st, rel, active) = "prune, warn"
BY DEF ClassifyInner

LEMMA PrunedIsShadowed ==
    ASSUME DiskType(disk), NEW arg, arg.path \in Dirs \cup DOMAIN LinkTo,
           NEW root, root = FormatRootOf(arg.path),
           NEW f, Spells(arg, f), NEW k \in Len(arg.path) + 1 .. Len(f) - 1,
           PrunedAt(arg, root, f, k), SpelledAt(root, f, k)
    PROVE  Shadowed(arg, root, Prefix(f, k))
<1> DEFINE s == arg.path
           p == Prefix(f, k)
           d == Prefix(f, k - 1)
           name == f[k]
<1>1. /\ s \in Seq(Names) /\ f \in Seq(Names) /\ Under(arg, f) /\ Canonical(f) \in Files /\ Above(s, f)
      /\ root.path \in Seq(Names) /\ Above(root.path, s)
  BY SMTT(60), TreeTypes, RootIs DEF Spells, Under
<1>2. /\ Len(s) \in Nat /\ Len(f) \in Nat /\ k \in Nat /\ Len(s) < k /\ k < Len(f)
      /\ k \in 0..Len(f) /\ k - 1 \in 0..Len(f) /\ k \in 1..Len(f) /\ Len(s) <= k - 1
  BY SMTT(60), <1>1
<1>3. /\ p \in Seq(Names) /\ Len(p) = k /\ Above(p, f) /\ p[k] = name
      /\ d \in Seq(Names) /\ Len(d) = k - 1 /\ Above(d, f) /\ name \in Names
  <2>1. p \in Seq(Names) /\ Len(p) = k /\ Above(p, f) /\ \A i \in 1..k : p[i] = f[i]
    BY <1>1, <1>2, PrefixIs, PrefixAbove
  <2>2. d \in Seq(Names) /\ Len(d) = k - 1 /\ Above(d, f)
    BY <1>1, <1>2, PrefixIs, PrefixAbove
  <2> HIDE DEF p, d
  <2> QED BY <1>1, <1>2, <2>1, <2>2
<1>4. \A j \in 0..k : Prefix(p, j) = Prefix(f, j)
  BY <1>1, <1>2, PrefixOfPrefix
<1>5. p = Append(d, name)
  <2>1. p # <<>> /\ Len(p) = k /\ p \in Seq(Names)
    <3> HIDE DEF p
    <3> QED BY <1>2, <1>3
  <2>2. p = Append(Parent(p), Name(p))
    <3> HIDE DEF p
    <3> QED BY <2>1, LastSplit
  <2>3. Parent(p) = d /\ Name(p) = name
    <3>1. k - 1 \in 0..k
      BY <1>2
    <3> HIDE DEF p
    <3> QED BY <1>3, <1>4, <3>1 DEF Parent, Name
  <2> QED BY <2>2, <2>3
<1>6. Above(s, d) /\ Above(s, p) /\ Above(root.path, d)
  <2> HIDE DEF s, d, p
  <2>1. Above(s, d) /\ Above(s, p)
    BY SMTT(60), <1>1, <1>2, <1>3, AboveOrder
  <2> QED BY <1>1, <1>3, <2>1, AboveOrder
<1>7. \A j \in 1..k : Verdict(root, p, j) = Verdict(root, f, j)
  <2>1. \A j \in 1..k : j \in 0..k /\ j - 1 \in 0..k
    BY <1>2
  <2> HIDE DEF p
  <2> QED BY <1>4, <2>1 DEF Verdict
<1>8. Canonical(p) \in Dirs /\ Under(arg, p)
  <2>1. p # f
    BY <1>2, <1>3
  <2>2. Canonical(f) \in Dirs \cup Files
    BY <1>1
  <2> HIDE DEF p
  <2> QED BY <1>1, <1>3, <1>6, <2>1, <2>2, OnTheWay DEF s
<1>9. NegationUnder(FullStack(root, d), RelTo(root, p))
  <2>1. PICK l \in DOMAIN FullStack(root, d).overrides :
          SpelledBy(FullStack(root, d).overrides[l], Below(RelTo(root, f), FullStack(root, d).overrides[l].anchor),
                   k - Len(root.path) - Len(FullStack(root, d).overrides[l].anchor))
    BY DEF SpelledAt
  <2> DEFINE layer == FullStack(root, d).overrides[l]
  <2>2. SpelledBy(layer, Below(RelTo(root, f), layer.anchor), Len(p) - Len(root.path) - Len(layer.anchor))
    BY <1>3, <2>1
  <2>3. layer = FullStack(root, d).overrides[l]
    OBVIOUS
  <2> HIDE DEF p, d, name, layer
  <2> QED BY <1>1, <1>3, <1>5, <1>6, <2>2, <2>3, NegationReaches DEF s
<1>10. Name(RelTo(root, p)) = name
  <2>1. RelTo(root, d) \in Seq(Names) /\ RelTo(root, Append(d, name)) = Append(RelTo(root, d), name)
    <3>1. d \in Seq(Names) /\ name \in Names /\ root.path \in Seq(Names) /\ Above(root.path, d)
      BY <1>1, <1>3, <1>6
    <3> HIDE DEF d, name
    <3>2. RelTo(root, Append(d, name)) = Append(RelTo(root, d), name)
      BY SMTT(60), <3>1, BelowChild DEF RelTo
    <3> QED BY <3>1, <3>2, LastLevel
  <2>2. Name(Append(RelTo(root, d), name)) = name
    <3> HIDE DEF d, name
    <3> QED BY <1>3, <2>1, Appended
  <2> QED BY <1>5, <2>1, <2>2
<1>11. Verdict(root, p, k) = "prune, warn"
  <2>1. Verdict(root, f, k) = VerdictIn(root, d, p)
    BY DEF Verdict
  <2>2. VerdictIn(root, d, p) # "descend" /\ name \notin Nets
    BY <2>1 DEF PrunedAt
  <2> HIDE DEF p, d, name
  <2>3. VerdictIn(root, d, p) = "prune, warn"
    <3> DEFINE st == FullStack(root, d)
               rel == RelTo(root, p)
               active == st.gitignore = <<>>
    <3>1. VerdictIn(root, d, p) = ClassifyInner(st, rel, active)
      BY DEF VerdictIn
    <3>2. NegationUnder(st, rel) /\ Name(rel) \notin Nets
      BY <1>9, <1>10, <2>2
    <3> HIDE DEF st, rel, active
    <3> QED BY <2>2, <3>1, <3>2, WarnsOver
  <2>4. k \in 1..k
    BY <1>2
  <2> QED BY <1>7, <2>1, <2>3, <2>4
<1>12. /\ \A j \in Len(s) + 1 .. k - 1 : Verdict(root, p, j) = "descend"
       /\ \A j \in Len(s) .. k - 1 : Canonical(Prefix(p, j)) \notin disk.locked
       /\ Passes(arg, root)
  <2>1. /\ \A j \in Len(s) + 1 .. k - 1 : Verdict(root, f, j) = "descend"
        /\ \A j \in Len(s) .. k - 1 : Canonical(Prefix(f, j)) \notin disk.locked
        /\ Passes(arg, root)
    BY DEF PrunedAt
  <2>2. (\A j \in Len(s) + 1 .. k - 1 : j \in 1..k) /\ \A j \in Len(s) .. k - 1 : j \in 0..k
    BY SMTT(60), <1>2
  <2> HIDE DEF p, s
  <2> QED BY <1>4, <1>7, <2>1, <2>2
<1>13. p # s
  BY <1>2, <1>3
<1> HIDE DEF p
<1> QED BY <1>3, <1>8, <1>11, <1>12, <1>13 DEF Shadowed, p

(* A negation in an override file that spells its way through a directory the *)
(* walk prunes is never passed over in silence (policy.rs, classify_dir:      *)
(* the shadow warning).                                                      *)
THEOREM ShadowsAreWarned == Spec => []ShadowWarned
<1>1. ShadowInv => ShadowWarned
  <2> SUFFICES ASSUME ShadowInv, Done PROVE ShadowWarned
    BY DEF ShadowWarned
  <2>1. ArgsStand /\ DiskType(disk) /\ ShadowsTold
    BY DEF ShadowInv, ReplayInv, DiscoverInv
  <2>2. at > Len(args) /\ at \in Nat /\ Len(args) \in Nat /\ DOMAIN args = 1..Len(args)
    BY <2>1 DEF Done, ArgsStand
  <2>3. ASSUME NEW i \in DOMAIN args, args[i].kind = "dir", NEW f, Spells(args[i], f),
               NEW k \in Len(args[i].path) + 1 .. Len(f) - 1,
               PrunedAt(args[i], FormatRootOf(args[i].path), f, k), SpelledAt(FormatRootOf(args[i].path), f, k)
        PROVE  Raised(warned, Prefix(f, k))
    <3>1. i \in 1..Len(args) /\ i <= at /\ i # at
      BY <2>2
    <3>2. args[i].path \in Dirs \cup DOMAIN LinkTo
      BY <2>1, <2>3, <3>1, RootNamed
    <3>3. Shadowed(args[i], FormatRootOf(args[i].path), Prefix(f, k))
      BY <2>1, <2>3, <3>2, PrunedIsShadowed
    <3> QED BY <2>3, <3>1, <3>3, ToldSoFar
  <2>4. ASSUME NEW i \in DOMAIN args, args[i].kind = "dir",
               NEW f \in {args[i].path \o Below(g, Canonical(args[i].path)) :
                             g \in {g \in Files : Above(Canonical(args[i].path), g)}}
        PROVE  Spells(args[i], f)
    <3>1. args[i].path \in Dirs \cup DOMAIN LinkTo
      BY <2>1, <2>2, <2>4, RootNamed
    <3> QED BY <3>1, SpelledIs
  <2> QED BY <2>3, <2>4 DEF ShadowWarned, Raised
<1> QED
  BY <1>1, ShadowInvariant, PTL

=============================================================================
