----------------------------- MODULE IgnoreStack -----------------------------
(***************************************************************************)
(* The ignore matcher of tsv_ignore: rules, the layers they sit in and the *)
(* stack of layers a walk carries.  A path is a sequence of names relative *)
(* to the format root, <<>> the root itself.  A pattern is a sequence of   *)
(* segments: a name, Star (any one name) or DoubleStar (any number).  Text *)
(* is left out: how a line becomes a rule, and a floating pattern is one   *)
(* that starts with DoubleStar, as parse_line leaves it.                   *)
(***************************************************************************)
EXTENDS Naturals, Sequences, Functions

DoubleStar == "**"
Star == "*"

\* What the rules say of a path: nothing, out of scope, or back in scope.
Silent == "silent"
Exclude == "exclude"
Include == "include"

Rule(segs, negated, dirOnly) == [segs |-> segs, negated |-> negated, dirOnly |-> dirOnly]
Rules == [segs : Seq(STRING), negated : BOOLEAN, dirOnly : BOOLEAN]
Layer(anchor, rules) == [anchor |-> anchor, rules |-> rules]
EmptyStack == [gitignore |-> <<>>, overrides |-> <<>>]

Prefix(path, k) == SubSeq(path, 1, k)
Above(p, q) == Len(p) <= Len(q) /\ Prefix(q, Len(p)) = p
Below(path, anchor) == SubSeq(path, Len(anchor) + 1, Len(path))
LastOf(S) == CHOOSE i \in S : \A j \in S : j <= i
----------------------------------------------------------------------------
(* One rule *)

\* The lengths of path the pattern up to segment i can have consumed, given
\* those it can have consumed before it.  A trailing DoubleStar takes one name
\* at least.
Consumed(pat, i, path, before) ==
  IF pat[i] = DoubleStar
  THEN {j \in 0..Len(path) :
          \E k \in before : k + (IF i = Len(pat) THEN 1 ELSE 0) <= j}
  ELSE {k + 1 : k \in {k \in before : k < Len(path) /\ pat[i] \in {Star, path[k + 1]}}}

MatchSegments(pat, path) ==
  LET reach[i \in 0..Len(pat)] ==
        IF i = 0 THEN {0} ELSE Consumed(pat, i, path, reach[i - 1])
  IN  Len(path) \in reach[Len(pat)]

RuleMatches(rule, path, isDir) ==
  /\ rule.dirOnly => isDir
  /\ MatchSegments(rule.segs, path)

\* What the last of the rules that match says.
LastHit(rules, hits) ==
  IF hits = {} THEN Silent
  ELSE IF rules[LastOf(hits)].negated THEN Include ELSE Exclude

LastMatch(rules, path, isDir) ==
  LastHit(rules, {i \in DOMAIN rules : RuleMatches(rules[i], path, isDir)})

\* How many leading segments of a pattern are plain names.
LiteralRun(segs) ==
  LastOf({n \in 0..Len(segs) : \A i \in 1..n : segs[i] \notin {Star, DoubleStar}})
----------------------------------------------------------------------------
(* The stack *)

\* A layer speaks of what lies below its anchor, never of the anchor itself.
Relativizes(layer, path) == Len(layer.anchor) < Len(path) /\ Above(layer.anchor, path)

LayerSays(layer, path, isDir) ==
  IF Relativizes(layer, path)
  THEN LastMatch(layer.rules, Below(path, layer.anchor), isDir)
  ELSE Silent

\* The last of the layers to speak of the path, 0 if none does.
LastToSpeak(layers, path, isDir) ==
  LastOf({i \in 0..Len(layers) : i = 0 \/ LayerSays(layers[i], path, isDir) # Silent})

LastLayerSays(layers, path, isDir) ==
  LET i == LastToSpeak(layers, path, isDir)
  IN  IF i = 0 THEN Silent ELSE LayerSays(layers[i], path, isDir)

\* Every .gitignore layer, then every override layer; the last to speak wins.
LastMatchAt(stack, path, isDir) ==
  LastLayerSays(stack.gitignore \o stack.overrides, path, isDir)

LeafPolarity(stack, path, isDir) ==
  IF path = <<>> THEN Silent ELSE LastMatchAt(stack, path, isDir)

IsIgnoredLeaf(stack, path, isDir) == LeafPolarity(stack, path, isDir) = Exclude
IsReincluded(stack, path, isDir) == LeafPolarity(stack, path, isDir) = Include

\* Where the layers exclude the path: the number of its names down to the
\* first directory excluded, and the layer that excludes it.  An excluded
\* directory puts all that lies under it out of scope: no deeper negation is
\* asked.
NotExcluded == [depth |-> 0, layer |-> 0]
Exclusion(layers, path, isDir) ==
  LET kind(k) == k < Len(path) \/ isDir
      out == {k \in 1..Len(path) : LastLayerSays(layers, Prefix(path, k), kind(k)) = Exclude}
      first == CHOOSE k \in out : \A j \in out : k <= j
  IN  IF out = {} THEN NotExcluded
      ELSE [depth |-> first, layer |-> LastToSpeak(layers, Prefix(path, first), kind(first))]

IsIgnored(stack, path, isDir) ==
  Exclusion(stack.gitignore \o stack.overrides, path, isDir) # NotExcluded

HasGitignoreAbove(stack, dir) ==
  \E i \in DOMAIN stack.gitignore : Relativizes(stack.gitignore[i], dir)

\* mutant: a negation counts only when it names the directory's own child.
ReachesChild(layer, rule, dir) ==
  LET run == LiteralRun(rule.segs)
      fixed == layer.anchor \o Prefix(rule.segs, run)
  IN  /\ Len(layer.anchor) < Len(dir)
      /\ rule.negated
      /\ Above(dir, fixed)
      /\ Len(fixed) = Len(dir) + 1 \/ run < Len(rule.segs)

\* The rule, of a layer above dir, is a negation anchored under dir.
ReachesUnder(layer, rule, dir) ==
  LET run == LiteralRun(rule.segs)
      fixed == layer.anchor \o Prefix(rule.segs, run)
  IN  /\ Len(layer.anchor) < Len(dir)
      /\ rule.negated
      /\ Above(dir, fixed)
      /\ Len(fixed) > Len(dir) \/ run < Len(rule.segs)

\* Some override layer above dir holds a negation anchored under dir.
NegationUnder(stack, dir) ==
  \E layer \in Range(stack.overrides) : \E rule \in Range(layer.rules) :
    ReachesUnder(layer, rule, dir)

\* The push-order rule the debug build asserts: no layer on the stack sits in
\* a directory below the one pushed.
PushedInOrder(layers, anchor) ==
  \A i \in DOMAIN layers :
    ~(Len(layers[i].anchor) > Len(anchor) /\ Above(anchor, layers[i].anchor))

PushGitignore(stack, anchor, rules) ==
  [stack EXCEPT !.gitignore = Append(@, Layer(anchor, rules))]
PushOverride(stack, anchor, rules) ==
  [stack EXCEPT !.overrides = Append(@, Layer(anchor, rules))]
PopLast(layers) == Prefix(layers, IF layers = <<>> THEN 0 ELSE Len(layers) - 1)
PopGitignore(stack) == [stack EXCEPT !.gitignore = PopLast(@)]
PopOverride(stack) == [stack EXCEPT !.overrides = PopLast(@)]
=============================================================================
