-------------------------------- MODULE Advice --------------------------------
(***************************************************************************)
(* The lines that two of the diagnostics of tsv_discover propose for an    *)
(* ignore file: shadow_warning, for a pruned directory that a negation     *)
(* reaches under, and excluded_argument_warning, for an argument a rule    *)
(* excludes.  A line is the rule it is read back as, so its spelling is    *)
(* left out, and with it the paths that no line can spell.                 *)
(***************************************************************************)
EXTENDS IgnoreStack, SequencesExt

\* `!/dir/`, `!/path`, `/dir/*`, `/dir/**`, `!/dir/**/` and `!/dir/**`
KeepDir(dir) == Rule(dir, TRUE, TRUE)
Keep(path) == Rule(path, TRUE, FALSE)
CloseChildren(dir) == Rule(Append(dir, Star), FALSE, FALSE)
CloseAll(dir) == Rule(Append(dir, DoubleStar), FALSE, FALSE)
KeepDirsIn(dir) == Rule(Append(dir, DoubleStar), TRUE, TRUE)
KeepAll(dir) == Rule(Append(dir, DoubleStar), TRUE, FALSE)

\* What a diagnostic tells its reader to do: to add lines to the override file
\* of a directory, or none, and to narrow the rules of deeper override files.
Told(anchor, lines, narrow) == [anchor |-> anchor, lines |-> lines, narrow |-> narrow]
----------------------------------------------------------------------------
(* A pruned directory that negations reach under *)

\* The negations under dir, and the deepest file that holds one: each rule is
\* spelled for that file, without the names down to it.
Negation(stack, dir) ==
  LET held(layer) == SelectSeq(layer.rules, LAMBDA rule : ReachesUnder(layer, rule, dir))
      file == stack.overrides[LastOf({i \in DOMAIN stack.overrides : held(stack.overrides[i]) # <<>>})]
      respelt(layer, rule) ==
        [rule EXCEPT !.segs = SubSeq(@, Len(file.anchor) - Len(layer.anchor) + 1, Len(@))]
  IN  [anchor |-> file.anchor,
       rules |-> FlattenSeq([i \in DOMAIN stack.overrides |->
                   LET layer == stack.overrides[i]
                   IN  [r \in DOMAIN held(layer) |-> respelt(layer, held(layer)[r])]])]

\* How a directory on the way down is opened, the widest last: closed again
\* below itself, opened to every depth, or taken whole.
Children == 1
Descendants == 2
Whole == 3

\* What a rule asks of the directories down to the last of its plain names: a
\* last name that ends the rule is what it names, and taken whole if it can
\* only be a directory; more than one Star behind it reaches deeper.
PlainEnd(rule) == LiteralRun(rule.segs) = Len(rule.segs)
LastDir(rule) == IF PlainEnd(rule) THEN Len(rule.segs) - 1 ELSE LiteralRun(rule.segs)
ReachesDeep(rule) == ~PlainEnd(rule) /\ Below(rule.segs, Prefix(rule.segs, LastDir(rule))) # <<Star>>

\* mutant: no directory is taken whole.
OpenedNotWhole(rule, depth) ==
  {<<Prefix(rule.segs, n), IF n = LastDir(rule) /\ ReachesDeep(rule) THEN Descendants ELSE Children>> :
     n \in depth..LastDir(rule)}

\* The directories a rule needs open, from the pruned one down.
Opened(rule, depth) ==
  {<<Prefix(rule.segs, n), IF n = LastDir(rule) /\ ReachesDeep(rule) THEN Descendants ELSE Children>> :
     n \in depth..LastDir(rule)}
  \cup (IF PlainEnd(rule) /\ rule.dirOnly THEN {<<rule.segs, Whole>>} ELSE {})

\* The lines that open one directory, where those above it are opened so.
OpeningLines(dir, how, above) ==
  CASE Whole \in above -> <<>>
    [] Descendants \in above -> IF how = Whole THEN <<KeepAll(dir)>> ELSE <<>>
    [] how = Whole -> <<KeepDir(dir)>>
    [] how = Descendants -> <<KeepDir(dir), CloseAll(dir), KeepDirsIn(dir)>>
    [] OTHER -> <<KeepDir(dir), CloseChildren(dir)>>

\* Every directory opened, parents first, then the author's own rules.
ShadowLines(rules, depth) ==
  LET asked == UNION {Opened(rule, depth) : rule \in Range(rules)}
      dirs == {a[1] : a \in asked}
      how(dir) == Max({a[2] : a \in {a \in asked : a[1] = dir}})
      above(dir) == {how(up) : up \in {up \in dirs : up # dir /\ Above(up, dir)}}
      down == SetToSortSeq(dirs, LAMBDA p, q : Len(p) < Len(q))
      ladder == FlattenSeq([i \in DOMAIN down |-> OpeningLines(down[i], how(down[i]), above(down[i]))])
  IN  FoldLeft(LAMBDA lines, rule : IF rule \in Range(lines) THEN lines ELSE Append(lines, rule),
               ladder, rules)

\* An override rule in a file deeper than the negations' is read after any line
\* added there: it is to be narrowed, and lines are offered only to pass a
\* .gitignore that excludes the directory as well.
ShadowWarning(stack, dir) ==
  LET negation == Negation(stack, dir)
      layers == stack.gitignore \o stack.overrides
      by == Exclusion(layers, dir, TRUE)
      deeper == /\ by.layer > Len(stack.gitignore)
                /\ Len(layers[by.layer].anchor) > Len(negation.anchor)
      behind == Exclusion(stack.gitignore, dir, TRUE) # NotExcluded
      lines == ShadowLines(negation.rules, Len(dir) - Len(negation.anchor))
  IN  Told(negation.anchor, IF deeper /\ ~behind THEN <<>> ELSE lines, deeper)
----------------------------------------------------------------------------
(* An excluded argument *)

\* The path and nothing beside it, from the directory excluded down.
ReincludeLines(path, depth, isDir) ==
  LET anchored(n) == IF n < Len(path) \/ isDir THEN KeepDir(Prefix(path, n)) ELSE Keep(path)
  IN  <<anchored(depth)>> \o
      FlattenSeq([i \in 1..Len(path) - depth |->
                    <<CloseChildren(Prefix(path, depth + i - 1)), anchored(depth + i)>>])

\* A file that an override rule excludes is skipped quietly.
ArgumentQuiet(stack, path, isDir) ==
  ~isDir /\ Exclusion(stack.overrides, path, isDir) # NotExcluded

\* What to do is narrowing alone only when no .gitignore rule excludes the path
\* at the directory named or below; the lines are for the root's own file.
ArgumentWarning(stack, path, isDir) ==
  LET named == Exclusion(stack.gitignore \o stack.overrides, path, isDir)
      rule == Exclusion(stack.overrides, path, isDir)
      git == Exclusion(stack.gitignore, path, isDir)
      deeper == rule # NotExcluded /\ stack.overrides[rule.layer].anchor # <<>>
      lines == ReincludeLines(path, named.depth, isDir)
  IN  CASE named.layer <= Len(stack.gitignore) -> Told(<<>>, lines, deeper)
        [] git.depth >= named.depth -> Told(<<>>, lines, deeper)
        [] OTHER -> Told(<<>>, <<>>, TRUE)
----------------------------------------------------------------------------
(* What a reader does, and what comes of it *)

\* The lines at the end of the file of the anchor, a new one if there is none.
WithLines(layers, told) ==
  IF \E layer \in Range(layers) : layer.anchor = told.anchor
  THEN [i \in DOMAIN layers |->
          IF layers[i].anchor = told.anchor THEN [layers[i] EXCEPT !.rules = @ \o told.lines] ELSE layers[i]]
  ELSE <<Layer(told.anchor, told.lines)>> \o layers

\* A deeper override file without the rules that exclude the path.
Narrowed(layer, told, path, isDir) ==
  LET excludes(rule) ==
        \E k \in Len(layer.anchor) + 1..Len(path) :
          ~rule.negated /\ RuleMatches(rule, Below(Prefix(path, k), layer.anchor), k < Len(path) \/ isDir)
  IN  IF told.narrow /\ Len(layer.anchor) > Len(told.anchor)
      THEN [layer EXCEPT !.rules = SelectSeq(@, LAMBDA rule : ~excludes(rule))]
      ELSE layer

Followed(stack, told, path, isDir) ==
  [stack EXCEPT !.overrides =
     WithLines([i \in DOMAIN @ |-> Narrowed(@[i], told, path, isDir)], told)]

\* A file deeper than the one the lines are in speaks of the path.
SpokenOfDeeper(stack, anchor, path, isDir) ==
  \E layer \in Range(stack.overrides) : \E k \in 1..Len(path) :
    /\ Len(layer.anchor) > Len(anchor)
    /\ LayerSays(layer, Prefix(path, k), k < Len(path) \/ isDir) # Silent

\* A file excludes the path, itself or by a directory below dir.
ExcludedIn(stack, dir, path, isDir) ==
  \E layer \in Range(stack.gitignore \o stack.overrides) : \E k \in Len(dir) + 1..Len(path) :
    LayerSays(layer, Prefix(path, k), k < Len(path) \/ isDir) = Exclude

\* The negations under dir, each with the directory it is written in.
Written(stack, dir) ==
  UNION {{<<layer.anchor, rule>> : rule \in {r \in Range(layer.rules) : ReachesUnder(layer, r, dir)}} :
           layer \in Range(stack.overrides)}

\* The lines reach every path that a negation matches under dir, and what is in
\* a directory that one names as such, unless a file excludes it for itself or by
\* a directory below dir; and no file that no negation takes in, itself or by a
\* directory above it.
ShadowLinesReach(stack, dir, told, paths) ==
  LET after == Followed(stack, told, dir, TRUE)
      matched(path, isDir) ==
        \E w \in Written(stack, dir) : RuleMatches(w[2], Below(path, w[1]), isDir)
      inWhole(path) ==
        \E w \in Written(stack, dir) :
          w[2].dirOnly /\ PlainEnd(w[2]) /\ Above(w[1] \o w[2].segs, Prefix(path, Len(path) - 1))
      takenIn(path) ==
        \E k \in Len(dir) + 1..Len(path) : matched(Prefix(path, k), k < Len(path))
  IN  \A path \in paths, isDir \in BOOLEAN :
        (Above(dir, path) /\ path # dir /\ ~SpokenOfDeeper(after, told.anchor, path, isDir)) =>
          /\ (matched(path, isDir) /\ ~ExcludedIn(stack, dir, Prefix(path, Len(path) - 1), TRUE))
                => ~IsIgnored(after, path, isDir)
          /\ (inWhole(path) /\ ~ExcludedIn(stack, dir, path, isDir)) => ~IsIgnored(after, path, isDir)
          /\ (~isDir /\ ~takenIn(path)) => IsIgnored(after, path, isDir)

\* The lines bring the path back, with what is in it, and no file beside it.  A
\* deeper file that excludes the path behind a rule of the root's own file is
\* not told of, and stands.
ArgumentLinesReach(stack, arg, isDir, told, paths) ==
  LET after == Followed(stack, told, arg, isDir)
      by == Exclusion(stack.overrides, arg, isDir)
      masked == by # NotExcluded /\ stack.overrides[by.layer].anchor = <<>>
                  /\ SpokenOfDeeper(after, <<>>, arg, isDir)
  IN  /\ masked \/ ~IsIgnored(after, arg, isDir)
      /\ \A path \in paths :
           (~Above(arg, path) /\ ~SpokenOfDeeper(after, <<>>, path, FALSE) /\ IsIgnored(stack, path, FALSE))
             => IsIgnored(after, path, FALSE)
=============================================================================
