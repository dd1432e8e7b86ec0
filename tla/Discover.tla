------------------------------- MODULE Discover -------------------------------
(***************************************************************************)
(* Discovery: which files a run takes up (tsv_cli's cli/discover.rs over   *)
(* tsv_discover's policy and tsv_ignore's stack).  The arguments are taken *)
(* in order.  A directory is walked depth first from its own frame, the    *)
(* stack of ignore layers growing and shrinking with the frames, its       *)
(* entries in whatever order the listing has.  A file is graded in a scope *)
(* of its own, moved from one file argument's directory to the next's.     *)
(*                                                                         *)
(* A path is the sequence of names from the filesystem's root.  Arguments  *)
(* are given as absolute_named_path leaves them: the parent resolved, the  *)
(* last name kept, so only the last name of one can be a link.  Names that *)
(* tsv does not format are no entries here, and the texts of diagnostics   *)
(* are reduced to what they are about and to what they tell to do.         *)
(***************************************************************************)
EXTENDS Advice, FiniteSets, Bags

CONSTANTS Dirs,       \* the directories, <<>> among them
          Files,      \* the files with an extension tsv formats
          LinkTo,     \* links to directories, each with the directory it names
          Nets,       \* names of the safety nets
          Guesses,    \* names the build-output heuristic prunes
          Cases       \* what the disk can hold besides (DiskType) and the
                      \* arguments given: a set of pairs

VARIABLES disk,       \* the ignore files, repositories and unreadable directories
          args,       \* the arguments
          at,         \* how many of them have been taken
          frames,     \* the directories being walked, outermost first
          stack,      \* the layers of the walk
          formatRoot, \* the format root of the walk
          scope,      \* the scope file arguments are graded in
          found,      \* the paths handed to the sink, a bag of them
          warned,     \* the warnings raised
          excluded,   \* how many arguments counted as excluded files
          files       \* what the run takes up, once the walk is over

vars == <<disk, args, at, frames, stack, formatRoot, scope, found, warned, excluded, files>>

ContentKinds == {"absent", "file", "unreadable", "link"}
DiskType(d) ==
  /\ DOMAIN d = {"gitignore", "formatignore", "prettierignore", "repos", "locked"}
  /\ \A n \in {"gitignore", "formatignore", "prettierignore"} :
       /\ DOMAIN d[n] = Dirs
       /\ \A dir \in Dirs : /\ d[n][dir].kind \in ContentKinds
                            /\ d[n][dir].rules \in Seq(Rules)
  /\ d.repos \subseteq Dirs
  /\ d.locked \subseteq Dirs

\* the paths there are, the names in them, and what can be named as an argument
Paths == Dirs \cup Files \cup DOMAIN LinkTo
Names == UNION {Range(p) : p \in Paths}
Arguments == [kind : {"dir"}, path : Dirs \cup DOMAIN LinkTo] \cup [kind : {"file"}, path : Files]

ASSUME TreeAssumption ==
  /\ Paths \subseteq Seq(Names)
  /\ <<>> \in Dirs
  /\ \A p \in Paths \ {<<>>} : Prefix(p, Len(p) - 1) \in Dirs
  /\ Dirs \cap Files = {}
  /\ DOMAIN LinkTo \cap (Dirs \cup Files) = {}
  /\ \A l \in DOMAIN LinkTo : LinkTo[l] \in Dirs
  /\ \A c \in Cases : DiskType(c[1]) /\ c[2] \in Seq(Arguments)

Parent(p) == Prefix(p, Len(p) - 1)
Name(p) == p[Len(p)]

\* The path with a leading link resolved: the one spelling a file has.
Canonical(p) ==
  IF \E l \in DOMAIN LinkTo : Above(l, p)
  THEN LET l == CHOOSE l \in DOMAIN LinkTo : Above(l, p) IN LinkTo[l] \o Below(p, l)
  ELSE p

\* What a listing of dir holds; the links in it are never followed.
Entries(dir) ==
  {Name(p) : p \in {p \in (Dirs \cup Files) \ {<<>>} : Parent(p) = Canonical(dir)}}

IgnoreFile(name, dir) == disk[name][Canonical(dir)]
----------------------------------------------------------------------------
(* The format root and the layers *)

\* The nearest directory upwards that holds a .git, else the filesystem's root.
FormatRootOf(dir) ==
  LET repos == {k \in 0..Len(dir) : Canonical(Prefix(dir, k)) \in disk.repos}
  IN  IF repos = {} THEN [path |-> <<>>, inRepo |-> FALSE]
      ELSE [path |-> Prefix(dir, LastOf(repos)), inRepo |-> TRUE]

RelTo(root, p) == Below(p, root.path)

NonePushed == [overrides |-> FALSE, gitignore |-> FALSE]

\* The override file of a directory: .formatignore by its mere presence, else,
\* in a repository, .prettierignore.
OverrideFile(dir, inRepo) ==
  IF IgnoreFile("formatignore", dir).kind # "absent" \/ ~inRepo
  THEN IgnoreFile("formatignore", dir)
  ELSE IgnoreFile("prettierignore", dir)

\* Reading through a link is what the override files allow and .gitignore does not.
Readable(file) == file.kind \in {"file", "link"}

PushLayers(st, dir, root) ==
  LET over == OverrideFile(dir, root.inRepo)
      git == IgnoreFile("gitignore", dir)
      anchor == RelTo(root, dir)
      pushed == [overrides |-> Readable(over),
                 gitignore |-> root.inRepo /\ git.kind = "file"]
      st1 == IF pushed.overrides THEN PushOverride(st, anchor, over.rules) ELSE st
      shadowed == root.inRepo /\ \A n \in {"formatignore", "prettierignore"} :
                                   IgnoreFile(n, dir).kind # "absent"
  IN  [stack |-> IF pushed.gitignore THEN PushGitignore(st1, anchor, git.rules) ELSE st1,
       pushed |-> pushed,
       warned |->
         (IF shadowed THEN {<<"prettierignore shadowed", dir>>} ELSE {}) \cup
         (IF over.kind = "unreadable" THEN {<<"unreadable override", dir>>} ELSE {}) \cup
         (IF root.inRepo /\ git.kind \in {"link", "unreadable"}
          THEN {<<"gitignore not applied", dir>>} ELSE {})]

\* mutant: only the .gitignore comes off.
PopGitignoreOnly(pushed, st) == IF pushed.gitignore THEN PopGitignore(st) ELSE st

PopFrom(pushed, st) ==
  LET st1 == IF pushed.overrides THEN PopOverride(st) ELSE st
  IN  IF pushed.gitignore THEN PopGitignore(st1) ELSE st1

\* A directory no listing is held for: nothing is read in one a rule excludes.
PushDirLayers(st, dir, root) ==
  IF IsIgnored(st, RelTo(root, dir), TRUE)
  THEN [stack |-> st, pushed |-> NonePushed, warned |-> {}]
  ELSE PushLayers(st, dir, root)

\* The layers of the n directories from the root down towards dir, and whether
\* the heuristic is still on below them.
Preload(root, dir, n) ==
  LET loaded[k \in 0..n] ==
        IF k = 0 THEN [stack |-> EmptyStack, active |-> TRUE, warned |-> {}]
        ELSE LET above == loaded[k - 1]
                 more == PushDirLayers(above.stack, Prefix(dir, Len(root.path) + k - 1), root)
             IN  [stack |-> more.stack,
                  active |-> above.active /\ ~more.pushed.gitignore,
                  warned |-> above.warned \cup more.warned]
  IN  loaded[n]
----------------------------------------------------------------------------
(* The verdict on a directory *)

ClassifyInner(st, rel, active) ==
  LET name == Name(rel)
      prune == IF NegationUnder(st, rel) THEN "prune, warn" ELSE "prune"
  IN  IF name \in Nets THEN "prune"
      ELSE IF active /\ name \in Guesses /\ ~IsReincluded(st, rel, TRUE) THEN prune
      ELSE IF IsIgnoredLeaf(st, rel, TRUE) THEN prune
      ELSE "descend"

\* The replay for one path, over the stack of all its directories' layers:
\* whether some directory strictly between depth and the path is pruned.
PrunedBelow(st, rel, depth) ==
  \E k \in depth + 1 .. Len(rel) - 1 :
    ClassifyInner(st, Prefix(rel, k), ~HasGitignoreAbove(st, Prefix(rel, k))) # "descend"
IsPathPruned(st, rel) == PrunedBelow(st, rel, 0)
----------------------------------------------------------------------------
(* Walking a directory *)

\* mutant: the heuristic stays as the parent had it.
ChildHeuristicInherited(active, pushed) == active

ChildHeuristic(active, pushed) == active /\ ~pushed.gitignore

\* List dir, push its own layers and open its frame on the frames given; a
\* directory that cannot be listed is reported and left.
Open(dir, outer, isTarget, active, st, root, raised) ==
  LET own == PushLayers(st, dir, root)
      outside == /\ isTarget /\ ~root.inRepo
                 /\ IgnoreFile("prettierignore", dir).kind # "absent"
                 /\ IgnoreFile("formatignore", dir).kind = "absent"
      frame == [dir |-> dir, todo |-> Entries(dir), pushed |-> own.pushed,
                active |-> ChildHeuristic(active, own.pushed)]
  IN  IF Canonical(dir) \in disk.locked
      THEN /\ frames' = outer
           /\ stack' = st
           /\ warned' = raised \cup {<<"read_dir failed", dir>>}
      ELSE /\ frames' = Append(outer, frame)
           /\ stack' = own.stack
           /\ warned' = raised \cup own.warned \cup
                (IF outside THEN {<<"prettierignore outside a repo", dir>>} ELSE {})

Top == frames[Len(frames)]
TodoWithout(name) == [frames EXCEPT ![Len(frames)].todo = @ \ {name}]
Child(name) == Append(Top.dir, name)

\* The named root is gated by the rules alone, its ancestors' included.
RootExcluded(st, rel, isDir) == IsIgnored(st, rel, isDir)

\* What is said of an argument that a rule excludes.
ExcludedWarnings(st, rel, arg, isDir) ==
  IF ArgumentQuiet(st, rel, isDir) THEN {}
  ELSE {<<"excluded", arg, ArgumentWarning(st, rel, isDir)>>}

NextArg(kinds) == /\ frames = <<>>
                  /\ at < Len(args)
                  /\ args[at + 1].kind \in kinds
                  /\ at' = at + 1

\* The walk of a root, over the layers above it: gated, and opened.
EnterRoot(arg, root, above) ==
  LET dir == arg.path
      link == dir \in DOMAIN LinkTo
      raised == warned \cup above.warned
  IN  /\ formatRoot' = root
      /\ IF RootExcluded(above.stack, RelTo(root, dir), ~link)
         THEN /\ excluded' = excluded + (IF link THEN 1 ELSE 0)
              /\ warned' = raised \cup ExcludedWarnings(above.stack, RelTo(root, dir), arg, ~link)
              /\ stack' = above.stack
              /\ UNCHANGED frames
         ELSE /\ Open(dir, <<>>, TRUE, above.active, above.stack, root, raised)
              /\ UNCHANGED excluded

CollectRoot ==
  /\ NextArg({"dir"})
  /\ LET arg == args[at + 1]
         root == FormatRootOf(arg.path)
     IN  EnterRoot(arg, root, Preload(root, arg.path, Len(arg.path) - Len(root.path)))
  /\ UNCHANGED <<disk, args, scope, found, files>>

VisitDir ==
  /\ frames # <<>>
  /\ \E name \in Top.todo :
       LET dir == Child(name)
           verdict == ClassifyInner(stack, RelTo(formatRoot, dir), Top.active)
           raised == warned \cup
                     (IF verdict = "prune, warn"
                      THEN {<<"shadow", dir, ShadowWarning(stack, RelTo(formatRoot, dir))>>} ELSE {})
       IN  /\ Canonical(dir) \in Dirs
           /\ IF verdict = "descend"
              THEN Open(dir, TodoWithout(name), FALSE, Top.active, stack, formatRoot, warned)
              ELSE /\ frames' = TodoWithout(name)
                   /\ warned' = raised
                   /\ UNCHANGED stack
  /\ UNCHANGED <<disk, args, at, formatRoot, scope, found, excluded, files>>

VisitFile ==
  /\ frames # <<>>
  /\ \E name \in Top.todo :
       LET file == Child(name)
       IN  /\ Canonical(file) \in Files
           /\ frames' = TodoWithout(name)
           /\ found' = IF IsIgnoredLeaf(stack, RelTo(formatRoot, file), FALSE)
                       THEN found ELSE found (+) SetToBag({file})
  /\ UNCHANGED <<disk, args, at, stack, formatRoot, scope, warned, excluded, files>>

Leave ==
  /\ frames # <<>>
  /\ Top.todo = {}
  /\ stack' = PopFrom(Top.pushed, stack)
  /\ frames' = Prefix(frames, Len(frames) - 1)
  /\ UNCHANGED <<disk, args, at, formatRoot, scope, found, warned, excluded, files>>
----------------------------------------------------------------------------
(* Grading the files named *)

NoScope == [root |-> [path |-> <<>>, inRepo |-> FALSE], stack |-> EmptyStack, dirs |-> <<>>]

\* What is kept of the scope held when the next directory has this format root.
KeptScope(held, root) ==
  IF root = held.root THEN held ELSE [NoScope EXCEPT !.root = root]

\* How many directories the scope held shares with the way down to dir.
SharedWith(held, dir) ==
  LastOf({n \in 0..Len(held.dirs) :
            \A i \in 1..n : LET k == Len(held.root.path) + i - 1
                            IN  k <= Len(dir) /\ held.dirs[i].dir = Prefix(dir, k)})

\* The stack with all but the first n directories' layers off.
Unwound(held, n) ==
  LET off[k \in n..Len(held.dirs)] ==
        IF k = Len(held.dirs) THEN held.stack
        ELSE PopFrom(held.dirs[k + 1].pushed, off[k + 1])
  IN  off[n]

\* The scope moved to dir: back to the directory shared, and down from there.
EnterScope(held, dir) ==
  LET root == FormatRootOf(dir)
      kept == KeptScope(held, root)
      shared == SharedWith(kept, dir)
      depth == Len(dir) - Len(root.path) + 1
      down[k \in shared..depth] ==
        IF k = shared
        THEN [root |-> root, stack |-> Unwound(kept, shared),
              dirs |-> Prefix(kept.dirs, shared), warned |-> {}]
        ELSE LET level == Prefix(dir, Len(root.path) + k - 1)
                 more == PushDirLayers(down[k - 1].stack, level, root)
             IN  [root |-> root, stack |-> more.stack,
                  dirs |-> Append(down[k - 1].dirs, [dir |-> level, pushed |-> more.pushed]),
                  warned |-> down[k - 1].warned \cup more.warned]
  IN  down[depth]

\* A file in the scope it is graded in.
GradeFile(arg, moved) ==
  LET file == RelTo(moved.root, arg.path)
      ignored == IsIgnored(moved.stack, file, FALSE)
  IN  /\ scope' = [root |-> moved.root, stack |-> moved.stack, dirs |-> moved.dirs]
      /\ warned' = warned \cup moved.warned \cup
           (IF ignored THEN ExcludedWarnings(moved.stack, file, arg, FALSE) ELSE {})
      /\ found' = IF ignored THEN found ELSE found (+) SetToBag({arg.path})
      /\ excluded' = excluded + (IF ignored THEN 1 ELSE 0)

CollectFile ==
  /\ NextArg({"file"})
  /\ GradeFile(args[at + 1], EnterScope(scope, Parent(args[at + 1].path)))
  /\ UNCHANGED <<disk, args, frames, stack, formatRoot, files>>
----------------------------------------------------------------------------
(* The run's files *)

\* mutant: only the same root named twice is looked for.
RootsSame ==
  /\ Len(args) >= 2
  /\ \/ \E i \in DOMAIN args : args[i].kind = "file"
     \/ \E i, j \in DOMAIN args : i # j /\ Canonical(args[i].path) = Canonical(args[j].path)

RootsCanOverlap ==
  /\ Len(args) >= 2
  /\ \/ \E i \in DOMAIN args : args[i].kind = "file"
     \/ \E i, j \in DOMAIN args :
          i # j /\ Above(Canonical(args[i].path), Canonical(args[j].path))

\* One spelling is kept of each file, when two could have been found.
Finish ==
  /\ frames = <<>>
  /\ at = Len(args)
  /\ at' = at + 1
  /\ LET spelled == BagToSet(found)
         kept(c) == CHOOSE p \in spelled : Canonical(p) = c
     IN  files' = IF RootsCanOverlap THEN {kept(Canonical(p)) : p \in spelled} ELSE spelled
  /\ UNCHANGED <<disk, args, frames, stack, formatRoot, scope, found, warned, excluded>>

Done == at > Len(args)
AllArgumentsExcluded == args # <<>> /\ excluded = Len(args)

Init ==
  /\ \E c \in Cases : disk = c[1] /\ args = c[2]
  /\ at = 0
  /\ frames = <<>>
  /\ stack = EmptyStack
  /\ formatRoot = NoScope.root
  /\ scope = NoScope
  /\ found = EmptyBag
  /\ warned = {}
  /\ excluded = 0
  /\ files = {}

Stopped == Done /\ UNCHANGED vars

Next == CollectRoot \/ VisitDir \/ VisitFile \/ Leave \/ CollectFile \/ Finish \/ Stopped

Spec == Init /\ [][Next]_vars
----------------------------------------------------------------------------
(* Properties *)

\* The layers of every directory from the root down to dir, those a walk would
\* never have read among them: what an editor assembles for one document.
FullStack(root, dir) ==
  LET n == Len(dir) - Len(root.path) + 1
      full[k \in 0..n] ==
        IF k = 0 THEN EmptyStack
        ELSE PushLayers(full[k - 1], Prefix(dir, Len(root.path) + k - 1), root).stack
  IN  full[n]

\* What one argument puts in scope, file by file, with no walk: no rule excludes
\* the file or a directory above it, and of the directories below the one named
\* none is pruned and none is unreadable.  The link an argument names is graded
\* as a link.
Replayed(arg) ==
  LET dir == arg.path
      root == FormatRootOf(IF arg.kind = "file" THEN Parent(dir) ELSE dir)
      depth == Len(RelTo(root, dir))
      spelled == IF arg.kind = "file" THEN {dir}
                 ELSE {dir \o Below(f, Canonical(dir)) : f \in {f \in Files : Above(Canonical(dir), f)}}
      full(f) == FullStack(root, Parent(f))
      isDir(rel, k) == k < Len(rel) /\ ~(k = depth /\ dir \in DOMAIN LinkTo)
      kept(rel, st) == \A k \in 1..Len(rel) : LastMatchAt(st, Prefix(rel, k), isDir(rel, k)) # Exclude
  IN  {f \in spelled :
        /\ kept(RelTo(root, f), full(f))
        /\ ~PrunedBelow(full(f), RelTo(root, f), depth)
        /\ \A k \in Len(dir)..Len(f) - 1 : Canonical(Prefix(f, k)) \notin disk.locked}

\* The walk and the replay for one path agree: a file is handed to the sink
\* exactly when the per-file answer, over the stack an editor assembles whole,
\* says it is in scope (policy.rs, is_path_pruned: "Equivalent to running
\* classify_dir down a real single-path walk").
TakenAsReplayed ==
  Done => BagToSet(found) = UNION {Replayed(args[i]) : i \in DOMAIN args}

\* Whatever was pushed and popped on the way, the stack holds the layers of the
\* directories from the format root down to the one being walked, no other, in
\* that order (the push-order rule is part of it); and a scope moved from
\* directory to directory, across repositories and out of excluded directories,
\* is the scope read from nothing for the last one.
StackIsChain ==
  /\ frames # <<>> => stack = FullStack(formatRoot, Top.dir)
  /\ scope.dirs # <<>> =>
       LET dir == scope.dirs[Len(scope.dirs)].dir
           root == FormatRootOf(dir)
       IN  /\ scope.root = root
           /\ scope.stack = Preload(root, dir, Len(dir) - Len(root.path) + 1).stack

\* A run takes no file up twice, under whatever spellings it was found, though
\* the canonical paths are compared only where two arguments can overlap; a
\* single root, whose files are streamed unsorted, never finds one twice.
OncePerFile ==
  Done => /\ \A p, q \in files : Canonical(p) = Canonical(q) => p = q
          /\ Len(args) = 1 => \A p \in BagToSet(found) : found[p] = 1

\* What the walk of an argument says of the entry child of dir, and of the k-th
\* name of a path; the gate lets the argument pass; the walk comes to the
\* directory of the k-th name, and prunes it.
VerdictIn(root, dir, child) ==
  LET st == FullStack(root, dir) IN ClassifyInner(st, RelTo(root, child), st.gitignore = <<>>)
Verdict(root, p, k) == VerdictIn(root, Prefix(p, k - 1), Prefix(p, k))
Passes(arg, root) ==
  ~RootExcluded(FullStack(root, Parent(arg.path)), RelTo(root, arg.path), arg.path \notin DOMAIN LinkTo)
PrunedAt(arg, root, f, k) ==
  /\ \A j \in Len(arg.path) + 1 .. k - 1 : Verdict(root, f, j) = "descend"
  /\ \A j \in Len(arg.path) .. k - 1 : Canonical(Prefix(f, j)) \notin disk.locked
  /\ Passes(arg, root)
  /\ Verdict(root, f, k) # "descend" /\ f[k] \notin Nets

\* A negation of the layer takes the path rest in, spells its names as far as
\* down and goes on; one does in a layer above the k-th name of a path.
SpelledBy(layer, rest, down) ==
  \E r \in DOMAIN layer.rules :
    /\ layer.rules[r].negated
    /\ RuleMatches(layer.rules[r], rest, FALSE)
    /\ Len(layer.rules[r].segs) > down
    /\ Prefix(layer.rules[r].segs, down) = Prefix(rest, down)
    /\ \A n \in 1..down : layer.rules[r].segs[n] \notin {Star, DoubleStar}
SpelledAt(root, f, k) ==
  LET st == FullStack(root, Prefix(f, k - 1))
  IN  \E l \in DOMAIN st.overrides :
        SpelledBy(st.overrides[l], Below(RelTo(root, f), st.overrides[l].anchor),
                  k - Len(root.path) - Len(st.overrides[l].anchor))

\* A negation that spells its way, name by name, through a directory to a file,
\* from a layer above that directory, is either effective there or warned about:
\* when the walk prunes that directory for the heuristic or a rule, it says so.
ShadowWarned ==
  Done => \A i \in DOMAIN args : args[i].kind = "dir" =>
    LET dir == args[i].path
        root == FormatRootOf(dir)
        inTree == {f \in Files : Above(Canonical(dir), f)}
    IN  \A f \in {dir \o Below(g, Canonical(dir)) : g \in inTree} : \A k \in Len(dir) + 1 .. Len(f) - 1 :
          PrunedAt(args[i], root, f, k) /\ SpelledAt(root, f, k)
          => \E w \in warned : w[1] = "shadow" /\ w[2] = Prefix(f, k)

\* What a warning tells to do works when it is done: the lines added to the file
\* named, and the rules to be narrowed out of deeper files, the directory is no
\* longer pruned, each path that a negation under it names is in scope, and no
\* file is that no negation takes in; an excluded argument is in scope, and what
\* was out of scope beside it still is.  What a deeper override file says of a
\* path, other than of what is to be narrowed, stands.
AdviceWorks ==
  [][\A w \in warned' \ warned :
       LET names == {Name(p) : p \in (Dirs \cup Files) \ {<<>>}}
           under(dir) == {dir \o q : q \in UNION {[1..n -> names] : n \in 1..3}}
           told == w[3]
       IN  CASE w[1] = "shadow" ->
                  LET dir == RelTo(formatRoot, w[2])
                      after == Followed(stack, told, dir, TRUE)
                  IN  told.lines # <<>> =>
                        /\ ClassifyInner(after, dir, Top.active) = "descend"
                        /\ ShadowLinesReach(stack, dir, told, under(dir))
             [] w[1] = "excluded" ->
                  LET arg == w[2]
                      st == IF arg.kind = "file" THEN scope'.stack ELSE stack'
                      root == IF arg.kind = "file" THEN scope'.root ELSE formatRoot'
                      isDir == arg.kind = "dir" /\ arg.path \notin DOMAIN LinkTo
                  IN  told.lines # <<>> =>
                        ArgumentLinesReach(st, RelTo(root, arg.path), isDir, told, under(<<>>))
             [] OTHER -> TRUE]_vars

\* docs/cli.md:733, of a subdirectory named inside a repository: it "is bounded
\* by the same ignore rules as when it is reached via an ancestor - only the
\* safety nets and the heuristic, which grade no named path, can tell the two
\* apart".
NamedAsReached ==
  Done => \A i \in DOMAIN args : args[i].kind = "dir" =>
    \A k \in 0..Len(args[i].path) : \A f \in files :
      LET root == FormatRootOf(Prefix(args[i].path, k))
      IN  root.inRepo /\ Above(args[i].path, f) =>
            ~IsIgnored(FullStack(root, Parent(f)), RelTo(root, f), FALSE)
=============================================================================
