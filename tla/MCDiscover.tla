------------------------------ MODULE MCDiscover ------------------------------
(***************************************************************************)
(* A tree of six directories and six files, a link into it, and the        *)
(* disks and requests the runs take from.                                  *)
(***************************************************************************)
EXTENDS Discover

MCDirs == {<<>>, <<"a">>, <<"dist">>, <<"a", "dist">>, <<"dist", "a">>, <<"nm">>}
MCFiles == {<<"f">>, <<"a", "f">>, <<"dist", "f">>, <<"a", "dist", "f">>,
            <<"dist", "a", "f">>, <<"nm", "f">>}
MCLinkTo == [l \in {<<"ln">>} |-> <<"dist">>]

Absent == [kind |-> "absent", rules |-> <<>>]
Unreadable == [kind |-> "unreadable", rules |-> <<>>]
File(rules) == [kind |-> "file", rules |-> rules]
Link(rules) == [kind |-> "link", rules |-> rules]

\* dist/  !dist/  /dist  !/dist/f  !/dist/a/f  f  !f  /a  /*  !/a/dist/*
DistDirs == Rule(<<DoubleStar, "dist">>, FALSE, TRUE)
KeepDistDirs == Rule(<<DoubleStar, "dist">>, TRUE, TRUE)
Dist == Rule(<<"dist">>, FALSE, FALSE)
KeepDistF == Rule(<<"dist", "f">>, TRUE, FALSE)
KeepDistAF == Rule(<<"dist", "a", "f">>, TRUE, FALSE)
AnyF == Rule(<<DoubleStar, "f">>, FALSE, FALSE)
KeepAnyF == Rule(<<DoubleStar, "f">>, TRUE, FALSE)
TopA == Rule(<<"a">>, FALSE, FALSE)
All == Rule(<<Star>>, FALSE, FALSE)
KeepInADist == Rule(<<"a", "dist", Star>>, TRUE, FALSE)
LinkDir == Rule(<<"ln">>, FALSE, TRUE)
LinkAny == Rule(<<"ln">>, FALSE, FALSE)

\* Ignore files for the directories named, none anywhere else.
In(given) == [d \in MCDirs |-> IF d \in DOMAIN given THEN given[d] ELSE Absent]
Two(top, a) == In([d \in {<<>>, <<"a">>} |-> IF d = <<>> THEN top ELSE a])
Three(top, a, dist) ==
  In([d \in {<<>>, <<"a">>, <<"dist">>} |-> IF d = <<>> THEN top ELSE IF d = <<"a">> THEN a ELSE dist])
Disk(git, format, prettier, repos, locked) ==
  [gitignore |-> git, formatignore |-> format, prettierignore |-> prettier,
   repos |-> repos, locked |-> locked]

TopGits == {Absent} \cup {File(r) : r \in
  {<<>>, <<DistDirs>>, <<DistDirs, KeepDistDirs>>, <<AnyF>>, <<TopA>>, <<All, KeepDistDirs>>}}
TopOverrides == {Absent} \cup {File(r) : r \in
  {<<KeepDistDirs>>, <<KeepDistF>>, <<KeepDistAF>>, <<KeepAnyF>>, <<Dist, KeepDistF>>, <<KeepInADist>>}}
SubGits == {Absent} \cup {File(r) : r \in {<<>>, <<KeepDistDirs>>}}
SubOverrides == {Absent} \cup {File(r) : r \in {<<DistDirs>>, <<KeepDistF>>, <<KeepAnyF>>}}
InDist == {<<Absent, Absent>>, <<File(<<>>), Absent>>, <<Absent, File(<<KeepAnyF, TopA>>)>>}
\* a and dist lie beside each other: one of them at a time holds override files.
RuleDisks ==
  {Disk(Three(g, g2, s[2][1]), Three(o, s[1], s[2][2]), In(<<>>), {<<>>}, {}) :
     g \in TopGits, g2 \in SubGits, o \in TopOverrides,
     s \in (SubOverrides \X {<<Absent, Absent>>}) \cup ({Absent} \X InDist)}

\* One directory named, from the top, in the middle and inside what is pruned.
Named(kind, path) == [kind |-> kind, path |-> path]
OneDir == {<<Named("dir", d)>> : d \in {<<>>, <<"a">>, <<"dist", "a">>}}

\* Files that are there but cannot be used, links, a directory that cannot be
\* listed, no repository, a repository inside another.
OddFiles == {Absent, Unreadable, Link(<<KeepDistDirs, LinkDir>>), File(<<DistDirs>>), File(<<LinkAny>>)}
OddDisks ==
  {Disk(Two(g, h), Two(o, h), In([d \in {<<>>} |-> p]), repos, locked) :
     g \in OddFiles, o \in OddFiles, p \in {Absent, File(<<AnyF>>)}, h \in {Absent, File(<<KeepAnyF>>)},
     repos \in {{}, {<<>>}, {<<"a">>}, {<<>>, <<"a">>}}, locked \in {{}, {<<"a">>}}}

\* Up to three arguments: a walk, files spread over directories, a link, overlaps.
ManyArgs ==
  {<<Named("file", p), Named("file", q), Named("file", r)>> :
     p \in {<<"a", "dist", "f">>, <<"dist", "a", "f">>}, q \in {<<"f">>, <<"a", "f">>},
     r \in {<<"dist", "f">>, <<"a", "dist", "f">>}}
  \cup {<<Named("dir", <<"ln">>)>>, <<Named("dir", <<"ln">>), Named("dir", <<"dist", "a">>)>>,
        <<Named("dir", <<"dist", "a">>), Named("dir", <<"dist">>)>>, <<Named("dir", <<"a">>), Named("dir", <<"nm">>)>>,
        <<Named("dir", <<"dist">>), Named("file", <<"dist", "f">>)>>, <<Named("dir", <<>>)>>}

\* Every way of up to three negations to reach under a/dist, which the heuristic
\* or a rule prunes.
ADist == <<"a", "dist">>
Reaches == {Rule(ADist \o r[1], TRUE, r[2]) : r \in
  {<<<<"f">>, FALSE>>, <<<<"a">>, TRUE>>, <<<<"a">>, FALSE>>, <<<<"a", "f">>, FALSE>>, <<<<Star>>, FALSE>>, <<<<Star>>, TRUE>>,
   <<<<DoubleStar, "f">>, FALSE>>, <<<<Star, "f">>, FALSE>>, <<<<"a", "nm">>, TRUE>>, <<<<"a", "nm", "f">>, FALSE>>,
   <<<<"a", DoubleStar, "f">>, FALSE>>, <<<<DoubleStar, "a">>, TRUE>>, <<<<DoubleStar>>, FALSE>>}}
ShadowDisks ==
  {Disk(Two(g, Absent), Two(File(SetToSeq(kept)), Absent), In(<<>>), {<<>>}, {}) :
     g \in {Absent, File(<<Rule(ADist, FALSE, FALSE)>>)}, kept \in {s \in SUBSET Reaches : Cardinality(s) \in 1..3}}

\* The same with negations in two files and exclusions in either.
TwoFileDisks ==
  {Disk(Two(g, h), Two(File(<<r>> \o top), File(sub \o <<s>>)), In(<<>>), {<<>>}, {}) :
     g \in {Absent, File(<<DistDirs>>)}, h \in {Absent, File(<<DistDirs>>)},
     top \in {<<>>, <<DistDirs>>}, sub \in {<<>>, <<DistDirs>>},
     r \in {t \in Reaches : ~t.dirOnly}, s \in {[t EXCEPT !.segs = Below(@, <<"a">>)] : t \in Reaches} \cup {DistDirs}}

\* Arguments that a rule excludes.
OutOfScope ==
  {<<Named("file", <<"dist", "a", "f">>)>>, <<Named("file", <<"a", "dist", "f">>)>>, <<Named("dir", <<"a", "dist">>)>>}

NamedCases == OddDisks \X OneDir
MCCases == (RuleDisks \X (OneDir \cup OutOfScope)) \cup (OddDisks \X ManyArgs)
           \cup ((ShadowDisks \cup TwoFileDisks) \X {<<Named("dir", <<"a">>)>>})
=============================================================================
