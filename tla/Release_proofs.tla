---------------------------- MODULE Release_proofs ----------------------------
(* Proofs about Release, for any number of packages, platforms, crates and  *)
(* versions, and any number of fixes and faults.                            *)
EXTENDS Release, TLAPS

FileSet == [cargo: 0..MaxVersion, lock: 0..MaxVersion, notes: 0..MaxVersion]
Entries == [fix: 0..MaxFixes, files: FileSet]
Commits == Seq(Entries)
Trees   == [files: FileSet, stray: SUBSET (1..MaxFixes)]
Names   == Version \cup {NoVersion}
PubPcs  == {"idle", "unstale", "cargo", "sentinel", "lock", "stamp", "print",
            "gates", "test", "npm", "finalize", "tag", "push", "unsentinel"}

Pubs    == [pc: PubPcs, v: Names, all: BOOLEAN, noGit: BOOLEAN,
            print: {<<>>} \cup (Commits \X Trees), src: SUBSET (1..MaxFixes),
            next: Nat]
Wfs     == [pc: {"idle", "build", "npm", "github"}, v: Names, next: Nat]
CrateRuns == [pc: {"idle", "ask", "upload", "asleep"}, v: Names, site: Commits,
              src: SUBSET (1..MaxFixes), missing: SUBSET Crate, left: Int]

Types ==
    /\ main \in Commits /\ head \in Commits
    /\ main # NoCommit /\ head # NoCommit
    /\ tree \in Trees /\ tree.stray \subseteq 1..fixes
    /\ sentinel \in Names /\ handed \in Names
    /\ localTag \in [Version -> Commits] /\ originTag \in [Version -> Commits]
    /\ live \in SUBSET Good /\ built \in [Good -> SUBSET (1..MaxFixes)]
    /\ shifted \in BOOLEAN /\ dropped \in SUBSET (0..MaxVersion)
    /\ fixes \in 1..MaxFixes /\ faults \in 0..MaxFaults
    /\ pub \in Pubs /\ wf \in Wfs /\ crates \in CrateRuns

\* What main has beyond HEAD is source changes: every release commit is ours.
MainAhead ==
    IsPrefix(head, main) =>
        \A i \in Len(head) + 1..Len(main) :
            main[i].fix # 0 /\ main[i].files = FilesOf(head)

\* A tag is on a commit of this checkout that holds the version's files.
TagsAreOurs ==
    \A v \in Version :
        /\ IsPrefix(localTag[v], head)
        /\ originTag[v] \in {NoCommit, localTag[v]}
        /\ localTag[v] # NoCommit => FilesOf(localTag[v]) = Files(v, v, v)

\* Whole bumps are committed, and main has none whose tag is missing.
WholeBumps ==
    /\ FilesOf(head).cargo = FilesOf(head).lock
    /\ FilesOf(head).cargo = FilesOf(head).notes
    /\ \/ FilesOf(main) = Files(0, 0, 0)
       \/ \E v \in Version : FilesOf(main) = Files(v, v, v) /\ originTag[v] # NoCommit
    /\ tree.files.cargo = FilesOf(head).cargo => tree.files = FilesOf(head)

\* A tag that is not pushed names what the checkout and HEAD hold.
Unpushed ==
    \A v \in Version : localTag[v] # originTag[v] =>
        tree.files = Files(v, v, v) /\ FilesOf(head) = Files(v, v, v)

\* What was handed over is still in the tree, or its tag is on origin.
HandedOver ==
    handed # NoVersion =>
        \/ tree.files = Files(handed, handed, handed)
        \/ originTag[handed] # NoCommit

\* A version that was given up and is not out is nowhere in the checkout.
GoneForGood ==
    \A v \in dropped \cap Version : originTag[v] = NoCommit =>
        FilesOf(head).cargo # v /\ tree.files.cargo # v /\ handed # v

\* A run of publish.ts: a fresh one starts with nothing under way; from the
\* sentinel on, the checkout is at the version it releases.
Fresh   == {"unstale", "cargo", "sentinel"}
Unbuilt == Fresh \cup {"lock", "stamp", "print", "gates", "test"}
Bumped  == {"print", "gates", "test", "npm", "finalize", "tag", "push", "unsentinel"}
Settled == \A w \in Version : localTag[w] = originTag[w] /\ ~UnderWay(w)

FreshRun ==
    /\ pub.pc \in Fresh =>
          /\ Settled /\ (handed # NoVersion => originTag[handed] # NoCommit)
          /\ FilesOf(head).cargo < pub.v /\ pub.v \notin dropped
          /\ localTag[pub.v] = NoCommit /\ ~Started(pub.v) /\ ~pub.all
    /\ pub.pc \in {"unstale", "cargo"} => tree.files = FilesOf(head)
    /\ pub.pc \in {"cargo", "sentinel"} => sentinel = NoVersion

RunAt ==
    /\ pub.pc # "idle" => pub.v \in Version
    /\ pub.pc \in {"sentinel", "lock", "stamp"} \cup Bumped => tree.files.cargo = pub.v
    /\ pub.pc \in {"lock", "stamp"} \cup Bumped => sentinel = pub.v
    /\ pub.pc \in Unbuilt => pub.next = 1
    /\ pub.pc = "stamp" => tree.files.lock = pub.v
    /\ pub.pc \in Bumped => tree.files = Files(pub.v, pub.v, pub.v)
    /\ pub.pc \in {"tag", "push"} => FilesOf(head) = Files(pub.v, pub.v, pub.v)
    /\ pub.pc = "push" => localTag[pub.v] # NoCommit
    /\ pub.pc = "unsentinel" => pub.noGit \/ originTag[pub.v] # NoCommit

RepoInv ==
    /\ Types /\ MainAhead /\ TagsAreOurs /\ WholeBumps /\ Unpushed /\ HandedOver
    /\ GoneForGood /\ FreshRun /\ RunAt /\ SentinelCovers

\* The packages come first: what is tagged or handed over has all of them.
PackagesFirst ==
    /\ \A v \in Version : localTag[v] # NoCommit => AllOut(v)
    /\ handed # NoVersion => AllOut(handed)
    /\ pub.pc \in {"lock", "stamp"} =>
          IF pub.all THEN AllOut(pub.v) ELSE localTag[pub.v] = NoCommit
    /\ pub.pc \in {"print", "gates", "test", "npm"} => localTag[pub.v] = NoCommit
    /\ pub.pc = "npm" => /\ pub.next \in Wasm
                         /\ \A i \in 1..pub.next - 1 : Item("wasm", i, pub.v) \in live
    /\ pub.pc \in {"finalize", "tag", "push", "unsentinel"} => AllOut(pub.v)

\* The workflow's place in its order of publishing.
WorkflowAt ==
    /\ wf.pc # "idle" => wf.v \in Version /\ originTag[wf.v] # NoCommit
    /\ wf.pc = "build" => wf.next = 1
    /\ wf.pc = "npm" => /\ wf.next \in Napi
                        /\ \A i \in 1..wf.next - 1 : Item("napi", i, wf.v) \in live
    /\ wf.pc = "github" => NapiOf(wf.v) \subseteq live

\* A run of publish_crates.ts uploads from the tag, and knows what is missing.
CratesAt ==
    /\ crates.pc # "idle" => crates.v \in Version /\ localTag[crates.v] # NoCommit
    /\ crates.pc \in {"ask", "upload"} =>
          \A c \in Crate \ crates.missing : Item("crate", c, crates.v) \in live
    /\ crates.pc = "upload" => crates.src = SourceOf(localTag[crates.v])
    /\ \A v \in Version, c \in Crate : Item("crate", c, v) \in live =>
          localTag[v] # NoCommit /\ built[Item("crate", c, v)] = SourceOf(localTag[v])

\* What the packages of a run are built from, as long as nothing moves the
\* checkout behind its back, and what is public of a version under way.
BuiltFrom ==
    /\ pub.pc \in {"gates", "test"} =>
          /\ IsPrefix(pub.print[1], head) /\ pub.print \in Commits \X Trees
          /\ pub.print[2].stray \subseteq tree.stray
          /\ ~shifted => pub.print[2].stray = {}
    /\ pub.pc = "test" /\ pub.print = <<head, tree>> => pub.src = Checkout
    /\ ~shifted /\ Unprinted => tree.stray = {}
    /\ ~shifted /\ pub.pc = "npm" => pub.src = SourceOf(head)
    /\ ~shifted => \A v \in Version : UnderWay(v) =>
          /\ \A i \in Wasm : Item("wasm", i, v) \in live =>
                  built[Item("wasm", i, v)] = SourceOf(head)
          /\ localTag[v] # NoCommit => SourceOf(localTag[v]) = SourceOf(head)

ReleaseInv ==
    /\ RepoInv /\ PackagesFirst /\ WorkflowAt /\ CratesAt /\ BuiltFrom /\ SameSource

-----------------------------------------------------------------------------
(* Commits: a history, what it extends, and what it holds.                  *)

LEMMA PrefixIs ==
  ASSUME NEW s \in Commits, NEW t \in Commits
  PROVE  IsPrefix(s, t) <=> Len(s) <= Len(t) /\ \A i \in 1..Len(s) : s[i] = t[i]
<1>1. ASSUME Len(s) <= Len(t)
      PROVE  SubSeq(s, 1, Len(s)) = SubSeq(t, 1, Len(s)) <=> \A i \in 1..Len(s) : s[i] = t[i]
  <2>1. /\ Len(SubSeq(s, 1, Len(s))) = Len(s)
        /\ \A i \in 1..Len(s) : SubSeq(s, 1, Len(s))[i] = s[i]
    BY DEF Commits
  <2>2. /\ Len(SubSeq(t, 1, Len(s))) = Len(s)
        /\ \A i \in 1..Len(s) : SubSeq(t, 1, Len(s))[i] = t[i]
    BY <1>1 DEF Commits
  <2>3. SubSeq(s, 1, Len(s)) \in Commits /\ SubSeq(t, 1, Len(s)) \in Commits
    BY <1>1 DEF Commits
  <2> QED BY <2>1, <2>2, <2>3 DEF Commits
<1> QED BY <1>1 DEF IsPrefix

LEMMA PrefixTrans ==
  ASSUME NEW s \in Commits, NEW t \in Commits, NEW u \in Commits,
         IsPrefix(s, t), IsPrefix(t, u)
  PROVE  IsPrefix(s, u)
<1>1. /\ Len(s) <= Len(t) /\ \A i \in 1..Len(s) : s[i] = t[i]
      /\ Len(t) <= Len(u) /\ \A i \in 1..Len(t) : t[i] = u[i]
  BY PrefixIs
<1>2. Len(s) \in Nat /\ Len(t) \in Nat /\ Len(u) \in Nat BY DEF Commits
<1> QED BY <1>1, <1>2, PrefixIs

LEMMA PrefixSelf ==
  ASSUME NEW s \in Commits PROVE IsPrefix(s, s) /\ IsPrefix(NoCommit, s)
<1>1. NoCommit \in Commits /\ Len(NoCommit) = 0 /\ Len(s) \in Nat BY DEF NoCommit, Commits
<1> QED BY <1>1, PrefixIs

LEMMA PrefixSame ==
  ASSUME NEW s \in Commits, NEW t \in Commits, IsPrefix(s, t), Len(s) = Len(t)
  PROVE  s = t
<1>1. \A i \in 1..Len(s) : s[i] = t[i] BY PrefixIs
<1> QED BY <1>1 DEF Commits

\* `t` is `s` with one more commit.
OneMore(s, t, k, f) ==
    /\ t \in Commits /\ t # NoCommit /\ IsPrefix(s, t) /\ Len(t) = Len(s) + 1
    /\ \A i \in 1..Len(s) : t[i] = s[i]
    /\ t[Len(s) + 1] = [fix |-> k, files |-> f]
    /\ FilesOf(t) = f
    /\ SourceOf(t) = SourceOf(s) \cup ({k} \ {0})

LEMMA Extended ==
  ASSUME NEW s \in Commits, NEW k \in 0..MaxFixes, NEW f \in FileSet,
         NEW t, t = Append(s, [fix |-> k, files |-> f])
  PROVE  OneMore(s, t, k, f)
<1>1. [fix |-> k, files |-> f] \in Entries BY DEF Entries
<1>2. /\ t \in Commits /\ t # NoCommit /\ Len(t) = Len(s) + 1 /\ Len(s) \in Nat
      /\ \A i \in 1..Len(s) : t[i] = s[i]
      /\ t[Len(s) + 1] = [fix |-> k, files |-> f]
  BY <1>1 DEF Commits, NoCommit
<1>3. IsPrefix(s, t)
  <2>1. Len(s) <= Len(t) /\ \A i \in 1..Len(s) : s[i] = t[i] BY <1>2
  <2> QED BY <1>2, <2>1, PrefixIs
<1>4. FilesOf(t) = f BY <1>2 DEF FilesOf
<1>5. SourceOf(t) = SourceOf(s) \cup ({k} \ {0})
  <2>1. DOMAIN s = 1..Len(s) /\ DOMAIN t = 1..Len(t) BY <1>2 DEF Commits
  <2>2. 1..Len(t) = 1..Len(s) \cup {Len(s) + 1} BY <1>2
  <2>3. {t[i].fix : i \in DOMAIN t} = {s[i].fix : i \in DOMAIN s} \cup {k}
    BY <1>2, <2>1, <2>2
  <2> QED BY <2>3 DEF SourceOf
<1> QED BY <1>2, <1>3, <1>4, <1>5 DEF OneMore

LEMMA FilesType ==
  ASSUME NEW c \in Commits, c # NoCommit
  PROVE  FilesOf(c) \in FileSet /\ Len(c) \in Nat \ {0} /\ Len(c) \in 1..Len(c)
<1>1. Len(c) \in Nat /\ Len(c) # 0 BY DEF Commits, NoCommit
<1>2. c[Len(c)] \in Entries BY <1>1 DEF Commits
<1> QED BY <1>1, <1>2 DEF FilesOf, Entries

LEMMA SourceType ==
  ASSUME NEW c \in Commits PROVE SourceOf(c) \in SUBSET (1..MaxFixes)
<1>1. \A i \in DOMAIN c : c[i] \in Entries BY DEF Commits
<1>2. \A i \in DOMAIN c : c[i].fix \in 0..MaxFixes BY <1>1 DEF Entries
<1> QED BY <1>2, SizesAssumption DEF SourceOf

LEMMA FixIs ==
  ASSUME NEW c \in Commits, c # NoCommit, NEW k \in 1..MaxFixes
  PROVE  OneMore(c, Fix(c, k), k, FilesOf(c))
<1>1. PICK f \in FileSet : f = FilesOf(c) BY FilesType
<1>2. PICK j \in 0..MaxFixes : j = k BY SizesAssumption
<1>3. Fix(c, k) = Append(c, [fix |-> j, files |-> f]) BY <1>1, <1>2 DEF Fix
<1>4. PICK t : t = Fix(c, k) OBVIOUS
<1>5. t = Append(c, [fix |-> j, files |-> f]) BY <1>3, <1>4
<1>6. OneMore(c, t, j, f) BY <1>5, Extended
<1> QED BY <1>1, <1>2, <1>4, <1>6

LEMMA BumpIs ==
  ASSUME NEW c \in Commits, NEW f \in FileSet
  PROVE  OneMore(c, Bump(c, f), 0, f)
<1>1. PICK t : t = Bump(c, f) OBVIOUS
<1>2. PICK j \in 0..MaxFixes : j = 0 BY SizesAssumption
<1>3. t = Append(c, [fix |-> j, files |-> f]) BY <1>1, <1>2 DEF Bump
<1>4. OneMore(c, t, j, f) BY <1>3, Extended
<1> QED BY <1>1, <1>2, <1>4

\* a release commit, or none when there is nothing to commit
LEMMA CommitIs ==
  ASSUME Types
  PROVE  /\ CommitFiles \in Commits /\ CommitFiles # NoCommit
         /\ IsPrefix(head, CommitFiles) /\ FilesOf(CommitFiles) = tree.files
         /\ SourceOf(CommitFiles) = SourceOf(head)
         /\ \/ CommitFiles = head
            \/ /\ Len(CommitFiles) = Len(head) + 1
               /\ \A i \in 1..Len(head) : CommitFiles[i] = head[i]
               /\ CommitFiles[Len(head) + 1].fix = 0
<1>1. PICK f \in FileSet : f = tree.files BY DEF Types, Trees
<1>2. CASE tree.files = FilesOf(head)
  BY <1>2, PrefixSelf DEF CommitFiles, Types
<1>3. CASE tree.files # FilesOf(head)
  <2>1. PICK t : t = Bump(head, f) OBVIOUS
  <2>2. CommitFiles = t BY <1>1, <1>3, <2>1 DEF CommitFiles
  <2>3. /\ t \in Commits /\ t # NoCommit /\ IsPrefix(head, t) /\ Len(t) = Len(head) + 1
        /\ \A i \in 1..Len(head) : t[i] = head[i]
        /\ t[Len(head) + 1] = [fix |-> 0, files |-> f]
        /\ FilesOf(t) = f /\ SourceOf(t) = SourceOf(head)
    BY ZenonT(60), <2>1, BumpIs DEF Types, OneMore
  <2> QED BY <1>1, <2>2, <2>3
<1> QED BY <1>2, <1>3

-----------------------------------------------------------------------------
(* Types are kept.                                                          *)

LEMMA GoodItems ==
  /\ \A i \in Wasm, v \in Version : Item("wasm", i, v) \in Good
  /\ \A i \in Napi, v \in Version : Item("napi", i, v) \in Good
  /\ \A c \in Crate, v \in Version : Item("crate", c, v) \in Good
  /\ \A v \in Version : Item("github", 0, v) \in Good /\ Item("tag", 0, v) \in Good
BY DEF Item, Good

\* what becomes public, and what it is built from
LEMMA PublishIs ==
  ASSUME Types, NEW g \in Good, NEW src \in SUBSET (1..MaxFixes), Publish(g, src)
  PROVE  /\ live' = live \cup {g} /\ live' \in SUBSET Good
         /\ built' \in [Good -> SUBSET (1..MaxFixes)]
         /\ \A h \in Good : h # g \/ h \in live => built'[h] = built[h]
         /\ g \notin live => built'[g] = src
BY DEF Publish, Types

LEMMA PcStep ==
  ASSUME pub \in Pubs, NEW p \in PubPcs, To(p)
  PROVE  /\ pub' \in Pubs /\ pub'.pc = p /\ pub'.v = pub.v /\ pub'.all = pub.all
         /\ pub'.noGit = pub.noGit /\ pub'.print = pub.print /\ pub'.src = pub.src
         /\ pub'.next = pub.next
BY DEF Pubs, To

LEMMA IdleTypes == PubIdle \in Pubs /\ WfIdle \in Wfs /\ CrIdle \in CrateRuns
<1>1. << >> \in Commits BY DEF Commits
<1> QED BY <1>1 DEF PubIdle, WfIdle, CrIdle, Pubs, Wfs, CrateRuns, PubPcs, Names, NoCommit

LEMMA StartTypes ==
  ASSUME Types, ReleaseInv, Start PROVE Types'
<1>1. PICK p \in PubPcs, v \in Version, b \in BOOLEAN, a \in BOOLEAN :
        /\ pub' = [pc |-> p, v |-> v, all |-> a, noGit |-> b,
                    print |-> <<>>, src |-> {}, next |-> 1]
        /\ dropped' \subseteq dropped
        /\ UNCHANGED <<repo, sentinel, live, built, wf, crates, shifted, handed, fixes, faults>>
  <2>1. CASE \E noGit \in NoGit : StartResume(noGit)
    <3>1. PICK noGit \in NoGit : StartResume(noGit) BY <2>1
    <3>2. AllOut(sentinel) \in BOOLEAN BY DEF AllOut
    <3>3. sentinel \in Version /\ noGit \in BOOLEAN
      BY <3>1, NoGitAssumption DEF StartResume, Types, Names
    <3>4. PICK a \in BOOLEAN : a = AllOut(sentinel) BY <3>2
    <3>5. pub' = [pc |-> "lock", v |-> sentinel, all |-> a, noGit |-> noGit,
                  print |-> <<>>, src |-> {}, next |-> 1]
      <4>1. pub' = [PubIdle EXCEPT !.pc = "lock", !.v = sentinel, !.noGit = noGit, !.all = a]
        BY <3>1, <3>4 DEF StartResume
      <4> QED BY <4>1 DEF PubIdle
    <3>6. /\ dropped' \subseteq dropped
          /\ UNCHANGED <<repo, sentinel, live, built, wf, crates, shifted, handed, fixes, faults>>
      BY <3>1 DEF StartResume, history
    <3>7. "lock" \in PubPcs BY DEF PubPcs
    <3> QED BY <3>3, <3>5, <3>6, <3>7
  <2>2. CASE \E noGit \in NoGit, level \in 1..MaxVersion : StartFresh(level, noGit)
    <3>1. PICK noGit \in NoGit, level \in 1..MaxVersion : StartFresh(level, noGit) BY <2>2
    <3>2. PICK v \in Version : v = tree.files.cargo + level BY <3>1 DEF StartFresh
    <3>3. pub' = [pc |-> "unstale", v |-> v, all |-> FALSE, noGit |-> noGit,
                  print |-> <<>>, src |-> {}, next |-> 1]
      <4>1. pub' = [PubIdle EXCEPT !.pc = "unstale", !.v = v, !.noGit = noGit]
        BY <3>1, <3>2 DEF StartFresh
      <4> QED BY <4>1 DEF PubIdle
    <3>4. noGit \in BOOLEAN BY NoGitAssumption
    <3>5. /\ dropped' \subseteq dropped
          /\ UNCHANGED <<repo, sentinel, live, built, wf, crates, shifted, handed, fixes, faults>>
      BY <3>1 DEF StartFresh
    <3>6. "unstale" \in PubPcs BY DEF PubPcs
    <3> QED BY <3>2, <3>3, <3>4, <3>5, <3>6
  <2> QED BY <2>1, <2>2 DEF Start
<1>2. pub' \in Pubs BY <1>1, IdleTypes DEF Pubs, Names
<1> QED BY <1>1, <1>2 DEF Types, repo

\* the changes a build of the checkout compiles
LEMMA CheckoutType ==
  ASSUME Types PROVE Checkout \in SUBSET (1..MaxFixes)
BY SourceType DEF Types, Trees, Checkout

\* a push leaves commits where there were commits
LEMMA PushTypes ==
  ASSUME Types, NEW h \in Commits, h # NoCommit,
         NEW tags \in [Version -> Commits], PushRefs(h, tags)
  PROVE  main' \in Commits /\ main' # NoCommit /\ originTag' \in [Version -> Commits]
<1>1. main' \in Commits /\ main' # NoCommit BY DEF Types, PushRefs
<1>2. \A v \in Version : originTag[v] \in Commits /\ tags[v] \in Commits BY DEF Types
<1>3. originTag' \in [Version -> Commits] BY <1>2 DEF PushRefs
<1> QED BY <1>1, <1>3

LEMMA PubStepTypes ==
  ASSUME Types, RunAt, PackagesFirst, PubSteps PROVE Types'
<1> USE DEF Types
<1>1. CASE RemoveStale
  <2>1. To("cargo") /\ "cargo" \in PubPcs BY <1>1 DEF RemoveStale, PubPcs
  <2>2. pub' \in Pubs BY <2>1, PcStep
  <2> QED BY <1>1, <2>2 DEF RemoveStale, repo, history, Names
<1>2. CASE WriteSentinel
  <2>1. To("lock") /\ "lock" \in PubPcs BY <1>2 DEF WriteSentinel, PubPcs
  <2>2. pub' \in Pubs BY <2>1, PcStep
  <2>3. pub.v \in Names BY DEF Pubs
  <2> QED BY <1>2, <2>2, <2>3 DEF WriteSentinel, repo, history
<1>3. CASE BumpCargo
  <2>1. To("sentinel") /\ "sentinel" \in PubPcs BY <1>3 DEF BumpCargo, PubPcs
  <2>2. pub' \in Pubs BY <2>1, PcStep
  <2>3. pub.v \in 0..MaxVersion BY <1>3 DEF BumpCargo, RunAt, Version
  <2>4. tree' \in Trees /\ tree'.stray = tree.stray
    BY <1>3, <2>3 DEF BumpCargo, Trees, FileSet
  <2> QED BY <1>3, <2>2, <2>4 DEF BumpCargo, history
<1>4. CASE BumpLockfile
  <2>1. To("stamp") /\ "stamp" \in PubPcs BY <1>4 DEF BumpLockfile, PubPcs
  <2>2. pub' \in Pubs BY <2>1, PcStep
  <2>3. pub.v \in 0..MaxVersion BY <1>4 DEF BumpLockfile, RunAt, Version
  <2>4. tree' \in Trees /\ tree'.stray = tree.stray
    BY <1>4, <2>3 DEF BumpLockfile, Trees, FileSet
  <2> QED BY <1>4, <2>2, <2>4 DEF BumpLockfile, history
<1>5. CASE StampChangelog
  <2>1. PICK p \in {"finalize", "print"} : To(p) BY <1>5 DEF StampChangelog
  <2>2. pub' \in Pubs BY <2>1, PcStep DEF PubPcs
  <2>3. pub.v \in 0..MaxVersion BY <1>5 DEF StampChangelog, RunAt, Version
  <2>4. tree' \in Trees /\ tree'.stray = tree.stray
    BY <1>5, <2>3 DEF StampChangelog, Trees, FileSet
  <2> QED BY <1>5, <2>2, <2>4 DEF StampChangelog, history
<1>6. CASE Fingerprint
  <2>1. FingerprintOf \in Commits \X Trees BY DEF FingerprintOf
  <2>2. pub' \in Pubs BY <1>6, <2>1 DEF Fingerprint, Pubs, PubPcs
  <2> QED BY <1>6, <2>2 DEF Fingerprint, repo, history
<1>7. CASE CheckAndBuild
  <2>1. Checkout \in SUBSET (1..MaxFixes) BY CheckoutType
  <2>2. pub' \in Pubs BY <1>7, <2>1 DEF CheckAndBuild, Pubs, PubPcs
  <2> QED BY <1>7, <2>2 DEF CheckAndBuild, repo, history
<1>8. CASE TestAndCompare
  <2>1. [pub EXCEPT !.pc = "npm"] \in Pubs BY DEF Pubs, PubPcs
  <2>2. pub' \in Pubs BY <1>8, <2>1, IdleTypes DEF TestAndCompare
  <2> QED BY <1>8, <2>2 DEF TestAndCompare, repo, history
<1>9. CASE NpmPublish
  <2>1. Item("wasm", pub.next, pub.v) \in Good
    BY <1>9, GoodItems DEF NpmPublish, RunAt, PackagesFirst
  <2>2. pub.src \in SUBSET (1..MaxFixes) BY DEF Pubs
  <2>3. Publish(Item("wasm", pub.next, pub.v), pub.src) BY <1>9 DEF NpmPublish
  <2>4. live' \in SUBSET Good /\ built' \in [Good -> SUBSET (1..MaxFixes)]
    BY <2>1, <2>2, <2>3, PublishIs
  <2>5. pub' \in Pubs BY <1>9 DEF NpmPublish, Pubs, PubPcs
  <2> QED BY <1>9, <2>4, <2>5 DEF NpmPublish, repo, history
<1>10. CASE GitCommit
  <2>1. PICK p \in {"tag", "unsentinel"} : To(p) BY <1>10 DEF GitCommit
  <2>2. pub' \in Pubs BY <2>1, PcStep DEF PubPcs
  <2>3. head' \in Commits /\ head' # NoCommit BY <1>10, CommitIs DEF GitCommit
  <2> QED BY <1>10, <2>2, <2>3 DEF GitCommit, history
<1>11. CASE GitTag
  <2>1. To("push") /\ "push" \in PubPcs BY <1>11 DEF GitTag, PubPcs
  <2>2. pub' \in Pubs BY <2>1, PcStep
  <2>3. localTag' \in [Version -> Commits] BY <1>11 DEF GitTag
  <2> QED BY <1>11, <2>2, <2>3 DEF GitTag, history
<1>12. CASE GitPush
  <2>1. main' \in Commits /\ main' # NoCommit /\ originTag' \in [Version -> Commits]
    BY <1>12, PushTypes DEF GitPush
  <2>2. [pub EXCEPT !.pc = "unsentinel"] \in Pubs BY DEF Pubs, PubPcs
  <2>3. pub' \in Pubs BY <1>12, <2>2, IdleTypes DEF GitPush
  <2> QED BY <1>12, <2>1, <2>3 DEF GitPush, history
<1>13. CASE RemoveSentinel
  <2>1. pub.v \in Names BY DEF Pubs
  <2>2. pub' \in Pubs /\ sentinel' \in Names /\ handed' \in Names
    BY <1>13, <2>1, IdleTypes DEF RemoveSentinel, Names
  <2> QED BY <1>13, <2>2 DEF RemoveSentinel, repo
<1> QED BY <1>1, <1>2, <1>3, <1>4, <1>5, <1>6, <1>7, <1>8, <1>9, <1>10, <1>11,
           <1>12, <1>13 DEF PubSteps

LEMMA PubStopsTypes ==
  ASSUME Types, RunAt, PackagesFirst, PubStops PROVE Types'
<1> USE DEF Types
<1>1. live' \in SUBSET Good /\ built' \in [Good -> SUBSET (1..MaxFixes)]
  <2>1. CASE UNCHANGED <<live, built>> BY <2>1
  <2>2. CASE pub.pc = "npm" /\ Publish(Item("wasm", pub.next, pub.v), pub.src)
    <3>1. Item("wasm", pub.next, pub.v) \in Good
      BY <2>2, GoodItems DEF RunAt, PackagesFirst
    <3>2. pub.src \in SUBSET (1..MaxFixes) BY DEF Pubs
    <3> QED BY <2>2, <3>1, <3>2, PublishIs
  <2> QED BY <2>1, <2>2 DEF PubStops
<1>2. pub' \in Pubs /\ faults' \in 0..MaxFaults
  BY IdleTypes, SizesAssumption DEF PubStops
<1> QED BY <1>1, <1>2 DEF PubStops, repo

LEMMA WfTypes ==
  ASSUME Types, WorkflowAt, WfSteps \/ WfStops PROVE Types'
<1> USE DEF Types
<1>0. WfSource \in SUBSET (1..MaxFixes) \/ wf.pc = "idle"
  <2>1. CASE wf.pc # "idle"
    <3>1. originTag[wf.v] \in Commits BY <2>1 DEF WorkflowAt
    <3> QED BY <3>1, SourceType, IdleTypes DEF WfSource
  <2> QED BY <2>1
<1>1. CASE \E v \in Version : WfStart(v)
  <2>1. PICK v \in Version : WfStart(v) BY <1>1
  <2>2. wf' \in Wfs BY <2>1, IdleTypes DEF WfStart, Wfs, Names
  <2> QED BY <2>1, <2>2 DEF WfStart, Untouched, repo, history
<1>2. CASE WfBuild
  <2>1. [wf EXCEPT !.pc = "npm"] \in Wfs BY DEF Wfs
  <2>2. wf' \in Wfs BY <1>2, <2>1, IdleTypes DEF WfBuild
  <2> QED BY <1>2, <2>2 DEF WfBuild, Untouched, repo, history
<1>3. CASE WfPublish
  <2>1. Item("napi", wf.next, wf.v) \in Good
    BY <1>3, GoodItems DEF WfPublish, WorkflowAt
  <2>2. WfSource \in SUBSET (1..MaxFixes) BY <1>0, <1>3 DEF WfPublish
  <2>3. Publish(Item("napi", wf.next, wf.v), WfSource) BY <1>3 DEF WfPublish
  <2>4. live' \in SUBSET Good /\ built' \in [Good -> SUBSET (1..MaxFixes)]
    BY <2>1, <2>2, <2>3, PublishIs
  <2>5. wf' \in Wfs BY <1>3 DEF WfPublish, Wfs
  <2> QED BY <1>3, <2>4, <2>5 DEF WfPublish, Untouched, repo, history
<1>4. CASE WfRelease
  <2>1. Item("github", 0, wf.v) \in Good BY <1>4, GoodItems DEF WfRelease, WorkflowAt
  <2>2. WfSource \in SUBSET (1..MaxFixes) BY <1>0, <1>4 DEF WfRelease
  <2>3. Publish(Item("github", 0, wf.v), WfSource) \/ UNCHANGED <<live, built>>
    BY <1>4 DEF WfRelease
  <2>4. live' \in SUBSET Good /\ built' \in [Good -> SUBSET (1..MaxFixes)]
    BY <2>1, <2>2, <2>3, PublishIs
  <2>5. wf' \in Wfs BY <1>4, IdleTypes DEF WfRelease
  <2> QED BY <1>4, <2>4, <2>5 DEF WfRelease, Untouched, repo, history
<1>5. CASE WfStops
  <2>1. live' \in SUBSET Good /\ built' \in [Good -> SUBSET (1..MaxFixes)]
    <3>1. CASE UNCHANGED <<live, built>> BY <3>1
    <3>2. CASE wf.pc = "npm" /\ Publish(Item("napi", wf.next, wf.v), WfSource)
      <4>1. Item("napi", wf.next, wf.v) \in Good BY <3>2, GoodItems DEF WorkflowAt
      <4>2. WfSource \in SUBSET (1..MaxFixes) BY <1>0, <3>2
      <4> QED BY <3>2, <4>1, <4>2, PublishIs
    <3> QED BY <1>5, <3>1, <3>2 DEF WfStops
  <2>2. wf' \in Wfs /\ faults' \in 0..MaxFaults
    BY <1>5, IdleTypes, SizesAssumption DEF WfStops
  <2> QED BY <1>5, <2>1, <2>2 DEF WfStops, Untouched, repo
<1> QED BY <1>1, <1>2, <1>3, <1>4, <1>5 DEF WfSteps

LEMMA CratesTypes ==
  ASSUME Types, CratesAt, CratesSteps \/ CratesStop \/ MoveSite PROVE Types'
<1> USE DEF Types
<1>1. CASE \E v \in Version : CratesStart(v)
  <2>1. PICK v \in Version : CratesStart(v) BY <1>1
  <2>2. localTag[v] \in Commits /\ Missing(v) \in SUBSET Crate BY DEF Missing
  <2>3. PICK t \in Commits, b \in SUBSET Crate : t = localTag[v] /\ b = Missing(v) BY <2>2
  <2>4. crates' = [pc |-> "ask", v |-> v, site |-> t, src |-> {}, missing |-> b,
                   left |-> Burst]
    BY <2>1, <2>3 DEF CratesStart, CrIdle
  <2>5. b \in SUBSET Crate /\ v \in Names /\ Burst \in Int
    BY <2>2, <2>3, BurstAssumption DEF Names
  <2>6. crates' \in CrateRuns BY <2>4, <2>5 DEF CrateRuns
  <2> QED BY <2>1, <2>6 DEF CratesStart, repo, history
<1>2. CASE CargoPublish
  <2>1. SourceOf(crates.site) \in SUBSET (1..MaxFixes) BY SourceType DEF CrateRuns
  <2>2. [crates EXCEPT !.pc = "upload", !.src = SourceOf(crates.site)] \in CrateRuns
    BY <2>1 DEF CrateRuns
  <2>3. crates' \in CrateRuns BY <1>2, <2>2, IdleTypes DEF CargoPublish
  <2> QED BY <1>2, <2>3 DEF CargoPublish, repo, history
<1>3. CASE CargoDone \/ CratesStop
  <2>1. crates' \in CrateRuns /\ faults' \in 0..MaxFaults
    BY <1>3, IdleTypes, SizesAssumption DEF CargoDone, CratesStop, history
  <2> QED BY <1>3, <2>1 DEF CargoDone, CratesStop, repo, history
<1>4. CASE RateLimited
  <2>1. crates' \in CrateRuns BY <1>4 DEF RateLimited, CrateRuns
  <2> QED BY <1>4, <2>1 DEF RateLimited, repo, history
<1>5. CASE CratesWake
  <2>1. Missing(crates.v) \in SUBSET Crate BY DEF Missing
  <2>2. PICK b \in SUBSET Crate : b = Missing(crates.v) BY <2>1
  <2>3. PICK p \in {"ask"}, k \in Int : p = "ask" /\ k = 1 OBVIOUS
  <2>5. [crates EXCEPT !.pc = p, !.missing = b, !.left = k] \in CrateRuns
    BY <2>2, <2>3 DEF CrateRuns
  <2>4. crates' \in CrateRuns BY <1>5, <2>2, <2>3, <2>5, IdleTypes DEF CratesWake
  <2> QED BY <1>5, <2>4 DEF CratesWake, repo, history
<1>6. CASE \E c \in Crate : CargoUpload(c)
  <2>1. PICK c \in Crate : CargoUpload(c) BY <1>6
  <2>2. Item("crate", c, crates.v) \in Good
    BY <2>1, GoodItems DEF CargoUpload, CratesAt
  <2>3. crates.src \in SUBSET (1..MaxFixes) BY DEF CrateRuns
  <2>4. Publish(Item("crate", c, crates.v), crates.src) BY <2>1 DEF CargoUpload
  <2>5. live' \in SUBSET Good /\ built' \in [Good -> SUBSET (1..MaxFixes)]
    BY <2>2, <2>3, <2>4, PublishIs
  <2>6. PICK k \in Int : crates' = [crates EXCEPT !.missing = @ \ {c}, !.left = k]
    <3>1. crates.left \in Int BY DEF CrateRuns
    <3>2. PICK k \in Int : k = IF IsNew(c) THEN crates.left - 1 ELSE crates.left
      BY <3>1
    <3> QED BY <2>1, <3>2 DEF CargoUpload
  <2>7. crates' \in CrateRuns BY <2>6 DEF CrateRuns
  <2> QED BY <2>1, <2>5, <2>7 DEF CargoUpload, repo, history
<1>7. CASE MoveSite
  <2>1. crates' \in CrateRuns BY <1>7 DEF MoveSite, CrateRuns
  <2>2. faults' \in 0..MaxFaults BY <1>7, SizesAssumption DEF MoveSite
  <2> QED BY <1>7, <2>1, <2>2 DEF MoveSite, repo
<1> QED BY <1>1, <1>2, <1>3, <1>4, <1>5, <1>6, <1>7 DEF CratesSteps

LEMMA PeopleTypes ==
  ASSUME Types, People, ~MoveSite PROVE Types'
<1> USE DEF Types
<1>1. CASE CoworkerPushes
  <2>1. fixes' \in 1..MaxFixes BY <1>1, SizesAssumption DEF CoworkerPushes
  <2>2. PICK k \in 1..MaxFixes : k = fixes' BY <2>1
  <2>3. OneMore(main, Fix(main, k), k, FilesOf(main)) BY FixIs
  <2>4. main' \in Commits /\ main' # NoCommit
    BY <1>1, <2>2, <2>3 DEF CoworkerPushes, OneMore
  <2>5. tree'.stray \subseteq 1..fixes' BY <1>1 DEF CoworkerPushes
  <2> QED BY <1>1, <2>1, <2>4, <2>5 DEF CoworkerPushes
<1>2. CASE Pull
  <2>1. shifted' \in BOOLEAN BY <1>2 DEF Pull, MoveHead
  <2> QED BY <1>2, <2>1 DEF Pull, MoveHead
<1>3. CASE Edit
  <2>1. fixes' \in 1..MaxFixes BY <1>3, SizesAssumption DEF Edit
  <2>2. tree' \in Trees /\ tree'.stray \subseteq 1..fixes' BY <1>3, <2>1 DEF Edit, Trees
  <2>3. shifted' \in BOOLEAN BY <1>3 DEF Edit
  <2> QED BY <1>3, <2>1, <2>2, <2>3 DEF Edit
<1>4. CASE CommitFix
  <2>1. PICK k \in tree.stray : /\ tree' = [tree EXCEPT !.stray = @ \ {k}]
                                /\ MoveHead(Fix(head, k))
    BY <1>4 DEF CommitFix
  <2>2. k \in 1..MaxFixes BY DEF Trees
  <2>3. OneMore(head, Fix(head, k), k, FilesOf(head)) BY <2>2, FixIs
  <2>4. head' \in Commits /\ head' # NoCommit BY <2>1, <2>3 DEF MoveHead, OneMore
  <2>5. tree' \in Trees /\ tree'.stray \subseteq 1..fixes BY <2>1 DEF Trees
  <2>6. shifted' \in BOOLEAN BY <2>1 DEF MoveHead
  <2> QED BY <1>4, <2>4, <2>5, <2>6 DEF CommitFix
<1>5. CASE DropEdits
  <2>1. tree' \in Trees /\ tree'.stray \subseteq 1..fixes BY <1>5 DEF DropEdits, Trees
  <2> QED BY <1>5, <2>1 DEF DropEdits, history
<1>6. CASE Revert
  <2>1. FilesOf(head) \in FileSet BY FilesType
  <2>2. tree' \in Trees /\ tree'.stray \subseteq 1..fixes BY <1>6, <2>1 DEF Revert, Trees
  <2>3. tree.files.cargo \in 0..MaxVersion BY DEF Trees, FileSet
  <2>4. dropped' \in SUBSET (0..MaxVersion) /\ handed' \in Names
    BY <1>6, <2>3 DEF Revert, Names
  <2>5. faults' \in 0..MaxFaults BY <1>6, SizesAssumption DEF Revert
  <2> QED BY <1>6, <2>2, <2>4, <2>5 DEF Revert
<1>7. CASE FinalizeByHand
  <2>1. CommitFiles \in Commits /\ CommitFiles # NoCommit BY CommitIs
  <2>2. localTag' \in [Version -> Commits] BY <1>7, <2>1 DEF FinalizeByHand
  <2>3. PushRefs(CommitFiles, localTag') BY <1>7 DEF FinalizeByHand
  <2>4. PICK h \in Commits, tags \in [Version -> Commits] :
          h = CommitFiles /\ tags = localTag'
    BY <2>1, <2>2
  <2>5. PushRefs(h, tags) BY <2>3, <2>4 DEF PushRefs
  <2>6. main' \in Commits /\ main' # NoCommit /\ originTag' \in [Version -> Commits]
    BY <2>1, <2>4, <2>5, PushTypes
  <2>7. head' \in Commits /\ head' # NoCommit /\ handed' \in Names
    BY <1>7, <2>1 DEF FinalizeByHand, Names
  <2> QED BY <1>7, <2>2, <2>6, <2>7 DEF FinalizeByHand
<1> QED BY <1>1, <1>2, <1>3, <1>4, <1>5, <1>6, <1>7 DEF People

-----------------------------------------------------------------------------
(* Steps that leave parts of the state alone.                               *)

\* What the parts of the invariant about publish.ts see of the artifacts.
WasmKept ==
    \A i \in Wasm, v \in Version :
        /\ Item("wasm", i, v) \in live' <=> Item("wasm", i, v) \in live
        /\ Item("wasm", i, v) \in live =>
               built'[Item("wasm", i, v)] = built[Item("wasm", i, v)]

CrateItemsKept ==
    \A c \in Crate, v \in Version :
        /\ Item("crate", c, v) \in live' <=> Item("crate", c, v) \in live
        /\ Item("crate", c, v) \in live =>
               built'[Item("crate", c, v)] = built[Item("crate", c, v)]

TagsKept ==
    \A v \in Version : /\ localTag[v] # NoCommit => localTag'[v] = localTag[v]
                       /\ originTag[v] # NoCommit => originTag'[v] # NoCommit

\* The parts that publish.ts, the maintainer and the coworkers can disturb.
OwnParts ==
    /\ MainAhead /\ TagsAreOurs /\ WholeBumps /\ Unpushed /\ HandedOver
    /\ GoneForGood /\ FreshRun /\ RunAt /\ SentinelCovers
    /\ PackagesFirst /\ BuiltFrom /\ SameSource

LEMMA RepoSame ==
  ASSUME MainAhead, TagsAreOurs, WholeBumps, Unpushed, UNCHANGED repo
  PROVE  MainAhead' /\ TagsAreOurs' /\ WholeBumps' /\ Unpushed'
<1>1. MainAhead' BY DEF MainAhead, repo
<1>2. TagsAreOurs' BY DEF TagsAreOurs, repo
<1>3. WholeBumps' BY DEF WholeBumps, repo
<1>4. Unpushed' BY DEF Unpushed, repo
<1> QED BY <1>1, <1>2, <1>3, <1>4

\* what is under way, and what is out, is a matter of the WASM packages
LEMMA WasmSame ==
  ASSUME WasmKept
  PROVE  \A v \in Version : /\ Started(v)' <=> Started(v)
                            /\ AllOut(v)' <=> AllOut(v)
BY DEF WasmKept, Started, AllOut

LEMMA UnderWaySame ==
  ASSUME WasmKept, UNCHANGED <<originTag, dropped>>
  PROVE  \A v \in Version : UnderWay(v)' <=> UnderWay(v)
BY WasmSame DEF UnderWay

LEMMA QuietStep ==
  ASSUME Types, OwnParts, WasmKept,
         UNCHANGED <<repo, sentinel, pub, shifted, dropped, handed>>
  PROVE  OwnParts'
<1> USE DEF OwnParts
<1>1. MainAhead' /\ TagsAreOurs' /\ WholeBumps' /\ Unpushed' BY RepoSame
<1>2. /\ main' = main /\ head' = head /\ tree' = tree
      /\ localTag' = localTag /\ originTag' = originTag
  BY DEF repo
<1>3. \A v \in Version : /\ Started(v)' <=> Started(v)
                         /\ AllOut(v)' <=> AllOut(v)
                         /\ UnderWay(v)' <=> UnderWay(v)
  BY <1>2, WasmSame, UnderWaySame
<1>4. HandedOver' /\ GoneForGood' BY <1>2 DEF HandedOver, GoneForGood
<1>5. FreshRun'
  <2>1. pub.v \in Version \/ pub.pc \notin Fresh BY DEF RunAt, Fresh
  <2> QED BY <1>2, <1>3, <2>1 DEF FreshRun, Settled
<1>6. RunAt' BY <1>2 DEF RunAt
<1>7. SentinelCovers' BY <1>2, <1>3 DEF SentinelCovers
<1>8. PackagesFirst'
  <2>1. handed # NoVersion => handed \in Version BY DEF Types, Names
  <2>2. pub.pc # "idle" => pub.v \in Version BY DEF RunAt
  <2>3. pub.pc = "npm" => \A i \in 1..pub.next - 1 : i \in Wasm
    BY SizesAssumption DEF PackagesFirst, Wasm
  <2>4. pub.pc = "npm" => \A i \in 1..pub.next - 1 : Item("wasm", i, pub.v) \in live'
    BY <2>2, <2>3 DEF PackagesFirst, WasmKept
  <2> QED BY <1>2, <1>3, <2>1, <2>2, <2>4 DEF PackagesFirst
<1>9. Checkout' = Checkout BY <1>2 DEF Checkout
<1>10. BuiltFrom' BY <1>2, <1>3, <1>9 DEF BuiltFrom, WasmKept, Unprinted
<1>11. SameSource' BY <1>2 DEF SameSource, WasmKept
<1> QED BY <1>1, <1>4, <1>5, <1>6, <1>7, <1>8, <1>10, <1>11

LEMMA WorkflowKept ==
  ASSUME WorkflowAt, UNCHANGED wf, live \subseteq live', TagsKept
  PROVE  WorkflowAt'
BY DEF WorkflowAt, TagsKept, NapiOf

LEMMA CratesKept ==
  ASSUME CratesAt, UNCHANGED crates, CrateItemsKept, TagsKept
  PROVE  CratesAt'
BY DEF CratesAt, CrateItemsKept, TagsKept

LEMMA ItemsDiffer ==
  /\ \A i, j, v, w : /\ Item("wasm", i, v) # Item("napi", j, w)
                     /\ Item("wasm", i, v) # Item("github", j, w)
                     /\ Item("wasm", i, v) # Item("crate", j, w)
                     /\ Item("crate", i, v) # Item("napi", j, w)
                     /\ Item("crate", i, v) # Item("github", j, w)
  /\ \A k, i, j, v, w : Item(k, i, v) = Item(k, j, w) => i = j /\ v = w
BY DEF Item

LEMMA PublishKeeps ==
  ASSUME Types, NEW g \in Good, NEW src \in SUBSET (1..MaxFixes),
         Publish(g, src) \/ UNCHANGED <<live, built>>
  PROVE  /\ live \subseteq live'
         /\ (\A i \in Wasm, v \in Version : Item("wasm", i, v) # g) => WasmKept
         /\ (\A c \in Crate, v \in Version : Item("crate", c, v) # g) => CrateItemsKept
<1>1. CASE Publish(g, src)
  <2>1. /\ live' = live \cup {g}
        /\ \A h \in Good : h # g \/ h \in live => built'[h] = built[h]
    BY <1>1, PublishIs
  <2>2. (\A i \in Wasm, v \in Version : Item("wasm", i, v) # g) => WasmKept
    BY <2>1, GoodItems DEF WasmKept
  <2>3. (\A c \in Crate, v \in Version : Item("crate", c, v) # g) => CrateItemsKept
    BY <2>1, GoodItems DEF CrateItemsKept
  <2> QED BY <2>1, <2>2, <2>3
<1>2. CASE UNCHANGED <<live, built>> BY <1>2 DEF WasmKept, CrateItemsKept
<1> QED BY <1>1, <1>2

-----------------------------------------------------------------------------
(* The steps of release.yml.                                                *)

\* What the workflow publishes next, and what that keeps.
LEMMA NextPlatform ==
  ASSUME Types, WorkflowAt, wf.pc = "npm",
         Publish(Item("napi", wf.next, wf.v), WfSource) \/ UNCHANGED <<live, built>>
  PROVE  WasmKept /\ CrateItemsKept /\ live \subseteq live'
<1>1. PICK g \in Good : g = Item("napi", wf.next, wf.v)
  BY GoodItems DEF WorkflowAt
<1>2. originTag[wf.v] \in Commits BY DEF WorkflowAt, Types
<1>3. PICK src \in SUBSET (1..MaxFixes) : src = WfSource
  BY <1>2, SourceType DEF WfSource
<1>4. Publish(g, src) \/ UNCHANGED <<live, built>> BY <1>1, <1>3
<1>5. /\ \A i \in Wasm, v \in Version : Item("wasm", i, v) # g
      /\ \A c \in Crate, v \in Version : Item("crate", c, v) # g
  BY <1>1, ItemsDiffer
<1> QED BY <1>4, <1>5, PublishKeeps

LEMMA NextRelease ==
  ASSUME Types, WorkflowAt, wf.pc = "github",
         Publish(Item("github", 0, wf.v), WfSource) \/ UNCHANGED <<live, built>>
  PROVE  WasmKept /\ CrateItemsKept /\ live \subseteq live'
<1>1. PICK g \in Good : g = Item("github", 0, wf.v)
  BY GoodItems DEF WorkflowAt
<1>2. originTag[wf.v] \in Commits BY DEF WorkflowAt, Types
<1>3. PICK src \in SUBSET (1..MaxFixes) : src = WfSource
  BY <1>2, SourceType DEF WfSource
<1>4. Publish(g, src) \/ UNCHANGED <<live, built>> BY <1>1, <1>3
<1>5. /\ \A i \in Wasm, v \in Version : Item("wasm", i, v) # g
      /\ \A c \in Crate, v \in Version : Item("crate", c, v) # g
  BY <1>1, ItemsDiffer
<1> QED BY <1>4, <1>5, PublishKeeps

LEMMA WfKeeps ==
  ASSUME Types, OwnParts, WorkflowAt, CratesAt, WfSteps \/ WfStops
  PROVE  OwnParts' /\ WorkflowAt' /\ CratesAt'
<1>1. UNCHANGED <<repo, sentinel, pub, crates, shifted, dropped, handed>>
  BY DEF WfSteps, WfStops, WfStart, WfBuild, WfPublish, WfRelease, Untouched, history
<1>2. TagsKept BY <1>1 DEF repo, TagsKept
<1>3. WasmKept /\ CrateItemsKept /\ live \subseteq live'
  <2>1. CASE UNCHANGED <<live, built>> BY <2>1 DEF WasmKept, CrateItemsKept
  <2>2. CASE WfPublish BY <2>2, NextPlatform DEF WfPublish
  <2>3. CASE WfRelease BY <2>3, NextRelease DEF WfRelease
  <2>4. CASE WfStops BY <2>4, NextPlatform, <2>1 DEF WfStops
  <2> QED BY <2>1, <2>2, <2>3, <2>4 DEF WfSteps, WfStart, WfBuild
<1>4. OwnParts' BY <1>1, <1>3, QuietStep
<1>5. CratesAt' BY <1>1, <1>2, <1>3, CratesKept
<1>6. WorkflowAt'
  <2>1. originTag' = originTag BY <1>1 DEF repo
  <2>2. CASE \E v \in Version : WfStart(v)
    BY <2>1, <2>2 DEF WorkflowAt, WfStart, WfIdle
  <2>3. CASE WfBuild
    <3>1. wf' = WfIdle \/ wf' = [wf EXCEPT !.pc = "npm"] BY <2>3 DEF WfBuild
    <3>2. wf.next = 1 /\ wf.v \in Version /\ originTag[wf.v] # NoCommit
      BY <2>3 DEF WfBuild, WorkflowAt
    <3>3. CASE wf' = WfIdle BY <3>3 DEF WorkflowAt, WfIdle
    <3>4. CASE wf' = [wf EXCEPT !.pc = "npm"]
      <4>1. wf'.pc = "npm" /\ wf'.v = wf.v /\ wf'.next = 1
        BY <3>2, <3>4 DEF Types, Wfs
      <4>2. 1 \in Napi /\ 1..0 = {} BY SizesAssumption DEF Napi
      <4> QED BY <2>1, <3>2, <4>1, <4>2 DEF WorkflowAt
    <3> QED BY <3>1, <3>3, <3>4
  <2>4. CASE WfPublish
    <3>1. /\ wf.v \in Version /\ originTag[wf.v] # NoCommit /\ wf.next \in Napi
          /\ \A i \in 1..wf.next - 1 : Item("napi", i, wf.v) \in live
          /\ live' = live \cup {Item("napi", wf.next, wf.v)}
      BY <2>4 DEF WfPublish, WorkflowAt, Publish
    <3>2. \A i \in 1..wf.next : Item("napi", i, wf.v) \in live'
      BY <3>1 DEF Napi
    <3>3. wf.next \in Nat /\ NumPlatforms \in Nat BY SizesAssumption DEF Types, Wfs
    <3>4. CASE wf.next <= NumPlatforms
      <4>1. wf'.pc = "npm" /\ wf'.v = wf.v /\ wf'.next = wf.next + 1
        BY <2>4, <3>4 DEF WfPublish, Types, Wfs
      <4>2. wf.next + 1 \in Napi /\ (wf.next + 1) - 1 = wf.next
        BY <3>3, <3>4 DEF Napi
      <4> QED BY <2>1, <3>1, <3>2, <4>1, <4>2 DEF WorkflowAt
    <3>5. CASE ~(wf.next <= NumPlatforms)
      <4>1. wf'.pc = "github" /\ wf'.v = wf.v
        BY <2>4, <3>5 DEF WfPublish, Types, Wfs
      <4>2. Napi = 1..wf.next BY <3>1, <3>3, <3>5 DEF Napi
      <4> QED BY <2>1, <3>1, <3>2, <4>1, <4>2 DEF WorkflowAt, NapiOf
    <3> QED BY <3>4, <3>5
  <2>5. CASE WfRelease
    BY <2>1, <2>5 DEF WorkflowAt, WfRelease, WfIdle
  <2>6. CASE WfStops
    BY <2>1, <2>6 DEF WorkflowAt, WfStops, WfIdle
  <2> QED BY <2>2, <2>3, <2>4, <2>5, <2>6 DEF WfSteps
<1> QED BY SMTT(60), <1>4, <1>5, <1>6

-----------------------------------------------------------------------------
(* The steps of publish_crates.ts.                                          *)

\* An upload is one crate of the run's version, built from its tag.
LEMMA UploadIs ==
  ASSUME Types, CratesAt, NEW c \in Crate, CargoUpload(c)
  PROVE  /\ crates.v \in Version /\ localTag[crates.v] # NoCommit
         /\ live' = live \cup {Item("crate", c, crates.v)}
         /\ WasmKept /\ live \subseteq live'
         /\ \A h \in Good : h # Item("crate", c, crates.v) \/ h \in live => built'[h] = built[h]
         /\ Item("crate", c, crates.v) \notin live
              => built'[Item("crate", c, crates.v)] = SourceOf(localTag[crates.v])
<1>1. /\ crates.pc = "upload" /\ crates.v \in Version /\ localTag[crates.v] # NoCommit
      /\ crates.src = SourceOf(localTag[crates.v])
  BY DEF CargoUpload, CratesAt
<1>2. PICK g \in Good : g = Item("crate", c, crates.v) BY <1>1, GoodItems
<1>3. PICK src \in SUBSET (1..MaxFixes) : src = crates.src BY DEF Types, CrateRuns
<1>4. Publish(g, src) BY <1>2, <1>3 DEF CargoUpload
<1>5. /\ live' = live \cup {g}
      /\ \A h \in Good : h # g \/ h \in live => built'[h] = built[h]
      /\ g \notin live => built'[g] = src
  BY <1>4, PublishIs
<1>6. \A i \in Wasm, v \in Version : Item("wasm", i, v) # g BY <1>2, ItemsDiffer
<1>7. WasmKept BY <1>4, <1>6, PublishKeeps
<1> QED BY <1>1, <1>2, <1>3, <1>5, <1>7

LEMMA CratesKeeps ==
  ASSUME Types, OwnParts, WorkflowAt, CratesAt, CratesSteps \/ CratesStop \/ MoveSite
  PROVE  OwnParts' /\ WorkflowAt' /\ CratesAt'
<1>1. UNCHANGED <<repo, sentinel, pub, wf, shifted, dropped, handed>>
  BY DEF CratesSteps, CratesStop, MoveSite, CratesStart, CargoPublish, CargoDone,
         RateLimited, CratesWake, CargoUpload, history
<1>2. TagsKept BY SMTT(60), <1>1 DEF repo, TagsKept
<1>3. UNCHANGED <<live, built>> \/ \E c \in Crate : CargoUpload(c)
  BY DEF CratesSteps, CratesStop, MoveSite, CratesStart, CargoPublish, CargoDone,
         RateLimited, CratesWake
<1>4. WasmKept /\ live \subseteq live'
  BY <1>3, UploadIs DEF WasmKept
<1>5. OwnParts' BY <1>1, <1>4, QuietStep
<1>6. WorkflowAt' BY <1>1, <1>2, <1>4, WorkflowKept
<1>7. localTag' = localTag BY <1>1 DEF repo
<1>8. CratesAt'
  <2>1. CASE \E v \in Version : CratesStart(v)
    <3>1. PICK v \in Version : CratesStart(v) BY <2>1
    <3>2. /\ crates'.pc = "ask" /\ crates'.v = v /\ crates'.missing = Missing(v)
          /\ localTag[v] # NoCommit /\ UNCHANGED <<live, built>>
      BY <3>1 DEF CratesStart, CrIdle
    <3> QED BY <1>7, <3>2 DEF CratesAt, Missing
  <2>2. CASE CargoPublish
    <3>1. UNCHANGED <<live, built>> /\ crates.pc = "ask" BY <2>2 DEF CargoPublish
    <3>2. CASE OnTag
      <4>1. /\ crates'.pc = "upload" /\ crates'.v = crates.v
            /\ crates'.missing = crates.missing
            /\ crates'.src = SourceOf(localTag[crates.v])
        BY <2>2, <3>2 DEF CargoPublish, OnTag, Types, CrateRuns
      <4> QED BY <1>7, <3>1, <4>1 DEF CratesAt
    <3>3. CASE ~OnTag
      <4>1. crates'.pc = "idle" BY <2>2, <3>3 DEF CargoPublish, CrIdle
      <4> QED BY <1>7, <3>1, <4>1 DEF CratesAt
    <3> QED BY <3>2, <3>3
  <2>3. CASE CargoDone \/ CratesStop
    <3>1. UNCHANGED <<live, built>> /\ crates'.pc = "idle"
      BY <2>3 DEF CargoDone, CratesStop, CrIdle
    <3> QED BY <1>7, <3>1 DEF CratesAt
  <2>4. CASE RateLimited
    <3>1. /\ UNCHANGED <<live, built>> /\ crates.pc = "upload"
          /\ crates'.pc = "asleep" /\ crates'.v = crates.v
      BY <2>4 DEF RateLimited, Types, CrateRuns
    <3> QED BY <1>7, <3>1 DEF CratesAt
  <2>5. CASE CratesWake
    <3>1. UNCHANGED <<live, built>> /\ crates.pc = "asleep" BY <2>5 DEF CratesWake
    <3>2. \/ crates'.pc = "idle"
          \/ /\ crates'.pc = "ask" /\ crates'.v = crates.v
             /\ crates'.missing = Missing(crates.v)
      BY <2>5 DEF CratesWake, CrIdle, Types, CrateRuns
    <3> QED BY <1>7, <3>1, <3>2 DEF CratesAt, Missing
  <2>6. CASE \E c \in Crate : CargoUpload(c)
    <3>1. PICK c \in Crate : CargoUpload(c) BY <2>6
    <3>2. /\ crates'.pc = "upload" /\ crates'.v = crates.v
          /\ crates'.missing = crates.missing \ {c} /\ crates'.src = crates.src
          /\ crates.pc = "upload"
      BY <3>1 DEF CargoUpload, Types, CrateRuns
    <3>3. \A v \in Version, d \in Crate : Item("crate", d, v) \in live' =>
            localTag[v] # NoCommit /\ built'[Item("crate", d, v)] = SourceOf(localTag[v])
      <4> SUFFICES ASSUME NEW v \in Version, NEW d \in Crate,
                          Item("crate", d, v) \in live'
                   PROVE  /\ localTag[v] # NoCommit
                          /\ built'[Item("crate", d, v)] = SourceOf(localTag[v])
        OBVIOUS
      <4>1. CASE Item("crate", d, v) \in live
        BY <3>1, <4>1, UploadIs, GoodItems DEF CratesAt
      <4>2. CASE Item("crate", d, v) \notin live
        <5>1. Item("crate", d, v) = Item("crate", c, crates.v) BY <3>1, <4>2, UploadIs
        <5>2. d = c /\ v = crates.v BY <5>1, ItemsDiffer
        <5> QED BY <3>1, <4>2, <5>2, UploadIs
      <4> QED BY <4>1, <4>2
    <3>4. \A d \in Crate \ crates'.missing : Item("crate", d, crates.v) \in live'
      BY <3>1, <3>2, UploadIs DEF CratesAt
    <3> QED BY <1>7, <3>2, <3>3, <3>4 DEF CratesAt
  <2>7. CASE MoveSite
    <3>1. /\ UNCHANGED <<live, built>> /\ crates'.pc = crates.pc /\ crates'.v = crates.v
          /\ crates'.missing = crates.missing /\ crates.pc # "upload"
      BY <2>7 DEF MoveSite, Types, CrateRuns
    <3> QED BY <1>7, <3>1 DEF CratesAt
  <2> QED BY <2>1, <2>2, <2>3, <2>4, <2>5, <2>6, <2>7 DEF CratesSteps
<1> QED BY SMTT(60), <1>5, <1>6, <1>8

-----------------------------------------------------------------------------
(* A run of publish.ts starts.                                              *)

LEMMA OutsideKept ==
  ASSUME WorkflowAt, CratesAt, UNCHANGED <<wf, crates>>, live \subseteq live',
         CrateItemsKept, TagsKept
  PROVE  WorkflowAt' /\ CratesAt'
BY WorkflowKept, CratesKept

LEMMA SameArtifacts ==
  ASSUME UNCHANGED <<live, built>> PROVE WasmKept /\ CrateItemsKept /\ live \subseteq live'
BY DEF WasmKept, CrateItemsKept

\* On origin's main no tag is left to push, and no version is under way that
\* the sentinel does not name.
LEMMA NothingUnderWay ==
  ASSUME Types, OwnParts, main = head
  PROVE  /\ \A v \in Version : localTag[v] = originTag[v]
         /\ tree.files = FilesOf(head) /\ handed # NoVersion => originTag[handed] # NoCommit
         /\ tree.files = FilesOf(head) /\ sentinel # tree.files.cargo => Settled
<1> USE DEF OwnParts
<1>1. \A v \in Version : FilesOf(head) = Files(v, v, v) => originTag[v] # NoCommit
  <2> SUFFICES ASSUME NEW v \in Version, FilesOf(head) = Files(v, v, v)
               PROVE  originTag[v] # NoCommit
    OBVIOUS
  <2>1. FilesOf(main).cargo = v BY DEF Files
  <2>2. v # 0 BY DEF Version
  <2>3. FilesOf(main) # Files(0, 0, 0) BY <2>1, <2>2 DEF Files
  <2>4. PICK w \in Version : FilesOf(main) = Files(w, w, w) /\ originTag[w] # NoCommit
    BY <2>3 DEF WholeBumps
  <2>5. w = v BY <2>1, <2>4 DEF Files
  <2> QED BY <2>4, <2>5
<1>2. \A v \in Version : localTag[v] = originTag[v]
  BY <1>1 DEF Unpushed, TagsAreOurs
<1>3. ASSUME tree.files = FilesOf(head), handed # NoVersion
      PROVE  originTag[handed] # NoCommit
  <2>1. handed \in Version BY <1>3 DEF Types, Names
  <2> QED BY <1>1, <1>3, <2>1 DEF HandedOver
<1>4. ASSUME tree.files = FilesOf(head), sentinel # tree.files.cargo, NEW v \in Version
      PROVE  ~UnderWay(v)
  <2> SUFFICES ASSUME UnderWay(v) PROVE FALSE OBVIOUS
  <2>1. handed = v BY <1>4 DEF SentinelCovers
  <2>2. v # NoVersion BY DEF Version, NoVersion
  <2> QED BY <1>3, <1>4, <2>1, <2>2 DEF UnderWay
<1> QED BY <1>2, <1>3, <1>4 DEF Settled

LEMMA StartFreshKeeps ==
  ASSUME Types, OwnParts, NEW noGit \in NoGit, NEW level \in 1..MaxVersion,
         StartFresh(level, noGit)
  PROVE  OwnParts'
<1> USE DEF OwnParts
<1>1. PICK v \in Version : v = tree.files.cargo + level BY DEF StartFresh
<1>2. /\ pub.pc = "idle" /\ sentinel # tree.files.cargo /\ main = head
      /\ tree.files = FilesOf(head) /\ tree.stray = {}
      /\ localTag[v] = NoCommit /\ originTag[v] = NoCommit /\ ~Started(v)
      /\ dropped' = dropped \ {v}
      /\ UNCHANGED <<repo, sentinel, live, built, shifted, handed>>
  BY <1>1 DEF StartFresh
<1>3. pub'.pc = "unstale" /\ pub'.v = v /\ pub'.all = FALSE /\ pub'.next = 1
  <2>1. pub' = [PubIdle EXCEPT !.pc = "unstale", !.v = v, !.noGit = noGit]
    BY <1>1 DEF StartFresh
  <2> QED BY <2>1 DEF PubIdle
<1>4. /\ main' = main /\ head' = head /\ tree' = tree
      /\ localTag' = localTag /\ originTag' = originTag
  BY <1>2 DEF repo
<1>5. MainAhead' /\ TagsAreOurs' /\ WholeBumps' /\ Unpushed' BY <1>2, RepoSame
<1>6. /\ \A w \in Version : localTag[w] = originTag[w] /\ ~UnderWay(w)
      /\ handed # NoVersion => originTag[handed] # NoCommit
  BY <1>2, NothingUnderWay DEF Settled
<1>7. \A w \in Version : ~UnderWay(w)' /\ (Started(w)' <=> Started(w))
  <2>1. \A w \in Version : Started(w)' <=> Started(w) BY <1>2 DEF Started
  <2> QED BY <1>2, <1>4, <1>6, <2>1 DEF UnderWay
<1>8. HandedOver' /\ GoneForGood' BY <1>2, <1>4 DEF HandedOver, GoneForGood
<1>9. FreshRun'
  <2>1. FilesOf(head).cargo < v BY <1>1, <1>2 DEF Types, Trees, FileSet
  <2>2. v \notin dropped' BY <1>2
  <2> QED BY <1>2, <1>3, <1>4, <1>6, <1>7, <2>1, <2>2 DEF FreshRun, Settled
<1>10. RunAt' BY <1>3 DEF RunAt, Bumped, Unbuilt, Fresh
<1>11. SentinelCovers' BY <1>7 DEF SentinelCovers
<1>12. PackagesFirst' BY <1>2, <1>3, <1>4 DEF PackagesFirst, AllOut
<1>13. BuiltFrom' BY <1>2, <1>3, <1>4, <1>7 DEF BuiltFrom
<1>14. SameSource' BY <1>2, <1>4 DEF SameSource
<1> QED BY <1>5, <1>8, <1>9, <1>10, <1>11, <1>12, <1>13, <1>14

LEMMA StartResumeKeeps ==
  ASSUME Types, OwnParts, NEW noGit \in NoGit, StartResume(noGit)
  PROVE  OwnParts'
<1> USE DEF OwnParts
<1>1. /\ pub.pc = "idle" /\ sentinel # NoVersion /\ sentinel = tree.files.cargo
      /\ tree.stray = {}
      /\ UNCHANGED <<repo, sentinel, live, built, shifted, dropped, handed>>
  BY DEF StartResume, history
<1>2. /\ pub'.pc = "lock" /\ pub'.v = sentinel /\ pub'.all = AllOut(sentinel)
      /\ pub'.next = 1
  <2>1. pub' = [PubIdle EXCEPT !.pc = "lock", !.v = sentinel, !.noGit = noGit,
                               !.all = AllOut(sentinel)]
    BY DEF StartResume
  <2> QED BY <2>1 DEF PubIdle
<1>3. /\ main' = main /\ head' = head /\ tree' = tree
      /\ localTag' = localTag /\ originTag' = originTag
  BY <1>1 DEF repo
<1>4. sentinel \in Version BY <1>1 DEF Types, Names
<1>5. MainAhead' /\ TagsAreOurs' /\ WholeBumps' /\ Unpushed' BY <1>1, RepoSame
<1>6. \A v \in Version : /\ Started(v)' <=> Started(v)
                         /\ AllOut(v)' <=> AllOut(v)
                         /\ UnderWay(v)' <=> UnderWay(v)
  BY <1>1, <1>3, SameArtifacts, WasmSame, UnderWaySame
<1>7. HandedOver' /\ GoneForGood' BY <1>1, <1>3 DEF HandedOver, GoneForGood
<1>8. FreshRun' BY <1>2 DEF FreshRun, Fresh
<1>9. RunAt' BY <1>1, <1>2, <1>3, <1>4 DEF RunAt, Bumped, Unbuilt, Fresh
<1>10. SentinelCovers' BY <1>1, <1>3, <1>6 DEF SentinelCovers
<1>11. PackagesFirst'
  <2>1. handed # NoVersion => handed \in Version BY DEF Types, Names
  <2>2. ~AllOut(sentinel) => localTag[sentinel] = NoCommit BY <1>4 DEF PackagesFirst
  <2>3. IF pub'.all THEN AllOut(sentinel)' ELSE localTag'[sentinel] = NoCommit
    <3>1. CASE AllOut(sentinel)
      <4>1. pub'.all BY <1>2, <3>1, Zenon
      <4> QED BY <1>1, <3>1, <4>1 DEF AllOut
    <3>2. CASE ~AllOut(sentinel)
      <4>1. ~pub'.all BY <1>2, <3>2, Zenon
      <4> QED BY <1>3, <2>2, <3>2, <4>1
    <3> QED BY <3>1, <3>2
  <2> QED BY <1>1, <1>2, <1>3, <1>6, <2>1, <2>3 DEF PackagesFirst
<1>12. BuiltFrom' BY <1>1, <1>2, <1>3, <1>6 DEF BuiltFrom
<1>13. SameSource' BY <1>1, <1>3 DEF SameSource
<1> QED BY <1>5, <1>7, <1>8, <1>9, <1>10, <1>11, <1>12, <1>13

-----------------------------------------------------------------------------
(* The steps of a run of publish.ts that leave the repository alone.        *)

LEMMA RunMoves ==
  ASSUME Types, OwnParts, WasmKept, UNCHANGED <<repo, shifted, dropped, handed>>
  PROVE  /\ main' = main /\ head' = head /\ tree' = tree
         /\ localTag' = localTag /\ originTag' = originTag
         /\ \A v \in Version : /\ Started(v)' <=> Started(v)
                               /\ AllOut(v)' <=> AllOut(v)
                               /\ UnderWay(v)' <=> UnderWay(v)
         /\ handed # NoVersion => handed \in Version
         /\ MainAhead' /\ TagsAreOurs' /\ WholeBumps' /\ Unpushed'
         /\ HandedOver' /\ GoneForGood' /\ SameSource'
<1> USE DEF OwnParts
<1>1. MainAhead' /\ TagsAreOurs' /\ WholeBumps' /\ Unpushed' BY RepoSame
<1>2. /\ main' = main /\ head' = head /\ tree' = tree
      /\ localTag' = localTag /\ originTag' = originTag
  BY DEF repo
<1>3. \A v \in Version : /\ Started(v)' <=> Started(v)
                         /\ AllOut(v)' <=> AllOut(v)
                         /\ UnderWay(v)' <=> UnderWay(v)
  BY <1>2, WasmSame, UnderWaySame
<1>4. handed # NoVersion => handed \in Version BY DEF Types, Names
<1>5. HandedOver' /\ GoneForGood' BY <1>2 DEF HandedOver, GoneForGood
<1>6. SameSource' BY <1>2 DEF SameSource, WasmKept
<1> QED BY <1>1, <1>2, <1>3, <1>4, <1>5, <1>6

LEMMA RemoveStaleKeeps == ASSUME Types, OwnParts, RemoveStale PROVE OwnParts'
<1> USE DEF OwnParts
<1>1. /\ pub.pc = "unstale" /\ sentinel' = NoVersion
      /\ UNCHANGED <<repo, live, built, shifted, dropped, handed>>
  BY DEF RemoveStale, history
<1>2. /\ pub'.pc = "cargo" /\ pub'.v = pub.v /\ pub'.all = pub.all
      /\ pub'.next = pub.next
  BY PcStep DEF RemoveStale, Types, PubPcs
<1>3. WasmKept BY <1>1, SameArtifacts
<1>4. FreshRun' BY <1>1, <1>2, <1>3, RunMoves DEF FreshRun, Settled, Fresh, RunAt
<1>5. RunAt' BY <1>1, <1>2 DEF RunAt, Bumped, Unbuilt, Fresh
<1>6. SentinelCovers'
  BY <1>1, <1>3, RunMoves DEF SentinelCovers, FreshRun, Settled, Fresh
<1>7. PackagesFirst' BY <1>1, <1>2, <1>3, RunMoves DEF PackagesFirst
<1>8. BuiltFrom' BY <1>1, <1>2, <1>3, RunMoves DEF BuiltFrom, Unprinted
<1> QED BY <1>1, <1>3, <1>4, <1>5, <1>6, <1>7, <1>8, RunMoves

LEMMA WriteSentinelKeeps == ASSUME Types, OwnParts, WriteSentinel PROVE OwnParts'
<1> USE DEF OwnParts
<1>1. /\ pub.pc = "sentinel" /\ sentinel' = pub.v
      /\ UNCHANGED <<repo, live, built, shifted, dropped, handed>>
  BY DEF WriteSentinel, history
<1>2. /\ pub'.pc = "lock" /\ pub'.v = pub.v /\ pub'.all = pub.all
      /\ pub'.next = pub.next
  BY PcStep DEF WriteSentinel, Types, PubPcs
<1>3. WasmKept BY <1>1, SameArtifacts
<1>4. FreshRun' BY <1>2 DEF FreshRun, Fresh
<1>5. RunAt' BY <1>1, <1>2, <1>3, RunMoves DEF RunAt, Bumped, Unbuilt, Fresh
<1>6. SentinelCovers'
  BY <1>1, <1>3, RunMoves DEF SentinelCovers, FreshRun, Settled, Fresh
<1>7. PackagesFirst'
  <2>1. ~pub.all /\ localTag[pub.v] = NoCommit BY <1>1 DEF FreshRun, Fresh
  <2> QED BY <1>1, <1>2, <1>3, <2>1, RunMoves DEF PackagesFirst
<1>8. BuiltFrom' BY <1>1, <1>2, <1>3, RunMoves DEF BuiltFrom, Unprinted
<1> QED BY <1>1, <1>3, <1>4, <1>5, <1>6, <1>7, <1>8, RunMoves

LEMMA FingerprintKeeps == ASSUME Types, OwnParts, Fingerprint PROVE OwnParts'
<1> USE DEF OwnParts
<1>1. /\ pub.pc = "print"
      /\ UNCHANGED <<repo, sentinel, live, built, shifted, dropped, handed>>
  BY DEF Fingerprint, history
<1>2. /\ pub'.pc = "gates" /\ pub'.v = pub.v /\ pub'.all = pub.all
      /\ pub'.next = pub.next /\ pub'.print = <<head, tree>>
  BY DEF Fingerprint, Types, Pubs, FingerprintOf
<1>3. WasmKept BY <1>1, SameArtifacts
<1>4. FreshRun' BY <1>2 DEF FreshRun, Fresh
<1>5. RunAt' BY <1>1, <1>2, <1>3, RunMoves DEF RunAt, Bumped, Unbuilt, Fresh
<1>6. SentinelCovers' BY <1>1, <1>3, RunMoves DEF SentinelCovers
<1>7. PackagesFirst' BY <1>1, <1>2, <1>3, RunMoves DEF PackagesFirst
<1>8. BuiltFrom'
  <2>1. head \in Commits /\ tree \in Trees BY DEF Types
  <2>2. IsPrefix(head, head) BY <2>1, PrefixSelf
  <2>3. ~shifted => tree.stray = {} BY <1>1 DEF BuiltFrom, Unprinted
  <2>4. /\ IsPrefix(pub'.print[1], head') /\ pub'.print \in Commits \X Trees
        /\ pub'.print[2].stray \subseteq tree'.stray
        /\ ~shifted' => pub'.print[2].stray = {}
    BY <1>1, <1>2, <1>3, <2>1, <2>2, <2>3, RunMoves
  <2> QED BY <1>1, <1>2, <1>3, <2>4, RunMoves DEF BuiltFrom, Unprinted
<1> QED BY <1>1, <1>3, <1>4, <1>5, <1>6, <1>7, <1>8, RunMoves

LEMMA CheckAndBuildKeeps == ASSUME Types, OwnParts, CheckAndBuild PROVE OwnParts'
<1> USE DEF OwnParts
<1>1. /\ pub.pc = "gates"
      /\ UNCHANGED <<repo, sentinel, live, built, shifted, dropped, handed>>
  BY DEF CheckAndBuild, history
<1>2. /\ pub'.pc = "test" /\ pub'.v = pub.v /\ pub'.all = pub.all
      /\ pub'.next = pub.next /\ pub'.print = pub.print /\ pub'.src = Checkout
  BY DEF CheckAndBuild, Types, Pubs
<1>3. WasmKept BY <1>1, SameArtifacts
<1>4. FreshRun' BY <1>2 DEF FreshRun, Fresh
<1>5. RunAt' BY <1>1, <1>2, <1>3, RunMoves DEF RunAt, Bumped, Unbuilt, Fresh
<1>6. SentinelCovers' BY <1>1, <1>3, RunMoves DEF SentinelCovers
<1>7. PackagesFirst' BY <1>1, <1>2, <1>3, RunMoves DEF PackagesFirst
<1>8. BuiltFrom'
  <2>1. Checkout' = Checkout BY <1>1, <1>3, RunMoves DEF Checkout
  <2> QED BY <1>1, <1>2, <1>3, <2>1, RunMoves DEF BuiltFrom, Unprinted
<1> QED BY <1>1, <1>3, <1>4, <1>5, <1>6, <1>7, <1>8, RunMoves

LEMMA TestAndCompareKeeps == ASSUME Types, OwnParts, TestAndCompare PROVE OwnParts'
<1> USE DEF OwnParts
<1>1. /\ pub.pc = "test"
      /\ UNCHANGED <<repo, sentinel, live, built, shifted, dropped, handed>>
  BY DEF TestAndCompare, history
<1>2. \/ pub'.pc = "idle"
      \/ /\ pub'.pc = "npm" /\ pub'.v = pub.v /\ pub'.all = pub.all
         /\ pub'.next = pub.next /\ pub'.src = pub.src /\ pub.print = <<head, tree>>
  BY DEF TestAndCompare, Types, Pubs, PubIdle, FingerprintOf
<1>3. WasmKept BY <1>1, SameArtifacts
<1>4. FreshRun' BY <1>2 DEF FreshRun, Fresh
<1>5. RunAt' BY <1>1, <1>2, <1>3, RunMoves DEF RunAt, Bumped, Unbuilt, Fresh
<1>6. SentinelCovers' BY <1>1, <1>3, RunMoves DEF SentinelCovers
<1>7. PackagesFirst'
  <2>1. pub.next = 1 BY <1>1 DEF RunAt, Unbuilt
  <2>2. 1 \in Wasm /\ 1..0 = {} /\ 1 - 1 = 0 BY SizesAssumption DEF Wasm
  <2>3. localTag[pub.v] = NoCommit BY <1>1 DEF PackagesFirst
  <2> QED BY <1>1, <1>2, <1>3, <2>1, <2>2, <2>3, RunMoves DEF PackagesFirst
<1>8. BuiltFrom'
  <2>1. pub'.pc = "npm" /\ ~shifted => pub'.src = SourceOf(head)
    <3> SUFFICES ASSUME pub'.pc = "npm", ~shifted PROVE pub'.src = SourceOf(head)
      OBVIOUS
    <3>1. pub.print = <<head, tree>> /\ pub'.src = pub.src BY <1>2
    <3>2. pub.src = Checkout /\ pub.print[2].stray = {} BY <1>1, <3>1 DEF BuiltFrom
    <3>3. tree.stray = {} BY <3>1, <3>2
    <3> QED BY <3>1, <3>2, <3>3 DEF Checkout
  <2> QED BY <1>1, <1>2, <1>3, <2>1, RunMoves DEF BuiltFrom, Unprinted
<1> QED BY <1>1, <1>3, <1>4, <1>5, <1>6, <1>7, <1>8, RunMoves

\* A WASM package becomes public, or only the run moves on: what holds of the
\* artifacts and the repository, whatever becomes of the run.
NpmStep ==
    /\ pub.pc = "npm"
    /\ Publish(Item("wasm", pub.next, pub.v), pub.src)
    /\ UNCHANGED <<repo, sentinel, shifted, dropped, handed>>

LEMMA NpmIs ==
  ASSUME Types, OwnParts, NpmStep
  PROVE  /\ pub.v \in Version /\ pub.next \in Wasm
         /\ localTag[pub.v] = NoCommit /\ originTag[pub.v] = NoCommit
         /\ live' = live \cup {Item("wasm", pub.next, pub.v)} /\ live \subseteq live'
         /\ \A h \in Good : h # Item("wasm", pub.next, pub.v) \/ h \in live
              => built'[h] = built[h]
         /\ Item("wasm", pub.next, pub.v) \notin live
              => built'[Item("wasm", pub.next, pub.v)] = pub.src
         /\ CrateItemsKept
         /\ main' = main /\ head' = head /\ tree' = tree
         /\ localTag' = localTag /\ originTag' = originTag
<1> USE DEF OwnParts
<1>1. pub.v \in Version /\ pub.next \in Wasm /\ localTag[pub.v] = NoCommit
  BY DEF NpmStep, RunAt, PackagesFirst
<1>2. originTag[pub.v] = NoCommit BY <1>1 DEF TagsAreOurs
<1>3. PICK g \in Good : g = Item("wasm", pub.next, pub.v) BY <1>1, GoodItems
<1>4. PICK src \in SUBSET (1..MaxFixes) : src = pub.src BY DEF Types, Pubs
<1>5. Publish(g, src) BY <1>3, <1>4 DEF NpmStep
<1>6. /\ live' = live \cup {g}
      /\ \A h \in Good : h # g \/ h \in live => built'[h] = built[h]
      /\ g \notin live => built'[g] = src
  BY <1>5, PublishIs
<1>7. \A c \in Crate, v \in Version : Item("crate", c, v) # g BY <1>3, ItemsDiffer
<1>8. CrateItemsKept BY <1>5, <1>7, PublishKeeps
<1> QED BY <1>1, <1>2, <1>3, <1>4, <1>6, <1>8 DEF NpmStep, repo

LEMMA NpmKeeps ==
  ASSUME Types, OwnParts, NpmStep
  PROVE  /\ MainAhead' /\ TagsAreOurs' /\ WholeBumps' /\ Unpushed'
         /\ HandedOver' /\ GoneForGood' /\ SentinelCovers' /\ SameSource'
         /\ \A v \in Version : AllOut(v) => AllOut(v)'
         /\ ~shifted => \A v \in Version : UnderWay(v)' =>
               /\ \A i \in Wasm : Item("wasm", i, v) \in live' =>
                      built'[Item("wasm", i, v)] = SourceOf(head)
               /\ localTag[v] # NoCommit => SourceOf(localTag[v]) = SourceOf(head)
<1> USE DEF OwnParts
<1>1. /\ pub.pc = "npm"
      /\ UNCHANGED <<repo, sentinel, shifted, dropped, handed>>
  BY DEF NpmStep
<1>2. MainAhead' /\ TagsAreOurs' /\ WholeBumps' /\ Unpushed' BY <1>1, RepoSame
<1>3. HandedOver' /\ GoneForGood' BY <1>1, NpmIs DEF HandedOver, GoneForGood
<1>4. \A v \in Version : v # pub.v => (UnderWay(v)' <=> UnderWay(v))
  <2> SUFFICES ASSUME NEW v \in Version, v # pub.v PROVE UnderWay(v)' <=> UnderWay(v)
    OBVIOUS
  <2>1. \A i \in Wasm : Item("wasm", i, v) # Item("wasm", pub.next, pub.v)
    BY ItemsDiffer
  <2>2. Started(v)' <=> Started(v) BY <2>1, NpmIs DEF Started
  <2> QED BY <1>1, <2>2, NpmIs DEF UnderWay
<1>5. SentinelCovers'
  <2> SUFFICES ASSUME NEW v \in Version, UnderWay(v)'
               PROVE  handed' = v \/ (sentinel' = v /\ tree'.files.cargo = v)
    BY DEF SentinelCovers
  <2>1. CASE v = pub.v BY <1>1, <2>1, NpmIs DEF RunAt, Bumped
  <2>2. CASE v # pub.v BY <1>1, <1>4, <2>2, NpmIs DEF SentinelCovers
  <2> QED BY <2>1, <2>2
<1>6. \A v \in Version, i \in Wasm : v # pub.v =>
          /\ Item("wasm", i, v) \in live' <=> Item("wasm", i, v) \in live
          /\ Item("wasm", i, v) \in live' =>
                 built'[Item("wasm", i, v)] = built[Item("wasm", i, v)]
  <2> SUFFICES ASSUME NEW v \in Version, NEW i \in Wasm, v # pub.v
               PROVE  /\ Item("wasm", i, v) \in live' <=> Item("wasm", i, v) \in live
                      /\ Item("wasm", i, v) \in live' =>
                           built'[Item("wasm", i, v)] = built[Item("wasm", i, v)]
    OBVIOUS
  <2>1. Item("wasm", i, v) # Item("wasm", pub.next, pub.v) BY ItemsDiffer
  <2>2. Item("wasm", i, v) \in Good BY GoodItems
  <2> QED BY <2>1, <2>2, NpmIs
<1>7. SameSource'
  <2> SUFFICES ASSUME ~shifted, NEW v \in Version, NEW i \in Wasm,
                      Item("wasm", i, v) \in live', originTag[v] # NoCommit
               PROVE  built'[Item("wasm", i, v)] = SourceOf(originTag[v])
    BY <1>1, NpmIs DEF SameSource
  <2>1. v # pub.v BY NpmIs
  <2> QED BY <1>6, <2>1 DEF SameSource
<1>8. ASSUME ~shifted, NEW v \in Version, UnderWay(v)'
      PROVE  /\ \A i \in Wasm : Item("wasm", i, v) \in live' =>
                    built'[Item("wasm", i, v)] = SourceOf(head)
             /\ localTag[v] # NoCommit => SourceOf(localTag[v]) = SourceOf(head)
  <2>1. CASE v # pub.v
    <3>1. UnderWay(v) BY <1>4, <1>8, <2>1
    <3> QED BY <1>6, <1>8, <2>1, <3>1 DEF BuiltFrom
  <2>2. CASE v = pub.v
    <3>1. v \notin dropped /\ originTag[v] = NoCommit BY <1>1, <1>8, NpmIs DEF UnderWay
    <3>2. \A i \in Wasm : Item("wasm", i, v) \in live => UnderWay(v)
      BY <3>1 DEF UnderWay, Started
    <3>3. pub.src = SourceOf(head) BY <1>1, <1>8 DEF BuiltFrom
    <3>4. ASSUME NEW i \in Wasm, Item("wasm", i, v) \in live'
          PROVE  built'[Item("wasm", i, v)] = SourceOf(head)
      <4>1. CASE Item("wasm", i, v) \in live
        <5>1. built[Item("wasm", i, v)] = SourceOf(head) BY <1>8, <3>2, <4>1 DEF BuiltFrom
        <5> QED BY <4>1, <5>1, NpmIs, GoodItems
      <4>2. CASE Item("wasm", i, v) \notin live
        <5>1. Item("wasm", i, v) = Item("wasm", pub.next, pub.v) BY <3>4, <4>2, NpmIs
        <5> QED BY <3>3, <4>2, <5>1, NpmIs
      <4> QED BY <4>1, <4>2
    <3> QED BY <2>2, <3>4, NpmIs
  <2> QED BY <2>1, <2>2
<1>9. \A v \in Version : AllOut(v) => AllOut(v)' BY NpmIs DEF AllOut
<1> QED BY <1>2, <1>3, <1>5, <1>7, <1>8, <1>9

LEMMA NpmPublishKeeps == ASSUME Types, OwnParts, NpmPublish PROVE OwnParts'
<1> USE DEF OwnParts
<1>1. NpmStep BY DEF NpmPublish, NpmStep, history
<1>2. /\ pub.pc = "npm"
      /\ UNCHANGED <<repo, sentinel, shifted, dropped, handed>>
  BY <1>1 DEF NpmStep
<1>3. pub.next \in Nat /\ NumWasm \in Nat BY SizesAssumption DEF Types, Pubs
<1>4. \/ /\ pub.next < NumWasm /\ pub'.pc = "npm" /\ pub'.next = pub.next + 1
      \/ ~(pub.next < NumWasm) /\ pub'.pc = "finalize"
  BY DEF NpmPublish, Types, Pubs
<1>5. /\ pub'.v = pub.v /\ pub'.all = pub.all /\ pub'.src = pub.src
  BY DEF NpmPublish, Types, Pubs
<1>6. FreshRun' BY <1>4 DEF FreshRun, Fresh
<1>7. RunAt' BY <1>1, <1>2, <1>4, <1>5, NpmIs DEF RunAt, Bumped, Unbuilt, Fresh
<1>8. PackagesFirst'
  <2>1. \A i \in 1..pub.next : Item("wasm", i, pub.v) \in live'
    <3>1. \A i \in 1..pub.next - 1 : Item("wasm", i, pub.v) \in live'
      BY <1>1, <1>2, NpmIs DEF PackagesFirst
    <3>2. Item("wasm", pub.next, pub.v) \in live' BY <1>1, NpmIs
    <3> QED BY <1>3, <3>1, <3>2
  <2>2. handed # NoVersion => handed \in Version BY DEF Types, Names
  <2>3. /\ \A v \in Version : localTag'[v] # NoCommit => AllOut(v)'
        /\ handed' # NoVersion => AllOut(handed)'
    <3>1. handed' = handed /\ localTag' = localTag BY <1>1, <1>2, NpmIs
    <3>2. \A v \in Version : localTag[v] # NoCommit => AllOut(v)'
      BY <1>1, NpmKeeps DEF PackagesFirst
    <3>3. handed # NoVersion => AllOut(handed)'
      BY <1>1, <3>1, NpmIs DEF PackagesFirst, AllOut
    <3> QED BY <3>1, <3>2, <3>3
  <2>4. CASE pub'.pc = "npm"
    <3>1. pub.next < NumWasm /\ pub'.next = pub.next + 1 BY <1>4, <2>4
    <3>2. pub'.next \in Wasm /\ pub'.next - 1 = pub.next BY <1>3, <3>1 DEF Wasm
    <3> QED BY <1>1, <1>5, <2>1, <2>3, <2>4, <3>2, NpmIs DEF PackagesFirst
  <2>5. CASE pub'.pc = "finalize"
    <3>1. ~(pub.next < NumWasm) BY <1>4, <2>5
    <3>2. Wasm = 1..pub.next BY <1>1, <1>3, <3>1, NpmIs DEF Wasm
    <3>3. AllOut(pub.v)' BY <1>5, <2>1, <3>2 DEF AllOut
    <3> QED BY <1>5, <2>3, <2>5, <3>3 DEF PackagesFirst, AllOut
  <2> QED BY <1>4, <2>4, <2>5
<1>9. BuiltFrom'
  BY <1>1, <1>2, <1>4, <1>5, NpmIs, NpmKeeps DEF BuiltFrom, Unprinted
<1> QED BY <1>1, <1>6, <1>7, <1>8, <1>9, NpmKeeps

LEMMA PubStopsKeeps == ASSUME Types, OwnParts, PubStops PROVE OwnParts'
<1> USE DEF OwnParts
<1>1. /\ pub'.pc = "idle"
      /\ UNCHANGED <<repo, sentinel, shifted, dropped, handed>>
  BY DEF PubStops, PubIdle
<1>2. FreshRun' /\ RunAt'
  BY <1>1 DEF FreshRun, Fresh, RunAt, Bumped, Unbuilt
<1>3. CASE UNCHANGED <<live, built>>
  <2>1. WasmKept BY <1>3, SameArtifacts
  <2>2. SentinelCovers' BY <1>1, <2>1, RunMoves DEF SentinelCovers
  <2>3. PackagesFirst' BY <1>1, <2>1, RunMoves DEF PackagesFirst
  <2>4. BuiltFrom' BY <1>1, <1>3, <2>1, RunMoves DEF BuiltFrom, Unprinted
  <2> QED BY <1>1, <1>2, <2>1, <2>2, <2>3, <2>4, RunMoves
<1>4. CASE pub.pc = "npm" /\ Publish(Item("wasm", pub.next, pub.v), pub.src)
  <2>1. NpmStep BY <1>1, <1>4 DEF NpmStep
  <2>2. PackagesFirst'
    <3>1. handed' = handed /\ localTag' = localTag BY <1>1, <2>1, NpmIs
    <3>2. \A v \in Version : localTag[v] # NoCommit => AllOut(v)'
      BY <2>1, NpmKeeps DEF PackagesFirst
    <3>3. handed # NoVersion => AllOut(handed)'
      BY <2>1, <3>1, NpmIs DEF PackagesFirst, AllOut
    <3> QED BY <1>1, <3>1, <3>2, <3>3 DEF PackagesFirst
  <2>3. BuiltFrom' BY <1>1, <2>1, NpmIs, NpmKeeps DEF BuiltFrom, Unprinted
  <2> QED BY <1>2, <2>1, <2>2, <2>3, NpmKeeps
<1> QED BY <1>3, <1>4 DEF PubStops

LEMMA RemoveSentinelKeeps == ASSUME Types, OwnParts, RemoveSentinel PROVE OwnParts'
<1> USE DEF OwnParts
<1>1. /\ pub.pc = "unsentinel" /\ sentinel' = NoVersion
      /\ handed' = IF pub.noGit THEN pub.v ELSE handed
      /\ pub'.pc = "idle"
      /\ UNCHANGED <<repo, live, built, shifted, dropped>>
  BY DEF RemoveSentinel, PubIdle
<1>2. /\ pub.v \in Version /\ tree.files = Files(pub.v, pub.v, pub.v)
      /\ sentinel = pub.v /\ AllOut(pub.v)
      /\ pub.noGit \/ originTag[pub.v] # NoCommit
  BY <1>1 DEF RunAt, Bumped, PackagesFirst
<1>3. /\ main' = main /\ head' = head /\ tree' = tree
      /\ localTag' = localTag /\ originTag' = originTag
  BY <1>1 DEF repo
<1>4. MainAhead' /\ TagsAreOurs' /\ WholeBumps' /\ Unpushed' BY <1>1, RepoSame
<1>5. \A v \in Version : /\ AllOut(v)' <=> AllOut(v)
                         /\ UnderWay(v)' <=> UnderWay(v)
  BY <1>1, <1>3, SameArtifacts, WasmSame, UnderWaySame
<1>6. HandedOver' BY <1>1, <1>2, <1>3 DEF HandedOver
<1>7. GoneForGood'
  <2>1. tree.files.cargo = pub.v BY <1>2 DEF Files
  <2> QED BY <1>1, <1>3, <2>1 DEF GoneForGood
<1>8. FreshRun' /\ RunAt'
  BY <1>1 DEF FreshRun, Fresh, RunAt, Bumped, Unbuilt
<1>9. SentinelCovers'
  <2> SUFFICES ASSUME NEW v \in Version, UnderWay(v) PROVE handed' = v
    BY <1>5 DEF SentinelCovers
  <2>1. CASE v = pub.v
    <3>1. originTag[pub.v] = NoCommit BY <2>1 DEF UnderWay
    <3> QED BY <1>1, <1>2, <2>1, <3>1
  <2>2. CASE v # pub.v
    <3>1. handed = v BY <1>2, <2>2 DEF SentinelCovers
    <3>2. v # NoVersion /\ originTag[v] = NoCommit BY DEF Version, NoVersion, UnderWay
    <3>3. tree.files = Files(v, v, v) BY <3>1, <3>2 DEF HandedOver
    <3> QED BY <1>2, <2>2, <3>3 DEF Files
  <2> QED BY <2>1, <2>2
<1>10. PackagesFirst'
  <2>1. \A v \in Version : localTag'[v] # NoCommit => AllOut(v)'
    BY <1>3, <1>5 DEF PackagesFirst
  <2>2. handed' # NoVersion => AllOut(handed)'
    BY <1>1, <1>2 DEF PackagesFirst, AllOut
  <2> QED BY <1>1, <2>1, <2>2 DEF PackagesFirst
<1>11. BuiltFrom' BY <1>1, <1>3, <1>5 DEF BuiltFrom, Unprinted
<1>12. SameSource' BY <1>1, <1>3 DEF SameSource
<1> QED BY <1>4, <1>6, <1>7, <1>8, <1>9, <1>10, <1>11, <1>12

-----------------------------------------------------------------------------
(* The steps that write the release files.                                  *)

\* A later file of a bump changes nothing in a tree that holds the bump.
FileStep ==
    /\ UNCHANGED <<main, head, localTag, originTag, sentinel, live, built,
                   shifted, dropped, handed>>
    /\ tree'.stray = tree.stray
    /\ tree.files.cargo = pub.v /\ tree'.files.cargo = pub.v
    /\ tree.files = Files(pub.v, pub.v, pub.v) => tree'.files = tree.files

LEMMA FileStepKeeps ==
  ASSUME Types, OwnParts, FileStep
  PROVE  /\ MainAhead' /\ TagsAreOurs' /\ WholeBumps' /\ Unpushed'
         /\ HandedOver' /\ GoneForGood' /\ SentinelCovers' /\ SameSource'
         /\ \A v \in Version : /\ AllOut(v)' <=> AllOut(v)
                               /\ UnderWay(v)' <=> UnderWay(v)
<1> USE DEF OwnParts
<1>1. \A v \in Version : /\ AllOut(v)' <=> AllOut(v)
                         /\ UnderWay(v)' <=> UnderWay(v)
  BY SameArtifacts, WasmSame, UnderWaySame DEF FileStep
<1>2. \A v : tree.files = Files(v, v, v) => tree'.files = tree.files
  BY DEF FileStep, Files
<1>3. MainAhead' /\ TagsAreOurs' BY DEF FileStep, MainAhead, TagsAreOurs
<1>4. WholeBumps'
  <2>1. ASSUME tree'.files.cargo = FilesOf(head).cargo
        PROVE  tree'.files = FilesOf(head)
    <3>1. tree.files = FilesOf(head) BY <2>1 DEF FileStep, WholeBumps
    <3>2. FilesOf(head) \in FileSet BY FilesType DEF Types
    <3>3. tree.files = Files(pub.v, pub.v, pub.v)
      BY <3>1, <3>2 DEF FileStep, WholeBumps, FileSet, Files
    <3> QED BY <3>1, <3>3 DEF FileStep
  <2> QED BY <2>1 DEF FileStep, WholeBumps
<1>5. Unpushed' BY <1>2 DEF FileStep, Unpushed
<1>6. HandedOver' BY <1>2 DEF FileStep, HandedOver
<1>7. GoneForGood' BY DEF FileStep, GoneForGood
<1>8. SentinelCovers' BY <1>1 DEF FileStep, SentinelCovers
<1>9. SameSource' BY DEF FileStep, SameSource
<1> QED BY <1>1, <1>3, <1>4, <1>5, <1>6, <1>7, <1>8, <1>9

LEMMA BumpCargoKeeps == ASSUME Types, OwnParts, BumpCargo PROVE OwnParts'
<1> USE DEF OwnParts
<1>1. /\ pub.pc = "cargo"
      /\ UNCHANGED <<main, head, localTag, originTag, sentinel, live, built,
                     shifted, dropped, handed>>
  BY DEF BumpCargo, history
<1>2. tree'.stray = tree.stray /\ tree'.files.cargo = pub.v
  BY DEF BumpCargo, Types, Trees, FileSet
<1>3. /\ pub'.pc = "sentinel" /\ pub'.v = pub.v /\ pub'.all = pub.all
      /\ pub'.next = pub.next
  BY PcStep DEF BumpCargo, Types, PubPcs
<1>4. /\ \A w \in Version : localTag[w] = originTag[w] /\ ~UnderWay(w)
      /\ handed # NoVersion => originTag[handed] # NoCommit
      /\ FilesOf(head).cargo < pub.v /\ pub.v \notin dropped
      /\ localTag[pub.v] = NoCommit /\ ~Started(pub.v) /\ ~pub.all
      /\ sentinel = NoVersion
  BY <1>1 DEF FreshRun, Fresh, Settled
<1>5. \A v \in Version : /\ Started(v)' <=> Started(v)
                         /\ AllOut(v)' <=> AllOut(v)
                         /\ UnderWay(v)' <=> UnderWay(v)
  BY <1>1, SameArtifacts, WasmSame, UnderWaySame
<1>6. MainAhead' /\ TagsAreOurs' BY <1>1 DEF MainAhead, TagsAreOurs
<1>7. WholeBumps'
  <2>1. tree'.files.cargo # FilesOf(head).cargo
    <3>1. FilesOf(head).cargo \in Nat BY FilesType DEF Types, FileSet
    <3> QED BY <1>2, <1>4, <3>1
  <2> QED BY <1>1, <2>1 DEF WholeBumps
<1>8. Unpushed' BY <1>1, <1>4 DEF Unpushed
<1>9. HandedOver' BY <1>1, <1>4 DEF HandedOver
<1>10. GoneForGood' BY <1>1, <1>2, <1>4 DEF GoneForGood
<1>11. pub.v \in Version BY <1>1 DEF RunAt
<1>12. FreshRun' BY <1>1, <1>3, <1>4, <1>5, <1>11 DEF FreshRun, Settled
<1>13. RunAt' BY <1>1, <1>2, <1>3, <1>11 DEF RunAt, Bumped, Unbuilt, Fresh
<1>14. SentinelCovers' BY <1>4, <1>5 DEF SentinelCovers
<1>15. PackagesFirst' BY <1>1, <1>3 DEF PackagesFirst, AllOut
<1>16. BuiltFrom' BY <1>1, <1>2, <1>3, <1>4, <1>5 DEF BuiltFrom, Unprinted
<1>17. SameSource' BY <1>1 DEF SameSource
<1> QED BY <1>6, <1>7, <1>8, <1>9, <1>10, <1>12, <1>13, <1>14, <1>15, <1>16, <1>17

LEMMA BumpLockfileKeeps == ASSUME Types, OwnParts, BumpLockfile PROVE OwnParts'
<1> USE DEF OwnParts
<1>1. /\ pub.pc = "lock"
      /\ UNCHANGED <<main, head, localTag, originTag, sentinel, live, built,
                     shifted, dropped, handed>>
  BY DEF BumpLockfile, history
<1>2. /\ tree'.stray = tree.stray /\ tree'.files.cargo = tree.files.cargo
      /\ tree'.files.lock = pub.v
      /\ tree.files = Files(pub.v, pub.v, pub.v) => tree'.files = tree.files
  BY DEF BumpLockfile, Types, Trees, FileSet, Files
<1>3. /\ pub'.pc = "stamp" /\ pub'.v = pub.v /\ pub'.all = pub.all
      /\ pub'.next = pub.next
  BY PcStep DEF BumpLockfile, Types, PubPcs
<1>4. tree.files.cargo = pub.v BY <1>1 DEF RunAt
<1>5. FileStep BY <1>1, <1>2, <1>4 DEF FileStep
<1>6. FreshRun' BY <1>3 DEF FreshRun, Fresh
<1>7. RunAt' BY <1>1, <1>2, <1>3, <1>4 DEF RunAt, Bumped, Unbuilt, Fresh
<1>8. PackagesFirst' BY <1>1, <1>3 DEF PackagesFirst, AllOut
<1>9. BuiltFrom' BY <1>1, <1>2, <1>3, <1>5, FileStepKeeps DEF BuiltFrom, Unprinted
<1> QED BY <1>5, <1>6, <1>7, <1>8, <1>9, FileStepKeeps

LEMMA StampChangelogKeeps == ASSUME Types, OwnParts, StampChangelog PROVE OwnParts'
<1> USE DEF OwnParts
<1>1. /\ pub.pc = "stamp"
      /\ UNCHANGED <<main, head, localTag, originTag, sentinel, live, built,
                     shifted, dropped, handed>>
  BY DEF StampChangelog, history
<1>2. /\ tree'.stray = tree.stray /\ tree'.files.cargo = tree.files.cargo
      /\ tree'.files = Files(tree.files.cargo, tree.files.lock, pub.v)
      /\ tree.files = Files(pub.v, pub.v, pub.v) => tree'.files = tree.files
  BY DEF StampChangelog, Types, Trees, FileSet, Files
<1>3. PICK p \in {"finalize", "print"} :
         To(p) /\ p = IF pub.all THEN "finalize" ELSE "print"
  BY DEF StampChangelog
<1>4. /\ pub'.pc = p /\ pub'.v = pub.v /\ pub'.all = pub.all
      /\ pub'.next = pub.next
  BY <1>3, PcStep DEF Types, PubPcs
<1>5. tree.files.cargo = pub.v /\ tree.files.lock = pub.v /\ pub.v \in Version
      /\ sentinel = pub.v
  BY <1>1 DEF RunAt
<1>6. FileStep BY <1>1, <1>2, <1>5 DEF FileStep
<1>7. FreshRun' BY <1>3, <1>4 DEF FreshRun, Fresh
<1>8. RunAt' BY <1>1, <1>2, <1>3, <1>4, <1>5 DEF RunAt, Bumped, Unbuilt, Fresh
<1>9. PackagesFirst'
  <2>1. CASE p = "finalize"
    <3>1. AllOut(pub.v) BY <1>1, <1>3, <2>1 DEF PackagesFirst
    <3> QED BY <1>1, <1>4, <2>1, <3>1 DEF PackagesFirst, AllOut
  <2>2. CASE p = "print"
    <3>1. localTag[pub.v] = NoCommit BY <1>1, <1>3, <2>2 DEF PackagesFirst
    <3> QED BY <1>1, <1>4, <2>2, <3>1 DEF PackagesFirst, AllOut
  <2> QED BY <2>1, <2>2
<1>10. BuiltFrom'
  BY <1>1, <1>2, <1>3, <1>4, <1>6, FileStepKeeps DEF BuiltFrom, Unprinted
<1> QED BY <1>6, <1>7, <1>8, <1>9, <1>10, FileStepKeeps

-----------------------------------------------------------------------------
(* The steps that commit, tag and push.                                     *)

\* A release commit on top of HEAD is not what main has beyond it.
LEMMA CommitAhead ==
  ASSUME Types, MainAhead, head' = CommitFiles, main' = main PROVE MainAhead'
<1>1. PICK h \in Commits : h = CommitFiles BY CommitIs
<1>2. /\ IsPrefix(head, h)
      /\ \/ h = head
         \/ /\ Len(h) = Len(head) + 1
            /\ h[Len(head) + 1].fix = 0
  BY <1>1, CommitIs
<1>3. CASE h = head BY <1>1, <1>3 DEF MainAhead
<1>4. CASE Len(h) = Len(head) + 1 /\ h[Len(head) + 1].fix = 0
  <2>1. ~IsPrefix(h, main)
    <3> SUFFICES ASSUME IsPrefix(h, main) PROVE FALSE OBVIOUS
    <3>1. IsPrefix(head, main) BY <1>2, PrefixTrans DEF Types
    <3>2. Len(h) <= Len(main) /\ \A i \in 1..Len(h) : h[i] = main[i]
      BY PrefixIs DEF Types
    <3>3. Len(head) \in Nat /\ Len(main) \in Nat BY DEF Types, Commits
    <3>4. Len(head) + 1 \in Len(head) + 1..Len(main) /\ Len(head) + 1 \in 1..Len(h)
      BY <1>4, <3>2, <3>3
    <3>5. main[Len(head) + 1].fix # 0 BY <3>1, <3>4 DEF MainAhead
    <3> QED BY <1>4, <3>2, <3>4, <3>5
  <2> QED BY <1>1, <2>1 DEF MainAhead
<1> QED BY <1>2, <1>3, <1>4

LEMMA GitCommitKeeps == ASSUME Types, OwnParts, GitCommit PROVE OwnParts'
<1> USE DEF OwnParts
<1>1. /\ pub.pc = "finalize" /\ head' = IF pub.noGit THEN head ELSE CommitFiles
      /\ UNCHANGED <<main, tree, localTag, originTag, sentinel, live, built,
                     shifted, dropped, handed>>
  BY DEF GitCommit, history
<1>2. PICK p \in {"unsentinel", "tag"} :
         To(p) /\ p = IF pub.noGit THEN "unsentinel" ELSE "tag"
  BY DEF GitCommit
<1>3. /\ pub'.pc = p /\ pub'.v = pub.v /\ pub'.all = pub.all
      /\ pub'.next = pub.next /\ pub'.noGit = pub.noGit
  BY <1>2, PcStep DEF Types, PubPcs
<1>4. /\ pub.v \in Version /\ tree.files = Files(pub.v, pub.v, pub.v) /\ sentinel = pub.v
      /\ AllOut(pub.v)
  BY <1>1 DEF RunAt, Bumped, PackagesFirst
<1>5. /\ head' \in Commits /\ IsPrefix(head, head')
      /\ SourceOf(head') = SourceOf(head)
      /\ head' = head \/ FilesOf(head') = tree.files
      /\ ~pub.noGit => FilesOf(head') = tree.files
  <2>1. head \in Commits BY DEF Types
  <2> QED BY <1>1, <2>1, CommitIs, PrefixSelf
<1>6. \A v \in Version : /\ AllOut(v)' <=> AllOut(v)
                         /\ UnderWay(v)' <=> UnderWay(v)
  BY <1>1, SameArtifacts, WasmSame, UnderWaySame
<1>7. MainAhead'
  <2>1. CASE pub.noGit BY <1>1, <2>1 DEF MainAhead
  <2>2. CASE ~pub.noGit BY <1>1, <2>2, CommitAhead
  <2> QED BY <2>1, <2>2
<1>8. TagsAreOurs'
  <2>1. \A v \in Version : localTag[v] \in Commits BY DEF Types
  <2>2. head \in Commits BY DEF Types
  <2>3. \A v \in Version : IsPrefix(localTag[v], head')
    BY <1>5, <2>1, <2>2, PrefixTrans DEF TagsAreOurs
  <2> QED BY <1>1, <2>3 DEF TagsAreOurs
<1>9. WholeBumps'
  <2>1. CASE head' = head BY <1>1, <2>1 DEF WholeBumps
  <2>2. CASE FilesOf(head') = tree.files
    <3>1. /\ FilesOf(head').cargo = FilesOf(head').lock
          /\ FilesOf(head').cargo = FilesOf(head').notes
      BY <1>4, <2>2 DEF Files
    <3> QED BY <1>1, <2>2, <3>1 DEF WholeBumps
  <2> QED BY <1>5, <2>1, <2>2
<1>10. Unpushed' BY <1>1, <1>5 DEF Unpushed
<1>11. HandedOver' /\ GoneForGood' BY <1>1, <1>5 DEF HandedOver, GoneForGood
<1>12. FreshRun' BY <1>2, <1>3 DEF FreshRun, Fresh
<1>13. RunAt' BY <1>1, <1>2, <1>3, <1>4, <1>5 DEF RunAt, Bumped, Unbuilt, Fresh
<1>14. SentinelCovers' BY <1>1, <1>6 DEF SentinelCovers
<1>15. PackagesFirst' BY <1>1, <1>2, <1>3, <1>4 DEF PackagesFirst, AllOut
<1>16. BuiltFrom' BY <1>1, <1>2, <1>3, <1>5, <1>6 DEF BuiltFrom, Unprinted
<1>17. SameSource' BY <1>1 DEF SameSource
<1> QED BY <1>7, <1>8, <1>9, <1>10, <1>11, <1>12, <1>13, <1>14, <1>15, <1>16, <1>17

LEMMA GitTagKeeps == ASSUME Types, OwnParts, GitTag PROVE OwnParts' /\ TagsKept
<1> USE DEF OwnParts
<1>1. /\ pub.pc = "tag"
      /\ localTag' = IF localTag[pub.v] = NoCommit
                     THEN [localTag EXCEPT ![pub.v] = head] ELSE localTag
      /\ UNCHANGED <<main, head, tree, originTag, sentinel, live, built,
                     shifted, dropped, handed>>
  BY DEF GitTag, history
<1>2. /\ pub'.pc = "push" /\ pub'.v = pub.v /\ pub'.all = pub.all
      /\ pub'.next = pub.next
  BY PcStep DEF GitTag, Types, PubPcs
<1>3. /\ pub.v \in Version /\ tree.files = Files(pub.v, pub.v, pub.v) /\ sentinel = pub.v
      /\ FilesOf(head) = Files(pub.v, pub.v, pub.v) /\ AllOut(pub.v)
  BY <1>1 DEF RunAt, Bumped, PackagesFirst
<1>4. \A v \in Version :
        \/ localTag'[v] = localTag[v] /\ (v = pub.v => localTag[v] # NoCommit)
        \/ v = pub.v /\ localTag[v] = NoCommit /\ localTag'[v] = head
  BY <1>1, <1>3 DEF Types
<1>5. \A v \in Version : /\ AllOut(v)' <=> AllOut(v)
                         /\ UnderWay(v)' <=> UnderWay(v)
  BY <1>1, SameArtifacts, WasmSame, UnderWaySame
<1>6. head \in Commits /\ head # NoCommit BY DEF Types
<1>7. IsPrefix(head, head) BY <1>6, PrefixSelf
<1>8. MainAhead' /\ WholeBumps' /\ HandedOver' /\ GoneForGood'
  BY <1>1 DEF MainAhead, WholeBumps, HandedOver, GoneForGood
<1>9. TagsAreOurs' BY <1>1, <1>3, <1>4, <1>7 DEF TagsAreOurs
<1>10. Unpushed' BY <1>1, <1>3, <1>4 DEF Unpushed
<1>11. FreshRun' BY <1>2 DEF FreshRun, Fresh
<1>12. RunAt' BY <1>1, <1>2, <1>3, <1>4, <1>6 DEF RunAt, Bumped, Unbuilt, Fresh
<1>13. SentinelCovers' BY <1>1, <1>5 DEF SentinelCovers
<1>14. PackagesFirst'
  <2>1. \A v \in Version : localTag'[v] # NoCommit => AllOut(v)
    BY <1>3, <1>4 DEF PackagesFirst
  <2> QED BY <1>1, <1>2, <1>3, <2>1 DEF PackagesFirst, AllOut
<1>15. BuiltFrom' BY <1>1, <1>2, <1>4, <1>5 DEF BuiltFrom, Unprinted
<1>16. SameSource' BY <1>1 DEF SameSource
<1>17. TagsKept BY <1>1, <1>4 DEF TagsKept
<1> QED BY <1>8, <1>9, <1>10, <1>11, <1>12, <1>13, <1>14, <1>15, <1>16, <1>17

LEMMA GitPushKeeps == ASSUME Types, OwnParts, GitPush PROVE OwnParts' /\ TagsKept
<1> USE DEF OwnParts
<1>1. /\ pub.pc = "push" /\ PushRefs(head, localTag)
      /\ UNCHANGED <<head, tree, localTag, sentinel, live, built, shifted, dropped, handed>>
  BY DEF GitPush, history
<1>2. \/ pub'.pc = "idle"
      \/ /\ pub'.pc = "unsentinel" /\ pub'.v = pub.v /\ pub'.all = pub.all
         /\ pub'.next = pub.next
  BY DEF GitPush, PubIdle, Types, Pubs
<1>3. /\ pub.v \in Version /\ tree.files = Files(pub.v, pub.v, pub.v) /\ sentinel = pub.v
      /\ FilesOf(head) = Files(pub.v, pub.v, pub.v) /\ AllOut(pub.v)
      /\ localTag[pub.v] # NoCommit
  BY <1>1 DEF RunAt, Bumped, PackagesFirst
<1>4. \A v \in Version : originTag'[v] = localTag[v]
  BY <1>1 DEF PushRefs, TagsAreOurs
<1>5. main' = main \/ main' = head BY <1>1 DEF PushRefs
<1>6. \A v \in Version : originTag[v] # NoCommit => originTag'[v] = originTag[v]
  BY <1>4 DEF TagsAreOurs
<1>7. \A v \in Version : /\ AllOut(v)' <=> AllOut(v)
                         /\ Started(v)' <=> Started(v)
                         /\ UnderWay(v)' => UnderWay(v)
  <2>1. \A v \in Version : /\ AllOut(v)' <=> AllOut(v)
                           /\ Started(v)' <=> Started(v)
    BY <1>1, SameArtifacts, WasmSame
  <2> QED BY <1>1, <1>6, <2>1 DEF UnderWay
<1>8. MainAhead'
  <2>1. CASE main' = main BY <1>1, <2>1 DEF MainAhead
  <2>2. CASE main' = head
    <3>1. Len(head) \in Nat BY DEF Types, Commits
    <3>2. Len(head) + 1..Len(head) = {} BY <3>1
    <3> QED BY <1>1, <2>2, <3>2 DEF MainAhead
  <2> QED BY <1>5, <2>1, <2>2
<1>9. TagsAreOurs' BY <1>1, <1>4 DEF TagsAreOurs
<1>10. WholeBumps'
  <2>1. \/ FilesOf(main') = Files(0, 0, 0)
        \/ \E v \in Version : FilesOf(main') = Files(v, v, v) /\ originTag'[v] # NoCommit
    <3>1. CASE main' = main BY <1>6, <3>1 DEF WholeBumps
    <3>2. CASE main' = head BY <1>3, <1>4, <3>2
    <3> QED BY <1>5, <3>1, <3>2
  <2> QED BY <1>1, <2>1 DEF WholeBumps
<1>11. Unpushed' BY <1>1, <1>4 DEF Unpushed
<1>12. HandedOver'
  <2>1. handed # NoVersion => handed \in Version BY DEF Types, Names
  <2> QED BY <1>1, <1>6, <2>1 DEF HandedOver
<1>13. GoneForGood' BY <1>1, <1>6 DEF GoneForGood
<1>14. FreshRun' BY <1>2 DEF FreshRun, Fresh
<1>15. RunAt' BY <1>1, <1>2, <1>3, <1>4 DEF RunAt, Bumped, Unbuilt, Fresh
<1>16. SentinelCovers' BY <1>1, <1>7 DEF SentinelCovers
<1>17. PackagesFirst' BY <1>1, <1>2, <1>3 DEF PackagesFirst, AllOut
<1>18. BuiltFrom' BY <1>1, <1>2, <1>7 DEF BuiltFrom, Unprinted
<1>19. SameSource'
  <2> SUFFICES ASSUME ~shifted, NEW v \in Version, NEW i \in Wasm,
                      Item("wasm", i, v) \in live, originTag'[v] # NoCommit
               PROVE  built[Item("wasm", i, v)] = SourceOf(originTag'[v])
    BY <1>1 DEF SameSource
  <2>1. CASE originTag[v] # NoCommit BY <1>6, <2>1 DEF SameSource
  <2>2. CASE originTag[v] = NoCommit
    <3>1. localTag[v] # originTag[v] BY <1>4, <2>2
    <3>2. FilesOf(head) = Files(v, v, v) BY <3>1 DEF Unpushed
    <3>3. v \notin dropped BY <2>2, <3>2 DEF GoneForGood, Files
    <3>4. UnderWay(v) BY <2>2, <3>3 DEF UnderWay, Started
    <3> QED BY <1>4, <3>4 DEF BuiltFrom
  <2> QED BY <2>1, <2>2
<1>20. TagsKept BY <1>1, <1>6 DEF TagsKept
<1> QED BY <1>8, <1>9, <1>10, <1>11, <1>12, <1>13, <1>14, <1>15, <1>16, <1>17,
           <1>18, <1>19, <1>20

-----------------------------------------------------------------------------
(* What people do.                                                          *)

LEMMA CoworkerKeeps == ASSUME Types, OwnParts, CoworkerPushes PROVE OwnParts' /\ TagsKept
<1> USE DEF OwnParts
<1>1. UNCHANGED <<head, tree, localTag, originTag, sentinel, live, built, pub,
                  shifted, dropped, handed>>
  BY DEF CoworkerPushes
<1>2. PICK k \in 1..MaxFixes : main' = Fix(main, k)
  BY SizesAssumption DEF CoworkerPushes, Types
<1>3. PICK f : f = FilesOf(main) OBVIOUS
<1>4. PICK m : m = main' OBVIOUS
<1>5. OneMore(main, m, k, f) BY <1>2, <1>3, <1>4, FixIs DEF Types
<1>6. Len(main) \in Nat \ {0} /\ Len(head) \in Nat BY FilesType DEF Types, Commits
<1>7. m \in Commits /\ FilesOf(m) = f /\ Len(m) = Len(main) + 1
  BY <1>5 DEF OneMore
<1>8. MainAhead'
  <2> SUFFICES ASSUME IsPrefix(head, m), NEW i \in Len(head) + 1..Len(m)
               PROVE  m[i].fix # 0 /\ m[i].files = FilesOf(head)
    BY <1>1, <1>4 DEF MainAhead
  <2>1. Len(head) <= Len(main) BY <1>6, <1>7
  <2>2. IsPrefix(head, main)
    <3>1. \A j \in 1..Len(head) : head[j] = m[j] BY <1>7, PrefixIs DEF Types
    <3>2. \A j \in 1..Len(head) : head[j] = main[j] BY <1>5, <1>6, <2>1, <3>1 DEF OneMore
    <3> QED BY <2>1, <3>2, PrefixIs DEF Types
  <2>3. CASE i \in Len(head) + 1..Len(main)
    <3>1. m[i] = main[i] BY <1>5, <1>6, <2>3 DEF OneMore
    <3> QED BY <2>2, <2>3, <3>1 DEF MainAhead
  <2>4. CASE i = Len(main) + 1
    <3>1. m[i] = [fix |-> k, files |-> f] BY <1>5, <2>4 DEF OneMore
    <3>2. f = FilesOf(head)
      <4>1. CASE Len(head) = Len(main)
        <5>1. head = main BY <2>2, <4>1, PrefixSame DEF Types
        <5> QED BY <1>3, <5>1
      <4>2. CASE Len(head) < Len(main)
        <5>1. Len(main) \in Len(head) + 1..Len(main) BY <1>6, <4>2
        <5> QED BY <1>3, <2>2, <5>1 DEF MainAhead, FilesOf
      <4> QED BY <1>6, <2>1, <4>1, <4>2
    <3> QED BY <3>1, <3>2
  <2> QED BY <1>6, <1>7, <2>3, <2>4
<1>9. TagsAreOurs' /\ Unpushed' /\ HandedOver' /\ GoneForGood'
  BY <1>1 DEF TagsAreOurs, Unpushed, HandedOver, GoneForGood
<1>10. WholeBumps' BY <1>1, <1>3, <1>4, <1>7 DEF WholeBumps
<1>11. \A v \in Version : /\ Started(v)' <=> Started(v)
                          /\ UnderWay(v)' <=> UnderWay(v)
  BY <1>1, SameArtifacts, WasmSame, UnderWaySame
<1>12. FreshRun'
  <2>1. pub.pc \in Fresh => pub.v \in Version BY DEF RunAt, Fresh
  <2> QED BY <1>1, <1>11, <2>1 DEF FreshRun, Settled
<1>13. RunAt' BY <1>1 DEF RunAt
<1>14. SentinelCovers' BY <1>1, <1>11 DEF SentinelCovers
<1>15. PackagesFirst' BY <1>1 DEF PackagesFirst, AllOut
<1>16. Checkout' = Checkout BY <1>1 DEF Checkout
<1>17. BuiltFrom' BY <1>1, <1>11, <1>16 DEF BuiltFrom, Unprinted
<1>18. SameSource' BY <1>1 DEF SameSource
<1>19. TagsKept BY <1>1 DEF TagsKept
<1> QED BY <1>8, <1>9, <1>10, <1>12, <1>13, <1>14, <1>15, <1>17, <1>18, <1>19

LEMMA PullKeeps == ASSUME Types, OwnParts, Pull PROVE OwnParts' /\ TagsKept
<1> USE DEF OwnParts
<1>1. /\ head' = main /\ head # main /\ IsPrefix(head, main)
      /\ UNCHANGED <<main, tree, localTag, originTag, sentinel, live, built, pub,
                     dropped, handed>>
      /\ ~shifted' => ~shifted /\ ~Unwatched /\ \A v \in Version : ~UnderWay(v)
  BY DEF Pull, MoveHead
<1>2. head \in Commits /\ main \in Commits BY DEF Types
<1>3. Len(head) \in Nat /\ Len(main) \in Nat BY <1>2 DEF Commits
<1>4. Len(head) < Len(main)
  <2>1. Len(head) <= Len(main) BY <1>1, <1>2, PrefixIs
  <2>2. Len(head) # Len(main) BY <1>1, <1>2, PrefixSame
  <2> QED BY <1>3, <2>1, <2>2
<1>5. FilesOf(main) = FilesOf(head)
  <2>1. Len(main) \in Len(head) + 1..Len(main) BY <1>3, <1>4
  <2> QED BY <1>1, <2>1 DEF MainAhead, FilesOf
<1>6. FilesOf(head') = FilesOf(head) BY <1>1, <1>5
<1>7. MainAhead'
  <2>1. Len(main) + 1..Len(main) = {} BY <1>3
  <2> QED BY <1>1, <2>1 DEF MainAhead
<1>8. TagsAreOurs'
  <2>1. \A v \in Version : localTag[v] \in Commits BY DEF Types
  <2>2. \A v \in Version : IsPrefix(localTag[v], head')
    BY <1>1, <1>2, <2>1, PrefixTrans DEF TagsAreOurs
  <2> QED BY <1>1, <2>2 DEF TagsAreOurs
<1>9. WholeBumps' BY <1>1, <1>6 DEF WholeBumps
<1>10. Unpushed' /\ HandedOver' /\ GoneForGood'
  BY <1>1, <1>6 DEF Unpushed, HandedOver, GoneForGood
<1>11. \A v \in Version : /\ Started(v)' <=> Started(v)
                          /\ UnderWay(v)' <=> UnderWay(v)
  BY <1>1, SameArtifacts, WasmSame, UnderWaySame
<1>12. FreshRun'
  <2>1. pub.pc \in Fresh => pub.v \in Version BY DEF RunAt, Fresh
  <2> QED BY <1>1, <1>6, <1>11, <2>1 DEF FreshRun, Settled
<1>13. RunAt' BY <1>1, <1>6 DEF RunAt
<1>14. SentinelCovers' BY <1>1, <1>11 DEF SentinelCovers
<1>15. PackagesFirst' BY <1>1 DEF PackagesFirst, AllOut
<1>16. BuiltFrom'
  <2>1. ASSUME pub.pc \in {"gates", "test"}
        PROVE  /\ IsPrefix(pub.print[1], head') /\ pub.print # <<head', tree'>>
               /\ pub.print \in Commits \X Trees
               /\ pub.print[2].stray \subseteq tree.stray
    <3>1. /\ IsPrefix(pub.print[1], head) /\ pub.print \in Commits \X Trees
          /\ pub.print[2].stray \subseteq tree.stray
      BY <2>1 DEF BuiltFrom
    <3>2. PICK c \in Commits : c = pub.print[1] BY <3>1
    <3>3. IsPrefix(c, main) BY <1>1, <1>2, <3>1, <3>2, PrefixTrans
    <3>4. c # main
      <4>1. Len(c) <= Len(head) BY <1>2, <3>1, <3>2, PrefixIs
      <4> QED BY <1>3, <1>4, <4>1
    <3>5. pub.print # <<head', tree'>> BY <1>1, <3>2, <3>4
    <3> QED BY <1>1, <3>1, <3>2, <3>3, <3>5
  <2>2. ~shifted' => ~shifted BY <1>1
  <2>3. ~shifted' /\ pub.pc \in {"gates", "test"} => pub.print[2].stray = {}
    BY <2>2 DEF BuiltFrom
  <2>4. ~shifted' /\ Unprinted => tree.stray = {} BY <2>2 DEF BuiltFrom
  <2>5. ~shifted' => pub.pc # "npm" BY <1>1 DEF Unwatched
  <2>6. ~shifted' => \A v \in Version : ~UnderWay(v)' BY <1>1, <1>11
  <2> QED BY <1>1, <2>1, <2>3, <2>4, <2>5, <2>6 DEF BuiltFrom, Unprinted
<1>17. SameSource' BY <1>1 DEF SameSource
<1>18. TagsKept BY <1>1 DEF TagsKept
<1> QED BY <1>7, <1>8, <1>9, <1>10, <1>12, <1>13, <1>14, <1>15, <1>16, <1>17, <1>18

LEMMA CommitFixKeeps == ASSUME Types, OwnParts, CommitFix PROVE OwnParts' /\ TagsKept
<1> USE DEF OwnParts
<1>1. PICK k \in tree.stray : /\ tree' = [tree EXCEPT !.stray = @ \ {k}]
                              /\ MoveHead(Fix(head, k))
  BY DEF CommitFix
<1>2. k \in 1..MaxFixes BY DEF Types, Trees
<1>3. /\ pub.pc = "idle" /\ head = main /\ main' = head'
      /\ UNCHANGED <<localTag, originTag, sentinel, live, built, pub, dropped, handed>>
      /\ ~shifted' => ~shifted /\ \A v \in Version : ~UnderWay(v)
  BY <1>1 DEF CommitFix, MoveHead
<1>4. PICK h : h = head' OBVIOUS
<1>5. PICK f : f = FilesOf(head) OBVIOUS
<1>6. OneMore(head, h, k, f)
  BY <1>1, <1>2, <1>4, <1>5, FixIs DEF Types, MoveHead
<1>7. h \in Commits /\ IsPrefix(head, h) /\ FilesOf(h) = f BY <1>6 DEF OneMore
<1>8. tree'.files = tree.files BY <1>1 DEF Types, Trees
<1>9. MainAhead'
  <2>1. Len(h) \in Nat BY <1>7 DEF Commits
  <2>2. Len(h) + 1..Len(h) = {} BY <2>1
  <2> QED BY <1>3, <1>4, <2>2 DEF MainAhead
<1>10. TagsAreOurs'
  <2>1. \A v \in Version : localTag[v] \in Commits BY DEF Types
  <2>2. \A v \in Version : IsPrefix(localTag[v], h)
    BY <1>7, <2>1, PrefixTrans DEF TagsAreOurs, Types
  <2> QED BY <1>3, <1>4, <2>2 DEF TagsAreOurs
<1>11. FilesOf(head') = FilesOf(head) /\ FilesOf(main') = FilesOf(main)
  BY <1>3, <1>4, <1>5, <1>7
<1>12. WholeBumps' BY <1>3, <1>8, <1>11 DEF WholeBumps
<1>13. Unpushed' /\ HandedOver' /\ GoneForGood'
  BY <1>3, <1>8, <1>11 DEF Unpushed, HandedOver, GoneForGood
<1>14. \A v \in Version : UnderWay(v)' <=> UnderWay(v)
  BY <1>3, SameArtifacts, UnderWaySame
<1>15. FreshRun' /\ RunAt' BY <1>3 DEF FreshRun, Fresh, RunAt, Bumped, Unbuilt
<1>16. SentinelCovers' BY <1>3, <1>8, <1>14 DEF SentinelCovers
<1>17. PackagesFirst' BY <1>3 DEF PackagesFirst, AllOut
<1>18. BuiltFrom' BY <1>3, <1>14 DEF BuiltFrom, Unprinted
<1>19. SameSource' BY <1>3 DEF SameSource
<1>20. TagsKept BY <1>3 DEF TagsKept
<1> QED BY <1>9, <1>10, <1>12, <1>13, <1>15, <1>16, <1>17, <1>18, <1>19, <1>20

\* Edits and their undoing touch nothing but the uncommitted changes.
StrayStep ==
    /\ UNCHANGED <<main, head, localTag, originTag, sentinel, live, built, pub,
                   dropped, handed>>
    /\ tree'.files = tree.files

LEMMA StrayStepKeeps ==
  ASSUME Types, OwnParts, StrayStep, shifted => shifted'
  PROVE  /\ MainAhead' /\ TagsAreOurs' /\ WholeBumps' /\ Unpushed' /\ HandedOver'
         /\ GoneForGood' /\ FreshRun' /\ RunAt' /\ SentinelCovers' /\ PackagesFirst'
         /\ SameSource' /\ TagsKept
         /\ \A v \in Version : UnderWay(v)' <=> UnderWay(v)
<1> USE DEF OwnParts
<1>1. MainAhead' /\ TagsAreOurs' /\ WholeBumps' /\ Unpushed' /\ HandedOver' /\ GoneForGood'
  BY DEF StrayStep, MainAhead, TagsAreOurs, WholeBumps, Unpushed, HandedOver, GoneForGood
<1>2. \A v \in Version : /\ Started(v)' <=> Started(v)
                         /\ UnderWay(v)' <=> UnderWay(v)
  BY SameArtifacts, WasmSame, UnderWaySame DEF StrayStep
<1>3. FreshRun'
  <2>1. pub.pc \in Fresh => pub.v \in Version BY DEF RunAt, Fresh
  <2> QED BY <1>2, <2>1 DEF StrayStep, FreshRun, Settled
<1>4. RunAt' BY DEF StrayStep, RunAt
<1>5. SentinelCovers' BY <1>2 DEF StrayStep, SentinelCovers
<1>6. PackagesFirst' BY DEF StrayStep, PackagesFirst, AllOut
<1>7. SameSource' BY DEF StrayStep, SameSource
<1>8. TagsKept BY DEF StrayStep, TagsKept
<1> QED BY <1>1, <1>2, <1>3, <1>4, <1>5, <1>6, <1>7, <1>8

LEMMA EditKeeps == ASSUME Types, OwnParts, Edit PROVE OwnParts' /\ TagsKept
<1> USE DEF OwnParts
<1>1. PICK k : k = fixes' /\ k = fixes + 1 BY DEF Edit
<1>2. /\ StrayStep /\ tree'.stray = tree.stray \cup {k} /\ head' = head
      /\ UNCHANGED <<pub, live, built, localTag>>
      /\ shifted' = (shifted \/ Unprinted)
  BY <1>1 DEF Edit, StrayStep, Types, Trees
<1>3. shifted => shifted' BY <1>2
<1>4. k \notin tree.stray BY <1>1 DEF Types
<1>5. BuiltFrom'
  <2>1. ASSUME pub.pc \in {"gates", "test"}
        PROVE  /\ IsPrefix(pub.print[1], head) /\ pub.print \in Commits \X Trees
               /\ pub.print[2].stray \subseteq tree'.stray
               /\ pub.print # <<head', tree'>>
    <3>1. /\ IsPrefix(pub.print[1], head) /\ pub.print \in Commits \X Trees
          /\ pub.print[2].stray \subseteq tree.stray
      BY <2>1 DEF BuiltFrom
    <3>2. pub.print[2] # tree' BY <1>2, <1>4, <3>1
    <3> QED BY <1>2, <3>1, <3>2
  <2>2. ~shifted' => ~shifted /\ ~Unprinted BY <1>2
  <2>3. ~shifted' /\ pub.pc \in {"gates", "test"} => pub.print[2].stray = {}
    BY <2>2 DEF BuiltFrom
  <2>4. ~shifted' /\ pub.pc = "npm" => pub.src = SourceOf(head)
    BY <2>2 DEF BuiltFrom
  <2>5. ~shifted' => \A v \in Version : UnderWay(v)' =>
          /\ \A i \in Wasm : Item("wasm", i, v) \in live =>
                  built[Item("wasm", i, v)] = SourceOf(head)
          /\ localTag[v] # NoCommit => SourceOf(localTag[v]) = SourceOf(head)
    BY <1>2, <1>3, <2>2, StrayStepKeeps DEF BuiltFrom
  <2> QED BY <1>2, <2>1, <2>2, <2>3, <2>4, <2>5 DEF BuiltFrom, Unprinted
<1> QED BY <1>2, <1>3, <1>5, StrayStepKeeps

LEMMA DropEditsKeeps == ASSUME Types, OwnParts, DropEdits PROVE OwnParts' /\ TagsKept
<1> USE DEF OwnParts
<1>1. /\ StrayStep /\ tree'.stray = {} /\ pub.pc = "idle"
      /\ UNCHANGED <<head, pub, shifted, live, built, localTag>>
  BY DEF DropEdits, StrayStep, Types, Trees, history
<1>2. BuiltFrom' BY <1>1, StrayStepKeeps DEF BuiltFrom, Unprinted
<1> QED BY <1>1, <1>2, StrayStepKeeps

LEMMA RevertKeeps == ASSUME Types, OwnParts, Revert PROVE OwnParts' /\ TagsKept
<1> USE DEF OwnParts
<1>1. /\ pub.pc = "idle" /\ tree.files # FilesOf(head)
      /\ dropped' = dropped \cup {tree.files.cargo} /\ handed' = NoVersion
      /\ UNCHANGED <<main, head, localTag, originTag, sentinel, live, built, pub, shifted>>
  BY DEF Revert
<1>2. tree'.files = FilesOf(head) BY DEF Revert, Types, Trees
<1>3. tree.files.cargo # FilesOf(head).cargo BY <1>1 DEF WholeBumps
<1>4. \A v \in Version : originTag[v] = NoCommit => localTag[v] = NoCommit
  BY <1>1 DEF Unpushed
<1>5. \A v \in Version : Started(v)' <=> Started(v)
  BY <1>1, SameArtifacts, WasmSame
<1>6. \A v \in Version : ~UnderWay(v)'
  <2> SUFFICES ASSUME NEW v \in Version, UnderWay(v)' PROVE FALSE OBVIOUS
  <2>1. v # tree.files.cargo /\ UnderWay(v) BY <1>1, <1>5 DEF UnderWay
  <2>2. handed = v BY <2>1 DEF SentinelCovers
  <2>3. v # NoVersion /\ originTag[v] = NoCommit BY <2>1 DEF Version, NoVersion, UnderWay
  <2>4. tree.files = Files(v, v, v) BY <2>2, <2>3 DEF HandedOver
  <2> QED BY <2>1, <2>4 DEF Files
<1>7. MainAhead' /\ TagsAreOurs' BY <1>1 DEF MainAhead, TagsAreOurs
<1>8. WholeBumps' BY <1>1, <1>2 DEF WholeBumps
<1>9. Unpushed' BY <1>1 DEF Unpushed
<1>10. HandedOver' BY <1>1 DEF HandedOver
<1>11. GoneForGood'
  <2>1. \A v \in Version : v # NoVersion BY DEF Version, NoVersion
  <2> QED BY <1>1, <1>2, <1>3, <2>1 DEF GoneForGood
<1>12. FreshRun' /\ RunAt' BY <1>1 DEF FreshRun, Fresh, RunAt, Bumped, Unbuilt
<1>13. SentinelCovers' BY <1>6 DEF SentinelCovers
<1>14. PackagesFirst' BY <1>1 DEF PackagesFirst, AllOut
<1>15. BuiltFrom' BY <1>1, <1>6 DEF BuiltFrom, Unprinted
<1>16. SameSource' BY <1>1 DEF SameSource
<1>17. TagsKept BY <1>1 DEF TagsKept
<1> QED BY <1>7, <1>8, <1>9, <1>10, <1>11, <1>12, <1>13, <1>14, <1>15, <1>16, <1>17

LEMMA FinalizeKeeps == ASSUME Types, OwnParts, FinalizeByHand PROVE OwnParts' /\ TagsKept
<1> USE DEF OwnParts
<1>1. /\ pub.pc = "idle" /\ handed # NoVersion /\ handed' = NoVersion
      /\ tree.files = Files(handed, handed, handed) /\ IsPrefix(main, head)
      /\ head' = CommitFiles
      /\ UNCHANGED <<tree, sentinel, live, built, pub, shifted, dropped>>
  BY DEF FinalizeByHand
<1>2. PICK w \in Version : w = handed BY <1>1 DEF Types, Names
<1>3. PICK h \in Commits : h = CommitFiles BY CommitIs
<1>4. /\ head' = h /\ h # NoCommit /\ IsPrefix(head, h) /\ FilesOf(h) = Files(w, w, w)
      /\ SourceOf(h) = SourceOf(head)
  BY <1>1, <1>2, <1>3, CommitIs
<1>5. \A v \in Version :
        \/ localTag'[v] = localTag[v] /\ (v = w => localTag[v] # NoCommit)
        \/ v = w /\ localTag[v] = NoCommit /\ localTag'[v] = h
  BY <1>2, <1>3 DEF FinalizeByHand, Types
<1>6. \A v \in Version : localTag[v] \in Commits BY DEF Types
<1>7. IsPrefix(main, h) BY <1>1, <1>4, PrefixTrans DEF Types
<1>8. \A v \in Version : IsPrefix(localTag'[v], h)
  <2>1. \A v \in Version : IsPrefix(localTag[v], h)
    BY <1>4, <1>6, PrefixTrans DEF TagsAreOurs, Types
  <2>2. IsPrefix(h, h) BY PrefixSelf
  <2> QED BY <1>5, <2>1, <2>2
<1>9. PICK tags : tags = localTag' OBVIOUS
<1>10. PushRefs(h, tags) BY <1>3, <1>9 DEF FinalizeByHand
<1>11. main' = h BY <1>7, <1>10 DEF PushRefs
<1>12. \A v \in Version : originTag'[v] = localTag'[v]
  BY <1>5, <1>8, <1>9, <1>10 DEF PushRefs, TagsAreOurs
<1>13. \A v \in Version : originTag[v] # NoCommit => originTag'[v] = originTag[v]
  BY <1>5, <1>12 DEF TagsAreOurs
<1>14. originTag'[w] # NoCommit /\ localTag'[w] # NoCommit BY <1>4, <1>5, <1>12
<1>15. \A v \in Version : /\ AllOut(v)' <=> AllOut(v)
                          /\ Started(v)' <=> Started(v)
                          /\ UnderWay(v)' => UnderWay(v) /\ v # w
  <2>1. \A v \in Version : /\ AllOut(v)' <=> AllOut(v)
                           /\ Started(v)' <=> Started(v)
    BY <1>1, SameArtifacts, WasmSame
  <2> QED BY <1>1, <1>13, <1>14, <2>1 DEF UnderWay
<1>16. MainAhead'
  <2>1. Len(h) \in Nat BY DEF Commits
  <2>2. Len(h) + 1..Len(h) = {} BY <2>1
  <2> QED BY <1>4, <1>11, <2>2 DEF MainAhead
<1>17. TagsAreOurs'
  <2>1. \A v \in Version : localTag'[v] # NoCommit => FilesOf(localTag'[v]) = Files(v, v, v)
    BY <1>4, <1>5 DEF TagsAreOurs
  <2> QED BY <1>4, <1>8, <1>12, <2>1 DEF TagsAreOurs
<1>18. WholeBumps'
  <2>1. /\ FilesOf(h).cargo = FilesOf(h).lock /\ FilesOf(h).cargo = FilesOf(h).notes
    BY <1>4 DEF Files
  <2> QED BY <1>1, <1>2, <1>4, <1>11, <1>14, <2>1 DEF WholeBumps
<1>19. Unpushed' BY <1>12 DEF Unpushed
<1>20. HandedOver' BY <1>1 DEF HandedOver
<1>21. GoneForGood'
  <2> SUFFICES ASSUME NEW v \in dropped \cap Version, originTag'[v] = NoCommit
               PROVE  v # w
    BY <1>1, <1>2, <1>4 DEF GoneForGood, Files, Version, NoVersion
  <2> QED BY <1>14
<1>22. FreshRun' /\ RunAt' BY <1>1 DEF FreshRun, Fresh, RunAt, Bumped, Unbuilt
<1>23. SentinelCovers' BY <1>1, <1>2, <1>15 DEF SentinelCovers
<1>24. PackagesFirst'
  <2>1. AllOut(w) BY <1>1, <1>2 DEF PackagesFirst
  <2>2. \A v \in Version : localTag'[v] # NoCommit => AllOut(v)
    BY <1>5, <2>1 DEF PackagesFirst
  <2> QED BY <1>1, <2>2 DEF PackagesFirst, AllOut
<1>25. BuiltFrom'
  BY <1>1, <1>4, <1>5, <1>15 DEF BuiltFrom, Unprinted
<1>26. SameSource'
  <2> SUFFICES ASSUME ~shifted, NEW v \in Version, NEW i \in Wasm,
                      Item("wasm", i, v) \in live, originTag'[v] # NoCommit
               PROVE  built[Item("wasm", i, v)] = SourceOf(originTag'[v])
    BY <1>1 DEF SameSource
  <2>1. CASE originTag[v] # NoCommit BY <1>13, <2>1 DEF SameSource
  <2>2. CASE originTag[v] = NoCommit
    <3>1. v = w
      <4>1. CASE localTag[v] = NoCommit BY <1>5, <1>12, <4>1
      <4>2. CASE localTag[v] # NoCommit
        <5>1. tree.files = Files(v, v, v) BY <2>2, <4>2 DEF Unpushed
        <5> QED BY <1>1, <1>2, <5>1 DEF Files
      <4> QED BY <4>1, <4>2
    <3>2. v \notin dropped BY <1>2, <2>2, <3>1 DEF GoneForGood
    <3>3. UnderWay(v) BY <2>2, <3>2 DEF UnderWay, Started
    <3>4. built[Item("wasm", i, v)] = SourceOf(head) BY <3>3 DEF BuiltFrom
    <3>5. SourceOf(localTag'[v]) = SourceOf(head)
      <4>1. localTag[v] # NoCommit => SourceOf(localTag[v]) = SourceOf(head)
        BY <3>3 DEF BuiltFrom
      <4>2. localTag'[v] = h \/ (localTag[v] # NoCommit /\ localTag'[v] = localTag[v])
        BY <1>5, <3>1
      <4> QED BY <1>4, <4>1, <4>2
    <3> QED BY <1>12, <3>4, <3>5
  <2> QED BY <2>1, <2>2
<1>27. TagsKept BY <1>5, <1>13 DEF TagsKept
<1> QED BY <1>16, <1>17, <1>18, <1>19, <1>20, <1>21, <1>22, <1>23, <1>24, <1>25,
           <1>26, <1>27

-----------------------------------------------------------------------------
(* The invariant.                                                           *)

\* Every variable starts, and stays, a value of its kind.
LEMMA InitTypes == Init => Types
<1> SUFFICES ASSUME Init PROVE Types OBVIOUS
<1>1. PICK f \in FileSet : f = Files(0, 0, 0)
  <2>1. Files(0, 0, 0) \in FileSet BY SizesAssumption DEF FileSet, Files
  <2> QED BY <2>1
<1>2. PICK e : e = [fix |-> 1, files |-> f] OBVIOUS
<1>3. e \in Entries BY <1>2, SizesAssumption DEF Entries
<1>4. <<e>> \in Commits /\ <<e>> # NoCommit BY <1>3 DEF Commits, NoCommit
<1>5. main = <<e>> /\ head = <<e>> BY <1>1, <1>2 DEF Init
<1>6. tree \in Trees /\ tree.stray = {} BY <1>1 DEF Init, Trees
<1>7. NoCommit \in Commits BY DEF NoCommit, Commits
<1>8. localTag \in [Version -> Commits] /\ originTag \in [Version -> Commits]
  BY <1>7 DEF Init
<1>9. /\ built \in [Good -> SUBSET (1..MaxFixes)] /\ live = {}
      /\ sentinel \in Names /\ handed \in Names
      /\ shifted \in BOOLEAN /\ dropped = {}
      /\ fixes = 1 /\ faults = 0
  BY DEF Init, Names
<1>10. pub \in Pubs /\ wf \in Wfs /\ crates \in CrateRuns BY IdleTypes DEF Init
<1>11. 1 \in 1..MaxFixes /\ 0 \in 0..MaxFaults BY SizesAssumption
<1>12. main \in Commits /\ main # NoCommit BY <1>4, <1>5
<1>13. head \in Commits /\ head # NoCommit BY <1>4, <1>5
<1> QED BY <1>6, <1>8, <1>9, <1>10, <1>11, <1>12, <1>13 DEF Types

LEMMA InitOwn == Init => OwnParts
<1> SUFFICES ASSUME Init PROVE OwnParts OBVIOUS
<1>1. Types BY InitTypes
<1>2. PICK z : z = Files(0, 0, 0) OBVIOUS
<1>3. PICK e : e = [fix |-> 1, files |-> z] OBVIOUS
<1>4. main = <<e>> /\ head = <<e>> BY <1>2, <1>3 DEF Init
<1>5. FilesOf(head) = z /\ FilesOf(main) = z BY <1>3, <1>4 DEF FilesOf
<1>6. /\ tree.files = z /\ tree.stray = {} /\ live = {} /\ dropped = {}
      /\ handed = NoVersion /\ sentinel = NoVersion /\ pub.pc = "idle"
      /\ \A v \in Version : localTag[v] = NoCommit /\ originTag[v] = NoCommit
  BY <1>2 DEF Init, PubIdle
<1>7. MainAhead
  <2>1. Len(head) = 1 /\ Len(main) = 1 BY <1>4
  <2>2. 1 + 1..1 = {} OBVIOUS
  <2> QED BY <2>1, <2>2 DEF MainAhead
<1>8. TagsAreOurs BY <1>1, <1>6, PrefixSelf DEF TagsAreOurs, Types
<1>9. WholeBumps BY <1>2, <1>5, <1>6 DEF WholeBumps, Files
<1>10. Unpushed /\ HandedOver /\ GoneForGood
  BY <1>6 DEF Unpushed, HandedOver, GoneForGood
<1>11. FreshRun /\ RunAt BY <1>6 DEF FreshRun, Fresh, RunAt, Bumped, Unbuilt
<1>12. \A v \in Version : ~UnderWay(v) BY <1>6 DEF UnderWay, Started
<1>13. SentinelCovers BY <1>12 DEF SentinelCovers
<1>14. PackagesFirst BY <1>6 DEF PackagesFirst
<1>15. BuiltFrom BY <1>6, <1>12 DEF BuiltFrom, Unprinted
<1>16. SameSource BY <1>6 DEF SameSource
<1> QED BY <1>7, <1>8, <1>9, <1>10, <1>11, <1>13, <1>14, <1>15, <1>16 DEF OwnParts

LEMMA InvIs == ReleaseInv <=> Types /\ OwnParts /\ WorkflowAt /\ CratesAt
BY DEF ReleaseInv, RepoInv, OwnParts

LEMMA InitInv == Init => ReleaseInv
<1>1. Init => WorkflowAt BY DEF Init, WorkflowAt, WfIdle
<1>2. Init => CratesAt BY DEF Init, CratesAt, CrIdle
<1> QED BY <1>1, <1>2, InitTypes, InitOwn, InvIs

\* Everyone but publish.ts and its people leaves the tags and the crates alone.
LEMMA PubStepKeeps ==
  ASSUME Types, OwnParts, PubSteps \/ PubStops
  PROVE  /\ OwnParts' /\ TagsKept /\ CrateItemsKept /\ live \subseteq live'
         /\ UNCHANGED <<wf, crates>>
<1>1. UNCHANGED <<wf, crates>>
  BY DEF PubSteps, PubStops, RemoveStale, BumpCargo, WriteSentinel, BumpLockfile,
         StampChangelog, Fingerprint, CheckAndBuild, TestAndCompare, NpmPublish,
         GitCommit, GitTag, GitPush, RemoveSentinel
<1>2. OwnParts'
  BY RemoveStaleKeeps, BumpCargoKeeps, WriteSentinelKeeps, BumpLockfileKeeps,
     StampChangelogKeeps, FingerprintKeeps, CheckAndBuildKeeps, TestAndCompareKeeps,
     NpmPublishKeeps, GitCommitKeeps, GitTagKeeps, GitPushKeeps, RemoveSentinelKeeps,
     PubStopsKeeps
  DEF PubSteps
<1>3. TagsKept
  <2>1. CASE GitTag BY <2>1, GitTagKeeps
  <2>2. CASE GitPush BY <2>2, GitPushKeeps
  <2>3. CASE UNCHANGED <<localTag, originTag>> BY <2>3 DEF TagsKept
  <2> QED
    BY <2>1, <2>2, <2>3
    DEF PubSteps, PubStops, RemoveStale, BumpCargo, WriteSentinel, BumpLockfile,
        StampChangelog, Fingerprint, CheckAndBuild, TestAndCompare, NpmPublish,
        GitCommit, RemoveSentinel, repo
<1>4. CrateItemsKept /\ live \subseteq live'
  <2>1. CASE UNCHANGED <<live, built>> BY <2>1, SameArtifacts
  <2>2. CASE NpmStep BY <2>2, NpmIs
  <2>3. CASE NpmPublish
    <3>1. NpmStep BY <2>3 DEF NpmPublish, NpmStep, history
    <3> QED BY <2>2, <3>1
  <2>4. CASE PubStops
    <3>1. NpmStep \/ UNCHANGED <<live, built>> BY <2>4 DEF PubStops, NpmStep
    <3> QED BY <2>1, <2>2, <3>1
  <2> QED
    BY <2>1, <2>3, <2>4
    DEF PubSteps, RemoveStale, BumpCargo, WriteSentinel, BumpLockfile,
        StampChangelog, Fingerprint, CheckAndBuild, TestAndCompare,
        GitCommit, GitTag, GitPush, RemoveSentinel
<1> QED BY <1>1, <1>2, <1>3, <1>4

LEMMA StartKeeps ==
  ASSUME Types, OwnParts, Start
  PROVE  /\ OwnParts' /\ TagsKept /\ CrateItemsKept /\ live \subseteq live'
         /\ UNCHANGED <<wf, crates>>
<1>1. UNCHANGED <<repo, live, built, wf, crates>>
  BY DEF Start, StartFresh, StartResume
<1>2. OwnParts' BY StartFreshKeeps, StartResumeKeeps DEF Start
<1>3. TagsKept BY <1>1 DEF repo, TagsKept
<1> QED BY <1>1, <1>2, <1>3, SameArtifacts

LEMMA PeopleKeeps ==
  ASSUME Types, OwnParts, People, ~MoveSite
  PROVE  /\ OwnParts' /\ TagsKept /\ CrateItemsKept /\ live \subseteq live'
         /\ UNCHANGED <<wf, crates>>
<1>1. UNCHANGED <<live, built, wf, crates>>
  BY DEF People, CoworkerPushes, Pull, Edit, CommitFix, DropEdits, Revert, FinalizeByHand
<1>2. OwnParts' /\ TagsKept
  BY CoworkerKeeps, PullKeeps, EditKeeps, CommitFixKeeps, DropEditsKeeps, RevertKeeps,
     FinalizeKeeps
  DEF People
<1> QED BY <1>1, <1>2, SameArtifacts

LEMMA StutterKeeps == ASSUME ReleaseInv, UNCHANGED vars PROVE ReleaseInv'
<1>1. Types /\ OwnParts /\ WorkflowAt /\ CratesAt BY InvIs
<1>2. UNCHANGED <<repo, sentinel, live, built, pub, wf, crates, history>> BY DEF vars
<1>3. WasmKept /\ CrateItemsKept /\ live \subseteq live' BY <1>2, SameArtifacts
<1>4. TagsKept BY <1>2 DEF repo, TagsKept
<1>5. Types' BY <1>1, <1>2 DEF Types, repo, history
<1>6. OwnParts' BY <1>1, <1>2, <1>3, QuietStep DEF history
<1>7. WorkflowAt' /\ CratesAt' BY <1>1, <1>2, <1>3, <1>4, OutsideKept
<1> QED BY <1>5, <1>6, <1>7 DEF ReleaseInv, RepoInv, OwnParts

LEMMA InvStep == ReleaseInv /\ [Next]_vars => ReleaseInv'
<1> SUFFICES ASSUME ReleaseInv, [Next]_vars PROVE ReleaseInv' OBVIOUS
<1>1. Types /\ OwnParts /\ WorkflowAt /\ CratesAt BY InvIs
<1>2. RunAt /\ PackagesFirst BY <1>1 DEF OwnParts
<1>3. ASSUME Types', OwnParts', WorkflowAt', CratesAt' PROVE ReleaseInv'
  BY <1>3 DEF ReleaseInv, RepoInv, OwnParts
<1>4. CASE Start
  <2>1. Types' BY <1>1, <1>4, StartTypes
  <2>2. WorkflowAt' /\ CratesAt' /\ OwnParts' BY <1>1, <1>4, StartKeeps, OutsideKept
  <2> QED BY <1>3, <2>1, <2>2
<1>5. CASE PubSteps \/ PubStops
  <2>1. Types' BY <1>1, <1>2, <1>5, PubStepTypes, PubStopsTypes
  <2>2. WorkflowAt' /\ CratesAt' /\ OwnParts' BY <1>1, <1>5, PubStepKeeps, OutsideKept
  <2> QED BY <1>3, <2>1, <2>2
<1>6. CASE WfSteps \/ WfStops
  <2>1. Types' BY <1>1, <1>6, WfTypes
  <2>2. WorkflowAt' /\ CratesAt' /\ OwnParts' BY <1>1, <1>6, WfKeeps
  <2> QED BY <1>3, <2>1, <2>2
<1>7. CASE CratesSteps \/ CratesStop \/ MoveSite
  <2>1. Types' BY <1>1, <1>7, CratesTypes
  <2>2. WorkflowAt' /\ CratesAt' /\ OwnParts' BY <1>1, <1>7, CratesKeeps
  <2> QED BY <1>3, <2>1, <2>2
<1>8. CASE People /\ ~MoveSite
  <2>1. Types' BY <1>1, <1>8, PeopleTypes
  <2>2. WorkflowAt' /\ CratesAt' /\ OwnParts' BY <1>1, <1>8, PeopleKeeps, OutsideKept
  <2> QED BY <1>3, <2>1, <2>2
<1>9. CASE UNCHANGED vars BY <1>9, StutterKeeps
<1> QED BY <1>4, <1>5, <1>6, <1>7, <1>8, <1>9 DEF Next

\* Whatever stops a run, and whoever works on the repository meanwhile, the
\* release stays resumable, its tags whole and its crates from their tag.
THEOREM ReleaseInvariant == Spec => []ReleaseInv
<1>1. Init => ReleaseInv BY InitInv
<1>2. ReleaseInv /\ [Next]_vars => ReleaseInv' BY InvStep
<1> QED BY <1>1, <1>2, PTL DEF Spec

\* Every variable has a value of its kind, and nothing public is unknown.
THEOREM TypeCorrect == Spec => []TypeOK
<1>1. ReleaseInv => TypeOK
  BY DEF ReleaseInv, RepoInv, Types, TypeOK, Trees, FileSet, Names
<1> QED BY <1>1, ReleaseInvariant, PTL

\* publish.ts: from the first package on npm until the tag is on origin, the
\* next run finds the sentinel and the bump, unless people took over.
THEOREM ReleaseIsResumable == Spec => []SentinelCovers
<1>1. ReleaseInv => SentinelCovers BY DEF ReleaseInv, RepoInv
<1> QED BY <1>1, ReleaseInvariant, PTL

\* What release.yml builds from holds the version's manifest, lockfile and notes.
THEOREM TagsAreReleases == Spec => []TagIsRelease
<1>1. ReleaseInv => TagIsRelease
  BY DEF ReleaseInv, RepoInv, TagsAreOurs, TagIsRelease
<1> QED BY <1>1, ReleaseInvariant, PTL

\* The WASM packages hold the source their tag names, while nobody moves the
\* checkout where publish.ts does not look.
THEOREM PackagesMatchTheTag == Spec => []SameSource
<1>1. ReleaseInv => SameSource BY DEF ReleaseInv
<1> QED BY <1>1, ReleaseInvariant, PTL

\* Every crate on crates.io was built from the commit its version's tag names.
THEOREM CratesMatchTheTag == Spec => []CratesAreTagged
<1>1. ReleaseInv => CratesAreTagged BY DEF ReleaseInv, CratesAt, CratesAreTagged
<1> QED BY <1>1, ReleaseInvariant, PTL

-----------------------------------------------------------------------------
(* The order in which artifacts become public: at most one a step, after    *)
(* those it relies on.                                                      *)

LEMMA ReliesOf ==
  /\ \A i \in Wasm, v \in Version :
        Relies[Item("wasm", i, v)] = {Item("wasm", j, v) : j \in 1..i - 1}
  /\ \A v \in Version : Relies[Item("tag", 0, v)] = WasmOf(v)
  /\ \A i \in Napi, v \in Version : Relies[Item("napi", i, v)] =
        {Item("tag", 0, v)} \cup {Item("napi", j, v) : j \in 1..i - 1}
  /\ \A v \in Version : Relies[Item("github", 0, v)] = NapiOf(v)
  /\ \A c \in Crate, v \in Version : Relies[Item("crate", c, v)] =
        WasmOf(v) \cup {Item("crate", d, v) : d \in Needs[c]}
<1>1. ASSUME NEW i \in Wasm, NEW v \in Version
      PROVE  Relies[Item("wasm", i, v)] = {Item("wasm", j, v) : j \in 1..i - 1}
  <2>1. Item("wasm", i, v) \in Good BY GoodItems
  <2> QED BY <2>1 DEF Relies, Item
<1>2. ASSUME NEW v \in Version PROVE Relies[Item("tag", 0, v)] = WasmOf(v)
  <2>1. Item("tag", 0, v) \in Good BY GoodItems
  <2> QED BY <2>1 DEF Relies, Item
<1>3. ASSUME NEW i \in Napi, NEW v \in Version
      PROVE  Relies[Item("napi", i, v)] =
               {Item("tag", 0, v)} \cup {Item("napi", j, v) : j \in 1..i - 1}
  <2>1. Item("napi", i, v) \in Good BY GoodItems
  <2> QED BY <2>1 DEF Relies, Item
<1>4. ASSUME NEW v \in Version PROVE Relies[Item("github", 0, v)] = NapiOf(v)
  <2>1. Item("github", 0, v) \in Good BY GoodItems
  <2> QED BY <2>1 DEF Relies, Item
<1>5. ASSUME NEW c \in Crate, NEW v \in Version
      PROVE  Relies[Item("crate", c, v)] =
               WasmOf(v) \cup {Item("crate", d, v) : d \in Needs[c]}
  <2>1. Item("crate", c, v) \in Good BY GoodItems
  <2> QED BY <2>1 DEF Relies, Item
<1> QED BY <1>1, <1>2, <1>3, <1>4, <1>5

\* The artifacts and the tags that are public.
Public == live \cup Tags

LEMMA TagsIs == \A v \in Version : Item("tag", 0, v) \in Tags <=> originTag[v] # NoCommit
BY DEF Tags, Item

\* one artifact more, after what it relies on, or none
LEMMA OneMorePublic ==
  ASSUME NEW g \in Good, Relies[g] \subseteq Public, Public' = Public \cup {g}
  PROVE  [Order!Next]_Public
<1>1. CASE g \in Public
  <2>1. Public' = Public BY <1>1
  <2> QED BY <2>1
<1>2. CASE g \notin Public
  BY <1>2 DEF Order!Next, Order!Publish, Public
<1> QED BY <1>1, <1>2

\* a step that publishes `g`, all it relies on being public, and tags nothing
LEMMA ArtifactOut ==
  ASSUME NEW g \in Good, NEW src, Publish(g, src), originTag' = originTag,
         Relies[g] \subseteq Public
  PROVE  [Order!Next]_Public
<1>1. Public' = Public \cup {g} BY DEF Publish, Public, Tags
<1> QED BY <1>1, OneMorePublic

\* a step that moves nothing public
LEMMA NothingOut ==
  ASSUME UNCHANGED live, originTag' = originTag PROVE [Order!Next]_Public
<1>1. Public' = Public BY DEF Public, Tags
<1> QED BY <1>1

\* a push, of the one tag that is not on origin, if there is one
LEMMA TagOut ==
  ASSUME NEW w \in Version, UNCHANGED live, AllOut(w),
         \A v \in Version : v # w => (originTag'[v] # NoCommit <=> originTag[v] # NoCommit),
         originTag[w] # NoCommit => originTag'[w] # NoCommit
  PROVE  [Order!Next]_Public
<1>1. PICK g \in Good : g = Item("tag", 0, w) BY GoodItems
<1>2. CASE (originTag'[w] # NoCommit) <=> (originTag[w] # NoCommit)
  <2>1. \A v \in Version : originTag'[v] # NoCommit <=> originTag[v] # NoCommit
    BY <1>2
  <2>2. Tags' = Tags BY <2>1 DEF Tags
  <2>3. Public' = Public BY <2>2 DEF Public
  <2> QED BY <2>3
<1>3. CASE originTag'[w] # NoCommit /\ originTag[w] = NoCommit
  <2>1. {v \in Version : originTag'[v] # NoCommit}
          = {v \in Version : originTag[v] # NoCommit} \cup {w}
    BY <1>3
  <2>2. Tags' = Tags \cup {g} BY <1>1, <2>1 DEF Tags
  <2>3. Public' = Public \cup {g} BY <2>2 DEF Public
  <2>4. WasmOf(w) \subseteq live BY DEF WasmOf, AllOut
  <2>5. Relies[g] \subseteq Public BY <1>1, <2>4, ReliesOf DEF Public
  <2> QED BY <2>3, <2>5, OneMorePublic
<1> QED BY <1>2, <1>3

LEMMA TaggedIsOut ==
  ASSUME ReleaseInv, NEW v \in Version, localTag[v] # NoCommit \/ originTag[v] # NoCommit
  PROVE  WasmOf(v) \subseteq live
<1>1. localTag[v] # NoCommit BY DEF ReleaseInv, RepoInv, TagsAreOurs
<1>2. AllOut(v) BY <1>1 DEF ReleaseInv, PackagesFirst
<1> QED BY <1>2 DEF WasmOf, AllOut

LEMMA PubOrder ==
  ASSUME ReleaseInv, PubSteps \/ PubStops PROVE [Order!Next]_Public
<1>1. Types /\ OwnParts BY InvIs
<1>2. CASE NpmStep
  <2>1. pub.v \in Version /\ pub.next \in Wasm /\ originTag' = originTag
    BY <1>1, <1>2, NpmIs
  <2>2. PICK g \in Good : g = Item("wasm", pub.next, pub.v) BY <2>1, GoodItems
  <2>3. Relies[g] = {Item("wasm", j, pub.v) : j \in 1..pub.next - 1}
    BY <2>1, <2>2, ReliesOf
  <2>4. \A j \in 1..pub.next - 1 : Item("wasm", j, pub.v) \in live
    BY <1>1, <1>2 DEF OwnParts, PackagesFirst, NpmStep
  <2>5. Relies[g] \subseteq Public BY <2>3, <2>4 DEF Public
  <2> QED BY <1>2, <2>1, <2>2, <2>5, ArtifactOut DEF NpmStep
<1>3. CASE GitPush
  <2>1. /\ pub.pc = "push" /\ PushRefs(head, localTag) /\ UNCHANGED live
    BY <1>3 DEF GitPush
  <2>2. /\ pub.v \in Version /\ AllOut(pub.v) /\ tree.files = Files(pub.v, pub.v, pub.v)
    BY <1>1, <2>1 DEF OwnParts, RunAt, Bumped, PackagesFirst
  <2>3. \A v \in Version : originTag'[v] = localTag[v]
    BY <1>1, <2>1 DEF PushRefs, OwnParts, TagsAreOurs
  <2>4. ASSUME NEW v \in Version, v # pub.v PROVE originTag'[v] = originTag[v]
    <3>1. tree.files # Files(v, v, v) BY <2>2, <2>4 DEF Files
    <3>2. localTag[v] = originTag[v] BY <1>1, <3>1 DEF OwnParts, Unpushed
    <3> QED BY <2>3, <3>2
  <2>5. originTag[pub.v] # NoCommit => originTag'[pub.v] # NoCommit
    BY <1>1, <2>2, <2>3 DEF OwnParts, TagsAreOurs
  <2>6. PICK w \in Version : w = pub.v BY <2>2
  <2> QED BY <2>1, <2>2, <2>4, <2>5, <2>6, TagOut
<1>4. CASE UNCHANGED <<live, originTag>> BY <1>4, NothingOut
<1>5. NpmPublish => NpmStep BY DEF NpmPublish, NpmStep, history
<1>6. PubStops => NpmStep \/ UNCHANGED <<live, originTag>>
  BY SMTT(60) DEF PubStops, NpmStep, repo
<1> QED
  BY <1>2, <1>3, <1>4, <1>5, <1>6
  DEF PubSteps, RemoveStale, BumpCargo, WriteSentinel, BumpLockfile,
      StampChangelog, Fingerprint, CheckAndBuild, TestAndCompare,
      GitCommit, GitTag, RemoveSentinel, repo

LEMMA WfOrder ==
  ASSUME ReleaseInv, WfSteps \/ WfStops PROVE [Order!Next]_Public
<1>1. originTag' = originTag
  BY DEF WfSteps, WfStops, WfStart, WfBuild, WfPublish, WfRelease, Untouched, repo
<1>2. ASSUME wf.pc = "npm", Publish(Item("napi", wf.next, wf.v), WfSource)
      PROVE  [Order!Next]_Public
  <2>1. /\ wf.v \in Version /\ wf.next \in Napi /\ originTag[wf.v] # NoCommit
        /\ \A j \in 1..wf.next - 1 : Item("napi", j, wf.v) \in live
    BY <1>2 DEF ReleaseInv, WorkflowAt
  <2>2. PICK g \in Good : g = Item("napi", wf.next, wf.v) BY <2>1, GoodItems
  <2>3. Relies[g] = {Item("tag", 0, wf.v)} \cup {Item("napi", j, wf.v) : j \in 1..wf.next - 1}
    BY <2>1, <2>2, ReliesOf
  <2>4. Item("tag", 0, wf.v) \in Tags BY <2>1, TagsIs
  <2>5. Relies[g] \subseteq Public BY <2>1, <2>3, <2>4 DEF Public
  <2> QED BY <1>1, <1>2, <2>2, <2>5, ArtifactOut
<1>3. ASSUME wf.pc = "github", Publish(Item("github", 0, wf.v), WfSource)
      PROVE  [Order!Next]_Public
  <2>1. wf.v \in Version /\ NapiOf(wf.v) \subseteq live
    BY <1>3 DEF ReleaseInv, WorkflowAt
  <2>2. PICK g \in Good : g = Item("github", 0, wf.v) BY <2>1, GoodItems
  <2>3. Relies[g] \subseteq Public BY <2>1, <2>2, ReliesOf DEF Public
  <2> QED BY <1>1, <1>3, <2>2, <2>3, ArtifactOut
<1>4. CASE UNCHANGED live BY SMTT(60), <1>1, <1>4, NothingOut
<1> QED BY <1>2, <1>3, <1>4 DEF WfSteps, WfStops, WfStart, WfBuild, WfPublish, WfRelease

LEMMA CratesOrder ==
  ASSUME ReleaseInv, CratesSteps \/ CratesStop \/ MoveSite PROVE [Order!Next]_Public
<1>1. originTag' = originTag
  BY DEF CratesSteps, CratesStop, MoveSite, CratesStart, CargoPublish, CargoDone,
         RateLimited, CratesWake, CargoUpload, repo
<1>2. CASE \E c \in Crate : CargoUpload(c)
  <2>1. PICK c \in Crate : CargoUpload(c) BY <1>2
  <2>2. crates.pc = "upload" /\ crates.v \in Version /\ localTag[crates.v] # NoCommit
    BY <2>1 DEF CargoUpload, ReleaseInv, CratesAt
  <2>3. PICK g \in Good : g = Item("crate", c, crates.v) BY <2>2, GoodItems
  <2>4. Publish(g, crates.src) BY <2>1, <2>3 DEF CargoUpload
  <2>5. WasmOf(crates.v) \subseteq live BY <2>2, TaggedIsOut
  <2>6. \A d \in Needs[c] : d \in Crate \ crates.missing
    BY <2>1, NeedsAssumption DEF CargoUpload
  <2>7. \A d \in Needs[c] : Item("crate", d, crates.v) \in live
    BY <2>2, <2>6 DEF ReleaseInv, CratesAt
  <2>8. Relies[g] \subseteq Public BY <2>2, <2>3, <2>5, <2>7, ReliesOf DEF Public
  <2> QED BY <1>1, <2>4, <2>8, ArtifactOut
<1>3. CASE UNCHANGED live BY <1>1, <1>3, NothingOut
<1> QED BY ZenonT(60), <1>2, <1>3
        DEF CratesSteps, CratesStop, MoveSite, CratesStart, CargoPublish, CargoDone,
            RateLimited, CratesWake

LEMMA PeopleOrder ==
  ASSUME ReleaseInv, People, ~MoveSite PROVE [Order!Next]_Public
<1>1. Types /\ OwnParts BY InvIs
<1>2. CASE FinalizeByHand
  <2>1. /\ handed # NoVersion /\ tree.files = Files(handed, handed, handed)
        /\ UNCHANGED live
        /\ localTag' = IF localTag[handed] = NoCommit
                       THEN [localTag EXCEPT ![handed] = CommitFiles] ELSE localTag
        /\ PushRefs(CommitFiles, localTag')
    BY <1>2 DEF FinalizeByHand
  <2>2. PICK w \in Version : w = handed BY <1>1, <2>1 DEF Types, Names
  <2>3. AllOut(w) BY <1>1, <2>1, <2>2 DEF OwnParts, PackagesFirst
  <2>4. ASSUME NEW v \in Version, v # w PROVE originTag'[v] = originTag[v]
    <3>1. tree.files # Files(v, v, v) BY <2>1, <2>2, <2>4 DEF Files
    <3>2. localTag[v] = originTag[v] BY <1>1, <3>1 DEF OwnParts, Unpushed
    <3>3. localTag'[v] = localTag[v] BY <2>1, <2>2, <2>4 DEF Types
    <3>4. originTag'[v] = originTag[v] \/ originTag'[v] = localTag'[v]
      BY <2>1 DEF PushRefs
    <3> QED BY <3>2, <3>3, <3>4
  <2>5. originTag[w] # NoCommit => originTag'[w] # NoCommit BY <2>1 DEF PushRefs
  <2> QED BY <2>1, <2>3, <2>4, <2>5, TagOut
<1>3. CASE UNCHANGED <<live, originTag>> BY <1>3, NothingOut
<1> QED BY <1>2, <1>3
        DEF People, CoworkerPushes, Pull, Edit, CommitFix, DropEdits, Revert

\* Whatever fails on the way: each artifact becomes public once, is never taken
\* back, and none does before those it relies on.
THEOREM ReleaseImplementsOrder == Spec => ImplementsReleaseOrder
<1>1. Init => Order!Init
  BY DEF Init, Order!Init, Tags
<1>2. ReleaseInv /\ [Next]_vars => [Order!Next]_Public
  <2> SUFFICES ASSUME ReleaseInv, [Next]_vars PROVE [Order!Next]_Public OBVIOUS
  <2>1. CASE UNCHANGED vars BY <2>1, NothingOut DEF vars, repo
  <2>2. CASE Start
    BY <2>2, NothingOut DEF Start, StartFresh, StartResume, repo
  <2> QED BY <2>1, <2>2, PubOrder, WfOrder, CratesOrder, PeopleOrder DEF Next
<1> QED BY <1>1, <1>2, ReleaseInvariant, PTL
        DEF Spec, ImplementsReleaseOrder, Order!Spec, Public
================================================================================
