------------------------------ MODULE Release ------------------------------
(***************************************************************************)
(* A release, end to end: scripts/publish.ts on the maintainer's machine   *)
(* (bump, gates, build, the WASM packages, commit, tag, push), release.yml *)
(* with scripts/publish_napi.ts on the pushed tag, and                     *)
(* scripts/publish_crates.ts after it. Any step may fail or be killed; what*)
(* survives is the checkout, the sentinel file, the tags and the           *)
(* registries, and a later run goes on from those.                         *)
(*                                                                         *)
(* Not modelled: dry runs (they change nothing), refusals that read no     *)
(* modelled state (npm login, missing tools, the branch), --no-check.      *)
(***************************************************************************)
EXTENDS Integers, Sequences, SequencesExt

CONSTANTS
    NumWasm,        \* publish.ts's `packages`, in publish order
    NumPlatforms,   \* the loader's optionalDependencies
    Crate,          \* the publishable crates
    Needs,          \* [Crate -> SUBSET Crate]: normal and build edges
    Burst,          \* NEW_CRATE_BURST
    MaxVersion,     \* bound: versions are 0..MaxVersion, 0 the one before
    MaxFixes,       \* bound: source changes by anyone
    MaxFaults,      \* bound: failed steps, kills, moved checkouts, abandons
    NoGit,          \* the values of --no-git a run may be given
    EditsAt,        \* the states of publish.ts in which the checkout is edited
    PullsAt         \* and those in which somebody pulls into it

ASSUME SizesAssumption ==
    /\ NumWasm \in Nat \ {0} /\ NumPlatforms \in Nat
    /\ MaxVersion \in Nat /\ MaxFixes \in Nat \ {0} /\ MaxFaults \in Nat
ASSUME NeedsAssumption == Needs \in [Crate -> SUBSET Crate]
ASSUME BurstAssumption == Burst \in Nat
ASSUME NoGitAssumption == NoGit \subseteq BOOLEAN

VARIABLES
    main,       \* origin's main, a commit
    head,       \* HEAD of the maintainer's checkout, a commit
    tree,       \* its working tree: the release files and uncommitted edits
    sentinel,   \* the version .publish-in-progress names
    localTag,   \* [Version -> the commit tagged v<version>]
    originTag,
    live,       \* the artifacts on npm, GitHub and crates.io
    pub,        \* the run of publish.ts
    wf,         \* the run of release.yml
    crates,     \* the run of publish_crates.ts, with its own checkout
    built,      \* history: the source each artifact was built from
    shifted,    \* history: the checkout moved where no check looks
    dropped,    \* history: versions whose bump was reverted by hand
    handed,     \* history: the version --no-git left to finalize by hand
    fixes,      \* history: how many source changes anyone has made
    faults      \* history: how many things have gone wrong

repo == <<main, head, tree, localTag, originTag>>
history == <<shifted, dropped, handed, fixes, faults>>
vars == <<repo, sentinel, live, built, pub, wf, crates, history>>

Version   == 1..MaxVersion
NoVersion == -1
Wasm      == 1..NumWasm
Napi      == 1..NumPlatforms + 1    \* the platforms, then the loader

Good == ({"wasm"} \X Wasm \cup {"napi"} \X Napi \cup {"crate"} \X Crate
            \cup {<<"tag", 0>>, <<"github", 0>>}) \X Version
Item(kind, x, v) == <<<<kind, x>>, v>>

(* A commit is the history it ends, each part with the release files the   *)
(* checkout holds by then: source changes, each with its number, leave     *)
(* them alone, and release commits (0) change nothing else.                *)
Files(c, l, n) == [cargo |-> c, lock |-> l, notes |-> n]
NoCommit       == << >>
SourceOf(c)    == {c[i].fix : i \in DOMAIN c} \ {0}
FilesOf(c)     == c[Len(c)].files
Fix(c, k)      == Append(c, [fix |-> k, files |-> FilesOf(c)])
Bump(c, files) == Append(c, [fix |-> 0, files |-> files])

Checkout == SourceOf(head) \cup tree.stray      \* what a build would compile
Started(v) == \E i \in Wasm : Item("wasm", i, v) \in live
AllOut(v)  == \A i \in Wasm : Item("wasm", i, v) \in live

PubIdle == [pc |-> "idle", v |-> NoVersion, all |-> FALSE, noGit |-> FALSE,
            print |-> <<>>, src |-> {}, next |-> 1]
WfIdle  == [pc |-> "idle", v |-> NoVersion, next |-> 1]
CrIdle  == [pc |-> "idle", v |-> NoVersion, site |-> NoCommit, src |-> {},
            missing |-> {}, left |-> 0]

Init ==
    /\ main = <<[fix |-> 1, files |-> Files(0, 0, 0)]>> /\ head = main
    /\ tree = [files |-> Files(0, 0, 0), stray |-> {}]
    /\ sentinel = NoVersion
    /\ localTag = [v \in Version |-> NoCommit] /\ originTag = localTag
    /\ live = {} /\ built = [g \in Good |-> {}]
    /\ pub = PubIdle /\ wf = WfIdle /\ crates = CrIdle
    /\ shifted = FALSE /\ dropped = {} /\ handed = NoVersion
    /\ fixes = 1 /\ faults = 0

-----------------------------------------------------------------------------
(* publish.ts --wetrun.                                                    *)

(* A fresh release: a clean tree exactly at origin's main with notes to    *)
(* stamp, and a target version no tag and no package names yet.            *)
StartFresh(level, noGit) ==
    LET v == tree.files.cargo + level
    IN  /\ pub.pc = "idle"
        /\ sentinel # tree.files.cargo
        /\ v \in Version
        /\ Last(head).fix # 0
        /\ main = head
        /\ tree = [files |-> FilesOf(head), stray |-> {}]
        /\ localTag[v] = NoCommit /\ originTag[v] = NoCommit
        /\ ~Started(v)
        /\ pub' = [PubIdle EXCEPT !.pc = "unstale", !.v = v, !.noGit = noGit]
        /\ dropped' = dropped \ {v}
        /\ UNCHANGED <<repo, sentinel, live, built, wf, crates, shifted, handed, fixes, faults>>

(* mutant: a release commit that was not pushed is somebody's stray commit *)
OwnCommitNever(v) == FALSE

OwnCommit(v) ==
    /\ Len(head) = Len(main) + 1 /\ Front(head) = main
    /\ Last(head).fix = 0 /\ Last(head).files.cargo = v

(* A resumed one: the sentinel names the checkout's version. The tree may  *)
(* hold the bump, HEAD may be the unpushed release commit, and the tag may *)
(* be on HEAD already.                                                     *)
StartResume(noGit) ==
    LET v == sentinel
    IN  /\ pub.pc = "idle"
        /\ v # NoVersion /\ v = tree.files.cargo
        /\ main = head \/ OwnCommit(v)
        /\ tree.stray = {}
        /\ localTag[v] \in {NoCommit, head} /\ originTag[v] \in {NoCommit, head}
        /\ pub' = [PubIdle EXCEPT !.pc = "lock", !.v = v, !.noGit = noGit,
                                  !.all = AllOut(v)]
        /\ UNCHANGED <<repo, sentinel, live, built, wf, crates, history>>

To(pc) == pub' = [pub EXCEPT !.pc = pc]

RemoveStale ==
    /\ pub.pc = "unstale"
    /\ sentinel' = NoVersion
    /\ To("cargo")
    /\ UNCHANGED <<repo, live, built, wf, crates, history>>

BumpCargo ==
    /\ pub.pc = "cargo"
    /\ tree' = [tree EXCEPT !.files.cargo = pub.v]
    /\ To("sentinel")
    /\ UNCHANGED <<main, head, localTag, originTag, sentinel, live, built, wf,
                   crates, history>>

WriteSentinel ==
    /\ pub.pc = "sentinel"
    /\ sentinel' = pub.v
    /\ To("lock")
    /\ UNCHANGED <<repo, live, built, wf, crates, history>>

BumpLockfile ==
    /\ pub.pc = "lock"
    /\ tree' = [tree EXCEPT !.files.lock = pub.v]
    /\ To("stamp")
    /\ UNCHANGED <<main, head, localTag, originTag, sentinel, live, built, wf,
                   crates, history>>

StampChangelog ==
    /\ pub.pc = "stamp"
    /\ tree' = [tree EXCEPT !.files.notes = pub.v]
    /\ To(IF pub.all THEN "finalize" ELSE "print")
    /\ UNCHANGED <<main, head, localTag, originTag, sentinel, live, built, wf,
                   crates, history>>

(* mutant: HEAD and the files the release writes, not the whole diff       *)
FingerprintOfFiles == <<head, tree.files>>

FingerprintOf == <<head, tree>>

Fingerprint ==
    /\ pub.pc = "print"
    /\ pub' = [pub EXCEPT !.pc = "gates", !.print = FingerprintOf]
    /\ UNCHANGED <<repo, sentinel, live, built, wf, crates, history>>

(* Steps 3 to 5: the gates pass, and the packages are built and verified.  *)
CheckAndBuild ==
    /\ pub.pc = "gates"
    /\ pub' = [pub EXCEPT !.pc = "test", !.src = Checkout]
    /\ UNCHANGED <<repo, sentinel, live, built, wf, crates, history>>

(* Step 6: a checkout that moved since the fingerprint refuses.            *)
TestAndCompare ==
    /\ pub.pc = "test"
    /\ pub' = IF pub.print = FingerprintOf
              THEN [pub EXCEPT !.pc = "npm"] ELSE PubIdle
    /\ UNCHANGED <<repo, sentinel, live, built, wf, crates, history>>

(* `g` is public from now on, if it was not already; `src` is what it      *)
(* holds.                                                                  *)
Publish(g, src) ==
    /\ live' = live \cup {g}
    /\ built' = IF g \in live THEN built ELSE [built EXCEPT ![g] = src]

NpmPublish ==
    /\ pub.pc = "npm"
    /\ Publish(Item("wasm", pub.next, pub.v), pub.src)
    /\ pub' = IF pub.next < NumWasm THEN [pub EXCEPT !.next = @ + 1]
              ELSE [pub EXCEPT !.pc = "finalize"]
    /\ UNCHANGED <<repo, sentinel, wf, crates, history>>

(* mutant: the lockfile is not staged                                      *)
CommitFilesUnlocked ==
    IF tree.files = FilesOf(head) THEN head
    ELSE Bump(head, [tree.files EXCEPT !.lock = FilesOf(head).lock])

CommitFiles == IF tree.files = FilesOf(head) THEN head
               ELSE Bump(head, tree.files)

(* mutant: the sentinel goes with the commit                               *)
GitCommitUnsentinel ==
    /\ pub.pc = "finalize"
    /\ head' = IF pub.noGit THEN head ELSE CommitFiles
    /\ sentinel' = IF pub.noGit THEN sentinel ELSE NoVersion
    /\ To(IF pub.noGit THEN "unsentinel" ELSE "tag")
    /\ UNCHANGED <<main, tree, localTag, originTag, live, built, wf, crates,
                   history>>

GitCommit ==
    /\ pub.pc = "finalize"
    /\ head' = IF pub.noGit THEN head ELSE CommitFiles
    /\ To(IF pub.noGit THEN "unsentinel" ELSE "tag")
    /\ UNCHANGED <<main, tree, localTag, originTag, sentinel, live, built, wf,
                   crates, history>>

GitTag ==
    /\ pub.pc = "tag"
    /\ localTag' = IF localTag[pub.v] = NoCommit
                   THEN [localTag EXCEPT ![pub.v] = head] ELSE localTag
    /\ To("push")
    /\ UNCHANGED <<main, head, tree, originTag, sentinel, live, built, wf,
                   crates, history>>

(* git push --follow-tags: origin takes each ref on its own, main only if  *)
(* it moves forward, and every missing tag that `h` reaches.               *)
PushRefs(h, tags) ==
    /\ main' = IF IsPrefix(main, h) THEN h ELSE main
    /\ originTag' = [v \in Version |->
           IF originTag[v] = NoCommit /\ IsPrefix(tags[v], h) THEN tags[v]
           ELSE originTag[v]]

GitPush ==
    /\ pub.pc = "push"
    /\ PushRefs(head, localTag)
    /\ pub' = IF IsPrefix(main, head) THEN [pub EXCEPT !.pc = "unsentinel"]
              ELSE PubIdle
    /\ UNCHANGED <<head, tree, localTag, sentinel, live, built, wf, crates, history>>

RemoveSentinel ==
    /\ pub.pc = "unsentinel"
    /\ sentinel' = NoVersion
    /\ handed' = IF pub.noGit THEN pub.v ELSE handed
    /\ pub' = PubIdle
    /\ UNCHANGED <<repo, live, built, wf, crates, shifted, dropped, fixes, faults>>

(* A step fails, or the process dies before it: the run is over. What it   *)
(* was uploading may have arrived all the same.                            *)
PubStops ==
    /\ pub.pc # "idle" /\ faults < MaxFaults
    /\ pub' = PubIdle /\ faults' = faults + 1
    /\ \/ UNCHANGED <<live, built>>
       \/ pub.pc = "npm" /\ Publish(Item("wasm", pub.next, pub.v), pub.src)
    /\ UNCHANGED <<repo, sentinel, wf, crates, shifted, dropped, handed, fixes>>

PubSteps ==
    \/ RemoveStale \/ BumpCargo \/ WriteSentinel \/ BumpLockfile
    \/ StampChangelog \/ Fingerprint \/ CheckAndBuild \/ TestAndCompare
    \/ NpmPublish \/ GitCommit \/ GitTag \/ GitPush \/ RemoveSentinel

Start == \E noGit \in NoGit :
            StartResume(noGit) \/ \E level \in 1..MaxVersion : StartFresh(level, noGit)

-----------------------------------------------------------------------------
(* release.yml, which a v* tag starts and a dispatch on the tag repeats.   *)

Untouched == <<sentinel, repo, pub, crates>>

WfStart(v) ==
    /\ wf.pc = "idle"
    /\ originTag[v] # NoCommit
    /\ Item("github", 0, v) \notin live
    /\ wf' = [WfIdle EXCEPT !.pc = "build", !.v = v]
    /\ UNCHANGED <<Untouched, live, built, history>>

(* Every row of the matrix is built and staged, at the version of the tag; *)
(* a partial set publishes nothing.                                        *)
WfBuild ==
    /\ wf.pc = "build"
    /\ wf' = IF FilesOf(originTag[wf.v]).cargo = wf.v
             THEN [wf EXCEPT !.pc = "npm"] ELSE WfIdle
    /\ UNCHANGED <<Untouched, live, built, history>>

WfSource == SourceOf(originTag[wf.v])

(* publish_napi.ts: the platforms, then the loader that resolves them.     *)
(* mutant: the loader goes first                                           *)
WfPublishLoaderFirst ==
    /\ wf.pc = "npm"
    /\ Publish(Item("napi", NumPlatforms + 2 - wf.next, wf.v), WfSource)
    /\ wf' = IF wf.next <= NumPlatforms THEN [wf EXCEPT !.next = @ + 1]
             ELSE [wf EXCEPT !.pc = "github"]
    /\ UNCHANGED <<Untouched, history>>

WfPublish ==
    /\ wf.pc = "npm"
    /\ Publish(Item("napi", wf.next, wf.v), WfSource)
    /\ wf' = IF wf.next <= NumPlatforms THEN [wf EXCEPT !.next = @ + 1]
             ELSE [wf EXCEPT !.pc = "github"]
    /\ UNCHANGED <<Untouched, history>>

(* The GitHub Release, from the assets on npm and the stamped notes.       *)
WfRelease ==
    /\ wf.pc = "github"
    /\ wf' = WfIdle
    /\ IF FilesOf(originTag[wf.v]).notes = wf.v
       THEN Publish(Item("github", 0, wf.v), WfSource)
       ELSE UNCHANGED <<live, built>>
    /\ UNCHANGED <<Untouched, history>>

WfStops ==
    /\ wf.pc # "idle" /\ faults < MaxFaults
    /\ wf' = WfIdle /\ faults' = faults + 1
    /\ \/ UNCHANGED <<live, built>>
       \/ wf.pc = "npm" /\ Publish(Item("napi", wf.next, wf.v), WfSource)
    /\ UNCHANGED <<Untouched, shifted, dropped, handed, fixes>>

WfSteps == (\E v \in Version : WfStart(v)) \/ WfBuild \/ WfPublish \/ WfRelease

-----------------------------------------------------------------------------
(* publish_crates.ts --wetrun --wait, from a clean checkout of the tag.    *)

IsNew(c)   == \A v \in Version : Item("crate", c, v) \notin live
Missing(v) == {c \in Crate : Item("crate", c, v) \notin live}
\* mutant: the checkout was on the tag when the run started
OnTagAtStart == TRUE
OnTag      == crates.site = localTag[crates.v]

(* The maintainer checks the tag out; the registry is read, and the        *)
(* public-API gate passes.                                                 *)
CratesStart(v) ==
    /\ crates.pc = "idle"
    /\ localTag[v] # NoCommit /\ FilesOf(localTag[v]).cargo = v
    /\ Missing(v) # {}
    /\ crates' = [CrIdle EXCEPT !.pc = "ask", !.v = v, !.site = localTag[v],
                                !.missing = Missing(v), !.left = Burst]
    /\ UNCHANGED <<repo, sentinel, live, built, pub, wf, history>>

(* The checkout is asked for again, and cargo packages all it is to upload.*)
CargoPublish ==
    /\ crates.pc = "ask"
    /\ crates' = IF OnTag
                 THEN [crates EXCEPT !.pc = "upload", !.src = SourceOf(crates.site)]
                 ELSE CrIdle
    /\ UNCHANGED <<repo, sentinel, live, built, pub, wf, history>>

(* cargo uploads a crate after those it depends on, while crates.io admits *)
(* it.                                                                     *)
CargoUpload(c) ==
    /\ crates.pc = "upload" /\ c \in crates.missing
    /\ Needs[c] \cap crates.missing = {}
    /\ IsNew(c) => crates.left > 0
    /\ Publish(Item("crate", c, crates.v), crates.src)
    /\ crates' = [crates EXCEPT !.missing = @ \ {c},
                                !.left = IF IsNew(c) THEN @ - 1 ELSE @]
    /\ UNCHANGED <<repo, sentinel, pub, wf, history>>

CargoDone ==
    /\ crates.pc = "upload" /\ crates.missing = {}
    /\ crates' = CrIdle
    /\ UNCHANGED <<repo, sentinel, live, built, pub, wf, history>>

(* The rate limit: the run sleeps until crates.io's time, reads the        *)
(* registry again and goes on from what is live.                           *)
RateLimited ==
    /\ crates.pc = "upload" /\ crates.left = 0
    /\ \E c \in crates.missing : IsNew(c) /\ Needs[c] \cap crates.missing = {}
    /\ crates' = [crates EXCEPT !.pc = "asleep"]
    /\ UNCHANGED <<repo, sentinel, live, built, pub, wf, history>>

CratesWake ==
    /\ crates.pc = "asleep"
    /\ crates' = IF Missing(crates.v) = {} THEN CrIdle
                 ELSE [crates EXCEPT !.pc = "ask", !.missing = Missing(crates.v),
                                     !.left = 1]
    /\ UNCHANGED <<repo, sentinel, live, built, pub, wf, history>>

CratesStop ==
    /\ crates.pc # "idle" /\ faults < MaxFaults
    /\ crates' = CrIdle /\ faults' = faults + 1
    /\ UNCHANGED <<repo, sentinel, live, built, pub, wf, shifted, dropped, handed, fixes>>

(* The checkout the crates publish from is moved on to main meanwhile.     *)
MoveSite ==
    /\ crates.pc \in {"ask", "asleep"} /\ faults < MaxFaults
    /\ crates.site # main
    /\ crates' = [crates EXCEPT !.site = main]
    /\ faults' = faults + 1
    /\ UNCHANGED <<repo, sentinel, live, built, pub, wf, shifted, dropped, handed, fixes>>

CratesSteps ==
    \/ \E v \in Version : CratesStart(v)
    \/ CargoPublish \/ CargoDone \/ RateLimited \/ CratesWake
    \/ \E c \in Crate : CargoUpload(c)

-----------------------------------------------------------------------------
(* What people do to the repository meanwhile.                             *)

(* A version is under way: some package is public, the tag is not.         *)
UnderWay(v) == Started(v) /\ originTag[v] = NoCommit /\ v \notin dropped
(* The packages are built, and nothing looks at the checkout any more.     *)
Unwatched   == pub.pc \in {"npm", "finalize"}
(* The tree has been found clean, and is not fingerprinted yet.            *)
Unprinted   == pub.pc \in {"unstale", "cargo", "sentinel", "lock", "stamp", "print"}

CoworkerPushes ==
    /\ fixes < MaxFixes /\ fixes' = fixes + 1
    /\ main' = Fix(main, fixes')
    /\ UNCHANGED <<head, tree, localTag, originTag, sentinel, live, built, pub,
                   wf, crates, shifted, dropped, handed, faults>>

MoveHead(h) ==
    /\ head' = h
    /\ shifted' = (shifted \/ Unwatched \/ \E v \in Version : UnderWay(v))

Pull ==
    /\ pub.pc \in PullsAt
    /\ head # main /\ IsPrefix(head, main)
    /\ MoveHead(main)
    /\ UNCHANGED <<main, tree, localTag, originTag, sentinel, live, built, pub,
                   wf, crates, dropped, handed, fixes, faults>>

Edit ==
    /\ pub.pc \in EditsAt
    /\ fixes < MaxFixes /\ fixes' = fixes + 1
    /\ tree' = [tree EXCEPT !.stray = @ \cup {fixes'}]
    /\ shifted' = (shifted \/ Unprinted)
    /\ UNCHANGED <<main, head, localTag, originTag, sentinel, live, built, pub,
                   wf, crates, dropped, handed, faults>>

(* "Commit the fix": and push it, which is what makes a resume take it.    *)
CommitFix ==
    /\ pub.pc = "idle" /\ head = main
    /\ \E k \in tree.stray :
        /\ tree' = [tree EXCEPT !.stray = @ \ {k}]
        /\ MoveHead(Fix(head, k))
    /\ main' = head'
    /\ UNCHANGED <<localTag, originTag, sentinel, live, built, pub, wf, crates,
                   dropped, handed, fixes, faults>>

DropEdits ==
    /\ pub.pc = "idle" /\ tree.stray # {}
    /\ tree' = [tree EXCEPT !.stray = {}]
    /\ UNCHANGED <<main, head, localTag, originTag, sentinel, live, built, pub,
                   wf, crates, history>>

(* The release files are put back as HEAD has them: the way out of a bump  *)
(* that no sentinel names, and how a release is given up.                  *)
Torn == /\ tree.files # FilesOf(head)
        /\ tree.files.cargo \notin {sentinel, handed}
Revert ==
    /\ pub.pc = "idle"
    /\ tree.files # FilesOf(head)
    /\ \/ Torn /\ faults' = faults
       \/ ~Torn /\ faults < MaxFaults /\ faults' = faults + 1
    /\ tree' = [tree EXCEPT !.files = FilesOf(head)]
    /\ dropped' = dropped \cup {tree.files.cargo}
    /\ handed' = NoVersion
    /\ UNCHANGED <<main, head, localTag, originTag, sentinel, live, built, pub,
                   wf, crates, shifted, fixes>>

(* What --no-git prints instead of Step 8, typed in by hand while the tree *)
(* still holds the bump it was printed for.                                *)
FinalizeByHand ==
    /\ pub.pc = "idle" /\ handed # NoVersion
    /\ tree.files = Files(handed, handed, handed)
    /\ tree.stray = {} /\ IsPrefix(main, head)
    /\ head' = CommitFiles
    /\ localTag' = IF localTag[handed] = NoCommit
                   THEN [localTag EXCEPT ![handed] = CommitFiles] ELSE localTag
    /\ PushRefs(CommitFiles, localTag')
    /\ handed' = NoVersion
    /\ UNCHANGED <<tree, sentinel, live, built, pub, wf, crates, shifted,
                   dropped, fixes, faults>>

People == \/ CoworkerPushes \/ Pull \/ Edit \/ CommitFix \/ DropEdits
          \/ Revert \/ FinalizeByHand \/ MoveSite

-----------------------------------------------------------------------------
Next ==
    \/ Start \/ PubSteps \/ PubStops
    \/ WfSteps \/ WfStops
    \/ CratesSteps \/ CratesStop
    \/ People

Spec == Init /\ [][Next]_vars

(* Steps that nothing stops are taken, and the maintainer does not give    *)
(* up: starts the scripts again, pulls, clears the tree.                   *)
Fairness ==
    /\ WF_vars(PubSteps) /\ WF_vars(Start)
    /\ WF_vars(WfSteps) /\ WF_vars(CratesSteps)
    /\ WF_vars(Pull) /\ WF_vars(DropEdits) /\ WF_vars(FinalizeByHand)
    /\ WF_vars(Revert /\ Torn)

FairSpec == Spec /\ Fairness

-----------------------------------------------------------------------------
(* Every variable has a value of its kind, and a commit's changes are its  *)
(* own: no fix twice.                                                      *)
TypeOK ==
    /\ tree.files \in [cargo: 0..MaxVersion, lock: 0..MaxVersion, notes: 0..MaxVersion]
    /\ tree.stray \subseteq 1..MaxFixes
    /\ sentinel \in Version \cup {NoVersion}
    /\ handed \in Version \cup {NoVersion}
    /\ live \subseteq Good
    /\ built \in [Good -> SUBSET (1..MaxFixes)]
    /\ faults \in 0..MaxFaults

(* publish.ts's "any later failure is resumable": from the first package   *)
(* on npm until its tag reaches origin, the next run finds the sentinel and*)
(* the bump and resumes that version, whatever stopped the last one, unless*)
(* somebody gave the version up or took the finalize over.                 *)
SentinelCovers ==
    \A v \in Version : UnderWay(v) =>
        handed = v \/ (sentinel = v /\ tree.files.cargo = v)

(* What release.yml and the GitHub Release build from: a tag on origin is  *)
(* on a commit that holds that version's manifest, lockfile and notes.     *)
TagIsRelease ==
    \A v \in Version : originTag[v] # NoCommit =>
        FilesOf(originTag[v]) = Files(v, v, v)

(* "The wasm and napi artifacts would be built from different source" is   *)
(* kept out, as long as the checkout moves only where publish.ts looks: its*)
(* packages hold the source the tag names.                                 *)
SameSource ==
    ~shifted => \A v \in Version, i \in Wasm :
        Item("wasm", i, v) \in live /\ originTag[v] # NoCommit
            => built[Item("wasm", i, v)] = SourceOf(originTag[v])

(* The same whatever moves, as publish.ts's comment on "Git cleanliness"   *)
(* says of a fix that is committed before the resume.                      *)
OneSource ==
    \A v \in Version, i \in Wasm :
        Item("wasm", i, v) \in live /\ originTag[v] # NoCommit
            => built[Item("wasm", i, v)] = SourceOf(originTag[v])

(* publish_crates.ts's "a publish from any other commit would put source   *)
(* the release never had on crates.io": every crate is built from the      *)
(* commit its version's tag names, a sleep at the rate limit included.     *)
CratesAreTagged ==
    \A v \in Version, c \in Crate :
        Item("crate", c, v) \in live
            => built[Item("crate", c, v)] = SourceOf(localTag[v])

(* The order artifacts become public in: the WASM packages, the tag, the   *)
(* platforms before the loader, the GitHub Release; a crate after those it *)
(* needs; nothing twice, nothing taken back.                               *)
WasmOf(v) == {Item("wasm", i, v) : i \in Wasm}
NapiOf(v) == {Item("napi", i, v) : i \in Napi}
Relies == [g \in Good |->
    LET kind == g[1][1]  x == g[1][2]  v == g[2]
    IN  CASE kind = "wasm"   -> {Item("wasm", i, v) : i \in 1..x - 1}
          [] kind = "tag"    -> WasmOf(v)
          [] kind = "napi"   -> {Item("tag", 0, v)} \cup {Item("napi", i, v) : i \in 1..x - 1}
          [] kind = "github" -> NapiOf(v)
          [] OTHER           -> WasmOf(v) \cup {Item("crate", c, v) : c \in Needs[x]}]
Tags == {Item("tag", 0, v) : v \in {w \in Version : originTag[w] # NoCommit}}

Order == INSTANCE ReleaseOrder WITH public <- live \cup Tags
ImplementsReleaseOrder == Order!Spec

(* A release is brought out in full, whatever stops its runs: unless the   *)
(* maintainer gives up a version that is partly public, or main diverges,  *)
(* which publish.ts calls "no longer recoverable by re-running".           *)
Out(v)   == {g \in Good : g[2] = v} \subseteq live \cup Tags
Diverged == ~IsPrefix(main, head) /\ ~IsPrefix(head, main)
GivenUp  == \E v \in dropped : Started(v)
EventuallyOut == <>(Diverged \/ GivenUp \/ \E v \in Version : Out(v))

=============================================================================
