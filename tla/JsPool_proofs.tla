---------------------------- MODULE JsPool_proofs ----------------------------
(***************************************************************************)
(* What the JavaScript command line's pool does on every list of files,    *)
(* for every width of the pool, and whatever becomes of its workers: the   *)
(* outcome it settles on for a file is true of the disk, and is the one a  *)
(* worker would give, unless a mishap of this run excuses another.         *)
(***************************************************************************)
EXTENDS JsPool, FiniteSetTheorems, TLAPS

---------------------------------------------------------------------------
(* The invariant *)

Deaths == {"threw", "killed"}
Places == DOMAIN main.files
Placed(i, f) == i \in Places /\ main.files[i] = f

Mains ==
    [phase : {"route", "spawn", "await", "sequential", "passed", "done"},
     pass : Passes, jobs : Workers, files : Seq(Files), outcomes : Seq(Kinds),
     kept : Seq(Kinds), onMain : BOOLEAN, next : Nat, status : 0..2]

Types ==
    /\ engine \in {"wasm", "napi"} /\ check \in BOOLEAN
    /\ source \in [Files -> Contents] /\ touched \subseteq Files /\ torn \subseteq touched
    /\ unsound \subseteq Workers \cup {Main}
    /\ cursor \in Nat
    /\ worker \in [Workers -> WorkerStates]
    /\ mishaps \subseteq {"refused", "threw", "killed", "unrecovered"} \X Passes
    /\ main \in Mains

(* What this run writes are files that need it, and nothing under --check;  *)
(* an engine left unsound is on record.                                     *)
Disk ==
    /\ \A f \in touched : source[f] \in {"unformatted", "deep"}
    /\ check => touched = {}
    /\ unsound # {} => Happened({"unrecovered"}, Passes)

(* Where a pass stands: the list of each pass, and who is up in each phase. *)
Course ==
    /\ main.pass = 1 => main.files = [i \in Files |-> i]
    /\ \A i, j \in Places : main.files[i] = main.files[j] => i = j
    /\ Len(main.files) > 0 /\ Places \subseteq Files
    /\ main.phase # "done" => DOMAIN main.outcomes = Places
    /\ main.phase \in {"route", "spawn", "await"} =>
          /\ main.next = 1
          /\ main.pass = 1 => ~main.onMain
    /\ main.pass = 2 => main.onMain
    /\ main.phase = "route" => main.pass = 1 /\ Up = {}
    /\ main.phase = "spawn" => \E k \in 0..(main.jobs - 1) : Up = 1..k
    /\ main.phase = "await" => Up # {}
    /\ main.phase \in {"route", "sequential", "passed", "done"} =>
          \A w \in Workers : worker[w].at \in {"none", "gone"}
    /\ main.phase = "sequential" =>
          /\ main.next \in Places
          /\ main.pass = 1 /\ main.next > 1 => main.onMain
          /\ main.pass = 2 => Happened({"refused", "threw", "killed"}, {2})

(* What a thread answers for a file, against the disk. *)
Told(f, k) ==
    /\ k \in {"unchanged", "changed", "error", "overflow", "unwritten"}
    /\ k = "unchanged" => source[f] = "formatted"
    /\ k \in {"changed", "unwritten"} => source[f] \in {"unformatted", "deep"}
    /\ f \in touched <=> (k = "changed" /\ ~check) \/ f \in torn
    /\ f \in torn => k = "unwritten"
    /\ \/ k \in Deserved(f)
       \/ k = "unwritten" /\ "changed" \in Deserved(f) /\ ~check
       \/ k = "error" /\ Happened({"unrecovered"}, Passes)
       \/ k = "overflow" /\ source[f] = "deep"

\* what a worker answers: its stack holds what only the main thread's overflows
ToldByWorker(f, k) == Told(f, k) /\ ~(k = "overflow" /\ source[f] = "deep")

Stranded(f) ==
    /\ Happened(Deaths, Passes)
    /\ f \in touched => Happened({"killed"}, Passes)

AccountedFor(f, k) == Told(f, k) \/ (k = "stranded" /\ Stranded(f))

\* a file that is too deep stays one only if the second pass had no worker for it
DeepIsExcused(f, k) ==
    k = "overflow" /\ source[f] = "deep" => Happened({"refused", "threw", "killed"}, {2})

Claimed(w, i) == worker[w].at = "formatting" /\ worker[w].index = i
Reported(i) == \E w \in Workers, k \in Kinds : <<i, k>> \in worker[w].results

(* A file being formatted is that worker's alone and still untouched. *)
ClaimsAreApart ==
    \A w \in Workers, i \in Files, f \in Files : Claimed(w, i) /\ f = main.files[i] =>
        /\ i <= cursor /\ f \notin touched /\ ~Reported(i)
        /\ \A v \in Workers : Claimed(v, i) => v = w

ClaimsArePlaces ==
    \A w \in Workers : worker[w].at = "formatting" => worker[w].index \in Places

(* What the workers hold is true, and holds every file written so far. *)
ResultsAreTrue ==
    /\ \A w \in Workers, i \in Files, k \in Kinds : <<i, k>> \in worker[w].results =>
          i \in Places /\ i <= cursor
    /\ \A w \in Workers, i \in Files, k \in Kinds, f \in Files :
          <<i, k>> \in worker[w].results /\ Placed(i, f) => ToldByWorker(f, k)
    /\ \A i \in Files, f \in touched : Placed(i, f) => Reported(i)

\* a claimed file is in hand, or reported, or was lost with its worker
NoneIsLost ==
    \A i \in Places : i <= cursor =>
        \/ \E w \in Workers : Claimed(w, i)
        \/ Reported(i)
        \/ Happened(Deaths, Passes)

\* what is left to hear of a worker that is gone
LastWords(w) ==
    \/ \E e \in {"error", "exit"} :
          worker[w].inbox = <<Message(worker[w].results), Ended(e)>> /\ ~worker[w].settled
    \/ \E e \in {"error", "exit"} : worker[w].inbox = <<Ended(e)>> /\ ~worker[w].settled
    \/ worker[w].inbox = <<>> /\ worker[w].settled

\* the report of a worker that is gone has arrived
Arrived(w) ==
    \A i \in Files, k \in Kinds : <<i, k>> \in worker[w].results => main.outcomes[i] # "unset"

Heard ==
    /\ \A w \in Workers :
          /\ worker[w].at # "gone" => worker[w].inbox = <<>> /\ ~worker[w].settled
          /\ worker[w].at \in {"none", "loading"} => worker[w].results = {}
          /\ worker[w].at = "gone" =>
                /\ LastWords(w)
                /\ cursor > Len(main.files) \/ Happened(Deaths, {main.pass})
                /\ Len(worker[w].inbox) < 2 => Happened({"killed"}, Passes) \/ Arrived(w)
    /\ \A i \in Places : main.outcomes[i] # "unset" =>
          \E w \in Workers : <<i, main.outcomes[i]>> \in worker[w].results

Pool ==
    main.phase \in {"route", "spawn", "await"} =>
        ClaimsAreApart /\ ClaimsArePlaces /\ ResultsAreTrue /\ NoneIsLost /\ Heard

Here ==
    main.phase = "sequential" =>
        \A i \in Files, f \in Files : Placed(i, f) =>
            /\ i < main.next => \A k \in Kinds : k = main.outcomes[i] => Told(f, k)
            /\ i >= main.next => f \notin touched

Passed ==
    main.phase = "passed" =>
        \A i \in Files, f \in Files, k \in Kinds : Placed(i, f) /\ k = main.outcomes[i] =>
            /\ AccountedFor(f, k)
            /\ main.pass = 2 \/ ~main.onMain => DeepIsExcused(f, k)

(* The outcomes of the first pass, which the second leaves alone but for    *)
(* the overflows.                                                           *)
Kept ==
    main.pass = 2 /\ main.phase # "done" =>
        /\ DOMAIN main.kept = Files
        /\ \A f \in Files : main.kept[f] = "overflow" <=> \E i \in Files : Placed(i, f)
        /\ \A f \in Files, k \in Kinds : k = main.kept[f] /\ k # "overflow" => AccountedFor(f, k)

Concluded ==
    main.phase = "done" =>
        /\ DOMAIN main.outcomes = Files
        /\ \A f \in Files, k \in Kinds : k = main.outcomes[f] => AccountedFor(f, k) /\ DeepIsExcused(f, k)
        /\ main.status = 0 => \A f \in Files :
              main.outcomes[f] = "unchanged" \/ (main.outcomes[f] = "changed" /\ ~check)

JsInv == Types /\ Disk /\ Course /\ Pool /\ Here /\ Passed /\ Kept /\ Concluded

---------------------------------------------------------------------------
(* What a step leaves as it was *)

LEMMA HappenedStays ==
    ASSUME mishaps \subseteq mishaps', NEW what, NEW passes
    PROVE  Happened(what, passes) => Happened(what, passes)'
BY DEF Happened

(* What was said of a file stays true while nobody writes the file. *)
LEMMA VerdictStays ==
    ASSUME source' = source, check' = check, mishaps \subseteq mishaps',
           NEW f, NEW k, f \in touched' <=> f \in touched, f \in torn' <=> f \in torn
    PROVE  /\ Told(f, k) => Told(f, k)'
           /\ ToldByWorker(f, k) => ToldByWorker(f, k)'
           /\ AccountedFor(f, k) => AccountedFor(f, k)'
           /\ DeepIsExcused(f, k) => DeepIsExcused(f, k)'
<1>1. Told(f, k) => Told(f, k)'
  <2>1. \A what, passes : Happened(what, passes) => Happened(what, passes)'
    BY DEF Happened
  <2>2. Deserved(f)' = Deserved(f)
    BY DEF Deserved
  <2> QED  BY <2>1, <2>2 DEF Told
<1>2. ToldByWorker(f, k) => ToldByWorker(f, k)'
  BY <1>1 DEF ToldByWorker
<1>3. AccountedFor(f, k) => AccountedFor(f, k)'
  <2>1. Stranded(f) => Stranded(f)'
    BY DEF Stranded, Happened
  <2> QED  BY <1>1, <2>1 DEF AccountedFor
<1>4. DeepIsExcused(f, k) => DeepIsExcused(f, k)'
  BY DEF DeepIsExcused, Happened
<1> QED  BY <1>1, <1>2, <1>3, <1>4

(* A file that was not written yet is formatted: what is answered is true of *)
(* the disk afterwards, and no other file is touched.                        *)
LEMMA FormattingTells ==
    ASSUME Types, Disk, UNCHANGED run, main'.pass \in Passes,
           NEW f \in Files, f \notin touched, NEW t \in Workers \cup {Main}, NEW kind,
           FormatOne(f, t, kind)
    PROVE  /\ Told(f, kind)'
           /\ t # Main => ToldByWorker(f, kind)'
           /\ Disk'
           /\ touched' \subseteq Files /\ torn' \subseteq touched'
           /\ unsound' \subseteq Workers \cup {Main}
           /\ \A g : g # f => (g \in touched' <=> g \in touched) /\ (g \in torn' <=> g \in torn)
           /\ mishaps \subseteq mishaps'
           /\ mishaps' \subseteq {"refused", "threw", "killed", "unrecovered"} \X Passes
           /\ kind \in Kinds /\ kind # "unset"
<1> USE DEF run
<1> DEFINE Told4 == {"unchanged", "changed", "error", "overflow"}
<1>1. main.pass \in Passes
  BY DEF Types, Mains
<1>2. /\ mishaps \subseteq mishaps'
      /\ mishaps' \subseteq {"refused", "threw", "killed", "unrecovered"} \X Passes
      /\ unsound' \subseteq Workers \cup {Main}
      /\ unsound' # {} => Happened({"unrecovered"}, Passes)'
  <2>1. CASE unsound' = unsound /\ mishaps' = mishaps
    BY <2>1 DEF Types, Disk, Happened
  <2>2. CASE unsound' = unsound \cup {t} /\ mishaps' = mishaps \cup {<<"unrecovered", main.pass>>}
    <3> DEFINE m == <<"unrecovered", main.pass>>
    <3>1. m \in mishaps' /\ m[1] \in {"unrecovered"} /\ m[2] \in Passes
      BY <1>1, <2>2
    <3>2. Happened({"unrecovered"}, Passes)'
      BY <3>1 DEF Happened
    <3>3. m \in {"refused", "threw", "killed", "unrecovered"} \X Passes
      BY <1>1
    <3> QED  BY <2>2, <3>2, <3>3 DEF Types
  <2> QED  BY <2>1, <2>2 DEF FormatOne, Recover
<1>3. source[f] \in Contents
  BY DEF Types
<1>4. ASSUME NEW k \in Answers(f, t)
      PROVE  /\ k \in Told4
             /\ k = "unchanged" => source[f] = "formatted"
             /\ k = "changed" => source[f] \in {"unformatted", "deep"} /\ "changed" \in Deserved(f)
             /\ \/ k \in Deserved(f)
                \/ k = "error" /\ t \in unsound
                \/ k = "overflow" /\ source[f] = "deep" /\ t = Main
  <2>1. Formatted(f) = {"changed"}
    BY DEF Formatted, Types
  <2>2. CASE k \in Verdicts(f, t)
    BY <1>3, <2>1, <2>2 DEF Verdicts, Deserved, Contents
  <2>3. CASE k \notin Verdicts(f, t)
    BY <2>3 DEF Answers
  <2> QED  BY <2>2, <2>3
<1>5. /\ f \in touched' <=> (kind = "changed" /\ ~check) \/ f \in torn'
      /\ f \in torn' => kind = "unwritten"
      /\ touched' \subseteq Files /\ torn' \subseteq touched'
      /\ \A g : g # f => (g \in touched' <=> g \in touched) /\ (g \in torn' <=> g \in torn)
      /\ f \in touched' => kind \in {"changed", "unwritten"} /\ ~check
      /\ kind \in Answers(f, t) \/ (kind = "unwritten" /\ "changed" \in Answers(f, t) /\ ~check)
  BY DEF FormatOne, Types
<1>6. Deserved(f)' = Deserved(f)
  BY DEF Deserved
<1>7. kind = "error" /\ t \in unsound => Happened({"unrecovered"}, Passes)'
  <2>1. unsound # {} => Happened({"unrecovered"}, Passes)
    BY DEF Disk
  <2> QED  BY <1>2, <2>1 DEF Happened
<1>8. Told(f, kind)'
  <2>1. CASE kind \in Answers(f, t)
    BY <1>4, <1>5, <1>6, <1>7, <2>1 DEF Told
  <2>2. CASE kind = "unwritten" /\ "changed" \in Answers(f, t) /\ ~check
    BY <1>4, <1>5, <1>6, <2>2 DEF Told
  <2> QED  BY <1>5, <2>1, <2>2
<1>9. t # Main => ToldByWorker(f, kind)'
  <2>1. t # Main /\ kind = "overflow" => source[f] # "deep"
    BY <1>3, <1>4, <1>5 DEF Deserved, Contents
  <2> QED  BY <1>8, <2>1 DEF ToldByWorker
<1>10. Disk'
  <2>1. f \in touched' => source[f] \in {"unformatted", "deep"}
    BY <1>4, <1>5
  <2> QED  BY <1>2, <1>5, <2>1 DEF Disk
<1>11. kind \in Kinds /\ kind # "unset"
  BY <1>4, <1>5 DEF Kinds
<1> QED
  BY <1>2, <1>5, <1>8, <1>9, <1>10, <1>11

(* What a message of a worker is made of. *)
LEMMA EventsTyped ==
    /\ \A r \in SUBSET (Files \X Kinds) :
          Message(r) \in Events /\ Message(r).type = "message" /\ Message(r).results = r
    /\ \A e \in {"error", "exit"} :
          Ended(e) \in Events /\ Ended(e).type = e /\ Ended(e).results = {}
BY DEF Events, Message, Ended

---------------------------------------------------------------------------
(* The start *)

LEMMA InitHolds == Init => JsInv
<1> SUFFICES ASSUME Init PROVE JsInv
  OBVIOUS
<1> USE SizesAssumption
<1>1. NoWorker \in WorkerStates
  BY DEF NoWorker, WorkerStates
<1>2. worker \in [Workers -> WorkerStates] /\ \A w \in Workers : worker[w] = NoWorker
  BY <1>1 DEF Init
<1>3. [i \in Files |-> i] \in Seq(Files) /\ Unset(FileCount) \in Seq(Kinds) /\ <<>> \in Seq(Kinds)
  BY DEF Files, Unset, Kinds
<1>4. main \in Mains
  BY <1>3 DEF Init, Mains, Passes, Workers
<1>5. Types
  BY <1>2, <1>4 DEF Init, Types
<1>6. /\ main.phase = "route" /\ main.pass = 1 /\ main.files = [i \in Files |-> i] /\ main.next = 1
      /\ DOMAIN main.outcomes = Files /\ (\A i \in Files : main.outcomes[i] = "unset") /\ ~main.onMain
  BY DEF Init, Unset, Files
<1>7. \A w \in Workers : /\ worker[w].at = "none" /\ worker[w].results = {}
                         /\ worker[w].inbox = <<>> /\ ~worker[w].settled
  BY <1>2 DEF NoWorker
<1>8. Places = Files /\ Len(main.files) > 0
  BY <1>6 DEF Places, Files
<1>9. Course
  BY <1>6, <1>7, <1>8 DEF Course, Up
<1>10. Disk
  BY DEF Init, Disk
<1>11. Pool
  <2>1. touched = {} /\ cursor = 0
    BY DEF Init
  <2>2. \A w \in Workers, i \in Files : ~Claimed(w, i)
    BY <1>7 DEF Claimed
  <2>3. ClaimsAreApart /\ ClaimsArePlaces
    BY <1>7, <2>2 DEF ClaimsAreApart, ClaimsArePlaces
  <2>4. ResultsAreTrue
    BY <1>7, <2>1 DEF ResultsAreTrue
  <2>5. NoneIsLost
    BY <1>8, <2>1 DEF NoneIsLost, Files
  <2>6. Heard
    BY <1>6, <1>7, <1>8 DEF Heard
  <2> QED  BY <2>3, <2>4, <2>5, <2>6 DEF Pool
<1> QED
  BY <1>5, <1>6, <1>9, <1>10, <1>11 DEF JsInv, Here, Passed, Kept, Concluded

---------------------------------------------------------------------------
(* A worker *)

(* A worker at work is up, and the main thread is still spawning or waiting. *)
LEMMA AtWork ==
    ASSUME JsInv, NEW w \in Workers, worker[w].at \in {"loading", "claiming", "formatting"}
    PROVE  /\ main.phase \in {"spawn", "await"} /\ w \in Up
           /\ worker[w].inbox = <<>> /\ ~worker[w].settled
           /\ ClaimsAreApart /\ ClaimsArePlaces /\ ResultsAreTrue /\ NoneIsLost /\ Heard
<1>1. main.phase \in {"route", "spawn", "await", "sequential", "passed", "done"}
  BY DEF JsInv, Types, Mains
<1>2. main.phase \in {"spawn", "await"}
  BY <1>1 DEF JsInv, Course
<1>3. Heard /\ ClaimsAreApart /\ ClaimsArePlaces /\ ResultsAreTrue /\ NoneIsLost
  BY <1>2 DEF JsInv, Pool
<1>4. worker[w].inbox = <<>> /\ ~worker[w].settled
  BY <1>3 DEF Heard
<1> QED  BY <1>2, <1>3, <1>4 DEF Up

(* The state of one worker changes, and it stays up: the others, and where   *)
(* the pass stands, are as they were.                                        *)
LEMMA OneWorkerMoves ==
    ASSUME JsInv, NEW w \in Workers, worker[w].at \in {"loading", "claiming", "formatting"},
           worker'[w].at # "none", main' = main, mishaps \subseteq mishaps',
           \A v \in Workers : v # w => worker'[v] = worker[v]
    PROVE  Course'
<1>1. main.phase \in {"spawn", "await"} /\ w \in Up
  BY AtWork
<1>2. Up' = Up
  BY <1>1 DEF Up
<1>3. \A what, passes : Happened(what, passes) => Happened(what, passes)'
  BY HappenedStays
<1> QED  BY <1>1, <1>2, <1>3 DEF JsInv, Course, Places

(* The main thread and the disk stay as they were. *)
LEMMA MainIsStill ==
    ASSUME JsInv, main' = main, UNCHANGED <<run, touched, torn, unsound>>, mishaps \subseteq mishaps'
    PROVE  Disk' /\ Here' /\ Passed' /\ Kept' /\ Concluded'
<1>1. \A f, k : /\ Told(f, k) => Told(f, k)'
                /\ AccountedFor(f, k) => AccountedFor(f, k)'
                /\ DeepIsExcused(f, k) => DeepIsExcused(f, k)'
  BY VerdictStays DEF run
<1>2. \A what, passes : Happened(what, passes) => Happened(what, passes)'
  BY HappenedStays
<1>3. \A i, f : Placed(i, f)' <=> Placed(i, f)
  BY DEF Placed, Places
<1>4. Disk'
  BY <1>2 DEF JsInv, Disk, run
<1>5. Here'
  BY <1>1, <1>3 DEF JsInv, Here
<1>6. Passed'
  BY <1>1, <1>3 DEF JsInv, Passed
<1>7. Kept'
  BY <1>1, <1>3 DEF JsInv, Kept
<1>8. Concluded'
  BY <1>1 DEF JsInv, Concluded, run
<1> QED  BY <1>4, <1>5, <1>6, <1>7, <1>8

(* What the workers have done so far is as it was. *)
LEMMA ResultsStay ==
    ASSUME ResultsAreTrue, \A v \in Workers : worker'[v].results = worker[v].results,
           UNCHANGED <<run, touched, torn>>, main'.files = main.files, mishaps \subseteq mishaps',
           cursor \in Nat, cursor' \in Nat, cursor <= cursor'
    PROVE  /\ ResultsAreTrue'
           /\ \A i : Reported(i)' <=> Reported(i)
<1>1. \A f, k : ToldByWorker(f, k) => ToldByWorker(f, k)'
  BY VerdictStays DEF run
<1>2. \A i, f : Placed(i, f)' <=> Placed(i, f)
  BY DEF Placed, Places
<1>3. \A i : Reported(i)' <=> Reported(i)
  BY DEF Reported
<1>4. Places' = Places
  BY DEF Places
<1> QED  BY <1>1, <1>2, <1>3, <1>4 DEF ResultsAreTrue, Files

LEMMA LoadedStep ==
    ASSUME JsInv, NEW w \in Workers, Loaded(w)
    PROVE  JsInv'
<1>1. worker[w].at = "loading" /\ main' = main /\ cursor' = cursor /\ mishaps' = mishaps
  BY DEF Loaded
<1>2. worker \in [Workers -> WorkerStates] /\ cursor \in Nat
  BY DEF JsInv, Types
<1>3. /\ worker' \in [Workers -> WorkerStates]
      /\ \A v \in Workers : v # w => worker'[v] = worker[v]
      /\ worker'[w].at = "claiming" /\ worker'[w].index = worker[w].index
      /\ worker'[w].results = worker[w].results
      /\ worker'[w].inbox = worker[w].inbox /\ worker'[w].settled = worker[w].settled
  BY ZenonT(60), <1>2 DEF Loaded, WorkerStates
<1>4. Types'
  BY <1>1, <1>3 DEF JsInv, Types, Loaded, run
<1>5. Course'
  BY <1>1, <1>3, OneWorkerMoves
<1>6. Disk' /\ Here' /\ Passed' /\ Kept' /\ Concluded'
  BY <1>1, MainIsStill DEF Loaded
<1>7. /\ ClaimsAreApart /\ ClaimsArePlaces /\ ResultsAreTrue /\ NoneIsLost /\ Heard
      /\ worker[w].inbox = <<>> /\ ~worker[w].settled
  BY <1>1, AtWork
<1>8. ResultsAreTrue' /\ \A i : Reported(i)' <=> Reported(i)
  BY <1>1, <1>2, <1>3, <1>7, ResultsStay DEF Loaded
<1>9. \A v \in Workers : \A i : Claimed(v, i)' <=> Claimed(v, i)
  BY <1>1, <1>3 DEF Claimed
<1>10. ClaimsAreApart'
  BY <1>1, <1>7, <1>8, <1>9 DEF ClaimsAreApart, Loaded
<1>11. ClaimsArePlaces'
  BY <1>1, <1>3, <1>7 DEF ClaimsArePlaces, Places
<1>12. NoneIsLost'
  BY <1>1, <1>7, <1>8, <1>9 DEF NoneIsLost, Places, Happened
<1>13. Heard'
  BY <1>1, <1>3, <1>7 DEF Heard, LastWords, Arrived, Places, Happened
<1> QED  BY <1>4, <1>5, <1>6, <1>8, <1>10, <1>11, <1>12, <1>13 DEF JsInv, Pool

(* A worker that finds a place takes it; one that finds none posts its        *)
(* report and goes.                                                          *)
LEMMA ClaimStep ==
    ASSUME JsInv, NEW w \in Workers, ClaimIndex(w)
    PROVE  JsInv'
<1>1. worker[w].at = "claiming" /\ main' = main /\ cursor' = cursor + 1 /\ mishaps' = mishaps
  BY DEF ClaimIndex
<1>2. worker \in [Workers -> WorkerStates] /\ cursor \in Nat /\ cursor' \in Nat
  BY <1>1 DEF JsInv, Types
<1>3. main.files \in Seq(Files) /\ Places = 1..Len(main.files) /\ Places \subseteq Files
  BY DEF JsInv, Course, Places, Types, Mains
<1>4. /\ ClaimsAreApart /\ ClaimsArePlaces /\ ResultsAreTrue /\ NoneIsLost /\ Heard
      /\ worker[w].inbox = <<>> /\ ~worker[w].settled
  BY <1>1, AtWork
<1>5. Disk' /\ Here' /\ Passed' /\ Kept' /\ Concluded'
  BY <1>1, MainIsStill DEF ClaimIndex
<1>6. CASE cursor < Len(main.files)
  <2>1. /\ worker' \in [Workers -> WorkerStates]
        /\ \A v \in Workers : v # w => worker'[v] = worker[v]
        /\ worker'[w].at = "formatting" /\ worker'[w].index = cursor + 1
        /\ worker'[w].results = worker[w].results
        /\ worker'[w].inbox = worker[w].inbox /\ worker'[w].settled = worker[w].settled
    <3>1. cursor + 1 \in Files
      BY <1>2, <1>3, <1>6
    <3> DEFINE place == cursor + 1
    <3>2. worker' = [worker EXCEPT ![w].at = "formatting", ![w].index = place]
      BY <1>6 DEF ClaimIndex
    <3>3. place \in Files
      BY <3>1
    <3> HIDE DEF place
    <3>4. /\ worker' \in [Workers -> WorkerStates]
          /\ \A v \in Workers : v # w => worker'[v] = worker[v]
          /\ worker'[w].at = "formatting" /\ worker'[w].index = place
          /\ worker'[w].results = worker[w].results
          /\ worker'[w].inbox = worker[w].inbox /\ worker'[w].settled = worker[w].settled
      BY ZenonT(60), <1>2, <3>2, <3>3 DEF WorkerStates
    <3> QED  BY <3>4 DEF place
  <2>2. Types'
    BY <1>1, <1>2, <2>1 DEF JsInv, Types, ClaimIndex, run
  <2>3. Course'
    BY <1>1, <2>1, OneWorkerMoves
  <2>4. ResultsAreTrue' /\ \A i : Reported(i)' <=> Reported(i)
    BY <1>1, <1>2, <1>4, <2>1, ResultsStay DEF ClaimIndex
  <2>5. \A v \in Workers : \A i : Claimed(v, i)' <=> IF v = w THEN i = cursor + 1 ELSE Claimed(v, i)
    BY <2>1 DEF Claimed
  <2>6. cursor + 1 \in Places /\ cursor + 1 \in Files /\ ~(cursor + 1 <= cursor)
    BY <1>2, <1>3, <1>6
  <2>7. ~Reported(cursor + 1)
    BY <1>4, <2>6 DEF Reported, ResultsAreTrue
  <2>8. main.files[cursor + 1] \notin touched
    BY <1>4, <2>6, <2>7 DEF ResultsAreTrue, Placed
  <2>9. \A v \in Workers : ~Claimed(v, cursor + 1)
    <3> SUFFICES ASSUME NEW v \in Workers, Claimed(v, cursor + 1) PROVE FALSE
      OBVIOUS
    <3>1. main.files[cursor + 1] \in Files
      BY <1>3, <2>6
    <3> QED  BY <1>4, <2>6, <3>1 DEF ClaimsAreApart
  <2>10. \A i \in Files : i <= cursor => i <= cursor'
    BY <1>1, <1>2 DEF Files
  <2>11. ClaimsAreApart'
    <3>1. \A i \in Files, v, u \in Workers :
             Claimed(v, i)' /\ Claimed(u, i)' /\ (u = w \/ v = w) => u = v
      BY <2>5, <2>9
    <3> QED  BY <1>1, <1>2, <1>4, <2>4, <2>5, <2>7, <2>8, <2>9, <2>10, <3>1 DEF ClaimsAreApart, ClaimIndex
  <2>12. ClaimsArePlaces'
    BY <1>1, <1>4, <2>1, <2>6 DEF ClaimsArePlaces, Places
  <2>13. NoneIsLost'
    <3>1. \A i \in Places : i <= cursor' => i <= cursor \/ i = cursor + 1
      BY <1>1, <1>2, <1>3
    <3>2. \A i \in Places : ~(\E v \in Workers : Claimed(v, i)) \/ \E v \in Workers : Claimed(v, i)'
      BY <1>1, <2>5 DEF Claimed
    <3> QED  BY <1>1, <1>4, <2>4, <2>5, <3>1, <3>2 DEF NoneIsLost, Places, Happened
  <2>14. Heard'
    BY <1>1, <1>2, <1>3, <1>4, <2>1 DEF Heard, LastWords, Arrived, Places, Happened
  <2> QED  BY <1>5, <2>2, <2>3, <2>4, <2>11, <2>12, <2>13, <2>14 DEF JsInv, Pool
<1>7. CASE ~(cursor < Len(main.files))
  <2> DEFINE report == <<Message(worker[w].results), Ended("exit")>>
  <2>1. report \in Seq(Events) /\ Len(report) = 2 /\ <<>> \o report = report
    BY <1>2, EventsTyped DEF WorkerStates
  <2>2. /\ worker' = [worker EXCEPT ![w].at = "gone", ![w].inbox = @ \o report]
        /\ worker[w].inbox \o report = report
    BY <1>4, <1>7, <2>1 DEF ClaimIndex, Leaving
  <2> HIDE DEF report
  <2>3. /\ worker' \in [Workers -> WorkerStates]
        /\ \A v \in Workers : v # w => worker'[v] = worker[v]
        /\ worker'[w].at = "gone" /\ worker'[w].inbox = report
        /\ worker'[w].results = worker[w].results
        /\ worker'[w].settled = worker[w].settled
    BY SMTT(60), <1>2, <2>1, <2>2 DEF WorkerStates
  <2>4. Types'
    BY <1>1, <1>2, <2>3 DEF JsInv, Types, ClaimIndex, run
  <2>5. Course'
    BY <1>1, <2>3, OneWorkerMoves
  <2>6. ResultsAreTrue' /\ \A i : Reported(i)' <=> Reported(i)
    BY <1>1, <1>2, <1>4, <2>3, ResultsStay DEF ClaimIndex
  <2>7. \A v \in Workers : \A i : Claimed(v, i)' <=> Claimed(v, i)
    BY <1>1, <2>3 DEF Claimed
  <2>8. ClaimsAreApart'
    <3>1. \A i \in Files : i <= cursor => i <= cursor'
      BY <1>1, <1>2 DEF Files
    <3> QED  BY <1>1, <1>4, <2>6, <2>7, <3>1 DEF ClaimsAreApart, ClaimIndex
  <2>9. ClaimsArePlaces'
    BY <1>1, <1>4, <2>3 DEF ClaimsArePlaces, Places
  <2>10. NoneIsLost'
    <3>1. \A i \in Places : i <= cursor
      BY <1>2, <1>3, <1>7
    <3> QED  BY <1>1, <1>4, <2>6, <2>7, <3>1 DEF NoneIsLost, Places, Happened
  <2>11. Heard'
    <3>1. LastWords(w)'
      BY <1>4, <2>3 DEF LastWords, report
    <3>2. cursor' > Len(main'.files)
      BY <1>1, <1>2, <1>3, <1>7
    <3>3. ~(Len(worker'[w].inbox) < 2)
      BY <2>1, <2>3 DEF report
    <3>4. \A v \in Workers : v # w /\ LastWords(v) => LastWords(v)'
      BY <2>3 DEF LastWords
    <3>5. \A v \in Workers : Arrived(v) => Arrived(v)'
      BY <1>1, <2>3 DEF Arrived
    <3>6. cursor > Len(main.files) => cursor' > Len(main'.files)
      BY <3>2
    <3> QED  BY <1>1, <1>4, <2>3, <3>1, <3>2, <3>3, <3>4, <3>5, <3>6 DEF Heard, Places, Happened
  <2> QED  BY <1>5, <2>4, <2>5, <2>6, <2>8, <2>9, <2>10, <2>11 DEF JsInv, Pool
<1> QED  BY <1>6, <1>7

(* A worker that throws or is killed is gone, with its report posted or lost. *)
LEMMA WorkerDies ==
    ASSUME JsInv, NEW w \in Workers, worker[w].at \in {"loading", "claiming", "formatting"},
           UNCHANGED <<run, touched, torn, unsound, main, cursor>>,
           NEW what \in Deaths, mishaps' = mishaps \cup {<<what, main.pass>>},
           NEW e \in {"error", "exit"}, NEW events,
           \/ events = <<Message(worker[w].results), Ended(e)>>
           \/ events = <<Ended(e)>> /\ (what = "killed" \/ worker[w].results = {}),
           Leaving(w, events)
    PROVE  JsInv'
<1>1. /\ ClaimsAreApart /\ ClaimsArePlaces /\ ResultsAreTrue /\ NoneIsLost /\ Heard
      /\ worker[w].inbox = <<>> /\ ~worker[w].settled
  BY AtWork
<1>2. worker \in [Workers -> WorkerStates] /\ cursor \in Nat /\ main.pass \in Passes
  BY DEF JsInv, Types, Mains
<1>3. events \in Seq(Events) /\ <<>> \o events = events
  <2>1. Ended(e) \in Events
    BY EventsTyped
  <2>2. Message(worker[w].results) \in Events
    BY <1>2, EventsTyped DEF WorkerStates
  <2>3. CASE events = <<Message(worker[w].results), Ended(e)>>
    BY <2>1, <2>2, <2>3
  <2>4. CASE events = <<Ended(e)>>
    BY <2>1, <2>4
  <2> QED  BY <2>3, <2>4
<1>4. /\ worker' \in [Workers -> WorkerStates]
      /\ \A v \in Workers : v # w => worker'[v] = worker[v]
      /\ worker'[w].at = "gone" /\ worker'[w].inbox = events
      /\ worker'[w].results = worker[w].results /\ worker'[w].settled = worker[w].settled
  <2>1. worker' = [worker EXCEPT ![w].at = "gone", ![w].inbox = @ \o events]
    BY DEF Leaving
  <2>2. worker[w].inbox \o events = events
    BY <1>1, <1>3
  <2> QED  BY SMTT(60), <1>2, <1>3, <2>1, <2>2 DEF WorkerStates
<1>5. /\ mishaps \subseteq mishaps'
      /\ mishaps' \subseteq {"refused", "threw", "killed", "unrecovered"} \X Passes
      /\ Happened(Deaths, {main.pass})' /\ Happened(Deaths, Passes)'
      /\ what = "killed" => Happened({"killed"}, Passes)'
  <2> DEFINE m == <<what, main.pass>>
  <2>1. m \in mishaps' /\ m[1] = what /\ m[2] = main.pass
    OBVIOUS
  <2>2. mishaps' \subseteq {"refused", "threw", "killed", "unrecovered"} \X Passes
    BY <1>2 DEF JsInv, Types, Deaths
  <2> HIDE DEF m
  <2> QED  BY <1>2, <2>1, <2>2 DEF Happened
<1>6. Types'
  BY <1>4, <1>5 DEF JsInv, Types, run
<1>7. Course'
  BY <1>4, <1>5, OneWorkerMoves
<1>8. Disk' /\ Here' /\ Passed' /\ Kept' /\ Concluded'
  BY <1>5, MainIsStill
<1>9. ResultsAreTrue' /\ \A i : Reported(i)' <=> Reported(i)
  <2>1. cursor <= cursor'
    BY <1>2
  <2> QED  BY <1>1, <1>2, <1>4, <1>5, <2>1, ResultsStay
<1>10. \A v \in Workers : \A i : Claimed(v, i)' => Claimed(v, i)
  BY <1>4 DEF Claimed
<1>11. ClaimsAreApart'
  BY <1>1, <1>9, <1>10 DEF ClaimsAreApart
<1>12. ClaimsArePlaces'
  BY <1>1, <1>4 DEF ClaimsArePlaces, Places
<1>13. NoneIsLost'
  BY <1>5 DEF NoneIsLost
<1>14. Heard'
  <2>1. LastWords(w)'
    BY <1>1, <1>4 DEF LastWords
  <2>2. \A v \in Workers : v # w /\ LastWords(v) => LastWords(v)'
    BY <1>4 DEF LastWords
  <2>3. \A v \in Workers : Arrived(v) => Arrived(v)'
    BY <1>4 DEF Arrived
  <2>4. Len(worker'[w].inbox) < 2 => Happened({"killed"}, Passes)' \/ Arrived(w)'
    <3>1. CASE events = <<Message(worker[w].results), Ended(e)>>
      BY <1>4, <3>1
    <3>2. CASE what = "killed"
      BY <1>5, <3>2
    <3>3. CASE worker[w].results = {}
      BY <1>4, <3>3 DEF Arrived
    <3> QED  BY <3>1, <3>2, <3>3
  <2>5. Happened({"killed"}, Passes) => Happened({"killed"}, Passes)'
    BY <1>5, HappenedStays
  <2>6. \A v \in Workers : 
           v # w /\ worker[v].at = "gone" /\ Len(worker'[v].inbox) < 2 =>
              Happened({"killed"}, Passes)' \/ Arrived(v)'
    BY <1>1, <1>4, <2>3, <2>5 DEF Heard
  <2>7. Happened(Deaths, {main.pass})'
    BY <1>5
  <2> QED  BY ZenonT(60), <1>1, <1>4, <2>1, <2>2, <2>4, <2>6, <2>7 DEF Heard, Places
<1> QED  BY <1>6, <1>7, <1>8, <1>9, <1>11, <1>12, <1>13, <1>14 DEF JsInv, Pool

LEMMA ThrowStep ==
    ASSUME JsInv, NEW w \in Workers, Throw(w)
    PROVE  JsInv'
<1>1. "threw" \in Deaths
  BY DEF Deaths
<1> QED  BY <1>1, WorkerDies DEF Throw

LEMMA KilledStep ==
    ASSUME JsInv, NEW w \in Workers, Killed(w)
    PROVE  JsInv'
<1> DEFINE what == IF worker[w].at = "loading" THEN "threw" ELSE "killed"
<1>1. PICK e \in {"error", "exit"} : Leaving(w, <<Ended(e)>>)
  BY DEF Killed
<1>2. worker[w].at \in {"loading", "claiming", "formatting"}
  BY DEF Killed
<1>3. Heard
  BY <1>2, AtWork
<1>4. what = "killed" \/ worker[w].results = {}
  BY <1>3 DEF Heard
<1>5. what \in Deaths /\ mishaps' = mishaps \cup {<<what, main.pass>>}
  BY DEF Deaths, Killed
<1>6. UNCHANGED <<run, touched, torn, unsound, main, cursor>>
  BY DEF Killed
<1> HIDE DEF what
<1>7. PICK d : d = what
  OBVIOUS
<1> QED  BY <1>1, <1>2, <1>4, <1>5, <1>6, <1>7, WorkerDies

(* A worker formats the file it claimed, and adds the answer to its report.  *)
LEMMA FormatStep ==
    ASSUME JsInv, NEW w \in Workers, FormatIndex(w)
    PROVE  JsInv'
<1>1. /\ worker[w].at = "formatting" /\ main' = main /\ cursor' = cursor
      /\ UNCHANGED run /\ source' = source /\ check' = check
  BY DEF FormatIndex, run
<1>2. worker \in [Workers -> WorkerStates] /\ cursor \in Nat /\ main.pass \in Passes
  BY DEF JsInv, Types, Mains
<1>3. main.files \in Seq(Files) /\ Places = 1..Len(main.files) /\ Places \subseteq Files
  BY DEF JsInv, Course, Places, Types, Mains
<1>4. /\ ClaimsAreApart /\ ClaimsArePlaces /\ ResultsAreTrue /\ NoneIsLost /\ Heard
      /\ worker[w].inbox = <<>> /\ ~worker[w].settled /\ main.phase \in {"spawn", "await"}
  BY <1>1, AtWork
<1>5. PICK place \in Places : place = worker[w].index
  BY <1>1, <1>4 DEF ClaimsArePlaces
<1>6. PICK file \in Files : file = main.files[place]
  BY <1>3
<1>7. PICK kind \in Kinds :
         /\ FormatOne(file, w, kind)
         /\ worker' = [worker EXCEPT ![w].at = "claiming", ![w].results = @ \cup {<<place, kind>>}]
  BY <1>5, <1>6 DEF FormatIndex
<1>8. /\ Claimed(w, place) /\ place \in Files /\ place <= cursor /\ file \notin touched /\ ~Reported(place)
      /\ \A v \in Workers : Claimed(v, place) => v = w
  BY <1>1, <1>3, <1>4, <1>5, <1>6 DEF Claimed, ClaimsAreApart
<1>9. /\ ToldByWorker(file, kind)' /\ Disk'
      /\ touched' \subseteq Files /\ torn' \subseteq touched' /\ unsound' \subseteq Workers \cup {Main}
      /\ \A g : g # file => (g \in touched' <=> g \in touched) /\ (g \in torn' <=> g \in torn)
      /\ mishaps \subseteq mishaps'
      /\ mishaps' \subseteq {"refused", "threw", "killed", "unrecovered"} \X Passes
      /\ kind # "unset"
  <2>1. w # Main
    BY DEF Workers, Main
  <2>2. Types /\ Disk /\ main'.pass \in Passes
    BY <1>1, <1>2 DEF JsInv
  <2> QED  BY <1>1, <1>7, <1>8, <2>1, <2>2, FormattingTells
<1>10. /\ worker' \in [Workers -> WorkerStates]
       /\ \A v \in Workers : v # w => worker'[v] = worker[v]
       /\ worker'[w].at = "claiming" /\ worker'[w].inbox = worker[w].inbox
       /\ worker'[w].results = worker[w].results \cup {<<place, kind>>}
       /\ worker'[w].settled = worker[w].settled
  <2>1. worker[w].results \cup {<<place, kind>>} \in SUBSET (Files \X Kinds)
    <3>1. <<place, kind>> \in Files \X Kinds
      BY <1>8
    <3>2. worker[w].results \in SUBSET (Files \X Kinds)
      BY <1>2 DEF WorkerStates
    <3> QED  BY <3>1, <3>2
  <2> QED  BY ZenonT(60), <1>2, <1>7, <2>1 DEF WorkerStates
<1>11. Types'
  BY <1>1, <1>9, <1>10 DEF JsInv, Types, run
<1>12. Course'
  BY <1>1, <1>9, <1>10, OneWorkerMoves
<1>13. \A g, k : g # file => /\ ToldByWorker(g, k) => ToldByWorker(g, k)'
                             /\ AccountedFor(g, k) => AccountedFor(g, k)'
  BY <1>1, <1>9, VerdictStays
<1>14. \A what, passes : Happened(what, passes) => Happened(what, passes)'
  BY <1>9, HappenedStays
<1>15. \A i, f : Placed(i, f)' <=> Placed(i, f)
  BY <1>1 DEF Placed, Places
<1>16. \A i : Placed(i, file) <=> i = place
  BY <1>5, <1>6 DEF JsInv, Course, Placed
<1>17. /\ \A i : Reported(i)' <=> Reported(i) \/ i = place
       /\ \A v \in Workers, i \in Files, k \in Kinds : <<i, k>> \in worker'[v].results <=>
             <<i, k>> \in worker[v].results \/ (v = w /\ i = place /\ k = kind)
  <2>1. \A v \in Workers, i \in Files, k \in Kinds : <<i, k>> \in worker'[v].results <=>
             <<i, k>> \in worker[v].results \/ (v = w /\ i = place /\ k = kind)
    BY <1>10
  <2>2. \A i : Reported(i) => Reported(i)'
    BY <1>10 DEF Reported
  <2>3. Reported(place)'
    BY <1>10 DEF Reported
  <2>4. \A i : Reported(i)' => Reported(i) \/ i = place
    BY <1>10 DEF Reported
  <2> QED  BY <2>1, <2>2, <2>3, <2>4
<1>18. \A v \in Workers : \A i : Claimed(v, i)' <=> Claimed(v, i) /\ v # w
  BY <1>10 DEF Claimed
<1>19. ClaimsAreApart'
  <2> SUFFICES ASSUME NEW v \in Workers, NEW i \in Files, NEW f \in Files,
                      Claimed(v, i)', f = main.files[i]
               PROVE  /\ i <= cursor /\ f \notin touched' /\ ~Reported(i)'
                      /\ \A u \in Workers : Claimed(u, i)' => u = v
    BY <1>1 DEF ClaimsAreApart
  <2>1. Claimed(v, i) /\ v # w /\ i # place
    BY <1>8, <1>18
  <2>2. /\ i <= cursor /\ f \notin touched /\ ~Reported(i)
        /\ \A u \in Workers : Claimed(u, i) => u = v
    BY <1>4, <2>1 DEF ClaimsAreApart
  <2>3. i \in Places
    BY <1>4, <2>1 DEF ClaimsArePlaces, Claimed
  <2>4. f # file
    BY <1>16, <2>1, <2>3 DEF Placed
  <2> QED  BY <1>9, <1>17, <1>18, <2>1, <2>2, <2>4
<1>20. ClaimsArePlaces'
  BY <1>1, <1>4, <1>10 DEF ClaimsArePlaces, Places
<1>21. ResultsAreTrue'
  <2>1. ASSUME NEW v \in Workers, NEW i \in Files, NEW k \in Kinds, <<i, k>> \in worker'[v].results
        PROVE  i \in Places /\ i <= cursor
    BY <1>4, <1>8, <1>17, <2>1 DEF ResultsAreTrue
  <2>2. ASSUME NEW v \in Workers, NEW i \in Files, NEW k \in Kinds, NEW f \in Files,
               <<i, k>> \in worker'[v].results, Placed(i, f)
        PROVE  ToldByWorker(f, k)'
    <3>1. CASE i = place
      <4>1. ~(<<i, k>> \in worker[v].results)
        BY <1>8, <3>1 DEF Reported
      <4>2. k = kind
        BY <1>17, <2>2, <4>1
      <4>3. f = file
        BY <1>6, <2>2, <3>1 DEF Placed
      <4> QED  BY <1>9, <4>2, <4>3
    <3>2. CASE i # place
      <4>1. <<i, k>> \in worker[v].results
        BY <1>17, <2>2, <3>2
      <4>2. f # file
        BY <1>16, <2>2, <3>2
      <4>3. ToldByWorker(f, k)
        BY <1>4, <2>2, <4>1 DEF ResultsAreTrue
      <4> QED  BY <1>13, <4>2, <4>3
    <3> QED  BY <3>1, <3>2
  <2>3. ASSUME NEW i \in Files, NEW f \in touched', Placed(i, f) PROVE Reported(i)'
    <3>1. CASE f = file
      BY <1>16, <1>17, <2>3, <3>1
    <3>2. CASE f # file
      BY <1>4, <1>9, <1>17, <2>3, <3>2 DEF ResultsAreTrue
    <3> QED  BY <3>1, <3>2
  <2> QED
    BY <1>1, <1>15, <2>1, <2>2, <2>3 DEF ResultsAreTrue, Places
<1>22. NoneIsLost'
  <2> SUFFICES ASSUME NEW i \in Places, i <= cursor
               PROVE  (\E v \in Workers : Claimed(v, i)') \/ Reported(i)' \/ Happened(Deaths, Passes)'
    BY <1>1 DEF NoneIsLost, Places
  <2>1. CASE \E v \in Workers : Claimed(v, i) /\ v # w
    BY <1>18, <2>1
  <2>2. CASE Claimed(w, i)
    BY <1>5, <1>17, <2>2 DEF Claimed
  <2>3. CASE Reported(i) \/ Happened(Deaths, Passes)
    BY <1>14, <1>17, <2>3
  <2> QED  BY <1>4, <2>1, <2>2, <2>3 DEF NoneIsLost
<1>23. Heard'
  <2>1. \A v \in Workers : LastWords(v) => LastWords(v)' \/ v = w
    BY <1>10 DEF LastWords
  <2>2. \A v \in Workers : v # w /\ Arrived(v) => Arrived(v)'
    BY <1>1, <1>10 DEF Arrived
  <2>3. ASSUME NEW v \in Workers
        PROVE  /\ worker'[v].at # "gone" => worker'[v].inbox = <<>> /\ ~worker'[v].settled
               /\ worker'[v].at \in {"none", "loading"} => worker'[v].results = {}
               /\ worker'[v].at = "gone" =>
                     /\ LastWords(v)'
                     /\ cursor > Len(main.files) \/ Happened(Deaths, {main.pass})'
                     /\ Len(worker'[v].inbox) < 2 => Happened({"killed"}, Passes)' \/ Arrived(v)'
    <3>1. CASE v = w
      BY <1>4, <1>10, <3>1
    <3>2. CASE v # w
      <4>1. worker'[v] = worker[v]
        BY <1>10, <3>2
      <4>2. Happened(Deaths, {main.pass}) => Happened(Deaths, {main.pass})'
        BY <1>1, <1>9 DEF Happened
      <4> QED  BY <1>4, <1>14, <2>1, <2>2, <3>2, <4>1, <4>2 DEF Heard
    <3> QED  BY <3>1, <3>2
  <2>4. \A i \in Places : main.outcomes[i] # "unset" =>
           \E v \in Workers : <<i, main.outcomes[i]>> \in worker'[v].results
    BY <1>4, <1>10 DEF Heard
  <2> QED  BY <1>1, <2>3, <2>4 DEF Heard, Places
<1>24. Kept'
  <2> SUFFICES ASSUME main.pass = 2
               PROVE  /\ DOMAIN main.kept = Files
                      /\ \A f \in Files : main.kept[f] = "overflow" <=> \E i \in Files : Placed(i, f)
                      /\ \A f \in Files, k \in Kinds :
                            k = main.kept[f] /\ k # "overflow" => AccountedFor(f, k)'
    BY <1>1, <1>15 DEF Kept
  <2>1. /\ DOMAIN main.kept = Files
        /\ \A f \in Files : main.kept[f] = "overflow" <=> \E i \in Files : Placed(i, f)
        /\ \A f \in Files, k \in Kinds : k = main.kept[f] /\ k # "overflow" => AccountedFor(f, k)
    BY <1>4 DEF JsInv, Kept
  <2>2. main.kept[file] = "overflow"
    BY <1>8, <1>16, <2>1
  <2> QED  BY <1>13, <2>1, <2>2
<1>25. Here' /\ Passed' /\ Concluded'
  BY <1>1, <1>4 DEF Here, Passed, Concluded
<1> QED
  BY <1>9, <1>11, <1>12, <1>19, <1>20, <1>21, <1>22, <1>23, <1>24, <1>25 DEF JsInv, Pool

---------------------------------------------------------------------------
(* The main thread *)

LEMMA NothingIsWritten ==
    ASSUME UNCHANGED <<run, touched, torn>>, mishaps \subseteq mishaps'
    PROVE  /\ \A f, k : /\ Told(f, k) => Told(f, k)'
                        /\ ToldByWorker(f, k) => ToldByWorker(f, k)'
                        /\ AccountedFor(f, k) => AccountedFor(f, k)'
                        /\ DeepIsExcused(f, k) => DeepIsExcused(f, k)'
           /\ \A what, passes : Happened(what, passes) => Happened(what, passes)'
           /\ Disk /\ unsound' \subseteq unsound => Disk'
<1>1. \A f, k : /\ Told(f, k) => Told(f, k)'
                /\ ToldByWorker(f, k) => ToldByWorker(f, k)'
                /\ AccountedFor(f, k) => AccountedFor(f, k)'
                /\ DeepIsExcused(f, k) => DeepIsExcused(f, k)'
  BY VerdictStays DEF run
<1>2. \A what, passes : Happened(what, passes) => Happened(what, passes)'
  BY HappenedStays
<1>3. Disk /\ unsound' \subseteq unsound => Disk'
  BY <1>2 DEF Disk, run
<1> QED  BY <1>1, <1>2, <1>3

(* The workers stay as they are, and so do the lists they work on. *)
LEMMA PoolStays ==
    ASSUME JsInv, main.phase \in {"route", "spawn", "await"},
           UNCHANGED <<run, touched, torn, unsound, cursor, worker>>, mishaps \subseteq mishaps',
           main'.files = main.files, main'.outcomes = main.outcomes, main'.pass = main.pass
    PROVE  Pool'
<1>1. ClaimsAreApart /\ ClaimsArePlaces /\ ResultsAreTrue /\ NoneIsLost /\ Heard
  BY DEF JsInv, Pool
<1>2. \A i : Reported(i)' <=> Reported(i)
  BY DEF Reported
<1>3. \A v \in Workers : \A i : Claimed(v, i)' <=> Claimed(v, i)
  BY DEF Claimed
<1>4. ClaimsAreApart'
  BY <1>1, <1>2, <1>3 DEF ClaimsAreApart
<1>5. ClaimsArePlaces'
  BY <1>1 DEF ClaimsArePlaces, Places
<1>6. ResultsAreTrue'
  <2>1. cursor \in Nat
    BY DEF JsInv, Types
  <2> QED  BY <1>1, <2>1, ResultsStay
<1>7. NoneIsLost'
  BY <1>1, <1>2, <1>3 DEF NoneIsLost, Places, Happened
<1>8. Heard'
  BY <1>1 DEF Heard, LastWords, Arrived, Places, Happened
<1> QED  BY <1>4, <1>5, <1>6, <1>7, <1>8 DEF Pool

LEMMA RouteStep ==
    ASSUME JsInv, Route
    PROVE  JsInv'
<1> USE SizesAssumption
<1>1. PICK jobs \in Workers :
         main' = [main EXCEPT !.jobs = jobs,
                    !.phase = IF jobs > 1 \/ engine = "napi" THEN "spawn" ELSE "sequential"]
  BY DEF Route
<1>2. main \in Mains /\ main.phase = "route"
  BY DEF JsInv, Types, Route
<1>3. /\ main' \in Mains /\ main'.phase \in {"spawn", "sequential"} /\ main'.jobs = jobs
      /\ main'.pass = main.pass /\ main'.files = main.files /\ main'.outcomes = main.outcomes
      /\ main'.kept = main.kept /\ main'.onMain = main.onMain /\ main'.next = main.next
  BY <1>1, <1>2 DEF Mains
<1>4. UNCHANGED <<run, touched, torn, unsound, cursor, worker, mishaps>>
  BY DEF Route
<1>5. Places' = Places /\ \A i, f : Placed(i, f)' <=> Placed(i, f)
  BY <1>3 DEF Places, Placed
<1>6. /\ main.pass = 1 /\ main.files = [i \in Files |-> i] /\ main.next = 1 /\ ~main.onMain
      /\ Len(main.files) > 0 /\ Places \subseteq Files /\ Up = {} /\ DOMAIN main.outcomes = Places
      /\ \A i, j \in Places : main.files[i] = main.files[j] => i = j
  BY <1>2 DEF JsInv, Course
<1>7. Types'
  BY <1>3, <1>4 DEF JsInv, Types, run
<1>8. Course'
  <2>1. Up' = {} /\ \A w \in Workers : worker'[w].at = "none"
    BY <1>4, <1>6 DEF Up
  <2>2. Up' = 1..0 /\ 0 \in 0..(main'.jobs - 1)
    BY <1>3, <2>1 DEF Workers
  <2>3. 1 \in Places
    BY <1>2, <1>6 DEF Places, Mains
  <2> QED  BY <1>3, <1>5, <1>6, <2>1, <2>2, <2>3 DEF Course
<1>9. Pool'
  BY <1>2, <1>3, <1>4, PoolStays
<1>10. Here'
  <2>1. \A i \in Files, f \in Files : Placed(i, f) => f \notin touched
    <3>1. \A i : ~Reported(i)
      BY <1>2, <1>6 DEF JsInv, Pool, Heard, Reported, Up
    <3> QED  BY <1>2, <3>1 DEF JsInv, Pool, ResultsAreTrue
  <2> QED  BY <1>3, <1>4, <1>5, <1>6, <2>1 DEF Here, Files
<1>11. Disk' /\ Passed' /\ Kept' /\ Concluded'
  BY <1>3, <1>4, <1>6, NothingIsWritten DEF JsInv, Passed, Kept, Concluded
<1> QED  BY <1>7, <1>8, <1>9, <1>10, <1>11 DEF JsInv

LEMMA SpawnStep ==
    ASSUME JsInv, SpawnWorker
    PROVE  JsInv'
<1> USE SizesAssumption
<1>1. main \in Mains /\ main.phase = "spawn" /\ worker \in [Workers -> WorkerStates]
  BY DEF JsInv, Types, SpawnWorker
<1>2. PICK k \in 0..(main.jobs - 1) : Up = 1..k
  BY <1>1 DEF JsInv, Course
<1>3. Cardinality(Up) = k /\ k + 1 \in Workers /\ k + 1 \notin Up /\ k + 1 <= main.jobs
  <2>1. main.jobs \in 1..MaxJobs /\ k \in Nat
    BY <1>1 DEF Mains, Workers
  <2>2. Cardinality(1..k) = k
    BY <2>1, FS_Interval
  <2> QED  BY <1>2, <2>1, <2>2 DEF Workers
<1>4. PICK w \in Workers : w = k + 1
  BY <1>3
<1>5. /\ worker' = [worker EXCEPT ![w].at = "loading"]
      /\ main' = [main EXCEPT !.phase = IF w = main.jobs THEN "await" ELSE "spawn"]
      /\ UNCHANGED <<run, touched, torn, unsound, cursor, mishaps>>
  BY <1>3, <1>4 DEF SpawnWorker
<1>6. /\ main' \in Mains /\ main'.phase = (IF w = main.jobs THEN "await" ELSE "spawn")
      /\ main'.pass = main.pass /\ main'.files = main.files /\ main'.outcomes = main.outcomes
      /\ main'.kept = main.kept /\ main'.onMain = main.onMain /\ main'.next = main.next
      /\ main'.jobs = main.jobs
  BY <1>1, <1>5 DEF Mains
<1>7. /\ worker' \in [Workers -> WorkerStates]
      /\ \A v \in Workers : v # w => worker'[v] = worker[v]
      /\ worker'[w].at = "loading" /\ worker'[w].inbox = worker[w].inbox
      /\ worker'[w].results = worker[w].results /\ worker'[w].settled = worker[w].settled
  BY ZenonT(60), <1>1, <1>5 DEF WorkerStates
<1>8. Places' = Places /\ \A i, f : Placed(i, f)' <=> Placed(i, f)
  BY <1>6 DEF Places, Placed
<1>9. /\ ClaimsAreApart /\ ClaimsArePlaces /\ ResultsAreTrue /\ NoneIsLost /\ Heard
  BY <1>1 DEF JsInv, Pool
<1>10. worker[w].at = "none" /\ worker[w].results = {}
  BY <1>3, <1>4, <1>9 DEF Up, Heard
<1>11. Types'
  BY <1>5, <1>6, <1>7 DEF JsInv, Types, run
<1>12. Course'
  <2>1. Up' = 1..(k + 1)
    <3>1. Up' = Up \cup {w}
      BY <1>4, <1>7 DEF Up
    <3> QED  BY <1>2, <1>4, <3>1
  <2>2. w # main.jobs => k + 1 \in 0..(main'.jobs - 1)
    BY <1>1, <1>3, <1>4, <1>6 DEF Mains, Workers
  <2>3. Up' # {}
    BY <1>7 DEF Up
  <2> QED  BY <1>1, <1>6, <1>8, <2>1, <2>2, <2>3 DEF JsInv, Course
<1>13. ResultsAreTrue' /\ \A i : Reported(i)' <=> Reported(i)
  <2>1. /\ cursor \in Nat /\ cursor' \in Nat /\ cursor <= cursor' /\ UNCHANGED <<run, touched, torn>>
        /\ \A v \in Workers : worker'[v].results = worker[v].results
    BY <1>5, <1>7 DEF JsInv, Types
  <2> QED  BY <1>5, <1>6, <1>9, <2>1, ResultsStay
<1>14. \A v \in Workers : \A i : Claimed(v, i)' <=> Claimed(v, i)
  BY <1>7, <1>10 DEF Claimed
<1>15. ClaimsAreApart'
  BY <1>5, <1>6, <1>9, <1>13, <1>14 DEF ClaimsAreApart
<1>16. ClaimsArePlaces'
  BY <1>7, <1>8, <1>9 DEF ClaimsArePlaces
<1>17. NoneIsLost'
  BY <1>5, <1>8, <1>9, <1>13, <1>14 DEF NoneIsLost, Happened
<1>18. Heard'
  BY <1>5, <1>6, <1>7, <1>8, <1>9, <1>10 DEF Heard, LastWords, Arrived, Happened
<1>19. Pool'
  BY <1>13, <1>15, <1>16, <1>17, <1>18 DEF Pool
<1>20. \A f, k1 : AccountedFor(f, k1) => AccountedFor(f, k1)'
  BY <1>5, NothingIsWritten
<1>21. Kept'
  BY <1>1, <1>6, <1>8, <1>20 DEF JsInv, Kept
<1>22. Disk' /\ Here' /\ Passed' /\ Concluded'
  BY <1>5, <1>6, NothingIsWritten DEF JsInv, Here, Passed, Concluded
<1> QED  BY <1>11, <1>12, <1>19, <1>21, <1>22 DEF JsInv

LEMMA RefuseStep ==
    ASSUME JsInv, RefuseWorker
    PROVE  JsInv'
<1>1. main \in Mains /\ main.phase = "spawn" /\ main.pass \in Passes
  BY DEF JsInv, Types, RefuseWorker, Mains
<1>2. /\ main' \in Mains /\ main'.phase = (IF Up = {} THEN "sequential" ELSE "await")
      /\ main'.pass = main.pass /\ main'.files = main.files /\ main'.outcomes = main.outcomes
      /\ main'.kept = main.kept /\ main'.onMain = main.onMain /\ main'.next = main.next
      /\ main'.jobs = main.jobs
  BY <1>1 DEF Mains, RefuseWorker
<1>3. UNCHANGED <<run, touched, torn, unsound, cursor, worker>> /\ mishaps' = mishaps \cup {<<"refused", main.pass>>}
  BY DEF RefuseWorker
<1>4. /\ mishaps \subseteq mishaps'
      /\ mishaps' \subseteq {"refused", "threw", "killed", "unrecovered"} \X Passes
      /\ main.pass = 2 => Happened({"refused", "threw", "killed"}, {2})'
  <2> DEFINE m == <<"refused", main.pass>>
  <2>1. m \in mishaps' /\ m[1] = "refused" /\ m[2] = main.pass
    BY <1>3
  <2>2. mishaps' \subseteq {"refused", "threw", "killed", "unrecovered"} \X Passes
    BY <1>1, <1>3 DEF JsInv, Types
  <2> HIDE DEF m
  <2> QED  BY <1>3, <2>1, <2>2 DEF Happened
<1>5. Places' = Places /\ \A i, f : Placed(i, f)' <=> Placed(i, f)
  BY <1>2 DEF Places, Placed
<1>6. Types'
  BY <1>2, <1>3, <1>4 DEF JsInv, Types, run
<1>7. Course'
  <2>1. Up' = Up
    BY <1>3 DEF Up
  <2>2. Up = {} => \A w \in Workers : worker'[w].at = "none"
    BY <1>3 DEF Up
  <2>3. 1 \in Places
    BY <1>1 DEF JsInv, Course, Places, Mains
  <2> QED  BY <1>1, <1>2, <1>4, <1>5, <2>1, <2>2, <2>3 DEF JsInv, Course
<1>8. Pool'
  BY <1>1, <1>2, <1>3, <1>4, PoolStays
<1>9. \A f, k : AccountedFor(f, k) => AccountedFor(f, k)'
  BY <1>3, <1>4, NothingIsWritten
<1>10. Here'
  <2>1. Up = {} => \A i \in Files, f \in Files : Placed(i, f) => f \notin touched
    <3>1. Up = {} => \A i : ~Reported(i)
      BY <1>1 DEF JsInv, Pool, Heard, Reported, Up
    <3> QED  BY <1>1, <3>1 DEF JsInv, Pool, ResultsAreTrue
  <2>2. main.next = 1
    BY <1>1 DEF JsInv, Course
  <2> QED  BY <1>2, <1>3, <1>5, <2>1, <2>2 DEF Here, Files
<1>11. Kept'
  BY <1>1, <1>2, <1>5, <1>9 DEF JsInv, Kept
<1>12. Disk' /\ Passed' /\ Concluded'
  BY <1>2, <1>3, <1>4, NothingIsWritten DEF JsInv, Passed, Concluded
<1> QED  BY <1>6, <1>7, <1>8, <1>10, <1>11, <1>12 DEF JsInv

(* An event of a worker that is gone: its message fills in the outcomes, its *)
(* end settles it.                                                           *)
LEMMA HandleStep ==
    ASSUME JsInv, NEW w \in Workers, Handle(w)
    PROVE  JsInv'
<1>1. main \in Mains /\ main.phase = "await" /\ worker \in [Workers -> WorkerStates] /\ worker[w].inbox # <<>>
  BY DEF JsInv, Types, Handle
<1>2. /\ ClaimsAreApart /\ ClaimsArePlaces /\ ResultsAreTrue /\ NoneIsLost /\ Heard
      /\ DOMAIN main.outcomes = Places
  BY <1>1 DEF JsInv, Pool, Course
<1>3. worker[w].at = "gone" /\ LastWords(w)
  BY <1>1, <1>2 DEF Heard
<1>4. UNCHANGED <<run, touched, torn, unsound, cursor, mishaps>> /\ cursor \in Nat
  BY DEF Handle, JsInv, Types
<1>5. worker[w].inbox \in Seq(Events) /\ worker[w].results \in SUBSET (Files \X Kinds)
  BY <1>1 DEF WorkerStates
<1> DEFINE event == Head(worker[w].inbox)
<1>6. /\ Tail(worker[w].inbox) \in Seq(Events) /\ ~worker[w].settled
      /\ \/ event = Message(worker[w].results) /\ \E e \in {"error", "exit"} : Tail(worker[w].inbox) = <<Ended(e)>>
         \/ (\E e \in {"error", "exit"} : event = Ended(e)) /\ Tail(worker[w].inbox) = <<>> /\ Len(worker[w].inbox) = 1
  <2>1. Tail(worker[w].inbox) \in Seq(Events)
    BY <1>1, <1>5
  <2>2. CASE \E e \in {"error", "exit"} :
                worker[w].inbox = <<Message(worker[w].results), Ended(e)>> /\ ~worker[w].settled
    BY <2>1, <2>2
  <2>3. CASE \E e \in {"error", "exit"} : worker[w].inbox = <<Ended(e)>> /\ ~worker[w].settled
    BY <2>1, <2>3
  <2> QED  BY <1>1, <1>3, <2>2, <2>3 DEF LastWords
<1>7. PICK outcomes : outcomes = Filled(main.outcomes, event.results)
  OBVIOUS
<1>8. PICK settled \in BOOLEAN : settled <=> event.type # "message"
  OBVIOUS
<1>9. /\ event.results \subseteq worker[w].results
      /\ event.type = "message" => event.results = worker[w].results /\ Len(Tail(worker[w].inbox)) = 1
      /\ event.type # "message" => Tail(worker[w].inbox) = <<>> /\ Len(worker[w].inbox) = 1
      /\ event.type = "message" => \E e \in {"error", "exit"} : Tail(worker[w].inbox) = <<Ended(e)>>
  <2>1. CASE event = Message(worker[w].results)
    <3>1. event.type = "message" /\ event.results = worker[w].results
      BY <1>5, <2>1, EventsTyped
    <3>2. \E e \in {"error", "exit"} : Tail(worker[w].inbox) = <<Ended(e)>>
      <4>1. \A e \in {"error", "exit"} : event # Ended(e)
        BY <3>1, EventsTyped
      <4> QED  BY <1>6, <4>1
    <3>3. Len(Tail(worker[w].inbox)) = 1
      <4>1. PICK e \in {"error", "exit"} : Tail(worker[w].inbox) = <<Ended(e)>>
        BY <3>2
      <4>2. Len(<<Ended(e)>>) = 1
        OBVIOUS
      <4> QED  BY <4>1, <4>2
    <3> QED  BY <3>1, <3>2, <3>3
  <2>2. CASE \E e \in {"error", "exit"} : event = Ended(e)
    <3>1. event.type # "message" /\ event.results = {}
      BY <2>2, EventsTyped
    <3>2. event # Message(worker[w].results)
      BY <1>5, <3>1, EventsTyped
    <3> QED  BY <1>6, <3>1, <3>2
  <2> QED  BY <1>6, <2>1, <2>2
<1>10. /\ worker' = [worker EXCEPT ![w].inbox = Tail(@), ![w].settled = settled]
       /\ main' = [main EXCEPT !.outcomes = outcomes]
  <2>1. worker' = [worker EXCEPT ![w].inbox = Tail(@), ![w].settled = @ \/ event.type # "message"]
    BY DEF Handle
  <2>2. (worker[w].settled \/ event.type # "message") = settled
    BY <1>6, <1>8
  <2>3. main' = [main EXCEPT !.outcomes = outcomes]
    BY <1>7 DEF Handle
  <2> QED  BY <2>1, <2>2, <2>3
<1> HIDE DEF event
<1>11. /\ worker' \in [Workers -> WorkerStates]
       /\ \A v \in Workers : v # w => worker'[v] = worker[v]
       /\ \A v \in Workers : /\ worker'[v].at = worker[v].at /\ worker'[v].index = worker[v].index
                             /\ worker'[v].results = worker[v].results
       /\ worker'[w].inbox = Tail(worker[w].inbox) /\ worker'[w].settled = settled
  BY ZenonT(60), <1>1, <1>6, <1>10 DEF WorkerStates
<1>12. /\ outcomes \in Seq(Kinds) /\ DOMAIN outcomes = Places
       /\ \A i \in Places : \/ \E k \in Kinds : <<i, k>> \in event.results /\ outcomes[i] = k
                            \/ /\ ~(\E k \in Kinds : <<i, k>> \in event.results)
                               /\ outcomes[i] = main.outcomes[i]
  <2>1. main.outcomes \in Seq(Kinds)
    BY <1>1 DEF Mains
  <2>2. DOMAIN outcomes = Places
    BY <1>2, <1>7 DEF Filled
  <2>3. \A i \in Places : \/ \E k \in Kinds : <<i, k>> \in event.results /\ outcomes[i] = k
                          \/ /\ ~(\E k \in Kinds : <<i, k>> \in event.results)
                             /\ outcomes[i] = main.outcomes[i]
    BY <1>2, <1>7 DEF Filled
  <2>4. \A i \in Places : outcomes[i] \in Kinds
    <3>1. \A i \in Places : main.outcomes[i] \in Kinds
      BY <1>2, <2>1
    <3> QED  BY <2>3, <3>1
  <2>5. outcomes = [i \in 1..Len(main.outcomes) |-> outcomes[i]]
    BY <1>2, <1>7, <2>1 DEF Filled
  <2>6. outcomes \in Seq(Kinds)
    BY <1>2, <2>1, <2>4, <2>5
  <2> QED  BY <2>2, <2>3, <2>6
<1>13. /\ main' \in Mains /\ main'.phase = "await" /\ main'.outcomes = outcomes
       /\ main'.pass = main.pass /\ main'.files = main.files
       /\ main'.kept = main.kept /\ main'.onMain = main.onMain /\ main'.next = main.next
  BY <1>1, <1>10, <1>12 DEF Mains
<1>14. Places' = Places /\ \A i, f : Placed(i, f)' <=> Placed(i, f)
  BY <1>13 DEF Places, Placed
<1>15. Types'
  BY <1>4, <1>11, <1>13 DEF JsInv, Types, run
<1>16. Course'
  <2>1. Up' = Up
    BY <1>11 DEF Up
  <2> QED  BY <1>1, <1>12, <1>13, <1>14, <2>1 DEF JsInv, Course
<1>17. ResultsAreTrue' /\ \A i : Reported(i)' <=> Reported(i)
  <2>1. cursor' \in Nat /\ cursor <= cursor' /\ mishaps \subseteq mishaps'
    BY <1>4
  <2> QED  BY <1>2, <1>4, <1>11, <1>13, <2>1, ResultsStay
<1>18. \A v \in Workers : \A i : Claimed(v, i)' <=> Claimed(v, i)
  BY <1>11 DEF Claimed
<1>19. ClaimsAreApart'
  BY <1>2, <1>4, <1>13, <1>17, <1>18 DEF ClaimsAreApart
<1>20. ClaimsArePlaces'
  BY <1>2, <1>11, <1>14 DEF ClaimsArePlaces
<1>21. NoneIsLost'
  BY <1>2, <1>4, <1>14, <1>17, <1>18 DEF NoneIsLost, Happened
<1>22. /\ \A i \in Files, k \in Kinds : <<i, k>> \in worker[w].results => k # "unset"
       /\ \A v \in Workers, i \in Files, k \in Kinds : <<i, k>> \in worker[v].results => i \in Places
  <2>1. \A i \in Files, k \in Kinds : <<i, k>> \in worker[w].results => k # "unset"
    <3> SUFFICES ASSUME NEW i \in Files, NEW k \in Kinds, <<i, k>> \in worker[w].results PROVE k # "unset"
      OBVIOUS
    <3>1. i \in Places
      BY <1>2 DEF ResultsAreTrue
    <3>2. main.files[i] \in Files
      BY <1>1, <3>1 DEF Mains, Places
    <3>3. PICK f \in Files : Placed(i, f)
      BY <3>1, <3>2 DEF Placed
    <3>4. ToldByWorker(f, k)
      BY <1>2, <3>3 DEF ResultsAreTrue
    <3> QED  BY <3>4 DEF ToldByWorker, Told
  <2> QED  BY <1>2, <2>1 DEF ResultsAreTrue
<1>23. \A i \in Places : main.outcomes[i] # "unset" => outcomes[i] # "unset"
  <2>1. Places \subseteq Files
    BY DEF JsInv, Course
  <2> QED  BY <1>9, <1>12, <1>22, <2>1
<1>24. Heard'
  <2>1. LastWords(w)'
    BY <1>8, <1>9, <1>11 DEF LastWords
  <2>2. \A v \in Workers : v # w /\ LastWords(v) => LastWords(v)'
    BY <1>11 DEF LastWords
  <2>3. \A v \in Workers : Arrived(v) => Arrived(v)'
    BY <1>11, <1>13, <1>22, <1>23 DEF Arrived
  <2>4. Happened({"killed"}, Passes)' \/ Arrived(w)'
    <3>1. CASE event.type = "message"
      <4>1. \A i \in Files, k \in Kinds : <<i, k>> \in worker[w].results => outcomes[i] # "unset"
        BY <1>9, <1>12, <1>22, <3>1
      <4> QED  BY <1>11, <1>13, <4>1 DEF Arrived
    <3>2. CASE event.type # "message"
      <4>1. Happened({"killed"}, Passes) \/ Arrived(w)
        <5>1. Len(worker[w].inbox) = 1
          BY <1>9, <3>2
        <5>2. Len(worker[w].inbox) < 2
          BY <5>1
        <5> QED  BY <1>2, <1>3, <5>2 DEF Heard
      <4> QED  BY <1>4, <2>3, <4>1 DEF Happened
    <3> QED  BY <3>1, <3>2
  <2>5. \A i \in Places : main'.outcomes[i] # "unset" =>
           \E v \in Workers : <<i, main'.outcomes[i]>> \in worker'[v].results
    BY ZenonT(150), <1>2, <1>9, <1>11, <1>12, <1>13 DEF Heard
  <2>6. Happened(Deaths, {main.pass}) => Happened(Deaths, {main.pass})'
    BY <1>4, <1>13 DEF Happened
  <2>7. Happened({"killed"}, Passes) => Happened({"killed"}, Passes)'
    BY <1>4 DEF Happened
  <2>8. ASSUME NEW v \in Workers
        PROVE  /\ worker'[v].at # "gone" => worker'[v].inbox = <<>> /\ ~worker'[v].settled
               /\ worker'[v].at \in {"none", "loading"} => worker'[v].results = {}
               /\ worker'[v].at = "gone" =>
                     /\ LastWords(v)'
                     /\ cursor' > Len(main'.files) \/ Happened(Deaths, {main.pass})'
                     /\ Len(worker'[v].inbox) < 2 => Happened({"killed"}, Passes)' \/ Arrived(v)'
    <3>1. CASE v = w
      BY <1>2, <1>3, <1>4, <1>11, <1>13, <2>1, <2>4, <2>6, <3>1 DEF Heard
    <3>2. CASE v # w
      <4>1. worker'[v] = worker[v]
        BY <1>11, <3>2
      <4> QED  BY <1>2, <1>4, <1>13, <2>2, <2>3, <2>6, <2>7, <3>2, <4>1 DEF Heard
    <3> QED  BY <3>1, <3>2
  <2> QED  BY <1>14, <2>5, <2>8 DEF Heard
<1>25. Pool'
  BY <1>17, <1>19, <1>20, <1>21, <1>24 DEF Pool
<1>26. \A f, k : AccountedFor(f, k) => AccountedFor(f, k)'
  BY <1>4, NothingIsWritten
<1>27. Kept'
  BY <1>1, <1>13, <1>14, <1>26 DEF JsInv, Kept
<1>28. Disk' /\ Here' /\ Passed' /\ Concluded'
  BY <1>4, <1>13, NothingIsWritten DEF JsInv, Here, Passed, Concluded
<1> QED  BY <1>15, <1>16, <1>25, <1>27, <1>28 DEF JsInv

(* Once every worker settled, all are gone and nothing is left to hear.      *)
LEMMA AllGone ==
    ASSUME JsInv, AllSettled
    PROVE  /\ main.phase = "await" /\ Up # {}
           /\ ClaimsAreApart /\ ClaimsArePlaces /\ ResultsAreTrue /\ NoneIsLost /\ Heard
           /\ \A w \in Workers : /\ worker[w].at \in {"none", "gone"}
                                 /\ worker[w].at = "gone" => worker[w].inbox = <<>>
<1>1. main.phase = "await"
  BY DEF AllSettled
<1>2. Heard /\ ClaimsAreApart /\ ClaimsArePlaces /\ ResultsAreTrue /\ NoneIsLost /\ Up # {}
  BY <1>1 DEF JsInv, Pool, Course
<1>3. \A w \in Workers : worker[w].at # "none" => worker[w].settled
  BY DEF AllSettled, Up
<1>4. \A w \in Workers : worker[w].at # "none" => worker[w].at = "gone"
  BY <1>2, <1>3 DEF Heard
<1>5. \A w \in Workers : worker[w].at = "gone" => worker[w].inbox = <<>>
  BY <1>2, <1>3 DEF Heard, LastWords
<1> QED  BY <1>1, <1>2, <1>4, <1>5

LEMMA NobodyRanStep ==
    ASSUME JsInv, NobodyRan
    PROVE  JsInv'
<1>1. /\ main.phase = "await" /\ Up # {} /\ ResultsAreTrue /\ Heard
      /\ \A w \in Workers : worker[w].at \in {"none", "gone"}
  BY AllGone DEF NobodyRan
<1>2. main \in Mains /\ main.pass \in Passes
  BY DEF JsInv, Types, Mains
<1>3. /\ main' \in Mains /\ main'.phase = "sequential"
      /\ main'.pass = main.pass /\ main'.files = main.files /\ main'.outcomes = main.outcomes
      /\ main'.kept = main.kept /\ main'.onMain = main.onMain /\ main'.next = main.next
  BY <1>2 DEF Mains, NobodyRan
<1>4. UNCHANGED <<run, touched, torn, unsound, cursor, worker, mishaps>> /\ cursor = 0
  BY DEF NobodyRan
<1>5. Places' = Places /\ \A i, f : Placed(i, f)' <=> Placed(i, f)
  BY <1>3 DEF Places, Placed
<1>6. Types'
  BY <1>3, <1>4 DEF JsInv, Types, run
<1>7. main.pass = 2 => Happened({"refused", "threw", "killed"}, {2})
  <2>1. PICK w \in Workers : worker[w].at = "gone"
    BY <1>1 DEF Up
  <2>2. ~(cursor > Len(main.files))
    BY <1>2, <1>4 DEF JsInv, Course, Mains
  <2>3. Happened(Deaths, {main.pass})
    BY <1>1, <2>1, <2>2 DEF Heard
  <2> QED  BY <2>3 DEF Happened, Deaths
<1>8. Course'
  <2>1. 1 \in Places
    BY <1>2 DEF JsInv, Course, Places, Mains
  <2>2. main.pass = 2 => Happened({"refused", "threw", "killed"}, {2})'
    BY <1>4, <1>7 DEF Happened
  <2> QED  BY <1>1, <1>3, <1>4, <1>5, <2>1, <2>2 DEF JsInv, Course
<1>9. Here'
  <2>1. \A i \in Files, f \in Files : Placed(i, f) => f \notin touched
    <3>1. \A i \in Files : ~(i <= cursor)
      BY <1>4 DEF Files
    <3>2. \A i \in Files : ~Reported(i)
      BY <1>1, <3>1 DEF Reported, ResultsAreTrue
    <3> QED  BY <1>1, <3>2 DEF ResultsAreTrue
  <2>2. main.next = 1
    BY <1>1 DEF JsInv, Course
  <2> QED  BY <1>3, <1>4, <1>5, <2>1, <2>2 DEF Here, Files
<1>10. \A f, k : AccountedFor(f, k) => AccountedFor(f, k)'
  BY <1>4, NothingIsWritten
<1>11. Kept'
  BY <1>1, <1>3, <1>5, <1>10 DEF JsInv, Kept
<1>12. Disk' /\ Pool' /\ Passed' /\ Concluded'
  BY <1>3, <1>4, NothingIsWritten DEF JsInv, Pool, Passed, Concluded
<1> QED  BY <1>6, <1>8, <1>9, <1>11, <1>12 DEF JsInv

LEMMA SweepStep ==
    ASSUME JsInv, Sweep
    PROVE  JsInv'
<1>1. /\ main.phase = "await" /\ Up # {} /\ ResultsAreTrue /\ NoneIsLost /\ Heard
      /\ \A w \in Workers : /\ worker[w].at \in {"none", "gone"}
                            /\ worker[w].at = "gone" => worker[w].inbox = <<>>
  BY AllGone DEF Sweep
<1>2. main \in Mains /\ DOMAIN main.outcomes = Places /\ Places \subseteq Files /\ main.outcomes \in Seq(Kinds)
  BY <1>1 DEF JsInv, Types, Mains, Course
<1>3. PICK outcomes : outcomes = [i \in DOMAIN main.outcomes |->
                          IF main.outcomes[i] = "unset" THEN "stranded" ELSE main.outcomes[i]]
  OBVIOUS
<1>4. outcomes \in Seq(Kinds) /\ DOMAIN outcomes = Places
  <2>1. outcomes = [i \in 1..Len(main.outcomes) |-> outcomes[i]]
    BY <1>2, <1>3
  <2>2. \A i \in 1..Len(main.outcomes) : outcomes[i] \in Kinds
    BY <1>2, <1>3 DEF Kinds
  <2>3. Len(main.outcomes) \in Nat /\ DOMAIN outcomes = Places
    BY <1>2, <1>3
  <2>4. outcomes \in [1..Len(main.outcomes) -> Kinds]
    BY <2>1, <2>2
  <2> QED  BY <2>3, <2>4
<1>5. main' = [main EXCEPT !.phase = "passed", !.outcomes = outcomes]
  BY <1>3 DEF Sweep
<1>6. /\ main' \in Mains /\ main'.phase = "passed" /\ main'.outcomes = outcomes
      /\ main'.pass = main.pass /\ main'.files = main.files
      /\ main'.kept = main.kept /\ main'.onMain = main.onMain /\ main'.next = main.next
  BY <1>2, <1>4, <1>5 DEF Mains
<1>7. UNCHANGED <<run, touched, torn, unsound, cursor, worker, mishaps>>
  BY DEF Sweep
<1>8. Places' = Places /\ \A i, f : Placed(i, f)' <=> Placed(i, f)
  BY <1>6 DEF Places, Placed
<1>9. Types'
  BY <1>6, <1>7 DEF JsInv, Types, run
<1>10. Course'
  BY <1>1, <1>4, <1>6, <1>7, <1>8 DEF JsInv, Course
<1>11. /\ \A f, k : /\ AccountedFor(f, k) => AccountedFor(f, k)'
                    /\ DeepIsExcused(f, k) => DeepIsExcused(f, k)'
  BY <1>7, NothingIsWritten
<1>12. Passed'
  <2> SUFFICES ASSUME NEW i \in Files, NEW f \in Files, NEW k \in Kinds, Placed(i, f), k = outcomes[i]
               PROVE  AccountedFor(f, k) /\ DeepIsExcused(f, k)
    BY <1>6, <1>8, <1>11 DEF Passed
  <2>0. i \in Places
    BY DEF Placed
  <2>1. CASE main.outcomes[i] # "unset"
    <3>1. PICK w \in Workers : <<i, main.outcomes[i]>> \in worker[w].results
      BY <1>1, <2>0, <2>1 DEF Heard
    <3>2. k = main.outcomes[i]
      BY <1>2, <1>3, <2>0, <2>1
    <3>3. ToldByWorker(f, k)
      BY <1>1, <3>1, <3>2 DEF ResultsAreTrue
    <3> QED  BY <3>3 DEF ToldByWorker, AccountedFor, DeepIsExcused
  <2>2. CASE main.outcomes[i] = "unset"
    <3>1. k = "stranded"
      BY <1>2, <1>3, <2>0, <2>2
    <3>2. Happened(Deaths, Passes)
      <4>1. PICK w \in Workers : worker[w].at = "gone"
        BY <1>1 DEF Up
      <4>2. CASE Happened(Deaths, {main.pass})
        BY <1>2, <4>2 DEF Happened, Mains
      <4>3. CASE cursor > Len(main.files)
        <5>1. i <= cursor
          BY <1>2, <2>0, <4>3 DEF Places, Mains, JsInv, Types
        <5>2. \A v \in Workers : ~Claimed(v, i)
          BY <1>1 DEF Claimed
        <5>3. CASE Reported(i)
          <6>1. PICK v \in Workers, kind \in Kinds : <<i, kind>> \in worker[v].results
            BY <5>3 DEF Reported
          <6>2. worker[v].at = "gone" /\ Len(worker[v].inbox) < 2 /\ ~Arrived(v)
            BY <1>1, <2>2, <6>1 DEF Heard, Arrived
          <6>3. Happened({"killed"}, Passes)
            BY <1>1, <6>2 DEF Heard
          <6> QED  BY <6>3 DEF Happened, Deaths
        <5> QED  BY <1>1, <2>0, <5>1, <5>2, <5>3 DEF NoneIsLost
      <4> QED  BY <1>1, <4>1, <4>2, <4>3 DEF Heard
    <3>3. f \in touched => Happened({"killed"}, Passes)
      <4> SUFFICES ASSUME f \in touched PROVE Happened({"killed"}, Passes)
        OBVIOUS
      <4>1. PICK v \in Workers, kind \in Kinds : <<i, kind>> \in worker[v].results
        BY <1>1 DEF ResultsAreTrue, Reported
      <4>2. worker[v].at = "gone" /\ Len(worker[v].inbox) < 2 /\ ~Arrived(v)
        BY <1>1, <2>2, <4>1 DEF Heard, Arrived
      <4> QED  BY <1>1, <4>2 DEF Heard
    <3> QED  BY <3>1, <3>2, <3>3 DEF AccountedFor, Stranded, DeepIsExcused
  <2> QED  BY <2>1, <2>2
<1>13. Kept'
  BY <1>1, <1>6, <1>8, <1>11 DEF JsInv, Kept
<1>14. Disk' /\ Pool' /\ Here' /\ Concluded'
  BY <1>6, <1>7, NothingIsWritten DEF JsInv, Pool, Here, Concluded
<1> QED  BY <1>9, <1>10, <1>12, <1>13, <1>14 DEF JsInv

(* The main thread formats the next file itself. *)
LEMMA FormatHereStep ==
    ASSUME JsInv, FormatHere
    PROVE  JsInv'
<1>1. main \in Mains /\ main.phase = "sequential" /\ main.pass \in Passes /\ main.outcomes \in Seq(Kinds)
  BY DEF JsInv, Types, Mains, FormatHere
<1>2. /\ DOMAIN main.outcomes = Places /\ Places \subseteq Files /\ main.next \in Places
      /\ \A w \in Workers : worker[w].at \in {"none", "gone"}
      /\ main.files \in Seq(Files) /\ Places = 1..Len(main.files)
  BY <1>1 DEF JsInv, Course, Mains, Places
<1>3. PICK place \in Places : place = main.next
  BY <1>2
<1>4. PICK file \in Files : file = main.files[place]
  <2>1. main.files[place] \in Files
    BY <1>2, <1>3
  <2> QED  BY <2>1
<1>5. PICK kind \in Kinds :
         /\ FormatOne(file, Main, kind)
         /\ main' = [main EXCEPT !.outcomes[place] = kind, !.next = place + 1, !.onMain = TRUE,
                       !.phase = IF place = Len(main.files) THEN "passed" ELSE @]
  BY <1>3, <1>4 DEF FormatHere
<1>6. UNCHANGED <<run, cursor, worker>> /\ source' = source /\ check' = check
  BY DEF FormatHere, run
<1>7. PICK outcomes : outcomes = [main.outcomes EXCEPT ![place] = kind]
  OBVIOUS
<1>8. /\ outcomes \in Seq(Kinds) /\ DOMAIN outcomes = Places /\ outcomes[place] = kind
      /\ \A i \in Places : i # place => outcomes[i] = main.outcomes[i]
  BY <1>1, <1>2, <1>7
<1>9. /\ main' \in Mains /\ main'.outcomes = outcomes /\ main'.next = place + 1 /\ main'.onMain
      /\ main'.phase = (IF place = Len(main.files) THEN "passed" ELSE "sequential")
      /\ main'.pass = main.pass /\ main'.files = main.files /\ main'.kept = main.kept
  <2>1. main' = [main EXCEPT !.outcomes = outcomes, !.next = place + 1, !.onMain = TRUE,
                   !.phase = IF place = Len(main.files) THEN "passed" ELSE "sequential"]
    BY <1>1, <1>5, <1>7 DEF Mains
  <2>2. place + 1 \in Nat
    BY <1>2
  <2> QED  BY <1>1, <1>8, <2>1, <2>2 DEF Mains
<1>10. Places' = Places /\ \A i, f : Placed(i, f)' <=> Placed(i, f)
  BY <1>9 DEF Places, Placed
<1>11. \A i : Placed(i, file) <=> i = place
  BY <1>2, <1>3, <1>4 DEF JsInv, Course, Placed
<1>12. file \notin touched
  <2>1. place >= main.next
    BY <1>2, <1>3
  <2> QED  BY <1>1, <1>2, <1>11, <2>1 DEF JsInv, Here
<1>13. /\ Told(file, kind)' /\ Disk'
       /\ touched' \subseteq Files /\ torn' \subseteq touched' /\ unsound' \subseteq Workers \cup {Main}
       /\ \A g : g # file => (g \in touched' <=> g \in touched) /\ (g \in torn' <=> g \in torn)
       /\ mishaps \subseteq mishaps'
       /\ mishaps' \subseteq {"refused", "threw", "killed", "unrecovered"} \X Passes
  <2>1. Types /\ Disk /\ main'.pass \in Passes
    BY <1>1, <1>9 DEF JsInv
  <2>2. Main \in Workers \cup {Main}
    OBVIOUS
  <2> QED  BY <1>5, <1>6, <1>12, <2>1, <2>2, FormattingTells
<1>14. Types'
  BY <1>6, <1>9, <1>13 DEF JsInv, Types, run
<1>15. \A what, passes : Happened(what, passes) => Happened(what, passes)'
  BY <1>13, HappenedStays
<1>16. \A g, k : g # file => /\ Told(g, k) => Told(g, k)'
                             /\ AccountedFor(g, k) => AccountedFor(g, k)'
  BY <1>6, <1>13, VerdictStays
<1>17. main.pass = 2 => Happened({"refused", "threw", "killed"}, {2})'
  BY <1>1, <1>15 DEF JsInv, Course
<1>18. Course'
  <2>1. place # Len(main.files) => place + 1 \in Places
    BY <1>2
  <2> QED  BY <1>1, <1>2, <1>6, <1>8, <1>9, <1>10, <1>17, <2>1 DEF JsInv, Course
<1>19. \A i \in Files, f \in Files, k \in Kinds :
          Placed(i, f) /\ i < place + 1 /\ k = outcomes[i] => Told(f, k)'
  <2> SUFFICES ASSUME NEW i \in Files, NEW f \in Files, NEW k \in Kinds,
                      Placed(i, f), i < place + 1, k = outcomes[i]
               PROVE  Told(f, k)'
    OBVIOUS
  <2>1. CASE i = place
    BY <1>4, <1>8, <1>13, <2>1 DEF Placed
  <2>2. CASE i # place
    <3>1. i \in Places /\ i < main.next
      BY <1>2, <1>3, <2>2 DEF Placed
    <3>2. Told(f, k) /\ f # file
      BY <1>1, <1>8, <1>11, <2>2, <3>1 DEF JsInv, Here
    <3> QED  BY <1>16, <3>2
  <2> QED  BY <2>1, <2>2
<1>20. Here'
  <2>1. \A i \in Files, f \in Files : Placed(i, f) /\ i >= place + 1 => f \notin touched'
    <3> SUFFICES ASSUME NEW i \in Files, NEW f \in Files, Placed(i, f), i >= place + 1
                 PROVE  f \notin touched'
      OBVIOUS
    <3>1. i \in Places /\ i # place /\ i >= main.next
      BY <1>2, <1>3 DEF Placed
    <3>2. f # file /\ f \notin touched
      BY <1>1, <1>11, <3>1 DEF JsInv, Here
    <3> QED  BY <1>13, <3>2
  <2> QED  BY <1>9, <1>10, <1>19, <2>1 DEF Here
<1>21. Passed'
  <2> SUFFICES ASSUME place = Len(main.files), NEW i \in Files, NEW f \in Files, NEW k \in Kinds,
                      Placed(i, f), k = outcomes[i]
               PROVE  AccountedFor(f, k)' /\ (main.pass = 2 => DeepIsExcused(f, k)')
    BY <1>9, <1>10 DEF Passed
  <2>1. i < place + 1
    BY <1>2 DEF Placed
  <2>2. Told(f, k)'
    BY <1>19, <2>1
  <2> QED  BY <1>17, <2>2 DEF AccountedFor, DeepIsExcused
<1>22. Kept'
  <2> SUFFICES ASSUME main.pass = 2
               PROVE  /\ DOMAIN main.kept = Files
                      /\ \A f \in Files : main.kept[f] = "overflow" <=> \E i \in Files : Placed(i, f)
                      /\ \A f \in Files, k \in Kinds :
                            k = main.kept[f] /\ k # "overflow" => AccountedFor(f, k)'
    BY <1>9, <1>10 DEF Kept
  <2>1. /\ DOMAIN main.kept = Files
        /\ \A f \in Files : main.kept[f] = "overflow" <=> \E i \in Files : Placed(i, f)
        /\ \A f \in Files, k \in Kinds : k = main.kept[f] /\ k # "overflow" => AccountedFor(f, k)
    BY <1>1 DEF JsInv, Kept
  <2>2. main.kept[file] = "overflow"
    BY <1>2, <1>11, <2>1
  <2> QED  BY <1>16, <2>1, <2>2
<1>23. Pool' /\ Concluded'
  BY <1>9 DEF Pool, Concluded
<1> QED  BY <1>13, <1>14, <1>18, <1>20, <1>21, <1>22, <1>23 DEF JsInv

(* The overflows of the first pass, and nothing else, go to a pool of one.   *)
LEMMA RetryStep ==
    ASSUME JsInv, Retry
    PROVE  JsInv'
<1> USE SizesAssumption
<1>1. /\ main \in Mains /\ main.phase = "passed" /\ main.pass = 1 /\ main.onMain /\ Overflowed # {}
      /\ main.outcomes \in Seq(Kinds)
  BY DEF JsInv, Types, Mains, Retry
<1>2. main.files = [i \in Files |-> i] /\ Places = Files /\ DOMAIN main.outcomes = Files
  BY <1>1 DEF JsInv, Course, Places
<1>3. PICK retry \in InOrder(Overflowed) :
         main' = [main EXCEPT !.phase = "spawn", !.pass = 2, !.jobs = 1, !.files = retry,
                    !.outcomes = Unset(Len(retry)), !.kept = main.outcomes, !.next = 1]
  BY DEF Retry
<1> DEFINE n == Cardinality(Overflowed)
<1>4. Overflowed \subseteq Files /\ \A f \in Files : f \in Overflowed <=> main.outcomes[f] = "overflow"
  BY <1>2 DEF Overflowed
<1>5. n \in Nat /\ n <= FileCount
  <2>1. IsFiniteSet(Files) /\ Cardinality(Files) = FileCount
    BY FS_Interval DEF Files
  <2> QED  BY <1>4, <2>1, FS_Subset, FS_CardinalityType
<1>6. retry \in [1..n -> Overflowed]
  BY <1>3 DEF InOrder
<1>7. /\ \A i, j \in 1..n : i < j => retry[i] < retry[j]
      /\ \A f \in Overflowed : \E i \in 1..n : retry[i] = f
  <2>1. DOMAIN retry = 1..n
    BY <1>6
  <2> QED  BY <1>3, <2>1 DEF InOrder
<1> HIDE DEF n
<1>8. /\ retry \in Seq(Files) /\ Len(retry) = n /\ DOMAIN retry = 1..n /\ 1..n \subseteq Files
      /\ \A i \in 1..n : retry[i] \in Files
  <2>1. \A i \in 1..n : retry[i] \in Files
    BY <1>4, <1>6
  <2>2. retry \in [1..n -> Files]
    BY <1>6, <2>1
  <2> QED  BY <1>5, <2>1, <2>2 DEF Files
<1>9. n > 0
  <2>1. PICK f \in Overflowed : TRUE
    BY <1>1
  <2>2. PICK i \in 1..n : retry[i] = f
    BY <1>7
  <2> QED  BY <1>5, <2>2
<1>10. \A i, j \in 1..n : retry[i] = retry[j] => i = j
  <2> SUFFICES ASSUME NEW i \in 1..n, NEW j \in 1..n, retry[i] = retry[j], i # j PROVE FALSE
    OBVIOUS
  <2>1. retry[i] \in Nat /\ retry[j] \in Nat
    BY <1>8 DEF Files
  <2>2. CASE i < j
    BY <1>7, <2>1, <2>2
  <2>3. CASE j < i
    BY <1>7, <2>1, <2>3
  <2> QED  BY <1>5, <2>2, <2>3
<1>11. PICK outcomes : outcomes = Unset(Len(retry))
  OBVIOUS
<1>12. outcomes \in Seq(Kinds) /\ DOMAIN outcomes = 1..n /\ \A i \in 1..n : outcomes[i] = "unset"
  <2>1. outcomes = [i \in 1..n |-> "unset"]
    BY <1>8, <1>11 DEF Unset
  <2>2. outcomes \in [1..n -> Kinds]
    BY <2>1 DEF Kinds
  <2> QED  BY <1>5, <2>1, <2>2
<1>13. /\ main' \in Mains /\ main'.phase = "spawn" /\ main'.pass = 2 /\ main'.jobs = 1
       /\ main'.files = retry /\ main'.outcomes = outcomes /\ main'.kept = main.outcomes
       /\ main'.next = 1 /\ main'.onMain
  <2>1. 1 \in Workers /\ 2 \in Passes
    BY DEF Workers, Passes
  <2>2. main' = [main EXCEPT !.phase = "spawn", !.pass = 2, !.jobs = 1, !.files = retry,
                   !.outcomes = outcomes, !.kept = main.outcomes, !.next = 1]
    BY <1>3, <1>11
  <2> QED  BY <1>1, <1>8, <1>12, <2>1, <2>2 DEF Mains
<1>14. /\ UNCHANGED <<run, touched, torn, mishaps>> /\ cursor' = 0 /\ unsound' = unsound \ Workers
       /\ worker' = [w \in Workers |-> NoWorker]
  BY DEF Retry
<1>15. worker' \in [Workers -> WorkerStates]
  <2>1. NoWorker \in WorkerStates
    BY DEF NoWorker, WorkerStates
  <2> QED  BY <1>14, <2>1
<1>16. \A w \in Workers : /\ worker'[w].at = "none" /\ worker'[w].results = {}
                          /\ worker'[w].inbox = <<>> /\ ~worker'[w].settled
  BY <1>14 DEF NoWorker
<1>17. Places' = 1..n /\ \A i, f : Placed(i, f)' <=> i \in 1..n /\ retry[i] = f
  BY <1>8, <1>13 DEF Places, Placed
<1>18. Types'
  BY <1>13, <1>14, <1>15 DEF JsInv, Types, run
<1>19. Course'
  <2>1. Up' = {} /\ 1..0 = {} /\ 0 \in 0..(main'.jobs - 1)
    BY <1>13, <1>16 DEF Up
  <2>2. \E k \in 0..(main'.jobs - 1) : Up' = 1..k
    BY <2>1
  <2> QED  BY <1>8, <1>9, <1>10, <1>12, <1>13, <1>17, <2>2 DEF Course
<1>20. \A f \in Files : AccountedFor(f, main.outcomes[f])
  <2>1. \A f \in Files : Placed(f, f) /\ main.outcomes[f] \in Kinds
    BY <1>1, <1>2 DEF Placed
  <2> QED  BY <1>1, <2>1 DEF JsInv, Passed
<1>21. \A f, k : AccountedFor(f, k) => AccountedFor(f, k)'
  BY <1>14, NothingIsWritten
<1>22. \A f \in Overflowed : f \notin touched
  BY <1>4, <1>20 DEF AccountedFor, Told
<1>23. Pool'
  <2>1. \A w \in Workers : \A i : ~Claimed(w, i)'
    BY <1>16 DEF Claimed
  <2>2. ClaimsAreApart' /\ ClaimsArePlaces'
    BY <1>16, <2>1 DEF ClaimsAreApart, ClaimsArePlaces
  <2>3. ResultsAreTrue'
    <3>1. \A i \in 1..n : retry[i] \notin touched
      BY <1>6, <1>22
    <3> QED  BY <1>14, <1>16, <1>17, <3>1 DEF ResultsAreTrue
  <2>4. NoneIsLost'
    <3>1. \A i \in 1..n : ~(i <= 0)
      BY <1>5
    <3> QED  BY <1>14, <1>17, <3>1 DEF NoneIsLost
  <2>5. Heard'
    BY <1>12, <1>13, <1>16, <1>17 DEF Heard
  <2> QED  BY <2>2, <2>3, <2>4, <2>5 DEF Pool
<1>24. Kept'
  <2>1. \A f \in Files : main.outcomes[f] = "overflow" <=> \E i \in Files : Placed(i, f)'
    <3>1. \A f \in Files : main.outcomes[f] = "overflow" <=> \E i \in 1..n : retry[i] = f
      BY <1>4, <1>6, <1>7
    <3> QED  BY <1>8, <1>17, <3>1
  <2> QED  BY <1>2, <1>13, <1>20, <1>21, <2>1 DEF Kept
<1>25. Disk'
  <2>1. unsound' \subseteq unsound /\ Disk
    BY <1>14 DEF JsInv
  <2> QED  BY <1>14, <2>1, NothingIsWritten
<1>26. Here' /\ Passed' /\ Concluded'
  BY <1>13 DEF Here, Passed, Concluded
<1> QED  BY <1>18, <1>19, <1>23, <1>24, <1>25, <1>26 DEF JsInv

(* The outcomes of both passes together, each at its own file.               *)
LEMMA ReportStep ==
    ASSUME JsInv, Report
    PROVE  JsInv'
<1>1. /\ main \in Mains /\ main.phase = "passed" /\ main.pass \in Passes /\ main.outcomes \in Seq(Kinds)
      /\ main.kept \in Seq(Kinds) /\ main.files \in Seq(Files)
  BY DEF JsInv, Types, Mains, Report
<1>2. /\ DOMAIN main.outcomes = Places /\ Places \subseteq Files
      /\ main.pass = 1 => main.files = [i \in Files |-> i] /\ Places = Files
  BY <1>1 DEF JsInv, Course, Places
<1>3. PICK outcomes : outcomes = IF main.pass = 1 THEN main.outcomes
                                 ELSE Merged(main.kept, main.files, main.outcomes)
  OBVIOUS
<1>4. main' = [main EXCEPT !.phase = "done", !.outcomes = outcomes, !.status = Status(outcomes)]
  BY <1>3 DEF Report
<1>5. UNCHANGED <<run, touched, torn, unsound, cursor, worker, mishaps>>
  BY DEF Report
<1>6. \A i \in Places, f \in Files, k \in Kinds : main.files[i] = f /\ k = main.outcomes[i] =>
         /\ AccountedFor(f, k)
         /\ main.pass = 2 \/ ~main.onMain => DeepIsExcused(f, k)
  BY <1>1, <1>2 DEF JsInv, Passed, Placed
<1>7. \A i \in Places : main.outcomes[i] \in Kinds /\ main.files[i] \in Files
  BY <1>1, <1>2 DEF Places
<1>8. /\ outcomes \in Seq(Kinds) /\ DOMAIN outcomes = Files
      /\ \A f \in Files : AccountedFor(f, outcomes[f]) /\ DeepIsExcused(f, outcomes[f])
  <2>1. CASE main.pass = 1
    <3>1. outcomes = main.outcomes
      BY <1>3, <2>1
    <3>2. \A f \in Files : outcomes[f] \in Kinds /\ AccountedFor(f, outcomes[f])
      BY <1>2, <1>6, <1>7, <2>1, <3>1
    <3>3. ASSUME NEW f \in Files PROVE DeepIsExcused(f, outcomes[f])
      <4>1. CASE ~main.onMain
        BY <1>2, <1>6, <1>7, <2>1, <3>1, <4>1
      <4>2. CASE Overflowed = {}
        <5>1. outcomes[f] # "overflow"
          BY <1>2, <2>1, <3>1, <4>2 DEF Overflowed
        <5> QED  BY <5>1 DEF DeepIsExcused
      <4> QED  BY <2>1, <4>1, <4>2 DEF Report
    <3> QED  BY <1>1, <1>2, <2>1, <3>1, <3>2, <3>3
  <2>2. CASE main.pass = 2
    <3>1. /\ DOMAIN main.kept = Files
          /\ \A f \in Files : main.kept[f] = "overflow" <=> \E i \in Files : Placed(i, f)
          /\ \A f \in Files, k \in Kinds : k = main.kept[f] /\ k # "overflow" => AccountedFor(f, k)
      BY <1>1, <2>2 DEF JsInv, Kept
    <3>2. outcomes = Merged(main.kept, main.files, main.outcomes)
      BY <1>3, <2>2
    <3>3. ASSUME NEW f \in Files
          PROVE  outcomes[f] \in Kinds /\ AccountedFor(f, outcomes[f]) /\ DeepIsExcused(f, outcomes[f])
      <4>1. CASE \E i \in Places : main.files[i] = f
        <5>1. PICK i \in Places : main.files[i] = f /\ outcomes[f] = main.outcomes[i]
          BY <3>1, <3>2, <4>1 DEF Merged, Places
        <5> QED  BY <1>6, <1>7, <2>2, <5>1
      <4>2. CASE ~\E i \in Places : main.files[i] = f
        <5>1. outcomes[f] = main.kept[f]
          BY <3>1, <3>2, <4>2 DEF Merged, Places
        <5>2. main.kept[f] \in Kinds /\ main.kept[f] # "overflow"
          BY <1>1, <3>1, <4>2 DEF Placed
        <5> QED  BY <3>1, <5>1, <5>2 DEF DeepIsExcused
      <4> QED  BY <4>1, <4>2
    <3>4. outcomes = [f \in 1..Len(main.kept) |-> outcomes[f]] /\ 1..Len(main.kept) = Files /\ Len(main.kept) \in Nat
      BY <1>1, <3>1, <3>2 DEF Merged
    <3>5. outcomes \in [1..Len(main.kept) -> Kinds]
      BY <3>3, <3>4
    <3>6. outcomes \in Seq(Kinds) /\ DOMAIN outcomes = Files
      BY <3>4, <3>5
    <3> QED  BY <3>3, <3>6
  <2> QED  BY <1>1, <2>1, <2>2 DEF Passes
<1>9. Status(outcomes) \in 0..2
  BY DEF Status
<1>10. /\ main' \in Mains /\ main'.phase = "done" /\ main'.outcomes = outcomes
       /\ main'.status = Status(outcomes) /\ main'.pass = main.pass /\ main'.files = main.files
       /\ main'.onMain = main.onMain
  BY <1>1, <1>4, <1>8, <1>9 DEF Mains
<1>11. Types'
  BY <1>5, <1>10 DEF JsInv, Types, run
<1>12. Course'
  <2>1. Places' = Places /\ \A w \in Workers : worker'[w].at \in {"none", "gone"}
    BY <1>1, <1>5, <1>10 DEF JsInv, Course, Places
  <2> QED  BY <1>1, <1>10, <2>1 DEF JsInv, Course
<1>13. Concluded'
  <2>1. Status(outcomes) = 0 => \A f \in Files :
           outcomes[f] = "unchanged" \/ (outcomes[f] = "changed" /\ ~check)
    BY <1>8 DEF Status
  <2>2. \A f, k : /\ AccountedFor(f, k) => AccountedFor(f, k)'
                  /\ DeepIsExcused(f, k) => DeepIsExcused(f, k)'
    BY <1>5, NothingIsWritten
  <2>3. check' = check
    BY <1>5 DEF run
  <2> QED  BY <1>8, <1>10, <2>1, <2>2, <2>3 DEF Concluded
<1>14. Disk' /\ Pool' /\ Here' /\ Passed' /\ Kept'
  BY <1>5, <1>10, NothingIsWritten DEF JsInv, Pool, Here, Passed, Kept
<1> QED  BY <1>11, <1>12, <1>13, <1>14 DEF JsInv

---------------------------------------------------------------------------
(* The theorems *)

LEMMA StepHolds == JsInv /\ [Next]_vars => JsInv'
<1> SUFFICES ASSUME JsInv, [Next]_vars PROVE JsInv'
  OBVIOUS
<1>1. CASE Next
  BY <1>1, RouteStep, SpawnStep, RefuseStep, HandleStep, NobodyRanStep, SweepStep, FormatHereStep,
     RetryStep, ReportStep, LoadedStep, ClaimStep, FormatStep, ThrowStep, KilledStep
     DEF Next, MainStep, WorkerStep
<1>2. CASE UNCHANGED vars
  <2>1. UNCHANGED <<run, touched, torn, unsound, main, cursor, worker, mishaps>>
    BY <1>2 DEF vars, run
  <2>2. Disk' /\ Here' /\ Passed' /\ Kept' /\ Concluded'
    BY <2>1, MainIsStill
  <2>3. Pool'
    <3>1. CASE main.phase \in {"route", "spawn", "await"}
      BY <2>1, <3>1, PoolStays
    <3>2. CASE main.phase \notin {"route", "spawn", "await"}
      BY <2>1, <3>2 DEF Pool
    <3> QED  BY <3>1, <3>2
  <2>4. Types'
    BY <1>2 DEF JsInv, Types, vars
  <2>5. Course'
    BY <2>1 DEF JsInv, Course, Up, Places, Happened
  <2> QED  BY <2>2, <2>3, <2>4, <2>5 DEF JsInv
<1> QED  BY <1>1, <1>2

(* The invariant holds of every run, for every list of files and every width *)
(* of the pool.                                                              *)
THEOREM JsInvariant == Spec => []JsInv
BY InitHolds, StepHolds, PTL DEF Spec

LEMMA OutcomeOf ==
    ASSUME JsInv, Done, NEW f \in Files
    PROVE  /\ DOMAIN main.outcomes = Files /\ Outcome(f) \in Kinds
           /\ AccountedFor(f, Outcome(f)) /\ DeepIsExcused(f, Outcome(f))
           /\ main.status = 0 => Outcome(f) = "unchanged" \/ (Outcome(f) = "changed" /\ ~check)
<1>1. main.phase = "done" /\ main.outcomes \in Seq(Kinds)
  BY DEF Done, JsInv, Types, Mains
<1>2. DOMAIN main.outcomes = Files
  BY <1>1 DEF JsInv, Concluded
<1>3. main.outcomes[f] \in Kinds
  BY <1>1, <1>2
<1> QED  BY <1>1, <1>2, <1>3 DEF JsInv, Concluded, Outcome

(* What a run reports is true of the disk: the counts, and the exit status,  *)
(* whatever became of the workers (cli.js:1342, 1376).                       *)
THEOREM ReportIsTrue == Spec => []ReportTrue
<1>1. JsInv => ReportTrue
  <2> SUFFICES ASSUME JsInv, Done PROVE ReportTrue
    BY DEF ReportTrue
  <2>1. DOMAIN main.outcomes = Files
    BY DEF Done, JsInv, Concluded
  <2>2. \A f \in Files : /\ AccountedFor(f, Outcome(f))
                         /\ main.status = 0 => Outcome(f) = "unchanged" \/ (Outcome(f) = "changed" /\ ~check)
    BY OutcomeOf
  <2> QED  BY <2>1, <2>2 DEF ReportTrue, AccountedFor, Told, rewritten
<1> QED  BY <1>1, JsInvariant, PTL

(* A file reported as an error was left as it was, but by a write that       *)
(* failed; whichever file such a write left torn is reported as that, and as *)
(* nothing else.  So on every run but one where a worker was killed with its *)
(* report unposted (cli.js:921, 1346, 1463).                                 *)
THEOREM ErrorsLeaveTheFile == Spec => []ErrorsAreUntouched
<1>1. JsInv => ErrorsAreUntouched
  <2> SUFFICES ASSUME JsInv, Done, ~Happened({"killed"}, Passes), NEW f \in Files
               PROVE  /\ Outcome(f) \in {"error", "overflow", "stranded"} => f \notin touched
                      /\ Outcome(f) = "unwritten" => f \notin rewritten
                      /\ f \in torn => Outcome(f) = "unwritten"
    BY DEF ErrorsAreUntouched
  <2>1. AccountedFor(f, Outcome(f)) /\ torn \subseteq touched
    BY OutcomeOf DEF JsInv, Types
  <2> QED  BY <2>1 DEF AccountedFor, Told, Stranded, rewritten
<1> QED  BY <1>1, JsInvariant, PTL

(* A file's verdict is the one a worker gives it, whichever route ran it and *)
(* however wide the pool, but for the mishaps that excuse another            *)
(* (cli.js:828, 895, 921).                                                   *)
THEOREM VerdictIsTheFiles == Spec => []SameVerdict
<1>1. JsInv => SameVerdict
  BY OutcomeOf DEF SameVerdict, AccountedFor, Told, Stranded, DeepIsExcused, Deaths
<1> QED  BY <1>1, JsInvariant, PTL

=============================================================================
