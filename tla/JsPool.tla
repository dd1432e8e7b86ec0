-------------------------------- MODULE JsPool --------------------------------
(***************************************************************************)
(* The worker pool of the JavaScript command line (npm/cli.js), and the    *)
(* single-threaded route it falls back to.  The main thread starts the     *)
(* workers; they share one cursor into the list of files, and each reports *)
(* once, in one message, on its way out.  A worker may be refused, die     *)
(* while it loads the engine, throw with its report already posted, or be  *)
(* killed with its report lost.  An overflow of V8's stack on the main     *)
(* thread is tried again in a pool of one worker, whose stack is larger:   *)
(* the second pass over a shorter list, through the same code.  Any write  *)
(* may fail, before it opened the file or after it truncated it.           *)
(***************************************************************************)
EXTENDS Integers, Sequences, FiniteSets

CONSTANTS FileCount, MaxJobs, Trees

Files == 1..FileCount
Contents == {"formatted", "unformatted", "rejected", "deep", "bottomless"}

ASSUME SizesAssumption ==
    /\ FileCount \in Nat \ {0} /\ MaxJobs \in Nat \ {0}
    /\ Trees \subseteq [Files -> Contents]

Workers == 1..MaxJobs
Main == 0
Passes == 1..2
\* an outcome; "overflow", "stranded" and "unwritten" are errors by their flag
\* or their message, "error" any other
Kinds == {"unset", "unchanged", "changed", "error", "overflow", "stranded", "unwritten"}

VARIABLES
    engine,     \* "wasm" or "napi": what ./index.js resolved to
    check,      \* --check: nothing is written
    source,     \* what each file is when the run starts
    touched,    \* the files this run opened for writing
    torn,       \* those of them whose write failed once they were truncated
    unsound,    \* threads whose engine trapped and was not reinstantiated
    main,       \* the main thread, see Mains
    cursor,     \* the shared Int32, from 0
    worker,     \* the workers of the running pass, see WorkerStates
    mishaps     \* what went wrong, for the properties alone

vars == <<engine, check, source, touched, torn, unsound, main, cursor, worker, mishaps>>
run == <<engine, check, source>>

\* the files this run wrote
rewritten == touched \ torn

\* nesting only the WASM engine survives: a native overflow kills the process
Overflowing == {"deep", "bottomless"}

\* what the main thread hears of a worker; a message carries its whole report
Events == [type : {"message", "error", "exit"}, results : SUBSET (Files \X Kinds)]
Message(results) == [type |-> "message", results |-> results]
Ended(type) == [type |-> type, results |-> {}]

WorkerStates ==
    [at : {"none", "loading", "claiming", "formatting", "gone"},
     index : Files \cup {0},
     results : SUBSET (Files \X Kinds),
     inbox : Seq(Events),
     settled : BOOLEAN]
NoWorker == [at |-> "none", index |-> 0, results |-> {}, inbox |-> <<>>, settled |-> FALSE]

Up == {w \in Workers : worker[w].at # "none"}

---------------------------------------------------------------------------
(* format_one: what a thread answers for a file, and what that leaves of   *)
(* its engine                                                              *)

\* what formatting a file that needs it comes to: the head of one may be anything
Formatted(f) ==
    IF f \in torn THEN {"unchanged", "changed", "error"}
    ELSE IF f \in touched THEN {"unchanged"} ELSE {"changed"}

\* a rejected file is one that is not read, does not parse or is refused
Verdicts(f, t) ==
    CASE source[f] = "formatted" -> {"unchanged"}
      [] source[f] = "unformatted" -> Formatted(f)
      [] source[f] = "rejected" -> {"error"}
      [] source[f] = "deep" -> IF t = Main THEN {"overflow"} ELSE Formatted(f)
      [] source[f] = "bottomless" -> {"error", "overflow"}

\* an engine failed on f: a trap, V8's own overflow, or an instance left poisoned
EngineFails(f, t, kind) ==
    /\ kind \in {"error", "overflow"}
    /\ source[f] \in Overflowing \/ t \in unsound

\* recover_engine_suffix: a failed engine is reinstantiated, or the thread is left with it
Recover(f, t, kind) ==
    \/ unsound' = unsound /\ mishaps' = mishaps
    \/ /\ EngineFails(f, t, kind)
       /\ unsound' = unsound \cup {t}
       /\ mishaps' = mishaps \cup {<<"unrecovered", main.pass>>}

Answers(f, t) == Verdicts(f, t) \cup (IF t \in unsound THEN {"error"} ELSE {})

\* a file that is to change is written unless --check: whole, or not, and then
\* it is as it was or torn
FormatOne(f, t, kind) ==
    /\ \/ kind \in Answers(f, t) /\ (kind # "changed" \/ check)
          /\ UNCHANGED <<touched, torn>>
       \/ kind = "changed" /\ "changed" \in Answers(f, t) /\ ~check
          /\ touched' = touched \cup {f} /\ torn' = torn \ {f}
       \/ kind = "unwritten" /\ "changed" \in Answers(f, t) /\ ~check
          /\ \/ UNCHANGED <<touched, torn>>
             \/ touched' = touched \cup {f} /\ torn' = torn \cup {f}
    /\ Recover(f, t, kind)

---------------------------------------------------------------------------
(* the main thread *)

Unset(n) == [i \in 1..n |-> "unset"]

Init ==
    /\ engine \in {"wasm", "napi"} /\ check \in BOOLEAN
    /\ source \in Trees
    /\ engine = "napi" => \A f \in Files : source[f] \notin Overflowing
    /\ touched = {} /\ torn = {} /\ unsound = {} /\ cursor = 0 /\ mishaps = {}
    /\ worker = [w \in Workers |-> NoWorker]
    /\ main = [phase |-> "route", pass |-> 1, jobs |-> 1,
               files |-> [i \in Files |-> i], outcomes |-> Unset(FileCount),
               kept |-> <<>>, onMain |-> FALSE, next |-> 1, status |-> 0]

\* resolve_jobs and resolve_route: any width up to the number of files
Route ==
    /\ main.phase = "route"
    /\ \E jobs \in {j \in Workers : j <= FileCount} :
          main' = [main EXCEPT !.jobs = jobs,
                     !.phase = IF jobs > 1 \/ engine = "napi" THEN "spawn" ELSE "sequential"]
    /\ UNCHANGED <<run, touched, torn, unsound, cursor, worker, mishaps>>

SpawnWorker ==
    /\ main.phase = "spawn"
    /\ LET w == Cardinality(Up) + 1 IN
          /\ worker' = [worker EXCEPT ![w].at = "loading"]
          /\ main' = [main EXCEPT !.phase = IF w = main.jobs THEN "await" ELSE "spawn"]
    /\ UNCHANGED <<run, touched, torn, unsound, cursor, mishaps>>

\* mutant: a refusal falls back to this thread though workers are up
RefuseWorkerFallsBack ==
    /\ main.phase = "spawn"
    /\ main' = [main EXCEPT !.phase = "sequential"]
    /\ mishaps' = mishaps \cup {<<"refused", main.pass>>}
    /\ UNCHANGED <<run, touched, torn, unsound, cursor, worker>>

RefuseWorker ==
    /\ main.phase = "spawn"
    /\ main' = [main EXCEPT !.phase = IF Up = {} THEN "sequential" ELSE "await"]
    /\ mishaps' = mishaps \cup {<<"refused", main.pass>>}
    /\ UNCHANGED <<run, touched, torn, unsound, cursor, worker>>

Filled(outcomes, results) ==
    [i \in DOMAIN outcomes |->
        IF \E k \in Kinds : <<i, k>> \in results
        THEN CHOOSE k \in Kinds : <<i, k>> \in results
        ELSE outcomes[i]]

\* mutant: a worker's promise settles on its error alone
HandleErrorsOnly(w) ==
    /\ main.phase = "await" /\ worker[w].inbox # <<>>
    /\ LET event == Head(worker[w].inbox) IN
          /\ worker' = [worker EXCEPT ![w].inbox = Tail(@), ![w].settled = @ \/ event.type = "error"]
          /\ main' = [main EXCEPT !.outcomes = Filled(@, event.results)]
    /\ UNCHANGED <<run, touched, torn, unsound, cursor, mishaps>>

\* the listeners of one worker, an event at a time
Handle(w) ==
    /\ main.phase = "await" /\ worker[w].inbox # <<>>
    /\ LET event == Head(worker[w].inbox) IN
          /\ worker' = [worker EXCEPT ![w].inbox = Tail(@), ![w].settled = @ \/ event.type # "message"]
          /\ main' = [main EXCEPT !.outcomes = Filled(@, event.results)]
    /\ UNCHANGED <<run, touched, torn, unsound, cursor, mishaps>>

AllSettled == main.phase = "await" /\ \A w \in Up : worker[w].settled

\* nobody claimed anything: this thread formats everything
NobodyRan ==
    /\ AllSettled /\ cursor = 0
    /\ main' = [main EXCEPT !.phase = "sequential"]
    /\ UNCHANGED <<run, touched, torn, unsound, cursor, worker, mishaps>>

Sweep ==
    /\ AllSettled /\ cursor # 0
    /\ main' = [main EXCEPT !.phase = "passed",
                  !.outcomes = [i \in DOMAIN @ |-> IF @[i] = "unset" THEN "stranded" ELSE @[i]]]
    /\ UNCHANGED <<run, touched, torn, unsound, cursor, worker, mishaps>>

\* format_files: its outcomes are a list of its own, in the order of the files
FormatHere ==
    /\ main.phase = "sequential"
    /\ \E kind \in Kinds :
          /\ FormatOne(main.files[main.next], Main, kind)
          /\ main' = [main EXCEPT !.outcomes[main.next] = kind, !.next = @ + 1, !.onMain = TRUE,
                        !.phase = IF main.next = Len(main.files) THEN "passed" ELSE @]
    /\ UNCHANGED <<run, cursor, worker>>

Overflowed == {i \in DOMAIN main.outcomes : main.outcomes[i] = "overflow"}

\* mutant: the retried outcomes are put back by their place in the retry
MergedByPlace(kept, files, outcomes) ==
    [i \in DOMAIN kept |-> IF i \in DOMAIN outcomes THEN outcomes[i] ELSE kept[i]]

Merged(kept, files, outcomes) ==
    [i \in DOMAIN kept |->
        IF \E j \in DOMAIN files : files[j] = i
        THEN outcomes[CHOOSE j \in DOMAIN files : files[j] = i]
        ELSE kept[i]]

\* the one list of the members of S, in their order
InOrder(S) ==
    {s \in [1..Cardinality(S) -> S] :
        /\ \A i, j \in DOMAIN s : i < j => s[i] < s[j]
        /\ \A x \in S : \E i \in DOMAIN s : s[i] = x}

\* retry_overflowed_files, when there is something to retry
Retry ==
    /\ main.phase = "passed" /\ main.pass = 1 /\ main.onMain /\ Overflowed # {}
    /\ \E retry \in InOrder(Overflowed) :
          main' = [main EXCEPT !.phase = "spawn", !.pass = 2, !.jobs = 1, !.files = retry,
                     !.outcomes = Unset(Len(retry)), !.kept = main.outcomes, !.next = 1]
    /\ cursor' = 0
    /\ worker' = [w \in Workers |-> NoWorker]
    /\ unsound' = unsound \ Workers
    /\ UNCHANGED <<run, touched, torn, mishaps>>

Status(outcomes) ==
    CASE \E i \in DOMAIN outcomes : outcomes[i] \notin {"unchanged", "changed"} -> 2
      [] check /\ \E i \in DOMAIN outcomes : outcomes[i] = "changed" -> 1
      [] OTHER -> 0

Report ==
    /\ main.phase = "passed"
    /\ main.pass = 2 \/ ~main.onMain \/ Overflowed = {}
    /\ LET outcomes == IF main.pass = 1 THEN main.outcomes
                       ELSE Merged(main.kept, main.files, main.outcomes) IN
          main' = [main EXCEPT !.phase = "done", !.outcomes = outcomes, !.status = Status(outcomes)]
    /\ UNCHANGED <<run, touched, torn, unsound, cursor, worker, mishaps>>

---------------------------------------------------------------------------
(* a worker *)

Loaded(w) ==
    /\ worker[w].at = "loading"
    /\ worker' = [worker EXCEPT ![w].at = "claiming"]
    /\ UNCHANGED <<run, touched, torn, unsound, main, cursor, mishaps>>

Leaving(w, events) ==
    worker' = [worker EXCEPT ![w].at = "gone", ![w].inbox = @ \o events]

ClaimIndex(w) ==
    /\ worker[w].at = "claiming"
    /\ cursor' = cursor + 1
    /\ IF cursor < Len(main.files)
       THEN worker' = [worker EXCEPT ![w].at = "formatting", ![w].index = cursor + 1]
       ELSE Leaving(w, <<Message(worker[w].results), Ended("exit")>>)
    /\ UNCHANGED <<run, touched, torn, unsound, main, mishaps>>

FormatIndex(w) ==
    /\ worker[w].at = "formatting"
    /\ \E kind \in Kinds :
          /\ FormatOne(main.files[worker[w].index], w, kind)
          /\ worker' = [worker EXCEPT ![w].at = "claiming",
                          ![w].results = @ \cup {<<worker[w].index, kind>>}]
    /\ UNCHANGED <<run, main, cursor>>

\* mutant: no finally, so a throw takes the report with it
ThrowUnposted(w) ==
    /\ worker[w].at \in {"claiming", "formatting"}
    /\ Leaving(w, <<Ended("error")>>)
    /\ mishaps' = mishaps \cup {<<"threw", main.pass>>}
    /\ UNCHANGED <<run, touched, torn, unsound, main, cursor>>

\* an exception inside the loop: `finally` posts what was finished, then the error goes out
Throw(w) ==
    /\ worker[w].at \in {"claiming", "formatting"}
    /\ Leaving(w, <<Message(worker[w].results), Ended("error")>>)
    /\ mishaps' = mishaps \cup {<<"threw", main.pass>>}
    /\ UNCHANGED <<run, touched, torn, unsound, main, cursor>>

\* the engine does not load, the heap runs out, the worker is terminated
Killed(w) ==
    /\ worker[w].at \in {"loading", "claiming", "formatting"}
    /\ \E event \in {"error", "exit"} : Leaving(w, <<Ended(event)>>)
    /\ mishaps' = mishaps \cup {<<IF worker[w].at = "loading" THEN "threw" ELSE "killed", main.pass>>}
    /\ UNCHANGED <<run, touched, torn, unsound, main, cursor>>

---------------------------------------------------------------------------
MainStep ==
    \/ Route \/ SpawnWorker \/ RefuseWorker \/ NobodyRan \/ Sweep \/ FormatHere \/ Retry \/ Report
    \/ \E w \in Workers : Handle(w)

WorkerStep(w) == Loaded(w) \/ ClaimIndex(w) \/ FormatIndex(w)

Next ==
    \/ MainStep
    \/ \E w \in Workers : WorkerStep(w) \/ Throw(w) \/ Killed(w)

\* the event loop and the threads run; nothing makes a worker fail
Spec ==
    /\ Init /\ [][Next]_vars
    /\ WF_vars(MainStep) /\ \A w \in Workers : WF_vars(WorkerStep(w))

---------------------------------------------------------------------------
(* Every variable is well typed. *)
TypeOK ==
    /\ engine \in {"wasm", "napi"} /\ check \in BOOLEAN
    /\ source \in [Files -> Contents] /\ touched \subseteq Files /\ torn \subseteq touched
    /\ unsound \subseteq Workers \cup {Main}
    /\ cursor \in 0..(FileCount + MaxJobs)
    /\ worker \in [Workers -> WorkerStates]
    /\ mishaps \subseteq {"refused", "threw", "killed", "unrecovered"} \X Passes
    /\ main.phase \in {"route", "spawn", "await", "sequential", "passed", "done"}
    /\ main.pass \in Passes /\ main.jobs \in Workers
    /\ main.next \in 1..(FileCount + 1) /\ main.status \in 0..2
    /\ Len(main.files) \in Files /\ \A i \in DOMAIN main.files : main.files[i] \in Files
    /\ main.phase # "done" => DOMAIN main.outcomes = DOMAIN main.files
    /\ \A i \in DOMAIN main.outcomes : main.outcomes[i] \in Kinds

Done == main.phase = "done"
Outcome(f) == main.outcomes[f]
Happened(what, passes) == \E m \in mishaps : m[1] \in what /\ m[2] \in passes

(* The summary and the exit status are true of the disk: a file counted as   *)
(* changed was rewritten by this run (or would be, under --check), one       *)
(* counted as unchanged was formatted already, no file goes uncounted, and   *)
(* status 0 leaves no file of the run unformatted or torn.  A worker's death *)
(* must not turn into a silent "unchanged", nor a fallback format a file     *)
(* again that a worker already rewrote (cli.js:1342, 1376).                  *)
ReportTrue ==
    Done =>
        /\ DOMAIN main.outcomes = Files
        /\ \A f \in Files :
              /\ Outcome(f) # "unset"
              /\ Outcome(f) = "changed" =>
                    source[f] # "formatted" /\ f \notin torn /\ (f \in rewritten <=> ~check)
              /\ Outcome(f) = "unchanged" => source[f] = "formatted" /\ f \notin touched
        /\ main.status = 0 => \A f \in Files :
              (source[f] = "formatted" /\ f \notin touched) \/ f \in rewritten

(* A file reported as an error was left as it was, but by a write that       *)
(* failed, which is reported as that and as nothing else: a file that is     *)
(* torn says so, and no write that failed is of a file that was rewritten.   *)
(* It holds of every run but one where a worker was killed with its report   *)
(* unposted: an exception posts what was finished before it, so what is left *)
(* over is genuinely unformatted (cli.js:921, 1346, 1463).                   *)
ErrorsAreUntouched ==
    Done /\ ~Happened({"killed"}, Passes) =>
        \A f \in Files :
            /\ Outcome(f) \in {"error", "overflow", "stranded"} => f \notin touched
            /\ Outcome(f) = "unwritten" => f \notin rewritten
            /\ f \in torn => Outcome(f) = "unwritten"

\* what a worker on a sound engine answers for f
Deserved(f) ==
    CASE source[f] = "formatted" -> {"unchanged"}
      [] source[f] \in {"unformatted", "deep"} -> {"changed"}
      [] source[f] = "rejected" -> {"error"}
      [] source[f] = "bottomless" -> {"error", "overflow"}

(* A file's verdict does not turn on the route that ran it, on the other     *)
(* files, or on the width of the pool: it is the one a worker gives it.  The *)
(* exceptions each need their own mishap, and no other excuses them: a file  *)
(* nobody reported needs a worker that died, a sound file that failed needs  *)
(* an engine that could not be reinstantiated, a deep file that stays an     *)
(* overflow needs a retry worker that was refused or died, and a write fails *)
(* only for a file whose own verdict is to change (cli.js:828, 895, 921).    *)
SameVerdict ==
    Done => \A f \in Files :
        \/ Outcome(f) \in Deserved(f)
        \/ Outcome(f) = "stranded" /\ Happened({"threw", "killed"}, Passes)
        \/ Outcome(f) = "error" /\ Happened({"unrecovered"}, Passes)
        \/ Outcome(f) = "unwritten" /\ "changed" \in Deserved(f) /\ ~check
        \/ /\ Outcome(f) = "overflow" /\ source[f] = "deep"
           /\ Happened({"refused", "threw", "killed"}, {2})

(* Every run reports, whichever workers are refused, throw or are killed,    *)
(* before they claim anything, between two files or on their way out.        *)
EveryRunReports == <>Done
=============================================================================
