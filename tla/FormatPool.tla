----------------------------- MODULE FormatPool -----------------------------
(***************************************************************************)
(* The worker pool of `tsv format`, by both of its routes.  Over one       *)
(* directory it streams: one thread walks and feeds a shared FileQueue,    *)
(* the pool's workers claim files from it by index, format them in place   *)
(* and keep their outcomes, and the walking thread joins the pool and      *)
(* prints the report in path order.  Over named files or several roots it  *)
(* collects: the set is complete and sorted before the pool comes up, and  *)
(* an atomic counter hands out its indices.  That list is a queue that is  *)
(* finished before the first claim, so the claim loop is the same action.  *)
(*                                                                         *)
(* The queue is a Mutex and a Condvar.  No critical section blocks, so     *)
(* each one is a single action; what happens after the unlock (the         *)
(* notifications of a batch, the wake-up of finish) is actions of its own, *)
(* and that is where the interleavings are.  A thread parked on the        *)
(* Condvar is in `parked`; a thread that was woken and has not yet got the *)
(* lock back is no longer in `parked` but still counted by `waiting`.      *)
(*                                                                         *)
(* Positions are 1-based here: position i is the source's index i - 1, and *)
(* `next` is the number of positions already claimed.                      *)
(***************************************************************************)
EXTENDS Integers, Sequences, FiniteSets

CONSTANTS
    Files,          \* the formattable files under the directory argument
    Workers,        \* the pool: `jobs` threads at most, see SpawnWorker
    Caller,         \* the thread that walks, joins and reports
    Rank,           \* Files -> Nat: a file's sort key (path_sort_key)
    DiscoveryBatch, \* paths buffered before the sink hands them over
    Contents        \* the kinds of content a file may start with

ASSUME WorkersAssumption == IsFiniteSet(Workers) /\ Caller \notin Workers
ASSUME FilesAssumption   == IsFiniteSet(Files)
ASSUME RankAssumption ==
    /\ Rank \in [Files -> Nat]
    /\ \A f, g \in Files : Rank[f] = Rank[g] => f = g
ASSUME BatchAssumption == DiscoveryBatch \in Nat \ {0}

\* What a file can hold when the run starts.  "broken" text is refused by the
\* parser or panics the formatter (catch_unwind turns both into an error),
\* a "readonly" file is not formatted and refuses the write.
Content == {"formatted", "unformatted", "readonly", "broken", "unreadable"}
ASSUME ContentsAssumption == Contents \subseteq Content

Drainers == Workers \cup {Caller}
Modes    == {"Write", "Check"}
Outcomes == {"Unchanged", "Changed", "Error", "WorkerPanicked"}

VARIABLES
    mode,       \* FormatMode
    disk,       \* what each file holds now
    scope,      \* the files the ignore rules leave in scope
    unvisited,  \* the part of scope the walk has not reached
    excluded,   \* Diagnostics::all_arguments_excluded
    errors,     \* traversal errors the walk has recorded
    badArgs,    \* an argument is neither a file nor a directory
    step,       \* where the calling thread is
    keys,       \* QueueSink::keys, <<sort key, position>>
    batch,      \* QueueSink::batch
    queued,     \* QueueState::queued
    next,       \* QueueState::next
    waiting,    \* QueueState::waiting
    done,       \* QueueState::done
    permits,    \* notify_one calls push_batch still has to make
    parked,     \* threads in the Condvar's wait set
    pc,         \* where each drainer is in `drain`
    claim,      \* the position a drainer works on, 0 if none
    outcomes,   \* each drainer's outcomes, <<position, outcome>>
    unwinding,  \* the calling thread is panicking
    report,     \* the sorted report, <<file, outcome>>
    exit        \* process exit status, -1 while running

walk  == <<scope, unvisited, excluded, errors, badArgs, keys, batch>>
queue == <<queued, next, waiting, done>>
crew  == <<pc, claim, outcomes>>
final == <<report, exit>>
vars  == <<mode, disk, walk, step, queue, permits, parked, crew,
           unwinding, final>>

-----------------------------------------------------------------------------
(* Names for the states the properties speak of.                           *)

Unclaimed == Len(queued) - next
Spawned   == {w \in Workers : pc[w] # "unborn"}
Dead      == {d \in Drainers : pc[d] = "dead"}
\* on their way to the queue: running to the lock, or woken and waiting for it
Awake     == {d \in Drainers : pc[d] = "seeking"}
                \cup {d \in Drainers : pc[d] = "waiting" /\ d \notin parked}
Found     == {f \in Files : \E k \in 1..Len(keys) : keys[k][1] = Rank[f]}
Min2(a, b) == IF a < b THEN a ELSE b

-----------------------------------------------------------------------------
(* What happens to one file: format_file.                                  *)

FormatFile(content, m) ==
    CASE content \in {"unreadable", "broken"}       -> "Error"
      [] content = "formatted"                      -> "Unchanged"
      [] content = "readonly" /\ m = "Write"        -> "Error"
      [] OTHER                                      -> "Changed"

FormatFileLeaves(content, m) ==
    IF content = "unformatted" /\ m = "Write" THEN "formatted" ELSE content

(* The report: every discovered file in key order, with the outcome claimed *)
(* at its walk index; a slot no live worker filled reads WORKER_PANICKED.   *)

Collected == UNION {outcomes[d] : d \in Drainers \ Dead}
FromKey(key) == CHOOSE f \in Files : Rank[f] = key
Shuffles(n) ==
    {p \in [1..n -> 1..n] : \A i, j \in 1..n : p[i] = p[j] => i = j}
InKeyOrder(s) == \A i, j \in 1..Len(s) : i < j => s[i][1] < s[j][1]
\* mutant: an empty slot reads as a file with nothing to do
ReadOutOptimistic(order, claimed) ==
    [k \in 1..Len(order) |->
        LET hits == {c \in claimed : c[1] = order[k][2]} IN
        IF hits = {} THEN <<FromKey(order[k][1]), "Unchanged">>
        ELSE LET c == CHOOSE c \in hits : TRUE IN <<queued[c[1]], c[2]>>]

ReadOut(order, claimed) ==
    [k \in 1..Len(order) |->
        LET hits == {c \in claimed : c[1] = order[k][2]} IN
        IF hits = {} THEN <<FromKey(order[k][1]), "WorkerPanicked">>
        ELSE LET c == CHOOSE c \in hits : TRUE IN <<queued[c[1]], c[2]>>]

\* the exit status of run_paths, and of its two early exits
ExitCode(rep) ==
    LET count(os) == Cardinality({k \in 1..Len(rep) : rep[k][2] \in os}) IN
    IF \/ badArgs
       \/ rep = <<>> /\ errors = 0 /\ ~excluded
       \/ errors + count({"Error", "WorkerPanicked"}) > 0
    THEN 2
    ELSE IF mode = "Check" /\ count({"Changed"}) > 0 THEN 1 ELSE 0

-----------------------------------------------------------------------------
(* `mode`, `scope` and what is on disk are the run's input, and the kind of  *)
(* its arguments picks the route: "spawn" streams, "collect" collects.      *)
Init ==
    /\ mode \in Modes
    /\ disk \in [Files -> Contents]
    /\ scope \in SUBSET Files
    /\ excluded \in {e \in BOOLEAN : e => scope = {}}
    /\ unvisited = scope
    /\ errors = 0 /\ badArgs = FALSE
    /\ step \in {"spawn", "collect"}
    /\ keys = <<>> /\ batch = <<>>
    /\ queued = <<>> /\ next = 0 /\ waiting = 0 /\ done = FALSE
    /\ permits = 0 /\ parked = {}
    /\ pc = [d \in Drainers |-> "unborn"]
    /\ claim = [d \in Drainers |-> 0]
    /\ outcomes = [d \in Drainers |-> {}]
    /\ unwinding = FALSE
    /\ report = <<>> /\ exit = -1

-----------------------------------------------------------------------------
(* The calling thread: bring the pool up, walk, finish, join, report.       *)

\* discover_files: every file is found, sorted and the list complete before a
\* thread is started; what a traversal error hides is missing from it.  With
\* nothing found format_files starts no pool.
Collect ==
    /\ step = "collect"
    /\ \E found \in SUBSET scope :
        \E files \in [1..Cardinality(found) -> found] :
            /\ \A f \in found : \E k \in DOMAIN files : files[k] = f
            /\ keys' = [k \in DOMAIN files |-> <<Rank[files[k]], k>>]
            /\ queued' = files
            /\ errors' = Cardinality(scope \ found)
    /\ InKeyOrder(keys')
    /\ unvisited' = {} /\ done' = TRUE
    /\ step' = IF queued' = <<>> THEN "tell" ELSE "crew"
    /\ UNCHANGED <<mode, disk, scope, excluded, badArgs, batch, next, waiting,
                   permits, parked, crew, unwinding, final>>

\* discover_files returns Err and nothing is formatted
CollectRefused ==
    /\ step = "collect"
    /\ badArgs' = TRUE /\ done' = TRUE
    /\ step' = "tell"
    /\ UNCHANGED <<mode, disk, scope, unvisited, excluded, errors, keys, batch,
                   queued, next, waiting, permits, parked, crew, unwinding,
                   final>>

\* the collected pool is no wider than its list (format_files)
MayWiden ==
    \/ step = "spawn"
    \/ step = "crew" /\ Cardinality(Spawned) < Len(queued)

\* spawn_pool: one thread started
SpawnWorker(w) ==
    /\ MayWiden /\ pc[w] = "unborn"
    /\ pc' = [pc EXCEPT ![w] = "seeking"]
    /\ UNCHANGED <<mode, disk, walk, step, queue, permits, parked, claim,
                   outcomes, unwinding, final>>

\* spawn_pool returns: every thread was started, or the system refused one and
\* the pool stays as narrow as it is (possibly empty)
PoolIsUp ==
    /\ \/ step = "spawn" /\ step' = "walk"
       \/ step = "crew" /\ step' = "gather"
    /\ UNCHANGED <<mode, disk, walk, queue, permits, parked, crew,
                   unwinding, final>>

\* classify_args finds no directory any more: discover_into returns Err
WalkRefused ==
    /\ step = "walk" /\ keys = <<>> /\ unvisited = scope /\ errors = 0
    /\ badArgs' = TRUE
    /\ step' = "finish"
    /\ UNCHANGED <<mode, disk, scope, unvisited, excluded, errors, keys,
                   batch, queue, permits, parked, crew, unwinding, final>>

\* mutants: one wake-up too few, one per batch
WakeupsOneShort(added) == Min2(waiting, added - 1)
WakeupsOnePerBatch(added) == Min2(waiting, 1)

\* how many notify_one calls a batch of `added` paths pays for
Wakeups(added) == Min2(waiting, added)

\* push_batch's critical section, with `paths` the whole batch; the
\* notifications follow after the unlock (step "notify")
PushBatch(paths) ==
    /\ queued' = queued \o paths
    /\ batch' = <<>>
    /\ permits' = Wakeups(Len(paths))
    /\ step' = IF permits' > 0 THEN "notify" ELSE "walk"
    /\ UNCHANGED <<next, waiting, done>>

\* QueueSink::push, and the flush it makes when the batch is full
Discover(f) ==
    /\ step = "walk" /\ f \in unvisited
    /\ unvisited' = unvisited \ {f}
    /\ keys' = Append(keys, <<Rank[f], Len(keys) + 1>>)
    /\ IF Len(batch) + 1 >= DiscoveryBatch
       THEN PushBatch(Append(batch, f))
       ELSE /\ batch' = Append(batch, f)
            /\ UNCHANGED <<queue, permits, step>>
    /\ UNCHANGED <<mode, disk, scope, excluded, errors, badArgs, parked,
                   crew, unwinding, final>>

\* QueueSink::flush at a directory boundary and at the end of walk_args;
\* push_batch returns at once when the batch is empty
Flush ==
    /\ step = "walk" /\ batch # <<>>
    /\ PushBatch(batch)
    /\ UNCHANGED <<mode, disk, scope, unvisited, excluded, errors, badArgs,
                   keys, parked, crew, unwinding, final>>

\* a directory that cannot be listed: its files are never found
TraversalError(f) ==
    /\ step = "walk" /\ f \in unvisited
    /\ unvisited' = unvisited \ {f}
    /\ errors' = errors + 1
    /\ UNCHANGED <<mode, disk, scope, excluded, badArgs, keys, batch, step,
                   queue, permits, parked, crew, unwinding, final>>

\* one notify_one: it wakes some parked thread, and is lost if there is none
NotifyOne ==
    /\ step = "notify"
    /\ IF parked = {} THEN parked' = parked
       ELSE \E d \in parked : parked' = parked \ {d}
    /\ permits' = permits - 1
    /\ step' = IF permits = 1 THEN "walk" ELSE "notify"
    /\ UNCHANGED <<mode, disk, walk, queue, crew, unwinding, final>>

\* mutant: the walk's last flush forgotten
EndWalkUnflushed ==
    /\ step = "walk" /\ unvisited = {}
    /\ step' = "finish"
    /\ UNCHANGED <<mode, disk, walk, queue, permits, parked, crew,
                   unwinding, final>>

\* the walk returns; walk_args has flushed what was left
EndWalk ==
    /\ step = "walk" /\ unvisited = {} /\ batch = <<>>
    /\ step' = "finish"
    /\ UNCHANGED <<mode, disk, walk, queue, permits, parked, crew,
                   unwinding, final>>

\* mutant: no release guard
WalkPanicsUnguarded ==
    /\ step = "walk"
    /\ unwinding' = TRUE
    /\ step' = "scope"
    /\ UNCHANGED <<mode, disk, walk, queue, permits, parked, crew, final>>

\* the walk panics: ReleasePoolOnUnwind runs finish on the way out
WalkPanics ==
    /\ step = "walk"
    /\ unwinding' = TRUE
    /\ step' = "finish"
    /\ UNCHANGED <<mode, disk, walk, queue, permits, parked, crew, final>>

\* FileQueue::finish, its critical section
Finish ==
    /\ step = "finish"
    /\ done' = TRUE
    /\ step' = "wake"
    /\ UNCHANGED <<mode, disk, walk, queued, next, waiting, permits, parked,
                   crew, unwinding, final>>

\* FileQueue::finish, the notify_all after the unlock
NotifyAll ==
    /\ step = "wake"
    /\ parked' = {}
    /\ step' = IF unwinding THEN "scope" ELSE "close"
    /\ UNCHANGED <<mode, disk, walk, queue, permits, crew, unwinding, final>>

\* mutant: the keys left in walk order
CloseUnsorted ==
    /\ step = "close"
    /\ step' = "join"
    /\ UNCHANGED <<mode, disk, walk, queue, permits, parked, crew,
                   unwinding, final>>

\* QueueSink::close sorts the keys
Close ==
    /\ step = "close"
    /\ \E p \in Shuffles(Len(keys)) :
          keys' = [k \in 1..Len(keys) |-> keys[p[k]]]
    /\ InKeyOrder(keys')
    /\ step' = "join"
    /\ UNCHANGED <<mode, disk, scope, unvisited, excluded, errors, badArgs,
                   batch, queue, permits, parked, crew, unwinding, final>>

\* join_pool with no handle: the calling thread runs the drain itself
Fallback ==
    /\ step \in {"join", "gather"} /\ Spawned = {} /\ pc[Caller] = "unborn"
    /\ pc' = [pc EXCEPT ![Caller] = "seeking"]
    /\ UNCHANGED <<mode, disk, walk, step, queue, permits, parked, claim,
                   outcomes, unwinding, final>>

Joined == \A d \in Drainers : pc[d] \in {"unborn", "exited", "dead"}

\* every handle joined; the release guard's finish finds nobody parked; the
\* report is read out and the process exits
Report ==
    /\ \/ step = "tell"
       \/ /\ step \in {"join", "gather"} /\ Joined
          /\ Spawned = {} => pc[Caller] = "exited"
    /\ report' = IF badArgs THEN <<>> ELSE ReadOut(keys, Collected)
    /\ exit' = ExitCode(report')
    /\ step' = "end"
    /\ UNCHANGED <<mode, disk, walk, queue, permits, parked, crew, unwinding>>

\* thread::scope joins the pool, then resumes the panic
Crash ==
    /\ step = "scope" /\ Joined
    /\ exit' = 101
    /\ step' = "end"
    /\ UNCHANGED <<mode, disk, walk, queue, permits, parked, crew,
                   unwinding, report>>

-----------------------------------------------------------------------------
(* A drainer: FileQueue::claim, then the file, then claim again.            *)

\* it has the lock: first time round the loop, or back from the wait
AtQueue(d) == d \in Awake
\* the `waiting -= 1` of a thread back from the wait
WaitingAfter(d) == IF pc[d] = "waiting" THEN waiting - 1 ELSE waiting

\* mutant: the index taken without advancing `next` under the same lock
ClaimTwice(d) ==
    /\ AtQueue(d) /\ next < Len(queued)
    /\ waiting' = WaitingAfter(d)
    /\ claim' = [claim EXCEPT ![d] = next + 1]
    /\ pc' = [pc EXCEPT ![d] = "working"]
    /\ UNCHANGED <<mode, disk, walk, step, queued, next, done, permits,
                   parked, outcomes, unwinding, final>>

Claim(d) ==
    /\ AtQueue(d) /\ next < Len(queued)
    /\ waiting' = WaitingAfter(d)
    /\ next' = next + 1
    /\ claim' = [claim EXCEPT ![d] = next']
    /\ pc' = [pc EXCEPT ![d] = "working"]
    /\ UNCHANGED <<mode, disk, walk, step, queued, done, permits, parked,
                   outcomes, unwinding, final>>

\* claim returns None and the drain ends
Exit(d) ==
    /\ AtQueue(d) /\ next = Len(queued) /\ done
    /\ waiting' = WaitingAfter(d)
    /\ pc' = [pc EXCEPT ![d] = "exited"]
    /\ UNCHANGED <<mode, disk, walk, step, queued, next, done, permits,
                   parked, claim, outcomes, unwinding, final>>

\* mutant: `done` read before the lock is taken, so a finish in between is missed
ParkIgnoringDone(d) ==
    /\ AtQueue(d) /\ next = Len(queued)
    /\ waiting' = WaitingAfter(d) + 1
    /\ pc' = [pc EXCEPT ![d] = "waiting"]
    /\ parked' = parked \cup {d}
    /\ UNCHANGED <<mode, disk, walk, step, queued, next, done, permits,
                   claim, outcomes, unwinding, final>>

\* Condvar::wait releases the lock and joins the wait set in one step
Park(d) ==
    /\ AtQueue(d) /\ next = Len(queued) /\ ~done
    /\ waiting' = WaitingAfter(d) + 1
    /\ pc' = [pc EXCEPT ![d] = "waiting"]
    /\ parked' = parked \cup {d}
    /\ UNCHANGED <<mode, disk, walk, step, queued, next, done, permits,
                   claim, outcomes, unwinding, final>>

\* Condvar::wait may return without a notification
SpuriousWakeup(d) ==
    /\ d \in parked
    /\ parked' = parked \ {d}
    /\ UNCHANGED <<mode, disk, walk, step, queue, permits, crew,
                   unwinding, final>>

Work(d) ==
    /\ pc[d] = "working"
    /\ LET f == queued[claim[d]] IN
       /\ outcomes' = [outcomes EXCEPT ![d] =
                          @ \cup {<<claim[d], FormatFile(disk[f], mode)>>}]
       /\ disk' = [disk EXCEPT ![f] = FormatFileLeaves(@, mode)]
    /\ claim' = [claim EXCEPT ![d] = 0]
    /\ pc' = [pc EXCEPT ![d] = "seeking"]
    /\ UNCHANGED <<mode, walk, step, queue, permits, parked, unwinding, final>>

\* a panic outside catch_unwind takes the thread and its outcomes with it; the
\* calling thread's own drain unwinds instead, the streamed one through the
\* release guard
Die(d) ==
    /\ pc[d] = "working"
    /\ pc' = [pc EXCEPT ![d] = "dead"]
    /\ claim' = [claim EXCEPT ![d] = 0]
    /\ IF d = Caller
       THEN /\ unwinding' = TRUE
            /\ step' = IF step = "gather" THEN "scope" ELSE "finish"
       ELSE UNCHANGED <<unwinding, step>>
    /\ UNCHANGED <<mode, disk, walk, queue, permits, parked, outcomes, final>>

\* the process is over
Terminated == step = "end" /\ UNCHANGED vars

Walking ==
    \/ \E f \in Files : Discover(f) \/ TraversalError(f)
    \/ Flush \/ EndWalk \/ WalkRefused \/ WalkPanics
    \/ Collect \/ CollectRefused

Calling ==
    \/ \E w \in Workers : SpawnWorker(w)
    \/ PoolIsUp \/ NotifyOne \/ Finish \/ NotifyAll
    \/ Close \/ Fallback \/ Report \/ Crash

Draining(d) == Claim(d) \/ Exit(d) \/ Park(d) \/ Work(d) \/ Die(d)

Next ==
    \/ Walking
    \/ Calling
    \/ \E d \in Drainers : Draining(d) \/ SpuriousWakeup(d)
    \/ Terminated

\* Every thread that can run does; nothing makes a spurious wake-up happen.
Spec == /\ Init /\ [][Next]_vars
        /\ WF_vars(Walking) /\ WF_vars(Calling)
        /\ \A d \in Drainers : WF_vars(Draining(d))

\* The same program over a directory whose listing may block for ever.
StalledWalkSpec ==
    /\ Init /\ [][Next]_vars
    /\ WF_vars(Calling) /\ \A d \in Drainers : WF_vars(Draining(d))
-----------------------------------------------------------------------------
(* The type invariant.                                                      *)
TypeOK ==
    /\ mode \in Modes
    /\ disk \in [Files -> Content]
    /\ scope \in SUBSET Files /\ unvisited \in SUBSET scope
    /\ excluded \in BOOLEAN /\ badArgs \in BOOLEAN /\ unwinding \in BOOLEAN
    /\ errors \in Nat
    /\ step \in {"spawn", "walk", "notify", "finish", "wake", "close",
                 "join", "scope", "end", "collect", "crew", "gather", "tell"}
    /\ keys \in Seq(Nat \X Nat)
    /\ batch \in Seq(Files) /\ queued \in Seq(Files)
    /\ next \in Nat /\ next <= Len(queued)
    /\ waiting \in Nat /\ permits \in Nat
    /\ done \in BOOLEAN
    /\ parked \in SUBSET Drainers
    /\ pc \in [Drainers -> {"unborn", "seeking", "waiting", "working",
                            "exited", "dead"}]
    /\ claim \in [Drainers -> Nat]
    /\ outcomes \in [Drainers -> SUBSET (Nat \X Outcomes)]
    /\ exit \in {-1, 0, 1, 2, 101}

\* Every position is claimed by one thread at most, and only once: what a
\* thread is working on is in nobody's outcomes and in no other thread's
\* hands, and no position has outcomes in two threads (the claim loop hands
\* out indices under the lock, FileQueue::claim).
Holds(d) == {c[1] : c \in outcomes[d]} \cup ({claim[d]} \ {0})
ClaimedOnce ==
    /\ \A d, e \in Drainers : d # e => Holds(d) \cap Holds(e) = {}
    /\ \A d \in Drainers :
        /\ claim[d] \notin {c[1] : c \in outcomes[d]}
        /\ \A c1, c2 \in outcomes[d] : c1[1] = c2[1] => c1 = c2

\* Nothing claimed is forgotten: a claimed position is in the hands or the
\* outcomes of some thread, or the thread that took it died of it.
ClaimsKept ==
    \A i \in 1..next : \/ \E d \in Drainers : i \in Holds(d)
                       \/ Dead # {}

\* "Under-waking is safe": once a batch's notifications are made, no thread
\* is left asleep while there is more unclaimed work than threads on their way
\* to claim it; while they are being made the missing wake-ups are owed
\* (push_batch reads `waiting` under the lock and notifies after the unlock).
NoUnderWake ==
    permits < Cardinality(parked) =>
        Unclaimed <= Cardinality(Awake) + permits

\* `waiting` counts the threads in Condvar::wait, the ones woken and not yet
\* back under the lock included; that is why it may promise too many wake-ups
\* and never too few.
WaitingCounts ==
    waiting = Cardinality({d \in Drainers : pc[d] = "waiting"})

\* finish leaves nobody asleep, however it is reached (the walk's end or the
\* release guard of a panicking walk): nobody parks once `done` is set, and
\* notify_all comes after it.  On the collected route nobody ever sleeps.
Sealed == {"close", "join", "scope", "end", "crew", "gather", "tell"}
NoSleeperAfterFinish == step \in Sealed => parked = {}

\* The report lists the files the walk found, each once, in key order, and
\* what it says of a file is what the file holds; it blames a dead worker
\* only when one died.
ReportFaithful ==
    (step = "end" /\ ~unwinding /\ ~badArgs) =>
        /\ {report[k][1] : k \in 1..Len(report)} = Found
        /\ \A i, j \in 1..Len(report) :
              i < j => Rank[report[i][1]] < Rank[report[j][1]]
        /\ \A k \in 1..Len(report) :
              LET c == disk[report[k][1]] IN
              CASE report[k][2] = "Unchanged" -> c = "formatted"
                [] report[k][2] = "Changed"   ->
                      IF mode = "Write" THEN c = "formatted"
                      ELSE c \in {"unformatted", "readonly"}
                [] report[k][2] = "Error"     ->
                      c \in {"broken", "unreadable", "readonly"}
                [] OTHER                      -> Dead # {}

\* What the exit status tells a caller (CI, a pre-commit hook): 0 means every
\* file in scope now is formatted, 1 is `--check` finding a file that is not,
\* and nothing was written under `--check`.
ExitTells ==
    /\ exit = 0 => \A f \in scope : disk[f] = "formatted"
    /\ exit = 1 => /\ mode = "Check"
                   /\ \E f \in scope : disk[f] \in {"unformatted", "readonly"}
                   /\ Dead = {}

(* What else is invariant, and the proofs need.                             *)

\* The calling thread drains only in the fallback; nothing is done with the
\* pool before `done` is set, and a collected list is complete before there is
\* a pool; wake-ups are owed only while they are being made.
Phases ==
    /\ pc[Caller] \in {"seeking", "waiting", "working"} =>
            step \in {"join", "gather"}
    /\ step \in Sealed \cup {"wake"} => done
    /\ step = "collect" => next = 0 /\ \A d \in Drainers : pc[d] = "unborn"
    /\ done => parked = {} \/ step = "wake"
    /\ IF step = "notify" THEN permits > 0 ELSE permits = 0
    /\ \A d \in parked : pc[d] = "waiting"

\* Only a thread at work holds a claim, and only claimed positions are held.
ClaimBounds ==
    \A d \in Drainers :
        /\ Holds(d) \subseteq 1..next
        /\ (claim[d] # 0) <=> (pc[d] = "working")

\* The inductive invariant behind the queue's properties.
QueueInv ==
    /\ TypeOK /\ Phases /\ ClaimBounds
    /\ WaitingCounts /\ NoUnderWake /\ ClaimedOnce /\ ClaimsKept

\* The run ends, whatever was refused, died or panicked, if the walk goes on:
\* no listing blocks for ever.
Termination == WF_vars(Walking) => <>(step = "end")

\* The pool streams: what the walk has handed over is formatted even if the
\* walk never comes back, unless every worker died.
Streams ==
    (Unclaimed > 0 /\ Spawned # {})
        ~> (Unclaimed = 0 \/ Spawned \subseteq Dead)

-----------------------------------------------------------------------------
(* The pool implements FormatOnce until the calling thread panics.          *)

DoneBy(D) == {queued[c[1]] : c \in UNION {outcomes[d] : d \in D}}
AbstractFate ==
    [f \in Files |->
        IF \E d \in Dead : f \in DoneBy({d}) THEN "lost"
        ELSE IF \E i \in 1..next : /\ queued[i] = f
                                   /\ \A d \in Drainers : i \notin Holds(d)
        THEN "lost"
        ELSE IF f \in DoneBy(Drainers \ Dead) THEN "done" ELSE "none"]

\* a pool still coming up counts, and so does the calling thread without one
Manned  == step = "crew" \/ Spawned = {} \/ ~(Spawned \subseteq Dead)
Listing == [k \in 1..Len(report) |-> report[k][1]]

Promise == INSTANCE FormatOnce WITH
    found <- Found, fate <- AbstractFate, manned <- Manned, listing <- Listing

ImplementsFormatOnce == Promise!Init /\ [][Promise!Next]_(Promise!vars)
=============================================================================
