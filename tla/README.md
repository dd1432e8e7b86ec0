# Verification of tsv

TLA+ specifications of tsv, the formatter, parser and type stripper for
TypeScript, CSS and Svelte, with the TLC runs that check them on small instances
and the TLAPS proofs that hold for every instance. Every definition is
translated from the Rust, TypeScript or JavaScript source; `PROJECT.json` names
the lines each one stands for, the runs, the mutants that show each property can
fail, and the hazards the properties are for.

## 1. The system and its components

tsv is a Cargo workspace. Its language work (lexers, parsers, printers, the
document renderer, the type stripper) is sequential and pure: text in, text out.
What is hard to test lies around it: the worker pools that run it over a tree,
the rules that decide which files a tool may rewrite, the child process the
conformance tools talk to, the arenas kept across calls, the release scripts.

| component | state it keeps | operations | interacts with | hard behaviour | what makes it correct |
|---|---|---|---|---|---|
| format worker pool, streamed and collected (`cli/pool.rs`, `commands/format.rs`) | `FileQueue {queued, next, waiting, done}` under a mutex and a condvar, the sink's `keys` and `batch`, the collected list and its atomic counter, each worker's outcomes | push, flush, push_batch, finish, claim, drain, spawn, join, read-out | the walk (producer), `format_file`, the OS | notify after unlock on a stale count, spurious wake-ups, refused threads, dying workers, a panicking walk | each file found is formatted at most once and reported exactly once, in order; nobody is left asleep; the exit status tells the truth |
| discovery (`cli/discover.rs`, `tsv_discover`, `tsv_ignore`) | a stack of ignore layers, the heuristic flag, the walk's diagnostics | preload, push and pop layers, classify a directory, gate a file | the filesystem, the pool, the VS Code extension | rules of an excluded directory must not be read, negations, the order of layers | the walk, the file arguments and the editor agree on what is in scope |
| stdout/stdin loops (`cli/out.rs`, `cli/input.rs`) | bytes left, backoff | write, flush, read with retry | a pipe that may be non-blocking or closed | partial writes, EINTR, EAGAIN, EPIPE | all bytes once and in order, or a quiet end on a closed pipe |
| sized threads (`cli/stack.rs`) | the closure in a `Mutex<Option>` | spawn, take and run | the OS | a refused thread | the closure runs exactly once |
| Deno sidecar actor (`tsv_debug/src/deno/actor.rs`) | pending map, command and line channels, the launch files, the timer | send, read response, time out, fail all, shut down | the child process, the callers | a crash, a late answer, a write that waits for the pipe with nothing else polled, a timer restarted by other traffic, queued commands at the end of the loop | every request is answered exactly once, unless its write waits for ever |
| Deno pool (`tsv_debug/src/deno/mod.rs`) | slots of actors, a round-robin counter | get a slot, dispatch, respawn, retry, shut down | the actors | racing respawns, a request delivered and lost | no delivered request is sent twice |
| conformance runner and its watchdog (`tsc_conformance/runner`) | the current file's slot | enter, finish, tick | the grading loop | the monitor ends before the first file | a hang is killed, a slow run is not |
| audit pool (`audit/parallel.rs`) | strides of the file list | spawn, run the refused strides, merge | the OS | refused or panicking threads | each file is graded once |
| arena park (`tsv_arena`) | one parked arena per thread | take, reset, run, park | every binding | re-entry, panic in the body | no two users share an arena |
| ignore matching (`tsv_ignore`) | none | parse a rule, match segments, last match | discovery | `**` backtracking | equals the reference matcher |
| JS command line (`npm/cli.js`) | worker threads, the shared cursor, a batch per worker, outcomes | route, start, claim, format, post, sweep, fall back, retry after an overflow | worker_threads, the WASM or N-API engine | a worker refused, throwing or killed with its batch; a trapped engine; a second pass over part of the list | the report is true of the disk; a file's verdict does not depend on its route |
| TypeScript parser's token window (`tsv_ts/src/parser`) | the current token and one peek, line terminator flags, the comment ledger, the grouping depth and its `<` regions, the lists abandoned and kept, by position and context | advance, peek, split, relex, checkpoint, rewind, claim a comment | the lexer, every production | speculations inside speculations, a split or a peek before a rewind, comments drained twice | what the parse goes on with is what the text says, whatever was tried before |
| grammars (`tsv_ts`, `tsv_css`, `tsv_svelte`) | none across a production | one function per production | the token window | none | held by fixtures against acorn, svelte and parse-css |
| document renderer (`tsv_lang/src/doc`) | command stack, position, output, deferred runs, the fill being packed | fits, render, pack a fill, flush, trim | the printers | fits measured in one mode and printed in another; a fill that measures an item without what follows it | width is honoured when a group says it fits; nothing is lost or swallowed by a comment |
| type stripper (`tsv_ts/src/strip`) | edit list | blank ranges | the parser | overlapping edits | length and lines are kept |
| bindings (`tsv_ffi`, `tsv_napi`, `tsv_wasm`) | thread-local arenas | one call per export | arena park | | as arena park |
| release scripts (`scripts/publish.ts`, `publish_napi.ts`, `publish_crates.ts`, `release.yml`) | npm, crates.io, GitHub, the repository, the checkout, the sentinel file | bump, build, publish, commit, tag, push, resume; the tag's workflow; the crates | the maintainer, coworkers, the registries | a step that fails between two publishes, a resume from another source, a checkout that moves under a build | what is public under a version is one source, comes out in order, and comes out in full |

The grammars and printers are most of the code and little of the risk a model can
reach: they are pure functions over unbounded text, held by fixtures against
prettier, svelte and tsc. Two parts under them are the exception, each a machine
with a state of its own and small enough to model: the document renderer, an
interpreter of what the printers build, and the parser's token window, whose
state every production shares and every speculation must put back.

## 2. Modules

| module | what it is | composed with |
|---|---|---|
| `FormatOnce` | abstract: what `tsv format` promises, with no thread | refined by `FormatPool` |
| `FormatPool` | the pool, streamed and collected: queue, sink, counter, workers, join, report | `INSTANCE FormatOnce` |
| `FormatPool_proofs` | TLAPS proofs about `FormatPool`: the queue, the report, the refinement | extends it |
| `OracleCalls` | abstract: what a caller of the JavaScript oracle relies on | refined by `DenoPool` |
| `DenoPool` | callers, slots, actors and sidecars | `INSTANCE OracleCalls` |
| `DocNodes` | documents, as the arena builds them | used by the three below |
| `DocLayout` | the layout cell, the width test and a declarative reading of it, edges and spellings | extends `DocNodes` |
| `DocRender` | the renderer's command loop, the flushes and the packing of fills; what it asks of a whole document is a parameter | extends `DocNodes` |
| `DocFlat` | the flat write-out, and the renderer held against `DocLayout` | extends `DocRender` and `DocLayout` |
| `IgnoreStack` | rules, layers and the matcher | used by `Discover` |
| `Advice` | the lines that warnings propose for an ignore file, and what following them does | extends `IgnoreStack` |
| `Discover` | the walk, the file scopes, the warnings and the final list | extends `Advice` |
| `JsPool` | the worker pool of `npm/cli.js` and its retry | |
| `ReleaseOrder` | abstract: what becomes public after what | refined by `Release` |
| `Release` | the three publishing scripts, the tag's workflow, the checkout and the people | `INSTANCE ReleaseOrder` |
| `LtRegions` | the parser's three tracked `<` regions | used by `TokenWindow` |
| `TokenWindow` | the parser over its text: window, ledger, regions, speculations | extends `LtRegions` |
| `DenoPool_proofs`, `Discover_proofs`, `DocRender_proofs`, `JsPool_proofs`, `Release_proofs`, `TokenWindow_proofs` | TLAPS proofs about one module each | extend it |
| `TokenLedger_proofs` | TLAPS proofs about the ledger and the claims of `TokenWindow` | extends `TokenWindow_proofs` |
| `MC*` | small instances for TLC: trees, documents, texts, bounds | extend the module they check |

Discovery and the pool are two halves of one command. They meet in the sink:
`Discover` hands each file to it in walk order (its variable `found`),
`FormatPool` starts where a path arrives (`Discover(f)`, a file in any order).
The pool makes no assumption about the order or the number of files the walk
finds, except that it finds none twice, and that is what `OncePerFile` of
`Discover` says and `FilesTakenOnce` proves.

### Order, and what is left

1. Written: the pool with both routes, the Deno oracle, the renderer with its
   fills, discovery, the JavaScript pool, the release, the parser's token window;
   and the proofs of section 6.
2. Next, to prove: `AdviceWorks`, of discovery's properties the only one that
   TLC alone checks; it needs the matcher over two versions of an ignore file. Of
   the renderer `NothingSwallowed`, which needs what `EdgeOf` says of every document.
3. Then, to model: the arena park of the bindings (nested calls, traps that do
   not unwind); the flow probes and embedded ends of the renderer; the template
   tokens and decorator re-reads of the parser; the stride pool of the audits; the write and read loops.

## 3. How the modules correspond to the code

### FormatPool (`tsv_cli/src/cli/pool.rs`, `commands/format.rs`)

| model | code |
|---|---|
| `queued`, `next`, `waiting`, `done` | `QueueState`; `queued` is a sequence, `next` the number claimed |
| `batch`, `keys` | `QueueSink`'s buffer and sort keys |
| `parked` | the threads asleep in the `Condvar` |
| `pc`, `claim`, `outcomes` | a drainer's place in `claim`/`drain`, the index in its hands, what it kept |
| `step`, `permits` | where the calling thread is; the `notify_one`s it still owes |
| `disk`, `mode` | what the files hold, `--write` or `--check` |

`Discover`, `TraversalError`, `EndWalk` and `WalkPanics` are what a walk does to
the sink; `PushBatch`, `NotifyOne`, `Finish`, `NotifyAll` and `Close` the queue's
side of it; `SpawnWorker` (which may be refused), `PoolIsUp`, `Fallback` and
`Joined` the pool's; `Claim`, `Park`, `Exit`, `Work`, `Die` and `SpuriousWakeup`
a drainer's; `ReadOut`, `Report` and `Crash` the end. A critical section is one
action, since none of them blocks; what happens after an unlock is an action of
its own. Positions are 1-based.

The collected route (`format_files`, for named files or several roots) is the
same pool over a list that is complete and sorted before it comes up. Its atomic
counter hands out the indices of a queue that is finished before the first claim,
so the claim loop is the same action. `Collect` and `CollectRefused` are what the
discovery before it comes to; the pool is no wider than its list (`MayWiden`), and
with no worker at all the calling thread drains it, as in the streamed route.

A worker that dies is one that panics outside `catch_unwind`: its outcomes go
with it. A panic inside is an error outcome of the file. A write that fails is one
that is refused (`readonly`); one that fails after it has truncated the file
(`fs::write` on a full disk) is left out: the file is reported as an error either way.

### DenoPool (`tsv_debug/src/deno/`)

| model | code |
|---|---|
| `actor[s].chan`, `.pending`, `.loop` | an actor's command channel, its pending map, and whether `run_actor` goes on, is inside a write, or has left its loop |
| `actor[s].stdin`, `.stdout`, `.proc`, `.files` | the child's pipes, its state, and the launch files |
| `writer`, `turn`, `poolUp` | a slot's write lock, `NEXT_ACTOR`, `DENO_POOL` |
| `pc`, `slot`, `accepted`, `answer` | a caller in `call_tool` |
| `delivered` | history: how often a request was written to a sidecar |

A caller takes a slot, finds it closed or not, heals it under the write lock,
dispatches, and waits; an actor takes a command or a line; a sidecar loads,
answers, babbles, dies or hangs. Time is not counted: a read may time out
whenever there is no line. `SendRequest` either writes the request at once or leaves
the actor inside the write (`loop` is "writing"), since a pipe may be full or smaller than
the request; there neither arm of the loop is polled. The write ends when the sidecar
reads (`Drain`) or dies (`WriteBreaks`), and by no timeout.

### DocNodes, DocLayout, DocRender and DocFlat (`tsv_lang/src/doc/`)

`DocNodes` builds documents as records. `DocLayout` computes the layout cell
(`Layout`: a flat width or one of the two break marks), and `Fits`, the width test
with its look-ahead over the commands behind. `Measured` is the same test, declared
without the memo. `DocRender` has one action per kind of command
(`render_doc_core`), the stack in `commands`, the deferred runs in `suffixes`,
and the output as tokens with their columns. What it asks of a whole document is a
parameter (`Fitting`, `MustBreak`, `EdgeOf`, `WordsOf`), which `DocLayout` answers in
the runs: a step of the renderer reads only the answer, and what is proved of the
steps holds for every one. `ArenaAssumption` says what the arena's constructors see
to, that the parts of a node were built before it and are of its kind's type;
`WordsAssumption` that the words of a document are put together from those of its
parts, as `Spelled` does, and that a deferred run holds none, since the
printers defer comments only. TLC evaluates both over all documents of the runs.

A flush takes the deferred commands onto the stack as a run, printed one at a time
(`FlushNext`) from the same stack, ahead of the line it was taken for (`FlushAtLine`), of a
comment of several lines (`FlushAhead`), or at the end of a part or of the document
(`FlushAtEnd`). The code does it in a call of its own, on a stack of its own.

A fill is a loop of its own (`arena_render_fill.rs`). `RenderFill` sets the
commands and the deferred runs behind it aside in a frame of `fills`; each turn
`PackItem` decides how the next item and its separator are laid out (`LastItem`,
`LastItemAndSeparator`, `ItemAndSeparator`, one arm per branch of the code),
`RenderPart` starts a part with the mode decided and `PartRendered` ends it. As in
the code, a part is rendered with a buffer of deferred runs of its own, flushed
before it returns, and is measured without what stands behind the fill, except
for the last item. Elements with text behind them (`after_element_fold`) and heads
glued to the text before (`glued_lead`) are flags of a fill.

`FlatWritten` of `DocFlat` is the flat write-out (`arena_render_flat.rs`): a walk over a
document that takes every group and fill for flat, charges the width of what is
written and of each reserve, and refuses what it cannot vouch for. `FlatIsRendered` compares
it with the renderer's output, when a document is done.

Left out: embedded documents' ends, the flow probes (`break_before_wide_flow`,
`hold_line_after_broken_flow`) and units welded to each other, which the
Svelte printer and the CSS at-rules ask for. Conditionals keyed on another group's mode are given
break arms that start with a line, as the printers give them: a `TODO` in
`arena_fits.rs` says that one of them is measured flat whatever its group's mode
is, so that an arm wider than its flat form would overflow.

### IgnoreStack, Advice and Discover (`tsv_ignore`, `tsv_discover`, `cli/discover.rs`)

A path is a sequence of names, a pattern a sequence of segments with `*` and
`**`; how a line becomes a rule is left out, and so is the glob inside one name.
`stack` holds the layers (`.gitignore` ones and overrides), `frames` the
directories being walked with the entries left in each, `scope` the stack the
file arguments are graded in. `CollectRoot` starts a walk and preloads the layers
above it, `VisitDir` and `VisitFile` take an entry in any order, `Leave` pops a
frame, `CollectFile` grades a file argument, and `Finish` sorts, compares
canonical paths and drops what was found twice. Links, unreadable files, unreadable directories and nested repositories
are part of the disk.

`Advice` builds what two warnings tell to do (`warnings.rs`): the ladder of lines
that opens a pruned directory down to what the negations under it name, each rule
spelled again for the deepest file that holds one, and the lines that bring an
excluded argument back past a `.gitignore`. A warning in `warned` carries them, and
`Followed` is the stack of a reader who did as told. `AdviceWorks` states what is
in scope then.

### JsPool (`tsv_wasm/npm/cli.js`)

| model | code |
|---|---|
| `main.phase`, `.pass`, `.files`, `.outcomes` | where `format_paths` is, and the list and outcomes of the running `format_files_parallel` |
| `main.kept` | the outcomes of the first pass while the second runs |
| `cursor` | the `Int32Array` the workers share |
| `worker[w]` | a worker's place in `run_format_worker`, its batch, the events it has sent and the main thread has not handled, whether its promise has settled |
| `unsound` | the threads where `engine_recovery_failed` |
| `source`, `touched`, `torn` | the disk: what each file was, which the run opened for writing, and which of these a failed `writeFileSync` left torn |
| `mishaps` | history, for the properties |

A worker's events reach the main thread in the order they were sent, which the
package's own test pins for a throw (report, then error); nothing is assumed
across workers. `Killed` covers an engine that does not load, a heap that runs
out and a termination, none of which runs the `finally`. A native overflow on
the N-API engine kills the process, so those trees hold no overflowing file. A
write fails before it opened the file or after it truncated it; either way
`format_one` answers an error of its own ("unwritten"), and a torn file that was read again
would be anything.

### ReleaseOrder and Release (`scripts/publish.ts`, `publish_napi.ts`, `publish_crates.ts`, `release.yml`)

| model | code |
|---|---|
| `main`, `originTag` | the repository on GitHub; a commit is the history it ends |
| `head`, `tree`, `localTag`, `sentinel` | the maintainer's checkout, and `.publish-in-progress` in it |
| `live`, `built` | what is on npm, GitHub and crates.io, and the source each was built from |
| `pub`, `wf`, `crates` | a run of `publish.ts --wetrun`, of the tag's workflow, of `publish_crates.ts` |
| `shifted`, `dropped`, `handed`, `fixes`, `faults` | history: what people did to the release |

A script's steps are actions in the script's order; `PubStops`, `WfStops` and
`CratesStop` end a run between any two of them, by a failed step or a kill, and
what a later run finds is what is on disk and public. `StartFresh` and
`StartResume` are the two ways into `publish.ts`, each with the preflight checks of
its own as guards. People act at any time: a coworker pushes, somebody pulls or
edits in the checkout the script is building, commits the edit, throws it away,
reverts the bump, or finalizes by hand after `--no-git`.

Assumed: one workflow run at a time; a source change brings the notes it needs; an
edit made during a build is not undone before the fingerprint is taken again.
`shifted` records the moves that no check of `publish.ts` looks for (an edit
between `git status` and the first fingerprint, a checkout moved after the build,
or between two attempts at a version that is partly public); `SameSource` is about
the rest, `OneSource` about all. What the model says of the code beside the
properties: the push sends the tag although the branch beside it is rejected
(`--follow-tags` is not atomic), and a sentinel left behind by a run that was
killed after its push stops the next release until it is removed.

### LtRegions and TokenWindow (`tsv_ts/src/parser/`, `tsv_ts/src/lexer`)

| model | code |
|---|---|
| `text`, positions | the source as atoms: identifiers, punctuation characters, comments, line breaks |
| `window` | `current`, `peeked`, `prev_end`, `had_line_terminator`, the kept peek error, the lexer's position |
| `comments` | the ledger the lexer drains into, with the owned bit of each |
| `depth`, `regions`, `base` | `grouping_depth`, `LtRegions`, `lt_regions_statement_base` |
| `frames` | the call stack: what is open, and the checkpoints of the speculations among it |
| `Context`, `Outermost` | the flags a list's expressions inherit (`in_await`, `in_yield`, `strict`): those of the innermost open function, class or arrow, and those of the goal |
| `verdicts` | the lists abandoned, and kept, each as the position of its `<` and the context it was read in (`type_arguments_context_key`) |
| `claims`, `compared`, `regions.all` | history, for the properties |

The grammar is abstracted to what it may do next. At each token the parse reads
on, opens or closes what the token allows, looks ahead, reads the token again (a
regular expression, the split of `>>` or `<<`), or, inside a speculation, fails.
The speculations are those the grammar has: an arrow's head
in a conditional's consequent (`TryArrow` to `EndArrow`), a type-argument list that
may be two comparisons (`TryList`, `CloseList`), and the comparison tried at a list
whose follower only tsc refuses (`Settle`, `EndComparison`); `Throw` is a syntax
error in any of them, with the handler that catches it. Left out: template tokens,
the second reading of decorators, `new` in a heritage clause, the depth and spine
budgets, the ambience flag (no construct of the texts changes it), the parse
through acorn's rules, comments glued in pairs, and `preserve_parens`. A function's
header is not in the text, so a body's context is any that keeps the strictness
around it.

## 4. Runs

| run | instance | what it shows |
|---|---|---|
| `pool` | 2 files with every kind of content, 2 workers, both modes, both routes | indices are handed out once, nobody is left asleep beside unclaimed work or past `finish`, the report and the exit status are true of the disk, the run ends, the queue streams while the walk stalls, and the pool implements `FormatOnce` |
| `deno_calls` | 3 calls, 1 slot with 2 failures and a stray line, or 2 slots with 1 failure | no accepted request is lost, a sidecar starts from its files, every call returns unless its actor is held in a write, and the pool implements `OracleCalls` |
| `doc_render` | 35 060 documents, width 4, tab 2 | the width is honoured, no word and no comment is lost, torn or swallowed, a flat group laid unmeasured fits, the memoized test is the declared one, the flat write-out accepts only what the renderer writes on one line |
| `doc_commas` | 8 documents of a CSS list, width 6 | finding 2 |
| `doc_hug` | 81 documents of one call layout | finding 1 |
| `discover_scope` | 882 sets of ignore files with one directory or an excluded argument named, 2770 sets of negations under a pruned directory, 800 odd disks with up to three arguments | walk, replay, stack and warnings agree, no file is found twice, and what a warning tells to do works |
| `discover_nested` | the odd disks with one directory | finding 3 |
| `js_pool` | 3 files, 2 workers, both engines, both modes | the report is true, a file's verdict is its own, every run reports |
| `release` | 2 versions, 2 faults, 2 source changes, 2 WASM packages, 1 platform, 2 crates | a half-published version is resumed, its tag and packages hold one source, its artifacts come out in order and once, and it comes out in full |
| `release_source` | 1 version, 1 fault, edits between runs only | finding 4 |
| `parser` | 15 600 texts: every short one that begins a list, nine longer ones, in a module; 6 constructs open at once | the window, the ledger, the claims and the nesting stay those of the text; three regions answer as all would; no list is compared twice in one context |
| `parser_split` | the same texts | finding 5 |

`TypeOK` is in no run: it is stated in each module for the reader, and proved where
section 6 says so (of `FormatPool`, that `waiting -= 1` does not underflow).

### Why the bounds are enough

*Pool.* A batch of two out of two files and a batch of one behind it are a full
batch and a tail; two workers and the calling thread are the least of which one
claims, one is woken and one is still parked while the stale count is used. A
report line is about one file and its neighbour, and every content appears.
`MCRank` makes walk order and key order differ. What the bounds cannot show of
more files and workers is proved for the queue (section 6), from an invariant that
holds of any number of them.

*Deno.* Two calls on a slot are the least with one queued behind another, three
the least with one more that heals the slot meanwhile; the second failure hits the
healed sidecar. With two slots, two of the three calls share one. `MCFaults`
bounds the environment alone. Every request may be longer than the pipe.

*Renderer.* The families fill every place of a few nestings of groups with every
atom: text groups nested and side by side, layout states and gates, keyed groups,
every way to indent, deferred comments with what may flush them, and the fills the
printers build (the values of an array, of a CSS declaration, of a text, an
element with text behind it, a head glued to the text before). The width of 4 lets
two of the words stand on a line and not three, so that every decision of the
width test comes up both ways. The bound that matters is depth: two groups, with
text before, between and behind, are what the look-ahead sees at once, and three
items of a fill meet all three of its arms (an item with its separator and the
next, one with a separator at the end, the last). The lines, short runs of words,
groups and reserves, are there for the flat write-out: it accepts 387 of the
documents, at and just below the width among them. `WidthHonoured` is silent while
a remeasure is owed: what a layout state holds behind a hard line of its own is
laid out by the next group.

*Discovery.* Three levels are the least at which a rule of a middle directory can
be read, popped, or never read; the rules of `MCDiscover` are those which speak
of a directory, of files in it, of everything, and their negations. The thirteen
negations of `Reaches` reach under `a/dist` by a name, as a directory, by one star
and by two, at one level and at two, so that three of them open a directory in
every way under one opened in every other; with a second file, one rule is spelled
again for it. `AdviceWorks` asks of every path of up to three names below the
directory, on disk or not.

*JavaScript pool.* Two workers are the least for a narrowed pool, and three files
the least for which a retry's list has places that differ from the files' own.

*Release.* Two packages are the least with a half-published set, two crates the
least with an order; the second version is what a sentinel or a tag left by the
first could stop or be taken for. Two faults are one in a run and one in its
resume. `MaxFixes` counts source changes: the first is in what is released, the
second happens under it.

*Parser.* The longer texts hold the speculations in one another: lists in a list's
computed key, an arrow in a conditional's consequent with a body in it, four `<`
at several depths inside parens that may be stripped, lists closed by `>>`, `>>=`
and across a line, comments at each place a reading can claim one. Four `<` are
one more than the parser tracks. The short texts are every one of seven atoms, so
that no ordering of comments, breaks and angle brackets is left to choice.
`Nesting` is the number of constructs open at once; the longest text opens no more.

### What may deadlock

`js_pool`, `release` and `parser` turn the deadlock check off: a run that has
reported stops, a release is over when nothing is left to publish, and an
abstracted parse stops where its text ends or where no production takes the next
token. That `js_pool` and the release do not stop before is `EveryRunReports` and
`EventuallyOut`. In the other models the final state stutters by an action of its
own, and TLC checks that no other state is stuck.

### Fairness

* `FormatPool`: each thread goes on when it can (`WF` for each drainer and for
  the calling thread outside the walk). A mutex and a condvar do not promise
  more, and no strong fairness is used: a thread woken and not yet back under the
  lock stays ready. The walk has no fairness in `StalledWalkSpec`: a directory
  listing may block for ever on a network mount, and `Streams` holds all the
  same. `Termination` says that the run ends if the walk goes on. Spurious
  wake-ups, refusals, deaths and panics are never forced.
* `DenoPool`: the runtime polls ready tasks and fires timers, so callers and
  actors are fair; the sidecars are not, and `EveryCallReturns` rests on the
  timeout of a read. A write has none, so the property has a premise for each slot: its
  actor is not for ever inside one write. Nothing but the sidecar can see to that,
  and what happens when it does not is told below, after the findings.
* `JsPool`: the event loop and the worker threads run. No failure is forced.
* `Release`: a script that nothing stops goes on, and the maintainer does not give
  up: starts the scripts again, pulls, clears the tree, reverts a bump that no
  sentinel names. Without the last there is nothing to show: every script refuses
  and waits for a person. Coworkers, edits and failures are never forced.
* `DocRender`, `Discover` and `TokenWindow` are sequential; only safety is
  checked.

## 5. What the properties say

Each property carries a comment with the behaviour it is about. The ones to read
first:

* `NoUnderWake` – the comment of `push_batch` argues that waking too few threads
  is safe with a stale `waiting`; this is what it must mean.
* `ImplementsFormatOnce` – found files are formatted at most once, and reported
  exactly once, in order, whatever was refused or died.
* `Accounted`, `ImplementsOracleCalls` – where an accepted request may be, whose
  verdict answers it, why none is sent again, and that a failure tells whether
  the request may have run.
* `FitsIsMeasured` – the memoized width test against its declaration.
* `WidthHonoured`, `PassThroughFits`, `NothingSwallowed` – what a printer relies
  on when it writes a group, packs a fill or defers a comment.
* `TextKept` (`WordsKept` and `PiecesWhole`) and `CommentsKept` – every word of one of the document's
  spellings is printed once, in order; so is every comment; and a comment of several
  lines comes out in one piece, whatever was deferred before it.
* `FlatIsRendered` – the second code path, which writes a document of one line
  without the renderer, gives what the renderer gives or refuses.
* `StackIsChain`, `ShadowWarned` – the layers are those of the directories above,
  and a negation without effect is told of.
* `AdviceWorks` – the lines a warning proposes, once added, reach all that the
  negations name and nothing else.
* `StartsFromFiles` – no launch file is read after it was deleted.
* `TakenAsReplayed` – the walk, which never reads below an excluded directory,
  takes exactly the files that a per-file check over the whole stack takes.
* `SameVerdict`, `ReportTrue`, `ErrorsAreUntouched` – what the JavaScript pool
  may report after which mishap.
* `SentinelCovers`, `SameSource`, `EventuallyOut` – from the first package on npm
  on, the next run finds what it needs to finish the release, with one source.
* `WindowIsSource`, `LedgerIsSource`, `ClaimsStand` – whatever was peeked, split,
  lexed again or rewound, the parse goes on with the tokens and comments of the
  text, and a comment claimed by an abandoned reading is free again.
* `CratesAreTagged`, `ImplementsReleaseOrder` – a crate is built from the tag
  whatever moved while the script slept at the rate limit, and nothing is public
  before what it needs.
* `ContextIsNesting`, `ComparedOnce` – the counters a rewind puts back agree with
  what is open, and nested lists do not double the work at each level. A verdict is
  remembered with the context it was given in, and one of the texts is read in two:
  a doubted list in the annotation of what turns out to be no arrow is compared in
  the arrow's context and again in the one around it.
* `CapLosesNothing` – three tracked `<` regions answer every question the parser
  asks as an unbounded record would.

Every one of them is shown to fail on a mutant of the code it is about (the
operators marked `mutant:`): a notification short, a batch not flushed, a request
registered after the write, a width not remeasured, a layer not popped, a retried
outcome put in the wrong place, a tree fingerprinted without its edits, a loader
published before its platforms, a ledger not truncated by a rewind.

### Findings

1. `doc_hug` (`PassThroughFits`). `arena_render.rs:1407` says that measuring a passed-through group
   again "returns true by construction". In the hug of a call's first argument, the
   broken function's hard lines come out of a group that is in break mode, so no
   remeasure is armed, and the argument behind it is laid flat unmeasured where a
   measure says no: the line overflows although it could break.
2. `doc_commas` (`WidthHonoured`). A CSS list's comma rides in the fill's separator
   (`tsv_css/src/printer/declarations.rs:1190`), and a fill measures an item
   without the separator behind it: an item that ends at the print width keeps its
   place and its comma lands one column past it, although
   `docs/conformance_prettier.md:878` calls the width a hard limit. The array
   printer holds its commas in the items for this reason.
3. `discover_nested` (`NamedAsReached`). `docs/cli.md:733` says that a directory named directly is
   bounded by the same ignore rules as when it is reached from above, and excepts
   only the safety nets and the heuristic. A repository inside another, named,
   becomes its own format root, and the outer repository's ignore files no longer
   count.
4. `release_source` (`OneSource`). `publish.ts:248` tells the maintainer to commit a fix and
   resume, lest artifacts be built from different source. A resume skips the
   packages already on npm, so those keep the source before the fix, which the tag
   does not name.
5. `parser_split` (`ArrowRefusedForBreak`). A `>` split off `>=` leaves `had_line_terminator` as it was for
   the token before the split, though the field is documented to speak of the
   token before: an annotation whose closing `>` opens a line and is glued to the
   `=>` has its arrow refused for a break that does not stand before it.

The premise of `EveryCallReturns` contradicts a comment as well. `actor.rs:30` holds
every response after the first to `READ_TIMEOUT`, "so a stuck request still fails
fast". The timeout is in `read_response`; `send_request` writes and flushes without one,
in the other arm of the same `select!`. A sidecar that hangs while the pipe is full, or
while a request longer than the pipe is written, holds the actor there: the timer is not
polled, and every call pending or queued on the slot waits for ever. With the premise
dropped, `deno_calls` finds that behaviour (its states are those in which `Terminated`
finds a `Stuck` slot).

Two more things were seen while `Advice` was written, and have no run of their own,
because the source and its docs do not speak plainly enough to be contradicted.
`AdviceWorks` is stated so as to leave them out:

- A directory re-included whole by a *glob* (`!dist/**/sub/`) gets lines that open
  every directory under `dist` and leave the files of `sub` closed by `/dist/**`:
  `warnings.rs:179` calls a directory whole only where its path is literal. "The
  whole subtree comes back" is therefore asked only of directories named plainly.
- A path excluded by the root's override file, below that by an override file of a
  deeper directory: the first rule is told, and the second only when the command is
  run again. `docs/cli.md:712` says "one warning stating both, not one per rerun", of
  the case where a `.gitignore` rule is in play too.

## 6. What is proved

The proofs are checked by TLAPS with Z3, Zenon and LS4. Each component's are in a
module of their own and hold for every value of its constants that the named
assumptions admit: any number of files, workers, callers, packages, versions, any
text, any tree and any ignore file, any document, any interleaving. Nothing else is
assumed.

| module | theorem | says, of every run |
|---|---|---|
| `FormatPool_proofs` | `TypeCorrect` | `TypeOK`; in particular `waiting -= 1` never underflows |
| | `ClaimsAreExclusive` | `ClaimedOnce`: no index in two hands, none twice |
| | `NoClaimForgotten` | `ClaimsKept`: a claimed index is worked on or kept, unless a thread died |
| | `UnderWakingIsSafe`, `FinishReleasesAll` | `NoUnderWake`, `NoSleeperAfterFinish` |
| | `QueueInvariant` | `QueueInv`, from which they follow |
| | `ReportIsFaithful`, `ExitStatusTells` | `ReportFaithful`, `ExitTells` |
| | `ReportInvariant` | `ReportInv` |
| | `PoolImplementsFormatOnce` | the pool implements `FormatOnce` |
| | `OnceInvariant` | `OnceInv` |
| `DenoPool_proofs` | `TypeCorrect` | `TypeOK` |
| | `NoRequestLost`, `FilesOutliveStart` | `Accounted`, `StartsFromFiles` |
| | `PoolImplementsOracleCalls` | the pool of sidecars implements `OracleCalls` |
| | `PoolInvariant` | `DenoInv` |
| `Discover_proofs` | `StackStaysChain`, `FilesTakenOnce` | `StackIsChain`, `OncePerFile` |
| | `WalkIsReplay` | `TakenAsReplayed` |
| | `ShadowsAreWarned` | `ShadowWarned` |
| | `DiscoverInvariant`, `ReplayInvariant`, `ShadowInvariant` | `DiscoverInv`, `ReplayInv`, `ShadowInv` |
| `DocRender_proofs` | `WordsAreKept`, `PiecesStand`, `TextIsKept` | `WordsKept`, `PiecesWhole`, and `TextKept`, which is both |
| | `PrintInvariant` | `PrintInv` |
| `JsPool_proofs` | `ReportIsTrue`, `ErrorsLeaveTheFile`, `VerdictIsTheFiles` | `ReportTrue`, `ErrorsAreUntouched`, `SameVerdict` |
| | `JsInvariant` | `JsInv` |
| `Release_proofs` | `TypeCorrect` | `TypeOK` |
| | `ReleaseIsResumable`, `TagsAreReleases` | `SentinelCovers`, `TagIsRelease` |
| | `PackagesMatchTheTag`, `CratesMatchTheTag` | `SameSource`, `CratesAreTagged` |
| | `ReleaseImplementsOrder` | the scripts implement `ReleaseOrder` |
| | `ReleaseInvariant` | `ReleaseInv` |
| `TokenWindow_proofs` | `WindowReadsSource`, `ContextStands` | `WindowIsSource`, `ContextIsNesting` |
| | `ThreeRegionsSuffice`, `OneComparison` | `CapLosesNothing`, `ComparedOnce` |
| | `ParseInvariant` | `ParseInv` |
| `TokenLedger_proofs` | `LedgerReadsSource`, `ClaimsOfStandingReadings` | `LedgerIsSource`, `ClaimsStand` |
| | `LedgerInvariant` | `LedgerInv` |

Every inductive invariant was an invariant of a TLC run before it was proved, but for
`PrintInv`, which says that a chain of sets of spellings exists and is beyond
enumeration: of it the run checks what follows, `TextKept`. The
modules that follow name theirs in parts, each with a comment; here is why the parts are
needed.

**The queue** (`QueueInv`). `NoUnderWake` compares the unclaimed work with the
threads on their way to it, so a step that parks a thread or takes an index must
know that the counters mean what they say: `WaitingCounts` (`waiting` counts the
threads inside `Condvar::wait`, woken ones included) and `Phases` (a parked thread
is a waiting one; wake-ups are owed only while they are being made; nobody parks
once `done` is set). The crucial step is `PushBatch`: of the threads it counts as
waiting, those already awake need no wake-up, and one wake-up for each other is
owed, or one for each new file if that is less (lemma `BatchWakes`). After that
each `NotifyOne` pays one debt and each `Claim` takes one file for one awake
thread. `ClaimedOnce` and `ClaimsKept` need `ClaimBounds`: only a thread at work
holds an index, and only indices below `next` are held, so a fresh claim meets
nobody else's.

**The report** (`ReportInv`). The report is read off a sorted list of keys, the
exit status off the outcomes of threads that may have died. `KeysOfWalk` says the
keys are the walk's files, each position once, in any order (the swap that a sort
makes keeps it); `Accounts`, that without a traversal error nothing of the scope is
missing; `OutcomesTrue`, that what a thread keeps is true of the disk;
`ExitedDone` and `DeadLose`, that a thread leaves the loop only when all is claimed, and
takes a claimed position with it when it dies. So a complete report has one true
line for each file, and an incomplete one has a dead thread behind it.

**The pool as `FormatOnce`** (`OnceInv`). The mapping gives a file its fate from
the threads' hands: lost when its position was claimed and no living thread has
it, done when a living thread keeps its outcome. A death turns into the loss of exactly the
files that thread held, which needs `Distinct` (one position per file) and
`Crewed` (only threads that were started hold anything); each other step of the
pool is a step of the abstract one or leaves every fate alone.

**The oracle** (`DenoInv`). A request that was accepted is in one place: queued in
its slot's channel, pending in its actor, or answered. The invariant adds to `Accounted`
what decides between them: what is queued is not yet sent, is queued once and
belongs to a caller of this slot that waits; what is pending was sent once; a
loop that is left has failed its pending requests, and a dropped one its queue.
A request whose write waits for the sidecar's pipe is pending like the others.
Healing a slot replaces a channel that is empty by then, so nobody's request goes
with it.

**Discovery** (`DiscoverInv`). The stack is pushed and popped by directories whose
layers were computed from the stack of that moment, so the invariant says of each frame what
it pushed (`FrameStands`: the layers its directory has over the whole stack of its
parent), and `Leave` takes exactly these off again (`PushPop`: what a directory pushes
lies on top of each half of the stack, whichever halves it pushed to). At the root the walk starts
from what `preload_ancestors` read, which stops at an excluded directory: it is the
whole stack all the same for every root that is walked, since a directory that stops
it excludes what lies under it, and the gate refuses that (`PreloadIsFull`,
`RootStack`). A scope kept from one file argument to the next is the scope that would be read from
nothing for its last directory (`ScopeFor`): it is unwound to the directories shared
with the next and read on from there (`UnwoundIs`, `ScopeEntered`).
That nothing is taken twice needs the walk as well: a directory is crossed off its
parent when it is entered, so nothing that is still to be visited lies above a file already
found (`Ahead`). Between two arguments nothing prevents a file from being found
twice; but it can be only if one argument's canonical path lies above the other's
(`Under`, lemma `UnderTells`), and then `roots_can_overlap` says so and the
canonical paths are compared. One finding about the model: that a file was handed to
the sink once was written with a count over the bag, which the prover could
not evaluate; it now says `found[p] = 1`. The trees were left open by the assumption, which
now says that the names of a path are names, and that the parents of links are
directories too.

**The walk and the replay** (`ReplayInv`, on top of `DiscoverInv`). The walk decides
on the stack of the moment, with the directories it has come through; `is_path_pruned`
on the whole stack of one file. They agree on what lies above a directory because a
layer says nothing of its own directory or of one above (`PushSilent`, `SaidAbove`), so the
layers still to come change no verdict already given. `Reached` says what the replay
asks of a directory: no rule excludes it or one above it, the heuristic of directories
prunes none from the argument down, all of these can be listed; each frame of the walk is
`Reached`, and an entry is descended into exactly when it is (`ReachedChild`). The heuristic
is the delicate part: the walk carries a flag down (`child_heuristic`), the
replay looks for a `.gitignore` above the path; both say that the walk's stack
holds no `.gitignore` (`ChildActive`, `GitignoreAbove`). At the root it is the gate that has to
refuse what the whole stack excludes though `preload_ancestors` may have stopped before
reading all of it (`PreloadTells`, `RootReached`). `TakenStands` then counts: a file of the
replay is found or lies ahead of the walk until its argument is over, and every file
found is one of the replay of an argument already taken.

**The shadow warnings** (`ShadowInv`, on top of `ReplayInv`). The warning is decided
while the walk stands above the directory, and `ShadowWarned` reads the whole stack once the
run is over. `ShadowsTold` bridges the two: a directory that the walk of an argument
comes to and whose verdict is "prune, warn" (`Shadowed`) has been warned of (`Raised`), or the
walk has not reached it yet (`Ahead`). A step keeps this because the verdict on the name in hand is the
one over the whole stack above it (`OnTheWayDown`), and an argument whose gate was refused has no
such directory (`GatePasses`). It is then left to show that the verdict is "prune, warn": a negation
spelled name by name down to the directory reaches under it
(`SpelledReaches`), and the override layers of the stack there are all of directories
above (`OverridesAbove`), so `has_negation_under` finds it (`NegationReaches`). The
attempt to prove it found two errors of the model's statements: the
property took a directory that is itself named `*` as spelled by a rule's wildcard, which
`negation_leading_path` does not count as a spelling; and the type of the disk left the rules of an ignore file untyped.

**The renderer** (`PrintInv`). A document may be laid out in many ways, and the width test
picks one as it goes; what no choice may do is drop, repeat or move a word. A
document has a set of spellings, the words it may print in a mode, and the invariant
says that what is printed can be completed to one of the root's by what is left.
What is left is not on one stack: a fill in progress has its part on the stack,
the jobs of its turn and the parts behind them in its frame, and the commands it was
met in front of put aside; and fills nest. So `Kept` chains sets from the outside in:
what may be printed when the outermost fill is over and its commands are taken back, then when
its parts are packed, down to the innermost (`Packed`, `Stack`). The steps are then few in
kind: a command is replaced by one with fewer spellings (a group by the state it is laid out
with, a conditional by an arm, a wrapper by its document: `KeptSwapped`), by the row
of its parts (`KeptUnfolded`), or prints its word (`KeptWord`); a silent one is put or taken
(`KeptPushed`, `KeptDropped`); a turn moves the next parts to the jobs, in whatever mode
(`KeptTurn`), a job to the stack (`KeptPart`). On the output, `Spelt` says where the
words stand in it. Flushes are why this can fail: they trim, put blanks back and take a
separator out from the middle of a line already printed (`DropHeadSpace`), all of which leave
the words and `Whole3`, the three tokens of a comment in a row, as they were. The width test is
not part of it: both theorems hold of every `Fitting`, `MustBreak` and `EdgeOf`, so no
mistake of a measure loses text.

**The JavaScript pool** (`JsInv`). The report is put together from messages of
workers that may die before or after they post. `ClaimsAreApart` and
`ResultsAreTrue` relate what the workers hold to the disk; `NoneIsLost` says that a
claimed place is in hand, reported, or gone with a worker; `LastWords` lists the only
three states of a dead worker's inbox, so that an exit is never handled before the
report it follows; `Here` is the same for the main thread's own pass, and `Kept`
says which files the second pass may touch. Without `Kept` the retry could
overwrite a verdict of the first pass. `Told` is what a verdict says of the disk: a file is
opened only to be changed, and one that is torn is told as a write that failed.

**The release** (`ReleaseInv`). A release is resumed from what is on disk, so the
invariant relates four copies of the version: the tree, HEAD, the tags, and what is
public. `WholeBumps` and `Unpushed` keep the first three together at every point a
script can die; `HandedOver` and `GoneForGood` do it for the two things people do
to a release (finalize by hand after `--no-git`, give a version up); `PackagesFirst`,
`WorkflowAt` and `CratesAt` give the order of publishing; `BuiltFrom` says what the packages
were built from as long as nothing moved the checkout unseen. The attempt to prove
`HandedOver` found a gap in the model, not in the scripts: `FinalizeByHand` let an
old hand-off be finalized over a newer bump; it is now guarded by what the tree holds.

**The parser** (`ParseInv`). A rewind puts back a window that was taken long
before, so everything said of the window is said of every checkpoint too (`Reads`,
`FramesRead`: the same `WindowOK`), and likewise depth, base and regions
(`Nested`). What a split leaves is a token again because the tail of an
operator is one (`TailsAreOperators`). Three regions are enough because the
tracked ones are the first of all (`Capped`), which closing and re-anchoring keep
only because the floors lie in order (`Fits`): a closer ends a run at the end, so an untracked
region never outlives a tracked one; then at least *n* regions are open before a
place exactly when the *n*-th is (`OpenIsReached`). A `<` is compared once in a context because
speculations lie in the order of their places (`InOrder`): a rewind to one of
them leaves no later comparison open, and `Judged` says that a `<` once compared has, in its
context, a verdict or is being compared. That the verdict is looked up in the context it
was given in is `FrameOK`: a checkpoint's context is that of what is open before it
(`ContextAt`), and a list or a comparison does not change it. The attempt to prove it found one error of the model:
`Init` admitted a text that begins with what no token does, which `prime` refuses.

**The ledger** (`LedgerInv`, on top of `ParseInv`). `Ledger` says that the entry *i*
is the comment with *i - 1* comments before it (`Rank`), and is owned exactly when claimed;
so a cut of the ledger to a length is the ledger up to a place, which is what a rewind
needs of `cp.comments` (`Held`). That no comment is drained twice by a split or a second lexing
is `Settled`: tokens begin and end in no blank, so the comments behind the cursor
are those before a token's start, whichever token it was.
The claims are harder. A rewind to an arrow or a list truncates the ledger and lets
the flags before the cut stand, a comparison's clears those of its `unclaimed`; both
give back the checkpoint's claims only if whatever was claimed since lies at or
behind `Limit` (the checkpoint's cursor, or the `<` of a comparison). A claim is made on
comments behind the current token, so it suffices that an expression is read only once
the window is `Beyond` the tokens that the checkpoint's lexer had seen. It is not
at once: a checkpoint may have been taken over a cached peek, or the first half of
`<<`. `Fresh` says that until then only types are open since, which claim
nothing. `Stacked` says the same of every frame inside another, since a rewind brings
their states back; and a paren's cast comment, found when the paren is opened and claimed when
it closes, is a place of that kind too. The attempt to prove `Settled` found one error of the
model: `RelexRegex` could pass over a comment, whose own `/` would have ended the
regular expression.

Inductions over naturals are made by the least counterexample (`Least`, from the
well-foundedness of finite sets by inclusion, in `TokenWindow_proofs`), since the
induction theorems of the library need a prover that is not used here.

### What is only model-checked

* Liveness (`Termination`, `Streams`, `EveryCallReturns`, `EveryRunReports`,
  `EventuallyOut`): out of the prover's reach.
* Of the renderer, what does not hold of every document, or depends on the answers of
  `DocLayout`. `WidthHonoured` and `PassThroughFits` fail on the documents of findings 1 and
  2, `NothingSwallowed` and `CommentsKept` on one that prints a line comment, not deferred,
  before a word or before what it passes: they are promises about the families that
  the printers build, checked on those. `FitsIsMeasured` and `FlatIsRendered` compare
  recursive definitions, which the prover's SMT backend does not take, and what these
  compute for every document is induction over data, which no installed backend can
  instantiate.
* Of discovery, `AdviceWorks`, which speaks of the lines added to an ignore file
  and matches them anew.

## 7. What is not modelled

`PROJECT.json` lists each component with its reason. In short: the grammars,
printers, the stripper, the compiler and the checker are pure functions over
syntax whose reference is another program; the bindings are marshalling; the
benchmarks, fixtures and audits are tools around the program. Four small parts
with a state of their own are left for later, because each is one thread or one
counter and says less than what is modelled: the arena park (one slot per thread,
taken and put back around a call), the write and read loops (one descriptor), the
stride pool of the audits, and the watchdog of the conformance runner.

Of the modelled components, these parts are left out: the parse of an ignore
file's lines, the wording of warnings and the paths no ignore line can spell (the
lines a warning proposes are modelled, in `Advice`); embedded ends, flow probes and welded
units in the renderer; the capacities of the sidecar's channels, the wall clock,
and the `Shutdown` command, which only tests send; dry runs and refusals that read
no modelled state in the release scripts; and in the parser what section 3 lists.
Two hazards have no property: a read timer that steady traffic restarts
(there is no clock), and a keyed conditional measured flat whatever its group's mode
is (a `TODO` of the source).
