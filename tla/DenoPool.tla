------------------------------- MODULE DenoPool -------------------------------
(***************************************************************************)
(* The oracle the conformance tools call: a pool of Deno sidecar processes,*)
(* each driven by one actor task (deno/actor.rs), and the callers that     *)
(* dispatch to a slot and heal it when its actor is gone (deno/mod.rs).    *)
(*                                                                         *)
(* An actor's loop waits on its command channel and, while requests are    *)
(* pending, on the sidecar's next line with a timeout.  A command may      *)
(* arrive between the poll of the channel and the completion of the read,  *)
(* so either arm may be taken whatever the channel holds.  Time is not     *)
(* counted: a read may time out whenever no line is there.  A request is   *)
(* written inside the command arm, with no timeout: while the pipe does not*)
(* take all of it the loop polls neither arm.                              *)
(*                                                                         *)
(* Not modelled: the capacity of the channels (256 commands, 64 lines),    *)
(* which the callers' concurrency does not reach.                          *)
(***************************************************************************)
EXTENDS Integers, Sequences, FiniteSets

CONSTANTS
    Calls,      \* the calls of call_tool, one request each
    NSlots,     \* the largest POOL_SIZE
    None,       \* no caller
    Faults      \* [1..NSlots -> bounds]: for each POOL_SIZE how many sidecars
                \* die or hang, and how many lines are no answer to a request

ASSUME SlotsAssumption  == NSlots \in Nat \ {0}
ASSUME NoneAssumption   == None \notin Calls
ASSUME BoundsAssumption == Faults \in [1..NSlots -> [crashes: Nat, noise: Nat]]

Slots    == 0..NSlots - 1
Verdicts == {"output", "tool_error"}
Refusals == {"spawn_failed", "shutdown"}
Losses   == {"crashed", "timeout"}
\* what a line of stdout can be besides a verdict: no JSON object, or a
\* response with id -1 ("noise"); JSON that does not parse ("garbage")
Lines == ({"noise", "garbage"} \X {None}) \cup (Verdicts \X Calls)
\* what a call returns: a failure, or a verdict and the request it is about
Unanswered == <<"none", None>>
Answers    == ((Refusals \cup Losses) \X {None}) \cup (Verdicts \X Calls)

VARIABLES
    size,       \* POOL_SIZE, as the command set it before its first call
    poolUp,     \* DENO_POOL is initialised
    turn,       \* NEXT_ACTOR modulo the pool size
    actor,      \* each slot's actor, its task's state and its sidecar
    writer,     \* the caller that holds a slot's write lock
    pc,         \* where a caller is in call_tool
    slot,       \* the slot it was given
    answer,     \* what its oneshot, or call_tool itself, returned
    delivered,  \* how often its request was written to a sidecar
    crashes, noise

vars == <<size, poolUp, turn, actor, writer, pc, slot, answer, delivered,
          crashes, noise>>

\* `loop` is "open", "writing" (inside send_request's write, which the pipe
\* has not taken whole), "breaking" (the loop is left, its state and its
\* channel are not dropped yet) or "closed"; `files` says the launch files
\* exist; `proc` is the sidecar, `stdin` and `stdout` what is in its pipes, a
\* request that is being written included
Fresh  == [loop |-> "open", chan |-> <<>>, pending |-> {}, files |-> TRUE,
           proc |-> "starting", stdin |-> <<>>, stdout |-> <<>>]
Closed == [loop |-> "closed", chan |-> <<>>, pending |-> {}, files |-> FALSE,
           proc |-> "dead", stdin |-> <<>>, stdout |-> <<>>]

Init ==
    /\ size \in 1..NSlots
    /\ poolUp = FALSE /\ turn = 0
    /\ actor = [s \in Slots |-> Closed]
    /\ writer = [s \in Slots |-> None]
    /\ pc = [c \in Calls |-> "idle"]
    /\ slot = [c \in Calls |-> 0]
    /\ answer = [c \in Calls |-> Unanswered]
    /\ delivered = [c \in Calls |-> 0]
    /\ crashes = 0 /\ noise = 0

Spawned    == [s \in Slots |-> IF s < size THEN Fresh ELSE Closed]
InChan(s)  == {actor[s].chan[i] : i \in 1..Len(actor[s].chan)}
Readers(s) == {c \in Calls : slot[c] = s /\ pc[c] \in {"reading", "awaiting"}}
AnswerAll(S, r) == [c \in Calls |-> IF c \in S THEN r ELSE answer[c]]

-----------------------------------------------------------------------------
(* The callers: get_slot, call_tool, await_response.                        *)

\* get_slot spawns the pool on first use and takes the next slot
GetSlot(c) ==
    /\ pc[c] = "idle"
    /\ pc' = [pc EXCEPT ![c] = "arrived"]
    /\ slot' = [slot EXCEPT ![c] = turn]
    /\ turn' = (turn + 1) % size
    /\ poolUp' = TRUE
    /\ actor' = IF poolUp THEN actor ELSE Spawned
    /\ UNCHANGED <<size, writer, answer, delivered, crashes, noise>>

\* DenoActor::spawn fails, for the pool (which stays unset) or for a slot
\* that is being healed; the error is the caller's
SpawnFails(c) ==
    /\ \/ pc[c] = "idle" /\ ~poolUp
       \/ pc[c] = "healing" /\ actor[slot[c]].loop = "closed"
    /\ answer' = [answer EXCEPT ![c] = <<"spawn_failed", None>>]
    /\ pc' = [pc EXCEPT ![c] = "done"]
    /\ writer' = [s \in Slots |-> IF writer[s] = c THEN None ELSE writer[s]]
    /\ UNCHANGED <<size, poolUp, turn, actor, slot, delivered, crashes,
                   noise>>

\* slot.actor.read().await
ReadLock(c) ==
    /\ pc[c] = "arrived" /\ writer[slot[c]] = None
    /\ pc' = [pc EXCEPT ![c] = "reading"]
    /\ UNCHANGED <<size, poolUp, turn, actor, writer, slot, answer,
                   delivered, crashes, noise>>

\* slot.actor.write().await
WriteLock(c) ==
    /\ pc[c] = "refused" /\ writer[slot[c]] = None /\ Readers(slot[c]) = {}
    /\ pc' = [pc EXCEPT ![c] = "healing"]
    /\ writer' = [writer EXCEPT ![slot[c]] = c]
    /\ UNCHANGED <<size, poolUp, turn, actor, slot, answer, delivered,
                   crashes, noise>>

\* under the write lock: respawn the slot unless another caller did already
Heal(c) ==
    /\ pc[c] = "healing"
    /\ pc' = [pc EXCEPT ![c] = "healed"]
    /\ actor' = IF actor[slot[c]].loop = "closed"
                THEN [actor EXCEPT ![slot[c]] = Fresh] ELSE actor
    /\ UNCHANGED <<size, poolUp, turn, writer, slot, answer, delivered,
                   crashes, noise>>

\* dispatch: the channel takes the request while its receiver exists
Dispatch(c) ==
    /\ pc[c] \in {"reading", "healed"} /\ actor[slot[c]].loop # "closed"
    /\ actor' = [actor EXCEPT ![slot[c]].chan = Append(@, c)]
    /\ pc' = [pc EXCEPT ![c] = "awaiting"]
    /\ UNCHANGED <<size, poolUp, turn, writer, slot, answer, delivered, crashes,
                   noise>>

\* dispatch returns None: the reader goes on to heal, the healer gives up
DispatchRefused(c) ==
    /\ actor[slot[c]].loop = "closed"
    /\ \/ /\ pc[c] = "reading"
          /\ pc' = [pc EXCEPT ![c] = "refused"]
          /\ UNCHANGED <<answer, writer>>
       \/ /\ pc[c] = "healed"
          /\ pc' = [pc EXCEPT ![c] = "done"]
          /\ answer' = [answer EXCEPT ![c] = <<"shutdown", None>>]
          /\ writer' = [writer EXCEPT ![slot[c]] = None]
    /\ UNCHANGED <<size, poolUp, turn, actor, slot, delivered, crashes,
                   noise>>

\* mutant: a call that failed with its sidecar is dispatched again
ReturnOrRetry(c) ==
    /\ pc[c] = "awaiting" /\ answer[c] # Unanswered
    /\ pc' = [pc EXCEPT ![c] = IF answer[c][1] = "crashed" THEN "refused" ELSE "done"]
    /\ answer' = [answer EXCEPT ![c] = IF @[1] = "crashed" THEN Unanswered ELSE @]
    /\ writer' = [s \in Slots |-> IF writer[s] = c THEN None ELSE writer[s]]
    /\ UNCHANGED <<size, poolUp, turn, actor, slot, delivered, crashes,
                   noise>>

\* await_response returns; the slot's lock, held until here, is released
Return(c) ==
    /\ pc[c] = "awaiting" /\ answer[c] # Unanswered
    /\ pc' = [pc EXCEPT ![c] = "done"]
    /\ writer' = [s \in Slots |-> IF writer[s] = c THEN None ELSE writer[s]]
    /\ UNCHANGED <<size, poolUp, turn, actor, slot, answer, delivered,
                   crashes, noise>>

Calling(c) ==
    \/ GetSlot(c) \/ SpawnFails(c) \/ ReadLock(c) \/ WriteLock(c)
    \/ Heal(c) \/ Dispatch(c) \/ DispatchRefused(c) \/ Return(c)

-----------------------------------------------------------------------------
(* The actor's task: run_actor.                                             *)

Listening(s) == actor[s].loop = "open"
Request(s)   == Head(actor[s].chan)

\* fail_all_pending, and the break that follows it
Break(s, S, r) ==
    /\ answer' = AnswerAll(S, r)
    /\ actor' = [actor EXCEPT ![s].loop = "breaking", ![s].pending = {}]

\* mutant: the launch files are dropped once a request is sent
SendRequestDroppingFiles(s) ==
    /\ Listening(s) /\ actor[s].chan # <<>>
    /\ actor' = [actor EXCEPT ![s].chan = Tail(@), ![s].files = FALSE,
                              ![s].pending = @ \cup {Request(s)},
                              ![s].stdin = Append(@, Request(s))]
    /\ delivered' = [delivered EXCEPT ![Request(s)] = @ + 1]
    /\ UNCHANGED <<size, poolUp, turn, writer, pc, slot, answer, crashes,
                   noise>>

\* send_request: the request is pending before it is written; the write ends
\* here, or waits for the pipe, which is full or smaller than the request
SendRequest(s) ==
    /\ Listening(s) /\ actor[s].chan # <<>>
    /\ \E l \in {"open", "writing"} :
          actor' = [actor EXCEPT ![s].chan = Tail(@), ![s].loop = l,
                                 ![s].pending = @ \cup {Request(s)},
                                 ![s].stdin = Append(@, Request(s))]
    /\ delivered' = [delivered EXCEPT ![Request(s)] = @ + 1]
    /\ UNCHANGED <<size, poolUp, turn, writer, pc, slot, answer, crashes,
                   noise>>

\* mutant: the request enters the map only once it is written
WriteFailsUnregistered(s) ==
    /\ Listening(s) /\ actor[s].chan # <<>> /\ actor[s].proc = "dead"
    /\ answer' = AnswerAll(actor[s].pending, <<"crashed", None>>)
    /\ actor' = [actor EXCEPT ![s].loop = "breaking", ![s].pending = {},
                              ![s].chan = Tail(@)]
    /\ delivered' = [delivered EXCEPT ![Request(s)] = @ + 1]
    /\ UNCHANGED <<size, poolUp, turn, writer, pc, slot, crashes, noise>>

\* a write that fails, possibly half-way, fails every pending request
WriteFails(s) ==
    /\ Listening(s) /\ actor[s].chan # <<>> /\ actor[s].proc = "dead"
    /\ answer' = AnswerAll(actor[s].pending \cup {Request(s)}, <<"crashed", None>>)
    /\ actor' = [actor EXCEPT ![s].loop = "breaking", ![s].pending = {},
                              ![s].chan = Tail(@)]
    /\ delivered' = [delivered EXCEPT ![Request(s)] = @ + 1]
    /\ UNCHANGED <<size, poolUp, turn, writer, pc, slot, crashes, noise>>

Writing(s) == actor[s].loop = "writing"

\* the sidecar dies while a write waits for its pipe
WriteBreaks(s) ==
    /\ Writing(s) /\ actor[s].proc = "dead"
    /\ Break(s, actor[s].pending, <<"crashed", None>>)
    /\ UNCHANGED <<size, poolUp, turn, writer, pc, slot, delivered,
                   crashes, noise>>

Reading(s) == Listening(s) /\ actor[s].pending # {}

\* mutant: a verdict completes whatever is pending
ReadLineForAll(s) ==
    /\ Reading(s) /\ actor[s].stdout # <<>>
    /\ LET line == Head(actor[s].stdout)
           rest == [actor EXCEPT ![s].stdout = Tail(@), ![s].files = FALSE]
       IN  IF line[1] \notin Verdicts THEN answer' = answer /\ actor' = rest
           ELSE /\ answer' = AnswerAll(actor[s].pending, line)
                /\ actor' = [rest EXCEPT ![s].pending = {}]
    /\ UNCHANGED <<size, poolUp, turn, writer, pc, slot, delivered,
                   crashes, noise>>

\* read_response gets a line: the launch files go first; noise is logged and
\* passed over, text that does not parse breaks the loop, a verdict completes
\* the request it names
ReadLine(s) ==
    /\ Reading(s) /\ actor[s].stdout # <<>>
    /\ LET line == Head(actor[s].stdout)
           c    == line[2]
           rest == [actor EXCEPT ![s].stdout = Tail(@), ![s].files = FALSE]
       IN  IF line[1] = "garbage"
           THEN /\ answer' = AnswerAll(actor[s].pending, <<"crashed", None>>)
                /\ actor' = [rest EXCEPT ![s].loop = "breaking",
                                         ![s].pending = {}]
           ELSE /\ answer' = AnswerAll({c} \cap actor[s].pending, line)
                /\ actor' = [rest EXCEPT ![s].pending = @ \ {c}]
    /\ UNCHANGED <<size, poolUp, turn, writer, pc, slot, delivered,
                   crashes, noise>>

\* read_response finds the reader task gone
ReadEof(s) ==
    /\ Reading(s) /\ actor[s].stdout = <<>> /\ actor[s].proc = "dead"
    /\ Break(s, actor[s].pending, <<"crashed", None>>)
    /\ UNCHANGED <<size, poolUp, turn, writer, pc, slot, delivered,
                   crashes, noise>>

\* mutant: a read that times out is tried again
ReadTimeoutRetries(s) ==
    /\ Reading(s) /\ actor[s].stdout = <<>>
    /\ UNCHANGED vars

\* read_response times out
ReadTimeout(s) ==
    /\ Reading(s) /\ actor[s].stdout = <<>>
    /\ Break(s, actor[s].pending, <<"timeout", None>>)
    /\ UNCHANGED <<size, poolUp, turn, writer, pc, slot, delivered,
                   crashes, noise>>

\* run_actor returns: the state is dropped, which kills the child and deletes
\* the launch files, and so is the channel, with the senders queued in it
DropActor(s) ==
    /\ actor[s].loop = "breaking"
    /\ answer' = AnswerAll(InChan(s), <<"shutdown", None>>)
    /\ actor' = [actor EXCEPT ![s] = Closed]
    /\ UNCHANGED <<size, poolUp, turn, writer, pc, slot, delivered,
                   crashes, noise>>

Acting(s) ==
    \/ SendRequest(s) \/ WriteFails(s) \/ WriteBreaks(s) \/ ReadLine(s)
    \/ ReadEof(s) \/ ReadTimeout(s) \/ DropActor(s)

-----------------------------------------------------------------------------
(* The sidecar: it reads its launch files, then answers its requests one    *)
(* after the other.  It may die or hang, and packages it loads may write to *)
(* its stdout.                                                              *)

Load(s) ==
    /\ actor[s].proc = "starting"
    /\ actor' = [actor EXCEPT ![s].proc = IF actor[s].files THEN "up" ELSE "dead"]
    /\ UNCHANGED <<size, poolUp, turn, writer, pc, slot, answer,
                   delivered, crashes, noise>>

\* the sidecar takes from its stdin what the actor's write still has to give
Drain(s) ==
    /\ Writing(s) /\ actor[s].proc = "up"
    /\ actor' = [actor EXCEPT ![s].loop = "open"]
    /\ UNCHANGED <<size, poolUp, turn, writer, pc, slot, answer,
                   delivered, crashes, noise>>

\* it answers the next request it has whole
Serve(s) ==
    /\ actor[s].proc = "up" /\ actor[s].stdin # <<>>
    /\ Writing(s) => Len(actor[s].stdin) > 1
    /\ \E v \in Verdicts :
          actor' = [actor EXCEPT
              ![s].stdin = Tail(@),
              ![s].stdout = Append(@, <<v, Head(actor[s].stdin)>>)]
    /\ UNCHANGED <<size, poolUp, turn, writer, pc, slot, answer,
                   delivered, crashes, noise>>

WriteNoise(s) ==
    /\ actor[s].proc = "up" /\ noise < Faults[size].noise
    /\ \E n \in {"noise", "garbage"} :
          actor' = [actor EXCEPT ![s].stdout = Append(@, <<n, None>>)]
    /\ noise' = noise + 1
    /\ UNCHANGED <<size, poolUp, turn, writer, pc, slot, answer,
                   delivered, crashes>>

Fail(s) ==
    /\ actor[s].proc \in {"starting", "up"} /\ crashes < Faults[size].crashes
    /\ \E p \in {"dead", "hung"} : actor' = [actor EXCEPT ![s].proc = p]
    /\ crashes' = crashes + 1
    /\ UNCHANGED <<size, poolUp, turn, writer, pc, slot, answer,
                   delivered, noise>>

Sidecar(s) == Load(s) \/ Drain(s) \/ Serve(s) \/ WriteNoise(s) \/ Fail(s)

\* every call has returned, or waits for an actor that a hung sidecar holds
Stuck(s)   == Writing(s) /\ actor[s].proc = "hung"
Terminated == (\A c \in Calls : pc[c] = "done" \/ Stuck(slot[c])) /\ UNCHANGED vars

Next ==
    \/ \E c \in Calls : Calling(c)
    \/ \E s \in Slots : Acting(s) \/ Sidecar(s)
    \/ Terminated

\* The runtime polls every task that is ready and the timer fires; nothing
\* makes a sidecar read its stdin, answer, fail or write noise.
Spec == /\ Init /\ [][Next]_vars
        /\ \A c \in Calls : WF_vars(Calling(c))
        /\ \A s \in Slots : WF_vars(Acting(s))

-----------------------------------------------------------------------------
(* The type invariant.                                                      *)
Actors ==
    [loop : {"open", "writing", "breaking", "closed"}, chan : Seq(Calls),
     pending : SUBSET Calls, files : BOOLEAN,
     proc : {"starting", "up", "hung", "dead"},
     stdin : Seq(Calls), stdout : Seq(Lines)]

TypeOK ==
    /\ size \in 1..NSlots /\ poolUp \in BOOLEAN /\ turn \in 0..size - 1
    /\ actor \in [Slots -> Actors]
    /\ writer \in [Slots -> Calls \cup {None}]
    /\ pc \in [Calls -> {"idle", "arrived", "reading", "refused", "healing",
                         "healed", "awaiting", "done"}]
    /\ slot \in [Calls -> Slots]
    /\ answer \in [Calls -> {Unanswered} \cup Answers]
    /\ delivered \in [Calls -> Nat]

\* No accepted request is lost: until it is answered it is in the channel or
\* in the pending map of its slot's actor, and that actor has not been dropped.
Accounted ==
    \A c \in Calls :
        (pc[c] = "awaiting" /\ answer[c] = Unanswered) =>
            /\ actor[slot[c]].loop # "closed"
            /\ c \in InChan(slot[c]) \cup actor[slot[c]].pending

\* SidecarFiles: nothing reads the launch files after they are deleted, while
\* requests are queued, time out or fail during a sidecar's start.
StartsFromFiles ==
    \A s \in Slots : actor[s].proc = "starting" => actor[s].files

\* Every call returns, whatever dies, hangs or babbles within the bounds, on a
\* slot whose actor is not for ever inside one write: a sidecar that neither
\* reads its stdin nor dies holds send_request, the one wait of an actor that
\* no timeout ends (READ_TIMEOUT, by whose comment "a stuck request still fails
\* fast", is not polled meanwhile).
EveryCallReturns ==
    \A s \in Slots : []<>~Writing(s) =>
        \A c \in Calls : (pc[c] # "idle" /\ slot[c] = s) ~> pc[c] = "done"

\* what a caller could know of its request: how often it was written
Stage == [c \in Calls |-> CASE delivered[c] = 0 -> "new"
                            [] delivered[c] = 1 -> "sent"
                            [] OTHER            -> "twice"]

Promise == INSTANCE OracleCalls WITH stage <- Stage, result <- answer

\* The pool and its actors implement OracleCalls: "a request that WAS
\* delivered and then failed fails hard to its caller, deliberately without
\* retry", so none is written to a sidecar twice however its slot dies and is
\* healed; a verdict is the verdict on this call's own request, whatever was in
\* the pipes when it came; a crash or a timeout is told only to a call whose
\* request may have reached the sidecar, a shutdown or a failed spawn only to
\* one whose request did not.
ImplementsOracleCalls == Promise!Spec
=============================================================================
