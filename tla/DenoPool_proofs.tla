---------------------------- MODULE DenoPool_proofs ----------------------------
(* Proofs about DenoPool for any number of calls and slots, and any bound  *)
(* on the sidecars' faults.                                                 *)
EXTENDS DenoPool, TLAPS

(* The inductive invariant: what an actor holds, and when it may hold it.   *)

\* the caller still waits for its oneshot
Waits(c) == pc[c] = "awaiting" /\ answer[c] = Unanswered

\* a call is answered, or its request sent, only after it was dispatched; it
\* is sent once
CallPhases ==
    \A c \in Calls :
        /\ delivered[c] \in {0, 1}
        /\ pc[c] \notin {"awaiting", "done"} =>
               answer[c] = Unanswered /\ delivered[c] = 0
        /\ ~poolUp => pc[c] \in {"idle", "done"}

\* what is queued is not sent and queued once; what is pending is sent; both
\* belong to callers of this slot that wait.  A loop that is left has failed
\* its pending requests, a dropped one its queue.  Nothing is read from a
\* sidecar that has not started.
SlotPhases(s) ==
    /\ \A c \in InChan(s) : Waits(c) /\ slot[c] = s /\ delivered[c] = 0
    /\ \A i, j \in 1..Len(actor[s].chan) :
           actor[s].chan[i] = actor[s].chan[j] => i = j
    /\ \A c \in actor[s].pending : Waits(c) /\ slot[c] = s /\ delivered[c] = 1
    /\ actor[s].loop \in {"breaking", "closed"} => actor[s].pending = {}
    /\ actor[s].loop = "closed" => actor[s].chan = <<>>
    /\ actor[s].proc = "starting" => actor[s].files /\ actor[s].stdout = <<>>

DenoInv == TypeOK /\ CallPhases /\ (\A s \in Slots : SlotPhases(s)) /\ Accounted

-----------------------------------------------------------------------------
(* Sequences without repetitions, and the two ways a channel changes.       *)

LEMMA TailOf ==
  ASSUME NEW S, NEW q \in Seq(S), q # <<>>,
         \A i, j \in 1..Len(q) : q[i] = q[j] => i = j
  PROVE  LET t == Tail(q) IN
         /\ Head(q) \in S /\ t \in Seq(S)
         /\ Head(q) \in {q[i] : i \in 1..Len(q)}
         /\ {t[i] : i \in 1..Len(t)} = {q[i] : i \in 1..Len(q)} \ {Head(q)}
         /\ \A i, j \in 1..Len(t) : t[i] = t[j] => i = j
<1> DEFINE t == Tail(q)
<1>1. Len(q) \in Nat /\ Len(q) > 0 /\ Head(q) = q[1] /\ Head(q) \in S
  OBVIOUS
<1>2. /\ t \in Seq(S) /\ Len(t) = Len(q) - 1
      /\ \A i \in 1..Len(t) : t[i] = q[i + 1]
  BY <1>1
<1> HIDE DEF t
<1>3. \A i \in 1..Len(t) : i + 1 \in 1..Len(q) /\ i + 1 # 1
  BY <1>1, <1>2
<1>4. \A i, j \in 1..Len(t) : t[i] = t[j] => i = j
  BY <1>2, <1>3
<1>5. {t[i] : i \in 1..Len(t)} \subseteq {q[i] : i \in 1..Len(q)} \ {q[1]}
  BY <1>1, <1>2, <1>3
<1>6. ASSUME NEW i \in 1..Len(q), q[i] # q[1]
      PROVE  q[i] \in {t[k] : k \in 1..Len(t)}
  <2>1. i - 1 \in 1..Len(t) BY <1>1, <1>2, <1>6
  <2>2. t[i - 1] = q[i] BY <1>2, <2>1
  <2> QED BY <2>1, <2>2
<1>7. Head(q) \in {q[i] : i \in 1..Len(q)} BY <1>1
<1> QED BY <1>1, <1>2, <1>4, <1>5, <1>6, <1>7 DEF t

LEMMA AppendOf ==
  ASSUME NEW S, NEW q \in Seq(S), NEW e \in S,
         \A i, j \in 1..Len(q) : q[i] = q[j] => i = j,
         e \notin {q[i] : i \in 1..Len(q)}
  PROVE  LET t == Append(q, e) IN
         /\ t \in Seq(S)
         /\ {t[i] : i \in 1..Len(t)} = {q[i] : i \in 1..Len(q)} \cup {e}
         /\ \A i, j \in 1..Len(t) : t[i] = t[j] => i = j
<1> DEFINE t == Append(q, e)
<1>1. Len(q) \in Nat OBVIOUS
<1>2. /\ t \in Seq(S) /\ Len(t) = Len(q) + 1 /\ t[Len(q) + 1] = e
      /\ \A i \in 1..Len(q) : t[i] = q[i]
  BY <1>1
<1> HIDE DEF t
<1>3. \A i \in 1..Len(t) : i \in 1..Len(q) \/ i = Len(q) + 1
  BY <1>1, <1>2
<1>4. 1..Len(q) \subseteq 1..Len(t) /\ Len(q) + 1 \in 1..Len(t)
  BY <1>1, <1>2
<1>5. \A i, j \in 1..Len(t) : t[i] = t[j] => i = j
  BY <1>2, <1>3
<1>6. {t[i] : i \in 1..Len(t)} = {q[i] : i \in 1..Len(q)} \cup {e}
  BY <1>2, <1>3, <1>4
<1> QED BY <1>2, <1>5, <1>6 DEF t

-----------------------------------------------------------------------------
(* What a step leaves alone.                                                *)

\* the calls that wait are the same, on the same slots
SameWaiting ==
    \A c \in Calls :
        /\ Waits(c)' <=> Waits(c)
        /\ Waits(c) => slot'[c] = slot[c] /\ delivered'[c] = delivered[c]

(* Steps of a caller that touches no actor.                                 *)
LEMMA Bystanders ==
  ASSUME TypeOK, Accounted, \A s \in Slots : SlotPhases(s),
         actor' = actor, SameWaiting
  PROVE  (\A s \in Slots : SlotPhases(s)') /\ Accounted'
<1>1. \A s \in Slots : InChan(s) \subseteq Calls /\ actor[s].pending \subseteq Calls
  BY SMTT(60) DEF TypeOK, Actors, InChan
<1>2. \A s \in Slots : InChan(s)' = InChan(s)
  BY DEF InChan
<1>3. ASSUME NEW s \in Slots PROVE SlotPhases(s)'
  BY <1>1, <1>2 DEF SlotPhases, SameWaiting
<1>4. Accounted'
  BY <1>2 DEF Accounted, SameWaiting, Waits, TypeOK
<1> QED BY <1>3, <1>4

(* Steps of one slot: the others keep their phases, and every call that     *)
(* waits elsewhere is still accounted for.                                  *)
LEMMA OtherSlots ==
  ASSUME TypeOK, Accounted, \A s \in Slots : SlotPhases(s),
         NEW s \in Slots, slot' = slot,
         \A t \in Slots \ {s} : actor'[t] = actor[t],
         \A c \in Calls : slot[c] # s =>
             (Waits(c)' <=> Waits(c)) /\ delivered'[c] = delivered[c],
         SlotPhases(s)',
         \A c \in Calls : slot[c] = s /\ Waits(c)' =>
             actor'[s].loop # "closed" /\ c \in InChan(s)' \cup actor'[s].pending
  PROVE  (\A t \in Slots : SlotPhases(t)') /\ Accounted'
<1>1. \A t \in Slots : InChan(t) \subseteq Calls /\ actor[t].pending \subseteq Calls
  BY SMTT(60) DEF TypeOK, Actors, InChan
<1>2. \A t \in Slots \ {s} : InChan(t)' = InChan(t)
  BY DEF InChan
<1>3. ASSUME NEW t \in Slots \ {s} PROVE SlotPhases(t)'
  BY <1>1, <1>2 DEF SlotPhases
<1>4. ASSUME NEW c \in Calls, Waits(c)'
      PROVE  actor'[slot[c]].loop # "closed"
             /\ c \in InChan(slot[c])' \cup actor'[slot[c]].pending
  <2>1. CASE slot[c] = s BY <1>4, <2>1
  <2>2. CASE slot[c] # s
    BY <1>2, <1>4, <2>2 DEF Accounted, Waits, TypeOK
  <2> QED BY <2>1, <2>2
<1>5. Accounted' BY <1>4 DEF Accounted, Waits, InChan
<1> QED BY <1>3, <1>5

-----------------------------------------------------------------------------
(* Types.                                                                   *)

LEMMA SlotsNotEmpty == 0 \in Slots
  BY SlotsAssumption DEF Slots

\* one field of an actor at a time
LEMMA WithChan ==
  ASSUME NEW a \in Actors, NEW q \in Seq(Calls) PROVE [a EXCEPT !.chan = q] \in Actors
  BY DEF Actors

LEMMA WithStdout ==
  ASSUME NEW a \in Actors, NEW q \in Seq(Lines) PROVE [a EXCEPT !.stdout = q] \in Actors
  BY DEF Actors

LEMMA WithProc ==
  ASSUME NEW a \in Actors, NEW x \in {"starting", "up", "hung", "dead"}
  PROVE  [a EXCEPT !.proc = x] \in Actors
  BY DEF Actors

LEMMA FreshType == Fresh \in Actors /\ Closed \in Actors
  BY DEF Fresh, Closed, Actors

LEMMA InitType == Init => TypeOK
<1> SUFFICES ASSUME Init PROVE TypeOK
  OBVIOUS
<1>1. size \in 1..NSlots /\ poolUp \in BOOLEAN /\ turn \in 0..size - 1
  <2>1. size \in Nat /\ size > 0 BY SlotsAssumption DEF Init
  <2>2. turn \in 0..size - 1 BY <2>1 DEF Init
  <2> QED BY <2>2 DEF Init
<1>2. actor \in [Slots -> Actors] BY FreshType DEF Init
<1>3. slot \in [Calls -> Slots] BY SlotsNotEmpty DEF Init
<1> QED BY <1>1, <1>2, <1>3 DEF Init, TypeOK

\* a slot's queue and its head
LEMMA RequestType ==
  ASSUME TypeOK, NEW s \in Slots, actor[s].chan # <<>>
  PROVE  Request(s) \in Calls /\ Tail(actor[s].chan) \in Seq(Calls)
  BY DEF TypeOK, Actors, Request

\* the failures a task may report, for any set of calls
LEMMA FailureType ==
  ASSUME TypeOK, NEW S, NEW r \in Refusals \cup Losses
  PROVE  AnswerAll(S, <<r, None>>) \in [Calls -> {Unanswered} \cup Answers]
  BY DEF TypeOK, AnswerAll, Answers

LEMMA CallingType ==
  ASSUME TypeOK, NEW c \in Calls, Calling(c) PROVE TypeOK'
<1> USE DEF TypeOK
<1>0. slot[c] \in Slots OBVIOUS
<1>1. CASE GetSlot(c)
  <2>1. size \in Nat /\ size > 0 /\ turn + 1 \in Nat BY SlotsAssumption
  <2>2. (turn + 1) % size \in 0..size - 1 BY <2>1
  <2>3. turn \in Slots BY SlotsAssumption DEF Slots
  <2>4. Spawned \in [Slots -> Actors] BY FreshType DEF Spawned
  <2> QED BY <1>1, <2>2, <2>3, <2>4 DEF GetSlot
<1>2. CASE SpawnFails(c)
  BY <1>2 DEF SpawnFails, Answers, Refusals
<1>3. CASE ReadLock(c) \/ WriteLock(c)
  BY <1>3 DEF ReadLock, WriteLock
<1>4. CASE Heal(c)
  BY <1>0, <1>4, FreshType DEF Heal
<1>5. CASE Dispatch(c)
  <2>1. Append(actor[slot[c]].chan, c) \in Seq(Calls) BY <1>0 DEF Actors
  <2>2. [actor[slot[c]] EXCEPT !.chan = Append(@, c)] \in Actors
    BY <1>0, <2>1, WithChan
  <2> QED BY <1>0, <1>5, <2>2 DEF Dispatch
<1>6. CASE DispatchRefused(c)
  BY <1>6 DEF DispatchRefused, Answers, Refusals
<1>7. CASE Return(c)
  BY <1>7 DEF Return
<1> QED BY <1>1, <1>2, <1>3, <1>4, <1>5, <1>6, <1>7 DEF Calling

LEMMA ActingType ==
  ASSUME TypeOK, NEW s \in Slots, Acting(s) PROVE TypeOK'
<1> USE DEF TypeOK
<1>0. /\ actor[s] \in Actors
      /\ actor[s].chan \in Seq(Calls) /\ actor[s].stdin \in Seq(Calls)
      /\ actor[s].stdout \in Seq(Lines) /\ actor[s].pending \in SUBSET Calls
  BY DEF Actors
<1>1. CASE SendRequest(s)
  <2>1. Request(s) \in Calls /\ Tail(actor[s].chan) \in Seq(Calls)
    BY <1>1, RequestType DEF SendRequest
  <2>2. Append(actor[s].stdin, Request(s)) \in Seq(Calls) BY <1>0, <2>1
  <2>3. PICK l \in {"open", "writing"} :
            actor' = [actor EXCEPT ![s].chan = Tail(@), ![s].loop = l,
                                   ![s].pending = @ \cup {Request(s)},
                                   ![s].stdin = Append(@, Request(s))]
    BY <1>1 DEF SendRequest
  <2>4. [actor[s] EXCEPT !.chan = Tail(@), !.loop = l,
                         !.pending = @ \cup {Request(s)},
                         !.stdin = Append(@, Request(s))] \in Actors
    BY <1>0, <2>1, <2>2 DEF Actors
  <2>5. actor' \in [Slots -> Actors] BY <2>3, <2>4
  <2>6. delivered' \in [Calls -> Nat] BY SMTT(60), <1>1, <2>1 DEF SendRequest
  <2> QED BY <1>1, <2>5, <2>6 DEF SendRequest
<1>2. CASE WriteFails(s)
  <2>1. Request(s) \in Calls /\ Tail(actor[s].chan) \in Seq(Calls)
    BY <1>2, RequestType DEF WriteFails
  <2>2. [actor[s] EXCEPT !.loop = "breaking", !.pending = {},
                         !.chan = Tail(@)] \in Actors
    BY <1>0, <2>1 DEF Actors
  <2>3. answer' \in [Calls -> {Unanswered} \cup Answers]
    BY <1>2, FailureType DEF WriteFails, Losses
  <2>4. actor' \in [Slots -> Actors] BY <1>2, <2>2 DEF WriteFails
  <2>5. delivered' \in [Calls -> Nat] BY SMTT(60), <1>2, <2>1 DEF WriteFails
  <2> QED BY <1>2, <2>3, <2>4, <2>5 DEF WriteFails
<1>3. CASE ReadLine(s)
  <2> DEFINE line == Head(actor[s].stdout)
             c    == line[2]
             S    == {c} \cap actor[s].pending
  <2>1. line \in Lines /\ Tail(actor[s].stdout) \in Seq(Lines)
    BY <1>0, <1>3 DEF ReadLine
  <2>2. [actor[s] EXCEPT !.stdout = Tail(@), !.files = FALSE,
                         !.loop = "breaking", !.pending = {}] \in Actors
    BY <1>0, <2>1 DEF Actors
  <2>4. CASE line[1] = "garbage"
    <3>1. actor' \in [Slots -> Actors] BY <1>3, <2>2, <2>4 DEF ReadLine
    <3>2. answer' \in [Calls -> {Unanswered} \cup Answers]
      BY <1>3, <2>4, FailureType DEF ReadLine, Losses
    <3> QED BY <1>3, <3>1, <3>2 DEF ReadLine
  <2>5. CASE line[1] # "garbage"
    <3> DEFINE rest == [actor EXCEPT ![s].stdout = Tail(@), ![s].files = FALSE]
    <3>4. rest \in [Slots -> Actors] BY <1>0, <2>1 DEF Actors
    <3>5. actor' = [rest EXCEPT ![s].pending = @ \ {c}]
      BY <1>3, <2>5 DEF ReadLine
    <3>6. [rest[s] EXCEPT !.pending = @ \ {c}] \in Actors
      <4> HIDE DEF rest
      <4> QED BY ZenonT(60), <3>4 DEF Actors
    <3>1. actor' \in [Slots -> Actors]
      <4> HIDE DEF rest
      <4> QED BY <3>4, <3>5, <3>6
    <3>2. \A d \in S : line \in Answers
      BY <1>0, <2>1, NoneAssumption DEF Lines, Answers
    <3>3. AnswerAll(S, line) \in [Calls -> {Unanswered} \cup Answers]
      BY <3>2 DEF AnswerAll
    <3> QED BY <1>3, <2>5, <3>1, <3>3 DEF ReadLine
  <2> QED BY <2>4, <2>5
<1>4. CASE WriteBreaks(s) \/ ReadEof(s) \/ ReadTimeout(s)
  <2>1. [actor[s] EXCEPT !.loop = "breaking", !.pending = {}] \in Actors
    BY <1>0 DEF Actors
  <2>2. answer' \in [Calls -> {Unanswered} \cup Answers]
    BY <1>4, FailureType DEF WriteBreaks, ReadEof, ReadTimeout, Break, Losses
  <2>3. actor' = [actor EXCEPT ![s] = [@ EXCEPT !.loop = "breaking", !.pending = {}]]
    BY <1>4 DEF WriteBreaks, ReadEof, ReadTimeout, Break
  <2>4. actor' \in [Slots -> Actors] BY <2>1, <2>3
  <2> QED BY <1>4, <2>2, <2>4 DEF WriteBreaks, ReadEof, ReadTimeout
<1>5. CASE DropActor(s)
  <2>1. answer' \in [Calls -> {Unanswered} \cup Answers]
    BY <1>5, FailureType DEF DropActor, Refusals
  <2> QED BY <1>5, <2>1, FreshType DEF DropActor
<1> QED BY <1>1, <1>2, <1>3, <1>4, <1>5 DEF Acting

LEMMA SidecarType ==
  ASSUME TypeOK, NEW s \in Slots, Sidecar(s) PROVE TypeOK'
<1> USE DEF TypeOK
<1>0. /\ actor[s] \in Actors
      /\ actor[s].stdin \in Seq(Calls) /\ actor[s].stdout \in Seq(Lines)
  BY DEF Actors
<1>1. CASE Load(s) \/ Fail(s)
  <2>1. PICK x \in {"up", "dead", "hung"} : actor' = [actor EXCEPT ![s].proc = x]
    BY <1>1 DEF Load, Fail
  <2>2. [actor[s] EXCEPT !.proc = x] \in Actors BY <1>0, <2>1, WithProc
  <2> QED BY <1>1, <2>1, <2>2 DEF Load, Fail
<1>4. CASE Drain(s)
  <2>1. [actor[s] EXCEPT !.loop = "open"] \in Actors BY <1>0 DEF Actors
  <2> QED BY <1>4, <2>1 DEF Drain
<1>2. CASE Serve(s)
  <2>1. Head(actor[s].stdin) \in Calls /\ Tail(actor[s].stdin) \in Seq(Calls)
    BY <1>0, <1>2 DEF Serve
  <2>2. PICK v \in Verdicts :
          actor' = [actor EXCEPT
              ![s].stdin = Tail(@),
              ![s].stdout = Append(@, <<v, Head(actor[s].stdin)>>)]
    BY <1>2 DEF Serve
  <2>3. <<v, Head(actor[s].stdin)>> \in Lines BY <2>1, <2>2 DEF Lines
  <2>4. Append(actor[s].stdout, <<v, Head(actor[s].stdin)>>) \in Seq(Lines)
    BY <1>0, <2>3
  <2>5. [actor[s] EXCEPT !.stdin = Tail(@)] \in Actors BY <1>0, <2>1 DEF Actors
  <2>6. [actor[s] EXCEPT !.stdin = Tail(@),
           !.stdout = Append(@, <<v, Head(actor[s].stdin)>>)] \in Actors
    BY <2>4, <2>5, WithStdout
  <2> QED BY ZenonT(60), <1>2, <2>2, <2>6 DEF Serve
<1>3. CASE WriteNoise(s)
  <2>1. PICK n \in {"noise", "garbage"} :
          actor' = [actor EXCEPT ![s].stdout = Append(@, <<n, None>>)]
    BY <1>3 DEF WriteNoise
  <2>2. Append(actor[s].stdout, <<n, None>>) \in Seq(Lines)
    BY <1>0, <2>1 DEF Lines
  <2>3. [actor[s] EXCEPT !.stdout = Append(@, <<n, None>>)] \in Actors
    BY <1>0, <2>2, WithStdout
  <2> QED BY <1>3, <2>1, <2>3 DEF WriteNoise
<1> QED BY <1>1, <1>2, <1>3, <1>4 DEF Sidecar

LEMMA NextType == TypeOK /\ Next => TypeOK'
<1> SUFFICES ASSUME TypeOK, Next PROVE TypeOK'
  OBVIOUS
<1>1. CASE Terminated BY <1>1 DEF Terminated, vars, TypeOK
<1> QED BY <1>1, CallingType, ActingType, SidecarType DEF Next

(* For any number of calls and slots, the state keeps its types; the turn   *)
(* stays below the pool's size.                                             *)
THEOREM TypeCorrect == Spec => []TypeOK
<1>1. TypeOK /\ UNCHANGED vars => TypeOK' BY DEF TypeOK, vars
<1> QED BY InitType, NextType, <1>1, PTL DEF Spec

-----------------------------------------------------------------------------
(* The steps of a caller.                                                   *)

LEMMA InitInv == Init => DenoInv
<1> SUFFICES ASSUME Init PROVE DenoInv
  OBVIOUS
<1>1. CallPhases BY DEF Init, CallPhases
<1>2. ASSUME NEW s \in Slots PROVE SlotPhases(s)
  <2>1. actor[s] = Closed BY DEF Init
  <2>2. InChan(s) = {} BY <2>1 DEF InChan, Closed
  <2> QED BY <2>1, <2>2 DEF SlotPhases, Closed
<1>3. Accounted BY DEF Init, Accounted
<1> QED BY <1>1, <1>2, <1>3, InitType DEF DenoInv

\* a pool that is not up has no caller that waits
LEMMA NoneWaits ==
  ASSUME CallPhases, ~poolUp PROVE \A c \in Calls : ~Waits(c)
  BY DEF CallPhases, Waits

LEMMA FreshSlot ==
  ASSUME NEW s \in Slots, actor'[s] \in {Fresh, Closed} PROVE SlotPhases(s)'
<1>1. InChan(s)' = {} BY DEF InChan, Fresh, Closed
<1> QED BY <1>1 DEF SlotPhases, Fresh, Closed

LEMMA GetSlotInv ==
  ASSUME DenoInv, NEW c \in Calls, GetSlot(c) PROVE DenoInv'
<1> USE DEF DenoInv
<1>1. TypeOK' BY CallingType DEF Calling
<1>2. CallPhases'
  BY DEF GetSlot, CallPhases, TypeOK
<1>3. CASE poolUp
  <2>1. SameWaiting
    BY DEF GetSlot, SameWaiting, Waits, TypeOK
  <2>2. actor' = actor BY <1>3 DEF GetSlot
  <2> QED BY <1>1, <1>2, <2>1, <2>2, Bystanders
<1>4. CASE ~poolUp
  <2>1. \A d \in Calls : ~Waits(d)' BY <1>4, NoneWaits DEF GetSlot, Waits, TypeOK
  <2>2. ASSUME NEW s \in Slots PROVE SlotPhases(s)'
    BY <1>4, FreshSlot DEF GetSlot, Spawned
  <2>3. Accounted' BY <2>1 DEF Accounted, Waits
  <2> QED BY <1>1, <1>2, <2>2, <2>3
<1> QED BY <1>3, <1>4

LEMMA BystanderInv ==
  ASSUME DenoInv, NEW c \in Calls,
         SpawnFails(c) \/ ReadLock(c) \/ WriteLock(c) \/ DispatchRefused(c)
             \/ Return(c)
  PROVE  DenoInv'
<1> USE DEF DenoInv
<1>1. TypeOK' BY CallingType DEF Calling
<1>2. CallPhases'
  <2>1. CASE SpawnFails(c) BY <2>1 DEF SpawnFails, CallPhases, TypeOK
  <2>2. CASE ReadLock(c) \/ WriteLock(c)
    BY <2>2 DEF ReadLock, WriteLock, CallPhases, TypeOK
  <2>3. CASE DispatchRefused(c) BY <2>3 DEF DispatchRefused, CallPhases, TypeOK
  <2>4. CASE Return(c) BY <2>4 DEF Return, CallPhases, TypeOK
  <2> QED BY <2>1, <2>2, <2>3, <2>4
<1>3. actor' = actor /\ slot' = slot /\ delivered' = delivered
  BY DEF SpawnFails, ReadLock, WriteLock, DispatchRefused, Return
<1>4. ~Waits(c) /\ ~Waits(c)'
  BY DEF SpawnFails, ReadLock, WriteLock, DispatchRefused, Return, Waits, TypeOK
<1>5. \A d \in Calls \ {c} : pc'[d] = pc[d] /\ answer'[d] = answer[d]
  BY DEF SpawnFails, ReadLock, WriteLock, DispatchRefused, Return, TypeOK
<1>6. SameWaiting BY <1>3, <1>4, <1>5 DEF SameWaiting, Waits
<1> QED BY <1>1, <1>2, <1>3, <1>6, Bystanders

LEMMA HealInv ==
  ASSUME DenoInv, NEW c \in Calls, Heal(c) PROVE DenoInv'
<1> USE DEF DenoInv
<1>0. PICK s \in Slots : s = slot[c] BY DEF TypeOK
<1>1. TypeOK' BY CallingType DEF Calling
<1>2. CallPhases' BY DEF Heal, CallPhases, TypeOK
<1>3. SameWaiting BY DEF Heal, SameWaiting, Waits, TypeOK
<1>4. CASE actor[s].loop # "closed"
  <2>1. actor' = actor BY <1>0, <1>4 DEF Heal
  <2> QED BY <1>1, <1>2, <1>3, <2>1, Bystanders
<1>5. CASE actor[s].loop = "closed"
  <2>1. actor' = [actor EXCEPT ![s] = Fresh] BY <1>0, <1>5 DEF Heal
  <2>2. SlotPhases(s)' BY <1>0, <2>1, FreshSlot DEF TypeOK
  <2>3. \A d \in Calls : slot[d] = s => ~Waits(d)
    BY <1>0, <1>5 DEF Accounted, Waits
  <2>4. \A d \in Calls : slot[d] = s => ~Waits(d)' BY <1>3, <2>3 DEF SameWaiting
  <2>5. slot' = slot BY DEF Heal
  <2>6. \A t \in Slots \ {s} : actor'[t] = actor[t] BY <2>1 DEF TypeOK
  <2>7. \A d \in Calls : (Waits(d)' <=> Waits(d)) /\ delivered'[d] = delivered[d]
    BY <1>3 DEF Heal, SameWaiting
  <2>8. (\A t \in Slots : SlotPhases(t)') /\ Accounted'
    BY <1>0, <2>2, <2>4, <2>5, <2>6, <2>7, OtherSlots
  <2> QED BY <1>1, <1>2, <2>8
<1> QED BY <1>4, <1>5

LEMMA DispatchInv ==
  ASSUME DenoInv, NEW c \in Calls, Dispatch(c) PROVE DenoInv'
<1> USE DEF DenoInv
<1>a. PICK s \in Slots : s = slot[c] BY DEF TypeOK
<1>0. s = slot[c] /\ actor[s].chan \in Seq(Calls) BY <1>a DEF TypeOK, Actors
<1>1. TypeOK' BY CallingType DEF Calling
<1>2. CallPhases' BY DEF Dispatch, CallPhases, TypeOK
<1>3. ~Waits(c) /\ Waits(c)' /\ delivered[c] = 0
  BY DEF Dispatch, Waits, CallPhases, TypeOK
<1>4. \A d \in Calls \ {c} : Waits(d)' <=> Waits(d)
  BY DEF Dispatch, Waits, TypeOK
<1>5. /\ slot' = slot /\ delivered' = delivered
      /\ \A t \in Slots \ {s} : actor'[t] = actor[t]
  BY <1>0 DEF Dispatch, TypeOK
<1>6. /\ actor'[s].chan = Append(actor[s].chan, c)
      /\ actor'[s].loop = actor[s].loop /\ actor'[s].pending = actor[s].pending
      /\ actor'[s].proc = actor[s].proc /\ actor'[s].files = actor[s].files
      /\ actor'[s].stdout = actor[s].stdout /\ actor[s].loop # "closed"
  BY <1>0 DEF Dispatch, TypeOK, Actors
<1>7. SlotPhases(s) BY <1>0
<1>8. c \notin InChan(s) /\ c \notin actor[s].pending /\ slot[c] = s
  BY <1>0, <1>3, <1>7 DEF SlotPhases
<1>9. /\ InChan(s)' = InChan(s) \cup {c}
      /\ \A i, j \in 1..Len(actor'[s].chan) :
             actor'[s].chan[i] = actor'[s].chan[j] => i = j
  <2> DEFINE q == actor[s].chan
             t == Append(q, c)
  <2>1. q \in Seq(Calls) /\ \A i, j \in 1..Len(q) : q[i] = q[j] => i = j
    BY <1>0, <1>7 DEF SlotPhases
  <2>2. c \notin {q[i] : i \in 1..Len(q)} BY <1>8 DEF InChan
  <2>3. /\ {t[i] : i \in 1..Len(t)} = {q[i] : i \in 1..Len(q)} \cup {c}
        /\ \A i, j \in 1..Len(t) : t[i] = t[j] => i = j
    <3> HIDE DEF q
    <3> QED BY <2>1, <2>2, AppendOf
  <2>4. actor'[s].chan = t BY <1>6
  <2> QED BY <2>3, <2>4 DEF InChan
<1>10. InChan(s) \subseteq Calls /\ actor[s].pending \subseteq Calls
  BY SMTT(60), <1>0 DEF TypeOK, Actors, InChan
<1>11. SlotPhases(s)'
  <2>1. \A d \in InChan(s)' : Waits(d)' /\ slot'[d] = s /\ delivered'[d] = 0
    BY <1>3, <1>4, <1>5, <1>7, <1>8, <1>9, <1>10 DEF SlotPhases
  <2>2. \A d \in actor'[s].pending : Waits(d)' /\ slot'[d] = s /\ delivered'[d] = 1
    BY <1>4, <1>5, <1>6, <1>7, <1>8, <1>10 DEF SlotPhases
  <2> QED BY <1>6, <1>7, <1>9, <2>1, <2>2 DEF SlotPhases
<1>12. ASSUME NEW d \in Calls, slot[d] = s, Waits(d)'
       PROVE  actor'[s].loop # "closed" /\ d \in InChan(s)' \cup actor'[s].pending
  BY <1>4, <1>6, <1>9, <1>12 DEF Accounted, Waits
<1>13. \A d \in Calls : slot[d] # s =>
           (Waits(d)' <=> Waits(d)) /\ delivered'[d] = delivered[d]
  BY <1>4, <1>5, <1>8
<1>14. (\A t \in Slots : SlotPhases(t)') /\ Accounted'
  BY <1>0, <1>5, <1>11, <1>12, <1>13, OtherSlots
<1> QED BY <1>1, <1>2, <1>14

LEMMA CallingInv ==
  ASSUME DenoInv, NEW c \in Calls, Calling(c) PROVE DenoInv'
  BY GetSlotInv, BystanderInv, HealInv, DispatchInv DEF Calling

-----------------------------------------------------------------------------
(* The steps of an actor's task.                                            *)

\* what an actor holds
LEMMA Held ==
  ASSUME DenoInv, NEW s \in Slots
  PROVE  /\ InChan(s) \subseteq Calls /\ actor[s].pending \subseteq Calls
         /\ InChan(s) \cap actor[s].pending = {}
         /\ \A c \in InChan(s) : Waits(c) /\ delivered[c] = 0 /\ c \in Calls
         /\ \A c \in actor[s].pending : Waits(c) /\ delivered[c] = 1 /\ c \in Calls
<1>1. InChan(s) \subseteq Calls /\ actor[s].pending \subseteq Calls
  BY SMTT(60) DEF DenoInv, TypeOK, Actors, InChan
<1> QED BY <1>1 DEF DenoInv, SlotPhases

(* A task's step touches its own slot, and of the calls only those the      *)
(* actor holds; of these it keeps the ones in K, queued or pending as they  *)
(* are after the step.                                                      *)
LEMMA TaskStep ==
  ASSUME DenoInv, NEW s \in Slots, TypeOK', CallPhases',
         pc' = pc, slot' = slot,
         \A t \in Slots \ {s} : actor'[t] = actor[t],
         \A c \in Calls : c \notin InChan(s) \cup actor[s].pending =>
             answer'[c] = answer[c] /\ delivered'[c] = delivered[c],
         \A c \in InChan(s) \cup actor[s].pending :
             Waits(c)' <=> c \in InChan(s)' \cup actor'[s].pending,
         InChan(s)' \subseteq InChan(s),
         \A c \in InChan(s)' : delivered'[c] = 0,
         \A i, j \in 1..Len(actor'[s].chan) :
             actor'[s].chan[i] = actor'[s].chan[j] => i = j,
         actor'[s].pending \subseteq InChan(s) \cup actor[s].pending,
         \A c \in actor'[s].pending : delivered'[c] = 1,
         actor'[s].loop \in {"breaking", "closed"} => actor'[s].pending = {},
         actor'[s].loop = "closed" => actor'[s].chan = <<>>,
         actor'[s].proc = "starting" => actor'[s].files /\ actor'[s].stdout = <<>>
  PROVE  DenoInv'
<1> USE DEF DenoInv
<1>1. InChan(s) \subseteq Calls /\ actor[s].pending \subseteq Calls
  BY Held
<1>2. \A c \in InChan(s) \cup actor[s].pending : Waits(c) /\ slot[c] = s
  BY DEF SlotPhases
<1>3. SlotPhases(s)' BY <1>2 DEF SlotPhases
<1>4. ASSUME NEW c \in Calls, slot[c] = s, Waits(c)'
      PROVE  actor'[s].loop # "closed" /\ c \in InChan(s)' \cup actor'[s].pending
  <2>1. CASE c \in InChan(s) \cup actor[s].pending
    <3>1. c \in InChan(s)' \cup actor'[s].pending BY <1>4, <2>1
    <3>2. actor'[s].chan = <<>> => InChan(s)' = {} BY DEF InChan
    <3> QED BY <3>1, <3>2
  <2>2. CASE c \notin InChan(s) \cup actor[s].pending
    <3>1. Waits(c) BY <1>4, <2>2 DEF Waits
    <3> QED BY <1>4, <2>2, <3>1 DEF Accounted, Waits
  <2> QED BY <2>1, <2>2
<1>5. \A c \in Calls : slot[c] # s =>
          (Waits(c)' <=> Waits(c)) /\ delivered'[c] = delivered[c]
  BY <1>2 DEF Waits
<1>6. (\A t \in Slots : SlotPhases(t)') /\ Accounted'
  BY <1>3, <1>4, <1>5, OtherSlots
<1> QED BY <1>6

\* what is left when it takes a request
LEMMA Taken ==
  ASSUME DenoInv, NEW s \in Slots, actor[s].chan # <<>>,
         actor'[s].chan = Tail(actor[s].chan)
  PROVE  /\ Request(s) \in InChan(s)
         /\ InChan(s)' = InChan(s) \ {Request(s)}
         /\ \A i, j \in 1..Len(actor'[s].chan) :
                actor'[s].chan[i] = actor'[s].chan[j] => i = j
<1> DEFINE q == actor[s].chan
           t == Tail(q)
<1>1. q \in Seq(Calls) /\ \A i, j \in 1..Len(q) : q[i] = q[j] => i = j
  BY DEF DenoInv, TypeOK, Actors, SlotPhases
<1>2. /\ Head(q) \in {q[i] : i \in 1..Len(q)}
      /\ {t[i] : i \in 1..Len(t)} = {q[i] : i \in 1..Len(q)} \ {Head(q)}
      /\ \A i, j \in 1..Len(t) : t[i] = t[j] => i = j
  <2>1. q # <<>> OBVIOUS
  <2> HIDE DEF q
  <2> QED BY SMTT(60), <1>1, <2>1, TailOf
<1> QED BY <1>2 DEF InChan, Request

\* who is answered by a step
LEMMA Answered ==
  ASSUME TypeOK, NEW S \in SUBSET Calls, NEW r, r[1] # "none",
         answer' = AnswerAll(S, r), pc' = pc
  PROVE  /\ \A c \in Calls \ S : answer'[c] = answer[c] /\ (Waits(c)' <=> Waits(c))
         /\ \A c \in S : answer'[c] = r /\ ~Waits(c)'
<1>1. r # Unanswered BY DEF Unanswered
<1> QED BY <1>1 DEF AnswerAll, Waits, TypeOK

\* answers to calls the actor holds keep the phases of the calls
LEMMA AnsweredPhases ==
  ASSUME DenoInv, NEW s \in Slots, pc' = pc, poolUp' = poolUp,
         \A c \in Calls : c \notin InChan(s) \cup actor[s].pending =>
             answer'[c] = answer[c] /\ delivered'[c] = delivered[c],
         \A c \in InChan(s) \cup actor[s].pending : delivered'[c] \in {0, 1}
  PROVE  CallPhases'
<1>1. \A c \in InChan(s) \cup actor[s].pending : pc[c] = "awaiting" /\ c \in Calls
  BY Held DEF Waits
<1>2. CallPhases BY DEF DenoInv
<1> QED BY <1>1, <1>2 DEF CallPhases

LEMMA SendRequestInv ==
  ASSUME DenoInv, NEW s \in Slots, SendRequest(s) PROVE DenoInv'
<1> DEFINE r == Request(s)
           a == actor[s]
           b == actor'[s]
<1>1. /\ TypeOK /\ TypeOK' /\ actor[s].chan # <<>>
      /\ pc' = pc /\ slot' = slot /\ answer' = answer /\ poolUp' = poolUp
      /\ delivered' = [delivered EXCEPT ![r] = @ + 1]
      /\ a.loop = "open"
  BY ActingType DEF DenoInv, Acting, SendRequest, Listening
<1>2. /\ b.chan = Tail(a.chan) /\ b.pending = a.pending \cup {r}
      /\ b.loop \in {"open", "writing"} /\ b.proc = a.proc /\ b.files = a.files
      /\ b.stdout = a.stdout
      /\ \A t \in Slots \ {s} : actor'[t] = actor[t]
  <2>1. PICK l \in {"open", "writing"} :
            actor' = [actor EXCEPT ![s].chan = Tail(@), ![s].loop = l,
                                   ![s].pending = @ \cup {r},
                                   ![s].stdin = Append(@, r)]
    BY DEF SendRequest
  <2> HIDE DEF r
  <2> QED BY <1>1, <2>1 DEF TypeOK, Actors
<1>3. /\ r \in InChan(s) /\ InChan(s)' = InChan(s) \ {r}
      /\ \A i, j \in 1..Len(b.chan) : b.chan[i] = b.chan[j] => i = j
  BY <1>1, <1>2, Taken
<1>4. r \in Calls /\ r \notin a.pending /\ delivered[r] = 0 BY <1>3, Held
<1>5. delivered'[r] = 1 /\ \A c \in Calls \ {r} : delivered'[c] = delivered[c]
  BY <1>1, <1>4 DEF TypeOK
<1>6. \A c \in Calls : Waits(c)' <=> Waits(c) BY <1>1 DEF Waits
<1>7. SlotPhases(s) BY DEF DenoInv
<1> HIDE DEF r, a, b
<1>8. /\ InChan(s) \subseteq Calls /\ a.pending \subseteq Calls
      /\ InChan(s) \cap a.pending = {}
      /\ \A c \in InChan(s) : Waits(c) /\ delivered[c] = 0
      /\ \A c \in a.pending : Waits(c) /\ delivered[c] = 1
  BY Held DEF a
<1>9. /\ \A c \in Calls : c \notin InChan(s) \cup a.pending =>
             answer'[c] = answer[c] /\ delivered'[c] = delivered[c]
      /\ \A c \in InChan(s) \cup a.pending :
             /\ Waits(c)' <=> c \in InChan(s)' \cup b.pending
             /\ delivered'[c] \in {0, 1}
      /\ InChan(s)' \subseteq InChan(s)
      /\ \A c \in InChan(s)' : delivered'[c] = 0
      /\ b.pending \subseteq InChan(s) \cup a.pending
      /\ \A c \in b.pending : delivered'[c] = 1
  BY <1>1, <1>2, <1>3, <1>4, <1>5, <1>6, <1>8
<1>10. /\ b.loop \notin {"breaking", "closed"}
       /\ b.proc = "starting" => b.files /\ b.stdout = <<>>
  BY <1>1, <1>2, <1>7 DEF SlotPhases, a
<1>11. CallPhases' BY <1>1, <1>9, AnsweredPhases DEF a
<1> QED BY <1>1, <1>2, <1>3, <1>9, <1>10, <1>11, TaskStep DEF a, b

(* A step that only answers pending calls, and answers all when it leaves   *)
(* the loop.                                                                *)
LEMMA AnsweringStep ==
  ASSUME DenoInv, TypeOK', NEW s \in Slots,
         pc' = pc, slot' = slot, poolUp' = poolUp, delivered' = delivered,
         \A t \in Slots \ {s} : actor'[t] = actor[t],
         actor'[s].chan = actor[s].chan,
         actor'[s].pending \subseteq actor[s].pending,
         \A c \in Calls : c \notin actor[s].pending \ actor'[s].pending =>
             answer'[c] = answer[c],
         \A c \in actor[s].pending \ actor'[s].pending : ~Waits(c)',
         actor'[s].loop # "closed",
         actor'[s].loop \in {"breaking", "closed"} => actor'[s].pending = {},
         actor'[s].proc = "starting" => actor'[s].files /\ actor'[s].stdout = <<>>
  PROVE  DenoInv'
<1> DEFINE a == actor[s]
           b == actor'[s]
<1>1. /\ InChan(s) \subseteq Calls /\ a.pending \subseteq Calls
      /\ InChan(s) \cap a.pending = {}
      /\ \A c \in InChan(s) : Waits(c) /\ delivered[c] = 0
      /\ \A c \in a.pending : Waits(c) /\ delivered[c] = 1
  BY Held
<1>2. InChan(s)' = InChan(s) BY DEF InChan
<1>3. \A c \in Calls : answer'[c] = answer[c] => (Waits(c)' <=> Waits(c))
  BY DEF Waits
<1>4. \A i, j \in 1..Len(b.chan) : b.chan[i] = b.chan[j] => i = j
  BY DEF DenoInv, SlotPhases
<1>5. /\ \A c \in Calls : c \notin InChan(s) \cup a.pending => answer'[c] = answer[c]
      /\ \A c \in InChan(s) \cup a.pending :
             /\ Waits(c)' <=> c \in InChan(s)' \cup b.pending
             /\ delivered'[c] \in {0, 1}
      /\ \A c \in b.pending : delivered'[c] = 1
  BY <1>1, <1>2, <1>3
<1>6. CallPhases' BY <1>5, AnsweredPhases
<1> QED BY <1>1, <1>2, <1>4, <1>5, <1>6, TaskStep

LEMMA WriteFailsInv ==
  ASSUME DenoInv, NEW s \in Slots, WriteFails(s) PROVE DenoInv'
<1> DEFINE r == Request(s)
           a == actor[s]
           b == actor'[s]
           S == a.pending \cup {r}
<1>1. /\ TypeOK /\ TypeOK' /\ actor[s].chan # <<>>
      /\ pc' = pc /\ slot' = slot /\ poolUp' = poolUp
      /\ answer' = AnswerAll(S, <<"crashed", None>>)
      /\ delivered' = [delivered EXCEPT ![r] = @ + 1]
      /\ a.proc = "dead"
  BY ActingType DEF DenoInv, Acting, WriteFails
<1>2. /\ b.chan = Tail(a.chan) /\ b.pending = {}
      /\ b.loop = "breaking" /\ b.proc = a.proc
      /\ \A t \in Slots \ {s} : actor'[t] = actor[t]
  BY <1>1 DEF WriteFails, TypeOK, Actors
<1>3. /\ r \in InChan(s) /\ InChan(s)' = InChan(s) \ {r}
      /\ \A i, j \in 1..Len(b.chan) : b.chan[i] = b.chan[j] => i = j
  BY <1>1, <1>2, Taken
<1>4. r \in Calls /\ delivered[r] = 0 BY <1>3, Held
<1>5. delivered'[r] = 1 /\ \A c \in Calls \ {r} : delivered'[c] = delivered[c]
  BY <1>1, <1>4 DEF TypeOK
<1> HIDE DEF r, a, b
<1>6. /\ InChan(s) \subseteq Calls /\ a.pending \subseteq Calls
      /\ InChan(s) \cap a.pending = {}
      /\ \A c \in InChan(s) : Waits(c) /\ delivered[c] = 0
      /\ \A c \in a.pending : Waits(c) /\ delivered[c] = 1
  BY Held DEF a
<1>7. /\ \A c \in Calls \ S : answer'[c] = answer[c] /\ (Waits(c)' <=> Waits(c))
      /\ \A c \in S : ~Waits(c)'
  <2>1. S \in SUBSET Calls /\ <<"crashed", None>>[1] # "none" BY <1>4, <1>6
  <2> HIDE DEF S
  <2> QED BY <1>1, <2>1, Answered
<1>8. /\ \A c \in Calls : c \notin InChan(s) \cup a.pending =>
             answer'[c] = answer[c] /\ delivered'[c] = delivered[c]
      /\ \A c \in InChan(s) \cup a.pending :
             /\ Waits(c)' <=> c \in InChan(s)' \cup b.pending
             /\ delivered'[c] \in {0, 1}
      /\ InChan(s)' \subseteq InChan(s)
      /\ \A c \in InChan(s)' : delivered'[c] = 0
  BY <1>2, <1>3, <1>4, <1>5, <1>6, <1>7
<1>9. CallPhases' BY <1>1, <1>8, AnsweredPhases DEF a
<1> QED BY <1>1, <1>2, <1>3, <1>8, <1>9, TaskStep DEF a, b

LEMMA ReadLineInv ==
  ASSUME DenoInv, NEW s \in Slots, ReadLine(s) PROVE DenoInv'
<1> DEFINE line == Head(actor[s].stdout)
           c    == line[2]
           a == actor[s]
           b == actor'[s]
<1>1. /\ TypeOK /\ TypeOK' /\ pc' = pc /\ slot' = slot /\ poolUp' = poolUp
      /\ delivered' = delivered /\ a.loop = "open" /\ a.stdout # <<>>
  BY ActingType DEF DenoInv, Acting, ReadLine, Reading, Listening
<1>2. a \in Actors /\ line \in Lines BY SMTT(60), <1>1 DEF TypeOK, Actors
<1>3. line[1] # "none" BY <1>2 DEF Lines, Verdicts
<1>4. a.proc # "starting" BY <1>1 DEF DenoInv, SlotPhases
<1>5. /\ b.chan = a.chan /\ b.proc = a.proc
      /\ \A t \in Slots \ {s} : actor'[t] = actor[t]
      /\ IF line[1] = "garbage" THEN b.loop = "breaking" /\ b.pending = {}
         ELSE b.loop = "open" /\ b.pending = a.pending \ {c}
  BY SMTT(60), <1>1 DEF ReadLine, TypeOK, Actors
<1>6. PICK r : /\ answer' = AnswerAll(a.pending \ b.pending, r)
               /\ r[1] # "none"
  <2>1. CASE line[1] = "garbage"
    <3>1. a.pending \ b.pending = a.pending BY <1>5, <2>1
    <3>2. answer' = AnswerAll(a.pending, <<"crashed", None>>) BY <2>1 DEF ReadLine
    <3>3. <<"crashed", None>>[1] # "none" OBVIOUS
    <3> QED BY <3>1, <3>2, <3>3
  <2>2. CASE line[1] # "garbage"
    <3>1. a.pending \ b.pending = {c} \cap a.pending BY <1>5, <2>2
    <3>2. answer' = AnswerAll({c} \cap a.pending, line) BY <2>2 DEF ReadLine
    <3> QED BY SMTT(60), <1>3, <3>1, <3>2
  <2> QED BY <2>1, <2>2
<1>7. /\ \A d \in Calls : d \notin a.pending \ b.pending => answer'[d] = answer[d]
      /\ \A d \in a.pending \ b.pending : ~Waits(d)'
  <2>1. PICK S \in SUBSET Calls : S = a.pending \ b.pending
    BY <1>2 DEF Actors
  <2>2. answer' = AnswerAll(S, r) BY <1>6, <2>1
  <2>3. /\ \A d \in Calls \ S : answer'[d] = answer[d]
        /\ \A d \in S : ~Waits(d)'
    BY <1>1, <1>6, <2>2, Answered
  <2> QED BY <2>1, <2>3
<1> HIDE DEF line, c
<1>8. b.pending \subseteq a.pending /\ b.loop # "closed"
      /\ (b.loop \in {"breaking", "closed"} => b.pending = {})
      /\ b.proc # "starting"
  BY <1>4, <1>5
<1> QED BY <1>1, <1>5, <1>7, <1>8, AnsweringStep

LEMMA BreakInv ==
  ASSUME DenoInv, NEW s \in Slots,
         WriteBreaks(s) \/ ReadEof(s) \/ ReadTimeout(s)
  PROVE  DenoInv'
<1> DEFINE a == actor[s]
           b == actor'[s]
<1>1. /\ TypeOK /\ TypeOK' /\ pc' = pc /\ slot' = slot /\ poolUp' = poolUp
      /\ delivered' = delivered /\ a.pending \in SUBSET Calls
  BY ActingType DEF DenoInv, Acting, WriteBreaks, ReadEof, ReadTimeout, TypeOK,
                    Actors
<1>2. PICK f \in Losses : Break(s, a.pending, <<f, None>>)
  BY DEF WriteBreaks, ReadEof, ReadTimeout, Losses
<1>3. /\ b.chan = a.chan /\ b.pending = {} /\ b.loop = "breaking" /\ b.proc = a.proc
      /\ b.files = a.files /\ b.stdout = a.stdout
      /\ \A t \in Slots \ {s} : actor'[t] = actor[t]
  BY <1>1, <1>2 DEF Break, TypeOK, Actors
<1>4. PICK r : answer' = AnswerAll(a.pending, r) /\ r[1] # "none"
  <2>1. <<f, None>>[1] # "none" BY DEF Losses
  <2>2. answer' = AnswerAll(a.pending, <<f, None>>) BY <1>2 DEF Break
  <2> QED BY <2>1, <2>2
<1>5. /\ \A c \in Calls \ a.pending : answer'[c] = answer[c]
      /\ \A c \in a.pending : ~Waits(c)'
  BY <1>1, <1>4, Answered
<1>6. a.proc = "starting" => a.files /\ a.stdout = <<>>
  BY DEF DenoInv, SlotPhases
<1> QED BY <1>1, <1>3, <1>5, <1>6, AnsweringStep

LEMMA DropActorInv ==
  ASSUME DenoInv, NEW s \in Slots, DropActor(s) PROVE DenoInv'
<1> DEFINE a == actor[s]
           b == actor'[s]
<1>1. /\ TypeOK /\ TypeOK' /\ pc' = pc /\ slot' = slot /\ poolUp' = poolUp
      /\ delivered' = delivered /\ a.loop = "breaking"
      /\ answer' = AnswerAll(InChan(s), <<"shutdown", None>>)
      /\ b = Closed /\ \A t \in Slots \ {s} : actor'[t] = actor[t]
  BY ActingType DEF DenoInv, Acting, DropActor, TypeOK
<1>2. /\ InChan(s) \subseteq Calls
      /\ \A c \in InChan(s) : delivered[c] = 0
      /\ a.pending = {}
  BY SMTT(60), <1>1, Held DEF DenoInv, SlotPhases
<1>3. /\ b.chan = <<>> /\ b.pending = {} /\ b.loop = "closed" /\ b.proc = "dead"
      /\ InChan(s)' = {}
  BY <1>1 DEF Closed, InChan
<1>4. /\ \A c \in Calls \ InChan(s) : answer'[c] = answer[c]
      /\ \A c \in InChan(s) : ~Waits(c)'
  <2> DEFINE r == <<"shutdown", None>>
  <2>1. r[1] # "none" /\ answer' = AnswerAll(InChan(s), r) BY <1>1
  <2> HIDE DEF r
  <2> QED BY <1>1, <1>2, <2>1, Answered
<1>5. CallPhases' BY <1>1, <1>2, <1>4, AnsweredPhases
<1> QED BY <1>1, <1>2, <1>3, <1>4, <1>5, TaskStep

LEMMA SidecarInv ==
  ASSUME DenoInv, NEW s \in Slots, Sidecar(s) PROVE DenoInv'
<1> DEFINE a == actor[s]
           b == actor'[s]
<1>1. /\ TypeOK /\ TypeOK' /\ pc' = pc /\ slot' = slot /\ poolUp' = poolUp
      /\ delivered' = delivered /\ answer' = answer
  BY SidecarType DEF DenoInv, Sidecar, Load, Drain, Serve, WriteNoise, Fail
<1>2. /\ b.chan = a.chan /\ b.pending = a.pending
      /\ b.loop \in {a.loop, "open"} /\ (b.loop = "closed" <=> a.loop = "closed")
      /\ b.proc # "starting"
      /\ \A t \in Slots \ {s} : actor'[t] = actor[t]
  <2>1. CASE Load(s) BY <1>1, <2>1 DEF Load, TypeOK, Actors
  <2>2. CASE Fail(s) BY SMTT(60), <1>1, <2>2 DEF Fail, TypeOK, Actors
  <2>3. CASE Serve(s)
    <3>1. PICK v \in Verdicts :
            actor' = [actor EXCEPT
                ![s].stdin = Tail(@),
                ![s].stdout = Append(@, <<v, Head(actor[s].stdin)>>)]
      BY <2>3 DEF Serve
    <3>2. a.proc = "up" BY <2>3 DEF Serve
    <3> QED BY SMTT(60), <1>1, <3>1, <3>2 DEF TypeOK, Actors
  <2>4. CASE WriteNoise(s) BY <1>1, <2>4 DEF WriteNoise, TypeOK, Actors
  <2>5. CASE Drain(s) BY <1>1, <2>5 DEF Drain, Writing, TypeOK, Actors
  <2> QED BY <2>1, <2>2, <2>3, <2>4, <2>5 DEF Sidecar
<1>3. CallPhases' BY <1>1, Held, AnsweredPhases
<1>4. SlotPhases(s) BY DEF DenoInv
<1>5. InChan(s)' = InChan(s) BY <1>2 DEF InChan
<1>6. \A c \in InChan(s) \cup a.pending : Waits(c)' BY <1>1, Held DEF Waits
<1> QED BY <1>1, <1>2, <1>3, <1>4, <1>5, <1>6, TaskStep DEF SlotPhases

-----------------------------------------------------------------------------
LEMMA NextInv == DenoInv /\ Next => DenoInv'
<1>1. DenoInv /\ Terminated => DenoInv'
  BY DEF DenoInv, Terminated, vars, TypeOK, CallPhases, SlotPhases, Accounted,
         InChan, Waits
<1> QED BY <1>1, CallingInv, SendRequestInv, WriteFailsInv, ReadLineInv, BreakInv,
           DropActorInv, SidecarInv DEF Next, Acting

(* The inductive invariant: what every actor holds belongs to callers of    *)
(* its slot that still wait.                                                *)
THEOREM PoolInvariant == Spec => []DenoInv
<1>1. DenoInv /\ UNCHANGED vars => DenoInv'
  BY DEF DenoInv, vars, TypeOK, CallPhases, SlotPhases, Accounted, InChan, Waits
<1> QED BY InitInv, NextInv, <1>1, PTL DEF Spec

(* No accepted request is lost, however often a slot's actor dies and is    *)
(* healed: until it is answered it is queued or pending in a live actor.    *)
THEOREM NoRequestLost == Spec => []Accounted
<1>1. DenoInv => Accounted BY DEF DenoInv
<1> QED BY PoolInvariant, <1>1, PTL

(* A sidecar that still starts has its launch files.                        *)
THEOREM FilesOutliveStart == Spec => []StartsFromFiles
<1>1. DenoInv => StartsFromFiles BY DEF DenoInv, SlotPhases, StartsFromFiles
<1> QED BY PoolInvariant, <1>1, PTL

-----------------------------------------------------------------------------
(* The refinement: every step of the pool is a step of OracleCalls or       *)
(* leaves what a caller can know as it was.                                 *)

\* what a step may do, seen by the callers
Promised == Promise!Next \/ UNCHANGED <<Stage, answer>>

LEMMA StageIs ==
  ASSUME NEW c \in Calls
  PROVE  /\ delivered[c] = 0 => Stage[c] = "new"
         /\ delivered[c] = 1 => Stage[c] = "sent"
  BY DEF Stage

LEMMA StageKept == delivered' = delivered => Stage' = Stage
  BY DEF Stage

(* Several calls fail together.                                             *)
LEMMA Refused ==
  ASSUME TypeOK, NEW S \in SUBSET Calls, NEW f \in Refusals,
         \A c \in S : answer[c] = Unanswered /\ delivered[c] = 0,
         answer' = AnswerAll(S, <<f, None>>), delivered' = delivered
  PROVE  Promised
<1>1. Stage' = Stage /\ \A c \in S : Stage'[c] = "new" BY StageKept, StageIs
<1>2. Promise!Failing(S, Refusals, "new")
  BY <1>1 DEF Promise!Failing, Promise!Unanswered, Unanswered, AnswerAll
<1> QED BY <1>1, <1>2 DEF Promised, Promise!Next, Promise!Refuse

LEMMA Lost ==
  ASSUME TypeOK, NEW S \in SUBSET Calls, NEW f \in Losses,
         \A c \in S : answer[c] = Unanswered /\ delivered[c] = 1,
         answer' = AnswerAll(S, <<f, None>>), delivered' = delivered
  PROVE  Promised
<1>1. Stage' = Stage /\ \A c \in S : Stage'[c] = "sent" BY StageKept, StageIs
<1>2. Promise!Failing(S, Losses, "sent")
  BY <1>1 DEF Promise!Failing, Promise!Unanswered, Unanswered, AnswerAll
<1> QED BY <1>1, <1>2 DEF Promised, Promise!Next, Promise!Lose

\* answering one call is answering a set of one
LEMMA AnswerOne ==
  ASSUME TypeOK, NEW c \in Calls, NEW r
  PROVE  [answer EXCEPT ![c] = r] = AnswerAll({c}, r)
  BY DEF TypeOK, AnswerAll

LEMMA CallingPromised ==
  ASSUME DenoInv, NEW c \in Calls, Calling(c) PROVE Promised
<1>0. TypeOK BY DEF DenoInv
<1>1. CASE answer' = answer /\ delivered' = delivered
  BY <1>1, StageKept DEF Promised
<1>2. CASE answer' # answer
  <2>1. PICK f \in Refusals : answer' = [answer EXCEPT ![c] = <<f, None>>]
    BY <1>2 DEF Calling, GetSlot, SpawnFails, ReadLock, WriteLock, Heal, Dispatch,
                DispatchRefused, Return, Refusals
  <2>2. pc[c] \in {"idle", "healing", "healed"}
    BY <1>2 DEF Calling, GetSlot, SpawnFails, ReadLock, WriteLock, Heal, Dispatch,
                DispatchRefused, Return
  <2>3. answer[c] = Unanswered /\ delivered[c] = 0
    BY <2>2 DEF DenoInv, CallPhases
  <2>4. delivered' = delivered
    BY <1>2 DEF Calling, GetSlot, SpawnFails, ReadLock, WriteLock, Heal, Dispatch,
                DispatchRefused, Return
  <2>5. answer' = AnswerAll({c}, <<f, None>>) BY <1>0, <2>1, AnswerOne
  <2> QED BY <1>0, <2>3, <2>4, <2>5, Refused
<1>3. delivered' = delivered
  BY DEF Calling, GetSlot, SpawnFails, ReadLock, WriteLock, Heal, Dispatch,
         DispatchRefused, Return
<1> QED BY <1>1, <1>2, <1>3

LEMMA Sent ==
  ASSUME TypeOK, NEW r \in Calls, delivered[r] = 0,
         delivered' = [delivered EXCEPT ![r] = @ + 1]
  PROVE  Stage' = [Stage EXCEPT ![r] = "sent"]
<1>1. delivered'[r] = 1 /\ \A c \in Calls \ {r} : delivered'[c] = delivered[c]
  BY DEF TypeOK
<1>2. Stage'[r] = "sent" /\ \A c \in Calls \ {r} : Stage'[c] = Stage[c]
  BY <1>1 DEF Stage
<1>3. DOMAIN Stage = Calls /\ DOMAIN Stage' = Calls BY DEF Stage
<1>4. Stage = [c \in Calls |-> Stage[c]] /\ Stage' = [c \in Calls |-> Stage'[c]]
  BY DEF Stage
<1> HIDE DEF Stage
<1>5. [Stage EXCEPT ![r] = "sent"] = [c \in Calls |-> IF c = r THEN "sent" ELSE Stage[c]]
  BY <1>3, <1>4
<1> QED BY <1>2, <1>4, <1>5

LEMMA SendRequestPromised ==
  ASSUME DenoInv, NEW s \in Slots, SendRequest(s) PROVE Promised
<1> DEFINE r == Request(s)
<1>1. /\ TypeOK /\ actor[s].chan # <<>> /\ answer' = answer
      /\ delivered' = [delivered EXCEPT ![r] = @ + 1]
  BY DEF DenoInv, SendRequest
<1>a. actor'[s].chan = Tail(actor[s].chan)
  <2>1. PICK l \in {"open", "writing"} :
            actor' = [actor EXCEPT ![s].chan = Tail(@), ![s].loop = l,
                                   ![s].pending = @ \cup {r},
                                   ![s].stdin = Append(@, r)]
    BY DEF SendRequest
  <2> HIDE DEF r
  <2> QED BY <1>1, <2>1 DEF TypeOK, Actors
<1>2. r \in Calls /\ answer[r] = Unanswered /\ delivered[r] = 0
  BY <1>1, <1>a, Taken, Held DEF Waits
<1> HIDE DEF r
<1>3. Stage[r] = "new" BY <1>2, StageIs
<1>4. Stage' = [Stage EXCEPT ![r] = "sent"]
  BY <1>1, <1>2, Sent
<1>5. Promise!Send(r)
  BY <1>1, <1>2, <1>3, <1>4 DEF Promise!Send, Promise!Unanswered, Unanswered
<1> QED BY <1>2, <1>5 DEF Promised, Promise!Next

LEMMA WriteFailsPromised ==
  ASSUME DenoInv, NEW s \in Slots, WriteFails(s) PROVE Promised
<1> DEFINE r == Request(s)
<1>1. /\ TypeOK /\ actor[s].chan # <<>>
      /\ answer' = AnswerAll(actor[s].pending \cup {r}, <<"crashed", None>>)
      /\ delivered' = [delivered EXCEPT ![r] = @ + 1]
      /\ actor'[s].chan = Tail(actor[s].chan)
  BY SMTT(60) DEF DenoInv, WriteFails, TypeOK, Actors
<1>2. r \in Calls /\ answer[r] = Unanswered /\ delivered[r] = 0
  BY <1>1, Taken, Held DEF Waits
<1> HIDE DEF r
<1>3. PICK S \in SUBSET Calls : S = actor[s].pending \cup {r}
  BY <1>2, Held
<1>4. Stage[r] = "new" BY <1>2, StageIs
<1>5. Stage' = [Stage EXCEPT ![r] = "sent"]
  BY <1>1, <1>2, Sent
<1>6. \A c \in S : answer[c] = Unanswered /\ Stage'[c] = "sent"
  <2>1. \A c \in actor[s].pending : Stage[c] = "sent" /\ answer[c] = Unanswered
    BY Held, StageIs DEF Waits
  <2>2. DOMAIN Stage = Calls BY DEF Stage
  <2> QED BY <1>2, <1>3, <1>5, <2>1, <2>2
<1>7. Promise!Failing(S, Losses, "sent")
  BY <1>1, <1>3, <1>6 DEF Promise!Failing, Promise!Unanswered, Unanswered, AnswerAll,
                          Losses
<1>8. Promise!SendFails(r, S) /\ r \in S
  BY <1>3, <1>4, <1>5, <1>7 DEF Promise!SendFails
<1> QED BY <1>8 DEF Promised, Promise!Next

LEMMA ReadLinePromised ==
  ASSUME DenoInv, NEW s \in Slots, ReadLine(s) PROVE Promised
<1> DEFINE line == Head(actor[s].stdout)
           P    == actor[s].pending
<1>1. TypeOK /\ delivered' = delivered /\ line \in Lines
  BY SMTT(60) DEF DenoInv, ReadLine, TypeOK, Actors
<1>2. P \in SUBSET Calls /\ \A c \in P : answer[c] = Unanswered /\ delivered[c] = 1
  BY Held DEF Waits
<1>3. CASE line[1] = "garbage"
  <2>1. answer' = AnswerAll(P, <<"crashed", None>>) BY <1>3 DEF ReadLine
  <2>2. "crashed" \in Losses BY DEF Losses
  <2> QED BY <1>1, <1>2, <2>1, <2>2, Lost
<1>4. CASE line[1] # "garbage" /\ line[2] \notin P
  <2>1. answer' = AnswerAll({}, line) BY <1>4 DEF ReadLine
  <2>2. answer' = answer BY <1>1, <2>1 DEF AnswerAll, TypeOK
  <2> QED BY <1>1, <2>2, StageKept DEF Promised
<1>5. CASE line[1] # "garbage" /\ line[2] \in P
  <2>1. PICK v \in Verdicts, c \in Calls : line = <<v, c>>
    BY <1>1, <1>2, <1>5, NoneAssumption DEF Lines
  <2>2. answer' = AnswerAll({c}, <<v, c>>) /\ c \in P
    <3>1. answer' = AnswerAll({line[2]} \cap P, line) BY <1>5 DEF ReadLine
    <3>2. line[2] = c /\ {c} \cap P = {c} BY <1>5, <2>1
    <3> QED BY <1>5, <2>1, <3>1, <3>2
  <2>3. answer' = [answer EXCEPT ![c] = <<v, c>>] BY <1>1, <2>2, AnswerOne
  <2>4. Stage[c] = "sent" /\ answer[c] = Unanswered BY <1>2, <2>2, StageIs
  <2>5. Promise!Answer(c)
    BY <1>1, <2>3, <2>4, StageKept DEF Promise!Answer, Promise!Unanswered, Unanswered
  <2> QED BY <2>5 DEF Promised, Promise!Next
<1> QED BY <1>3, <1>4, <1>5

LEMMA LeavingPromised ==
  ASSUME DenoInv, NEW s \in Slots,
         WriteBreaks(s) \/ ReadEof(s) \/ ReadTimeout(s) \/ DropActor(s)
  PROVE  Promised
<1>1. TypeOK /\ delivered' = delivered
  BY DEF DenoInv, WriteBreaks, ReadEof, ReadTimeout, DropActor
<1>2. CASE WriteBreaks(s) \/ ReadEof(s) \/ ReadTimeout(s)
  <2>1. PICK f \in Losses : answer' = AnswerAll(actor[s].pending, <<f, None>>)
    BY <1>2 DEF WriteBreaks, ReadEof, ReadTimeout, Break, Losses
  <2>2. /\ actor[s].pending \in SUBSET Calls
        /\ \A c \in actor[s].pending : answer[c] = Unanswered /\ delivered[c] = 1
    BY Held DEF Waits
  <2> QED BY <1>1, <2>1, <2>2, Lost
<1>3. CASE DropActor(s)
  <2>1. answer' = AnswerAll(InChan(s), <<"shutdown", None>>) /\ "shutdown" \in Refusals
    BY <1>3 DEF DropActor, Refusals
  <2>2. /\ InChan(s) \in SUBSET Calls
        /\ \A c \in InChan(s) : answer[c] = Unanswered /\ delivered[c] = 0
    BY Held DEF Waits
  <2> QED BY <1>1, <2>1, <2>2, Refused
<1> QED BY <1>2, <1>3

(* The pool and its actors implement OracleCalls: a request is written to a *)
(* sidecar at most once, whoever is healed; a call is answered once, with   *)
(* the verdict on its own request or with a failure that tells whether a    *)
(* sidecar may have run it.                                                 *)
THEOREM PoolImplementsOracleCalls == Spec => ImplementsOracleCalls
<1>1. Init => Promise!Init
  BY DEF Init, Promise!Init, Stage, Promise!Unanswered, Unanswered
<1>2. DenoInv /\ [Next]_vars => Promised
  <2> SUFFICES ASSUME DenoInv, [Next]_vars PROVE Promised
    OBVIOUS
  <2>1. CASE UNCHANGED vars
    BY SMTT(60), <2>1, StageKept DEF vars, Promised
  <2>2. ASSUME NEW s \in Slots, Sidecar(s) PROVE Promised
    BY <2>2, StageKept DEF Sidecar, Load, Drain, Serve, WriteNoise, Fail, Promised
  <2>3. ASSUME NEW s \in Slots, Acting(s) PROVE Promised
    BY <2>3, SendRequestPromised, WriteFailsPromised, ReadLinePromised,
       LeavingPromised DEF Acting
  <2>4. ASSUME NEW c \in Calls, Calling(c) PROVE Promised
    BY <2>4, CallingPromised
  <2> QED BY <2>1, <2>2, <2>3, <2>4 DEF Next, Terminated
<1>3. Promised => [Promise!Next]_(Promise!vars)
  BY DEF Promised, Promise!vars
<1> QED BY <1>1, <1>2, <1>3, PoolInvariant, PTL
        DEF Spec, ImplementsOracleCalls, Promise!Spec
================================================================================
