-------------------------- MODULE FormatPool_proofs --------------------------
(* Proofs about FormatPool for any number of files and workers: the queue   *)
(* and its wake-ups, the report and the exit status, and that FormatPool    *)
(* implements FormatOnce, on both routes.                                   *)
EXTENDS FormatPool, FiniteSetTheorems, FunctionTheorems, TLAPS

LEMMA DrainersFinite == IsFiniteSet(Drainers)
  BY WorkersAssumption, FS_AddElement DEF Drainers

(* The number of threads in a state, when one thread enters or leaves it.   *)
LEMMA OneMore ==
  ASSUME NEW S \in SUBSET Drainers, NEW d \in Drainers, d \notin S
  PROVE  /\ IsFiniteSet(S) /\ Cardinality(S) \in Nat
         /\ Cardinality(S \cup {d}) = Cardinality(S) + 1
  BY DrainersFinite, FS_Subset, FS_AddElement, FS_CardinalityType

LEMMA OneLess ==
  ASSUME NEW S \in SUBSET Drainers, NEW d \in S
  PROVE  /\ IsFiniteSet(S) /\ Cardinality(S) \in Nat
         /\ Cardinality(S \ {d}) = Cardinality(S) - 1
         /\ Cardinality(S) > 0
<1>1. IsFiniteSet(S) BY DrainersFinite, FS_Subset
<1>2. Cardinality(S) \in Nat BY <1>1, FS_CardinalityType
<1>3. Cardinality(S \ {d}) = Cardinality(S) - 1 BY <1>1, FS_RemoveElement
<1>4. Cardinality(S \ {d}) \in Nat BY <1>1, FS_Subset, FS_CardinalityType
<1> QED BY <1>1, <1>2, <1>3, <1>4

LEMMA Counted ==
  ASSUME NEW S \in SUBSET Drainers
  PROVE  IsFiniteSet(S) /\ Cardinality(S) \in Nat
  BY DrainersFinite, FS_Subset, FS_CardinalityType

-----------------------------------------------------------------------------
LEMMA InitType == Init => TypeOK
<1> SUFFICES ASSUME Init PROVE TypeOK
  OBVIOUS
<1>1. disk \in [Files -> Content]
  BY ContentsAssumption DEF Init
<1>2. /\ pc \in [Drainers -> {"unborn", "seeking", "waiting", "working",
                              "exited", "dead"}]
      /\ claim \in [Drainers -> Nat]
      /\ outcomes \in [Drainers -> SUBSET (Nat \X Outcomes)]
  BY DEF Init
<1>3. /\ keys \in Seq(Nat \X Nat) /\ batch \in Seq(Files)
      /\ queued \in Seq(Files) /\ Len(queued) = 0
  BY DEF Init
<1>4. excluded \in BOOLEAN
  BY DEF Init
<1>5. scope \in SUBSET Files /\ unvisited \in SUBSET scope
  BY DEF Init
<1>6. mode \in Modes /\ errors \in Nat /\ next \in Nat /\ waiting \in Nat
      /\ permits \in Nat /\ exit \in {-1, 0, 1, 2, 101} /\ parked \in SUBSET Drainers
  BY DEF Init
<1>7. badArgs \in BOOLEAN /\ unwinding \in BOOLEAN /\ done \in BOOLEAN
  BY DEF Init
<1>8. step \in {"spawn", "collect"} /\ next <= Len(queued)
  BY <1>3 DEF Init
<1> QED BY <1>1, <1>2, <1>3, <1>4, <1>5, <1>6, <1>7, <1>8 DEF TypeOK

(* Sorting permutes a sequence and keeps what it holds.                     *)
LEMMA ShuffleType ==
  ASSUME NEW K, NEW s \in Seq(K), NEW p \in Shuffles(Len(s))
  PROVE  [k \in 1..Len(s) |-> s[p[k]]] \in Seq(K)
<1>1. p \in [1..Len(s) -> 1..Len(s)] BY DEF Shuffles
<1>2. \A k \in 1..Len(s) : s[p[k]] \in K BY <1>1
<1> QED BY <1>2

(* A thread back from Condvar::wait was counted, so the decrement is sound. *)
LEMMA BackFromWait ==
  ASSUME TypeOK, WaitingCounts, NEW d \in Drainers
  PROVE  WaitingAfter(d) \in Nat
<1> DEFINE W == {e \in Drainers : pc[e] = "waiting"}
<1>1. CASE pc[d] = "waiting"
  <2>1. d \in W BY <1>1
  <2>2. Cardinality(W) > 0 /\ Cardinality(W) \in Nat BY <2>1, OneLess
  <2> QED BY <1>1, <2>2 DEF WaitingCounts, WaitingAfter
<1>2. CASE pc[d] # "waiting"
  BY <1>2 DEF WaitingAfter, TypeOK
<1> QED BY <1>1, <1>2

(* A collected list: found files only, one key for each.                    *)
LEMMA CollectType ==
  ASSUME TypeOK, Phases, Collect
  PROVE  /\ keys' \in Seq(Nat \X Nat) /\ queued' \in Seq(Files)
         /\ errors' \in Nat /\ next <= Len(queued')
<1>1. PICK found \in SUBSET scope :
        \E files \in [1..Cardinality(found) -> found] :
            /\ keys' = [k \in DOMAIN files |-> <<Rank[files[k]], k>>]
            /\ queued' = files
            /\ errors' = Cardinality(scope \ found)
  BY DEF Collect
<1>2. PICK files \in [1..Cardinality(found) -> found] :
            /\ keys' = [k \in DOMAIN files |-> <<Rank[files[k]], k>>]
            /\ queued' = files
            /\ errors' = Cardinality(scope \ found)
  BY <1>1
<1>3. found \subseteq Files /\ scope \ found \subseteq Files
  BY DEF TypeOK
<1>4. Cardinality(found) \in Nat /\ Cardinality(scope \ found) \in Nat
  BY <1>3, FilesAssumption, FS_Subset, FS_CardinalityType
<1>5. files \in Seq(Files) BY <1>3, <1>4
<1>6. keys' \in Seq(Nat \X Nat)
  <2> DEFINE n == Cardinality(found)
             ks == [k \in 1..n |-> <<Rank[files[k]], k>>]
  <2>1. \A k \in 1..n : Rank[files[k]] \in Nat
    BY <1>3, RankAssumption
  <2>2. \A k \in 1..n : <<Rank[files[k]], k>> \in Nat \X Nat
    BY <1>4, <2>1
  <2>3. keys' = ks BY <1>2
  <2>4. ks \in [1..n -> Nat \X Nat] BY <2>2
  <2>5. ks \in Seq(Nat \X Nat) BY SMTT(60), <1>4, <2>4
  <2> QED BY <2>3, <2>5
<1>7. next <= Len(queued') BY <1>2, <1>5 DEF Collect, Phases
<1> QED BY <1>2, <1>4, <1>5, <1>6, <1>7

LEMMA NextType == TypeOK /\ Phases /\ WaitingCounts /\ Next => TypeOK'
<1> SUFFICES ASSUME TypeOK, Phases, WaitingCounts, Next PROVE TypeOK'
  OBVIOUS
<1> USE DEF TypeOK, Drainers
<1>1. ASSUME NEW f \in Files, Discover(f) PROVE TypeOK'
  <2>1. Rank[f] \in Nat /\ keys' \in Seq(Nat \X Nat)
    BY <1>1, RankAssumption DEF Discover
  <2>2. CASE Len(batch) + 1 >= DiscoveryBatch
    <3>1. PushBatch(Append(batch, f)) BY <1>1, <2>2 DEF Discover
    <3>2. Append(batch, f) \in Seq(Files) OBVIOUS
    <3>3. Wakeups(Len(Append(batch, f))) \in Nat BY <3>2 DEF Wakeups, Min2
    <3>4. /\ queued' \in Seq(Files) /\ batch' \in Seq(Files) /\ permits' \in Nat
          /\ next' <= Len(queued') /\ step' \in {"notify", "walk"}
      BY <3>1, <3>2, <3>3 DEF PushBatch
    <3> QED BY SMTT(60), <1>1, <2>1, <3>1, <3>4 DEF Discover, PushBatch, crew, final
  <2>3. CASE ~(Len(batch) + 1 >= DiscoveryBatch)
    <3>1. batch' = Append(batch, f) BY <1>1, <2>3 DEF Discover
    <3>3. batch' \in Seq(Files) BY <3>1
    <3>2. unvisited' \in SUBSET scope BY <1>1 DEF Discover
    <3> QED BY SMTT(60), <1>1, <2>1, <2>3, <3>2, <3>3 DEF Discover, queue, crew, final
  <2> QED BY <2>2, <2>3
<1>2. ASSUME NEW f \in Files, TraversalError(f) PROVE TypeOK'
  BY <1>2 DEF TraversalError, queue, crew, final
<1>3. CASE Flush
  <2>1. Wakeups(Len(batch)) \in Nat BY DEF Wakeups, Min2
  <2>2. /\ queued' \in Seq(Files) /\ batch' \in Seq(Files) /\ permits' \in Nat
        /\ next' <= Len(queued') /\ step' \in {"notify", "walk"}
    BY <1>3, <2>1 DEF Flush, PushBatch
  <2> QED BY <1>3, <2>2 DEF Flush, PushBatch, crew, final
<1>4. CASE EndWalk BY <1>4 DEF EndWalk, walk, queue, crew, final
<1>5. CASE WalkRefused BY <1>5 DEF WalkRefused, queue, crew, final
<1>6. CASE WalkPanics BY <1>6 DEF WalkPanics, walk, queue, crew, final
<1>7. ASSUME NEW w \in Workers, SpawnWorker(w) PROVE TypeOK'
  BY <1>7 DEF SpawnWorker, walk, queue, final
<1>8. CASE PoolIsUp BY <1>8 DEF PoolIsUp, walk, queue, crew, final
<1>9. CASE NotifyOne
  <2>1. permits' \in Nat BY <1>9 DEF NotifyOne, Phases
  <2>2. parked' \in SUBSET Drainers BY <1>9 DEF NotifyOne
  <2>3. step' \in {"walk", "notify"} BY <1>9 DEF NotifyOne
  <2> QED BY <1>9, <2>1, <2>2, <2>3 DEF NotifyOne, walk, queue, crew, final
<1>10. CASE Finish BY <1>10 DEF Finish, walk, crew, final
<1>11. CASE NotifyAll BY <1>11 DEF NotifyAll, walk, queue, crew, final
<1>12. CASE Close
  <2> PICK p \in Shuffles(Len(keys)) :
        keys' = [k \in 1..Len(keys) |-> keys[p[k]]]
    BY <1>12 DEF Close
  <2>2. keys' \in Seq(Nat \X Nat) BY SMTT(60), ShuffleType
  <2> QED BY <1>12, <2>2 DEF Close, queue, crew, final
<1>13. CASE Fallback BY <1>13 DEF Fallback, walk, queue, final
<1>14. CASE Report
  <2>1. exit' \in {0, 1, 2} BY <1>14 DEF Report, ExitCode
  <2> QED BY <1>14, <2>1 DEF Report, walk, queue, crew
<1>15. CASE Crash BY <1>15 DEF Crash, walk, queue, crew
<1>16. ASSUME NEW d \in Drainers, Draining(d) PROVE TypeOK'
  <2> USE <1>16
  <2>1. CASE Claim(d)
    <3>1. waiting' \in Nat BY <2>1, BackFromWait DEF Claim
    <3> QED BY <2>1, <3>1 DEF Claim, AtQueue, walk, final
  <2>2. CASE Exit(d)
    <3>1. waiting' \in Nat BY <2>2, BackFromWait DEF Exit
    <3> QED BY <2>2, <3>1 DEF Exit, AtQueue, walk, final
  <2>3. CASE Park(d)
    <3>1. waiting' \in Nat BY SMTT(60), <2>3, BackFromWait DEF Park
    <3> QED BY <2>3, <3>1 DEF Park, AtQueue, walk, final
  <2>4. CASE Work(d)
    <3> DEFINE f == queued[claim[d]]
    <3>1. disk' \in [Files -> Content]
      BY ZenonT(150), <2>4 DEF Work, FormatFileLeaves, Content
    <3>2. FormatFile(disk[f], mode) \in Outcomes
      BY DEF FormatFile, Outcomes
    <3>3. outcomes' \in [Drainers -> SUBSET (Nat \X Outcomes)]
      BY <2>4, <3>2 DEF Work
    <3> QED BY <2>4, <3>1, <3>3 DEF Work, walk, queue, final
  <2>5. CASE Die(d)
    BY ZenonT(150), <2>5 DEF Die, walk, queue, final
  <2> QED BY <2>1, <2>2, <2>3, <2>4, <2>5 DEF Draining
<1>17. ASSUME NEW d \in Drainers, SpuriousWakeup(d) PROVE TypeOK'
  BY <1>17 DEF SpuriousWakeup, walk, queue, crew, final
<1>18. CASE Terminated
  BY <1>18 DEF Terminated, vars, walk, queue, crew, final
<1>19. CASE Collect
  <2>1. step' \in {"tell", "crew"} /\ unvisited' \in SUBSET scope /\ done' = TRUE
    BY <1>19 DEF Collect
  <2> QED BY ZenonT(60), <1>19, <2>1, CollectType DEF Collect, crew, final
<1>20. CASE CollectRefused
  BY <1>20 DEF CollectRefused, crew, final
<1> QED
  BY <1>1, <1>2, <1>3, <1>4, <1>5, <1>6, <1>7, <1>8, <1>9, <1>10, <1>11,
     <1>12, <1>13, <1>14, <1>15, <1>16, <1>17, <1>18, <1>19, <1>20
  DEF Next, Walking, Calling

-----------------------------------------------------------------------------
LEMMA NextPhases == TypeOK /\ Phases /\ Next => Phases'
<1> SUFFICES ASSUME TypeOK, Phases, Next PROVE Phases'
  OBVIOUS
<1> USE DEF Phases, Sealed
<1>0. Caller \in Drainers /\ \A w \in Workers : w \in Drainers /\ w # Caller
  BY WorkersAssumption DEF Drainers
<1>1. ASSUME NEW f \in Files, Discover(f) PROVE Phases'
  <2>1. Wakeups(Len(Append(batch, f))) \in Nat
    BY DEF Wakeups, Min2, TypeOK
  <2>2. IF step' = "notify" THEN permits' > 0 ELSE permits' = 0
    BY <1>1, <2>1 DEF Discover, PushBatch
  <2> QED BY <1>1, <2>2 DEF Discover, PushBatch, queue, crew
<1>2. CASE Flush
  <2>1. Wakeups(Len(batch)) \in Nat BY DEF Wakeups, Min2, TypeOK
  <2>2. IF step' = "notify" THEN permits' > 0 ELSE permits' = 0
    BY <1>2, <2>1 DEF Flush, PushBatch
  <2> QED BY <1>2, <2>2 DEF Flush, PushBatch, crew
<1>3. CASE \/ \E f \in Files : TraversalError(f)
           \/ EndWalk \/ WalkRefused \/ WalkPanics
  BY <1>3 DEF TraversalError, EndWalk, WalkRefused, WalkPanics, queue, crew
<1>4. ASSUME NEW w \in Workers, SpawnWorker(w) PROVE Phases'
  BY <1>0, <1>4 DEF SpawnWorker, MayWiden, queue, TypeOK
<1>5. CASE NotifyOne
  <2>1. permits' \in Nat BY <1>5 DEF NotifyOne, TypeOK
  <2>2. parked' \subseteq parked BY <1>5 DEF NotifyOne
  <2>3. IF step' = "notify" THEN permits' > 0 ELSE permits' = 0
    BY <1>5, <2>1 DEF NotifyOne, TypeOK
  <2> QED BY <1>5, <2>2, <2>3 DEF NotifyOne, queue, crew
<1>6. CASE PoolIsUp \/ Finish \/ NotifyAll \/ Close \/ Report \/ Crash
  BY <1>0, <1>6 DEF PoolIsUp, Finish, NotifyAll, Close, Report, Crash, Joined,
                    queue, crew
<1>7. CASE Fallback
  BY <1>0, <1>7 DEF Fallback, queue, TypeOK
<1>8. ASSUME NEW d \in Drainers, Draining(d) PROVE Phases'
  <2> USE <1>0, <1>8 DEF TypeOK
  <2>1. CASE Claim(d) BY <2>1 DEF Claim, AtQueue, Awake
  <2>2. CASE Exit(d) BY <2>2 DEF Exit, AtQueue, Awake
  <2>3. CASE Park(d) BY <2>3 DEF Park, AtQueue, Awake
  <2>4. CASE Work(d) BY <2>4 DEF Work, queue
  <2>5. CASE Die(d) BY <2>5 DEF Die, queue
  <2> QED BY <2>1, <2>2, <2>3, <2>4, <2>5 DEF Draining
<1>9. ASSUME NEW d \in Drainers, SpuriousWakeup(d) PROVE Phases'
  BY <1>9 DEF SpuriousWakeup, queue, crew
<1>10. CASE Terminated
  BY <1>10 DEF Terminated, vars, queue, crew
<1>11. CASE Collect \/ CollectRefused
  <2>1. parked = {} BY <1>11 DEF Collect, CollectRefused, TypeOK
  <2>2. step' \in {"tell", "crew"} /\ done' /\ UNCHANGED <<permits, parked, pc>>
    BY <1>11 DEF Collect, CollectRefused, crew
  <2>3. permits = 0 /\ pc[Caller] = "unborn"
    BY <1>0, <1>11 DEF Collect, CollectRefused
  <2> QED BY <2>1, <2>2, <2>3
<1> QED
  BY <1>1, <1>2, <1>3, <1>4, <1>5, <1>6, <1>7, <1>8, <1>9, <1>10, <1>11
  DEF Next, Walking, Calling

-----------------------------------------------------------------------------
(* How the two counts move: the threads in Condvar::wait, and the awake ones. *)
Waiters == {d \in Drainers : pc[d] = "waiting"}

LEMMA NextWaitingCounts ==
  TypeOK /\ Phases /\ WaitingCounts /\ Next => WaitingCounts'
<1> SUFFICES ASSUME TypeOK, Phases, WaitingCounts, Next PROVE WaitingCounts'
  OBVIOUS
<1>0. waiting = Cardinality(Waiters) BY DEF WaitingCounts, Waiters
<1>1. SUFFICES waiting' = Cardinality(Waiters')
  BY DEF WaitingCounts, Waiters
<1>2. ASSUME waiting' = waiting,
             \A d \in Drainers : pc'[d] = "waiting" <=> pc[d] = "waiting"
      PROVE  waiting' = Cardinality(Waiters')
  <2>1. Waiters' = Waiters BY <1>2 DEF Waiters
  <2> QED BY <1>0, <1>2, <2>1
<1>3. CASE Walking
  <2>1. waiting' = waiting /\ pc' = pc
    BY <1>3 DEF Walking, Discover, PushBatch, TraversalError, Flush, EndWalk,
                WalkRefused, WalkPanics, Collect, CollectRefused, queue, crew
  <2> QED BY <1>2, <2>1
<1>4. CASE Calling
  <2>1. ASSUME NEW w \in Workers, SpawnWorker(w)
        PROVE  waiting' = Cardinality(Waiters')
    BY <1>2, <2>1 DEF SpawnWorker, queue, TypeOK, Drainers
  <2>2. CASE Fallback
    BY <1>2, <2>2 DEF Fallback, queue, TypeOK, Drainers
  <2>3. CASE PoolIsUp \/ NotifyOne \/ Finish \/ NotifyAll \/ Close \/ Report
             \/ Crash
    <3>1. waiting' = waiting /\ pc' = pc
      BY <2>3 DEF PoolIsUp, NotifyOne, Finish, NotifyAll, Close, Report, Crash,
                  queue, crew
    <3> QED BY <1>2, <3>1
  <2> QED BY <1>4, <2>1, <2>2, <2>3 DEF Calling
<1>5. ASSUME NEW d \in Drainers, Draining(d)
      PROVE  waiting' = Cardinality(Waiters')
  <2>0. pc \in [Drainers -> {"unborn", "seeking", "waiting", "working",
                             "exited", "dead"}]
    BY DEF TypeOK
  <2>1. CASE Claim(d) \/ Exit(d)
    <3>0. /\ d \in Awake /\ waiting' = WaitingAfter(d)
          /\ \E s \in {"working", "exited"} : pc' = [pc EXCEPT ![d] = s]
      BY <2>1 DEF Claim, Exit, AtQueue
    <3>1. CASE pc[d] = "waiting"
      <4>1. d \in Waiters /\ Waiters' = Waiters \ {d}
        BY <2>0, <3>0, <3>1 DEF Waiters
      <4> QED BY <1>0, <3>0, <3>1, <4>1, OneLess DEF WaitingAfter, Waiters
    <3>2. CASE pc[d] # "waiting"
      BY <1>2, <2>0, <3>0, <3>2 DEF WaitingAfter
    <3> QED BY <3>1, <3>2
  <2>2. CASE Park(d)
    <3>0. /\ d \in Awake /\ waiting' = WaitingAfter(d) + 1
          /\ pc' = [pc EXCEPT ![d] = "waiting"] /\ waiting \in Nat
      BY <2>2 DEF Park, AtQueue, TypeOK
    <3>1. CASE pc[d] = "waiting"
      BY <1>2, <2>0, <3>0, <3>1 DEF WaitingAfter
    <3>2. CASE pc[d] # "waiting"
      <4>1. d \notin Waiters /\ Waiters' = Waiters \cup {d}
        BY <2>0, <3>0, <3>2 DEF Waiters
      <4> QED BY <1>0, <3>0, <3>2, <4>1, OneMore DEF WaitingAfter, Waiters
    <3> QED BY <3>1, <3>2
  <2>3. CASE Work(d) \/ Die(d)
    BY <1>2, <2>0, <2>3 DEF Work, Die, queue
  <2> QED BY <1>5, <2>1, <2>2, <2>3 DEF Draining
<1>6. ASSUME NEW d \in Drainers, SpuriousWakeup(d)
      PROVE  waiting' = Cardinality(Waiters')
  BY <1>2, <1>6 DEF SpuriousWakeup, queue, crew
<1>7. CASE Terminated
  BY <1>2, <1>7 DEF Terminated, vars, queue, crew
<1> QED BY <1>3, <1>4, <1>5, <1>6, <1>7 DEF Next

-----------------------------------------------------------------------------
(* The wake-up argument.  U is what nobody has claimed, a the number of     *)
(* threads on their way to the queue, p the number asleep and k the         *)
(* notifications still owed: k < p => U <= a + k.                           *)

LEMMA ParkedCount ==
  ASSUME TypeOK, Phases, WaitingCounts
  PROVE  /\ Cardinality(parked) <= waiting
         /\ Cardinality(parked) \in Nat /\ Cardinality(Awake) \in Nat
<1>1. IsFiniteSet(Waiters) BY Counted DEF Waiters
<1>2. parked \subseteq Waiters BY DEF Phases, Waiters, TypeOK
<1>3. Cardinality(parked) <= Cardinality(Waiters) BY <1>1, <1>2, FS_Subset
<1>4. parked \subseteq Drainers /\ Awake \subseteq Drainers
  BY DEF TypeOK, Awake
<1> QED BY <1>3, <1>4, Counted DEF WaitingCounts, Waiters

(* A batch is added and as many wake-ups are owed as there are sleepers to  *)
(* take them, or as there are new paths.                                    *)
LEMMA BatchWakes ==
  ASSUME TypeOK, Phases, WaitingCounts, NoUnderWake,
         NEW paths \in Seq(Files), step = "walk",
         PushBatch(paths), UNCHANGED <<parked, crew>>
  PROVE  NoUnderWake'
<1> DEFINE U == Unclaimed   a == Cardinality(Awake)
           p == Cardinality(parked)   k == Min2(waiting, Len(paths))
<1>1. /\ U' = U + Len(paths) /\ U \in Nat /\ Len(paths) \in Nat
      /\ permits' = k /\ permits = 0
  BY DEF PushBatch, Unclaimed, TypeOK, Wakeups, Phases
<1>2. Awake' = Awake /\ Cardinality(parked') = p
  BY DEF Awake, crew
<1>3. p <= waiting /\ p \in Nat /\ a \in Nat /\ waiting \in Nat
  BY ParkedCount DEF TypeOK
<1>4. 0 < p => U <= a
  BY <1>1, <1>3 DEF NoUnderWake
<1>5. k < p => U + Len(paths) <= a + k
  BY <1>1, <1>3, <1>4 DEF Min2
<1> QED BY <1>1, <1>2, <1>5 DEF NoUnderWake

LEMMA NextNoUnderWake ==
  TypeOK /\ Phases /\ WaitingCounts /\ NoUnderWake /\ Next => NoUnderWake'
<1> SUFFICES ASSUME TypeOK, Phases, WaitingCounts, NoUnderWake, Next
             PROVE  NoUnderWake'
  OBVIOUS
<1> DEFINE U == Unclaimed   a == Cardinality(Awake)
           p == Cardinality(parked)   k == permits
<1>0. /\ p \in Nat /\ a \in Nat /\ k \in Nat /\ U \in Nat
      /\ k < p => U <= a + k
      /\ Awake \in SUBSET Drainers /\ parked \in SUBSET Drainers
  BY ParkedCount DEF TypeOK, Unclaimed, NoUnderWake, Awake
<1>1. ASSUME UNCHANGED <<queued, next, permits, parked, pc>>
      PROVE  NoUnderWake'
  BY <1>1 DEF NoUnderWake, Unclaimed, Awake
\* a thread starts to run towards the queue, or leaves the wait set
<1>2. ASSUME NEW d \in Drainers, d \notin Awake, Awake' = Awake \cup {d},
             UNCHANGED <<queued, next>>, permits' = permits,
             parked' = parked \/ (d \in parked /\ parked' = parked \ {d})
      PROVE  NoUnderWake'
  <2>1. a' = a + 1 BY <1>0, <1>2, OneMore
  <2>2. p' \in Nat /\ (p' = p \/ p' = p - 1) BY <1>0, <1>2, OneLess, Counted
  <2>3. U' = U /\ k' = k BY <1>2 DEF Unclaimed
  <2>4. k' < p' => U' <= a' + k' BY <1>0, <2>1, <2>2, <2>3
  <2> QED BY <2>4 DEF NoUnderWake
<1>3. ASSUME NEW f \in Files, Discover(f) PROVE NoUnderWake'
  <2>1. CASE Len(batch) + 1 >= DiscoveryBatch
    <3>1. step = "walk" /\ PushBatch(Append(batch, f))
          /\ UNCHANGED <<parked, crew>>
      BY <1>3, <2>1 DEF Discover
    <3>2. Append(batch, f) \in Seq(Files) BY <1>3 DEF TypeOK
    <3> QED BY <3>1, <3>2, BatchWakes
  <2>2. CASE ~(Len(batch) + 1 >= DiscoveryBatch)
    BY <1>1, <1>3, <2>2 DEF Discover, queue, crew
  <2> QED BY <2>1, <2>2
<1>4. CASE Flush BY <1>4, BatchWakes DEF Flush, TypeOK
<1>5. CASE \/ \E f \in Files : TraversalError(f)
           \/ EndWalk \/ WalkRefused \/ WalkPanics
  BY <1>1, <1>5 DEF TraversalError, EndWalk, WalkRefused, WalkPanics,
                    queue, crew
<1>6. ASSUME NEW d \in Drainers,
             (d \in Workers /\ SpawnWorker(d)) \/ (d = Caller /\ Fallback)
      PROVE  NoUnderWake'
  <2>1. /\ pc[d] = "unborn" /\ pc' = [pc EXCEPT ![d] = "seeking"]
        /\ UNCHANGED <<queued, next, permits, parked>>
    BY <1>6 DEF SpawnWorker, Fallback, queue
  <2>2. d \notin Awake /\ Awake' = Awake \cup {d}
    BY <2>1 DEF Awake, TypeOK
  <2> QED BY <1>2, <2>1, <2>2
<1>7. CASE NotifyOne
  <2>1. CASE parked = {}
    <3>1. Cardinality(parked') = 0 BY <1>7, <2>1, FS_EmptySet DEF NotifyOne
    <3>2. permits' \in Nat BY <1>7 DEF NotifyOne, Phases, TypeOK
    <3> QED BY <3>1, <3>2 DEF NoUnderWake
  <2>2. CASE parked # {}
    <3>1. PICK d \in parked : parked' = parked \ {d}
      BY <1>7, <2>2 DEF NotifyOne
    <3>2. UNCHANGED <<queued, next, pc>> /\ k' = k - 1
      BY <1>7 DEF NotifyOne, queue, crew
    <3>3. d \notin Awake /\ Awake' = Awake \cup {d} /\ d \in Drainers
      BY <1>0, <3>1, <3>2 DEF Awake, Phases
    <3>4. a' = a + 1 BY <1>0, <3>3, OneMore
    <3>5. p' = p - 1 BY <1>0, <3>1, OneLess
    <3>6. U' = U BY <3>2 DEF Unclaimed
    <3>7. k' < p' => U' <= a' + k' BY <1>0, <3>2, <3>4, <3>5, <3>6
    <3> QED BY <3>7 DEF NoUnderWake
  <2> QED BY <2>1, <2>2
<1>8. CASE NotifyAll
  <2>1. Cardinality(parked') = 0 BY <1>8, FS_EmptySet DEF NotifyAll
  <2>2. permits' = permits BY <1>8 DEF NotifyAll
  <2> QED BY <1>0, <2>1, <2>2 DEF NoUnderWake
<1>9. CASE PoolIsUp \/ Finish \/ Close \/ Report \/ Crash
  BY <1>1, <1>9 DEF PoolIsUp, Finish, Close, Report, Crash, queue, crew
<1>10. ASSUME NEW d \in Drainers, Claim(d) PROVE NoUnderWake'
  <2>1. /\ d \in Awake /\ Awake' = Awake \ {d}
        /\ UNCHANGED <<parked, permits>> /\ U' = U - 1
    BY <1>10 DEF Claim, AtQueue, Awake, TypeOK, Unclaimed
  <2>2. a' = a - 1 BY <1>0, <2>1, OneLess
  <2>3. k' < p' => U' <= a' + k' BY <1>0, <2>1, <2>2
  <2> QED BY <2>3 DEF NoUnderWake
<1>11. ASSUME NEW d \in Drainers, Exit(d) \/ Park(d) PROVE NoUnderWake'
  <2>1. U' = 0 /\ k' = k
    BY <1>11 DEF Exit, Park, Unclaimed, TypeOK
  <2>2. Cardinality(Awake') \in Nat
    <3>1. Awake' \in SUBSET Drainers BY DEF Awake
    <3> QED BY <3>1, Counted
  <2>3. k' < p' => U' <= a' + k' BY <1>0, <2>1, <2>2
  <2> QED BY <2>3 DEF NoUnderWake
<1>12. ASSUME NEW d \in Drainers, Work(d) PROVE NoUnderWake'
  <2>1. /\ pc[d] = "working" /\ pc' = [pc EXCEPT ![d] = "seeking"]
        /\ UNCHANGED <<queued, next, permits, parked>>
    BY <1>12 DEF Work, queue
  <2>2. d \notin Awake /\ Awake' = Awake \cup {d}
    BY <2>1 DEF Awake, TypeOK
  <2> QED BY <1>2, <2>1, <2>2
<1>13. ASSUME NEW d \in Drainers, Die(d) PROVE NoUnderWake'
  <2>1. /\ UNCHANGED <<queued, next, permits, parked>>
        /\ Awake' = Awake
    BY <1>13 DEF Die, queue, Awake, TypeOK
  <2> QED BY <2>1 DEF NoUnderWake, Unclaimed
<1>14. ASSUME NEW d \in Drainers, SpuriousWakeup(d) PROVE NoUnderWake'
  <2>1. /\ d \in parked /\ parked' = parked \ {d}
        /\ UNCHANGED <<queued, next, permits, pc>>
    BY <1>14 DEF SpuriousWakeup, queue, crew
  <2>2. d \notin Awake /\ Awake' = Awake \cup {d}
    BY <2>1 DEF Awake, Phases
  <2> QED BY <1>2, <2>1, <2>2
<1>15. CASE Terminated
  BY <1>1, <1>15 DEF Terminated, vars, queue, crew
<1>16. CASE Collect \/ CollectRefused
  <2>1. parked = {} /\ parked' = parked
    BY <1>16 DEF Collect, CollectRefused, TypeOK, Phases
  <2>2. permits' = permits BY <1>16 DEF Collect, CollectRefused
  <2> QED BY <1>0, <2>1, <2>2, FS_EmptySet DEF NoUnderWake
<1> QED
  BY <1>3, <1>4, <1>5, <1>6, <1>7, <1>8, <1>9, <1>10, <1>11, <1>12, <1>13,
     <1>14, <1>15, <1>16 DEF Next, Walking, Calling, Draining, Drainers

-----------------------------------------------------------------------------
(* Claims: a position is handed out once, and what was handed out is held.  *)

LEMMA NextClaims ==
  /\ TypeOK /\ ClaimBounds /\ ClaimedOnce /\ ClaimsKept /\ Next
  => ClaimBounds' /\ ClaimedOnce' /\ ClaimsKept'
<1> SUFFICES ASSUME TypeOK, ClaimBounds, ClaimedOnce, ClaimsKept, Next
             PROVE  ClaimBounds' /\ ClaimedOnce' /\ ClaimsKept'
  OBVIOUS
<1>0. /\ claim \in [Drainers -> Nat] /\ next \in Nat
      /\ outcomes \in [Drainers -> SUBSET (Nat \X Outcomes)]
      /\ pc \in [Drainers -> {"unborn", "seeking", "waiting", "working",
                              "exited", "dead"}]
  BY DEF TypeOK
\* steps that claim, finish and lose nothing
<1>1. ASSUME UNCHANGED <<claim, outcomes, next>>,
             \A d \in Drainers : /\ pc'[d] = "working" <=> pc[d] = "working"
                                 /\ pc'[d] = "dead" <=> pc[d] = "dead"
      PROVE  ClaimBounds' /\ ClaimedOnce' /\ ClaimsKept'
  <2>1. \A d \in Drainers : Holds(d)' = Holds(d) BY <1>1 DEF Holds
  <2>2. Dead' = Dead BY <1>1 DEF Dead
  <2>3. ClaimBounds' BY <1>1, <2>1 DEF ClaimBounds
  <2>4. ClaimedOnce' BY <1>1, <2>1 DEF ClaimedOnce
  <2>5. ClaimsKept' BY <1>1, <2>1, <2>2 DEF ClaimsKept
  <2> QED BY <2>3, <2>4, <2>5
<1>2. CASE Walking
  <2>1. UNCHANGED <<claim, outcomes, next, pc>>
    BY <1>2 DEF Walking, Discover, PushBatch, TraversalError, Flush, EndWalk,
                WalkRefused, WalkPanics, Collect, CollectRefused, queue, crew
  <2> QED BY <1>1, <2>1
<1>3. CASE Calling
  <2>1. UNCHANGED <<claim, outcomes, next>>
    BY <1>3 DEF Calling, SpawnWorker, Fallback, PoolIsUp, NotifyOne, Finish,
                NotifyAll, Close, Report, Crash, queue, crew
  <2>2. \A d \in Drainers : /\ pc'[d] = "working" <=> pc[d] = "working"
                            /\ pc'[d] = "dead" <=> pc[d] = "dead"
    BY <1>0, <1>3 DEF Calling, SpawnWorker, Fallback, PoolIsUp, NotifyOne,
                      Finish, NotifyAll, Close, Report, Crash, crew, Drainers
  <2> QED BY <1>1, <2>1, <2>2
<1>4. ASSUME NEW d \in Drainers, Claim(d)
      PROVE  ClaimBounds' /\ ClaimedOnce' /\ ClaimsKept'
  <2>1. /\ claim' = [claim EXCEPT ![d] = next + 1] /\ next' = next + 1
        /\ outcomes' = outcomes /\ pc' = [pc EXCEPT ![d] = "working"]
        /\ pc[d] # "working" /\ pc[d] # "dead"
    BY <1>4 DEF Claim, AtQueue, Awake
  <2>2. claim[d] = 0 BY <1>0, <2>1 DEF ClaimBounds
  <2>3. Holds(d)' = Holds(d) \cup {next + 1}
    BY <1>0, <2>1, <2>2 DEF Holds
  <2>4. \A e \in Drainers \ {d} : Holds(e)' = Holds(e)
    BY <1>0, <2>1 DEF Holds
  <2>5. \A e \in Drainers : Holds(e) \subseteq 1..next /\ next + 1 \notin Holds(e)
    BY <1>0 DEF ClaimBounds
  <2>6. ClaimBounds' BY <1>0, <2>1, <2>3, <2>4, <2>5 DEF ClaimBounds
  <2>7. ClaimedOnce'
    <3>1. \A e1, e2 \in Drainers :
             e1 # e2 => Holds(e1)' \cap Holds(e2)' = {}
      BY <2>3, <2>4, <2>5 DEF ClaimedOnce
    <3>2. claim'[d] \notin {c[1] : c \in outcomes[d]}
      BY <1>0, <2>1, <2>5 DEF Holds
    <3>3. \A e \in Drainers : claim'[e] \notin {c[1] : c \in outcomes'[e]}
      BY <1>0, <2>1, <3>2 DEF ClaimedOnce
    <3> QED BY <2>1, <3>1, <3>3 DEF ClaimedOnce
  <2>8. ClaimsKept'
    <3>1. Dead' = Dead BY <1>0, <2>1 DEF Dead
    <3>2. 1..next' = 1..next \cup {next + 1} BY <1>0, <2>1
    <3> QED BY <2>3, <2>4, <3>1, <3>2 DEF ClaimsKept
  <2> QED BY <2>6, <2>7, <2>8
<1>5. ASSUME NEW d \in Drainers, Work(d)
      PROVE  ClaimBounds' /\ ClaimedOnce' /\ ClaimsKept'
  <2> DEFINE o == <<claim[d], FormatFile(disk[queued[claim[d]]], mode)>>
  <2>1. /\ claim' = [claim EXCEPT ![d] = 0] /\ next' = next
        /\ outcomes' = [outcomes EXCEPT ![d] = @ \cup {o}]
        /\ pc' = [pc EXCEPT ![d] = "seeking"] /\ pc[d] = "working"
    BY <1>5 DEF Work, queue
  <2>2. claim[d] # 0 BY <2>1 DEF ClaimBounds
  <2> HIDE DEF o
  <2>3. o[1] = claim[d] BY DEF o
  <2>4. outcomes'[d] = outcomes[d] \cup {o} /\ claim'[d] = 0
    BY <1>0, <2>1
  <2>5. Holds(d)' = Holds(d) BY <2>2, <2>3, <2>4 DEF Holds
  <2>6. \A e \in Drainers \ {d} : Holds(e)' = Holds(e)
    BY <1>0, <2>1 DEF Holds
  <2>7. \A e \in Drainers : Holds(e)' = Holds(e) BY <2>5, <2>6
  <2>8. ClaimBounds' BY <1>0, <2>1, <2>7 DEF ClaimBounds
  <2>9. ClaimedOnce'
    <3>1. \A e1, e2 \in Drainers :
             e1 # e2 => Holds(e1)' \cap Holds(e2)' = {}
      BY <2>7 DEF ClaimedOnce
    <3>2. \A c1, c2 \in outcomes'[d] : c1[1] = c2[1] => c1 = c2
      BY <2>3, <2>4 DEF ClaimedOnce
    <3>3. 0 \notin {c[1] : c \in outcomes'[d]}
      <4>1. {c[1] : c \in outcomes'[d]} \subseteq Holds(d)' BY DEF Holds
      <4>2. Holds(d) \subseteq 1..next BY DEF ClaimBounds
      <4> QED BY <1>0, <2>5, <4>1, <4>2
    <3>4. \A e \in Drainers \ {d} : /\ claim'[e] = claim[e]
                                    /\ outcomes'[e] = outcomes[e]
      BY <1>0, <2>1
    <3> QED BY <2>4, <3>1, <3>2, <3>3, <3>4 DEF ClaimedOnce
  <2>10. ClaimsKept'
    <3>1. Dead' = Dead BY <1>0, <2>1 DEF Dead
    <3> QED BY <2>1, <2>7, <3>1 DEF ClaimsKept
  <2> QED BY <2>8, <2>9, <2>10
<1>6. ASSUME NEW d \in Drainers, Die(d)
      PROVE  ClaimBounds' /\ ClaimedOnce' /\ ClaimsKept'
  <2>1. /\ claim' = [claim EXCEPT ![d] = 0] /\ next' = next
        /\ outcomes' = outcomes /\ pc' = [pc EXCEPT ![d] = "dead"]
    BY <1>6 DEF Die, queue
  <2>2. \A e \in Drainers : Holds(e)' \subseteq Holds(e)
    BY <1>0, <2>1 DEF Holds
  <2>3. d \in Dead' BY <1>0, <2>1 DEF Dead
  <2>4. ClaimBounds'
    <3>1. \A e \in Drainers : Holds(e)' \subseteq 1..next'
      BY <2>1, <2>2 DEF ClaimBounds
    <3> QED BY <1>0, <2>1, <3>1 DEF ClaimBounds
  <2>5. ClaimedOnce'
    <3>1. \A e1, e2 \in Drainers :
             e1 # e2 => Holds(e1)' \cap Holds(e2)' = {}
      BY <2>2 DEF ClaimedOnce
    <3>2. \A e \in Drainers : claim'[e] \notin {c[1] : c \in outcomes[e]}
      <4>1. 0 \notin {c[1] : c \in outcomes[d]}
        <5>1. {c[1] : c \in outcomes[d]} \subseteq 1..next
          BY DEF Holds, ClaimBounds
        <5> QED BY <1>0, <5>1
      <4> QED BY <1>0, <2>1, <4>1 DEF ClaimedOnce
    <3> QED BY <2>1, <3>1, <3>2 DEF ClaimedOnce
  <2>6. ClaimsKept' BY <2>3 DEF ClaimsKept
  <2> QED BY <2>4, <2>5, <2>6
<1>7. ASSUME NEW d \in Drainers, Exit(d) \/ Park(d) \/ SpuriousWakeup(d)
      PROVE  ClaimBounds' /\ ClaimedOnce' /\ ClaimsKept'
  <2>1. UNCHANGED <<claim, outcomes, next>>
    BY <1>7 DEF Exit, Park, SpuriousWakeup, queue, crew
  <2>2. \A e \in Drainers : /\ pc'[e] = "working" <=> pc[e] = "working"
                            /\ pc'[e] = "dead" <=> pc[e] = "dead"
    BY <1>0, <1>7 DEF Exit, Park, SpuriousWakeup, AtQueue, Awake, crew
  <2> QED BY <1>1, <2>1, <2>2
<1>8. CASE Terminated
  BY <1>1, <1>8 DEF Terminated, vars, queue, crew
<1> QED
  BY <1>2, <1>3, <1>4, <1>5, <1>6, <1>7, <1>8 DEF Next, Draining

-----------------------------------------------------------------------------
LEMMA InitQueueInv == Init => QueueInv
<1> SUFFICES ASSUME Init PROVE QueueInv
  OBVIOUS
<1>1. TypeOK BY InitType
<1>2. Phases BY DEF Init, Phases, Sealed, Drainers
<1>3. \A d \in Drainers : Holds(d) = {} BY DEF Init, Holds
<1>4. ClaimBounds /\ ClaimedOnce BY <1>3 DEF Init, ClaimBounds, ClaimedOnce
<1>5. ClaimsKept BY DEF Init, ClaimsKept
<1>6. {d \in Drainers : pc[d] = "waiting"} = {} BY DEF Init
<1>7. WaitingCounts BY <1>6, FS_EmptySet DEF Init, WaitingCounts
<1>8. NoUnderWake BY FS_EmptySet DEF Init, NoUnderWake
<1> QED BY <1>1, <1>2, <1>4, <1>5, <1>7, <1>8 DEF QueueInv

LEMMA NextQueueInv == QueueInv /\ [Next]_vars => QueueInv'
<1> SUFFICES ASSUME QueueInv, [Next]_vars PROVE QueueInv'
  OBVIOUS
<1>1. CASE Next
  BY <1>1, NextType, NextPhases, NextWaitingCounts, NextNoUnderWake,
     NextClaims DEF QueueInv
<1>2. CASE UNCHANGED vars
  <2> USE <1>2 DEF vars, walk, queue, crew, final, QueueInv
  <2>1. TypeOK' BY DEF TypeOK
  <2>2. Phases' BY DEF Phases
  <2>3. \A d \in Drainers : Holds(d)' = Holds(d) BY DEF Holds
  <2>4. ClaimBounds' /\ ClaimedOnce' /\ ClaimsKept'
    BY <2>3 DEF ClaimBounds, ClaimedOnce, ClaimsKept, Dead
  <2>5. WaitingCounts' BY DEF WaitingCounts
  <2>6. NoUnderWake' BY DEF NoUnderWake, Unclaimed, Awake
  <2> QED BY <2>1, <2>2, <2>4, <2>5, <2>6
<1> QED BY <1>1, <1>2

(* The inductive invariant holds for any number of files and workers.       *)
THEOREM QueueInvariant == Spec => []QueueInv
<1>1. Init => QueueInv BY InitQueueInv
<1>2. QueueInv /\ [Next]_vars => QueueInv' BY NextQueueInv
<1> QED BY <1>1, <1>2, PTL DEF Spec

(* Types, for any number of files and workers.                              *)
THEOREM TypeCorrect == Spec => []TypeOK
<1>1. QueueInv => TypeOK BY DEF QueueInv
<1> QED BY <1>1, QueueInvariant, PTL

(* No file is handed to two threads, none twice (FileQueue::claim).         *)
THEOREM ClaimsAreExclusive == Spec => []ClaimedOnce
<1>1. QueueInv => ClaimedOnce BY DEF QueueInv
<1> QED BY <1>1, QueueInvariant, PTL

(* A file handed out is worked on or done, unless its thread died.          *)
THEOREM NoClaimForgotten == Spec => []ClaimsKept
<1>1. QueueInv => ClaimsKept BY DEF QueueInv
<1> QED BY <1>1, QueueInvariant, PTL

(* push_batch's "under-waking is safe", for any pool and any walk.          *)
THEOREM UnderWakingIsSafe == Spec => []NoUnderWake
<1>1. QueueInv => NoUnderWake BY DEF QueueInv
<1> QED BY <1>1, QueueInvariant, PTL

(* finish leaves nobody parked, on the normal way out and on the unwinding. *)
THEOREM FinishReleasesAll == Spec => []NoSleeperAfterFinish
<1>1. QueueInv => NoSleeperAfterFinish
  BY DEF QueueInv, Phases, NoSleeperAfterFinish, Sealed
<1> QED BY <1>1, QueueInvariant, PTL

-----------------------------------------------------------------------------
(* The report, the exit status and the refinement.                         *)

\* the files in the order the walk found them; a key's position counts in it
Walked == queued \o batch

\* The keys are the walk's files, each position once, in any order.
KeysOfWalk ==
    /\ Len(keys) = Len(Walked)
    /\ \A k \in 1..Len(keys) :
          /\ keys[k][2] \in 1..Len(keys)
          /\ keys[k][1] = Rank[Walked[keys[k][2]]]
    /\ \A i \in 1..Len(keys) : \E k \in 1..Len(keys) : keys[k][2] = i
    /\ \A i \in 1..Len(keys) : Walked[i] \in scope

\* Without a traversal error the walk has found, or will visit, all of scope.
Accounts ==
    errors = 0 => \A f \in scope : \/ f \in unvisited
                                   \/ \E i \in 1..Len(keys) : Walked[i] = f

\* Where the calling thread is, and what it has done by then.
Course ==
    /\ done => step \notin {"spawn", "collect", "walk", "notify"}
    /\ step = "collect" => keys = <<>> /\ queued = <<>> /\ batch = <<>>
    /\ step \in {"finish", "wake", "close", "join", "crew", "gather", "tell"}
          /\ ~unwinding /\ ~badArgs => batch = <<>> /\ unvisited = {}
    /\ step \in {"join", "crew", "gather", "tell"} => InKeyOrder(keys)
    /\ unwinding => step \in {"finish", "wake", "scope", "end"}
    /\ step = "scope" => unwinding
    /\ step = "tell" => keys = <<>> /\ \A d \in Drainers : pc[d] = "unborn"
    /\ step = "end" => Joined
    /\ exit \in {0, 1} => step = "end"

\* what an outcome says of a file
Tells(o, content, m) ==
    \/ o = "Unchanged" /\ content = "formatted"
    \/ o = "Changed" /\ m = "Write" /\ content = "formatted"
    \/ o = "Changed" /\ m = "Check" /\ content \in {"unformatted", "readonly"}
    \/ o = "Error" /\ content \in {"broken", "unreadable", "readonly"}

OutcomesTrue ==
    \A d \in Drainers : \A c \in outcomes[d] : Tells(c[2], disk[queued[c[1]]], mode)

\* A thread leaves the claim loop only when everything was claimed.
ExitedDone ==
    \A d \in Drainers : pc[d] = "exited" => done /\ next = Len(queued)

\* A thread that died took a position with it.
DeadLose ==
    Dead # {} => \E i \in 1..next : \A e \in Drainers \ Dead : i \notin Holds(e)

ReportInv ==
    /\ QueueInv /\ KeysOfWalk /\ Accounts /\ Course
    /\ OutcomesTrue /\ ExitedDone /\ DeadLose
    /\ ReportFaithful /\ ExitTells

-----------------------------------------------------------------------------
(* The walk's list: what a hand-over and a new file make of it.             *)

LEMMA WalkedIs ==
  ASSUME NEW q \in Seq(Files), NEW b \in Seq(Files)
  PROVE  /\ q \o b \in Seq(Files) /\ Len(q \o b) = Len(q) + Len(b)
         /\ \A i \in 1..Len(q \o b) :
               (q \o b)[i] = IF i <= Len(q) THEN q[i] ELSE b[i - Len(q)]
  OBVIOUS

LEMMA HandedOver ==
  ASSUME NEW q \in Seq(Files), NEW b \in Seq(Files)
  PROVE  (q \o b) \o <<>> = q \o b
  OBVIOUS

LEMMA FoundOne ==
  ASSUME NEW q \in Seq(Files), NEW b \in Seq(Files), NEW f \in Files
  PROVE  LET w == q \o b
             v == q \o Append(b, f) IN
         /\ Len(v) = Len(w) + 1 /\ v[Len(w) + 1] = f
         /\ \A i \in 1..Len(w) : v[i] = w[i]
  OBVIOUS

(* A sort permutes: no position is left out.                                *)
LEMMA ShuffleOnto ==
  ASSUME NEW n \in Nat, NEW p \in Shuffles(n)
  PROVE  /\ p \in [1..n -> 1..n]
         /\ \A i \in 1..n : \E k \in 1..n : p[k] = i
<1>1. p \in Injection(1..n, 1..n) BY DEF Shuffles, Injection, IsInjective
<1>2. IsFiniteSet(1..n) BY FS_Interval
<1>3. p \in Surjection(1..n, 1..n) BY <1>1, <1>2, FS_Injection
<1> QED BY <1>3 DEF Shuffles, Surjection

\* the facts about the walk's list depend on these alone
LEMMA SameWalk ==
  ASSUME KeysOfWalk, Accounts,
         UNCHANGED <<keys, queued, batch, scope, unvisited, errors>>
  PROVE  KeysOfWalk' /\ Accounts'
  BY DEF KeysOfWalk, Accounts, Walked

LEMMA DiscoverWalk ==
  ASSUME TypeOK, NEW f \in Files, Discover(f)
  PROVE  Walked' = queued \o Append(batch, f)
<1>0. queued \in Seq(Files) /\ batch \in Seq(Files) BY DEF TypeOK
<1>1. CASE Len(batch) + 1 >= DiscoveryBatch
  <2>1. queued' = queued \o Append(batch, f) /\ batch' = <<>>
    BY <1>1 DEF Discover, PushBatch
  <2>2. Append(batch, f) \in Seq(Files) BY <1>0
  <2>3. queued' \in Seq(Files) BY <1>0, <2>1, <2>2
  <2> QED BY <2>1, <2>3 DEF Walked
<1>2. CASE ~(Len(batch) + 1 >= DiscoveryBatch)
  BY <1>2 DEF Discover, Walked, queue
<1> QED BY <1>1, <1>2

LEMMA DiscoverKeys ==
  ASSUME TypeOK, KeysOfWalk, Accounts, NEW f \in Files, Discover(f)
  PROVE  KeysOfWalk' /\ Accounts'
<1> DEFINE n == Len(keys)
<1>0. keys \in Seq(Nat \X Nat) /\ queued \in Seq(Files) /\ batch \in Seq(Files)
      /\ Rank[f] \in Nat /\ n \in Nat /\ errors \in Nat
  BY RankAssumption DEF TypeOK
<1>1. Walked' = queued \o Append(batch, f) BY DiscoverWalk
<1>2. /\ Len(Walked') = n + 1 /\ Walked'[n + 1] = f
      /\ \A i \in 1..n : Walked'[i] = Walked[i]
  BY SMTT(60), <1>0, <1>1, FoundOne DEF KeysOfWalk, Walked
<1>3. /\ Len(keys') = n + 1 /\ keys'[n + 1] = <<Rank[f], n + 1>>
      /\ \A k \in 1..n : keys'[k] = keys[k]
  BY <1>0 DEF Discover
<1>4. f \in unvisited /\ unvisited' = unvisited \ {f} /\ scope' = scope
      /\ unvisited \subseteq scope /\ errors' = errors
  BY DEF Discover, TypeOK
<1>5. 1..(n + 1) = 1..n \cup {n + 1} BY <1>0
<1> HIDE DEF n
<1>6. KeysOfWalk'
  <2> SUFFICES
        /\ \A k \in 1..(n + 1) : /\ keys'[k][2] \in 1..(n + 1)
                                 /\ keys'[k][1] = Rank[Walked'[keys'[k][2]]]
        /\ \A i \in 1..(n + 1) : \E k \in 1..(n + 1) : keys'[k][2] = i
        /\ \A i \in 1..(n + 1) : Walked'[i] \in scope'
    BY <1>2, <1>3 DEF KeysOfWalk
  <2>1. ASSUME NEW k \in 1..(n + 1)
        PROVE  keys'[k][2] \in 1..(n + 1) /\ keys'[k][1] = Rank[Walked'[keys'[k][2]]]
    <3>1. CASE k \in 1..n
      <4>1. keys[k][2] \in 1..n /\ keys[k][1] = Rank[Walked[keys[k][2]]]
        BY <3>1 DEF KeysOfWalk, n
      <4>2. keys'[k] = keys[k] BY <1>3, <3>1
      <4>3. Walked'[keys[k][2]] = Walked[keys[k][2]] BY <1>2, <4>1
      <4> QED BY <1>5, <4>1, <4>2, <4>3
    <3>2. CASE k = n + 1 BY <1>2, <1>3, <1>5, <3>2
    <3> QED BY <1>5, <3>1, <3>2
  <2>2. ASSUME NEW i \in 1..(n + 1)
        PROVE  \E k \in 1..(n + 1) : keys'[k][2] = i
    <3>1. CASE i \in 1..n
      <4>1. PICK k \in 1..n : keys[k][2] = i BY <3>1 DEF KeysOfWalk, n
      <4> QED BY <1>3, <1>5, <4>1
    <3>2. CASE i = n + 1 BY <1>3, <1>5, <3>2
    <3> QED BY <1>5, <3>1, <3>2
  <2>3. \A i \in 1..(n + 1) : Walked'[i] \in scope'
    BY <1>2, <1>4, <1>5 DEF KeysOfWalk, n
  <2> QED BY <2>1, <2>2, <2>3
<1>7. Accounts'
  <2> SUFFICES ASSUME errors = 0, NEW g \in scope
               PROVE  g \in unvisited' \/ \E i \in 1..(n + 1) : Walked'[i] = g
    BY <1>3, <1>4 DEF Accounts
  <2>1. CASE g = f BY <1>2, <1>5, <2>1
  <2>2. CASE g # f /\ g \notin unvisited
    <3>1. PICK i \in 1..n : Walked[i] = g BY <2>2 DEF Accounts, n
    <3> QED BY <1>2, <1>5, <3>1
  <2>3. CASE g # f /\ g \in unvisited BY <1>4, <2>3
  <2> QED BY <2>1, <2>2, <2>3
<1> QED BY <1>6, <1>7

LEMMA FlushKeys ==
  ASSUME TypeOK, KeysOfWalk, Accounts, Flush
  PROVE  KeysOfWalk' /\ Accounts'
<1>1. queued \in Seq(Files) /\ batch \in Seq(Files) BY DEF TypeOK
<1>2. queued' = queued \o batch /\ batch' = <<>> BY DEF Flush, PushBatch
<1>3. Walked' = Walked BY <1>1, <1>2, HandedOver DEF Walked
<1>4. UNCHANGED <<keys, scope, unvisited, errors>> BY DEF Flush
<1> QED BY <1>3, <1>4 DEF KeysOfWalk, Accounts

LEMMA TraversalErrorKeys ==
  ASSUME TypeOK, KeysOfWalk, Accounts, NEW f \in Files, TraversalError(f)
  PROVE  KeysOfWalk' /\ Accounts'
<1>1. UNCHANGED <<keys, scope, queued, batch>> /\ errors' = errors + 1 /\ errors \in Nat
  BY DEF TraversalError, queue, TypeOK
<1>2. KeysOfWalk' BY <1>1 DEF KeysOfWalk, Walked
<1>3. errors' # 0 BY <1>1
<1> QED BY <1>2, <1>3 DEF Accounts

(* A collected list: a traversal error for each file of scope it misses.    *)
LEMMA CollectKeys ==
  ASSUME TypeOK, KeysOfWalk, Course, Collect
  PROVE  KeysOfWalk' /\ Accounts'
<1>1. PICK found \in SUBSET scope :
        \E files \in [1..Cardinality(found) -> found] :
            /\ \A f \in found : \E k \in DOMAIN files : files[k] = f
            /\ keys' = [k \in DOMAIN files |-> <<Rank[files[k]], k>>]
            /\ queued' = files
            /\ errors' = Cardinality(scope \ found)
  BY DEF Collect
<1>2. PICK files \in [1..Cardinality(found) -> found] :
            /\ \A f \in found : \E k \in DOMAIN files : files[k] = f
            /\ keys' = [k \in DOMAIN files |-> <<Rank[files[k]], k>>]
            /\ queued' = files
            /\ errors' = Cardinality(scope \ found)
  BY <1>1
<1>3. IsFiniteSet(found) /\ IsFiniteSet(scope \ found) /\ Cardinality(found) \in Nat
  BY FilesAssumption, FS_Subset, FS_CardinalityType DEF TypeOK
<1> DEFINE n == Cardinality(found)
<1>4. /\ n \in Nat /\ files \in Seq(Files) /\ Len(files) = n
      /\ DOMAIN files = 1..n
  <2>1. files \in [1..n -> Files] /\ n \in Nat BY <1>2, <1>3 DEF TypeOK
  <2> HIDE DEF n
  <2> QED BY <2>1
<1>5. batch' = <<>> BY DEF Collect, Course
<1>6. Walked' = files
  BY <1>2, <1>4, <1>5 DEF Walked
<1>7. Len(keys') = n /\ \A k \in 1..n : keys'[k] = <<Rank[files[k]], k>>
  BY <1>2, <1>4
<1>8. scope' = scope /\ \A k \in 1..n : files[k] \in scope
  BY <1>2, <1>4 DEF Collect
<1>9. errors' = 0 => scope = found
  <2>1. Cardinality(scope \ found) = 0 <=> scope \ found = {}
    BY <1>3, FS_EmptySet
  <2> QED BY <1>2, <2>1
<1> HIDE DEF n
<1>10. KeysOfWalk' BY <1>4, <1>6, <1>7, <1>8 DEF KeysOfWalk
<1>11. Accounts' BY <1>2, <1>4, <1>6, <1>7, <1>8, <1>9 DEF Accounts
<1> QED BY <1>10, <1>11

LEMMA CloseKeys ==
  ASSUME TypeOK, KeysOfWalk, Accounts, Close
  PROVE  KeysOfWalk' /\ Accounts'
<1> DEFINE n == Len(keys)
<1>0. n \in Nat /\ keys \in Seq(Nat \X Nat) BY DEF TypeOK
<1>1. PICK p \in Shuffles(n) : keys' = [k \in 1..n |-> keys[p[k]]] BY DEF Close
<1>2. /\ p \in [1..n -> 1..n] /\ \A i \in 1..n : \E k \in 1..n : p[k] = i
  BY <1>0, ShuffleOnto
<1>3. Len(keys') = n /\ \A k \in 1..n : keys'[k] = keys[p[k]] BY <1>0, <1>1
<1>4. Walked' = Walked /\ UNCHANGED <<scope, unvisited, errors>>
  BY DEF Close, Walked, queue
<1> HIDE DEF n
<1>5. \A i \in 1..n : \E k \in 1..n : keys'[k][2] = i
  <2> SUFFICES ASSUME NEW i \in 1..n PROVE \E k \in 1..n : keys'[k][2] = i
    OBVIOUS
  <2>1. PICK j \in 1..n : keys[j][2] = i BY DEF KeysOfWalk, n
  <2>2. PICK k \in 1..n : p[k] = j BY <1>2
  <2> QED BY <1>3, <2>1, <2>2
<1>6. \A k \in 1..n : /\ keys'[k][2] \in 1..n
                      /\ keys'[k][1] = Rank[Walked[keys'[k][2]]]
  <2> SUFFICES ASSUME NEW k \in 1..n
               PROVE  keys'[k][2] \in 1..n /\ keys'[k][1] = Rank[Walked[keys'[k][2]]]
    OBVIOUS
  <2>1. p[k] \in 1..n /\ keys'[k] = keys[p[k]] BY <1>2, <1>3
  <2> QED BY ZenonT(60), <2>1 DEF KeysOfWalk, n
<1>7. KeysOfWalk' BY <1>3, <1>4, <1>5, <1>6 DEF KeysOfWalk, n
<1> QED BY <1>3, <1>4, <1>7 DEF Accounts, n

LEMMA NextKeys ==
  ASSUME TypeOK, KeysOfWalk, Accounts, Course, Next
  PROVE  KeysOfWalk' /\ Accounts'
<1>1. CASE Walking
  <2>1. CASE EndWalk \/ WalkRefused \/ WalkPanics \/ CollectRefused
    <3>1. UNCHANGED <<keys, queued, batch, scope, unvisited, errors>>
      BY <2>1 DEF EndWalk, WalkRefused, WalkPanics, CollectRefused, walk, queue
    <3> QED BY <3>1, SameWalk
  <2> QED BY <1>1, <2>1, DiscoverKeys, FlushKeys, TraversalErrorKeys, CollectKeys
          DEF Walking
<1>2. CASE Calling
  <2>1. CASE ~Close
    <3>1. UNCHANGED <<keys, queued, batch, scope, unvisited, errors>>
      BY <1>2, <2>1 DEF Calling, SpawnWorker, PoolIsUp, NotifyOne, Finish, NotifyAll,
                        Fallback, Report, Crash, walk, queue
    <3> QED BY <3>1, SameWalk
  <2> QED BY <2>1, CloseKeys
<1>3. ASSUME NEW d \in Drainers, Draining(d) \/ SpuriousWakeup(d)
      PROVE  KeysOfWalk' /\ Accounts'
  <2>1. UNCHANGED <<keys, queued, batch, scope, unvisited, errors>>
    BY <1>3 DEF Draining, Claim, Exit, Park, Work, Die, SpuriousWakeup, walk, queue
  <2> QED BY <2>1, SameWalk
<1>4. CASE Terminated
  BY <1>4, SameWalk DEF Terminated, vars, walk, queue
<1> QED BY <1>1, <1>2, <1>3, <1>4 DEF Next

-----------------------------------------------------------------------------
(* The course of the calling thread.                                        *)

LEMMA WalkingCourse ==
  ASSUME TypeOK, Phases, KeysOfWalk, Course, Walking
  PROVE  Course'
<1> USE DEF Course
<1>0. keys = <<>> => batch = <<>> /\ InKeyOrder(keys)
  <2>1. ASSUME keys = <<>> PROVE Len(batch) = 0
    <3>1. queued \in Seq(Files) /\ batch \in Seq(Files) BY DEF TypeOK
    <3>2. Len(queued \o batch) = 0 BY <2>1 DEF KeysOfWalk, Walked
    <3> QED BY <3>1, <3>2
  <2>2. keys = <<>> => InKeyOrder(keys) BY DEF InKeyOrder
  <2> QED BY <2>1, <2>2 DEF TypeOK
<1>1. ASSUME NEW f \in Files, Discover(f) PROVE Course'
  <2>1. step' \in {"walk", "notify"} /\ step = "walk" /\ exit' = exit
        /\ unwinding' = unwinding /\ done' = done
    BY <1>1 DEF Discover, PushBatch, queue, final
  <2> QED BY <2>1
<1>2. ASSUME NEW f \in Files, TraversalError(f) PROVE Course'
  BY <1>2 DEF TraversalError, queue, final
<1>3. CASE Flush
  <2>1. step' \in {"walk", "notify"} /\ step = "walk" /\ exit' = exit
        /\ unwinding' = unwinding /\ done' = done
    BY <1>3 DEF Flush, PushBatch, final
  <2> QED BY <2>1
<1>4. CASE EndWalk BY <1>4 DEF EndWalk, walk, queue, final
<1>5. CASE WalkRefused BY <1>5 DEF WalkRefused, queue, final
<1>6. CASE WalkPanics BY <1>6 DEF WalkPanics, walk, queue, final
<1>7. CASE Collect
  <2>1. step' \in {"tell", "crew"} /\ step = "collect" /\ exit' = exit /\ pc' = pc
        /\ unwinding' = unwinding /\ batch' = batch /\ unvisited' = {}
        /\ InKeyOrder(keys')
    BY <1>7 DEF Collect, crew, final
  <2>2. step' = "tell" => keys' = <<>>
    <3> SUFFICES ASSUME step' = "tell" PROVE keys' = <<>>
      OBVIOUS
    <3>1. queued' = <<>> BY <1>7 DEF Collect
    <3>2. PICK files : /\ queued' = files
                       /\ keys' = [k \in DOMAIN files |-> <<Rank[files[k]], k>>]
      BY <1>7 DEF Collect
    <3> QED BY <3>1, <3>2
  <2>3. \A d \in Drainers : pc[d] = "unborn" BY <2>1 DEF Phases
  <2> QED BY <2>1, <2>2, <2>3
<1>8. CASE CollectRefused
  <2>1. step' = "tell" /\ step = "collect" /\ exit' = exit /\ pc' = pc /\ badArgs'
        /\ unwinding' = unwinding /\ keys' = keys /\ keys = <<>>
    BY <1>8 DEF CollectRefused, crew, final
  <2>2. \A d \in Drainers : pc[d] = "unborn" BY <2>1 DEF Phases
  <2> QED BY <1>0, <2>1, <2>2
<1> QED BY <1>1, <1>2, <1>3, <1>4, <1>5, <1>6, <1>7, <1>8 DEF Walking

LEMMA CallingCourse ==
  ASSUME TypeOK, Phases, Course, Calling
  PROVE  Course'
<1> USE DEF Course, walk, queue, crew, final
<1>1. ASSUME NEW w \in Workers, SpawnWorker(w) PROVE Course'
  BY <1>1 DEF SpawnWorker, MayWiden
<1>2. CASE PoolIsUp \/ NotifyOne \/ Finish \/ NotifyAll
  BY <1>2 DEF PoolIsUp, NotifyOne, Finish, NotifyAll
<1>3. CASE Close BY <1>3 DEF Close
<1>4. CASE Fallback BY <1>4 DEF Fallback
<1>5. CASE Report
  <2>1. step' = "end" /\ pc' = pc /\ ~unwinding /\ unwinding' = unwinding
        /\ \A d \in Drainers : pc[d] \in {"unborn", "exited", "dead"}
    BY <1>5 DEF Report, Joined
  <2> QED BY <2>1 DEF Joined
<1>6. CASE Crash
  <2>1. step' = "end" /\ pc' = pc /\ Joined BY <1>6 DEF Crash
  <2> QED BY <2>1 DEF Joined
<1> QED BY <1>1, <1>2, <1>3, <1>4, <1>5, <1>6 DEF Calling

\* a thread that runs keeps the report from being read out
LEMMA Busy ==
  ASSUME Phases, Course, NEW d \in Drainers,
         pc[d] \in {"seeking", "waiting", "working"}
  PROVE  step \notin {"end", "tell", "collect"}
  BY DEF Phases, Course, Joined

LEMMA DrainingCourse ==
  ASSUME TypeOK, Phases, Course, NEW d \in Drainers,
         Draining(d) \/ SpuriousWakeup(d)
  PROVE  Course'
<1> USE DEF Course, walk, queue, crew, final
<1>0. pc[d] \in {"seeking", "waiting", "working"}
  BY DEF Draining, Claim, Exit, Park, Work, Die, SpuriousWakeup, AtQueue, Awake, Phases
<1>1. step \notin {"end", "tell", "collect"} BY <1>0, Busy
<1>2. CASE Claim(d) \/ Exit(d) \/ Park(d) \/ Work(d) \/ SpuriousWakeup(d)
  <2>1. UNCHANGED <<walk, step, queued, done, unwinding, final>>
    BY <1>2 DEF Claim, Exit, Park, Work, SpuriousWakeup
  <2> QED BY <1>1, <2>1
<1>3. CASE Die(d)
  <2>1. UNCHANGED <<walk, queue, final>> BY <1>3 DEF Die
  <2>2. CASE d = Caller
    <3>1. step \in {"join", "gather"} BY <1>0, <2>2 DEF Phases
    <3>2. unwinding' = TRUE /\ step' = IF step = "gather" THEN "scope" ELSE "finish"
      BY <1>3, <2>2 DEF Die
    <3>3. exit \notin {0, 1} BY <3>1
    <3> QED BY <2>1, <3>1, <3>2, <3>3
  <2>3. CASE d # Caller
    <3>1. unwinding' = unwinding /\ step' = step BY <1>3, <2>3 DEF Die
    <3> QED BY <1>1, <2>1, <3>1
  <2> QED BY <2>2, <2>3
<1> QED BY <1>2, <1>3 DEF Draining

LEMMA NextCourse ==
  ASSUME TypeOK, Phases, KeysOfWalk, Course, Next PROVE Course'
<1>1. CASE Terminated
  BY <1>1 DEF Terminated, vars, walk, queue, crew, final, Course, Joined
<1> QED BY <1>1, WalkingCourse, CallingCourse, DrainingCourse DEF Next

-----------------------------------------------------------------------------
(* Outcomes stay true of the disk, whoever works on it later: formatting a  *)
(* file again changes nothing.                                              *)

LEMMA FormatTells ==
  ASSUME NEW c \in Content, NEW m \in Modes
  PROVE  Tells(FormatFile(c, m), FormatFileLeaves(c, m), m)
  BY DEF Tells, FormatFile, FormatFileLeaves, Content, Modes

LEMMA TellsStays ==
  ASSUME NEW c, NEW o, NEW m, Tells(o, c, m)
  PROVE  Tells(o, FormatFileLeaves(c, m), m)
  BY DEF Tells, FormatFileLeaves

LEMMA WorkTrue ==
  ASSUME TypeOK, ClaimBounds, OutcomesTrue, NEW d \in Drainers, Work(d)
  PROVE  OutcomesTrue'
<1> DEFINE f == queued[claim[d]]
           o == <<claim[d], FormatFile(disk[f], mode)>>
<1>1. claim[d] \in 1..next /\ 1..next \subseteq 1..Len(queued)
  BY DEF Work, ClaimBounds, Holds, TypeOK
<1>2. f \in Files /\ disk[f] \in Content /\ mode \in Modes BY <1>1 DEF TypeOK
<1>3. /\ disk' = [disk EXCEPT ![f] = FormatFileLeaves(@, mode)]
      /\ outcomes' = [outcomes EXCEPT ![d] = @ \cup {o}]
      /\ queued' = queued /\ mode' = mode
  BY DEF Work, queue
<1>4. ASSUME NEW g \in Files, NEW r, Tells(r, disk[g], mode)
      PROVE  Tells(r, disk'[g], mode')
  <2>1. disk'[g] = disk[g] \/ disk'[g] = FormatFileLeaves(disk[g], mode)
    BY <1>2, <1>3, <1>4 DEF TypeOK
  <2> QED BY <1>3, <1>4, <2>1, TellsStays
<1> HIDE DEF f, o
<1>5. ASSUME NEW e \in Drainers, NEW c \in outcomes[e]
      PROVE  Tells(c[2], disk'[queued'[c[1]]], mode')
  <2>1. c[1] \in 1..next BY <1>5 DEF ClaimBounds, Holds
  <2>2. queued[c[1]] \in Files BY <1>1, <2>1 DEF TypeOK
  <2>3. Tells(c[2], disk[queued[c[1]]], mode) BY DEF OutcomesTrue
  <2> QED BY <1>3, <1>4, <2>2, <2>3
<1>6. Tells(o[2], disk'[queued'[o[1]]], mode')
  <2>1. o[1] = claim[d] /\ o[2] = FormatFile(disk[f], mode) BY DEF o
  <2>2. disk'[f] = FormatFileLeaves(disk[f], mode) BY <1>2, <1>3 DEF TypeOK
  <2>3. Tells(o[2], disk'[f], mode) BY <1>2, <2>1, <2>2, FormatTells
  <2> QED BY <1>3, <2>1, <2>3 DEF f
<1>7. ASSUME NEW e \in Drainers, NEW c \in outcomes'[e]
      PROVE  Tells(c[2], disk'[queued'[c[1]]], mode')
  <2>1. c \in outcomes[e] \/ c = o BY <1>3, <1>7 DEF TypeOK
  <2> QED BY <1>5, <1>6, <2>1
<1> QED BY <1>7 DEF OutcomesTrue

LEMMA NextTrue ==
  ASSUME TypeOK, Phases, ClaimBounds, OutcomesTrue, Next PROVE OutcomesTrue'
<1>0. ASSUME NEW e \in Drainers, NEW c \in outcomes[e]
      PROVE  c[1] \in 1..next /\ c[1] \in 1..Len(queued)
  BY <1>0 DEF ClaimBounds, Holds, TypeOK
<1>1. ASSUME UNCHANGED <<outcomes, disk, mode>>,
             \A i \in 1..next : queued'[i] = queued[i]
      PROVE  OutcomesTrue'
  BY <1>0, <1>1 DEF OutcomesTrue
<1>2. CASE Walking
  <2>1. UNCHANGED <<outcomes, disk, mode>>
    BY <1>2 DEF Walking, Discover, TraversalError, Flush, EndWalk, WalkRefused,
                WalkPanics, Collect, CollectRefused, crew
  <2>2. CASE queued' = queued BY <1>1, <2>1, <2>2
  <2>3. CASE Collect
    <3>1. next = 0 BY <2>3 DEF Collect, Phases
    <3>2. 1..next = {} BY <3>1
    <3> QED BY <1>1, <2>1, <3>2
  <2>4. CASE (\E f \in Files : Discover(f)) \/ Flush
    <3>1. PICK b \in Seq(Files) : queued' = queued \o b \/ queued' = queued
      <4>1. ASSUME NEW f \in Files, Discover(f)
            PROVE  queued' = queued \o Append(batch, f) \/ queued' = queued
        BY <4>1 DEF Discover, PushBatch, queue
      <4>2. \A f \in Files : Append(batch, f) \in Seq(Files) BY DEF TypeOK
      <4>3. Flush => queued' = queued \o batch BY DEF Flush, PushBatch
      <4>4. batch \in Seq(Files) BY DEF TypeOK
      <4> QED BY <2>4, <4>1, <4>2, <4>3, <4>4
    <3>2. \A i \in 1..next : queued'[i] = queued[i]
      <4>1. queued \in Seq(Files) /\ next \in Nat /\ next <= Len(queued) BY DEF TypeOK
      <4> QED BY <3>1, <4>1
    <3> QED BY <1>1, <2>1, <3>2
  <2> QED BY <1>2, <2>2, <2>3, <2>4
          DEF Walking, TraversalError, EndWalk, WalkRefused, WalkPanics,
              CollectRefused, queue
<1>3. CASE Calling
  <2>1. UNCHANGED <<outcomes, disk, mode, queued>>
    BY <1>3 DEF Calling, SpawnWorker, PoolIsUp, NotifyOne, Finish, NotifyAll, Close,
                Fallback, Report, Crash, crew, queue
  <2> QED BY <1>1, <2>1
<1>4. ASSUME NEW d \in Drainers,
             Claim(d) \/ Exit(d) \/ Park(d) \/ Die(d) \/ SpuriousWakeup(d)
      PROVE  OutcomesTrue'
  <2>1. UNCHANGED <<outcomes, disk, mode, queued>>
    BY <1>4 DEF Claim, Exit, Park, Die, SpuriousWakeup, crew, queue
  <2> QED BY <1>1, <2>1
<1>5. CASE Terminated
  BY <1>1, <1>5 DEF Terminated, vars, crew, queue
<1> QED BY <1>2, <1>3, <1>4, <1>5, WorkTrue DEF Next, Draining

-----------------------------------------------------------------------------
(* Who left the loop, and what the dead took with them.                     *)

LEMMA NextExited ==
  ASSUME TypeOK, Phases, Course, ExitedDone, Next PROVE ExitedDone'
<1>1. ASSUME UNCHANGED <<next, queued, pc>>, done => done' PROVE ExitedDone'
  BY <1>1 DEF ExitedDone
<1>2. CASE Walking
  <2>1. ~done /\ pc' = pc
    BY <1>2 DEF Walking, Discover, TraversalError, Flush, EndWalk, WalkRefused,
                WalkPanics, Collect, CollectRefused, crew, Course
  <2> QED BY <2>1 DEF ExitedDone
<1>3. CASE Calling
  <2>1. UNCHANGED <<next, queued>> /\ (done => done')
    BY <1>3 DEF Calling, SpawnWorker, PoolIsUp, NotifyOne, Finish, NotifyAll, Close,
                Fallback, Report, Crash, queue
  <2>2. \A d \in Drainers : pc'[d] = "exited" => pc[d] = "exited"
    BY <1>3 DEF Calling, SpawnWorker, PoolIsUp, NotifyOne, Finish, NotifyAll, Close,
                Fallback, Report, Crash, crew, TypeOK
  <2> QED BY <2>1, <2>2 DEF ExitedDone
<1>4. ASSUME NEW d \in Drainers, Draining(d) \/ SpuriousWakeup(d)
      PROVE  ExitedDone'
  <2>1. CASE Claim(d)
    <3>1. next # Len(queued) BY <2>1 DEF Claim, TypeOK
    <3> QED BY <2>1, <3>1 DEF Claim, ExitedDone, TypeOK
  <2>2. CASE Exit(d) BY <2>2 DEF Exit, ExitedDone, TypeOK
  <2>3. CASE Park(d) BY <2>3 DEF Park, ExitedDone, TypeOK
  <2>4. CASE Work(d) \/ Die(d) BY <2>4 DEF Work, Die, ExitedDone, TypeOK, queue
  <2>5. CASE SpuriousWakeup(d) BY <1>1, <2>5 DEF SpuriousWakeup, queue, crew
  <2> QED BY <1>4, <2>1, <2>2, <2>3, <2>4, <2>5 DEF Draining
<1>5. CASE Terminated
  BY <1>1, <1>5 DEF Terminated, vars, queue, crew
<1> QED BY <1>2, <1>3, <1>4, <1>5 DEF Next

LEMMA NextDeadLose ==
  ASSUME TypeOK, ClaimBounds, ClaimedOnce, DeadLose, Next PROVE DeadLose'
<1>0. next \in Nat BY DEF TypeOK
<1>1. ASSUME next <= next', next' \in Nat, Dead' = Dead,
             \A e \in Drainers \ Dead : \A i \in 1..next : i \in Holds(e)' => i \in Holds(e)
      PROVE  DeadLose'
  BY <1>0, <1>1 DEF DeadLose
<1>2. ASSUME NEW d \in Drainers, Claim(d) PROVE DeadLose'
  <2>1. next' = next + 1 /\ outcomes' = outcomes /\ claim' = [claim EXCEPT ![d] = next + 1]
        /\ pc' = [pc EXCEPT ![d] = "working"] /\ pc[d] # "dead"
    BY <1>2 DEF Claim, AtQueue, Awake
  <2>2. Dead' = Dead BY <2>1 DEF Dead, TypeOK
  <2>3. \A e \in Drainers : \A i \in 1..next : i \in Holds(e)' => i \in Holds(e)
    BY <1>0, <2>1 DEF Holds, TypeOK
  <2> QED BY <1>0, <1>1, <2>1, <2>2, <2>3
<1>3. ASSUME NEW d \in Drainers, Work(d) PROVE DeadLose'
  <2>1. next' = next /\ pc' = [pc EXCEPT ![d] = "seeking"] /\ pc[d] = "working"
        /\ claim' = [claim EXCEPT ![d] = 0]
        /\ \E o : o[1] = claim[d] /\ outcomes' = [outcomes EXCEPT ![d] = @ \cup {o}]
    BY <1>3 DEF Work, queue
  <2>2. Dead' = Dead BY <2>1 DEF Dead, TypeOK
  <2>3. claim[d] # 0 BY <2>1 DEF ClaimBounds
  <2>4. \A e \in Drainers : \A i \in 1..next : i \in Holds(e)' => i \in Holds(e)
    BY <2>1, <2>3 DEF Holds, TypeOK
  <2> QED BY <1>0, <1>1, <2>1, <2>2, <2>4
<1>4. ASSUME NEW d \in Drainers, Die(d) PROVE DeadLose'
  <2>1. next' = next /\ pc' = [pc EXCEPT ![d] = "dead"] /\ pc[d] = "working"
        /\ outcomes' = outcomes /\ claim' = [claim EXCEPT ![d] = 0]
    BY <1>4 DEF Die, queue
  <2>2. claim[d] \in 1..next /\ claim[d] \in Holds(d)
    BY <2>1 DEF ClaimBounds, Holds
  <2>5. \A e \in Drainers \ {d} : claim[d] \notin Holds(e) BY <2>2 DEF ClaimedOnce
  <2>6. \A e \in Drainers \ {d} : Holds(e)' = Holds(e) BY <2>1 DEF Holds, TypeOK
  <2>3. \A e \in Drainers \ {d} : claim[d] \notin Holds(e) /\ Holds(e)' = Holds(e)
    BY <2>5, <2>6
  <2>4. d \in Dead' BY <2>1 DEF Dead, TypeOK
  <2> QED BY <2>1, <2>2, <2>3, <2>4 DEF DeadLose
<1>5. ASSUME UNCHANGED <<next, claim, outcomes>>,
             \A d \in Drainers : pc'[d] = "dead" <=> pc[d] = "dead"
      PROVE  DeadLose'
  <2>1. Dead' = Dead BY <1>5 DEF Dead
  <2>2. \A e \in Drainers : Holds(e)' = Holds(e) BY <1>5 DEF Holds
  <2> QED BY <1>0, <1>1, <1>5, <2>1, <2>2
<1>6. CASE Walking
  <2>1. UNCHANGED <<next, crew>>
    BY <1>6 DEF Walking, Discover, PushBatch, TraversalError, Flush, EndWalk,
                WalkRefused, WalkPanics, Collect, CollectRefused, queue
  <2> QED BY <1>5, <2>1 DEF crew
<1>7. CASE Calling
  <2>1. UNCHANGED <<next, claim, outcomes>>
    BY <1>7 DEF Calling, SpawnWorker, PoolIsUp, NotifyOne, Finish, NotifyAll, Close,
                Fallback, Report, Crash, queue, crew
  <2>2. \A d \in Drainers : pc'[d] = "dead" <=> pc[d] = "dead"
    BY <1>7 DEF Calling, SpawnWorker, PoolIsUp, NotifyOne, Finish, NotifyAll, Close,
                Fallback, Report, Crash, crew, TypeOK
  <2> QED BY <1>5, <2>1, <2>2
<1>8. ASSUME NEW d \in Drainers, Exit(d) \/ Park(d) \/ SpuriousWakeup(d)
      PROVE  DeadLose'
  <2>1. UNCHANGED <<next, claim, outcomes>>
    BY <1>8 DEF Exit, Park, SpuriousWakeup, queue, crew
  <2>2. \A e \in Drainers : pc'[e] = "dead" <=> pc[e] = "dead"
    BY <1>8 DEF Exit, Park, SpuriousWakeup, AtQueue, Awake, crew, TypeOK
  <2> QED BY <1>5, <2>1, <2>2
<1>9. CASE Terminated
  BY <1>5, <1>9 DEF Terminated, vars, queue, crew
<1> QED BY <1>2, <1>3, <1>4, <1>6, <1>7, <1>8, <1>9 DEF Next, Draining

-----------------------------------------------------------------------------
(* The report: one line for each key, about the file at its position; what  *)
(* it says is so, and it blames a dead worker if and only if one died.      *)

LEMMA FromKeyIs ==
  ASSUME NEW f \in Files PROVE FromKey(Rank[f]) = f
  BY RankAssumption DEF FromKey

LEMMA WhenReported ==
  ASSUME ReportInv, Report, ~badArgs
  PROVE  /\ ~unwinding /\ unvisited = {} /\ InKeyOrder(keys)
         /\ Walked = queued /\ Len(keys) = Len(queued) /\ Len(keys) \in Nat
         /\ \A d \in Drainers : claim[d] = 0
         /\ Dead = {} => next = Len(queued) \/ keys = <<>>
<1> USE DEF ReportInv, QueueInv
<1>1. step \in {"tell", "join", "gather"} BY DEF Report
<1>2. ~unwinding /\ unvisited = {} /\ batch = <<>> /\ InKeyOrder(keys)
  BY <1>1 DEF Course
<1>3. Walked = queued BY <1>2 DEF Walked, TypeOK
<1>4. Len(keys) = Len(queued) /\ Len(keys) \in Nat BY <1>3 DEF KeysOfWalk, TypeOK
<1>5. CASE step = "tell"
  <2>1. keys = <<>> /\ \A d \in Drainers : pc[d] = "unborn" BY <1>5 DEF Course
  <2>2. \A d \in Drainers : claim[d] = 0 BY <2>1 DEF ClaimBounds
  <2> QED BY <1>2, <1>3, <1>4, <2>1, <2>2
<1>6. CASE step # "tell"
  <2>1. Joined /\ (Spawned = {} => pc[Caller] = "exited") BY <1>6 DEF Report
  <2>2. \A d \in Drainers : claim[d] = 0 BY <2>1 DEF ClaimBounds, Joined
  <2>3. ASSUME Dead = {} PROVE next = Len(queued)
    <3>1. PICK d \in Drainers : pc[d] = "exited"
      BY <2>1, <2>3 DEF Joined, Spawned, Drainers, Dead
    <3> QED BY <3>1 DEF ExitedDone
  <2> QED BY <1>2, <1>3, <1>4, <2>2, <2>3
<1> QED BY <1>5, <1>6

LEMMA ReadOutTells ==
  ASSUME ReportInv, Report, ~badArgs
  PROVE  /\ report' = ReadOut(keys, Collected) /\ Len(report') = Len(keys)
         /\ \A k \in 1..Len(keys) :
              /\ keys[k][2] \in 1..Len(keys)
              /\ report'[k][1] = queued[keys[k][2]]
              /\ keys[k][1] = Rank[report'[k][1]] /\ report'[k][1] \in Files
              /\ \/ report'[k][2] = "WorkerPanicked" /\ Dead # {}
                 \/ Tells(report'[k][2], disk[report'[k][1]], mode)
         /\ Dead # {} => \E k \in 1..Len(keys) : report'[k][2] = "WorkerPanicked"
<1> USE DEF ReportInv, QueueInv
<1> DEFINE n == Len(keys)
           hits(k) == {c \in Collected : c[1] = keys[k][2]}
<1>1. report' = ReadOut(keys, Collected) BY DEF Report
<1>2. /\ Walked = queued /\ n = Len(queued) /\ n \in Nat
      /\ \A d \in Drainers : claim[d] = 0
      /\ Dead = {} => next = Len(queued) \/ keys = <<>>
  BY WhenReported
<1>3. Len(report') = n /\ DOMAIN report' = 1..n BY <1>1, <1>2 DEF ReadOut
<1>4. ASSUME NEW k \in 1..n
      PROVE  /\ hits(k) = {} => report'[k] = <<FromKey(keys[k][1]), "WorkerPanicked">>
             /\ hits(k) # {} => \E c \in hits(k) : report'[k] = <<queued[c[1]], c[2]>>
  BY <1>1, <1>4 DEF ReadOut
<1>5. ASSUME NEW k \in 1..n
      PROVE  /\ keys[k][2] \in 1..n /\ queued[keys[k][2]] \in Files
             /\ keys[k][1] = Rank[queued[keys[k][2]]]
  BY <1>2, <1>5 DEF KeysOfWalk, TypeOK
<1>6. ASSUME NEW c \in Collected
      PROVE  \E d \in Drainers \ Dead : c \in outcomes[d] /\ c[1] \in Holds(d)
  BY <1>6 DEF Collected, Holds
<1>7. ASSUME NEW k \in 1..n, hits(k) = {} PROVE Dead # {}
  <2> SUFFICES ASSUME Dead = {} PROVE FALSE
    OBVIOUS
  <2>1. keys # <<>> BY <1>2, <1>7
  <2>2. keys[k][2] \in 1..next BY <1>2, <1>5, <2>1
  <2>3. PICK d \in Drainers : keys[k][2] \in Holds(d) BY <2>2 DEF ClaimsKept
  <2>4. PICK c \in outcomes[d] : c[1] = keys[k][2] BY <1>2, <2>3 DEF Holds
  <2>5. c \in hits(k) BY <2>4 DEF Collected
  <2> QED BY <1>7, <2>5
<1>8. ASSUME NEW k \in 1..n
      PROVE  /\ report'[k][1] = queued[keys[k][2]]
             /\ \/ report'[k][2] = "WorkerPanicked" /\ Dead # {}
                \/ Tells(report'[k][2], disk[report'[k][1]], mode)
  <2>1. CASE hits(k) = {}
    <3>1. report'[k] = <<FromKey(keys[k][1]), "WorkerPanicked">> BY <1>4, <2>1
    <3>2. FromKey(keys[k][1]) = queued[keys[k][2]] BY <1>5, FromKeyIs
    <3> QED BY <1>7, <2>1, <3>1, <3>2
  <2>2. CASE hits(k) # {}
    <3>1. PICK c \in hits(k) : report'[k] = <<queued[c[1]], c[2]>> BY <1>4, <2>2
    <3>2. c[1] = keys[k][2] BY <3>1
    <3>3. PICK d \in Drainers : c \in outcomes[d] BY <1>6
    <3>4. Tells(c[2], disk[queued[c[1]]], mode) BY <3>3 DEF OutcomesTrue
    <3> QED BY <3>1, <3>2, <3>4
  <2> QED BY <2>1, <2>2
<1>9. ASSUME Dead # {} PROVE \E k \in 1..n : report'[k][2] = "WorkerPanicked"
  <2>1. PICK i \in 1..next : \A e \in Drainers \ Dead : i \notin Holds(e)
    BY <1>9 DEF DeadLose
  <2>2. i \in 1..n BY <1>2, <2>1 DEF TypeOK
  <2>3. PICK k \in 1..n : keys[k][2] = i BY <2>2 DEF KeysOfWalk
  <2>4. hits(k) = {} BY <1>6, <2>1, <2>3
  <2> QED BY <1>4, <2>4
<1> QED BY <1>1, <1>3, <1>5, <1>8, <1>9

LEMMA ReportReport ==
  ASSUME ReportInv, Report, ~badArgs PROVE ReportFaithful'
<1> USE DEF ReportInv, QueueInv
<1> DEFINE n == Len(keys)
<1>1. UNCHANGED <<keys, disk, mode, pc, unwinding>> BY DEF Report, walk, crew
<1>2. Dead' = Dead /\ Found' = Found BY <1>1 DEF Dead, Found
<1>3. /\ Len(report') = n /\ n \in Nat
      /\ \A k \in 1..n :
              /\ keys[k][2] \in 1..n /\ report'[k][1] = queued[keys[k][2]]
              /\ keys[k][1] = Rank[report'[k][1]] /\ report'[k][1] \in Files
              /\ \/ report'[k][2] = "WorkerPanicked" /\ Dead # {}
                 \/ Tells(report'[k][2], disk[report'[k][1]], mode)
  BY ReadOutTells, WhenReported
<1>4. {report'[k][1] : k \in 1..n} = Found
  BY <1>3, RankAssumption DEF Found
<1>5. \A i, j \in 1..n : i < j => Rank[report'[i][1]] < Rank[report'[j][1]]
  BY <1>3, WhenReported DEF InKeyOrder
<1>6. ASSUME NEW k \in 1..n
      PROVE  LET c == disk'[report'[k][1]] IN
             CASE report'[k][2] = "Unchanged" -> c = "formatted"
               [] report'[k][2] = "Changed"   ->
                     IF mode' = "Write" THEN c = "formatted"
                     ELSE c \in {"unformatted", "readonly"}
               [] report'[k][2] = "Error"     -> c \in {"broken", "unreadable", "readonly"}
               [] OTHER                       -> Dead' # {}
  <2>1. CASE report'[k][2] = "WorkerPanicked" /\ Dead # {} BY <1>2, <2>1
  <2>2. CASE Tells(report'[k][2], disk[report'[k][1]], mode) BY <1>1, <2>2 DEF Tells
  <2> QED BY <1>3, <2>1, <2>2
<1> QED BY <1>2, <1>3, <1>4, <1>5, <1>6 DEF ReportFaithful

LEMMA ReportExit ==
  ASSUME ReportInv, Report, ~badArgs PROVE ExitTells'
<1> USE DEF ReportInv, QueueInv
<1> DEFINE n == Len(keys)
           count(os) == Cardinality({k \in 1..n : report'[k][2] \in os})
<1>1. UNCHANGED <<keys, disk, mode, pc, unwinding, scope>> BY DEF Report, walk, crew
<1>2. Dead' = Dead BY <1>1 DEF Dead
<1>3. /\ Len(report') = n /\ n \in Nat
      /\ \A k \in 1..n :
              /\ keys[k][2] \in 1..n /\ report'[k][1] = queued[keys[k][2]]
              /\ \/ report'[k][2] = "WorkerPanicked" /\ Dead # {}
                 \/ Tells(report'[k][2], disk[report'[k][1]], mode)
      /\ Dead # {} => \E k \in 1..n : report'[k][2] = "WorkerPanicked"
      /\ unvisited = {} /\ Walked = queued
  BY ReadOutTells, WhenReported
<1>4. \A os : count(os) \in Nat /\ (count(os) = 0 => \A k \in 1..n : report'[k][2] \notin os)
  <2> SUFFICES ASSUME NEW os
               PROVE  count(os) \in Nat
                      /\ (count(os) = 0 => \A k \in 1..n : report'[k][2] \notin os)
    OBVIOUS
  <2>1. IsFiniteSet({k \in 1..n : report'[k][2] \in os})
    <3>1. PICK K \in SUBSET (1..n) : K = {k \in 1..n : report'[k][2] \in os}
      OBVIOUS
    <3>2. IsFiniteSet(1..n) BY <1>3, FS_Interval
    <3>3. IsFiniteSet(K) BY <3>2, FS_Subset
    <3> QED BY <3>1, <3>3
  <2> QED BY <2>1, FS_CardinalityType, FS_EmptySet
<1>5. exit' = IF \/ badArgs
                 \/ report' = <<>> /\ errors = 0 /\ ~excluded
                 \/ errors + count({"Error", "WorkerPanicked"}) > 0
              THEN 2
              ELSE IF mode = "Check" /\ count({"Changed"}) > 0 THEN 1 ELSE 0
  BY <1>1, <1>3 DEF Report, ExitCode
<1> HIDE DEF count
<1>6. ASSUME exit' \in {0, 1}
      PROVE  /\ errors = 0
             /\ \A k \in 1..n : report'[k][2] \notin {"Error", "WorkerPanicked"}
  <2>1. ~(errors + count({"Error", "WorkerPanicked"}) > 0) BY <1>5, <1>6
  <2>2. errors \in Nat /\ count({"Error", "WorkerPanicked"}) \in Nat BY <1>4 DEF TypeOK
  <2>3. errors = 0 /\ count({"Error", "WorkerPanicked"}) = 0 BY <2>1, <2>2
  <2> QED BY <1>4, <2>3
<1>7. ASSUME exit' = 0, NEW f \in scope PROVE disk[f] = "formatted"
  <2>1. errors = 0 BY <1>6, <1>7
  <2>2. PICK i \in 1..n : queued[i] = f BY <1>3, <2>1 DEF Accounts
  <2>3. PICK k \in 1..n : keys[k][2] = i BY <2>2 DEF KeysOfWalk
  <2>4. Tells(report'[k][2], disk[f], mode) BY SMTT(60), <1>3, <1>6, <1>7, <2>2, <2>3
  <2>5. mode = "Check" => report'[k][2] # "Changed"
    <3>1. mode = "Check" => ~(count({"Changed"}) > 0) BY <1>5, <1>7
    <3> QED BY <1>4, <3>1
  <2> QED BY <1>6, <1>7, <2>4, <2>5 DEF Tells
<1>8. ASSUME exit' = 1
      PROVE  mode = "Check" /\ (\E f \in scope : disk[f] \in {"unformatted", "readonly"})
             /\ Dead = {}
  <2>1. mode = "Check" /\ count({"Changed"}) > 0 BY <1>5, <1>8
  <2>2. PICK k \in 1..n : report'[k][2] = "Changed"
    <3>1. CASE \A k \in 1..n : report'[k][2] \notin {"Changed"}
      <4>1. {k \in 1..n : report'[k][2] \in {"Changed"}} = {} BY <3>1
      <4>2. count({"Changed"}) = 0 BY <4>1, FS_EmptySet DEF count
      <4> QED BY <2>1, <4>2
    <3> QED BY <3>1
  <2>3. Tells("Changed", disk[report'[k][1]], mode) BY <1>3, <2>2
  <2>4. report'[k][1] \in scope BY <1>3 DEF KeysOfWalk
  <2>5. Dead = {} BY <1>3, <1>6, <1>8
  <2> QED BY <2>1, <2>3, <2>4, <2>5 DEF Tells
<1> QED BY <1>1, <1>2, <1>7, <1>8 DEF ExitTells

LEMMA ReportStep ==
  ASSUME ReportInv, Report PROVE ReportFaithful' /\ ExitTells'
<1>1. CASE badArgs
  <2>1. badArgs' BY <1>1 DEF Report, walk
  <2>2. exit' = 2 BY <1>1 DEF Report, ExitCode
  <2> QED BY <2>1, <2>2 DEF ReportFaithful, ExitTells
<1> QED BY <1>1, ReportReport, ReportExit

LEMMA CrashStep ==
  ASSUME ReportInv, Crash PROVE ReportFaithful' /\ ExitTells'
<1>1. unwinding' BY DEF Crash, ReportInv, Course
<1>2. exit' = 101 BY DEF Crash
<1> QED BY <1>1, <1>2 DEF ReportFaithful, ExitTells

\* the process is over: no thread is left to take a step
LEMMA EndIsFinal ==
  ASSUME TypeOK, Phases, Course, Next, step = "end" PROVE UNCHANGED vars
<1>1. \A d \in Drainers : pc[d] \notin {"seeking", "waiting", "working"}
  BY DEF Course, Joined
<1>2. parked = {} BY <1>1 DEF Phases, TypeOK
<1>3. ~Walking
  BY DEF Walking, Discover, TraversalError, Flush, EndWalk, WalkRefused,
         WalkPanics, Collect, CollectRefused
<1>4. ~Calling
  BY DEF Calling, SpawnWorker, MayWiden, PoolIsUp, NotifyOne, Finish, NotifyAll,
         Close, Fallback, Report, Crash
<1>5. ASSUME NEW d \in Drainers PROVE ~Draining(d) /\ ~SpuriousWakeup(d)
  BY <1>1, <1>2 DEF Draining, Claim, Exit, Park, Work, Die, SpuriousWakeup,
                    AtQueue, Awake
<1> QED BY <1>3, <1>4, <1>5 DEF Next, Terminated

\* nothing but the report and the crash ends the process
LEMMA NotYet ==
  ASSUME TypeOK, Course, Next, step # "end", ~Report, ~Crash
  PROVE  step' # "end" /\ exit' = exit
<1>1. CASE Walking
  BY <1>1 DEF Walking, Discover, PushBatch, TraversalError, Flush, EndWalk,
              WalkRefused, WalkPanics, Collect, CollectRefused, final
<1>2. CASE Calling
  BY <1>2 DEF Calling, SpawnWorker, PoolIsUp, NotifyOne, Finish, NotifyAll,
              Close, Fallback, final
<1>3. ASSUME NEW d \in Drainers, Draining(d) \/ SpuriousWakeup(d)
      PROVE  step' # "end" /\ exit' = exit
  BY <1>3 DEF Draining, Claim, Exit, Park, Work, Die, SpuriousWakeup, final
<1> QED BY <1>1, <1>2, <1>3 DEF Next, Terminated

LEMMA NextReport ==
  ASSUME ReportInv, Next PROVE ReportFaithful' /\ ExitTells'
<1> USE DEF ReportInv, QueueInv
<1>1. CASE step = "end"
  <2>1. UNCHANGED vars BY <1>1, EndIsFinal
  <2> QED BY SMTT(60), <2>1 DEF vars, walk, crew, final, ReportFaithful, ExitTells, Found, Dead
<1>2. CASE step # "end" /\ ~Report /\ ~Crash
  <2>1. step' # "end" /\ exit' = exit BY <1>2, NotYet
  <2>2. exit \notin {0, 1} BY <1>2 DEF Course
  <2> QED BY <2>1, <2>2 DEF ReportFaithful, ExitTells
<1> QED BY <1>1, <1>2, ReportStep, CrashStep

-----------------------------------------------------------------------------
LEMMA InitReportInv == Init => ReportInv
<1> SUFFICES ASSUME Init PROVE ReportInv
  OBVIOUS
<1>1. QueueInv BY InitQueueInv
<1>2. Walked = <<>> /\ Len(keys) = 0 /\ Len(Walked) = 0 BY DEF Init, Walked
<1>3. KeysOfWalk BY <1>2 DEF KeysOfWalk
<1>4. Accounts BY DEF Init, Accounts
<1>5. Course BY DEF Init, Course
<1>6. OutcomesTrue /\ ExitedDone BY DEF Init, OutcomesTrue, ExitedDone
<1>7. DeadLose BY DEF Init, DeadLose, Dead
<1>8. ReportFaithful /\ ExitTells BY DEF Init, ReportFaithful, ExitTells
<1> QED BY <1>1, <1>3, <1>4, <1>5, <1>6, <1>7, <1>8 DEF ReportInv

LEMMA NextReportInv == ReportInv /\ [Next]_vars => ReportInv'
<1> SUFFICES ASSUME ReportInv, [Next]_vars PROVE ReportInv'
  OBVIOUS
<1> USE DEF ReportInv
<1>1. QueueInv' BY NextQueueInv
<1>2. CASE Next
  <2> USE DEF QueueInv
  <2>1. KeysOfWalk' /\ Accounts' BY <1>2, NextKeys
  <2>2. Course' BY <1>2, NextCourse
  <2>3. OutcomesTrue' BY <1>2, NextTrue
  <2>4. ExitedDone' BY <1>2, NextExited
  <2>5. DeadLose' BY <1>2, NextDeadLose
  <2> QED BY <1>1, <1>2, <2>1, <2>2, <2>3, <2>4, <2>5, NextReport
<1>3. CASE UNCHANGED vars
  <2> USE <1>3 DEF vars, walk, queue, crew, final
  <2>1. KeysOfWalk' /\ Accounts' BY DEF KeysOfWalk, Accounts, Walked
  <2>2. Course' BY DEF Course, Joined
  <2>3. OutcomesTrue' /\ ExitedDone' BY DEF OutcomesTrue, ExitedDone
  <2>4. DeadLose' BY DEF DeadLose, Dead, Holds
  <2>5. ReportFaithful' /\ ExitTells' BY DEF ReportFaithful, ExitTells, Found, Dead
  <2> QED BY <1>1, <2>1, <2>2, <2>3, <2>4, <2>5
<1> QED BY <1>2, <1>3

(* The inductive invariant holds for any number of files and workers.       *)
THEOREM ReportInvariant == Spec => []ReportInv
<1>1. Init => ReportInv BY InitReportInv
<1>2. ReportInv /\ [Next]_vars => ReportInv' BY NextReportInv
<1> QED BY <1>1, <1>2, PTL DEF Spec

(* The report lists what the walk found, in key order and truly, whatever   *)
(* order the threads claimed, worked and died in (join_pool, run_paths).    *)
THEOREM ReportIsFaithful == Spec => []ReportFaithful
<1>1. ReportInv => ReportFaithful BY DEF ReportInv
<1> QED BY <1>1, ReportInvariant, PTL

(* Exit status 0 means everything in scope is formatted, 1 that `--check`   *)
(* found a file that is not (run_paths).                                    *)
THEOREM ExitStatusTells == Spec => []ExitTells
<1>1. ReportInv => ExitTells BY DEF ReportInv
<1> QED BY <1>1, ReportInvariant, PTL

-----------------------------------------------------------------------------
(* FormatPool implements FormatOnce.                                        *)

\* No file is found twice, and none that is still to be visited.
Distinct ==
    /\ \A i, j \in 1..Len(keys) : Walked[i] = Walked[j] => i = j
    /\ \A i \in 1..Len(keys) : Walked[i] \notin unvisited

\* Nothing is queued before there is a pool to stream to, nothing is reported
\* before the end, and the calling thread drains only when there is no pool.
Crewed ==
    /\ step = "spawn" => queued = <<>>
    /\ step # "end" => report = <<>>
    /\ pc[Caller] # "unborn" =>
          Spawned = {} /\ step \notin {"spawn", "crew", "collect", "walk", "notify"}

OnceInv == ReportInv /\ Distinct /\ Crewed

-----------------------------------------------------------------------------
(* A file is lost when its position was claimed and no living thread has    *)
(* it, and done when a living thread keeps its outcome.                      *)

Lost(f) ==
    \E i \in 1..next : queued[i] = f /\ \A e \in Drainers \ Dead : i \notin Holds(e)
Kept(f) == \E e \in Drainers \ Dead : \E c \in outcomes[e] : queued[c[1]] = f
Fate(f) == IF Lost(f) THEN "lost" ELSE IF Kept(f) THEN "done" ELSE "none"

Fates == AbstractFate = [f \in Files |-> Fate(f)]

LEMMA FateIs == QueueInv => Fates
<1> SUFFICES ASSUME QueueInv, NEW f \in Files
             PROVE  AbstractFate[f] = Fate(f)
  BY DEF AbstractFate, Fates
<1> USE DEF QueueInv
<1> DEFINE Died == \E d \in Dead : f \in DoneBy({d})
           Gone == \E i \in 1..next : queued[i] = f /\ \A d \in Drainers : i \notin Holds(d)
<1>1. ASSUME NEW d \in Dead PROVE d \in Drainers /\ Holds(d) = {c[1] : c \in outcomes[d]}
  BY <1>1 DEF Dead, Holds, ClaimBounds
<1>2. ASSUME Died PROVE Lost(f)
  <2>1. PICK d \in Dead : \E c \in outcomes[d] : f = queued[c[1]] BY <1>2 DEF DoneBy
  <2>2. PICK c \in outcomes[d] : f = queued[c[1]] BY <2>1
  <2>3. c[1] \in Holds(d) /\ c[1] \in 1..next BY <1>1 DEF ClaimBounds
  <2>4. \A e \in Drainers \ Dead : c[1] \notin Holds(e)
    BY <1>1, <2>3 DEF ClaimedOnce
  <2> QED BY <2>2, <2>3, <2>4 DEF Lost
<1>3. ASSUME Gone PROVE Lost(f) BY <1>3 DEF Lost
<1>4. ASSUME Lost(f), ~Died PROVE Gone
  <2>1. PICK i \in 1..next : queued[i] = f /\ \A e \in Drainers \ Dead : i \notin Holds(e)
    BY <1>4 DEF Lost
  <2>2. ASSUME NEW d \in Drainers, i \in Holds(d) PROVE FALSE
    <3>1. d \in Dead BY <2>1, <2>2
    <3>2. PICK c \in outcomes[d] : c[1] = i BY <1>1, <2>2, <3>1
    <3> QED BY <1>4, <2>1, <3>1, <3>2 DEF DoneBy
  <2> QED BY <2>1, <2>2
<1>5. f \in DoneBy(Drainers \ Dead) <=> Kept(f) BY DEF DoneBy, Kept
<1>6. AbstractFate[f] = IF Died THEN "lost" ELSE IF Gone THEN "lost"
                        ELSE IF f \in DoneBy(Drainers \ Dead) THEN "done" ELSE "none"
  BY DEF AbstractFate
<1> HIDE DEF Died, Gone
<1> QED BY <1>2, <1>3, <1>4, <1>5, <1>6 DEF Fate

\* The same of the next state.
LEMMA FateIsNext == QueueInv' => Fates'
  BY FateIs, PTL

\* What a step must leave alone for every fate to stay as it was.
LEMMA FateKept ==
  ASSUME QueueInv, QueueInv', next' = next, Dead' = Dead,
         \A i \in 1..next : queued'[i] = queued[i],
         \A e \in Drainers \ Dead : Holds(e)' = Holds(e) /\ outcomes'[e] = outcomes[e]
  PROVE  AbstractFate' = AbstractFate
<1>1. \A e \in Drainers : \A c \in outcomes[e] : c[1] \in 1..next
  BY DEF QueueInv, ClaimBounds, Holds
<1>2. ASSUME NEW f \in Files PROVE Fate(f)' = Fate(f)
  <2>1. Lost(f)' = Lost(f) BY DEF Lost
  <2>2. Kept(f)' = Kept(f) BY <1>1 DEF Kept
  <2> QED BY <2>1, <2>2 DEF Fate
<1> QED BY <1>2, FateIs, FateIsNext DEF Fates

-----------------------------------------------------------------------------
(* No file is found twice.                                                  *)

LEMMA SameFiles ==
  ASSUME Distinct, UNCHANGED <<queued, batch>>, Len(keys') = Len(keys),
         unvisited' \subseteq unvisited
  PROVE  Distinct'
  BY DEF Distinct, Walked

LEMMA DiscoverDistinct ==
  ASSUME TypeOK, KeysOfWalk, Distinct, NEW f \in Files, Discover(f)
  PROVE  Distinct'
<1> DEFINE n == Len(keys)
<1>0. queued \in Seq(Files) /\ batch \in Seq(Files) /\ n \in Nat
      /\ keys \in Seq(Nat \X Nat) /\ Rank[f] \in Nat
  BY RankAssumption DEF TypeOK
<1>1. Len(keys') = n + 1 BY <1>0 DEF Discover
<1>2. Walked' = queued \o Append(batch, f) BY DiscoverWalk
<1>3. /\ Walked'[n + 1] = f
      /\ \A i \in 1..n : Walked'[i] = Walked[i]
  <2>1. n = Len(queued \o batch) BY DEF KeysOfWalk, Walked
  <2> QED BY SMTT(60), <1>0, <1>2, <2>1, FoundOne DEF Walked
<1>4. f \in unvisited /\ unvisited' = unvisited \ {f} BY DEF Discover
<1>5. 1..(n + 1) = 1..n \cup {n + 1} /\ n + 1 \notin 1..n BY <1>0
<1> HIDE DEF n
<1>6. \A i \in 1..(n + 1) : Walked'[i] \notin unvisited'
  BY <1>3, <1>4, <1>5 DEF Distinct, n
<1>7. \A i, j \in 1..(n + 1) : Walked'[i] = Walked'[j] => i = j
  BY <1>3, <1>4, <1>5 DEF Distinct, n
<1> QED BY <1>1, <1>6, <1>7 DEF Distinct

LEMMA CollectDistinct ==
  ASSUME TypeOK, Course, Collect PROVE Distinct'
<1>1. PICK found \in SUBSET scope :
        \E files \in [1..Cardinality(found) -> found] :
            /\ keys' = [k \in DOMAIN files |-> <<Rank[files[k]], k>>]
            /\ queued' = files
  BY DEF Collect
<1>2. PICK files \in [1..Cardinality(found) -> found] :
            /\ keys' = [k \in DOMAIN files |-> <<Rank[files[k]], k>>]
            /\ queued' = files
  BY <1>1
<1>3. Cardinality(found) \in Nat
  BY FilesAssumption, FS_Subset, FS_CardinalityType DEF TypeOK
<1> DEFINE n == Cardinality(found)
<1>4. n \in Nat /\ files \in Seq(Files) /\ Len(files) = n /\ DOMAIN files = 1..n
  <2>1. files \in [1..n -> Files] /\ n \in Nat BY <1>2, <1>3 DEF TypeOK
  <2> HIDE DEF n
  <2> QED BY <2>1
<1>5. Walked' = files /\ unvisited' = {}
  BY <1>2, <1>4 DEF Collect, Course, Walked
<1>6. Len(keys') = n /\ \A k \in 1..n : keys'[k][1] = Rank[files[k]]
  BY <1>2, <1>4
<1>7. \A k \in 1..n : Rank[files[k]] \in Nat BY <1>4, RankAssumption
<1> HIDE DEF n
<1>8. \A i, j \in 1..n : i < j => Rank[files[i]] < Rank[files[j]]
  BY ZenonT(60), <1>6 DEF Collect, InKeyOrder
<1>9. ASSUME NEW i \in 1..n, NEW j \in 1..n, files[i] = files[j] PROVE i = j
  <2>1. ~(i < j) /\ ~(j < i) BY <1>7, <1>8, <1>9
  <2> QED BY <1>4, <2>1
<1> QED BY <1>5, <1>6, <1>9 DEF Distinct

LEMMA FlushDistinct ==
  ASSUME TypeOK, Distinct, Flush PROVE Distinct'
<1>1. queued' = queued \o batch /\ batch' = <<>> /\ UNCHANGED <<keys, unvisited>>
  BY DEF Flush, PushBatch
<1>2. queued \in Seq(Files) /\ batch \in Seq(Files) BY DEF TypeOK
<1>3. Walked' = Walked BY <1>1, <1>2, HandedOver DEF Walked
<1> QED BY <1>1, <1>3 DEF Distinct

LEMMA NextDistinct ==
  ASSUME TypeOK, KeysOfWalk, Course, Distinct, Next PROVE Distinct'
<1>1. CASE Walking
  <2>1. CASE EndWalk \/ WalkRefused \/ WalkPanics \/ CollectRefused
             \/ \E f \in Files : TraversalError(f)
    <3>1. CASE CollectRefused
      BY <3>1, SameFiles DEF CollectRefused
    <3>2. CASE ~CollectRefused
      BY <2>1, <3>2, SameFiles
         DEF EndWalk, WalkRefused, WalkPanics, TraversalError, walk, queue
    <3> QED BY <3>1, <3>2
  <2> QED BY <1>1, <2>1, DiscoverDistinct, FlushDistinct, CollectDistinct DEF Walking
<1>2. CASE Calling
  <2>1. CASE Close
    <3>1. Len(keys) \in Nat BY DEF TypeOK
    <3>2. Len(keys') = Len(keys) BY <2>1, <3>1 DEF Close
    <3> QED BY <2>1, <3>2, SameFiles DEF Close, queue
  <2>2. CASE ~Close
    BY <1>2, <2>2, SameFiles
       DEF Calling, SpawnWorker, PoolIsUp, NotifyOne, Finish, NotifyAll,
           Fallback, Report, Crash, walk, queue
  <2> QED BY <2>1, <2>2
<1>3. ASSUME NEW d \in Drainers, Draining(d) \/ SpuriousWakeup(d) PROVE Distinct'
  BY <1>3, SameFiles
     DEF Draining, Claim, Exit, Park, Work, Die, SpuriousWakeup, walk, queue
<1>4. CASE Terminated
  BY <1>4, SameFiles DEF Terminated, vars, walk, queue
<1> QED BY <1>1, <1>2, <1>3, <1>4 DEF Next

LEMMA NextCrewed ==
  ASSUME TypeOK, Phases, Course, Crewed, Next PROVE Crewed'
<1>1. CASE Walking
  <2>1. UNCHANGED <<pc, report>> /\ step' # "spawn"
    BY <1>1 DEF Walking, Discover, PushBatch, TraversalError, Flush, EndWalk,
                WalkRefused, WalkPanics, Collect, CollectRefused, crew, final
  <2>2. step \in {"walk", "collect"}
    BY <1>1 DEF Walking, Discover, TraversalError, Flush, EndWalk,
                WalkRefused, WalkPanics, Collect, CollectRefused
  <2>3. Spawned' = Spawned BY <2>1 DEF Spawned
  <2> QED BY <2>1, <2>2, <2>3 DEF Crewed
<1>2. CASE Calling
  <2>1. CASE Report \/ Crash
    <3>1. step' = "end" /\ pc' = pc BY <2>1 DEF Report, Crash, crew
    <3>2. Spawned' = Spawned BY <3>1 DEF Spawned
    <3> QED BY <3>1, <3>2 DEF Crewed
  <2>2. ASSUME NEW w \in Workers, SpawnWorker(w) PROVE Crewed'
    <3>1. pc' = [pc EXCEPT ![w] = "seeking"] /\ UNCHANGED <<step, queued, report>>
      BY <2>2 DEF SpawnWorker, queue, final
    <3>2. pc'[Caller] = pc[Caller] BY <3>1, WorkersAssumption
    <3>3. step \in {"spawn", "crew"} BY <2>2 DEF SpawnWorker, MayWiden
    <3> QED BY <3>1, <3>2, <3>3 DEF Crewed
  <2>3. CASE Fallback
    <3>1. pc' = [pc EXCEPT ![Caller] = "seeking"] /\ UNCHANGED <<step, queued, report>>
      BY <2>3 DEF Fallback, queue, final
    <3>2. Spawned' = Spawned BY <3>1, WorkersAssumption DEF Spawned, TypeOK, Drainers
    <3> QED BY <2>3, <3>1, <3>2 DEF Crewed, Fallback
  <2>4. CASE PoolIsUp \/ NotifyOne \/ Finish \/ NotifyAll \/ Close
    <3>1. UNCHANGED <<pc, report, queued>> /\ step # "end"
      BY <2>4 DEF PoolIsUp, NotifyOne, Finish, NotifyAll, Close, queue, crew, final
    <3>2. Spawned' = Spawned BY <3>1 DEF Spawned
    <3>3. /\ step' \notin {"spawn", "crew", "collect"}
          /\ step' \in {"walk", "notify"} => step \in {"spawn", "crew", "notify"}
      BY <2>4 DEF PoolIsUp, NotifyOne, Finish, NotifyAll, Close
    <3> QED BY <3>1, <3>2, <3>3 DEF Crewed
  <2> QED BY <1>2, <2>1, <2>2, <2>3, <2>4 DEF Calling
<1>3. ASSUME NEW d \in Drainers, Draining(d) \/ SpuriousWakeup(d) PROVE Crewed'
  <2>1. UNCHANGED <<queued, report>>
    BY <1>3 DEF Draining, Claim, Exit, Park, Work, Die, SpuriousWakeup, queue, final
  <2>2. \A e \in Drainers : pc'[e] = "unborn" <=> pc[e] = "unborn"
    BY <1>3 DEF Draining, Claim, Exit, Park, Work, Die, SpuriousWakeup, AtQueue,
                Awake, crew, TypeOK, Phases
  <2>3. Spawned' = Spawned BY <2>2 DEF Spawned, Drainers
  <2>4. step' = step \/ (step' \in {"scope", "finish"} /\ step # "end")
    <3>1. CASE Die(d)
      <4>1. pc[d] = "working" BY <3>1 DEF Die
      <4>2. step # "end" BY <4>1 DEF Course, Joined
      <4> QED BY <3>1, <4>2 DEF Die
    <3>2. CASE ~Die(d)
      BY <1>3, <3>2 DEF Draining, Claim, Exit, Park, Work, SpuriousWakeup
    <3> QED BY <3>1, <3>2
  <2> QED BY <2>1, <2>2, <2>3, <2>4 DEF Crewed, Drainers
<1>4. CASE Terminated
  BY <1>4 DEF Terminated, vars, queue, crew, final, Crewed, Spawned
<1> QED BY <1>1, <1>2, <1>3, <1>4 DEF Next

LEMMA NextOnceInv == OnceInv /\ [Next]_vars => OnceInv'
<1> SUFFICES ASSUME OnceInv, [Next]_vars PROVE OnceInv'
  OBVIOUS
<1>1. ReportInv' BY NextReportInv DEF OnceInv
<1>2. CASE Next
  BY <1>1, <1>2, NextDistinct, NextCrewed DEF OnceInv, ReportInv, QueueInv
<1>3. CASE UNCHANGED vars
  <2> USE <1>3 DEF vars, walk, queue, crew, final, OnceInv
  <2>1. Distinct' BY DEF Distinct, Walked
  <2>2. Crewed' BY DEF Crewed, Spawned
  <2> QED BY <1>1, <2>1, <2>2
<1> QED BY <1>2, <1>3

LEMMA InitOnceInv == Init => OnceInv
<1> SUFFICES ASSUME Init PROVE OnceInv
  OBVIOUS
<1>1. ReportInv BY InitReportInv
<1>2. Len(keys) = 0 BY DEF Init
<1>3. Distinct BY <1>2 DEF Distinct
<1>4. Crewed BY DEF Init, Crewed, Drainers
<1> QED BY <1>1, <1>3, <1>4 DEF OnceInv

(* The inductive invariant holds for any number of files and workers.       *)
THEOREM OnceInvariant == Spec => []OnceInv
<1> QED BY InitOnceInv, NextOnceInv, PTL DEF Spec

-----------------------------------------------------------------------------
(* A step of FormatPool is a step of FormatOnce, or changes nothing of it.  *)

Promised == Promise!Next \/ UNCHANGED <<Found, AbstractFate, Manned, Listing>>

\* the abstract files are those of the walk's list, so are the claimed ones
FoundByWalk == \A f \in Files : f \in Found <=> \E i \in 1..Len(keys) : Walked[i] = f

LEMMA FoundIs == TypeOK /\ KeysOfWalk => FoundByWalk
<1> SUFFICES ASSUME TypeOK, KeysOfWalk, NEW f \in Files
             PROVE  f \in Found <=> \E i \in 1..Len(keys) : Walked[i] = f
  BY DEF FoundByWalk
<1>1. \A k \in 1..Len(keys) :
         keys[k][2] \in 1..Len(keys) /\ keys[k][1] = Rank[Walked[keys[k][2]]]
  BY DEF KeysOfWalk
<1>2. \A i \in 1..Len(keys) : Walked[i] \in Files BY DEF KeysOfWalk, TypeOK
<1>3. ASSUME f \in Found PROVE \E i \in 1..Len(keys) : Walked[i] = f
  BY SMTT(60), <1>1, <1>2, <1>3, RankAssumption DEF Found
<1>4. ASSUME NEW i \in 1..Len(keys), Walked[i] = f PROVE f \in Found
  <2>1. PICK k \in 1..Len(keys) : keys[k][2] = i BY DEF KeysOfWalk
  <2> QED BY <1>1, <1>4, <2>1 DEF Found
<1> QED BY <1>3, <1>4

\* The same of the next state.
LEMMA FoundIsNext == TypeOK' /\ KeysOfWalk' => FoundByWalk'
  BY FoundIs, PTL

LEMMA ClaimedWalked ==
  ASSUME TypeOK, KeysOfWalk, NEW i \in 1..Len(queued)
  PROVE  /\ i \in 1..Len(keys) /\ Walked[i] = queued[i] /\ queued[i] \in Files
         /\ queued[i] \in Found
<1>1. queued \in Seq(Files) /\ batch \in Seq(Files) BY DEF TypeOK
<1>2. Len(Walked) = Len(queued) + Len(batch) /\ Walked[i] = queued[i]
  BY <1>1 DEF Walked
<1>3. i \in 1..Len(keys) BY <1>1, <1>2 DEF KeysOfWalk
<1>4. queued[i] \in Files BY <1>1
<1> QED BY <1>2, <1>3, <1>4, FoundIs DEF FoundByWalk

\* so a file has one position in the queue
LEMMA OnePosition ==
  ASSUME TypeOK, KeysOfWalk, Distinct,
         NEW i \in 1..Len(queued), NEW j \in 1..Len(queued), queued[i] = queued[j]
  PROVE  i = j
  BY ClaimedWalked DEF Distinct

LEMMA Silent ==
  ASSUME OnceInv, OnceInv', UNCHANGED <<keys, next, report>>,
         Dead' = Dead, Spawned' = Spawned, step' = "crew" <=> step = "crew",
         \A i \in 1..next : queued'[i] = queued[i],
         \A e \in Drainers \ Dead : Holds(e)' = Holds(e) /\ outcomes'[e] = outcomes[e]
  PROVE  Promised
<1>1. AbstractFate' = AbstractFate BY FateKept DEF OnceInv, ReportInv
<1>2. Found' = Found BY DEF Found
<1>3. Manned' = Manned BY DEF Manned
<1>4. Listing' = Listing BY DEF Listing
<1> QED BY <1>1, <1>2, <1>3, <1>4 DEF Promised

\* a step that leaves the threads alone
LEMMA CrewSilent ==
  ASSUME OnceInv, OnceInv', UNCHANGED <<keys, next, report, pc, claim, outcomes>>,
         step' = "crew" <=> step = "crew",
         \A i \in 1..next : queued'[i] = queued[i]
  PROVE  Promised
<1>1. Dead' = Dead /\ Spawned' = Spawned BY DEF Dead, Spawned
<1>2. \A e \in Drainers : Holds(e)' = Holds(e) BY DEF Holds
<1> QED BY <1>1, <1>2, Silent

\* before the end there is no listing
LEMMA Unlisted ==
  ASSUME OnceInv, step # "end" PROVE Listing = <<>>
<1>1. report = <<>> BY DEF OnceInv, Crewed
<1> QED BY <1>1 DEF Listing

LEMMA DiscoverPromised ==
  ASSUME OnceInv, OnceInv', NEW f \in Files, Discover(f) PROVE Promised
<1> USE DEF OnceInv, ReportInv, QueueInv
<1> DEFINE n == Len(keys)
<1>0. /\ queued \in Seq(Files) /\ batch \in Seq(Files) /\ n \in Nat
      /\ keys \in Seq(Nat \X Nat) /\ next \in Nat /\ next <= Len(queued)
      /\ Rank[f] \in Nat
  BY SMTT(60), RankAssumption DEF TypeOK
<1>1. /\ Len(keys') = n + 1 /\ keys'[n + 1] = <<Rank[f], n + 1>>
      /\ \A k \in 1..n : keys'[k] = keys[k]
  BY <1>0 DEF Discover
<1>2. Found' = Found \cup {f}
  <2>1. 1..(n + 1) = 1..n \cup {n + 1} /\ n + 1 \in 1..(n + 1) BY <1>0
  <2> HIDE DEF n
  <2>2. ASSUME NEW g \in Files PROVE g \in Found' <=> g \in Found \cup {f}
    <3>1. g \in Found' <=> \E k \in 1..(n + 1) : keys'[k][1] = Rank[g]
      BY <1>1 DEF Found
    <3>2. g \in Found <=> \E k \in 1..n : keys[k][1] = Rank[g] BY DEF Found, n
    <3>3. keys'[n + 1][1] = Rank[g] <=> g = f BY <1>1, RankAssumption
    <3> QED BY <1>1, <2>1, <3>1, <3>2, <3>3
  <2> QED BY <2>2 DEF Found
<1>3. f \notin Found
  <2>1. f \in unvisited BY DEF Discover
  <2> QED BY <2>1, FoundIs DEF FoundByWalk, Distinct
<1>4. UNCHANGED <<next, report, pc, claim, outcomes>> /\ step = "walk" /\ step' # "crew"
  BY DEF Discover, PushBatch, queue, crew, final
<1>5. \A i \in 1..next : queued'[i] = queued[i]
  <2>1. queued' = queued \o Append(batch, f) \/ queued' = queued
    BY DEF Discover, PushBatch, queue
  <2>2. Append(batch, f) \in Seq(Files) BY <1>0
  <2> QED BY <1>0, <2>1, <2>2
<1>6. Dead' = Dead /\ Spawned' = Spawned BY <1>4 DEF Dead, Spawned
<1>7. \A e \in Drainers : Holds(e)' = Holds(e) BY <1>4 DEF Holds
<1>8. AbstractFate' = AbstractFate BY <1>4, <1>5, <1>6, <1>7, FateKept
<1>9. Manned' = Manned /\ Listing' = Listing BY <1>4, <1>6 DEF Manned, Listing
<1>10. Listing = <<>> BY <1>4, Unlisted
<1>11. Promise!Find({f})
  BY <1>2, <1>3, <1>8, <1>9, <1>10 DEF Promise!Find
<1> QED BY <1>11 DEF Promised, Promise!Next

\* before anything was claimed every file is untouched
LEMMA Untouched ==
  ASSUME QueueInv, next = 0
  PROVE  /\ AbstractFate = [f \in Files |-> "none"]
         /\ \A e \in Drainers : Holds(e) = {} /\ outcomes[e] = {}
<1>1. 1..next = {} BY DEF QueueInv
<1>2. \A e \in Drainers : Holds(e) = {} /\ outcomes[e] = {}
  BY <1>1 DEF QueueInv, ClaimBounds, Holds
<1>3. \A f \in Files : Fate(f) = "none" BY <1>1, <1>2 DEF Fate, Lost, Kept
<1> QED BY <1>2, <1>3, FateIs DEF Fates

LEMMA CollectPromised ==
  ASSUME OnceInv, OnceInv', Collect PROVE Promised
<1> USE DEF OnceInv, ReportInv, QueueInv
<1>1. keys = <<>> /\ next = 0 /\ \A d \in Drainers : pc[d] = "unborn"
  BY DEF Collect, Course, Phases
<1>2. UNCHANGED <<pc, claim, outcomes, next, report>> /\ step = "collect"
  BY DEF Collect, crew, final
<1>3. Found = {} BY <1>1 DEF Found
<1>4. AbstractFate' = AbstractFate
  <2>1. 1..next = {} BY <1>1
  <2>2. Dead' = Dead BY <1>2 DEF Dead
  <2>3. \A e \in Drainers : Holds(e)' = Holds(e) BY <1>2 DEF Holds
  <2> QED BY <1>2, <2>1, <2>2, <2>3, FateKept
<1>5. Manned' = Manned
  <2>1. Spawned = {} /\ Spawned' = {} BY <1>1, <1>2 DEF Spawned, Drainers
  <2> QED BY <2>1 DEF Manned
<1>6. Listing = <<>> BY <1>2, Unlisted
<1>7. Listing' = Listing BY <1>2 DEF Listing
<1>8. CASE Found' = {}
  BY <1>3, <1>4, <1>5, <1>7, <1>8 DEF Promised
<1>9. CASE Found' # {}
  <2>1. PICK S \in SUBSET Files : S = Found' BY DEF Found
  <2>2. Promise!Find(S)
    BY <1>3, <1>4, <1>5, <1>6, <1>7, <1>9, <2>1 DEF Promise!Find
  <2> QED BY <2>2 DEF Promised, Promise!Next
<1> QED BY <1>8, <1>9

LEMMA WalkingPromised ==
  ASSUME OnceInv, OnceInv', Walking PROVE Promised
<1>1. CASE Flush
  <2>1. /\ queued' = queued \o batch /\ step' # "crew" /\ step # "crew"
        /\ UNCHANGED <<keys, next, report, pc, claim, outcomes>>
    BY <1>1 DEF Flush, PushBatch, crew, final
  <2>2. /\ queued \in Seq(Files) /\ batch \in Seq(Files)
        /\ next \in Nat /\ next <= Len(queued)
    BY DEF OnceInv, ReportInv, QueueInv, TypeOK
  <2>3. \A i \in 1..next : queued'[i] = queued[i] BY <2>1, <2>2
  <2> QED BY <2>1, <2>3, CrewSilent
<1>2. CASE EndWalk \/ WalkRefused \/ WalkPanics \/ CollectRefused
           \/ \E f \in Files : TraversalError(f)
  <2>1. /\ queued' = queued /\ step' # "crew" /\ step # "crew"
        /\ UNCHANGED <<keys, next, report, pc, claim, outcomes>>
    BY <1>2 DEF EndWalk, WalkRefused, WalkPanics, CollectRefused, TraversalError,
                walk, queue, crew, final
  <2> QED BY <2>1, CrewSilent
<1> QED BY <1>1, <1>2, DiscoverPromised, CollectPromised DEF Walking

\* a thread that died leaves a file nobody has
LEMMA DeadCost ==
  ASSUME OnceInv, Dead # {} PROVE \E f \in Files : AbstractFate[f] = "lost"
<1> USE DEF OnceInv, ReportInv, QueueInv
<1>1. PICK i \in 1..next : \A e \in Drainers \ Dead : i \notin Holds(e)
  BY DEF DeadLose
<1>2. i \in 1..Len(queued) BY <1>1 DEF TypeOK
<1>3. queued[i] \in Files BY <1>2, ClaimedWalked
<1>4. Lost(queued[i]) BY <1>1 DEF Lost
<1> QED BY <1>3, <1>4, FateIs DEF Fates, Fate

LEMMA SpawnPromised ==
  ASSUME OnceInv, OnceInv', NEW w \in Workers, SpawnWorker(w) PROVE Promised
<1> USE DEF OnceInv, ReportInv, QueueInv
<1>1. /\ pc' = [pc EXCEPT ![w] = "seeking"] /\ pc[w] = "unborn"
      /\ UNCHANGED <<keys, next, report, step, queued, claim, outcomes>>
  BY DEF SpawnWorker, walk, queue, final
<1>2. Dead' = Dead BY SMTT(60), <1>1 DEF Dead, TypeOK, Drainers
<1>3. \A e \in Drainers : Holds(e)' = Holds(e) BY <1>1 DEF Holds
<1>4. AbstractFate' = AbstractFate BY <1>1, <1>2, <1>3, FateKept
<1>5. Found' = Found /\ Listing' = Listing BY <1>1 DEF Found, Listing
<1>6. Manned /\ Manned'
  <2>1. CASE step = "crew" BY <1>1, <2>1 DEF Manned
  <2>2. CASE step = "spawn"
    <3>1. queued = <<>> /\ next = 0 BY <2>2 DEF Crewed, TypeOK
    <3>2. 1..next = {} BY <3>1
    <3>3. Dead = {} BY <3>2 DEF DeadLose
    <3>4. w \in Spawned' BY <1>1 DEF Spawned, TypeOK, Drainers
    <3> QED BY <1>2, <3>3, <3>4 DEF Manned
  <2> QED BY <2>1, <2>2 DEF SpawnWorker, MayWiden
<1> QED BY <1>4, <1>5, <1>6 DEF Promised, Manned

\* the pool is up: a collected pool whose every thread died is given up
LEMMA PoolIsUpPromised ==
  ASSUME OnceInv, OnceInv', PoolIsUp PROVE Promised
<1> USE DEF OnceInv, ReportInv, QueueInv
<1>1. /\ UNCHANGED <<keys, next, report, queued, pc, claim, outcomes>>
      /\ step' # "crew"
  BY DEF PoolIsUp, walk, queue, crew, final
<1>2. CASE step # "crew" BY <1>1, <1>2, CrewSilent
<1>3. CASE step = "crew"
  <2>1. Dead' = Dead /\ Spawned' = Spawned BY <1>1 DEF Dead, Spawned
  <2>2. \A e \in Drainers : Holds(e)' = Holds(e) BY <1>1 DEF Holds
  <2>3. AbstractFate' = AbstractFate BY <1>1, <2>1, <2>2, FateKept
  <2>4. Found' = Found /\ Listing' = Listing BY <1>1 DEF Found, Listing
  <2>5. Manned BY <1>3 DEF Manned
  <2>6. CASE Manned' BY <2>3, <2>4, <2>5, <2>6 DEF Promised, Manned
  <2>7. CASE ~Manned'
    <3>1. Dead # {} BY <2>1, <2>7 DEF Manned
    <3>2. Manned' = FALSE BY <2>7 DEF Manned
    <3>3. Promise!Abandon
      BY <1>3, <2>3, <2>4, <2>5, <3>1, <3>2, DeadCost, Unlisted DEF Promise!Abandon
    <3> QED BY <3>3 DEF Promised, Promise!Next
  <2> QED BY <2>6, <2>7
<1> QED BY <1>2, <1>3

LEMMA ClosePromised ==
  ASSUME OnceInv, OnceInv', Close PROVE Promised
<1> USE DEF OnceInv, ReportInv, QueueInv
<1>1. /\ UNCHANGED <<next, report, queued, batch, pc, claim, outcomes>>
      /\ step' # "crew" /\ step # "crew"
  BY DEF Close, queue, crew, final
<1>2. Len(keys') = Len(keys)
  <2>1. Len(keys) \in Nat BY DEF TypeOK
  <2> QED BY <2>1 DEF Close
<1>3. Found' = Found
  <2>1. \A f \in Files : f \in Found <=> \E i \in 1..Len(keys) : Walked[i] = f
    BY FoundIs DEF FoundByWalk
  <2>2. \A f \in Files : f \in Found' <=> \E i \in 1..Len(keys') : Walked'[i] = f
    BY FoundIsNext DEF FoundByWalk
  <2>3. Walked' = Walked BY <1>1 DEF Walked
  <2> QED BY <1>2, <2>1, <2>2, <2>3 DEF Found
<1>4. Dead' = Dead /\ Spawned' = Spawned BY <1>1 DEF Dead, Spawned
<1>5. \A e \in Drainers : Holds(e)' = Holds(e) BY <1>1 DEF Holds
<1>6. AbstractFate' = AbstractFate BY <1>1, <1>4, <1>5, FateKept
<1> QED BY <1>1, <1>3, <1>4, <1>6 DEF Promised, Manned, Listing

\* with a hand left at the join everything was claimed, so all have a fate
LEMMA AllTaken ==
  ASSUME OnceInv, Report, ~badArgs, keys # <<>>, Manned, NEW f \in Found
  PROVE  AbstractFate[f] # "none"
<1> USE DEF OnceInv, ReportInv, QueueInv
<1>1. Walked = queued /\ Len(keys) = Len(queued) /\ \A d \in Drainers : claim[d] = 0
  BY WhenReported
<1>2. f \in Files BY DEF Found
<1>3. PICK i \in 1..Len(queued) : queued[i] = f BY <1>1, <1>2, FoundIs DEF FoundByWalk
<1>4. step \in {"join", "gather"} /\ Joined /\ (Spawned = {} => pc[Caller] = "exited")
  BY DEF Report, Course
<1>5. next = Len(queued)
  <2>1. CASE Spawned = {}
    <3>1. pc[Caller] = "exited" /\ Caller \in Drainers BY <1>4, <2>1 DEF Drainers
    <3> QED BY <3>1 DEF ExitedDone
  <2>2. CASE Spawned # {}
    <3>1. PICK w \in Spawned : w \notin Dead BY <1>4, <2>2 DEF Manned
    <3>2. w \in Drainers /\ pc[w] = "exited"
      BY <1>4, <3>1 DEF Joined, Spawned, Dead, Drainers
    <3> QED BY <3>2 DEF ExitedDone
  <2> QED BY <2>1, <2>2
<1>6. CASE \E e \in Drainers \ Dead : i \in Holds(e)
  <2>1. PICK e \in Drainers \ Dead : i \in Holds(e) BY <1>6
  <2>2. PICK c \in outcomes[e] : c[1] = i BY <1>1, <2>1 DEF Holds
  <2>3. Kept(f) BY <1>3, <2>1, <2>2 DEF Kept
  <2> QED BY <1>2, <2>3, FateIs DEF Fates, Fate
<1>7. CASE \A e \in Drainers \ Dead : i \notin Holds(e)
  <2>1. Lost(f) BY <1>3, <1>5, <1>7 DEF Lost
  <2> QED BY <1>2, <2>1, FateIs DEF Fates, Fate
<1> QED BY <1>6, <1>7

LEMMA ReportPromised ==
  ASSUME OnceInv, OnceInv', Report PROVE Promised
<1> USE DEF OnceInv, ReportInv, QueueInv
<1>1. /\ UNCHANGED <<keys, next, queued, pc, claim, outcomes, unwinding, badArgs>>
      /\ step # "crew" /\ step # "end" /\ step' = "end"
  BY DEF Report, walk, queue, crew
<1>2. Dead' = Dead /\ Spawned' = Spawned /\ Found' = Found BY <1>1 DEF Dead, Spawned, Found
<1>3. \A e \in Drainers : Holds(e)' = Holds(e) BY <1>1 DEF Holds
<1>4. AbstractFate' = AbstractFate BY <1>1, <1>2, <1>3, FateKept
<1>5. Manned' = Manned BY <1>1, <1>2 DEF Manned
<1>6. Listing = <<>> BY <1>1, Unlisted
<1>7. CASE report' = <<>>
  <2>1. Listing' = <<>> BY <1>7 DEF Listing
  <2> QED BY <1>2, <1>4, <1>5, <1>6, <2>1 DEF Promised
<1>8. CASE report' # <<>>
  <2>1. ~badArgs BY <1>8 DEF Report
  <2>2. Len(report') = Len(keys) /\ Len(keys) \in Nat
    BY <2>1, ReadOutTells, WhenReported
  <2>3. keys # <<>>
    <3>1. report' = ReadOut(keys, Collected) BY <2>1 DEF Report
    <3>2. ASSUME keys = <<>> PROVE FALSE
      <4>1. 1..Len(keys) = {} BY <3>2
      <4>2. report' = <<>> BY <3>1, <4>1 DEF ReadOut
      <4> QED BY <1>8, <4>2
    <3> QED BY <3>2
  <2>4. ~unwinding' /\ ~badArgs' BY <1>1, <2>1, WhenReported
  <2> DEFINE n == Len(report')
  <2>5. /\ {report'[k][1] : k \in 1..n} = Found'
        /\ \A i, j \in 1..n : i < j => Rank[report'[i][1]] < Rank[report'[j][1]]
    BY <1>1, <2>4 DEF ReportFaithful
  <2>6. /\ Len(Listing') = n /\ n \in Nat
        /\ \A k \in 1..n : Listing'[k] = report'[k][1]
    BY <2>2 DEF Listing
  <2> HIDE DEF n
  <2>7. {Listing'[k] : k \in 1..Len(Listing')} = Found
    BY <1>2, <2>5, <2>6
  <2>8. Promise!InOrder(Listing') BY <2>5, <2>6 DEF Promise!InOrder
  <2>9. Manned => \A f \in Found : AbstractFate[f] # "none"
    BY <2>1, <2>3, AllTaken
  <2>10. Promise!Publish
    BY <1>2, <1>4, <1>5, <1>6, <2>7, <2>8, <2>9 DEF Promise!Publish
  <2> QED BY <2>10 DEF Promised, Promise!Next
<1> QED BY <1>7, <1>8

LEMMA CallingPromised ==
  ASSUME OnceInv, OnceInv', Calling PROVE Promised
<1>1. CASE NotifyOne \/ Finish \/ NotifyAll \/ Crash
  <2>1. /\ UNCHANGED <<keys, next, report, queued, pc, claim, outcomes>>
        /\ step' # "crew" /\ step # "crew"
    BY <1>1 DEF NotifyOne, Finish, NotifyAll, Crash, walk, queue, crew, final
  <2> QED BY <2>1, CrewSilent
<1>2. CASE Fallback
  <2>1. /\ UNCHANGED <<keys, next, report, queued, step, claim, outcomes>>
        /\ pc' = [pc EXCEPT ![Caller] = "seeking"] /\ pc[Caller] = "unborn"
    BY <1>2 DEF Fallback, walk, queue, final
  <2>2. Dead' = Dead /\ Spawned' = Spawned
    BY SMTT(60), <2>1, WorkersAssumption DEF Dead, Spawned, OnceInv, ReportInv, QueueInv,
                                   TypeOK, Drainers
  <2>3. \A e \in Drainers : Holds(e)' = Holds(e) BY <2>1 DEF Holds
  <2> QED BY <2>1, <2>2, <2>3, Silent
<1> QED BY <1>1, <1>2, SpawnPromised, PoolIsUpPromised, ClosePromised, ReportPromised
        DEF Calling

\* a thread that takes a step for the worse or the better is a hand that is left
LEMMA HandLeft ==
  ASSUME OnceInv, NEW d \in Drainers, pc[d] = "working" PROVE Manned
<1>1. d \notin Dead BY DEF Dead
<1>2. CASE d \in Workers BY <1>1, <1>2 DEF Spawned, Manned
<1>3. CASE d = Caller BY <1>3 DEF OnceInv, Crewed, Manned
<1> QED BY <1>2, <1>3 DEF Drainers

LEMMA ClaimPromised ==
  ASSUME OnceInv, OnceInv', NEW d \in Drainers, Claim(d) PROVE Promised
<1> USE DEF OnceInv, ReportInv, QueueInv
<1>1. /\ UNCHANGED <<keys, report, queued, step, outcomes>> /\ next' = next + 1
      /\ claim' = [claim EXCEPT ![d] = next + 1] /\ pc' = [pc EXCEPT ![d] = "working"]
      /\ pc[d] \in {"seeking", "waiting"}
  BY DEF Claim, AtQueue, Awake, walk, queue, final
<1>2. Dead' = Dead /\ Spawned' = Spawned BY SMTT(60), <1>1 DEF Dead, Spawned, TypeOK, Drainers
<1>3. claim[d] = 0 /\ d \notin Dead /\ next \in Nat
  BY SMTT(60), <1>1 DEF ClaimBounds, TypeOK, Dead
<1>4. /\ Holds(d)' = Holds(d) \cup {next + 1}
      /\ \A e \in Drainers \ {d} : Holds(e)' = Holds(e)
  BY SMTT(60), <1>1, <1>3 DEF Holds, TypeOK
<1>5. \A e \in Drainers : Holds(e) \subseteq 1..next BY DEF ClaimBounds
<1>6. ASSUME NEW f \in Files PROVE Fate(f)' = Fate(f)
  <2>1. 1..next' = 1..next \cup {next + 1} /\ next + 1 \notin 1..next BY <1>1, <1>3
  <2>2. ASSUME Lost(f) PROVE Lost(f)'
    BY <1>1, <1>2, <1>4, <2>1, <2>2 DEF Lost
  <2>3. ASSUME Lost(f)' PROVE Lost(f)
    <3>1. PICK i \in 1..next' : /\ queued'[i] = f
                                /\ \A e \in Drainers \ Dead : i \notin Holds(e)'
      BY <1>2, <2>3 DEF Lost
    <3>2. i # next + 1 BY <1>3, <1>4, <3>1
    <3> QED BY <1>1, <1>4, <2>1, <3>1, <3>2 DEF Lost
  <2>4. Kept(f)' = Kept(f) BY <1>1, <1>2 DEF Kept
  <2> QED BY <2>2, <2>3, <2>4 DEF Fate
<1>7. AbstractFate' = AbstractFate BY <1>6, FateIs, FateIsNext DEF Fates
<1> QED BY <1>1, <1>2, <1>7 DEF Promised, Found, Manned, Listing

LEMMA WorkPromised ==
  ASSUME OnceInv, OnceInv', NEW d \in Drainers, Work(d) PROVE Promised
<1> USE DEF OnceInv, ReportInv, QueueInv
<1>0. /\ claim[d] \in Holds(d) /\ claim[d] # 0 /\ claim[d] \in 1..next
      /\ claim[d] \in 1..Len(queued)
  <2>1. claim[d] # 0 BY DEF Work, ClaimBounds
  <2>2. claim[d] \in Holds(d) BY <2>1 DEF Holds
  <2>3. claim[d] \in 1..next BY <2>2 DEF ClaimBounds
  <2> QED BY SMTT(60), <2>1, <2>2, <2>3 DEF TypeOK
<1>p. PICK p \in 1..Len(queued) : p = claim[d] BY <1>0
<1>f. PICK f \in Files : f = queued[p] BY ClaimedWalked
<1>o. PICK o : o = <<p, FormatFile(disk[f], mode)>> OBVIOUS
<1>1. /\ UNCHANGED <<keys, report, queued, step, next>>
      /\ claim' = [claim EXCEPT ![d] = 0] /\ pc' = [pc EXCEPT ![d] = "seeking"]
      /\ outcomes' = [outcomes EXCEPT ![d] = @ \cup {o}]
      /\ pc[d] = "working"
  BY <1>p, <1>f, <1>o DEF Work, walk, queue, final
<1>2. Dead' = Dead /\ Spawned' = Spawned BY SMTT(60), <1>1 DEF Dead, Spawned, TypeOK, Drainers
<1>3. d \notin Dead BY <1>1 DEF Dead
<1>4. p \in Holds(d) /\ p \in 1..next BY <1>0, <1>p
<1>5. f \in Files /\ f \in Found BY <1>f, ClaimedWalked
<1>6. o[1] = p BY <1>o
<1>7. \A e \in Drainers : Holds(e)' = Holds(e)
  <2>1. /\ outcomes'[d] = outcomes[d] \cup {o} /\ claim'[d] = 0
        /\ \A e \in Drainers \ {d} : outcomes'[e] = outcomes[e] /\ claim'[e] = claim[e]
    BY <1>1 DEF TypeOK
  <2>2. Holds(d)' = Holds(d)
    <3>1. p # 0 BY <1>4 DEF TypeOK
    <3>2. {c[1] : c \in outcomes[d] \cup {o}} = {c[1] : c \in outcomes[d]} \cup {p}
      BY <1>6
    <3> QED BY <1>p, <2>1, <3>1, <3>2 DEF Holds
  <2> QED BY <2>1, <2>2 DEF Holds
<1>8. \A i \in 1..Len(queued) : queued[i] = f => i = p
  BY <1>f, OnePosition
<1>9. ASSUME NEW g \in Files PROVE Lost(g)' = Lost(g)
  BY <1>1, <1>2, <1>7 DEF Lost
<1>10. ~Lost(f)
  <2>1. \A i \in 1..next : i \in 1..Len(queued) BY DEF TypeOK
  <2> QED BY <1>3, <1>4, <1>8, <2>1 DEF Lost
<1>11. \A e \in Drainers : \A c \in outcomes[e] : c[1] \in 1..Len(queued)
  <2>1. \A e \in Drainers : \A c \in outcomes[e] : c[1] \in 1..next
    BY DEF ClaimBounds, Holds
  <2> QED BY SMTT(60), <2>1 DEF TypeOK
<1>12. ~Kept(f)
  <2>1. ASSUME NEW e \in Drainers, NEW c \in outcomes[e], queued[c[1]] = f PROVE FALSE
    <3>1. c[1] = p /\ p \in Holds(e) BY <1>8, <1>11, <2>1 DEF Holds
    <3>2. e = d BY <1>4, <3>1 DEF ClaimedOnce
    <3> QED BY <1>p, <2>1, <3>1, <3>2 DEF ClaimedOnce
  <2> QED BY <2>1 DEF Kept
<1>13. Kept(f)'
  <2>1. o \in outcomes'[d] BY <1>1 DEF TypeOK
  <2> QED BY <1>1, <1>2, <1>3, <1>6, <1>f, <2>1 DEF Kept
<1>14. ASSUME NEW g \in Files, g # f PROVE Kept(g)' = Kept(g)
  <2>1. \A e \in Drainers : \A c : c \in outcomes'[e] <=>
           c \in outcomes[e] \/ (e = d /\ c = o)
    BY SMTT(60), <1>1 DEF TypeOK
  <2>2. queued[o[1]] # g BY <1>6, <1>f, <1>14
  <2> QED BY <1>1, <1>2, <2>1, <2>2 DEF Kept
<1>15. AbstractFate[f] = "none" BY <1>5, <1>10, <1>12, FateIs DEF Fates, Fate
<1>16. AbstractFate' = [AbstractFate EXCEPT ![f] = "done"]
  <2>1. Fate(f)' = "done" BY <1>5, <1>9, <1>10, <1>13 DEF Fate
  <2>2. \A g \in Files : g # f => Fate(g)' = Fate(g) BY <1>9, <1>14 DEF Fate
  <2> QED BY <1>5, <2>1, <2>2, FateIs, FateIsNext DEF Fates
<1>17. step # "end" BY <1>1 DEF Course, Joined
<1>18. UNCHANGED <<Found, Manned, Listing>> BY <1>1, <1>2 DEF Found, Manned, Listing
<1>19. Promise!Format(f)
  BY <1>1, <1>5, <1>15, <1>16, <1>17, <1>18, HandLeft, Unlisted DEF Promise!Format
<1> QED BY <1>5, <1>19 DEF Promised, Promise!Next

LEMMA DiePromised ==
  ASSUME OnceInv, OnceInv', NEW d \in Drainers, Die(d) PROVE Promised
<1> USE DEF OnceInv, ReportInv, QueueInv
<1>1. /\ UNCHANGED <<keys, report, queued, next, outcomes>>
      /\ claim' = [claim EXCEPT ![d] = 0] /\ pc' = [pc EXCEPT ![d] = "dead"]
      /\ pc[d] = "working"
  BY DEF Die, walk, queue, final
<1>2. Dead' = Dead \cup {d} /\ d \notin Dead BY SMTT(60), <1>1 DEF Dead, TypeOK
<1>3. \A e \in Drainers \ Dead' : e # d /\ e \notin Dead /\ Holds(e)' = Holds(e)
  BY <1>1, <1>2 DEF Holds, TypeOK
<1>4. Holds(d) # {} /\ Holds(d) \subseteq 1..next /\ Holds(d) \subseteq 1..Len(queued)
  <2>1. claim[d] \in Holds(d) BY <1>1 DEF ClaimBounds, Holds
  <2>2. Holds(d) \subseteq 1..next BY DEF ClaimBounds
  <2>3. 1..next \subseteq 1..Len(queued) BY DEF TypeOK
  <2> QED BY <2>1, <2>2, <2>3
<1>5. PICK S \in SUBSET Files : S = {queued[i] : i \in Holds(d)}
  <2>1. \A i \in Holds(d) : queued[i] \in Files BY <1>4, ClaimedWalked
  <2> QED BY <2>1
<1>6. S \subseteq Found /\ S # {} BY <1>4, <1>5, ClaimedWalked
<1>7. \A i \in 1..next : queued[i] \in S => i \in Holds(d)
  <2>1. \A i \in 1..next : i \in 1..Len(queued) BY DEF TypeOK
  <2> QED BY <1>4, <1>5, <2>1, OnePosition
<1>8. ASSUME NEW f \in Files PROVE Lost(f)' <=> Lost(f) \/ f \in S
  <2>1. ASSUME f \in S PROVE Lost(f)'
    <3>1. PICK i \in Holds(d) : queued[i] = f BY <1>5, <2>1
    <3>2. \A e \in Drainers \ Dead' : i \notin Holds(e)'
      BY <1>3, <3>1 DEF ClaimedOnce
    <3> QED BY <1>1, <1>4, <3>1, <3>2 DEF Lost
  <2>2. ASSUME Lost(f) PROVE Lost(f)'
    BY <1>1, <1>3, <2>2 DEF Lost
  <2>3. ASSUME Lost(f)', f \notin S PROVE Lost(f)
    <3>1. PICK i \in 1..next : /\ queued[i] = f
                               /\ \A e \in Drainers \ Dead' : i \notin Holds(e)'
      BY <1>1, <2>3 DEF Lost
    <3>2. i \notin Holds(d) BY <1>5, <2>3, <3>1
    <3>3. ASSUME NEW e \in Drainers \ Dead PROVE i \notin Holds(e)
      BY <1>2, <1>3, <3>1, <3>2
    <3> QED BY <3>1, <3>3 DEF Lost
  <2> QED BY <2>1, <2>2, <2>3
<1>9. ASSUME NEW f \in Files, f \notin S PROVE Kept(f)' = Kept(f)
  <2>1. \A c \in outcomes[d] : queued[c[1]] # f BY <1>5, <1>9 DEF Holds
  <2> QED BY <1>1, <1>2, <2>1 DEF Kept
<1>10. \A f \in S : AbstractFate[f] # "lost"
  <2>1. ASSUME NEW f \in S, Lost(f) PROVE FALSE
    BY <1>2, <1>7, <2>1 DEF Lost
  <2> QED BY <2>1, FateIs DEF Fates, Fate
<1>11. AbstractFate' = [f \in Files |-> IF f \in S THEN "lost" ELSE AbstractFate[f]]
  BY <1>8, <1>9, FateIs, FateIsNext DEF Fates, Fate
<1>12. step # "end" BY <1>1 DEF Course, Joined
<1>13. UNCHANGED <<Found, Listing>> BY <1>1 DEF Found, Listing
<1>14. Manned' \in BOOLEAN BY DEF Manned
<1>15. Promise!LoseHand(S)
  BY <1>1, <1>6, <1>10, <1>11, <1>12, <1>13, <1>14, HandLeft, Unlisted
     DEF Promise!LoseHand
<1> QED BY <1>15 DEF Promised, Promise!Next

LEMMA WaitingPromised ==
  ASSUME OnceInv, OnceInv', NEW d \in Drainers, Exit(d) \/ Park(d) \/ SpuriousWakeup(d)
  PROVE  Promised
<1>1. UNCHANGED <<keys, report, queued, step, next, claim, outcomes>>
  BY DEF Exit, Park, SpuriousWakeup, walk, queue, crew, final
<1>2. \A e \in Drainers : /\ pc'[e] = "unborn" <=> pc[e] = "unborn"
                          /\ pc'[e] = "dead" <=> pc[e] = "dead"
  BY SMTT(60) DEF Exit, Park, SpuriousWakeup, AtQueue, Awake, crew, OnceInv, ReportInv,
         QueueInv, TypeOK
<1>3. Dead' = Dead /\ Spawned' = Spawned BY <1>2 DEF Dead, Spawned, Drainers
<1>4. \A e \in Drainers : Holds(e)' = Holds(e) BY <1>1 DEF Holds
<1> QED BY <1>1, <1>3, <1>4, Silent

LEMMA NextPromised == OnceInv /\ OnceInv' /\ [Next]_vars => Promised
<1> SUFFICES ASSUME OnceInv, OnceInv', [Next]_vars PROVE Promised
  OBVIOUS
<1>1. CASE UNCHANGED vars
  <2>1. Dead' = Dead /\ Spawned' = Spawned
    BY <1>1 DEF vars, crew, Dead, Spawned
  <2>2. \A e \in Drainers : Holds(e)' = Holds(e) BY <1>1 DEF vars, crew, Holds
  <2> QED BY <1>1, <2>1, <2>2, Silent DEF vars, walk, queue, crew, final
<1>2. ASSUME NEW d \in Drainers, Draining(d) \/ SpuriousWakeup(d) PROVE Promised
  BY <1>2, ClaimPromised, WorkPromised, DiePromised, WaitingPromised DEF Draining
<1> QED BY <1>1, <1>2, WalkingPromised, CallingPromised DEF Next, Terminated

(* On both routes, whatever was refused, died or panicked, and for any      *)
(* number of files and workers, the pool is a refinement of FormatOnce: a   *)
(* file is found once and formatted at most once, what a dead thread had is *)
(* lost and reported, and the one report lists everything found in order.   *)
THEOREM PoolImplementsFormatOnce == Spec => ImplementsFormatOnce
<1>1. Init => Promise!Init
  <2> SUFFICES ASSUME Init PROVE Promise!Init
    OBVIOUS
  <2>1. QueueInv /\ next = 0 BY InitQueueInv DEF Init
  <2>2. Found = {} /\ Listing = <<>> BY DEF Init, Found, Listing
  <2>3. Spawned = {} BY DEF Init, Spawned, Drainers
  <2> QED BY <2>1, <2>2, <2>3, Untouched DEF Promise!Init, Manned
<1>2. Promised => [Promise!Next]_(Promise!vars) BY DEF Promised, Promise!vars
<1> QED BY <1>1, <1>2, NextPromised, OnceInvariant, PTL
        DEF Spec, ImplementsFormatOnce
=============================================================================
