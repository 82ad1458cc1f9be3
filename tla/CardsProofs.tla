----------------------------- MODULE CardsProofs -----------------------------
(***************************************************************************)
(* Proofs about the request queue and the cards over it, for any tasks, any  *)
(* number of slots and any reserve.  First the queue alone: its inductive    *)
(* invariant QInv adds to its promises that the two counters are the slots   *)
(* taken (SlotsExact), that they are within the caps (Capped), that push     *)
(* numbers only grow (Numbered), and that pump() never stops beside a task   *)
(* it could start (Drained).                                                 *)
(*                                                                           *)
(* Then the cards.  A card, whatever it does, is a client of the queue:      *)
(* every step of Cards is a step of ClientQueue or leaves the queue alone,   *)
(* so the queue's promises hold of the queue under the cards.  Of the card   *)
(* itself, Alone is what makes its promises inductive: it has one thing out  *)
(* at a time, over a settled view, and a first request shows a spinner.      *)
(***************************************************************************)
EXTENDS Cards, FiniteSetTheorems, TLAPS

Capped   == active <= Concurrency /\ activeLow <= LowCap
Numbered == \A t \in Tasks : phase[t] # "new" => seq[t] < nextSeq
Drained  == pumping \/ active >= Concurrency \/ Eligible = {}

QInv == QTypeOK /\ SlotsExact /\ Capped /\ Numbered /\ FifoWithinTier /\ Drained

LEMMA LowCapNat == LowCap \in Nat /\ LowCap = Concurrency - Kept /\ LowCap <= Concurrency
  BY SlotsAssumption DEF LowCap, Kept

LEMMA SlotsFinite ==
  /\ IsFiniteSet(InSlot) /\ IsFiniteSet(InSlotLow) /\ IsFiniteSet(InSlotFore)
  /\ Cardinality(InSlot) \in Nat /\ Cardinality(InSlotLow) \in Nat
  /\ Cardinality(InSlotFore) \in Nat
  <1>1. InSlot \in SUBSET Tasks /\ InSlotLow \in SUBSET Tasks /\ InSlotFore \in SUBSET Tasks
    BY DEF InSlot, InSlotLow, InSlotFore
  <1>2. IsFiniteSet(InSlot) /\ IsFiniteSet(InSlotLow) /\ IsFiniteSet(InSlotFore)
    BY <1>1, FS_Subset, TasksAssumption
  <1> QED
    BY <1>2, FS_CardinalityType

(* A task enters a slot, or leaves it, or neither. *)
LEMMA Enters ==
  ASSUME QTypeOK, NEW t \in Tasks, phase[t] = "queued",
         phase' = [phase EXCEPT ![t] = "posting"]
  PROVE  /\ Cardinality(InSlot)' = Cardinality(InSlot) + 1
         /\ Cardinality(InSlotLow)' =
              IF IsLow(t) THEN Cardinality(InSlotLow) + 1 ELSE Cardinality(InSlotLow)
  <1>1. InSlot' = InSlot \union {t} /\ t \notin InSlot
    BY DEF QTypeOK, InSlot, Running
  <1>2. InSlotLow' = IF IsLow(t) THEN InSlotLow \union {t} ELSE InSlotLow
    BY <1>1 DEF InSlotLow, IsLow
  <1>3. t \notin InSlotLow
    BY <1>1 DEF InSlotLow
  <1> QED
    BY <1>1, <1>2, <1>3, SlotsFinite, FS_AddElement

LEMMA Leaves ==
  ASSUME QTypeOK, NEW t \in Tasks, phase[t] \in Running,
         phase' = [phase EXCEPT ![t] = "ended"]
  PROVE  /\ Cardinality(InSlot)' = Cardinality(InSlot) - 1
         /\ Cardinality(InSlotLow)' =
              IF IsLow(t) THEN Cardinality(InSlotLow) - 1 ELSE Cardinality(InSlotLow)
         /\ Cardinality(InSlot)' \in Nat /\ Cardinality(InSlotLow)' \in Nat
  <1>1. InSlot' = InSlot \ {t} /\ t \in InSlot
    BY DEF QTypeOK, InSlot, Running
  <1>2. InSlotLow' = IF IsLow(t) THEN InSlotLow \ {t} ELSE InSlotLow
    BY <1>1 DEF InSlotLow, IsLow
  <1>3. IsLow(t) => t \in InSlotLow
    BY <1>1 DEF InSlotLow
  <1>4. /\ Cardinality(InSlot \ {t}) = Cardinality(InSlot) - 1
        /\ IsFiniteSet(InSlot \ {t})
        /\ IsLow(t) => Cardinality(InSlotLow \ {t}) = Cardinality(InSlotLow) - 1
        /\ IsFiniteSet(InSlotLow \ {t})
    BY <1>1, <1>3, SlotsFinite, FS_RemoveElement
  <1>5. Cardinality(InSlot \ {t}) \in Nat /\ Cardinality(InSlotLow \ {t}) \in Nat
    BY <1>4, FS_CardinalityType
  <1> QED
    BY <1>1, <1>2, <1>4, <1>5, SlotsFinite

LEMMA Stays ==
  ASSUME \A t \in Tasks : phase'[t] \in Running <=> phase[t] \in Running
  PROVE  InSlot' = InSlot /\ InSlotLow' = InSlotLow
  BY DEF InSlot, InSlotLow, IsLow

-----------------------------------------------------------------------------
LEMMA InitQInv == QInit => QInv
  <1> SUFFICES ASSUME QInit PROVE QInv
    OBVIOUS
  <1>1. QTypeOK
    BY DEF QInit, QTypeOK, Phases
  <1>2. InSlot = {} /\ InSlotLow = {} /\ Eligible = {}
    BY DEF QInit, InSlot, InSlotLow, Running, Eligible, Waiting
  <1>3. SlotsExact
    BY <1>2, FS_EmptySet DEF QInit, SlotsExact
  <1> QED
    BY <1>1, <1>2, <1>3, LowCapNat, SlotsAssumption
       DEF QInit, QInv, Capped, Numbered, FifoWithinTier, Drained

LEMMA EnqueueKeeps ==
  ASSUME QInv, NEW t \in Tasks, NEW A \in SUBSET Unsettled, Enqueue(t, A)
  PROVE  QInv'
  <1>1. QTypeOK'
    BY DEF QInv, QTypeOK, Enqueue, Phases, Unsettled
  <1>2. \A u \in Tasks : u # t => phase'[u] = phase[u] /\ seq'[u] = seq[u]
    BY DEF QInv, QTypeOK, Enqueue
  <1>3. phase[t] = "new" /\ phase'[t] = "queued" /\ seq'[t] = nextSeq /\ nextSeq' = nextSeq + 1
    BY DEF QInv, QTypeOK, Enqueue
  <1>4. SlotsExact'
    BY <1>2, <1>3, Stays DEF QInv, SlotsExact, Enqueue, Running
  <1>5. Numbered'
    BY <1>2, <1>3 DEF QInv, QTypeOK, Numbered
  <1>6. FifoWithinTier'
    BY <1>2, <1>3 DEF QInv, QTypeOK, Numbered, FifoWithinTier
  <1> QED
    BY <1>1, <1>4, <1>5, <1>6 DEF QInv, Capped, LowCap, Drained, Enqueue

LEMMA AbortKeeps == ASSUME QInv, NEW A \in SUBSET Unsettled, Abort(A) PROVE QInv'
  <1>1. QTypeOK'
    BY DEF QInv, QTypeOK, Abort, Unsettled
  <1>2. InSlot' = InSlot /\ InSlotLow' = InSlotLow /\ Eligible' = Eligible
    BY DEF Abort, InSlot, InSlotLow, IsLow, Eligible, Waiting, LowCap
  <1> QED
    BY <1>1, <1>2
       DEF QInv, SlotsExact, Capped, LowCap, Numbered, FifoWithinTier, Drained, Abort

(* The one that starts is before all others of its tier, which are as        *)
(* eligible as it is.                                                        *)
LEMMA BestIsFirst ==
  ASSUME QTypeOK, NEW t \in Tasks, Best(t),
         NEW u \in Tasks \ {t}, phase[u] = "queued", Priority[u] = Priority[t]
  PROVE  seq[t] < seq[u]
  <1>1. t \in Eligible
    BY DEF Best
  <1>2. u \in Eligible \ {t}
    BY <1>1 DEF Eligible, Waiting, IsLow
  <1>3. Before(t, u)
    BY <1>2 DEF Best
  <1> QED
    BY <1>3, PriorityAssumption DEF Before

LEMMA StartKeeps == ASSUME QInv, NEW t \in Tasks, Start(t) PROVE QInv'
  <1>1. t \in Eligible /\ phase[t] = "queued"
    BY DEF Start, Best, Eligible, Waiting
  <1>2. QTypeOK'
    BY DEF QInv, QTypeOK, Start, Phases, Running
  <1>3. SlotsExact'
    BY <1>1, Enters DEF QInv, SlotsExact, Start
  <1>4. Capped'
    BY <1>1, LowCapNat, SlotsAssumption DEF QInv, QTypeOK, Capped, Start, Eligible, LowCap
  <1>5. /\ \A u \in Tasks : u # t => phase'[u] = phase[u]
        /\ phase'[t] = "posting" /\ seq' = seq /\ nextSeq' = nextSeq
    BY DEF QInv, QTypeOK, Start
  <1>6. Numbered'
    BY <1>1, <1>5 DEF QInv, Numbered
  <1>7. FifoWithinTier'
    <2> SUFFICES ASSUME NEW a \in Tasks, NEW u \in Tasks, phase'[u] = "queued",
                        phase'[a] \notin {"new", "queued"}, Priority[u] = Priority[a]
                 PROVE  seq'[a] < seq'[u]
      BY DEF FifoWithinTier
    <2>1. u # t /\ phase[u] = "queued"
      BY <1>5
    <2>2. CASE a = t
      BY <2>1, <2>2, <1>5, BestIsFirst DEF QInv, Start
    <2>3. CASE a # t
      BY <2>1, <2>3, <1>5 DEF QInv, FifoWithinTier
    <2> QED
      BY <2>2, <2>3
  <1> QED
    BY <1>2, <1>3, <1>4, <1>6, <1>7 DEF QInv, Drained, Start

LEMMA DropKeeps == ASSUME QInv, NEW t \in Tasks, Drop(t) PROVE QInv'
  <1>1. phase[t] = "queued"
    BY DEF Drop, Best, Eligible, Waiting
  <1>2. QTypeOK'
    BY DEF QInv, QTypeOK, Drop, Phases
  <1>3. /\ \A u \in Tasks : u # t => phase'[u] = phase[u]
        /\ phase'[t] = "ended" /\ seq' = seq /\ nextSeq' = nextSeq
    BY DEF QInv, QTypeOK, Drop
  <1>4. SlotsExact'
    BY <1>1, <1>3, Stays DEF QInv, SlotsExact, Drop, Running
  <1>5. Numbered'
    BY <1>1, <1>3 DEF QInv, Numbered
  <1>6. FifoWithinTier'
    <2> SUFFICES ASSUME NEW a \in Tasks, NEW u \in Tasks, phase'[u] = "queued",
                        phase'[a] \notin {"new", "queued"}, Priority[u] = Priority[a]
                 PROVE  seq'[a] < seq'[u]
      BY DEF FifoWithinTier
    <2>1. u # t /\ phase[u] = "queued"
      BY <1>3
    <2>2. CASE a = t
      BY <2>1, <2>2, <1>3, BestIsFirst DEF QInv, Drop
    <2>3. CASE a # t
      BY <2>1, <2>3, <1>3 DEF QInv, FifoWithinTier
    <2> QED
      BY <2>2, <2>3
  <1> QED
    BY <1>2, <1>4, <1>5, <1>6 DEF QInv, Capped, LowCap, Drained, Drop

LEMMA PumpEndsKeeps == ASSUME QInv, PumpEnds PROVE QInv'
  <1>1. InSlot' = InSlot /\ InSlotLow' = InSlotLow /\ Eligible' = Eligible
    BY DEF PumpEnds, InSlot, InSlotLow, IsLow, Eligible, Waiting, LowCap
  <1> QED
    BY <1>1 DEF QInv, QTypeOK, SlotsExact, Capped, LowCap, Numbered, FifoWithinTier,
                Drained, PumpEnds

LEMMA ReleaseKeeps ==
  ASSUME QInv, NEW t \in Tasks, phase[t] \in Running, Release(t)
  PROVE  QInv'
  <1>1. /\ \A u \in Tasks : u # t => phase'[u] = phase[u]
        /\ phase'[t] = "ended" /\ seq' = seq /\ nextSeq' = nextSeq
    BY DEF QInv, QTypeOK, Release
  <1>2. SlotsExact' /\ active' \in Nat /\ activeLow' \in Nat
    BY Leaves, SlotsFinite DEF QInv, SlotsExact, Release
  <1>3. QTypeOK'
    BY <1>2 DEF QInv, QTypeOK, Release, Phases
  <1>4. Capped'
    BY LowCapNat, SlotsAssumption DEF QInv, QTypeOK, Capped, Release, LowCap
  <1>5. phase[t] \notin {"new", "queued"}
    BY DEF Running
  <1>6. Numbered' /\ FifoWithinTier'
    BY <1>1, <1>5 DEF QInv, Numbered, FifoWithinTier
  <1> QED
    BY <1>2, <1>3, <1>4, <1>6 DEF QInv, Drained, Release

LEMMA MoveOnKeeps ==
  ASSUME QInv, NEW t \in Tasks, NEW p \in Running, NEW n \in Nat,
         phase[t] \in Running, MoveOn(t, p, n)
  PROVE  QInv'
  <1>1. /\ \A u \in Tasks : u # t => phase'[u] = phase[u]
        /\ phase'[t] = p /\ seq' = seq /\ nextSeq' = nextSeq
        /\ active' = active /\ activeLow' = activeLow /\ pumping' = pumping
    BY DEF QInv, QTypeOK, MoveOn
  <1>2. QTypeOK'
    BY DEF QInv, QTypeOK, MoveOn, Phases
  <1>3. SlotsExact'
    BY <1>1, Stays DEF QInv, SlotsExact
  <1>4. phase[t] \notin {"new", "queued"} /\ p \notin {"new", "queued"}
    BY DEF Running
  <1>5. Numbered' /\ FifoWithinTier'
    BY <1>1, <1>4 DEF QInv, Numbered, FifoWithinTier
  <1>6. Eligible' = Eligible
    BY <1>1, <1>4 DEF Eligible, Waiting, IsLow, LowCap
  <1> QED
    BY <1>1, <1>2, <1>3, <1>5, <1>6 DEF QInv, Capped, LowCap, Drained

LEMMA StepsKeep == ASSUME QInv, NEW t \in Tasks, Steps(t) PROVE QInv'
  <1>1. tries[t] \in Nat
    BY DEF QInv, QTypeOK
  <1>2. CASE RunEnds(t)
    BY <1>2, ReleaseKeeps DEF RunEnds, At, Running
  <1>3. CASE AbortLands(t)
    BY <1>3, ReleaseKeeps DEF AbortLands
  <1>4. CASE PostPending(t)
    BY <1>4, MoveOnKeeps DEF PostPending, At, Running
  <1>5. CASE PostRetried(t)
    BY <1>1, <1>5, MoveOnKeeps DEF PostRetried, At, Running
  <1>6. CASE BackoffOver(t)
    BY <1>1, <1>6, MoveOnKeeps DEF BackoffOver, At, Running
  <1>7. CASE PollDue(t)
    BY <1>1, <1>7, MoveOnKeeps DEF PollDue, At, Running
  <1>8. CASE PollAgain(t)
    BY <1>1, <1>8, MoveOnKeeps DEF PollAgain, At, Running
  <1> QED
    BY <1>2, <1>3, <1>4, <1>5, <1>6, <1>7, <1>8 DEF Steps

LEMMA NextKeeps == QInv /\ [QNext]_qvars => QInv'
  <1> SUFFICES ASSUME QInv, [QNext]_qvars PROVE QInv'
    OBVIOUS
  <1>1. CASE \E A \in SUBSET Unsettled : Abort(A) \/ \E t \in Tasks : Enqueue(t, A)
    BY <1>1, AbortKeeps, EnqueueKeeps
  <1>2. CASE Pump
    BY <1>2, PumpEndsKeeps, StartKeeps, DropKeeps DEF Pump
  <1>3. CASE \E t \in Tasks : Steps(t)
    BY <1>3, StepsKeep
  <1>4. CASE UNCHANGED qvars
    BY <1>4 DEF qvars, QInv, QTypeOK, SlotsExact, InSlotLow, InSlot, IsLow, Capped, LowCap,
                Numbered, FifoWithinTier, Drained, Eligible, Waiting
  <1> QED
    BY <1>1, <1>2, <1>3, <1>4 DEF QNext

(* QInv holds in every state of the queue. *)
THEOREM QueueInvariant == QSpec => []QInv
  BY InitQInv, NextKeeps, PTL DEF QSpec

-----------------------------------------------------------------------------
(* The queue keeps its types: no end, abort or drop takes a counter below    *)
(* zero (RequestQueue's active and activeLow).                               *)
THEOREM QueueTypeCorrect == QSpec => []QTypeOK
  <1>1. QInv => QTypeOK
    BY DEF QInv
  <1> QED
    BY <1>1, QueueInvariant, PTL

(* For any tasks, slots and reserve, no more runs than slots, and no more    *)
(* background runs than the reserve leaves (enrichmentQueue.ts:183-188).     *)
THEOREM ReserveHolds == QSpec => []ReserveHeld
  <1>1. QInv => ReserveHeld
    BY LowCapNat DEF QInv, SlotsExact, Capped, ReserveHeld
  <1> QED
    BY <1>1, QueueInvariant, PTL

LEMMA Split ==
  Cardinality(InSlotFore) = Cardinality(InSlot) - Cardinality(InSlotLow)
  <1>1. InSlotFore = InSlot \ InSlotLow /\ InSlot \cap InSlotLow = InSlotLow
    BY DEF InSlotFore, InSlotLow
  <1>2. IsFiniteSet(InSlot)
    BY SlotsFinite
  <1>3. Cardinality(InSlot \ InSlotLow)
          = Cardinality(InSlot) - Cardinality(InSlot \cap InSlotLow)
    BY <1>2, FS_Difference
  <1> QED
    BY <1>1, <1>3

(* For any tasks, slots and reserve, what the reader asked for waits only    *)
(* for what the reader asked for (enrichmentQueue.ts:183-188).               *)
THEOREM ForegroundFirst == QSpec => []ForegroundWaitsForForeground
  <1>1. QInv => ForegroundWaitsForForeground
    <2> SUFFICES ASSUME QInv, ~pumping, NEW t \in Waiting, ~IsLow(t)
                 PROVE  /\ Cardinality(InSlot) = Concurrency
                        /\ Cardinality(InSlotFore) >= Kept
      BY DEF ForegroundWaitsForForeground
    <2>1. t \in Eligible
      BY DEF Eligible
    <2>2. active = Concurrency
      BY <2>1, SlotsAssumption DEF QInv, QTypeOK, Drained, Capped
    <2>3. Cardinality(InSlot) = Concurrency /\ Cardinality(InSlotLow) <= LowCap
      BY <2>2 DEF QInv, SlotsExact, Capped
    <2>4. Kept \in Nat
      BY SlotsAssumption DEF Kept
    <2> QED
      BY <2>3, <2>4, Split, LowCapNat, SlotsFinite, SlotsAssumption
  <1> QED
    BY <1>1, QueueInvariant, PTL

(* For any tasks, a tier leaves the queue in the order it came               *)
(* (enrichmentQueue.ts:170-171, ties break FIFO).                            *)
THEOREM FifoTiers == QSpec => []FifoWithinTier
  <1>1. QInv => FifoWithinTier
    BY DEF QInv
  <1> QED
    BY <1>1, QueueInvariant, PTL

-----------------------------------------------------------------------------
(* The cards.                                                                *)

LEMMA LiveUnsettled == Live \in SUBSET Unsettled /\ Reqs \subseteq Tasks
  BY CardAssumption DEF Live, Unsettled

LEMMA RerunIsQueueStep ==
  ASSUME NEW m, NEW rn, Rerun(m, rn)
  PROVE  QNext
  <1>1. CASE Fetch(m, rn)
    <2>1. PICK r \in Reqs : Enqueue(r, Live)
      BY <1>1 DEF Fetch, Ask
    <2> QED
      BY <2>1, LiveUnsettled DEF QNext
  <1>2. CASE Quiet(m, rn)
    <2>1. Abort(Live)
      BY <1>2 DEF Quiet
    <2> QED
      BY <2>1, LiveUnsettled DEF QNext
  <1> QED
    BY <1>1, <1>2 DEF Rerun

LEMMA StepIsQueueStep ==
  ASSUME NEW t \in Tasks, Step(t)
  PROVE  QNext
  <1>1. Steps(t)
    BY DEF Step, CardStep, Steps
  <1> QED
    BY <1>1 DEF QNext

LEMMA PrefetchIsQueueStep == Prefetch => QNext
  <1> SUFFICES ASSUME Prefetch PROVE QNext
    OBVIOUS
  <1>1. PICK A \in {{}, Unsettled \ Reqs} : Abort(A) \/ \E t \in Background : Enqueue(t, A)
    BY DEF Prefetch
  <1>2. A \in SUBSET Unsettled /\ Background \subseteq Tasks
    BY <1>1 DEF Background
  <1> QED
    BY <1>1, <1>2 DEF QNext

LEMMA NextIsQueueStep == [Next]_vars => [QNext]_qvars
  <1> SUFFICES ASSUME [Next]_vars PROVE [QNext]_qvars
    OBVIOUS
  <1>1. ASSUME NEW s \in Stamps, Pick(s) PROVE QNext
    BY <1>1, RerunIsQueueStep DEF Pick
  <1>2. ASSUME NEW s \in Stamps, HashSettles(s) PROVE [QNext]_qvars
    BY <1>2, RerunIsQueueStep DEF HashSettles
  <1>3. ASSUME NEW S \in SUBSET Stamps, ViewSettles(S) PROVE QNext
    BY <1>3, RerunIsQueueStep DEF ViewSettles
  <1>4. ASSUME GenerationStarts PROVE QNext
    BY <1>4, RerunIsQueueStep DEF GenerationStarts
  <1>5. ASSUME GenerationEnds PROVE [QNext]_qvars
    BY <1>5, RerunIsQueueStep DEF GenerationEnds
  <1>6. ASSUME Invalidate PROVE UNCHANGED qvars
    BY <1>6 DEF Invalidate
  <1>7. ASSUME Retry PROVE QNext
    BY <1>7, RerunIsQueueStep DEF Retry
  <1>8. ASSUME TimerFires PROVE QNext
    <2>1. PICK r \in Reqs : Enqueue(r, {})
      BY <1>8 DEF TimerFires, Ask
    <2> QED
      BY <2>1, LiveUnsettled DEF QNext
  <1>9. ASSUME PumpStep PROVE QNext
    BY <1>9 DEF PumpStep, QNext
  <1>10. ASSUME UNCHANGED vars PROVE UNCHANGED qvars
    BY <1>10 DEF vars
  <1> QED
    BY <1>1, <1>2, <1>3, <1>4, <1>5, <1>6, <1>7, <1>8, <1>9, <1>10,
       StepIsQueueStep, PrefetchIsQueueStep DEF Next

(* The cards and the prefetcher use the queue as RequestQueue's callers do:  *)
(* every behaviour of Cards is one of the queue.                             *)
THEOREM CardsImplementQueue == Spec => QSpec
  <1>1. Init => QInit
    BY DEF Init
  <1> QED
    BY <1>1, NextIsQueueStep, PTL DEF Spec, QSpec

(* Whatever the reader clicks, the reserve holds and a card's request waits  *)
(* only for requests of cards.                                               *)
THEOREM CardsNeverStarved == Spec => [](ReserveHeld /\ ForegroundWaitsForForeground)
  BY CardsImplementQueue, ReserveHolds, ForegroundFirst, PTL

-----------------------------------------------------------------------------
Typed ==
  /\ cur \in Stamps /\ iid \in Stamps \union {None}
  /\ memo \in [Stamps -> Text \union {None}]
  /\ asked \in [Reqs -> [stamp : Stamps \union {None}, attempt : Nat \union {-1}]]
  /\ timer.attempt \in Nat

Out == Live # {} \/ timer.on

Alone ==
  /\ \A r, q \in Live : r = q
  /\ timer.on => Live = {}
  /\ Out => Viewed(view, cur) /\ genPage # PageOf[cur]
  /\ \A r \in Live : asked[r].stamp = cur /\ (First(r) => run.kind = "loading")

CardInv == QInv /\ Typed /\ Alone /\ HitRenders /\ PinnedFresh

LEMMA InitCardInv == Init => CardInv
  <1> SUFFICES ASSUME Init PROVE CardInv
    OBVIOUS
  <1>1. QInv
    BY InitQInv DEF Init
  <1>2. Live = {} /\ ~timer.on
    BY CardAssumption DEF Init, QInit, Live, Off
  <1>3. Typed
    BY DEF Init, Typed, Off
  <1>4. HitRenders
    BY CardAssumption DEF Init, HitRenders
  <1> QED
    BY <1>1, <1>2, <1>3, <1>4 DEF CardInv, Alone, Out, PinnedFresh, Init

(* A run of the effect sets the card right whatever it was. *)
LEMMA RerunSets ==
  ASSUME CardInv, cur' \in Stamps, iid' \in Stamps \union {None},
         Rerun(memo, run) \/ Rerun(memo, Idle)
  PROVE  Typed' /\ Alone' /\ HitRenders' /\ PinnedFresh'
  <1> PICK rn : Rerun(memo, rn)
    OBVIOUS
  <1>0. timer'.attempt \in Nat
    BY DEF Rerun, Off
  <1>1. ~timer'.on
    BY DEF Rerun, Off
  <1>2. CASE Fetch(memo, rn)
    <2>1. PICK r \in Reqs : phase[r] = "new" /\ Ask(r, cur', -1, Live)
      BY <1>2 DEF Fetch
    <2>2. \A q \in Live' : q = r
      <3> SUFFICES ASSUME NEW q \in Reqs, q # r PROVE q \notin Live'
        BY DEF Live
      <3> QED
        BY <2>1, LiveUnsettled DEF CardInv, QInv, QTypeOK, Ask, Enqueue, Live
    <2>3. asked'[r] = [stamp |-> cur', attempt |-> -1] /\ Typed'
      BY <2>1, <1>2, <1>0 DEF CardInv, Typed, Ask, Fetch
    <2>4. run' = Loading(cur') /\ memo' = memo
      BY <1>2 DEF Fetch
    <2>5. Viewed(view, cur)' /\ genPage' # PageOf[cur']
      BY <1>2 DEF Fetch, Missing, Driven, Viewed
    <2>6. HitRenders'
      BY <1>2, CardAssumption DEF Fetch, Missing, FromView, HitRenders, Viewed
    <2>7. PinnedFresh'
      BY <2>4 DEF CardInv, PinnedFresh
    <2>8. Alone'
      BY <1>1, <2>2, <2>3, <2>4, <2>5 DEF Alone, Out, Loading
    <2> QED
      BY <2>3, <2>6, <2>7, <2>8
  <1>3. CASE Quiet(memo, rn)
    <2>1. Live' = {}
      BY <1>3 DEF Quiet, Abort, Live
    <2>2. memo' \in [Stamps -> Text \union {None}] /\ PinnedFresh'
      <3>1. CASE memo' = memo
        BY <3>1 DEF CardInv, Typed, PinnedFresh
      <3>2. CASE FromView /\ memo' = [memo EXCEPT ![cur'] = [of |-> iid', refreshing |-> FALSE]]
        <4>1. iid' \in Stamps
          BY <3>2 DEF FromView
        <4> QED
          BY <3>2, <4>1 DEF CardInv, Typed, PinnedFresh, Text
      <3> QED
        BY <1>3, <3>1, <3>2 DEF Quiet
    <2>3. Typed'
      BY <1>0, <1>3, <2>2 DEF CardInv, Typed, Quiet
    <2>4. HitRenders'
      <3> SUFFICES ASSUME Viewed(view, cur)', iid' = cur', cur' \in view'.has
                   PROVE  run'.kind = "ok" /\ run'.stamp = cur'
        BY DEF HitRenders
      <3>1. FromView
        BY CardAssumption DEF FromView, Viewed
      <3> QED
        BY <1>3, <3>1 DEF Quiet, Missing, Ok
    <2>5. Alone'
      BY <1>1, <2>1 DEF Alone, Out
    <2> QED
      BY <2>2, <2>3, <2>4, <2>5
  <1> QED
    BY <1>2, <1>3 DEF Rerun

(* A step of the queue that ends no live request of the card. *)
LEMMA QueueOnly ==
  ASSUME CardInv, UNCHANGED cvars, Live' \subseteq Live
  PROVE  Typed' /\ Alone' /\ HitRenders' /\ PinnedFresh'
  BY DEF CardInv, cvars, Typed, Alone, Out, Live, First, Viewed, HitRenders, PinnedFresh

LEMMA PrefetchKeeps ==
  ASSUME CardInv, Prefetch
  PROVE  Typed' /\ Alone' /\ HitRenders' /\ PinnedFresh'
  <1>1. PICK A \in {{}, Unsettled \ Reqs} : Abort(A) \/ \E t \in Background : Enqueue(t, A)
    BY DEF Prefetch
  <1>2. aborted \subseteq aborted' /\ \A r \in Reqs : phase'[r] = phase[r]
    <2>1. CASE Abort(A)
      BY <2>1 DEF Abort
    <2>2. ASSUME NEW t \in Background, Enqueue(t, A)
          PROVE  aborted \subseteq aborted' /\ \A r \in Reqs : phase'[r] = phase[r]
      BY <2>2, LiveUnsettled DEF CardInv, QInv, QTypeOK, Background, Enqueue
    <2> QED
      BY <1>1, <2>1, <2>2
  <1>3. Live' \subseteq Live
    BY <1>2 DEF Live
  <1> QED
    BY <1>3, QueueOnly DEF Prefetch

LEMMA PumpKeeps ==
  ASSUME CardInv, PumpStep
  PROVE  Typed' /\ Alone' /\ HitRenders' /\ PinnedFresh'
  <1>1. Live' \subseteq Live
    <2>1. CASE PumpEnds
      BY <2>1 DEF PumpEnds, Live
    <2>2. ASSUME NEW t \in Tasks, Start(t) \/ Drop(t) PROVE Live' \subseteq Live
      <3>1. phase[t] = "queued"
        BY <2>2 DEF Start, Drop, Best, Eligible, Waiting
      <3>2. aborted' = aborted /\ \A u \in Tasks : u # t => phase'[u] = phase[u]
        BY <2>2 DEF CardInv, QInv, QTypeOK, Start, Drop
      <3> QED
        BY <3>1, <3>2, LiveUnsettled DEF Live
    <2> QED
      BY <2>1, <2>2 DEF PumpStep, Pump
  <1> QED
    BY <1>1, QueueOnly DEF PumpStep

(* Any step of a run. *)
LEMMA StepLive ==
  ASSUME CardInv, NEW t \in Tasks, Steps(t)
  PROVE  Live' \subseteq Live
  <1>1. phase[t] \notin {"new", "ended"}
    BY DEF Steps, RunEnds, AbortLands, PostPending, PostRetried, BackoffOver, PollDue,
           PollAgain, At, Running
  <1>2. aborted' = aborted /\ \A u \in Tasks : u # t => phase'[u] = phase[u]
    BY DEF CardInv, QInv, QTypeOK, Steps, RunEnds, AbortLands, PostPending, PostRetried,
           BackoffOver, PollDue, PollAgain, Release, MoveOn
  <1> QED
    BY <1>1, <1>2, LiveUnsettled DEF Live

LEMMA AnswerKeeps ==
  ASSUME CardInv, NEW r \in Reqs, RunEnds(r),
         AnswerFresh(r) \/ AnswerStale(r) \/ AnswerError(r),
         UNCHANGED <<cur, view, genPage, iid, hashing, asked, navs>>
  PROVE  Typed' /\ Alone' /\ HitRenders' /\ PinnedFresh'
  <1>1. r \in Live
    BY DEF RunEnds, At, Live
  <1>2. Live' = {}
    <2>1. Live' \subseteq Live
      BY StepLive, LiveUnsettled DEF Steps
    <2>2. r \notin Live'
      BY LiveUnsettled DEF CardInv, QInv, QTypeOK, RunEnds, Release, Live
    <2> QED
      BY <1>1, <2>1, <2>2 DEF CardInv, Alone
  <1>3. /\ ~timer.on /\ asked[r].stamp = cur
        /\ Viewed(view, cur)' /\ genPage' # PageOf[cur']
        /\ First(r) => run.kind = "loading"
    BY <1>1 DEF CardInv, Alone, Out, Viewed
  <1>4. Alone'
    BY <1>2, <1>3 DEF Alone, Out
  <1>5. cur \in Stamps /\ memo \in [Stamps -> Text \union {None}]
    BY DEF CardInv, Typed
  <1>0. timer'.attempt \in Nat
    <2>1. timer.attempt \in Nat /\ asked[r].attempt + 1 \in Nat
      BY DEF CardInv, Typed
    <2> QED
      BY <2>1 DEF AnswerFresh, AnswerStale, AnswerError, Schedule, Off
  <1>6. Typed' /\ PinnedFresh'
    <2>1. CASE memo' = memo
      BY <1>0, <2>1 DEF CardInv, Typed, PinnedFresh
    <2>2. CASE memo' = [memo EXCEPT ![cur] = [of |-> asked[r].stamp, refreshing |-> FALSE]]
      BY <1>0, <1>3, <1>5, <2>2 DEF CardInv, Typed, PinnedFresh, Text
    <2> QED
      BY <2>1, <2>2 DEF AnswerFresh, AnswerStale, AnswerError
  <1>7. HitRenders'
    BY <1>3 DEF CardInv, HitRenders, Viewed, AnswerFresh, AnswerStale, AnswerError, Ok
  <1> QED
    BY <1>4, <1>6, <1>7

LEMMA StepKeeps ==
  ASSUME CardInv, NEW t \in Tasks, Step(t)
  PROVE  Typed' /\ Alone' /\ HitRenders' /\ PinnedFresh'
  <1>1. CASE /\ t \in Reqs /\ RunEnds(t)
             /\ AnswerFresh(t) \/ AnswerStale(t) \/ AnswerError(t)
             /\ UNCHANGED <<cur, view, genPage, iid, hashing, asked, navs>>
    BY <1>1, AnswerKeeps
  <1>2. CASE UNCHANGED cvars
    <2>1. Steps(t)
      BY DEF Step, CardStep, Steps
    <2> QED
      BY <1>2, <2>1, StepLive, QueueOnly
  <1> QED
    BY <1>1, <1>2 DEF Step, CardStep

LEMMA TimerFiresKeeps ==
  ASSUME CardInv, TimerFires
  PROVE  Typed' /\ Alone' /\ HitRenders' /\ PinnedFresh'
  <1>1. PICK r \in Reqs : phase[r] = "new" /\ Ask(r, cur, timer.attempt, {})
    BY DEF TimerFires
  <1>2. Live = {} /\ Viewed(view, cur) /\ genPage # PageOf[cur]
    BY DEF TimerFires, CardInv, Alone, Out
  <1>3. \A q \in Live' : q = r
    BY <1>1, <1>2, LiveUnsettled DEF CardInv, QInv, QTypeOK, Ask, Enqueue, Live
  <1>4. asked' = [asked EXCEPT ![r] = [stamp |-> cur, attempt |-> timer.attempt]]
    BY <1>1 DEF Ask
  <1>5. Typed'
    BY <1>4 DEF TimerFires, CardInv, Typed, Off
  <1>6. asked'[r] = [stamp |-> cur, attempt |-> timer.attempt] /\ timer.attempt # -1
    BY <1>4 DEF CardInv, Typed
  <1>7. Alone'
    BY <1>2, <1>3, <1>6 DEF TimerFires, Alone, Out, First, Viewed, Off
  <1>8. HitRenders' /\ PinnedFresh'
    BY DEF TimerFires, CardInv, HitRenders, PinnedFresh, Viewed
  <1> QED
    BY <1>5, <1>7, <1>8

LEMMA NextKeepsCard == CardInv /\ [Next]_vars => CardInv'
  <1> SUFFICES ASSUME CardInv, [Next]_vars PROVE CardInv'
    OBVIOUS
  <1> DEFINE Holds == Typed' /\ Alone' /\ HitRenders' /\ PinnedFresh'
  <1>a. QInv'
    BY NextIsQueueStep, NextKeeps DEF CardInv
  <1>b. cur \in Stamps /\ iid \in Stamps \union {None}
    BY DEF CardInv, Typed
  <1>1. ASSUME NEW s \in Stamps, Pick(s) PROVE Holds
    BY <1>1, RerunSets DEF Pick
  <1>2. ASSUME NEW s \in Stamps, HashSettles(s) PROVE Holds
    <2>1. CASE Rerun(memo, run)
      BY <1>b, <1>2, <2>1, RerunSets DEF HashSettles
    <2>2. CASE iid = s /\ UNCHANGED <<memo, run, timer, asked, qvars>>
      BY <1>2, <2>2 DEF HashSettles, qvars, CardInv, Typed, Alone, Out, Live, First, Viewed,
                        HitRenders, PinnedFresh
    <2> QED
      BY <1>2, <2>1, <2>2 DEF HashSettles
  <1>3. ASSUME NEW S \in SUBSET Stamps, ViewSettles(S) PROVE Holds
    BY <1>b, <1>3, RerunSets DEF ViewSettles
  <1>4. ASSUME GenerationStarts PROVE Holds
    BY <1>b, <1>4, RerunSets DEF GenerationStarts
  <1>5. ASSUME GenerationEnds PROVE Holds
    <2>1. CASE Rerun(memo, run)
      BY <1>b, <1>5, <2>1, RerunSets DEF GenerationEnds
    <2>2. CASE genPage # PageOf[cur] /\ UNCHANGED <<memo, run, timer, asked, qvars>>
      <3>1. genPage' # PageOf[cur']
        BY <1>b, <1>5, CardAssumption DEF GenerationEnds
      <3> QED
        BY <1>5, <2>2, <3>1 DEF GenerationEnds, qvars, CardInv, Typed, Alone, Out, Live, First,
                                Viewed, HitRenders, PinnedFresh
    <2> QED
      BY <1>5, <2>1, <2>2 DEF GenerationEnds
  <1>6. ASSUME Invalidate PROVE Holds
    BY <1>6 DEF Invalidate, qvars, CardInv, Typed, Alone, Out, Live, First, Viewed, HitRenders,
                PinnedFresh
  <1>7. ASSUME Retry PROVE Holds
    BY <1>b, <1>7, RerunSets DEF Retry
  <1>8. ASSUME UNCHANGED vars PROVE Holds
    BY <1>8 DEF vars, qvars, cvars, CardInv, Typed, Alone, Out, Live, First, Viewed, HitRenders,
                PinnedFresh
  <1> QED
    BY <1>a, <1>1, <1>2, <1>3, <1>4, <1>5, <1>6, <1>7, <1>8, TimerFiresKeeps, PumpKeeps,
       PrefetchKeeps, StepKeeps DEF Next, CardInv

(* The inductive invariant of a card over the queue. *)
THEOREM CardInvariant == Spec => []CardInv
  BY InitCardInv, NextKeepsCard, PTL DEF Spec

LEMMA OutAtMostOne ==
  ASSUME CardInv
  PROVE  OneRequestOverSettledView
  <1> DEFINE n == Cardinality(Live) + (IF timer.on THEN 1 ELSE 0)
  <1>1. CASE Live = {}
    <2>1. Cardinality(Live) = 0
      BY <1>1, FS_EmptySet
    <2>2. n <= 1 /\ (n = 1 => timer.on)
      BY <2>1
    <2> QED
      BY <1>1, <2>2 DEF CardInv, Alone, Out, OneRequestOverSettledView
  <1>2. CASE Live # {}
    <2>1. PICK r : Live = {r}
      BY <1>2 DEF CardInv, Alone
    <2>2. Cardinality(Live) = 1
      BY <2>1, FS_Singleton
    <2>3. ~timer.on
      BY <1>2 DEF CardInv, Alone
    <2>4. n <= 1
      BY <2>2, <2>3
    <2> QED
      BY <1>2, <2>4 DEF CardInv, Alone, Out, OneRequestOverSettledView
  <1> QED
    BY <1>1, <1>2

(* For any anchors, pages and requests: a card never has two things out, and *)
(* none over a view that is unsettled or being generated                     *)
(* (MarkEnrichmentCards.tsx:462-567).                                        *)
THEOREM OneRequest == Spec => []OneRequestOverSettledView
  BY CardInvariant, OutAtMostOne, PTL

(* For any anchors, pages and views: a piece in the view is on the card.     *)
THEOREM ViewHitsRender == Spec => []HitRenders
  <1>1. CardInv => HitRenders
    BY DEF CardInv
  <1> QED
    BY <1>1, CardInvariant, PTL

(* The memo never pins a stale-while-revalidate text.                        *)
THEOREM MemoPinsFresh == Spec => []PinnedFresh
  <1>1. CardInv => PinnedFresh
    BY DEF CardInv
  <1> QED
    BY <1>1, CardInvariant, PTL
=============================================================================
