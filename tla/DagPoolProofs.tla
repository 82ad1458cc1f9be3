---------------------------- MODULE DagPoolProofs ----------------------------
(***************************************************************************)
(* Proofs about DagPool, for every finite set of nodes and every width.     *)
(* IInv is the inductive invariant: TypeOK and the four parts below, which  *)
(* speak of one shape that the pump both expects (with the statuses it is   *)
(* given) and re-establishes.                                               *)
(***************************************************************************)
EXTENDS DagPool, FiniteSetTheorems, TLAPS

\* What every handler has arranged by the time it calls pump(), stated of the
\* statuses, the gates, the markers, the failure, the counter and the live set.
Coherent(st, gt, gr, fl, k, lv) ==
  /\ k = Cardinality(lv) /\ k <= Limit
  /\ \A n \in lv : st[n] = "running"
  /\ \A n \in gr : st[n] # "running"
  /\ \A n \in Node : st[n] = "running" /\ n \notin lv => fl # None
  /\ \A n \in Node : st[n] \in {"running", "done"} => \A d \in gt[n] : st[d] = "done"

SettledIsQuiet == drain \in Outcome => live = {}

IInv ==
  /\ TypeOK
  /\ Coherent(status, gate, group, failure, inFlight, live)
  /\ ResolvedMeansDone
  /\ OpenMeansLive
  /\ NoIdleSlot
  /\ SettledIsQuiet

-----------------------------------------------------------------------------

\* The scan's fixpoint adds only markers all of whose gates it has completed,
\* and it leaves no such marker out.
LEMMA CompletedFacts ==
  ASSUME NEW st \in [Node -> Status], NEW gt \in [Node -> SUBSET Node],
         NEW gr \in SUBSET Node
  PROVE  LET dn == Completed(st, gt, gr) IN
         /\ dn \subseteq Node
         /\ DoneIn(st) \subseteq dn
         /\ \A n \in dn \ DoneIn(st) : n \in gr /\ st[n] = "pending" /\ gt[n] \subseteq dn
         /\ \A n \in gr : st[n] = "pending" /\ gt[n] \subseteq dn => n \in dn
<1> DEFINE C == {n \in gr : st[n] = "pending"}
           Closed(G) == \A n \in C : gt[n] \subseteq DoneIn(st) \cup G => n \in G
           M == {n \in C : \A G \in SUBSET C : Closed(G) => n \in G}
<1>1. Completed(st, gt, gr) = DoneIn(st) \cup M /\ M \subseteq C
  BY DEF Completed
<1>2. Closed(M)
  OBVIOUS
<1>3. ASSUME NEW n \in M PROVE gt[n] \subseteq DoneIn(st) \cup M
  <2>1. SUFFICES ASSUME ~ (gt[n] \subseteq DoneIn(st) \cup M) PROVE FALSE
    OBVIOUS
  <2> DEFINE G == M \ {n}
  <2>2. ASSUME NEW m \in C, gt[m] \subseteq DoneIn(st) \cup G PROVE m \in G
    <3>1. gt[m] \subseteq DoneIn(st) \cup M
      BY <2>2
    <3>2. m \in M /\ m # n
      BY <1>2, <2>1, <2>2, <3>1
    <3> QED
      BY <3>2
  <2>3. Closed(G) /\ G \in SUBSET C
    BY <2>2
  <2>4. n \in G
    BY <2>3
  <2> QED
    BY <2>4
<1>4. M \cap DoneIn(st) = {}
  BY DEF DoneIn
<1> HIDE DEF M
<1> QED
  BY <1>1, <1>2, <1>3, <1>4 DEF DoneIn

\* The pump re-establishes the invariant from what a handler hands it: the
\* handler primed gate, group and failure, and drain() either was not called,
\* or is being called, or is open.
LEMMA PumpEstablishes ==
  ASSUME TypeOK, drain \in {"none", "open"},
         gate' \in [Node -> SUBSET Node], group' \in SUBSET Node,
         failure' \in Node \cup {None},
         NEW st \in [Node -> Status], NEW k \in Nat, NEW lv \in SUBSET Node,
         NEW dr \in BOOLEAN, drain = "open" => dr,
         Coherent(st, gate', group', failure', k, lv),
         Pump(st, k, lv, dr)
  PROVE  IInv'
<1> USE LimitAssumption, NodeAssumption
<1>1. CASE ~ dr
  <2>1. /\ status' = st /\ live' = lv /\ inFlight' = k /\ drain' = "none"
    BY <1>1 DEF Pump, Halted
  <2> QED
    BY <2>1 DEF IInv, TypeOK, Coherent, ResolvedMeansDone, OpenMeansLive,
                NoIdleSlot, SettledIsQuiet, Outcome
<1>2. CASE dr /\ failure' # None
  <2>1. /\ status' = st /\ live' = lv /\ inFlight' = k
        /\ drain' = IF k = 0 THEN "failed" ELSE "open"
    BY <1>2 DEF Pump, Halted, AllDone, Settle, Outcome
  <2>2. IsFiniteSet(lv)
    BY FS_Subset
  <2>3. k = 0 <=> lv = {}
    BY <2>2, FS_EmptySet DEF Coherent
  <2> QED
    BY <1>2, <2>1, <2>3 DEF IInv, TypeOK, Coherent, ResolvedMeansDone, OpenMeansLive,
                NoIdleSlot, SettledIsQuiet, Outcome
<1>3. CASE dr /\ failure' = None
  <2> DEFINE dn == Completed(st, gate', group')
             ready == {n \in Node \ group' : st[n] = "pending" /\ gate'[n] \subseteq dn}
  <2>1. PICK S \in SUBSET ready :
             /\ S # {} => k + Cardinality(S) <= Limit
             /\ S = ready \/ k + Cardinality(S) >= Limit
             /\ status' = [n \in Node |-> IF n \in dn THEN "done"
                                          ELSE IF n \in S THEN "running" ELSE st[n]]
             /\ live' = lv \cup S
             /\ inFlight' = k + Cardinality(S)
    BY <1>3 DEF Pump, Halted
  <2>2. drain' = IF inFlight' > 0 THEN "open"
                 ELSE IF \A n \in Node : status'[n] \in {"unknown", "done"} THEN "resolved"
                 ELSE "stalled"
    BY <1>3 DEF Pump, Halted, AllDone, Settle, Outcome
  <2>3. /\ dn \subseteq Node /\ DoneIn(st) \subseteq dn
        /\ \A n \in dn \ DoneIn(st) : n \in group' /\ st[n] = "pending" /\ gate'[n] \subseteq dn
    BY CompletedFacts
  <2>4. /\ S \in SUBSET Node /\ IsFiniteSet(S) /\ IsFiniteSet(lv)
        /\ Cardinality(S) \in Nat /\ S \cap lv = {}
    <3>1. S \in SUBSET Node
      OBVIOUS
    <3>2. IsFiniteSet(S) /\ IsFiniteSet(lv)
      BY <3>1, FS_Subset
    <3>3. S \cap lv = {}
      BY <2>1 DEF Coherent
    <3> QED
      BY <3>1, <3>2, <3>3, FS_CardinalityType
  <2>5. Cardinality(lv \cup S) = k + Cardinality(S)
    <3>1. /\ Cardinality(lv \cup S) = Cardinality(lv) + Cardinality(S) - Cardinality(lv \cap S)
      BY <2>4, FS_Union
    <3>2. Cardinality(lv \cap S) = 0
      <4>1. lv \cap S = {}
        BY <2>4
      <4> QED
        BY <4>1, FS_EmptySet
    <3>3. k = Cardinality(lv)
      BY DEF Coherent
    <3> QED
      BY <3>1, <3>2, <3>3, <2>4
  <2>6. inFlight' \in Nat /\ (inFlight' > 0 <=> live' # {})
    <3>1. IsFiniteSet(lv \cup S)
      BY <2>4, FS_Subset
    <3> QED
      BY <2>1, <2>4, <2>5, <3>1, FS_EmptySet
  <2>7. TypeOK'
    BY <2>1, <2>2, <2>4, <2>6 DEF TypeOK, Status, Outcome
  <2>8. Coherent(status, gate, group, failure, inFlight, live)'
    <3>1. inFlight' = Cardinality(live') /\ inFlight' <= Limit
      BY <2>1, <2>4, <2>5, FS_EmptySet DEF Coherent
    <3>2. \A n \in live' : status'[n] = "running"
      <4>1. ASSUME NEW n \in lv PROVE n \notin dn /\ st[n] = "running"
        BY <2>3 DEF Coherent, DoneIn
      <4>2. ASSUME NEW n \in S PROVE n \notin dn
        BY <2>1, <2>3, <2>4 DEF DoneIn
      <4> QED
        BY <2>1, <2>4, <4>1, <4>2
    <3>3. \A n \in group' : status'[n] # "running"
      BY <2>1, <2>4 DEF Coherent
    <3>4. \A n \in Node : status'[n] = "running" /\ n \notin live' => failure' # None
      BY <2>1 DEF Coherent
    <3>5. ASSUME NEW n \in Node, status'[n] \in {"running", "done"}, NEW d \in gate'[n]
          PROVE  status'[d] = "done"
      <4>1. d \in Node
        OBVIOUS
      <4>2. d \in dn
        <5>1. CASE n \in S
          BY <5>1
        <5>2. CASE n \in dn \ DoneIn(st)
          BY <5>2, <2>3
        <5>3. CASE st[n] \in {"running", "done"}
          BY <5>3, <2>3, <4>1 DEF Coherent, DoneIn
        <5> QED
          BY <2>1, <3>5, <5>1, <5>2, <5>3 DEF DoneIn
      <4> QED
        BY <2>1, <4>1, <4>2
    <3> QED
      BY <3>1, <3>2, <3>3, <3>4, <3>5 DEF Coherent
  <2>9. NoIdleSlot'
    <3>1. SUFFICES ASSUME inFlight' < Limit, NEW n \in Node \ group', status'[n] = "pending"
                   PROVE  \E d \in gate'[n] : status'[d] # "done"
      BY DEF NoIdleSlot
    <3>2. S = ready
      BY <2>1, <2>4, <3>1
    <3>3. n \notin ready /\ st[n] = "pending"
      BY <2>1, <3>1, <3>2
    <3>4. PICK d \in gate'[n] : d \notin dn
      BY <3>3
    <3>5. d \in Node /\ st[d] # "done"
      BY <3>4, <2>3 DEF DoneIn
    <3>6. status'[d] # "done"
      BY <2>1, <3>4, <3>5
    <3> QED
      BY <3>6
  <2> QED
    BY <2>2, <2>6, <2>7, <2>8, <2>9
       DEF IInv, ResolvedMeansDone, OpenMeansLive, SettledIsQuiet, Outcome
<1> QED
  BY <1>1, <1>2, <1>3

-----------------------------------------------------------------------------
LEMMA InitEstablishes == Init => IInv
<1> SUFFICES ASSUME Init PROVE IInv
  OBVIOUS
<1> QED
  BY LimitAssumption, FS_EmptySet
     DEF Init, IInv, TypeOK, Status, Outcome, Coherent, ResolvedMeansDone, OpenMeansLive,
         NoIdleSlot, SettledIsQuiet

LEMMA DeclareKeeps == ASSUME IInv, NEW n \in Node, MayRegister, Declare(n) PROVE IInv'
<1>1. CASE status[n] # "unknown"
  BY <1>1 DEF Declare, IInv, TypeOK, Coherent, ResolvedMeansDone, OpenMeansLive,
              NoIdleSlot, SettledIsQuiet
<1>2. CASE status[n] = "unknown"
  <2>1. /\ status' = [status EXCEPT ![n] = "declared"]
        /\ UNCHANGED <<gate, group, live, inFlight, failure, drain>>
    BY <1>2 DEF Declare
  <2>2. drain # "resolved"
    BY DEF MayRegister, IInv, SettledIsQuiet, Outcome
  <2>3. TypeOK'
    BY <2>1 DEF IInv, TypeOK, Status
  <2>4. Coherent(status, gate, group, failure, inFlight, live)'
    BY <1>2, <2>1 DEF IInv, TypeOK, Coherent
  <2>5. NoIdleSlot'
    BY <1>2, <2>1 DEF IInv, TypeOK, NoIdleSlot
  <2> QED
    BY <2>1, <2>2, <2>3, <2>4, <2>5
       DEF IInv, ResolvedMeansDone, OpenMeansLive, SettledIsQuiet
<1> QED
  BY <1>1, <1>2

LEMMA AddKeeps ==
  ASSUME IInv, NEW n \in Node, NEW deps \in SUBSET Node, NEW g \in BOOLEAN,
         MayRegister, Add(n, deps, g)
  PROVE  IInv'
<1> DEFINE st == [status EXCEPT ![n] = "pending"]
           dr == drain # "none"
<1>1. TypeOK /\ drain \in {"none", "open"}
  BY DEF IInv, TypeOK, MayRegister, SettledIsQuiet
<1>2. /\ status[n] \in {"unknown", "declared"}
      /\ gate' = [gate EXCEPT ![n] = {d \in deps \ {n} : status[d] # "unknown"}]
      /\ group' = IF g THEN group \cup {n} ELSE group
      /\ failure' = failure
  BY <1>1 DEF Add, Duplicate, TypeOK, Status
<1>7. Pump(st, inFlight, live, dr)
  BY DEF Add
<1>3. /\ st \in [Node -> Status] /\ inFlight \in Nat /\ live \in SUBSET Node
      /\ gate' \in [Node -> SUBSET Node] /\ group' \in SUBSET Node
      /\ failure' \in Node \cup {None} /\ dr \in BOOLEAN
  BY <1>1, <1>2 DEF TypeOK, Status
<1>4. Coherent(st, gate', group', failure', inFlight, live)
  BY <1>1, <1>2 DEF IInv, TypeOK, Coherent
<1> HIDE DEF st, dr
<1>5. drain = "open" => dr
  BY DEF dr
<1> QED
  BY <1>1, <1>3, <1>4, <1>5, <1>7, PumpEstablishes

LEMMA DrainKeeps == ASSUME IInv, Drain PROVE IInv'
<1>1. TypeOK /\ drain = "none"
  BY DEF IInv, Drain
<1>2. /\ gate' = gate /\ group' = group /\ failure' = failure
      /\ Pump(status, inFlight, live, TRUE)
  BY DEF Drain
<1>3. Coherent(status, gate', group', failure', inFlight, live)
  BY <1>2 DEF IInv
<1> QED
  BY <1>1, <1>2, <1>3, PumpEstablishes DEF TypeOK

\* While a run is live the counter the end of the run decrements is positive.
LEMMA CounterPositive == ASSUME IInv, live # {} PROVE inFlight - 1 \in Nat
<1>1. IsFiniteSet(live) /\ Cardinality(live) \in Nat /\ inFlight = Cardinality(live)
  BY NodeAssumption, FS_Subset, FS_CardinalityType DEF IInv, TypeOK, Coherent
<1>2. Cardinality(live) # 0
  BY <1>1, FS_EmptySet
<1> QED
  BY <1>1, <1>2

\* Both ends of a run: the statuses st and the failure are what differs.
LEMMA RunEndKeeps ==
  ASSUME IInv, NEW n \in live, RunOk(n) \/ RunFail(n)
  PROVE  IInv'
<1> DEFINE st  == IF RunOk(n) THEN [status EXCEPT ![n] = "done"] ELSE status
           k   == inFlight - 1
           lv  == live \ {n}
           dr  == drain # "none"
<1>1. TypeOK /\ drain \in {"none", "open"} /\ n \in Node /\ status[n] = "running"
  BY DEF IInv, TypeOK, SettledIsQuiet, Coherent
<1>2. /\ gate' = gate /\ group' = group
      /\ failure' \in Node \cup {None}
      /\ failure # None => failure' # None
      /\ ~ RunOk(n) => failure' # None
      /\ Pump(st, k, lv, dr)
  <2>1. CASE RunOk(n)
    BY <1>1, <2>1 DEF RunOk, TypeOK
  <2>2. CASE ~ RunOk(n)
    <3>1. RunFail(n)
      BY <2>2
    <3> QED
      BY <1>1, <2>2, <3>1, NodeAssumption DEF RunFail, TypeOK
  <2> QED
    BY <2>1, <2>2
<1>3. k \in Nat /\ k = Cardinality(lv) /\ k <= Limit
  <2>1. IsFiniteSet(live) /\ IsFiniteSet(lv)
    BY <1>1, NodeAssumption, FS_Subset DEF TypeOK
  <2>2. Cardinality(lv) = Cardinality(live) - 1
    BY <2>1, FS_RemoveElement
  <2>3. Cardinality(lv) \in Nat
    BY <2>1, FS_CardinalityType
  <2> QED
    BY <2>2, <2>3, LimitAssumption DEF IInv, Coherent, TypeOK
<1>4. /\ st \in [Node -> Status] /\ lv \in SUBSET Node /\ dr \in BOOLEAN
      /\ gate' \in [Node -> SUBSET Node] /\ group' \in SUBSET Node
  BY <1>1, <1>2 DEF TypeOK, Status
<1>5. Coherent(st, gate', group', failure', k, lv)
  <2>1. \A m \in lv : st[m] = "running"
    BY <1>1 DEF IInv, Coherent, TypeOK
  <2>2. \A m \in group' : st[m] # "running"
    BY <1>1, <1>2 DEF IInv, Coherent, TypeOK
  <2>3. \A m \in Node : st[m] = "running" /\ m \notin lv => failure' # None
    BY <1>1, <1>2 DEF IInv, Coherent, TypeOK
  <2>4. \A m \in Node : st[m] \in {"running", "done"} => \A d \in gate'[m] : st[d] = "done"
    BY <1>1, <1>2 DEF IInv, Coherent, TypeOK
  <2> QED
    BY <1>3, <2>1, <2>2, <2>3, <2>4 DEF Coherent
<1> HIDE DEF st, k, lv, dr
<1>6. drain = "open" => dr
  BY DEF dr
<1> QED
  BY <1>1, <1>2, <1>3, <1>4, <1>5, <1>6, PumpEstablishes

-----------------------------------------------------------------------------
LEMMA StepKeeps == ASSUME IInv, [Next]_vars PROVE IInv'
<1>1. CASE Drain
  BY <1>1, DrainKeeps
<1>2. ASSUME NEW n \in Node, MayRegister, Declare(n) PROVE IInv'
  BY <1>2, DeclareKeeps
<1>3. ASSUME NEW n \in Node, MayRegister,
             NEW deps \in SUBSET Node, NEW g \in BOOLEAN, Add(n, deps, g)
      PROVE  IInv'
  BY <1>3, AddKeeps
<1>4. ASSUME NEW n \in Node, RunOk(n) \/ RunFail(n) PROVE IInv'
  <2>1. n \in live
    BY <1>4 DEF RunOk, RunFail
  <2> QED
    BY <1>4, <2>1, RunEndKeeps
<1>5. CASE UNCHANGED vars
  BY <1>5 DEF vars, IInv, TypeOK, Coherent, ResolvedMeansDone, OpenMeansLive,
              NoIdleSlot, SettledIsQuiet
<1> QED
  BY <1>1, <1>2, <1>3, <1>4, <1>5 DEF Next

\* IInv is an invariant: it holds at first and every step keeps it.
THEOREM Inductive == Spec => []IInv
  BY StepKeeps, InitEstablishes, PTL DEF Spec

\* How a pump moves the statuses st it is given: a pending node may start, or
\* complete if it is a marker, and nothing else changes.
Moves(st) ==
  \A n \in Node :
    \/ status'[n] = st[n]
    \/ st[n] = "pending" /\ status'[n] = IF n \in group' THEN "done" ELSE "running"

LEMMA PumpMoves ==
  ASSUME TypeOK, gate' \in [Node -> SUBSET Node], group' \in SUBSET Node,
         NEW st \in [Node -> Status], NEW k \in Nat, NEW lv \in SUBSET Node,
         NEW dr \in BOOLEAN, Pump(st, k, lv, dr)
  PROVE  Moves(st)
<1>1. CASE ~ dr \/ failure' # None
  BY <1>1 DEF Pump, Halted, Moves
<1>2. CASE dr /\ failure' = None
  <2> DEFINE dn == Completed(st, gate', group')
             ready == {n \in Node \ group' : st[n] = "pending" /\ gate'[n] \subseteq dn}
  <2>1. PICK S \in SUBSET ready :
             status' = [n \in Node |-> IF n \in dn THEN "done"
                                       ELSE IF n \in S THEN "running" ELSE st[n]]
    BY <1>2 DEF Pump, Halted
  <2>2. \A n \in dn \ DoneIn(st) : n \in group' /\ st[n] = "pending"
    BY CompletedFacts
  <2> HIDE DEF dn
  <2> QED
    BY <2>1, <2>2 DEF Moves, DoneIn
<1> QED
  BY <1>1, <1>2

-----------------------------------------------------------------------------
(* What a reader should know of the pool, from IInv.                        *)

\* The counter is exact and the number of runs in flight never exceeds the
\* width (start/pump, the memory ceiling).
THEOREM WidthCapHolds == Spec => []WidthCap
<1>1. IInv => WidthCap
  BY DEF IInv, Coherent, WidthCap
<1> QED
  BY <1>1, Inductive, PTL

\* A node starts or completes only after everything it gates on (add, pump).
THEOREM StartedAfterDepsHolds == Spec => []StartedAfterDeps
<1>1. IInv => StartedAfterDeps
  BY DEF IInv, Coherent, StartedAfterDeps
<1> QED
  BY <1>1, Inductive, PTL

\* drain() fulfils only when all is done, an open drain has a run in flight, and
\* no slot is idle while a node is ready (pump's exits).
THEOREM DrainIsHonest == Spec => [](ResolvedMeansDone /\ OpenMeansLive /\ NoIdleSlot)
<1>1. IInv => ResolvedMeansDone /\ OpenMeansLive /\ NoIdleSlot
  BY DEF IInv
<1> QED
  BY <1>1, Inductive, PTL

-----------------------------------------------------------------------------
(* The refinement.                                                          *)

\* What a pump may change, said without the scan.
Effect(st, lv) ==
  /\ lv \subseteq live' /\ DoneIn(st) \subseteq DoneIn(status')
  /\ \A n \in live' \ lv : st[n] = "pending" /\ gate'[n] \subseteq DoneIn(status')
  /\ \A n \in DoneIn(status') \ DoneIn(st) :
        st[n] = "pending" /\ gate'[n] \subseteq DoneIn(status')
  /\ failure' # None => live' = lv
  /\ \A n \in Node : status'[n] = "unknown" <=> st[n] = "unknown"
  /\ drain' \in {"none", "open"} \cup Outcome
  /\ drain' = "failed" => failure' # None
  /\ drain' = "resolved" =>
        failure' = None /\ \A n \in Node : status'[n] \in {"unknown", "done"}
  /\ drain' = "stalled" =>
        failure' = None /\ \E n \in Node : status'[n] \notin {"unknown", "done"}

LEMMA PumpEffect ==
  ASSUME TypeOK, drain \in {"none", "open"},
         gate' \in [Node -> SUBSET Node], group' \in SUBSET Node,
         NEW st \in [Node -> Status], NEW k \in Nat, NEW lv \in SUBSET Node,
         NEW dr \in BOOLEAN,
         Pump(st, k, lv, dr)
  PROVE  Effect(st, lv)
<1>1. CASE ~ dr \/ failure' # None
  <2>1. status' = st /\ live' = lv
    BY <1>1 DEF Pump, Halted
  <2>2. /\ drain' \in {"none", "open", "failed"}
        /\ drain' = "failed" => failure' # None
    BY <1>1 DEF Pump, Halted, AllDone, Settle, Outcome
  <2> QED
    BY <2>1, <2>2 DEF DoneIn, Outcome, Effect
<1>2. CASE dr /\ failure' = None
  <2> DEFINE dn == Completed(st, gate', group')
             ready == {n \in Node \ group' : st[n] = "pending" /\ gate'[n] \subseteq dn}
  <2>1. PICK S \in SUBSET ready :
             /\ status' = [n \in Node |-> IF n \in dn THEN "done"
                                          ELSE IF n \in S THEN "running" ELSE st[n]]
             /\ live' = lv \cup S
    BY <1>2 DEF Pump, Halted
  <2>2. drain' = IF inFlight' > 0 THEN "open"
                 ELSE IF \A n \in Node : status'[n] \in {"unknown", "done"} THEN "resolved"
                 ELSE "stalled"
    BY <1>2 DEF Pump, Halted, AllDone, Settle, Outcome
  <2>3. /\ dn \subseteq Node /\ DoneIn(st) \subseteq dn
        /\ \A n \in dn \ DoneIn(st) : st[n] = "pending" /\ gate'[n] \subseteq dn
    BY CompletedFacts
  <2>4. DoneIn(status') = dn
    BY <2>1, <2>3 DEF DoneIn
  <2>5. \A n \in live' \ lv : st[n] = "pending" /\ gate'[n] \subseteq dn
    BY <2>1
  <2>6. \A n \in Node : status'[n] = "unknown" <=> st[n] = "unknown"
    BY <2>1, <2>3 DEF DoneIn
  <2>7. /\ drain' \in {"open", "resolved", "stalled"}
        /\ drain' = "resolved" => \A n \in Node : status'[n] \in {"unknown", "done"}
        /\ drain' = "stalled" => \E n \in Node : status'[n] \notin {"unknown", "done"}
    BY <2>2
  <2>8. lv \subseteq live'
    BY <2>1
  <2> HIDE DEF dn, ready
  <2> QED
    BY <1>2, <2>3, <2>4, <2>5, <2>6, <2>7, <2>8 DEF Outcome, Effect
<1> QED
  BY <1>1, <1>2

\* The statuses st and the runs lv a handler hands to pump() differ from the
\* current ones by one registered node or by one ended run.
Handed(st, lv, ended) ==
  /\ \A n \in live \cup DoneIn(status) : gate'[n] = gate[n]
  /\ \A n \in Node : status[n] # "unknown" => st[n] # "unknown"
  /\ \A n \in Node : st[n] = "pending" => n \notin live \cup DoneIn(status)
  /\ \A m, n \in ended : m = n
  /\ lv = live \ ended
  /\ DoneIn(status) \subseteq DoneIn(st) /\ DoneIn(st) \subseteq DoneIn(status) \cup ended
  /\ (failure' # None) <=> (failure # None \/ ~ (ended \subseteq DoneIn(st)))

\* Such a pump is a step of the executor.
LEMMA PumpImplements ==
  ASSUME IInv, IInv', drain \in {"none", "open"},
         NEW st \in [Node -> Status], NEW k \in Nat, NEW lv \in SUBSET Node,
         NEW dr \in BOOLEAN, Pump(st, k, lv, dr),
         NEW ended \in SUBSET live, Handed(st, lv, ended)
  PROVE  Abstract!Next
<1> DEFINE dn == DoneIn(status')
<1> USE DEF Handed
<1>1. /\ TypeOK /\ TypeOK' /\ gate' \in [Node -> SUBSET Node] /\ group' \in SUBSET Node
  BY DEF IInv, TypeOK
<1>0. Effect(st, lv)
  BY <1>1, PumpEffect
<1>2. /\ lv \subseteq live' /\ DoneIn(st) \subseteq dn
      /\ \A n \in live' \ lv : st[n] = "pending" /\ gate'[n] \subseteq dn
      /\ \A n \in dn \ DoneIn(st) : st[n] = "pending" /\ gate'[n] \subseteq dn
      /\ failure' # None => live' = lv
      /\ \A n \in Node : status'[n] = "unknown" <=> st[n] = "unknown"
  BY <1>0 DEF Effect
<1>3. live' \cap dn = {} /\ Cardinality(live') <= Limit
  BY DEF IInv, Coherent, DoneIn
<1>4. live' \ live \subseteq live' \ lv
  OBVIOUS
<1>5. live \ live' = ended /\ ended \cap live' = {}
  <2>1. \A n \in ended : st[n] # "pending"
    BY DEF IInv, TypeOK
  <2> QED
    BY <1>2, <2>1
<1>6. Abstract!KeepsOrder
  <2>1. Abstract!Begun = live' \ live
    BY DEF Abstract!Begun
  <2>2. \A n \in (live' \ live) \cup (dn \ (DoneIn(status) \cup live)) : gate'[n] \subseteq dn
    <3>1. \A n \in dn \ (DoneIn(status) \cup live) : n \notin DoneIn(st)
      OBVIOUS
    <3> QED
      BY <1>2, <1>4, <3>1
  <2>3. (live' \ live) \cap DoneIn(status) = {}
    BY <1>2, <1>4, <1>1 DEF TypeOK
  <2> QED
    BY <2>1, <2>2, <2>3 DEF Abstract!KeepsOrder, Abstract!Fresh
<1>7. Abstract!KeepsProgress
  BY <1>2, <1>3 DEF Abstract!KeepsProgress
<1>8. Abstract!HaltsOnFailure
  <2>1. failure' # None => live' \ live = {}
    BY <1>2
  <2>2. ended \subseteq dn <=> ended \subseteq DoneIn(st)
    <3>1. \A n \in ended : st[n] # "pending"
      BY DEF IInv, TypeOK
    <3> QED
      BY <1>2, <3>1
  <2>3. (failure' # None) = (failure # None \/ ~ (live \ live' \subseteq dn))
    BY <1>5, <2>2
  <2> QED
    BY <2>1, <2>3 DEF Abstract!HaltsOnFailure, Abstract!Begun, Abstract!Ended
<1>9. drain' \in Outcome => Abstract!Ends
  <2>1. SUFFICES ASSUME drain' \in Outcome PROVE Abstract!Ends
    OBVIOUS
  <2>2. live' = {}
    BY <2>1 DEF IInv, SettledIsQuiet
  <2>3. (\A n \in Node : status'[n] \in {"unknown", "done"})
           <=> {n \in Node : status'[n] # "unknown"} \subseteq dn
    BY DEF DoneIn
  <2> QED
    BY <1>0, <2>1, <2>2, <2>3 DEF Abstract!Ends, Outcome, Effect
<1>10. \A m, n \in Abstract!Ended : m = n
  BY <1>5 DEF Abstract!Ended
<1>11. drain' \notin Outcome => drain' \in {"none", "open"}
  BY <1>0 DEF Effect
<1>12. (IF drain \in Outcome THEN drain ELSE "none") = "none"
  BY DEF Outcome
<1>13. (IF drain' \in Outcome THEN drain' ELSE "none") = "none" \/ Abstract!Ends
  BY <1>9
<1>14. live' \in {S \in SUBSET Node : Cardinality(S) <= Limit}
  BY <1>1, <1>3 DEF TypeOK
<1> QED
  BY <1>6, <1>7, <1>8, <1>10, <1>12, <1>13, <1>14 DEF Abstract!Next

\* Every step of the pool is a step of the executor or leaves it unchanged.
LEMMA StepImplements ==
  ASSUME IInv, IInv', [Next]_vars
  PROVE  [Abstract!Next]_(Abstract!vars)
<1>1. CASE Drain
  <2>1. gate' = gate /\ failure' = failure /\ Pump(status, inFlight, live, TRUE) /\ drain = "none"
    BY <1>1 DEF Drain
  <2>2. \A n \in Node : status[n] = "pending" => n \notin live \cup DoneIn(status)
    BY DEF IInv, Coherent, DoneIn
  <2>3. Handed(status, live, {})
    BY <2>1, <2>2 DEF Handed
  <2>4. {} \in SUBSET live /\ status \in [Node -> Status] /\ inFlight \in Nat /\ live \in SUBSET Node
    BY DEF IInv, TypeOK
  <2> QED
    BY <2>1, <2>3, <2>4, PumpImplements
<1>2. ASSUME NEW n \in Node, MayRegister, Declare(n)
      PROVE  [Abstract!Next]_(Abstract!vars)
  <2>1. CASE status[n] # "unknown"
    BY <1>2, <2>1 DEF Declare, Abstract!vars
  <2>2. CASE status[n] = "unknown"
    <3>1. /\ status' = [status EXCEPT ![n] = "declared"]
          /\ UNCHANGED <<gate, group, live, inFlight, failure, drain>>
      BY <1>2, <2>2 DEF Declare
    <3>2. DoneIn(status') = DoneIn(status) /\ drain \notin Outcome
      BY <1>2, <2>2, <3>1 DEF IInv, TypeOK, DoneIn, MayRegister, SettledIsQuiet, Outcome
    <3>3. {m \in Node : status[m] # "unknown"} \subseteq {m \in Node : status'[m] # "unknown"}
      BY <3>1 DEF IInv, TypeOK
    <3>4. live' \in {S \in SUBSET Node : Cardinality(S) <= Limit}
      BY <3>1 DEF IInv, TypeOK, Coherent
    <3>5. live' \cap DoneIn(status') = {}
      BY DEF IInv, Coherent, DoneIn
    <3>6. live' = live /\ gate' = gate /\ failure' = failure /\ drain' = drain
      BY <3>1
    <3>7. Abstract!KeepsOrder /\ Abstract!KeepsProgress
      BY <3>2, <3>3, <3>5, <3>6
         DEF Abstract!KeepsOrder, Abstract!Fresh, Abstract!Begun, Abstract!KeepsProgress
    <3>8. Abstract!HaltsOnFailure
      BY <3>6 DEF Abstract!HaltsOnFailure, Abstract!Begun, Abstract!Ended
    <3>9. /\ \A m, p \in Abstract!Ended : m = p
          /\ (IF drain \in Outcome THEN drain ELSE "none") = "none"
          /\ (IF drain' \in Outcome THEN drain' ELSE "none") = "none"
      BY <3>2, <3>4, <3>6 DEF Abstract!Ended
    <3>10. Abstract!Next
      BY <3>4, <3>7, <3>8, <3>9 DEF Abstract!Next
    <3> QED
      BY <3>10
  <2> QED
    BY <2>1, <2>2
<1>3. ASSUME NEW n \in Node, MayRegister,
             NEW deps \in SUBSET Node, NEW g \in BOOLEAN, Add(n, deps, g)
      PROVE  [Abstract!Next]_(Abstract!vars)
  <2> DEFINE st == [status EXCEPT ![n] = "pending"]
             dr == drain # "none"
  <2>1. TypeOK /\ drain \in {"none", "open"}
    BY <1>3 DEF IInv, TypeOK, MayRegister, SettledIsQuiet
  <2>2. /\ status[n] \in {"unknown", "declared"} /\ failure' = failure
        /\ gate' = [gate EXCEPT ![n] = {d \in deps \ {n} : status[d] # "unknown"}]
    BY <1>3, <2>1 DEF Add, Duplicate, TypeOK, Status
  <2>3. Pump(st, inFlight, live, dr)
    BY <1>3 DEF Add
  <2>4. st \in [Node -> Status] /\ dr \in BOOLEAN /\ inFlight \in Nat /\ live \in SUBSET Node
    BY <2>1 DEF TypeOK, Status
  <2>5. DoneIn(st) = DoneIn(status) /\ n \notin live \cup DoneIn(status)
    BY <2>1, <2>2 DEF TypeOK, DoneIn, IInv, Coherent
  <2>6. /\ \A m \in live \cup DoneIn(status) : gate'[m] = gate[m]
        /\ \A m \in Node : status[m] # "unknown" => st[m] # "unknown"
        /\ \A m \in Node : st[m] = "pending" => m \notin live \cup DoneIn(status)
    BY <2>1, <2>2, <2>5 DEF TypeOK, IInv, Coherent, DoneIn
  <2>7. {} \in SUBSET live /\ Handed(st, live, {})
    BY <2>2, <2>5, <2>6 DEF Handed
  <2> HIDE DEF st, dr
  <2> QED
    BY <2>1, <2>3, <2>4, <2>7, PumpImplements
<1>4. ASSUME NEW n \in Node, RunOk(n) \/ RunFail(n)
      PROVE  [Abstract!Next]_(Abstract!vars)
  <2> DEFINE st == IF RunOk(n) THEN [status EXCEPT ![n] = "done"] ELSE status
             k  == inFlight - 1
             lv == live \ {n}
             dr == drain # "none"
  <2>1. n \in live /\ gate' = gate
    BY <1>4 DEF RunOk, RunFail
  <2>2. TypeOK /\ drain \in {"none", "open"} /\ status[n] = "running"
    BY <2>1 DEF IInv, TypeOK, SettledIsQuiet, Coherent
  <2>3. Pump(st, k, lv, dr)
    BY <1>4 DEF RunOk, RunFail
  <2>4. st \in [Node -> Status] /\ dr \in BOOLEAN /\ lv \in SUBSET Node
    BY <2>2 DEF TypeOK, Status
  <2>5. k \in Nat
    <3>1. IsFiniteSet(live)
      BY <2>2, NodeAssumption, FS_Subset DEF TypeOK
    <3>2. Cardinality(live) # 0
      BY <2>1, <3>1, FS_EmptySet
    <3> QED
      BY <2>2, <3>2 DEF IInv, Coherent, TypeOK
  <2>6. /\ DoneIn(st) = IF RunOk(n) THEN DoneIn(status) \cup {n} ELSE DoneIn(status)
        /\ n \notin DoneIn(status)
    BY <2>2 DEF TypeOK, DoneIn
  <2>7. (failure' # None) <=> (failure # None \/ ~ ({n} \subseteq DoneIn(st)))
    <3>1. CASE RunOk(n)
      BY <3>1, <2>6 DEF RunOk
    <3>2. CASE ~ RunOk(n)
      <4>1. failure' = IF failure = None THEN n ELSE failure
        BY <1>4, <3>2 DEF RunFail
      <4>2. n # None
        BY NodeAssumption
      <4> QED
        BY <3>2, <4>1, <4>2, <2>6
    <3> QED
      BY <3>1, <3>2
  <2>8. /\ \A m \in live \cup DoneIn(status) : gate'[m] = gate[m]
        /\ \A m \in Node : status[m] # "unknown" => st[m] # "unknown"
        /\ \A m \in Node : st[m] = "pending" => m \notin live \cup DoneIn(status)
    BY <2>1, <2>2 DEF TypeOK, IInv, Coherent, DoneIn
  <2>9. {n} \in SUBSET live /\ \A m, p \in {n} : m = p
    BY <2>1
  <2>11. DoneIn(status) \subseteq DoneIn(st) /\ DoneIn(st) \subseteq DoneIn(status) \cup {n}
    BY <2>6
  <2>10. Handed(st, lv, {n})
    BY <2>7, <2>8, <2>9, <2>11 DEF Handed
  <2> HIDE DEF st, k, lv, dr
  <2> QED
    BY <2>2, <2>3, <2>4, <2>5, <2>9, <2>10, PumpImplements
<1>5. CASE UNCHANGED vars
  BY <1>5 DEF vars, Abstract!vars
<1> QED
  BY <1>1, <1>2, <1>3, <1>4, <1>5 DEF Next

LEMMA InitImplements == Init => Abstract!Init
  BY DEF Init, Abstract!Init, DoneIn, Outcome

\* The pool implements the executor: no scan order, re-entrant add or failure
\* can make it run anything out of order, over the width, or after a failure.
THEOREM Refinement == Spec => Implements
<1>1. IInv /\ IInv' /\ [Next]_vars => [Abstract!Next]_(Abstract!vars)
  BY StepImplements
<1> QED
  BY <1>1, InitImplements, Inductive, PTL DEF Spec, Implements, Abstract!Spec

\* No step starts a run once one has failed (pump returns before its scan).
THEOREM NoStartAfterFailureHolds == Spec => NoStartAfterFailure
<1>1. IInv /\ [Next]_vars => [failure # None => live' \subseteq live]_vars
  <2>1. SUFFICES ASSUME IInv, Next, failure # None PROVE live' \subseteq live
    OBVIOUS
  <2>2. CASE Drain
    BY <2>1, <2>2 DEF Drain, Pump, Halted
  <2>3. ASSUME NEW n \in Node, MayRegister, Declare(n) PROVE live' \subseteq live
    BY <2>3 DEF Declare
  <2>4. ASSUME NEW n \in Node, MayRegister,
               NEW deps \in SUBSET Node, NEW g \in BOOLEAN, Add(n, deps, g)
        PROVE  live' \subseteq live
    BY <2>1, <2>4 DEF Add, Pump, Halted
  <2>5. ASSUME NEW n \in Node, RunOk(n) \/ RunFail(n) PROVE live' \subseteq live
    BY <2>1, <2>5 DEF RunOk, RunFail, Pump, Halted
  <2> QED
    BY <2>1, <2>2, <2>3, <2>4, <2>5 DEF Next
<1> QED
  BY <1>1, Inductive, PTL DEF Spec, NoStartAfterFailure
=============================================================================
