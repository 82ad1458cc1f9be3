---------------------------- MODULE DafWarmProofs ----------------------------
(***************************************************************************)
(* The promises of the daf-warm Workflow for any registry that satisfies    *)
(* RegistryAssumption and DependencyAssumption, any width and any number of *)
(* crashes.  The pool under it keeps DagPoolProofs' invariant, since every  *)
(* use the Workflow makes of the pool is a step of DagPool and a restart    *)
(* makes a new one.  WarmInv says what the rest of the state has to do with *)
(* it: which ids are registered and on what they are gated, how far each    *)
(* mark's fan-out has come, and what a persisted step result implies.       *)
(***************************************************************************)
EXTENDS DafWarm, FiniteSetTheorems, WellFoundedInduction, TLAPS

PoolProofs == INSTANCE DagPoolProofs WITH Limit <- Width

PoolInv == PoolProofs!IInv

\* The marks whose fan-out reads the entry their own step writes: all of them in
\* an English Workflow.
OwnKeyRead == \A m \in Mark : PerInstOf(m) # {} => Key(m) = InstancesKey(m)

UnitAt(e, p) == <<e, insts[Target[e]][p]>>

\* A unit's gate: its dependencies but for the units of an enrichment without a
\* definition, which are never added.
UnitGate(e, i) == UnitDeps(e, i) \ {<<d, i>> : d \in NoDef}

\* What outlives the orchestrator.
Stored ==
  /\ result \in [StepNode -> {"none", "kept", "ended"}]
  /\ kv \in [Mark \X {"en", "he"} -> (UNION {Outputs[m] : m \in Mark}) \cup {None}]
  /\ \A m \in Mark, l \in {"en", "he"} : kv[<<m, l>>] \in Outputs[m] \cup {None}
  /\ moved \subseteq Mark /\ down \in BOOLEAN /\ restarts \in 0 .. MaxRestarts
  /\ \A m \in Mark : result[m] = "kept" /\ m \notin moved => kv[Key(m)] # None
  /\ \A e \in PerInst, i \in Iid : result[<<e, i>>] # "none" =>
       /\ e \notin NoDef
       /\ Target[e] \notin moved =>
            kv[InstancesKey(Target[e])] # None /\ i \in Elems(kv[InstancesKey(Target[e])])

\* Where the runs are, by the pool's statuses.
Ran ==
  /\ pc \in [StepNode -> {"idle", "gen", "end", "fan", "done", "threw", "unread"}]
  /\ \A n \in StepNode :
       /\ pc[n] # "idle" => status[n] \in {"running", "done"}
       /\ status[n] = "done" <=> pc[n] = "done"
       /\ pc[n] \in {"end", "fan", "done", "unread"} => result[n] # "none"
       /\ pc[n] = "fan" => n \in Mark
  /\ failure # None => failure \in StepNode /\ pc[failure] \in {"threw", "unread"}

\* Every id of the graph is known to the pool from the start, so no gate on one
\* is dropped.
Registered ==
  /\ \A n \in GraphIds : status[n] # "unknown"
  /\ \A n \in Mark \cup WholeDaf : gate[n] = StaticDeps(n) \ {n}
  /\ \A u \in Unit : status[u] # "declared"
  /\ group \subseteq PerInst

\* A mark's instances: not read yet, or, while nobody else touches its entry, read
\* as none or as the entry lists them, and then all that have a result are among
\* them.
Enumerated ==
  \A m \in Mark :
    /\ insts[m] \in Lists(m)
    /\ insts[m] # <<>> /\ m \notin moved => insts[m] = kv[InstancesKey(m)]
    /\ pc[m] \in {"idle", "gen", "end", "threw"} =>
         insts[m] = <<>> /\ \A e \in PerInstOf(m) : status[e] = "declared"
    /\ pc[m] \in {"fan", "done"} /\ m \notin moved =>
         \A e \in PerInstOf(m), i \in Iid : result[<<e, i>>] # "none" => i \in Elems(insts[m])
    /\ OwnKeyRead /\ pc[m] \in {"fan", "done"} /\ PerInstOf(m) # {}
         /\ result[m] = "kept" /\ m \notin moved => insts[m] = kv[InstancesKey(m)]

\* A fan-out's units and markers are the positions it has added, and wait for
\* what they have to.
Fanned ==
  /\ insts \in [Mark -> Seq(Iid)]
  /\ \A e \in PerInst : status[e] # "declared" =>
       /\ gate[e] = {UnitAt(e, p) : p \in Positions(e)}
       /\ \A p \in Positions(e) : <<e, p>> \in added
  /\ \A e \in PerInst, p \in Nat : <<e, p>> \in added =>
       p \in Positions(e) /\ status[UnitAt(e, p)] # "unknown"
  /\ \A e \in PerInst, i \in Iid : status[<<e, i>>] # "unknown" =>
       /\ \E p \in Positions(e) : <<e, i>> = UnitAt(e, p) /\ <<e, p>> \in added
       /\ gate[<<e, i>>] = UnitGate(e, i)

WarmInv == Stored /\ Ran /\ Registered /\ Enumerated /\ Fanned

-----------------------------------------------------------------------------
(* The registry.                                                            *)

LEMMA Nodes ==
  /\ StepNode = Mark \cup WholeDaf \cup Unit /\ StepNode \subseteq Node
  /\ GraphIds \subseteq Node /\ GraphIds \cap Unit = {} /\ PerInst \cap StepNode = {}
  /\ Mark \subseteq GraphIds /\ WholeDaf \subseteq GraphIds /\ PerInst \subseteq GraphIds
  /\ \A e \in PerInst, i \in Iid : <<e, i>> \in Unit
  /\ \A u \in Unit : \E e \in PerInst, i \in Iid : u = <<e, i>>
  BY RegistryAssumption DEF StepNode, Node, GraphIds, Unit

LEMMA DedupeFacts ==
  ASSUME NEW l \in Seq(Iid)
  PROVE  /\ DedupeInstancesByIid(l) \subseteq DOMAIN l /\ DOMAIN l \subseteq Nat
         /\ \A p \in DOMAIN l : l[p] \in Iid
         /\ l = <<>> => DOMAIN l = {}
  BY DEF DedupeInstancesByIid

\* Two positions the dedupe keeps have different ids.
LEMMA DedupeDistinct ==
  ASSUME NEW l \in Seq(Iid), NEW p \in DedupeInstancesByIid(l),
         NEW q \in DedupeInstancesByIid(l), l[p] = l[q]
  PROVE  p = q
<1>1. p \in Nat /\ q \in Nat /\ p >= 1 /\ q >= 1
  BY DEF DedupeInstancesByIid
<1>2. ~ (p < q)
  BY <1>1 DEF DedupeInstancesByIid
<1>3. ~ (q < p)
  BY <1>1 DEF DedupeInstancesByIid
<1> QED
  BY <1>1, <1>2, <1>3

\* The dedupe leaves no id out: of the positions with one id it keeps the first.
LEMMA DedupeCovers ==
  ASSUME NEW l \in Seq(Iid), NEW i \in Elems(l)
  PROVE  \E q \in DedupeInstancesByIid(l) : l[q] = i
<1> DEFINE T == {q \in DOMAIN l : l[q] = i}
<1>1. T \subseteq Nat /\ T # {} /\ \A q \in T : q >= 1
  BY DEF Elems
<1>2. PICK q \in T : \A r \in T : <<r, q>> \notin OpToRel(<, Nat)
  <2> HIDE DEF T
  <2> QED
    BY <1>1, NatLessThanWellFounded, WFMin, Zenon
<1>3. \A r \in T : ~ (r < q)
  BY <1>1, <1>2 DEF OpToRel
<1>4. \A r \in 1 .. q - 1 : r \in DOMAIN l
  OBVIOUS
<1>5. \A r \in 1 .. q - 1 : l[r] # l[q]
  BY <1>1, <1>3, <1>4
<1>6. q \in DedupeInstancesByIid(l)
  BY <1>5 DEF DedupeInstancesByIid
<1> QED
  BY <1>6

\* A fan-out's positions are in the list it read, and their units are units.
LEMMA PositionFacts ==
  ASSUME insts \in [Mark -> Seq(Iid)], NEW e \in PerInst
  PROVE  /\ Target[e] \in Mark /\ e \in PerInstOf(Target[e])
         /\ Positions(e) \subseteq DOMAIN insts[Target[e]] /\ Positions(e) \subseteq Nat
         /\ \A p \in Positions(e) : /\ insts[Target[e]][p] \in Iid
                                    /\ insts[Target[e]][p] \in Elems(insts[Target[e]])
                                    /\ UnitAt(e, p) \in Unit
<1>1. Target[e] \in Mark
  BY RegistryAssumption
<1>2. e \in PerInstOf(Target[e])
  BY <1>1 DEF PerInstOf
<1>3. Positions(e) \subseteq DedupeInstancesByIid(insts[Target[e]])
  BY DEF Positions
<1>4. insts[Target[e]] \in Seq(Iid)
  BY <1>1
<1>5. Positions(e) \subseteq DOMAIN insts[Target[e]] /\ Positions(e) \subseteq Nat
  BY <1>3, <1>4, DedupeFacts
<1> QED
  BY <1>1, <1>2, <1>4, <1>5, DedupeFacts DEF Elems, UnitAt, Unit

LEMMA ListsType ==
  /\ \A m \in Mark : Lists(m) \subseteq Seq(Iid) /\ None \notin Lists(m)
  /\ \A m \in Mark : Outputs[m] \subseteq Lists(m)
  /\ \A m \in Mark : Key(m) \in Mark \X {"en", "he"} /\ InstancesKey(m) = <<m, "en">>
                       /\ InstancesKey(m) \in Mark \X {"en", "he"} /\ Key(m)[1] = m
<1>1. ASSUME NEW m \in Mark
      PROVE  Lists(m) \subseteq Seq(Iid) /\ None \notin Lists(m) /\ Outputs[m] \subseteq Lists(m)
  <2>1. Outputs[m] \subseteq Seq(Iid)
    BY RegistryAssumption
  <2>2. <<>> \in Seq(Iid)
    OBVIOUS
  <2> QED
    BY <2>1, <2>2, RegistryAssumption DEF Lists
<1>2. ASSUME NEW m \in Mark
      PROVE  Key(m) \in Mark \X {"en", "he"} /\ InstancesKey(m) = <<m, "en">>
               /\ InstancesKey(m) \in Mark \X {"en", "he"} /\ Key(m)[1] = m
  BY BoundsAssumption DEF Key, InstancesKey
<1> QED
  BY <1>1, <1>2

\* What is in the graph passes through expandInlineDeps, and so does all of it.
LEMMA VisitedFacts ==
  ASSUME NEW deps \in SUBSET (GraphIds \cup Excluded)
  PROVE  /\ deps \subseteq Visited(deps)
         /\ Visited(deps) \subseteq GraphIds \cup Excluded
         /\ deps \cap Excluded = {} => Visited(deps) = deps
<1>1. deps \subseteq Visited(deps) /\ Visited(deps) \subseteq GraphIds \cup Excluded
  BY DEF Visited
<1>2. ASSUME deps \cap Excluded = {} PROVE Visited(deps) \subseteq deps
  BY <1>2 DEF Visited
<1> QED
  BY <1>1, <1>2

LEMMA NoSelfDependency == \A e \in PerInst : e \notin DepsOf[e]
<1> SUFFICES ASSUME NEW e \in PerInst PROVE e \notin DepsOf[e]
  OBVIOUS
<1>1. \E x \in {e} : DepsOf[x] \cap {e} = {}
  BY DependencyAssumption
<1> QED
  BY <1>1

LEMMA Gates ==
  /\ \A n \in Mark \cup WholeDaf : StaticDeps(n) \subseteq GraphIds
  /\ \A e \in PerInst, i \in Iid :
       UnitDeps(e, i) \subseteq Node /\ <<e, i>> \notin UnitDeps(e, i)
<1>1. ASSUME NEW n \in Mark \cup WholeDaf PROVE StaticDeps(n) \subseteq GraphIds
  <2>1. DepsOf[n] \in SUBSET (GraphIds \cup Excluded) /\ (n \in Mark => DepsOf[n] \cap Excluded = {})
    BY RegistryAssumption, Nodes
  <2> QED
    BY <2>1 DEF StaticDeps, ExpandInlineDeps
<1>2. ASSUME NEW e \in PerInst, NEW i \in Iid
      PROVE  UnitDeps(e, i) \subseteq Node /\ <<e, i>> \notin UnitDeps(e, i)
  <2>1. e \notin DepsOf[e]
    BY NoSelfDependency
  <2>2. {<<d, i>> : d \in DepsOf[e] \cap SameMark(e)} \subseteq Unit
    BY DEF SameMark, PerInstOf, Unit
  <2>3. <<e, i>> \notin {<<d, i>> : d \in DepsOf[e] \cap SameMark(e)}
    BY <2>1
  <2>4. ExpandInlineDeps(DepsOf[e] \ SameMark(e)) \subseteq GraphIds
    BY DEF ExpandInlineDeps
  <2>5. <<e, i>> \in Unit
    BY Nodes
  <2> QED
    BY <2>2, <2>3, <2>4, <2>5, Nodes DEF UnitDeps, Node
<1> QED
  BY <1>1, <1>2

-----------------------------------------------------------------------------
(* The Workflow uses the pool as DagPool says it may be used.               *)

LEMMA PoolParameters == PoolProofs!IsFiniteSet(Node) /\ None \notin Node /\ Width \in Nat \ {0}
  BY RegistryAssumption, BoundsAssumption DEF PoolProofs!IsFiniteSet, IsFiniteSet

LEMMA SamePump ==
  ASSUME NEW st, NEW k, NEW lv, NEW dr
  PROVE  Pool!Pump(st, k, lv, dr) <=> PoolProofs!Pump(st, k, lv, dr)
  BY DEF Pool!Pump, Pool!Halted, Pool!Settle, Pool!Completed, Pool!Outcome, Pool!AllDone,
         Pool!DoneIn, Pool!Cardinality, PoolProofs!Pump, PoolProofs!Halted,
         PoolProofs!Settle, PoolProofs!Completed, PoolProofs!Outcome, PoolProofs!AllDone,
         PoolProofs!DoneIn, PoolProofs!Cardinality

LEMMA SameOps ==
  /\ Pool!Drain <=> PoolProofs!Drain
  /\ \A n : (Pool!RunOk(n) <=> PoolProofs!RunOk(n)) /\ (Pool!RunFail(n) <=> PoolProofs!RunFail(n))
  /\ \A n, deps, g : Pool!Add(n, deps, g) <=> PoolProofs!Add(n, deps, g)
<1>1. Pool!Drain <=> PoolProofs!Drain
  BY SamePump DEF Pool!Drain, PoolProofs!Drain
<1>2. ASSUME NEW n PROVE Pool!RunOk(n) <=> PoolProofs!RunOk(n)
  BY SamePump DEF Pool!RunOk, PoolProofs!RunOk
<1>3. ASSUME NEW n PROVE Pool!RunFail(n) <=> PoolProofs!RunFail(n)
  BY SamePump DEF Pool!RunFail, PoolProofs!RunFail
<1>4. ASSUME NEW n, NEW deps, NEW g PROVE Pool!Add(n, deps, g) <=> PoolProofs!Add(n, deps, g)
  BY SamePump DEF Pool!Add, PoolProofs!Add, Pool!Duplicate, PoolProofs!Duplicate
<1> QED
  BY <1>1, <1>2, <1>3, <1>4

\* What the pump did to the statuses st.
Moved(st) ==
  \A n \in Node :
    \/ status'[n] = st[n]
    \/ st[n] = "pending" /\ status'[n] = IF n \in group' THEN "done" ELSE "running"

LEMMA PoolFacts ==
  ASSUME PoolInv
  PROVE  /\ status \in [Node -> {"unknown", "declared", "pending", "running", "done"}]
         /\ gate \in [Node -> SUBSET Node] /\ group \subseteq Node /\ live \subseteq Node
         /\ inFlight \in Nat /\ failure \in Node \cup {None}
         /\ \A n \in live : status[n] = "running"
         /\ \A n \in Node : status[n] \in {"running", "done"} =>
              \A d \in gate[n] : status[d] = "done"
  BY DEF PoolInv, PoolProofs!IInv, PoolProofs!TypeOK, PoolProofs!Coherent, PoolProofs!Status

LEMMA DrainMoves ==
  ASSUME PoolInv, Pool!Drain
  PROVE  PoolInv' /\ Moved(status) /\ UNCHANGED <<gate, group, failure>>
<1>1. PoolProofs!IInv /\ PoolProofs!Drain
  BY SameOps DEF PoolInv
<1>2. PoolInv'
  BY <1>1, PoolParameters, PoolProofs!DrainKeeps DEF PoolInv
<1>3. UNCHANGED <<gate, group, failure>> /\ PoolProofs!Pump(status, inFlight, live, TRUE)
  BY <1>1 DEF PoolProofs!Drain
<1>4. PoolProofs!TypeOK
  BY <1>1 DEF PoolProofs!IInv
<1>5. PoolProofs!Moves(status)
  BY <1>3, <1>4, PoolParameters, PoolProofs!PumpMoves DEF PoolProofs!TypeOK
<1> QED
  BY <1>2, <1>3, <1>5 DEF Moved, PoolProofs!Moves

LEMMA RunOkMoves ==
  ASSUME PoolInv, NEW n \in Node, Pool!RunOk(n)
  PROVE  /\ PoolInv' /\ Moved([status EXCEPT ![n] = "done"]) /\ status[n] = "running"
         /\ UNCHANGED <<gate, group, failure>>
<1> DEFINE st == [status EXCEPT ![n] = "done"]
<1>1. PoolProofs!IInv /\ PoolProofs!RunOk(n) /\ n \in live
  BY SameOps DEF PoolInv, Pool!RunOk
<1>2. PoolInv'
  BY <1>1, PoolParameters, PoolProofs!RunEndKeeps DEF PoolInv
<1>3. /\ UNCHANGED <<gate, group, failure>>
      /\ PoolProofs!Pump(st, inFlight - 1, live \ {n}, drain # "none")
  BY <1>1 DEF PoolProofs!RunOk
<1>4. PoolProofs!TypeOK /\ st \in [Node -> PoolProofs!Status] /\ live \ {n} \in SUBSET Node
  BY <1>1 DEF PoolProofs!IInv, PoolProofs!TypeOK, PoolProofs!Status
<1>5. inFlight - 1 \in Nat
  BY <1>1, PoolParameters, PoolProofs!CounterPositive
<1> HIDE DEF st
<1>6. PoolProofs!Moves(st)
  BY <1>3, <1>4, <1>5, PoolParameters, PoolProofs!PumpMoves DEF PoolProofs!TypeOK
<1> QED
  BY <1>1, <1>2, <1>3, <1>6, PoolFacts DEF Moved, PoolProofs!Moves, st

LEMMA RunFailMoves ==
  ASSUME PoolInv, NEW n \in Node, Pool!RunFail(n)
  PROVE  /\ PoolInv' /\ Moved(status) /\ status[n] = "running"
         /\ UNCHANGED <<gate, group>>
         /\ failure' = IF failure = None THEN n ELSE failure
<1>1. PoolProofs!IInv /\ PoolProofs!RunFail(n) /\ n \in live
  BY SameOps DEF PoolInv, Pool!RunFail
<1>2. PoolInv'
  BY <1>1, PoolParameters, PoolProofs!RunEndKeeps DEF PoolInv
<1>3. /\ UNCHANGED <<gate, group>> /\ failure' = IF failure = None THEN n ELSE failure
      /\ PoolProofs!Pump(status, inFlight - 1, live \ {n}, drain # "none")
  BY <1>1 DEF PoolProofs!RunFail
<1>4. PoolProofs!TypeOK /\ live \ {n} \in SUBSET Node
  BY <1>1 DEF PoolProofs!IInv, PoolProofs!TypeOK
<1>5. inFlight - 1 \in Nat
  BY <1>1, PoolParameters, PoolProofs!CounterPositive
<1>6. PoolProofs!Moves(status)
  BY <1>3, <1>4, <1>5, PoolParameters, PoolProofs!PumpMoves DEF PoolProofs!TypeOK
<1> QED
  BY <1>1, <1>2, <1>3, <1>6, PoolFacts DEF Moved, PoolProofs!Moves

\* A node is only added from inside a run.
LEMMA AddMoves ==
  ASSUME PoolInv, NEW n \in Node, NEW deps \in SUBSET Node, NEW g \in BOOLEAN,
         live # {}, Pool!Add(n, deps, g)
  PROVE  /\ PoolInv' /\ Moved([status EXCEPT ![n] = "pending"])
         /\ status[n] \in {"unknown", "declared"}
         /\ gate' = [gate EXCEPT ![n] = {d \in deps \ {n} : status[d] # "unknown"}]
         /\ group' = IF g THEN group \cup {n} ELSE group
         /\ failure' = failure
<1> DEFINE st == [status EXCEPT ![n] = "pending"]
<1>1. PoolProofs!IInv /\ PoolProofs!Add(n, deps, g) /\ PoolProofs!MayRegister
  BY SameOps DEF PoolInv, PoolProofs!MayRegister
<1>2. PoolInv'
  BY <1>1, PoolParameters, PoolProofs!AddKeeps DEF PoolInv
<1>3. /\ status[n] \in {"unknown", "declared"}
      /\ gate' = [gate EXCEPT ![n] = {d \in deps \ {n} : status[d] # "unknown"}]
      /\ group' = IF g THEN group \cup {n} ELSE group
      /\ failure' = failure
      /\ PoolProofs!Pump(st, inFlight, live, drain # "none")
  BY <1>1 DEF PoolProofs!Add, PoolProofs!Duplicate
<1>4. PoolProofs!TypeOK /\ st \in [Node -> PoolProofs!Status]
  BY <1>1 DEF PoolProofs!IInv, PoolProofs!TypeOK, PoolProofs!Status
<1>5. gate' \in [Node -> SUBSET Node] /\ group' \in SUBSET Node
  BY <1>3, <1>4 DEF PoolProofs!TypeOK
<1> HIDE DEF st
<1>6. PoolProofs!Moves(st)
  BY <1>3, <1>4, <1>5, PoolParameters, PoolProofs!PumpMoves DEF PoolProofs!TypeOK
<1> QED
  BY <1>2, <1>3, <1>6 DEF Moved, PoolProofs!Moves, st

LEMMA PoolIdle == ASSUME PoolInv, UNCHANGED poolVars PROVE PoolInv'
<1>1. UNCHANGED PoolProofs!vars
  BY DEF poolVars, PoolProofs!vars
<1> QED
  BY <1>1, PoolParameters, PoolProofs!StepKeeps DEF PoolInv

-----------------------------------------------------------------------------
(* What each step does to WarmInv.                                          *)

\* What may become of the marks' entries: one that is there stays as it is unless
\* somebody else changes it.
KvMove ==
  /\ kv' \in [Mark \X {"en", "he"} -> (UNION {Outputs[m] : m \in Mark}) \cup {None}]
  /\ \A m \in Mark, l \in {"en", "he"} : kv'[<<m, l>>] \in Outputs[m] \cup {None}
  /\ moved \subseteq moved' /\ moved' \subseteq Mark
  /\ \A k \in Mark \X {"en", "he"} : k[1] \notin moved' /\ kv[k] # None => kv'[k] = kv[k]

LEMMA KvIdle == ASSUME Stored, UNCHANGED kvVars PROVE KvMove
  BY DEF Stored, kvVars, KvMove

LEMMA RunMarksMoves ==
  ASSUME Stored, NEW S \in SUBSET Mark, RunMarks(S), moved' = moved PROVE KvMove
<1>0. PICK W \in SUBSET {m \in S : kv[Key(m)] = None} :
       \E l \in [W -> UNION {Outputs[m] : m \in W}] :
        /\ \A m \in W : l[m] \in Outputs[m]
        /\ kv' = [k \in DOMAIN kv |->
                    IF k[1] \in W /\ k = Key(k[1]) THEN l[k[1]] ELSE kv[k]]
  BY DEF RunMarks
<1>1. PICK l \in [W -> UNION {Outputs[m] : m \in W}] :
        /\ \A m \in W : l[m] \in Outputs[m]
        /\ kv' = [k \in DOMAIN kv |->
                    IF k[1] \in W /\ k = Key(k[1]) THEN l[k[1]] ELSE kv[k]]
  BY <1>0
<1>2. /\ kv \in [Mark \X {"en", "he"} -> (UNION {Outputs[m] : m \in Mark}) \cup {None}]
      /\ \A m \in Mark, l1 \in {"en", "he"} : kv[<<m, l1>>] \in Outputs[m] \cup {None}
      /\ moved \subseteq Mark /\ W \subseteq Mark /\ \A m \in W : kv[Key(m)] = None
  BY DEF Stored
<1>3. \A k \in Mark \X {"en", "he"} :
        kv'[k] = IF k[1] \in W /\ k = Key(k[1]) THEN l[k[1]] ELSE kv[k]
  BY <1>1, <1>2
<1>4. ASSUME NEW k \in Mark \X {"en", "he"} PROVE k[1] \in Mark /\ kv[k] \in Outputs[k[1]] \cup {None}
  <2>1. k = <<k[1], k[2]>> /\ k[1] \in Mark /\ k[2] \in {"en", "he"}
    OBVIOUS
  <2> QED
    BY <1>2, <2>1
<1>5. \A k \in Mark \X {"en", "he"} : kv'[k] \in Outputs[k[1]] \cup {None}
  BY <1>1, <1>3, <1>4
<1>6. kv' \in [Mark \X {"en", "he"} -> (UNION {Outputs[m] : m \in Mark}) \cup {None}]
  BY <1>1, <1>2, <1>4, <1>5
<1>7. \A m \in Mark, l1 \in {"en", "he"} : kv'[<<m, l1>>] \in Outputs[m] \cup {None}
  BY <1>5
<1>8. \A k \in Mark \X {"en", "he"} : kv[k] # None => kv'[k] = kv[k]
  BY <1>2, <1>3
<1> QED
  BY <1>2, <1>6, <1>7, <1>8 DEF KvMove

\* A unit in the pool is one of the instances its mark's fan-out read.
LEMMA KnownUnit ==
  ASSUME WarmInv, NEW e \in PerInst, NEW i \in Iid, status[<<e, i>>] # "unknown"
  PROVE  /\ e \notin NoDef /\ i \in Elems(insts[Target[e]])
         /\ Target[e] \notin moved =>
              kv[InstancesKey(Target[e])] # None /\ i \in Elems(kv[InstancesKey(Target[e])])
<1>1. insts \in [Mark -> Seq(Iid)] /\ Enumerated
  BY DEF WarmInv, Fanned
<1>2. Target[e] \in Mark
  BY <1>1, PositionFacts
<1>3. PICK p \in Positions(e) : <<e, i>> = UnitAt(e, p)
  BY DEF WarmInv, Fanned
<1>4. e \notin NoDef
  BY <1>3 DEF Positions
<1>5. i \in Elems(insts[Target[e]])
  BY <1>1, <1>3, PositionFacts DEF UnitAt
<1>6. insts[Target[e]] # <<>>
  BY <1>5 DEF Elems
<1>7. insts[Target[e]] \in Lists(Target[e]) /\ None \notin Lists(Target[e])
  BY <1>1, <1>2, ListsType DEF Enumerated
<1>8. Target[e] \notin moved => insts[Target[e]] = kv[InstancesKey(Target[e])]
  BY <1>1, <1>2, <1>6 DEF Enumerated
<1> QED
  BY <1>4, <1>5, <1>7, <1>8

\* What may happen to the stored state: entries move, and a new result is a kept
\* one only over an entry, and a unit's only of an instance read.
LEMMA StoredKeeps ==
  ASSUME WarmInv, KvMove,
         result' \in [StepNode -> {"none", "kept", "ended"}],
         down' \in BOOLEAN, restarts' \in 0 .. MaxRestarts,
         \A m \in Mark : result'[m] = "kept" => result[m] = "kept" \/ kv'[Key(m)] # None,
         \A e \in PerInst, i \in Iid : result'[<<e, i>>] # "none" =>
           result[<<e, i>>] # "none" \/ status[<<e, i>>] # "unknown"
  PROVE  Stored'
<1>1. Stored
  BY DEF WarmInv
<1>2. ASSUME NEW m \in Mark, result'[m] = "kept", m \notin moved' PROVE kv'[Key(m)] # None
  <2>1. CASE result[m] = "kept"
    <3>1. kv[Key(m)] # None /\ Key(m) \in Mark \X {"en", "he"} /\ Key(m)[1] = m
      BY <1>1, <1>2, <2>1, ListsType DEF Stored, KvMove
    <3> QED
      BY <1>2, <3>1 DEF KvMove
  <2> QED
    BY <1>2, <2>1
<1>3. ASSUME NEW e \in PerInst, NEW i \in Iid, result'[<<e, i>>] # "none"
      PROVE  /\ e \notin NoDef
             /\ Target[e] \notin moved' =>
                  kv'[InstancesKey(Target[e])] # None /\ i \in Elems(kv'[InstancesKey(Target[e])])
  <2>1. /\ e \notin NoDef
        /\ Target[e] \notin moved =>
             kv[InstancesKey(Target[e])] # None /\ i \in Elems(kv[InstancesKey(Target[e])])
    <3>1. CASE result[<<e, i>>] # "none"
      BY <1>1, <3>1 DEF Stored
    <3>2. CASE status[<<e, i>>] # "unknown"
      BY <3>2, KnownUnit
    <3> QED
      BY <1>3, <3>1, <3>2
  <2>2. Target[e] \in Mark
    BY RegistryAssumption
  <2>3. InstancesKey(Target[e]) \in Mark \X {"en", "he"} /\ InstancesKey(Target[e])[1] = Target[e]
    BY <2>2, ListsType
  <2>4. Target[e] \notin moved' => Target[e] \notin moved
    BY DEF KvMove
  <2> QED
    BY <2>1, <2>3, <2>4 DEF KvMove
<1> QED
  BY <1>1, <1>2, <1>3 DEF Stored, KvMove

\* The fan-outs' lists stay what they are while entries move and runs go on.
LEMMA EnumeratedKeeps ==
  ASSUME WarmInv, KvMove, insts' = insts,
         \A m \in Mark : pc'[m] \in {"idle", "gen", "end", "threw"} =>
           /\ pc[m] \in {"idle", "gen", "end", "threw"}
           /\ \A e \in PerInstOf(m) : status[e] = "declared" => status'[e] = "declared",
         \A m \in Mark : pc'[m] \in {"fan", "done"} /\ PerInstOf(m) # {} =>
           pc[m] \in {"fan", "done"} /\ (result'[m] = "kept" => result[m] = "kept"),
         \A e \in PerInst, i \in Iid : result'[<<e, i>>] # "none" =>
           result[<<e, i>>] # "none" \/ status[<<e, i>>] # "unknown"
  PROVE  Enumerated'
<1>1. Enumerated /\ Stored
  BY DEF WarmInv
<1> SUFFICES ASSUME NEW m \in Mark
             PROVE  /\ insts[m] \in Lists(m)
                    /\ insts[m] # <<>> /\ m \notin moved' => insts[m] = kv'[InstancesKey(m)]
                    /\ pc'[m] \in {"idle", "gen", "end", "threw"} =>
                         insts[m] = <<>> /\ \A e \in PerInstOf(m) : status'[e] = "declared"
                    /\ pc'[m] \in {"fan", "done"} /\ m \notin moved' =>
                         \A e \in PerInstOf(m), i \in Iid :
                           result'[<<e, i>>] # "none" => i \in Elems(insts[m])
                    /\ OwnKeyRead /\ pc'[m] \in {"fan", "done"} /\ PerInstOf(m) # {}
                         /\ result'[m] = "kept" /\ m \notin moved' =>
                           insts[m] = kv'[InstancesKey(m)]
  BY DEF Enumerated
<1>2. /\ insts[m] \in Lists(m)
      /\ insts[m] # <<>> /\ m \notin moved => insts[m] = kv[InstancesKey(m)]
      /\ pc[m] \in {"idle", "gen", "end", "threw"} =>
           insts[m] = <<>> /\ \A e \in PerInstOf(m) : status[e] = "declared"
      /\ pc[m] \in {"fan", "done"} /\ m \notin moved =>
           \A e \in PerInstOf(m), i \in Iid : result[<<e, i>>] # "none" => i \in Elems(insts[m])
      /\ OwnKeyRead /\ pc[m] \in {"fan", "done"} /\ PerInstOf(m) # {}
           /\ result[m] = "kept" /\ m \notin moved => insts[m] = kv[InstancesKey(m)]
  BY <1>1 DEF Enumerated
<1>3. m \notin moved' => m \notin moved
  BY DEF KvMove
<1>4. insts[m] # None /\ InstancesKey(m) \in Mark \X {"en", "he"} /\ InstancesKey(m)[1] = m
  BY <1>2, ListsType
<1>5. m \notin moved' /\ insts[m] = kv[InstancesKey(m)] => insts[m] = kv'[InstancesKey(m)]
  BY <1>4 DEF KvMove
<1>6. ASSUME pc'[m] \in {"fan", "done"}, m \notin moved', NEW e \in PerInstOf(m), NEW i \in Iid,
             result'[<<e, i>>] # "none"
      PROVE  i \in Elems(insts[m])
  <2>1. e \in PerInst /\ Target[e] = m /\ PerInstOf(m) # {}
    BY DEF PerInstOf
  <2>2. pc[m] \in {"fan", "done"}
    BY <1>6, <2>1
  <2>3. CASE result[<<e, i>>] # "none"
    BY <1>2, <1>3, <1>6, <2>2, <2>3
  <2>4. CASE status[<<e, i>>] # "unknown"
    BY <2>1, <2>4, KnownUnit
  <2> QED
    BY <1>6, <2>1, <2>3, <2>4
<1> QED
  BY <1>2, <1>3, <1>5, <1>6

\* A step of n that leaves the pool alone: it starts, or ends with a result.
LEMMA StepOfRunKeeps ==
  ASSUME WarmInv, PoolInv, KvMove, NEW n \in StepNode, status[n] = "running",
         pc[n] \in {"idle", "gen"},
         NEW q \in {"gen", "end"}, NEW r \in {"none", "kept", "ended"},
         q = "end" => r # "none",
         pc' = [pc EXCEPT ![n] = q], result' = [result EXCEPT ![n] = r],
         UNCHANGED <<poolVars, insts, added, restarts>>, down' \in BOOLEAN,
         n \in Mark /\ r = "kept" => result[n] = "kept" \/ kv'[Key(n)] # None
  PROVE  WarmInv'
<1> USE DEF poolVars
<1>1. /\ result \in [StepNode -> {"none", "kept", "ended"}] /\ restarts \in 0 .. MaxRestarts
      /\ pc \in [StepNode -> {"idle", "gen", "end", "fan", "done", "threw", "unread"}]
      /\ insts' = insts /\ restarts' = restarts
  BY DEF WarmInv, Stored, Ran
<1>2. \A e \in PerInst, i \in Iid : result'[<<e, i>>] # "none" =>
        result[<<e, i>>] # "none" \/ status[<<e, i>>] # "unknown"
  <2> SUFFICES ASSUME NEW e \in PerInst, NEW i \in Iid, result'[<<e, i>>] # "none",
                      status[<<e, i>>] = "unknown"
               PROVE  result[<<e, i>>] # "none"
    OBVIOUS
  <2>1. <<e, i>> \in StepNode /\ <<e, i>> # n
    BY Nodes
  <2> QED
    BY <1>1, <2>1
<1>3. Stored'
  <2>1. \A m \in Mark : m \in StepNode
    BY Nodes
  <2>2. \A m \in Mark : result'[m] = "kept" => result[m] = "kept" \/ kv'[Key(m)] # None
    BY <1>1, <2>1
  <2>3. result' \in [StepNode -> {"none", "kept", "ended"}] /\ restarts' \in 0 .. MaxRestarts
    BY <1>1
  <2> QED
    BY <1>2, <2>2, <2>3, StoredKeeps
<1>4. Ran'
  BY DEF WarmInv, Ran, Stored
<1>5. Registered'
  BY DEF WarmInv, Registered
<1>6. Enumerated'
  <2>1. \A m \in Mark : m \in StepNode /\ pc'[m] = (IF m = n THEN q ELSE pc[m])
                          /\ result'[m] = (IF m = n THEN r ELSE result[m])
    BY <1>1, Nodes
  <2>2. \A e \in PerInst : status'[e] = status[e]
    OBVIOUS
  <2>3. \A m \in Mark : pc'[m] \in {"idle", "gen", "end", "threw"} =>
          /\ pc[m] \in {"idle", "gen", "end", "threw"}
          /\ \A e \in PerInstOf(m) : status[e] = "declared" => status'[e] = "declared"
    BY <2>1
  <2>4. \A m \in Mark : pc'[m] \in {"fan", "done"} /\ PerInstOf(m) # {} =>
          pc[m] \in {"fan", "done"} /\ (result'[m] = "kept" => result[m] = "kept")
    BY <2>1
  <2> QED
    BY <1>1, <1>2, <2>3, <2>4, EnumeratedKeeps
<1>7. Fanned'
  BY DEF WarmInv, Fanned, UnitAt, Positions
<1> QED
  BY <1>3, <1>4, <1>5, <1>6, <1>7 DEF WarmInv

\* The pump only moves pending nodes, and completes none that has a run.
LEMMA MovedFacts ==
  ASSUME NEW st \in [Node -> {"unknown", "declared", "pending", "running", "done"}],
         Moved(st), group' \subseteq PerInst
  PROVE  /\ \A x \in Node : /\ status'[x] = "unknown" <=> st[x] = "unknown"
                            /\ status'[x] = "declared" <=> st[x] = "declared"
                            /\ st[x] \in {"running", "done"} => status'[x] = st[x]
         /\ \A x \in StepNode : status'[x] = "done" <=> st[x] = "done"
<1>1. \A x \in StepNode : x \in Node /\ x \notin group'
  BY Nodes
<1> QED
  BY <1>1 DEF Moved

\* A pump that registers nothing keeps what concerns the fan-outs.
LEMMA MovedKeeps ==
  ASSUME WarmInv, PoolInv,
         NEW st \in [Node -> {"unknown", "declared", "pending", "running", "done"}], Moved(st),
         \A x \in Node : /\ st[x] = "unknown" <=> status[x] = "unknown"
                         /\ st[x] = "declared" <=> status[x] = "declared",
         UNCHANGED <<gate, group, insts, added>>
  PROVE  Registered' /\ Fanned'
<1>1. group' \subseteq PerInst
  BY DEF WarmInv, Registered
<1>2. \A x \in Node : /\ status'[x] = "unknown" <=> status[x] = "unknown"
                      /\ status'[x] = "declared" <=> status[x] = "declared"
  BY <1>1, MovedFacts
<1>3. Registered'
  <2>1. Registered
    BY DEF WarmInv
  <2>2. \A n \in GraphIds : status'[n] # "unknown"
    BY <1>2, <2>1, Nodes DEF Registered
  <2>3. \A u \in Unit : status'[u] # "declared"
    <3>1. Unit \subseteq Node
      BY DEF Node
    <3> QED
      BY <1>2, <2>1, <3>1 DEF Registered
  <2>4. \A n \in Mark \cup WholeDaf : gate'[n] = StaticDeps(n) \ {n}
    BY <2>1 DEF Registered
  <2> QED
    BY <1>1, <2>2, <2>3, <2>4 DEF Registered
<1>4. Fanned'
  <2>1. \A e \in PerInst : e \in Node
    BY DEF Node
  <2>2. Fanned
    BY DEF WarmInv
  <2>3. \A e \in PerInst : \A p \in Positions(e) : UnitAt(e, p) \in Node
    BY <2>2, PositionFacts DEF Node, Fanned
  <2>4. \A e \in PerInst, i \in Iid : <<e, i>> \in Node
    BY Nodes DEF Node
  <2>5. \A e \in PerInst : status'[e] # "declared" =>
          /\ gate'[e] = {UnitAt(e, p) : p \in Positions(e)}
          /\ \A p \in Positions(e) : <<e, p>> \in added
    BY <1>2, <2>1, <2>2 DEF Fanned
  <2>6. \A e \in PerInst, p \in Nat : <<e, p>> \in added =>
          p \in Positions(e) /\ status'[UnitAt(e, p)] # "unknown"
    BY <1>2, <2>2, <2>3 DEF Fanned
  <2>7. \A e \in PerInst, i \in Iid : status'[<<e, i>>] # "unknown" =>
          /\ \E p \in Positions(e) : <<e, i>> = UnitAt(e, p) /\ <<e, p>> \in added
          /\ gate'[<<e, i>>] = UnitGate(e, i)
    BY <1>2, <2>2, <2>4 DEF Fanned
  <2>8. \A e \in PerInst : /\ Positions(e)' = Positions(e)
                           /\ \A p \in Nat : UnitAt(e, p)' = UnitAt(e, p)
    BY DEF Positions, UnitAt
  <2>9. \A e \in PerInst : Positions(e) \subseteq Nat
    BY <2>2, PositionFacts DEF Fanned
  <2>10. ASSUME NEW e \in PerInst, status'[e] # "declared"
         PROVE  /\ gate'[e] = {UnitAt(e, p)' : p \in Positions(e)'}
                /\ \A p \in Positions(e)' : <<e, p>> \in added'
    <3>1. {UnitAt(e, p)' : p \in Positions(e)'} = {UnitAt(e, p) : p \in Positions(e)}
      BY <2>8, <2>9
    <3> QED
      BY <2>5, <2>8, <2>10, <3>1
  <2>11. ASSUME NEW e \in PerInst, NEW p \in Nat, <<e, p>> \in added'
         PROVE  p \in Positions(e)' /\ status'[UnitAt(e, p)'] # "unknown"
    BY <2>6, <2>8, <2>11
  <2>12. ASSUME NEW e \in PerInst, NEW i \in Iid, status'[<<e, i>>] # "unknown"
         PROVE  /\ \E p \in Positions(e)' : <<e, i>> = UnitAt(e, p)' /\ <<e, p>> \in added'
                /\ gate'[<<e, i>>] = UnitGate(e, i)
    BY <2>7, <2>8, <2>9, <2>12
  <2> QED
    BY <2>2, <2>10, <2>11, <2>12 DEF Fanned
<1> QED
  BY <1>3, <1>4

LEMMA DrainKeeps == ASSUME WarmInv, PoolInv, Drain PROVE WarmInv' /\ PoolInv'
<1>1. /\ PoolInv' /\ Moved(status) /\ UNCHANGED <<gate, group, failure>>
      /\ UNCHANGED <<pc, result, insts, added, kvVars, down, restarts>>
  BY DrainMoves DEF Drain, runVars
<1>2. status \in [Node -> {"unknown", "declared", "pending", "running", "done"}]
  BY PoolFacts
<1>3. Registered' /\ Fanned'
  BY <1>1, <1>2, MovedKeeps
<1>4. group' \subseteq PerInst
  BY <1>1 DEF WarmInv, Registered
<1>5. Stored'
  BY <1>1 DEF WarmInv, Stored, kvVars
<1>6. Ran'
  <2>1. \A x \in StepNode : status[x] \in {"running", "done"} => status'[x] = status[x]
    BY <1>1, <1>2, <1>4, MovedFacts, Nodes
  <2>2. \A x \in StepNode : status'[x] = "done" <=> status[x] = "done"
    BY <1>1, <1>2, <1>4, MovedFacts
  <2> QED
    BY <1>1, <2>1, <2>2 DEF WarmInv, Ran
<1>7. Enumerated'
  <2>1. \A e \in PerInst : status'[e] = "declared" <=> status[e] = "declared"
    BY <1>1, <1>2, <1>4, MovedFacts, Nodes
  <2>2. \A m \in Mark : PerInstOf(m) \subseteq PerInst
    BY DEF PerInstOf
  <2>3. KvMove
    BY <1>1, KvIdle DEF WarmInv
  <2>4. \A m \in Mark : \A e \in PerInstOf(m) : status[e] = "declared" => status'[e] = "declared"
    BY <2>1, <2>2
  <2> QED
    BY <1>1, <2>3, <2>4, EnumeratedKeeps
<1> QED
  BY <1>1, <1>3, <1>5, <1>6, <1>7 DEF WarmInv

\* A run ends well, throws out of its step, or fails on a read of its fan-out.
LEMMA EndOfRunKeeps ==
  ASSUME WarmInv, PoolInv, KvMove, NEW n \in StepNode, NEW q \in {"done", "threw", "unread"},
         q = "threw" => pc[n] = "gen",
         q = "unread" => pc[n] \in {"end", "fan"},
         q = "done" => \/ pc[n] = "fan"
                       \/ pc[n] = "end" /\ (n \in Mark => PerInstOf(n) = {}),
         status[n] = "running",
         Moved(IF q = "done" THEN [status EXCEPT ![n] = "done"] ELSE status),
         failure' = IF q # "done" /\ failure = None THEN n ELSE failure,
         pc' = [pc EXCEPT ![n] = q],
         UNCHANGED <<gate, group, result, insts, added, down, restarts>>
  PROVE  WarmInv'
<1> DEFINE st == IF q = "done" THEN [status EXCEPT ![n] = "done"] ELSE status
<1>1. /\ status \in [Node -> {"unknown", "declared", "pending", "running", "done"}]
      /\ st \in [Node -> {"unknown", "declared", "pending", "running", "done"}]
  BY PoolFacts
<1>2. \A x \in Node : /\ st[x] = "unknown" <=> status[x] = "unknown"
                      /\ st[x] = "declared" <=> status[x] = "declared"
  BY <1>1
<1>3. /\ \A x \in StepNode : x # n => st[x] = status[x]
      /\ q = "done" => st[n] = "done"
      /\ q # "done" => st[n] = "running"
  BY <1>1, Nodes
<1>4. group' \subseteq PerInst /\ Moved(st)
  BY DEF WarmInv, Registered
<1> HIDE DEF st
<1>5. Registered' /\ Fanned'
  BY <1>1, <1>2, <1>4, MovedKeeps
<1>6. Stored'
  <2>1. /\ result' \in [StepNode -> {"none", "kept", "ended"}] /\ down' \in BOOLEAN
        /\ restarts' \in 0 .. MaxRestarts /\ result' = result
    BY DEF WarmInv, Stored
  <2> QED
    BY <2>1, StoredKeeps
<1>7. pc \in [StepNode -> {"idle", "gen", "end", "fan", "done", "threw", "unread"}]
  BY DEF WarmInv, Ran
<1>8. Ran'
  <2>1. \A x \in StepNode : st[x] \in {"running", "done"} => status'[x] = st[x]
    BY <1>1, <1>4, MovedFacts, Nodes
  <2>2. \A x \in StepNode : status'[x] = "done" <=> st[x] = "done"
    BY <1>1, <1>4, MovedFacts
  <2>3. pc' \in [StepNode -> {"idle", "gen", "end", "fan", "done", "threw", "unread"}]
    BY <1>7
  <2>4. failure' # None => failure' \in StepNode /\ pc'[failure'] \in {"threw", "unread"}
    <3>1. CASE failure' = n
      BY <1>1, <1>7, <3>1, PoolFacts DEF WarmInv, Ran
    <3>2. CASE failure' # n
      <4>1. failure' = failure
        BY <3>2
      <4> QED
        BY <1>7, <3>2, <4>1 DEF WarmInv, Ran
    <3> QED
      BY <3>1, <3>2
  <2>5. ASSUME NEW x \in StepNode
        PROVE  /\ pc'[x] # "idle" => status'[x] \in {"running", "done"}
               /\ status'[x] = "done" <=> pc'[x] = "done"
               /\ pc'[x] \in {"end", "fan", "done", "unread"} => result'[x] # "none"
               /\ pc'[x] = "fan" => x \in Mark
    <3>1. CASE x = n
      BY <1>3, <1>7, <2>1, <2>2, <3>1 DEF WarmInv, Ran
    <3>2. CASE x # n
      BY <1>3, <1>7, <2>1, <2>2, <3>2 DEF WarmInv, Ran
    <3> QED
      BY <3>1, <3>2
  <2> QED
    BY <2>3, <2>4, <2>5 DEF Ran
<1>9. Enumerated'
  <2>1. \A e \in PerInst : status'[e] = "declared" <=> status[e] = "declared"
    <3>1. \A x \in Node : status'[x] = "declared" <=> st[x] = "declared"
      BY <1>1, <1>4, MovedFacts
    <3>2. PerInst \subseteq Node
      BY DEF Node
    <3> QED
      BY <1>2, <3>1, <3>2
  <2>2. \A m \in Mark : PerInstOf(m) \subseteq PerInst /\ m \in StepNode
    BY Nodes DEF PerInstOf
  <2>3. \A m \in Mark : pc'[m] = IF m = n THEN q ELSE pc[m]
    BY <1>7, <2>2
  <2>4. \A m \in Mark : pc'[m] \in {"idle", "gen", "end", "threw"} =>
          /\ pc[m] \in {"idle", "gen", "end", "threw"}
          /\ \A e \in PerInstOf(m) : status[e] = "declared" => status'[e] = "declared"
    BY <2>1, <2>2, <2>3
  <2>5. \A m \in Mark : pc'[m] \in {"fan", "done"} /\ PerInstOf(m) # {} =>
          pc[m] \in {"fan", "done"} /\ (result'[m] = "kept" => result[m] = "kept")
    BY <2>3
  <2> QED
    BY <2>4, <2>5, EnumeratedKeeps
<1> QED
  BY <1>5, <1>6, <1>8, <1>9 DEF WarmInv

\* A mark's run reads the instances its fan-out will work from.
LEMMA ReadInstancesKeeps ==
  ASSUME WarmInv, PoolInv, NEW m \in Mark, ReadInstances(m)
  PROVE  WarmInv'
<1> DEFINE l == IF kv[InstancesKey(m)] = None THEN <<>> ELSE kv[InstancesKey(m)]
<1>1. /\ pc[m] = "end" /\ PerInstOf(m) # {} /\ status[m] = "running" /\ m \in StepNode
      /\ insts' = [insts EXCEPT ![m] = l]
      /\ pc' = [pc EXCEPT ![m] = "fan"]
      /\ UNCHANGED <<status, gate, group, live, inFlight, failure, drain>>
      /\ UNCHANGED <<result, added, kv, moved, down, restarts>>
  BY PoolFacts, Nodes DEF ReadInstances, poolVars, kvVars
<1>2. /\ pc \in [StepNode -> {"idle", "gen", "end", "fan", "done", "threw", "unread"}]
      /\ insts \in [Mark -> Seq(Iid)]
  BY DEF WarmInv, Ran, Fanned
<1>3. insts[m] = <<>> /\ \A e \in PerInstOf(m) : status[e] = "declared"
  BY <1>1 DEF WarmInv, Enumerated
<1>4. l \in Lists(m) /\ l \in Seq(Iid)
  <2>1. kv[InstancesKey(m)] \in Outputs[m] \cup {None}
    BY ListsType DEF WarmInv, Stored
  <2> QED
    BY <2>1, ListsType DEF Lists
<1>5. l # <<>> => l = kv[InstancesKey(m)]
  OBVIOUS
<1>6. kv[InstancesKey(m)] # None => l = kv[InstancesKey(m)]
  OBVIOUS
<1> HIDE DEF l
<1>7. insts' \in [Mark -> Seq(Iid)] /\ \A x \in Mark : insts'[x] = IF x = m THEN l ELSE insts[x]
  BY <1>1, <1>2, <1>4
<1>8. Stored'
  BY <1>1 DEF WarmInv, Stored
<1>9. Ran'
  BY <1>1, <1>2 DEF WarmInv, Ran
<1>10. Registered'
  BY <1>1 DEF WarmInv, Registered
<1>11. Enumerated'
  <2>1. ASSUME NEW x \in Mark, x # m
        PROVE  pc'[x] = pc[x] /\ insts'[x] = insts[x]
    BY <1>1, <1>2, <1>7, <2>1, Nodes
  <2>2. pc'[m] = "fan" /\ insts'[m] = l
    BY <1>1, <1>2, <1>7
  <2>3. ASSUME m \notin moved, NEW e \in PerInstOf(m), NEW i \in Iid, result[<<e, i>>] # "none"
        PROVE  i \in Elems(l)
    <3>1. e \in PerInst /\ Target[e] = m
      BY DEF PerInstOf
    <3>2. kv[InstancesKey(m)] # None /\ i \in Elems(kv[InstancesKey(m)])
      BY <2>3, <3>1 DEF WarmInv, Stored
    <3> QED
      BY <1>6, <3>2
  <2>4. ASSUME OwnKeyRead, result[m] = "kept", m \notin moved PROVE l = kv[InstancesKey(m)]
    BY <1>1, <1>6, <2>4 DEF WarmInv, Stored, OwnKeyRead
  <2>5. ASSUME NEW x \in Mark
        PROVE  /\ insts'[x] \in Lists(x)
               /\ insts'[x] # <<>> /\ x \notin moved => insts'[x] = kv[InstancesKey(x)]
               /\ pc'[x] \in {"idle", "gen", "end", "threw"} =>
                    insts'[x] = <<>> /\ \A e \in PerInstOf(x) : status[e] = "declared"
               /\ pc'[x] \in {"fan", "done"} /\ x \notin moved =>
                    \A e \in PerInstOf(x), i \in Iid :
                      result[<<e, i>>] # "none" => i \in Elems(insts'[x])
               /\ OwnKeyRead /\ pc'[x] \in {"fan", "done"} /\ PerInstOf(x) # {}
                    /\ result[x] = "kept" /\ x \notin moved => insts'[x] = kv[InstancesKey(x)]
    <3>1. CASE x = m
      BY <1>4, <1>5, <2>2, <2>3, <2>4, <3>1
    <3>2. CASE x # m
      BY <2>1, <3>2 DEF WarmInv, Enumerated
    <3> QED
      BY <3>1, <3>2
  <2> QED
    BY <1>1, <2>5 DEF Enumerated
<1>12. Fanned'
  <2>1. ASSUME NEW e \in PerInst
        PROVE  /\ Target[e] = m => /\ status[e] = "declared" /\ Positions(e) = {}
               /\ Target[e] # m => /\ Positions(e)' = Positions(e)
                                   /\ \A p \in Positions(e) : UnitAt(e, p)' = UnitAt(e, p)
    <3>1. Target[e] \in Mark
      BY RegistryAssumption
    <3>2. CASE Target[e] = m
      <4>1. status[e] = "declared"
        BY <1>3, <3>2 DEF PerInstOf
      <4>2. Positions(e) \subseteq DOMAIN insts[m] /\ DOMAIN insts[m] = {}
        <5>1. insts[m] \in Seq(Iid) /\ insts[m] = <<>>
          BY <1>2, <1>3
        <5>2. DOMAIN insts[m] = {}
          BY <5>1, DedupeFacts
        <5>3. Positions(e) \subseteq DOMAIN insts[Target[e]]
          BY <1>2, PositionFacts
        <5> QED
          BY <3>2, <5>2, <5>3
      <4> QED
        BY <3>2, <4>1, <4>2
    <3>3. CASE Target[e] # m
      <4>1. insts'[Target[e]] = insts[Target[e]]
        BY <1>7, <3>1, <3>3
      <4> QED
        BY <3>3, <4>1 DEF Positions, UnitAt
    <3> QED
      BY <3>2, <3>3
  <2>2. Fanned
    BY DEF WarmInv
  <2>3. ASSUME NEW e \in PerInst, status[e] # "declared"
        PROVE  /\ gate[e] = {UnitAt(e, p)' : p \in Positions(e)'}
               /\ \A p \in Positions(e)' : <<e, p>> \in added
    BY <2>1, <2>2, <2>3 DEF Fanned
  <2>4. ASSUME NEW e \in PerInst, NEW p \in Nat, <<e, p>> \in added
        PROVE  p \in Positions(e)' /\ status[UnitAt(e, p)'] # "unknown"
    BY <2>1, <2>2, <2>4 DEF Fanned
  <2>5. ASSUME NEW e \in PerInst, NEW i \in Iid, status[<<e, i>>] # "unknown"
        PROVE  /\ \E p \in Positions(e)' : <<e, i>> = UnitAt(e, p)' /\ <<e, p>> \in added
               /\ gate[<<e, i>>] = UnitGate(e, i)
    <3>1. PICK p \in Positions(e) : <<e, i>> = UnitAt(e, p) /\ <<e, p>> \in added
      BY <2>2, <2>5 DEF Fanned
    <3>2. Target[e] # m
      BY <2>1, <3>1
    <3> QED
      BY <2>1, <2>2, <2>5, <3>1, <3>2 DEF Fanned
  <2> QED
    BY <1>1, <1>7, <2>3, <2>4, <2>5 DEF Fanned
<1> QED
  BY <1>8, <1>9, <1>10, <1>11, <1>12 DEF WarmInv

\* What a fan-out's add has in hand.
LEMMA FannableFacts ==
  ASSUME WarmInv, PoolInv, NEW m \in Mark, m \in live, pc[m] = "fan", NEW e \in Fannable(m)
  PROVE  /\ e \in PerInst /\ Target[e] = m /\ e \in Node /\ status[e] = "declared"
         /\ \A d \in DepsOf[e] \cap SameMark(e) : d \in PerInst /\ Target[d] = m /\ status[d] # "declared"
         /\ \A p \in Positions(e) : /\ p \in Nat /\ insts[m][p] \in Iid
                                    /\ UnitAt(e, p) = <<e, insts[m][p]>> /\ UnitAt(e, p) \in Unit
         /\ insts[m] \in Seq(Iid)
<1>1. e \in PerInst /\ Target[e] = m /\ status[e] = "declared"
  BY DEF Fannable, PerInstOf
<1>2. \A d \in DepsOf[e] \cap SameMark(e) : d \in PerInst /\ Target[d] = m /\ status[d] # "declared"
  BY <1>1, NoSelfDependency DEF Fannable, SameMark, PerInstOf
<1>3. insts \in [Mark -> Seq(Iid)]
  BY DEF WarmInv, Fanned
<1>4. \A p \in Positions(e) : /\ p \in Nat /\ insts[m][p] \in Iid
                              /\ UnitAt(e, p) = <<e, insts[m][p]>> /\ UnitAt(e, p) \in Unit
  BY <1>1, <1>3, PositionFacts DEF UnitAt
<1> QED
  BY <1>1, <1>2, <1>3, <1>4 DEF Node

\* What an add of a unit or of a marker cannot disturb.
LEMMA AddKeeps ==
  ASSUME WarmInv, PoolInv, NEW u \in Unit \cup PerInst,
         Moved([status EXCEPT ![u] = "pending"]), group' \subseteq PerInst,
         u \in PerInst => pc[Target[u]] = "fan", status[u] # "done",
         UNCHANGED <<failure, pc, result, insts, kvVars, down, restarts>>,
         u \in Unit => status[u] = "unknown"
  PROVE  /\ Stored' /\ Ran' /\ Enumerated'
         /\ \A x \in Node : x # u =>
              /\ (status'[x] = "unknown") <=> (status[x] = "unknown")
              /\ (status'[x] = "declared") <=> (status[x] = "declared")
         /\ status'[u] \notin {"unknown", "declared"}
<1> DEFINE st == [status EXCEPT ![u] = "pending"]
<1>1. /\ status \in [Node -> {"unknown", "declared", "pending", "running", "done"}]
      /\ u \in Node
  BY PoolFacts DEF Node
<1>2. /\ st \in [Node -> {"unknown", "declared", "pending", "running", "done"}]
      /\ st[u] = "pending" /\ \A x \in Node : x # u => st[x] = status[x]
  BY <1>1
<1>3. Moved(st)
  OBVIOUS
<1> HIDE DEF st
<1>4. \A x \in Node : /\ (status'[x] = "unknown") <=> (st[x] = "unknown")
                      /\ (status'[x] = "declared") <=> (st[x] = "declared")
                      /\ st[x] \in {"running", "done"} => status'[x] = st[x]
  BY <1>2, <1>3, MovedFacts
<1>5. \A x \in StepNode : status'[x] = "done" <=> st[x] = "done"
  BY <1>2, <1>3, MovedFacts
<1>6. Stored'
  BY DEF WarmInv, Stored, kvVars
<1>7. Ran'
  <2>1. ASSUME NEW x \in StepNode
        PROVE  /\ pc[x] # "idle" => status'[x] \in {"running", "done"}
               /\ status'[x] = "done" <=> pc[x] = "done"
    <3>1. /\ pc[x] # "idle" => status[x] \in {"running", "done"}
          /\ status[x] = "done" <=> pc[x] = "done"
          /\ x \in Node
      BY Nodes DEF WarmInv, Ran
    <3>2. CASE x = u
      <4>1. status[x] = "unknown"
        BY <3>2, Nodes
      <4> QED
        BY <1>2, <1>5, <3>1, <3>2, <4>1
    <3>3. CASE x # u
      <4>1. st[x] = status[x]
        BY <1>2, <3>1, <3>3
      <4> QED
        BY <1>4, <1>5, <3>1, <4>1
    <3> QED
      BY <3>2, <3>3
  <2> QED
    BY <2>1 DEF WarmInv, Ran
<1>8. Enumerated'
  <2>1. ASSUME NEW m \in Mark, pc[m] \in {"idle", "gen", "end", "threw"}, NEW e \in PerInstOf(m)
        PROVE  status'[e] = "declared"
    <3>1. e \in PerInst /\ Target[e] = m /\ e \in Node /\ status[e] = "declared"
      BY <2>1 DEF PerInstOf, Node, WarmInv, Enumerated
    <3>2. e # u
      BY <2>1, <3>1, Nodes
    <3> QED
      BY <1>2, <1>4, <3>1, <3>2
  <2>2. KvMove
    BY KvIdle DEF WarmInv
  <2> QED
    BY <2>1, <2>2, EnumeratedKeeps
<1> QED
  BY <1>1, <1>2, <1>4, <1>6, <1>7, <1>8

\* A fan-out adds a unit: never one that is there already.
LEMMA AddUnitKeeps ==
  ASSUME WarmInv, PoolInv, NEW m \in Mark, AddUnit(m)
  PROVE  WarmInv' /\ PoolInv'
<1>1. m \in live /\ pc[m] = "fan" /\ UNCHANGED <<result, insts, kvVars, down, restarts>>
  BY DEF AddUnit
<1>2. PICK e \in Fannable(m) : \E p \in Positions(e) :
       LET u == <<e, insts[m][p]>> IN
       /\ <<e, p>> \notin added
       /\ added' = added \cup {<<e, p>>}
       /\ IF Pool!Duplicate(u)
          THEN Pool!RunFail(m) /\ pc' = [pc EXCEPT ![m] = "dup"]
          ELSE Pool!Add(u, UnitDeps(e, u[2]), FALSE) /\ UNCHANGED pc
  BY DEF AddUnit
<1>3. PICK p \in Positions(e) :
       LET u == <<e, insts[m][p]>> IN
       /\ <<e, p>> \notin added
       /\ added' = added \cup {<<e, p>>}
       /\ IF Pool!Duplicate(u)
          THEN Pool!RunFail(m) /\ pc' = [pc EXCEPT ![m] = "dup"]
          ELSE Pool!Add(u, UnitDeps(e, u[2]), FALSE) /\ UNCHANGED pc
  BY <1>2
<1> DEFINE i == insts[m][p]
           u == UnitAt(e, p)
<1>4. /\ e \in PerInst /\ Target[e] = m /\ status[e] = "declared" /\ p \in Nat
      /\ i \in Iid /\ u = <<e, i>> /\ u \in Unit /\ u \in Node /\ insts[m] \in Seq(Iid)
      /\ \A d \in DepsOf[e] \cap SameMark(e) : d \in PerInst /\ Target[d] = m /\ status[d] # "declared"
  BY <1>1, FannableFacts DEF Node
<1>5. e \notin NoDef /\ Positions(e) = DedupeInstancesByIid(insts[m])
  BY <1>4 DEF Positions
<1>6. status[u] = "unknown"
  <2>1. SUFFICES ASSUME status[<<e, i>>] # "unknown" PROVE FALSE
    BY <1>4
  <2>2. PICK q \in Positions(e) : <<e, i>> = UnitAt(e, q) /\ <<e, q>> \in added
    BY <1>4, <2>1 DEF WarmInv, Fanned
  <2>3. insts[m][q] = insts[m][p]
    BY <1>4, <2>2 DEF UnitAt
  <2>4. q = p
    BY <1>4, <1>5, <2>2, <2>3, DedupeDistinct
  <2> QED
    BY <1>3, <2>2, <2>4
<1>7. Pool!Add(u, UnitDeps(e, i), FALSE) /\ UNCHANGED pc /\ added' = added \cup {<<e, p>>}
  <2>1. ~ Pool!Duplicate(<<e, insts[m][p]>>) /\ <<e, insts[m][p]>>[2] = i
    BY <1>4, <1>6 DEF Pool!Duplicate
  <2> QED
    BY <1>3, <1>4, <2>1
<1>8. UnitDeps(e, i) \in SUBSET Node /\ u \notin UnitDeps(e, i)
  BY <1>4, Gates
<1> HIDE DEF i, u
<1>9. /\ PoolInv' /\ Moved([status EXCEPT ![u] = "pending"]) /\ failure' = failure
      /\ gate' = [gate EXCEPT ![u] = {d \in UnitDeps(e, i) \ {u} : status[d] # "unknown"}]
      /\ group' = group
  BY <1>1, <1>4, <1>7, <1>8, AddMoves
<1>10. {d \in UnitDeps(e, i) \ {u} : status[d] # "unknown"} = UnitGate(e, i)
  <2>1. ASSUME NEW d \in DepsOf[e] \cap SameMark(e) PROVE status[<<d, i>>] # "unknown" <=> d \notin NoDef
    <3>1. d \in PerInst /\ Target[d] = m /\ status[d] # "declared"
      BY <1>4
    <3>2. ASSUME d \notin NoDef PROVE status[<<d, i>>] # "unknown"
      <4>1. Positions(d) = Positions(e)
        BY <1>5, <3>1, <3>2 DEF Positions
      <4>2. <<d, p>> \in added
        BY <3>1, <4>1 DEF WarmInv, Fanned
      <4>3. status[UnitAt(d, p)] # "unknown"
        BY <1>4, <3>1, <4>2 DEF WarmInv, Fanned
      <4>4. UnitAt(d, p) = <<d, i>>
        BY <3>1 DEF UnitAt, i
      <4> QED
        BY <4>3, <4>4
    <3>3. ASSUME status[<<d, i>>] # "unknown" PROVE d \notin NoDef
      BY <1>4, <3>1, <3>3, KnownUnit
    <3> QED
      BY <3>2, <3>3
  <2>2. \A d \in ExpandInlineDeps(DepsOf[e] \ SameMark(e)) : status[d] # "unknown" /\ d \notin Unit
    BY Nodes DEF ExpandInlineDeps, WarmInv, Registered
  <2>3. \A d \in NoDef : <<d, i>> \in Unit
    BY <1>4, Nodes, RegistryAssumption
  <2>4. ASSUME NEW x \in UnitDeps(e, i)
        PROVE  status[x] # "unknown" <=> x \notin {<<d, i>> : d \in NoDef}
    <3>1. CASE x \in ExpandInlineDeps(DepsOf[e] \ SameMark(e))
      BY <2>2, <2>3, <3>1
    <3>2. ASSUME NEW d \in DepsOf[e] \cap SameMark(e), x = <<d, i>>
          PROVE  status[x] # "unknown" <=> x \notin {<<y, i>> : y \in NoDef}
      BY <2>1, <3>2
    <3> QED
      BY <3>1, <3>2 DEF UnitDeps
  <2> QED
    BY <1>8, <2>4 DEF UnitGate
<1>11. gate \in [Node -> SUBSET Node]
  BY PoolFacts
<1>14. gate'[u] = UnitGate(e, i) /\ \A x \in Node : x # u => gate'[x] = gate[x]
  BY <1>4, <1>9, <1>10, <1>11
<1>12. /\ Stored' /\ Ran' /\ Enumerated'
       /\ \A x \in Node : x # u =>
            /\ (status'[x] = "unknown") <=> (status[x] = "unknown")
            /\ (status'[x] = "declared") <=> (status[x] = "declared")
       /\ status'[u] \notin {"unknown", "declared"}
  <2>1. group' \subseteq PerInst
    BY <1>9 DEF WarmInv, Registered
  <2>2. u \notin PerInst
    BY <1>4, Nodes
  <2> QED
    BY <1>1, <1>4, <1>6, <1>7, <1>9, <2>1, <2>2, AddKeeps
<1>13. Registered'
  <2>1. GraphIds \subseteq Node /\ Unit \subseteq Node /\ u \notin GraphIds
        /\ Mark \subseteq GraphIds /\ WholeDaf \subseteq GraphIds
    BY <1>4, Nodes DEF Node
  <2>2. Registered
    BY DEF WarmInv
  <2>3. \A n \in GraphIds : status'[n] # "unknown"
    BY <1>12, <2>1, <2>2 DEF Registered
  <2>4. \A n \in Mark \cup WholeDaf : gate'[n] = StaticDeps(n) \ {n}
    BY <1>14, <2>1, <2>2 DEF Registered
  <2>5. \A x \in Unit : status'[x] # "declared"
    BY <1>12, <2>1, <2>2 DEF Registered
  <2> QED
    BY <1>9, <2>2, <2>3, <2>4, <2>5 DEF Registered
<1>15. Fanned'
  <2>1. Fanned /\ insts' = insts
    BY <1>1 DEF WarmInv
  <2>2. ASSUME NEW x \in PerInst, status'[x] # "declared"
        PROVE  /\ gate'[x] = {UnitAt(x, q) : q \in Positions(x)}
               /\ \A q \in Positions(x) : <<x, q>> \in added'
    <3>1. x \in Node /\ x # u
      BY <1>4, Nodes DEF Node
    <3>2. status[x] # "declared"
      BY <1>12, <2>2, <3>1
    <3> QED
      BY <1>7, <1>14, <2>1, <3>1, <3>2 DEF Fanned
  <2>3. ASSUME NEW x \in PerInst, NEW q \in Nat, <<x, q>> \in added'
        PROVE  q \in Positions(x) /\ status'[UnitAt(x, q)] # "unknown"
    <3>1. CASE <<x, q>> \in added
      <4>1. q \in Positions(x) /\ status[UnitAt(x, q)] # "unknown"
        BY <2>1, <3>1 DEF Fanned
      <4>2. UnitAt(x, q) \in Node
        BY <2>1, <4>1, PositionFacts DEF Node, Fanned
      <4> QED
        BY <1>12, <4>1, <4>2
    <3>2. CASE x = e /\ q = p
      BY <1>4, <1>12, <3>2 DEF u
    <3> QED
      BY <1>7, <2>3, <3>1, <3>2
  <2>4. ASSUME NEW x \in PerInst, NEW j \in Iid, status'[<<x, j>>] # "unknown"
        PROVE  /\ \E q \in Positions(x) : <<x, j>> = UnitAt(x, q) /\ <<x, q>> \in added'
               /\ gate'[<<x, j>>] = UnitGate(x, j)
    <3>1. <<x, j>> \in Node
      BY Nodes DEF Node
    <3>2. CASE <<x, j>> = u
      <4>1. x = e /\ j = i
        BY <1>4, <3>2
      <4>2. <<e, i>> = UnitAt(e, p) /\ <<e, p>> \in added'
        BY <1>4, <1>7 DEF u
      <4> QED
        BY <1>4, <1>14, <3>2, <4>1, <4>2
    <3>3. CASE <<x, j>> # u
      <4>1. status[<<x, j>>] # "unknown"
        BY <1>12, <2>4, <3>1, <3>3
      <4> QED
        BY <1>7, <1>14, <2>1, <3>1, <3>3, <4>1 DEF Fanned
    <3> QED
      BY <3>2, <3>3
  <2> QED
    BY <2>1, <2>2, <2>3, <2>4 DEF Fanned, UnitAt, Positions
<1> QED
  BY <1>9, <1>12, <1>13, <1>15 DEF WarmInv

\* A fan-out adds an enrichment's marker, over all its units.
LEMMA AddMarkerKeeps ==
  ASSUME WarmInv, PoolInv, NEW m \in Mark, AddMarker(m)
  PROVE  WarmInv' /\ PoolInv'
<1>1. /\ m \in live /\ pc[m] = "fan"
      /\ UNCHANGED <<pc, result, insts, added, kvVars, down, restarts>>
  BY DEF AddMarker, runVars
<1>2. PICK e \in Fannable(m) :
       /\ \A p \in Positions(e) : <<e, p>> \in added
       /\ Pool!Add(e, {<<e, insts[m][p]>> : p \in Positions(e)}, TRUE)
  BY DEF AddMarker
<1> DEFINE units == {<<e, insts[m][p]>> : p \in Positions(e)}
<1>3. /\ e \in PerInst /\ Target[e] = m /\ e \in Node /\ status[e] = "declared"
      /\ \A p \in Positions(e) : /\ p \in Nat
                                 /\ UnitAt(e, p) = <<e, insts[m][p]>> /\ UnitAt(e, p) \in Unit
  BY <1>1, FannableFacts
<1>4. units = {UnitAt(e, p) : p \in Positions(e)} /\ units \in SUBSET Node /\ e \notin units
  <2>1. \A p \in Positions(e) : <<e, insts[m][p]>> = UnitAt(e, p)
    BY <1>3
  <2>2. \A x \in units : x \in Unit
    BY <1>3
  <2>3. e \notin Unit
    BY <1>3, Nodes
  <2> QED
    BY <2>1, <2>2, <2>3 DEF Node
<1>5. \A x \in units : status[x] # "unknown"
  <2>1. ASSUME NEW p \in Positions(e) PROVE status[UnitAt(e, p)] # "unknown"
    BY <1>2, <1>3 DEF WarmInv, Fanned
  <2> QED
    BY <1>4, <2>1
<1> HIDE DEF units
<1>6. /\ PoolInv' /\ Moved([status EXCEPT ![e] = "pending"]) /\ failure' = failure
      /\ gate' = [gate EXCEPT ![e] = {d \in units \ {e} : status[d] # "unknown"}]
      /\ group' = group \cup {e}
  <2>1. Pool!Add(e, units, TRUE) /\ live # {}
    BY <1>1, <1>2 DEF units
  <2> QED
    BY <1>3, <1>4, <2>1, AddMoves
<1>7. gate \in [Node -> SUBSET Node]
  BY PoolFacts
<1>8. gate'[e] = units /\ \A x \in Node : x # e => gate'[x] = gate[x]
  BY <1>3, <1>4, <1>5, <1>6, <1>7
<1>9. group' \subseteq PerInst
  BY <1>3, <1>6 DEF WarmInv, Registered
<1>10. /\ Stored' /\ Ran' /\ Enumerated'
       /\ \A x \in Node : x # e =>
            /\ (status'[x] = "unknown") <=> (status[x] = "unknown")
            /\ (status'[x] = "declared") <=> (status[x] = "declared")
       /\ status'[e] \notin {"unknown", "declared"}
  <2>1. e \notin Unit
    BY <1>3, Nodes
  <2> QED
    BY <1>1, <1>3, <1>6, <1>9, <2>1, AddKeeps
<1>11. Registered'
  <2>1. /\ GraphIds \subseteq Node /\ Unit \subseteq Node /\ e \notin Unit
        /\ e \notin Mark \cup WholeDaf /\ Mark \subseteq GraphIds /\ WholeDaf \subseteq GraphIds
    BY <1>3, Nodes, RegistryAssumption DEF Node
  <2>2. Registered
    BY DEF WarmInv
  <2>3. \A n \in GraphIds : status'[n] # "unknown"
    BY <1>10, <2>1, <2>2 DEF Registered
  <2>4. \A n \in Mark \cup WholeDaf : gate'[n] = StaticDeps(n) \ {n}
    BY <1>8, <2>1, <2>2 DEF Registered
  <2>5. \A x \in Unit : status'[x] # "declared"
    BY <1>10, <2>1, <2>2 DEF Registered
  <2> QED
    BY <1>9, <2>3, <2>4, <2>5 DEF Registered
<1>12. Fanned'
  <2>1. Fanned /\ insts' = insts /\ added' = added
    BY <1>1 DEF WarmInv
  <2>2. ASSUME NEW x \in PerInst, status'[x] # "declared"
        PROVE  /\ gate'[x] = {UnitAt(x, q) : q \in Positions(x)}
               /\ \A q \in Positions(x) : <<x, q>> \in added
    <3>1. x \in Node
      BY DEF Node
    <3>2. CASE x = e
      BY <1>2, <1>3, <1>4, <1>8, <3>2
    <3>3. CASE x # e
      BY <1>8, <1>10, <2>1, <2>2, <3>1, <3>3 DEF Fanned
    <3> QED
      BY <3>2, <3>3
  <2>3. ASSUME NEW x \in PerInst, NEW q \in Nat, <<x, q>> \in added
        PROVE  q \in Positions(x) /\ status'[UnitAt(x, q)] # "unknown"
    <3>1. q \in Positions(x) /\ status[UnitAt(x, q)] # "unknown"
      BY <2>1, <2>3 DEF Fanned
    <3>2. UnitAt(x, q) \in Node /\ UnitAt(x, q) # e
      BY <1>3, <2>1, <3>1, PositionFacts, Nodes DEF Node, Fanned
    <3> QED
      BY <1>10, <3>1, <3>2
  <2>4. ASSUME NEW x \in PerInst, NEW j \in Iid, status'[<<x, j>>] # "unknown"
        PROVE  /\ \E q \in Positions(x) : <<x, j>> = UnitAt(x, q) /\ <<x, q>> \in added
               /\ gate'[<<x, j>>] = UnitGate(x, j)
    <3>1. <<x, j>> \in Node /\ <<x, j>> # e
      BY <1>3, Nodes DEF Node
    <3> QED
      BY <1>8, <1>10, <2>1, <2>4, <3>1 DEF Fanned
  <2>5. \A x \in PerInst : /\ Positions(x)' = Positions(x)
                           /\ \A q \in Nat : UnitAt(x, q)' = UnitAt(x, q)
    BY <2>1 DEF Positions, UnitAt
  <2>6. \A x \in PerInst : Positions(x) \subseteq Nat
    BY <2>1, PositionFacts DEF Fanned
  <2>7. ASSUME NEW x \in PerInst, status'[x] # "declared"
        PROVE  /\ gate'[x] = {UnitAt(x, q)' : q \in Positions(x)'}
               /\ \A q \in Positions(x)' : <<x, q>> \in added'
    <3>1. {UnitAt(x, q)' : q \in Positions(x)'} = {UnitAt(x, q) : q \in Positions(x)}
      BY <2>5, <2>6
    <3> QED
      BY <2>1, <2>2, <2>5, <2>7, <3>1
  <2>8. ASSUME NEW x \in PerInst, NEW q \in Nat, <<x, q>> \in added'
        PROVE  q \in Positions(x)' /\ status'[UnitAt(x, q)'] # "unknown"
    BY <2>1, <2>3, <2>5, <2>8
  <2>9. ASSUME NEW x \in PerInst, NEW j \in Iid, status'[<<x, j>>] # "unknown"
        PROVE  /\ \E q \in Positions(x)' : <<x, j>> = UnitAt(x, q)' /\ <<x, q>> \in added'
               /\ gate'[<<x, j>>] = UnitGate(x, j)
    BY <2>1, <2>4, <2>5, <2>6, <2>9
  <2> QED
    BY <2>1, <2>7, <2>8, <2>9 DEF Fanned
<1> QED
  BY <1>6, <1>10, <1>11, <1>12 DEF WarmInv

-----------------------------------------------------------------------------
(* The start, and a restart, which is a start over what was stored.         *)

Fresh ==
  /\ status = StatusAtDrain /\ gate = GateAtDrain
  /\ group = {} /\ live = {} /\ inFlight = 0 /\ failure = None /\ drain = "none"
  /\ pc = [n \in StepNode |-> "idle"]
  /\ insts = [m \in Mark |-> <<>>] /\ added = {}

LEMMA SameCardinality == PoolProofs!Cardinality({}) = 0
<1>1. \A S : IsFiniteSet(S) <=> PoolProofs!IsFiniteSet(S)
  BY DEF PoolProofs!IsFiniteSet, IsFiniteSet
<1>2. \A S : Cardinality(S) = PoolProofs!Cardinality(S)
  BY <1>1 DEF PoolProofs!Cardinality, Cardinality
<1> QED
  BY <1>2, FS_EmptySet

LEMMA FreshHolds == Fresh /\ Stored => PoolInv /\ WarmInv
<1> SUFFICES ASSUME Fresh, Stored PROVE PoolInv /\ WarmInv
  OBVIOUS
<1>1. /\ status \in [Node -> {"unknown", "declared", "pending", "running", "done"}]
      /\ \A n \in Mark \cup WholeDaf : status[n] = "pending"
      /\ \A e \in PerInst : status[e] = "declared"
      /\ \A u \in Unit : status[u] = "unknown"
      /\ \A n \in Node : status[n] \notin {"running", "done"}
  <2>1. \A n \in Mark \cup WholeDaf : n \in Node
    BY DEF Node
  <2>2. \A e \in PerInst : e \in Node /\ e \notin Mark \cup WholeDaf /\ e \in GraphIds
    BY RegistryAssumption DEF Node, GraphIds
  <2>3. \A u \in Unit : u \in Node /\ u \notin Mark \cup WholeDaf /\ u \notin GraphIds
    BY RegistryAssumption DEF Node, GraphIds
  <2> QED
    BY <2>1, <2>2, <2>3 DEF Fresh, StatusAtDrain
<1>2. /\ gate \in [Node -> SUBSET Node]
      /\ \A n \in Mark \cup WholeDaf : gate[n] = StaticDeps(n) \ {n}
  <2>1. \A n \in Mark \cup WholeDaf : n \in Node /\ StaticDeps(n) \cap GraphIds = StaticDeps(n)
    BY Gates DEF Node
  <2>2. GraphIds \subseteq Node
    BY Nodes
  <2> QED
    BY <2>1, <2>2 DEF Fresh, GateAtDrain
<1>3. PoolInv
  <2>1. PoolProofs!TypeOK
    BY <1>1, <1>2 DEF Fresh, PoolProofs!TypeOK, PoolProofs!Status, PoolProofs!Outcome
  <2>2. PoolProofs!Coherent(status, gate, group, failure, inFlight, live)
    BY <1>1, SameCardinality, PoolParameters DEF Fresh, PoolProofs!Coherent
  <2>3. PoolProofs!ResolvedMeansDone /\ PoolProofs!OpenMeansLive /\ PoolProofs!NoIdleSlot
        /\ PoolProofs!SettledIsQuiet
    BY DEF Fresh, PoolProofs!ResolvedMeansDone, PoolProofs!OpenMeansLive,
           PoolProofs!NoIdleSlot, PoolProofs!SettledIsQuiet, PoolProofs!Outcome
  <2> QED
    BY <2>1, <2>2, <2>3 DEF PoolInv, PoolProofs!IInv
<1>4. Ran
  BY <1>1, Nodes DEF Fresh, Ran
<1>5. Registered
  BY <1>1, <1>2 DEF Fresh, Registered, GraphIds
<1>6. Enumerated
  BY <1>1, Nodes DEF Fresh, Enumerated, PerInstOf, Lists
<1>7. Fanned
  <2>1. \A e \in PerInst, i \in Iid : status[<<e, i>>] = "unknown"
    BY <1>1, Nodes
  <2>2. insts \in [Mark -> Seq(Iid)] /\ added = {}
    BY DEF Fresh
  <2> QED
    BY <1>1, <2>1, <2>2 DEF Fanned
<1> QED
  BY <1>3, <1>4, <1>5, <1>6, <1>7 DEF WarmInv

LEMMA InitHolds == Init => PoolInv /\ WarmInv
<1> SUFFICES ASSUME Init PROVE Fresh /\ Stored
  BY FreshHolds
<1>1. Fresh
  BY DEF Init, Fresh
<1>2. Stored
  <2>1. result = [n \in StepNode |-> "none"] /\ moved = {} /\ down = FALSE /\ restarts = 0
    BY DEF Init
  <2>2. \A n \in StepNode : result[n] = "none"
    BY <2>1
  <2>3. /\ \A e \in PerInst, i \in Iid : result[<<e, i>>] = "none"
        /\ \A m \in Mark : result[m] = "none"
    BY <2>2, Nodes
  <2>4. PICK S \in SUBSET Mark : \E l \in [S -> UNION {Outputs[m] : m \in Mark}] :
          /\ \A m \in S : l[m] \in Outputs[m]
          /\ kv = [k \in Mark \X {"en", "he"} |->
                     IF k[2] = "en" /\ k[1] \in S THEN l[k[1]] ELSE None]
    BY DEF Init
  <2>9. PICK l \in [S -> UNION {Outputs[m] : m \in Mark}] :
          /\ \A m \in S : l[m] \in Outputs[m]
          /\ kv = [k \in Mark \X {"en", "he"} |->
                     IF k[2] = "en" /\ k[1] \in S THEN l[k[1]] ELSE None]
    BY <2>4
  <2>5. \A k \in Mark \X {"en", "he"} : k[1] \in Mark /\ kv[k] \in Outputs[k[1]] \cup {None}
    BY <2>9
  <2>6. kv \in [Mark \X {"en", "he"} -> (UNION {Outputs[m] : m \in Mark}) \cup {None}]
    <3>1. \A k \in Mark \X {"en", "he"} : kv[k] \in (UNION {Outputs[m] : m \in Mark}) \cup {None}
      BY <2>5
    <3>2. kv = [k \in Mark \X {"en", "he"} |-> kv[k]]
      BY <2>9
    <3> QED
      BY <3>1, <3>2
  <2>7. \A m \in Mark, l1 \in {"en", "he"} : kv[<<m, l1>>] \in Outputs[m] \cup {None}
    BY <2>5
  <2>8. 0 \in 0 .. MaxRestarts
    BY BoundsAssumption
  <2> QED
    BY <2>1, <2>3, <2>6, <2>7, <2>8 DEF Stored
<1> QED
  BY <1>1, <1>2

LEMMA RestartKeeps == ASSUME WarmInv, Restart PROVE PoolInv' /\ WarmInv'
<1>1. Fresh'
  BY DEF Restart, Fresh
<1>2. KvMove
  <2>1. moved' = moved /\ Stored
    BY DEF Restart, WarmInv
  <2>2. UNION {(ReadsOf[n] \cup {n}) \cap Mark : n \in {x \in StepNode : pc[x] = "gen"}}
          \in SUBSET Mark
    OBVIOUS
  <2> QED
    BY <2>1, <2>2, RunMarksMoves DEF Restart
<1>3. Stored'
  <2>1. /\ result' = result /\ down' = down /\ restarts' \in 0 .. MaxRestarts
        /\ result \in [StepNode -> {"none", "kept", "ended"}] /\ down \in BOOLEAN
    BY BoundsAssumption DEF Restart, WarmInv, Stored
  <2> QED
    BY <1>2, <2>1, StoredKeeps
<1> QED
  BY <1>1, <1>3, FreshHolds, PTL

-----------------------------------------------------------------------------
(* What a generation reads.                                                 *)

LEMMA StaticReads ==
  ASSUME NEW n \in Mark \cup WholeDaf
  PROVE  ReadsOf[n] = Artifacts(StaticDeps(n)) /\ n \notin StaticDeps(n)
<1>1. n \notin Unit /\ n \in GraphIds /\ n \in StepNode
  BY Nodes
<1>2. ReadsOf[n] = Artifacts(ExpandInlineDeps(DepsOf[n]))
  <2>1. DepsOf[n] \ {} = DepsOf[n]
    OBVIOUS
  <2>2. ReadsOf[n] = {} \cup Artifacts(ExpandInlineDeps(DepsOf[n] \ {}))
    BY <1>1 DEF ReadsOf
  <2> QED
    BY <2>1, <2>2
<1>3. StaticDeps(n) = ExpandInlineDeps(DepsOf[n])
  <2>1. CASE n \in Mark
    <3>1. DepsOf[n] \in SUBSET (GraphIds \cup Excluded) /\ DepsOf[n] \cap Excluded = {}
      BY <1>1, <2>1, RegistryAssumption
    <3>2. Visited(DepsOf[n]) = DepsOf[n]
      BY <3>1, VisitedFacts
    <3> QED
      BY <2>1, <3>1, <3>2 DEF StaticDeps, ExpandInlineDeps
  <2>2. CASE n \notin Mark
    BY <2>2 DEF StaticDeps
  <2> QED
    BY <2>1, <2>2
<1> QED
  BY <1>2, <1>3, DependencyAssumption

LEMMA UnitReads ==
  ASSUME NEW e \in PerInst, NEW i \in Iid
  PROVE  ReadsOf[<<e, i>>] = {<<d, i>> : d \in DepsOf[e] \cap SameMark(e)}
                               \cup Artifacts(ExpandInlineDeps(DepsOf[e] \ SameMark(e)))
<1>1. <<e, i>> \in Unit /\ <<e, i>> \in StepNode /\ <<e, i>>[1] = e /\ <<e, i>>[2] = i
  BY Nodes
<1>2. DepsOf[e] \ (DepsOf[e] \cap SameMark(e)) = DepsOf[e] \ SameMark(e)
  OBVIOUS
<1>3. ReadsOf[<<e, i>>] = {<<d, i>> : d \in DepsOf[e] \cap SameMark(e)}
        \cup Artifacts(ExpandInlineDeps(DepsOf[e] \ (DepsOf[e] \cap SameMark(e))))
  BY <1>1 DEF ReadsOf
<1> QED
  BY <1>2, <1>3

LEMMA ArtifactsAreSteps ==
  ASSUME NEW D \in SUBSET GraphIds PROVE Artifacts(D) \subseteq StepNode
<1>1. D \ PerInst \subseteq StepNode
  BY RegistryAssumption DEF StepNode, Node, GraphIds
<1>2. \A d \in D \cap PerInst : Target[d] \in StepNode
  BY RegistryAssumption, Nodes
<1>3. (D \cap PerInst) \X Iid \subseteq StepNode
  BY Nodes
<1> QED
  BY <1>1, <1>2, <1>3 DEF Artifacts

-----------------------------------------------------------------------------
LEMMA EnterStepKeeps ==
  ASSUME WarmInv, PoolInv, NEW n \in StepNode, EnterStep(n) PROVE WarmInv'
<1>1. /\ status[n] = "running" /\ pc[n] = "idle"
      /\ UNCHANGED <<poolVars, insts, added, kvVars, down, restarts>>
  BY PoolFacts DEF EnterStep
<1>2. result \in [StepNode -> {"none", "kept", "ended"}] /\ down \in BOOLEAN /\ Stored
  BY DEF WarmInv, Stored
<1>3. KvMove
  BY <1>1, <1>2, KvIdle
<1>4. CASE result[n] # "none" /\ pc' = [pc EXCEPT ![n] = "end"] /\ UNCHANGED result
  <2>1. result' = [result EXCEPT ![n] = result[n]] /\ result[n] \in {"none", "kept", "ended"}
    BY <1>2, <1>4
  <2> QED
    BY <1>1, <1>2, <1>3, <1>4, <2>1, StepOfRunKeeps
<1>5. CASE pc' = [pc EXCEPT ![n] = "end"] /\ result' = [result EXCEPT ![n] = "ended"]
  BY <1>1, <1>2, <1>3, <1>5, StepOfRunKeeps
<1>6. CASE result[n] = "none" /\ pc' = [pc EXCEPT ![n] = "gen"] /\ UNCHANGED result
  <2>1. result' = [result EXCEPT ![n] = "none"]
    BY <1>2, <1>6
  <2> QED
    BY <1>1, <1>2, <1>3, <1>6, <2>1, StepOfRunKeeps
<1> QED
  BY <1>4, <1>5, <1>6 DEF EnterStep

LEMMA ProduceMoves ==
  ASSUME WarmInv, NEW n \in StepNode, Produce(n), moved' = moved PROVE KvMove
<1>1. Stored
  BY DEF WarmInv
<1> QED
  BY <1>1, RunMarksMoves DEF Produce

LEMMA GenerateKeeps ==
  ASSUME WarmInv, PoolInv, NEW n \in StepNode, GenerateOk(n) \/ GenerateUnavailable(n)
  PROVE  WarmInv'
<1>1. /\ pc[n] = "gen" /\ pc' = [pc EXCEPT ![n] = "end"] /\ Produce(n) /\ moved' = moved
      /\ UNCHANGED <<poolVars, insts, added, restarts>>
  BY DEF GenerateOk, GenerateUnavailable
<1>2. down \in BOOLEAN /\ status[n] = "running"
  BY <1>1 DEF WarmInv, Stored, Ran
<1>3. KvMove
  BY <1>1, ProduceMoves
<1>4. CASE GenerateOk(n)
  <2> DEFINE r == IF n \in Mark /\ kv'[Key(n)] # None THEN "kept" ELSE "ended"
  <2>1. r \in {"none", "kept", "ended"} /\ r # "none" /\ (n \in Mark /\ r = "kept" => kv'[Key(n)] # None)
    OBVIOUS
  <2>2. down' = down /\ result' = [result EXCEPT ![n] = r]
    BY <1>4 DEF GenerateOk
  <2> HIDE DEF r
  <2> QED
    BY <1>1, <1>2, <1>3, <2>1, <2>2, StepOfRunKeeps
<1>5. CASE GenerateUnavailable(n)
  <2>1. down' = TRUE /\ result' = [result EXCEPT ![n] = "ended"]
    BY <1>5 DEF GenerateUnavailable
  <2> QED
    BY <1>1, <1>2, <1>3, <2>1, StepOfRunKeeps
<1> QED
  BY <1>4, <1>5

LEMMA GenerateThrowKeeps ==
  ASSUME WarmInv, PoolInv, NEW n \in StepNode, GenerateThrow(n) PROVE WarmInv' /\ PoolInv'
<1>1. /\ pc[n] = "gen" /\ Pool!RunFail(n) /\ pc' = [pc EXCEPT ![n] = "threw"] /\ n \in Node
      /\ Produce(n) /\ UNCHANGED <<result, insts, added, moved, down, restarts>>
  BY Nodes DEF GenerateThrow
<1>2. /\ PoolInv' /\ Moved(status) /\ status[n] = "running" /\ UNCHANGED <<gate, group>>
      /\ failure' = IF failure = None THEN n ELSE failure
  BY <1>1, RunFailMoves
<1> DEFINE q == "threw"
<1>3. /\ q \in {"done", "threw", "unread"} /\ q \notin {"done", "unread"}
      /\ pc' = [pc EXCEPT ![n] = q]
      /\ Moved(IF q = "done" THEN [status EXCEPT ![n] = "done"] ELSE status)
      /\ failure' = IF q # "done" /\ failure = None THEN n ELSE failure
  BY <1>1, <1>2
<1>4. KvMove
  BY <1>1, ProduceMoves
<1> HIDE DEF q
<1>5. WarmInv'
  BY <1>1, <1>2, <1>3, <1>4, EndOfRunKeeps
<1> QED
  BY <1>2, <1>5

LEMMA EndKeeps ==
  ASSUME WarmInv, PoolInv, NEW n \in StepNode,
         EndRun(n) \/ (n \in Mark /\ EndFanOut(n))
  PROVE  WarmInv' /\ PoolInv'
<1>1. /\ Pool!RunOk(n) /\ pc' = [pc EXCEPT ![n] = "done"] /\ n \in Node
      /\ \/ pc[n] = "fan"
         \/ pc[n] = "end" /\ (n \in Mark => PerInstOf(n) = {})
      /\ UNCHANGED <<result, insts, added, kvVars, down, restarts>>
  BY Nodes DEF EndRun, EndFanOut
<1>2. /\ PoolInv' /\ Moved([status EXCEPT ![n] = "done"]) /\ status[n] = "running"
      /\ UNCHANGED <<gate, group, failure>>
  BY <1>1, RunOkMoves
<1> DEFINE q == "done"
<1>3. /\ q \in {"done", "threw", "unread"} /\ q \notin {"threw", "unread"}
      /\ pc' = [pc EXCEPT ![n] = q]
      /\ Moved(IF q = "done" THEN [status EXCEPT ![n] = "done"] ELSE status)
      /\ failure' = IF q # "done" /\ failure = None THEN n ELSE failure
  BY <1>1, <1>2
<1>4. KvMove
  BY <1>1, KvIdle DEF WarmInv
<1> HIDE DEF q
<1>5. WarmInv'
  BY <1>1, <1>2, <1>3, <1>4, EndOfRunKeeps
<1> QED
  BY <1>2, <1>5

\* A read of the fan-out that rejects ends the mark's run without its markers.
LEMMA ReadFailsKeeps ==
  ASSUME WarmInv, PoolInv, NEW m \in Mark, ReadFails(m) PROVE WarmInv' /\ PoolInv'
<1>1. /\ Pool!RunFail(m) /\ pc' = [pc EXCEPT ![m] = "unread"] /\ m \in Node /\ m \in StepNode
      /\ pc[m] \in {"end", "fan"}
      /\ UNCHANGED <<result, insts, added, kvVars, down, restarts>>
  BY Nodes DEF ReadFails
<1>2. /\ PoolInv' /\ Moved(status) /\ status[m] = "running" /\ UNCHANGED <<gate, group>>
      /\ failure' = IF failure = None THEN m ELSE failure
  BY <1>1, RunFailMoves
<1> DEFINE q == "unread"
<1>3. /\ q \in {"done", "threw", "unread"} /\ q \notin {"done", "threw"}
      /\ pc' = [pc EXCEPT ![m] = q]
      /\ Moved(IF q = "done" THEN [status EXCEPT ![m] = "done"] ELSE status)
      /\ failure' = IF q # "done" /\ failure = None THEN m ELSE failure
  BY <1>1, <1>2
<1>4. KvMove
  BY <1>1, KvIdle DEF WarmInv
<1> HIDE DEF q
<1>5. WarmInv'
  BY <1>1, <1>2, <1>3, <1>4, EndOfRunKeeps
<1> QED
  BY <1>2, <1>5

\* What happens outside the Workflow moves entries and the sentinel only.
LEMMA OutsideKeeps ==
  ASSUME WarmInv, KvMove, UNCHANGED <<poolVars, runVars, restarts>>, down' \in BOOLEAN
  PROVE  WarmInv'
<1>1. /\ UNCHANGED <<status, gate, group, failure, pc, result, insts, added, restarts>>
      /\ result \in [StepNode -> {"none", "kept", "ended"}] /\ restarts \in 0 .. MaxRestarts
  BY DEF poolVars, runVars, WarmInv, Stored
<1>2. Stored'
  BY <1>1, StoredKeeps
<1>3. Enumerated'
  BY <1>1, EnumeratedKeeps
<1>4. Ran' /\ Registered' /\ Fanned'
  BY <1>1 DEF WarmInv, Ran, Registered, Fanned, UnitAt, Positions
<1> QED
  BY <1>2, <1>3, <1>4 DEF WarmInv

LEMMA RewriteKeeps ==
  ASSUME WarmInv, PoolInv, NEW m \in Mark, Rewrite(m) PROVE WarmInv' /\ PoolInv'
<1>1. PICK k \in {Key(m), InstancesKey(m)}, l \in Outputs[m] \cup {None} :
        kv' = [kv EXCEPT ![k] = l]
  BY DEF Rewrite
<1>2. moved' = moved \cup {m} /\ UNCHANGED <<poolVars, runVars, down, restarts>>
  BY DEF Rewrite
<1>3. /\ kv \in [Mark \X {"en", "he"} -> (UNION {Outputs[x] : x \in Mark}) \cup {None}]
      /\ \A x \in Mark, l1 \in {"en", "he"} : kv[<<x, l1>>] \in Outputs[x] \cup {None}
      /\ moved \subseteq Mark /\ down \in BOOLEAN
  BY DEF WarmInv, Stored
<1>4. k \in Mark \X {"en", "he"} /\ k[1] = m
  BY ListsType
<1>5. \A x \in Mark \X {"en", "he"} : kv'[x] = IF x = k THEN l ELSE kv[x]
  BY <1>1, <1>3
<1>6. kv' \in [Mark \X {"en", "he"} -> (UNION {Outputs[x] : x \in Mark}) \cup {None}]
  <2>1. l \in (UNION {Outputs[x] : x \in Mark}) \cup {None}
    OBVIOUS
  <2> QED
    BY <1>1, <1>3, <2>1
<1>7. ASSUME NEW x \in Mark, NEW l1 \in {"en", "he"} PROVE kv'[<<x, l1>>] \in Outputs[x] \cup {None}
  <2>1. <<x, l1>> \in Mark \X {"en", "he"} /\ <<x, l1>>[1] = x
    OBVIOUS
  <2>2. kv[<<x, l1>>] \in Outputs[x] \cup {None}
    BY <1>3
  <2>3. CASE <<x, l1>> = k
    BY <1>4, <1>5, <2>1, <2>3
  <2>4. CASE <<x, l1>> # k
    BY <1>5, <2>1, <2>2, <2>4
  <2> QED
    BY <2>3, <2>4
<1>8. KvMove
  BY <1>2, <1>3, <1>4, <1>5, <1>6, <1>7 DEF KvMove
<1> QED
  BY <1>2, <1>3, <1>8, OutsideKeeps, PoolIdle

LEMMA StepKeeps == PoolInv /\ WarmInv /\ [Next]_vars => PoolInv' /\ WarmInv'
<1> SUFFICES ASSUME PoolInv, WarmInv, [Next]_vars PROVE PoolInv' /\ WarmInv'
  OBVIOUS
<1>1. ASSUME NEW n \in StepNode, RunStep(n) PROVE PoolInv' /\ WarmInv'
  <2>1. CASE EnterStep(n)
    BY <2>1, EnterStepKeeps, PoolIdle DEF EnterStep
  <2>2. CASE GenerateOk(n) \/ GenerateUnavailable(n)
    BY <2>2, GenerateKeeps, PoolIdle DEF GenerateOk, GenerateUnavailable
  <2>3. CASE GenerateThrow(n)
    BY <2>3, GenerateThrowKeeps
  <2>4. CASE EndRun(n)
    <3>1. EndRun(n) \/ (n \in Mark /\ EndFanOut(n))
      BY <2>4
    <3> QED
      BY <3>1, EndKeeps
  <2> QED
    BY <1>1, <2>1, <2>2, <2>3, <2>4 DEF RunStep
<1>2. ASSUME NEW m \in Mark, FanOut(m) PROVE PoolInv' /\ WarmInv'
  <2>1. CASE ReadInstances(m)
    BY <2>1, ReadInstancesKeeps, PoolIdle DEF ReadInstances
  <2>2. CASE AddUnit(m)
    BY <2>2, AddUnitKeeps
  <2>3. CASE AddMarker(m)
    BY <2>3, AddMarkerKeeps
  <2>4. CASE EndFanOut(m)
    BY <2>4, EndKeeps, Nodes
  <2>5. CASE ReadFails(m)
    BY <2>5, ReadFailsKeeps
  <2> QED
    BY <1>2, <2>1, <2>2, <2>3, <2>4, <2>5 DEF FanOut
<1>3. CASE SentinelRises \/ SentinelFalls \/ UNCHANGED vars
  <2>1. down' \in BOOLEAN /\ UNCHANGED <<poolVars, runVars, kvVars, restarts>>
    BY <1>3 DEF SentinelRises, SentinelFalls, vars, WarmInv, Stored
  <2>2. KvMove
    BY <2>1, KvIdle DEF WarmInv
  <2> QED
    BY <2>1, <2>2, OutsideKeeps, PoolIdle
<1> QED
  BY <1>1, <1>2, <1>3, DrainKeeps, RestartKeeps, RewriteKeeps DEF Next

-----------------------------------------------------------------------------
(* The theorems.                                                            *)

\* The pool's invariant holds of the Workflow's pool across restarts, and
\* WarmInv of what the Workflow does with it.
THEOREM Inductive == Spec => [](PoolInv /\ WarmInv)
  BY InitHolds, StepKeeps, PTL DEF Spec

\* Every variable of the Workflow and of its pool stays in its type; in
\* particular no run ends on a duplicate node.
THEOREM TypeCorrect == Spec => []TypeOK
<1>1. PoolInv /\ WarmInv => TypeOK
  <2> SUFFICES ASSUME PoolInv, WarmInv PROVE TypeOK
    OBVIOUS
  <2>1. Pool!TypeOK
    BY DEF PoolInv, PoolProofs!IInv, PoolProofs!TypeOK, Pool!TypeOK, PoolProofs!Status,
           Pool!Status, PoolProofs!Outcome, Pool!Outcome
  <2> QED
    <3>1. pc \in [StepNode -> {"idle", "gen", "end", "fan", "done", "threw", "unread", "dup"}]
      BY DEF WarmInv, Ran
    <3>2. DOMAIN insts = Mark /\ \A m \in Mark : insts[m] \in Lists(m)
      BY DEF WarmInv, Enumerated, Fanned
    <3> QED
      BY <2>1, <3>1, <3>2 DEF WarmInv, Stored, TypeOK
<1> QED
  BY <1>1, Inductive, PTL

\* A daf's warm fails only by a step's own error or by a read of a fan-out that
\* rejects: the fan-out, with its dedupe, never adds a node twice, whatever ids a
\* mark lists, whoever rewrites its entry and however often the orchestrator
\* restarts.
THEOREM NoDuplicateNode == Spec => []FailsOnlyByStepOrRead
<1>1. WarmInv => FailsOnlyByStepOrRead
  BY DEF WarmInv, Ran, FailsOnlyByStepOrRead
<1> QED
  BY <1>1, Inductive, PTL

\* The pool's width holds of the Workflow: the steps that share the isolate are
\* never more than STEP_CONCURRENCY.
THEOREM WidthHolds == Spec => []Pool!WidthCap
<1>1. PoolInv => Pool!WidthCap
  BY DEF PoolInv, PoolProofs!IInv, PoolProofs!Coherent, Pool!WidthCap, PoolProofs!Cardinality,
         Pool!Cardinality
<1> QED
  BY <1>1, Inductive, PTL

\* An English Workflow reads every mark at the key its step writes.
LEMMA EnglishReadsOwn == Lang = "en" => OwnKeyRead
  BY DEF OwnKeyRead, Key, InstancesKey

\* A node that is done has its step's result.
LEMMA DoneStep ==
  ASSUME WarmInv, NEW r \in StepNode, status[r] = "done" PROVE result[r] # "none"
  BY DEF WarmInv, Ran

\* Behind a per-instance enrichment's marker stands a finished unit for every
\* instance its mark's fan-out read.
LEMMA UnitDone ==
  ASSUME WarmInv, PoolInv, NEW e \in PerInst \ NoDef, status[e] = "done",
         NEW i \in Elems(insts[Target[e]])
  PROVE  <<e, i>> \in StepNode /\ status[<<e, i>>] = "done"
<1>1. Fanned /\ Target[e] \in Mark /\ e \in Node
  BY RegistryAssumption DEF WarmInv, Node
<1>2. insts[Target[e]] \in Seq(Iid) /\ Positions(e) = DedupeInstancesByIid(insts[Target[e]])
  BY <1>1 DEF Fanned, Positions
<1>3. PICK p \in Positions(e) : insts[Target[e]][p] = i
  BY <1>2, DedupeCovers
<1>4. <<e, i>> = UnitAt(e, p) /\ <<e, i>> \in Unit
  BY <1>1, <1>3, PositionFacts DEF UnitAt, Fanned
<1>5. <<e, i>> \in gate[e]
  <2>1. gate[e] = {UnitAt(e, q) : q \in Positions(e)}
    BY <1>1 DEF Fanned
  <2> QED
    BY <1>3, <1>4, <2>1
<1> QED
  BY <1>1, <1>4, <1>5, PoolFacts, Nodes

\* Behind producers that are done, every artifact had its step, but for a unit
\* the pool was never given.
LEMMA ReadArtifact ==
  ASSUME WarmInv, PoolInv, NEW D \in SUBSET GraphIds, \A d \in D : status[d] = "done",
         NEW r \in Artifacts(D)
  PROVE  result[r] # "none" \/ status[r] = "unknown"
<1>1. r \in StepNode
  BY ArtifactsAreSteps
<1>2. CASE r \in D \ PerInst
  BY <1>1, <1>2, DoneStep
<1>3. ASSUME NEW d \in D \cap PerInst, r = Target[d] PROVE result[r] # "none"
  <2>1. r \in Mark /\ d \in PerInstOf(r) /\ status[d] = "done"
    BY <1>3, RegistryAssumption DEF PerInstOf
  <2>2. pc[r] \in {"idle", "gen", "end", "threw"} => status[d] = "declared"
    BY <2>1 DEF WarmInv, Enumerated
  <2>3. pc[r] \in {"fan", "done", "unread"}
    BY <1>1, <2>1, <2>2 DEF WarmInv, Ran
  <2> QED
    BY <1>1, <2>3 DEF WarmInv, Ran
<1>4. ASSUME NEW d \in D \cap PerInst, NEW i \in Iid, r = <<d, i>>, status[r] # "unknown"
      PROVE  result[r] # "none"
  <2>1. PICK p \in Positions(d) : r = UnitAt(d, p)
    BY <1>4 DEF WarmInv, Fanned
  <2>2. status[d] = "done" /\ d \in Node
    BY DEF Node
  <2>3. r \in gate[d]
    BY <2>1, <2>2 DEF WarmInv, Fanned
  <2>4. status[r] = "done"
    BY <2>2, <2>3, PoolFacts
  <2> QED
    BY <1>1, <2>4, DoneStep
<1> QED
  BY <1>2, <1>3, <1>4 DEF Artifacts

\* Everything the pool ever heard of is done when its drain resolves.
LEMMA ResolvedFacts ==
  ASSUME WarmInv, PoolInv, drain = "resolved"
  PROVE  \A n \in GraphIds : status[n] = "done"
<1>1. \A n \in Node : status[n] \in {"unknown", "done"}
  BY DEF PoolInv, PoolProofs!IInv, PoolProofs!ResolvedMeansDone
<1>2. \A n \in GraphIds : n \in Node /\ status[n] # "unknown"
  BY Nodes DEF WarmInv, Registered
<1> QED
  BY <1>1, <1>2

\* A generation reads nothing whose own step is still to come: what declare-first,
\* the fan-out inside the mark's run, topoTiers and expandInlineDeps are for,
\* whatever the steps leave in the cache and whoever else writes to it.
THEOREM NoInlineRegeneration == Spec => []InlineOnlyAfterStep
<1>1. PoolInv /\ WarmInv => InlineOnlyAfterStep
  <2> SUFFICES ASSUME PoolInv, WarmInv, NEW n \in Generating, NEW r \in ReadsOf[n]
               PROVE  result[r] # "none" \/ status[r] = "unknown"
    BY DEF InlineOnlyAfterStep
  <2>1. n \in StepNode /\ n \in Node /\ pc[n] = "gen"
    BY Nodes DEF Generating
  <2>2. status[n] = "running"
    BY <2>1 DEF WarmInv, Ran
  <2>3. \A d \in gate[n] : status[d] = "done"
    BY <2>1, <2>2, PoolFacts
  <2>4. CASE n \in Mark \cup WholeDaf
    <3>1. gate[n] = StaticDeps(n)
      BY <2>4, StaticReads DEF WarmInv, Registered
    <3>2. StaticDeps(n) \in SUBSET GraphIds /\ r \in Artifacts(StaticDeps(n))
      BY <2>4, StaticReads, Gates
    <3> QED
      BY <2>3, <3>1, <3>2, ReadArtifact
  <2>5. ASSUME NEW e \in PerInst, NEW i \in Iid, n = <<e, i>>
        PROVE  result[r] # "none" \/ status[r] = "unknown"
    <3> DEFINE D == ExpandInlineDeps(DepsOf[e] \ SameMark(e))
    <3>1. gate[n] = UnitGate(e, i)
      BY <2>2, <2>5 DEF WarmInv, Fanned
    <3>2. D \in SUBSET GraphIds
      BY DEF ExpandInlineDeps
    <3>3. D \subseteq gate[n]
      <4>1. \A d \in NoDef : <<d, i>> \notin GraphIds
        BY RegistryAssumption, Nodes
      <4> QED
        BY <3>1, <3>2, <4>1 DEF UnitGate, UnitDeps
    <3>4. ASSUME NEW d \in DepsOf[e] \cap SameMark(e), r = <<d, i>>
          PROVE  result[r] # "none" \/ status[r] = "unknown"
      <4>1. d \in PerInst /\ r \in StepNode
        BY <3>4, Nodes DEF SameMark, PerInstOf
      <4>2. CASE d \in NoDef
        BY <3>4, <4>1, <4>2, KnownUnit
      <4>3. CASE d \notin NoDef
        <5>1. r \notin {<<x, i>> : x \in NoDef}
          BY <3>4, <4>3
        <5>2. r \in gate[n]
          BY <3>1, <3>4, <5>1 DEF UnitGate, UnitDeps
        <5> QED
          BY <2>3, <4>1, <5>2, DoneStep
      <4> QED
        BY <4>2, <4>3
    <3>5. CASE r \in Artifacts(D)
      BY <2>3, <3>2, <3>3, <3>5, ReadArtifact
    <3> QED
      BY <2>5, <3>4, <3>5, UnitReads
  <2> QED
    BY <2>1, <2>4, <2>5, Nodes
<1> QED
  BY <1>1, Inductive, PTL

\* When drain() resolves, every instance a fan-out read has had its step for each
\* per-instance enrichment that loads; and where a mark's step left an entry that
\* nobody else touched, at the key the fan-out reads, so has every instance of it.
THEOREM CoversInstances == Spec => [](OwnKeyRead => FinishedCoversInstances)
<1>1. PoolInv /\ WarmInv => (OwnKeyRead => FinishedCoversInstances)
  <2> SUFFICES ASSUME PoolInv, WarmInv, OwnKeyRead, drain = "resolved",
                      NEW m \in Mark, NEW e \in PerInstOf(m) \ NoDef
               PROVE  /\ \A i \in Elems(insts[m]) : result[<<e, i>>] # "none"
                      /\ result[m] = "kept" /\ m \notin moved =>
                           \A i \in Elems(kv[Key(m)]) : result[<<e, i>>] # "none"
    BY DEF FinishedCoversInstances
  <2>1. e \in PerInst \ NoDef /\ Target[e] = m /\ PerInstOf(m) # {}
    BY DEF PerInstOf
  <2>2. status[e] = "done" /\ status[m] = "done" /\ m \in StepNode
    BY <2>1, ResolvedFacts, Nodes
  <2>3. \A i \in Elems(insts[m]) : result[<<e, i>>] # "none"
    BY <2>1, <2>2, UnitDone, DoneStep
  <2>4. pc[m] = "done"
    BY <2>2 DEF WarmInv, Ran
  <2>5. result[m] = "kept" /\ m \notin moved => insts[m] = kv[InstancesKey(m)]
    BY <2>1, <2>4 DEF WarmInv, Enumerated
  <2>6. Key(m) = InstancesKey(m)
    BY <2>1 DEF OwnKeyRead
  <2> QED
    BY <2>3, <2>5, <2>6
<1> QED
  BY <1>1, Inductive, PTL

\* Whatever step has a persisted result is a node of the graph the Workflow
\* completes, also after restarts, for the marks whose entry nobody else touches.
THEOREM ReplayHolds == Spec => []ReplayKeepsNames
<1>1. PoolInv /\ WarmInv => ReplayKeepsNames
  <2> SUFFICES ASSUME PoolInv, WarmInv, drain = "resolved",
                      NEW n \in StepNode, result[n] # "none"
               PROVE  status[n] = "done" \/ (n \in Unit /\ Target[n[1]] \in moved)
    BY DEF ReplayKeepsNames
  <2>1. CASE n \in Mark \cup WholeDaf
    BY <2>1, ResolvedFacts, Nodes
  <2>2. ASSUME NEW e \in PerInst, NEW i \in Iid, n = <<e, i>>, Target[e] \notin moved
        PROVE  status[n] = "done"
    <3>1. e \notin NoDef
      BY <2>2 DEF WarmInv, Stored
    <3>2. Target[e] \in Mark /\ Target[e] \in StepNode /\ e \in PerInstOf(Target[e])
      BY RegistryAssumption, Nodes DEF PerInstOf
    <3>3. status[e] = "done" /\ status[Target[e]] = "done"
      BY <3>2, ResolvedFacts, Nodes
    <3>4. pc[Target[e]] = "done"
      BY <3>2, <3>3 DEF WarmInv, Ran
    <3>5. i \in Elems(insts[Target[e]])
      BY <2>2, <3>2, <3>4 DEF WarmInv, Enumerated
    <3> QED
      BY <2>2, <3>1, <3>3, <3>5, UnitDone
  <2>3. \A e \in PerInst, i \in Iid : n = <<e, i>> => n \in Unit /\ n[1] = e
    BY Nodes
  <2> QED
    BY <2>1, <2>2, <2>3, Nodes
<1> QED
  BY <1>1, Inductive, PTL

\* Every step of the Workflow is a step the pool's contract allows, an idle one,
\* or a crash: run() never registers a node but before drain() or inside a run.
UsesPoolByContract == [][Pool!Next \/ restarts' = restarts + 1]_poolVars

THEOREM PoolContract == Spec => UsesPoolByContract
<1>1. PoolInv /\ WarmInv /\ [Next]_vars => [Pool!Next \/ restarts' = restarts + 1]_poolVars
  <2> SUFFICES ASSUME PoolInv, WarmInv, Next
               PROVE  Pool!Next \/ restarts' = restarts + 1 \/ UNCHANGED poolVars
    BY DEF vars
  <2>1. ASSUME NEW n \in StepNode, RunStep(n) PROVE Pool!Next \/ UNCHANGED poolVars
    <3>1. n \in Node
      BY Nodes
    <3>2. \/ Pool!RunOk(n) \/ Pool!RunFail(n) \/ UNCHANGED poolVars
      BY <2>1 DEF RunStep, EnterStep, GenerateOk, GenerateUnavailable, GenerateThrow, EndRun
    <3> QED
      BY <3>1, <3>2 DEF Pool!Next
  <2>2. ASSUME NEW m \in Mark, FanOut(m) PROVE Pool!Next \/ UNCHANGED poolVars
    <3>1. m \in Node /\ \A e \in PerInstOf(m) : e \in PerInst /\ Target[e] = m /\ e \in Node
      BY Nodes DEF PerInstOf
    <3>2. ASSUME m \in live, pc[m] = "fan", NEW e \in Fannable(m), NEW p \in Positions(e)
          PROVE  /\ <<e, insts[m][p]>> \in Node /\ insts[m][p] \in Iid
                 /\ UnitDeps(e, insts[m][p]) \in SUBSET Node
      BY <3>2, FannableFacts, Nodes, Gates DEF Node
    <3>3. CASE AddUnit(m)
      <4>1. m \in live /\ pc[m] = "fan"
        BY <3>3 DEF AddUnit
      <4>2. PICK e \in Fannable(m) : \E p \in Positions(e) :
              LET u == <<e, insts[m][p]>>
              IN  Pool!RunFail(m) \/ Pool!Add(u, UnitDeps(e, u[2]), FALSE)
        BY <3>3 DEF AddUnit
      <4>3. PICK p \in Positions(e) :
              LET u == <<e, insts[m][p]>>
              IN  Pool!RunFail(m) \/ Pool!Add(u, UnitDeps(e, u[2]), FALSE)
        BY <4>2
      <4>4. Pool!RunFail(m) \/ Pool!Add(<<e, insts[m][p]>>, UnitDeps(e, insts[m][p]), FALSE)
        BY <4>3
      <4> QED
        BY <3>1, <3>2, <4>1, <4>4 DEF Pool!Next, Pool!MayRegister
    <3>4. CASE AddMarker(m)
      <4>1. m \in live /\ pc[m] = "fan"
        BY <3>4 DEF AddMarker
      <4>2. PICK e \in Fannable(m) :
              Pool!Add(e, {<<e, insts[m][p]>> : p \in Positions(e)}, TRUE)
        BY <3>4 DEF AddMarker
      <4>3. {<<e, insts[m][p]>> : p \in Positions(e)} \in SUBSET Node
        BY <3>2, <4>1
      <4>4. e \in Node
        BY <3>1 DEF Fannable
      <4> QED
        BY <4>1, <4>2, <4>3, <4>4 DEF Pool!Next, Pool!MayRegister
    <3>5. CASE ReadInstances(m) \/ EndFanOut(m) \/ ReadFails(m)
      BY <3>1, <3>5 DEF ReadInstances, EndFanOut, ReadFails, Pool!Next
    <3> QED
      BY <2>2, <3>3, <3>4, <3>5 DEF FanOut
  <2>3. CASE Drain
    BY <2>3 DEF Drain, Pool!Next
  <2>4. CASE SentinelRises \/ SentinelFalls \/ \E m \in Mark : Rewrite(m)
    BY <2>4 DEF SentinelRises, SentinelFalls, Rewrite
  <2>5. CASE Restart
    BY <2>5 DEF Restart
  <2> QED
    BY <2>1, <2>2, <2>3, <2>4, <2>5 DEF Next
<1> QED
  BY <1>1, Inductive, PTL DEF Spec, UsesPoolByContract

=============================================================================
