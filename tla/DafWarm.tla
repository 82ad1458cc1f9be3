------------------------------- MODULE DafWarm -------------------------------
(***************************************************************************)
(* DafWarmWorkflow.run (packages/talmud/src/worker/index.ts): one daf's     *)
(* warm generation.  The registry's producers become nodes of a DagPool:    *)
(* every mark and whole-daf enrichment is one node; a per-instance          *)
(* enrichment is a marker declared ahead of time, and its units, one per    *)
(* instance of its target mark, are added by that mark's run.  A node's run *)
(* is a Workflow step; the engine persists step results, and after a crash  *)
(* it runs the whole orchestrator again over them.                          *)
(*                                                                          *)
(* Of the cache only the marks' entries are state, since only what they     *)
(* list steers the Workflow: they are written by steps, when a step writes  *)
(* at all, and by everything else that serves the same daf.                 *)
(***************************************************************************)
EXTENDS Integers, FiniteSets, Sequences

CONSTANTS
  Mark, WholeDaf, PerInst,  \* the producers the warm generates
  Excluded,      \* producers it never generates (the `argument` family)
  DepsOf,        \* producer -> the producers it declares as dependencies
  Target,        \* per-instance or excluded producer -> its target mark
  Iid,           \* instance ids
  Outputs,       \* mark -> the lists of instance ids it may generate, repeats included
  NoDef,         \* the per-instance enrichments whose definition does not load
  Movable,       \* marks whose entry others may rewrite, drop or hold back meanwhile
  HePrompt,      \* the marks with a Hebrew prompt: the only ones keyed by language
  Lang,          \* the language the Workflow was started for, "en" or "he"
  Width,         \* STEP_CONCURRENCY
  MaxRestarts,   \* bound: crashes of the orchestrator
  None

Unit == {<<e, i>> : e \in PerInst, i \in Iid}
Node == Mark \cup WholeDaf \cup PerInst \cup Unit
StepNode == Node \ PerInst    \* the nodes that have a run

VARIABLES
  status, gate, group, live, inFlight, failure, drain,   \* the pool, see DagPool
  pc,        \* node -> where its run is
  result,    \* node -> its persisted step result: "kept" when a mark's run left an
             \* entry, "ended" when it did not, and for every other step
  insts,     \* mark -> the instance list its fan-out has read
  added,     \* the <<enrichment, position>> pairs its fan-out has added
  kv,        \* <<mark, language>> -> the instance list of its cache entry, or None
  moved,     \* the marks whose entry somebody else has changed
  down,      \* the ai-down sentinel is up
  restarts

poolVars == <<status, gate, group, live, inFlight, failure, drain>>
runVars  == <<pc, result, insts, added>>
kvVars   == <<kv, moved>>
vars     == <<poolVars, runVars, kvVars, down, restarts>>

Pool == INSTANCE DagPool WITH Limit <- Width

-----------------------------------------------------------------------------
(* The registry, as the Workflow reads it.                                  *)

\* The ids declared before any node is added.
GraphIds == Mark \cup WholeDaf \cup PerInst

\* The producers a walk over deps comes to: behind one the warm never generates
\* stands what its inline run reads, its target mark and its own dependencies,
\* transitively.
InlineInputs(x) == DepsOf[x] \cup {Target[x]}
Visited(deps) ==
  {d \in GraphIds \cup Excluded : \A X \in SUBSET (GraphIds \cup Excluded) :
     deps \subseteq X /\ (\A x \in X \cap Excluded : InlineInputs(x) \subseteq X) => d \in X}

\* expandInlineDeps gates on those of them that are in the graph.
ExpandInlineDeps(deps) == Visited(deps) \cap GraphIds

PerInstOf(m) == {e \in PerInst : Target[e] = m}
SameMark(e)  == PerInstOf(Target[e])

\* What a unit waits for: the same instance's unit of a same-mark dependency,
\* and everything else by its bare id.
UnitDeps(e, i) ==
  {<<d, i>> : d \in DepsOf[e] \cap SameMark(e)} \cup ExpandInlineDeps(DepsOf[e] \ SameMark(e))

StaticDeps(n) == IF n \in Mark THEN DepsOf[n] ELSE ExpandInlineDeps(DepsOf[n])

\* A he run of a mark without a Hebrew prompt collapses to the English key; an
\* enrichment keys by the language requested.
Key(n) == <<n, IF n \in Mark \ HePrompt THEN "en" ELSE Lang>>

\* What a mark's entry may list.
Lists(m) == Outputs[m] \cup {<<>>}
Elems(l) == {l[p] : p \in DOMAIN l}

\* The fan-out reads a mark's instances without passing the language.
InstancesKey(m) == <<m, "en">>

\* [defects] no dedupe, and a dedupe that keeps one instance of all
Dedupe_None(s) == DOMAIN s
Dedupe_OneOfAll(s) == DOMAIN s \cap {1}

\* dedupeInstancesByIid: of the positions with one instance id, the first.
DedupeInstancesByIid(s) == {p \in DOMAIN s : \A q \in 1 .. p - 1 : s[q] # s[p]}

\* What the registry (code-marks.ts) is like: its ids are distinct and none looks
\* like a unit, whatever targets a mark targets a registered one, and only
\* enrichments depend on a producer the warm never generates.
ASSUME RegistryAssumption ==
  /\ IsFiniteSet(Node) /\ None \notin Node
  /\ Mark \cap WholeDaf = {} /\ Mark \cap PerInst = {} /\ WholeDaf \cap PerInst = {}
  /\ Unit \cap GraphIds = {} /\ Excluded \cap GraphIds = {}
  /\ DepsOf \in [GraphIds \cup Excluded -> SUBSET (GraphIds \cup Excluded)]
  /\ Target \in [PerInst \cup Excluded -> Mark]
  /\ Outputs \in [Mark -> SUBSET Seq(Iid)] /\ \A m \in Mark : None \notin Lists(m)
  /\ NoDef \subseteq PerInst /\ Movable \subseteq Mark
  /\ \A m \in Mark : DepsOf[m] \cap Excluded = {}

\* No cycle among the per-instance enrichments (topoTiers would emit one as a
\* last tier, which Fannable does not), and no mark or whole-daf enrichment
\* behind itself.
ASSUME DependencyAssumption ==
  /\ \A E \in SUBSET PerInst : E # {} => \E e \in E : DepsOf[e] \cap E = {}
  /\ \A n \in Mark \cup WholeDaf : n \notin ExpandInlineDeps(DepsOf[n])

ASSUME BoundsAssumption ==
  Lang \in {"en", "he"} /\ Width \in Nat \ {0} /\ MaxRestarts \in Nat

-----------------------------------------------------------------------------
(* The orchestrator.                                                        *)

\* run() up to drain(): every id declared, then the marks and the whole-daf
\* enrichments added.  Nothing awaits in between, and before drain() the pool
\* only registers, so the batch is one state.
StatusAtDrain ==
  [n \in Node |-> IF n \in Mark \cup WholeDaf THEN "pending"
                  ELSE IF n \in GraphIds THEN "declared" ELSE "unknown"]
GateAtDrain ==
  [n \in Node |-> IF n \in Mark \cup WholeDaf THEN (StaticDeps(n) \cap GraphIds) \ {n} ELSE {}]

Init ==
  /\ status = StatusAtDrain /\ gate = GateAtDrain
  /\ group = {} /\ live = {} /\ inFlight = 0 /\ failure = None /\ drain = "none"
  /\ pc = [n \in StepNode |-> "idle"]
  /\ result = [n \in StepNode |-> "none"]
  /\ insts = [m \in Mark |-> <<>>]
  /\ added = {}
  /\ \E S \in SUBSET Mark : \E l \in [S -> UNION {Outputs[m] : m \in Mark}] :
       /\ \A m \in S : l[m] \in Outputs[m]
       /\ kv = [k \in Mark \X {"en", "he"} |-> IF k[2] = "en" /\ k[1] \in S THEN l[k[1]] ELSE None]
  /\ moved = {}
  /\ down = FALSE
  /\ restarts = 0

Drain == Pool!Drain /\ UNCHANGED <<runVars, kvVars, down, restarts>>

\* step.do: a step with a persisted result returns it without running; else the
\* callback reads the sentinel, and skips while it is up.
EnterStep(n) ==
  /\ n \in live /\ pc[n] = "idle"
  /\ \/ /\ result[n] # "none"
        /\ pc' = [pc EXCEPT ![n] = "end"] /\ UNCHANGED result
     \/ /\ result[n] = "none" /\ down
        /\ pc' = [pc EXCEPT ![n] = "end"]
        /\ result' = [result EXCEPT ![n] = "ended"]
     \/ /\ result[n] = "none" /\ ~ down
        /\ pc' = [pc EXCEPT ![n] = "gen"] /\ UNCHANGED result
  /\ UNCHANGED <<poolVars, insts, added, kvVars, down, restarts>>

\* What a generation reads through its dependencies: a per-instance one stands
\* for its target mark and a unit for whatever instances that then has.  Each
\* read that misses is regenerated inline.
Artifacts(D) ==
  (D \ PerInst) \cup {Target[d] : d \in D \cap PerInst} \cup ((D \cap PerInst) \X Iid)

ReadsOf == [n \in StepNode |->
  LET e    == IF n \in Unit THEN n[1] ELSE n
      same == IF n \in Unit THEN DepsOf[e] \cap SameMark(e) ELSE {}
  IN  {<<d, n[2]>> : d \in same} \cup Artifacts(ExpandInlineDeps(DepsOf[e] \ same))]

\* Runs of the marks S, each a hit or a generation that may end uncached: on a
\* parse error, a hard check issue or a transient result nothing is written.
RunMarks(S) ==
  \E W \in SUBSET {m \in S : kv[Key(m)] = None} :
    \E l \in [W -> UNION {Outputs[m] : m \in W}] :
      /\ \A m \in W : l[m] \in Outputs[m]
      /\ kv' = [k \in DOMAIN kv |->
                  IF k[1] \in W /\ k = Key(k[1]) THEN l[k[1]] ELSE kv[k]]

\* A producer's run, with the marks it regenerates inline.
Produce(n) == RunMarks((ReadsOf[n] \cup {n}) \cap Mark)

\* The producer ran, from the cache or anew.
GenerateOk(n) ==
  /\ pc[n] = "gen"
  /\ Produce(n)
  /\ result' = [result EXCEPT ![n] =
                  IF n \in Mark /\ kv'[Key(n)] # None THEN "kept" ELSE "ended"]
  /\ pc' = [pc EXCEPT ![n] = "end"]
  /\ UNCHANGED <<poolVars, insts, added, moved, down, restarts>>

\* A failure that classifies as "AI unavailable" raises the sentinel and
\* completes the step, as skipped.
GenerateUnavailable(n) ==
  /\ pc[n] = "gen"
  /\ Produce(n)
  /\ down' = TRUE
  /\ result' = [result EXCEPT ![n] = "ended"]
  /\ pc' = [pc EXCEPT ![n] = "end"]
  /\ UNCHANGED <<poolVars, insts, added, moved, restarts>>

\* Any other error rethrows; the step's retries spent, the node's run rejects.
GenerateThrow(n) ==
  /\ pc[n] = "gen"
  /\ Produce(n)
  /\ Pool!RunFail(n)
  /\ pc' = [pc EXCEPT ![n] = "threw"]
  /\ UNCHANGED <<result, insts, added, moved, down, restarts>>

\* [defect] a mark's run waits for a fan-out it does not have
EndRun_Enrichments(n) ==
  /\ n \in live \ Mark /\ pc[n] = "end"
  /\ Pool!RunOk(n)
  /\ pc' = [pc EXCEPT ![n] = "done"]
  /\ UNCHANGED <<result, insts, added, kvVars, down, restarts>>

\* A step that is all of its node's run: an enrichment, or a mark no
\* per-instance enrichment targets.
EndRun(n) ==
  /\ n \in live /\ pc[n] = "end"
  /\ n \in Mark => PerInstOf(n) = {}
  /\ Pool!RunOk(n)
  /\ pc' = [pc EXCEPT ![n] = "done"]
  /\ UNCHANGED <<result, insts, added, kvVars, down, restarts>>

\* addUnitsForMark, in the mark's run but outside its step: read the instances
\* from the cache, whatever the step's result was.  No entry reads as none.
ReadInstances(m) ==
  /\ m \in live /\ pc[m] = "end" /\ PerInstOf(m) # {}
  /\ insts' = [insts EXCEPT ![m] = IF kv[InstancesKey(m)] = None THEN <<>> ELSE kv[InstancesKey(m)]]
  /\ pc' = [pc EXCEPT ![m] = "fan"]
  /\ UNCHANGED <<poolVars, result, added, kvVars, down, restarts>>

\* [defect] the fan-out follows the registry's order, not the tiers
Fannable_AnyOrder(m) == {e \in PerInstOf(m) : status[e] = "declared"}

\* topoTiers: an enrichment is fanned out once its same-mark dependencies were.
Fannable(m) ==
  {e \in PerInstOf(m) : status[e] = "declared" /\
     \A d \in (DepsOf[e] \cap SameMark(e)) \ {e} : status[d] # "declared"}

\* The positions an enrichment is fanned out to: none without a definition.
Positions(e) == IF e \in NoDef THEN {} ELSE DedupeInstancesByIid(insts[Target[e]])

\* One pool.add of the fan-out, a unit or, after an enrichment's last unit, its
\* marker.  Adding a node twice throws out of the run.
AddUnit(m) ==
  /\ m \in live /\ pc[m] = "fan"
  /\ \E e \in Fannable(m) : \E p \in Positions(e) :
       LET u == <<e, insts[m][p]>> IN
       /\ <<e, p>> \notin added
       /\ added' = added \cup {<<e, p>>}
       /\ IF Pool!Duplicate(u)
          THEN Pool!RunFail(m) /\ pc' = [pc EXCEPT ![m] = "dup"]
          ELSE Pool!Add(u, UnitDeps(e, u[2]), FALSE) /\ UNCHANGED pc
  /\ UNCHANGED <<result, insts, kvVars, down, restarts>>

AddMarker(m) ==
  /\ m \in live /\ pc[m] = "fan"
  /\ \E e \in Fannable(m) :
       /\ \A p \in Positions(e) : <<e, p>> \in added
       /\ Pool!Add(e, {<<e, insts[m][p]>> : p \in Positions(e)}, TRUE)
  /\ UNCHANGED <<runVars, kvVars, down, restarts>>

EndFanOut(m) ==
  /\ m \in live /\ pc[m] = "fan"
  /\ \A e \in PerInstOf(m) : status[e] # "declared"
  /\ Pool!RunOk(m)
  /\ pc' = [pc EXCEPT ![m] = "done"]
  /\ UNCHANGED <<result, insts, added, kvVars, down, restarts>>

\* The fan-out's own KV reads, the instances and then each enrichment's
\* definition, are outside every step: one that rejects fails the mark's run,
\* unretried.
ReadFails(m) ==
  /\ m \in live /\ PerInstOf(m) # {}
  /\ \/ pc[m] = "end"
     \/ pc[m] = "fan" /\ \E e \in Fannable(m) : \A p \in Positions(e) : <<e, p>> \notin added
  /\ Pool!RunFail(m)
  /\ pc' = [pc EXCEPT ![m] = "unread"]
  /\ UNCHANGED <<result, insts, added, kvVars, down, restarts>>

-----------------------------------------------------------------------------
(* The environment.                                                         *)

\* The sentinel is shared with the queue consumer, and lapses on its own.
SentinelRises == ~ down /\ down' = TRUE /\ UNCHANGED <<poolVars, runVars, kvVars, restarts>>
SentinelFalls == down /\ down' = FALSE /\ UNCHANGED <<poolVars, runVars, kvVars, restarts>>

\* Somebody else serves the same daf: a bypassing /api/run or an edit rewrites a
\* mark's entry, and a location's KV may still answer with what was there before
\* the last write.
Rewrite(m) ==
  /\ m \in Movable /\ drain = "open"
  /\ \E k \in {Key(m), InstancesKey(m)}, l \in Outputs[m] \cup {None} : kv' = [kv EXCEPT ![k] = l]
  /\ moved' = moved \cup {m}
  /\ UNCHANGED <<poolVars, runVars, down, restarts>>

\* [defect] the fan-out's progress outlives the pool it described
Restart_KeepsAdded ==
  /\ restarts < MaxRestarts /\ drain = "open"
  /\ restarts' = restarts + 1
  /\ status' = StatusAtDrain /\ gate' = GateAtDrain
  /\ group' = {} /\ live' = {} /\ inFlight' = 0 /\ failure' = None /\ drain' = "none"
  /\ pc' = [n \in StepNode |-> "idle"]
  /\ insts' = [m \in Mark |-> <<>>]
  /\ UNCHANGED <<result, added, kvVars, down>>

\* The orchestrator's isolate dies: step results and the cache survive, and the
\* generations in flight may or may not have written their marks' entries.
Restart ==
  /\ restarts < MaxRestarts /\ drain = "open"
  /\ restarts' = restarts + 1
  /\ RunMarks(UNION {(ReadsOf[n] \cup {n}) \cap Mark : n \in {x \in StepNode : pc[x] = "gen"}})
  /\ status' = StatusAtDrain /\ gate' = GateAtDrain
  /\ group' = {} /\ live' = {} /\ inFlight' = 0 /\ failure' = None /\ drain' = "none"
  /\ pc' = [n \in StepNode |-> "idle"]
  /\ insts' = [m \in Mark |-> <<>>] /\ added' = {}
  /\ UNCHANGED <<result, moved, down>>

RunStep(n) ==
  \/ EnterStep(n) \/ GenerateOk(n) \/ GenerateUnavailable(n) \/ GenerateThrow(n) \/ EndRun(n)

FanOut(m) ==
  ReadInstances(m) \/ AddUnit(m) \/ AddMarker(m) \/ EndFanOut(m) \/ ReadFails(m)

Next ==
  \/ Drain
  \/ \E n \in StepNode : RunStep(n)
  \/ \E m \in Mark : FanOut(m)
  \/ SentinelRises \/ SentinelFalls
  \/ \E m \in Mark : Rewrite(m)
  \/ Restart

Spec == Init /\ [][Next]_vars

\* Steps end (the engine bounds their attempts and their time) and the event
\* loop runs what is ready: something that can go on does.
Progress == Drain \/ (\E n \in StepNode : RunStep(n)) \/ (\E m \in Mark : FanOut(m))

FairSpec == Spec /\ WF_vars(Progress)

-----------------------------------------------------------------------------
(* Properties.                                                              *)

Generating == {n \in StepNode : pc[n] = "gen"}

TypeOK ==
  /\ Pool!TypeOK
  /\ pc \in [StepNode -> {"idle", "gen", "end", "fan", "done", "threw", "unread", "dup"}]
  /\ result \in [StepNode -> {"none", "kept", "ended"}]
  /\ DOMAIN insts = Mark /\ \A m \in Mark : insts[m] \in Lists(m)
  /\ DOMAIN kv = Mark \X {"en", "he"}
  /\ \A m \in Mark, l \in {"en", "he"} : kv[<<m, l>>] \in Outputs[m] \cup {None}
  /\ moved \subseteq Mark /\ down \in BOOLEAN /\ restarts \in 0 .. MaxRestarts

\* A generation reads no artifact whose own step is still to come, so it never
\* regenerates inline what the pool would have produced: each read's step has
\* ended, or the read is a unit the fan-out was never given.  That its step has
\* ended does not make it cached: a step may be skipped, or end with nothing
\* written.  This is what declaring every id first, the fan-out inside the mark's
\* run, topoTiers and expandInlineDeps are for (index.ts:7628-7666).
InlineOnlyAfterStep ==
  \A n \in Generating : \A r \in ReadsOf[n] : result[r] # "none" \/ status[r] = "unknown"

\* The warm fails by a step's own error or by a KV read of a fan-out, never by
\* its scheduling: an instance listed twice does not become a duplicate node.
FailsOnlyByStepOrRead == failure # None => pc[failure] \in {"threw", "unread"}

\* When the Workflow finishes, every instance a fan-out read has had its step for
\* every enrichment that loads, and so has, where the mark's step left an entry
\* nobody else touched, every instance of that entry.
FinishedCoversInstances ==
  drain = "resolved" =>
    \A m \in Mark : \A e \in PerInstOf(m) \ NoDef :
      /\ \A i \in Elems(insts[m]) : result[<<e, i>>] # "none"
      /\ result[m] = "kept" /\ m \notin moved =>
           \A i \in Elems(kv[Key(m)]) : result[<<e, i>>] # "none"

\* A restart replays onto the same step names, for the marks whose entry nobody
\* else touched: nothing a step finished is left outside the graph that the
\* restarted orchestrator completes.
ReplayKeepsNames ==
  drain = "resolved" =>
    \A n \in StepNode : result[n] # "none" =>
      status[n] = "done" \/ (n \in Unit /\ Target[n[1]] \in moved)

\* The claim of index.ts:7656-7658, that the instance reads are deterministic, so
\* that every step name replays.
ReplayIsDeterministic ==
  drain = "resolved" => \A n \in StepNode : result[n] # "none" => status[n] = "done"

\* The Workflow ends, whatever its steps do.
WarmSettles == <>(drain \in Pool!Outcome)
=============================================================================
