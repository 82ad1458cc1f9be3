------------------------------- MODULE DagPool -------------------------------
(***************************************************************************)
(* createDagPool (packages/talmud/src/worker/workflow-warm.ts): the bounded *)
(* dependency scheduler the daf-warm Workflow pumps its steps through.      *)
(*                                                                          *)
(* Every handler of the pool runs to its end before another one starts (one *)
(* JavaScript isolate), so a handler is one action and the pump it calls is *)
(* part of it.  The pump scans the nodes in insertion order until a pass    *)
(* makes no progress.  What that scan leaves behind does not depend on the  *)
(* order, except for WHICH ready nodes take the free slots; that choice is  *)
(* left open here, so what holds of the model holds of every order.         *)
(***************************************************************************)
EXTENDS Integers, FiniteSets

CONSTANTS
  Node,     \* the node ids a client may name
  Limit,    \* the pool's width (STEP_CONCURRENCY)
  None      \* "no failure yet"

ASSUME LimitAssumption == Limit \in Nat \ {0}
ASSUME NodeAssumption  == IsFiniteSet(Node) /\ None \notin Node

VARIABLES
  status,    \* Node -> where the node is; "unknown": not in the Map yet
  gate,      \* Node -> the dependencies kept when the node was added
  group,     \* the nodes added without a run: completion markers
  live,      \* the nodes whose run has been called and has not settled
  inFlight,  \* the pool's counter
  failure,   \* the first node whose run rejected, or None
  drain      \* the promise drain() returned

vars == <<status, gate, group, live, inFlight, failure, drain>>

Status  == {"unknown", "declared", "pending", "running", "done"}
Outcome == {"resolved", "failed", "stalled"}

TypeOK ==
  /\ status \in [Node -> Status]
  /\ gate \in [Node -> SUBSET Node]
  /\ group \subseteq Node
  /\ live \subseteq Node
  /\ inFlight \in Nat
  /\ failure \in Node \cup {None}
  /\ drain \in {"none", "open"} \cup Outcome

Init ==
  /\ status = [n \in Node |-> "unknown"]
  /\ gate = [n \in Node |-> {}]
  /\ group = {}
  /\ live = {}
  /\ inFlight = 0
  /\ failure = None
  /\ drain = "none"

-----------------------------------------------------------------------------
(* The pump.                                                                *)

DoneIn(st) == {n \in Node : st[n] = "done"}

\* The nodes done once the scan has completed every marker it can: the least
\* set of pending markers that, with the nodes already done, leaves no marker
\* with all its gates done out.
Completed(st, gt, gr) ==
  LET C == {n \in gr : st[n] = "pending"}
      IsClosed(G) == \A n \in C : gt[n] \subseteq DoneIn(st) \cup G => n \in G
  IN  DoneIn(st) \cup {n \in C : \A G \in SUBSET C : IsClosed(G) => n \in G}

Settle(o) == drain' = IF drain \in Outcome THEN drain ELSE o

\* Nothing is left to wait for: every node the pool knows is done.
AllDone(st) == \A n \in Node : st[n] \in {"unknown", "done"}

\* A failure stops new starts.
Halted == failure' # None

\* pump() on the statuses st and the counter k, with the other variables
\* already primed; dr tells whether drain() has been called.
Pump(st, k, lv, dr) ==
  \/ /\ ~ dr
     /\ status' = st /\ live' = lv /\ inFlight' = k
     /\ UNCHANGED drain
  \/ /\ dr /\ Halted
     /\ status' = st /\ live' = lv /\ inFlight' = k
     /\ IF k = 0 THEN Settle("failed") ELSE Settle("open")
  \/ /\ dr /\ ~ Halted
     /\ LET dn == Completed(st, gate', group')
            ready == {n \in Node \ group' : st[n] = "pending" /\ gate'[n] \subseteq dn}
        IN \E S \in SUBSET ready :
             /\ S # {} => k + Cardinality(S) <= Limit
             /\ S = ready \/ k + Cardinality(S) >= Limit
             /\ status' = [n \in Node |-> IF n \in dn THEN "done"
                                          ELSE IF n \in S THEN "running" ELSE st[n]]
             /\ live' = lv \cup S
             /\ inFlight' = k + Cardinality(S)
     /\ IF inFlight' > 0 THEN Settle("open")
        ELSE IF AllDone(status') THEN Settle("resolved")
        ELSE Settle("stalled")

-----------------------------------------------------------------------------
(* The operations.                                                          *)

Declare(n) ==
  /\ status' = IF status[n] = "unknown" THEN [status EXCEPT ![n] = "declared"] ELSE status
  /\ UNCHANGED <<gate, group, live, inFlight, failure, drain>>

\* add() of a node that is already there throws, and changes nothing.
Duplicate(n) == status[n] \notin {"unknown", "declared"}

Add(n, deps, isGroup) ==
  /\ ~ Duplicate(n)
  /\ gate' = [gate EXCEPT ![n] = {d \in deps \ {n} : status[d] # "unknown"}]
  /\ group' = IF isGroup THEN group \cup {n} ELSE group
  /\ UNCHANGED failure
  /\ Pump([status EXCEPT ![n] = "pending"], inFlight, live, drain # "none")

Drain ==
  /\ drain = "none"
  /\ UNCHANGED <<gate, group, failure>>
  /\ Pump(status, inFlight, live, TRUE)

\* The run of n fulfils.
RunOk(n) ==
  /\ n \in live
  /\ UNCHANGED <<gate, group, failure>>
  /\ Pump([status EXCEPT ![n] = "done"], inFlight - 1, live \ {n}, drain # "none")

\* [defects] the rejection keeps its slot, or does not
\* pump, or completes its node
RunFail_KeepsSlot(n) ==
  /\ n \in live
  /\ failure' = IF failure = None THEN n ELSE failure
  /\ UNCHANGED <<gate, group>>
  /\ Pump(status, inFlight, live \ {n}, drain # "none")
RunFail_NoPump(n) ==
  /\ n \in live
  /\ failure' = IF failure = None THEN n ELSE failure
  /\ live' = live \ {n} /\ inFlight' = inFlight - 1
  /\ UNCHANGED <<status, gate, group, drain>>
RunFail_Done(n) ==
  /\ n \in live
  /\ failure' = IF failure = None THEN n ELSE failure
  /\ UNCHANGED <<gate, group>>
  /\ Pump([status EXCEPT ![n] = "done"], inFlight - 1, live \ {n}, drain # "none")

\* The run of n rejects: the node keeps its status, so nothing that depends on
\* it is ever ready.
RunFail(n) ==
  /\ n \in live
  /\ failure' = IF failure = None THEN n ELSE failure
  /\ UNCHANGED <<gate, group>>
  /\ Pump(status, inFlight - 1, live \ {n}, drain # "none")

\* A client that obeys the pool's contract: nodes are registered before drain()
\* or from inside a run.
MayRegister == drain = "none" \/ live # {}

Next ==
  \/ Drain
  \/ \E n \in Node :
       \/ MayRegister /\ Declare(n)
       \/ MayRegister /\ \E deps \in SUBSET Node, g \in BOOLEAN : Add(n, deps, g)
       \/ RunOk(n)
       \/ RunFail(n)

Spec == Init /\ [][Next]_vars

-----------------------------------------------------------------------------
(* Properties.                                                              *)

\* The counter the width check reads never drifts from the runs that are really
\* outstanding, and their number never exceeds the width: concurrent steps share
\* one isolate's memory, so the cap is a memory ceiling.
WidthCap == inFlight = Cardinality(live) /\ Cardinality(live) <= Limit

\* A node that has started or completed did so after everything it gates on.
StartedAfterDeps ==
  \A n \in Node : status[n] \in {"running", "done"} =>
    \A d \in gate[n] : status[d] = "done"

\* drain() fulfils only when everything declared or added is done: it never
\* reports a finished daf while a producer is missing.
ResolvedMeansDone ==
  drain = "resolved" => \A n \in Node : status[n] \in {"unknown", "done"}

\* An open drain always has a run whose end will pump again, so the Workflow
\* cannot hang on it.
OpenMeansLive == drain = "open" => live # {}

\* After a run has failed nothing starts any more.
NoStartAfterFailure == [][failure # None => live' \subseteq live]_vars

\* A free slot is never left idle while a node is ready, unless a run failed.
NoIdleSlot ==
  drain = "open" /\ failure = None /\ inFlight < Limit =>
    \A n \in Node \ group : status[n] = "pending" => \E d \in gate[n] : status[d] # "done"

\* The pool is an executor of its dependency graph: the abstract specification
\* knows no scan, no markers and no counter.
Abstract == INSTANCE DepExecutor WITH
  Fits    <- {S \in SUBSET Node : Cardinality(S) <= Limit},
  known   <- {n \in Node : status[n] # "unknown"},
  done    <- DoneIn(status),
  halted  <- failure # None,
  outcome <- IF drain \in Outcome THEN drain ELSE "none"

Implements == Abstract!Spec
=============================================================================
