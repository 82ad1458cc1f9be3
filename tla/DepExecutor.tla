----------------------------- MODULE DepExecutor -----------------------------
(***************************************************************************)
(* What the daf-warm Workflow relies on its scheduler for, with no queue,   *)
(* no counter, no scan and no markers: an executor of a growing dependency  *)
(* graph.  DagPool implements it (DagPool!Implements, proved in             *)
(* DagPoolProofs).                                                      *)
(***************************************************************************)
CONSTANTS
  Node,   \* the nodes a client may name
  Fits    \* the sets of runs that may be in flight together

VARIABLES
  known,    \* the nodes the client has named
  gate,     \* Node -> what must be done before the node may begin
  live,     \* the runs in flight
  done,     \* the nodes completed
  halted,   \* some run failed
  outcome   \* how drain() ended, "none" until it does

vars == <<known, gate, live, done, halted, outcome>>

Init ==
  /\ known = {} /\ gate = [n \in Node |-> {}]
  /\ live = {} /\ done = {}
  /\ halted = FALSE /\ outcome = "none"

Ended == live \ live'
Begun == live' \ live
Fresh == Begun \cup (done' \ (done \cup live))

\* The order: what begins or completes by itself has its gates done, and the
\* gates of what has begun never change.
KeepsOrder ==
  /\ Begun \cap done = {}
  /\ \A n \in Fresh : gate'[n] \subseteq done'
  /\ \A n \in live \cup done : gate'[n] = gate[n]

\* Nothing known is forgotten, nothing done is undone, and a completed node is
\* not running.
KeepsProgress == known \subseteq known' /\ done \subseteq done' /\ live' \cap done' = {}

\* A run that ends without completing its node halts the executor for good.
HaltsOnFailure ==
  /\ halted' = (halted \/ ~ (Ended \subseteq done'))
  /\ halted' => Begun = {}

\* drain() ends once, with nothing in flight, and says how: "resolved" only if
\* everything known is done and no run failed.
Ends ==
  /\ live' = {}
  /\ outcome' = "failed" => halted'
  /\ outcome' = "resolved" => ~ halted' /\ known' \subseteq done'
  /\ outcome' = "stalled" => ~ halted' /\ ~ (known' \subseteq done')
  /\ outcome' \in {"failed", "resolved", "stalled"}

Next ==
  /\ outcome = "none"
  /\ live' \in Fits /\ \A m, n \in Ended : m = n
  /\ KeepsOrder /\ KeepsProgress /\ HaltsOnFailure
  /\ outcome' = "none" \/ Ends

Spec == Init /\ [][Next]_vars
=============================================================================
