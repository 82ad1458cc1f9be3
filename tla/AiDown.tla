------------------------------- MODULE AiDown -------------------------------
(***************************************************************************)
(* The provider-down circuit breaker (packages/talmud/src/worker/           *)
(* ai-down.ts, ai-credits.ts): one KV sentinel with a TTL, raised by a      *)
(* failure that classifies as AI-unavailable, lowered by a fresh success or *)
(* by a healthy balance.  KV has no compare-and-swap: every raise and every *)
(* clear is a read, a decision and a later write, with the others running   *)
(* in between, and any KV call may fail, its error swallowed.  Three kinds  *)
(* of actor use it: queue jobs, Workflow steps, and the route gate          *)
(* resolveAiDown, which also reads the account balance.                     *)
(***************************************************************************)
EXTENDS Integers

CONSTANTS
  Jobs, Steps, Gates,             \* one run of each: a queue job, a Workflow step, a gate call
  Transports,                     \* the transports of the models the jobs use
  GatewayHits,                    \* the AI Gateway may answer from its own cache
  Troubles,                       \* the hard reasons that may come into force
  HardTtl, SoftTtl, CreditsTtl,   \* 300 s, 60 s and 60 s, in ticks
  MaxNow,                         \* bound: the clock
  None, Unread

Proc == Jobs \cup Steps \cup Gates
Hard == {"credits", "key-limit"}              \* isHardAiPause
Soft == {"rate-limit", "daily-cap"}           \* "rate-limit" stands for 429 and 5xx
Time == 0 .. MaxNow

ASSUME TtlAssumption == {HardTtl, SoftTtl, CreditsTtl} \subseteq Nat \ {0}
ASSUME TroublesAssumption == Troubles \subseteq Hard
ASSUME BoundAssumption == MaxNow \in Nat
ASSUME ProcAssumption ==
  Jobs \cap Steps = {} /\ Jobs \cap Gates = {} /\ Steps \cap Gates = {}
ASSUME HitsAssumption == GatewayHits \in BOOLEAN

VARIABLES
  now,
  trouble,        \* the hard reasons OpenRouter refuses for at the moment
  funded, broke,  \* history: the latest time there was credit, there was none
  absent,         \* history: the hard reasons not in force at some time since the sentinel rose
  sentinel,       \* KV ai-down:v1
  row,            \* KV ai-credits:v1, the last balance read
  pc, began,
  reason,         \* what the failure being noted classified as
  seen,           \* what the note or clear under way has read; Unread: the read failed
  cutoff,         \* the clear's startedAtMs
  down, bal       \* a gate's two reads: the sentinel and the balance

world    == <<now, trouble, funded, broke>>
kv       == <<sentinel, absent, row>>
locals   == <<began, reason, seen, cutoff>>
gateVars == <<down, bal>>
vars     == <<world, kv, pc, locals, gateVars>>

\* UNKNOWN_CREDITS: what a probe without an answer returns.
Unknown == [out |-> FALSE, at |-> None]

Init ==
  /\ now = 0
  /\ trouble \in SUBSET Troubles
  /\ funded = (IF "credits" \in trouble THEN -1 ELSE 0)
  /\ broke = (IF "credits" \in trouble THEN 0 ELSE -1)
  /\ sentinel = None /\ absent = {}
  /\ row \in {None, [out |-> "credits" \in trouble, at |-> 0, until |-> CreditsTtl]}
  /\ pc = [p \in Proc |-> "idle"]
  /\ began = [p \in Proc |-> 0]
  /\ reason = [p \in Proc |-> None]
  /\ seen = [p \in Proc |-> None]
  /\ cutoff = [p \in Proc |-> 0]
  /\ down = [g \in Gates |-> Unread]
  /\ bal = [g \in Gates |-> Unread]

Goto(p, label) == pc' = [pc EXCEPT ![p] = label]

-----------------------------------------------------------------------------
(* The world: the clock and the provider.                                   *)

Unexpired(entry, t) == IF entry # None /\ t < entry.until THEN entry ELSE None

\* A tick is half a minute or a minute: a KV call never spans one, and the
\* balance probe, aborted after 2.5 s, spans at most one.
AtRest(p) ==
  \/ pc[p] \in {"idle", "running", "done", "open", "refused"}
  \/ pc[p] = "probing" /\ down[p] # Unread /\ bal[p] # Unread /\ bal[p].at = now

Tick ==
  /\ now < MaxNow
  /\ \A p \in Proc : AtRest(p)
  /\ now' = now + 1
  /\ funded' = (IF "credits" \in trouble THEN funded ELSE now + 1)
  /\ broke' = (IF "credits" \in trouble THEN now + 1 ELSE broke)
  /\ sentinel' = Unexpired(sentinel, now + 1)
  /\ absent' = (IF sentinel' = None THEN {} ELSE absent)
  /\ row' = Unexpired(row, now + 1)
  /\ UNCHANGED <<trouble, pc, locals, gateVars>>

TroubleStarts(r) ==
  /\ r \notin trouble
  /\ trouble' = trouble \cup {r}
  /\ broke' = (IF r = "credits" THEN now ELSE broke)
  /\ UNCHANGED <<now, funded, kv, pc, locals, gateVars>>

TroubleEnds(r) ==
  /\ r \in trouble
  /\ trouble' = trouble \ {r}
  /\ funded' = (IF r = "credits" THEN now ELSE funded)
  /\ absent' = (IF sentinel = None THEN {} ELSE absent \cup {r})
  /\ UNCHANGED <<now, broke, sentinel, row, pc, locals, gateVars>>

-----------------------------------------------------------------------------
(* Jobs and steps.                                                          *)

\* processEnrichmentJob takes t0.  (A job the consumer's own gate skips never
\* touches the breaker again and is left out.)
StartJob(j) ==
  /\ pc[j] = "idle"
  /\ Goto(j, "running")
  /\ began' = [began EXCEPT ![j] = now]
  /\ UNCHANGED <<world, kv, reason, seen, cutoff, gateVars>>

\* runStep: a standing sentinel, of any reason, skips the step; readAiDown takes a
\* get that fails for no sentinel.
StartStep(s) ==
  /\ pc[s] = "idle"
  /\ \E read \in {sentinel, None} : Goto(s, IF read = None THEN "running" ELSE "done")
  /\ UNCHANGED <<world, kv, locals, gateVars>>

\* OpenRouter serves only while nothing hard is in force.  Workers AI has no part
\* in its balance or its key, and an answer from the gateway's cache, whose
\* transport is "openrouter-gateway" all the same, does not reach OpenRouter.
CanServe(transport, hit) ==
  /\ hit => transport = "openrouter-gateway"
  /\ transport = "openrouter-gateway" /\ ~hit => trouble = {}

LlmTransports == {"openrouter-gateway", "workers-ai"}

\* A result by an LLM transport lowers the breaker, gateway_hit or not; one of a
\* deterministic producer or of the canonical cache does not.
SucceedJob(j, transport, hit) ==
  /\ pc[j] = "running"
  /\ CanServe(transport, hit)
  /\ transport \in LlmTransports /\ ~hit => now > began[j]     \* a model call takes time
  /\ Goto(j, IF transport \in LlmTransports THEN "clearRead" ELSE "done")
  /\ cutoff' = [cutoff EXCEPT ![j] = began[j]]
  /\ UNCHANGED <<world, kv, began, reason, seen, gateVars>>

SucceedStep(s) ==
  /\ pc[s] = "running"
  /\ Goto(s, "done")
  /\ UNCHANGED <<world, kv, locals, gateVars>>

\* The provider refuses, or answers 429 or 5xx.
Fail(p, r) ==
  /\ pc[p] = "running"
  /\ r \in trouble \cup {"rate-limit"}
  /\ Goto(p, "noteRead")
  /\ reason' = [reason EXCEPT ![p] = r]
  /\ UNCHANGED <<world, kv, began, seen, cutoff, gateVars>>

\* runLLM's own budget gate throws BudgetPausedError.  The consumer tests for
\* it before it classifies; a Workflow step classifies whatever it catches.
BudgetPausedJob(j) ==
  /\ pc[j] = "running"
  /\ Goto(j, "done")
  /\ UNCHANGED <<world, kv, locals, gateVars>>

BudgetPausedStep(s) ==
  /\ pc[s] = "running"
  /\ Goto(s, "noteRead")
  /\ reason' = [reason EXCEPT ![s] = "daily-cap"]
  /\ UNCHANGED <<world, kv, began, seen, cutoff, gateVars>>

-----------------------------------------------------------------------------
(* noteAiDown and clearAiDown, for whoever calls them.                      *)

After(p) == IF p \notin Gates THEN "done"
            ELSE IF pc[p] \in {"noteRead", "notePut"} THEN "refused" ELSE "open"

Standing(read) == read \notin {None, Unread}

\* Mutant: a hard failure writes whatever stands.
Upgrades_AnyHard(r, existing) == Standing(existing) /\ r \in Hard

Upgrades(r, existing) == Standing(existing) /\ r \in Hard /\ existing.reason \notin Hard

NoteRead(p) ==
  /\ pc[p] = "noteRead"
  /\ \E read \in {sentinel, Unread} :
       /\ seen' = [seen EXCEPT ![p] = read]
       /\ Goto(p, IF ~Standing(read) \/ Upgrades(reason[p], read) THEN "notePut" ELSE After(p))
  /\ UNCHANGED <<world, kv, began, reason, cutoff, gateVars>>

NotePut(p) ==
  /\ pc[p] = "notePut"
  /\ sentinel' = [reason |-> reason[p], at |-> now,
                  until |-> now + (IF reason[p] \in Hard THEN HardTtl ELSE SoftTtl)]
  /\ absent' = Hard \ trouble
  /\ Goto(p, After(p))
  /\ UNCHANGED <<world, row, locals, gateVars>>

\* Mutant: no timestamp check.
Disproven_Always(existing, startedAt) == Standing(existing)

Disproven(existing, startedAt) == Standing(existing) /\ existing.at <= startedAt

ClearRead(p) ==
  /\ pc[p] = "clearRead"
  /\ \E read \in {sentinel, Unread} :
       /\ seen' = [seen EXCEPT ![p] = read]
       /\ Goto(p, IF Disproven(read, cutoff[p]) THEN "clearDelete" ELSE After(p))
  /\ UNCHANGED <<world, kv, began, reason, cutoff, gateVars>>

ClearDelete(p) ==
  /\ pc[p] = "clearDelete"
  /\ sentinel' = None /\ absent' = {}
  /\ Goto(p, After(p))
  /\ UNCHANGED <<world, row, locals, gateVars>>

\* The put or the delete fails: both are best-effort, the caller goes on.
WriteFails(p) ==
  /\ pc[p] \in {"notePut", "clearDelete"}
  /\ Goto(p, After(p))
  /\ UNCHANGED <<world, kv, locals, gateVars>>

-----------------------------------------------------------------------------
(* resolveAiDown: the sentinel and the balance are read in parallel.        *)

BeginGate(g) ==
  /\ pc[g] = "idle"
  /\ Goto(g, "reading")
  /\ began' = [began EXCEPT ![g] = now]
  /\ UNCHANGED <<world, kv, reason, seen, cutoff, gateVars>>

ReadDown(g) ==
  /\ pc[g] \in {"reading", "probing"} /\ down[g] = Unread
  /\ \E read \in {sentinel, None} : down' = [down EXCEPT ![g] = read]
  /\ UNCHANGED <<world, kv, pc, locals, bal>>

\* getCreditsState: the cached row when there is one to be read.
ReadBalance(g) ==
  /\ pc[g] = "reading" /\ bal[g] = Unread
  /\ \/ row # None
          /\ bal' = [bal EXCEPT ![g] = [out |-> row.out, at |-> row.at]] /\ UNCHANGED pc
     \/ Goto(g, "probing") /\ UNCHANGED bal
  /\ UNCHANGED <<world, kv, locals, down>>

\* The provider answers the probe with the balance of this moment, ...
ProbeAnswered(g) ==
  /\ pc[g] = "probing" /\ bal[g] = Unread
  /\ bal' = [bal EXCEPT ![g] = [out |-> "credits" \in trouble, at |-> now]]
  /\ UNCHANGED <<world, kv, pc, locals, down>>

\* ... and the answer, when it arrives, is stamped with the time of its arrival
\* and cached, if the put succeeds.
ProbeLands(g) ==
  /\ pc[g] = "probing" /\ bal[g] # Unread
  /\ bal' = [bal EXCEPT ![g].at = now]
  /\ row' \in {row, [out |-> bal[g].out, at |-> now, until |-> now + CreditsTtl]}
  /\ Goto(g, "reading")
  /\ UNCHANGED <<world, sentinel, absent, locals, down>>

ProbeFails(g) ==
  /\ pc[g] = "probing"
  /\ bal' = [bal EXCEPT ![g] = Unknown]
  /\ Goto(g, "reading")
  /\ UNCHANGED <<world, kv, locals, down>>

\* Mutant: a top-up lowers nothing.
ClearsByBalance_Never(d, b) == FALSE

ClearsByBalance(d, b) ==
  ~b.out /\ b.at # None /\ d # None /\ d.reason = "credits" /\ d.at <= b.at

Resolve(g) ==
  /\ pc[g] = "reading" /\ down[g] # Unread /\ bal[g] # Unread
  /\ Goto(g, IF bal[g].out
               THEN IF down[g] = None THEN "noteRead" ELSE "refused"
               ELSE IF ClearsByBalance(down[g], bal[g]) THEN "clearRead"
               ELSE IF down[g] = None THEN "open" ELSE "refused")
  /\ reason' = [reason EXCEPT ![g] = IF bal[g].out /\ down[g] = None THEN "credits" ELSE @]
  /\ cutoff' = [cutoff EXCEPT ![g] = IF ClearsByBalance(down[g], bal[g]) THEN bal[g].at ELSE @]
  /\ UNCHANGED <<world, kv, began, seen, gateVars>>

-----------------------------------------------------------------------------
KvSteps(p) ==
  NoteRead(p) \/ NotePut(p) \/ ClearRead(p) \/ ClearDelete(p) \/ WriteFails(p)

JobSteps(j) ==
  \/ \E t \in Transports, hit \in {FALSE, GatewayHits} : SucceedJob(j, t, hit)
  \/ \E r \in Hard \cup {"rate-limit"} : Fail(j, r)
  \/ BudgetPausedJob(j)
  \/ KvSteps(j)

StepSteps(s) ==
  \/ SucceedStep(s)
  \/ \E r \in Hard \cup {"rate-limit"} : Fail(s, r)
  \/ BudgetPausedStep(s)
  \/ KvSteps(s)

GateSteps(g) ==
  \/ ReadDown(g) \/ ReadBalance(g) \/ ProbeAnswered(g) \/ ProbeLands(g) \/ ProbeFails(g)
  \/ Resolve(g) \/ KvSteps(g)

Next ==
  \/ Tick
  \/ \E r \in Troubles : TroubleStarts(r) \/ TroubleEnds(r)
  \/ \E j \in Jobs : StartJob(j) \/ JobSteps(j)
  \/ \E s \in Steps : StartStep(s) \/ StepSteps(s)
  \/ \E g \in Gates : BeginGate(g) \/ GateSteps(g)

Spec == Init /\ [][Next]_vars

-----------------------------------------------------------------------------
(* Properties.                                                              *)

\* Every variable stays in its type.
Pc == {"idle", "running", "noteRead", "notePut", "clearRead", "clearDelete",
       "reading", "probing", "done", "open", "refused"}
Sentinel == [reason : Hard \cup Soft, at : Time, until : Nat]
Reading  == [out : BOOLEAN, at : Time \cup {None}]
TypeOK ==
  /\ now \in Time /\ trouble \subseteq Hard
  /\ funded \in Time \cup {-1} /\ broke \in Time \cup {-1} /\ absent \subseteq Hard
  /\ sentinel \in Sentinel \cup {None}
  /\ row \in [out : BOOLEAN, at : Time, until : Nat] \cup {None}
  /\ pc \in [Proc -> Pc] /\ began \in [Proc -> Time] /\ cutoff \in [Proc -> Time]
  /\ reason \in [Proc -> Hard \cup Soft \cup {None}]
  /\ seen \in [Proc -> Sentinel \cup {None, Unread}]
  /\ down \in [Gates -> Sentinel \cup {None, Unread}]
  /\ bal \in [Gates -> Reading \cup {Unread}]

\* A success, or a balance, lowers only what it has outlived: a sentinel that rose
\* during the run, after the balance was read, is "newer information and is left
\* standing" (clearAiDown).  KV has no CAS, so one may still go that rose in this
\* very tick, between the clear's read and its delete.
ClearSparesMidRun ==
  [][\A p \in Proc : ClearDelete(p) /\ sentinel # None
                        => sentinel.at <= cutoff[p] \/ sentinel.at = now]_vars

\* A standing sentinel is replaced only by an upgrade from soft to hard ("at most
\* one write per TTL window EXCEPT to upgrade", noteAiDown), unless it rose in this
\* very tick, between a writer's read and its put, or the writer's read failed: so
\* a softer failure masks a standing hard one, or renews its TTL, in no other way.
StandingSentinelKept ==
  [][\A p \in Proc : NotePut(p) /\ sentinel # None /\ sentinel.at < now
                        => \/ seen[p] = Unread
                           \/ reason[p] \in Hard /\ sentinel.reason \notin Hard]_vars

\* The gate knows an empty account before it spawns a doomed generation: one
\* that lets a run through on a known balance began at most one credits TTL
\* after a moment when there was credit (ai-credits.ts).
AdmitsWithinTtl ==
  \A g \in Gates : pc[g] = "open" /\ bal[g] # Unknown
                     => funded >= began[g] - CreditsTtl

\* A top-up recovers within the cache TTL and does not wait out the sentinel: a
\* gate with a known balance that refuses for credits began at most one TTL
\* after they were last missing (ai-credits.ts).
RefusesWithinTtl ==
  \A g \in Gates :
    /\ pc[g] = "refused" /\ bal[g] # Unknown
    /\ bal[g].out \/ (down[g] # None /\ down[g].reason = "credits")
    => broke >= began[g] - CreditsTtl

\* How stale a gate with a known balance can be, in either direction.
GateKnowsBalance == AdmitsWithinTtl /\ RefusesWithinTtl

\* "LLM transports whose fresh success proves the provider recovered"
\* (ai-down.ts:71): a hard sentinel that a success deletes, and that did not rise in
\* this very tick, had its cause absent at some time since it rose.
ClearsOnlyDisproved ==
  [][\A p \in Jobs : ClearDelete(p) /\ sentinel # None /\ sentinel.reason \in Hard
                        => sentinel.reason \in absent \/ sentinel.at = now]_vars

\* The same of the gate, which clears by balance: "ONLY when the balance was
\* observed at/after the sentinel rose" (ai-credits.ts:130-131).
BalanceClearsOnlyDisproved ==
  [][\A g \in Gates : ClearDelete(g) /\ sentinel # None /\ sentinel.reason \in Hard
                         => sentinel.reason \in absent \/ sentinel.at = now]_vars

\* noteAiDown "upgrades a soft blip to a hard spend pause (but never
\* downgrades)" (tests/ai-down.test.ts).
NeverDowngrades ==
  [][sentinel # None /\ sentinel.reason \in Hard /\ sentinel' # None
       => sentinel'.reason \in Hard]_vars

\* The timestamp check "is what keeps a racing clear from wiping a just-raised
\* hard pause" (clearAiDown).
ClearSparesNewer ==
  [][\A p \in Proc : ClearDelete(p) /\ sentinel # None /\ sentinel.reason \in Hard
                       => sentinel.at <= cutoff[p]]_vars

\* "Budget caps (daily/hourly) never reach the sentinel" (isHardAiPause).
NoBudgetCapInSentinel == sentinel # None => sentinel.reason # "daily-cap"
=============================================================================
