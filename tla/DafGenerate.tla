----------------------------- MODULE DafGenerate -----------------------------
(***************************************************************************)
(* startDafGeneration (worker/routes/daf-generate.ts): the budget gate, the *)
(* breaker, and the single flight kept by a KV sentinel.  KV has no         *)
(* compare-and-set, so the read of the sentinel, the creation of the        *)
(* Workflow and the write of the sentinel are three steps of a request, and *)
(* other requests run between them.  What the started Workflow does is      *)
(* module DafWarm; who asks is module DafOpen, beside which a module can    *)
(* extend this one: hence the G of its names.                               *)
(***************************************************************************)
EXTENDS Naturals

CONSTANTS Pages,     \* the pages (with their language)
          Requests,  \* one id per POST /api/daf-generate
          NoPage

VARIABLES sentinel,    \* sentinel[d]: dafgen:v1:... stands in KV
          req,         \* the requests
          started,     \* Workflows created for d since its sentinel last expired (2: several)
          excused      \* two first hits overlapped, or a sentinel write failed

gvars == <<sentinel, req, started, excused>>

Request == [st : {"idle", "gate", "get", "create", "put", "yes", "no"},
            daf : Pages \union {NoPage}]

GTypeOK ==
  /\ sentinel \in [Pages -> BOOLEAN]
  /\ req \in [Requests -> Request]
  /\ started \in [Pages -> 0 .. 2]
  /\ excused \in [Pages -> BOOLEAN]

GInit ==
  /\ sentinel = [d \in Pages |-> FALSE]
  /\ req = [r \in Requests |-> [st |-> "idle", daf |-> NoPage]]
  /\ started = [d \in Pages |-> 0]
  /\ excused = [d \in Pages |-> FALSE]

-----------------------------------------------------------------------------
flight == <<sentinel, started, excused>>

Starts(d) == started' = [started EXCEPT ![d] = IF @ = 0 THEN 1 ELSE 2]

MoveTo(r, st) == req' = [req EXCEPT ![r].st = st]

(* A request for d reaches the worker; an answered one stands for a new one. *)
Ask(r, d) ==
  /\ req[r].st \in {"idle", "yes", "no"}
  /\ req' = [req EXCEPT ![r] = [st |-> "gate", daf |-> d]]
  /\ UNCHANGED flight

(* checkBudget, then resolveAiDown: what they answer changes at any time, for *)
(* reasons that are no part of this module (see SpendLedger and AiDown).      *)
Gate(r) ==
  /\ req[r].st = "gate"
  /\ \E st \in {"no", "get"} : MoveTo(r, st)
  /\ UNCHANGED flight

(* Others that have read no sentinel and written none are still under way. *)
Overlapping(r) ==
  \E q \in Requests \ {r} : req[q].daf = req[r].daf /\ req[q].st \in {"create", "put"}

ReadSentinel_Blind(r) ==
  /\ req[r].st = "get"
  /\ MoveTo(r, "create")
  /\ excused' = [excused EXCEPT ![req[r].daf] =
                   @ \/ (~sentinel[req[r].daf] /\ Overlapping(r))]
  /\ UNCHANGED <<sentinel, started>>

ReadSentinel(r) ==
  /\ req[r].st = "get"
  /\ MoveTo(r, IF sentinel[req[r].daf] THEN "yes" ELSE "create")
  /\ excused' = [excused EXCEPT ![req[r].daf] =
                   @ \/ (~sentinel[req[r].daf] /\ Overlapping(r))]
  /\ UNCHANGED <<sentinel, started>>

CreateWorkflow(r) ==
  /\ req[r].st = "create"
  /\ MoveTo(r, "put")
  /\ Starts(req[r].daf)
  /\ UNCHANGED <<sentinel, excused>>

(* The sentinel was written before the create, and is left when that fails. *)
CreateFails_SentinelLeft(r) ==
  /\ req[r].st = "create"
  /\ MoveTo(r, "no")
  /\ sentinel' = [sentinel EXCEPT ![req[r].daf] = TRUE]
  /\ UNCHANGED <<started, excused>>

CreateFails(r) ==
  /\ req[r].st = "create"
  /\ MoveTo(r, "no")
  /\ UNCHANGED flight

PutSentinel(r) ==
  /\ req[r].st = "put"
  /\ MoveTo(r, "yes")
  /\ sentinel' = [sentinel EXCEPT ![req[r].daf] = TRUE]
  /\ UNCHANGED <<started, excused>>

(* The write throws after the Workflow was created: the caller is told no. *)
PutFails(r) ==
  /\ req[r].st = "put"
  /\ MoveTo(r, "no")
  /\ excused' = [excused EXCEPT ![req[r].daf] = TRUE]
  /\ UNCHANGED <<sentinel, started>>

(* expirationTtl: 900, whatever the Workflow is doing by then. *)
SentinelExpires(d) ==
  /\ sentinel[d]
  /\ sentinel' = [sentinel EXCEPT ![d] = FALSE]
  /\ started' = [started EXCEPT ![d] =
                   IF \E r \in Requests : req[r].daf = d /\ req[r].st = "put" THEN 1 ELSE 0]
  /\ excused' = [excused EXCEPT ![d] =
                   \E r \in Requests : req[r].daf = d /\ req[r].st \in {"create", "put"}]
  /\ UNCHANGED req

-----------------------------------------------------------------------------
(* POST /api/admin/workflow-warm creates a Workflow and no sentinel. *)
AdminStart(d) ==
  /\ Starts(d)
  /\ excused' = [excused EXCEPT ![d] = TRUE]
  /\ UNCHANGED <<sentinel, req>>

Handle(r) ==
  \/ Gate(r) \/ ReadSentinel(r)
  \/ CreateWorkflow(r) \/ CreateFails(r) \/ PutSentinel(r) \/ PutFails(r)

GNext ==
  \/ \E r \in Requests : Handle(r) \/ \E d \in Pages : Ask(r, d)
  \/ \E d \in Pages : SentinelExpires(d) \/ AdminStart(d)

GSpec == GInit /\ [][GNext]_gvars

-----------------------------------------------------------------------------
(* One sentinel window starts one Workflow, however many readers ask, unless *)
(* two requests were both between their read of the sentinel and their write *)
(* of it, or a write failed: the race daf-generate.ts:98-101 accepts, and    *)
(* nothing wider.                                                            *)
OneGeneration == \A d \in Pages : excused[d] \/ started[d] <= 1

(* A sentinel, which turns every later request away for 15 minutes, stands     *)
(* only over a Workflow that was created: no failure leaves a page locked.     *)
SentinelBacked == \A d \in Pages : sentinel[d] => started[d] # 0

(* The strengthening: which requests can be between their read and their write *)
(* in a window nothing excuses.                                                *)
UnderWay(d) == {r \in Requests : req[r].daf = d /\ req[r].st \in {"create", "put"}}

Window(d) ==
  \/ /\ started[d] = 0 /\ ~sentinel[d]
     /\ \A r \in UnderWay(d) : req[r].st = "create"
     /\ \A r, q \in UnderWay(d) : r = q
  \/ /\ started[d] = 1 /\ ~sentinel[d]
     /\ \E r \in Requests : UnderWay(d) = {r} /\ req[r].st = "put"
  \/ started[d] = 1 /\ sentinel[d] /\ UnderWay(d) = {}

Backed(r) == req[r].st = "put" => started[req[r].daf] # 0

Named(r) == req[r].st # "idle" => req[r].daf \in Pages

GInv ==
  /\ GTypeOK
  /\ SentinelBacked /\ \A r \in Requests : Backed(r) /\ Named(r)
  /\ \A d \in Pages : excused[d] \/ Window(d)
=============================================================================
