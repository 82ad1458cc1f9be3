----------------------------- MODULE ClientQueue -----------------------------
(***************************************************************************)
(* The reader's request queue (client/enrichmentQueue.ts, RequestQueue) and  *)
(* the run each of its slots makes (client/runProducer.ts): one POST with    *)
(* retries on an edge error page, then polls of the run until it answers or  *)
(* the poll budget is spent.  pump() runs to its end before any other        *)
(* callback does; here each turn of its loop is a step, and `pumping' keeps  *)
(* every other callback out meanwhile.                                       *)
(***************************************************************************)
EXTENDS Integers, FiniteSets

CONSTANTS Tasks,        \* every task that is ever enqueued
          Priority,     \* Priority[t]: 0 high, 1 normal, 2 low
          Concurrency,  \* slots
          Reserve,      \* slots a low task may not take
          PostRetries,  \* backoffs the POST may spend on edge error pages
          PollCap       \* polls that fit in pollTimeoutMs

ASSUME TasksAssumption == IsFiniteSet(Tasks)
ASSUME PriorityAssumption == Priority \in [Tasks -> 0 .. 2]
ASSUME SlotsAssumption == Concurrency \in Nat /\ Reserve \in Nat
ASSUME RunAssumption == PostRetries \in Nat /\ PollCap \in Nat \ {0}

VARIABLES phase,      \* phase[t]: where t stands, see Phases
          seq,        \* seq[t]: the number t was pushed with
          nextSeq,    \* the queue's own counter
          active,     \* slots taken
          activeLow,  \* slots taken by low tasks
          aborted,    \* tasks whose signal has fired
          pumping,    \* pump()'s loop is running
          tries       \* tries[t]: POST retries, then polls, t has spent

qvars == <<phase, seq, nextSeq, active, activeLow, aborted, pumping, tries>>

Running == {"posting", "backoff", "sleeping", "polling"}
Phases  == {"new", "queued", "ended"} \union Running

IsLow(t) == Priority[t] >= 2

Waiting    == {t \in Tasks : phase[t] = "queued"}
InSlot     == {t \in Tasks : phase[t] \in Running}
InSlotLow  == {t \in InSlot : IsLow(t)}
InSlotFore == {t \in InSlot : ~IsLow(t)}

(* lowCap in pump(). *)
LowCap == IF Concurrency > Reserve THEN Concurrency - Reserve ELSE 0

(* The slots a low task never gets. *)
Kept == IF Reserve <= Concurrency THEN Reserve ELSE Concurrency

QInit ==
  /\ phase = [t \in Tasks |-> "new"]
  /\ seq = [t \in Tasks |-> 0] /\ nextSeq = 0
  /\ active = 0 /\ activeLow = 0
  /\ aborted = {} /\ pumping = FALSE
  /\ tries = [t \in Tasks |-> 0]

-----------------------------------------------------------------------------
Unsettled == {t \in Tasks : phase[t] \notin {"new", "ended"}}

(* enqueue() pushes and pumps.  Its caller may have aborted the tasks A of   *)
(* an earlier cohort, or of an earlier run of its effect, in the same turn.  *)
Enqueue(t, A) ==
  /\ ~pumping /\ phase[t] = "new"
  /\ phase' = [phase EXCEPT ![t] = "queued"]
  /\ seq' = [seq EXCEPT ![t] = nextSeq] /\ nextSeq' = nextSeq + 1
  /\ aborted' = aborted \union A
  /\ pumping' = TRUE
  /\ UNCHANGED <<active, activeLow, tries>>

(* The controller of A's tasks fires: a task in a slot gets an AbortError,   *)
(* one that still waits is not touched until pump() reaches it.              *)
Abort(A) ==
  /\ ~pumping
  /\ aborted' = aborted \union A
  /\ UNCHANGED <<phase, seq, nextSeq, active, activeLow, pumping, tries>>

Eligible_NoReserve == Waiting

Eligible == {t \in Waiting : ~(IsLow(t) /\ activeLow >= LowCap)}

Before(t, u) ==
  \/ Priority[t] < Priority[u]
  \/ Priority[t] = Priority[u] /\ seq[t] < seq[u]

Best_Lifo(t) ==
  t \in Eligible /\ \A u \in Eligible \ {t} :
    Priority[t] < Priority[u] \/ (Priority[t] = Priority[u] /\ seq[t] > seq[u])

Best(t) == t \in Eligible /\ \A u \in Eligible \ {t} : Before(t, u)

(* A turn of the loop that gives a slot. *)
Start(t) ==
  /\ pumping /\ active < Concurrency
  /\ Best(t) /\ t \notin aborted
  /\ phase' = [phase EXCEPT ![t] = "posting"]
  /\ active' = active + 1
  /\ activeLow' = IF IsLow(t) THEN activeLow + 1 ELSE activeLow
  /\ UNCHANGED <<seq, nextSeq, aborted, pumping, tries>>

(* A turn that drops a task aborted while it waited, at no cost in slots. *)
Drop(t) ==
  /\ pumping /\ active < Concurrency
  /\ Best(t) /\ t \in aborted
  /\ phase' = [phase EXCEPT ![t] = "ended"]
  /\ UNCHANGED <<seq, nextSeq, active, activeLow, aborted, pumping, tries>>

PumpEnds ==
  /\ pumping
  /\ active >= Concurrency \/ Eligible = {}
  /\ pumping' = FALSE
  /\ UNCHANGED <<phase, seq, nextSeq, active, activeLow, aborted, tries>>

Release_NoPump(t) ==
  /\ phase' = [phase EXCEPT ![t] = "ended"]
  /\ active' = active - 1
  /\ activeLow' = IF IsLow(t) THEN activeLow - 1 ELSE activeLow
  /\ UNCHANGED <<seq, nextSeq, aborted, tries, pumping>>

Release_KeepsLow(t) ==
  /\ phase' = [phase EXCEPT ![t] = "ended"]
  /\ active' = active - 1
  /\ pumping' = TRUE
  /\ UNCHANGED <<seq, nextSeq, activeLow, aborted, tries>>

-----------------------------------------------------------------------------
(* done(): the slot is given back and the queue pumped. *)
Release(t) ==
  /\ phase' = [phase EXCEPT ![t] = "ended"]
  /\ active' = active - 1
  /\ activeLow' = IF IsLow(t) THEN activeLow - 1 ELSE activeLow
  /\ pumping' = TRUE
  /\ UNCHANGED <<seq, nextSeq, aborted, tries>>

At(t, p) == ~pumping /\ phase[t] = p /\ t \notin aborted

MoveOn(t, p, n) ==
  /\ phase' = [phase EXCEPT ![t] = p]
  /\ tries' = [tries EXCEPT ![t] = n]
  /\ UNCHANGED <<seq, nextSeq, active, activeLow, aborted, pumping>>

(* The POST, or a poll, settles the run: ok, an error or a budget pause, a    *)
(* network failure, the last backoff or the poll budget spent.               *)
RunEnds(t) == (At(t, "posting") \/ At(t, "polling")) /\ Release(t)

(* 202 pending with a runId: poll it. *)
PostPending(t) == At(t, "posting") /\ MoveOn(t, "sleeping", 0)

(* A body that is no JSON: retried after a backoff while any is left. *)
PostRetried(t) ==
  /\ At(t, "posting") /\ tries[t] < PostRetries
  /\ MoveOn(t, "backoff", tries[t] + 1)

BackoffOver(t) == At(t, "backoff") /\ MoveOn(t, "posting", tries[t])

PollDue(t) == At(t, "sleeping") /\ MoveOn(t, "polling", tries[t])

(* Still pending, or no JSON: the job may be running, so poll again. *)
PollAgain(t) ==
  /\ At(t, "polling") /\ tries[t] + 1 < PollCap
  /\ MoveOn(t, "sleeping", tries[t] + 1)

(* fetch and sleep reject when the signal fires. *)
AbortLands(t) ==
  /\ ~pumping /\ phase[t] \in Running /\ t \in aborted
  /\ Release(t)

Steps(t) ==
  \/ RunEnds(t) \/ AbortLands(t)
  \/ PostPending(t) \/ PostRetried(t) \/ BackoffOver(t)
  \/ PollDue(t) \/ PollAgain(t)

Pump == PumpEnds \/ \E t \in Tasks : Start(t) \/ Drop(t)

QNext ==
  \/ \E A \in SUBSET Unsettled : Abort(A) \/ \E t \in Tasks : Enqueue(t, A)
  \/ Pump
  \/ \E t \in Tasks : Steps(t)

(* A pump runs on; a backoff, a sleep and a request end (the browser gives   *)
(* up on a dead connection).  Nobody has to enqueue or abort.                *)
QFairness == WF_qvars(Pump) /\ \A t \in Tasks : WF_qvars(Steps(t))

QSpec == QInit /\ [][QNext]_qvars
QFairSpec == QSpec /\ QFairness

-----------------------------------------------------------------------------
QTypeOK ==
  /\ phase \in [Tasks -> Phases]
  /\ seq \in [Tasks -> Nat] /\ nextSeq \in Nat
  /\ active \in Nat /\ activeLow \in Nat
  /\ aborted \in SUBSET Tasks
  /\ pumping \in BOOLEAN
  /\ tries \in [Tasks -> Nat]

(* The counters are the slots taken. *)
SlotsExact ==
  /\ active = Cardinality(InSlot)
  /\ activeLow = Cardinality(InSlotLow)

(* No more runs than slots, and background work leaves the reserve alone     *)
(* whatever mix of ends, aborts and drops came before (the memory limit that *)
(* MarkEnrichmentCards.tsx:221-230 sets the concurrency for).                *)
ReserveHeld ==
  /\ Cardinality(InSlot) <= Concurrency
  /\ Cardinality(InSlotLow) <= Concurrency - Kept

(* What the reader asked for never waits behind background work: while it    *)
(* waits every slot is taken, and the reserved ones by such work.            *)
ForegroundWaitsForForeground ==
  (~pumping /\ \E t \in Waiting : ~IsLow(t)) =>
    /\ Cardinality(InSlot) = Concurrency
    /\ Cardinality(InSlotFore) >= Kept

(* Within a tier tasks leave the queue in the order they were pushed. *)
FifoWithinTier ==
  \A t, u \in Tasks :
    (/\ phase[u] = "queued" /\ phase[t] \notin {"new", "queued"}
     /\ Priority[t] = Priority[u]) => seq[t] < seq[u]

(* Whatever is enqueued settles, a background task too, though the server    *)
(* answers "pending" for ever and the tasks before it are aborted.           *)
Settles == \A t \in Tasks : phase[t] = "queued" ~> phase[t] = "ended"
=============================================================================
