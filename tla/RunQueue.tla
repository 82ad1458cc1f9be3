------------------------------ MODULE RunQueue ------------------------------
(***************************************************************************)
(* One section enrichment of one daf, run through the queue                 *)
(* (packages/talmud/src/worker/index.ts): POST /api/run answers from the    *)
(* cache, refuses, or enqueues a job; the queue consumer                    *)
(* (processEnrichmentJob) runs it and leaves a record under job:{runId};    *)
(* GET /api/run-status answers the poller from that record or, failing it,  *)
(* from the canonical cache key.  Deliveries can die between any two steps  *)
(* of the consumer.  The breaker is one cell here; AiDown has its detail.   *)
(***************************************************************************)
EXTENDS Integers

CONSTANTS
  Requests,      \* the requests of the clients, each posted once
  Background,    \* jobs enqueued by warms and crons: no poller
  Section,       \* the ranges that sections of one title have had
  SectionOf,     \* job -> the range it was asked for
  Mode,          \* request -> "plain", "explicit" (warm_experimental) or "bypass" (bypass_cache)
  Experimental,  \* the producer may be an experimental card
  CostPaused,    \* the producer may be in PAUSED_PRODUCERS
  Deliveries,    \* max_retries + 1
  Seconds,       \* the seconds in which a run id may be made
  MaxUpsets,     \* bound: changes of the cache from outside
  None

Job       == Requests \cup Background
ModeOf(j) == IF j \in Background THEN "plain" ELSE Mode[j]

ASSUME ModeAssumption == Mode \in [Requests -> {"plain", "explicit", "bypass"}]
ASSUME SectionAssumption == SectionOf \in [Job -> Section] /\ None \notin Section
ASSUME DeliveriesAssumption == Deliveries \in Nat \ {0}
ASSUME BoundsAssumption == MaxUpsets \in Nat /\ {Experimental, CostPaused} \subseteq BOOLEAN

VARIABLES
  upsets,
  entry,        \* the canonical cache entry: the section it is for, and the job that made it
  experimental, \* the producer is an experimental card
  previous,     \* the section of the entry under the previous cache_version
  paused,       \* the producer is in PAUSED_PRODUCERS
  down,         \* the ai-down sentinel: "up", "soft" or "hard"
  raisedSince,  \* the running jobs that began before it was last raised
  funds,        \* checkBudget(env).ok
  rid,          \* job -> its run id
  record,       \* run id -> what job:{runId} holds
  pc,           \* request -> where its POST and polling are
  answer,       \* request -> what its client was told
  at,           \* job -> where its delivery is
  tries,        \* job -> deliveries begun
  out,          \* job -> the payload its delivery will record
  wrote         \* history: the jobs whose output went to the cache

shared  == <<upsets, entry, previous, experimental, paused, down, raisedSince, funds>>
clients == <<pc, answer>>
queue   == <<rid, at, tries, out, wrote>>
vars    == <<shared, clients, queue, record>>

Running == {"started", "looking", "generating", "caching", "clearing", "reporting", "acking"}

-----------------------------------------------------------------------------
(* Run ids and payloads.                                                    *)

RunId == {"fresh", "cached", "warm"} \X Seconds

ASSUME ApartAssumption == Requests \cap Background = {} /\ None \notin Job /\ None \notin RunId

\* Mutant: the id leaves the cache mode out.
MakeRunId_NoMode(j, second) == <<"cached", second>>

\* makeRunId: for one producer, daf and title, the cache mode and the second.  The
\* instance id is the title's slug, so the range asked for is not in it.
MakeRunId(j, second) == <<IF ModeOf(j) = "bypass" THEN "fresh" ELSE "cached", second>>

Ok(range, by)  == [status |-> "ok", why |-> None, range |-> range, by |-> by]
Failed(why)    == [status |-> "error", why |-> why, range |-> None, by |-> None]
Told(via, p)   == [via |-> via, payload |-> p]

\* The entry is for the section this job was asked for.
Accepted(j, e) == e # None /\ e.range = SectionOf[j]

Init ==
  /\ upsets = 0
  /\ entry \in {None} \cup [range : Section, by : {None}]
  /\ previous \in {None} \cup Section
  /\ experimental \in {FALSE, Experimental}
  /\ paused \in {FALSE, CostPaused}
  /\ down = "up" /\ raisedSince = {}
  /\ funds = TRUE
  /\ rid = [j \in Job |-> None]
  /\ record = [i \in RunId |-> None]
  /\ pc = [r \in Requests |-> "idle"]
  /\ answer = [r \in Requests |-> None]
  /\ at = [j \in Job |-> "none"]
  /\ tries = [j \in Job |-> 0]
  /\ out = [j \in Job |-> None]
  /\ wrote = {}

-----------------------------------------------------------------------------
(* POST /api/run.                                                           *)

Bypass(j)       == ModeOf(j) = "bypass"
ExplicitWarm(j) == ModeOf(j) \in {"bypass", "explicit"}
SkipExperimentalWarm(r) == ~ExplicitWarm(r) /\ experimental
CostHeld(r)             == ~ExplicitWarm(r) /\ paused

Reply(r, via, p) ==
  /\ answer' = [answer EXCEPT ![r] = Told(via, p)]
  /\ pc' = [pc EXCEPT ![r] = "answered"]

EnqueueAs(j, id) ==
  /\ rid' = [rid EXCEPT ![j] = id]
  /\ at' = [at EXCEPT ![j] = "queued"]
  /\ UNCHANGED <<tries, out, wrote>>

Enqueue(r) == \E second \in Seconds : EnqueueAs(r, MakeRunId(r, second))

\* The hot path: only an entry for the section asked for is served.
Post(r) ==
  /\ pc[r] = "idle"
  /\ IF ~Bypass(r) /\ Accepted(r, entry)
       THEN Reply(r, "hot", Ok(entry.range, entry.by))
       ELSE pc' = [pc EXCEPT ![r] = IF Bypass(r) THEN "gate" ELSE "swr"] /\ UNCHANGED answer
  /\ UNCHANGED <<shared, queue, record>>

\* Mutant: the background refresh forgets the experimental gate.
MayRefresh_Experimental(r) ==
  ~CostHeld(r) /\ (ExplicitWarm(r) \/ down = "up") /\ funds

MayRefresh(r) ==
  ~SkipExperimentalWarm(r) /\ ~CostHeld(r) /\ (ExplicitWarm(r) \/ down = "up") /\ funds

\* Stale-while-revalidate: the canonical key once more, then the previous version.
ServeStale(r) ==
  /\ pc[r] = "swr"
  /\ IF ~Accepted(r, entry) /\ previous = SectionOf[r]
       THEN /\ Reply(r, "stale", Ok(SectionOf[r], None))
            /\ IF MayRefresh(r) THEN Enqueue(r) ELSE UNCHANGED queue
       ELSE pc' = [pc EXCEPT ![r] = "gate"] /\ UNCHANGED <<answer, queue>>
  /\ UNCHANGED <<shared, record>>

\* What resolveAiDown leaves of the sentinel: an empty account raises it, a
\* healthy one may clear a hard one.
Resolved ==
  {down} \cup (IF down = "up" THEN {"hard"} ELSE IF down = "hard" THEN {"up"} ELSE {})

Raise(level) ==
  /\ down' = level
  /\ raisedSince' = IF level = "up" THEN {}
                    ELSE IF level = down THEN raisedSince ELSE {j \in Job : at[j] \in Running}

Refuse(r, why) == Reply(r, "gate", Failed(why)) /\ UNCHANGED queue

Gate(r) ==
  /\ pc[r] = "gate"
  /\ \/ SkipExperimentalWarm(r) /\ Refuse(r, "experimental") /\ UNCHANGED <<down, raisedSince>>
     \/ ~SkipExperimentalWarm(r) /\ CostHeld(r)
          /\ Refuse(r, "cost-control") /\ UNCHANGED <<down, raisedSince>>
     \/ /\ ~SkipExperimentalWarm(r) /\ ~CostHeld(r)
        /\ IF ExplicitWarm(r) THEN UNCHANGED <<down, raisedSince>> ELSE \E d \in Resolved : Raise(d)
        /\ IF ~ExplicitWarm(r) /\ down' # "up" THEN Refuse(r, "ai-down")
           ELSE IF ~funds THEN Refuse(r, "budget")
           ELSE Enqueue(r) /\ pc' = [pc EXCEPT ![r] = "polling"] /\ UNCHANGED answer
  /\ UNCHANGED <<upsets, entry, previous, experimental, paused, funds, record>>

\* Warms and crons enqueue without a poller, not the experimental cards, and under
\* ids of their own: theirs leave the language out.
EnqueueBackground(b) ==
  /\ at[b] = "none" /\ ~experimental
  /\ \E second \in Seconds : EnqueueAs(b, <<"warm", second>>)
  /\ UNCHANGED <<shared, clients, record>>

-----------------------------------------------------------------------------
(* GET /api/run-status/:runId, with ?k= unless the run bypasses the cache.  *)

\* Mutant: run-status knows only the job record.
Poll_NoFallback(r) ==
  /\ pc[r] = "polling"
  /\ record[rid[r]] # None /\ Reply(r, "record", record[rid[r]])
  /\ UNCHANGED <<shared, queue, record>>

Poll(r) ==
  /\ pc[r] = "polling"
  /\ \/ record[rid[r]] # None /\ Reply(r, "record", record[rid[r]])
     \/ record[rid[r]] = None /\ ~Bypass(r) /\ entry # None
          /\ Reply(r, "fallback", Ok(entry.range, entry.by))
  /\ UNCHANGED <<shared, queue, record>>

-----------------------------------------------------------------------------
(* The consumer.                                                            *)

Move(j, place) == at' = [at EXCEPT ![j] = place]
Outcome(j, p)  == out' = [out EXCEPT ![j] = p]

Deliver(j) ==
  /\ at[j] = "queued"
  /\ Move(j, "started")
  /\ tries' = [tries EXCEPT ![j] = @ + 1]
  /\ UNCHANGED <<shared, clients, rid, out, wrote, record>>

\* The breaker's consumer leg, then the cost-control backstop, which leaves no record.
Admit(j) ==
  /\ at[j] = "started"
  /\ IF ~ExplicitWarm(j) /\ down = "hard" THEN Outcome(j, Failed("ai-down")) /\ Move(j, "reporting")
     ELSE IF ~Bypass(j) /\ paused THEN Outcome(j, None) /\ Move(j, "acking")
     ELSE Outcome(j, None) /\ Move(j, "looking")
  /\ UNCHANGED <<shared, clients, rid, tries, wrote, record>>

\* Mutant: the consumer takes any entry for a hit.
Lookup_AnySection(j) ==
  /\ at[j] = "looking"
  /\ IF ~Bypass(j) /\ entry # None
       THEN Outcome(j, Ok(entry.range, entry.by)) /\ Move(j, "reporting")
       ELSE Move(j, "generating") /\ UNCHANGED out
  /\ UNCHANGED <<shared, clients, rid, tries, wrote, record>>

\* runProducer's cache check, with the same guard as the hot path.
Lookup(j) ==
  /\ at[j] = "looking"
  /\ IF ~Bypass(j) /\ Accepted(j, entry)
       THEN Outcome(j, Ok(entry.range, entry.by)) /\ Move(j, "reporting")
       ELSE Move(j, "generating") /\ UNCHANGED out
  /\ UNCHANGED <<shared, clients, rid, tries, wrote, record>>

\* Clean output is cached; one with a parse error or a hard lint issue is not.
Generate(j) ==
  /\ at[j] = "generating"
  /\ Outcome(j, Ok(SectionOf[j], j))
  /\ Move(j, "caching") \/ Move(j, "clearing")
  /\ UNCHANGED <<shared, clients, rid, tries, wrote, record>>

CacheWrite(j) ==
  /\ at[j] = "caching"
  /\ entry' = [range |-> SectionOf[j], by |-> j]
  /\ wrote' = wrote \cup {j}
  /\ Move(j, "clearing")
  /\ UNCHANGED <<upsets, previous, experimental, paused, down, raisedSince, funds, clients, rid, tries, out, record>>

\* clearAiDown(cache, t0): not a sentinel that was raised during the run.
ClearDown(j) ==
  /\ at[j] = "clearing"
  /\ down' = IF j \in raisedSince THEN down ELSE "up"
  /\ raisedSince' = IF down' = "up" THEN {} ELSE raisedSince
  /\ Move(j, "reporting")
  /\ UNCHANGED <<upsets, entry, previous, experimental, paused, funds, clients, rid, tries, out, wrote, record>>

\* The catch block: a classified failure raises the breaker before it is recorded.
FailUnavailable(j, level) ==
  /\ at[j] = "generating"
  /\ IF down = "up" \/ (down = "soft" /\ level = "hard")
       THEN Raise(level) ELSE UNCHANGED <<down, raisedSince>>
  /\ Outcome(j, Failed("unavailable")) /\ Move(j, "reporting")
  /\ UNCHANGED <<upsets, entry, previous, experimental, paused, funds, clients, rid, tries, wrote, record>>

\* Mutant: a spend pause ends the job without a record.
FailBudget_Silent(j) ==
  /\ at[j] = "generating" /\ ~funds
  /\ Outcome(j, None) /\ Move(j, "acking")
  /\ UNCHANGED <<shared, clients, rid, tries, wrote, record>>

FailBudget(j) ==
  /\ at[j] = "generating" /\ ~funds
  /\ Outcome(j, Failed("budget")) /\ Move(j, "reporting")
  /\ UNCHANGED <<shared, clients, rid, tries, wrote, record>>

FailOther(j) ==
  /\ at[j] = "generating"
  /\ Outcome(j, Failed("error")) /\ Move(j, "reporting")
  /\ UNCHANGED <<shared, clients, rid, tries, wrote, record>>

Report(j) ==
  /\ at[j] = "reporting"
  /\ record' = [record EXCEPT ![rid[j]] = out[j]]
  /\ Move(j, "acking")
  /\ UNCHANGED <<shared, clients, rid, tries, out, wrote>>

\* What an invocation knows ends with it.
EndInvocation(j, place) ==
  /\ Move(j, place)
  /\ Outcome(j, None)
  /\ raisedSince' = raisedSince \ {j}
  /\ UNCHANGED <<upsets, entry, previous, experimental, paused, down, funds, clients, rid, tries, wrote, record>>

Ack(j) == at[j] = "acking" /\ EndInvocation(j, "acked")

\* The invocation is killed (memory, CPU, restart), or a KV call throws past the
\* catch block: the message is delivered again, or dropped.
Die(j) ==
  /\ at[j] \in Running
  /\ EndInvocation(j, IF tries[j] < Deliveries THEN "queued" ELSE "lost")

-----------------------------------------------------------------------------
(* The rest of the world.                                                   *)

\* A rewarm evicts the entry, or a run outside these writes it for a section of the
\* title, as it was before a re-extraction moved it or as it is now.
Upset ==
  /\ upsets < MaxUpsets /\ entry # None
  /\ upsets' = upsets + 1
  /\ entry' \in {None} \cup [range : Section, by : {None}]
  /\ UNCHANGED <<previous, experimental, paused, down, raisedSince, funds, clients, queue, record>>

\* The sentinel's TTL; the spend cap trips and its window rolls over.
Expire ==
  /\ down # "up"
  /\ down' = "up" /\ raisedSince' = {}
  /\ UNCHANGED <<upsets, entry, previous, experimental, paused, funds, clients, queue, record>>

Fund ==
  /\ funds' = ~funds
  /\ UNCHANGED <<upsets, entry, previous, experimental, paused, down, raisedSince,
                 clients, queue, record>>

-----------------------------------------------------------------------------
Serve(r) == Post(r) \/ ServeStale(r) \/ Gate(r)

Work(j) ==
  \/ Admit(j) \/ Lookup(j) \/ Generate(j) \/ CacheWrite(j) \/ ClearDown(j)
  \/ FailUnavailable(j, "soft") \/ FailUnavailable(j, "hard") \/ FailBudget(j) \/ FailOther(j)
  \/ Report(j) \/ Ack(j)

Next ==
  \/ \E r \in Requests : Serve(r) \/ Poll(r)
  \/ \E b \in Background : EnqueueBackground(b)
  \/ \E j \in Job : Deliver(j) \/ Work(j) \/ Die(j)
  \/ Upset \/ Expire \/ Fund

Spec == Init /\ [][Next]_vars

\* The platform delivers what is queued and runs what it has started, and the
\* client keeps polling.
Fairness ==
  /\ \A r \in Requests : WF_vars(Poll(r)) /\ WF_vars(Serve(r))
  /\ \A j \in Job : WF_vars(Deliver(j)) /\ WF_vars(Work(j))
FairSpec == Spec /\ Fairness

-----------------------------------------------------------------------------
(* Properties.                                                              *)

\* Every variable stays in its type.
Payload == [status : {"ok"}, why : {None}, range : Section, by : Job \cup {None}]
           \cup [status : {"error"}, range : {None}, by : {None},
                 why : {"ai-down", "budget", "unavailable", "error", "experimental", "cost-control"}]
TypeOK ==
  /\ upsets \in 0 .. MaxUpsets
  /\ entry \in {None} \cup [range : Section, by : Job \cup {None}]
  /\ previous \in {None} \cup Section /\ experimental \in BOOLEAN /\ paused \in BOOLEAN /\ funds \in BOOLEAN
  /\ down \in {"up", "soft", "hard"} /\ raisedSince \subseteq Job
  /\ rid \in [Job -> RunId \cup {None}]
  /\ record \in [RunId -> Payload \cup {None}]
  /\ pc \in [Requests -> {"idle", "swr", "gate", "polling", "answered"}]
  /\ answer \in [Requests -> {None} \cup
                  [via : {"hot", "stale", "gate", "record", "fallback"}, payload : Payload]]
  /\ at \in [Job -> {"none", "queued", "acked", "lost"} \cup Running]
  /\ tries \in [Job -> 0 .. Deliveries]
  /\ out \in [Job -> Payload \cup {None}]
  /\ wrote \subseteq Job

\* A forced fresh run is answered with what a forced fresh run of its own second
\* made, never with a cached entry, and the breaker never answers it
\* (bypass_cache, JobMessage.explicit).
BypassAnsweredFresh ==
  \A r \in Requests :
    pc[r] = "answered" /\ Mode[r] = "bypass" =>
      LET p == answer[r].payload
      IN  IF p.status = "ok" THEN Bypass(p.by) /\ rid[p.by] = rid[r] ELSE p.why # "ai-down"

\* Whatever the cache holds by then, an answer from the hot path or the previous
\* version is for the section asked for, and one from a run's record is too, or is
\* for what another request of the same title and second, under the same run id,
\* asked for.  A request that shares its id with nobody never gets another section.
GuardedAnswersMatchSection ==
  \A r \in Requests :
    answer[r] # None /\ answer[r].via # "fallback" /\ answer[r].payload.status = "ok"
      => \/ answer[r].payload.range = SectionOf[r]
         \/ answer[r].via = "record"
            /\ \E j \in Job \ {r} : rid[j] = rid[r] /\ SectionOf[j] = answer[r].payload.range

\* An experimental card is generated only because someone asked for it outright.
ExperimentalOnlyExplicit ==
  \A j \in Job : experimental /\ at[j] \in {"generating", "caching", "clearing"} => ExplicitWarm(j)

\* A poller gets its answer, unless every delivery of its job died.
PollerAnswered ==
  \A r \in Requests : pc[r] = "polling" ~> pc[r] = "answered" \/ at[r] = "lost"

\* A run whose output reached the cache answers its poller even when no
\* delivery lived to write the record (the cacheKey of the 202 answer).
CachedRunAnswers ==
  \A r \in Requests : pc[r] = "polling" /\ r \in wrote /\ ~Bypass(r) ~> pc[r] = "answered"

\* "Only serve the hot-path hit when the stamped range matches the requested
\* section; otherwise fall through to enqueue so it recomputes for the correct
\* range" (POST /api/run): what was enqueued answers for the section asked for.
RecordsMatchSection ==
  \A r \in Requests :
    answer[r] # None /\ answer[r].via = "record" /\ answer[r].payload.status = "ok"
      => answer[r].payload.range = SectionOf[r]

\* The same of every answer, the fallback to the canonical key included.
AnswersMatchSection ==
  \A r \in Requests :
    answer[r] # None /\ answer[r].payload.status = "ok" => answer[r].payload.range = SectionOf[r]

\* "A trusted explicit warm still runs" (POST /api/run), and only jobs that
\* "have no poller" are skipped silently (processEnrichmentJob).
NoSilentSkip ==
  \A r \in Requests : pc[r] = "polling" /\ at[r] = "acked" => record[rid[r]] # None

\* "a trusted explicit run must survive the ai-down circuit breaker end-to-end".
ExplicitSurvivesBreaker ==
  \A r \in Requests :
    answer[r] # None /\ ExplicitWarm(r) => answer[r].payload.why # "ai-down"
=============================================================================
