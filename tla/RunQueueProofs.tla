---------------------------- MODULE RunQueueProofs ----------------------------
(***************************************************************************)
(* Proofs about RunQueue, for any requests, background jobs, modes and      *)
(* number of deliveries: a forced fresh run is answered by a forced fresh   *)
(* run and never by the breaker, a guarded answer is for a section that a    *)
(* job under the same run id was asked for, and an experimental card is     *)
(* generated only for an explicit request.  Run ids are shared, also by     *)
(* requests for different sections, and deliveries repeated, so the         *)
(* invariant says what may stand under a run id, whoever wrote it.          *)
(***************************************************************************)
EXTENDS RunQueue, TLAPS

AnswerRecord == [via : {"hot", "stale", "gate", "record", "fallback"}, payload : Payload]

\* Some job under run id i was asked for section s.
AskedUnder(i, s) == \E j \in Job : rid[j] = i /\ SectionOf[j] = s

\* What a job may leave under run id i: content for a section that a job under i
\* was asked for, and under the id of a forced fresh run only such a run's content,
\* or an error of its own.
Good(i, p) ==
  /\ p.status = "ok" => AskedUnder(i, p.range)
  /\ i[1] = "fresh" =>
       IF p.status = "ok" THEN p.by \in Job /\ Bypass(p.by) /\ rid[p.by] = i
       ELSE p.why # "ai-down"

\* A job has a run id once it is queued, and only what suits it in hand.
JobInv(j) ==
  /\ at[j] = "none" <=> rid[j] = None
  /\ at[j] # "none" => (rid[j][1] = "fresh" <=> Bypass(j))
  /\ at[j] = "none" => tries[j] = 0 /\ out[j] = None
  /\ at[j] = "queued" => tries[j] < Deliveries
  /\ at[j] # "none" /\ experimental => ExplicitWarm(j)
  /\ out[j] # None => Good(rid[j], out[j])

RecordInv(i) == record[i] # None => Good(i, record[i])

\* What a client may have been told.
Served(r, a) ==
  /\ a.via # "fallback" /\ a.payload.status = "ok" =>
       \/ a.payload.range = SectionOf[r]
       \/ a.via = "record" /\ rid[r] # None /\ AskedUnder(rid[r], a.payload.range)
  /\ Bypass(r) =>
       IF a.payload.status = "ok"
         THEN a.payload.by \in Job /\ Bypass(a.payload.by) /\ rid[a.payload.by] = rid[r]
              /\ at[r] # "none"
         ELSE a.payload.why # "ai-down"

RequestInv(r) ==
  /\ pc[r] \in {"idle", "swr", "gate"} => at[r] = "none"
  /\ pc[r] = "swr" => ~ Bypass(r)
  /\ pc[r] = "polling" => at[r] # "none"
  /\ IF pc[r] = "answered" THEN answer[r] \in AnswerRecord /\ Served(r, answer[r])
     ELSE answer[r] = None

IInv ==
  /\ TypeOK
  /\ \A j \in Job : JobInv(j)
  /\ \A i \in RunId : RecordInv(i)
  /\ \A r \in Requests : RequestInv(r)

-----------------------------------------------------------------------------
USE ModeAssumption, SectionAssumption, DeliveriesAssumption, BoundsAssumption, ApartAssumption

LEMMA InitKeeps == Init => IInv
<1> SUFFICES ASSUME Init PROVE IInv
  OBVIOUS
<1>1. TypeOK
  <2>1. upsets \in 0 .. MaxUpsets /\ previous \in {None} \cup Section /\ funds \in BOOLEAN
        /\ down \in {"up", "soft", "hard"} /\ raisedSince \subseteq Job /\ wrote \subseteq Job
    BY DEF Init
  <2>2. experimental \in BOOLEAN /\ paused \in BOOLEAN
    BY DEF Init
  <2>3. entry \in {None} \cup [range : Section, by : Job \cup {None}]
    BY DEF Init
  <2>4. /\ rid \in [Job -> RunId \cup {None}] /\ record \in [RunId -> Payload \cup {None}]
        /\ out \in [Job -> Payload \cup {None}] /\ tries \in [Job -> 0 .. Deliveries]
    BY DEF Init
  <2>5. at \in [Job -> {"none", "queued", "acked", "lost"} \cup Running]
    BY DEF Init
  <2>6. pc \in [Requests -> {"idle", "swr", "gate", "polling", "answered"}]
        /\ answer \in [Requests -> {None} \cup AnswerRecord]
    BY DEF Init
  <2> QED
    BY <2>1, <2>2, <2>3, <2>4, <2>5, <2>6 DEF TypeOK, AnswerRecord
<1>2. \A j \in Job : JobInv(j)
  BY DEF Init, JobInv
<1>3. \A i \in RunId : RecordInv(i)
  BY DEF Init, RecordInv
<1>4. \A r \in Requests : RequestInv(r)
  BY DEF Init, RequestInv, Job
<1> QED
  BY <1>1, <1>2, <1>3, <1>4 DEF IInv

\* What is good under a run id stays so: a job that has a run id keeps it.
LEMMA GoodStays ==
  ASSUME NEW i \in RunId, NEW p, Good(i, p),
         \A k \in Job : rid[k] # None => rid'[k] = rid[k]
  PROVE  Good(i, p)'
<1>1. AskedUnder(i, p.range) => AskedUnder(i, p.range)'
  BY DEF AskedUnder
<1> QED
  BY <1>1 DEF Good

-----------------------------------------------------------------------------
(* Steps of the consumer.                                                   *)

\* A step that changes one job's delivery, and perhaps the records, keeps the
\* invariant when what it holds and what it records are good.
LEMMA ConsumerStep ==
  ASSUME IInv, TypeOK', NEW j \in Job, at[j] # "none", at'[j] # "none",
         UNCHANGED <<clients, rid, experimental>>,
         \A k \in Job \ {j} : at'[k] = at[k] /\ tries'[k] = tries[k] /\ out'[k] = out[k],
         at'[j] = "queued" => tries'[j] < Deliveries,
         out'[j] # None => Good(rid[j], out'[j]),
         \A i \in RunId : record'[i] # None => Good(i, record'[i])
  PROVE  IInv'
<1>1. rid' = rid /\ pc' = pc /\ answer' = answer /\ experimental' = experimental
  BY DEF clients
<1>2. \A i, p : Good(i, p) <=> Good(i, p)'
  BY <1>1 DEF Good, AskedUnder
<1>3. ASSUME NEW k \in Job PROVE JobInv(k)'
  <2>1. JobInv(k)
    BY DEF IInv
  <2>2. CASE k = j
    BY <1>1, <1>2, <2>1, <2>2 DEF JobInv
  <2>3. CASE k # j
    BY <1>1, <1>2, <2>1, <2>3 DEF JobInv
  <2> QED
    BY <2>2, <2>3
<1>4. ASSUME NEW i \in RunId PROVE RecordInv(i)'
  BY <1>2 DEF RecordInv
<1>5. ASSUME NEW r \in Requests PROVE RequestInv(r)'
  <2>1. RequestInv(r) /\ r \in Job
    BY DEF IInv, Job
  <2>2. at'[r] = "none" <=> at[r] = "none"
    BY <2>1
  <2> QED
    BY <1>1, <2>1, <2>2 DEF RequestInv, Served, AskedUnder
<1> QED
  BY <1>3, <1>4, <1>5 DEF IInv

Entry == {None} \cup [range : Section, by : Job \cup {None}]

\* The same for a step that moves one delivery and leaves the records alone.
LEMMA MoveStep ==
  ASSUME IInv, NEW j \in Job, at[j] # "none",
         NEW place \in {"queued", "acked", "lost"} \cup Running, NEW o \in Payload \cup {None},
         at' = [at EXCEPT ![j] = place], out' = [out EXCEPT ![j] = o],
         UNCHANGED <<upsets, previous, experimental, paused, funds, clients, rid, tries, record>>,
         entry' \in Entry, down' \in {"up", "soft", "hard"},
         raisedSince' \subseteq Job, wrote' \subseteq Job,
         place = "queued" => tries[j] < Deliveries,
         o # None => Good(rid[j], o)
  PROVE  IInv'
<1>1. /\ at \in [Job -> {"none", "queued", "acked", "lost"} \cup Running]
      /\ out \in [Job -> Payload \cup {None}]
  BY DEF IInv, TypeOK
<1>2. /\ at' \in [Job -> {"none", "queued", "acked", "lost"} \cup Running]
      /\ out' \in [Job -> Payload \cup {None}]
      /\ at'[j] = place /\ out'[j] = o
      /\ \A k \in Job \ {j} : at'[k] = at[k] /\ out'[k] = out[k]
  BY <1>1
<1>3. TypeOK'
  <2>1. TypeOK
    BY DEF IInv
  <2> QED
    BY <1>2, <2>1 DEF TypeOK, clients, Entry
<1>4. place # "none"
  BY DEF Running
<1>5. \A i \in RunId : record'[i] # None => Good(i, record'[i])
  BY DEF IInv, RecordInv
<1> QED
  BY <1>2, <1>3, <1>4, <1>5, ConsumerStep

LEMMA DeliverKeeps == ASSUME IInv, NEW j \in Job, Deliver(j) PROVE IInv'
<1>1. TypeOK /\ JobInv(j) /\ at[j] = "queued"
  BY DEF IInv, Deliver
<1>2. tries[j] \in 0 .. Deliveries /\ tries[j] < Deliveries
  BY <1>1 DEF TypeOK, JobInv
<1>3. TypeOK'
  <2>1. tries' \in [Job -> 0 .. Deliveries]
    BY <1>1, <1>2 DEF Deliver, TypeOK
  <2>2. at' \in [Job -> {"none", "queued", "acked", "lost"} \cup Running]
    BY <1>1 DEF Deliver, Move, TypeOK, Running
  <2> QED
    BY <1>1, <2>1, <2>2 DEF Deliver, TypeOK, shared, clients
<1>4. at'[j] = "started" /\ \A k \in Job \ {j} : at'[k] = at[k] /\ tries'[k] = tries[k]
  BY <1>1 DEF Deliver, Move, TypeOK
<1>5. \A i \in RunId : record'[i] # None => Good(i, record'[i])
  BY DEF IInv, RecordInv, Deliver
<1>6. UNCHANGED <<clients, rid, experimental, out>>
  BY DEF Deliver, shared
<1>7. out'[j] # None => Good(rid[j], out'[j])
  BY <1>1, <1>6 DEF JobInv
<1> QED
  BY <1>1, <1>3, <1>4, <1>5, <1>6, <1>7, ConsumerStep

\* What a running delivery knows of its own job.
LEMMA RunningJob ==
  ASSUME IInv, NEW j \in Job, at[j] \in Running
  PROVE  /\ at[j] # "none" /\ rid[j] \in RunId
         /\ rid[j][1] = "fresh" <=> Bypass(j)
         /\ out[j] \in Payload \cup {None}
         /\ out[j] # None => Good(rid[j], out[j])
         /\ entry \in Entry /\ down \in {"up", "soft", "hard"}
         /\ raisedSince \subseteq Job /\ wrote \subseteq Job
         /\ out = [out EXCEPT ![j] = out[j]]
  BY DEF IInv, TypeOK, JobInv, Running, Entry

\* The errors a job may record, and its own output, are payloads and good.
LEMMA OwnPayloads ==
  ASSUME IInv, NEW j \in Job, at[j] \in Running
  PROVE  /\ \A why \in {"budget", "unavailable", "error"} :
              Failed(why) \in Payload /\ Good(rid[j], Failed(why))
         /\ Ok(SectionOf[j], j) \in Payload /\ Good(rid[j], Ok(SectionOf[j], j))
<1>1. \A why \in {"budget", "unavailable", "error"} : Failed(why) \in Payload
  BY DEF Failed, Payload
<1>2. \A why \in {"budget", "unavailable", "error"} : Good(rid[j], Failed(why))
  BY DEF Failed, Good
<1>3. Ok(SectionOf[j], j) \in Payload
  BY DEF Ok, Payload
<1>4. Good(rid[j], Ok(SectionOf[j], j))
  BY RunningJob DEF Ok, Good, AskedUnder
<1> QED
  BY <1>1, <1>2, <1>3, <1>4

LEMMA AdmitKeeps == ASSUME IInv, NEW j \in Job, Admit(j) PROVE IInv'
<1>1. at[j] \in Running
  BY DEF Admit, Running
<1> DEFINE down_ == Failed("ai-down")
<1>2. down_ \in Payload
  BY DEF Failed, Payload
<1>3. ~ Bypass(j) => Good(rid[j], down_)
  BY <1>1, RunningJob DEF Good, Failed
<1>4. UNCHANGED <<upsets, previous, experimental, paused, funds, clients, rid, tries, record>>
      /\ entry' = entry /\ down' = down /\ raisedSince' = raisedSince /\ wrote' = wrote
  BY DEF Admit, shared
<1> HIDE DEF down_
<1>5. CASE ~ ExplicitWarm(j) /\ down = "hard"
  <2>1. ~ Bypass(j)
    BY <1>5 DEF ExplicitWarm, Bypass
  <2>2. at' = [at EXCEPT ![j] = "reporting"] /\ out' = [out EXCEPT ![j] = down_]
    BY <1>5 DEF Admit, Move, Outcome, down_
  <2> QED
    BY <1>1, <1>2, <1>3, <1>4, <2>1, <2>2, RunningJob, MoveStep DEF Running
<1>6. CASE ~ (~ ExplicitWarm(j) /\ down = "hard")
  <2>1. PICK place \in {"acking", "looking"} :
          at' = [at EXCEPT ![j] = place] /\ out' = [out EXCEPT ![j] = None]
    BY <1>6 DEF Admit, Move, Outcome
  <2> QED
    BY <1>1, <1>4, <2>1, RunningJob, MoveStep DEF Running
<1> QED
  BY <1>5, <1>6

LEMMA LookupKeeps == ASSUME IInv, NEW j \in Job, Lookup(j) PROVE IInv'
<1>1. at[j] \in Running
  BY DEF Lookup, Running
<1>2. UNCHANGED <<upsets, previous, experimental, paused, funds, clients, rid, tries, record>>
      /\ entry' = entry /\ down' = down /\ raisedSince' = raisedSince /\ wrote' = wrote
  BY DEF Lookup, shared
<1>3. CASE ~ Bypass(j) /\ Accepted(j, entry)
  <2> DEFINE hit == Ok(entry.range, entry.by)
  <2>1. hit \in Payload
    BY <1>1, <1>3, RunningJob DEF Accepted, Ok, Payload, Entry
  <2>2. Good(rid[j], hit)
    BY <1>1, <1>3, RunningJob DEF Accepted, Ok, Good, AskedUnder
  <2>3. at' = [at EXCEPT ![j] = "reporting"] /\ out' = [out EXCEPT ![j] = hit]
    BY <1>3 DEF Lookup, Move, Outcome
  <2> HIDE DEF hit
  <2> QED
    BY <1>1, <1>2, <2>1, <2>2, <2>3, RunningJob, MoveStep DEF Running
<1>4. CASE ~ (~ Bypass(j) /\ Accepted(j, entry))
  <2>1. at' = [at EXCEPT ![j] = "generating"] /\ out' = [out EXCEPT ![j] = out[j]]
    BY <1>1, <1>4, RunningJob DEF Lookup, Move
  <2> QED
    BY <1>1, <1>2, <2>1, RunningJob, MoveStep DEF Running
<1> QED
  BY <1>3, <1>4

LEMMA GenerateKeeps == ASSUME IInv, NEW j \in Job, Generate(j) PROVE IInv'
<1>1. at[j] \in Running
  BY DEF Generate, Running
<1>2. UNCHANGED <<upsets, previous, experimental, paused, funds, clients, rid, tries, record>>
      /\ entry' = entry /\ down' = down /\ raisedSince' = raisedSince /\ wrote' = wrote
  BY DEF Generate, shared
<1>3. PICK place \in {"caching", "clearing"} :
        at' = [at EXCEPT ![j] = place] /\ out' = [out EXCEPT ![j] = Ok(SectionOf[j], j)]
  BY DEF Generate, Move, Outcome
<1> QED
  BY <1>1, <1>2, <1>3, RunningJob, OwnPayloads, MoveStep DEF Running

LEMMA CacheWriteKeeps == ASSUME IInv, NEW j \in Job, CacheWrite(j) PROVE IInv'
<1>1. at[j] \in Running
  BY DEF CacheWrite, Running
<1>2. UNCHANGED <<upsets, previous, experimental, paused, funds, clients, rid, tries, record>>
      /\ entry' = [range |-> SectionOf[j], by |-> j] /\ down' = down /\ raisedSince' = raisedSince
      /\ wrote' = wrote \cup {j}
  BY DEF CacheWrite
<1>3. entry' \in Entry /\ wrote' \subseteq Job
  BY <1>1, <1>2, RunningJob DEF Entry
<1>4. at' = [at EXCEPT ![j] = "clearing"] /\ out' = [out EXCEPT ![j] = out[j]]
  BY <1>1, RunningJob DEF CacheWrite, Move
<1> QED
  BY <1>1, <1>2, <1>3, <1>4, RunningJob, MoveStep DEF Running

LEMMA ClearDownKeeps == ASSUME IInv, NEW j \in Job, ClearDown(j) PROVE IInv'
<1>1. at[j] \in Running
  BY DEF ClearDown, Running
<1>2. UNCHANGED <<upsets, previous, experimental, paused, funds, clients, rid, tries, record>>
      /\ entry' = entry /\ wrote' = wrote
  BY DEF ClearDown
<1>3. down' \in {"up", "soft", "hard"} /\ raisedSince' \subseteq Job
  BY <1>1, RunningJob DEF ClearDown
<1>4. at' = [at EXCEPT ![j] = "reporting"] /\ out' = [out EXCEPT ![j] = out[j]]
  BY <1>1, RunningJob DEF ClearDown, Move
<1> QED
  BY <1>1, <1>2, <1>3, <1>4, RunningJob, MoveStep DEF Running

LEMMA FailKeeps ==
  ASSUME IInv, NEW j \in Job,
         \/ \E level \in {"soft", "hard"} : FailUnavailable(j, level)
         \/ FailBudget(j) \/ FailOther(j)
  PROVE  IInv'
<1>1. at[j] \in Running
  BY DEF FailUnavailable, FailBudget, FailOther, Running
<1>2. UNCHANGED <<upsets, previous, experimental, paused, funds, clients, rid, tries, record>>
      /\ entry' = entry /\ wrote' = wrote
  BY DEF FailUnavailable, FailBudget, FailOther, shared
<1>3. down' \in {"up", "soft", "hard"} /\ raisedSince' \subseteq Job
  BY <1>1, RunningJob DEF FailUnavailable, FailBudget, FailOther, Raise, shared
<1>4. PICK why \in {"budget", "unavailable", "error"} :
        at' = [at EXCEPT ![j] = "reporting"] /\ out' = [out EXCEPT ![j] = Failed(why)]
  BY DEF FailUnavailable, FailBudget, FailOther, Move, Outcome
<1>5. Failed(why) \in Payload /\ Good(rid[j], Failed(why))
  BY <1>1, OwnPayloads
<1> QED
  BY <1>1, <1>2, <1>3, <1>4, <1>5, RunningJob, MoveStep DEF Running

LEMMA ReportKeeps == ASSUME IInv, NEW j \in Job, Report(j) PROVE IInv'
<1>1. at[j] \in Running
  BY DEF Report, Running
<1>2. rid[j] \in RunId /\ at[j] # "none"
  BY <1>1, RunningJob
<1>3. UNCHANGED <<shared, clients, rid, tries, out, wrote>>
  BY DEF Report
<1>4. record' \in [RunId -> Payload \cup {None}]
      /\ record'[rid[j]] = out[j] /\ \A i \in RunId \ {rid[j]} : record'[i] = record[i]
  BY <1>1, <1>2, RunningJob DEF Report, IInv, TypeOK
<1>5. at' \in [Job -> {"none", "queued", "acked", "lost"} \cup Running]
      /\ at'[j] = "acking" /\ \A k \in Job \ {j} : at'[k] = at[k]
  BY DEF Report, Move, IInv, TypeOK, Running
<1>6. TypeOK'
  BY <1>3, <1>4, <1>5 DEF IInv, TypeOK, shared, clients
<1>7. \A i \in RunId : record'[i] # None => Good(i, record'[i])
  BY <1>1, <1>4, RunningJob DEF IInv, RecordInv
<1>8. out'[j] # None => Good(rid[j], out'[j])
  BY <1>1, <1>3, RunningJob
<1>9. UNCHANGED <<clients, rid, experimental>>
      /\ \A k \in Job \ {j} : at'[k] = at[k] /\ tries'[k] = tries[k] /\ out'[k] = out[k]
  BY <1>3, <1>5 DEF shared
<1> QED
  BY <1>2, <1>5, <1>6, <1>7, <1>8, <1>9, ConsumerStep

LEMMA EndKeeps == ASSUME IInv, NEW j \in Job, Ack(j) \/ Die(j) PROVE IInv'
<1>1. at[j] \in Running
  BY DEF Ack, Die, Running
<1>2. UNCHANGED <<upsets, previous, experimental, paused, funds, clients, rid, tries, record>>
      /\ entry' = entry /\ down' = down /\ wrote' = wrote /\ raisedSince' = raisedSince \ {j}
  BY DEF Ack, Die, EndInvocation
<1>3. raisedSince' \subseteq Job
  BY <1>1, <1>2, RunningJob
<1>4. PICK place \in {"queued", "acked", "lost"} :
        /\ at' = [at EXCEPT ![j] = place] /\ out' = [out EXCEPT ![j] = None]
        /\ place = "queued" => tries[j] < Deliveries
  BY DEF Ack, Die, EndInvocation, Move, Outcome
<1> QED
  BY <1>1, <1>2, <1>3, <1>4, RunningJob, MoveStep

-----------------------------------------------------------------------------
(* Steps that enqueue or answer.                                            *)

\* A job is given a run id of its own cache mode, which no earlier job loses.
LEMMA EnqueueGives ==
  ASSUME IInv, NEW j \in Job, at[j] = "none", NEW id \in RunId, EnqueueAs(j, id),
         id[1] = "fresh" <=> Bypass(j), UNCHANGED experimental,
         experimental => ExplicitWarm(j)
  PROVE  /\ JobInv(j)'
         /\ rid' \in [Job -> RunId \cup {None}]
         /\ at' \in [Job -> {"none", "queued", "acked", "lost"} \cup Running]
         /\ at'[j] # "none"
         /\ UNCHANGED <<tries, out, wrote>>
         /\ \A k \in Job \ {j} : at'[k] = at[k] /\ rid'[k] = rid[k]
         /\ \A k \in Job : rid[k] # None => rid'[k] = rid[k]
<1>1. JobInv(j) /\ TypeOK
  BY DEF IInv
<1>2. rid[j] = None /\ tries[j] = 0 /\ out[j] = None
  BY <1>1 DEF JobInv
<1>5. rid' \in [Job -> RunId \cup {None}] /\ rid'[j] = id
      /\ \A k \in Job \ {j} : rid'[k] = rid[k]
  BY <1>1 DEF EnqueueAs, TypeOK
<1>6. at' \in [Job -> {"none", "queued", "acked", "lost"} \cup Running]
      /\ at'[j] = "queued" /\ \A k \in Job \ {j} : at'[k] = at[k]
  BY <1>1 DEF EnqueueAs, TypeOK
<1>7. UNCHANGED <<tries, out, wrote>>
  BY DEF EnqueueAs
<1>8. JobInv(j)'
  <2>1. rid'[j] # None /\ (rid'[j][1] = "fresh" <=> Bypass(j))
    BY <1>5
  <2>2. tries'[j] < Deliveries /\ out'[j] = None
    BY <1>2, <1>7
  <2> QED
    BY <1>6, <2>1, <2>2 DEF JobInv
<1> QED
  BY <1>2, <1>5, <1>6, <1>7, <1>8

\* A request's run id is one of its own cache mode.
LEMMA RequestId ==
  ASSUME NEW r \in Requests, NEW second \in Seconds
  PROVE  /\ MakeRunId(r, second) \in RunId
         /\ MakeRunId(r, second)[1] = "fresh" <=> Bypass(r)
  BY DEF MakeRunId, RunId, Bypass

\* One job may be enqueued and one request answered or moved on.
LEMMA ClientStep ==
  ASSUME IInv, TypeOK', NEW j \in Job,
         UNCHANGED <<experimental, tries, out, record>>,
         \A k \in Job \ {j} : at'[k] = at[k] /\ rid'[k] = rid[k],
         \A k \in Job : rid[k] # None => rid'[k] = rid[k],
         \A q \in Requests \ {j} : pc'[q] = pc[q] /\ answer'[q] = answer[q],
         JobInv(j)',
         j \in Requests => RequestInv(j)'
  PROVE  IInv'
<1>1. ASSUME NEW k \in Job, k # j PROVE JobInv(k)'
  <2>1. JobInv(k) /\ at'[k] = at[k] /\ rid'[k] = rid[k] /\ rid[k] \in RunId \cup {None}
    BY <1>1 DEF IInv, TypeOK
  <2>2. out[k] # None => Good(rid[k], out[k])'
    <3>1. SUFFICES ASSUME out[k] # None PROVE Good(rid[k], out[k])'
      OBVIOUS
    <3>2. rid[k] \in RunId /\ Good(rid[k], out[k])
      BY <2>1, <3>1 DEF JobInv
    <3>3. \A i \in RunId : \A p : Good(i, p) => Good(i, p)'
      BY GoodStays
    <3> QED
      BY <2>1, <3>2, <3>3 DEF Good, AskedUnder
  <2> QED
    BY <2>1, <2>2 DEF JobInv
<1>2. ASSUME NEW i \in RunId PROVE RecordInv(i)'
  <2>1. record' = record /\ RecordInv(i)
    BY DEF IInv
  <2> QED
    BY <2>1, GoodStays DEF RecordInv
<1>3. ASSUME NEW q \in Requests, q # j PROVE RequestInv(q)'
  <2>1. RequestInv(q) /\ JobInv(q) /\ q \in Job
    BY DEF IInv, Job
  <2>2. at'[q] = at[q] /\ rid'[q] = rid[q] /\ pc'[q] = pc[q] /\ answer'[q] = answer[q]
    BY <1>3, <2>1
  <2>3. at[q] # "none" => rid[q] # None
    BY <2>1 DEF JobInv
  <2>4. ASSUME NEW a, Served(q, a) PROVE Served(q, a)'
    <3>1. a.via # "fallback" /\ a.payload.status = "ok" =>
            \/ a.payload.range = SectionOf[q]
            \/ a.via = "record" /\ rid'[q] # None /\ AskedUnder(rid[q], a.payload.range)'
      BY <2>2, <2>4 DEF Served, AskedUnder
    <3>2. Bypass(q) =>
            IF a.payload.status = "ok"
              THEN a.payload.by \in Job /\ Bypass(a.payload.by) /\ rid'[a.payload.by] = rid'[q]
                   /\ at'[q] # "none"
              ELSE a.payload.why # "ai-down"
      BY <2>2, <2>3, <2>4 DEF Served
    <3> QED
      BY <3>1, <3>2 DEF Served, Bypass
  <2> QED
    BY <2>1, <2>2, <2>4 DEF RequestInv
<1> QED
  BY <1>1, <1>2, <1>3 DEF IInv

\* A step that changes one request's place or answer and enqueues nothing.
LEMMA AskStep ==
  ASSUME IInv, NEW r \in Requests,
         NEW place \in {"swr", "gate", "answered"}, NEW a \in {None} \cup AnswerRecord,
         pc' = [pc EXCEPT ![r] = place], answer' = [answer EXCEPT ![r] = a],
         UNCHANGED <<upsets, entry, previous, experimental, paused, funds, queue, record>>,
         down' \in {"up", "soft", "hard"}, raisedSince' \subseteq Job,
         place \in {"swr", "gate"} => at[r] = "none" /\ a = None,
         place = "swr" => ~ Bypass(r),
         place = "answered" => a \in AnswerRecord /\ Served(r, a)
  PROVE  IInv'
<1>1. TypeOK /\ JobInv(r) /\ r \in Job
  BY DEF IInv, Job
<1>2. /\ pc' \in [Requests -> {"idle", "swr", "gate", "polling", "answered"}]
      /\ answer' \in [Requests -> {None} \cup AnswerRecord]
      /\ pc'[r] = place /\ answer'[r] = a
      /\ \A q \in Requests \ {r} : pc'[q] = pc[q] /\ answer'[q] = answer[q]
  BY <1>1 DEF TypeOK, AnswerRecord
<1>3. at' = at /\ rid' = rid /\ tries' = tries /\ out' = out /\ wrote' = wrote
  BY DEF queue
<1>4. TypeOK'
  BY <1>1, <1>2, <1>3 DEF TypeOK, AnswerRecord
<1>5. JobInv(r)'
  BY <1>1, <1>3 DEF JobInv, Good, AskedUnder
<1>6. Served(r, a) => Served(r, a)'
  BY <1>3 DEF Served, AskedUnder
<1>7. RequestInv(r)'
  BY <1>2, <1>3, <1>6 DEF RequestInv
<1> QED
  BY <1>1, <1>2, <1>3, <1>4, <1>5, <1>7, ClientStep

\* What a request that is not yet answered knows.
LEMMA Unanswered ==
  ASSUME IInv, NEW r \in Requests, pc[r] # "answered"
  PROVE  /\ answer[r] = None /\ answer = [answer EXCEPT ![r] = None]
         /\ pc[r] \in {"idle", "swr", "gate"} => at[r] = "none"
         /\ entry \in Entry /\ down \in {"up", "soft", "hard"} /\ raisedSince \subseteq Job
  BY DEF IInv, TypeOK, RequestInv, Entry

LEMMA ToldIsRecord ==
  ASSUME NEW via \in {"hot", "stale", "gate", "record", "fallback"}, NEW p \in Payload
  PROVE  Told(via, p) \in AnswerRecord
  BY DEF Told, AnswerRecord

LEMMA PostKeeps == ASSUME IInv, NEW r \in Requests, Post(r) PROVE IInv'
<1>1. pc[r] = "idle" /\ UNCHANGED <<shared, queue, record>>
  BY DEF Post
<1>2. UNCHANGED <<upsets, entry, previous, experimental, paused, funds, queue, record>>
      /\ down' = down /\ raisedSince' = raisedSince
  BY <1>1 DEF shared
<1>3. CASE ~ Bypass(r) /\ Accepted(r, entry)
  <2> DEFINE p == Ok(entry.range, entry.by)
             a == Told("hot", p)
  <2>1. p \in Payload /\ p.status = "ok" /\ p.range = SectionOf[r]
    BY <1>1, <1>3, Unanswered DEF Accepted, Ok, Payload, Entry
  <2>2. a \in AnswerRecord /\ Served(r, a)
    BY <1>3, <2>1, ToldIsRecord DEF Served, Told
  <2>3. pc' = [pc EXCEPT ![r] = "answered"] /\ answer' = [answer EXCEPT ![r] = a]
    BY <1>3 DEF Post, Reply
  <2> HIDE DEF a
  <2> QED
    BY <1>1, <1>2, <2>2, <2>3, Unanswered, AskStep
<1>4. CASE ~ (~ Bypass(r) /\ Accepted(r, entry))
  <2>1. PICK place \in {"swr", "gate"} :
          pc' = [pc EXCEPT ![r] = place] /\ (place = "swr" => ~ Bypass(r))
    BY <1>4 DEF Post
  <2>2. answer' = [answer EXCEPT ![r] = None]
    BY <1>1, <1>4, Unanswered DEF Post
  <2> QED
    BY <1>1, <1>2, <2>1, <2>2, Unanswered, AskStep
<1> QED
  BY <1>3, <1>4

LEMMA PollKeeps == ASSUME IInv, NEW r \in Requests, Poll(r) PROVE IInv'
<1>1. pc[r] = "polling" /\ UNCHANGED <<shared, queue, record>>
  BY DEF Poll
<1>2. UNCHANGED <<upsets, entry, previous, experimental, paused, funds, queue, record>>
      /\ down' = down /\ raisedSince' = raisedSince
  BY <1>1 DEF shared
<1>3. r \in Job /\ at[r] # "none" /\ rid[r] \in RunId /\ (rid[r][1] = "fresh" <=> Bypass(r))
  BY <1>1 DEF IInv, TypeOK, RequestInv, JobInv, Job
<1>4. CASE record[rid[r]] # None /\ Reply(r, "record", record[rid[r]])
  <2> DEFINE p == record[rid[r]]
             a == Told("record", p)
  <2>1. p \in Payload /\ Good(rid[r], p)
    BY <1>3, <1>4 DEF IInv, TypeOK, RecordInv
  <2>2. a \in AnswerRecord
    BY <2>1, ToldIsRecord
  <2>3. Served(r, a)
    <3>1. p.status = "ok" => AskedUnder(rid[r], p.range)
      BY <2>1 DEF Good
    <3>2. rid[r] # None
      BY <1>3
    <3>3. Bypass(r) => IF p.status = "ok"
                         THEN p.by \in Job /\ Bypass(p.by) /\ rid[p.by] = rid[r] /\ at[r] # "none"
                         ELSE p.why # "ai-down"
      BY <1>3, <2>1 DEF Good
    <3>4. a.via = "record" /\ a.payload = p
      BY DEF Told
    <3> HIDE DEF p, a
    <3> QED
      BY <3>1, <3>2, <3>3, <3>4 DEF Served
  <2>4. pc' = [pc EXCEPT ![r] = "answered"] /\ answer' = [answer EXCEPT ![r] = a]
    BY <1>4 DEF Reply
  <2> HIDE DEF a
  <2> QED
    BY <1>1, <1>2, <2>2, <2>3, <2>4, Unanswered, AskStep
<1>5. CASE ~ Bypass(r) /\ entry # None /\ Reply(r, "fallback", Ok(entry.range, entry.by))
  <2> DEFINE p == Ok(entry.range, entry.by)
             a == Told("fallback", p)
  <2>1. p \in Payload
    BY <1>1, <1>5, Unanswered DEF Ok, Payload, Entry
  <2>2. a \in AnswerRecord /\ Served(r, a)
    BY <1>5, <2>1, ToldIsRecord DEF Served, Told
  <2>3. pc' = [pc EXCEPT ![r] = "answered"] /\ answer' = [answer EXCEPT ![r] = a]
    BY <1>5 DEF Reply
  <2> HIDE DEF a
  <2> QED
    BY <1>1, <1>2, <2>2, <2>3, Unanswered, AskStep
<1> QED
  BY <1>4, <1>5 DEF Poll

LEMMA BackgroundKeeps == ASSUME IInv, NEW b \in Background, EnqueueBackground(b) PROVE IInv'
<1>1. b \in Job /\ b \notin Requests /\ at[b] = "none"
      /\ UNCHANGED <<shared, clients, record>> /\ ~ experimental
  BY DEF EnqueueBackground, Job
<1>0. PICK second \in Seconds : EnqueueAs(b, <<"warm", second>>)
  BY DEF EnqueueBackground
<1> DEFINE id == <<"warm", second>>
<1>5. id \in RunId /\ (id[1] = "fresh" <=> Bypass(b)) /\ EnqueueAs(b, id)
  BY <1>0 DEF RunId, Bypass, ModeOf
<1> HIDE DEF id
<1>2. experimental' = experimental /\ pc' = pc /\ answer' = answer /\ record' = record
  BY <1>1 DEF shared, clients
<1>3. /\ JobInv(b)'
      /\ rid' \in [Job -> RunId \cup {None}]
      /\ at' \in [Job -> {"none", "queued", "acked", "lost"} \cup Running]
      /\ UNCHANGED <<tries, out, wrote>>
      /\ \A k \in Job \ {b} : at'[k] = at[k] /\ rid'[k] = rid[k]
      /\ \A k \in Job : rid[k] # None => rid'[k] = rid[k]
  BY <1>1, <1>2, <1>5, EnqueueGives
<1>4. TypeOK'
  BY <1>1, <1>3 DEF IInv, TypeOK, shared, clients
<1> QED
  BY <1>1, <1>2, <1>3, <1>4, ClientStep

\* A request whose job is enqueued: to be polled for, or behind a stale answer.
LEMMA EnqueueStep ==
  ASSUME IInv, NEW r \in Requests, at[r] = "none", Enqueue(r),
         NEW place \in {"polling", "answered"}, NEW a \in {None} \cup AnswerRecord,
         pc' = [pc EXCEPT ![r] = place], answer' = [answer EXCEPT ![r] = a],
         UNCHANGED <<upsets, entry, previous, experimental, paused, funds, record>>,
         down' \in {"up", "soft", "hard"}, raisedSince' \subseteq Job,
         experimental => ExplicitWarm(r),
         place = "polling" => a = None,
         place = "answered" => a \in AnswerRecord /\ a.payload.range = SectionOf[r] /\ ~ Bypass(r)
  PROVE  IInv'
<1>1. TypeOK /\ r \in Job
  BY DEF IInv, Job
<1>2. /\ JobInv(r)'
      /\ rid' \in [Job -> RunId \cup {None}]
      /\ at' \in [Job -> {"none", "queued", "acked", "lost"} \cup Running]
      /\ at'[r] # "none"
      /\ UNCHANGED <<tries, out, wrote>>
      /\ \A k \in Job \ {r} : at'[k] = at[k] /\ rid'[k] = rid[k]
      /\ \A k \in Job : rid[k] # None => rid'[k] = rid[k]
  <2>1. PICK second \in Seconds : EnqueueAs(r, MakeRunId(r, second))
    BY DEF Enqueue
  <2> QED
    BY <1>1, <2>1, RequestId, EnqueueGives
<1>3. /\ pc' \in [Requests -> {"idle", "swr", "gate", "polling", "answered"}]
      /\ answer' \in [Requests -> {None} \cup AnswerRecord]
      /\ pc'[r] = place /\ answer'[r] = a
      /\ \A q \in Requests \ {r} : pc'[q] = pc[q] /\ answer'[q] = answer[q]
  BY <1>1 DEF TypeOK, AnswerRecord
<1>4. TypeOK'
  BY <1>1, <1>2, <1>3 DEF TypeOK, AnswerRecord
<1>5. place = "answered" => Served(r, a)'
  BY DEF Served, Bypass
<1>6. RequestInv(r)'
  BY <1>2, <1>3, <1>5 DEF RequestInv
<1> QED
  BY <1>1, <1>2, <1>3, <1>4, <1>6, ClientStep

LEMMA ServeStaleKeeps == ASSUME IInv, NEW r \in Requests, ServeStale(r) PROVE IInv'
<1>1. pc[r] = "swr" /\ UNCHANGED <<shared, record>>
  BY DEF ServeStale
<1>2. ~ Bypass(r) /\ at[r] = "none"
  BY <1>1 DEF IInv, RequestInv
<1>3. UNCHANGED <<upsets, entry, previous, experimental, paused, funds, record>>
      /\ down' = down /\ raisedSince' = raisedSince
  BY <1>1 DEF shared
<1>4. CASE ~ Accepted(r, entry) /\ previous = SectionOf[r]
  <2> DEFINE p == Ok(SectionOf[r], None)
             a == Told("stale", p)
  <2>1. p \in Payload
    BY DEF Ok, Payload, Job
  <2>2. a \in AnswerRecord /\ a.payload.range = SectionOf[r] /\ Served(r, a)
    BY <1>2, <2>1, ToldIsRecord DEF Served, Told, Ok
  <2>3. pc' = [pc EXCEPT ![r] = "answered"] /\ answer' = [answer EXCEPT ![r] = a]
    BY <1>4 DEF ServeStale, Reply
  <2> HIDE DEF a
  <2>4. CASE MayRefresh(r)
    <3>1. Enqueue(r) /\ (experimental => ExplicitWarm(r))
      BY <1>4, <2>4 DEF ServeStale, MayRefresh, SkipExperimentalWarm
    <3> QED
      BY <1>1, <1>2, <1>3, <2>2, <2>3, <3>1, Unanswered, EnqueueStep
  <2>5. CASE ~ MayRefresh(r)
    <3>1. UNCHANGED queue
      BY <1>4, <2>5 DEF ServeStale
    <3> QED
      BY <1>1, <1>2, <1>3, <2>2, <2>3, <3>1, Unanswered, AskStep
  <2> QED
    BY <2>4, <2>5
<1>5. CASE ~ (~ Accepted(r, entry) /\ previous = SectionOf[r])
  <2>1. pc' = [pc EXCEPT ![r] = "gate"] /\ answer' = [answer EXCEPT ![r] = None] /\ UNCHANGED queue
    BY <1>1, <1>5, Unanswered DEF ServeStale
  <2> QED
    BY <1>1, <1>2, <1>3, <2>1, Unanswered, AskStep
<1> QED
  BY <1>4, <1>5

\* The breaker refuses only requests that are not explicit.
LEMMA GateKeeps == ASSUME IInv, NEW r \in Requests, Gate(r) PROVE IInv'
<1>1. pc[r] = "gate" /\ at[r] = "none"
      /\ UNCHANGED <<upsets, entry, previous, experimental, paused, funds, record>>
  BY Unanswered DEF Gate
<1>2. down' \in {"up", "soft", "hard"} /\ raisedSince' \subseteq Job
  BY <1>1, Unanswered DEF Gate, Raise, Resolved
<1>3. ASSUME NEW why \in {"experimental", "cost-control", "ai-down", "budget"}, Refuse(r, why),
             Bypass(r) => why # "ai-down"
      PROVE IInv'
  <2> DEFINE p == Failed(why)
             a == Told("gate", p)
  <2>1. p \in Payload
    BY DEF Failed, Payload
  <2>2. a \in AnswerRecord /\ Served(r, a)
    BY <1>3, <2>1, ToldIsRecord DEF Served, Told, Failed
  <2>3. pc' = [pc EXCEPT ![r] = "answered"] /\ answer' = [answer EXCEPT ![r] = a] /\ UNCHANGED queue
    BY <1>3 DEF Refuse, Reply
  <2> HIDE DEF a
  <2> QED
    BY <1>1, <1>2, <2>2, <2>3, AskStep
<1>4. CASE SkipExperimentalWarm(r) /\ Refuse(r, "experimental")
  BY <1>3, <1>4
<1>5. CASE CostHeld(r) /\ Refuse(r, "cost-control")
  BY <1>3, <1>5
<1>6. CASE ~ ExplicitWarm(r) /\ Refuse(r, "ai-down")
  BY <1>3, <1>6 DEF ExplicitWarm, Bypass
<1>7. CASE Refuse(r, "budget")
  BY <1>3, <1>7
<1>8. CASE /\ ~ SkipExperimentalWarm(r) /\ Enqueue(r)
           /\ pc' = [pc EXCEPT ![r] = "polling"] /\ UNCHANGED answer
  <2>1. experimental => ExplicitWarm(r)
    BY <1>8 DEF SkipExperimentalWarm
  <2>2. answer' = [answer EXCEPT ![r] = None]
    BY <1>1, <1>8, Unanswered
  <2> QED
    BY <1>1, <1>2, <1>8, <2>1, <2>2, EnqueueStep
<1> QED
  BY <1>4, <1>5, <1>6, <1>7, <1>8 DEF Gate

-----------------------------------------------------------------------------
(* The rest of the world, and the whole.                                    *)

\* What changes the cache, the sentinel or the funds from outside touches no
\* job, no record and no client.
LEMMA WorldKeeps == ASSUME IInv, Upset \/ Expire \/ Fund \/ UNCHANGED vars PROVE IInv'
<1>1. UNCHANGED <<previous, experimental, paused, clients, queue, record>>
  BY DEF Upset, Expire, Fund, vars, shared
<1>2. pc' = pc /\ answer' = answer /\ rid' = rid /\ at' = at /\ tries' = tries /\ out' = out
      /\ wrote' = wrote /\ record' = record /\ experimental' = experimental
  BY <1>1 DEF clients, queue
<1>3. upsets' \in 0 .. MaxUpsets /\ entry' \in Entry /\ down' \in {"up", "soft", "hard"}
      /\ raisedSince' \subseteq Job /\ funds' \in BOOLEAN
  <2>1. TypeOK
    BY DEF IInv
  <2>2. CASE Upset
    BY <2>1, <2>2 DEF Upset, TypeOK, Entry
  <2>3. CASE Expire \/ Fund \/ UNCHANGED vars
    BY <2>1, <2>3 DEF Expire, Fund, vars, shared, TypeOK, Entry
  <2> QED
    BY <2>2, <2>3
<1>4. TypeOK'
  BY <1>1, <1>2, <1>3 DEF IInv, TypeOK, Entry
<1>5. \A j \in Job : JobInv(j)'
  BY <1>2 DEF IInv, JobInv, Good, AskedUnder
<1>6. \A i \in RunId : RecordInv(i)'
  BY <1>2 DEF IInv, RecordInv, Good, AskedUnder
<1>7. \A r \in Requests : RequestInv(r)'
  BY <1>2 DEF IInv, RequestInv, Served, AskedUnder
<1> QED
  BY <1>4, <1>5, <1>6, <1>7 DEF IInv

LEMMA StepKeeps == ASSUME IInv, [Next]_vars PROVE IInv'
<1>1. ASSUME NEW r \in Requests, Serve(r) \/ Poll(r) PROVE IInv'
  BY <1>1, PostKeeps, ServeStaleKeeps, GateKeeps, PollKeeps DEF Serve
<1>2. ASSUME NEW j \in Job, Deliver(j) \/ Work(j) \/ Die(j) PROVE IInv'
  BY <1>2, DeliverKeeps, AdmitKeeps, LookupKeeps, GenerateKeeps, CacheWriteKeeps, ClearDownKeeps,
     FailKeeps, ReportKeeps, EndKeeps DEF Work
<1> QED
  BY <1>1, <1>2, BackgroundKeeps, WorldKeeps DEF Next

\* The inductive invariant holds of every behaviour: whatever stands under a run
\* id is for a section that one of the jobs under it was asked for, and suits the
\* cache mode of them all.
THEOREM Inductive == Spec => []IInv
<1>1. IInv /\ [Next]_vars => IInv'
  BY StepKeeps
<1> QED
  BY InitKeeps, <1>1, PTL DEF Spec

\* Every variable stays in its type, so no job is delivered more often than the
\* queue allows (max_retries).
THEOREM TypeCorrect == Spec => []TypeOK
<1>1. IInv => TypeOK
  BY DEF IInv
<1> QED
  BY <1>1, Inductive, PTL

\* A forced fresh run is answered with what a forced fresh run under the same run
\* id made, and the breaker never answers it.
THEOREM BypassIsFresh == Spec => []BypassAnsweredFresh
<1>1. IInv => BypassAnsweredFresh
  <2> SUFFICES ASSUME IInv, NEW r \in Requests, pc[r] = "answered", Mode[r] = "bypass"
               PROVE LET p == answer[r].payload
                     IN  IF p.status = "ok" THEN Bypass(p.by) /\ rid[p.by] = rid[r]
                         ELSE p.why # "ai-down"
    BY DEF BypassAnsweredFresh
  <2>1. Bypass(r)
    BY DEF Bypass, ModeOf
  <2>2. Served(r, answer[r])
    BY DEF IInv, RequestInv
  <2> QED
    BY <2>1, <2>2 DEF Served
<1> QED
  BY <1>1, Inductive, PTL

\* However the cache changes meanwhile, an answer that passed the section guard is
\* for the section asked for, unless it is the record of another job under the same
\* run id: then it is for the section that job was asked for.
THEOREM GuardedAnswersRight == Spec => []GuardedAnswersMatchSection
<1>1. IInv => GuardedAnswersMatchSection
  <2> SUFFICES ASSUME IInv, NEW r \in Requests, answer[r] # None, answer[r].via # "fallback",
                      answer[r].payload.status = "ok", answer[r].payload.range # SectionOf[r]
               PROVE  answer[r].via = "record" /\
                      \E j \in Job \ {r} : rid[j] = rid[r] /\ SectionOf[j] = answer[r].payload.range
    BY DEF GuardedAnswersMatchSection
  <2>1. answer[r].via = "record" /\ AskedUnder(rid[r], answer[r].payload.range)
    BY DEF IInv, RequestInv, Served
  <2> QED
    BY <2>1 DEF AskedUnder
<1> QED
  BY <1>1, Inductive, PTL

\* No path of the gates, of the refresh behind a stale answer or of the crons
\* generates an experimental card nobody asked for outright.
THEOREM ExperimentalIsExplicit == Spec => []ExperimentalOnlyExplicit
<1>1. IInv => ExperimentalOnlyExplicit
  BY DEF IInv, JobInv, ExperimentalOnlyExplicit
<1> QED
  BY <1>1, Inductive, PTL
=============================================================================
