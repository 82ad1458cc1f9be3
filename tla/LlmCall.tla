------------------------------ MODULE LlmCall ------------------------------
(***************************************************************************)
(* One call of runLLM (core/src/llm/llm.ts).  It walks a chain of models    *)
(* and awaits one at a time, under a hard timer.  Each model is asked by a  *)
(* task of its own: attempts with backoff (ai-gateway.ts, runWithRetry),    *)
(* each opened in the D1 ledger before the provider hears of it and         *)
(* finished there afterwards (billing.ts; the rows themselves are module    *)
(* SpendLedger).  A task the hard timer has abandoned keeps running.  A     *)
(* provider may answer, fail or stay silent; a D1 write may fail.           *)
(***************************************************************************)
EXTENDS Naturals, Sequences

CONSTANTS Chain,        \* the transports of the chain's models: "gateway" or "native"
          MaxAttempts   \* MAX_ATTEMPTS

ASSUME ChainAssumption == Chain \in Seq({"gateway", "native"}) /\ Chain # <<>>
ASSUME AttemptsAssumption == MaxAttempts \in Nat \ {0}

VARIABLES call,     \* runLLM itself
          cur,      \* the position in the chain it awaits
          stream,   \* opts.stream
          at,       \* at[p]: what the task of position p awaits
          why,      \* why[p]: the answer or the class of error p's task has in hand
          tries,    \* tries[p]: attempts p's task has begun
          row,      \* row[p][k]: the ledger's row of p's k-th attempt
          missed,   \* rows for which a write to the ledger has failed (history)
          fired,    \* positions whose AbortController has fired
          expired   \* positions the hard timer has abandoned (history)

vars == <<call, cur, stream, at, why, tries, row, missed, fired, expired>>

Positions == DOMAIN Chain
Gateway(p) == Chain[p] = "gateway"

(* llm-error.ts: TRANSIENT, TIMEOUT, NEITHER. *)
Errors == {"transient", "timeout", "refused"}
FallbackWorthy(e) == e \in {"transient", "timeout"}

(* The finish() of an attempt is under way: in the retry loop, in the        *)
(* handler around it, or for an answer.                                      *)
Finishing == {"closing", "outer", "settling"}
Stations  == {"idle", "admitting", "asking", "reading", "backoff", "over"} \union Finishing

TypeOK ==
  /\ call \in {"gate", "running", "answered", "failed"}
  /\ cur \in Positions /\ stream \in BOOLEAN
  /\ at \in [Positions -> Stations]
  /\ why \in [Positions -> Errors \union {"none", "answer"}]
  /\ tries \in [Positions -> 0 .. MaxAttempts]
  /\ row \in [Positions -> [1 .. MaxAttempts -> {"none", "open", "succeeded", "failed"}]]
  /\ missed \subseteq Positions \X (1 .. MaxAttempts)
  /\ fired \subseteq Positions /\ expired \subseteq Positions

Init ==
  /\ call = "gate" /\ cur = 1 /\ stream \in BOOLEAN
  /\ at = [p \in Positions |-> "idle"]
  /\ why = [p \in Positions |-> "none"]
  /\ tries = [p \in Positions |-> 0]
  /\ row = [p \in Positions |-> [k \in 1 .. MaxAttempts |-> "none"]]
  /\ missed = {} /\ fired = {} /\ expired = {}

-----------------------------------------------------------------------------
walk   == <<call, cur, expired>>
ledger == <<row, missed>>

(* callOnce for position p: its first attempt asks for admission. *)
Begin(p) ==
  /\ at' = [at EXCEPT ![p] = "admitting"]
  /\ tries' = [tries EXCEPT ![p] = 1]

(* checkBudget, before anything is spent: a pause surfaces at once. *)
Gate ==
  /\ call = "gate"
  /\ \/ call' = "running" /\ Begin(1)
     \/ call' = "failed" /\ UNCHANGED <<at, tries>>
  /\ UNCHANGED <<cur, stream, why, ledger, fired, expired>>

(* The task of p now holds outcome e and waits at st. *)
Moves(p, st, e) ==
  /\ at' = [at EXCEPT ![p] = st]
  /\ why' = [why EXCEPT ![p] = e]
  /\ UNCHANGED <<walk, stream, tries, fired>>

(* beginBillingAttempt has written the row; a fetch whose signal has fired   *)
(* already rejects at once.                                                  *)
Admit(p) ==
  /\ at[p] = "admitting"
  /\ row' = [row EXCEPT ![p][tries[p]] = "open"]
  /\ IF p \in fired THEN Moves(p, "closing", "timeout") ELSE Moves(p, "asking", "none")
  /\ UNCHANGED missed

(* No admission: no room, a missing setting, or D1 has failed, perhaps with  *)
(* the row written.  Never retried, never failed over, and the gateway's     *)
(* outer handler finds no attempt to finish.                                 *)
Refuse(p) ==
  /\ at[p] = "admitting"
  /\ \/ UNCHANGED ledger
     \/ /\ row' = [row EXCEPT ![p][tries[p]] = "open"]
        /\ missed' = missed \union {<<p, tries[p]>>}
  /\ Moves(p, "over", "refused")

(* The provider answers: in full over the native binding unless it streams, *)
(* else with headers, and the body is still to come.                         *)
Respond(p) ==
  /\ at[p] = "asking"
  /\ IF Gateway(p) \/ stream THEN Moves(p, "reading", "none")
                             ELSE Moves(p, "settling", "answer")
  /\ UNCHANGED ledger

AskFails_KeepsRowOpen(p) ==
  /\ at[p] = "asking"
  /\ \E e \in Errors : Moves(p, IF e = "transient" /\ tries[p] < MaxAttempts
                                THEN "backoff" ELSE "closing", e)
  /\ UNCHANGED ledger

(* The network, the provider or a status other than 2xx ends the attempt. *)
AskFails(p) ==
  /\ at[p] = "asking"
  /\ \E e \in Errors : Moves(p, "closing", e)
  /\ UNCHANGED ledger

(* The whole body, or the end of the stream. *)
BodyRead(p) ==
  /\ at[p] = "reading"
  /\ Moves(p, "settling", "answer")
  /\ UNCHANGED ledger

(* The body breaks off.  JSON is read inside the retry loop, a stream is     *)
(* not; an aborted read counts as a timeout.                                 *)
BodyFails(p) ==
  /\ at[p] = "reading"
  /\ \E e \in IF p \in fired THEN {"timeout"} ELSE Errors :
       Moves(p, IF stream THEN "outer" ELSE "closing", e)
  /\ UNCHANGED ledger

(* Where the task goes once its attempt is finished: out of the retry loop   *)
(* only if there is nothing left to retry, and then, on the gateway, through *)
(* the handler around it, which finishes the attempt once more.              *)
Retries(p) == why[p] = "transient" /\ tries[p] < MaxAttempts

Onward(p) ==
  CASE at[p] = "closing" /\ Retries(p)               -> "backoff"
    [] at[p] = "closing" /\ ~Retries(p) /\ Gateway(p) -> "outer"
    [] OTHER                                          -> "over"

(* A failed write of an answer's settlement would be one more failed attempt. *)
Finish_Throws(p) ==
  /\ at[p] \in Finishing
  /\ \/ /\ row' = [row EXCEPT ![p][tries[p]] =
                     IF at[p] = "settling" THEN "succeeded" ELSE "failed"]
        /\ UNCHANGED missed
        /\ Moves(p, Onward(p), why[p])
     \/ /\ missed' = missed \union {<<p, tries[p]>>}
        /\ UNCHANGED row
        /\ Moves(p, IF at[p] = "settling" THEN "outer" ELSE Onward(p), "transient")

(* BillingAttempt.finish: one batch, and a failure of it is swallowed. *)
Finish(p) ==
  /\ at[p] \in Finishing
  /\ \/ /\ row' = [row EXCEPT ![p][tries[p]] =
                     IF at[p] = "settling" THEN "succeeded" ELSE "failed"]
        /\ UNCHANGED missed
     \/ /\ missed' = missed \union {<<p, tries[p]>>}
        /\ UNCHANGED row
  /\ Moves(p, Onward(p), why[p])

Retry_IgnoresSignal(p) ==
  /\ at[p] = "backoff"
  /\ at' = [at EXCEPT ![p] = "admitting"]
  /\ tries' = [tries EXCEPT ![p] = @ + 1]
  /\ UNCHANGED <<walk, stream, why, ledger, fired>>

(* The backoff is over.  Only the gateway passes its signal to delay(). *)
Retry(p) ==
  /\ at[p] = "backoff" /\ ~(Gateway(p) /\ p \in fired)
  /\ at' = [at EXCEPT ![p] = "admitting"]
  /\ tries' = [tries EXCEPT ![p] = @ + 1]
  /\ UNCHANGED <<walk, stream, why, ledger, fired>>

(* delay() rejects, now or as soon as it is called. *)
BackoffAborted(p) ==
  /\ at[p] = "backoff" /\ Gateway(p) /\ p \in fired
  /\ Moves(p, "outer", "timeout")
  /\ UNCHANGED ledger

(* The gateway's AbortController fires.  workerd may or may not break off    *)
(* the transfer: BodyFails and AskFails stay enabled, none is forced.        *)
Fire(p) ==
  /\ Gateway(p) /\ p \notin fired /\ at[p] \notin {"idle", "over"}
  /\ fired' = fired \union {p}
  /\ UNCHANGED <<walk, stream, at, why, tries, ledger>>

(* runLLM has error e for cur: the next model, or the end. *)
WalkOn(e) ==
  /\ IF FallbackWorthy(e) /\ cur < Len(Chain)
     THEN cur' = cur + 1 /\ Begin(cur + 1) /\ UNCHANGED call
     ELSE call' = "failed" /\ UNCHANGED <<cur, at, tries>>
  /\ UNCHANGED <<stream, why, ledger, fired>>

(* The task runLLM awaits is over. *)
Returned ==
  /\ call = "running" /\ at[cur] = "over"
  /\ IF why[cur] = "answer"
     THEN call' = "answered" /\ UNCHANGED <<cur, at, tries, stream, why, ledger, fired>>
     ELSE WalkOn(why[cur])
  /\ UNCHANGED expired

(* The timer would be cleared once the provider has begun to answer. *)
HardTimeout_ClearedByHeaders ==
  /\ call = "running" /\ at[cur] \in {"admitting", "asking", "backoff"}
  /\ Gateway(cur) => cur \in fired
  /\ expired' = expired \union {cur}
  /\ WalkOn("timeout")

(* withHardTimeout rejects; the AbortController, set just before it to the   *)
(* same 240 s, has fired by then.                                            *)
HardTimeout ==
  /\ call = "running" /\ at[cur] # "over"
  /\ Gateway(cur) => cur \in fired
  /\ expired' = expired \union {cur}
  /\ WalkOn("timeout")

Task(p) ==
  \/ Admit(p) \/ Refuse(p) \/ Respond(p) \/ AskFails(p) \/ BodyRead(p) \/ BodyFails(p)
  \/ Finish(p) \/ Retry(p) \/ BackoffAborted(p) \/ Fire(p)

Next == Gate \/ Returned \/ HardTimeout \/ \E p \in Positions : Task(p)

Spec == Init /\ [][Next]_vars

(* Timers fire, and runLLM goes on once what it awaits has settled: it reads *)
(* D1 twice outside the timer (checkBudget before, recordSpend after), and    *)
(* those reads answer.  Nothing is assumed of providers or of the tasks, nor *)
(* of the writes an attempt waits for.                                       *)
FairSpec ==
  /\ Spec
  /\ WF_vars(Gate) /\ WF_vars(Returned) /\ WF_vars(HardTimeout)
  /\ \A p \in Positions : WF_vars(Fire(p))

-----------------------------------------------------------------------------
(* Properties *)

(* A task that is over leaves the books true: none of its rows is open and   *)
(* the row of its answer alone is a success, except where a write to the     *)
(* ledger was lost, whoever retried, timed out or was aborted meanwhile.     *)
BooksAgree ==
  \A p \in Positions : at[p] = "over" =>
    \A k \in 1 .. tries[p] : <<p, k>> \notin missed =>
      /\ row[p][k] # "open"
      /\ row[p][k] = "succeeded" <=> k = tries[p] /\ why[p] = "answer"

(* An answer that was received in full, and paid, is never exchanged for     *)
(* another model's or for an error, whatever became of its accounting: only  *)
(* the hard timer can have abandoned it (billing.ts:139-141).                *)
PaidAnswerUsed ==
  [][\A p \in Positions : why[p] = "answer" /\ p \notin expired' =>
       why'[p] = "answer" /\ cur' = p /\ call' # "failed"]_vars

(* Once the AbortController of a gateway call has fired, its task begins no  *)
(* further attempt and contacts no provider, whatever it awaited then.       *)
GivenUpStops ==
  [][\A p \in fired : tries'[p] = tries[p] /\ (at'[p] = "asking" => at[p] = "asking")]_vars

(* No provider that stays silent, and no write of an attempt that never      *)
(* returns, can hang a call: the hard timer does not depend on the transport.*)
CallEnds == <>(call \in {"answered", "failed"})
=============================================================================
