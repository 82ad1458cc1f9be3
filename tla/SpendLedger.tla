----------------------------- MODULE SpendLedger -----------------------------
(***************************************************************************)
(* The spending ledger in D1: reservations, attempts and charges            *)
(* (packages/core/src/llm/spend-reservations.ts and                         *)
(* packages/core/src/telemetry/billing.ts, with the triggers of             *)
(* packages/talmud/migrations).  A caller reserves before it contacts a     *)
(* provider, learns the generation's id and its cost as the answer arrives, *)
(* and settles; a cron settles what was interrupted.  A D1 batch is one     *)
(* transaction, so it is one action; what an isolate does between batches   *)
(* interleaves with every other isolate.                                    *)
(***************************************************************************)
EXTENDS Integers, FiniteSets, FiniteSetsExt

CONSTANTS
  Attempt,      \* the attempt ids (randomUUID)
  Native,       \* the attempts through the Workers AI binding: estimated, never billed
  Generation,   \* the provider's generation ids
  HeldAmount,   \* what a reservation may hold
  CostAmount,   \* what a generation may cost
  DailyCap, CustomCap,   \* DAILY_BUDGET_USD, HOURLY_CUSTOM_BUDGET_USD
  Day, Hour,    \* the two windows, in ticks
  HoldExpiry,   \* HOLD_EXPIRY_MS
  Cutoff,       \* the age at which an attempt is reconciled (5 minutes)
  Defer,        \* reconcile_after: how long a looked-up attempt is left alone
  MaxNow,       \* bound: the last tick
  Null

ASSUME ConstantsAssumption ==
  /\ Native \subseteq Attempt /\ IsFiniteSet(Attempt)
  /\ Attempt \cap Generation = {}
  /\ Null \notin Attempt \cup Generation \cup Int
  /\ HeldAmount \subseteq Nat /\ CostAmount \subseteq Nat
  /\ DailyCap \in Nat /\ CustomCap \in Nat /\ Hour \in Nat /\ HoldExpiry \in Nat
  /\ Cutoff \in Nat /\ Defer \in Nat /\ MaxNow \in Nat
  /\ Day \in Nat \ {0}

\* A hold expires with the hour it was made in: both are 3_600_000 ms in the code.
ASSUME WindowAssumption == HoldExpiry = Hour

VARIABLES
  now,          \* the clock
  reservation,  \* attempt -> its row of spend_reservations
  attempt,      \* attempt -> its row of billing_attempts
  charge,       \* charge id -> its row of billing_charges
  call,         \* attempt -> the isolate's BillingAttempt object
  cron,         \* the rows a reconciliation run has read and not yet handled
  genCost,      \* what the provider charges for a generation
  lapsed        \* history: attempts that were still unsettled when their hold expired

db   == <<reservation, attempt, charge>>
vars == <<now, db, call, cron, genCost, lapsed>>

Time     == 0 .. MaxNow
ChargeId == Generation \cup Attempt   \* providerId ?? attempt id, under one key hash
Settled  == CostAmount \cup {0, Null}

NoReservation == [at |-> 0, custom |-> FALSE, held |-> 0, settled |-> Null, basis |-> "none"]
NoAttempt == [status |-> "none", provider |-> Null, charge |-> Null, hit |-> FALSE, after |-> 0]
NoCharge  == [attempt |-> Null, nanos |-> 0]
NoCall    == [pc |-> "idle", at |-> 0, custom |-> FALSE, held |-> 0,
              provider |-> Null, usage |-> Null, hit |-> FALSE]
CallOver  == [NoCall EXCEPT !.pc = "ended"]

ReservationRow ==
  [at : Time, custom : BOOLEAN, held : HeldAmount \cup {0}, settled : Settled,
   basis : {"none", "reserved", "receipt", "estimate", "released"}]
AttemptRow ==
  [status : {"none", "started", "succeeded", "failed"}, provider : Generation \cup {Null},
   charge : ChargeId \cup {Null}, hit : BOOLEAN, after : 0 .. MaxNow + Defer]
ChargeRow  == [attempt : Attempt \cup {Null}, nanos : CostAmount \cup {0}]
CallObject ==
  [pc : {"idle", "asking", "open", "failed", "ended"}, at : Time, custom : BOOLEAN,
   held : HeldAmount \cup {0}, provider : Generation \cup {Null},
   usage : CostAmount \cup {Null}, hit : BOOLEAN]

\* The type invariant; the basis says exactly whether a row is settled.
TypeOK ==
  /\ now \in Time
  /\ reservation \in [Attempt -> ReservationRow]
  /\ attempt \in [Attempt -> AttemptRow]
  /\ charge \in [ChargeId -> ChargeRow]
  /\ call \in [Attempt -> CallObject]
  /\ cron \in [Attempt -> {"none", "started", "succeeded", "failed"}]
  /\ genCost \in [Generation -> CostAmount \cup {Null}]
  /\ lapsed \subseteq Attempt
  /\ \A a \in Attempt :
       /\ (reservation[a].basis \in {"none", "reserved"}) <=> (reservation[a].settled = Null)
       /\ (reservation[a].basis = "none") <=> (attempt[a].status = "none")

Init ==
  /\ now = 0
  /\ reservation = [a \in Attempt |-> NoReservation]
  /\ attempt = [a \in Attempt |-> NoAttempt]
  /\ charge = [c \in ChargeId |-> NoCharge]
  /\ call = [a \in Attempt |-> NoCall]
  /\ cron = [a \in Attempt |-> "none"]
  /\ genCost = [g \in Generation |-> Null]
  /\ lapsed = {}

-----------------------------------------------------------------------------
(* Admission.                                                               *)

Rows == {a \in Attempt : reservation[a].basis # "none"}

DayStart(t) == (t \div Day) * Day

\* A sum of naturals, counted out in units.
Units(S, f) == UNION {{a} \X (1 .. f[a]) : a \in S}
Sum(S, f)   == Cardinality(Units(S, f))

\* What an admission at time t counts a row for: its settled cost; a hold that
\* has not expired; and nothing for an older hold.
Counted(a, t) ==
  IF reservation[a].settled # Null THEN reservation[a].settled
  ELSE IF reservation[a].at >= t - HoldExpiry THEN reservation[a].held ELSE 0

CountedAt(t) == [a \in Attempt |-> Counted(a, t)]

\* The two sums of admissionStatement.  The first is floored at the earlier of
\* the day's start and the expiry, so that holds of yesterday still count.
DailyRows(t) ==
  {a \in Rows : /\ reservation[a].at >= Min({DayStart(t), t - HoldExpiry})
                /\ reservation[a].at >= DayStart(t) \/ reservation[a].settled = Null}
DailyTotal(t)  == Sum(DailyRows(t), CountedAt(t))

\* [defect] the hour's start is taken to be the request's own time
CustomRows_Now(t) == {a \in Rows : reservation[a].custom /\ reservation[a].at >= t}

CustomRows(t)  == {a \in Rows : reservation[a].custom /\ reservation[a].at >= t - Hour}
CustomTotal(t) == Sum(CustomRows(t), CountedAt(t))

Admissible(c) ==
  /\ c.held + DailyTotal(c.at) <= DailyCap
  /\ c.custom => c.held + CustomTotal(c.at) <= CustomCap

\* [defect] the status query forgets the holds made before midnight
StatusRows_Today(t) == {a \in Rows : reservation[a].at >= DayStart(t)}

\* reservationStatus: spent and held apart, over its own floor.
StatusRows(t) == {a \in Rows : reservation[a].at >= Min({DayStart(t), t - Hour})}
ReservationStatus(t) ==
  LET settled == {a \in StatusRows(t) : reservation[a].settled # Null}
      fresh   == {a \in StatusRows(t) \ settled : reservation[a].at >= t - HoldExpiry}
      custom  == {a \in Rows : reservation[a].custom}
      since(first) == {a \in Rows : reservation[a].at >= first}
      spent == [a \in Attempt |-> reservation[a].settled]
      held  == [a \in Attempt |-> reservation[a].held]
  IN [dailySpent  |-> Sum(settled \cap since(DayStart(t)), spent),
      customSpent |-> Sum(settled \cap custom \cap since(t - Hour), spent),
      dailyHeld   |-> Sum(fresh, held),
      customHeld  |-> Sum(fresh \cap custom, held)]

-----------------------------------------------------------------------------
(* One paid call, between reserving and settling.                           *)

\* beginBillingAttempt up to its batch: the time is read before it is used.
Begin(a, h, custom) ==
  /\ call[a].pc = "idle"
  /\ call' = [call EXCEPT ![a] = [@ EXCEPT !.pc = "asking", !.at = now, !.held = h, !.custom = custom]]
  /\ UNCHANGED <<now, db, cron, genCost, lapsed>>

\* The batch: the conditional insert and the attempt that needs it.
Admit(a) ==
  /\ call[a].pc = "asking" /\ Admissible(call[a])
  /\ reservation' = [reservation EXCEPT ![a] =
       [at |-> call[a].at, custom |-> call[a].custom, held |-> call[a].held,
        settled |-> Null, basis |-> "reserved"]]
  /\ attempt' = [attempt EXCEPT ![a].status = "started"]
  /\ call' = [call EXCEPT ![a].pc = "open"]
  /\ lapsed' = IF call[a].at < now - HoldExpiry THEN lapsed \cup {a} ELSE lapsed
  /\ UNCHANGED <<now, charge, cron, genCost>>

\* Not enough room (BudgetPausedError), or the batch failed (503): no row.
Refuse(a) ==
  /\ call[a].pc = "asking"
  /\ call' = [call EXCEPT ![a] = CallOver]
  /\ UNCHANGED <<now, db, cron, genCost, lapsed>>

\* [defect] the trigger is missing
Hit_NoTrigger(a) == reservation

\* An update of billing_attempts that writes gateway_hit = 1 fires
\* settle_older_attempt, which settles the reservation at nothing.
Hit(a) == [reservation EXCEPT ![a].settled = 0, ![a].basis = "receipt"]

\* received: the response's headers.  The write may fail; the object knows.
Received(a) ==
  /\ a \notin Native /\ call[a].pc = "open" /\ ~ call[a].hit
  /\ call[a].provider = Null /\ call[a].usage = Null
  /\ call' = [call EXCEPT ![a].hit = TRUE]
  /\ \/ /\ attempt' = [attempt EXCEPT ![a].hit = TRUE]
        /\ reservation' = Hit(a)
     \/ UNCHANGED <<attempt, reservation>>
  /\ UNCHANGED <<now, charge, cron, genCost, lapsed>>

\* What generation g may cost: an id seen before costs what it cost then.
CostOf(g) == IF genCost[g] # Null THEN {genCost[g]} ELSE CostAmount

\* [defect] the generation id is written without the cache-hit flag
Observe_NoHit(a, g, cost) ==
  /\ call[a].pc = "open" /\ call[a].provider = Null /\ call[a].usage = Null
  /\ cost \in CostOf(g)
  /\ genCost' = [genCost EXCEPT ![g] = cost]
  /\ call' = [call EXCEPT ![a].provider = g]
  /\ attempt' = [attempt EXCEPT ![a].provider = g]
  /\ UNCHANGED <<now, reservation, charge, cron, lapsed>>

\* observe with an id (which comes no later than the usage).  The id of a response replayed from a cache is one an
\* earlier attempt may have paid for.  The write may fail.
Observe(a, g, cost) ==
  /\ call[a].pc = "open" /\ call[a].provider = Null /\ call[a].usage = Null
  /\ cost \in CostOf(g)
  /\ genCost' = [genCost EXCEPT ![g] = cost]
  /\ call' = [call EXCEPT ![a].provider = g]
  /\ \/ /\ attempt' = [attempt EXCEPT ![a].provider = g, ![a].hit = call[a].hit]
        /\ reservation' = IF call[a].hit THEN Hit(a) ELSE reservation
     \/ UNCHANGED <<attempt, reservation>>
  /\ UNCHANGED <<now, charge, cron, lapsed>>

\* observe with usage: for a native attempt its list-price estimate, else the
\* generation's billed cost.  Nothing is written yet.
ObserveUsage(a, cost) ==
  /\ call[a].pc = "open" /\ call[a].usage = Null
  /\ call[a].provider # Null /\ a \notin Native => cost = genCost[call[a].provider]
  /\ call' = [call EXCEPT ![a].usage = cost]
  /\ UNCHANGED <<now, db, cron, genCost, lapsed>>

-----------------------------------------------------------------------------
(* Settlement.                                                              *)

Billed(a, b) == IF b.hit \/ a \in Native THEN Null ELSE b.usage

\* [defect] every attempt is its own charge
ChargeOf_Attempt(a, b) == IF Billed(a, b) = Null THEN Null ELSE a

\* The charge a settlement refers to: the generation's, else the attempt's own.
ChargeOf(a, b) ==
  IF Billed(a, b) = Null THEN Null ELSE IF b.provider # Null THEN b.provider ELSE a

Charged(a, b) ==   \* INSERT ... ON CONFLICT(id) DO NOTHING
  LET id == ChargeOf(a, b)
  IN  IF id # Null /\ charge[id] = NoCharge
      THEN [charge EXCEPT ![id] = [attempt |-> a, nanos |-> Billed(a, b)]] ELSE charge

\* [defect] a failed call gives its hold back even when the provider named it
Released_Named(a, b, st) == st = "failed" /\ Billed(a, b) = Null /\ ~ b.hit

\* A call that failed before the provider named it is released.
Released(a, b, st) == st = "failed" /\ b.provider = Null /\ Billed(a, b) = Null /\ ~ b.hit

Estimate(a, b, st) == IF st = "succeeded" /\ a \in Native THEN b.usage ELSE Null

\* What finish() leaves the reservation's settled cost at.
NewSettled(a, b, st) ==
  IF b.hit THEN 0
  ELSE IF Billed(a, b) # Null
       THEN IF Charged(a, b)[ChargeOf(a, b)].attempt = a THEN Billed(a, b) ELSE 0
  ELSE IF Estimate(a, b, st) # Null THEN Estimate(a, b, st)
  ELSE IF Released(a, b, st) THEN 0 ELSE reservation[a].settled

NewBasis(a, b, st) ==
  IF b.hit \/ Billed(a, b) # Null THEN "receipt"
  ELSE IF Estimate(a, b, st) # Null THEN "estimate"
  ELSE IF Released(a, b, st) THEN "released" ELSE reservation[a].basis

\* finish(): one batch, from what the object b knows.
Settle(a, b, st, after) ==
  /\ charge' = Charged(a, b)
  /\ attempt' = [attempt EXCEPT ![a] = [status |-> st, provider |-> b.provider,
                    charge |-> ChargeOf(a, b), hit |-> b.hit, after |-> after]]
  /\ reservation' = [reservation EXCEPT ![a] =
       [@ EXCEPT !.settled = NewSettled(a, b, st), !.basis = NewBasis(a, b, st)]]

\* The caller finishes.  A failure inside the retry loop is finished there and
\* once more by the handler around it.  The batch may fail, and is not retried.
Finish(a, st) ==
  /\ call[a].pc = "open" \/ (call[a].pc = "failed" /\ st = "failed")
  /\ call' = [call EXCEPT ![a] =
       IF @.pc = "open" /\ st = "failed" THEN [@ EXCEPT !.pc = "failed"] ELSE CallOver]
  /\ Settle(a, call[a], st, attempt[a].after) \/ UNCHANGED db
  /\ UNCHANGED <<now, cron, genCost, lapsed>>

\* The isolate is evicted with the call in flight.
Evict(a) ==
  /\ call[a].pc \in {"asking", "open", "failed"}
  /\ call' = [call EXCEPT ![a] = CallOver]
  /\ UNCHANGED <<now, db, cron, genCost, lapsed>>

-----------------------------------------------------------------------------
(* Reconciliation.                                                          *)

\* Native attempts are recorded under another key hash.
Unreconciled(a) ==
  /\ a \notin Native /\ attempt[a].charge = Null /\ ~ attempt[a].hit
  /\ attempt[a].provider # Null
  /\ reservation[a].at < now - Cutoff /\ attempt[a].after <= now

\* The run's one query.  Its answer is used row by row, as the lookups return.
ReconcileSelect ==
  /\ \A a \in Attempt : cron[a] = "none"
  /\ \E a \in Attempt : Unreconciled(a)
  /\ cron' = [a \in Attempt |-> IF Unreconciled(a) THEN attempt[a].status ELSE "none"]
  /\ UNCHANGED <<now, db, call, genCost, lapsed>>

\* A row's lookup answers with its cost, and the row is settled under the
\* status the query returned.  (The deferral is written before the lookup.)
ReconcileRow(a) ==
  LET b == [NoCall EXCEPT !.provider = attempt[a].provider,
                          !.usage = genCost[attempt[a].provider]]
  IN /\ cron[a] # "none"
     /\ cron' = [cron EXCEPT ![a] = "none"]
     /\ Settle(a, b, IF cron[a] = "succeeded" THEN "succeeded" ELSE "failed", now + Defer)
     /\ UNCHANGED <<now, call, genCost, lapsed>>

\* The lookup or its settlement fails: the row waits for a later run.
ReconcileMiss(a) ==
  /\ cron[a] # "none"
  /\ cron' = [cron EXCEPT ![a] = "none"]
  /\ attempt' = [attempt EXCEPT ![a].after = now + Defer]
  /\ UNCHANGED <<now, reservation, charge, call, genCost, lapsed>>

Tick ==
  /\ now < MaxNow
  /\ now' = now + 1
  /\ lapsed' = lapsed \cup {a \in Rows : reservation[a].settled = Null
                                         /\ reservation[a].at < now' - HoldExpiry}
  /\ UNCHANGED <<db, call, cron, genCost>>

Step(a) ==
  \/ \E h \in HeldAmount, custom \in BOOLEAN : Begin(a, h, custom)
  \/ Admit(a) \/ Refuse(a)
  \/ Received(a)
  \/ \E g \in Generation, cost \in CostAmount : Observe(a, g, cost)
  \/ \E cost \in CostAmount : ObserveUsage(a, cost)
  \/ \E st \in {"succeeded", "failed"} : Finish(a, st)
  \/ Evict(a)
  \/ ReconcileRow(a) \/ ReconcileMiss(a)

Next == Tick \/ ReconcileSelect \/ \E a \in Attempt : Step(a)

Spec == Init /\ [][Next]_vars

-----------------------------------------------------------------------------
(* Properties.                                                              *)

\* A row's share of a cap: its cost, but no more than it reserved (what a
\* receipt adds beyond the hold is only seen by later admissions).
Share(a) ==
  LET r == reservation[a] IN IF r.settled = Null THEN r.held ELSE Min({r.settled, r.held})
Shares == [a \in Attempt |-> Share(a)]

\* The requests started on one day never share more than the daily cap, however
\* their admissions and settlements interleave; the only ones left out are
\* those whose hold expired before their cost was known.
DailyWithinCap ==
  \A d \in {DayStart(t) : t \in Time} :
    Sum({a \in Rows \ lapsed : DayStart(reservation[a].at) = d}, Shares) <= DailyCap

\* The custom questions of any hour, wherever the hour starts, never share more
\* than the hourly cap: a hold outlives the window it is counted in.
CustomWithinCap ==
  \A t \in Time :
    Sum({a \in Rows : reservation[a].custom /\ reservation[a].at \in t .. t + Hour}, Shares)
      <= CustomCap

\* Neither cap is exceeded: the day's by all requests, any hour's by the custom.
CapsHold == DailyWithinCap /\ CustomWithinCap

\* The two queries written for one total agree: what reservationStatus reports
\* as spent and held is what an admission at that moment would count.
StatusAgrees ==
  LET s == ReservationStatus(now)
  IN  /\ s.dailySpent + s.dailyHeld = DailyTotal(now)
      /\ s.customSpent + s.customHeld = CustomTotal(now)

\* One generation is paid for once, however many attempts received its answer
\* and however the caller and the cron settle them.
ChargedOnce ==
  \A a, b \in Attempt :
    /\ a # b /\ attempt[a].provider # Null /\ attempt[a].provider = attempt[b].provider
    /\ reservation[a].basis = "receipt" /\ reservation[b].basis = "receipt"
    => reservation[a].settled = 0 \/ reservation[b].settled = 0

\* The spending totals and the charges tell one story: a charge is what its
\* attempt's reservation was settled at, and a receipt above nothing has one.
ReceiptsBacked ==
  /\ \A c \in ChargeId : charge[c].attempt # Null =>
       /\ reservation[charge[c].attempt].settled = charge[c].nanos
       /\ reservation[charge[c].attempt].basis = "receipt"
  /\ \A a \in Attempt : reservation[a].basis = "receipt" /\ reservation[a].settled # 0 =>
       \E c \in ChargeId : charge[c].attempt = a /\ charge[c].nanos = reservation[a].settled

\* An attempt the cron no longer looks for, because it is charged or was a
\* cache hit, does not leave its hold behind.
NoneStranded ==
  \A a \in Attempt : attempt[a].charge # Null \/ attempt[a].hit => reservation[a].settled # Null

\* Money once counted is neither dropped nor changed: not by a second finish,
\* not by a reconciliation that read the row before its call ended.
SettlementFinal ==
  [][\A a \in Attempt : reservation[a].settled # Null =>
       reservation'[a].settled = reservation[a].settled]_vars

\* docs/cost-accounting.md: a request without a known cost keeps its hold,
\* across midnight and hourly boundaries, and holds do not expire.
UnknownCostKeepsHold ==
  \A a \in Rows : reservation[a].settled = Null => Counted(a, now) = reservation[a].held

=============================================================================
