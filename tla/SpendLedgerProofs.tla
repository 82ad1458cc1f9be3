-------------------------- MODULE SpendLedgerProofs --------------------------
(***************************************************************************)
(* Proofs about SpendLedger: for any number of attempts, generations and    *)
(* amounts, what is counted as spent is what was charged, a generation is   *)
(* charged once, a settlement is final, and the shares of the caps that     *)
(* reservations take stay within them.  The inductive invariant says what   *)
(* an isolate's BillingAttempt object, the rows of D1 and a reconciliation  *)
(* in progress may disagree about; the caps add CapInv, and rest on what a  *)
(* sum over a finite set of rows does when rows come, go and change.        *)
(***************************************************************************)
EXTENDS SpendLedger, FiniteSetTheorems, TLAPS

Live(a) == call[a].pc \in {"open", "failed"}

\* The id under which a charge of the attempt is recorded.
Key(a) == IF attempt[a].provider # Null THEN attempt[a].provider ELSE a

\* The object knows at least what the row says, and no more than the truth.
ObjectInv(a) ==
  /\ call[a].pc \in {"idle", "asking"} =>
       /\ reservation[a].basis = "none"
       /\ call[a].provider = Null /\ call[a].usage = Null /\ ~ call[a].hit
  /\ Live(a) => reservation[a].basis # "none"
  /\ reservation[a].basis = "none" => attempt[a] = NoAttempt
  /\ call[a].provider # Null => genCost[call[a].provider] # Null
  /\ call[a].provider # Null /\ a \notin Native /\ call[a].usage # Null =>
       call[a].usage = genCost[call[a].provider]
  /\ attempt[a].provider # Null => genCost[attempt[a].provider] # Null
  /\ Live(a) /\ attempt[a].provider # Null => call[a].provider = attempt[a].provider
  /\ Live(a) /\ attempt[a].provider # Null /\ call[a].hit => attempt[a].hit
  /\ Live(a) /\ attempt[a].hit => call[a].hit
  /\ call[a].hit \/ attempt[a].hit => a \notin Native

\* A row the cron is about to settle is one it may settle.
CronInv(a) ==
  cron[a] # "none" => a \notin Native /\ attempt[a].provider # Null /\ ~ attempt[a].hit

\* What charge c, recorded for attempt a, says of it.
Paid(c, a) ==
  /\ c = Key(a) /\ a \notin Native
  /\ reservation[a].basis = "receipt" /\ reservation[a].settled = charge[c].nanos
  /\ ~ attempt[a].hit /\ (Live(a) => ~ call[a].hit)
  /\ c \in Generation => charge[c].nanos = genCost[c]
  /\ c \notin Generation =>
       /\ call[a].pc \in {"failed", "ended"}
       /\ call[a].pc = "failed" => call[a].usage = charge[c].nanos /\ call[a].provider = Null

ChargeInv(c) ==
  /\ charge[c].attempt = Null => charge[c] = NoCharge
  /\ \A a \in Attempt : charge[c].attempt = a => Paid(c, a)

\* Why a settled row is settled, and why nothing will settle it otherwise.
SettledInv(a) ==
  /\ reservation[a].basis = "estimate" => a \in Native /\ call[a].pc = "ended"
  /\ reservation[a].basis = "released" =>
       /\ reservation[a].settled = 0
       /\ attempt[a].provider = Null /\ ~ attempt[a].hit
       /\ call[a].pc \in {"failed", "ended"}
       /\ call[a].pc = "failed" =>
            call[a].provider = Null /\ ~ call[a].hit /\ Billed(a, call[a]) = Null
  /\ reservation[a].basis = "receipt" => a \notin Native
  /\ reservation[a].basis = "receipt" =>
       \/ charge[Key(a)].attempt = a
       \/ reservation[a].settled = 0
          /\ (attempt[a].hit \/ charge[Key(a)].attempt \notin {Null, a})
  /\ attempt[a].hit => reservation[a].basis = "receipt"
  /\ attempt[a].charge # Null => reservation[a].basis = "receipt"

AttemptInv(a) == ObjectInv(a) /\ CronInv(a) /\ SettledInv(a)

IInv ==
  /\ TypeOK
  /\ \A a \in Attempt : AttemptInv(a)
  /\ \A c \in ChargeId : ChargeInv(c)

-----------------------------------------------------------------------------
USE ConstantsAssumption

LEMMA InitKeeps == Init => IInv
  BY DEF Init, IInv, TypeOK, Time, ReservationRow, AttemptRow, ChargeRow, CallObject, Settled,
         ChargeId, AttemptInv, ObjectInv, CronInv, SettledInv, ChargeInv, Paid, Key, Live, Billed,
         NoReservation, NoAttempt, NoCharge, NoCall

LEMMA NullApart == Null \notin CostAmount \cup {0}
<1>1. CostAmount \subseteq Int /\ 0 \in Int /\ Null \notin Int
  OBVIOUS
<1> QED
  BY ONLY <1>1

\* Updating a function at one point.
LEMMA Updated ==
  ASSUME NEW S, NEW T, NEW f \in [S -> T], NEW a \in S, NEW v \in T
  PROVE  /\ [f EXCEPT ![a] = v] \in [S -> T] /\ [f EXCEPT ![a] = v][a] = v
         /\ \A b \in S \ {a} : [f EXCEPT ![a] = v][b] = f[b]
  OBVIOUS

\* The cron's set of states for a row.
CronState == {"none", "started", "succeeded", "failed"}

\* Everything an action on attempt a may do to what it does not own.
Frame(a) ==
  /\ now' \in Time /\ lapsed' \subseteq Attempt
  /\ cron' \in [Attempt -> CronState] /\ \A b \in Attempt \ {a} : cron'[b] = cron[b]
  /\ genCost' \in [Generation -> CostAmount \cup {Null}]
  /\ \A g \in Generation : genCost[g] # Null => genCost'[g] = genCost[g]
  /\ charge' \in [ChargeId -> ChargeRow]
  /\ \A c \in ChargeId : charge'[c] = charge[c]
                         \/ (charge[c].attempt = Null /\ charge'[c].attempt = a)

\* An action on attempt a has only a's own rows to answer for.
LEMMA OneAttempt ==
  ASSUME IInv, NEW a \in Attempt, Frame(a),
         NEW r \in ReservationRow, NEW t \in AttemptRow, NEW o \in CallObject,
         reservation' = [reservation EXCEPT ![a] = r],
         attempt' = [attempt EXCEPT ![a] = t],
         call' = [call EXCEPT ![a] = o],
         (r.basis \in {"none", "reserved"}) <=> (r.settled = Null),
         (r.basis = "none") <=> (t.status = "none"),
         AttemptInv(a)',
         \A c \in ChargeId : charge'[c].attempt = a => Paid(c, a)'
  PROVE  IInv'
<1>1. /\ reservation' \in [Attempt -> ReservationRow] /\ reservation'[a] = r
      /\ \A b \in Attempt \ {a} : reservation'[b] = reservation[b]
  BY Updated DEF IInv, TypeOK
<1>2. /\ attempt' \in [Attempt -> AttemptRow] /\ attempt'[a] = t
      /\ \A b \in Attempt \ {a} : attempt'[b] = attempt[b]
  BY Updated DEF IInv, TypeOK
<1>3. /\ call' \in [Attempt -> CallObject] /\ call'[a] = o
      /\ \A b \in Attempt \ {a} : call'[b] = call[b]
  BY Updated DEF IInv, TypeOK
<1>4. TypeOK'
  <2>1. ASSUME NEW b \in Attempt
        PROVE  /\ (reservation'[b].basis \in {"none", "reserved"}) <=> (reservation'[b].settled = Null)
               /\ (reservation'[b].basis = "none") <=> (attempt'[b].status = "none")
    BY <1>1, <1>2 DEF IInv, TypeOK
  <2> QED
    BY <1>1, <1>2, <1>3, <2>1 DEF TypeOK, Frame, CronState
<1>5. ASSUME NEW b \in Attempt \ {a}
      PROVE  AttemptInv(b)'
  <2>1. /\ reservation'[b] = reservation[b] /\ attempt'[b] = attempt[b] /\ call'[b] = call[b]
        /\ cron'[b] = cron[b] /\ AttemptInv(b)
        /\ attempt[b] \in AttemptRow /\ call[b] \in CallObject
    BY <1>1, <1>2, <1>3 DEF Frame, IInv, TypeOK
  <2>2. ObjectInv(b)'
    BY <2>1 DEF AttemptInv, ObjectInv, Live, Frame, AttemptRow, CallObject
  <2>3. CronInv(b)'
    BY <2>1 DEF AttemptInv, CronInv
  <2>4. Key(b) \in ChargeId /\ Key(b)' = Key(b)
    BY <2>1 DEF Key, ChargeId, AttemptRow
  <2>5. SettledInv(b)'
    BY <2>1, <2>4 DEF AttemptInv, SettledInv, Frame, Billed
  <2> QED
    BY <2>2, <2>3, <2>5 DEF AttemptInv
<1>6. ASSUME NEW c \in ChargeId PROVE ChargeInv(c)'
  <2>1. charge[c] \in ChargeRow /\ ChargeInv(c)
    BY DEF IInv, TypeOK
  <2>2. charge'[c].attempt = Null => charge'[c] = NoCharge
    BY <2>1 DEF Frame, ChargeInv
  <2>3. ASSUME NEW b \in Attempt \ {a}, charge'[c].attempt = b PROVE Paid(c, b)'
    <3>1. charge'[c] = charge[c] /\ Paid(c, b)
      BY <2>1, <2>3 DEF Frame, ChargeInv
    <3>2. /\ reservation'[b] = reservation[b] /\ attempt'[b] = attempt[b] /\ call'[b] = call[b]
          /\ Key(b)' = Key(b)
      BY <1>1, <1>2, <1>3 DEF Key
    <3>3. c \in Generation => genCost'[c] = genCost[c]
      <4>1. ObjectInv(b)
        BY DEF IInv, AttemptInv
      <4> QED
        BY <3>1, <4>1 DEF Paid, Key, ObjectInv, Frame
    <3> QED
      BY <3>1, <3>2, <3>3 DEF Paid, Live
  <2> QED
    BY <2>2, <2>3 DEF ChargeInv
<1> QED
  BY <1>4, <1>5, <1>6 DEF IInv

\* The rows an action starts from.
LEMMA RowsOf ==
  ASSUME IInv, NEW a \in Attempt
  PROVE  /\ reservation[a] \in ReservationRow /\ attempt[a] \in AttemptRow
         /\ call[a] \in CallObject /\ now \in Time
         /\ AttemptInv(a)
         /\ \A c \in ChargeId : charge[c].attempt = a => Paid(c, a)
         /\ (reservation[a].basis \in {"none", "reserved"}) <=> (reservation[a].settled = Null)
         /\ (reservation[a].basis = "none") <=> (attempt[a].status = "none")
  BY DEF IInv, TypeOK, ChargeInv

LEMMA SameRow ==
  ASSUME IInv, NEW a \in Attempt
  PROVE  /\ reservation = [reservation EXCEPT ![a] = reservation[a]]
         /\ attempt = [attempt EXCEPT ![a] = attempt[a]]
         /\ call = [call EXCEPT ![a] = call[a]]
  BY DEF IInv, TypeOK

\* A step that changes the attempt's object only.
LEMMA OneObject ==
  ASSUME IInv, NEW a \in Attempt, Frame(a), NEW o \in CallObject,
         UNCHANGED <<reservation, attempt>>, call' = [call EXCEPT ![a] = o],
         AttemptInv(a)',
         \A c \in ChargeId : charge'[c].attempt = a => Paid(c, a)'
  PROVE  IInv'
<1>1. /\ reservation' = [reservation EXCEPT ![a] = reservation[a]]
      /\ attempt' = [attempt EXCEPT ![a] = attempt[a]]
  BY SameRow
<1>2. /\ reservation[a] \in ReservationRow /\ attempt[a] \in AttemptRow
      /\ (reservation[a].basis \in {"none", "reserved"}) <=> (reservation[a].settled = Null)
      /\ (reservation[a].basis = "none") <=> (attempt[a].status = "none")
  BY RowsOf
<1> QED
  BY <1>1, <1>2, OneAttempt

\* The record updates the actions make.
LEMMA HitRow ==
  ASSUME NEW x \in AttemptRow
  PROVE  LET y == [x EXCEPT !.hit = TRUE]
         IN  /\ y \in AttemptRow /\ y.hit
             /\ y.status = x.status /\ y.provider = x.provider /\ y.charge = x.charge
  BY DEF AttemptRow

LEMMA HitObject ==
  ASSUME NEW x \in CallObject
  PROVE  LET y == [x EXCEPT !.hit = TRUE]
         IN  /\ y \in CallObject /\ y.hit
             /\ y.pc = x.pc /\ y.provider = x.provider /\ y.usage = x.usage
  BY DEF CallObject

\* What a step that leaves the rest of the state alone keeps.
LEMMA FrameUnchanged ==
  ASSUME IInv, NEW a \in Attempt, UNCHANGED <<now, charge, cron, genCost>>, lapsed' \subseteq Attempt
  PROVE  Frame(a)
  BY DEF IInv, TypeOK, Frame, CronState

-----------------------------------------------------------------------------
(* One lemma per action before the settlement.                              *)

LEMMA BeginKeeps ==
  ASSUME IInv, NEW a \in Attempt, NEW h \in HeldAmount, NEW custom \in BOOLEAN, Begin(a, h, custom)
  PROVE  IInv'
<1> DEFINE o == [call[a] EXCEPT !.pc = "asking", !.at = now, !.held = h, !.custom = custom]
<1>1. o \in CallObject /\ call' = [call EXCEPT ![a] = o] /\ call'[a] = o
  <2>1. call[a] \in CallObject /\ now \in Time
    BY RowsOf
  <2>2. o \in CallObject
    BY <2>1 DEF CallObject
  <2> QED
    BY <2>2 DEF Begin, IInv, TypeOK
<1>2. Frame(a) /\ UNCHANGED db
  BY FrameUnchanged DEF Begin, db, IInv, TypeOK
<1>3. AttemptInv(a)'
  <2>1. /\ o.pc = "asking" /\ o.provider = call[a].provider /\ o.usage = call[a].usage
        /\ o.hit = call[a].hit /\ call[a].pc = "idle"
    BY RowsOf DEF CallObject, Begin
  <2> QED
    BY <1>1, <1>2, <2>1, RowsOf
       DEF Begin, db, AttemptInv, ObjectInv, CronInv, SettledInv, Key, Live
<1>4. ASSUME NEW c \in ChargeId, charge'[c].attempt = a PROVE Paid(c, a)'
  BY <1>2, <1>4, RowsOf DEF db, Begin, Paid, AttemptInv, ObjectInv
<1> HIDE DEF o
<1> QED
  BY <1>1, <1>2, <1>3, <1>4, OneObject DEF db

LEMMA AdmitKeeps == ASSUME IInv, NEW a \in Attempt, Admit(a) PROVE IInv'
<1> DEFINE r == [at |-> call[a].at, custom |-> call[a].custom, held |-> call[a].held,
                 settled |-> Null, basis |-> "reserved"]
           t == [attempt[a] EXCEPT !.status = "started"]
           o == [call[a] EXCEPT !.pc = "open"]
<1>1. /\ reservation' = [reservation EXCEPT ![a] = r] /\ reservation'[a] = r
      /\ attempt' = [attempt EXCEPT ![a] = t] /\ attempt'[a] = t
      /\ call' = [call EXCEPT ![a] = o] /\ call'[a] = o
      /\ call[a].pc = "asking"
  BY DEF Admit, IInv, TypeOK
<1>2. r \in ReservationRow /\ t \in AttemptRow /\ o \in CallObject
  BY RowsOf DEF ReservationRow, AttemptRow, CallObject, Settled
<1>3. UNCHANGED <<now, charge, cron, genCost>> /\ lapsed' \subseteq Attempt
  BY DEF Admit, IInv, TypeOK
<1>4. AttemptInv(a)'
  <2>1. /\ o.pc = "open" /\ o.provider = Null /\ o.usage = Null /\ ~ o.hit
        /\ t.provider = Null /\ t.charge = Null /\ ~ t.hit /\ cron[a] = "none"
    BY <1>1, RowsOf DEF CallObject, AttemptRow, AttemptInv, ObjectInv, CronInv, NoAttempt, IInv, TypeOK
  <2>2. r.basis = "reserved" /\ r.settled = Null
    OBVIOUS
  <2> HIDE DEF r, t, o
  <2> QED
    BY <1>1, <1>3, <2>1, <2>2 DEF AttemptInv, ObjectInv, CronInv, SettledInv, Key, Live
<1>5. ASSUME NEW c \in ChargeId, charge'[c].attempt = a PROVE Paid(c, a)'
  BY <1>1, <1>3, <1>5, RowsOf DEF Paid, AttemptInv, ObjectInv
<1>6. Frame(a)
  BY <1>3, FrameUnchanged
<1>7. t.status = "started" /\ r.basis = "reserved" /\ r.settled = Null
  BY RowsOf DEF AttemptRow
<1> HIDE DEF r, t, o
<1> QED
  BY <1>1, <1>2, <1>4, <1>5, <1>6, <1>7, OneAttempt

LEMMA OverRow ==
  /\ CallOver \in CallObject /\ CallOver.pc = "ended" /\ CallOver.provider = Null
  /\ CallOver.usage = Null /\ CallOver.hit = FALSE
<1>1. NoCall \in CallObject /\ NoCall.provider = Null /\ NoCall.usage = Null /\ NoCall.hit = FALSE
  BY DEF CallObject, NoCall, Time
<1>2. CallOver = [NoCall EXCEPT !.pc = "ended"]
  BY DEF CallOver
<1> HIDE DEF NoCall
<1> QED
  BY <1>1, <1>2 DEF CallObject

\* A call that ends without writing anything.
LEMMA DropKeeps ==
  ASSUME IInv, NEW a \in Attempt, call[a].pc # "idle", call' = [call EXCEPT ![a] = CallOver],
         UNCHANGED <<now, db, cron, genCost, lapsed>>
  PROVE  IInv'
<1>1. Frame(a)
  BY FrameUnchanged DEF db, IInv, TypeOK
<1>2. call'[a] = CallOver
  BY DEF IInv, TypeOK
<1>3. AttemptInv(a)'
  BY <1>2, OverRow, RowsOf DEF AttemptInv, ObjectInv, CronInv, SettledInv, Key, Live, Billed, db
<1>4. ASSUME NEW c \in ChargeId, charge'[c].attempt = a PROVE Paid(c, a)'
  BY <1>2, <1>4, OverRow, RowsOf DEF Paid, Key, Live, db
<1> QED
  BY <1>1, <1>3, <1>4, OverRow, OneObject DEF db

\* Before the provider is named, an open call has charged nothing.
LEMMA NamelessUncharged ==
  ASSUME IInv, NEW a \in Attempt, call[a].pc = "open", call[a].provider = Null
  PROVE  /\ attempt[a].provider = Null /\ cron[a] = "none"
         /\ \A c \in ChargeId : charge[c].attempt # a
  BY RowsOf DEF AttemptInv, ObjectInv, CronInv, Live, Paid, Key, AttemptRow, CallObject, IInv, TypeOK

LEMMA ReceivedKeeps == ASSUME IInv, NEW a \in Attempt, Received(a) PROVE IInv'
<1> DEFINE r == [reservation[a] EXCEPT !.settled = 0, !.basis = "receipt"]
           t == [attempt[a] EXCEPT !.hit = TRUE]
           o == [call[a] EXCEPT !.hit = TRUE]
<1>1. /\ call' = [call EXCEPT ![a] = o] /\ call'[a] = o /\ o \in CallObject
      /\ call[a].pc = "open" /\ call[a].provider = Null /\ ~ call[a].hit
      /\ o.pc = "open" /\ o.provider = Null /\ o.usage = Null /\ o.hit
      /\ a \notin Native
  <2>1. /\ call' = [call EXCEPT ![a].hit = TRUE] /\ call[a].pc = "open" /\ ~ call[a].hit
        /\ call[a].provider = Null /\ call[a].usage = Null /\ a \notin Native
    BY DEF Received
  <2>2. call[a] \in CallObject /\ o \in CallObject /\ o.hit
        /\ o.pc = call[a].pc /\ o.provider = call[a].provider /\ o.usage = call[a].usage
    BY RowsOf, HitObject
  <2>3. call' = [call EXCEPT ![a] = o] /\ call'[a] = o
    BY <2>1 DEF IInv, TypeOK
  <2> QED
    BY <2>1, <2>2, <2>3
<1>2. Frame(a) /\ UNCHANGED <<charge, cron, genCost>>
  BY FrameUnchanged DEF Received, IInv, TypeOK
<1>3. attempt[a].provider = Null /\ cron[a] = "none" /\ reservation[a].basis # "none"
  BY <1>1, NamelessUncharged, RowsOf DEF AttemptInv, ObjectInv, Live
<1>4. ASSUME NEW c \in ChargeId, charge'[c].attempt = a PROVE Paid(c, a)'
  BY <1>1, <1>2, <1>4, NamelessUncharged
<1>5. CASE UNCHANGED <<attempt, reservation>>
  <2>1. AttemptInv(a)'
    BY <1>1, <1>2, <1>3, <1>5, RowsOf
       DEF AttemptInv, ObjectInv, CronInv, SettledInv, Key, Live
  <2> HIDE DEF o
  <2> QED
    BY <1>1, <1>2, <1>4, <1>5, <2>1, OneObject
<1>6. CASE attempt' = [attempt EXCEPT ![a].hit = TRUE] /\ reservation' = Hit(a)
  <2>1. /\ reservation' = [reservation EXCEPT ![a] = r] /\ reservation'[a] = r
        /\ attempt' = [attempt EXCEPT ![a] = t] /\ attempt'[a] = t
    BY <1>6 DEF Hit, IInv, TypeOK
  <2>2. /\ r \in ReservationRow /\ t \in AttemptRow
        /\ r.settled = 0 /\ r.basis = "receipt" /\ t.status = attempt[a].status
        /\ t.hit /\ t.provider = attempt[a].provider /\ t.charge = attempt[a].charge
    <3>1. reservation[a] \in ReservationRow /\ attempt[a] \in AttemptRow /\ 0 \in Settled
      BY RowsOf DEF Settled
    <3>2. r \in ReservationRow /\ r.settled = 0 /\ r.basis = "receipt"
      BY <3>1 DEF ReservationRow
    <3>3. /\ t \in AttemptRow /\ t.hit /\ t.status = attempt[a].status
          /\ t.provider = attempt[a].provider /\ t.charge = attempt[a].charge
      BY <3>1, HitRow
    <3> HIDE DEF r, t
    <3> QED
      BY <3>2, <3>3
  <2>3. AttemptInv(a)'
    BY <1>1, <1>2, <1>3, <2>1, <2>2, RowsOf
       DEF AttemptInv, ObjectInv, CronInv, SettledInv, Key, Live
  <2>4. reservation[a].basis # "none" /\ attempt[a].status # "none" /\ 0 # Null
    BY <1>3, RowsOf
  <2> HIDE DEF r, t, o
  <2> QED
    BY <1>1, <1>2, <1>4, <2>1, <2>2, <2>3, <2>4, OneAttempt
<1> QED
  BY <1>5, <1>6 DEF Received

\* The charge recorded under an attempt's own id is its own.
LEMMA OwnCharge == ASSUME IInv, NEW a \in Attempt PROVE charge[a].attempt \in {Null, a}
<1>1. a \in ChargeId /\ charge[a] \in ChargeRow
  BY DEF IInv, TypeOK, ChargeId
<1>2. ASSUME NEW b \in Attempt, charge[a].attempt = b PROVE b = a
  <2>1. a = Key(b) /\ attempt[b] \in AttemptRow
    BY <1>1, <1>2, RowsOf DEF Paid
  <2> QED
    BY <2>1 DEF Key, AttemptRow
<1> QED
  BY <1>1, <1>2 DEF ChargeRow

LEMMA ObserveKeeps ==
  ASSUME IInv, NEW a \in Attempt, NEW g \in Generation, NEW cost \in CostAmount, Observe(a, g, cost)
  PROVE  IInv'
<1> DEFINE t == [attempt[a] EXCEPT !.provider = g, !.hit = call[a].hit]
           o == [call[a] EXCEPT !.provider = g]
           r == [reservation[a] EXCEPT !.settled = 0, !.basis = "receipt"]
<1>1. /\ call[a].pc = "open" /\ call[a].provider = Null /\ call[a].usage = Null
      /\ cost \in CostOf(g) /\ genCost' = [genCost EXCEPT ![g] = cost]
      /\ call' = [call EXCEPT ![a] = o] /\ call'[a] = o
      /\ UNCHANGED <<now, charge, cron, lapsed>>
  BY DEF Observe, IInv, TypeOK
<1>2. /\ call[a] \in CallObject /\ attempt[a] \in AttemptRow /\ reservation[a] \in ReservationRow
      /\ AttemptInv(a)
  BY RowsOf
<1>3. /\ o \in CallObject /\ o.pc = "open" /\ o.provider = g /\ o.usage = Null
      /\ o.hit = call[a].hit
  BY <1>1, <1>2 DEF CallObject
<1>4. /\ t \in AttemptRow /\ t.provider = g /\ t.hit = call[a].hit
      /\ t.status = attempt[a].status /\ t.charge = attempt[a].charge
  BY <1>2 DEF AttemptRow, CallObject
<1>5. r \in ReservationRow /\ r.settled = 0 /\ r.basis = "receipt"
  BY <1>2 DEF ReservationRow, Settled
<1>6. /\ genCost' \in [Generation -> CostAmount \cup {Null}] /\ genCost'[g] = cost /\ cost # Null
      /\ \A h \in Generation : genCost[h] # Null => genCost'[h] = genCost[h]
  BY <1>1, Updated DEF CostOf, IInv, TypeOK
<1>7. Frame(a)
  BY <1>1, <1>6 DEF Frame, CronState, IInv, TypeOK
<1>8. /\ attempt[a].provider = Null /\ cron[a] = "none"
      /\ \A c \in ChargeId : charge[c].attempt # a
      /\ reservation[a].basis # "none" /\ attempt[a].status # "none"
  BY <1>1, NamelessUncharged, RowsOf DEF AttemptInv, ObjectInv, Live
<1>9. ASSUME NEW c \in ChargeId, charge'[c].attempt = a PROVE Paid(c, a)'
  BY <1>1, <1>8, <1>9
<1> HIDE DEF r, t, o
<1>10. CASE UNCHANGED <<attempt, reservation>>
  <2>1. AttemptInv(a)'
    <3>1. ObjectInv(a)'
      BY <1>1, <1>2, <1>3, <1>6, <1>8, <1>10 DEF AttemptInv, ObjectInv, Live
    <3>2. CronInv(a)'
      BY <1>1, <1>8 DEF CronInv
    <3>3. SettledInv(a)'
      BY <1>1, <1>2, <1>3, <1>8, <1>10 DEF AttemptInv, SettledInv, Key
    <3> QED
      BY <3>1, <3>2, <3>3 DEF AttemptInv
  <2> QED
    BY <1>1, <1>3, <1>7, <1>9, <1>10, <2>1, OneObject
<1>11. CASE /\ attempt' = [attempt EXCEPT ![a].provider = g, ![a].hit = call[a].hit]
            /\ reservation' = IF call[a].hit THEN Hit(a) ELSE reservation
  <2>1. attempt' = [attempt EXCEPT ![a] = t] /\ attempt'[a] = t
    BY <1>11 DEF IInv, TypeOK, t
  <2>2. ObjectInv(a)'
    <3>1. reservation'[a].basis # "none"
      BY <1>8, <1>11 DEF Hit, IInv, TypeOK, ReservationRow
    <3> QED
      BY <1>1, <1>2, <1>3, <1>4, <1>6, <1>8, <2>1, <3>1
         DEF AttemptInv, ObjectInv, Live
  <2>3. CronInv(a)'
    BY <1>1, <1>8 DEF CronInv
  <2>4. CASE call[a].hit
    <3>1. reservation' = [reservation EXCEPT ![a] = r] /\ reservation'[a] = r
      BY <1>11, <2>4 DEF Hit, IInv, TypeOK, r
    <3>2. SettledInv(a)'
      <4>1. a \notin Native
        BY <1>2, <2>4 DEF AttemptInv, ObjectInv
      <4> QED
        BY <1>1, <1>3, <1>4, <1>5, <2>1, <2>4, <3>1, <4>1 DEF SettledInv, Key
    <3>3. AttemptInv(a)'
      BY <2>2, <2>3, <3>2 DEF AttemptInv
    <3>4. 0 # Null
      OBVIOUS
    <3> QED
      BY <1>1, <1>3, <1>4, <1>5, <1>7, <1>8, <1>9, <2>1, <3>1, <3>3, <3>4, OneAttempt
  <2>5. CASE ~ call[a].hit
    <3>1. reservation' = reservation /\ reservation[a].basis = "reserved"
      <4>1. ~ attempt[a].hit
        BY <1>1, <1>2, <2>5 DEF AttemptInv, ObjectInv, Live
      <4>2. a \in ChargeId /\ Key(a) = a /\ charge[a].attempt = Null
        BY <1>8, OwnCharge DEF Key, ChargeId
      <4>3. reservation[a].basis \notin {"receipt", "released", "estimate"}
        BY <1>1, <1>2, <4>1, <4>2 DEF AttemptInv, SettledInv
      <4> QED
        BY <1>2, <1>8, <1>11, <2>5, <4>3 DEF ReservationRow
    <3>2. SettledInv(a)'
      BY <1>2, <1>3, <1>4, <2>1, <2>5, <3>1 DEF AttemptInv, SettledInv
    <3>3. AttemptInv(a)'
      BY <2>2, <2>3, <3>2 DEF AttemptInv
    <3> QED
      BY <1>1, <1>2, <1>3, <1>4, <1>7, <1>9, <2>1, <3>1, <3>3, RowsOf, SameRow, OneAttempt
  <2> QED
    BY <2>4, <2>5, <1>2 DEF CallObject
<1> QED
  BY <1>10, <1>11 DEF Observe

LEMMA ObserveUsageKeeps ==
  ASSUME IInv, NEW a \in Attempt, NEW cost \in CostAmount, ObserveUsage(a, cost)
  PROVE  IInv'
<1> DEFINE o == [call[a] EXCEPT !.usage = cost]
<1>1. /\ call[a].pc = "open" /\ call[a].usage = Null
      /\ call[a].provider # Null /\ a \notin Native => cost = genCost[call[a].provider]
      /\ call' = [call EXCEPT ![a] = o] /\ call'[a] = o
      /\ UNCHANGED <<now, db, cron, genCost, lapsed>>
  BY DEF ObserveUsage, IInv, TypeOK
<1>2. call[a] \in CallObject /\ AttemptInv(a)
  BY RowsOf
<1>3. /\ o \in CallObject /\ o.pc = "open" /\ o.provider = call[a].provider
      /\ o.hit = call[a].hit /\ o.usage = cost
  BY <1>1, <1>2 DEF CallObject
<1>4. Frame(a)
  BY <1>1, FrameUnchanged DEF db, IInv, TypeOK
<1> HIDE DEF o
<1>5. AttemptInv(a)'
  BY <1>1, <1>2, <1>3 DEF AttemptInv, ObjectInv, CronInv, SettledInv, Key, Live, db
<1>6. ASSUME NEW c \in ChargeId, charge'[c].attempt = a PROVE Paid(c, a)'
  <2>1. UNCHANGED <<reservation, attempt, charge, genCost>> /\ Paid(c, a)
    BY <1>1, <1>6, RowsOf DEF db
  <2> QED
    BY <1>1, <1>3, <2>1 DEF Paid, Key, Live
<1> QED
  BY <1>1, <1>3, <1>4, <1>5, <1>6, OneObject DEF db

LEMMA TickKeeps == ASSUME IInv, Tick PROVE IInv'
<1>1. now' \in Time /\ lapsed' \subseteq Attempt /\ UNCHANGED <<db, call, cron, genCost>>
  BY DEF Tick, Rows, IInv, TypeOK, Time
<1>2. TypeOK'
  BY <1>1 DEF IInv, TypeOK, db
<1>3. ASSUME NEW a \in Attempt PROVE AttemptInv(a)'
  BY <1>1, RowsOf DEF db, AttemptInv, ObjectInv, CronInv, SettledInv, Key, Live, Billed
<1>4. ASSUME NEW c \in ChargeId PROVE ChargeInv(c)'
  BY <1>1 DEF db, IInv, ChargeInv, Paid, Key, Live
<1> QED
  BY <1>2, <1>3, <1>4 DEF IInv

LEMMA ReconcileSelectKeeps == ASSUME IInv, ReconcileSelect PROVE IInv'
<1>1. /\ UNCHANGED <<now, db, call, genCost, lapsed>>
      /\ cron' = [a \in Attempt |-> IF Unreconciled(a) THEN attempt[a].status ELSE "none"]
  BY DEF ReconcileSelect
<1>2. TypeOK'
  BY <1>1 DEF IInv, TypeOK, AttemptRow, db
<1>3. ASSUME NEW a \in Attempt PROVE AttemptInv(a)'
  <2>1. CronInv(a)'
    BY <1>1, RowsOf DEF CronInv, Unreconciled, db
  <2> QED
    BY <1>1, <2>1, RowsOf DEF db, AttemptInv, ObjectInv, SettledInv, Key, Live, Billed
<1>4. ASSUME NEW c \in ChargeId PROVE ChargeInv(c)'
  BY <1>1 DEF db, IInv, ChargeInv, Paid, Key, Live
<1> QED
  BY <1>2, <1>3, <1>4 DEF IInv

LEMMA ReconcileMissKeeps == ASSUME IInv, NEW a \in Attempt, ReconcileMiss(a) PROVE IInv'
<1> DEFINE t == [attempt[a] EXCEPT !.after = now + Defer]
<1>1. /\ UNCHANGED <<now, reservation, charge, call, genCost, lapsed>>
      /\ cron' = [cron EXCEPT ![a] = "none"] /\ cron'[a] = "none"
      /\ attempt' = [attempt EXCEPT ![a] = t] /\ attempt'[a] = t
      /\ cron[a] # "none"
  BY DEF ReconcileMiss, IInv, TypeOK
<1>2. /\ attempt[a] \in AttemptRow /\ now \in Time /\ AttemptInv(a)
      /\ reservation[a] \in ReservationRow /\ call[a] \in CallObject
      /\ (reservation[a].basis \in {"none", "reserved"}) <=> (reservation[a].settled = Null)
      /\ (reservation[a].basis = "none") <=> (attempt[a].status = "none")
  BY RowsOf
<1>3. /\ t \in AttemptRow /\ t.status = attempt[a].status /\ t.provider = attempt[a].provider
      /\ t.charge = attempt[a].charge /\ t.hit = attempt[a].hit
  BY <1>2 DEF AttemptRow, Time
<1>4. Frame(a)
  BY <1>1 DEF Frame, CronState, IInv, TypeOK
<1>5. reservation[a].basis # "none"
  BY <1>1, <1>2 DEF AttemptInv, ObjectInv, CronInv, NoAttempt
<1> HIDE DEF t
<1>6. AttemptInv(a)'
  BY <1>1, <1>2, <1>3, <1>5 DEF AttemptInv, ObjectInv, CronInv, SettledInv, Key, Live, Billed
<1>7. ASSUME NEW c \in ChargeId, charge'[c].attempt = a PROVE Paid(c, a)'
  <2>1. Paid(c, a)
    BY <1>1, <1>7, RowsOf
  <2> QED
    BY <1>1, <1>3, <2>1 DEF Paid, Key, Live
<1>8. reservation' = [reservation EXCEPT ![a] = reservation[a]] /\ call' = [call EXCEPT ![a] = call[a]]
  BY <1>1, SameRow
<1>9. (reservation[a].basis = "none") <=> (t.status = "none")
  BY <1>2, <1>3
<1> QED
  BY <1>1, <1>2, <1>3, <1>4, <1>6, <1>7, <1>8, <1>9, OneAttempt

-----------------------------------------------------------------------------
(* Settlement.                                                              *)

\* What b must know to settle attempt a.
Knows(a, b) ==
  /\ b \in CallObject
  /\ reservation[a].basis \notin {"none", "estimate"}
  /\ b.provider # Null => genCost[b.provider] # Null
  /\ b.provider # Null /\ a \notin Native /\ b.usage # Null => b.usage = genCost[b.provider]
  /\ attempt[a].provider # Null => b.provider = attempt[a].provider
  /\ attempt[a].hit => b.hit
  /\ b.hit => a \notin Native /\ \A c \in ChargeId : charge[c].attempt # a
  /\ reservation[a].basis = "released" => ~ b.hit /\ b.provider = Null /\ Billed(a, b) = Null
  /\ \A c \in ChargeId \ Generation :
       charge[c].attempt = a => b.provider = Null /\ b.usage = charge[c].nanos

\* The caller's own object does, until the call is over.
LEMMA CallerKnows ==
  ASSUME IInv, NEW a \in Attempt, Live(a) PROVE Knows(a, call[a])
<1>1. AttemptInv(a) /\ call[a] \in CallObject
  BY RowsOf
<1>2. ASSUME NEW c \in ChargeId, charge[c].attempt = a
      PROVE  /\ ~ call[a].hit
             /\ c \notin Generation => call[a].provider = Null /\ call[a].usage = charge[c].nanos
  BY <1>2, RowsOf DEF Paid, Live
<1> QED
  BY <1>1, <1>2 DEF Knows, AttemptInv, ObjectInv, SettledInv, Live

\* So does the reconciliation, once the lookup has answered.
LEMMA CronKnows ==
  ASSUME IInv, NEW a \in Attempt, cron[a] # "none",
         NEW b \in CallObject, b.provider = attempt[a].provider,
         b.usage = genCost[attempt[a].provider], ~ b.hit
  PROVE  Knows(a, b)
<1>1. AttemptInv(a) /\ attempt[a] \in AttemptRow
  BY RowsOf
<1>2. ASSUME NEW c \in ChargeId \ Generation PROVE charge[c].attempt # a
  BY <1>1, RowsOf DEF AttemptInv, CronInv, Paid, Key, AttemptRow
<1> QED
  BY <1>1, <1>2 DEF Knows, AttemptInv, ObjectInv, CronInv, SettledInv, NoAttempt

\* A charge of the attempt is the one a settlement from b would refer to.
LEMMA SameCharge ==
  ASSUME IInv, NEW a \in Attempt, NEW b, Knows(a, b), NEW c \in ChargeId, charge[c].attempt = a
  PROVE  /\ c = (IF b.provider # Null THEN b.provider ELSE a)
         /\ Billed(a, b) # Null => Billed(a, b) = charge[c].nanos /\ ChargeOf(a, b) = c
         /\ c \notin Generation => Billed(a, b) # Null
         /\ ~ b.hit /\ reservation[a].settled = charge[c].nanos /\ reservation[a].basis = "receipt"
         /\ a \notin Native
<1>1. Paid(c, a) /\ attempt[a] \in AttemptRow /\ b \in CallObject /\ ~ b.hit /\ c \in ChargeId
  BY RowsOf DEF Knows
<1>2. charge[c].nanos # Null
  <2>1. charge[c] \in ChargeRow
    BY DEF IInv, TypeOK
  <2>2. charge[c].nanos \in CostAmount \cup {0}
    BY <2>1 DEF ChargeRow
  <2> QED
    BY ONLY <2>2, NullApart
<1>3. c = (IF b.provider # Null THEN b.provider ELSE a)
  BY <1>1 DEF Knows, Paid, Key, ChargeId, AttemptRow
<1> QED
  BY <1>1, <1>2, <1>3 DEF Knows, Paid, Billed, ChargeOf, CallObject

\* What the charges are after a settlement.
LEMMA ChargedRow ==
  ASSUME IInv, NEW a \in Attempt, NEW b, Knows(a, b), charge' = Charged(a, b)
  PROVE  /\ charge' \in [ChargeId -> ChargeRow]
         /\ \A c \in ChargeId : charge'[c] = charge[c]
                                \/ (charge[c].attempt = Null /\ charge'[c].attempt = a)
         /\ Billed(a, b) = Null => charge' = charge
         /\ Billed(a, b) # Null =>
              /\ ChargeOf(a, b) \in ChargeId /\ charge'[ChargeOf(a, b)].attempt # Null
              /\ charge'[ChargeOf(a, b)].attempt = a => charge'[ChargeOf(a, b)].nanos = Billed(a, b)
              /\ \A c \in ChargeId : charge'[c].attempt = a => c = ChargeOf(a, b)
<1>1. b \in CallObject /\ charge \in [ChargeId -> ChargeRow] /\ a # Null
  BY DEF Knows, IInv, TypeOK
<1>2. CASE Billed(a, b) = Null
  BY <1>1, <1>2 DEF Charged, ChargeOf
<1>3. CASE Billed(a, b) # Null
  <2> DEFINE id == ChargeOf(a, b)
             new == [attempt |-> a, nanos |-> Billed(a, b)]
  <2>1. id \in ChargeId /\ id # Null /\ Billed(a, b) \in CostAmount
    BY <1>1, <1>3 DEF ChargeOf, ChargeId, CallObject, Billed
  <2>2. new \in ChargeRow
    BY <2>1 DEF ChargeRow
  <2>3. charge' = IF charge[id] = NoCharge THEN [charge EXCEPT ![id] = new] ELSE charge
    BY <2>1 DEF Charged
  <2>4. ASSUME NEW c \in ChargeId, charge[c].attempt = a PROVE c = id /\ charge[c].nanos = Billed(a, b)
    BY <1>3, <2>4, SameCharge
  <2>5. charge[id].attempt = Null <=> charge[id] = NoCharge
    BY <2>1 DEF IInv, ChargeInv, NoCharge
  <2>6. new.attempt = a /\ new.nanos = Billed(a, b)
    OBVIOUS
  <2> HIDE DEF id, new
  <2>7. CASE charge[id] = NoCharge
    <3>1. /\ charge' \in [ChargeId -> ChargeRow] /\ charge'[id] = new
          /\ \A c \in ChargeId \ {id} : charge'[c] = charge[c]
      BY <1>1, <2>1, <2>2, <2>3, <2>7, Updated
    <3> QED
      BY <1>1, <1>3, <2>1, <2>4, <2>5, <2>6, <2>7, <3>1 DEF id
  <2>8. CASE charge[id] # NoCharge
    BY <1>1, <1>3, <2>1, <2>3, <2>4, <2>5, <2>8 DEF id
  <2> QED
    BY <2>7, <2>8
<1> QED
  BY <1>2, <1>3

\* What a settlement leaves the reservation at: what was counted already stays,
\* and a receipt is backed by the charge.
KeyOf(a, b) == IF b.provider # Null THEN b.provider ELSE a

SettledRight(a, b, st, v, w, c) ==
  /\ v \in Settled /\ w \in {"reserved", "receipt", "estimate", "released"}
  /\ reservation[a].settled # Null => v = reservation[a].settled
  /\ (w = "reserved") <=> (v = Null)
  /\ w = "estimate" => Estimate(a, b, st) # Null
  /\ w = "released" => v = 0 /\ b.provider = Null /\ ~ b.hit /\ Billed(a, b) = Null
  /\ b.hit \/ Billed(a, b) # Null => w = "receipt"
  /\ w = "receipt" =>
       /\ a \notin Native
       /\ \/ charge'[c].attempt = a
          \/ v = 0 /\ (b.hit \/ charge'[c].attempt \notin {Null, a})
  /\ \A d \in ChargeId : charge'[d].attempt = a =>
       w = "receipt" /\ v = charge'[d].nanos /\ ~ b.hit /\ d = c

LEMMA SettleRight ==
  ASSUME IInv, NEW a \in Attempt, NEW b, NEW st \in {"succeeded", "failed"},
         Knows(a, b), reservation[a].basis = "released" => st = "failed", charge' = Charged(a, b)
  PROVE  SettledRight(a, b, st, NewSettled(a, b, st), NewBasis(a, b, st), KeyOf(a, b))
<1> DEFINE v == NewSettled(a, b, st)
           w == NewBasis(a, b, st)
           c == KeyOf(a, b)
<1> HIDE DEF v, w, c
<1>1. /\ b \in CallObject /\ AttemptInv(a) /\ reservation[a] \in ReservationRow
      /\ attempt[a] \in AttemptRow
      /\ (reservation[a].basis \in {"none", "reserved"}) <=> (reservation[a].settled = Null)
      /\ 0 # Null
  BY RowsOf DEF Knows
<1>2. \A d \in ChargeId : charge[d].attempt = a =>
        /\ d = c /\ ~ b.hit /\ reservation[a].settled = charge[d].nanos
        /\ reservation[a].basis = "receipt" /\ a \notin Native
        /\ Billed(a, b) # Null => Billed(a, b) = charge[d].nanos
        /\ d \notin Generation => Billed(a, b) # Null
  BY SameCharge DEF c, KeyOf
<1>3. charge[a].attempt \in {Null, a} /\ a \in ChargeId /\ a \notin Generation /\ c \in ChargeId
  BY <1>1, OwnCharge DEF c, KeyOf, ChargeId, CallObject
\* Where an earlier receipt comes from, seen from b.
<1>4. reservation[a].basis = "receipt" =>
        /\ a \notin Native
        /\ \/ charge[c].attempt = a
           \/ reservation[a].settled = 0 /\ (b.hit \/ charge[c].attempt \notin {Null, a})
        /\ b.provider = Null => b.hit \/ Billed(a, b) # Null
  <2>1. CASE attempt[a].provider # Null
    BY <1>1, <2>1 DEF c, KeyOf, Knows, AttemptInv, SettledInv, Key
  <2>2. CASE attempt[a].provider = Null
    BY <1>1, <1>2, <1>3, <2>2 DEF c, KeyOf, Knows, AttemptInv, SettledInv, Key
  <2> QED
    BY <2>1, <2>2
\* What the row says already.
<1>5. /\ reservation[a].basis \in {"reserved", "receipt", "released"}
      /\ reservation[a].settled \in Settled
      /\ (reservation[a].basis = "reserved") <=> (reservation[a].settled = Null)
      /\ reservation[a].basis = "released" =>
           /\ reservation[a].settled = 0 /\ st = "failed"
           /\ ~ b.hit /\ b.provider = Null /\ Billed(a, b) = Null
  <2>1. reservation[a].basis \in {"none", "reserved", "receipt", "estimate", "released"}
        /\ reservation[a].settled \in Settled
    BY <1>1 DEF ReservationRow
  <2>2. /\ reservation[a].basis \notin {"none", "estimate"}
        /\ reservation[a].basis = "released" => ~ b.hit /\ b.provider = Null /\ Billed(a, b) = Null
    BY DEF Knows
  <2>3. reservation[a].basis = "released" => reservation[a].settled = 0
    BY <1>1 DEF AttemptInv, SettledInv
  <2> QED
    BY <1>1, <2>1, <2>2, <2>3
<1>6. ASSUME b.hit PROVE SettledRight(a, b, st, v, w, c)
  <2>1. v = 0 /\ w = "receipt" /\ Billed(a, b) = Null /\ charge' = charge
    BY <1>1, <1>6, ChargedRow DEF v, w, NewSettled, NewBasis, Billed
  <2>2. a \notin Native
    BY <1>6 DEF Knows
  <2>3. reservation[a].settled # Null => v = reservation[a].settled
    BY <1>2, <1>3, <1>4, <1>5, <1>6, <2>1
  <2> QED
    BY <1>1, <1>2, <1>6, <2>1, <2>2, <2>3 DEF SettledRight, Settled
<1>7. ASSUME ~ b.hit, Billed(a, b) # Null PROVE SettledRight(a, b, st, v, w, c)
  <2>1. /\ ChargeOf(a, b) = c /\ a \notin Native /\ w = "receipt" /\ Billed(a, b) \in CostAmount
    BY <1>1, <1>7 DEF c, w, KeyOf, ChargeOf, NewBasis, Billed, CallObject
  <2>2. /\ charge'[c].attempt # Null
        /\ charge'[c].attempt = a => charge'[c].nanos = Billed(a, b)
        /\ \A d \in ChargeId : charge'[d].attempt = a => d = c
        /\ charge'[c] = charge[c] \/ (charge[c].attempt = Null /\ charge'[c].attempt = a)
    BY <1>3, <1>7, <2>1, ChargedRow
  <2>3. v = IF charge'[c].attempt = a THEN Billed(a, b) ELSE 0
    BY <1>1, <1>7, <2>1 DEF v, NewSettled
  <2>4. reservation[a].settled # Null => v = reservation[a].settled
    BY <1>2, <1>3, <1>4, <1>5, <1>7, <2>2, <2>3
  <2>5. v \in Settled /\ v # Null
    BY <2>1, <2>3, NullApart DEF Settled
  <2>6. charge'[c].attempt = a \/ (v = 0 /\ charge'[c].attempt \notin {Null, a})
    BY <2>2, <2>3
  <2>7. \A d \in ChargeId : charge'[d].attempt = a => v = charge'[d].nanos /\ d = c
    BY <2>2, <2>3
  <2> QED
    BY <1>7, <2>1, <2>4, <2>5, <2>6, <2>7 DEF SettledRight
<1>8. ASSUME ~ b.hit, Billed(a, b) = Null PROVE SettledRight(a, b, st, v, w, c)
  <2>1. charge' = charge
    BY <1>8, ChargedRow
  <2>2. CASE Estimate(a, b, st) # Null
    <3>1. v = Estimate(a, b, st) /\ w = "estimate" /\ a \in Native /\ v \in CostAmount
      BY <1>1, <1>8, <2>2 DEF v, w, NewSettled, NewBasis, Estimate, CallObject
    <3>2. reservation[a].settled = Null /\ \A d \in ChargeId : charge[d].attempt # a
      BY <1>2, <1>4, <1>5, <2>2, <3>1 DEF Estimate
    <3>3. v # Null /\ v \in Settled
      BY <3>1 DEF Settled
    <3> QED
      BY <1>8, <2>1, <2>2, <3>1, <3>2, <3>3 DEF SettledRight
  <2>3. CASE Estimate(a, b, st) = Null /\ Released(a, b, st)
    <3>1. v = 0 /\ w = "released" /\ b.provider = Null
      BY <1>1, <1>8, <2>3 DEF v, w, NewSettled, NewBasis, Released
    <3>2. /\ reservation[a].settled # Null => v = reservation[a].settled
          /\ \A d \in ChargeId : charge[d].attempt # a
      BY <1>2, <1>4, <1>5, <1>8, <3>1
    <3> QED
      BY <1>1, <1>8, <2>1, <3>1, <3>2 DEF SettledRight, Settled
  <2>4. CASE Estimate(a, b, st) = Null /\ ~ Released(a, b, st)
    <3>1. v = reservation[a].settled /\ w = reservation[a].basis
      BY <1>1, <1>8, <2>4 DEF v, w, NewSettled, NewBasis
    <3> QED
      BY <1>2, <1>4, <1>5, <1>8, <2>1, <3>1 DEF SettledRight
  <2> QED
    BY <2>2, <2>3, <2>4
<1>9. SettledRight(a, b, st, v, w, c)
  BY <1>6, <1>7, <1>8
<1> QED
  BY <1>9 DEF v, w, c

\* What is left of the caller's object agrees with what a settlement from b writes.
Agrees(a, b, st, o) ==
  /\ o.pc \in {"open", "failed", "ended"}
  /\ o.provider # Null => genCost[o.provider] # Null
  /\ o.provider # Null /\ a \notin Native /\ o.usage # Null => o.usage = genCost[o.provider]
  /\ o.hit => a \notin Native
  /\ o.pc # "ended" => /\ b.provider # Null => o.provider = b.provider
                       /\ b.hit => o.hit
                       /\ o.hit /\ b.provider # Null => b.hit
                       /\ Estimate(a, b, st) = Null
  /\ b.provider = Null => o.pc \in {"failed", "ended"}
  /\ o.pc = "failed" /\ b.provider = Null =>
       o.provider = Null /\ o.usage = b.usage /\ (o.hit <=> b.hit)

\* The reconciliation has done with the row, or never selects it again.
CronAgrees(a, b) ==
  /\ cron' \in [Attempt -> CronState] /\ \A c \in Attempt \ {a} : cron'[c] = cron[c]
  /\ cron'[a] # "none" => a \notin Native /\ b.provider # Null /\ ~ b.hit

LEMMA SettleKeeps ==
  ASSUME IInv, NEW a \in Attempt, NEW b, NEW st \in {"succeeded", "failed"},
         NEW after \in 0 .. MaxNow + Defer, NEW o \in CallObject,
         Knows(a, b), reservation[a].basis = "released" => st = "failed",
         Settle(a, b, st, after), call' = [call EXCEPT ![a] = o],
         UNCHANGED <<now, genCost, lapsed>>, CronAgrees(a, b), Agrees(a, b, st, o)
  PROVE  IInv'
<1> DEFINE v == NewSettled(a, b, st)
           w == NewBasis(a, b, st)
           c == KeyOf(a, b)
           r == [reservation[a] EXCEPT !.settled = v, !.basis = w]
           t == [status |-> st, provider |-> b.provider, charge |-> ChargeOf(a, b),
                 hit |-> b.hit, after |-> after]
<1>1. SettledRight(a, b, st, v, w, c)
  BY SettleRight DEF Settle
<1>2. /\ charge' = Charged(a, b)
      /\ attempt' = [attempt EXCEPT ![a] = t] /\ attempt'[a] = t
      /\ reservation' = [reservation EXCEPT ![a] = r] /\ reservation'[a] = r
      /\ call'[a] = o
  <2>1. charge' = Charged(a, b) /\ attempt' = [attempt EXCEPT ![a] = t]
    BY DEF Settle
  <2>2. reservation' = [reservation EXCEPT ![a] = r]
    BY DEF Settle
  <2> HIDE DEF r, t
  <2> QED
    BY <2>1, <2>2 DEF IInv, TypeOK
<1>3. b \in CallObject /\ reservation[a] \in ReservationRow
  BY RowsOf DEF Knows
<1>4. /\ charge' \in [ChargeId -> ChargeRow]
      /\ \A d \in ChargeId : charge'[d] = charge[d]
                             \/ (charge[d].attempt = Null /\ charge'[d].attempt = a)
  BY <1>2, ChargedRow
<1>5. ChargeOf(a, b) \in ChargeId \cup {Null}
      /\ (ChargeOf(a, b) # Null => Billed(a, b) # Null)
  BY <1>3 DEF ChargeOf, ChargeId, CallObject
<1>6. t \in AttemptRow /\ t.status = st /\ t.provider = b.provider /\ t.hit = b.hit
      /\ t.charge = ChargeOf(a, b)
  BY <1>3, <1>5 DEF AttemptRow, CallObject
<1> HIDE DEF v, w, c, t
<1>7. r \in ReservationRow /\ r.settled = v /\ r.basis = w
  BY <1>1, <1>3 DEF SettledRight, ReservationRow
<1> HIDE DEF r
<1>8. Frame(a)
  BY <1>4 DEF Frame, CronAgrees, IInv, TypeOK
<1>9. c = KeyOf(a, b) /\ Key(a)' = c
  BY <1>2, <1>6 DEF c, KeyOf, Key
<1>10. AttemptInv(a)'
  <2>1. ObjectInv(a)'
    BY <1>1, <1>2, <1>6, <1>7 DEF ObjectInv, Live, SettledRight, Knows, Agrees
  <2>2. CronInv(a)'
    BY <1>2, <1>6 DEF CronInv, CronAgrees
  <2>3. SettledInv(a)'
    <3>1. w = "estimate" => a \in Native /\ o.pc = "ended"
      BY <1>1 DEF SettledRight, Estimate, Agrees
    <3>2. w = "released" => /\ v = 0 /\ b.provider = Null /\ ~ b.hit
                            /\ o.pc \in {"failed", "ended"}
                            /\ o.pc = "failed" => o.provider = Null /\ ~ o.hit /\ Billed(a, o) = Null
      BY <1>1 DEF SettledRight, Billed, Agrees
    <3>3. /\ b.hit \/ ChargeOf(a, b) # Null => w = "receipt"
          /\ w = "receipt" => /\ a \notin Native
                              /\ \/ charge'[c].attempt = a
                                 \/ v = 0 /\ (b.hit \/ charge'[c].attempt \notin {Null, a})
      BY <1>1, <1>5 DEF SettledRight
    <3> QED
      BY <1>2, <1>6, <1>7, <1>9, <3>1, <3>2, <3>3 DEF SettledInv, Billed
  <2> QED
    BY <2>1, <2>2, <2>3 DEF AttemptInv
<1>11. ASSUME NEW d \in ChargeId, charge'[d].attempt = a PROVE Paid(d, a)'
  <2>1. w = "receipt" /\ v = charge'[d].nanos /\ ~ b.hit /\ d = c /\ a \notin Native
    BY <1>1, <1>11 DEF SettledRight
  <2>2. Billed(a, b) # Null => d = ChargeOf(a, b) /\ v = Billed(a, b)
    BY <1>2, <1>11, <2>1, ChargedRow
  <2>3. Billed(a, b) = Null => charge[d].attempt = a /\ charge'[d] = charge[d]
    BY <1>2, <1>11, ChargedRow
  <2>4. d \in Generation => charge'[d].nanos = genCost[d]
    <3>1. CASE Billed(a, b) = Null
      BY <2>3, <3>1, RowsOf DEF Paid
    <3>2. CASE Billed(a, b) # Null
      <4>1. d \in Generation => d = b.provider
        BY <2>1 DEF c, KeyOf
      <4> QED
        BY <1>3, <2>1, <2>2, <3>2, <4>1 DEF Billed, Knows, CallObject
    <3> QED
      BY <3>1, <3>2
  <2>5. d \notin Generation => b.provider = Null /\ b.usage = charge'[d].nanos
    <3>1. CASE Billed(a, b) = Null
      BY <2>3, <3>1 DEF Knows
    <3>2. CASE Billed(a, b) # Null
      BY <1>3, <2>1, <2>2, <3>2 DEF Billed, c, KeyOf, CallObject
    <3> QED
      BY <3>1, <3>2
  <2>6. o.pc # "ended" => ~ o.hit
    BY <1>3, <2>1 DEF CallObject, Agrees
  <2> QED
    BY <1>2, <1>6, <1>7, <1>9, <2>1, <2>4, <2>5, <2>6 DEF Paid, Live, Agrees
<1>12. (w = "none") <=> (t.status = "none")
  BY <1>1, <1>6 DEF SettledRight
<1>13. (w \in {"none", "reserved"}) <=> (v = Null)
  BY <1>1 DEF SettledRight
<1> QED
  BY <1>2, <1>6, <1>7, <1>8, <1>10, <1>11, <1>12, <1>13, OneAttempt

LEMMA FinishKeeps ==
  ASSUME IInv, NEW a \in Attempt, NEW st \in {"succeeded", "failed"}, Finish(a, st) PROVE IInv'
<1> DEFINE b == call[a]
           o == IF call[a].pc = "open" /\ st = "failed" THEN [call[a] EXCEPT !.pc = "failed"] ELSE CallOver
<1>1. /\ call[a].pc = "open" \/ (call[a].pc = "failed" /\ st = "failed")
      /\ call' = [call EXCEPT ![a] = o] /\ UNCHANGED <<now, cron, genCost, lapsed>>
      /\ Settle(a, b, st, attempt[a].after) \/ UNCHANGED db
  BY DEF Finish, IInv, TypeOK
<1>2. /\ b \in CallObject /\ AttemptInv(a) /\ Live(a) /\ attempt[a] \in AttemptRow
      /\ attempt[a].after \in 0 .. MaxNow + Defer
  BY <1>1, RowsOf DEF Live, AttemptRow
<1>3. \/ /\ o = CallOver /\ o.pc = "ended" /\ o.provider = Null /\ o.usage = Null /\ o.hit = FALSE
         /\ o \in CallObject
      \/ /\ st = "failed" /\ o \in CallObject /\ o.pc = "failed" /\ o.provider = b.provider
         /\ o.usage = b.usage /\ o.hit = b.hit
  BY <1>2, OverRow DEF CallObject
<1>4. Knows(a, b)
  BY <1>2, CallerKnows
<1>5. reservation[a].basis = "released" => st = "failed"
  BY <1>1, <1>2 DEF AttemptInv, SettledInv
<1>6. /\ cron \in [Attempt -> CronState]
      /\ cron[a] # "none" => a \notin Native /\ b.provider # Null /\ ~ b.hit
  BY <1>2 DEF IInv, TypeOK, CronState, AttemptInv, ObjectInv, CronInv, Live
<1>7. o.pc # "ended" => Estimate(a, b, st) = Null
  BY <1>3 DEF Estimate
<1>8. /\ b.provider # Null => genCost[b.provider] # Null
      /\ b.provider # Null /\ a \notin Native /\ b.usage # Null => b.usage = genCost[b.provider]
      /\ b.hit => a \notin Native
  BY <1>2 DEF AttemptInv, ObjectInv
<1> HIDE DEF b, o
<1>9. CASE Settle(a, b, st, attempt[a].after)
  <2>1. CronAgrees(a, b)
    BY <1>1, <1>6 DEF CronAgrees
  <2>2. Agrees(a, b, st, o) /\ o \in CallObject
    BY <1>3, <1>7, <1>8 DEF Agrees
  <2> QED
    BY <1>1, <1>2, <1>4, <1>5, <1>9, <2>1, <2>2, SettleKeeps
<1>10. CASE UNCHANGED db
  <2>1. CASE o = CallOver
    BY <1>1, <1>10, <2>1, DropKeeps
  <2>2. CASE /\ st = "failed" /\ o \in CallObject /\ o.pc = "failed" /\ o.provider = b.provider
             /\ o.usage = b.usage /\ o.hit = b.hit
    <3>1. call'[a] = o /\ b = call[a]
      BY <1>1 DEF IInv, TypeOK, b
    <3>2. Frame(a)
      BY <1>1, <1>10, FrameUnchanged DEF db, IInv, TypeOK
    <3>3. AttemptInv(a)'
      BY <1>1, <1>2, <1>10, <2>2, <3>1
         DEF db, AttemptInv, ObjectInv, CronInv, SettledInv, Key, Live, Billed
    <3>4. ASSUME NEW c \in ChargeId, charge'[c].attempt = a PROVE Paid(c, a)'
      <4>1. Paid(c, a) /\ UNCHANGED <<reservation, attempt, charge>>
        BY <1>10, <3>4, RowsOf DEF db
      <4>2. c \notin Generation => b.provider = Null /\ b.usage = charge[c].nanos
        BY <1>4, <1>10, <3>4 DEF Knows, db
      <4> QED
        BY <1>1, <1>2, <2>2, <3>1, <4>1, <4>2 DEF Paid, Key, Live
    <3> QED
      BY <1>1, <1>10, <2>2, <3>2, <3>3, <3>4, OneObject DEF db
  <2> QED
    BY <1>3, <2>1, <2>2
<1> QED
  BY <1>1, <1>9, <1>10

LEMMA ReconcileRowKeeps ==
  ASSUME IInv, NEW a \in Attempt, ReconcileRow(a) PROVE IInv'
<1> DEFINE b == [NoCall EXCEPT !.provider = attempt[a].provider, !.usage = genCost[attempt[a].provider]]
           st == IF cron[a] = "succeeded" THEN "succeeded" ELSE "failed"
           o == call[a]
<1>1. /\ cron[a] # "none" /\ cron' = [cron EXCEPT ![a] = "none"]
      /\ Settle(a, b, st, now + Defer) /\ UNCHANGED <<now, call, genCost, lapsed>>
  BY DEF ReconcileRow
<1>2. /\ AttemptInv(a) /\ attempt[a] \in AttemptRow /\ call[a] \in CallObject
      /\ now + Defer \in 0 .. MaxNow + Defer
  BY RowsOf DEF Time
<1>3. /\ attempt[a].provider \in Generation /\ genCost[attempt[a].provider] \in CostAmount
      /\ a \notin Native /\ ~ attempt[a].hit
  BY <1>1, <1>2 DEF AttemptInv, CronInv, ObjectInv, AttemptRow, IInv, TypeOK
<1>4. NoCall \in CallObject /\ ~ NoCall.hit
  BY DEF NoCall, CallObject, Time
<1>5. /\ b \in CallObject /\ b.provider = attempt[a].provider
      /\ b.usage = genCost[attempt[a].provider] /\ ~ b.hit
  BY <1>3, <1>4 DEF CallObject
<1> HIDE DEF b
<1>6. Knows(a, b)
  BY <1>1, <1>5, CronKnows
<1>7. reservation[a].basis # "released" /\ reservation[a].basis # "none"
  BY <1>2, <1>3, <1>6 DEF AttemptInv, SettledInv, Knows
<1>8. call' = [call EXCEPT ![a] = o]
  BY <1>1, SameRow
<1>9. CronAgrees(a, b)
  BY <1>1 DEF CronAgrees, IInv, TypeOK, CronState
<1>10. o.pc \in {"open", "failed", "ended"}
  BY <1>2, <1>7 DEF AttemptInv, ObjectInv, CallObject
<1>11. Estimate(a, b, st) = Null /\ st \in {"succeeded", "failed"}
  BY <1>3 DEF Estimate
<1>12. /\ o.provider # Null => genCost[o.provider] # Null
       /\ o.provider # Null /\ a \notin Native /\ o.usage # Null => o.usage = genCost[o.provider]
       /\ o.pc # "ended" => o.provider = b.provider /\ (o.hit <=> b.hit)
  BY <1>2, <1>3, <1>5, <1>10 DEF AttemptInv, ObjectInv, Live
<1>13. b.provider # Null /\ o \in CallObject
  BY <1>2, <1>3, <1>5
<1> HIDE DEF st, o
<1>14. Agrees(a, b, st, o)
  BY <1>3, <1>10, <1>11, <1>12, <1>13 DEF Agrees
<1> QED
  BY <1>1, <1>2, <1>6, <1>7, <1>8, <1>9, <1>11, <1>13, <1>14, SettleKeeps

-----------------------------------------------------------------------------
(* The theorems.                                                            *)

LEMMA StepKeeps == ASSUME IInv, [Next]_vars PROVE IInv'
<1>1. CASE Tick
  BY <1>1, TickKeeps
<1>2. CASE ReconcileSelect
  BY <1>2, ReconcileSelectKeeps
<1>3. ASSUME NEW a \in Attempt, Step(a) PROVE IInv'
  <2>1. ASSUME NEW h \in HeldAmount, NEW custom \in BOOLEAN, Begin(a, h, custom) PROVE IInv'
    BY <2>1, BeginKeeps
  <2>2. CASE Admit(a)
    BY <2>2, AdmitKeeps
  <2>3. CASE Refuse(a) \/ Evict(a)
    BY <2>3, DropKeeps DEF Refuse, Evict
  <2>4. CASE Received(a)
    BY <2>4, ReceivedKeeps
  <2>5. ASSUME NEW g \in Generation, NEW cost \in CostAmount, Observe(a, g, cost) PROVE IInv'
    BY <2>5, ObserveKeeps
  <2>6. ASSUME NEW cost \in CostAmount, ObserveUsage(a, cost) PROVE IInv'
    BY <2>6, ObserveUsageKeeps
  <2>7. ASSUME NEW st \in {"succeeded", "failed"}, Finish(a, st) PROVE IInv'
    BY <2>7, FinishKeeps
  <2>8. CASE ReconcileRow(a)
    BY <2>8, ReconcileRowKeeps
  <2>9. CASE ReconcileMiss(a)
    BY <2>9, ReconcileMissKeeps
  <2> QED
    BY <1>3, <2>1, <2>2, <2>3, <2>4, <2>5, <2>6, <2>7, <2>8, <2>9 DEF Step
<1>4. CASE UNCHANGED vars
  <2>1. UNCHANGED <<now, db, call, cron, genCost, lapsed>>
    BY <1>4 DEF vars
  <2>2. TypeOK'
    BY <2>1 DEF IInv, TypeOK, db
  <2>3. ASSUME NEW a \in Attempt PROVE AttemptInv(a)'
    BY <2>1, RowsOf DEF db, AttemptInv, ObjectInv, CronInv, SettledInv, Key, Live, Billed
  <2>4. ASSUME NEW c \in ChargeId PROVE ChargeInv(c)'
    BY <2>1 DEF db, IInv, ChargeInv, Paid, Key, Live
  <2> QED
    BY <2>2, <2>3, <2>4 DEF IInv
<1> QED
  BY <1>1, <1>2, <1>3, <1>4 DEF Next

\* The inductive invariant holds of every behaviour: the rows of D1, the
\* callers' objects and the reconciliation never disagree about an attempt.
THEOREM Inductive == Spec => []IInv
  BY InitKeeps, StepKeeps, PTL DEF Spec

\* Every row keeps its shape, and a row's basis says exactly whether it is settled.
THEOREM TypeCorrect == Spec => []TypeOK
<1>1. IInv => TypeOK
  BY DEF IInv
<1> QED
  BY <1>1, Inductive, PTL

\* What billing_charges holds and what the reservations were settled at by
\* receipt are the same money.
THEOREM ReceiptsAreBacked == Spec => []ReceiptsBacked
<1>1. ASSUME IInv PROVE ReceiptsBacked
  <2>1. ASSUME NEW c \in ChargeId, charge[c].attempt # Null
        PROVE  /\ reservation[charge[c].attempt].settled = charge[c].nanos
               /\ reservation[charge[c].attempt].basis = "receipt"
    <3>1. charge[c].attempt \in Attempt
      BY <1>1, <2>1 DEF IInv, TypeOK, ChargeRow
    <3> QED
      BY <1>1, <3>1, RowsOf DEF Paid
  <2>2. ASSUME NEW a \in Attempt, reservation[a].basis = "receipt", reservation[a].settled # 0
        PROVE  \E c \in ChargeId : charge[c].attempt = a /\ charge[c].nanos = reservation[a].settled
    <3>1. AttemptInv(a) /\ attempt[a] \in AttemptRow
      BY <1>1, RowsOf
    <3>2. Key(a) \in ChargeId
      BY <3>1 DEF Key, ChargeId, AttemptRow
    <3>3. charge[Key(a)].attempt = a
      BY <2>2, <3>1 DEF AttemptInv, SettledInv
    <3>4. charge[Key(a)].nanos = reservation[a].settled
      BY <1>1, <3>2, <3>3, RowsOf DEF Paid
    <3> QED
      BY <3>2, <3>3, <3>4
  <2> QED
    BY <2>1, <2>2 DEF ReceiptsBacked
<1> QED
  BY <1>1, Inductive, PTL

\* One generation is paid for once.
THEOREM GenerationChargedOnce == Spec => []ChargedOnce
<1>1. ASSUME IInv PROVE ChargedOnce
  <2>1. ASSUME NEW a \in Attempt, NEW b \in Attempt, a # b,
               attempt[a].provider # Null, attempt[a].provider = attempt[b].provider,
               reservation[a].basis = "receipt", reservation[b].basis = "receipt"
        PROVE  reservation[a].settled = 0 \/ reservation[b].settled = 0
    <3>1. AttemptInv(a) /\ AttemptInv(b)
      BY <1>1, RowsOf
    <3>2. Key(a) = Key(b)
      BY <2>1 DEF Key
    <3> QED
      BY <2>1, <3>1, <3>2 DEF AttemptInv, SettledInv
  <2> QED
    BY <2>1 DEF ChargedOnce
<1> QED
  BY <1>1, Inductive, PTL

\* An attempt that is no longer looked for has given its hold back.
THEOREM HoldsNotStranded == Spec => []NoneStranded
<1>1. ASSUME IInv PROVE NoneStranded
  BY <1>1, RowsOf DEF NoneStranded, AttemptInv, SettledInv
<1> QED
  BY <1>1, Inductive, PTL

\* An open call whose provider is not known has at most been settled at nothing.
LEMMA NamelessAtZero ==
  ASSUME IInv, NEW a \in Attempt, call[a].pc = "open", call[a].provider = Null,
         reservation[a].settled # Null
  PROVE  reservation[a].settled = 0
<1>1. AttemptInv(a) /\ reservation[a].basis \in {"receipt", "estimate", "released"}
  <2>1. /\ AttemptInv(a) /\ reservation[a].basis \notin {"none", "reserved"}
        /\ reservation[a] \in ReservationRow
    BY RowsOf
  <2> QED
    BY <2>1 DEF ReservationRow
<1>2. Key(a) = a /\ a \in ChargeId /\ charge[a].attempt = Null
  BY NamelessUncharged, OwnCharge DEF Key, ChargeId
<1> QED
  BY <1>1, <1>2 DEF AttemptInv, SettledInv

LEMMA SettleFinal ==
  ASSUME IInv, NEW a \in Attempt, NEW b, NEW st \in {"succeeded", "failed"}, NEW after,
         Knows(a, b), reservation[a].basis = "released" => st = "failed", Settle(a, b, st, after),
         NEW c \in Attempt, reservation[c].settled # Null
  PROVE  reservation'[c].settled = reservation[c].settled
<1>1. reservation[a].settled # Null => NewSettled(a, b, st) = reservation[a].settled
  BY SettleRight DEF SettledRight, Settle
<1>2. /\ reservation \in [Attempt -> ReservationRow] /\ reservation[a] \in ReservationRow
      /\ reservation' = [reservation EXCEPT ![a] =
           [reservation[a] EXCEPT !.settled = NewSettled(a, b, st), !.basis = NewBasis(a, b, st)]]
  BY DEF Settle, IInv, TypeOK
<1>3. CASE c = a
  <2>1. reservation'[a].settled = NewSettled(a, b, st)
    BY <1>2 DEF ReservationRow
  <2> QED
    BY <1>1, <1>3, <2>1
<1>4. CASE c # a
  BY <1>2, <1>4
<1> QED
  BY <1>3, <1>4

\* No step changes a cost that is counted.
LEMMA StepFinal ==
  ASSUME IInv, [Next]_vars, NEW c \in Attempt, reservation[c].settled # Null
  PROVE  reservation'[c].settled = reservation[c].settled
<1>1. CASE UNCHANGED reservation
  BY <1>1
<1>2. ASSUME NEW a \in Attempt, Admit(a) PROVE reservation'[c].settled = reservation[c].settled
  <2>1. reservation[a].settled = Null
    BY <1>2, RowsOf DEF Admit, AttemptInv, ObjectInv
  <2> QED
    BY <1>2, <2>1 DEF Admit, IInv, TypeOK
<1>3. ASSUME NEW a \in Attempt, reservation' = Hit(a), call[a].pc = "open", call[a].provider = Null
      PROVE  reservation'[c].settled = reservation[c].settled
  <2>1. c = a => reservation[c].settled = 0
    BY <1>3, NamelessAtZero
  <2> QED
    BY <1>3, <2>1 DEF Hit, IInv, TypeOK, ReservationRow
<1>4. ASSUME NEW a \in Attempt, NEW st \in {"succeeded", "failed"}, Finish(a, st),
             Settle(a, call[a], st, attempt[a].after)
      PROVE  reservation'[c].settled = reservation[c].settled
  <2>1. Live(a) /\ AttemptInv(a) /\ (call[a].pc = "failed" => st = "failed")
    BY <1>4, RowsOf DEF Finish, Live
  <2>2. Knows(a, call[a]) /\ (reservation[a].basis = "released" => st = "failed")
    BY <2>1, CallerKnows DEF AttemptInv, SettledInv, Live
  <2> QED
    BY <1>4, <2>2, SettleFinal
<1>5. ASSUME NEW a \in Attempt, ReconcileRow(a) PROVE reservation'[c].settled = reservation[c].settled
  <2> DEFINE b == [NoCall EXCEPT !.provider = attempt[a].provider,
                                 !.usage = genCost[attempt[a].provider]]
             st == IF cron[a] = "succeeded" THEN "succeeded" ELSE "failed"
  <2>1. cron[a] # "none" /\ Settle(a, b, st, now + Defer)
    BY <1>5 DEF ReconcileRow
  <2>2. attempt[a].provider \in Generation /\ genCost[attempt[a].provider] \in CostAmount
    BY <2>1, RowsOf DEF AttemptInv, CronInv, ObjectInv, AttemptRow, IInv, TypeOK
  <2>3. NoCall \in CallObject /\ ~ NoCall.hit
    BY DEF NoCall, CallObject, Time
  <2>4. /\ b \in CallObject /\ b.provider = attempt[a].provider
        /\ b.usage = genCost[attempt[a].provider] /\ ~ b.hit
    BY ONLY <2>2, <2>3 DEF CallObject
  <2> HIDE DEF b
  <2>5. Knows(a, b)
    BY <2>1, <2>4, CronKnows
  <2>6. reservation[a].basis # "released" /\ st \in {"succeeded", "failed"}
    BY <2>2, RowsOf DEF AttemptInv, SettledInv
  <2> HIDE DEF st
  <2> QED
    BY <2>1, <2>5, <2>6, SettleFinal
<1>6. ASSUME Next PROVE reservation'[c].settled = reservation[c].settled
  BY ONLY <1>1, <1>2, <1>3, <1>4, <1>5, <1>6
     DEF Next, Tick, ReconcileSelect, Step, Begin, Refuse, Received, Observe, ObserveUsage,
         Finish, Evict, ReconcileMiss, db
<1> QED
  BY <1>1, <1>6 DEF vars, db

\* Once an attempt's cost is counted, no later step of a caller or of the
\* reconciliation changes it.
THEOREM SettlementIsFinal == Spec => SettlementFinal
<1>1. ASSUME IInv, [Next]_vars
      PROVE  [\A a \in Attempt : reservation[a].settled # Null =>
                reservation'[a].settled = reservation[a].settled]_vars
  BY <1>1, StepFinal
<1> QED
  BY <1>1, Inductive, PTL DEF Spec, SettlementFinal

-----------------------------------------------------------------------------
(* Sums.                                                                    *)

LEMMA MinOfTwo ==
  ASSUME NEW x \in Int, NEW y \in Int PROVE Min({x, y}) = IF x <= y THEN x ELSE y
BY DEF Min

LEMMA InUnits ==
  ASSUME NEW S, NEW f, NEW u
  PROVE  u \in Units(S, f) <=> \E a \in S : \E i \in 1 .. f[a] : u = <<a, i>>
BY DEF Units

LEMMA Interval ==
  ASSUME NEW n \in Nat PROVE IsFiniteSet(1 .. n) /\ Cardinality(1 .. n) = n
<1>1. /\ IsFiniteSet(1 .. n)
      /\ Cardinality(1 .. n) = IF 1 > n THEN 0 ELSE n - 1 + 1
  BY FS_Interval
<1> QED
  BY <1>1

\* A sum over a finite set is a natural number.
LEMMA SumType ==
  ASSUME NEW S, IsFiniteSet(S), NEW f, \A a \in S : f[a] \in Nat
  PROVE  IsFiniteSet(Units(S, f)) /\ Sum(S, f) \in Nat
<1> DEFINE P(a) == {a} \X (1 .. f[a])
           F == {P(a) : a \in S}
           g == [a \in S |-> P(a)]
<1>1. g \in Surjection(S, F)
  BY DEF Surjection
<1>2. IsFiniteSet(F)
  BY <1>1, FS_Surjection
<1>3. ASSUME NEW T \in F PROVE IsFiniteSet(T)
  <2>1. PICK a \in S : T = P(a)
    OBVIOUS
  <2>2. IsFiniteSet(1 .. f[a]) /\ IsFiniteSet({a})
    BY Interval, FS_Singleton
  <2> QED
    BY <2>1, <2>2, FS_Product
<1>4. IsFiniteSet(UNION F)
  BY <1>2, <1>3, FS_UNION
<1>5. Units(S, f) = UNION F
  BY DEF Units
<1> QED
  BY <1>4, <1>5, FS_CardinalityType DEF Sum

\* More terms, or larger ones, give a larger sum.
LEMMA SumMonotone ==
  ASSUME NEW S, NEW T, S \subseteq T, IsFiniteSet(T), NEW f, NEW g,
         \A a \in T : g[a] \in Nat, \A a \in S : f[a] \in Nat /\ f[a] <= g[a]
  PROVE  Sum(S, f) <= Sum(T, g)
<1>1. Units(S, f) \subseteq Units(T, g)
  <2> SUFFICES ASSUME NEW u \in Units(S, f) PROVE u \in Units(T, g)
    OBVIOUS
  <2>1. PICK a \in S : \E i \in 1 .. f[a] : u = <<a, i>>
    BY InUnits
  <2>1a. PICK i \in 1 .. f[a] : u = <<a, i>>
    BY <2>1
  <2>2. i \in 1 .. g[a]
    <3>1. f[a] \in Nat /\ g[a] \in Nat /\ f[a] <= g[a]
      OBVIOUS
    <3> QED
      BY <3>1
  <2> QED
    BY <2>1a, <2>2, InUnits
<1> QED
  BY <1>1, SumType, FS_Subset DEF Sum

LEMMA SumAgree ==
  ASSUME NEW S, NEW f, NEW g, \A a \in S : f[a] = g[a]
  PROVE  Sum(S, f) = Sum(S, g)
<1>1. Units(S, f) = Units(S, g)
  BY DEF Units
<1> QED
  BY <1>1 DEF Sum

\* The sum over two sets with nothing in common.
LEMMA SumDisjoint ==
  ASSUME NEW S, IsFiniteSet(S), NEW T, IsFiniteSet(T), S \cap T = {},
         NEW f, \A a \in S \cup T : f[a] \in Nat
  PROVE  Sum(S \cup T, f) = Sum(S, f) + Sum(T, f)
<1>1. Units(S \cup T, f) = Units(S, f) \cup Units(T, f)
  BY DEF Units
<1>2. Units(S, f) \cap Units(T, f) = {}
  <2> SUFFICES ASSUME NEW u \in Units(S, f), u \in Units(T, f) PROVE FALSE
    OBVIOUS
  <2>1. PICK a \in S : \E i \in 1 .. f[a] : u = <<a, i>>
    BY InUnits
  <2>1a. PICK i \in 1 .. f[a] : u = <<a, i>>
    BY <2>1
  <2>2. PICK b \in T : \E j \in 1 .. f[b] : u = <<b, j>>
    BY InUnits
  <2>2a. PICK j \in 1 .. f[b] : u = <<b, j>>
    BY <2>2
  <2> QED
    BY <2>1a, <2>2a
<1>3. /\ IsFiniteSet(Units(S, f)) /\ Sum(S, f) \in Nat
      /\ IsFiniteSet(Units(T, f)) /\ Sum(T, f) \in Nat
  BY SumType
<1>4. Cardinality(Units(S, f) \cup Units(T, f)) =
        Cardinality(Units(S, f)) + Cardinality(Units(T, f)) - Cardinality(Units(S, f) \cap Units(T, f))
  BY <1>3, FS_Union
<1>5. Cardinality(Units(S, f) \cap Units(T, f)) = 0
  BY <1>2, FS_EmptySet
<1>6. /\ Sum(S \cup T, f) = Cardinality(Units(S, f) \cup Units(T, f))
      /\ Sum(S, f) = Cardinality(Units(S, f)) /\ Sum(T, f) = Cardinality(Units(T, f))
  BY <1>1 DEF Sum
<1> QED
  BY <1>3, <1>4, <1>5, <1>6

\* Terms of nothing do not count.
LEMMA SumZero ==
  ASSUME NEW S, NEW f, \A a \in S : f[a] = 0
  PROVE  Sum(S, f) = 0
<1>1. Units(S, f) = {}
  <2> SUFFICES ASSUME NEW u \in Units(S, f) PROVE FALSE
    OBVIOUS
  <2>1. PICK a \in S : \E i \in 1 .. f[a] : u = <<a, i>>
    BY InUnits
  <2>1a. PICK i \in 1 .. f[a] : u = <<a, i>>
    BY <2>1
  <2>2. f[a] = 0
    OBVIOUS
  <2>3. i \in Int /\ 1 <= i /\ i <= 0
    BY <2>1a, <2>2
  <2> QED
    BY <2>3
<1> QED
  BY <1>1, FS_EmptySet DEF Sum

LEMMA SumOne ==
  ASSUME NEW x, NEW f, f[x] \in Nat
  PROVE  Sum({x}, f) = f[x]
<1>1. Units({x}, f) = {x} \X (1 .. f[x])
  BY DEF Units
<1>2. IsFiniteSet({x}) /\ Cardinality({x}) = 1
  BY FS_Singleton
<1>3. IsFiniteSet(1 .. f[x]) /\ Cardinality(1 .. f[x]) = f[x]
  BY Interval
<1>4. Cardinality({x} \X (1 .. f[x])) = 1 * f[x]
  BY <1>2, <1>3, FS_Product
<1> QED
  BY <1>1, <1>4 DEF Sum

-----------------------------------------------------------------------------
(* What is counted against the caps.                                        *)

USE WindowAssumption

\* The amounts of a row are naturals, and an attempt's share of a cap is never
\* more than what an admission counts, unless its hold has expired.
LEMMA RowAmounts ==
  ASSUME TypeOK, NEW a \in Attempt, NEW t \in Time
  PROVE  /\ reservation[a].at \in Nat /\ t \in Nat
         /\ reservation[a].held \in Nat /\ Share(a) \in Nat /\ Counted(a, t) \in Nat
         /\ reservation[a].settled # Null => reservation[a].settled \in Nat
         /\ reservation[a].settled # Null \/ reservation[a].at >= t - HoldExpiry =>
              Share(a) <= Counted(a, t)
<1>1. reservation[a] \in ReservationRow
  BY DEF TypeOK
<1>2. /\ reservation[a].at \in Nat /\ t \in Nat /\ reservation[a].held \in Nat
      /\ reservation[a].settled # Null => reservation[a].settled \in Nat
  <2>1. /\ reservation[a].at \in Time /\ reservation[a].held \in HeldAmount \cup {0}
        /\ reservation[a].settled \in Settled
    BY <1>1 DEF ReservationRow
  <2>2. Time \subseteq Nat /\ HeldAmount \cup {0} \subseteq Nat
    BY DEF Time
  <2>3. reservation[a].settled # Null => reservation[a].settled \in Nat
    <3>1. 0 \in Nat /\ CostAmount \subseteq Nat
      OBVIOUS
    <3> QED
      BY ONLY <2>1, <3>1, Zenon DEF Settled
  <2>4. reservation[a].at \in Nat /\ t \in Nat
    BY ONLY <2>1, <2>2, t \in Time
  <2>5. reservation[a].held \in Nat
    BY ONLY <2>1, <2>2
  <2> QED
    BY ONLY <2>3, <2>4, <2>5
<1>3. CASE reservation[a].settled = Null
  <2>1. Share(a) = reservation[a].held
    BY <1>3 DEF Share
  <2>2. Counted(a, t) = IF reservation[a].at >= t - HoldExpiry THEN reservation[a].held ELSE 0
    BY <1>3 DEF Counted
  <2> QED
    BY <1>2, <1>3, <2>1, <2>2
<1>4. CASE reservation[a].settled # Null
  <2>1. Share(a) = Min({reservation[a].settled, reservation[a].held})
    BY <1>4 DEF Share
  <2>2. Share(a) = IF reservation[a].settled <= reservation[a].held
                   THEN reservation[a].settled ELSE reservation[a].held
    BY <1>2, <1>4, <2>1, MinOfTwo
  <2>3. Counted(a, t) = reservation[a].settled
    BY <1>4 DEF Counted
  <2> QED
    BY <1>2, <1>4, <2>2, <2>3
<1> QED
  BY <1>2, <1>3, <1>4

\* A day starts no later than any of its moments.
LEMMA DayStarted ==
  ASSUME NEW t \in Nat PROVE DayStart(t) \in Nat /\ DayStart(t) <= t
<1>1. /\ t \div Day \in Nat /\ t % Day \in 0 .. Day - 1
      /\ t = Day * (t \div Day) + (t % Day)
  OBVIOUS
<1>2. DayStart(t) = Day * (t \div Day) /\ DayStart(t) \in Nat
  BY <1>1 DEF DayStart
<1> QED
  BY <1>1, <1>2

\* A total that splits into a part of its rows and another, and nothing else.
LEMMA SumSplit ==
  ASSUME NEW S, IsFiniteSet(S), NEW A, NEW B, A \cap B = {}, A \cup B \subseteq S,
         NEW f, \A a \in S : f[a] \in Nat, \A a \in S \ (A \cup B) : f[a] = 0,
         NEW g, \A a \in A : g[a] = f[a], NEW h, \A a \in B : h[a] = f[a]
  PROVE  Sum(A, g) + Sum(B, h) = Sum(S, f)
<1> DEFINE C == S \ (A \cup B)
<1>1. IsFiniteSet(A) /\ IsFiniteSet(B) /\ IsFiniteSet(C) /\ IsFiniteSet(A \cup B)
  BY FS_Subset
<1>2. Sum((A \cup B) \cup C, f) = Sum(A \cup B, f) + Sum(C, f)
  BY <1>1, SumDisjoint
<1>3. Sum(A \cup B, f) = Sum(A, f) + Sum(B, f) /\ Sum(A, f) \in Nat /\ Sum(B, f) \in Nat
  BY <1>1, SumDisjoint, SumType
<1>4. Sum(C, f) = 0
  BY SumZero
<1>5. Sum(A, g) = Sum(A, f) /\ Sum(B, h) = Sum(B, f)
  BY SumAgree
<1>6. (A \cup B) \cup C = S
  OBVIOUS
<1> HIDE DEF C
<1>7. Sum(S, f) = Sum(A \cup B, f) + Sum(C, f)
  BY <1>2, <1>6
<1> QED
  BY <1>3, <1>4, <1>5, <1>7

\* What the status page shows as spent and held is what an admission at that
\* moment counts, for the day and for the hour's custom questions.
THEOREM StatusMatchesAdmission == Spec => []StatusAgrees
<1>1. ASSUME TypeOK PROVE StatusAgrees
  <2> DEFINE t == now
             settled == {a \in StatusRows(t) : reservation[a].settled # Null}
             fresh   == {a \in StatusRows(t) \ settled : reservation[a].at >= t - HoldExpiry}
             custom  == {a \in Rows : reservation[a].custom}
             since(first) == {a \in Rows : reservation[a].at >= first}
             spent == [a \in Attempt |-> reservation[a].settled]
             held  == [a \in Attempt |-> reservation[a].held]
             s == ReservationStatus(t)
  <2>1. /\ s.dailySpent = Sum(settled \cap since(DayStart(t)), spent)
        /\ s.customSpent = Sum(settled \cap custom \cap since(t - Hour), spent)
        /\ s.dailyHeld = Sum(fresh, held)
        /\ s.customHeld = Sum(fresh \cap custom, held)
    BY DEF ReservationStatus
  <2>2. now \in Time /\ now \in Nat /\ DayStart(now) \in Nat /\ DayStart(now) <= now
    BY <1>1, DayStarted DEF TypeOK, Time
  <2>3. /\ Min({DayStart(t), t - HoldExpiry}) \in Int
        /\ Min({DayStart(t), t - HoldExpiry}) <= DayStart(t)
        /\ Min({DayStart(t), t - HoldExpiry}) <= t - HoldExpiry
    BY <2>2, MinOfTwo
  <2>4. ASSUME NEW a \in Attempt
        PROVE  /\ reservation[a].at \in Nat /\ CountedAt(t)[a] \in Nat
               /\ reservation[a].settled # Null => CountedAt(t)[a] = reservation[a].settled
               /\ reservation[a].settled = Null =>
                    CountedAt(t)[a] = IF reservation[a].at >= t - HoldExpiry THEN reservation[a].held ELSE 0
    BY <1>1, <2>2, RowAmounts DEF CountedAt, Counted
  <2>5. /\ IsFiniteSet(DailyRows(t)) /\ DailyRows(t) \subseteq Attempt
        /\ IsFiniteSet(CustomRows(t)) /\ CustomRows(t) \subseteq Attempt
    BY FS_Subset DEF DailyRows, CustomRows, Rows
  <2> HIDE DEF t, s
  <2>6. Sum(settled \cap since(DayStart(t)), spent) + Sum(fresh, held) = DailyTotal(t)
    <3> DEFINE A == settled \cap since(DayStart(t))
    <3>1. A \cap fresh = {} /\ A \cup fresh \subseteq DailyRows(t)
      BY <2>2, <2>3, <2>4 DEF t, StatusRows, Rows, DailyRows
    <3>2. \A a \in DailyRows(t) \ (A \cup fresh) : CountedAt(t)[a] = 0
      BY <2>2, <2>3, <2>4 DEF t, StatusRows, Rows, DailyRows
    <3>3. \A a \in DailyRows(t) : CountedAt(t)[a] \in Nat
      BY <2>4, <2>5
    <3>4. \A a \in A : spent[a] = CountedAt(t)[a]
      BY <2>4 DEF StatusRows, Rows
    <3>5. \A a \in fresh : held[a] = CountedAt(t)[a]
      BY <2>4 DEF StatusRows, Rows
    <3> HIDE DEF A, fresh, spent, held
    <3> QED
      BY <2>5, <3>1, <3>2, <3>3, <3>4, <3>5, SumSplit DEF DailyTotal, A
  <2>7. Sum(settled \cap custom \cap since(t - Hour), spent) + Sum(fresh \cap custom, held) = CustomTotal(t)
    <3> DEFINE A == settled \cap custom \cap since(t - Hour)
               B == fresh \cap custom
    <3>1. A \cap B = {} /\ A \cup B \subseteq CustomRows(t)
      BY <2>2, <2>3, <2>4 DEF t, StatusRows, Rows, CustomRows
    <3>2. \A a \in CustomRows(t) \ (A \cup B) : CountedAt(t)[a] = 0
      BY <2>2, <2>3, <2>4 DEF t, StatusRows, Rows, CustomRows
    <3>3. \A a \in CustomRows(t) : CountedAt(t)[a] \in Nat
      BY <2>4, <2>5
    <3>4. \A a \in A : spent[a] = CountedAt(t)[a]
      BY <2>4 DEF StatusRows, Rows
    <3>5. \A a \in B : held[a] = CountedAt(t)[a]
      BY <2>4 DEF StatusRows, Rows
    <3> HIDE DEF A, B, spent, held
    <3> QED
      BY <2>5, <3>1, <3>2, <3>3, <3>4, <3>5, SumSplit DEF CustomTotal, A, B
  <2> QED
    BY <2>1, <2>6, <2>7 DEF StatusAgrees, t, s
<1> QED
  BY <1>1, TypeCorrect, PTL

-----------------------------------------------------------------------------
(* The caps.                                                                *)

\* An admission is judged at a time that has passed, every hold that expired
\* unsettled is among the lapsed, and the caps have held so far.
CapInv ==
  /\ \A a \in Attempt : call[a].at <= now
  /\ \A a \in Rows : reservation[a].settled = Null /\ reservation[a].at < now - HoldExpiry =>
       a \in lapsed
  /\ CapsHold

\* What a step other than its admission may do to a row: settle it, once.
RowKept(a) ==
  /\ reservation'[a].at = reservation[a].at /\ reservation'[a].held = reservation[a].held
  /\ reservation'[a].custom = reservation[a].custom
  /\ (reservation'[a].basis = "none") <=> (reservation[a].basis = "none")
  /\ reservation[a].settled # Null => reservation'[a].settled = reservation[a].settled

LEMMA HitKeepsRow ==
  ASSUME IInv, IInv', NEW a \in Attempt, Live(a), reservation' = Hit(a), NEW c \in Attempt
  PROVE  /\ reservation'[c].at = reservation[c].at /\ reservation'[c].held = reservation[c].held
         /\ reservation'[c].custom = reservation[c].custom
         /\ (reservation'[c].basis = "none") <=> (reservation[c].basis = "none")
<1>1. reservation[a].basis # "none" /\ reservation \in [Attempt -> ReservationRow]
  BY RowsOf DEF AttemptInv, ObjectInv, IInv, TypeOK
<1> QED
  BY <1>1 DEF Hit, ReservationRow

LEMMA SettleKeepsRow ==
  ASSUME IInv, IInv', NEW a \in Attempt, reservation[a].basis # "none",
         NEW b, NEW st \in {"succeeded", "failed"}, NEW after, Settle(a, b, st, after), NEW c \in Attempt
  PROVE  /\ reservation'[c].at = reservation[c].at /\ reservation'[c].held = reservation[c].held
         /\ reservation'[c].custom = reservation[c].custom
         /\ (reservation'[c].basis = "none") <=> (reservation[c].basis = "none")
<1>1. /\ reservation \in [Attempt -> ReservationRow] /\ reservation[a] \in ReservationRow
      /\ reservation' = [reservation EXCEPT ![a] =
           [reservation[a] EXCEPT !.settled = NewSettled(a, b, st), !.basis = NewBasis(a, b, st)]]
  BY DEF Settle, IInv, TypeOK
<1>2. NewBasis(a, b, st) # "none"
  BY DEF NewBasis
<1> QED
  BY <1>1, <1>2 DEF ReservationRow

LEMMA StepKeepsRow ==
  ASSUME IInv, [Next]_vars, NEW c \in Attempt, ~ Admit(c)
  PROVE  RowKept(c)
<1>1. IInv' /\ (reservation[c].settled # Null => reservation'[c].settled = reservation[c].settled)
  BY StepKeeps, StepFinal
<1> DEFINE Same == /\ reservation'[c].at = reservation[c].at /\ reservation'[c].held = reservation[c].held
                   /\ reservation'[c].custom = reservation[c].custom
                   /\ (reservation'[c].basis = "none") <=> (reservation[c].basis = "none")
<1>2. ASSUME UNCHANGED reservation PROVE Same
  BY <1>2
<1>3. ASSUME NEW a \in Attempt, Admit(a), a # c PROVE Same
  BY <1>3 DEF Admit, IInv, TypeOK
<1>4. ASSUME NEW a \in Attempt, Live(a), reservation' = Hit(a) PROVE Same
  BY <1>1, <1>4, HitKeepsRow
<1>5. ASSUME NEW a \in Attempt, NEW st \in {"succeeded", "failed"}, Finish(a, st),
             Settle(a, call[a], st, attempt[a].after)
      PROVE  Same
  <2>1. reservation[a].basis # "none"
    BY <1>5, RowsOf DEF Finish, AttemptInv, ObjectInv, Live
  <2> QED
    BY <1>1, <1>5, <2>1, SettleKeepsRow
<1>6. ASSUME NEW a \in Attempt, ReconcileRow(a) PROVE Same
  <2> DEFINE b == [NoCall EXCEPT !.provider = attempt[a].provider, !.usage = genCost[attempt[a].provider]]
             st == IF cron[a] = "succeeded" THEN "succeeded" ELSE "failed"
  <2>1. cron[a] # "none" /\ Settle(a, b, st, now + Defer)
    BY <1>6 DEF ReconcileRow
  <2>2. reservation[a].basis # "none"
    BY <2>1, RowsOf DEF AttemptInv, CronInv, ObjectInv, NoAttempt
  <2>3. st \in {"succeeded", "failed"}
    OBVIOUS
  <2> HIDE DEF b, st
  <2> QED
    BY <1>1, <2>1, <2>2, <2>3, SettleKeepsRow
<1>7. ASSUME Next, ~ Admit(c) PROVE Same
  BY ONLY <1>2, <1>3, <1>4, <1>5, <1>6, <1>7
     DEF Next, Tick, ReconcileSelect, Step, Begin, Refuse, Received, Observe, ObserveUsage,
         Finish, Evict, ReconcileMiss, db, Live
<1> HIDE DEF Same
<1>8. Same
  BY <1>2, <1>7 DEF vars, db
<1> QED
  BY <1>1, <1>8 DEF RowKept, Same

\* A row that is only settled takes no larger share than before.
LEMMA ShareKept ==
  ASSUME IInv, IInv', NEW a \in Attempt, RowKept(a)
  PROVE  Share(a) \in Nat /\ Share(a)' \in Nat /\ Share(a)' <= Share(a)
<1>1. 0 \in Time
  BY DEF Time
<1>2. Share(a) \in Nat
  BY <1>1, RowAmounts DEF IInv
<1>3. reservation'[a] \in ReservationRow
  BY DEF IInv, TypeOK
<1>4. /\ reservation'[a].held \in Nat
      /\ reservation'[a].settled # Null => reservation'[a].settled \in Nat
  <2>1. reservation'[a].held \in HeldAmount \cup {0} /\ reservation'[a].settled \in Settled
    BY <1>3 DEF ReservationRow
  <2>2. 0 \in Nat /\ CostAmount \subseteq Nat /\ HeldAmount \cup {0} \subseteq Nat
    OBVIOUS
  <2>3. reservation'[a].settled # Null => reservation'[a].settled \in Nat
    BY ONLY <2>1, <2>2, Zenon DEF Settled
  <2> QED
    BY <2>1, <2>2, <2>3
<1>5. CASE reservation'[a].settled = Null
  BY <1>2, <1>4, <1>5 DEF Share, RowKept
<1>6. CASE reservation'[a].settled # Null
  <2>1. Share(a)' = Min({reservation'[a].settled, reservation'[a].held})
    BY <1>6 DEF Share
  <2>2. Share(a)' = IF reservation'[a].settled <= reservation'[a].held
                    THEN reservation'[a].settled ELSE reservation'[a].held
    BY <1>4, <1>6, <2>1, MinOfTwo
  <2>3. CASE reservation[a].settled = Null
    <3>1. Share(a) = reservation'[a].held
      BY <2>3 DEF Share, RowKept
    <3> QED
      BY <1>4, <1>6, <2>2, <3>1
  <2>4. CASE reservation[a].settled # Null
    <3>1. Share(a) = Share(a)'
      BY <2>1, <2>4 DEF Share, RowKept
    <3> QED
      BY <1>2, <3>1
  <2> QED
    BY <2>3, <2>4
<1> QED
  BY <1>2, <1>5, <1>6

\* A set of rows whose total was within a cap, some of them settled since.
LEMMA StillWithin ==
  ASSUME IInv, IInv', NEW S, NEW T, T \subseteq S, S \subseteq Attempt, \A a \in T : RowKept(a),
         NEW cap \in Nat, Sum(S, Shares) <= cap
  PROVE  Sum(T, Shares') <= cap
<1>1. IsFiniteSet(S) /\ IsFiniteSet(T)
  BY FS_Subset
<1>2. 0 \in Time
  BY DEF Time
<1>3. \A a \in S : Shares[a] \in Nat
  BY <1>2, RowAmounts DEF IInv, Shares
<1>4. \A a \in T : Shares'[a] \in Nat /\ Shares'[a] <= Shares[a]
  BY ShareKept DEF Shares
<1>5. Sum(T, Shares') <= Sum(S, Shares) /\ Sum(S, Shares) \in Nat /\ Sum(T, Shares') \in Nat
  BY <1>1, <1>3, <1>4, SumMonotone, SumType
<1> QED
  BY <1>5

\* An admission adds its hold to rows that it has counted in full.
LEMMA WithinAfterAdmission ==
  ASSUME IInv, IInv', NEW a \in Attempt, Admit(a), NEW T, T \subseteq Attempt, a \in T,
         NEW S, T \ {a} \subseteq S, S \subseteq Attempt,
         \A b \in T \ {a} : /\ RowKept(b) /\ Share(b) = Share(b)'
                            /\ Share(b) <= Counted(b, call[a].at),
         NEW cap \in Nat, call[a].held + Sum(S, CountedAt(call[a].at)) <= cap
  PROVE  Sum(T, Shares') <= cap
<1> DEFINE U == T \ {a}
           t == call[a].at
<1>1. IsFiniteSet(S) /\ IsFiniteSet(U) /\ IsFiniteSet({a}) /\ U \cap {a} = {} /\ T = U \cup {a}
  BY FS_Subset, FS_Singleton
<1>2. t \in Time /\ call[a].held \in Nat
  <2>1. call[a].at \in Time /\ call[a].held \in HeldAmount \cup {0}
    BY DEF IInv, TypeOK, CallObject
  <2>2. HeldAmount \cup {0} \subseteq Nat
    OBVIOUS
  <2> QED
    BY <2>1, <2>2
<1>3. \A b \in S : CountedAt(t)[b] \in Nat
  BY <1>2, RowAmounts DEF IInv, CountedAt
<1>4. \A b \in U : Shares'[b] \in Nat /\ Shares'[b] <= CountedAt(t)[b]
  BY ShareKept DEF Shares, CountedAt
<1>5. Shares'[a] = call[a].held
  BY DEF Admit, Shares, Share, IInv, TypeOK
<1> HIDE DEF U, t
<1>6. Sum(U, Shares') <= Sum(S, CountedAt(t)) /\ Sum(U, Shares') \in Nat /\ Sum(S, CountedAt(t)) \in Nat
  <2>1. U \subseteq S
    BY DEF U
  <2> QED
    BY <1>1, <1>3, <1>4, <2>1, SumMonotone, SumType
<1>7. Sum(T, Shares') = Sum(U, Shares') + Sum({a}, Shares')
  <2>1. \A b \in U \cup {a} : Shares'[b] \in Nat
    BY <1>2, <1>4, <1>5
  <2> QED
    BY <1>1, <2>1, SumDisjoint
<1>8. Sum({a}, Shares') = call[a].held
  BY <1>2, <1>5, SumOne
<1>9. call[a].held + Sum(S, CountedAt(t)) <= cap
  BY DEF t
<1> QED
  BY <1>2, <1>6, <1>7, <1>8, <1>9

DailySet(d)  == {a \in Rows \ lapsed : DayStart(reservation[a].at) = d}
CustomSet(t) == {a \in Rows : reservation[a].custom /\ reservation[a].at \in t .. t + Hour}

LEMMA CapInit == Init => CapInv
<1> SUFFICES ASSUME Init PROVE CapInv
  OBVIOUS
<1>1. Rows = {}
  BY DEF Init, Rows, NoReservation
<1>2. \A d : DailySet(d) = {} /\ CustomSet(d) = {}
  BY <1>1 DEF DailySet, CustomSet
<1>3. Sum({}, Shares) = 0
  BY SumZero
<1>4. CapsHold
  <2>1. ASSUME NEW d PROVE Sum(DailySet(d), Shares) <= DailyCap /\ Sum(CustomSet(d), Shares) <= CustomCap
    <3>1. DailySet(d) = {} /\ CustomSet(d) = {}
      BY <1>2
    <3> QED
      BY <1>3, <3>1
  <2> QED
    BY <2>1 DEF CapsHold, DailyWithinCap, CustomWithinCap, DailySet, CustomSet
<1>5. \A a \in Attempt : call[a].at <= now
  BY DEF Init, NoCall
<1> QED
  BY <1>1, <1>4, <1>5 DEF CapInv

LEMMA AdmitCaps ==
  ASSUME IInv, IInv', CapInv, NEW a \in Attempt, Admit(a)
  PROVE  CapsHold'
<1> DEFINE t == call[a].at
<1>1. /\ t \in Time /\ t \in Nat /\ t <= now /\ now \in Nat /\ DayStart(t) \in Nat /\ DayStart(t) <= t
  <2>1. t \in Time /\ now \in Time
    BY DEF IInv, TypeOK, CallObject
  <2> QED
    BY <2>1, DayStarted DEF CapInv, Time
<1>2. /\ reservation'[a].at = t /\ reservation'[a].custom = call[a].custom
      /\ \A b \in Attempt \ {a} : reservation'[b] = reservation[b]
      /\ now' = now /\ lapsed \subseteq lapsed'
  BY DEF Admit, IInv, TypeOK
<1>3. ASSUME NEW b \in Attempt \ {a}
      PROVE  /\ RowKept(b) /\ Share(b) = Share(b)' /\ (b \in Rows' <=> b \in Rows)
             /\ reservation[b].at \in Nat
             /\ reservation[b].settled # Null \/ reservation[b].at >= t - HoldExpiry =>
                  Share(b) <= Counted(b, t)
  <2>1. RowKept(b) /\ Share(b) = Share(b)' /\ (b \in Rows' <=> b \in Rows)
    BY <1>2 DEF RowKept, Share, Rows
  <2> QED
    BY <1>1, <2>1, RowAmounts DEF IInv
<1>4. /\ call[a].held + Sum(DailyRows(t), CountedAt(t)) <= DailyCap
      /\ call[a].custom => call[a].held + Sum(CustomRows(t), CountedAt(t)) <= CustomCap
  BY DEF Admit, Admissible, DailyTotal, CustomTotal
<1> HIDE DEF t
<1>5. ASSUME NEW d \in {DayStart(u) : u \in Time} PROVE Sum(DailySet(d)', Shares') <= DailyCap
  <2> DEFINE T == DailySet(d)'
  <2>0. T \subseteq Attempt
    BY DEF DailySet, Rows
  <2>1. CASE a \in T
    <3>1. d = DayStart(t)
      BY <1>2, <2>1 DEF DailySet
    <3>2. ASSUME NEW b \in T \ {a}
          PROVE  b \in DailyRows(t) /\ Share(b) <= Counted(b, t)
      <4>1. /\ b \in Attempt \ {a} /\ b \in Rows /\ b \notin lapsed /\ reservation[b].at \in Nat
            /\ DayStart(reservation[b].at) = DayStart(t)
        BY <1>2, <1>3, <2>0, <3>1 DEF DailySet
      <4>2. DayStart(t) <= reservation[b].at
        BY <4>1, DayStarted
      <4>3. /\ Min({DayStart(t), t - HoldExpiry}) <= DayStart(t)
            /\ Min({DayStart(t), t - HoldExpiry}) \in Int
        <5>1. DayStart(t) \in Int /\ t - HoldExpiry \in Int
          BY <1>1
        <5> QED
          BY ONLY <5>1, MinOfTwo
      <4>4. b \in DailyRows(t)
        BY <1>1, <4>1, <4>2, <4>3 DEF DailyRows
      <4>5. reservation[b].settled # Null \/ reservation[b].at >= t - HoldExpiry
        BY <1>1, <4>1 DEF CapInv
      <4> QED
        BY <1>3, <4>1, <4>4, <4>5
    <3>3. DailyRows(t) \subseteq Attempt /\ DailyCap \in Nat
      BY DEF DailyRows, Rows
    <3> HIDE DEF T
    <3> QED
      BY <1>3, <1>4, <2>0, <2>1, <3>2, <3>3, WithinAfterAdmission DEF t, T
  <2>2. CASE a \notin T
    <3>1. T \subseteq DailySet(d)
      BY <1>2, <1>3, <2>0, <2>2 DEF DailySet
    <3>2. DailySet(d) \subseteq Attempt /\ DailyCap \in Nat /\ Sum(DailySet(d), Shares) <= DailyCap
      BY DEF DailySet, Rows, CapInv, CapsHold, DailyWithinCap
    <3> HIDE DEF T
    <3> QED
      BY <1>3, <2>0, <2>2, <3>1, <3>2, StillWithin DEF T
  <2> QED
    BY <2>1, <2>2
<1>6. ASSUME NEW u \in Time PROVE Sum(CustomSet(u)', Shares') <= CustomCap
  <2> DEFINE T == CustomSet(u)'
  <2>0. T \subseteq Attempt
    BY DEF CustomSet, Rows
  <2>1. CASE a \in T
    <3>1. call[a].custom /\ u <= t /\ t <= u + Hour /\ u \in Nat
      BY <1>1, <1>2, <2>1 DEF CustomSet, Time
    <3>2. ASSUME NEW b \in T \ {a}
          PROVE  b \in CustomRows(t) /\ Share(b) <= Counted(b, t)
      <4>1. /\ b \in Attempt \ {a} /\ b \in Rows /\ reservation[b].custom
            /\ reservation[b].at \in Nat /\ reservation[b].at >= u
        BY <1>2, <1>3, <2>0, <3>1 DEF CustomSet
      <4>2. reservation[b].at >= t - Hour
        BY <1>1, <3>1, <4>1
      <4> QED
        BY <1>3, <4>1, <4>2 DEF CustomRows
    <3>3. CustomRows(t) \subseteq Attempt /\ CustomCap \in Nat
      BY DEF CustomRows, Rows
    <3> HIDE DEF T
    <3> QED
      BY <1>3, <1>4, <2>0, <2>1, <3>1, <3>2, <3>3, WithinAfterAdmission DEF t, T
  <2>2. CASE a \notin T
    <3>1. T \subseteq CustomSet(u)
      BY <1>2, <1>3, <2>0, <2>2 DEF CustomSet
    <3>2. CustomSet(u) \subseteq Attempt /\ CustomCap \in Nat /\ Sum(CustomSet(u), Shares) <= CustomCap
      BY DEF CustomSet, Rows, CapInv, CapsHold, CustomWithinCap
    <3> HIDE DEF T
    <3> QED
      BY <1>3, <2>0, <2>2, <3>1, <3>2, StillWithin DEF T
  <2> QED
    BY <2>1, <2>2
<1> QED
  BY <1>5, <1>6 DEF CapsHold, DailyWithinCap, CustomWithinCap, DailySet, CustomSet

LEMMA OtherCaps ==
  ASSUME IInv, CapInv, [Next]_vars, \A a \in Attempt : ~ Admit(a)
  PROVE  CapsHold'
<1>1. IInv' /\ \A a \in Attempt : RowKept(a)
  BY StepKeeps, StepKeepsRow
<1>2. lapsed \subseteq lapsed'
  BY DEF Next, vars, db, Tick, ReconcileSelect, Step, Begin, Refuse, Received, Observe, ObserveUsage,
         Finish, Evict, ReconcileRow, ReconcileMiss
<1>3. Rows' = Rows
  BY <1>1 DEF Rows, RowKept
<1>4. ASSUME NEW d \in {DayStart(u) : u \in Time} PROVE Sum(DailySet(d)', Shares') <= DailyCap
  <2>1. /\ DailySet(d)' \subseteq DailySet(d) /\ DailySet(d) \subseteq Attempt /\ DailyCap \in Nat
    BY <1>1, <1>2, <1>3 DEF DailySet, RowKept, Rows
  <2>2. Sum(DailySet(d), Shares) <= DailyCap
    BY DEF DailySet, CapInv, CapsHold, DailyWithinCap
  <2> QED
    BY <1>1, <2>1, <2>2, StillWithin
<1>5. ASSUME NEW u \in Time PROVE Sum(CustomSet(u)', Shares') <= CustomCap
  <2>1. /\ CustomSet(u)' \subseteq CustomSet(u) /\ CustomSet(u) \subseteq Attempt /\ CustomCap \in Nat
    BY <1>1, <1>3 DEF CustomSet, RowKept, Rows
  <2>2. Sum(CustomSet(u), Shares) <= CustomCap
    BY DEF CustomSet, CapInv, CapsHold, CustomWithinCap
  <2> QED
    BY <1>1, <2>1, <2>2, StillWithin
<1> QED
  BY <1>4, <1>5 DEF CapsHold, DailyWithinCap, CustomWithinCap, DailySet, CustomSet

LEMMA CapStep == ASSUME IInv, CapInv, [Next]_vars PROVE CapInv'
<1>1. IInv' /\ now \in Nat /\ now' \in Nat
  BY StepKeeps DEF IInv, TypeOK, Time
<1>2. CapsHold'
  BY <1>1, AdmitCaps, OtherCaps
<1>3. /\ now' >= now
      /\ \A a \in Attempt : call'[a].at \in {call[a].at, 0, now}
  <2>1. CallOver.at = 0
    BY DEF CallOver, NoCall
  <2>2. call \in [Attempt -> CallObject]
    BY DEF IInv, TypeOK
  <2>3. CASE Tick \/ ReconcileSelect \/ UNCHANGED vars
    BY <1>1, <2>3 DEF Tick, ReconcileSelect, vars
  <2>4. ASSUME NEW a \in Attempt, Step(a)
        PROVE  now' = now /\ \A b \in Attempt : call'[b].at \in {call[b].at, 0, now}
    <3>1. call[a] \in CallObject /\ now' = now
      BY <2>2, <2>4 DEF Step, Begin, Admit, Refuse, Received, Observe, ObserveUsage, Finish, Evict,
                       ReconcileRow, ReconcileMiss
    <3>2. \/ UNCHANGED call
          \/ \E o : call' = [call EXCEPT ![a] = o] /\ o.at \in {call[a].at, 0, now}
      <4>1. ASSUME NEW h \in HeldAmount, NEW custom \in BOOLEAN, Begin(a, h, custom)
            PROVE  \E o : call' = [call EXCEPT ![a] = o] /\ o.at \in {call[a].at, 0, now}
        <5>1. [call[a] EXCEPT !.pc = "asking", !.at = now, !.held = h, !.custom = custom].at = now
          BY <3>1 DEF CallObject
        <5> QED
          BY ONLY <4>1, <5>1 DEF Begin
      <4>2. CASE Refuse(a) \/ Evict(a)
        BY ONLY <2>1, <4>2 DEF Refuse, Evict
      <4>3. ASSUME NEW st \in {"succeeded", "failed"}, Finish(a, st)
            PROVE  \E o : call' = [call EXCEPT ![a] = o] /\ o.at \in {call[a].at, 0, now}
        <5> DEFINE o == IF call[a].pc = "open" /\ st = "failed"
                        THEN [call[a] EXCEPT !.pc = "failed"] ELSE CallOver
        <5>1. o.at \in {call[a].at, 0, now}
          BY <2>1, <3>1 DEF CallObject
        <5>2. call' = [call EXCEPT ![a] = o]
          BY ONLY <2>2, <4>3 DEF Finish
        <5> HIDE DEF o
        <5> QED
          BY ONLY <5>1, <5>2
      <4>4. ASSUME NEW g \in Generation, NEW cost \in CostAmount, Observe(a, g, cost)
            PROVE  \E o : call' = [call EXCEPT ![a] = o] /\ o.at \in {call[a].at, 0, now}
        <5>1. call' = [call EXCEPT ![a] = [call[a] EXCEPT !.provider = g]]
          BY ONLY <2>2, <4>4 DEF Observe
        <5>2. [call[a] EXCEPT !.provider = g].at = call[a].at
          BY <3>1 DEF CallObject
        <5> QED
          BY ONLY <5>1, <5>2
      <4>5. ASSUME NEW cost \in CostAmount, ObserveUsage(a, cost)
            PROVE  \E o : call' = [call EXCEPT ![a] = o] /\ o.at \in {call[a].at, 0, now}
        <5>1. call' = [call EXCEPT ![a] = [call[a] EXCEPT !.usage = cost]]
          BY ONLY <2>2, <4>5 DEF ObserveUsage
        <5>2. [call[a] EXCEPT !.usage = cost].at = call[a].at
          BY <3>1 DEF CallObject
        <5> QED
          BY ONLY <5>1, <5>2
      <4>6. CASE Admit(a)
        <5>1. call' = [call EXCEPT ![a] = [call[a] EXCEPT !.pc = "open"]]
          BY ONLY <2>2, <4>6 DEF Admit
        <5>2. [call[a] EXCEPT !.pc = "open"].at = call[a].at
          BY <3>1 DEF CallObject
        <5> QED
          BY ONLY <5>1, <5>2
      <4>7. CASE Received(a)
        <5>1. call' = [call EXCEPT ![a] = [call[a] EXCEPT !.hit = TRUE]]
          BY ONLY <2>2, <4>7 DEF Received
        <5>2. [call[a] EXCEPT !.hit = TRUE].at = call[a].at
          BY <3>1 DEF CallObject
        <5> QED
          BY ONLY <5>1, <5>2
      <4>8. CASE ReconcileRow(a) \/ ReconcileMiss(a)
        BY ONLY <4>8 DEF ReconcileRow, ReconcileMiss
      <4> QED
        BY ONLY <2>4, <4>1, <4>2, <4>3, <4>4, <4>5, <4>6, <4>7, <4>8 DEF Step
    <3> QED
      BY ONLY <2>2, <3>1, <3>2
  <2> QED
    BY <1>1, <2>3, <2>4 DEF Next
<1>4. ASSUME NEW a \in Attempt PROVE call'[a].at <= now'
  <2>1. call[a].at \in Nat /\ call[a].at <= now
    BY DEF CapInv, IInv, TypeOK, CallObject, Time
  <2> QED
    BY <1>1, <1>3, <2>1
<1>5. ASSUME NEW a \in Rows', reservation'[a].settled = Null, reservation'[a].at < now' - HoldExpiry
      PROVE  a \in lapsed'
  <2>1. CASE Tick
    BY <1>5, <2>1 DEF Tick, db, Rows
  <2>2. CASE Admit(a)
    <3>1. reservation'[a].at = call[a].at /\ now' = now
      BY <1>5, <2>2 DEF Admit, Rows, IInv, TypeOK
    <3> QED
      BY <1>5, <2>2, <3>1 DEF Admit
  <2>3. CASE ~ Tick /\ ~ Admit(a)
    <3>1. a \in Attempt
      BY <1>5 DEF Rows
    <3>2. now' = now /\ lapsed \subseteq lapsed'
      BY <2>3 DEF Next, vars, db, ReconcileSelect, Step, Begin, Admit, Refuse, Received, Observe,
                  ObserveUsage, Finish, Evict, ReconcileRow, ReconcileMiss
    <3>3. RowKept(a)
      BY <2>3, <3>1, StepKeepsRow
    <3> QED
      BY <1>5, <3>1, <3>2, <3>3 DEF RowKept, CapInv, Rows
  <2> QED
    BY <2>1, <2>2, <2>3
<1> QED
  BY <1>2, <1>4, <1>5 DEF CapInv

\* Neither cap is ever exceeded by what the requests of a day, or the custom
\* questions of an hour, hold or have spent within their holds, however many
\* isolates admit and settle at once.
THEOREM CapsAreHeld == Spec => []CapsHold
<1>1. IInv /\ CapInv /\ [Next]_vars => CapInv'
  BY CapStep
<1>2. CapInv => CapsHold
  BY DEF CapInv
<1> QED
  BY <1>1, <1>2, CapInit, Inductive, PTL DEF Spec

=============================================================================
