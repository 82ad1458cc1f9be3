---------------------------- MODULE AiDownProofs ----------------------------
(***************************************************************************)
(* What the breaker promises for any jobs, steps and gate calls, any TTLs    *)
(* and any clock.                                                            *)
(*                                                                           *)
(* That a gate with a known balance is at most one credits TTL behind it     *)
(* (GateKnowsBalance) is not inductive: a gate that refuses because of a     *)
(* standing sentinel is as stale as the sentinel, and the sentinel may have  *)
(* been raised by another gate, over a balance read earlier.  The            *)
(* strengthening says how far each reading is from the moment it witnesses   *)
(* (Clock, RowInv, GateInv), and that whoever works over a balance older     *)
(* than this tick works over the same cached one (OneOld): so a sentinel     *)
(* younger than the balance a gate holds, and not explained by it, rose      *)
(* within a tick of a moment without credit (Raised).  TripInv carries what  *)
(* a note or a clear has read to its put or delete, past whoever writes in   *)
(* between; ClearInv what a provider's answer proves to the delete.          *)
(***************************************************************************)
EXTENDS AiDown, TLAPS

-----------------------------------------------------------------------------
(* The inductive invariant.                                                 *)

\* The account had credit, or had none, at t or later.
Witnessed(out, t) == IF out THEN broke >= t ELSE funded >= t

Known(b) == b # Unread /\ b # Unknown

\* The two histories are exact about the present.
Clock ==
  /\ funded <= now /\ broke <= now
  /\ "credits" \in trouble => broke = now
  /\ "credits" \notin trouble => funded = now

\* The cached balance was true within a tick of its stamp, and has not expired.
RowInv ==
  row # None => row.at <= now /\ now < row.at + CreditsTtl /\ row.until = row.at + CreditsTtl
                  /\ Witnessed(row.out, row.at - 1)

\* What a gate has in hand, and what brought it where it is.
GateInv(g) ==
  /\ pc[g] \in {"idle", "reading", "probing", "noteRead", "notePut",
                "clearRead", "clearDelete", "open", "refused"}
  /\ began[g] <= now
  /\ pc[g] = "idle" => bal[g] = Unread /\ down[g] = Unread
  /\ pc[g] = "probing" /\ bal[g] # Unread =>
       /\ bal[g].at \in Time /\ bal[g].at <= now /\ now <= bal[g].at + 1 /\ began[g] <= bal[g].at
       /\ Witnessed(bal[g].out, bal[g].at)
  /\ Known(bal[g]) /\ pc[g] # "probing" =>
       /\ bal[g].at \in Time /\ bal[g].at <= now /\ began[g] < bal[g].at + CreditsTtl
       /\ Witnessed(bal[g].out, bal[g].at - 1)
  /\ pc[g] \notin {"idle", "reading", "probing"} => bal[g] # Unread
  /\ pc[g] \in {"noteRead", "notePut"} => reason[g] = "credits" /\ bal[g].out
  /\ pc[g] \in {"clearRead", "clearDelete", "open"} => ~ bal[g].out
  /\ pc[g] = "refused" /\ bal[g] # Unknown /\ ~ bal[g].out
       /\ down[g] # None /\ down[g].reason = "credits" => broke >= began[g] - CreditsTtl

\* A gate at work over a balance from before this tick: the cached one, and it is
\* the same for all of them.
Old(g) ==
  pc[g] \in {"reading", "noteRead", "notePut"} /\ Known(bal[g]) /\ bal[g].at < now

OneOld ==
  /\ \A g, h \in Gates : Old(g) /\ Old(h) => bal[g].out = bal[h].out
  /\ \A g \in Gates : Old(g) /\ row # None /\ row.at < now => bal[g].out = row.out

\* A sentinel for credits rose within a tick of a moment without them, or over
\* a cached balance that said so, and then no older one says otherwise.
Raised(s) ==
  s \notin {None, Unread} /\ s.reason = "credits" =>
    /\ s.at <= now
    /\ \/ broke >= s.at - 1
       \/ /\ row # None /\ row.at < s.at => row.out
          /\ \A g \in Gates : Old(g) /\ bal[g].at < s.at => bal[g].out

RaisedInv ==
  /\ Raised(sentinel)
  /\ \A g \in Gates : pc[g] \in {"reading", "probing"} => Raised(down[g])

\* A job or a step classifies "credits" only what failed without credit, in this tick.
NoteInv ==
  /\ \A p \in Proc : pc[p] \in {"noteRead", "notePut"} => reason[p] \in Hard \cup Soft
  /\ \A p \in Jobs \cup Steps : pc[p] \in {"noteRead", "notePut"} /\ reason[p] = "credits" =>
       broke >= now

\* The clock stands while a note or a clear is under way, so between its read and
\* its write the sentinel is the one it read, or fell, or rose in this tick.
Recent == sentinel = None \/ sentinel.at = now

PutAllowed(p)    == Recent \/ seen[p] = Unread
                    \/ (sentinel = seen[p] /\ Upgrades(reason[p], seen[p]))
DeleteAllowed(p) == Recent \/ (sentinel = seen[p] /\ Disproven(seen[p], cutoff[p]))

TripInv ==
  \A p \in Proc : /\ pc[p] = "notePut" => PutAllowed(p)
                  /\ pc[p] = "clearDelete" => DeleteAllowed(p)

\* Every success of a job is an answer of OpenRouter itself.
ProviderAnswers == "workers-ai" \notin Transports /\ ~ GatewayHits

\* Whatever is not in force now has been absent since the sentinel rose; and what a
\* clear after a provider's answer is about to delete had its cause absent.
ClearInv ==
  /\ sentinel # None => Hard \ trouble \subseteq absent
  /\ \A s \in Steps : pc[s] \notin {"clearRead", "clearDelete"}
  /\ ProviderAnswers =>
       \A j \in Jobs : pc[j] \in {"clearRead", "clearDelete"} =>
         /\ cutoff[j] < now
         /\ sentinel # None /\ sentinel.at <= cutoff[j] /\ sentinel.reason \in Hard =>
              sentinel.reason \in absent

IInv ==
  /\ TypeOK /\ Clock /\ RowInv /\ (\A g \in Gates : GateInv(g))
  /\ OneOld /\ RaisedInv /\ NoteInv /\ TripInv /\ ClearInv

LEMMA Ttls == HardTtl \in Nat \ {0} /\ SoftTtl \in Nat \ {0} /\ CreditsTtl \in Nat \ {0}
  BY TtlAssumption

LEMMA TimeIsNat == \A t \in Time : t \in Nat /\ t <= MaxNow /\ MaxNow \in Nat
  BY BoundAssumption DEF Time

LEMMA Truth == \A S, x : (x \in S) \in BOOLEAN
  OBVIOUS

LEMMA LaterTime == \A t \in Time, k \in Nat : t + k \in Nat
  BY TimeIsNat

-----------------------------------------------------------------------------
LEMMA InitHolds == Init => IInv
<1> SUFFICES ASSUME Init PROVE IInv
  OBVIOUS
<1>1. 0 \in Time /\ -1 \notin Nat /\ CreditsTtl \in Nat \ {0}
  BY BoundAssumption, Ttls DEF Time
<1>2. trouble \subseteq Hard
  BY TroublesAssumption DEF Init
<1>3. row # None => row = [out |-> "credits" \in trouble, at |-> 0, until |-> CreditsTtl]
  BY DEF Init
<1>4. TypeOK
  <2>1. /\ pc \in [Proc -> Pc] /\ began \in [Proc -> Time] /\ cutoff \in [Proc -> Time]
        /\ reason \in [Proc -> Hard \cup Soft \cup {None}]
        /\ seen \in [Proc -> Sentinel \cup {None}]
        /\ down \in [Gates -> Sentinel \cup {None, Unread}]
        /\ bal \in [Gates -> Reading \cup {Unread}]
    BY <1>1 DEF Init, Pc
  <2>2. row \in [out : BOOLEAN, at : Time, until : Nat] \cup {None}
    <3>1. \A x \in BOOLEAN : [out |-> x, at |-> 0, until |-> CreditsTtl]
                              \in [out : BOOLEAN, at : Time, until : Nat]
      BY <1>1
    <3>2. [out |-> "credits" \in trouble, at |-> 0, until |-> CreditsTtl]
            \in [out : BOOLEAN, at : Time, until : Nat]
      BY <3>1, Truth
    <3> QED
      BY <1>3, <3>2
  <2>3. /\ now \in Time /\ funded \in Time \cup {-1} /\ broke \in Time \cup {-1}
        /\ absent \subseteq Hard /\ sentinel \in Sentinel \cup {None}
    BY <1>1 DEF Init
  <2> QED
    BY <1>2, <2>1, <2>2, <2>3 DEF TypeOK
<1>5. Clock
  BY DEF Init, Clock
<1>6. RowInv
  BY <1>1, <1>3 DEF Init, RowInv, Witnessed
<1>7. /\ \A g \in Gates : pc[g] = "idle" /\ began[g] = 0 /\ bal[g] = Unread /\ down[g] = Unread
      /\ \A p \in Proc : pc[p] = "idle"
      /\ sentinel = None /\ now = 0
  BY DEF Init, Proc
<1>8. \A g \in Gates : GateInv(g)
  BY <1>7 DEF GateInv, Known
<1>9. OneOld /\ RaisedInv
  BY <1>7 DEF OneOld, Old, RaisedInv, Raised
<1>10. NoteInv /\ TripInv /\ ClearInv
  BY <1>7 DEF NoteInv, TripInv, ClearInv, Proc
<1> QED
  BY <1>4, <1>5, <1>6, <1>8, <1>9, <1>10 DEF IInv

-----------------------------------------------------------------------------
(* Types.                                                                   *)

LEMMA TickTypes == ASSUME TypeOK, Tick PROVE TypeOK'
<1> USE DEF TypeOK, gateVars, locals, kv
<1>1. now + 1 \in Time
  BY BoundAssumption DEF Tick, Time
<1>2. /\ Unexpired(sentinel, now + 1) \in Sentinel \cup {None}
      /\ Unexpired(row, now + 1) \in [out : BOOLEAN, at : Time, until : Nat] \cup {None}
  BY DEF Unexpired
<1> QED
  BY <1>1, <1>2 DEF Tick

LEMMA TroubleTypes ==
  ASSUME TypeOK, NEW r \in Troubles, TroubleStarts(r) \/ TroubleEnds(r)
  PROVE  TypeOK'
<1> USE DEF TypeOK, gateVars, locals, kv
<1>1. CASE TroubleStarts(r)
  BY <1>1, TroublesAssumption DEF TroubleStarts
<1>2. CASE TroubleEnds(r)
  BY <1>2, TroublesAssumption DEF TroubleEnds
<1> QED
  BY <1>1, <1>2

LEMMA KvTypes == ASSUME TypeOK, NoteInv, NEW p \in Proc, KvSteps(p) PROVE TypeOK'
<1> USE DEF TypeOK, gateVars, locals, world, Goto, kv
<1>0. After(p) \in Pc
  BY DEF After, Pc
<1>1. CASE NoteRead(p)
  BY <1>0, <1>1 DEF NoteRead, Pc
<1>2. CASE NotePut(p)
  <2>1. (IF reason[p] \in Hard THEN HardTtl ELSE SoftTtl) \in Nat
    BY Ttls
  <2>2. now + (IF reason[p] \in Hard THEN HardTtl ELSE SoftTtl) \in Nat
    BY <2>1, LaterTime
  <2>3. reason[p] \in Hard \cup Soft
    BY <1>2 DEF NotePut, NoteInv
  <2> QED
    BY <1>0, <1>2, <2>2, <2>3 DEF NotePut, Sentinel
<1>3. CASE ClearRead(p)
  BY <1>0, <1>3 DEF ClearRead, Pc
<1>4. CASE ClearDelete(p)
  BY <1>0, <1>4 DEF ClearDelete
<1>5. CASE WriteFails(p)
  BY <1>0, <1>5 DEF WriteFails
<1> QED
  BY <1>1, <1>2, <1>3, <1>4, <1>5 DEF KvSteps

LEMMA ActorTypes ==
  ASSUME TypeOK, NEW p \in Jobs \cup Steps, NEW t, NEW hit, NEW r,
         \/ StartJob(p) \/ StartStep(p) \/ SucceedJob(p, t, hit) \/ SucceedStep(p)
         \/ Fail(p, r) \/ BudgetPausedJob(p) \/ BudgetPausedStep(p)
  PROVE  TypeOK'
<1> USE DEF TypeOK, gateVars, locals, world, kv, Goto, Pc
<1>1. p \in Proc
  BY DEF Proc
<1>2. CASE StartJob(p) \/ StartStep(p)
  BY <1>1, <1>2 DEF StartJob, StartStep
<1>3. CASE SucceedJob(p, t, hit)
  BY <1>1, <1>3 DEF SucceedJob
<1>4. CASE SucceedStep(p) \/ BudgetPausedJob(p)
  BY <1>1, <1>4 DEF SucceedStep, BudgetPausedJob
<1>5. CASE Fail(p, r)
  <2>1. r \in Hard \cup Soft
    BY <1>5 DEF Fail, Soft
  <2> QED
    BY <1>1, <1>5, <2>1 DEF Fail
<1>6. CASE BudgetPausedStep(p)
  BY <1>1, <1>6 DEF BudgetPausedStep, Soft
<1> QED
  BY <1>2, <1>3, <1>4, <1>5, <1>6

LEMMA GateTypes ==
  ASSUME TypeOK, NEW g \in Gates,
         \/ BeginGate(g) \/ ReadDown(g) \/ ReadBalance(g) \/ ProbeAnswered(g)
         \/ (ProbeLands(g) /\ bal[g].at \in Time) \/ ProbeFails(g)
         \/ (Resolve(g) /\ (ClearsByBalance(down[g], bal[g]) => bal[g].at \in Time))
  PROVE  TypeOK'
<1> USE DEF TypeOK, gateVars, locals, world, kv, Goto, Pc
<1>1. g \in Proc
  BY DEF Proc
<1>2. CASE BeginGate(g)
  BY <1>1, <1>2 DEF BeginGate
<1>3. CASE ReadDown(g)
  BY <1>1, <1>3 DEF ReadDown
<1>4. CASE ReadBalance(g)
  <2>1. row # None => [out |-> row.out, at |-> row.at] \in Reading
    BY DEF Reading
  <2> QED
    BY <1>1, <1>4, <2>1 DEF ReadBalance
<1>5. CASE ProbeAnswered(g)
  <2>1. [out |-> "credits" \in trouble, at |-> now] \in Reading
    BY Truth DEF Reading
  <2> QED
    BY <1>1, <1>5, <2>1 DEF ProbeAnswered
<1>6. CASE ProbeLands(g) /\ bal[g].at \in Time
  <2>1. bal[g] \in Reading
    BY <1>6 DEF ProbeLands
  <2>2. [bal[g] EXCEPT !.at = now] \in Reading
    BY <2>1 DEF Reading
  <2>3. now + CreditsTtl \in Nat
    BY Ttls, LaterTime
  <2>4. [out |-> bal[g].out, at |-> now, until |-> now + CreditsTtl]
          \in [out : BOOLEAN, at : Time, until : Nat]
    BY <2>1, <2>3 DEF Reading
  <2>5. bal' \in [Gates -> Reading \cup {Unread}]
    BY <1>6, <2>2 DEF ProbeLands
  <2>6. pc' \in [Proc -> Pc]
    BY <1>1, <1>6 DEF ProbeLands
  <2>7. row' \in [out : BOOLEAN, at : Time, until : Nat] \cup {None}
    BY <1>6, <2>4 DEF ProbeLands
  <2> QED
    BY <1>6, <2>5, <2>6, <2>7 DEF ProbeLands
<1>7. CASE ProbeFails(g)
  BY <1>1, <1>7 DEF ProbeFails, Unknown, Reading
<1>8. CASE Resolve(g) /\ (ClearsByBalance(down[g], bal[g]) => bal[g].at \in Time)
  <2>1. pc' \in [Proc -> Pc]
    BY <1>1, <1>8 DEF Resolve
  <2>2. reason' \in [Proc -> Hard \cup Soft \cup {None}]
    BY <1>1, <1>8 DEF Resolve, Hard
  <2>3. cutoff' \in [Proc -> Time]
    BY <1>1, <1>8 DEF Resolve
  <2> QED
    BY <1>8, <2>1, <2>2, <2>3 DEF Resolve
<1> QED
  BY <1>2, <1>3, <1>4, <1>5, <1>6, <1>7, <1>8

-----------------------------------------------------------------------------
(* Frames.                                                                  *)

LEMMA ClockTypes ==
  ASSUME TypeOK
  PROVE  /\ now \in Int /\ now >= 0 /\ funded \in Int /\ broke \in Int
         /\ \A g \in Gates : began[g] \in Int
         /\ CreditsTtl \in Int /\ CreditsTtl >= 1
BY Ttls, TimeIsNat DEF TypeOK, Proc

LEMMA ClockTypesNext ==
  ASSUME TypeOK'
  PROVE  now' \in Int /\ now' >= 0 /\ funded' \in Int /\ broke' \in Int
BY Ttls, TimeIsNat DEF TypeOK

\* A gate that did not move stays right about its balance while the histories grow.
LEMMA GateStays ==
  ASSUME TypeOK, TypeOK', NEW g \in Gates, GateInv(g),
         now' = now, funded' >= funded, broke' >= broke,
         pc'[g] = pc[g], began'[g] = began[g], reason'[g] = reason[g],
         bal'[g] = bal[g], down'[g] = down[g]
  PROVE  GateInv(g)'
<1>1. /\ now \in Int /\ funded \in Int /\ broke \in Int /\ began[g] \in Int /\ CreditsTtl \in Int
      /\ funded' \in Int /\ broke' \in Int
  BY ClockTypes, ClockTypesNext
<1>2. \A t \in Time : t \in Int
  BY TimeIsNat
<1>3. /\ pc[g] = "probing" /\ bal[g] # Unread => Witnessed(bal[g].out, bal[g].at)'
      /\ Known(bal[g]) /\ pc[g] # "probing" => Witnessed(bal[g].out, bal[g].at - 1)'
  BY <1>1, <1>2 DEF GateInv, Witnessed
<1> QED
  BY <1>1, <1>3 DEF GateInv, Known

\* What the gates know of sentinels and old balances outlives every step that
\* neither raises the sentinel nor hands a gate the cached balance.
LEMMA Calm ==
  ASSUME TypeOK, TypeOK', OneOld, RaisedInv, broke' >= broke,
         now' = now \/ (now' = now + 1 /\ \A g \in Gates : ~ Old(g)'),
         row' = row \/ row' = None \/ row'.at >= now,
         row' # row => row' = None \/ now' = now,
         sentinel' \in {sentinel, None},
         \A g \in Gates : Old(g)' => Old(g) /\ bal'[g] = bal[g],
         \A g \in Gates : pc'[g] \in {"reading", "probing"} =>
           \/ down'[g] \in {None, Unread, sentinel}
           \/ down'[g] = down[g] /\ pc[g] \in {"reading", "probing"}
  PROVE  OneOld' /\ RaisedInv'
<1>1. now \in Int /\ broke \in Int /\ broke' \in Int /\ now' \in Int
  BY ClockTypes, ClockTypesNext
<1>2. row # None => row.at \in Int
  BY TimeIsNat DEF TypeOK
<1>3. row' # None => row'.at \in Int
  BY TimeIsNat DEF TypeOK
<1>4. OneOld'
  <2>1. \A g, h \in Gates : Old(g)' /\ Old(h)' => bal'[g].out = bal'[h].out
    BY DEF OneOld
  <2>2. \A g \in Gates : Old(g)' /\ row' # None /\ row'.at < now' => bal'[g].out = row'.out
    BY <1>1, <1>2, <1>3 DEF OneOld
  <2> QED
    BY <2>1, <2>2 DEF OneOld
<1>5. ASSUME NEW s \in Sentinel, Raised(s), s # None, s # Unread, s.reason = "credits"
      PROVE  /\ s.at <= now'
             /\ \/ broke' >= s.at - 1
                \/ /\ row' # None /\ row'.at < s.at => row'.out
                   /\ \A g \in Gates : Old(g)' /\ bal'[g].at < s.at => bal'[g].out
  <2>1. s.at \in Int
    BY TimeIsNat DEF Sentinel
  <2>2. /\ s.at <= now
        /\ \/ broke >= s.at - 1
           \/ /\ row # None /\ row.at < s.at => row.out
              /\ \A g \in Gates : Old(g) /\ bal[g].at < s.at => bal[g].out
    BY <1>5 DEF Raised
  <2>3. CASE broke >= s.at - 1
    BY <1>1, <2>1, <2>2, <2>3
  <2>4. CASE /\ row # None /\ row.at < s.at => row.out
             /\ \A g \in Gates : Old(g) /\ bal[g].at < s.at => bal[g].out
    <3>1. row' # None /\ row'.at < s.at => row'.out
      BY <1>1, <1>2, <1>3, <2>1, <2>2, <2>4
    <3>2. \A g \in Gates : Old(g)' /\ bal'[g].at < s.at => bal'[g].out
      BY <2>4
    <3> QED
      BY <1>1, <2>1, <2>2, <3>1, <3>2
  <2> QED
    BY <2>2, <2>3, <2>4
<1>6. /\ sentinel \in Sentinel \cup {None} /\ Raised(sentinel)
      /\ \A g \in Gates : down[g] \in Sentinel \cup {None, Unread}
      /\ \A g \in Gates : pc[g] \in {"reading", "probing"} => Raised(down[g])
  BY DEF TypeOK, RaisedInv
<1>7. Raised(sentinel)'
  BY <1>5, <1>6 DEF Raised
<1>8. ASSUME NEW g \in Gates, pc'[g] \in {"reading", "probing"} PROVE Raised(down[g])'
  <2>1. CASE down'[g] \in {None, Unread}
    BY <2>1 DEF Raised
  <2>2. CASE down'[g] = sentinel
    BY <1>5, <1>6, <2>2 DEF Raised
  <2>3. CASE down'[g] = down[g] /\ pc[g] \in {"reading", "probing"}
    BY <1>5, <1>6, <2>3 DEF Raised
  <2> QED
    BY <1>8, <2>1, <2>2, <2>3
<1> QED
  BY <1>4, <1>7, <1>8 DEF RaisedInv

-----------------------------------------------------------------------------
(* The world.                                                               *)

LEMMA TickKeeps == ASSUME IInv, Tick PROVE IInv'
<1>1. TypeOK /\ Clock /\ RowInv /\ OneOld /\ RaisedInv /\ ClearInv
  BY DEF IInv
<1>2. TypeOK'
  BY <1>1, TickTypes
<1>3. /\ now' = now + 1 /\ funded' >= funded /\ broke' >= broke
      /\ UNCHANGED <<trouble, pc, began, reason, seen, cutoff, down, bal>>
      /\ sentinel' = Unexpired(sentinel, now + 1) /\ row' = Unexpired(row, now + 1)
      /\ \A p \in Proc : AtRest(p)
  BY <1>1, ClockTypes DEF Tick, Clock, locals, gateVars
<1>4. /\ now \in Int /\ funded \in Int /\ broke \in Int /\ funded' \in Int /\ broke' \in Int
      /\ CreditsTtl \in Int
  BY <1>1, <1>2, ClockTypes, ClockTypesNext
<1>5. \A p \in Proc : /\ pc[p] \in {"idle", "running", "done", "open", "refused", "probing"}
                      /\ pc[p] = "probing" => bal[p] # Unread /\ bal[p].at = now
  BY <1>3 DEF AtRest
<1>6. Clock'
  BY <1>1, <1>4 DEF Tick, Clock
<1>7. RowInv'
  <2>1. CASE row' = None
    BY <2>1 DEF RowInv
  <2>2. CASE row' = row /\ row # None /\ now + 1 < row.until
    <3>1. row.at \in Int
      BY <1>1, <2>2, TimeIsNat DEF TypeOK
    <3> QED
      BY <1>1, <1>3, <1>4, <2>2, <3>1 DEF RowInv, Witnessed
  <2> QED
    BY <1>3, <2>1, <2>2 DEF Unexpired
<1>8. ASSUME NEW g \in Gates PROVE GateInv(g)'
  <2>1. g \in Proc /\ GateInv(g) /\ began[g] \in Int
    BY <1>1, ClockTypes DEF IInv, Proc
  <2>2. \A t \in Time : t \in Int
    BY TimeIsNat
  <2>3. pc[g] = "probing" /\ bal[g] # Unread =>
          /\ bal[g].at \in Time /\ bal[g].at <= now' /\ now' <= bal[g].at + 1
          /\ began[g] <= bal[g].at /\ Witnessed(bal[g].out, bal[g].at)'
    BY <1>3, <1>4, <1>5, <2>1, <2>2 DEF GateInv, Witnessed
  <2>4. Known(bal[g]) /\ pc[g] # "probing" =>
          /\ bal[g].at \in Time /\ bal[g].at <= now' /\ began[g] < bal[g].at + CreditsTtl
          /\ Witnessed(bal[g].out, bal[g].at - 1)'
    BY <1>3, <1>4, <2>1, <2>2 DEF GateInv, Witnessed
  <2>5. pc[g] = "refused" /\ bal[g] # Unknown /\ ~ bal[g].out
          /\ down[g] # None /\ down[g].reason = "credits" => broke' >= began[g] - CreditsTtl
    BY <1>3, <1>4, <2>1 DEF GateInv
  <2> QED
    BY <1>3, <1>4, <2>1, <2>3, <2>4, <2>5 DEF GateInv, Known
<1>9. OneOld' /\ RaisedInv'
  <2>1. \A g \in Gates : g \in Proc
    BY DEF Proc
  <2>2. \A g \in Gates : ~ Old(g)'
    BY <1>3, <1>5, <2>1 DEF Old
  <2>3. row' \in {row, None} /\ sentinel' \in {sentinel, None}
    BY <1>3 DEF Unexpired
  <2> QED
    BY <1>1, <1>2, <1>3, <2>2, <2>3, Calm
<1>10. NoteInv'
  <2>1. Jobs \cup Steps \subseteq Proc
    BY DEF Proc
  <2> QED
    BY <1>3, <1>5, <2>1 DEF NoteInv
<1>12. TripInv'
  BY <1>3, <1>5 DEF TripInv
<1>11. ClearInv'
  <2>1. Jobs \subseteq Proc /\ Steps \subseteq Proc
    BY DEF Proc
  <2>2. sentinel' # None => sentinel' = sentinel /\ absent' = absent
    BY <1>3 DEF Tick, Unexpired
  <2> QED
    BY <1>1, <1>3, <1>5, <2>1, <2>2 DEF ClearInv
<1> QED
  BY <1>2, <1>6, <1>7, <1>8, <1>9, <1>10, <1>11, <1>12 DEF IInv

LEMMA TroubleKeeps ==
  ASSUME IInv, NEW r \in Troubles, TroubleStarts(r) \/ TroubleEnds(r) PROVE IInv'
<1>1. TypeOK /\ Clock /\ RowInv /\ OneOld /\ RaisedInv /\ NoteInv /\ TripInv /\ ClearInv
  BY DEF IInv
<1>2. TypeOK'
  BY <1>1, TroubleTypes
<1>3. /\ now' = now /\ funded' >= funded /\ broke' >= broke
      /\ UNCHANGED <<sentinel, row, pc, began, reason, seen, cutoff, down, bal>>
  BY <1>1, ClockTypes DEF TroubleStarts, TroubleEnds, Clock, locals, gateVars, kv
<1>4. now \in Int /\ funded \in Int /\ broke \in Int /\ funded' \in Int /\ broke' \in Int
  BY <1>1, <1>2, ClockTypes, ClockTypesNext
<1>5. Clock'
  BY <1>1, <1>4 DEF TroubleStarts, TroubleEnds, Clock
<1>6. RowInv'
  <2>1. row # None => row.at \in Int
    BY <1>1, TimeIsNat DEF TypeOK
  <2> QED
    BY <1>1, <1>3, <1>4, <2>1 DEF RowInv, Witnessed
<1>7. \A g \in Gates : GateInv(g)'
  BY <1>1, <1>2, <1>3, GateStays DEF IInv
<1>8. OneOld' /\ RaisedInv'
  <2>1. \A g \in Gates : Old(g)' => Old(g)
    BY <1>3 DEF Old
  <2> QED
    BY <1>1, <1>2, <1>3, <2>1, Calm
<1>9. NoteInv'
  BY <1>1, <1>3, <1>4 DEF NoteInv
<1>11. TripInv'
  BY <1>1, <1>3 DEF TripInv, PutAllowed, DeleteAllowed, Recent
<1>10. ClearInv'
  <2>1. /\ sentinel' # None => Hard \ trouble' \subseteq absent'
        /\ sentinel # None => absent \subseteq absent'
    BY <1>1, <1>3 DEF ClearInv, TroubleStarts, TroubleEnds, kv
  <2> QED
    BY <1>1, <1>3, <2>1 DEF ClearInv
<1> QED
  BY <1>2, <1>5, <1>6, <1>7, <1>8, <1>9, <1>10, <1>11 DEF IInv

-----------------------------------------------------------------------------
(* Jobs and steps.                                                          *)

\* The clock, the histories and both KV entries stand, and so do all gates.
LEMMA OthersKeep ==
  ASSUME IInv, TypeOK', UNCHANGED <<world, kv, gateVars>>,
         \A g \in Gates : pc'[g] = pc[g] /\ began'[g] = began[g] /\ reason'[g] = reason[g]
  PROVE  Clock' /\ RowInv' /\ (\A g \in Gates : GateInv(g)') /\ OneOld' /\ RaisedInv'
<1>1. TypeOK /\ Clock /\ RowInv /\ OneOld /\ RaisedInv
  BY DEF IInv
<1>2. UNCHANGED <<now, trouble, funded, broke, sentinel, absent, row, down, bal>>
  BY DEF world, kv, gateVars
<1>3. Clock' /\ RowInv'
  BY <1>1, <1>2 DEF Clock, RowInv, Witnessed
<1>4. now \in Int /\ funded \in Int /\ broke \in Int
  BY <1>1, ClockTypes
<1>5. \A g \in Gates : GateInv(g)'
  BY <1>1, <1>2, <1>4, GateStays DEF IInv
<1>6. \A g \in Gates : Old(g)' => Old(g)
  BY <1>2 DEF Old
<1>7. OneOld' /\ RaisedInv'
  BY <1>1, <1>2, <1>4, <1>6, Calm
<1> QED
  BY <1>3, <1>5, <1>7

LEMMA ActorKeeps ==
  ASSUME IInv, NEW p \in Jobs \cup Steps, NEW t, NEW hit, NEW r,
         \/ p \in Jobs /\ StartJob(p)
         \/ p \in Jobs /\ t \in Transports /\ hit \in {FALSE, GatewayHits} /\ SucceedJob(p, t, hit)
         \/ p \in Jobs /\ BudgetPausedJob(p)
         \/ p \in Steps /\ StartStep(p)
         \/ p \in Steps /\ SucceedStep(p)
         \/ p \in Steps /\ BudgetPausedStep(p)
         \/ Fail(p, r)
  PROVE  IInv'
<1> USE DEF Goto
<1>1. TypeOK /\ Clock /\ NoteInv /\ TripInv /\ ClearInv
  BY DEF IInv
<1>2. TypeOK'
  BY <1>1, ActorTypes
<1>3. /\ UNCHANGED <<world, kv, gateVars, seen>>
      /\ \A q \in Proc : q # p => /\ pc'[q] = pc[q] /\ began'[q] = began[q]
                                  /\ reason'[q] = reason[q] /\ cutoff'[q] = cutoff[q]
  BY <1>1 DEF TypeOK, StartJob, StartStep, SucceedJob, SucceedStep, Fail, BudgetPausedJob,
              BudgetPausedStep, locals
<1>4. p \in Proc /\ p \notin Gates /\ \A g \in Gates : g \in Proc
  BY ProcAssumption DEF Proc
<1>5. Clock' /\ RowInv' /\ (\A g \in Gates : GateInv(g)') /\ OneOld' /\ RaisedInv'
  BY <1>2, <1>3, <1>4, OthersKeep
<1>6. UNCHANGED <<now, trouble, broke, sentinel, absent>>
  BY <1>3 DEF world, kv
<1>7. pc'[p] \in {"noteRead", "notePut"} =>
        reason'[p] \in Hard \cup Soft /\ (reason'[p] = "credits" => broke >= now)
  <2>1. CASE Fail(p, r)
    <3>1. reason'[p] = r /\ r \in trouble \cup {"rate-limit"}
      BY <1>1, <1>4, <2>1 DEF Fail, TypeOK
    <3>2. r = "credits" => broke >= now
      BY <1>1, <3>1, ClockTypes DEF Clock
    <3> QED
      BY <1>1, <3>1, <3>2 DEF TypeOK, Soft
  <2>2. CASE BudgetPausedStep(p)
    BY <1>1, <1>4, <2>2 DEF BudgetPausedStep, TypeOK, Soft
  <2>3. CASE ~ Fail(p, r) /\ ~ BudgetPausedStep(p)
    BY <1>1, <1>4, <2>3 DEF StartJob, StartStep, SucceedJob, SucceedStep, BudgetPausedJob, TypeOK
  <2> QED
    BY <2>1, <2>2, <2>3
<1>8. NoteInv'
  <2>1. \A q \in Proc : pc'[q] \in {"noteRead", "notePut"} => reason'[q] \in Hard \cup Soft
    BY <1>1, <1>3, <1>7 DEF NoteInv
  <2>2. \A q \in Jobs \cup Steps : pc'[q] \in {"noteRead", "notePut"} /\ reason'[q] = "credits" =>
          broke' >= now'
    <3>1. Jobs \cup Steps \subseteq Proc
      BY DEF Proc
    <3> QED
      BY <1>1, <1>3, <1>6, <1>7, <3>1 DEF NoteInv
  <2> QED
    BY <2>1, <2>2 DEF NoteInv
<1>9. pc'[p] \notin {"notePut", "clearDelete"} /\ (p \in Steps => pc'[p] # "clearRead")
  BY <1>1, <1>4, ProcAssumption
     DEF TypeOK, StartJob, StartStep, SucceedJob, SucceedStep, Fail, BudgetPausedJob, BudgetPausedStep
<1>10. ASSUME ProviderAnswers, pc'[p] = "clearRead"
       PROVE  /\ cutoff'[p] < now
              /\ sentinel # None /\ sentinel.reason \in Hard => sentinel.reason \in absent
  <2>1. /\ p \in Jobs /\ t \in Transports /\ hit \in {FALSE, GatewayHits}
        /\ SucceedJob(p, t, hit) /\ t \in LlmTransports /\ cutoff'[p] = began[p]
    BY <1>1, <1>4, <1>10, ProcAssumption
       DEF TypeOK, StartJob, StartStep, SucceedJob, SucceedStep, Fail, BudgetPausedJob,
           BudgetPausedStep
  <2>2. t = "openrouter-gateway" /\ trouble = {} /\ now > began[p]
    <3>1. t = "openrouter-gateway"
      BY <1>10, <2>1 DEF ProviderAnswers, LlmTransports
    <3>2. hit = FALSE
      BY <1>10, <2>1, HitsAssumption, Zenon DEF ProviderAnswers
    <3>3. ~ hit
      BY <3>2
    <3>4. CanServe(t, hit) /\ now > began[p]
      BY <2>1, <3>3 DEF SucceedJob
    <3> QED
      BY <3>1, <3>3, <3>4 DEF CanServe
  <2>3. now \in Int /\ began[p] \in Int
    BY <1>1, <1>4, ClockTypes, TimeIsNat DEF TypeOK
  <2> QED
    BY <1>1, <2>1, <2>2, <2>3 DEF ClearInv
<1>11. ClearInv'
  <2>1. Jobs \subseteq Proc /\ Steps \subseteq Proc
    BY DEF Proc
  <2>2. sentinel' # None => Hard \ trouble' \subseteq absent'
    BY <1>1, <1>6 DEF ClearInv
  <2>4. \A s \in Steps : pc'[s] \notin {"clearRead", "clearDelete"}
    BY <1>1, <1>3, <1>9, <2>1 DEF ClearInv
  <2>5. ProviderAnswers =>
          \A j \in Jobs : pc'[j] \in {"clearRead", "clearDelete"} =>
            /\ cutoff'[j] < now'
            /\ sentinel' # None /\ sentinel'.at <= cutoff'[j] /\ sentinel'.reason \in Hard =>
                 sentinel'.reason \in absent'
    BY <1>1, <1>3, <1>6, <1>9, <1>10, <2>1 DEF ClearInv
  <2> QED
    BY <2>2, <2>4, <2>5 DEF ClearInv, ProviderAnswers
<1>12. TripInv'
  <2>1. \A q \in Proc : pc'[q] \in {"notePut", "clearDelete"} =>
          /\ pc[q] = pc'[q] /\ seen'[q] = seen[q] /\ cutoff'[q] = cutoff[q] /\ reason'[q] = reason[q]
    BY <1>3, <1>9
  <2> QED
    BY <1>1, <1>6, <2>1 DEF TripInv, PutAllowed, DeleteAllowed, Recent
<1> QED
  BY <1>2, <1>5, <1>8, <1>11, <1>12 DEF IInv

-----------------------------------------------------------------------------
(* noteAiDown and clearAiDown.                                              *)

\* A gate that notes ends refused, one that clears ends open.
LEMMA GateNotes ==
  ASSUME IInv, NEW g \in Gates, UNCHANGED <<world, gateVars, began, reason>>,
         \/ pc[g] \in {"noteRead", "notePut"} /\ pc'[g] \in {"notePut", "refused"}
         \/ pc[g] \in {"clearRead", "clearDelete"} /\ pc'[g] \in {"clearDelete", "open"}
  PROVE  GateInv(g)' /\ (Old(g)' => Old(g)) /\ pc'[g] \notin {"reading", "probing"}
<1>1. GateInv(g)
  BY DEF IInv
<1>2. UNCHANGED <<now, funded, broke, down, bal, began, reason>>
  BY DEF world, gateVars
<1>3. Old(g)' => Old(g)
  BY <1>2 DEF Old
<1>4. Known(bal[g]) =>
        /\ bal[g].at \in Time /\ bal[g].at <= now /\ began[g] < bal[g].at + CreditsTtl
        /\ Witnessed(bal[g].out, bal[g].at - 1)'
  BY <1>1, <1>2 DEF GateInv, Witnessed
<1>5. bal[g] # Unread /\ began[g] <= now
      /\ (pc'[g] \in {"notePut", "refused"} => reason[g] = "credits" /\ bal[g].out)
      /\ (pc'[g] \in {"clearDelete", "open"} => ~ bal[g].out)
  BY <1>1 DEF GateInv
<1>6. GateInv(g)'
  BY <1>2, <1>4, <1>5 DEF GateInv, Known
<1> QED
  BY <1>3, <1>6

\* The pcs of one process through a note or a clear.
LEMMA KvMoves ==
  ASSUME IInv, NEW p \in Proc, KvSteps(p)
  PROVE  /\ UNCHANGED <<world, row, gateVars, began, reason, cutoff>>
         /\ \A q \in Proc : q # p => pc'[q] = pc[q] /\ seen'[q] = seen[q]
         /\ p \in Gates => \/ pc[p] \in {"noteRead", "notePut"} /\ pc'[p] \in {"notePut", "refused"}
                           \/ pc[p] \in {"clearRead", "clearDelete"} /\ pc'[p] \in {"clearDelete", "open"}
         /\ p \notin Gates =>
              \/ pc[p] \in {"noteRead", "notePut"} /\ pc'[p] \in {"notePut", "done"}
              \/ pc[p] \in {"clearRead", "clearDelete"} /\ pc'[p] \in {"clearDelete", "done"}
         /\ pc'[p] \in {"notePut", "clearDelete"} => sentinel' = sentinel
         /\ pc'[p] = "notePut" => pc[p] = "noteRead"
              /\ (seen'[p] = Unread \/ (seen'[p] = sentinel /\
                    (sentinel = None \/ Upgrades(reason[p], sentinel))))
         /\ pc'[p] = "clearDelete" => pc[p] = "clearRead"
              /\ seen'[p] = sentinel /\ Disproven(sentinel, cutoff[p])
<1> USE DEF Goto, kv, locals
<1>1. TypeOK
  BY DEF IInv
<1>2. CASE NoteRead(p)
  <2>1. PICK read \in {sentinel, Unread} :
          /\ seen' = [seen EXCEPT ![p] = read]
          /\ pc' = [pc EXCEPT ![p] = IF ~ Standing(read) \/ Upgrades(reason[p], read)
                                       THEN "notePut" ELSE After(p)]
    BY <1>2 DEF NoteRead
  <2>2. /\ pc[p] = "noteRead" /\ UNCHANGED <<world, row, gateVars, began, reason, cutoff, sentinel>>
        /\ seen'[p] = read
        /\ pc'[p] = IF ~ Standing(read) \/ Upgrades(reason[p], read) THEN "notePut" ELSE After(p)
        /\ \A q \in Proc : q # p => pc'[q] = pc[q] /\ seen'[q] = seen[q]
    BY <1>1, <1>2, <2>1 DEF NoteRead, TypeOK
  <2>3. After(p) = IF p \notin Gates THEN "done" ELSE "refused"
    BY <2>2 DEF After
  <2>4. pc'[p] = "notePut" => read = Unread \/ sentinel = None \/ Upgrades(reason[p], sentinel)
    BY <2>2, <2>3 DEF Standing
  <2> QED
    BY <2>2, <2>3, <2>4
<1>3. CASE NotePut(p)
  BY <1>1, <1>3 DEF NotePut, TypeOK, After
<1>4. CASE ClearRead(p)
  <2>1. PICK read \in {sentinel, Unread} :
          /\ seen' = [seen EXCEPT ![p] = read]
          /\ pc' = [pc EXCEPT ![p] = IF Disproven(read, cutoff[p]) THEN "clearDelete" ELSE After(p)]
    BY <1>4 DEF ClearRead
  <2>2. /\ pc[p] = "clearRead" /\ UNCHANGED <<world, row, gateVars, began, reason, cutoff, sentinel>>
        /\ seen'[p] = read
        /\ pc'[p] = IF Disproven(read, cutoff[p]) THEN "clearDelete" ELSE After(p)
        /\ \A q \in Proc : q # p => pc'[q] = pc[q] /\ seen'[q] = seen[q]
    BY <1>1, <1>4, <2>1 DEF ClearRead, TypeOK
  <2>3. After(p) = IF p \notin Gates THEN "done" ELSE "open"
    BY <2>2 DEF After
  <2>4. pc'[p] = "clearDelete" => read = sentinel /\ Disproven(sentinel, cutoff[p])
    BY <2>2, <2>3 DEF Disproven, Standing
  <2> QED
    BY <2>2, <2>3, <2>4
<1>5. CASE ClearDelete(p)
  BY <1>1, <1>5 DEF ClearDelete, TypeOK, After
<1>6. CASE WriteFails(p)
  BY <1>1, <1>6 DEF WriteFails, TypeOK, After
<1> QED
  BY <1>2, <1>3, <1>4, <1>5, <1>6 DEF KvSteps

\* What a note or a clear leaves alone, whatever it does to the sentinel.
LEMMA KvFrame ==
  ASSUME IInv, NEW p \in Proc, KvSteps(p)
  PROVE  /\ TypeOK' /\ Clock' /\ RowInv' /\ (\A g \in Gates : GateInv(g)') /\ NoteInv'
         /\ \A g \in Gates : Old(g)' => Old(g)
         /\ \A g \in Gates : pc'[g] \in {"reading", "probing"} => pc[g] \in {"reading", "probing"}
<1>1. TypeOK /\ Clock /\ RowInv /\ NoteInv
  BY DEF IInv
<1>2. TypeOK'
  BY <1>1, KvTypes
<1>3. UNCHANGED <<now, trouble, funded, broke, row, down, bal, began, reason>>
  BY KvMoves DEF world, gateVars
<1>4. \A g \in Gates : g \in Proc
  BY DEF Proc
<1>5. Clock' /\ RowInv'
  BY <1>1, <1>3 DEF Clock, RowInv, Witnessed
<1>6. ASSUME NEW g \in Gates
      PROVE  /\ GateInv(g)' /\ (Old(g)' => Old(g))
             /\ pc'[g] \in {"reading", "probing"} => pc[g] \in {"reading", "probing"}
  <2>1. CASE g = p
    BY <2>1, KvMoves, GateNotes
  <2>2. CASE g # p
    <3>1. pc'[g] = pc[g]
      BY <1>4, <2>2, KvMoves
    <3>2. GateInv(g)'
      BY <1>1, <1>2, <1>3, <3>1, ClockTypes, GateStays DEF IInv
    <3> QED
      BY <1>3, <3>1, <3>2 DEF Old
  <2> QED
    BY <2>1, <2>2
<1>7. NoteInv'
  <2>1. \A q \in Proc : pc'[q] \in {"noteRead", "notePut"} => pc[q] \in {"noteRead", "notePut"}
    BY KvMoves
  <2>2. Jobs \cup Steps \subseteq Proc
    BY DEF Proc
  <2> QED
    BY <1>1, <1>3, <2>1, <2>2 DEF NoteInv
<1> QED
  BY <1>2, <1>5, <1>6, <1>7

LEMMA KvKeeps == ASSUME IInv, NEW p \in Proc, KvSteps(p) PROVE IInv'
<1>1. TypeOK /\ OneOld /\ RaisedInv /\ NoteInv /\ TripInv /\ ClearInv /\ Clock
  BY DEF IInv
<1>2. /\ TypeOK' /\ Clock' /\ RowInv' /\ (\A g \in Gates : GateInv(g)') /\ NoteInv'
      /\ \A g \in Gates : Old(g)' => Old(g)
      /\ \A g \in Gates : pc'[g] \in {"reading", "probing"} => pc[g] \in {"reading", "probing"}
  BY KvFrame
<1>3. UNCHANGED <<now, trouble, funded, broke, row, down, bal, began, reason, cutoff>>
  BY KvMoves DEF world, gateVars
<1>4. now \in Int /\ funded \in Int /\ broke \in Int
  BY <1>1, ClockTypes
<1>5. /\ ~ NotePut(p) => sentinel' \in {sentinel, None} /\ (sentinel' # None => absent' = absent)
      /\ NotePut(p) => /\ pc[p] = "notePut" /\ sentinel'.reason = reason[p] /\ sentinel'.at = now
                       /\ absent' = Hard \ trouble
  BY DEF KvSteps, NoteRead, NotePut, ClearRead, ClearDelete, WriteFails, kv
<1>6. OneOld' /\ RaisedInv'
  <2>1. CASE ~ NotePut(p)
    BY <1>1, <1>2, <1>3, <1>4, <1>5, <2>1, Calm
  <2>2. CASE NotePut(p)
    <3>1. OneOld'
      BY <1>1, <1>2, <1>3 DEF OneOld
    <3>2. \A g \in Gates : pc'[g] \in {"reading", "probing"} => Raised(down[g])'
      BY <1>1, <1>2, <1>3 DEF RaisedInv, Raised
    <3>3. ASSUME reason[p] = "credits"
          PROVE  \/ broke >= now - 1
                 \/ /\ row # None /\ row.at < now => row.out
                    /\ \A g \in Gates : Old(g) /\ bal[g].at < now => bal[g].out
      <4>1. CASE p \in Jobs \cup Steps
        BY <1>1, <1>4, <1>5, <2>2, <3>3, <4>1 DEF NoteInv
      <4>2. CASE p \in Gates
        <5>1. GateInv(p) /\ bal[p] # Unread /\ bal[p].out
          BY <1>5, <2>2, <4>2 DEF IInv, GateInv
        <5>2. bal[p] # Unknown
          BY <5>1 DEF Unknown
        <5>3. bal[p].at \in Int /\ bal[p].at <= now /\ broke >= bal[p].at - 1
          BY <1>5, <2>2, <5>1, <5>2, TimeIsNat DEF GateInv, Known, Witnessed
        <5>4. CASE bal[p].at = now
          BY <1>4, <5>3, <5>4
        <5>5. CASE bal[p].at < now
          <6>1. Old(p)
            BY <1>5, <2>2, <5>1, <5>2, <5>5 DEF Old, Known
          <6>2. \A g \in Gates : Old(g) => bal[g].out
            BY <1>1, <4>2, <5>1, <6>1 DEF OneOld
          <6>3. row # None /\ row.at < now => row.out
            BY <1>1, <4>2, <5>1, <6>1 DEF OneOld
          <6> QED
            BY <6>2, <6>3
        <5> QED
          BY <1>4, <5>3, <5>4, <5>5
      <4> QED
        BY <4>1, <4>2 DEF Proc
    <3>4. Raised(sentinel)'
      BY <1>2, <1>3, <1>4, <1>5, <2>2, <3>3 DEF Raised
    <3> QED
      BY <3>1, <3>2, <3>4 DEF RaisedInv
  <2> QED
    BY <2>1, <2>2
<1>7. ClearInv'
  <2>1. sentinel' # None => Hard \ trouble' \subseteq absent'
    BY <1>1, <1>3, <1>5 DEF ClearInv
  <2>3. \A q \in Proc : pc'[q] \in {"clearRead", "clearDelete"} => pc[q] \in {"clearRead", "clearDelete"}
    BY KvMoves
  <2>4. Jobs \subseteq Proc /\ Steps \subseteq Proc
    BY DEF Proc
  <2>5. \A s \in Steps : pc'[s] \notin {"clearRead", "clearDelete"}
    BY <1>1, <2>3, <2>4 DEF ClearInv
  <2>6. ASSUME ProviderAnswers, NEW j \in Jobs,
               pc'[j] \in {"clearRead", "clearDelete"}
        PROVE  /\ cutoff'[j] < now'
               /\ sentinel' # None /\ sentinel'.at <= cutoff'[j] /\ sentinel'.reason \in Hard =>
                    sentinel'.reason \in absent'
    <3>1. /\ cutoff[j] < now /\ cutoff[j] \in Int
          /\ sentinel # None /\ sentinel.at <= cutoff[j] /\ sentinel.reason \in Hard =>
               sentinel.reason \in absent
      BY <1>1, <2>3, <2>4, <2>6, TimeIsNat DEF ClearInv, TypeOK
    <3>2. CASE NotePut(p)
      BY <1>3, <1>4, <1>5, <3>1, <3>2
    <3>3. CASE ~ NotePut(p)
      BY <1>3, <1>5, <3>1, <3>3
    <3> QED
      BY <3>2, <3>3
  <2> QED
    BY <2>1, <2>5, <2>6 DEF ClearInv, ProviderAnswers
<1>8. TripInv'
  <2>1. ASSUME NEW q \in Proc, pc'[q] \in {"notePut", "clearDelete"}
        PROVE  /\ pc'[q] = "notePut" => PutAllowed(q)'
               /\ pc'[q] = "clearDelete" => DeleteAllowed(q)'
    <3>1. CASE q = p
      <4>1. sentinel' = sentinel /\ now' = now
        BY <1>3, <2>1, <3>1, KvMoves
      <4>2. pc'[q] = "notePut" => PutAllowed(q)'
        BY <1>3, <3>1, <4>1, KvMoves DEF PutAllowed, Recent
      <4>3. pc'[q] = "clearDelete" => DeleteAllowed(q)'
        BY <1>3, <3>1, <4>1, KvMoves DEF DeleteAllowed, Recent
      <4> QED
        BY <4>2, <4>3
    <3>2. CASE q # p
      <4>1. pc'[q] = pc[q] /\ seen'[q] = seen[q] /\ reason'[q] = reason[q] /\ cutoff'[q] = cutoff[q]
        BY <1>3, <3>2, KvMoves
      <4>2. sentinel' = sentinel \/ Recent'
        <5>1. CASE NotePut(p)
          BY <1>3, <1>5, <5>1 DEF Recent
        <5>2. CASE ~ NotePut(p)
          BY <1>5, <5>2 DEF Recent
        <5> QED
          BY <5>1, <5>2
      <4>3. Recent /\ sentinel' = sentinel => Recent'
        BY <1>3 DEF Recent
      <4>4. pc'[q] = "notePut" => PutAllowed(q)'
        BY <1>1, <4>1, <4>2, <4>3 DEF TripInv, PutAllowed
      <4>5. pc'[q] = "clearDelete" => DeleteAllowed(q)'
        BY <1>1, <4>1, <4>2, <4>3 DEF TripInv, DeleteAllowed
      <4> QED
        BY <4>4, <4>5
    <3> QED
      BY <3>1, <3>2
  <2> QED
    BY <2>1 DEF TripInv
<1> QED
  BY <1>2, <1>6, <1>7, <1>8 DEF IInv

-----------------------------------------------------------------------------
(* The route gate, up to the note or the clear it decides on.               *)

GateReads(g) ==
  BeginGate(g) \/ ReadDown(g) \/ ReadBalance(g) \/ ProbeAnswered(g) \/ ProbeLands(g)
  \/ ProbeFails(g) \/ Resolve(g)

LEMMA ReadTypes == ASSUME IInv, NEW g \in Gates, GateReads(g) PROVE TypeOK'
<1>1. TypeOK /\ GateInv(g)
  BY DEF IInv
<1>2. ProbeLands(g) => bal[g].at \in Time
  BY <1>1 DEF ProbeLands, GateInv
<1>3. Resolve(g) => (ClearsByBalance(down[g], bal[g]) => bal[g].at \in Time)
  BY <1>1 DEF Resolve, ClearsByBalance, TypeOK, Reading
<1> QED
  BY <1>1, <1>2, <1>3, GateTypes DEF GateReads

\* Before it notes or clears, a gate leaves the others and the sentinel alone.
LEMMA ReadFrame ==
  ASSUME IInv, NEW g \in Gates, GateReads(g)
  PROVE  /\ UNCHANGED <<world, sentinel, absent, seen>>
         /\ \A q \in Proc : q # g => /\ pc'[q] = pc[q] /\ began'[q] = began[q]
                                     /\ reason'[q] = reason[q] /\ cutoff'[q] = cutoff[q]
         /\ \A h \in Gates : h # g => bal'[h] = bal[h] /\ down'[h] = down[h]
         /\ pc'[g] \notin {"notePut", "clearDelete"}
         /\ pc'[g] = "noteRead" => reason'[g] = "credits"
<1> USE DEF Goto, kv, locals, gateVars
<1>1. TypeOK /\ g \in Proc
  BY DEF IInv, Proc
<1>2. CASE BeginGate(g) \/ ReadDown(g)
  BY <1>1, <1>2 DEF BeginGate, ReadDown, TypeOK
<1>3. CASE ReadBalance(g)
  BY <1>1, <1>3 DEF ReadBalance, TypeOK
<1>4. CASE ProbeAnswered(g) \/ ProbeLands(g) \/ ProbeFails(g)
  BY <1>1, <1>4 DEF ProbeAnswered, ProbeLands, ProbeFails, TypeOK
<1>5. CASE Resolve(g)
  BY <1>1, <1>5 DEF Resolve, TypeOK
<1> QED
  BY <1>2, <1>3, <1>4, <1>5 DEF GateReads

LEMMA ReadOthers ==
  ASSUME IInv, NEW g \in Gates, GateReads(g)
  PROVE  /\ Clock' /\ NoteInv' /\ TripInv' /\ ClearInv'
         /\ \A h \in Gates : h # g => GateInv(h)' /\ (Old(h)' <=> Old(h))
<1>1. TypeOK /\ Clock /\ NoteInv /\ TripInv /\ ClearInv /\ TypeOK'
  BY ReadTypes DEF IInv
<1>2. UNCHANGED <<now, trouble, funded, broke, sentinel, absent, seen>>
  BY ReadFrame DEF world
<1>3. Clock'
  BY <1>1, <1>2 DEF Clock
<1>4. now \in Int /\ funded \in Int /\ broke \in Int
  BY <1>1, ClockTypes
<1>5. g \in Proc /\ g \notin Jobs \cup Steps /\ Jobs \cup Steps \subseteq Proc
  BY ProcAssumption DEF Proc
<1>6. NoteInv'
  <2>1. \A q \in Proc : pc'[q] \in {"noteRead", "notePut"} => reason'[q] \in Hard \cup Soft
    BY <1>1, ReadFrame DEF NoteInv, Hard
  <2>2. \A q \in Jobs \cup Steps : pc'[q] \in {"noteRead", "notePut"} /\ reason'[q] = "credits" =>
          broke' >= now'
    BY <1>1, <1>2, <1>5, ReadFrame DEF NoteInv
  <2> QED
    BY <2>1, <2>2 DEF NoteInv
<1>7. ClearInv'
  <2>2. \A q \in Jobs \cup Steps : pc'[q] = pc[q] /\ cutoff'[q] = cutoff[q]
    BY <1>5, ReadFrame
  <2>3. /\ sentinel' # None => Hard \ trouble' \subseteq absent'
        /\ \A s \in Steps : pc'[s] \notin {"clearRead", "clearDelete"}
    BY <1>1, <1>2, <2>2 DEF ClearInv
  <2>4. ProviderAnswers =>
          \A j \in Jobs : pc'[j] \in {"clearRead", "clearDelete"} =>
            /\ cutoff'[j] < now'
            /\ sentinel' # None /\ sentinel'.at <= cutoff'[j] /\ sentinel'.reason \in Hard =>
                 sentinel'.reason \in absent'
    BY <1>1, <1>2, <2>2 DEF ClearInv
  <2> QED
    BY <2>3, <2>4 DEF ClearInv, ProviderAnswers
<1>9. TripInv'
  <2>1. \A q \in Proc : pc'[q] \in {"notePut", "clearDelete"} =>
          /\ pc[q] = pc'[q] /\ seen'[q] = seen[q] /\ cutoff'[q] = cutoff[q] /\ reason'[q] = reason[q]
    BY <1>2, ReadFrame
  <2> QED
    BY <1>1, <1>2, <2>1 DEF TripInv, PutAllowed, DeleteAllowed, Recent
<1>8. ASSUME NEW h \in Gates, h # g PROVE GateInv(h)' /\ (Old(h)' <=> Old(h))
  <2>1. h \in Proc
    BY DEF Proc
  <2>2. /\ pc'[h] = pc[h] /\ began'[h] = began[h] /\ reason'[h] = reason[h]
        /\ bal'[h] = bal[h] /\ down'[h] = down[h]
    BY <1>8, <2>1, ReadFrame
  <2>3. GateInv(h)'
    BY <1>1, <1>2, <1>4, <2>2, GateStays DEF IInv
  <2> QED
    BY <1>2, <2>2, <2>3 DEF Old
<1> QED
  BY <1>3, <1>6, <1>7, <1>8, <1>9

\* A step that hands the gate no cached balance and leaves the row alone.
LEMMA QuietRead ==
  ASSUME IInv, NEW g \in Gates, GateReads(g), row' = row,
         Old(g)' => Old(g) /\ bal'[g] = bal[g],
         pc'[g] \in {"reading", "probing"} =>
           \/ down'[g] \in {None, Unread, sentinel}
           \/ down'[g] = down[g] /\ pc[g] \in {"reading", "probing"},
         GateInv(g)'
  PROVE  IInv'
<1>1. TypeOK /\ OneOld /\ RaisedInv /\ RowInv /\ TypeOK' /\ Clock' /\ NoteInv' /\ TripInv' /\ ClearInv'
  BY ReadTypes, ReadOthers DEF IInv
<1>2. UNCHANGED <<now, trouble, funded, broke, sentinel, absent>>
  BY ReadFrame DEF world
<1>3. \A h \in Gates : GateInv(h)'
  BY ReadOthers
<1>4. RowInv'
  BY <1>1, <1>2 DEF RowInv, Witnessed
<1>5. \A h \in Gates : h \in Proc
  BY DEF Proc
<1>6. \A h \in Gates : Old(h)' => Old(h) /\ bal'[h] = bal[h]
  BY ReadOthers, ReadFrame
<1>7. \A h \in Gates : pc'[h] \in {"reading", "probing"} =>
        \/ down'[h] \in {None, Unread, sentinel}
        \/ down'[h] = down[h] /\ pc[h] \in {"reading", "probing"}
  BY <1>5, ReadFrame
<1>8. broke' >= broke
  BY <1>1, <1>2, ClockTypes
<1>9. OneOld' /\ RaisedInv'
  BY <1>1, <1>2, <1>6, <1>7, <1>8, Calm
<1> QED
  BY <1>1, <1>3, <1>4, <1>9 DEF IInv

LEMMA BeginKeeps ==
  ASSUME IInv, NEW g \in Gates, BeginGate(g) \/ ReadDown(g) \/ ProbeFails(g) PROVE IInv'
<1> USE DEF Goto, kv, locals
<1>1. TypeOK /\ GateInv(g) /\ GateReads(g) /\ g \in Proc /\ TypeOK'
  BY ReadTypes DEF IInv, GateReads, Proc
<1>2. UNCHANGED <<now, funded, broke, row>>
  BY DEF BeginGate, ReadDown, ProbeFails, world
<1>3. now \in Int /\ CreditsTtl \in Int
  BY <1>1, ClockTypes
<1>4. CASE BeginGate(g)
  <2>1. /\ pc[g] = "idle" /\ pc'[g] = "reading" /\ began'[g] = now
        /\ bal[g] = Unread /\ down[g] = Unread /\ bal' = bal /\ down' = down
    BY <1>1, <1>4 DEF BeginGate, TypeOK, gateVars, GateInv
  <2>2. GateInv(g)'
    BY <1>2, <1>3, <2>1 DEF GateInv, Known
  <2>3. ~ Old(g)'
    BY <2>1 DEF Old, Known
  <2> QED
    BY <1>1, <1>2, <2>1, <2>2, <2>3, QuietRead
<1>5. CASE ReadDown(g)
  <2>1. /\ pc[g] \in {"reading", "probing"} /\ pc' = pc /\ began' = began /\ reason' = reason
        /\ bal' = bal /\ down'[g] \in {sentinel, None}
    BY <1>1, <1>5 DEF ReadDown, TypeOK
  <2>2. GateInv(g)'
    BY <1>1, <1>2, <2>1 DEF GateInv, Known, Witnessed
  <2>3. Old(g)' => Old(g)
    BY <1>2, <2>1 DEF Old
  <2> QED
    BY <1>1, <1>2, <2>1, <2>2, <2>3, QuietRead
<1>6. CASE ProbeFails(g)
  <2>1. /\ pc[g] = "probing" /\ pc'[g] = "reading" /\ began' = began
        /\ bal'[g] = Unknown /\ down' = down
    BY <1>1, <1>6 DEF ProbeFails, TypeOK
  <2>2. GateInv(g)'
    BY <1>1, <1>2, <2>1 DEF GateInv, Known
  <2>3. ~ Old(g)'
    BY <2>1 DEF Old, Known
  <2> QED
    BY <1>1, <1>2, <2>1, <2>2, <2>3, QuietRead
<1> QED
  BY <1>4, <1>5, <1>6

LEMMA AnsweredKeeps == ASSUME IInv, NEW g \in Gates, ProbeAnswered(g) PROVE IInv'
<1>1. TypeOK /\ Clock /\ GateInv(g) /\ GateReads(g) /\ g \in Proc
  BY DEF IInv, GateReads, Proc
<1>2. UNCHANGED <<now, trouble, funded, broke, row, pc, began, reason, down>>
  BY DEF ProbeAnswered, world, kv, locals
<1>3. now \in Int /\ funded \in Int /\ broke \in Int /\ began[g] \in Int /\ now \in Time
  BY <1>1, ClockTypes DEF TypeOK
<1>4. /\ pc[g] = "probing" /\ bal[g] = Unread
      /\ bal'[g] = [out |-> "credits" \in trouble, at |-> now]
  BY <1>1 DEF ProbeAnswered, TypeOK
<1>5. bal'[g].at = now /\ bal'[g].out = ("credits" \in trouble)
  BY <1>4
<1>6. Witnessed(bal[g].out, bal[g].at)'
  BY <1>1, <1>2, <1>3, <1>5 DEF Witnessed, Clock
<1>7. GateInv(g)'
  BY <1>1, <1>2, <1>3, <1>4, <1>5, <1>6 DEF GateInv, Known
<1>8. ~ Old(g)'
  BY <1>2, <1>4 DEF Old
<1> QED
  BY <1>1, <1>2, <1>4, <1>7, <1>8, QuietRead

\* The cached balance: the gates that already work over an old one have this one.
LEMMA BalanceKeeps == ASSUME IInv, NEW g \in Gates, ReadBalance(g) PROVE IInv'
<1> USE DEF Goto
<1>1. /\ TypeOK /\ Clock /\ RowInv /\ OneOld /\ RaisedInv /\ GateInv(g) /\ GateReads(g)
      /\ g \in Proc /\ TypeOK'
  BY ReadTypes DEF IInv, GateReads, Proc
<1>2. UNCHANGED <<now, trouble, funded, broke, sentinel, absent, row, began, reason, down>>
  BY DEF ReadBalance, world, kv, locals
<1>3. now \in Int /\ funded \in Int /\ broke \in Int /\ began[g] \in Int /\ CreditsTtl \in Int
  BY <1>1, ClockTypes
<1>4. pc[g] = "reading" /\ bal[g] = Unread
  BY DEF ReadBalance
<1>5. CASE Goto(g, "probing") /\ UNCHANGED bal
  <2>1. pc'[g] = "probing" /\ bal' = bal
    BY <1>1, <1>5 DEF TypeOK
  <2>2. GateInv(g)'
    BY <1>1, <1>2, <1>4, <2>1 DEF GateInv, Known
  <2>3. ~ Old(g)'
    BY <2>1 DEF Old
  <2> QED
    BY <1>1, <1>2, <1>4, <2>1, <2>2, <2>3, QuietRead
<1>6. CASE /\ row # None /\ UNCHANGED pc
           /\ bal' = [bal EXCEPT ![g] = [out |-> row.out, at |-> row.at]]
  <2>1. /\ pc' = pc /\ bal'[g] = [out |-> row.out, at |-> row.at]
        /\ \A h \in Gates : h # g => bal'[h] = bal[h]
    BY <1>1, <1>6 DEF TypeOK
  <2>2. bal'[g].out = row.out /\ bal'[g].at = row.at /\ row.at \in Time /\ row.at \in Int
    BY <1>1, <1>6, <2>1, TimeIsNat DEF TypeOK
  <2>3. row.at <= now /\ now < row.at + CreditsTtl /\ Witnessed(row.out, row.at - 1)
    BY <1>1, <1>6 DEF RowInv
  <2>4. GateInv(g)'
    <3>1. Witnessed(bal[g].out, bal[g].at - 1)'
      BY <1>2, <2>2, <2>3 DEF Witnessed
    <3>2. began[g] <= now /\ began[g] < row.at + CreditsTtl
      BY <1>1, <1>3, <2>2, <2>3 DEF GateInv
    <3> QED
      BY <1>2, <1>4, <2>1, <2>2, <2>3, <3>1, <3>2 DEF GateInv, Known
  <2>5. /\ Clock' /\ NoteInv' /\ TripInv' /\ ClearInv' /\ \A h \in Gates : GateInv(h)'
    BY <1>1, <2>4, ReadOthers
  <2>6. RowInv'
    BY <1>1, <1>2 DEF RowInv, Witnessed
  <2>7. \A h \in Gates : Old(h)' => \/ h # g /\ Old(h) /\ bal'[h] = bal[h]
                                    \/ h = g /\ row.at < now
    <3>1. Old(g)' => row.at < now
      BY <1>2, <2>2 DEF Old
    <3> QED
      BY <1>1, <2>1, <3>1, ReadOthers
  <2>8. OneOld'
    <3>1. \A h \in Gates : Old(h)' => \/ bal'[h].out = row.out
                                      \/ Old(h) /\ bal'[h] = bal[h] /\ ~ (row.at < now)
      BY <1>1, <1>6, <2>2, <2>7 DEF OneOld
    <3>2. \A h \in Gates : row.at < now /\ Old(h)' => bal'[h].out = row.out
      BY <3>1
    <3>3. ~ (row.at < now) => \A h \in Gates : Old(h)' => Old(h) /\ bal'[h] = bal[h]
      BY <2>7
    <3>4. \A h, k \in Gates : Old(h)' /\ Old(k)' => bal'[h].out = bal'[k].out
      <4>1. CASE row.at < now
        BY <3>2, <4>1
      <4>2. CASE ~ (row.at < now)
        BY <1>1, <3>3, <4>2 DEF OneOld
      <4> QED
        BY <4>1, <4>2
    <3> QED
      BY <1>2, <3>2, <3>4 DEF OneOld
  <2>9. ASSUME NEW s, Raised(s) PROVE Raised(s)'
    <3> SUFFICES ASSUME s \notin {None, Unread}, s.reason = "credits"
                 PROVE  /\ s.at <= now'
                        /\ \/ broke' >= s.at - 1
                           \/ /\ row' # None /\ row'.at < s.at => row'.out
                              /\ \A h \in Gates : Old(h)' /\ bal'[h].at < s.at => bal'[h].out
      BY DEF Raised
    <3>1. /\ s.at <= now
          /\ \/ broke >= s.at - 1
             \/ /\ row # None /\ row.at < s.at => row.out
                /\ \A h \in Gates : Old(h) /\ bal[h].at < s.at => bal[h].out
      BY <2>9 DEF Raised
    <3>2. CASE broke >= s.at - 1
      BY <1>2, <3>1, <3>2
    <3>3. CASE /\ row # None /\ row.at < s.at => row.out
               /\ \A h \in Gates : Old(h) /\ bal[h].at < s.at => bal[h].out
      <4>1. \A h \in Gates : Old(h)' /\ bal'[h].at < s.at => bal'[h].out
        BY <1>6, <2>2, <2>7, <3>3
      <4> QED
        BY <1>2, <3>1, <3>3, <4>1
    <3> QED
      BY <3>1, <3>2, <3>3
  <2>10. RaisedInv'
    BY <1>1, <1>2, <2>1, <2>9 DEF RaisedInv, Raised
  <2> QED
    BY <1>1, <2>5, <2>6, <2>8, <2>10 DEF IInv
<1> QED
  BY <1>5, <1>6 DEF ReadBalance

LEMMA LandsKeeps == ASSUME IInv, NEW g \in Gates, ProbeLands(g) PROVE IInv'
<1> USE DEF Goto
<1>1. /\ TypeOK /\ OneOld /\ RaisedInv /\ GateInv(g) /\ GateReads(g) /\ g \in Proc
      /\ TypeOK' /\ Clock' /\ NoteInv' /\ TripInv' /\ ClearInv'
  BY ReadTypes, ReadOthers DEF IInv, GateReads, Proc
<1>2. UNCHANGED <<now, funded, broke, sentinel, began, reason, down>>
  BY DEF ProbeLands, world, locals
<1>3. /\ now \in Int /\ funded \in Int /\ broke \in Int /\ CreditsTtl \in Int /\ CreditsTtl >= 1
      /\ now \in Time
  BY <1>1, ClockTypes DEF TypeOK
<1>4. /\ pc[g] = "probing" /\ pc'[g] = "reading" /\ bal[g] \in Reading
      /\ bal'[g] = [bal[g] EXCEPT !.at = now]
      /\ row' \in {row, [out |-> bal[g].out, at |-> now, until |-> now + CreditsTtl]}
  BY <1>1 DEF ProbeLands, TypeOK
<1>5. /\ bal'[g].at = now /\ bal'[g].out = bal[g].out
      /\ row' # row => row'.at = now /\ row'.until = now + CreditsTtl /\ row'.out = bal[g].out
  BY <1>4 DEF Reading
<1>6. /\ bal[g].at \in Int /\ now <= bal[g].at + 1 /\ began[g] <= bal[g].at /\ bal[g].at <= now
      /\ Witnessed(bal[g].out, bal[g].at) /\ began[g] \in Int
  BY <1>1, <1>4, TimeIsNat, ClockTypes DEF GateInv, ProbeLands
<1>7. Witnessed(bal[g].out, now - 1)
  BY <1>3, <1>6 DEF Witnessed
<1>8. RowInv'
  <2>1. RowInv
    BY DEF IInv
  <2>2. CASE row' = row
    BY <1>2, <2>1, <2>2 DEF RowInv, Witnessed
  <2>3. CASE row' # row
    BY <1>2, <1>3, <1>5, <1>7, <2>3 DEF RowInv, Witnessed
  <2> QED
    BY <2>2, <2>3
<1>9. Witnessed(bal[g].out, bal[g].at - 1)'
  BY <1>2, <1>5, <1>7 DEF Witnessed
<1>10. GateInv(g)'
  BY <1>1, <1>2, <1>3, <1>4, <1>5, <1>6, <1>9 DEF GateInv, Known
<1>11. ~ Old(g)'
  BY <1>2, <1>3, <1>5 DEF Old
<1>12. \A h \in Gates : Old(h)' => Old(h) /\ bal'[h] = bal[h]
  BY <1>1, <1>11, ReadOthers, ReadFrame
<1>13. \A h \in Gates : pc'[h] \in {"reading", "probing"} =>
         down'[h] = down[h] /\ pc[h] \in {"reading", "probing"}
  <2>1. \A h \in Gates : h \in Proc
    BY DEF Proc
  <2> QED
    BY <1>1, <1>2, <1>4, <2>1, ReadFrame
<1>14. row' = row \/ row' = None \/ row'.at >= now
  BY <1>3, <1>5
<1>15. OneOld' /\ RaisedInv'
  BY <1>1, <1>2, <1>3, <1>12, <1>13, <1>14, Calm
<1> QED
  BY <1>1, <1>8, <1>10, <1>15, ReadOthers DEF IInv

\* A sentinel for credits that a balance in hand does not outdate rose after it: not
\* over an older balance that said so, so without credit.
LEMMA ResolveKeeps == ASSUME IInv, NEW g \in Gates, Resolve(g) PROVE IInv'
<1> USE DEF Goto
<1>1. /\ TypeOK /\ RaisedInv /\ GateInv(g) /\ GateReads(g) /\ g \in Proc
  BY DEF IInv, GateReads, Proc
<1>2. UNCHANGED <<now, trouble, funded, broke, sentinel, row, began, down, bal>>
  BY DEF Resolve, world, kv, gateVars
<1>3. pc[g] = "reading" /\ down[g] \in Sentinel \cup {None} /\ down[g] # Unread /\ bal[g] \in Reading
  BY <1>1 DEF Resolve, TypeOK
<1>4. /\ pc'[g] = IF bal[g].out
                    THEN IF down[g] = None THEN "noteRead" ELSE "refused"
                    ELSE IF ClearsByBalance(down[g], bal[g]) THEN "clearRead"
                    ELSE IF down[g] = None THEN "open" ELSE "refused"
      /\ reason'[g] = IF bal[g].out /\ down[g] = None THEN "credits" ELSE reason[g]
  BY <1>1 DEF Resolve, TypeOK
<1>5. bal[g] # Unread
  BY DEF Resolve
<1>6. ASSUME bal[g] # Unknown, ~ bal[g].out, down[g] # None, down[g].reason = "credits",
             ~ ClearsByBalance(down[g], bal[g])
      PROVE  broke >= began[g] - CreditsTtl
  <2>1. bal[g].at # None
    BY <1>3, <1>6, Truth DEF Reading, Unknown
  <2>2. down[g].at > bal[g].at /\ bal[g].at \in Int /\ down[g].at \in Int
    BY <1>1, <1>3, <1>5, <1>6, <2>1, TimeIsNat DEF ClearsByBalance, GateInv, Known, Sentinel
  <2>3. began[g] < bal[g].at + CreditsTtl /\ Known(bal[g])
    BY <1>1, <1>3, <1>5, <1>6 DEF GateInv, Known
  <2>4. /\ down[g].at <= now
        /\ \/ broke >= down[g].at - 1
           \/ Old(g) /\ bal[g].at < down[g].at => bal[g].out
    BY <1>1, <1>3, <1>6 DEF RaisedInv, Raised
  <2>5. now \in Int /\ broke \in Int /\ began[g] \in Int /\ CreditsTtl \in Int
    BY <1>1, ClockTypes
  <2>6. Old(g)
    BY <1>3, <2>2, <2>3, <2>4, <2>5 DEF Old
  <2> QED
    BY <1>6, <2>2, <2>3, <2>4, <2>5, <2>6
<1>7. Known(bal[g]) =>
        /\ bal[g].at \in Time /\ bal[g].at <= now /\ began[g] < bal[g].at + CreditsTtl
        /\ Witnessed(bal[g].out, bal[g].at - 1)'
  BY <1>1, <1>2, <1>3 DEF GateInv, Witnessed
<1>8. began[g] <= now
  BY <1>1 DEF GateInv
<1>9. pc'[g] \in {"noteRead", "refused", "clearRead", "open"}
  BY <1>4
<1>10. /\ pc'[g] = "noteRead" => reason'[g] = "credits" /\ bal[g].out
       /\ pc'[g] \in {"clearRead", "open"} => ~ bal[g].out
       /\ pc'[g] = "refused" /\ ~ bal[g].out => ~ ClearsByBalance(down[g], bal[g])
  BY <1>4
<1>11. GateInv(g)'
  BY <1>2, <1>5, <1>6, <1>7, <1>8, <1>9, <1>10 DEF GateInv, Known
<1>12. Old(g)' => Old(g)
  BY <1>2, <1>3 DEF Old
<1> QED
  BY <1>1, <1>2, <1>9, <1>11, <1>12, QuietRead

LEMMA ReadKeeps == ASSUME IInv, NEW g \in Gates, GateReads(g) PROVE IInv'
BY BeginKeeps, AnsweredKeeps, BalanceKeeps, LandsKeeps, ResolveKeeps DEF GateReads

LEMMA StutterKeeps == ASSUME IInv, UNCHANGED vars PROVE IInv'
BY DEF vars, world, kv, locals, gateVars, IInv, TypeOK, Clock, RowInv, GateInv, OneOld, RaisedInv,
       NoteInv, TripInv, ClearInv, Witnessed, Known, Old, Raised, Recent, PutAllowed, DeleteAllowed

LEMMA StepKeeps == ASSUME IInv, [Next]_vars PROVE IInv'
<1>1. Jobs \subseteq Proc /\ Steps \subseteq Proc /\ Gates \subseteq Proc
  BY DEF Proc
<1>2. CASE Tick
  BY <1>2, TickKeeps
<1>3. CASE \E r \in Troubles : TroubleStarts(r) \/ TroubleEnds(r)
  BY <1>3, TroubleKeeps
<1>4. ASSUME NEW j \in Jobs, StartJob(j) \/ JobSteps(j) PROVE IInv'
  <2>1. CASE KvSteps(j)
    BY <1>1, <2>1, KvKeeps
  <2>2. CASE ~ KvSteps(j)
    BY <1>4, <2>2, ActorKeeps DEF JobSteps
  <2> QED
    BY <2>1, <2>2
<1>5. ASSUME NEW s \in Steps, StartStep(s) \/ StepSteps(s) PROVE IInv'
  <2>1. CASE KvSteps(s)
    BY <1>1, <2>1, KvKeeps
  <2>2. CASE ~ KvSteps(s)
    BY <1>5, <2>2, ActorKeeps DEF StepSteps
  <2> QED
    BY <2>1, <2>2
<1>6. ASSUME NEW g \in Gates, BeginGate(g) \/ GateSteps(g) PROVE IInv'
  <2>1. CASE KvSteps(g)
    BY <1>1, <2>1, KvKeeps
  <2>2. CASE GateReads(g)
    BY <2>2, ReadKeeps
  <2> QED
    BY <1>6, <2>1, <2>2 DEF GateSteps, GateReads
<1> QED
  BY <1>2, <1>3, <1>4, <1>5, <1>6, StutterKeeps DEF Next

(* The invariant of the breaker, of every job, step and gate, holds throughout. *)
THEOREM Inductive == Spec => []IInv
<1>1. Init => IInv
  BY InitHolds
<1>2. IInv /\ [Next]_vars => IInv'
  BY StepKeeps
<1> QED
  BY <1>1, <1>2, PTL DEF Spec

(* Every variable stays in its type; in particular a balance that clears has  *)
(* a time.                                                                    *)
THEOREM TypeCorrect == Spec => []TypeOK
<1>1. IInv => TypeOK
  BY DEF IInv
<1> QED
  BY <1>1, Inductive, PTL

(* A gate that knows the balance opens, or refuses for credits, at most one   *)
(* credits TTL after a moment that justified it (resolveAiDown).              *)
THEOREM KnowsBalance == Spec => []GateKnowsBalance
<1>1. ASSUME IInv PROVE GateKnowsBalance
  <2>1. TypeOK
    BY <1>1 DEF IInv
  <2>2. now \in Int /\ funded \in Int /\ broke \in Int /\ CreditsTtl \in Int
    BY <2>1, ClockTypes
  <2>3. AdmitsWithinTtl
    <3> SUFFICES ASSUME NEW g \in Gates, pc[g] = "open", bal[g] # Unknown
                 PROVE  funded >= began[g] - CreditsTtl
      BY DEF AdmitsWithinTtl
    <3>1. GateInv(g) /\ began[g] \in Int
      BY <1>1, <2>1, ClockTypes DEF IInv
    <3>2. /\ ~ bal[g].out /\ bal[g].at \in Int /\ began[g] < bal[g].at + CreditsTtl
          /\ Witnessed(bal[g].out, bal[g].at - 1)
      BY <3>1, TimeIsNat DEF GateInv, Known
    <3> QED
      BY <2>2, <3>1, <3>2 DEF Witnessed
  <2>4. RefusesWithinTtl
    <3> SUFFICES ASSUME NEW g \in Gates, pc[g] = "refused", bal[g] # Unknown,
                        bal[g].out \/ (down[g] # None /\ down[g].reason = "credits")
                 PROVE  broke >= began[g] - CreditsTtl
      BY DEF RefusesWithinTtl
    <3>1. GateInv(g) /\ began[g] \in Int
      BY <1>1, <2>1, ClockTypes DEF IInv
    <3>2. CASE bal[g].out
      <4>1. /\ bal[g].at \in Int /\ began[g] < bal[g].at + CreditsTtl
            /\ Witnessed(bal[g].out, bal[g].at - 1)
        BY <3>1, TimeIsNat DEF GateInv, Known
      <4> QED
        BY <2>2, <3>1, <3>2, <4>1 DEF Witnessed
    <3>3. CASE ~ bal[g].out
      BY <3>1, <3>3 DEF GateInv
    <3> QED
      BY <3>2, <3>3
  <2> QED
    BY <2>3, <2>4 DEF GateKnowsBalance
<1> QED
  BY <1>1, Inductive, PTL

(* A success or a balance lowers no sentinel that rose after what it proves,   *)
(* except one that rose in the very tick of the delete (clearAiDown).         *)
THEOREM SparesMidRun == Spec => ClearSparesMidRun
<1>1. ASSUME IInv, NEW p \in Proc, ClearDelete(p), sentinel # None
      PROVE  sentinel.at <= cutoff[p] \/ sentinel.at = now
  <2>1. DeleteAllowed(p)
    BY <1>1 DEF IInv, TripInv, ClearDelete
  <2> QED
    BY <1>1, <2>1 DEF DeleteAllowed, Recent, Disproven
<1>2. IInv => [\A p \in Proc : ClearDelete(p) /\ sentinel # None
                                => sentinel.at <= cutoff[p] \/ sentinel.at = now]_vars
  BY <1>1
<1> QED
  BY <1>2, Inductive, PTL DEF ClearSparesMidRun

(* A standing sentinel gives way only to an upgrade, to a writer that read    *)
(* before it rose in this very tick, or to one whose read failed (noteAiDown). *)
THEOREM SentinelKept == Spec => StandingSentinelKept
<1>1. ASSUME IInv, NEW p \in Proc, NotePut(p), sentinel # None, sentinel.at < now
      PROVE  seen[p] = Unread \/ (reason[p] \in Hard /\ sentinel.reason \notin Hard)
  <2>1. PutAllowed(p)
    BY <1>1 DEF IInv, TripInv, NotePut
  <2>2. TypeOK
    BY <1>1 DEF IInv
  <2>3. sentinel.at # now
    BY <1>1, <2>2, ClockTypes
  <2> QED
    BY <1>1, <2>1, <2>3 DEF PutAllowed, Recent, Upgrades
<1>2. IInv => [\A p \in Proc : NotePut(p) /\ sentinel # None /\ sentinel.at < now
                                => \/ seen[p] = Unread
                                   \/ reason[p] \in Hard /\ sentinel.reason \notin Hard]_vars
  BY <1>1
<1> QED
  BY <1>2, Inductive, PTL DEF StandingSentinelKept

(* Where every success of a job is an answer of OpenRouter itself, a success  *)
(* deletes only a sentinel whose cause was absent at some time since it rose, *)
(* or one that rose in this very tick.  (An answer of Workers AI, or one from *)
(* the gateway's cache, proves nothing of the account, and the code clears    *)
(* all the same: the comment it quotes is false without the hypothesis.)      *)
THEOREM DisprovedByProvider == ProviderAnswers => (Spec => ClearsOnlyDisproved)
<1> SUFFICES ASSUME ProviderAnswers PROVE Spec => ClearsOnlyDisproved
  OBVIOUS
<1>1. ASSUME IInv, NEW j \in Jobs, ClearDelete(j), sentinel # None, sentinel.reason \in Hard
      PROVE  sentinel.reason \in absent \/ sentinel.at = now
  <2>1. ClearInv /\ DeleteAllowed(j) /\ pc[j] = "clearDelete"
    BY <1>1 DEF IInv, Proc, TripInv, ClearDelete
  <2>2. CASE sentinel.at <= cutoff[j]
    BY <1>1, <2>1, <2>2 DEF ClearInv
  <2> QED
    BY <1>1, <2>1, <2>2 DEF DeleteAllowed, Recent, Disproven
<1>2. IInv => [\A p \in Jobs : ClearDelete(p) /\ sentinel # None /\ sentinel.reason \in Hard
                                => sentinel.reason \in absent \/ sentinel.at = now]_vars
  BY <1>1
<1> QED
  BY <1>2, Inductive, PTL DEF ClearsOnlyDisproved
=============================================================================
