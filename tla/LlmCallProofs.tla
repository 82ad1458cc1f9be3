---------------------------- MODULE LlmCallProofs ----------------------------
(***************************************************************************)
(* What holds of a model call for every chain and every number of attempts. *)
(* The inductive invariant has three parts: where runLLM stands in the      *)
(* chain (Walk), what a task's station says of what it has in hand          *)
(* (Station), and what it says of its rows (Books).  BooksAgree speaks of   *)
(* tasks that are over only; how the row of an attempt gets from open to    *)
(* finished through retry loop and handler is what Books adds.              *)
(***************************************************************************)
EXTENDS LlmCall, TLAPS

Attempts == 1 .. MaxAttempts

(* Nothing has happened ahead of cur; behind it lies only what failed or     *)
(* was abandoned; and how the call stands agrees with the task at cur.       *)
Walk ==
  /\ \A p \in Positions : p > cur => at[p] = "idle"
  /\ \A p \in Positions : p < cur => p \in expired \/ (at[p] = "over" /\ why[p] # "answer")
  /\ call = "gate" => cur = 1 /\ at[cur] = "idle"
  /\ call = "running" => at[cur] # "idle"
  /\ call = "answered" => at[cur] = "over" /\ why[cur] = "answer"
  /\ call = "failed" => cur \in expired \/ at[cur] = "idle" \/ (at[cur] = "over" /\ why[cur] # "answer")

Station(p) ==
  /\ at[p] = "idle" => tries[p] = 0 /\ why[p] = "none" /\ p \notin fired
  /\ at[p] # "idle" => tries[p] > 0
  /\ p \in fired => Gateway(p)
  /\ why[p] = "answer" => at[p] \in {"settling", "over"}
  /\ at[p] = "settling" => why[p] = "answer"
  /\ at[p] \in {"closing", "outer"} => why[p] \in Errors
  /\ at[p] = "over" => why[p] # "none"
  /\ at[p] = "backoff" => why[p] = "transient" /\ tries[p] < MaxAttempts

Books(p) ==
  \A k \in Attempts :
    /\ k > tries[p] => row[p][k] = "none"
    /\ k < tries[p] /\ <<p, k>> \notin missed => row[p][k] = "failed"
    /\ k = tries[p] =>
         /\ at[p] = "admitting" => row[p][k] = "none"
         /\ at[p] \in {"asking", "reading", "closing", "settling"} => row[p][k] = "open"
         /\ at[p] \in {"outer", "backoff"} => row[p][k] \in {"open", "failed"}
         /\ at[p] = "backoff" /\ <<p, k>> \notin missed => row[p][k] = "failed"
         /\ at[p] = "over" /\ <<p, k>> \notin missed =>
              /\ row[p][k] # "open"
              /\ row[p][k] = "succeeded" <=> why[p] = "answer"

IInv == TypeOK /\ Walk /\ \A p \in Positions : Station(p) /\ Books(p)

-----------------------------------------------------------------------------
LEMMA PositionsRange ==
  /\ Len(Chain) \in Nat \ {0}
  /\ Positions = 1 .. Len(Chain)
  /\ 1 \in Positions
BY ChainAssumption DEF Positions

(* What a step of p's task does to the rest: nothing. *)
OnlyTask(p) ==
  /\ UNCHANGED <<call, cur, expired, stream>>
  /\ \A q \in Positions \ {p} :
       /\ at'[q] = at[q] /\ why'[q] = why[q] /\ tries'[q] = tries[q] /\ row'[q] = row[q]
       /\ q \in fired' <=> q \in fired
       /\ \A k \in Attempts : <<q, k>> \in missed' <=> <<q, k>> \in missed

(* A step of one task keeps the invariant if it keeps that task's own part   *)
(* and a task once over stays over with what it has in hand.                 *)
LEMMA TaskFrame ==
  ASSUME IInv, NEW p \in Positions, OnlyTask(p), TypeOK',
         at[p] \notin {"idle", "over"}, at'[p] # "idle",
         Station(p)', Books(p)'
  PROVE  IInv'
<1>1. Walk'
  BY PositionsRange DEF IInv, Walk, OnlyTask, TypeOK
<1>2. ASSUME NEW q \in Positions PROVE Station(q)' /\ Books(q)'
  <2>1. CASE q = p
    BY <2>1
  <2>2. CASE q # p
    <3>1. Station(q) /\ Books(q)
      BY DEF IInv
    <3>. QED BY <2>2, <3>1 DEF OnlyTask, Station, Books
  <2>. QED BY <2>1, <2>2
<1>. QED BY <1>1, <1>2 DEF IInv

Written == {"open", "succeeded", "failed"}

LEMMA RowTyped ==
  ASSUME TypeOK, NEW p \in Positions, NEW k \in Attempts, NEW x \in Written,
         row' = [row EXCEPT ![p][k] = x]
  PROVE  row' \in [Positions -> [Attempts -> {"none", "open", "succeeded", "failed"}]]
BY DEF TypeOK, Attempts, Written

-----------------------------------------------------------------------------
THEOREM Initially == Init => IInv
<1>. SUFFICES ASSUME Init PROVE IInv
  OBVIOUS
<1>1. TypeOK
  BY PositionsRange, AttemptsAssumption DEF Init, TypeOK, Stations, Finishing, Errors
<1>2. Walk
  BY PositionsRange DEF Init, Walk
<1>3. ASSUME NEW p \in Positions PROVE Station(p) /\ Books(p)
  BY AttemptsAssumption DEF Init, Station, Books, Attempts
<1>. QED BY <1>1, <1>2, <1>3 DEF IInv

(* One lemma per step of a task: its types, that it leaves the other tasks   *)
(* alone, its station and its books.                                         *)
LEMMA AdmitKeeps == ASSUME IInv, NEW p \in Positions, Admit(p) PROVE IInv'
<1>. USE AttemptsAssumption, PositionsRange DEF Admit, Moves, walk
<1>1. TypeOK /\ Station(p) /\ Books(p)
  BY DEF IInv
<1>2. tries[p] \in Attempts /\ at[p] \notin {"idle", "over"} /\ <<p, tries[p]>> \in Positions \X Attempts
  BY <1>1 DEF TypeOK, Station, Attempts, Finishing
<1>7. at'[p] # "idle"
  BY <1>1 DEF TypeOK
<1>3. TypeOK'
  BY <1>1, <1>2 DEF TypeOK, Station, Stations, Finishing, Errors, Attempts
<1>4. OnlyTask(p)
  BY <1>1, <1>2 DEF TypeOK, OnlyTask
<1>5. Station(p)'
  BY <1>1, <1>2 DEF TypeOK, Station, Errors, Finishing
<1>6. Books(p)'
  BY <1>1, <1>2 DEF TypeOK, Station, Books, Attempts, Finishing, Errors
<1>. QED BY <1>1, <1>2, <1>3, <1>4, <1>5, <1>6, <1>7, TaskFrame

LEMMA RefuseKeeps == ASSUME IInv, NEW p \in Positions, Refuse(p) PROVE IInv'
<1>. USE AttemptsAssumption, PositionsRange DEF Refuse, Moves, walk, ledger
<1>1. TypeOK /\ Station(p) /\ Books(p)
  BY DEF IInv
<1>2. tries[p] \in Attempts /\ at[p] \notin {"idle", "over"} /\ <<p, tries[p]>> \in Positions \X Attempts
  BY <1>1 DEF TypeOK, Station, Attempts, Finishing
<1>7. at'[p] # "idle"
  BY <1>1 DEF TypeOK
<1>3. TypeOK'
  <2>0. row' = row \/ \E x \in Written : row' = [row EXCEPT ![p][tries[p]] = x]
    BY DEF Written
  <2>1. row' \in [Positions -> [Attempts -> {"none", "open", "succeeded", "failed"}]]
    BY <1>1, <1>2, <2>0, RowTyped DEF TypeOK, Attempts
  <2>2. missed' \subseteq Positions \X Attempts
    BY <1>1, <1>2 DEF TypeOK, Attempts
  <2>3. at'[p] \in Stations /\ why'[p] \in Errors \union {"answer"}
    BY <1>1, <1>2 DEF TypeOK, Station, Stations, Finishing, Errors
  <2>4. /\ at' \in [Positions -> Stations]
        /\ why' \in [Positions -> Errors \union {"none", "answer"}]
        /\ UNCHANGED <<call, cur, expired, stream, tries, fired>>
    BY <1>1, <2>3 DEF TypeOK
  <2>. QED BY <1>1, <2>1, <2>2, <2>4 DEF TypeOK, Attempts
<1>4. OnlyTask(p)
  BY <1>1, <1>2 DEF TypeOK, OnlyTask
<1>5. Station(p)'
  BY <1>1, <1>2 DEF TypeOK, Station, Errors, Finishing
<1>6. Books(p)'
  BY <1>1, <1>2 DEF TypeOK, Station, Books, Attempts, Finishing, Errors
<1>. QED BY <1>1, <1>2, <1>3, <1>4, <1>5, <1>6, <1>7, TaskFrame

LEMMA RespondKeeps == ASSUME IInv, NEW p \in Positions, Respond(p) PROVE IInv'
<1>. USE AttemptsAssumption, PositionsRange DEF Respond, Moves, walk, ledger
<1>1. TypeOK /\ Station(p) /\ Books(p)
  BY DEF IInv
<1>2. tries[p] \in Attempts /\ at[p] \notin {"idle", "over"} /\ <<p, tries[p]>> \in Positions \X Attempts
  BY <1>1 DEF TypeOK, Station, Attempts, Finishing
<1>7. at'[p] # "idle"
  BY <1>1 DEF TypeOK
<1>3. TypeOK'
  BY <1>1, <1>2 DEF TypeOK, Station, Stations, Finishing, Errors, Attempts
<1>4. OnlyTask(p)
  BY <1>1, <1>2 DEF TypeOK, OnlyTask
<1>5. Station(p)'
  BY <1>1, <1>2 DEF TypeOK, Station, Errors, Finishing
<1>6. Books(p)'
  BY <1>1, <1>2 DEF TypeOK, Station, Books, Attempts, Finishing, Errors
<1>. QED BY <1>1, <1>2, <1>3, <1>4, <1>5, <1>6, <1>7, TaskFrame

LEMMA AskFailsKeeps == ASSUME IInv, NEW p \in Positions, AskFails(p) PROVE IInv'
<1>. USE AttemptsAssumption, PositionsRange DEF AskFails, Moves, walk, ledger
<1>1. TypeOK /\ Station(p) /\ Books(p)
  BY DEF IInv
<1>2. tries[p] \in Attempts /\ at[p] \notin {"idle", "over"} /\ <<p, tries[p]>> \in Positions \X Attempts
  BY <1>1 DEF TypeOK, Station, Attempts, Finishing
<1>7. at'[p] # "idle"
  BY <1>1 DEF TypeOK
<1>3. TypeOK'
  BY <1>1, <1>2 DEF TypeOK, Station, Stations, Finishing, Errors, Attempts
<1>4. OnlyTask(p)
  BY <1>1, <1>2 DEF TypeOK, OnlyTask
<1>5. Station(p)'
  BY <1>1, <1>2 DEF TypeOK, Station, Errors, Finishing
<1>6. Books(p)'
  BY <1>1, <1>2 DEF TypeOK, Station, Books, Attempts, Finishing, Errors
<1>. QED BY <1>1, <1>2, <1>3, <1>4, <1>5, <1>6, <1>7, TaskFrame

LEMMA BodyReadKeeps == ASSUME IInv, NEW p \in Positions, BodyRead(p) PROVE IInv'
<1>. USE AttemptsAssumption, PositionsRange DEF BodyRead, Moves, walk, ledger
<1>1. TypeOK /\ Station(p) /\ Books(p)
  BY DEF IInv
<1>2. tries[p] \in Attempts /\ at[p] \notin {"idle", "over"} /\ <<p, tries[p]>> \in Positions \X Attempts
  BY <1>1 DEF TypeOK, Station, Attempts, Finishing
<1>7. at'[p] # "idle"
  BY <1>1 DEF TypeOK
<1>3. TypeOK'
  BY <1>1, <1>2 DEF TypeOK, Station, Stations, Finishing, Errors, Attempts
<1>4. OnlyTask(p)
  BY <1>1, <1>2 DEF TypeOK, OnlyTask
<1>5. Station(p)'
  BY <1>1, <1>2 DEF TypeOK, Station, Errors, Finishing
<1>6. Books(p)'
  BY <1>1, <1>2 DEF TypeOK, Station, Books, Attempts, Finishing, Errors
<1>. QED BY <1>1, <1>2, <1>3, <1>4, <1>5, <1>6, <1>7, TaskFrame

LEMMA BodyFailsKeeps == ASSUME IInv, NEW p \in Positions, BodyFails(p) PROVE IInv'
<1>. USE AttemptsAssumption, PositionsRange DEF BodyFails, Moves, walk, ledger
<1>1. TypeOK /\ Station(p) /\ Books(p)
  BY DEF IInv
<1>2. tries[p] \in Attempts /\ at[p] \notin {"idle", "over"} /\ <<p, tries[p]>> \in Positions \X Attempts
  BY <1>1 DEF TypeOK, Station, Attempts, Finishing
<1>7. at'[p] # "idle"
  BY <1>1 DEF TypeOK
<1>3. TypeOK'
  BY <1>1, <1>2 DEF TypeOK, Station, Stations, Finishing, Errors, Attempts
<1>4. OnlyTask(p)
  BY <1>1, <1>2 DEF TypeOK, OnlyTask
<1>5. Station(p)'
  BY <1>1, <1>2 DEF TypeOK, Station, Errors, Finishing
<1>6. Books(p)'
  BY <1>1, <1>2 DEF TypeOK, Station, Books, Attempts, Finishing, Errors
<1>. QED BY <1>1, <1>2, <1>3, <1>4, <1>5, <1>6, <1>7, TaskFrame

LEMMA FinishKeeps == ASSUME IInv, NEW p \in Positions, Finish(p) PROVE IInv'
<1>. USE AttemptsAssumption, PositionsRange DEF Finish, Moves, walk, Onward, Retries
<1>1. TypeOK /\ Station(p) /\ Books(p)
  BY DEF IInv
<1>2. tries[p] \in Attempts /\ at[p] \notin {"idle", "over"} /\ <<p, tries[p]>> \in Positions \X Attempts
  BY <1>1 DEF TypeOK, Station, Attempts, Finishing
<1>7. at'[p] # "idle"
  BY <1>1 DEF TypeOK
<1>3. TypeOK'
  <2>0. row' = row \/ \E x \in Written : row' = [row EXCEPT ![p][tries[p]] = x]
    BY DEF Written
  <2>1. row' \in [Positions -> [Attempts -> {"none", "open", "succeeded", "failed"}]]
    BY <1>1, <1>2, <2>0, RowTyped DEF TypeOK, Attempts
  <2>2. missed' \subseteq Positions \X Attempts
    BY <1>1, <1>2 DEF TypeOK, Attempts
  <2>3. at'[p] \in Stations /\ why'[p] \in Errors \union {"answer"}
    BY <1>1, <1>2 DEF TypeOK, Station, Stations, Finishing, Errors
  <2>4. /\ at' \in [Positions -> Stations]
        /\ why' \in [Positions -> Errors \union {"none", "answer"}]
        /\ UNCHANGED <<call, cur, expired, stream, tries, fired>>
    BY <1>1, <2>3 DEF TypeOK
  <2>. QED BY <1>1, <2>1, <2>2, <2>4 DEF TypeOK, Attempts
<1>4. OnlyTask(p)
  BY <1>1, <1>2 DEF TypeOK, OnlyTask
<1>5. Station(p)'
  BY <1>1, <1>2 DEF TypeOK, Station, Errors, Finishing
<1>6. Books(p)'
  BY <1>1, <1>2 DEF TypeOK, Station, Books, Attempts, Finishing, Errors
<1>. QED BY <1>1, <1>2, <1>3, <1>4, <1>5, <1>6, <1>7, TaskFrame

LEMMA RetryKeeps == ASSUME IInv, NEW p \in Positions, Retry(p) PROVE IInv'
<1>. USE AttemptsAssumption, PositionsRange DEF Retry, walk, ledger
<1>1. TypeOK /\ Station(p) /\ Books(p)
  BY DEF IInv
<1>2. tries[p] \in Attempts /\ at[p] \notin {"idle", "over"} /\ <<p, tries[p]>> \in Positions \X Attempts
  BY <1>1 DEF TypeOK, Station, Attempts, Finishing
<1>7. at'[p] # "idle"
  BY <1>1 DEF TypeOK
<1>3. TypeOK'
  BY <1>1, <1>2 DEF TypeOK, Station, Stations, Finishing, Errors, Attempts
<1>4. OnlyTask(p)
  BY <1>1, <1>2 DEF TypeOK, OnlyTask
<1>5. Station(p)'
  BY <1>1, <1>2 DEF TypeOK, Station, Errors, Finishing
<1>6. Books(p)'
  BY <1>1, <1>2 DEF TypeOK, Station, Books, Attempts, Finishing, Errors
<1>. QED BY <1>1, <1>2, <1>3, <1>4, <1>5, <1>6, <1>7, TaskFrame

LEMMA BackoffAbortedKeeps == ASSUME IInv, NEW p \in Positions, BackoffAborted(p) PROVE IInv'
<1>. USE AttemptsAssumption, PositionsRange DEF BackoffAborted, Moves, walk, ledger
<1>1. TypeOK /\ Station(p) /\ Books(p)
  BY DEF IInv
<1>2. tries[p] \in Attempts /\ at[p] \notin {"idle", "over"} /\ <<p, tries[p]>> \in Positions \X Attempts
  BY <1>1 DEF TypeOK, Station, Attempts, Finishing
<1>7. at'[p] # "idle"
  BY <1>1 DEF TypeOK
<1>3. TypeOK'
  BY <1>1, <1>2 DEF TypeOK, Station, Stations, Finishing, Errors, Attempts
<1>4. OnlyTask(p)
  BY <1>1, <1>2 DEF TypeOK, OnlyTask
<1>5. Station(p)'
  BY <1>1, <1>2 DEF TypeOK, Station, Errors, Finishing
<1>6. Books(p)'
  BY <1>1, <1>2 DEF TypeOK, Station, Books, Attempts, Finishing, Errors
<1>. QED BY <1>1, <1>2, <1>3, <1>4, <1>5, <1>6, <1>7, TaskFrame

LEMMA FireKeeps == ASSUME IInv, NEW p \in Positions, Fire(p) PROVE IInv'
<1>. USE AttemptsAssumption, PositionsRange DEF Fire, walk, ledger
<1>1. TypeOK /\ Station(p) /\ Books(p)
  BY DEF IInv
<1>2. tries[p] \in Attempts /\ at[p] \notin {"idle", "over"} /\ <<p, tries[p]>> \in Positions \X Attempts
  BY <1>1 DEF TypeOK, Station, Attempts, Finishing
<1>7. at'[p] # "idle"
  BY <1>1 DEF TypeOK
<1>3. TypeOK'
  BY <1>1, <1>2 DEF TypeOK, Station, Stations, Finishing, Errors, Attempts
<1>4. OnlyTask(p)
  BY <1>1, <1>2 DEF TypeOK, OnlyTask
<1>5. Station(p)'
  BY <1>1, <1>2 DEF TypeOK, Station, Errors, Finishing
<1>6. Books(p)'
  BY <1>1, <1>2 DEF TypeOK, Station, Books, Attempts, Finishing, Errors
<1>. QED BY <1>1, <1>2, <1>3, <1>4, <1>5, <1>6, <1>7, TaskFrame
LEMMA TaskKeeps == ASSUME IInv, NEW p \in Positions, Task(p) PROVE IInv'
BY AdmitKeeps, RefuseKeeps, RespondKeeps, AskFailsKeeps, BodyReadKeeps, BodyFailsKeeps,
   FinishKeeps, RetryKeeps, BackoffAbortedKeeps, FireKeeps DEF Task

-----------------------------------------------------------------------------
(* runLLM's own steps: at most one task begins, and it was idle. *)
Begins(p) ==
  /\ at[p] = "idle" /\ Begin(p)
  /\ UNCHANGED <<stream, why, row, missed, fired>>

LEMMA BeginKeeps ==
  ASSUME IInv, NEW p \in Positions, Begins(p),
         call' \in {"gate", "running", "answered", "failed"}, cur' \in Positions,
         expired' \subseteq Positions, Walk'
  PROVE  IInv'
<1>. USE AttemptsAssumption
<1>1. TypeOK /\ \A q \in Positions : Station(q) /\ Books(q)
  BY DEF IInv
<1>2. TypeOK'
  BY <1>1 DEF TypeOK, Begins, Begin, Stations
<1>3. ASSUME NEW q \in Positions PROVE Station(q)' /\ Books(q)'
  BY <1>1, <1>3 DEF TypeOK, Begins, Begin, Station, Books, Finishing, Attempts
<1>. QED BY <1>2, <1>3 DEF IInv

LEMMA IdleKeeps ==
  ASSUME IInv, UNCHANGED <<cur, stream, at, why, tries, row, missed, fired>>,
         call' \in {"gate", "running", "answered", "failed"},
         expired' \subseteq Positions, Walk'
  PROVE  IInv'
BY DEF IInv, TypeOK, Station, Books

LEMMA GateKeeps == ASSUME IInv, Gate PROVE IInv'
<1>. USE PositionsRange
<1>1. TypeOK /\ Walk /\ cur = 1 /\ at[1] = "idle" /\ cur' = cur /\ expired' = expired
  BY DEF IInv, Walk, Gate
<1>2. CASE call' = "running" /\ Begin(1)
  <2>1. Begins(1)
    BY <1>1, <1>2 DEF Gate, Begins, ledger
  <2>2. Walk'
    BY <1>1, <1>2 DEF Walk, Begin, TypeOK, Gate
  <2>. QED BY <1>1, <1>2, <2>1, <2>2, BeginKeeps DEF TypeOK
<1>3. CASE call' = "failed" /\ UNCHANGED <<at, tries>>
  <2>1. UNCHANGED <<cur, stream, at, why, tries, row, missed, fired>>
    BY <1>3 DEF Gate, ledger
  <2>2. Walk'
    BY <1>1, <1>3, <2>1 DEF Walk, TypeOK, Gate
  <2>. QED BY <1>1, <1>3, <2>1, <2>2, IdleKeeps DEF TypeOK
<1>. QED BY <1>2, <1>3 DEF Gate

LEMMA WalkOnKeeps ==
  ASSUME IInv, NEW e \in Errors, WalkOn(e), call = "running",
         expired \subseteq expired', expired' \subseteq Positions,
         cur \in expired' \/ (at[cur] = "over" /\ why[cur] # "answer")
  PROVE  IInv'
<1>. USE PositionsRange
<1>1. TypeOK /\ Walk
  BY DEF IInv
<1>2. CASE FallbackWorthy(e) /\ cur < Len(Chain)
  <2>1. cur + 1 \in Positions /\ cur' = cur + 1 /\ call' = "running"
    BY <1>1, <1>2 DEF WalkOn, TypeOK
  <2>2. Begins(cur + 1)
    BY <1>1, <1>2, <2>1 DEF WalkOn, Walk, Begins, ledger, TypeOK
  <2>3. Walk'
    BY <1>1, <2>1, <2>2 DEF Walk, TypeOK, Begins, Begin
  <2>. QED BY <2>1, <2>2, <2>3, BeginKeeps
<1>3. CASE ~(FallbackWorthy(e) /\ cur < Len(Chain))
  <2>1. call' = "failed" /\ UNCHANGED <<cur, stream, at, why, tries, row, missed, fired>>
    BY <1>3 DEF WalkOn, ledger
  <2>2. Walk'
    BY <1>1, <2>1 DEF Walk, TypeOK
  <2>. QED BY <2>1, <2>2, IdleKeeps
<1>. QED BY <1>2, <1>3

LEMMA ReturnedKeeps == ASSUME IInv, Returned PROVE IInv'
<1>1. TypeOK /\ Walk /\ Station(cur)
  BY DEF IInv, TypeOK
<1>2. CASE why[cur] = "answer"
  <2>1. call' = "answered" /\ UNCHANGED <<cur, stream, at, why, tries, row, missed, fired, expired>>
    BY <1>2 DEF Returned, ledger
  <2>2. Walk'
    BY <1>1, <1>2, <2>1 DEF Walk, TypeOK, Returned
  <2>. QED BY <1>1, <2>1, <2>2, IdleKeeps DEF TypeOK
<1>3. CASE why[cur] # "answer"
  <2>1. why[cur] \in Errors /\ WalkOn(why[cur]) /\ expired' = expired /\ call = "running" /\ at[cur] = "over"
    BY <1>1, <1>3 DEF Returned, TypeOK, Station
  <2>. QED BY <1>1, <1>3, <2>1, WalkOnKeeps DEF TypeOK
<1>. QED BY <1>2, <1>3

LEMMA HardTimeoutKeeps == ASSUME IInv, HardTimeout PROVE IInv'
<1>1. TypeOK
  BY DEF IInv
<1>2. expired' = expired \union {cur} /\ WalkOn("timeout") /\ call = "running"
  BY DEF HardTimeout
<1>. QED BY <1>1, <1>2, WalkOnKeeps DEF TypeOK, Errors

LEMMA StutterKeeps == ASSUME IInv, UNCHANGED vars PROVE IInv'
BY DEF IInv, vars, TypeOK, Walk, Station, Books

LEMMA NextKeeps == ASSUME IInv, [Next]_vars PROVE IInv'
BY TaskKeeps, GateKeeps, ReturnedKeeps, HardTimeoutKeeps, StutterKeeps DEF Next

-----------------------------------------------------------------------------
THEOREM Inductive == Spec => []IInv
BY Initially, NextKeeps, PTL DEF Spec

(* The types of every variable, for every chain: no walk leaves the chain,   *)
(* no retry goes beyond MaxAttempts.                                         *)
THEOREM CallTypeCorrect == Spec => []TypeOK
<1>1. IInv => TypeOK
  BY DEF IInv
<1>. QED BY Inductive, <1>1, PTL

(* Every task that is over leaves true books, in every interleaving of       *)
(* retries, timeouts, aborts and lost writes.                                *)
THEOREM BooksAlwaysAgree == Spec => []BooksAgree
<1>1. IInv => BooksAgree
  <2>. SUFFICES ASSUME IInv, NEW p \in Positions, at[p] = "over",
                       NEW k \in 1 .. tries[p], <<p, k>> \notin missed
                PROVE  row[p][k] # "open" /\ (row[p][k] = "succeeded" <=> k = tries[p] /\ why[p] = "answer")
    BY DEF BooksAgree
  <2>1. k \in Attempts /\ Books(p) /\ tries[p] \in Nat
    BY AttemptsAssumption DEF IInv, TypeOK, Attempts
  <2>2. CASE k = tries[p]
    BY <2>1, <2>2 DEF Books
  <2>3. CASE k < tries[p]
    BY <2>1, <2>3 DEF Books
  <2>. QED BY <2>1, <2>2, <2>3
<1>. QED BY Inductive, <1>1, PTL

(* What a task has in hand, once an answer, stays; expiry is for good. *)
LEMMA AnswerStays ==
  ASSUME IInv, Next, NEW p \in Positions, why[p] = "answer"
  PROVE  why'[p] = "answer" /\ (p \in expired => p \in expired')
<1>1. TypeOK /\ at[p] \in {"settling", "over"}
  BY DEF IInv, Station
<1>2. ASSUME NEW q \in Positions, Task(q)
      PROVE  why'[p] = "answer" /\ (p \in expired => p \in expired')
  BY <1>1, <1>2 DEF TypeOK, Task, Admit, Refuse, Respond, AskFails, BodyRead, BodyFails, Finish,
     Retry, BackoffAborted, Fire, Moves, walk, Finishing
<1>3. CASE Gate \/ Returned \/ HardTimeout
  BY <1>1, <1>3 DEF Gate, Returned, HardTimeout, WalkOn, Begin, TypeOK
<1>. QED BY <1>2, <1>3 DEF Next

(* No answer received in full is dropped but by the hard timer, however its  *)
(* settlement fares.                                                         *)
THEOREM PaidAnswersUsed == Spec => PaidAnswerUsed
<1>. DEFINE Kept == \A p \in Positions : why[p] = "answer" /\ p \notin expired' =>
                      why'[p] = "answer" /\ cur' = p /\ call' # "failed"
<1>1. ASSUME IInv, [Next]_vars PROVE [Kept]_vars
  <2>. SUFFICES ASSUME Next, NEW p \in Positions, why[p] = "answer", p \notin expired'
                PROVE  why'[p] = "answer" /\ cur' = p /\ call' # "failed"
    BY <1>1
  <2>1. /\ TypeOK /\ Walk /\ Station(p) /\ TypeOK' /\ Walk' /\ Station(p)'
        /\ at[p] \in {"settling", "over"}
    BY <1>1, NextKeeps DEF IInv, Station
  <2>2. p \notin expired /\ why'[p] = "answer"
    BY <1>1, <2>1, AnswerStays
  <2>. QED BY <2>1, <2>2, PositionsRange DEF Walk, TypeOK, Station
<1>. QED BY Inductive, <1>1, PTL DEF Spec, PaidAnswerUsed

(* After its abort a gateway task neither begins an attempt nor contacts a   *)
(* provider.                                                                 *)
THEOREM GivenUpStopsAlways == Spec => GivenUpStops
<1>. DEFINE Still == \A p \in fired : tries'[p] = tries[p] /\ (at'[p] = "asking" => at[p] = "asking")
<1>1. ASSUME IInv, [Next]_vars PROVE [Still]_vars
  <2>. SUFFICES ASSUME Next, NEW p \in fired
                PROVE  tries'[p] = tries[p] /\ (at'[p] = "asking" => at[p] = "asking")
    BY <1>1
  <2>1. TypeOK /\ Walk /\ p \in Positions /\ Station(p) /\ at[p] # "idle" /\ Gateway(p)
    BY <1>1 DEF IInv, TypeOK, Station
  <2>2. ASSUME NEW q \in Positions, Task(q)
        PROVE  tries'[p] = tries[p] /\ (at'[p] = "asking" => at[p] = "asking")
    BY <2>1, <2>2 DEF TypeOK, Task, Admit, Refuse, Respond, AskFails, BodyRead, BodyFails, Finish,
       Retry, BackoffAborted, Fire, Moves, Onward, walk, Finishing
  <2>3. CASE Gate \/ Returned \/ HardTimeout
    BY <2>1, <2>3, PositionsRange DEF Gate, Returned, HardTimeout, WalkOn, Begin, Walk, TypeOK
  <2>. QED BY <2>2, <2>3 DEF Next
<1>. QED BY Inductive, <1>1, PTL DEF Spec, GivenUpStops
=============================================================================
