---------------------------- MODULE DafOpenProofs ----------------------------
(***************************************************************************)
(* What the reader's side of a page promises, for any pages, any number of   *)
(* opens and any limits of the poll.  The inductive invariant adds to the    *)
(* driver of a view-driven page that a fetch that is served has an answer,   *)
(* and that a call about to poll has a poll left.                            *)
(* Then the worker's side of the request it makes, DafGenerate, for any      *)
(* number of pages and requests.  GInv says which requests can be            *)
(* between their read of the sentinel and their write of it: in a window     *)
(* nothing excuses, one at most (Window), and one that is about to write has *)
(* its Workflow counted (Backed).                                            *)
(***************************************************************************)
EXTENDS DafOpen, DafGenerate, TLAPS

LoadInv(d) == load[d].net = "served" => load[d].got \in Payload

OpenInv(o) ==
  /\ open[o].st # "unused" => open[o].key \in Dafs
  /\ open[o].st = "served" => open[o].got \in Payload
  /\ open[o].st \in {"unused", "loading", "posting", "sleeping"} => open[o].polls < PollCap

Shape == TypeOK /\ (\A d \in Dafs : LoadInv(d)) /\ (\A o \in Opens : OpenInv(o))

IInv == Shape /\ DriverAlive

USE BoundsAssumption

\* A call of openDafView that will still release the page.
Driving == {"posting", "sleeping", "polling", "served"}

LEMMA UnusedIsOpen == Unused \in Open
  BY DEF Unused, Open, Payload

LEMMA InitKeeps == Init => IInv
  BY UnusedIsOpen DEF Init, IInv, Shape, TypeOK, LoadInv, OpenInv, DriverAlive, NoLoad, Load, Unused

\* The shape of the state.

LEMMA OneLoad ==
  ASSUME Shape, NEW d \in Dafs, NEW l \in Load, l.net = "served" => l.got \in Payload,
         load' = [load EXCEPT ![d] = l]
  PROVE  load' \in [Dafs -> Load] /\ \A e \in Dafs : LoadInv(e)'
  BY DEF Shape, TypeOK, LoadInv

LEMMA OneOpen ==
  ASSUME Shape, NEW o \in Opens, NEW x \in Open, x.st # "unused" => x.key \in Dafs,
         x.st = "served" => x.got \in Payload,
         x.st \in {"unused", "loading", "posting", "sleeping"} => x.polls < PollCap,
         open' = [open EXCEPT ![o] = x]
  PROVE  open' \in [Opens -> Open] /\ \A p \in Opens : OpenInv(p)'
  BY DEF Shape, TypeOK, OpenInv

LEMMA SettleKeeps ==
  ASSUME Shape, NEW d \in Dafs, NEW n \in 0 .. Total, Settle(d, n)
  PROVE  view' \in [key : Dafs, pieces : 0 .. Total] \union {None}
  BY DEF Settle, Shape, TypeOK

LEMMA KeepKeeps ==
  ASSUME Shape, NEW d \in Dafs, NEW p, Keep(d, p) PROVE saved' \in [Dafs -> BOOLEAN]
<1>1. saved \in [Dafs -> BOOLEAN] /\ (saved[d] \/ p = Total) \in BOOLEAN
  BY DEF Shape, TypeOK
<1> QED
  BY <1>1 DEF Keep

LEMMA LoadDafViewKeeps ==
  ASSUME Shape, NEW d \in Dafs, LoadDafView(d)
  PROVE  /\ latestKey' \in Dafs \union {None} /\ load' \in [Dafs -> Load]
         /\ \A e \in Dafs : LoadInv(e)'
<1>1. CASE InFlight(d)
  BY <1>1 DEF LoadDafView, Shape, TypeOK, LoadInv
<1>2. CASE ~ InFlight(d)
  <2>1. Fetching \in Load /\ Fetching.net # "served"
    BY DEF Fetching, Load
  <2> QED
    BY <1>2, <2>1, OneLoad DEF LoadDafView
<1> QED
  BY <1>1, <1>2

LEMMA ResumeKeeps ==
  ASSUME Shape, NEW d \in Dafs, NEW p, Resume(d, p)
  PROVE  /\ open' \in [Opens -> Open] /\ \A o \in Opens : OpenInv(o)'
         /\ load' \in [Dafs -> Load] /\ \A e \in Dafs : LoadInv(e)'
         /\ genKey' \in Dafs \union {None} /\ cached' = cached
<1> DEFINE st == IF latestKey = d /\ p \notin {None, Total} THEN "posting" ELSE "done"
<1>1. /\ open' = [o \in Opens |-> IF o \in Waiting(d) THEN [open[o] EXCEPT !.st = st] ELSE open[o]]
      /\ load' = [load EXCEPT ![d] = NoLoad] /\ genKey' \in {d, genKey} /\ cached' = cached
      /\ st \in {"posting", "done"}
  BY DEF Resume
<1> HIDE DEF st
<1>2. ASSUME NEW o \in Opens PROVE open'[o] \in Open /\ OpenInv(o)'
  <2>1. open[o] \in Open /\ OpenInv(o)
    BY DEF Shape, TypeOK
  <2>2. CASE o \in Waiting(d)
    <3>1. open'[o] = [open[o] EXCEPT !.st = st] /\ open[o].st = "loading"
      BY <1>1, <2>2 DEF Waiting
    <3> QED
      BY <1>1, <2>1, <3>1 DEF Open, OpenInv
  <2>3. CASE o \notin Waiting(d)
    BY <1>1, <2>1, <2>3 DEF OpenInv
  <2> QED
    BY <2>2, <2>3
<1>3. NoLoad \in Load /\ NoLoad.net # "served"
  BY DEF NoLoad, Load
<1>4. load' \in [Dafs -> Load] /\ \A e \in Dafs : LoadInv(e)'
  BY <1>1, <1>3, OneLoad
<1>5. genKey' \in Dafs \union {None}
  BY <1>1 DEF Shape, TypeOK
<1> QED
  BY <1>1, <1>2, <1>4, <1>5

LEMMA FinishKeeps ==
  ASSUME Shape, NEW o \in Opens, open[o].st # "unused", Finish(o)
  PROVE  /\ open' \in [Opens -> Open] /\ \A p \in Opens : OpenInv(p)'
         /\ genKey' \in Dafs \union {None}
<1> DEFINE x == [Unused EXCEPT !.st = "done", !.key = open[o].key]
<1>1. x \in Open /\ x.st = "done" /\ x.key \in Dafs
  <2>1. open[o].key \in Dafs
    BY DEF Shape, OpenInv
  <2> QED
    BY <2>1, UnusedIsOpen DEF Open
<1>2. open' = [open EXCEPT ![o] = x] /\ genKey' \in {None, genKey}
  BY DEF Finish
<1> HIDE DEF x
<1> QED
  BY <1>1, <1>2, OneOpen DEF Shape, TypeOK

LEMMA AfterPollKeeps ==
  ASSUME Shape, NEW o \in Opens, open[o].st \in {"polling", "served"},
         NEW p \in Payload \union {None}, NEW down \in BOOLEAN, AfterPoll(o, p, down)
  PROVE  /\ open' \in [Opens -> Open] /\ \A q \in Opens : OpenInv(q)'
         /\ genKey' \in Dafs \union {None}
<1> DEFINE new    == IF p = None THEN open[o].last ELSE p
           stalls == IF new > open[o].last THEN 0 ELSE open[o].stalls + 1
           last   == IF new > open[o].last THEN new ELSE open[o].last
           x      == [open[o] EXCEPT !.st = "sleeping", !.got = None, !.stalls = stalls, !.last = last]
<1>1. open[o] \in Open /\ OpenInv(o) /\ open \in [Opens -> Open]
  BY DEF Shape, TypeOK
<1>2. CASE Finish(o)
  BY <1>2, FinishKeeps
<1>3. CASE /\ stalls < StallLimit /\ open[o].polls # PollCap
           /\ open' = [open EXCEPT ![o] = x] /\ genKey' = genKey
  <2>1. /\ open[o].last \in -1 .. Total /\ open[o].stalls \in 0 .. StallLimit
        /\ open[o].polls \in 0 .. PollCap
    BY <1>1 DEF Open
  <2>2. new \in -1 .. Total
    BY <2>1 DEF Payload
  <2>3. stalls \in 0 .. StallLimit /\ last \in -1 .. Total
    BY <1>3, <2>1, <2>2
  <2> HIDE DEF stalls, last
  <2>4. x \in Open /\ x.st = "sleeping" /\ x.key = open[o].key /\ x.polls = open[o].polls
    BY <1>1, <2>3 DEF Open
  <2>5. x.polls < PollCap /\ x.key \in Dafs
    BY <1>1, <1>3, <2>1, <2>4 DEF OpenInv
  <2> HIDE DEF x
  <2> QED
    BY <1>3, <2>4, <2>5, OneOpen DEF Shape, TypeOK
<1>4. \/ Finish(o)
      \/ /\ ~ (stalls >= StallLimit) /\ open[o].polls # PollCap
         /\ open' = [open EXCEPT ![o] = x] /\ genKey' = genKey
  BY <1>1 DEF AfterPoll
<1>5. stalls \in Int
  BY <1>1 DEF Open
<1> HIDE DEF stalls, x
<1> QED
  BY <1>2, <1>3, <1>4, <1>5

\* The driver of the view-driven page.

Drives(o, d) == open[o].key = d /\ open[o].st \in Driving

LEMMA DriverKept ==
  ASSUME DriverAlive, genKey' = genKey, \A o \in Opens : Drives(o, genKey) => Drives(o, genKey)'
  PROVE  DriverAlive'
BY DEF DriverAlive, Drives, Driving

LEMMA FinishKeepsDriver ==
  ASSUME IInv, NEW o \in Opens, Finish(o) PROVE DriverAlive'
<1>1. CASE genKey = open[o].key
  BY <1>1 DEF Finish, DriverAlive
<1>2. CASE genKey # open[o].key
  <2>1. genKey' = genKey
    BY <1>2 DEF Finish
  <2>2. ASSUME NEW q \in Opens, Drives(q, genKey) PROVE Drives(q, genKey)'
    <3>1. q # o
      BY <1>2, <2>2 DEF Drives
    <3> QED
      BY <2>1, <2>2, <3>1 DEF Drives, Finish, IInv, Shape, TypeOK
  <2> QED
    BY <2>1, <2>2, DriverKept DEF IInv
<1> QED
  BY <1>1, <1>2

\* A call that goes on polling, or is answered, drives the page as before.
LEMMA MovesOn ==
  ASSUME IInv, NEW o \in Opens, genKey' = genKey, NEW x \in Open,
         open' = [open EXCEPT ![o] = x], x.key = open[o].key,
         open[o].st \in Driving => x.st \in Driving
  PROVE  DriverAlive'
<1>1. ASSUME NEW q \in Opens, Drives(q, genKey) PROVE Drives(q, genKey)'
  BY <1>1 DEF Drives, IInv, Shape, TypeOK
<1> QED
  BY <1>1, DriverKept DEF IInv

LEMMA ResumeKeepsDriver ==
  ASSUME IInv, NEW d \in Dafs, NEW p, Resume(d, p) PROVE DriverAlive'
<1> DEFINE cold == latestKey = d /\ p \notin {None, Total}
<1>1. /\ open' = [o \in Opens |->
                    IF o \in Waiting(d)
                    THEN [open[o] EXCEPT !.st = IF cold THEN "posting" ELSE "done"] ELSE open[o]]
      /\ genKey' = IF cold /\ Waiting(d) # {} THEN d ELSE genKey
      /\ \A o \in Opens : open[o] \in Open
  BY DEF Resume, IInv, Shape, TypeOK
<1>2. CASE cold /\ Waiting(d) # {}
  <2>1. PICK o \in Opens : o \in Waiting(d)
    BY <1>2 DEF Waiting
  <2>2. open'[o].key = d /\ open'[o].st = "posting"
    BY <1>1, <1>2, <2>1 DEF Waiting, Open
  <2>3. genKey' = d
    BY <1>1, <1>2
  <2> QED
    BY <2>2, <2>3 DEF DriverAlive
<1>3. CASE ~ (cold /\ Waiting(d) # {})
  <2>1. genKey' = genKey
    BY <1>1, <1>3
  <2>2. ASSUME NEW q \in Opens, Drives(q, genKey) PROVE Drives(q, genKey)'
    <3>1. open'[q] = open[q]
      BY <1>1, <2>2 DEF Waiting, Drives, Driving
    <3> QED
      BY <2>1, <2>2, <3>1 DEF Drives
  <2> QED
    BY <2>1, <2>2, DriverKept DEF IInv
<1> QED
  BY <1>2, <1>3

-----------------------------------------------------------------------------
(* One lemma per action.                                                    *)

LEMMA NavigateKeeps ==
  ASSUME IInv, NEW d \in Dafs, NEW o \in Opens, Navigate(d, o) PROVE IInv'
<1> DEFINE x == [Unused EXCEPT !.st = "loading", !.key = d]
<1>1. x \in Open /\ x.st = "loading" /\ x.key = d /\ x.polls < PollCap
  <2>1. x \in Open /\ x.st = "loading" /\ x.key = d /\ x.polls = 0
    BY UnusedIsOpen DEF Open, Unused
  <2> QED
    BY <2>1
<1>2. open' = [open EXCEPT ![o] = x] /\ open \in [Opens -> Open]
  BY DEF Navigate, IInv, Shape, TypeOK
<1> HIDE DEF x
<1>3. open' \in [Opens -> Open] /\ \A p \in Opens : OpenInv(p)'
  BY <1>1, <1>2, OneOpen DEF IInv
<1>4. /\ latestKey' \in Dafs \union {None} /\ load' \in [Dafs -> Load]
      /\ \A e \in Dafs : LoadInv(e)'
  BY LoadDafViewKeeps DEF Navigate, IInv
<1>5. DriverAlive'
  <2>1. ASSUME NEW q \in Opens, Drives(q, genKey) PROVE Drives(q, genKey)'
    <3>1. q # o
      BY <2>1 DEF Navigate, Drives, Driving, Unused
    <3> QED
      BY <1>2, <2>1, <3>1 DEF Navigate, Drives
  <2> QED
    BY <2>1, DriverKept DEF Navigate, IInv
<1> QED
  BY <1>3, <1>4, <1>5 DEF Navigate, IInv, Shape, TypeOK

LEMMA EnsureKeeps ==
  ASSUME IInv, NEW d \in Dafs, EnsureDafView(d) PROVE IInv'
<1>1. /\ latestKey' \in Dafs \union {None} /\ load' \in [Dafs -> Load]
      /\ \A e \in Dafs : LoadInv(e)'
  BY LoadDafViewKeeps DEF EnsureDafView, IInv
<1> QED
  BY <1>1 DEF EnsureDafView, IInv, Shape, TypeOK, OpenInv, DriverAlive

\* The steps that only a load's entry and the signal see.
LEMMA LoadOnlyKeeps ==
  ASSUME IInv, NEW d \in Dafs, SavedRead(d) \/ ServeLoad(d) \/ LoadFails(d) \/ SavedReadLate(d)
  PROVE  IInv'
<1>1. PICK l \in Load : /\ load' = [load EXCEPT ![d] = l]
                        /\ l.net = "served" => l.got \in Payload
  <2>0. load[d] \in Load /\ LoadInv(d) /\ load \in [Dafs -> Load] /\ cached[d] \in 0 .. Total
    BY DEF IInv, Shape, TypeOK
  <2>1. ASSUME NEW b \in {"found", "missing"}
        PROVE  /\ [load[d] EXCEPT !.idb = b] \in Load
               /\ [load[d] EXCEPT !.idb = b].net = load[d].net
               /\ [load[d] EXCEPT !.idb = b].got = load[d].got
    BY <2>0 DEF Load
  <2>2. CASE SavedRead(d) \/ SavedReadLate(d)
    <3> DEFINE b == IF saved[d] THEN "found" ELSE "missing"
    <3>1. load' = [load EXCEPT ![d] = [load[d] EXCEPT !.idb = b]]
      BY <2>0, <2>2 DEF SavedRead, SavedReadLate
    <3>2. b \in {"found", "missing"}
      OBVIOUS
    <3> HIDE DEF b
    <3> QED
      BY <2>0, <2>1, <3>1, <3>2 DEF LoadInv
  <2>3. CASE ServeLoad(d)
    <3> DEFINE l == [load[d] EXCEPT !.net = "served", !.got = cached[d]]
    <3>1. load' = [load EXCEPT ![d] = l]
      BY <2>0, <2>3 DEF ServeLoad
    <3>2. l \in Load /\ l.got \in Payload
      BY <2>0 DEF Load, Payload
    <3> HIDE DEF l
    <3> QED
      BY <3>1, <3>2
  <2>4. CASE LoadFails(d)
    <3> DEFINE l == [load[d] EXCEPT !.net = "failed", !.got = None]
    <3>1. load' = [load EXCEPT ![d] = l]
      BY <2>0, <2>4 DEF LoadFails
    <3>2. l \in Load /\ l.net = "failed"
      BY <2>0 DEF Load
    <3> HIDE DEF l
    <3> QED
      BY <3>1, <3>2
  <2> QED
    BY <2>2, <2>3, <2>4
<1>2. load' \in [Dafs -> Load] /\ \A e \in Dafs : LoadInv(e)'
  BY <1>1, OneLoad DEF IInv
<1>3. /\ UNCHANGED <<cached, cur, latestKey, genKey, saved, open>>
      /\ view' = view \/ Settle(d, Total)
  BY DEF SavedRead, ServeLoad, LoadFails, SavedReadLate, screen
<1>4. view' \in [key : Dafs, pieces : 0 .. Total] \union {None}
  <2>1. Total \in 0 .. Total
    OBVIOUS
  <2> QED
    BY <1>3, <2>1, SettleKeeps DEF IInv, Shape, TypeOK
<1> QED
  BY <1>2, <1>3, <1>4 DEF IInv, Shape, TypeOK, OpenInv, DriverAlive

LEMMA LandsKeeps ==
  ASSUME IInv, NEW d \in Dafs, LoadLands(d) \/ SavedOrEmpty(d) PROVE IInv'
<1>1. PICK p : Resume(d, p)
  BY DEF LoadLands, SavedOrEmpty
<1>2. DriverAlive'
  BY <1>1, ResumeKeepsDriver
<1>3. /\ open' \in [Opens -> Open] /\ \A o \in Opens : OpenInv(o)'
      /\ load' \in [Dafs -> Load] /\ \A e \in Dafs : LoadInv(e)'
      /\ genKey' \in Dafs \union {None} /\ cached' = cached
  BY <1>1, ResumeKeeps DEF IInv
<1>4. PICK n \in 0 .. Total : Settle(d, n)
  <2>1. 0 \in 0 .. Total /\ Total \in 0 .. Total
    OBVIOUS
  <2>2. load[d].net = "served" => load[d].got \in 0 .. Total
    BY DEF IInv, Shape, LoadInv, Payload
  <2> QED
    BY <2>1, <2>2 DEF LoadLands, SavedOrEmpty
<1>5. view' \in [key : Dafs, pieces : 0 .. Total] \union {None}
  BY <1>4, SettleKeeps DEF IInv
<1>6. saved' \in [Dafs -> BOOLEAN]
  BY KeepKeeps DEF LoadLands, SavedOrEmpty, IInv, Shape, TypeOK
<1>7. UNCHANGED <<cur, latestKey>>
  BY DEF LoadLands, SavedOrEmpty
<1> QED
  BY <1>2, <1>3, <1>5, <1>6, <1>7 DEF IInv, Shape, TypeOK

LEMMA AcceptedKeeps ==
  ASSUME IInv, NEW o \in Opens, PostAccepted(o) PROVE IInv'
<1> DEFINE x == [open[o] EXCEPT !.st = "sleeping"]
<1>1. open[o] \in Open /\ OpenInv(o) /\ open[o].st = "posting"
  BY DEF PostAccepted, IInv, Shape, TypeOK
<1>2. /\ x \in Open /\ x.st = "sleeping" /\ x.key = open[o].key /\ x.key \in Dafs /\ x.polls < PollCap
  BY <1>1 DEF Open, OpenInv
<1>3. open' = [open EXCEPT ![o] = x] /\ genKey' = genKey
  BY DEF PostAccepted, screen, IInv, Shape, TypeOK
<1> HIDE DEF x
<1>4. open' \in [Opens -> Open] /\ \A p \in Opens : OpenInv(p)'
  BY <1>2, <1>3, OneOpen DEF IInv
<1>5. DriverAlive'
  BY <1>2, <1>3, MovesOn DEF Driving
<1> QED
  BY <1>4, <1>5 DEF PostAccepted, screen, IInv, Shape, TypeOK, LoadInv

LEMMA WakeKeeps ==
  ASSUME IInv, NEW o \in Opens, Wake(o) PROVE IInv'
<1>1. open[o] \in Open /\ OpenInv(o) /\ open[o].st = "sleeping" /\ open \in [Opens -> Open]
  BY DEF Wake, IInv, Shape, TypeOK
<1> DEFINE x == [open[o] EXCEPT !.st = "polling", !.polls = open[o].polls + 1]
<1>2. CASE Finish(o)
  <2>1. DriverAlive'
    BY <1>2, FinishKeepsDriver
  <2>2. /\ open' \in [Opens -> Open] /\ \A p \in Opens : OpenInv(p)'
        /\ genKey' \in Dafs \union {None}
    BY <1>1, <1>2, FinishKeeps DEF IInv
  <2> QED
    BY <2>1, <2>2 DEF Wake, IInv, Shape, TypeOK, LoadInv
<1>3. CASE open' = [open EXCEPT ![o] = x] /\ genKey' = genKey
  <2>1. open[o].polls \in 0 .. PollCap /\ open[o].polls < PollCap
    BY <1>1 DEF Open, OpenInv
  <2>2. open[o].polls + 1 \in 0 .. PollCap
    BY <2>1
  <2>3. x \in Open /\ x.st = "polling" /\ x.key = open[o].key /\ x.key \in Dafs
    BY <1>1, <2>2 DEF Open, OpenInv
  <2> HIDE DEF x
  <2>4. open' \in [Opens -> Open] /\ \A p \in Opens : OpenInv(p)'
    BY <1>3, <2>3, OneOpen DEF IInv
  <2>5. DriverAlive'
    BY <1>3, <2>3, MovesOn DEF Driving
  <2> QED
    BY <1>3, <2>4, <2>5 DEF Wake, IInv, Shape, TypeOK, LoadInv
<1> QED
  BY <1>1, <1>2, <1>3 DEF Wake

LEMMA RefusedKeeps ==
  ASSUME IInv, NEW o \in Opens, PostRefused(o) PROVE IInv'
<1>1. Finish(o) /\ open[o].st # "unused"
  BY DEF PostRefused
<1>2. /\ DriverAlive'
      /\ open' \in [Opens -> Open] /\ \A p \in Opens : OpenInv(p)'
      /\ genKey' \in Dafs \union {None}
  BY <1>1, FinishKeepsDriver, FinishKeeps DEF IInv
<1> QED
  BY <1>2 DEF PostRefused, IInv, Shape, TypeOK, LoadInv

LEMMA ServePollKeeps ==
  ASSUME IInv, NEW o \in Opens, ServePoll(o) PROVE IInv'
<1> DEFINE x == [open[o] EXCEPT !.st = "served", !.got = cached[open[o].key]]
<1>1. open[o] \in Open /\ OpenInv(o) /\ open[o].st = "polling" /\ open \in [Opens -> Open]
  BY DEF ServePoll, IInv, Shape, TypeOK
<1>2. open[o].key \in Dafs /\ cached[open[o].key] \in Payload
  BY <1>1 DEF OpenInv, IInv, Shape, TypeOK, Payload
<1>3. x \in Open /\ x.st = "served" /\ x.key = open[o].key /\ x.got \in Payload
  BY <1>1, <1>2 DEF Open
<1>4. open' = [open EXCEPT ![o] = x] /\ genKey' = genKey
  BY <1>1 DEF ServePoll, screen
<1> HIDE DEF x
<1>5. open' \in [Opens -> Open] /\ \A p \in Opens : OpenInv(p)'
  BY <1>2, <1>3, <1>4, OneOpen DEF IInv
<1>6. DriverAlive'
  BY <1>3, <1>4, MovesOn DEF Driving
<1> QED
  BY <1>5, <1>6 DEF ServePoll, screen, IInv, Shape, TypeOK, LoadInv

\* A poll that goes on keeps its page, and keeps driving it.
LEMMA AfterPollKeepsDriver ==
  ASSUME IInv, NEW o \in Opens, open[o].st \in {"polling", "served"},
         NEW p \in Payload \union {None}, NEW down \in BOOLEAN, AfterPoll(o, p, down)
  PROVE  DriverAlive'
<1>1. CASE Finish(o)
  BY <1>1, FinishKeepsDriver
<1>2. CASE ~ Finish(o)
  <2>1. open' \in [Opens -> Open] /\ open \in [Opens -> Open]
    BY AfterPollKeeps DEF IInv, Shape, TypeOK
  <2>2. /\ genKey' = genKey /\ open'[o].key = open[o].key /\ open'[o].st = "sleeping"
        /\ \A q \in Opens \ {o} : open'[q] = open[q]
    BY <1>2, <2>1 DEF AfterPoll, Open
  <2>3. ASSUME NEW q \in Opens, Drives(q, genKey) PROVE Drives(q, genKey)'
    BY <2>2, <2>3 DEF Drives, Driving
  <2> QED
    BY <2>2, <2>3, DriverKept DEF IInv
<1> QED
  BY <1>1, <1>2

LEMMA PollKeeps ==
  ASSUME IInv, NEW o \in Opens, PollLands(o) \/ PollFails(o) PROVE IInv'
<1>1. open[o] \in Open /\ OpenInv(o) /\ open[o].st \in {"polling", "served"} /\ open[o].key \in Dafs
  BY DEF PollLands, PollFails, IInv, Shape, TypeOK, OpenInv
<1>2. PICK p \in Payload \union {None}, down \in BOOLEAN : AfterPoll(o, p, down)
  BY <1>1 DEF PollLands, PollFails, OpenInv
<1>3. /\ DriverAlive'
      /\ open' \in [Opens -> Open] /\ \A q \in Opens : OpenInv(q)'
      /\ genKey' \in Dafs \union {None}
  BY <1>1, <1>2, AfterPollKeeps, AfterPollKeepsDriver DEF IInv
<1>4. PICK n \in 0 .. Total : Settle(open[o].key, n)
  <2>1. 0 \in 0 .. Total
    OBVIOUS
  <2> QED
    BY <1>1, <2>1 DEF PollLands, PollFails, OpenInv, Payload
<1>5. view' \in [key : Dafs, pieces : 0 .. Total] \union {None}
  BY <1>1, <1>4, SettleKeeps DEF IInv
<1>6. saved' \in [Dafs -> BOOLEAN]
  BY <1>1, KeepKeeps DEF PollLands, PollFails, IInv, Shape, TypeOK
<1> QED
  BY <1>3, <1>5, <1>6 DEF PollLands, PollFails, IInv, Shape, TypeOK, LoadInv

LEMMA RestKeeps ==
  ASSUME IInv, NEW d \in Dafs, Forget(d) \/ PieceCached(d) \/ Invalidate(d) PROVE IInv'
<1>1. cached' \in [Dafs -> 0 .. Total] /\ saved' \in [Dafs -> BOOLEAN]
  <2>1. cached \in [Dafs -> 0 .. Total] /\ saved \in [Dafs -> BOOLEAN]
    BY DEF IInv, Shape, TypeOK
  <2>2. CASE Forget(d)
    BY <2>1, <2>2 DEF Forget
  <2>3. CASE PieceCached(d)
    BY <2>1, <2>3 DEF PieceCached
  <2>4. CASE Invalidate(d)
    BY <2>1, <2>4 DEF Invalidate
  <2> QED
    BY <2>2, <2>3, <2>4
<1>2. UNCHANGED <<screen, load, open>>
  BY DEF Forget, PieceCached, Invalidate
<1> QED
  BY <1>1, <1>2 DEF screen, IInv, Shape, TypeOK, LoadInv, OpenInv, DriverAlive

LEMMA StepKeeps == IInv /\ [Next]_vars => IInv'
<1> SUFFICES ASSUME IInv, [Next]_vars PROVE IInv'
  OBVIOUS
<1>1. ASSUME NEW d \in Dafs, NEW o \in Opens, Navigate(d, o) PROVE IInv'
  BY <1>1, NavigateKeeps
<1>2. ASSUME NEW d \in Dafs,
             EnsureDafView(d) \/ ServeLoad(d) \/ LoadFails(d) \/ LoadStep(d)
             \/ Forget(d) \/ PieceCached(d) \/ Invalidate(d)
      PROVE  IInv'
  BY <1>2, EnsureKeeps, LoadOnlyKeeps, LandsKeeps, RestKeeps DEF LoadStep
<1>3. ASSUME NEW o \in Opens, ServePoll(o) \/ OpenStep(o) PROVE IInv'
  BY <1>3, AcceptedKeeps, RefusedKeeps, WakeKeeps, ServePollKeeps, PollKeeps DEF OpenStep
<1>4. CASE UNCHANGED vars
  BY <1>4 DEF vars, screen, IInv, Shape, TypeOK, LoadInv, OpenInv, DriverAlive
<1> QED
  BY <1>1, <1>2, <1>3, <1>4 DEF Next

-----------------------------------------------------------------------------
(* The theorems.                                                            *)

\* The state keeps its shape, a served fetch has an answer, and every
\* view-driven page has its driver.
THEOREM Inductive == Spec => []IInv
  BY InitKeeps, StepKeeps, PTL DEF Spec

\* Every variable stays in its type: the poll's counters within their limits.
THEOREM TypeCorrect == Spec => []TypeOK
<1>1. IInv => TypeOK
  BY DEF IInv, Shape
<1> QED
  BY <1>1, Inductive, PTL

\* The cards of a page are silenced only while a call that will give them
\* their requests back is posting or polling for it, wherever the reader goes.
THEOREM ViewDrivenHasDriver == Spec => []DriverAlive
<1>1. IInv => DriverAlive
  BY DEF IInv
<1> QED
  BY <1>1, Inductive, PTL

\* A cold page is posted for only over the server's answer that it is cold,
\* while it is the page last asked for; never over a failed fetch.
THEOREM PostsOnlyOverCold == Spec => PostsOverColdAnswer
<1> DEFINE Cold(o) == LET l == load[open[o].key]
                      IN  latestKey = open[o].key /\ l.net = "served" /\ l.got # Total
<1>1. ASSUME IInv, [Next]_vars, NEW o \in Opens, open[o].st # "posting", open'[o].st = "posting"
      PROVE  Cold(o)
  <2>0. open \in [Opens -> Open] /\ \A q \in Opens : open[q] \in Open
    BY <1>1 DEF IInv, Shape, TypeOK
  <2>1. ASSUME NEW d \in Dafs, NEW p, Resume(d, p)
        PROVE  latestKey = d /\ p \notin {None, Total} /\ open[o].key = d
    <3>1. o \in Waiting(d)
      BY <1>1, <2>0, <2>1 DEF Resume
    <3>2. open'[o] = [open[o] EXCEPT !.st = IF latestKey = d /\ p \notin {None, Total}
                                           THEN "posting" ELSE "done"]
      BY <2>1, <3>1 DEF Resume
    <3> QED
      BY <1>1, <2>0, <3>1, <3>2 DEF Waiting, Open
  <2>2. ASSUME NEW d \in Dafs, LoadLands(d) PROVE Cold(o)
    BY <2>1, <2>2 DEF LoadLands
  <2>3. ASSUME NEW d \in Dafs, SavedOrEmpty(d) PROVE Cold(o)
    BY <2>1, <2>3 DEF SavedOrEmpty
  <2>4. ASSUME NEW q \in Opens, Finish(q) PROVE FALSE
    BY <1>1, <2>0, <2>4 DEF Finish, Unused, Open
  <2>5. ASSUME NEW q \in Opens, NEW p, NEW down, AfterPoll(q, p, down) PROVE FALSE
    <3>1. CASE Finish(q)
      BY <2>4, <3>1
    <3>2. CASE ~ Finish(q)
      BY <1>1, <2>0, <2>5, <3>2 DEF AfterPoll, Open
    <3> QED
      BY <3>1, <3>2
  <2>6. ASSUME NEW q \in Opens, ServePoll(q) \/ OpenStep(q) PROVE FALSE
    <3>1. CASE ServePoll(q)
      BY <1>1, <2>0, <3>1 DEF ServePoll, Open
    <3>2. CASE PostAccepted(q)
      BY <1>1, <2>0, <3>2 DEF PostAccepted, Open
    <3>3. CASE PostRefused(q)
      BY <2>4, <3>3 DEF PostRefused
    <3>4. CASE Wake(q)
      BY <1>1, <2>0, <2>4, <3>4 DEF Wake, Open
    <3>5. CASE PollLands(q) \/ PollFails(q)
      BY <2>5, <3>5 DEF PollLands, PollFails
    <3> QED
      BY <2>6, <3>1, <3>2, <3>3, <3>4, <3>5 DEF OpenStep
  <2>7. ASSUME NEW d \in Dafs, NEW q \in Opens, Navigate(d, q) PROVE FALSE
    BY <1>1, <2>0, <2>7 DEF Navigate, Open
  <2>8. CASE UNCHANGED open
    BY <1>1, <2>8
  <2>9. CASE Next
    BY <2>2, <2>3, <2>6, <2>7, <2>8, <2>9
       DEF Next, LoadStep, EnsureDafView, SavedRead, ServeLoad, LoadFails, SavedReadLate,
           Forget, PieceCached, Invalidate
  <2> QED
    BY <1>1, <2>8, <2>9 DEF vars
<1>2. IInv /\ [Next]_vars => [\A o \in Opens :
        open[o].st # "posting" /\ open'[o].st = "posting" => Cold(o)]_vars
  BY <1>1
<1> QED
  BY <1>2, Inductive, PTL DEF Spec, PostsOverColdAnswer

-----------------------------------------------------------------------------
(* The single flight of the worker.                                          *)
LEMMA FlightInit == GInit => GInv
  BY DEF GInit, GInv, GTypeOK, Request, SentinelBacked, Backed, Named, Window, UnderWay

-----------------------------------------------------------------------------
(* What a step does to the requests: r goes to st, for the page e. *)
Goes(r, st, e) ==
  /\ req' \in [Requests -> Request]
  /\ \A q \in Requests \ {r} : req'[q] = req[q]
  /\ req'[r].st = st /\ req'[r].daf = e

LEMMA AskGoes ==
  ASSUME GTypeOK, NEW r \in Requests, NEW d \in Pages, Ask(r, d)
  PROVE  Goes(r, "gate", d)
  BY DEF GTypeOK, Request, Ask, Goes

LEMMA MoveGoes ==
  ASSUME GTypeOK, NEW r \in Requests,
         NEW st \in {"idle", "gate", "get", "create", "put", "yes", "no"}, MoveTo(r, st)
  PROVE  Goes(r, st, req[r].daf)
  <1>1. req[r] \in Request /\ req'[r] = [req[r] EXCEPT !.st = st]
    BY DEF GTypeOK, MoveTo
  <1>2. req'[r].st = st /\ req'[r].daf = req[r].daf /\ req'[r] \in Request
    BY <1>1 DEF Request
  <1> QED
    BY <1>2 DEF GTypeOK, MoveTo, Goes

(* A step that leaves the sentinels and the counts alone, and moves a request *)
(* that is out of the flight to a place out of the flight. *)
LEMMA OutsideKeeps ==
  ASSUME GInv, NEW r \in Requests, NEW st \in {"gate", "get", "yes", "no"}, NEW d \in Pages,
         req[r].st \notin {"create", "put"}, Goes(r, st, d), UNCHANGED flight
  PROVE  GInv'
  <1>1. GTypeOK'
    BY DEF GInv, GTypeOK, Goes, flight
  <1>2. \A e \in Pages : UnderWay(e)' = UnderWay(e)
    BY DEF Goes, UnderWay
  <1>3. \A e \in Pages : \A q \in UnderWay(e) : req'[q].st = req[q].st
    BY DEF Goes, UnderWay
  <1>4. \A e \in Pages : Window(e) => Window(e)'
    BY <1>2, <1>3 DEF Window, flight, UnderWay
  <1>5. \A q \in Requests : Backed(q)' /\ Named(q)'
    BY DEF GInv, Backed, Named, flight, Goes
  <1> QED
    BY <1>1, <1>4, <1>5 DEF GInv, SentinelBacked, flight

LEMMA AskPostKeeps == ASSUME GInv, NEW r \in Requests, NEW d \in Pages, Ask(r, d) PROVE GInv'
  BY OutsideKeeps, AskGoes DEF GInv, Ask

LEMMA GateAnswerKeeps == ASSUME GInv, NEW r \in Requests, Gate(r) PROVE GInv'
  <1>1. PICK st \in {"no", "get"} : MoveTo(r, st)
    BY DEF Gate
  <1> QED
    BY <1>1, OutsideKeeps, MoveGoes DEF GInv, Gate, Named

LEMMA ReadSentinelKeeps == ASSUME GInv, NEW r \in Requests, ReadSentinel(r) PROVE GInv'
  <1>0. PICK d \in Pages : d = req[r].daf /\ req[r].st = "get"
    BY DEF GInv, Named, ReadSentinel
  <1>1. CASE sentinel[d]
    <2>1. excused' = excused
      BY <1>0, <1>1 DEF ReadSentinel, GInv, GTypeOK
    <2> QED
      BY <1>0, <1>1, <2>1, OutsideKeeps, MoveGoes DEF GInv, ReadSentinel, flight
  <1>2. CASE ~sentinel[d]
    <2>1. Goes(r, "create", d)
      BY <1>0, <1>2, MoveGoes DEF GInv, ReadSentinel
    <2>2. GTypeOK'
      BY <2>1 DEF GInv, GTypeOK, Goes, ReadSentinel, Overlapping
    <2>3. \A q \in Requests : Backed(q)' /\ Named(q)'
      BY <1>0, <2>1 DEF GInv, Backed, Named, ReadSentinel, Goes
    <2>4. \A e \in Pages \ {d} : UnderWay(e)' = UnderWay(e) /\ (Window(e) => Window(e)')
      BY <1>0, <2>1 DEF Goes, UnderWay, Window, ReadSentinel
    <2>5. excused[d] \/ Overlapping(r) => excused'[d]
      BY <1>0, <1>2 DEF ReadSentinel, GInv, GTypeOK
    <2>6. Window(d) /\ ~Overlapping(r) => Window(d)'
      BY <1>0, <1>2, <2>1 DEF Window, UnderWay, Overlapping, Goes, ReadSentinel
    <2>7. \A e \in Pages \ {d} : excused'[e] = excused[e]
      BY <1>0 DEF ReadSentinel, GInv, GTypeOK
    <2> QED
      BY <1>0, <2>2, <2>3, <2>4, <2>5, <2>6, <2>7 DEF GInv, SentinelBacked, ReadSentinel
  <1> QED
    BY <1>1, <1>2

LEMMA CreateKeeps == ASSUME GInv, NEW r \in Requests, CreateWorkflow(r) PROVE GInv'
  <1>0. PICK d \in Pages : d = req[r].daf /\ req[r].st = "create"
    BY DEF GInv, Named, CreateWorkflow
  <1>1. Goes(r, "put", d)
    BY <1>0, MoveGoes DEF GInv, CreateWorkflow
  <1>2. /\ started' \in [Pages -> 0 .. 2]
        /\ started'[d] = IF started[d] = 0 THEN 1 ELSE 2
        /\ \A e \in Pages \ {d} : started'[e] = started[e]
    BY <1>0 DEF GInv, GTypeOK, CreateWorkflow, Starts
  <1>3. GTypeOK'
    BY <1>1, <1>2 DEF GInv, GTypeOK, Goes, CreateWorkflow
  <1>4. \A q \in Requests : Backed(q)' /\ Named(q)'
    BY <1>0, <1>1, <1>2 DEF GInv, GTypeOK, Request, Backed, Named, Goes
  <1>5. \A e \in Pages \ {d} : UnderWay(e)' = UnderWay(e) /\ (Window(e) => Window(e)')
    BY <1>0, <1>1, <1>2 DEF Goes, UnderWay, Window, CreateWorkflow
  <1>6. Window(d) => UnderWay(d) = {r} /\ started[d] = 0 /\ ~sentinel[d]
    BY <1>0 DEF Window, UnderWay
  <1>7. UnderWay(d)' = UnderWay(d)
    BY <1>0, <1>1 DEF Goes, UnderWay
  <1>8. Window(d) => Window(d)'
    BY <1>0, <1>1, <1>2, <1>6, <1>7 DEF Window, CreateWorkflow, Goes
  <1> QED
    BY <1>0, <1>2, <1>3, <1>4, <1>5, <1>8 DEF GInv, SentinelBacked, CreateWorkflow

(* A request leaves the flight, with no sentinel written. *)
LEMMA LeaveKeeps ==
  ASSUME GInv, NEW r \in Requests, req[r].st \in {"create", "put"},
         Goes(r, "no", req[r].daf), UNCHANGED <<sentinel, started>>,
         excused' \in [Pages -> BOOLEAN],
         \A e \in Pages : excused[e] => excused'[e],
         req[r].st = "put" => excused'[req[r].daf]
  PROVE  GInv'
  <1>0. PICK d \in Pages : d = req[r].daf
    BY DEF GInv, Named
  <1>1. GTypeOK'
    BY DEF GInv, GTypeOK, Goes
  <1>2. \A q \in Requests : Backed(q)' /\ Named(q)'
    BY <1>0 DEF GInv, Backed, Named, Goes
  <1>3. \A e \in Pages \ {d} : UnderWay(e)' = UnderWay(e) /\ (Window(e) => Window(e)')
    BY <1>0 DEF Goes, UnderWay, Window
  <1>4. req[r].st = "create" /\ Window(d) => Window(d)'
    BY <1>0 DEF Window, UnderWay, Goes
  <1> QED
    BY <1>0, <1>1, <1>2, <1>3, <1>4 DEF GInv, SentinelBacked

LEMMA CreateFailsKeeps == ASSUME GInv, NEW r \in Requests, CreateFails(r) PROVE GInv'
  BY LeaveKeeps, MoveGoes DEF GInv, GTypeOK, CreateFails, flight

LEMMA PutFailsKeeps == ASSUME GInv, NEW r \in Requests, PutFails(r) PROVE GInv'
  <1>1. req[r].daf \in Pages
    BY DEF GInv, Named, PutFails
  <1>2. /\ excused' \in [Pages -> BOOLEAN] /\ excused'[req[r].daf]
        /\ \A e \in Pages : excused[e] => excused'[e]
    BY <1>1 DEF GInv, GTypeOK, PutFails
  <1> QED
    BY <1>2, LeaveKeeps, MoveGoes DEF GInv, PutFails

LEMMA PutSentinelKeeps == ASSUME GInv, NEW r \in Requests, PutSentinel(r) PROVE GInv'
  <1>0. PICK d \in Pages : d = req[r].daf /\ req[r].st = "put" /\ started[d] # 0
    BY DEF GInv, Named, Backed, PutSentinel
  <1>1. Goes(r, "yes", d)
    BY <1>0, MoveGoes DEF GInv, PutSentinel
  <1>2. /\ sentinel' \in [Pages -> BOOLEAN] /\ sentinel'[d]
        /\ \A e \in Pages \ {d} : sentinel'[e] = sentinel[e]
    BY <1>0 DEF GInv, GTypeOK, PutSentinel
  <1>9. started' = started /\ excused' = excused
    BY DEF PutSentinel
  <1>3. GTypeOK'
    BY <1>1, <1>2 DEF GInv, GTypeOK, Goes, PutSentinel
  <1>4. \A q \in Requests : Backed(q)' /\ Named(q)'
    BY <1>0, <1>1 DEF GInv, Backed, Named, Goes, PutSentinel
  <1>5. \A e \in Pages \ {d} : UnderWay(e)' = UnderWay(e) /\ (Window(e) => Window(e)')
    BY <1>0, <1>1, <1>2 DEF Goes, UnderWay, Window, PutSentinel
  <1>6. Window(d) => started[d] = 1 /\ UnderWay(d) = {r}
    BY <1>0 DEF Window, UnderWay
  <1>7. UnderWay(d) = {r} => UnderWay(d)' = {}
    BY <1>0, <1>1 DEF UnderWay, Goes
  <1>8. Window(d) => Window(d)'
    BY <1>0, <1>2, <1>6, <1>7, <1>9 DEF Window
  <1>10. SentinelBacked'
    BY <1>0, <1>2, <1>9 DEF GInv, SentinelBacked
  <1> QED
    BY <1>0, <1>3, <1>4, <1>5, <1>8, <1>9, <1>10 DEF GInv

LEMMA SentinelExpiryKeeps == ASSUME GInv, NEW d \in Pages, SentinelExpires(d) PROVE GInv'
  <1>1. /\ sentinel' = [sentinel EXCEPT ![d] = FALSE] /\ req' = req
        /\ started' \in [Pages -> 0 .. 2] /\ excused' \in [Pages -> BOOLEAN]
        /\ \A e \in Pages \ {d} : started'[e] = started[e] /\ excused'[e] = excused[e]
    BY DEF GInv, GTypeOK, SentinelExpires
  <1>2. started'[d] = IF \E r \in Requests : req[r].daf = d /\ req[r].st = "put" THEN 1 ELSE 0
    BY DEF GInv, GTypeOK, SentinelExpires
  <1>3. excused'[d] = (UnderWay(d) # {})
    BY DEF GInv, GTypeOK, SentinelExpires, UnderWay
  <1>4. GTypeOK'
    BY <1>1 DEF GInv, GTypeOK
  <1>5. \A q \in Requests : Backed(q)' /\ Named(q)'
    BY <1>1, <1>2 DEF GInv, Backed, Named
  <1>6. UnderWay(d) = {} => Window(d)'
    BY <1>1, <1>2 DEF Window, UnderWay, GInv, GTypeOK
  <1>7. \A e \in Pages \ {d} : Window(e) => Window(e)'
    BY <1>1 DEF Window, UnderWay, GInv, GTypeOK
  <1>8. SentinelBacked'
    BY <1>1 DEF SentinelBacked, GInv, GTypeOK
  <1> QED
    BY <1>1, <1>3, <1>4, <1>5, <1>6, <1>7, <1>8 DEF GInv

LEMMA AdminStartKeeps == ASSUME GInv, NEW d \in Pages, AdminStart(d) PROVE GInv'
  <1>1. /\ started' \in [Pages -> 0 .. 2] /\ started'[d] # 0
        /\ \A e \in Pages \ {d} : started'[e] = started[e] /\ excused'[e] = excused[e]
        /\ excused' \in [Pages -> BOOLEAN] /\ excused'[d] /\ req' = req /\ sentinel' = sentinel
    BY DEF GInv, GTypeOK, AdminStart, Starts
  <1>2. \A e \in Pages \ {d} : Window(e) => Window(e)'
    BY <1>1 DEF Window, UnderWay
  <1>3. \A q \in Requests : Backed(q)' /\ Named(q)'
    BY <1>1 DEF GInv, Backed, Named
  <1> QED
    BY <1>1, <1>2, <1>3 DEF GInv, GTypeOK, SentinelBacked

-----------------------------------------------------------------------------
LEMMA FlightStepKeeps == GInv /\ [GNext]_gvars => GInv'
  <1> SUFFICES ASSUME GInv, [GNext]_gvars PROVE GInv'
    OBVIOUS
  <1>1. CASE UNCHANGED gvars
    BY <1>1 DEF gvars, GInv, GTypeOK, SentinelBacked, Backed, Named, Window, UnderWay
  <1>2. ASSUME NEW r \in Requests, Handle(r) PROVE GInv'
    BY <1>2, GateAnswerKeeps, ReadSentinelKeeps, CreateKeeps, CreateFailsKeeps,
       PutSentinelKeeps, PutFailsKeeps
    DEF Handle
  <1> QED
    BY <1>1, <1>2, AskPostKeeps, SentinelExpiryKeeps, AdminStartKeeps DEF GNext

LEMMA FlightInductive == GSpec => []GInv
  BY FlightInit, FlightStepKeeps, PTL DEF GSpec

(* The types of the sentinels, the requests and the counts hold throughout. *)
THEOREM FlightTypeCorrect == GSpec => []GTypeOK
  <1>1. GInv => GTypeOK
    BY DEF GInv
  <1> QED
    BY <1>1, FlightInductive, PTL

(* One Workflow is started for a page while a sentinel stands or is on its *)
(* way, unless two first hits overlapped or a write of KV was lost. *)
THEOREM SingleFlight == GSpec => []OneGeneration
  <1>1. \A d \in Pages : Window(d) => started[d] <= 1
    BY DEF Window
  <1>2. GInv => OneGeneration
    BY <1>1 DEF GInv, OneGeneration
  <1> QED
    BY <1>2, FlightInductive, PTL

(* No page is locked by a sentinel over which nothing was created. *)
THEOREM NoEmptyLock == GSpec => []SentinelBacked
  <1>1. GInv => SentinelBacked
    BY DEF GInv
  <1> QED
    BY <1>1, FlightInductive, PTL
=============================================================================
