------------------------------- MODULE DafOpen -------------------------------
(***************************************************************************)
(* The reader's side of a page (client/dafViewStore.ts): one fetch of the   *)
(* materialized view, the copy kept in the browser, and, when the page is   *)
(* cold, the Workflow it asks for (module DafGenerate) and the poll that fills   *)
(* the view in.  The browser runs one callback at a time; everything awaited *)
(* (the fetch, IndexedDB, the timer) ends in a step of its own, and the      *)
(* reader may have moved to another page and back by then.                   *)
(***************************************************************************)
EXTENDS Integers, FiniteSets

CONSTANTS Dafs, Total, None,
          MaxOpens,    \* how many pages are opened in all (a page may recur)
          StallLimit,  \* polls without a new piece before giving up
          PollCap      \* polls that fit in HARD_CAP_MS

ASSUME BoundsAssumption ==
  /\ Total \in Nat /\ MaxOpens \in Nat
  /\ StallLimit \in Nat \ {0} /\ PollCap \in Nat \ {0}

Opens == 1 .. MaxOpens

VARIABLES cached,     \* cached[d]: pieces of d in the artifact cache
          cur,        \* the page on the screen
          latestKey,  \* dafViewStore's latestKey
          view,       \* the view signal: a page and how many pieces it shows
          genKey,     \* the page that is view-driven
          saved,      \* saved[d]: IndexedDB holds a finished copy of d
          load,       \* load[d]: the shared fetch of d's view, inflight's entry
          open        \* open[o]: a call of openDafView

screen == <<cur, latestKey, view, genKey>>
vars   == <<cached, screen, saved, load, open>>

(* What /api/daf-view answers is how many pieces it found; Total is complete. *)
Payload == 0 .. Total

Load == [net : {"none", "asked", "served", "failed"},
         idb : {"reading", "found", "missing"},
         got : Payload \union {None}]
NoLoad  == [net |-> "none", idb |-> "missing", got |-> None]
Fetching == [net |-> "asked", idb |-> "reading", got |-> None]

Open == [st : {"unused", "loading", "posting", "sleeping", "polling", "served", "done"},
         key : Dafs \union {None}, got : Payload \union {None},
         last : -1 .. Total, stalls : 0 .. StallLimit, polls : 0 .. PollCap]
Unused == [st |-> "unused", key |-> None, got |-> None, last |-> -1, stalls |-> 0, polls |-> 0]

TypeOK ==
  /\ cached \in [Dafs -> 0 .. Total]
  /\ cur \in Dafs \union {None} /\ latestKey \in Dafs \union {None}
  /\ genKey \in Dafs \union {None}
  /\ view \in [key : Dafs, pieces : 0 .. Total] \union {None}
  /\ saved \in [Dafs -> BOOLEAN]
  /\ load \in [Dafs -> Load]
  /\ open \in [Opens -> Open]

Init ==
  /\ cached \in [Dafs -> {0, Total}]
  /\ cur = None /\ latestKey = None /\ view = None /\ genKey = None
  /\ saved = [d \in Dafs |-> cached[d] = Total]
  /\ load = [d \in Dafs |-> NoLoad]
  /\ open = [o \in Opens |-> Unused]

-----------------------------------------------------------------------------
(* settle: a load writes the signal only while its page is the latest asked. *)
Settle(d, n) == view' = IF latestKey = d THEN [key |-> d, pieces |-> n] ELSE view

InFlight(d) == load[d].net # "none"

(* loadDafView: join the fetch in flight, or start one and become the latest. *)
LoadDafView(d) ==
  IF InFlight(d)
  THEN UNCHANGED <<latestKey, load>>
  ELSE /\ latestKey' = d
       /\ load' = [load EXCEPT ![d] = Fetching]

Waiting(d) == {o \in Opens : open[o].st = "loading" /\ open[o].key = d}

(* The callers of d's load go on with p.  Those still on the page with a     *)
(* cold view turn view-driven and post; no caller posts over a failed fetch. *)
Resume(d, p) ==
  LET cold == latestKey = d /\ p \notin {None, Total}
  IN  /\ load' = [load EXCEPT ![d] = NoLoad]
      /\ open' = [o \in Opens |->
                    IF o \in Waiting(d)
                    THEN [open[o] EXCEPT !.st = IF cold THEN "posting" ELSE "done"]
                    ELSE open[o]]
      /\ genKey' = IF cold /\ Waiting(d) # {} THEN d ELSE genKey
      /\ UNCHANGED cached

(* writeSaved keeps finished views only, and may find the storage blocked. *)
Keep(d, p) ==
  saved' \in {saved, [saved EXCEPT ![d] = @ \/ p = Total]}

(* The effect of DafViewer on a new page: openDafView up to its first await. *)
Navigate(d, o) ==
  /\ cur # d
  /\ open[o] = Unused /\ \A p \in Opens : p < o => open[p] # Unused
  /\ cur' = d
  /\ open' = [open EXCEPT ![o].st = "loading", ![o].key = d]
  /\ LoadDafView(d)
  /\ UNCHANGED <<cached, view, genKey, saved>>

(* dafViewLoaded: the gate of d's cards is open. *)
Shows(d) == view # None /\ view.key = d

(* The prefetcher, once the marks of the page on screen are in. *)
EnsureDafView(d) ==
  /\ cur = d
  /\ ~Shows(d)
  /\ LoadDafView(d)
  /\ UNCHANGED <<cached, cur, view, genKey, saved, open>>

-----------------------------------------------------------------------------
(* readSaved settles while the server check runs: a finished copy is painted. *)
SavedRead(d) ==
  /\ load[d].net \in {"asked", "served"} /\ load[d].idb = "reading"
  /\ load' = [load EXCEPT ![d].idb = IF saved[d] THEN "found" ELSE "missing"]
  /\ IF saved[d] THEN Settle(d, Total) ELSE view' = view
  /\ UNCHANGED <<cached, cur, latestKey, genKey, saved, open>>

ServeLoad(d) ==
  /\ load[d].net = "asked"
  /\ load' = [load EXCEPT ![d].net = "served", ![d].got = cached[d]]
  /\ UNCHANGED <<cached, screen, saved, open>>

LoadLands(d) ==
  /\ load[d].net = "served"
  /\ Settle(d, load[d].got)
  /\ Keep(d, load[d].got)
  /\ Resume(d, load[d].got)
  /\ UNCHANGED <<cur, latestKey>>

(* Not ok, a network error or the 15 s abort; savedOrEmpty awaits the copy. *)
LoadFails(d) ==
  /\ load[d].net \in {"asked", "served"}
  /\ load' = [load EXCEPT ![d].net = "failed", ![d].got = None]
  /\ UNCHANGED <<cached, screen, saved, open>>

SavedReadLate(d) ==
  /\ load[d].net = "failed" /\ load[d].idb = "reading"
  /\ load' = [load EXCEPT ![d].idb = IF saved[d] THEN "found" ELSE "missing"]
  /\ UNCHANGED <<cached, screen, saved, open>>

(* An empty view is not painted when there is no copy. *)
SavedOrEmpty_NoSettle(d) ==
  /\ load[d].net = "failed" /\ load[d].idb # "reading"
  /\ IF load[d].idb = "found"
     THEN Settle(d, Total) /\ Resume(d, Total)
     ELSE view' = view /\ Resume(d, None)
  /\ UNCHANGED <<cur, latestKey, saved>>

(* The copy is reported without complete: true. *)
SavedOrEmpty_Cold(d) ==
  /\ load[d].net = "failed" /\ load[d].idb # "reading"
  /\ IF load[d].idb = "found"
     THEN Settle(d, Total) /\ Resume(d, Total - 1)
     ELSE Settle(d, 0) /\ Resume(d, None)
  /\ UNCHANGED <<cur, latestKey, saved>>

SavedOrEmpty(d) ==
  /\ load[d].net = "failed" /\ load[d].idb # "reading"
  /\ IF load[d].idb = "found"
     THEN Settle(d, Total) /\ Resume(d, Total)
     ELSE Settle(d, 0) /\ Resume(d, None)
  /\ UNCHANGED <<cur, latestKey, saved>>

-----------------------------------------------------------------------------
(* openDafView ends: view-driven mode is dropped if it is still this page's. *)
Finish(o) ==
  /\ open' = [open EXCEPT ![o] = [Unused EXCEPT !.st = "done", !.key = open[o].key]]
  /\ genKey' = IF genKey = open[o].key THEN None ELSE genKey

(* The trigger is answered as startDafGeneration answers it (DafGenerate).    *)
PostAccepted(o) ==
  /\ open[o].st = "posting"
  /\ open' = [open EXCEPT ![o].st = "sleeping"]
  /\ UNCHANGED <<cached, screen, saved, load>>

(* generating: false, a body that is no JSON, or no answer at all. *)
PostRefused(o) ==
  /\ open[o].st = "posting"
  /\ Finish(o)
  /\ UNCHANGED <<cached, cur, latestKey, view, saved, load>>

(* Navigating away leaves the loop without its finally. *)
Wake_Leak(o) ==
  /\ open[o].st = "sleeping"
  /\ genKey' = genKey
  /\ open' = IF latestKey # open[o].key
             THEN [open EXCEPT ![o].st = "done"]
             ELSE [open EXCEPT ![o].st = "polling", ![o].polls = @ + 1]
  /\ UNCHANGED <<cached, cur, latestKey, view, saved, load>>

Wake(o) ==
  /\ open[o].st = "sleeping"
  /\ IF latestKey # open[o].key
     THEN Finish(o)
     ELSE open' = [open EXCEPT ![o].st = "polling", ![o].polls = @ + 1] /\ genKey' = genKey
  /\ UNCHANGED <<cached, cur, latestKey, view, saved, load>>

ServePoll(o) ==
  /\ open[o].st = "polling"
  /\ open' = [open EXCEPT ![o].st = "served", ![o].got = cached[open[o].key]]
  /\ UNCHANGED <<cached, screen, saved, load>>

(* Neither the stall limit nor the hard cap ends the loop. *)
AfterPoll_Forever(o, p, down) ==
  IF latestKey # open[o].key \/ p = Total \/ down
  THEN Finish(o)
  ELSE /\ open' = [open EXCEPT ![o].st = "sleeping", ![o].got = None, ![o].polls = 0]
       /\ genKey' = genKey

(* The rest of the loop's body, once a poll answered p (None: it failed).  An *)
(* unfinished view may say that AI is down, whatever the reason (see AiDown).  *)
AfterPoll(o, p, down) ==
  LET new    == IF p = None THEN open[o].last ELSE p
      stalls == IF new > open[o].last THEN 0 ELSE open[o].stalls + 1
  IN  IF \/ latestKey # open[o].key
         \/ p = Total \/ down
         \/ stalls >= StallLimit
         \/ open[o].polls = PollCap
      THEN Finish(o)
      ELSE /\ open' = [open EXCEPT ![o].st = "sleeping", ![o].got = None,
                                   ![o].stalls = stalls,
                                   ![o].last = IF new > @ THEN new ELSE @]
           /\ genKey' = genKey

PollLands(o) ==
  /\ open[o].st = "served"
  /\ Settle(open[o].key, open[o].got)
  /\ Keep(open[o].key, open[o].got)
  /\ \E down \in BOOLEAN : AfterPoll(o, open[o].got, down)
  /\ UNCHANGED <<cached, cur, latestKey, load>>

(* A failed poll does not look at the saved copy: it settles empty. *)
PollFails(o) ==
  /\ open[o].st \in {"polling", "served"}
  /\ Settle(open[o].key, 0)
  /\ AfterPoll(o, None, FALSE)
  /\ UNCHANGED <<cached, cur, latestKey, saved, load>>

(* keysToPrune, or the browser clearing its storage. *)
Forget(d) ==
  /\ saved[d]
  /\ saved' = [saved EXCEPT ![d] = FALSE]
  /\ UNCHANGED <<cached, screen, load, open>>

(* A Workflow step, or a card's own run on any reader's page, caches a piece. *)
PieceCached(d) ==
  /\ cached[d] < Total
  /\ cached' = [cached EXCEPT ![d] = @ + 1]
  /\ UNCHANGED <<screen, saved, load, open>>

(* A new cache_version, or an eviction: the page is cold again. *)
Invalidate(d) ==
  /\ cached[d] = Total
  /\ cached' = [cached EXCEPT ![d] = 0]
  /\ UNCHANGED <<screen, saved, load, open>>

LoadStep(d) == SavedRead(d) \/ LoadLands(d) \/ SavedReadLate(d) \/ SavedOrEmpty(d)
OpenStep(o) == PostAccepted(o) \/ PostRefused(o) \/ Wake(o) \/ PollLands(o) \/ PollFails(o)

Next ==
  \/ \E d \in Dafs : \/ \E o \in Opens : Navigate(d, o)
                     \/ EnsureDafView(d) \/ ServeLoad(d) \/ LoadFails(d)
                     \/ LoadStep(d) \/ Forget(d)
                     \/ PieceCached(d) \/ Invalidate(d)
  \/ \E o \in Opens : ServePoll(o) \/ OpenStep(o)

Spec == Init /\ [][Next]_vars

(* A fetch is answered or aborted after 15 s, IndexedDB answers or errs, a   *)
(* timer fires: the event loop always runs some callback that is due.  No    *)
(* more is needed: what is bounded (PollCap) or settles comes to its end.    *)
Callback ==
  \/ \E d \in Dafs : LoadStep(d) \/ LoadFails(d)
  \/ \E o \in Opens : OpenStep(o)

FairSpec == Spec /\ WF_vars(Callback)

-----------------------------------------------------------------------------
(* A page is view-driven (its cards fire no /api/run) only while some call of *)
(* openDafView for it is still posting or polling, and so will release it.    *)
DriverAlive ==
  genKey # None =>
    \E o \in Opens : open[o].key = genKey /\ open[o].st \in {"posting", "sleeping", "polling", "served"}

(* Generation is asked for only over the server's own answer that the page    *)
(* is cold, for the page last asked for; never over a failed fetch.           *)
PostsOverColdAnswer ==
  [][\A o \in Opens :
       open[o].st # "posting" /\ open'[o].st = "posting" =>
         LET l == load[open[o].key]
         IN  latestKey = open[o].key /\ l.net = "served" /\ l.got # Total]_vars

(* The load that claimed latestKey settles the signal, with what it read or   *)
(* empty, unless a later load claims it: the gate of the page's cards opens.  *)
LatestSettles ==
  \A d \in Dafs : latestKey = d ~> (latestKey # d \/ Shows(d))

(* View-driven mode ends: complete, refused, stalled, capped or left, the     *)
(* cards of every page get their own requests back.                           *)
ViewDrivenEnds == \A d \in Dafs : genKey = d ~> genKey # d

(* What dafViewStore.ts:100-104 says of every load: the page on the screen    *)
(* gets a settled view, or the reader leaves it.                              *)
GateResolves ==
  \A d \in Dafs : cur = d ~> (cur # d \/ Shows(d))
=============================================================================
