-------------------------------- MODULE Cards --------------------------------
(***************************************************************************)
(* One enrichment card of the reader's sidebar (MarkEnrichmentCards.tsx)     *)
(* over the request queue it shares with the prefetcher (ClientQueue).  The  *)
(* card's effect runs again whenever something it reads changes; each run    *)
(* aborts what the run before it started, and takes the card's text from the *)
(* memo, else from the page's view, else from a request of its own.  The     *)
(* card stays mounted while the reader picks another anchor: its stamp is    *)
(* the anchor (with the page and the language) it now stands for.            *)
(***************************************************************************)
EXTENDS ClientQueue

CONSTANTS Stamps, Pages, PageOf,  \* PageOf[s]: the page and language of stamp s
          Reqs,                   \* the requests the card can make, tasks all
          Refreshes,              \* length of REFRESH_BACKOFF_MS
          MaxNavs,                \* how often the reader picks another anchor
          None

ASSUME CardAssumption ==
  /\ PageOf \in [Stamps -> Pages] /\ Reqs \subseteq Tasks
  /\ Refreshes \in Nat /\ MaxNavs \in Nat
  /\ None \notin Stamps \union Pages

VARIABLES cur,      \* the stamp of the card
          view,     \* the page whose view is settled, and the stamps it serves
          genPage,  \* the page that is view-driven
          iid,      \* instIid: the instance id that settled last, or None
          hashing,  \* stamps whose instance id is being computed
          memo,     \* memo[s]: what runResultCache holds under s, or None
          run,      \* the card's RunState
          timer,    \* the refresh that waits for its backoff
          asked,    \* asked[r]: the stamp of request r, and which refresh it is
          navs

cvars == <<cur, view, genPage, iid, hashing, memo, run, timer, asked, navs>>
vars  == <<qvars, cvars>>

(* A text is the stamp it was made for; a refreshing one is out of date. *)
Text == [of : Stamps, refreshing : BOOLEAN]
Idle == [kind |-> "idle", stamp |-> None, text |-> None]

Off == [on |-> FALSE, attempt |-> 0]

Viewed(v, s) == v # None /\ v.page = PageOf[s]

(* The card's requests that its current controller has not aborted. *)
Live == {r \in Reqs : phase[r] \notin {"new", "ended"} /\ r \notin aborted}

TypeOK ==
  /\ QTypeOK
  /\ cur \in Stamps /\ genPage \in Pages \union {None}
  /\ view \in [page : Pages, has : SUBSET Stamps] \union {None}
  /\ iid \in Stamps \union {None} /\ hashing \in SUBSET Stamps
  /\ memo \in [Stamps -> Text \union {None}]
  /\ run \in [kind : {"idle", "loading", "ok", "error"},
              stamp : Stamps \union {None}, text : Text \union {None}]
  /\ timer \in [on : BOOLEAN, attempt : 0 .. Refreshes]
  /\ asked \in [Reqs -> [stamp : Stamps \union {None}, attempt : -1 .. Refreshes]]
  /\ navs \in 0 .. MaxNavs

(* The card mounts; its page may be settled and view-driven already. *)
Init ==
  /\ QInit
  /\ cur \in Stamps
  /\ view \in {None} \union {[page |-> PageOf[cur], has |-> S] :
                              S \in SUBSET {s \in Stamps : PageOf[s] = PageOf[cur]}}
  /\ genPage \in IF view = None THEN {None} ELSE {None, PageOf[cur]}
  /\ iid = None /\ hashing = {cur}
  /\ memo = [s \in Stamps |-> None]
  /\ run = Idle /\ timer = Off
  /\ asked = [r \in Reqs |-> [stamp |-> None, attempt |-> -1]]
  /\ navs = 0

-----------------------------------------------------------------------------
Loading(s) == [kind |-> "loading", stamp |-> s, text |-> None]
Ok(s, t)   == [kind |-> "ok", stamp |-> s, text |-> t]

Ask_PastQueue(r, s, n, A) ==
  /\ asked' = [asked EXCEPT ![r] = [stamp |-> s, attempt |-> n]]
  /\ phase' = [phase EXCEPT ![r] = "posting"]
  /\ aborted' = aborted \union A
  /\ UNCHANGED <<seq, nextSeq, active, activeLow, pumping, tries>>

(* Request r joins the queue; the tasks A are aborted in the same turn. *)
Ask(r, s, n, A) ==
  /\ asked' = [asked EXCEPT ![r] = [stamp |-> s, attempt |-> n]]
  /\ Enqueue(r, A)

(* The body of the effect, over what it reads: the memo m, the run rn, and   *)
(* the new values of everything it tracks.                                   *)
InMemo(m)  == m[cur'] # None
FromView   == Viewed(view', cur') /\ iid' # None /\ iid' \in view'.has
Missing(m) == ~InMemo(m) /\ Viewed(view', cur') /\ iid' # None /\ ~FromView
Driven     == genPage' = PageOf[cur']
Skips(rn)  == rn.kind # "idle" /\ rn.stamp = cur'

Fetch(m, rn) ==
  /\ Missing(m) /\ ~Driven /\ ~Skips(rn)
  /\ run' = Loading(cur') /\ memo' = m
  /\ \E r \in Reqs : phase[r] = "new" /\ Ask(r, cur', -1, Live)

Quiet(m, rn) ==
  /\ \/ InMemo(m) /\ run' = Ok(cur', m[cur']) /\ memo' = m
     \/ /\ ~InMemo(m) /\ FromView
        /\ LET t == [of |-> iid', refreshing |-> FALSE]
           IN  run' = Ok(cur', t) /\ memo' = [m EXCEPT ![cur'] = t]
     \/ /\ Missing(m) /\ Driven
        /\ run' = IF rn.kind = "idle" THEN Loading(cur') ELSE rn
        /\ memo' = m
     \/ /\ ~InMemo(m) /\ ~FromView /\ (Missing(m) => ~Driven /\ Skips(rn))
        /\ run' = rn /\ memo' = m
  /\ Abort(Live)
  /\ UNCHANGED asked

Rerun_KeepsTimer(m, rn) ==
  /\ timer' = timer
  /\ Fetch(m, rn) \/ Quiet(m, rn)

(* The effect runs again: its cleanup fires the old controller first, so a   *)
(* request is dropped and a refresh that waits for its backoff is cancelled. *)
Rerun(m, rn) ==
  /\ timer' = Off
  /\ Fetch(m, rn) \/ Quiet(m, rn)

(* The reader picks another anchor: the hash effect runs first and forgets   *)
(* the instance id; a hash still being computed is not cancelled.            *)
Pick(s) ==
  /\ ~pumping /\ s # cur /\ navs < MaxNavs
  /\ cur' = s /\ navs' = navs + 1
  /\ iid' = None /\ hashing' = hashing \union {s}
  /\ UNCHANGED <<view, genPage>>
  /\ Rerun(memo, run)

HashSettles(s) ==
  /\ ~pumping /\ s \in hashing
  /\ hashing' = hashing \ {s} /\ iid' = s
  /\ UNCHANGED <<cur, view, genPage, navs>>
  /\ IF iid = s THEN UNCHANGED <<memo, run, timer, asked, qvars>> ELSE Rerun(memo, run)

ViewSettles_Unversioned(S) ==
  /\ ~pumping
  /\ S \subseteq {s \in Stamps : PageOf[s] = PageOf[cur]}
  /\ view' = [page |-> PageOf[cur], has |-> S]
  /\ UNCHANGED <<cur, genPage, iid, hashing, navs>>
  /\ IF Viewed(view, cur) THEN UNCHANGED <<memo, run, timer, asked, qvars>> ELSE Rerun(memo, run)

(* A load or a poll of the page on screen settles (module DafOpen); a failed *)
(* one settles an empty view.  dafViewVersion makes the effect run again.    *)
ViewSettles(S) ==
  /\ ~pumping
  /\ S \subseteq {s \in Stamps : PageOf[s] = PageOf[cur]}
  /\ view' = [page |-> PageOf[cur], has |-> S]
  /\ UNCHANGED <<cur, genPage, iid, hashing, navs>>
  /\ Rerun(memo, run)

(* openDafView enters view-driven mode over a settled view, and leaves it.   *)
GenerationStarts ==
  /\ ~pumping /\ Viewed(view, cur) /\ genPage # PageOf[cur]
  /\ genPage' = PageOf[cur]
  /\ UNCHANGED <<cur, view, iid, hashing, navs>>
  /\ Rerun(memo, run)

GenerationEnds ==
  /\ ~pumping /\ genPage # None
  /\ genPage' = None
  /\ UNCHANGED <<cur, view, iid, hashing, navs>>
  /\ IF genPage = PageOf[cur] THEN Rerun(memo, run)
     ELSE UNCHANGED <<memo, run, timer, asked, qvars>>

(* clearRunResultCache on marks-runs-invalidate: no effect reads it. *)
Invalidate ==
  /\ ~pumping /\ memo # [s \in Stamps |-> None]
  /\ memo' = [s \in Stamps |-> None]
  /\ UNCHANGED <<qvars, cur, view, genPage, iid, hashing, run, timer, asked, navs>>

(* retryBiography, the button under an error. *)
Retry ==
  /\ ~pumping /\ run.kind = "error"
  /\ UNCHANGED <<cur, view, genPage, iid, hashing, navs>>
  /\ Rerun(memo, Idle)

-----------------------------------------------------------------------------
(* scheduleRefresh: nothing once the backoffs are spent. *)
Schedule(n) == timer' = IF n < Refreshes THEN [on |-> TRUE, attempt |-> n] ELSE Off

TimerFires ==
  /\ ~pumping /\ timer.on
  /\ timer' = Off
  /\ \E r \in Reqs : phase[r] = "new" /\ Ask(r, cur, timer.attempt, {})
  /\ UNCHANGED <<cur, view, genPage, iid, hashing, memo, run, navs>>

(* The first request of an effect run is no refresh. *)
First(r) == asked[r].attempt = -1

(* A fresh text of r is pinned under the props of the moment it lands; only  *)
(* a refresh compares the stamps before that.                                *)
AnswerFresh(r) ==
  LET t == [of |-> asked[r].stamp, refreshing |-> FALSE]
  IN  /\ memo' = IF First(r) \/ cur = asked[r].stamp THEN [memo EXCEPT ![cur] = t] ELSE memo
      /\ run' = IF cur = asked[r].stamp THEN Ok(cur, t) ELSE run
      /\ timer' = timer

AnswerStale_Pinned(r) ==
  LET t == [of |-> asked[r].stamp, refreshing |-> TRUE]
  IN  /\ memo' = [memo EXCEPT ![cur] = t]
      /\ run' = IF First(r) /\ cur = asked[r].stamp THEN Ok(cur, t) ELSE run
      /\ Schedule(asked[r].attempt + 1)

(* A refreshing text is shown when it comes first, never pinned, and asked   *)
(* for again later.                                                          *)
AnswerStale(r) ==
  LET t == [of |-> asked[r].stamp, refreshing |-> TRUE]
  IN  /\ memo' = memo
      /\ run' = IF First(r) /\ cur = asked[r].stamp THEN Ok(cur, t) ELSE run
      /\ Schedule(asked[r].attempt + 1)

(* A refresh that fails leaves the old text. *)
AnswerError(r) ==
  /\ run' = IF First(r) /\ cur = asked[r].stamp
            THEN [kind |-> "error", stamp |-> cur, text |-> None] ELSE run
  /\ UNCHANGED <<memo, timer>>

CardStep(r) ==
  \/ /\ RunEnds(r)
     /\ AnswerFresh(r) \/ AnswerStale(r) \/ AnswerError(r)
     /\ UNCHANGED <<cur, view, genPage, iid, hashing, asked, navs>>
  \/ (Steps(r) /\ ~RunEnds(r)) /\ UNCHANGED cvars

(* The prefetcher's tasks: a new cohort, or leaving the page, aborts the     *)
(* cohort before it.                                                         *)
Background == Tasks \ Reqs

Prefetch ==
  /\ \E A \in {{}, Unsettled \ Reqs} : Abort(A) \/ \E t \in Background : Enqueue(t, A)
  /\ UNCHANGED cvars

Step(t) ==
  IF t \in Reqs THEN CardStep(t) ELSE Steps(t) /\ UNCHANGED cvars

PumpStep == Pump /\ UNCHANGED cvars

Next ==
  \/ \E s \in Stamps : Pick(s) \/ HashSettles(s)
  \/ \E S \in SUBSET Stamps : ViewSettles(S)
  \/ GenerationStarts \/ GenerationEnds
  \/ Invalidate \/ Retry \/ TimerFires
  \/ Prefetch \/ PumpStep
  \/ \E t \in Tasks : Step(t)

(* A pump and a request run on; no user action and no view is owed. *)
Fairness == WF_vars(PumpStep) /\ \A t \in Tasks : WF_vars(Step(t))

Spec == Init /\ [][Next]_vars
FairSpec == Spec /\ Fairness

-----------------------------------------------------------------------------
(* A card has at most one request out or one refresh waiting, for the anchor *)
(* on screen, and only over a settled view that no Workflow is filling: no   *)
(* order of clicks, views and answers makes it fan out.                      *)
OneRequestOverSettledView ==
  LET out == Cardinality(Live) + (IF timer.on THEN 1 ELSE 0)
  IN  /\ out <= 1
      /\ out = 1 => Viewed(view, cur) /\ genPage # PageOf[cur]
      /\ \A r \in Live : asked[r].stamp = cur

(* A piece the view holds is on the card whatever happened before: a failed  *)
(* request, an abandoned one, a retry, another anchor.                       *)
HitRenders ==
  (Viewed(view, cur) /\ iid = cur /\ cur \in view.has) =>
    run.kind = "ok" /\ run.stamp = cur

(* The memo, which no later answer replaces, never pins an out-of-date text. *)
PinnedFresh == \A s \in Stamps : memo[s] # None => ~memo[s].refreshing

(* MarkEnrichmentCards.tsx:534-536: when generation settles the effect re-   *)
(* runs and fetches any straggler, a card whose piece never came.            *)
StragglerFetched ==
  [][(genPage = PageOf[cur] /\ genPage' = None /\ Missing(memo)) =>
       \/ Live' # {}
       \/ run'.kind \in {"ok", "error"} /\ run'.stamp = cur]_vars
=============================================================================
