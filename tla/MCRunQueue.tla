----------------------------- MODULE MCRunQueue -----------------------------
EXTENDS RunQueue, FiniteSets
CONSTANTS r1, r2, r3, s1, s2
MCOneBypass == [r \in Requests |-> IF r = r3 THEN "bypass" ELSE "plain"]
MCPlain     == [r \in Requests |-> "plain"]
MCExplicit  == [r \in Requests |-> IF r = r1 THEN "plain" ELSE "explicit"]

\* Two ranges under one title: r1 asks for one, everyone else for the other.
MCSectionOf == [j \in Job |-> IF j = r1 THEN s1 ELSE s2]

\* r1 with one of the other requests, or one request and a change from outside, of
\* a producer that is not both experimental and cost-paused.
Posted == {r \in Requests : pc[r] # "idle"}
TwoActors ==
  /\ Cardinality(Posted) + upsets <= 2 /\ ~ {r2, r3} \subseteq Posted
  /\ ~ (experimental /\ paused)
=============================================================================
