------------------------------- MODULE MCCards -------------------------------
EXTENDS Cards, TLC

CONSTANTS P

(* Two anchors of one page; the card's requests go before the prefetcher's. *)
MCPageOf   == [s \in Stamps |-> P]
MCPriority == [t \in Tasks |-> IF t \in Reqs THEN 0 ELSE 2]
MCSymmetry == Permutations(Stamps) \union Permutations(Reqs)
=============================================================================
