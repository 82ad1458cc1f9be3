---------------------------- MODULE MCSpendLedger ----------------------------
(***************************************************************************)
(* Instances of SpendLedger for TLC.  A day is two ticks and an hour one,   *)
(* so that holds cross midnight and expire within the bound; the caps admit *)
(* one reservation and leave a second to be decided by what has settled.    *)
(***************************************************************************)
EXTENDS SpendLedger, TLC

\* Bound: two of the attempts are made, whichever they are.
TwoAttempts == Cardinality({a \in Attempt : call[a].pc # "idle"}) <= 2

SymRouted == Permutations(Attempt \ Native) \cup Permutations(Generation)
=============================================================================
