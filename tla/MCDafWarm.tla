------------------------------ MODULE MCDafWarm ------------------------------
(***************************************************************************)
(* A registry with one of each shape the real one has.  `geo` is registered *)
(* before the mark it depends on; `places` may list two instances, one of   *)
(* them twice, or another time just one, and carries a chain of two         *)
(* per-instance enrichments, the second of which also depends on one        *)
(* without a definition; the whole-daf `essay` depends on that second one   *)
(* and on `arg`, which the warm never generates and whose inline run reads  *)
(* `geo` and the first enrichment.                                          *)
(***************************************************************************)
EXTENDS DafWarm, TLC

CONSTANTS geo, places, essay, prof, syn, gone, arg, i1, i2

MCMark == {geo, places}
MCWholeDaf == {essay}
MCPerInst == {prof, syn, gone}
MCNoDef == {gone}
MCExcluded == {arg}
MCDepsOf ==
  (geo :> {places}) @@ (places :> {}) @@ (essay :> {syn, arg}) @@ (gone :> {})
    @@ (prof :> {places}) @@ (syn :> {prof, gone, geo}) @@ (arg :> {prof})
MCTarget == (prof :> places) @@ (syn :> places) @@ (gone :> places) @@ (arg :> geo)
MCIid == {i1, i2}
MCOutputs == (geo :> {<<>>}) @@ (places :> {<<i1, i2, i1>>, <<i2>>})
MCMovable == {places}
MCHePrompt == {places}
=============================================================================
