------------------------------ MODULE MCDispatch ------------------------------
(* Instances of Dispatch for TLC.                                          *)
EXTENDS Dispatch, TLC

CONSTANTS s1, s2, r1, r2, r3

DistinctAttr == (s1 :> "a1") @@ (s2 :> "a2")
EqualAttr    == (s1 :> "a1") @@ (s2 :> "a1")

(* Attributes are only compared, and the two signals' differ               *)
(* whichever way round, so exchanging the signals is sound as well.        *)
Symmetry == Permutations(Ref) \cup Permutations(Signal)
=============================================================================
