--------------------------- MODULE MCTrustLadder ---------------------------
(***************************************************************************)
(* Instances of TrustLadder for TLC.                                       *)
(***************************************************************************)
EXTENDS TrustLadder, TLC

CONSTANTS r1, r2, c1, c2, s1, s2

\* The steps of a save do not depend on which form it came from.
SameForms == Permutations(Saves)
=============================================================================
