------------------------ MODULE MCProposalLifecycle ------------------------
(***************************************************************************)
(* Instances of ProposalLifecycle for TLC.  Executor slots are             *)
(* interchangeable and so are browser tabs: the runs that check invariants *)
(* only use that symmetry, those with temporal properties do not.          *)
(***************************************************************************)
EXTENDS ProposalLifecycle, TLC

CONSTANTS p1, p2, t1, t2, t3, c1, c2

Interchangeable == Permutations(Tasks) \cup Permutations(Clients)
=============================================================================
