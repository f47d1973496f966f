------------------------------ MODULE MCDynMem ------------------------------
(***************************************************************************)
(* DynMem with two pages left to hand out and two nodes of par_array, so   *)
(* that pages fill up and are searched again.                              *)
(***************************************************************************)
EXTENDS DynMem

\* The tenth page is 10009000, the eleventh, 1000A000, has a letter in every address.
MCSupply == {9, 10}

\* Chunks of 16 bytes, of which a page has more than a mask can count, of 512, the
\* sixth of which begins at A00, and of 2048.
MCRequests == {10, 300, 2000}

ASSUME MCRequestsAssumption == FitInPage
=============================================================================
