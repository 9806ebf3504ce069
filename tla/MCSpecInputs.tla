----------------------------- MODULE MCSpecInputs -----------------------------
(* Three requests in three rows: every order of the rows after every other, *)
(* with decodes, chunks and discarded rows mixed, and every kind of drafter *)
(* below and at the length limit.                                           *)
EXTENDS EagleDraft, TLC
ReqSymmetry == Permutations(Reqs)
==============================================================================
