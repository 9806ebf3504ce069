---------------------------- MODULE MCAsyncRunner ----------------------------
(* Instances of AsyncRunner: one prompt of a single token, which reaches    *)
(* several rounds of drafts below MaxModelLen, the others of two, which can *)
(* be computed in chunks.                                                   *)
EXTENDS AsyncRunner
Prompts == [r \in Reqs |-> IF r = CHOOSE q \in Reqs : TRUE THEN 1 ELSE 2]
==============================================================================
