---------------------------- MODULE MCDraftWindow ----------------------------
(* Instances of DraftWindow: requests with equal prompts, so that they can  *)
(* be permuted, under five configurations.                                  *)
EXTENDS DraftWindow, TLC

Base == [promptLen |-> 2, maxChunk |-> 2, maxModelLen |-> 5, drafterMaxLen |-> 6,
         maskOn |-> TRUE, prefixHits |-> {0}, maxRunning |-> 2,
         leavesOut |-> FALSE, preempts |-> FALSE]

(* Preemption, with every request's history stored.                         *)
Preempting == [Base EXCEPT !.preempts = TRUE]
(* Histories with gaps: cache hits, requests left out, drafts skipped.      *)
Gaps == [Base EXCEPT !.drafterMaxLen = 4,
                     !.prefixHits = {0, 1}, !.leavesOut = TRUE]
(* A prompt chunk longer than the ring, and enough decoding to wrap it.     *)
Alone == [Base EXCEPT !.promptLen = 3, !.maxChunk = 3, !.maxModelLen = 7,
                      !.drafterMaxLen = 8, !.maxRunning = 1, !.preempts = TRUE]
(* The same without the rejected-context mask.                              *)
AloneUnmasked == [Alone EXCEPT !.maskOn = FALSE]
(* Two requests without it, in chunks and blocks of one or two rows: what   *)
(* they differ by makes the number of rows odd, so that propose() raises    *)
(* instead of sharing the rows out wrongly.                                 *)
PairUnmasked == [Base EXCEPT !.maskOn = FALSE]

AllConfigs == {Preempting, Gaps, Alone, AloneUnmasked, PairUnmasked}
CacheHits == {[Base EXCEPT !.prefixHits = {0, 1}]}
ReqSymmetry == Permutations(Reqs)
==============================================================================
