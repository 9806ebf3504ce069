---------------------------- MODULE MCDraftRanks ----------------------------
(* Instances of DraftRanks: graphs for some of the batch sizes, and a group *)
(* of two warm ranks, one of two new ranks, and a rank alone from its first *)
(* step on, some of whose batches do not fit in the drafter.                *)
EXTENDS DraftRanks
CONSTANTS k1, k2

Warm == [group |-> {k1, k2}, prefilled |-> TRUE, maySkip |-> FALSE, mayIdle |-> TRUE]
Cold == [Warm EXCEPT !.prefilled = FALSE]
Alone == [group |-> {k1}, prefilled |-> FALSE, maySkip |-> TRUE, mayIdle |-> FALSE]

WarmOrAlone == {Warm, Alone}
ColdOnly == {Cold}
==============================================================================
