--------------------------- MODULE MCPrefixSchedule ---------------------------
(* What follows a draft call, in two independent parts: the draft block of  *)
(* one row, and the verification lengths of a batch.  They share nothing    *)
(* but the confidences, which are arbitrary, so that a behaviour is about   *)
(* the one or the other.                                                    *)
(*                                                                          *)
(* A vocabulary of 4 on two ranks of 3 columns each, the second with more   *)
(* padding than tokens, in kernel blocks of 2, so that a shard ends inside  *)
(* a block; and two requests with two drafts each.                          *)
EXTENDS PrefixSchedule, DraftBlock

VARIABLE work

BelowAll == -9
BaseScores == {-1, 0}

(* One head that favours the token after the previous one, one that repeats.*)
MarkovHeads ==
  { [t \in Tokens |-> [u \in Tokens |-> IF u = (t + d) % Vocab THEN 0 ELSE -1]] : d \in {0, 1} }

ScheduleIdle ==
  /\ rows = [r \in Reqs |-> [p \in Positions |-> 0]]
  /\ table = [t \in BatchTokens |-> NoRate]
  /\ scheduler = [kind |-> "off"]
  /\ lengths = [r \in Reqs |-> 0] /\ todo = {}
  /\ tokens = Requests /\ expected = Requests * Power[SpecTokens]
  /\ result = Score(lengths) /\ returned = TRUE

BlockIdle ==
  /\ asked = [logits |-> FALSE, confidence |-> FALSE]
  /\ localArgmax = FALSE /\ fusedArgmax = FALSE
  /\ bias = CHOOSE b \in Biases : TRUE
  /\ base = <<>> /\ logits = <<>> /\ outputIds = <<0>>

MCInit ==
  \/ work = "block" /\ ScheduleIdle /\ BlockInit
  \/ work = "schedule" /\ Init /\ BlockIdle

MCNext ==
  /\ \/ work = "schedule" /\ Next /\ UNCHANGED blockVars
     \/ work = "block" /\ DraftPosition /\ UNCHANGED vars
  /\ UNCHANGED work

MCSpec == MCInit /\ [][MCNext]_<<vars, blockVars, work>>
==============================================================================
