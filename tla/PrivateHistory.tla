---------------------------- MODULE PrivateHistory ----------------------------
(***************************************************************************)
(* What DSpark promises under continuous batching, without slots, rings,   *)
(* rows or masks: every request has a draft history of its own, a step     *)
(* extends the histories of its batch by the accepted tokens, and a draft  *)
(* attends to the last WindowSize positions of its own request's history   *)
(* and to nothing else, whoever else is in the batch, and starts at the    *)
(* position after them.                                                    *)
(***************************************************************************)
EXTENDS Integers

CONSTANTS
  Reqs,         \* the request ids
  WindowSize,   \* positions a draft attends to
  MaxAdvance    \* the most tokens one step adds to a request

VARIABLES
  seen,       \* accepted tokens of each request
  attended,   \* what the last step's draft of each request attended to
  draftsAt,   \* the position that draft starts at
  warm        \* has the drafter been called? The first call has no draft.

vars == <<seen, attended, draftsAt, warm>>

Recent(r, n) == { <<r, p>> : p \in { p \in 0 .. n - 1 : p >= n - WindowSize } }

Init ==
  /\ seen = [r \in Reqs |-> 0]
  /\ attended = [r \in Reqs |-> {}]
  /\ draftsAt = [r \in Reqs |-> 0]
  /\ warm = FALSE

(* One engine step for the requests S, each advanced by some tokens.        *)
Advance(S) ==
  /\ seen' \in [Reqs -> Nat]
  /\ \A r \in Reqs :
       IF r \in S THEN seen'[r] - seen[r] \in 1 .. MaxAdvance ELSE seen'[r] = seen[r]
  /\ attended' = [r \in Reqs |-> IF warm /\ r \in S THEN Recent(r, seen'[r]) ELSE {}]
  /\ draftsAt' = [r \in Reqs |-> IF warm /\ r \in S THEN seen'[r] ELSE 0]
  /\ warm' = TRUE

(* The scheduler preempts r, which starts over.                             *)
Forget(r) ==
  /\ seen' = [seen EXCEPT ![r] = 0]
  /\ UNCHANGED <<attended, draftsAt, warm>>

Next ==
  \/ \E S \in (SUBSET Reqs) \ {{}} : Advance(S)
  \/ \E r \in Reqs : Forget(r)

Spec == Init /\ [][Next]_vars
==============================================================================
