---------------------------- MODULE MCIndexerMeta ----------------------------
(* Two requests of up to eight tokens, two tokens to a page, in every         *)
(* deployment: native, flattened, compressed, capped, replayed.             *)
EXTENDS IndexerMeta

Deployment(nextN, ratio, b12x, trim, cap, graphs) ==
  [nextN |-> nextN, ratio |-> ratio, b12x |-> b12x, trim |-> trim, cap |-> cap,
   graphs |-> graphs]

Deployments ==
  { Deployment(1, 1, FALSE, FALSE, 0, FALSE),
    Deployment(2, 2, FALSE, TRUE, 0, FALSE),
    Deployment(2, 1, TRUE, TRUE, 6, FALSE),
    Deployment(3, 2, TRUE, TRUE, 6, FALSE),
    Deployment(3, 1, TRUE, TRUE, 0, TRUE),
    Deployment(3, 1, FALSE, TRUE, 0, TRUE) }

CappedReplay == { Deployment(3, 1, TRUE, TRUE, 6, TRUE) }
=============================================================================
