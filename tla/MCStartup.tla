------------------------------ MODULE MCStartup ------------------------------
(* Every mix of three layers' kinds over one or two shared tensors, and     *)
(* every graph mode and drafter for one of them.                            *)
EXTENDS Startup

Kind(shape, order, ratio, padded) ==
  [shape |-> shape, order |-> order, ratio |-> ratio, padded |-> padded]

Kinds ==
  { Kind(s, o, r, FALSE) : s \in {"kvFirst", "blockFirst"}, o \in {"NHD", "HND"}, r \in 1 .. 2 }
    \cup { Kind("mla", "NHD", 1, FALSE), Kind("mla", "NHD", 2, FALSE), Kind("mla", "NHD", 1, TRUE),
           Kind("mamba", "NHD", 1, FALSE) }

(* The code gives a tensor one order among standard layers, and makes all   *)
(* of them block-major beside Mamba layers; a layer with K/V first is not   *)
(* expected on a tensor with an MLA layer.                                  *)
Expected(kinds, tensor) ==
  \A l, m \in Layers : tensor[l] = tensor[m] /\ kinds[l].shape = "mla" => kinds[m].shape # "kvFirst"

Tensors == { t \in [Layers -> 1 .. 2] : t[1] = 1 }

Engine(kinds, tensor, mode, drafter, eager) ==
  [kinds |-> kinds, tensor |-> tensor, mode |-> mode, drafter |-> drafter, draftEager |-> eager]

Plain == [l \in Layers |-> Kind("kvFirst", "NHD", (l % 2) + 1, FALSE)]

Modes == {"NONE", "PIECEWISE", "FULL_DECODE_ONLY", "FULL_AND_PIECEWISE", "FULL"}

AllEngines ==
  { Engine(k, t, "FULL_AND_PIECEWISE", "dspark", FALSE) :
      k \in [Layers -> Kinds], t \in Tensors }
    \cup { Engine(Plain, [l \in Layers |-> 1], m, d, e) :
             m \in Modes, d \in {"dspark", "eagle"}, e \in BOOLEAN }

ExpectedEngines == { e \in AllEngines : Expected(e.kinds, e.tensor) }

ThreeLayers == 1 .. 3
==============================================================================
