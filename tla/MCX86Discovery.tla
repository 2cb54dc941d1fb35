--------------------------- MODULE MCX86Discovery ---------------------------
(* Every section of Length instructions that begins with a prologue.       *)
EXTENDS X86Discovery

CONSTANT Length

MCMarkers == {"m1", "m2"}
MCTexts ==
  {<<[kind |-> "prologue"]>> \o t : t \in [1 .. Length - 1 -> Instructions(1 .. Length + 1)]}
=============================================================================
