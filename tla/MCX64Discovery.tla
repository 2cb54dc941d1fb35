--------------------------- MODULE MCX64Discovery ---------------------------
(* Every file with a table of up to three entries and three markers.       *)
EXTENDS X64Discovery
=============================================================================
