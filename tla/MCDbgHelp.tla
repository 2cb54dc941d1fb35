----------------------------- MODULE MCDbgHelp -----------------------------
(* DbgHelp with model values for the threads and the files.                *)
EXTENDS DbgHelp
=============================================================================
