----------------------------- MODULE MCOsiThread -----------------------------
(* OsiThread for TLC.                                                       *)
EXTENDS OsiThread, TLC
==============================================================================
