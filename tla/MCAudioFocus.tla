---------------------------- MODULE MCAudioFocus ----------------------------
(* AudioFocus for TLC.                                                      *)
EXTENDS AudioFocus, TLC
==============================================================================
