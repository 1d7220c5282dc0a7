---------------------------- MODULE MCZ80Control ----------------------------
(* Model checking of Z80Control.  Timeout is three machine cycles: enough for *)
(* every request that can succeed, and soon over for one that cannot.         *)
EXTENDS Z80Control
=============================================================================
