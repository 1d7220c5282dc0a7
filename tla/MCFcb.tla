------------------------------- MODULE MCFcb -------------------------------
(* Bytes of two bits keep the proportions of the real sizes. *)
EXTENDS Fcb
=============================================================================
