------------------------------ MODULE MCXmodem -----------------------------
(* The files of a YMODEM session, for TLC. *)
EXTENDS Xmodem

NoFiles    == <<>>
TwoFiles   == <<1, 2>>
=============================================================================
