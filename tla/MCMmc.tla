-------------------------------- MODULE MCMmc ---------------------------------
(* A card of four sectors of two bytes, transfers of one and two sectors, and  *)
(* waits of a tick or two.                                                     *)
EXTENDS Mmc

SomeSectors == 0 .. 3
=============================================================================
