----------------------------- MODULE MCPortMap -----------------------------
(* Two ports, both with a default device, where external hardware, or the    *)
(* two registers of a TMS9918A, may be found.                                *)
EXTENDS PortMap, TLC

DefaultPorts == 0 :> "z8cdlo" @@ 1 :> "other"
=============================================================================
