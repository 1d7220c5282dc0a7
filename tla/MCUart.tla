------------------------------- MODULE MCUart -------------------------------
(* Model checking of Uart: one port, whose rings of two slots are empty, half *)
(* full, full and wrapped in turn.  Ports share no ring, and UartProofs is    *)
(* about any number of them and rings of any size.                            *)
EXTENDS Uart

None == -1
=============================================================================
