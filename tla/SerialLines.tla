----------------------------- MODULE SerialLines -----------------------------
(***************************************************************************)
(* The serial ports as the rest of the firmware sees them while the Z80    *)
(* runs: the queues that ByteQueues promises.  A terminal fills the        *)
(* receive queues and the interrupt handlers empty the transmit queues.    *)
(***************************************************************************)
EXTENDS Integers, Sequences

CONSTANTS
  Uarts,  \* the physical ports
  Room    \* bytes a queue holds (UART_BUFF)

ASSUME LinesAssumption == Room \in Nat \ {0}

VARIABLES
  rxq,    \* [Uarts -> a sequence of bytes], received, not yet taken
  txq     \* [Uarts -> a sequence of bytes], to be sent

lines == <<rxq, txq>>

LinesInit ==
  /\ rxq = [u \in Uarts |-> <<>>]
  /\ txq = [u \in Uarts |-> <<>>]

\* A byte that finds no room is lost: nothing changes.
Arrive(u, c) ==
  /\ Len(rxq[u]) < Room
  /\ rxq' = [rxq EXCEPT ![u] = Append(@, c)]
  /\ UNCHANGED txq

Transmit(u) ==
  /\ txq[u] # <<>>
  /\ txq' = [txq EXCEPT ![u] = Tail(@)]
  /\ UNCHANGED rxq

uart_testrx(u) == Len(rxq[u])
uart_testtx(u) == Len(txq[u])
uart_peek(u) == Head(rxq[u])
uart_getc(u) == rxq' = [rxq EXCEPT ![u] = Tail(@)]
uart_putc(u, c) == txq' = [txq EXCEPT ![u] = Append(@, c)]
=============================================================================
