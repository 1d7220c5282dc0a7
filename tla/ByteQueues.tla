----------------------------- MODULE ByteQueues -----------------------------
(***************************************************************************)
(* What hardware/uart.c promises to its callers, with no ring buffers, no  *)
(* indices and no interrupts: every port has a transmit queue and a        *)
(* receive queue of at most N bytes.  Bytes leave each queue in the order  *)
(* they entered it, none is duplicated, and the only byte ever lost is one *)
(* that arrives while N undelivered bytes are waiting.                     *)
(***************************************************************************)
EXTENDS Integers, Sequences

CONSTANTS
  Ports,   \* the serial ports (uart.c has two)
  N,       \* capacity of each queue (UART_BUFF)
  Bytes,   \* the values a byte takes
  Empty    \* the content of a data register that holds no byte

VARIABLES
  txq,     \* [Ports -> Seq(Bytes)], accepted by uart_putc, not yet in UDR
  rxq,     \* [Ports -> Seq(Bytes)], received, not yet taken by uart_getc
  out,     \* [Ports -> Bytes or Empty], the transmit data register
  in,      \* [Ports -> Bytes or Empty], the receive data register
  got      \* the last byte delivered to a caller of uart_getc

qvars == <<txq, rxq, out, in, got>>

Init ==
  /\ txq = [p \in Ports |-> <<>>]
  /\ rxq = [p \in Ports |-> <<>>]
  /\ out = [p \in Ports |-> Empty]
  /\ in = [p \in Ports |-> Empty]
  /\ got \in Bytes

\* A caller of uart_putc hands over a byte; there must be room for it.
Put(p, b) ==
  /\ Len(txq[p]) < N
  /\ txq' = [txq EXCEPT ![p] = Append(@, b)]
  /\ UNCHANGED <<rxq, out, in, got>>

\* The oldest waiting byte moves to the data register.
Transmit(p) ==
  /\ out[p] = Empty
  /\ txq[p] # <<>>
  /\ out' = [out EXCEPT ![p] = Head(txq[p])]
  /\ txq' = [txq EXCEPT ![p] = Tail(@)]
  /\ UNCHANGED <<rxq, in, got>>

\* The data register is moved to the shift register and is free again.
Shift(p) ==
  /\ out[p] # Empty
  /\ out' = [out EXCEPT ![p] = Empty]
  /\ UNCHANGED <<txq, rxq, in, got>>

\* The line delivers a byte to the receive register.
Arrive(p, b) ==
  /\ in[p] = Empty
  /\ in' = [in EXCEPT ![p] = b]
  /\ UNCHANGED <<txq, rxq, out, got>>

\* The byte is queued; it is dropped if, and only if, N bytes are waiting.
Receive(p) ==
  /\ in[p] # Empty
  /\ in' = [in EXCEPT ![p] = Empty]
  /\ rxq' = [rxq EXCEPT ![p] = IF Len(@) < N THEN Append(@, in[p]) ELSE @]
  /\ UNCHANGED <<txq, out, got>>

\* uart_getc delivers the oldest byte.
Take(p) ==
  /\ rxq[p] # <<>>
  /\ got' = Head(rxq[p])
  /\ rxq' = [rxq EXCEPT ![p] = Tail(@)]
  /\ UNCHANGED <<txq, out, in>>

\* A port is set up again: type-ahead is discarded, output never is.
Reopen(p) ==
  /\ txq[p] = <<>>
  /\ rxq' = [rxq EXCEPT ![p] = <<>>]
  /\ UNCHANGED <<txq, out, in, got>>

Next ==
  \E p \in Ports :
    \/ \E b \in Bytes : Put(p, b) \/ Arrive(p, b)
    \/ Receive(p)
    \/ Transmit(p)
    \/ Shift(p)
    \/ Take(p)
    \/ Reopen(p)

Spec == Init /\ [][Next]_qvars

\* No byte is stranded: waiting output keeps moving towards the line, and
\* arriving input is queued.
FairSpec ==
  /\ Spec
  /\ \A p \in Ports : /\ WF_qvars(Transmit(p))
                      /\ WF_qvars(Shift(p))
                      /\ WF_qvars(Receive(p))
=============================================================================
