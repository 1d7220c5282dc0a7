-------------------------------- MODULE Uart --------------------------------
(***************************************************************************)
(* hardware/uart.c: two serial ports with interrupt-driven ring buffers.   *)
(* The main program runs uart_getc, uart_peek, uart_putc, uart_flush and   *)
(* uart_init one access to shared memory at a time; the receive and the    *)
(* data-register-empty handlers run between any two of them (a handler     *)
(* runs with interrupts off, so it is one step, and so is a cli()/sei()    *)
(* section of the main program).                                           *)
(***************************************************************************)
EXTENDS Integers, Sequences

CONSTANTS
  Ports,     \* the serial ports: {0, 1} in the code
  N,         \* UART_BUFF
  Bytes,     \* values of a byte; 0 is also what uart_getc returns for "none"
  HaltKey,   \* watch_key; 0 disables the halt key
  Empty      \* "UDR holds no byte" (UDREn is set)

\* The handlers keep the count in a uint8_t, so a buffer has at most 255 bytes.
ASSUME RingAssumption == N \in 1..255
ASSUME ByteAssumption == 0 \in Bytes /\ HaltKey \in Bytes /\ Empty \notin Bytes

VARIABLES
  tx,        \* TxFifo[]
  rx,        \* RxFifo[]
  udrie,     \* UDRIE0 in UCSRB[]: the data-register-empty interrupt is on
  out,       \* UDR[], transmit side: a byte, or Empty when UDREn is set
  in,        \* UDR[], receive side: a byte when RXCn is set, or Empty
  watch,     \* watch_flag
  pc,        \* where the main program stands in a routine of uart.c
  port,      \* its argument uart
  d,         \* its local (or argument) d
  i,         \* its local i
  got        \* the byte most recently removed by uart_getc

vars == <<tx, rx, udrie, out, in, watch, pc, port, d, i, got>>

Index == 0 .. N - 1
Fifo  == [wi : Index, ri : Index, ct : 0 .. N, buff : [Index -> Bytes]]

\* (i + 1) % sizeof buff
Next1(k) == (k + 1) % N

\* What the handlers do to a buffer in one go.
Pushed(f, b) ==
  [wi |-> Next1(f.wi), ri |-> f.ri, ct |-> f.ct + 1,
   buff |-> [f.buff EXCEPT ![f.wi] = b]]
Popped(f) ==
  [wi |-> f.wi, ri |-> Next1(f.ri), ct |-> f.ct - 1, buff |-> f.buff]
ClearedButRi(f) ==      \* mistake for RingsAgree
  [wi |-> 0, ri |-> f.ri, ct |-> 0, buff |-> f.buff]
Cleared(f) ==
  [wi |-> 0, ri |-> 0, ct |-> 0, buff |-> f.buff]

\* ct < sizeof buff
RoomEarly(f) == f.ct < N - 1    \* mistake for ImplementsQueues
HasRoom(f) == f.ct < N

\* A byte that finds no room is dropped.
ReceivedOver(f, b) == Pushed(IF HasRoom(f) THEN f ELSE Popped(f), b)  \* mistake for ReadIsOldest
Received(f, b) == IF HasRoom(f) THEN Pushed(f, b) ELSE f

\* Is there a byte left once the oldest is sent?
MoreEarly(f) == f.ct > 2        \* mistake for OutputDrains
More(f) == f.ct # 1

EmptyFifo == [wi |-> 0, ri |-> 0, ct |-> 0, buff |-> [k \in Index |-> 0]]

Init ==
  /\ tx = [p \in Ports |-> EmptyFifo]
  /\ rx = [p \in Ports |-> EmptyFifo]
  /\ udrie = [p \in Ports |-> FALSE]
  /\ out = [p \in Ports |-> Empty]
  /\ in = [p \in Ports |-> Empty]
  /\ watch = FALSE
  /\ pc = "idle"
  /\ port \in Ports
  /\ d = 0
  /\ i = 0
  /\ got = 0

Goto(from, to) == pc = from /\ pc' = to

-----------------------------------------------------------------------------
(* uart_getc and uart_peek.  Locals die with the call: a return clears them. *)

Return(from) == Goto(from, "idle") /\ d' = 0 /\ i' = 0

\* With an empty buffer both return 0 at once; otherwise they go on to read.
TestRx(p, op) ==
  /\ rx[p].ct # 0
  /\ Goto("idle", op)
  /\ port' = p
  /\ UNCHANGED <<tx, rx, udrie, out, in, watch, d, i, got>>

ReadSlot(from, to) ==
  /\ Goto(from, to)
  /\ i' = rx[port].ri
  /\ d' = rx[port].buff[rx[port].ri]
  /\ UNCHANGED <<tx, rx, udrie, out, in, watch, port, got>>

PeekRead == ReadSlot("peekRead", "peekReturn")

PeekReturn ==
  /\ Return("peekReturn")
  /\ UNCHANGED <<tx, rx, udrie, out, in, watch, port, got>>

GetcRead == ReadSlot("getcRead", "getcTake")

\* cli(); ct--; sei();
GetcTake ==
  /\ Goto("getcTake", "getcAdvance")
  /\ rx' = [rx EXCEPT ![port].ct = @ - 1]
  /\ got' = d
  /\ UNCHANGED <<tx, udrie, out, in, watch, port, d, i>>

GetcAdvance ==
  /\ Return("getcAdvance")
  /\ rx' = [rx EXCEPT ![port].ri = Next1(i)]
  /\ UNCHANGED <<tx, udrie, out, in, watch, port, got>>

-----------------------------------------------------------------------------
(* uart_putc *)

PutcCall(p, b) ==
  /\ Goto("idle", "putcWait")
  /\ port' = p
  /\ d' = b
  /\ UNCHANGED <<tx, rx, udrie, out, in, watch, i, got>>

\* The busy-wait ends when the buffer has room.
PutcWait ==
  /\ HasRoom(tx[port])
  /\ Goto("putcWait", "putcStore")
  /\ UNCHANGED <<tx, rx, udrie, out, in, watch, port, d, i, got>>

PutcStore ==
  /\ Goto("putcStore", "putcPublish")
  /\ i' = tx[port].wi
  /\ tx' = [tx EXCEPT ![port].buff[tx[port].wi] = d]
  /\ UNCHANGED <<rx, udrie, out, in, watch, port, d, got>>

PutcPublishQuietly ==   \* mistake for NoStall
  /\ Goto("putcPublish", "putcAdvance")
  /\ tx' = [tx EXCEPT ![port].ct = @ + 1]
  /\ UNCHANGED <<rx, udrie, out, in, watch, port, d, i, got>>

\* cli(); ct++; enable the transmit interrupt; sei();
PutcPublish ==
  /\ Goto("putcPublish", "putcAdvance")
  /\ tx' = [tx EXCEPT ![port].ct = @ + 1]
  /\ udrie' = [udrie EXCEPT ![port] = TRUE]
  /\ UNCHANGED <<rx, out, in, watch, port, d, i, got>>

PutcAdvance ==
  /\ Return("putcAdvance")
  /\ tx' = [tx EXCEPT ![port].wi = Next1(i)]
  /\ UNCHANGED <<rx, udrie, out, in, watch, port, got>>

-----------------------------------------------------------------------------
(* uart_flush, and uart_init as cli/hardware.c calls it: after a flush *)

FlushCall ==
  /\ Goto("idle", "flushFifo")
  /\ UNCHANGED <<tx, rx, udrie, out, in, watch, port, d, i, got>>

\* No byte is added during a flush, so testing the ports one after the other
\* amounts to seeing all of them empty at once.
FlushFifo ==
  /\ \A p \in Ports : tx[p].ct = 0
  /\ Goto("flushFifo", "flushUdr")
  /\ UNCHANGED <<tx, rx, udrie, out, in, watch, port, d, i, got>>

FlushUdr ==
  /\ \A p \in Ports : out[p] = Empty
  /\ Goto("flushUdr", "flushed")
  /\ UNCHANGED <<tx, rx, udrie, out, in, watch, port, d, i, got>>

FlushReturn ==
  /\ Goto("flushed", "idle")
  /\ UNCHANGED <<tx, rx, udrie, out, in, watch, port, d, i, got>>

\* UCSRB is zero meanwhile: no handler of this port runs.  The slots keep
\* their old content.
UartInit(p) ==
  /\ Goto("flushed", "idle")
  /\ rx' = [rx EXCEPT ![p] = Cleared(rx[p])]
  /\ tx' = [tx EXCEPT ![p] = Cleared(tx[p])]
  /\ udrie' = [udrie EXCEPT ![p] = FALSE]
  /\ UNCHANGED <<out, in, watch, port, d, i, got>>

\* z80_run and z80_debug clear the halt-key flag when they start.
ClearWatch ==
  /\ pc = "idle"
  /\ watch' = FALSE
  /\ UNCHANGED <<tx, rx, udrie, out, in, pc, port, d, i, got>>

-----------------------------------------------------------------------------
(* The interrupt handlers and the serial hardware *)

\* The line delivers a byte.
Arrive(p, b) ==
  /\ in[p] = Empty
  /\ in' = [in EXCEPT ![p] = b]
  /\ UNCHANGED <<tx, rx, udrie, out, watch, pc, port, d, i, got>>

\* uart_rx_vect: the halt key is noticed even if there is no room for it.
RxVect(p) ==
  /\ in[p] # Empty
  /\ in' = [in EXCEPT ![p] = Empty]
  /\ watch' = (watch \/ (HaltKey # 0 /\ in[p] = HaltKey))
  /\ rx' = [rx EXCEPT ![p] = Received(rx[p], in[p])]
  /\ UNCHANGED <<tx, udrie, out, pc, port, d, i, got>>

\* uart_udre_vect: UDR is free and the interrupt is on.
UdreVect(p) ==
  /\ udrie[p]
  /\ out[p] = Empty
  /\ IF tx[p].ct # 0
     THEN /\ tx' = [tx EXCEPT ![p] = Popped(tx[p])]
          /\ out' = [out EXCEPT ![p] = tx[p].buff[tx[p].ri]]
          /\ udrie' = [udrie EXCEPT ![p] = More(tx[p])]
     ELSE /\ udrie' = [udrie EXCEPT ![p] = FALSE]
          /\ UNCHANGED <<tx, out>>
  /\ UNCHANGED <<rx, in, watch, pc, port, d, i, got>>

\* The hardware moves UDR to its shift register.
ShiftOut(p) ==
  /\ out[p] # Empty
  /\ out' = [out EXCEPT ![p] = Empty]
  /\ UNCHANGED <<tx, rx, udrie, in, watch, pc, port, d, i, got>>

-----------------------------------------------------------------------------

MainStep ==
  \/ PeekRead \/ PeekReturn \/ GetcRead \/ GetcTake \/ GetcAdvance
  \/ PutcWait \/ PutcStore \/ PutcPublish \/ PutcAdvance
  \/ FlushFifo \/ FlushUdr \/ FlushReturn

Next ==
  \/ \E p \in Ports : TestRx(p, "peekRead") \/ TestRx(p, "getcRead")
  \/ \E p \in Ports, b \in Bytes : PutcCall(p, b)
  \/ FlushCall
  \/ MainStep
  \/ \E p \in Ports : UartInit(p)
  \/ ClearWatch
  \/ \E p \in Ports, b \in Bytes : Arrive(p, b)
  \/ \E p \in Ports : RxVect(p) \/ UdreVect(p) \/ ShiftOut(p)

Spec == Init /\ [][Next]_vars

\* An operation that has begun keeps running, an enabled interrupt is taken
\* and the hardware keeps shifting.  Nothing makes anyone call uart_putc, and
\* nothing makes a byte arrive.
Fairness ==
  /\ WF_vars(MainStep)
  /\ \A p \in Ports : /\ WF_vars(RxVect(p))
                      /\ WF_vars(UdreVect(p))
                      /\ WF_vars(ShiftOut(p))

FairSpec == Spec /\ Fairness

-----------------------------------------------------------------------------
(* Properties *)

Locations == {"idle", "peekRead", "peekReturn", "getcRead",
              "getcTake", "getcAdvance",
              "putcWait", "putcStore", "putcPublish", "putcAdvance",
              "flushFifo", "flushUdr", "flushed"}

\* Every variable has its type; in particular a count never passes N, although
\* uart_putc tests it long before it increments it.
TypeOK ==
  /\ tx \in [Ports -> Fifo]
  /\ rx \in [Ports -> Fifo]
  /\ udrie \in [Ports -> BOOLEAN]
  /\ out \in [Ports -> Bytes \cup {Empty}]
  /\ in \in [Ports -> Bytes \cup {Empty}]
  /\ watch \in BOOLEAN
  /\ pc \in Locations
  /\ port \in Ports
  /\ d \in Bytes
  /\ i \in Index
  /\ got \in Bytes

At(p, loc) == pc = loc /\ port = p

\* The three fields of a ring agree: wi is ct slots after ri.  uart_getc moves
\* ri, and uart_putc moves wi, one step after it changed ct outside its
\* critical section, and between the two steps the ring is off by exactly one.
RingsAgree ==
  \A p \in Ports :
    /\ IF At(p, "getcAdvance")
       THEN rx[p].wi = (Next1(rx[p].ri) + rx[p].ct) % N
       ELSE rx[p].wi = (rx[p].ri + rx[p].ct) % N
    /\ IF At(p, "putcAdvance")
       THEN Next1(tx[p].wi) = (tx[p].ri + tx[p].ct) % N
       ELSE tx[p].wi = (tx[p].ri + tx[p].ct) % N

\* The byte a reader took from its slot is still the oldest one when it acts on
\* it: no byte that arrives meanwhile is stored over it.
ReadIsOldest ==
  \A p \in Ports :
    /\ At(p, "peekRead") \/ At(p, "getcRead") => rx[p].ct > 0
    /\ At(p, "peekReturn") \/ At(p, "getcTake") =>
         /\ rx[p].ct > 0
         /\ i = rx[p].ri
         /\ d = rx[p].buff[i]

\* The transmitter never stalls: while bytes wait, the interrupt that sends
\* them is on, whatever order uart_putc and uart_udre_vect wrote UCSRB in.
NoStall == \A p \in Ports : tx[p].ct > 0 => udrie[p]

\* The bytes of a ring, oldest first, when the oldest is at slot r.
Contents(f, r) == [k \in 1 .. f.ct |-> f.buff[(r + k - 1) % N]]

txBar == [p \in Ports |-> Contents(tx[p], tx[p].ri)]
rxBar == [p \in Ports |->
            Contents(rx[p], IF At(p, "getcAdvance") THEN Next1(rx[p].ri)
                                                    ELSE rx[p].ri)]

Queues == INSTANCE ByteQueues WITH txq <- txBar, rxq <- rxBar

\* The rings implement first-in first-out queues that lose a byte only when N
\* bytes are waiting, with handlers running between any two accesses.
ImplementsQueues == Queues!Spec

\* ... and no queued output is stranded, so that uart_putc and uart_flush, which
\* busy-wait on what the transmit handler does, always return.
OutputDrains ==
  /\ Queues!FairSpec
  /\ pc = "putcWait" ~> pc = "idle"
  /\ pc = "flushFifo" ~> pc = "flushed"
-----------------------------------------------------------------------------
(* The inductive invariant behind RingsAgree, ReadIsOldest and NoStall: what *)
(* a routine of the main program knows between its steps.                    *)

\* uart_putc found room, and no handler takes it away.
RoomForPut ==
  \A p \in Ports :
    At(p, "putcStore") \/ At(p, "putcPublish") => tx[p].ct < N

\* The index a routine remembers is the one still in the ring.
LocalsAgree ==
  \A p \in Ports :
    /\ At(p, "putcPublish") => i = tx[p].wi /\ d = tx[p].buff[i]
    /\ At(p, "putcAdvance") => i = tx[p].wi
    /\ At(p, "getcAdvance") => i = rx[p].ri

\* Once uart_flush has seen the buffers empty they stay empty until it returns.
FlushedIsEmpty ==
  pc \in {"flushUdr", "flushed"} => \A p \in Ports : tx[p].ct = 0

Inv ==
  /\ TypeOK
  /\ RingsAgree
  /\ ReadIsOldest
  /\ NoStall
  /\ RoomForPut
  /\ LocalsAgree
  /\ FlushedIsEmpty
=============================================================================
