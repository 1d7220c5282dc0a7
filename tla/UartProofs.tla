----------------------------- MODULE UartProofs -----------------------------
(***************************************************************************)
(* Proofs about Uart, for every number of ports, ring size and byte set:   *)
(* the rings stay consistent with a handler running between any two steps  *)
(* of the main program, the transmitter never stalls, and the rings        *)
(* implement the queues of ByteQueues, which the emulations see as         *)
(* SerialLines has them.                                                   *)
(***************************************************************************)
EXTENDS Uart, TLAPS

\* Arithmetic of ring indices: c slots after r, for every slot and count.
LEMMA RingArithmetic ==
  ASSUME NEW r \in Index
  PROVE  /\ Next1(r) = IF r = N - 1 THEN 0 ELSE r + 1
         /\ \A c \in 0 .. N :
              (r + c) % N = IF r + c < N THEN r + c ELSE r + c - N
<1>1. \A k \in 0 .. N - 1 : k % N = k
  BY RingAssumption
<1>2. \A k \in N .. 2 * N - 1 : k % N = k - N
  BY RingAssumption
<1>3. \A c \in 0 .. N :
        (r + c) % N = IF r + c < N THEN r + c ELSE r + c - N
  <2> TAKE c \in 0 .. N
  <2>1. CASE r + c < N
    BY <2>1, <1>1, RingAssumption DEF Index
  <2>2. CASE r + c >= N
    BY <2>2, <1>2, RingAssumption DEF Index
  <2> QED
    BY <2>1, <2>2, RingAssumption DEF Index
<1> QED
  BY <1>3, RingAssumption DEF Index, Next1

\* Stepping around a ring: one step after c slots, c slots after one step, and
\* no return to the first slot before N steps.
LEMMA RingSteps ==
  ASSUME NEW r \in Index, NEW c \in 0 .. N - 1
  PROVE  /\ (r + c) % N \in Index
         /\ Next1((r + c) % N) = (r + (c + 1)) % N
         /\ (Next1(r) + c) % N = (r + (c + 1)) % N
         /\ c > 0 => (r + c) % N # r
<1>1. /\ (r + c) % N = IF r + c < N THEN r + c ELSE r + c - N
      /\ (r + (c + 1)) % N = IF r + (c + 1) < N THEN r + (c + 1)
                                               ELSE r + (c + 1) - N
      /\ Next1(r) = IF r = N - 1 THEN 0 ELSE r + 1
  <2>1. c \in 0 .. N /\ c + 1 \in 0 .. N
    BY RingAssumption
  <2> QED
    BY <2>1, RingArithmetic
<1>2. (r + c) % N \in Index /\ Next1(r) \in Index
  BY <1>1, RingAssumption DEF Index
<1>3. Next1((r + c) % N) = IF (r + c) % N = N - 1 THEN 0 ELSE ((r + c) % N) + 1
  BY <1>2, RingArithmetic
<1>4. (Next1(r) + c) % N = IF Next1(r) + c < N THEN Next1(r) + c
                                              ELSE Next1(r) + c - N
  BY <1>2, RingArithmetic, RingAssumption
<1> QED
  BY <1>1, <1>2, <1>3, <1>4, RingAssumption DEF Index

\* The index helper stays inside the ring.
LEMMA NextInRing ==
  ASSUME NEW r \in Index
  PROVE  Next1(r) \in Index
BY RingArithmetic, RingAssumption DEF Index

\* The initial state satisfies the inductive invariant.
LEMMA InitInv == Init => Inv
<1> SUFFICES ASSUME Init PROVE Inv
  OBVIOUS
<1>1. 0 \in Index /\ 0 \in 0 .. N
  BY RingAssumption DEF Index
<1>2. EmptyFifo \in Fifo
  BY <1>1, ByteAssumption DEF EmptyFifo, Fifo
<1>3. \A p \in Ports : /\ tx[p].ct = 0 /\ tx[p].ri = 0 /\ tx[p].wi = 0
                       /\ rx[p].ct = 0 /\ rx[p].ri = 0 /\ rx[p].wi = 0
  BY DEF Init, EmptyFifo
<1>4. TypeOK
  BY <1>1, <1>2, ByteAssumption DEF Init, TypeOK, Locations
<1>5. (0 + 0) % N = 0
  BY <1>1, RingArithmetic, RingAssumption DEF Index
<1>6. RingsAgree
  BY <1>3, <1>5 DEF Init, RingsAgree, At
<1> QED
  BY <1>3, <1>4, <1>6 DEF Init, Inv, ReadIsOldest, NoStall, RoomForPut,
     LocalsAgree, FlushedIsEmpty, At

\* A push keeps a buffer well formed, keeps its indices in step and leaves the
\* oldest slot alone.
LEMMA PushRing ==
  ASSUME NEW f \in Fifo, f.ct < N, NEW b \in Bytes
  PROVE  /\ Pushed(f, b) \in Fifo
         /\ Pushed(f, b).ct = f.ct + 1
         /\ Pushed(f, b).ri = f.ri
         /\ f.wi = (f.ri + f.ct) % N =>
              Pushed(f, b).wi = (f.ri + (f.ct + 1)) % N
         /\ f.wi = (Next1(f.ri) + f.ct) % N =>
              Pushed(f, b).wi = (Next1(f.ri) + (f.ct + 1)) % N
         /\ f.wi = (f.ri + f.ct) % N /\ f.ct > 0 =>
              Pushed(f, b).buff[f.ri] = f.buff[f.ri]
<1>1. /\ f.ri \in Index /\ f.wi \in Index /\ Next1(f.ri) \in Index
      /\ f.ct \in 0 .. N /\ f.ct + 1 \in 0 .. N
      /\ f.buff \in [Index -> Bytes]
  BY NextInRing, RingAssumption DEF Fifo
<1>2. Next1(f.wi) \in Index
  BY <1>1, NextInRing
<1>3. f.ct \in 0 .. N - 1
  BY <1>1, RingAssumption
<1>4. \A r \in Index : Next1((r + f.ct) % N) = (r + (f.ct + 1)) % N
  BY <1>3, RingSteps
<1>5. f.wi = (f.ri + f.ct) % N /\ f.ct > 0 => f.wi # f.ri
  BY <1>1, <1>3, RingSteps
<1> QED
  BY <1>1, <1>2, <1>4, <1>5 DEF Pushed, Fifo

\* A pop keeps a buffer well formed and its indices in step.
LEMMA PopRing ==
  ASSUME NEW f \in Fifo, f.ct > 0
  PROVE  /\ Popped(f) \in Fifo
         /\ Popped(f).ct = f.ct - 1
         /\ (Next1(f.ri) + (f.ct - 1)) % N = (f.ri + f.ct) % N
<1>1. /\ f.ri \in Index /\ f.wi \in Index /\ Next1(f.ri) \in Index
      /\ f.ct \in 0 .. N /\ f.ct - 1 \in 0 .. N
      /\ f.buff \in [Index -> Bytes]
  BY NextInRing, RingAssumption DEF Fifo
<1>2. f.ct - 1 \in 0 .. N - 1 /\ (f.ct - 1) + 1 = f.ct
  BY <1>1, RingAssumption
<1>3. (Next1(f.ri) + (f.ct - 1)) % N = (f.ri + ((f.ct - 1) + 1)) % N
  BY <1>1, <1>2, RingSteps
<1> QED
  BY <1>1, <1>2, <1>3 DEF Popped, Fifo

\* One step of the receive handler.
LEMMA RxVectInv ==
  ASSUME Inv, NEW q \in Ports, RxVect(q)
  PROVE  Inv'
<1> USE DEF Inv, At
<1>1. CASE rx[q].ct >= N
  <2>1. UNCHANGED rx
    <3>1. ~ HasRoom(rx[q])
      BY <1>1, RingAssumption DEF HasRoom, TypeOK, Fifo
    <3>2. rx' = [rx EXCEPT ![q] = rx[q]]
      BY <3>1 DEF RxVect, Received
    <3> QED
      BY <3>2 DEF TypeOK
  <2> QED
    BY <2>1 DEF RxVect, TypeOK, RingsAgree, ReadIsOldest, NoStall, RoomForPut,
       LocalsAgree, FlushedIsEmpty
<1>2. CASE rx[q].ct < N
  <2> DEFINE g == Pushed(rx[q], in[q])
  <2>1. rx[q] \in Fifo /\ in[q] \in Bytes /\ rx[q].ct \in 0 .. N
    BY DEF RxVect, TypeOK, Fifo
  <2>2. /\ \A p \in Ports : rx'[p] = IF p = q THEN g ELSE rx[p]
        /\ rx' = [rx EXCEPT ![q] = g]
    BY <1>2 DEF RxVect, Received, HasRoom, TypeOK
  <2>3. /\ g \in Fifo /\ g.ct = rx[q].ct + 1 /\ g.ri = rx[q].ri
        /\ rx[q].wi = (rx[q].ri + rx[q].ct) % N =>
             g.wi = (g.ri + g.ct) % N
        /\ rx[q].wi = (Next1(rx[q].ri) + rx[q].ct) % N =>
             g.wi = (Next1(g.ri) + g.ct) % N
        /\ rx[q].wi = (rx[q].ri + rx[q].ct) % N /\ rx[q].ct > 0 =>
             g.buff[g.ri] = rx[q].buff[rx[q].ri]
    BY <1>2, <2>1, PushRing
  <2> HIDE DEF g
  <2>4. UNCHANGED <<tx, udrie, out, pc, port, d, i, got>>
    BY DEF RxVect
  <2>5. TypeOK'
    BY <2>2, <2>3, <2>4 DEF RxVect, TypeOK
  <2>6. RingsAgree'
    BY <2>2, <2>3, <2>4 DEF RingsAgree
  <2>7. ReadIsOldest'
    BY <2>1, <2>2, <2>3, <2>4 DEF ReadIsOldest, RingsAgree
  <2>8. LocalsAgree'
    BY <2>2, <2>3, <2>4 DEF LocalsAgree
  <2> QED
    BY <2>4, <2>5, <2>6, <2>7, <2>8 DEF NoStall, RoomForPut, FlushedIsEmpty
<1> QED
  BY <1>1, <1>2, RingAssumption DEF TypeOK, Fifo

\* One step of the transmit handler.
LEMMA UdreVectInv ==
  ASSUME Inv, NEW q \in Ports, UdreVect(q)
  PROVE  Inv'
<1> USE DEF Inv, At
<1>1. CASE tx[q].ct = 0
  <2>1. UNCHANGED <<tx, rx, in, watch, pc, port, d, i, got>>
    BY <1>1 DEF UdreVect
  <2>2. out' = out /\ udrie' = [udrie EXCEPT ![q] = FALSE]
    BY <1>1 DEF UdreVect
  <2>3. TypeOK'
    BY <2>1, <2>2 DEF TypeOK
  <2>4. NoStall'
    BY <1>1, <2>1, <2>2 DEF NoStall, TypeOK
  <2> QED
    BY <2>1, <2>3, <2>4 DEF RingsAgree, ReadIsOldest, RoomForPut, LocalsAgree,
       FlushedIsEmpty
<1>2. CASE tx[q].ct > 0
  <2> DEFINE g == Popped(tx[q])
  <2>1. tx[q] \in Fifo /\ tx[q].ct \in 0 .. N /\ tx[q].ri \in Index
        /\ tx[q].buff[tx[q].ri] \in Bytes
    BY DEF TypeOK, Fifo
  <2>2. /\ tx' = [tx EXCEPT ![q] = g]
        /\ \A p \in Ports : tx'[p] = IF p = q THEN g ELSE tx[p]
        /\ out' = [out EXCEPT ![q] = tx[q].buff[tx[q].ri]]
        /\ udrie' = [udrie EXCEPT ![q] = (tx[q].ct # 1)]
    BY <1>2, <2>1 DEF UdreVect, More, TypeOK
  <2>3. /\ g \in Fifo /\ g.ct = tx[q].ct - 1
        /\ (g.ri + g.ct) % N = (tx[q].ri + tx[q].ct) % N
        /\ g.wi = tx[q].wi /\ g.buff = tx[q].buff
    BY <1>2, <2>1, PopRing DEF Popped
  <2> HIDE DEF g
  <2>4. UNCHANGED <<rx, in, watch, pc, port, d, i, got>>
    BY DEF UdreVect
  <2>5. TypeOK'
    BY <2>1, <2>2, <2>3, <2>4 DEF TypeOK
  <2>6. RingsAgree'
    BY <2>2, <2>3, <2>4 DEF RingsAgree
  <2>7. NoStall'
    BY <2>1, <2>2, <2>3, <2>4 DEF NoStall, TypeOK
  <2>8. RoomForPut'
    BY <2>1, <2>2, <2>3, <2>4, RingAssumption DEF RoomForPut
  <2>9. FlushedIsEmpty'
    BY <1>2, <2>1, <2>2, <2>4 DEF FlushedIsEmpty
  <2> QED
    BY <2>2, <2>3, <2>4, <2>5, <2>6, <2>7, <2>8, <2>9
       DEF ReadIsOldest, LocalsAgree
<1> QED
  BY <1>1, <1>2, RingAssumption DEF TypeOK, Fifo

\* The steps of uart_getc and uart_peek.
LEMMA GetcInv ==
  ASSUME Inv,
         \/ \E p \in Ports : TestRx(p, "peekRead") \/ TestRx(p, "getcRead")
         \/ PeekRead \/ PeekReturn \/ GetcRead \/ GetcTake \/ GetcAdvance
  PROVE  Inv'
<1> USE DEF Inv, At, Goto, Return
<1>0. /\ port \in Ports /\ rx[port] \in Fifo
      /\ rx[port].ct \in 0 .. N /\ rx[port].ri \in Index
      /\ rx[port].buff \in [Index -> Bytes]
      /\ rx[port].buff[rx[port].ri] \in Bytes
  BY DEF TypeOK, Fifo
<1>1. ASSUME NEW p \in Ports, TestRx(p, "peekRead") \/ TestRx(p, "getcRead")
      PROVE  Inv'
  <2>1. rx[p].ct > 0
    BY <1>1, RingAssumption DEF TestRx, TypeOK, Fifo
  <2> QED
    BY <1>1, <2>1 DEF TestRx, TypeOK, Locations, RingsAgree, ReadIsOldest,
       NoStall, RoomForPut, LocalsAgree, FlushedIsEmpty
<1>2. CASE PeekRead \/ GetcRead
  BY <1>0, <1>2 DEF PeekRead, GetcRead, ReadSlot, TypeOK, Locations, RingsAgree,
     ReadIsOldest, NoStall, RoomForPut, LocalsAgree, FlushedIsEmpty
<1>3. CASE PeekReturn
  BY <1>3, ByteAssumption, RingAssumption DEF PeekReturn, TypeOK, Locations,
     RingsAgree, ReadIsOldest, NoStall, RoomForPut, LocalsAgree, FlushedIsEmpty,
     Index
<1>4. CASE GetcTake
  <2> DEFINE g == [rx[port] EXCEPT !.ct = rx[port].ct - 1]
  <2>1. /\ rx' = [rx EXCEPT ![port] = g]
        /\ \A p \in Ports : rx'[p] = IF p = port THEN g ELSE rx[p]
    BY <1>0, <1>4 DEF GetcTake, TypeOK
  <2>2. rx[port].ct > 0 /\ i = rx[port].ri
    BY <1>0, <1>4 DEF GetcTake, ReadIsOldest
  <2>3. /\ g \in Fifo /\ g.ct = rx[port].ct - 1
        /\ g.ri = rx[port].ri /\ g.wi = rx[port].wi
    <3>1. rx[port].ct - 1 \in 0 .. N
      BY <1>0, <2>2, RingAssumption
    <3> QED
      BY <1>0, <3>1 DEF Fifo
  <2>4. (Next1(g.ri) + g.ct) % N = (rx[port].ri + rx[port].ct) % N
    BY <1>0, <2>2, <2>3, PopRing
  <2> HIDE DEF g
  <2>5. /\ pc = "getcTake" /\ pc' = "getcAdvance" /\ got' = d
        /\ UNCHANGED <<tx, udrie, out, in, watch, port, d, i>>
    BY <1>4 DEF GetcTake
  <2>6. RingsAgree'
    BY <2>1, <2>3, <2>4, <2>5 DEF RingsAgree
  <2> QED
    BY <2>1, <2>2, <2>3, <2>5, <2>6 DEF TypeOK, Locations, ReadIsOldest,
       NoStall, RoomForPut, LocalsAgree, FlushedIsEmpty
<1>5. CASE GetcAdvance
  <2> DEFINE g == [rx[port] EXCEPT !.ri = Next1(i)]
  <2>1. /\ rx' = [rx EXCEPT ![port] = g]
        /\ \A p \in Ports : rx'[p] = IF p = port THEN g ELSE rx[p]
    BY <1>0, <1>5 DEF GetcAdvance, TypeOK
  <2>2. i = rx[port].ri
    BY <1>0, <1>5 DEF GetcAdvance, LocalsAgree
  <2>3. /\ g \in Fifo /\ g.ct = rx[port].ct
        /\ g.ri = Next1(rx[port].ri) /\ g.wi = rx[port].wi
    BY <1>0, <2>2, NextInRing DEF Fifo
  <2> HIDE DEF g
  <2>4. /\ pc = "getcAdvance" /\ pc' = "idle" /\ d' = 0 /\ i' = 0
        /\ UNCHANGED <<tx, udrie, out, in, watch, port, got>>
    BY <1>5 DEF GetcAdvance
  <2>5. RingsAgree'
    BY <2>1, <2>3, <2>4 DEF RingsAgree
  <2>6. TypeOK'
    BY <2>1, <2>3, <2>4, ByteAssumption, RingAssumption
       DEF TypeOK, Locations, Index
  <2> QED
    BY <2>1, <2>3, <2>4, <2>5, <2>6 DEF ReadIsOldest, NoStall, RoomForPut,
       LocalsAgree, FlushedIsEmpty
<1> QED
  BY <1>1, <1>2, <1>3, <1>4, <1>5

\* The steps of uart_putc.
LEMMA PutcInv ==
  ASSUME Inv,
         \/ \E p \in Ports, b \in Bytes : PutcCall(p, b)
         \/ PutcWait \/ PutcStore \/ PutcPublish \/ PutcAdvance
  PROVE  Inv'
<1> USE DEF Inv, At, Goto, Return
<1>0. /\ port \in Ports /\ tx[port] \in Fifo
      /\ tx[port].ct \in 0 .. N /\ tx[port].wi \in Index
      /\ tx[port].ri \in Index
      /\ tx[port].buff \in [Index -> Bytes]
  BY DEF TypeOK, Fifo
<1>1. CASE \E p \in Ports, b \in Bytes : PutcCall(p, b)
  BY <1>1 DEF PutcCall, TypeOK, Locations, RingsAgree, ReadIsOldest, NoStall,
     RoomForPut, LocalsAgree, FlushedIsEmpty
<1>2. CASE PutcWait
  BY <1>2 DEF PutcWait, HasRoom, TypeOK, Locations, RingsAgree, ReadIsOldest, NoStall,
     RoomForPut, LocalsAgree, FlushedIsEmpty
<1>3. CASE PutcStore
  <2> DEFINE g == [tx[port] EXCEPT !.buff[tx[port].wi] = d]
  <2>1. /\ tx' = [tx EXCEPT ![port] = g]
        /\ \A p \in Ports : tx'[p] = IF p = port THEN g ELSE tx[p]
    BY <1>0, <1>3 DEF PutcStore, TypeOK
  <2>2. /\ g \in Fifo /\ g.ct = tx[port].ct /\ g.ri = tx[port].ri
        /\ g.wi = tx[port].wi /\ g.buff[g.wi] = d
    BY <1>0 DEF TypeOK, Fifo
  <2> HIDE DEF g
  <2>3. /\ pc = "putcStore" /\ pc' = "putcPublish" /\ i' = tx[port].wi
        /\ UNCHANGED <<rx, udrie, out, in, watch, port, d, got>>
    BY <1>3 DEF PutcStore
  <2> QED
    BY <1>0, <2>1, <2>2, <2>3 DEF TypeOK, Locations, RingsAgree, ReadIsOldest,
       NoStall, RoomForPut, LocalsAgree, FlushedIsEmpty
<1>4. CASE PutcPublish
  <2> DEFINE g == [tx[port] EXCEPT !.ct = tx[port].ct + 1]
  <2>1. /\ tx' = [tx EXCEPT ![port] = g]
        /\ \A p \in Ports : tx'[p] = IF p = port THEN g ELSE tx[p]
        /\ udrie' = [udrie EXCEPT ![port] = TRUE]
    BY <1>0, <1>4 DEF PutcPublish, TypeOK
  <2>2. tx[port].ct \in 0 .. N - 1 /\ tx[port].ct + 1 \in 0 .. N
    BY <1>0, <1>4, RingAssumption DEF PutcPublish, RoomForPut
  <2>3. /\ g \in Fifo /\ g.ct = tx[port].ct + 1 /\ g.ri = tx[port].ri
        /\ g.wi = tx[port].wi
    BY <1>0, <2>2 DEF Fifo
  <2>4. tx[port].wi = (tx[port].ri + tx[port].ct) % N =>
          Next1(g.wi) = (g.ri + g.ct) % N
    BY <1>0, <2>2, <2>3, RingSteps
  <2> HIDE DEF g
  <2>5. /\ pc = "putcPublish" /\ pc' = "putcAdvance"
        /\ UNCHANGED <<rx, out, in, watch, port, d, i, got>>
    BY <1>4 DEF PutcPublish
  <2>6. RingsAgree'
    BY <1>0, <2>1, <2>3, <2>4, <2>5 DEF RingsAgree
  <2> QED
    BY <1>0, <2>1, <2>3, <2>5, <2>6 DEF TypeOK, Locations, ReadIsOldest,
       NoStall, RoomForPut, LocalsAgree, FlushedIsEmpty
<1>5. CASE PutcAdvance
  <2> DEFINE g == [tx[port] EXCEPT !.wi = Next1(i)]
  <2>1. /\ tx' = [tx EXCEPT ![port] = g]
        /\ \A p \in Ports : tx'[p] = IF p = port THEN g ELSE tx[p]
    BY <1>0, <1>5 DEF PutcAdvance, TypeOK
  <2>2. i = tx[port].wi
    BY <1>0, <1>5 DEF PutcAdvance, LocalsAgree
  <2>3. /\ g \in Fifo /\ g.ct = tx[port].ct /\ g.ri = tx[port].ri
        /\ g.wi = Next1(tx[port].wi)
    BY <1>0, <2>2, NextInRing DEF Fifo
  <2> HIDE DEF g
  <2>4. /\ pc = "putcAdvance" /\ pc' = "idle" /\ d' = 0 /\ i' = 0
        /\ UNCHANGED <<rx, udrie, out, in, watch, port, got>>
    BY <1>5 DEF PutcAdvance
  <2>5. RingsAgree'
    BY <2>1, <2>3, <2>4 DEF RingsAgree
  <2>6. TypeOK'
    BY <2>1, <2>3, <2>4, ByteAssumption, RingAssumption
       DEF TypeOK, Locations, Index
  <2> QED
    BY <2>1, <2>3, <2>4, <2>5, <2>6 DEF ReadIsOldest, NoStall, RoomForPut,
       LocalsAgree, FlushedIsEmpty
<1> QED
  BY <1>1, <1>2, <1>3, <1>4, <1>5

\* uart_flush, uart_init, the clearing of the halt-key flag, and the line.
LEMMA OtherInv ==
  ASSUME Inv,
         \/ FlushCall \/ FlushFifo \/ FlushUdr \/ FlushReturn \/ ClearWatch
         \/ \E p \in Ports : UartInit(p) \/ ShiftOut(p)
         \/ \E p \in Ports, b \in Bytes : Arrive(p, b)
  PROVE  Inv'
<1> USE DEF Inv, At, Goto
<1>1. CASE FlushCall \/ FlushFifo \/ FlushUdr \/ FlushReturn \/ ClearWatch
  BY <1>1 DEF FlushCall, FlushFifo, FlushUdr, FlushReturn, ClearWatch, TypeOK,
     Locations, RingsAgree, ReadIsOldest, NoStall, RoomForPut, LocalsAgree,
     FlushedIsEmpty
<1>2. ASSUME NEW p \in Ports, UartInit(p)
      PROVE  Inv'
  <2>1. /\ Cleared(rx[p]) \in Fifo /\ Cleared(tx[p]) \in Fifo
    <3>1. 0 \in Index /\ 0 \in 0 .. N
      BY RingAssumption DEF Index
    <3> QED
      BY <3>1 DEF TypeOK, Fifo, Cleared
  <2>2. (0 + 0) % N = 0
    BY RingArithmetic, RingAssumption DEF Index
  <2>3. /\ \A q \in Ports : rx'[q] = IF q = p THEN Cleared(rx[p]) ELSE rx[q]
        /\ \A q \in Ports : tx'[q] = IF q = p THEN Cleared(tx[p]) ELSE tx[q]
        /\ udrie' = [udrie EXCEPT ![p] = FALSE]
        /\ pc = "flushed" /\ pc' = "idle"
        /\ UNCHANGED <<out, in, watch, port, d, i, got>>
    BY <1>2 DEF UartInit, TypeOK
  <2>4. TypeOK'
    BY <1>2, <2>1, <2>3 DEF UartInit, TypeOK, Locations
  <2>5. RingsAgree'
    BY <2>2, <2>3 DEF RingsAgree, Cleared
  <2>6. NoStall'
    BY <2>3 DEF NoStall, Cleared, TypeOK
  <2> QED
    BY <2>3, <2>4, <2>5, <2>6 DEF ReadIsOldest, RoomForPut, LocalsAgree,
       FlushedIsEmpty
<1>3. CASE \E p \in Ports : ShiftOut(p)
  BY <1>3 DEF ShiftOut, TypeOK, RingsAgree, ReadIsOldest, NoStall, RoomForPut,
     LocalsAgree, FlushedIsEmpty
<1>4. CASE \E p \in Ports, b \in Bytes : Arrive(p, b)
  BY <1>4 DEF Arrive, TypeOK, RingsAgree, ReadIsOldest, NoStall, RoomForPut,
     LocalsAgree, FlushedIsEmpty
<1> QED
  BY <1>1, <1>2, <1>3, <1>4

\* Every step of the program, a handler or the line preserves the invariant.
LEMMA NextInv == Inv /\ [Next]_vars => Inv'
<1> SUFFICES ASSUME Inv, [Next]_vars PROVE Inv'
  OBVIOUS
<1>1. CASE UNCHANGED vars
  BY <1>1 DEF vars, Inv, TypeOK, RingsAgree, ReadIsOldest, NoStall, RoomForPut,
     LocalsAgree, FlushedIsEmpty, At
<1>2. CASE Next
  BY <1>2, RxVectInv, UdreVectInv, GetcInv, PutcInv, OtherInv DEF Next, MainStep
<1> QED
  BY <1>1, <1>2

\* The inductive invariant holds throughout.
THEOREM Invariance == Spec => []Inv
<1>1. Init => Inv
  BY InitInv
<1>2. Inv /\ [Next]_vars => Inv'
  BY NextInv
<1> QED
  BY <1>1, <1>2, PTL DEF Spec

\* Every variable keeps its type: counts stay within the ring and indices
\* inside it, on every port and for every ring size uart.c could be built with.
THEOREM TypeCorrect == Spec => []TypeOK
<1>1. Inv => TypeOK
  BY DEF Inv
<1> QED
  BY <1>1, Invariance, PTL

\* wi, ri and ct of a ring agree whenever a handler or the program looks.
THEOREM RingsConsistent == Spec => []RingsAgree
<1>1. Inv => RingsAgree
  BY DEF Inv
<1> QED
  BY <1>1, Invariance, PTL

\* What uart_getc or uart_peek has read is the oldest byte until it returns.
THEOREM ReadsAreOldest == Spec => []ReadIsOldest
<1>1. Inv => ReadIsOldest
  BY DEF Inv
<1> QED
  BY <1>1, Invariance, PTL

\* The transmit interrupt is on whenever a byte waits.
THEOREM TransmitterNeverStalls == Spec => []NoStall
<1>1. Inv => NoStall
  BY DEF Inv
<1> QED
  BY <1>1, Invariance, PTL

-----------------------------------------------------------------------------
(* The rings implement the queues. *)

\* Slots that differ in their distance from r, by less than N, are different.
LEMMA RingDistinct ==
  ASSUME NEW r \in Index, NEW j \in 0 .. N - 1, NEW k \in 0 .. N - 1, j # k
  PROVE  (r + j) % N # (r + k) % N
<1>1. /\ (r + j) % N = IF r + j < N THEN r + j ELSE r + j - N
      /\ (r + k) % N = IF r + k < N THEN r + k ELSE r + k - N
  BY RingArithmetic, RingAssumption
<1> QED
  BY <1>1, RingAssumption DEF Index

\* The bytes of a ring form a sequence of ct bytes.
LEMMA ContentsSeq ==
  ASSUME NEW f \in Fifo, NEW r \in Index
  PROVE  /\ Contents(f, r) \in Seq(Bytes)
         /\ Len(Contents(f, r)) = f.ct
         /\ \A k \in 1 .. f.ct : Contents(f, r)[k] = f.buff[(r + (k - 1)) % N]
<1>1. f.ct \in Nat /\ f.ct \in 0 .. N /\ f.buff \in [Index -> Bytes]
  BY RingAssumption DEF Fifo
<1>2. \A k \in 1 .. f.ct : r + k - 1 = r + (k - 1) /\ k - 1 \in 0 .. N - 1
  BY <1>1, RingAssumption DEF Index
<1>3. \A k \in 1 .. f.ct : f.buff[(r + k - 1) % N] \in Bytes
  BY <1>1, <1>2, RingSteps
<1>4. Contents(f, r) \in [1 .. f.ct -> Bytes]
  BY <1>3 DEF Contents
<1>5. \A k \in 1 .. f.ct : Contents(f, r)[k] = f.buff[(r + (k - 1)) % N]
  BY <1>2 DEF Contents
<1> DEFINE s == Contents(f, r)
<1> HIDE DEF s
<1>6. s \in Seq(Bytes) /\ Len(s) = f.ct
  BY <1>1, <1>4 DEF s
<1> QED
  BY <1>5, <1>6 DEF s

\* Equal counts and equal occupied slots make equal contents.
LEMMA SameContents ==
  ASSUME NEW f \in Fifo, NEW g \in Fifo, NEW r \in Index, g.ct = f.ct,
         \A k \in 0 .. f.ct - 1 : g.buff[(r + k) % N] = f.buff[(r + k) % N]
  PROVE  Contents(g, r) = Contents(f, r)
<1>1. f.ct \in 0 .. N
  BY DEF Fifo
<1>2. \A k \in 1 .. f.ct : k - 1 \in 0 .. f.ct - 1 /\ r + k - 1 = r + (k - 1)
  BY <1>1, RingAssumption DEF Index
<1> QED
  BY <1>2 DEF Contents

\* One more occupied slot, the others unchanged, appends that slot's byte.
LEMMA GrowContents ==
  ASSUME NEW f \in Fifo, NEW g \in Fifo, NEW r \in Index, g.ct = f.ct + 1,
         \A k \in 0 .. f.ct - 1 : g.buff[(r + k) % N] = f.buff[(r + k) % N]
  PROVE  Contents(g, r) = Append(Contents(f, r), g.buff[(r + f.ct) % N])
<1> DEFINE s == Contents(f, r)
           t == Contents(g, r)
           b == g.buff[(r + f.ct) % N]
<1>1. /\ s \in Seq(Bytes) /\ Len(s) = f.ct
      /\ \A k \in 1 .. f.ct : s[k] = f.buff[(r + (k - 1)) % N]
  BY ContentsSeq
<1>2. /\ t \in Seq(Bytes) /\ Len(t) = f.ct + 1
      /\ \A k \in 1 .. f.ct + 1 : t[k] = g.buff[(r + (k - 1)) % N]
  BY ContentsSeq
<1>3. f.ct \in Nat
  BY RingAssumption DEF Fifo
<1>4. \A k \in 1 .. f.ct : t[k] = s[k]
  <2> TAKE k \in 1 .. f.ct
  <2>1. k - 1 \in 0 .. f.ct - 1 /\ k \in 1 .. f.ct + 1
    BY <1>3
  <2> QED
    BY <1>1, <1>2, <2>1
<1>5. t[f.ct + 1] = b
  <2>1. f.ct + 1 \in 1 .. f.ct + 1 /\ (f.ct + 1) - 1 = f.ct
    BY <1>3
  <2> QED
    BY <1>2, <2>1
<1> HIDE DEF s, t, b
<1> QED
  BY <1>1, <1>2, <1>3, <1>4, <1>5 DEF s, t, b

\* One occupied slot less at the front is the tail; the front slot is the head.
LEMMA ShrinkContents ==
  ASSUME NEW f \in Fifo, NEW g \in Fifo, NEW r \in Index, f.ct > 0,
         g.ct = f.ct - 1, g.buff = f.buff
  PROVE  /\ Contents(f, r) # <<>>
         /\ Head(Contents(f, r)) = f.buff[r]
         /\ Contents(g, Next1(r)) = Tail(Contents(f, r))
<1> DEFINE s == Contents(f, r)
           t == Contents(g, Next1(r))
<1>0. f.ct \in Nat /\ f.ct \in 0 .. N /\ Next1(r) \in Index
  BY NextInRing, RingAssumption DEF Fifo
<1>1. /\ s \in Seq(Bytes) /\ Len(s) = f.ct
      /\ \A k \in 1 .. f.ct : s[k] = f.buff[(r + (k - 1)) % N]
  BY ContentsSeq
<1>2. /\ t \in Seq(Bytes) /\ Len(t) = f.ct - 1
      /\ \A k \in 1 .. f.ct - 1 : t[k] = f.buff[(Next1(r) + (k - 1)) % N]
  BY <1>0, ContentsSeq
<1>3. \A k \in 1 .. f.ct - 1 : t[k] = s[k + 1]
  <2> TAKE k \in 1 .. f.ct - 1
  <2>1. k - 1 \in 0 .. N - 1 /\ k + 1 \in 1 .. f.ct
        /\ (k + 1) - 1 = (k - 1) + 1
    BY <1>0, RingAssumption
  <2>2. (Next1(r) + (k - 1)) % N = (r + ((k - 1) + 1)) % N
    BY <2>1, RingSteps
  <2> QED
    BY <1>1, <1>2, <2>1, <2>2
<1>4. s[1] = f.buff[r]
  <2>1. (r + (1 - 1)) % N = r
    BY RingArithmetic, RingAssumption DEF Index
  <2> QED
    BY <1>0, <1>1, <2>1
<1> HIDE DEF s, t
<1>5. s # <<>> /\ Head(s) = s[1] /\ Tail(s) \in Seq(Bytes)
      /\ Len(Tail(s)) = f.ct - 1
      /\ \A k \in 1 .. f.ct - 1 : Tail(s)[k] = s[k + 1]
  BY <1>0, <1>1
<1>6. t = Tail(s)
  BY <1>0, <1>2, <1>3, <1>5
<1> QED
  BY <1>4, <1>5, <1>6 DEF s, t

\* The slot at which the queue of a receive ring begins.
Start(p) == IF At(p, "getcAdvance") THEN Next1(rx[p].ri) ELSE rx[p].ri

\* What the invariant says of the mapped queues.
LEMMA Bars ==
  ASSUME Inv
  PROVE  /\ rxBar = [p \in Ports |-> Contents(rx[p], Start(p))]
         /\ \A p \in Ports :
              /\ tx[p] \in Fifo /\ rx[p] \in Fifo
              /\ tx[p].ct \in 0 .. N /\ rx[p].ct \in 0 .. N
              /\ tx[p].ri \in Index /\ rx[p].ri \in Index /\ Start(p) \in Index
              /\ Len(txBar[p]) = tx[p].ct /\ Len(rxBar[p]) = rx[p].ct
              /\ ~ At(p, "putcAdvance") => tx[p].wi = (tx[p].ri + tx[p].ct) % N
              /\ rx[p].wi = (Start(p) + rx[p].ct) % N
<1>1. rxBar = [p \in Ports |-> Contents(rx[p], Start(p))]
  BY DEF rxBar, Start
<1>2. \A p \in Ports : /\ tx[p] \in Fifo /\ rx[p] \in Fifo
                       /\ tx[p].ct \in 0 .. N /\ rx[p].ct \in 0 .. N
                       /\ tx[p].ri \in Index /\ rx[p].ri \in Index
  BY DEF Inv, TypeOK, Fifo
<1>3. \A p \in Ports : Start(p) \in Index
  BY <1>2, NextInRing DEF Start
<1>4. \A p \in Ports : Len(txBar[p]) = tx[p].ct /\ Len(rxBar[p]) = rx[p].ct
  BY <1>1, <1>2, <1>3, ContentsSeq DEF txBar
<1> QED
  BY <1>1, <1>2, <1>3, <1>4 DEF Inv, RingsAgree, Start

\* The initial state maps to an initial state of the queues.
LEMMA InitRefines == Init => Queues!Init
<1> SUFFICES ASSUME Init PROVE Queues!Init
  OBVIOUS
<1>1. \A p \in Ports : EmptyFifo.ct = 0 /\ tx[p] = EmptyFifo /\ rx[p] = EmptyFifo
  BY DEF Init, EmptyFifo
<1>2. \A p \in Ports, r \in Nat : Contents(EmptyFifo, r) = <<>>
  BY DEF Contents, EmptyFifo
<1>3. \A p \in Ports : EmptyFifo.ri = 0 /\ ~ At(p, "getcAdvance")
  BY DEF Init, EmptyFifo, At
<1>4. txBar = [p \in Ports |-> <<>>]
  BY <1>1, <1>2, <1>3 DEF txBar
<1>5. rxBar = [p \in Ports |-> <<>>]
  BY <1>1, <1>2, <1>3 DEF rxBar
<1> QED
  BY <1>4, <1>5, ByteAssumption DEF Init, Queues!Init

\* The receive handler queues the byte, or drops it when N are waiting.
LEMMA RxVectRefines ==
  ASSUME Inv, NEW q \in Ports, RxVect(q)
  PROVE  Queues!Receive(q)
<1>1. /\ in[q] # Empty /\ in[q] \in Bytes
      /\ in' = [in EXCEPT ![q] = Empty]
      /\ UNCHANGED <<tx, out, pc, port, got>>
  BY DEF RxVect, Inv, TypeOK
<1>2. txBar' = txBar
  BY <1>1 DEF txBar
<1>3. CASE rx[q].ct < N
  <2> DEFINE f == rx[q]
             g == Pushed(rx[q], in[q])
             s == Start(q)
  <2>1. f \in Fifo /\ f.ct < N /\ s \in Index /\ f.ct \in 0 .. N
        /\ f.wi = (s + f.ct) % N /\ f.wi \in Index
        /\ f.buff \in [Index -> Bytes] /\ Len(rxBar[q]) = f.ct
    BY <1>3, Bars DEF Fifo
  <2>2. g \in Fifo /\ g.ct = f.ct + 1 /\ g.buff = [f.buff EXCEPT ![f.wi] = in[q]]
        /\ g.ri = f.ri
    BY <1>1, <2>1, PushRing DEF Pushed
  <2>3. \A k \in 0 .. f.ct - 1 : g.buff[(s + k) % N] = f.buff[(s + k) % N]
    <3> TAKE k \in 0 .. f.ct - 1
    <3>1. k \in 0 .. N - 1 /\ f.ct \in 0 .. N - 1 /\ k # f.ct
      BY <2>1, RingAssumption
    <3>2. (s + k) % N # f.wi /\ (s + k) % N \in Index
      BY <2>1, <3>1, RingDistinct, RingSteps
    <3> QED
      BY <2>1, <2>2, <3>2
  <2>4. Contents(g, s) = Append(Contents(f, s), in[q])
    <3>1. g.buff[(s + f.ct) % N] = in[q]
      BY <2>1, <2>2
    <3> HIDE DEF f, g, s
    <3>2. Contents(g, s) = Append(Contents(f, s), g.buff[(s + f.ct) % N])
      BY <2>1, <2>2, <2>3, GrowContents
    <3> QED
      BY <3>1, <3>2
  <2>5. \A p \in Ports : rx'[p] = IF p = q THEN g ELSE rx[p]
    BY <1>3 DEF RxVect, Received, HasRoom, Inv, TypeOK
  <2>6. \A p \in Ports : Start(p)' = Start(p)
    BY <1>1, <2>2, <2>5 DEF Start, At
  <2>7. rxBar' = [p \in Ports |-> Contents(rx'[p], Start(p)')]
    BY DEF rxBar, Start
  <2> HIDE DEF g
  <2>8. rxBar' = [rxBar EXCEPT ![q] = Append(rxBar[q], in[q])]
    BY <2>4, <2>5, <2>6, <2>7, Bars
  <2> QED
    BY <1>1, <1>2, <1>3, <2>1, <2>8 DEF Queues!Receive
<1>4. CASE rx[q].ct >= N
  <2>1. ~ (rx[q].ct < N) /\ Len(rxBar[q]) = rx[q].ct
    <3>1. rx[q].ct \in 0 .. N /\ Len(rxBar[q]) = rx[q].ct
      BY Bars
    <3> QED
      BY <1>4, <3>1, RingAssumption
  <2>2. rx' = rx
    <3>1. rx' = [rx EXCEPT ![q] = rx[q]]
      BY <2>1 DEF RxVect, Received, HasRoom
    <3> QED
      BY <3>1 DEF Inv, TypeOK
  <2>3. rxBar' = rxBar
    BY <1>1, <2>2 DEF rxBar, At
  <2>4. rxBar = [rxBar EXCEPT ![q] = rxBar[q]]
    BY DEF rxBar
  <2> QED
    BY <1>1, <1>2, <2>1, <2>3, <2>4 DEF Queues!Receive
<1> QED
  BY <1>3, <1>4, Bars, RingAssumption

\* The transmit handler sends the oldest byte, or finds none and turns itself
\* off.
LEMMA UdreVectRefines ==
  ASSUME Inv, NEW q \in Ports, UdreVect(q)
  PROVE  Queues!Transmit(q) \/ UNCHANGED Queues!qvars
<1>1. out[q] = Empty /\ UNCHANGED <<rx, in, pc, port, got>>
  BY DEF UdreVect
<1>2. rxBar' = rxBar
  BY <1>1 DEF rxBar, At
<1>3. CASE tx[q].ct = 0
  BY <1>1, <1>2, <1>3 DEF UdreVect, txBar, Queues!qvars
<1>4. CASE tx[q].ct > 0
  <2> DEFINE f == tx[q]
             g == Popped(tx[q])
  <2>1. f \in Fifo /\ f.ri \in Index /\ f.ct > 0 /\ g \in Fifo
        /\ g.ct = f.ct - 1 /\ g.buff = f.buff /\ g.ri = Next1(f.ri)
    BY <1>4, Bars, PopRing DEF Popped
  <2>2. /\ Contents(f, f.ri) # <<>>
        /\ Head(Contents(f, f.ri)) = f.buff[f.ri]
        /\ Contents(g, Next1(f.ri)) = Tail(Contents(f, f.ri))
    BY <2>1, ShrinkContents
  <2>3. /\ \A p \in Ports : tx'[p] = IF p = q THEN g ELSE tx[p]
        /\ out' = [out EXCEPT ![q] = f.buff[f.ri]]
    BY <1>4 DEF UdreVect, Inv, TypeOK
  <2> HIDE DEF g
  <2>4. txBar' = [txBar EXCEPT ![q] = Tail(txBar[q])]
    BY <2>1, <2>2, <2>3 DEF txBar
  <2>5. txBar[q] = Contents(f, f.ri)
    BY DEF txBar
  <2> QED
    BY <1>1, <1>2, <2>2, <2>3, <2>4, <2>5 DEF Queues!Transmit
<1> QED
  BY <1>3, <1>4, Bars, RingAssumption

\* The decrement in uart_getc is the moment the byte leaves the queue; moving
\* ri afterwards changes nothing.
LEMMA GetcRefines ==
  ASSUME Inv
  PROVE  /\ GetcTake => Queues!Take(port)
         /\ GetcAdvance => UNCHANGED Queues!qvars
<1>0. port \in Ports
  BY DEF Inv, TypeOK
<1>1. ASSUME GetcTake PROVE Queues!Take(port)
  <2> DEFINE f == rx[port]
             g == [rx[port] EXCEPT !.ct = rx[port].ct - 1]
  <2>1. f \in Fifo /\ f.ri \in Index /\ f.ct > 0 /\ d = f.buff[f.ri]
        /\ f.ct \in 0 .. N /\ Start(port) = f.ri
    BY <1>0, <1>1, Bars DEF GetcTake, Goto, Inv, ReadIsOldest, At, Start
  <2>2. f.ct - 1 \in 0 .. N
    BY <2>1, RingAssumption
  <2>3. g \in Fifo /\ g.ct = f.ct - 1 /\ g.buff = f.buff /\ g.ri = f.ri
    BY <2>1, <2>2 DEF Fifo
  <2> HIDE DEF g
  <2>4. /\ Contents(f, f.ri) # <<>>
        /\ Head(Contents(f, f.ri)) = f.buff[f.ri]
        /\ Contents(g, Next1(f.ri)) = Tail(Contents(f, f.ri))
    BY <2>1, <2>3, ShrinkContents
  <2>5. /\ \A p \in Ports : rx'[p] = IF p = port THEN g ELSE rx[p]
        /\ pc = "getcTake" /\ pc' = "getcAdvance" /\ got' = d
        /\ UNCHANGED <<tx, out, in, port>>
    BY <1>0, <1>1 DEF GetcTake, Goto, Inv, TypeOK, g
  <2>6. \A p \in Ports : Start(p)' = IF p = port THEN Next1(f.ri) ELSE Start(p)
    BY <2>3, <2>5 DEF Start, At
  <2>7. rxBar' = [p \in Ports |-> Contents(rx'[p], Start(p)')]
    BY DEF rxBar, Start
  <2>8. rxBar = [p \in Ports |-> Contents(rx[p], Start(p))]
    BY Bars
  <2>9. rxBar[port] = Contents(f, f.ri)
    BY <1>0, <2>1, <2>8
  <2>11. \A p \in Ports : Contents(rx'[p], Start(p)') =
           IF p = port THEN Tail(rxBar[port]) ELSE rxBar[p]
    BY <2>4, <2>5, <2>6, <2>8, <2>9
  <2>12. rxBar' = [rxBar EXCEPT ![port] = Tail(rxBar[port])]
    BY <2>7, <2>8, <2>11
  <2>10. txBar' = txBar
    BY <2>5 DEF txBar
  <2> QED
    BY <2>1, <2>4, <2>5, <2>9, <2>10, <2>12 DEF Queues!Take
<1>2. ASSUME GetcAdvance PROVE UNCHANGED Queues!qvars
  <2> DEFINE g == [rx[port] EXCEPT !.ri = Next1(i)]
  <2>1. /\ \A p \in Ports : rx'[p] = IF p = port THEN g ELSE rx[p]
        /\ pc = "getcAdvance" /\ pc' = "idle"
        /\ UNCHANGED <<tx, out, in, port, got>>
    BY <1>0, <1>2 DEF GetcAdvance, Return, Goto, Inv, TypeOK
  <2>2. i = rx[port].ri
    BY <1>0, <2>1 DEF Inv, LocalsAgree, At
  <2>3. g.ct = rx[port].ct /\ g.buff = rx[port].buff
        /\ g.ri = Next1(rx[port].ri)
    BY <1>0, <2>2, Bars DEF Fifo
  <2> HIDE DEF g
  <2>4. \A p \in Ports : Start(p)' = Start(p)
    BY <2>1, <2>3 DEF Start, At
  <2>5. \A p \in Ports : rx'[p].ct = rx[p].ct /\ rx'[p].buff = rx[p].buff
    BY <2>1, <2>3
  <2>6. \A p \in Ports : Contents(rx'[p], Start(p)') = Contents(rx[p], Start(p))
    BY <2>4, <2>5 DEF Contents
  <2>7. rxBar' = [p \in Ports |-> Contents(rx'[p], Start(p)')]
    BY DEF rxBar, Start
  <2>8. rxBar' = rxBar
    BY <2>6, <2>7, Bars
  <2>9. txBar' = txBar
    BY <2>1 DEF txBar
  <2> QED
    BY <2>1, <2>8, <2>9 DEF Queues!qvars
<1> QED
  BY <1>1, <1>2

\* The increment in uart_putc is the moment the byte enters the queue: storing
\* it before, and moving wi after, change nothing.
LEMMA PutcRefines ==
  ASSUME Inv
  PROVE  /\ PutcStore \/ PutcAdvance => UNCHANGED Queues!qvars
         /\ PutcPublish => Queues!Put(port, d)
<1>0. port \in Ports /\ tx[port] \in Fifo /\ tx[port].ri \in Index
      /\ tx[port].ct \in 0 .. N /\ tx[port].wi \in Index
      /\ tx[port].buff \in [Index -> Bytes] /\ d \in Bytes
  BY DEF Inv, TypeOK, Fifo
<1>1. ASSUME PutcStore PROVE UNCHANGED Queues!qvars
  <2> DEFINE f == tx[port]
             g == [tx[port] EXCEPT !.buff[tx[port].wi] = d]
  <2>1. /\ \A p \in Ports : tx'[p] = IF p = port THEN g ELSE tx[p]
        /\ pc = "putcStore" /\ pc' = "putcPublish"
        /\ UNCHANGED <<rx, out, in, port, got>>
    BY <1>0, <1>1 DEF PutcStore, Goto, Inv, TypeOK
  <2>2. /\ g \in Fifo /\ g.ct = f.ct /\ g.ri = f.ri
        /\ g.buff = [f.buff EXCEPT ![f.wi] = d]
    BY <1>0 DEF Fifo
  <2>3. f.wi = (f.ri + f.ct) % N /\ f.ct \in 0 .. N - 1
    BY <1>0, <2>1, RingAssumption DEF Inv, RingsAgree, RoomForPut, At
  <2>4. \A k \in 0 .. f.ct - 1 : g.buff[(f.ri + k) % N] = f.buff[(f.ri + k) % N]
    <3> TAKE k \in 0 .. f.ct - 1
    <3>1. k \in 0 .. N - 1 /\ k # f.ct
      BY <2>3, RingAssumption
    <3>2. (f.ri + k) % N # f.wi /\ (f.ri + k) % N \in Index
      BY <1>0, <2>3, <3>1, RingDistinct, RingSteps
    <3> QED
      BY <1>0, <2>2, <3>2
  <2> HIDE DEF g
  <2>5. Contents(g, g.ri) = Contents(f, f.ri)
    <3> HIDE DEF f
    <3>1. f \in Fifo /\ f.ri \in Index
      BY <1>0 DEF f
    <3>2. Contents(g, f.ri) = Contents(f, f.ri)
      BY <2>2, <2>4, <3>1, SameContents
    <3> QED
      BY <2>2, <3>2
  <2>6. txBar' = txBar
    BY <2>1, <2>5 DEF txBar
  <2>7. rxBar' = rxBar
    BY <2>1 DEF rxBar, At
  <2> QED
    BY <2>1, <2>6, <2>7 DEF Queues!qvars
<1>2. ASSUME PutcAdvance PROVE UNCHANGED Queues!qvars
  <2> DEFINE g == [tx[port] EXCEPT !.wi = Next1(i)]
  <2>1. /\ \A p \in Ports : tx'[p] = IF p = port THEN g ELSE tx[p]
        /\ pc = "putcAdvance" /\ pc' = "idle"
        /\ UNCHANGED <<rx, out, in, port, got>>
    BY <1>0, <1>2 DEF PutcAdvance, Return, Goto, Inv, TypeOK
  <2>2. g.ct = tx[port].ct /\ g.buff = tx[port].buff /\ g.ri = tx[port].ri
    BY <1>0 DEF Fifo
  <2> HIDE DEF g
  <2>3. \A p \in Ports : Contents(tx'[p], tx'[p].ri) = Contents(tx[p], tx[p].ri)
    BY <2>1, <2>2 DEF Contents
  <2>4. txBar' = txBar
    BY <2>3 DEF txBar
  <2>5. rxBar' = rxBar
    BY <2>1 DEF rxBar, At
  <2> QED
    BY <2>1, <2>4, <2>5 DEF Queues!qvars
<1>3. ASSUME PutcPublish PROVE Queues!Put(port, d)
  <2> DEFINE f == tx[port]
             g == [tx[port] EXCEPT !.ct = tx[port].ct + 1]
  <2>1. /\ \A p \in Ports : tx'[p] = IF p = port THEN g ELSE tx[p]
        /\ pc = "putcPublish" /\ pc' = "putcAdvance"
        /\ UNCHANGED <<rx, out, in, port, got>>
    BY <1>0, <1>3 DEF PutcPublish, Goto, Inv, TypeOK
  <2>2. f.ct < N /\ f.ct + 1 \in 0 .. N
        /\ f.wi = (f.ri + f.ct) % N /\ d = f.buff[f.wi]
    BY <1>0, <2>1, RingAssumption
       DEF Inv, RingsAgree, RoomForPut, LocalsAgree, At
  <2>3. g \in Fifo /\ g.ct = f.ct + 1 /\ g.ri = f.ri /\ g.buff = f.buff
    BY <1>0, <2>2 DEF Fifo
  <2> HIDE DEF g
  <2>4. Contents(g, f.ri) = Append(Contents(f, f.ri), g.buff[(f.ri + f.ct) % N])
    BY <1>0, <2>3, GrowContents
  <2>5. Contents(g, g.ri) = Append(Contents(f, f.ri), d)
    BY <2>2, <2>3, <2>4
  <2>6. txBar' = [txBar EXCEPT ![port] = Append(txBar[port], d)]
    BY <1>0, <2>1, <2>5 DEF txBar
  <2>7. rxBar' = rxBar
    BY <2>1 DEF rxBar, At
  <2>8. Len(txBar[port]) < N
    BY <1>0, <2>2, Bars
  <2> QED
    BY <2>1, <2>6, <2>7, <2>8 DEF Queues!Put
<1> QED
  BY <1>1, <1>2, <1>3

\* uart_init empties both rings; it is called with the output flushed.
LEMMA UartInitRefines ==
  ASSUME Inv, NEW q \in Ports, UartInit(q)
  PROVE  Queues!Reopen(q)
<1>1. /\ \A p \in Ports : tx'[p] = IF p = q THEN Cleared(tx[q]) ELSE tx[p]
      /\ \A p \in Ports : rx'[p] = IF p = q THEN Cleared(rx[q]) ELSE rx[p]
      /\ pc = "flushed" /\ pc' = "idle" /\ UNCHANGED <<out, in, port, got>>
  BY DEF UartInit, Goto, Inv, TypeOK
<1>2. tx[q].ct = 0
  BY <1>1 DEF Inv, FlushedIsEmpty
<1>3. \A f, r : f.ct = 0 => Contents(f, r) = <<>>
  BY DEF Contents
<1>4. Cleared(tx[q]).ct = 0 /\ Cleared(rx[q]).ct = 0
  BY DEF Cleared
<1>5. txBar[q] = <<>>
  BY <1>2, <1>3 DEF txBar
<1>6. txBar' = txBar
  BY <1>1, <1>2, <1>3, <1>4 DEF txBar
<1>7. rxBar' = [p \in Ports |-> IF p = q THEN <<>> ELSE rxBar[p]]
  BY <1>1, <1>3, <1>4 DEF rxBar, At
<1>8. rxBar' = [rxBar EXCEPT ![q] = <<>>]
  BY <1>7 DEF rxBar
<1> QED
  BY <1>1, <1>5, <1>6, <1>8 DEF Queues!Reopen

\* Steps that touch neither a ring, a data register nor the result.
LEMMA QuietRefines ==
  ASSUME UNCHANGED <<tx, rx, out, in, got>>,
         \A p \in Ports : At(p, "getcAdvance")' = At(p, "getcAdvance")
  PROVE  UNCHANGED Queues!qvars
BY DEF txBar, rxBar, Queues!qvars

\* Every step maps to a step of the queues or to a stutter.
LEMMA NextRefines == Inv /\ [Next]_vars => [Queues!Next]_(Queues!qvars)
<1> SUFFICES ASSUME Inv, [Next]_vars
             PROVE  Queues!Next \/ UNCHANGED Queues!qvars
  OBVIOUS
<1>0. port \in Ports /\ d \in Bytes
  BY DEF Inv, TypeOK
<1>1. CASE UNCHANGED vars
  BY <1>1, QuietRefines DEF vars, At
<1>2. ASSUME NEW p \in Ports, TestRx(p, "peekRead") \/ TestRx(p, "getcRead")
      PROVE  UNCHANGED Queues!qvars
  BY <1>2, QuietRefines DEF TestRx, Goto, At
<1>3. CASE \E p \in Ports, b \in Bytes : PutcCall(p, b)
  BY <1>3, QuietRefines DEF PutcCall, Goto, At
<1>4. CASE \/ PeekRead \/ PeekReturn \/ GetcRead \/ PutcWait
           \/ FlushCall \/ FlushFifo \/ FlushUdr \/ FlushReturn \/ ClearWatch
  BY <1>4, QuietRefines DEF PeekRead, PeekReturn, GetcRead, ReadSlot, PutcWait,
     FlushCall, FlushFifo, FlushUdr, FlushReturn, ClearWatch, Return, Goto, At
<1>5. CASE GetcTake \/ GetcAdvance
  BY <1>0, <1>5, GetcRefines DEF Queues!Next
<1>6. CASE PutcStore \/ PutcPublish \/ PutcAdvance
  BY <1>0, <1>6, PutcRefines DEF Queues!Next
<1>7. ASSUME NEW p \in Ports, UartInit(p)
      PROVE  Queues!Next
  BY <1>7, UartInitRefines DEF Queues!Next
<1>8. ASSUME NEW p \in Ports, NEW b \in Bytes, Arrive(p, b)
      PROVE  Queues!Next
  <2>1. txBar' = txBar /\ rxBar' = rxBar
    BY <1>8 DEF Arrive, txBar, rxBar, At
  <2>2. Queues!Arrive(p, b)
    BY <1>8, <2>1 DEF Arrive, Queues!Arrive
  <2> QED
    BY <2>2 DEF Queues!Next
<1>9. ASSUME NEW p \in Ports, ShiftOut(p)
      PROVE  Queues!Next
  <2>1. txBar' = txBar /\ rxBar' = rxBar
    BY <1>9 DEF ShiftOut, txBar, rxBar, At
  <2>2. Queues!Shift(p)
    BY <1>9, <2>1 DEF ShiftOut, Queues!Shift
  <2> QED
    BY <2>2 DEF Queues!Next
<1>10. ASSUME NEW p \in Ports, RxVect(p) \/ UdreVect(p)
       PROVE  Queues!Next \/ UNCHANGED Queues!qvars
  BY <1>10, RxVectRefines, UdreVectRefines DEF Queues!Next
<1> QED
  BY <1>1, <1>2, <1>3, <1>4, <1>5, <1>6, <1>7, <1>8, <1>9, <1>10
     DEF Next, MainStep

\* The interrupt-driven rings of uart.c implement first-in first-out queues
\* that lose a byte only when N undelivered ones are waiting.
THEOREM Refinement == Spec => ImplementsQueues
<1>1. Init => Queues!Init
  BY InitRefines
<1>2. Inv /\ [Next]_vars => [Queues!Next]_(Queues!qvars)
  BY NextRefines
<1> QED
  BY <1>1, <1>2, Invariance, PTL DEF Spec, Queues!Spec, ImplementsQueues

-----------------------------------------------------------------------------
(* What the device emulations see of the ports.                              *)

Lines == INSTANCE SerialLines WITH Uarts <- Ports, Room <- N, rxq <- rxBar, txq <- txBar

\* A terminal, the transmitter, and a caller that looks before it takes or puts a byte.
PortStep(u) ==
  \/ \E c \in Bytes : Lines!Arrive(u, c)
  \/ Lines!Transmit(u)
  \/ Lines!uart_testrx(u) > 0 /\ Lines!uart_getc(u) /\ UNCHANGED txBar
  \/ Lines!uart_testtx(u) < N /\ (\E c \in Bytes : Lines!uart_putc(u, c)) /\ UNCHANGED rxBar

\* uart_init discards what was received.
Reopened(u) == txBar[u] = <<>> /\ rxBar' = [rxBar EXCEPT ![u] = <<>>] /\ UNCHANGED txBar

PortSteps == [][\E u \in Ports : PortStep(u) \/ Reopened(u)]_(Lines!lines)

\* A step of the queues is one of what the emulations see, or changes nothing that they see.
LEMMA QueueSteps ==
  ASSUME Inv, Inv', Queues!Next
  PROVE  (\E u \in Ports : PortStep(u) \/ Reopened(u)) \/ UNCHANGED Lines!lines
<1>0. PICK p \in Ports :
        \/ \E b \in Bytes : Queues!Put(p, b) \/ Queues!Arrive(p, b)
        \/ Queues!Receive(p) \/ Queues!Transmit(p) \/ Queues!Shift(p)
        \/ Queues!Take(p) \/ Queues!Reopen(p)
  BY DEF Queues!Next
<1>1. in[p] \in Bytes \cup {Empty}
  BY DEF Inv, TypeOK
<1>2. rxBar = [q \in Ports |-> rxBar[q]] /\ txBar = [q \in Ports |-> txBar[q]]
  BY DEF rxBar, txBar
<1>3. ASSUME NEW b \in Bytes, Queues!Put(p, b)
      PROVE  PortStep(p)
  BY <1>3 DEF Queues!Put, PortStep, Lines!uart_testtx, Lines!uart_putc
<1>4. CASE (\E b \in Bytes : Queues!Arrive(p, b)) \/ Queues!Shift(p)
  BY <1>4 DEF Queues!Arrive, Queues!Shift, Lines!lines
<1>5. CASE Queues!Receive(p)
  <2>1. in[p] \in Bytes
    BY <1>1, <1>5 DEF Queues!Receive
  <2>2. CASE Len(rxBar[p]) < N
    <3>1. rxBar' = [rxBar EXCEPT ![p] = Append(@, in[p])] /\ txBar' = txBar
      BY <1>2, <1>5, <2>2 DEF Queues!Receive
    <3>2. Lines!Arrive(p, in[p])
      BY <2>2, <3>1 DEF Lines!Arrive
    <3> QED
      BY <2>1, <3>2 DEF PortStep
  <2>3. CASE ~(Len(rxBar[p]) < N)
    <3>1. rxBar' = rxBar /\ txBar' = txBar
      BY <1>2, <1>5, <2>3 DEF Queues!Receive
    <3> QED
      BY <3>1 DEF Lines!lines
  <2> QED
    BY <2>2, <2>3
<1>6. ASSUME Queues!Transmit(p)
      PROVE  PortStep(p)
  BY <1>6 DEF Queues!Transmit, PortStep, Lines!Transmit
<1>7. ASSUME Queues!Take(p)
      PROVE  PortStep(p)
  <2>1. rxBar[p] \in Seq(Bytes)
    <3>1. rx[p] \in Fifo /\ Start(p) \in Index /\ rxBar[p] = Contents(rx[p], Start(p))
      BY Bars
    <3> QED
      BY <3>1, ContentsSeq
  <2>2. Len(rxBar[p]) > 0
    BY <1>7, <2>1 DEF Queues!Take
  <2> QED
    BY <1>7, <2>2 DEF Queues!Take, PortStep, Lines!uart_testrx, Lines!uart_getc
<1>8. ASSUME Queues!Reopen(p)
      PROVE  Reopened(p)
  BY <1>8 DEF Queues!Reopen, Reopened
<1> QED
  BY <1>0, <1>3, <1>4, <1>5, <1>6, <1>7, <1>8

\* The device emulations see of the rings what SerialLines says: every step of uart.c is
\* one byte from the terminal or to it, one byte that a caller takes or puts where
\* uart_testrx or uart_testtx allows it, uart_init, or nothing that they can see.
THEOREM PortsAsSeen == Spec => Lines!LinesInit /\ PortSteps
<1>1. Init => Lines!LinesInit
  BY InitRefines DEF Queues!Init, Lines!LinesInit
<1>2. Inv /\ Inv' /\ [Next]_vars => [\E u \in Ports : PortStep(u) \/ Reopened(u)]_(Lines!lines)
  BY NextRefines, QueueSteps DEF Queues!qvars, Lines!lines
<1> QED
  BY <1>1, <1>2, Invariance, PTL DEF Spec, PortSteps
=============================================================================
