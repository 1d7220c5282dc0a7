----------------------------- MODULE XmodemTx ------------------------------
(***************************************************************************)
(* xm_transmit of util/xmodem.c: sends one file by XMODEM.  tx.pc names the *)
(* place in the code: "sync", "can", "ack" and "eot ack" are its calls of  *)
(* inbyte, "load" is start_trans, "send" and "eot" put a packet or an EOT  *)
(* on the line, and "flush" is flushinput before it returns tx.next.       *)
(***************************************************************************)
EXTENDS XmodemRx

CONSTANTS
  XmtxSizes,  \* lengths of the file, in blocks
  EotTries    \* 10, tries to end a transfer

ASSUME TxAssumption == XmtxSizes \subseteq Nat /\ EotTries \in Nat \ {0}

TxStart(pc, batch, size) ==
  [pc |-> pc, next |-> pc, batch |-> batch, file |-> 1, size |-> size, block |-> 0,
   blank |-> FALSE, crc |-> TRUE, packetno |-> 1, retry |-> 0]

TxInit == \E size \in XmtxSizes : tx = TxStart("sync", FALSE, size)

TxAt(place) == tx.pc = place /\ up # <<>> /\ up' = Tail(up)
TxKeeps == UNCHANGED <<faults, trouble, patient, rx, files>>

Leave(result) == [tx EXCEPT !.pc = "flush", !.next = result]
To(place) == [tx EXCEPT !.pc = place, !.retry = 0]

\* One try more, unless there were as many as there may be.
Retry(tries, place, failed) ==
  IF tx.retry + 1 < tries
    THEN tx' = [tx EXCEPT !.pc = place, !.retry = @ + 1] /\ UNCHANGED down
    ELSE tx' = Leave(failed) /\ down' = Push(down, IF place = "eot" THEN <<>> ELSE Cans)

RetrySync == Retry(SyncTries, "sync", "nosync")
RetrySend == Retry(MaxRetrans, "send", "failed")
RetryEot  == Retry(EotTries, "eot", "failed")

-----------------------------------------------------------------------------

TxSync ==
  /\ TxAt("sync")
  /\ \/ /\ Head(up).kind \in {"C", "NAK"}
        /\ tx' = [To("load") EXCEPT !.crc = Head(up).kind = "C"] /\ UNCHANGED down
     \/ /\ Head(up).kind = "CAN"
        /\ tx' = [tx EXCEPT !.pc = "can", !.next = "sync"] /\ UNCHANGED down
     \/ /\ Head(up).kind \notin {"C", "NAK", "CAN"}
        /\ RetrySync
  /\ TxKeeps

TxCan ==
  /\ \/ /\ TxAt("can") /\ Head(up).kind = "CAN"
        /\ tx' = Leave("cancelled") /\ down' = Push(down, <<Byte("ACK")>>)
     \/ /\ \/ TxAt("can") /\ Head(up).kind # "CAN"
           \/ tx.pc = "can" /\ TxQuiet /\ UNCHANGED up
        /\ IF tx.next = "sync" THEN RetrySync ELSE RetrySend
  /\ TxKeeps

\* f_read finds the next block, or the end of the file; an error looks like the end.
TxLoad ==
  /\ tx.pc = "load"
  /\ \/ /\ tx.block < tx.size
        /\ \E blank \in IF tx.packetno = 0 THEN BOOLEAN ELSE {FALSE} :
             tx' = [To("send") EXCEPT !.block = @ + 1, !.blank = blank]
        /\ UNCHANGED <<faults, trouble>>
     \/ tx.block = tx.size /\ tx' = To("eot") /\ UNCHANGED <<faults, trouble>>
     \/ tx.block < tx.size /\ tx' = To("eot") /\ Fault /\ trouble' = trouble \cup {"error"}
  /\ UNCHANGED <<line, patient, rx, files>>

TxSend ==
  /\ tx.pc = "send"
  /\ down' = Push(down, <<Packet(tx.packetno, tx.crc, tx.file, tx.block, tx.blank)>>)
  /\ tx' = [tx EXCEPT !.pc = "ack"]
  /\ UNCHANGED up /\ TxKeeps

TxAcked == [To("load") EXCEPT !.packetno = Following(@)]

TxAck ==
  /\ TxAt("ack")
  /\ \/ Head(up).kind = "ACK" /\ tx' = TxAcked /\ UNCHANGED down
     \/ Head(up).kind = "CAN" /\ tx' = [tx EXCEPT !.pc = "can", !.next = "send"] /\ UNCHANGED down
     \/ Head(up).kind \notin {"ACK", "CAN"} /\ RetrySend
  /\ TxKeeps

TxEot ==
  /\ tx.pc = "eot"
  /\ down' = Push(down, <<Byte("EOT")>>)
  /\ tx' = [tx EXCEPT !.pc = "eot ack"]
  /\ UNCHANGED up /\ TxKeeps

TxEotAck ==
  /\ TxAt("eot ack")
  /\ \/ Head(up).kind = "ACK" /\ tx' = Leave("ok") /\ UNCHANGED down
     \/ Head(up).kind # "ACK" /\ RetryEot
  /\ TxKeeps

TxTimeout ==
  /\ TxQuiet
  /\ \/ tx.pc = "sync" /\ RetrySync
     \/ tx.pc = "ack" /\ RetrySend
     \/ tx.pc = "eot ack" /\ RetryEot
  /\ UNCHANGED up /\ TxKeeps

\* flushinput, and after the return the monitor, take what still arrives.
TxDrop ==
  /\ tx.pc \in {"flush"} \cup Ends /\ up # <<>>
  /\ up' = Tail(up)
  /\ UNCHANGED <<down, tx>> /\ TxKeeps

TxFlushed ==
  /\ tx.pc = "flush" /\ TxQuiet
  /\ tx' = [tx EXCEPT !.pc = tx.next]
  /\ UNCHANGED line /\ TxKeeps

TxStep ==
  \/ TxSync \/ TxCan \/ TxLoad \/ TxSend \/ TxAck \/ TxEot \/ TxEotAck
  \/ TxTimeout \/ TxDrop \/ TxFlushed
=============================================================================
