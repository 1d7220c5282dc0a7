----------------------------- MODULE ModemLine -----------------------------
(***************************************************************************)
(* The serial line between the two ends of an X or Y modem transfer.       *)
(* What one end puts on the line waits in the receive ring of the other    *)
(* until it calls inbyte.  A packet is one item: its bytes leave and       *)
(* arrive together, and the check finds any damage to them.  The line      *)
(* loses and damages items, and a person at either end presses ^X twice,   *)
(* a bounded number of times in all.                                       *)
(***************************************************************************)
EXTENDS Integers, Sequences, SequencesExt

CONSTANTS
  LineMax,    \* items that fit in a receive ring; what does not fit is dropped
  MaxFaults,  \* faults of the line, of the cards and of the persons
  MaxFaultsInBatch  \* the same in a YMODEM session

ASSUME LineAssumption ==
  LineMax \in Nat \ {0} /\ MaxFaults \in Nat /\ MaxFaultsInBatch \in Nat

VARIABLES
  down,     \* from the sender to the receiver
  up,       \* from the receiver to the sender
  faults,   \* how many there were
  trouble,  \* what else went wrong: a card was "full" or had an "error", a person
            \* pressed "keys", or the "tries" for a CRC ran out
  patient,  \* does an end outwait every answer that is still to come?
  rx, tx    \* xm_receive and its sender

line == <<down, up>>

Byte(k) == [kind |-> k]
Cans    == <<Byte("CAN"), Byte("CAN"), Byte("CAN")>>

\* no is the number of the packet, crc whether a CRC or a checksum follows the
\* data, ok whether the data arrive as they were sent.  Block 0 of a file is its
\* YMODEM header.  blank: the first byte of the data is 0.
Packet(no, crc, name, block, blank) ==
  [kind |-> "packet", no |-> no, crc |-> crc, ok |-> TRUE,
   name |-> name, block |-> block, blank |-> blank]

Push(q, items) ==
  LET all == q \o items
  IN  IF Len(all) > LineMax THEN SubSeq(all, 1, LineMax) ELSE all

\* Reading one byte of an item leaves the rest of a packet on the line.
ByteRead(q) == IF Head(q).kind = "packet" THEN <<Byte("junk")>> \o Tail(q) ELSE Tail(q)

Damaged(item) ==
  {Byte("junk")} \cup IF item.kind = "packet" THEN {[item EXCEPT !.ok = FALSE]} ELSE {}

\* The item put on the line last is lost or damaged.
Struck(q) == {Front(q)} \cup {Front(q) \o <<item>> : item \in Damaged(Last(q))}

Fault ==
  /\ faults < IF tx.batch THEN MaxFaultsInBatch ELSE MaxFaults
  /\ faults' = faults + 1

LineFault ==
  /\ Fault
  /\ \/ /\ down # <<>> /\ down' \in Struck(down) /\ up' = up
     \/ /\ up # <<>> /\ up' \in Struck(up) /\ down' = down
  /\ UNCHANGED <<trouble, patient, rx, tx>>

\* Someone at one of the ends presses ^X twice: the other end reads CAN CAN.
PressCtrlX ==
  /\ Fault
  /\ \/ down' = Push(down, Tail(Cans)) /\ up' = up
     \/ up' = Push(up, Tail(Cans)) /\ down' = down
  /\ trouble' = trouble \cup {"keys"}
  /\ UNCHANGED <<patient, rx, tx>>

-----------------------------------------------------------------------------
(* Time.  inbyte times out when nothing has arrived for long enough.  An    *)
(* answer may still come after that, when its sender was slower; it never   *)
(* does when the ends are patient.                                          *)

Ends == {"ok", "nosync", "cancelled", "failed", "card"}

RxWaits == rx.pc \in {"wait", "can"} \cup Ends
TxWaits == tx.pc \notin {"load", "send", "eot", "header"}

\* inbyte(10000) of the receiver: longer than the sender waits for an answer.
RxQuiet == down = <<>> /\ (patient => up = <<>> /\ tx.pc \in {"sync", "wait C"} \cup Ends)
\* inbyte(1000) of the receiver, between the bytes of one burst.
RxLull  == down = <<>> /\ (patient => TxWaits)
\* inbyte of the sender.
TxQuiet == up = <<>> /\ (patient => down = <<>> /\ RxWaits)
=============================================================================
