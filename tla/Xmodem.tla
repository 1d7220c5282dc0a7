------------------------------ MODULE Xmodem -------------------------------
(***************************************************************************)
(* X and Y modem transfers: xm_receive at one end of a line and, at the    *)
(* other, xm_transmit (the xmtx command of another board) or a program     *)
(* that sends several files by YMODEM, which this repository does not have *)
(* and which is modelled by what xm_receive expects of it.                 *)
(***************************************************************************)
EXTENDS XmodemTx

CONSTANT BatchTries  \* how often the YMODEM sender tries anything

ASSUME BatchAssumption == BatchTries \in Nat \ {0}

vars == <<down, up, faults, trouble, patient, rx, tx, files>>

-----------------------------------------------------------------------------
(* The YMODEM sender *)

BatchInit == tx = TxStart("wait C", TRUE, 0)

\* Every file is preceded by its header, and the last by an empty one.
Header ==
  IF tx.file > Len(Sizes) THEN Packet(0, TRUE, 0, 0, TRUE)
                          ELSE Packet(0, TRUE, tx.file, 0, FALSE)

BatchRetry(place) == Retry(BatchTries, place, "failed")

\* It resends for a NAK and ignores what is no answer.
BatchNoAck(place) ==
  \/ Head(up).kind = "NAK" /\ BatchRetry(place)
  \/ Head(up).kind \notin {"ACK", "NAK"} /\ UNCHANGED <<down, tx>>

\* The receiver asks for a header with C, and for the data with another.
BatchWaitC ==
  /\ TxAt("wait C")
  /\ \/ Head(up).kind = "C" /\ tx' = To(IF tx.next = "load" THEN "load" ELSE "header")
     \/ Head(up).kind # "C" /\ UNCHANGED tx
  /\ UNCHANGED down /\ TxKeeps

BatchHeader ==
  /\ tx.pc = "header"
  /\ down' = Push(down, <<Header>>)
  /\ tx' = [tx EXCEPT !.pc = "header ack"]
  /\ UNCHANGED up /\ TxKeeps

BatchHeaderAck ==
  /\ TxAt("header ack")
  /\ \/ /\ Head(up).kind = "ACK" /\ UNCHANGED down
        /\ tx' = IF tx.file > Len(Sizes) THEN Leave("ok")
                 ELSE [To("wait C") EXCEPT !.next = "load", !.packetno = 1, !.block = 0,
                                           !.size = Sizes[tx.file]]
     \/ BatchNoAck("header")
  /\ TxKeeps

BatchAck ==
  /\ TxAt("ack")
  /\ \/ Head(up).kind = "ACK" /\ tx' = TxAcked /\ UNCHANGED down
     \/ BatchNoAck("send")
  /\ TxKeeps

BatchEotAck ==
  /\ TxAt("eot ack")
  /\ \/ /\ Head(up).kind = "ACK" /\ UNCHANGED down
        /\ tx' = [To("wait C") EXCEPT !.next = "header", !.file = @ + 1]
     \/ BatchNoAck("eot")
  /\ TxKeeps

BatchTimeout ==
  /\ TxQuiet
  /\ \/ tx.pc = "wait C" /\ BatchRetry("wait C")
     \/ tx.pc = "header ack" /\ BatchRetry("header")
     \/ tx.pc = "ack" /\ BatchRetry("send")
     \/ tx.pc = "eot ack" /\ BatchRetry("eot")
  /\ UNCHANGED up /\ TxKeeps

BatchStep ==
  \/ BatchWaitC \/ BatchHeader \/ BatchHeaderAck \/ BatchAck \/ BatchEotAck \/ BatchTimeout
  \/ TxLoad \/ TxSend \/ TxEot \/ TxDrop \/ TxFlushed

-----------------------------------------------------------------------------

Init ==
  /\ down = <<>> /\ up = <<>> /\ faults = 0 /\ trouble = {} /\ patient \in BOOLEAN
  /\ RxInit
  /\ TxInit \/ BatchInit

SenderStep ==
  \/ tx.batch /\ BatchStep
  \/ ~tx.batch /\ TxStep

Next ==
  \/ RxStep
  \/ SenderStep
  \/ (LineFault \/ PressCtrlX) /\ UNCHANGED files
  \/ CardFills

Spec == Init /\ [][Next]_vars

\* Both ends go on, and time passes for both.
FairSpec == Spec /\ WF_vars(RxStep) /\ WF_vars(SenderStep)

-----------------------------------------------------------------------------
(* Properties *)

\* The blocks of the files that the sender has to send, by name.
Source == IF tx.batch THEN Sizes ELSE <<tx.size>>
WholeFile(n) == [i \in 1 .. Source[n] |-> <<n, i>>]

\* Whatever is lost, damaged, repeated or answered late, and whoever gives up,
\* each block that xm_receive has from xm_transmit is written where the file has it.
\* The same holds of the files of a YMODEM session, which have their names too, as
\* long as no answer comes too late and nobody presses ^X: every file numbers its
\* packets from 1, and an answer taken for another leads from one into the next.
PrefixInPlace ==
  (tx.batch => patient /\ "keys" \notin trouble) =>
    \A f \in DOMAIN files : \E n \in DOMAIN Source :
      /\ tx.batch => files[f].name = n
      /\ \A i \in DOMAIN files[f].blocks : files[f].blocks[i] \in {<<n, i>>, Filler}

\* No block gets number 0, which makes it a header; the length of a file fits an int;
\* and a file whose header gives none follows no file of another length.
Deliverable ==
  \A n \in DOMAIN Source :
    /\ Source[n] < Numbers
    /\ tx.batch => /\ Source[n] < IntHalf
                   /\ n \in Unsized => \A m \in 1 .. n - 1 : Source[m] \in {0, Source[n]}

\* When no answer comes too late, no card fails and nobody presses ^X, a sender that
\* reports success has had every file written whole; one of YMODEM, unless xm_receive
\* fell back from C to NAK, which a sender that is at an end takes for the second of
\* two answers.
SuccessIsComplete ==
  patient /\ trouble \subseteq (IF tx.batch THEN {} ELSE {"tries"})
    /\ Deliverable /\ tx.pc = "ok" =>
    \E sent \in [DOMAIN files -> {n \in DOMAIN Source : Source[n] > 0}] :
      /\ \A f \in DOMAIN files : files[f].blocks = WholeFile(sent[f])
      /\ \A f, g \in DOMAIN files : f < g => sent[f] < sent[g]
      /\ \A n \in DOMAIN Source : Source[n] > 0 => \E f \in DOMAIN files : sent[f] = n

\* Without faults, and when no answer comes too late, the transfer succeeds at both
\* ends: the two agree on how it starts, on the numbers and on how each file ends.
CleanTransferSucceeds ==
  [](patient /\ faults = 0) => <>(rx.pc = "ok" /\ tx.pc = "ok")

\* Whatever happens, both ends return: no transfer waits for ever.
BothReturn == <>(rx.pc \in Ends /\ tx.pc \in Ends)

\* What xm_receive takes for the header of a file was sent as one ("ymodem metadata
\* packet", xmodem.c:254).  xm_transmit sends no headers.
MetadataIsMetadata == rx.ymodem # 0 => tx.batch
=============================================================================
