----------------------------- MODULE XmodemRx ------------------------------
(***************************************************************************)
(* xm_receive of util/xmodem.c: receives one file by XMODEM, or the files  *)
(* of a session by YMODEM, and writes them to the card.  rx.pc names the   *)
(* place in the code: "try" is the head of the retry loop, "wait" and      *)
(* "can" are its calls of inbyte, "flush" is flushinput, after which rx.say *)
(* is sent and rx.next entered; the other values are the results.          *)
(***************************************************************************)
EXTENDS ModemLine

CONSTANTS
  Numbers,     \* values of a packet number, a uint8_t
  IntHalf,     \* blocks in 2^15 bytes: an int counts from -IntHalf
  SyncTries,   \* 16, tries to start or to continue a transfer
  MaxRetrans,  \* MAXRETRANS
  Sizes,       \* lengths of the files of a YMODEM session, in blocks
  Unsized      \* those whose header does not give the length

\* There are more numbers than items on their way: 256, for rings of 64 bytes.  A try
\* that fails is followed by another one.
ASSUME RxAssumption ==
  /\ {Numbers, IntHalf, SyncTries, MaxRetrans} \subseteq Nat \ {0}
  /\ Numbers > 2 * LineMax + 1
  /\ SyncTries > 1
  /\ Sizes \in Seq(Nat) /\ Unsized \subseteq DOMAIN Sizes

VARIABLE files  \* those written, in the order they were created

Filler == <<0, 0>>  \* what f_lseek leaves in a file that it lengthens

RxInit ==
  /\ rx = [pc |-> "flush", say |-> <<>>, next |-> "try", trychar |-> "C", crc |-> FALSE,
           packetno |-> 1, retry |-> 0, retrans |-> MaxRetrans, ymodem |-> 0,
           size |-> 0, name |-> 0, open |-> FALSE]
  /\ files = <<>>

\* flushinput; send the bytes; go to the place.
Flush(r, items, place) == [r EXCEPT !.pc = "flush", !.say = items, !.next = place]
\* Top of the outer loop.
Again(r) == [r EXCEPT !.pc = "try", !.retry = 0]
\* End of one turn of the retry loop.
\* Mistake for BothReturn: the turn is not counted.
TurnUncounted(r) == [r EXCEPT !.pc = "try"]
Turn(r) == [r EXCEPT !.pc = "try", !.retry = @ + 1]

\* What sscanf stores in the int size for a number of blocks.
Int16(n) == ((n + IntHalf) % (2 * IntHalf)) - IntHalf

Keep == UNCHANGED <<faults, patient, tx>>
Say(items) == up' = Push(up, items)

-----------------------------------------------------------------------------

RxAsk ==
  /\ rx.pc = "try" /\ rx.retry < SyncTries
  /\ Say(IF rx.trychar = "none" THEN <<>> ELSE <<Byte(rx.trychar)>>)
  /\ rx' = [rx EXCEPT !.pc = "wait"]
  /\ UNCHANGED <<down, files, trouble>> /\ Keep

\* No packet in SyncTries turns: fall back from CRC to checksum, or cancel.
RxNoSync ==
  /\ rx.pc = "try" /\ rx.retry >= SyncTries
  /\ \/ /\ rx.trychar = "C" /\ rx' = Again([rx EXCEPT !.trychar = "NAK"])
        /\ trouble' = trouble \cup {"tries"}
     \/ /\ rx.trychar # "C" /\ rx' = Flush(rx, Cans, "nosync")
        /\ UNCHANGED trouble
  /\ UNCHANGED <<line, files>> /\ Keep

RxTimeout ==
  /\ \/ rx.pc = "wait" /\ RxQuiet
     \/ rx.pc = "can" /\ RxLull
  /\ rx' = Turn(rx)
  /\ UNCHANGED <<line, files, trouble>> /\ Keep

\* flushinput drops what arrives until the line is silent.
RxDrop ==
  /\ rx.pc = "flush" /\ down # <<>>
  /\ down' = Tail(down)
  /\ UNCHANGED <<up, rx, files, trouble>> /\ Keep

RxFlushed ==
  /\ rx.pc = "flush" /\ RxLull
  /\ Say(rx.say)
  /\ rx' = IF rx.next = "turn" THEN Turn(rx)
           ELSE IF rx.next = "try" THEN Again(rx) ELSE [rx EXCEPT !.pc = rx.next]
  /\ UNCHANGED <<down, files, trouble>> /\ Keep

\* After it has returned, what arrives goes to the monitor.
RxGone ==
  /\ rx.pc \in Ends /\ down # <<>>
  /\ down' = Tail(down)
  /\ UNCHANGED <<up, rx, files, trouble>> /\ Keep

-----------------------------------------------------------------------------
(* The first byte of what arrives *)

Arrives(k) == rx.pc = "wait" /\ down # <<>> /\ Head(down).kind = k /\ down' = Tail(down)

\* f_lseek(size) and f_truncate: the file gets the length that its header says.
Resized(blocks) ==
  [i \in 1 .. (IF rx.size > 0 THEN rx.size ELSE Len(blocks)) |->
     IF i <= Len(blocks) THEN blocks[i] ELSE Filler]

\* Mistake for CleanTransferSucceeds: the receiver does not ask for the next header.
ForNextFileSilent(r) ==
  [r EXCEPT !.ymodem = 0, !.retry = 1, !.pc = "try", !.packetno = 1]
ForNextFile(r) ==
  [r EXCEPT !.ymodem = 0, !.retry = 1, !.pc = "try", !.packetno = 1, !.trychar = "C"]

\* FatFs refuses to resize or close a file that is not open, and, as is taken for
\* granted, the FIL of before the first file, which is whatever the stack held.
RxEot ==
  /\ Arrives("EOT")
  /\ files' = IF rx.open THEN [files EXCEPT ![Len(files)].blocks = Resized(@)] ELSE files
  /\ LET r == [rx EXCEPT !.open = FALSE] IN
     \/ /\ rx.ymodem = 0
        /\ rx' = Flush(r, <<Byte("ACK")>>, "ok") /\ UNCHANGED up
     \/ /\ rx.ymodem = 1
        /\ rx' = [r EXCEPT !.ymodem = 2, !.retry = 1, !.pc = "try"] /\ Say(<<Byte("NAK")>>)
     \/ /\ rx.ymodem = 2
        /\ rx' = ForNextFile(r)
        /\ Say(<<Byte("ACK")>>)
  /\ UNCHANGED trouble /\ Keep

RxCan ==
  /\ Arrives("CAN")
  /\ rx' = [rx EXCEPT !.pc = "can"]
  /\ UNCHANGED <<up, files, trouble>> /\ Keep

RxSecondCan ==
  /\ rx.pc = "can" /\ down # <<>> /\ down' = ByteRead(down)
  /\ rx' = IF Head(down).kind = "CAN" THEN Flush(rx, <<Byte("ACK")>>, "cancelled")
                                      ELSE Turn(rx)
  /\ UNCHANGED <<up, files, trouble>> /\ Keep

RxJunk ==
  /\ \E k \in {"junk", "ACK", "NAK", "C"} : Arrives(k)
  /\ rx' = Flush(rx, <<>>, "turn")
  /\ UNCHANGED <<up, files, trouble>> /\ Keep

-----------------------------------------------------------------------------
(* start_recv: a packet *)

\* The first packet fixes whether packets end with a CRC; none is asked for now.
Started == [rx EXCEPT !.crc = @ \/ rx.trychar = "C", !.trychar = "none"]

\* Unlike uint8_t arithmetic, packetno - 1 is no packet number when packetno is 0.
Accepts(p) ==
  /\ p.ok /\ p.crc = Started.crc
  /\ p.no \in {rx.packetno, rx.packetno - 1}

\* Mistake for SuccessIsComplete: the answer of the other branches.
RejectedWithAck(r) == Flush(r, <<Byte("ACK")>>, "try")
Rejected(r) == Flush(r, <<Byte("NAK")>>, "try")

RxReject ==
  /\ Arrives("packet") /\ ~Accepts(Head(down))
  /\ rx' = Rejected(Started)
  /\ UNCHANGED <<up, files, trouble>> /\ Keep

\* An empty name ends the session.
RxSessionEnd ==
  /\ Arrives("packet") /\ Accepts(Head(down)) /\ Head(down).no = 0 /\ Head(down).blank
  /\ rx' = Flush(Started, <<Byte("ACK")>>, "ok")
  /\ UNCHANGED <<up, files, trouble>> /\ Keep

\* The number after the name is the length of the file.  When there is nothing after
\* the name, sscanf returns -1 and size stays; data may hold any number.
HeaderSizes(p) ==
  CASE p.block > 0         -> {0, 1, rx.size}
    [] p.name \in Unsized -> {rx.size}
    [] OTHER               -> {Int16(Sizes[p.name])}

RxHeader ==
  /\ Arrives("packet") /\ Accepts(Head(down)) /\ Head(down).no = 0 /\ ~Head(down).blank
  /\ \E size \in HeaderSizes(Head(down)) :
       rx' = Again([Started EXCEPT !.trychar = "C", !.ymodem = 1, !.size = size,
                                   !.name = Head(down).name])
  /\ Say(<<Byte("ACK")>>)
  /\ UNCHANGED <<files, trouble>> /\ Keep

Following(no) == (no + 1) % Numbers

\* f_open when the packet is the first of its file, then f_write.
WithBlocks(blocks) ==
  IF rx.packetno = 1 THEN Append(files, [name |-> rx.name, blocks |-> blocks])
                     ELSE [files EXCEPT ![Len(files)].blocks = @ \o blocks]

\* On a full card f_write reports FR_OK too, and the bytes that found room.
Written(p) == IF "full" \in trouble THEN <<>> ELSE << <<p.name, p.block>> >>

\* Mistake for PrefixInPlace: a packet that comes again is written again.
IsNewOrOld(p) == Accepts(p) /\ p.no # 0
IsNew(p) == Accepts(p) /\ p.no # 0 /\ p.no = rx.packetno

\* FatFs writes to a file that is open; the first packet of a file opens it.
Writable == rx.packetno = 1 \/ rx.open

RxData ==
  /\ Arrives("packet") /\ IsNew(Head(down)) /\ Writable
  /\ rx' = Again([Started EXCEPT !.open = TRUE, !.retrans = MaxRetrans,
                                 !.packetno = Following(rx.packetno)])
  /\ files' = WithBlocks(Written(Head(down)))
  /\ Say(<<Byte("ACK")>>)
  /\ UNCHANGED trouble /\ Keep

\* f_open or f_write reports an error, as it does after an EOT closed the file.
RxCardError ==
  /\ Arrives("packet") /\ IsNew(Head(down))
  /\ IF Writable
     THEN /\ Fault /\ files' \in {files, WithBlocks(<<>>)}
          /\ trouble' = trouble \cup {"error"}
     ELSE UNCHANGED <<faults, files, trouble>>
  /\ rx' = Flush(Started, Cans, "card")
  /\ UNCHANGED <<up, patient, tx>>

RxDuplicate ==
  /\ Arrives("packet") /\ Accepts(Head(down)) /\ ~IsNew(Head(down)) /\ Head(down).no # 0
  /\ LET r == [Started EXCEPT !.retrans = @ - 1] IN
     IF r.retrans <= 0 THEN rx' = Flush(r, Cans, "failed") /\ UNCHANGED up
                       ELSE rx' = Again(r) /\ Say(<<Byte("ACK")>>)
  /\ UNCHANGED <<files, trouble>> /\ Keep

CardFills ==
  /\ Fault /\ trouble' = trouble \cup {"full"}
  /\ UNCHANGED <<line, patient, rx, tx, files>>

RxStep ==
  \/ RxAsk \/ RxNoSync \/ RxTimeout \/ RxDrop \/ RxFlushed \/ RxGone
  \/ RxEot \/ RxCan \/ RxSecondCan \/ RxJunk
  \/ RxReject \/ RxSessionEnd \/ RxHeader \/ RxData \/ RxCardError \/ RxDuplicate
=============================================================================
