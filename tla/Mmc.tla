---------------------------------- MODULE Mmc ----------------------------------
(***************************************************************************)
(* hardware/mmc.c: initialising the card, reading and writing its sectors. *)
(* Every wait ends when one of two counters is zero, which the interrupt   *)
(* of timer 0 counts down while the program waits, runs commands and sets  *)
(* them again.  FatFs makes one call at a time (mmc_disk_initialize, _read,*)
(* _write, and CTRL_SYNC of _ioctl; it uses no other as configured).       *)
(***************************************************************************)
EXTENDS SdCard

CONSTANTS
  PowerTime, InitTime, DataTime, ReadyTime, \* ticks: 10, 100, 20 and 50 in the code
  MaxCount                                  \* bound: sectors in a transfer

ASSUME MmcAssumption == {PowerTime, InitTime, DataTime, ReadyTime, MaxCount} \subseteq Nat \ {0}

VARIABLES
  noinit,   \* STA_NOINIT in Stat
  CardType,
  Timer1, Timer2,
  pc,       \* where the call is that runs; "returned" if none does
  cmd, arg, \* the command that is sent and its argument
  prefix,   \* is its CMD55 sent first?
  res,      \* the answer to a command, or what the last call returned
  ty,       \* what mmc_disk_initialize takes the card for
  call,     \* the call: what, from which sector, and how many
  count,    \* sectors it still has to transfer
  card,
  selected, \* CS is low
  moved,    \* the sectors the call has transferred
  lapsed    \* did an initialisation fail when an earlier one had not?

driver == <<noinit, CardType, cmd, arg, prefix, ty, call, count, lapsed>>
vars == <<driver, Timer1, Timer2, pc, res, card, selected, moved>>

Init ==
  /\ noinit = TRUE /\ CardType = "none" /\ Timer1 = 0 /\ Timer2 = 0
  /\ pc = "returned" /\ cmd = "none" /\ arg = 0 /\ prefix = FALSE
  /\ res = NoAnswer /\ ty = "none" /\ count = 0
  /\ call = [op |-> "none", sector |-> 0, count |-> 0]
  /\ card \in {[kind |-> k, state |-> "idle", busy |-> b, at |-> 0] :
                 k \in Kinds, b \in BOOLEAN}
  /\ selected = FALSE /\ moved = <<>> /\ lapsed = FALSE

-----------------------------------------------------------------------------
(* The interrupt, and the end of a card's work *)

Tick ==
  /\ Timer1 > 0 \/ Timer2 > 0
  /\ Timer1' = (IF Timer1 > 0 THEN Timer1 - 1 ELSE 0)
  /\ Timer2' = (IF Timer2 > 0 THEN Timer2 - 1 ELSE 0)
  /\ UNCHANGED <<driver, pc, res, card, selected, moved>>

CardReady ==
  /\ card.busy /\ card' = [card EXCEPT !.busy = FALSE]
  /\ UNCHANGED <<driver, Timer1, Timer2, pc, res, selected, moved>>

-----------------------------------------------------------------------------
(* send_cmd, select, wait_ready *)

Acmd == {"ACMD41", "ACMD23"}

\* The wait before CMD12 is left out: the card is sending.
Send(c, a) ==
  /\ cmd' = c /\ arg' = a /\ prefix' = (c \in Acmd)
  /\ pc' = (IF c = "CMD12" THEN "command" ELSE "select")

StartsWaitOnTimer1 == Timer1' = ReadyTime /\ UNCHANGED Timer2  \* mistake for CallsReturn
StartsWait == Timer2' = ReadyTime /\ UNCHANGED Timer1

Select ==
  /\ pc = "select" /\ selected' = TRUE /\ StartsWait
  /\ pc' = "wait"
  /\ UNCHANGED <<driver, res, card, moved>>

\* After a timeout the card is deselected, and the command counts as not answered.
Wait ==
  /\ pc = "wait"
  /\ \/ ~card.busy /\ pc' = "command" /\ UNCHANGED <<selected, res>>
     \/ card.busy /\ Timer2 = 0 /\ pc' = "answered" /\ selected' = FALSE /\ res' = NoAnswer
  /\ UNCHANGED <<driver, Timer1, Timer2, card, moved>>

\* The command goes on only if CMD55 is answered 0 or 1.
Command ==
  /\ pc = "command"
  /\ \E re \in Reactions(card, IF prefix THEN "CMD55" ELSE cmd, arg) :
       /\ card' = re.card /\ res' = re.r
       /\ pc' = (IF prefix /\ re.r \in {Good, Idle} THEN "select" ELSE "answered")
  /\ prefix' = FALSE
  /\ UNCHANGED <<noinit, CardType, cmd, arg, ty, call, count, lapsed, Timer1, Timer2,
                 selected, moved>>

Answered(c) == pc = "answered" /\ cmd = c

\* All calls end by deselecting the card.
Return(r) == selected' = FALSE /\ res' = r /\ pc' = "returned"

-----------------------------------------------------------------------------
(* mmc_disk_initialize *)

Called(op, s, n) ==
  /\ pc = "returned"
  /\ call' = [op |-> op, sector |-> s, count |-> n] /\ count' = n /\ moved' = <<>>

Initialize ==
  /\ Called("initialize", 0, 0)
  /\ ty' = "none" /\ Timer1' = PowerTime /\ pc' = "powering"
  /\ UNCHANGED <<noinit, CardType, cmd, arg, prefix, lapsed, Timer2, res, card, selected>>

Powered ==
  /\ pc = "powering" /\ Timer1 = 0 /\ Send("CMD0", 0)
  /\ UNCHANGED <<noinit, CardType, ty, call, count, lapsed, Timer1, Timer2, res, card,
                 selected, moved>>

\* Stat is not changed when it fails.
Finish(t) ==
  /\ CardType' = t /\ noinit' = (noinit /\ t = "none")
  /\ lapsed' = (t = "none" /\ ~noinit)
  /\ Return(IF noinit' THEN "NOINIT" ELSE "OK")
  /\ UNCHANGED <<cmd, arg, prefix, ty>>

\* On with another command, or back to the loop, or out of it.
Goes(where) == pc' = where /\ UNCHANGED <<cmd, arg, prefix>>
Stays == UNCHANGED <<noinit, CardType, lapsed, res, selected>>

Hcs == 1 \* the argument that tells a card that its host knows SDHC

\* CMD58 tells whether the card counts in sectors.
TypeAnyBlock(t) == IF t = "SD2" THEN "SD2BLOCK" ELSE t     \* mistake for TransfersAreExact
TypeOf(t) == IF t = "SD2" /\ card.kind = "SDHC" THEN "SD2BLOCK" ELSE t

Reset ==
  /\ Answered("CMD0")
  /\ IF res = Idle THEN Timer1' = InitTime /\ Send("CMD8", 0) /\ Stays /\ UNCHANGED ty
                   ELSE Finish("none") /\ UNCHANGED Timer1

\* An SDv2 card answers CMD8 with the pattern; one that does not work at this
\* voltage gives another.
Versioned ==
  /\ Answered("CMD8") /\ UNCHANGED Timer1
  /\ \/ res = Idle /\ ty' = "SD2" /\ Goes("loop") /\ Stays
     \/ res = Idle /\ Finish("none")
     \/ res # Idle /\ Send("ACMD41", 0) /\ Stays /\ UNCHANGED ty

\* MMC cards refuse ACMD41.
Told ==
  /\ Answered("ACMD41") /\ ty = "none" /\ UNCHANGED Timer1
  /\ ty' = (IF res \in {Good, Idle} THEN "SD1" ELSE "MMC") /\ Goes("loop") /\ Stays

Loop ==
  /\ pc = "loop" /\ UNCHANGED <<Timer1, ty>> /\ Stays
  /\ IF Timer1 = 0 THEN Goes("left")
     ELSE IF ty = "MMC" THEN Send("CMD1", 0)
     ELSE Send("ACMD41", IF ty = "SD2" THEN Hcs ELSE 0)

Looped ==
  /\ (Answered("ACMD41") /\ ty # "none") \/ Answered("CMD1")
  /\ UNCHANGED <<Timer1, ty>> /\ Stays
  /\ Goes(IF res = Good THEN "left" ELSE "loop")

Left ==
  /\ pc = "left" /\ UNCHANGED Timer1
  /\ IF Timer1 = 0 THEN Finish("none")
     ELSE Send(IF ty = "SD2" THEN "CMD58" ELSE "CMD16", 0) /\ Stays /\ UNCHANGED ty

Sized ==
  /\ Answered("CMD58") \/ Answered("CMD16")
  /\ Finish(IF res = Good THEN TypeOf(ty) ELSE "none") /\ UNCHANGED Timer1

InitializeStep ==
  /\ Reset \/ Versioned \/ Told \/ Loop \/ Looped \/ Left \/ Sized
  /\ UNCHANGED <<call, count, Timer2, card, moved>>

-----------------------------------------------------------------------------
(* mmc_disk_read and mmc_disk_write *)

AddressOf(s) == IF CardType = "SD2BLOCK" THEN s ELSE s * BlockSize

NotReady(op, s, n) ==
  /\ noinit /\ Called(op, s, n) /\ res' = "NOTRDY"
  /\ UNCHANGED <<noinit, CardType, cmd, arg, prefix, ty, lapsed, Timer1, Timer2, pc, card,
                 selected>>

\* Only an SD card is told beforehand how many sectors it will get.
Transfer(op, s, n) ==
  /\ ~noinit /\ Called(op, s, n)
  /\ IF op = "read" THEN Send(IF n > 1 THEN "CMD18" ELSE "CMD17", AddressOf(s))
     ELSE IF n = 1 THEN Send("CMD24", AddressOf(s))
     ELSE IF CardType \in {"SD1", "SD2", "SD2BLOCK"} THEN Send("ACMD23", n)
     ELSE Send("CMD25", AddressOf(s))
  /\ UNCHANGED <<noinit, CardType, ty, lapsed, Timer1, Timer2, res, card, selected>>

Read(s, n) == NotReady("read", s, n) \/ Transfer("read", s, n)
Write(s, n) == NotReady("write", s, n) \/ Transfer("write", s, n)

Result(left) == IF left = 0 THEN "OK" ELSE "ERROR"

Counted ==
  /\ Answered("ACMD23") /\ Send("CMD25", AddressOf(call.sector))
  /\ UNCHANGED <<noinit, CardType, ty, call, count, lapsed, Timer1, Timer2, res, card,
                 selected, moved>>

\* A failed command ends the call.
StartBlocks ==
  /\ \E c \in DOMAIN Transfers : Answered(c)
  /\ \/ res # Good /\ Return(Result(count)) /\ UNCHANGED <<Timer1, Timer2>>
     \/ /\ res = Good /\ call.op = "read" /\ Timer1' = DataTime /\ pc' = "token"
        /\ UNCHANGED <<Timer2, res, selected>>
     \/ /\ res = Good /\ call.op = "write" /\ StartsWait /\ pc' = "ready"
        /\ UNCHANGED <<res, selected>>
  /\ UNCHANGED <<driver, card, moved>>

\* What follows the last block, or a block that did not come.
EndRead(left) ==
  IF cmd = "CMD18" THEN Send("CMD12", 0) /\ UNCHANGED <<res, selected>>
                   ELSE Return(Result(left)) /\ UNCHANGED <<cmd, arg, prefix>>

\* The card sends its data token and a block, or an error token.
ReadBlock ==
  /\ pc = "token" /\ CanSend(card) /\ card' = Moved(card)
  /\ moved' = Append(moved, card.at) /\ count' = count - 1
  /\ IF count' = 0 THEN EndRead(0) /\ UNCHANGED Timer1
     ELSE Timer1' = DataTime /\ UNCHANGED <<cmd, arg, prefix, pc, res, selected>>
  /\ UNCHANGED <<noinit, CardType, ty, call, lapsed, Timer2>>

ErrorToken ==
  /\ pc = "token" /\ EndRead(count)
  /\ UNCHANGED <<noinit, CardType, ty, call, count, lapsed, Timer1, Timer2, card, moved>>

NoToken == Timer1 = 0 /\ ErrorToken

StopRead ==
  /\ Answered("CMD12") /\ Return(Result(count))
  /\ UNCHANGED <<driver, Timer1, Timer2, card, moved>>

\* After a block.  A transfer of several is stopped when there are no more, or
\* when the card refused one or was not ready for it.
EndBlock(left, accepted) ==
  IF call.count = 1 THEN Return(Result(left)) /\ UNCHANGED <<Timer1, Timer2>>
  ELSE /\ pc' = (IF accepted /\ left > 0 THEN "ready" ELSE "stop")
       /\ StartsWait /\ UNCHANGED <<res, selected>>

WriteBlock ==
  /\ pc = "ready"
  /\ \/ /\ ~card.busy /\ CanTake(card) /\ card' = Moved(card)
        /\ moved' = Append(moved, card.at) /\ count' = count - 1
        /\ EndBlock(count - 1, TRUE)
     \/ ~card.busy /\ UNCHANGED <<card, moved, count>> /\ EndBlock(count, FALSE)
     \/ card.busy /\ Timer2 = 0 /\ UNCHANGED <<card, moved, count>> /\ EndBlock(count, FALSE)
  /\ UNCHANGED <<noinit, CardType, cmd, arg, prefix, ty, call, lapsed>>

\* Mistake for SuccessIsComplete: a stop token that could not be sent does not count.
StopUnheeded ==
  /\ pc = "stop"
  /\ \/ ~card.busy /\ card' = Stopped(card)
     \/ card.busy /\ Timer2 = 0 /\ UNCHANGED card
  /\ UNCHANGED count /\ Return(Result(count))
  /\ UNCHANGED <<noinit, CardType, cmd, arg, prefix, ty, call, lapsed, Timer1, Timer2, moved>>
StopWrite ==
  /\ pc = "stop"
  /\ \/ ~card.busy /\ card' = Stopped(card) /\ UNCHANGED count /\ Return(Result(count))
     \/ card.busy /\ Timer2 = 0 /\ UNCHANGED card /\ count' = 1 /\ Return("ERROR")
  /\ UNCHANGED <<noinit, CardType, cmd, arg, prefix, ty, call, lapsed, Timer1, Timer2, moved>>

-----------------------------------------------------------------------------
(* CTRL_SYNC *)

StartSync ==
  /\ ~noinit /\ Called("sync", 0, 0) /\ selected' = TRUE /\ StartsWait /\ pc' = "sync"
  /\ UNCHANGED <<noinit, CardType, cmd, arg, prefix, ty, lapsed, res, card>>

Sync == NotReady("sync", 0, 0) \/ StartSync

Synced ==
  /\ pc = "sync"
  /\ \/ ~card.busy /\ Return("OK")
     \/ card.busy /\ Timer2 = 0 /\ Return("ERROR")
  /\ UNCHANGED <<driver, Timer1, Timer2, card, moved>>

-----------------------------------------------------------------------------

\* What the program does by itself.
Runs ==
  Select \/ Wait \/ Command \/ Powered \/ InitializeStep \/ Counted \/ StartBlocks \/ NoToken
  \/ StopRead \/ WriteBlock \/ StopWrite \/ Synced

Calls ==
  \/ Initialize \/ Sync
  \/ \E s \in Sectors, n \in 1 .. MaxCount :
       s + n - 1 \in Sectors /\ (Read(s, n) \/ Write(s, n))

Next == Runs \/ Calls \/ Tick \/ CardReady \/ ReadBlock \/ ErrorToken

\* Timer 0 goes on counting, with interrupts enabled; the card owes nothing.
Spec == Init /\ [][Next]_vars /\ WF_vars(Runs) /\ WF_vars(Tick)

-----------------------------------------------------------------------------
(* Properties *)

Asked == [i \in 1 .. call.count |-> call.sector + i - 1]

\* As long as no card was lost in a later initialisation, the sectors that are
\* read and written are those that were asked for, in order: a byte address
\* never goes to a card that counts in sectors, nor the other way round.
TransfersAreExact ==
  ~lapsed => Len(moved) <= Len(Asked) /\ moved = SubSeq(Asked, 1, Len(moved))

\* mmc_disk_read ends a read of several with CMD12 and does not look at the answer:
\* the card may not have seen it, and goes on sending.
StopLost == cmd = "CMD12" /\ card.state = "reads"

\* A read or write that reports success has transferred every sector that it was to
\* transfer, and the card is out of the transfer, unless the CMD12 that ends a read
\* of several was lost; a sync that does leaves no write going on.  After any call
\* the card is deselected.
SuccessIsComplete ==
  pc = "returned" =>
    /\ ~selected
    /\ res = "OK" /\ call.op \in {"read", "write"} =>
         Len(moved) = call.count /\ (card.state = "ready" \/ StopLost)
    /\ res = "OK" /\ call.op = "sync" => ~card.busy

\* Every call ends, however the card behaves.
CallsReturn == pc # "returned" ~> pc = "returned"

\* A transfer that is reported as done was of the sectors asked for ("Start
\* sector number (LBA)"), whatever went before.
SectorIsLba ==
  pc = "returned" /\ res = "OK" /\ call.op \in {"read", "write"} => moved = Asked
=============================================================================
