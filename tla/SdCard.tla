-------------------------------- MODULE SdCard --------------------------------
(***************************************************************************)
(* An MMC or SD card on the SPI bus, as hardware/mmc.c uses it.  The card  *)
(* may be slow, lose a command, answer late, refuse a block or stop in the *)
(* middle of a transfer; what it does for a command it does right.         *)
(***************************************************************************)
EXTENDS Integers, Sequences

CONSTANTS
  Sectors,   \* 0 .. n, the sectors of the card
  BlockSize  \* bytes in a sector (512 in the code)

ASSUME CardAssumption == BlockSize \in Nat \ {0} /\ Sectors \subseteq Nat

Kinds == {"MMC", "SD1", "SD2", "SDHC"}

\* R1 responses: 0; 1, of a card that is being initialised; an error; none.
Good == "0"
Idle == "idle"
Illegal == "illegal"
NoAnswer == "none"

\* An SDHC card counts in sectors, and the others in bytes.
SectorAt(card, arg) ==
  CASE card.kind = "SDHC" -> arg
    [] card.kind # "SDHC" /\ arg % BlockSize = 0 -> arg \div BlockSize
    [] OTHER -> -1

Transfers == [CMD17 |-> "read", CMD18 |-> "reads", CMD24 |-> "write", CMD25 |-> "writes"]

\* At the end of a transfer of several sectors.
Stopped(card) == [card EXCEPT !.state = "ready", !.busy = TRUE]

\* The card at the end of a command and what it answers, if nothing goes wrong.
Executed(card, cmd, arg) ==
  LET sd == card.kind # "MMC"
      idle == card.state = "idle"
      answers(r) == [card |-> card, r |-> r]
      becomes(s, r) == [card |-> [card EXCEPT !.state = s, !.busy = FALSE], r |-> r]
      wakes == {becomes("idle", Idle), becomes("ready", Good)}
  IN IF card.state \in {"write", "writes"} THEN {answers(NoAnswer)}
     ELSE IF card.state = "reads" THEN
       IF cmd = "CMD12" THEN {[card |-> Stopped(card), r |-> Good]} ELSE {answers(Illegal)}
     ELSE CASE cmd = "CMD0" -> {becomes("idle", Idle)}
            [] cmd = "CMD8" /\ card.kind \in {"SD2", "SDHC"} /\ idle -> {answers(Idle)}
            [] cmd = "CMD55" /\ sd -> {answers(IF idle THEN Idle ELSE Good)}
            [] cmd = "ACMD41" /\ sd /\ (card.kind = "SDHC" => arg # 0) -> wakes
            [] cmd = "ACMD41" /\ card.kind = "SDHC" /\ arg = 0 -> {becomes("idle", Idle)}
            [] cmd = "CMD1" /\ ~sd -> wakes
            [] cmd \in {"CMD16", "CMD58"} \/ (cmd = "ACMD23" /\ sd) ->
                 {answers(IF idle THEN Idle ELSE Good)}
            [] cmd \in DOMAIN Transfers /\ ~idle /\ SectorAt(card, arg) \in Sectors ->
                 {[card |-> [card EXCEPT !.state = Transfers[cmd], !.at = SectorAt(card, arg)],
                   r |-> Good]}
            [] OTHER -> {answers(Illegal)}

\* A command may be lost, and an answer come too late to be seen.
Reactions(card, cmd, arg) ==
  {[card |-> card, r |-> NoAnswer]} \cup
  UNION {{e, [e EXCEPT !.r = NoAnswer]} : e \in Executed(card, cmd, arg)}

\* After it sent, or took, a block.
Moved(card) ==
  [card EXCEPT !.at = @ + 1,
               !.state = IF @ \in {"read", "write"} THEN "ready" ELSE @,
               !.busy = card.state \in {"write", "writes"}]

CanSend(card) == card.state \in {"read", "reads"} /\ card.at \in Sectors
CanTake(card) == card.state \in {"write", "writes"} /\ card.at \in Sectors
=============================================================================
