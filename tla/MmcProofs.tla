----------------------------- MODULE MmcProofs -----------------------------
(***************************************************************************)
(* Proofs about Mmc, for cards of every size and of every kind that SdCard *)
(* knows, waits of every length and transfers of any number of sectors:    *)
(* what was transferred is what was asked for, and success means all of it.*)
(***************************************************************************)
EXTENDS Mmc, TLAPS

-----------------------------------------------------------------------------
(* The inductive invariant *)

States == {"idle", "ready", "read", "reads", "write", "writes"}
CardStates == [kind : Kinds, busy : BOOLEAN, at : Int, state : States]

Sending == {"select", "wait", "command", "answered"}
InitCommands == {"CMD0", "CMD8", "ACMD41", "CMD1", "CMD58", "CMD16"}

\* The commands that a transfer consists of.
ReadCommands(n) == IF n = 1 THEN {"CMD17"} ELSE {"CMD18", "CMD12"}
WriteCommands(n) == IF n = 1 THEN {"CMD24"} ELSE {"ACMD23", "CMD25"}

Initializing == pc \notin {"returned", "powering"} /\ call.op = "initialize"
Transferring == pc # "returned" /\ call.op \in {"read", "write"}

TypeOK ==
  /\ noinit \in BOOLEAN /\ lapsed \in BOOLEAN
  /\ CardType \in {"none", "MMC", "SD1", "SD2", "SD2BLOCK"}
  /\ ty \in {"none", "MMC", "SD1", "SD2"}
  /\ arg \in Nat /\ count \in Int
  /\ call \in [op : {"none", "initialize", "read", "write", "sync"},
               sector : Nat, count : Nat]
  /\ moved \in Seq(Int)
  /\ card \in CardStates

\* The places of a call are those of its function.
PlaceKnown ==
  /\ pc \in Sending => call.op \in {"initialize", "read", "write"}
  /\ pc \in {"powering", "loop", "left"} => call.op = "initialize"
  /\ pc = "token" => call.op = "read"
  /\ pc \in {"ready", "stop"} => call.op = "write"
  /\ pc = "sync" => call.op = "sync"
  /\ pc \in Sending \cup {"returned", "powering", "loop", "left", "token",
                          "ready", "stop", "sync"}

\* A function sends its own commands.
CommandKnown ==
  /\ Initializing => cmd \in InitCommands
  /\ Transferring =>
       /\ call.op = "read" => cmd \in ReadCommands(call.count)
       /\ call.op = "write" => cmd \in WriteCommands(call.count)
       /\ pc = "stop" => call.count # 1

\* While mmc_disk_initialize runs, a card that counts in sectors stays idle
\* unless it is told that the host does too, so that no other type than SD2
\* lets it become ready.
KindKnown ==
  Initializing =>
    /\ cmd = "CMD0" => pc \in Sending
    /\ cmd = "CMD0" /\ pc = "answered" /\ res = Idle => card.state = "idle"
    /\ cmd # "CMD0" /\ card.kind = "SDHC" /\ ty # "SD2" => card.state = "idle"
    /\ cmd = "ACMD41" /\ ty # "SD2" => arg = 0
    /\ cmd = "CMD58" => ty = "SD2"
    /\ pc = "answered" /\ cmd = "CMD16" /\ res = Good => card.state # "idle"
    /\ cmd = "CMD16" => ty # "SD2"

\* The driver counts as the card does, unless the card was lost.
TypeKnown == ~noinit /\ ~lapsed => (CardType = "SD2BLOCK" <=> card.kind = "SDHC")

\* What a transfer still has to do.
CountKnown ==
  /\ call.op \notin {"read", "write"} => moved = <<>>
  /\ call.op \in {"read", "write"} => call.count > 0 /\ Len(moved) <= call.count
  /\ Transferring => ~noinit /\ count = call.count - Len(moved)

\* A transfer begins where it was told to.
StartKnown ==
  Transferring /\ pc \in Sending /\ cmd # "CMD12" =>
    /\ moved = <<>>
    /\ cmd \in DOMAIN Transfers => arg = AddressOf(call.sector)

\* The card is at the next sector of the transfer.
Underway ==
  \/ pc \in {"token", "ready"}
  \/ pc = "answered" /\ cmd \in DOMAIN Transfers /\ res = Good

CardKnown ==
  /\ Transferring /\ Underway =>
       /\ cmd \in DOMAIN Transfers
       /\ card.state = Transfers[cmd]
       /\ card.at = SectorAt(card, AddressOf(call.sector)) + Len(moved)
       /\ count > 0
  /\ Transferring /\ cmd = "CMD12" => card.state \in {"ready", "reads"}

\* The sectors moved follow each other from the one that was asked for.
OrderKnown == ~lapsed => \A i \in 1 .. Len(moved) : moved[i] = call.sector + i - 1

Inv ==
  /\ TypeOK
  /\ PlaceKnown
  /\ CommandKnown
  /\ KindKnown
  /\ TypeKnown
  /\ CountKnown
  /\ StartKnown
  /\ CardKnown
  /\ OrderKnown
  /\ SuccessIsComplete

-----------------------------------------------------------------------------
(* The card *)

\* The state of a card changes alone.
LEMMA Becomes ==
  ASSUME card \in CardStates, NEW s \in States
  PROVE  /\ [card EXCEPT !.state = s, !.busy = FALSE] \in CardStates
         /\ [card EXCEPT !.state = s, !.busy = FALSE].kind = card.kind
         /\ [card EXCEPT !.state = s, !.busy = FALSE].state = s
BY DEF States, CardStates

\* A transfer begins at a sector of the card.
LEMMA StartsTransfer ==
  ASSUME card \in CardStates, NEW s \in States, NEW n \in Int
  PROVE  /\ [card EXCEPT !.state = s, !.at = n] \in CardStates
         /\ [card EXCEPT !.state = s, !.at = n].kind = card.kind
         /\ [card EXCEPT !.state = s, !.at = n].state = s
         /\ [card EXCEPT !.state = s, !.at = n].at = n
BY DEF States, CardStates

\* What an answered command has done to a card.
LEMMA ExecutedDoes ==
  ASSUME card \in CardStates, NEW c, NEW a \in Nat, NEW re \in Executed(card, c, a)
  PROVE  /\ re.card \in CardStates
         /\ re.card.kind = card.kind
         /\ c \in DOMAIN Transfers /\ re.r = Good =>
              re.card.state = Transfers[c] /\ re.card.at = SectorAt(card, a)
         /\ c \in {"CMD12", "CMD55"} /\ card.state \in {"ready", "reads"} =>
              re.card.state \in {"ready", "reads"}
         /\ c = "CMD0" /\ re.r = Idle => re.card.state = "idle"
         /\ c = "CMD16" /\ re.r = Good => re.card.state # "idle"
         /\ card.state = "idle" /\ card.kind = "SDHC" /\ (c = "ACMD41" => a = 0) =>
              re.card.state = "idle"
<1> USE DEF Good, Idle, Illegal, NoAnswer
<1>1. CASE card.state \in {"write", "writes"}
  BY <1>1 DEF Executed, Transfers
<1>2. CASE card.state = "reads"
  <2>1. CASE c = "CMD12"
    <3>1. re = [card |-> Stopped(card), r |-> Good]
      BY <1>2, <2>1 DEF Executed
    <3> QED BY <1>2, <2>1, <3>1 DEF Transfers, Stopped, CardStates, States
  <2>2. CASE c # "CMD12"
    <3>1. re = [card |-> card, r |-> Illegal]
      BY <1>2, <2>2 DEF Executed
    <3> QED BY <1>2, <2>2, <3>1 DEF Transfers
  <2> QED BY <2>1, <2>2
<1>3. CASE card.state \notin {"write", "writes", "reads"}
  <2>1. CASE c = "CMD0"
    <3>1. re = [card |-> [card EXCEPT !.state = "idle", !.busy = FALSE], r |-> Idle]
      BY <1>3, <2>1 DEF Executed, Transfers
    <3> QED BY <1>3, <2>1, <3>1, Becomes DEF Transfers, States
  <2>2. CASE c = "CMD8"
    BY <1>3, <2>2 DEF Executed, Transfers
  <2>3. CASE c = "CMD55"
    BY <1>3, <2>3 DEF Executed, Transfers
  <2>4. CASE c = "ACMD41"
    <3>1. \/ re = [card |-> [card EXCEPT !.state = "idle", !.busy = FALSE], r |-> Idle]
          \/ /\ re = [card |-> [card EXCEPT !.state = "ready", !.busy = FALSE], r |-> Good]
             /\ a # 0 \/ card.kind # "SDHC"
          \/ re = [card |-> card, r |-> Illegal]
      BY <1>3, <2>4 DEF Executed, Transfers
    <3>2. CASE re = [card |-> [card EXCEPT !.state = "idle", !.busy = FALSE], r |-> Idle]
      BY <1>3, <2>4, <3>2, Becomes DEF Transfers, States
    <3>3. CASE /\ re = [card |-> [card EXCEPT !.state = "ready", !.busy = FALSE], r |-> Good]
               /\ a # 0 \/ card.kind # "SDHC"
      BY <1>3, <2>4, <3>3, Becomes DEF Transfers, States
    <3>4. CASE re = [card |-> card, r |-> Illegal]
      BY <1>3, <2>4, <3>4 DEF Transfers
    <3> QED BY <3>1, <3>2, <3>3, <3>4
  <2>5. CASE c = "CMD1"
    <3>1. \/ re = [card |-> [card EXCEPT !.state = "idle", !.busy = FALSE], r |-> Idle]
          \/ /\ re = [card |-> [card EXCEPT !.state = "ready", !.busy = FALSE], r |-> Good]
             /\ card.kind = "MMC"
          \/ re = [card |-> card, r |-> Illegal]
      BY <1>3, <2>5 DEF Executed, Transfers
    <3>2. CASE re = [card |-> [card EXCEPT !.state = "idle", !.busy = FALSE], r |-> Idle]
      BY <1>3, <2>5, <3>2, Becomes DEF Transfers, States
    <3>3. CASE /\ re = [card |-> [card EXCEPT !.state = "ready", !.busy = FALSE], r |-> Good]
               /\ card.kind = "MMC"
      BY <1>3, <2>5, <3>3, Becomes DEF Transfers, States
    <3>4. CASE re = [card |-> card, r |-> Illegal]
      BY <1>3, <2>5, <3>4 DEF Transfers
    <3> QED BY <3>1, <3>2, <3>3, <3>4
  <2>6. CASE c = "CMD16"
    BY <1>3, <2>6 DEF Executed, Transfers
  <2>7. CASE c = "CMD58"
    BY <1>3, <2>7 DEF Executed, Transfers
  <2>8. CASE c = "ACMD23"
    BY <1>3, <2>8 DEF Executed, Transfers
  <2>9. CASE c \in DOMAIN Transfers
    <3>1. \/ re = [card |-> card, r |-> Illegal]
          \/ /\ re = [card |-> [card EXCEPT !.state = Transfers[c],
                                          !.at = SectorAt(card, a)], r |-> Good]
             /\ card.state # "idle" /\ SectorAt(card, a) \in Sectors
      BY <1>3, <2>9 DEF Executed, Transfers
    <3>2. Transfers[c] \in {"read", "reads", "write", "writes"}
      BY <2>9 DEF Transfers
    <3>3. Sectors \subseteq Nat
      BY CardAssumption
    <3>4. c \notin {"CMD0", "CMD12", "CMD16", "CMD55", "ACMD41"}
      BY <2>9 DEF Transfers
    <3> HIDE DEF Transfers
    <3>5. CASE re = [card |-> card, r |-> Illegal]
      BY <3>4, <3>5
    <3>6. CASE /\ re = [card |-> [card EXCEPT !.state = Transfers[c],
                                             !.at = SectorAt(card, a)], r |-> Good]
               /\ card.state # "idle" /\ SectorAt(card, a) \in Sectors
      <4>1. Transfers[c] \in States /\ SectorAt(card, a) \in Int
        BY <3>2, <3>3, <3>6 DEF States
      <4>2. /\ re.card \in CardStates /\ re.card.kind = card.kind
            /\ re.card.state = Transfers[c] /\ re.card.at = SectorAt(card, a)
        BY <3>6, <4>1, StartsTransfer
      <4> QED BY <2>9, <3>4, <3>6, <4>2
    <3> QED BY <3>1, <3>5, <3>6
  <2>10. CASE c \notin InitCommands \cup DOMAIN Transfers \cup {"CMD55", "ACMD23"}
    BY <1>3, <2>10 DEF Executed, Transfers, InitCommands
  <2> QED BY <2>1, <2>2, <2>3, <2>4, <2>5, <2>6, <2>7, <2>8, <2>9, <2>10
             DEF InitCommands
<1> QED BY <1>1, <1>2, <1>3

\* Nor does a lost command or answer do anything else.
LEMMA ReactionDoes ==
  ASSUME card \in CardStates, NEW c, NEW a \in Nat, NEW re \in Reactions(card, c, a)
  PROVE  /\ re.card \in CardStates
         /\ re.card.kind = card.kind
         /\ c \in DOMAIN Transfers /\ re.r = Good =>
              re.card.state = Transfers[c] /\ re.card.at = SectorAt(card, a)
         /\ c \in {"CMD12", "CMD55"} /\ card.state \in {"ready", "reads"} =>
              re.card.state \in {"ready", "reads"}
         /\ c = "CMD0" /\ re.r = Idle => re.card.state = "idle"
         /\ c = "CMD16" /\ re.r = Good => re.card.state # "idle"
         /\ card.state = "idle" /\ card.kind = "SDHC" /\ (c = "ACMD41" => a = 0) =>
              re.card.state = "idle"
<1>1. CASE re = [card |-> card, r |-> NoAnswer]
  BY <1>1 DEF NoAnswer, Good, Idle
<1>2. CASE \E e \in Executed(card, c, a) : re = e
  BY <1>2, ExecutedDoes
<1>3. CASE \E e \in Executed(card, c, a) : re = [e EXCEPT !.r = NoAnswer]
  <2>1. PICK e \in Executed(card, c, a) : re = [e EXCEPT !.r = NoAnswer]
    BY <1>3
  <2>2. re = [card |-> e.card, r |-> NoAnswer]
    BY <2>1 DEF Executed
  <2> QED BY <2>2, ExecutedDoes DEF NoAnswer, Good, Idle
<1> QED BY <1>1, <1>2, <1>3 DEF Reactions

\* What else happens to a card.
LEMMA CardMoves ==
  ASSUME card \in CardStates
  PROVE  /\ Moved(card) \in CardStates
         /\ Moved(card).kind = card.kind /\ Moved(card).at = card.at + 1
         /\ Moved(card).state = IF card.state \in {"read", "write"} THEN "ready" ELSE card.state
         /\ Stopped(card) \in CardStates
         /\ Stopped(card).kind = card.kind /\ Stopped(card).state = "ready"
<1>1. /\ Stopped(card) \in CardStates
      /\ Stopped(card).kind = card.kind /\ Stopped(card).state = "ready"
  BY DEF CardStates, States, Stopped
<1>2. PICK b \in BOOLEAN : b <=> card.state \in {"write", "writes"}
  <2>1. CASE card.state \in {"write", "writes"}
    <3>1. TRUE <=> card.state \in {"write", "writes"}
      BY <2>1
    <3> QED BY <3>1
  <2>2. CASE card.state \notin {"write", "writes"}
    <3>1. FALSE <=> card.state \in {"write", "writes"}
      BY <2>2
    <3> QED BY <3>1
  <2> QED BY <2>1, <2>2
<1>3. PICK s \in States :
        s = IF card.state \in {"read", "write"} THEN "ready" ELSE card.state
  BY DEF CardStates, States
<1>4. Moved(card) = [card EXCEPT !.at = card.at + 1, !.state = s, !.busy = b]
  BY <1>2, <1>3 DEF Moved, CardStates
<1>5. card.at + 1 \in Int
  BY DEF CardStates
<1>6. /\ Moved(card) \in CardStates
      /\ Moved(card).kind = card.kind /\ Moved(card).at = card.at + 1
      /\ Moved(card).state = s
  BY <1>4, <1>5 DEF CardStates
<1> QED BY <1>1, <1>3, <1>6

\* A card is at the sector that it was sent the address of.
LEMMA AddressesMeet ==
  ASSUME TypeOK, TypeKnown, ~noinit, ~lapsed, NEW s \in Nat
  PROVE  SectorAt(card, AddressOf(s)) = s
<1>1. (s * BlockSize) % BlockSize = 0 /\ (s * BlockSize) \div BlockSize = s
  BY CardAssumption
<1> QED BY <1>1 DEF TypeOK, TypeKnown, AddressOf, SectorAt

\* Addresses are natural numbers.
LEMMA AddressNat == ASSUME NEW s \in Nat PROVE AddressOf(s) \in Nat
BY CardAssumption DEF AddressOf

\* The steps of mmc_disk_initialize are taken in it.
LEMMA InitializeOnly ==
  ASSUME Inv, InitializeStep
  PROVE  Initializing /\ moved = <<>>
<1>1. \/ pc \in {"loop", "left"}
      \/ pc = "answered" /\ cmd \in InitCommands
  BY DEF InitializeStep, Reset, Versioned, Told, Loop, Looped, Left, Sized,
     Answered, InitCommands
<1>2. call.op = "initialize"
  <2>1. CASE pc \in {"loop", "left"}
    BY <2>1 DEF Inv, PlaceKnown
  <2>2. CASE pc = "answered" /\ cmd \in InitCommands
    BY <2>2 DEF Inv, PlaceKnown, CommandKnown, Sending, Transferring,
       InitCommands,
                ReadCommands, WriteCommands
  <2> QED BY <1>1, <2>1, <2>2
<1> QED BY <1>1, <1>2 DEF Initializing, Inv, CountKnown

\* A block that is read or written.
BlockMoved == card' = Moved(card) /\ moved' = Append(moved, card.at) /\ count' = count - 1

\* The card, the list of sectors and the count go on by one.
LEMMA BlockMoves ==
  ASSUME TypeOK, BlockMoved
  PROVE  /\ card' \in CardStates /\ card'.kind = card.kind /\ card'.at = card.at + 1
         /\ card'.state = IF card.state \in {"read", "write"} THEN "ready" ELSE card.state
         /\ moved' \in Seq(Int) /\ Len(moved') = Len(moved) + 1
         /\ \A i \in 1 .. Len(moved) : moved'[i] = moved[i]
         /\ moved'[Len(moved) + 1] = card.at
         /\ count' \in Int
<1>1. card \in CardStates /\ card.at \in Int /\ moved \in Seq(Int) /\ count \in Int
  BY DEF TypeOK, CardStates
<1>2. moved' = Append(moved, card.at)
  BY DEF BlockMoved
<1>3. /\ moved' \in Seq(Int) /\ Len(moved') = Len(moved) + 1
      /\ \A i \in 1 .. Len(moved) : moved'[i] = moved[i]
      /\ moved'[Len(moved) + 1] = card.at
  BY <1>1, <1>2
<1> QED BY <1>1, <1>3, CardMoves DEF BlockMoved

\* What reading a block leaves: the next one to wait for, or the end.
LEMMA ReadBlockDoes ==
  ASSUME Inv, ReadBlock
  PROVE  /\ Transferring /\ Underway /\ BlockMoved /\ call.op = "read" /\ pc = "token"
         /\ cmd \in ReadCommands(call.count) /\ cmd # "CMD12"
         /\ \/ count' # 0 /\ pc' = "token" /\ cmd' = cmd
            \/ count' = 0 /\ cmd = "CMD18" /\ pc' = "command" /\ cmd' = "CMD12"
            \/ count' = 0 /\ cmd = "CMD17" /\ pc' = "returned" /\ selected' = FALSE
         /\ UNCHANGED <<call, noinit, lapsed, CardType>>
<1>1. pc = "token" /\ BlockMoved /\ UNCHANGED <<call, noinit, lapsed, CardType>>
  BY DEF ReadBlock, BlockMoved
<1>2. Transferring /\ Underway /\ call.op = "read"
  BY <1>1 DEF Inv, PlaceKnown, Transferring, Underway
<1>3. cmd \in ReadCommands(call.count) /\ cmd # "CMD12"
  BY <1>2 DEF Inv, CommandKnown, CardKnown, Transfers
<1>4. CASE count' = 0
  BY <1>1, <1>2, <1>3, <1>4 DEF ReadBlock, EndRead, Send, Return, ReadCommands
<1>5. CASE count' # 0
  BY <1>1, <1>2, <1>3, <1>5 DEF ReadBlock
<1> QED BY <1>4, <1>5

\* What writing a block leaves.
LEMMA WriteBlockDoes ==
  ASSUME Inv, WriteBlock
  PROVE  /\ Transferring /\ Underway /\ call.op = "write" /\ pc = "ready"
         /\ cmd \in WriteCommands(call.count) /\ cmd \in {"CMD24", "CMD25"}
         /\ BlockMoved \/ UNCHANGED <<card, moved, count>>
         /\ \/ call.count = 1 /\ pc' = "returned" /\ selected' = FALSE /\ res' = Result(count')
            \/ call.count # 1 /\ pc' = "ready" /\ count' > 0
            \/ call.count # 1 /\ pc' = "stop"
         /\ UNCHANGED <<call, cmd, noinit, lapsed, CardType>>
<1>1. pc = "ready" /\ UNCHANGED <<call, cmd, noinit, lapsed, CardType>>
  BY DEF WriteBlock
<1>2. Transferring /\ Underway /\ call.op = "write"
  BY <1>1 DEF Inv, PlaceKnown, Transferring, Underway
<1>3. cmd \in WriteCommands(call.count) /\ cmd \in {"CMD24", "CMD25"}
  BY <1>2 DEF Inv, CommandKnown, CardKnown, Transfers, WriteCommands
<1>4. CASE BlockMoved /\ EndBlock(count - 1, TRUE)
  <2>1. count' = count - 1
    BY <1>4 DEF BlockMoved
  <2> QED BY <1>1, <1>2, <1>3, <1>4, <2>1 DEF EndBlock, Return
<1>5. CASE UNCHANGED <<card, moved, count>> /\ EndBlock(count, FALSE)
  BY <1>1, <1>2, <1>3, <1>5 DEF EndBlock, Return
<1> QED BY <1>4, <1>5 DEF WriteBlock, BlockMoved

-----------------------------------------------------------------------------
(* The invariant is kept, part by part *)

\* The steps, with the parameters of the calls taken for any number.
LEMMA NextIs ==
  ASSUME Next
  PROVE  \/ Initialize
         \/ \E o \in {"read", "write", "sync"}, s \in Nat, n \in Nat :
              (o # "sync" => n > 0) /\ NotReady(o, s, n)
         \/ \E o \in {"read", "write"}, s \in Nat, n \in Nat \ {0} : Transfer(o, s, n)
         \/ StartSync
         \/ Tick \/ CardReady \/ Select \/ Wait \/ Command \/ Powered
         \/ InitializeStep
         \/ Counted \/ StartBlocks \/ ReadBlock \/ ErrorToken
         \/ StopRead \/ WriteBlock \/ StopWrite \/ Synced
<1>1. CASE \E s \in Sectors, n \in 1 .. MaxCount :
             s + n - 1 \in Sectors /\ (Read(s, n) \/ Write(s, n))
  <2>1. PICK s \in Sectors, n \in 1 .. MaxCount : Read(s, n) \/ Write(s, n)
    BY <1>1
  <2>2. s \in Nat /\ n \in Nat \ {0}
    BY CardAssumption, MmcAssumption
  <2> QED BY <2>1, <2>2 DEF Read, Write
<1>2. CASE NotReady("sync", 0, 0)
  BY <1>2
<1> QED BY <1>1, <1>2 DEF Next, Runs, Calls, Sync, NoToken

\* Types.
LEMMA TypeOKKept ==
  ASSUME Inv, Next
  PROVE  TypeOK'
<1> USE DEF Inv
<1>1. CASE Initialize
  BY <1>1 DEF TypeOK, Initialize, Called
<1>2. ASSUME NEW o \in {"read", "write", "sync"}, NEW s \in Nat, NEW n \in Nat,
               o # "sync" => n > 0, NotReady(o, s, n)
      PROVE  TypeOK'
  BY <1>2 DEF TypeOK, NotReady, Called
<1>3. ASSUME NEW o \in {"read", "write"}, NEW s \in Nat, NEW n \in Nat \ {0},
               Transfer(o, s, n)
      PROVE  TypeOK'
  <2>1. AddressOf(s) \in Nat
    BY AddressNat
  <2>2. arg' \in Nat
    BY <1>3, <2>1 DEF Transfer, Send
  <2>3. call' = [op |-> o, sector |-> s, count |-> n] /\ count' = n /\ moved' = <<>>
    BY <1>3 DEF Transfer, Called
  <2>4. UNCHANGED <<noinit, CardType, ty, lapsed, card>>
    BY <1>3 DEF Transfer
  <2> QED BY <2>2, <2>3, <2>4 DEF TypeOK
<1>4. CASE StartSync
  BY <1>4 DEF TypeOK, StartSync, Called, StartsWait
<1>5. CASE Tick
  BY <1>5 DEF TypeOK, Tick, driver
<1>6. CASE CardReady
  BY <1>6 DEF TypeOK, CardStates, CardReady, driver
<1>7. CASE Select
  BY <1>7 DEF TypeOK, Select, driver
<1>8. CASE Wait
  BY <1>8 DEF TypeOK, Wait, driver
<1>9. CASE Command
  <2>1. PICK re \in Reactions(card, IF prefix THEN "CMD55" ELSE cmd, arg) :
          /\ card' = re.card /\ res' = re.r
          /\ pc' = (IF prefix /\ re.r \in {Good, Idle} THEN "select" ELSE "answered")
    BY <1>9 DEF Command
  <2>2. card' \in CardStates
    BY <2>1, ReactionDoes DEF TypeOK
  <2> QED BY <1>9, <2>2 DEF TypeOK, Command
<1>10. CASE Powered
  BY <1>10 DEF TypeOK, Powered, Send
<1>11. CASE InitializeStep
  <2>1. CASE Reset
    <3>1. CASE res = Idle
      BY <1>11, <2>1, <3>1 DEF TypeOK, InitializeStep, Reset, Answered, Stays,
         Goes, Send, Acmd, Finish, Return
    <3>2. CASE res # Idle
      BY <1>11, <2>1, <3>2 DEF TypeOK, InitializeStep, Reset, Answered, Stays,
         Goes, Send, Acmd, Finish, Return
    <3> QED BY <2>1, <3>1, <3>2
  <2>2. CASE Versioned
    <3>1. CASE ty' = "SD2" /\ Goes("loop") /\ Stays
      BY <1>11, <2>2, <3>1 DEF TypeOK, InitializeStep, Versioned, Answered,
         Stays, Goes, Send, Acmd, Finish, Return
    <3>2. CASE Finish("none")
      BY <1>11, <2>2, <3>2 DEF TypeOK, InitializeStep, Versioned, Answered,
         Stays, Goes, Send, Acmd, Finish, Return
    <3>3. CASE Send("ACMD41", 0) /\ Stays /\ UNCHANGED ty
      BY <1>11, <2>2, <3>3 DEF TypeOK, InitializeStep, Versioned, Answered,
         Stays, Goes, Send, Acmd, Finish, Return
    <3> QED BY <2>2, <3>1, <3>2, <3>3 DEF Versioned
  <2>3. CASE Told
    BY <1>11, <2>3 DEF TypeOK, InitializeStep, Told, Answered, Stays, Goes
  <2>4. CASE Loop
    BY <1>11, <2>4 DEF TypeOK, InitializeStep, Loop, Stays, Goes, Send, Acmd,
       Hcs
  <2>5. CASE Looped
    BY <1>11, <2>5 DEF TypeOK, InitializeStep, Looped, Answered, Stays, Goes
  <2>6. CASE Left
    <3>1. CASE Timer1 = 0
      BY <1>11, <2>6, <3>1 DEF TypeOK, InitializeStep, Left, Answered, Stays,
         Goes, Send, Acmd, Finish, Return
    <3>2. CASE Timer1 # 0
      BY <1>11, <2>6, <3>2 DEF TypeOK, InitializeStep, Left, Answered, Stays,
         Goes, Send, Acmd, Finish, Return
    <3> QED BY <2>6, <3>1, <3>2
  <2>7. CASE Sized
    BY <1>11, <2>7 DEF TypeOK, InitializeStep, Sized, Answered, Finish, Return,
       TypeOf
  <2> QED BY <1>11, <2>1, <2>2, <2>3, <2>4, <2>5, <2>6, <2>7 DEF InitializeStep
<1>12. CASE Counted
  <2>1. arg' \in Nat
    BY <1>12, AddressNat DEF Counted, Send, TypeOK
  <2> QED BY <1>12, <2>1 DEF TypeOK, Counted
<1>13. CASE StartBlocks
  BY <1>13 DEF TypeOK, StartBlocks, Answered, Return, driver
<1>14. CASE ReadBlock
  <2>1. card' \in CardStates /\ moved' \in Seq(Int) /\ count' \in Int
    BY <1>14, ReadBlockDoes, BlockMoves
  <2>2. arg' \in Nat
    BY <1>14 DEF ReadBlock, EndRead, Send, TypeOK
  <2> QED BY <1>14, <2>1, <2>2 DEF TypeOK, ReadBlock
<1>15. CASE ErrorToken
  BY <1>15 DEF TypeOK, ErrorToken, EndRead, Return, Send, Acmd
<1>16. CASE StopRead
  BY <1>16 DEF TypeOK, StopRead, Answered, Return, driver
<1>17. CASE WriteBlock
  <2>1. card' \in CardStates /\ moved' \in Seq(Int) /\ count' \in Int
    BY <1>17, WriteBlockDoes, BlockMoves DEF TypeOK
  <2> QED BY <1>17, <2>1 DEF TypeOK, WriteBlock
<1>18. CASE StopWrite
  <2>1. card' \in CardStates /\ count' \in Int
    BY <1>18, CardMoves DEF StopWrite, TypeOK
  <2> QED BY <1>18, <2>1 DEF TypeOK, StopWrite
<1>19. CASE Synced
  BY <1>19 DEF TypeOK, Synced, Return, driver
<1> QED
  BY <1>1, <1>2, <1>3, <1>4, <1>5, <1>6, <1>7, <1>8, <1>9, <1>10, <1>11,
     <1>12, <1>13, <1>14, <1>15, <1>16, <1>17, <1>18, <1>19, NextIs

\* A call goes through the places of its function.
LEMMA PlaceKnownKept ==
  ASSUME Inv, Next
  PROVE  PlaceKnown'
<1> USE DEF Inv
<1>1. CASE Initialize
  BY <1>1 DEF PlaceKnown, Initialize, Called
<1>2. ASSUME NEW o \in {"read", "write", "sync"}, NEW s \in Nat, NEW n \in Nat,
               o # "sync" => n > 0, NotReady(o, s, n)
      PROVE  PlaceKnown'
  BY <1>2 DEF PlaceKnown, Sending, NotReady, Called
<1>3. ASSUME NEW o \in {"read", "write"}, NEW s \in Nat, NEW n \in Nat \ {0},
               Transfer(o, s, n)
      PROVE  PlaceKnown'
  BY <1>3 DEF PlaceKnown, Sending, Transfer, Called, Send, Acmd
<1>4. CASE StartSync
  BY <1>4 DEF PlaceKnown, Sending, StartSync, Called, StartsWait
<1>5. CASE Tick
  BY <1>5 DEF PlaceKnown, Tick, driver
<1>6. CASE CardReady
  BY <1>6 DEF PlaceKnown, CardReady, driver
<1>7. CASE Select
  BY <1>7 DEF PlaceKnown, Sending, Select, driver
<1>8. CASE Wait
  BY <1>8 DEF PlaceKnown, Sending, Wait, driver
<1>9. CASE Command
  BY <1>9 DEF PlaceKnown, Sending, Command
<1>10. CASE Powered
  BY <1>10 DEF PlaceKnown, Sending, Powered, Send
<1>11. CASE InitializeStep
  <2>1. CASE Reset
    BY <1>11, <2>1, InitializeOnly DEF PlaceKnown, InitializeStep,
       Initializing, Sending, Reset, Answered, Stays, Send, Acmd, Finish,
       Return
  <2>2. CASE Versioned
    BY <1>11, <2>2, InitializeOnly DEF PlaceKnown, InitializeStep,
       Initializing, Sending, Versioned, Answered, Stays, Goes, Send, Acmd,
       Finish, Return
  <2>3. CASE Told
    BY <1>11, <2>3, InitializeOnly DEF PlaceKnown, InitializeStep,
       Initializing, Sending, Told, Answered, Stays, Goes
  <2>4. CASE Loop
    BY <1>11, <2>4, InitializeOnly DEF PlaceKnown, InitializeStep,
       Initializing, Sending, Loop, Stays, Goes, Send, Acmd, Hcs
  <2>5. CASE Looped
    BY <1>11, <2>5, InitializeOnly DEF PlaceKnown, InitializeStep,
       Initializing, Sending, Looped, Answered, Stays, Goes
  <2>6. CASE Left
    BY <1>11, <2>6, InitializeOnly DEF PlaceKnown, InitializeStep,
       Initializing, Sending, Left, Stays, Send, Acmd, Finish, Return
  <2>7. CASE Sized
    BY <1>11, <2>7, InitializeOnly DEF PlaceKnown, InitializeStep, Sized,
       Answered, Finish, Return, TypeOf
  <2> QED BY <1>11, <2>1, <2>2, <2>3, <2>4, <2>5, <2>6, <2>7 DEF InitializeStep
<1>12. CASE Counted
  BY <1>12 DEF PlaceKnown, Sending, Counted, Answered, Send, Acmd
<1>13. CASE StartBlocks
  BY <1>13 DEF PlaceKnown, StartBlocks, Answered, Return, driver
<1>14. CASE ReadBlock
  BY <1>14 DEF PlaceKnown, Sending, ReadBlock, EndRead, Return, Send, Acmd
<1>15. CASE ErrorToken
  BY <1>15 DEF PlaceKnown, Sending, ErrorToken, EndRead, Return, Send, Acmd
<1>16. CASE StopRead
  BY <1>16 DEF PlaceKnown, StopRead, Answered, Return, driver
<1>17. CASE WriteBlock
  BY <1>17 DEF PlaceKnown, WriteBlock, EndBlock, Return
<1>18. CASE StopWrite
  BY <1>18 DEF PlaceKnown, StopWrite, Return
<1>19. CASE Synced
  BY <1>19 DEF PlaceKnown, Sending, Synced, Return, driver
<1> QED
  BY <1>1, <1>2, <1>3, <1>4, <1>5, <1>6, <1>7, <1>8, <1>9, <1>10, <1>11,
     <1>12, <1>13, <1>14, <1>15, <1>16, <1>17, <1>18, <1>19, NextIs

\* The commands are those of the call's function.
LEMMA CommandKnownKept ==
  ASSUME Inv, Next
  PROVE  CommandKnown'
<1> USE DEF Inv
<1>1. CASE Initialize
  BY <1>1 DEF CommandKnown, Initializing, Transferring, PlaceKnown, Sending,
     InitCommands, ReadCommands, WriteCommands, Initialize, Called
<1>2. ASSUME NEW o \in {"read", "write", "sync"}, NEW s \in Nat, NEW n \in Nat,
               o # "sync" => n > 0, NotReady(o, s, n)
      PROVE  CommandKnown'
  BY <1>2 DEF CommandKnown, Initializing, Transferring, PlaceKnown, Sending,
     InitCommands, ReadCommands, WriteCommands, NotReady, Called
<1>3. ASSUME NEW o \in {"read", "write"}, NEW s \in Nat, NEW n \in Nat \ {0},
               Transfer(o, s, n)
      PROVE  CommandKnown'
  BY <1>3 DEF CommandKnown, Initializing, Transferring, PlaceKnown, Sending,
     InitCommands, ReadCommands, WriteCommands, Transfer, Called, Send, Acmd
<1>4. CASE StartSync
  BY <1>4 DEF CommandKnown, Initializing, Transferring, PlaceKnown, Sending,
     InitCommands, ReadCommands, WriteCommands, StartSync, Called, StartsWait
<1>5. CASE Tick
  BY <1>5 DEF CommandKnown, Initializing, Transferring, PlaceKnown, Sending,
     InitCommands, ReadCommands, WriteCommands, Tick, driver
<1>6. CASE CardReady
  BY <1>6 DEF CommandKnown, Initializing, Transferring, PlaceKnown, Sending,
     InitCommands, ReadCommands, WriteCommands, CardReady, driver
<1>7. CASE Select
  BY <1>7 DEF CommandKnown, Initializing, Transferring, PlaceKnown, Sending,
     InitCommands, ReadCommands, WriteCommands, Select, driver
<1>8. CASE Wait
  BY <1>8 DEF CommandKnown, Initializing, Transferring, PlaceKnown, Sending,
     InitCommands, ReadCommands, WriteCommands, Wait, driver
<1>9. CASE Command
  BY <1>9 DEF CommandKnown, Initializing, Transferring, PlaceKnown, Sending,
     InitCommands, ReadCommands, WriteCommands, Command
<1>10. CASE Powered
  BY <1>10 DEF CommandKnown, Initializing, Transferring, PlaceKnown, Sending,
     InitCommands, ReadCommands, WriteCommands, Powered, Send
<1>11. CASE InitializeStep
  <2>1. CASE Reset
    BY <1>11, <2>1, InitializeOnly DEF CommandKnown, InitializeStep,
       Initializing, Transferring, InitCommands, Reset, Answered, Stays, Send,
       Acmd, Finish, Return
  <2>2. CASE Versioned
    BY <1>11, <2>2, InitializeOnly DEF CommandKnown, InitializeStep,
       Initializing, Transferring, InitCommands, Versioned, Answered, Stays,
       Goes, Send, Acmd, Finish, Return
  <2>3. CASE Told
    BY <1>11, <2>3, InitializeOnly DEF CommandKnown, InitializeStep,
       Initializing, Transferring, InitCommands, Told, Answered, Stays, Goes
  <2>4. CASE Loop
    BY <1>11, <2>4, InitializeOnly DEF CommandKnown, InitializeStep,
       Initializing, Transferring, InitCommands, Loop, Stays, Goes, Send, Acmd,
       Hcs
  <2>5. CASE Looped
    BY <1>11, <2>5, InitializeOnly DEF CommandKnown, InitializeStep,
       Initializing, Transferring, InitCommands, Looped, Answered, Stays, Goes
  <2>6. CASE Left
    BY <1>11, <2>6, InitializeOnly DEF CommandKnown, InitializeStep,
       Initializing, Transferring, InitCommands, Left, Stays, Send, Acmd,
       Finish, Return
  <2>7. CASE Sized
    BY <1>11, <2>7, InitializeOnly DEF CommandKnown, InitializeStep,
       Initializing, Transferring, InitCommands, Sized, Answered, Finish,
       Return, TypeOf
  <2> QED BY <1>11, <2>1, <2>2, <2>3, <2>4, <2>5, <2>6, <2>7 DEF InitializeStep
<1>12. CASE Counted
  BY <1>12 DEF CommandKnown, Initializing, Transferring, PlaceKnown, Sending,
     InitCommands, ReadCommands, WriteCommands, Counted, Answered, Send, Acmd
<1>13. CASE StartBlocks
  BY <1>13 DEF CommandKnown, Initializing, Transferring, PlaceKnown, Sending,
     InitCommands, ReadCommands, WriteCommands, StartBlocks, Answered, Return,
     driver
<1>14. CASE ReadBlock
  BY <1>14 DEF CommandKnown, Initializing, Transferring, PlaceKnown, Sending,
     InitCommands, ReadCommands, WriteCommands, ReadBlock, EndRead, Return,
     Send, Acmd
<1>15. CASE ErrorToken
  BY <1>15 DEF CommandKnown, Initializing, Transferring, PlaceKnown, Sending,
     InitCommands, ReadCommands, WriteCommands, ErrorToken, EndRead, Return,
     Send, Acmd
<1>16. CASE StopRead
  BY <1>16 DEF CommandKnown, Initializing, Transferring, PlaceKnown, Sending,
     InitCommands, ReadCommands, WriteCommands, StopRead, Answered, Return,
     driver
<1>17. CASE WriteBlock
  BY <1>17 DEF CommandKnown, Initializing, Transferring, PlaceKnown, Sending,
     InitCommands, ReadCommands, WriteCommands, WriteBlock, EndBlock, Return
<1>18. CASE StopWrite
  BY <1>18 DEF CommandKnown, Initializing, Transferring, PlaceKnown, Sending,
     InitCommands, ReadCommands, WriteCommands, StopWrite
<1>19. CASE Synced
  BY <1>19 DEF CommandKnown, Initializing, Transferring, PlaceKnown, Sending,
     InitCommands, ReadCommands, WriteCommands, Synced, Return, driver
<1> QED
  BY <1>1, <1>2, <1>3, <1>4, <1>5, <1>6, <1>7, <1>8, <1>9, <1>10, <1>11,
     <1>12, <1>13, <1>14, <1>15, <1>16, <1>17, <1>18, <1>19, NextIs

\* A card that counts in sectors does not become ready for a driver that takes
\* it for another.
LEMMA KindKnownKept ==
  ASSUME Inv, Next
  PROVE  KindKnown'
<1> USE DEF Inv
<1>1. CASE Initialize
  BY <1>1 DEF KindKnown, Initializing, PlaceKnown, Sending, CommandKnown,
     InitCommands, NoAnswer, Good, Idle, Initialize
<1>2. ASSUME NEW o \in {"read", "write", "sync"}, NEW s \in Nat, NEW n \in Nat,
               o # "sync" => n > 0, NotReady(o, s, n)
      PROVE  KindKnown'
  BY <1>2 DEF KindKnown, Initializing, PlaceKnown, Sending, CommandKnown,
     InitCommands, NoAnswer, Good, Idle, NotReady, Called
<1>3. ASSUME NEW o \in {"read", "write"}, NEW s \in Nat, NEW n \in Nat \ {0},
               Transfer(o, s, n)
      PROVE  KindKnown'
  BY <1>3 DEF KindKnown, Initializing, PlaceKnown, Sending, CommandKnown,
     InitCommands, NoAnswer, Good, Idle, Transfer, Called, Send, Acmd
<1>4. CASE StartSync
  BY <1>4 DEF KindKnown, Initializing, PlaceKnown, Sending, CommandKnown,
     InitCommands, NoAnswer, Good, Idle, StartSync, Called, StartsWait
<1>5. CASE Tick
  BY <1>5 DEF KindKnown, Initializing, PlaceKnown, Sending, CommandKnown,
     InitCommands, NoAnswer, Good, Idle, Tick, driver
<1>6. CASE CardReady
  BY <1>6 DEF KindKnown, Initializing, PlaceKnown, Sending, CommandKnown,
     InitCommands, NoAnswer, Good, Idle, CardReady, driver
<1>7. CASE Select
  BY <1>7 DEF KindKnown, Initializing, PlaceKnown, Sending, CommandKnown,
     InitCommands, NoAnswer, Good, Idle, Select, driver
<1>8. CASE Wait
  BY <1>8 DEF KindKnown, Initializing, PlaceKnown, Sending, CommandKnown,
     InitCommands, NoAnswer, Good, Idle, Wait, driver
<1>9. CASE Command
  <2>1. PICK re \in Reactions(card, IF prefix THEN "CMD55" ELSE cmd, arg) :
          /\ card' = re.card /\ res' = re.r
          /\ pc' = (IF prefix /\ re.r \in {Good, Idle} THEN "select" ELSE "answered")
    BY <1>9 DEF Command
  <2>2. card'.kind = card.kind
    BY <2>1, ReactionDoes DEF TypeOK
  <2>3. CASE prefix
    <3>1. card.state = "idle" /\ card.kind = "SDHC" => card'.state = "idle"
      BY <2>1, <2>3, ReactionDoes DEF TypeOK
    <3>2. res' \in {Good, Idle} => pc' # "answered"
      BY <2>1, <2>3
    <3>3. UNCHANGED <<call, cmd, arg, ty>> /\ pc = "command" /\ pc' \in {"select", "answered"}
      BY <1>9, <2>1 DEF Command
    <3> QED BY <2>2, <3>1, <3>2, <3>3 DEF KindKnown, Initializing, Sending
  <2>4. CASE ~prefix
    <3>1. /\ cmd = "CMD0" /\ res' = Idle => card'.state = "idle"
          /\ cmd = "CMD16" /\ res' = Good => card'.state # "idle"
          /\ card.state = "idle" /\ card.kind = "SDHC" /\ (cmd = "ACMD41" => arg = 0) =>
               card'.state = "idle"
      BY <2>1, <2>4, ReactionDoes DEF TypeOK
    <3>2. UNCHANGED <<call, cmd, arg, ty>> /\ pc = "command" /\ pc' = "answered"
      BY <1>9, <2>1, <2>4 DEF Command
    <3> QED BY <2>2, <3>1, <3>2 DEF KindKnown, Initializing, Sending
  <2> QED BY <2>3, <2>4
<1>10. CASE Powered
  BY <1>10 DEF KindKnown, Initializing, PlaceKnown, Sending, CommandKnown,
     InitCommands, NoAnswer, Good, Idle, Powered, Send
<1>11. CASE InitializeStep
  <2>1. CASE Reset
    BY <1>11, <2>1, InitializeOnly DEF KindKnown, InitializeStep, Initializing,
       Sending, Reset, Answered, Stays, Send, Acmd, Finish, Return
  <2>2. CASE Versioned
    BY <1>11, <2>2, InitializeOnly DEF KindKnown, InitializeStep, Versioned,
       Answered, Stays, Goes, Send, Acmd, Finish, Return
  <2>3. CASE Told
    BY <1>11, <2>3, InitializeOnly DEF KindKnown, InitializeStep, Told,
       Answered, Stays, Goes
  <2>4. CASE Loop
    BY <1>11, <2>4, InitializeOnly DEF KindKnown, InitializeStep, Initializing,
       Sending, Loop, Stays, Goes, Send, Acmd, Hcs
  <2>5. CASE Looped
    BY <1>11, <2>5, InitializeOnly DEF KindKnown, InitializeStep, Looped,
       Answered, Stays, Goes
  <2>6. CASE Left
    BY <1>11, <2>6, InitializeOnly DEF KindKnown, InitializeStep, Initializing,
       Sending, Left, Stays, Send, Acmd, Finish, Return
  <2>7. CASE Sized
    BY <1>11, <2>7, InitializeOnly DEF KindKnown, InitializeStep, Sized,
       Answered, Finish, Return, TypeOf
  <2> QED BY <1>11, <2>1, <2>2, <2>3, <2>4, <2>5, <2>6, <2>7 DEF InitializeStep
<1>12. CASE Counted
  BY <1>12 DEF KindKnown, Initializing, PlaceKnown, Sending, CommandKnown,
     InitCommands, NoAnswer, Good, Idle, Counted, Answered, Send, Acmd
<1>13. CASE StartBlocks
  BY <1>13 DEF KindKnown, Initializing, PlaceKnown, Sending, CommandKnown,
     InitCommands, NoAnswer, Good, Idle, StartBlocks, Answered, Return, driver
<1>14. CASE ReadBlock
  BY <1>14 DEF KindKnown, Initializing, PlaceKnown, Sending, CommandKnown,
     InitCommands, NoAnswer, Good, Idle, ReadBlock
<1>15. CASE ErrorToken
  BY <1>15 DEF KindKnown, Initializing, PlaceKnown, Sending, CommandKnown,
     InitCommands, NoAnswer, Good, Idle, ErrorToken
<1>16. CASE StopRead
  BY <1>16 DEF KindKnown, Initializing, PlaceKnown, Sending, CommandKnown,
     InitCommands, NoAnswer, Good, Idle, StopRead, Answered, Return, driver
<1>17. CASE WriteBlock
  BY <1>17 DEF KindKnown, Initializing, PlaceKnown, Sending, CommandKnown,
     InitCommands, NoAnswer, Good, Idle, WriteBlock
<1>18. CASE StopWrite
  BY <1>18 DEF KindKnown, Initializing, PlaceKnown, Sending, CommandKnown,
     InitCommands, NoAnswer, Good, Idle, StopWrite
<1>19. CASE Synced
  BY <1>19 DEF KindKnown, Initializing, PlaceKnown, Sending, CommandKnown,
     InitCommands, NoAnswer, Good, Idle, Synced, Return, driver
<1> QED
  BY <1>1, <1>2, <1>3, <1>4, <1>5, <1>6, <1>7, <1>8, <1>9, <1>10, <1>11,
     <1>12, <1>13, <1>14, <1>15, <1>16, <1>17, <1>18, <1>19, NextIs

\* Only CMD58 makes the driver count in sectors.
LEMMA TypeKnownKept ==
  ASSUME Inv, Next
  PROVE  TypeKnown'
<1> USE DEF Inv
<1>1. CASE Initialize
  BY <1>1 DEF TypeKnown, Initialize
<1>2. ASSUME NEW o \in {"read", "write", "sync"}, NEW s \in Nat, NEW n \in Nat,
               o # "sync" => n > 0, NotReady(o, s, n)
      PROVE  TypeKnown'
  BY <1>2 DEF TypeKnown, NotReady
<1>3. ASSUME NEW o \in {"read", "write"}, NEW s \in Nat, NEW n \in Nat \ {0},
               Transfer(o, s, n)
      PROVE  TypeKnown'
  BY <1>3 DEF TypeKnown, Transfer
<1>4. CASE StartSync
  BY <1>4 DEF TypeKnown, StartSync
<1>5. CASE Tick
  BY <1>5 DEF TypeKnown, Tick, driver
<1>6. CASE CardReady
  BY <1>6 DEF TypeKnown, CardReady, driver
<1>7. CASE Select
  BY <1>7 DEF TypeKnown, Select, driver
<1>8. CASE Wait
  BY <1>8 DEF TypeKnown, Wait, driver
<1>9. CASE Command
  <2>1. PICK re \in Reactions(card, IF prefix THEN "CMD55" ELSE cmd, arg) :
          /\ card' = re.card /\ res' = re.r
          /\ pc' = (IF prefix /\ re.r \in {Good, Idle} THEN "select" ELSE "answered")
    BY <1>9 DEF Command
  <2>2. card'.kind = card.kind
    BY <2>1, ReactionDoes DEF TypeOK
  <2> QED BY <1>9, <2>2 DEF TypeKnown, Command
<1>10. CASE Powered
  BY <1>10 DEF TypeKnown, Powered
<1>11. CASE InitializeStep
  <2>1. CASE Reset
    BY <1>11, <2>1, InitializeOnly DEF TypeKnown, InitializeStep, Reset,
       Answered, Stays, Send, Acmd, Finish, Return
  <2>2. CASE Versioned
    BY <1>11, <2>2, InitializeOnly DEF TypeKnown, InitializeStep, Versioned,
       Answered, Stays, Goes, Send, Acmd, Finish, Return
  <2>3. CASE Told
    BY <1>11, <2>3, InitializeOnly DEF TypeKnown, InitializeStep, Told,
       Answered, Stays, Goes
  <2>4. CASE Loop
    BY <1>11, <2>4, InitializeOnly DEF TypeKnown, InitializeStep, Loop, Stays,
       Goes, Send, Acmd, Hcs
  <2>5. CASE Looped
    BY <1>11, <2>5, InitializeOnly DEF TypeKnown, InitializeStep, Looped,
       Answered, Stays, Goes
  <2>6. CASE Left
    BY <1>11, <2>6, InitializeOnly DEF TypeKnown, InitializeStep, Left, Stays,
       Send, Acmd, Finish, Return
  <2>7. CASE Sized
    <3>1. Initializing
      BY <1>11, InitializeOnly
    <3>2. CASE res = Good
      <4>1. TypeOf(ty) = "SD2BLOCK" <=> card.kind = "SDHC"
        BY <2>7, <3>1, <3>2 DEF KindKnown, Sized, Answered, TypeOf, TypeOK
      <4>2. CardType' = TypeOf(ty) /\ card' = card
        BY <1>11, <2>7, <3>2 DEF Sized, Finish, InitializeStep
      <4> QED BY <4>1, <4>2 DEF TypeKnown
    <3>3. CASE res # Good
      BY <2>7, <3>3 DEF TypeKnown, Sized, Finish
    <3> QED BY <3>2, <3>3
  <2> QED BY <1>11, <2>1, <2>2, <2>3, <2>4, <2>5, <2>6, <2>7 DEF InitializeStep
<1>12. CASE Counted
  BY <1>12 DEF TypeKnown, Counted
<1>13. CASE StartBlocks
  BY <1>13 DEF TypeKnown, StartBlocks, Answered, Return, driver
<1>14. CASE ReadBlock
  BY <1>14, ReadBlockDoes, BlockMoves DEF TypeKnown
<1>15. CASE ErrorToken
  BY <1>15 DEF TypeKnown, ErrorToken
<1>16. CASE StopRead
  BY <1>16 DEF TypeKnown, StopRead, Answered, Return, driver
<1>17. CASE WriteBlock
  <2>1. card'.kind = card.kind
    BY <1>17, WriteBlockDoes, BlockMoves
  <2> QED BY <1>17, <2>1 DEF TypeKnown, WriteBlock
<1>18. CASE StopWrite
  <2>1. card'.kind = card.kind
    BY <1>18, CardMoves DEF StopWrite, TypeOK
  <2> QED BY <1>18, <2>1 DEF TypeKnown, StopWrite
<1>19. CASE Synced
  BY <1>19 DEF TypeKnown, Synced, Return, driver
<1> QED
  BY <1>1, <1>2, <1>3, <1>4, <1>5, <1>6, <1>7, <1>8, <1>9, <1>10, <1>11,
     <1>12, <1>13, <1>14, <1>15, <1>16, <1>17, <1>18, <1>19, NextIs

\* The sectors to do and those done make up the call.
LEMMA CountKnownKept ==
  ASSUME Inv, Next
  PROVE  CountKnown'
<1> USE DEF Inv
<1>1. CASE Initialize
  BY <1>1 DEF CountKnown, Transferring, TypeOK, PlaceKnown, Initialize, Called
<1>2. ASSUME NEW o \in {"read", "write", "sync"}, NEW s \in Nat, NEW n \in Nat,
               o # "sync" => n > 0, NotReady(o, s, n)
      PROVE  CountKnown'
  BY <1>2 DEF CountKnown, Transferring, TypeOK, PlaceKnown, NotReady, Called
<1>3. ASSUME NEW o \in {"read", "write"}, NEW s \in Nat, NEW n \in Nat \ {0},
               Transfer(o, s, n)
      PROVE  CountKnown'
  BY <1>3 DEF CountKnown, Transfer, Called, Send, Acmd
<1>4. CASE StartSync
  BY <1>4 DEF CountKnown, StartSync, Called, StartsWait
<1>5. CASE Tick
  BY <1>5 DEF CountKnown, Transferring, TypeOK, PlaceKnown, Tick, driver
<1>6. CASE CardReady
  BY <1>6 DEF CountKnown, Transferring, TypeOK, PlaceKnown, CardReady, driver
<1>7. CASE Select
  BY <1>7 DEF CountKnown, Transferring, TypeOK, PlaceKnown, Select, driver
<1>8. CASE Wait
  BY <1>8 DEF CountKnown, Transferring, TypeOK, PlaceKnown, Wait, driver
<1>9. CASE Command
  BY <1>9 DEF CountKnown, Transferring, TypeOK, PlaceKnown, Command
<1>10. CASE Powered
  BY <1>10 DEF CountKnown, Transferring, TypeOK, PlaceKnown, Powered
<1>11. CASE InitializeStep
  BY <1>11, InitializeOnly DEF CountKnown, Initializing, Transferring,
     InitializeStep
<1>12. CASE Counted
  BY <1>12 DEF CountKnown, Transferring, TypeOK, PlaceKnown, Counted, Answered,
     Send, Acmd
<1>13. CASE StartBlocks
  BY <1>13 DEF CountKnown, Transferring, TypeOK, PlaceKnown, StartBlocks,
     Answered, Return, driver
<1>14. CASE ReadBlock
  <2>1. /\ call' = call /\ noinit' = noinit /\ Transferring /\ Underway
        /\ BlockMoved
    BY <1>14, ReadBlockDoes
  <2>2. count > 0 /\ count' = count - 1 /\ count = call.count - Len(moved)
    BY <2>1 DEF CardKnown, CountKnown, BlockMoved
  <2>3. Len(moved') = Len(moved) + 1 /\ call.count \in Nat /\ Len(moved) \in Nat
    BY <2>1, BlockMoves DEF TypeOK
  <2> QED BY <2>1, <2>2, <2>3 DEF CountKnown, Transferring
<1>15. CASE ErrorToken
  BY <1>15 DEF CountKnown, Transferring, TypeOK, PlaceKnown, ErrorToken
<1>16. CASE StopRead
  BY <1>16 DEF CountKnown, Transferring, TypeOK, PlaceKnown, StopRead,
     Answered, Return, driver
<1>17. CASE WriteBlock
  <2>1. /\ call' = call /\ noinit' = noinit /\ Transferring /\ Underway
        /\ BlockMoved \/ UNCHANGED <<moved, count>>
    BY <1>17, WriteBlockDoes
  <2>2. count > 0 /\ count = call.count - Len(moved)
    BY <2>1 DEF CardKnown, CountKnown
  <2>3. CASE BlockMoved
    <3>1. Len(moved') = Len(moved) + 1 /\ call.count \in Nat /\ Len(moved) \in Nat
      BY <2>3, BlockMoves DEF TypeOK
    <3> QED BY <2>1, <2>2, <2>3, <3>1 DEF CountKnown, Transferring, BlockMoved
  <2>4. CASE UNCHANGED <<moved, count>>
    BY <2>1, <2>4 DEF CountKnown, Transferring
  <2> QED BY <2>1, <2>3, <2>4
<1>18. CASE StopWrite
  BY <1>18 DEF CountKnown, Transferring, TypeOK, PlaceKnown, StopWrite, Return
<1>19. CASE Synced
  BY <1>19 DEF CountKnown, Transferring, TypeOK, PlaceKnown, Synced, Return,
     driver
<1> QED
  BY <1>1, <1>2, <1>3, <1>4, <1>5, <1>6, <1>7, <1>8, <1>9, <1>10, <1>11,
     <1>12, <1>13, <1>14, <1>15, <1>16, <1>17, <1>18, <1>19, NextIs

\* The command of a transfer is sent with the call's address.
LEMMA StartKnownKept ==
  ASSUME Inv, Next
  PROVE  StartKnown'
<1> USE DEF Inv
<1>1. CASE Initialize
  BY <1>1 DEF StartKnown, Transferring, AddressOf, Sending, PlaceKnown,
     Initialize
<1>2. ASSUME NEW o \in {"read", "write", "sync"}, NEW s \in Nat, NEW n \in Nat,
               o # "sync" => n > 0, NotReady(o, s, n)
      PROVE  StartKnown'
  BY <1>2 DEF StartKnown, Transferring, AddressOf, Sending, PlaceKnown,
     NotReady, Called
<1>3. ASSUME NEW o \in {"read", "write"}, NEW s \in Nat, NEW n \in Nat \ {0},
               Transfer(o, s, n)
      PROVE  StartKnown'
  <2>1. /\ call'.sector = s /\ moved' = <<>> /\ CardType' = CardType
        /\ cmd' \in DOMAIN Transfers => arg' = AddressOf(s)
    BY <1>3 DEF Transfer, Called, Send, Transfers
  <2>2. AddressOf(call.sector)' = AddressOf(s)
    BY <2>1 DEF AddressOf
  <2> QED BY <2>1, <2>2 DEF StartKnown
<1>4. CASE StartSync
  BY <1>4 DEF StartKnown, Transferring, AddressOf, Sending, PlaceKnown,
     StartSync
<1>5. CASE Tick
  BY <1>5 DEF StartKnown, Transferring, AddressOf, Sending, PlaceKnown, Tick,
     driver
<1>6. CASE CardReady
  BY <1>6 DEF StartKnown, Transferring, AddressOf, Sending, PlaceKnown,
     CardReady, driver
<1>7. CASE Select
  BY <1>7 DEF StartKnown, Transferring, AddressOf, Sending, PlaceKnown, Select,
     driver
<1>8. CASE Wait
  BY <1>8 DEF StartKnown, Transferring, AddressOf, Sending, PlaceKnown, Wait,
     driver
<1>9. CASE Command
  BY <1>9 DEF StartKnown, Transferring, AddressOf, Sending, PlaceKnown, Command
<1>10. CASE Powered
  BY <1>10 DEF StartKnown, Transferring, AddressOf, Sending, PlaceKnown,
     Powered
<1>11. CASE InitializeStep
  BY <1>11, InitializeOnly DEF StartKnown, Initializing, Transferring,
     InitializeStep
<1>12. CASE Counted
  BY <1>12 DEF StartKnown, Transferring, AddressOf, Sending, PlaceKnown,
     Counted, Answered, Send, Acmd
<1>13. CASE StartBlocks
  BY <1>13 DEF StartKnown, Transferring, AddressOf, Sending, PlaceKnown,
     StartBlocks, Answered, Return, driver
<1>14. CASE ReadBlock
  BY <1>14 DEF StartKnown, Transferring, AddressOf, Sending, PlaceKnown,
     ReadBlock, EndRead, Return, Send, Acmd
<1>15. CASE ErrorToken
  BY <1>15 DEF StartKnown, Transferring, AddressOf, Sending, PlaceKnown,
     ErrorToken, EndRead, Return, Send, Acmd
<1>16. CASE StopRead
  BY <1>16 DEF StartKnown, StopRead, Answered, Return, driver
<1>17. CASE WriteBlock
  BY <1>17 DEF StartKnown, Transferring, AddressOf, Sending, PlaceKnown,
     WriteBlock, EndBlock, Return
<1>18. CASE StopWrite
  BY <1>18 DEF StartKnown, Transferring, AddressOf, Sending, PlaceKnown,
     StopWrite, Return
<1>19. CASE Synced
  BY <1>19 DEF StartKnown, Transferring, AddressOf, Sending, PlaceKnown,
     Synced, Return, driver
<1> QED
  BY <1>1, <1>2, <1>3, <1>4, <1>5, <1>6, <1>7, <1>8, <1>9, <1>10, <1>11,
     <1>12, <1>13, <1>14, <1>15, <1>16, <1>17, <1>18, <1>19, NextIs

\* The card and the driver go on together.
LEMMA CardKnownKept ==
  ASSUME Inv, Next
  PROVE  CardKnown'
<1> USE DEF Inv
<1>1. CASE Initialize
  BY <1>1 DEF CardKnown, Transferring, Underway, AddressOf, SectorAt, Sending,
     PlaceKnown, NoAnswer, Good, Initialize, Called
<1>2. ASSUME NEW o \in {"read", "write", "sync"}, NEW s \in Nat, NEW n \in Nat,
               o # "sync" => n > 0, NotReady(o, s, n)
      PROVE  CardKnown'
  BY <1>2 DEF CardKnown, Transferring, Underway, AddressOf, SectorAt, Sending,
     PlaceKnown, NoAnswer, Good, NotReady, Called
<1>3. ASSUME NEW o \in {"read", "write"}, NEW s \in Nat, NEW n \in Nat \ {0},
               Transfer(o, s, n)
      PROVE  CardKnown'
  BY <1>3 DEF CardKnown, Transferring, Underway, AddressOf, SectorAt, Sending,
     PlaceKnown, NoAnswer, Good, Transfer, Called, Send, Acmd
<1>4. CASE StartSync
  BY <1>4 DEF CardKnown, Transferring, Underway, AddressOf, SectorAt, Sending,
     PlaceKnown, NoAnswer, Good, StartSync, Called, StartsWait
<1>5. CASE Tick
  BY <1>5 DEF CardKnown, Transferring, Underway, AddressOf, SectorAt, Sending,
     PlaceKnown, NoAnswer, Good, Tick, driver
<1>6. CASE CardReady
  BY <1>6 DEF CardKnown, Transferring, Underway, AddressOf, SectorAt, Sending,
     PlaceKnown, NoAnswer, Good, CardReady, driver
<1>7. CASE Select
  BY <1>7 DEF CardKnown, Transferring, Underway, AddressOf, SectorAt, Sending,
     PlaceKnown, NoAnswer, Good, Select, driver
<1>8. CASE Wait
  BY <1>8 DEF CardKnown, Transferring, Underway, AddressOf, SectorAt, Sending,
     PlaceKnown, NoAnswer, Good, Wait, driver
<1>9. CASE Command
  <2>1. PICK re \in Reactions(card, IF prefix THEN "CMD55" ELSE cmd, arg) :
          /\ card' = re.card /\ res' = re.r
          /\ pc' = (IF prefix /\ re.r \in {Good, Idle} THEN "select" ELSE "answered")
    BY <1>9 DEF Command
  <2>2. card'.kind = card.kind
    BY <2>1, ReactionDoes DEF TypeOK
  <2>3. /\ UNCHANGED <<call, cmd, arg, moved, count, CardType>>
        /\ pc = "command" /\ pc' \in {"select", "answered"}
    BY <1>9, <2>1 DEF Command
  <2>4. Transferring /\ cmd = "CMD12" => card'.state \in {"ready", "reads"}
    <3>1. SUFFICES ASSUME Transferring, cmd = "CMD12"
          PROVE  card'.state \in {"ready", "reads"}
      OBVIOUS
    <3>2. card.state \in {"ready", "reads"}
      BY <3>1 DEF CardKnown
    <3>3. (IF prefix THEN "CMD55" ELSE cmd) \in {"CMD12", "CMD55"}
      BY <3>1
    <3> QED BY <2>1, <3>2, <3>3, ReactionDoes DEF TypeOK
  <2>5. ASSUME Transferring, pc' = "answered", cmd \in DOMAIN Transfers, res' = Good
        PROVE  /\ card'.state = Transfers[cmd] /\ card'.at = SectorAt(card, arg)
               /\ moved = <<>> /\ arg = AddressOf(call.sector) /\ count > 0
    <3>1. ~prefix
      BY <2>1, <2>5 DEF Good
    <3>2. card'.state = Transfers[cmd] /\ card'.at = SectorAt(card, arg)
      <4>1. arg \in Nat /\ card \in CardStates /\ re \in Reactions(card, cmd, arg) /\ re.r = Good
        BY <2>1, <2>5, <3>1 DEF TypeOK
      <4> QED BY <2>1, <2>5, <4>1, ReactionDoes
    <3>3. cmd # "CMD12"
      BY <2>5 DEF Transfers
    <3>4. moved = <<>> /\ arg = AddressOf(call.sector)
      BY <2>3, <2>5, <3>3 DEF StartKnown, Sending
    <3>5. count > 0
      BY <2>5, <3>4 DEF CountKnown, Transferring, TypeOK
    <3> QED BY <3>2, <3>4, <3>5
  <2>6. Transferring' = Transferring /\ AddressOf(call.sector)' = AddressOf(call.sector)
    BY <2>3 DEF Transferring, AddressOf
  <2>7. \A a : SectorAt(card', a) = SectorAt(card, a)
    BY <2>2 DEF SectorAt
  <2>8. ASSUME Transferring, Underway'
        PROVE  /\ cmd \in DOMAIN Transfers /\ card'.state = Transfers[cmd]
               /\ card'.at = SectorAt(card, AddressOf(call.sector)) + Len(moved)
               /\ count > 0
    <3>1. pc' = "answered" /\ cmd \in DOMAIN Transfers /\ res' = Good
      BY <2>3, <2>8 DEF Underway
    <3>2. Len(moved) = 0 /\ SectorAt(card, arg) \in Int
      BY <2>5, <2>8, <3>1, <2>2, <2>1, ReactionDoes DEF TypeOK, CardStates
    <3> QED BY <2>5, <2>8, <3>1, <3>2
  <2> QED BY <2>3, <2>4, <2>6, <2>7, <2>8 DEF CardKnown
<1>10. CASE Powered
  BY <1>10 DEF CardKnown, Transferring, Underway, AddressOf, SectorAt, Sending,
     PlaceKnown, NoAnswer, Good, Powered
<1>11. CASE InitializeStep
  BY <1>11, InitializeOnly DEF CardKnown, Initializing, Transferring,
     InitializeStep
<1>12. CASE Counted
  BY <1>12 DEF CardKnown, Transferring, Underway, AddressOf, SectorAt, Sending,
     PlaceKnown, NoAnswer, Good, Counted, Answered, Send, Acmd
<1>13. CASE StartBlocks
  BY <1>13 DEF CardKnown, Transferring, Underway, AddressOf, SectorAt, Sending,
     PlaceKnown, NoAnswer, Good, StartBlocks, Answered, Return, driver
<1>14. CASE ReadBlock
  <2>1. /\ Transferring /\ Underway /\ BlockMoved /\ call.op = "read"
        /\ cmd \in ReadCommands(call.count) /\ cmd # "CMD12"
        /\ UNCHANGED <<call, CardType>>
    BY <1>14, ReadBlockDoes
  <2>2. /\ cmd \in DOMAIN Transfers /\ card.state = Transfers[cmd] /\ count > 0
        /\ card.at = SectorAt(card, AddressOf(call.sector)) + Len(moved)
    BY <2>1 DEF CardKnown
  <2>3. card.state \in {"read", "reads"} /\ card'.state \in {"ready", "reads"}
    <3>1. card.state \in {"read", "reads"}
      BY <2>1, <2>2 DEF ReadCommands, Transfers
    <3> QED BY <2>1, <3>1, BlockMoves
  <2>4. CASE pc' = "token"
    <3>1. count' # 0 /\ cmd' = cmd /\ count' = count - 1
      BY <1>14, <2>4, ReadBlockDoes DEF BlockMoved
    <3>2. count \in Int /\ call.count \in Nat /\ count = call.count - Len(moved) /\ Len(moved) \in Nat
      BY <2>1 DEF CountKnown, TypeOK
    <3>3. call.count # 1
      BY <2>2, <3>1, <3>2
    <3>4. cmd = "CMD18" /\ card.state = "reads"
      BY <2>1, <2>2, <3>3 DEF ReadCommands, Transfers
    <3>5. /\ card'.kind = card.kind /\ card'.state = card.state /\ card'.at = card.at + 1
          /\ Len(moved') = Len(moved) + 1
      BY <2>1, <3>4, BlockMoves
    <3>6. SectorAt(card, AddressOf(call.sector))' = SectorAt(card, AddressOf(call.sector))
      BY <2>1, <3>5 DEF SectorAt, AddressOf
    <3>7. card'.at = SectorAt(card, AddressOf(call.sector))' + Len(moved')
      <4>1. SectorAt(card, AddressOf(call.sector)) \in Int
        BY <2>1, CardAssumption DEF SectorAt, AddressOf, TypeOK
      <4> QED BY <2>2, <3>2, <3>5, <3>6, <4>1
    <3> QED BY <2>2, <2>3, <3>1, <3>2, <3>4, <3>5, <3>7 DEF CardKnown
  <2>5. CASE pc' # "token"
    <3>1. pc' \in {"command", "returned"}
      BY <1>14, <2>5, ReadBlockDoes
    <3> QED BY <2>3, <3>1 DEF CardKnown, Underway
  <2> QED BY <2>4, <2>5
<1>15. CASE ErrorToken
  <2>1. Transferring /\ Underway
    BY <1>15 DEF ErrorToken, PlaceKnown, Transferring, Underway
  <2>2. UNCHANGED card /\ pc' \in {"command", "returned"}
    BY <1>15 DEF ErrorToken, EndRead, Send, Return
  <2>3. pc' = "command" => cmd = "CMD18"
    BY <1>15 DEF ErrorToken, EndRead, Return
  <2>4. pc' = "command" => card.state = "reads"
    BY <2>1, <2>3 DEF CardKnown, Transfers
  <2> QED BY <2>2, <2>4 DEF CardKnown, Transferring, Underway
<1>16. CASE StopRead
  BY <1>16 DEF CardKnown, Transferring, Underway, AddressOf, SectorAt, Sending,
     PlaceKnown, NoAnswer, Good, StopRead, Answered, Return, driver
<1>17. CASE WriteBlock
  <2>1. /\ Transferring /\ Underway
        /\ BlockMoved \/ UNCHANGED <<card, moved, count>>
        /\ cmd \in WriteCommands(call.count) /\ cmd \in {"CMD24", "CMD25"}
        /\ UNCHANGED <<call, cmd, CardType>>
    BY <1>17, WriteBlockDoes
  <2>2. /\ cmd \in DOMAIN Transfers /\ card.state = Transfers[cmd] /\ count > 0
        /\ card.at = SectorAt(card, AddressOf(call.sector)) + Len(moved)
    BY <2>1 DEF CardKnown
  <2>3. CASE pc' = "ready"
    <3>1. count' > 0 /\ call.count # 1
      BY <1>17, <2>3, WriteBlockDoes
    <3>2. cmd = "CMD25" /\ card.state = "writes"
      BY <2>1, <2>2, <3>1 DEF WriteCommands, Transfers
    <3>3. CASE BlockMoved
      <4>1. /\ card'.kind = card.kind /\ card'.state = card.state /\ card'.at = card.at + 1
            /\ Len(moved') = Len(moved) + 1
        BY <3>2, <3>3, BlockMoves
      <4>2. SectorAt(card, AddressOf(call.sector))' = SectorAt(card, AddressOf(call.sector))
        BY <2>1, <4>1 DEF SectorAt, AddressOf
      <4>3. SectorAt(card, AddressOf(call.sector)) \in Int /\ Len(moved) \in Nat
        BY <2>1, CardAssumption DEF SectorAt, AddressOf, TypeOK
      <4>4. card'.at = SectorAt(card, AddressOf(call.sector))' + Len(moved')
        BY <2>2, <4>1, <4>2, <4>3
      <4> QED BY <2>1, <2>2, <3>1, <3>2, <4>1, <4>4 DEF CardKnown
    <3>4. CASE UNCHANGED <<card, moved, count>>
      <4>1. AddressOf(call.sector)' = AddressOf(call.sector)
        BY <2>1 DEF AddressOf
      <4> QED BY <2>1, <2>2, <3>2, <3>4, <4>1 DEF CardKnown
    <3> QED BY <2>1, <3>3, <3>4
  <2>4. CASE pc' # "ready"
    <3>1. pc' \in {"returned", "stop"}
      BY <1>17, <2>4, WriteBlockDoes
    <3> QED BY <2>1, <3>1 DEF CardKnown, Underway
  <2> QED BY <2>3, <2>4
<1>18. CASE StopWrite
  BY <1>18 DEF CardKnown, Transferring, Underway, AddressOf, SectorAt, Sending,
     PlaceKnown, NoAnswer, Good, StopWrite, Return
<1>19. CASE Synced
  BY <1>19 DEF CardKnown, Transferring, Underway, AddressOf, SectorAt, Sending,
     PlaceKnown, NoAnswer, Good, Synced, Return, driver
<1> QED
  BY <1>1, <1>2, <1>3, <1>4, <1>5, <1>6, <1>7, <1>8, <1>9, <1>10, <1>11,
     <1>12, <1>13, <1>14, <1>15, <1>16, <1>17, <1>18, <1>19, NextIs

\* The next sector moved is the next one asked for.
LEMMA OrderKnownKept ==
  ASSUME Inv, Next
  PROVE  OrderKnown'
<1> USE DEF Inv
<1>1. CASE Initialize
  BY <1>1 DEF OrderKnown, Initialize, Called
<1>2. ASSUME NEW o \in {"read", "write", "sync"}, NEW s \in Nat, NEW n \in Nat,
               o # "sync" => n > 0, NotReady(o, s, n)
      PROVE  OrderKnown'
  BY <1>2 DEF OrderKnown, NotReady, Called
<1>3. ASSUME NEW o \in {"read", "write"}, NEW s \in Nat, NEW n \in Nat \ {0},
               Transfer(o, s, n)
      PROVE  OrderKnown'
  BY <1>3 DEF OrderKnown, Transfer, Called, Send, Acmd
<1>4. CASE StartSync
  BY <1>4 DEF OrderKnown, StartSync, Called, StartsWait
<1>5. CASE Tick
  BY <1>5 DEF OrderKnown, Tick, driver
<1>6. CASE CardReady
  BY <1>6 DEF OrderKnown, CardReady, driver
<1>7. CASE Select
  BY <1>7 DEF OrderKnown, Select, driver
<1>8. CASE Wait
  BY <1>8 DEF OrderKnown, Wait, driver
<1>9. CASE Command
  BY <1>9 DEF OrderKnown, Command
<1>10. CASE Powered
  BY <1>10 DEF OrderKnown, Powered
<1>11. CASE InitializeStep
  BY <1>11, InitializeOnly DEF OrderKnown, InitializeStep
<1>12. CASE Counted
  BY <1>12 DEF OrderKnown, Counted
<1>13. CASE StartBlocks
  BY <1>13 DEF OrderKnown, StartBlocks, Answered, Return, driver
<1>14. CASE ReadBlock
  <2>1. Transferring /\ Underway /\ call' = call /\ lapsed' = lapsed
    BY <1>14, ReadBlockDoes
  <2>2. SUFFICES ASSUME ~lapsed
        PROVE  \A i \in 1 .. Len(moved') : moved'[i] = call'.sector + i - 1
    BY <2>1 DEF OrderKnown
  <2>3. CASE BlockMoved
    <3>1. card.at = call.sector + Len(moved)
      <4>1. ~noinit
        BY <2>1 DEF CountKnown
      <4>2. SectorAt(card, AddressOf(call.sector)) = call.sector
        BY <2>2, <4>1, AddressesMeet DEF TypeOK
      <4> QED BY <2>1, <4>2 DEF CardKnown
    <3>2. /\ Len(moved') = Len(moved) + 1 /\ moved'[Len(moved) + 1] = card.at
          /\ \A i \in 1 .. Len(moved) : moved'[i] = moved[i]
      BY <2>3, BlockMoves
    <3>3. \A i \in 1 .. Len(moved) : moved[i] = call.sector + i - 1
      BY <2>2 DEF OrderKnown
    <3>4. call.sector \in Nat /\ Len(moved) \in Nat
      BY DEF TypeOK
    <3>5. \A i \in 1 .. Len(moved) + 1 : moved'[i] = call.sector + i - 1
      <4>1. TAKE i \in 1 .. Len(moved) + 1
      <4>2. CASE i = Len(moved) + 1
        BY <3>1, <3>2, <3>4, <4>2
      <4>3. CASE i # Len(moved) + 1
        <5>1. i \in 1 .. Len(moved)
          BY <3>4, <4>3
        <5> QED BY <3>2, <3>3, <5>1
      <4> QED BY <4>2, <4>3
    <3> QED BY <2>1, <3>2, <3>5
  <2> QED BY <1>14, <2>3, ReadBlockDoes
<1>15. CASE ErrorToken
  BY <1>15 DEF OrderKnown, ErrorToken
<1>16. CASE StopRead
  BY <1>16 DEF OrderKnown, StopRead, Answered, Return, driver
<1>17. CASE WriteBlock
  <2>1. Transferring /\ Underway /\ call' = call /\ lapsed' = lapsed
    BY <1>17, WriteBlockDoes
  <2>2. SUFFICES ASSUME ~lapsed
        PROVE  \A i \in 1 .. Len(moved') : moved'[i] = call'.sector + i - 1
    BY <2>1 DEF OrderKnown
  <2>3. CASE BlockMoved
    <3>1. card.at = call.sector + Len(moved)
      <4>1. ~noinit
        BY <2>1 DEF CountKnown
      <4>2. SectorAt(card, AddressOf(call.sector)) = call.sector
        BY <2>2, <4>1, AddressesMeet DEF TypeOK
      <4> QED BY <2>1, <4>2 DEF CardKnown
    <3>2. /\ Len(moved') = Len(moved) + 1 /\ moved'[Len(moved) + 1] = card.at
          /\ \A i \in 1 .. Len(moved) : moved'[i] = moved[i]
      BY <2>3, BlockMoves
    <3>3. \A i \in 1 .. Len(moved) : moved[i] = call.sector + i - 1
      BY <2>2 DEF OrderKnown
    <3>4. call.sector \in Nat /\ Len(moved) \in Nat
      BY DEF TypeOK
    <3>5. \A i \in 1 .. Len(moved) + 1 : moved'[i] = call.sector + i - 1
      <4>1. TAKE i \in 1 .. Len(moved) + 1
      <4>2. CASE i = Len(moved) + 1
        BY <3>1, <3>2, <3>4, <4>2
      <4>3. CASE i # Len(moved) + 1
        <5>1. i \in 1 .. Len(moved)
          BY <3>4, <4>3
        <5> QED BY <3>2, <3>3, <5>1
      <4> QED BY <4>2, <4>3
    <3> QED BY <2>1, <3>2, <3>5
  <2>4. CASE moved' = moved
    BY <2>1, <2>2, <2>4 DEF OrderKnown
  <2> QED BY <1>17, <2>3, <2>4, WriteBlockDoes
<1>18. CASE StopWrite
  BY <1>18 DEF OrderKnown, StopWrite
<1>19. CASE Synced
  BY <1>19 DEF OrderKnown, Synced, Return, driver
<1> QED
  BY <1>1, <1>2, <1>3, <1>4, <1>5, <1>6, <1>7, <1>8, <1>9, <1>10, <1>11,
     <1>12, <1>13, <1>14, <1>15, <1>16, <1>17, <1>18, <1>19, NextIs

\* Nothing but a whole transfer ends in success.
LEMMA SuccessIsCompleteKept ==
  ASSUME Inv, Next
  PROVE  SuccessIsComplete'
<1> USE DEF Inv
<1>1. CASE Initialize
  BY <1>1 DEF SuccessIsComplete, Initialize
<1>2. ASSUME NEW o \in {"read", "write", "sync"}, NEW s \in Nat, NEW n \in Nat,
               o # "sync" => n > 0, NotReady(o, s, n)
      PROVE  SuccessIsComplete'
  BY <1>2 DEF SuccessIsComplete, NotReady
<1>3. ASSUME NEW o \in {"read", "write"}, NEW s \in Nat, NEW n \in Nat \ {0},
               Transfer(o, s, n)
      PROVE  SuccessIsComplete'
  BY <1>3 DEF SuccessIsComplete, Transfer, Called, Send, Acmd
<1>4. CASE StartSync
  BY <1>4 DEF SuccessIsComplete, StartSync
<1>5. CASE Tick
  BY <1>5 DEF SuccessIsComplete, StopLost, Tick, driver
<1>6. CASE CardReady
  BY <1>6 DEF SuccessIsComplete, StopLost, CardReady, driver
<1>7. CASE Select
  BY <1>7 DEF SuccessIsComplete, Select
<1>8. CASE Wait
  BY <1>8 DEF SuccessIsComplete, Wait
<1>9. CASE Command
  BY <1>9 DEF SuccessIsComplete, Command
<1>10. CASE Powered
  BY <1>10 DEF SuccessIsComplete, Powered, Send
<1>11. CASE InitializeStep
  <2>1. CASE Reset
    BY <1>11, <2>1, InitializeOnly DEF SuccessIsComplete, InitializeStep,
       Initializing, Reset, Answered, Stays, Send, Acmd, Finish, Return
  <2>2. CASE Versioned
    BY <1>11, <2>2, InitializeOnly DEF SuccessIsComplete, InitializeStep,
       Initializing, Versioned, Answered, Stays, Goes, Send, Acmd, Finish,
       Return
  <2>3. CASE Told
    BY <1>11, <2>3, InitializeOnly DEF SuccessIsComplete, InitializeStep, Told,
       Answered, Stays, Goes
  <2>4. CASE Loop
    BY <1>11, <2>4, InitializeOnly DEF SuccessIsComplete, InitializeStep, Loop,
       Stays, Goes, Send, Acmd, Hcs
  <2>5. CASE Looped
    BY <1>11, <2>5, InitializeOnly DEF SuccessIsComplete, InitializeStep,
       Looped, Answered, Stays, Goes
  <2>6. CASE Left
    BY <1>11, <2>6, InitializeOnly DEF SuccessIsComplete, InitializeStep,
       Initializing, Left, Stays, Send, Acmd, Finish, Return
  <2>7. CASE Sized
    BY <1>11, <2>7, InitializeOnly DEF SuccessIsComplete, InitializeStep,
       Initializing, Sized, Answered, Finish, Return, TypeOf
  <2> QED BY <1>11, <2>1, <2>2, <2>3, <2>4, <2>5, <2>6, <2>7 DEF InitializeStep
<1>12. CASE Counted
  BY <1>12 DEF SuccessIsComplete, Counted, Answered, Send, Acmd
<1>13. CASE StartBlocks
  <2>1. pc = "answered" /\ cmd \in DOMAIN Transfers /\ cmd # "CMD12" /\ cmd \notin InitCommands
    BY <1>13 DEF StartBlocks, Answered, Transfers, InitCommands
  <2>2. Transferring
    BY <2>1 DEF PlaceKnown, CommandKnown, Initializing, Transferring, Sending
  <2>3. count > 0
    <3>1. moved = <<>>
      BY <2>1, <2>2 DEF StartKnown, Sending
    <3>2. count = call.count - Len(moved) /\ call.count > 0 /\ call.count \in Nat
      BY <2>2 DEF CountKnown, TypeOK, Transferring
    <3> QED BY <3>1, <3>2
  <2>4. pc' = "returned" => res' = "ERROR" /\ selected' = FALSE
    BY <1>13, <2>3 DEF StartBlocks, Return, Result
  <2> QED BY <2>4 DEF SuccessIsComplete
<1>14. CASE ReadBlock
  <2>1. /\ Transferring /\ Underway /\ BlockMoved /\ call.op = "read" /\ call' = call
        /\ cmd \in ReadCommands(call.count)
    BY <1>14, ReadBlockDoes
  <2>2. pc' = "returned" => count' = 0 /\ cmd = "CMD17" /\ ~selected'
    BY <1>14, ReadBlockDoes
  <2>3. Len(moved') = Len(moved) + 1 /\ count' = count - 1 /\ count = call.count - Len(moved)
    BY <2>1, BlockMoves DEF CountKnown, BlockMoved
  <2>4. count' = 0 => Len(moved') = call.count
    BY <2>3 DEF TypeOK
  <2>5. cmd = "CMD17" => card'.state = "ready"
    <3>1. cmd = "CMD17" => card.state = "read"
      BY <2>1 DEF CardKnown, Transfers
    <3> QED BY <2>1, <3>1, BlockMoves
  <2> QED BY <2>1, <2>2, <2>4, <2>5 DEF SuccessIsComplete
<1>15. CASE ErrorToken
  <2>1. Transferring /\ Underway
    BY <1>15 DEF ErrorToken, PlaceKnown, Transferring, Underway
  <2>2. count > 0
    BY <2>1 DEF CardKnown
  <2>3. pc' = "returned" => res' = "ERROR" /\ selected' = FALSE
    BY <1>15, <2>2 DEF ErrorToken, EndRead, Send, Return, Result
  <2> QED BY <2>3 DEF SuccessIsComplete
<1>16. CASE StopRead
  <2>1. pc = "answered" /\ cmd = "CMD12" /\ Return(Result(count)) /\ UNCHANGED <<driver, card, moved>>
    BY <1>16 DEF StopRead, Answered
  <2>2. Transferring
    BY <2>1 DEF PlaceKnown, CommandKnown, Initializing, Transferring, Sending,
       InitCommands
  <2>3. card.state \in {"ready", "reads"} /\ count = call.count - Len(moved)
    BY <2>1, <2>2 DEF CardKnown, CountKnown
  <2>4. count = 0 => Len(moved) = call.count
    BY <2>3 DEF TypeOK
  <2>5. res' = "OK" => count = 0
    BY <2>1 DEF Return, Result
  <2> QED BY <2>1, <2>2, <2>3, <2>4, <2>5 DEF SuccessIsComplete, StopLost, Return,
             driver, Transferring
<1>17. CASE WriteBlock
  <2>1. /\ Transferring /\ Underway /\ call.op = "write" /\ call' = call
        /\ cmd \in WriteCommands(call.count)
        /\ BlockMoved \/ UNCHANGED <<card, moved, count>>
    BY <1>17, WriteBlockDoes
  <2>2. SUFFICES ASSUME pc' = "returned"
        PROVE  ~selected' /\ (res' = "OK" => Len(moved') = call.count /\ card'.state = "ready")
    BY <2>1 DEF SuccessIsComplete
  <2>3. call.count = 1 /\ ~selected' /\ res' = Result(count')
    BY <1>17, <2>2, WriteBlockDoes
  <2>4. count > 0 /\ count = call.count - Len(moved)
    BY <2>1 DEF CardKnown, CountKnown
  <2>5. CASE BlockMoved
    <3>1. card.state = "write"
      BY <2>1, <2>3 DEF CardKnown, WriteCommands, Transfers
    <3>2. card'.state = "ready" /\ Len(moved') = Len(moved) + 1 /\ count' = count - 1
      BY <2>5, <3>1, BlockMoves DEF BlockMoved
    <3>3. Len(moved) \in Nat
      BY DEF TypeOK
    <3> QED BY <2>3, <2>4, <3>2, <3>3 DEF Result
  <2>6. CASE UNCHANGED <<card, moved, count>>
    BY <2>3, <2>4, <2>6 DEF Result
  <2> QED BY <2>1, <2>5, <2>6
<1>18. CASE StopWrite
  <2>1. Transferring /\ call.op = "write" /\ UNCHANGED <<call, moved>> /\ selected' = FALSE
    BY <1>18 DEF StopWrite, Return, PlaceKnown, Transferring
  <2>2. res' = "OK" => card' = Stopped(card) /\ count = 0
    BY <1>18 DEF StopWrite, Return, Result
  <2>3. count = 0 => Len(moved) = call.count
    BY <2>1 DEF CountKnown, TypeOK
  <2>4. Stopped(card).state = "ready"
    BY CardMoves DEF TypeOK
  <2> QED BY <2>1, <2>2, <2>3, <2>4 DEF SuccessIsComplete
<1>19. CASE Synced
  <2>1. call.op = "sync" /\ UNCHANGED <<call, card>> /\ selected' = FALSE
    BY <1>19 DEF Synced, Return, PlaceKnown, driver
  <2>2. res' = "OK" => ~card.busy
    BY <1>19 DEF Synced, Return
  <2> QED BY <2>1, <2>2 DEF SuccessIsComplete
<1> QED
  BY <1>1, <1>2, <1>3, <1>4, <1>5, <1>6, <1>7, <1>8, <1>9, <1>10, <1>11,
     <1>12, <1>13, <1>14, <1>15, <1>16, <1>17, <1>18, <1>19, NextIs

-----------------------------------------------------------------------------
(* Theorems *)

\* Before the first call.
LEMMA InitInv ==
  ASSUME Init
  PROVE  Inv
<1> USE DEF Init
<1>1. TypeOK
  <2>1. card \in CardStates
    BY DEF CardStates, States
  <2>2. call \in [op : {"none", "initialize", "read", "write", "sync"}, sector : Nat, count : Nat]
    OBVIOUS
  <2>3. moved \in Seq(Int)
    OBVIOUS
  <2>4. noinit \in BOOLEAN /\ lapsed \in BOOLEAN
    OBVIOUS
  <2> QED BY <2>1, <2>2, <2>3, <2>4 DEF TypeOK
<1>2. PlaceKnown /\ CommandKnown /\ KindKnown
  BY DEF PlaceKnown, CommandKnown, KindKnown, Initializing, Transferring,
     Sending
<1>3. TypeKnown /\ CountKnown /\ StartKnown /\ CardKnown
  BY DEF TypeKnown, CountKnown, StartKnown, CardKnown, Transferring
<1>4. OrderKnown /\ SuccessIsComplete
  BY DEF OrderKnown, SuccessIsComplete, NoAnswer
<1> QED BY <1>1, <1>2, <1>3, <1>4 DEF Inv

\* Where nothing happens.
LEMMA Stutter ==
  ASSUME Inv, UNCHANGED vars
  PROVE  Inv'
<1> USE DEF vars, driver
<1>1. TypeOK' /\ PlaceKnown' /\ CommandKnown'
  BY DEF Inv, TypeOK, PlaceKnown, CommandKnown, Initializing, Transferring
<1>2. KindKnown' /\ TypeKnown' /\ CountKnown'
  BY DEF Inv, KindKnown, TypeKnown, CountKnown, Initializing, Transferring
<1>3. StartKnown' /\ CardKnown'
  BY DEF Inv, StartKnown, CardKnown, Transferring, Underway, AddressOf
<1>4. OrderKnown' /\ SuccessIsComplete'
  BY DEF Inv, OrderKnown, SuccessIsComplete, StopLost
<1> QED BY <1>1, <1>2, <1>3, <1>4 DEF Inv

\* The strengthening of the invariants below.
THEOREM Invariance == Spec => []Inv
<1>1. Init => Inv
  BY InitInv
<1>2. Inv /\ [Next]_vars => Inv'
  <2>1. ASSUME Inv, Next PROVE Inv'
    BY <2>1, TypeOKKept, PlaceKnownKept, CommandKnownKept, KindKnownKept,
       TypeKnownKept, CountKnownKept, StartKnownKept, CardKnownKept,
       OrderKnownKept, SuccessIsCompleteKept DEF Inv
  <2> QED BY <2>1, Stutter
<1> QED BY <1>1, <1>2, PTL DEF Spec

\* mmc_disk_read and mmc_disk_write never move any other sectors than those
\* asked for, or in another order, however often a command is lost, an answer
\* late or a block refused, as long as no card was lost in an initialisation.
THEOREM SectorsAsAsked == Spec => []TransfersAreExact
<1>1. Inv => TransfersAreExact
  <2>1. SUFFICES ASSUME Inv, ~lapsed
        PROVE  Len(moved) <= Len(Asked) /\ moved = SubSeq(Asked, 1, Len(moved))
    BY DEF TransfersAreExact
  <2>2. /\ moved \in Seq(Int) /\ call.count \in Nat /\ call.sector \in Nat
        /\ \A i \in 1 .. Len(moved) : moved[i] = call.sector + i - 1
    BY <2>1 DEF Inv, TypeOK, OrderKnown
  <2>3. Len(moved) <= call.count
    <3>1. CASE call.op \in {"read", "write"}
      BY <2>1, <3>1 DEF Inv, CountKnown
    <3>2. CASE call.op \notin {"read", "write"}
      BY <2>1, <2>2, <3>2 DEF Inv, CountKnown
    <3> QED BY <3>1, <3>2
  <2>4. Asked \in Seq(Int) /\ Len(Asked) = call.count
    BY <2>2 DEF Asked
  <2>5. \A i \in 1 .. Len(moved) : moved[i] = Asked[i]
    BY <2>2, <2>3 DEF Asked
  <2>6. moved = SubSeq(Asked, 1, Len(moved))
    BY <2>2, <2>3, <2>4, <2>5
  <2> QED BY <2>3, <2>4, <2>6
<1> QED BY <1>1, Invariance, PTL

\* A read or write that reports success has moved every sector it was asked for and
\* taken the card out of the transfer, unless the CMD12 that ends a read of several
\* was lost, which mmc_disk_read does not notice.  Every call deselects the card.
THEOREM SuccessIsWhole == Spec => []SuccessIsComplete
BY Invariance, PTL DEF Inv
=============================================================================
