------------------------------- MODULE FileDma -------------------------------
(***************************************************************************)
(* What is done with the memory of the Z80 for the commands that come by a *)
(* DMA port (Mailbox), and for the memory commands of the monitor, which   *)
(* share the routines that move bytes (Moves).                             *)
(***************************************************************************)
EXTENDS Mailbox, Moves

CONSTANT MaxLen  \* a transfer asks for at most so many bytes

F_READ == 2
F_WRITE == 3

VARIABLE moved  \* the last transfer: what was asked, and the moves made; or None

vars == <<status, mailbox, framed, told, ran, moved>>

Init == MailInit /\ moved = None

\* What the loops do, by name; left is what remains of the file or the card, ok
\* how many accesses of the file succeed.
MovesOf(loop, base, len, left, ok) ==
  CASE loop = "file_to_mem" -> file_to_mem(base, 0, len, left, ok)
    [] loop = "mem_to_file" -> mem_to_file(base, 0, len, left, ok)
    [] loop = "fill" -> cli_fill(base, base + len - 1)
    [] loop = "loadbin" ->
         mem_loadbin(base, 0, IF len = 0 THEN Banks * BankSize ELSE len, left, ok)
    [] loop = "savebin" -> mem_savebin(base, 0, base + len - 1, left, ok)

\* The bytes of a piece of a transfer, which the file is asked for at once.
Piece(loop) == IF loop \in {"fill", "savebin"} THEN PageSize ELSE BufSize

Transfer(loop, bases) ==
  \E base \in bases, len, left \in 0 .. MaxLen :
    \E ok \in 0 .. MaxLen \div Piece(loop) + 1 :
      moved' = [loop |-> loop, base |-> base, len |-> len, left |-> left, ok |-> ok,
                moves |-> MovesOf(loop, base, len, left, ok)]

----------------------------------------------------------------------------
ReadPort(d) == ReadMailbox(d) /\ moved' = None

\* file_dma_execute and bdos_dma_execute, as far as they move bytes.
Executed(order) ==
  CASE order.granted /\ order.device = "fatfs" /\ order.command = F_READ ->
         Transfer("file_to_mem", 0 .. BankSize - 1)
    [] order.granted /\ order.device = "fatfs" /\ order.command = F_WRITE ->
         Transfer("mem_to_file", 0 .. BankSize - 1)
    [] OTHER -> moved' = None

\* That ran = None before a command is no condition of the code: Look forgets what the
\* last command did, so that the model does not combine every command with every other.
WritePort(d, byte) ==
  /\ status[d] = 2 => ran = None
  /\ WriteMailbox(d, byte)
  /\ IF ran' = None THEN moved' = None ELSE Executed(ran')

Start  == NewProgram /\ moved' = None
Forget == Look /\ moved' = None

\* cli_fill, cli_loadbin and cli_savebin, whatever the ports were told: the model
\* runs them before that, and no further than the last bank.  A fill that ends
\* before it starts, and a save of nothing from 0, would go on for 2^32 bytes.
Monitor(loop) ==
  /\ framed = {} /\ ran = None /\ moved = None
  /\ status = [d \in Mailboxes |-> 0]
  /\ Transfer(loop, 0 .. Banks * BankSize - 1)
  /\ moved'.base + Max({moved'.len, moved'.left}) <= Banks * BankSize
  /\ loop # "loadbin" => moved'.len > 0
  /\ UNCHANGED <<ports, framed, told, ran>>

Next ==
  \/ \E d \in Mailboxes : ReadPort(d) \/ \E byte \in Bytes : WritePort(d, byte)
  \/ Start \/ Forget
  \/ \E loop \in {"fill", "loadbin", "savebin"} : Monitor(loop)

Spec == Init /\ [][Next]_vars

----------------------------------------------------------------------------
\* A piece of a transfer of no bytes still moves something: the transfer is of
\* none, or what there is ends with a full buffer, and its end is read without error.
NoEmptyPiece(m) ==
  LET got == Smaller(m.len, m.left)
  IN \/ m.len > 0 /\ (got < m.len => got % BufSize # 0)
     \/ m.ok <= got \div BufSize

\* Of no bytes at these addresses, mem_to_file reads the whole bank into its buffer.
ReadsWholeBank(m) ==
  m.loop = "mem_to_file" /\ m.len = 0 /\ m.base \in {0, BankSize - PageSize}

\* A piece that goes past the end of the bank begins in its last page.
NoPieceWraps(m) ==
  \A k \in 0 .. m.len \div BufSize :
    LET first == (m.base + k * BufSize) % BankSize
        last == first + Smaller(BufSize, m.len - k * BufSize) - 1
    IN last < BankSize \/ first >= BankSize - PageSize

\* What each loop ought to move: all that there is, or what comes before an error.
Exact(m) ==
  LET all == CASE m.loop = "fill" -> m.len
               [] m.loop = "loadbin" /\ m.len = 0 -> m.left
               [] OTHER -> Smaller(m.len, m.left)
      n == IF m.loop = "fill" THEN all ELSE Smaller(all, m.ok * Piece(m.loop))
      place(i) == IF m.loop = "fill" THEN (i - 1) % PageSize ELSE i - 1
      cell(i) == IF m.loop \in {"file_to_mem", "mem_to_file"}
                 THEN (m.base + i - 1) % BankSize
                 ELSE (m.base + i - 1) % (Banks * BankSize)
  IN [i \in 1 .. n |-> <<place(i), cell(i)>>]

\* Across buffers, pages and banks, up to the end of the file, a full card or an
\* error, the cells asked for and no others are moved, each to its place, and none
\* past the end of a buffer: by F_READ unless a piece of it is empty, by F_WRITE
\* unless it is of nothing from the start of memory or of its last page, by both
\* unless a piece wraps, by the fill command unless one more than a multiple of a
\* page is filled, and by loadbin and savebin always (mem_iterate,
\* mem_iterate_banked, and the loops that use them).
AccessesAreExact ==
  moved # None =>
    \/ moved.moves = Exact(moved)
    \/ moved.loop = "file_to_mem" /\ ~ NoEmptyPiece(moved)
    \/ ReadsWholeBank(moved)
    \/ moved.loop \in {"file_to_mem", "mem_to_file"} /\ ~ NoPieceWraps(moved)
    \/ moved.loop = "fill" /\ moved.len > PageSize /\ moved.len % PageSize = 1
=============================================================================
