------------------------------- MODULE Mailbox -------------------------------
(***************************************************************************)
(* The DMA ports: file_dma_reset and file_dma_command of                   *)
(* emulation/filedma.c, and the same two of emulation/bdos.c.  A Z80       *)
(* program reads a port, writes the address of its mailbox to it byte by   *)
(* byte, and from then on a command per write, which is executed before    *)
(* the write ends.  The two ports share dma_function; what a port was told *)
(* outlives the program and a reset of the Z80.                            *)
(***************************************************************************)
EXTENDS Integers, Sequences

CONSTANTS
  Mailboxes,  \* the ports: FatFs and BDOS
  Bytes,      \* the values a byte takes
  None

VARIABLES
  status,    \* [Mailboxes -> what dma_status counts: bytes of the address that came]
  mailbox,   \* [Mailboxes -> <<low, high>>]
  framed,    \* the ports the running program has read before it wrote to them
  told,      \* what it has written since then: the address, the last command
  ran        \* the command dma_function was just set for, or None

ports == <<status, mailbox>>
mailVars == <<status, mailbox, framed, told, ran>>

Halves == Bytes \union {0}
Orders ==
  [device : Mailboxes, mailbox : Halves \X Halves, command : Bytes, granted : BOOLEAN]

ASSUME MailboxAssumption == None \notin Orders

MailInit ==
  /\ status = [d \in Mailboxes |-> 0]
  /\ mailbox = [d \in Mailboxes |-> <<0, 0>>]
  /\ framed = {}
  /\ told = [d \in Mailboxes |-> <<>>]
  /\ ran = None

----------------------------------------------------------------------------
\* file_dma_reset, bdos_dma_reset
DmaResetHalf(d) ==         \* mistake for CommandsAsTold
  /\ mailbox' = [mailbox EXCEPT ![d] = <<0, 0>>]
  /\ status' = [status EXCEPT ![d] = IF @ = 1 THEN 1 ELSE 0]
DmaReset(d) ==
  /\ mailbox' = [mailbox EXCEPT ![d] = <<0, 0>>]
  /\ status' = [status EXCEPT ![d] = 0]

ReadMailbox(d) ==
  /\ DmaReset(d)
  /\ framed' = framed \union {d} /\ told' = [told EXCEPT ![d] = <<>>]
  /\ ran' = None

\* file_dma_command, bdos_dma_command; the command is executed when the Z80
\* gives the bus, and forgotten otherwise.
DmaCommand(d, byte) ==
  \/ /\ status[d] = 0
     /\ mailbox' = [mailbox EXCEPT ![d] = <<byte, 0>>]
     /\ status' = [status EXCEPT ![d] = 1]
     /\ ran' = None
  \/ /\ status[d] = 1
     /\ mailbox' = [mailbox EXCEPT ![d] = <<@[1], byte>>]
     /\ status' = [status EXCEPT ![d] = 2]
     /\ ran' = None
  \/ /\ status[d] = 2
     /\ \E granted \in BOOLEAN :
          ran' = [device |-> d, mailbox |-> mailbox[d], command |-> byte, granted |-> granted]
     /\ UNCHANGED ports

Heard(said, byte) ==
  IF Len(said) < 3 THEN Append(said, byte) ELSE [said EXCEPT ![3] = byte]

WriteMailbox(d, byte) ==
  /\ DmaCommand(d, byte)
  /\ told' = IF d \in framed THEN [told EXCEPT ![d] = Heard(@, byte)] ELSE told
  /\ UNCHANGED framed

\* z80_reset, and another program: no port is told.
NewProgram ==
  /\ framed' = {} /\ told' = [d \in Mailboxes |-> <<>>]
  /\ ran' = None
  /\ UNCHANGED ports

\* The program looks at its mailbox; what the last command did is history.
Look ==
  /\ ran' = None
  /\ UNCHANGED <<ports, framed, told>>

MailNext ==
  \/ \E d \in Mailboxes : ReadMailbox(d) \/ \E byte \in Bytes : WriteMailbox(d, byte)
  \/ NewProgram \/ Look

MailSpec == MailInit /\ [][MailNext]_mailVars

----------------------------------------------------------------------------
\* A program that reads the port before it writes to it has exactly its commands
\* carried out, each at once, at the mailbox it named, whatever earlier programs
\* wrote to the port before they were stopped, and whatever is written to the
\* other port in between, though all share dma_function (file_dma_command,
\* bdos_dma_command, iorq_dispatch).
CommandsAsTold ==
  [][\A d \in framed :
       \/ told'[d] # told[d] /\ told'[d] # <<>>
       \/ ran' # None /\ ran'.device = d
       => IF Len(told'[d]) = 3
          THEN /\ ran' # None
               /\ ran'.device = d
               /\ <<ran'.mailbox[1], ran'.mailbox[2], ran'.command>> = told'[d]
          ELSE ran' = None]_<<told, ran>>
=============================================================================
