--------------------------------- MODULE Sio ---------------------------------
(***************************************************************************)
(* emulation/sio.c: two virtual serial ports.  The monitor attaches each   *)
(* direction of each port to a UART or to a file.  A Z80 program reads the *)
(* status port and the data port.  A read never waits: it is 0 when there  *)
(* is nothing.  A write to a UART whose queue is full holds the AVR, and   *)
(* the Z80 with it, until there is room.  A file's size reaches its        *)
(* directory entry when the file is closed, and any access of the card may *)
(* fail.                                                                   *)
(***************************************************************************)
EXTENDS SerialLines

CONSTANTS
  Virtual,  \* the virtual ports
  Names,    \* files
  Chars,    \* what a program writes
  MaxSize   \* bytes a file grows to, the card is full then

ASSUME SioAssumption ==
  /\ "" \notin Names
  /\ "file" \notin Uarts /\ "unattached" \notin Uarts

Dirs == {"read", "write"}
Modes == Uarts \cup {"file", "unattached"}

VARIABLES
  mode,     \* [Virtual -> [Dirs -> Modes]], sio_readmode and sio_writemode
  fil,      \* [Virtual -> [Dirs -> FIL]], sio_readfile and sio_writefile
  held,     \* the port whose write holds the AVR, or none
  card,     \* [Names -> the bytes a file's directory entry says it has]
  took,     \* [Names -> the bytes a file ought to hold: those the card took]
  spoilt,   \* files that two outputs wrote, or whose f_close failed: their
            \* bytes are anyone's guess, and what is above no longer says them
  polled    \* [Virtual -> [Dirs -> BOOLEAN]]: the status said ready, and
            \* nothing used the UART or attached the port since

files == <<fil, card, took, spoilt>>
sioVars == <<mode, held, files, polled>>

Closed == [name |-> "", pos |-> 0, data |-> <<>>]

\* own is the UART each virtual port has at first.
SioInit(own) ==
  /\ mode = [p \in Virtual |-> [d \in Dirs |-> own[p]]]
  /\ fil = [p \in Virtual |-> [d \in Dirs |-> Closed]]
  /\ held = {} /\ spoilt = {}
  /\ card = [n \in Names |-> <<>>] /\ took = card
  /\ polled = [p \in Virtual |-> [d \in Dirs |-> FALSE]]

\* Byte c goes to place i of s, or to its end.
Over(s, i, c) == IF i <= Len(s) THEN [s EXCEPT ![i] = c] ELSE Append(s, c)

----------------------------------------------------------------------------
\* The file that a port's output goes to, if it goes to one.
Output(p) == {n \in Names : fil[p]["write"].name = n}
Closes(p, dir) == IF dir = "write" THEN Output(p) ELSE {}

\* sio_unattach: f_close makes an output file's bytes those of its directory
\* entry, unless it fails; those it fails for are lost.
UnattachKeeping(p, dir, lost) == card     \* mistake for OutputIsKept
Unattached(p, dir, lost) ==
  [n \in Names |-> IF n \in Closes(p, dir) \ lost THEN fil[p][dir].data ELSE card[n]]

\* ffw_open; the file is made if there is none, its old bytes stay until they are
\* written over.
Open(p, dir, n) ==
  /\ mode' = [mode EXCEPT ![p][dir] = "file"]
  /\ fil' = [fil EXCEPT ![p][dir] =
                [name |-> n, pos |-> 0, data |-> IF dir = "write" THEN card'[n] ELSE <<>>]]

\* sio_attach; nobody looks at whether the file before could be closed, and the
\* port is left unattached if the new one cannot be opened.
Attach(p, dir, m) ==
  /\ held = {}
  /\ \E lost \in SUBSET Closes(p, dir) :
       /\ card' = Unattached(p, dir, lost)
       /\ \/ /\ mode' = [mode EXCEPT ![p][dir] = IF m = "file" THEN "unattached" ELSE m]
             /\ fil' = [fil EXCEPT ![p][dir] = Closed]
             /\ spoilt' = spoilt \cup lost
          \/ \E n \in Names :
               /\ m = "file" /\ Open(p, dir, n)
               /\ spoilt' = spoilt \cup lost \cup
                    {k \in {n} : dir = "write" /\ \E q \in Virtual \ {p} : k \in Output(q)}
  /\ polled' = [polled EXCEPT ![p][dir] = FALSE]
  /\ UNCHANGED <<lines, took, held>>

\* sio_status
StatusOfPort(p, own) ==       \* mistake for StatusIsHonest
  [d \in Dirs |->
     CASE mode[p][d] = "file" -> TRUE
       [] mode[p][d] = "unattached" -> FALSE
       [] OTHER -> IF d = "read" THEN uart_testrx(own[p]) > 0 ELSE uart_testtx(own[p]) = 0]
StatusOf(p, own) ==
  [d \in Dirs |->
     CASE mode[p][d] = "file" -> TRUE
       [] mode[p][d] = "unattached" -> FALSE
       [] OTHER -> IF d = "read" THEN uart_testrx(mode[p][d]) > 0
                   ELSE uart_testtx(mode[p][d]) = 0]
Status(p, own) ==
  /\ held = {}
  /\ polled' = [polled EXCEPT ![p] = StatusOf(p, own)]
  /\ UNCHANGED <<lines, mode, files, held>>

\* An access to a UART leaves no status that was read before it to rely on, be
\* it of another port that is attached to the same UART.
Used(m, dir) ==
  polled' = [q \in Virtual |-> [d \in Dirs |->
    IF d = dir /\ mode[q][d] = m THEN FALSE ELSE polled[q][d]]]

\* sio_read: a byte of the file, its end or 0 on an error; of a UART the byte
\* received first, or 0 if there is none.
Read(p) ==
  /\ held = {}
  /\ Used(mode[p]["read"], "read")
  /\ IF mode[p]["read"] \in Uarts /\ uart_testrx(mode[p]["read"]) > 0
     THEN uart_getc(mode[p]["read"]) ELSE UNCHANGED rxq
  /\ UNCHANGED <<txq, mode, files, held>>

\* A byte to a file that the card takes.
Take(p, c) ==
  LET f == fil[p]["write"] IN
  /\ f.pos < MaxSize
  /\ fil' = [fil EXCEPT ![p]["write"].pos = f.pos + 1,
                        ![p]["write"].data = Over(f.data, f.pos + 1, c)]
  /\ took' = [took EXCEPT ![f.name] = Over(@, f.pos + 1, c)]

\* sio_write.  Any byte to a file may be lost: the card is full, or ffw_write fails,
\* now or ever since an earlier error, which nobody looks at.  Which byte it is
\* matters in a file only.
Write(p, c) ==
  /\ held = {}
  /\ Used(mode[p]["write"], "write")
  /\ \/ /\ mode[p]["write"] = "file" /\ (Take(p, c) \/ UNCHANGED <<fil, took>>)
        /\ UNCHANGED <<lines, held>>
     \/ /\ mode[p]["write"] = "unattached"
        /\ UNCHANGED <<lines, fil, took, held>>
     \/ /\ mode[p]["write"] \in Uarts
        /\ IF uart_testtx(mode[p]["write"]) = Room
           THEN held' = {p} /\ UNCHANGED lines
           ELSE uart_putc(mode[p]["write"], 0) /\ UNCHANGED <<rxq, held>>
        /\ UNCHANGED <<fil, took>>
  /\ UNCHANGED <<mode, card, spoilt>>

\* uart_putc ends its wait.
Resume ==
  /\ \E p \in held :
       uart_testtx(mode[p]["write"]) < Room /\ uart_putc(mode[p]["write"], 0)
  /\ held' = {}
  /\ UNCHANGED <<rxq, mode, files, polled>>

SioNext(own) ==
  \/ \E p \in Virtual :
       \/ \E d \in Dirs, m \in Modes \ {"unattached"} : Attach(p, d, m)
       \/ Status(p, own)
       \/ Read(p)
       \/ \E c \in Chars : Write(p, c)
  \/ Resume
=============================================================================
