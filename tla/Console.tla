------------------------------- MODULE Console -------------------------------
(***************************************************************************)
(* The Z80's view of the serial ports: one program runs at a time and uses *)
(* the virtual serial ports or scans the MSX keyboard.  (Both take what    *)
(* they read from the same queues: a program that did both would lose keys *)
(* and leave shift_step in the middle of a key.)                           *)
(***************************************************************************)
EXTENDS Sio, MsxKey

CONSTANT Own   \* [Virtual -> Uarts], the UART a virtual port has at first
ASSUME OwnAssumption == Own \in [Virtual -> Uarts]

VARIABLE program

vars == <<lines, sioVars, keyVars, program>>

Init ==
  /\ LinesInit /\ SioInit(Own) /\ KeyInit
  /\ program \in {"serial", "keyboard"}

\* What is received is of no interest to sio.c, nor is more than one byte of it.
Line == \E u \in Uarts : (rxq[u] = <<>> /\ Arrive(u, 0)) \/ Transmit(u)

\* The halted program's monitor, at its prompt, takes what is typed and prints,
\* all on UART 0.
Prompt ==
  /\ held = {}
  /\ \/ /\ uart_testrx(Keyboard) > 0 /\ uart_getc(Keyboard) /\ Used(Keyboard, "read")
        /\ UNCHANGED txq
     \/ /\ uart_testtx(Keyboard) < Room /\ uart_putc(Keyboard, 0)
        /\ Used(Keyboard, "write")
        /\ UNCHANGED rxq
  /\ UNCHANGED <<mode, files, held>>

Next ==
  \/ /\ program = "serial"
     /\ SioNext(Own) \/ Prompt \/ (Line /\ UNCHANGED sioVars)
     /\ UNCHANGED <<keyVars, program>>
  \/ /\ program = "keyboard"
     /\ KeyNext
     /\ UNCHANGED <<sioVars, program>>

\* A program that uses the keyboard scans it again and again.
Scans == program = "keyboard" /\ (msx_scanrow \/ msx_setrow) /\ UNCHANGED <<sioVars, program>>

Spec == Init /\ [][Next]_vars /\ WF_vars(Scans)

----------------------------------------------------------------------------
\* What the status port said stays true while the interrupts go on and while other
\* ports are used and attached anew, whichever UART they share: a data read finds
\* a received byte, and does not take the 0 of an empty queue for one; a data write
\* finds room, and does not hold the AVR (which cannot stop the Z80 then, not even
\* on the halt key).  It is true until a program's access, of whichever port, or the
\* monitor at its prompt uses that direction of the UART, or the monitor attaches
\* that direction of the port anew (sio_status, sio_read, sio_write, sio_attach).
StatusIsHonest ==
  \A p \in Virtual :
    /\ polled[p]["read"] /\ mode[p]["read"] \in Uarts => uart_testrx(mode[p]["read"]) > 0
    /\ polled[p]["write"] /\ mode[p]["write"] \in Uarts => uart_testtx(mode[p]["write"]) < Room

\* Every byte that the card took from a program is in its place in the file once
\* the file is attached no more, a byte of what the file held before only where
\* none was taken.  Not so: a byte that the card did not take, for it was full or
\* for an error, since sio_write drops it and tells nobody; all of a file that is
\* the output of two ports at once, which sio_attach allows; all that was written
\* since it was attached if f_close fails (sio_attach, sio_unattach, sio_write).
OutputIsKept ==
  \A n \in Names \ spoilt :
    (\A p \in Virtual : fil[p]["write"].name # n) => card[n] = took[n]
=============================================================================
