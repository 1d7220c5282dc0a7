# TLA+ models of the z80ctrl firmware

z80ctrl is an AVR microcontroller that sits on the bus of a Z80 computer: it
holds the Z80's clock and reset, can take the bus away from it, answers its I/O
requests (serial ports, a floppy controller, a BDOS, files), and offers a
monitor over a serial line. This directory models the firmware
(`src/firmware/`) in TLA+: TLC checks the models on small instances, and TLAPS
proves the most important properties for every instance.

Run in this directory:

    tlc -config Uart.cfg MCUart            # and so on, see "Runs"
    tlapm UartProofs.tla                   # and the other ...Proofs modules

Contents: [inventory](#inventory), [modules](#modules), [runs](#runs),
[findings](#findings), [noticed while reading](#noticed-while-reading), [bounds](#bounds), [fairness](#fairness),
[proofs](#proofs), [what is only model-checked](#only-model-checked),
[what is not modelled](#not-modelled).

## Inventory

The firmware has one main program (the monitor, which calls everything else),
four kinds of interrupt handler (receive and transmit of each UART, the 1 kHz
timer, the 100 Hz timer of the SD card driver), and one actor that is not firmware: the Z80. There is no operating system and
no lock other than `cli`/`sei`.

| component | source | state | operations | what is hard | correct when |
|---|---|---|---|---|---|
| serial ports | `hardware/uart.c` | per port a receive and a transmit ring (`buff`, `wi`, `ri`, `ct`), the UDRIE bit, `watch_flag` | `uart_init`, `uart_testrx`, `uart_testtx`, `uart_getc`, `uart_peek`, `uart_putc`, `uart_flush`; receive and transmit handlers | handlers run between any two accesses of the main program | bytes are neither lost, doubled nor reordered but when the receive ring is full; output never gets stuck |
| bus and Z80 control | `hardware/bus.c`, `hardware/z80.c` | BUSRQ, RESET, clock mode, pin directions, `halt_mask`, the expander's interrupt latch | `bus_init`, `bus_request`, `bus_release`, `z80_reset`, `z80_run`, `z80_debug` | the Z80 moves by itself while its clock runs; requests time out; somebody presses RESET | never two drivers on a line; the monitor gets the bus back; a run can be stopped |
| I/O dispatch and port map | `hardware/io.c` | `read_port`, `write_port`, `dma_function`, `z8c_dev`, `z8c_reg` | `iorq_init`, `iorq_assign`, `iorq_dispatch`, `io_in`, `io_out` | the Z80 is frozen in the middle of a bus cycle; DMA is queued by a write and run later | each request is served once; nobody answers for external hardware |
| floppy controller | `emulation/disk.c` | `drives[]`, `selected`, one `sectorbuf`, `dirtysector` | select, status, control, sector, write, read; mount, unmount; boot load | eight drives share one buffer; the monitor exchanges images under a running program | bytes reach the sector they were written for, and come from the sector under the head |
| BDOS emulation | `emulation/bdos.c` | mailbox state, the current FCB, one cached open file (`curfn`, `curfil`), one search (`dir`, `curfno`, `dirfcb`, `bytesleft`) | F_OPEN, F_CLOSE, F_SFIRST, F_SNEXT, F_DELETE, F_READ, F_WRITE, F_MAKE, F_RENAME, F_READRAND, F_WRITERAND, F_SIZE, F_RANDREC, F_WRITEZF, P_TERMCPM | positions in three encodings; a search that shows one file over several calls; one open file for all FCBs of a program | each call works on the file its FCB names |
| file DMA | `emulation/filedma.c` | 2-byte address and command (`dma_mailbox`, `dma_status`, `dma_command`); files are kept in the memory of the Z80 | `file_dma_reset`, `file_dma_command`, `file_dma_execute` | its state survives a reset of the Z80; transfers in pieces | a command runs once, on the block the program meant, and moves the bytes asked for |
| virtual serial ports | `emulation/sio.c` | attachments of ports to UARTs and files (`sio_readmode`, `sio_writemode`, `sio_readfile`, `sio_writefile`) | `sio_attach`, `sio_unattach`, `sio_status`, `sio_read`, `sio_write` | a write may hold the firmware, a read may find nothing; the monitor attaches ports under a program; the card refuses bytes | a status stays true until the UART is used; what the card took reaches its file |
| MSX keyboard | `emulation/msxkey.c` | `current_row`, `shift_step` | `msx_setrow`, `msx_scanrow` | a shifted key takes three scans, while others are typed | each key is seen once, in order, with its modifier |
| memory access | `hardware/memory.c`, `cli/memory.c` | bank registers (`mem_banks`), `base_addr` | `mem_read`, `mem_write`, their banked forms, `mem_iterate`, `mem_loadbin`, `mem_savebin`, fill | ranges that wrap or cross pages and banks | each address is visited once, in order |
| I/O expanders | `hardware/mcp23s17.c` | shadow of bank bits | read and write of registers | the layout of the registers depends on one of them | accesses hit the intended register |
| X/YMODEM | `util/xmodem.c` | packet number, retry counters, the open file | receive, transmit | lost and damaged packets, time-outs that race answers, packet numbers that wrap | the file arrives whole or an error is reported |
| Intel HEX | `util/ihex.c` | none | load, save | malformed records | bytes land at their addresses |
| SD card driver | `hardware/mmc.c`, `fatfs/diskio.c` | `Stat`, `CardType`, `Timer1`, `Timer2` | `mmc_disk_initialize`, `_read`, `_write`, `_ioctl` | a card is slow, silent or exchanged; waits within waits | the sectors asked for, or an error, in the end |
| FatFs | `fatfs/` | vendored file system | `f_open`, `f_write`, ... | two handles on one file (FF_FS_LOCK is 0) | see its own tests |
| video, sound, flash, clocks, SPI, disassembler | `hardware/tms9918.c` etc. | register shadows | register access | little | pure I/O |
| monitor | `cli/*.c` | command line | one command, one operation | runs between any two runs of the Z80 | see the components |

How they interact:

* The monitor calls `z80_run` or `z80_debug`, which call `iorq_dispatch`, which
  calls a device through the tables of `io.c`; all that is one call stack, so
  devices never run concurrently with each other or the monitor.
* A device cannot touch memory while it is dispatched, because the Z80 is in
  the middle of its I/O cycle. It queues a function (`iorq_dma`), which
  `iorq_dispatch` runs once the cycle is over and it holds the bus.
* The handlers of `uart.c` run at any time. They share the rings, UCSRB and
  `watch_flag` with the main program.
* The Z80 runs in parallel to `z80_run`, until it makes an I/O request: external
  logic then holds it in WAIT until the firmware pulls BUSRQ low.

Which hazards that amounts to, each at its line, and which property would catch
it going wrong, is listed in `PROJECT.json` under `hazards`.

## Modules

### Serial ports: `ByteQueues`, `Uart`, `UartProofs`

`ByteQueues` is what a port promises: a queue to send, a queue received, and
the shift registers of the hardware between them and the line. `Uart` is
`uart.c` as it is: a ring is an array with `wi`, `ri` and `ct`, and **one action
is one access of the main program that a handler can come between**. So
`uart_putc` is `PutcCall`, `PutcWait` (the busy-wait for room), `PutcStore`
(`buff[wi] = data`), `PutcPublish` (the `cli` section: `ct++`, UDRIE on) and
`PutcAdvance` (`wi` moves); `uart_getc` is `GetcRead`, `GetcTake`,
`GetcAdvance`. The handlers are one action each (`RxVect`, `UdreVect`), as
nothing interrupts them; they are enabled when the hardware would raise them and
the main program is not in its `cli` section. `Arrive` and `ShiftOut` are the
hardware. The halt key is a received byte like any other, which also sets
`watch_flag`.

`Uart` implements `ByteQueues` (`ImplementsQueues`): the queue of a ring is the
`ct` bytes from `ri` on, corrected for the byte a call is halfway through adding
or removing.

### Bus, run loop, dispatch: `Z80Control`, `Z80ControlProofs`

One module, since the protocol only exists in the interplay: `bus_request`
and `bus_release` with their loops and time-outs, `z80_reset`, `z80_run`,
`z80_debug`, and the part of `iorq_dispatch` that handles the bus. `pc` is where
the main program stands; loops that wait are one action per turn, so that the
Z80 moves between any two turns. The Z80 is external: `z80` says whether it is
in a memory (or internal) cycle, in an I/O cycle, has acknowledged a bus request
or is in reset. While the PWM clock runs it steps by itself (`Z80Step`);
otherwise only the firmware's `CLK_TOGGLE` moves it. One toggle of the model is
one machine cycle.

What `iorq_dispatch` hands to a device is one of three outcomes: an internal
device answers a read, a DMA mailbox queues or cancels a transfer, or nothing.
Whether a breakpoint or watch range matches in `z80_debug` is a choice. The
expander that watches HALT and RESET keeps the pins of the first interrupt until
INTCAP is read (`intr`). `z80_run` has its `BOARD_REV` 5/6 form, which tests
IOXINT first.

The RESET button may be pressed at any moment after start-up. RESET ends BUSACK
without asking, so the Z80 drives the bus again while the AVR believes it owns
it; no firmware can prevent that. `pressed` remembers it, `NoContention` and
`CliOwnsBus` speak of behaviours without it, and all other properties hold
with it.

### Port map: `PortMap`, proofs in `Z80ControlProofs`

`iorq_init` (scan for external hardware, defaults, detection of a TMS9918A),
`iorq_assign`, and what a read or a write of a port does: which function of
`device_read` and `device_write` runs, and who drives the data bus. The
registers of `z80ctrl` itself are modelled in full; other internal devices as
"one that answers". If `bus_init` failed to get the bus, `iorq_init` assigns
nothing (`boot = "blind"`).

### Floppy controller: `Disk`, `DiskProofs`

One action per port access (`DriveSelect`, `DriveControl`, `DriveSector`,
`DriveWrite`, `DriveRead`) and for `DriveMount` and `DriveUnmount`, built from
functions of the controller's state, because the C functions flush the buffer
half way. A control command is any set of bits, obeyed in the order of the code.
Bytes are not numbers; they say where they came from, so that
"the right byte" can be stated: a cell `[new, image, pos, k]` was read from
byte `k` of sector `pos` of `image`, or (`new`) was written by the Z80 while
the head was there. `polite` says that the program has followed the rules of
the controller so far (bytes are written only after a write command, at least
one, and none is read meanwhile); from the moment it has not, bytes are no longer
told apart, but the state of the controller still is checked. `sure` counts the
bytes of the buffer that can be relied on: those the file delivered when the
sector was fetched (any number of them: a new or short image, an error of the
card), and none after the monitor exchanged the image in the middle of a sector.
The others are what the buffer held before, and the program gets them. What is
left in a buffer that starts again is all `Stale`: no property tells it apart.

`drive_write` stores a byte before it looks at the pointer. A program that writes
without a write command, when the pointer is parked at 0xff, has the byte
stored outside `sectorbuf` (`overran`); what that overwrites is up to the linker,
so the model stops there, and the properties of the controller's state are
stated up to that moment. `StoresStayInside` says that no program that follows the
rules gets there.

### BDOS: `Fcb`, `FcbProofs`

The position in a file: `fcb_seqoffset`, `fcb_setseq`, `fcb_randoffset`,
`fcb_setrand` with the widths of their integers, sequential and random access,
F_RANDREC and F_SIZE, and a program that sets any field of its FCB. And the
directory search, which shows a file of several extents as several entries over
several calls (`bdos_search`). Offsets are counted in records, as nothing
smaller is ever addressed.

### BDOS: `NamedFiles`, `Volume`, `BdosFile`, `BdosFileProofs`

A CP/M program opens files by filling in FCBs, as many as it likes; `bdos.c` has
one `FIL`, `curfil`, for the file that `curfn` names, and closes it to open
another whenever a call comes with another name (`fcb_openfil`). `NamedFiles` is
what the program expects: a set of files by name, each call working on the one
its FCB names. `BdosFile` is `bdos.c`: one action per call, with `curfil`,
`curfn` and the attribute `rdo` that the last search left in `curfno`. `Volume`
is what FatFs does below it, from `ff.c`: a `FIL` knows its directory entry and
its cluster by position, a size is written back when the file is closed, an entry
that is renamed moves. `done` and `stray` are history: `done` is the last call with
the names and the record that it was given, if it may have changed a file, and
`stray` says that the last call was a delete or a rename (of the program, or of the
monitor) that emptied the entry of the open file; nothing else sets it, and a
mistake of `fcb_openfil` does not. Where `fcb_openfil` reaches its end without a `return`, its caller finds any value.

`Named` maps the volume and the open file (which may be longer than its entry
says) to the files of `NamedFiles`, where every call that changes files is tied to
`done`: a write changes the record of the call in the file of that name, a make adds
that file, a delete takes only files that match, a rename moves that one. A program
that deletes or renames the file it has open is followed up to that step, since the
firmware then really goes on with an entry that is another file's or nobody's. The
step itself must still be the abstract call; a rename of the open file may also lose
the records that the directory did not know of (`RenameOpen`).

### DMA ports and memory: `Mailbox`, `Memory`, `Moves`, `FileDma`

`Memory` says which cells an access visits, as a sequence: the page loop, the
page counters of 8 bits and the 16-bit addresses of `mem_iterate`, and the two
banks of `mem_iterate_banked`. `Moves` has the loops that use it: `file_to_mem`
and `mem_to_file`, piece by piece with short reads, full cards and errors of the
file, `mem_loadbin`, `mem_savebin` and the fill command, each as the sequence of its
moves between a place of the file and a cell; a byte that is stored past the end of a
buffer has the place `Beyond`. `Mailbox` is the protocol of the FatFs port and the
BDOS port: a read resets, two writes give an address, each further one is a
command, and `dma_function` is shared. A program begins (`NewProgram`) without the
port being told, as `z80_reset` does not touch it. `told` is history: what the
running program wrote since it read the port. `FileDma` composes the two: each
of its steps is one of `Mailbox` with the transfer that the command starts, or a
command of the monitor.

### SD card: `SdCard`, `Mmc`, `MmcProofs`

`SdCard` is the card, external: four kinds, which command it obeys when, what it
answers, and that it may be slow, lose a command, answer too late, refuse a block
or fall silent. `Mmc` is `mmc.c`: `pc` is the place of the running call, one step
per command, wait and block; a wait is left when the card is ready or its counter
is zero, and `Tick` is the interrupt that counts both down. `send_cmd` with its
CMD55 prefix is `Select`, `Wait`, `Command`; what the caller does with the
answer is in the disjuncts of `InitializeStep` (`Reset`, `Versioned`, `Told`, `Loop`,
`Looped`, `Left`, `Sized`, in the order of the code), in `Counted`, `StartBlocks` and
`StopRead`. `lapsed` is history: an initialisation failed when an earlier one had not.

### Serial ports and keyboard of the Z80: `SerialLines`, `Sio`, `MsxKey`, `Console`, `ConsoleProofs`

`SerialLines` is the view that device emulations have of `uart.c`: the queues of
`ByteQueues`, which `Uart` is shown to implement, without the steps in between
(theorem `PortsAsSeen`).
`Sio` is `sio.c` over it. A read of a UART returns at once, with 0 if nothing was
received; a write that finds no room makes its port `held`, and nothing but `Resume`
and the line happens until it is over, as on the AVR. `polled` is history: the status
said yes, and no access since made it stale, be it of the program or of the monitor at
its prompt (`Prompt`). Of a file, the `FIL` and the directory entry are told apart, and
`took` is history: the bytes that the card took. Opening a file may fail, a byte may
be refused, and so may be the closing; a file that could not be closed, or that two
ports write at once, is `spoilt`, and nothing is said of it any more. `MsxKey` is
`msxkey.c` under a program that selects the rows in order and reads each once;
`round` and `seen` are what such a program sees. `Console` composes the two over
one set of queues. Both take what they read from the same queue, so a program
uses one or the other. `KeysAreSeen` says of a character that its modifier is
pressed in the round that shows it, and which others may be: a character with a
modifier takes three scans, and those before the modifiers' row each leave a scan
to a neighbour, so a round shows a modifier of up to `ModRow` characters
behind it, or of `LastRow - ModRow` before it (six and two on the MSX matrix).

### X and Y modem: `ModemLine`, `XmodemRx`, `XmodemTx`, `Xmodem`

`XmodemRx` is `xm_receive`, `XmodemTx` is `xm_transmit`, `ModemLine` the line
between them; `Xmodem` composes them. `pc` of either end is the call of `inbyte`
it waits in, or the place in its loops; each action is one iteration, one packet
or one byte. Every exit of the retry loops, the fall-back from CRC to
checksum, `flushinput` (which consumes what arrives meanwhile, one item at a
time), both EOTs of a YMODEM file, ^X from either side, the length in the
header (a 16-bit `int`, kept from the last file when a header has none), full
cards and card errors are in. The receiver can be connected to `xm_transmit` or
to a YMODEM sender (`tx.batch`), which this repository does not have:
`Batch...` in `Xmodem` is external, and does what the figure above `xm_receive`
shows.

A packet is one item on the line, whose damage the check always finds; a file is
a sequence of blocks, each of which says whose block it is. What does not fit
in the receive ring of `uart.c` is dropped.

Time-outs are what makes the protocol hard. A time-out of `inbyte` is enabled
whenever nothing has arrived, even if the answer is on its way; so an ACK may
arrive for a packet that was already sent again, and be taken for that of the
next packet. `patient` (chosen at the start, and constant) is the premise that
time-outs are long enough for that not to happen. It is a premise about the
other end, not about this code: two of these boards do not meet it, as the
sender waits one second and a receiver that refuses a packet answers after one
second of silence. Without it a file can come out short with success reported at
both ends (one early time-out, then one damaged last packet, is enough), so
`SuccessIsComplete` and `CleanTransferSucceeds` suppose it, and `BothReturn` and,
for `xm_transmit`, `PrefixInPlace` do not. A YMODEM session numbers every file from
1, so there an answer taken for another leads from one file into the next, and
`PrefixInPlace` supposes it too.

`trouble` is history: a card was full or had an error, somebody pressed ^X
(`"keys"`: whose ACK a sender may take for another), or `xm_receive` fell back from C
to NAK (`"tries"`: it may then answer one EOT with two NAKs, and a YMODEM sender ends
the next file with the second). The properties name what they exclude;
`Deliverable` says which files can arrive: of fewer packets than there are numbers
(see `xmodem_wrap`), of a length that an `int` holds, and, where a header gives none,
after files of the same length only.

### Model-checking modules

`MCUart`, `MCZ80Control`, `MCPortMap`, `MCDisk`, `MCFcb`, `MCBdosFile`, `MCMmc`,
`MCFileDma`, `MCConsole` and `MCXmodem` extend the modules with what TLC needs
(constant definitions, symmetry).

## Runs

| run | configuration | asks |
|---|---|---|
| `uart` | `Uart.cfg` | are the rings consistent between any two accesses (`RingsAgree`), is the byte a reader holds still the oldest when it acts on it (`ReadIsOldest`), is the transmit interrupt on while bytes wait (`NoStall`), does it all implement `ByteQueues`, does all output leave and every busy-wait end (`OutputDrains`) |
| `bus` | `Bus.cfg` | `NoContention`, `CliOwnsBus` (who drives what), `DmaIsConfined` (a queued DMA ends with its dispatch), `ServedOnce` (no I/O request twice, none lost but to a stop), `StopHasCause`, `StopsWhenTold` (the halt key and the signals), `NothingHangs` (no I/O request and no stop waits for ever) |
| `port_map` | `PortMap.cfg` | does an internal device ever answer along with external hardware (`OneReadDriver`), do defaults displace what the scan found (`BootKeepsExternal`) |
| `disk` | `Disk.cfg` | for polite programs: is no byte stored outside the buffer (`StoresStayInside`), `WritesStayPut` and `ReadsUnderHead`; for all, until one is: can waiting bytes always be flushed (`DirtyIsInReach`), is an unselected drive inactive (`OneDriveActive`), is TRACK0 true (`Track0IsTrack0`) |
| `fcb` | `Fcb.cfg` | does sequential access visit every record (`SequentialAdvances`), does a random access come back to the record that F_RANDREC or F_SIZE put in the FCB, and for which records not (`RandomComesBack`), do the entries of a search cover the file (`EntriesCoverFile`) in order (`ExtentsInOrder`) |
| `files` | `Files.cfg` | is the open file the one `curfn` names and does no cluster have two owners (`CacheIsHonest`), is what is read what was written to that name (`ReadsAreRight`), does each call change only the files its FCB names (`ImplementsNamedFiles`) |
| `card` | `Card.cfg` | are the sectors transferred those asked for (`TransfersAreExact`), does success mean all of them, with the card out of the transfer (`SuccessIsComplete`), does every call return (`CallsReturn`) |
| `dma` | `Dma.cfg` | are exactly a program's commands carried out (`CommandsAsTold`), do transfers move the cells asked for (`AccessesAreExact`) |
| `console` | `Console.cfg` | is the status true for as long as nobody uses the UART (`StatusIsHonest`), does what the card took reach its file (`OutputIsKept`), are keys seen as typed (`KeysAreSeen`) and in the end (`KeysArrive`) |
| `xmodem` | `Xmodem.cfg` | is every block written at its place of its file (`PrefixInPlace`), does success mean whole files (`SuccessIsComplete`), does a transfer without faults succeed at both ends (`CleanTransferSucceeds`), do both ends return whatever happens (`BothReturn`) |
| `xmodem_wrap`, `card_remount` | `XmodemWrap.cfg`, `CardRemount.cfg` | each shows one thing the code does otherwise than its comments say, see below |

For every property `PROJECT.json` lists a mutant: an operator next to the one it
replaces, marked "mistake for" in the module, that changes the code in a
plausible way (a flush left out, an interrupt enabled too late, a `>` for a
`>=`) and that the run detects. Type invariants are part of the proofs
(a `TypeOK` in each of them).

## Findings

* **XMODEM files of more than 255 packets** (`xmodem_wrap`, `xmodem.c:253`).
  Packet numbers wrap to 0, and number 0 is taken for YMODEM metadata: packet 256
  is acknowledged and not written. If its first byte is 0, `xm_receive` then
  returns as after a complete session, without closing the file; otherwise it
  refuses all that follows, as it waits for packet 0. If it was the last packet,
  the sender reports success.
* **A card that failed to initialise again** (`card_remount`, `mmc.c:409`, 449).
  `mmc_disk_initialize` sets `CardType` to 0 when it fails, but leaves STA_NOINIT
  as it was: clear, if the card had worked before. It returns that status, so
  that `mount_volume` (`ff.c:3673`) goes on. An SDHC card that answers by then is
  sent byte addresses, takes them for sector numbers, and reads and writes of
  sector 512 n instead of n are reported as done.

## Noticed while reading

Left in the models as the code has it (or left out, where no model goes there);
no run is spent on them.

* `io.c:184` and 229: the table of read functions holds `z8c_setlo`, that of
  write functions `z8c_getlo`. Reading Z80CTRL_LO writes whatever the argument
  register held to the selected register of an expander (`ReadFunction` of
  `PortMap`), and writing it does nothing.
* `bdos.c:281`: `r1 << 8` is a signed 16-bit integer on the AVR; with the top bit
  of `r1` set its sign extension sets all higher bits. Random access never reaches
  records 32768 to 65535 of each 65536; `RandomComesBack` says just that, and that
  it reaches all others.
* `bdos.c:472`: the count of remaining records passes through a `uint8_t`
  before it is limited to 128; a file of exactly 32 KB shows 0 records in its
  first extent. `EntriesCoverFile` leaves out where a byte does not hold the number.
* `bdos.c:519`: the result of `f_open` is dropped and no value returned, so that
  F_OPEN and F_MAKE report by chance; F_MAKE of the file that `curfn` names
  reports success and makes nothing. `bdos_open` looks at the attribute that the
  search before left (`bdos.c:534`). Deleting or renaming the open file leaves
  `curfn` and `curfil` (`stray` of `BdosFile`).
* `bdos.c:639`: `fr = f_unlink(...) != FR_OK` stores a truth value. A delete with
  `ex = '?'` stops with an error after a file of several extents, as the next
  entry of the file it deleted is found. `br` of F_WRITE is not looked at: on a
  full card it reports success.
* `filedma.c:135`: at the end of a file of a multiple of 512 bytes, or with a
  length of 0, `mem_write` is asked for no bytes and writes at least one, up to all
  of memory; `examples/filecopy.asm` reads in such pieces. `NoEmptyPiece` names
  the condition. `filedma.c:152`: a program that writes nothing from address 0 or
  0xff00 has `mem_read` fetch all 64 KB into the 512 bytes of `buf`
  (`ReadsWholeBank`). `mem_iterate` leaves a page out when a range wraps from the
  last page but one (`NoPieceWraps`).
* `cli/memory.c:146`: a fill of n * 256 + 1 bytes takes its last byte from behind
  the pattern; an end before the start, and `savebin` of no bytes from 0
  (`memory.c:237`), go on for 2^32 bytes.
* `memory.c:149`: banked accesses of the monitor leave the bank register
  switched; only `z80_reset` sets it back.
* `filedma.c:240`: the `DIR` keeps a pointer to a pattern in a buffer on the
  stack, which the following F_FINDNEXT uses.
* `ffwrap.c:71`: `f_copy` returns FR_OK when the card is full. `ffwrap.c:116`:
  the character reader passes no place for the count and cannot report the end
  of a file, which the Intel HEX loader waits for.
* `sio.c`: two outputs attached to one file overwrite each other (FF_FS_LOCK is
  0), output is saved only when the port is attached anew, and a byte that the card
  does not take is lost without a sign (`sio.c:143`; a full card is not an error
  even). The `unattached` of `sio_attach` is not reached from the monitor
  (`cli/cpm.c:87`). A data read without a byte received is 0, as if that had been one,
  and a write that waits for room cannot be stopped by the halt key.
* `msxkey.c`: a character typed ahead may be scanned in the same round as the
  modifier of another: of one up to six places behind it, or two before it, as
  many as there are rows before and after that of the modifiers (`KeysAreSeen` allows
  just those). A doubled letter looks like one key held down.
* `mmc.c:501`: when the stop token of a write cannot be sent, the card is left
  waiting for data; the next command is not answered (`CanTake`, `Executed`). The
  answer to the CMD12 that ends a read of several sectors is not looked at
  (`mmc.c:458`): a card that did not see it goes on sending, the read reports
  success, and the next command is refused (`StopLost`).
* `xmodem.c:264`: the length of a YMODEM file is read into an `int`; one of 70000
  bytes is cut to 4464. A header without a length keeps that of the file before
  (`xmodem.c:265`), as `sscanf` returns -1 and not 0. `xm_receive` does not look
  at the number of bytes written, so that a full card loses data (`xmodem.c:286`);
  `xm_transmit` takes a read error for the end of the file (`xmodem.c:357`); an
  empty YMODEM file is not created. An EOT before any data finds a `FIL` that nobody
  set (`xmodem.c:191`): `RxEot` takes it for a closed one. Data that come for a
  file that an EOT has closed end the transfer with -4 (`Writable`).
* `z80.c:131` tests a bit that the mask has cleared, so that with
  `halt_mask = HALT` "reset" is printed for HALT; `iorq_assign` guards only the
  read side of a port (`io.c:309`); a step command flushes the sector buffer
  after it moved the head (`disk.c:223`); mounting an image keeps the buffer of the
  previous one (`disk.c:106`). `WritesStayPut` and `ReadsUnderHead` name the last
  two as their exceptions.
* `disk.c:296`: a byte written with the pointer parked (no write command, or one
  byte too many after the sector was flushed) is stored at `sectorbuf[255]`, of 138
  bytes. `disk.c:325`: neither the result of `ffw_read` nor its count is looked at, so
  that a read of a sector the image does not have returns the bytes of the sector
  (perhaps of another drive) the buffer held last.

## Bounds

* `Uart`: one port, N = 2 slots, two byte values, one of them the halt key. The
  rings are empty, half full and full, `wi` and `ri` wrap at different moments, and
  every overlap of a call with a handler occurs. The two bytes tell order and
  loss. The proofs are about any number of ports and slots.
* `Bus`: `Timeout = 3`, the number of toggles after which a request gives up
  (256 in the code). A request that can succeed needs at most two machine cycles,
  so 3 lets every one of them succeed and every hopeless one fail. All else is finite.
* `PortMap`: two ports (the TMS9918A takes two), both with a default, one of them
  `Z80CTRL_LO`; one expander, one register, two values. Ports do not influence
  each other, apart from the pair of the TMS9918A.
* `Disk`: 2 drives, 2 images, 2 tracks of 2 sectors of 3 bytes: a track has a
  first and a last sector, a sector is partly filled and partly delivered, and each
  drive has another one to be confused with. Images are symmetric.
* `Fcb`: a byte has B = 4 values, an extent 2 records, a module 2 extents, a
  file 4 modules. `FcbAssumption` states the proportions of the real sizes
  (256; 128, 32, 16) that matter: a byte holds twice the records of an extent,
  and the sequential fields address B^2 records. File lengths 0, 3, 4, 9 and 16:
  empty, ending inside an extent, at the end of a module, where the top bit of `r1` is
  set, and over several modules.
* `Files`: three names and a mask that matches them all, three slots, so that a rename
  has a free one or not, two clusters (the third file finds the card full), files
  of up to two records, of which an extent holds one, two values that differ. The
  card may hold a read-only file at first. The names and values are symmetric.
* `Card`, `CardRemount`: four sectors of two bytes, so that byte address 2 is a
  sector of its own when taken for a sector number; transfers of one and two
  sectors, which are the two forms of each; waits of one or two ticks, as the
  waits for the card and for its answers then can each end first.
* `Dma`: two banks of four pages of two cells, a buffer of two pages, transfers of
  up to nine cells (two buffers and one cell), from every cell, with every length of
  the file or rest of the card, and an error at every access of the file. Two ports; the bytes written are two commands,
  either of which may be half an address. The monitor's commands do not depend on
  the ports and run before these are used, within the banks there are.
* `Console`: two virtual ports on two UARTs with queues of two bytes, one file of
  up to one byte, which a second attachment finds and writes over or leaves; a keyboard
  of four rows, the modifiers in the third, and three characters typed
  (`MaxTyped`) out of seven: with SHIFT, with CTRL, with none, before and after the
  modifiers, and without a key. Three characters make a character with two neighbours
  and fill a queue of two, which the next one finds full. Two rows before that of the
  modifiers are needed to see a modifier two characters early.
* `Xmodem`: files of 0 and 3 blocks by XMODEM with up to two faults
  (`MaxFaults`), so that a damaged packet can meet a lost answer, and a YMODEM
  session of two files, of one and two blocks, with one (`MaxFaultsInBatch`); the
  header of the first gives no length. Two tries to start, to resend and to end (16,
  25 and 10 in the code), three for the YMODEM sender, so that it can exceed the
  receiver's limit on repeats. Two items in a ring: less than what repeats can pile up.
  (Data for a file that an EOT closed take four items and four tries; the proofs
  have them.)
  Eight packet numbers, as `RxAssumption` wants more than twice the items of a ring
  and one (256, and 64 of at least one byte each); the wrap is in `xmodem_wrap`.
* The caps in guards are the number of faults in `ModemLine`; `served < 2` in
  `Z80Control`, which stops counting at 2, as `ServedOnce` forbids reaching 2;
  `MaxTyped` in `MsxKey`; `MaxSize`, the size of a file on a full card, and no
  second byte in a receive queue, for `Sio`; and in `FileDma` the last command is forgotten (`Forget`) before the next.

## Fairness

* `Uart!FairSpec`: the main program takes its next access when it is in a call;
  an interrupt that stays enabled is eventually taken; the shift register
  empties. The main program is the only one that disables interrupts, for a few
  instructions. Nothing is assumed of the line: bytes may stop arriving, or
  arrive for ever.
* `Z80Control!FairSpec`: the AVR program and the PWM clock keep going, and
  nobody holds RESET down for ever. The commands of the monitor and the halt key
  are not fair. `StopsWhenTold` and the stops of `NothingHangs` hold once RESET is no
  longer pressed (`Quiet`): a Z80 that is being reset does not answer BUSRQ, and
  pressing RESET again and again keeps `while (!bus_request())` going.
* `Xmodem!FairSpec`: each end takes its next step, a time-out included when
  nothing arrives, as `inbyte` counts milliseconds whatever happens. The line
  need not deliver anything.
* `Mmc!Spec`: the driver takes its next step when it has one, and the timer's
  interrupt goes on counting; both run as long as the AVR does, with interrupts
  enabled. The card owes nothing: it may stay busy or silent for ever.
* `Console!Spec`: the program that uses the keyboard goes on scanning it. That is
  the one assumption about a Z80 program; `sio.c` needs none.
* `Disk`, `PortMap`, `Fcb`, `BdosFile`, `Mailbox` and `FileDma` state safety only: they are sequential code that
  the Z80 or the monitor calls, and nobody has to call it.

## Proofs

All are for every value of the constants that the named assumptions allow.

**`UartProofs`** (assumption: `N` is at least 1 and fits a byte, as
`sizeof buff` does; any number of ports). The invariant the runs check is not
inductive: that `ReadIsOldest` holds when `uart_getc` advances depends on what
the call has done so far. The inductive invariant adds

* `RoomForPut`: between the test for room and `ct++` there still is room (the
  handlers only take from the transmit ring);
* `LocalsAgree`: the local variables of a call match the ring it works on;
* `FlushedIsEmpty`: what `uart_flush` has seen empty stays empty, as only the
  main program adds output.

From it follow `TypeOK`, `RingsAgree`, `ReadIsOldest`, `NoStall`, and the
refinement: each action is mapped to the one of `ByteQueues` it implements, or
to a stutter (`Refinement`). A step of `ByteQueues` is one of `SerialLines`, or of the
hardware only (`PortsAsSeen`), so that what `Console` assumes of the ports is what the
rings do; `uart_init`, which empties a receive queue, is the one step that `SerialLines` does not have, as
only the monitor calls it. One lemma per action and conjunct; the arithmetic
of `(i + 1) % N` is in lemmas of its own.

**`Z80ControlProofs`, the port map** (assumption: `PortAssumption`, the shape of the tables).
`OneReadDriver` is about the last step only. The strengthening is `ScanIsKept`:
the read side of every port where the scan found hardware has an external
owner. `iorq_init` establishes it, since defaults apply to unused ports only;
`iorq_assign` keeps it, since it refuses an internal device there. That is why
the missing test on the write side is harmless to reads. `BootKeepsExternal`
is proved of the step.

**`DiskProofs`** (assumption: `DiskAssumption`; any number of drives and
tracks, sectors and sector sizes up to 254, so that 0xff is none of them).
`DirtyIsInReach`, `OneDriveActive` and `Track0IsTrack0` with `TypeOK` are
inductive together, without their condition on `overran`, as nothing follows an
overrun in the model. As an operation is a composition of functions, the invariant
is stated of a state (`Sound(s)`); a flush turns a sound state into one with
nothing waiting (`Calm(s)`), from which the selected drive may be changed freely.
`DirtyIsInReach` is what makes the flush at the start of each operation correct.

`StoresStayInside`, `WritesStayPut` and `ReadsUnderHead` speak of one step, and need to
know what the buffer holds before it. `BufferKnown` says so while the program is polite: either
no write is open, nothing waits, and the first `sure` bytes of the buffer are those of
the sector under the head as soon as a byte of it was read (`Reading`); or one is
open, the pointer is not parked, and the buffer starts with the bytes written so
far, which wait if there are any (`Filling`). Each
operation is shown to lead from one to the other (`FlushSettles`, `SelectSettles`,
`StepSettles`, `ControlKnown`, `SectorSettles`, `WriteKnown`, `ReadKnown`), mounting
included, and `RestartForgets` is why an exchanged image, and whatever is stale, matters
only for the rest of the sector.

**`Z80ControlProofs`, the bus** (assumption: `BusAssumption`, a time-out of more than two
toggles; the code's is 256). None of `NoContention`, `CliOwnsBus`, `DmaIsConfined`,
`StopHasCause` and `ServedOnce` is inductive, since the program tests few of the
things it relies on. `Inv` is an annotation of every place of the program: where
the PWM clock runs (`ClockKnown`), where BUSRQ is low (`BusrqKnown`), who drives
what and whether BUSACK is known to be given (`DriversKnown`), what a stop leaves to
the monitor (`StopsKnown`), where in its I/O cycle the Z80 stands and whether its
device was called (`CyclesKnown`), what is queued (`DmaKnown`), and that what the
expander has latched was low since the run began (`SignalsKnown`). Each action has a lemma for each conjunct it can disturb. The time-out
matters: a request that is granted needs up to two machine cycles.

**`Z80ControlProofs`, the mailboxes** (assumption: `MailboxAssumption`, that `None` is no
command; any number of ports and bytes). `CommandsAsTold` is about one step and what was written in the
steps before. `ToldKnown` says what a port knows of that once it was read: as many bytes of the
address as `dma_status` counts, the same ones, and no command before both. It is of
`Mailbox` alone; `FileDma`, whose `Next` conjoins its actions with those of `Mailbox`, reaches
recursive operators, so there the run checks it.

**`FcbProofs`** (assumption: `FcbAssumption`, the proportions of a byte, an extent
and a module; any even byte size). All four properties, from lemmas about
division: a position written as module, extent and record is one number, whose
parts are its remainders. `ExtentKnown` adds what a directory search that is not
finished knows about where it stands, `RandKnown` what F_RANDREC and F_SIZE left in the
random fields, `TopBit` in which half of what two bytes count a number with that bit
lies. The proof showed that `ModCount` has to
fit a byte, which `FcbAssumption` now says.

**`MmcProofs`** (assumptions: `CardAssumption`, `MmcAssumption`; cards of any size,
waits of any length, transfers of any number of sectors). `Inv` says of each place
of a call which command is being sent and with which argument (`CommandKnown`), what
kind of card the driver takes it for (`KindKnown`, `TypeKnown`: after a successful
initialisation, and until one fails, `CardType` is that of the card), how much is
left (`CountKnown`, `StartKnown`), where the card stands (`CardKnown`), and that the
sectors moved so far are the first ones of the call, in order (`OrderKnown`).
From it follow `TransfersAreExact` and `SuccessIsComplete`; the latter leaves out
one thing by name, the lost CMD12 of `StopLost`.

**`ConsoleProofs`** (assumptions: `LinesAssumption`, `SioAssumption`, `KeyAssumption`,
`OwnAssumption`; any number of ports, UARTs and files, any table of keys and any
number of rows). For `StatusIsHonest`: a status that said yes stays true until an
access of the same UART (`PolledKnown`), the write included that waits and ends later,
on whose UART no status relies (`HeldKnown`). For
`OutputIsKept`: an output file that is not spoilt is the output of one port only, has
all that the card took while it is open, and is on the card when it is not
(`FilesKnown`, `OutputKnown`). For `KeysAreSeen`: the queue is the
end of what was typed (`QueueKnown`), and of the key that is scanned it is known at
each `shift_step` what the round shows already (`StepKnown`, `RoundKnown`, `ModsKnown`).
The proof attempt found that the property was stated too narrowly: it named the
neighbours of a character, which is true only of a keyboard with one row on either
side of the modifiers'. It now has the rows as its parameters, and the run
another row.

**`BdosFileProofs`** (assumptions: `VolumeAssumption`, `BdosAssumption`; any number of
names, slots, clusters and records). The invariant holds until a call deletes or
renames the open file (`~stray`): the open file has a slot of the name it was opened by
(`OpenKnown`), names are unique (`NamesKnown`), a cluster is in use just if one slot or
the open file has it (`ClustersKnown`), sizes and clusters go together (`SizesKnown`),
and the slot of the open file differs from it only in what is yet to be written back,
and is no longer than it (`SlotKnown`). One lemma per call of FatFs shows that it keeps
it; `CacheIsHonest` and `ReadsAreRight` follow. For the refinement, `Changes` and `Cuts`
say which call of `NamedFiles` a step is, the step that sets `stray` included: what
a delete or a rename leaves of the files is shown whether or not the open one is among
them (`RemoveFiles`, `MoveFiles`, `MoveCuts`). One lemma per way to change a card
(`MapUnchanged`, `MapAdded`, `MapWritten`, `MapGone`, `MapShifted`, `MapMoved`) says what
becomes of the files as their user sees them, and `StepIsNamed` and `CutIsNamed` put them
together (`ImplementsFilesByName`). That a set of slots or clusters has a first and a
last member rests on the library's minimum principle (`WFMin`).

**`XmodemProofs`** (assumptions: `LineAssumption`, `RxAssumption`, `TxAssumption`,
`BatchAssumption`; rings of any size, any number of tries and faults, files of any
length). `XmodemTypeCorrect` is of both protocols, `XmodemInPlace` is `PrefixInPlace` of
`xm_transmit`, where no answer needs to come in time. A packet names its block by
8 bits only, so what has to be shown is that a packet whose number is the one the
receiver waits for has the block after the last one written, although a sender that takes a late ACK
for that of the next packet runs ahead of the receiver. `Bounded` limits by how much: each step of the
sender past a block takes an ACK off the line, each ACK put on the line takes a packet, and both
rings hold at most `LineMax` items, so that it is ahead by `2 * LineMax` blocks at most,
fewer than there are numbers. For the packets this takes `Flight` (their blocks are in
order, each with its number) and `AheadKnown` (none is older than the last one written),
for the ends `FilesKnown` (what was written is the blocks from the first to the last) and
`EotKnown` (an EOT comes behind the last packet). All that is of a
receiver that goes on (`~Over`); that what it wrote stays as it is, is `PlaceKnown`.
With fewer numbers TLC finds a block in another's place.

When no answer comes too late, both protocols are as simple as they look, and that is
what `OneAnswer` says: there is at most one thing that an end has to react to
(`Token`: one packet or EOT on the way to the receiver, or one answer on the way back,
or a receiver about to give it). From it follows where the receiver is
when the sender is at block `t` of file `k` (`Stage`): it lacks the block and no ACK is
on the line, or it has the block and no more; and likewise for a header and for the
end of a file. `Has`, `Expects` and `Ended` say what has been written by then: all
files before the `k`-th, whole, and so many blocks of the `k`-th. What ends
early keeps its promise too: a receiver that gave up leaves no ACK behind it (CANs only),
and a sender that left, no packet. `XmodemComplete` is
`SuccessIsComplete` for both protocols: a sender at `"ok"` has been acknowledged at the
last EOT or the empty header, where `Stage` leaves only whole files. `SessionInPlace` is
`PrefixInPlace` for YMODEM sessions as long as `xm_receive` does not fall back from C to NAK.
`OneAnswer` holds under `Quiet`, which names the premises of the two properties: `patient`, no ^X,
no fall-back in YMODEM, and for `xm_transmit` fewer packets than numbers. They can only
cease to hold, never return, so that the invariant is `Quiet => OneAnswer`. The proof
needs more than one try to start (`SyncTries > 1`, 16 in the code): a receiver that
has answered waits at least once more before it gives up.

What proving changed in the models: the assumptions that were missing are named
(`SioAssumption`, `KeyAssumption`, `OwnAssumption`, the last conjuncts of
`VolumeAssumption`); the arms of `Executed`, `f_open` and `f_rename` exclude each
other, as the tests in the code do, where TLC took the first that fits;
`InitializeStep`, `StartBlocks` and `Sync` have names for their parts; and
`KeysAreSeen` and `FcbAssumption` are corrected as said above. Two properties of `Xmodem`
were too wide, as larger instances and the attempt at an invariant showed:
`PrefixInPlace` is false of a YMODEM session with answers that come too late, and of a line that holds
so many packets that their numbers repeat; `SuccessIsComplete` is false when somebody
presses ^X, of files that are not `Deliverable`, and after the fall-back to NAK in YMODEM
(an empty file whose one EOT is answered by NAK and NAK makes the sender leave out a file, and
report success).

## Only model-checked

What the runs check as safety is proved, but for the second and third of these:

* Liveness (`OutputDrains`, `StopsWhenTold`, `NothingHangs`, `CallsReturn`,
  `KeysArrive`, `CleanTransferSucceeds`, `BothReturn`): the prover does not handle
  fairness.
* `Moves` has recursive operators, so nothing that reaches it can be proved about;
  what its loops compute is checked against `Exact` over all bounded inputs
  (`AccessesAreExact`).
* `PrefixInPlace` of a YMODEM session in which `xm_receive` fell back from C to NAK. An EOT
  may then have two answers, which `OneAnswer` excludes.
* The two violations, which are counterexamples.

## Not modelled

* Most of FatFs, and thereby most of the lines of this repository: of some 35000,
  `ffunicode.c` has 15600, which are tables of code pages, and `ff.c` 7600. Both
  are vendored; `Volume` models the calls the BDOS makes, as far as
  their effect on names, entries and clusters goes. Allocation chains, caches,
  FAT formats and long names are not this firmware's, and a model of them would say
  nothing about it. The rest of the lines that no definition stands for are
  tables (fonts, the disassembler's, the list of commands), help texts and output
  formats, macros for pins, and register access.
* The disassembler (formatting from a table), Intel HEX (a record parser; no state
  between records), flash programming, video, sound and clocks: sequences of
  port accesses without a decision that another actor can disturb.
* The remaining commands of the file DMA, which hand their parameters to FatFs; and
  what a command finds if its mailbox lies at the end of memory.
* Failures of the card below `Fcb` and `BdosFile` (`Mmc` says when the driver reports one). A failed
  flush of a floppy sector is dropped (`disk.c:164`), and `Disk` says where a sector is
  sent, not whether the card took it.
* Exchanging the card, or pulling it out: this board detects neither.
* `drive_bootload`, which copies one image to memory.
* `uart_init` with output pending: the monitor flushes before it changes
  the baud rate.
* A processor other than the AVR: `int` has 16 bits.
* What a C compiler may do with `watch_flag`, which is not `volatile`: the
  loops that poll it access device registers and call functions, and the model
  reads it anew each turn.
