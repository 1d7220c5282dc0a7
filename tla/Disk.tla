-------------------------------- MODULE Disk --------------------------------
(***************************************************************************)
(* emulation/disk.c: the MITS 88-DSK floppy controller over image files.   *)
(* The Z80 program reaches it through three ports (select/status,          *)
(* control/sector, data), and the monitor mounts and unmounts images       *)
(* whenever the Z80 is stopped, in the middle of a sector too.             *)
(*                                                                         *)
(* All drives share one sector buffer.  Its bytes are not numbers here but *)
(* tell where they came from: a byte [new, image, pos, k] was read from    *)
(* (or, if new, written by the Z80 for) byte k of sector pos of an image.  *)
(***************************************************************************)
EXTENDS Integers

CONSTANTS
  NumDrives,   \* NUMDRIVES
  Tracks,      \* NUMTRACKS
  Sectors,     \* NUMSECTORS
  SectorSize,  \* SECTORSIZE
  Images,      \* image files
  NoImage,     \* the FIL object is closed
  None         \* nothing happened; also "no drive selected"

ASSUME DiskAssumption ==
  /\ NumDrives \in Nat \ {0} /\ Tracks \in Nat \ {0}
  /\ Sectors \in 1 .. 254 /\ SectorSize \in 1 .. 254
  /\ NoImage \notin Images /\ None \notin Nat

VARIABLES
  drives,    \* the array drives[]
  selected,  \* the selected drive, or None
  buf,       \* sectorbuf
  dirty,     \* dirtysector
  flushed,   \* what the last step wrote to a file, or None
  got,       \* the byte the last step read from the data port, or None
  sure,      \* how many bytes of the buffer are what they should be: those the
             \* last fetch delivered, none once the image under the head changed
  overran,   \* a byte was stored outside sectorbuf
  polite     \* the Z80 program has followed the controller's rules so far

vars == <<drives, selected, buf, dirty, flushed, got, sure, overran, polite>>

FF == 255
Drives == 0 .. NumDrives - 1
Bytes  == 0 .. SectorSize - 1

\* S_READRDY is always set and cleared with S_HEADLOAD ("loaded"), and
\* S_HEADMOVE with S_ENABLED ("enabled").
Bits == {"mounted", "track0", "enabled", "loaded", "writerdy"}

Idle == [file |-> NoImage, status |-> {}, track |-> 0, sector |-> 0, byte |-> 0]

\* A byte that write_sector made zero, and one that was in the buffer before what
\* it holds now: of which sector, is not told apart any more.
Zero  == [new |-> FALSE, image |-> NoImage, pos |-> 0, k |-> 0]
Stale == [new |-> TRUE, image |-> NoImage, pos |-> 0, k |-> 0]

AllStale == [k \in Bytes |-> Stale]

Init ==
  /\ drives = [d \in Drives |-> Idle]
  /\ selected = None
  /\ buf = AllStale
  /\ dirty = FALSE
  /\ flushed = None /\ got = None
  /\ sure = SectorSize
  /\ overran = FALSE /\ polite = TRUE

-----------------------------------------------------------------------------
(* The operations are functions of the controller's state s, as one         *)
(* operation may flush the buffer in the middle.                            *)

Now == [drives |-> drives, sel |-> selected, buf |-> buf, dirty |-> dirty,
        flushed |-> None, got |-> None]

Current(s) == s.drives[s.sel]

\* A file holds sector after sector, so that sector 0xff lies a few tracks on.
Pos(d) == d.track * Sectors + d.sector

\* The write is over; whether or not the file could be written.
EndedStillReady(d) == [d EXCEPT !.byte = FF]   \* mistake for StoresStayInside
Ended(d) == [d EXCEPT !.status = @ \ {"writerdy"}, !.byte = FF]

\* write_sector: the rest of the sector is zero.  flushed is what f_write is
\* handed; whether the card takes it, the code does not look.
WriteSector(s) ==
  LET d == Current(s)
      full == [k \in Bytes |-> IF k >= d.byte THEN Zero ELSE s.buf[k]]
  IN [s EXCEPT
       !.drives[s.sel] = Ended(d),
       !.buf = full,
       !.dirty = FALSE,
       !.flushed = IF d.file = NoImage THEN None
                   ELSE [image |-> d.file, pos |-> Pos(d), data |-> full]]

Flush(s) == IF s.dirty /\ s.sel # None THEN WriteSector(s) ELSE s

\* sector = byte = 0xff
Park(d) == [d EXCEPT !.sector = FF, !.byte = FF]

-----------------------------------------------------------------------------
(* drive_select *)

NotDeselected(d) == Park(d)             \* mistake for OneDriveActive
Deselected(d) == [Park(d) EXCEPT !.status = @ \cap {"mounted"}]

\* A mounted drive comes up enabled, and tells whether it is on track 0.
Activated(d) ==
  [Park(d) EXCEPT !.status =
     IF "mounted" \notin d.status THEN {}
     ELSE d.status \cup {"enabled"}
                   \cup (IF d.track = 0 THEN {"track0"} ELSE {})]

Deselect(s) ==
  IF s.sel = None THEN s
  ELSE [s EXCEPT !.drives[s.sel] = Deselected(@)]

Select(s, n) ==
  LET t == Deselect(s) IN
  IF n \notin Drives THEN [t EXCEPT !.sel = None]
  ELSE [t EXCEPT !.sel = n, !.drives[n] = Activated(@)]

-----------------------------------------------------------------------------
(* drive_control: a command is a set of bits, obeyed in this order *)

Commands == SUBSET {"stepin", "stepout", "load", "unload", "write"}

SteppedInOn0(d) ==                      \* mistake for Track0IsTrack0
  [d EXCEPT !.track = IF @ < Tracks - 1 THEN @ + 1 ELSE @]
SteppedIn(d) ==
  [d EXCEPT !.track = IF @ < Tracks - 1 THEN @ + 1 ELSE @,
            !.status = @ \ {"track0"}]

SteppedOut(d) ==
  [d EXCEPT !.track = IF @ > 0 THEN @ - 1 ELSE @,
            !.status = IF d.track <= 1 THEN @ \cup {"track0"} ELSE @]

\* The track has changed by the time the buffer is flushed.
StepIn(s) ==
  LET t == Flush([s EXCEPT !.drives[s.sel] = SteppedIn(@)])
  IN [t EXCEPT !.drives[s.sel] = Park(@)]

StepOut(s) ==
  LET t == Flush([s EXCEPT !.drives[s.sel] = SteppedOut(@)])
  IN [t EXCEPT !.drives[s.sel] = Park(@)]

Loaded(d)   == [d EXCEPT !.status = @ \cup {"loaded"}]
Unloaded(d) == [Park(d) EXCEPT !.status = @ \ {"loaded"}]
Writing(d)  == [d EXCEPT !.byte = 0, !.status = @ \cup {"writerdy"}]

Control(s, cmd) ==
  LET a == IF "stepin" \in cmd THEN StepIn(s) ELSE s
      b == IF "stepout" \in cmd THEN StepOut(a) ELSE a
      c == Flush(b)
      d == Current(c)
      e == IF "load" \in cmd THEN Loaded(d) ELSE d
      f == IF "unload" \in cmd THEN Unloaded(e) ELSE e
      g == IF "write" \in cmd THEN Writing(f) ELSE f
  IN [c EXCEPT !.drives[s.sel] = g]

-----------------------------------------------------------------------------
(* drive_sector, drive_write, drive_read *)

NextSector(d) == IF d.sector + 1 >= Sectors THEN 0 ELSE d.sector + 1

NextSectorSameByte(d) ==                \* mistake for ReadsUnderHead
  IF "loaded" \notin d.status THEN d
  ELSE [d EXCEPT !.sector = NextSector(d)]
\* 0xff wraps to 0, and a sector after the last one is the first one.
Turned(d) ==
  IF "loaded" \notin d.status THEN d
  ELSE [d EXCEPT !.sector = NextSector(d), !.byte = FF]

SectorUnflushed(s) ==                   \* mistake for DirtyIsInReach
  [s EXCEPT !.drives[s.sel] = Turned(@)]
SectorTurnedFirst(s) ==                 \* mistake for WritesStayPut
  LET t == Flush([s EXCEPT !.drives[s.sel].sector = NextSector(Current(s))])
  IN [t EXCEPT !.drives[s.sel].byte = FF]
Sector(s) ==
  LET t == Flush(s) IN [t EXCEPT !.drives[s.sel] = Turned(@)]

Byte(isNew, d, k) == [new |-> isNew, image |-> d.file, pos |-> Pos(d), k |-> k]

\* A byte beyond the sector makes the buffer go to the file.  It is stored all
\* the same, in the spare byte behind the sector or outside the buffer.
Write(s) ==
  LET d == Current(s) IN
  IF d.byte < SectorSize
  THEN [s EXCEPT !.buf[d.byte] = Byte(TRUE, d, d.byte),
                 !.dirty = TRUE,
                 !.drives[s.sel].byte = d.byte + 1]
  ELSE WriteSector(s)

\* Reading on inside the buffer, or fetching the sector under the head, of which
\* the file delivers n bytes.  The others stay as they were in the buffer.
Read(s, n) ==
  LET d == Current(s)
      fetched == [k \in Bytes |-> IF k < n THEN Byte(FALSE, d, k) ELSE s.buf[k]] IN
  IF d.byte < SectorSize
  THEN [s EXCEPT !.got = s.buf[d.byte],
                 !.drives[s.sel].byte = d.byte + 1]
  ELSE [s EXCEPT !.got = fetched[0],
                 !.buf = fetched,
                 !.drives[s.sel].byte = 1]

-----------------------------------------------------------------------------
(* The steps.  The rules of the controller: bytes are written after a write *)
(* command only, at least one of them, and none is read meanwhile.          *)

WriteReady == selected # None /\ "writerdy" \in drives[selected].status

MayMove == ~ (WriteReady /\ drives[selected].byte = 0)

\* The next byte starts the buffer again.
Restarts == selected' = None \/ drives'[selected'].byte \in {0, FF}

\* The controller is now in state s, with n bytes to rely on; was the step allowed?
\* What is in the buffer is told apart until it starts again, or until the rules
\* are broken.
Become(s, n, allowed) ==
  /\ polite' = (polite /\ allowed)
  /\ drives' = s.drives /\ selected' = s.sel /\ dirty' = s.dirty
  /\ IF polite' /\ ~ Restarts THEN buf' = s.buf /\ sure' = n
                              ELSE buf' = AllStale /\ sure' = SectorSize
  /\ IF polite' THEN flushed' = s.flushed /\ got' = s.got
                ELSE flushed' = None /\ got' = None

DriveSelect(n) ==
  /\ Become(Select(Flush(Now), n), sure, MayMove)
  /\ UNCHANGED overran

DriveControl(cmd) ==
  /\ selected # None
  /\ Become(Control(Now, cmd), sure, MayMove)
  /\ UNCHANGED overran

DriveSector ==
  /\ selected # None
  /\ Become(Sector(Now), sure, MayMove)
  /\ UNCHANGED overran

\* The byte is stored first: a parked pointer is outside sectorbuf, which is one
\* byte longer than a sector.
DriveWrite ==
  /\ selected # None
  /\ Become(Write(Now), sure, WriteReady)
  /\ overran' = (drives[selected].byte > SectorSize)

\* A file delivers less than a sector when it is too short, as a new image is,
\* and when the card fails; no result of f_lseek or f_read is looked at.
DriveRead ==
  /\ selected # None
  /\ \E n \in 0 .. SectorSize :
       /\ drives[selected].file = NoImage => n = 0
       /\ Become(Read(Now, n),
                 IF drives[selected].byte < SectorSize THEN sure ELSE n,
                 ~ WriteReady)
  /\ UNCHANGED overran

\* The monitor: no operation on the files looks at the buffer.
Insert(n, file, status) ==
  /\ drives' = [drives EXCEPT ![n].file = file, ![n].status = status]
  /\ flushed' = None /\ got' = None
  /\ UNCHANGED <<selected, buf, dirty, overran, polite>>
  /\ sure' = IF n = selected /\ polite THEN 0 ELSE sure

\* The file stays open when closing it fails.
DriveUnmount(n) ==
  \E file \in {NoImage, drives[n].file} :
    Insert(n, file, drives[n].status \ {"mounted"})

\* An old image is unmounted first; the file may fail to open.  An image is
\* mounted on one drive at a time (FatFs is built without file locks).
DriveMount(n, image) ==
  /\ \A m \in Drives : m # n => drives[m].file # image
  /\ \/ Insert(n, image, drives[n].status \cup {"mounted"})
     \/ Insert(n, NoImage, drives[n].status \ {"mounted"})

\* What a byte outside the buffer overwrites is the linker's choice: of the
\* steps after it nothing is said.
Overrun == overran /\ UNCHANGED vars

Operate ==
  /\ ~ overran
  /\ \/ \E n \in 0 .. NumDrives : DriveSelect(n)
     \/ \E cmd \in Commands : DriveControl(cmd)
     \/ DriveSector
     \/ DriveWrite
     \/ DriveRead
     \/ \E n \in Drives : DriveUnmount(n)
     \/ \E n \in Drives, image \in Images : DriveMount(n, image)

Next == Operate \/ Overrun

Spec == Init /\ [][Next]_vars

-----------------------------------------------------------------------------
(* Properties *)

Places == {t * Sectors + s : t \in 0 .. Tracks - 1, s \in 0 .. Sectors - 1 \cup {FF}}

Cells ==
  [new : BOOLEAN, image : Images \cup {NoImage}, pos : Places, k : Bytes]

Drive == [file : Images \cup {NoImage}, status : SUBSET Bits,
          track : 0 .. Tracks - 1, sector : 0 .. Sectors - 1 \cup {FF},
          byte : 0 .. SectorSize \cup {FF}]

\* Every variable has its type; in particular the head stays on the disk.
TypeOK ==
  /\ drives \in [Drives -> Drive]
  /\ selected \in Drives \cup {None}
  /\ buf \in [Bytes -> Cells]
  /\ dirty \in BOOLEAN
  /\ flushed = None \/ flushed \in [image : Images, pos : Places, data : [Bytes -> Cells]]
  /\ got \in Cells \cup {None}
  /\ sure \in 0 .. SectorSize
  /\ overran \in BOOLEAN /\ polite \in BOOLEAN

\* Nothing in drive_write keeps a byte inside the buffer but the program: one
\* that writes only after a write command, and stops or selects when the sector
\* is full, never stores outside it, because every operation that parks the
\* pointer also ends the write.
StoresStayInside == polite => ~ overran

\* The rest is said of a controller that nothing has overwritten.

\* Bytes that wait in the buffer can still be flushed: their drive is selected
\* and its byte pointer tells how many there are.  No operation parks the
\* pointer or changes drives before it has flushed.
DirtyIsInReach ==
  ~ overran /\ dirty => /\ selected # None
                       /\ drives[selected].byte \in 1 .. SectorSize

\* A drive that is not selected shows no status but whether it is mounted, so
\* that a head left loaded or a write left open does not come back with it.
OneDriveActive ==
  ~ overran =>
    \A d \in Drives : d # selected => drives[d].status \subseteq {"mounted"}

\* Software finds track 0 by stepping out until the status says so: it never
\* says so anywhere else.
Track0IsTrack0 ==
  ~ overran =>
    \A d \in Drives : "track0" \in drives[d].status => drives[d].track = 0

Stepped == \E cmd \in Commands : cmd \cap {"stepin", "stepout"} # {} /\ DriveControl(cmd)

\* What a program that follows the rules wrote for a sector of an image goes to
\* that sector, byte by byte, as far as the card takes it, and nowhere else --
\* unless the head steps before the buffer is flushed (the track changes first),
\* or the image under the head is exchanged.
WritesStayPut ==
  [][flushed' # None /\ polite' /\ ~ Stepped =>
       \A k \in Bytes :
         LET c == flushed'.data[k] IN
         c # Zero /\ k < sure => /\ c.image = flushed'.image
                                /\ c.pos = flushed'.pos /\ c.k = k]_vars

\* Such a program reads the bytes of the sector under the head, in order, and
\* never what the shared buffer still holds of another sector or another drive
\* -- except for the bytes that the file did not deliver when the sector was
\* fetched, and after the image was exchanged in the middle of the sector.
ReadsUnderHead ==
  [][got' # None /\ polite' =>
       LET d == drives'[selected'] IN
       d.byte - 1 < sure' => got' = Byte(FALSE, d, d.byte - 1)]_vars
=============================================================================
