----------------------------- MODULE DiskProofs -----------------------------
(***************************************************************************)
(* The state of the floppy controller stays sound for any number of        *)
(* drives, tracks and sectors, any sector size and any images, as long as  *)
(* no byte is stored outside its buffer.  TypeOK, and DirtyIsInReach,      *)
(* OneDriveActive and Track0IsTrack0 without that condition (nothing       *)
(* follows an overrun in the model) together are inductive.                *)
(*                                                                         *)
(* An operation of disk.c is a function of the controller's state, and     *)
(* often several of them in a row.  So the invariant is stated of a state  *)
(* s (Sound(s)), each function is shown to keep it, and the steps follow.  *)
(*                                                                         *)
(* What the shared buffer holds is known only while the Z80 program keeps  *)
(* the controller's rules: BufferKnown says that it is the sector under    *)
(* the head or the bytes of an open write, and with it StoresStayInside,   *)
(* WritesStayPut and ReadsUnderHead follow.                                *)
(***************************************************************************)
EXTENDS Disk, TLAPS

Written == [image : Images, pos : Places, data : [Bytes -> Cells]]

State ==
  [drives : [Drives -> Drive], sel : Drives \cup {None}, buf : [Bytes -> Cells],
   dirty : BOOLEAN, flushed : {None} \cup Written, got : Cells \cup {None}]

\* A drive as Track0IsTrack0 wants it.
SoundDrive(d) == d \in Drive /\ ("track0" \in d.status => d.track = 0)

\* The invariants, of a state.
Sound(s) ==
  /\ s \in State
  /\ s.dirty => s.sel # None /\ s.drives[s.sel].byte \in 1 .. SectorSize
  /\ \A d \in Drives : d # s.sel => s.drives[d].status \subseteq {"mounted"}
  /\ \A d \in Drives : SoundDrive(s.drives[d])

InReach    == dirty => selected # None /\ drives[selected].byte \in 1 .. SectorSize
OthersOff == \A d \in Drives : d # selected => drives[d].status \subseteq {"mounted"}
OnTrack0   == \A d \in Drives : "track0" \in drives[d].status => drives[d].track = 0

Inv == TypeOK /\ InReach /\ OthersOff /\ OnTrack0

-----------------------------------------------------------------------------
(* One drive *)

\* What the assignments of disk.c to fields of a drive come to.
LEMMA Status ==
  ASSUME NEW d \in Drive, NEW st \in SUBSET Bits
  PROVE  /\ [d EXCEPT !.status = st] \in Drive
         /\ [d EXCEPT !.status = st].status = st
         /\ [d EXCEPT !.status = st].track = d.track
  BY DEF Drive

\* The same of the two pointers, parked or on a sector.
LEMMA SectorAndByte ==
  ASSUME NEW d \in Drive, NEW sec \in (0 .. Sectors - 1) \cup {FF}
  PROVE  /\ [d EXCEPT !.sector = sec, !.byte = FF] \in Drive
         /\ [d EXCEPT !.sector = sec, !.byte = FF].status = d.status
         /\ [d EXCEPT !.sector = sec, !.byte = FF].track = d.track
  BY DEF Drive

\* The same when a write is opened.
LEMMA ByteAndStatus ==
  ASSUME NEW d \in Drive, NEW st \in SUBSET Bits, NEW b \in (0 .. SectorSize) \cup {FF}
  PROVE  /\ [d EXCEPT !.byte = b, !.status = st] \in Drive
         /\ [d EXCEPT !.byte = b, !.status = st].status = st
         /\ [d EXCEPT !.byte = b, !.status = st].track = d.track
  BY DEF Drive

\* The helpers that change one drive keep it sound.
LEMMA DriveOperations ==
  ASSUME NEW d \in Drive, SoundDrive(d)
  PROVE  /\ SoundDrive(Park(d)) /\ SoundDrive(Deselected(d))
         /\ SoundDrive(Activated(d)) /\ SoundDrive(SteppedIn(d))
         /\ SoundDrive(SteppedOut(d)) /\ SoundDrive(Loaded(d))
         /\ SoundDrive(Unloaded(d)) /\ SoundDrive(Writing(d))
         /\ SoundDrive(Turned(d)) /\ SoundDrive(Ended(d))
  <1>. d.status \in SUBSET Bits /\ d.track \in 0 .. Tracks - 1
       /\ d.sector \in (0 .. Sectors - 1) \cup {FF}
    BY DEF SoundDrive, Drive
  <1>. DEFINE p == Park(d)
  <1>1. p \in Drive /\ p.status = d.status /\ p.track = d.track
    BY SectorAndByte DEF Park
  <1>2. SoundDrive(p)
    BY <1>1 DEF SoundDrive
  <1>. HIDE DEF p
  <1>3. SoundDrive(Deselected(d))
    <2>1. p.status \cap {"mounted"} \in SUBSET Bits
      BY <1>1
    <2>2. Deselected(d) = [p EXCEPT !.status = p.status \cap {"mounted"}]
      BY DEF Deselected, p
    <2>. QED  BY <1>1, <2>1, <2>2, Status DEF SoundDrive
  <1>4. SoundDrive(Activated(d))
    <2>. DEFINE st == IF "mounted" \notin d.status THEN {}
                      ELSE d.status \cup {"enabled"}
                                    \cup (IF d.track = 0 THEN {"track0"} ELSE {})
    <2>1. st \in SUBSET Bits
      BY DEF Bits
    <2>2. Activated(d) = [p EXCEPT !.status = st]
      BY DEF Activated, p
    <2>3. "track0" \in st => d.track = 0
      BY DEF SoundDrive
    <2>. HIDE DEF st
    <2>. QED  BY <1>1, <2>1, <2>2, <2>3, Status DEF SoundDrive
  <1>5. SoundDrive(SteppedIn(d))
    <2>. DEFINE t == IF d.track < Tracks - 1 THEN d.track + 1 ELSE d.track
                st == d.status \ {"track0"}
    <2>1. t \in 0 .. Tracks - 1 /\ st \in SUBSET Bits
      BY DiskAssumption
    <2>2. SteppedIn(d) = [d EXCEPT !.track = t, !.status = st]
      BY DEF SteppedIn
    <2>3. "track0" \notin st
      OBVIOUS
    <2>. HIDE DEF t, st
    <2>4. /\ [d EXCEPT !.track = t, !.status = st] \in Drive
          /\ [d EXCEPT !.track = t, !.status = st].status = st
          /\ [d EXCEPT !.track = t, !.status = st].track = t
      BY <2>1 DEF Drive
    <2>. QED  BY <2>2, <2>3, <2>4 DEF SoundDrive
  <1>6. SoundDrive(SteppedOut(d))
    <2>. DEFINE t == IF d.track > 0 THEN d.track - 1 ELSE d.track
                st == IF d.track <= 1 THEN d.status \cup {"track0"} ELSE d.status
    <2>1. t \in 0 .. Tracks - 1 /\ st \in SUBSET Bits
      BY DiskAssumption DEF Bits
    <2>2. SteppedOut(d) = [d EXCEPT !.track = t, !.status = st]
      BY DEF SteppedOut
    <2>3. "track0" \in st => t = 0
      BY DiskAssumption DEF SoundDrive
    <2>. HIDE DEF t, st
    <2>4. /\ [d EXCEPT !.track = t, !.status = st] \in Drive
          /\ [d EXCEPT !.track = t, !.status = st].status = st
          /\ [d EXCEPT !.track = t, !.status = st].track = t
      BY <2>1 DEF Drive
    <2>. QED  BY <2>2, <2>3, <2>4 DEF SoundDrive
  <1>7. SoundDrive(Loaded(d))
    <2>1. d.status \cup {"loaded"} \in SUBSET Bits
      BY DEF Bits
    <2>. QED  BY <2>1, Status DEF Loaded, SoundDrive
  <1>8. SoundDrive(Unloaded(d))
    <2>1. p.status \ {"loaded"} \in SUBSET Bits
      BY <1>1
    <2>2. Unloaded(d) = [p EXCEPT !.status = p.status \ {"loaded"}]
      BY DEF Unloaded, p
    <2>. QED  BY <1>1, <1>2, <2>1, <2>2, Status DEF SoundDrive
  <1>9. SoundDrive(Writing(d))
    <2>1. d.status \cup {"writerdy"} \in SUBSET Bits /\ 0 \in 0 .. SectorSize
      BY DiskAssumption DEF Bits
    <2>2. /\ Writing(d) \in Drive /\ Writing(d).track = d.track
          /\ Writing(d).status = d.status \cup {"writerdy"}
      BY <2>1, ByteAndStatus DEF Writing
    <2>. QED  BY <2>2 DEF SoundDrive
  <1>10. SoundDrive(Turned(d))
    <2>1. NextSector(d) \in (0 .. Sectors - 1) \cup {FF}
      BY DiskAssumption DEF NextSector, FF
    <2>. QED  BY <2>1, SectorAndByte DEF Turned, SoundDrive
  <1>11. SoundDrive(Ended(d))
    <2>. DEFINE st == d.status \ {"writerdy"}
    <2>1. st \in SUBSET Bits /\ ("track0" \in st => d.track = 0)
      BY DEF SoundDrive
    <2>2. Ended(d) = [d EXCEPT !.status = st, !.byte = FF]
      BY DEF Ended
    <2>. HIDE DEF st
    <2>3. /\ Ended(d) \in Drive
          /\ Ended(d).status = st /\ Ended(d).track = d.track
      BY <2>1, <2>2 DEF Drive
    <2>. QED  BY <2>1, <2>3 DEF SoundDrive
  <1>. QED  BY <1>2, <1>3, <1>4, <1>5, <1>6, <1>7, <1>8, <1>9, <1>10, <1>11 DEF p

\* Stepping leaves the byte pointer alone.
LEMMA SteppingKeepsByte ==
  ASSUME NEW d \in Drive
  PROVE  SteppedIn(d).byte = d.byte /\ SteppedOut(d).byte = d.byte
  BY DEF SteppedIn, SteppedOut, Drive

\* What a deselected drive shows, and one that is not mounted.
LEMMA DeselectedStatus ==
  ASSUME NEW d \in Drive
  PROVE  Deselected(d).status \subseteq {"mounted"}
  BY DEF Deselected, Park, Drive

\* Changing the selected drive keeps a state sound, if bytes that wait in the
\* buffer stay counted.
LEMMA Changed ==
  ASSUME NEW s, Sound(s), s.sel \in Drives, NEW d, SoundDrive(d),
         s.dirty => d.byte \in 1 .. SectorSize
  PROVE  /\ Sound([s EXCEPT !.drives[s.sel] = d])
         /\ [s EXCEPT !.drives[s.sel] = d].sel = s.sel
         /\ [s EXCEPT !.drives[s.sel] = d].dirty = s.dirty
  BY DiskAssumption DEF Sound, State, SoundDrive, Drives

-----------------------------------------------------------------------------
(* Bytes and sectors *)

\* The place of a head is on the file, and its bytes are bytes.
LEMMA CellsAndPlaces ==
  ASSUME NEW d \in Drive
  PROVE  /\ Pos(d) \in Places
         /\ Zero \in Cells
         /\ \A k \in Bytes, isNew \in BOOLEAN : Byte(isNew, d, k) \in Cells
  <1>1. Pos(d) \in Places
    <2>1. PICK t \in 0 .. Tracks - 1, sec \in (0 .. Sectors - 1) \cup {FF} :
            d.track = t /\ d.sector = sec
      BY DEF Drive
    <2>2. t * Sectors + sec \in Places
      BY DEF Places
    <2>. QED  BY <2>1, <2>2 DEF Pos
  <1>2. 0 \in Places
    BY DiskAssumption DEF Places
  <1>3. Zero \in Cells
    BY <1>2, DiskAssumption DEF Zero, Cells, Bytes
  <1>4. \A k \in Bytes, isNew \in BOOLEAN : Byte(isNew, d, k) \in Cells
    BY <1>1 DEF Byte, Cells, Drive
  <1>. QED  BY <1>1, <1>3, <1>4
-----------------------------------------------------------------------------
(* The operations, on a state *)

\* A buffer whose bytes are not told apart is a buffer.
LEMMA StaleBytes == AllStale \in [Bytes -> Cells]
  BY DiskAssumption DEF AllStale, Stale, Cells, Places, Bytes

\* What a flush and the operations after it leave: nothing waits.
Calm(s) == Sound(s) /\ s.sel \in Drives /\ s.dirty = FALSE

\* Any sound drive may take the place of the selected one when nothing waits.
LEMMA CalmChange ==
  ASSUME NEW s, Calm(s), NEW d, SoundDrive(d)
  PROVE  Calm([s EXCEPT !.drives[s.sel] = d])
  BY Changed DEF Calm

\* write_sector may be called at any time.
LEMMA WriteSectorSound ==
  ASSUME NEW s, Sound(s), s.sel \in Drives
  PROVE  Calm(WriteSector(s)) /\ WriteSector(s).sel = s.sel
  <1>. DEFINE d == s.drives[s.sel]
              full == [k \in Bytes |-> IF k >= d.byte THEN Zero ELSE s.buf[k]]
              wr == IF d.file = NoImage THEN None
                    ELSE [image |-> d.file, pos |-> Pos(d), data |-> full]
  <1>1. d \in Drive /\ SoundDrive(d) /\ s \in State
    BY DEF Sound, SoundDrive
  <1>2. SoundDrive(Ended(d))
    BY <1>1, DriveOperations
  <1>3. full \in [Bytes -> Cells]
    BY <1>1, CellsAndPlaces DEF State
  <1>4. wr \in {None} \cup Written
    BY <1>1, <1>3, CellsAndPlaces DEF Written, Drive
  <1>5. WriteSector(s) = [s EXCEPT !.drives[s.sel] = Ended(d), !.buf = full,
                                   !.dirty = FALSE, !.flushed = wr]
    BY DEF WriteSector, Current
  <1>. DEFINE e == Ended(d)
  <1>6. e \in Drive /\ s \in State /\ s.sel \in Drives
    BY <1>1, <1>2 DEF SoundDrive
  <1>7. WriteSector(s) = [s EXCEPT !.drives[s.sel] = e, !.buf = full,
                                   !.dirty = FALSE, !.flushed = wr]
    BY <1>5
  <1>. HIDE DEF full, wr, e
  <1>8. /\ WriteSector(s) \in State
        /\ WriteSector(s).sel = s.sel /\ WriteSector(s).dirty = FALSE
        /\ WriteSector(s).drives = [s.drives EXCEPT ![s.sel] = e]
    BY <1>3, <1>4, <1>6, <1>7 DEF State
  <1>9. SoundDrive(e)
    BY <1>2 DEF e
  <1>. HIDE DEF d
  <1>. QED  BY <1>6, <1>8, <1>9 DEF Calm, Sound, State

\* A flush keeps the state sound and leaves nothing waiting.
LEMMA FlushSound ==
  ASSUME NEW s, Sound(s)
  PROVE  Sound(Flush(s)) /\ Flush(s).sel = s.sel /\ Flush(s).dirty = FALSE
  <1>1. CASE s.dirty /\ s.sel # None
    <2>1. s.sel \in Drives
      BY <1>1 DEF Sound, State
    <2>. QED  BY <1>1, <2>1, WriteSectorSound DEF Flush, Calm
  <1>2. CASE ~ (s.dirty /\ s.sel # None)
    BY <1>2 DEF Flush, Sound, State
  <1>. QED  BY <1>1, <1>2

\* After drive_select deselected, no drive is active.
LEMMA DeselectSound ==
  ASSUME NEW s, Sound(s), s.dirty = FALSE
  PROVE  /\ Deselect(s) \in State /\ Deselect(s).dirty = FALSE
         /\ \A d \in Drives : /\ SoundDrive(Deselect(s).drives[d])
                             /\ Deselect(s).drives[d].status \subseteq {"mounted"}
  <1>1. CASE s.sel = None
    BY <1>1, DiskAssumption DEF Deselect, Sound, Drives
  <1>2. CASE s.sel # None
    <2>1. s.sel \in Drives /\ s \in State /\ s.drives[s.sel] \in Drive
      BY <1>2 DEF Sound, State
    <2>. DEFINE d == Deselected(s.drives[s.sel])
    <2>2. SoundDrive(d) /\ d.status \subseteq {"mounted"}
      BY <2>1, DriveOperations, DeselectedStatus DEF Sound
    <2>3. Deselect(s) = [s EXCEPT !.drives[s.sel] = d]
      BY <1>2 DEF Deselect
    <2>. HIDE DEF d
    <2>. QED  BY <2>1, <2>2, <2>3 DEF Sound, State, SoundDrive
  <1>. QED  BY <1>1, <1>2

\* drive_select, once nothing waits.
LEMMA SelectSound ==
  ASSUME NEW s, Sound(s), s.dirty = FALSE, NEW n \in 0 .. NumDrives
  PROVE  Sound(Select(s, n))
  <1>. DEFINE t == Deselect(s)
  <1>1. /\ t \in State /\ t.dirty = FALSE
        /\ \A d \in Drives : /\ SoundDrive(t.drives[d])
                            /\ t.drives[d].status \subseteq {"mounted"}
    BY DeselectSound
  <1>. HIDE DEF t
  <1>2. CASE n \notin Drives
    <2>1. Select(s, n) = [t EXCEPT !.sel = None]
      BY <1>2 DEF Select, t
    <2>. QED  BY <1>1, <2>1 DEF Sound, State
  <1>3. CASE n \in Drives
    <2>. DEFINE d == Activated(t.drives[n])
    <2>1. t.drives[n] \in Drive
      BY <1>1, <1>3 DEF State
    <2>2. SoundDrive(d)
      BY <1>1, <1>3, <2>1, DriveOperations
    <2>3. Select(s, n) = [t EXCEPT !.sel = n, !.drives[n] = d]
      BY <1>3 DEF Select, t
    <2>. HIDE DEF d
    <2>4. /\ Select(s, n) \in State
          /\ Select(s, n).sel = n /\ Select(s, n).dirty = FALSE
          /\ Select(s, n).drives = [t.drives EXCEPT ![n] = d]
      BY <1>1, <1>3, <2>2, <2>3 DEF State, SoundDrive
    <2>. QED  BY <1>1, <1>3, <2>2, <2>4 DEF Sound, State
  <1>. QED  BY <1>2, <1>3

\* A step flushes between moving the head and parking the pointers.
LEMMA StepSound ==
  ASSUME NEW s, Sound(s), s.sel \in Drives
  PROVE  /\ Sound(StepIn(s)) /\ StepIn(s).sel = s.sel
         /\ Sound(StepOut(s)) /\ StepOut(s).sel = s.sel
  <1>. DEFINE After(d) == Flush([s EXCEPT !.drives[s.sel] = d])
              Moved(d) == [After(d) EXCEPT !.drives[s.sel] = Park(After(d).drives[s.sel])]
              cur == s.drives[s.sel]
  <1>1. cur \in Drive /\ SoundDrive(cur)
    BY DEF Sound, State
  <1>2. ASSUME NEW d, SoundDrive(d), d.byte = cur.byte
        PROVE  Sound(Moved(d)) /\ Moved(d).sel = s.sel
    <2>1. s.dirty => d.byte \in 1 .. SectorSize
      BY <1>2 DEF Sound
    <2>2. /\ Sound([s EXCEPT !.drives[s.sel] = d])
          /\ [s EXCEPT !.drives[s.sel] = d].sel = s.sel
      BY <1>2, <2>1, Changed
    <2>3. Calm(After(d)) /\ After(d).sel = s.sel
      BY <2>2, FlushSound DEF Calm
    <2>. HIDE DEF After
    <2>4. SoundDrive(Park(After(d).drives[s.sel]))
      BY <2>3, DriveOperations DEF Calm, Sound, State
    <2>. QED  BY <2>3, <2>4, Changed DEF Calm
  <1>3. SoundDrive(SteppedIn(cur)) /\ SoundDrive(SteppedOut(cur))
        /\ SteppedIn(cur).byte = cur.byte /\ SteppedOut(cur).byte = cur.byte
    BY <1>1, DriveOperations, SteppingKeepsByte
  <1>4. StepIn(s) = Moved(SteppedIn(cur)) /\ StepOut(s) = Moved(SteppedOut(cur))
    BY DEF StepIn, StepOut
  <1>. HIDE DEF Moved, cur
  <1>. QED  BY <1>2, <1>3, <1>4

\* A control command, of any set of bits.
LEMMA ControlSound ==
  ASSUME NEW s, Sound(s), s.sel \in Drives, NEW cmd \in Commands
  PROVE  Sound(Control(s, cmd))
  <1>. DEFINE a == IF "stepin" \in cmd THEN StepIn(s) ELSE s
              b == IF "stepout" \in cmd THEN StepOut(a) ELSE a
              c == Flush(b)
              d == c.drives[c.sel]
              e == IF "load" \in cmd THEN Loaded(d) ELSE d
              f == IF "unload" \in cmd THEN Unloaded(e) ELSE e
              g == IF "write" \in cmd THEN Writing(f) ELSE f
  <1>1. Sound(a) /\ a.sel = s.sel
    BY StepSound
  <1>. HIDE DEF a
  <1>2. Sound(b) /\ b.sel = s.sel
    BY <1>1, StepSound
  <1>. HIDE DEF b
  <1>3. Calm(c) /\ c.sel = s.sel
    BY <1>2, FlushSound DEF Calm
  <1>. HIDE DEF c
  <1>4. d \in Drive /\ SoundDrive(d)
    BY <1>3 DEF Calm, Sound, State
  <1>. HIDE DEF d
  <1>5. e \in Drive /\ SoundDrive(e)
    BY <1>4, DriveOperations DEF SoundDrive
  <1>. HIDE DEF e
  <1>6. f \in Drive /\ SoundDrive(f)
    BY <1>5, DriveOperations DEF SoundDrive
  <1>. HIDE DEF f
  <1>7. SoundDrive(g)
    BY <1>6, DriveOperations
  <1>8. Control(s, cmd) = [c EXCEPT !.drives[c.sel] = g]
    BY <1>3 DEF Control, Current, a, b, c, d, e, f
  <1>. HIDE DEF g
  <1>9. Calm(Control(s, cmd))
    BY <1>3, <1>7, <1>8, CalmChange
  <1>. QED  BY <1>9 DEF Calm

\* drive_sector flushes before the next sector comes under the head.
LEMMA SectorSound ==
  ASSUME NEW s, Sound(s), s.sel \in Drives
  PROVE  Sound(Sector(s))
  <1>. DEFINE t == Flush(s)
              d == Turned(t.drives[t.sel])
  <1>1. Calm(t) /\ t.sel = s.sel
    BY FlushSound DEF Calm
  <1>. HIDE DEF t
  <1>2. SoundDrive(d)
    BY <1>1, DriveOperations DEF Calm, Sound, State
  <1>3. Sector(s) = [t EXCEPT !.drives[t.sel] = d]
    BY <1>1 DEF Sector, t
  <1>. HIDE DEF d
  <1>4. Calm(Sector(s))
    BY <1>1, <1>2, <1>3, CalmChange
  <1>. QED  BY <1>4 DEF Calm

\* A byte beyond the sector flushes the buffer; any other one is counted.
LEMMA WriteSound ==
  ASSUME NEW s, Sound(s), s.sel \in Drives
  PROVE  Sound(Write(s))
  <1>. DEFINE d == s.drives[s.sel]
  <1>1. d \in Drive /\ SoundDrive(d) /\ s \in State
    BY DEF Sound, State
  <1>2. CASE d.byte < SectorSize
    <2>. DEFINE cell == Byte(TRUE, d, d.byte)
                e == [d EXCEPT !.byte = d.byte + 1]
                t == Write(s)
    <2>1. d.byte \in Bytes /\ d.byte + 1 \in 1 .. SectorSize
      BY <1>1, <1>2, DiskAssumption DEF Drive, Bytes, FF
    <2>2. cell \in Cells
      BY <1>1, <2>1, CellsAndPlaces
    <2>3. /\ e \in Drive /\ e.byte = d.byte + 1
          /\ e.status = d.status /\ e.track = d.track
      BY <1>1, <2>1 DEF Drive
    <2>4. SoundDrive(e)
      BY <1>1, <2>3 DEF SoundDrive
    <2>5. t = [s EXCEPT !.buf[d.byte] = cell, !.dirty = TRUE,
                        !.drives[s.sel].byte = d.byte + 1]
      BY <1>2 DEF Write, Current
    <2>. HIDE DEF cell, t
    <2>6. t.drives = [s.drives EXCEPT ![s.sel] = e]
      BY <1>1, <2>5 DEF State
    <2>. HIDE DEF e
    <2>7. t.sel = s.sel /\ t.dirty = TRUE
      BY <1>1, <2>5 DEF State
    <2>8. t.buf = [s.buf EXCEPT ![d.byte] = cell]
      BY <1>1, <2>5 DEF State
    <2>9. t \in State
      BY <1>1, <2>1, <2>2, <2>3, <2>5, <2>6, <2>8 DEF State
    <2>10. t.sel # None /\ t.sel \in Drives
      BY <2>7, DiskAssumption DEF Drives
    <2>11. /\ t.drives[t.sel] = e
           /\ \A x \in Drives : x # t.sel => t.drives[x] = s.drives[x]
      BY <1>1, <2>6, <2>7 DEF State
    <2>12. e.byte \in 1 .. SectorSize
      BY <2>1, <2>3
    <2>13. \A x \in Drives : SoundDrive(t.drives[x])
      BY <2>4, <2>11 DEF Sound
    <2>14. \A x \in Drives : x # t.sel => t.drives[x].status \subseteq {"mounted"}
      BY <2>7, <2>11 DEF Sound
    <2>. HIDE DEF d
    <2>15. Sound(t)
      BY <2>9, <2>10, <2>11, <2>12, <2>13, <2>14 DEF Sound
    <2>. QED  BY <2>15 DEF t
  <1>3. CASE ~ (d.byte < SectorSize)
    BY <1>3, WriteSectorSound DEF Write, Current, Calm
  <1>. QED  BY <1>2, <1>3

\* A read moves on inside the buffer, or fetches a sector of good bytes.
LEMMA ReadSound ==
  ASSUME NEW s, Sound(s), s.sel \in Drives, NEW n
  PROVE  Sound(Read(s, n))
  <1>. DEFINE d == s.drives[s.sel]
              At(k) == [d EXCEPT !.byte = k]
              fetched == [k \in Bytes |-> IF k < n THEN Byte(FALSE, d, k) ELSE s.buf[k]]
  <1>1. d \in Drive /\ SoundDrive(d) /\ s \in State
    BY DEF Sound, State
  <1>2. fetched \in [Bytes -> Cells]
    BY <1>1, CellsAndPlaces DEF State
  <1>3. ASSUME NEW k \in 1 .. SectorSize
        PROVE  SoundDrive(At(k)) /\ At(k).byte = k
    BY <1>1 DEF SoundDrive, Drive
  <1>4. ASSUME NEW k \in 1 .. SectorSize, NEW t, t \in State, t.sel = s.sel, t.dirty = s.dirty,
               t.drives = [s.drives EXCEPT ![s.sel] = At(k)]
        PROVE  Sound(t)
    <2>. HIDE DEF At
    <2>1. t.drives[t.sel].byte = k /\ SoundDrive(t.drives[t.sel])
      BY <1>1, <1>3, <1>4 DEF State
    <2>2. \A x \in Drives : x # t.sel => t.drives[x] = s.drives[x]
      BY <1>1, <1>4 DEF State
    <2>. QED  BY <1>4, <2>1, <2>2 DEF Sound
  <1>5. CASE d.byte < SectorSize
    <2>1. d.byte \in Bytes /\ d.byte + 1 \in 1 .. SectorSize
      BY <1>1, <1>5, DiskAssumption DEF Drive, Bytes, FF
    <2>2. s.buf[d.byte] \in Cells
      BY <1>1, <2>1 DEF State
    <2>3. Read(s, n) = [s EXCEPT !.got = s.buf[d.byte], !.drives[s.sel].byte = d.byte + 1]
      BY <1>5 DEF Read, Current
    <2>. DEFINE c == s.buf[d.byte]
                e == At(d.byte + 1)
    <2>4. Read(s, n) = [s EXCEPT !.got = c, !.drives[s.sel] = e]
      BY <2>3
    <2>5. e \in Drive
      BY <1>3, <2>1 DEF SoundDrive
    <2>. HIDE DEF c, e
    <2>6. c \in Cells
      BY <2>2 DEF c
    <2>7. Read(s, n) \in State
      BY <1>1, <2>4, <2>5, <2>6 DEF State
    <2>8. Read(s, n).sel = s.sel /\ Read(s, n).dirty = s.dirty
      BY <1>1, <2>4 DEF State
    <2>9. Read(s, n).drives = [s.drives EXCEPT ![s.sel] = e]
      BY <1>1, <2>4 DEF State
    <2>. QED  BY <1>4, <2>1, <2>7, <2>8, <2>9 DEF e
  <1>6. CASE ~ (d.byte < SectorSize)
    <2>. DEFINE c == fetched[0]
                e == At(1)
    <2>. HIDE DEF fetched
    <2>1. c \in Cells /\ 0 \in Bytes /\ 1 \in 1 .. SectorSize
      BY <1>2, DiskAssumption DEF Bytes
    <2>2. Read(s, n) = [s EXCEPT !.got = c, !.buf = fetched, !.drives[s.sel] = e]
      BY <1>6 DEF Read, Current, fetched
    <2>3. e \in Drive
      BY <1>3, <2>1 DEF SoundDrive
    <2>. HIDE DEF c, e
    <2>4. Read(s, n).drives = [s.drives EXCEPT ![s.sel] = e]
      BY <1>1, <2>2 DEF State
    <2>5. Read(s, n).sel = s.sel /\ Read(s, n).dirty = s.dirty
      BY <1>1, <2>2 DEF State
    <2>6. Read(s, n).got = c /\ Read(s, n).buf = fetched
      BY <1>1, <2>2 DEF State
    <2>7. Read(s, n) \in State
      <3>1. s.sel \in Drives /\ s \in State
        BY <1>1
      <3>. HIDE DEF d
      <3>. DEFINE u == [s EXCEPT !.got = c, !.buf = fetched]
      <3>2. u \in State
        BY <1>2, <2>1, <3>1 DEF State
      <3>3. Read(s, n) = [u EXCEPT !.drives[s.sel] = e]
        BY <2>2
      <3>. HIDE DEF u
      <3>. QED  BY <2>3, <3>1, <3>2, <3>3 DEF State
    <2>. QED  BY <1>4, <2>1, <2>4, <2>5, <2>7 DEF e
  <1>. QED  BY <1>5, <1>6

-----------------------------------------------------------------------------
(* The bytes in the buffer *)

\* Nothing of the sector is written: the buffer is the sector under the head, as
\* far as it can be relied on, if any of it has been read (wait: the dirty flag,
\* b: the buffer, n: how many bytes to rely on).
Reading(d, wait, b, n) ==
  /\ "writerdy" \notin d.status /\ ~ wait /\ d.byte # 0
  /\ d.byte # FF => \A k \in Bytes : k < n => b[k] = Byte(FALSE, d, k)

\* A write is open: the buffer starts with the bytes written so far.
Filling(d, wait, b, n) ==
  /\ "writerdy" \in d.status /\ d.byte \in 0 .. SectorSize
  /\ wait <=> d.byte > 0
  /\ \A k \in Bytes : k < d.byte /\ k < n => b[k] = Byte(TRUE, d, k)

Settled(s, sw) == s.sel # None => Reading(s.drives[s.sel], s.dirty, s.buf, sw)

Known(s, sw) ==
  s.sel # None => \/ Reading(s.drives[s.sel], s.dirty, s.buf, sw)
                  \/ Filling(s.drives[s.sel], s.dirty, s.buf, sw)

\* As long as the program follows the rules, the buffer is known.
BufferKnown == polite => Known(Now, sure)

\* MayMove, of a state.
NoWriteBegun(s) ==
  s.sel # None => ~ ("writerdy" \in s.drives[s.sel].status /\ s.drives[s.sel].byte = 0)

\* What WritesStayPut asks of the sector w written to a file.
InPlace(w, n) ==
  \A k \in Bytes :
    LET c == w.data[k] IN
    c # Zero /\ k < n => c.image = w.image /\ c.pos = w.pos /\ c.k = k

\* With the pointer parked, nothing of the sector has been read.
LEMMA ParkedReading ==
  ASSUME NEW d, "writerdy" \notin d.status, d.byte = FF, NEW b, NEW sw
  PROVE  Reading(d, FALSE, b, sw)
  BY DEF Reading, FF

\* A buffer that is started again is known whatever is in it.
LEMMA RestartForgets ==
  ASSUME NEW s, NEW sw, Known(s, sw), NEW b, NEW n,
         s.sel # None, s.drives[s.sel].byte \in {0, FF}
  PROVE  \/ Reading(s.drives[s.sel], s.dirty, b, n)
         \/ Filling(s.drives[s.sel], s.dirty, b, n)
  <1>1. PICK d : d = s.drives[s.sel]
    OBVIOUS
  <1>2. d.byte \in {0, FF}
    BY <1>1
  <1>3. CASE Reading(d, s.dirty, s.buf, sw)
    <2>1. d.byte = FF
      BY <1>2, <1>3 DEF Reading
    <2>2. Reading(d, s.dirty, b, n)
      BY <1>3, <2>1 DEF Reading
    <2>. QED  BY <1>1, <2>2
  <1>4. CASE Filling(d, s.dirty, s.buf, sw)
    <2>1. d.byte = 0
      BY <1>2, <1>4, DiskAssumption DEF Filling, FF
    <2>2. \A k \in Bytes : ~ (k < d.byte)
      BY <2>1, DiskAssumption DEF Bytes
    <2>3. Filling(d, s.dirty, b, n)
      BY <1>4, <2>2 DEF Filling
    <2>. QED  BY <1>1, <2>3
  <1>. QED  BY <1>1, <1>3, <1>4 DEF Known

\* What write_sector leaves.
LEMMA WriteSectorDoes ==
  ASSUME NEW s, Sound(s), s.sel \in Drives
  PROVE  /\ WriteSector(s).sel = s.sel /\ WriteSector(s).dirty = FALSE
         /\ WriteSector(s).drives[s.sel] = Ended(s.drives[s.sel])
         /\ WriteSector(s).got = s.got
  <1>. DEFINE e == Ended(s.drives[s.sel])
              full == [k \in Bytes |-> IF k >= Current(s).byte THEN Zero ELSE s.buf[k]]
              wr == IF Current(s).file = NoImage THEN None
                    ELSE [image |-> Current(s).file, pos |-> Pos(Current(s)), data |-> full]
  <1>1. WriteSector(s) = [s EXCEPT !.drives[s.sel] = e, !.buf = full,
                                   !.dirty = FALSE, !.flushed = wr]
    BY DEF WriteSector, Current
  <1>. HIDE DEF e, full, wr
  <1>2. /\ WriteSector(s).sel = s.sel /\ WriteSector(s).dirty = FALSE
        /\ WriteSector(s).drives[s.sel] = e /\ WriteSector(s).got = s.got
    BY <1>1 DEF Sound, State
  <1>. QED  BY <1>2 DEF e

\* After it, the write is over and the pointer parked.
LEMMA WriteSectorSettles ==
  ASSUME NEW s, Sound(s), s.sel \in Drives, NEW sw
  PROVE  /\ Settled(WriteSector(s), sw)
         /\ "writerdy" \notin WriteSector(s).drives[s.sel].status
  <1>1. PICK d : d = s.drives[s.sel]
    OBVIOUS
  <1>2. d \in Drive
    BY <1>1 DEF Sound, State
  <1>3. "writerdy" \notin Ended(d).status /\ Ended(d).byte = FF
    BY <1>2 DEF Ended, Drive
  <1>4. Reading(Ended(d), FALSE, WriteSector(s).buf, sw)
    BY <1>3, ParkedReading
  <1>. QED  BY <1>1, <1>3, <1>4, WriteSectorDoes DEF Settled

\* The bytes of an open write go where they belong.
LEMMA WriteSectorInPlace ==
  ASSUME NEW s, Sound(s), s.sel \in Drives, NEW sw,
         Filling(s.drives[s.sel], s.dirty, s.buf, sw),
         WriteSector(s).flushed # None
  PROVE  InPlace(WriteSector(s).flushed, sw)
  <1>1. PICK d : d = s.drives[s.sel]
    OBVIOUS
  <1>. DEFINE full == [k \in Bytes |-> IF k >= d.byte THEN Zero ELSE s.buf[k]]
              e == Ended(d)
              wr == IF d.file = NoImage THEN None
                    ELSE [image |-> d.file, pos |-> Pos(d), data |-> full]
  <1>2. WriteSector(s) = [s EXCEPT !.drives[s.sel] = e, !.buf = full,
                                   !.dirty = FALSE, !.flushed = wr]
    BY <1>1 DEF WriteSector, Current
  <1>3. WriteSector(s).flushed = wr
    <2>. HIDE DEF e, full, wr
    <2>. QED  BY <1>2 DEF Sound, State
  <1>4. wr = [image |-> d.file, pos |-> Pos(d), data |-> full]
    BY <1>3
  <1>5. ASSUME NEW k \in Bytes, full[k] # Zero, k < sw
        PROVE  full[k].image = d.file /\ full[k].pos = Pos(d) /\ full[k].k = k
    <2>1. k < d.byte /\ full[k] = s.buf[k]
      BY <1>1, <1>5, DiskAssumption DEF Bytes, Filling
    <2>2. s.buf[k] = Byte(TRUE, d, k)
      BY <1>1, <1>5, <2>1 DEF Filling
    <2>. QED  BY <2>1, <2>2 DEF Byte
  <1>6. wr.data = full /\ wr.image = d.file /\ wr.pos = Pos(d)
    BY <1>4
  <1>. HIDE DEF full, wr
  <1>. QED  BY <1>3, <1>5, <1>6 DEF InPlace

\* An open write has just begun, or bytes of it wait.
LEMMA BegunOrWaiting ==
  ASSUME NEW s, NoWriteBegun(s), s.sel # None, ~ s.dirty, NEW sw
  PROVE  ~ Filling(s.drives[s.sel], s.dirty, s.buf, sw)
  <1>1. PICK d : d = s.drives[s.sel]
    OBVIOUS
  <1>. SUFFICES ASSUME Filling(d, s.dirty, s.buf, sw)
                PROVE  FALSE
    BY <1>1
  <1>2. "writerdy" \in d.status /\ d.byte \in 0 .. SectorSize /\ ~ (d.byte > 0)
    BY DEF Filling
  <1>3. d.byte = 0
    BY <1>2, DiskAssumption
  <1>. QED  BY <1>1, <1>2, <1>3 DEF NoWriteBegun

\* A flush settles a known buffer, unless a write was begun and nothing written.
LEMMA FlushSettles ==
  ASSUME NEW s, Sound(s), NEW sw, Known(s, sw), NoWriteBegun(s)
  PROVE  Settled(Flush(s), sw) /\ Flush(s).got = s.got
  <1>1. CASE s.dirty /\ s.sel # None
    <2>1. s.sel \in Drives /\ Flush(s) = WriteSector(s)
      BY <1>1 DEF Sound, State, Flush
    <2>. QED  BY <2>1, WriteSectorSettles, WriteSectorDoes
  <1>2. CASE ~ (s.dirty /\ s.sel # None)
    <2>1. Flush(s) = s
      BY <1>2 DEF Flush
    <2>2. s.sel # None => ~ Filling(s.drives[s.sel], s.dirty, s.buf, sw)
      BY <1>2, BegunOrWaiting
    <2>. QED  BY <2>1, <2>2 DEF Known, Settled
  <1>. QED  BY <1>1, <1>2

\* It writes bytes where they belong.
LEMMA FlushInPlace ==
  ASSUME NEW s, Sound(s), NEW sw, Known(s, sw), s.flushed = None,
         Flush(s).flushed # None
  PROVE  InPlace(Flush(s).flushed, sw)
  <1>1. s.dirty /\ s.sel # None
    BY DEF Flush
  <1>2. s.sel \in Drives /\ Flush(s) = WriteSector(s)
    BY <1>1 DEF Sound, State, Flush
  <1>3. Filling(s.drives[s.sel], s.dirty, s.buf, sw)
    BY <1>1 DEF Known, Reading
  <1>. QED  BY <1>2, <1>3, WriteSectorInPlace

\* A settled buffer whose pointer is parked stays so.
LEMMA ParkedIsSettled ==
  ASSUME NEW s, Calm(s), NEW d, SoundDrive(d), "writerdy" \notin d.status,
         d.byte = FF, NEW sw
  PROVE  Settled([s EXCEPT !.drives[s.sel] = d], sw)
  <1>1. PICK t : t = [s EXCEPT !.drives[s.sel] = d]
    OBVIOUS
  <1>2. t.sel = s.sel /\ t.drives[s.sel] = d /\ t.dirty = FALSE
    BY <1>1 DEF Calm, Sound, State
  <1>3. Reading(d, FALSE, t.buf, sw)
    BY ParkedReading
  <1>4. Settled(t, sw)
    BY <1>2, <1>3 DEF Settled
  <1>. QED  BY <1>1, <1>4

\* drive_select leaves the pointer parked.
LEMMA SelectSettles ==
  ASSUME NEW s, Sound(s), s.dirty = FALSE, NEW n \in 0 .. NumDrives, NEW sw
  PROVE  /\ Settled(Select(s, n), sw)
         /\ Select(s, n).flushed = s.flushed /\ Select(s, n).got = s.got
  <1>. DEFINE t == Deselect(s)
  <1>1. /\ t \in State /\ t.dirty = FALSE
        /\ \A d \in Drives : /\ SoundDrive(t.drives[d])
                            /\ t.drives[d].status \subseteq {"mounted"}
    BY DeselectSound
  <1>2. t.flushed = s.flushed /\ t.got = s.got
    BY DEF Deselect, Sound, State
  <1>. HIDE DEF t
  <1>3. CASE n \notin Drives
    <2>1. Select(s, n) = [t EXCEPT !.sel = None]
      BY <1>3 DEF Select, t
    <2>. QED  BY <1>1, <1>2, <2>1 DEF Settled, State
  <1>4. CASE n \in Drives
    <2>1. PICK c : c = t.drives[n]
      OBVIOUS
    <2>2. c \in Drive /\ c.status \subseteq {"mounted"}
      BY <1>1, <1>4, <2>1 DEF State
    <2>3. "writerdy" \notin Activated(c).status /\ Activated(c).byte = FF
      BY <2>2 DEF Activated, Park, Drive
    <2>4. PICK d : d = Activated(c)
      OBVIOUS
    <2>. "writerdy" \notin d.status /\ d.byte = FF
      BY <2>3, <2>4
    <2>5. Select(s, n) = [t EXCEPT !.sel = n, !.drives[n] = d]
      BY <1>4, <2>1, <2>4 DEF Select, t
    <2>6. /\ Select(s, n).sel = n /\ Select(s, n).dirty = FALSE
          /\ Select(s, n).drives[n] = d
          /\ Select(s, n).flushed = t.flushed /\ Select(s, n).got = t.got
      BY <1>1, <1>4, <2>5 DEF State
    <2>7. Reading(d, FALSE, Select(s, n).buf, sw)
      BY ParkedReading
    <2>. QED  BY <1>2, <2>6, <2>7 DEF Settled
  <1>. QED  BY <1>3, <1>4

\* Stepping leaves it parked, too; where the bytes that waited went, it does not
\* say.
LEMMA StepSettles ==
  ASSUME NEW s, Sound(s), s.sel \in Drives, NEW sw, Known(s, sw), NoWriteBegun(s)
  PROVE  /\ Settled(StepIn(s), sw) /\ NoWriteBegun(StepIn(s)) /\ StepIn(s).got = s.got
         /\ Settled(StepOut(s), sw) /\ NoWriteBegun(StepOut(s)) /\ StepOut(s).got = s.got
  <1>. DEFINE Set(d) == [s EXCEPT !.drives[s.sel] = d]
              After(d) == Flush(Set(d))
              Moved(d) == [After(d) EXCEPT !.drives[s.sel] = Park(After(d).drives[s.sel])]
  <1>1. PICK cur : cur = s.drives[s.sel]
    OBVIOUS
  <1>2. cur \in Drive /\ SoundDrive(cur)
    BY <1>1 DEF Sound, State
  <1>3. ASSUME NEW d, SoundDrive(d), d.byte = cur.byte,
               "writerdy" \in d.status <=> "writerdy" \in cur.status
        PROVE  /\ Settled(Moved(d), sw) /\ NoWriteBegun(Moved(d))
               /\ Moved(d).got = s.got
    <2>1. PICK t : t = Set(d)
      OBVIOUS
    <2>2. s.dirty => d.byte \in 1 .. SectorSize
      BY <1>1, <1>3 DEF Sound
    <2>3. Sound(t) /\ t.sel = s.sel /\ t.dirty = s.dirty
      BY <1>3, <2>1, <2>2, Changed
    <2>4. t.drives[t.sel] = d /\ t.got = s.got
      BY <2>1, <2>3 DEF Sound, State
    <2>5. PICK u : u = Flush(t)
      OBVIOUS
    <2>6. Calm(u) /\ u.sel = s.sel
      BY <2>3, <2>5, FlushSound DEF Calm
    <2>7. "writerdy" \notin u.drives[u.sel].status /\ u.got = s.got
      <3>1. CASE s.dirty
        <4>1. u = WriteSector(t)
          BY <2>3, <2>5, <3>1, DiskAssumption DEF Flush, Drives
        <4>. QED  BY <2>3, <2>4, <2>6, <4>1, WriteSectorSettles, WriteSectorDoes
      <3>2. CASE ~ s.dirty
        <4>1. u = t
          BY <2>3, <2>5, <3>2 DEF Flush
        <4>2. s.sel # None
          BY DiskAssumption DEF Drives
        <4>3. ~ Filling(cur, s.dirty, s.buf, sw)
          BY <1>1, <3>2, <4>2, BegunOrWaiting
        <4>4. "writerdy" \notin cur.status
          BY <1>1, <4>2, <4>3 DEF Known, Reading
        <4>. QED  BY <1>3, <2>4, <4>1, <4>4
      <3>. QED  BY <3>1, <3>2
    <2>8. PICK v : v = u.drives[u.sel]
      OBVIOUS
    <2>9. v \in Drive /\ SoundDrive(v) /\ SoundDrive(Park(v))
      BY <2>6, <2>8, DriveOperations DEF Calm, Sound, State
    <2>10. Park(v).status = v.status /\ Park(v).byte = FF
      BY <2>9 DEF Park, Drive
    <2>11. PICK p : p = Park(v)
      OBVIOUS
    <2>12. SoundDrive(p) /\ "writerdy" \notin p.status /\ p.byte = FF
      BY <2>7, <2>8, <2>9, <2>10, <2>11
    <2>13. Moved(d) = [u EXCEPT !.drives[u.sel] = p]
      BY <2>1, <2>5, <2>6, <2>8, <2>11
    <2>14. Settled(Moved(d), sw)
      BY <2>6, <2>12, <2>13, ParkedIsSettled
    <2>. HIDE DEF Moved
    <2>15. Moved(d).drives[Moved(d).sel] = p /\ Moved(d).got = u.got
      BY <2>6, <2>13 DEF Calm, Sound, State
    <2>16. NoWriteBegun(Moved(d))
      BY <2>12, <2>15 DEF NoWriteBegun
    <2>. QED  BY <2>7, <2>14, <2>15, <2>16
  <1>4. /\ SoundDrive(SteppedIn(cur)) /\ SteppedIn(cur).byte = cur.byte
        /\ SoundDrive(SteppedOut(cur)) /\ SteppedOut(cur).byte = cur.byte
    BY <1>2, DriveOperations, SteppingKeepsByte
  <1>5. /\ "writerdy" \in SteppedIn(cur).status <=> "writerdy" \in cur.status
        /\ "writerdy" \in SteppedOut(cur).status <=> "writerdy" \in cur.status
    BY <1>2 DEF SteppedIn, SteppedOut, Drive
  <1>6. StepIn(s) = Moved(SteppedIn(cur)) /\ StepOut(s) = Moved(SteppedOut(cur))
    BY <1>1 DEF StepIn, StepOut
  <1>. HIDE DEF Moved
  <1>. QED  BY <1>3, <1>4, <1>5, <1>6

\* A control command settles the buffer, or opens a write.
LEMMA ControlKnown ==
  ASSUME NEW s, Sound(s), s.sel \in Drives, NEW cmd \in Commands,
         NEW sw, Known(s, sw), NoWriteBegun(s)
  PROVE  Known(Control(s, cmd), sw) /\ Control(s, cmd).got = s.got
  <1>1. PICK a : a = IF "stepin" \in cmd THEN StepIn(s) ELSE s
    OBVIOUS
  <1>2. PICK b : b = IF "stepout" \in cmd THEN StepOut(a) ELSE a
    OBVIOUS
  <1>3. PICK c : c = Flush(b)
    OBVIOUS
  <1>4. PICK d : d = c.drives[c.sel]
    OBVIOUS
  <1>5. PICK e : e = IF "load" \in cmd THEN Loaded(d) ELSE d
    OBVIOUS
  <1>6. PICK f : f = IF "unload" \in cmd THEN Unloaded(e) ELSE e
    OBVIOUS
  <1>7. PICK g : g = IF "write" \in cmd THEN Writing(f) ELSE f
    OBVIOUS
  <1>8. Sound(a) /\ a.sel = s.sel
    BY <1>1, StepSound
  <1>9. Known(a, sw) /\ NoWriteBegun(a) /\ a.got = s.got
    BY <1>1, StepSettles DEF Settled, Known
  <1>10. Sound(b) /\ b.sel = s.sel
    BY <1>2, <1>8, StepSound
  <1>11. Known(b, sw) /\ NoWriteBegun(b) /\ b.got = s.got
    BY <1>2, <1>8, <1>9, StepSettles DEF Settled, Known
  <1>12. Calm(c) /\ c.sel = s.sel
    BY <1>3, <1>10, FlushSound DEF Calm
  <1>13. Settled(c, sw) /\ c.got = s.got
    BY <1>3, <1>10, <1>11, FlushSettles
  <1>14. Reading(d, FALSE, c.buf, sw) /\ d \in Drive /\ SoundDrive(d)
    <2>1. c.sel # None /\ c.sel \in Drives /\ c.dirty = FALSE
      BY <1>12, DiskAssumption DEF Calm, Drives
    <2>2. Reading(d, c.dirty, c.buf, sw)
      BY <1>4, <1>13, <2>1 DEF Settled
    <2>3. d \in Drive /\ SoundDrive(d)
      BY <1>4, <1>12 DEF Calm, Sound, State
    <2>. QED  BY <2>1, <2>2, <2>3
  <1>15. Reading(e, FALSE, c.buf, sw) /\ e \in Drive /\ SoundDrive(e)
    <2>1. CASE "load" \notin cmd
      BY <1>5, <1>14, <2>1
    <2>2. CASE "load" \in cmd
      <3>1. /\ e.file = d.file /\ e.byte = d.byte /\ Pos(e) = Pos(d)
            /\ "writerdy" \in e.status <=> "writerdy" \in d.status
        BY <1>5, <1>14, <2>2 DEF Loaded, Drive, Pos
      <3>2. \A k \in Bytes : Byte(FALSE, e, k) = Byte(FALSE, d, k)
        BY <3>1 DEF Byte
      <3>3. SoundDrive(e)
        BY <1>5, <1>14, <2>2, DriveOperations
      <3>. QED  BY <1>14, <3>1, <3>2, <3>3 DEF Reading, SoundDrive
    <2>. QED  BY <2>1, <2>2
  <1>16. Reading(f, FALSE, c.buf, sw) /\ f \in Drive /\ SoundDrive(f)
    <2>1. CASE "unload" \notin cmd
      BY <1>6, <1>15, <2>1
    <2>2. CASE "unload" \in cmd
      <3>1. f.byte = FF /\ ("writerdy" \in f.status <=> "writerdy" \in e.status)
        BY <1>6, <1>15, <2>2 DEF Unloaded, Park, Drive
      <3>2. SoundDrive(f)
        BY <1>6, <1>15, <2>2, DriveOperations
      <3>3. "writerdy" \notin f.status
        BY <1>15, <3>1 DEF Reading
      <3>. QED  BY <3>1, <3>2, <3>3, ParkedReading DEF SoundDrive
    <2>. QED  BY <2>1, <2>2
  <1>17. Reading(g, FALSE, c.buf, sw) \/ Filling(g, FALSE, c.buf, sw)
    <2>1. CASE "write" \notin cmd
      BY <1>7, <1>16, <2>1
    <2>2. CASE "write" \in cmd
      <3>1. g.byte = 0 /\ "writerdy" \in g.status
        BY <1>7, <1>16, <2>2 DEF Writing, Drive
      <3>2. \A k \in Bytes : ~ (k < g.byte)
        BY <3>1, DiskAssumption DEF Bytes
      <3>3. g.byte \in 0 .. SectorSize /\ ~ (g.byte > 0)
        BY <3>1, DiskAssumption
      <3>. QED  BY <3>1, <3>2, <3>3 DEF Filling
    <2>. QED  BY <2>1, <2>2
  <1>18. Control(s, cmd) = [c EXCEPT !.drives[c.sel] = g]
    BY <1>1, <1>2, <1>3, <1>4, <1>5, <1>6, <1>7, <1>12 DEF Control, Current
  <1>19. PICK t : t = Control(s, cmd)
    OBVIOUS
  <1>20. /\ t.sel = c.sel /\ t.drives[t.sel] = g /\ t.buf = c.buf
         /\ t.dirty = FALSE /\ t.got = c.got
    BY <1>12, <1>18, <1>19 DEF Calm, Sound, State
  <1>21. Known(t, sw)
    BY <1>17, <1>20 DEF Known
  <1>. QED  BY <1>13, <1>19, <1>20, <1>21

\* One that does not step writes what waits before it does anything else.
LEMMA ControlInPlace ==
  ASSUME NEW s, Sound(s), s.sel \in Drives, NEW cmd \in Commands,
         cmd \cap {"stepin", "stepout"} = {}, NEW sw,
         Known(s, sw), s.flushed = None, Control(s, cmd).flushed # None
  PROVE  InPlace(Control(s, cmd).flushed, sw)
  <1>1. PICK c : c = Flush(s)
    OBVIOUS
  <1>2. Calm(c) /\ c.sel = s.sel
    BY <1>1, FlushSound DEF Calm
  <1>. DEFINE d == Current(c)
              e == IF "load" \in cmd THEN Loaded(d) ELSE d
              f == IF "unload" \in cmd THEN Unloaded(e) ELSE e
              g == IF "write" \in cmd THEN Writing(f) ELSE f
  <1>3. Control(s, cmd) = [c EXCEPT !.drives[c.sel] = g]
    BY <1>1, <1>2 DEF Control
  <1>. HIDE DEF g
  <1>4. Control(s, cmd).flushed = c.flushed
    BY <1>2, <1>3 DEF Calm, Sound, State
  <1>. QED  BY <1>1, <1>4, FlushInPlace

\* drive_sector parks the pointer, unless the head is not loaded.
LEMMA SectorSettles ==
  ASSUME NEW s, Sound(s), s.sel \in Drives, NEW sw, Known(s, sw), NoWriteBegun(s)
  PROVE  /\ Settled(Sector(s), sw)
         /\ Sector(s).flushed = Flush(s).flushed /\ Sector(s).got = s.got
  <1>1. PICK t : t = Flush(s)
    OBVIOUS
  <1>2. Calm(t) /\ t.sel = s.sel
    BY <1>1, FlushSound DEF Calm
  <1>3. Settled(t, sw) /\ t.got = s.got
    BY <1>1, FlushSettles
  <1>4. PICK d : d = t.drives[t.sel]
    OBVIOUS
  <1>5. PICK e : e = Turned(d)
    OBVIOUS
  <1>6. Reading(d, FALSE, t.buf, sw) /\ d \in Drive
    <2>1. t.sel # None /\ t.sel \in Drives /\ t.dirty = FALSE
      BY <1>2, DiskAssumption DEF Calm, Drives
    <2>2. Reading(d, t.dirty, t.buf, sw)
      BY <1>3, <1>4, <2>1 DEF Settled
    <2>3. d \in Drive
      BY <1>2, <1>4 DEF Calm, Sound, State
    <2>. QED  BY <2>1, <2>2, <2>3
  <1>7. Reading(e, FALSE, t.buf, sw)
    <2>1. CASE "loaded" \notin d.status
      BY <1>5, <1>6, <2>1 DEF Turned
    <2>2. CASE "loaded" \in d.status
      <3>1. e.byte = FF /\ e.status = d.status
        BY <1>5, <1>6, <2>2 DEF Turned, Drive
      <3>2. "writerdy" \notin e.status
        BY <1>6, <3>1 DEF Reading
      <3>. QED  BY <3>1, <3>2, ParkedReading
    <2>. QED  BY <2>1, <2>2
  <1>8. Sector(s) = [t EXCEPT !.drives[t.sel] = e]
    BY <1>1, <1>2, <1>4, <1>5 DEF Sector
  <1>9. PICK u : u = Sector(s)
    OBVIOUS
  <1>10. /\ u.sel = t.sel /\ u.drives[u.sel] = e /\ u.buf = t.buf
         /\ u.dirty = FALSE /\ u.flushed = t.flushed /\ u.got = t.got
    BY <1>2, <1>8, <1>9 DEF Calm, Sound, State
  <1>11. Settled(u, sw)
    BY <1>7, <1>10 DEF Settled
  <1>. QED  BY <1>1, <1>3, <1>9, <1>10, <1>11

\* A byte of an open write goes behind those written so far.
LEMMA WriteKnown ==
  ASSUME NEW s, Sound(s), s.sel \in Drives, NEW sw,
         Filling(s.drives[s.sel], s.dirty, s.buf, sw)
  PROVE  Known(Write(s), sw) /\ Write(s).got = s.got
  <1>1. PICK d : d = s.drives[s.sel]
    OBVIOUS
  <1>2. d \in Drive /\ s \in State
    BY <1>1 DEF Sound, State
  <1>3. CASE ~ (d.byte < SectorSize)
    <2>1. Write(s) = WriteSector(s)
      BY <1>1, <1>3 DEF Write, Current
    <2>. QED  BY <2>1, WriteSectorSettles, WriteSectorDoes DEF Settled, Known
  <1>4. CASE d.byte < SectorSize
    <2>1. PICK cell : cell = Byte(TRUE, d, d.byte)
      OBVIOUS
    <2>2. PICK e : e = [d EXCEPT !.byte = d.byte + 1]
      OBVIOUS
    <2>3. PICK b : b = [s.buf EXCEPT ![d.byte] = cell]
      OBVIOUS
    <2>4. PICK t : t = Write(s)
      OBVIOUS
    <2>5. d.byte \in Bytes /\ d.byte + 1 \in 1 .. SectorSize
      BY <1>1, <1>4, DiskAssumption DEF Filling, Bytes
    <2>6. /\ e.byte = d.byte + 1 /\ e.status = d.status
          /\ e.file = d.file /\ Pos(e) = Pos(d)
      BY <1>2, <2>2 DEF Drive, Pos
    <2>7. t = [s EXCEPT !.buf[d.byte] = cell, !.dirty = TRUE,
                        !.drives[s.sel].byte = d.byte + 1]
      BY <1>1, <1>4, <2>1, <2>4 DEF Write, Current
    <2>8. /\ t.sel = s.sel /\ t.dirty = TRUE /\ t.got = s.got
          /\ t.buf = b
      BY <1>2, <2>3, <2>7 DEF State
    <2>9. t.drives[t.sel] = e
      BY <1>1, <1>2, <2>2, <2>7, <2>8 DEF State
    <2>10. ASSUME NEW k \in Bytes, k < e.byte, k < sw
           PROVE  b[k] = Byte(TRUE, e, k)
      <3>1. Byte(TRUE, e, k) = Byte(TRUE, d, k)
        BY <2>6 DEF Byte
      <3>2. CASE k = d.byte
        BY <1>2, <2>1, <2>3, <2>5, <3>1, <3>2 DEF State
      <3>3. CASE k # d.byte
        <4>1. k < d.byte /\ b[k] = s.buf[k]
          BY <1>2, <2>3, <2>5, <2>6, <2>10, <3>3, DiskAssumption DEF State, Bytes
        <4>. QED  BY <1>1, <2>10, <3>1, <4>1 DEF Filling
      <3>. QED  BY <3>2, <3>3
    <2>11. e.byte \in 0 .. SectorSize /\ e.byte > 0 /\ "writerdy" \in e.status
      BY <1>1, <2>5, <2>6, DiskAssumption DEF Filling
    <2>12. Filling(e, TRUE, b, sw)
      BY <2>10, <2>11 DEF Filling
    <2>13. Known(t, sw)
      BY <2>8, <2>9, <2>12 DEF Known
    <2>. QED  BY <2>4, <2>8, <2>13
  <1>. QED  BY <1>3, <1>4

\* A write beyond the sector writes it where it belongs.
LEMMA WriteInPlace ==
  ASSUME NEW s, Sound(s), s.sel \in Drives, s.flushed = None, NEW sw,
         Filling(s.drives[s.sel], s.dirty, s.buf, sw), Write(s).flushed # None
  PROVE  InPlace(Write(s).flushed, sw)
  <1>1. PICK d : d = s.drives[s.sel]
    OBVIOUS
  <1>2. ~ (d.byte < SectorSize)
    <2>. SUFFICES ASSUME d.byte < SectorSize
                  PROVE  FALSE
      OBVIOUS
    <2>1. PICK cell : cell = Byte(TRUE, d, d.byte)
      OBVIOUS
    <2>2. Write(s) = [s EXCEPT !.buf[d.byte] = cell, !.dirty = TRUE,
                               !.drives[s.sel].byte = d.byte + 1]
      BY <1>1, <2>1 DEF Write, Current
    <2>3. Write(s).flushed = s.flushed
      BY <2>2 DEF Sound, State
    <2>. QED  BY <2>3
  <1>3. Write(s) = WriteSector(s)
    BY <1>1, <1>2 DEF Write, Current
  <1>. QED  BY <1>3, WriteSectorInPlace

\* A byte is read in its turn, off the sector under the head; a fetch brings n
\* new bytes to rely on.
LEMMA ReadKnown ==
  ASSUME NEW s, Sound(s), s.sel \in Drives, NEW sw, NEW n,
         Reading(s.drives[s.sel], s.dirty, s.buf, sw),
         NEW now, now = IF s.drives[s.sel].byte < SectorSize THEN sw ELSE n
  PROVE  /\ Settled(Read(s, n), now) /\ Read(s, n).flushed = s.flushed
         /\ Read(s, n).drives[s.sel].byte - 1 < now =>
              Read(s, n).got = Byte(FALSE, Read(s, n).drives[s.sel],
                                    Read(s, n).drives[s.sel].byte - 1)
  <1>1. PICK d : d = s.drives[s.sel]
    OBVIOUS
  <1>2. d \in Drive /\ s \in State /\ s.sel # None
    BY <1>1, DiskAssumption DEF Sound, State, Drives
  <1>3. PICK t : t = Read(s, n)
    OBVIOUS
  <1>4. CASE d.byte < SectorSize
    <2>1. d.byte \in Bytes /\ d.byte # FF /\ d.byte \in Nat /\ d.byte # 0
      BY <1>1, <1>2, <1>4, DiskAssumption DEF Reading, Drive, Bytes, FF
    <2>2. PICK e : e = [d EXCEPT !.byte = d.byte + 1]
      OBVIOUS
    <2>3. PICK c : c = s.buf[d.byte]
      OBVIOUS
    <2>4. t = [s EXCEPT !.got = c, !.drives[s.sel].byte = d.byte + 1]
      BY <1>1, <1>3, <1>4, <2>3 DEF Read, Current
    <2>5. /\ t.sel = s.sel /\ t.dirty = s.dirty /\ t.buf = s.buf
          /\ t.flushed = s.flushed /\ t.got = c
      BY <1>2, <2>4 DEF State
    <2>6. t.drives[s.sel] = e
      BY <1>1, <1>2, <2>2, <2>4 DEF State
    <2>7. /\ e.byte = d.byte + 1 /\ e.status = d.status
          /\ e.file = d.file /\ Pos(e) = Pos(d)
      BY <1>2, <2>2 DEF Drive, Pos
    <2>8. \A k : Byte(FALSE, e, k) = Byte(FALSE, d, k)
      BY <2>7 DEF Byte
    <2>9. e.byte # 0 /\ e.byte - 1 = d.byte
      BY <2>1, <2>7
    <2>10. now = sw
      BY <1>1, <1>4
    <2>11. Reading(e, s.dirty, s.buf, now)
      BY <1>1, <2>1, <2>7, <2>8, <2>9, <2>10 DEF Reading
    <2>12. Settled(t, now)
      BY <2>5, <2>6, <2>11 DEF Settled
    <2>13. e.byte - 1 < now => c = Byte(FALSE, e, e.byte - 1)
      BY <1>1, <2>1, <2>3, <2>8, <2>9, <2>10 DEF Reading
    <2>. QED  BY <1>3, <2>5, <2>6, <2>12, <2>13
  <1>5. CASE ~ (d.byte < SectorSize)
    <2>1. PICK fetched : fetched = [k \in Bytes |-> IF k < n THEN Byte(FALSE, d, k)
                                                         ELSE s.buf[k]]
      OBVIOUS
    <2>2. PICK e : e = [d EXCEPT !.byte = 1]
      OBVIOUS
    <2>3. PICK c : c = fetched[0]
      OBVIOUS
    <2>4. t = [s EXCEPT !.got = c, !.buf = fetched, !.drives[s.sel].byte = 1]
      BY <1>1, <1>3, <1>5, <2>1, <2>3 DEF Read, Current
    <2>5. /\ t.sel = s.sel /\ t.dirty = s.dirty /\ t.buf = fetched
          /\ t.flushed = s.flushed /\ t.got = c
      BY <1>2, <2>4 DEF State
    <2>6. t.drives[s.sel] = e
      BY <1>1, <1>2, <2>2, <2>4 DEF State
    <2>7. /\ e.byte = 1 /\ e.status = d.status
          /\ e.file = d.file /\ Pos(e) = Pos(d)
      BY <1>2, <2>2 DEF Drive, Pos
    <2>8. \A k : Byte(FALSE, e, k) = Byte(FALSE, d, k)
      BY <2>7 DEF Byte
    <2>9. now = n /\ \A k \in Bytes : k < n => fetched[k] = Byte(FALSE, d, k)
      BY <1>1, <1>5, <2>1
    <2>10. Reading(e, s.dirty, fetched, now)
      <3>1. "writerdy" \notin e.status /\ ~ s.dirty /\ e.byte # 0
        BY <1>1, <2>7 DEF Reading
      <3>2. \A k \in Bytes : k < now => fetched[k] = Byte(FALSE, e, k)
        BY <2>8, <2>9
      <3>. QED  BY <3>1, <3>2 DEF Reading
    <2>11. Settled(t, now)
      BY <2>5, <2>6, <2>10 DEF Settled
    <2>12. 0 \in Bytes
      BY DiskAssumption DEF Bytes
    <2>13. e.byte - 1 = 0
      BY <2>7
    <2>14. e.byte - 1 < now => c = Byte(FALSE, e, e.byte - 1)
      BY <2>3, <2>8, <2>9, <2>12, <2>13
    <2>. QED  BY <1>3, <2>5, <2>6, <2>11, <2>14
  <1>. QED  BY <1>4, <1>5

\* After a read the pointer is inside the sector, or just behind it.
LEMMA ReadPointer ==
  ASSUME NEW s, Sound(s), s.sel \in Drives, NEW n
  PROVE  Read(s, n).drives[s.sel].byte # FF
  <1>1. PICK d : d = s.drives[s.sel]
    OBVIOUS
  <1>2. d \in Drive /\ s \in State
    BY <1>1 DEF Sound, State
  <1>3. PICK f : f = [k \in Bytes |-> IF k < n THEN Byte(FALSE, d, k) ELSE s.buf[k]]
    OBVIOUS
  <1>4. CASE d.byte < SectorSize
    <2>1. Read(s, n).drives[s.sel].byte = d.byte + 1
      BY <1>1, <1>2, <1>4 DEF Read, Current, State, Drive
    <2>. QED  BY <1>2, <1>4, <2>1, DiskAssumption DEF Drive, FF
  <1>5. CASE ~ (d.byte < SectorSize)
    <2>1. Read(s, n) = [s EXCEPT !.got = f[0], !.buf = f, !.drives[s.sel].byte = 1]
      BY <1>1, <1>3, <1>5 DEF Read, Current
    <2>2. Read(s, n).drives[s.sel].byte = 1
      BY <1>1, <1>2, <2>1 DEF State, Drive
    <2>. QED  BY <2>2 DEF FF
  <1>. QED  BY <1>4, <1>5

-----------------------------------------------------------------------------
(* The steps *)

\* The invariant, and the same of the state Now.
LEMMA InvNow ==
  ASSUME Inv
  PROVE  Sound(Now)
  <1>1. Now \in State
    BY DEF Inv, TypeOK, Now, State
  <1>2. /\ Now.drives = drives /\ Now.sel = selected /\ Now.dirty = dirty
    BY DEF Now
  <1>3. \A d \in Drives : SoundDrive(drives[d])
    BY DEF Inv, TypeOK, OnTrack0, SoundDrive
  <1>. QED  BY <1>1, <1>2, <1>3 DEF Inv, Sound, InReach, OthersOff

\* Becoming a sound state keeps the invariant, whether or not bytes are still
\* told apart.
LEMMA BecomeSound ==
  ASSUME Inv, NEW s, Sound(s), NEW n \in 0 .. SectorSize,
         NEW allowed \in BOOLEAN, Become(s, n, allowed), overran' \in BOOLEAN
  PROVE  Inv'
  <1>. USE DEF Sound, State, Become
  <1>1. AllStale \in [Bytes -> Cells] /\ SectorSize \in 0 .. SectorSize
    BY StaleBytes, DiskAssumption
  <1>2. TypeOK'
    BY <1>1 DEF Inv, TypeOK, Written
  <1>3. InReach' /\ OthersOff'
    BY DEF InReach, OthersOff
  <1>4. OnTrack0'
    BY DEF OnTrack0, SoundDrive
  <1>. QED  BY <1>2, <1>3, <1>4 DEF Inv

\* Mounting and unmounting change nothing the invariant is about but a status.
LEMMA InsertStep ==
  ASSUME Inv, NEW n \in Drives, NEW file \in Images \cup {NoImage},
         NEW status, status \in {drives[n].status \cup {"mounted"},
                                drives[n].status \ {"mounted"}},
         Insert(n, file, status)
  PROVE  Inv'
  <1>. DEFINE d == drives[n]
              e == [d EXCEPT !.file = file, !.status = status]
  <1>1. drives \in [Drives -> Drive] /\ d \in Drive
    BY DEF Inv, TypeOK
  <1>2. status \in SUBSET Bits
    BY <1>1 DEF Drive, Bits
  <1>3. /\ e \in Drive /\ e.status = status
        /\ e.track = d.track /\ e.byte = d.byte
    BY <1>1, <1>2 DEF Drive
  <1>4. drives' = [drives EXCEPT ![n] = e]
    BY <1>1 DEF Insert
  <1>. HIDE DEF e
  <1>5. drives' \in [Drives -> Drive]
    BY <1>1, <1>3, <1>4
  <1>6. TypeOK'
    BY <1>5, DiskAssumption DEF Insert, Inv, TypeOK
  <1>7. InReach'
    BY <1>1, <1>3, <1>4 DEF Insert, Inv, TypeOK, InReach
  <1>8. OthersOff'
    BY <1>1, <1>3, <1>4 DEF Insert, Inv, OthersOff
  <1>9. OnTrack0'
    BY <1>1, <1>3, <1>4 DEF Inv, OnTrack0
  <1>. QED  BY <1>6, <1>7, <1>8, <1>9 DEF Inv

\* The invariant holds at power-on.
LEMMA InvInit == Init => Inv
  <1>. SUFFICES ASSUME Init PROVE Inv
    OBVIOUS
  <1>1. Idle \in Drive /\ Idle.status = {}
    BY DiskAssumption DEF Idle, Drive
  <1>2. AllStale \in [Bytes -> Cells]
    BY StaleBytes
  <1>3. sure \in 0 .. SectorSize
    BY DiskAssumption DEF Init
  <1>4. TypeOK
    BY <1>1, <1>2, <1>3 DEF Init, TypeOK
  <1>. QED  BY <1>1, <1>4 DEF Init, Inv, InReach, OthersOff, OnTrack0

\* Every operation, on any state that satisfies the invariant, keeps it.
LEMMA InvNext == Inv /\ [Next]_vars => Inv'
  <1>. SUFFICES ASSUME Inv, [Next]_vars PROVE Inv'
    OBVIOUS
  <1>1. /\ Sound(Now) /\ Now.sel = selected
        /\ selected # None => selected \in Drives
        /\ sure \in 0 .. SectorSize /\ overran \in BOOLEAN
    BY InvNow DEF Now, Inv, TypeOK
  <1>2. MayMove \in BOOLEAN /\ WriteReady \in BOOLEAN
    BY DEF MayMove, WriteReady
  <1>3. ASSUME NEW n \in 0 .. NumDrives, DriveSelect(n)
        PROVE  Inv'
    <2>1. Sound(Select(Flush(Now), n))
      BY <1>1, FlushSound, SelectSound
    <2>. QED  BY <1>1, <1>2, <1>3, <2>1, BecomeSound DEF DriveSelect
  <1>4. ASSUME NEW cmd \in Commands, DriveControl(cmd)
        PROVE  Inv'
    BY <1>1, <1>2, <1>4, ControlSound, BecomeSound DEF DriveControl
  <1>5. ASSUME DriveSector
        PROVE  Inv'
    BY <1>1, <1>2, <1>5, SectorSound, BecomeSound DEF DriveSector
  <1>6. ASSUME DriveWrite
        PROVE  Inv'
    <2>1. overran' \in BOOLEAN
      BY <1>6 DEF DriveWrite
    <2>. QED  BY <1>1, <1>2, <1>6, <2>1, WriteSound, BecomeSound DEF DriveWrite
  <1>7. ASSUME DriveRead
        PROVE  Inv'
    <2>1. (~ WriteReady) \in BOOLEAN
      OBVIOUS
    <2>2. PICK n \in 0 .. SectorSize :
            Become(Read(Now, n), IF drives[selected].byte < SectorSize THEN sure ELSE n,
                   ~ WriteReady)
      BY <1>7 DEF DriveRead
    <2>3. selected # None /\ overran' = overran
      BY <1>7 DEF DriveRead
    <2>4. PICK m : m = IF drives[selected].byte < SectorSize THEN sure ELSE n
      OBVIOUS
    <2>5. m \in 0 .. SectorSize /\ Become(Read(Now, n), m, ~ WriteReady)
      BY <1>1, <2>2, <2>4
    <2>. QED  BY <1>1, <2>1, <2>3, <2>5, ReadSound, BecomeSound
  <1>8. ASSUME NEW n \in Drives, DriveUnmount(n)
        PROVE  Inv'
    BY <1>8, InsertStep DEF DriveUnmount, Inv, TypeOK, Drive
  <1>9. ASSUME NEW n \in Drives, NEW image \in Images, DriveMount(n, image)
        PROVE  Inv'
    BY <1>9, InsertStep DEF DriveMount
  <1>10. CASE UNCHANGED vars
    BY <1>10 DEF vars, Inv, TypeOK, InReach, OthersOff, OnTrack0
  <1>. QED  BY <1>3, <1>4, <1>5, <1>6, <1>7, <1>8, <1>9, <1>10 DEF Next, Operate, Overrun

\* Becoming a state whose buffer is known.
LEMMA BecomeKnown ==
  ASSUME NEW s, NEW n, NEW allowed \in BOOLEAN, Become(s, n, allowed),
         polite /\ allowed => Known(s, n)
  PROVE  BufferKnown'
  <1>. SUFFICES ASSUME polite', s.sel # None
                PROVE  \/ Reading(s.drives[s.sel], s.dirty, buf', sure')
                       \/ Filling(s.drives[s.sel], s.dirty, buf', sure')
    BY DEF BufferKnown, Known, Become, Now, Reading, Filling, Byte, Pos
  <1>1. Known(s, n)
    BY DEF Become
  <1>2. CASE Restarts
    <2>1. s.drives[s.sel].byte \in {0, FF}
      BY <1>2 DEF Become, Restarts
    <2>. QED  BY <1>1, <2>1, RestartForgets
  <1>3. CASE ~ Restarts
    BY <1>1, <1>3 DEF Become, Known
  <1>. QED  BY <1>2, <1>3

\* Known before, the same of the state Now, and what the rules allow.
LEMMA KnownNow ==
  ASSUME Inv, BufferKnown, polite
  PROVE  /\ Known(Now, sure)
         /\ MayMove => NoWriteBegun(Now)
         /\ selected # None =>
              /\ WriteReady => Filling(Now.drives[Now.sel], Now.dirty, Now.buf, sure)
              /\ ~ WriteReady => Reading(Now.drives[Now.sel], Now.dirty, Now.buf, sure)
  <1>1. Known(Now, sure)
    BY DEF BufferKnown
  <1>2. Now.drives = drives /\ Now.sel = selected
    BY DEF Now
  <1>3. MayMove => NoWriteBegun(Now)
    BY <1>2 DEF MayMove, WriteReady, NoWriteBegun
  <1>4. selected # None =>
          /\ WriteReady => Filling(Now.drives[Now.sel], Now.dirty, Now.buf, sure)
          /\ ~ WriteReady => Reading(Now.drives[Now.sel], Now.dirty, Now.buf, sure)
    BY <1>1, <1>2 DEF WriteReady, Known, Reading, Filling
  <1>. QED  BY <1>1, <1>3, <1>4

\* Mounting and unmounting leave the buffer alone; on the selected drive they are
\* a swap.
LEMMA InsertKnown ==
  ASSUME Inv, BufferKnown, NEW n \in Drives, NEW file \in Images \cup {NoImage},
         NEW status, status \in {drives[n].status \cup {"mounted"},
                                drives[n].status \ {"mounted"}},
         Insert(n, file, status)
  PROVE  BufferKnown'
  <1>. SUFFICES ASSUME polite', selected' # None
                PROVE  Known(Now, sure)'
    BY DEF BufferKnown, Known, Now
  <1>1. /\ polite /\ selected' = selected /\ buf' = buf /\ dirty' = dirty
        /\ selected \in Drives /\ sure' = IF n = selected THEN 0 ELSE sure
    BY DEF Insert, Inv, TypeOK
  <1>2. PICK d : d = drives[selected]
    OBVIOUS
  <1>3. PICK e : e = drives'[selected]
    OBVIOUS
  <1>4. Reading(d, dirty, buf, sure) \/ Filling(d, dirty, buf, sure)
    BY <1>1, <1>2, KnownNow DEF Known, Now
  <1>5. CASE n # selected
    <2>1. e = d
      BY <1>1, <1>2, <1>3, <1>5 DEF Insert, Inv, TypeOK
    <2>2. sure' = sure
      BY <1>1, <1>5
    <2>3. Reading(e, dirty, buf, sure') \/ Filling(e, dirty, buf, sure')
      BY <1>4, <2>1, <2>2
    <2>. QED  BY <1>1, <1>3, <2>3 DEF Known, Now, Reading, Filling, Byte, Pos
  <1>6. CASE n = selected
    <2>1. d \in Drive /\ drives \in [Drives -> Drive]
      BY <1>1, <1>2 DEF Inv, TypeOK
    <2>2. e = [d EXCEPT !.file = file, !.status = status]
      BY <1>1, <1>2, <1>3, <1>6, <2>1 DEF Insert
    <2>3. e.byte = d.byte /\ ("writerdy" \in e.status <=> "writerdy" \in d.status)
      BY <1>2, <1>6, <2>1, <2>2 DEF Drive
    <2>4. \A k \in Bytes : ~ (k < sure')
      BY <1>1, <1>6, DiskAssumption DEF Bytes
    <2>5. Reading(e, dirty, buf, sure') \/ Filling(e, dirty, buf, sure')
      BY <1>4, <2>3, <2>4 DEF Reading, Filling
    <2>. QED  BY <1>1, <1>3, <2>5 DEF Known, Now, Reading, Filling, Byte, Pos
  <1>. QED  BY <1>5, <1>6

\* Every operation keeps the buffer known.
LEMMA KnownNext == Inv /\ BufferKnown /\ [Next]_vars => BufferKnown'
  <1>. SUFFICES ASSUME Inv, BufferKnown, [Next]_vars
                PROVE  BufferKnown'
    OBVIOUS
  <1>1. /\ Sound(Now) /\ Now.sel = selected
        /\ selected # None => selected \in Drives
    BY InvNow DEF Now, Inv, TypeOK
  <1>2. MayMove \in BOOLEAN /\ WriteReady \in BOOLEAN /\ (~ WriteReady) \in BOOLEAN
    BY DEF MayMove, WriteReady
  <1>3. ASSUME NEW n \in 0 .. NumDrives, DriveSelect(n)
        PROVE  BufferKnown'
    <2>1. PICK s : s = Select(Flush(Now), n)
      OBVIOUS
    <2>2. Sound(s) /\ Become(s, sure, MayMove)
      BY <1>1, <1>3, <2>1, FlushSound, SelectSound DEF DriveSelect
    <2>3. ASSUME polite, MayMove
          PROVE  Known(s, sure)
      BY <1>1, <2>1, FlushSound, SelectSettles DEF Settled, Known
    <2>. QED  BY <1>2, <1>3, <2>2, <2>3, BecomeKnown
  <1>4. ASSUME NEW cmd \in Commands, DriveControl(cmd)
        PROVE  BufferKnown'
    <2>1. PICK s : s = Control(Now, cmd)
      OBVIOUS
    <2>2. Sound(s) /\ Become(s, sure, MayMove)
      BY <1>1, <1>4, <2>1, ControlSound DEF DriveControl
    <2>3. ASSUME polite, MayMove
          PROVE  Known(s, sure)
      BY <1>1, <1>4, <2>1, <2>3, KnownNow, ControlKnown DEF DriveControl
    <2>. QED  BY <1>2, <1>4, <2>2, <2>3, BecomeKnown
  <1>5. ASSUME DriveSector
        PROVE  BufferKnown'
    <2>1. PICK s : s = Sector(Now)
      OBVIOUS
    <2>2. Sound(s) /\ Become(s, sure, MayMove)
      BY <1>1, <1>5, <2>1, SectorSound DEF DriveSector
    <2>3. ASSUME polite, MayMove
          PROVE  Known(s, sure)
      BY <1>1, <1>5, <2>1, <2>3, KnownNow, SectorSettles DEF DriveSector, Settled, Known
    <2>. QED  BY <1>2, <1>5, <2>2, <2>3, BecomeKnown
  <1>6. ASSUME DriveWrite
        PROVE  BufferKnown'
    <2>1. PICK s : s = Write(Now)
      OBVIOUS
    <2>2. Sound(s) /\ Become(s, sure, WriteReady)
      BY <1>1, <1>6, <2>1, WriteSound DEF DriveWrite
    <2>3. ASSUME polite, WriteReady
          PROVE  Known(s, sure)
      <3>1. Filling(Now.drives[Now.sel], Now.dirty, Now.buf, sure)
        BY <1>6, <2>3, KnownNow DEF DriveWrite
      <3>. QED  BY <1>1, <1>6, <2>1, <3>1, WriteKnown DEF DriveWrite
    <2>. QED  BY <1>2, <1>6, <2>2, <2>3, BecomeKnown
  <1>7. ASSUME DriveRead
        PROVE  BufferKnown'
    <2>1. PICK n \in 0 .. SectorSize :
            Become(Read(Now, n), IF drives[selected].byte < SectorSize THEN sure ELSE n,
                   ~ WriteReady)
      BY <1>7 DEF DriveRead
    <2>2. PICK now : now = IF Now.drives[Now.sel].byte < SectorSize THEN sure ELSE n
      OBVIOUS
    <2>3. Become(Read(Now, n), now, ~ WriteReady)
      BY <2>1, <2>2 DEF Now
    <2>4. ASSUME polite, ~ WriteReady
          PROVE  Known(Read(Now, n), now)
      <3>1. Reading(Now.drives[Now.sel], Now.dirty, Now.buf, sure)
        BY <1>7, <2>4, KnownNow DEF DriveRead
      <3>. QED  BY <1>1, <1>7, <2>2, <3>1, ReadKnown DEF DriveRead, Settled, Known
    <2>. QED  BY <1>2, <2>3, <2>4, BecomeKnown
  <1>8. ASSUME NEW n \in Drives, DriveUnmount(n)
        PROVE  BufferKnown'
    BY <1>8, InsertKnown DEF DriveUnmount, Inv, TypeOK, Drive
  <1>9. ASSUME NEW n \in Drives, NEW image \in Images, DriveMount(n, image)
        PROVE  BufferKnown'
    BY <1>9, InsertKnown DEF DriveMount
  <1>10. CASE UNCHANGED vars
    BY <1>10 DEF vars, BufferKnown, Known, Now, Reading, Filling, Byte, Pos
  <1>. QED  BY <1>3, <1>4, <1>5, <1>6, <1>7, <1>8, <1>9, <1>10 DEF Next, Operate, Overrun

\* No drive is selected at power-on.
LEMMA KnownInit == Init => BufferKnown
  BY DEF Init, BufferKnown, Known, Now

\* A step that writes a sector to a file, writes it where it belongs.
LEMMA StepInPlace ==
  ASSUME Inv, BufferKnown, Operate, flushed' # None, polite', ~ Stepped
  PROVE  InPlace(flushed', sure)
  <1>1. /\ Sound(Now) /\ Now.sel = selected /\ Now.flushed = None
        /\ selected # None => selected \in Drives
    BY InvNow DEF Now, Inv, TypeOK
  <1>2. ASSUME polite
        PROVE  /\ Known(Now, sure)
               /\ MayMove => NoWriteBegun(Now)
               /\ selected # None /\ WriteReady =>
                    Filling(Now.drives[Now.sel], Now.dirty, Now.buf, sure)
    BY <1>2, KnownNow
  <1>3. ASSUME NEW n \in 0 .. NumDrives, DriveSelect(n)
        PROVE  InPlace(flushed', sure)
    <2>1. polite /\ flushed' = Select(Flush(Now), n).flushed
      BY <1>3 DEF DriveSelect, Become
    <2>2. flushed' = Flush(Now).flushed
      BY <1>1, <2>1, FlushSound, SelectSettles
    <2>. QED  BY <1>1, <1>2, <2>1, <2>2, FlushInPlace
  <1>4. ASSUME NEW cmd \in Commands, DriveControl(cmd)
        PROVE  InPlace(flushed', sure)
    <2>1. /\ polite /\ selected # None
          /\ flushed' = Control(Now, cmd).flushed
      BY <1>4 DEF DriveControl, Become
    <2>2. cmd \cap {"stepin", "stepout"} = {}
      BY <1>4 DEF Stepped
    <2>. QED  BY <1>1, <1>2, <2>1, <2>2, ControlInPlace
  <1>5. ASSUME DriveSector
        PROVE  InPlace(flushed', sure)
    <2>1. /\ polite /\ MayMove /\ selected # None
          /\ flushed' = Sector(Now).flushed
      BY <1>5 DEF DriveSector, Become
    <2>2. flushed' = Flush(Now).flushed
      BY <1>1, <1>2, <2>1, SectorSettles
    <2>. QED  BY <1>1, <1>2, <2>1, <2>2, FlushInPlace
  <1>6. ASSUME DriveWrite
        PROVE  InPlace(flushed', sure)
    <2>1. /\ polite /\ WriteReady /\ selected # None
          /\ flushed' = Write(Now).flushed
      BY <1>6 DEF DriveWrite, Become
    <2>. QED  BY <1>1, <1>2, <2>1, WriteInPlace
  <1>7. ASSUME DriveRead
        PROVE  InPlace(flushed', sure)
    <2>1. PICK n \in 0 .. SectorSize :
            Become(Read(Now, n), IF drives[selected].byte < SectorSize THEN sure ELSE n,
                   ~ WriteReady)
      BY <1>7 DEF DriveRead
    <2>2. /\ polite /\ ~ WriteReady /\ selected # None
          /\ flushed' = Read(Now, n).flushed
      BY <1>7, <2>1 DEF DriveRead, Become
    <2>3. Reading(Now.drives[Now.sel], Now.dirty, Now.buf, sure)
      BY <2>2, KnownNow
    <2>4. PICK now : now = IF Now.drives[Now.sel].byte < SectorSize THEN sure ELSE n
      OBVIOUS
    <2>5. flushed' = None
      BY <1>1, <2>2, <2>3, <2>4, ReadKnown
    <2>. QED  BY <2>5
  <1>8. ASSUME NEW n \in Drives, NEW file, NEW status, Insert(n, file, status)
        PROVE  InPlace(flushed', sure)
    BY <1>8 DEF Insert
  <1>. QED  BY <1>3, <1>4, <1>5, <1>6, <1>7, <1>8 DEF Operate, DriveUnmount, DriveMount

\* A step that reads a byte, reads the next one under the head.
LEMMA StepUnderHead ==
  ASSUME Inv, BufferKnown, Operate, got' # None, polite',
         drives'[selected'].byte - 1 < sure'
  PROVE  got' = Byte(FALSE, drives'[selected'], drives'[selected'].byte - 1)
  <1>1. /\ Sound(Now) /\ Now.sel = selected /\ Now.drives = drives /\ Now.got = None
        /\ selected # None => selected \in Drives
    BY InvNow DEF Now, Inv, TypeOK
  <1>2. ASSUME NEW n \in 0 .. NumDrives, DriveSelect(n)
        PROVE  FALSE
    <2>1. polite /\ MayMove /\ got' = Select(Flush(Now), n).got
      BY <1>2 DEF DriveSelect, Become
    <2>2. Flush(Now).got = None
      BY <1>1, <2>1, KnownNow, FlushSettles
    <2>3. Sound(Flush(Now)) /\ Flush(Now).dirty = FALSE
      BY <1>1, FlushSound
    <2>4. Select(Flush(Now), n).got = Flush(Now).got
      BY <2>3, SelectSettles
    <2>. QED  BY <2>1, <2>2, <2>4
  <1>3. ASSUME NEW cmd \in Commands, DriveControl(cmd)
        PROVE  FALSE
    <2>1. polite /\ MayMove /\ selected # None /\ got' = Control(Now, cmd).got
      BY <1>3 DEF DriveControl, Become
    <2>. QED  BY <1>1, <2>1, KnownNow, ControlKnown
  <1>4. ASSUME DriveSector
        PROVE  FALSE
    <2>1. polite /\ MayMove /\ selected # None /\ got' = Sector(Now).got
      BY <1>4 DEF DriveSector, Become
    <2>. QED  BY <1>1, <2>1, KnownNow, SectorSettles
  <1>5. ASSUME DriveWrite
        PROVE  FALSE
    <2>1. polite /\ WriteReady /\ selected # None /\ got' = Write(Now).got
      BY <1>5 DEF DriveWrite, Become
    <2>. QED  BY <1>1, <2>1, KnownNow, WriteKnown
  <1>6. ASSUME DriveRead
        PROVE  got' = Byte(FALSE, drives'[selected'], drives'[selected'].byte - 1)
    <2>1. PICK n \in 0 .. SectorSize :
            Become(Read(Now, n), IF drives[selected].byte < SectorSize THEN sure ELSE n,
                   ~ WriteReady)
      BY <1>6 DEF DriveRead
    <2>2. PICK t : t = Read(Now, n)
      OBVIOUS
    <2>3. PICK now : now = IF Now.drives[Now.sel].byte < SectorSize THEN sure ELSE n
      OBVIOUS
    <2>4. /\ polite /\ ~ WriteReady /\ selected # None
          /\ got' = t.got /\ drives' = t.drives /\ selected' = t.sel
          /\ ~ Restarts => sure' = now
      BY <1>1, <1>6, <2>1, <2>2, <2>3 DEF DriveRead, Become
    <2>5. t.sel = selected
      BY <1>1, <2>2 DEF Read
    <2>6. Reading(Now.drives[Now.sel], Now.dirty, Now.buf, sure)
      BY <2>4, KnownNow
    <2>7. /\ t.drives[selected].byte - 1 < now =>
               t.got = Byte(FALSE, t.drives[selected], t.drives[selected].byte - 1)
          /\ Reading(t.drives[selected], t.dirty, t.buf, now)
      BY <1>1, <2>2, <2>3, <2>4, <2>5, <2>6, ReadKnown DEF Settled
    <2>8. Sound(t) /\ t.drives[selected] \in Drive
      BY <1>1, <2>2, <2>4, <2>5, ReadSound DEF Sound, State
    <2>9. t.drives[selected].byte \notin {0, FF}
      <3>1. t.drives[selected].byte # 0
        BY <2>7 DEF Reading
      <3>2. t.drives[selected].byte # FF
        BY <1>1, <2>2, <2>4, ReadPointer
      <3>. QED  BY <3>1, <3>2
    <2>10. ~ Restarts
      BY <2>4, <2>5, <2>9, <1>1, DiskAssumption DEF Restarts, Drives
    <2>. QED  BY <2>4, <2>5, <2>7, <2>10
  <1>7. ASSUME NEW n \in Drives, NEW file, NEW status, Insert(n, file, status)
        PROVE  FALSE
    BY <1>7 DEF Insert
  <1>. QED  BY <1>2, <1>3, <1>4, <1>5, <1>6, <1>7 DEF Operate, DriveUnmount, DriveMount

\* While the rules are kept, a byte written finds its place in the buffer.
LEMMA StoreStep ==
  Inv /\ BufferKnown /\ StoresStayInside /\ [Next]_vars => StoresStayInside'
  <1>. SUFFICES ASSUME Inv, BufferKnown, StoresStayInside, [Next]_vars, polite'
                PROVE  ~ overran'
    BY DEF StoresStayInside
  <1>1. CASE DriveWrite
    <2>1. polite /\ WriteReady /\ selected # None
      BY <1>1 DEF DriveWrite, Become
    <2>2. Filling(drives[selected], dirty, buf, sure)
      BY <2>1, KnownNow DEF Now
    <2>3. ~ (drives[selected].byte > SectorSize)
      BY <2>2, DiskAssumption DEF Filling
    <2>. QED  BY <1>1, <2>3 DEF DriveWrite
  <1>2. CASE Operate /\ ~ DriveWrite
    BY <1>2 DEF Operate, DriveSelect, DriveControl, DriveSector, DriveRead,
                DriveUnmount, DriveMount, Insert
  <1>3. CASE UNCHANGED vars
    BY <1>3 DEF vars, StoresStayInside
  <1>. QED  BY <1>1, <1>2, <1>3 DEF Next, Overrun

-----------------------------------------------------------------------------
(* The theorems *)

\* No sequence of port accesses and mounts leaves the invariant, up to the first
\* byte stored outside the buffer, after which the specification says nothing.
THEOREM Invariance == Spec => []Inv
  BY InvInit, InvNext, PTL DEF Spec

\* Every variable of the controller keeps its type: the head stays on the disk
\* and the byte pointer inside the sector, or parked.
THEOREM TypeCorrect == Spec => []TypeOK
  <1>1. Inv => TypeOK  BY DEF Inv
  <1>. QED  BY <1>1, Invariance, PTL

\* Bytes that wait in the buffer can always be flushed to the drive they were
\* written for, unless a byte was stored outside the buffer.
THEOREM NothingStranded == Spec => []DirtyIsInReach
  <1>1. Inv => DirtyIsInReach  BY DEF Inv, InReach, DirtyIsInReach
  <1>. QED  BY <1>1, Invariance, PTL

\* Only the selected drive has its head loaded, a write open or its status shown.
THEOREM OthersIdle == Spec => []OneDriveActive
  <1>1. Inv => OneDriveActive  BY DEF Inv, OthersOff, OneDriveActive
  <1>. QED  BY <1>1, Invariance, PTL

\* A drive that reports track 0 is there, for any number of tracks.
THEOREM Track0Honest == Spec => []Track0IsTrack0
  <1>1. Inv => Track0IsTrack0  BY DEF Inv, OnTrack0, Track0IsTrack0
  <1>. QED  BY <1>1, Invariance, PTL

\* As long as the Z80 program follows the rules, the one buffer holds the bytes
\* written for the sector under the head, or as many bytes of that sector as the
\* file delivered, whichever drive that is.
THEOREM BufferInvariance == Spec => []BufferKnown
  <1>1. Inv /\ BufferKnown /\ [Next]_vars => (Inv /\ BufferKnown)'
    BY InvNext, KnownNext
  <1>. QED  BY InvInit, KnownInit, <1>1, PTL DEF Spec

\* Such a program never has drive_write store a byte outside sectorbuf, whatever
\* the size of a sector and however drives are selected and images exchanged.
THEOREM StoresInside == Spec => []StoresStayInside
  <1>1. Init => StoresStayInside
    BY DEF Init, StoresStayInside
  <1>. QED  BY <1>1, Invariance, BufferInvariance, StoreStep, PTL DEF Spec

\* What such a program writes for a sector of an image is handed to that sector,
\* byte by byte, and to no other, for any drives, images and sector size --
\* unless the head steps before the buffer is flushed or the image is exchanged.
THEOREM BytesStayPut == Spec => WritesStayPut
  <1>. DEFINE A == flushed' # None /\ polite' /\ ~ Stepped => InPlace(flushed', sure)
  <1>1. Inv /\ BufferKnown /\ [Next]_vars => [A]_vars
    BY StepInPlace DEF Next, Overrun
  <1>2. [A]_vars => [flushed' # None /\ polite' /\ ~ Stepped =>
                       \A k \in Bytes :
                         LET c == flushed'.data[k] IN
                         c # Zero /\ k < sure => /\ c.image = flushed'.image
                                                /\ c.pos = flushed'.pos
                                                /\ c.k = k]_vars
    BY DEF InPlace
  <1>. HIDE DEF A
  <1>. QED  BY Invariance, BufferInvariance, <1>1, <1>2, PTL DEF Spec, WritesStayPut

\* Of the bytes a file delivered when the sector under the head was fetched, such
\* a program reads each in its turn, and never one the shared buffer still held
\* of another sector or drive -- unless the image was exchanged meanwhile.
THEOREM BytesUnderHead == Spec => ReadsUnderHead
  <1>1. Inv /\ BufferKnown /\ [Next]_vars =>
          [got' # None /\ polite' =>
             LET d == drives'[selected'] IN
             d.byte - 1 < sure' => got' = Byte(FALSE, d, d.byte - 1)]_vars
    BY StepUnderHead DEF Next, Overrun
  <1>. QED  BY Invariance, BufferInvariance, <1>1, PTL DEF Spec, ReadsUnderHead
=============================================================================
