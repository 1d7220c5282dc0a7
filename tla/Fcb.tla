-------------------------------- MODULE Fcb --------------------------------
(***************************************************************************)
(* emulation/bdos.c: where a CP/M program is in a file, and what a         *)
(* directory search shows it of one.  The position is kept twice in the    *)
(* File Control Block that the program owns: in the sequential fields s2,  *)
(* ex and cr and in the random fields r2, r1 and r0.  A directory entry    *)
(* describes one extent of a file, so that a long file has several.        *)
(* Offsets and lengths are counted in records (RECSIZ bytes), of which 32  *)
(* bits hold 2 * B^3.                                                      *)
(***************************************************************************)
EXTENDS Integers

CONSTANTS
  B,         \* values of a uint8_t
  RecCount,  \* RECCNT = RECSIZ, records in an extent
  ExtCount,  \* EXTCNT, extents in a module
  ModCount,  \* MODCNT, modules in a file
  Lengths,   \* lengths of the files of the directory
  All        \* '?' as the extent of a search: every extent is wanted

\* RECSIZ is half of a byte's range, the sequential fields name B^2 records, a
\* byte holds the number of a module, and that of the last module of any file.
ASSUME FcbAssumption ==
  /\ B \in Nat /\ B > 1 /\ B % 2 = 0
  /\ RecCount \in Nat \ {0} /\ RecCount = B \div 2
  /\ ExtCount \in Nat \ {0} /\ ModCount \in 1 .. B
  /\ RecCount * ExtCount * ModCount = B * B
  /\ Lengths \subseteq 0 .. RecCount * ExtCount * B
  /\ All \in ExtCount .. B - 1

VARIABLES
  seq,       \* the sequential fields of the FCB
  rnd,       \* the random fields
  op,        \* the last call
  offset,    \* the record it read or wrote, or 0
  searchex,  \* the extent a search wants
  length,    \* the length of the file the search is at
  left,      \* bytesleft, in records
  entry,     \* dirfcb, as far as it says which records the entry is about
  found      \* did the last search call return an entry?

position == <<seq, rnd, offset>>
search == <<searchex, length, left, entry, found>>
vars == <<position, op, search>>

Byte == 0 .. B - 1
SeqFields == [s2 : Byte, ex : Byte, cr : Byte]
RndFields == [r2 : Byte, r1 : Byte, r0 : Byte]
Offsets   == 0 .. 2 * B * B * B - 1
SeqSpace  == RecCount * ExtCount * ModCount

NoEntry == [s2 |-> 0, ex |-> 0, rc |-> 0]

Init ==
  /\ seq \in SeqFields /\ rnd \in RndFields
  /\ op = "none" /\ offset = 0
  /\ searchex = 0 /\ length = 0 /\ left = 0
  /\ entry = NoEntry /\ found = FALSE

-----------------------------------------------------------------------------
(* fcb_seqoffset, fcb_setseq, fcb_randoffset, fcb_setrand *)

SeqOffset(f) == (f.s2 * ExtCount + f.ex) * RecCount + f.cr

\* Mistake for SequentialAdvances: extents of a module counted from the file.
SetSeqUnbounded(o) ==
  [cr |-> o % RecCount, ex |-> (o \div RecCount) % B,
   s2 |-> (o \div (RecCount * ExtCount)) % ModCount]
SetSeq(o) ==
  [cr |-> o % RecCount, ex |-> (o \div RecCount) % ExtCount,
   s2 |-> (o \div (RecCount * ExtCount)) % ModCount]

\* The number that the random fields spell.
RandRecord(f) == (f.r2 * B + f.r1) * B + f.r0

\* r1 << 8 is an int of 16 bits: with the top bit of r1 set it is negative, and
\* all the bits above it are set when it becomes a uint32_t.
RandOffset(f) ==
  IF f.r1 >= B \div 2 THEN ((2 * B - 1) * B + f.r1) * B + f.r0
                      ELSE RandRecord(f)

SetRandLow(o) ==    \* mistake for RandomComesBack
  [r0 |-> o % B, r1 |-> (o \div B) % B, r2 |-> 0]
SetRand(o) ==
  [r0 |-> o % B, r1 |-> (o \div B) % B, r2 |-> (o \div (B * B)) % B]

-----------------------------------------------------------------------------
(* Reading, writing and F_RANDREC.  The program sets fields of its FCB too. *)

SetField ==
  /\ \/ /\ \E v \in Byte, k \in {"s2", "ex", "cr"} : seq' = [seq EXCEPT ![k] = v]
        /\ UNCHANGED rnd
     \/ /\ \E v \in Byte, k \in {"r2", "r1", "r0"} : rnd' = [rnd EXCEPT ![k] = v]
        /\ UNCHANGED seq
  /\ op' = "none" /\ offset' = 0
  /\ UNCHANGED search

\* F_READ and F_WRITE step to the next record (at the end of the file F_READ
\* returns without touching anything).
Sequential ==
  /\ op' = "seq"
  /\ offset' = SeqOffset(seq)
  /\ seq' = SetSeq(offset' + 1)
  /\ UNCHANGED <<rnd, search>>

\* F_READRAND, F_WRITERAND and F_WRITEZF stay at theirs.
Random ==
  /\ op' = "rnd"
  /\ offset' = RandOffset(rnd)
  /\ seq' = SetSeq(offset')
  /\ UNCHANGED <<rnd, search>>

\* The offset is a whole number of records, so nothing is rounded.
RandRec ==
  /\ op' = "randrec" /\ offset' = 0
  /\ rnd' = SetRand(SeqOffset(seq))
  /\ UNCHANGED <<seq, search>>

-----------------------------------------------------------------------------
(* bdos_search *)

RecordCountUncapped(n) == n % B         \* mistake for EntriesCoverFile
\* The rounded count goes to a byte before it is compared.
RecordCount(n) ==
  LET rc == n % B IN IF rc > RecCount THEN RecCount ELSE rc

Rest(n, x) == IF n > RecCount /\ x = All THEN n - RecCount ELSE 0

\* A mistake for ExtentsInOrder: the extent is not reset with a new module.
NextExtentNoReset ==
  [ex |-> (entry.ex + 1) % B,
   s2 |-> IF entry.ex + 1 >= ExtCount THEN (entry.s2 + 1) % B ELSE entry.s2]
NextExtent ==
  IF entry.ex + 1 >= ExtCount
  THEN [ex |-> 0, s2 |-> (entry.s2 + 1) % B]
  ELSE [ex |-> entry.ex + 1, s2 |-> entry.s2]

\* The next file that matches.
NextFile(x) ==
  \E n \in Lengths :
    /\ length' = n
    /\ entry' = [s2 |-> 0, ex |-> IF x = All THEN 0 ELSE x, rc |-> RecordCount(n)]
    /\ left' = Rest(n, x)
    /\ found' = TRUE

\* The extent comes from the FCB; no file may match.
First ==
  /\ searchex' = seq.ex
  /\ \/ NextFile(seq.ex)
     \/ /\ entry' = NoEntry /\ left' = 0 /\ found' = FALSE
        /\ UNCHANGED length

SearchFirst ==
  /\ First
  /\ op' = "search" /\ offset' = 0
  /\ UNCHANGED <<seq, rnd>>

SearchNext ==
  /\ IF left = 0
     THEN \/ NextFile(searchex)
          \/ found' = FALSE /\ UNCHANGED <<length, left, entry>>
     ELSE /\ entry' = [s2 |-> NextExtent.s2, ex |-> NextExtent.ex,
                       rc |-> RecordCount(left)]
          /\ left' = Rest(left, searchex)
          /\ found' = TRUE
          /\ UNCHANGED length
  /\ op' = "search" /\ offset' = 0
  /\ UNCHANGED <<seq, rnd, searchex>>

\* F_SIZE begins a search too, and puts the length in the random fields.
Size ==
  /\ First
  /\ rnd' = IF found' THEN SetRand(length') ELSE rnd
  /\ op' = "size" /\ offset' = 0
  /\ UNCHANGED seq

Next ==
  \/ SetField
  \/ Sequential \/ Random \/ RandRec
  \/ SearchFirst \/ SearchNext \/ Size

Spec == Init /\ [][Next]_vars

-----------------------------------------------------------------------------
(* Properties *)

\* Sequential reads and writes visit one record after the other, through the
\* ends of extents and modules, whatever the program had put in the fields; at
\* the end of the last module they start again at record 0.
SequentialAdvances ==
  [][op' = "seq" => SeqOffset(seq') = (SeqOffset(seq) + 1) % SeqSpace]_vars

Begin(e) == (e.s2 * ExtCount + e.ex) * RecCount

\* The entries of a file cover it: the search is still at a file exactly while
\* the file goes on after the extent just returned, and an entry tells how many
\* records its extent has, unless so many are left that a byte does not hold
\* their number.
EntriesCoverFile ==
  found /\ searchex = All =>
    LET rest == length - Begin(entry)
    IN /\ left = IF rest > RecCount THEN rest - RecCount ELSE 0
       /\ rest < B => entry.rc = IF rest > RecCount THEN RecCount ELSE rest

\* The entries of a file follow each other, from one module to the next too,
\* and none begins at or after the end of a file that has records.
ExtentsInOrder ==
  [][SearchNext /\ left # 0 =>
       /\ Begin(entry') = Begin(entry) + RecCount
       /\ Begin(entry') < length]_vars

\* The record that the last call put in the random fields: F_RANDREC the one at
\* which sequential access stands, F_SIZE the one behind the end of the file.
Recorded ==
  \/ op = "randrec"
  \/ op = "size" /\ found /\ length < B * B * B

WhichRecord == IF op = "randrec" THEN SeqOffset(seq) ELSE length

\* A random access comes back to the record that F_RANDREC or F_SIZE has just
\* put in the random fields, in every file shorter than half of what r1 and r0
\* count: of each such stretch of a longer file it finds the first half only, and
\* never any record of the second.
RandomComesBack ==
  [][Recorded /\ op' = "rnd" =>
       (offset' = WhichRecord <=> WhichRecord % (B * B) < (B * B) \div 2)]_vars
=============================================================================
