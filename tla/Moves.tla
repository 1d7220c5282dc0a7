-------------------------------- MODULE Moves --------------------------------
(***************************************************************************)
(* The loops that carry bytes between a file, or a buffer, and memory:     *)
(* file_to_mem and mem_to_file of emulation/filedma.c, mem_loadbin and     *)
(* mem_savebin of hardware/memory.c, and the fill command of the monitor.  *)
(* Each is given as the sequence of its moves <<place, cell>>, place being *)
(* a place of the file or of the pattern.                                  *)
(***************************************************************************)
EXTENDS Memory, FiniteSetsExt

CONSTANTS
  BufSize, \* buffer of a transfer (512)
  Junk,    \* what lies in a buffer where nothing was put
  Beyond   \* the place of a byte that is stored past the end of a buffer

ASSUME MovesAssumption == BufSize \in Nat \ {0}

Smaller(a, b) == Min({a, b})

\* len bytes from place pos on, put into the cells visited.
Put(pos, len, visits) ==
  [i \in DOMAIN visits |-> <<IF i <= len THEN pos + i - 1 ELSE Junk, visits[i]>>]

\* The cells visited, got into a buffer of size bytes, and len bytes of it to place
\* pos on.
Got(pos, len, visits, size) ==
  [i \in 1 .. len |-> <<pos + i - 1, IF i \in DOMAIN visits THEN visits[i] ELSE Junk>>]
  \o [i \in 1 .. Len(visits) - size |-> <<Beyond, visits[size + i]>>]

\* In all of these left is what remains of the file, or of the room on the card, and
\* ok how many reads or writes of the file succeed before one fails.  What a write
\* that fails did reach the card is not counted.
RECURSIVE file_to_mem(_, _, _, _, _)
file_to_mem(base, pos, btr, left, ok) ==
  LET btr1 == Smaller(btr, BufSize)
      br1 == Smaller(btr1, left)
      here == Put(pos, br1, Accessed(base, br1))
  IN IF ok = 0 THEN <<>>
     ELSE IF btr > br1 /\ br1 = btr1
     THEN here \o file_to_mem(base + br1, pos + br1, btr - br1, left - br1, ok - 1)
     ELSE here

RECURSIVE mem_to_file(_, _, _, _, _)
mem_to_file(base, pos, btw, left, ok) ==
  LET btw1 == Smaller(btw, BufSize)
      bw1 == IF ok = 0 THEN 0 ELSE Smaller(btw1, left)
      here == Got(pos, bw1, Accessed(base, btw1), BufSize)
  IN IF ok > 0 /\ btw > bw1 /\ bw1 = btw1
     THEN here \o mem_to_file(base + bw1, pos + bw1, btw - bw1, left - bw1, ok - 1)
     ELSE here

\* The pattern of a fill is a page long, and the last piece may be longer.
RECURSIVE cli_fill(_, _)
cli_fill(start, end) ==
  IF end - start > PageSize
  THEN Put(0, PageSize, AccessedBanked(start, PageSize)) \o cli_fill(start + PageSize, end)
  ELSE Put(0, PageSize, AccessedBanked(start, end - start + 1))

RECURSIVE mem_loadbin(_, _, _, _, _)
mem_loadbin(start, pos, len, left, ok) ==
  LET br == Smaller(BufSize, left)
      size == Smaller(br, len)
      here == IF size > 0 THEN Put(pos, size, AccessedBanked(start, size)) ELSE <<>>
  IN IF ok = 0 THEN <<>>
     ELSE IF size < BufSize THEN here
     ELSE here \o mem_loadbin(start + size, pos + size, len - size, left - size, ok - 1)

\* Goes on when the card is full.
RECURSIVE mem_savebin(_, _, _, _, _)
mem_savebin(start, pos, end, left, ok) ==
  LET len == Smaller(PageSize, end - start + 1)
      bw == IF ok = 0 THEN 0 ELSE Smaller(len, left)
      here == Got(pos, bw, AccessedBanked(start, len), PageSize)
  IN IF start > end THEN <<>>
     ELSE IF ok = 0 THEN here
     ELSE here \o mem_savebin(start + len, pos + bw, end, left - bw, ok - 1)
=============================================================================
