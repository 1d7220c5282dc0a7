-------------------------------- MODULE Memory --------------------------------
(***************************************************************************)
(* hardware/memory.c: which cells of memory an access visits, in order.    *)
(* The address of a cell is a page and a place in it, each 8 bits wide and *)
(* counted on by itself; a bank register switches banks of 64 KB in.  An   *)
(* access of no cells is not empty: it visits one cell, two pages, or a    *)
(* whole bank.                                                             *)
(***************************************************************************)
EXTENDS Integers, Sequences

CONSTANTS
  PageSize, \* cells of a page (256)
  Pages,    \* pages of a bank (256)
  Banks     \* banks that are fitted

ASSUME MemoryAssumption == {PageSize, Pages, Banks} \subseteq Nat \ {0}

BankSize == PageSize * Pages

\* n cells from a on.
From(a, n) == [i \in 1 .. n |-> a + i - 1]

\* mem_read_page and mem_write_page: the first cell is visited in any case, and
\* what lies before it never.
Page(page, start, end) ==
  From(page * PageSize + start, IF start <= end THEN end - start + 1 ELSE 1)

\* A page number counts on from the last page to the first.
IterateShort(start, end) ==       \* mistake for AccessesAreExact
  LET first == start \div PageSize
      last == end \div PageSize
  IN IF first = last THEN Page(first, start % PageSize, end % PageSize)
     ELSE Page(first, start % PageSize, PageSize - 1) \o Page(last, 0, end % PageSize)
mem_iterate(start, end) ==
  LET first == start \div PageSize
      last == end \div PageSize
      next == (first + 1) % Pages
      between == IF next < last THEN last - next ELSE 0
  IN IF first = last THEN Page(first, start % PageSize, end % PageSize)
     ELSE Page(first, start % PageSize, PageSize - 1)
          \o From(next * PageSize, between * PageSize)
          \o Page(next + between, 0, end % PageSize)

\* start + len - 1 has 16 bits.
Accessed(start, len) == mem_iterate(start % BankSize, (start + len - 1) % BankSize)

InBank(bank, visits) == [i \in DOMAIN visits |-> bank * BankSize + visits[i]]

\* mem_iterate_banked: an access may go from one bank into the next.
AccessedBanked(start, len) ==
  LET end == start + len - 1
      bank(a) == (a \div BankSize) % Banks
      low(a) == a % BankSize
      odd(a) == (a \div BankSize) % 2
  IN IF odd(start) = odd(end)
     THEN InBank(bank(start), mem_iterate(low(start), low(end)))
     ELSE InBank(bank(start), mem_iterate(low(start), BankSize - 1))
          \o InBank(bank(end), mem_iterate(0, low(end)))
=============================================================================
