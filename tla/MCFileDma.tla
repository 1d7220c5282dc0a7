----------------------------- MODULE MCFileDma -----------------------------
\* Two banks of four pages of two cells; a buffer holds two pages, and a
\* transfer two buffers and one cell.  A byte may be half an address and a
\* command: F_READ or F_WRITE.
EXTENDS FileDma

MCBytes == {F_READ, F_WRITE}
=============================================================================
