------------------------------ MODULE BdosFile ------------------------------
(***************************************************************************)
(* emulation/bdos.c: the file calls.  A CP/M program may have any number   *)
(* of files open, each known by the name in its FCB; the firmware has one  *)
(* FIL, for the file whose name is in curfn, and closes it to open another *)
(* whenever a call comes with another name.  There is one search as well,  *)
(* which opening, deleting and asking for the size of a file use too.      *)
(***************************************************************************)
EXTENDS Volume

CONSTANT
  ExtRecords \* the records of an extent (EXTSIZ)

ASSUME BdosAssumption == ExtRecords \in Nat \ {0}

VARIABLES
  vol,     \* the card
  curfil,  \* the open file
  curfn,   \* the name it was opened by, or "" after a close
  rdo,     \* AM_RDO in curfno, what f_readdir said last
  done,    \* the last call with what its FCB said, if it may change a file
  stray    \* did the last call delete or rename the file that was open?

vars == <<vol, curfil, curfn, rdo, done, stray>>

\* The card may hold a read-only file of one record.
Cards ==
  LET bare(v) == [slot |-> [s \in Slots |-> Deleted], used |-> {},
                  data |-> [c \in Clusters |-> [r \in Records |-> v]]]
      with(v, n) == [bare(v) EXCEPT
        !.slot[1] = [name |-> n, ro |-> TRUE, size |-> 1, cluster |-> 1], !.used = {1}]
  IN UNION {{bare(v)} \cup {with(v, n) : n \in Names} : v \in Values}

Looked == <<"other">>

Init ==
  /\ vol \in Cards
  /\ curfil = Closed /\ curfn = ""
  /\ rdo = FALSE
  /\ done = Looked /\ stray = FALSE

-----------------------------------------------------------------------------
(* bdos_search *)

Hits(mask) == {s \in Slots : vol.slot[s].name # "" /\ mask \in {Wild, vol.slot[s].name}}

\* The last file that was passed, or rdo if there was none.  At the end of the
\* directory f_readdir clears the name only, and leaves the attribute.
Passed(S) == IF S = {} THEN rdo ELSE vol.slot[Final(S)].ro

Search(mask) ==
  IF Hits(mask) # {} THEN vol.slot[First(Hits(mask))].ro ELSE Passed(Hits(Wild))

-----------------------------------------------------------------------------
(* fcb_openfil *)

OpenFilKept(n, write, new) ==       \* mistake for CacheIsHonest
  LET opened == f_open(f_close(vol, curfil), n, write, new)
  IN IF n = curfn \/ opened.fr # "OK"
     THEN [vol |-> vol, fil |-> curfil, returns |-> {TRUE}]
     ELSE [vol |-> opened.vol, fil |-> opened.fil, returns |-> BOOLEAN]
OpenFilOnce(n, write, new) ==   \* mistake for ReadsAreRight
  IF curfil.open
  THEN [vol |-> vol, fil |-> curfil, returns |-> {TRUE}]
  ELSE LET opened == f_open(vol, n, write, new)
       IN [vol |-> opened.vol, fil |-> opened.fil, returns |-> BOOLEAN]
\* The file is opened unless curfn says it is.  There is no return statement
\* after f_open: the caller finds any value.
OpenFil(n, write, new) ==
  IF n = curfn
  THEN [vol |-> vol, fil |-> curfil, returns |-> {TRUE}]
  ELSE LET opened == f_open(f_close(vol, curfil), n, write, new)
       IN [vol |-> opened.vol, fil |-> opened.fil, returns |-> BOOLEAN]

\* What a call leaves.
Leaves(call, v, fil, fn) ==
  /\ vol' = v /\ curfil' = fil /\ curfn' = fn
  /\ done' = call /\ UNCHANGED stray

\* The slots in S are emptied.  Nobody asks whether one is of the open file.
Empties(call, v, S) ==
  /\ vol' = v /\ UNCHANGED <<curfil, curfn>>
  /\ done' = IF S = {} THEN Looked ELSE call
  /\ stray' = (curfil.open /\ curfil.slot \in S)

-----------------------------------------------------------------------------
(* The calls *)

\* Whether a file may be written is asked of the last search, before the one
\* that finds the file.
Open(n) ==
  LET opened == OpenFil(n, ~rdo, FALSE)
  IN /\ rdo' = Search(n)
     /\ IF Hits(n) # {} THEN Leaves(Looked, opened.vol, opened.fil, n)
                        ELSE Leaves(Looked, vol, curfil, curfn)

\* It reports success if curfn names the file, and anything otherwise.
Make(n) ==
  LET opened == OpenFil(n, ~rdo, TRUE)
  IN UNCHANGED rdo /\ Leaves(<<"make", n>>, opened.vol, opened.fil, n)

\* F_CLOSE closes what is open, whatever the FCB names, as P_TERMCPM does.
Close == UNCHANGED rdo /\ Leaves(Looked, f_close(vol, curfil), Closed, "")

\* F_SFIRST and F_SIZE.
SearchFirst(n) == rdo' = Search(n) /\ Leaves(Looked, vol, curfil, curfn)

\* F_SNEXT, which goes on from where the last search is (see Fcb).
SearchNext ==
  /\ rdo' \in {rdo} \cup {vol.slot[s].ro : s \in Hits(Wild)}
  /\ Leaves(Looked, vol, curfil, curfn)

\* What F_READ and F_READRAND of record r put in memory, if they succeed.
Reads(n, r) ==
  LET o == OpenFil(n, TRUE, FALSE)
  IN IF r < o.fil.size /\ o.fil.open THEN {o.vol.data[o.fil.cluster][r]} ELSE {}

Read(n) ==
  LET o == OpenFil(n, TRUE, FALSE)
  IN UNCHANGED rdo /\ Leaves(Looked, o.vol, o.fil, n)

\* F_WRITE, F_WRITERAND and F_WRITEZF.  How much was written is not looked at:
\* on a full card they report a success that done does not count.
Write(n, r, value) ==
  LET o == OpenFil(n, TRUE, FALSE)
  IN /\ UNCHANGED rdo
     /\ \E ok \in o.returns, c \in Free(o.vol) :
          LET w == f_write(o.vol, o.fil, r, value, c)
          IN IF ok
             THEN Leaves(IF w.fr = "OK" /\ w.fil.cluster # 0
                         THEN <<"write", n, r, value>> ELSE Looked,
                         w.vol, w.fil, n)
             ELSE Leaves(Looked, o.vol, o.fil, n)

\* Files that match are deleted one by one.  The loop stops with an error at a
\* read-only file, and, if all extents are wanted, after a file that has
\* several: its next extent is found although the file is gone.
Delete(n, all) ==
  LET hits    == Hits(n)
      stops   == {s \in hits : vol.slot[s].ro \/ (all /\ vol.slot[s].size > ExtRecords)}
      upto    == IF stops = {} THEN Final(Slots) ELSE First(stops)
      deleted == {s \in hits : s <= upto /\ ~vol.slot[s].ro}
  IN /\ rdo' = Passed({s \in Hits(Wild) : s <= upto})
     /\ Empties(<<"delete", n>>,
                [vol EXCEPT !.slot = [s \in Slots |-> IF s \in deleted THEN Deleted
                                                      ELSE vol.slot[s]],
                            !.used = @ \ {vol.slot[s].cluster : s \in deleted}],
                deleted)

\* The slot that f_rename or f_unlink empties, if it succeeds.
Lost(n, result) == IF result.fr = "OK" THEN {SlotOf(vol, n)} ELSE {}

Rename(n, m) ==
  LET renamed == f_rename(vol, n, m)
  IN UNCHANGED rdo /\ Empties(<<"rename", n, m>>, renamed.vol, Lost(n, renamed))

\* The monitor erases files too, while a program is stopped.
MonitorErase(n) ==
  LET erased == f_unlink(vol, n)
  IN UNCHANGED rdo /\ Empties(<<"delete", n>>, erased.vol, Lost(n, erased))

\* A program is followed no further when it has gone astray.
Next ==
  /\ ~stray
  /\ \/ Close \/ SearchNext
     \/ \E n \in Names \cup {Wild} :
          \/ Open(n) \/ Make(n) \/ SearchFirst(n)
          \/ \E all \in BOOLEAN : Delete(n, all)
          \/ \E m \in Names : Rename(n, m)
     \/ \E n \in Names : MonitorErase(n) \/ Read(n)
     \/ \E n \in Names, r \in Records, value \in Values : Write(n, r, value)

Spec == Init /\ [][Next]_vars

-----------------------------------------------------------------------------
(* Properties *)

\* Until a call deletes or renames the file that is open, the open file is the
\* one that curfn names, through every change from one file to another in
\* fcb_openfil; no two files have the same name; and no cluster belongs to two
\* files, or is in use but of no file, or of a file but free: data can neither go
\* to a wrong file nor into free space.
CacheIsHonest ==
  ~stray =>
    LET owners(c) == {s \in Slots : vol.slot[s].cluster = c} \cup
                     (IF curfil.cluster = c THEN {curfil.slot} ELSE {})
    IN /\ curfil.open => vol.slot[curfil.slot].name = curfn
       /\ \A s, t \in Slots : vol.slot[s].name = vol.slot[t].name =>
                                s = t \/ vol.slot[s].name = ""
       /\ \A c \in Clusters : Cardinality(owners(c)) = IF c \in vol.used THEN 1 ELSE 0

\* A file as its user sees it: an open one may be longer than its slot says.
Seen(s) ==
  LET here == curfil.open /\ curfil.slot = s
      c == IF here THEN curfil.cluster ELSE vol.slot[s].cluster
      size == IF here THEN curfil.size ELSE vol.slot[s].size
  IN [size |-> size,
      data |-> [r \in 0 .. size - 1 |-> IF c = 0 THEN 0 ELSE vol.data[c][r]]]

Files == [n \in {vol.slot[s].name : s \in Slots} \ {""} |-> Seen(SlotOf(vol, n))]

Named == INSTANCE NamedFiles WITH files <- Files

\* What is read from a file is what was written to the file of that name, or
\* nothing, whichever file is open, until a call deletes or renames the open one.
ReadsAreRight ==
  ~stray => \A n \in Names, r \in Records :
              /\ Reads(n, r) # {} => Exists(vol, n)
              /\ \A v \in Reads(n, r) : v = Seen(SlotOf(vol, n)).data[r]

\* Each call changes only the files that its FCB names: a write puts the record
\* of the call into that file, a make adds that file, a delete takes only files
\* that match, a rename moves that one, whichever files a program has open in
\* turn; what the FIL has not told the directory yet is part of its file.  It is
\* so in the step that deletes the open file, too; only a rename of the open file
\* loses what the directory did not know, of that file alone.
ImplementsNamedFiles ==
  Named!Init /\
  [][Named!Next \/ (stray' /\ \E n, m \in Names : Named!RenameOpen(n, m))]_vars
=============================================================================
