----------------------------- MODULE NamedFiles -----------------------------
(***************************************************************************)
(* What a CP/M program expects of the file calls of the BDOS: each works   *)
(* on the file whose name is in its FCB, and on no other.                  *)
(***************************************************************************)
EXTENDS Integers

CONSTANTS Names, Wild, Records, Values

VARIABLES
  files,  \* the files there are, by name
  done    \* the last call with what its FCB and buffer said, if it may change a file

Others(S) == \A n \in DOMAIN files \ S : files'[n] = files[n]

\* A record past the end makes the file longer; what lies between is not said.
Write(n, r, v) ==
  /\ done' = <<"write", n, r, v>>
  /\ n \in DOMAIN files /\ DOMAIN files' = DOMAIN files
  /\ files'[n].size = IF r + 1 > files[n].size THEN r + 1 ELSE files[n].size
  /\ files'[n].data[r] = v
  /\ \A q \in 0 .. files[n].size - 1 : q # r => files'[n].data[q] = files[n].data[q]
  /\ Others({n})

Make(n) ==
  /\ done' = <<"make", n>>
  /\ n \notin DOMAIN files /\ DOMAIN files' = DOMAIN files \cup {n}
  /\ files'[n].size = 0
  /\ Others({n})

\* Some files go, and only such as the name in the FCB matches.
Delete(n) ==
  /\ done' = <<"delete", n>>
  /\ \E S \in SUBSET Names :
       /\ n = Wild \/ S \subseteq {n}
       /\ files' = [k \in DOMAIN files \ S |-> files[k]]

Rename(n, m) ==
  /\ done' = <<"rename", n, m>>
  /\ n \in DOMAIN files /\ m \notin DOMAIN files
  /\ files' = [k \in (DOMAIN files \ {n}) \cup {m} |->
                 IF k = m THEN files[n] ELSE files[k]]

\* A file that is renamed while it is the open one loses the records that its
\* slot of the directory does not know of yet, and nothing else.
RenameOpen(n, m) ==
  /\ done' = <<"rename", n, m>>
  /\ n \in DOMAIN files /\ m \notin DOMAIN files \ {n}
  /\ DOMAIN files' = (DOMAIN files \ {n}) \cup {m}
  /\ files'[m].size <= files[n].size
  /\ \A q \in 0 .. files'[m].size - 1 : files'[m].data[q] = files[n].data[q]
  /\ Others({n})

\* No file changes by a call that only looks, or fails, and no write is reported.
Other == UNCHANGED files /\ done'[1] # "write"

Init == DOMAIN files \subseteq Names /\ done[1] = "other"

Next ==
  \/ \E n \in Names, r \in Records, v \in Values : Write(n, r, v)
  \/ \E n \in Names : Make(n)
  \/ \E n \in Names \cup {Wild} : Delete(n)
  \/ \E n, m \in Names : Rename(n, m)
  \/ Other
=============================================================================
