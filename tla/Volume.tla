------------------------------- MODULE Volume -------------------------------
(***************************************************************************)
(* What the firmware asks of FatFs (fatfs/ff.c): a directory whose slots   *)
(* describe files, clusters that hold their records, and an open file that *)
(* knows its slot and clusters by position, not by name.  FF_FS_LOCK is 0: *)
(* nothing stops a file from being deleted or renamed while it is open.    *)
(* A file fits in one cluster here, the card does not fail, and there are  *)
(* no subdirectories.                                                      *)
(***************************************************************************)
EXTENDS Integers, FiniteSets

CONSTANTS
  Names,     \* names of files
  Wild,      \* a name with '?' in it, which matches every name
  Slots,     \* 1 .. n, the slots of the directory, in order
  Clusters,  \* 1 .. n, the clusters for data
  Records,   \* 0 .. n, the records of a file
  Values     \* what a record may hold

ASSUME VolumeAssumption ==
  /\ Wild \notin Names /\ "" \notin Names \cup {Wild}
  /\ IsFiniteSet(Slots) /\ Slots = 1 .. Cardinality(Slots) /\ Slots # {}
  /\ IsFiniteSet(Clusters) /\ Clusters = 1 .. Cardinality(Clusters) /\ Clusters # {}
  /\ IsFiniteSet(Records) /\ Records = 0 .. Cardinality(Records) - 1 /\ Records # {}
  /\ Values # {}

Sizes == Records \cup {r + 1 : r \in Records}

\* A slot of the directory; cluster 0 says that the file has none yet.
Entry == [name : Names \cup {""}, ro : BOOLEAN, size : Sizes,
          cluster : Clusters \cup {0}]
Deleted == [name |-> "", ro |-> FALSE, size |-> 0, cluster |-> 0]

\* A FIL; when it is not open nothing can be done with it.
File == [open : BOOLEAN, slot : Slots \cup {0}, cluster : Clusters \cup {0},
         size : Sizes, write : BOOLEAN, modified : BOOLEAN]
Closed == [open |-> FALSE, slot |-> 0, cluster |-> 0, size |-> 0,
           write |-> FALSE, modified |-> FALSE]

Volumes == [slot : [Slots -> Entry], used : SUBSET Clusters,
            data : [Clusters -> [Records -> Values]]]

SlotsOf(v, n) == {s \in Slots : v.slot[s].name = n}
Exists(v, n) == n \in Names /\ SlotsOf(v, n) # {}
SlotOf(v, n) == CHOOSE s \in Slots : v.slot[s].name = n
First(S) == CHOOSE s \in S : \A t \in S : s <= t
Final(S) == CHOOSE s \in S : \A t \in S : t <= s
Room(v) == Clusters \ v.used

-----------------------------------------------------------------------------
(* Each returns the state after it and an error code *)

Refused(v, fr) == [vol |-> v, fil |-> Closed, fr |-> fr]

f_open(v, n, write, new) ==
  IF n \notin Names THEN Refused(v, "INVALID_NAME")
  ELSE
    CASE new /\ Exists(v, n) ->
           Refused(v, IF v.slot[SlotOf(v, n)].ro THEN "DENIED" ELSE "EXIST")
      [] new /\ ~Exists(v, n) /\ SlotsOf(v, "") = {} -> Refused(v, "DENIED")
      [] new /\ ~Exists(v, n) /\ SlotsOf(v, "") # {} ->
           LET s == First(SlotsOf(v, ""))
           IN [vol |-> [v EXCEPT !.slot[s] = [Deleted EXCEPT !.name = n]],
               fil |-> [open |-> TRUE, slot |-> s, cluster |-> 0, size |-> 0,
                        write |-> write, modified |-> TRUE],
               fr |-> "OK"]
      [] ~new /\ ~Exists(v, n) -> Refused(v, "NO_FILE")
      [] ~new /\ Exists(v, n) /\ write /\ v.slot[SlotOf(v, n)].ro ->
           Refused(v, "DENIED")
      [] OTHER ->
           LET e == v.slot[SlotOf(v, n)]
           IN [vol |-> v, fr |-> "OK",
               fil |-> [open |-> TRUE, slot |-> SlotOf(v, n),
                        cluster |-> e.cluster, size |-> e.size,
                        write |-> write, modified |-> FALSE]]

Unsynced(v, fil) == v               \* mistake for ImplementsNamedFiles
\* f_close writes size and cluster into the slot, whatever it describes by now.
f_close(v, fil) ==
  IF fil.open /\ fil.modified /\ v.slot[fil.slot].name # ""
  THEN [v EXCEPT !.slot[fil.slot].size = fil.size,
                 !.slot[fil.slot].cluster = fil.cluster]
  ELSE v

\* A file is denied if it is read-only; its cluster becomes free.
f_unlink(v, n) ==
  CASE ~Exists(v, n) -> [vol |-> v, fr |-> "NO_FILE"]
    [] Exists(v, n) /\ v.slot[SlotOf(v, n)].ro -> [vol |-> v, fr |-> "DENIED"]
    [] OTHER ->
         LET s == SlotOf(v, n)
         IN [vol |-> [v EXCEPT !.used = @ \ {v.slot[s].cluster},
                               !.slot[s] = Deleted],
             fr |-> "OK"]

\* The new entry is registered before the old one is removed.
f_rename(v, old, new) ==
  IF old \notin Names \/ new \notin Names THEN [vol |-> v, fr |-> "INVALID_NAME"]
  ELSE IF ~Exists(v, old) THEN [vol |-> v, fr |-> "NO_FILE"]
  ELSE IF new # old /\ Exists(v, new) THEN [vol |-> v, fr |-> "EXIST"]
  ELSE IF SlotsOf(v, "") = {} THEN [vol |-> v, fr |-> "DENIED"]
  ELSE LET s == SlotOf(v, old)
           t == First(SlotsOf(v, ""))
       IN [vol |-> [v EXCEPT !.slot[t] = [v.slot[s] EXCEPT !.name = new],
                             !.slot[s] = Deleted],
           fr |-> "OK"]

\* A record at or past the end is written too.  The first one needs a cluster;
\* without a free one nothing is written, and FR_OK is returned.
f_write(v, fil, r, value, c) ==
  LET to == IF fil.cluster = 0 THEN c ELSE fil.cluster
  IN CASE ~fil.open -> [vol |-> v, fil |-> fil, fr |-> "INVALID_OBJECT"]
       [] fil.open /\ ~fil.write -> [vol |-> v, fil |-> fil, fr |-> "DENIED"]
       [] fil.open /\ fil.write /\ to = 0 ->
            [vol |-> v, fil |-> [fil EXCEPT !.modified = TRUE], fr |-> "OK"]
       [] OTHER ->
            [vol |-> [v EXCEPT !.data[to][r] = value,
                               !.used = IF fil.cluster = 0 THEN @ \cup {to} ELSE @],
             fil |-> [fil EXCEPT !.cluster = to, !.modified = TRUE,
                                 !.size = IF r + 1 > @ THEN r + 1 ELSE @],
             fr |-> "OK"]
\* The cluster that a first write gets; 0 if the card is full.
Free(v) == IF Room(v) = {} THEN {0} ELSE Room(v)
=============================================================================
