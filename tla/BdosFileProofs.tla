--------------------------- MODULE BdosFileProofs ---------------------------
(***************************************************************************)
(* What the file calls of the BDOS promise, proved for any number of names,*)
(* slots, clusters and records: each call works on the file its FCB names, *)
(* though there is one FIL for all of them, until one is deleted or        *)
(* renamed while it is the open one.                                       *)
(***************************************************************************)
EXTENDS BdosFile, FiniteSetTheorems, WellFoundedInduction, TLAPS

----------------------------------------------------------------------------
\* The inductive invariant, of a card v, the open file fil and the name fn that
\* it was opened by.

\* An open file has a slot, of the name it was opened by.
OpenKnown(v, fil, fn) ==
  IF fil.open THEN fil.slot \in Slots /\ fn \in Names /\ v.slot[fil.slot].name = fn
  ELSE fil.slot = 0 /\ fil.cluster = 0 /\ fil.size = 0

\* Names are unique, and an empty slot has no cluster.
NamesKnown(v) ==
  /\ \A s, t \in Slots :
       v.slot[s].name = v.slot[t].name => s = t \/ v.slot[s].name = ""
  /\ \A s \in Slots : v.slot[s].name = "" => v.slot[s].cluster = 0

\* A cluster is in use just if it is of a slot or of the open file, and of one
\* slot only.
ClustersKnown(v, fil) ==
  /\ \A s, t \in Slots :
       v.slot[s].cluster = v.slot[t].cluster => s = t \/ v.slot[s].cluster = 0
  /\ \A c \in Clusters :
       c \in v.used <=> fil.cluster = c \/ \E s \in Slots : v.slot[s].cluster = c
  /\ \A s \in Slots :
       v.slot[s].cluster = fil.cluster => s = fil.slot \/ fil.cluster = 0

\* A file of some size has a cluster.
SizesKnown(v, fil) ==
  /\ \A s \in Slots : v.slot[s].cluster = 0 => v.slot[s].size = 0
  /\ fil.cluster = 0 => fil.size = 0

\* What the slot of the open file does not say yet, it will say when it is closed.
SlotKnown(v, fil) ==
  fil.open =>
    /\ fil.cluster # v.slot[fil.slot].cluster => fil.modified /\ v.slot[fil.slot].cluster = 0
    /\ fil.size # v.slot[fil.slot].size => fil.modified
    /\ v.slot[fil.slot].size <= fil.size

Good(v, fil, fn) ==
  /\ v \in Volumes /\ fil \in File
  /\ OpenKnown(v, fil, fn) /\ NamesKnown(v)
  /\ ClustersKnown(v, fil) /\ SizesKnown(v, fil) /\ SlotKnown(v, fil)

\* What done can say: a write, or a call that reports none.
Plain == {Looked} \cup {<<"make", n>> : n \in Names \cup {Wild}}
                  \cup {<<"delete", n>> : n \in Names \cup {Wild}}
                  \cup {<<"rename", n, m>> : n \in Names \cup {Wild}, m \in Names}
Writes == {<<"write", n, r, x>> : n \in Names, r \in Records, x \in Values}
Calls == Plain \cup Writes

TypeOK ==
  /\ vol \in Volumes
  /\ curfil \in File
  /\ curfn \in Names \cup {Wild, ""}
  /\ rdo \in BOOLEAN
  /\ done \in Calls
  /\ stray \in BOOLEAN

Inv == TypeOK /\ (~stray => Good(vol, curfil, curfn))
----------------------------------------------------------------------------
\* The sets that the constants stand for.

LEMMA SetsAre ==
  /\ Slots \subseteq Nat /\ 0 \notin Slots /\ 1 \in Slots
  /\ Clusters \subseteq Nat /\ 0 \notin Clusters /\ 1 \in Clusters
  /\ Records \subseteq Nat /\ Sizes \subseteq Nat /\ 0 \in Sizes /\ 1 \in Sizes
  /\ \A r \in Records : r + 1 \in Sizes
  /\ \A z \in Sizes : \A q \in 0 .. z - 1 : q \in Records
  /\ \A z \in Sizes, r \in Records : r < z => r \in 0 .. z - 1
  /\ "" \notin Names /\ Wild \notin Names
<1>1. PICK n \in Nat : Slots = 1 .. n
  BY VolumeAssumption, FS_CardinalityType
<1>2. PICK m \in Nat : Clusters = 1 .. m
  BY VolumeAssumption, FS_CardinalityType
<1>3. PICK k \in Nat : Records = 0 .. k - 1
  BY VolumeAssumption, FS_CardinalityType
<1>4. n > 0 /\ m > 0 /\ k > 0
  <2>1. Slots # {} /\ Clusters # {} /\ Records # {}
    BY VolumeAssumption
  <2> QED BY <1>1, <1>2, <1>3, <2>1
<1>5. Sizes = 0 .. k
  <2>1. \A r \in Records : r \in 0 .. k /\ r + 1 \in 0 .. k
    BY <1>3
  <2>2. \A z \in 0 .. k : z \in Records \/ (z - 1 \in Records /\ z = (z - 1) + 1)
    BY <1>3, <1>4
  <2> QED BY <2>1, <2>2 DEF Sizes
<1>6. /\ Slots \subseteq Nat /\ 0 \notin Slots /\ 1 \in Slots
      /\ Clusters \subseteq Nat /\ 0 \notin Clusters /\ 1 \in Clusters
  BY <1>1, <1>2, <1>4
<1>7. /\ Records \subseteq Nat /\ Sizes \subseteq Nat /\ 0 \in Sizes /\ 1 \in Sizes
      /\ \A r \in Records : r + 1 \in Sizes
      /\ \A z \in Sizes : \A q \in 0 .. z - 1 : q \in Records
      /\ \A z \in Sizes, r \in Records : r < z => r \in 0 .. z - 1
  BY <1>3, <1>4, <1>5
<1> QED BY <1>6, <1>7, VolumeAssumption

\* Every set of naturals has a least element, a set of slots a greatest.
Less == {p \in Nat \X Nat : p[1] < p[2]}
LEMMA LessIs == \A m, n \in Nat : <<m, n>> \in Less <=> m < n
BY Zenon DEF Less

LEMMA LessHasLeast == IsWellFoundedOn(Less, Nat)
BY NatLessThanWellFounded, Zenon DEF OpToRel, Less

LEMMA FirstIs ==
  ASSUME NEW S \in SUBSET Nat, S # {}
  PROVE  First(S) \in S /\ \A t \in S : First(S) <= t
<1>1. PICK s \in S : \A t \in S : <<t, s>> \notin Less
  BY LessHasLeast, WFMin
<1>2. \A t \in S : ~(t < s)
  BY <1>1, LessIs
<1>3. \A t \in S : s <= t
  BY <1>2
<1> QED BY <1>3 DEF First

LEMMA FinalIs ==
  ASSUME NEW S \in SUBSET Slots, S # {}
  PROVE  Final(S) \in S
<1>1. PICK n \in Nat : Slots = 1 .. n
  BY VolumeAssumption, FS_CardinalityType
<1> DEFINE T == {t \in Nat : \E s \in S : t = n - s}
<1>2. PICK t \in S : TRUE
  OBVIOUS
<1>3. n - t \in T
  BY <1>1
<1>4. T \in SUBSET Nat /\ T # {}
  BY <1>3
<1>5. First(T) \in T /\ \A u \in T : First(T) <= u
  <2> HIDE DEF T
  <2> QED BY <1>4, FirstIs
<1>6. PICK s \in S : First(T) = n - s
  BY <1>5
<1>7. ASSUME NEW u \in S
      PROVE  u <= s
  <2>1. n - u \in T
    BY <1>1
  <2>2. n - s <= n - u
    BY <1>5, <1>6, <2>1
  <2> QED BY <1>1, <2>2
<1> QED BY <1>7 DEF Final

----------------------------------------------------------------------------
\* Records of the card and what changing one of their fields does.

LEMMA EntryIs ==
  ASSUME NEW e \in Entry
  PROVE  /\ e.name \in Names \cup {""} /\ e.ro \in BOOLEAN /\ e.size \in Sizes
         /\ e.cluster \in Clusters \cup {0}
BY DEF Entry

LEMMA DeletedIs ==
  /\ Deleted \in Entry /\ Deleted.name = "" /\ Deleted.cluster = 0 /\ Deleted.size = 0
  /\ \A n \in Names : LET e == [Deleted EXCEPT !.name = n] IN
       e \in Entry /\ e.name = n /\ e.cluster = 0 /\ e.size = 0
BY SetsAre DEF Deleted, Entry

LEMMA ClosedIs ==
  /\ Closed \in File /\ ~Closed.open /\ Closed.slot = 0 /\ Closed.cluster = 0
  /\ Closed.size = 0
BY SetsAre DEF Closed, File

LEMMA Renamed ==
  ASSUME NEW e \in Entry, NEW n \in Names
  PROVE  LET f == [e EXCEPT !.name = n] IN
           f \in Entry /\ f.name = n /\ f.cluster = e.cluster /\ f.size = e.size
BY DEF Entry

LEMMA VolumeIs ==
  ASSUME NEW v \in Volumes
  PROVE  /\ v.slot \in [Slots -> Entry] /\ v.used \in SUBSET Clusters
         /\ v.data \in [Clusters -> [Records -> Values]]
BY DEF Volumes

LEMMA FileIs ==
  ASSUME NEW fil \in File
  PROVE  /\ fil.slot \in Slots \cup {0} /\ fil.cluster \in Clusters \cup {0}
         /\ fil.size \in Sizes /\ fil.open \in BOOLEAN
BY DEF File

LEMMA SlotSet ==
  ASSUME NEW v \in Volumes, NEW s \in Slots, NEW e \in Entry
  PROVE  LET w == [v EXCEPT !.slot[s] = e] IN
           /\ w \in Volumes /\ w.slot[s] = e
           /\ \A t \in Slots : t # s => w.slot[t] = v.slot[t]
           /\ w.used = v.used /\ w.data = v.data
BY DEF Volumes

LEMMA SlotsSet ==
  ASSUME NEW v \in Volumes, NEW slots \in [Slots -> Entry], NEW used \in SUBSET Clusters
  PROVE  LET w == [v EXCEPT !.slot = slots, !.used = used] IN
           /\ w \in Volumes /\ w.slot = slots /\ w.used = used /\ w.data = v.data
BY DEF Volumes

Stored(v, w, c, r, x, used) == w = [v EXCEPT !.data[c][r] = x, !.used = used]

LEMMA DataSet ==
  ASSUME NEW v \in Volumes, NEW c \in Clusters, NEW r \in Records, NEW x \in Values,
         NEW used \in SUBSET Clusters, NEW w, Stored(v, w, c, r, x, used)
  PROVE  /\ w \in Volumes /\ w.slot = v.slot /\ w.used = used
         /\ w.data = [v.data EXCEPT ![c] = [v.data[c] EXCEPT ![r] = x]]
<1> DEFINE nd == [v.data EXCEPT ![c] = [v.data[c] EXCEPT ![r] = x]]
<1>1. nd \in [Clusters -> [Records -> Values]]
  BY VolumeIs
<1>2. w = [v EXCEPT !.data = nd, !.used = used]
  BY DEF Volumes, Stored
<1> HIDE DEF nd
<1>3. w \in Volumes /\ w.slot = v.slot /\ w.used = used /\ w.data = nd
  BY <1>1, <1>2 DEF Volumes
<1> QED BY <1>3 DEF nd

----------------------------------------------------------------------------
\* What the calls of FatFs do to the files, as their user sees them.

\* Seen, for any card and open file.
Contents(v, c, size) ==
  [size |-> size,
   data |-> [r \in 0 .. size - 1 |-> IF c = 0 THEN 0 ELSE v.data[c][r]]]

Look(v, fil, s) ==
  IF fil.open /\ fil.slot = s THEN Contents(v, fil.cluster, fil.size)
  ELSE Contents(v, v.slot[s].cluster, v.slot[s].size)

LEMMA ContentsAre ==
  ASSUME NEW v, NEW c, NEW z
  PROVE  /\ Contents(v, c, z).size = z
         /\ c # 0 => \A q \in 0 .. z - 1 : Contents(v, c, z).data[q] = v.data[c][q]
BY DEF Contents

LEMMA ContentsSame ==
  ASSUME NEW v, NEW w, NEW c, NEW z, c = 0 \/ w.data[c] = v.data[c]
  PROVE  Contents(w, c, z) = Contents(v, c, z)
<1>1. CASE c = 0
  BY <1>1 DEF Contents
<1>2. CASE w.data[c] = v.data[c]
  BY <1>2 DEF Contents
<1> QED BY <1>1, <1>2

\* Every slot has the file it had, by the same name, but for those in S.
SameBut(S, v, fil, w, gil) ==
  \A s \in Slots \ S : w.slot[s].name = v.slot[s].name /\ Look(w, gil, s) = Look(v, fil, s)

\* A file of no records is added.
Added(v, fil, w, gil, n) ==
  /\ n \in Names /\ \A s \in Slots : v.slot[s].name # n
  /\ \E s \in Slots : /\ v.slot[s].name = "" /\ w.slot[s].name = n
                      /\ Look(w, gil, s).size = 0
                      /\ SameBut({s}, v, fil, w, gil)

LEMMA NamedSlot ==
  ASSUME NEW v, NamesKnown(v), NEW s \in Slots, v.slot[s].name \in Names
  PROVE  Exists(v, v.slot[s].name) /\ SlotOf(v, v.slot[s].name) = s
BY SetsAre DEF NamesKnown, Exists, SlotsOf, SlotOf

LEMMA SlotOfIs ==
  ASSUME NEW v, NEW n, Exists(v, n)
  PROVE  n \in Names /\ SlotOf(v, n) \in Slots /\ v.slot[SlotOf(v, n)].name = n
<1>1. n \in Names /\ \E s \in Slots : v.slot[s].name = n
  BY DEF Exists, SlotsOf
<1> QED BY <1>1 DEF SlotOf

LEMMA NoSlot ==
  ASSUME NEW v, NEW n \in Names, ~Exists(v, n)
  PROVE  \A s \in Slots : v.slot[s].name # n
BY DEF Exists, SlotsOf

LEMMA EmptySlot ==
  ASSUME NEW v, SlotsOf(v, "") # {}
  PROVE  LET s == First(SlotsOf(v, "")) IN s \in Slots /\ v.slot[s].name = ""
<1>1. SlotsOf(v, "") \in SUBSET Nat /\ SlotsOf(v, "") \subseteq Slots
  BY SetsAre DEF SlotsOf
<1>2. First(SlotsOf(v, "")) \in SlotsOf(v, "")
  BY <1>1, FirstIs
<1> QED BY <1>2 DEF SlotsOf

\* f_close says in the slot what the file object knew, and changes no file.
LEMMA CloseDoes ==
  ASSUME NEW v, NEW fil, NEW fn, Good(v, fil, fn), NEW w, w = f_close(v, fil)
  PROVE  /\ w \in Volumes /\ w.used = v.used /\ w.data = v.data
         /\ \A s \in Slots : w.slot[s].name = v.slot[s].name
         /\ \A s \in Slots : ~(fil.open /\ fil.slot = s) => w.slot[s] = v.slot[s]
         /\ fil.open => /\ w.slot[fil.slot].cluster = fil.cluster
                        /\ w.slot[fil.slot].size = fil.size
<1>1. v \in Volumes /\ fil \in File
  BY DEF Good
<1>2. CASE ~fil.open
  BY <1>1, <1>2 DEF f_close
<1>3. CASE fil.open
  <2>1. fil.slot \in Slots /\ fil.size \in Sizes /\ fil.cluster \in Clusters \cup {0}
    BY <1>1, <1>3, FileIs DEF Good, OpenKnown
  <2>2. v.slot[fil.slot].name # ""
    BY <1>3, SetsAre DEF Good, OpenKnown
  <2>3. v.slot[fil.slot] \in Entry
    BY <1>1, <2>1, VolumeIs
  <2>4. CASE fil.modified
    <3> DEFINE e == [v.slot[fil.slot] EXCEPT !.size = fil.size, !.cluster = fil.cluster]
    <3>1. e \in Entry /\ e.name = v.slot[fil.slot].name /\ e.cluster = fil.cluster /\ e.size = fil.size
      <4> DEFINE old == v.slot[fil.slot]
      <4>1. old \in Entry /\ e = [old EXCEPT !.size = fil.size, !.cluster = fil.cluster]
        BY <2>3
      <4> HIDE DEF old, e
      <4>2. e \in Entry /\ e.name = old.name /\ e.cluster = fil.cluster /\ e.size = fil.size
        BY <2>1, <4>1 DEF Entry
      <4> QED BY <4>2 DEF old
    <3>2. w = [v EXCEPT !.slot[fil.slot].size = fil.size, !.slot[fil.slot].cluster = fil.cluster]
      BY <1>3, <2>2, <2>4 DEF f_close
    <3>3. w = [v EXCEPT !.slot[fil.slot] = e]
      BY <1>1, <2>1, <2>3, <3>2 DEF Volumes, Entry
    <3> HIDE DEF e
    <3>4. /\ w \in Volumes /\ w.slot[fil.slot] = e
          /\ \A t \in Slots : t # fil.slot => w.slot[t] = v.slot[t]
          /\ w.used = v.used /\ w.data = v.data
      BY <1>1, <2>1, <3>1, <3>3, SlotSet
    <3> QED BY <1>3, <3>1, <3>4
  <2>5. CASE ~fil.modified
    <3>1. w = v
      BY <2>5 DEF f_close
    <3>2. fil.cluster = v.slot[fil.slot].cluster /\ fil.size = v.slot[fil.slot].size
      BY <1>3, <2>5 DEF Good, SlotKnown
    <3> QED BY <1>1, <3>1, <3>2
  <2> QED BY <2>4, <2>5
<1> QED BY <1>2, <1>3

LEMMA CloseGood ==
  ASSUME NEW v, NEW fil, NEW fn, Good(v, fil, fn), NEW fm
  PROVE  LET w == f_close(v, fil) IN
           Good(w, Closed, fm) /\ SameBut({}, v, fil, w, Closed)
<1> DEFINE w == f_close(v, fil)
<1> HIDE DEF w
<1>1. /\ w \in Volumes /\ w.used = v.used /\ w.data = v.data
      /\ \A s \in Slots : w.slot[s].name = v.slot[s].name
      /\ \A s \in Slots : ~(fil.open /\ fil.slot = s) => w.slot[s] = v.slot[s]
      /\ fil.open => /\ w.slot[fil.slot].cluster = fil.cluster
                     /\ w.slot[fil.slot].size = fil.size
  BY CloseDoes DEF w
<1>2. /\ v \in Volumes /\ fil \in File /\ OpenKnown(v, fil, fn) /\ NamesKnown(v)
      /\ ClustersKnown(v, fil) /\ SizesKnown(v, fil) /\ SlotKnown(v, fil)
  BY DEF Good
<1>3. fil.open => fil.slot \in Slots /\ fn \in Names /\ v.slot[fil.slot].name = fn
  BY <1>2 DEF OpenKnown
<1>4. ~fil.open => fil.slot = 0 /\ fil.cluster = 0 /\ fil.size = 0
  BY <1>2 DEF OpenKnown
<1>5. \A s \in Slots : /\ v.slot[s].cluster \in Clusters \cup {0}
                       /\ w.slot[s].cluster \in Clusters \cup {0}
  BY <1>1, <1>2, VolumeIs, EntryIs
<1>6. OpenKnown(w, Closed, fm)
  BY ClosedIs DEF OpenKnown
<1>7. NamesKnown(w)
  <2>1. ASSUME NEW s \in Slots, w.slot[s].name = ""
        PROVE  w.slot[s].cluster = 0
    <3>1. v.slot[s].name = ""
      BY <1>1, <2>1
    <3>2. ~(fil.open /\ fil.slot = s)
      BY <1>3, <3>1, SetsAre
    <3>3. v.slot[s].cluster = 0
      BY <1>2, <3>1 DEF NamesKnown
    <3> QED BY <1>1, <3>2, <3>3
  <2>2. ASSUME NEW s \in Slots, NEW t \in Slots, w.slot[s].name = w.slot[t].name
        PROVE  s = t \/ w.slot[s].name = ""
    <3>1. v.slot[s].name = v.slot[t].name /\ w.slot[s].name = v.slot[s].name
      BY <1>1, <2>2
    <3> QED BY <1>2, <3>1 DEF NamesKnown
  <2> QED BY <2>1, <2>2 DEF NamesKnown
<1>8. ClustersKnown(w, Closed)
  <2>1. ASSUME NEW s \in Slots, NEW t \in Slots, w.slot[s].cluster = w.slot[t].cluster
        PROVE  s = t \/ w.slot[s].cluster = 0
    BY <1>1, <1>2, <1>3, <2>1 DEF ClustersKnown
  <2>2. ASSUME NEW c \in Clusters
        PROVE  c \in w.used <=> \E s \in Slots : w.slot[s].cluster = c
    <3>1. c # 0
      BY SetsAre
    <3>2. c \in v.used <=> fil.cluster = c \/ \E s \in Slots : v.slot[s].cluster = c
      BY <1>2 DEF ClustersKnown
    <3>3. ASSUME NEW s \in Slots, w.slot[s].cluster = c
          PROVE  fil.cluster = c \/ \E t \in Slots : v.slot[t].cluster = c
      BY <1>1, <3>3
    <3>4. ASSUME NEW s \in Slots, v.slot[s].cluster = c
          PROVE  \E t \in Slots : w.slot[t].cluster = c
      <4>1. CASE fil.open /\ fil.slot = s
        BY <1>1, <1>2, <3>1, <3>4, <4>1 DEF SlotKnown
      <4>2. CASE ~(fil.open /\ fil.slot = s)
        BY <1>1, <3>4, <4>2
      <4> QED BY <4>1, <4>2
    <3>5. ASSUME fil.cluster = c
          PROVE  \E t \in Slots : w.slot[t].cluster = c
      BY <1>1, <1>3, <1>4, <3>1, <3>5
    <3> QED BY <1>1, <3>2, <3>3, <3>4, <3>5
  <2>3. Closed.cluster = 0
    BY ClosedIs
  <2>4. \A c \in Clusters : c # 0
    BY SetsAre
  <2> QED BY <2>1, <2>2, <2>3, <2>4 DEF ClustersKnown
<1>9. SizesKnown(w, Closed)
  <2>1. ASSUME NEW s \in Slots, w.slot[s].cluster = 0
        PROVE  w.slot[s].size = 0
    BY <1>1, <1>2, <2>1 DEF SizesKnown
  <2> QED BY <2>1, ClosedIs DEF SizesKnown
<1>10. SlotKnown(w, Closed)
  BY ClosedIs DEF SlotKnown
<1>11. SameBut({}, v, fil, w, Closed)
  <2> SUFFICES ASSUME NEW s \in Slots
               PROVE  Look(w, Closed, s) = Look(v, fil, s)
    BY <1>1 DEF SameBut
  <2>1. ~Closed.open
    BY ClosedIs
  <2>2. CASE fil.open /\ fil.slot = s
    <3>1. /\ Look(v, fil, s) = Contents(v, fil.cluster, fil.size)
          /\ Look(w, Closed, s) = Contents(w, fil.cluster, fil.size)
      BY <1>1, <2>1, <2>2 DEF Look
    <3> QED BY <1>1, <3>1, ContentsSame
  <2>3. CASE ~(fil.open /\ fil.slot = s)
    <3>1. /\ Look(v, fil, s) = Contents(v, v.slot[s].cluster, v.slot[s].size)
          /\ Look(w, Closed, s) = Contents(w, v.slot[s].cluster, v.slot[s].size)
      BY <1>1, <2>1, <2>3 DEF Look
    <3> QED BY <1>1, <3>1, ContentsSame
  <2> QED BY <2>2, <2>3
<1>12. Good(w, Closed, fm)
  BY <1>1, <1>6, <1>7, <1>8, <1>9, <1>10, ClosedIs DEF Good
<1> QED BY <1>11, <1>12 DEF w

LEMMA FileOf ==
  ASSUME NEW s \in Slots, NEW c \in Clusters \cup {0}, NEW z \in Sizes,
         NEW write \in BOOLEAN, NEW modified \in BOOLEAN
  PROVE  LET f == [open |-> TRUE, slot |-> s, cluster |-> c, size |-> z,
                   write |-> write, modified |-> modified] IN
           /\ f \in File /\ f.open /\ f.slot = s /\ f.cluster = c /\ f.size = z
           /\ f.modified = modified
BY Zenon DEF File

\* f_open finds a file, or makes one in an empty slot, or refuses.
Finds(v, n, w, gil) ==
  \E s \in Slots :
    /\ n \in Names /\ v.slot[s].name = n /\ w = v /\ gil \in File
    /\ gil.open /\ gil.slot = s /\ gil.cluster = v.slot[s].cluster
    /\ gil.size = v.slot[s].size

Makes(v, n, w, gil) ==
  \E s \in Slots, e \in Entry :
    /\ n \in Names /\ v.slot[s].name = "" /\ \A t \in Slots : v.slot[t].name # n
    /\ w = [v EXCEPT !.slot[s] = e]
    /\ e.name = n /\ e.cluster = 0 /\ e.size = 0
    /\ gil \in File /\ gil.open /\ gil.slot = s /\ gil.cluster = 0 /\ gil.size = 0
    /\ gil.modified

LEMMA OpenDoes ==
  ASSUME NEW v \in Volumes, NEW n, NEW write \in BOOLEAN, NEW new \in BOOLEAN,
         NEW w, NEW gil, w = f_open(v, n, write, new).vol, gil = f_open(v, n, write, new).fil
  PROVE  \/ w = v /\ gil = Closed
         \/ Finds(v, n, w, gil)
         \/ new /\ Makes(v, n, w, gil)
<1>1. CASE n \notin Names
  BY <1>1 DEF f_open, Refused
<1>2. CASE n \in Names /\ new /\ (Exists(v, n) \/ SlotsOf(v, "") = {})
  BY <1>2 DEF f_open, Refused
<1>3. CASE n \in Names /\ new /\ ~Exists(v, n) /\ SlotsOf(v, "") # {}
  <2> DEFINE s == First(SlotsOf(v, ""))
             e == [Deleted EXCEPT !.name = n]
             f == [open |-> TRUE, slot |-> s, cluster |-> 0, size |-> 0,
                   write |-> write, modified |-> TRUE]
  <2>1. w = [v EXCEPT !.slot[s] = e] /\ gil = f
    BY <1>3 DEF f_open
  <2>2. s \in Slots /\ v.slot[s].name = ""
    BY <1>3, EmptySlot
  <2>3. e \in Entry /\ e.name = n /\ e.cluster = 0 /\ e.size = 0
    BY <1>3, DeletedIs
  <2> HIDE DEF s, e
  <2>4. f \in File /\ f.open /\ f.slot = s /\ f.cluster = 0 /\ f.size = 0 /\ f.modified = TRUE
    <3>1. 0 \in Sizes /\ 0 \in Clusters \cup {0}
      BY SetsAre
    <3> QED BY <2>2, <3>1, FileOf, Zenon
  <2> HIDE DEF f
  <2>5. \A t \in Slots : v.slot[t].name # n
    BY <1>3, NoSlot
  <2>6. Makes(v, n, w, gil)
    BY <1>3, <2>1, <2>2, <2>3, <2>4, <2>5, Zenon DEF Makes
  <2> QED BY <1>3, <2>6
<1>4. CASE n \in Names /\ ~new /\ ~Exists(v, n)
  BY <1>4 DEF f_open, Refused
<1>5. CASE n \in Names /\ ~new /\ Exists(v, n) /\ write /\ v.slot[SlotOf(v, n)].ro
  BY <1>5 DEF f_open, Refused
<1>6. CASE n \in Names /\ ~new /\ Exists(v, n) /\ ~(write /\ v.slot[SlotOf(v, n)].ro)
  <2> DEFINE s == SlotOf(v, n)
             f == [open |-> TRUE, slot |-> s, cluster |-> v.slot[s].cluster,
                   size |-> v.slot[s].size, write |-> write, modified |-> FALSE]
  <2>1. w = v /\ gil = f
    BY <1>6 DEF f_open
  <2>2. n \in Names /\ s \in Slots /\ v.slot[s].name = n
    BY <1>6, SlotOfIs
  <2>3. v.slot[s].cluster \in Clusters \cup {0} /\ v.slot[s].size \in Sizes
    BY <2>2, VolumeIs, EntryIs
  <2> HIDE DEF s
  <2>4. f \in File /\ f.open /\ f.slot = s /\ f.cluster = v.slot[s].cluster /\ f.size = v.slot[s].size
    BY <2>2, <2>3, FileOf, Zenon
  <2> HIDE DEF f
  <2>5. Finds(v, n, w, gil)
    BY <2>1, <2>2, <2>4, Zenon DEF Finds
  <2> QED BY <2>5
<1> QED BY <1>1, <1>2, <1>3, <1>4, <1>5, <1>6

LEMMA OpenGood ==
  ASSUME NEW v, NEW fn, Good(v, Closed, fn), NEW n,
         NEW write \in BOOLEAN, NEW new \in BOOLEAN,
         NEW w, NEW gil, w = f_open(v, n, write, new).vol, gil = f_open(v, n, write, new).fil
  PROVE  /\ Good(w, gil, n)
         /\ SameBut({}, v, Closed, w, gil) \/ (new /\ Added(v, Closed, w, gil, n))
<1>1. (w = v /\ gil = Closed) \/ Finds(v, n, w, gil) \/ (new /\ Makes(v, n, w, gil))
  BY OpenDoes DEF Good
<1>2. /\ v \in Volumes /\ NamesKnown(v)
      /\ ClustersKnown(v, Closed) /\ SizesKnown(v, Closed)
  BY DEF Good
<1>3. \A i \in Slots : v.slot[i] \in Entry
  BY <1>2, VolumeIs
<1>4. ~Closed.open /\ Closed.slot = 0 /\ Closed.cluster = 0 /\ Closed.size = 0
  BY ClosedIs
<1>0. \A c \in Clusters : c # 0
  BY SetsAre
<1>5. CASE w = v /\ gil = Closed
  <2>1. OpenKnown(v, Closed, n)
    BY <1>4 DEF OpenKnown
  <2>2. SameBut({}, v, Closed, v, Closed)
    BY DEF SameBut
  <2> QED BY <1>5, <2>1, <2>2 DEF Good
<1>6. CASE Finds(v, n, w, gil)
  <2>1. PICK s \in Slots :
          /\ n \in Names /\ v.slot[s].name = n /\ w = v /\ gil \in File
          /\ gil.open /\ gil.slot = s /\ gil.cluster = v.slot[s].cluster
          /\ gil.size = v.slot[s].size
    BY <1>6 DEF Finds
  <2>5. OpenKnown(v, gil, n)
    BY <2>1 DEF OpenKnown
  <2>6. ClustersKnown(v, gil)
    BY <1>0, <1>2, <1>4, <2>1 DEF ClustersKnown
  <2>7. SizesKnown(v, gil)
    BY <1>2, <2>1 DEF SizesKnown
  <2>8. SlotKnown(v, gil)
    <3>1. v.slot[s].size \in Nat
      BY <1>3, EntryIs, SetsAre
    <3> QED BY <2>1, <3>1 DEF SlotKnown
  <2>9. SameBut({}, v, Closed, v, gil)
    BY <1>4, <2>1 DEF SameBut, Look
  <2>10. Good(w, gil, n)
    BY <1>2, <2>1, <2>5, <2>6, <2>7, <2>8 DEF Good
  <2> QED BY <2>1, <2>9, <2>10
<1>7. CASE new /\ Makes(v, n, w, gil)
  <2>1. PICK t \in Slots, e \in Entry :
          /\ n \in Names /\ v.slot[t].name = "" /\ \A i \in Slots : v.slot[i].name # n
          /\ w = [v EXCEPT !.slot[t] = e]
          /\ e.name = n /\ e.cluster = 0 /\ e.size = 0
          /\ gil \in File /\ gil.open /\ gil.slot = t /\ gil.cluster = 0 /\ gil.size = 0
          /\ gil.modified
    BY <1>7, Zenon DEF Makes
  <2>2. v.slot[t].cluster = 0 /\ n # ""
    BY <1>2, <2>1, SetsAre DEF NamesKnown
  <2>3. /\ w \in Volumes /\ w.slot[t] = e
        /\ \A i \in Slots : i # t => w.slot[i] = v.slot[i]
        /\ w.used = v.used /\ w.data = v.data
    <3>1. t \in Slots /\ e \in Entry /\ w = [v EXCEPT !.slot[t] = e]
      BY <2>1, Zenon
    <3> QED BY <1>2, <3>1, SlotSet
  <2>4. /\ gil \in File /\ gil.open /\ gil.slot = t /\ gil.cluster = 0 /\ gil.size = 0
        /\ gil.modified
    BY <2>1, Zenon
  <2>5. /\ w.slot[t].name = n /\ w.slot[t].cluster = 0 /\ w.slot[t].size = 0
        /\ n \in Names /\ v.slot[t].name = "" /\ \A i \in Slots : v.slot[i].name # n
    BY <2>1, <2>3, Zenon
  <2>8. OpenKnown(w, gil, n)
    BY <2>4, <2>5 DEF OpenKnown
  <2>9. NamesKnown(w)
    <3>1. ASSUME NEW i \in Slots, w.slot[i].name = ""
          PROVE  w.slot[i].cluster = 0
      BY <1>2, <2>3, <2>5, <3>1 DEF NamesKnown
    <3>2. ASSUME NEW i \in Slots, NEW j \in Slots, w.slot[i].name = w.slot[j].name
          PROVE  i = j \/ w.slot[i].name = ""
      <4>1. CASE i = t \/ j = t
        BY <2>3, <2>5, <3>2, <4>1
      <4>2. CASE i # t /\ j # t
        BY <1>2, <2>3, <3>2, <4>2 DEF NamesKnown
      <4> QED BY <4>1, <4>2
    <3> QED BY <3>1, <3>2 DEF NamesKnown
  <2>10. ClustersKnown(w, gil)
    <3>1. \A i \in Slots : w.slot[i].cluster = v.slot[i].cluster
      BY <2>2, <2>3, <2>5
    <3> QED BY <1>0, <1>2, <1>4, <2>3, <2>4, <3>1 DEF ClustersKnown
  <2>11. SizesKnown(w, gil)
    BY <1>2, <2>3, <2>4, <2>5 DEF SizesKnown
  <2>12. SlotKnown(w, gil)
    <3>1. w.slot[gil.slot].size = 0 /\ w.slot[gil.slot].cluster = 0
      BY <2>4, <2>5
    <3>2. w.slot[gil.slot].size <= gil.size
      BY <2>4, <3>1
    <3> QED BY <2>4, <3>1, <3>2, Zenon DEF SlotKnown
  <2>13. Good(w, gil, n)
    BY <2>3, <2>4, <2>8, <2>9, <2>10, <2>11, <2>12 DEF Good
  <2>14. SameBut({t}, v, Closed, w, gil)
    <3> SUFFICES ASSUME NEW i \in Slots, i # t
                 PROVE  w.slot[i].name = v.slot[i].name /\ Look(w, gil, i) = Look(v, Closed, i)
      BY DEF SameBut
    <3>1. /\ Look(v, Closed, i) = Contents(v, v.slot[i].cluster, v.slot[i].size)
          /\ Look(w, gil, i) = Contents(w, v.slot[i].cluster, v.slot[i].size)
      BY <1>4, <2>3, <2>4 DEF Look
    <3> QED BY <2>3, <3>1, ContentsSame
  <2>15. Look(w, gil, t).size = 0
    BY <2>4, ContentsAre DEF Look
  <2>16. Added(v, Closed, w, gil, n)
    BY <2>5, <2>14, <2>15 DEF Added
  <2> QED BY <1>7, <2>13, <2>16
<1> QED BY <1>1, <1>5, <1>6, <1>7

\* A record of the file of name n is written.
Written(v, fil, w, gil, n, r, x) ==
  \E s \in Slots :
    /\ v.slot[s].name = n /\ w.slot[s].name = n
    /\ Look(w, gil, s).size =
         IF r + 1 > Look(v, fil, s).size THEN r + 1 ELSE Look(v, fil, s).size
    /\ Look(w, gil, s).data[r] = x
    /\ \A q \in 0 .. Look(v, fil, s).size - 1 :
         q # r => Look(w, gil, s).data[q] = Look(v, fil, s).data[q]
    /\ SameBut({s}, v, fil, w, gil)

\* What f_write does when it writes, to cluster `to`.
Goes(fil, c, to) == to = IF fil.cluster = 0 THEN c ELSE fil.cluster

Marks(fil, gil) == fil.open /\ gil = [fil EXCEPT !.modified = TRUE]

Puts(v, fil, w, gil, to, r, x) ==
  /\ fil.open
  /\ w = [v EXCEPT !.data[to][r] = x,
                   !.used = IF fil.cluster = 0 THEN @ \cup {to} ELSE @]
  /\ gil = [fil EXCEPT !.cluster = to, !.modified = TRUE,
                       !.size = IF r + 1 > @ THEN r + 1 ELSE @]

LEMMA WriteDoes ==
  ASSUME NEW v \in Volumes, NEW fil \in File, NEW r \in Records, NEW x \in Values,
         NEW c, NEW o, o = f_write(v, fil, r, x, c), NEW to, Goes(fil, c, to)
  PROVE  \/ o.vol = v /\ o.fil = fil /\ o.fr # "OK"
         \/ to = 0 /\ o.vol = v /\ Marks(fil, o.fil)
         \/ to # 0 /\ Puts(v, fil, o.vol, o.fil, to, r, x) /\ o.fr = "OK"
<1>1. CASE ~fil.open
  BY <1>1 DEF f_write
<1>2. CASE fil.open /\ ~fil.write
  BY <1>2 DEF f_write
<1>3. CASE fil.open /\ fil.write /\ to = 0
  BY <1>3 DEF f_write, Goes, Marks
<1>4. CASE fil.open /\ fil.write /\ to # 0
  BY <1>4 DEF f_write, Goes, Puts
<1> QED BY <1>1, <1>2, <1>3, <1>4

LEMMA MarkedOnly ==
  ASSUME NEW fil \in File, NEW gil, Marks(fil, gil)
  PROVE  /\ gil \in File /\ gil.open = fil.open /\ gil.slot = fil.slot
         /\ gil.cluster = fil.cluster /\ gil.size = fil.size /\ gil.modified = TRUE
BY DEF File, Marks

\* Marking the open file changes no file.
LEMMA MarkGood ==
  ASSUME NEW v, NEW fil, NEW fn, Good(v, fil, fn), NEW gil, Marks(fil, gil)
  PROVE  Good(v, gil, fn) /\ SameBut({}, v, fil, v, gil)
<1>1. /\ v \in Volumes /\ fil \in File /\ OpenKnown(v, fil, fn) /\ NamesKnown(v)
      /\ ClustersKnown(v, fil) /\ SizesKnown(v, fil) /\ SlotKnown(v, fil)
  BY DEF Good
<1>2. /\ gil \in File /\ gil.open = fil.open /\ gil.slot = fil.slot
      /\ gil.cluster = fil.cluster /\ gil.size = fil.size /\ gil.modified = TRUE
  BY <1>1, MarkedOnly
<1>3. OpenKnown(v, gil, fn)
  BY <1>1, <1>2 DEF OpenKnown
<1>4. ClustersKnown(v, gil)
  BY <1>1, <1>2 DEF ClustersKnown
<1>5. SizesKnown(v, gil)
  BY <1>1, <1>2 DEF SizesKnown
<1>6. SlotKnown(v, gil)
  BY <1>1, <1>2 DEF SlotKnown
<1>7. SameBut({}, v, fil, v, gil)
  BY <1>2 DEF SameBut, Look
<1> QED BY <1>1, <1>2, <1>3, <1>4, <1>5, <1>6, <1>7 DEF Good

\* Where a write goes: a cluster of the open file's own, or a free one.
LEMMA Target ==
  ASSUME NEW v, NEW fil, NEW fn, Good(v, fil, fn), NEW c \in Free(v),
         NEW to, Goes(fil, c, to), to # 0
  PROVE  /\ to \in Clusters
         /\ fil.cluster # 0 => to = fil.cluster
         /\ fil.cluster = 0 => to \notin v.used
         /\ \A s \in Slots : v.slot[s].cluster = to => s = fil.slot /\ fil.cluster # 0
<1>1. fil.cluster \in Clusters \cup {0} /\ ClustersKnown(v, fil)
  BY FileIs DEF Good
<1>2. CASE fil.cluster = 0
  <2>1. to \in Clusters /\ to \notin v.used
    BY <1>2 DEF Free, Room, Goes
  <2> QED BY <1>1, <1>2, <2>1 DEF ClustersKnown
<1>3. CASE fil.cluster # 0
  BY <1>1, <1>3 DEF ClustersKnown, Goes
<1> QED BY <1>2, <1>3

LEMMA PutGood ==
  ASSUME NEW v, NEW fil, NEW n, Good(v, fil, n),
         NEW r \in Records, NEW x \in Values, NEW c \in Free(v),
         NEW to, Goes(fil, c, to), to # 0,
         NEW w, NEW gil, Puts(v, fil, w, gil, to, r, x)
  PROVE  Good(w, gil, n) /\ Written(v, fil, w, gil, n, r, x)
<1>1. /\ v \in Volumes /\ fil \in File /\ OpenKnown(v, fil, n) /\ NamesKnown(v)
      /\ ClustersKnown(v, fil) /\ SizesKnown(v, fil) /\ SlotKnown(v, fil)
  BY DEF Good
<1>2. /\ to \in Clusters
      /\ fil.cluster # 0 => to = fil.cluster
      /\ fil.cluster = 0 => to \notin v.used
      /\ \A s \in Slots : v.slot[s].cluster = to => s = fil.slot /\ fil.cluster # 0
  BY Target
<1> DEFINE z == IF r + 1 > fil.size THEN r + 1 ELSE fil.size
<1>3. /\ z \in Sizes /\ fil.size \in Sizes /\ fil.size \in Nat /\ r \in Nat
      /\ z \in Nat /\ r < z /\ fil.size <= z
  <2>1. /\ fil.size \in Sizes /\ fil.size \in Nat /\ r \in Nat
        /\ r + 1 \in Sizes
    BY <1>1, FileIs, SetsAre
  <2>2. CASE r + 1 > fil.size
    BY <2>1, <2>2
  <2>3. CASE ~(r + 1 > fil.size)
    BY <2>1, <2>3
  <2> QED BY <2>2, <2>3
<1> DEFINE used == IF fil.cluster = 0 THEN v.used \cup {to} ELSE v.used
<1>4. used \in SUBSET Clusters
  BY <1>1, <1>2, VolumeIs
<1>5. /\ w \in Volumes /\ w.slot = v.slot /\ w.used = used
      /\ \A d \in Clusters : d # to => w.data[d] = v.data[d]
      /\ w.data[to][r] = x
      /\ \A q \in Records : q # r => w.data[to][q] = v.data[to][q]
  <2>1. Stored(v, w, to, r, x, used)
    BY <1>1 DEF Volumes, Puts, Stored
  <2> HIDE DEF used
  <2>2. v \in Volumes /\ to \in Clusters
    BY <1>1, <1>2
  <2>3. /\ w \in Volumes /\ w.slot = v.slot /\ w.used = used
        /\ w.data = [v.data EXCEPT ![to] = [v.data[to] EXCEPT ![r] = x]]
    BY <1>4, <2>1, <2>2, DataSet
  <2>4. v.data \in [Clusters -> [Records -> Values]]
    BY <1>1, VolumeIs
  <2> QED BY <2>2, <2>3, <2>4
<1>6. /\ gil \in File /\ gil.open /\ gil.slot = fil.slot
      /\ gil.cluster = to /\ gil.size = z /\ gil.modified
  <2>1. gil = [fil EXCEPT !.cluster = to, !.modified = TRUE, !.size = z]
    BY <1>1 DEF File, Puts
  <2>2. to \in Clusters \cup {0} /\ z \in Sizes
    BY <1>2, <1>3
  <2> HIDE DEF z
  <2>3. /\ gil \in File /\ gil.open = fil.open /\ gil.slot = fil.slot
        /\ gil.cluster = to /\ gil.size = z /\ gil.modified = TRUE
    BY <1>1, <2>1, <2>2 DEF File
  <2> QED BY <2>3 DEF Puts
<1> HIDE DEF z
<1>7. fil.slot \in Slots /\ n \in Names /\ v.slot[fil.slot].name = n
  BY <1>1 DEF OpenKnown, Puts
<1>8. \A d \in Clusters : d # 0
  BY SetsAre
<1>9. OpenKnown(w, gil, n)
  BY <1>5, <1>6, <1>7 DEF OpenKnown
<1>10. NamesKnown(w)
  <2>1. w.slot = v.slot
    BY <1>5
  <2> QED BY <1>1, <2>1 DEF NamesKnown
<1>11. ClustersKnown(w, gil)
  <2>1. \A s, t \in Slots :
          v.slot[s].cluster = v.slot[t].cluster => s = t \/ v.slot[s].cluster = 0
    BY <1>1 DEF ClustersKnown
  <2>2. ASSUME NEW d \in Clusters
        PROVE  d \in w.used <=> to = d \/ \E s \in Slots : v.slot[s].cluster = d
    <3>1. d \in v.used <=> fil.cluster = d \/ \E s \in Slots : v.slot[s].cluster = d
      BY <1>1 DEF ClustersKnown
    <3> QED BY <1>2, <1>5, <1>8, <3>1
  <2>3. \A s \in Slots : v.slot[s].cluster = to => s = gil.slot
    BY <1>2, <1>6
  <2> QED BY <1>5, <1>6, <2>1, <2>2, <2>3 DEF ClustersKnown
<1>12. SizesKnown(w, gil)
  BY <1>1, <1>5, <1>6, <1>2, <1>8 DEF SizesKnown
<1>13. SlotKnown(w, gil)
  <2>1. v.slot[fil.slot].cluster # to => v.slot[fil.slot].cluster = 0
    <3>1. v.slot[fil.slot].cluster \in Clusters \cup {0}
      BY <1>1, <1>7, VolumeIs, EntryIs
    <3>2. fil.cluster # v.slot[fil.slot].cluster => v.slot[fil.slot].cluster = 0
      BY <1>1 DEF SlotKnown, Puts
    <3> QED BY <1>2, <3>1, <3>2
  <2>2. v.slot[fil.slot].size <= z
    <3>1. v.slot[fil.slot].size \in Nat
      BY <1>1, <1>7, VolumeIs, EntryIs, SetsAre
    <3>2. v.slot[fil.slot].size <= fil.size
      BY <1>1 DEF SlotKnown, Puts
    <3> QED BY <1>3, <3>1, <3>2
  <2> QED BY <1>5, <1>6, <2>1, <2>2 DEF SlotKnown
<1>14. Good(w, gil, n)
  BY <1>5, <1>6, <1>9, <1>10, <1>11, <1>12, <1>13 DEF Good
<1> DEFINE s == fil.slot
<1>15. /\ Look(v, fil, s) = Contents(v, fil.cluster, fil.size)
       /\ Look(w, gil, s) = Contents(w, to, z)
  BY <1>6 DEF Look, Puts
<1>20. /\ Look(v, fil, s).size = fil.size /\ Look(w, gil, s).size = z
       /\ \A q \in 0 .. z - 1 : Look(w, gil, s).data[q] = w.data[to][q]
       /\ fil.cluster # 0 =>
            \A q \in 0 .. fil.size - 1 : Look(v, fil, s).data[q] = v.data[fil.cluster][q]
  <2>1. to # 0
    BY <1>2, <1>8
  <2> HIDE DEF s
  <2> QED BY <1>15, <2>1, ContentsAre
<1> HIDE DEF s
<1>16. Look(w, gil, s).data[r] = x
  <2>1. r \in 0 .. z - 1
    BY <1>3
  <2> QED BY <1>5, <1>20, <2>1
<1>17. ASSUME NEW q \in 0 .. fil.size - 1, q # r
       PROVE  Look(w, gil, s).data[q] = Look(v, fil, s).data[q]
  <2>1. q \in 0 .. z - 1 /\ q \in Records
    <3>1. q \in 0 .. z - 1
      BY <1>3
    <3> QED BY <1>3, <3>1, SetsAre
  <2>2. fil.cluster # 0
    BY <1>1, <1>3 DEF SizesKnown
  <2>3. w.data[to][q] = v.data[to][q] /\ to = fil.cluster
    BY <1>2, <1>5, <1>17, <2>1, <2>2
  <2> QED BY <1>17, <1>20, <2>1, <2>2, <2>3
<1>18. SameBut({s}, v, fil, w, gil)
  <2> SUFFICES ASSUME NEW t \in Slots, t # fil.slot
               PROVE  w.slot[t].name = v.slot[t].name /\ Look(w, gil, t) = Look(v, fil, t)
    BY DEF SameBut, s
  <2>1. v.slot[t].cluster # to /\ v.slot[t].cluster \in Clusters \cup {0}
    BY <1>1, <1>2, VolumeIs, EntryIs
  <2>2. v.slot[t].cluster # 0 => w.data[v.slot[t].cluster] = v.data[v.slot[t].cluster]
    BY <1>5, <2>1
  <2>3. /\ Look(w, gil, t) = Contents(w, v.slot[t].cluster, v.slot[t].size)
        /\ Look(v, fil, t) = Contents(v, v.slot[t].cluster, v.slot[t].size)
    BY <1>5, <1>6 DEF Look
  <2>4. Contents(w, v.slot[t].cluster, v.slot[t].size) = Contents(v, v.slot[t].cluster, v.slot[t].size)
    BY <2>2, ContentsSame
  <2> QED BY <1>5, <2>3, <2>4
<1>19. Written(v, fil, w, gil, n, r, x)
  <2>1. Look(w, gil, s).size = IF r + 1 > Look(v, fil, s).size THEN r + 1 ELSE Look(v, fil, s).size
    BY <1>20 DEF z
  <2>2. \A q \in 0 .. Look(v, fil, s).size - 1 :
          q # r => Look(w, gil, s).data[q] = Look(v, fil, s).data[q]
    BY <1>17, <1>20
  <2>3. s \in Slots /\ v.slot[s].name = n /\ w.slot[s].name = n
    BY <1>5, <1>7 DEF s
  <2> QED BY <1>16, <1>18, <2>1, <2>2, <2>3 DEF Written
<1> QED BY <1>14, <1>19

LEMMA WriteGood ==
  ASSUME NEW v, NEW fil, NEW n, Good(v, fil, n),
         NEW r \in Records, NEW x \in Values, NEW c \in Free(v),
         NEW o, o = f_write(v, fil, r, x, c)
  PROVE  /\ Good(o.vol, o.fil, n)
         /\ \/ SameBut({}, v, fil, o.vol, o.fil) /\ ~(o.fr = "OK" /\ o.fil.cluster # 0)
            \/ /\ Written(v, fil, o.vol, o.fil, n, r, x)
               /\ o.fr = "OK" /\ o.fil.cluster # 0
<1>1. PICK to : Goes(fil, c, to)
  BY DEF Goes
<1>2. \/ o.vol = v /\ o.fil = fil /\ o.fr # "OK"
      \/ to = 0 /\ o.vol = v /\ Marks(fil, o.fil)
      \/ to # 0 /\ Puts(v, fil, o.vol, o.fil, to, r, x) /\ o.fr = "OK"
  <2>1. v \in Volumes /\ fil \in File
    BY DEF Good
  <2> QED BY <1>1, <2>1, WriteDoes
<1>3. CASE o.vol = v /\ o.fil = fil /\ o.fr # "OK"
  BY <1>3 DEF SameBut
<1>4. CASE to = 0 /\ o.vol = v /\ Marks(fil, o.fil)
  <2>1. Good(o.vol, o.fil, n) /\ SameBut({}, v, fil, o.vol, o.fil)
    BY <1>4, MarkGood
  <2>2. o.fil.cluster = 0
    <3>1. fil.cluster = 0
      BY <1>1, <1>4 DEF Goes
    <3>2. fil \in File
      BY DEF Good
    <3> QED BY <1>4, <3>1, <3>2, MarkedOnly
  <2> QED BY <2>1, <2>2
<1>5. CASE to # 0 /\ Puts(v, fil, o.vol, o.fil, to, r, x) /\ o.fr = "OK"
  <2>1. Good(o.vol, o.fil, n) /\ Written(v, fil, o.vol, o.fil, n, r, x)
    BY <1>1, <1>5, PutGood
  <2>2. o.fil.cluster = to
    <3>1. fil \in File
      BY DEF Good
    <3> QED BY <1>5, <3>1 DEF Puts, File
  <2> QED BY <1>5, <2>1, <2>2
<1> QED BY <1>2, <1>3, <1>4, <1>5

----------------------------------------------------------------------------
\* Deleting and renaming.

Emptied(v, D) == [s \in Slots |-> IF s \in D THEN Deleted ELSE v.slot[s]]

Owned(v, D) == {v.slot[s].cluster : s \in D}

Removes(v, w, D) == w = [v EXCEPT !.slot = Emptied(v, D), !.used = @ \ Owned(v, D)]

\* The files of the slots in D are gone.
Gone(D, v, fil, w) ==
  /\ \A s \in D : w.slot[s].name = ""
  /\ SameBut(D, v, fil, w, fil)

LEMMA RemoveDoes ==
  ASSUME NEW v, v \in Volumes, NEW D \in SUBSET Slots, NEW w, Removes(v, w, D)
  PROVE  /\ w \in Volumes /\ w.data = v.data
         /\ w.used = v.used \ Owned(v, D) /\ w.slot = Emptied(v, D)
<1> DEFINE slots == Emptied(v, D)
           used == v.used \ Owned(v, D)
<1>1. v.slot \in [Slots -> Entry] /\ v.used \in SUBSET Clusters
  BY VolumeIs
<1>2. slots \in [Slots -> Entry] /\ used \in SUBSET Clusters
  BY <1>1, DeletedIs DEF Emptied
<1>3. w = [v EXCEPT !.slot = slots, !.used = used]
  BY DEF Removes, Volumes
<1> HIDE DEF slots, used
<1>4. w \in Volumes /\ w.slot = slots /\ w.used = used /\ w.data = v.data
  BY <1>2, <1>3 DEF Volumes
<1> QED BY <1>4 DEF slots, used

\* That is so even if the open file is one of them.
LEMMA RemoveFiles ==
  ASSUME NEW v, NEW fil, NEW fn, Good(v, fil, fn), NEW D \in SUBSET Slots,
         NEW w, Removes(v, w, D)
  PROVE  w \in Volumes /\ NamesKnown(w) /\ Gone(D, v, fil, w)
<1>1. /\ v \in Volumes /\ fil \in File /\ OpenKnown(v, fil, fn) /\ NamesKnown(v)
      /\ ClustersKnown(v, fil) /\ SizesKnown(v, fil) /\ SlotKnown(v, fil)
  BY DEF Good
<1>2. /\ w \in Volumes /\ w.data = v.data
      /\ w.used = v.used \ {v.slot[s].cluster : s \in D}
      /\ \A s \in D : w.slot[s] = Deleted
      /\ \A s \in Slots \ D : w.slot[s] = v.slot[s]
  <2>1. /\ w \in Volumes /\ w.data = v.data
        /\ w.used = v.used \ Owned(v, D) /\ w.slot = Emptied(v, D)
    BY <1>1, RemoveDoes
  <2> QED BY <2>1 DEF Emptied, Owned
<1>3. \A s \in D : w.slot[s].name = "" /\ w.slot[s].cluster = 0 /\ w.slot[s].size = 0
  BY <1>2, DeletedIs
<1>4. NamesKnown(w)
  <2>1. ASSUME NEW s \in Slots, w.slot[s].name = ""
        PROVE  w.slot[s].cluster = 0
    BY <1>1, <1>2, <1>3, <2>1 DEF NamesKnown
  <2>2. ASSUME NEW s \in Slots, NEW t \in Slots, w.slot[s].name = w.slot[t].name
        PROVE  s = t \/ w.slot[s].name = ""
    BY <1>1, <1>2, <1>3, <2>2 DEF NamesKnown
  <2> QED BY <2>1, <2>2 DEF NamesKnown
<1>5. SameBut(D, v, fil, w, fil)
  <2> SUFFICES ASSUME NEW s \in Slots \ D
               PROVE  w.slot[s].name = v.slot[s].name /\ Look(w, fil, s) = Look(v, fil, s)
    BY DEF SameBut
  <2>1. CASE fil.open /\ fil.slot = s
    <3>1. /\ Look(v, fil, s) = Contents(v, fil.cluster, fil.size)
          /\ Look(w, fil, s) = Contents(w, fil.cluster, fil.size)
      BY <2>1 DEF Look
    <3> QED BY <1>2, <3>1, ContentsSame
  <2>2. CASE ~(fil.open /\ fil.slot = s)
    <3>1. /\ Look(v, fil, s) = Contents(v, v.slot[s].cluster, v.slot[s].size)
          /\ Look(w, fil, s) = Contents(w, v.slot[s].cluster, v.slot[s].size)
      BY <1>2, <2>2 DEF Look
    <3> QED BY <1>2, <3>1, ContentsSame
  <2> QED BY <2>1, <2>2
<1> QED BY <1>2, <1>3, <1>4, <1>5 DEF Gone

LEMMA RemoveGood ==
  ASSUME NEW v, NEW fil, NEW fn, Good(v, fil, fn), NEW D \in SUBSET Slots,
         NEW w, Removes(v, w, D), ~(fil.open /\ fil.slot \in D)
  PROVE  Good(w, fil, fn)
<1>1. /\ v \in Volumes /\ fil \in File /\ OpenKnown(v, fil, fn) /\ NamesKnown(v)
      /\ ClustersKnown(v, fil) /\ SizesKnown(v, fil) /\ SlotKnown(v, fil)
  BY DEF Good
<1>2. /\ w \in Volumes /\ w.data = v.data
      /\ w.used = v.used \ {v.slot[s].cluster : s \in D}
      /\ \A s \in D : w.slot[s] = Deleted
      /\ \A s \in Slots \ D : w.slot[s] = v.slot[s]
  <2>1. /\ w \in Volumes /\ w.data = v.data
        /\ w.used = v.used \ Owned(v, D) /\ w.slot = Emptied(v, D)
    BY <1>1, RemoveDoes
  <2> QED BY <2>1 DEF Emptied, Owned
<1>3. \A s \in D : w.slot[s].name = "" /\ w.slot[s].cluster = 0 /\ w.slot[s].size = 0
  BY <1>2, DeletedIs
<1>4. fil.open => fil.slot \in Slots \ D
  BY <1>1 DEF OpenKnown
<1>5. OpenKnown(w, fil, fn)
  BY <1>1, <1>2, <1>4 DEF OpenKnown
<1>6. NamesKnown(w)
  BY RemoveFiles
<1>7. ClustersKnown(w, fil)
  <2>1. ASSUME NEW s \in Slots, NEW t \in Slots, w.slot[s].cluster = w.slot[t].cluster
        PROVE  s = t \/ w.slot[s].cluster = 0
    <3>1. CASE s \in D \/ t \in D
      BY <1>3, <2>1, <3>1
    <3>2. CASE s \notin D /\ t \notin D
      BY <1>1, <1>2, <2>1, <3>2 DEF ClustersKnown
    <3> QED BY <3>1, <3>2
  <2>2. ASSUME NEW c \in Clusters
        PROVE  c \in w.used <=> fil.cluster = c \/ \E s \in Slots : w.slot[s].cluster = c
    <3>1. c # 0
      BY SetsAre
    <3>2. c \in v.used <=> fil.cluster = c \/ \E s \in Slots : v.slot[s].cluster = c
      BY <1>1 DEF ClustersKnown
    <3>3. c \in w.used <=> c \in v.used /\ \A s \in D : v.slot[s].cluster # c
      BY <1>2
    <3>4. ASSUME fil.cluster = c, NEW s \in D
          PROVE  v.slot[s].cluster # c
      <4>1. fil.open
        BY <1>1, <3>1, <3>4 DEF OpenKnown
      <4>2. s \in Slots /\ s # fil.slot
        BY <4>1
      <4> QED BY <1>1, <3>1, <3>4, <4>2 DEF ClustersKnown
    <3>5. ASSUME NEW s \in Slots, w.slot[s].cluster = c
          PROVE  v.slot[s].cluster = c /\ \A t \in D : v.slot[t].cluster # c
      <4>1. s \notin D /\ v.slot[s].cluster = c
        BY <1>2, <1>3, <3>1, <3>5
      <4> QED BY <1>1, <3>1, <4>1 DEF ClustersKnown
    <3>6. ASSUME NEW s \in Slots, v.slot[s].cluster = c, \A t \in D : v.slot[t].cluster # c
          PROVE  w.slot[s].cluster = c
      BY <1>2, <3>6
    <3>7. CASE fil.cluster = c
      BY <3>2, <3>3, <3>4, <3>7
    <3>8. CASE fil.cluster # c
      BY <3>2, <3>3, <3>5, <3>6, <3>8
    <3> QED BY <3>7, <3>8
  <2>3. ASSUME NEW s \in Slots, w.slot[s].cluster = fil.cluster
        PROVE  s = fil.slot \/ fil.cluster = 0
    BY <1>1, <1>2, <1>3, <2>3 DEF ClustersKnown
  <2> QED BY <2>1, <2>2, <2>3 DEF ClustersKnown
<1>8. SizesKnown(w, fil)
  BY <1>1, <1>2, <1>3 DEF SizesKnown
<1>9. SlotKnown(w, fil)
  BY <1>1, <1>2, <1>4 DEF SlotKnown
<1> QED
  BY <1>1, <1>2, <1>5, <1>6, <1>7, <1>8, <1>9 DEF Good

LEMMA UnlinkDoes ==
  ASSUME NEW v \in Volumes, NEW n
  PROVE  LET w == f_unlink(v, n).vol IN
           IF f_unlink(v, n).fr = "OK"
           THEN \E s \in Slots : /\ s = SlotOf(v, n) /\ n \in Names /\ v.slot[s].name = n
                                  /\ Removes(v, w, {s})
           ELSE w = v
<1> DEFINE w == f_unlink(v, n).vol
<1>1. CASE ~Exists(v, n)
  BY <1>1 DEF f_unlink
<1>2. CASE Exists(v, n) /\ v.slot[SlotOf(v, n)].ro
  BY <1>2 DEF f_unlink
<1>3. CASE Exists(v, n) /\ ~v.slot[SlotOf(v, n)].ro
  <2>1. PICK s \in Slots : s = SlotOf(v, n) /\ n \in Names /\ v.slot[s].name = n
    BY <1>3, SlotOfIs
  <2>9. f_unlink(v, n).fr = "OK"
    BY <1>3 DEF f_unlink
  <2>2. w = [v EXCEPT !.used = @ \ {v.slot[s].cluster}, !.slot[s] = Deleted]
    BY <1>3, <2>1 DEF f_unlink
  <2>3. /\ v.slot \in [Slots -> Entry]
        /\ v = [slot |-> v.slot, used |-> v.used, data |-> v.data]
    BY DEF Volumes
  <2>4. [v.slot EXCEPT ![s] = Deleted] = Emptied(v, {s})
    BY <2>3 DEF Emptied
  <2>5. v.used \ {v.slot[s].cluster} = v.used \ Owned(v, {s})
    BY DEF Owned
  <2> DEFINE slots == [v.slot EXCEPT ![s] = Deleted]
             used == v.used \ {v.slot[s].cluster}
  <2>6. w = [v EXCEPT !.slot = slots, !.used = used]
    BY <2>2 DEF Volumes
  <2> HIDE DEF slots, used
  <2>8. Removes(v, w, {s})
    <3>1. slots = Emptied(v, {s}) /\ used = v.used \ Owned(v, {s})
      BY <2>4, <2>5 DEF slots, used
    <3> QED BY <2>6, <3>1 DEF Removes, Volumes
  <2> QED BY <2>1, <2>8, <2>9
<1> QED BY <1>1, <1>2, <1>3

\* The file of slot s has moved to slot t, where its name is m.
Moves(v, w, s, t, m) ==
  /\ m \in Names /\ v.slot[s].name \in Names /\ v.slot[t].name = ""
  /\ m = v.slot[s].name \/ \A i \in Slots : v.slot[i].name # m
  /\ w = [v EXCEPT !.slot[t] = [v.slot[s] EXCEPT !.name = m], !.slot[s] = Deleted]

\* For its user; one that was open may be shorter by what its slot did not know.
Shifted(v, fil, w, s, t, m) ==
  /\ m \in Names /\ v.slot[s].name \in Names /\ v.slot[t].name = ""
  /\ m = v.slot[s].name \/ \A i \in Slots : v.slot[i].name # m
  /\ w.slot[s].name = "" /\ w.slot[t].name = m
  /\ SameBut({s, t}, v, fil, w, fil)

Moved(v, fil, w, s, t, m) ==
  Shifted(v, fil, w, s, t, m) /\ Look(w, fil, t) = Look(v, fil, s)

Cut(v, fil, w, s, t, m) ==
  /\ Shifted(v, fil, w, s, t, m)
  /\ Look(w, fil, t).size <= Look(v, fil, s).size
  /\ \A q \in 0 .. Look(w, fil, t).size - 1 :
       Look(w, fil, t).data[q] = Look(v, fil, s).data[q]

LEMMA RenameDoes ==
  ASSUME NEW v \in Volumes, NEW n, NEW m
  PROVE  LET w == f_rename(v, n, m).vol IN
           IF f_rename(v, n, m).fr = "OK"
           THEN \E s, t \in Slots : /\ s = SlotOf(v, n) /\ v.slot[s].name = n
                                     /\ Moves(v, w, s, t, m)
           ELSE w = v
<1> DEFINE w == f_rename(v, n, m).vol
<1>1. CASE n \notin Names \/ m \notin Names
  BY <1>1 DEF f_rename
<1>2. CASE n \in Names /\ m \in Names /\ ~Exists(v, n)
  BY <1>2 DEF f_rename
<1>3. CASE n \in Names /\ m \in Names /\ Exists(v, n) /\ m # n /\ Exists(v, m)
  BY <1>3 DEF f_rename
<1>4. CASE /\ n \in Names /\ m \in Names /\ Exists(v, n) /\ ~(m # n /\ Exists(v, m))
           /\ SlotsOf(v, "") = {}
  BY <1>4 DEF f_rename
<1>5. CASE /\ n \in Names /\ m \in Names /\ Exists(v, n) /\ ~(m # n /\ Exists(v, m))
           /\ SlotsOf(v, "") # {}
  <2>1. PICK s \in Slots : s = SlotOf(v, n) /\ v.slot[s].name = n
    BY <1>5, SlotOfIs
  <2>2. PICK t \in Slots : t = First(SlotsOf(v, "")) /\ v.slot[t].name = ""
    BY <1>5, EmptySlot
  <2>3. w = [v EXCEPT !.slot[t] = [v.slot[s] EXCEPT !.name = m], !.slot[s] = Deleted]
    BY <1>5, <2>1, <2>2 DEF f_rename
  <2>4. m = n \/ \A i \in Slots : v.slot[i].name # m
    BY <1>5, NoSlot
  <2>6. f_rename(v, n, m).fr = "OK"
    BY <1>5 DEF f_rename
  <2> HIDE DEF w
  <2>5. Moves(v, w, s, t, m)
    BY <1>5, <2>1, <2>2, <2>3, <2>4 DEF Moves
  <2> QED BY <2>1, <2>5, <2>6 DEF w
<1> QED BY <1>1, <1>2, <1>3, <1>4, <1>5

LEMMA MoveDoes ==
  ASSUME NEW v \in Volumes, NEW s \in Slots, NEW t \in Slots, NEW m, NEW w,
         Moves(v, w, s, t, m)
  PROVE  /\ w \in Volumes /\ w.used = v.used /\ w.data = v.data /\ s # t
         /\ w.slot[s] = Deleted /\ w.slot[t].name = m
         /\ w.slot[t].cluster = v.slot[s].cluster /\ w.slot[t].size = v.slot[s].size
         /\ \A i \in Slots : i # s /\ i # t => w.slot[i] = v.slot[i]
<1> DEFINE e == [v.slot[s] EXCEPT !.name = m]
<1>1. m \in Names /\ v.slot \in [Slots -> Entry] /\ v.slot[s] \in Entry /\ s # t
  BY VolumeIs, SetsAre DEF Moves
<1>2. e \in Entry /\ e.name = m /\ e.cluster = v.slot[s].cluster /\ e.size = v.slot[s].size
  BY <1>1, Renamed
<1>3. w = [v EXCEPT !.slot[t] = e, !.slot[s] = Deleted]
  BY DEF Moves
<1> HIDE DEF e
<1> DEFINE slots == [v.slot EXCEPT ![t] = e, ![s] = Deleted]
<1>4. /\ slots \in [Slots -> Entry] /\ slots[s] = Deleted /\ slots[t] = e
      /\ \A i \in Slots : i # s /\ i # t => slots[i] = v.slot[i]
  BY <1>1, <1>2, DeletedIs
<1>5. w = [v EXCEPT !.slot = slots]
  BY <1>3 DEF Volumes
<1> HIDE DEF slots
<1>6. w \in Volumes /\ w.slot = slots /\ w.used = v.used /\ w.data = v.data
  BY <1>4, <1>5 DEF Volumes
<1> QED BY <1>1, <1>2, <1>4, <1>6

LEMMA MoveFiles ==
  ASSUME NEW v, NEW fil, NEW fn, Good(v, fil, fn), NEW s \in Slots, NEW t \in Slots,
         NEW m, NEW w, Moves(v, w, s, t, m)
  PROVE  w \in Volumes /\ NamesKnown(w) /\ Shifted(v, fil, w, s, t, m)
<1>1. /\ v \in Volumes /\ fil \in File /\ OpenKnown(v, fil, fn) /\ NamesKnown(v)
      /\ ClustersKnown(v, fil) /\ SizesKnown(v, fil) /\ SlotKnown(v, fil)
  BY DEF Good
<1>2. /\ w \in Volumes /\ w.used = v.used /\ w.data = v.data /\ s # t
      /\ w.slot[s] = Deleted /\ w.slot[t].name = m
      /\ w.slot[t].cluster = v.slot[s].cluster /\ w.slot[t].size = v.slot[s].size
      /\ \A i \in Slots : i # s /\ i # t => w.slot[i] = v.slot[i]
  BY <1>1, MoveDoes
<1>3. /\ m \in Names /\ v.slot[s].name \in Names /\ v.slot[t].name = "" /\ m # ""
      /\ m = v.slot[s].name \/ \A i \in Slots : v.slot[i].name # m
      /\ v.slot[t].cluster = 0
  BY <1>1, SetsAre DEF Moves, NamesKnown
<1>4. w.slot[s].name = "" /\ w.slot[s].cluster = 0 /\ w.slot[s].size = 0
  BY <1>2, DeletedIs
<1>5. NamesKnown(w)
  <2>1. ASSUME NEW i \in Slots, w.slot[i].name = ""
        PROVE  w.slot[i].cluster = 0
    BY <1>1, <1>2, <1>3, <1>4, <2>1 DEF NamesKnown
  <2>2. ASSUME NEW i \in Slots, NEW j \in Slots, w.slot[i].name = w.slot[j].name, i # j
        PROVE  w.slot[i].name = ""
    <3>1. ASSUME NEW k \in Slots, k # s, k # t
          PROVE  w.slot[k].name # m
      <4>1. w.slot[k] = v.slot[k]
        BY <1>2, <3>1
      <4>2. v.slot[k].name = v.slot[s].name => v.slot[s].name = ""
        BY <1>1, <3>1 DEF NamesKnown
      <4> QED BY <1>3, <4>1, <4>2, SetsAre
    <3>2. CASE i = s \/ j = s
      BY <1>4, <2>2, <3>2
    <3>3. CASE i # s /\ j # s /\ (i = t \/ j = t)
      BY <1>2, <2>2, <3>1, <3>3
    <3>4. CASE i # s /\ j # s /\ i # t /\ j # t
      BY <1>1, <1>2, <2>2, <3>4 DEF NamesKnown
    <3> QED BY <3>2, <3>3, <3>4
  <2> QED BY <2>1, <2>2 DEF NamesKnown
<1>6. SameBut({s, t}, v, fil, w, fil)
  <2> SUFFICES ASSUME NEW i \in Slots, i # s, i # t
               PROVE  w.slot[i].name = v.slot[i].name /\ Look(w, fil, i) = Look(v, fil, i)
    BY DEF SameBut
  <2>1. CASE fil.open /\ fil.slot = i
    <3>1. /\ Look(v, fil, i) = Contents(v, fil.cluster, fil.size)
          /\ Look(w, fil, i) = Contents(w, fil.cluster, fil.size)
      BY <2>1 DEF Look
    <3> QED BY <1>2, <3>1, ContentsSame
  <2>2. CASE ~(fil.open /\ fil.slot = i)
    <3>1. /\ Look(v, fil, i) = Contents(v, v.slot[i].cluster, v.slot[i].size)
          /\ Look(w, fil, i) = Contents(w, v.slot[i].cluster, v.slot[i].size)
      BY <1>2, <2>2 DEF Look
    <3> QED BY <1>2, <3>1, ContentsSame
  <2> QED BY <2>1, <2>2
<1> QED BY <1>2, <1>3, <1>4, <1>5, <1>6 DEF Shifted

\* The open file knows more than its slot, but nothing else.
LEMMA MoveCuts ==
  ASSUME NEW v, NEW fil, NEW fn, Good(v, fil, fn), NEW s \in Slots, NEW t \in Slots,
         NEW m, NEW w, Moves(v, w, s, t, m), fil.open, fil.slot = s
  PROVE  Cut(v, fil, w, s, t, m)
<1>1. v \in Volumes /\ fil \in File /\ SizesKnown(v, fil) /\ SlotKnown(v, fil)
  BY DEF Good
<1>2. /\ w.data = v.data /\ s # t
      /\ w.slot[t].cluster = v.slot[s].cluster /\ w.slot[t].size = v.slot[s].size
  BY <1>1, MoveDoes
<1> DEFINE c == v.slot[s].cluster
           z == v.slot[s].size
<1>3. z \in Nat /\ fil.size \in Nat /\ z <= fil.size
  <2>1. z \in Sizes /\ fil.size \in Sizes
    BY <1>1, VolumeIs, EntryIs, FileIs
  <2> QED BY <1>1, <2>1, SetsAre DEF SlotKnown
<1>4. /\ Look(v, fil, s) = Contents(v, fil.cluster, fil.size)
      /\ Look(w, fil, t) = Contents(w, c, z)
  BY <1>2 DEF Look
<1>5. z # 0 => c # 0 /\ fil.cluster = c
  BY <1>1 DEF SizesKnown, SlotKnown
<1> HIDE DEF c, z
<1>6. Look(w, fil, t).size = z /\ Look(v, fil, s).size = fil.size
  BY <1>4, ContentsAre
<1>7. ASSUME NEW q \in 0 .. z - 1
      PROVE  Look(w, fil, t).data[q] = Look(v, fil, s).data[q]
  <2>1. z # 0 /\ q \in 0 .. fil.size - 1
    BY <1>3
  <2>2. c # 0 /\ fil.cluster = c
    BY <1>5, <2>1
  <2>3. Look(w, fil, t).data[q] = w.data[c][q] /\ Look(v, fil, s).data[q] = v.data[c][q]
    BY <1>4, <2>1, <2>2, ContentsAre
  <2> QED BY <1>2, <2>3
<1>8. Shifted(v, fil, w, s, t, m)
  BY MoveFiles
<1> QED BY <1>3, <1>6, <1>7, <1>8 DEF Cut

LEMMA MoveGood ==
  ASSUME NEW v, NEW fil, NEW fn, Good(v, fil, fn), NEW s \in Slots, NEW t \in Slots,
         NEW m, NEW w, Moves(v, w, s, t, m), ~(fil.open /\ fil.slot = s)
  PROVE  Good(w, fil, fn) /\ Moved(v, fil, w, s, t, m)
<1>1. /\ v \in Volumes /\ fil \in File /\ OpenKnown(v, fil, fn) /\ NamesKnown(v)
      /\ ClustersKnown(v, fil) /\ SizesKnown(v, fil) /\ SlotKnown(v, fil)
  BY DEF Good
<1>2. /\ w \in Volumes /\ w.used = v.used /\ w.data = v.data /\ s # t
      /\ w.slot[s] = Deleted /\ w.slot[t].name = m
      /\ w.slot[t].cluster = v.slot[s].cluster /\ w.slot[t].size = v.slot[s].size
      /\ \A i \in Slots : i # s /\ i # t => w.slot[i] = v.slot[i]
  BY <1>1, MoveDoes
<1>3. /\ m \in Names /\ v.slot[s].name \in Names /\ v.slot[t].name = "" /\ m # ""
      /\ m = v.slot[s].name \/ \A i \in Slots : v.slot[i].name # m
      /\ v.slot[t].cluster = 0
  BY <1>1, SetsAre DEF Moves, NamesKnown
<1>4. w.slot[s].name = "" /\ w.slot[s].cluster = 0 /\ w.slot[s].size = 0
  BY <1>2, DeletedIs
<1>5. fil.open => fil.slot \in Slots /\ fil.slot # s /\ fil.slot # t
  BY <1>1, <1>3, SetsAre DEF OpenKnown
<1>6. OpenKnown(w, fil, fn)
  BY <1>1, <1>2, <1>5 DEF OpenKnown
<1>7. NamesKnown(w) /\ Shifted(v, fil, w, s, t, m)
  BY MoveFiles
<1>8. ClustersKnown(w, fil)
  <2>1. ASSUME NEW i \in Slots, NEW j \in Slots, w.slot[i].cluster = w.slot[j].cluster
        PROVE  i = j \/ w.slot[i].cluster = 0
    <3> DEFINE at(k) == IF k = t THEN s ELSE k
    <3>1. ASSUME NEW k \in Slots, k # s
          PROVE  at(k) \in Slots /\ w.slot[k].cluster = v.slot[at(k)].cluster
      BY <1>2, <3>1
    <3>2. CASE i = s \/ j = s
      BY <1>4, <2>1, <3>2
    <3>3. CASE i # s /\ j # s
      <4>1. at(i) = at(j) \/ v.slot[at(i)].cluster = 0
        <5>1. v.slot[at(i)].cluster = v.slot[at(j)].cluster /\ at(i) \in Slots /\ at(j) \in Slots
          BY <2>1, <3>1, <3>3
        <5> HIDE DEF at
        <5> QED BY <1>1, <5>1 DEF ClustersKnown
      <4>2. at(i) = at(j) => i = j
        BY <3>3
      <4> QED BY <3>1, <3>3, <4>1, <4>2
    <3> QED BY <3>2, <3>3
  <2>2. ASSUME NEW c \in Clusters
        PROVE  c \in w.used <=> fil.cluster = c \/ \E i \in Slots : w.slot[i].cluster = c
    <3>1. c # 0
      BY SetsAre
    <3>2. c \in v.used <=> fil.cluster = c \/ \E i \in Slots : v.slot[i].cluster = c
      BY <1>1 DEF ClustersKnown
    <3>3. ASSUME NEW i \in Slots, v.slot[i].cluster = c
          PROVE  \E j \in Slots : w.slot[j].cluster = c
      <4>1. CASE i = s
        BY <1>2, <3>3, <4>1
      <4>2. CASE i # s
        BY <1>2, <1>3, <3>1, <3>3, <4>2
      <4> QED BY <4>1, <4>2
    <3>4. ASSUME NEW i \in Slots, w.slot[i].cluster = c
          PROVE  \E j \in Slots : v.slot[j].cluster = c
      <4>1. CASE i = t
        BY <1>2, <3>4, <4>1
      <4>2. CASE i # t
        BY <1>2, <1>4, <3>1, <3>4, <4>2
      <4> QED BY <4>1, <4>2
    <3> QED BY <1>2, <3>2, <3>3, <3>4
  <2>3. ASSUME NEW i \in Slots, w.slot[i].cluster = fil.cluster
        PROVE  i = fil.slot \/ fil.cluster = 0
    <3>1. fil.cluster # 0 => fil.slot # s
      BY <1>1, <1>5 DEF OpenKnown
    <3>2. v.slot[s].cluster = fil.cluster => fil.cluster = 0
      BY <1>1, <3>1 DEF ClustersKnown
    <3>3. CASE i = s
      BY <1>4, <2>3, <3>3
    <3>4. CASE i = t
      BY <1>2, <2>3, <3>2, <3>4
    <3>5. CASE i # s /\ i # t
      BY <1>1, <1>2, <2>3, <3>5 DEF ClustersKnown
    <3> QED BY <3>3, <3>4, <3>5
  <2> QED BY <2>1, <2>2, <2>3 DEF ClustersKnown
<1>9. SizesKnown(w, fil)
  <2>1. ASSUME NEW i \in Slots, w.slot[i].cluster = 0
        PROVE  w.slot[i].size = 0
    <3>1. CASE i = s
      BY <1>4, <3>1
    <3>2. CASE i = t
      BY <1>1, <1>2, <2>1, <3>2 DEF SizesKnown
    <3>3. CASE i # s /\ i # t
      BY <1>1, <1>2, <2>1, <3>3 DEF SizesKnown
    <3> QED BY <3>1, <3>2, <3>3
  <2> QED BY <1>1, <2>1 DEF SizesKnown
<1>10. SlotKnown(w, fil)
  BY <1>1, <1>2, <1>5 DEF SlotKnown
<1>11. Good(w, fil, fn)
  BY <1>1, <1>2, <1>6, <1>7, <1>8, <1>9, <1>10 DEF Good
<1>12. Look(w, fil, t) = Look(v, fil, s)
  <2>1. /\ Look(v, fil, s) = Contents(v, v.slot[s].cluster, v.slot[s].size)
        /\ Look(w, fil, t) = Contents(w, v.slot[s].cluster, v.slot[s].size)
    BY <1>2, <1>5 DEF Look
  <2> QED BY <1>2, <2>1, ContentsSame
<1> QED BY <1>7, <1>11, <1>12 DEF Moved

----------------------------------------------------------------------------
\* The calls.

\* Which step a call is, for the files as their user sees them.
Unchanged(v, fil, w, gil) == SameBut({}, v, fil, w, gil)

\* All the slots in D match the mask n.
Matching(v, D, n) == \A s \in D : v.slot[s].name # "" /\ n \in {Wild, v.slot[s].name}

Changes(v, fil, w, gil, says) ==
  \/ Unchanged(v, fil, w, gil) /\ says \in Plain
  \/ \E n \in Names : Added(v, fil, w, gil, n) /\ says = <<"make", n>>
  \/ \E n \in Names \cup {Wild}, D \in SUBSET Slots :
       fil = gil /\ Gone(D, v, fil, w) /\ Matching(v, D, n) /\ says = <<"delete", n>>
  \/ \E s, t \in Slots, m \in Names :
       fil = gil /\ Moved(v, fil, w, s, t, m) /\ says = <<"rename", v.slot[s].name, m>>
  \/ \E n \in Names, r \in Records, x \in Values :
       Written(v, fil, w, gil, n, r, x) /\ says = <<"write", n, r, x>>

\* Or the open file was renamed.
Cuts(v, fil, w, gil, says) ==
  \E s, t \in Slots, m \in Names :
    fil = gil /\ Cut(v, fil, w, s, t, m) /\ says = <<"rename", v.slot[s].name, m>>

LEMMA CallsAre ==
  /\ Looked \in Plain /\ Plain \subseteq Calls
  /\ \A n \in Names \cup {Wild} : <<"make", n>> \in Plain /\ <<"delete", n>> \in Plain
  /\ \A n \in Names \cup {Wild}, m \in Names : <<"rename", n, m>> \in Plain
  /\ \A n \in Names, r \in Records, x \in Values : <<"write", n, r, x>> \in Calls
<1>1. \A n \in Names, r \in Records, x \in Values : <<"write", n, r, x>> \in Writes
  BY DEF Writes
<1>2. /\ \A n \in Names \cup {Wild} : <<"make", n>> \in Plain /\ <<"delete", n>> \in Plain
      /\ \A n \in Names \cup {Wild}, m \in Names : <<"rename", n, m>> \in Plain
  BY DEF Plain
<1>3. Looked \in Plain /\ Plain \subseteq Calls /\ Writes \subseteq Calls
  BY DEF Plain, Calls
<1> QED BY <1>1, <1>2, <1>3

LEMMA PlainIs ==
  ASSUME NEW p \in Plain
  PROVE  p[1] # "write"
BY DEF Plain, Looked

\* What a call that goes well leaves.
Fine(says, v, fil, fn) ==
  /\ Good(v, fil, fn) /\ fn \in Names \cup {Wild, ""}
  /\ Changes(vol, curfil, v, fil, says)

LEMMA SameTwice ==
  ASSUME NEW v, NEW fil, NEW u, NEW eil, NEW w, NEW gil,
         SameBut({}, v, fil, u, eil), SameBut({}, u, eil, w, gil)
  PROVE  SameBut({}, v, fil, w, gil)
BY DEF SameBut

LEMMA SameAdded ==
  ASSUME NEW v, NEW fil, NEW u, NEW eil, NEW w, NEW gil, NEW n,
         SameBut({}, v, fil, u, eil), Added(u, eil, w, gil, n)
  PROVE  Added(v, fil, w, gil, n)
BY DEF SameBut, Added

LEMMA SameWritten ==
  ASSUME NEW v, NEW fil, NEW u, NEW eil, NEW w, NEW gil, NEW n, NEW r, NEW x,
         SameBut({}, v, fil, u, eil), Written(u, eil, w, gil, n, r, x)
  PROVE  Written(v, fil, w, gil, n, r, x)
<1>1. PICK s \in Slots :
        /\ u.slot[s].name = n /\ w.slot[s].name = n
        /\ Look(w, gil, s).size =
             IF r + 1 > Look(u, eil, s).size THEN r + 1 ELSE Look(u, eil, s).size
        /\ Look(w, gil, s).data[r] = x
        /\ \A q \in 0 .. Look(u, eil, s).size - 1 :
             q # r => Look(w, gil, s).data[q] = Look(u, eil, s).data[q]
        /\ SameBut({s}, u, eil, w, gil)
  BY DEF Written
<1>2. Look(u, eil, s) = Look(v, fil, s) /\ v.slot[s].name = n
  BY <1>1 DEF SameBut
<1>3. SameBut({s}, v, fil, w, gil)
  BY <1>1 DEF SameBut
<1> QED BY <1>1, <1>2, <1>3 DEF Written

LEMMA OpenFilGood ==
  ASSUME Good(vol, curfil, curfn), NEW n, NEW write \in BOOLEAN, NEW new \in BOOLEAN,
         NEW o, o = OpenFil(n, write, new)
  PROVE  /\ Good(o.vol, o.fil, n) /\ o.returns \subseteq BOOLEAN
         /\ \/ SameBut({}, vol, curfil, o.vol, o.fil)
            \/ new /\ Added(vol, curfil, o.vol, o.fil, n)
<1>1. CASE n = curfn
  BY <1>1 DEF OpenFil, SameBut
<1>2. CASE n # curfn
  <2> DEFINE u == f_close(vol, curfil)
             p == f_open(u, n, write, new)
  <2>1. o.vol = p.vol /\ o.fil = p.fil /\ o.returns = BOOLEAN
    BY <1>2 DEF OpenFil
  <2>2. Good(u, Closed, n) /\ SameBut({}, vol, curfil, u, Closed)
    BY CloseGood
  <2> HIDE DEF u
  <2>3. /\ Good(o.vol, o.fil, n)
        /\ SameBut({}, u, Closed, o.vol, o.fil) \/ (new /\ Added(u, Closed, o.vol, o.fil, n))
    BY <2>1, <2>2, OpenGood
  <2> QED BY <2>1, <2>2, <2>3, SameTwice, SameAdded
<1> QED BY <1>1, <1>2

LEMMA OpenFine ==
  ASSUME Good(vol, curfil, curfn), NEW n \in Names \cup {Wild},
         NEW write \in BOOLEAN, NEW new \in BOOLEAN, NEW o, o = OpenFil(n, write, new),
         NEW call, call = IF new THEN <<"make", n>> ELSE Looked
  PROVE  Fine(call, o.vol, o.fil, n)
<1>1. /\ Good(o.vol, o.fil, n)
      /\ \/ SameBut({}, vol, curfil, o.vol, o.fil)
         \/ new /\ Added(vol, curfil, o.vol, o.fil, n)
  BY OpenFilGood
<1>2. Added(vol, curfil, o.vol, o.fil, n) => n \in Names
  BY DEF Added
<1>3. call \in Plain
  BY CallsAre, Zenon
<1>4. CASE SameBut({}, vol, curfil, o.vol, o.fil)
  BY <1>1, <1>3, <1>4 DEF Fine, Changes, Unchanged
<1>5. CASE new /\ Added(vol, curfil, o.vol, o.fil, n)
  BY <1>1, <1>2, <1>5 DEF Fine, Changes
<1> QED BY <1>1, <1>4, <1>5

LEMMA StaysFine ==
  ASSUME Good(vol, curfil, curfn), curfn \in Names \cup {Wild, ""}
  PROVE  Fine(Looked, vol, curfil, curfn)
BY CallsAre DEF Fine, Changes, Unchanged, SameBut

Says(w, n, r, x) ==
  IF w.fr = "OK" /\ w.fil.cluster # 0 THEN <<"write", n, r, x>> ELSE Looked

LEMMA WriteFine ==
  ASSUME NEW n \in Names, NEW v, NEW fil,
         Good(v, fil, n), SameBut({}, vol, curfil, v, fil),
         NEW r \in Records, NEW x \in Values, NEW c \in Free(v),
         NEW w, w = f_write(v, fil, r, x, c)
  PROVE  Fine(Says(w, n, r, x), w.vol, w.fil, n)
<1>1. /\ Good(w.vol, w.fil, n)
      /\ \/ SameBut({}, v, fil, w.vol, w.fil) /\ ~(w.fr = "OK" /\ w.fil.cluster # 0)
         \/ /\ Written(v, fil, w.vol, w.fil, n, r, x)
            /\ w.fr = "OK" /\ w.fil.cluster # 0
  BY WriteGood
<1>2. CASE SameBut({}, v, fil, w.vol, w.fil) /\ ~(w.fr = "OK" /\ w.fil.cluster # 0)
  <2>1. Unchanged(vol, curfil, w.vol, w.fil)
    BY <1>2, SameTwice DEF Unchanged
  <2>2. Says(w, n, r, x) = Looked
    BY <1>2 DEF Says
  <2> QED BY <1>1, <2>1, <2>2, CallsAre DEF Fine, Changes
<1>3. CASE /\ Written(v, fil, w.vol, w.fil, n, r, x)
           /\ w.fr = "OK" /\ w.fil.cluster # 0
  <2>1. Written(vol, curfil, w.vol, w.fil, n, r, x)
    BY <1>3, SameWritten
  <2>2. Says(w, n, r, x) = <<"write", n, r, x>>
    BY <1>3 DEF Says
  <2> QED BY <1>1, <2>1, <2>2 DEF Fine, Changes
<1> QED BY <1>1, <1>2, <1>3

\* What every call leaves.
Left(says) ==
  /\ vol' \in Volumes /\ curfil' \in File
  /\ curfn' \in Names \cup {Wild, ""} /\ stray' \in BOOLEAN
  /\ says \in Calls /\ NamesKnown(vol')
  /\ ~stray' => Good(vol', curfil', curfn')
  /\ \/ Changes(vol, curfil, vol', curfil', says)
     \/ stray' /\ Cuts(vol, curfil, vol', curfil', says)

LEMMA SaysType ==
  ASSUME NEW v \in Volumes, NEW fil, NEW w, NEW gil, NEW says,
         Changes(v, fil, w, gil, says) \/ Cuts(v, fil, w, gil, says)
  PROVE  says \in Calls
<1>1. \/ says \in Plain
      \/ \E n \in Names : says = <<"make", n>>
      \/ \E n \in Names \cup {Wild} : says = <<"delete", n>>
      \/ \E s \in Slots, m \in Names :
           v.slot[s].name \in Names /\ says = <<"rename", v.slot[s].name, m>>
      \/ \E n \in Names, r \in Records, x \in Values : says = <<"write", n, r, x>>
  BY Zenon DEF Changes, Cuts, Moved, Cut, Shifted
<1> QED BY <1>1, CallsAre, Zenon

LEMMA FineLeft ==
  ASSUME NEW says, NEW v, NEW fil, NEW fn, Fine(says, v, fil, fn),
         Leaves(says, v, fil, fn), stray = FALSE, vol \in Volumes
  PROVE  Left(done')
<1>1. vol' = v /\ curfil' = fil /\ curfn' = fn /\ done' = says /\ ~stray' /\ stray' \in BOOLEAN
  <2>1. vol' = v /\ curfil' = fil /\ curfn' = fn /\ done' = says /\ stray' = stray
    BY DEF Leaves
  <2> QED BY <2>1, Zenon
<1>2. /\ Good(v, fil, fn) /\ fn \in Names \cup {Wild, ""}
      /\ Changes(vol, curfil, v, fil, says)
  BY DEF Fine
<1>3. v \in Volumes /\ fil \in File /\ NamesKnown(v)
  BY <1>2 DEF Good
<1>4. says \in Calls
  BY <1>2, SaysType
<1> QED BY <1>1, <1>2, <1>3, <1>4 DEF Left

LEMMA EmptiesIs ==
  ASSUME NEW call, NEW v, NEW S, Empties(call, v, S), curfil \in File
  PROVE  /\ vol' = v /\ curfil' = curfil /\ curfn' = curfn
         /\ done' = IF S = {} THEN Looked ELSE call
         /\ stray' \in BOOLEAN /\ (stray' <=> curfil.open /\ curfil.slot \in S)
<1>1. curfil.open \in BOOLEAN
  BY FileIs
<1>2. /\ vol' = v /\ curfil' = curfil /\ curfn' = curfn
      /\ done' = IF S = {} THEN Looked ELSE call
      /\ stray' = (curfil.open /\ curfil.slot \in S)
  BY DEF Empties
<1> QED BY <1>1, <1>2, Zenon

LEMMA RemoveLeft ==
  ASSUME Good(vol, curfil, curfn), curfn \in Names \cup {Wild, ""},
         NEW n \in Names \cup {Wild}, NEW D \in SUBSET Slots, Matching(vol, D, n),
         NEW v, Removes(vol, v, D), Empties(<<"delete", n>>, v, D)
  PROVE  Left(done')
<1>1. vol \in Volumes /\ curfil \in File
  BY DEF Good
<1>2. /\ vol' = v /\ curfil' = curfil /\ curfn' = curfn
      /\ done' = IF D = {} THEN Looked ELSE <<"delete", n>>
      /\ stray' \in BOOLEAN /\ (stray' <=> curfil.open /\ curfil.slot \in D)
  BY <1>1, EmptiesIs
<1>3. v \in Volumes /\ NamesKnown(v) /\ Gone(D, vol, curfil, v)
  BY RemoveFiles
<1>4. Changes(vol, curfil, v, curfil, done')
  <2>1. CASE D = {}
    <3>1. Unchanged(vol, curfil, v, curfil)
      BY <1>3, <2>1 DEF Gone, Unchanged
    <3> QED BY <1>2, <2>1, <3>1, CallsAre DEF Changes
  <2>2. CASE D # {}
    <3>1. done' = <<"delete", n>>
      BY <1>2, <2>2
    <3> QED BY <1>3, <3>1, Zenon DEF Changes
  <2> QED BY <2>1, <2>2
<1>5. done' \in Calls
  BY <1>1, <1>4, SaysType
<1>6. ~stray' => Good(v, curfil, curfn)
  BY <1>2, RemoveGood
<1>7. Changes(vol, curfil, vol', curfil', done') /\ (~stray' => Good(vol', curfil', curfn'))
  BY <1>2, <1>4, <1>6, Zenon
<1>8. /\ vol' \in Volumes /\ curfil' \in File /\ curfn' \in Names \cup {Wild, ""}
      /\ NamesKnown(vol')
  BY <1>1, <1>2, <1>3, Zenon
<1>9. stray' \in BOOLEAN
  BY <1>2
<1> QED BY <1>5, <1>7, <1>8, <1>9 DEF Left

LEMMA MoveLeft ==
  ASSUME Good(vol, curfil, curfn), curfn \in Names \cup {Wild, ""},
         NEW s \in Slots, NEW t \in Slots, NEW m, NEW v, Moves(vol, v, s, t, m),
         Empties(<<"rename", vol.slot[s].name, m>>, v, {s})
  PROVE  Left(done')
<1>1. vol \in Volumes /\ curfil \in File
  BY DEF Good
<1>2. /\ vol' = v /\ curfil' = curfil /\ curfn' = curfn
      /\ done' = <<"rename", vol.slot[s].name, m>>
      /\ stray' \in BOOLEAN /\ (stray' <=> curfil.open /\ curfil.slot \in {s})
  BY <1>1, EmptiesIs
<1>3. v \in Volumes /\ NamesKnown(v) /\ m \in Names
  <2>1. v \in Volumes /\ NamesKnown(v)
    BY MoveFiles
  <2> QED BY <2>1 DEF Moves
<1>4. CASE curfil.open /\ curfil.slot = s
  <2>1. Cut(vol, curfil, v, s, t, m)
    BY <1>4, MoveCuts
  <2>2. Cuts(vol, curfil, v, curfil, done')
    BY <1>2, <1>3, <2>1, Zenon DEF Cuts
  <2>3. done' \in Calls
    BY <1>1, <2>2, SaysType
  <2>4. stray'
    BY <1>2, <1>4
  <2> QED BY <1>1, <1>2, <1>3, <2>2, <2>3, <2>4 DEF Left
<1>5. CASE ~(curfil.open /\ curfil.slot = s)
  <2>1. Good(v, curfil, curfn) /\ Moved(vol, curfil, v, s, t, m)
    BY <1>5, MoveGood
  <2>2. Changes(vol, curfil, v, curfil, done')
    BY <1>2, <1>3, <2>1, Zenon DEF Changes
  <2>3. done' \in Calls
    BY <1>1, <2>2, SaysType
  <2>4. Changes(vol, curfil, vol', curfil', done') /\ Good(vol', curfil', curfn')
    BY <1>2, <2>1, <2>2, Zenon
  <2>5. /\ vol' \in Volumes /\ curfil' \in File /\ curfn' \in Names \cup {Wild, ""}
        /\ NamesKnown(vol')
    BY <1>1, <1>2, <1>3, Zenon
  <2>6. stray' \in BOOLEAN
    BY <1>2
  <2> QED BY <2>3, <2>4, <2>5, <2>6 DEF Left
<1> QED BY <1>4, <1>5

LEMMA NoneLeft ==
  ASSUME Good(vol, curfil, curfn), curfn \in Names \cup {Wild, ""},
         NEW call, Empties(call, vol, {})
  PROVE  Left(done')
<1>1. vol \in Volumes /\ curfil \in File /\ NamesKnown(vol)
  BY DEF Good
<1>2. vol' = vol /\ curfil' = curfil /\ curfn' = curfn /\ done' = Looked /\ stray' \in BOOLEAN
  <2>1. PICK S : S = {}
    OBVIOUS
  <2>2. Empties(call, vol, S)
    BY <2>1
  <2>3. /\ vol' = vol /\ curfil' = curfil /\ curfn' = curfn /\ stray' \in BOOLEAN
        /\ done' = IF S = {} THEN Looked ELSE call
    BY <1>1, <2>2, EmptiesIs
  <2> QED BY <2>1, <2>3
<1>3. Changes(vol, curfil, vol, curfil, Looked)
  BY StaysFine DEF Fine
<1>4. Looked \in Calls
  BY CallsAre
<1> QED BY <1>1, <1>2, <1>3, <1>4 DEF Left

----------------------------------------------------------------------------
\* Searches.

LEMMA RoType ==
  ASSUME vol \in Volumes, NEW s \in Slots
  PROVE  vol.slot[s].ro \in BOOLEAN
BY VolumeIs, EntryIs

LEMMA PassedType ==
  ASSUME vol \in Volumes, rdo \in BOOLEAN, NEW S \in SUBSET Slots
  PROVE  Passed(S) \in BOOLEAN
<1>1. CASE S = {}
  BY <1>1 DEF Passed
<1>2. CASE S # {}
  <2>1. Final(S) \in Slots
    BY <1>2, FinalIs
  <2>2. vol.slot[Final(S)].ro \in BOOLEAN
    BY <2>1, RoType
  <2> QED BY <1>2, <2>2 DEF Passed
<1> QED BY <1>1, <1>2

LEMMA SearchType ==
  ASSUME vol \in Volumes, rdo \in BOOLEAN, NEW n
  PROVE  Search(n) \in BOOLEAN
<1>1. Hits(n) \in SUBSET Slots /\ Hits(Wild) \in SUBSET Slots
  BY DEF Hits
<1>2. CASE Hits(n) = {}
  BY <1>1, <1>2, PassedType DEF Search
<1>3. CASE Hits(n) # {}
  <2>1. Hits(n) \in SUBSET Nat
    BY <1>1, SetsAre
  <2>2. First(Hits(n)) \in Slots
    BY <1>1, <1>3, <2>1, FirstIs
  <2>3. vol.slot[First(Hits(n))].ro \in BOOLEAN
    BY <2>2, RoType
  <2> QED BY <1>3, <2>3 DEF Search
<1> QED BY <1>2, <1>3

----------------------------------------------------------------------------
\* The invariant holds.

LEMMA Initially ==
  ASSUME Init
  PROVE  Inv
<1>1. PICK v \in Values :
        \/ vol = [slot |-> [s \in Slots |-> Deleted], used |-> {},
                  data |-> [c \in Clusters |-> [r \in Records |-> v]]]
        \/ \E n \in Names :
             vol = [[slot |-> [s \in Slots |-> Deleted], used |-> {},
                     data |-> [c \in Clusters |-> [r \in Records |-> v]]]
                    EXCEPT !.slot[1] = [name |-> n, ro |-> TRUE, size |-> 1, cluster |-> 1],
                           !.used = {1}]
  <2> DEFINE bare(v) == [slot |-> [s \in Slots |-> Deleted], used |-> {},
                         data |-> [c \in Clusters |-> [r \in Records |-> v]]]
             with(v, n) == [bare(v) EXCEPT
               !.slot[1] = [name |-> n, ro |-> TRUE, size |-> 1, cluster |-> 1], !.used = {1}]
  <2>1. Cards = UNION {{bare(v)} \cup {with(v, n) : n \in Names} : v \in Values}
    BY DEF Cards
  <2>2. vol \in UNION {{bare(v)} \cup {with(v, n) : n \in Names} : v \in Values}
    BY <2>1 DEF Init
  <2> SUFFICES \E v \in Values : vol = bare(v) \/ \E n \in Names : vol = with(v, n)
    OBVIOUS
  <2> HIDE DEF bare, with
  <2> QED BY <2>2
<1>2. curfil = Closed /\ curfn = "" /\ rdo = FALSE /\ done = Looked /\ stray = FALSE
  BY DEF Init
<1>3. /\ Closed \in File /\ ~Closed.open /\ Closed.slot = 0 /\ Closed.cluster = 0
      /\ Closed.size = 0
  BY ClosedIs
<1>4. OpenKnown(vol, Closed, "") /\ SlotKnown(vol, Closed)
  BY <1>3 DEF OpenKnown, SlotKnown
<1>5. Good(vol, Closed, "")
  <2>1. CASE vol = [slot |-> [s \in Slots |-> Deleted], used |-> {},
                    data |-> [c \in Clusters |-> [r \in Records |-> v]]]
    <3>1. /\ vol \in Volumes /\ vol.used = {}
          /\ \A s \in Slots : vol.slot[s] = Deleted
      BY <2>1, DeletedIs DEF Volumes
    <3>2. \A s \in Slots : /\ vol.slot[s].name = "" /\ vol.slot[s].cluster = 0
                           /\ vol.slot[s].size = 0
      BY <3>1, DeletedIs
    <3>3. NamesKnown(vol)
      BY <3>2 DEF NamesKnown
    <3>4. ClustersKnown(vol, Closed)
      BY <1>3, <3>1, <3>2, SetsAre DEF ClustersKnown
    <3>5. SizesKnown(vol, Closed)
      BY <1>3, <3>2 DEF SizesKnown
    <3> QED BY <1>3, <1>4, <3>1, <3>3, <3>4, <3>5 DEF Good
  <2>2. CASE \E n \in Names :
             vol = [[slot |-> [s \in Slots |-> Deleted], used |-> {},
                     data |-> [c \in Clusters |-> [r \in Records |-> v]]]
                    EXCEPT !.slot[1] = [name |-> n, ro |-> TRUE, size |-> 1, cluster |-> 1],
                           !.used = {1}]
    <3>1. PICK n \in Names :
             vol = [[slot |-> [s \in Slots |-> Deleted], used |-> {},
                     data |-> [c \in Clusters |-> [r \in Records |-> v]]]
                    EXCEPT !.slot[1] = [name |-> n, ro |-> TRUE, size |-> 1, cluster |-> 1],
                           !.used = {1}]
      BY <2>2
    <3> DEFINE e == [name |-> n, ro |-> TRUE, size |-> 1, cluster |-> 1]
               slots == [[s \in Slots |-> Deleted] EXCEPT ![1] = e]
    <3>2. e \in Entry /\ e.name = n /\ e.size = 1 /\ e.cluster = 1
      BY SetsAre DEF Entry
    <3>3. vol = [slot |-> slots, used |-> {1},
                 data |-> [c \in Clusters |-> [r \in Records |-> v]]]
      BY <3>1
    <3> HIDE DEF e
    <3>4. /\ slots \in [Slots -> Entry] /\ slots[1] = e
          /\ \A s \in Slots : s # 1 => slots[s] = Deleted
      BY <3>2, DeletedIs, SetsAre
    <3> HIDE DEF slots
    <3>5. vol \in Volumes /\ vol.used = {1} /\ vol.slot = slots
      BY <3>3, <3>4, SetsAre DEF Volumes
    <3>6. /\ vol.slot[1].name = n /\ vol.slot[1].size = 1 /\ vol.slot[1].cluster = 1
          /\ \A s \in Slots : s # 1 => /\ vol.slot[s].name = "" /\ vol.slot[s].cluster = 0
                                       /\ vol.slot[s].size = 0
      BY <3>2, <3>4, <3>5, DeletedIs
    <3>7. NamesKnown(vol)
      BY <3>6, SetsAre DEF NamesKnown
    <3>8. ClustersKnown(vol, Closed)
      <4>1. ASSUME NEW s \in Slots, NEW t \in Slots, vol.slot[s].cluster = vol.slot[t].cluster
            PROVE  s = t \/ vol.slot[s].cluster = 0
        BY <3>6, <4>1
      <4>2. ASSUME NEW c \in Clusters
            PROVE  c \in vol.used <=> Closed.cluster = c \/ \E s \in Slots : vol.slot[s].cluster = c
        <5>1. c # 0 /\ 1 \in Slots
          BY SetsAre
        <5> QED BY <1>3, <3>5, <3>6, <5>1
      <4> QED BY <1>3, <4>1, <4>2 DEF ClustersKnown
    <3>9. SizesKnown(vol, Closed)
      BY <1>3, <3>6 DEF SizesKnown
    <3> QED BY <1>3, <1>4, <3>5, <3>7, <3>8, <3>9 DEF Good
  <2> QED BY <1>1, <2>1, <2>2
<1>6. TypeOK
  BY <1>2, <1>3, <1>5, CallsAre DEF TypeOK, Good
<1> QED BY <1>2, <1>5, <1>6 DEF Inv

\* What each call leaves.
LEMMA CallLeaves ==
  ASSUME Inv, Next
  PROVE  Left(done') /\ rdo' \in BOOLEAN
<1>1. /\ vol \in Volumes /\ curfil \in File /\ curfn \in Names \cup {Wild, ""}
      /\ rdo \in BOOLEAN /\ stray = FALSE /\ Good(vol, curfil, curfn)
  <2>1. Inv /\ ~stray
    BY DEF Next
  <2> QED BY <2>1 DEF Inv, TypeOK
<1>2. Fine(Looked, vol, curfil, curfn)
  BY <1>1, StaysFine
<1>3. (~rdo) \in BOOLEAN
  BY Zenon
<1>4. CASE Close
  <2>1. Good(f_close(vol, curfil), Closed, "") /\ SameBut({}, vol, curfil, f_close(vol, curfil), Closed)
    BY <1>1, CloseGood
  <2>2. Fine(Looked, f_close(vol, curfil), Closed, "")
    BY <2>1, CallsAre DEF Fine, Changes, Unchanged
  <2> QED BY <1>1, <1>4, <2>2, FineLeft DEF Close
<1>5. CASE SearchNext
  <2>1. \A s \in Hits(Wild) : vol.slot[s].ro \in BOOLEAN
    BY <1>1, RoType DEF Hits
  <2> QED BY <1>1, <1>2, <1>5, <2>1, FineLeft DEF SearchNext
<1>6. ASSUME NEW n \in Names \cup {Wild}, Open(n)
      PROVE  Left(done') /\ rdo' \in BOOLEAN
  <2>1. Fine(Looked, OpenFil(n, ~rdo, FALSE).vol, OpenFil(n, ~rdo, FALSE).fil, n)
    BY <1>1, <1>3, OpenFine
  <2>2. rdo' \in BOOLEAN
    BY <1>1, <1>6, SearchType DEF Open
  <2>3. CASE Hits(n) # {}
    BY <1>1, <1>6, <2>1, <2>2, <2>3, FineLeft DEF Open
  <2>4. CASE Hits(n) = {}
    BY <1>1, <1>2, <1>6, <2>2, <2>4, FineLeft DEF Open
  <2> QED BY <2>3, <2>4
<1>7. ASSUME NEW n \in Names \cup {Wild}, Make(n)
      PROVE  Left(done') /\ rdo' \in BOOLEAN
  <2>1. Fine(<<"make", n>>, OpenFil(n, ~rdo, TRUE).vol, OpenFil(n, ~rdo, TRUE).fil, n)
    BY <1>1, <1>3, OpenFine
  <2> QED BY <1>1, <1>7, <2>1, FineLeft DEF Make
<1>8. ASSUME NEW n \in Names \cup {Wild}, SearchFirst(n)
      PROVE  Left(done') /\ rdo' \in BOOLEAN
  BY <1>1, <1>2, <1>8, SearchType, FineLeft DEF SearchFirst
<1>9. ASSUME NEW n \in Names \cup {Wild}, NEW all \in BOOLEAN, Delete(n, all)
      PROVE  Left(done') /\ rdo' \in BOOLEAN
  <2> DEFINE hits    == Hits(n)
             stops   == {s \in hits : vol.slot[s].ro \/ (all /\ vol.slot[s].size > ExtRecords)}
             upto    == IF stops = {} THEN Final(Slots) ELSE First(stops)
             deleted == {s \in hits : s <= upto /\ ~vol.slot[s].ro}
             past    == {s \in Hits(Wild) : s <= upto}
             slots   == [s \in Slots |-> IF s \in deleted THEN Deleted ELSE vol.slot[s]]
             owned   == {vol.slot[s].cluster : s \in deleted}
             v       == [vol EXCEPT !.slot = slots, !.used = @ \ owned]
  <2>1. rdo' = Passed(past) /\ Empties(<<"delete", n>>, v, deleted)
    BY <1>9 DEF Delete
  <2>2. /\ deleted \in SUBSET Slots /\ past \in SUBSET Slots
        /\ Matching(vol, deleted, n)
    BY DEF Hits, Matching
  <2> HIDE DEF deleted, past
  <2>3. slots = Emptied(vol, deleted) /\ owned = Owned(vol, deleted)
    BY DEF Emptied, Owned
  <2> HIDE DEF slots, owned
  <2>4. Removes(vol, v, deleted)
    BY <2>3 DEF Removes
  <2> HIDE DEF v
  <2>5. Left(done')
    BY <1>1, <2>1, <2>2, <2>4, RemoveLeft
  <2>6. Passed(past) \in BOOLEAN
    BY <1>1, <2>2, PassedType
  <2> QED BY <2>1, <2>5, <2>6
<1>10. ASSUME NEW n \in Names \cup {Wild}, NEW m \in Names, Rename(n, m)
       PROVE  Left(done') /\ rdo' \in BOOLEAN
  <2> DEFINE v == f_rename(vol, n, m).vol
             ok == f_rename(vol, n, m).fr = "OK"
  <2>1. /\ rdo' = rdo
        /\ Empties(<<"rename", n, m>>, v, IF ok THEN {SlotOf(vol, n)} ELSE {})
    BY <1>10 DEF Rename, Lost
  <2>2. IF ok THEN \E s, t \in Slots : /\ s = SlotOf(vol, n) /\ vol.slot[s].name = n
                                        /\ Moves(vol, v, s, t, m)
        ELSE v = vol
    BY <1>1, RenameDoes
  <2> HIDE DEF v, ok
  <2>3. CASE ~ok
    BY <1>1, <2>1, <2>2, <2>3, NoneLeft
  <2>4. CASE ok
    <3>1. PICK s \in Slots, t \in Slots :
            s = SlotOf(vol, n) /\ vol.slot[s].name = n /\ Moves(vol, v, s, t, m)
      BY <2>2, <2>4
    <3>2. Empties(<<"rename", vol.slot[s].name, m>>, v, {s})
      BY <2>1, <2>4, <3>1
    <3> QED BY <1>1, <2>1, <3>1, <3>2, MoveLeft
  <2> QED BY <2>3, <2>4
<1>11. ASSUME NEW n \in Names, MonitorErase(n)
       PROVE  Left(done') /\ rdo' \in BOOLEAN
  <2> DEFINE v == f_unlink(vol, n).vol
             ok == f_unlink(vol, n).fr = "OK"
  <2>1. /\ rdo' = rdo
        /\ Empties(<<"delete", n>>, v, IF ok THEN {SlotOf(vol, n)} ELSE {})
    BY <1>11 DEF MonitorErase, Lost
  <2>2. IF ok THEN \E s \in Slots : /\ s = SlotOf(vol, n) /\ n \in Names
                                     /\ vol.slot[s].name = n /\ Removes(vol, v, {s})
        ELSE v = vol
    BY <1>1, UnlinkDoes
  <2> HIDE DEF v, ok
  <2>3. CASE ~ok
    BY <1>1, <2>1, <2>2, <2>3, NoneLeft
  <2>4. CASE ok
    <3>1. PICK s \in Slots : /\ s = SlotOf(vol, n) /\ vol.slot[s].name = n
                              /\ Removes(vol, v, {s})
      BY <2>2, <2>4
    <3>2. Empties(<<"delete", n>>, v, {s}) /\ {s} \in SUBSET Slots
      BY <2>1, <2>4, <3>1
    <3>3. Matching(vol, {s}, n)
      BY <3>1, SetsAre DEF Matching
    <3> QED BY <1>1, <2>1, <3>1, <3>2, <3>3, RemoveLeft
  <2> QED BY <2>3, <2>4
<1>12. ASSUME NEW n \in Names, Read(n)
       PROVE  Left(done') /\ rdo' \in BOOLEAN
  <2>1. Fine(Looked, OpenFil(n, TRUE, FALSE).vol, OpenFil(n, TRUE, FALSE).fil, n)
    BY <1>1, OpenFine
  <2> QED BY <1>1, <1>12, <2>1, FineLeft DEF Read
<1>13. ASSUME NEW n \in Names, NEW r \in Records, NEW value \in Values, Write(n, r, value)
       PROVE  Left(done') /\ rdo' \in BOOLEAN
  <2> DEFINE o == OpenFil(n, TRUE, FALSE)
  <2>1. PICK ok \in o.returns, c \in Free(o.vol) :
          LET w == f_write(o.vol, o.fil, r, value, c)
          IN IF ok THEN Leaves(Says(w, n, r, value), w.vol, w.fil, n)
                   ELSE Leaves(Looked, o.vol, o.fil, n)
    BY <1>13 DEF Write, Says
  <2>2. rdo' \in BOOLEAN
    BY <1>1, <1>13 DEF Write
  <2>3. Good(o.vol, o.fil, n) /\ SameBut({}, vol, curfil, o.vol, o.fil)
    BY <1>1, OpenFilGood
  <2>4. Fine(Looked, o.vol, o.fil, n)
    BY <1>1, OpenFine
  <2> HIDE DEF o
  <2>5. CASE ok
    <3> DEFINE w == f_write(o.vol, o.fil, r, value, c)
    <3>1. Leaves(Says(w, n, r, value), w.vol, w.fil, n)
      BY <2>1, <2>5
    <3>2. Fine(Says(w, n, r, value), w.vol, w.fil, n)
      BY <2>3, WriteFine
    <3> HIDE DEF w
    <3> QED BY <1>1, <2>2, <3>1, <3>2, FineLeft
  <2>6. CASE ~ok
    <3>1. Leaves(Looked, o.vol, o.fil, n)
      BY <2>1, <2>6
    <3> QED BY <1>1, <2>2, <2>4, <3>1, FineLeft
  <2> QED BY <2>5, <2>6
<1> QED BY <1>4, <1>5, <1>6, <1>7, <1>8, <1>9, <1>10, <1>11, <1>12, <1>13 DEF Next

LEMMA Inductive ==
  ASSUME Inv, [Next]_vars
  PROVE  Inv'
<1>1. CASE Next
  <2>1. Left(done') /\ rdo' \in BOOLEAN
    BY <1>1, CallLeaves
  <2>2. TypeOK'
    BY <2>1 DEF Left, TypeOK
  <2>3. ~stray' => Good(vol', curfil', curfn')
    BY <2>1 DEF Left
  <2> QED BY <2>2, <2>3 DEF Inv
<1>2. CASE UNCHANGED vars
  BY <1>2 DEF vars, Inv, TypeOK
<1> QED BY <1>1, <1>2

\* The inductive invariant.
THEOREM Invariance == Spec => []Inv
<1>1. Init => Inv
  BY Initially
<1>2. Inv /\ [Next]_vars => Inv'
  BY Inductive
<1> QED BY <1>1, <1>2, PTL DEF Spec

----------------------------------------------------------------------------
\* What the invariant gives.

\* Every variable has its type.
THEOREM TypeCorrect == Spec => []TypeOK
BY Invariance, PTL DEF Inv

LEMMA Owners ==
  ASSUME NEW v, NEW fil, NEW fn, Good(v, fil, fn), NEW c \in Clusters,
         NEW S, S = {s \in Slots : v.slot[s].cluster = c} \cup
                    (IF fil.cluster = c THEN {fil.slot} ELSE {})
  PROVE  Cardinality(S) = IF c \in v.used THEN 1 ELSE 0
<1>1. OpenKnown(v, fil, fn) /\ ClustersKnown(v, fil) /\ c # 0
  BY SetsAre DEF Good
<1>2. c \in v.used <=> fil.cluster = c \/ \E s \in Slots : v.slot[s].cluster = c
  BY <1>1 DEF ClustersKnown
<1>3. CASE c \notin v.used
  <2>1. S = {}
    BY <1>2, <1>3
  <2> QED BY <1>3, <2>1, FS_EmptySet
<1>4. CASE c \in v.used
  <2>1. \E s : S = {s}
    <3>1. CASE fil.cluster = c
      BY <1>1, <3>1 DEF ClustersKnown
    <3>2. CASE fil.cluster # c
      <4>1. PICK s \in Slots : v.slot[s].cluster = c
        BY <1>2, <1>4, <3>2
      <4>2. \A t \in Slots : v.slot[t].cluster = c => t = s
        BY <1>1, <4>1 DEF ClustersKnown
      <4> QED BY <3>2, <4>1, <4>2
    <3> QED BY <3>1, <3>2
  <2> QED BY <1>4, <2>1, FS_Singleton
<1> QED BY <1>3, <1>4

\* Until a call deletes or renames the file that is open, curfn names the open
\* file, no name is used twice and no cluster has two owners or none.
THEOREM CacheStaysHonest == Spec => []CacheIsHonest
<1>1. ASSUME Inv
      PROVE  CacheIsHonest
  <2> SUFFICES ASSUME ~stray
               PROVE  /\ curfil.open => vol.slot[curfil.slot].name = curfn
                      /\ \A s, t \in Slots : vol.slot[s].name = vol.slot[t].name =>
                                               s = t \/ vol.slot[s].name = ""
                      /\ \A c \in Clusters :
                           Cardinality({s \in Slots : vol.slot[s].cluster = c} \cup
                                       (IF curfil.cluster = c THEN {curfil.slot} ELSE {}))
                           = IF c \in vol.used THEN 1 ELSE 0
    BY DEF CacheIsHonest
  <2>1. Good(vol, curfil, curfn)
    BY <1>1 DEF Inv
  <2>2. OpenKnown(vol, curfil, curfn) /\ NamesKnown(vol)
    BY <2>1 DEF Good
  <2>3. curfil.open => vol.slot[curfil.slot].name = curfn
    BY <2>2 DEF OpenKnown
  <2>4. \A s, t \in Slots : vol.slot[s].name = vol.slot[t].name =>
                              s = t \/ vol.slot[s].name = ""
    BY <2>2 DEF NamesKnown
  <2>5. ASSUME NEW c \in Clusters
        PROVE  Cardinality({s \in Slots : vol.slot[s].cluster = c} \cup
                           (IF curfil.cluster = c THEN {curfil.slot} ELSE {}))
               = IF c \in vol.used THEN 1 ELSE 0
    BY <2>1, Owners
  <2> QED BY <2>3, <2>4, <2>5
<1> QED BY <1>1, Invariance, PTL

LEMMA SeenIsLook ==
  ASSUME NEW s
  PROVE  Seen(s) = Look(vol, curfil, s)
BY DEF Seen, Look, Contents

\* What is read from a file is what its user sees in it, whichever file is open.
THEOREM ReadsTheNamedFile == Spec => []ReadsAreRight
<1>1. ASSUME Inv, ~stray, NEW n \in Names, NEW r \in Records, NEW x \in Reads(n, r)
      PROVE  Exists(vol, n) /\ x = Seen(SlotOf(vol, n)).data[r]
  <2> DEFINE o == OpenFil(n, TRUE, FALSE)
  <2>1. Good(vol, curfil, curfn)
    BY <1>1 DEF Inv
  <2>2. Good(o.vol, o.fil, n) /\ SameBut({}, vol, curfil, o.vol, o.fil)
    BY <2>1, OpenFilGood
  <2>3. r < o.fil.size /\ o.fil.open /\ x = o.vol.data[o.fil.cluster][r]
    BY <1>1 DEF Reads
  <2> HIDE DEF o
  <2>4. /\ o.fil \in File /\ OpenKnown(o.vol, o.fil, n) /\ SizesKnown(o.vol, o.fil)
        /\ NamesKnown(vol)
    BY <2>1, <2>2 DEF Good
  <2>5. o.fil.slot \in Slots /\ vol.slot[o.fil.slot].name = n
    BY <2>2, <2>3, <2>4 DEF OpenKnown, SameBut
  <2>6. Exists(vol, n) /\ SlotOf(vol, n) = o.fil.slot
    BY <2>4, <2>5, NamedSlot
  <2>7. Look(vol, curfil, o.fil.slot) = Contents(o.vol, o.fil.cluster, o.fil.size)
    BY <2>2, <2>3, <2>5 DEF SameBut, Look
  <2>8. o.fil.size \in Sizes /\ o.fil.cluster # 0 /\ r \in 0 .. o.fil.size - 1
    <3>1. o.fil.size \in Sizes
      BY <2>4, FileIs
    <3>2. r \in 0 .. o.fil.size - 1
      BY <2>3, <3>1, SetsAre
    <3>3. o.fil.size # 0
      <4>1. r \in Nat /\ o.fil.size \in Nat
        BY <3>1, SetsAre
      <4> QED BY <2>3, <4>1
    <3> QED BY <2>4, <3>1, <3>2, <3>3 DEF SizesKnown
  <2>9. Look(vol, curfil, o.fil.slot).data[r] = x
    BY <2>3, <2>7, <2>8, ContentsAre
  <2>10. Seen(SlotOf(vol, n)) = Look(vol, curfil, o.fil.slot)
    BY <2>6, SeenIsLook
  <2> QED BY <2>6, <2>9, <2>10
<1>2. Inv => ReadsAreRight
  BY <1>1 DEF ReadsAreRight
<1> QED BY <1>2, Invariance, PTL

----------------------------------------------------------------------------
\* The files by name.

Now(v, fil) ==
  [n \in {v.slot[s].name : s \in Slots} \ {""} |-> Look(v, fil, SlotOf(v, n))]

LEMMA FilesAreNow == Files = Now(vol, curfil)
<1>1. \A n \in {vol.slot[s].name : s \in Slots} \ {""} :
        Seen(SlotOf(vol, n)) = Look(vol, curfil, SlotOf(vol, n))
  BY SeenIsLook
<1> QED BY <1>1 DEF Files, Now

\* The file of name n is in slot s.
Has(v, n, s) == s \in Slots /\ n # "" /\ v.slot[s].name = n

LEMMA NowDomain ==
  ASSUME NEW v, NEW fil, NEW n
  PROVE  n \in DOMAIN Now(v, fil) <=> \E s : Has(v, n, s)
BY DEF Now, Has

LEMMA NowAt ==
  ASSUME NEW v, NEW fil, NamesKnown(v), NEW n, NEW s, Has(v, n, s)
  PROVE  Now(v, fil)[n] = Look(v, fil, s)
<1>1. n \in {v.slot[t].name : t \in Slots} \ {""}
  BY DEF Has
<1>2. SlotOf(v, n) = s
  BY DEF Has, NamesKnown, SlotOf
<1> QED BY <1>1, <1>2 DEF Now

LEMMA NowIsFunction ==
  ASSUME NEW v, NEW fil, NEW D, NEW f, f = [n \in D |-> f[n]], D = DOMAIN Now(v, fil),
         \A n \in D : f[n] = Now(v, fil)[n]
  PROVE  f = Now(v, fil)
BY DEF Now

LEMMA HasName ==
  ASSUME NEW v, v \in Volumes, NEW n, NEW s, Has(v, n, s)
  PROVE  n \in Names
<1>1. v.slot[s] \in Entry
  BY VolumeIs DEF Has
<1> QED BY <1>1, EntryIs DEF Has

\* Slots that a step leaves have the file they had.
Keeps(v, fil, w, gil, n, s) ==
  /\ Has(v, n, s) <=> Has(w, n, s)
  /\ Has(v, n, s) => Now(w, gil)[n] = Now(v, fil)[n]

LEMMA Kept ==
  ASSUME NEW v, NEW fil, NEW w, NEW gil, NamesKnown(v), NamesKnown(w),
         NEW S, SameBut(S, v, fil, w, gil), NEW n, NEW s, s \notin S
  PROVE  Keeps(v, fil, w, gil, n, s)
<1>1. s \in Slots => w.slot[s].name = v.slot[s].name /\ Look(w, gil, s) = Look(v, fil, s)
  BY DEF SameBut
<1>2. Has(v, n, s) <=> Has(w, n, s)
  BY <1>1 DEF Has
<1>3. ASSUME Has(v, n, s)
      PROVE  Now(w, gil)[n] = Now(v, fil)[n]
  <2>1. Has(w, n, s) /\ s \in Slots
    BY <1>2, <1>3 DEF Has
  <2>2. Now(v, fil)[n] = Look(v, fil, s) /\ Now(w, gil)[n] = Look(w, gil, s)
    BY <1>3, <2>1, NowAt
  <2> QED BY <1>1, <2>1, <2>2
<1> QED BY <1>2, <1>3 DEF Keeps

LEMMA MapUnchanged ==
  ASSUME NEW v, NEW fil, NEW w, NEW gil, NamesKnown(v), NamesKnown(w),
         SameBut({}, v, fil, w, gil)
  PROVE  Now(w, gil) = Now(v, fil)
<1>1. \A n, s : /\ Has(v, n, s) <=> Has(w, n, s)
                /\ Has(v, n, s) => Now(w, gil)[n] = Now(v, fil)[n]
  BY Kept DEF Keeps
<1>2. \A n : n \in DOMAIN Now(w, gil) <=> n \in DOMAIN Now(v, fil)
  BY <1>1, NowDomain
<1>3. \A n \in DOMAIN Now(v, fil) : Now(w, gil)[n] = Now(v, fil)[n]
  BY <1>1, NowDomain
<1> QED BY <1>2, <1>3 DEF Now

LEMMA MapAdded ==
  ASSUME NEW v, NEW fil, NEW w, NEW gil, NamesKnown(v), NamesKnown(w),
         NEW n \in Names, Added(v, fil, w, gil, n),
         NEW F, F = Now(v, fil), NEW G, G = Now(w, gil)
  PROVE  /\ n \notin DOMAIN F /\ DOMAIN G = DOMAIN F \cup {n} /\ G[n].size = 0
         /\ \A k \in DOMAIN F : G[k] = F[k]
<1>1. PICK s \in Slots : /\ v.slot[s].name = "" /\ w.slot[s].name = n
                         /\ Look(w, gil, s).size = 0
                         /\ SameBut({s}, v, fil, w, gil)
  BY DEF Added
<1>2. \A t \in Slots : v.slot[t].name # n
  BY DEF Added
<1>3. \A k, t : t # s => /\ Has(v, k, t) <=> Has(w, k, t)
                         /\ Has(v, k, t) => Now(w, gil)[k] = Now(v, fil)[k]
  <2>1. ASSUME NEW k, NEW t, t \notin {s}
        PROVE  /\ Has(v, k, t) <=> Has(w, k, t)
               /\ Has(v, k, t) => Now(w, gil)[k] = Now(v, fil)[k]
    <3>1. Keeps(v, fil, w, gil, k, t)
      BY <1>1, <2>1, Kept
    <3> QED BY <3>1 DEF Keeps
  <2> QED BY <2>1
<1>4. Has(w, n, s) /\ \A k : ~Has(v, k, s) /\ (Has(w, k, s) => k = n)
  BY <1>1, SetsAre DEF Has
<1>5. n \notin DOMAIN Now(v, fil)
  BY <1>2, NowDomain DEF Has
<1>6. \A k : k \in DOMAIN Now(w, gil) <=> k \in DOMAIN Now(v, fil) \/ k = n
  BY <1>3, <1>4, NowDomain
<1>7. Now(w, gil)[n] = Look(w, gil, s)
  BY <1>4, NowAt
<1>8. \A k \in DOMAIN Now(v, fil) : Now(w, gil)[k] = Now(v, fil)[k]
  BY <1>3, <1>4, NowDomain
<1> QED BY <1>1, <1>5, <1>6, <1>7, <1>8

LEMMA MapWritten ==
  ASSUME NEW v, NEW fil, NEW w, NEW gil, NamesKnown(v), NamesKnown(w),
         NEW n \in Names, NEW r, NEW x, Written(v, fil, w, gil, n, r, x),
         NEW F, F = Now(v, fil), NEW G, G = Now(w, gil)
  PROVE  /\ n \in DOMAIN F /\ DOMAIN G = DOMAIN F
         /\ G[n].size = IF r + 1 > F[n].size THEN r + 1 ELSE F[n].size
         /\ G[n].data[r] = x
         /\ \A q \in 0 .. F[n].size - 1 : q # r => G[n].data[q] = F[n].data[q]
         /\ \A k \in DOMAIN F \ {n} : G[k] = F[k]
<1>1. PICK s \in Slots :
        /\ v.slot[s].name = n /\ w.slot[s].name = n
        /\ Look(w, gil, s).size =
             IF r + 1 > Look(v, fil, s).size THEN r + 1 ELSE Look(v, fil, s).size
        /\ Look(w, gil, s).data[r] = x
        /\ \A q \in 0 .. Look(v, fil, s).size - 1 :
             q # r => Look(w, gil, s).data[q] = Look(v, fil, s).data[q]
        /\ SameBut({s}, v, fil, w, gil)
  BY DEF Written
<1>2. \A k, t : t # s => /\ Has(v, k, t) <=> Has(w, k, t)
                         /\ Has(v, k, t) => G[k] = F[k]
  BY <1>1, Kept DEF Keeps
<1>3. /\ Has(w, n, s) /\ Has(v, n, s)
      /\ \A k : (Has(v, k, s) => k = n) /\ (Has(w, k, s) => k = n)
  BY <1>1, SetsAre DEF Has
<1>4. F[n] = Look(v, fil, s) /\ G[n] = Look(w, gil, s)
  BY <1>3, NowAt
<1>5. n \in DOMAIN F /\ \A k : k \in DOMAIN G <=> k \in DOMAIN F
  BY <1>2, <1>3, NowDomain
<1>6. DOMAIN G = DOMAIN F
  BY <1>5
<1>7. \A k \in DOMAIN F \ {n} : G[k] = F[k]
  BY <1>2, <1>3, NowDomain
<1> QED BY <1>1, <1>4, <1>5, <1>6, <1>7

Without(F, S) == [n \in DOMAIN F \ S |-> F[n]]

LEMMA MapGone ==
  ASSUME NEW v, NEW fil, NEW w, v \in Volumes, NamesKnown(v), NamesKnown(w),
         NEW D \in SUBSET Slots, Gone(D, v, fil, w), NEW mask, Matching(v, D, mask)
  PROVE  \E S \in SUBSET Names : /\ mask = Wild \/ S \subseteq {mask}
                                 /\ Now(w, fil) = Without(Now(v, fil), S)
<1> DEFINE S == {n \in Names : \E s \in D : v.slot[s].name = n}
<1>1. \A n, s : s \notin D => /\ Has(v, n, s) <=> Has(w, n, s)
                              /\ Has(v, n, s) => Now(w, fil)[n] = Now(v, fil)[n]
  <2>1. SameBut(D, v, fil, w, fil)
    BY DEF Gone
  <2>2. ASSUME NEW n, NEW s, s \notin D
        PROVE  /\ Has(v, n, s) <=> Has(w, n, s)
               /\ Has(v, n, s) => Now(w, fil)[n] = Now(v, fil)[n]
    <3>1. Keeps(v, fil, w, fil, n, s)
      BY <2>1, <2>2, Kept
    <3> QED BY <3>1 DEF Keeps
  <2> QED BY <2>2
<1>2. \A n, s : s \in D => ~Has(w, n, s)
  BY DEF Gone, Has
<1>3. \A n, s, t : Has(v, n, s) /\ Has(v, n, t) => s = t
  BY DEF Has, NamesKnown
<1>4. \A n, s : Has(v, n, s) => (n \in S <=> s \in D)
  <2>1. ASSUME NEW n, NEW s, Has(v, n, s)
        PROVE  n \in S <=> s \in D
    <3>1. n \in Names
      BY <2>1, HasName
    <3>2. n \in S <=> \E t \in D : v.slot[t].name = n
      BY <3>1
    <3>3. \A t \in D : v.slot[t].name = n => Has(v, n, t)
      BY <2>1 DEF Has
    <3>4. v.slot[s].name = n
      BY <2>1 DEF Has
    <3> HIDE DEF S
    <3> QED BY <1>3, <2>1, <3>2, <3>3, <3>4
  <2> QED BY <2>1
<1>5. S \in SUBSET Names /\ (mask = Wild \/ S \subseteq {mask})
  <2>1. ASSUME NEW n \in S
        PROVE  mask = Wild \/ n = mask
    BY DEF Matching
  <2> QED BY <2>1
<1> HIDE DEF S
<1>6. \A n : n \in DOMAIN Now(w, fil) <=> n \in DOMAIN Now(v, fil) /\ n \notin S
  BY <1>1, <1>2, <1>4, NowDomain
<1>7. DOMAIN Now(w, fil) = DOMAIN Now(v, fil) \ S
  BY <1>6
<1>8. \A n \in DOMAIN Now(w, fil) : Now(w, fil)[n] = Now(v, fil)[n]
  BY <1>1, <1>2, NowDomain
<1>9. Now(w, fil) = [n \in DOMAIN Now(w, fil) |-> Now(w, fil)[n]]
  BY DEF Now
<1>10. Now(w, fil) = Without(Now(v, fil), S)
  BY <1>7, <1>8, <1>9 DEF Without
<1> QED BY <1>5, <1>10

Renaming(F, n, m) ==
  [k \in (DOMAIN F \ {n}) \cup {m} |-> IF k = m THEN F[n] ELSE F[k]]

LEMMA MapShifted ==
  ASSUME NEW v, NEW fil, NEW w, v \in Volumes, NamesKnown(v), NamesKnown(w),
         NEW s \in Slots, NEW t \in Slots, NEW m, Shifted(v, fil, w, s, t, m),
         NEW F, F = Now(v, fil), NEW G, G = Now(w, fil), NEW n, n = v.slot[s].name
  PROVE  /\ n \in Names /\ m \in Names /\ n \in DOMAIN F /\ m \notin DOMAIN F \ {n}
         /\ DOMAIN G = (DOMAIN F \ {n}) \cup {m}
         /\ \A k \in DOMAIN F \ {n} : G[k] = F[k]
         /\ F[n] = Look(v, fil, s) /\ G[m] = Look(w, fil, t)
<1>1. /\ m \in Names /\ n \in Names /\ v.slot[t].name = "" /\ n # "" /\ m # ""
      /\ m = n \/ \A i \in Slots : v.slot[i].name # m
      /\ w.slot[s].name = "" /\ w.slot[t].name = m
      /\ SameBut({s, t}, v, fil, w, fil)
  BY SetsAre DEF Shifted
<1>2. \A k, i : i # s /\ i # t => /\ Has(v, k, i) <=> Has(w, k, i)
                                  /\ Has(v, k, i) => G[k] = F[k]
  <2>1. ASSUME NEW k, NEW i, i \notin {s, t}
        PROVE  /\ Has(v, k, i) <=> Has(w, k, i)
               /\ Has(v, k, i) => G[k] = F[k]
    <3>1. Keeps(v, fil, w, fil, k, i)
      BY <1>1, <2>1, Kept
    <3> QED BY <3>1 DEF Keeps
  <2> QED BY <2>1
<1>3. /\ Has(v, n, s) /\ Has(w, m, t)
      /\ \A k : /\ ~Has(v, k, t) /\ ~Has(w, k, s)
                /\ Has(v, k, s) => k = n
                /\ Has(w, k, t) => k = m
  BY <1>1 DEF Has
<1>4. F[n] = Look(v, fil, s) /\ G[m] = Look(w, fil, t)
  BY <1>3, NowAt
<1>5. \A k, i, j : Has(v, k, i) /\ Has(v, k, j) => i = j
  BY DEF Has, NamesKnown
<1>6. n \in DOMAIN F
  BY <1>3, NowDomain
<1>7. \A k : k \in DOMAIN G <=> (k \in DOMAIN F /\ k # n) \/ k = m
  BY <1>2, <1>3, <1>5, NowDomain
<1>8. \A k \in DOMAIN F : k # n => G[k] = F[k]
  BY <1>2, <1>3, NowDomain
<1>9. m \notin DOMAIN F \ {n}
  <2>1. m = n \/ \A i : ~Has(v, m, i)
    BY <1>1 DEF Has
  <2> QED BY <2>1, NowDomain
<1>10. DOMAIN G = (DOMAIN F \ {n}) \cup {m}
  BY <1>7
<1> QED BY <1>1, <1>4, <1>6, <1>8, <1>9, <1>10

LEMMA MapMoved ==
  ASSUME NEW v, NEW fil, NEW w, v \in Volumes, NamesKnown(v), NamesKnown(w),
         NEW s \in Slots, NEW t \in Slots, NEW m, Moved(v, fil, w, s, t, m),
         NEW F, F = Now(v, fil), NEW G, G = Now(w, fil), NEW n, n = v.slot[s].name
  PROVE  /\ n \in Names /\ m \in Names /\ n \in DOMAIN F
         /\ m = n => G = F
         /\ m # n => m \notin DOMAIN F /\ G = Renaming(F, n, m)
<1>1. Shifted(v, fil, w, s, t, m) /\ Look(w, fil, t) = Look(v, fil, s)
  BY DEF Moved
<1>2. /\ n \in Names /\ m \in Names /\ n \in DOMAIN F /\ m \notin DOMAIN F \ {n}
      /\ DOMAIN G = (DOMAIN F \ {n}) \cup {m}
      /\ \A k \in DOMAIN F \ {n} : G[k] = F[k]
      /\ F[n] = Look(v, fil, s) /\ G[m] = Look(w, fil, t)
  BY <1>1, MapShifted
<1>9. G = [k \in DOMAIN G |-> G[k]] /\ F = [k \in DOMAIN F |-> F[k]]
  BY DEF Now
<1>10. CASE m = n
  <2>1. DOMAIN G = DOMAIN F
    BY <1>2, <1>10
  <2>2. \A k \in DOMAIN F : G[k] = F[k]
    BY <1>1, <1>2, <1>10
  <2>3. G = F
    BY <1>9, <2>1, <2>2
  <2> QED BY <1>2, <1>10, <2>3
<1>11. CASE m # n
  <2>1. m \notin DOMAIN F
    BY <1>2, <1>11
  <2>3. \A k \in DOMAIN G : G[k] = IF k = m THEN F[n] ELSE F[k]
    BY <1>1, <1>2
  <2>4. G = [k \in (DOMAIN F \ {n}) \cup {m} |-> IF k = m THEN F[n] ELSE F[k]]
    BY <1>2, <1>9, <2>3
  <2> QED BY <1>2, <1>11, <2>1, <2>4 DEF Renaming
<1> QED BY <1>10, <1>11

----------------------------------------------------------------------------
\* The refinement.

LEMMA NowNames ==
  ASSUME NEW v, v \in Volumes, NEW fil
  PROVE  DOMAIN Now(v, fil) \subseteq Names
BY NowDomain, HasName

LEMMA FilesAreThen == Files' = Now(vol', curfil')
<1>1. (Files = Now(vol, curfil))'
  BY FilesAreNow, PTL
<1> QED BY <1>1

\* A step is one of NamedFiles,
LEMMA StepIsNamed ==
  ASSUME NEW fil, fil = curfil', NEW v, v = vol', NEW call, call = done',
         vol \in Volumes, NamesKnown(vol), v \in Volumes, NamesKnown(v),
         Changes(vol, curfil, v, fil, call)
  PROVE  Named!Next
<1> DEFINE F == Now(vol, curfil)
           G == Now(v, fil)
<1>1. Files = F /\ Files' = G
  BY FilesAreNow, FilesAreThen
<1> HIDE DEF F, G
<1>3. CASE Unchanged(vol, curfil, v, fil) /\ call \in Plain
  <2>1. G = F
    BY <1>3, MapUnchanged DEF F, G, Unchanged
  <2>2. call[1] # "write"
    BY <1>3, PlainIs
  <2>3. Named!Other
    BY <1>1, <2>1, <2>2 DEF Named!Other
  <2> QED BY <2>3 DEF Named!Next
<1>4. CASE \E n \in Names : Added(vol, curfil, v, fil, n) /\ call = <<"make", n>>
  <2>1. PICK n \in Names : Added(vol, curfil, v, fil, n) /\ call = <<"make", n>>
    BY <1>4
  <2>2. /\ n \notin DOMAIN F /\ DOMAIN G = DOMAIN F \cup {n} /\ G[n].size = 0
        /\ \A k \in DOMAIN F : G[k] = F[k]
    BY <2>1, MapAdded DEF F, G
  <2>3. Named!Make(n)
    BY <1>1, <2>1, <2>2 DEF Named!Make, Named!Others
  <2> QED BY <2>3 DEF Named!Next
<1>5. CASE \E n \in Names \cup {Wild}, D \in SUBSET Slots :
             /\ curfil = fil /\ Gone(D, vol, curfil, v)
             /\ Matching(vol, D, n) /\ call = <<"delete", n>>
  <2>1. PICK n \in Names \cup {Wild}, D \in SUBSET Slots :
          /\ curfil = fil /\ Gone(D, vol, curfil, v)
          /\ Matching(vol, D, n) /\ call = <<"delete", n>>
    BY <1>5
  <2>2. \E S \in SUBSET Names : /\ n = Wild \/ S \subseteq {n}
                                /\ Now(v, curfil) = Without(Now(vol, curfil), S)
    BY <2>1, MapGone
  <2>3. PICK S \in SUBSET Names : /\ n = Wild \/ S \subseteq {n}
                                  /\ Now(v, curfil) = Without(Now(vol, curfil), S)
    BY <2>2
  <2>5. F = Now(vol, curfil) /\ G = Now(v, curfil)
    BY <2>1 DEF F, G
  <2>6. G = [k \in DOMAIN F \ S |-> F[k]]
    BY <2>3, <2>5 DEF Without
  <2>4. Named!Delete(n)
    BY <1>1, <2>1, <2>3, <2>6 DEF Named!Delete
  <2> QED BY <2>4 DEF Named!Next
<1>6. CASE \E s, t \in Slots, m \in Names :
             /\ curfil = fil /\ Moved(vol, curfil, v, s, t, m)
             /\ call = <<"rename", vol.slot[s].name, m>>
  <2>1. PICK s \in Slots, t \in Slots, m \in Names :
          /\ curfil = fil /\ Moved(vol, curfil, v, s, t, m)
          /\ call = <<"rename", vol.slot[s].name, m>>
    BY <1>6
  <2> DEFINE n == vol.slot[s].name
  <2>2. /\ n \in Names /\ m \in Names /\ n \in DOMAIN F
        /\ m = n => G = F
        /\ m # n => m \notin DOMAIN F /\ G = Renaming(F, n, m)
    BY <2>1, MapMoved DEF F, G
  <2>5. call = <<"rename", n, m>>
    BY <2>1
  <2> HIDE DEF n
  <2>3. CASE m = n
    <3>1. call[1] # "write"
      BY <2>5
    <3>2. Named!Other
      BY <1>1, <2>2, <2>3, <3>1 DEF Named!Other
    <3> QED BY <3>2 DEF Named!Next
  <2>4. CASE m # n
    <3>1. Named!Rename(n, m)
      BY <1>1, <2>2, <2>4, <2>5 DEF Named!Rename, Renaming
    <3> QED BY <2>2, <3>1 DEF Named!Next
  <2> QED BY <2>3, <2>4
<1>7. CASE \E n \in Names, r \in Records, x \in Values :
             Written(vol, curfil, v, fil, n, r, x) /\ call = <<"write", n, r, x>>
  <2>1. PICK n \in Names, r \in Records, x \in Values :
          Written(vol, curfil, v, fil, n, r, x) /\ call = <<"write", n, r, x>>
    BY <1>7
  <2>2. /\ n \in DOMAIN F /\ DOMAIN G = DOMAIN F
        /\ G[n].size = IF r + 1 > F[n].size THEN r + 1 ELSE F[n].size
        /\ G[n].data[r] = x
        /\ \A q \in 0 .. F[n].size - 1 : q # r => G[n].data[q] = F[n].data[q]
        /\ \A k \in DOMAIN F \ {n} : G[k] = F[k]
    BY <2>1, MapWritten DEF F, G
  <2>3. Named!Write(n, r, x)
    BY <1>1, <2>1, <2>2 DEF Named!Write, Named!Others
  <2> QED BY <2>3 DEF Named!Next
<1> QED BY <1>3, <1>4, <1>5, <1>6, <1>7 DEF Changes

\* or renames the open file.
LEMMA CutIsNamed ==
  ASSUME NEW fil, fil = curfil', NEW v, v = vol', NEW call, call = done',
         vol \in Volumes, NamesKnown(vol), v \in Volumes, NamesKnown(v),
         Cuts(vol, curfil, v, fil, call)
  PROVE  \E n, m \in Names : Named!RenameOpen(n, m)
<1> DEFINE F == Now(vol, curfil)
           G == Now(v, fil)
<1>1. Files = F /\ Files' = G
  BY FilesAreNow, FilesAreThen
<1>2. PICK s \in Slots, t \in Slots, m \in Names :
        /\ curfil = fil /\ Cut(vol, curfil, v, s, t, m)
        /\ call = <<"rename", vol.slot[s].name, m>>
  BY DEF Cuts
<1> DEFINE n == vol.slot[s].name
<1>3. Shifted(vol, curfil, v, s, t, m)
  BY <1>2 DEF Cut
<1>4. F = Now(vol, curfil) /\ G = Now(v, curfil) /\ n = vol.slot[s].name
  BY <1>2
<1>5. call = <<"rename", n, m>>
  BY <1>2
<1>6. /\ n \in Names /\ m \in Names /\ n \in DOMAIN F /\ m \notin DOMAIN F \ {n}
      /\ DOMAIN G = (DOMAIN F \ {n}) \cup {m}
      /\ \A k \in DOMAIN F \ {n} : G[k] = F[k]
      /\ F[n] = Look(vol, curfil, s) /\ G[m] = Look(v, curfil, t)
  <2> HIDE DEF F, G, n
  <2> QED BY <1>3, <1>4, MapShifted
<1> HIDE DEF F, G, n
<1>7. /\ G[m].size <= F[n].size
      /\ \A q \in 0 .. G[m].size - 1 : G[m].data[q] = F[n].data[q]
  BY <1>2, <1>6 DEF Cut
<1>8. Named!RenameOpen(n, m)
  BY <1>1, <1>5, <1>6, <1>7 DEF Named!RenameOpen, Named!Others
<1> QED BY <1>6, <1>8

\* Each call works on the file its FCB names, and on no other: what is written,
\* made, deleted or renamed is what the call says, through the cache of one FIL.
\* Only a rename of the file that is open may lose records, its own.
THEOREM ImplementsFilesByName == Spec => ImplementsNamedFiles
<1>1. ASSUME Init
      PROVE  Named!Init
  <2>1. Files = Now(vol, curfil) /\ vol \in Volumes
    BY <1>1, Initially, FilesAreNow DEF Inv, TypeOK
  <2>2. DOMAIN Files \subseteq Names
    BY <2>1, NowNames
  <2>3. done[1] = "other"
    BY <1>1 DEF Init, Looked
  <2> QED BY <2>2, <2>3 DEF Named!Init
<1>2. ASSUME Inv, [Next]_vars
      PROVE  [Named!Next \/ (stray' /\ \E n, m \in Names : Named!RenameOpen(n, m))]_vars
  <2>1. CASE UNCHANGED vars
    BY <2>1
  <2>2. CASE Next
    <3>1. Left(done')
      BY <1>2, <2>2, CallLeaves
    <3>2. Good(vol, curfil, curfn)
      BY <1>2, <2>2 DEF Inv, Next
    <3>3. vol \in Volumes /\ NamesKnown(vol) /\ vol' \in Volumes /\ NamesKnown(vol')
      BY <3>1, <3>2 DEF Good, Left
    <3>4. CASE Changes(vol, curfil, vol', curfil', done')
      <4>1. Named!Next
        BY <3>3, <3>4, StepIsNamed
      <4> QED BY <4>1
    <3>5. CASE stray' /\ Cuts(vol, curfil, vol', curfil', done')
      <4>1. \E n, m \in Names : Named!RenameOpen(n, m)
        BY <3>3, <3>5, CutIsNamed
      <4> QED BY <3>5, <4>1
    <3> QED BY <3>1, <3>4, <3>5 DEF Left
  <2> QED BY <1>2, <2>1, <2>2
<1> QED BY <1>1, <1>2, Invariance, PTL DEF Spec, ImplementsNamedFiles
=============================================================================
