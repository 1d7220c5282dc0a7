---------------------------- MODULE XmodemProofs ----------------------------
(***************************************************************************)
(* What is proved of the X and Y modem transfers, for rings of any size,   *)
(* any number of faults and files of any length.  The types are inductive  *)
(* with what the records of both ends always say (Known).  For xm_transmit *)
(* the invariant OneFile says how far the sender may be ahead, from which  *)
(* it follows that a packet number names one block only, although it has   *)
(* no more than 256 values.  When no answer comes too late, OneAnswer says *)
(* that there is one thing at most that an end has to react to, and so     *)
(* where the receiver is from where the sender is: it lacks the block at   *)
(* hand and no ACK is on the line, or it has that block and no more.       *)
(***************************************************************************)
EXTENDS Xmodem, FiniteSetTheorems, TLAPS

ByteItems == [kind : {"ACK", "NAK", "C", "CAN", "EOT", "junk"}]
Packets ==
  [kind : {"packet"}, no : 0 .. Numbers - 1, crc : BOOLEAN, ok : BOOLEAN,
   name : Nat, block : Nat, blank : BOOLEAN]
Items == ByteItems \cup Packets

RxPlaces == {"try", "wait", "can", "flush"} \cup Ends
RxNexts == {"try", "turn"} \cup Ends
RxRecord ==
  [pc : RxPlaces, say : Seq(ByteItems), next : RxNexts, trychar : {"C", "NAK", "none"},
   crc : BOOLEAN, packetno : 0 .. Numbers - 1, retry : Nat, retrans : Int, ymodem : 0 .. 2,
   size : Int, name : Nat, open : BOOLEAN]

TxPlaces ==
  {"sync", "can", "load", "send", "ack", "eot", "eot ack", "flush",
   "wait C", "header", "header ack"} \cup Ends
TxRecord ==
  [pc : TxPlaces, next : TxPlaces, batch : BOOLEAN, file : Nat \ {0}, size : Nat, block : Nat,
   blank : BOOLEAN, crc : BOOLEAN, packetno : 0 .. Numbers - 1, retry : Nat]

Troubles == {"full", "error", "keys", "tries"}
Blocks == Seq(Nat \X Nat)
FileRecord == [name : Nat, blocks : Blocks]

LineOK ==
  /\ down \in Seq(Items) /\ Len(down) <= LineMax
  /\ up \in Seq(ByteItems) /\ Len(up) <= LineMax

\* A header that names a file names one of the session.
Names(q) ==
  \A i \in DOMAIN q :
    q[i].kind = "packet" /\ q[i].block = 0 /\ ~q[i].blank => q[i].name \in DOMAIN Sizes

TypeOK ==
  /\ LineOK /\ Names(down)
  /\ faults \in Nat /\ trouble \in SUBSET Troubles /\ patient \in BOOLEAN
  /\ rx \in RxRecord /\ tx \in TxRecord
  /\ files \in Seq(FileRecord)

-----------------------------------------------------------------------------
(* Items and queues *)

LEMMA Constants ==
  /\ LineMax \in Nat \ {0} /\ Numbers \in Nat /\ Numbers > 2 * LineMax + 1 /\ Numbers > 3
  /\ IntHalf \in Nat \ {0} /\ SyncTries \in Nat \ {0} /\ MaxRetrans \in Nat \ {0}
  /\ EotTries \in Nat \ {0} /\ BatchTries \in Nat \ {0}
  /\ Sizes \in Seq(Nat) /\ XmtxSizes \subseteq Nat /\ Unsized \subseteq DOMAIN Sizes
BY LineAssumption, RxAssumption, TxAssumption, BatchAssumption

LEMMA OneItem ==
  ASSUME NEW X, NEW x \in X
  PROVE  <<x>> \in Seq(X)
OBVIOUS

LEMMA Counted ==
  ASSUME NEW k \in Nat
  PROVE  k + 1 \in Nat \ {0}
OBVIOUS

LEMMA BytesAreItems ==
  /\ \A k \in {"ACK", "NAK", "C", "CAN", "EOT", "junk"} : Byte(k) \in ByteItems /\ Byte(k).kind = k
  /\ Cans \in Seq(ByteItems) /\ Tail(Cans) \in Seq(ByteItems)
  /\ \A x \in ByteItems : x.kind # "packet" /\ x = Byte(x.kind)
  /\ \A i \in DOMAIN Cans : Cans[i] = Byte("CAN")
  /\ \A i \in DOMAIN Tail(Cans) : Tail(Cans)[i] = Byte("CAN")
<1>1. \A k \in {"ACK", "NAK", "C", "CAN", "EOT", "junk"} :
        Byte(k) \in ByteItems /\ Byte(k).kind = k
  BY DEF Byte, ByteItems
<1>2. Cans \in Seq(ByteItems) /\ Len(Cans) = 3 /\ \A i \in 1 .. 3 : Cans[i] = Byte("CAN")
  BY <1>1 DEF Cans
<1>3. Tail(Cans) \in Seq(ByteItems) /\ Len(Tail(Cans)) = 2
      /\ \A i \in 1 .. 2 : Tail(Cans)[i] = Byte("CAN")
  BY <1>2
<1>4. ASSUME NEW x \in ByteItems PROVE x.kind # "packet" /\ x = Byte(x.kind)
  <2>1. x \in [kind : {"ACK", "NAK", "C", "CAN", "EOT", "junk"}]
    BY DEF ByteItems
  <2>2. x = [kind |-> x.kind]
    BY <2>1
  <2>3. x.kind # "packet"
    BY <2>1
  <2>4. x = Byte(x.kind)
    BY <2>2, Zenon DEF Byte
  <2>. QED  BY <2>3, <2>4
<1>5. DOMAIN Cans = 1 .. 3 /\ DOMAIN Tail(Cans) = 1 .. 2
  <2>1. \A q \in Seq(ByteItems) : DOMAIN q = 1 .. Len(q)
    OBVIOUS
  <2>. QED  BY <1>2, <1>3, <2>1
<1>. QED  BY <1>1, <1>2, <1>3, <1>4, <1>5

\* What is put on a line follows what is on it, as far as there is room.
LEMMA PushDoes ==
  ASSUME NEW X, NEW q \in Seq(X), Len(q) <= LineMax, NEW items \in Seq(X)
  PROVE  /\ Push(q, items) \in Seq(X) /\ Len(Push(q, items)) <= LineMax
         /\ Len(q) <= Len(Push(q, items))
         /\ \A i \in 1 .. Len(q) : Push(q, items)[i] = q[i]
         /\ \A i \in Len(q) + 1 .. Len(Push(q, items)) :
              i - Len(q) \in DOMAIN items /\ Push(q, items)[i] = items[i - Len(q)]
<1>. DEFINE all == q \o items
<1>1. all \in Seq(X) /\ Len(all) = Len(q) + Len(items)
  OBVIOUS
<1>2. \A i \in 1 .. Len(q) : all[i] = q[i]
  OBVIOUS
<1>3. \A i \in Len(q) + 1 .. Len(all) : i - Len(q) \in DOMAIN items /\ all[i] = items[i - Len(q)]
  OBVIOUS
<1>4. CASE Len(all) > LineMax
  <2>1. Push(q, items) = SubSeq(all, 1, LineMax)
    BY <1>4 DEF Push
  <2>2. /\ SubSeq(all, 1, LineMax) \in Seq(X) /\ Len(SubSeq(all, 1, LineMax)) = LineMax
        /\ \A i \in 1 .. LineMax : SubSeq(all, 1, LineMax)[i] = all[i]
    BY <1>1, <1>4, Constants
  <2>. HIDE DEF all
  <2>. QED  BY <1>1, <1>2, <1>3, <1>4, <2>1, <2>2, Constants
<1>5. CASE ~(Len(all) > LineMax)
  <2>1. Push(q, items) = all
    BY <1>5 DEF Push
  <2>. HIDE DEF all
  <2>. QED  BY <1>1, <1>2, <1>3, <1>5, <2>1, Constants
<1>. QED  BY <1>4, <1>5

LEMMA PushOne ==
  ASSUME NEW X, NEW q \in Seq(X), Len(q) <= LineMax, NEW x \in X
  PROVE  Push(q, <<x>>) = IF Len(q) = LineMax THEN q ELSE Append(q, x)
<1>. DEFINE all == q \o <<x>>
<1>1. all = Append(q, x) /\ Len(all) = Len(q) + 1
  OBVIOUS
<1>2. CASE Len(q) = LineMax
  <2>1. Push(q, <<x>>) = SubSeq(all, 1, LineMax)
    BY <1>1, <1>2, Constants DEF Push
  <2>2. SubSeq(all, 1, LineMax) = q
    BY <1>1, <1>2, Constants
  <2>. QED  BY <1>2, <2>1, <2>2
<1>3. CASE Len(q) # LineMax
  <2>1. Len(all) <= LineMax
    BY <1>1, <1>3, Constants
  <2>2. Push(q, <<x>>) = all
    BY <2>1, <1>1, Constants DEF Push
  <2>. QED  BY <1>1, <1>3, <2>2
<1>. QED  BY <1>2, <1>3

\* y is x, or what damage on the line makes of it.
Spoilt(x, y) ==
  \/ y = x
  \/ y = Byte("junk")
  \/ x.kind = "packet" /\ y = [x EXCEPT !.ok = FALSE]

\* r is q after some of its items were read, lost or damaged.
Thinned(q, r) ==
  \E d \in {0, 1} : \A i \in DOMAIN r : i + d \in DOMAIN q /\ Spoilt(q[i + d], r[i])

LEMMA TailThins ==
  ASSUME NEW X, NEW q \in Seq(X), q # <<>>
  PROVE  /\ Tail(q) \in Seq(X) /\ Len(Tail(q)) = Len(q) - 1
         /\ \A i \in 1 .. Len(q) - 1 : Tail(q)[i] = q[i + 1]
         /\ Head(q) = q[1] /\ Head(q) \in X
         /\ Thinned(q, Tail(q))
<1>1. /\ Tail(q) \in Seq(X) /\ Len(Tail(q)) = Len(q) - 1
      /\ \A i \in 1 .. Len(q) - 1 : Tail(q)[i] = q[i + 1]
      /\ Head(q) = q[1] /\ Head(q) \in X
  OBVIOUS
<1>2. \A i \in DOMAIN Tail(q) : i + 1 \in DOMAIN q /\ Spoilt(q[i + 1], Tail(q)[i])
  BY <1>1 DEF Spoilt
<1>. QED  BY <1>1, <1>2 DEF Thinned

LEMMA ReadThins ==
  ASSUME NEW q \in Seq(Items), q # <<>>
  PROVE  /\ ByteRead(q) \in Seq(Items) /\ Len(ByteRead(q)) <= Len(q)
         /\ Thinned(q, ByteRead(q))
<1>1. CASE Head(q).kind = "packet"
  <2>1. /\ Tail(q) \in Seq(Items) /\ Len(Tail(q)) = Len(q) - 1
        /\ \A i \in 1 .. Len(q) - 1 : Tail(q)[i] = q[i + 1]
    BY TailThins
  <2>. DEFINE r == <<Byte("junk")>> \o Tail(q)
  <2>2. Byte("junk") \in Items
    BY BytesAreItems DEF Items
  <2>3. r \in Seq(Items) /\ Len(r) = Len(q) /\ r[1] = Byte("junk")
        /\ \A i \in 2 .. Len(q) : r[i] = Tail(q)[i - 1]
    BY <2>1, <2>2
  <2>4. \A i \in 2 .. Len(q) : r[i] = q[i]
    BY <2>1, <2>3
  <2>5. r = ByteRead(q)
    BY <1>1 DEF ByteRead
  <2>. HIDE DEF r
  <2>6. \A i \in DOMAIN r : i + 0 \in DOMAIN q /\ Spoilt(q[i + 0], r[i])
    BY <2>3, <2>4 DEF Spoilt
  <2>. QED  BY <2>3, <2>5, <2>6 DEF Thinned
<1>2. CASE Head(q).kind # "packet"
  BY <1>2, TailThins DEF ByteRead
<1>. QED  BY <1>1, <1>2

LEMMA StruckThins ==
  ASSUME NEW q \in Seq(Items), q # <<>>, NEW r \in Struck(q)
  PROVE  r \in Seq(Items) /\ Len(r) <= Len(q) /\ Thinned(q, r)
<1>. DEFINE f == Front(q)
            l == Last(q)
<1>1. f \in Seq(Items) /\ Len(f) = Len(q) - 1 /\ \A i \in 1 .. Len(q) - 1 : f[i] = q[i]
  <2>1. Len(q) \in Nat \ {0}
    OBVIOUS
  <2>2. f = SubSeq(q, 1, Len(q) - 1)
    BY DEF Front
  <2>3. PICK n \in Nat : n = Len(q) - 1
    BY <2>1
  <2>4. /\ SubSeq(q, 1, n) \in Seq(Items) /\ Len(SubSeq(q, 1, n)) = n
        /\ \A i \in 1 .. n : SubSeq(q, 1, n)[i] = q[i]
    BY <2>1, <2>3
  <2>. QED  BY <2>2, <2>3, <2>4
<1>2. l = q[Len(q)] /\ l \in Items
  BY DEF Last
<1>3. \A i \in DOMAIN f : i + 0 \in DOMAIN q /\ Spoilt(q[i + 0], f[i])
  BY <1>1 DEF Spoilt
<1>4. CASE r = f
  BY <1>1, <1>3, <1>4 DEF Thinned
<1>5. CASE \E item \in Damaged(l) : r = f \o <<item>>
  <2>1. PICK item \in Damaged(l) : r = f \o <<item>>
    BY <1>5
  <2>2. Spoilt(l, item) /\ item \in Items
    <3>1. CASE item = Byte("junk")
      BY <3>1, BytesAreItems DEF Spoilt, Items
    <3>2. CASE l.kind = "packet" /\ item = [l EXCEPT !.ok = FALSE]
      <4>1. l \in Packets
        BY <1>2, <3>2, BytesAreItems DEF Items
      <4>2. item \in Packets
        BY <3>2, <4>1 DEF Packets
      <4>. QED  BY <3>2, <4>2 DEF Spoilt, Items
    <3>. QED  BY <3>1, <3>2 DEF Damaged
  <2>3. r \in Seq(Items) /\ Len(r) = Len(q) /\ r[Len(q)] = item
        /\ \A i \in 1 .. Len(q) - 1 : r[i] = f[i]
    BY <1>1, <2>1, <2>2
  <2>4. \A i \in DOMAIN r : i + 0 \in DOMAIN q /\ Spoilt(q[i + 0], r[i])
    BY <1>1, <1>2, <1>3, <2>2, <2>3
  <2>. QED  BY <2>3, <2>4 DEF Thinned
<1>. QED  BY <1>4, <1>5 DEF Struck

LEMMA StruckBytes ==
  ASSUME NEW q \in Seq(ByteItems), q # <<>>, NEW r \in Struck(q)
  PROVE  r \in Seq(ByteItems) /\ Len(r) <= Len(q) /\ Thinned(q, r)
<1>1. q \in Seq(Items)
  BY DEF Items
<1>2. r \in Seq(Items) /\ Len(r) <= Len(q) /\ Thinned(q, r)
  BY <1>1, StruckThins
<1>3. \A i \in DOMAIN r : r[i] \in ByteItems
  BY <1>2, BytesAreItems DEF Thinned, Spoilt
<1>. QED  BY <1>2, <1>3

-----------------------------------------------------------------------------
(* Counting *)

\* The places of q that hold an item of S, and how many there are.
PlacesOf(q, S) == {i \in DOMAIN q : q[i] \in S}
Count(q, S) == Cardinality(PlacesOf(q, S))

LEMMA CountType ==
  ASSUME NEW X, NEW q \in Seq(X), NEW S
  PROVE  /\ PlacesOf(q, S) \subseteq 1 .. Len(q) /\ IsFiniteSet(PlacesOf(q, S))
         /\ Count(q, S) \in Nat /\ Count(q, S) <= Len(q)
<1>1. IsFiniteSet(1 .. Len(q)) /\ Cardinality(1 .. Len(q)) = Len(q)
  <2>1. Len(q) \in Nat
    OBVIOUS
  <2>. QED  BY <2>1, FS_Interval
<1>2. PlacesOf(q, S) \subseteq 1 .. Len(q)
  BY DEF PlacesOf
<1>3. IsFiniteSet(PlacesOf(q, S)) /\ Cardinality(PlacesOf(q, S)) <= Len(q)
  BY <1>1, <1>2, FS_Subset
<1>. QED  BY <1>2, <1>3, FS_CardinalityType DEF Count

\* Items outside S do not change the count.
LEMMA CountPush ==
  ASSUME NEW X, NEW q \in Seq(X), Len(q) <= LineMax, NEW items \in Seq(X), NEW S,
         \A i \in DOMAIN items : items[i] \notin S
  PROVE  Count(Push(q, items), S) = Count(q, S)
<1>1. PICK r : r = Push(q, items)
  OBVIOUS
<1>2. /\ r \in Seq(X) /\ Len(q) <= Len(r)
      /\ \A i \in 1 .. Len(q) : r[i] = q[i]
      /\ \A i \in Len(q) + 1 .. Len(r) : i - Len(q) \in DOMAIN items /\ r[i] = items[i - Len(q)]
  BY <1>1, PushDoes
<1>3. DOMAIN r = 1 .. Len(r) /\ DOMAIN q = 1 .. Len(q) /\ Len(q) \in Nat /\ Len(r) \in Nat
  BY <1>2
<1>4. \A i \in Len(q) + 1 .. Len(r) : r[i] \notin S
  BY <1>2
<1>5. PlacesOf(r, S) = PlacesOf(q, S)
  BY <1>2, <1>3, <1>4 DEF PlacesOf
<1>. QED  BY <1>1, <1>5 DEF Count

\* One item more counts at most one more.
LEMMA CountPushOne ==
  ASSUME NEW X, NEW q \in Seq(X), Len(q) <= LineMax, NEW x \in X, NEW S
  PROVE  Count(Push(q, <<x>>), S) <= Count(q, S) + 1
<1>1. PICK r : r = Push(q, <<x>>)
  OBVIOUS
<1>2. r = q \/ r = Append(q, x)
  BY <1>1, PushOne
<1>3. PlacesOf(r, S) \subseteq PlacesOf(q, S) \cup {Len(q) + 1}
  BY <1>2 DEF PlacesOf
<1>4. IsFiniteSet(PlacesOf(q, S)) /\ Count(q, S) \in Nat
  BY CountType
<1>5. PICK T : T = PlacesOf(q, S) \cup {Len(q) + 1}
  OBVIOUS
<1>6. IsFiniteSet(T) /\ Cardinality(T) <= Count(q, S) + 1
  <2>1. PICK U : U = PlacesOf(q, S)
    OBVIOUS
  <2>2. PICK k : k = Len(q) + 1
    OBVIOUS
  <2>3. IsFiniteSet(U) /\ Cardinality(U) = Count(q, S)
    BY <1>4, <2>1 DEF Count
  <2>4. T = U \cup {k}
    BY <1>5, <2>1, <2>2
  <2>5. /\ IsFiniteSet(U \cup {k})
        /\ Cardinality(U \cup {k}) = IF k \in U THEN Cardinality(U) ELSE Cardinality(U) + 1
    BY <2>3, FS_AddElement
  <2>. QED  BY <1>4, <2>3, <2>4, <2>5
<1>7. Cardinality(PlacesOf(r, S)) <= Cardinality(T)
  BY <1>3, <1>5, <1>6, FS_Subset
<1>8. Cardinality(T) \in Nat /\ Count(r, S) \in Nat
  <2>1. r \in Seq(X)
    BY <1>2
  <2>. QED  BY <1>6, <2>1, FS_CardinalityType, CountType
<1>. QED  BY <1>1, <1>4, <1>6, <1>7, <1>8 DEF Count

\* Reading, loss and damage do not add items to a set that damage does not lead into.
LEMMA CountThins ==
  ASSUME NEW X, NEW q \in Seq(X), NEW r \in Seq(X), Thinned(q, r), NEW S,
         \A x, y : Spoilt(x, y) /\ y \in S => x \in S
  PROVE  Count(r, S) <= Count(q, S)
<1>1. PICK d \in {0, 1} : \A i \in DOMAIN r : i + d \in DOMAIN q /\ Spoilt(q[i + d], r[i])
  BY DEF Thinned
<1>2. PICK P : P = PlacesOf(r, S)
  OBVIOUS
<1>3. PICK Q : Q = PlacesOf(q, S)
  OBVIOUS
<1>4. P \subseteq Nat /\ \A i \in P : i + d \in Q
  BY <1>1, <1>2, <1>3 DEF PlacesOf
<1>5. PICK f : f = [i \in P |-> i + d]
  OBVIOUS
<1>6. f \in [P -> Q] /\ \A i, j \in P : f[i] = f[j] => i = j
  BY <1>4, <1>5
<1>7. f \in Injection(P, Q)
  BY <1>6 DEF Injection, IsInjective
<1>8. IsFiniteSet(Q)
  BY <1>3, CountType
<1>9. Cardinality(P) <= Cardinality(Q)
  BY <1>7, <1>8, FS_Injection
<1>. QED  BY <1>2, <1>3, <1>9 DEF Count

\* Reading an item of S takes one away.
LEMMA CountTail ==
  ASSUME NEW X, NEW q \in Seq(X), q # <<>>, NEW S, Head(q) \in S
  PROVE  Count(Tail(q), S) + 1 <= Count(q, S)
<1>1. PICK r : r = Tail(q)
  OBVIOUS
<1>2. r \in Seq(X) /\ Len(r) = Len(q) - 1 /\ \A i \in 1 .. Len(q) - 1 : r[i] = q[i + 1]
  BY <1>1, TailThins
<1>3. PICK P : P = PlacesOf(r, S)
  OBVIOUS
<1>4. PICK Q : Q = PlacesOf(q, S)
  OBVIOUS
<1>5. Len(q) \in Nat /\ Len(q) > 0 /\ DOMAIN q = 1 .. Len(q) /\ DOMAIN r = 1 .. Len(q) - 1
  BY <1>2
<1>6. 1 \in Q
  BY <1>4, <1>5 DEF PlacesOf
<1>7. \A i \in P : i \in Nat /\ i > 0 /\ i + 1 \in Q
  BY <1>2, <1>3, <1>4, <1>5 DEF PlacesOf
<1>8. PICK R : R = Q \ {1}
  OBVIOUS
<1>9. PICK f : f = [i \in P |-> i + 1]
  OBVIOUS
<1>10. f \in [P -> R] /\ \A i, j \in P : f[i] = f[j] => i = j
  BY <1>7, <1>8, <1>9
<1>11. f \in Injection(P, R)
  BY <1>10 DEF Injection, IsInjective
<1>12. IsFiniteSet(Q) /\ Cardinality(Q) \in Nat /\ IsFiniteSet(P) /\ Cardinality(P) \in Nat
  BY <1>2, <1>3, <1>4, CountType, FS_CardinalityType
<1>13. IsFiniteSet(R) /\ Cardinality(R) = Cardinality(Q) - 1
  BY <1>6, <1>8, <1>12, FS_RemoveElement
<1>14. Cardinality(P) <= Cardinality(R)
  BY <1>11, <1>13, FS_Injection
<1>. QED  BY <1>1, <1>3, <1>4, <1>12, <1>13, <1>14 DEF Count

-----------------------------------------------------------------------------
(* Packet numbers *)

LEMMA DivMod ==
  ASSUME NEW n \in Nat, n > 0, NEW k \in Nat
  PROVE  k % n \in 0 .. n - 1 /\ k \div n \in Nat /\ k = n * (k \div n) + (k % n)
OBVIOUS
LEMMA Times ==
  ASSUME NEW n \in Nat, n > 0, NEW a \in Int, NEW b \in Int, a # b
  PROVE  n * a - n * b >= n \/ n * b - n * a >= n
<1>1. \A c \in Nat : n * (c + 1) >= n
  OBVIOUS
<1>2. CASE a > b
  <2>1. PICK c \in Nat : a = b + (c + 1)
    <3>1. a - b - 1 \in Nat /\ a = b + ((a - b - 1) + 1)
      BY <1>2
    <3>. QED  BY <3>1
  <2>2. n * a = n * b + n * (c + 1)
    BY <2>1
  <2>3. n * b \in Int /\ n * (c + 1) \in Int
    OBVIOUS
  <2>. QED  BY <1>1, <2>2, <2>3
<1>3. CASE b > a
  <2>1. PICK c \in Nat : b = a + (c + 1)
    <3>1. b - a - 1 \in Nat /\ b = a + ((b - a - 1) + 1)
      BY <1>3
    <3>. QED  BY <3>1
  <2>2. n * b = n * a + n * (c + 1)
    BY <2>1
  <2>3. n * a \in Int /\ n * (c + 1) \in Int
    OBVIOUS
  <2>. QED  BY <1>1, <2>2, <2>3
<1>. QED  BY <1>2, <1>3

LEMMA ModIs ==
  ASSUME NEW n \in Nat, n > 0, NEW k \in Nat, NEW q \in Nat, NEW r \in 0 .. n - 1,
         k = n * q + r
  PROVE  k % n = r
<1>1. k % n \in 0 .. n - 1 /\ k \div n \in Nat /\ k = n * (k \div n) + (k % n)
  BY DivMod
<1>2. PICK d \in Nat, m \in 0 .. n - 1 : k = n * d + m /\ m = k % n
  BY <1>1
<1>3. n * d \in Int /\ n * q \in Int
  OBVIOUS
<1>4. CASE d # q
  <2>1. n * d - n * q >= n \/ n * q - n * d >= n
    BY <1>4, Times
  <2>2. n * d - n * q = r - m
    BY <1>2, <1>3
  <2>. QED  BY <1>3, <2>1, <2>2
<1>5. CASE d = q
  BY <1>2, <1>3, <1>5
<1>. QED  BY <1>2, <1>4, <1>5

LEMMA ModNear ==
  ASSUME NEW n \in Nat, n > 0, NEW k \in Nat, NEW y \in 0 .. n - 1, k % n = y, k < y + n
  PROVE  k = y
<1>1. PICK d \in Nat : k = n * d + y
  BY DivMod
<1>2. CASE d # 0
  <2>1. PICK c \in Nat : d = c + 1
    <3>1. d - 1 \in Nat /\ d = (d - 1) + 1
      BY <1>2
    <3>. QED  BY <3>1
  <2>2. n * (c + 1) >= n
    OBVIOUS
  <2>. QED  BY <1>1, <2>1, <2>2
<1>. QED  BY <1>1, <1>2

LEMMA ModNext ==
  ASSUME NEW n \in Nat, n > 1, NEW k \in Nat
  PROVE  ((k % n) + 1) % n = (k + 1) % n
<1>1. PICK d \in Nat, m \in 0 .. n - 1 : k = n * d + m /\ m = k % n
  BY DivMod
<1>2. CASE m + 1 < n
  <2>1. (m + 1) % n = m + 1
    <3>1. m + 1 = n * 0 + (m + 1) /\ m + 1 \in 0 .. n - 1 /\ m + 1 \in Nat
      BY <1>2
    <3>. QED  BY <3>1, ModIs
  <2>2. k + 1 = n * d + (m + 1)
    BY <1>1
  <2>3. (k + 1) % n = m + 1
    <3>1. PICK r \in 0 .. n - 1, j \in Nat : r = m + 1 /\ j = k + 1
      BY <1>2
    <3>2. j = n * d + r
      BY <2>2, <3>1
    <3>3. j % n = r
      BY <3>2, ModIs
    <3>. QED  BY <3>1, <3>3
  <2>. QED  BY <1>1, <2>1, <2>3
<1>3. CASE m + 1 = n
  <2>1. (m + 1) % n = 0
    <3>1. n = n * 1 + 0
      OBVIOUS
    <3>. QED  BY <1>3, <3>1, ModIs
  <2>2. k + 1 = n * (d + 1) + 0
    <3>1. n * (d + 1) = n * d + n
      OBVIOUS
    <3>. QED  BY <1>1, <1>3, <3>1
  <2>3. (k + 1) % n = 0
    <3>1. PICK e \in Nat, j \in Nat, z \in 0 .. n - 1 : e = d + 1 /\ j = k + 1 /\ z = 0
      OBVIOUS
    <3>2. j = n * e + z
      BY <2>2, <3>1
    <3>3. j % n = z
      BY <3>2, ModIs
    <3>. QED  BY <3>1, <3>3
  <2>. QED  BY <1>1, <2>1, <2>3
<1>. QED  BY <1>1, <1>2, <1>3

-----------------------------------------------------------------------------
(* What the steps of xm_receive do to its record *)

\* Is the receiver leaving, or gone?
RxDone == rx.pc \in Ends \/ (rx.pc = "flush" /\ rx.next \in Ends)

\* The variables that say which packet of which file it waits for are the same.
SameFile(r, s) ==
  /\ s.packetno = r.packetno /\ s.ymodem = r.ymodem /\ s.size = r.size
  /\ s.name = r.name /\ s.open = r.open

\* An answer is put off only until the line is silent, and no ACK among them.
SayKnown ==
  rx.pc = "flush" =>
    \/ rx.next \in Ends
    \/ rx.next \in {"try", "turn"} /\ rx.say \in {<<>>, <<Byte("NAK")>>}

LEMMA RxOps ==
  ASSUME NEW r \in RxRecord
  PROVE  /\ Turn(r) \in RxRecord /\ Turn(r).pc = "try" /\ SameFile(r, Turn(r))
         /\ Again(r) \in RxRecord /\ Again(r).pc = "try" /\ SameFile(r, Again(r))
<1>1. Turn(r) \in RxRecord /\ Turn(r).pc = "try" /\ SameFile(r, Turn(r))
  <2>1. PICK k \in Nat : k = r.retry + 1
    BY DEF RxRecord
  <2>2. PICK s : s = [r EXCEPT !.pc = "try", !.retry = k]
    OBVIOUS
  <2>3. s \in RxRecord /\ s.pc = "try" /\ SameFile(r, s)
    BY <2>2 DEF RxRecord, SameFile, RxPlaces
  <2>4. Turn(r) = s
    BY <2>1, <2>2 DEF Turn
  <2>. QED  BY <2>3, <2>4
<1>2. 0 \in Nat /\ "try" \in RxPlaces
  BY DEF RxPlaces
<1>3. PICK s : s = [r EXCEPT !.pc = "try", !.retry = 0]
  OBVIOUS
<1>4. s \in RxRecord /\ s.pc = "try"
  BY <1>2, <1>3 DEF RxRecord
<1>5. SameFile(r, s)
  BY <1>3 DEF RxRecord, SameFile
<1>6. Again(r) = s
  BY <1>3 DEF Again
<1>. QED  BY <1>1, <1>4, <1>5, <1>6

LEMMA FlushOp ==
  ASSUME NEW r \in RxRecord, NEW items \in Seq(ByteItems), NEW place \in RxNexts
  PROVE  /\ Flush(r, items, place) \in RxRecord /\ SameFile(r, Flush(r, items, place))
         /\ Flush(r, items, place).pc = "flush" /\ Flush(r, items, place).next = place
         /\ Flush(r, items, place).say = items
BY DEF Flush, RxRecord, SameFile, RxPlaces

LEMMA StartedOp ==
  ASSUME rx \in RxRecord
  PROVE  Started \in RxRecord /\ Started.pc = rx.pc /\ SameFile(rx, Started)
         /\ Started.retrans = rx.retrans /\ Started.trychar = "none"
<1>1. rx.crc \in BOOLEAN /\ rx.trychar \in {"C", "NAK", "none"}
  BY DEF RxRecord
<1>2. (rx.crc \/ rx.trychar = "C") \in BOOLEAN
  BY <1>1
<1>3. PICK b \in BOOLEAN : b = (rx.crc \/ rx.trychar = "C")
  BY <1>2
<1>4. Started = [rx EXCEPT !.crc = b, !.trychar = "none"]
  BY <1>3, Zenon DEF Started
<1>. QED  BY <1>4 DEF RxRecord, SameFile

QuietRx ==
  \/ RxAsk \/ RxNoSync \/ RxTimeout \/ RxDrop \/ RxFlushed \/ RxGone
  \/ RxCan \/ RxSecondCan \/ RxJunk \/ RxReject

\* What the lemma below says of the lines.
QuietLines ==
  /\ down' = down \/ (down # <<>> /\ down' \in {Tail(down), ByteRead(down)})
  /\ \/ up' = up
     \/ \E items \in Seq(ByteItems) :
          /\ up' = Push(up, items)
          /\ RxDone' \/ \A i \in DOMAIN items : items[i] # Byte("ACK")

\* A step that takes no packet leaves the file alone, and does not acknowledge.
LEMMA QuietRxDoes ==
  ASSUME TypeOK, SayKnown, QuietRx
  PROVE  /\ UNCHANGED <<files, tx, patient, faults>>
         /\ trouble' = trouble \/ trouble' = trouble \cup {"tries"}
         /\ rx' \in RxRecord /\ SameFile(rx, rx') /\ SayKnown' /\ QuietLines
         /\ RxDone => RxDone'
<1>. rx \in RxRecord /\ rx.say \in Seq(ByteItems) /\ rx.next \in RxNexts
  BY DEF TypeOK, RxRecord
<1>. Ends \subseteq RxNexts /\ Ends \subseteq RxPlaces /\ "try" \notin Ends /\ "turn" \notin Ends
     /\ "wait" \notin Ends /\ "can" \notin Ends /\ "flush" \notin Ends /\ "nosync" \in Ends
     /\ "cancelled" \in Ends
  BY DEF Ends, RxNexts, RxPlaces
<1>. <<>> \in Seq(ByteItems) /\ <<Byte("ACK")>> \in Seq(ByteItems) /\ <<Byte("NAK")>> \in Seq(ByteItems)
     /\ Cans \in Seq(ByteItems)
  BY BytesAreItems
<1>1. CASE RxAsk
  <2>1. rx' \in RxRecord /\ SameFile(rx, rx') /\ rx'.pc = "wait" /\ rx.pc = "try"
    BY <1>1 DEF RxAsk, RxRecord, SameFile, RxPlaces
  <2>2. PICK items \in Seq(ByteItems) : up' = Push(up, items)
                                        /\ \A i \in DOMAIN items : items[i] # Byte("ACK")
    <3>1. CASE rx.trychar = "none"
      <4>1. up' = Push(up, <<>>)
        BY <1>1, <3>1 DEF RxAsk, Say
      <4>2. \A i \in DOMAIN <<>> : <<>>[i] # Byte("ACK")
        OBVIOUS
      <4>. QED  BY <4>1, <4>2
    <3>2. CASE rx.trychar # "none"
      <4>1. rx.trychar \in {"C", "NAK"}
        BY <3>2 DEF RxRecord
      <4>2. Byte(rx.trychar) \in ByteItems /\ Byte(rx.trychar).kind # "ACK" /\ Byte("ACK").kind = "ACK"
        BY <4>1, BytesAreItems
      <4>3. PICK x : x = Byte(rx.trychar)
        OBVIOUS
      <4>4. <<x>> \in Seq(ByteItems) /\ \A i \in DOMAIN <<x>> : <<x>>[i] # Byte("ACK")
        BY <4>2, <4>3
      <4>5. up' = Push(up, <<x>>)
        BY <1>1, <3>2, <4>3 DEF RxAsk, Say
      <4>. QED  BY <4>4, <4>5
    <3>. QED  BY <3>1, <3>2
  <2>3. QuietLines
    BY <1>1, <2>2 DEF RxAsk, QuietLines
  <2>. QED  BY <1>1, <2>1, <2>3 DEF RxAsk, Keep, SayKnown, RxDone
<1>2. CASE RxNoSync
  <2>1. \/ rx' = Again([rx EXCEPT !.trychar = "NAK"])
        \/ rx' = Flush(rx, Cans, "nosync")
    BY <1>2 DEF RxNoSync
  <2>2. CASE rx' = Again([rx EXCEPT !.trychar = "NAK"])
    <3>1. PICK r : r = [rx EXCEPT !.trychar = "NAK"]
      OBVIOUS
    <3>2. r \in RxRecord /\ SameFile(rx, r)
      BY <3>1 DEF RxRecord, SameFile
    <3>3. rx' = Again(r)
      BY <2>2, <3>1
    <3>4. rx' \in RxRecord /\ rx'.pc = "try" /\ SameFile(r, rx')
      BY <3>2, <3>3, RxOps
    <3>5. SameFile(rx, rx')
      BY <3>2, <3>4 DEF SameFile
    <3>. QED  BY <1>2, <3>4, <3>5 DEF RxNoSync, Keep, line, SayKnown, RxDone, QuietLines
  <2>3. CASE rx' = Flush(rx, Cans, "nosync")
    <3>1. rx' \in RxRecord /\ SameFile(rx, rx') /\ rx'.pc = "flush" /\ rx'.next = "nosync"
      BY <2>3, FlushOp
    <3>. QED  BY <1>2, <3>1 DEF RxNoSync, Keep, line, SayKnown, RxDone, QuietLines
  <2>. QED  BY <2>1, <2>2, <2>3
<1>3. CASE RxTimeout
  <2>1. rx' \in RxRecord /\ SameFile(rx, rx') /\ rx'.pc = "try"
    BY <1>3, RxOps DEF RxTimeout
  <2>. QED  BY <1>3, <2>1 DEF RxTimeout, Keep, line, SayKnown, RxDone, QuietLines
<1>4. CASE RxDrop \/ RxGone
  <2>1. SameFile(rx, rx') /\ rx' = rx
    BY <1>4 DEF RxDrop, RxGone, SameFile
  <2>. QED  BY <1>4, <2>1 DEF RxDrop, RxGone, Keep, SayKnown, RxDone, QuietLines
<1>5. CASE RxFlushed
  <2>1. up' = Push(up, rx.say) /\ rx.pc = "flush"
    BY <1>5 DEF RxFlushed, Say
  <2>2. CASE rx.next \in {"try", "turn"}
    <3>1. rx' = Turn(rx) \/ rx' = Again(rx)
      BY <1>5, <2>2 DEF RxFlushed
    <3>2. rx' \in RxRecord /\ SameFile(rx, rx') /\ rx'.pc = "try"
      BY <3>1, RxOps
    <3>3. \A i \in DOMAIN rx.say : rx.say[i] # Byte("ACK")
      <4>1. rx.say = <<>> \/ rx.say = <<Byte("NAK")>>
        BY <2>1, <2>2 DEF SayKnown
      <4>2. Byte("NAK") # Byte("ACK")
        BY BytesAreItems
      <4>. QED  BY <4>1, <4>2
    <3>4. QuietLines
      BY <1>5, <2>1, <3>3 DEF RxFlushed, QuietLines
    <3>. QED  BY <1>5, <2>1, <2>2, <3>2, <3>4 DEF RxFlushed, Keep, SayKnown, RxDone
  <2>3. CASE rx.next \in Ends
    <3>1. rx' = [rx EXCEPT !.pc = rx.next]
      BY <1>5, <2>3 DEF RxFlushed
    <3>2. rx' \in RxRecord /\ SameFile(rx, rx') /\ rx'.pc \in Ends
      BY <2>3, <3>1 DEF RxRecord, SameFile
    <3>3. RxDone'
      BY <3>2 DEF RxDone
    <3>4. QuietLines
      BY <1>5, <2>1, <3>3 DEF RxFlushed, QuietLines
    <3>. QED  BY <1>5, <3>2, <3>3, <3>4 DEF RxFlushed, Keep, SayKnown
  <2>. QED  BY <2>2, <2>3 DEF RxNexts
<1>6. CASE RxCan
  <2>1. rx' \in RxRecord /\ SameFile(rx, rx') /\ rx'.pc = "can" /\ rx.pc = "wait"
    BY <1>6 DEF RxCan, Arrives, RxRecord, SameFile, RxPlaces
  <2>. QED  BY <1>6, <2>1 DEF RxCan, Arrives, Keep, SayKnown, RxDone, QuietLines
<1>7. CASE RxSecondCan
  <2>1. rx' = Flush(rx, <<Byte("ACK")>>, "cancelled") \/ rx' = Turn(rx)
    BY <1>7 DEF RxSecondCan
  <2>2. CASE rx' = Flush(rx, <<Byte("ACK")>>, "cancelled")
    <3>0. PICK items \in Seq(ByteItems) : items = <<Byte("ACK")>>
      OBVIOUS
    <3>1. rx' \in RxRecord /\ SameFile(rx, rx') /\ rx'.pc = "flush" /\ rx'.next = "cancelled"
      <4>1. PICK place \in RxNexts : place = "cancelled"
        OBVIOUS
      <4>2. rx' = Flush(rx, items, place)
        BY <2>2, <3>0, <4>1
      <4>3. rx' \in RxRecord /\ SameFile(rx, rx')
        BY <4>2, FlushOp
      <4>4. rx'.pc = "flush" /\ rx'.next = place
        BY <4>2 DEF Flush, RxRecord
      <4>. QED  BY <4>1, <4>3, <4>4
    <3>. QED  BY <1>7, <3>1 DEF RxSecondCan, Keep, SayKnown, RxDone, QuietLines
  <2>3. CASE rx' = Turn(rx)
    <3>1. rx' \in RxRecord /\ SameFile(rx, rx') /\ rx'.pc = "try"
      BY <2>3, RxOps
    <3>. QED  BY <1>7, <3>1 DEF RxSecondCan, Keep, SayKnown, RxDone, QuietLines
  <2>. QED  BY <2>1, <2>2, <2>3
<1>8. CASE RxJunk
  <2>1. rx' = Flush(rx, <<>>, "turn") /\ "turn" \in RxNexts
    BY <1>8 DEF RxJunk, RxNexts
  <2>2. /\ rx' \in RxRecord /\ SameFile(rx, rx') /\ rx'.pc = "flush" /\ rx'.next = "turn"
        /\ rx'.say = <<>>
    <3>1. PICK items \in Seq(ByteItems) : items = <<>>
      OBVIOUS
    <3>2. PICK place \in RxNexts : place = "turn"
      BY <2>1
    <3>3. rx' = Flush(rx, items, place)
      BY <2>1, <3>1, <3>2
    <3>4. /\ rx' \in RxRecord /\ SameFile(rx, rx') /\ rx'.pc = "flush" /\ rx'.next = place
          /\ rx'.say = items
      <4>1. rx' \in RxRecord /\ SameFile(rx, rx')
        BY <3>3, FlushOp
      <4>2. rx'.pc = "flush" /\ rx'.next = place /\ rx'.say = items
        BY <3>3 DEF Flush, RxRecord
      <4>. QED  BY <4>1, <4>2
    <3>. QED  BY <3>1, <3>2, <3>4
  <2>3. rx.pc = "wait" /\ down # <<>> /\ down' = Tail(down)
    BY <1>8 DEF RxJunk, Arrives
  <2>. QED  BY <1>8, <2>2, <2>3 DEF RxJunk, Keep, SayKnown, RxDone, QuietLines
<1>9. CASE RxReject
  <2>1. rx' = Flush(Started, <<Byte("NAK")>>, "try") /\ "try" \in RxNexts
    BY <1>9 DEF RxReject, Rejected, RxNexts
  <2>2. /\ rx' \in RxRecord /\ SameFile(Started, rx') /\ rx'.pc = "flush" /\ rx'.next = "try"
        /\ rx'.say = <<Byte("NAK")>>
    <3>1. PICK items \in Seq(ByteItems) : items = <<Byte("NAK")>>
      OBVIOUS
    <3>2. Started \in RxRecord
      BY StartedOp
    <3>3. PICK place \in RxNexts : place = "try"
      BY <2>1
    <3>4. rx' = Flush(Started, items, place)
      BY <2>1, <3>1, <3>3
    <3>5. /\ rx' \in RxRecord /\ SameFile(Started, rx') /\ rx'.pc = "flush" /\ rx'.next = place
          /\ rx'.say = items
      <4>1. rx' \in RxRecord /\ SameFile(Started, rx')
        BY <3>2, <3>4, FlushOp
      <4>2. rx'.pc = "flush" /\ rx'.next = place /\ rx'.say = items
        BY <3>2, <3>4 DEF Flush, RxRecord
      <4>. QED  BY <4>1, <4>2
    <3>. QED  BY <3>1, <3>3, <3>5
  <2>3. SameFile(rx, rx')
    BY <2>2, StartedOp DEF SameFile
  <2>4. rx.pc = "wait" /\ down # <<>> /\ down' = Tail(down)
    BY <1>9 DEF RxReject, Arrives
  <2>. QED  BY <1>9, <2>2, <2>3, <2>4 DEF RxReject, Keep, SayKnown, RxDone, QuietLines
<1>. QED  BY <1>1, <1>2, <1>3, <1>4, <1>5, <1>6, <1>7, <1>8, <1>9 DEF QuietRx

-----------------------------------------------------------------------------
(* Files *)

LEMMA FileFields ==
  ASSUME NEW fs \in Seq(FileRecord), NEW f \in 1 .. Len(fs)
  PROVE  /\ fs[f] \in FileRecord /\ fs[f].name \in Nat /\ fs[f].blocks \in Blocks
         /\ fs[f] = [name |-> fs[f].name, blocks |-> fs[f].blocks]
<1>1. fs[f] \in FileRecord
  OBVIOUS
<1>. QED  BY <1>1 DEF FileRecord

LEMMA FileEdited ==
  ASSUME NEW fs \in Seq(FileRecord), fs # <<>>, NEW bs \in Blocks
  PROVE  /\ [fs EXCEPT ![Len(fs)].blocks = bs] \in Seq(FileRecord)
         /\ Len([fs EXCEPT ![Len(fs)].blocks = bs]) = Len(fs)
         /\ \A f \in 1 .. Len(fs) :
              [fs EXCEPT ![Len(fs)].blocks = bs][f] =
                IF f = Len(fs) THEN [name |-> fs[f].name, blocks |-> bs] ELSE fs[f]
<1>1. PICK k \in Nat : k = Len(fs) /\ k > 0
  OBVIOUS
<1>2. PICK gs : gs = [fs EXCEPT ![Len(fs)].blocks = bs]
  OBVIOUS
<1>3. \A f \in 1 .. k : fs[f] \in FileRecord
  BY <1>1
<1>4. DOMAIN gs = 1 .. k /\ DOMAIN fs = 1 .. k
  BY <1>1, <1>2
<1>5. \A f \in 1 .. k : f # k => gs[f] = fs[f]
  BY <1>1, <1>2, <1>4
<1>6. gs[k] = [fs[k] EXCEPT !.blocks = bs]
  BY <1>1, <1>2, <1>4
<1>7. [fs[k] EXCEPT !.blocks = bs] = [name |-> fs[k].name, blocks |-> bs]
  <2>1. PICK x \in FileRecord : x = fs[k]
    BY <1>1, <1>3
  <2>2. [x EXCEPT !.blocks = bs] = [name |-> x.name, blocks |-> bs]
    BY DEF FileRecord
  <2>. QED  BY <2>1, <2>2
<1>8. gs[k] \in FileRecord
  BY <1>1, <1>3, <1>6, <1>7 DEF FileRecord
<1>9. gs = [f \in 1 .. k |-> IF f = k THEN [fs[k] EXCEPT !.blocks = bs] ELSE fs[f]]
  BY <1>1, <1>2, <1>4
<1>10. gs \in Seq(FileRecord) /\ Len(gs) = k
  BY <1>1, <1>3, <1>8, <1>6, <1>9
<1>. QED  BY <1>1, <1>2, <1>5, <1>6, <1>7, <1>10

LEMMA FileNotEdited ==
  ASSUME NEW fs \in Seq(FileRecord), fs = <<>>, NEW bs
  PROVE  [fs EXCEPT ![Len(fs)].blocks = bs] = fs
OBVIOUS

LEMMA ResizedType ==
  ASSUME rx.size \in Int, NEW blocks \in Blocks
  PROVE  /\ Resized(blocks) \in Blocks
         /\ \A i \in DOMAIN Resized(blocks) :
              Resized(blocks)[i] = Filler \/ (i \in DOMAIN blocks /\ Resized(blocks)[i] = blocks[i])
<1>0. Len(blocks) \in Nat /\ DOMAIN blocks = 1 .. Len(blocks)
      /\ \A i \in 1 .. Len(blocks) : blocks[i] \in Nat \X Nat
  <2>1. \A X : \A a \in Seq(X) :
          Len(a) \in Nat /\ DOMAIN a = 1 .. Len(a) /\ \A i \in 1 .. Len(a) : a[i] \in X
    OBVIOUS
  <2>. QED  BY <2>1, Zenon DEF Blocks
<1>1. PICK k \in Nat : k = IF rx.size > 0 THEN rx.size ELSE Len(blocks)
  <2>1. PICK n \in Nat : n = Len(blocks)
    BY <1>0
  <2>2. PICK m \in Int : m = rx.size
    OBVIOUS
  <2>3. (IF m > 0 THEN m ELSE n) \in Nat
    OBVIOUS
  <2>. QED  BY <2>1, <2>2, <2>3
<1>2. Resized(blocks) = [i \in 1 .. k |-> IF i <= Len(blocks) THEN blocks[i] ELSE Filler]
  BY <1>1, Zenon DEF Resized
<1>3. Filler \in Nat \X Nat
  BY DEF Filler
<1>4. \A i \in 1 .. k : i <= Len(blocks) => i \in DOMAIN blocks /\ blocks[i] \in Nat \X Nat
  BY <1>0
<1>5. PICK bs : bs = Resized(blocks)
  OBVIOUS
<1>6. \A i \in 1 .. k : bs[i] = IF i <= Len(blocks) THEN blocks[i] ELSE Filler
  BY <1>2, <1>5
<1>7. DOMAIN bs = 1 .. k
  BY <1>2, <1>5
<1>8. bs = [i \in 1 .. k |-> bs[i]] /\ \A i \in 1 .. k : bs[i] \in Nat \X Nat
  <2>1. bs = [i \in 1 .. k |-> bs[i]]
    BY <1>2, <1>5, <1>6
  <2>2. ASSUME NEW i \in 1 .. k PROVE bs[i] \in Nat \X Nat
    <3>1. CASE i <= Len(blocks)
      BY <1>4, <1>6, <3>1
    <3>2. CASE ~(i <= Len(blocks))
      BY <1>3, <1>6, <3>2
    <3>. QED  BY <3>1, <3>2
  <2>. QED  BY <2>1, <2>2
<1>9. bs \in Blocks
  <2>1. \A X, b : b = [i \in 1 .. k |-> b[i]] /\ (\A i \in 1 .. k : b[i] \in X) => b \in Seq(X)
    OBVIOUS
  <2>. QED  BY <1>8, <2>1, Zenon DEF Blocks
<1>. QED  BY <1>4, <1>5, <1>6, <1>7, <1>9

LEMMA WithBlocksType ==
  ASSUME files \in Seq(FileRecord), rx \in RxRecord, NEW blocks \in Blocks
  PROVE  WithBlocks(blocks) \in Seq(FileRecord)
<1>1. CASE rx.packetno = 1
  <2>1. [name |-> rx.name, blocks |-> blocks] \in FileRecord
    BY DEF RxRecord, FileRecord
  <2>. QED  BY <1>1, <2>1 DEF WithBlocks
<1>2. CASE rx.packetno # 1 /\ files = <<>>
  <2>1. PICK bs : bs = files[Len(files)].blocks \o blocks
    OBVIOUS
  <2>2. WithBlocks(blocks) = [files EXCEPT ![Len(files)].blocks = bs]
    BY <1>2, <2>1 DEF WithBlocks
  <2>. QED  BY <1>2, <2>2, FileNotEdited
<1>3. CASE rx.packetno # 1 /\ files # <<>>
  <2>1. PICK old \in Blocks : old = files[Len(files)].blocks
    <3>1. Len(files) \in 1 .. Len(files)
      BY <1>3
    <3>. QED  BY <3>1, FileFields
  <2>2. PICK bs \in Blocks : bs = old \o blocks
    <3>1. \A X : \A a, b \in Seq(X) : a \o b \in Seq(X)
      OBVIOUS
    <3>2. old \o blocks \in Blocks
      BY <3>1, Zenon DEF Blocks
    <3>. QED  BY <3>2
  <2>3. WithBlocks(blocks) = [files EXCEPT ![Len(files)].blocks = bs]
    BY <1>3, <2>1, <2>2 DEF WithBlocks
  <2>4. [files EXCEPT ![Len(files)].blocks = bs] \in Seq(FileRecord)
    BY <1>3, FileEdited
  <2>. QED  BY <2>3, <2>4
<1>. QED  BY <1>1, <1>2, <1>3

-----------------------------------------------------------------------------
(* The steps of xm_receive that may change a file or acknowledge *)

\* Something arrived, and was taken off the line.
Taken ==
  /\ rx.pc = "wait" /\ down # <<>> /\ down' = Tail(down)
  /\ UNCHANGED <<tx, patient>>
  /\ rx' \in RxRecord /\ SayKnown'
  /\ \/ up' = up
     \/ \E x \in ByteItems : up' = Push(up, <<x>>)

LEMMA Answer ==
  /\ Byte("ACK") \in ByteItems /\ Byte("NAK") \in ByteItems
  /\ <<>> \in Seq(ByteItems) /\ <<Byte("ACK")>> \in Seq(ByteItems)
  /\ <<Byte("NAK")>> \in Seq(ByteItems) /\ Cans \in Seq(ByteItems)
BY BytesAreItems

LEMMA EotDoes ==
  ASSUME TypeOK, RxEot
  PROVE  /\ Taken /\ Head(down).kind = "EOT"
         /\ files' \in Seq(FileRecord) /\ Len(files') = Len(files)
         /\ \A f \in 1 .. Len(files) :
              /\ files'[f].name = files[f].name
              /\ \A i \in DOMAIN files'[f].blocks :
                   \/ files'[f].blocks[i] = Filler
                   \/ i \in DOMAIN files[f].blocks /\ files'[f].blocks[i] = files[f].blocks[i]
         /\ rx.ymodem = 0 => RxDone'
<1>. rx \in RxRecord /\ files \in Seq(FileRecord)
  BY DEF TypeOK
<1>1. rx.pc = "wait" /\ down # <<>> /\ down' = Tail(down) /\ Head(down).kind = "EOT"
  BY DEF RxEot, Arrives
<1>2. /\ files' \in Seq(FileRecord) /\ Len(files') = Len(files)
      /\ \A f \in 1 .. Len(files) :
           /\ files'[f].name = files[f].name
           /\ \A i \in DOMAIN files'[f].blocks :
                \/ files'[f].blocks[i] = Filler
                \/ i \in DOMAIN files[f].blocks /\ files'[f].blocks[i] = files[f].blocks[i]
  <2>1. CASE files' = files
    BY <2>1
  <2>2. CASE files' = [files EXCEPT ![Len(files)].blocks = Resized(@)] /\ files # <<>>
    <3>1. PICK blocks \in Blocks : blocks = files[Len(files)].blocks
      <4>1. Len(files) \in 1 .. Len(files)
        BY <2>2
      <4>. QED  BY <4>1, FileFields
    <3>2. PICK bs : bs = Resized(blocks)
      OBVIOUS
    <3>3. /\ bs \in Blocks
          /\ \A i \in DOMAIN bs : bs[i] = Filler \/ (i \in DOMAIN blocks /\ bs[i] = blocks[i])
      BY <3>2, ResizedType DEF RxRecord
    <3>4. files' = [files EXCEPT ![Len(files)].blocks = bs]
      BY <2>2, <3>1, <3>2
    <3>5. /\ files' \in Seq(FileRecord) /\ Len(files') = Len(files)
          /\ \A f \in 1 .. Len(files) :
               files'[f] = IF f = Len(files) THEN [name |-> files[f].name, blocks |-> bs]
                                             ELSE files[f]
      <4>1. PICK gs : gs = [files EXCEPT ![Len(files)].blocks = bs]
        OBVIOUS
      <4>2. /\ gs \in Seq(FileRecord) /\ Len(gs) = Len(files)
            /\ \A f \in 1 .. Len(files) :
                 gs[f] = IF f = Len(files) THEN [name |-> files[f].name, blocks |-> bs]
                                           ELSE files[f]
        BY <2>2, <3>3, <4>1, FileEdited
      <4>. QED  BY <3>4, <4>1, <4>2
    <3>6. ASSUME NEW f \in 1 .. Len(files)
          PROVE  /\ files'[f].name = files[f].name
                 /\ \A i \in DOMAIN files'[f].blocks :
                      \/ files'[f].blocks[i] = Filler
                      \/ i \in DOMAIN files[f].blocks /\ files'[f].blocks[i] = files[f].blocks[i]
      <4>1. CASE f = Len(files)
        <5>1. files'[f] = [name |-> files[f].name, blocks |-> bs]
          BY <3>5, <4>1
        <5>2. files'[f].name = files[f].name /\ files'[f].blocks = bs
          BY <5>1
        <5>3. files[f].blocks = blocks
          BY <3>1, <4>1
        <5>. QED  BY <3>3, <5>2, <5>3
      <4>2. CASE f # Len(files)
        BY <3>5, <4>2
      <4>. QED  BY <4>1, <4>2
    <3>. QED  BY <3>5, <3>6
  <2>3. CASE files' = [files EXCEPT ![Len(files)].blocks = Resized(@)] /\ files = <<>>
    <3>1. PICK bs : bs = Resized(files[Len(files)].blocks)
      OBVIOUS
    <3>2. files' = [files EXCEPT ![Len(files)].blocks = bs]
      BY <2>3, <3>1
    <3>. QED  BY <2>1, <2>3, <3>2, FileNotEdited
  <2>. QED  BY <2>1, <2>2, <2>3 DEF RxEot
<1>3. PICK r \in RxRecord : r = [rx EXCEPT !.open = FALSE]
  BY DEF RxRecord
<1>4. CASE rx.ymodem = 0
  <2>1. PICK items \in Seq(ByteItems), place \in RxNexts :
          items = <<Byte("ACK")>> /\ place = "ok"
    BY Answer DEF RxNexts, Ends
  <2>2. rx' = Flush(r, items, place) /\ up' = up
    BY <1>3, <1>4, <2>1 DEF RxEot
  <2>3. rx' \in RxRecord
    BY <2>2, FlushOp
  <2>4. rx'.pc = "flush" /\ rx'.next = "ok" /\ "ok" \in Ends
    BY <2>1, <2>2 DEF Flush, RxRecord, Ends
  <2>. QED  BY <1>1, <1>2, <2>2, <2>3, <2>4 DEF RxEot, Taken, Keep, SayKnown, RxDone
<1>5. CASE rx.ymodem = 1
  <2>1. rx' = [r EXCEPT !.ymodem = 2, !.retry = 1, !.pc = "try"]
    BY <1>3, <1>5 DEF RxEot
  <2>2. rx' \in RxRecord /\ rx'.pc = "try"
    <3>1. PICK two \in 0 .. 2, one \in Nat, place \in RxPlaces :
            two = 2 /\ one = 1 /\ place = "try"
      BY DEF RxPlaces
    <3>2. PICK s : s = [r EXCEPT !.ymodem = two, !.retry = one, !.pc = place]
      OBVIOUS
    <3>3. s \in RxRecord /\ s.pc = place
      BY <3>2 DEF RxRecord
    <3>. QED  BY <2>1, <3>1, <3>2, <3>3
  <2>3. up' = Push(up, <<Byte("NAK")>>)
    BY <1>5 DEF RxEot, Say
  <2>4. \E x \in ByteItems : up' = Push(up, <<x>>)
    BY <2>3, Answer
  <2>. QED  BY <1>1, <1>2, <1>5, <2>2, <2>4 DEF RxEot, Taken, Keep, SayKnown
<1>6. CASE rx.ymodem = 2
  <2>1. rx' = ForNextFile(r)
    BY <1>3, <1>6 DEF RxEot
  <2>2. rx' \in RxRecord /\ rx'.pc = "try"
    <3>1. PICK zero \in 0 .. 2, one \in Nat, place \in RxPlaces, no \in 0 .. Numbers - 1,
               char \in {"C", "NAK", "none"} :
            zero = 0 /\ one = 1 /\ place = "try" /\ no = 1 /\ char = "C"
      BY Constants DEF RxPlaces
    <3>2. PICK s : s = [r EXCEPT !.ymodem = zero, !.retry = one, !.pc = place,
                                 !.packetno = no, !.trychar = char]
      OBVIOUS
    <3>3. s \in RxRecord /\ s.pc = place
      BY <3>2 DEF RxRecord
    <3>. QED  BY <2>1, <3>1, <3>2, <3>3 DEF ForNextFile
  <2>3. up' = Push(up, <<Byte("ACK")>>)
    BY <1>6 DEF RxEot, Say
  <2>. QED  BY <1>1, <1>2, <1>6, <2>2, <2>3, Answer DEF RxEot, Taken, Keep, SayKnown
<1>. QED  BY <1>4, <1>5, <1>6 DEF RxRecord

\* A packet arrived, and was accepted.
LEMMA PacketDoes ==
  ASSUME TypeOK, Arrives("packet")
  PROVE  /\ rx.pc = "wait" /\ down # <<>> /\ down' = Tail(down)
         /\ Head(down) \in Packets /\ Head(down) = down[1]
         /\ Accepts(Head(down)) =>
              /\ Head(down).ok
              /\ Head(down).no = rx.packetno \/ Head(down).no = rx.packetno - 1
<1>1. rx.pc = "wait" /\ down # <<>> /\ down' = Tail(down) /\ Head(down).kind = "packet"
  BY DEF Arrives
<1>2. Head(down) \in Items /\ Head(down) = down[1]
  BY <1>1 DEF TypeOK, LineOK
<1>3. Head(down) \in Packets
  BY <1>1, <1>2, BytesAreItems DEF Items
<1>. QED  BY <1>1, <1>2, <1>3 DEF Accepts

LEMMA SessionEndDoes ==
  ASSUME TypeOK, RxSessionEnd
  PROVE  Taken /\ RxDone' /\ UNCHANGED <<files, trouble, faults>>
<1>1. rx.pc = "wait" /\ down # <<>> /\ down' = Tail(down)
  BY PacketDoes DEF RxSessionEnd
<1>2. PICK items \in Seq(ByteItems), place \in RxNexts : items = <<Byte("ACK")>> /\ place = "ok"
  BY Answer DEF RxNexts, Ends
<1>3. rx \in RxRecord
  BY DEF TypeOK
<1>4. Started \in RxRecord
  BY <1>3, StartedOp
<1>5. rx' = Flush(Started, items, place)
  BY <1>2 DEF RxSessionEnd
<1>6. rx' \in RxRecord
  BY <1>4, <1>5, FlushOp
<1>7. rx'.pc = "flush" /\ rx'.next = "ok" /\ "ok" \in Ends
  BY <1>2, <1>4, <1>5 DEF Flush, RxRecord, Ends
<1>. QED  BY <1>1, <1>6, <1>7 DEF RxSessionEnd, Taken, Keep, SayKnown, RxDone

LEMMA HeaderDoes ==
  ASSUME TypeOK, RxHeader
  PROVE  /\ Taken /\ UNCHANGED <<files, trouble, faults>>
         /\ Accepts(Head(down)) /\ Head(down).no = 0 /\ ~Head(down).blank
         /\ Arrives("packet")
         /\ rx'.packetno = rx.packetno /\ rx'.ymodem = 1 /\ rx'.name = Head(down).name
         /\ rx'.open = rx.open /\ rx'.pc = "try" /\ rx'.retrans = rx.retrans
         /\ rx'.size \in HeaderSizes(Head(down))
         /\ up' = Push(up, <<Byte("ACK")>>)
<1>1. rx.pc = "wait" /\ down # <<>> /\ down' = Tail(down) /\ Head(down) \in Packets
      /\ Arrives("packet") /\ Head(down) = down[1]
  BY PacketDoes DEF RxHeader
<1>2. rx \in RxRecord
  BY DEF TypeOK
<1>3. Started \in RxRecord /\ SameFile(rx, Started) /\ Started.retrans = rx.retrans
  BY <1>2, StartedOp
<1>4. HeaderSizes(Head(down)) \subseteq Int
  <2>1. CASE Head(down).block > 0
    BY <2>1, <1>2 DEF HeaderSizes, RxRecord
  <2>2. CASE ~(Head(down).block > 0) /\ Head(down).name \in Unsized
    BY <2>2, <1>2 DEF HeaderSizes, RxRecord
  <2>3. CASE ~(Head(down).block > 0) /\ Head(down).name \notin Unsized
    <3>1. Head(down).block = 0 /\ ~Head(down).blank /\ Head(down).kind = "packet"
      BY <1>1, <2>3 DEF Packets, RxHeader
    <3>2. 1 \in DOMAIN down
      BY <1>1 DEF TypeOK, LineOK
    <3>3. Head(down).name \in DOMAIN Sizes
      BY <1>1, <3>1, <3>2 DEF TypeOK, Names
    <3>4. Sizes[Head(down).name] \in Nat
      BY <3>3, Constants
    <3>5. Int16(Sizes[Head(down).name]) \in Int
      BY <3>4, Constants DEF Int16
    <3>6. HeaderSizes(Head(down)) = {Int16(Sizes[Head(down).name])}
      BY <2>3, Zenon DEF HeaderSizes
    <3>. QED  BY <3>5, <3>6
  <2>. QED  BY <2>1, <2>2, <2>3
<1>5. PICK size \in Int :
        /\ size \in HeaderSizes(Head(down))
        /\ rx' = Again([Started EXCEPT !.trychar = "C", !.ymodem = 1, !.size = size,
                                       !.name = Head(down).name])
  BY <1>4 DEF RxHeader
<1>6. PICK s : s = [Started EXCEPT !.trychar = "C", !.ymodem = 1, !.size = size,
                                   !.name = Head(down).name]
  OBVIOUS
<1>7. s \in RxRecord
  <2>1. PICK n \in Nat, one \in 0 .. 2, char \in {"C", "NAK", "none"} :
          n = Head(down).name /\ one = 1 /\ char = "C"
    BY <1>1 DEF Packets
  <2>2. s = [Started EXCEPT !.trychar = char, !.ymodem = one, !.size = size, !.name = n]
    BY <1>6, <2>1
  <2>. QED  BY <1>3, <2>2 DEF RxRecord
<1>8. /\ s.packetno = Started.packetno /\ s.ymodem = 1 /\ s.name = Head(down).name
      /\ s.open = Started.open /\ s.size = size /\ s.retrans = Started.retrans
  BY <1>3, <1>6 DEF RxRecord
<1>9. rx' = Again(s)
  BY <1>5, <1>6
<1>10. rx' \in RxRecord /\ rx'.pc = "try" /\ SameFile(s, rx')
  BY <1>7, <1>9, RxOps
<1>11. rx'.retrans = s.retrans
  BY <1>7, <1>9 DEF Again, RxRecord
<1>12. up' = Push(up, <<Byte("ACK")>>)
  BY DEF RxHeader, Say
<1>13. Taken
  BY <1>1, <1>10, <1>12, Answer DEF RxHeader, Keep, Taken, SayKnown
<1>. QED  BY <1>1, <1>3, <1>5, <1>8, <1>10, <1>11, <1>12, <1>13 DEF RxHeader, Keep, SameFile

LEMMA DataDoes ==
  ASSUME TypeOK, RxData
  PROVE  /\ Taken /\ UNCHANGED <<trouble, faults>>
         /\ IsNew(Head(down)) /\ Arrives("packet")
         /\ rx'.packetno = Following(rx.packetno) /\ rx'.ymodem = rx.ymodem
         /\ rx'.name = rx.name /\ rx'.size = rx.size /\ rx'.open
         /\ rx'.retrans = MaxRetrans /\ rx'.pc = "try"
         /\ files' \in Seq(FileRecord) /\ files' = WithBlocks(Written(Head(down)))
         /\ up' = Push(up, <<Byte("ACK")>>)
<1>1. rx.pc = "wait" /\ down # <<>> /\ down' = Tail(down) /\ Head(down) \in Packets
      /\ Arrives("packet")
  BY PacketDoes DEF RxData
<1>2. rx \in RxRecord /\ files \in Seq(FileRecord)
  BY DEF TypeOK
<1>3. Started \in RxRecord /\ SameFile(rx, Started)
  BY <1>2, StartedOp
<1>4. Following(rx.packetno) \in 0 .. Numbers - 1 /\ MaxRetrans \in Int
  BY <1>2, Constants DEF RxRecord, Following
<1>5. PICK s : s = [Started EXCEPT !.open = TRUE, !.retrans = MaxRetrans,
                                   !.packetno = Following(rx.packetno)]
  OBVIOUS
<1>6. s \in RxRecord /\ s.open /\ s.retrans = MaxRetrans /\ s.packetno = Following(rx.packetno)
      /\ s.ymodem = Started.ymodem /\ s.name = Started.name /\ s.size = Started.size
  BY <1>3, <1>4, <1>5 DEF RxRecord
<1>7. rx' = Again(s)
  BY <1>5 DEF RxData
<1>8. rx' \in RxRecord /\ rx'.pc = "try" /\ SameFile(s, rx')
  BY <1>6, <1>7, RxOps
<1>9. rx'.retrans = s.retrans
  BY <1>6, <1>7 DEF Again, RxRecord
<1>10. up' = Push(up, <<Byte("ACK")>>)
  BY DEF RxData, Say
<1>11. Taken
  BY <1>1, <1>8, <1>10, Answer DEF RxData, Keep, Taken, SayKnown
<1>12. files' \in Seq(FileRecord)
  <2>1. Written(Head(down)) \in Blocks
    <3>1. \A X : \A x \in X : <<>> \in Seq(X) /\ <<x>> \in Seq(X)
      OBVIOUS
    <3>2. <<Head(down).name, Head(down).block>> \in Nat \X Nat
      BY <1>1 DEF Packets
    <3>. QED  BY <3>1, <3>2 DEF Written, Blocks
  <2>. QED  BY <1>2, <2>1, WithBlocksType DEF RxData
<1>. QED  BY <1>1, <1>3, <1>6, <1>8, <1>9, <1>10, <1>11, <1>12 DEF RxData, Keep, SameFile

LEMMA CardErrorDoes ==
  ASSUME TypeOK, RxCardError
  PROVE  /\ Taken /\ RxDone' /\ trouble' \in SUBSET Troubles /\ faults' \in Nat
         /\ Arrives("packet") /\ IsNew(Head(down))
         /\ files' \in Seq(FileRecord) /\ files' \in {files, WithBlocks(<<>>)}
         /\ trouble' \in {trouble, trouble \cup {"error"}}
<1>1. rx.pc = "wait" /\ down # <<>> /\ down' = Tail(down) /\ Arrives("packet")
  BY PacketDoes DEF RxCardError
<1>2. PICK items \in Seq(ByteItems), place \in RxNexts : items = Cans /\ place = "card"
  BY Answer DEF RxNexts, Ends
<1>3. rx \in RxRecord /\ files \in Seq(FileRecord)
  BY DEF TypeOK
<1>4. Started \in RxRecord
  BY <1>3, StartedOp
<1>5. rx' = Flush(Started, items, place)
  BY <1>2 DEF RxCardError
<1>6. rx' \in RxRecord
  BY <1>4, <1>5, FlushOp
<1>7. rx'.pc = "flush" /\ rx'.next = "card" /\ "card" \in Ends
  BY <1>2, <1>4, <1>5 DEF Flush, RxRecord, Ends
<1>8. Taken /\ RxDone'
  BY <1>1, <1>6, <1>7 DEF RxCardError, Taken, SayKnown, RxDone
<1>9. files' \in Seq(FileRecord)
  <2>1. <<>> \in Blocks
    BY DEF Blocks
  <2>. QED  BY <1>3, <2>1, WithBlocksType DEF RxCardError
<1>10. /\ trouble' \in {trouble, trouble \cup {"error"}} /\ faults' \in {faults, faults + 1}
       /\ files' \in {files, WithBlocks(<<>>)} /\ IsNew(Head(down))
  BY DEF RxCardError, Fault
<1>11. trouble' \in SUBSET Troubles /\ faults' \in Nat
  BY <1>10 DEF TypeOK, Troubles
<1>. QED  BY <1>1, <1>8, <1>9, <1>10, <1>11

LEMMA DuplicateDoes ==
  ASSUME TypeOK, RxDuplicate
  PROVE  /\ Taken /\ UNCHANGED <<files, trouble, faults>>
         /\ Arrives("packet") /\ Accepts(Head(down)) /\ ~IsNew(Head(down)) /\ Head(down).no # 0
         /\ SameFile(rx, rx')
         /\ RxDone' \/ (rx'.pc = "try" /\ up' = Push(up, <<Byte("ACK")>>))
<1>1. rx.pc = "wait" /\ down # <<>> /\ down' = Tail(down) /\ Arrives("packet")
  BY PacketDoes DEF RxDuplicate
<1>2. PICK items \in Seq(ByteItems), place \in RxNexts : items = Cans /\ place = "failed"
  BY Answer DEF RxNexts, Ends
<1>3. rx \in RxRecord
  BY DEF TypeOK
<1>4. Started \in RxRecord /\ SameFile(rx, Started)
  BY <1>3, StartedOp
<1>5. PICK r : r = [Started EXCEPT !.retrans = @ - 1]
  OBVIOUS
<1>6. r \in RxRecord /\ SameFile(Started, r)
  BY <1>4, <1>5 DEF RxRecord, SameFile
<1>7. CASE r.retrans <= 0
  <2>1. rx' = Flush(r, items, place) /\ up' = up
    BY <1>2, <1>5, <1>7 DEF RxDuplicate
  <2>2. rx' \in RxRecord /\ SameFile(r, rx')
    BY <1>6, <2>1, FlushOp
  <2>3. rx'.pc = "flush" /\ rx'.next = "failed" /\ "failed" \in Ends
    BY <1>2, <1>6, <2>1 DEF Flush, RxRecord, Ends
  <2>4. SameFile(rx, rx')
    BY <1>4, <1>6, <2>2 DEF SameFile
  <2>. QED  BY <1>1, <2>1, <2>2, <2>3, <2>4 DEF RxDuplicate, Keep, Taken, SayKnown, RxDone
<1>8. CASE ~(r.retrans <= 0)
  <2>1. rx' = Again(r) /\ up' = Push(up, <<Byte("ACK")>>)
    BY <1>5, <1>8 DEF RxDuplicate, Say
  <2>2. rx' \in RxRecord /\ SameFile(r, rx') /\ rx'.pc = "try"
    BY <1>6, <2>1, RxOps
  <2>3. SameFile(rx, rx')
    BY <1>4, <1>6, <2>2 DEF SameFile
  <2>4. Taken
    BY <1>1, <2>1, <2>2, Answer DEF RxDuplicate, Keep, Taken, SayKnown
  <2>. QED  BY <1>1, <2>1, <2>2, <2>3, <2>4 DEF RxDuplicate, Keep
<1>. QED  BY <1>7, <1>8

-----------------------------------------------------------------------------
(* What the steps of the sender do *)

Sending  == tx.pc \in {"send", "ack"} \/ (tx.pc = "can" /\ tx.next = "send")
Starting ==
  \/ tx.pc = "sync" \/ (tx.pc = "can" /\ tx.next = "sync")
  \/ tx.pc = "wait C" /\ tx.next = "load"

\* Where it is, and the number of the block it is at.
SenderKnown ==
  /\ tx.pc = "can" => tx.next \in {"sync", "send"}
  /\ tx.pc = "flush" => tx.next \in Ends
  /\ Starting => tx.block = 0 /\ tx.packetno = 1
  /\ Sending => tx.block > 0 /\ tx.packetno = tx.block % Numbers
  /\ tx.pc = "load" => tx.packetno = (tx.block + 1) % Numbers
  /\ ~tx.batch => tx.file = 1 /\ tx.block <= tx.size
                  /\ tx.pc \notin {"wait C", "header", "header ack"}
  /\ tx.batch => tx.pc \notin {"sync", "can"}

SameBlock(t, u) ==
  /\ u.batch = t.batch /\ u.file = t.file /\ u.size = t.size /\ u.block = t.block
  /\ u.packetno = t.packetno

\* Nothing, or a few bytes that start no packet and end none.
Murmurs == {<<>>, Cans, <<Byte("ACK")>>}

LEMMA ToOp ==
  ASSUME tx \in TxRecord, NEW place \in TxPlaces
  PROVE  /\ To(place) \in TxRecord /\ SameBlock(tx, To(place))
         /\ To(place).pc = place /\ To(place).next = tx.next /\ To(place).crc = tx.crc
<1>1. PICK s : s = [tx EXCEPT !.pc = place, !.retry = 0]
  OBVIOUS
<1>2. s \in TxRecord /\ s.pc = place /\ s.next = tx.next /\ s.crc = tx.crc
  BY <1>1 DEF TxRecord
<1>3. SameBlock(tx, s)
  BY <1>1 DEF TxRecord, SameBlock
<1>. QED  BY <1>1, <1>2, <1>3 DEF To

LEMMA LeaveOp ==
  ASSUME tx \in TxRecord, NEW result \in Ends
  PROVE  /\ Leave(result) \in TxRecord /\ SameBlock(tx, Leave(result))
         /\ Leave(result).pc = "flush" /\ Leave(result).next = result
<1>1. result \in TxPlaces /\ "flush" \in TxPlaces
  BY DEF TxPlaces
<1>2. PICK s : s = [tx EXCEPT !.pc = "flush", !.next = result]
  OBVIOUS
<1>3. s \in TxRecord /\ s.pc = "flush" /\ s.next = result
  BY <1>1, <1>2 DEF TxRecord
<1>4. SameBlock(tx, s)
  BY <1>2 DEF TxRecord, SameBlock
<1>. QED  BY <1>2, <1>3, <1>4 DEF Leave

LEMMA RetryDoes ==
  ASSUME tx \in TxRecord, NEW tries, NEW place \in TxPlaces, NEW failed \in Ends,
         Retry(tries, place, failed)
  PROVE  /\ tx' \in TxRecord /\ SameBlock(tx, tx')
         /\ \/ tx'.pc = place /\ tx'.next = tx.next /\ down' = down
            \/ /\ tx'.pc = "flush" /\ tx'.next = failed
               /\ \E items \in Murmurs : down' = Push(down, items)
<1>1. CASE tx.retry + 1 < tries
  <2>1. PICK k \in Nat : k = tx.retry + 1
    BY DEF TxRecord
  <2>2. PICK s : s = [tx EXCEPT !.pc = place, !.retry = k]
    OBVIOUS
  <2>3. s \in TxRecord /\ s.pc = place /\ s.next = tx.next
    BY <2>2 DEF TxRecord
  <2>4. SameBlock(tx, s)
    BY <2>2 DEF TxRecord, SameBlock
  <2>5. tx' = s /\ down' = down
    BY <1>1, <2>1, <2>2 DEF Retry
  <2>. QED  BY <2>3, <2>4, <2>5
<1>2. CASE ~(tx.retry + 1 < tries)
  <2>1. tx' = Leave(failed) /\ down' = Push(down, IF place = "eot" THEN <<>> ELSE Cans)
    BY <1>2 DEF Retry
  <2>2. tx' \in TxRecord /\ SameBlock(tx, tx') /\ tx'.pc = "flush" /\ tx'.next = failed
    BY <2>1, LeaveOp
  <2>3. \E items \in Murmurs : down' = Push(down, items)
    <3>1. CASE place = "eot"
      <4>1. down' = Push(down, <<>>)
        BY <2>1, <3>1
      <4>. QED  BY <4>1 DEF Murmurs
    <3>2. CASE place # "eot"
      <4>1. down' = Push(down, Cans)
        BY <2>1, <3>2
      <4>. QED  BY <4>1 DEF Murmurs
    <3>. QED  BY <3>1, <3>2
  <2>. QED  BY <2>2, <2>3
<1>. QED  BY <1>1, <1>2

\* Where xm_transmit no longer sends blocks.
Closing == tx.pc \in {"eot", "eot ack", "flush"} \cup Ends

UpRead == up' = up \/ (up # <<>> /\ up' = Tail(up))
TxIdles ==
  /\ tx'.pc # "load" /\ tx'.block = tx.block /\ UpRead
  /\ down' = down \/ \E items \in Murmurs : down' = Push(down, items)
TxStarts ==
  tx.block = 0 /\ tx'.block = 0 /\ tx'.pc = "load" /\ down' = down
  /\ up # <<>> /\ up' = Tail(up)
TxIsAcked ==
  /\ tx.pc # "load" /\ tx'.block = tx.block /\ down' = down
  /\ up # <<>> /\ up' = Tail(up) /\ Head(up).kind = "ACK"
TxLoads ==
  tx.pc = "load" /\ tx'.pc = "send" /\ tx'.block = tx.block + 1 /\ UNCHANGED line
TxSends ==
  /\ tx.pc = "send" /\ tx'.pc = "ack" /\ tx'.block = tx.block /\ up' = up
  /\ down' = Push(down, <<Packet(tx.packetno, tx.crc, tx.file, tx.block, tx.blank)>>)
TxEnds ==
  tx.pc = "eot" /\ tx'.pc = "eot ack" /\ tx'.block = tx.block /\ up' = up
  /\ down' = Push(down, <<Byte("EOT")>>)

TxMoves == TxIdles \/ TxStarts \/ TxIsAcked \/ TxLoads \/ TxSends \/ TxEnds
TxLeaves == UNCHANGED <<rx, files, patient>> /\ trouble' \in SUBSET Troubles /\ faults' \in Nat

\* Trying again keeps what is known of the sender.
LEMMA RetryKnown ==
  ASSUME tx \in TxRecord, SenderKnown, ~tx.batch, NEW tries, NEW failed \in Ends,
         NEW place \in {"sync", "send", "eot"}, Retry(tries, place, failed),
         place = "sync" => Starting, place = "send" => Sending, UpRead
  PROVE  /\ tx' \in TxRecord /\ ~tx'.batch /\ SenderKnown' /\ TxIdles
         /\ place = "eot" => Closing'
<1>1. place \in TxPlaces
  BY DEF TxPlaces
<1>2. /\ tx' \in TxRecord /\ SameBlock(tx, tx')
      /\ \/ tx'.pc = place /\ tx'.next = tx.next /\ down' = down
         \/ /\ tx'.pc = "flush" /\ tx'.next = failed
            /\ \E items \in Murmurs : down' = Push(down, items)
  BY <1>1, RetryDoes
<1>3. tx'.pc = place \/ (tx'.pc = "flush" /\ tx'.next \in Ends)
  BY <1>2
<1>4. TxIdles
  BY <1>2 DEF TxIdles, SameBlock
<1>5. SenderKnown'
  BY <1>2, <1>3 DEF SenderKnown, SameBlock, Starting, Sending
<1>. QED  BY <1>2, <1>3, <1>4, <1>5 DEF SameBlock, Closing

LEMMA BlockNumbers ==
  ASSUME tx \in TxRecord
  PROVE  /\ tx.block \in Nat /\ tx.block + 1 \in Nat /\ tx.block + 1 > 0
         /\ tx.block < tx.size => tx.block + 1 <= tx.size
         /\ Following(tx.packetno) \in 0 .. Numbers - 1
         /\ tx.block = 0 /\ tx.packetno = 1 => tx.packetno = (tx.block + 1) % Numbers
         /\ tx.packetno = tx.block % Numbers => Following(tx.packetno) = (tx.block + 1) % Numbers
<1>1. PICK n \in Nat : n = Numbers /\ n > 3
  BY Constants
<1>2. PICK b \in Nat : b = tx.block
  BY DEF TxRecord
<1>3. PICK m \in Nat : m = tx.size
  BY DEF TxRecord
<1>4. PICK p \in Nat : p = tx.packetno
  BY Constants DEF TxRecord
<1>5. b + 1 \in Nat /\ b + 1 > 0 /\ (b < m => b + 1 <= m)
  OBVIOUS
<1>6. Following(tx.packetno) = (p + 1) % n
  BY <1>1, <1>4 DEF Following
<1>7. (p + 1) % n \in 0 .. n - 1
  BY <1>1
<1>8. 1 % n = 1
  <2>1. PICK z \in Nat : z = 0
    OBVIOUS
  <2>2. n * z = 0
    BY <2>1
  <2>3. PICK r \in 0 .. n - 1 : r = 1
    BY <1>1
  <2>4. r \in Nat /\ r = n * z + r
    BY <2>2
  <2>5. r % n = r
    BY <1>1, <2>4, ModIs
  <2>. QED  BY <2>3, <2>5
<1>9. ((b % n) + 1) % n = (b + 1) % n
  <2>1. n > 1
    BY <1>1
  <2>. QED  BY <2>1, ModNext
<1>10. tx.block = 0 /\ tx.packetno = 1 => tx.packetno = (tx.block + 1) % Numbers
  <2>1. b = 0 => b + 1 = 1
    OBVIOUS
  <2>. QED  BY <1>1, <1>2, <1>8, <2>1
<1>11. tx.packetno = tx.block % Numbers => Following(tx.packetno) = (tx.block + 1) % Numbers
  BY <1>1, <1>2, <1>4, <1>6, <1>9
<1>. QED  BY <1>1, <1>2, <1>3, <1>5, <1>6, <1>7, <1>10, <1>11

LEMMA FaultCounts ==
  ASSUME TypeOK
  PROVE  faults \in Nat /\ faults + 1 \in Nat
BY DEF TypeOK

\* xm_transmit
LEMMA TransmitDoes ==
  ASSUME TypeOK, SenderKnown, ~tx.batch, TxStep
  PROVE  /\ tx' \in TxRecord /\ ~tx'.batch /\ SenderKnown' /\ TxLeaves /\ TxMoves
         /\ Closing => Closing' /\ (TxIdles \/ TxEnds)
<1>. tx \in TxRecord
  BY DEF TypeOK
<1>. Ends \subseteq TxPlaces /\ {"nosync", "failed", "cancelled", "ok"} \subseteq Ends
     /\ {"sync", "send", "eot", "load", "can"} \subseteq TxPlaces
     /\ \A p \in {"sync", "can", "load", "send", "ack", "eot", "eot ack", "flush"} : p \notin Ends
  BY DEF TxPlaces, Ends
<1>0. UNCHANGED trouble /\ UNCHANGED faults /\ UNCHANGED <<rx, files, patient>> => TxLeaves
  BY DEF TxLeaves, TypeOK
<1>1. CASE TxSync
  <2>1. tx.pc = "sync" /\ up # <<>> /\ up' = Tail(up) /\ TxLeaves
    BY <1>0, <1>1 DEF TxSync, TxAt, TxKeeps
  <2>2. CASE Head(up).kind \in {"C", "NAK"}
    <3>1. PICK b \in BOOLEAN : b = (Head(up).kind = "C")
      OBVIOUS
    <3>2. tx' = [To("load") EXCEPT !.crc = b] /\ down' = down
      BY <1>1, <2>2, <3>1 DEF TxSync
    <3>3. To("load") \in TxRecord /\ SameBlock(tx, To("load")) /\ To("load").pc = "load"
      BY ToOp
    <3>4. tx' \in TxRecord /\ SameBlock(tx, tx') /\ tx'.pc = "load"
      BY <3>2, <3>3 DEF TxRecord, SameBlock
    <3>5. tx.block = 0 /\ tx.packetno = 1
      BY <2>1 DEF SenderKnown, Starting
    <3>8. tx.packetno = (tx.block + 1) % Numbers
      BY <3>5, BlockNumbers
    <3>6. SenderKnown'
      BY <2>1, <3>4, <3>5, <3>8 DEF SenderKnown, SameBlock, Starting, Sending
    <3>7. TxStarts
      BY <2>1, <3>2, <3>4, <3>5 DEF TxStarts, SameBlock
    <3>. QED  BY <2>1, <3>4, <3>6, <3>7 DEF TxMoves, Closing, SameBlock
  <2>3. CASE Head(up).kind = "CAN"
    <3>1. tx' = [tx EXCEPT !.pc = "can", !.next = "sync"] /\ down' = down
      BY <1>1, <2>3 DEF TxSync
    <3>2. tx' \in TxRecord /\ SameBlock(tx, tx') /\ tx'.pc = "can" /\ tx'.next = "sync"
      BY <3>1 DEF TxRecord, SameBlock
    <3>3. SenderKnown'
      BY <2>1, <3>2 DEF SenderKnown, SameBlock, Starting, Sending
    <3>4. TxIdles
      BY <2>1, <3>1, <3>2 DEF TxIdles, UpRead, SameBlock
    <3>. QED  BY <2>1, <3>2, <3>3, <3>4 DEF TxMoves, Closing, SameBlock
  <2>4. CASE Head(up).kind \notin {"C", "NAK", "CAN"}
    <3>1. Retry(SyncTries, "sync", "nosync")
      BY <1>1, <2>4 DEF TxSync, RetrySync
    <3>2. Starting /\ UpRead
      BY <2>1 DEF Starting, UpRead
    <3>3. tx' \in TxRecord /\ ~tx'.batch /\ SenderKnown' /\ TxIdles
      BY <3>1, <3>2, RetryKnown
    <3>. QED  BY <2>1, <3>3 DEF TxMoves, Closing
  <2>. QED  BY <2>2, <2>3, <2>4
<1>2. CASE TxCan
  <2>1. tx.pc = "can" /\ UpRead /\ TxLeaves
    BY <1>0, <1>2 DEF TxCan, TxAt, TxKeeps, UpRead
  <2>2. CASE tx' = Leave("cancelled") /\ down' = Push(down, <<Byte("ACK")>>)
    <3>1. tx' \in TxRecord /\ SameBlock(tx, tx') /\ tx'.pc = "flush" /\ tx'.next \in Ends
      BY <2>2, LeaveOp
    <3>2. SenderKnown'
      BY <2>1, <3>1 DEF SenderKnown, SameBlock, Starting, Sending
    <3>3. TxIdles
      BY <2>1, <2>2, <3>1 DEF TxIdles, SameBlock, Murmurs
    <3>. QED  BY <2>1, <3>1, <3>2, <3>3 DEF TxMoves, Closing, SameBlock
  <2>3. CASE tx.next = "sync" /\ RetrySync
    <3>1. Starting
      BY <2>1, <2>3 DEF Starting
    <3>2. tx' \in TxRecord /\ ~tx'.batch /\ SenderKnown' /\ TxIdles
      BY <2>1, <2>3, <3>1, RetryKnown DEF RetrySync
    <3>. QED  BY <2>1, <3>2 DEF TxMoves, Closing
  <2>4. CASE tx.next # "sync" /\ RetrySend
    <3>1. Sending
      BY <2>1, <2>4 DEF Sending, SenderKnown
    <3>2. tx' \in TxRecord /\ ~tx'.batch /\ SenderKnown' /\ TxIdles
      BY <2>1, <2>4, <3>1, RetryKnown DEF RetrySend
    <3>. QED  BY <2>1, <3>2 DEF TxMoves, Closing
  <2>. QED  BY <1>2, <2>2, <2>3, <2>4 DEF TxCan
<1>3. CASE TxLoad
  <2>1. tx.pc = "load" /\ UNCHANGED line /\ TxLeaves
    <3>1. faults \in Nat /\ trouble \in SUBSET Troubles /\ "error" \in Troubles
      BY DEF TypeOK, Troubles
    <3>2. \/ UNCHANGED <<faults, trouble>>
          \/ faults' = faults + 1 /\ trouble' = trouble \cup {"error"} /\ faults + 1 \in Nat
      BY <1>3, FaultCounts DEF TxLoad, Fault
    <3>3. trouble' \in SUBSET Troubles
      BY <3>1, <3>2
    <3>4. faults' \in Nat
      BY <3>1, <3>2
    <3>. QED  BY <1>3, <3>3, <3>4 DEF TxLoad, TxLeaves
  <2>2. CASE tx.block < tx.size /\ \E blank \in BOOLEAN :
               tx' = [To("send") EXCEPT !.block = @ + 1, !.blank = blank]
    <3>1. PICK blank \in BOOLEAN : tx' = [To("send") EXCEPT !.block = @ + 1, !.blank = blank]
      BY <2>2
    <3>2. PICK t \in TxRecord : t = To("send") /\ SameBlock(tx, t) /\ t.pc = "send"
      BY ToOp
    <3>3. PICK k \in Nat : k = tx.block + 1
      BY BlockNumbers
    <3>4. tx' = [t EXCEPT !.block = k, !.blank = blank]
      BY <3>1, <3>2, <3>3 DEF SameBlock, TxRecord
    <3>5. /\ tx' \in TxRecord /\ tx'.pc = "send" /\ tx'.block = k
          /\ tx'.batch = tx.batch /\ tx'.file = tx.file /\ tx'.size = tx.size
          /\ tx'.packetno = tx.packetno
      BY <3>2, <3>4 DEF TxRecord, SameBlock
    <3>6. tx.packetno = k % Numbers /\ k > 0 /\ k <= tx.size
      <4>1. k > 0 /\ k <= tx.size
        BY <2>2, <3>3, BlockNumbers
      <4>. QED  BY <2>1, <3>3, <4>1 DEF SenderKnown
    <3>7. SenderKnown'
      BY <2>1, <3>5, <3>6 DEF SenderKnown, Starting, Sending
    <3>8. TxLoads
      BY <2>1, <3>3, <3>5 DEF TxLoads
    <3>. QED  BY <2>1, <3>5, <3>7, <3>8 DEF TxMoves, Closing
  <2>3. CASE tx' = To("eot")
    <3>1. tx' \in TxRecord /\ SameBlock(tx, tx') /\ tx'.pc = "eot"
      BY <2>3, ToOp
    <3>2. SenderKnown'
      BY <2>1, <3>1 DEF SenderKnown, SameBlock, Starting, Sending
    <3>3. TxIdles
      BY <2>1, <3>1 DEF TxIdles, UpRead, SameBlock, line
    <3>. QED  BY <2>1, <3>1, <3>2, <3>3 DEF TxMoves, Closing, SameBlock
  <2>. QED  BY <1>3, <2>2, <2>3 DEF TxLoad
<1>4. CASE TxSend
  <2>1. tx.pc = "send" /\ tx' = [tx EXCEPT !.pc = "ack"] /\ TxLeaves
    BY <1>0, <1>4 DEF TxSend, TxKeeps
  <2>2. /\ tx' \in TxRecord /\ SameBlock(tx, tx') /\ tx'.pc = "ack"
    BY <2>1 DEF TxRecord, TxPlaces, SameBlock
  <2>3. SenderKnown'
    BY <2>1, <2>2 DEF SenderKnown, SameBlock, Starting, Sending
  <2>4. TxSends
    BY <1>4, <2>1, <2>2 DEF TxSend, TxSends, SameBlock
  <2>. QED  BY <2>1, <2>2, <2>3, <2>4 DEF TxMoves, Closing, SameBlock
<1>5. CASE TxAck
  <2>1. tx.pc = "ack" /\ up # <<>> /\ up' = Tail(up) /\ TxLeaves
    BY <1>0, <1>5 DEF TxAck, TxAt, TxKeeps
  <2>2. CASE Head(up).kind = "ACK"
    <3>1. tx' = [To("load") EXCEPT !.packetno = Following(@)] /\ down' = down
      BY <1>5, <2>2 DEF TxAck, TxAcked
    <3>2. PICK t \in TxRecord : t = To("load") /\ SameBlock(tx, t) /\ t.pc = "load"
      BY ToOp
    <3>3. PICK n \in 0 .. Numbers - 1 : n = Following(tx.packetno)
      BY BlockNumbers
    <3>4. tx' = [t EXCEPT !.packetno = n]
      BY <3>1, <3>2, <3>3 DEF SameBlock
    <3>5. /\ tx' \in TxRecord /\ tx'.pc = "load" /\ tx'.block = tx.block
          /\ tx'.batch = tx.batch /\ tx'.file = tx.file /\ tx'.size = tx.size
          /\ tx'.packetno = n
      BY <3>2, <3>4 DEF TxRecord, SameBlock
    <3>6. tx.packetno = tx.block % Numbers /\ tx.block \in Nat
      BY <2>1 DEF SenderKnown, Sending, TxRecord
    <3>7. n = (tx.block + 1) % Numbers
      BY <3>3, <3>6, BlockNumbers
    <3>8. SenderKnown'
      BY <2>1, <3>5, <3>7 DEF SenderKnown, Starting, Sending
    <3>9. TxIsAcked
      BY <2>1, <2>2, <3>1, <3>5 DEF TxIsAcked
    <3>. QED  BY <2>1, <3>5, <3>8, <3>9 DEF TxMoves, Closing
  <2>3. CASE Head(up).kind = "CAN"
    <3>1. tx' = [tx EXCEPT !.pc = "can", !.next = "send"] /\ down' = down
      BY <1>5, <2>3 DEF TxAck
    <3>2. tx' \in TxRecord /\ SameBlock(tx, tx') /\ tx'.pc = "can" /\ tx'.next = "send"
      BY <3>1 DEF TxRecord, SameBlock
    <3>3. SenderKnown'
      BY <2>1, <3>2 DEF SenderKnown, SameBlock, Starting, Sending
    <3>4. TxIdles
      BY <2>1, <3>1, <3>2 DEF TxIdles, UpRead, SameBlock
    <3>. QED  BY <2>1, <3>2, <3>3, <3>4 DEF TxMoves, Closing, SameBlock
  <2>4. CASE Head(up).kind \notin {"ACK", "CAN"}
    <3>1. Retry(MaxRetrans, "send", "failed")
      BY <1>5, <2>4 DEF TxAck, RetrySend
    <3>2. Sending /\ UpRead
      BY <2>1 DEF Sending, UpRead
    <3>3. tx' \in TxRecord /\ ~tx'.batch /\ SenderKnown' /\ TxIdles
      BY <3>1, <3>2, RetryKnown
    <3>. QED  BY <2>1, <3>3 DEF TxMoves, Closing
  <2>. QED  BY <2>2, <2>3, <2>4
<1>6. CASE TxEot
  <2>1. tx.pc = "eot" /\ tx' = [tx EXCEPT !.pc = "eot ack"] /\ TxLeaves
    BY <1>0, <1>6 DEF TxEot, TxKeeps
  <2>2. /\ tx' \in TxRecord /\ SameBlock(tx, tx') /\ tx'.pc = "eot ack"
    BY <2>1 DEF TxRecord, TxPlaces, SameBlock
  <2>3. SenderKnown'
    BY <2>1, <2>2 DEF SenderKnown, SameBlock, Starting, Sending
  <2>4. TxEnds
    BY <1>6, <2>1, <2>2 DEF TxEot, TxEnds, SameBlock
  <2>. QED  BY <2>1, <2>2, <2>3, <2>4 DEF TxMoves, Closing, SameBlock
<1>7. CASE TxEotAck
  <2>1. tx.pc = "eot ack" /\ up # <<>> /\ up' = Tail(up) /\ TxLeaves
    BY <1>0, <1>7 DEF TxEotAck, TxAt, TxKeeps
  <2>2. CASE tx' = Leave("ok") /\ down' = down
    <3>1. tx' \in TxRecord /\ SameBlock(tx, tx') /\ tx'.pc = "flush" /\ tx'.next \in Ends
      BY <2>2, LeaveOp
    <3>2. SenderKnown'
      BY <2>1, <3>1 DEF SenderKnown, SameBlock, Starting, Sending
    <3>3. TxIdles
      BY <2>1, <2>2, <3>1 DEF TxIdles, UpRead, SameBlock
    <3>. QED  BY <2>1, <3>1, <3>2, <3>3 DEF TxMoves, Closing, SameBlock
  <2>3. CASE RetryEot
    <3>1. tx' \in TxRecord /\ ~tx'.batch /\ SenderKnown' /\ TxIdles /\ Closing'
      BY <2>1, <2>3, RetryKnown DEF RetryEot, UpRead
    <3>. QED  BY <2>1, <3>1 DEF TxMoves
  <2>. QED  BY <1>7, <2>2, <2>3 DEF TxEotAck
<1>8. CASE TxTimeout
  <2>1. UpRead /\ TxLeaves
    BY <1>0, <1>8 DEF TxTimeout, TxKeeps, UpRead
  <2>2. CASE tx.pc = "sync" /\ RetrySync
    <3>1. tx' \in TxRecord /\ ~tx'.batch /\ SenderKnown' /\ TxIdles
      BY <2>1, <2>2, RetryKnown DEF RetrySync, Starting
    <3>. QED  BY <2>1, <2>2, <3>1 DEF TxMoves, Closing
  <2>3. CASE tx.pc = "ack" /\ RetrySend
    <3>1. tx' \in TxRecord /\ ~tx'.batch /\ SenderKnown' /\ TxIdles
      BY <2>1, <2>3, RetryKnown DEF RetrySend, Sending
    <3>. QED  BY <2>1, <2>3, <3>1 DEF TxMoves, Closing
  <2>4. CASE tx.pc = "eot ack" /\ RetryEot
    <3>1. tx' \in TxRecord /\ ~tx'.batch /\ SenderKnown' /\ TxIdles /\ Closing'
      BY <2>1, <2>4, RetryKnown DEF RetryEot
    <3>. QED  BY <2>1, <3>1 DEF TxMoves
  <2>. QED  BY <1>8, <2>2, <2>3, <2>4 DEF TxTimeout
<1>9. CASE TxDrop
  <2>1. tx' = tx /\ TxLeaves /\ up # <<>> /\ up' = Tail(up) /\ down' = down
    BY <1>0, <1>9 DEF TxDrop, TxKeeps
  <2>2. SenderKnown' /\ tx'.pc # "load"
    BY <1>9, <2>1 DEF TxDrop, SenderKnown, Starting, Sending
  <2>3. TxIdles
    BY <2>1, <2>2 DEF TxIdles, UpRead
  <2>. QED  BY <2>1, <2>2, <2>3 DEF TxMoves, Closing
<1>10. CASE TxFlushed
  <2>1. tx.pc = "flush" /\ tx' = [tx EXCEPT !.pc = tx.next] /\ TxLeaves /\ UNCHANGED line
        /\ tx.next \in Ends
    BY <1>0, <1>10 DEF TxFlushed, TxKeeps, SenderKnown
  <2>2. /\ tx' \in TxRecord /\ SameBlock(tx, tx') /\ tx'.pc \in Ends
    BY <2>1 DEF TxRecord, SameBlock
  <2>3. SenderKnown'
    BY <2>1, <2>2 DEF SenderKnown, SameBlock, Starting, Sending, Ends
  <2>4. TxIdles
    BY <2>1, <2>2 DEF TxIdles, UpRead, SameBlock, line
  <2>. QED  BY <2>1, <2>2, <2>3, <2>4 DEF TxMoves, Closing, SameBlock
<1>. QED  BY <1>1, <1>2, <1>3, <1>4, <1>5, <1>6, <1>7, <1>8, <1>9, <1>10 DEF TxStep

-----------------------------------------------------------------------------
(* The packets of xm_transmit on the line *)

\* They are of the one file, numbered by their blocks, and in their order.
Flight(q, t) ==
  \A i \in DOMAIN q : q[i].kind = "packet" =>
    /\ q[i].name = 1 /\ q[i].block \in 1 .. t /\ q[i].no = q[i].block % Numbers
    /\ \A j \in i .. Len(q) : q[j].kind = "packet" => q[i].block <= q[j].block

NoPackets(q) == \A i \in DOMAIN q : q[i].kind # "packet"

\* No packet comes after an EOT.
EotLast(q) ==
  \A i \in DOMAIN q : q[i].kind = "EOT" => \A j \in i .. Len(q) : q[j].kind # "packet"
NoEot(q) == \A i \in DOMAIN q : q[i].kind # "EOT"

InFlight(q, b) == \E i \in DOMAIN q : q[i] \in Packets /\ q[i].ok /\ q[i].block = b
Below(b) == {x \in Packets : x.ok /\ x.block < b}

\* Every packet of q is of block b or a later one.
NoneBefore(q, b) == \A i \in DOMAIN q : q[i].kind = "packet" => b <= q[i].block

LEMMA SpoiltKeeps ==
  ASSUME NEW x \in Items, NEW y \in Items, Spoilt(x, y)
  PROVE  /\ y.kind = "packet" =>
              /\ x.kind = "packet" /\ y.name = x.name /\ y.block = x.block /\ y.no = x.no
              /\ y.blank = x.blank /\ y.crc = x.crc
         /\ y.kind = "EOT" => x.kind = "EOT"
         /\ y \in Packets /\ y.ok => y = x
<1>1. CASE y = x
  BY <1>1
<1>2. CASE y = Byte("junk")
  <2>1. y.kind = "junk" /\ y \in ByteItems
    BY <1>2, BytesAreItems
  <2>2. y \notin Packets
    BY <2>1 DEF Packets
  <2>. QED  BY <2>1, <2>2
<1>3. CASE x.kind = "packet" /\ y = [x EXCEPT !.ok = FALSE]
  <2>1. x \in Packets
    BY <1>3, BytesAreItems DEF Items
  <2>2. y.ok = FALSE /\ y.name = x.name /\ y.block = x.block /\ y.no = x.no /\ y.kind = x.kind
        /\ y.blank = x.blank /\ y.crc = x.crc
    BY <1>3, <2>1 DEF Packets
  <2>. QED  BY <1>3, <2>2
<1>. QED  BY <1>1, <1>2, <1>3 DEF Spoilt

LEMMA FlightThins ==
  ASSUME NEW q \in Seq(Items), NEW r \in Seq(Items), Thinned(q, r), NEW t \in Nat, NEW u \in Nat,
         t <= u, NEW b \in Nat
  PROVE  /\ Flight(q, t) => Flight(r, u)
         /\ EotLast(q) => EotLast(r)
         /\ NoPackets(q) => NoPackets(r)
         /\ NoEot(q) => NoEot(r)
         /\ NoneBefore(q, b) => NoneBefore(r, b)
         /\ InFlight(r, b) => InFlight(q, b)
         /\ Count(r, Below(b)) <= Count(q, Below(b))
<1>1. PICK d \in {0, 1} : \A i \in DOMAIN r : i + d \in DOMAIN q /\ Spoilt(q[i + d], r[i])
  BY DEF Thinned
<1>2. \A X : \A s \in Seq(X) : DOMAIN s = 1 .. Len(s) /\ Len(s) \in Nat /\ \A i \in DOMAIN s : s[i] \in X
  OBVIOUS
<1>3. DOMAIN q = 1 .. Len(q) /\ DOMAIN r = 1 .. Len(r) /\ Len(q) \in Nat /\ Len(r) \in Nat
      /\ (\A i \in DOMAIN q : q[i] \in Items) /\ \A i \in DOMAIN r : r[i] \in Items
  BY <1>2
<1>4. ASSUME NEW i \in DOMAIN r
      PROVE  /\ i + d \in DOMAIN q
             /\ r[i].kind = "packet" =>
                  /\ q[i + d].kind = "packet" /\ r[i].name = q[i + d].name
                  /\ r[i].block = q[i + d].block /\ r[i].no = q[i + d].no
             /\ r[i].kind = "EOT" => q[i + d].kind = "EOT"
             /\ r[i] \in Packets /\ r[i].ok => r[i] = q[i + d]
  <2>1. i + d \in DOMAIN q /\ q[i + d] \in Items /\ r[i] \in Items /\ Spoilt(q[i + d], r[i])
    BY <1>1, <1>3
  <2>2. PICK x \in Items, y \in Items : x = q[i + d] /\ y = r[i] /\ Spoilt(x, y)
    BY <2>1
  <2>. QED  BY <2>1, <2>2, SpoiltKeeps
<1>5. \A i \in DOMAIN r : \A j \in i .. Len(r) : j \in DOMAIN r /\ j + d \in i + d .. Len(q)
  BY <1>3, <1>4
<1>6. ASSUME Flight(q, t) PROVE Flight(r, u)
  <2>1. ASSUME NEW i \in DOMAIN r, r[i].kind = "packet"
        PROVE  /\ r[i].name = 1 /\ r[i].block \in 1 .. u /\ r[i].no = r[i].block % Numbers
               /\ \A j \in i .. Len(r) : r[j].kind = "packet" => r[i].block <= r[j].block
    <3>1. PICK k \in DOMAIN q : /\ k = i + d /\ q[k].kind = "packet" /\ r[i].name = q[k].name
                                /\ r[i].block = q[k].block /\ r[i].no = q[k].no
      BY <1>4, <2>1
    <3>2. /\ q[k].name = 1 /\ q[k].block \in 1 .. t /\ q[k].no = q[k].block % Numbers
          /\ \A j \in k .. Len(q) : q[j].kind = "packet" => q[k].block <= q[j].block
      BY <1>6, <3>1 DEF Flight
    <3>3. ASSUME NEW j \in i .. Len(r), r[j].kind = "packet" PROVE r[i].block <= r[j].block
      <4>1. PICK l \in k .. Len(q) : l = j + d
        BY <1>5, <3>1
      <4>2. q[l].kind = "packet" /\ r[j].block = q[l].block
        BY <1>4, <1>5, <3>3, <4>1
      <4>. QED  BY <3>1, <3>2, <4>2
    <3>4. r[i].block \in 1 .. u
      BY <3>1, <3>2
    <3>. QED  BY <3>1, <3>2, <3>3, <3>4
  <2>. QED  BY <2>1 DEF Flight
<1>7. ASSUME EotLast(q) PROVE EotLast(r)
  <2>1. ASSUME NEW i \in DOMAIN r, r[i].kind = "EOT", NEW j \in i .. Len(r)
        PROVE  r[j].kind # "packet"
    <3>1. PICK k \in DOMAIN q : k = i + d /\ q[k].kind = "EOT"
      BY <1>4, <2>1
    <3>2. PICK l \in k .. Len(q) : l = j + d
      BY <1>5, <3>1
    <3>3. q[l].kind # "packet"
      BY <1>7, <3>1, <3>2 DEF EotLast
    <3>. QED  BY <1>4, <1>5, <3>2, <3>3
  <2>. QED  BY <2>1 DEF EotLast
<1>8. NoPackets(q) => NoPackets(r)
  BY <1>4 DEF NoPackets
<1>9. NoEot(q) => NoEot(r)
  BY <1>4 DEF NoEot
<1>10. NoneBefore(q, b) => NoneBefore(r, b)
  BY <1>4 DEF NoneBefore
<1>11. InFlight(r, b) => InFlight(q, b)
  BY <1>4 DEF InFlight
<1>12. Count(r, Below(b)) <= Count(q, Below(b))
  <2>1. ASSUME NEW x, NEW y, Spoilt(x, y), y \in Below(b) PROVE x \in Below(b)
    <3>1. y \in Packets /\ y.ok /\ y.kind = "packet"
      BY <2>1 DEF Below, Packets
    <3>2. CASE y = x
      BY <2>1, <3>2
    <3>3. CASE y = Byte("junk")
      BY <3>1, <3>3, BytesAreItems
    <3>4. CASE x.kind = "packet" /\ y = [x EXCEPT !.ok = FALSE]
      <4>1. "ok" \in DOMAIN y => y.ok = FALSE
        BY <3>4
      <4>2. "ok" \in DOMAIN y
        BY <3>1 DEF Packets
      <4>. QED  BY <3>1, <4>1, <4>2
    <3>. QED  BY <2>1, <3>2, <3>3, <3>4 DEF Spoilt
  <2>. QED  BY <2>1, CountThins
<1>. QED  BY <1>6, <1>7, <1>8, <1>9, <1>10, <1>11, <1>12

\* Bytes after the packets change nothing about them.
LEMMA FlightBytes ==
  ASSUME NEW q \in Seq(Items), Len(q) <= LineMax, NEW items \in Seq(ByteItems), NEW t \in Nat,
         NEW b \in Nat
  PROVE  /\ Push(q, items) \in Seq(Items) /\ Len(Push(q, items)) <= LineMax
         /\ Flight(q, t) => Flight(Push(q, items), t)
         /\ EotLast(q) => EotLast(Push(q, items))
         /\ NoPackets(q) => NoPackets(Push(q, items))
         /\ NoEot(q) /\ (\A i \in DOMAIN items : items[i].kind # "EOT") => NoEot(Push(q, items))
         /\ NoneBefore(q, b) => NoneBefore(Push(q, items), b)
         /\ InFlight(Push(q, items), b) => InFlight(q, b)
         /\ Count(Push(q, items), Below(b)) <= Count(q, Below(b))
<1>1. PICK r : r = Push(q, items)
  OBVIOUS
<1>2. items \in Seq(Items) /\ \A i \in DOMAIN items : items[i] \in ByteItems
  <2>1. \A X, Y : X \subseteq Y => \A s \in Seq(X) : s \in Seq(Y) /\ \A i \in DOMAIN s : s[i] \in X
    OBVIOUS
  <2>2. ByteItems \subseteq Items
    BY DEF Items
  <2>. QED  BY <2>1, <2>2, Zenon
<1>3. /\ r \in Seq(Items) /\ Len(r) <= LineMax /\ Len(q) <= Len(r)
      /\ \A i \in 1 .. Len(q) : r[i] = q[i]
      /\ \A i \in Len(q) + 1 .. Len(r) : i - Len(q) \in DOMAIN items /\ r[i] = items[i - Len(q)]
  BY <1>1, <1>2, PushDoes
<1>4. DOMAIN r = 1 .. Len(r) /\ DOMAIN q = 1 .. Len(q) /\ Len(q) \in Nat /\ Len(r) \in Nat
  BY <1>3
<1>5. \A i \in Len(q) + 1 .. Len(r) : r[i].kind # "packet" /\ r[i] \notin Packets
  BY <1>2, <1>3, BytesAreItems DEF Packets
<1>6. \A i \in DOMAIN r : r[i].kind = "packet" => i \in DOMAIN q /\ r[i] = q[i]
  BY <1>3, <1>4, <1>5
<1>7. Flight(q, t) => Flight(r, t)
  BY <1>4, <1>6 DEF Flight
<1>8. EotLast(q) => EotLast(r)
  BY <1>3, <1>4, <1>6 DEF EotLast
<1>9. NoPackets(q) => NoPackets(r)
  BY <1>6 DEF NoPackets
<1>10. NoEot(q) /\ (\A i \in DOMAIN items : items[i].kind # "EOT") => NoEot(r)
  BY <1>3, <1>4 DEF NoEot
<1>11. NoneBefore(q, b) => NoneBefore(r, b)
  BY <1>6 DEF NoneBefore
<1>12. InFlight(r, b) => InFlight(q, b)
  BY <1>3, <1>4, <1>5 DEF InFlight
<1>13. Count(r, Below(b)) <= Count(q, Below(b))
  <2>1. \A i \in DOMAIN items : items[i] \notin Below(b)
    BY <1>2, BytesAreItems DEF Below, Packets
  <2>2. Count(r, Below(b)) = Count(q, Below(b))
    BY <1>1, <1>2, <2>1, CountPush
  <2>3. Count(q, Below(b)) \in Nat
    BY CountType
  <2>. QED  BY <2>2, <2>3
<1>. QED  BY <1>1, <1>3, <1>7, <1>8, <1>9, <1>10, <1>11, <1>12, <1>13

\* One more packet, of the newest block.
LEMMA FlightSent ==
  ASSUME NEW q \in Seq(Items), Len(q) <= LineMax, NEW t \in Nat, NEW p \in Packets,
         p.name = 1, p.block = t, t > 0, p.no = t % Numbers, NEW b \in Nat
  PROVE  /\ Push(q, <<p>>) \in Seq(Items) /\ Len(Push(q, <<p>>)) <= LineMax
         /\ Flight(q, t) => Flight(Push(q, <<p>>), t)
         /\ NoEot(q) => NoEot(Push(q, <<p>>))
         /\ NoneBefore(q, b) /\ b <= t => NoneBefore(Push(q, <<p>>), b)
         /\ b # t /\ InFlight(Push(q, <<p>>), b) => InFlight(q, b)
         /\ b <= t => Count(Push(q, <<p>>), Below(b)) <= Count(q, Below(b))
<1>1. PICK r : r = Push(q, <<p>>)
  OBVIOUS
<1>2. p \in Items /\ p.kind = "packet"
  BY DEF Items, Packets
<1>3. r = q \/ (r = Append(q, p) /\ Len(q) < LineMax)
  BY <1>1, <1>2, PushOne, Constants
<1>4. CASE r = q
  <2>1. Count(q, Below(b)) \in Nat
    BY CountType
  <2>. QED  BY <1>1, <1>4, <2>1
<1>5. CASE r = Append(q, p) /\ Len(q) < LineMax
  <2>1. /\ r \in Seq(Items) /\ Len(r) = Len(q) + 1 /\ r[Len(q) + 1] = p
        /\ \A i \in 1 .. Len(q) : r[i] = q[i]
    BY <1>2, <1>5
  <2>2. DOMAIN r = 1 .. Len(q) + 1 /\ DOMAIN q = 1 .. Len(q) /\ Len(q) \in Nat /\ LineMax \in Nat
    BY <2>1, Constants
  <2>3. ASSUME Flight(q, t) PROVE Flight(r, t)
    <3>1. ASSUME NEW i \in DOMAIN r, r[i].kind = "packet"
          PROVE  /\ r[i].name = 1 /\ r[i].block \in 1 .. t /\ r[i].no = r[i].block % Numbers
                 /\ \A j \in i .. Len(r) : r[j].kind = "packet" => r[i].block <= r[j].block
      <4>1. CASE i \in DOMAIN q
        <5>1. /\ r[i].name = 1 /\ r[i].block \in 1 .. t /\ r[i].no = r[i].block % Numbers
              /\ \A j \in i .. Len(q) : r[j].kind = "packet" => r[i].block <= r[j].block
          BY <2>1, <2>2, <2>3, <3>1, <4>1 DEF Flight
        <5>. QED  BY <2>1, <2>2, <4>1, <5>1
      <4>2. CASE i = Len(q) + 1
        BY <2>1, <2>2, <4>2
      <4>. QED  BY <2>2, <4>1, <4>2
    <3>. QED  BY <3>1 DEF Flight
  <2>4. NoEot(q) => NoEot(r)
    BY <1>2, <2>1, <2>2 DEF NoEot
  <2>5. NoneBefore(q, b) /\ b <= t => NoneBefore(r, b)
    BY <2>1, <2>2 DEF NoneBefore
  <2>6. b # t /\ InFlight(r, b) => InFlight(q, b)
    BY <2>1, <2>2 DEF InFlight
  <2>7. ASSUME b <= t PROVE Count(r, Below(b)) <= Count(q, Below(b))
    <3>1. p \notin Below(b)
      BY <2>7 DEF Below
    <3>2. \A i \in DOMAIN <<p>> : <<p>>[i] \notin Below(b)
      BY <3>1
    <3>3. <<p>> \in Seq(Items)
      BY <1>2
    <3>4. Count(r, Below(b)) = Count(q, Below(b))
      BY <1>1, <3>2, <3>3, CountPush
    <3>5. Count(q, Below(b)) \in Nat
      BY CountType
    <3>. QED  BY <3>4, <3>5
  <2>. QED  BY <1>1, <1>5, <2>1, <2>2, <2>3, <2>4, <2>5, <2>6, <2>7
<1>. QED  BY <1>3, <1>4, <1>5

\* The packet at the head is taken.
LEMMA FlightTaken ==
  ASSUME NEW q \in Seq(Items), q # <<>>, Head(q) \in Packets, Head(q).ok, NEW t \in Nat,
         Flight(q, t), NEW b \in Nat
  PROVE  /\ Head(q).name = 1 /\ Head(q).block \in 1 .. t
         /\ Head(q).no = Head(q).block % Numbers
         /\ NoneBefore(q, Head(q).block) /\ NoneBefore(Tail(q), Head(q).block)
         /\ InFlight(q, Head(q).block)
         /\ Head(q).block < b => Count(Tail(q), Below(b)) + 1 <= Count(q, Below(b))
<1>1. Head(q) = q[1] /\ 1 \in DOMAIN q /\ DOMAIN q = 1 .. Len(q) /\ Len(q) \in Nat
  OBVIOUS
<1>2. Head(q).kind = "packet"
  BY DEF Packets
<1>3. /\ Head(q).name = 1 /\ Head(q).block \in 1 .. t /\ Head(q).no = Head(q).block % Numbers
      /\ NoneBefore(q, Head(q).block)
  BY <1>1, <1>2 DEF Flight, NoneBefore
<1>4. InFlight(q, Head(q).block)
  BY <1>1 DEF InFlight
<1>5. NoneBefore(Tail(q), Head(q).block)
  <2>1. PICK r \in Seq(Items) : r = Tail(q)
    BY TailThins
  <2>2. DOMAIN r = 1 .. Len(q) - 1 /\ \A i \in 1 .. Len(q) - 1 : r[i] = q[i + 1]
    BY <2>1, TailThins
  <2>3. \A i \in DOMAIN r : i + 1 \in DOMAIN q /\ r[i] = q[i + 1]
    BY <1>1, <2>2
  <2>. QED  BY <1>3, <2>1, <2>3 DEF NoneBefore
<1>6. Head(q).block < b => Count(Tail(q), Below(b)) + 1 <= Count(q, Below(b))
  BY CountTail DEF Below
<1>. QED  BY <1>3, <1>4, <1>5, <1>6

-----------------------------------------------------------------------------
(* Types *)

LEMMA NamesThin ==
  ASSUME NEW q \in Seq(Items), NEW r \in Seq(Items), Thinned(q, r), Names(q)
  PROVE  Names(r)
<1>1. PICK d \in {0, 1} : \A i \in DOMAIN r : i + d \in DOMAIN q /\ Spoilt(q[i + d], r[i])
  BY DEF Thinned
<1>2. \A i \in DOMAIN r : r[i] \in Items
  OBVIOUS
<1>3. \A i \in DOMAIN q : q[i] \in Items
  OBVIOUS
<1>4. ASSUME NEW i \in DOMAIN r, r[i].kind = "packet", r[i].block = 0, ~r[i].blank
      PROVE  r[i].name \in DOMAIN Sizes
  <2>1. PICK x \in Items, y \in Items : x = q[i + d] /\ y = r[i] /\ Spoilt(x, y)
    BY <1>1, <1>2, <1>3
  <2>2. x.kind = "packet" /\ x.block = 0 /\ ~x.blank /\ y.name = x.name
    BY <1>4, <2>1, SpoiltKeeps
  <2>. QED  BY <1>1, <2>1, <2>2 DEF Names
<1>. QED  BY <1>4 DEF Names

LEMMA NamesPush ==
  ASSUME NEW q \in Seq(Items), Len(q) <= LineMax, NEW items \in Seq(Items), Names(q), Names(items)
  PROVE  Names(Push(q, items))
<1>1. PICK r : r = Push(q, items)
  OBVIOUS
<1>2. /\ r \in Seq(Items) /\ Len(q) <= Len(r)
      /\ \A i \in 1 .. Len(q) : r[i] = q[i]
      /\ \A i \in Len(q) + 1 .. Len(r) : i - Len(q) \in DOMAIN items /\ r[i] = items[i - Len(q)]
  BY <1>1, PushDoes
<1>3. DOMAIN r = 1 .. Len(r) /\ DOMAIN q = 1 .. Len(q) /\ Len(q) \in Nat /\ Len(r) \in Nat
  BY <1>2
<1>4. \A i \in DOMAIN r : \/ i \in DOMAIN q /\ r[i] = q[i]
                          \/ \E j \in DOMAIN items : r[i] = items[j]
  BY <1>2, <1>3
<1>. QED  BY <1>1, <1>4 DEF Names

\* Nothing is put on the line down, or what is not a packet.
DownKept ==
  \/ down' \in Seq(Items) /\ Len(down') <= Len(down) /\ Thinned(down, down')
  \/ \E items \in Seq(ByteItems) :
       /\ down' = Push(down, items)
       /\ \A i \in DOMAIN items : items[i].kind # "EOT"

LEMMA ThinnedSame ==
  ASSUME NEW X, NEW q \in Seq(X)
  PROVE  Thinned(q, q)
<1>1. \A i \in DOMAIN q : i + 0 \in DOMAIN q /\ Spoilt(q[i + 0], q[i])
  BY DEF Spoilt
<1>. QED  BY <1>1 DEF Thinned

LEMMA MurmurIs ==
  ASSUME NEW items \in Murmurs
  PROVE  items \in Seq(ByteItems) /\ \A i \in DOMAIN items : items[i].kind # "EOT"
<1>1. CASE items = <<>>
  BY <1>1
<1>2. CASE items = Cans
  <2>1. Byte("CAN").kind = "CAN"
    BY BytesAreItems
  <2>. QED  BY <1>2, <2>1, BytesAreItems
<1>3. CASE items = <<Byte("ACK")>>
  <2>1. Byte("ACK").kind = "ACK"
    BY BytesAreItems
  <2>2. DOMAIN <<Byte("ACK")>> = {1} /\ <<Byte("ACK")>>[1] = Byte("ACK")
    OBVIOUS
  <2>. QED  BY <1>3, <2>1, <2>2, Answer
<1>. QED  BY <1>1, <1>2, <1>3 DEF Murmurs

LEMMA BytesNamed ==
  ASSUME NEW items \in Seq(ByteItems)
  PROVE  items \in Seq(Items) /\ Names(items) /\ NoPackets(items)
<1>1. items \in Seq(Items) /\ \A i \in DOMAIN items : items[i] \in ByteItems
  <2>1. \A X, Y : X \subseteq Y => \A s \in Seq(X) : s \in Seq(Y) /\ \A i \in DOMAIN s : s[i] \in X
    OBVIOUS
  <2>2. ByteItems \subseteq Items
    BY DEF Items
  <2>. QED  BY <2>1, <2>2, Zenon
<1>2. \A i \in DOMAIN items : items[i].kind # "packet"
  BY <1>1, BytesAreItems
<1>. QED  BY <1>1, <1>2 DEF Names, NoPackets

LEMMA DownTyped ==
  ASSUME TypeOK, DownKept
  PROVE  down' \in Seq(Items) /\ Len(down') <= LineMax /\ Names(down')
<1>. down \in Seq(Items) /\ Len(down) <= LineMax /\ Names(down)
  BY DEF TypeOK, LineOK
<1>1. CASE down' \in Seq(Items) /\ Len(down') <= Len(down) /\ Thinned(down, down')
  <2>1. Names(down')
    <3>1. PICK r \in Seq(Items) : r = down' /\ Thinned(down, r)
      BY <1>1
    <3>2. Names(r)
      BY <3>1, NamesThin
    <3>. QED  BY <3>1, <3>2
  <2>2. Len(down) \in Nat /\ Len(down') \in Nat /\ LineMax \in Nat
    BY <1>1, Constants
  <2>. QED  BY <1>1, <2>1, <2>2
<1>2. CASE \E items \in Seq(ByteItems) : down' = Push(down, items)
  <2>1. PICK items \in Seq(ByteItems) : down' = Push(down, items)
    BY <1>2
  <2>2. items \in Seq(Items) /\ Names(items)
    BY BytesNamed
  <2>. QED  BY <2>1, <2>2, PushDoes, NamesPush
<1>. QED  BY <1>1, <1>2 DEF DownKept

\* An item is read from the line up, or a few are put on it.
UpKept ==
  \/ up' \in Seq(ByteItems) /\ Len(up') <= Len(up) /\ Thinned(up, up')
  \/ \E items \in Seq(ByteItems) : up' = Push(up, items)

LEMMA UpTyped ==
  ASSUME TypeOK, UpKept
  PROVE  up' \in Seq(ByteItems) /\ Len(up') <= LineMax
<1>. up \in Seq(ByteItems) /\ Len(up) <= LineMax
  BY DEF TypeOK, LineOK
<1>1. CASE up' \in Seq(ByteItems) /\ Len(up') <= Len(up)
  <2>2. Len(up) \in Nat /\ Len(up') \in Nat /\ LineMax \in Nat
    BY <1>1, Constants
  <2>. QED  BY <1>1, <2>2
<1>2. CASE \E items \in Seq(ByteItems) : up' = Push(up, items)
  BY <1>2, PushDoes
<1>. QED  BY <1>1, <1>2 DEF UpKept

LEMMA ReadKept ==
  ASSUME TypeOK, UpRead
  PROVE  UpKept /\ (up' \in Seq(ByteItems) /\ Len(up') <= Len(up) /\ Thinned(up, up'))
<1>. up \in Seq(ByteItems) /\ Len(up) \in Nat
  BY DEF TypeOK, LineOK
<1>1. CASE up' = up
  BY <1>1, ThinnedSame DEF UpKept
<1>2. CASE up # <<>> /\ up' = Tail(up)
  <2>1. Tail(up) \in Seq(ByteItems) /\ Len(Tail(up)) = Len(up) - 1 /\ Thinned(up, Tail(up))
    BY <1>2, TailThins
  <2>. QED  BY <1>2, <2>1 DEF UpKept
<1>. QED  BY <1>1, <1>2 DEF UpRead

LEMMA SameKept ==
  ASSUME TypeOK
  PROVE  /\ down' = down => DownKept
         /\ (down # <<>> /\ down' = Tail(down)) => DownKept
         /\ (down # <<>> /\ down' = ByteRead(down)) => DownKept
         /\ up' = up => UpKept
<1>. down \in Seq(Items) /\ Len(down) \in Nat /\ up \in Seq(ByteItems) /\ Len(up) \in Nat
  BY DEF TypeOK, LineOK
<1>1. ASSUME down # <<>>, down' = Tail(down) PROVE DownKept
  <2>1. Tail(down) \in Seq(Items) /\ Len(Tail(down)) = Len(down) - 1 /\ Thinned(down, Tail(down))
    BY <1>1, TailThins
  <2>. QED  BY <1>1, <2>1 DEF DownKept
<1>2. ASSUME down # <<>>, down' = ByteRead(down) PROVE DownKept
  BY <1>2, ReadThins DEF DownKept
<1>3. down' = down => DownKept
  BY ThinnedSame DEF DownKept
<1>4. up' = up => UpKept
  BY ThinnedSame DEF UpKept
<1>. QED  BY <1>1, <1>2, <1>3, <1>4

-----------------------------------------------------------------------------
(* Types are kept *)

\* What any step of a sender does to the line down: as above, or one item more.
SenderDown ==
  \/ DownKept
  \/ \E x \in Items :
       /\ down' = Push(down, <<x>>)
       /\ x.kind = "packet" /\ x.block = 0 /\ ~x.blank => x.name \in DOMAIN Sizes

LEMMA SenderDownTyped ==
  ASSUME TypeOK, SenderDown
  PROVE  down' \in Seq(Items) /\ Len(down') <= LineMax /\ Names(down')
<1>. down \in Seq(Items) /\ Len(down) <= LineMax /\ Names(down)
  BY DEF TypeOK, LineOK
<1>1. CASE \E x \in Items :
             /\ down' = Push(down, <<x>>)
             /\ x.kind = "packet" /\ x.block = 0 /\ ~x.blank => x.name \in DOMAIN Sizes
  <2>1. PICK x \in Items :
          /\ down' = Push(down, <<x>>)
          /\ x.kind = "packet" /\ x.block = 0 /\ ~x.blank => x.name \in DOMAIN Sizes
    BY <1>1
  <2>2. PICK items \in Seq(Items) : items = <<x>>
    BY OneItem
  <2>3. Names(items)
    BY <2>1, <2>2 DEF Names
  <2>4. down' = Push(down, items)
    BY <2>1, <2>2
  <2>. QED  BY <2>3, <2>4, PushDoes, NamesPush
<1>. QED  BY <1>1, DownTyped DEF SenderDown

LEMMA MurmursKeep ==
  ASSUME TypeOK, down' = down \/ \E items \in Murmurs : down' = Push(down, items)
  PROVE  DownKept
<1>1. CASE down' = down
  BY <1>1, SameKept
<1>2. CASE \E items \in Murmurs : down' = Push(down, items)
  <2>1. PICK items \in Murmurs : down' = Push(down, items)
    BY <1>2
  <2>. QED  BY <2>1, MurmurIs DEF DownKept
<1>. QED  BY <1>1, <1>2

LEMMA PacketIs ==
  ASSUME tx \in TxRecord
  PROVE  LET p == Packet(tx.packetno, tx.crc, tx.file, tx.block, tx.blank)
         IN  p \in Packets /\ p.kind = "packet" /\ p.ok /\ p.name = tx.file /\ p.block = tx.block
             /\ p.no = tx.packetno /\ p.blank = tx.blank /\ p.crc = tx.crc
<1>1. /\ tx.packetno \in 0 .. Numbers - 1 /\ tx.crc \in BOOLEAN /\ tx.file \in Nat
      /\ tx.block \in Nat /\ tx.blank \in BOOLEAN
  BY DEF TxRecord
<1>2. \A no \in 0 .. Numbers - 1, crc \in BOOLEAN, name, block \in Nat, blank \in BOOLEAN :
        LET p == Packet(no, crc, name, block, blank)
        IN  p \in Packets /\ p.kind = "packet" /\ p.ok /\ p.name = name /\ p.block = block
            /\ p.no = no /\ p.blank = blank /\ p.crc = crc
  BY DEF Packet, Packets
<1>. QED  BY <1>1, <1>2

LEMMA EotKeeps ==
  ASSUME down' = Push(down, <<Byte("EOT")>>)
  PROVE  SenderDown
<1>1. PICK x \in Items : x = Byte("EOT") /\ x.kind # "packet"
  BY BytesAreItems DEF Items
<1>. QED  BY <1>1 DEF SenderDown

\* xm_transmit
LEMMA TransmitTypes ==
  ASSUME TypeOK, SenderKnown, ~tx.batch, TxStep
  PROVE  tx' \in TxRecord /\ SenderKnown' /\ tx'.batch = tx.batch
         /\ SenderDown /\ UpKept /\ TxLeaves
<1>1. tx' \in TxRecord /\ ~tx'.batch /\ SenderKnown' /\ TxLeaves /\ TxMoves
  BY TransmitDoes
<1>. tx \in TxRecord
  BY DEF TypeOK
<1>2. UpRead
  BY <1>1 DEF TxMoves, TxIdles, TxStarts, TxIsAcked, TxLoads, TxSends, TxEnds, UpRead, line
<1>3. SenderDown
  <2>1. CASE TxIdles
    BY <2>1, MurmursKeep DEF TxIdles, SenderDown
  <2>2. CASE TxStarts \/ TxIsAcked \/ TxLoads
    BY <2>2, SameKept DEF TxStarts, TxIsAcked, TxLoads, SenderDown, line
  <2>3. CASE TxSends
    <3>1. PICK p \in Items :
            /\ p = Packet(tx.packetno, tx.crc, tx.file, tx.block, tx.blank)
            /\ p.block = tx.block
      BY PacketIs DEF Items
    <3>2. p.block # 0
      BY <2>3, <3>1 DEF TxSends, SenderKnown, Sending
    <3>. QED  BY <2>3, <3>1, <3>2 DEF TxSends, SenderDown
  <2>4. CASE TxEnds
    BY <2>4, EotKeeps DEF TxEnds
  <2>. QED  BY <1>1, <2>1, <2>2, <2>3, <2>4 DEF TxMoves
<1>4. tx'.batch = tx.batch
  BY <1>1 DEF TxRecord
<1>. QED  BY <1>1, <1>2, <1>3, <1>4, ReadKept

\* A YMODEM sender that tries again.
LEMMA BatchRetryTypes ==
  ASSUME TypeOK, SenderKnown, tx.batch, UpRead, TxKeeps,
         NEW place \in {"wait C", "header", "send", "eot"}, BatchRetry(place),
         place = "wait C" => tx.pc = "wait C", place = "send" => Sending
  PROVE  tx' \in TxRecord /\ SenderKnown' /\ tx'.batch = tx.batch
         /\ SenderDown /\ UpKept /\ TxLeaves
<1>. tx \in TxRecord
  BY DEF TypeOK
<1>1. place \in TxPlaces /\ "failed" \in Ends
  BY DEF TxPlaces, Ends
<1>2. /\ tx' \in TxRecord /\ SameBlock(tx, tx')
      /\ \/ tx'.pc = place /\ tx'.next = tx.next /\ down' = down
         \/ /\ tx'.pc = "flush" /\ tx'.next = "failed"
            /\ \E items \in Murmurs : down' = Push(down, items)
  BY <1>1, RetryDoes DEF BatchRetry
<1>3. SenderDown
  BY <1>2, MurmursKeep DEF SenderDown
<1>4. SenderKnown'
  BY <1>1, <1>2 DEF SenderKnown, SameBlock, Starting, Sending
<1>5. TxLeaves
  BY DEF TxKeeps, TxLeaves, TypeOK
<1>. QED  BY <1>2, <1>3, <1>4, <1>5, ReadKept DEF SameBlock

\* The packet that precedes a file.
LEMMA HeaderIs ==
  ASSUME tx \in TxRecord
  PROVE  /\ Header \in Packets /\ Header.kind = "packet" /\ Header.no = 0 /\ Header.block = 0
         /\ Header.ok /\ Header.crc
         /\ tx.file \in DOMAIN Sizes => ~Header.blank /\ Header.name = tx.file
         /\ tx.file \notin DOMAIN Sizes => Header.blank
<1>1. tx.file \in Nat /\ tx.file > 0
  BY DEF TxRecord
<1>2. \A name \in Nat, blank \in BOOLEAN :
        LET p == Packet(0, TRUE, name, 0, blank)
        IN  p \in Packets /\ p.kind = "packet" /\ p.no = 0 /\ p.block = 0 /\ p.ok /\ p.crc
            /\ p.name = name /\ p.blank = blank
  BY Constants DEF Packet, Packets
<1>3. tx.file \in DOMAIN Sizes <=> ~(tx.file > Len(Sizes))
  BY <1>1, Constants
<1>4. CASE tx.file > Len(Sizes)
  <2>1. Header = Packet(0, TRUE, 0, 0, TRUE)
    BY <1>4 DEF Header
  <2>. QED  BY <1>2, <1>3, <1>4, <2>1
<1>5. CASE ~(tx.file > Len(Sizes))
  <2>1. Header = Packet(0, TRUE, tx.file, 0, FALSE)
    BY <1>5 DEF Header
  <2>. QED  BY <1>1, <1>2, <1>3, <1>5, <2>1
<1>. QED  BY <1>4, <1>5

LEMMA FileSizes ==
  ASSUME tx \in TxRecord
  PROVE  /\ ~(tx.file > Len(Sizes)) => tx.file \in DOMAIN Sizes
         /\ tx.file \in DOMAIN Sizes => Sizes[tx.file] \in Nat
         /\ 1 \in 0 .. Numbers - 1 /\ 0 \in Nat
         /\ tx.block > 0 => tx.block # 0
<1>1. PICK k \in Nat : k = tx.file /\ k > 0
  BY DEF TxRecord
<1>2. PICK b \in Nat : b = tx.block
  BY DEF TxRecord
<1>3. ~(k > Len(Sizes)) => k \in DOMAIN Sizes
  BY <1>1, Constants
<1>4. k \in DOMAIN Sizes => Sizes[k] \in Nat
  BY Constants
<1>5. 1 \in 0 .. Numbers - 1
  BY Constants
<1>. QED  BY <1>1, <1>2, <1>3, <1>4, <1>5

\* The YMODEM sender.
LEMMA BatchTypes ==
  ASSUME TypeOK, SenderKnown, tx.batch, BatchStep
  PROVE  tx' \in TxRecord /\ SenderKnown' /\ tx'.batch = tx.batch
         /\ SenderDown /\ UpKept /\ TxLeaves
<1>. tx \in TxRecord
  BY DEF TypeOK
<1>. Ends \subseteq TxPlaces /\ {"ok", "failed"} \subseteq Ends
     /\ {"send", "eot", "load", "ack", "eot ack", "flush", "wait C", "header", "header ack"}
          \subseteq TxPlaces
     /\ \A p \in {"sync", "can", "load", "send", "ack", "eot", "eot ack", "flush", "wait C",
                  "header", "header ack"} : p \notin Ends
  BY DEF TxPlaces, Ends
<1>. TxKeeps => TxLeaves
  BY DEF TxLeaves, TxKeeps, TypeOK
<1>0. /\ down' = down => SenderDown
      /\ \A place : TxAt(place) => UpRead /\ tx.pc = place
      /\ up' = up => UpRead
      /\ UpRead => UpKept
  BY SameKept, ReadKept DEF SenderDown, TxAt, UpRead
<1>1. CASE BatchWaitC
  <2>1. tx.pc = "wait C" /\ UpKept /\ TxLeaves /\ SenderDown
    BY <1>0, <1>1 DEF BatchWaitC
  <2>2. CASE UNCHANGED tx
    <3>1. SenderKnown'
      BY <2>2 DEF SenderKnown, Starting, Sending
    <3>. QED  BY <2>1, <2>2, <3>1
  <2>3. CASE tx' = To(IF tx.next = "load" THEN "load" ELSE "header")
    <3>1. PICK place \in {"load", "header"} :
            place = (IF tx.next = "load" THEN "load" ELSE "header")
      OBVIOUS
    <3>2. tx' \in TxRecord /\ SameBlock(tx, tx') /\ tx'.pc = place /\ tx'.next = tx.next
      BY <2>3, <3>1, ToOp
    <3>3. place = "load" => tx.packetno = (tx.block + 1) % Numbers
      <4>1. place = "load" => tx.next = "load"
        BY <3>1
      <4>2. place = "load" => tx.block = 0 /\ tx.packetno = 1
        BY <2>1, <4>1 DEF SenderKnown, Starting
      <4>. QED  BY <4>2, BlockNumbers
    <3>4. SenderKnown'
      BY <3>2, <3>3 DEF SenderKnown, SameBlock, Starting, Sending
    <3>. QED  BY <2>1, <3>2, <3>4 DEF SameBlock
  <2>. QED  BY <1>1, <2>2, <2>3 DEF BatchWaitC
<1>2. CASE BatchHeader
  <2>1. tx.pc = "header" /\ UpKept /\ TxLeaves /\ tx' = [tx EXCEPT !.pc = "header ack"]
    BY <1>0, <1>2 DEF BatchHeader
  <2>2. tx' \in TxRecord /\ SameBlock(tx, tx') /\ tx'.pc = "header ack"
    BY <2>1 DEF TxRecord, SameBlock
  <2>3. SenderKnown'
    BY <2>2 DEF SenderKnown, SameBlock, Starting, Sending
  <2>4. SenderDown
    <3>1. PICK x \in Items : x = Header
      BY HeaderIs DEF Items
    <3>2. ~x.blank => x.name \in DOMAIN Sizes
      BY <3>1, HeaderIs
    <3>3. down' = Push(down, <<x>>)
      BY <1>2, <3>1 DEF BatchHeader
    <3>. QED  BY <3>2, <3>3 DEF SenderDown
  <2>. QED  BY <2>1, <2>2, <2>3, <2>4 DEF SameBlock
<1>3. CASE BatchHeaderAck
  <2>1. tx.pc = "header ack" /\ UpRead /\ UpKept /\ TxLeaves /\ TxKeeps
    BY <1>0, <1>3 DEF BatchHeaderAck
  <2>2. CASE down' = down /\ tx' = Leave("ok")
    <3>1. tx' \in TxRecord /\ SameBlock(tx, tx') /\ tx'.pc = "flush" /\ tx'.next \in Ends
      BY <2>2, LeaveOp
    <3>2. SenderKnown'
      BY <3>1 DEF SenderKnown, SameBlock, Starting, Sending
    <3>. QED  BY <1>0, <2>1, <2>2, <3>1, <3>2 DEF SameBlock
  <2>3. CASE /\ down' = down /\ ~(tx.file > Len(Sizes))
             /\ tx' = [To("wait C") EXCEPT !.next = "load", !.packetno = 1, !.block = 0,
                                           !.size = Sizes[tx.file]]
    <3>1. PICK t \in TxRecord : t = To("wait C") /\ SameBlock(tx, t) /\ t.pc = "wait C"
      BY ToOp
    <3>2. tx.file \in DOMAIN Sizes
      BY <2>3, FileSizes
    <3>3. PICK size \in Nat, one \in 0 .. Numbers - 1, zero \in Nat :
            size = Sizes[tx.file] /\ one = 1 /\ zero = 0
      BY <3>2, FileSizes
    <3>4. tx' = [t EXCEPT !.next = "load", !.packetno = one, !.block = zero, !.size = size]
      BY <2>3, <3>1, <3>3
    <3>5. tx' \in TxRecord /\ tx'.pc = "wait C" /\ tx'.next = "load" /\ tx'.packetno = one
          /\ tx'.block = zero /\ tx'.batch = tx.batch
      BY <3>1, <3>4 DEF TxRecord, SameBlock
    <3>6. SenderKnown'
      BY <3>3, <3>5 DEF SenderKnown, Starting, Sending
    <3>. QED  BY <1>0, <2>1, <2>3, <3>5, <3>6
  <2>4. CASE Head(up).kind = "NAK" /\ BatchRetry("header")
    BY <2>1, <2>4, BatchRetryTypes
  <2>5. CASE UNCHANGED <<down, tx>>
    <3>1. SenderKnown'
      BY <2>5 DEF SenderKnown, Starting, Sending
    <3>. QED  BY <1>0, <2>1, <2>5, <3>1
  <2>. QED  BY <1>3, <2>2, <2>3, <2>4, <2>5 DEF BatchHeaderAck, BatchNoAck
<1>4. CASE BatchAck
  <2>1. tx.pc = "ack" /\ UpRead /\ UpKept /\ TxLeaves /\ TxKeeps
    BY <1>0, <1>4 DEF BatchAck
  <2>2. CASE tx' = TxAcked /\ UNCHANGED down
    <3>1. tx' = [To("load") EXCEPT !.packetno = Following(@)]
      BY <2>2 DEF TxAcked
    <3>2. PICK t \in TxRecord : t = To("load") /\ SameBlock(tx, t) /\ t.pc = "load"
      BY ToOp
    <3>3. PICK n \in 0 .. Numbers - 1 : n = Following(tx.packetno)
      BY BlockNumbers
    <3>4. tx' = [t EXCEPT !.packetno = n]
      BY <3>1, <3>2, <3>3 DEF SameBlock
    <3>5. /\ tx' \in TxRecord /\ tx'.pc = "load" /\ tx'.block = tx.block
          /\ tx'.batch = tx.batch /\ tx'.packetno = n
      BY <3>2, <3>4 DEF TxRecord, SameBlock
    <3>6. tx.packetno = tx.block % Numbers
      BY <2>1 DEF SenderKnown, Sending
    <3>7. n = (tx.block + 1) % Numbers
      BY <3>3, <3>6, BlockNumbers
    <3>8. SenderKnown'
      BY <3>5, <3>7 DEF SenderKnown, Starting, Sending
    <3>. QED  BY <1>0, <2>1, <2>2, <3>5, <3>8
  <2>3. CASE Head(up).kind = "NAK" /\ BatchRetry("send")
    <3>1. Sending
      BY <2>1 DEF Sending
    <3>. QED  BY <2>1, <2>3, <3>1, BatchRetryTypes
  <2>4. CASE UNCHANGED <<down, tx>>
    <3>1. SenderKnown'
      BY <2>4 DEF SenderKnown, Starting, Sending
    <3>. QED  BY <1>0, <2>1, <2>4, <3>1
  <2>. QED  BY <1>4, <2>2, <2>3, <2>4 DEF BatchAck, BatchNoAck
<1>5. CASE BatchEotAck
  <2>1. tx.pc = "eot ack" /\ UpRead /\ UpKept /\ TxLeaves /\ TxKeeps
    BY <1>0, <1>5 DEF BatchEotAck
  <2>2. CASE down' = down /\ tx' = [To("wait C") EXCEPT !.next = "header", !.file = @ + 1]
    <3>1. PICK t \in TxRecord : t = To("wait C") /\ SameBlock(tx, t) /\ t.pc = "wait C"
      BY ToOp
    <3>2. PICK n \in Nat \ {0} : n = t.file + 1
      <4>1. t.file \in Nat \ {0}
        BY <3>1 DEF TxRecord
      <4>2. PICK k \in Nat : k = t.file
        BY <4>1
      <4>3. k + 1 \in Nat \ {0}
        BY Counted
      <4>. QED  BY <4>2, <4>3
    <3>3. tx' = [t EXCEPT !.next = "header", !.file = n]
      BY <2>2, <3>1, <3>2
    <3>4. tx' \in TxRecord /\ tx'.pc = "wait C" /\ tx'.next = "header" /\ tx'.batch = tx.batch
      BY <3>1, <3>3 DEF TxRecord, SameBlock
    <3>5. SenderKnown'
      BY <3>4 DEF SenderKnown, Starting, Sending
    <3>. QED  BY <1>0, <2>1, <2>2, <3>4, <3>5
  <2>3. CASE Head(up).kind = "NAK" /\ BatchRetry("eot")
    BY <2>1, <2>3, BatchRetryTypes
  <2>4. CASE UNCHANGED <<down, tx>>
    <3>1. SenderKnown'
      BY <2>4 DEF SenderKnown, Starting, Sending
    <3>. QED  BY <1>0, <2>1, <2>4, <3>1
  <2>. QED  BY <1>5, <2>2, <2>3, <2>4 DEF BatchEotAck, BatchNoAck
<1>6. CASE BatchTimeout
  <2>1. UpRead /\ TxKeeps
    BY <1>0, <1>6 DEF BatchTimeout
  <2>2. CASE tx.pc = "wait C" /\ BatchRetry("wait C")
    BY <2>1, <2>2, BatchRetryTypes
  <2>3. CASE tx.pc = "header ack" /\ BatchRetry("header")
    BY <2>1, <2>3, BatchRetryTypes
  <2>4. CASE tx.pc = "ack" /\ BatchRetry("send")
    BY <2>1, <2>4, BatchRetryTypes DEF Sending
  <2>5. CASE tx.pc = "eot ack" /\ BatchRetry("eot")
    BY <2>1, <2>5, BatchRetryTypes
  <2>. QED  BY <1>6, <2>2, <2>3, <2>4, <2>5 DEF BatchTimeout
<1>7. CASE TxLoad
  <2>1. tx.pc = "load" /\ UpKept /\ SenderDown /\ TxLeaves
    <3>1. faults \in Nat /\ trouble \in SUBSET Troubles /\ "error" \in Troubles
      BY DEF TypeOK, Troubles
    <3>2. \/ UNCHANGED <<faults, trouble>>
          \/ faults' = faults + 1 /\ trouble' = trouble \cup {"error"} /\ faults + 1 \in Nat
      BY <1>7, FaultCounts DEF TxLoad, Fault
    <3>3. trouble' \in SUBSET Troubles
      BY <3>1, <3>2
    <3>4. faults' \in Nat
      BY <3>1, <3>2
    <3>. QED  BY <1>0, <1>7, <3>3, <3>4 DEF TxLoad, TxLeaves, line
  <2>2. CASE tx.block < tx.size /\ \E blank \in BOOLEAN :
               tx' = [To("send") EXCEPT !.block = @ + 1, !.blank = blank]
    <3>1. PICK blank \in BOOLEAN : tx' = [To("send") EXCEPT !.block = @ + 1, !.blank = blank]
      BY <2>2
    <3>2. PICK t \in TxRecord : t = To("send") /\ SameBlock(tx, t) /\ t.pc = "send"
      BY ToOp
    <3>3. PICK k \in Nat : k = tx.block + 1
      BY BlockNumbers
    <3>4. tx' = [t EXCEPT !.block = k, !.blank = blank]
      BY <3>1, <3>2, <3>3 DEF SameBlock, TxRecord
    <3>5. /\ tx' \in TxRecord /\ tx'.pc = "send" /\ tx'.block = k
          /\ tx'.batch = tx.batch /\ tx'.packetno = tx.packetno
      BY <3>2, <3>4 DEF TxRecord, SameBlock
    <3>6. tx.packetno = k % Numbers /\ k > 0
      <4>1. k > 0
        BY <3>3, BlockNumbers
      <4>. QED  BY <2>1, <3>3, <4>1 DEF SenderKnown
    <3>7. SenderKnown'
      BY <3>5, <3>6 DEF SenderKnown, Starting, Sending
    <3>. QED  BY <2>1, <3>5, <3>7
  <2>3. CASE tx' = To("eot")
    <3>1. tx' \in TxRecord /\ SameBlock(tx, tx') /\ tx'.pc = "eot"
      BY <2>3, ToOp
    <3>2. SenderKnown'
      BY <3>1 DEF SenderKnown, SameBlock, Starting, Sending
    <3>. QED  BY <2>1, <3>1, <3>2 DEF SameBlock
  <2>. QED  BY <1>7, <2>2, <2>3 DEF TxLoad
<1>8. CASE TxSend
  <2>1. tx.pc = "send" /\ tx' = [tx EXCEPT !.pc = "ack"] /\ TxLeaves /\ UpKept
    BY <1>0, <1>8 DEF TxSend
  <2>2. tx' \in TxRecord /\ SameBlock(tx, tx') /\ tx'.pc = "ack"
    BY <2>1 DEF TxRecord, SameBlock
  <2>3. SenderKnown'
    BY <2>1, <2>2 DEF SenderKnown, SameBlock, Starting, Sending
  <2>4. SenderDown
    <3>1. PICK p \in Items :
            /\ p = Packet(tx.packetno, tx.crc, tx.file, tx.block, tx.blank)
            /\ p.block = tx.block
      BY PacketIs DEF Items
    <3>2. p.block # 0
      <4>1. tx.block > 0
        BY <2>1 DEF SenderKnown, Sending
      <4>2. tx.block # 0
        BY <4>1, FileSizes
      <4>. QED  BY <3>1, <4>2
    <3>3. down' = Push(down, <<p>>)
      BY <1>8, <3>1 DEF TxSend
    <3>. QED  BY <3>2, <3>3 DEF SenderDown
  <2>. QED  BY <2>1, <2>2, <2>3, <2>4 DEF SameBlock
<1>9. CASE TxEot
  <2>1. tx.pc = "eot" /\ tx' = [tx EXCEPT !.pc = "eot ack"] /\ TxLeaves /\ UpKept
    BY <1>0, <1>9 DEF TxEot
  <2>2. tx' \in TxRecord /\ SameBlock(tx, tx') /\ tx'.pc = "eot ack"
    BY <2>1 DEF TxRecord, SameBlock
  <2>3. SenderKnown'
    BY <2>1, <2>2 DEF SenderKnown, SameBlock, Starting, Sending
  <2>4. SenderDown
    BY <1>9, EotKeeps DEF TxEot
  <2>. QED  BY <2>1, <2>2, <2>3, <2>4 DEF SameBlock
<1>10. CASE TxDrop
  <2>1. tx' = tx /\ TxLeaves /\ UpKept /\ SenderDown
    BY <1>0, <1>10 DEF TxDrop, UpRead
  <2>2. SenderKnown'
    BY <2>1 DEF SenderKnown, Starting, Sending
  <2>. QED  BY <2>1, <2>2
<1>11. CASE TxFlushed
  <2>1. tx.pc = "flush" /\ tx' = [tx EXCEPT !.pc = tx.next] /\ TxLeaves /\ UpKept
        /\ SenderDown /\ tx.next \in Ends
    BY <1>0, <1>11 DEF TxFlushed, SenderKnown, line
  <2>2. tx' \in TxRecord /\ SameBlock(tx, tx') /\ tx'.pc \in Ends
    BY <2>1 DEF TxRecord, SameBlock
  <2>3. SenderKnown'
    BY <2>1, <2>2 DEF SenderKnown, SameBlock, Starting, Sending
  <2>. QED  BY <2>1, <2>2, <2>3 DEF SameBlock
<1>. QED  BY <1>1, <1>2, <1>3, <1>4, <1>5, <1>6, <1>7, <1>8, <1>9, <1>10, <1>11 DEF BatchStep

\* The line, and the persons at its ends.
LEMMA FaultTypes ==
  ASSUME TypeOK, LineFault \/ PressCtrlX
  PROVE  DownKept /\ UpKept /\ UNCHANGED <<rx, tx, patient>>
         /\ trouble' \in SUBSET Troubles /\ faults' \in Nat
<1>1. down \in Seq(Items) /\ up \in Seq(ByteItems) /\ trouble \in SUBSET Troubles
      /\ Len(down) \in Nat /\ Len(up) \in Nat
  BY DEF TypeOK, LineOK
<1>2. faults' \in Nat
  BY FaultCounts DEF LineFault, PressCtrlX, Fault
<1>3. CASE LineFault
  <2>1. \/ down # <<>> /\ down' \in Struck(down) /\ up' = up
        \/ up # <<>> /\ up' \in Struck(up) /\ down' = down
    BY <1>3 DEF LineFault
  <2>2. DownKept /\ UpKept
    <3>1. CASE down # <<>> /\ down' \in Struck(down) /\ up' = up
      BY <1>1, <3>1, StruckThins, SameKept DEF DownKept
    <3>2. CASE up # <<>> /\ up' \in Struck(up) /\ down' = down
      BY <1>1, <3>2, StruckBytes, SameKept DEF UpKept
    <3>. QED  BY <2>1, <3>1, <3>2
  <2>. QED  BY <1>1, <1>2, <1>3, <2>2 DEF LineFault
<1>4. CASE PressCtrlX
  <2>1. \/ down' = Push(down, Tail(Cans)) /\ up' = up
        \/ up' = Push(up, Tail(Cans)) /\ down' = down
    BY <1>4 DEF PressCtrlX
  <2>2. Tail(Cans) \in Seq(ByteItems) /\ \A i \in DOMAIN Tail(Cans) : Tail(Cans)[i].kind # "EOT"
    BY BytesAreItems
  <2>3. DownKept /\ UpKept
    BY <2>1, <2>2, SameKept DEF DownKept, UpKept
  <2>4. trouble' \in SUBSET Troubles
    BY <1>1, <1>4 DEF PressCtrlX, Troubles
  <2>. QED  BY <1>2, <1>4, <2>3, <2>4 DEF PressCtrlX
<1>. QED  BY <1>3, <1>4

\* xm_receive
LEMMA ReceiveTypes ==
  ASSUME TypeOK, SayKnown, RxStep
  PROVE  /\ DownKept /\ UpKept /\ UNCHANGED <<tx, patient>>
         /\ trouble' \in SUBSET Troubles /\ faults' \in Nat
         /\ rx' \in RxRecord /\ SayKnown' /\ files' \in Seq(FileRecord)
<1>0. trouble \in SUBSET Troubles /\ faults \in Nat /\ files \in Seq(FileRecord)
      /\ "tries" \in Troubles
  BY DEF TypeOK, Troubles
<1>1. ASSUME Taken PROVE DownKept /\ UpKept
  <2>1. DownKept
    BY <1>1, SameKept DEF Taken
  <2>2. CASE up' = up
    BY <2>1, <2>2, SameKept
  <2>3. CASE \E x \in ByteItems : up' = Push(up, <<x>>)
    <3>0. PICK x \in ByteItems : up' = Push(up, <<x>>)
      BY <2>3
    <3>1. PICK items \in Seq(ByteItems) : up' = Push(up, items)
      <4>1. <<x>> \in Seq(ByteItems)
        OBVIOUS
      <4>. QED  BY <3>0, <4>1
    <3>. QED  BY <2>1, <3>1 DEF UpKept
  <2>. QED  BY <1>1, <2>2, <2>3 DEF Taken
<1>2. CASE QuietRx
  <2>1. /\ UNCHANGED <<files, tx, patient, faults>>
        /\ trouble' = trouble \/ trouble' = trouble \cup {"tries"}
        /\ rx' \in RxRecord /\ SayKnown' /\ QuietLines
    BY <1>2, QuietRxDoes
  <2>2. DownKept
    BY <2>1, SameKept DEF QuietLines
  <2>3. UpKept
    BY <2>1, SameKept DEF QuietLines, UpKept
  <2>4. trouble' \in SUBSET Troubles
    BY <1>0, <2>1
  <2>. QED  BY <1>0, <2>1, <2>2, <2>3, <2>4
<1>3. CASE RxEot
  <2>1. Taken /\ files' \in Seq(FileRecord)
    BY <1>3, EotDoes
  <2>. QED  BY <1>0, <1>1, <1>3, <2>1 DEF Taken, RxEot, Keep
<1>4. CASE RxSessionEnd
  BY <1>0, <1>1, <1>4, SessionEndDoes DEF Taken
<1>5. CASE RxHeader
  BY <1>0, <1>1, <1>5, HeaderDoes DEF Taken
<1>6. CASE RxData
  BY <1>0, <1>1, <1>6, DataDoes DEF Taken
<1>7. CASE RxCardError
  BY <1>1, <1>7, CardErrorDoes DEF Taken
<1>8. CASE RxDuplicate
  BY <1>0, <1>1, <1>8, DuplicateDoes DEF Taken
<1>. QED  BY <1>2, <1>3, <1>4, <1>5, <1>6, <1>7, <1>8 DEF RxStep, QuietRx

Known == TypeOK /\ SenderKnown /\ SayKnown

LEMMA KnownInit ==
  ASSUME Init
  PROVE  Known
<1>1. LineOK /\ Names(down)
  BY Constants DEF Init, LineOK, Names
<1>2. faults \in Nat /\ trouble \in SUBSET Troubles /\ patient \in BOOLEAN
  BY DEF Init
<1>3. rx \in RxRecord /\ SayKnown
  BY Constants DEF Init, RxInit, RxRecord, RxPlaces, RxNexts, SayKnown
<1>4. files \in Seq(FileRecord)
  BY DEF Init, RxInit
<1>5. tx \in TxRecord /\ SenderKnown
  <2>1. CASE TxInit
    <3>1. PICK size \in Nat : tx = TxStart("sync", FALSE, size)
      BY <2>1, Constants DEF TxInit
    <3>2. tx \in TxRecord /\ tx.pc = "sync" /\ tx.block = 0 /\ tx.packetno = 1 /\ tx.file = 1
          /\ ~tx.batch /\ tx.size = size
      BY <3>1, Constants DEF TxStart, TxRecord, TxPlaces
    <3>. QED  BY <3>2 DEF SenderKnown, Sending
  <2>2. CASE BatchInit
    <3>1. tx = TxStart("wait C", TRUE, 0)
      BY <2>2 DEF BatchInit
    <3>0. PICK place \in TxPlaces, yes \in BOOLEAN : place = "wait C" /\ yes = TRUE
      BY DEF TxPlaces
    <3>3. tx = TxStart(place, yes, 0)
      BY <3>0, <3>1
    <3>4. tx \in TxRecord /\ tx.pc = place /\ tx.block = 0 /\ tx.packetno = 1 /\ tx.batch = yes
      BY <3>3, Constants DEF TxStart, TxRecord
    <3>2. tx \in TxRecord /\ tx.pc = "wait C" /\ tx.block = 0 /\ tx.packetno = 1 /\ tx.batch
      BY <3>0, <3>4
    <3>. QED  BY <3>2 DEF SenderKnown, Sending
  <2>. QED  BY <2>1, <2>2 DEF Init
<1>. QED  BY <1>1, <1>2, <1>3, <1>4, <1>5 DEF Known, TypeOK

LEMMA KnownStep ==
  ASSUME Known, [Next]_vars
  PROVE  Known' /\ tx'.batch = tx.batch /\ patient' = patient
<1>. TypeOK /\ SenderKnown /\ SayKnown
  BY DEF Known
<1>0. /\ faults \in Nat /\ trouble \in SUBSET Troubles /\ patient \in BOOLEAN
      /\ rx \in RxRecord /\ tx \in TxRecord /\ files \in Seq(FileRecord)
  BY DEF TypeOK
<1>1. UNCHANGED tx => SenderKnown'
  BY DEF SenderKnown, Sending, Starting
<1>2. UNCHANGED rx => SayKnown'
  BY DEF SayKnown
<1>3. CASE RxStep
  <2>1. /\ DownKept /\ UpKept /\ UNCHANGED <<tx, patient>>
        /\ trouble' \in SUBSET Troubles /\ faults' \in Nat
        /\ rx' \in RxRecord /\ SayKnown' /\ files' \in Seq(FileRecord)
    BY <1>3, ReceiveTypes
  <2>. QED  BY <1>0, <1>1, <2>1, DownTyped, UpTyped DEF Known, TypeOK, LineOK
<1>4. CASE SenderStep
  <2>1. tx' \in TxRecord /\ SenderKnown' /\ tx'.batch = tx.batch
        /\ SenderDown /\ UpKept /\ TxLeaves
    BY <1>4, TransmitTypes, BatchTypes DEF SenderStep
  <2>. QED  BY <1>0, <1>2, <2>1, SenderDownTyped, UpTyped DEF Known, TypeOK, LineOK, TxLeaves
<1>5. CASE (LineFault \/ PressCtrlX) /\ UNCHANGED files
  <2>1. DownKept /\ UpKept /\ UNCHANGED <<rx, tx, patient>>
        /\ trouble' \in SUBSET Troubles /\ faults' \in Nat
    BY <1>5, FaultTypes
  <2>. QED  BY <1>0, <1>1, <1>2, <1>5, <2>1, DownTyped, UpTyped DEF Known, TypeOK, LineOK
<1>6. CASE CardFills
  <2>1. UNCHANGED <<line, patient, rx, tx, files>> /\ faults' \in Nat
        /\ trouble' \in SUBSET Troubles
    BY <1>0, <1>6, FaultCounts DEF CardFills, Fault, Troubles
  <2>2. LineOK' /\ Names(down)'
    BY <2>1 DEF TypeOK, LineOK, Names, line
  <2>. QED  BY <1>0, <1>1, <1>2, <2>1, <2>2 DEF Known, TypeOK
<1>7. CASE UNCHANGED vars
  <2>1. UNCHANGED <<down, up, faults, trouble, patient, rx, tx, files>>
    BY <1>7 DEF vars
  <2>2. LineOK' /\ Names(down)'
    BY <2>1 DEF TypeOK, LineOK, Names
  <2>. QED  BY <1>0, <1>1, <1>2, <2>1, <2>2 DEF Known, TypeOK
<1>. QED  BY <1>3, <1>4, <1>5, <1>6, <1>7 DEF Next

(* Between two packets, answers or time-outs of xm_transmit and xm_receive,   *)
(* whatever is lost, damaged or late, both programs, both lines and the files *)
(* keep their types: the block numbers stay below Numbers, the counts of      *)
(* tries within theirs, and the receiver's file holds blocks that were sent.  *)
THEOREM XmodemTypeCorrect == Spec => []TypeOK
<1>1. Init => Known
  BY KnownInit
<1>2. Known /\ [Next]_vars => Known'
  BY KnownStep
<1>3. Known => TypeOK
  BY DEF Known
<1>. QED  BY <1>1, <1>2, <1>3, PTL DEF Spec

-----------------------------------------------------------------------------
(* One file by XMODEM *)

Pending == IF tx.pc = "load" THEN 1 ELSE 0
Acks    == Count(up, {Byte("ACK")})

\* No packet will be written any more.  Packet 0 would be a header.
Over == RxDone \/ rx.packetno = 0 \/ (Closing /\ NoPackets(down))

EotKnown == EotLast(down) /\ (Closing \/ NoEot(down))

\* The receiver waits for the packet after one that the sender has sent, and nothing
\* older is on its way than the packet it had last.
AheadKnown ==
  ~Over => rx.packetno <= tx.block + 1 /\ NoneBefore(down, rx.packetno - 1)

\* Each step of the sender past a block takes an acknowledgement, and each of those a
\* packet that the receiver has had.  So the sender is ahead of what the receiver can
\* get by at most the answers and the packets that fit in the two rings.
Bounded ==
  ~Over =>
    \A b \in rx.packetno .. tx.block + 1 :
      (\A j \in rx.packetno .. b - 1 : InFlight(down, j)) =>
        tx.block + Pending + Acks + Count(down, Below(b)) <= b + 2 * LineMax

InOrder(blocks) == \A i \in DOMAIN blocks : blocks[i] = <<1, i>>

\* What has been written are the blocks before the one the receiver waits for.
FilesKnown ==
  ~Over =>
    /\ rx.packetno = 1 => files = <<>>
    /\ rx.packetno > 1 =>
         /\ Len(files) = 1 /\ InOrder(files[1].blocks)
         /\ "full" \notin trouble => Len(files[1].blocks) = rx.packetno - 1

PlaceKnown ==
  \A f \in DOMAIN files :
    f = 1 /\ \A i \in DOMAIN files[f].blocks : files[f].blocks[i] \in {<<1, i>>, Filler}

OneFile ==
  /\ EotKnown /\ Flight(down, tx.block) /\ AheadKnown /\ Bounded
  /\ FilesKnown /\ PlaceKnown

LEMMA Sums ==
  ASSUME TypeOK
  PROVE  /\ tx.block \in Nat /\ rx.packetno \in Nat /\ rx.packetno < Numbers
         /\ Pending \in 0 .. 1 /\ Acks \in Nat /\ Acks <= LineMax
         /\ \A b : Count(down, Below(b)) \in Nat /\ Count(down, Below(b)) <= LineMax
         /\ down \in Seq(Items) /\ Len(down) <= LineMax
         /\ up \in Seq(ByteItems) /\ Len(up) <= LineMax
<1>1. down \in Seq(Items) /\ Len(down) <= LineMax /\ up \in Seq(ByteItems) /\ Len(up) <= LineMax
  BY DEF TypeOK, LineOK
<1>2. tx.block \in Nat
  BY DEF TypeOK, TxRecord
<1>3. rx.packetno \in 0 .. Numbers - 1
  BY DEF TypeOK, RxRecord
<1>4. rx.packetno \in Nat /\ rx.packetno < Numbers
  BY <1>3, Constants
<1>5. Pending \in 0 .. 1
  BY DEF Pending
<1>6. Len(down) \in Nat /\ Len(up) \in Nat /\ LineMax \in Nat
  BY <1>1, Constants
<1>7. Acks \in Nat /\ Acks <= LineMax
  <2>1. Acks \in Nat /\ Acks <= Len(up)
    BY <1>1, CountType DEF Acks
  <2>. QED  BY <1>1, <1>6, <2>1
<1>8. ASSUME NEW b PROVE Count(down, Below(b)) \in Nat /\ Count(down, Below(b)) <= LineMax
  <2>1. Count(down, Below(b)) \in Nat /\ Count(down, Below(b)) <= Len(down)
    BY <1>1, CountType
  <2>. QED  BY <1>1, <1>6, <2>1
<1>. QED  BY <1>1, <1>2, <1>4, <1>5, <1>7, <1>8

LEMMA AcksThin ==
  ASSUME NEW q \in Seq(ByteItems), NEW r \in Seq(ByteItems), Thinned(q, r)
  PROVE  Count(r, {Byte("ACK")}) <= Count(q, {Byte("ACK")})
<1>1. ASSUME NEW x, NEW y, Spoilt(x, y), y \in {Byte("ACK")} PROVE x \in {Byte("ACK")}
  <2>1. y = [kind |-> "ACK"]
    BY <1>1 DEF Byte
  <2>2. CASE y = x
    BY <1>1, <2>2
  <2>3. CASE y = Byte("junk")
    <3>1. y.kind = "junk"
      BY <2>3 DEF Byte
    <3>. QED  BY <2>1, <3>1
  <2>4. CASE x.kind = "packet" /\ y = [x EXCEPT !.ok = FALSE]
    <3>1. DOMAIN y = {"kind"} /\ y.kind = "ACK"
      BY <2>1
    <3>2. DOMAIN y = DOMAIN x /\ ("kind" \in DOMAIN x => y.kind = x.kind)
      BY <2>4
    <3>. QED  BY <2>4, <3>1, <3>2
  <2>. QED  BY <1>1, <2>2, <2>3, <2>4 DEF Spoilt
<1>. QED  BY <1>1, CountThins

\* What is kept when nothing, or bytes other than EOT, are put on the line down.
LEMMA DownKeeps ==
  ASSUME TypeOK, DownKept
  PROVE  /\ \A t \in Nat : Flight(down, t) => Flight(down', t)
         /\ EotLast(down) => EotLast(down')
         /\ NoPackets(down) => NoPackets(down')
         /\ NoEot(down) => NoEot(down')
         /\ \A b \in Nat :
              /\ NoneBefore(down, b) => NoneBefore(down', b)
              /\ InFlight(down', b) => InFlight(down, b)
              /\ Count(down', Below(b)) <= Count(down, Below(b))
<1>. down \in Seq(Items) /\ Len(down) <= LineMax
  BY DEF TypeOK, LineOK
<1>1. CASE down' \in Seq(Items) /\ Thinned(down, down')
  <2>1. PICK r \in Seq(Items) : r = down' /\ Thinned(down, r)
    BY <1>1
  <2>2. ASSUME NEW t \in Nat
        PROVE  /\ Flight(down, t) => Flight(r, t)
               /\ EotLast(down) => EotLast(r)
               /\ NoPackets(down) => NoPackets(r)
               /\ NoEot(down) => NoEot(r)
               /\ NoneBefore(down, t) => NoneBefore(r, t)
               /\ InFlight(r, t) => InFlight(down, t)
               /\ Count(r, Below(t)) <= Count(down, Below(t))
    <3>1. t <= t
      OBVIOUS
    <3>. QED  BY <2>1, <3>1, FlightThins
  <2>3. 0 \in Nat
    OBVIOUS
  <2>. QED  BY <2>1, <2>2, <2>3
<1>2. CASE \E items \in Seq(ByteItems) :
             down' = Push(down, items) /\ \A i \in DOMAIN items : items[i].kind # "EOT"
  <2>1. PICK items \in Seq(ByteItems) :
             down' = Push(down, items) /\ \A i \in DOMAIN items : items[i].kind # "EOT"
    BY <1>2
  <2>2. ASSUME NEW t \in Nat
        PROVE  /\ Flight(down, t) => Flight(down', t)
               /\ EotLast(down) => EotLast(down')
               /\ NoPackets(down) => NoPackets(down')
               /\ NoEot(down) => NoEot(down')
               /\ NoneBefore(down, t) => NoneBefore(down', t)
               /\ InFlight(down', t) => InFlight(down, t)
               /\ Count(down', Below(t)) <= Count(down, Below(t))
    BY <2>1, FlightBytes
  <2>3. 0 \in Nat
    OBVIOUS
  <2>. QED  BY <2>2, <2>3
<1>. QED  BY <1>1, <1>2 DEF DownKept

\* The inequality survives a step that puts no packet on its way.
LEMMA BoundedKept ==
  ASSUME TypeOK, TypeOK', Bounded, Over => Over',
         Over' \/ Pending' + Acks' <= Pending + Acks,
         rx'.packetno = rx.packetno, tx'.block = tx.block,
         \A b \in Nat : /\ InFlight(down', b) => InFlight(down, b)
                        /\ Count(down', Below(b)) <= Count(down, Below(b))
  PROVE  Bounded'
<1>1. CASE Over'
  BY <1>1 DEF Bounded
<1>2. CASE ~Over'
  <2>1. PICK k \in Nat, t \in Nat, p \in Nat, a \in Nat, p1 \in Nat, a1 \in Nat, l \in Nat :
          /\ k = rx.packetno /\ t = tx.block /\ p = Pending /\ a = Acks
          /\ p1 = Pending' /\ a1 = Acks' /\ l = LineMax
    <3>1. Pending' \in Nat
      BY DEF Pending
    <3>2. Acks' \in Nat
      <4>1. up' \in Seq(ByteItems)
        BY DEF TypeOK, LineOK
      <4>2. Acks' \in Nat
        BY <4>1, CountType DEF Acks
      <4>. QED  BY <4>2
    <3>3. Pending \in Nat /\ Acks \in Nat /\ rx.packetno \in Nat /\ tx.block \in Nat
      BY Sums
    <3>4. LineMax \in Nat
      BY Constants
    <3>. QED  BY <3>1, <3>2, <3>3, <3>4, Zenon
  <2>2. p1 + a1 <= p + a
    BY <1>2, <2>1
  <2>3. ASSUME NEW b \in k .. t + 1, \A j \in k .. b - 1 : InFlight(down', j)
        PROVE  t + p1 + a1 + Count(down', Below(b)) <= b + 2 * l
    <3>1. b \in Nat /\ \A j \in k .. b - 1 : j \in Nat
      OBVIOUS
    <3>2. \A j \in k .. b - 1 : InFlight(down, j)
      BY <2>3, <3>1
    <3>3. t + p + a + Count(down, Below(b)) <= b + 2 * l
      BY <1>2, <2>1, <2>3, <3>2 DEF Bounded
    <3>4. PICK c \in Nat : c = Count(down, Below(b))
      BY Sums
    <3>5. PICK c1 \in Nat : c1 = Count(down', Below(b)) /\ c1 <= c
      <4>1. down' \in Seq(Items)
        BY DEF TypeOK, LineOK
      <4>2. Count(down', Below(b)) \in Nat
        BY <4>1, CountType
      <4>. QED  BY <3>1, <3>4, <4>2
    <3>. QED  BY <2>2, <3>3, <3>4, <3>5
  <2>. QED  BY <1>2, <2>1, <2>3 DEF Bounded
<1>. QED  BY <1>1, <1>2

\* The state of the card only gets worse.
LEMMA TroubleGrows ==
  ASSUME [Next]_vars
  PROVE  trouble \subseteq trouble'
<1>1. CASE RxStep
  BY <1>1 DEF RxStep, RxAsk, RxNoSync, RxTimeout, RxDrop, RxFlushed, RxGone, RxEot, RxCan,
              RxSecondCan, RxJunk, RxReject, RxSessionEnd, RxHeader, RxData, RxCardError,
              RxDuplicate
<1>2. CASE SenderStep
  <2>1. TxKeeps => trouble \subseteq trouble'
    BY DEF TxKeeps
  <2>2. TxLoad => trouble \subseteq trouble'
    BY DEF TxLoad
  <2>3. TxStep => TxKeeps \/ TxLoad
    BY DEF TxStep, TxSync, TxCan, TxSend, TxAck, TxEot, TxEotAck, TxTimeout, TxDrop, TxFlushed
  <2>4. BatchStep => TxKeeps \/ TxLoad
    BY DEF BatchStep, BatchWaitC, BatchHeader, BatchHeaderAck, BatchAck, BatchEotAck,
           BatchTimeout, TxSend, TxEot, TxDrop, TxFlushed
  <2>. QED  BY <1>2, <2>1, <2>2, <2>3, <2>4 DEF SenderStep
<1>3. CASE LineFault \/ PressCtrlX \/ CardFills
  BY <1>3 DEF LineFault, PressCtrlX, CardFills
<1>4. CASE UNCHANGED vars
  BY <1>4 DEF vars
<1>. QED  BY <1>1, <1>2, <1>3, <1>4 DEF Next

\* A step that takes no packet and sends none.
Calm ==
  /\ rx'.packetno = rx.packetno /\ tx'.block = tx.block /\ files' = files
  /\ RxDone => RxDone'
  /\ Closing => Closing'
  /\ DownKept
  /\ RxDone' \/ Pending' + Acks' <= Pending + Acks

LEMMA OverKept ==
  ASSUME TypeOK, rx'.packetno = rx.packetno, RxDone => RxDone', Closing => Closing',
         NoPackets(down) => NoPackets(down')
  PROVE  Over => Over'
BY DEF Over

LEMMA FilesKept ==
  ASSUME FilesKnown, PlaceKnown, files' = files, rx'.packetno = rx.packetno,
         trouble \subseteq trouble', Over => Over'
  PROVE  FilesKnown' /\ PlaceKnown'
<1>1. PlaceKnown'
  BY DEF PlaceKnown
<1>2. FilesKnown'
  BY DEF FilesKnown
<1>. QED  BY <1>1, <1>2

LEMMA CalmKeeps ==
  ASSUME TypeOK, TypeOK', OneFile, Calm, trouble \subseteq trouble'
  PROVE  OneFile'
<1>1. /\ \A t \in Nat : Flight(down, t) => Flight(down', t)
      /\ EotLast(down) => EotLast(down')
      /\ NoPackets(down) => NoPackets(down')
      /\ NoEot(down) => NoEot(down')
      /\ \A b \in Nat :
           /\ NoneBefore(down, b) => NoneBefore(down', b)
           /\ InFlight(down', b) => InFlight(down, b)
           /\ Count(down', Below(b)) <= Count(down, Below(b))
  BY DownKeeps DEF Calm
<1>2. Over => Over'
  BY <1>1, OverKept DEF Calm
<1>3. Flight(down', tx'.block)
  BY <1>1, Sums DEF OneFile, Calm
<1>4. EotKnown'
  BY <1>1 DEF OneFile, EotKnown, Calm
<1>5. AheadKnown'
  <2>1. CASE Over'
    BY <2>1 DEF AheadKnown
  <2>2. CASE ~Over'
    <3>1. rx.packetno <= tx.block + 1 /\ NoneBefore(down, rx.packetno - 1)
      BY <1>2, <2>2 DEF OneFile, AheadKnown
    <3>2. rx.packetno - 1 \in Nat
      <4>1. rx.packetno # 0
        BY <1>2, <2>2 DEF Over
      <4>. QED  BY <4>1, Sums
    <3>3. NoneBefore(down', rx.packetno - 1)
      BY <1>1, <3>1, <3>2
    <3>. QED  BY <3>1, <3>3 DEF AheadKnown, Calm
  <2>. QED  BY <2>1, <2>2
<1>6. Bounded'
  <2>1. Over' \/ Pending' + Acks' <= Pending + Acks
    BY DEF Calm, Over
  <2>. QED  BY <1>1, <1>2, <2>1, BoundedKept DEF OneFile, Calm
<1>7. FilesKnown' /\ PlaceKnown'
  BY <1>2, FilesKept DEF OneFile, Calm
<1>. QED  BY <1>3, <1>4, <1>5, <1>6, <1>7 DEF OneFile

\* What the sender does that is no calm step.
LEMMA StartKeeps ==
  ASSUME TypeOK, TypeOK', OneFile, TxStarts, TxLeaves, Closing => Closing',
         trouble \subseteq trouble'
  PROVE  OneFile'
<1>0. ~Closing /\ rx' = rx /\ files' = files /\ down' = down /\ tx'.block = tx.block
  BY DEF Closing, TxStarts, TxLeaves, Ends
<1>1. Over => Over'
  BY <1>0, OverKept DEF RxDone
<1>2. Over' => Over
  BY <1>0 DEF Over, RxDone, Closing, TxStarts, Ends
<1>3. EotKnown' /\ Flight(down', tx'.block) /\ AheadKnown'
  BY <1>0, <1>1 DEF OneFile, EotKnown, AheadKnown
<1>4. Bounded'
  <2>1. CASE Over'
    BY <2>1 DEF Bounded
  <2>2. CASE ~Over'
    <3>1. PICK k \in Nat, l \in Nat : k = rx.packetno /\ l = LineMax
      BY Sums, Constants
    <3>2. k # 0
      BY <1>1, <2>2, <3>1 DEF Over
    <3>3. PICK p1 \in 0 .. 1 : p1 = Pending'
      BY DEF Pending
    <3>4. PICK a1 \in Nat : a1 = Acks' /\ a1 <= l
      <4>1. up' \in Seq(ByteItems) /\ Len(up') <= LineMax /\ Len(up') \in Nat
        BY DEF TypeOK, LineOK
      <4>2. Acks' \in Nat /\ Acks' <= Len(up')
        BY <4>1, CountType DEF Acks
      <4>. QED  BY <3>1, <4>1, <4>2
    <3>5. ASSUME NEW b \in k .. 0 + 1
          PROVE  0 + p1 + a1 + Count(down, Below(b)) <= b + 2 * l
      <4>1. PICK c \in Nat : c = Count(down, Below(b)) /\ c <= l
        BY <3>1, Sums
      <4>. QED  BY <3>1, <3>2, <3>3, <3>4, <4>1
    <3>. QED  BY <1>0, <2>2, <3>1, <3>3, <3>4, <3>5 DEF Bounded, TxStarts
  <2>. QED  BY <2>1, <2>2
<1>5. FilesKnown' /\ PlaceKnown'
  BY <1>0, <1>1, FilesKept DEF OneFile
<1>. QED  BY <1>3, <1>4, <1>5 DEF OneFile

LEMMA LoadKeeps ==
  ASSUME TypeOK, TypeOK', OneFile, TxLoads, TxLeaves, Closing => Closing',
         trouble \subseteq trouble'
  PROVE  OneFile'
<1>0. ~Closing /\ rx' = rx /\ files' = files /\ down' = down /\ up' = up
  BY DEF Closing, TxLoads, TxLeaves, Ends, line
<1>1. Over => Over'
  BY <1>0, OverKept DEF RxDone
<1>2. PICK k \in Nat, t \in Nat, t1 \in Nat, l \in Nat, a \in Nat :
        k = rx.packetno /\ t = tx.block /\ t1 = t + 1 /\ t1 = tx'.block /\ l = LineMax /\ a = Acks
  <2>1. tx.block + 1 \in Nat
    BY Sums
  <2>. QED  BY <2>1, Sums, Constants DEF TxLoads
<1>3. EotKnown'
  BY <1>0 DEF OneFile, EotKnown
<1>4. Flight(down', tx'.block)
  <2>1. down \in Seq(Items) /\ Thinned(down, down) /\ t <= t1
    BY <1>2, Sums, ThinnedSame
  <2>. QED  BY <1>0, <1>2, <2>1, FlightThins DEF OneFile
<1>5. AheadKnown'
  <2>1. ~Over' => k <= t + 1 /\ NoneBefore(down, k - 1)
    BY <1>1, <1>2 DEF OneFile, AheadKnown
  <2>2. ~Over' => k <= t1 + 1
    BY <1>2, <2>1
  <2>. QED  BY <1>0, <1>2, <2>1, <2>2 DEF AheadKnown
<1>6. Bounded'
  <2>1. CASE Over'
    BY <2>1 DEF Bounded
  <2>2. CASE ~Over'
    <3>1. k <= t + 1
      BY <1>1, <1>2, <2>2 DEF OneFile, AheadKnown
    <3>2. Pending = 1 /\ Pending' = 0 /\ Acks' = a
      BY <1>0, <1>2 DEF Pending, TxLoads, Acks
    <3>3. ASSUME NEW b \in k .. t1 + 1, \A j \in k .. b - 1 : InFlight(down, j)
          PROVE  t1 + 0 + a + Count(down, Below(b)) <= b + 2 * l
      <4>1. CASE b \in k .. t + 1
        <5>1. t + 1 + a + Count(down, Below(b)) <= b + 2 * l
          BY <1>1, <1>2, <2>2, <3>2, <3>3, <4>1 DEF OneFile, Bounded
        <5>2. PICK c \in Nat : c = Count(down, Below(b))
          BY Sums
        <5>. QED  BY <1>2, <5>1, <5>2
      <4>2. CASE b = t1 + 1
        <5>1. InFlight(down, t1)
          <6>1. t1 \in k .. b - 1
            BY <1>2, <3>1, <4>2
          <6>. QED  BY <3>3, <6>1
        <5>2. PICK i \in DOMAIN down : down[i] \in Packets /\ down[i].block = t1
          BY <5>1 DEF InFlight
        <5>3. down[i].block \in 1 .. t
          BY <1>2, <5>2 DEF OneFile, Flight, Packets
        <5>. QED  BY <1>2, <5>2, <5>3
      <4>3. b \in k .. t + 1 \/ b = t1 + 1
        BY <1>2, <3>1
      <4>. QED  BY <4>1, <4>2, <4>3
    <3>. QED  BY <1>0, <1>2, <2>2, <3>2, <3>3 DEF Bounded
  <2>. QED  BY <2>1, <2>2
<1>7. FilesKnown' /\ PlaceKnown'
  BY <1>0, <1>1, FilesKept DEF OneFile
<1>. QED  BY <1>3, <1>4, <1>5, <1>6, <1>7 DEF OneFile

LEMMA SendKeeps ==
  ASSUME TypeOK, TypeOK', SenderKnown, ~tx.batch, OneFile, TxSends, TxLeaves,
         trouble \subseteq trouble'
  PROVE  OneFile'
<1>. tx \in TxRecord
  BY DEF TypeOK
<1>0. ~Closing /\ rx' = rx /\ files' = files /\ up' = up /\ tx'.block = tx.block
  BY DEF Closing, TxSends, TxLeaves, Ends
<1>1. PICK k \in Nat, t \in Nat, l \in Nat, a \in Nat :
        k = rx.packetno /\ t = tx.block /\ l = LineMax /\ a = Acks /\ a <= l
  BY Sums, Constants
<1>2. PICK p \in Packets :
        /\ p = Packet(tx.packetno, tx.crc, tx.file, tx.block, tx.blank)
        /\ p.name = 1 /\ p.block = t /\ p.no = t % Numbers
  <2>1. tx.file = 1 /\ tx.packetno = tx.block % Numbers
    BY DEF TxSends, SenderKnown, Sending
  <2>. QED  BY <1>1, <2>1, PacketIs
<1>3. t > 0
  BY <1>1 DEF TxSends, SenderKnown, Sending
<1>4. down' = Push(down, <<p>>)
  BY <1>2 DEF TxSends
<1>5. down \in Seq(Items) /\ Len(down) <= LineMax
  BY Sums
<1>6. ASSUME NEW b \in Nat
      PROVE  /\ Flight(down, t) => Flight(down', t)
             /\ NoEot(down) => NoEot(down')
             /\ NoneBefore(down, b) /\ b <= t => NoneBefore(down', b)
             /\ b # t /\ InFlight(down', b) => InFlight(down, b)
             /\ b <= t => Count(down', Below(b)) <= Count(down, Below(b))
  BY <1>2, <1>3, <1>4, <1>5, FlightSent
<1>7. Over <=> Over'
  <2>1. ~Closing'
    BY DEF Closing, TxSends, Ends
  <2>. QED  BY <1>0, <2>1 DEF Over, RxDone
<1>8. EotKnown'
  <2>1. NoEot(down')
    BY <1>0, <1>1, <1>6 DEF OneFile, EotKnown
  <2>. QED  BY <2>1 DEF EotKnown, EotLast, NoEot
<1>9. Flight(down', tx'.block)
  BY <1>0, <1>1, <1>6 DEF OneFile
<1>10. AheadKnown'
  <2>1. CASE Over'
    BY <2>1 DEF AheadKnown
  <2>2. CASE ~Over'
    <3>1. k <= t + 1 /\ NoneBefore(down, k - 1)
      BY <1>1, <1>7, <2>2 DEF OneFile, AheadKnown
    <3>2. k - 1 \in Nat /\ k - 1 <= t
      <4>1. k # 0
        BY <1>1, <1>7, <2>2 DEF Over
      <4>. QED  BY <3>1, <4>1
    <3>3. NoneBefore(down', k - 1)
      BY <1>6, <3>1, <3>2
    <3>. QED  BY <1>0, <1>1, <3>1, <3>3 DEF AheadKnown
  <2>. QED  BY <2>1, <2>2
<1>11. Bounded'
  <2>1. CASE Over'
    BY <2>1 DEF Bounded
  <2>2. CASE ~Over'
    <3>1. Pending = 0 /\ Pending' = 0 /\ Acks' = a
      BY <1>0, <1>1 DEF Pending, TxSends, Acks
    <3>2. ASSUME NEW b \in k .. t + 1, \A j \in k .. b - 1 : InFlight(down', j)
          PROVE  t + 0 + a + Count(down', Below(b)) <= b + 2 * l
      <4>0. PICK c1 \in Nat : c1 = Count(down', Below(b)) /\ c1 <= l
        <5>1. down' \in Seq(Items) /\ Len(down') <= LineMax /\ Len(down') \in Nat
          BY DEF TypeOK, LineOK
        <5>2. Count(down', Below(b)) \in Nat /\ Count(down', Below(b)) <= Len(down')
          BY <5>1, CountType
        <5>. QED  BY <1>1, <5>1, <5>2
      <4>1. CASE b \in k .. t
        <5>1. b \in Nat /\ b <= t /\ b \in k .. t + 1
          BY <4>1
        <5>2. \A j \in k .. b - 1 : j \in Nat /\ j # t
          BY <4>1
        <5>3. \A j \in k .. b - 1 : InFlight(down, j)
          BY <1>6, <3>2, <5>2
        <5>4. t + 0 + a + Count(down, Below(b)) <= b + 2 * l
          BY <1>1, <1>7, <2>2, <3>1, <5>1, <5>3 DEF OneFile, Bounded
        <5>5. PICK c \in Nat : c = Count(down, Below(b)) /\ c1 <= c
          BY <1>6, <4>0, <5>1, Sums
        <5>. QED  BY <1>1, <4>0, <5>1, <5>4, <5>5
      <4>2. CASE b = t + 1
        BY <1>1, <4>0, <4>2
      <4>3. b \in k .. t \/ b = t + 1
        OBVIOUS
      <4>. QED  BY <4>1, <4>2, <4>3
    <3>. QED  BY <1>0, <1>1, <2>2, <3>1, <3>2 DEF Bounded
  <2>. QED  BY <2>1, <2>2
<1>12. FilesKnown' /\ PlaceKnown'
  BY <1>0, <1>7, FilesKept DEF OneFile
<1>. QED  BY <1>8, <1>9, <1>10, <1>11, <1>12 DEF OneFile

LEMMA EndKeeps ==
  ASSUME TypeOK, TypeOK', OneFile, TxEnds, TxLeaves, trouble \subseteq trouble'
  PROVE  OneFile'
<1>0. Closing /\ Closing' /\ rx' = rx /\ files' = files /\ up' = up /\ tx'.block = tx.block
  BY DEF Closing, TxEnds, TxLeaves
<1>1. PICK k \in Nat, t \in Nat : k = rx.packetno /\ t = tx.block
  BY Sums
<1>2. PICK items \in Seq(ByteItems) : down' = Push(down, items)
  <2>1. PICK x \in ByteItems : x = Byte("EOT")
    BY BytesAreItems
  <2>2. <<x>> \in Seq(ByteItems)
    OBVIOUS
  <2>3. down' = Push(down, <<x>>)
    BY <2>1 DEF TxEnds
  <2>. QED  BY <2>2, <2>3
<1>3. down \in Seq(Items) /\ Len(down) <= LineMax
  BY Sums
<1>4. ASSUME NEW b \in Nat
      PROVE  /\ Flight(down, t) => Flight(down', t)
             /\ EotLast(down) => EotLast(down')
             /\ NoPackets(down) => NoPackets(down')
             /\ NoneBefore(down, b) => NoneBefore(down', b)
             /\ InFlight(down', b) => InFlight(down, b)
             /\ Count(down', Below(b)) <= Count(down, Below(b))
  BY <1>2, <1>3, FlightBytes
<1>5. Over => Over'
  BY <1>0, <1>1, <1>4, OverKept DEF RxDone
<1>6. EotKnown'
  BY <1>0, <1>1, <1>4 DEF OneFile, EotKnown
<1>7. Flight(down', tx'.block)
  BY <1>0, <1>1, <1>4 DEF OneFile
<1>8. AheadKnown'
  <2>1. CASE Over'
    BY <2>1 DEF AheadKnown
  <2>2. CASE ~Over'
    <3>1. k <= t + 1 /\ NoneBefore(down, k - 1)
      BY <1>1, <1>5, <2>2 DEF OneFile, AheadKnown
    <3>2. k - 1 \in Nat
      <4>1. k # 0
        BY <1>1, <1>5, <2>2 DEF Over
      <4>. QED  BY <4>1
    <3>3. NoneBefore(down', k - 1)
      BY <1>4, <3>1, <3>2
    <3>. QED  BY <1>0, <1>1, <3>1, <3>3 DEF AheadKnown
  <2>. QED  BY <2>1, <2>2
<1>9. Bounded'
  <2>1. Pending = 0 /\ Pending' = 0 /\ Acks' = Acks
    BY <1>0 DEF Pending, TxEnds, Acks
  <2>2. Pending' + Acks' <= Pending + Acks
    BY <2>1, Sums
  <2>. QED  BY <1>0, <1>4, <1>5, <2>2, BoundedKept DEF OneFile
<1>10. FilesKnown' /\ PlaceKnown'
  BY <1>0, <1>5, FilesKept DEF OneFile
<1>. QED  BY <1>6, <1>7, <1>8, <1>9, <1>10 DEF OneFile

-----------------------------------------------------------------------------
(* The packets that the receiver takes *)

\* While the file is not over, the number of the packet at the head says which block
\* it holds: it was not sent so long ago, or so far ahead, that the number came again.
LEMMA HeadIs ==
  ASSUME TypeOK, OneFile, ~Over, Arrives("packet"), Accepts(Head(down))
  PROVE  /\ Head(down).no # 0
         /\ Head(down).name = 1 /\ Head(down).block = Head(down).no
         /\ Head(down).block <= tx.block
<1>1. /\ rx.pc = "wait" /\ down # <<>> /\ Head(down) \in Packets /\ Head(down).ok
      /\ Head(down).no = rx.packetno \/ Head(down).no = rx.packetno - 1
  BY PacketDoes
<1>2. PICK k \in Nat, t \in Nat, p \in Nat, a \in Nat, l \in Nat, n \in Nat :
        /\ k = rx.packetno /\ t = tx.block /\ p = Pending /\ a = Acks /\ l = LineMax
        /\ n = Numbers /\ k < n /\ n > 2 * l + 1
  <2>1. Pending \in Nat
    BY DEF Pending
  <2>. QED  BY <2>1, Sums, Constants
<1>3. k # 0
  BY <1>2 DEF Over
<1>4. k <= t + 1 /\ NoneBefore(down, k - 1)
  BY <1>2 DEF OneFile, AheadKnown
<1>5. /\ Head(down).name = 1 /\ Head(down).block \in 1 .. t
      /\ Head(down).no = Head(down).block % Numbers
  BY <1>1, <1>2, Sums, FlightTaken DEF OneFile
<1>6. k - 1 <= Head(down).block
  <2>1. Head(down) = down[1] /\ 1 \in DOMAIN down /\ Head(down).kind = "packet"
    BY <1>1, Sums DEF Packets
  <2>. QED  BY <1>4, <2>1 DEF NoneBefore
<1>7. t <= k + 2 * l
  <2>1. k \in k .. t + 1 /\ \A j \in k .. k - 1 : InFlight(down, j)
    BY <1>4
  <2>2. t + p + a + Count(down, Below(k)) <= k + 2 * l
    BY <1>2, <2>1 DEF OneFile, Bounded
  <2>3. PICK c \in Nat : c = Count(down, Below(k))
    BY Sums
  <2>. QED  BY <2>2, <2>3
<1>8. PICK b \in 1 .. t, y \in 0 .. n - 1 :
        b = Head(down).block /\ y = Head(down).no /\ b % n = y /\ k - 1 <= b
  <2>1. Head(down).no \in 0 .. n - 1
    BY <1>1, <1>2 DEF Packets
  <2>. QED  BY <1>2, <1>5, <1>6, <2>1
<1>9. y = k \/ y = k - 1
  BY <1>1, <1>2, <1>8
<1>10. b \in Nat /\ b < y + n /\ n > 0
  BY <1>2, <1>7, <1>9
<1>11. b = y
  BY <1>8, <1>10, ModNear
<1>. QED  BY <1>2, <1>5, <1>8, <1>11

\* When the file is over, no packet is taken for a block.
LEMMA OverTakes ==
  ASSUME TypeOK, OneFile, Over, Arrives("packet"), Accepts(Head(down))
  PROVE  rx.packetno = 0 /\ Head(down).no = 0
<1>1. /\ rx.pc = "wait" /\ down # <<>> /\ Head(down) \in Packets
      /\ Head(down).no = rx.packetno \/ Head(down).no = rx.packetno - 1
  BY PacketDoes
<1>2. ~RxDone
  BY <1>1 DEF RxDone, Ends
<1>3. ~NoPackets(down)
  <2>1. Head(down) = down[1] /\ 1 \in DOMAIN down /\ Head(down).kind = "packet"
    BY <1>1, Sums DEF Packets
  <2>. QED  BY <2>1 DEF NoPackets
<1>4. rx.packetno = 0
  BY <1>2, <1>3 DEF Over
<1>5. Head(down).no \in Nat
  BY <1>1, Constants DEF Packets
<1>. QED  BY <1>1, <1>4, <1>5

\* What is known of the lines after something was taken off the line down.
LEMMA TakenLines ==
  ASSUME TypeOK, OneFile, Taken
  PROVE  /\ EotKnown' /\ Flight(down', tx'.block) /\ tx' = tx
         /\ Pending' + Acks' <= Pending + Acks + 1
         /\ NoPackets(down) => NoPackets(down')
         /\ ~RxDone
<1>0. down # <<>> /\ down' = Tail(down) /\ tx' = tx
  BY DEF Taken
<1>1. /\ \A t \in Nat : Flight(down, t) => Flight(down', t)
      /\ EotLast(down) => EotLast(down')
      /\ NoPackets(down) => NoPackets(down')
      /\ NoEot(down) => NoEot(down')
  BY <1>0, SameKept, DownKeeps
<1>2. EotKnown' /\ Flight(down', tx'.block)
  BY <1>0, <1>1, Sums DEF OneFile, EotKnown, Closing
<1>3. Pending' + Acks' <= Pending + Acks + 1
  <2>1. PICK p \in Nat, a \in Nat : p = Pending /\ a = Acks
    BY Sums
  <2>2. Pending' = p
    BY <1>0, <2>1 DEF Pending
  <2>3. CASE up' = up
    <3>1. Acks' = a
      BY <2>1, <2>3 DEF Acks
    <3>. QED  BY <2>1, <2>2, <3>1
  <2>4. CASE \E x \in ByteItems : up' = Push(up, <<x>>)
    <3>1. PICK x \in ByteItems : up' = Push(up, <<x>>)
      BY <2>4
    <3>2. Acks' <= a + 1
      BY <2>1, <3>1, Sums, CountPushOne DEF Acks
    <3>3. Acks' \in Nat
      <4>1. up' \in Seq(ByteItems)
        <5>1. PICK items \in Seq(ByteItems) : items = <<x>>
          BY OneItem
        <5>. QED  BY <3>1, <5>1, Sums, PushDoes
      <4>. QED  BY <4>1, CountType DEF Acks
    <3>4. PICK a1 \in Nat : a1 = Acks' /\ a1 <= a + 1
      BY <3>2, <3>3
    <3>5. p + a1 <= p + a + 1
      <4>1. \A u, v, w \in Nat : u <= v + 1 => w + u <= w + v + 1
        OBVIOUS
      <4>. QED  BY <3>4, <4>1, Zenon
    <3>. QED  BY <2>1, <2>2, <3>4, <3>5
  <2>. QED  BY <2>3, <2>4 DEF Taken
<1>4. ~RxDone
  BY DEF Taken, RxDone, Ends
<1>. QED  BY <1>0, <1>1, <1>2, <1>3, <1>4

\* A block is taken, for the first time or again.
LEMMA TookKeeps ==
  ASSUME TypeOK, TypeOK', OneFile, ~Over, Taken, Head(down) \in Packets, Head(down).ok,
         Over' \/ rx'.packetno = Head(down).block + 1,
         Head(down).block \in {rx.packetno, rx.packetno - 1}
  PROVE  AheadKnown' /\ Bounded'
<1>0. down # <<>> /\ down' = Tail(down) /\ tx' = tx
  BY DEF Taken
<1>1. CASE Over'
  BY <1>1 DEF AheadKnown, Bounded
<1>2. CASE ~Over'
  <2>1. PICK k \in Nat, t \in Nat, p \in Nat, a \in Nat, l \in Nat, h \in Nat :
          /\ k = rx.packetno /\ t = tx.block /\ p = Pending /\ a = Acks /\ l = LineMax
          /\ h = Head(down).block
    <3>1. Pending \in Nat /\ Head(down).block \in Nat
      BY DEF Pending, Packets
    <3>. QED  BY <3>1, Sums, Constants
  <2>2. PICK p1 \in Nat, a1 \in Nat : p1 = Pending' /\ a1 = Acks'
    <3>1. Pending' \in Nat
      BY DEF Pending
    <3>2. up' \in Seq(ByteItems)
      BY DEF TypeOK, LineOK
    <3>3. Acks' \in Nat
      BY <3>2, CountType DEF Acks
    <3>. QED  BY <3>1, <3>3
  <2>3. p1 + a1 <= p + a + 1
    BY <2>1, <2>2, TakenLines
  <2>4. rx'.packetno = h + 1 /\ (h = k \/ h = k - 1)
    BY <1>2, <2>1
  <2>5. /\ h \in 1 .. t /\ NoneBefore(down', h) /\ InFlight(down, h)
        /\ \A b \in Nat : h < b => Count(down', Below(b)) + 1 <= Count(down, Below(b))
    <3>1. ASSUME NEW b \in Nat
          PROVE  /\ h \in 1 .. t /\ NoneBefore(down', h) /\ InFlight(down, h)
                 /\ h < b => Count(down', Below(b)) + 1 <= Count(down, Below(b))
      BY <1>0, <2>1, Sums, FlightTaken DEF OneFile
    <3>2. 0 \in Nat
      OBVIOUS
    <3>. QED  BY <3>1, <3>2
  <2>6. AheadKnown'
    <3>1. h + 1 <= t + 1 /\ (h + 1) - 1 = h
      BY <2>5
    <3>. QED  BY <1>0, <2>1, <2>4, <2>5, <3>1 DEF AheadKnown
  <2>7. ASSUME NEW b \in h + 1 .. t + 1, \A j \in h + 1 .. b - 1 : InFlight(down', j)
        PROVE  t + p1 + a1 + Count(down', Below(b)) <= b + 2 * l
    <3>1. b \in Nat /\ h < b /\ b \in k .. t + 1
      BY <2>4, <2>5
    <3>2. ASSUME NEW j \in k .. b - 1 PROVE InFlight(down, j)
      <4>1. CASE j = h
        BY <2>5, <4>1
      <4>2. CASE j # h
        <5>1. j \in h + 1 .. b - 1 /\ j \in Nat
          BY <2>4, <3>2, <4>2
        <5>2. InFlight(down', j)
          BY <2>7, <5>1
        <5>. QED  BY <1>0, <5>1, <5>2, SameKept, DownKeeps
      <4>. QED  BY <4>1, <4>2
    <3>3. t + p + a + Count(down, Below(b)) <= b + 2 * l
      BY <2>1, <3>1, <3>2 DEF OneFile, Bounded
    <3>4. PICK c \in Nat : c = Count(down, Below(b))
      BY Sums
    <3>5. PICK c1 \in Nat : c1 = Count(down', Below(b)) /\ c1 + 1 <= c
      <4>1. down' \in Seq(Items)
        BY DEF TypeOK, LineOK
      <4>2. Count(down', Below(b)) \in Nat
        BY <4>1, CountType
      <4>. QED  BY <2>5, <3>1, <3>4, <4>2
    <3>. QED  BY <2>3, <3>1, <3>3, <3>4, <3>5
  <2>8. Bounded'
    BY <1>0, <2>1, <2>2, <2>4, <2>7 DEF Bounded
  <2>. QED  BY <2>6, <2>8
<1>. QED  BY <1>1, <1>2

\* A packet of 0 is never taken for one of the file.
LEMMA NoHeader ==
  ASSUME TypeOK, OneFile, Arrives("packet"), Accepts(Head(down)), Head(down).no = 0
  PROVE  rx.packetno = 0
BY HeadIs, OverTakes

LEMMA EotKeepsFile ==
  ASSUME TypeOK, TypeOK', OneFile, RxEot
  PROVE  OneFile'
<1>1. /\ Taken /\ Head(down).kind = "EOT" /\ Len(files') = Len(files)
      /\ \A f \in 1 .. Len(files) :
           \A i \in DOMAIN files'[f].blocks :
              \/ files'[f].blocks[i] = Filler
              \/ i \in DOMAIN files[f].blocks /\ files'[f].blocks[i] = files[f].blocks[i]
  BY EotDoes
<1>2. EotKnown' /\ Flight(down', tx'.block) /\ tx' = tx
  BY <1>1, TakenLines
<1>3. down # <<>> /\ down' = Tail(down) /\ down \in Seq(Items)
  BY <1>1, Sums DEF Taken
<1>4. down[1].kind = "EOT" /\ 1 \in DOMAIN down
  BY <1>1, <1>3
<1>5. Closing'
  <2>1. Closing
    BY <1>4 DEF OneFile, EotKnown, NoEot
  <2>. QED  BY <1>2, <2>1 DEF Closing
<1>6. NoPackets(down')
  <2>1. PICK r \in Seq(Items) : r = Tail(down)
    BY <1>3, TailThins
  <2>2. DOMAIN r = 1 .. Len(down) - 1 /\ \A i \in 1 .. Len(down) - 1 : r[i] = down[i + 1]
    BY <1>3, <2>1, TailThins
  <2>3. \A i \in 1 .. Len(down) - 1 : i + 1 \in 1 .. Len(down)
    BY <1>3
  <2>4. \A j \in 1 .. Len(down) : down[j].kind # "packet"
    BY <1>4 DEF OneFile, EotKnown, EotLast
  <2>. QED  BY <1>3, <2>1, <2>2, <2>3, <2>4 DEF NoPackets
<1>7. Over'
  BY <1>5, <1>6 DEF Over
<1>8. PlaceKnown'
  <2>1. DOMAIN files = 1 .. Len(files) /\ DOMAIN files' = 1 .. Len(files)
    BY <1>1 DEF TypeOK
  <2>2. ASSUME NEW f \in 1 .. Len(files)
        PROVE  f = 1 /\ \A i \in DOMAIN files'[f].blocks :
                          files'[f].blocks[i] \in {<<1, i>>, Filler}
    BY <1>1, <2>1, <2>2 DEF OneFile, PlaceKnown
  <2>. QED  BY <2>1, <2>2 DEF PlaceKnown
<1>. QED  BY <1>2, <1>7, <1>8 DEF OneFile, AheadKnown, Bounded, FilesKnown

\* A step that leaves.
LEMMA LeavingKeeps ==
  ASSUME TypeOK, OneFile, Taken, RxDone', PlaceKnown'
  PROVE  OneFile'
<1>1. EotKnown' /\ Flight(down', tx'.block)
  BY TakenLines
<1>2. Over'
  BY DEF Over
<1>. QED  BY <1>1, <1>2 DEF OneFile, AheadKnown, Bounded, FilesKnown

LEMMA HeaderKeeps ==
  ASSUME TypeOK, OneFile, RxHeader
  PROVE  OneFile'
<1>1. /\ Taken /\ UNCHANGED files /\ Accepts(Head(down)) /\ Head(down).no = 0
      /\ Arrives("packet") /\ rx'.packetno = rx.packetno
  BY HeaderDoes
<1>2. EotKnown' /\ Flight(down', tx'.block)
  BY <1>1, TakenLines
<1>3. Over'
  BY <1>1, NoHeader DEF Over
<1>4. PlaceKnown'
  BY <1>1 DEF OneFile, PlaceKnown
<1>. QED  BY <1>2, <1>3, <1>4 DEF OneFile, AheadKnown, Bounded, FilesKnown

LEMMA DuplicateKeeps ==
  ASSUME TypeOK, TypeOK', OneFile, RxDuplicate
  PROVE  OneFile'
<1>1. /\ Taken /\ UNCHANGED <<files, trouble>>
      /\ Arrives("packet") /\ Accepts(Head(down)) /\ ~IsNew(Head(down)) /\ Head(down).no # 0
      /\ rx'.packetno = rx.packetno
  BY DuplicateDoes DEF SameFile
<1>2. EotKnown' /\ Flight(down', tx'.block)
  BY <1>1, TakenLines
<1>3. ~Over
  BY <1>1, OverTakes
<1>4. /\ Head(down).block = Head(down).no /\ Head(down) \in Packets /\ Head(down).ok
      /\ Head(down).no = rx.packetno \/ Head(down).no = rx.packetno - 1
  BY <1>1, <1>3, HeadIs, PacketDoes
<1>5. Head(down).no # rx.packetno
  BY <1>1 DEF IsNew
<1>6. Head(down).block = rx.packetno - 1 /\ rx'.packetno = Head(down).block + 1
  BY <1>1, <1>4, <1>5, Sums
<1>7. AheadKnown' /\ Bounded'
  BY <1>1, <1>3, <1>4, <1>6, TookKeeps
<1>8. FilesKnown' /\ PlaceKnown'
  BY <1>1, <1>3, FilesKept DEF OneFile
<1>. QED  BY <1>2, <1>7, <1>8 DEF OneFile

LEMMA FileIs ==
  ASSUME files \in Seq(FileRecord), Len(files) = 1
  PROVE  /\ DOMAIN files = 1 .. 1 /\ files # <<>>
         /\ files[1].blocks \in Blocks /\ DOMAIN files[1].blocks = 1 .. Len(files[1].blocks)
         /\ Len(files[1].blocks) \in Nat
<1>1. DOMAIN files = 1 .. 1 /\ files # <<>> /\ 1 \in 1 .. Len(files)
  OBVIOUS
<1>2. files[1].blocks \in Blocks
  BY <1>1, FileFields
<1>3. \A X : \A s \in Seq(X) : DOMAIN s = 1 .. Len(s) /\ Len(s) \in Nat
  OBVIOUS
<1>. QED  BY <1>1, <1>2, <1>3, Zenon DEF Blocks

\* Blocks that are in order stay so when the next one is appended.
LEMMA WithBlocksKeeps ==
  ASSUME TypeOK, OneFile, ~Over, NEW bs \in Blocks,
         bs = <<>> \/ bs = << <<1, rx.packetno>> >>
  PROVE  LET fs == WithBlocks(bs)
         IN  /\ fs \in Seq(FileRecord) /\ Len(fs) = 1
             /\ ("full" \notin trouble \/ bs = <<>>) => InOrder(fs[1].blocks)
             /\ "full" \notin trouble => Len(fs[1].blocks) = rx.packetno - 1 + Len(bs)
             /\ bs = <<>> => InOrder(fs[1].blocks)
<1>. DEFINE fs == WithBlocks(bs)
<1>. files \in Seq(FileRecord) /\ rx \in RxRecord
  BY DEF TypeOK
<1>1. fs \in Seq(FileRecord)
  BY WithBlocksType
<1>2. PICK k \in Nat : k = rx.packetno /\ k > 0
  BY Sums DEF Over
<1>3. /\ bs = <<>> => Len(bs) = 0
      /\ bs # <<>> => Len(bs) = 1 /\ bs[1] = <<1, k>>
  BY <1>2
<1>4. CASE k = 1
  <2>1. files = <<>>
    BY <1>2, <1>4 DEF OneFile, FilesKnown
  <2>2. PICK x : x = [name |-> rx.name, blocks |-> bs]
    OBVIOUS
  <2>3. fs = Append(files, x)
    BY <1>2, <1>4, <2>2 DEF WithBlocks
  <2>4. x \in FileRecord
    BY <2>2 DEF FileRecord, RxRecord
  <2>5. Len(fs) = 1 /\ fs[1] = x
    BY <2>1, <2>3, <2>4
  <2>6. fs[1].blocks = bs
    BY <2>2, <2>5
  <2>7. InOrder(bs)
    <3>1. DOMAIN bs = 1 .. Len(bs)
      <4>1. \A X : \A s \in Seq(X) : DOMAIN s = 1 .. Len(s)
        OBVIOUS
      <4>. QED  BY <4>1, Zenon DEF Blocks
    <3>. QED  BY <1>3, <1>4, <3>1 DEF InOrder
  <2>8. Len(bs) = k - 1 + Len(bs)
    BY <1>3, <1>4
  <2>. QED  BY <1>1, <1>2, <2>5, <2>6, <2>7, <2>8
<1>5. CASE k > 1
  <2>1. /\ Len(files) = 1 /\ InOrder(files[1].blocks)
        /\ "full" \notin trouble => Len(files[1].blocks) = k - 1
    BY <1>2, <1>5 DEF OneFile, FilesKnown
  <2>2. PICK old \in Blocks : old = files[1].blocks
    BY <2>1, FileIs
  <2>3. PICK new : new = old \o bs
    OBVIOUS
  <2>4. /\ new \in Blocks /\ Len(new) = Len(old) + Len(bs) /\ DOMAIN new = 1 .. Len(new)
        /\ DOMAIN old = 1 .. Len(old) /\ Len(old) \in Nat /\ Len(bs) \in Nat
        /\ \A i \in 1 .. Len(old) : new[i] = old[i]
        /\ \A i \in 1 .. Len(bs) : new[Len(old) + i] = bs[i]
    <3>1. \A X : \A a, b \in Seq(X) :
            /\ a \o b \in Seq(X) /\ Len(a \o b) = Len(a) + Len(b)
            /\ DOMAIN (a \o b) = 1 .. Len(a \o b)
            /\ DOMAIN a = 1 .. Len(a) /\ Len(a) \in Nat /\ Len(b) \in Nat
            /\ \A i \in 1 .. Len(a) : (a \o b)[i] = a[i]
            /\ \A i \in 1 .. Len(b) : (a \o b)[Len(a) + i] = b[i]
      OBVIOUS
    <3>2. PICK X : X = Nat \X Nat
      OBVIOUS
    <3>3. Blocks = Seq(X)
      BY <3>2 DEF Blocks
    <3>4. old \in Seq(X) /\ bs \in Seq(X)
      BY <3>3
    <3>5. /\ old \o bs \in Seq(X) /\ Len(old \o bs) = Len(old) + Len(bs)
          /\ DOMAIN (old \o bs) = 1 .. Len(old \o bs)
          /\ DOMAIN old = 1 .. Len(old) /\ Len(old) \in Nat /\ Len(bs) \in Nat
          /\ \A i \in 1 .. Len(old) : (old \o bs)[i] = old[i]
          /\ \A i \in 1 .. Len(bs) : (old \o bs)[Len(old) + i] = bs[i]
      BY <3>1, <3>4
    <3>. QED  BY <2>3, <3>3, <3>5
  <2>5. fs = [files EXCEPT ![Len(files)].blocks = new]
    BY <1>2, <1>5, <2>1, <2>2, <2>3 DEF WithBlocks
  <2>6. /\ [files EXCEPT ![Len(files)].blocks = new] \in Seq(FileRecord)
        /\ Len([files EXCEPT ![Len(files)].blocks = new]) = Len(files)
        /\ \A f \in 1 .. Len(files) :
             [files EXCEPT ![Len(files)].blocks = new][f] =
               IF f = Len(files) THEN [name |-> files[f].name, blocks |-> new] ELSE files[f]
    BY <2>1, <2>4, FileEdited, FileIs
  <2>7. Len(fs) = 1 /\ fs[1] = [name |-> files[1].name, blocks |-> new]
    BY <2>1, <2>5, <2>6
  <2>8. fs[1].blocks = new
    BY <2>7
  <2>9. "full" \notin trouble => Len(new) = k - 1 + Len(bs)
    BY <2>1, <2>2, <2>4
  <2>10. ASSUME "full" \notin trouble \/ bs = <<>> PROVE InOrder(new)
    <3>1. ASSUME NEW i \in 1 .. Len(new) PROVE new[i] = <<1, i>>
      <4>1. CASE i \in 1 .. Len(old)
        BY <2>1, <2>2, <2>4, <4>1 DEF InOrder
      <4>2. CASE ~(i \in 1 .. Len(old))
        <5>1. bs # <<>> /\ i = Len(old) + 1
          BY <1>3, <2>4, <3>1, <4>2
        <5>2. Len(old) = k - 1
          BY <2>1, <2>2, <2>10, <5>1
        <5>3. i = k /\ new[i] = bs[1]
          BY <1>2, <1>3, <2>4, <5>1, <5>2
        <5>. QED  BY <1>3, <5>1, <5>3
      <4>. QED  BY <4>1, <4>2
    <3>. QED  BY <2>4, <3>1 DEF InOrder
  <2>. QED  BY <1>1, <1>2, <2>7, <2>8, <2>9, <2>10
<1>. QED  BY <1>2, <1>4, <1>5

\* Blocks in order are in their place.
LEMMA InOrderInPlace ==
  ASSUME NEW fs \in Seq(FileRecord), Len(fs) = 1, InOrder(fs[1].blocks)
  PROVE  \A f \in DOMAIN fs :
           f = 1 /\ \A i \in DOMAIN fs[f].blocks : fs[f].blocks[i] \in {<<1, i>>, Filler}
<1>1. DOMAIN fs = 1 .. 1
  OBVIOUS
<1>2. \A f \in DOMAIN fs : f = 1
  BY <1>1
<1>. QED  BY <1>2 DEF InOrder

LEMMA DataKeeps ==
  ASSUME TypeOK, TypeOK', OneFile, RxData
  PROVE  OneFile'
<1>1. /\ Taken /\ UNCHANGED trouble /\ IsNew(Head(down)) /\ Arrives("packet")
      /\ rx'.packetno = Following(rx.packetno)
      /\ files' \in Seq(FileRecord) /\ files' = WithBlocks(Written(Head(down)))
  BY DataDoes
<1>2. EotKnown' /\ Flight(down', tx'.block)
  BY <1>1, TakenLines
<1>3. Accepts(Head(down)) /\ Head(down).no # 0 /\ Head(down).no = rx.packetno
  BY <1>1 DEF IsNew
<1>4. ~Over
  BY <1>1, <1>3, OverTakes
<1>5. PICK k \in Nat, n \in Nat : k = rx.packetno /\ n = Numbers /\ k < n /\ k > 0
  BY <1>4, Sums, Constants DEF Over
<1>6. /\ Head(down).block = k /\ Head(down).name = 1 /\ Head(down) \in Packets /\ Head(down).ok
  BY <1>1, <1>3, <1>4, <1>5, HeadIs, PacketDoes
<1>7. k + 1 < n => rx'.packetno = k + 1
  <2>1. PICK z \in Nat : z = 0
    OBVIOUS
  <2>2. ASSUME k + 1 < n PROVE (k + 1) % n = k + 1
    <3>1. PICK r \in 0 .. n - 1 : r = k + 1
      BY <1>5, <2>2
    <3>2. r \in Nat /\ r = n * z + r
      BY <2>1
    <3>3. n > 0
      BY <1>5
    <3>. QED  BY <3>1, <3>2, <3>3, ModIs
  <2>. QED  BY <1>1, <1>5, <2>2 DEF Following
<1>8. k + 1 = n => rx'.packetno = 0
  <2>1. PICK one \in Nat, z \in 0 .. n - 1 : one = 1 /\ z = 0
    BY <1>5
  <2>2. n = n * one + z /\ n > 0
    BY <1>5, <2>1
  <2>3. n % n = z
    BY <2>2, ModIs
  <2>. QED  BY <1>1, <1>5, <2>1, <2>3 DEF Following
<1>9. Over' \/ rx'.packetno = k + 1
  BY <1>5, <1>7, <1>8 DEF Over
<1>10. AheadKnown' /\ Bounded'
  BY <1>1, <1>4, <1>5, <1>6, <1>9, TookKeeps
<1>11. PICK bs \in Blocks : /\ bs = Written(Head(down))
                            /\ bs = IF "full" \in trouble THEN <<>> ELSE << <<1, k>> >>
  <2>1. \A X : \A x \in X : <<>> \in Seq(X) /\ <<x>> \in Seq(X)
    OBVIOUS
  <2>2. <<1, k>> \in Nat \X Nat
    OBVIOUS
  <2>3. Written(Head(down)) = IF "full" \in trouble THEN <<>> ELSE << <<1, k>> >>
    BY <1>6 DEF Written
  <2>. QED  BY <2>1, <2>2, <2>3 DEF Blocks
<1>12. /\ Len(files') = 1 /\ InOrder(files'[1].blocks)
       /\ "full" \notin trouble => Len(files'[1].blocks) = k
  <2>1. PICK fs : fs = WithBlocks(bs) /\ fs = files'
    BY <1>1, <1>11
  <2>2. bs = <<>> \/ bs = << <<1, rx.packetno>> >>
    BY <1>5, <1>11
  <2>3. /\ Len(fs) = 1
        /\ ("full" \notin trouble \/ bs = <<>>) => InOrder(fs[1].blocks)
        /\ "full" \notin trouble => Len(fs[1].blocks) = rx.packetno - 1 + Len(bs)
    BY <1>4, <2>1, <2>2, WithBlocksKeeps
  <2>4. "full" \notin trouble => Len(bs) = 1
    BY <1>11
  <2>5. "full" \notin trouble => Len(fs[1].blocks) = k
    <3>1. (k - 1) + 1 = k
      OBVIOUS
    <3>. QED  BY <1>5, <2>3, <2>4, <3>1
  <2>. QED  BY <1>11, <2>1, <2>3, <2>5
<1>13. FilesKnown'
  <2>1. CASE Over'
    BY <2>1 DEF FilesKnown
  <2>2. CASE ~Over'
    <3>1. rx'.packetno = k + 1 /\ k + 1 # 1 /\ (k + 1) - 1 = k
      BY <1>5, <1>9, <2>2
    <3>. QED  BY <1>1, <1>12, <3>1 DEF FilesKnown
  <2>. QED  BY <2>1, <2>2
<1>14. PlaceKnown'
  BY <1>1, <1>12, InOrderInPlace DEF PlaceKnown
<1>. QED  BY <1>2, <1>10, <1>13, <1>14 DEF OneFile

LEMMA CardErrorKeeps ==
  ASSUME TypeOK, OneFile, RxCardError
  PROVE  OneFile'
<1>1. /\ Taken /\ RxDone' /\ Arrives("packet") /\ IsNew(Head(down))
      /\ files' \in Seq(FileRecord) /\ files' \in {files, WithBlocks(<<>>)}
  BY CardErrorDoes
<1>2. CASE files' = files
  <2>1. PlaceKnown'
    BY <1>2 DEF OneFile, PlaceKnown
  <2>. QED  BY <1>1, <2>1, LeavingKeeps
<1>3. CASE files' = WithBlocks(<<>>)
  <2>1. ~Over
    BY <1>1, OverTakes DEF IsNew
  <2>2. PICK bs \in Blocks : bs = <<>>
    <3>1. <<>> \in Blocks
      BY DEF Blocks
    <3>. QED  BY <3>1
  <2>3. PICK fs \in Seq(FileRecord) : fs = files' /\ fs = WithBlocks(bs)
    BY <1>1, <1>3, <2>2
  <2>4. Len(fs) = 1 /\ InOrder(fs[1].blocks)
    BY <2>1, <2>2, <2>3, WithBlocksKeeps
  <2>5. PlaceKnown'
    BY <2>3, <2>4, InOrderInPlace DEF PlaceKnown
  <2>. QED  BY <1>1, <2>5, LeavingKeeps
<1>. QED  BY <1>1, <1>2, <1>3

-----------------------------------------------------------------------------
(* The invariant of one file *)

LEMMA OneFileInit ==
  ASSUME Init, ~tx.batch
  PROVE  OneFile
<1>1. down = <<>> /\ up = <<>> /\ files = <<>>
  BY DEF Init, RxInit
<1>2. rx.packetno = 1 /\ rx.pc = "flush" /\ rx.next = "try"
  BY DEF Init, RxInit
<1>3. tx.block = 0 /\ tx.pc = "sync"
  <2>1. ~BatchInit
    <3>1. ASSUME BatchInit PROVE tx.batch
      <4>1. tx = TxStart("wait C", TRUE, 0)
        BY <3>1 DEF BatchInit
      <4>2. tx.batch = TRUE
        BY <4>1 DEF TxStart
      <4>. QED  BY <4>2
    <3>. QED  BY <3>1
  <2>2. PICK size : tx = TxStart("sync", FALSE, size)
    BY <2>1 DEF Init, TxInit
  <2>. QED  BY <2>2 DEF TxStart
<1>4. EotKnown /\ Flight(down, tx.block)
  BY <1>1 DEF EotKnown, EotLast, NoEot, Flight
<1>5. AheadKnown
  BY <1>1, <1>2, <1>3 DEF AheadKnown, NoneBefore
<1>6. FilesKnown /\ PlaceKnown
  BY <1>1, <1>2 DEF FilesKnown, PlaceKnown
<1>7. Bounded
  <2>1. TypeOK
    BY KnownInit DEF Known
  <2>2. PICK l \in Nat, a \in Nat : l = LineMax /\ a = Acks /\ a <= l
    BY <2>1, Sums, Constants
  <2>3. Pending = 0
    BY <1>3 DEF Pending
  <2>4. ASSUME NEW b \in 1 .. 0 + 1
        PROVE  0 + 0 + a + Count(down, Below(b)) <= b + 2 * l
    <3>1. PICK c \in Nat : c = Count(down, Below(b)) /\ c <= l
      BY <2>1, <2>2, Sums
    <3>. QED  BY <2>2, <3>1
  <2>. QED  BY <1>2, <1>3, <2>2, <2>3, <2>4 DEF Bounded
<1>. QED  BY <1>4, <1>5, <1>6, <1>7 DEF OneFile

LEMMA AddLess ==
  ASSUME NEW a \in Nat, NEW b \in Nat, NEW c \in Nat, NEW d \in Nat, a <= c, b <= d
  PROVE  a + b <= c + d
OBVIOUS

LEMMA SameSums ==
  ASSUME TypeOK, up' = up, tx' = tx
  PROVE  Pending' + Acks' <= Pending + Acks
<1>1. PICK p \in Nat, a \in Nat : p = Pending /\ a = Acks
  BY Sums
<1>2. Pending' = p /\ Acks' = a
  BY <1>1 DEF Pending, Acks
<1>. QED  BY <1>1, <1>2

\* Fewer answers than there were, and no block to be loaded that was not.
LEMMA FewerSums ==
  ASSUME TypeOK, Pending' = 0 \/ Pending' = Pending,
         up' \in Seq(ByteItems), Thinned(up, up')
  PROVE  Pending' + Acks' <= Pending + Acks
<1>1. PICK p \in Nat, a \in Nat : p = Pending /\ a = Acks
  BY Sums
<1>2. PICK a1 \in Nat : a1 = Acks' /\ a1 <= a
  <2>1. Acks' \in Nat
    BY CountType DEF Acks
  <2>2. Acks' <= a
    <3>1. PICK r \in Seq(ByteItems) : r = up' /\ Thinned(up, r)
      OBVIOUS
    <3>2. Count(r, {Byte("ACK")}) <= Count(up, {Byte("ACK")})
      BY <3>1, Sums, AcksThin
    <3>. QED  BY <1>1, <3>1, <3>2 DEF Acks
  <2>. QED  BY <2>1, <2>2
<1>3. PICK p1 \in Nat : p1 = Pending' /\ p1 <= p
  BY <1>1
<1>. QED  BY <1>1, <1>2, <1>3, AddLess

LEMMA IdlesCalm ==
  ASSUME TypeOK, TxIdles, TxLeaves, Closing => Closing'
  PROVE  Calm
<1>1. DownKept
  BY MurmursKeep DEF TxIdles
<1>2. Pending' = 0 /\ rx' = rx /\ files' = files /\ tx'.block = tx.block /\ UpRead
  BY DEF Pending, TxIdles, TxLeaves
<1>3. up' \in Seq(ByteItems) /\ Thinned(up, up')
  BY <1>2, ReadKept
<1>4. Pending' + Acks' <= Pending + Acks
  BY <1>2, <1>3, FewerSums
<1>. QED  BY <1>1, <1>2, <1>4 DEF Calm, RxDone

LEMMA IsAckedCalm ==
  ASSUME TypeOK, TxIsAcked, TxLeaves, Closing => Closing'
  PROVE  Calm
<1>1. down' = down /\ rx' = rx /\ files' = files /\ tx'.block = tx.block /\ Pending = 0
  BY DEF TxIsAcked, TxLeaves, Pending
<1>2. DownKept
  BY <1>1, SameKept
<1>3. up \in Seq(ByteItems) /\ up # <<>> /\ up' = Tail(up) /\ Head(up) = Byte("ACK")
  <2>1. up \in Seq(ByteItems) /\ up # <<>> /\ up' = Tail(up) /\ Head(up).kind = "ACK"
    BY Sums DEF TxIsAcked
  <2>2. Head(up) \in ByteItems
    BY <2>1
  <2>. QED  BY <2>1, <2>2, BytesAreItems
<1>4. PICK p1 \in 0 .. 1, a \in Nat : p1 = Pending' /\ a = Acks
  <2>1. Pending' \in 0 .. 1
    BY DEF Pending
  <2>. QED  BY <2>1, Sums
<1>5. PICK a1 \in Nat : a1 = Acks' /\ a1 + 1 <= a
  <2>1. Count(Tail(up), {Byte("ACK")}) + 1 <= Count(up, {Byte("ACK")})
    BY <1>3, CountTail
  <2>2. Tail(up) \in Seq(ByteItems)
    BY <1>3, TailThins
  <2>3. Count(Tail(up), {Byte("ACK")}) \in Nat
    BY <2>2, CountType
  <2>. QED  BY <1>3, <1>4, <2>1, <2>3 DEF Acks
<1>6. Pending' + Acks' <= Pending + Acks
  <2>1. \A u \in 0 .. 1, v, w \in Nat : v + 1 <= w => u + v <= 0 + w
    OBVIOUS
  <2>. QED  BY <1>1, <1>4, <1>5, <2>1
<1>. QED  BY <1>1, <1>2, <1>6 DEF Calm, RxDone

LEMMA QuietCalm ==
  ASSUME TypeOK, SayKnown, QuietRx
  PROVE  Calm
<1>1. /\ UNCHANGED <<files, tx>> /\ rx'.packetno = rx.packetno /\ QuietLines
      /\ RxDone => RxDone'
  BY QuietRxDoes DEF SameFile
<1>2. DownKept
  BY <1>1, SameKept DEF QuietLines
<1>3. Closing => Closing'
  BY <1>1 DEF Closing
<1>4. RxDone' \/ Pending' + Acks' <= Pending + Acks
  <2>1. CASE up' = up
    BY <1>1, <2>1, SameSums
  <2>2. CASE \E items \in Seq(ByteItems) :
               /\ up' = Push(up, items)
               /\ \A i \in DOMAIN items : items[i] # Byte("ACK")
    <3>1. PICK items \in Seq(ByteItems) :
               /\ up' = Push(up, items)
               /\ \A i \in DOMAIN items : items[i] # Byte("ACK")
      BY <2>2
    <3>2. \A i \in DOMAIN items : items[i] \notin {Byte("ACK")}
      BY <3>1
    <3>3. Acks' = Acks
      BY <3>1, <3>2, Sums, CountPush DEF Acks
    <3>4. PICK p \in Nat, a \in Nat : p = Pending /\ a = Acks
      BY Sums
    <3>5. Pending' = p
      BY <1>1, <3>4 DEF Pending
    <3>. QED  BY <3>3, <3>4, <3>5
  <2>. QED  BY <1>1, <2>1, <2>2 DEF QuietLines
<1>. QED  BY <1>1, <1>2, <1>3, <1>4 DEF Calm

LEMMA FaultCalm ==
  ASSUME TypeOK, LineFault \/ PressCtrlX, UNCHANGED files
  PROVE  Calm
<1>1. DownKept /\ UNCHANGED <<rx, tx>>
  BY FaultTypes
<1>2. Closing => Closing'
  BY <1>1 DEF Closing
<1>3. Pending' + Acks' <= Pending + Acks
  <2>1. CASE up' = up
    BY <1>1, <2>1, SameSums
  <2>2. CASE up # <<>> /\ up' \in Struck(up)
    <3>1. up' \in Seq(ByteItems) /\ Thinned(up, up')
      BY <2>2, Sums, StruckBytes
    <3>2. Pending' = Pending
      BY <1>1 DEF Pending
    <3>. QED  BY <3>1, <3>2, FewerSums
  <2>3. CASE up' = Push(up, Tail(Cans))
    <3>1. PICK items \in Seq(ByteItems) :
            items = Tail(Cans) /\ \A i \in DOMAIN items : items[i] = Byte("CAN")
      BY BytesAreItems
    <3>2. \A i \in DOMAIN items : items[i] \notin {Byte("ACK")}
      <4>1. Byte("CAN") # Byte("ACK")
        <5>1. Byte("CAN").kind = "CAN" /\ Byte("ACK").kind = "ACK"
          BY BytesAreItems
        <5>. QED  BY <5>1
      <4>. QED  BY <3>1, <4>1
    <3>3. Acks' = Acks
      BY <2>3, <3>1, <3>2, Sums, CountPush DEF Acks
    <3>4. PICK p \in Nat, a \in Nat : p = Pending /\ a = Acks
      BY Sums
    <3>5. Pending' = p
      BY <1>1, <3>4 DEF Pending
    <3>. QED  BY <3>3, <3>4, <3>5
  <2>. QED  BY <2>1, <2>2, <2>3 DEF LineFault, PressCtrlX
<1>. QED  BY <1>1, <1>2, <1>3 DEF Calm, RxDone

LEMMA StillCalm ==
  ASSUME TypeOK, UNCHANGED <<down, up, rx, tx, files>>
  PROVE  Calm
<1>1. DownKept
  BY SameKept
<1>2. Pending' + Acks' <= Pending + Acks
  BY SameSums
<1>. QED  BY <1>1, <1>2 DEF Calm, RxDone, Closing

LEMMA OneFileStep ==
  ASSUME Known, ~tx.batch, OneFile, [Next]_vars
  PROVE  OneFile'
<1>. TypeOK /\ SenderKnown /\ SayKnown
  BY DEF Known
<1>0. TypeOK' /\ trouble \subseteq trouble'
  BY KnownStep, TroubleGrows DEF Known
<1>1. CASE RxStep
  <2>1. CASE QuietRx
    BY <1>0, <2>1, QuietCalm, CalmKeeps
  <2>2. CASE RxEot
    BY <1>0, <2>2, EotKeepsFile
  <2>3. CASE RxSessionEnd
    <3>1. Taken /\ RxDone' /\ UNCHANGED files
      BY <2>3, SessionEndDoes
    <3>2. PlaceKnown'
      BY <3>1 DEF OneFile, PlaceKnown
    <3>. QED  BY <3>1, <3>2, LeavingKeeps
  <2>4. CASE RxHeader
    BY <2>4, HeaderKeeps
  <2>5. CASE RxData
    BY <1>0, <2>5, DataKeeps
  <2>6. CASE RxCardError
    BY <2>6, CardErrorKeeps
  <2>7. CASE RxDuplicate
    BY <1>0, <2>7, DuplicateKeeps
  <2>. QED  BY <1>1, <2>1, <2>2, <2>3, <2>4, <2>5, <2>6, <2>7 DEF RxStep, QuietRx
<1>2. CASE SenderStep
  <2>1. TxLeaves /\ TxMoves /\ (Closing => Closing')
    BY <1>2, TransmitDoes DEF SenderStep
  <2>2. CASE TxIdles
    BY <1>0, <2>1, <2>2, IdlesCalm, CalmKeeps
  <2>3. CASE TxStarts
    BY <1>0, <2>1, <2>3, StartKeeps
  <2>4. CASE TxIsAcked
    BY <1>0, <2>1, <2>4, IsAckedCalm, CalmKeeps
  <2>5. CASE TxLoads
    BY <1>0, <2>1, <2>5, LoadKeeps
  <2>6. CASE TxSends
    BY <1>0, <2>1, <2>6, SendKeeps
  <2>7. CASE TxEnds
    BY <1>0, <2>1, <2>7, EndKeeps
  <2>. QED  BY <2>1, <2>2, <2>3, <2>4, <2>5, <2>6, <2>7 DEF TxMoves
<1>3. CASE (LineFault \/ PressCtrlX) /\ UNCHANGED files
  BY <1>0, <1>3, FaultCalm, CalmKeeps
<1>4. CASE CardFills
  BY <1>0, <1>4, StillCalm, CalmKeeps DEF CardFills, line
<1>5. CASE UNCHANGED vars
  BY <1>0, <1>5, StillCalm, CalmKeeps DEF vars
<1>. QED  BY <1>1, <1>2, <1>3, <1>4, <1>5 DEF Next

OneFileInv == ~tx.batch => OneFile

LEMMA OneFileInPlace ==
  ASSUME Known, OneFileInv, ~tx.batch
  PROVE  PrefixInPlace
<1>1. PlaceKnown
  BY DEF OneFileInv, OneFile
<1>2. 1 \in DOMAIN Source
  BY DEF Source
<1>3. ~tx.batch
  OBVIOUS
<1>. QED  BY <1>1, <1>2, <1>3 DEF PrefixInPlace, PlaceKnown

\* Whatever is lost, damaged, repeated or answered late, and whoever gives up, xm_receive
\* has written each block that it has from xm_transmit where the file has it.
THEOREM XmodemInPlace == Spec => [](~tx.batch => PrefixInPlace)
<1>1. Init => Known /\ OneFileInv
  BY KnownInit, OneFileInit DEF OneFileInv
<1>2. Known /\ OneFileInv /\ [Next]_vars => Known' /\ OneFileInv'
  <2>1. ASSUME Known, OneFileInv, [Next]_vars PROVE Known' /\ OneFileInv'
    <3>1. Known' /\ tx'.batch = tx.batch
      BY <2>1, KnownStep
    <3>2. CASE tx.batch
      BY <3>1, <3>2 DEF OneFileInv
    <3>3. CASE ~tx.batch
      <4>1. OneFile'
        BY <2>1, <3>3, OneFileStep DEF OneFileInv
      <4>. QED  BY <3>1, <4>1 DEF OneFileInv
    <3>. QED  BY <3>2, <3>3
  <2>. QED  BY <2>1
<1>3. Known /\ OneFileInv => (~tx.batch => PrefixInPlace)
  BY OneFileInPlace
<1>. QED  BY <1>1, <1>2, <1>3, PTL DEF Spec

-----------------------------------------------------------------------------
(* One answer at a time: when no answer comes too late, there is one thing at most *)
(* that an end has to react to.                                                    *)

Left == tx.pc = "flush" \/ tx.pc \in Ends
LeftOk == (tx.pc = "flush" /\ tx.next = "ok") \/ tx.pc = "ok"
Active == ~Left /\ ~RxDone
Result == IF rx.pc = "flush" THEN rx.next ELSE rx.pc

\* No answer comes too late, and neither a key nor the fall-back adds one.  A file of
\* xm_transmit has no packet 0.
Quiet ==
  /\ patient /\ "keys" \notin trouble
  /\ IF tx.batch THEN "tries" \notin trouble ELSE tx.size < Numbers

\* In addition no card fails, and all files can arrive.
Exact == trouble \subseteq {"tries"} /\ Deliverable

\* What a sender acts upon.  One of YMODEM ignores the rest, but for C in "wait C".
Asks(x) == tx.batch => x.kind \in {"ACK", "NAK"}
AnswersIn(q) == \E i \in DOMAIN q : Asks(q[i])
HasAck(q) == \E i \in DOMAIN q : q[i].kind = "ACK"
NoCan(q) == \A i \in DOMAIN q : q[i].kind # "CAN"

\* An answer has one item behind it at most, the C for the next packet.
Tidy(q, asked) ==
  \A i \in DOMAIN q : Asks(q[i]) =>
    /\ Len(q) <= i + 1
    /\ Len(q) = i + 1 => asked /\ ~Asks(q[i + 1])

Sends == tx.pc \in {"load", "send", "eot", "header"}
Current == Packet(tx.packetno, tx.crc, tx.file, tx.block, tx.blank)

\* What the sender put on the line last, damaged or not.
Awaited(x) ==
  \/ x = Byte("junk")
  \/ tx.pc = "eot ack" /\ x = Byte("EOT")
  \/ tx.pc = "ack" /\ Spoilt(Current, x)
  \/ tx.pc = "header ack" /\ Spoilt(Header, x)

TokenDown == down = <<>> \/ (~Sends /\ \E x \in Items : down = <<x>> /\ Awaited(x))
TokenUp ==
  /\ Tidy(up, rx.pc = "wait") /\ NoCan(up)
  /\ AnswersIn(up) =>
       /\ ~Sends /\ down = <<>> /\ tx.pc # "wait C"
       /\ rx.pc = "wait" \/ (rx.pc = "try" /\ rx.retry <= 1)
TokenRx ==
  /\ rx.pc \in {"try", "wait", "flush"}
  /\ rx.pc = "flush" => down = <<>> /\ ~Sends /\ (rx.say # <<>> => rx.next = "try" /\ tx.pc # "wait C")
  /\ tx.batch => rx.trychar # "NAK"
  /\ ~tx.batch => /\ rx.pc = "try" /\ rx.trychar # "none" => down = <<>> /\ up = <<>> /\ ~Sends
                  /\ rx.pc = "flush" /\ rx.say # <<>> => rx.trychar = "none"
TokenTx ==
  /\ tx.pc # "can"
  /\ tx.pc = "wait C" => down = <<>> /\ Len(up) <= 1 /\ (up # <<>> => rx.pc = "wait")
Token == TokenDown /\ TokenUp /\ TokenRx /\ TokenTx

-----------------------------------------------------------------------------
(* What the receiver has of the files *)

Of(f) == IF tx.batch THEN files[f].name ELSE 1
BlocksInPlace(f) ==
  \A i \in DOMAIN files[f].blocks : files[f].blocks[i] \in {<<Of(f), i>>, Filler}

\* The first m files are of those before the k-th; they are just those, whole.
Earlier(k, m) == \A f \in 1 .. m : Of(f) \in 1 .. k - 1 /\ BlocksInPlace(f)
Whole(k, m) ==
  /\ \A f \in 1 .. m :
       Of(f) \in 1 .. k - 1 /\ Source[Of(f)] > 0 /\ files[f].blocks = WholeFile(Of(f))
  /\ \A f, g \in 1 .. m : f < g => Of(f) < Of(g)
  /\ \A n \in 1 .. k - 1 : Source[n] > 0 => \E f \in 1 .. m : Of(f) = n

\* All before the k-th; the j first blocks of the k-th.
FilesBefore(k) ==
  ~rx.open /\ Earlier(k, Len(files)) /\ (Exact => Whole(k, Len(files)))
FilesWithin(k, j) ==
  /\ rx.open /\ files # <<>> /\ Of(Len(files)) = k
  /\ Earlier(k, Len(files) - 1) /\ (Exact => Whole(k, Len(files) - 1))
  /\ \A i \in DOMAIN files[Len(files)].blocks : files[Len(files)].blocks[i] = <<k, i>>
  /\ "full" \notin trouble =>
       Len(files[Len(files)].blocks) = IF j < Numbers THEN j ELSE Numbers - 1
FilesAt(k, j) == IF j = 0 THEN FilesBefore(k) ELSE FilesWithin(k, j)

\* It expects the k-th file; it has j blocks of it; it has had one of the two EOTs.
Expects(k) ==
  /\ rx.ymodem = 0 /\ rx.packetno = 1 /\ FilesBefore(k)
  /\ Exact => rx.size = 0 \/ \E m \in 1 .. k - 1 : rx.size = Source[m]
Has(k, j) ==
  /\ rx.ymodem = (IF tx.batch THEN 1 ELSE 0) /\ rx.name = (IF tx.batch THEN k ELSE 0)
  /\ rx.packetno = (IF j < Numbers THEN (j + 1) % Numbers ELSE 0)
  /\ FilesAt(k, j)
  /\ Exact => rx.size = 0 \/ (tx.batch /\ rx.size = Source[k])
Ended(k) ==
  /\ tx.batch /\ rx.ymodem = 2 /\ FilesBefore(k + 1)
  /\ Exact => rx.size = 0 \/ rx.size = Source[k]

\* Where the receiver is when the sender is at block t of file k.
Stage(k, t) ==
  /\ tx.pc = "sync" => Has(k, 0)
  /\ tx.pc = "wait C" => IF tx.next = "load" THEN Has(k, 0) ELSE Expects(k)
  /\ tx.pc \in {"header", "header ack"} =>
       (Has(k, 0) /\ k <= Len(Source)) \/ (Expects(k) /\ ~HasAck(up))
  /\ tx.pc = "load" => Has(k, t)
  /\ tx.pc \in {"send", "ack"} => Has(k, t) \/ (Has(k, t - 1) /\ ~HasAck(up))
  /\ tx.pc \in {"eot", "eot ack"} =>
       /\ \/ (Has(k, t) \/ Ended(k)) /\ ~HasAck(up)
          \/ tx.batch /\ Expects(k + 1)
       /\ Exact => t = Source[k]

At == \A k, t \in Nat : k = tx.file /\ t = tx.block => Stage(k, t)

\* What the sender works on.
InSession ==
  /\ tx.file \in 1 .. Len(Source) + 1 /\ tx.block <= tx.size
  /\ \/ tx.pc \in {"load", "send", "ack", "eot", "eot ack"}
     \/ tx.pc = "wait C" /\ tx.next = "load"
     => tx.file <= Len(Source) /\ tx.size = Source[tx.file]
  /\ ~tx.batch => tx.file = 1

Placed == \A f \in DOMAIN files : Of(f) \in DOMAIN Source /\ BlocksInPlace(f)

\* The receiver has ended the transfer, and no more than the answer to it will come.
AllWhole == Whole(Len(Source) + 1, Len(files))
NoMoreC(q) == \A i, j \in DOMAIN q : i < j /\ q[i].kind = "ACK" => q[j].kind # "C"
NoC(q) == \A i \in DOMAIN q : q[i].kind # "C"
NoMore ==
  \/ tx.pc \in {"header", "header ack"} /\ tx.file > Len(Source) /\ AllWhole
  \/ tx.pc \in {"eot", "eot ack"} /\ (IF tx.batch THEN NoMoreC(up) ELSE AllWhole)
  \/ tx.pc = "wait C" /\ NoC(up)

OneAnswer ==
  /\ Placed
  /\ ~Left => InSession
  /\ Active => Token /\ At
  /\ ~Left /\ RxDone /\ Result # "ok" => ~HasAck(up) /\ (rx.pc = "flush" => rx.say = Cans)
  /\ ~Left /\ RxDone /\ Result = "ok" /\ Exact =>
       NoMore /\ (rx.pc = "flush" => rx.say = <<Byte("ACK")>>)
  /\ Left /\ ~RxDone => NoPackets(down) /\ NoEot(down)
  /\ LeftOk /\ Exact => RxDone /\ AllWhole

-----------------------------------------------------------------------------
(* Lines that hold one answer *)

LEMMA AsksKeeps ==
  ASSUME NEW x \in ByteItems, NEW y \in ByteItems, Spoilt(x, y)
  PROVE  /\ Asks(y) => Asks(x)
         /\ y.kind = "ACK" => x.kind = "ACK"
         /\ y.kind = "CAN" => x.kind = "CAN"
         /\ y.kind = "C" => x.kind = "C"
<1>1. CASE y = x
  BY <1>1
<1>2. CASE y = Byte("junk")
  <2>1. y.kind = "junk"
    BY <1>2, BytesAreItems
  <2>2. Asks(y) => Asks(x)
    BY <2>1 DEF Asks
  <2> QED
    BY <2>1, <2>2
<1>3. CASE x.kind = "packet"
  BY <1>3, BytesAreItems
<1> QED
  BY <1>1, <1>2, <1>3 DEF Spoilt

\* What is read, lost or damaged adds nothing.
LEMMA AnswersThin ==
  ASSUME NEW q \in Seq(ByteItems), NEW r \in Seq(ByteItems), Thinned(q, r)
  PROVE  /\ AnswersIn(r) => AnswersIn(q)
         /\ HasAck(r) => HasAck(q)
         /\ NoCan(q) => NoCan(r)
         /\ NoC(q) => NoC(r)
         /\ NoMoreC(q) => NoMoreC(r)
         /\ Len(r) <= Len(q)
         /\ \A asked \in BOOLEAN : Tidy(q, asked) => Tidy(r, asked)
<1> PICK d \in {0, 1} : \A i \in DOMAIN r : i + d \in DOMAIN q /\ Spoilt(q[i + d], r[i])
  BY DEF Thinned
<1>1. /\ DOMAIN q = 1 .. Len(q) /\ DOMAIN r = 1 .. Len(r) /\ Len(q) \in Nat /\ Len(r) \in Nat
      /\ \A i \in DOMAIN q : q[i] \in ByteItems
      /\ \A i \in DOMAIN r : r[i] \in ByteItems
  OBVIOUS
<1>2. ASSUME NEW i \in DOMAIN r
      PROVE  /\ i + d \in DOMAIN q /\ (Asks(r[i]) => Asks(q[i + d]))
             /\ r[i].kind = "ACK" => q[i + d].kind = "ACK"
             /\ r[i].kind = "CAN" => q[i + d].kind = "CAN"
             /\ r[i].kind = "C" => q[i + d].kind = "C"
  <2>1. i + d \in DOMAIN q /\ Spoilt(q[i + d], r[i])
    OBVIOUS
  <2>2. q[i + d] \in ByteItems /\ r[i] \in ByteItems
    BY <1>1, <2>1
  <2> QED
    BY <2>1, <2>2, AsksKeeps
<1>3. AnswersIn(r) => AnswersIn(q)
  BY <1>2 DEF AnswersIn
<1>4. HasAck(r) => HasAck(q)
  BY <1>2 DEF HasAck
<1>5. NoCan(q) => NoCan(r)
  BY <1>2 DEF NoCan
<1>6. NoC(q) => NoC(r)
  BY <1>2 DEF NoC
<1>7. NoMoreC(q) => NoMoreC(r)
  <2> SUFFICES ASSUME NoMoreC(q), NEW i \in DOMAIN r, NEW j \in DOMAIN r, i < j,
                      r[i].kind = "ACK", r[j].kind = "C"
               PROVE  FALSE
    BY DEF NoMoreC
  <2>1. i + d \in DOMAIN q /\ j + d \in DOMAIN q /\ q[i + d].kind = "ACK" /\ q[j + d].kind = "C"
    BY <1>2
  <2>2. i + d < j + d
    BY <1>1
  <2> QED
    BY <2>1, <2>2 DEF NoMoreC
<1>8. Len(r) + d <= Len(q) \/ Len(r) = 0
  <2>1. CASE Len(r) > 0
    <3>1. Len(r) \in DOMAIN r
      BY <1>1, <2>1
    <3>2. Len(r) + d \in 1 .. Len(q)
      BY <3>1, <1>1
    <3> QED
      BY <3>2, <1>1
  <2> QED
    BY <2>1, <1>1
<1>9. ASSUME NEW asked \in BOOLEAN, Tidy(q, asked), NEW i \in DOMAIN r, Asks(r[i])
      PROVE  Len(r) <= i + 1 /\ (Len(r) = i + 1 => asked /\ ~Asks(r[i + 1]))
  <2>1. i + d \in DOMAIN q /\ Asks(q[i + d])
    BY <1>2, <1>9
  <2>2. Len(q) <= i + d + 1 /\ (Len(q) = i + d + 1 => asked /\ ~Asks(q[i + d + 1]))
    BY <2>1, <1>9 DEF Tidy
  <2>3. Len(r) <= i + 1
    BY <2>2, <1>8, <1>1
  <2>4. ASSUME Len(r) = i + 1
        PROVE  asked /\ ~Asks(r[i + 1])
    <3>1. Len(q) = i + d + 1
      BY <2>2, <2>4, <1>8, <1>1
    <3>2. i + 1 \in DOMAIN r /\ (i + 1) + d = i + d + 1
      BY <2>4, <1>1
    <3>3. asked /\ ~Asks(q[i + d + 1])
      BY <2>2, <3>1
    <3>4. Asks(r[i + 1]) => Asks(q[(i + 1) + d])
      BY <1>2, <3>2
    <3> QED
      BY <3>2, <3>3, <3>4
  <2> QED
    BY <2>3, <2>4
<1>10. \A asked \in BOOLEAN : Tidy(q, asked) => Tidy(r, asked)
  BY <1>9 DEF Tidy
<1> QED
  BY <1>3, <1>4, <1>5, <1>6, <1>7, <1>8, <1>10, <1>1

\* The sender reads the answer at the head: no other is behind it.
LEMMA AnswerTaken ==
  ASSUME NEW q \in Seq(ByteItems), q # <<>>, NEW asked \in BOOLEAN, Tidy(q, asked), Asks(Head(q))
  PROVE  /\ ~AnswersIn(Tail(q)) /\ ~HasAck(Tail(q)) /\ Len(Tail(q)) <= 1
         /\ Tail(q) # <<>> => asked
<1>1. DOMAIN q = 1 .. Len(q) /\ Len(q) \in Nat /\ Len(q) > 0 /\ 1 \in DOMAIN q /\ Head(q) = q[1]
  OBVIOUS
<1>2. Len(q) <= 1 + 1 /\ (Len(q) = 1 + 1 => asked /\ ~Asks(q[1 + 1]))
  BY <1>1 DEF Tidy
<1>3. /\ Tail(q) \in Seq(ByteItems) /\ Len(Tail(q)) = Len(q) - 1
      /\ \A i \in 1 .. Len(q) - 1 : Tail(q)[i] = q[i + 1]
  BY TailThins
<1>4. DOMAIN Tail(q) = 1 .. Len(q) - 1
  BY <1>3
<1>5. ASSUME NEW i \in DOMAIN Tail(q)
      PROVE  ~Asks(Tail(q)[i]) /\ Tail(q)[i].kind # "ACK" /\ asked
  <2>1. i = 1 /\ Len(q) = 1 + 1
    BY <1>1, <1>2, <1>4
  <2>2. Tail(q)[i] = q[1 + 1]
    BY <2>1, <1>3
  <2> QED
    BY <2>1, <2>2, <1>2 DEF Asks
<1>6. Tail(q) # <<>> => 1 \in DOMAIN Tail(q)
  BY <1>3, <1>4, <1>1
<1> QED
  BY <1>5, <1>6, <1>1, <1>2, <1>3 DEF AnswersIn, HasAck

\* One item is put on a line.
LEMMA PushedItem ==
  ASSUME NEW X, NEW q \in Seq(X), Len(q) <= LineMax, NEW x \in X
  PROVE  /\ Push(q, <<x>>) \in Seq(X) /\ Len(q) <= Len(Push(q, <<x>>))
         /\ Len(Push(q, <<x>>)) <= Len(q) + 1
         /\ \A i \in DOMAIN q : i \in DOMAIN Push(q, <<x>>) /\ Push(q, <<x>>)[i] = q[i]
         /\ \A i \in DOMAIN Push(q, <<x>>) :
              \/ i \in DOMAIN q /\ Push(q, <<x>>)[i] = q[i]
              \/ i = Len(q) + 1 /\ i = Len(Push(q, <<x>>)) /\ Push(q, <<x>>)[i] = x
<1> DEFINE r == Push(q, <<x>>)
<1>0. <<x>> \in Seq(X) /\ DOMAIN <<x>> = 1 .. 1 /\ <<x>>[1] = x
  BY OneItem
<1>1. /\ r \in Seq(X) /\ Len(q) <= Len(r) /\ \A i \in 1 .. Len(q) : r[i] = q[i]
      /\ \A i \in Len(q) + 1 .. Len(r) : i - Len(q) \in DOMAIN <<x>> /\ r[i] = <<x>>[i - Len(q)]
  BY <1>0, PushDoes
<1>2. /\ DOMAIN q = 1 .. Len(q) /\ DOMAIN r = 1 .. Len(r) /\ Len(q) \in Nat /\ Len(r) \in Nat
  BY <1>1
<1> HIDE DEF r
<1>3. ASSUME NEW i \in DOMAIN r
      PROVE  (i \in DOMAIN q /\ r[i] = q[i]) \/ (i = Len(q) + 1 /\ i = Len(r) /\ r[i] = x)
  <2>1. CASE i <= Len(q)
    BY <2>1, <1>1, <1>2
  <2>2. CASE i > Len(q)
    <3>1. i \in Len(q) + 1 .. Len(r)
      BY <2>2, <1>2
    <3>2. i - Len(q) = 1 /\ r[i] = x
      BY <3>1, <1>1, <1>0
    <3>3. Len(r) \in Len(q) + 1 .. Len(r)
      BY <3>1, <1>2
    <3>4. Len(r) - Len(q) = 1
      BY <3>3, <1>1, <1>0
    <3> QED
      BY <3>2, <3>4, <1>2
  <2> QED
    BY <2>1, <2>2, <1>2
<1>4. Len(r) <= Len(q) + 1
  <2>1. CASE Len(r) > 0
    <3>1. Len(r) \in DOMAIN r
      BY <2>1, <1>2
    <3> QED
      BY <3>1, <1>3, <1>2
  <2> QED
    BY <2>1, <1>2
<1>5. \A i \in DOMAIN q : i \in DOMAIN r /\ r[i] = q[i]
  BY <1>1, <1>2
<1> QED
  BY <1>1, <1>3, <1>4, <1>5 DEF r

\* An answer is put on a line that holds none.
LEMMA AnswerSent ==
  ASSUME NEW q \in Seq(ByteItems), Len(q) <= LineMax, ~AnswersIn(q), NEW x \in ByteItems
  PROVE  /\ \A asked \in BOOLEAN : Tidy(Push(q, <<x>>), asked)
         /\ NoCan(q) /\ x.kind # "CAN" => NoCan(Push(q, <<x>>))
         /\ NoMoreC(Push(q, <<x>>))
         /\ x.kind # "ACK" => ~HasAck(Push(q, <<x>>))
<1> DEFINE r == Push(q, <<x>>)
<1>1. /\ r \in Seq(ByteItems) /\ Len(q) <= Len(r) /\ Len(r) <= Len(q) + 1
      /\ \A i \in DOMAIN q : i \in DOMAIN r /\ r[i] = q[i]
  BY PushedItem
<1>2. /\ DOMAIN q = 1 .. Len(q) /\ DOMAIN r = 1 .. Len(r) /\ Len(q) \in Nat /\ Len(r) \in Nat
  BY <1>1
<1>3. \A i \in DOMAIN r :
        (i \in DOMAIN q /\ r[i] = q[i]) \/ (i = Len(q) + 1 /\ i = Len(r) /\ r[i] = x)
  BY PushedItem
<1> HIDE DEF r
<1>4. \A i \in DOMAIN q : ~Asks(q[i]) /\ q[i].kind # "ACK"
  BY DEF AnswersIn, Asks
<1>5. ASSUME NEW i \in DOMAIN r, Asks(r[i]) \/ r[i].kind = "ACK"
      PROVE  i = Len(r) /\ r[i] = x
  BY <1>3, <1>4, <1>5
<1>6. \A asked \in BOOLEAN : Tidy(r, asked)
  <2> SUFFICES ASSUME NEW asked \in BOOLEAN, NEW i \in DOMAIN r, Asks(r[i])
               PROVE  Len(r) <= i + 1 /\ Len(r) # i + 1
    BY DEF Tidy
  <2>1. i = Len(r)
    BY <1>5
  <2> QED
    BY <2>1, <1>2
<1>7. NoCan(q) /\ x.kind # "CAN" => NoCan(r)
  BY <1>3 DEF NoCan
<1>8. NoMoreC(r)
  <2> SUFFICES ASSUME NEW i \in DOMAIN r, NEW j \in DOMAIN r, i < j, r[i].kind = "ACK"
               PROVE  FALSE
    BY DEF NoMoreC
  <2>1. i = Len(r)
    BY <1>5
  <2> QED
    BY <2>1, <1>2
<1>9. x.kind # "ACK" => ~HasAck(r)
  BY <1>5 DEF HasAck
<1> QED
  BY <1>6, <1>7, <1>8, <1>9 DEF r

\* A C follows an answer of a YMODEM session; or anything an empty line.
LEMMA AskSent ==
  ASSUME NEW q \in Seq(ByteItems), Len(q) <= LineMax, NEW x \in ByteItems, x.kind \in {"C", "NAK"},
         Tidy(q, FALSE), ~Asks(x) \/ q = <<>>, NoCan(q)
  PROVE  /\ Tidy(Push(q, <<x>>), TRUE) /\ NoCan(Push(q, <<x>>))
         /\ HasAck(Push(q, <<x>>)) => HasAck(q)
         /\ ~Asks(x) /\ AnswersIn(Push(q, <<x>>)) => AnswersIn(q)
         /\ q = <<>> => Len(Push(q, <<x>>)) <= 1
<1> DEFINE r == Push(q, <<x>>)
<1>1. /\ r \in Seq(ByteItems) /\ Len(q) <= Len(r) /\ Len(r) <= Len(q) + 1
      /\ \A i \in DOMAIN q : i \in DOMAIN r /\ r[i] = q[i]
  BY PushedItem
<1>2. /\ DOMAIN q = 1 .. Len(q) /\ DOMAIN r = 1 .. Len(r) /\ Len(q) \in Nat /\ Len(r) \in Nat
  BY <1>1
<1>3. \A i \in DOMAIN r :
        (i \in DOMAIN q /\ r[i] = q[i]) \/ (i = Len(q) + 1 /\ i = Len(r) /\ r[i] = x)
  BY PushedItem
<1> HIDE DEF r
<1>4. Len(r) <= Len(q) + 1
  BY <1>1
<1>5. HasAck(r) => HasAck(q)
  BY <1>3 DEF HasAck
<1>6. ~Asks(x) /\ AnswersIn(r) => AnswersIn(q)
  BY <1>3 DEF AnswersIn
<1>7. NoCan(r)
  BY <1>3 DEF NoCan
<1>8. q = <<>> => Len(r) <= 1
  BY <1>4
<1>9. Tidy(r, TRUE)
  <2> SUFFICES ASSUME NEW i \in DOMAIN r, Asks(r[i])
               PROVE  Len(r) <= i + 1 /\ (Len(r) = i + 1 => ~Asks(r[i + 1]))
    BY DEF Tidy
  <2>1. CASE i = Len(r)
    BY <2>1, <1>2
  <2>2. CASE i # Len(r)
    <3>1. i \in DOMAIN q /\ r[i] = q[i] /\ q # <<>>
      BY <2>2, <1>3
    <3>2. Len(q) <= i + 1 /\ Len(q) # i + 1
      BY <3>1 DEF Tidy
    <3>3. Len(q) = i
      BY <3>1, <3>2, <1>2
    <3>4. Len(r) <= i + 1
      BY <3>3, <1>4
    <3>5. ASSUME Len(r) = i + 1
          PROVE  ~Asks(r[i + 1])
      <4>1. i + 1 \in DOMAIN r /\ i + 1 \notin DOMAIN q
        BY <3>5, <3>3, <1>2
      <4>2. r[i + 1] = x
        BY <4>1, <1>3
      <4> QED
        BY <4>2, <3>1
    <3> QED
      BY <3>4, <3>5
  <2> QED
    BY <2>1, <2>2
<1> QED
  BY <1>5, <1>6, <1>7, <1>8, <1>9 DEF r

\* The ACK at the end of the line: C does not follow it.
LEMMA LastAckSent ==
  ASSUME NEW q \in Seq(ByteItems), Len(q) <= LineMax
  PROVE  /\ NoC(q) => NoC(Push(q, <<Byte("ACK")>>))
         /\ NoMoreC(q) => NoMoreC(Push(q, <<Byte("ACK")>>))
<1> PICK x \in ByteItems : x = Byte("ACK") /\ x.kind = "ACK"
  BY BytesAreItems
<1> DEFINE r == Push(q, <<x>>)
<1>1. /\ r \in Seq(ByteItems) /\ Len(q) <= Len(r) /\ Len(r) <= Len(q) + 1
      /\ \A i \in DOMAIN q : i \in DOMAIN r /\ r[i] = q[i]
  BY PushedItem
<1>2. /\ DOMAIN q = 1 .. Len(q) /\ DOMAIN r = 1 .. Len(r) /\ Len(q) \in Nat /\ Len(r) \in Nat
  BY <1>1
<1>3. \A i \in DOMAIN r :
        (i \in DOMAIN q /\ r[i] = q[i]) \/ (i = Len(q) + 1 /\ i = Len(r) /\ r[i] = x)
  BY PushedItem
<1> HIDE DEF r
<1>4. NoC(q) => NoC(r)
  BY <1>3 DEF NoC
<1>5. NoMoreC(q) => NoMoreC(r)
  <2> SUFFICES ASSUME NoMoreC(q), NEW i \in DOMAIN r, NEW j \in DOMAIN r, i < j,
                      r[i].kind = "ACK", r[j].kind = "C"
               PROVE  FALSE
    BY DEF NoMoreC
  <2>1. j \in DOMAIN q /\ r[j] = q[j]
    BY <1>3
  <2>2. i \in DOMAIN q /\ r[i] = q[i]
    BY <2>1, <1>1, <1>2
  <2> QED
    BY <2>1, <2>2 DEF NoMoreC
<1> QED
  BY <1>4, <1>5 DEF r

\* A line that holds one item.
LEMMA OneOnLine ==
  ASSUME NEW X, NEW x \in X
  PROVE  /\ <<x>> \in Seq(X) /\ <<x>> # <<>> /\ Head(<<x>>) = x /\ Tail(<<x>>) = <<>>
         /\ Len(<<x>>) = 1 /\ DOMAIN <<x>> = 1 .. 1 /\ <<x>>[1] = x
<1>1. <<x>> \in Seq(X)
  BY OneItem
<1>2. Tail(<<x>>) \in Seq(X) /\ Len(Tail(<<x>>)) = 0
  BY <1>1, TailThins
<1>3. Tail(<<x>>) = <<>>
  BY <1>2
<1> QED
  BY <1>1, <1>3

LEMMA PushedAlone ==
  ASSUME NEW X, NEW x \in X
  PROVE  Push(<<>>, <<x>>) = <<x>> /\ Push(<<>>, <<>>) = <<>>
<1>1. <<x>> \in Seq(X) /\ Len(<<x>>) = 1
  BY OneItem
<1>2. LineMax \in Nat /\ LineMax >= 1
  BY Constants
<1>3. <<>> \o <<x>> = <<x>> /\ <<>> \o <<>> = <<>> /\ Len(<<>>) = 0
  BY <1>1
<1> QED
  BY <1>1, <1>2, <1>3 DEF Push

LEMMA PushNothing ==
  ASSUME NEW X, NEW q \in Seq(X), Len(q) <= LineMax
  PROVE  Push(q, <<>>) = q
<1>1. q \o <<>> = q
  OBVIOUS
<1> QED
  BY <1>1, Constants DEF Push

-----------------------------------------------------------------------------
(* What no step changes *)

LEMMA SourceType ==
  ASSUME TypeOK
  PROVE  /\ Source \in Seq(Nat) /\ Len(Source) \in Nat /\ DOMAIN Source = 1 .. Len(Source)
         /\ \A n \in DOMAIN Source : Source[n] \in Nat
         /\ tx.batch => Source = Sizes
         /\ ~tx.batch => Len(Source) = 1 /\ Source[1] = tx.size
<1>1. Sizes \in Seq(Nat) /\ tx.size \in Nat
  BY Constants DEF TypeOK, TxRecord
<1>2. <<tx.size>> \in Seq(Nat) /\ Len(<<tx.size>>) = 1 /\ <<tx.size>>[1] = tx.size
  BY <1>1, OneItem
<1>3. Source \in Seq(Nat)
  BY <1>1, <1>2 DEF Source
<1>4. /\ Len(Source) \in Nat /\ DOMAIN Source = 1 .. Len(Source)
      /\ \A n \in DOMAIN Source : Source[n] \in Nat
  BY <1>3
<1>5. tx.batch => Source = Sizes
  BY DEF Source
<1>6. ~tx.batch => Source = <<tx.size>>
  BY DEF Source
<1> QED
  BY <1>2, <1>3, <1>4, <1>5, <1>6

Lasting ==
  /\ tx'.batch = tx.batch /\ patient' = patient /\ trouble \subseteq trouble'
  /\ ~tx.batch => tx'.size = tx.size

LEMMA LastingDoes ==
  ASSUME Lasting
  PROVE  /\ Source' = Source /\ (Deliverable' <=> Deliverable)
         /\ \A n : WholeFile(n)' = WholeFile(n)
         /\ Quiet' => Quiet
         /\ Exact' => Exact
<1>1. Source' = Source
  BY DEF Lasting, Source
<1>2. \A n : WholeFile(n)' = WholeFile(n)
  BY <1>1 DEF WholeFile
<1>3. Deliverable' <=> Deliverable
  BY <1>1 DEF Deliverable, Lasting
<1>4. Quiet' => Quiet
  BY DEF Quiet, Lasting
<1>5. Exact' => Exact
  BY <1>3 DEF Exact, Lasting
<1> QED
  BY <1>1, <1>2, <1>3, <1>4, <1>5

LEMMA RetrySize ==
  ASSUME tx \in TxRecord, NEW tries, NEW place \in TxPlaces, NEW failed \in Ends,
         Retry(tries, place, failed)
  PROVE  tx'.size = tx.size
  BY RetryDoes DEF SameBlock

LEMMA SizeStays ==
  ASSUME Known, ~tx.batch, TxStep
  PROVE  tx'.size = tx.size
<1>1. tx \in TxRecord /\ {"sync", "load", "send", "eot"} \subseteq TxPlaces
      /\ {"ok", "nosync", "cancelled", "failed"} \subseteq Ends
  BY DEF Known, TypeOK, TxPlaces, Ends
<1>2. RetrySync \/ RetrySend \/ RetryEot => tx'.size = tx.size
  BY <1>1, RetrySize DEF RetrySync, RetrySend, RetryEot
<1>3. \A place \in {"sync", "load", "send", "eot"} : To(place).size = tx.size
  BY <1>1, ToOp DEF SameBlock
<1>4. \A result \in {"ok", "nosync", "cancelled", "failed"} : Leave(result).size = tx.size
  BY <1>1, LeaveOp DEF SameBlock
<1>5. CASE TxSync
  <2>1. [To("load") EXCEPT !.crc = Head(up).kind = "C"].size = To("load").size
    BY <1>1, ToOp DEF TxRecord
  <2>2. [tx EXCEPT !.pc = "can", !.next = "sync"].size = tx.size
    BY <1>1 DEF TxRecord
  <2> QED
    BY <1>5, <1>2, <1>3, <2>1, <2>2 DEF TxSync
<1>6. CASE TxCan
  BY <1>6, <1>2, <1>4 DEF TxCan
<1>7. CASE TxLoad
  <2>1. \A blank : [To("send") EXCEPT !.block = @ + 1, !.blank = blank].size = To("send").size
    BY <1>1, ToOp DEF TxRecord
  <2> QED
    BY <1>7, <1>3, <2>1 DEF TxLoad
<1>8. CASE TxSend
  BY <1>8, <1>1 DEF TxSend, TxRecord
<1>9. CASE TxAck
  <2>1. TxAcked.size = To("load").size
    BY <1>1, ToOp DEF TxRecord, TxAcked
  <2>2. [tx EXCEPT !.pc = "can", !.next = "send"].size = tx.size
    BY <1>1 DEF TxRecord
  <2> QED
    BY <1>9, <1>2, <1>3, <2>1, <2>2 DEF TxAck
<1>10. CASE TxEot
  BY <1>10, <1>1 DEF TxEot, TxRecord
<1>11. CASE TxEotAck
  BY <1>11, <1>2, <1>4 DEF TxEotAck
<1>12. CASE TxTimeout
  BY <1>12, <1>2 DEF TxTimeout
<1>13. CASE TxDrop
  BY <1>13 DEF TxDrop
<1>14. CASE TxFlushed
  BY <1>14, <1>1 DEF TxFlushed, TxRecord
<1> QED
  BY <1>5, <1>6, <1>7, <1>8, <1>9, <1>10, <1>11, <1>12, <1>13, <1>14 DEF TxStep

LEMMA LastingStep ==
  ASSUME Known, [Next]_vars
  PROVE  Lasting
<1>1. tx'.batch = tx.batch /\ patient' = patient
  BY KnownStep
<1>2. trouble \subseteq trouble'
  BY TroubleGrows
<1>3. ASSUME ~tx.batch
      PROVE  tx'.size = tx.size
  <2>1. CASE RxStep
    <3>1. SayKnown /\ TypeOK
      BY DEF Known
    <3> QED
      BY <2>1, <3>1, ReceiveTypes
  <2>2. CASE SenderStep
    BY <2>2, <1>3, SizeStays DEF SenderStep
  <2>3. CASE (LineFault \/ PressCtrlX) /\ UNCHANGED files
    BY <2>3 DEF LineFault, PressCtrlX
  <2>4. CASE CardFills
    BY <2>4 DEF CardFills
  <2>5. CASE UNCHANGED vars
    BY <2>5 DEF vars
  <2> QED
    BY <2>1, <2>2, <2>3, <2>4, <2>5 DEF Next
<1> QED
  BY <1>1, <1>2, <1>3 DEF Lasting

\* The files, and where the receiver is in them, when neither changes.
LEMMA FilesStay ==
  ASSUME Lasting, files' = files
  PROVE  /\ \A f : Of(f)' = Of(f) /\ (BlocksInPlace(f)' <=> BlocksInPlace(f))
         /\ \A k, m : (Earlier(k, m)' <=> Earlier(k, m)) /\ (Whole(k, m)' <=> Whole(k, m))
         /\ Placed' <=> Placed
         /\ AllWhole' <=> AllWhole
<1>1. /\ Source' = Source /\ \A n : WholeFile(n)' = WholeFile(n)
      /\ Exact' => Exact
  BY LastingDoes
<1>2. \A f : Of(f)' = Of(f)
  BY DEF Of, Lasting
<1>3. \A f : BlocksInPlace(f)' <=> BlocksInPlace(f)
  BY <1>2 DEF BlocksInPlace
<1>4. \A k, m : Earlier(k, m)' <=> Earlier(k, m)
  BY <1>2, <1>3 DEF Earlier
<1>5. ASSUME NEW k, NEW m
      PROVE  Whole(k, m)' <=> Whole(k, m)
  BY <1>1, <1>2 DEF Whole
<1>6. Placed' <=> Placed
  BY <1>1, <1>2, <1>3 DEF Placed
<1>7. AllWhole' <=> AllWhole
  BY <1>1, <1>2 DEF AllWhole, Whole
<1> QED
  BY <1>2, <1>3, <1>4, <1>5, <1>6, <1>7

LEMMA FilesAtStay ==
  ASSUME Lasting, files' = files, rx'.open = rx.open
  PROVE  /\ \A k : FilesBefore(k) => FilesBefore(k)'
         /\ \A k, j : FilesAt(k, j) => FilesAt(k, j)'
<1>1. /\ Source' = Source /\ (Exact' => Exact) /\ tx'.batch = tx.batch
      /\ "full" \notin trouble' => "full" \notin trouble
  BY LastingDoes DEF Lasting
<1>2. \A k, m : (Earlier(k, m)' <=> Earlier(k, m)) /\ (Whole(k, m)' <=> Whole(k, m))
  BY FilesStay
<1>3. \A f : Of(f)' = Of(f)
  BY FilesStay
<1>4. \A k : FilesBefore(k) => FilesBefore(k)'
  BY <1>1, <1>2 DEF FilesBefore
<1>5. ASSUME NEW k, NEW j, FilesWithin(k, j)
      PROVE  FilesWithin(k, j)'
  <2>1. Of(Len(files))' = Of(Len(files))
    BY DEF Of, Lasting
  <2>2. (Earlier(k, Len(files) - 1))' <=> Earlier(k, Len(files) - 1)
    BY <1>2 DEF Earlier, BlocksInPlace, Of, Lasting
  <2>3. (Whole(k, Len(files) - 1))' <=> Whole(k, Len(files) - 1)
    BY <1>1, <1>3, LastingDoes DEF Whole, Of, Lasting
  <2> QED
    BY <1>1, <1>5, <2>1, <2>2, <2>3 DEF FilesWithin
<1>6. \A k, j : FilesAt(k, j) => FilesAt(k, j)'
  BY <1>4, <1>5 DEF FilesAt
<1> QED
  BY <1>4, <1>6

LEMMA PlacesStay ==
  ASSUME Lasting, files' = files, SameFile(rx, rx')
  PROVE  \A k, j : /\ Has(k, j) => Has(k, j)'
                   /\ Expects(k) => Expects(k)'
                   /\ Ended(k) => Ended(k)'
<1>1. /\ Source' = Source /\ (Exact' => Exact) /\ tx'.batch = tx.batch
  BY LastingDoes DEF Lasting
<1>2. /\ \A k : FilesBefore(k) => FilesBefore(k)'
      /\ \A k, j : FilesAt(k, j) => FilesAt(k, j)'
  BY FilesAtStay DEF SameFile
<1>3. ASSUME NEW k, NEW j
      PROVE  Has(k, j) => Has(k, j)'
  BY <1>1, <1>2 DEF Has, SameFile
<1>4. ASSUME NEW k
      PROVE  Expects(k) => Expects(k)'
  BY <1>1, <1>2 DEF Expects, SameFile
<1>5. ASSUME NEW k
      PROVE  Ended(k) => Ended(k)'
  BY <1>1, <1>2 DEF Ended, SameFile
<1> QED
  BY <1>3, <1>4, <1>5

-----------------------------------------------------------------------------
(* The receiver, while both ends are active *)

LEMMA ReceiverOps ==
  ASSUME NEW r \in RxRecord
  PROVE  /\ Turn(r).trychar = r.trychar /\ Turn(r).retry = r.retry + 1 /\ Turn(r).say = r.say
         /\ Again(r).trychar = r.trychar /\ Again(r).retry = 0 /\ Again(r).say = r.say
         /\ \A items, place : Flush(r, items, place).trychar = r.trychar
BY DEF Turn, Again, Flush, RxRecord

LEMMA LinesTyped ==
  ASSUME Known
  PROVE  /\ up \in Seq(ByteItems) /\ Len(up) <= LineMax /\ Len(up) \in Nat
         /\ down \in Seq(Items) /\ Len(down) <= LineMax
         /\ rx \in RxRecord /\ rx.retry \in Nat /\ rx.trychar \in {"C", "NAK", "none"}
         /\ rx.say \in Seq(ByteItems) /\ tx \in TxRecord /\ tx.batch \in BOOLEAN
         /\ rx.next \in RxNexts
<1>1. up \in Seq(ByteItems) /\ Len(up) <= LineMax /\ down \in Seq(Items) /\ Len(down) <= LineMax
  BY DEF Known, TypeOK, LineOK
<1>2. rx \in RxRecord /\ tx \in TxRecord
  BY DEF Known, TypeOK
<1>3. rx.retry \in Nat /\ rx.trychar \in {"C", "NAK", "none"} /\ rx.say \in Seq(ByteItems)
      /\ rx.next \in RxNexts
  BY <1>2 DEF RxRecord
<1>4. tx.batch \in BOOLEAN
  BY <1>2 DEF TxRecord
<1> QED
  BY <1>1, <1>2, <1>3, <1>4

\* All that xm_transmit reads is an answer.
LEMMA NoAnswers ==
  ASSUME up \in Seq(ByteItems), ~AnswersIn(up)
  PROVE  /\ ~HasAck(up) /\ (~tx.batch => up = <<>>)
         /\ NoMoreC(up) /\ \A asked \in BOOLEAN : Tidy(up, asked)
<1>1. ~HasAck(up)
  BY DEF AnswersIn, HasAck, Asks
<1>2. ~tx.batch => up = <<>>
  <2>1. up # <<>> => 1 \in DOMAIN up
    OBVIOUS
  <2> QED
    BY <2>1 DEF AnswersIn, Asks
<1>3. NoMoreC(up)
  BY <1>1 DEF HasAck, NoMoreC
<1>4. \A asked \in BOOLEAN : Tidy(up, asked)
  BY DEF AnswersIn, Tidy
<1> QED
  BY <1>1, <1>2, <1>3, <1>4

LEMMA EmptyLine ==
  ASSUME Len(up) <= 0 \/ up = <<>>, up \in Seq(ByteItems)
  PROVE  up = <<>> /\ ~AnswersIn(up) /\ ~HasAck(up)
<1>1. up = <<>> /\ DOMAIN up = 1 .. 0
  OBVIOUS
<1>2. ~AnswersIn(up)
  BY <1>1 DEF AnswersIn
<1> QED
  BY <1>1, <1>2, NoAnswers

LEMMA StageStays ==
  ASSUME Lasting, UNCHANGED <<tx, files>>, SameFile(rx, rx'), HasAck(up') => HasAck(up), At
  PROVE  At'
<1>1. /\ Source' = Source /\ (Exact' => Exact)
      /\ \A k, j : /\ Has(k, j) => Has(k, j)'
                   /\ Expects(k) => Expects(k)'
                   /\ Ended(k) => Ended(k)'
  BY LastingDoes, PlacesStay
<1> SUFFICES ASSUME NEW k \in Nat, NEW t \in Nat, k = tx'.file, t = tx'.block
             PROVE  Stage(k, t)'
  BY DEF At
<1>2. Stage(k, t) /\ tx' = tx
  BY DEF At
<1>3. HasAck(up)' => HasAck(up)
  BY DEF HasAck
<1> QED
  BY <1>1, <1>2, <1>3 DEF Stage

LEMMA SenderStays ==
  ASSUME Lasting, tx' = tx
  PROVE  /\ Left' <=> Left
         /\ LeftOk' <=> LeftOk
         /\ Sends' <=> Sends
         /\ InSession => InSession'
<1>1. Source' = Source
  BY LastingDoes
<1> QED
  BY <1>1 DEF Left, LeftOk, Sends, InSession

LEMMA OneAnswerActive ==
  ASSUME OneAnswer, Active
  PROVE  /\ Token /\ At /\ InSession /\ Placed /\ ~Left /\ ~RxDone /\ ~LeftOk
         /\ rx.pc \in {"try", "wait", "flush"} /\ tx.pc # "can"
<1>1. ~LeftOk
  BY DEF Active, Left, LeftOk, Ends
<1> QED
  BY <1>1 DEF OneAnswer, Active, Token, TokenRx, TokenTx

\* The receiver takes nothing and goes on.
LEMMA RxGoesOn ==
  ASSUME Lasting, OneAnswer, Active, UNCHANGED <<tx, files>>, SameFile(rx, rx'), ~RxDone',
         Token', HasAck(up') => HasAck(up)
  PROVE  OneAnswer'
<1>1. Token /\ At /\ InSession /\ Placed /\ ~Left /\ ~LeftOk
  BY OneAnswerActive
<1>2. At'
  BY <1>1, StageStays
<1>3. InSession' /\ ~Left' /\ ~LeftOk'
  BY <1>1, SenderStays
<1>4. Placed'
  BY <1>1, FilesStay
<1> QED
  BY <1>2, <1>3, <1>4 DEF OneAnswer

\* It gives up.
LEMMA RxGivesUp ==
  ASSUME Lasting, OneAnswer, Active, tx' = tx, RxDone', Placed', Result' # "ok", ~HasAck(up)',
         rx'.pc = "flush" => rx'.say = Cans
  PROVE  OneAnswer'
<1>1. InSession /\ ~Left /\ ~LeftOk
  BY OneAnswerActive
<1>2. InSession' /\ ~Left' /\ ~LeftOk'
  BY <1>1, SenderStays
<1> QED
  BY <1>2 DEF OneAnswer, Active

\* It ends the transfer.
LEMMA RxEndsWell ==
  ASSUME Lasting, OneAnswer, Active, tx' = tx, RxDone', Placed', Result' = "ok",
         rx'.pc = "flush" => rx'.say = <<Byte("ACK")>>,
         Exact' => NoMore'
  PROVE  OneAnswer'
<1>1. InSession /\ ~Left /\ ~LeftOk
  BY OneAnswerActive
<1>2. InSession' /\ ~Left' /\ ~LeftOk'
  BY <1>1, SenderStays
<1> QED
  BY <1>2 DEF OneAnswer, Active

LEMMA AskKeeps ==
  ASSUME Known, Known', Quiet', Lasting, OneAnswer, Active, RxAsk
  PROVE  OneAnswer'
<1>1. Token /\ At /\ ~Left
  BY OneAnswerActive
<1>2. /\ rx.pc = "try" /\ UNCHANGED <<down, files, tx>> /\ rx' = [rx EXCEPT !.pc = "wait"]
      /\ up' = Push(up, IF rx.trychar = "none" THEN <<>> ELSE <<Byte(rx.trychar)>>)
  BY DEF RxAsk, Keep, Say
<1>3. /\ rx'.pc = "wait" /\ SameFile(rx, rx') /\ rx'.trychar = rx.trychar
  BY <1>2, LinesTyped DEF RxRecord, SameFile
<1>4. Tidy(up, FALSE) /\ NoCan(up) /\ (tx.pc = "wait C" => up = <<>>)
  BY <1>1, <1>2 DEF Token, TokenUp, TokenTx
<1>5. ~tx.batch /\ rx.trychar # "none" => down = <<>> /\ up = <<>> /\ ~Sends /\ tx.pc # "wait C"
  BY <1>1, <1>2 DEF Token, TokenRx, Known, SenderKnown
<1>6. /\ Tidy(up', TRUE) /\ NoCan(up') /\ (HasAck(up') => HasAck(up))
      /\ AnswersIn(up') => AnswersIn(up) \/ (~tx.batch /\ rx.trychar # "none")
      /\ up = <<>> => Len(up') <= 1
  <2>1. CASE rx.trychar = "none"
    <3>1. up' = up
      BY <1>2, <2>1, LinesTyped, PushNothing
    <3>2. Tidy(up, TRUE)
      BY <1>4 DEF Tidy
    <3>3. up = <<>> => Len(up) <= 1
      OBVIOUS
    <3> QED
      BY <1>4, <3>1, <3>2, <3>3
  <2>2. CASE rx.trychar # "none"
    <3>1. PICK x \in ByteItems : x = Byte(rx.trychar) /\ x.kind = rx.trychar
      BY <2>2, BytesAreItems, LinesTyped
    <3>2. up' = Push(up, <<x>>) /\ x.kind \in {"C", "NAK"}
      BY <1>2, <2>2, <3>1, LinesTyped
    <3>3. ~Asks(x) \/ up = <<>>
      <4>1. CASE tx.batch
        <5>1. rx.trychar = "C"
          BY <1>1, <4>1, <2>2, LinesTyped DEF Token, TokenRx
        <5> QED
          BY <5>1, <3>1, <4>1 DEF Asks
      <4> QED
        BY <4>1, <1>5, <2>2
    <3>4. ~tx.batch \/ ~Asks(x)
      <4>1. CASE tx.batch
        <5>1. rx.trychar = "C"
          BY <1>1, <4>1, <2>2, LinesTyped DEF Token, TokenRx
        <5> QED
          BY <5>1, <3>1, <4>1 DEF Asks
      <4> QED
        BY <4>1
    <3> QED
      BY <1>4, <2>2, <3>2, <3>3, <3>4, LinesTyped, AskSent
  <2> QED
    BY <2>1, <2>2
<1>7. ~RxDone'
  BY <1>3 DEF RxDone, Ends
<1>8. TokenDown'
  BY <1>1, <1>2 DEF Token, TokenDown, Sends, Awaited, Current, Header
<1>9. TokenUp'
  <2>1. Tidy(up, rx.pc = "wait")' /\ NoCan(up)'
    BY <1>2, <1>3, <1>6 DEF Tidy, Asks, NoCan
  <2>2. ASSUME AnswersIn(up)'
        PROVE  ~Sends' /\ down' = <<>> /\ tx'.pc # "wait C"
    <3>1. AnswersIn(up')
      BY <2>2, <1>2 DEF AnswersIn, Asks
    <3>2. CASE AnswersIn(up)
      BY <1>1, <1>2, <3>2 DEF Token, TokenUp, Sends
    <3>3. CASE ~tx.batch /\ rx.trychar # "none"
      BY <1>2, <1>5, <3>3 DEF Sends
    <3> QED
      BY <1>6, <3>1, <3>2, <3>3
  <2> QED
    BY <1>3, <2>1, <2>2 DEF TokenUp
<1>10. TokenRx'
  BY <1>1, <1>2, <1>3 DEF Token, TokenRx
<1>11. TokenTx'
  <2>1. tx'.pc = "wait C" => down' = <<>>
    BY <1>1, <1>2 DEF Token, TokenTx
  <2> QED
    BY <1>1, <1>2, <1>3, <1>4, <1>6, <2>1 DEF Token, TokenTx
<1>12. HasAck(up') => HasAck(up)
  BY <1>6
<1> QED
  BY <1>2, <1>3, <1>7, <1>8, <1>9, <1>10, <1>11, <1>12, RxGoesOn DEF Token

\* Neither line changes, and the sender does not.
LEMMA TokenDownStays ==
  ASSUME TokenDown, down' = down, tx' = tx
  PROVE  TokenDown'
BY DEF TokenDown, Sends, Awaited, Current, Header

LEMMA UpStays ==
  ASSUME up' = up, tx'.batch = tx.batch
  PROVE  /\ AnswersIn(up)' <=> AnswersIn(up)
         /\ \A asked : Tidy(up, asked)' <=> Tidy(up, asked)
         /\ NoCan(up)' <=> NoCan(up)
         /\ HasAck(up)' <=> HasAck(up)
         /\ (NoMoreC(up)' <=> NoMoreC(up)) /\ (NoC(up)' <=> NoC(up))
BY DEF AnswersIn, Tidy, NoCan, HasAck, Asks, NoMoreC, NoC

\* In "try" there is nothing on the lines, and nothing is sent.
LEMMA TokenSilent ==
  ASSUME Known, Token, down = <<>>, ~AnswersIn(up), ~Sends, UNCHANGED <<line, tx>>,
         rx'.pc = "try", tx.batch => rx'.trychar # "NAK",
         tx.pc = "wait C" => up = <<>>
  PROVE  Token'
<1>1. down' = down /\ up' = up /\ tx' = tx
  BY DEF line
<1>2. TokenDown'
  BY <1>1, TokenDownStays DEF Token
<1>3. ~tx.batch => up = <<>>
  BY LinesTyped, NoAnswers
<1>4. TokenUp'
  <2>1. ~AnswersIn(up)' /\ NoCan(up)'
    BY <1>1, UpStays DEF Token, TokenUp
  <2>2. Tidy(up, rx.pc = "wait")'
    BY <2>1 DEF AnswersIn, Tidy
  <2> QED
    BY <2>1, <2>2 DEF TokenUp
<1>5. TokenRx'
  BY <1>1, <1>3 DEF TokenRx, Sends
<1>6. TokenTx'
  BY <1>1 DEF Token, TokenTx
<1> QED
  BY <1>2, <1>4, <1>5, <1>6 DEF Token

LEMMA NoSyncKeeps ==
  ASSUME Known, Known', Quiet', Lasting, OneAnswer, Active, RxNoSync
  PROVE  OneAnswer'
<1>1. Token /\ At /\ ~Left /\ Placed
  BY OneAnswerActive
<1>2. rx.pc = "try" /\ rx.retry >= SyncTries /\ UNCHANGED <<down, up, files, tx>>
  BY DEF RxNoSync, line, Keep
<1>3. ~AnswersIn(up)
  <2>1. SyncTries \in Nat /\ SyncTries > 1
    BY RxAssumption
  <2>2. ~(rx.retry <= 1)
    BY <1>2, <2>1, LinesTyped
  <2> QED
    BY <1>1, <1>2, <2>2 DEF Token, TokenUp
<1>4. CASE rx.trychar = "C" /\ rx' = Again([rx EXCEPT !.trychar = "NAK"])
           /\ trouble' = trouble \cup {"tries"}
  <2>1. ~tx.batch
    BY <1>2, <1>4 DEF Quiet
  <2>2. down = <<>> /\ up = <<>> /\ ~Sends /\ tx.pc # "wait C"
    BY <1>1, <1>2, <1>4, <2>1 DEF Token, TokenRx, Known, SenderKnown
  <2>3. PICK r \in RxRecord : r = [rx EXCEPT !.trychar = "NAK"] /\ SameFile(rx, r)
    <3>1. rx \in RxRecord
      BY LinesTyped
    <3>2. [rx EXCEPT !.trychar = "NAK"] \in RxRecord
      BY <3>1 DEF RxRecord
    <3>3. SameFile(rx, [rx EXCEPT !.trychar = "NAK"])
      BY <3>1 DEF SameFile, RxRecord
    <3> QED
      BY <3>2, <3>3
  <2>4. rx' = Again(r) /\ rx'.pc = "try" /\ SameFile(r, rx')
    BY <1>4, <2>3, RxOps
  <2>5. SameFile(rx, rx')
    BY <2>3, <2>4 DEF SameFile
  <2>6. Token'
    BY <1>1, <1>2, <1>3, <2>1, <2>2, <2>4, TokenSilent DEF line
  <2>7. ~RxDone'
    BY <2>4 DEF RxDone, Ends
  <2> QED
    BY <1>2, <2>5, <2>6, <2>7, RxGoesOn
<1>5. CASE rx' = Flush(rx, Cans, "nosync")
  <2>1. rx'.pc = "flush" /\ rx'.next = "nosync" /\ rx'.say = Cans
    <3>1. "nosync" \in RxNexts
      BY DEF RxNexts, Ends
    <3>2. Cans \in Seq(ByteItems)
      BY BytesAreItems
    <3>3. rx \in RxRecord
      BY LinesTyped
    <3> QED
      BY <1>5, <3>1, <3>2, <3>3, FlushOp
  <2>2. RxDone' /\ Result' # "ok"
    BY <2>1 DEF RxDone, Result, Ends
  <2>3. ~HasAck(up)'
    BY <1>2, <1>3, LinesTyped, NoAnswers DEF HasAck
  <2>4. Placed'
    BY <1>1, <1>2, FilesStay
  <2> QED
    BY <1>2, <2>1, <2>2, <2>3, <2>4, RxGivesUp
<1> QED
  BY <1>4, <1>5 DEF RxNoSync

LEMMA TimeoutKeeps ==
  ASSUME Known, Known', Quiet', Lasting, OneAnswer, Active, RxTimeout
  PROVE  OneAnswer'
<1>1. Token /\ rx.pc \in {"try", "wait", "flush"}
  BY OneAnswerActive
<1>2. patient
  BY DEF Quiet, Lasting
<1>3. rx.pc = "wait" /\ down = <<>> /\ up = <<>> /\ tx.pc \in {"sync", "wait C"} \cup Ends
      /\ rx' = Turn(rx) /\ UNCHANGED <<down, up, files, tx>>
  BY <1>1, <1>2 DEF RxTimeout, RxQuiet, line, Keep
<1>4. rx'.pc = "try" /\ rx'.trychar = rx.trychar /\ SameFile(rx, rx')
  BY <1>3, LinesTyped, RxOps, ReceiverOps
<1>5. ~AnswersIn(up)
  BY <1>3, EmptyLine, LinesTyped
<1>6. ~Sends
  BY <1>3 DEF Sends, Ends
<1>7. Token'
  BY <1>1, <1>3, <1>4, <1>5, <1>6, TokenSilent DEF line, Token, TokenRx
<1>8. ~RxDone'
  BY <1>4 DEF RxDone, Ends
<1> QED
  BY <1>3, <1>4, <1>7, <1>8, RxGoesOn

LEMMA FlushedKeeps ==
  ASSUME Known, Known', Quiet', Lasting, OneAnswer, Active, RxFlushed
  PROVE  OneAnswer'
<1>1. Token /\ ~RxDone
  BY OneAnswerActive
<1>2. rx.pc = "flush" /\ up' = Push(up, rx.say) /\ UNCHANGED <<down, files, tx>>
      /\ rx' = IF rx.next = "turn" THEN Turn(rx)
               ELSE IF rx.next = "try" THEN Again(rx) ELSE [rx EXCEPT !.pc = rx.next]
  BY DEF RxFlushed, Say, Keep
<1>3. rx.next \in {"try", "turn"} /\ rx.say \in {<<>>, <<Byte("NAK")>>}
  BY <1>1, <1>2 DEF RxDone, Known, SayKnown
<1>4. /\ rx'.pc = "try" /\ rx'.trychar = rx.trychar /\ SameFile(rx, rx')
      /\ rx.next = "try" => rx'.retry = 0
  BY <1>2, <1>3, LinesTyped, RxOps, ReceiverOps
<1>5. down = <<>> /\ ~Sends /\ ~AnswersIn(up) /\ (tx.batch => rx.trychar # "NAK")
  BY <1>1, <1>2 DEF Token, TokenRx, TokenUp
<1>6. tx.pc = "wait C" => up = <<>>
  BY <1>1, <1>2 DEF Token, TokenTx
<1>7. ~RxDone'
  BY <1>4 DEF RxDone, Ends
<1>8. CASE rx.say = <<>>
  <2>1. up' = up
    BY <1>2, <1>8, LinesTyped, PushNothing
  <2>2. Token'
    BY <1>1, <1>2, <1>4, <1>5, <1>6, <2>1, TokenSilent DEF line
  <2> QED
    BY <1>2, <1>4, <1>7, <2>1, <2>2, RxGoesOn
<1>9. CASE rx.say = <<Byte("NAK")>> /\ rx.say # <<>>
  <2>1. rx.next = "try" /\ tx.pc # "wait C" /\ (~tx.batch => rx.trychar = "none")
    BY <1>1, <1>2, <1>9 DEF Token, TokenRx
  <2>2. PICK x \in ByteItems : x = Byte("NAK") /\ x.kind = "NAK"
    BY BytesAreItems
  <2>3. NoCan(up)
    BY <1>1 DEF Token, TokenUp
  <2>4. Tidy(up', FALSE) /\ NoCan(up') /\ ~HasAck(up')
    BY <1>2, <1>5, <1>9, <2>2, <2>3, LinesTyped, AnswerSent
  <2>5. TokenDown'
    BY <1>1, <1>2, TokenDownStays DEF Token
  <2>6. TokenUp'
    <3>1. Tidy(up, rx.pc = "wait")' /\ NoCan(up)'
      BY <1>2, <1>4, <2>4 DEF Tidy, NoCan, Asks
    <3>2. ~Sends' /\ down' = <<>> /\ tx'.pc # "wait C"
      BY <1>2, <1>5, <2>1 DEF Sends
    <3>3. rx'.pc = "try" /\ rx'.retry = 0
      BY <1>4, <2>1
    <3>4. rx'.retry <= 1
      <4>1. \A n : n = 0 => n <= 1
        OBVIOUS
      <4> QED
        BY <3>3, <4>1, Zenon
    <3> QED
      BY <3>1, <3>2, <3>3, <3>4 DEF TokenUp
  <2>7. TokenRx'
    BY <1>2, <1>4, <1>5, <2>1 DEF TokenRx
  <2>8. TokenTx'
    BY <1>1, <1>2, <2>1 DEF Token, TokenTx
  <2> QED
    BY <1>2, <1>4, <1>7, <2>4, <2>5, <2>6, <2>7, <2>8, RxGoesOn DEF Token
<1> QED
  BY <1>3, <1>8, <1>9

-----------------------------------------------------------------------------
(* Something arrives *)

LEMMA AwaitedIs ==
  ASSUME Known, NEW x \in Items, Awaited(x)
  PROVE  /\ x.kind \in {"junk", "EOT", "packet"}
         /\ x.kind = "EOT" => tx.pc = "eot ack"
         /\ x.kind = "packet" => tx.pc \in {"ack", "header ack"} /\ x \in Packets
         /\ x.kind = "packet" /\ x.ok =>
              \/ tx.pc = "ack" /\ x = Current
              \/ tx.pc = "header ack" /\ x = Header
<1>1. Current \in Packets /\ Current.kind = "packet"
  BY PacketIs, LinesTyped DEF Current
<1>2. Header \in Packets /\ Header.kind = "packet"
  BY HeaderIs, LinesTyped
<1>3. Byte("junk") \in ByteItems /\ Byte("junk").kind = "junk" /\ Byte("EOT").kind = "EOT"
  BY BytesAreItems
<1>4. x.kind = "packet" => x \in Packets
  BY BytesAreItems DEF Items
<1>5. CASE x = Byte("junk")
  BY <1>3, <1>5
<1>6. CASE tx.pc = "eot ack" /\ x = Byte("EOT")
  BY <1>3, <1>6
<1>7. CASE tx.pc = "ack" /\ Spoilt(Current, x)
  <2>1. x = Current \/ x = Byte("junk") \/ x = [Current EXCEPT !.ok = FALSE]
    BY <1>7 DEF Spoilt
  <2>2. x = [Current EXCEPT !.ok = FALSE] => x.kind = "packet" /\ ~x.ok
    BY <1>1 DEF Packets
  <2> QED
    BY <1>1, <1>3, <1>4, <1>7, <2>1, <2>2
<1>8. CASE tx.pc = "header ack" /\ Spoilt(Header, x)
  <2>1. x = Header \/ x = Byte("junk") \/ x = [Header EXCEPT !.ok = FALSE]
    BY <1>8 DEF Spoilt
  <2>2. x = [Header EXCEPT !.ok = FALSE] => x.kind = "packet" /\ ~x.ok
    BY <1>2 DEF Packets
  <2> QED
    BY <1>2, <1>3, <1>4, <1>8, <2>1, <2>2
<1> QED
  BY <1>5, <1>6, <1>7, <1>8 DEF Awaited

LEMMA Arrived ==
  ASSUME Known, OneAnswer, Active, down # <<>>
  PROVE  /\ Head(down) \in Items /\ Tail(down) = <<>> /\ Awaited(Head(down))
         /\ ~Sends /\ tx.pc # "wait C"
         /\ ~AnswersIn(up) /\ ~HasAck(up) /\ (~tx.batch => up = <<>>)
         /\ rx.pc \in {"try", "wait"}
<1>1. Token /\ rx.pc \in {"try", "wait", "flush"}
  BY OneAnswerActive
<1>2. PICK x \in Items : down = <<x>> /\ Awaited(x) /\ ~Sends
  BY <1>1 DEF Token, TokenDown
<1>3. Head(down) = x /\ Tail(down) = <<>>
  BY <1>2, OneOnLine
<1>4. ~AnswersIn(up) /\ rx.pc # "flush" /\ tx.pc # "wait C"
  BY <1>1 DEF Token, TokenUp, TokenRx, TokenTx
<1>5. ~HasAck(up) /\ (~tx.batch => up = <<>>)
  BY <1>4, LinesTyped, NoAnswers
<1> QED
  BY <1>1, <1>2, <1>3, <1>4, <1>5

\* What was on the line is taken; the receiver answers at once, or when the line is silent.
LEMMA TokenTaken ==
  ASSUME Known, Known', OneAnswer, Active, down # <<>>, down' = Tail(down), tx' = tx,
         tx.batch => rx'.trychar # "NAK",
         \/ /\ rx'.pc = "flush" /\ up' = up
            /\ rx'.say # <<>> => rx'.next = "try" /\ (~tx.batch => rx'.trychar = "none")
         \/ /\ rx'.pc = "try" /\ rx'.retry <= 1 /\ (~tx.batch => rx'.trychar = "none")
            /\ \E x \in ByteItems : x.kind \in {"ACK", "NAK"} /\ up' = Push(up, <<x>>)
  PROVE  Token'
<1>1. /\ down' = <<>> /\ ~Sends /\ tx.pc # "wait C" /\ ~AnswersIn(up)
      /\ ~tx.batch => up = <<>>
  BY Arrived
<1>2. NoCan(up) /\ tx.pc # "can"
  BY OneAnswerActive DEF Token, TokenUp
<1>3. ~Sends' /\ tx'.pc # "wait C" /\ tx'.pc # "can"
  BY <1>1, <1>2 DEF Sends
<1>4. TokenDown'
  BY <1>1 DEF TokenDown
<1>5. TokenTx'
  BY <1>3 DEF TokenTx
<1>6. CASE /\ rx'.pc = "flush" /\ up' = up
           /\ rx'.say # <<>> => rx'.next = "try" /\ (~tx.batch => rx'.trychar = "none")
  <2>1. ~AnswersIn(up)' /\ NoCan(up)'
    BY <1>1, <1>2, <1>6, UpStays
  <2>2. Tidy(up, rx.pc = "wait")'
    BY <2>1 DEF AnswersIn, Tidy
  <2>3. TokenUp'
    BY <2>1, <2>2 DEF TokenUp
  <2>4. TokenRx'
    BY <1>1, <1>3, <1>6 DEF TokenRx
  <2> QED
    BY <1>4, <1>5, <2>3, <2>4 DEF Token
<1>7. CASE /\ rx'.pc = "try" /\ rx'.retry <= 1 /\ (~tx.batch => rx'.trychar = "none")
           /\ \E x \in ByteItems : x.kind \in {"ACK", "NAK"} /\ up' = Push(up, <<x>>)
  <2>1. PICK x \in ByteItems : x.kind \in {"ACK", "NAK"} /\ up' = Push(up, <<x>>)
    BY <1>7
  <2>2. Tidy(Push(up, <<x>>), FALSE) /\ NoCan(Push(up, <<x>>))
    BY <1>1, <1>2, <2>1, LinesTyped, AnswerSent
  <2>3. Tidy(up, rx.pc = "wait")' /\ NoCan(up)'
    BY <1>7, <2>1, <2>2 DEF Tidy, NoCan, Asks
  <2>4. TokenUp'
    BY <1>1, <1>3, <1>7, <2>3 DEF TokenUp
  <2>5. TokenRx'
    BY <1>7 DEF TokenRx
  <2> QED
    BY <1>4, <1>5, <2>4, <2>5 DEF Token
<1> QED
  BY <1>6, <1>7

LEMMA FlushesTo ==
  ASSUME NEW r \in RxRecord, NEW items \in Seq(ByteItems), NEW place \in RxNexts,
         rx' = Flush(r, items, place)
  PROVE  /\ rx'.pc = "flush" /\ rx'.next = place /\ rx'.say = items /\ SameFile(r, rx')
         /\ rx'.trychar = r.trychar
<1>1. SameFile(r, Flush(r, items, place)) /\ Flush(r, items, place).pc = "flush"
      /\ Flush(r, items, place).next = place /\ Flush(r, items, place).say = items
  BY FlushOp
<1>2. Flush(r, items, place).trychar = r.trychar
  BY ReceiverOps
<1> QED
  BY <1>1, <1>2

LEMMA JunkKeeps ==
  ASSUME Known, Known', Quiet', Lasting, OneAnswer, Active, RxJunk
  PROVE  OneAnswer'
<1>1. /\ down # <<>> /\ down' = Tail(down) /\ rx' = Flush(rx, <<>>, "turn")
      /\ UNCHANGED <<up, files, tx>>
  BY DEF RxJunk, Arrives, Keep
<1>2. rx \in RxRecord /\ <<>> \in Seq(ByteItems) /\ "turn" \in RxNexts
      /\ rx' = Flush(rx, <<>>, "turn")
  BY <1>1, LinesTyped DEF RxNexts
<1>3. /\ rx'.pc = "flush" /\ rx'.next = "turn" /\ rx'.say = <<>> /\ SameFile(rx, rx')
      /\ rx'.trychar = rx.trychar
  BY <1>2, FlushesTo
<1>4. tx.batch => rx.trychar # "NAK"
  BY OneAnswerActive DEF Token, TokenRx
<1>5. Token'
  BY <1>1, <1>3, <1>4, TokenTaken
<1>6. ~RxDone'
  BY <1>3 DEF RxDone, Ends
<1> QED
  BY <1>1, <1>3, <1>5, <1>6, RxGoesOn

LEMMA RejectKeeps ==
  ASSUME Known, Known', Quiet', Lasting, OneAnswer, Active, RxReject
  PROVE  OneAnswer'
<1>1. /\ down # <<>> /\ down' = Tail(down) /\ rx' = Flush(Started, <<Byte("NAK")>>, "try")
      /\ UNCHANGED <<up, files, tx>>
  BY DEF RxReject, Arrives, Keep, Rejected
<1>2. rx \in RxRecord /\ "try" \in RxNexts
  BY LinesTyped DEF RxNexts
<1>3. <<Byte("NAK")>> \in Seq(ByteItems)
  BY Answer
<1>4. Started \in RxRecord /\ SameFile(rx, Started) /\ Started.trychar = "none"
  BY <1>2, StartedOp
<1>5. /\ rx'.pc = "flush" /\ rx'.next = "try" /\ SameFile(Started, rx')
      /\ rx'.trychar = "none"
  <2>1. rx' = Flush(Started, <<Byte("NAK")>>, "try")
    BY <1>1
  <2> QED
    BY <1>2, <1>3, <1>4, <2>1, FlushesTo
<1>6. SameFile(rx, rx')
  BY <1>4, <1>5 DEF SameFile
<1>7. Token'
  BY <1>1, <1>5, TokenTaken
<1>8. ~RxDone'
  BY <1>5 DEF RxDone, Ends
<1> QED
  BY <1>1, <1>5, <1>6, <1>7, <1>8, RxGoesOn

\* The steps of the receiver that take no packet and no EOT.
LEMMA QuietKeeps ==
  ASSUME Known, Known', Quiet', Lasting, OneAnswer, Active, QuietRx
  PROVE  OneAnswer'
<1>1. rx.pc \in {"try", "wait", "flush"} /\ Token
  BY OneAnswerActive
<1>2. ~RxDrop
  BY <1>1 DEF RxDrop, Token, TokenRx
<1>3. ~RxGone
  BY <1>1 DEF RxGone, Ends
<1>4. ~RxSecondCan
  BY <1>1 DEF RxSecondCan
<1>5. ~RxCan
  <2> SUFFICES ASSUME RxCan
               PROVE  FALSE
    OBVIOUS
  <2>1. down # <<>> /\ Head(down).kind = "CAN"
    BY DEF RxCan, Arrives
  <2>2. Head(down) \in Items /\ Awaited(Head(down))
    BY <2>1, Arrived
  <2>3. Head(down).kind \in {"junk", "EOT", "packet"}
    BY <2>2, AwaitedIs
  <2> QED
    BY <2>1, <2>3
<1> QED
  BY <1>2, <1>3, <1>4, <1>5, AskKeeps, NoSyncKeeps, TimeoutKeeps, FlushedKeeps, JunkKeeps,
     RejectKeeps DEF QuietRx

-----------------------------------------------------------------------------
(* The last file *)

\* The first m files are the same, and there is one more.
LastIs(m, name, blocks) ==
  /\ Len(files') = m + 1 /\ m \in Nat /\ m <= Len(files)
  /\ \A f \in 1 .. m : files'[f] = files[f]
  /\ files'[m + 1].name = name /\ files'[m + 1].blocks = blocks

LEMMA BlocksAre ==
  ASSUME NEW q \in Blocks, NEW bs \in Blocks
  PROVE  /\ DOMAIN q = 1 .. Len(q) /\ Len(q) \in Nat /\ Len(bs) \in Nat
         /\ q \o bs \in Blocks /\ Len(q \o bs) = Len(q) + Len(bs)
         /\ DOMAIN (q \o bs) = 1 .. (Len(q) + Len(bs))
         /\ \A i \in 1 .. Len(q) : (q \o bs)[i] = q[i]
         /\ \A i \in 1 .. Len(bs) : (q \o bs)[Len(q) + i] = bs[i]
<1>1. \A X : \A a, b \in Seq(X) :
        /\ DOMAIN a = 1 .. Len(a) /\ Len(a) \in Nat /\ Len(b) \in Nat
        /\ a \o b \in Seq(X) /\ Len(a \o b) = Len(a) + Len(b)
        /\ DOMAIN (a \o b) = 1 .. (Len(a) + Len(b))
        /\ \A i \in 1 .. Len(a) : (a \o b)[i] = a[i]
        /\ \A i \in 1 .. Len(b) : (a \o b)[Len(a) + i] = b[i]
  OBVIOUS
<1>2. PICK X : X = Nat \X Nat
  OBVIOUS
<1>3. Blocks = Seq(X)
  BY <1>2 DEF Blocks
<1>4. q \in Seq(X) /\ bs \in Seq(X)
  BY <1>3
<1> QED
  BY <1>1, <1>3, <1>4

LEMMA EditedLast ==
  ASSUME files \in Seq(FileRecord), files # <<>>, NEW bs \in Blocks,
         files' = [files EXCEPT ![Len(files)].blocks = bs]
  PROVE  LastIs(Len(files) - 1, files[Len(files)].name, bs)
<1>1. PICK gs : gs = [files EXCEPT ![Len(files)].blocks = bs]
  OBVIOUS
<1>2. /\ Len(gs) = Len(files)
      /\ \A f \in 1 .. Len(files) :
           gs[f] = IF f = Len(files) THEN [name |-> files[f].name, blocks |-> bs] ELSE files[f]
  BY <1>1, FileEdited
<1>3. Len(files) \in Nat /\ Len(files) > 0
  OBVIOUS
<1>4. PICK m \in Nat : m = Len(files) - 1 /\ m + 1 = Len(files)
  BY <1>3
<1>5. gs[m + 1] = [name |-> files[m + 1].name, blocks |-> bs]
  BY <1>2, <1>3, <1>4
<1>6. \A f \in 1 .. m : gs[f] = files[f]
  <2> TAKE f \in 1 .. m
  <2>1. f \in 1 .. Len(files) /\ f # Len(files)
    BY <1>3, <1>4
  <2> QED
    BY <1>2, <2>1
<1>7. gs[m + 1].name = files[m + 1].name /\ gs[m + 1].blocks = bs
  BY <1>5
<1>8. Len(gs) = m + 1 /\ m <= Len(files)
  BY <1>2, <1>3, <1>4
<1>9. files' = gs
  BY <1>1
<1> QED
  BY <1>4, <1>6, <1>7, <1>8, <1>9 DEF LastIs

LEMMA LastWritten ==
  ASSUME TypeOK, NEW bs \in Blocks, files' = WithBlocks(bs)
  PROVE  /\ rx.packetno = 1 => LastIs(Len(files), rx.name, bs)
         /\ rx.packetno # 1 /\ files # <<>> =>
              LastIs(Len(files) - 1, files[Len(files)].name, files[Len(files)].blocks \o bs)
<1>0. files \in Seq(FileRecord)
  BY DEF TypeOK
<1>1. ASSUME rx.packetno = 1
      PROVE  LastIs(Len(files), rx.name, bs)
  <2>0. PICK x : x = [name |-> rx.name, blocks |-> bs]
    OBVIOUS
  <2>1. x = [name |-> rx.name, blocks |-> bs] /\ x.name = rx.name /\ x.blocks = bs
    BY <2>0
  <2>2. x \in FileRecord
    BY <2>1 DEF TypeOK, RxRecord, FileRecord
  <2>3. files' = Append(files, x)
    BY <1>1, <2>1 DEF WithBlocks
  <2>4. /\ Len(Append(files, x)) = Len(files) + 1 /\ Append(files, x)[Len(files) + 1] = x
        /\ \A f \in 1 .. Len(files) : Append(files, x)[f] = files[f]
        /\ Len(files) \in Nat /\ Len(files) <= Len(files)
    BY <1>0, <2>2
  <2> QED
    BY <2>1, <2>3, <2>4 DEF LastIs
<1>2. ASSUME rx.packetno # 1, files # <<>>
      PROVE  LastIs(Len(files) - 1, files[Len(files)].name, files[Len(files)].blocks \o bs)
  <2>1. PICK old \in Blocks : old = files[Len(files)].blocks
    <3>1. Len(files) \in 1 .. Len(files)
      BY <1>0, <1>2
    <3> QED
      BY <1>0, <3>1, FileFields
  <2>2. PICK new \in Blocks : new = old \o bs
    BY BlocksAre
  <2>3. files' = [files EXCEPT ![Len(files)].blocks = new]
    BY <1>2, <2>1, <2>2 DEF WithBlocks
  <2> QED
    BY <1>0, <1>2, <2>1, <2>2, <2>3, EditedLast
<1> QED
  BY <1>1, <1>2

LEMMA LastResized ==
  ASSUME TypeOK, RxEot
  PROVE  /\ ~rx.open => files' = files
         /\ rx.open /\ files # <<>> =>
              LastIs(Len(files) - 1, files[Len(files)].name, Resized(files[Len(files)].blocks))
<1>0. files \in Seq(FileRecord) /\ rx \in RxRecord
  BY DEF TypeOK
<1>1. ~rx.open => files' = files
  BY DEF RxEot
<1>2. ASSUME rx.open, files # <<>>
      PROVE  LastIs(Len(files) - 1, files[Len(files)].name, Resized(files[Len(files)].blocks))
  <2>1. PICK old \in Blocks : old = files[Len(files)].blocks
    <3>1. Len(files) \in 1 .. Len(files)
      BY <1>0, <1>2
    <3> QED
      BY <1>0, <3>1, FileFields
  <2>2. PICK new \in Blocks : new = Resized(old)
    BY <1>0, ResizedType DEF RxRecord
  <2>3. files' = [files EXCEPT ![Len(files)].blocks = new]
    BY <1>2, <2>1, <2>2 DEF RxEot
  <2> QED
    BY <1>0, <1>2, <2>1, <2>2, <2>3, EditedLast
<1> QED
  BY <1>1, <1>2

\* A file of the announced length stays as it is; so does one whose length is not known.
LEMMA ResizedSame ==
  ASSUME NEW q \in Blocks, rx.size = 0 \/ rx.size = Len(q)
  PROVE  Resized(q) = q
<1>1. DOMAIN q = 1 .. Len(q) /\ Len(q) \in Nat
  BY BlocksAre
<1>2. (IF rx.size > 0 THEN rx.size ELSE Len(q)) = Len(q)
  BY <1>1
<1>3. q = [i \in 1 .. Len(q) |-> q[i]]
  <2>1. \A X : \A s \in Seq(X) : s = [i \in 1 .. Len(s) |-> s[i]]
    OBVIOUS
  <2> QED
    BY <2>1, Zenon DEF Blocks
<1>4. PICK n \in Nat : n = Len(q)
  BY <1>1
<1>5. Resized(q) = [i \in 1 .. n |-> IF i <= n THEN q[i] ELSE Filler]
  BY <1>2, <1>4 DEF Resized
<1>6. [i \in 1 .. n |-> IF i <= n THEN q[i] ELSE Filler] = [i \in 1 .. n |-> q[i]]
  BY <1>4
<1> QED
  BY <1>3, <1>4, <1>5, <1>6

\* The files before the last.
LEMMA PrefixStays ==
  ASSUME Lasting, NEW m \in Nat, \A f \in 1 .. m : files'[f] = files[f]
  PROVE  \A k : (Earlier(k, m)' <=> Earlier(k, m)) /\ (Whole(k, m)' <=> Whole(k, m))
<1>1. Source' = Source /\ \A n : WholeFile(n)' = WholeFile(n)
  BY LastingDoes
<1>2. \A f \in 1 .. m : Of(f)' = Of(f) /\ (BlocksInPlace(f)' <=> BlocksInPlace(f))
  BY DEF Of, BlocksInPlace, Lasting
<1>3. \A k : Earlier(k, m)' <=> Earlier(k, m)
  BY <1>2 DEF Earlier
<1>4. ASSUME NEW k
      PROVE  Whole(k, m)' <=> Whole(k, m)
  BY <1>1, <1>2 DEF Whole
<1> QED
  BY <1>3, <1>4

LEMMA NextEarlier ==
  ASSUME NEW k \in Nat, k > 0, NEW m \in Nat, Earlier(k, m)'
  PROVE  /\ Earlier(k + 1, m)'
         /\ Of(m + 1)' = k /\ BlocksInPlace(m + 1)' => Earlier(k + 1, m + 1)'
<1>1. 1 .. k - 1 \subseteq 1 .. (k + 1) - 1 /\ k \in 1 .. (k + 1) - 1
  OBVIOUS
<1>2. \A f \in 1 .. m + 1 : f \in 1 .. m \/ f = m + 1
  OBVIOUS
<1>3. Earlier(k + 1, m)'
  BY <1>1 DEF Earlier
<1> QED
  BY <1>1, <1>2, <1>3 DEF Earlier

LEMMA NextWhole ==
  ASSUME NEW k \in Nat, k > 0, NEW m \in Nat, Whole(k, m)'
  PROVE  /\ ~(Source'[k] > 0) => Whole(k + 1, m)'
         /\ Of(m + 1)' = k /\ Source'[k] > 0 /\ files'[m + 1].blocks = WholeFile(k)' =>
              Whole(k + 1, m + 1)'
<1>1. /\ 1 .. k - 1 \subseteq 1 .. (k + 1) - 1 /\ k \in 1 .. (k + 1) - 1
      /\ \A n \in 1 .. (k + 1) - 1 : n \in 1 .. k - 1 \/ n = k
      /\ \A n \in 1 .. k - 1 : n < k
      /\ \A f \in 1 .. m + 1 : f \in 1 .. m \/ f = m + 1
      /\ \A f \in 1 .. m : f \in 1 .. m + 1 /\ ~(m + 1 < f)
      /\ ~(m + 1 < m + 1) /\ m + 1 \in 1 .. m + 1
  OBVIOUS
<1>2. /\ \A f \in 1 .. m :
           /\ Of(f)' \in 1 .. k - 1 /\ Source'[Of(f)'] > 0
           /\ files'[f].blocks = WholeFile(Of(f))'
      /\ \A f, g \in 1 .. m : f < g => Of(f)' < Of(g)'
      /\ \A n \in 1 .. k - 1 : Source'[n] > 0 => \E f \in 1 .. m : Of(f)' = n
  BY DEF Whole
<1>3. ASSUME ~(Source'[k] > 0)
      PROVE  Whole(k + 1, m)'
  BY <1>1, <1>2, <1>3 DEF Whole
<1>4. ASSUME Of(m + 1)' = k, Source'[k] > 0, files'[m + 1].blocks = WholeFile(k)'
      PROVE  Whole(k + 1, m + 1)'
  <2>1. \A f \in 1 .. m + 1 :
          /\ Of(f)' \in 1 .. (k + 1) - 1 /\ Source'[Of(f)'] > 0
          /\ files'[f].blocks = WholeFile(Of(f))'
    <3> TAKE f \in 1 .. m + 1
    <3>1. CASE f \in 1 .. m
      BY <1>1, <1>2, <3>1
    <3>2. CASE f = m + 1
      <4>1. WholeFile(Of(f))' = WholeFile(k)'
        BY <1>4, <3>2 DEF WholeFile
      <4> QED
        BY <1>1, <1>4, <3>2, <4>1
    <3> QED
      BY <1>1, <3>1, <3>2
  <2>2. \A f, g \in 1 .. m + 1 : f < g => Of(f)' < Of(g)'
    <3> SUFFICES ASSUME NEW f \in 1 .. m + 1, NEW g \in 1 .. m + 1, f < g
                 PROVE  Of(f)' < Of(g)'
      OBVIOUS
    <3>1. f \in 1 .. m
      BY <1>1
    <3>2. CASE g \in 1 .. m
      BY <1>2, <3>1, <3>2
    <3>3. CASE g = m + 1
      BY <1>1, <1>2, <1>4, <3>1, <3>3
    <3> QED
      BY <1>1, <3>2, <3>3
  <2>3. \A n \in 1 .. (k + 1) - 1 : Source'[n] > 0 => \E f \in 1 .. m + 1 : Of(f)' = n
    <3> SUFFICES ASSUME NEW n \in 1 .. (k + 1) - 1, Source'[n] > 0
                 PROVE  \E f \in 1 .. m + 1 : Of(f)' = n
      OBVIOUS
    <3>1. CASE n = k
      BY <1>1, <1>4, <3>1
    <3>2. CASE n \in 1 .. k - 1
      BY <1>1, <1>2, <3>2
    <3> QED
      BY <1>1, <3>1, <3>2
  <2> QED
    BY <2>1, <2>2, <2>3 DEF Whole
<1> QED
  BY <1>3, <1>4

-----------------------------------------------------------------------------
(* Blocks arrive *)

LEMMA ModSmall ==
  ASSUME NEW n \in Nat, n > 0, NEW k \in Nat, k < n
  PROVE  k % n = k
<1>1. k \in 0 .. n - 1 /\ k = n * 0 + k /\ 0 \in Nat
  OBVIOUS
<1> QED
  BY <1>1, ModIs

\* The packet that the sender has put on the line.
LEMMA SentBlock ==
  ASSUME Known, Quiet, OneAnswer, Active, tx.pc = "ack",
         NEW k \in Nat, k = tx.file, NEW t \in Nat, t = tx.block
  PROVE  /\ Has(k, t) \/ Has(k, t - 1)
         /\ k \in 1 .. Len(Source) /\ k > 0 /\ t > 0 /\ t <= Source[k] /\ Source[k] \in Nat
         /\ Current.no = t % Numbers /\ Current.name = k /\ Current.block = t
         /\ ~tx.batch => k = 1 /\ t < Numbers
<1>1. Token /\ At /\ InSession
  BY OneAnswerActive
<1>2. Has(k, t) \/ Has(k, t - 1)
  BY <1>1 DEF At, Stage
<1>3. SenderKnown /\ TypeOK /\ tx \in TxRecord
  BY LinesTyped DEF Known
<1>4. t > 0 /\ tx.packetno = t % Numbers
  BY <1>3 DEF SenderKnown, Sending
<1>5. k \in 1 .. Len(Source) + 1 /\ k <= Len(Source) /\ tx.size = Source[k] /\ t <= tx.size
  BY <1>1 DEF InSession
<1>6. Len(Source) \in Nat /\ DOMAIN Source = 1 .. Len(Source)
  BY <1>3, SourceType
<1>7. k \in 1 .. Len(Source) /\ k > 0
  BY <1>5, <1>6
<1>8. Source[k] \in Nat
  BY <1>3, <1>6, <1>7, SourceType
<1>9. Current.no = t % Numbers /\ Current.name = k /\ Current.block = t
  BY <1>3, <1>4, PacketIs DEF Current
<1>10. ASSUME ~tx.batch
       PROVE  k = 1 /\ t < Numbers
  <2>1. k = 1
    BY <1>3, <1>10 DEF SenderKnown
  <2>2. tx.size < Numbers
    BY <1>10 DEF Quiet
  <2>3. \A a, b, c \in Nat : a <= b /\ b < c => a < c
    OBVIOUS
  <2>4. tx.size \in Nat /\ Numbers \in Nat
    BY <1>3, Constants DEF TxRecord
  <2> QED
    BY <1>5, <2>1, <2>2, <2>3, <2>4
<1> QED
  BY <1>2, <1>4, <1>5, <1>7, <1>8, <1>9, <1>10

LEMMA ExpectedNumber ==
  ASSUME Known, NEW k, NEW j \in Nat, Has(k, j)
  PROVE  /\ j + 1 < Numbers => rx.packetno = j + 1
         /\ j + 1 = Numbers => rx.packetno = 0
         /\ j >= Numbers => rx.packetno = 0
<1>1. Numbers \in Nat /\ Numbers > 3
  BY Constants
<1>2. rx.packetno = IF j < Numbers THEN (j + 1) % Numbers ELSE 0
  BY DEF Has
<1>3. ASSUME j + 1 < Numbers
      PROVE  rx.packetno = j + 1
  <2>1. (j + 1) % Numbers = j + 1
    BY <1>1, <1>3, ModSmall
  <2> QED
    BY <1>1, <1>2, <1>3, <2>1
<1>4. ASSUME j + 1 = Numbers
      PROVE  rx.packetno = 0
  <2>1. Numbers % Numbers = 0
    <3>1. PICK n \in Nat : n = Numbers /\ n > 0
      BY <1>1
    <3>2. n = n * 1 + 0 /\ 0 \in 0 .. n - 1
      BY <3>1
    <3>3. n % n = 0
      BY <3>1, <3>2, ModIs
    <3> QED
      BY <3>1, <3>3
  <2>2. j < Numbers
    BY <1>4, <1>1
  <2> QED
    BY <1>2, <1>4, <2>1, <2>2
<1>5. j >= Numbers => rx.packetno = 0
  BY <1>1, <1>2
<1> QED
  BY <1>3, <1>4, <1>5

\* Its number says whether it is the next one, the one before, or a header.
LEMMA TakenNumber ==
  ASSUME Known, Quiet, OneAnswer, Active, tx.pc = "ack", Accepts(Current),
         NEW k \in Nat, k = tx.file, NEW t \in Nat, t = tx.block
  PROVE  /\ Current.no = 0 => t >= Numbers /\ tx.batch
         /\ Current.no # 0 /\ Current.no = rx.packetno =>
              Has(k, t - 1) /\ t < Numbers /\ rx.packetno = t
         /\ Current.no # 0 /\ Current.no # rx.packetno => Has(k, t)
<1>1. Numbers \in Nat /\ Numbers > 3
  BY Constants
<1>2. /\ Has(k, t) \/ Has(k, t - 1)
      /\ t > 0 /\ Current.no = t % Numbers /\ (~tx.batch => t < Numbers)
  BY SentBlock
<1>3. Current.no = rx.packetno \/ Current.no = rx.packetno - 1
  BY DEF Accepts
<1>4. t < Numbers => Current.no = t
  BY <1>1, <1>2, ModSmall
<1>5. t % Numbers \in 0 .. Numbers - 1
  BY <1>1, DivMod
<1>6. PICK c \in Nat, r \in Int : c = Current.no /\ r = rx.packetno
  BY <1>2, <1>5, LinesTyped DEF RxRecord
<1>7. c = r \/ c = r - 1
  BY <1>3, <1>6
<1>8. t < Numbers => c = t
  BY <1>4, <1>6
<1>9. c = 0 => t >= Numbers /\ tx.batch
  BY <1>1, <1>2, <1>8
<1>10. ASSUME Has(k, t)
       PROVE  c # 0 => c # r
  <2>1. /\ t + 1 < Numbers => r = t + 1
        /\ t + 1 = Numbers => r = 0
        /\ t >= Numbers => r = 0
    BY <1>6, <1>10, ExpectedNumber
  <2> QED
    BY <1>1, <1>8, <2>1
<1>11. ASSUME Has(k, t - 1)
       PROVE  c # 0 => c = r /\ t < Numbers /\ r = t
  <2>1. t - 1 \in Nat
    BY <1>2
  <2>2. /\ t < Numbers => r = t
        /\ t = Numbers => r = 0
        /\ t > Numbers => r = 0
    <3>1. PICK j \in Nat : j = t - 1 /\ j + 1 = t
      BY <2>1
    <3>2. /\ j + 1 < Numbers => r = j + 1
          /\ j + 1 = Numbers => r = 0
          /\ j >= Numbers => r = 0
      BY <1>6, <1>11, <3>1, ExpectedNumber
    <3> QED
      BY <1>1, <3>1, <3>2
  <2> QED
    BY <1>1, <1>7, <1>8, <2>2
<1> QED
  BY <1>2, <1>6, <1>9, <1>10, <1>11

\* The receiver took what was on the line and acknowledged; the sender has not moved.
LEMMA RxAcknowledges ==
  ASSUME Known, Known', Lasting, OneAnswer, Active, down # <<>>, down' = Tail(down), tx' = tx,
         rx'.pc = "try", rx'.retry <= 1, tx.batch => rx'.trychar # "NAK",
         ~tx.batch => rx'.trychar = "none",
         \E x \in ByteItems : x.kind \in {"ACK", "NAK"} /\ up' = Push(up, <<x>>),
         Placed', At'
  PROVE  OneAnswer'
<1>1. Token'
  BY TokenTaken
<1>2. InSession /\ ~Left /\ ~LeftOk
  BY OneAnswerActive
<1>3. InSession' /\ ~Left' /\ ~LeftOk'
  BY <1>2, SenderStays
<1>4. ~RxDone'
  BY DEF RxDone, Ends
<1> QED
  BY <1>1, <1>3, <1>4 DEF OneAnswer

LEMMA OneTryLess ==
  ASSUME rx \in RxRecord
  PROVE  \E r \in RxRecord :
           r = [Started EXCEPT !.retrans = @ - 1] /\ r.retrans = Started.retrans - 1
           /\ r.trychar = "none"
<1>1. PICK s \in RxRecord : s = Started /\ s.trychar = "none"
  BY StartedOp
<1>2. PICK n \in Int : n = s.retrans - 1
  BY DEF RxRecord
<1>3. PICK r : r = [s EXCEPT !.retrans = n]
  OBVIOUS
<1>4. r \in RxRecord /\ r.retrans = n /\ r.trychar = s.trychar
  BY <1>3 DEF RxRecord
<1> QED
  BY <1>1, <1>2, <1>3, <1>4

LEMMA DuplicateAnswered ==
  ASSUME Known, Known', Quiet', Lasting, OneAnswer, Active, RxDuplicate
  PROVE  OneAnswer'
<1>1. /\ Accepts(Head(down)) /\ ~IsNew(Head(down)) /\ Head(down).no # 0 /\ Arrives("packet")
      /\ UNCHANGED <<files, trouble>> /\ SameFile(rx, rx')
      /\ RxDone' \/ (rx'.pc = "try" /\ up' = Push(up, <<Byte("ACK")>>))
  BY DuplicateDoes DEF Known
<1>2. /\ down # <<>> /\ down' = Tail(down) /\ tx' = tx /\ Head(down).kind = "packet"
      /\ Head(down).ok
  BY <1>1 DEF RxDuplicate, Keep, Arrives, Accepts
<1>3. Quiet
  BY LastingDoes
<1>4. /\ Head(down) \in Items /\ Awaited(Head(down)) /\ ~HasAck(up)
  BY <1>2, Arrived
<1>5. ~(tx.pc = "header ack" /\ Head(down) = Header)
  BY <1>1, HeaderIs, LinesTyped
<1>6. tx.pc = "ack" /\ Head(down) = Current
  BY <1>2, <1>4, <1>5, AwaitedIs
<1>7. PICK k \in Nat, t \in Nat : k = tx.file /\ t = tx.block
  BY LinesTyped DEF TxRecord
<1>8. Has(k, t)
  BY <1>1, <1>3, <1>6, <1>7, TakenNumber DEF IsNew
<1>9. Has(k, t)'
  BY <1>1, <1>8, PlacesStay
<1>10. At'
  BY <1>2, <1>6, <1>7, <1>9 DEF At, Stage
<1>11. Placed'
  BY <1>1, FilesStay, OneAnswerActive
<1>12. CASE Started.retrans - 1 <= 0
  <2>1. PICK r \in RxRecord : r = [Started EXCEPT !.retrans = @ - 1]
                             /\ r.retrans = Started.retrans - 1 /\ r.trychar = "none"
    BY OneTryLess, LinesTyped
  <2>2. rx' = Flush(r, Cans, "failed") /\ up' = up
    BY <1>12, <2>1 DEF RxDuplicate
  <2>3. "failed" \in RxNexts /\ Cans \in Seq(ByteItems)
    BY BytesAreItems DEF RxNexts, Ends
  <2>4. rx'.pc = "flush" /\ rx'.next = "failed" /\ rx'.say = Cans
    BY <2>1, <2>2, <2>3, FlushesTo
  <2>5. RxDone' /\ Result' # "ok"
    BY <2>4 DEF RxDone, Result, Ends
  <2>6. ~HasAck(up)'
    BY <1>4, <2>2, UpStays
  <2> QED
    BY <1>2, <1>11, <2>4, <2>5, <2>6, RxGivesUp
<1>13. CASE ~(Started.retrans - 1 <= 0)
  <2>1. PICK r \in RxRecord : r = [Started EXCEPT !.retrans = @ - 1]
                             /\ r.retrans = Started.retrans - 1 /\ r.trychar = "none"
    BY OneTryLess, LinesTyped
  <2>2. rx' = Again(r) /\ up' = Push(up, <<Byte("ACK")>>)
    BY <1>13, <2>1 DEF RxDuplicate, Say
  <2>4. rx'.pc = "try" /\ rx'.retry = 0 /\ rx'.trychar = "none"
    BY <2>1, <2>2, RxOps, ReceiverOps
  <2>5. rx'.retry <= 1
    <3>1. \A n : n = 0 => n <= 1
      OBVIOUS
    <3> QED
      BY <2>4, <3>1, Zenon
  <2>6. \E x \in ByteItems : x.kind \in {"ACK", "NAK"} /\ up' = Push(up, <<x>>)
    BY <2>2, BytesAreItems
  <2> QED
    BY <1>2, <1>10, <1>11, <2>4, <2>5, <2>6, RxAcknowledges
<1> QED
  BY <1>12, <1>13

-----------------------------------------------------------------------------
(* The next block *)

LEMMA OrderGrows ==
  ASSUME NEW k, NEW t \in Nat, NEW q \in Blocks, \A i \in DOMAIN q : q[i] = <<k, i>>,
         NEW bs \in Blocks, bs = <<>> \/ (bs = << <<k, t>> >> /\ Len(q) = t - 1)
  PROVE  \A i \in DOMAIN (q \o bs) : (q \o bs)[i] = <<k, i>>
<1>1. /\ DOMAIN q = 1 .. Len(q) /\ Len(q) \in Nat
      /\ DOMAIN (q \o bs) = 1 .. (Len(q) + Len(bs))
      /\ \A i \in 1 .. Len(q) : (q \o bs)[i] = q[i]
      /\ \A i \in 1 .. Len(bs) : (q \o bs)[Len(q) + i] = bs[i]
  BY BlocksAre
<1>2. PICK n \in Nat : n = Len(q)
  BY <1>1
<1>3. CASE bs = <<>>
  <2>1. Len(bs) = 0
    BY <1>3
  <2>2. DOMAIN (q \o bs) = 1 .. n
    BY <1>1, <1>2, <2>1
  <2> QED
    BY <1>1, <1>2, <2>2
<1>4. CASE bs = << <<k, t>> >> /\ n = t - 1
  <2>1. Len(bs) = 1 /\ bs[1] = <<k, t>>
    BY <1>4
  <2>2. DOMAIN (q \o bs) = 1 .. (n + 1)
    BY <1>1, <1>2, <2>1
  <2>3. (q \o bs)[n + 1] = <<k, t>> /\ n + 1 = t
    BY <1>1, <1>2, <1>4, <2>1
  <2>4. \A i \in 1 .. n : (q \o bs)[i] = <<k, i>>
    BY <1>1, <1>2
  <2>5. \A i \in 1 .. (n + 1) : i \in 1 .. n \/ i = n + 1
    OBVIOUS
  <2> QED
    BY <2>2, <2>3, <2>4, <2>5
<1> QED
  BY <1>2, <1>3, <1>4

LEMMA WithinMade ==
  ASSUME Lasting, NEW m, NEW name, NEW q, LastIs(m, name, q), NEW k, NEW t \in Nat,
         Earlier(k, m), Exact => Whole(k, m), rx'.open, IF tx.batch THEN name = k ELSE k = 1,
         \A i \in DOMAIN q : q[i] = <<k, i>>,
         "full" \notin trouble' => Len(q) = IF t < Numbers THEN t ELSE Numbers - 1
  PROVE  FilesWithin(k, t)'
<1>1. /\ Len(files') = m + 1 /\ m \in Nat /\ \A f \in 1 .. m : files'[f] = files[f]
      /\ files'[m + 1].name = name /\ files'[m + 1].blocks = q
  BY DEF LastIs
<1>2. Earlier(k, m)' /\ (Exact' => Whole(k, m)')
  BY <1>1, PrefixStays, LastingDoes
<1>3. Len(files') - 1 = m
  BY <1>1
<1>4. PICK n : n = Len(files') /\ n = m + 1
  BY <1>1
<1>5. Of(Len(files))' = k
  BY <1>1, <1>4 DEF Of, Lasting
<1>6. (Earlier(k, Len(files) - 1))'
  BY <1>2, <1>3 DEF Earlier
<1>7. Exact' => (Whole(k, Len(files) - 1))'
  BY <1>2, <1>3 DEF Whole
<1>8. files' # <<>>
  <2>1. Len(<<>>) = 0
    OBVIOUS
  <2>2. m + 1 # 0
    BY <1>1
  <2> QED
    BY <1>1, <2>1, <2>2
<1>9. files'[Len(files')].blocks = q
  BY <1>1, <1>4
<1> QED
  BY <1>5, <1>6, <1>7, <1>8, <1>9 DEF FilesWithin

LEMMA LastInPlace ==
  ASSUME Lasting, Placed, NEW m, NEW name, NEW q, LastIs(m, name, q), files \in Seq(FileRecord),
         files' \in Seq(FileRecord), NEW k \in DOMAIN Source,
         IF tx.batch THEN name = k ELSE k = 1,
         \A i \in DOMAIN q : q[i] \in {<<k, i>>, Filler}
  PROVE  Placed'
<1>1. /\ Len(files') = m + 1 /\ m \in Nat /\ \A f \in 1 .. m : files'[f] = files[f]
      /\ files'[m + 1].name = name /\ files'[m + 1].blocks = q /\ m <= Len(files)
  BY DEF LastIs
<1>2. Source' = Source
  BY LastingDoes
<1>3. DOMAIN files' = 1 .. m + 1 /\ DOMAIN files = 1 .. Len(files) /\ Len(files) \in Nat
  BY <1>1
<1>4. \A f \in 1 .. m : Of(f)' \in DOMAIN Source' /\ BlocksInPlace(f)'
  <2> TAKE f \in 1 .. m
  <2>1. f \in DOMAIN files /\ files'[f] = files[f]
    BY <1>1, <1>3
  <2>2. Of(f) \in DOMAIN Source /\ BlocksInPlace(f)
    BY <2>1 DEF Placed
  <2> QED
    BY <1>2, <2>1, <2>2 DEF Of, BlocksInPlace, Lasting
<1>5. Of(m + 1)' = k /\ BlocksInPlace(m + 1)'
  BY <1>1 DEF Of, BlocksInPlace, Lasting
<1>6. \A f \in 1 .. m + 1 : f \in 1 .. m \/ f = m + 1
  BY <1>1
<1> QED
  BY <1>2, <1>3, <1>4, <1>5, <1>6 DEF Placed

LEMMA FilesHave ==
  ASSUME Known
  PROVE  /\ files \in Seq(FileRecord) /\ Len(files) \in Nat /\ DOMAIN files = 1 .. Len(files)
         /\ files # <<>> => /\ files[Len(files)].blocks \in Blocks
                            /\ files[Len(files)].name \in Nat
                            /\ Len(files) - 1 \in Nat /\ Len(files) \in DOMAIN files
<1>1. files \in Seq(FileRecord)
  BY DEF Known, TypeOK
<1>2. files # <<>> => Len(files) \in 1 .. Len(files) /\ Len(files) - 1 \in Nat
  BY <1>1
<1>3. files # <<>> => files[Len(files)].blocks \in Blocks /\ files[Len(files)].name \in Nat
  BY <1>1, <1>2, FileFields
<1> QED
  BY <1>1, <1>2, <1>3

\* What is written is the next block, or nothing when the card is full.
LEMMA BlockWritten ==
  ASSUME Known, Quiet, Lasting, OneAnswer, Active, tx.pc = "ack", files' \in Seq(FileRecord),
         NEW k \in Nat, k = tx.file, NEW t \in Nat, t = tx.block, t < Numbers, rx.packetno = t,
         Has(k, t - 1), NEW bs \in Blocks, files' = WithBlocks(bs),
         bs = <<>> \/ bs = << <<k, t>> >>,
         "full" \in trouble => bs = <<>>
  PROVE  /\ Placed'
         /\ rx'.open /\ ("full" \notin trouble' => bs = << <<k, t>> >>) => FilesWithin(k, t)'
<1>1. /\ k \in 1 .. Len(Source) /\ k > 0 /\ t > 0 /\ (~tx.batch => k = 1)
      /\ DOMAIN Source = 1 .. Len(Source)
  BY SentBlock, SourceType DEF Known
<1>2. t - 1 \in Nat /\ t - 1 < Numbers
  BY <1>1, Constants
<1>3. /\ rx.name = (IF tx.batch THEN k ELSE 0) /\ FilesAt(k, t - 1)
  BY DEF Has
<1>4. "full" \notin trouble' => "full" \notin trouble
  BY DEF Lasting
<1>5. bs # <<>> => bs = << <<k, t>> >> /\ Len(bs) = 1 /\ bs[1] = <<k, t>>
  OBVIOUS
<1>6. CASE t = 1
  <2>1. FilesBefore(k)
    BY <1>3, <1>6 DEF FilesAt
  <2>2. LastIs(Len(files), rx.name, bs)
    BY <1>6, LastWritten DEF Known
  <2>3. IF tx.batch THEN rx.name = k ELSE k = 1
    BY <1>1, <1>3
  <2>4. \A i \in DOMAIN bs : bs[i] = <<k, i>>
    <3>1. CASE bs = <<>>
      BY <3>1
    <3>2. CASE bs # <<>>
      <4>1. DOMAIN bs = 1 .. 1
        BY <1>5, <3>2
      <4> QED
        BY <1>5, <1>6, <3>2, <4>1
    <3> QED
      BY <3>1, <3>2
  <2>5. Placed'
    BY <1>1, <2>2, <2>3, <2>4, LastInPlace, FilesHave, OneAnswerActive
  <2>6. ASSUME rx'.open, "full" \notin trouble' => bs = << <<k, t>> >>
        PROVE  FilesWithin(k, t)'
    <3>1. "full" \notin trouble' => Len(bs) = IF t < Numbers THEN t ELSE Numbers - 1
      BY <1>5, <1>6, <2>6
    <3>2. Earlier(k, Len(files)) /\ (Exact => Whole(k, Len(files)))
      BY <2>1 DEF FilesBefore
    <3> QED
      BY <2>2, <2>3, <2>4, <2>6, <3>1, <3>2, WithinMade
  <2> QED
    BY <2>5, <2>6
<1>7. CASE t # 1
  <2>1. FilesWithin(k, t - 1)
    BY <1>1, <1>3, <1>7 DEF FilesAt
  <2>2. /\ files # <<>> /\ Of(Len(files)) = k
        /\ Earlier(k, Len(files) - 1) /\ (Exact => Whole(k, Len(files) - 1))
        /\ \A i \in DOMAIN files[Len(files)].blocks : files[Len(files)].blocks[i] = <<k, i>>
        /\ "full" \notin trouble => Len(files[Len(files)].blocks) = t - 1
    BY <1>2, <2>1 DEF FilesWithin
  <2>3. PICK q \in Blocks, name, m \in Nat :
          q = files[Len(files)].blocks /\ name = files[Len(files)].name /\ m = Len(files) - 1
    BY <2>2, FilesHave
  <2>30. PICK new : new = q \o bs
    OBVIOUS
  <2>4. LastIs(m, name, new)
    BY <1>7, <2>30, <2>2, <2>3, LastWritten DEF Known
  <2>5. IF tx.batch THEN name = k ELSE k = 1
    BY <1>1, <2>2, <2>3 DEF Of
  <2>6. bs = <<>> \/ (bs = << <<k, t>> >> /\ Len(q) = t - 1)
    BY <2>2, <2>3
  <2>7. \A i \in DOMAIN new : new[i] = <<k, i>>
    <3>1. \A i \in DOMAIN q : q[i] = <<k, i>>
      BY <2>2, <2>3
    <3> QED
      BY <2>6, <2>30, <3>1, OrderGrows
  <2>8. Placed'
    <3>1. \A i \in DOMAIN new : new[i] \in {<<k, i>>, Filler}
      BY <2>7
    <3>2. k \in DOMAIN Source /\ files \in Seq(FileRecord) /\ Placed
      BY <1>1, FilesHave, OneAnswerActive
    <3> QED
      BY <2>4, <2>5, <3>1, <3>2, LastInPlace
  <2>9. ASSUME rx'.open, "full" \notin trouble' => bs = << <<k, t>> >>
        PROVE  FilesWithin(k, t)'
    <3>1. "full" \notin trouble' => Len(new) = IF t < Numbers THEN t ELSE Numbers - 1
      <4> SUFFICES ASSUME "full" \notin trouble'
                   PROVE  Len(new) = t
        OBVIOUS
      <4>1. Len(bs) = 1
        BY <1>5, <2>9
      <4>2. Len(q) = t - 1
        BY <1>4, <2>2, <2>3
      <4>3. Len(q \o bs) = Len(q) + Len(bs)
        BY BlocksAre
      <4>4. Len(new) = Len(q) + Len(bs)
        BY <4>3, <2>30
      <4> QED
        BY <1>1, <4>1, <4>2, <4>4
    <3>2. Earlier(k, m) /\ (Exact => Whole(k, m))
      BY <2>2, <2>3
    <3>3. rx'.open
      BY <2>9
    <3> QED
      BY <2>4, <2>5, <2>7, <3>1, <3>2, <3>3, WithinMade
  <2> QED
    BY <2>8, <2>9
<1> QED
  BY <1>6, <1>7

LEMMA HeadSent ==
  ASSUME Known, OneAnswer, Active, Arrives("packet"), Accepts(Head(down))
  PROVE  /\ down # <<>> /\ down' = Tail(down) /\ ~HasAck(up) /\ ~AnswersIn(up)
         /\ \/ tx.pc = "ack" /\ Head(down) = Current
            \/ tx.pc = "header ack" /\ Head(down) = Header
<1>1. /\ down # <<>> /\ down' = Tail(down) /\ Head(down).kind = "packet" /\ Head(down).ok
  BY DEF Arrives, Accepts
<1>2. Head(down) \in Items /\ Awaited(Head(down)) /\ ~HasAck(up) /\ ~AnswersIn(up)
  BY <1>1, Arrived
<1> QED
  BY <1>1, <1>2, AwaitedIs

\* A block with the expected number is the next one.
LEMMA NewBlock ==
  ASSUME Known, Quiet, OneAnswer, Active, Arrives("packet"), IsNew(Head(down)),
         NEW k \in Nat, k = tx.file, NEW t \in Nat, t = tx.block
  PROVE  /\ tx.pc = "ack" /\ Head(down) = Current /\ Has(k, t - 1) /\ t < Numbers /\ t > 0
         /\ rx.packetno = t /\ Head(down).name = k /\ Head(down).block = t
         /\ k \in 1 .. Len(Source)
<1>1. Accepts(Head(down)) /\ Head(down).no # 0 /\ Head(down).no = rx.packetno
  BY DEF IsNew
<1>2. tx.pc = "ack" /\ Head(down) = Current
  BY <1>1, HeadSent, HeaderIs, LinesTyped
<1>3. Has(k, t - 1) /\ t < Numbers /\ rx.packetno = t
  BY <1>1, <1>2, TakenNumber
<1>4. t > 0 /\ Current.name = k /\ Current.block = t /\ k \in 1 .. Len(Source)
  BY <1>2, SentBlock
<1> QED
  BY <1>2, <1>3, <1>4

LEMMA DataAnswered ==
  ASSUME Known, Known', Quiet', Lasting, OneAnswer, Active, RxData
  PROVE  OneAnswer'
<1>1. /\ UNCHANGED trouble /\ IsNew(Head(down)) /\ Arrives("packet")
      /\ rx'.packetno = Following(rx.packetno) /\ rx'.ymodem = rx.ymodem
      /\ rx'.name = rx.name /\ rx'.size = rx.size /\ rx'.open /\ rx'.pc = "try"
      /\ files' \in Seq(FileRecord) /\ files' = WithBlocks(Written(Head(down)))
      /\ up' = Push(up, <<Byte("ACK")>>)
  BY DataDoes DEF Known
<1>2. Quiet /\ Source' = Source /\ (Exact' => Exact)
  BY LastingDoes
<1>3. PICK k \in Nat, t \in Nat : k = tx.file /\ t = tx.block
  BY LinesTyped DEF TxRecord
<1>4. /\ tx.pc = "ack" /\ Has(k, t - 1) /\ t < Numbers /\ t > 0
      /\ rx.packetno = t /\ Head(down).name = k /\ Head(down).block = t
  BY <1>1, <1>2, <1>3, NewBlock
<1>5. tx' = tx /\ down # <<>> /\ down' = Tail(down) /\ tx'.batch = tx.batch
  BY <1>1 DEF RxData, Keep, Arrives
<1>6. PICK bs \in Blocks : bs = IF "full" \in trouble THEN <<>> ELSE << <<k, t>> >>
  <2>1. \A X : <<>> \in Seq(X)
    OBVIOUS
  <2>2. <<k, t>> \in Nat \X Nat
    OBVIOUS
  <2>3. << <<k, t>> >> \in Seq(Nat \X Nat)
    BY <2>2, OneItem
  <2> QED
    BY <2>1, <2>3 DEF Blocks
<1>7. files' = WithBlocks(bs)
  BY <1>1, <1>4, <1>6 DEF Written
<1>8. Placed' /\ FilesWithin(k, t)'
  BY <1>1, <1>2, <1>3, <1>4, <1>6, <1>7, BlockWritten
<1>9. Has(k, t)'
  <2>1. t # 0 /\ rx'.packetno = (t + 1) % Numbers
    BY <1>1, <1>4 DEF Following
  <2>2. FilesAt(k, t)'
    BY <1>8, <2>1 DEF FilesAt
  <2>3. Exact' => rx'.size = 0 \/ (tx'.batch /\ rx'.size = Source'[k])
    BY <1>1, <1>2, <1>4, <1>5 DEF Has
  <2>4. /\ rx'.ymodem = (IF tx'.batch THEN 1 ELSE 0) /\ rx'.name = (IF tx'.batch THEN k ELSE 0)
    BY <1>1, <1>4, <1>5 DEF Has
  <2> QED
    BY <1>4, <2>1, <2>2, <2>3, <2>4 DEF Has
<1>10. At'
  BY <1>3, <1>4, <1>5, <1>9 DEF At, Stage
<1>11. /\ rx'.retry = 0 /\ rx'.trychar = "none"
  <2>1. PICK s \in RxRecord : s = Started /\ s.trychar = "none"
    BY StartedOp, LinesTyped
  <2>2. PICK r : r = [s EXCEPT !.open = TRUE, !.retrans = MaxRetrans,
                               !.packetno = Following(rx.packetno)]
    OBVIOUS
  <2>3. r.trychar = "none" /\ rx' = Again(r)
    BY <2>1, <2>2 DEF RxData, RxRecord
  <2>4. rx'.retry = 0 /\ rx'.trychar = r.trychar
    BY <2>1, <2>2, <2>3 DEF Again, RxRecord
  <2> QED
    BY <2>3, <2>4
<1>12. rx'.retry <= 1
  <2>1. \A n : n = 0 => n <= 1
    OBVIOUS
  <2> QED
    BY <1>11, <2>1, Zenon
<1>13. \E x \in ByteItems : x.kind \in {"ACK", "NAK"} /\ up' = Push(up, <<x>>)
  BY <1>1, BytesAreItems
<1> QED
  BY <1>1, <1>5, <1>8, <1>10, <1>11, <1>12, <1>13, RxAcknowledges

LEMMA CardErrorAnswered ==
  ASSUME Known, Known', Quiet', Lasting, OneAnswer, Active, RxCardError
  PROVE  OneAnswer'
<1>1. /\ RxDone' /\ Arrives("packet") /\ IsNew(Head(down))
      /\ files' \in Seq(FileRecord) /\ files' \in {files, WithBlocks(<<>>)}
  BY CardErrorDoes DEF Known
<1>2. Quiet
  BY LastingDoes
<1>3. PICK k \in Nat, t \in Nat : k = tx.file /\ t = tx.block
  BY LinesTyped DEF TxRecord
<1>4. /\ tx.pc = "ack" /\ Has(k, t - 1) /\ t < Numbers /\ rx.packetno = t
  BY <1>1, <1>2, <1>3, NewBlock
<1>5. Accepts(Head(down)) /\ tx' = tx /\ up' = up /\ rx' = Flush(Started, Cans, "card")
  BY <1>1 DEF RxCardError, IsNew
<1>6. ~HasAck(up)'
  BY <1>1, <1>5, HeadSent, UpStays
<1>7. Placed'
  <2>1. CASE files' = files
    BY <2>1, FilesStay, OneAnswerActive
  <2>2. CASE files' = WithBlocks(<<>>)
    <3>1. PICK bs \in Blocks : bs = <<>>
      <4>1. \A X : <<>> \in Seq(X)
        OBVIOUS
      <4> QED
        BY <4>1 DEF Blocks
    <3> QED
      BY <1>1, <1>2, <1>3, <1>4, <2>2, <3>1, BlockWritten
  <2> QED
    BY <1>1, <2>1, <2>2
<1>8. rx'.pc = "flush" /\ rx'.next = "card" /\ rx'.say = Cans
  <2>1. "card" \in RxNexts /\ Cans \in Seq(ByteItems)
    BY BytesAreItems DEF RxNexts, Ends
  <2>2. Started \in RxRecord
    BY StartedOp, LinesTyped
  <2> QED
    BY <1>5, <2>1, <2>2, FlushesTo
<1>9. Result' # "ok"
  BY <1>8 DEF Result
<1> QED
  BY <1>1, <1>5, <1>6, <1>7, <1>8, <1>9, RxGivesUp

LEMMA SessionEndAnswered ==
  ASSUME Known, Known', Quiet', Lasting, OneAnswer, Active, RxSessionEnd
  PROVE  OneAnswer'
<1>1. RxDone' /\ UNCHANGED files
  BY SessionEndDoes DEF Known
<1>2. /\ Arrives("packet") /\ Accepts(Head(down)) /\ Head(down).no = 0 /\ Head(down).blank
      /\ rx' = Flush(Started, <<Byte("ACK")>>, "ok") /\ tx' = tx /\ up' = up
  BY DEF RxSessionEnd, Keep
<1>3. Quiet /\ Source' = Source /\ (Exact' => Exact)
  BY LastingDoes
<1>4. PICK k \in Nat, t \in Nat : k = tx.file /\ t = tx.block
  BY LinesTyped DEF TxRecord
<1>5. rx'.pc = "flush" /\ rx'.next = "ok" /\ rx'.say = <<Byte("ACK")>>
  <2>1. "ok" \in RxNexts /\ <<Byte("ACK")>> \in Seq(ByteItems)
    BY Answer DEF RxNexts, Ends
  <2>2. Started \in RxRecord
    BY StartedOp, LinesTyped
  <2> QED
    BY <1>2, <2>1, <2>2, FlushesTo
<1>6. Placed'
  BY <1>1, FilesStay, OneAnswerActive
<1>7. ASSUME Exact
      PROVE  NoMore'
  <2>1. CASE tx.pc = "ack" /\ Head(down) = Current
    <3>1. t >= Numbers
      BY <1>2, <1>3, <1>4, <2>1, TakenNumber
    <3>2. k \in 1 .. Len(Source) /\ t <= Source[k] /\ Source[k] \in Nat
      BY <1>3, <1>4, <2>1, SentBlock
    <3>3. Source[k] < Numbers
      BY <1>7, <3>2, SourceType DEF Exact, Deliverable, Known
    <3> QED
      BY <3>1, <3>2, <3>3, Constants
  <2>2. CASE tx.pc = "header ack" /\ Head(down) = Header
    <3>1. tx.file \notin DOMAIN Sizes /\ tx.batch
      BY <1>2, <2>2, HeaderIs, LinesTyped DEF Known, SenderKnown
    <3>2. At /\ InSession
      BY OneAnswerActive
    <3>3. k \in 1 .. Len(Source) + 1 /\ k \notin 1 .. Len(Source) /\ Len(Source) \in Nat
      BY <1>4, <3>1, <3>2, SourceType DEF InSession, Known
    <3>4. k = Len(Source) + 1 /\ k > Len(Source) /\ ~(k <= Len(Source))
      BY <3>3
    <3>5. Expects(k)
      BY <1>4, <2>2, <3>2, <3>4 DEF At, Stage
    <3>6. Whole(k, Len(files))
      BY <1>7, <3>5 DEF Expects, FilesBefore
    <3>7. AllWhole
      BY <3>4, <3>6 DEF AllWhole
    <3>8. AllWhole'
      BY <1>1, <3>7, FilesStay
    <3> QED
      BY <1>2, <1>3, <1>4, <2>2, <3>4, <3>8 DEF NoMore
  <2> QED
    BY <1>2, <2>1, <2>2, HeadSent
<1>8. Result' = "ok"
  BY <1>5 DEF Result
<1> QED
  BY <1>1, <1>2, <1>3, <1>5, <1>6, <1>7, <1>8, RxEndsWell

-----------------------------------------------------------------------------
(* A header, or what looks like one *)

LEMMA SmallInt ==
  ASSUME NEW n \in Nat, n < IntHalf
  PROVE  Int16(n) = n
<1>1. IntHalf \in Nat /\ IntHalf > 0
  BY Constants
<1>2. PICK h \in Nat : h = IntHalf /\ h > 0 /\ n < h
  BY <1>1
<1>3. PICK d \in Nat, c \in Nat : d = 2 * h /\ c = n + h /\ d > 0 /\ c < d
  BY <1>2
<1>4. c % d = c
  BY <1>3, ModSmall
<1>5. Int16(n) = (c % d) - h
  BY <1>2, <1>3 DEF Int16
<1> QED
  BY <1>2, <1>3, <1>4, <1>5

LEMMA FirstNumber ==
  /\ Numbers \in Nat /\ 0 < Numbers /\ (0 + 1) % Numbers = 1
<1>1. Numbers \in Nat /\ Numbers > 3
  BY Constants
<1>2. PICK n \in Nat : n = Numbers /\ n > 0 /\ 1 < n
  BY <1>1
<1>3. 1 % n = 1
  BY <1>2, ModSmall
<1>4. (0 + 1) % n = 1
  BY <1>3
<1> QED
  BY <1>2, <1>4

\* The length that the receiver has after the header of file k.
LEMMA SizeRead ==
  ASSUME Known, tx.batch, NEW k, k = tx.file, k \in DOMAIN Sizes, Exact,
         NEW size \in HeaderSizes(Header),
         (Expects(k) \/ Has(k, 0))
  PROVE  size = 0 \/ size = Source[k]
<1>1. Header.block = 0 /\ Header.name = k
  BY HeaderIs, LinesTyped
<1>2. Deliverable /\ Source = Sizes /\ DOMAIN Source = 1 .. Len(Source)
      /\ \A n \in DOMAIN Source : Source[n] \in Nat
  BY SourceType DEF Exact, Known
<1>3. Source[k] < IntHalf /\ Source[k] \in Nat
  BY <1>2 DEF Deliverable
<1>4. CASE k \in Unsized
  <2>1. size = rx.size
    BY <1>1, <1>4 DEF HeaderSizes
  <2>2. \A m \in 1 .. k - 1 : Source[m] = 0 \/ Source[m] = Source[k]
    BY <1>2, <1>4 DEF Deliverable
  <2>3. rx.size = 0 \/ rx.size = Source[k] \/ \E m \in 1 .. k - 1 : rx.size = Source[m]
    BY DEF Expects, Has
  <2> QED
    BY <2>1, <2>2, <2>3
<1>5. CASE k \notin Unsized
  <2>1. HeaderSizes(Header) = {Int16(Sizes[k])}
    <3>1. ~(Header.block > 0)
      BY <1>1
    <3> QED
      BY <1>1, <1>5, <3>1 DEF HeaderSizes
  <2>2. size = Int16(Source[k])
    BY <1>2, <2>1
  <2> QED
    BY <1>3, <2>2, SmallInt
<1> QED
  BY <1>4, <1>5

\* From a packet that has number 0 a header is read, and it changes nothing that matters.
LEMMA HeaderAnswered ==
  ASSUME Known, Known', Quiet', Lasting, OneAnswer, Active, RxHeader
  PROVE  OneAnswer'
<1>1. /\ UNCHANGED <<files, trouble>>
      /\ Accepts(Head(down)) /\ Head(down).no = 0 /\ ~Head(down).blank /\ Arrives("packet")
      /\ rx'.packetno = rx.packetno /\ rx'.ymodem = 1 /\ rx'.name = Head(down).name
      /\ rx'.open = rx.open /\ rx'.pc = "try"
      /\ rx'.size \in HeaderSizes(Head(down))
      /\ up' = Push(up, <<Byte("ACK")>>)
  BY HeaderDoes DEF Known
<1>2. Quiet /\ Source' = Source /\ (Exact' => Exact) /\ tx' = tx /\ tx'.batch = tx.batch
  BY LastingDoes DEF RxHeader, Keep
<1>3. PICK k \in Nat, t \in Nat : k = tx.file /\ t = tx.block
  BY LinesTyped DEF TxRecord
<1>4. \A i, j : FilesAt(i, j) => FilesAt(i, j)'
  BY <1>1, FilesAtStay
<1>5. /\ down # <<>> /\ down' = Tail(down)
      /\ \/ tx.pc = "ack" /\ Head(down) = Current
         \/ tx.pc = "header ack" /\ Head(down) = Header
  BY <1>1, HeadSent
<1>6. ASSUME tx.pc = "ack", Head(down) = Current
      PROVE  tx.batch /\ At'
  <2>1. t >= Numbers /\ tx.batch
    BY <1>1, <1>2, <1>3, <1>6, TakenNumber
  <2>2. /\ Has(k, t) \/ Has(k, t - 1)
        /\ t > 0 /\ k \in 1 .. Len(Source) /\ t <= Source[k] /\ Source[k] \in Nat
        /\ Head(down).name = k
    BY <1>2, <1>3, <1>6, SentBlock
  <2>3. ~Exact
    <3>1. Exact => Source[k] < Numbers
      BY <2>2, SourceType DEF Exact, Deliverable, Known
    <3>2. Numbers \in Nat
      BY Constants
    <3> QED
      BY <2>1, <2>2, <3>1, <3>2
  <2>4. rx.packetno = 0
    <3>1. CASE Has(k, t)
      BY <2>1, <3>1, ExpectedNumber
    <3>2. CASE Has(k, t - 1)
      <4>1. PICK j \in Nat : j = t - 1 /\ (j + 1 = Numbers \/ j >= Numbers)
        BY <2>1, <2>2, Constants
      <4>2. Has(k, j)
        BY <3>2, <4>1
      <4> QED
        BY <4>1, <4>2, ExpectedNumber
    <3> QED
      BY <2>2, <3>1, <3>2
  <2>5. FilesAt(k, t)
    <3>1. CASE Has(k, t)
      BY <3>1 DEF Has
    <3>2. CASE Has(k, t - 1)
      <4>1. FilesAt(k, t - 1)
        BY <3>2 DEF Has
      <4>2. t - 1 # 0 /\ t # 0
        BY <2>1, <2>2, Constants
      <4>3. FilesWithin(k, t - 1)
        BY <4>1, <4>2 DEF FilesAt
      <4>4. (IF t - 1 < Numbers THEN t - 1 ELSE Numbers - 1)
              = (IF t < Numbers THEN t ELSE Numbers - 1)
        BY <2>1, <2>2, Constants
      <4>5. FilesWithin(k, t)
        BY <4>3, <4>4 DEF FilesWithin
      <4> QED
        BY <4>2, <4>5 DEF FilesAt
    <3> QED
      BY <2>2, <3>1, <3>2
  <2>6. FilesAt(k, t)'
    BY <1>4, <2>5
  <2>7. ~(t < Numbers)
    BY <2>1, Constants
  <2>8. Has(k, t)'
    BY <1>1, <1>2, <2>1, <2>2, <2>3, <2>4, <2>6, <2>7 DEF Has
  <2>9. At'
    BY <1>2, <1>3, <1>6, <2>8 DEF At, Stage
  <2> QED
    BY <2>1, <2>9
<1>7. ASSUME tx.pc = "header ack", Head(down) = Header
      PROVE  tx.batch /\ At'
  <2>1. tx.batch /\ k \in DOMAIN Sizes /\ Header.name = k
    BY <1>1, <1>3, <1>7, HeaderIs, LinesTyped DEF Known, SenderKnown
  <2>2. Has(k, 0) \/ Expects(k)
    BY <1>3, <1>7, OneAnswerActive DEF At, Stage
  <2>3. (0 + 1) % Numbers = 1 /\ 0 < Numbers
    BY FirstNumber
  <2>4. rx.packetno = 1 /\ FilesAt(k, 0)
    BY <2>2, <2>3 DEF Has, Expects, FilesAt
  <2>5. FilesAt(k, 0)'
    BY <1>4, <2>4
  <2>6. Exact' => rx'.size = 0 \/ rx'.size = Source'[k]
    BY <1>1, <1>2, <1>3, <1>7, <2>1, <2>2, SizeRead
  <2>7. Has(k, 0)'
    BY <1>1, <1>2, <1>7, <2>1, <2>3, <2>4, <2>5, <2>6 DEF Has
  <2>8. k <= Len(Source')
    BY <1>2, <2>1, SourceType, Constants DEF Known
  <2>9. At'
    BY <1>2, <1>3, <1>7, <2>7, <2>8 DEF At, Stage
  <2> QED
    BY <2>1, <2>9
<1>8. tx.batch /\ At'
  BY <1>5, <1>6, <1>7
<1>9. rx'.retry = 0 /\ rx'.trychar = "C"
  <2>1. PICK s \in RxRecord : s = Started
    BY StartedOp, LinesTyped
  <2>2. PICK size, name : rx' = Again([s EXCEPT !.trychar = "C", !.ymodem = 1, !.size = size,
                                                !.name = name])
    BY <2>1 DEF RxHeader
  <2>3. PICK r : r = [s EXCEPT !.trychar = "C", !.ymodem = 1, !.size = size, !.name = name]
    OBVIOUS
  <2>4. rx' = Again(r)
    BY <2>2, <2>3
  <2> QED
    BY <2>3, <2>4 DEF Again, RxRecord
<1>10. rx'.retry <= 1
  <2>1. \A n : n = 0 => n <= 1
    OBVIOUS
  <2> QED
    BY <1>9, <2>1, Zenon
<1>11. \E x \in ByteItems : x.kind \in {"ACK", "NAK"} /\ up' = Push(up, <<x>>)
  BY <1>1, BytesAreItems
<1>12. Placed'
  BY <1>1, FilesStay, OneAnswerActive
<1> QED
  BY <1>1, <1>2, <1>5, <1>8, <1>9, <1>10, <1>11, <1>12, RxAcknowledges

-----------------------------------------------------------------------------
(* The end of a file *)

LEMMA EotPlaces ==
  ASSUME Known, Lasting, Placed, RxEot
  PROVE  Placed'
<1>1. /\ files' \in Seq(FileRecord) /\ Len(files') = Len(files)
      /\ \A f \in 1 .. Len(files) :
           /\ files'[f].name = files[f].name
           /\ \A i \in DOMAIN files'[f].blocks :
                \/ files'[f].blocks[i] = Filler
                \/ i \in DOMAIN files[f].blocks /\ files'[f].blocks[i] = files[f].blocks[i]
  BY EotDoes DEF Known
<1>2. DOMAIN files' = 1 .. Len(files) /\ DOMAIN files = 1 .. Len(files)
  BY <1>1, FilesHave
<1>3. Source' = Source /\ tx'.batch = tx.batch
  BY LastingDoes DEF Lasting
<1>4. ASSUME NEW f \in 1 .. Len(files)
      PROVE  Of(f)' \in DOMAIN Source' /\ BlocksInPlace(f)'
  <2>1. Of(f) \in DOMAIN Source /\ BlocksInPlace(f)
    BY <1>2 DEF Placed
  <2>2. Of(f)' = Of(f)
    BY <1>1, <1>3 DEF Of
  <2> QED
    BY <1>1, <1>3, <2>1, <2>2 DEF BlocksInPlace
<1> QED
  BY <1>2, <1>4 DEF Placed

\* A file that came whole.
LEMMA WholeIs ==
  ASSUME NEW q \in Blocks, NEW k, NEW n \in Nat, n = Len(q), \A i \in DOMAIN q : q[i] = <<k, i>>
  PROVE  q = [i \in 1 .. n |-> <<k, i>>]
<1>1. q = [i \in 1 .. Len(q) |-> q[i]] /\ DOMAIN q = 1 .. Len(q)
  <2>1. \A X : \A s \in Seq(X) : s = [i \in 1 .. Len(s) |-> s[i]] /\ DOMAIN s = 1 .. Len(s)
    OBVIOUS
  <2> QED
    BY <2>1, Zenon DEF Blocks
<1>2. q = [i \in 1 .. n |-> q[i]]
  BY <1>1
<1>3. \A i \in 1 .. n : q[i] = <<k, i>>
  BY <1>1
<1>4. [i \in 1 .. n |-> q[i]] = [i \in 1 .. n |-> <<k, i>>]
  BY <1>3
<1> QED
  BY <1>2, <1>4

\* With the file closed, all up to it are as they should be.
LEMMA EotFiles ==
  ASSUME Known, Lasting, RxEot, ~rx'.open, NEW k \in Nat, k > 0, NEW t \in Nat, Has(k, t),
         k \in DOMAIN Source, t <= Source[k], Source[k] \in Nat, Exact => t = Source[k],
         ~tx.batch => k = 1
  PROVE  FilesBefore(k + 1)'
<1>1. Source' = Source /\ (Exact' => Exact) /\ tx'.batch = tx.batch
      /\ \A n : WholeFile(n)' = WholeFile(n)
  BY LastingDoes DEF Lasting
<1>2. FilesAt(k, t)
  BY DEF Has
<1>3. CASE t = 0
  <2>1. FilesBefore(k)
    BY <1>2, <1>3 DEF FilesAt
  <2>2. files' = files
    BY <2>1, LastResized DEF FilesBefore, Known
  <2>3. PICK m \in Nat : m = Len(files)
    BY FilesHave
  <2>4. Earlier(k, m)' /\ (Exact' => Whole(k, m)')
    BY <1>1, <2>1, <2>2, <2>3, FilesStay DEF FilesBefore
  <2>5. Earlier(k + 1, m)'
    BY <2>4, NextEarlier
  <2>6. Exact' => Whole(k + 1, m)'
    <3>1. Exact' => ~(Source'[k] > 0)
      BY <1>1, <1>3
    <3> QED
      BY <2>4, <3>1, NextWhole
  <2>7. m = Len(files')
    BY <2>2, <2>3
  <2>8. Earlier(k + 1, Len(files))'
    BY <2>5, <2>7 DEF Earlier
  <2>9. Exact' => Whole(k + 1, Len(files))'
    BY <2>6, <2>7 DEF Whole
  <2> QED
    BY <2>8, <2>9 DEF FilesBefore
<1>4. CASE t # 0
  <2>1. FilesWithin(k, t)
    BY <1>2, <1>4 DEF FilesAt
  <2>2. /\ rx.open /\ files # <<>> /\ Of(Len(files)) = k
        /\ Earlier(k, Len(files) - 1) /\ (Exact => Whole(k, Len(files) - 1))
        /\ \A i \in DOMAIN files[Len(files)].blocks : files[Len(files)].blocks[i] = <<k, i>>
        /\ "full" \notin trouble =>
             Len(files[Len(files)].blocks) = IF t < Numbers THEN t ELSE Numbers - 1
    BY <2>1 DEF FilesWithin
  <2>3. PICK q \in Blocks, name, m \in Nat :
          q = files[Len(files)].blocks /\ name = files[Len(files)].name /\ m = Len(files) - 1
    BY <2>2, FilesHave
  <2>4. PICK new : new = Resized(q)
    OBVIOUS
  <2>5. LastIs(m, name, new)
    BY <2>2, <2>3, <2>4, LastResized DEF Known
  <2>6. /\ Len(files') = m + 1 /\ \A f \in 1 .. m : files'[f] = files[f]
        /\ files'[m + 1].name = name /\ files'[m + 1].blocks = new
    BY <2>5 DEF LastIs
  <2>7. Earlier(k, m)' /\ (Exact' => Whole(k, m)')
    BY <1>1, <2>2, <2>3, <2>6, PrefixStays
  <2>8. Of(m + 1)' = k
    BY <1>1, <2>2, <2>3, <2>6 DEF Of
  <2>9. BlocksInPlace(m + 1)'
    <3>1. \A i \in DOMAIN new : new[i] = Filler \/ (i \in DOMAIN q /\ new[i] = q[i])
      BY <2>4, ResizedType, LinesTyped DEF RxRecord
    <3>2. \A i \in DOMAIN new : new[i] \in {<<k, i>>, Filler}
      BY <2>2, <2>3, <3>1
    <3> QED
      BY <2>6, <2>8, <3>2 DEF BlocksInPlace
  <2>10. Earlier(k + 1, m + 1)'
    BY <2>7, <2>8, <2>9, NextEarlier
  <2>11. ASSUME Exact'
         PROVE  Whole(k + 1, m + 1)'
    <3>1. Exact /\ t = Source[k] /\ "full" \notin trouble /\ Source[k] < Numbers
      BY <1>1, <2>11 DEF Exact, Deliverable
    <3>2. Len(q) = t
      BY <2>2, <2>3, <3>1
    <3>3. rx.size = 0 \/ rx.size = Len(q)
      BY <3>1, <3>2 DEF Has
    <3>4. new = q
      BY <2>4, <3>3, ResizedSame
    <3>5. q = [i \in 1 .. t |-> <<k, i>>]
      <4>1. t = Len(q) /\ \A i \in DOMAIN q : q[i] = <<k, i>>
        BY <2>2, <2>3, <3>2
      <4> QED
        BY <4>1, WholeIs
    <3>6. new = WholeFile(k)
      BY <3>1, <3>4, <3>5 DEF WholeFile
    <3>7. Source'[k] > 0
      BY <1>1, <1>4, <3>1
    <3>8. files'[m + 1].blocks = WholeFile(k)'
      BY <1>1, <2>6, <3>6
    <3> QED
      BY <2>7, <2>8, <2>11, <3>7, <3>8, NextWhole
  <2>12. m + 1 = Len(files')
    BY <2>6
  <2>13. Earlier(k + 1, Len(files))'
    BY <2>10, <2>12 DEF Earlier
  <2>14. Exact' => Whole(k + 1, Len(files))'
    BY <2>11, <2>12 DEF Whole
  <2> QED
    BY <2>13, <2>14 DEF FilesBefore
<1> QED
  BY <1>3, <1>4

LEMMA EotAnswered ==
  ASSUME Known, Known', Quiet', Lasting, OneAnswer, Active, RxEot
  PROVE  OneAnswer'
<1>1. down # <<>> /\ down' = Tail(down) /\ Head(down).kind = "EOT" /\ tx' = tx /\ trouble' = trouble
  BY DEF RxEot, Arrives, Keep
<1>2. /\ Quiet /\ Source' = Source /\ (Exact' => Exact) /\ tx'.batch = tx.batch
      /\ \A n : WholeFile(n)' = WholeFile(n)
  BY LastingDoes DEF Lasting
<1>3. tx.pc = "eot ack" /\ ~AnswersIn(up) /\ ~HasAck(up)
  BY <1>1, Arrived, AwaitedIs
<1>4. PICK k \in Nat, t \in Nat : k = tx.file /\ t = tx.block
  BY LinesTyped DEF TxRecord
<1>5. At /\ InSession /\ Placed
  BY OneAnswerActive
<1>6. /\ Has(k, t) \/ Ended(k) \/ (tx.batch /\ Expects(k + 1))
      /\ Exact => t = Source[k]
  BY <1>3, <1>4, <1>5 DEF At, Stage
<1>7. /\ k \in DOMAIN Source /\ k > 0 /\ t <= Source[k] /\ Source[k] \in Nat /\ (~tx.batch => k = 1)
      /\ DOMAIN Source = 1 .. Len(Source) /\ Len(Source) \in Nat
  <2>1. k \in 1 .. Len(Source) + 1 /\ k <= Len(Source) /\ t <= Source[k]
    BY <1>3, <1>4, <1>5 DEF InSession
  <2>2. DOMAIN Source = 1 .. Len(Source) /\ Len(Source) \in Nat
    BY SourceType DEF Known
  <2>3. k \in DOMAIN Source /\ k > 0
    BY <2>1, <2>2
  <2> QED
    BY <1>4, <2>1, <2>2, <2>3, SourceType DEF Known, SenderKnown
<1>8. Placed'
  BY <1>5, EotPlaces
<1>9. PICK r \in RxRecord :
        /\ r = [rx EXCEPT !.open = FALSE] /\ ~r.open /\ r.packetno = rx.packetno
        /\ r.ymodem = rx.ymodem /\ r.size = rx.size /\ r.name = rx.name /\ r.trychar = rx.trychar
  <2>1. rx \in RxRecord
    BY LinesTyped
  <2>2. PICK s : s = [rx EXCEPT !.open = FALSE]
    OBVIOUS
  <2>3. s \in RxRecord
    BY <2>1, <2>2 DEF RxRecord
  <2>4. ~s.open /\ s.packetno = rx.packetno /\ s.ymodem = rx.ymodem /\ s.size = rx.size
        /\ s.name = rx.name /\ s.trychar = rx.trychar
    BY <2>1, <2>2 DEF RxRecord
  <2> QED
    BY <2>2, <2>3, <2>4
<1>10. CASE rx.ymodem = 0
  <2>1. rx' = Flush(r, <<Byte("ACK")>>, "ok") /\ up' = up
    BY <1>9, <1>10 DEF RxEot
  <2>2. "ok" \in RxNexts /\ <<Byte("ACK")>> \in Seq(ByteItems)
    BY Answer DEF RxNexts, Ends
  <2>3. rx'.pc = "flush" /\ rx'.next = "ok" /\ rx'.say = <<Byte("ACK")>> /\ SameFile(r, rx')
    BY <1>9, <2>1, <2>2, FlushesTo
  <2>4. RxDone' /\ Result' = "ok"
    BY <2>3 DEF RxDone, Result, Ends
  <2>5. Exact' => NoMore'
    <3>1. CASE tx.batch
      <4>1. NoMoreC(up)'
        BY <1>3, <2>1, LinesTyped, NoAnswers, UpStays, <1>2
      <4> QED
        BY <1>1, <1>3, <3>1, <4>1 DEF NoMore
    <3>2. CASE ~tx.batch
      <4>1. Has(k, t)
        BY <1>6, <3>2 DEF Ended
      <4>2. ~rx'.open
        BY <1>9, <2>3 DEF SameFile
      <4>3. FilesBefore(k + 1)'
        BY <1>4, <1>6, <1>7, <4>1, <4>2, EotFiles
      <4>4. k + 1 = Len(Source') + 1
        BY <1>2, <1>7, <3>2, SourceType DEF Known
      <4>5. Exact' => AllWhole'
        BY <4>3, <4>4 DEF FilesBefore, AllWhole, Whole
      <4> QED
        BY <1>1, <1>3, <3>2, <4>5 DEF NoMore
    <3> QED
      BY <3>1, <3>2
  <2> QED
    BY <1>1, <1>8, <2>3, <2>4, <2>5, RxEndsWell
<1>11. CASE rx.ymodem = 1
  <2>1. rx' = [r EXCEPT !.ymodem = 2, !.retry = 1, !.pc = "try"] /\ up' = Push(up, <<Byte("NAK")>>)
    BY <1>9, <1>11 DEF RxEot, Say
  <2>2. /\ rx'.pc = "try" /\ rx'.retry = 1 /\ rx'.ymodem = 2 /\ rx'.trychar = rx.trychar
        /\ ~rx'.open /\ rx'.size = rx.size
    BY <1>9, <2>1 DEF RxRecord
  <2>3. Has(k, t) /\ tx.batch
    BY <1>6, <1>11 DEF Has, Ended, Expects
  <2>4. FilesBefore(k + 1)'
    BY <1>4, <1>6, <1>7, <2>2, <2>3, EotFiles
  <2>5. Ended(k)'
    <3>1. Exact' => rx'.size = 0 \/ rx'.size = Source'[k]
      BY <1>2, <2>2, <2>3 DEF Has
    <3> QED
      BY <1>2, <2>2, <2>3, <2>4, <3>1 DEF Ended
  <2>6. PICK x \in ByteItems : x = Byte("NAK") /\ x.kind = "NAK"
    BY BytesAreItems
  <2>7. up' = Push(up, <<x>>) /\ ~HasAck(Push(up, <<x>>))
    BY <1>3, <2>1, <2>6, LinesTyped, AnswerSent
  <2>8. ~HasAck(up)'
    BY <2>7 DEF HasAck
  <2>9. At'
    BY <1>1, <1>2, <1>3, <1>4, <1>6, <2>5, <2>8 DEF At, Stage
  <2>10. tx.batch => rx'.trychar # "NAK"
    BY <2>2, OneAnswerActive DEF Token, TokenRx
  <2>11. rx'.retry <= 1
    <3>1. \A n : n = 1 => n <= 1
      OBVIOUS
    <3> QED
      BY <2>2, <3>1, Zenon
  <2> QED
    BY <1>1, <1>8, <2>2, <2>3, <2>6, <2>7, <2>9, <2>10, <2>11, RxAcknowledges
<1>12. CASE rx.ymodem = 2
  <2>1. rx' = ForNextFile(r) /\ up' = Push(up, <<Byte("ACK")>>)
    BY <1>9, <1>12 DEF RxEot, Say
  <2>2. /\ rx'.pc = "try" /\ rx'.retry = 1 /\ rx'.ymodem = 0 /\ rx'.trychar = "C"
        /\ ~rx'.open /\ rx'.size = rx.size /\ rx'.packetno = 1
    BY <1>9, <2>1 DEF RxRecord, ForNextFile
  <2>3. Ended(k)
    BY <1>6, <1>12 DEF Has, Expects
  <2>4. tx.batch /\ FilesBefore(k + 1) /\ (Exact => rx.size = 0 \/ rx.size = Source[k])
    BY <2>3 DEF Ended
  <2>5. files' = files
    BY <2>4, LastResized DEF FilesBefore, Known
  <2>6. FilesBefore(k + 1)'
    <3>1. rx'.open = rx.open
      <4>1. ~rx.open /\ ~rx'.open
        BY <2>2, <2>4 DEF FilesBefore
      <4>2. rx.open \in BOOLEAN
        BY LinesTyped DEF RxRecord
      <4>3. rx'.open \in BOOLEAN
        BY DEF Known, TypeOK, RxRecord
      <4> QED
        BY <4>1, <4>2, <4>3, Zenon
    <3>2. PICK n \in Nat : n = k + 1
      OBVIOUS
    <3>3. FilesBefore(n)
      BY <2>4, <3>2
    <3>4. FilesBefore(n)'
      BY <2>5, <3>1, <3>3, FilesAtStay
    <3> QED
      BY <3>2, <3>4
  <2>7. Expects(k + 1)'
    <3>1. Exact' => rx'.size = 0 \/ \E m \in 1 .. (k + 1) - 1 : rx'.size = Source'[m]
      <4>1. k \in 1 .. (k + 1) - 1
        BY <1>7
      <4> QED
        BY <1>2, <2>2, <2>4, <4>1
    <3> QED
      BY <2>2, <2>6, <3>1 DEF Expects
  <2>8. At'
    BY <1>1, <1>2, <1>3, <1>4, <1>6, <2>4, <2>7 DEF At, Stage
  <2>9. \E x \in ByteItems : x.kind \in {"ACK", "NAK"} /\ up' = Push(up, <<x>>)
    BY <2>1, BytesAreItems
  <2>10. rx'.retry <= 1
    <3>1. \A n : n = 1 => n <= 1
      OBVIOUS
    <3> QED
      BY <2>2, <3>1, Zenon
  <2> QED
    BY <1>1, <1>8, <2>2, <2>4, <2>8, <2>9, <2>10, RxAcknowledges
<1> QED
  BY <1>10, <1>11, <1>12, LinesTyped DEF RxRecord

-----------------------------------------------------------------------------
(* The sender, while both ends are active *)

\* An answer, or silence, has been heard: the lines are empty, but for a C.
Heard ==
  /\ ~Sends /\ down = <<>> /\ ~AnswersIn(up)' /\ NoCan(up)' /\ Len(up') <= 1
  /\ up' # <<>> => rx.pc = "wait"
  /\ rx.pc \in {"wait", "try"} /\ (~tx.batch /\ rx.pc = "try" => rx.trychar = "none")

LEMMA HeadIn ==
  ASSUME NEW X, NEW q \in Seq(X), q # <<>>
  PROVE  1 \in DOMAIN q /\ Head(q) = q[1]
OBVIOUS

LEMMA OneTaken ==
  ASSUME NEW X, NEW q \in Seq(X), q # <<>>, Len(q) <= 1
  PROVE  Tail(q) = <<>>
<1>1. Tail(q) \in Seq(X) /\ Len(Tail(q)) <= 0
  BY TailThins
<1>2. PICK r \in Seq(X) : r = Tail(q)
  BY <1>1
<1>3. r = <<>>
  BY <1>1, <1>2
<1> QED
  BY <1>2, <1>3

LEMMA NothingIn ==
  ASSUME NEW q, q = <<>>
  PROVE  DOMAIN q = {} /\ Len(q) <= 1
OBVIOUS

LEMMA AnswerHeard ==
  ASSUME Known, Known', Lasting, OneAnswer, Active, up # <<>>, up' = Tail(up),
         Asks(Head(up)) \/ tx.pc = "wait C"
  PROVE  Heard
<1>1. Token
  BY OneAnswerActive
<1>2. up \in Seq(ByteItems) /\ up' \in Seq(ByteItems) /\ tx'.batch = tx.batch
      /\ Len(up) \in Nat
  BY LinesTyped DEF Lasting, Known, TypeOK, LineOK
<1>3. /\ Len(up') = Len(up) - 1 /\ Thinned(up, up')
  BY <1>2, TailThins
<1>4. NoCan(up')
  BY <1>1, <1>2, <1>3, AnswersThin DEF Token, TokenUp
<1>5. NoCan(up)'
  BY <1>4 DEF NoCan
<1>6. CASE tx.pc = "wait C"
  <2>1. down = <<>> /\ Len(up) <= 1 /\ rx.pc = "wait"
    BY <1>1, <1>6 DEF Token, TokenTx
  <2>2. up' = <<>>
    BY <1>2, <2>1, OneTaken
  <2>3. ~AnswersIn(up)' /\ Len(up') <= 1
    BY <2>2, NothingIn DEF AnswersIn
  <2> QED
    BY <1>5, <1>6, <2>1, <2>2, <2>3 DEF Heard, Sends
<1>7. CASE Asks(Head(up)) /\ tx.pc # "wait C"
  <2>1. AnswersIn(up)
    BY <1>2, <1>7, HeadIn DEF AnswersIn
  <2>2. Tidy(up, rx.pc = "wait") /\ ~Sends /\ down = <<>> /\ rx.pc \in {"wait", "try"}
    BY <1>1, <2>1 DEF Token, TokenUp
  <2>3. PICK asked \in BOOLEAN : asked <=> rx.pc = "wait"
    OBVIOUS
  <2>4. Tidy(up, asked)
    BY <2>2, <2>3 DEF Tidy
  <2>5. ~AnswersIn(up') /\ Len(up') <= 1 /\ (up' # <<>> => rx.pc = "wait")
    BY <1>2, <1>7, <2>3, <2>4, AnswerTaken
  <2>6. ~AnswersIn(up)'
    BY <1>2, <2>5 DEF AnswersIn, Asks
  <2>7. ~tx.batch /\ rx.pc = "try" => rx.trychar = "none"
    BY <1>1 DEF Token, TokenRx
  <2> QED
    BY <1>5, <2>2, <2>5, <2>6, <2>7 DEF Heard
<1> QED
  BY <1>6, <1>7

LEMMA SilenceHeard ==
  ASSUME Known, Known', Quiet', Lasting, OneAnswer, Active, TxQuiet, up' = up, ~Sends
  PROVE  Heard
<1>1. Token /\ rx.pc \in {"try", "wait", "flush"} /\ ~RxDone
  BY OneAnswerActive
<1>2. patient
  BY DEF Quiet, Lasting
<1>3. up = <<>> /\ down = <<>> /\ rx.pc = "wait"
  BY <1>1, <1>2 DEF TxQuiet, RxWaits, Ends, RxDone
<1>4. up' = <<>> /\ ~AnswersIn(up)' /\ NoCan(up)' /\ Len(up') <= 1
  BY <1>3 DEF AnswersIn, NoCan
<1> QED
  BY <1>3, <1>4 DEF Heard

LEMMA HeardToken ==
  ASSUME Known, Known', Lasting, Token, Heard, rx' = rx, down' = down, tx'.pc # "can"
  PROVE  Token'
<1>1. tx'.batch = tx.batch /\ down' = <<>>
  BY DEF Lasting, Heard
<1>2. TokenDown'
  BY <1>1 DEF TokenDown
<1>3. TokenUp'
  <2>1. Tidy(up, rx.pc = "wait")'
    BY DEF Heard, AnswersIn, Tidy
  <2> QED
    BY <2>1 DEF Heard, TokenUp
<1>4. TokenRx'
  <2>1. rx'.pc \in {"wait", "try"} /\ (~tx'.batch /\ rx'.pc = "try" => rx'.trychar = "none")
    BY <1>1 DEF Heard
  <2>2. tx'.batch => rx'.trychar # "NAK"
    BY <1>1 DEF Token, TokenRx
  <2> QED
    BY <2>1, <2>2 DEF TokenRx
<1>5. TokenTx'
  BY <1>1 DEF Heard, TokenTx
<1> QED
  BY <1>2, <1>3, <1>4, <1>5 DEF Token

\* The sender goes on.
LEMMA TxGoesOn ==
  ASSUME Lasting, OneAnswer, Active, UNCHANGED <<rx, files>>, ~Left', Token', At', InSession'
  PROVE  OneAnswer'
<1>1. Placed /\ ~RxDone
  BY OneAnswerActive
<1>2. Placed'
  BY <1>1, FilesStay
<1>3. ~RxDone'
  BY <1>1 DEF RxDone
<1>4. ~LeftOk'
  BY DEF Left, LeftOk, Ends
<1> QED
  BY <1>2, <1>3, <1>4 DEF OneAnswer

\* It gives up.
LEMMA TxGivesUp ==
  ASSUME Known, Lasting, OneAnswer, Active, UNCHANGED <<rx, files>>, tx'.pc = "flush", tx'.next # "ok",
         down = <<>>, NEW items \in Murmurs, down' = Push(down, items)
  PROVE  OneAnswer'
<1>1. Placed /\ ~RxDone
  BY OneAnswerActive
<1>2. Placed'
  BY <1>1, FilesStay
<1>3. Left' /\ ~LeftOk'
  BY DEF Left, LeftOk, Ends
<1>4. NoPackets(down) /\ NoEot(down)
  BY DEF NoPackets, NoEot
<1>5. NoPackets(down') /\ NoEot(down')
  <2>1. items \in Seq(ByteItems) /\ \A i \in DOMAIN items : items[i].kind # "EOT"
    BY MurmurIs
  <2>2. 0 \in Nat
    OBVIOUS
  <2> QED
    BY <1>4, <2>1, <2>2, LinesTyped, FlightBytes
<1>6. NoPackets(down)' /\ NoEot(down)'
  BY <1>5 DEF NoPackets, NoEot
<1> QED
  BY <1>2, <1>3, <1>6 DEF OneAnswer, Active

\* The places from which, and to which, the sender tries again.
Retries ==
  {<<"sync", "sync">>, <<"ack", "send">>, <<"eot ack", "eot">>, <<"header ack", "header">>,
   <<"wait C", "wait C">>}

LEMMA RetryKeeps ==
  ASSUME Known, Known', Lasting, OneAnswer, Active, Heard, UNCHANGED <<rx, files>>,
         NEW tries, NEW place \in TxPlaces, NEW failed \in Ends, failed # "ok",
         Retry(tries, place, failed), <<tx.pc, place>> \in Retries
  PROVE  OneAnswer'
<1>1. Token /\ At /\ InSession
  BY OneAnswerActive
<1>2. /\ SameBlock(tx, tx')
      /\ \/ tx'.pc = place /\ tx'.next = tx.next /\ down' = down
         \/ /\ tx'.pc = "flush" /\ tx'.next = failed
            /\ \E items \in Murmurs : down' = Push(down, items)
  BY LinesTyped, RetryDoes
<1>3. CASE tx'.pc = "flush"
  <2>1. place # "flush"
    BY DEF Retries
  <2> QED
    BY <1>2, <1>3, <2>1, TxGivesUp DEF Heard
<1>4. CASE tx'.pc = place /\ tx'.next = tx.next /\ down' = down
  <2>1. \/ tx.pc = "sync" /\ tx'.pc = "sync"
        \/ tx.pc = "ack" /\ tx'.pc = "send"
        \/ tx.pc = "eot ack" /\ tx'.pc = "eot"
        \/ tx.pc = "header ack" /\ tx'.pc = "header"
        \/ tx.pc = "wait C" /\ tx'.pc = "wait C"
    BY <1>4 DEF Retries
  <2>2. ~Left' /\ tx'.pc # "can"
    BY <2>1 DEF Left, Ends
  <2>3. Token'
    BY <1>1, <1>4, <2>2, HeardToken
  <2>4. /\ Source' = Source /\ (Exact' => Exact) /\ tx'.batch = tx.batch
        /\ \A k, j : /\ Has(k, j) => Has(k, j)'
                     /\ Expects(k) => Expects(k)'
                     /\ Ended(k) => Ended(k)'
    <3>1. SameFile(rx, rx')
      BY DEF SameFile
    <3> QED
      BY <3>1, LastingDoes, PlacesStay DEF Lasting
  <2>5. ~HasAck(up)'
    BY DEF Heard, AnswersIn, HasAck, Asks
  <2>6. At'
    <3> SUFFICES ASSUME NEW k \in Nat, NEW t \in Nat, k = tx'.file, t = tx'.block
                 PROVE  Stage(k, t)'
      BY DEF At
    <3>1. Stage(k, t)
      BY <1>1, <1>2 DEF At, SameBlock
    <3> QED
      BY <1>4, <2>1, <2>4, <2>5, <3>1 DEF Stage
  <2>7. InSession'
    BY <1>1, <1>2, <1>4, <2>1, <2>4 DEF InSession, SameBlock
  <2> QED
    BY <2>2, <2>3, <2>6, <2>7, TxGoesOn
<1> QED
  BY <1>2, <1>3, <1>4

-----------------------------------------------------------------------------
(* The steps of the sender, while both ends are active *)

\* An answer moves it on.
LEMMA HeardGoesOn ==
  ASSUME Known, Known', Lasting, OneAnswer, Active, Heard, UNCHANGED <<rx, files, down>>,
         tx'.pc \in {"load", "header", "wait C"}, At', InSession'
  PROVE  OneAnswer'
<1>1. Token /\ tx'.pc # "can"
  BY OneAnswerActive
<1>2. Token'
  BY <1>1, HeardToken
<1>3. ~Left'
  BY DEF Left, Ends
<1> QED
  BY <1>2, <1>3, TxGoesOn

\* An item of the line up is lost, damaged or ignored.
LEMMA UpThins ==
  ASSUME Known, Known', Lasting, OneAnswer, Active, UNCHANGED <<down, tx, rx, files>>,
         Thinned(up, up')
  PROVE  OneAnswer'
<1>1. Token /\ At /\ InSession /\ ~Left
  BY OneAnswerActive
<1>2. up \in Seq(ByteItems) /\ up' \in Seq(ByteItems)
  BY DEF Known, TypeOK, LineOK
<1>3. PICK asked \in BOOLEAN : asked <=> rx.pc = "wait"
  OBVIOUS
<1>4. /\ AnswersIn(up') => AnswersIn(up)
      /\ HasAck(up') => HasAck(up)
      /\ NoCan(up) => NoCan(up')
      /\ Len(up') <= Len(up)
      /\ Tidy(up, asked) => Tidy(up', asked)
  BY <1>2, AnswersThin
<1>5. up = <<>> => up' = <<>>
  <2>1. up = <<>> => Len(up') <= 0
    BY <1>4
  <2>2. \A s \in Seq(ByteItems) : Len(s) <= 0 => s = <<>>
    OBVIOUS
  <2> QED
    BY <1>2, <2>1, <2>2
<1>6. TokenDown'
  BY <1>1, TokenDownStays DEF Token
<1>7. TokenUp'
  <2>1. NoCan(up)'
    BY <1>1, <1>4 DEF Token, TokenUp, NoCan
  <2>2. Tidy(up, rx.pc = "wait")'
    <3>1. Tidy(up, asked)
      BY <1>1, <1>3 DEF Token, TokenUp, Tidy
    <3> QED
      BY <1>3, <1>4, <3>1 DEF Tidy, Asks
  <2>3. AnswersIn(up)' => AnswersIn(up)
    BY <1>4 DEF AnswersIn, Asks
  <2> QED
    BY <1>1, <2>1, <2>2, <2>3 DEF Token, TokenUp, Sends
<1>8. TokenRx'
  BY <1>1, <1>5 DEF Token, TokenRx, Sends
<1>9. TokenTx'
  <2>1. Len(up) <= 1 => Len(up') <= 1
    <3>1. Len(up) \in Nat /\ Len(up') \in Nat
      BY <1>2
    <3> QED
      BY <1>4, <3>1
  <2> QED
    BY <1>1, <1>5, <2>1 DEF Token, TokenTx
<1>10. At'
  <2>1. SameFile(rx, rx')
    BY DEF SameFile
  <2> QED
    BY <1>1, <1>4, <2>1, StageStays
<1>11. InSession' /\ ~Left'
  BY <1>1, SenderStays
<1> QED
  BY <1>6, <1>7, <1>8, <1>9, <1>10, <1>11, TxGoesOn DEF Token

\* What holds of the places when the receiver does nothing.
LEMMA TxPlacesStay ==
  ASSUME Lasting, UNCHANGED <<rx, files>>
  PROVE  /\ Source' = Source /\ (Exact' => Exact) /\ tx'.batch = tx.batch
         /\ \A k, j : /\ Has(k, j) => Has(k, j)'
                      /\ Expects(k) => Expects(k)'
                      /\ Ended(k) => Ended(k)'
<1>1. SameFile(rx, rx')
  BY DEF SameFile
<1> QED
  BY <1>1, LastingDoes, PlacesStay DEF Lasting

LEMMA AtMost == 1 <= 1 /\ \A n \in Nat : 0 <= n /\ \A k \in Nat : k > n => ~(k <= n)
OBVIOUS

\* The receiver asks for the first block.
LEMMA AskedGoesOn ==
  ASSUME Known, Known', Lasting, OneAnswer, Active, Heard, UNCHANGED <<rx, files, down>>,
         tx.pc = "sync" \/ (tx.pc = "wait C" /\ tx.next = "load"),
         tx'.pc = "load", SameBlock(tx, tx')
  PROVE  OneAnswer'
<1>1. At /\ InSession
  BY OneAnswerActive
<1>2. tx.block = 0
  BY DEF Known, SenderKnown, Starting
<1>3. At'
  <2> SUFFICES ASSUME NEW k \in Nat, NEW t \in Nat, k = tx'.file, t = tx'.block
               PROVE  Stage(k, t)'
    BY DEF At
  <2>1. Stage(k, t) /\ t = 0
    BY <1>1, <1>2 DEF At, SameBlock
  <2>2. Has(k, t)
    BY <2>1 DEF Stage
  <2> QED
    BY <2>2, TxPlacesStay DEF Stage
<1>4. InSession'
  <2>1. ~tx.batch => Len(Source) = 1 /\ Source[1] = tx.size
    BY SourceType DEF Known
  <2>2. tx.pc = "sync" => ~tx.batch
    BY DEF Known, SenderKnown
  <2>3. tx.file <= Len(Source) /\ tx.size = Source[tx.file]
    <3>1. CASE tx.pc = "sync"
      <4>1. tx.file = 1 /\ Len(Source) = 1 /\ Source[1] = tx.size
        BY <1>1, <2>1, <2>2, <3>1 DEF InSession
      <4>2. tx.file <= Len(Source)
        BY <4>1, AtMost, Zenon
      <4>3. tx.size = Source[tx.file]
        BY <4>1, Zenon
      <4> QED
        BY <4>2, <4>3
    <3>2. CASE tx.pc = "wait C" /\ tx.next = "load"
      BY <1>1, <3>2 DEF InSession
    <3> QED
      BY <3>1, <3>2
  <2> QED
    BY <1>1, <2>3, TxPlacesStay DEF InSession, SameBlock
<1> QED
  BY <1>3, <1>4, HeardGoesOn

\* The block is acknowledged.
LEMMA AckedGoesOn ==
  ASSUME Known, Known', Lasting, OneAnswer, Active, Heard, UNCHANGED <<rx, files, down>>,
         tx.pc = "ack", HasAck(up), tx' = TxAcked
  PROVE  OneAnswer'
<1>1. At /\ InSession
  BY OneAnswerActive
<1>2. tx'.pc = "load" /\ tx'.block = tx.block /\ tx'.file = tx.file /\ tx'.size = tx.size
  <2>1. tx \in TxRecord /\ "load" \in TxPlaces
    BY LinesTyped DEF TxPlaces
  <2>2. PICK u \in TxRecord : u = To("load") /\ SameBlock(tx, u) /\ u.pc = "load"
    BY <2>1, ToOp
  <2> QED
    BY <2>2 DEF TxAcked, TxRecord, SameBlock
<1>3. At'
  <2> SUFFICES ASSUME NEW k \in Nat, NEW t \in Nat, k = tx'.file, t = tx'.block
               PROVE  Stage(k, t)'
    BY DEF At
  <2>1. Stage(k, t)
    BY <1>1, <1>2 DEF At
  <2>2. Has(k, t)
    BY <2>1 DEF Stage
  <2> QED
    BY <1>2, <2>2, TxPlacesStay DEF Stage
<1>4. InSession'
  BY <1>1, <1>2, TxPlacesStay DEF InSession
<1> QED
  BY <1>2, <1>3, <1>4, HeardGoesOn

\* A block is read, or the end of the file.
LEMMA TokenSends ==
  ASSUME Lasting, Token, Sends, Sends', UNCHANGED <<down, up, rx>>
  PROVE  Token'
<1>1. tx'.batch = tx.batch /\ tx.pc # "wait C" /\ tx'.pc # "wait C" /\ tx'.pc # "can"
  BY DEF Lasting, Sends
<1>2. down = <<>> /\ ~AnswersIn(up) /\ rx.pc # "flush"
  BY DEF Token, TokenDown, TokenUp, TokenRx
<1>3. TokenDown'
  BY <1>2 DEF TokenDown
<1>4. TokenUp'
  <2>1. ~AnswersIn(up)' /\ NoCan(up)'
    BY <1>1, <1>2, UpStays DEF Token, TokenUp
  <2>2. Tidy(up, rx.pc = "wait")'
    BY <2>1 DEF AnswersIn, Tidy
  <2> QED
    BY <2>1, <2>2 DEF TokenUp
<1>5. TokenRx'
  BY <1>1, <1>2 DEF Token, TokenRx
<1>6. TokenTx'
  BY <1>1 DEF TokenTx
<1> QED
  BY <1>3, <1>4, <1>5, <1>6 DEF Token

LEMMA SendsHas ==
  ASSUME OneAnswer, Active, Sends, up' = up, Lasting
  PROVE  down = <<>> /\ ~AnswersIn(up) /\ ~HasAck(up)' /\ rx.pc # "flush"
<1>1. Token
  BY OneAnswerActive
<1>2. down = <<>> /\ ~AnswersIn(up) /\ rx.pc # "flush"
  BY <1>1 DEF Token, TokenDown, TokenUp, TokenRx
<1>3. ~HasAck(up)
  BY <1>2 DEF AnswersIn, HasAck, Asks
<1> QED
  BY <1>2, <1>3 DEF HasAck

LEMMA LoadGoesOn ==
  ASSUME Known, Known', Quiet', Lasting, OneAnswer, Active, TxLoad
  PROVE  OneAnswer'
<1>1. At /\ InSession /\ Token
  BY OneAnswerActive
<1>2. tx.pc = "load" /\ UNCHANGED <<down, up, rx, files>> /\ Sends
  BY DEF TxLoad, line, Sends
<1>3. ~HasAck(up)'
  BY <1>2, SendsHas
<1>4. tx \in TxRecord /\ "send" \in TxPlaces /\ "eot" \in TxPlaces
  BY LinesTyped DEF TxPlaces
<1>5. PICK k \in Nat, t \in Nat : k = tx.file /\ t = tx.block
  BY <1>4 DEF TxRecord
<1>6. Has(k, t) /\ Has(k, t)'
  <2>1. Has(k, t)
    BY <1>1, <1>2, <1>5 DEF At, Stage
  <2> QED
    BY <1>2, <2>1, TxPlacesStay
<1>7. tx.file <= Len(Source) /\ tx.size = Source[tx.file]
  BY <1>1, <1>2 DEF InSession
<1>8. CASE tx.block < tx.size /\ \E blank \in BOOLEAN :
             tx' = [To("send") EXCEPT !.block = @ + 1, !.blank = blank]
  <2>1. PICK blank \in BOOLEAN : tx' = [To("send") EXCEPT !.block = @ + 1, !.blank = blank]
    BY <1>8
  <2>2. PICK u \in TxRecord : u = To("send") /\ SameBlock(tx, u) /\ u.pc = "send"
    BY <1>4, ToOp
  <2>3. PICK n \in Nat : n = t + 1
    OBVIOUS
  <2>4. tx' = [u EXCEPT !.block = n, !.blank = blank]
    BY <1>5, <2>1, <2>2, <2>3 DEF SameBlock, TxRecord
  <2>5. tx'.pc = "send" /\ tx'.block = n /\ tx'.file = tx.file /\ tx'.size = tx.size
    BY <2>2, <2>4 DEF TxRecord, SameBlock
  <2>6. n - 1 = t
    BY <2>3
  <2>7. At'
    <3>1. Stage(k, n)'
      BY <1>3, <1>6, <2>5, <2>6 DEF Stage
    <3> QED
      BY <1>5, <2>5, <3>1 DEF At
  <2>8. n <= tx.size
    BY <1>4, <1>5, <1>8, <2>3, BlockNumbers
  <2>9. InSession'
    BY <1>1, <1>2, <1>7, <2>5, <2>8, TxPlacesStay DEF InSession
  <2>10. Sends' /\ ~Left'
    BY <2>5 DEF Sends, Left, Ends
  <2>11. Token'
    BY <1>1, <1>2, <2>10, TokenSends
  <2> QED
    BY <1>2, <2>7, <2>9, <2>10, <2>11, TxGoesOn
<1>9. CASE tx' = To("eot") /\ (tx.block = tx.size \/ trouble' = trouble \cup {"error"})
  <2>1. tx'.pc = "eot" /\ SameBlock(tx, tx')
    BY <1>4, <1>9, ToOp
  <2>2. Exact' => t = Source[k]
    <3>1. CASE tx.block = tx.size
      BY <1>5, <1>7, <3>1
    <3>2. CASE trouble' = trouble \cup {"error"}
      BY <3>2 DEF Exact
    <3> QED
      BY <1>9, <3>1, <3>2
  <2>3. At'
    <3>1. Stage(k, t)'
      BY <1>2, <1>3, <1>6, <2>1, <2>2, TxPlacesStay DEF Stage
    <3> QED
      BY <1>5, <2>1, <3>1 DEF At, SameBlock
  <2>4. InSession'
    BY <1>1, <1>2, <1>7, <2>1, TxPlacesStay DEF InSession, SameBlock
  <2>5. Sends' /\ ~Left'
    BY <2>1 DEF Sends, Left, Ends
  <2>6. Token'
    BY <1>1, <1>2, <2>5, TokenSends
  <2> QED
    BY <1>2, <2>3, <2>4, <2>5, <2>6, TxGoesOn
<1> QED
  BY <1>8, <1>9 DEF TxLoad

\* An item is put on the empty line.
LEMMA PutGoesOn ==
  ASSUME Known, Known', Lasting, OneAnswer, Active, Sends, UNCHANGED <<up, rx, files>>,
         NEW x \in Items, down' = Push(down, <<x>>), Awaited(x)', SameBlock(tx, tx'),
         \/ tx.pc = "send" /\ tx'.pc = "ack"
         \/ tx.pc = "eot" /\ tx'.pc = "eot ack"
         \/ tx.pc = "header" /\ tx'.pc = "header ack"
  PROVE  OneAnswer'
<1>1. At /\ InSession /\ Token
  BY OneAnswerActive
<1>2. down = <<>> /\ ~AnswersIn(up) /\ ~HasAck(up)' /\ rx.pc # "flush"
  BY SendsHas
<1>3. down' = <<x>>
  BY <1>2, PushedAlone
<1>4. tx'.batch = tx.batch /\ ~Sends' /\ ~Left' /\ tx'.pc # "can" /\ tx'.pc # "wait C"
  BY DEF Lasting, Sends, Left, Ends
<1>5. TokenDown'
  BY <1>3, <1>4 DEF TokenDown
<1>6. TokenUp'
  <2>1. ~AnswersIn(up)' /\ NoCan(up)'
    BY <1>1, <1>2, <1>4, UpStays DEF Token, TokenUp
  <2>2. Tidy(up, rx.pc = "wait")'
    BY <2>1 DEF AnswersIn, Tidy
  <2> QED
    BY <2>1, <2>2 DEF TokenUp
<1>7. TokenRx'
  BY <1>1, <1>2, <1>4 DEF Token, TokenRx
<1>8. TokenTx'
  BY <1>4 DEF TokenTx
<1>9. At'
  <2> SUFFICES ASSUME NEW k \in Nat, NEW t \in Nat, k = tx'.file, t = tx'.block
               PROVE  Stage(k, t)'
    BY DEF At
  <2>1. Stage(k, t)
    BY <1>1 DEF At, SameBlock
  <2> QED
    BY <1>2, <2>1, TxPlacesStay DEF Stage
<1>10. InSession'
  BY <1>1, TxPlacesStay DEF InSession, SameBlock
<1> QED
  BY <1>4, <1>5, <1>6, <1>7, <1>8, <1>9, <1>10, TxGoesOn DEF Token

LEMMA AckHere ==
  ASSUME Known, up # <<>>, Head(up).kind = "ACK"
  PROVE  HasAck(up) /\ Asks(Head(up))
<1>1. 1 \in DOMAIN up /\ Head(up) = up[1]
  BY LinesTyped, HeadIn
<1> QED
  BY <1>1 DEF HasAck, Asks

\* Nothing cancels a transfer that both ends go on with.
LEMMA NoCanHere ==
  ASSUME Known, OneAnswer, Active, up # <<>>
  PROVE  Head(up).kind # "CAN"
<1>1. 1 \in DOMAIN up /\ Head(up) = up[1]
  BY LinesTyped, HeadIn
<1> QED
  BY <1>1, OneAnswerActive DEF Token, TokenUp, NoCan

LEMMA PlacesTyped ==
  /\ {"sync", "send", "eot", "header", "wait C", "load"} \subseteq TxPlaces
  /\ {"nosync", "failed"} \subseteq Ends /\ "nosync" # "ok" /\ "failed" # "ok"
BY DEF TxPlaces, Ends

LEMMA TransmitSends ==
  ASSUME Known, Known', Lasting, OneAnswer, Active, TxSend \/ TxEot
  PROVE  OneAnswer'
<1>1. CASE TxSend
  <2>1. /\ tx.pc = "send" /\ UNCHANGED <<up, rx, files>> /\ down' = Push(down, <<Current>>)
        /\ tx' = [tx EXCEPT !.pc = "ack"]
    BY <1>1 DEF TxSend, TxKeeps, Current
  <2>2. /\ tx'.pc = "ack" /\ SameBlock(tx, tx') /\ tx'.crc = tx.crc /\ tx'.blank = tx.blank
    BY <2>1, LinesTyped DEF TxRecord, SameBlock
  <2>3. PICK x \in Items : x = Current
    BY LinesTyped, PacketIs DEF Current, Items
  <2>4. Awaited(x)'
    <3>1. Current' = Current
      BY <2>2 DEF Current, SameBlock
    <3>2. Spoilt(Current', x)
      BY <2>3, <3>1 DEF Spoilt
    <3> QED
      BY <2>2, <3>2 DEF Awaited, Spoilt
  <2> QED
    BY <2>1, <2>2, <2>3, <2>4, PutGoesOn DEF Sends
<1>2. CASE TxEot
  <2>1. /\ tx.pc = "eot" /\ UNCHANGED <<up, rx, files>> /\ down' = Push(down, <<Byte("EOT")>>)
        /\ tx' = [tx EXCEPT !.pc = "eot ack"]
    BY <1>2 DEF TxEot, TxKeeps
  <2>2. tx'.pc = "eot ack" /\ SameBlock(tx, tx')
    BY <2>1, LinesTyped DEF TxRecord, SameBlock
  <2>3. PICK x \in Items : x = Byte("EOT")
    BY BytesAreItems DEF Items
  <2>4. Awaited(x)'
    BY <2>2, <2>3 DEF Awaited
  <2> QED
    BY <2>1, <2>2, <2>3, <2>4, PutGoesOn DEF Sends
<1> QED
  BY <1>1, <1>2

\* xm_transmit
LEMMA TransmitGoesOn ==
  ASSUME Known, Known', Quiet', Lasting, OneAnswer, Active, ~tx.batch, TxStep
  PROVE  OneAnswer'
<1>1. ~Left /\ tx.pc # "can" /\ At
  BY OneAnswerActive
<1>2. up # <<>> => Asks(Head(up)) /\ Head(up).kind # "CAN"
  BY NoCanHere DEF Asks
<1>3. CASE TxSync
  <2>1. tx.pc = "sync" /\ up # <<>> /\ up' = Tail(up) /\ UNCHANGED <<rx, files>>
    BY <1>3 DEF TxSync, TxAt, TxKeeps
  <2>2. Heard
    BY <1>2, <2>1, AnswerHeard
  <2>3. CASE Head(up).kind \in {"C", "NAK"}
    <3>1. PICK b \in BOOLEAN : b = (Head(up).kind = "C")
      OBVIOUS
    <3>2. tx' = [To("load") EXCEPT !.crc = b] /\ down' = down
      BY <1>3, <2>3, <3>1 DEF TxSync
    <3>3. PICK u \in TxRecord : u = To("load") /\ SameBlock(tx, u) /\ u.pc = "load"
      BY ToOp, LinesTyped, PlacesTyped
    <3>4. SameBlock(tx, tx') /\ tx'.pc = "load"
      BY <3>2, <3>3 DEF TxRecord, SameBlock
    <3> QED
      BY <2>1, <2>2, <3>2, <3>4, AskedGoesOn
  <2>4. CASE RetrySync
    <3>1. Retry(SyncTries, "sync", "nosync") /\ <<tx.pc, "sync">> \in Retries
      BY <2>1, <2>4 DEF RetrySync, Retries
    <3> QED
      BY <2>1, <2>2, <3>1, PlacesTyped, RetryKeeps
  <2> QED
    BY <1>2, <1>3, <2>1, <2>3, <2>4 DEF TxSync
<1>4. CASE TxCan
  BY <1>1, <1>4 DEF TxCan, TxAt
<1>5. CASE TxLoad
  BY <1>5, LoadGoesOn
<1>6. CASE TxSend \/ TxEot
  BY <1>6, TransmitSends
<1>7. CASE TxAck
  <2>1. tx.pc = "ack" /\ up # <<>> /\ up' = Tail(up) /\ UNCHANGED <<rx, files>>
    BY <1>7 DEF TxAck, TxAt, TxKeeps
  <2>2. Heard
    BY <1>2, <2>1, AnswerHeard
  <2>3. CASE Head(up).kind = "ACK" /\ tx' = TxAcked /\ down' = down
    BY <2>1, <2>2, <2>3, AckHere, AckedGoesOn
  <2>4. CASE RetrySend
    <3>1. Retry(MaxRetrans, "send", "failed") /\ <<tx.pc, "send">> \in Retries
      BY <2>1, <2>4 DEF RetrySend, Retries
    <3> QED
      BY <2>1, <2>2, <3>1, PlacesTyped, RetryKeeps
  <2> QED
    BY <1>2, <1>7, <2>1, <2>3, <2>4 DEF TxAck
<1>8. CASE TxEotAck
  <2>1. tx.pc = "eot ack" /\ up # <<>> /\ up' = Tail(up) /\ UNCHANGED <<rx, files>>
    BY <1>8 DEF TxEotAck, TxAt, TxKeeps
  <2>2. Heard
    BY <1>2, <2>1, AnswerHeard
  <2>3. Head(up).kind # "ACK"
    <3>1. PICK k \in Nat, t \in Nat : k = tx.file /\ t = tx.block
      BY LinesTyped DEF TxRecord
    <3>2. Stage(k, t)
      BY <1>1, <3>1 DEF At
    <3>3. ~HasAck(up)
      BY <2>1, <3>2 DEF Stage
    <3> QED
      BY <2>1, <3>3, AckHere
  <2>4. Retry(EotTries, "eot", "failed") /\ <<tx.pc, "eot">> \in Retries
    BY <1>8, <2>1, <2>3 DEF TxEotAck, RetryEot, Retries
  <2> QED
    BY <2>1, <2>2, <2>4, PlacesTyped, RetryKeeps
<1>9. CASE TxTimeout
  <2>1. TxQuiet /\ up' = up /\ UNCHANGED <<rx, files>> /\ ~Sends
    BY <1>9 DEF TxTimeout, TxKeeps, Sends
  <2>2. Heard
    BY <2>1, SilenceHeard
  <2>3. CASE tx.pc = "sync" /\ RetrySync
    <3>1. Retry(SyncTries, "sync", "nosync") /\ <<tx.pc, "sync">> \in Retries
      BY <2>3 DEF RetrySync, Retries
    <3> QED
      BY <2>1, <2>2, <3>1, PlacesTyped, RetryKeeps
  <2>4. CASE tx.pc = "ack" /\ RetrySend
    <3>1. Retry(MaxRetrans, "send", "failed") /\ <<tx.pc, "send">> \in Retries
      BY <2>4 DEF RetrySend, Retries
    <3> QED
      BY <2>1, <2>2, <3>1, PlacesTyped, RetryKeeps
  <2>5. CASE tx.pc = "eot ack" /\ RetryEot
    <3>1. Retry(EotTries, "eot", "failed") /\ <<tx.pc, "eot">> \in Retries
      BY <2>5 DEF RetryEot, Retries
    <3> QED
      BY <2>1, <2>2, <3>1, PlacesTyped, RetryKeeps
  <2> QED
    BY <1>9, <2>3, <2>4, <2>5 DEF TxTimeout
<1>10. ~TxDrop /\ ~TxFlushed
  BY <1>1 DEF TxDrop, TxFlushed, Left
<1> QED
  BY <1>3, <1>4, <1>5, <1>6, <1>7, <1>8, <1>9, <1>10 DEF TxStep

\* The YMODEM sender
LEMMA BatchWaits ==
  ASSUME Known, Known', Quiet', Lasting, OneAnswer, Active, tx.batch, BatchWaitC
  PROVE  OneAnswer'
<1>1. tx.pc = "wait C" /\ up # <<>> /\ up' = Tail(up) /\ UNCHANGED <<rx, files, down>>
  BY DEF BatchWaitC, TxAt, TxKeeps
<1>2. Heard
  BY <1>1, AnswerHeard
<1>3. CASE tx' = tx
  BY <1>1, <1>3, LinesTyped, TailThins, UpThins
<1>4. CASE tx.next = "load" /\ tx' = To("load")
  <2>1. tx'.pc = "load" /\ SameBlock(tx, tx')
    BY <1>4, ToOp, LinesTyped, PlacesTyped
  <2> QED
    BY <1>1, <1>2, <1>4, <2>1, AskedGoesOn
<1>5. CASE tx.next # "load" /\ tx' = To("header")
  <2>1. tx'.pc = "header" /\ SameBlock(tx, tx')
    BY <1>5, ToOp, LinesTyped, PlacesTyped
  <2>2. At /\ InSession
    BY OneAnswerActive
  <2>3. ~HasAck(up)'
    BY <1>2 DEF Heard, AnswersIn, HasAck, Asks
  <2>4. At'
    <3> SUFFICES ASSUME NEW k \in Nat, NEW t \in Nat, k = tx'.file, t = tx'.block
                 PROVE  Stage(k, t)'
      BY DEF At
    <3>1. Stage(k, t)
      BY <2>1, <2>2 DEF At, SameBlock
    <3>2. Expects(k)
      BY <1>1, <1>5, <3>1 DEF Stage
    <3>3. Expects(k)'
      BY <1>1, <3>2, TxPlacesStay
    <3> QED
      BY <2>1, <2>3, <3>3 DEF Stage
  <2>5. InSession'
    BY <1>1, <2>1, <2>2, TxPlacesStay DEF InSession, SameBlock
  <2> QED
    BY <1>1, <1>2, <2>1, <2>4, <2>5, HeardGoesOn
<1> QED
  BY <1>3, <1>4, <1>5 DEF BatchWaitC

LEMMA BatchSendsHeader ==
  ASSUME Known, Known', Lasting, OneAnswer, Active, tx.batch, BatchHeader
  PROVE  OneAnswer'
<1>1. /\ tx.pc = "header" /\ UNCHANGED <<up, rx, files>> /\ down' = Push(down, <<Header>>)
      /\ tx' = [tx EXCEPT !.pc = "header ack"]
  BY DEF BatchHeader, TxKeeps
<1>2. tx'.pc = "header ack" /\ SameBlock(tx, tx')
  BY <1>1, LinesTyped DEF TxRecord, SameBlock
<1>3. PICK x \in Items : x = Header
  BY LinesTyped, HeaderIs DEF Items
<1>4. Awaited(x)'
  <2>1. Header' = Header
    BY <1>2 DEF Header, SameBlock
  <2>2. Spoilt(Header', x)
    BY <1>3, <2>1 DEF Spoilt
  <2> QED
    BY <1>2, <2>2 DEF Awaited, Spoilt
<1> QED
  BY <1>1, <1>2, <1>3, <1>4, PutGoesOn DEF Sends

\* No acknowledgement, or none that is meant for it.
LEMMA BatchNoAckKeeps ==
  ASSUME Known, Known', Lasting, OneAnswer, Active, tx.batch, up # <<>>, up' = Tail(up),
         UNCHANGED <<rx, files>>, NEW place \in {"send", "eot", "header"}, BatchNoAck(place),
         <<tx.pc, place>> \in Retries
  PROVE  OneAnswer'
<1>1. CASE Head(up).kind = "NAK" /\ Retry(BatchTries, place, "failed")
  <2>1. Asks(Head(up))
    BY <1>1 DEF Asks
  <2>2. Heard
    BY <2>1, AnswerHeard
  <2>3. place \in TxPlaces
    BY DEF TxPlaces
  <2> QED
    BY <1>1, <2>2, <2>3, PlacesTyped, RetryKeeps
<1>2. CASE UNCHANGED <<down, tx>>
  BY <1>2, LinesTyped, TailThins, UpThins
<1> QED
  BY <1>1, <1>2 DEF BatchNoAck, BatchRetry

\* The header is acknowledged.
LEMMA BatchHeaderTaken ==
  ASSUME Known, Known', Lasting, OneAnswer, Active, tx.batch, BatchHeaderAck
  PROVE  OneAnswer'
<1>1. tx.pc = "header ack" /\ up # <<>> /\ up' = Tail(up) /\ UNCHANGED <<rx, files>>
  BY DEF BatchHeaderAck, TxAt, TxKeeps
<1>2. CASE BatchNoAck("header")
  <2>1. <<tx.pc, "header">> \in Retries
    BY <1>1 DEF Retries
  <2> QED
    BY <1>1, <1>2, <2>1, BatchNoAckKeeps
<1>3. CASE /\ Head(up).kind = "ACK" /\ UNCHANGED down
           /\ tx' = IF tx.file > Len(Sizes) THEN Leave("ok")
                    ELSE [To("wait C") EXCEPT !.next = "load", !.packetno = 1, !.block = 0,
                                              !.size = Sizes[tx.file]]
  <2>1. HasAck(up) /\ Heard
    BY <1>1, <1>3, AckHere, AnswerHeard
  <2>2. At /\ InSession
    BY OneAnswerActive
  <2>3. PICK k \in Nat, t \in Nat : k = tx.file /\ t = tx.block
    BY LinesTyped DEF TxRecord
  <2>4. Has(k, 0) /\ k <= Len(Source)
    <3>1. Stage(k, t)
      BY <2>2, <2>3 DEF At
    <3> QED
      BY <1>1, <2>1, <3>1 DEF Stage
  <2>5. Source = Sizes /\ Len(Source) \in Nat
    BY SourceType DEF Known
  <2>6. ~(k > Len(Sizes))
    BY <2>4, <2>5
  <2>7. tx.file \in DOMAIN Sizes /\ Sizes[tx.file] \in Nat
    BY <2>3, <2>6, LinesTyped, FileSizes
  <2>8. PICK u \in TxRecord, size \in Nat :
          u = To("wait C") /\ SameBlock(tx, u) /\ u.pc = "wait C" /\ size = Sizes[tx.file]
    BY <2>7, ToOp, LinesTyped, PlacesTyped
  <2>9. tx' = [u EXCEPT !.next = "load", !.packetno = 1, !.block = 0, !.size = size]
    BY <1>3, <2>3, <2>6, <2>8
  <2>10. /\ tx'.pc = "wait C" /\ tx'.next = "load" /\ tx'.block = 0 /\ tx'.size = size
         /\ tx'.file = tx.file
    BY <2>8, <2>9 DEF TxRecord, SameBlock
  <2>11. At'
    <3>1. Stage(k, 0)'
      BY <1>1, <1>3, <2>4, <2>10, TxPlacesStay DEF Stage
    <3> QED
      BY <2>3, <2>10, <3>1 DEF At
  <2>12. InSession'
    <3>1. tx'.file <= Len(Source') /\ tx'.size = Source'[tx'.file]
      BY <1>1, <2>3, <2>4, <2>5, <2>8, <2>10, TxPlacesStay
    <3>2. tx'.block <= tx'.size
      BY <2>8, <2>10, AtMost, Zenon
    <3>3. tx'.file \in 1 .. Len(Source') + 1 /\ tx'.batch
      BY <1>1, <2>2, <2>10, TxPlacesStay DEF InSession
    <3> QED
      BY <3>1, <3>2, <3>3 DEF InSession
  <2> QED
    BY <1>1, <1>3, <2>1, <2>10, <2>11, <2>12, HeardGoesOn
<1> QED
  BY <1>2, <1>3 DEF BatchHeaderAck

\* The end of the file is acknowledged.
LEMMA BatchEotTaken ==
  ASSUME Known, Known', Lasting, OneAnswer, Active, tx.batch, BatchEotAck
  PROVE  OneAnswer'
<1>1. tx.pc = "eot ack" /\ up # <<>> /\ up' = Tail(up) /\ UNCHANGED <<rx, files>>
  BY DEF BatchEotAck, TxAt, TxKeeps
<1>2. CASE BatchNoAck("eot")
  <2>1. <<tx.pc, "eot">> \in Retries
    BY <1>1 DEF Retries
  <2> QED
    BY <1>1, <1>2, <2>1, BatchNoAckKeeps
<1>3. CASE /\ Head(up).kind = "ACK" /\ UNCHANGED down
           /\ tx' = [To("wait C") EXCEPT !.next = "header", !.file = @ + 1]
  <2>1. HasAck(up) /\ Heard
    BY <1>1, <1>3, AckHere, AnswerHeard
  <2>2. At /\ InSession
    BY OneAnswerActive
  <2>3. PICK k \in Nat, t \in Nat : k = tx.file /\ t = tx.block
    BY LinesTyped DEF TxRecord
  <2>4. Expects(k + 1)
    <3>1. Stage(k, t)
      BY <2>2, <2>3 DEF At
    <3> QED
      BY <1>1, <2>1, <3>1 DEF Stage
  <2>5. PICK n \in Nat : n = k + 1
    OBVIOUS
  <2>6. PICK u \in TxRecord : u = To("wait C") /\ SameBlock(tx, u) /\ u.pc = "wait C"
    BY ToOp, LinesTyped, PlacesTyped
  <2>7. tx' = [u EXCEPT !.next = "header", !.file = n]
    BY <1>3, <2>3, <2>5, <2>6 DEF TxRecord, SameBlock
  <2>8. /\ tx'.pc = "wait C" /\ tx'.next = "header" /\ tx'.block = tx.block /\ tx'.size = tx.size
        /\ tx'.file = n
    BY <2>6, <2>7 DEF TxRecord, SameBlock
  <2>9. At'
    <3>1. Expects(n)'
      BY <1>1, <2>4, <2>5, TxPlacesStay
    <3>2. Stage(n, t)'
      BY <2>8, <3>1 DEF Stage
    <3> QED
      BY <2>3, <2>8, <3>2 DEF At
  <2>10. InSession'
    <3>1. k \in 1 .. Len(Source) /\ Len(Source) \in Nat
      <4>1. tx.file \in 1 .. Len(Source) + 1 /\ tx.file <= Len(Source) /\ Len(Source) \in Nat
        BY <1>1, <2>2, SourceType DEF InSession, Known
      <4> QED
        BY <2>3, <4>1
    <3>2. n \in 1 .. Len(Source) + 1
      BY <2>5, <3>1
    <3>3. tx'.file \in 1 .. Len(Source') + 1
      BY <1>1, <2>8, <3>2, TxPlacesStay
    <3>4. tx'.block <= tx'.size /\ tx'.batch
      BY <1>1, <2>2, <2>8, TxPlacesStay DEF InSession
    <3> QED
      BY <2>8, <3>3, <3>4 DEF InSession
  <2> QED
    BY <1>1, <1>3, <2>1, <2>8, <2>9, <2>10, HeardGoesOn
<1> QED
  BY <1>2, <1>3 DEF BatchEotAck

LEMMA BatchGoesOn ==
  ASSUME Known, Known', Quiet', Lasting, OneAnswer, Active, tx.batch, BatchStep
  PROVE  OneAnswer'
<1>1. ~Left
  BY OneAnswerActive
<1>2. CASE BatchWaitC \/ BatchHeader \/ BatchHeaderAck \/ BatchEotAck
  BY <1>2, BatchWaits, BatchSendsHeader, BatchHeaderTaken, BatchEotTaken
<1>3. CASE BatchAck
  <2>1. tx.pc = "ack" /\ up # <<>> /\ up' = Tail(up) /\ UNCHANGED <<rx, files>>
    BY <1>3 DEF BatchAck, TxAt, TxKeeps
  <2>2. CASE Head(up).kind = "ACK" /\ tx' = TxAcked /\ UNCHANGED down
    BY <2>1, <2>2, AckHere, AnswerHeard, AckedGoesOn
  <2>3. CASE BatchNoAck("send")
    <3>1. <<tx.pc, "send">> \in Retries
      BY <2>1 DEF Retries
    <3> QED
      BY <2>1, <2>3, <3>1, BatchNoAckKeeps
  <2> QED
    BY <1>3, <2>2, <2>3 DEF BatchAck
<1>4. CASE BatchTimeout
  <2>1. TxQuiet /\ up' = up /\ UNCHANGED <<rx, files>> /\ ~Sends
    BY <1>4 DEF BatchTimeout, TxKeeps, Sends
  <2>2. Heard
    BY <2>1, SilenceHeard
  <2>3. PICK place \in {"wait C", "header", "send", "eot"} :
          Retry(BatchTries, place, "failed") /\ <<tx.pc, place>> \in Retries
    BY <1>4 DEF BatchTimeout, BatchRetry, Retries
  <2>4. place \in TxPlaces
    BY PlacesTyped
  <2> QED
    BY <2>1, <2>2, <2>3, <2>4, PlacesTyped, RetryKeeps
<1>5. CASE TxLoad
  BY <1>5, LoadGoesOn
<1>6. CASE TxSend \/ TxEot
  BY <1>6, TransmitSends
<1>7. ~TxDrop /\ ~TxFlushed
  BY <1>1 DEF TxDrop, TxFlushed, Left
<1> QED
  BY <1>2, <1>3, <1>4, <1>5, <1>6, <1>7 DEF BatchStep

LEMMA SenderGoesOn ==
  ASSUME Known, Known', Quiet', Lasting, OneAnswer, Active, SenderStep
  PROVE  OneAnswer'
BY TransmitGoesOn, BatchGoesOn DEF SenderStep

-----------------------------------------------------------------------------
(* The sender, when the receiver has ended the transfer *)

LEMMA UpReadThins ==
  ASSUME Known, Known', Lasting, UpRead
  PROVE  /\ Thinned(up, up') /\ up \in Seq(ByteItems) /\ up' \in Seq(ByteItems)
         /\ HasAck(up)' => HasAck(up)
         /\ NoC(up) => NoC(up)'
         /\ NoMoreC(up) => NoMoreC(up)'
<1>1. up \in Seq(ByteItems) /\ up' \in Seq(ByteItems)
  BY DEF Known, TypeOK, LineOK
<1>2. Thinned(up, up')
  BY <1>1, TailThins, ThinnedSame DEF UpRead
<1>3. /\ HasAck(up') => HasAck(up)
      /\ NoC(up) => NoC(up')
      /\ NoMoreC(up) => NoMoreC(up')
  BY <1>1, <1>2, AnswersThin
<1> QED
  BY <1>1, <1>2, <1>3 DEF HasAck, NoC, NoMoreC

\* All of xm_transmit's files, which is one, are in the session.
LEMMA OneInSession ==
  ASSUME Known', ~tx'.batch
  PROVE  InSession'
<1>1. tx'.file = 1 /\ tx'.block <= tx'.size /\ Source' = <<tx'.size>>
  BY DEF Known, SenderKnown, Source
<1>2. PICK size : size = tx'.size
  OBVIOUS
<1>3. Len(<<size>>) = 1 /\ <<size>>[1] = size /\ 1 \in 1 .. 1 + 1
  OBVIOUS
<1>4. Len(Source') = 1 /\ Source'[1] = tx'.size
  BY <1>1, <1>2, <1>3
<1>5. tx'.file \in 1 .. Len(Source') + 1 /\ tx'.file <= Len(Source') /\ tx'.size = Source'[tx'.file]
  <2>1. tx'.file \in 1 .. Len(Source') + 1
    BY <1>1, <1>3, <1>4, Zenon
  <2>2. tx'.file <= Len(Source')
    BY <1>1, <1>4, AtMost, Zenon
  <2> QED
    BY <1>1, <1>4, <2>1, <2>2
<1> QED
  BY <1>1, <1>5 DEF InSession

LEMMA RetryLeaves ==
  ASSUME Known, NEW tries, NEW place \in TxPlaces, place \notin {"flush"} \cup Ends,
         NEW failed \in Ends, failed # "ok", Retry(tries, place, failed)
  PROVE  /\ ~LeftOk' /\ SameBlock(tx, tx')
         /\ \/ tx'.pc = place /\ tx'.next = tx.next
            \/ tx'.pc = "flush"
<1>1. /\ SameBlock(tx, tx')
      /\ \/ tx'.pc = place /\ tx'.next = tx.next
         \/ tx'.pc = "flush" /\ tx'.next = failed
  BY LinesTyped, RetryDoes
<1> QED
  BY <1>1 DEF LeftOk, Ends

\* xm_transmit succeeds by an ACK for its EOT only.
LEMMA TransmitEnds ==
  ASSUME Known, ~tx.batch, ~Left, TxStep
  PROVE  /\ UpRead /\ UNCHANGED <<rx, files>>
         /\ LeftOk' => tx.pc = "eot ack" /\ HasAck(up)
         /\ tx.pc \in {"eot", "eot ack"} => Left' \/ tx'.pc \in {"eot", "eot ack"}
<1>1. /\ {"sync", "send", "eot", "load"} \subseteq TxPlaces /\ {"nosync", "failed"} \subseteq Ends
      /\ \A p \in {"sync", "send", "eot", "load", "can", "ack", "eot ack"} : p \notin {"flush"} \cup Ends
      /\ tx \in TxRecord /\ "nosync" # "ok" /\ "failed" # "ok"
  BY LinesTyped DEF TxPlaces, Ends
<1>2. RetrySync \/ RetrySend => ~LeftOk'
  <2>1. CASE RetrySync
    BY <1>1, <2>1, RetryLeaves DEF RetrySync
  <2>2. CASE RetrySend
    BY <1>1, <2>2, RetryLeaves DEF RetrySend
  <2> QED
    BY <2>1, <2>2
<1>3. RetryEot => ~LeftOk' /\ (Left' \/ tx'.pc = "eot")
  BY <1>1, RetryLeaves DEF RetryEot, Left
<1>4. \A p : tx'.pc = p /\ p \notin {"flush"} \cup Ends => ~LeftOk'
  BY DEF LeftOk, Ends
<1>5. \A place \in {"load", "send", "eot"} : To(place) \in TxRecord /\ To(place).pc = place
  BY <1>1, ToOp
<1>6. CASE TxSync
  <2>1. tx.pc = "sync" /\ UpRead /\ UNCHANGED <<rx, files>>
    BY <1>6 DEF TxSync, TxAt, TxKeeps, UpRead
  <2>2. [To("load") EXCEPT !.crc = Head(up).kind = "C"].pc = "load"
    BY <1>5 DEF TxRecord
  <2>3. [tx EXCEPT !.pc = "can", !.next = "sync"].pc = "can"
    BY <1>1 DEF TxRecord
  <2>4. ~LeftOk'
    BY <1>1, <1>2, <1>4, <1>6, <2>2, <2>3 DEF TxSync
  <2> QED
    BY <2>1, <2>4
<1>7. CASE TxCan
  <2>1. tx.pc = "can" /\ UpRead /\ UNCHANGED <<rx, files>>
    BY <1>7 DEF TxCan, TxAt, TxKeeps, UpRead
  <2>2. Leave("cancelled").pc = "flush" /\ Leave("cancelled").next = "cancelled"
    BY <1>1, LeaveOp DEF Ends
  <2>3. ~LeftOk'
    BY <1>2, <1>7, <2>2 DEF TxCan, LeftOk
  <2> QED
    BY <2>1, <2>3
<1>8. CASE TxLoad
  <2>1. tx.pc = "load" /\ UpRead /\ UNCHANGED <<rx, files>>
    BY <1>8 DEF TxLoad, line, UpRead
  <2>2. \A blank : [To("send") EXCEPT !.block = @ + 1, !.blank = blank].pc = "send"
    BY <1>5 DEF TxRecord
  <2>3. tx'.pc \in {"send", "eot"}
    BY <1>5, <1>8, <2>2 DEF TxLoad
  <2> QED
    BY <1>1, <1>4, <2>1, <2>3
<1>9. CASE TxSend \/ TxEot
  <2>1. tx.pc \in {"send", "eot"} /\ UpRead /\ UNCHANGED <<rx, files>>
    BY <1>9 DEF TxSend, TxEot, TxKeeps, UpRead
  <2>2. tx'.pc \in {"ack", "eot ack"} /\ (tx.pc = "eot" => tx'.pc = "eot ack")
    BY <1>1, <1>9 DEF TxSend, TxEot, TxRecord
  <2> QED
    BY <1>1, <1>4, <2>1, <2>2
<1>10. CASE TxAck
  <2>1. tx.pc = "ack" /\ UpRead /\ UNCHANGED <<rx, files>>
    BY <1>10 DEF TxAck, TxAt, TxKeeps, UpRead
  <2>2. TxAcked.pc = "load"
    BY <1>5 DEF TxAcked, TxRecord
  <2>3. [tx EXCEPT !.pc = "can", !.next = "send"].pc = "can"
    BY <1>1 DEF TxRecord
  <2>4. ~LeftOk'
    BY <1>1, <1>2, <1>4, <1>10, <2>2, <2>3 DEF TxAck
  <2> QED
    BY <2>1, <2>4
<1>11. CASE TxEotAck
  <2>1. tx.pc = "eot ack" /\ UpRead /\ up # <<>> /\ UNCHANGED <<rx, files>>
    BY <1>11 DEF TxEotAck, TxAt, TxKeeps, UpRead
  <2>2. Leave("ok").pc = "flush"
    BY <1>1, LeaveOp DEF Ends
  <2>3. CASE Head(up).kind = "ACK" /\ tx' = Leave("ok")
    BY <2>1, <2>2, <2>3, AckHere DEF Left
  <2>4. CASE RetryEot
    BY <1>3, <2>1, <2>4
  <2> QED
    BY <1>11, <2>3, <2>4 DEF TxEotAck
<1>12. CASE TxTimeout
  <2>1. UpRead /\ UNCHANGED <<rx, files>>
    BY <1>12 DEF TxTimeout, TxKeeps, UpRead
  <2> QED
    BY <1>2, <1>3, <1>12, <2>1 DEF TxTimeout
<1>13. ~TxDrop /\ ~TxFlushed
  BY DEF TxDrop, TxFlushed, Left
<1> QED
  BY <1>6, <1>7, <1>8, <1>9, <1>10, <1>11, <1>12, <1>13 DEF TxStep

\* What a step of the YMODEM sender does.
Paths ==
  {<<"ack", "send">>, <<"ack", "load">>, <<"load", "eot">>, <<"send", "ack">>,
   <<"eot", "eot ack">>, <<"eot ack", "eot">>, <<"header", "header ack">>,
   <<"header ack", "header">>}
BatchGivesUp == tx'.pc = "flush" /\ ~LeftOk'
BatchSucceeds ==
  tx'.pc = "flush" /\ tx.pc = "header ack" /\ HasAck(up) /\ tx.file > Len(Sizes)
BatchGoes ==
  /\ tx'.file = tx.file /\ tx'.size = tx.size /\ tx'.block = tx.block
  /\ \/ tx'.pc = tx.pc /\ tx'.next = tx.next
     \/ <<tx.pc, tx'.pc>> \in Paths
BatchReads ==
  /\ tx'.file = tx.file /\ tx'.size = tx.size /\ tx'.block <= tx.size
  /\ tx.pc = "load" /\ tx'.pc = "send"
BatchIsAsked ==
  /\ tx'.file = tx.file /\ tx'.size = tx.size /\ tx'.block = tx.block
  /\ tx.pc = "wait C" /\ up # <<>> /\ Head(up).kind = "C"
  /\ tx'.pc = IF tx.next = "load" THEN "load" ELSE "header"
BatchOpens ==
  /\ tx.pc = "header ack" /\ HasAck(up) /\ tx.file <= Len(Sizes)
  /\ tx'.file = tx.file /\ tx'.block = 0 /\ tx'.size = Sizes[tx.file] /\ tx'.size \in Nat
  /\ tx'.pc = "wait C" /\ tx'.next = "load"
BatchCloses ==
  /\ tx.pc = "eot ack" /\ up # <<>> /\ Head(up).kind = "ACK" /\ up' = Tail(up)
  /\ tx'.file = tx.file + 1 /\ tx'.block = tx.block /\ tx'.size = tx.size
  /\ tx'.pc = "wait C" /\ tx'.next = "header"

BatchMoves ==
  BatchGivesUp \/ BatchSucceeds \/ BatchGoes \/ BatchReads \/ BatchIsAsked \/ BatchOpens
  \/ BatchCloses

LEMMA BatchRetryMoves ==
  ASSUME Known, NEW place \in {"send", "eot", "header", "wait C"}, BatchRetry(place),
         <<tx.pc, place>> \in Retries
  PROVE  BatchMoves
<1>1. place \in TxPlaces /\ place \notin {"flush"} \cup Ends /\ "failed" \in Ends /\ "failed" # "ok"
  BY DEF TxPlaces, Ends
<1>2. /\ ~LeftOk' /\ SameBlock(tx, tx')
      /\ (tx'.pc = place /\ tx'.next = tx.next) \/ tx'.pc = "flush"
  BY <1>1, RetryLeaves DEF BatchRetry
<1>3. tx.pc = place \/ <<tx.pc, place>> \in Paths
  BY DEF Retries, Paths
<1> QED
  BY <1>2, <1>3 DEF BatchMoves, BatchGoes, BatchGivesUp, SameBlock

LEMMA BatchNoAckMoves ==
  ASSUME Known, NEW place \in {"send", "eot", "header"}, BatchNoAck(place),
         <<tx.pc, place>> \in Retries
  PROVE  BatchMoves
<1>1. CASE BatchRetry(place)
  BY <1>1, BatchRetryMoves
<1>2. CASE UNCHANGED <<down, tx>>
  BY <1>2 DEF BatchMoves, BatchGoes
<1> QED
  BY <1>1, <1>2 DEF BatchNoAck

LEMMA BatchDoes ==
  ASSUME Known, tx.batch, ~Left, BatchStep
  PROVE  UpRead /\ UNCHANGED <<rx, files>> /\ BatchMoves
<1>1. tx \in TxRecord
  BY LinesTyped
<1>2. \A place \in {"load", "send", "eot", "header", "wait C"} :
        To(place) \in TxRecord /\ SameBlock(tx, To(place)) /\ To(place).pc = place
  BY <1>1, ToOp, PlacesTyped
<1>3. CASE BatchWaitC
  <2>1. tx.pc = "wait C" /\ UpRead /\ up # <<>> /\ UNCHANGED <<rx, files>>
    BY <1>3 DEF BatchWaitC, TxAt, TxKeeps, UpRead
  <2>2. CASE tx' = tx
    BY <2>1, <2>2 DEF BatchMoves, BatchGoes
  <2>3. CASE Head(up).kind = "C" /\ tx' = To(IF tx.next = "load" THEN "load" ELSE "header")
    <3>1. BatchIsAsked
      BY <1>2, <2>1, <2>3 DEF BatchIsAsked, SameBlock
    <3> QED
      BY <2>1, <3>1 DEF BatchMoves
  <2> QED
    BY <1>3, <2>2, <2>3 DEF BatchWaitC
<1>4. CASE BatchHeader \/ TxSend \/ TxEot
  <2>1. UpRead /\ UNCHANGED <<rx, files>>
    BY <1>4 DEF BatchHeader, TxSend, TxEot, TxKeeps, UpRead
  <2>2. PICK p \in {"header ack", "ack", "eot ack"} :
          tx' = [tx EXCEPT !.pc = p] /\ <<tx.pc, p>> \in Paths
    BY <1>4 DEF BatchHeader, TxSend, TxEot, Paths
  <2>3. BatchGoes
    BY <1>1, <2>2 DEF BatchGoes, TxRecord
  <2> QED
    BY <2>1, <2>3 DEF BatchMoves
<1>5. CASE BatchHeaderAck
  <2>1. tx.pc = "header ack" /\ UpRead /\ up # <<>> /\ UNCHANGED <<rx, files>>
    BY <1>5 DEF BatchHeaderAck, TxAt, TxKeeps, UpRead
  <2>2. CASE BatchNoAck("header")
    <3>1. <<tx.pc, "header">> \in Retries
      BY <2>1 DEF Retries
    <3> QED
      BY <2>1, <2>2, <3>1, BatchNoAckMoves
  <2>3. CASE Head(up).kind = "ACK" /\ tx.file > Len(Sizes) /\ tx' = Leave("ok")
    <3>1. Leave("ok").pc = "flush"
      BY <1>1, LeaveOp DEF Ends
    <3>2. BatchSucceeds
      BY <2>1, <2>3, <3>1, AckHere DEF BatchSucceeds
    <3> QED
      BY <2>1, <3>2 DEF BatchMoves
  <2>4. CASE /\ Head(up).kind = "ACK" /\ ~(tx.file > Len(Sizes))
             /\ tx' = [To("wait C") EXCEPT !.next = "load", !.packetno = 1, !.block = 0,
                                           !.size = Sizes[tx.file]]
    <3>1. tx.file \in DOMAIN Sizes /\ Sizes[tx.file] \in Nat
      BY <1>1, <2>4, FileSizes
    <3>2. PICK u \in TxRecord, size \in Nat :
            u = To("wait C") /\ SameBlock(tx, u) /\ u.pc = "wait C" /\ size = Sizes[tx.file]
      BY <1>2, <3>1
    <3>3. tx' = [u EXCEPT !.next = "load", !.packetno = 1, !.block = 0, !.size = size]
      BY <2>4, <3>2
    <3>4. /\ tx'.pc = "wait C" /\ tx'.next = "load" /\ tx'.block = 0 /\ tx'.size = size
          /\ tx'.file = tx.file
      BY <3>2, <3>3 DEF TxRecord, SameBlock
    <3>5. tx.file <= Len(Sizes)
      <4>1. DOMAIN Sizes = 1 .. Len(Sizes)
        BY Constants
      <4> QED
        BY <3>1, <4>1
    <3>6. BatchOpens
      BY <2>1, <2>4, <3>2, <3>4, <3>5, AckHere DEF BatchOpens
    <3> QED
      BY <2>1, <3>6 DEF BatchMoves
  <2> QED
    BY <1>5, <2>2, <2>3, <2>4 DEF BatchHeaderAck
<1>6. CASE BatchAck
  <2>1. tx.pc = "ack" /\ UpRead /\ up # <<>> /\ UNCHANGED <<rx, files>>
    BY <1>6 DEF BatchAck, TxAt, TxKeeps, UpRead
  <2>2. CASE BatchNoAck("send")
    <3>1. <<tx.pc, "send">> \in Retries
      BY <2>1 DEF Retries
    <3> QED
      BY <2>1, <2>2, <3>1, BatchNoAckMoves
  <2>3. CASE tx' = TxAcked
    <3>1. PICK u \in TxRecord : u = To("load") /\ SameBlock(tx, u) /\ u.pc = "load"
      BY <1>2
    <3>2. tx'.pc = "load" /\ tx'.block = tx.block /\ tx'.file = tx.file /\ tx'.size = tx.size
      BY <2>3, <3>1 DEF TxAcked, TxRecord, SameBlock
    <3>3. BatchGoes
      BY <2>1, <3>2 DEF BatchGoes, Paths
    <3> QED
      BY <2>1, <3>3 DEF BatchMoves
  <2> QED
    BY <1>6, <2>2, <2>3 DEF BatchAck
<1>7. CASE BatchEotAck
  <2>1. tx.pc = "eot ack" /\ UpRead /\ up # <<>> /\ up' = Tail(up) /\ UNCHANGED <<rx, files>>
    BY <1>7 DEF BatchEotAck, TxAt, TxKeeps, UpRead
  <2>2. CASE BatchNoAck("eot")
    <3>1. <<tx.pc, "eot">> \in Retries
      BY <2>1 DEF Retries
    <3> QED
      BY <2>1, <2>2, <3>1, BatchNoAckMoves
  <2>3. CASE Head(up).kind = "ACK"
             /\ tx' = [To("wait C") EXCEPT !.next = "header", !.file = @ + 1]
    <3>1. PICK u \in TxRecord : u = To("wait C") /\ SameBlock(tx, u) /\ u.pc = "wait C"
      BY <1>2
    <3>2. PICK k \in Nat : k = tx.file
      BY <1>1 DEF TxRecord
    <3>3. PICK n \in Nat : n = k + 1
      OBVIOUS
    <3>4. tx' = [u EXCEPT !.next = "header", !.file = n]
      BY <2>3, <3>1, <3>2, <3>3 DEF TxRecord, SameBlock
    <3>5. /\ tx'.pc = "wait C" /\ tx'.next = "header" /\ tx'.block = tx.block /\ tx'.size = tx.size
          /\ tx'.file = n
      BY <3>1, <3>4 DEF TxRecord, SameBlock
    <3>6. BatchCloses
      BY <2>1, <2>3, <3>2, <3>3, <3>5 DEF BatchCloses
    <3> QED
      BY <2>1, <3>6 DEF BatchMoves
  <2> QED
    BY <1>7, <2>2, <2>3 DEF BatchEotAck
<1>8. CASE BatchTimeout
  <2>1. UpRead /\ UNCHANGED <<rx, files>>
    BY <1>8 DEF BatchTimeout, TxKeeps, UpRead
  <2>2. PICK place \in {"wait C", "header", "send", "eot"} :
          BatchRetry(place) /\ <<tx.pc, place>> \in Retries
    BY <1>8 DEF BatchTimeout, Retries
  <2> QED
    BY <2>1, <2>2, BatchRetryMoves
<1>9. CASE TxLoad
  <2>1. tx.pc = "load" /\ UpRead /\ UNCHANGED <<rx, files>>
    BY <1>9 DEF TxLoad, line, UpRead
  <2>2. CASE tx.block < tx.size /\ \E blank \in BOOLEAN :
               tx' = [To("send") EXCEPT !.block = @ + 1, !.blank = blank]
    <3>1. PICK blank \in BOOLEAN : tx' = [To("send") EXCEPT !.block = @ + 1, !.blank = blank]
      BY <2>2
    <3>2. PICK u \in TxRecord : u = To("send") /\ SameBlock(tx, u) /\ u.pc = "send"
      BY <1>2
    <3>3. PICK n \in Nat : n = tx.block + 1
      BY <1>1, BlockNumbers
    <3>4. tx' = [u EXCEPT !.block = n, !.blank = blank]
      BY <3>1, <3>2, <3>3 DEF SameBlock, TxRecord
    <3>5. tx'.pc = "send" /\ tx'.block = n /\ tx'.file = tx.file /\ tx'.size = tx.size
      BY <3>2, <3>4 DEF TxRecord, SameBlock
    <3>6. BatchReads
      BY <1>1, <2>1, <2>2, <3>3, <3>5, BlockNumbers DEF BatchReads
    <3> QED
      BY <2>1, <3>6 DEF BatchMoves
  <2>3. CASE tx' = To("eot")
    <3>1. BatchGoes
      BY <1>2, <2>1, <2>3 DEF BatchGoes, Paths, SameBlock
    <3> QED
      BY <2>1, <3>1 DEF BatchMoves
  <2> QED
    BY <1>9, <2>2, <2>3 DEF TxLoad
<1>10. ~TxDrop /\ ~TxFlushed
  BY DEF TxDrop, TxFlushed, Left
<1> QED
  BY <1>3, <1>4, <1>5, <1>6, <1>7, <1>8, <1>9, <1>10 DEF BatchStep

LEMMA BatchInSession ==
  ASSUME Known, Lasting, tx.batch, InSession, BatchMoves, ~Left'
  PROVE  InSession'
<1>1. Source' = Source /\ tx'.batch = tx.batch /\ Source = Sizes /\ Len(Source) \in Nat
  BY LastingDoes, SourceType DEF Lasting, Known
<1>2. tx'.pc # "flush"
  BY DEF Left
<1>3. CASE BatchGoes
  <2>1. \/ tx'.pc = tx.pc /\ tx'.next = tx.next
        \/ /\ tx'.pc \in {"load", "send", "ack", "eot", "eot ack"}
           /\ tx.pc \in {"load", "send", "ack", "eot", "eot ack"}
        \/ tx'.pc \in {"header", "header ack"}
    BY <1>3 DEF BatchGoes, Paths
  <2> QED
    BY <1>1, <1>3, <2>1 DEF BatchGoes, InSession
<1>4. CASE BatchReads
  BY <1>1, <1>4 DEF BatchReads, InSession
<1>5. CASE BatchIsAsked
  BY <1>1, <1>5 DEF BatchIsAsked, InSession
<1>6. CASE BatchOpens
  <2>1. tx'.block <= tx'.size
    BY <1>6, AtMost, Zenon DEF BatchOpens
  <2>2. tx'.file \in 1 .. Len(Source) + 1 /\ tx'.file <= Len(Source) /\ tx'.size = Source[tx'.file]
    BY <1>1, <1>6 DEF BatchOpens, InSession
  <2> QED
    BY <1>1, <2>1, <2>2 DEF InSession
<1>7. CASE BatchCloses
  <2>1. PICK k \in Nat : k = tx.file
    BY LinesTyped DEF TxRecord
  <2>2. k \in 1 .. Len(Source)
    <3>1. tx.file \in 1 .. Len(Source) + 1 /\ tx.file <= Len(Source)
      BY <1>7 DEF BatchCloses, InSession
    <3> QED
      BY <1>1, <2>1, <3>1
  <2>3. k + 1 \in 1 .. Len(Source) + 1
    BY <1>1, <2>2
  <2>4. tx'.file \in 1 .. Len(Source) + 1
    BY <1>7, <2>1, <2>3 DEF BatchCloses
  <2> QED
    BY <1>1, <1>7, <2>4 DEF BatchCloses, InSession
<1> QED
  BY <1>2, <1>3, <1>4, <1>5, <1>6, <1>7 DEF BatchMoves, BatchGivesUp, BatchSucceeds

\* After the last ACK there is no C.
LEMMA LastAckTaken ==
  ASSUME NEW q \in Seq(ByteItems), q # <<>>, Head(q).kind = "ACK", NoMoreC(q)
  PROVE  NoC(Tail(q))
<1>1. /\ Tail(q) \in Seq(ByteItems) /\ Len(Tail(q)) = Len(q) - 1
      /\ \A i \in 1 .. Len(q) - 1 : Tail(q)[i] = q[i + 1]
      /\ Head(q) = q[1]
  BY TailThins
<1>2. DOMAIN Tail(q) = 1 .. Len(q) - 1 /\ DOMAIN q = 1 .. Len(q)
  BY <1>1
<1>3. ASSUME NEW i \in DOMAIN Tail(q)
      PROVE  Tail(q)[i].kind # "C"
  <2>1. i + 1 \in DOMAIN q /\ 1 \in DOMAIN q /\ 1 < i + 1 /\ Tail(q)[i] = q[i + 1]
    BY <1>1, <1>2
  <2>2. q[1].kind = "ACK"
    BY <1>1
  <2> QED
    BY <2>1, <2>2 DEF NoMoreC
<1> QED
  BY <1>3 DEF NoC

LEMMA NoMoreStays ==
  ASSUME Known, Known', Lasting, NoMore, files' = files, UpRead, ~Left,
         IF tx.batch THEN BatchMoves
         ELSE tx.pc \in {"eot", "eot ack"} => Left' \/ tx'.pc \in {"eot", "eot ack"}
  PROVE  /\ ~Left' => NoMore'
         /\ BatchSucceeds /\ tx.batch => AllWhole'
         /\ ~tx.batch => AllWhole'
<1>1. /\ Source' = Source /\ tx'.batch = tx.batch /\ (AllWhole' <=> AllWhole)
      /\ (tx.batch => Source = Sizes) /\ Len(Source) \in Nat
  BY LastingDoes, FilesStay, SourceType DEF Lasting, Known
<1>2. NoC(up) => NoC(up)'
  BY UpReadThins
<1>3. NoMoreC(up) => NoMoreC(up)'
  BY UpReadThins
<1>4. ~tx.batch => tx.pc \in {"eot", "eot ack"} /\ AllWhole
  BY DEF NoMore, Known, SenderKnown
<1>5. CASE ~tx.batch
  BY <1>1, <1>4, <1>5 DEF NoMore
<1>6. CASE tx.batch
  <2>1. CASE tx.pc \in {"header", "header ack"} /\ tx.file > Len(Source) /\ AllWhole
    <3>1. BatchGoes => tx'.pc \in {"header", "header ack"} /\ tx'.file = tx.file
      BY <2>1 DEF BatchGoes, Paths
    <3>2. ~BatchOpens
      <4>1. PICK k \in Nat : k = tx.file
        BY LinesTyped DEF TxRecord
      <4>2. k > Len(Sizes) /\ Len(Sizes) \in Nat
        BY <1>1, <1>6, <2>1, <4>1
      <4>3. ~(k <= Len(Sizes))
        BY <4>2, AtMost, Zenon
      <4> QED
        BY <4>1, <4>3 DEF BatchOpens
    <3>3. ~Left' => BatchGoes
      BY <1>6, <2>1, <3>2
         DEF BatchMoves, BatchGivesUp, BatchSucceeds, BatchReads, BatchIsAsked, BatchCloses, Left
    <3> QED
      BY <1>1, <1>6, <2>1, <3>1, <3>3 DEF NoMore
  <2>2. CASE tx.pc \in {"eot", "eot ack"} /\ NoMoreC(up)
    <3>1. BatchGoes => tx'.pc \in {"eot", "eot ack"}
      BY <2>2 DEF BatchGoes, Paths
    <3>2. BatchCloses => tx'.pc = "wait C" /\ NoC(up)'
      <4>1. up \in Seq(ByteItems)
        BY LinesTyped
      <4>2. BatchCloses => NoC(up')
        BY <2>2, <4>1, LastAckTaken DEF BatchCloses
      <4> QED
        BY <4>2 DEF BatchCloses, NoC
    <3>3. ~Left' => BatchGoes \/ BatchCloses
      BY <1>6, <2>2
         DEF BatchMoves, BatchGivesUp, BatchSucceeds, BatchReads, BatchIsAsked, BatchOpens, Left
    <3>4. ~BatchSucceeds
      BY <2>2 DEF BatchSucceeds
    <3> QED
      BY <1>1, <1>3, <1>6, <2>2, <3>1, <3>2, <3>3, <3>4 DEF NoMore
  <2>3. CASE tx.pc = "wait C" /\ NoC(up)
    <3>1. ~BatchIsAsked
      <4>1. up # <<>> => 1 \in DOMAIN up /\ Head(up) = up[1]
        BY LinesTyped, HeadIn
      <4> QED
        BY <2>3, <4>1 DEF BatchIsAsked, NoC
    <3>2. BatchGoes => tx'.pc = "wait C"
      BY <2>3 DEF BatchGoes, Paths
    <3>3. ~Left' => BatchGoes
      BY <1>6, <2>3, <3>1
         DEF BatchMoves, BatchGivesUp, BatchSucceeds, BatchReads, BatchOpens, BatchCloses, Left
    <3>4. ~BatchSucceeds
      BY <2>3 DEF BatchSucceeds
    <3> QED
      BY <1>2, <1>6, <2>3, <3>2, <3>3, <3>4 DEF NoMore
  <2> QED
    BY <1>6, <2>1, <2>2, <2>3 DEF NoMore
<1> QED
  BY <1>5, <1>6

LEMMA SenderAfterEnd ==
  ASSUME Known, Known', Lasting, OneAnswer, ~Left, RxDone, SenderStep
  PROVE  OneAnswer'
<1>1. /\ UpRead /\ UNCHANGED <<rx, files>>
      /\ tx.batch => BatchMoves
      /\ ~tx.batch => /\ LeftOk' => tx.pc = "eot ack" /\ HasAck(up)
                      /\ tx.pc \in {"eot", "eot ack"} => Left' \/ tx'.pc \in {"eot", "eot ack"}
  BY BatchDoes, TransmitEnds, LinesTyped DEF SenderStep
<1>2. Placed /\ InSession
  BY DEF OneAnswer
<1>3. Placed'
  BY <1>1, <1>2, FilesStay
<1>4. RxDone' /\ Result' = Result /\ ~Active' /\ tx'.batch = tx.batch
  BY <1>1 DEF RxDone, Result, Active, Lasting
<1>5. ~Left' => InSession'
  <2>1. CASE tx.batch
    BY <1>1, <1>2, <2>1, BatchInSession
  <2>2. CASE ~tx.batch
    BY <1>4, <2>2, OneInSession
  <2> QED
    BY <2>1, <2>2
<1>6. LeftOk' => HasAck(up) /\ (tx.batch => BatchSucceeds)
  <2>1. CASE tx.batch
    <3>1. LeftOk' => tx'.pc \in {"flush"} \cup Ends
      BY DEF LeftOk, Ends
    <3>2. LeftOk' => ~BatchGoes /\ ~BatchReads /\ ~BatchIsAsked /\ ~BatchOpens /\ ~BatchCloses
      <4>1. BatchGoes => tx'.pc \notin {"flush"} \cup Ends
        BY DEF BatchGoes, Paths, Left, Ends
      <4>2. BatchReads \/ BatchIsAsked \/ BatchOpens \/ BatchCloses => tx'.pc \notin {"flush"} \cup Ends
        BY DEF BatchReads, BatchIsAsked, BatchOpens, BatchCloses, Ends
      <4> QED
        BY <3>1, <4>1, <4>2
    <3> QED
      BY <1>1, <2>1, <3>2 DEF BatchMoves, BatchGivesUp, BatchSucceeds
  <2>2. CASE ~tx.batch
    BY <1>1, <2>2
  <2> QED
    BY <2>1, <2>2
<1>7. HasAck(up)' => HasAck(up)
  BY <1>1, UpReadThins
<1>8. CASE Result # "ok"
  <2>1. ~HasAck(up) /\ (rx.pc = "flush" => rx.say = Cans)
    BY <1>8 DEF OneAnswer
  <2> QED
    BY <1>1, <1>3, <1>4, <1>5, <1>6, <1>7, <1>8, <2>1 DEF OneAnswer
<1>9. CASE Result = "ok"
  <2>1. Exact => NoMore /\ (rx.pc = "flush" => rx.say = <<Byte("ACK")>>)
    BY <1>9 DEF OneAnswer
  <2>2. Exact' => Exact
    BY LastingDoes
  <2>3. Exact /\ ~Left' => NoMore'
    BY <1>1, <2>1, NoMoreStays
  <2>4. Exact /\ LeftOk' => AllWhole'
    BY <1>1, <1>6, <2>1, NoMoreStays
  <2> QED
    BY <1>1, <1>3, <1>4, <1>5, <1>9, <2>1, <2>2, <2>3, <2>4 DEF OneAnswer
<1> QED
  BY <1>8, <1>9

\* A sender that is leaving sends nothing.
LEMMA SenderAfterLeave ==
  ASSUME Known, Lasting, OneAnswer, Left, SenderStep
  PROVE  OneAnswer'
<1>1. TxDrop \/ TxFlushed
  BY DEF SenderStep, TxStep, BatchStep, TxSync, TxCan, TxLoad, TxSend, TxAck, TxEot, TxEotAck,
         TxTimeout, TxAt, BatchWaitC, BatchHeader, BatchHeaderAck, BatchAck, BatchEotAck,
         BatchTimeout, Left, Ends
<1>2. /\ UNCHANGED <<rx, files, down>>
      /\ tx' = tx \/ (tx.pc = "flush" /\ tx' = [tx EXCEPT !.pc = tx.next])
  BY <1>1 DEF TxDrop, TxFlushed, TxKeeps, line
<1>3. Left' /\ (LeftOk' => LeftOk)
  <2>1. CASE tx' = tx
    BY <2>1, SenderStays
  <2>2. CASE tx.pc = "flush" /\ tx' = [tx EXCEPT !.pc = tx.next]
    <3>1. tx'.pc = tx.next /\ tx.next \in Ends
      BY <2>2, LinesTyped DEF TxRecord, Known, SenderKnown
    <3> QED
      BY <2>2, <3>1 DEF Left, LeftOk, Ends
  <2> QED
    BY <1>2, <2>1, <2>2
<1>4. /\ Placed' /\ (AllWhole' <=> AllWhole) /\ (Exact' => Exact)
  BY <1>2, FilesStay, LastingDoes DEF OneAnswer
<1>5. (RxDone' <=> RxDone) /\ (NoPackets(down)' <=> NoPackets(down)) /\ (NoEot(down)' <=> NoEot(down))
  BY <1>2 DEF RxDone, NoPackets, NoEot
<1> QED
  BY <1>3, <1>4, <1>5 DEF OneAnswer, Active

-----------------------------------------------------------------------------
(* The receiver, when one of the ends has left *)

LEMMA CansSent ==
  ASSUME Known, up' = Push(up, Cans)
  PROVE  HasAck(up)' => HasAck(up)
<1>1. /\ up \in Seq(ByteItems) /\ Len(up) <= LineMax /\ Cans \in Seq(ByteItems)
      /\ \A i \in DOMAIN Cans : Cans[i] = Byte("CAN")
      /\ Byte("CAN").kind = "CAN"
  BY LinesTyped, BytesAreItems
<1>2. /\ Push(up, Cans) \in Seq(ByteItems)
      /\ \A i \in 1 .. Len(up) : Push(up, Cans)[i] = up[i]
      /\ \A i \in Len(up) + 1 .. Len(Push(up, Cans)) :
           i - Len(up) \in DOMAIN Cans /\ Push(up, Cans)[i] = Cans[i - Len(up)]
  BY <1>1, PushDoes
<1>3. PICK n \in Nat, m \in Nat : n = Len(up) /\ m = Len(Push(up, Cans))
  BY <1>1, <1>2
<1>4. DOMAIN up = 1 .. n /\ DOMAIN up' = 1 .. m
  BY <1>1, <1>2, <1>3
<1>5. ASSUME NEW i \in DOMAIN up', up'[i].kind = "ACK"
      PROVE  HasAck(up)
  <2>1. i \in 1 .. n \/ i \in n + 1 .. m
    BY <1>3, <1>4
  <2>2. CASE i \in 1 .. n
    BY <1>2, <1>3, <1>4, <1>5, <2>2 DEF HasAck
  <2>3. CASE i \in n + 1 .. m
    <3>1. up'[i] = Byte("CAN")
      BY <1>1, <1>2, <1>3, <2>3
    <3> QED
      BY <1>1, <1>5, <3>1
  <2> QED
    BY <2>1, <2>2, <2>3
<1> QED
  BY <1>5 DEF HasAck

LEMMA ReceiverAfterEnd ==
  ASSUME Known, Known', Lasting, OneAnswer, RxDone, RxStep
  PROVE  OneAnswer'
<1>1. RxDrop \/ RxGone \/ (RxFlushed /\ rx.next \in Ends)
  BY DEF RxStep, RxAsk, RxNoSync, RxTimeout, RxEot, RxCan, RxSecondCan, RxJunk, RxReject,
         RxSessionEnd, RxHeader, RxData, RxCardError, RxDuplicate, Arrives, RxDone, Ends, RxFlushed
<1>2. UNCHANGED <<files, tx>>
  BY <1>1 DEF RxDrop, RxGone, RxFlushed, Keep
<1>3. /\ Placed' /\ (AllWhole' <=> AllWhole) /\ (Exact' => Exact) /\ Source' = Source
      /\ tx'.batch = tx.batch
  BY <1>2, FilesStay, LastingDoes DEF OneAnswer, Lasting
<1>4. (Left' <=> Left) /\ (LeftOk' <=> LeftOk) /\ (InSession => InSession')
  BY <1>2, SenderStays
<1>5. CASE RxDrop \/ RxGone
  <2>1. UNCHANGED <<up, rx>>
    BY <1>5 DEF RxDrop, RxGone
  <2>2. RxDone' /\ Result' = Result
    BY <2>1 DEF RxDone, Result
  <2>3. (HasAck(up)' => HasAck(up)) /\ (NoMore => NoMore')
    <3>1. /\ HasAck(up)' <=> HasAck(up)
          /\ (NoMoreC(up)' <=> NoMoreC(up)) /\ (NoC(up)' <=> NoC(up))
      BY <1>3, <2>1, UpStays
    <3> QED
      BY <1>2, <1>3, <3>1 DEF NoMore
  <2> QED
    BY <1>3, <1>4, <2>1, <2>2, <2>3 DEF OneAnswer, Active
<1>6. CASE RxFlushed /\ rx.next \in Ends
  <2>1. /\ rx.pc = "flush" /\ up' = Push(up, rx.say)
        /\ rx' = [rx EXCEPT !.pc = rx.next]
    BY <1>6 DEF RxFlushed, Say, Ends
  <2>2. rx'.pc = rx.next
    BY <2>1, LinesTyped DEF RxRecord
  <2>3. RxDone' /\ Result' = Result /\ rx'.pc # "flush"
    BY <1>6, <2>1, <2>2 DEF RxDone, Result, Ends
  <2>4. ~Left /\ Result # "ok" => ~HasAck(up)'
    <3>1. ~Left /\ Result # "ok" => ~HasAck(up) /\ rx.say = Cans
      BY <2>1 DEF OneAnswer
    <3> QED
      BY <2>1, <3>1, CansSent
  <2>5. ~Left /\ Result = "ok" /\ Exact => NoMore'
    <3>1. ~Left /\ Result = "ok" /\ Exact => NoMore /\ rx.say = <<Byte("ACK")>>
      BY <2>1 DEF OneAnswer
    <3>2. rx.say = <<Byte("ACK")>> => (NoC(up) => NoC(up')) /\ (NoMoreC(up) => NoMoreC(up'))
      BY <2>1, LinesTyped, LastAckSent
    <3>3. (NoC(up') => NoC(up)') /\ (NoMoreC(up') => NoMoreC(up)')
      BY DEF NoC, NoMoreC
    <3> QED
      BY <1>2, <1>3, <3>1, <3>2, <3>3 DEF NoMore
  <2> QED
    BY <1>3, <1>4, <2>3, <2>4, <2>5 DEF OneAnswer, Active
<1> QED
  BY <1>1, <1>5, <1>6

\* A receiver that hears no packet and no EOT writes nothing more.
LEMMA ReceiverAfterLeave ==
  ASSUME Known, Known', Lasting, OneAnswer, Left, ~RxDone, RxStep
  PROVE  OneAnswer'
<1>1. NoPackets(down) /\ NoEot(down)
  BY DEF OneAnswer
<1>2. down # <<>> => Head(down).kind # "packet" /\ Head(down).kind # "EOT"
  <2>1. down # <<>> => 1 \in DOMAIN down /\ Head(down) = down[1]
    BY LinesTyped, HeadIn
  <2> QED
    BY <1>1, <2>1 DEF NoPackets, NoEot
<1>3. QuietRx
  BY <1>2 DEF RxStep, QuietRx, RxEot, RxSessionEnd, RxHeader, RxData, RxCardError, RxDuplicate,
              Arrives
<1>4. UNCHANGED <<files, tx>> /\ QuietLines
  BY <1>3, QuietRxDoes DEF Known
<1>5. NoPackets(down)' /\ NoEot(down)'
  <2>1. down \in Seq(Items) /\ down' \in Seq(Items)
    BY DEF Known, TypeOK, LineOK
  <2>2. Thinned(down, down')
    <3>1. CASE down' = down
      <4>1. Thinned(down, down)
        BY <2>1, ThinnedSame
      <4> QED
        BY <3>1, <4>1
    <3>2. CASE down # <<>> /\ down' = Tail(down)
      <4>1. Thinned(down, Tail(down))
        BY <2>1, <3>2, TailThins
      <4> QED
        BY <3>2, <4>1
    <3>3. CASE down # <<>> /\ down' = ByteRead(down)
      <4>1. Thinned(down, ByteRead(down))
        BY <2>1, <3>3, ReadThins
      <4> QED
        BY <3>3, <4>1
    <3> QED
      BY <1>4, <3>1, <3>2, <3>3 DEF QuietLines
  <2>3. 0 \in Nat /\ 0 <= 0
    OBVIOUS
  <2>4. NoPackets(down') /\ NoEot(down')
    BY <1>1, <2>1, <2>2, <2>3, FlightThins
  <2> QED
    BY <2>4 DEF NoPackets, NoEot
<1>6. /\ Placed' /\ (Exact' => Exact)
  BY <1>4, FilesStay, LastingDoes DEF OneAnswer
<1>7. Left' /\ (LeftOk' => LeftOk)
  BY <1>4, SenderStays
<1>8. ~(LeftOk /\ Exact)
  BY DEF OneAnswer
<1> QED
  BY <1>5, <1>6, <1>7, <1>8 DEF OneAnswer, Active

\* Each step of the receiver.
LEMMA ReceiverGoesOn ==
  ASSUME Known, Known', Quiet', Lasting, OneAnswer, Active, RxStep
  PROVE  OneAnswer'
<1>1. QuietRx \/ RxEot \/ RxSessionEnd \/ RxHeader \/ RxData \/ RxCardError \/ RxDuplicate
  BY DEF RxStep, QuietRx
<1> QED
  BY <1>1, QuietKeeps, EotAnswered, SessionEndAnswered, HeaderAnswered, DataAnswered,
     CardErrorAnswered, DuplicateAnswered

-----------------------------------------------------------------------------
(* Faults of the line *)

\* What damage makes of damaged items is the same.
LEMMA SpoiltTwice ==
  ASSUME NEW c \in Items, NEW x \in Items, NEW y \in Items, Spoilt(c, x), Spoilt(x, y)
  PROVE  Spoilt(c, y)
<1>1. Byte("junk").kind = "junk"
  BY BytesAreItems
<1>2. CASE x = c
  BY <1>2
<1>3. CASE x = Byte("junk")
  BY <1>1, <1>3 DEF Spoilt
<1>4. CASE c.kind = "packet" /\ x = [c EXCEPT !.ok = FALSE]
  <2>1. CASE y = x \/ y = Byte("junk")
    BY <1>4, <2>1 DEF Spoilt
  <2>2. CASE y = [x EXCEPT !.ok = FALSE]
    <3>1. c \in Packets
      BY <1>4 DEF Items, ByteItems
    <3>2. y = [c EXCEPT !.ok = FALSE]
      BY <1>4, <2>2, <3>1 DEF Packets
    <3> QED
      BY <1>4, <3>2 DEF Spoilt
  <2> QED
    BY <2>1, <2>2 DEF Spoilt
<1> QED
  BY <1>2, <1>3, <1>4 DEF Spoilt

LEMMA AwaitedSpoilt ==
  ASSUME Known, NEW x \in Items, NEW y \in Items, Awaited(x), Spoilt(x, y)
  PROVE  Awaited(y)
<1>1. tx \in TxRecord
  BY LinesTyped
<1>2. CASE x = Byte("junk") \/ x = Byte("EOT")
  <2>1. x.kind # "packet"
    BY <1>2, BytesAreItems
  <2> QED
    BY <2>1 DEF Spoilt, Awaited
<1>3. CASE tx.pc = "ack" /\ Spoilt(Current, x)
  <2>1. Current \in Items
    BY <1>1, PacketIs DEF Current, Items
  <2> QED
    BY <1>3, <2>1, SpoiltTwice DEF Awaited
<1>4. CASE tx.pc = "header ack" /\ Spoilt(Header, x)
  <2>1. Header \in Items
    BY <1>1, HeaderIs DEF Items
  <2> QED
    BY <1>4, <2>1, SpoiltTwice DEF Awaited
<1> QED
  BY <1>2, <1>3, <1>4 DEF Awaited

\* What is left of a line that held one item.
LEMMA OneStruck ==
  ASSUME NEW x \in Items, NEW r \in Seq(Items), Len(r) <= 1, Thinned(<<x>>, r)
  PROVE  r = <<>> \/ \E y \in Items : r = <<y>> /\ Spoilt(x, y)
<1>1. CASE Len(r) = 0
  <2>1. r = <<>>
    BY <1>1
  <2> QED
    BY <2>1
<1>2. CASE Len(r) = 1
  <2>1. r[1] \in Items /\ r = <<r[1]>> /\ 1 \in DOMAIN r
    BY <1>2
  <2>2. PICK d \in {0, 1} : 1 + d \in DOMAIN <<x>> /\ Spoilt(<<x>>[1 + d], r[1])
    BY <2>1 DEF Thinned
  <2>3. DOMAIN <<x>> = 1 .. 1 /\ <<x>>[1] = x
    OBVIOUS
  <2>4. 1 + d = 1
    BY <2>2, <2>3
  <2>5. Spoilt(x, r[1])
    BY <2>2, <2>3, <2>4
  <2> QED
    BY <2>1, <2>5
<1>3. Len(r) = 0 \/ Len(r) = 1
  BY DEF Thinned
<1> QED
  BY <1>1, <1>2, <1>3

\* What the sender put on the line is lost or damaged.
LEMMA DownStruck ==
  ASSUME Known, Known', Lasting, OneAnswer, Active, UNCHANGED <<up, rx, tx, files>>, down # <<>>,
         down' \in Struck(down)
  PROVE  OneAnswer'
<1>1. Token /\ At /\ ~RxDone
  BY OneAnswerActive
<1>2. ~Sends /\ rx.pc # "flush" /\ tx.pc # "wait C" /\ ~AnswersIn(up)
  BY <1>1 DEF Token, TokenDown, TokenUp, TokenRx, TokenTx
<1>3. PICK x \in Items : down = <<x>> /\ Awaited(x)
  BY <1>1 DEF Token, TokenDown
<1>4. down' = <<>> \/ \E y \in Items : down' = <<y>> /\ Spoilt(x, y)
  <2>1. down' \in Seq(Items) /\ Len(down') <= Len(down) /\ Thinned(down, down')
    BY LinesTyped, StruckThins
  <2>2. Len(<<x>>) = 1
    OBVIOUS
  <2>3. PICK r \in Seq(Items) : r = down'
    BY <2>1
  <2>4. Len(r) <= 1 /\ Thinned(<<x>>, r)
    BY <1>3, <2>1, <2>2, <2>3
  <2> QED
    BY <2>3, <2>4, OneStruck
<1>5. TokenDown'
  <2>1. down' = <<>> \/ \E y \in Items : down' = <<y>> /\ Awaited(y)
    BY <1>3, <1>4, AwaitedSpoilt
  <2>2. \A y : Awaited(y) => Awaited(y)'
    BY DEF Awaited, Current, Header
  <2> QED
    BY <1>2, <2>1, <2>2 DEF TokenDown, Sends
<1>6. TokenUp'
  <2>1. ~AnswersIn(up)' /\ NoCan(up)'
    BY <1>1, <1>2, UpStays DEF Token, TokenUp
  <2>2. Tidy(up, rx.pc = "wait")'
    BY <2>1 DEF AnswersIn, Tidy
  <2> QED
    BY <2>1, <2>2 DEF TokenUp
<1>7. TokenRx'
  <2>1. ~tx.batch => ~(rx.pc = "try" /\ rx.trychar # "none")
    BY <1>1 DEF Token, TokenRx
  <2> QED
    BY <1>1, <1>2, <2>1 DEF Token, TokenRx
<1>8. TokenTx'
  BY <1>1, <1>2 DEF Token, TokenTx
<1>9. ~RxDone' /\ SameFile(rx, rx') /\ (HasAck(up') => HasAck(up))
  BY <1>1 DEF RxDone, SameFile
<1> QED
  BY <1>5, <1>6, <1>7, <1>8, <1>9, RxGoesOn DEF Token

\* When one of the ends has left, items may well be lost.
LEMMA LinesThin ==
  ASSUME Known, Known', Lasting, OneAnswer, ~Active, UNCHANGED <<rx, tx, files>>,
         Thinned(up, up'), Thinned(down, down')
  PROVE  OneAnswer'
<1>1. /\ Placed' /\ (AllWhole' <=> AllWhole) /\ (Exact' => Exact) /\ Source' = Source
  BY FilesStay, LastingDoes DEF OneAnswer
<1>2. (Left' <=> Left) /\ (LeftOk' <=> LeftOk) /\ (InSession => InSession')
  BY SenderStays
<1>3. (RxDone' <=> RxDone) /\ Result' = Result
  BY DEF RxDone, Result
<1>4. up \in Seq(ByteItems) /\ up' \in Seq(ByteItems) /\ down \in Seq(Items) /\ down' \in Seq(Items)
  BY DEF Known, TypeOK, LineOK
<1>5. /\ HasAck(up)' => HasAck(up)
      /\ NoC(up) => NoC(up)'
      /\ NoMoreC(up) => NoMoreC(up)'
  <2>1. /\ HasAck(up') => HasAck(up)
        /\ NoC(up) => NoC(up')
        /\ NoMoreC(up) => NoMoreC(up')
    BY <1>4, AnswersThin
  <2> QED
    BY <2>1 DEF HasAck, NoC, NoMoreC
<1>6. NoMore => NoMore'
  BY <1>1, <1>5 DEF NoMore, Lasting
<1>7. (NoPackets(down) => NoPackets(down)') /\ (NoEot(down) => NoEot(down)')
  <2>1. 0 \in Nat /\ 0 <= 0
    OBVIOUS
  <2>2. (NoPackets(down) => NoPackets(down')) /\ (NoEot(down) => NoEot(down'))
    BY <1>4, <2>1, FlightThins
  <2> QED
    BY <2>2 DEF NoPackets, NoEot
<1> QED
  BY <1>1, <1>2, <1>3, <1>5, <1>6, <1>7 DEF OneAnswer, Active

LEMMA FaultKeeps ==
  ASSUME Known, Known', Lasting, OneAnswer, LineFault, files' = files
  PROVE  OneAnswer'
<1>1. UNCHANGED <<rx, tx>>
  BY DEF LineFault
<1>2. Thinned(up, up) /\ Thinned(down, down)
  BY LinesTyped, ThinnedSame
<1>3. CASE down # <<>> /\ down' \in Struck(down) /\ up' = up
  <2>1. Thinned(down, down')
    BY <1>3, LinesTyped, StruckThins
  <2> QED
    BY <1>1, <1>2, <1>3, <2>1, DownStruck, LinesThin
<1>4. CASE up # <<>> /\ up' \in Struck(up) /\ down' = down
  <2>1. Thinned(up, up')
    BY <1>4, LinesTyped, StruckBytes
  <2> QED
    BY <1>1, <1>2, <1>4, <2>1, UpThins, LinesThin
<1> QED
  BY <1>3, <1>4 DEF LineFault

\* A card fills up, or nothing happens.
LEMMA StillKeeps ==
  ASSUME Known, Known', Lasting, OneAnswer, UNCHANGED <<down, up, rx, tx, files>>
  PROVE  OneAnswer'
<1>1. Thinned(up, up) /\ Thinned(down, down)
  BY LinesTyped, ThinnedSame
<1> QED
  BY <1>1, UpThins, LinesThin

-----------------------------------------------------------------------------
(* One answer at a time *)

LEMMA OneAnswerInit ==
  ASSUME Init
  PROVE  OneAnswer
<1>1. Known /\ tx \in TxRecord
  BY KnownInit DEF Known, TypeOK
<1>2. /\ down = <<>> /\ up = <<>> /\ files = <<>>
      /\ rx.pc = "flush" /\ rx.say = <<>> /\ rx.next = "try" /\ rx.trychar = "C"
      /\ rx.packetno = 1 /\ rx.ymodem = 0 /\ rx.size = 0 /\ rx.name = 0 /\ ~rx.open
  BY DEF Init, RxInit
<1>3. /\ tx.file = 1 /\ tx.block = 0
      /\ \/ tx.pc = "sync" /\ ~tx.batch
         \/ tx.pc = "wait C" /\ tx.next = "wait C" /\ tx.batch
  <2>1. CASE TxInit
    <3>1. PICK size \in XmtxSizes : tx = TxStart("sync", FALSE, size)
      BY <2>1 DEF TxInit
    <3>2. tx.file = 1 /\ tx.block = 0 /\ tx.pc = "sync" /\ tx.batch = FALSE
      BY <3>1 DEF TxStart
    <3> QED
      BY <3>2
  <2>2. CASE BatchInit
    <3>1. /\ tx.file = 1 /\ tx.block = 0
          /\ tx.pc = "wait C" /\ tx.next = "wait C" /\ tx.batch = TRUE
      BY <2>2 DEF BatchInit, TxStart
    <3> QED
      BY <3>1
  <2> QED
    BY <2>1, <2>2 DEF Init
<1>4. ~Left /\ ~RxDone /\ Active /\ ~LeftOk /\ ~Sends
  BY <1>2, <1>3 DEF Left, LeftOk, RxDone, Active, Sends, Ends
<1>5. Placed
  BY <1>2 DEF Placed
<1>6. Source \in Seq(Nat) /\ Len(Source) \in Nat /\ DOMAIN Source = 1 .. Len(Source)
      /\ (~tx.batch => Len(Source) = 1 /\ Source[1] = tx.size)
  BY <1>1, SourceType DEF Known
<1>7. InSession
  <2>1. 1 \in 1 .. Len(Source) + 1
    BY <1>6
  <2>2. tx.block <= tx.size
    <3>1. tx.size \in Nat
      BY <1>1 DEF TxRecord
    <3> QED
      BY <1>3, <3>1, AtMost, Zenon
  <2> QED
    BY <1>3, <2>1, <2>2 DEF InSession
<1>8. ~AnswersIn(up) /\ NoCan(up) /\ ~HasAck(up) /\ Len(up) <= 1
  BY <1>2, NothingIn DEF AnswersIn, NoCan, HasAck
<1>9. Token
  <2>1. TokenDown
    BY <1>2 DEF TokenDown
  <2>2. TokenUp
    <3>1. Tidy(up, rx.pc = "wait")
      BY <1>8 DEF AnswersIn, Tidy
    <3> QED
      BY <1>8, <3>1 DEF TokenUp
  <2>3. TokenRx
    BY <1>2, <1>4 DEF TokenRx
  <2>4. TokenTx
    BY <1>2, <1>3, <1>8 DEF TokenTx
  <2> QED
    BY <2>1, <2>2, <2>3, <2>4 DEF Token
<1>10. FilesBefore(1)
  <2>1. Len(files) = 0 /\ 1 .. 0 = {} /\ 1 - 1 = 0
    BY <1>2
  <2> QED
    BY <1>2, <2>1 DEF FilesBefore, Earlier, Whole
<1>11. At
  <2>1. CASE tx.pc = "sync" /\ ~tx.batch
    <3>1. (0 + 1) % Numbers = 1 /\ 0 < Numbers
      <4>1. Numbers \in Nat /\ Numbers > 3
        BY Constants
      <4>2. PICK n \in Nat : n = Numbers
        BY <4>1
      <4>3. n > 0 /\ 1 < n /\ 0 < n
        BY <4>1, <4>2
      <4>4. 1 % n = 1
        BY <4>3, ModSmall
      <4> QED
        BY <4>2, <4>3, <4>4
    <3>2. Has(1, 0)
      BY <1>2, <1>10, <2>1, <3>1 DEF Has, FilesAt
    <3>3. Stage(1, 0)
      BY <2>1, <3>2 DEF Stage
    <3> QED
      BY <1>3, <3>3 DEF At
  <2>2. CASE tx.pc = "wait C" /\ tx.next = "wait C"
    <3>1. Expects(1)
      BY <1>2, <1>10 DEF Expects
    <3>2. Stage(1, 0)
      BY <2>2, <3>1 DEF Stage
    <3> QED
      BY <1>3, <3>2 DEF At
  <2> QED
    BY <1>3, <2>1, <2>2
<1> QED
  BY <1>4, <1>5, <1>7, <1>9, <1>11 DEF OneAnswer

LEMMA OneAnswerStep ==
  ASSUME Known, Quiet => OneAnswer, [Next]_vars, Quiet'
  PROVE  OneAnswer'
<1>1. Known' /\ Lasting
  BY KnownStep, LastingStep
<1>2. Quiet /\ OneAnswer
  BY <1>1, LastingDoes
<1>3. CASE RxStep
  BY <1>1, <1>2, <1>3, ReceiverGoesOn, ReceiverAfterEnd, ReceiverAfterLeave DEF Active
<1>4. CASE SenderStep
  BY <1>1, <1>2, <1>4, SenderGoesOn, SenderAfterEnd, SenderAfterLeave DEF Active
<1>5. CASE LineFault /\ files' = files
  BY <1>1, <1>2, <1>5, FaultKeeps
<1>6. ~PressCtrlX
  BY DEF PressCtrlX, Quiet
<1>7. CASE UNCHANGED <<down, up, rx, tx, files>>
  BY <1>1, <1>2, <1>7, StillKeeps
<1> QED
  BY <1>3, <1>4, <1>5, <1>6, <1>7 DEF Next, CardFills, line, vars

LEMMA QuietWhole ==
  ASSUME Known, Quiet => OneAnswer
  PROVE  SuccessIsComplete
<1> SUFFICES ASSUME patient, trouble \subseteq (IF tx.batch THEN {} ELSE {"tries"}), Deliverable,
                    tx.pc = "ok"
             PROVE  \E sent \in [DOMAIN files -> {n \in DOMAIN Source : Source[n] > 0}] :
                      /\ \A f \in DOMAIN files : files[f].blocks = WholeFile(sent[f])
                      /\ \A f, g \in DOMAIN files : f < g => sent[f] < sent[g]
                      /\ \A n \in DOMAIN Source : Source[n] > 0 => \E f \in DOMAIN files : sent[f] = n
  BY DEF SuccessIsComplete
<1>1. /\ Len(Source) \in Nat /\ DOMAIN Source = 1 .. Len(Source)
      /\ ~tx.batch => Len(Source) = 1 /\ Source[1] = tx.size
  BY SourceType DEF Known
<1>2. ~tx.batch => tx.size < Numbers
  <2>1. ~tx.batch => 1 \in DOMAIN Source /\ Source[1] = tx.size
    BY <1>1
  <2> QED
    BY <2>1 DEF Deliverable
<1>3. Quiet /\ Exact /\ LeftOk
  BY <1>2 DEF Quiet, Exact, LeftOk
<1>4. AllWhole
  BY <1>3 DEF OneAnswer
<1>5. DOMAIN files = 1 .. Len(files) /\ Len(files) \in Nat
  BY FilesHave
<1>6. Len(Source) + 1 - 1 = Len(Source)
  BY <1>1
<1>7. /\ \A f \in DOMAIN files :
           Of(f) \in DOMAIN Source /\ Source[Of(f)] > 0 /\ files[f].blocks = WholeFile(Of(f))
      /\ \A f, g \in DOMAIN files : f < g => Of(f) < Of(g)
      /\ \A n \in DOMAIN Source : Source[n] > 0 => \E f \in DOMAIN files : Of(f) = n
  BY <1>1, <1>4, <1>5, <1>6 DEF AllWhole, Whole
<1>8. PICK sent : sent = [f \in DOMAIN files |-> Of(f)]
  OBVIOUS
<1>9. \A f \in DOMAIN files : sent[f] = Of(f)
  BY <1>8
<1>10. sent \in [DOMAIN files -> {n \in DOMAIN Source : Source[n] > 0}]
  BY <1>7, <1>8
<1> QED
  BY <1>7, <1>9, <1>10

LEMMA QuietInPlace ==
  ASSUME Known, OneFileInv, Quiet => OneAnswer, "tries" \notin trouble
  PROVE  PrefixInPlace
<1>1. CASE ~tx.batch
  BY <1>1, OneFileInPlace
<1>2. CASE tx.batch
  <2> SUFFICES ASSUME patient, "keys" \notin trouble
               PROVE  PrefixInPlace
    BY <1>2 DEF PrefixInPlace
  <2> SUFFICES ASSUME NEW f \in DOMAIN files
               PROVE  \E n \in DOMAIN Source :
                        /\ tx.batch => files[f].name = n
                        /\ \A i \in DOMAIN files[f].blocks : files[f].blocks[i] \in {<<n, i>>, Filler}
    BY DEF PrefixInPlace
  <2>1. Quiet
    BY <1>2 DEF Quiet
  <2>2. Of(f) \in DOMAIN Source /\ BlocksInPlace(f)
    BY <2>1 DEF OneAnswer, Placed
  <2> QED
    BY <1>2, <2>2 DEF Of, BlocksInPlace
<1> QED
  BY <1>1, <1>2

\* A sender that reports success to a patient line with no fault of a card has had every
\* file written whole by xm_receive: no ACK of one packet is taken for that of another,
\* whatever the line loses or damages.
THEOREM XmodemComplete == Spec => []SuccessIsComplete
<1>1. Init => Known /\ (Quiet => OneAnswer)
  BY KnownInit, OneAnswerInit
<1>2. Known /\ (Quiet => OneAnswer) /\ [Next]_vars => Known' /\ (Quiet' => OneAnswer')
  BY KnownStep, OneAnswerStep
<1>3. Known /\ (Quiet => OneAnswer) => SuccessIsComplete
  BY QuietWhole
<1> QED
  BY <1>1, <1>2, <1>3, PTL DEF Spec

\* Each block of each file of a YMODEM session is where the file has it too, as long as
\* xm_receive does not fall back from C to NAK.
THEOREM SessionInPlace == Spec => []("tries" \notin trouble => PrefixInPlace)
<1>1. Init => Known /\ OneFileInv /\ (Quiet => OneAnswer)
  BY KnownInit, OneFileInit, OneAnswerInit DEF OneFileInv
<1>2. Known /\ OneFileInv /\ (Quiet => OneAnswer) /\ [Next]_vars
        => Known' /\ OneFileInv' /\ (Quiet' => OneAnswer')
  <2>1. ASSUME Known, OneFileInv, [Next]_vars PROVE OneFileInv'
    <3>1. tx'.batch = tx.batch
      BY <2>1, KnownStep
    <3> QED
      BY <2>1, <3>1, OneFileStep DEF OneFileInv
  <2> QED
    BY <2>1, KnownStep, OneAnswerStep
<1>3. Known /\ OneFileInv /\ (Quiet => OneAnswer) => ("tries" \notin trouble => PrefixInPlace)
  BY QuietInPlace
<1> QED
  BY <1>1, <1>2, <1>3, PTL DEF Spec
=============================================================================
