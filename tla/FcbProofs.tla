----------------------------- MODULE FcbProofs -----------------------------
(***************************************************************************)
(* Proofs about Fcb for bytes, extents and modules of every size that the  *)
(* assumption of Fcb allows: the two ways of writing a position down name  *)
(* the same records, sequential access misses none, and a directory search *)
(* shows all of a file.                                                    *)
(***************************************************************************)
EXTENDS Fcb, TLAPS

-----------------------------------------------------------------------------
(* Division *)

\* What is divided is the quotient's multiple of the divisor and a remainder.
LEMMA Division ==
  ASSUME NEW a \in Nat, NEW n \in Nat \ {0}
  PROVE  /\ a \div n \in Nat
         /\ a % n \in 0 .. n - 1
         /\ a = n * (a \div n) + (a % n)
OBVIOUS

\* A remainder below the divisor tells quotient and remainder apart.
LEMMA Divided ==
  ASSUME NEW n \in Nat \ {0}, NEW q \in Nat, NEW r \in 0 .. n - 1
  PROVE  /\ (n * q + r) \div n = q
         /\ (n * q + r) % n = r
OBVIOUS

\* A number below the divisor is the remainder.
LEMMA Undivided ==
  ASSUME NEW n \in Nat \ {0}, NEW r \in 0 .. n - 1
  PROVE  r % n = r
OBVIOUS

\* Dividing by one factor and then by the other is dividing by the product.
LEMMA DividedTwice ==
  ASSUME NEW a \in Nat, NEW n \in Nat \ {0}, NEW m \in Nat \ {0}
  PROVE  /\ a \div (n * m) = (a \div n) \div m
         /\ a % (n * m) = n * ((a \div n) % m) + (a % n)
<1> DEFINE q == a \div n
           r == a % n
           p == q \div m
           s == q % m
<1>1. /\ q \in Nat /\ r \in 0 .. n - 1
      /\ a = n * q + r
  BY Division
<1>2. /\ p \in Nat /\ s \in 0 .. m - 1
      /\ q = m * p + s
  BY <1>1, Division
<1> HIDE DEF q, r, p, s
<1>3. n * m \in Nat \ {0}
  OBVIOUS
<1>4. n * s + r \in 0 .. n * m - 1
  <2>1. n * s \in Nat /\ n * s <= n * (m - 1)
    BY <1>2
  <2>2. n * (m - 1) = n * m - n
    OBVIOUS
  <2> QED BY <1>1, <1>3, <2>1, <2>2
<1>5. a = (n * m) * p + (n * s + r)
  BY <1>1, <1>2
<1>6. a \div (n * m) = p /\ a % (n * m) = n * s + r
  BY <1>2, <1>3, <1>4, <1>5, Divided
<1> QED BY <1>6 DEF q, r, p, s

\* The number whose digits to the bases n, m and k are those of o.
ReadBack(o, n, m, k) ==
  (((o \div (n * m)) % k) * m + ((o \div n) % m)) * n + (o % n)

\* A number is read back from its three digits, modulo the numbers that three
\* digits can write.
LEMMA ThreeDigits ==
  ASSUME NEW o \in Nat, NEW n \in Nat \ {0}, NEW m \in Nat \ {0},
         NEW k \in Nat \ {0}
  PROVE  ReadBack(o, n, m, k) = o % (n * m * k)
<1> DEFINE c == o % n
           x == (o \div n) % m
           s == (o \div (n * m)) % k
<1>1. n * m \in Nat \ {0}
  OBVIOUS
<1>2. o % ((n * m) * k) = (n * m) * s + (o % (n * m))
  BY <1>1, DividedTwice
<1>3. o % (n * m) = n * x + c
  BY DividedTwice
<1>4. c \in Nat /\ x \in Nat /\ s \in Nat
  BY <1>1, Division
<1> HIDE DEF c, x, s
<1>5. (n * m) * s + (n * x + c) = (s * m + x) * n + c
  BY <1>4
<1>6. (n * m) * k = n * m * k
  OBVIOUS
<1> QED BY <1>2, <1>3, <1>5, <1>6 DEF c, x, s, ReadBack

-----------------------------------------------------------------------------
(* The sequential and the random fields *)

\* What the sizes are to each other.
LEMMA Sizes ==
  /\ B \in Nat \ {0} /\ RecCount \in Nat \ {0} /\ ExtCount \in Nat \ {0}
  /\ ModCount \in Nat \ {0}
  /\ B = 2 * RecCount /\ ExtCount < B /\ ModCount <= B
  /\ SeqSpace \in Nat \ {0}
  /\ B * B \in Nat \ {0} /\ B * B * B \in Nat \ {0}
  /\ RecCount * ExtCount \in Nat \ {0}
BY FcbAssumption DEF SeqSpace

LEMMA SeqOffsetNat ==
  ASSUME NEW f \in SeqFields
  PROVE  SeqOffset(f) \in Nat
BY Sizes DEF SeqOffset, SeqFields, Byte

\* The sequential fields are bytes, and name the record they were set to.
LEMMA SetSeqNames ==
  ASSUME NEW o \in Nat
  PROVE  /\ SetSeq(o) \in SeqFields
         /\ SeqOffset(SetSeq(o)) = o % SeqSpace
<1>1. /\ o % RecCount \in 0 .. RecCount - 1
      /\ o \div RecCount \in Nat
      /\ o \div (RecCount * ExtCount) \in Nat
  BY Sizes, Division
<1>2. /\ (o \div RecCount) % ExtCount \in 0 .. ExtCount - 1
      /\ (o \div (RecCount * ExtCount)) % ModCount \in 0 .. ModCount - 1
  BY <1>1, Sizes, Division
<1>3. SetSeq(o) \in SeqFields
  BY <1>1, <1>2, Sizes DEF SetSeq, SeqFields, Byte
<1>4. SeqOffset(SetSeq(o)) = o % (RecCount * ExtCount * ModCount)
  <2>1. ReadBack(o, RecCount, ExtCount, ModCount)
          = o % (RecCount * ExtCount * ModCount)
    BY ThreeDigits, Sizes
  <2> QED BY <2>1 DEF ReadBack, SetSeq, SeqOffset
<1> QED BY <1>3, <1>4 DEF SeqSpace

\* The random fields are bytes, and spell a number below B^3 that they were
\* set to.
LEMMA SetRandSpells ==
  ASSUME NEW o \in Nat
  PROVE  /\ SetRand(o) \in RndFields
         /\ o < B * B * B => RandRecord(SetRand(o)) = o
<1>1. o \div B \in Nat /\ o \div (B * B) \in Nat
  BY Sizes, Division
<1>2. /\ o % B \in 0 .. B - 1 /\ (o \div B) % B \in 0 .. B - 1
      /\ (o \div (B * B)) % B \in 0 .. B - 1
  BY <1>1, Sizes, Division
<1>3. SetRand(o) \in RndFields
  BY <1>2 DEF SetRand, RndFields, Byte
<1>4. RandRecord(SetRand(o)) = o % (B * B * B)
  <2>1. ReadBack(o, B, B, B) = o % (B * B * B)
    BY ThreeDigits, Sizes
  <2> QED BY <2>1 DEF ReadBack, SetRand, RandRecord
<1>5. o < B * B * B => o % (B * B * B) = o
  BY Sizes, Undivided
<1> QED BY <1>3, <1>4, <1>5

\* Three bytes hold any record that the sequential fields name, even when the
\* program has put more in them than an extent or a module has.
LEMMA SeqOffsetFits ==
  ASSUME NEW f \in SeqFields
  PROVE  SeqOffset(f) < B * B * B
<1> DEFINE e == f.s2 * ExtCount + f.ex
<1>1. f.s2 \in 0 .. B - 1 /\ f.ex \in 0 .. B - 1 /\ f.cr \in 0 .. B - 1
  BY DEF SeqFields, Byte
<1>2. e \in Nat /\ e <= B * B - B
  <2>1. f.s2 * ExtCount \in Nat /\ f.s2 * ExtCount <= (B - 1) * ExtCount
    BY <1>1, Sizes
  <2>2. (B - 1) * ExtCount <= (B - 1) * (B - 1)
    BY Sizes
  <2>3. (B - 1) * (B - 1) + (B - 1) = B * B - B
    BY Sizes
  <2> QED BY <1>1, <2>1, <2>2, <2>3, Sizes
<1> HIDE DEF e
<1>3. e * RecCount \in Nat /\ e * RecCount <= e * B
  BY <1>2, Sizes
<1>4. e * B <= (B * B - B) * B
  BY <1>2, Sizes
<1>5. (B * B - B) * B = B * B * B - B * B /\ B <= B * B
  BY Sizes
<1>6. e * RecCount + f.cr < B * B * B
  <2>1. e * RecCount <= B * B * B - B * B
    BY <1>3, <1>4, <1>5, Sizes, <1>2
  <2>2. f.cr < B * B /\ f.cr \in Nat
    BY <1>1, <1>5, Sizes
  <2> DEFINE p == e * RecCount
             u == B * B
             t == B * B * B
  <2>3. p \in Nat /\ u \in Nat /\ t \in Nat
    BY <1>3, Sizes
  <2>4. p <= t - u /\ f.cr < u
    BY <2>1, <2>2
  <2> HIDE DEF p, u, t
  <2>5. p + f.cr < t
    BY <2>2, <2>3, <2>4
  <2> QED BY <2>5 DEF p, t
<1> QED BY <1>6 DEF SeqOffset, e

-----------------------------------------------------------------------------
(* The inductive invariant *)

SearchTypeOK ==
  /\ searchex \in Byte
  /\ length \in Lengths \cup {0} /\ left \in Nat
  /\ entry \in [s2 : Byte, ex : Byte, rc : Byte]
  /\ found \in BOOLEAN

TypeOK ==
  /\ seq \in SeqFields /\ rnd \in RndFields
  /\ offset \in Nat
  /\ SearchTypeOK

\* A search is in the middle of a file only when it wants all extents and has
\* returned one.
OnlyAllGoesOn == left # 0 => found /\ searchex = All

\* The extents that such a search returns are numbered within their module.
ExtentKnown == found /\ searchex = All => entry.ex < ExtCount

SearchInv == SearchTypeOK /\ OnlyAllGoesOn /\ ExtentKnown /\ EntriesCoverFile

\* After F_RANDREC, and F_SIZE of a file that is there, the random fields are as
\* these calls set them.
RandKnown ==
  /\ op = "randrec" => rnd = SetRand(SeqOffset(seq))
  /\ op = "size" /\ found => rnd = SetRand(length)

Inv ==
  /\ TypeOK
  /\ OnlyAllGoesOn
  /\ ExtentKnown
  /\ EntriesCoverFile
  /\ RandKnown

-----------------------------------------------------------------------------
(* The search *)

LEMMA LengthsNat == Lengths \cup {0} \subseteq Nat
BY Sizes, FcbAssumption

LEMMA RecordCountIs ==
  ASSUME NEW n \in Nat
  PROVE  /\ RecordCount(n) \in Byte
         /\ n < B => RecordCount(n) = IF n > RecCount THEN RecCount ELSE n
<1>1. n % B \in 0 .. B - 1
  BY Sizes, Division
<1>2. n < B => n % B = n
  BY Sizes, Undivided
<1> QED BY <1>1, <1>2, Sizes DEF RecordCount, Byte

LEMMA RestIs ==
  ASSUME NEW n \in Nat, NEW x
  PROVE  /\ Rest(n, x) \in Nat
         /\ Rest(n, x) # 0 => x = All
         /\ x = All => Rest(n, x) = IF n > RecCount THEN n - RecCount ELSE 0
BY Sizes DEF Rest

LEMMA NextFileKnown ==
  ASSUME NEW x \in Byte, NextFile(x), searchex' = x
  PROVE  SearchInv'
<1>1. PICK n \in Lengths :
        /\ length' = n
        /\ entry' = [s2 |-> 0, ex |-> IF x = All THEN 0 ELSE x, rc |-> RecordCount(n)]
        /\ left' = Rest(n, x)
        /\ found' = TRUE
  BY DEF NextFile
<1>2. n \in Nat
  BY LengthsNat
<1>3. 0 \in Byte
  BY Sizes DEF Byte
<1>4. SearchTypeOK'
  BY <1>1, <1>2, <1>3, RecordCountIs, RestIs DEF SearchTypeOK
<1>5. OnlyAllGoesOn'
  BY <1>1, <1>2, RestIs DEF OnlyAllGoesOn
<1>6. ExtentKnown'
  BY <1>1, Sizes DEF ExtentKnown
<1>7. EntriesCoverFile'
  <2>1. SUFFICES ASSUME x = All
        PROVE  EntriesCoverFile'
    BY DEF EntriesCoverFile
  <2>2. Begin(entry') = 0
    BY <1>1, <2>1, Sizes DEF Begin
  <2>3. length' - Begin(entry') = n
    BY <1>1, <1>2, <2>2
  <2>4. entry'.rc = RecordCount(n)
    BY <1>1
  <2> QED BY <1>1, <1>2, <2>1, <2>2, <2>3, <2>4, RecordCountIs, RestIs DEF EntriesCoverFile, Begin
<1> QED BY <1>4, <1>5, <1>6, <1>7 DEF SearchInv

\* A search that begins.
LEMMA FirstKnown ==
  ASSUME TypeOK, First
  PROVE  SearchInv'
<1>1. seq.ex \in Byte /\ searchex' = seq.ex
  BY DEF TypeOK, SeqFields, First
<1>2. CASE NextFile(seq.ex)
  BY <1>1, <1>2, NextFileKnown
<1>3. CASE entry' = NoEntry /\ left' = 0 /\ found' = FALSE /\ UNCHANGED length
  <2>1. 0 \in Byte
    BY Sizes DEF Byte
  <2> QED BY <1>1, <1>3, <2>1
    DEF TypeOK, SearchInv, SearchTypeOK, OnlyAllGoesOn, ExtentKnown,
        EntriesCoverFile, NoEntry
<1> QED BY <1>2, <1>3 DEF First

\* The record at which the entry after this one begins: the number of a module
\* does not leave its byte, because the file goes on there.
LEMMA NextExtentFollows ==
  ASSUME SearchInv, left # 0
  PROVE  /\ NextExtent.ex \in Byte /\ NextExtent.ex < ExtCount
         /\ NextExtent.s2 \in Byte
         /\ Begin(NextExtent) = Begin(entry) + RecCount
         /\ Begin(NextExtent) < length
         /\ left = length - Begin(NextExtent)
<1> DEFINE s == entry.s2
           x == entry.ex
<1>1. /\ s \in 0 .. B - 1 /\ x \in 0 .. B - 1 /\ x < ExtCount
      /\ found /\ searchex = All
  BY DEF SearchInv, SearchTypeOK, OnlyAllGoesOn, ExtentKnown, Byte
<1>2. length \in Nat /\ length <= RecCount * ExtCount * B /\ left \in Nat \ {0}
  BY FcbAssumption, Sizes, LengthsNat DEF SearchInv, SearchTypeOK
<1>3. Begin(entry) = (s * ExtCount + x) * RecCount /\ Begin(entry) \in Nat
  BY <1>1, Sizes DEF Begin
<1>4. left = length - Begin(entry) - RecCount
  BY <1>1, <1>2, <1>3, Sizes DEF SearchInv, EntriesCoverFile
<1>5. Begin(entry) + RecCount = (s * ExtCount + (x + 1)) * RecCount
  BY <1>1, <1>3, Sizes
<1>6. Begin(entry) + RecCount < length
  BY <1>2, <1>3, <1>4, Sizes
<1>7. CASE x + 1 >= ExtCount
  <2>1. x + 1 = ExtCount
    BY <1>1, <1>7, Sizes
  <2>2. Begin(entry) + RecCount = (RecCount * ExtCount) * (s + 1)
    BY <1>1, <1>5, <2>1, Sizes
  <2>3. s + 1 < B
    <3>1. SUFFICES ASSUME s = B - 1 PROVE FALSE
      BY <1>1, Sizes
    <3>2. (RecCount * ExtCount) * (s + 1) = RecCount * ExtCount * B
      BY <3>1, Sizes
    <3> QED BY <1>2, <1>3, <1>6, <2>2, <3>2, Sizes
  <2>4. (s + 1) % B = s + 1
    <3>1. s + 1 \in 0 .. B - 1
      BY <1>1, <2>3, Sizes
    <3> QED BY <3>1, Sizes, Undivided
  <2>5. NextExtent.ex = 0 /\ NextExtent.s2 = s + 1
    BY <1>7, <2>4 DEF NextExtent
  <2>6. Begin(NextExtent) = (RecCount * ExtCount) * (s + 1)
    BY <1>1, <2>5, Sizes DEF Begin
  <2> QED BY <1>1, <1>2, <1>3, <1>4, <1>6, <2>2, <2>3, <2>5, <2>6, Sizes DEF Byte
<1>8. CASE ~(x + 1 >= ExtCount)
  <2>1. NextExtent.ex = x + 1 /\ NextExtent.s2 = s
    BY <1>8 DEF NextExtent
  <2>2. Begin(NextExtent) = (s * ExtCount + (x + 1)) * RecCount
    BY <2>1 DEF Begin
  <2> QED BY <1>1, <1>2, <1>3, <1>4, <1>5, <1>6, <1>8, <2>1, <2>2, Sizes DEF Byte
<1> QED BY <1>7, <1>8

\* A search that goes on in the same file.
LEMMA GoesOnKnown ==
  ASSUME SearchInv, left # 0,
         entry' = [s2 |-> NextExtent.s2, ex |-> NextExtent.ex,
                   rc |-> RecordCount(left)],
         left' = Rest(left, searchex), found' = TRUE,
         UNCHANGED <<length, searchex>>
  PROVE  SearchInv'
<1>1. left \in Nat /\ searchex = All
  BY DEF SearchInv, SearchTypeOK, OnlyAllGoesOn
<1>2. /\ NextExtent.ex \in Byte /\ NextExtent.ex < ExtCount
      /\ NextExtent.s2 \in Byte
      /\ left = length - Begin(NextExtent)
  BY NextExtentFollows
<1>3. SearchTypeOK'
  BY <1>1, <1>2, RecordCountIs, RestIs DEF SearchInv, SearchTypeOK
<1>4. OnlyAllGoesOn' /\ ExtentKnown'
  BY <1>1, <1>2 DEF OnlyAllGoesOn, ExtentKnown
<1>5. EntriesCoverFile'
  <2>1. Begin(entry') = Begin(NextExtent)
    BY DEF Begin
  <2>2. length' - Begin(entry') = left
    BY <1>2, <2>1
  <2>3. entry'.rc = RecordCount(left)
    OBVIOUS
  <2> QED BY <1>1, <2>2, <2>3, RecordCountIs, RestIs DEF EntriesCoverFile
<1> QED BY <1>3, <1>4, <1>5 DEF SearchInv

\* Every call keeps what is known of the search.
LEMMA SearchKept ==
  ASSUME Inv, Next
  PROVE  SearchInv'
<1>1. SearchInv
  BY DEF Inv, TypeOK, SearchInv
<1>2. CASE UNCHANGED search
  BY <1>1, <1>2 DEF search, SearchInv, SearchTypeOK, OnlyAllGoesOn,
                    ExtentKnown, EntriesCoverFile, Begin
<1>3. CASE First
  BY <1>3, FirstKnown DEF Inv
<1>4. CASE SearchNext
  <2>1. CASE left = 0 /\ NextFile(searchex)
    <3>1. searchex \in Byte /\ searchex' = searchex
      BY <1>1, <1>4 DEF SearchInv, SearchTypeOK, SearchNext
    <3> QED BY <2>1, <3>1, NextFileKnown
  <2>2. CASE left = 0 /\ found' = FALSE /\ UNCHANGED <<length, left, entry>>
    <3>1. searchex' = searchex
      BY <1>4 DEF SearchNext
    <3> QED BY <1>1, <2>2, <3>1 DEF SearchInv, SearchTypeOK,
                 OnlyAllGoesOn, ExtentKnown, EntriesCoverFile
  <2>3. CASE left # 0
    BY <1>1, <1>4, <2>3, GoesOnKnown DEF SearchNext
  <2> QED BY <1>4, <2>1, <2>2, <2>3 DEF SearchNext
<1> QED BY <1>2, <1>3, <1>4
  DEF Next, SetField, Sequential, Random, RandRec, SearchFirst, Size

-----------------------------------------------------------------------------
(* Theorems *)

LEMMA RandOffsetNat ==
  ASSUME NEW f \in RndFields
  PROVE  RandOffset(f) \in Nat
BY Sizes DEF RandOffset, RandRecord, RndFields, Byte

LEMMA InitInv ==
  ASSUME Init
  PROVE  Inv
<1>1. 0 \in Byte
  BY Sizes DEF Byte
<1> QED BY <1>1
  DEF Init, Inv, TypeOK, SearchTypeOK, OnlyAllGoesOn, ExtentKnown,
      EntriesCoverFile, RandKnown, NoEntry

\* The fields that the calls leave in the FCB are bytes.
LEMMA FieldsKept ==
  ASSUME Inv, Next
  PROVE  seq' \in SeqFields /\ rnd' \in RndFields /\ offset' \in Nat
<1>1. seq \in SeqFields /\ rnd \in RndFields
  BY DEF Inv, TypeOK
<1>2. CASE SetField
  <2>1. offset' \in Nat
    BY <1>2 DEF SetField
  <2>2. ASSUME NEW v \in Byte, NEW k \in {"s2", "ex", "cr"},
               seq' = [seq EXCEPT ![k] = v], UNCHANGED rnd
        PROVE  seq' \in SeqFields /\ rnd' \in RndFields
    BY <1>1, <2>2 DEF SeqFields
  <2>3. ASSUME NEW v \in Byte, NEW k \in {"r2", "r1", "r0"},
               rnd' = [rnd EXCEPT ![k] = v], UNCHANGED seq
        PROVE  seq' \in SeqFields /\ rnd' \in RndFields
    BY <1>1, <2>3 DEF RndFields
  <2> QED BY <1>2, <2>1, <2>2, <2>3 DEF SetField
<1>3. CASE Sequential
  <2>1. offset' \in Nat /\ offset' + 1 \in Nat
    BY <1>1, <1>3, SeqOffsetNat DEF Sequential
  <2> QED BY <1>1, <1>3, <2>1, SetSeqNames DEF Sequential
<1>4. CASE Random
  BY <1>1, <1>4, RandOffsetNat, SetSeqNames DEF Random
<1>5. CASE RandRec
  BY <1>1, <1>5, SeqOffsetNat, SetRandSpells DEF RandRec
<1>6. CASE SearchFirst
  BY <1>1, <1>6 DEF SearchFirst
<1>7. CASE SearchNext
  BY <1>1, <1>7 DEF SearchNext
<1>8. CASE Size
  <2>1. length' \in Nat
    BY <1>8, FirstKnown, LengthsNat DEF Inv, Size, SearchInv, SearchTypeOK
  <2>2. SetRand(length') \in RndFields
    BY <2>1, SetRandSpells
  <2> QED BY <1>1, <1>8, <2>2 DEF Size
<1> QED BY <1>2, <1>3, <1>4, <1>5, <1>6, <1>7, <1>8 DEF Next

\* What the last call did is what its name says.
LEMMA CallsKept ==
  ASSUME Inv, Next
  PROVE  RandKnown'
<1>1. CASE RandRec
  BY <1>1 DEF RandRec, RandKnown, SeqOffset
<1>2. CASE Size
  BY <1>2 DEF Size, RandKnown
<1>3. CASE op' \notin {"size", "randrec"}
  BY <1>3 DEF RandKnown
<1> QED BY <1>1, <1>2, <1>3
  DEF Next, SetField, Sequential, Random, SearchFirst, SearchNext

\* The strengthening of the invariants below: the types of the fields, where a
\* search stands, and what the last call did.
THEOREM Invariance == Spec => []Inv
<1>1. Init => Inv
  BY InitInv
<1>2. Inv /\ [Next]_vars => Inv'
  <2>1. ASSUME Inv, Next PROVE Inv'
    BY <2>1, SearchKept, FieldsKept, CallsKept DEF Inv, TypeOK, SearchInv
  <2>2. ASSUME Inv, UNCHANGED vars PROVE Inv'
    BY <2>2 DEF Inv, TypeOK, SearchTypeOK, OnlyAllGoesOn, ExtentKnown,
        EntriesCoverFile, Begin, RandKnown, vars, position, search
  <2> QED BY <2>1, <2>2
<1> QED BY <1>1, <1>2, PTL DEF Spec

\* bdos_search shows a file of any length in entries that cover it, and the
\* search is still at the file exactly while there is more of it.
THEOREM SearchCoversFile == Spec => []EntriesCoverFile
BY Invariance, PTL DEF Inv

\* The top bit of the middle one of three bytes says in which half of what the
\* lower two count the number lies.
LEMMA TopBit ==
  ASSUME NEW o \in Nat
  PROVE  SetRand(o).r1 >= B \div 2 <=> ~ (o % (B * B) < (B * B) \div 2)
<1> DEFINE hi == (o \div B) % B
           lo == o % B
           half == B \div 2
<1>1. o % (B * B) = B * hi + lo
  BY Sizes, DividedTwice
<1>2. o \div B \in Nat
  BY Sizes, Division
<1>3. hi \in 0 .. B - 1 /\ lo \in 0 .. B - 1
  BY <1>2, Sizes, Division
<1>4. half \in Nat /\ half = RecCount /\ B = 2 * half
  BY FcbAssumption
<1>5. (B * B) \div 2 = B * half
  <2>1. B * B = 2 * (B * half) + 0 /\ B * half \in Nat
    BY <1>4, Sizes
  <2> QED BY <2>1, Divided
<1>6. SetRand(o).r1 = hi
  BY DEF SetRand
<1> HIDE DEF hi, lo, half
<1>7. CASE hi >= half
  <2>1. B * hi >= B * half
    BY <1>3, <1>4, <1>7, Sizes
  <2>2. B * hi \in Nat /\ B * half \in Nat /\ lo \in Nat
    BY <1>3, <1>4, Sizes
  <2>3. ~ (B * hi + lo < B * half)
    BY <2>1, <2>2
  <2> QED BY <1>1, <1>5, <1>6, <1>7, <2>3 DEF half
<1>8. CASE ~ (hi >= half)
  <2>1. hi + 1 <= half
    BY <1>3, <1>4, <1>8
  <2>2. B * (hi + 1) <= B * half
    BY <1>3, <1>4, <2>1, Sizes
  <2>3. B * (hi + 1) = B * hi + B
    BY <1>3, Sizes
  <2>4. B * hi \in Nat /\ B * half \in Nat /\ lo \in Nat /\ lo < B
    BY <1>3, <1>4, Sizes
  <2>5. B * hi + lo < B * half
    BY <2>2, <2>3, <2>4, Sizes
  <2> QED BY <1>1, <1>5, <1>6, <1>8, <2>5 DEF half
<1> QED BY <1>7, <1>8

\* A number that three bytes hold is found again unless that bit is set, and
\* never when it is.
LEMMA FoundAgain ==
  ASSUME NEW o \in Nat, o < B * B * B
  PROVE  RandOffset(SetRand(o)) = o <=> o % (B * B) < (B * B) \div 2
<1>1. PICK f : f = SetRand(o)
  OBVIOUS
<1>2. f \in RndFields /\ RandRecord(f) = o
  BY <1>1, SetRandSpells
<1>3. f.r1 \in Nat /\ f.r0 \in Nat /\ B \div 2 \in Nat
  BY <1>2, FcbAssumption DEF RndFields, Byte
<1>4. f.r1 >= B \div 2 <=> ~ (o % (B * B) < (B * B) \div 2)
  BY <1>1, TopBit
<1>5. CASE ~ (f.r1 >= B \div 2)
  <2>1. RandOffset(f) = o
    BY <1>2, <1>5 DEF RandOffset
  <2> QED BY <1>1, <1>4, <1>5, <2>1
<1>6. CASE f.r1 >= B \div 2
  <2>1. RandOffset(f) = ((2 * B - 1) * B + f.r1) * B + f.r0
    BY <1>6 DEF RandOffset
  <2>2. ((2 * B - 1) * B + f.r1) * B >= B * B * B
    <3>1. (2 * B - 1) * B >= B * B
      BY Sizes
    <3>2. (2 * B - 1) * B \in Nat
      BY Sizes
    <3>3. (2 * B - 1) * B + f.r1 >= B * B
      BY <1>3, <3>1, <3>2, Sizes
    <3>4. PICK u : u = (2 * B - 1) * B + f.r1
      OBVIOUS
    <3>5. u \in Nat /\ u >= B * B
      BY <1>3, <3>2, <3>3, <3>4
    <3>6. u * B >= (B * B) * B
      BY <3>5, Sizes
    <3> QED BY <3>4, <3>6
  <2>3. RandOffset(f) # o
    <3>1. PICK v : v = ((2 * B - 1) * B + f.r1) * B
      OBVIOUS
    <3>2. v \in Int /\ v >= B * B * B
      BY <1>3, <2>2, <3>1, Sizes
    <3> QED BY <1>3, <2>1, <3>1, <3>2, Sizes
  <2> QED BY <1>1, <1>4, <1>6, <2>3
<1> QED BY <1>5, <1>6

\* Random access returns to the record that F_RANDREC or F_SIZE has put in the
\* random fields if the record is in the first half of what r1 and r0 count, and
\* only then, for bytes of every even size.
THEOREM RandomReturns == Spec => RandomComesBack
<1>1. ASSUME Inv, [Next]_vars
      PROVE  [Recorded /\ op' = "rnd" =>
                (offset' = WhichRecord <=> WhichRecord % (B * B) < (B * B) \div 2)]_vars
  <2>1. SUFFICES ASSUME Next, Recorded, op' = "rnd"
        PROVE  offset' = WhichRecord <=> WhichRecord % (B * B) < (B * B) \div 2
    BY <1>1
  <2>2. Random
    BY <2>1 DEF Next, SetField, Sequential, RandRec, SearchFirst, SearchNext, Size
  <2>3. PICK o : o = WhichRecord
    OBVIOUS
  <2>4. o \in Nat /\ o < B * B * B /\ rnd = SetRand(o)
    <3>1. CASE op = "randrec"
      BY <1>1, <2>3, <3>1, SeqOffsetNat, SeqOffsetFits
        DEF WhichRecord, Inv, TypeOK, RandKnown
    <3>2. CASE op # "randrec"
      BY <1>1, <2>1, <2>3, <3>2, LengthsNat
        DEF WhichRecord, Recorded, Inv, TypeOK, SearchTypeOK, RandKnown
    <3> QED BY <3>1, <3>2
  <2>5. offset' = RandOffset(SetRand(o))
    BY <2>2, <2>4 DEF Random
  <2> QED BY <2>3, <2>4, <2>5, FoundAgain
<1> QED BY <1>1, Invariance, PTL DEF Spec, RandomComesBack

\* Sequential reads and writes go to the next record, through the ends of
\* extents and modules of every size, and begin again after the last.
THEOREM NoRecordSkipped == Spec => SequentialAdvances
<1>1. ASSUME Inv, [Next]_vars
      PROVE  [op' = "seq" => SeqOffset(seq') = (SeqOffset(seq) + 1) % SeqSpace]_vars
  <2>1. SUFFICES ASSUME Next, op' = "seq"
        PROVE  SeqOffset(seq') = (SeqOffset(seq) + 1) % SeqSpace
    BY <1>1
  <2>2. Sequential
    BY <2>1 DEF Next, SetField, Random, RandRec, SearchFirst, SearchNext, Size
  <2>3. SeqOffset(seq) + 1 \in Nat
    BY <1>1, SeqOffsetNat DEF Inv, TypeOK
  <2> QED BY <2>2, <2>3, SetSeqNames DEF Sequential
<1> QED BY <1>1, Invariance, PTL DEF Spec, SequentialAdvances

\* The entries that bdos_search shows of a file begin an extent after each
\* other, through the ends of modules, and each before the file's end.
THEOREM ExtentsFollow == Spec => ExtentsInOrder
<1>1. ASSUME Inv
      PROVE  [SearchNext /\ left # 0 =>
                /\ Begin(entry') = Begin(entry) + RecCount
                /\ Begin(entry') < length]_vars
  <2>1. SUFFICES ASSUME SearchNext, left # 0
        PROVE  /\ Begin(entry') = Begin(entry) + RecCount
               /\ Begin(entry') < length
    OBVIOUS
  <2>2. entry' = [s2 |-> NextExtent.s2, ex |-> NextExtent.ex,
                  rc |-> RecordCount(left)]
    BY <2>1 DEF SearchNext
  <2>3. Begin(entry') = Begin(NextExtent)
    BY <2>2 DEF Begin
  <2>4. SearchInv
    BY <1>1 DEF Inv, TypeOK, SearchInv
  <2> QED BY <2>1, <2>3, <2>4, NextExtentFollows
<1> QED BY <1>1, Invariance, PTL DEF ExtentsInOrder
=============================================================================
