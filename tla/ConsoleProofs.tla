---------------------------- MODULE ConsoleProofs ----------------------------
(***************************************************************************)
(* What Console promises of the serial ports and the keyboard of the Z80,  *)
(* proved for any number of ports, files and rows and any keyboard: a      *)
(* program that asks first reads what was received and never holds the     *)
(* AVR, what the card takes of the output is in its file and the keys are  *)
(* seen as they were typed.                                                *)
(***************************************************************************)
EXTENDS Console, SequenceTheorems, TLAPS

----------------------------------------------------------------------------
\* The inductive invariant.  What the variables hold.
Files == [name : Names \cup {""}, pos : Nat, data : Seq(Chars)]
Received == IF program = "serial" THEN {0} ELSE Typable
LinesOK ==
  /\ rxq \in [Uarts -> Seq(Received)]
  /\ txq \in [Uarts -> Seq({0})]
PortsOK ==
  /\ mode \in [Virtual -> [Dirs -> Modes]]
  /\ polled \in [Virtual -> [Dirs -> BOOLEAN]]
  /\ held \in SUBSET Virtual
FilesOK ==
  /\ fil \in [Virtual -> [Dirs -> Files]]
  /\ card \in [Names -> Seq(Chars)]
  /\ took \in [Names -> Seq(Chars)]
  /\ spoilt \in SUBSET Names
KeysOf == {Matrix[c].key : c \in Typable}
ModKeys == {Matrix[c].mod : c \in Typable}
KeysOK ==
  /\ current_row \in 0 .. LastRow
  /\ shift_step \in 0 .. 2
  /\ selected \in BOOLEAN
  /\ round \in [keys : Seq(KeysOf), mods : SUBSET ModKeys]
  /\ typed \in Seq(Typable)
  /\ seen \in Seq([key : KeysOf, mods : SUBSET ModKeys])
TypeOK ==
  /\ LinesOK /\ PortsOK /\ FilesOK /\ KeysOK
  /\ program \in {"serial", "keyboard"}

\* A status that holds tells the truth about its UART, until something uses that.
Ready(p, d) ==
  \/ mode[p][d] = "file"
  \/ /\ mode[p][d] \in Uarts
     /\ IF d = "read" THEN rxq[mode[p][d]] # <<>> ELSE txq[mode[p][d]] = <<>>
PolledKnown == \A p \in Virtual, d \in Dirs : polled[p][d] => Ready(p, d)

\* The write that holds the AVR is one to a UART, which no status relies on.
HeldKnown ==
  \A p \in held :
    /\ mode[p]["write"] \in Uarts
    /\ \A q \in Virtual : mode[q]["write"] = mode[p]["write"] => ~polled[q]["write"]

\* Output goes to a file just in file mode, and to one that is not spoilt from one
\* port only.
FilesKnown ==
  /\ \A p \in Virtual : mode[p]["write"] = "file" <=> fil[p]["write"].name \in Names
  /\ \A p, q \in Virtual :
       p # q /\ fil[p]["write"].name \in Names \ spoilt =>
         fil[q]["write"].name # fil[p]["write"].name

\* An output file that is not spoilt has all that the card took while it is open,
\* and the card has it when it is not.
OutputKnown ==
  /\ \A p \in Virtual :
       fil[p]["write"].name \in Names \ spoilt =>
         fil[p]["write"].data = took[fil[p]["write"].name]
  /\ OutputIsKept

\* While one program runs what the other uses is as it was at first.
OthersIdle ==
  IF program = "keyboard"
  THEN /\ held = {}
       /\ \A p \in Virtual, d \in Dirs : ~polled[p][d]
  ELSE KeyInit

\* Rows read in this round, whether that of the modifiers is one of them, and the
\* keys pressed up to now.
Done == current_row + (IF selected THEN 0 ELSE 1)
Past == Done > ModRow
Pressed == Len(seen) + Len(round.keys)
Taken == IF shift_step = 2 THEN Pressed - 1 ELSE Pressed
queue == rxq[Keyboard]
Shifts(c) == Supported(c) /\ Matrix[c].mod # NO_KEY

\* The characters in the queue that have a key are those typed and not yet taken,
\* in their order: at says how many were typed up to each.
Counts(at, q, t, n) ==
  /\ at \in [0 .. Len(q) -> 0 .. Len(t)]
  /\ at[0] = n /\ at[Len(q)] = Len(t)
  /\ \A i \in 0 .. Len(q), j \in 0 .. Len(q) : i <= j => at[i] <= at[j]
  /\ \A i \in 1 .. Len(q) :
       IF Supported(q[i]) THEN at[i] = at[i - 1] + 1 /\ t[at[i]] = q[i]
       ELSE at[i] = at[i - 1]
QueueKnown ==
  \E at \in [0 .. Len(queue) -> 0 .. Len(typed)] : Counts(at, queue, typed, Taken)

\* In the midst of a character with a modifier that is the next in the queue; its
\* modifier is pressed in this round if the row was read, its key comes after it.
StepKnown ==
  shift_step # 0 =>
    /\ queue # <<>> /\ Shifts(Head(queue))
    /\ Past => Matrix[Head(queue)].mod \in round.mods
    /\ shift_step = 1 =>
         \/ Done <= Matrix[Head(queue)].row /\ (Past \/ Matrix[Head(queue)].row < ModRow)
         \/ Past /\ Matrix[Head(queue)].row < ModRow

\* The keys of this round: the one whose modifier is not pressed is the last, and
\* the row of the modifiers is still to come.
RoundKnown ==
  /\ Pressed <= Len(typed)
  /\ \A i \in 1 .. Len(round.keys) :
       /\ round.keys[i] = Matrix[typed[Len(seen) + i]].key
       /\ \/ ModsOf(typed[Len(seen) + i]) \subseteq round.mods
          \/ ~Past /\ i = Len(round.keys) /\ shift_step = 2

\* The modifier of this round is that of a character near all the keys of it.
ModsKnown ==
  /\ ~Past => round.mods = {} /\ Len(round.keys) <= Done
  /\ round.mods = {} \/
       \E j \in 1 .. Len(typed) :
         /\ round.mods \subseteq ModsOf(typed[j])
         /\ j <= Len(seen) + 1 + ModRow
         /\ Pressed - j <= Done - 1 - ModRow

SeenKnown ==
  \A i \in 1 .. Len(seen) :
    /\ seen[i].key = Matrix[typed[i]].key
    /\ ModsOf(typed[i]) \subseteq seen[i].mods
    /\ seen[i].mods \subseteq UNION {ModsOf(c) : c \in Neighbours(i)}

KeysKnown ==
  program = "keyboard" =>
    QueueKnown /\ StepKnown /\ RoundKnown /\ ModsKnown /\ SeenKnown

Inv ==
  /\ TypeOK
  /\ PolledKnown /\ HeldKnown /\ FilesKnown /\ OutputKnown
  /\ OthersIdle /\ KeysKnown
----------------------------------------------------------------------------
\* What the steps change.

\* A function of two arguments that is changed at one place.
LEMMA TwoDeep ==
  ASSUME NEW A, NEW B, NEW C, NEW f \in [A -> [B -> C]],
         NEW p \in A, NEW d \in B, NEW v \in C,
         NEW g, g = [f EXCEPT ![p][d] = v]
  PROVE  /\ g \in [A -> [B -> C]] /\ g[p][d] = v
         /\ \A q \in A, e \in B : q # p \/ e # d => g[q][e] = f[q][e]
<1> QED OBVIOUS

\* A function of two arguments and one of its rows.
LEMMA OneRow ==
  ASSUME NEW A, NEW B, NEW C, NEW f \in [A -> [B -> C]],
         NEW p \in A, NEW r \in [B -> C],
         NEW g, g = [f EXCEPT ![p] = r]
  PROVE  /\ g \in [A -> [B -> C]]
         /\ \A e \in B : g[p][e] = r[e]
         /\ \A q \in A, e \in B : q # p => g[q][e] = f[q][e]
<1> QED OBVIOUS

\* Putting a byte over another or at the end keeps a sequence one of bytes.
LEMMA OverKeeps ==
  ASSUME NEW s \in Seq(Chars), NEW i \in Nat, NEW c \in Chars
  PROVE  Over(s, i + 1, c) \in Seq(Chars)
<1>1. CASE i + 1 <= Len(s)
  BY <1>1 DEF Over
<1>2. CASE ~(i + 1 <= Len(s))
  BY <1>2 DEF Over
<1> QED BY <1>1, <1>2

\* A file object whose position and bytes change.
LEMMA Grown ==
  ASSUME NEW f \in Files, NEW i \in Nat, NEW s \in Seq(Chars)
  PROVE  LET g == [f EXCEPT !.pos = i, !.data = s] IN
           g \in Files /\ g.name = f.name /\ g.data = s
BY DEF Files

\* What one program's step is, and what it leaves alone.
LEMMA SerialSteps ==
  ASSUME Next, program = "serial"
  PROVE  /\ program' = "serial" /\ keyVars' = keyVars
         /\ \/ \E p \in Virtual, d \in Dirs, m \in Modes \ {"unattached"} : Attach(p, d, m)
            \/ \E p \in Virtual : Status(p, Own)
            \/ \E p \in Virtual : Read(p)
            \/ \E p \in Virtual, c \in Chars : Write(p, c)
            \/ Resume
            \/ Prompt
            \/ \E u \in Uarts : (Arrive(u, 0) \/ Transmit(u)) /\ sioVars' = sioVars
BY DEF Next, SioNext, Line

LEMMA KeyboardSteps ==
  ASSUME Next, program = "keyboard"
  PROVE  /\ program' = "keyboard" /\ sioVars' = sioVars
         /\ msx_scanrow \/ msx_setrow \/ \E c \in Typable : Type(c)
BY DEF Next, KeyNext

LEMMA OnlyTwo ==
  ASSUME TypeOK
  PROVE  program = "serial" \/ program = "keyboard"
BY DEF TypeOK

\* What f_close leaves on the card.
LEMMA CardKeepsType ==
  ASSUME TypeOK, NEW p \in Virtual, NEW d \in Dirs, NEW lost,
         card' = Unattached(p, d, lost)
  PROVE  card' \in [Names -> Seq(Chars)]
<1>1. fil[p][d].data \in Seq(Chars) /\ card \in [Names -> Seq(Chars)]
  BY DEF TypeOK, FilesOK, Files
<1> QED BY <1>1 DEF Unattached

LEMMA AttachDoes ==
  ASSUME TypeOK, FilesKnown, NEW p \in Virtual, NEW d \in Dirs,
         NEW m \in Modes \ {"unattached"}, Attach(p, d, m)
  PROVE  /\ held = {} /\ held' = {} /\ lines' = lines /\ took' = took
         /\ polled' = [polled EXCEPT ![p][d] = FALSE]
         /\ \E k \in Modes, f \in Files, lost \in SUBSET Closes(p, d) :
              /\ mode' = [mode EXCEPT ![p][d] = k]
              /\ fil' = [fil EXCEPT ![p][d] = f]
              /\ k = "file" <=> f.name \in Names
              /\ card' = Unattached(p, d, lost)
              /\ spoilt' \in SUBSET Names /\ spoilt \cup lost \subseteq spoilt'
              /\ f.name \in Names /\ d = "write" =>
                   /\ f.data = card'[f.name]
                   /\ f.name \notin spoilt' =>
                        \A q \in Virtual : q # p => fil[q]["write"].name # f.name
<1>1. held = {} /\ held' = {} /\ lines' = lines /\ took' = took
      /\ polled' = [polled EXCEPT ![p][d] = FALSE]
  BY DEF Attach
<1>2. PICK lost \in SUBSET Closes(p, d) :
        /\ card' = Unattached(p, d, lost)
        /\ \/ /\ mode' = [mode EXCEPT ![p][d] = IF m = "file" THEN "unattached" ELSE m]
              /\ fil' = [fil EXCEPT ![p][d] = Closed]
              /\ spoilt' = spoilt \cup lost
           \/ \E n \in Names :
                /\ m = "file" /\ Open(p, d, n)
                /\ spoilt' = spoilt \cup lost \cup
                     {k \in {n} : d = "write" /\ \E q \in Virtual \ {p} : k \in Output(q)}
  BY DEF Attach
<1>3. Closes(p, d) \subseteq Names /\ spoilt \subseteq Names /\ lost \subseteq Names
  BY <1>2 DEF Closes, Output, TypeOK, FilesOK
<1>4. Closed \in Files /\ Closed.name \notin Names
  <2>1. <<>> \in Seq(Chars)
    BY EmptySeq
  <2> QED BY <2>1, SioAssumption DEF Closed, Files
<1>5. "unattached" \in Modes /\ "file" \in Modes /\ "unattached" # "file"
  BY DEF Modes
<1>6. CASE /\ mode' = [mode EXCEPT ![p][d] = IF m = "file" THEN "unattached" ELSE m]
           /\ fil' = [fil EXCEPT ![p][d] = Closed]
           /\ spoilt' = spoilt \cup lost
  <2> DEFINE k == IF m = "file" THEN "unattached" ELSE m
  <2>1. k \in Modes /\ k # "file"
    BY <1>5
  <2> HIDE DEF k
  <2>2. mode' = [mode EXCEPT ![p][d] = k]
    BY <1>6 DEF k
  <2>3. spoilt' \in SUBSET Names /\ spoilt \cup lost \subseteq spoilt'
    BY <1>3, <1>6
  <2> QED BY <1>1, <1>2, <1>4, <1>6, <2>1, <2>2, <2>3
<1>7. ASSUME NEW n \in Names, Open(p, d, n),
             spoilt' = spoilt \cup lost \cup
               {k \in {n} : d = "write" /\ \E q \in Virtual \ {p} : k \in Output(q)}
      PROVE  \E k \in Modes, f \in Files :
              /\ mode' = [mode EXCEPT ![p][d] = k]
              /\ fil' = [fil EXCEPT ![p][d] = f]
              /\ k = "file" <=> f.name \in Names
              /\ spoilt' \in SUBSET Names /\ spoilt \cup lost \subseteq spoilt'
              /\ f.name \in Names /\ d = "write" =>
                   /\ f.data = card'[f.name]
                   /\ f.name \notin spoilt' =>
                        \A q \in Virtual : q # p => fil[q]["write"].name # f.name
  <2> DEFINE f == [name |-> n, pos |-> 0,
                   data |-> IF d = "write" THEN card'[n] ELSE <<>>]
  <2>1. f \in Files
    <3>1. <<>> \in Seq(Chars)
      BY EmptySeq
    <3>2. card' \in [Names -> Seq(Chars)]
      BY <1>2, CardKeepsType
    <3>3. (IF d = "write" THEN card'[n] ELSE <<>>) \in Seq(Chars)
      BY <3>1, <3>2
    <3> QED BY <3>3 DEF Files
  <2>2. f.name = n /\ (d = "write" => f.data = card'[n])
    OBVIOUS
  <2> HIDE DEF f
  <2>3. fil' = [fil EXCEPT ![p][d] = f] /\ mode' = [mode EXCEPT ![p][d] = "file"]
    BY <1>7 DEF f, Open
  <2>4. spoilt' \in SUBSET Names /\ spoilt \cup lost \subseteq spoilt'
    BY <1>3, <1>7
  <2>5. ASSUME d = "write", n \notin spoilt', NEW q \in Virtual, q # p
        PROVE  fil[q]["write"].name # n
    BY <1>7, <2>5 DEF Output
  <2> QED BY <1>5, <2>1, <2>2, <2>3, <2>4, <2>5
<1>8. CASE \E n \in Names :
             /\ m = "file" /\ Open(p, d, n)
             /\ spoilt' = spoilt \cup lost \cup
                  {k \in {n} : d = "write" /\ \E q \in Virtual \ {p} : k \in Output(q)}
  <2>1. PICK n \in Names :
          /\ Open(p, d, n)
          /\ spoilt' = spoilt \cup lost \cup
               {k \in {n} : d = "write" /\ \E q \in Virtual \ {p} : k \in Output(q)}
    BY <1>8
  <2> QED BY <1>1, <1>2, <1>7, <2>1
<1> QED BY <1>2, <1>6, <1>8

LEMMA AttachSets ==
  ASSUME TypeOK, FilesKnown, NEW p \in Virtual, NEW d \in Dirs,
         NEW m \in Modes \ {"unattached"}, Attach(p, d, m)
  PROVE  /\ mode' \in [Virtual -> [Dirs -> Modes]] /\ fil' \in [Virtual -> [Dirs -> Files]]
         /\ card' \in [Names -> Seq(Chars)] /\ spoilt' \in SUBSET Names
<1>1. PICK k \in Modes, f \in Files, lost \in SUBSET Closes(p, d) :
        /\ mode' = [mode EXCEPT ![p][d] = k] /\ fil' = [fil EXCEPT ![p][d] = f]
        /\ card' = Unattached(p, d, lost) /\ spoilt' \in SUBSET Names
  BY AttachDoes
<1>2. mode \in [Virtual -> [Dirs -> Modes]] /\ fil \in [Virtual -> [Dirs -> Files]]
  BY DEF TypeOK, PortsOK, FilesOK
<1> QED BY <1>1, <1>2, CardKeepsType

LEMMA StatusDoes ==
  ASSUME TypeOK, NEW p \in Virtual, Status(p, Own)
  PROVE  /\ held = {} /\ UNCHANGED <<lines, mode, files, held>>
         /\ polled' \in [Virtual -> [Dirs -> BOOLEAN]]
         /\ \A d \in Dirs : polled'[p][d] => Ready(p, d)
         /\ \A q \in Virtual, d \in Dirs : q # p => polled'[q][d] = polled[q][d]
<1> DEFINE r == StatusOf(p, Own)
<1>1. r \in [Dirs -> BOOLEAN]
  <2> SUFFICES ASSUME NEW d \in Dirs
               PROVE  r[d] \in BOOLEAN
    BY DEF StatusOf
  <2>1. CASE mode[p][d] = "file"
    BY <2>1 DEF StatusOf
  <2>2. CASE mode[p][d] = "unattached"
    BY <2>2 DEF StatusOf
  <2>3. CASE mode[p][d] # "file" /\ mode[p][d] # "unattached"
    <3>1. r[d] = IF d = "read" THEN uart_testrx(mode[p][d]) > 0
                 ELSE uart_testtx(mode[p][d]) = 0
      BY <2>3 DEF StatusOf
    <3> HIDE DEF r
    <3>2. (uart_testrx(mode[p][d]) > 0) \in BOOLEAN /\ (uart_testtx(mode[p][d]) = 0) \in BOOLEAN
      OBVIOUS
    <3> QED BY <3>1, <3>2
  <2> QED BY <2>1, <2>2, <2>3
<1>2. ASSUME NEW d \in Dirs, r[d]
      PROVE  Ready(p, d)
  <2>1. mode[p][d] \in Modes /\ rxq \in [Uarts -> Seq(Received)] /\ txq \in [Uarts -> Seq({0})]
    BY DEF TypeOK, PortsOK, LinesOK
  <2>2. CASE mode[p][d] = "file"
    BY <2>2 DEF Ready
  <2>3. CASE mode[p][d] # "file"
    <3>1. mode[p][d] # "unattached"
      BY <1>2, <2>3 DEF StatusOf
    <3>2. mode[p][d] \in Uarts
      BY <2>1, <2>3, <3>1 DEF Modes
    <3>3. IF d = "read" THEN Len(rxq[mode[p][d]]) > 0 ELSE Len(txq[mode[p][d]]) = 0
      BY <1>2, <2>3, <3>1 DEF StatusOf, uart_testrx, uart_testtx
    <3>4. rxq[mode[p][d]] \in Seq(Received) /\ txq[mode[p][d]] \in Seq({0})
      BY <2>1, <3>2
    <3> QED BY <3>2, <3>3, <3>4 DEF Ready
  <2> QED BY <2>2, <2>3
<1> HIDE DEF r
<1>3. polled' = [polled EXCEPT ![p] = r]
  BY DEF Status, r
<1>4. UNCHANGED <<lines, mode, files, held>> /\ held = {}
  BY DEF Status
<1>5. polled \in [Virtual -> [Dirs -> BOOLEAN]]
  BY DEF TypeOK, PortsOK
<1>6. /\ polled' \in [Virtual -> [Dirs -> BOOLEAN]]
      /\ \A e \in Dirs : polled'[p][e] = r[e]
      /\ \A q \in Virtual, e \in Dirs : q # p => polled'[q][e] = polled[q][e]
  BY ONLY <1>1, <1>3, <1>5
<1> QED BY <1>2, <1>4, <1>6

LEMMA UsedDoes ==
  ASSUME TypeOK, NEW m, NEW dir \in Dirs, Used(m, dir)
  PROVE  /\ polled' \in [Virtual -> [Dirs -> BOOLEAN]]
         /\ \A q \in Virtual, d \in Dirs : polled'[q][d] => polled[q][d]
         /\ \A q \in Virtual : mode[q][dir] = m => ~polled'[q][dir]
<1>1. polled \in [Virtual -> [Dirs -> BOOLEAN]]
  BY DEF TypeOK, PortsOK
<1> QED BY <1>1 DEF Used

\* What a read does, and a write.
LEMMA ReadDoes ==
  ASSUME TypeOK, NEW p \in Virtual, Read(p)
  PROVE  /\ held = {} /\ held' = {} /\ Used(mode[p]["read"], "read")
         /\ UNCHANGED <<mode, files, txq>>
         /\ \/ rxq' = rxq
            \/ /\ mode[p]["read"] \in Uarts
               /\ Len(rxq[mode[p]["read"]]) > 0
               /\ rxq' = [rxq EXCEPT ![mode[p]["read"]] = Tail(@)]
BY DEF Read, uart_testrx, uart_getc

LEMMA WriteDoes ==
  ASSUME TypeOK, FilesKnown, NEW p \in Virtual, NEW c \in Chars, Write(p, c)
  PROVE  /\ held = {} /\ Used(mode[p]["write"], "write")
         /\ UNCHANGED <<mode, card, spoilt, rxq>>
         /\ \/ /\ fil[p]["write"].name \in Names /\ txq' = txq /\ held' = {}
               /\ fil' \in [Virtual -> [Dirs -> Files]]
               /\ fil'[p]["write"].name = fil[p]["write"].name
               /\ fil'[p]["write"].data =
                    Over(fil[p]["write"].data, fil[p]["write"].pos + 1, c)
               /\ \A q \in Virtual, d \in Dirs :
                    q # p \/ d # "write" => fil'[q][d] = fil[q][d]
               /\ took' = [took EXCEPT
                    ![fil[p]["write"].name] = Over(@, fil[p]["write"].pos + 1, c)]
            \/ txq' = txq /\ held' = {} /\ fil' = fil /\ took' = took
            \/ /\ mode[p]["write"] \in Uarts /\ txq' = txq
               /\ held' = {p} /\ fil' = fil /\ took' = took
            \/ /\ mode[p]["write"] \in Uarts
               /\ txq' = [txq EXCEPT ![mode[p]["write"]] = Append(@, 0)]
               /\ held' = {} /\ fil' = fil /\ took' = took
<1>1. "write" \in Dirs /\ (mode[p]["write"] = "file" <=> fil[p]["write"].name \in Names)
  BY DEF Dirs, FilesKnown
<1>2. held = {} /\ Used(mode[p]["write"], "write") /\ UNCHANGED <<mode, card, spoilt>>
  BY DEF Write
<1>3. \/ /\ mode[p]["write"] = "file" /\ (Take(p, c) \/ UNCHANGED <<fil, took>>)
         /\ UNCHANGED <<lines, held>>
      \/ UNCHANGED <<lines, fil, took, held>>
      \/ /\ mode[p]["write"] \in Uarts
         /\ IF uart_testtx(mode[p]["write"]) = Room
            THEN held' = {p} /\ UNCHANGED lines
            ELSE uart_putc(mode[p]["write"], 0) /\ UNCHANGED <<rxq, held>>
         /\ UNCHANGED <<fil, took>>
  BY DEF Write
<1>4. CASE mode[p]["write"] = "file" /\ Take(p, c) /\ UNCHANGED <<lines, held>>
  <2> DEFINE f == fil[p]["write"]
  <2> DEFINE g == [f EXCEPT !.pos = f.pos + 1, !.data = Over(f.data, f.pos + 1, c)]
  <2>1. /\ fil' = [fil EXCEPT ![p]["write"].pos = f.pos + 1,
                              ![p]["write"].data = Over(f.data, f.pos + 1, c)]
        /\ took' = [took EXCEPT ![f.name] = Over(@, f.pos + 1, c)]
    BY <1>4 DEF Take
  <2>2. fil \in [Virtual -> [Dirs -> Files]] /\ f \in Files
    BY <1>1 DEF TypeOK, FilesOK
  <2>3. f.pos + 1 \in Nat /\ Over(f.data, f.pos + 1, c) \in Seq(Chars)
    <3>1. f.pos \in Nat /\ f.data \in Seq(Chars)
      BY <2>2 DEF Files
    <3> HIDE DEF f
    <3> QED BY <3>1, OverKeeps
  <2>4. g \in Files /\ g.name = f.name /\ g.data = Over(f.data, f.pos + 1, c)
    <3>1. ASSUME NEW i \in Nat, NEW b \in Seq(Chars)
          PROVE  LET h == [f EXCEPT !.pos = i, !.data = b] IN
                   h \in Files /\ h.name = f.name /\ h.data = b
      BY <2>2, Grown
    <3> QED BY <2>3, <3>1
  <2>5. fil' = [fil EXCEPT ![p]["write"] = g]
    BY <2>1, <2>2 DEF Files
  <2> HIDE DEF g
  <2>6. /\ fil' \in [Virtual -> [Dirs -> Files]] /\ fil'[p]["write"] = g
        /\ \A q \in Virtual, d \in Dirs : q # p \/ d # "write" => fil'[q][d] = fil[q][d]
    BY <1>1, <2>2, <2>4, <2>5
  <2> QED BY <1>1, <1>2, <1>4, <2>1, <2>4, <2>6 DEF lines
<1>5. CASE UNCHANGED <<lines, fil, took, held>>
  BY <1>2, <1>5 DEF lines
<1>6. CASE /\ mode[p]["write"] \in Uarts
           /\ IF uart_testtx(mode[p]["write"]) = Room
              THEN held' = {p} /\ UNCHANGED lines
              ELSE uart_putc(mode[p]["write"], 0) /\ UNCHANGED <<rxq, held>>
           /\ UNCHANGED <<fil, took>>
  BY <1>2, <1>6 DEF lines, uart_putc
<1> QED BY <1>3, <1>4, <1>5, <1>6

LEMMA ResumeDoes ==
  ASSUME TypeOK, HeldKnown, Resume
  PROVE  /\ held' = {} /\ UNCHANGED <<mode, files, polled, rxq>>
         /\ \E p \in held :
              /\ p \in Virtual /\ mode[p]["write"] \in Uarts
              /\ txq' = [txq EXCEPT ![mode[p]["write"]] = Append(@, 0)]
              /\ \A q \in Virtual : mode[q]["write"] = mode[p]["write"] => ~polled[q]["write"]
<1>1. held \subseteq Virtual
  BY DEF TypeOK, PortsOK
<1>2. PICK p \in held : uart_putc(mode[p]["write"], 0)
  BY DEF Resume
<1> QED BY <1>1, <1>2 DEF Resume, HeldKnown, uart_putc

\* What the monitor does at its prompt.
LEMMA PromptDoes ==
  ASSUME TypeOK, Prompt
  PROVE  /\ held = {} /\ UNCHANGED <<mode, files, held>>
         /\ \/ /\ Used(Keyboard, "read") /\ txq' = txq /\ Len(rxq[Keyboard]) > 0
               /\ rxq' = [rxq EXCEPT ![Keyboard] = Tail(@)]
            \/ /\ Used(Keyboard, "write") /\ rxq' = rxq
               /\ txq' = [txq EXCEPT ![Keyboard] = Append(@, 0)]
BY DEF Prompt, uart_testrx, uart_getc, uart_putc

----------------------------------------------------------------------------
\* A program that uses the ports.

LEMMA SerialLinesOK ==
  ASSUME Inv, Next, program = "serial"
  PROVE  LinesOK'
<1> USE DEF Inv
<1>1. rxq \in [Uarts -> Seq({0})] /\ txq \in [Uarts -> Seq({0})]
  BY DEF TypeOK, LinesOK, Received
<1>2. program' = "serial" /\ TypeOK /\ FilesKnown
  BY SerialSteps
<1>3. ASSUME NEW u \in Uarts, Len(rxq[u]) > 0 \/ rxq[u] # <<>>
      PROVE  [rxq EXCEPT ![u] = Tail(@)] \in [Uarts -> Seq({0})]
  BY <1>1, <1>3
<1>4. ASSUME NEW u \in Uarts
      PROVE  [txq EXCEPT ![u] = Append(@, 0)] \in [Uarts -> Seq({0})]
  BY <1>1
<1>5. rxq' \in [Uarts -> Seq({0})] /\ txq' \in [Uarts -> Seq({0})]
  <2>1. ASSUME NEW p \in Virtual, NEW d \in Dirs, NEW m \in Modes \ {"unattached"},
               Attach(p, d, m)
        PROVE  lines' = lines
    BY <2>1 DEF Attach
  <2>2. ASSUME NEW p \in Virtual, Status(p, Own)
        PROVE  lines' = lines
    BY <2>2 DEF Status
  <2>3. ASSUME NEW p \in Virtual, Read(p)
        PROVE  <1>5
    BY <1>1, <1>2, <1>3, <2>3, ReadDoes
  <2>4. ASSUME NEW p \in Virtual, NEW c \in Chars, Write(p, c)
        PROVE  <1>5
    BY <1>1, <1>2, <1>4, <2>4, WriteDoes
  <2>5. CASE Resume
    BY <1>1, <1>2, <1>4, <2>5, ResumeDoes
  <2>6. ASSUME NEW u \in Uarts, Arrive(u, 0) \/ Transmit(u)
        PROVE  <1>5
    <3>1. CASE Arrive(u, 0)
      <4>1. rxq' = [rxq EXCEPT ![u] = Append(@, 0)] /\ txq' = txq
        BY <3>1 DEF Arrive
      <4> QED BY <1>1, <4>1
    <3>2. CASE Transmit(u)
      <4>1. txq' = [txq EXCEPT ![u] = Tail(@)] /\ rxq' = rxq /\ txq[u] # <<>>
        BY <3>2 DEF Transmit
      <4> QED BY <1>1, <4>1
    <3> QED BY <2>6, <3>1, <3>2
  <2>7. CASE Prompt
    BY <1>1, <1>2, <1>3, <1>4, <2>7, PromptDoes, KeyAssumption
  <2> QED BY <1>1, <2>1, <2>2, <2>3, <2>4, <2>5, <2>6, <2>7, SerialSteps DEF lines
<1> QED BY <1>2, <1>5 DEF LinesOK, Received

\* The modes keep their type, and so does the write that waits.
LEMMA SerialPortsOK ==
  ASSUME Inv, Next, program = "serial"
  PROVE  PortsOK'
<1> USE DEF Inv
<1>1. TypeOK /\ FilesKnown /\ HeldKnown /\ PortsOK
  BY DEF TypeOK
<1> USE DEF PortsOK
<1>2. ASSUME NEW p \in Virtual, NEW d \in Dirs, NEW m \in Modes \ {"unattached"},
             Attach(p, d, m)
      PROVE  PortsOK'
  <2>1. held' = {} /\ polled' = [polled EXCEPT ![p][d] = FALSE]
    BY <1>1, <1>2, AttachDoes
  <2>3. polled' \in [Virtual -> [Dirs -> BOOLEAN]]
    BY <1>1, <2>1
  <2>4. mode' \in [Virtual -> [Dirs -> Modes]]
    BY <1>1, <1>2, AttachSets
  <2> QED BY <1>1, <2>1, <2>3, <2>4
<1>3. ASSUME NEW p \in Virtual, Status(p, Own)
      PROVE  PortsOK'
  BY <1>1, <1>3, StatusDoes
<1>4. "read" \in Dirs /\ "write" \in Dirs
  BY DEF Dirs
<1>6. ASSUME NEW p \in Virtual, Read(p)
      PROVE  PortsOK'
  <2>1. polled' \in [Virtual -> [Dirs -> BOOLEAN]]
    BY <1>1, <1>4, <1>6, ReadDoes, UsedDoes
  <2> QED BY <1>1, <1>6, <2>1, ReadDoes
<1>7. ASSUME NEW p \in Virtual, NEW c \in Chars, Write(p, c)
      PROVE  PortsOK'
  <2>1. polled' \in [Virtual -> [Dirs -> BOOLEAN]] /\ mode' = mode
    BY <1>1, <1>4, <1>7, WriteDoes, UsedDoes
  <2>2. held' = {} \/ held' = {p}
    BY <1>1, <1>7, WriteDoes
  <2> QED BY <1>1, <2>1, <2>2
<1>8. CASE Resume
  BY <1>1, <1>8, ResumeDoes
<1>9. CASE sioVars' = sioVars
  BY <1>1, <1>9 DEF sioVars
<1>10. CASE Prompt
  <2>1. polled' \in [Virtual -> [Dirs -> BOOLEAN]]
    BY <1>1, <1>4, <1>10, PromptDoes, UsedDoes
  <2> QED BY <1>1, <1>10, <2>1, PromptDoes
<1> QED BY <1>2, <1>3, <1>6, <1>7, <1>8, <1>9, <1>10, SerialSteps

LEMMA SerialFilesOK ==
  ASSUME Inv, Next, program = "serial"
  PROVE  FilesOK'
<1> USE DEF Inv
<1>1. TypeOK /\ FilesKnown /\ HeldKnown /\ FilesOK
  BY DEF TypeOK
<1> USE DEF FilesOK
<1>2. ASSUME NEW p \in Virtual, NEW d \in Dirs, NEW m \in Modes \ {"unattached"},
             Attach(p, d, m)
      PROVE  FilesOK'
  BY <1>1, <1>2, AttachDoes, AttachSets
<1>3. ASSUME files' = files
      PROVE  FilesOK'
  BY <1>1, <1>3 DEF files
<1>7. ASSUME NEW p \in Virtual, NEW c \in Chars, Write(p, c)
      PROVE  FilesOK'
  <2>1. card' = card /\ spoilt' = spoilt
    BY <1>1, <1>7, WriteDoes
  <2>2. \/ fil' = fil /\ took' = took
        \/ /\ fil[p]["write"].name \in Names
           /\ fil' \in [Virtual -> [Dirs -> Files]]
           /\ took' = [took EXCEPT
                ![fil[p]["write"].name] = Over(@, fil[p]["write"].pos + 1, c)]
    BY <1>1, <1>7, WriteDoes
  <2>3. fil[p]["write"].pos \in Nat
    BY <1>1 DEF Files, Dirs
  <2>4. ASSUME NEW n \in Names, NEW i \in Nat
        PROVE  [took EXCEPT ![n] = Over(@, i + 1, c)] \in [Names -> Seq(Chars)]
    <3>1. Over(took[n], i + 1, c) \in Seq(Chars)
      BY <1>1, OverKeeps
    <3> QED BY <1>1, <3>1
  <2>5. took' \in [Names -> Seq(Chars)] /\ fil' \in [Virtual -> [Dirs -> Files]]
    <3>1. CASE fil' = fil /\ took' = took
      BY <1>1, <3>1
    <3>2. CASE ~(fil' = fil /\ took' = took)
      <4>1. /\ fil[p]["write"].name \in Names /\ fil' \in [Virtual -> [Dirs -> Files]]
            /\ took' = [took EXCEPT
                 ![fil[p]["write"].name] = Over(@, fil[p]["write"].pos + 1, c)]
        BY <2>2, <3>2
      <4> QED BY <2>3, <2>4, <4>1
    <3> QED BY <3>1, <3>2
  <2> QED BY <1>1, <2>1, <2>5
<1>8. (\E p \in Virtual : Status(p, Own) \/ Read(p)) \/ Resume \/ Prompt \/ sioVars' = sioVars
        => files' = files
  BY <1>1, StatusDoes, ReadDoes, ResumeDoes, PromptDoes DEF sioVars
<1> QED BY <1>2, <1>3, <1>7, <1>8, SerialSteps

LEMMA SerialTypeOK ==
  ASSUME Inv, Next, program = "serial"
  PROVE  TypeOK'
<1>1. KeysOK'
  BY SerialSteps DEF Inv, TypeOK, KeysOK, keyVars
<1> QED BY <1>1, SerialLinesOK, SerialPortsOK, SerialFilesOK, SerialSteps DEF TypeOK

\* A status that holds still does after a step that leaves the port's mode alone
\* and does not empty the queue, or fill it.
LEMMA StaysReady ==
  ASSUME NEW p \in Virtual, NEW d \in Dirs, Ready(p, d), mode'[p][d] = mode[p][d],
         d = "read" /\ mode[p][d] \in Uarts /\ rxq[mode[p][d]] # <<>> =>
           rxq'[mode[p][d]] # <<>>,
         d # "read" /\ mode[p][d] \in Uarts /\ txq[mode[p][d]] = <<>> =>
           txq'[mode[p][d]] = <<>>
  PROVE  Ready(p, d)'
BY DEF Ready

LEMMA SerialPolledKnown ==
  ASSUME Inv, Next, program = "serial"
  PROVE  PolledKnown'
<1> USE DEF Inv
<1>1. TypeOK /\ FilesKnown /\ PolledKnown /\ HeldKnown /\ LinesOK /\ PortsOK
  BY DEF TypeOK
<1>2. rxq \in [Uarts -> Seq({0})] /\ txq \in [Uarts -> Seq({0})]
  BY <1>1 DEF LinesOK, Received
<1>3. "read" \in Dirs /\ "write" \in Dirs /\ \A d \in Dirs : d = "read" \/ d = "write"
  BY DEF Dirs
<1> SUFFICES ASSUME NEW q \in Virtual, NEW e \in Dirs, polled'[q][e]
             PROVE  Ready(q, e)'
  BY DEF PolledKnown
<1>4. polled[q][e] => Ready(q, e)
  BY <1>1 DEF PolledKnown
<1>5. ASSUME NEW p \in Virtual, NEW d \in Dirs, NEW m \in Modes \ {"unattached"},
             Attach(p, d, m)
      PROVE  Ready(q, e)'
  <2>1. polled' = [polled EXCEPT ![p][d] = FALSE] /\ lines' = lines
    BY <1>1, <1>5, AttachDoes
  <2>2. PICK k \in Modes : mode' = [mode EXCEPT ![p][d] = k]
    BY <1>1, <1>5, AttachDoes
  <2>3. ~(q = p /\ e = d) /\ polled[q][e]
    BY <1>1, <2>1 DEF PortsOK
  <2>4. mode'[q][e] = mode[q][e]
    BY <1>1, <2>2, <2>3 DEF PortsOK
  <2> QED BY <1>4, <2>1, <2>3, <2>4, StaysReady DEF lines
<1>6. ASSUME NEW p \in Virtual, Status(p, Own)
      PROVE  Ready(q, e)'
  <2>1. UNCHANGED <<lines, mode>>
    BY <1>1, <1>6, StatusDoes
  <2>2. CASE q = p
    BY <1>1, <1>6, <2>2, <2>1, StatusDoes, StaysReady DEF lines
  <2>3. CASE q # p
    <3>1. polled[q][e]
      BY <1>1, <1>6, <2>3, StatusDoes
    <3> QED BY <1>4, <2>1, <3>1, StaysReady DEF lines
  <2> QED BY <2>2, <2>3
<1>7. ASSUME NEW p \in Virtual, Read(p)
      PROVE  Ready(q, e)'
  <2>1. /\ polled[q][e] /\ mode' = mode /\ txq' = txq
        /\ e = "read" => mode[q][e] # mode[p]["read"]
    BY <1>1, <1>3, <1>7, ReadDoes, UsedDoes
  <2>2. \/ rxq' = rxq
        \/ /\ mode[p]["read"] \in Uarts
           /\ rxq' = [rxq EXCEPT ![mode[p]["read"]] = Tail(@)]
    BY <1>1, <1>7, ReadDoes
  <2>3. e = "read" /\ mode[q][e] \in Uarts => rxq'[mode[q][e]] = rxq[mode[q][e]]
    BY <1>2, <2>1, <2>2
  <2> QED BY <1>4, <2>1, <2>3, StaysReady
<1>8. ASSUME NEW p \in Virtual, NEW c \in Chars, Write(p, c)
      PROVE  Ready(q, e)'
  <2>1. /\ polled[q][e] /\ mode' = mode /\ rxq' = rxq
        /\ e = "write" => mode[q][e] # mode[p]["write"]
    BY <1>1, <1>3, <1>8, WriteDoes, UsedDoes
  <2>2. \/ txq' = txq
        \/ /\ mode[p]["write"] \in Uarts
           /\ txq' = [txq EXCEPT ![mode[p]["write"]] = Append(@, 0)]
    BY <1>1, <1>8, WriteDoes
  <2>3. e = "write" /\ mode[q][e] \in Uarts => txq'[mode[q][e]] = txq[mode[q][e]]
    BY <1>2, <2>1, <2>2
  <2> QED BY <1>3, <1>4, <2>1, <2>3, StaysReady
<1>9. CASE Resume
  <2>1. UNCHANGED <<mode, polled, rxq>>
    BY <1>1, <1>9, ResumeDoes
  <2>2. PICK p \in Virtual :
          /\ mode[p]["write"] \in Uarts
          /\ txq' = [txq EXCEPT ![mode[p]["write"]] = Append(@, 0)]
          /\ \A r \in Virtual : mode[r]["write"] = mode[p]["write"] => ~polled[r]["write"]
    BY <1>1, <1>9, ResumeDoes
  <2>3. e = "write" /\ mode[q][e] \in Uarts => txq'[mode[q][e]] = txq[mode[q][e]]
    BY <1>2, <2>1, <2>2
  <2> QED BY <1>3, <1>4, <2>1, <2>3, StaysReady
<1>10. ASSUME NEW u \in Uarts, Arrive(u, 0) \/ Transmit(u), sioVars' = sioVars
       PROVE  Ready(q, e)'
  <2>1. polled[q][e] /\ mode' = mode
    BY <1>10 DEF sioVars
  <2>2. \/ rxq' = [rxq EXCEPT ![u] = Append(@, 0)] /\ txq' = txq
        \/ txq' = [txq EXCEPT ![u] = Tail(@)] /\ rxq' = rxq /\ txq[u] # <<>>
    BY <1>10 DEF Arrive, Transmit
  <2>3. /\ mode[q][e] \in Uarts /\ rxq[mode[q][e]] # <<>> => rxq'[mode[q][e]] # <<>>
        /\ mode[q][e] \in Uarts /\ txq[mode[q][e]] = <<>> => txq'[mode[q][e]] = <<>>
    BY <1>2, <2>2
  <2> QED BY <1>4, <2>1, <2>3, StaysReady
<1>11. CASE Prompt
  <2>1. polled[q][e] /\ mode' = mode
    BY <1>1, <1>3, <1>11, PromptDoes, UsedDoes
  <2>2. \/ rxq' = rxq
        \/ /\ rxq' = [rxq EXCEPT ![Keyboard] = Tail(@)]
           /\ e = "read" => mode[q][e] # Keyboard
    BY <1>1, <1>3, <1>11, PromptDoes, UsedDoes
  <2>3. \/ txq' = txq
        \/ /\ txq' = [txq EXCEPT ![Keyboard] = Append(@, 0)]
           /\ e = "write" => mode[q][e] # Keyboard
    BY <1>1, <1>3, <1>11, PromptDoes, UsedDoes
  <2>4. /\ e = "read" /\ mode[q][e] \in Uarts => rxq'[mode[q][e]] = rxq[mode[q][e]]
        /\ e = "write" /\ mode[q][e] \in Uarts => txq'[mode[q][e]] = txq[mode[q][e]]
    BY <1>2, <2>2, <2>3, KeyAssumption
  <2> QED BY <1>3, <1>4, <2>1, <2>4, StaysReady
<1> QED BY <1>5, <1>6, <1>7, <1>8, <1>9, <1>10, <1>11, SerialSteps

LEMMA SerialHeldKnown ==
  ASSUME Inv, Next, program = "serial"
  PROVE  HeldKnown'
<1> USE DEF Inv
<1>1. TypeOK /\ FilesKnown /\ HeldKnown
  OBVIOUS
<1>2. "write" \in Dirs
  BY DEF Dirs
<1>3. CASE held' = {}
  BY <1>3 DEF HeldKnown
<1>4. CASE sioVars' = sioVars
  BY <1>1, <1>4 DEF HeldKnown, sioVars
<1>5. ASSUME NEW p \in Virtual, NEW c \in Chars, Write(p, c), held' # {}
      PROVE  HeldKnown'
  <2>1. /\ Used(mode[p]["write"], "write") /\ mode' = mode
        /\ mode[p]["write"] \in Uarts /\ held' = {p}
    BY <1>1, <1>5, WriteDoes
  <2>2. \A q \in Virtual : mode'[q]["write"] = mode'[p]["write"] => ~polled'[q]["write"]
    BY <1>1, <1>2, <2>1, UsedDoes
  <2> QED BY <2>1, <2>2 DEF HeldKnown
<1>6. (\E p \in Virtual : Status(p, Own) \/ Read(p)) \/ Resume \/ Prompt => held' = {}
  BY <1>1, StatusDoes, ReadDoes, ResumeDoes, PromptDoes
<1>7. ASSUME NEW p \in Virtual, NEW d \in Dirs, NEW m \in Modes \ {"unattached"},
             Attach(p, d, m)
      PROVE  held' = {}
  BY <1>1, <1>7, AttachDoes
<1> QED BY <1>3, <1>4, <1>5, <1>6, <1>7, SerialSteps

LEMMA SerialFilesKnown ==
  ASSUME Inv, Next, program = "serial"
  PROVE  FilesKnown'
<1> USE DEF Inv
<1>1. TypeOK /\ FilesKnown /\ HeldKnown /\ PortsOK /\ FilesOK
  BY DEF TypeOK
<1>2. "write" \in Dirs
  BY DEF Dirs
<1>3. ASSUME NEW p \in Virtual, NEW d \in Dirs, NEW m \in Modes \ {"unattached"},
             Attach(p, d, m)
      PROVE  FilesKnown'
  <2>1. PICK k \in Modes, f \in Files :
          /\ mode' = [mode EXCEPT ![p][d] = k]
          /\ fil' = [fil EXCEPT ![p][d] = f]
          /\ k = "file" <=> f.name \in Names
          /\ spoilt \subseteq spoilt'
          /\ f.name \in Names /\ d = "write" /\ f.name \notin spoilt' =>
               \A q \in Virtual : q # p => fil[q]["write"].name # f.name
    BY <1>1, <1>3, AttachDoes
  <2>2. /\ mode'[p][d] = k
        /\ \A q \in Virtual, e \in Dirs : q # p \/ e # d => mode'[q][e] = mode[q][e]
    BY <1>1, <2>1, TwoDeep DEF PortsOK
  <2>3. /\ fil'[p][d] = f
        /\ \A q \in Virtual, e \in Dirs : q # p \/ e # d => fil'[q][e] = fil[q][e]
    BY <1>1, <2>1, TwoDeep DEF FilesOK
  <2>4. \A q \in Virtual : mode'[q]["write"] = "file" <=> fil'[q]["write"].name \in Names
    BY <1>1, <1>2, <2>1, <2>2, <2>3 DEF FilesKnown
  <2>5. ASSUME NEW q \in Virtual, NEW r \in Virtual, q # r,
               fil'[q]["write"].name \in Names \ spoilt'
        PROVE  fil'[r]["write"].name # fil'[q]["write"].name
    <3>1. CASE d = "write" /\ q = p
      BY <1>2, <2>1, <2>3, <2>5, <3>1
    <3>2. CASE d = "write" /\ r = p
      <4>1. fil'[q]["write"] = fil[q]["write"] /\ fil'[r]["write"] = f
        BY <1>2, <2>3, <2>5, <3>2
      <4> QED BY <2>1, <2>5, <3>2, <4>1
    <3>3. CASE d # "write" \/ (q # p /\ r # p)
      <4>1. fil'[q]["write"] = fil[q]["write"] /\ fil'[r]["write"] = fil[r]["write"]
        BY <1>2, <2>3, <3>3
      <4> QED BY <1>1, <2>1, <2>5, <4>1 DEF FilesKnown
    <3> QED BY <3>1, <3>2, <3>3
  <2> QED BY <2>4, <2>5 DEF FilesKnown
<1>4. ASSUME mode' = mode, spoilt' = spoilt,
             \A q \in Virtual : fil'[q]["write"].name = fil[q]["write"].name
      PROVE  FilesKnown'
  BY <1>1, <1>4 DEF FilesKnown
<1>6. ASSUME NEW p \in Virtual, NEW c \in Chars, Write(p, c)
      PROVE  FilesKnown'
  <2>1. mode' = mode /\ spoilt' = spoilt
    BY <1>1, <1>6, WriteDoes
  <2>2. fil' = fil \/
        /\ fil'[p]["write"].name = fil[p]["write"].name
        /\ \A q \in Virtual, d \in Dirs : q # p \/ d # "write" => fil'[q][d] = fil[q][d]
    BY <1>1, <1>6, WriteDoes
  <2>3. \A q \in Virtual : fil'[q]["write"].name = fil[q]["write"].name
    BY <1>2, <2>2
  <2> QED BY <1>4, <2>1, <2>3
<1>7. (\E p \in Virtual : Status(p, Own) \/ Read(p)) \/ Resume \/ Prompt \/ sioVars' = sioVars
        => mode' = mode /\ spoilt' = spoilt /\ fil' = fil
  BY <1>1, StatusDoes, ReadDoes, ResumeDoes, PromptDoes DEF sioVars, files
<1> QED BY <1>3, <1>4, <1>6, <1>7, SerialSteps

LEMMA SerialOutputKnown ==
  ASSUME Inv, Next, program = "serial"
  PROVE  OutputKnown'
<1> USE DEF Inv
<1>1. TypeOK /\ FilesKnown /\ HeldKnown /\ FilesOK /\ OutputKnown
  BY DEF TypeOK
<1>2. "write" \in Dirs
  BY DEF Dirs
<1>4. ASSUME files' = files
      PROVE  OutputKnown'
  BY <1>1, <1>4 DEF OutputKnown, OutputIsKept, files
<1>5. ASSUME NEW p \in Virtual, NEW d \in Dirs, NEW m \in Modes \ {"unattached"},
             Attach(p, d, m)
      PROVE  OutputKnown'
  <2>1. PICK f \in Files, lost \in SUBSET Closes(p, d) :
          /\ fil' = [fil EXCEPT ![p][d] = f]
          /\ card' = Unattached(p, d, lost)
          /\ spoilt \cup lost \subseteq spoilt'
          /\ f.name \in Names /\ d = "write" =>
                /\ f.data = card'[f.name]
                /\ f.name \notin spoilt' =>
                     \A q \in Virtual : q # p => fil[q]["write"].name # f.name
    BY <1>1, <1>5, AttachDoes
  <2>2. took' = took
    BY <1>1, <1>5, AttachDoes
  <2>3. /\ fil'[p][d] = f
        /\ \A q \in Virtual, e \in Dirs : q # p \/ e # d => fil'[q][e] = fil[q][e]
    BY <1>1, <2>1, TwoDeep DEF FilesOK
  <2>4. CASE d # "write"
    <3>1. \A q \in Virtual : fil'[q]["write"] = fil[q]["write"]
      BY <1>2, <2>3, <2>4
    <3>2. \A n \in Names : card'[n] = card[n]
      BY <2>1, <2>4 DEF Unattached, Closes
    <3> QED BY <1>1, <2>1, <2>2, <3>1, <3>2 DEF OutputKnown, OutputIsKept
  <2>5. CASE d = "write"
    <3>1. ASSUME NEW n \in Names \ spoilt',
                 \A q \in Virtual \ {p} : fil[q]["write"].name # n
          PROVE  card'[n] = took[n]
      <4>1. n \notin spoilt /\ n \notin lost
        BY <2>1, <3>1
      <4>2. card'[n] = IF n \in Output(p) THEN fil[p]["write"].data ELSE card[n]
        BY <2>1, <2>5, <4>1 DEF Unattached, Closes
      <4>3. n \in Output(p) <=> fil[p]["write"].name = n
        BY DEF Output
      <4>4. CASE fil[p]["write"].name = n
        BY <1>1, <4>1, <4>2, <4>3, <4>4 DEF OutputKnown
      <4>5. CASE fil[p]["write"].name # n
        BY <1>1, <3>1, <4>1, <4>2, <4>3, <4>5 DEF OutputKnown, OutputIsKept
      <4> QED BY <4>4, <4>5
    <3>2. ASSUME NEW q \in Virtual, fil'[q]["write"].name \in Names \ spoilt'
          PROVE  fil'[q]["write"].data = took'[fil'[q]["write"].name]
      <4>1. CASE q = p
        <5>1. /\ fil'[q]["write"] = f /\ f.name \in Names \ spoilt'
              /\ f.data = card'[f.name]
              /\ \A r \in Virtual \ {p} : fil[r]["write"].name # f.name
          BY <2>1, <2>3, <2>5, <3>2, <4>1
        <5>2. card'[f.name] = took[f.name]
          BY <3>1, <5>1
        <5> QED BY <2>2, <5>1, <5>2
      <4>2. CASE q # p
        <5>1. fil'[q]["write"] = fil[q]["write"]
          BY <1>2, <2>3, <4>2
        <5> QED BY <1>1, <2>1, <2>2, <3>2, <5>1 DEF OutputKnown
      <4> QED BY <4>1, <4>2
    <3>3. ASSUME NEW n \in Names \ spoilt', \A q \in Virtual : fil'[q]["write"].name # n
          PROVE  card'[n] = took'[n]
      <4>1. \A q \in Virtual \ {p} : fil[q]["write"].name # n
        BY <1>2, <2>3, <3>3
      <4> QED BY <2>2, <3>1, <4>1
    <3> QED BY <3>2, <3>3 DEF OutputKnown, OutputIsKept
  <2> QED BY <2>4, <2>5
<1>6. ASSUME NEW p \in Virtual, NEW c \in Chars, Write(p, c)
      PROVE  OutputKnown'
  <2>1. card' = card /\ spoilt' = spoilt
    BY <1>1, <1>6, WriteDoes
  <2>2. CASE fil' = fil /\ took' = took
    BY <1>4, <2>1, <2>2 DEF files
  <2>3. CASE ~(fil' = fil /\ took' = took)
    <3>1. /\ fil[p]["write"].name \in Names
          /\ fil'[p]["write"].name = fil[p]["write"].name
          /\ fil'[p]["write"].data = Over(fil[p]["write"].data, fil[p]["write"].pos + 1, c)
          /\ \A q \in Virtual, d \in Dirs : q # p \/ d # "write" => fil'[q][d] = fil[q][d]
          /\ took' = [took EXCEPT
               ![fil[p]["write"].name] = Over(@, fil[p]["write"].pos + 1, c)]
      BY <1>1, <1>6, <2>3, WriteDoes
    <3>4. /\ took'[fil[p]["write"].name] =
               Over(took[fil[p]["write"].name], fil[p]["write"].pos + 1, c)
          /\ \A n \in Names : n # fil[p]["write"].name => took'[n] = took[n]
      BY <1>1, <3>1 DEF FilesOK
    <3>5. \A q \in Virtual : fil'[q]["write"].name = fil[q]["write"].name
      BY <1>2, <3>1
    <3>6. ASSUME NEW q \in Virtual, fil'[q]["write"].name \in Names \ spoilt'
          PROVE  fil'[q]["write"].data = took'[fil'[q]["write"].name]
      <4>1. fil[q]["write"].name \in Names \ spoilt
        BY <2>1, <3>5, <3>6
      <4>2. fil[q]["write"].data = took[fil[q]["write"].name]
        BY <1>1, <4>1 DEF OutputKnown
      <4>3. CASE q = p
        BY <3>1, <3>4, <4>2, <4>3
      <4>4. CASE q # p
        <5>1. fil[p]["write"].name # fil[q]["write"].name
          BY <1>1, <4>1, <4>4 DEF FilesKnown
        <5>2. fil'[q]["write"] = fil[q]["write"]
          BY <1>2, <3>1, <4>4
        <5> QED BY <3>4, <4>1, <4>2, <5>1, <5>2
      <4> QED BY <4>3, <4>4
    <3>7. ASSUME NEW n \in Names \ spoilt', \A q \in Virtual : fil'[q]["write"].name # n
          PROVE  card'[n] = took'[n]
      <4>1. \A q \in Virtual : fil[q]["write"].name # n
        BY <3>5, <3>7
      <4> QED BY <1>1, <2>1, <3>4, <3>7, <4>1 DEF OutputKnown, OutputIsKept
    <3> QED BY <3>6, <3>7 DEF OutputKnown, OutputIsKept
  <2> QED BY <2>2, <2>3
<1>7. (\E p \in Virtual : Status(p, Own) \/ Read(p)) \/ Resume \/ Prompt \/ sioVars' = sioVars
        => files' = files
  BY <1>1, StatusDoes, ReadDoes, ResumeDoes, PromptDoes DEF sioVars
<1> QED BY <1>4, <1>5, <1>6, <1>7, SerialSteps

LEMMA SerialKeeps ==
  ASSUME Inv, Next, program = "serial"
  PROVE  Inv'
<1>1. program' = "serial" /\ keyVars' = keyVars
  BY SerialSteps
<1>2. OthersIdle'
  BY <1>1 DEF Inv, OthersIdle, KeyInit, keyVars
<1>3. KeysKnown'
  BY <1>1 DEF KeysKnown
<1> QED BY <1>2, <1>3, SerialTypeOK, SerialPolledKnown, SerialHeldKnown,
           SerialFilesKnown, SerialOutputKnown DEF Inv

----------------------------------------------------------------------------
\* A program that scans the keyboard: what each of its steps does.
First == Head(queue)
Same == UNCHANGED <<rxq, round, shift_step>>
Shorter == queue # <<>> /\ rxq' = [rxq EXCEPT ![Keyboard] = Tail(@)]
Pressing(ks, ms) == round' = [keys |-> ks, mods |-> ms]

Looks ==
  /\ Same
  /\ shift_step = 1 => Done # Matrix[First].row
  /\ shift_step = 2 => Done # ModRow
Drops == ~Supported(First) /\ shift_step = 0 /\ Shorter /\ UNCHANGED <<round, shift_step>>
Takes ==
  /\ Supported(First) /\ Matrix[First].mod = NO_KEY /\ shift_step = 0 /\ shift_step' = 0
  /\ Shorter /\ Pressing(Append(round.keys, Matrix[First].key), round.mods)
Starts ==
  /\ Shifts(First) /\ shift_step = 0 /\ Done = ModRow /\ shift_step' = 1
  /\ queue # <<>> /\ rxq' = rxq
  /\ Pressing(round.keys, round.mods \cup {Matrix[First].mod})
Strikes ==
  /\ Shifts(First) /\ shift_step = 1 /\ Done = Matrix[First].row /\ shift_step' = 2
  /\ queue # <<>> /\ rxq' = rxq
  /\ Pressing(Append(round.keys, Matrix[First].key), round.mods)
Ends ==
  /\ Shifts(First) /\ shift_step = 2 /\ Done = ModRow /\ shift_step' = 0
  /\ Shorter /\ Pressing(round.keys, round.mods \cup {Matrix[First].mod})

\* The invariant while this program runs.
KeyInv ==
  /\ LinesOK /\ KeysOK /\ program = "keyboard"
  /\ QueueKnown /\ StepKnown /\ RoundKnown /\ ModsKnown /\ SeenKnown

LEMMA QueueIs ==
  ASSUME KeyInv
  PROVE  /\ queue \in Seq(Typable)
         /\ rxq \in [Uarts -> Seq(Typable)]
         /\ Keyboard \in Uarts
         /\ queue # <<>> => /\ First \in Typable /\ Len(queue) > 0
                            /\ First = queue[1]
                            /\ Tail(queue) \in Seq(Typable)
<1>1. rxq \in [Uarts -> Seq(Typable)] /\ Keyboard \in Uarts
  BY KeyAssumption DEF KeyInv, LinesOK, Received
<1>2. queue \in Seq(Typable)
  BY <1>1 DEF queue
<1> HIDE DEF queue
<1> QED BY <1>1, <1>2 DEF First

LEMMA RoundIs ==
  ASSUME KeyInv
  PROVE  /\ round.keys \in Seq(KeysOf) /\ round.mods \in SUBSET ModKeys
         /\ round = [keys |-> round.keys, mods |-> round.mods]
         /\ Len(round.keys) \in Nat /\ Len(seen) \in Nat /\ Len(typed) \in Nat
BY DEF KeyInv, KeysOK

LEMMA ScanDoes ==
  ASSUME KeyInv, msx_scanrow
  PROVE  /\ Done = current_row /\ selected' = FALSE
         /\ UNCHANGED <<txq, current_row, typed, seen>>
         /\ Looks \/ Drops \/ Takes \/ Starts \/ Strikes \/ Ends
<1>1. /\ selected /\ selected' = FALSE
      /\ UNCHANGED <<txq, current_row, typed, seen>>
      /\ \/ Len(queue) = 0 /\ Same
         \/ /\ Len(queue) > 0
            /\ \/ ~Supported(First) /\ Unsupported(First)
               \/ Supported(First) /\ Matrix[First].mod = NO_KEY /\ Plain(First)
               \/ Shifts(First) /\ Shifted(First)
               \/ Supported(First) /\ NotThisRow(First) /\ Same
  BY DEF msx_scanrow, uart_testrx, uart_peek, queue, First, Same, Shifts
<1>2. Done = current_row
  BY <1>1 DEF Done, KeyInv, KeysOK
<1>3. Len(queue) > 0 <=> queue # <<>>
  BY QueueIs
<1>4. shift_step # 0 => queue # <<>> /\ Shifts(First)
  BY DEF KeyInv, StepKnown, First
<1>5. shift_step \in 0 .. 2
  BY DEF KeyInv, KeysOK
<1>6. round = [keys |-> round.keys, mods |-> round.mods]
  BY RoundIs
<1>7. ASSUME NEW k
      PROVE  Press(k) => Pressing(Append(round.keys, k), round.mods)
  BY <1>6 DEF Press, Pressing
<1>8. ASSUME NEW m
      PROVE  PressMod(m) => Pressing(round.keys, round.mods \cup {m})
  BY <1>6 DEF PressMod, Pressing
<1>9. uart_getc(Keyboard) /\ queue # <<>> => Shorter
  BY DEF uart_getc, Shorter
<1>10. CASE Len(queue) = 0 /\ Same
  BY <1>1, <1>3, <1>4, <1>2, <1>10 DEF Looks
<1>11. CASE Len(queue) > 0 /\ ~Supported(First) /\ Unsupported(First)
  BY <1>1, <1>2, <1>3, <1>4, <1>9, <1>11 DEF Drops, Unsupported, Shifts
<1>12. CASE Len(queue) > 0 /\ Supported(First) /\ Matrix[First].mod = NO_KEY /\ Plain(First)
  BY <1>1, <1>2, <1>3, <1>4, <1>7, <1>9, <1>12 DEF Takes, Plain, Shifts
<1>13. CASE Len(queue) > 0 /\ Shifts(First) /\ Shifted(First)
  BY <1>1, <1>2, <1>3, <1>7, <1>8, <1>9, <1>13 DEF Starts, Strikes, Ends, Shifted
<1>14. CASE Len(queue) > 0 /\ Supported(First) /\ NotThisRow(First) /\ Same
  BY <1>1, <1>2, <1>3, <1>4, <1>14 DEF Looks, NotThisRow, Shifts
<1> QED BY <1>1, <1>10, <1>11, <1>12, <1>13, <1>14

\* The next character that has a key is the next of those typed.
LEMMA NextIsTyped ==
  ASSUME KeyInv, queue # <<>>, Supported(First)
  PROVE  Taken \in Nat /\ Taken + 1 \in 1 .. Len(typed) /\ typed[Taken + 1] = First
<1>1. PICK at \in [0 .. Len(queue) -> 0 .. Len(typed)] : Counts(at, queue, typed, Taken)
  BY DEF KeyInv, QueueKnown
<1>2. Len(queue) \in Nat /\ Len(queue) > 0 /\ First = queue[1] /\ Len(typed) \in Nat
  BY QueueIs, RoundIs
<1> HIDE DEF queue, Taken, First
<1>3. at[0] = Taken /\ at[0] \in 0 .. Len(typed) /\ at[1] \in 0 .. Len(typed)
  BY <1>1, <1>2 DEF Counts
<1>4. at[1] = at[1 - 1] + 1 /\ typed[at[1]] = queue[1]
  BY <1>1, <1>2 DEF Counts
<1> QED BY <1>2, <1>3, <1>4

\* Taking the first character from a queue, and one more arriving in it.
LEMMA CountsTail ==
  ASSUME NEW q \in Seq(Typable), NEW t \in Seq(Typable), NEW n \in Int, q # <<>>,
         NEW at, Counts(at, q, t, n)
  PROVE  \E b \in [0 .. Len(Tail(q)) -> 0 .. Len(t)] :
           Counts(b, Tail(q), t, IF Supported(Head(q)) THEN n + 1 ELSE n)
<1>1. Len(q) \in Nat /\ Len(q) > 0 /\ Len(Tail(q)) = Len(q) - 1 /\ Head(q) = q[1]
  OBVIOUS
<1>2. \A i \in 1 .. Len(Tail(q)) : Tail(q)[i] = q[i + 1]
  OBVIOUS
<1>3. Len(t) \in Nat
  OBVIOUS
<1>4. /\ at \in [0 .. Len(q) -> 0 .. Len(t)] /\ at[0] = n /\ at[Len(q)] = Len(t)
      /\ \A i \in 0 .. Len(q), j \in 0 .. Len(q) : i <= j => at[i] <= at[j]
      /\ \A i \in 1 .. Len(q) :
           IF Supported(q[i]) THEN at[i] = at[i - 1] + 1 /\ t[at[i]] = q[i]
           ELSE at[i] = at[i - 1]
  BY DEF Counts
<1> DEFINE b == [i \in 0 .. Len(Tail(q)) |-> at[i + 1]]
<1>5. b \in [0 .. Len(Tail(q)) -> 0 .. Len(t)]
  BY <1>1, <1>3, <1>4
<1>6. at[1] = IF Supported(q[1]) THEN n + 1 ELSE n
  <2>1. IF Supported(q[1]) THEN at[1] = at[1 - 1] + 1 ELSE at[1] = at[1 - 1]
    BY <1>1, <1>4
  <2> QED BY <1>4, <2>1
<1>7. b[0] = at[1] /\ b[Len(Tail(q))] = Len(t)
  BY <1>1, <1>4
<1>8. \A i \in 0 .. Len(Tail(q)), j \in 0 .. Len(Tail(q)) : i <= j => b[i] <= b[j]
  BY <1>1, <1>4
<1>9. ASSUME NEW i \in 1 .. Len(Tail(q))
      PROVE  IF Supported(Tail(q)[i]) THEN b[i] = b[i - 1] + 1 /\ t[b[i]] = Tail(q)[i]
             ELSE b[i] = b[i - 1]
  <2>1. Tail(q)[i] = q[i + 1] /\ b[i] = at[i + 1] /\ b[i - 1] = at[i]
    BY <1>1, <1>2
  <2>2. i + 1 \in 1 .. Len(q) /\ (i + 1) - 1 = i
    BY <1>1
  <2>3. IF Supported(q[i + 1]) THEN at[i + 1] = at[i] + 1 /\ t[at[i + 1]] = q[i + 1]
        ELSE at[i + 1] = at[i]
    BY <1>4, <2>2
  <2> QED BY <2>1, <2>3
<1> HIDE DEF b
<1> QED BY <1>1, <1>5, <1>6, <1>7, <1>8, <1>9 DEF Counts

LEMMA CountsAppend ==
  ASSUME NEW q \in Seq(Typable), NEW t \in Seq(Typable), NEW n \in Int, NEW c \in Typable,
         NEW at, Counts(at, q, t, n),
         NEW u \in Seq(Typable), u = IF Supported(c) THEN Append(t, c) ELSE t
  PROVE  \E b \in [0 .. Len(Append(q, c)) -> 0 .. Len(u)] : Counts(b, Append(q, c), u, n)
<1>1. Len(q) \in Nat /\ Len(Append(q, c)) = Len(q) + 1 /\ Append(q, c)[Len(q) + 1] = c
  OBVIOUS
<1>2. \A i \in 1 .. Len(q) : Append(q, c)[i] = q[i]
  OBVIOUS
<1>3. /\ Len(t) \in Nat /\ Len(u) \in Nat
      /\ IF Supported(c) THEN Len(u) = Len(t) + 1 /\ u[Len(u)] = c ELSE Len(u) = Len(t)
      /\ \A i \in 1 .. Len(t) : u[i] = t[i]
  OBVIOUS
<1>4. /\ at \in [0 .. Len(q) -> 0 .. Len(t)] /\ at[0] = n /\ at[Len(q)] = Len(t)
      /\ \A i \in 0 .. Len(q), j \in 0 .. Len(q) : i <= j => at[i] <= at[j]
      /\ \A i \in 1 .. Len(q) :
           IF Supported(q[i]) THEN at[i] = at[i - 1] + 1 /\ t[at[i]] = q[i]
           ELSE at[i] = at[i - 1]
  BY DEF Counts
<1> DEFINE p == Append(q, c)
<1> HIDE DEF p
<1> DEFINE b == [i \in 0 .. Len(p) |-> IF i = Len(p) THEN Len(u) ELSE at[i]]
<1>5. Len(p) = Len(q) + 1 /\ p[Len(p)] = c /\ \A i \in 1 .. Len(q) : p[i] = q[i]
  BY <1>1, <1>2 DEF p
<1>6. b \in [0 .. Len(p) -> 0 .. Len(u)]
  BY <1>1, <1>3, <1>4, <1>5
<1>7. b[0] = n /\ b[Len(p)] = Len(u) /\ b[Len(q)] = Len(t)
  BY <1>1, <1>4, <1>5
<1>8. \A i \in 0 .. Len(p), j \in 0 .. Len(p) : i <= j => b[i] <= b[j]
  BY <1>1, <1>3, <1>4, <1>5, <1>6
<1>9. ASSUME NEW i \in 1 .. Len(p)
      PROVE  IF Supported(p[i]) THEN b[i] = b[i - 1] + 1 /\ u[b[i]] = p[i]
             ELSE b[i] = b[i - 1]
  <2>1. CASE i = Len(p)
    <3>1. b[i] = Len(u) /\ b[i - 1] = Len(t) /\ p[i] = c
      BY <1>1, <1>5, <1>7, <2>1
    <3> QED BY <1>3, <3>1
  <2>2. CASE i # Len(p)
    <3>1. i \in 1 .. Len(q) /\ b[i] = at[i] /\ b[i - 1] = at[i - 1] /\ p[i] = q[i]
      BY <1>1, <1>5, <2>2
    <3>2. at[i] \in 0 .. Len(t) /\ at[i - 1] \in 0 .. Len(t)
      <4>1. i \in 0 .. Len(q) /\ i - 1 \in 0 .. Len(q)
        BY <1>1, <3>1
      <4>2. at \in [0 .. Len(q) -> 0 .. Len(t)]
        BY <1>4
      <4> HIDE DEF b
      <4> QED BY ONLY <4>1, <4>2
    <3>3. Supported(q[i]) => at[i] \in 1 .. Len(t)
      BY <1>3, <1>4, <3>1, <3>2
    <3> QED BY <1>3, <1>4, <3>1, <3>3
  <2> QED BY <2>1, <2>2
<1> HIDE DEF b
<1>10. Counts(b, p, u, n)
  BY <1>6, <1>7, <1>8, <1>9 DEF Counts
<1> QED BY <1>6, <1>10 DEF p

----------------------------------------------------------------------------
\* What a scan keeps.

LEMMA ScanCounts ==
  ASSUME KeyInv, msx_scanrow
  PROVE  /\ Done \in Nat /\ Done' = Done + 1 /\ Done <= LastRow
         /\ Past => Past'
         /\ Past' /\ ~Past => Done = ModRow
         /\ ModRow \in Nat
<1>1. current_row \in 0 .. LastRow /\ LastRow \in Nat /\ ModRow \in Nat
  BY KeyAssumption DEF KeyInv, KeysOK
<1>2. Done = current_row
  BY ScanDoes
<1>3. Done' = current_row + 1
  BY ScanDoes DEF Done
<1> HIDE DEF Done
<1> QED BY <1>1, <1>2, <1>3 DEF Past

\* The keys of the round and the characters taken, after each of the six.
LEMMA ScanTakes ==
  ASSUME KeyInv, msx_scanrow
  PROVE  /\ Pressed \in Nat /\ Taken \in Int
         /\ \/ /\ Looks \/ Starts
               /\ Pressed' = Pressed /\ Taken' = Taken /\ queue' = queue
               /\ round'.keys = round.keys
            \/ /\ Drops /\ ~Supported(First)
               /\ Pressed' = Pressed /\ Taken' = Taken
               /\ queue # <<>> /\ queue' = Tail(queue)
               /\ round'.keys = round.keys
            \/ /\ Takes /\ Supported(First) /\ Taken = Pressed
               /\ Pressed' = Pressed + 1 /\ Taken' = Taken + 1
               /\ queue # <<>> /\ queue' = Tail(queue)
               /\ round'.keys = Append(round.keys, Matrix[First].key)
            \/ /\ Strikes /\ Taken = Pressed
               /\ Pressed' = Pressed + 1 /\ Taken' = Taken /\ queue' = queue
               /\ round'.keys = Append(round.keys, Matrix[First].key)
            \/ /\ Ends /\ Supported(First) /\ Taken = Pressed - 1
               /\ Pressed' = Pressed /\ Taken' = Taken + 1
               /\ queue # <<>> /\ queue' = Tail(queue)
               /\ round'.keys = round.keys
<1>1. seen' = seen
  BY ScanDoes
<1>2. /\ round.keys \in Seq(KeysOf) /\ Len(round.keys) \in Nat /\ Len(seen) \in Nat
      /\ rxq \in [Uarts -> Seq(Typable)] /\ Keyboard \in Uarts
  BY RoundIs, QueueIs
<1>3. shift_step \in 0 .. 2
  BY DEF KeyInv, KeysOK
<1>4. Pressed \in Nat /\ Taken \in Int
  BY <1>2, <1>3 DEF Pressed, Taken
<1>5. Shorter => queue # <<>> /\ queue' = Tail(queue)
  BY <1>2 DEF Shorter, queue
<1>6. \A k : Len(Append(round.keys, k)) = Len(round.keys) + 1
  BY <1>2
<1>7. CASE Looks
  BY <1>1, <1>4, <1>7 DEF Looks, Same, Pressed, Taken, queue
<1>8. CASE Drops
  BY <1>1, <1>4, <1>5, <1>8 DEF Drops, Pressed, Taken
<1>9. CASE Takes
  <2>1. round'.keys = Append(round.keys, Matrix[First].key)
    BY <1>9 DEF Takes, Pressing
  <2>2. Pressed' = Pressed + 1
    BY <1>1, <1>2, <1>6, <2>1 DEF Pressed
  <2> QED BY <1>4, <1>5, <1>9, <2>1, <2>2 DEF Takes, Taken
<1>10. CASE Starts
  <2>1. round'.keys = round.keys
    BY <1>10 DEF Starts, Pressing
  <2>2. Pressed' = Pressed
    BY <1>1, <2>1 DEF Pressed
  <2> QED BY <1>4, <1>10, <2>1, <2>2 DEF Starts, Taken, queue
<1>11. CASE Strikes
  <2>1. round'.keys = Append(round.keys, Matrix[First].key)
    BY <1>11 DEF Strikes, Pressing
  <2>2. Pressed' = Pressed + 1
    BY <1>1, <1>2, <1>6, <2>1 DEF Pressed
  <2> QED BY <1>4, <1>11, <2>1, <2>2 DEF Strikes, Taken, queue
<1>12. CASE Ends
  <2>1. round'.keys = round.keys
    BY <1>12 DEF Ends, Pressing
  <2>2. Pressed' = Pressed
    BY <1>1, <2>1 DEF Pressed
  <2> QED BY <1>4, <1>5, <1>12, <2>1, <2>2 DEF Ends, Taken, Shifts
<1> QED BY <1>7, <1>8, <1>9, <1>10, <1>11, <1>12, ScanDoes

LEMMA ScanLinesOK ==
  ASSUME KeyInv, msx_scanrow, program' = program
  PROVE  LinesOK'
<1>1. txq' = txq /\ txq \in [Uarts -> Seq({0})]
  BY ScanDoes DEF KeyInv, LinesOK
<1>2. rxq' = rxq \/ (queue # <<>> /\ rxq' = [rxq EXCEPT ![Keyboard] = Tail(@)])
  BY ScanDoes DEF Looks, Same, Drops, Takes, Starts, Strikes, Ends, Shorter
<1>3. /\ rxq \in [Uarts -> Seq(Typable)] /\ Keyboard \in Uarts
      /\ queue # <<>> => Tail(rxq[Keyboard]) \in Seq(Typable)
  BY QueueIs DEF queue
<1>4. rxq' \in [Uarts -> Seq(Typable)]
  BY <1>2, <1>3
<1> QED BY <1>1, <1>4 DEF LinesOK, Received, KeyInv

LEMMA ScanKeysOK ==
  ASSUME KeyInv, msx_scanrow
  PROVE  KeysOK'
<1>1. KeysOK
  BY DEF KeyInv
<1>2. selected' = FALSE /\ UNCHANGED <<txq, current_row, typed, seen>>
  BY ScanDoes
<1>3. shift_step' \in 0 .. 2
  BY <1>1, ScanDoes DEF KeysOK, Looks, Same, Drops, Takes, Starts, Strikes, Ends
<1>4. queue # <<>> => Matrix[First].key \in KeysOf /\ Matrix[First].mod \in ModKeys
  BY QueueIs DEF KeysOf, ModKeys
<1>5. /\ round.keys \in Seq(KeysOf) /\ round.mods \in SUBSET ModKeys
      /\ round \in [keys : Seq(KeysOf), mods : SUBSET ModKeys]
  BY <1>1, RoundIs DEF KeysOK
<1>6. round' = round \/
        \E ks \in Seq(KeysOf), ms \in SUBSET ModKeys : round' = [keys |-> ks, mods |-> ms]
  <2>1. queue # <<>> =>
          /\ Append(round.keys, Matrix[First].key) \in Seq(KeysOf)
          /\ round.mods \cup {Matrix[First].mod} \in SUBSET ModKeys
    BY <1>4, <1>5
  <2>2. CASE Looks \/ Drops
    BY <2>2 DEF Looks, Same, Drops
  <2>3. CASE Takes
    BY <1>5, <2>1, <2>3 DEF Takes, Pressing, Shorter
  <2>4. CASE Starts
    BY <1>5, <2>1, <2>4 DEF Starts, Pressing
  <2>5. CASE Strikes
    BY <1>5, <2>1, <2>5 DEF Strikes, Pressing
  <2>6. CASE Ends
    BY <1>5, <2>1, <2>6 DEF Ends, Pressing, Shorter
  <2> QED BY <2>2, <2>3, <2>4, <2>5, <2>6, ScanDoes
<1>7. round' \in [keys : Seq(KeysOf), mods : SUBSET ModKeys]
  BY <1>5, <1>6
<1> QED BY <1>1, <1>2, <1>3, <1>7 DEF KeysOK

LEMMA ScanQueueKnown ==
  ASSUME KeyInv, msx_scanrow
  PROVE  QueueKnown'
<1>1. typed' = typed /\ typed \in Seq(Typable) /\ queue \in Seq(Typable) /\ Taken \in Int
  BY ScanDoes, QueueIs, ScanTakes DEF KeyInv, KeysOK
<1>2. PICK at \in [0 .. Len(queue) -> 0 .. Len(typed)] : Counts(at, queue, typed, Taken)
  BY DEF KeyInv, QueueKnown
<1>3. \/ queue' = queue /\ Taken' = Taken
      \/ /\ queue # <<>> /\ queue' = Tail(queue)
         /\ Taken' = IF Supported(Head(queue)) THEN Taken + 1 ELSE Taken
  BY ScanTakes DEF First
<1>4. CASE queue' = queue /\ Taken' = Taken
  BY <1>1, <1>2, <1>4 DEF QueueKnown
<1>5. CASE /\ queue # <<>> /\ queue' = Tail(queue)
           /\ Taken' = IF Supported(Head(queue)) THEN Taken + 1 ELSE Taken
  <2>1. \E b \in [0 .. Len(queue') -> 0 .. Len(typed)] : Counts(b, queue', typed, Taken')
    <3> HIDE DEF queue, Taken
    <3> QED BY <1>1, <1>2, <1>5, CountsTail
  <2> QED BY <1>1, <2>1 DEF QueueKnown
<1> QED BY <1>3, <1>4, <1>5

LEMMA RowIs ==
  ASSUME KeyInv, queue # <<>>, Shifts(First)
  PROVE  Matrix[First].row \in 0 .. LastRow /\ Matrix[First].row # ModRow
BY QueueIs, KeyAssumption DEF Shifts

LEMMA ScanStepKnown ==
  ASSUME KeyInv, msx_scanrow
  PROVE  StepKnown'
<1>1. /\ Done \in Nat /\ Done' = Done + 1 /\ ModRow \in Nat
      /\ Past <=> Done > ModRow
      /\ Past' <=> Done + 1 > ModRow
  BY ScanCounts DEF Past
<1>2. StepKnown
  BY DEF KeyInv
<1>3. CASE Looks
  <2>1. queue' = queue /\ round' = round /\ shift_step' = shift_step
    BY <1>3 DEF Looks, Same, queue
  <2>2. SUFFICES ASSUME shift_step # 0
                 PROVE  StepKnown'
    BY <2>1 DEF StepKnown
  <2>3. /\ queue # <<>> /\ Shifts(First)
        /\ Past => Matrix[First].mod \in round.mods
        /\ shift_step = 1 =>
             \/ Done <= Matrix[First].row /\ (Past \/ Matrix[First].row < ModRow)
             \/ Past /\ Matrix[First].row < ModRow
    BY <1>2, <2>2 DEF StepKnown, First
  <2>4. Matrix[First].row \in Int
    BY <2>3, RowIs
  <2>5. /\ shift_step = 1 => Done # Matrix[First].row
        /\ shift_step = 2 => Done # ModRow
        /\ shift_step = 1 \/ shift_step = 2
    BY <1>3, <2>2 DEF Looks, KeyInv, KeysOK
  <2>6. Past' => Past
    BY <1>1, <2>3, <2>4, <2>5
  <2>7. /\ shift_step = 1 =>
             \/ Done + 1 <= Matrix[First].row /\ (Past' \/ Matrix[First].row < ModRow)
             \/ Past' /\ Matrix[First].row < ModRow
    BY <1>1, <2>3, <2>4, <2>5
  <2> QED BY <1>1, <2>1, <2>3, <2>6, <2>7 DEF StepKnown, First
<1>4. CASE Drops \/ Takes \/ Ends
  <2>1. shift_step' = 0
    BY <1>4 DEF Drops, Takes, Ends
  <2> QED BY <2>1 DEF StepKnown
<1>5. CASE Starts
  <2>1. /\ Shifts(First) /\ Done = ModRow /\ shift_step' = 1 /\ queue # <<>>
        /\ queue' = queue /\ round'.mods = round.mods \cup {Matrix[First].mod}
    BY <1>5 DEF Starts, queue, Pressing
  <2>2. Matrix[First].row \in Int /\ Matrix[First].row # ModRow
    BY <2>1, RowIs
  <2>3. Past' /\ Done' = ModRow + 1
    BY <1>1, <2>1
  <2>4. Done' <= Matrix[First].row \/ Matrix[First].row < ModRow
    BY <1>1, <2>2, <2>3
  <2> QED BY <2>1, <2>3, <2>4 DEF StepKnown, First
<1>6. CASE Strikes
  <2>1. /\ Shifts(First) /\ shift_step = 1 /\ Done = Matrix[First].row /\ shift_step' = 2
        /\ queue # <<>> /\ queue' = queue /\ round'.mods = round.mods
    BY <1>6 DEF Strikes, queue, Pressing
  <2>2. Past => Matrix[First].mod \in round.mods
    BY <1>2, <2>1 DEF StepKnown, First
  <2>3. Past' => Past
    BY <1>1, <2>1, RowIs
  <2> QED BY <2>1, <2>2, <2>3 DEF StepKnown, First
<1> QED BY <1>3, <1>4, <1>5, <1>6, ScanDoes

LEMMA ScanRoundKnown ==
  ASSUME KeyInv, msx_scanrow
  PROVE  RoundKnown'
<1>1. typed' = typed /\ seen' = seen
  BY ScanDoes
<1>2. /\ round.keys \in Seq(KeysOf) /\ Len(round.keys) \in Nat
      /\ Len(seen) \in Nat /\ Len(typed) \in Nat
      /\ Pressed \in Nat /\ Pressed = Len(seen) + Len(round.keys)
  BY RoundIs, ScanTakes DEF Pressed
<1>3. /\ Pressed <= Len(typed)
      /\ \A i \in 1 .. Len(round.keys) :
           /\ round.keys[i] = Matrix[typed[Len(seen) + i]].key
           /\ \/ ModsOf(typed[Len(seen) + i]) \subseteq round.mods
              \/ ~Past /\ i = Len(round.keys) /\ shift_step = 2
  BY DEF KeyInv, RoundKnown
<1>4. /\ Done \in Nat /\ ModRow \in Nat /\ (Past <=> Done > ModRow)
      /\ (Past' <=> Done + 1 > ModRow)
  BY ScanCounts DEF Past
<1>5. CASE Looks
  <2>1. round' = round /\ shift_step' = shift_step /\ (shift_step = 2 => Done # ModRow)
    BY <1>5 DEF Looks, Same
  <2>2. shift_step = 2 /\ ~Past => ~Past'
    BY <1>4, <2>1
  <2> QED BY <1>1, <1>3, <2>1, <2>2 DEF RoundKnown, Pressed
<1>6. CASE Drops
  <2>1. round' = round /\ shift_step = 0
    BY <1>6 DEF Drops
  <2> QED BY <1>1, <1>3, <2>1 DEF RoundKnown, Pressed
<1>7. CASE Takes
  <2>1. /\ Supported(First) /\ Matrix[First].mod = NO_KEY /\ shift_step = 0
        /\ queue # <<>> /\ Taken = Pressed
        /\ round'.keys = Append(round.keys, Matrix[First].key) /\ round'.mods = round.mods
    BY <1>7 DEF Takes, Shorter, Pressing, Taken
  <2>2. Pressed + 1 <= Len(typed) /\ typed[Pressed + 1] = First
    BY <1>2, <2>1, NextIsTyped
  <2>3. ModsOf(First) = {}
    BY <2>1 DEF ModsOf
  <2>4. /\ Len(round'.keys) = Len(round.keys) + 1
        /\ round'.keys[Len(round.keys) + 1] = Matrix[First].key
        /\ \A i \in 1 .. Len(round.keys) : round'.keys[i] = round.keys[i]
    BY <1>2, <2>1
  <2>5. Pressed' <= Len(typed)
    BY <1>1, <1>2, <2>2, <2>4 DEF Pressed
  <2>6. ASSUME NEW i \in 1 .. Len(round'.keys)
        PROVE  /\ round'.keys[i] = Matrix[typed[Len(seen) + i]].key
               /\ ModsOf(typed[Len(seen) + i]) \subseteq round'.mods
    <3>1. CASE i = Len(round.keys) + 1
      <4>1. Len(seen) + i = Pressed + 1
        BY <1>2, <3>1
      <4> QED BY <2>2, <2>3, <2>4, <3>1, <4>1
    <3>2. CASE i # Len(round.keys) + 1
      <4>1. i \in 1 .. Len(round.keys)
        BY <1>2, <2>4, <3>2
      <4> QED BY <1>3, <2>1, <2>4, <4>1
    <3> QED BY <3>1, <3>2
  <2> QED BY <1>1, <2>5, <2>6 DEF RoundKnown
<1>8. CASE Starts
  <2>1. /\ shift_step = 0 /\ round'.keys = round.keys
        /\ round'.mods = round.mods \cup {Matrix[First].mod}
    BY <1>8 DEF Starts, Pressing
  <2> QED BY <1>1, <1>3, <2>1 DEF RoundKnown, Pressed
<1>9. CASE Strikes
  <2>1. /\ Shifts(First) /\ shift_step = 1 /\ shift_step' = 2 /\ Done = Matrix[First].row
        /\ queue # <<>> /\ Taken = Pressed
        /\ round'.keys = Append(round.keys, Matrix[First].key) /\ round'.mods = round.mods
    BY <1>9 DEF Strikes, Pressing, Taken
  <2>2. Pressed + 1 <= Len(typed) /\ typed[Pressed + 1] = First
    BY <1>2, <2>1, NextIsTyped DEF Shifts
  <2>3. Past => ModsOf(First) \subseteq round.mods
    BY <2>1 DEF ModsOf, KeyInv, StepKnown, First
  <2>4. /\ Len(round'.keys) = Len(round.keys) + 1
        /\ round'.keys[Len(round.keys) + 1] = Matrix[First].key
        /\ \A i \in 1 .. Len(round.keys) : round'.keys[i] = round.keys[i]
    BY <1>2, <2>1
  <2>5. Pressed' <= Len(typed)
    BY <1>1, <1>2, <2>2, <2>4 DEF Pressed
  <2>6. Past' => Past
    BY <1>4, <2>1, RowIs
  <2>7. ASSUME NEW i \in 1 .. Len(round'.keys)
        PROVE  /\ round'.keys[i] = Matrix[typed[Len(seen) + i]].key
               /\ \/ ModsOf(typed[Len(seen) + i]) \subseteq round'.mods
                  \/ ~Past' /\ i = Len(round'.keys)
    <3>1. CASE i = Len(round.keys) + 1
      <4>1. Len(seen) + i = Pressed + 1
        BY <1>2, <3>1
      <4> QED BY <2>1, <2>2, <2>3, <2>4, <2>6, <3>1, <4>1
    <3>2. CASE i # Len(round.keys) + 1
      <4>1. i \in 1 .. Len(round.keys)
        BY <1>2, <2>4, <3>2
      <4> QED BY <1>3, <2>1, <2>4, <4>1
    <3> QED BY <3>1, <3>2
  <2> QED BY <1>1, <2>1, <2>5, <2>7 DEF RoundKnown
<1>10. CASE Ends
  <2>1. /\ Shifts(First) /\ shift_step = 2 /\ queue # <<>>
        /\ round'.keys = round.keys /\ round'.mods = round.mods \cup {Matrix[First].mod}
    BY <1>10 DEF Ends, Pressing, Shorter
  <2>2. typed[Pressed] = First
    BY <1>2, <2>1, NextIsTyped DEF Taken, Shifts
  <2>3. ASSUME NEW i \in 1 .. Len(round.keys)
        PROVE  ModsOf(typed[Len(seen) + i]) \subseteq round'.mods
    <3>1. CASE i = Len(round.keys)
      <4>1. Len(seen) + i = Pressed
        BY <1>2, <3>1
      <4> QED BY <2>1, <2>2, <4>1 DEF ModsOf
    <3>2. CASE i # Len(round.keys)
      BY <1>3, <2>1, <3>2
    <3> QED BY <3>1, <3>2
  <2> QED BY <1>1, <1>3, <2>1, <2>3 DEF RoundKnown, Pressed
<1> QED BY <1>5, <1>6, <1>7, <1>8, <1>9, <1>10, ScanDoes

LEMMA ScanModsKnown ==
  ASSUME KeyInv, msx_scanrow
  PROVE  ModsKnown'
<1>1. typed' = typed /\ seen' = seen
  BY ScanDoes
<1>2. /\ Len(round.keys) \in Nat /\ Len(seen) \in Nat /\ Len(typed) \in Nat
      /\ Pressed \in Nat /\ Pressed = Len(seen) + Len(round.keys)
  BY RoundIs, ScanTakes DEF Pressed
<1>3. /\ Done \in Nat /\ Done' = Done + 1 /\ ModRow \in Nat
      /\ Past <=> Done > ModRow
      /\ Past' <=> Done + 1 > ModRow
  BY ScanCounts DEF Past
<1>4. /\ ~Past => round.mods = {} /\ Len(round.keys) <= Done
      /\ round.mods = {} \/
           \E j \in 1 .. Len(typed) :
             /\ round.mods \subseteq ModsOf(typed[j])
             /\ j <= Len(seen) + 1 + ModRow
             /\ Pressed - j <= Done - 1 - ModRow
  BY DEF KeyInv, ModsKnown
<1>5. CASE Looks \/ Drops \/ Takes \/ Strikes
  <2>1. round'.mods = round.mods
    BY <1>5 DEF Looks, Same, Drops, Takes, Strikes, Pressing
  <2>2. /\ Pressed' = Pressed \/ Pressed' = Pressed + 1
        /\ Pressed' = Len(seen) + Len(round'.keys)
    BY <1>1, ScanTakes DEF Pressed
  <2>3. Len(round'.keys) \in Nat
    BY ScanKeysOK DEF KeysOK
  <2>4. ~Past' => round'.mods = {} /\ Len(round'.keys) <= Done'
    BY <1>2, <1>3, <1>4, <2>1, <2>2, <2>3
  <2>5. CASE round.mods = {}
    BY <2>1, <2>4, <2>5 DEF ModsKnown
  <2>6. CASE round.mods # {}
    <3>1. PICK j \in 1 .. Len(typed) :
            /\ round.mods \subseteq ModsOf(typed[j])
            /\ j <= Len(seen) + 1 + ModRow
            /\ Pressed - j <= Done - 1 - ModRow
      BY <1>4, <2>6
    <3>2. Pressed' - j <= Done' - 1 - ModRow
      BY <1>2, <1>3, <2>2, <3>1
    <3> QED BY <1>1, <2>1, <2>4, <3>1, <3>2 DEF ModsKnown
  <2> QED BY <2>5, <2>6
<1>6. CASE Starts \/ Ends
  <2>1. /\ Shifts(First) /\ queue # <<>> /\ Done = ModRow
        /\ round'.keys = round.keys /\ round'.mods = round.mods \cup {Matrix[First].mod}
        /\ Taken = Pressed \/ Taken = Pressed - 1
    BY <1>6 DEF Starts, Ends, Pressing, Shorter, Taken
  <2>2. Past' /\ ~Past /\ round.mods = {} /\ Len(round.keys) <= ModRow
    BY <1>3, <1>4, <2>1
  <2> DEFINE j == Taken + 1
  <2>3. j \in 1 .. Len(typed) /\ typed[j] = First
    BY <2>1, NextIsTyped DEF Shifts
  <2>4. round'.mods \subseteq ModsOf(typed[j])
    BY <2>1, <2>2, <2>3 DEF ModsOf, Shifts
  <2>5. Pressed' = Pressed
    BY <1>1, <2>1 DEF Pressed
  <2>6. j <= Len(seen) + 1 + ModRow /\ Pressed - j <= Done' - 1 - ModRow
    BY <1>2, <1>3, <2>1, <2>2
  <2> HIDE DEF j
  <2> QED BY <1>1, <2>2, <2>3, <2>4, <2>5, <2>6 DEF ModsKnown
<1> QED BY <1>5, <1>6, ScanDoes

LEMMA ScanSeenKnown ==
  ASSUME KeyInv, msx_scanrow
  PROVE  SeenKnown'
<1>1. typed' = typed /\ seen' = seen
  BY ScanDoes
<1> QED BY <1>1 DEF KeyInv, SeenKnown, Neighbours

----------------------------------------------------------------------------
\* What selecting a row keeps.

\* In the midst of a round.
LEMMA NextRow ==
  ASSUME KeyInv, msx_setrow, current_row # LastRow, program' = program
  PROVE  KeyInv'
<1>1. /\ ~selected /\ selected' = TRUE /\ current_row' = current_row + 1
      /\ seen' = seen /\ round' = round /\ shift_step' = shift_step /\ typed' = typed
      /\ rxq' = rxq /\ txq' = txq
  BY DEF msx_setrow, lines
<1>2. current_row \in 0 .. LastRow /\ LastRow \in Nat
  BY KeyAssumption DEF KeyInv, KeysOK
<1>3. Done' = Done /\ (Past' <=> Past)
  BY <1>1, <1>2 DEF Done, Past
<1>4. queue' = queue /\ Pressed' = Pressed /\ Taken' = Taken
  BY <1>1 DEF queue, Pressed, Taken
<1>5. LinesOK'
  BY <1>1 DEF KeyInv, LinesOK, Received
<1>6. KeysOK'
  BY <1>1, <1>2 DEF KeyInv, KeysOK
<1>7. QueueKnown'
  BY <1>1, <1>4 DEF KeyInv, QueueKnown
<1>8. StepKnown'
  BY <1>1, <1>3, <1>4 DEF KeyInv, StepKnown
<1>9. RoundKnown'
  BY <1>1, <1>3, <1>4 DEF KeyInv, RoundKnown
<1>10. ModsKnown'
  BY <1>1, <1>3, <1>4 DEF KeyInv, ModsKnown
<1>11. SeenKnown'
  BY <1>1 DEF KeyInv, SeenKnown, Neighbours
<1> QED BY <1>5, <1>6, <1>7, <1>8, <1>9, <1>10, <1>11 DEF KeyInv

\* At the end of one: what was pressed in it is seen.
LEMMA RoundEnds ==
  ASSUME KeyInv, msx_setrow, current_row = LastRow, program' = program
  PROVE  KeyInv'
<1> DEFINE new == [i \in DOMAIN round.keys |->
                     [key |-> round.keys[i], mods |-> round.mods]]
<1>1. /\ ~selected /\ selected' = TRUE /\ current_row' = 0
      /\ seen' = seen \o new /\ round' = NothingPressed /\ shift_step' = shift_step
      /\ typed' = typed /\ rxq' = rxq /\ txq' = txq
  BY DEF msx_setrow, lines
<1>2. LastRow \in Nat /\ ModRow \in Nat /\ ModRow <= LastRow
  BY KeyAssumption
<1>3. Done = LastRow + 1 /\ Done' = 0 /\ Past /\ ~Past'
  BY <1>1, <1>2 DEF Done, Past
<1>4. /\ round.keys \in Seq(KeysOf) /\ round.mods \in SUBSET ModKeys
      /\ Len(round.keys) \in Nat /\ Len(seen) \in Nat /\ Len(typed) \in Nat
      /\ seen \in Seq([key : KeysOf, mods : SUBSET ModKeys])
  BY RoundIs DEF KeyInv, KeysOK
<1>5. /\ new \in Seq([key : KeysOf, mods : SUBSET ModKeys])
      /\ Len(new) = Len(round.keys)
      /\ \A i \in 1 .. Len(round.keys) :
           new[i].key = round.keys[i] /\ new[i].mods = round.mods
  <2>1. new \in [1 .. Len(round.keys) -> [key : KeysOf, mods : SUBSET ModKeys]]
    BY <1>4
  <2>2. new \in Seq([key : KeysOf, mods : SUBSET ModKeys])
    <3> DEFINE S == [key : KeysOf, mods : SUBSET ModKeys]
    <3> HIDE DEF new, S
    <3>1. new \in [1 .. Len(round.keys) -> S] /\ Len(round.keys) \in Nat
      BY <1>4, <2>1 DEF S
    <3>2. new \in Seq(S)
      BY <3>1, SeqDef
    <3> QED BY <3>2 DEF S
  <2>3. DOMAIN new = 1 .. Len(new) /\ Len(new) \in Nat
    <3> HIDE DEF new
    <3> QED BY <2>2, LenProperties
  <2>4. DOMAIN new = 1 .. Len(round.keys) /\ DOMAIN round.keys = 1 .. Len(round.keys)
    BY <1>4
  <2>5. Len(new) = Len(round.keys)
    <3> HIDE DEF new
    <3> QED BY <1>4, <2>3, <2>4
  <2>6. \A i \in 1 .. Len(round.keys) :
          new[i].key = round.keys[i] /\ new[i].mods = round.mods
    BY <2>4
  <2> QED BY <2>2, <2>5, <2>6
<1> HIDE DEF new
<1>6. /\ seen' \in Seq([key : KeysOf, mods : SUBSET ModKeys])
      /\ Len(seen') = Len(seen) + Len(round.keys)
      /\ \A i \in 1 .. Len(seen) : seen'[i] = seen[i]
      /\ \A i \in Len(seen) + 1 .. Len(seen') : seen'[i] = new[i - Len(seen)]
  <2>1. /\ seen \o new \in Seq([key : KeysOf, mods : SUBSET ModKeys])
        /\ Len(seen \o new) = Len(seen) + Len(new)
        /\ \A i \in 1 .. Len(seen) + Len(new) :
             (seen \o new)[i] = IF i <= Len(seen) THEN seen[i] ELSE new[i - Len(seen)]
    <3> DEFINE S == [key : KeysOf, mods : SUBSET ModKeys]
    <3> HIDE DEF S
    <3>1. seen \in Seq(S) /\ new \in Seq(S)
      BY <1>4, <1>5 DEF S
    <3>2. /\ seen \o new \in Seq(S) /\ Len(seen \o new) = Len(seen) + Len(new)
          /\ \A i \in 1 .. Len(seen) + Len(new) :
               (seen \o new)[i] = IF i <= Len(seen) THEN seen[i] ELSE new[i - Len(seen)]
      BY <3>1, ConcatProperties
    <3> QED BY <3>2 DEF S
  <2> QED BY <1>1, <1>4, <1>5, <2>1
<1>7. round'.keys = <<>> /\ round'.mods = {} /\ Len(round'.keys) = 0
  BY <1>1 DEF NothingPressed
<1>8. queue' = queue /\ Pressed' = Pressed /\ Taken' = Taken
  BY <1>1, <1>4, <1>6, <1>7 DEF queue, Pressed, Taken
<1>9. Pressed = Len(seen) + Len(round.keys)
  BY DEF Pressed
<1>10. LinesOK'
  BY <1>1 DEF KeyInv, LinesOK, Received
<1>11. KeysOK'
  <2>1. <<>> \in Seq(KeysOf)
    BY EmptySeq
  <2>2. NothingPressed \in [keys : Seq(KeysOf), mods : SUBSET ModKeys]
    BY <2>1 DEF NothingPressed
  <2> QED BY <1>1, <1>2, <1>6, <2>2 DEF KeyInv, KeysOK
<1>12. QueueKnown'
  BY <1>1, <1>8 DEF KeyInv, QueueKnown
<1>13. StepKnown'
  <2> SUFFICES ASSUME shift_step # 0
               PROVE  StepKnown'
    BY <1>1 DEF StepKnown
  <2>1. /\ queue # <<>> /\ Shifts(First)
        /\ shift_step = 1 =>
             \/ Done <= Matrix[First].row /\ (Past \/ Matrix[First].row < ModRow)
             \/ Past /\ Matrix[First].row < ModRow
    BY DEF KeyInv, StepKnown, First
  <2>2. Matrix[First].row \in 0 .. LastRow
    BY <2>1, RowIs
  <2>3. shift_step = 1 => Matrix[First].row < ModRow /\ 0 <= Matrix[First].row
    BY <1>2, <1>3, <2>1, <2>2
  <2> QED BY <1>1, <1>3, <1>8, <2>1, <2>3 DEF StepKnown, First
<1>14. RoundKnown'
  <2>1. Pressed <= Len(typed)
    BY DEF KeyInv, RoundKnown
  <2> QED BY <1>1, <1>7, <1>8, <2>1 DEF RoundKnown
<1>15. ModsKnown'
  BY <1>3, <1>7 DEF ModsKnown
<1>16. ASSUME NEW i \in Len(seen) + 1 .. Len(seen')
       PROVE  /\ seen'[i].key = Matrix[typed[i]].key
              /\ ModsOf(typed[i]) \subseteq seen'[i].mods
              /\ seen'[i].mods \subseteq UNION {ModsOf(c) : c \in Neighbours(i)}
  <2> DEFINE k == i - Len(seen)
  <2>1. k \in 1 .. Len(round.keys) /\ i = Len(seen) + k
    BY <1>4, <1>6
  <2>2. seen'[i].key = round.keys[k] /\ seen'[i].mods = round.mods
    BY <1>5, <1>6, <2>1
  <2>3. round.keys[k] = Matrix[typed[i]].key /\ ModsOf(typed[i]) \subseteq round.mods
    BY <1>3, <2>1 DEF KeyInv, RoundKnown
  <2>4. CASE round.mods = {}
    BY <2>2, <2>3, <2>4
  <2>5. CASE round.mods # {}
    <3>1. PICK j \in 1 .. Len(typed) :
            /\ round.mods \subseteq ModsOf(typed[j])
            /\ j <= Len(seen) + 1 + ModRow
            /\ Pressed - j <= Done - 1 - ModRow
      BY <2>5 DEF KeyInv, ModsKnown
    <3>2. j \in (i - (LastRow - ModRow)) .. (i + ModRow)
      BY <1>2, <1>3, <1>4, <1>6, <1>9, <3>1
    <3>3. DOMAIN typed = 1 .. Len(typed)
      BY DEF KeyInv, KeysOK
    <3>4. typed[j] \in Neighbours(i)
      BY <3>1, <3>2, <3>3 DEF Neighbours
    <3> QED BY <2>2, <2>3, <3>1, <3>4
  <2> QED BY <2>4, <2>5
<1>17. SeenKnown'
  <2>1. SeenKnown
    BY DEF KeyInv
  <2>2. \A i \in 1 .. Len(seen') : i \in 1 .. Len(seen) \/ i \in Len(seen) + 1 .. Len(seen')
    BY <1>4, <1>6
  <2>3. ASSUME NEW i \in 1 .. Len(seen')
        PROVE  /\ seen'[i].key = Matrix[typed[i]].key
               /\ ModsOf(typed[i]) \subseteq seen'[i].mods
               /\ seen'[i].mods \subseteq UNION {ModsOf(c) : c \in Neighbours(i)}
    <3>1. CASE i \in 1 .. Len(seen)
      <4>1. seen'[i] = seen[i]
        BY <1>6, <3>1
      <4> QED BY <2>1, <3>1, <4>1 DEF SeenKnown
    <3>2. CASE i \in Len(seen) + 1 .. Len(seen')
      BY <1>16, <3>2
    <3> QED BY <2>2, <3>1, <3>2
  <2>4. \A i : Neighbours(i)' = Neighbours(i)
    BY <1>1 DEF Neighbours
  <2> QED BY <1>1, <2>3, <2>4 DEF SeenKnown
<1> QED BY <1>1, <1>10, <1>11, <1>12, <1>13, <1>14, <1>15, <1>17 DEF KeyInv

----------------------------------------------------------------------------
\* What a character that is typed keeps.
LEMMA TypeKeeps ==
  ASSUME KeyInv, NEW c \in Typable, Type(c), program' = program
  PROVE  KeyInv'
<1>1. /\ rxq' = [rxq EXCEPT ![Keyboard] = Append(@, c)] /\ txq' = txq
      /\ typed' = IF Supported(c) THEN Append(typed, c) ELSE typed
      /\ UNCHANGED <<current_row, shift_step, selected, round, seen>>
  BY DEF Type, Arrive
<1>2. /\ queue \in Seq(Typable) /\ rxq \in [Uarts -> Seq(Typable)] /\ Keyboard \in Uarts
      /\ typed \in Seq(Typable) /\ Len(typed) \in Nat
      /\ Len(round.keys) \in Nat /\ Len(seen) \in Nat
  BY QueueIs, RoundIs DEF KeyInv, KeysOK
<1>3. queue' = Append(queue, c)
  BY <1>1, <1>2 DEF queue
<1>4. /\ typed' \in Seq(Typable) /\ Len(typed') \in Nat /\ Len(typed') >= Len(typed)
      /\ \A i \in 1 .. Len(typed) : typed'[i] = typed[i]
  BY <1>1, <1>2
<1>5. Pressed' = Pressed /\ Taken' = Taken /\ Done' = Done /\ (Past' <=> Past)
  BY <1>1 DEF Pressed, Taken, Done, Past
<1>6. Pressed = Len(seen) + Len(round.keys) /\ Pressed <= Len(typed) /\ Taken \in Int
  BY <1>2 DEF Pressed, Taken, KeyInv, RoundKnown
<1>7. LinesOK'
  BY <1>1, <1>2 DEF KeyInv, LinesOK, Received
<1>8. KeysOK'
  BY <1>1, <1>4 DEF KeyInv, KeysOK
<1>9. QueueKnown'
  <2>1. PICK at \in [0 .. Len(queue) -> 0 .. Len(typed)] : Counts(at, queue, typed, Taken)
    BY DEF KeyInv, QueueKnown
  <2>2. \E b \in [0 .. Len(queue') -> 0 .. Len(typed')] : Counts(b, queue', typed', Taken)
    <3> HIDE DEF queue, Taken
    <3> QED BY <1>1, <1>2, <1>3, <1>4, <1>6, <2>1, CountsAppend
  <2> QED BY <1>5, <2>2 DEF QueueKnown
<1>10. StepKnown'
  <2>1. queue # <<>> => queue' # <<>> /\ Head(queue') = Head(queue)
    BY <1>2, <1>3
  <2> QED BY <1>1, <1>5, <2>1 DEF KeyInv, StepKnown
<1>11. RoundKnown'
  <2>1. \A i \in 1 .. Len(round.keys) : typed'[Len(seen) + i] = typed[Len(seen) + i]
    BY <1>2, <1>4, <1>6
  <2>2. Pressed' <= Len(typed')
    BY <1>2, <1>4, <1>5, <1>6
  <2> QED BY <1>1, <1>5, <2>1, <2>2 DEF KeyInv, RoundKnown
<1>12. ModsKnown'
  <2>1. \A j \in 1 .. Len(typed) : j \in 1 .. Len(typed') /\ typed'[j] = typed[j]
    BY <1>4, <1>2
  <2> QED BY <1>1, <1>5, <2>1 DEF KeyInv, ModsKnown
<1>13. SeenKnown'
  <2>1. \A i \in 1 .. Len(seen) : typed'[i] = typed[i]
    BY <1>2, <1>4, <1>6
  <2>2. DOMAIN typed = 1 .. Len(typed) /\ DOMAIN typed' = 1 .. Len(typed')
    BY <1>2, <1>4
  <2>3. \A i : Neighbours(i) \subseteq Neighbours(i)'
    BY <1>2, <1>4, <2>2 DEF Neighbours
  <2>4. \A i : UNION {ModsOf(d) : d \in Neighbours(i)} \subseteq
                 UNION {ModsOf(d) : d \in Neighbours(i)'}
    BY <2>3
  <2> QED BY <1>1, <2>1, <2>4 DEF KeyInv, SeenKnown
<1> QED BY <1>1, <1>7, <1>8, <1>9, <1>10, <1>11, <1>12, <1>13 DEF KeyInv

LEMMA KeyboardKeeps ==
  ASSUME Inv, Next, program = "keyboard"
  PROVE  Inv'
<1>1. KeyInv
  BY DEF Inv, KeyInv, TypeOK, KeysKnown
<1>2. program' = program /\ sioVars' = sioVars
  BY KeyboardSteps
<1>3. KeyInv'
  <2>1. CASE msx_scanrow
    BY <1>1, <1>2, <2>1, ScanLinesOK, ScanKeysOK, ScanQueueKnown, ScanStepKnown,
       ScanRoundKnown, ScanModsKnown, ScanSeenKnown DEF KeyInv
  <2>2. CASE msx_setrow
    BY <1>1, <1>2, <2>2, NextRow, RoundEnds
  <2>3. ASSUME NEW c \in Typable, Type(c)
        PROVE  KeyInv'
    BY <1>1, <1>2, <2>3, TypeKeeps
  <2> QED BY <2>1, <2>2, <2>3, KeyboardSteps
<1>4. program' = "keyboard" /\ KeysKnown'
  BY <1>3 DEF KeyInv, KeysKnown
<1>5. /\ held = {} /\ \A p \in Virtual, d \in Dirs : ~polled[p][d]
      /\ held' = {} /\ \A p \in Virtual, d \in Dirs : ~polled'[p][d]
  BY <1>2 DEF Inv, OthersIdle, sioVars
<1>6. TypeOK'
  BY <1>2, <1>3, <1>4 DEF Inv, TypeOK, KeyInv, PortsOK, FilesOK, sioVars, files
<1>7. PolledKnown' /\ HeldKnown'
  BY <1>5 DEF PolledKnown, HeldKnown
<1>8. FilesKnown'
  BY <1>2 DEF Inv, FilesKnown, sioVars, files
<1>9. OutputKnown'
  BY <1>2 DEF Inv, OutputKnown, OutputIsKept, sioVars, files
<1>10. OthersIdle'
  BY <1>4, <1>5 DEF OthersIdle
<1> QED BY <1>4, <1>6, <1>7, <1>8, <1>9, <1>10 DEF Inv

----------------------------------------------------------------------------
LEMMA InvInit ==
  ASSUME Init
  PROVE  Inv
<1> USE DEF Init, LinesInit, SioInit, KeyInit, NothingPressed
<1>1. /\ <<>> \in Seq(Chars) /\ <<>> \in Seq(Received) /\ <<>> \in Seq({0})
      /\ <<>> \in Seq(KeysOf) /\ <<>> \in Seq(Typable)
      /\ <<>> \in Seq([key : KeysOf, mods : SUBSET ModKeys])
  BY EmptySeq
<1>2. LinesOK
  BY <1>1 DEF LinesOK
<1>3. PortsOK
  BY OwnAssumption DEF PortsOK, Modes
<1>4. Closed \in Files /\ Closed.name \notin Names
  BY <1>1, SioAssumption DEF Closed, Files
<1>5. FilesOK
  <2> HIDE DEF Closed
  <2> QED BY <1>1, <1>4 DEF FilesOK
<1>6. KeysOK
  BY <1>1, KeyAssumption DEF KeysOK
<1>7. TypeOK
  BY <1>2, <1>3, <1>5, <1>6 DEF TypeOK
<1>8. PolledKnown /\ HeldKnown /\ OthersIdle
  BY DEF PolledKnown, HeldKnown, OthersIdle
<1>9. FilesKnown
  <2>1. \A p \in Virtual, d \in Dirs :
          fil[p][d] = Closed /\ mode[p][d] = Own[p] /\ Own[p] \in Uarts
    BY OwnAssumption
  <2>2. "write" \in Dirs
    BY DEF Dirs
  <2> HIDE DEF Init, Closed
  <2> QED BY <1>4, <2>1, <2>2, SioAssumption DEF FilesKnown
<1>10. OutputKnown
  BY <1>4 DEF OutputKnown, OutputIsKept, Dirs
<1>11. KeysKnown
  <2> SUFFICES ASSUME program = "keyboard"
               PROVE  KeysKnown
    BY DEF KeysKnown
  <2>1. queue = <<>> /\ typed = <<>> /\ round.keys = <<>> /\ round.mods = {}
    BY KeyAssumption DEF queue
  <2>2. Len(queue) = 0 /\ Len(typed) = 0 /\ Len(seen) = 0 /\ Len(round.keys) = 0
    BY <2>1
  <2>3. Done = 0 /\ Pressed = 0 /\ Taken = 0 /\ ~Past
    BY <2>2, KeyAssumption DEF Done, Pressed, Taken, Past
  <2>4. QueueKnown
    <3> DEFINE at == [i \in 0 .. 0 |-> 0]
    <3>1. at \in [0 .. Len(queue) -> 0 .. Len(typed)]
      BY <2>2
    <3>2. Counts(at, queue, typed, Taken)
      BY <2>2, <2>3 DEF Counts
    <3> QED BY <3>1, <3>2 DEF QueueKnown
  <2>5. StepKnown
    BY DEF StepKnown
  <2>6. RoundKnown
    BY <2>2, <2>3 DEF RoundKnown
  <2>7. ModsKnown
    BY <2>1, <2>2, <2>3 DEF ModsKnown
  <2>8. SeenKnown
    BY <2>2 DEF SeenKnown
  <2> QED BY <2>4, <2>5, <2>6, <2>7, <2>8 DEF KeysKnown
<1> QED BY <1>7, <1>8, <1>9, <1>10, <1>11 DEF Inv

LEMMA InvStutters ==
  ASSUME Inv, UNCHANGED vars
  PROVE  Inv'
<1> USE DEF vars, lines, sioVars, files, keyVars
<1>1. TypeOK'
  BY DEF Inv, TypeOK, LinesOK, PortsOK, FilesOK, KeysOK, Received
<1>2. PolledKnown' /\ HeldKnown' /\ FilesKnown'
  BY DEF Inv, PolledKnown, Ready, HeldKnown, FilesKnown
<1>3. OutputKnown' /\ OthersIdle'
  BY DEF Inv, OutputKnown, OutputIsKept, OthersIdle, KeyInit
<1>4. queue' = queue /\ Pressed' = Pressed /\ Taken' = Taken /\ Done' = Done /\ (Past' <=> Past)
  BY DEF queue, Pressed, Taken, Done, Past
<1>5. QueueKnown => QueueKnown'
  BY <1>4 DEF QueueKnown
<1>6. StepKnown => StepKnown'
  BY <1>4 DEF StepKnown
<1>7. RoundKnown => RoundKnown'
  BY <1>4 DEF RoundKnown
<1>8. ModsKnown => ModsKnown'
  BY <1>4 DEF ModsKnown
<1>9. SeenKnown => SeenKnown'
  BY DEF SeenKnown, Neighbours
<1> QED BY <1>1, <1>2, <1>3, <1>5, <1>6, <1>7, <1>8, <1>9 DEF Inv, KeysKnown

\* The inductive invariant holds throughout.
THEOREM Invariance == Spec => []Inv
<1>1. Init => Inv
  BY InvInit
<1>2. Inv /\ [Next]_vars => Inv'
  BY SerialKeeps, KeyboardKeeps, InvStutters, OnlyTwo DEF Inv
<1> QED BY <1>1, <1>2, PTL DEF Spec

\* The variables of the ports, the files and the keyboard keep their types.
THEOREM TypeCorrect == Spec => []TypeOK
<1>1. Inv => TypeOK
  BY DEF Inv
<1> QED BY <1>1, Invariance, PTL

\* What the status port said holds until the UART is used, for any number of virtual
\* ports however they share the UARTs (sio_status, sio_read, sio_write).
THEOREM StatusIsEnough == Spec => []StatusIsHonest
<1>1. Inv => StatusIsHonest
  <2> SUFFICES ASSUME Inv, NEW p \in Virtual
               PROVE  /\ polled[p]["read"] /\ mode[p]["read"] \in Uarts =>
                           Len(rxq[mode[p]["read"]]) > 0
                      /\ polled[p]["write"] /\ mode[p]["write"] \in Uarts =>
                           Len(txq[mode[p]["write"]]) < Room
    BY DEF StatusIsHonest, uart_testrx, uart_testtx
  <2>1. "read" \in Dirs /\ "write" \in Dirs /\ "file" \notin Uarts
    BY SioAssumption DEF Dirs
  <2>2. ASSUME polled[p]["read"], mode[p]["read"] \in Uarts
        PROVE  Len(rxq[mode[p]["read"]]) > 0
    <3>1. rxq[mode[p]["read"]] \in Seq(Received) /\ rxq[mode[p]["read"]] # <<>>
      BY <2>1, <2>2 DEF Inv, TypeOK, LinesOK, PolledKnown, Ready
    <3> QED BY <3>1
  <2>3. ASSUME polled[p]["write"], mode[p]["write"] \in Uarts
        PROVE  Len(txq[mode[p]["write"]]) < Room
    <3>1. txq[mode[p]["write"]] = <<>>
      BY <2>1, <2>3 DEF Inv, PolledKnown, Ready
    <3> QED BY <3>1, LinesAssumption
  <2> QED BY <2>2, <2>3
<1> QED BY <1>1, Invariance, PTL

\* What the card took from a program is in the file when it is attached no more,
\* unless two ports wrote it or it could not be closed (sio_attach, sio_unattach,
\* sio_write).
THEOREM OutputReachesFiles == Spec => []OutputIsKept
<1>1. Inv => OutputIsKept
  BY DEF Inv, OutputKnown
<1> QED BY <1>1, Invariance, PTL

\* The program sees the keys in the order they were typed, each with its modifier,
\* for any keyboard (msx_scanrow).
THEOREM KeysInOrder == Spec => []KeysAreSeen
<1>1. Inv => KeysAreSeen
  <2> SUFFICES ASSUME Inv
               PROVE  KeysAreSeen
    OBVIOUS
  <2>1. seen \in Seq([key : KeysOf, mods : SUBSET ModKeys]) /\ typed \in Seq(Typable)
    BY DEF Inv, TypeOK, KeysOK
  <2>2. CASE program = "keyboard"
    <3>1. SeenKnown /\ Pressed <= Len(typed) /\ Len(round.keys) \in Nat
      BY <2>2, RoundIs DEF Inv, KeysKnown, RoundKnown, KeyInv, TypeOK
    <3>2. Len(seen) <= Len(typed)
      BY <2>1, <3>1 DEF Pressed
    <3>3. DOMAIN seen = 1 .. Len(seen)
      BY <2>1
    <3> QED BY <3>1, <3>2, <3>3 DEF SeenKnown, KeysAreSeen
  <2>3. CASE program # "keyboard"
    <3>1. seen = <<>> /\ Len(seen) = 0 /\ DOMAIN seen = {} /\ Len(typed) >= 0
      BY <2>1, <2>3 DEF Inv, OthersIdle, KeyInit
    <3> QED BY <2>1, <3>1 DEF KeysAreSeen
  <2> QED BY <2>2, <2>3
<1> QED BY <1>1, Invariance, PTL
=============================================================================
