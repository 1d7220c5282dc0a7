------------------------------- MODULE MsxKey -------------------------------
(***************************************************************************)
(* emulation/msxkey.c: a terminal's characters as keys of an MSX keyboard. *)
(* A Z80 program selects the rows one after another and reads the columns  *)
(* of each; what was pressed in one round of the rows is what it sees.  A  *)
(* character that needs SHIFT or CTRL stays in the receive queue while its *)
(* modifier, its key, and its modifier again are reported.                 *)
(***************************************************************************)
EXTENDS SerialLines

CONSTANTS
  Keyboard,   \* the port of the terminal
  Typable,    \* the characters the terminal sends
  Matrix,     \* msx_key_matrix: [Typable -> [key, row, mod]]
  LastRow,    \* rows are 0 .. LastRow
  ModRow,     \* the row of the modifiers
  NO_KEY,     \* in key: the keyboard has no such character; in mod: it needs none
  MaxTyped    \* bound on the characters of a behaviour

VARIABLES
  current_row,
  shift_step,
  selected,     \* the row was selected and its columns not yet read
  round,        \* the keys and the modifiers pressed in this round of the rows
  typed,        \* the characters that have a key, as they came
  seen          \* the keys the program saw, each with the modifiers of its round

keyVars == <<current_row, shift_step, selected, round, typed, seen>>

NothingPressed == [keys |-> <<>>, mods |-> {}]

KeyInit ==
  /\ current_row = 0 /\ shift_step = 0
  /\ selected = TRUE
  /\ round = NothingPressed /\ typed = <<>> /\ seen = <<>>

Supported(c) == Matrix[c].key # NO_KEY

\* No key with a modifier is in the row of the modifiers.
ASSUME KeyAssumption ==
  /\ Keyboard \in Uarts
  /\ LastRow \in Nat /\ ModRow \in 0 .. LastRow
  /\ \A c \in Typable : Supported(c) /\ Matrix[c].mod # NO_KEY =>
       Matrix[c].row \in 0 .. LastRow /\ Matrix[c].row # ModRow

Type(c) ==
  /\ Len(typed) < MaxTyped
  /\ Arrive(Keyboard, c)
  /\ typed' = IF Supported(c) THEN Append(typed, c) ELSE typed
  /\ UNCHANGED <<current_row, shift_step, selected, round, seen>>

\* The columns that msx_scanrow reports.
Press(key) == round' = [round EXCEPT !.keys = Append(@, key)]
PressMod(mod) == round' = [round EXCEPT !.mods = @ \cup {mod}]

\* A character with a modifier: what is reported, and how shift_step goes on.
ShiftedOnce(c) ==        \* mistake for KeysAreSeen
  \/ /\ shift_step = 0 /\ current_row = ModRow
     /\ PressMod(Matrix[c].mod) /\ shift_step' = 1
     /\ UNCHANGED rxq
  \/ /\ shift_step > 0 /\ current_row = Matrix[c].row
     /\ Press(Matrix[c].key) /\ shift_step' = 0
     /\ uart_getc(Keyboard)
Shifted(c) ==
  \/ /\ shift_step = 0 /\ current_row = ModRow
     /\ PressMod(Matrix[c].mod) /\ shift_step' = 1
     /\ UNCHANGED rxq
  \/ /\ shift_step = 1 /\ current_row = Matrix[c].row
     /\ Press(Matrix[c].key) /\ shift_step' = 2
     /\ UNCHANGED rxq
  \/ /\ shift_step = 2 /\ current_row = ModRow
     /\ PressMod(Matrix[c].mod) /\ shift_step' = 0
     /\ uart_getc(Keyboard)

Plain(c) ==
  /\ current_row = Matrix[c].row
  /\ Press(Matrix[c].key)
  /\ uart_getc(Keyboard)
  /\ UNCHANGED shift_step

KeptUnsupported(c) ==     \* mistake for KeysArrive
  UNCHANGED <<rxq, shift_step, round>>
Unsupported(c) == uart_getc(Keyboard) /\ UNCHANGED <<shift_step, round>>

NotThisRow(c) ==
  IF Matrix[c].mod = NO_KEY THEN current_row # Matrix[c].row
  ELSE current_row # (IF shift_step = 1 THEN Matrix[c].row ELSE ModRow)

msx_scanrow ==
  /\ selected /\ selected' = FALSE
  /\ \/ /\ uart_testrx(Keyboard) = 0
        /\ UNCHANGED <<rxq, shift_step, round>>
     \/ /\ uart_testrx(Keyboard) > 0
        /\ LET c == uart_peek(Keyboard) IN
             \/ ~Supported(c) /\ Unsupported(c)
             \/ Supported(c) /\ Matrix[c].mod = NO_KEY /\ Plain(c)
             \/ Supported(c) /\ Matrix[c].mod # NO_KEY /\ Shifted(c)
             \/ /\ Supported(c) /\ NotThisRow(c)
                /\ UNCHANGED <<rxq, shift_step, round>>
  /\ UNCHANGED <<txq, current_row, typed, seen>>

\* The program selects the rows in turn.
msx_setrow ==
  /\ ~selected /\ selected' = TRUE
  /\ IF current_row = LastRow
     THEN /\ current_row' = 0
          /\ seen' = seen \o [i \in DOMAIN round.keys |->
                                [key |-> round.keys[i], mods |-> round.mods]]
          /\ round' = NothingPressed
     ELSE /\ current_row' = current_row + 1
          /\ UNCHANGED <<seen, round>>
  /\ UNCHANGED <<lines, shift_step, typed>>

KeyNext == msx_scanrow \/ msx_setrow \/ \E c \in Typable : Type(c)

----------------------------------------------------------------------------
ModsOf(c) == {Matrix[c].mod} \ {NO_KEY}
\* Those that one round can take with the i-th, a row each: before that of the
\* modifiers comes no more than ModRow of them.
Neighbours(i) ==
  {typed[j] : j \in ((i - (LastRow - ModRow)) .. (i + ModRow)) \cap DOMAIN typed}

\* A program that scans the rows in order sees the characters that have keys in
\* the order they were typed, each once, in a round in which its modifier is
\* pressed as well, whether its row comes before that of the modifiers or after
\* it, and however the characters come in between its reads; another modifier is
\* seen with it only if a character that the same round can reach needs that one
\* (msx_scanrow takes a character three reads after it looked at it).
KeysAreSeen ==
  /\ Len(seen) <= Len(typed)
  /\ \A i \in DOMAIN seen :
       /\ seen[i].key = Matrix[typed[i]].key
       /\ ModsOf(typed[i]) \subseteq seen[i].mods
       /\ seen[i].mods \subseteq UNION {ModsOf(c) : c \in Neighbours(i)}

\* As long as the program goes on scanning every key typed is seen: none holds up
\* those behind it, a character without a key included (msx_scanrow).
KeysArrive ==
  \A n \in 1 .. MaxTyped : Len(typed) = n ~> Len(seen) >= n
=============================================================================
