------------------------------ MODULE MCConsole ------------------------------
\* Two virtual ports on two UARTS; one file.  Keys with and without a modifier on
\* either side of the modifiers' row, two rows of them before it, and a character
\* the keyboard does not have.
EXTENDS Console

Key(key, row, mod) == [key |-> key, row |-> row, mod |-> mod]
MCOwn == <<"uart0", "uart1">>
MCTypable == {"a", "b", "A", "tab", "space", "^B", "bad"}
MCMatrix == [c \in MCTypable |->
  CASE c = "a" -> Key("A", 0, "none")
    [] c = "b" -> Key("B", 1, "none")
    [] c = "A" -> Key("A", 0, "shift")
    [] c = "^B" -> Key("C", 1, "ctrl")
    [] c = "tab" -> Key("TAB", 3, "none")
    [] c = "space" -> Key("SPACE", 3, "shift")
    [] c = "bad" -> Key("none", 0, "none")]
=============================================================================
