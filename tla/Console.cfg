SPECIFICATION Spec
CONSTANTS
  Uarts = {"uart0", "uart1"}
  Room = 2
  Virtual = {1, 2}
  Own <- MCOwn
  Names = {"f"}
  Chars = {1}
  MaxSize = 1
  Keyboard = "uart0"
  Typable <- MCTypable
  Matrix <- MCMatrix
  LastRow = 3
  ModRow = 2
  NO_KEY = "none"
  MaxTyped = 3
INVARIANTS
  StatusIsHonest
  OutputIsKept
  KeysAreSeen
PROPERTIES
  KeysArrive
