SPECIFICATION Spec
CONSTANTS
  PageSize = 2
  Pages = 4
  Banks = 2
  BufSize = 4
  Junk = Junk
  Beyond = Beyond
  None = None
  Mailboxes = {"fatfs", "bdos"}
  Bytes <- MCBytes
  MaxLen = 9
INVARIANT AccessesAreExact
PROPERTY CommandsAsTold
CHECK_DEADLOCK FALSE
