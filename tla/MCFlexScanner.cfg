\* Four programs around the scanner; its buffer starts with two characters.
SPECIFICATION Spec
CONSTANTS
  Buf <- MCBuf
  File = {"f1", "f2"}
  Stdin = "f1"
  Tty = {"f2"}
  YY_BUF_SIZE = 2
  StackGrow = 1
  Char <- MCChar
  YY_READ_BUF_SIZE = 3
  Clients <- MCClients
  Sizes = {1}
  PushBack = {"1"}
  MaxOwed = 3
INVARIANTS TypeOK MemorySound TextIntact
PROPERTIES TokenIsNext CallReturns
