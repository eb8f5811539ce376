\* Files of up to four bytes, buffers of up to three.
SPECIFICATION Spec
CONSTANTS
  Byte = {"x", "newline"}
  NewLine = "newline"
  MaxLen = 3
  MaxInput = 4
  MaxOutput = 3
INVARIANTS TypeOK InOrder ResultCorrect
PROPERTIES Returns
