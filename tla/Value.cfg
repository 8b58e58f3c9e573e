SPECIFICATION Spec
CONSTANTS
  Values = {x, y, z}
  Addr = {1, 2, 3, 4}
  Ptrs = {0, 7}
  Ints <- TheInts
  Texts <- TheTexts
  Empty = ""
  Blank = {""}
  Number <- TheNumber
  Numeral <- TheNumeral
  Before <- TheOrder
INVARIANTS TypeOK OneOwner Ordered AssignedIsEqual
PROPERTY OthersKept
