CONSTANTS
  Words <- Letters
  Client <- Users
  Typed <- TypedLines
  Queries <- QueryLines
  LineMax = 5
  ShowMax = 2
  AutoMessage <- AutoTexts
  Foe <- FoeText
  Foes <- FoeLists
  DST = TRUE
  None = None
  MaxInFlight = 2
SPECIFICATION Spec
INVARIANTS TypeOK TextKept RightPerson LinesApart Survives
PROPERTIES ConversationEnds
