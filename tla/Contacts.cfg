SPECIFICATION Spec
CONSTANTS
  Cell = {c1, c2, c3}
  NULL = NULL
  Names <- TheNames
  Messages = {NULL, blank, m}
  Blank = blank
  Texts <- TheTexts
  Lower <- Low
  States <- TheStates
  Commands <- TheCommands
SYMMETRY Cells
INVARIANTS TypeOK CursorsRest CellsListed BracesFit
PROPERTY RosterSpec
