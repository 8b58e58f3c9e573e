CONSTANTS
  Always = {"location"}
  Optional = {"away_message"}
  Flags = {"showstatusonlist"}
  Names = {"bob", "bo", ""}
  Texts = {"ns", " ns", "(null)", ""}
  NULL = "NULL"
  NullText = "(null)"
  Handmade <- Files
  Empty = ""
  Shorter <- Left
  Order <- Keys
  Odd <- Strange
  Seen <- Takes
  Tidied <- Makes
  Trim <- Trims
  TypedNames = {"bob", "bo", ""}
  TypedTexts = {"ns"}
  MaxList = 2
  MaxUnsaved = 2
SPECIFICATION Spec
INVARIANTS TypeOK RoundTrip CutIsLess SavedIsReadable RewriteKeeps
