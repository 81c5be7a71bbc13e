CONSTANTS
  Null = Null
  Numeral <- MCNumeral
  Feeds <- MCFeeds
  BaseDocs <- MCBaseDocs
  BaseRows <- MCBaseRows
  CardEdit <- MCCardEdit
  CellEdit <- MCCellEdit
  NewCards <- MCNewCards
  Edited = {"A"}
  Checkpoint = {"GLOB-01"}
  MaxEdits = 3
SPECIFICATION WOSpec
INVARIANTS
  WOTypeOK
  NoChangeLost
  RunAsRead
  FixtureFits
  NoIdleWork
CHECK_DEADLOCK FALSE
