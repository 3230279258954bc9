SPECIFICATION Spec
CONSTANTS
  Configs = {a, b}
  First = a
  Broken = Broken
  Size = 2
  Pulled <- SecondPulled
  Changing <- FirstChanging
  MaxEdits = 2
  MaxLosses = 1
  MaxLength = 6
INVARIANTS
  TypeOK
  ChangeLoaded
  OneGeneration
  SurvivesReload
  CommentsTrimmed
CHECK_DEADLOCK FALSE
