CONSTANTS
  Budgets <- TightAndAmple
  MaxWrites = 2
  MaxLine = 3
  Wide <- Texts
  Raw <- Bytes
  Faults = {"disk", "read", "ps"}
  Kinds = {"fake", "codex", "claude", "cursor", "antigravity"}
  Vocabulary <- Words
  Partial <- Pieces
SPECIFICATION FairSpec
INVARIANTS
  TypeOK
  TranscriptIsBoundedPrefix
  NothingDroppedUnnamed
  SuccessIsWitnessed
  DeniedToolNeverSucceeds
  ResumeAgrees
  ToolCallsPair
  StrangerSpared
PROPERTIES
  DropIsNamed
  FirstCauseWins
  OutcomeArrives
  ImplementsContract
CHECK_DEADLOCK FALSE
