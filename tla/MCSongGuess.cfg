SPECIFICATION Spec
CONSTANTS
  Seats = {0, 1, 2, 3}
  Blocks <- MCBlocks
  Language <- MCLanguage
INVARIANTS WellFormed HistoryIsExact AnswerStaysSecret LegalAgreesWithApply WayOut
CHECK_DEADLOCK FALSE
