SPECIFICATION Spec
CONSTANTS
  Images <- MCImages
  Calls <- MCCalls
  Specials = 2
  PromptTokens <- MCPromptTokens
  Scores = {1, 2}
  MaxRedirects = 1
INVARIANTS
  TypeOK
  NoDecodeOnTextModel
  EachRowAsAsked
  RefusedNotShortened
  TaskSurvives
  RankedAsSent
