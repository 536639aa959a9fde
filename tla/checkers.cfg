\* Every checker on every pair of short files.
SPECIFICATION Spec
CONSTANTS
  MaxTokens = 3
  MaxCaseTokens = 6
  Inputs <- MCInputs
INVARIANTS
  TypeOK
  SequencesJudged
  StructuredJudged
  FailBlamesAnswer
\* A checker exits.
CHECK_DEADLOCK FALSE
