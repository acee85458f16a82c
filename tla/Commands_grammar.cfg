SPECIFICATION CommandSpec
CONSTANTS
  Lines <- MCLines
  MaxTokens = 16
  MaxBytes = 8
INVARIANTS DoesTheLongestSentence 
CHECK_DEADLOCK FALSE
