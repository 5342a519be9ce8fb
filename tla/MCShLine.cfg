SPECIFICATION Spec
CONSTANTS
  Letters <- MCLetters
  DigitValue <- MCDigitValue
  NameSize = 3
  AliasDepth = 2
  Lines <- MCLines
  Commands <- MCCommands
  Envs <- MCEnvs
  Dirs = {"d1", "d2"}
  Home = "d1"
  Statuses = {0}
INVARIANTS ParserExact QuotingExact AliasesReadBack ExpansionSound
CHECK_DEADLOCK FALSE
