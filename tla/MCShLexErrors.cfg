SPECIFICATION Spec
CONSTANTS
  Letters <- MCLetters
  DigitValue <- MCDigitValue
  NameSize = 3
  AliasDepth = 2
  Lines <- MCLines
  Commands <- MCReferences
  Envs <- MCEnvs
  Dirs = {"d1", "d2"}
  Home = "d1"
  Statuses = {0}
INVARIANTS ErrorsAreReal
CHECK_DEADLOCK FALSE
