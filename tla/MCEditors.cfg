SPECIFICATION Spec
CONSTANTS
  Programs = {"edit", "sh"}
INVARIANTS
  EditorSound
  ShEditSound
PROPERTY EditorsRespond
CHECK_DEADLOCK FALSE
