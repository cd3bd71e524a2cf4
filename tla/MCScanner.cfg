\* Every text of up to four characters: a comment, the end of its line, another slash.
CONSTANTS
  Chars = {"blank", "newline", "/", "digit", ".", "letter", "#", "=", "quote", "?"}
  MaxLen = 4
SPECIFICATION ScanSpec
CHECK_DEADLOCK FALSE
INVARIANTS
  ScanTypeOK
  SkipsBlanksOnly
PROPERTY ReachesEnd
