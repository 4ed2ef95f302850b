SPECIFICATION FunctionsSpec
CONSTANTS
  Chars <- MCChars
  MaxChars = 6
  Bits <- EventsAndFlags
INVARIANTS
  FindsLastWord
  EscapingIsUndone
  SplitRejoins
  DumpIsSound
CHECK_DEADLOCK FALSE
