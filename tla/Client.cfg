SPECIFICATION Spec
CONSTANTS
  Names = {"type", "data", "resume", "random"}
  Types = {"resume", "random"}
  Lines <- MCLines
  Cuts = {4, 5, 12}
  Media = {"pipe", "file"}
  BufSize = 27
  Codes = {0, 1, 99}
  MaxLines = 2
  MaxChildren = 2
  Keys = {"data"}
  NumberSize = 8
  MaxWord <- MCMaxWord
  ShortWord = 1
INVARIANTS EventsInOrder LostExplained OnlyResetRestarts AcceptsTexts EscapeInverts OrderKept
PROPERTIES PipeEmptied
CHECK_DEADLOCK FALSE
