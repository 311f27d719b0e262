SPECIFICATION Spec
CONSTANTS
  Rows <- OneRow
  Modifiers = {"shift"}
  MaxKeys = 2
  PollRounds = 1
  Mods = {0, 2}
  Codes = {0, 1}
INVARIANTS
  KeyboardIsNoMouse
