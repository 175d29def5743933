SPECIFICATION InitialsSpec
CONSTANTS
  Letters = {"A", "B", "U"}
  Other = Other
  Blank = Blank
  MaxWords = 4
INVARIANTS
  InitialsOfWordsSeen
CHECK_DEADLOCK FALSE
