SPECIFICATION DeckSpec
CONSTANTS
  MaxEdits = 2
CHECK_DEADLOCK FALSE
INVARIANTS DeckWhole PagesRight ClaimsRetired ClosingLast
