SPECIFICATION FairSpec
CONSTANTS
  Chain <- MCChain  MaxAttempts = 3
CHECK_DEADLOCK FALSE
INVARIANTS BooksAgree
PROPERTIES PaidAnswerUsed GivenUpStops CallEnds
