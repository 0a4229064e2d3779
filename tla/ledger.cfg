CONSTANTS
  Callers = {c1}
  MaxRetries = 3
  MaxLedger = 2
SPECIFICATION FairSpec
INVARIANTS TypeOK AnswersAreFresh OutcomeIsTrue
PROPERTIES CallsEnd
CHECK_DEADLOCK FALSE
