\* CHECK_DEADLOCK: a text is processed once.
SPECIFICATION Spec
CONSTANTS
  Text <- MCText
  Quoted <- MCQuoted
INVARIANTS TypeOK RoundTrip UnescapeCorrect
CHECK_DEADLOCK FALSE
