SPECIFICATION Spec
CONSTANTS
  Absent = Absent
  AllowlistValues <- MCAllowlistValues
  HeaderValues <- MCHeaderValues
  TokenScopes <- MCTokenScopes
INVARIANTS
  TypeOK
  LimitsHold
  ConfirmedAsDocumented
  ShownIsCallable
  HintIsTrue
  AnswersAreTrue
