SPECIFICATION FairSpec
CONSTANT Codes <- MCCodes
INVARIANTS TypeOK NoChildLeft SuccessWasAsked
PROPERTIES CaddyComesSecond SuperviseEnds
CHECK_DEADLOCK FALSE
