SPECIFICATION Spec
CONSTANT Codes <- MCCodes
PROPERTY ZeroAfterSignal
CHECK_DEADLOCK FALSE
