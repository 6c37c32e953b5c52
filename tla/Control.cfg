SPECIFICATION Spec
CONSTANTS
  MAX_MESSAGE_BYTES = 16
  c1 = c1
  c2 = c2
  Clients = {c1, c2}
  Arguments <- MCArguments
  Strays <- MCStrays
  Texts <- MCTexts
  Buffer = 1
INVARIANTS HandledAsSent Told FileReadsBack ExitAnswered
PROPERTY EverybodyServed
CHECK_DEADLOCK FALSE
