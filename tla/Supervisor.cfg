SPECIFICATION MCSpec
CONSTANTS
  SomeArguments <- ShortCommands
  SomeDurations <- Boundaries
  SIGNALS_TO_FORWARD = {1, 2, 3, 15}
  Blocked = {15}
  Codes = {0, 1, 7}
  MaxSignals = 3
  Faults = {"sigchld", "stderr"}
INVARIANTS TypeOK StoredIsForwardedInOrder OnlyTheCommandIsSignalled StatusIsReturned CommandReadsBack LongerLooksLonger
PROPERTIES StoredIsForwardedEventually ImplementsPassthrough EndsEventually
