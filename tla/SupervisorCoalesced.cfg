SPECIFICATION MCSpec
CONSTANTS
  SomeArguments <- ShortCommands
  SomeDurations <- Boundaries
  SIGNALS_TO_FORWARD = {2, 15}
  Blocked = {}
  Codes = {0, 1, 7}
  MaxSignals = 3
  Faults = {}
PROPERTIES EverySignalIsForwarded
