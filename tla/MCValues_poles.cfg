SPECIFICATION Spec
CONSTANTS
  Unused = Unused
  NotANumber = NotANumber
INVARIANT PolesAreRefused
