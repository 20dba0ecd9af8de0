SPECIFICATION Spec
CONSTANTS
  NoBound = NoBound
  Nothing = Nothing
  Absent = Absent
  Unset = Unset
  Primitive = Primitive
  Unused = Unused
INVARIANT ParsesAsDocumented
INVARIANT Meant
INVARIANT UnitsAreLastGiven
INVARIANT BoundsAreKept
INVARIANT FormulaIsWhole
INVARIANT LoadsWhatCounts
INVARIANT DatabaseMatches
INVARIANT DefinitionsEnd
INVARIANT CompleteUpdateConverts
PROPERTY FetchedRatesCount
