SPECIFICATION Spec
CONSTANTS
  Unused = Unused
  NotANumber = NotANumber
INVARIANT TypeOK
INVARIANT SmallFractionsAreFound
INVARIANT RaisedExactly
INVARIANT AcceptedIsDefined
INVARIANT InversesAcceptValues
INVARIANT AnswersAreOnTheLine
INVARIANT NothingIsMissed
INVARIANT NotANumberOnlyAtTheStart
INVARIANT OwnershipHolds
INVARIANT NothingLeaks
