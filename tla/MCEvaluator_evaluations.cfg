SPECIFICATION FairSpec
CONSTANTS
  None = None
  Base = {"m", "radian"}
  Half = 8
  Factor <- Field
  One = 1
  Zero = 0
  Times <- FieldTimes
  Over <- FieldOver
  Plus <- FieldPlus
  ToThe <- FieldToThe
  RootOf <- FieldRootOf
  Negative <- FieldNegative
  Negated <- FieldNegated
  Names <- SomeNames
  Tree <- SomeTrees
  Height <- SomeHeights
  Databases <- SomeDatabases
  Requests <- SomeRequests
  MaxDepth = 4
  StackLimit = 105
  Singulars <- SomeSingulars
  Splits <- SomeSplits
  RootFunction <- SomeRoots
  Keeping = {"abs"}
  AngleIn = {"sin"}
  AngleOut = {"asin"}
  Scalar = {"exp"}
  Accepts <- SomeAccept
  Computed <- SomeCompute
  Kinds = {"full", "looping", "tall", "capturing"}
INVARIANT TypeOK
INVARIANT StateFollowsCalls
INVARIANT AnswersAsScoped
PROPERTY Ends
