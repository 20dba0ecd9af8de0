SPECIFICATION FairSpec
CONSTANTS
  Thread = {"evaluates", "reloads", "both"}
  Key = {"a", "b"}
  Nobody = Nobody
  Files <- SomeFiles
  Embedded = "definitions"
  Calls <- SomeCalls
  MaxCalls = 2
INVARIANT GlobalsAreGuarded
INVARIANT EvaluationsAreOneState
INVARIANT ReloadsTakeEffect
PROPERTY CallsReturn
