SPECIFICATION Spec
CONSTANTS
  r1 = r1
  r2 = r2
  c1 = c1
  Thread = {r1, c1}
  WriterFirst = FALSE
  Name <- MCName
  FullName <- MCFullName
  Def <- MCDef
  Malformed <- MCMalformed
  Canon <- MCCanon
  Absent = Absent
  Embedded <- MCEmbedded
  Contents <- MCContents
  Refers <- MCRefers
  Reverse <- MCReverse
  Faulty <- MCFaulty
  Split <- MCSplit
  NoExpr = NoExpr
  NoContent = NoContent
  Calls <- CallsConvert
  MaxCalls = 2
INVARIANTS
  AnswersAsIfAlone
  ListingMatchesDatabase
