SPECIFICATION Spec
CONSTANTS
  r1 = r1
  r2 = r2
  c1 = c1
  Thread = {r1, r2}
  WriterFirst = TRUE
  Name <- MCName
  FullName <- MCFullName
  Def <- MCDef
  Malformed <- MCMalformed
  Canon <- MCCanon
  Absent = Absent
  Embedded <- MCEmbedded
  Contents <- MCContents
  Refers <- MCRefers
  Reverse <- MCReverse
  Faulty <- MCFaulty
  Split <- MCSplit
  NoExpr = NoExpr
  NoContent = NoContent
  Calls <- CallsTwoReloads
  MaxCalls = 1
INVARIANT ListingMatchesDatabase
