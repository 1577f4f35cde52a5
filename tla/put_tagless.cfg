SPECIFICATION Spec
CONSTANTS
  Workers = {"w1"}
  Names = {"cpu", "%s"}
  Percent = {"%s"}
  Lines <- AllLines
  Requests <- SomeRequests
  Times = {100000}
  MaxRows = 3
  Number <- NumberTexts
  Like <- Substrings
  Named <- SomeNamed
  Scalar <- SomeScalar
  Half = 1048576
  Pairs <- TagPairs
CHECK_DEADLOCK FALSE
INVARIANT RowsHaveTags
