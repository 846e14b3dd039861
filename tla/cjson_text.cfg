\* Printing into small buffers, parsing what was printed, and other inputs.
SPECIFICATION Spec
CONSTANTS
  INT_MAX = 40
  DefaultSize = 4
  Prebuffer = {0, 1, 5, 9, 12}
  Leaf = {"null", "1"}
  Number = {"1"}
  Name = {"str"}
  Size <- Sizes
  MaxTokens = 7
  Limit = 2
  NumberCap = 2
  Input <- Inputs
  Body <- Bodies
  None = None
INVARIANTS TextOK WritesInside RefusedOnlyWhenFull BufferHasOneOwner ReadsInside FailureFreesAll
  AcceptsJson RoundTrip StringsAreRead MinifyKeepsStrings
CHECK_DEADLOCK FALSE
