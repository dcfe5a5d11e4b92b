\* One run by dk test: a pipeline that crashes passes its test.
SPECIFICATION Spec
CONSTANTS
  Runs = {p1}
  Ids = {i1}
  NoId = NoId
PROPERTIES
  TestPassedMeansNoFailure
CHECK_DEADLOCK FALSE
