CONSTANTS
  N = 2
  Files <- Site
  Ext <- Names
  Encodings = {"gzip", "br"}
  InlineCapacity = 3
  HeadCap = 6
  Scripts <- SomeScripts
  Requests <- SomeRequests
  MaxReq = 1
SPECIFICATION FairSpec
INVARIANTS  AnswersHonest
PROPERTIES StopEnds
CHECK_DEADLOCK FALSE
