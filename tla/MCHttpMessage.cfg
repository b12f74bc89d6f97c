CONSTANTS
  BlockSize = 5
  Scripts <- SomeScripts
SPECIFICATION FairSpec
INVARIANTS HeadsExact AnswersComplete
PROPERTIES ConnectionEnds
CHECK_DEADLOCK FALSE
