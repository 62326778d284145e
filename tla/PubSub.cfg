SPECIFICATION FairSpec
CONSTANTS
  Publishers = {p1, p2}
  Controllers = {c1, c2}
  Handlers = {h1}
  Pub = Pub
  Sub = Sub
  Names = {Pub, Sub}
  T1 = T1
  T2 = T2
  Topics <- FirstTopic
  TopicOf <- OneOfEach
  None = None
  MaxMessages = 2
  MaxStarts = 2
  MaxErrors = 1
INVARIANTS CountsMatchTraffic StoppedMeansQuiet TerminatesOnlyAfterOverlap
PROPERTIES RefinesStream StopWaitsOnlyForMessages
CHECK_DEADLOCK FALSE
