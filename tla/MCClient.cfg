SPECIFICATION FairSpec
CONSTANTS
  kMaxRetryCount = 1
  TwoTo64 = 1024
  MaxSeq = 2
  MaxStarts = 2
  MaxIdleClock = 2
  MsgId = {m}
INVARIANTS SendBound AckedIsSettled ConfirmedWasTaken
PROPERTIES GivenUpInTime RequestSettles StopClientEnds
CHECK_DEADLOCK FALSE
