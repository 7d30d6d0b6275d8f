SPECIFICATION FairSpec
CONSTANTS
  short = short
  long = long
  big = big
  Base = 2
  kHeaderLength = 2
  max_frame_length = 2
  Envelope = {short, long, big}
  SerializeToString <- MCSerializeToString
  Stray <- MCStray
  Thread = {t1, t2}
  MaxFrames = 3
  MaxNext = 5
INVARIANTS DecodeIsRight BufferBounded
PROPERTIES ImplementsChannel SentIsHandled
CHECK_DEADLOCK FALSE
