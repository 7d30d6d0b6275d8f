SPECIFICATION FairSpec
CONSTANTS
  s1 = s1
  s2 = s2
  Session = {s1, s2}
  Uid = {1}
  UidOf <- MCUidOf
  ClientMsgId = {a}
  MsgId = {m}
  PushTo = {s1}
  MaxPushes = 1
  BadFrames = TRUE
CHECK_DEADLOCK FALSE
INVARIANTS SessionTablesAgree ClosedSessionForgotten AckedWasSeen
PROPERTIES OldCloseKeepsNew SendIsAnswered
