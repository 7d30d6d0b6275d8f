SPECIFICATION Spec
CONSTANTS
  Uid <- MCUid
  Password <- MCPassword
  StringOf <- MCStringOf
  tokenTtlMs = 0
  MESSAGE_PAGE_SIZE = 1
  MsgId <- MCMsgId
  From <- MCFrom
  To <- MCTo
  ClientMsgId <- MCClientMsgId
  Opens <- MCOpens
  MaxLogins = 2
  MaxPushes = 2
  MaxQueue = 1
  MaxFaults = 1
INVARIANTS ViewIsCurrent ShownOnce PageFollowsSession AckLabelIsTrue
CHECK_DEADLOCK FALSE
