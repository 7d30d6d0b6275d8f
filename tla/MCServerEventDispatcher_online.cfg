SPECIFICATION FairSpec
CONSTANTS
  snd = snd
  r1 = r1
  r2 = r2
  w1 = w1
  w2 = w2
  Worker = {w1, w2}
  Conn = {snd, r1, r2}
  Uid = {1, 2}
  Shard <- MCShard
  UserOf <- MCUserOf
  Sender = {snd}
  Receiver = {2}
  ClientMsgId = {a}
  kAckTimeoutMs = 1
  kMaxDeliveryRetryCount = 1
  kLoginRecentMessageLimit = 1
  MaxClock = 9
  MaxRequests = 1
  MaxFaults = 0
  Leaving = {r1}
PROPERTIES PendingReachesOnlineUser
