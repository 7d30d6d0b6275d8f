SPECIFICATION Spec
CONSTANTS
  Uid <- MCUid
  ClientMsgId = {a, b}
  Time <- MCTime
  MaxMsgId = 2
  MaxRetryCount = 1
INVARIANTS TypeOK IndexMatchesStatus IdempotentCreate RecentIsComplete
PROPERTY LedgerOnlyGrows
