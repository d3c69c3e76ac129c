SPECIFICATION FairSpec
CONSTANTS
  Threads = {t1, t2}
  Checking = {t1}
  Clients = {c1}
  IdMod = 3
  Tries = 1
  Polls = 1
  MaxMsgs = 2
  MaxRequests = 4
INVARIANTS TypeOK OwnReply UnlockedByHolder
PROPERTIES RequestReturns ImplementsExchange
