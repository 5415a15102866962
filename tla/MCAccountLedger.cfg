\* Two accounts, seven requests with shared keys, two sessions, skewed clocks, crashes.
SPECIFICATION FairSpec
CONSTANTS
  a1 = a1
  a2 = a2
  c1 = c1
  c2 = c2
  k1 = k1
  k2 = k2
  Nobody = Nobody
  Accounts = {a1, a2}
  Requests <- MixedRequests
  Clients = {c1, c2}
  OpeningCash = 3
  Clock = {0, 3}
  MaxCalls = 4
INVARIANTS NoOverdraft LedgerChain OncePerKey CashIsLedgerSum
PROPERTIES IsSerial CallsEnd
CHECK_DEADLOCK FALSE
