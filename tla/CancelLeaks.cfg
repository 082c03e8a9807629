CONSTANTS
  t1 = t1 t2 = t2 t3 = t3 w1 = w1 w2 = w2 s1 = s1 s2 = s2
  None = None
  Transfers = {t1, t2}
  Wallets = {w1}
  Hot = {w1}
  Primary = {w1}
  Sessions = {s1}
  Workers = {s1}
  Amount <- Amount2
  Totals = {3}
  QueueLimit = 2
  SyncLimit = 2
  SendBound = 2
  Stimuli = {"cancel"}
SPECIFICATION Spec
INVARIANTS NothingLeaks
CHECK_DEADLOCK FALSE
