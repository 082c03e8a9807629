CONSTANTS
  t1 = t1 t2 = t2 t3 = t3 w1 = w1 w2 = w2 s1 = s1 s2 = s2
  None = None
  Transfers = {t1, t2}
  Wallets = {w1}
  Hot = {w1}
  Primary = {w1}
  Sessions = {s1, s2}
  Workers = {s1}
  Amount <- Amount2
  Totals = {0, 1, 2}
  QueueLimit = 1
  SyncLimit = 2
  SendBound = 1
  Stimuli = {"external_id", "queue", "sync", "wf_approve", "wf_reject", "refuse", "tx_fails"}
SPECIFICATION ServedSpec
PROPERTIES QueueDrains PayoutEnds
CHECK_DEADLOCK FALSE
