CONSTANTS
  t1 = t1 t2 = t2 t3 = t3 w1 = w1 w2 = w2 s1 = s1 s2 = s2
  None = None
  Transfers = {t1}
  Wallets = {w1}
  Hot = {w1}
  Primary = {w1}
  Sessions = {s1, s2}
  Workers = {s1, s2}
  Amount <- Amount1
  Totals = {0, 2}
  QueueLimit = 1
  SyncLimit = 1
  SendBound = 2
  Stimuli = {"backend", "overlap", "external_id", "direct", "address", "approve", "signing", "reject", "complete", "cancel", "sync", "wf_approve", "wf_reject", "lost_publish", "crash", "redeliver", "abort", "refuse", "lost_reply", "tx_fails", "duplicate"}
SPECIFICATION LapseSpec
SYMMETRY SessionSymmetry
CONSTRAINT Undecided
INVARIANTS TypeOK NonNegative PaidTwiceOnlyAfterLapse
PROPERTIES RefusedPaidOnlyAfterLapse
CHECK_DEADLOCK FALSE
