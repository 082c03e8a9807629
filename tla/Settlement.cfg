CONSTANTS
  t1 = t1 t2 = t2 t3 = t3 w1 = w1 w2 = w2 s1 = s1 s2 = s2
  None = None
  Transfers = {t1, t2}
  Wallets = {w1}
  Hot = {w1}
  Primary = {w1}
  Sessions = {s1, s2}
  Workers = {s1, s2}
  Amount <- Amount2
  Totals = {3}
  QueueLimit = 2
  SyncLimit = 2
  SendBound = 1
  Stimuli = {"overlap", "address", "wf_reject", "redeliver", "signing", "complete", "duplicate", "tx_fails"}
SPECIFICATION Spec
SYMMETRY SessionSymmetry
INVARIANTS NonNegative Solvent
CHECK_DEADLOCK FALSE
