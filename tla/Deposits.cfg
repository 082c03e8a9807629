CONSTANTS
  d1 = d1 m1 = m1 p1 = p1 p2 = p2 hot = hot cold = cold user = user s1 = s1 s2 = s2
  None = None
  Txs = {d1, m1}
  Kind <- Kinds1
  Amount <- Amount1
  Source <- Source1
  Dest <- Dest1
  Recognised = {d1, m1}
  Wallets = {hot, cold}
  Hot = {hot}
  Synced = {hot, cold}
  Start <- Start1
  Arrival <- Arrival1
  Need <- Need1
  Sessions = {s1, s2}
  Workers = {s1}
  QueueLimit = 2
  Copies <- Copies1
  Stimuli = {"api_move", "tx_fails", "abort", "lost_publish"}
SPECIFICATION FairSpec
INVARIANTS TypeOK ReservationsKept NoDepositUnknown
PROPERTIES GrantedOnCommitted Converges WaitingServed
CHECK_DEADLOCK FALSE
