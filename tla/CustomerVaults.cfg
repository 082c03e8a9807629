CONSTANTS
  r1 = r1 r2 = r2 r3 = r3 short = short long = long None = None
  Requests = {r1, r2, r3}
  Names = {short, long}
  Alike <- Alike1
  MaxMishaps = 1
SPECIFICATION Spec
INVARIANTS AnsweredIsStored
CHECK_DEADLOCK FALSE
