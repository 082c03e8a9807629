CONSTANTS
  request = request task = task Loop = Loop None = None
  Sessions = {request, task}
  Locals = {task}
  Lease = 3
  Soon = 2
  Period = 3
  Near = 2
  MaxTries = 3
  Oldest = 2
  MaxMishaps = 1
SPECIFICATION FairSpec
INVARIANTS TokenKept RotationRefusesNobody
PROPERTIES EngineCatchesUp
CHECK_DEADLOCK FALSE
