SPECIFICATION Spec
CONSTANTS
  None = None
  Absent = Absent
  Torn = Torn
  Responses <- ScanResponses
  Renewers = {r1}
  MaxEvents = 2
  Faults = {}
  Admin = FALSE
INVARIANTS DomainServed
CHECK_DEADLOCK FALSE
