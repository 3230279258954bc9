SPECIFICATION FairSpec
CONSTANTS
  None = None
  Absent = Absent
  Torn = Torn
  Responses <- MCResponses
  Renewers = {r1, r2}
  MaxEvents = 2
  Faults = {"acme", "write", "users"}
  Admin = TRUE
INVARIANTS TypeOK CertLoads RenewalFits PlanCoversOptions
PROPERTY CertRenewed
CHECK_DEADLOCK FALSE
