SPECIFICATION Spec
CONSTANTS
  a = a
  b = b
  r = r
  brief = brief
  note = note
  report = report
  Roles <- MCRoles
  LeadRole <- MCLead
  Keys = {a, b, r}
  Contract = {brief, note, report}
  Planner = Planner
  None = None
  Offers <- TwoShapes
  Submissions = {"waiting", "failed", "rejected"}
  Reports = {"completed", "failed"}
  Deliveries = {"valid", "invalid"}
  Verdicts = {"accepted", "needs_revision"}
  Cancellable = TRUE
  Overlapping = TRUE
  MaxCalls = 3
  MaxInputs = 2
  MaxCrashes = 1
INVARIANTS PlanTypeOK InputsFromAncestors ReleasedOnce
PROPERTY InputsFrozen
CHECK_DEADLOCK FALSE
