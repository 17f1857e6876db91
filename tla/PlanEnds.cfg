SPECIFICATION FairSpec
CONSTANTS
  a = a
  b = b
  r = r
  brief = brief
  note = note
  report = report
  Roles <- MCRoles
  LeadRole <- MCLead
  Keys = {a, b, r}
  Contract = {brief, note, report}
  Planner = Planner
  None = None
  Offers <- AllShapes
  Submissions = {"waiting", "completed"}
  Reports = {"completed", "failed"}
  Deliveries = {"valid", "badfile", "blocked", "invalid"}
  Verdicts = {"accepted", "needs_revision", "invalid"}
  Cancellable = FALSE
  Overlapping = FALSE
  MaxCalls = 4
  MaxInputs = 1
  MaxCrashes = 0
INVARIANTS AcceptedTogether SiblingsKept
PROPERTIES StepsInOrder StartedPlanEnds
CHECK_DEADLOCK FALSE
