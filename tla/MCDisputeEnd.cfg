\* One request, which comes to the process that does not lead.
CONSTANTS
  r1 = r1
  r2 = r2
  p1 = p1
  p2 = p2
  Requests = {r2}
  NoRequest = NoRequest
  Procs = {p1, p2}
  Leader = p1
  At <- TwoProcs
  Remedies = {0, 1}
  Whole = 1
  MaxFailures = 0
SPECIFICATION Spec
PROPERTIES TerminalIsFinal
CHECK_DEADLOCK FALSE
