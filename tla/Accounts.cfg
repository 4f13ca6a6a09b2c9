SPECIFICATION Spec
CONSTANTS
  None = None
  Emails = {"e"}
  Requests = {1, 2}
  FirstUsers <- MCFirstUsers
  MaxRequests = 5
  MaxFaults = 1
  LastTime = 2
  EMAIL_VERIFICATION_LIFETIME = 2
  PASSWORD_RESET_LIFETIME = 1
  RATE_WINDOW = 1
  RATE_LIMIT <- MCLimits
INVARIANTS TypeOK SpentOnce SuccessSweeps ResetSignsOut RegisteredOnce
PROPERTIES EveryRequestEnds
\* Attempts, tokens and time run out.
CHECK_DEADLOCK FALSE
