CONSTANTS
  Traced = {p1, p2}
  Gremlins = {"eintr", "readone"}
  Campaigns <- Updated
SPECIFICATION CtSpec
CHECK_DEADLOCK FALSE
PROPERTY ConfigObeyed
