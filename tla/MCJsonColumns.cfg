SPECIFICATION JsonSpec
CONSTANTS
  Requests = {creation, approval}
  MaxApprovals = 2
INVARIANT ListsStayLists
CHECK_DEADLOCK FALSE
