\* One payment of one link, two workers that close the checkout of the link
\* once it is cancelled, and any two faults.
SPECIFICATION FairSpec
CONSTANTS
  l1 = l1
  p1 = p1
  Links = {l1}
  Workers = {w1, w2}
  Payments = {p1}
  LinkOf <- OneLink
  Amount <- WholeOrHalf
  Requested <- TwoUnits
  Total = 2
  CashSteps = {1}
  Reports <- Plain
  MaxJobs = 1
  MaxFaults = 2
  NoLink = NoLink
INVARIANTS
  SucceededMeansClosed
PROPERTIES
  RevocationVerdictStands
  RevocationsEnd
  
CHECK_DEADLOCK FALSE
