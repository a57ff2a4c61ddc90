\* Two payments of one link with all that may become of them; nobody closes
\* checkouts at the provider.
SPECIFICATION Spec
CONSTANTS
  l1 = l1
  p1 = p1
  Links = {l1}
  Workers = {}
  Payments = {p1, p2}
  LinkOf <- OneLink
  Amount <- WholeOrHalf
  Requested <- TwoUnits
  Total = 2
  CashSteps = {1}
  Reports <- Eventful
  MaxJobs = 2
  MaxFaults = 1
  NoLink = NoLink
INVARIANTS
  TypeOK
  LedgerFollowsPayments
  NeverOverpaid
  LinkCollectsItsPayments
PROPERTIES
  PaymentsKeepTheirStanding
  LateMoneyReopensNothing
CHECK_DEADLOCK FALSE
