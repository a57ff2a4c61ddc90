SPECIFICATION FairSpec
CONSTANTS
  Clients = {a, b}
  Domains <- TwoDomains
  MaxRows = 5
  Earlier = 1
  DomainOf <- Alternating
  BatchSize = 2
  HistorySize = 2
  QueueSize = 2
  RecoverySize = 1
  Interleaved = FALSE
INVARIANTS TypeOK 
 
