SPECIFICATION ListenerSpec
CONSTANTS
  Clients = {a}
  Domains <- TwoDomains
  MaxRows = 4
  Earlier = 1
  DomainOf <- Alternating
  BatchSize = 3
  HistorySize = 3
  QueueSize = 3
  RecoverySize = 3
  MaxSignals = 3
  Interleaved = FALSE
INVARIANT NothingMissed
