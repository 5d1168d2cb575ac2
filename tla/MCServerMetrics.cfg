\* A client hangs up before its metrics are ready; another one connects.
CONSTANTS
  Clients = {c1, c2}
  MetricsClients = {c1}
  NoClient = NoClient
  MaxFds = 2
  SignalAt <- QuietLabels
  MaxSignals = 1
SPECIFICATION SafetySpec
INVARIANTS
  MetricsReachTheirClient
CHECK_DEADLOCK FALSE
