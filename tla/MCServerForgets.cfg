\* A client connects while the handler of another one is leaving.
CONSTANTS
  Clients = {c1, c2}
  MetricsClients = {}
  NoClient = NoClient
  MaxFds = 2
  SignalAt <- QuietLabels
  MaxSignals = 1
SPECIFICATION SafetySpec
INVARIANTS
  StopClosesEveryClient
CHECK_DEADLOCK FALSE
