\* A signal after start() has set running and before it has created the
\* accept thread.
CONSTANTS
  Clients = {c1}
  MetricsClients = {}
  NoClient = NoClient
  MaxFds = 2
  SignalAt <- HalfStarted
  MaxSignals = 1
SPECIFICATION SafetySpec
INVARIANTS
  DestroyedStopped
CHECK_DEADLOCK FALSE
