\* A signal in a section of the main thread under coutMutex.  The process then
\* stops without ending.
CONSTANTS
  Clients = {c1}
  MetricsClients = {}
  NoClient = NoClient
  MaxFds = 2
  SignalAt <- PrintLabels
  MaxSignals = 1
SPECIFICATION Spec
PROPERTIES
  SignalEndsProcess
CHECK_DEADLOCK FALSE
