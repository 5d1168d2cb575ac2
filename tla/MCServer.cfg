\* Two clients on two descriptors: they are served together or one after the
\* other under the same descriptor; one may ask for metrics; one signal.  No
\* symmetry, because of the temporal properties.
CONSTANTS
  Clients = {c1, c2}
  MetricsClients = {c1}
  NoClient = NoClient
  MaxFds = 2
  SignalAt <- QuietLabels
  MaxSignals = 1
SPECIFICATION Spec
INVARIANTS
  TypeOK
  OwnDescriptor
  PipelineOutlivesHandlers
  NoDescriptorLeak
  DestroyedStopped
  ForgottenOnlyByReuse
PROPERTIES
  SignalEndsProcess
  HangUpReleases
