\* One job whose MST is empty, as metrics_mst on a graph of one vertex.
CONSTANTS
  NumStages = 5
  Handlers = {h1}
  Jobs = {j1}
  EmptyMstJobs = {j1}
  NoJob = NoJob
SPECIFICATION Spec
PROPERTIES
  EveryJobAnswered
CHECK_DEADLOCK FALSE
