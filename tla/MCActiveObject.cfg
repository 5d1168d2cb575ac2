\* Two calling threads and three tasks: one can be executed, one queued and
\* one being pushed at the same time; start/stop may repeat without bound.
\* No symmetry, because of the temporal properties.
CONSTANTS
  Callers = {c1, c2}
  Tasks = {t1, t2, t3}
  NoTask = NoTask
SPECIFICATION Spec
INVARIANTS
  TypeOK
  FifoExactlyOnce
  NoLostWakeup
  StopDrains
  NeverOverwritesThread
PROPERTIES
  EveryTaskRuns
  StopReturns
