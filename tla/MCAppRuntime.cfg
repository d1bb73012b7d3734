SPECIFICATION FairSpec
CONSTANTS
  h = h
  t1 = t1
  t2 = t2
  Health = {h}
  Tunnels = {t1, t2}
  ShutdownTimeout = 10
INVARIANTS TypeOK ExitZeroMeansClean NoRunnerAbandoned
PROPERTIES  SignalEndsProcess
