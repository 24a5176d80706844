CONSTANTS
  w1 = w1
  w2 = w2
  h = h
  Sweeper = Sweeper
  None = None
  Threads <- MCThreads
  IoThreads <- MCIoThreads
  HostThreads <- MCHostThreads
  SaveThreads = {w2}
  SysThreads = {w2}
  NestThreads = {h}
  Spurious = {Sweeper, h}
  MaxDepth = 2
  MaxWork = 1
SPECIFICATION FairSpec
INVARIANTS
  TypeOK
  MarkExcludesMutators CollectorFindsLocksFree
PROPERTIES
  QueueRefilledOnlyWhenSwept
  ImplementsGate
  GateReopens
  EffectsFinish
