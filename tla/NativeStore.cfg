CONSTANTS
  h1 = h1
  h2 = h2
  k1 = k1
  r1 = r1
  None = None
  Hashes = {h1, h2}
  Deps <- MCDeps
  Keys = {k1}
  Readers = {r1}
  Capacity = 5
SPECIFICATION Spec
INVARIANT TypeOK
INVARIANT SavedRecoverable
INVARIANT CheckpointsVerify
PROPERTY AdoptedImmutable
PROPERTY ReaderHistoryGrows
PROPERTY ImplementsLog
