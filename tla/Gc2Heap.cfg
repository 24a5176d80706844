CONSTANTS
  t1 = t1
  t2 = t2
  A = A
  B = B
  a1 = a1
  a2 = a2
  b1 = b1
  h1 = h1
  None = None
  Threads <- MCThreads
  MaxWork = 2
  Spans <- MCSpans
  Slots <- MCSlots
  SpanOf <- MCSpanOf
  Hashes = {h1}
  MaxSerial = 3
  MaxRefs = 1
SYMMETRY MCSymmetry
SPECIFICATION HSpec
INVARIANTS
  HTypeOK
  NoDanglingReference
  OneRepresentative
  QueuedSpansUntouched
  AllocationListsExact
