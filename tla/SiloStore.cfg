CONSTANTS
    p1 = p1
    p2 = p2
    None = None
    Procs = {p1, p2}
    Objects <- MCObjects
    Sub <- MCSub
    Size <- MCSize
    Keys = {k1}
    Rows = {3}
    MaxPack = 4
    PackBuffer = 1
    MaxJournal = 2
SPECIFICATION Spec
SYMMETRY Symmetry
 
INVARIANT CanonicalIsAvailable
INVARIANT JournalTellsRoots
