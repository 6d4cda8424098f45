SPECIFICATION Spec
CONSTANTS
    p1 = p1
    p2 = p2
    h1 = h1
    h2 = h2
    None = None
    Procs = {p1, p2}
    MaxBatch = 2
    Hashes = {h1, h2}
SYMMETRY Symmetry
INVARIANTS
    BoundedDuplicates
PROPERTIES
    AnswersMatchTable
    PermanentLostOnlyInRace
    BatchBlocksAll
    ActsAsRegister
