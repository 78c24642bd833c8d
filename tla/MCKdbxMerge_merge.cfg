SPECIFICATION Spec
CONSTANTS
    Device = {d1, d2}
    Root = root
    RecycleBin = bin
    gA = gA
    gB = gB
    eOne = eOne
    eTwo = eTwo
    Groups = {root, bin, gA, gB}
    Entries = {eOne, eTwo}
    None = None
    HistoryMax = {1, 2}
    MaxTime = 2
    MaxEdits = 3
    MaxVisits = 16
    First <- MCFirst
CHECK_DEADLOCK FALSE
SYMMETRY Symmetry
INVARIANTS TypeOK NewestWins NothingLost NoResurrection DuplicatesExplained LaterMoveWins AttachmentsKept RetryKeeps
