SPECIFICATION Spec
CONSTANTS
    a1 = a1
    a2 = a2
    s1 = s1
    s2 = s2
    None = None
    Nothing = Nothing
    folder = folder
    item = item
    Accounts = {a1}
    Sources = {s1, s2}
    Entries = {folder, item}
    Plan <- FolderAndItem
    FolderOf <- ItemInFolder
    MaxImports = 2
    MaxJournals = 2
    MaxTransitions = 1
    MaxDisturbances = 1
SYMMETRY Symmetry
INVARIANTS JournalReadable EvidenceKept OutcomesAreTrue MaintenanceIsHeld
PROPERTIES NoSilentDuplicate
CHECK_DEADLOCK FALSE
