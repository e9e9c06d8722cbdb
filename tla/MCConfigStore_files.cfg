\* Connections, history and snippets, each with three or four calls and a crash.
CONSTANTS
    newConn = newConn
    oldConn = oldConn
    delOld = delOld
    ins1 = ins1
    ins2 = ins2
    drop = drop
    wipe = wipe
    snipA = snipA
    rename = rename
    remove = remove
    e1 = e1
    e2 = e2
    e3 = e3
    Entries = {e1, e2, e3}
    Calls = {newConn, oldConn, delOld, ins1, ins2, drop, wipe, snipA, rename, remove}
    MainThread = {drop, wipe, snipA, rename, remove}
    Kind <- MCKind
    Entry <- MCEntry
    First <- MCFirst
    Batches <- OnePerFile
    MAX_HISTORY = 2
    MaxCrashes = 1
SPECIFICATION Spec
INVARIANTS
    ManagerFollowsFile
PROPERTY
    ImplementsAtomicList
