\* Two backups with one operation id, a restore, and an import with its preview.
SPECIFICATION FairSpec
CONSTANTS
    dump1 = dump1
    dump2 = dump2
    restore = restore
    import = import
    preview = preview
    file = file
    other = other
    Calls = {dump1, dump2, restore, import, preview}
    Batches <- BackupsAndImport
    Paths = {file}
    Purpose <- MCPurpose
    PathOf <- MCPathOf
    OpOf <- MCOpOf
    TTL = 0
    MaxTime = 1
    MaxPicks = 2
INVARIANTS
    OneOperationPerPick
    NoChildLeftBehind
PROPERTIES
    LastPickDecides
    CancelEnds
