SPECIFICATION ScheduleSpec
CONSTANTS
    root = root
    snap = snap
    inner = inner
    flatpak = flatpak
    other = other
    noDir = noDir
    client = client
    stray = stray
    Dirs <- MCDirs
    Root = root
    NoDir = noDir
    Parent <- MCParent
    IpcDirs = {snap, flatpak}
    Unsure = {flatpak}
    Sockets = {client, stray}
    DirOf <- MCDirOf
    IpcSockets = {client, stray}
    MinAmount = 1
    MaxAmount = 3
    ScanInterval = 2
    MaxSetBack = 1
INVARIANTS ScheduleTypeOK ScanFindsAll ScanFindsOnly ConnectedInTime
PROPERTY TicksEnd
