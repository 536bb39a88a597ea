\* Two launches on three ports, one of which another program holds.
CONSTANTS
    p1 = p1
    p2 = p2
    Procs = {p1, p2}
    Nobody = Nobody
    FirstDatabases <- MCDatabases
    NoDatabase = NoDatabase
    NoCopy = NoCopy
    Seconds = {0}
    Ports = {1, 2, 3}
    Preferred = 1
    SearchLimits = {0, 1}
    Taken = {2}
SPECIFICATION FairSpec
CONSTRAINT InOrder
INVARIANTS
    OpenHasSchema
    VersionIsHonest
    OpenedOwnServer
PROPERTIES
    BackupBeforeMigration
    ServesOnceMigrated
