\* Each part on its own small instance; the parts add up.
CONSTANTS
    Processes = {"a", "b"}
    Plan <- MCPlan
    Builds = {2, 4, 5}
    MaxCrashes = 1
    Files = {"f", "g"}
    Undelivered = {"f"}
    MaxCommands = 2
    Docs = {"d", "e"}
    MaxWrites = 2
    MaxRebuilds = 1
    Components = {"git", "herdr"}
    RuntimeIDs = {"r1", "r2"}
    MaxBundles = 2
    MaxFaults = 2
    Names = {"x", "y"}
    Urls = {"u", "v"}
    Legacy = {"y"}
    Profiles = {"p"}
    Cells = {"cell"}
    Harnesses = {"h1", "h2", "h3"}
    Capable = {"h1", "h2"}
    MaxSettings = 3
    OldHomes = {"new", "recorded"}
    Homes = {"home1", "home2"}
    Ids = {"i", "j"}
    Older = {"home1"}
    MaxChanges = 3
    Assets = {"archive", "checksums"}
    MaxCommit = 3
    FaultSets = {{"kill"}, {"callFails"}}
    Clients = {"a"}
    ArchiveName = "archive"
    ChecksumsName = "checksums"
    Found = {8, 9, 10, 11, 12, 13, 14, 15, 16, 17, 18}
    WordKinds = {"failed", "text"}
    MaxWords = 2
    MaxTroubles = 1
SPECIFICATION HomeSpec
INVARIANTS
    VersionIsLayout
    ImportedWholeAndOnce
    StampMeansText
    SelectedIsWhole
    ProjectsStand
    RoutingStands
    FleetsAreTold
    NeverMixed
    StatusTells
PROPERTIES
    ToolsStay
    RemovedStaysRemoved
    InstallsWhatItResolved
CHECK_DEADLOCK FALSE
