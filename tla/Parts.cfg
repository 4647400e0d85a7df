SPECIFICATION Spec
CONSTANTS
    Nil = Nil
    MaxChanges = 2
    Width = 3
    Stride = 8
    UserMax = 1
    AppMin = 3
    AppMax = 5
    SelectedMax = 5
    PolicyMax = 6
    LpmMax = 5
    SelfMax = 2
    FixedBypass <- MCFixed
    Documents <- MCDocuments
    ListFiles <- MCListFiles
    PackageLists <- MCPackages
    AddressDumps <- MCDumps
    Emoji = Emoji
    Blank = Blank
    Dot = Dot
    Templates <- MCTemplates
    SourceLists <- MCSources
    AdvancedFiles <- MCAdvanced
    Replies <- MCReplies
    Provider = {1, 2}
    MaxU = 16
    MaxU32 = 7
    MaxU16 = 65535
    MiB = 4
    Items <- MCItems
    Rounds = 2
    Wanted = {0, 5, 6}
    OverflowUid = 6
    DestroyMax = 1
    Budget = 3
    Backlog = 3
    Fam = {4, 6}
    Slot = {1}
    Url = {"u", "v"}
    Setting = {0, 1, 2, 3}
    Key = {"timeout"}
    DefaultMain <- MCDefaultMain
    DefaultAdvanced <- MCDefaultAdvanced
    DefaultTemplate = "template"
    UserMains <- MCMains
    Pid = {1, 2}
    Port = {1, 2}
    MaxBorn = 3
    MaxLife = 2
    MaxGen = 1
    PipeSize = 2
    OutputCap = 2
    ReadBudget = 1
    KmodDirs <- MCKmodDirs
    Releases <- MCReleases
    MaxEdits = 5
    QueueMax = 2
    LogPolicies <- MCLogPolicies
    MaxLines = 8
    Cpu = {1}
    AnyUid = {0, 1, 2, 3, 4, 9}
    OVERFLOWUID = 9
    SLOT_MAX = 3
    Requests <- MCRequests
    MaxSets = 3
INVARIANTS
    SearchIsSound
    ChangesAreSeen
    ModuleFits
    ProcessesAreOurs
    GenerationIsOurs
    NothingIsLost
    TopologyIsOwned
    DumpsAreWhole
    ChangeIsNoticed
    PoolIsSound
    StealsAsConfigured
PROPERTIES
    RotationIsSound
    InstallIsProper
    NothingLeftBehind
CHECK_DEADLOCK FALSE
