CONSTANTS
    Models = {a, b}
    NoModel = NoModel
    Processes = {p1, p2, p3}
    NoProcess = NoProcess
    MaxPolls = 2
    Tasks <- MCTasks
    Manifests <- MCManifests
    SampleSize = 2
    MaxCalls = 2
    Clients = {c1, c2, c3}
    MaxConcurrent = 2
    MaxEvents = 1
    Probes = 2
    Names = {"a", "b"}
    SetupValues = {"v1"}
    Values = {"absent", "v1", "v2", "opaque"}
    Tests = 2
    Dataset <- MCDataset
    MaxTasks = 5
    SampleSizes = {2, 3}
    SequentialUpTo = 2
    Workers = 2
    SelectedIds <- MCSelectedIds
    Replies <- MCReplies

SPECIFICATION Spec

INVARIANTS
    NoLostServer
    ReportIsTrue
    ManifestScoresAreOwn
    FullScoreIsEarned
    RowsAreTheirTasks
    SlotsAccounted

PROPERTIES
    NoLeftover
    ImplementsModelSlot
    CallsReturn
    SlotsComeBack
    EvaluationReturns

CHECK_DEADLOCK FALSE
