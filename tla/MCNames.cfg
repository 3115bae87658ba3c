CONSTANTS
    QuantTokens <- MCQuants
    VariantTokens <- MCVariants
    Alias <- MCAlias
    KeyPool <- MCKeys
    Names <- MCNamesAsked
    Files <- MCFiles
    FileInfo <- MCFileInfo
    MaxKeys = 3
    MaxBound = 1
    Catalog <- MCCatalog
    Entries <- MCEntries
    Requests <- MCRequests
    Banned <- MCBanned
    UserLoads <- MCUserLoads
    Defaults <- MCDefaults
    MaxPolls = 2
    MaxMoves = 2
    MaxCalls = 1
    LlmsterVersions = 1
    RunNames <- MCRunNames
    Stamp <- MCStamp
    Pipelines <- MCPipelines
    Values = {1, 3}
    Sizes = {1, 2}
    Installed <- MCInstalled
    CommandLines <- MCCommandLines
    MaxRuns = 2

SPECIFICATION Spec

INVARIANTS
    IdentityKept
    BindingKept
    LoadedIsProven
    OfferedIsAccepted
    UnloadConfirmed
    ForeignNeverCounted
    OverallIsFair

PROPERTIES
    EntryNeverRedirects
    LaterCopyIgnored
