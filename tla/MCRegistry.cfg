SPECIFICATION Spec
CONSTANTS
    FileInfo <- MCFileInfo
    ConfInfo <- MCConfInfo
    Broad <- MCBroad
    DefaultCtx <- MCDefaultCtx
    Excluded = {}
    BlueprintOf <- MCBlueprintOf
    Recorded <- MCRecorded
    Loaded <- MCLoaded
    TemplateOf <- MCTemplateOf
    Statuses <- MCStatuses
    Policies <- MCPolicies
    Files <- MCFiles
    Models <- MCModels
    StartRegs <- MCStartRegs
    StartConfs <- MCConfs
    ConfEdits <- MCConfEdits
    HandEdits <- MCHandEdits
    PubOf <- MCPubOf
    Sampling <- MCSampling
    MaxChanges = 1
INVARIANTS DataKept HeadersHold ValidatedIsBound PairingStillProven
PROPERTIES SyncSettles
CHECK_DEADLOCK FALSE
