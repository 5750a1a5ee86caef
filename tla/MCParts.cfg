CONSTANTS
    m1 = m1
    m2 = m2
    v1 = v1
    v2 = v2
    None = None
    Process <- MCProcess
    Files = 3
    MaxFailures = 2
    View <- MCView
    TTL = 2
    Slow = 1
    MaxBumps = 2
    MaxClock = 6
    Hit = {h1, h2}
    MaxWrites = 2
    MaxTTL = 30
    MaxDelay = 9
    MaxSequenceSteps = 2
    MaxNamedVariants = 2
    MaxResponseRules = 2
    MaxRuleConditions = 1
    MaxMockRoutes = 3
    MountPath = "/m/demo"
    MockURL = "https://quickmock.dev/m/demo"
    Trimmed <- MCTrimmed
    Malformed <- MCMalformed
    Placeholder <- MCPlaceholder
    LargeText <- MCLargeText
    RelativePath <- MCRelativePath
    WithControls <- MCWithControls
    SpamText <- MCSpamText
    Allowlisted <- MCAllowlisted
    X402Text <- MCX402Text
    NetworksIn <- MCNetworksIn
    Base64 <- MCBase64
    Testnet <- MCTestnet
    Unescaped <- MCUnescaped
    Containing <- MCContaining
    Json <- MCJson
    Template <- MCTemplate
    Long <- MCLong
    Schemas <- MCSchemas
    Documents <- MCDocuments
    StatusName <- MCStatusName
    Inputs <- MCInputs
    LegacyRows <- MCLegacyRows
    Requests <- MCRequests
SPECIFICATION AllSpec
INVARIANTS AppliedInOrder NeverRepeats AnswerIsRecent StoredIsNormal RepliesAsConfigured BodiesInsideOut ServerOwnsHeaders LoggedIsWritten SequenceCycles ImportedIsReachable
PROPERTIES DeploymentServes
CHECK_DEADLOCK FALSE
