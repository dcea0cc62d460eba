SPECIFICATION RequestsSpec
CONSTANTS
    NoValue = NoValue
    SettingNames <- AllSettings
    SettingFailures = 1
    SettingRestarts = 1
    SettingReads = 1
    SettingBudgets <- SettingTrials
    SenderKinds <- Senders
    SenderConfigs <- SomeConfigs
    SenderPatches <- SomePatches
    SenderCapacity = 1
    MaxOffers = 2
    MaxChanges = 2
    MaxMasks = 2
    MaxSenderFailures = 1
    MaxLooks = 1
    SenderBudgets <- SenderTrials
    Passwords = {old, new}
    Torn = Torn
    Changers = {h1, h2}
    Addresses = {near, far}
    SessionLimit = 2
    SourceLimit = 1
    GlobalLimit = 2
    Window = 3
    RecentAge = 1
    IdleAge = 1
    MaxAge = 2
    CredentialBounds <- CredentialMost
    CredentialBudgets <- CredentialTrials
SYMMETRY SameChangers
INVARIANTS
    RequestsAreConsistent
    AnswersAreTrue
    ReportsAreTrue
    SenderIsAsShown
    CredentialsAreTogether
    AttemptsAreLimited
PROPERTIES
    NothingStaleIsSent
CHECK_DEADLOCK FALSE
