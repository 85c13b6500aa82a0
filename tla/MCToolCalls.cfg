SPECIFICATION MCSpec

CONSTANTS
    c1 = c1
    c2 = c2
    Loader = {c1, c2}
    NoteCall = {c1, c2}
    Client = {c1, c2}
    Project = {"General"}
    Default = "General"
    Version = {1, 2, 3}
    holds <- MCHolds
    discover = TRUE
    Scope <- MCScope
    maxInsights = 1
    Iam <- MCIam
    Profile = {"p"}
    User = {"u", "v"}
    settingsOf <- MCSettingsOf
    TokenTtl = 2
    Lifetime = 4
    CliTimeout = 1
    ConnectTimeout = 1
    MaxTime = 5
    Policies <- MCPolicies
    describes <- MCDescribes
    Routine <- MCRoutine

CHECK_DEADLOCK FALSE

INVARIANTS
    RunsAllowed
    PredicatesAgree
    IdsNameOneTarget
    
    CacheFresh
    WaitsJoined
    ApartUnlessFailed
    TokenLive
