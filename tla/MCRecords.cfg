SPECIFICATION RecordsSpec
CONSTANTS
    Writers = {w1, w2}
    Messages = {m1}
    Statuses = {new, filled}
    NewOrder = new
    MaxRecords = 3
    MaxStops = 1
    MaxBackups = 1
    Positions = {p1, p2}
    Marks = {10, 12}
    Closers = {c1, c2}
    BaseEquity = 100
    NoOne = nobody
    CandlePrices = {10, 11, 13}
    FastMa = 1
    SlowMa = 2
    Lookback = 2
    ThresholdPct = 5
    StopPct = 10
    TakePct = 20
    MaxHold = 3
    Clients = {c1}
    Limit = 2
    Window = 3
    Lockout = 2
    Horizon = 9
    Prices <- MCPrices
    Volatilities = {3, 60}
    AiIntents <- MCAiIntents
    Equities = {0, 1000}
    Frees = {50}
    Caps = {0, 60}
    Ticks = {1, 10}
    Steps = {1, 100}
    MinNotional = 5
    VenueStatuses = {"NEW", "EXPIRED_IN_MATCH"}
    Fine = 10
    MaxLeverage = 30
    MaxPosition = 5
    ConfiguredEquity = 1000
    Profiles <- MCProfiles
    Loose = {"panic_stop_drill"}
    MaxStarts = 2
    MaxRestarts = 1
    RequireWebhook = FALSE
    RequireStream = FALSE
    Templates <- MCTemplates
    MaxEdits = 3
    Lengths <- MCLengths
    Warmups <- MCWarmups
    Recoveries = {r1, r2}
    Wallets = {900}
    Cap = 500
    MaxMoves = 2
    MaxRecoveries = 2
    Flatteners = {f1, f2}
    Size = 3
    HeldAtFirst <- MCHeld
    StepSize = 2
    MinQty = 2
INVARIANTS
    AuditSound
    BacktestSound
    FoldsSound
    GatesSawTheAccount
    LockoutSound
    TermsSound
    GateSound
    DeploymentSound
PROPERTIES
    RestoreSound
    PaperSound
    CloseOutSound
    EndsWellOnlyLocked
CHECK_DEADLOCK FALSE
