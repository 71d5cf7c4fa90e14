CONSTANTS
    ClockMod = 8
    SessionTimeout = 3
    MaxLag = 1
    p1 = p1
    p2 = p2
    s1 = s1
    w1 = w1
    b1 = b1
    e1 = e1
    None = None
    Pins <- MCPins
    Salts = {s1}
    BackoffUnit = 1
    MaxExponent = 1
    MaxBackoff = 2
    MaxFailures = 1
    CounterWritesFail = FALSE
    ReadsFail = TRUE
    AllowHostOnlyConfirmation = FALSE
    EnableSecretExport = FALSE
    Wallets = {w1}
    BitcoinTxs = {b1}
    EvmTxs = {e1}
    PsbtOwner <- MCPsbtOwner
    Codes = {0}
    ApprovalWindow = 2

SPECIFICATION FairSpec
INVARIANTS
    SignedByPinHolder
    MarkIsFresh
    LockedMeansEmpty
PROPERTIES
    PinNeverReplaced
    IdleSessionsEnd
    ReviewsEnd
