CONSTANTS
    ClockMod = 12
    SessionTimeout = 4
    MaxLag = 2
    AllowHostOnlyConfirmation = FALSE
    EnableSecretExport = FALSE
    w1 = w1
    w2 = w2
    b1 = b1
    b2 = b2
    e1 = e1
    Wallets <- MCWallets
    BitcoinTxs = {b1, b2}
    EvmTxs = {e1}
    PsbtOwner <- MCPsbtOwner
    Codes = {0, 1}
    ApprovalWindow = 3
    None = None
SPECIFICATION DocSpec
INVARIANT EvmFailureClears
