CONSTANTS
    a = a
    b = b
    None = None
    Wallets <- MCWallets
    Paths <- MCPaths
    Fingerprint <- MCFingerprint
    UnsignedTxs <- MCUnsignedTxs
    InputItems <- MCInputItems
    OutputItems <- MCOutputItems
    MaxSupply = 200
    WordMod = 1000
    MaxFee = 160
    MaxFeeRate = 1
    MaxInputs = 2
    MaxOutputs = 2
    MaxTransactionBytes = 4096
SPECIFICATION Spec
INVARIANTS
    SignableByItsWallet
    NoOtherWalletSigns
    ReviewIsTrue
    ChangeIsOwn
    EstimateCovers
PROPERTIES
    AcceptsWellFormedInputs
