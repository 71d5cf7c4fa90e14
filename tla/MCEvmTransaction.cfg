CONSTANTS
    Single = 4
    Short = 5
    LengthBytes = 3
    SizeBytes = 2
    w1 = w1
    w2 = w2
    None = None
    Wallets = {w1, w2}
    Indexes = {0}
    Networks <- MCNetworks
    Tokens <- MCTokens
    Transactions <- MCTransactions
    Transfers <- MCTransfers
    Signatures <- MCSignatures
    Selector <- MCSelector
    AddressSize = 2
    Uint256Size = 3
    U64Size = 2
    NativeDecimals = 3
    MaxUnsigned = 34
    MaxSigned = 60
    MinGas = 5
    MaxGas = 30
    MaxFee = 60
SYMMETRY Symmetry
SPECIFICATION Spec
INVARIANTS
    ReviewDeterminesBytes
    FeeIsBounded
    SignedByReviewer
    ReviewerCanSign
    SignedIsReviewed
    AcceptsTransfers
