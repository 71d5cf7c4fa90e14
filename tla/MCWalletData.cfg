CONSTANTS
    N = 31
    G <- MCGenerator
    Zero <- Infinity
    Add <- MCAdd
    ScalarEnd = 34
    Seeds <- MCSeeds
    ChainCodes <- MCChainCodes
    Hmac <- MCHmac
    kBip32Key = kBip32Key
    Fingerprint <- MCFingerprint
    kHardenedOffset = 3
    IndexEnd = 6
    MaxDepth = 3
    X <- MCX
    Y <- MCY
    HardenedOffset = 16
    WordEnd = 32
    Derivable <- MCDerivable
    PathTextSize = 18
    english_word_list <- MCWordList
    WordBits = 3
    WordCounts = {3, 6}
    MaxWords = 6
    DigestByte <- MCDigestByte
    MnemonicTextSize = 14
    Checksum <- MCChecksum
    kChecksumSize = 4
    kMaximumEncodedSize = 120
    kDecodeBufferSize = 128
    kExtendedKeyTextSize = 113
    prime = 53
    edwards_d = 26
    order = 17
    BaseX = 4
    BaseY = 46
    ScalarBits = 5
    ScalarBytesEnd = 40
    Keccak <- MCKeccak
    KeccakChecksum <- MCKeccakChecksum
    KeyBytes <- MCKeyBytes
    kRateBytes = 4
    kBlockSize = 8
    kLengthBytes = 2
    Hash160 <- Spread
    KeccakTail <- Spread
    Compressed <- MCCompressed
    Uncompressed <- MCUncompressed
    SpendKey <- MCSpendKey
    ViewKey <- MCViewKey
    EdwardsKey <- MCEdwardsKey
    ByteEnd = 8
    kBitcoinMaxInputs = 2
    kBitcoinMaxOutputs = 2
    kBitcoinMaxScriptSize = 34
    kMaximumBitcoinSupply = 10000
    IntegerSize = 3
    EcdsaOrder = 509
    kBitcoinMaxDerSignatureSize = 14
    DoubleSha256 <- MCDoubleSha256
    EcdsaSign <- MCEcdsaSign
SPECIFICATION Spec
INVARIANTS
    PublicFollowsPrivate
    SignatureRecovers
    NumbersAreRead
    MnemonicsAreChecked
    Base58ReadsBack
    ExtendedKeysNameThemselves
    SegwitReadsBack
    CryptonoteReadsBack
    HashesAbsorbAll
    TransactionReadsBack
    CoinsAreFound
    AddressesMatchScripts
CHECK_DEADLOCK FALSE
