-------------------------------- MODULE Coins --------------------------------
(***************************************************************************)
(* The tables of networks (WalletNetworks.cpp), coins (WalletCatalog.cpp)  *)
(* and tokens (WalletTokens.cpp), what finds a row of them, and the two    *)
(* serial commands that go from a name to an account (WalletCli.cpp).      *)
(* A query is a word in small letters and whether it was typed so: the     *)
(* catalogue ignores case, networks and tokens do not.  Names, texts and   *)
(* contracts of the rows are left out.                                     *)
(***************************************************************************)
EXTENDS DerivationPath, FiniteSets

null == [id |-> "nullptr"]

\* The symbols of the rows are their ids in capitals, but for Bitcoin's.
Symbol(id) == IF id \in {"btc49", "btc44"} THEN "btc" ELSE id

-----------------------------------------------------------------------------
NoVersion == [p2pkh_version |-> 0, p2sh_version |-> 0, bech32_hrp |-> null.id,
              ripple_alphabet |-> FALSE]

Network(id, slip44, coin_type, purpose, encoding, utxo, version, chain) ==
    [id |-> id, slip44_coin_type |-> slip44, derivation_coin_type |-> coin_type,
     bip_purpose |-> purpose, encoding |-> encoding, utxo |-> utxo, account_version |-> version,
     evm_chain_id |-> chain]

Utxo(id, coin_type, purpose, encoding, p2pkh, p2sh, hrp, ripple) ==
    Network(id, coin_type, coin_type, purpose, encoding,
            [p2pkh_version |-> p2pkh, p2sh_version |-> p2sh, bech32_hrp |-> hrp,
             ripple_alphabet |-> ripple], 0, 0)
Evm(id, slip44, coin_type, chain) ==
    Network(id, slip44, coin_type, 44, "Evm", NoVersion, 0, chain)
Account(id, coin_type, encoding, version) ==
    Network(id, coin_type, coin_type, 44, encoding, NoVersion, version, 0)

kNetworkProfiles ==
    <<Utxo("btc", 0, 84, "P2wpkh", 0, 5, "bc", FALSE),
      Utxo("btc49", 0, 49, "P2shP2wpkh", 0, 5, "bc", FALSE),
      Utxo("btc44", 0, 44, "P2pkh", 0, 5, "bc", FALSE),
      Utxo("ltc", 2, 44, "P2pkh", 48, 50, "ltc", FALSE),
      Utxo("doge", 3, 44, "P2pkh", 30, 22, null.id, FALSE),
      Utxo("dash", 5, 44, "P2pkh", 76, 16, null.id, FALSE),
      Evm("eth", 60, 60, 1), Evm("etc", 61, 61, 61),
      Utxo("xrp", 144, 44, "P2pkh", 0, 0, null.id, TRUE),
      Utxo("btg", 156, 44, "P2pkh", 38, 23, "btg", FALSE),
      Utxo("rvn", 175, 44, "P2pkh", 60, 122, null.id, FALSE),
      Account("trx", 195, "Tron", 65),
      Evm("cro", 394, 60, 25), Evm("kava", 459, 60, 2222), Evm("opt", 614, 60, 10),
      Evm("xdai", 700, 60, 100), Evm("matic", 966, 60, 137), Evm("ftm", 1007, 60, 250),
      Evm("core", 1116, 60, 1116), Evm("glmr", 1284, 60, 1284), Evm("movr", 1285, 60, 1285),
      Evm("base", 8453, 60, 8453), Evm("arb1", 9001, 60, 42161), Evm("avaxc", 9005, 60, 43114),
      Evm("bsc", 9006, 60, 56), Evm("celo", 52752, 60, 42220),
      Account("xmr", 128, "CryptoNote", 18), Account("msr", 413, "CryptoNote", 28)>>

\* The first row of a table a loop finds, or nullptr.
FirstRow(table, Fits(_)) ==
    LET rows == SelectSeq(table, Fits) IN IF rows = <<>> THEN null ELSE Head(rows)

\* strcmp, which minds the case
Exactly(id, query) == query.small /\ id = query.word
NetworkRow(id) == FirstRow(kNetworkProfiles, LAMBDA network : network.id = id)
find_network_profile(query) ==
    FirstRow(kNetworkProfiles, LAMBDA network : Exactly(network.id, query))

network_supports_token_accounts(network) ==
    network.encoding = "Evm" /\ network.evm_chain_id # 0

LastIndex == 2147483647          \* the last below kHardenedOffset

BadNetwork(network) ==
    \/ network.bip_purpose > LastIndex \/ network.slip44_coin_type > LastIndex
    \/ network.derivation_coin_type > LastIndex
    \/ IF network.encoding = "Evm"
       THEN network.evm_chain_id = 0
            \/ network.derivation_coin_type # (IF network.id = "etc" THEN 61 ELSE 60)
       ELSE network.evm_chain_id # 0
            \/ (network.encoding = "CryptoNote" /\ network.account_version = 0)

run_network_profile_self_tests ==
    /\ \A i \in DOMAIN kNetworkProfiles :
           LET network == kNetworkProfiles[i]
           IN  /\ ~BadNetwork(network)
               /\ \A j \in (i + 1) .. Len(kNetworkProfiles) :
                      LET other == kNetworkProfiles[j]
                      IN  /\ network.id # other.id
                          /\ network.encoding = "Evm" /\ other.encoding = "Evm"
                                 => network.evm_chain_id # other.evm_chain_id
    /\ NetworkRow("eth").evm_chain_id = 1 /\ NetworkRow("etc").evm_chain_id = 61
    /\ NetworkRow("bsc").evm_chain_id = 56
    /\ NetworkRow("xmr").account_version = 18 /\ NetworkRow("msr").account_version = 28

-----------------------------------------------------------------------------
Seed(id, slip44, capabilities, network_id) ==
    [id |-> id, slip44 |-> slip44, capabilities |-> capabilities, network_id |-> network_id]
Addressed(id, slip44) == Seed(id, slip44, {"Address"}, id)
Tokens(id, slip44) == Seed(id, slip44, {"Address", "TokenAccount"}, id)
Signing(id) == Seed(id, 0, {"Address", "TransactionReview", "Signing"}, id)
Listed(id, slip44) == Seed(id, slip44, {}, null.id)

kCatalog ==
    <<Signing("btc"), Signing("btc49"), Addressed("btc44", 0), Addressed("ltc", 2),
      Addressed("doge", 3), Addressed("dash", 5), Tokens("eth", 60), Tokens("etc", 61),
      Addressed("xrp", 144), Addressed("btg", 156), Addressed("rvn", 175), Addressed("trx", 195),
      Tokens("cro", 394), Tokens("kava", 459), Tokens("opt", 614), Tokens("xdai", 700),
      Tokens("matic", 966), Tokens("ftm", 1007), Tokens("core", 1116), Tokens("glmr", 1284),
      Tokens("movr", 1285), Tokens("base", 8453), Listed("avax", 9000), Tokens("arb1", 9001),
      Tokens("avaxc", 9005), Tokens("bsc", 9006), Tokens("celo", 52752), Listed("bch", 145),
      Listed("bsv", 236), Listed("xec", 899), Listed("dgb", 20), Listed("ppc", 6),
      Listed("nmc", 7), Addressed("xmr", 128), Addressed("msr", 413), Listed("zec", 133),
      Listed("kas", 111111), Listed("erg", 429), Listed("ckb", 309), Listed("flux", 19167),
      Listed("xch", 8444), Listed("ada", 1815), Listed("algo", 283), Listed("aptos", 637),
      Listed("atom", 118), Listed("dot", 354), Listed("eos", 194), Listed("fil", 461),
      Listed("hbar", 3030), Listed("icp", 223), Listed("ksm", 434), Listed("near", 397),
      Listed("sol", 501), Listed("sui", 784), Listed("ton", 607), Listed("vet", 818),
      Listed("xlm", 148), Listed("xtz", 1729)>>

\* A coin of an EVM network can be reviewed and signed, whatever its row says.
resolved_entry(seed) ==
    LET network == NetworkRow(seed.network_id)
        evm == network # null /\ network.encoding = "Evm"
    IN  [id |-> seed.id, slip44_coin_type |-> seed.slip44, network |-> network,
         capabilities |-> seed.capabilities \cup
                          IF evm THEN {"TransactionReview", "Signing"} ELSE {}]

wallet_catalog_at(index) == resolved_entry(kCatalog[index])

\* Mutant: identifiers are not compared.
EntryFitsSymbol(seed, query) == query.word = Symbol(seed.id)

\* Rows in their order: one named first by its id or by its symbol is found.
EntryFits(seed, query) == query.word \in {seed.id, Symbol(seed.id)}

wallet_catalog_find(query) ==
    LET seed == FirstRow(kCatalog, LAMBDA row : EntryFits(row, query))
    IN  IF seed = null THEN null ELSE resolved_entry(seed)

-----------------------------------------------------------------------------
Erc20(id, network_id, decimals) ==
    [id |-> id, network_id |-> network_id, standard |-> "Erc20", decimals |-> decimals,
     capabilities |-> {"AccountAddress", "TransferSigning"}]

kTokenProfiles ==
    <<Erc20("eth-usdc", "eth", 6), Erc20("eth-usdt", "eth", 6), Erc20("eth-dai", "eth", 18),
      Erc20("eth-wbtc", "eth", 8), Erc20("bsc-usdt", "bsc", 18), Erc20("bsc-usdc", "bsc", 18),
      Erc20("bsc-busd", "bsc", 18), Erc20("matic-usdc", "matic", 6),
      Erc20("arb-usdc", "arb1", 6), Erc20("arb-usdt", "arb1", 6), Erc20("opt-usdc", "opt", 6),
      Erc20("base-usdc", "base", 6), Erc20("avaxc-usdc", "avaxc", 6),
      [id |-> "sol-usdc", network_id |-> "sol", standard |-> "Spl", decimals |-> 6,
       capabilities |-> {}]>>

find_token_profile(query) == FirstRow(kTokenProfiles, LAMBDA token : Exactly(token.id, query))

token_network(token) == NetworkRow(token.network_id)

token_supports_account_address(token) ==
    /\ "AccountAddress" \in token.capabilities
    /\ token_network(token) # null
    /\ network_supports_token_accounts(token_network(token))

token_supports_transfer_signing(token) ==
    token.standard = "Erc20" /\ "TransferSigning" \in token.capabilities

run_token_profile_self_tests ==
    \A i \in DOMAIN kTokenProfiles :
        LET token == kTokenProfiles[i]
        IN  /\ token_supports_account_address(token) <=> token.standard = "Erc20"
            /\ token.standard = "Erc20" => token_supports_transfer_signing(token)
            /\ \A j \in (i + 1) .. Len(kTokenProfiles) : token.id # kTokenProfiles[j].id

-----------------------------------------------------------------------------
(* wallet address and wallet token: what is before the first space is the name, *)
(* what is behind it the index, which may be missing.                           *)

Shown(network, index) == [at |-> "shown", network |-> network, index |-> index]
Fails(error) == [at |-> error]

ShowIndex(network, index_text) ==
    LET index == parse_index(index_text)
    IN  IF index.ok THEN Shown(network, index.value) ELSE Fails("invalid-index")

handle_wallet_address(query, index_text) ==
    LET entry == wallet_catalog_find(query)
    IN  IF entry = null THEN Fails("unknown-coin")
        ELSE IF "Address" \notin entry.capabilities \/ entry.network = null
             THEN Fails("address-unsupported")
        ELSE ShowIndex(entry.network, index_text)

handle_wallet_token(query, index_text) ==
    LET token == find_token_profile(query)
    IN  IF token = null THEN Fails("unknown-token")
        ELSE IF ~token_supports_account_address(token) THEN Fails("token-account-unsupported")
        ELSE ShowIndex(token_network(token), index_text)

\* The network of a transaction: evm inspect takes a network, psbt inspect one of two.
SigningNetwork(query) ==
    LET network == find_network_profile(query)
    IN  IF network = null \/ network.encoding # "Evm" THEN null ELSE network
-----------------------------------------------------------------------------
PsbtNetworks == {NetworkRow("btc"), NetworkRow("btc49")}

Ids == {kCatalog[i].id : i \in DOMAIN kCatalog}

\* What the catalogue says of a coin is what the tables behind it can do: every coin is found by
\* its id, and no other coin's row hides it; the rows that stand for it agree; an address is
\* promised
\* exactly when a network of that name and coin type is there; tokens exactly when it has token
\* accounts; a signature exactly when a transaction command takes that network.
EntryIsTrue(id) ==
    LET entry == wallet_catalog_find([word |-> id, small |-> FALSE])
        signs == entry.network \in PsbtNetworks
                 \/ SigningNetwork([word |-> id, small |-> TRUE]) # null
    IN  /\ entry # null /\ entry.id = id
        /\ \A i \in DOMAIN kCatalog : kCatalog[i].id = id => wallet_catalog_at(i) = entry
        /\ entry.network = NetworkRow(id)
        /\ "Address" \in entry.capabilities <=> entry.network # null
        /\ entry.network # null => entry.network.slip44_coin_type = entry.slip44_coin_type
        /\ "TokenAccount" \in entry.capabilities
               <=> entry.network # null /\ network_supports_token_accounts(entry.network)
        /\ "Signing" \in entry.capabilities <=> signs
        /\ "TransactionReview" \in entry.capabilities <=> signs

\* A token that promises transfers is on a network whose coin promises signatures.
TokenIsTrue(token) ==
    token_supports_transfer_signing(token) =>
        "Signing" \in wallet_catalog_find([word |-> token.network_id, small |-> TRUE]).capabilities

\* A wallet command shows the account of the network of that name at the index that was
\* written, the first without one, in any case of letters for a coin, or refuses.
CommandIsAnswered(query, index_text) ==
    LET coin == handle_wallet_address(query, index_text)
        token == handle_wallet_token(query, index_text)
        isIndex == Range(index_text) \subseteq Digits /\ Decimal(index_text) < HardenedOffset
    IN  /\ coin.at = "shown" <=> query.word \in Ids /\ NetworkRow(query.word) # null /\ isIndex
        /\ coin.at = "shown" => coin = Shown(NetworkRow(query.word), Decimal(index_text))
        /\ coin.at = "unknown-coin" <=> query.word \notin Ids
        /\ token.at = "shown" => /\ isIndex /\ token.index = Decimal(index_text)
                                 /\ token.network = token_network(find_token_profile(query))
                                 /\ network_supports_token_accounts(token.network)
=============================================================================
