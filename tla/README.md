# HexWallet: TLA+ models and proofs

HexWallet is the firmware of a hardware wallet for an ESP32: an authenticated
serial command line, a display on which the user confirms transactions, and the
codecs and signature schemes of the networks it serves. The modules here model
that firmware from its source. TLC checks them on small instances; TLAPS proves
the theorems of the `*Proof` modules for every value of the constants.

To check a run: `tlc -config MCDevice.cfg MCDevice`. To check the proofs:
`tlapm M.tla` for each `M` in `CliSessionProof`, `CliAuthProof`, `CliReviewProof`,
`DeviceProof`, `SerialLineProof`, `FoldFacts`, `BitcoinPsbtProof` and `AccountProof`.

## 1. Inventory

One thread runs `setup()` once and `loop()` for ever (`HexWallet.ino`). There is
no interrupt handler and no second task in this code, so a command handler is
never interrupted by another one. What makes it hard is the rest: the host
chooses the order of the commands, time passes between any two of them, power
may go at any instant, reads and writes of flash may fail, and the 32-bit millisecond
clock wraps after 49.7 days.

| component | source | state it keeps | operations | interacts with |
|---|---|---|---|---|
| CLI authentication | `WalletCli.cpp` 25-49, 137-297, 937-1019 | four NVS keys; RAM copies of salt, verifier and flag; challenge; `retry_after`; `authenticated`, `authenticated_at` | `auth provision`, `auth begin`, `auth unlock`, `lock`, timeout, boot | NVS (`Preferences`), `millis()`, hardware random source, review (lock clears it) |
| CLI review and signature | `WalletCli.cpp` 52-58, 123-135, 569-888, 977-980 | two request buffers, kind, flag, code, deadline | `tx inspect/sign/reject`, `evm inspect/sign`, expiry | wallet session, transaction parsers, display, transport policy |
| wallet session | `WalletSession.cpp` | mnemonic in RAM, loaded flag | generate, import, clear, load master | CLI, BIP-39/BIP-32 |
| transport policy | `WalletTransportPolicy.cpp` | none | `wallet_transport_allows` | review |
| display | `WalletUi.cpp`, `WalletBoardPort.cpp` | the view drawn, whether there is a display | show catalog, show transaction, authenticated mark | main loop, review |
| boot and main loop | `HexWallet.ino` | `security_ready`, `display_available`, `last_authenticated` | `setup`, `loop` | all of the above |
| line editor and dispatch | `WalletCli.cpp` 50-51, 914-932, 981-999 | `line_buffer`, `line_used` | one character, one line | every handler |
| Bitcoin transactions | `BitcoinTransaction.cpp` | request buffer | parse PSBT, review totals and fees, digest, sign | BIP-32, hashes, addresses |
| EVM transactions | `EvmTransaction.cpp` | request buffer | parse RLP, bind to network, token and sender, sign | registries, BIP-32, Keccak |
| keys | `WalletSecurity.cpp`, `word_list.h` | none; a walk holds one node | mnemonic, seed, child keys on both sides, paths, extended keys, recoverable signature | curve library |
| engine | `WalletEngine.cpp` | none | address of a network, an account index and a seed | keys, registries, codecs |
| address codecs | `WalletAddresses.cpp`, `base58.cpp`, `local_bech32.cpp`, `local_segwit.cpp`, `CryptoNoteAddress.cpp` | none | encode, decode, validate | hashes |
| registries | `WalletNetworks.cpp`, `WalletTokens.cpp`, `WalletCatalog.cpp` | constant tables | lookup, search | engine, EVM, CLI |
| hashes | `CryptoPrimitives.cpp`, `keccak256.cpp`, `local_ripemd160.cpp` | streaming buffers | init, update, finish | all codecs |
| tests, data | `tests/`, `slip-0044.md` | | | |

### What makes each component correct

- **Authentication.** The stored verifier can always be met by some PIN, however
  provisioning was interrupted; a stored PIN that is read is never replaced; wrong answers are
  spaced by the back-off in true time, also across power cycles; an open session
  has been used recently; an idle one ends.
- **Review and signature.** What is signed is the transaction last shown, by the
  wallet it was shown for, on its own code, before it expires, once, and while the
  display still shows it, unless the build gives the display up and there is none; a
  closed session holds nothing; reviews end.
- **Line editor.** Every line of at most the buffer's size reaches its handler as
  typed; nothing else does.
- **Bitcoin and EVM.** Amounts, fees and limits are computed without overflow;
  what is signed has the bytes that were reviewed; one encoding per transaction.
- **Keys.** A wallet that watches with an extended public key sees the keys the
  device derives; a signature names the key that made it; what one function prints
  (a mnemonic, a path, a key) the other one takes, and means the same by it.
- **Codecs.** Decoding inverts encoding and accepts nothing else; an address belongs
  to the key, the script and the network it is shown for.
- **Registries.** A name leads to the row it promises, in every table and by every
  spelling; rows that point into another table find what they point at.
- **Hashes.** Every byte of a message is taken in once and in order, however it is
  cut and wherever it ends.

The hazards, each at its line and with the properties that would catch it, are
listed in `PROJECT.json`.

## 2. Modules

```
CliClock ── CliSession ──┬── CliAuth ──── MCCliAuth ── MCCliAuthDoc
                         │      └── CliAuthProof
   TransportPolicy ──────┼── CliReview ── MCCliReview ── MCCliReviewDoc
                         │      └── CliReviewProof
                         └── Device ───── MCDevice, DeviceProof
                              (INSTANCEs CliAuth and CliReview)

SerialLine ───── MCSerialLine, SerialLineProof
BitcoinRequest ── BitcoinPsbt ──── MCBitcoinPsbt, BitcoinPsbtProof
EvmRlp ── EvmTransaction ──── MCEvmTransaction, AccountProof

EcGroup ── HdKeys ── Ecdsa ──── AccountProof
DerivationPath ── Coins ── Addresses ── BitcoinBytes ──── BitcoinPsbtProof
Base58 ──┬── ExtendedKey
         └── CryptoNote
Mnemonic, Segwit, Hashes, KeccakF, HexText
MCWalletData extends all of this block

abstract:  ReviewedSigning (implemented by CliReview)
           LineEditor (implemented by SerialLine)
```

`CliSessionProof` lies under `CliAuthProof` and `CliReviewProof`, `FoldFacts` under
`BitcoinPsbtProof` and `AccountProof`: it has the lemmas about sums, recursive functions
and numbers in a base that they need.

| module | models |
|---|---|
| `CliClock` | `millis()` as a counter modulo `ClockMod`, elapsed time as an unsigned difference, `deadline_reached` |
| `CliSession` | the `loop()`/`wallet_cli_service()` cycle and the session flag with its timeout; the steps `CliAuth` and `CliReview` conjoin their own part to |
| `CliAuth` | provisioning, challenge, unlock, failure counter, back-off, lock, power cycle |
| `TransportPolicy` | `wallet_transport_allows` and the two build flags it reads |
| `CliReview` | wallet in RAM, both request buffers, inspect, sign, reject, expiry, lock, boot, the view on the display |
| `ReviewedSigning` | the abstract promise of the signing half |
| `Device` | `setup()` and `loop()`: both halves taking every step together, and the LOCKED / UNLOCKED mark `loop()` copies to the display |
| `LineEditor`, `SerialLine` | what a line is, and the character loop that collects one in `line_buffer` |
| `BitcoinRequest` | scripts, paths, sizes, the fee policy and `bitcoin_sign_request` |
| `BitcoinPsbt` | `bitcoin_parse_psbt`, one record of one map per step |
| `EvmRlp` | the RLP reader and writer, byte by byte |
| `EvmTransaction` | `evm_parse_transaction`, amounts as text, `serialize_transaction`, `evm_sign_transaction` |
| `EcGroup` | the group the curve library offers, as the firmware's calls use it: order, generator, addition, multiples |
| `HdKeys` | BIP-32: node from a seed, `hd_private_derive`, `hd_public_neuter`, `hd_public_derive` |
| `Ecdsa` | `secp256k1_sign_digest_recoverable`: low S and the recovery parity |
| `DerivationPath` | `hd_private_derive_path`, the path text of `derive_address`, `parse_index` |
| `Mnemonic` | `bip39_generate_english_24` and `bip39_validate_english` |
| `Base58` | `encode_base58`, `base58check`, `b58check_dec` |
| `ExtendedKey` | `hd_serialize_private`, `hd_serialize_public`, `valid_private_key`, `serialize_payload`, the versions of the eight formats |
| `Segwit` | bech32 and bech32m with their real checksum, the regrouping of bits, SegWit programs |
| `CryptoNote` | the Edwards ladder, keys from a seed, block-wise Base58, standard addresses |
| `Hashes` | the streaming sponge of Keccak, the padding of RIPEMD-160 |
| `KeccakF` | the permutation of Keccak, a round at a time, with the source's tables and in 64 bits |
| `HexText` | hexadecimal in commands, answers and contracts |
| `Coins` | the network, coin and token tables, their lookups and self tests, `wallet address` and `wallet token` |
| `Addresses` | `derive_address` step by step, each kind of address, `address_from_script` |
| `BitcoinBytes` | the bytes of an unsigned transaction, its outputs and compact sizes, the BIP-143 preimage, DER, the signed transaction |
| `MC*` | finite values for the constants; `MC*Doc` add history variables for what the documentation says |
| `*Proof` | lemmas and theorems |

### How the state and the steps correspond to the code

**Command line and device** (`CliSession`, `CliAuth`, `CliReview`, `Device`)

- `clock` is `millis()`, starting at 0 at every boot. `Tick` lets one unit of
  time pass; handlers take no time, so every read of `millis()` in a handler is
  the same value.
- `phase` says where in `wallet_cli_service` the device is: `"check"` before the
  two deadline checks, `"drain"` in the receive loop. `Check` is both checks in
  their order, a command is one complete line of the receive loop, `Drained` is
  the return when nothing is waiting. Any number of commands, and any time up to
  `MaxLag`, may go by between two checks: that is what a busy host can do.
- `nvs` is the flash image: provisioned flag, salt, verifier, failure counter.
  `Written(pin, s, n)` is the image after the first `n` of the four writes of
  `provision_pin`; `ProvisionFails` stops at a checked write that fails,
  `ProvisionInterrupted` at a power loss. `CounterWritesFail` says whether a write
  of the counter, whose result no caller looks at, may be lost.
- `ReadsFail` says whether a read of NVS may fail on a device that runs on:
  `Preferences` gives no error, only the default or the length 0. `ValuesRead` is
  what the five reads of `wallet_cli_init`, joined by `&&`, then bring to RAM, and
  `CountRead` the counter as `wallet_cli_init` and `record_failure` see it, 0 for a
  read that fails.
- A salt is a model value; a verifier is the pair of PIN and salt, so that two
  verifiers are equal exactly when PBKDF2 of the same input made them. An answer
  to the challenge is the verifier the host used, or `NoAnswer`.
- A wallet is the seed it stands for. `PsbtOwner` gives the one wallet for which a
  PSBT parses; an EVM transaction parses for every wallet and is bound to it.
  `SameWallet` is the second check inside the two signature functions. That the
  signature functions really work this way is not taken for granted:
  `NoOtherWalletSigns` and `SignableByItsWallet` say it of `BitcoinPsbt`,
  `SignedByReviewer` and `ReviewerCanSign` of `EvmTransaction`.
- `screen` is the review on the display, or `None` for the catalog.
- `lag`, `idle`, `cooldown`, `reviewAge`, `emitted`, `opener`, `misread` and
  `asked_inside` are history: true
  elapsed times, counted by `Tick` (up to `IdleCap` and `AgeCap`, one more than an
  open session or a pending review may reach), the signed transaction this step
  printed, the answer that opened the session, whether the last boot did not find the
  PIN that was stored, and whether the standing challenge was asked for inside a
  session. No guard of a command reads
  them, with one exception that is a bound: `Tick` stops at `MaxLag` until the
  checks have run.
- `cooldown` is the true time left of the last failure's back-off. It is counted
  through power cycles, and a power cycle takes no time, which is the worst case.
- A `setup()` that fails, in a self test or because NVS does not open, ends in
  `phase = "off"`: the flash image is what it was, the RAM flag says
  unprovisioned, and no command runs until the next power cycle. A boot that
  succeeds or fails can follow any power loss, inside provisioning too.
- A boot whose `begin` succeeds and whose reads do not is another matter: the device
  runs on, unprovisioned, over a stored PIN. The next `auth provision` replaces that
  PIN (`doc_unread_pin`), and one that is cut short after the new salt leaves an image
  that no PIN opens. So `PinNeverReplaced` excepts a device whose last boot did not
  find the PIN (`misread`), and says that there is no other way;
  `ProvisioningAtomic` and `BackoffsNeverOverlap` are claims about devices whose
  reads succeed, `ReadsFail = FALSE`.
- In `CliReview` alone, `PublicQuery` stands for every public command that leaves
  wallet and review alone, those of `CliAuth` among them; in `Device` these are
  the actions of `CliAuth` themselves, conjoined with it.
- `Mirror` is the comparison of `loop()` after each service call. It happens only
  where there is a display, and `last_authenticated` is the sketch's static.

**Line editor** (`SerialLine`). One step is one character. `line_buffer` is a
function on `0 .. LineSize - 1`; erasing moves `line_used` only; a newline writes
the NUL and hands over the C string, everything before the first NUL.

**Bitcoin** (`BitcoinRequest`, `BitcoinPsbt`). One step is one record of one map,
chosen by the host, so that all orders, omissions and repetitions occur. `seen`
are the records read of the current map; the parser's four "have" flags are
membership in it. A key is the pair of wallet and path that derives it, a script
its kind and the key or script it hashes. `Finish` is the totals, the estimate and
the fee policy. `master` is the wallet the PSBT is parsed for.

**EVM** (`EvmRlp`, `EvmTransaction`). Transactions are sequences of bytes. The
layout of the prefix byte is given by four constants instead of 0x80, 55, 8 and
`sizeof(size_t)`, so that all forms occur within a few bytes; reader and writer
compute with them as the code computes with its own numbers. What
`find_network_profile` returns to the caller is an EVM network with a chain id:
`Networks` holds these. `received` is what `evm_parse_transaction` was called
with, `request` the review, `signed` what `evm_sign_transaction` returned, with
the key that was used. The hash that binds a request is known by what is hashed.

**Keys** (`EcGroup`, `HdKeys`, `Ecdsa`). `node` is the one private node a walk holds;
`Derive(index)` replaces it by its child, as the loop of `hd_private_derive_path`
does. HMAC and fingerprint are any functions, so that both invalid offsets and the
child at infinity are among their values. The nonce of RFC 6979 is any scalar, and
what the library signs and verifies is modelled by its definition. `EcSpec` is what
`evm_sign_transaction` does with both: it walks to a node and signs once with its key;
`out_signature` is what came of it.

**Texts, tables and bytes** (the other modules of the last block). These parts of the
firmware keep no state between calls: they are operators that walk through their
input as the code does, with its buffers, limits and early returns. Each has a
property that compares it with a definition written from what the text means: the
digits of a number in base 58, the sum a ladder stands for, the multiple of the
order, the words of an entropy, the message the blocks of a hash are cut from, the
permutation of FIPS 202. A mutant beside the operator shows that the comparison
sees the mistakes that are plausible there. Hashes and checksums that are only
compared are functions that spread their inputs over few values, so that they
collide, and mismatch, within the bounds; where a format's checksum is the matter
(`Segwit`) it is the real one. `Coins` holds the tables themselves, row by row.

## 3. Runs

| run | module | distinct states | shows |
|---|---|---|---|
| `auth_safety` | `MCCliAuth` | 51 993 | authentication with failed writes, failed boots and power cycles, where reads of NVS succeed |
| `review_safety` | `MCCliReview` | 29 670 | review and signature; refinement of `ReviewedSigning` |
| `device` | `MCDevice` | 70 302 | both halves with `setup()`, `loop()` and the mark, where reads of NVS may fail: safety across them, and liveness |
| `serial_line` | `MCSerialLine` | 160 | the character loop; refinement of `LineEditor` |
| `psbt` | `MCBitcoinPsbt` | 268 449 | every stream of PSBT records, and the second validation |
| `evm` | `MCEvmTransaction` | 12 025 | transfers and every one-byte alteration of some, and the second parse |
| `wallet_data` | `MCWalletData` | 154 633 | keys, texts, tables and bytes: twelve properties, each against a definition of what is meant |
| `doc_backoff_bound` | `MCCliAuthDoc` | violated | a challenge can be refused for half a turn of the clock though no back-off runs |
| `doc_timeout` | `MCCliAuthDoc` | violated | a command is carried out on an expired session |
| `doc_persistent_counter` | `MCCliAuth` | violated | a lost counter write and a power cycle end the back-off early |
| `doc_evm_failure` | `MCCliReviewDoc` | violated | a failed `evm inspect` may leave the earlier review signable |
| `doc_unread_pin` | `MCCliAuthDoc` | violated | a device whose reads of NVS fail at boot runs on unprovisioned over a stored PIN, and takes another one |

The properties of each run stand, with their meaning, at the end of the module
that is checked (those of `wallet_data` in `MCWalletData`, from the definitions at
the end of each module); `PROJECT.json` lists them with the hazards they are for.

### Bounds

*Command line.* `ClockMod` is a small even number instead of 2^32 and the times
are scaled with it, in the order the firmware has them; it is chosen so that every
deadline can be set before the wrap and reached after it, and so that the clock
passes half a turn ahead of a stale deadline. `MaxLag` is one or two units: enough
for a check to miss the very instant of a deadline and for commands to arrive in
between. `MaxFailures` is small so that the counter saturates, and `MaxBackoff`
cuts the exponential so that both branches of `Delay` occur. Two PINs and two
salts, two wallets, one transaction of each kind for each case, and two codes (0,
which is also what a cleared code looks like, and another) make two reviews that
differ, two that agree in the code, and a wallet that owns a transaction and one
that does not. `device` has the smallest of these sets (two PINs, one salt, one
wallet, one transaction of each kind), because what it is about is the two halves
together; it uses no symmetry, since it checks liveness. `ReadsFail` is TRUE in
`device`, where `PinNeverReplaced` is checked, and in `doc_unread_pin`; it is FALSE in
the other runs of `CliAuth`, two of whose properties it would spoil in the way
described above; counter writes fail in
`doc_persistent_counter` alone.

*Line.* A buffer of five and two characters: every pattern of typing, erasing and
overflow of a shorter line over a longer one.

*PSBT.* Two wallets whose four-byte fingerprints agree; up to two inputs and two
outputs, so that totals, indexes and "the last one" occur, where `MaxInputs` and
`MaxOutputs` are two and transactions with three of either are received too; a legal
and an illegal path of each kind. `MaxSupply` is 200 and `MaxFee` 160, with amounts at, below and
above; the rate is 1, so that it binds as well. `WordMod` is 1000 and is not
reached, as 2^64 cannot be reached in the firmware by amounts that each pass the
supply check: the overflow guards are there and TLC cannot tell them apart.

*EVM.* 22 byte values, short forms up to 5 bytes: the call data and the outer list
take a one-byte length, and a signed token call reaches two-byte numbers for
amounts and signature. Two-byte words wrap at 484, so that the fee product
does wrap and a nonce may be one too large. Three networks, of which two share the
chain id and two the coin type; four tokens, one closed to signing and one with the
contract of another network's. `MaxUnsigned` is 34, what `TransferRoomAssumption` asks
for, and `MaxSigned` more, as in the firmware.

*Wallet data.* The state is a subject and an input that grows by one symbol, so that
every input up to a length is a state and every property is checked on it.

- Keys: the curve y² = x³ + 7 over 43 elements, 31 points, of which some have an
  abscissa above the order. The HD tree is walked from a seed to depth 3, the last one,
  two more seeds being refused; indexes below 6, hardened from 3 on; HMAC values up to
  33, so that both refusals of an offset and the child at infinity occur. At every node
  all 34 digests are signed with every nonce that RFC 6979 may yield.
- Paths of up to six characters over `m / h 0 1 6`, and indexes of five, with words
  of 32 and hardened offset 16: numbers around both limits and beyond them. Printed
  paths have up to five components.
- Mnemonics of up to seven pieces over three of eight words and the space, three and
  six words being legal lengths: every spacing, every wrong count and every checksum.
  The generator is checked on entropies of two bytes.
- Base58: payloads of up to four bytes among 0, 1, 57, 58 and 255, so that leading
  zeros, the end of the alphabet and the largest digits occur; texts of up to five
  characters with a foreign one among them, and every text that differs in one
  character or in length from that of a payload.
- Extended keys: every format, both kinds of key, the least and the greatest node,
  whose 82 bytes are the longest payload of Base58; private keys of 0, 1, the real
  order less one, the order, and all bits set.
- SegWit: the real checksum and limits; every version around 16 and 17, programs of
  1, 2, 20, 32, 40 and 41 bytes, each text with every one of its symbols altered, its
  case mixed and its prefix exchanged; groups of up to four five-bit values under both
  encodings.
- CryptoNote: an Edwards curve over 53 elements whose base point has order 17; every scalar below 40; seeds; blocks of up to nine bytes 0 or 255, one more than a full block.
- Hashes: a rate of 4 bytes, messages cut in up to four pieces around it; RIPEMD
  messages of 0 to 40 bytes with blocks of 8; all 24 rounds on states that fill
  every lane.
- Bitcoin bytes: numbers are to base 8, so that every form of a compact size begins
  and ends within a few thousand; amounts up to 10 000; transactions of up to three
  inputs and outputs where two are legal, cut at every byte and lengthened; integers
  of three bytes for signatures, DER with values on both sides of the sign bit.
- Tables: complete, every name in both cases with every index of two characters.

`CHECK_DEADLOCK` is on in every run of the device, which never stops, and off in
`wallet_data` only, whose inputs end.

### Fairness

`Device!FairSpec` asks for weak fairness of `Tick`, `Check` and `Drained`: time
goes on, `loop()` calls the service routine for ever, and the host pauses long
enough for the receive buffer to run dry once in a while. The last is an assumption
on the host: one that sends without a pause keeps the receive loop running, and
neither deadline is looked at (`TimeoutStopsCommands` and `MaxLag` are about
this). Nothing is assumed about the user, who may leave at any moment.

## 4. Proofs

All theorems rest only on the named assumptions of the modules:

- the clock is wide enough for the delays (`ClockAssumption`, `SessionAssumption`,
  `AuthAssumption`, `ReviewAssumption`), and `DeviceAssumption` is those of the two halves;
- the line buffer has a byte (`LineAssumption`);
- records have the fields of their type, and the whole supply at every input fits the
  64-bit total (`RequestAssumption`, `PsbtAssumption`), and
  model values are distinct (`BuildFlags`, `NoneAssumption`);
- the buffer of a signed Bitcoin transaction holds the largest one the limits allow
  (`BufferAssumption`: 1932 bytes of 4096 with the firmware's numbers);
- the layout of RLP is built from positive numbers (`RlpAssumption`), bytes are bytes,
  a chain id and the halves of a signature have the width they are stored in, and a
  token has a number of decimals (`SizeAssumption`, `ByteAssumption`); the least gas
  limit the parser takes is not 0 (it is 21000), and the fee limit fits a word;
- the buffer of a signed EVM transaction has room for the signature beside the longest
  unsigned one (`RoomAssumption`: 340 bytes of 384). These two sizes are the
  `HEXWALLET_*` macros a build may override, and the theorem holds only for builds that
  keep the relation;
- a transfer has fields of its types (`TransferAssumption`), and the buffer of an unsigned
  transaction holds the longest call of a token (`TransferRoomAssumption`: 155 bytes of
  256);
- a byte has more than three values, and the limits on inputs, outputs, scripts and
  amounts fit eight bytes (`BytesAssumption`);
- the curve is a commutative group of prime order generated by `G`, and HMAC has the
  range of a scalar (`OrderAssumption`, `GroupLaw`, `HmacAssumption`, `IndexAssumption`);
- every key has an inverse modulo the order, a point and its opposite have the same
  abscissa, and abscissa and parity name a point (`InverseAssumption`,
  `CurveAssumption`). These hold because order and field are odd primes.

The firmware's constants satisfy them.

| theorem | says | along which argument |
|---|---|---|
| `CliAuthProof!TypeCorrect` | `TypeOK` | `DelayRange` and `LaterIsInstant` bound the back-off; `SessionTypes` for the shared half |
| `CliAuthProof!SessionsAreBounded` | `SessionInv`, `SessionBounded` | `SessionInv` is inductive: the age since the last check, `lag`, makes up for the checks that have not run yet; `SinceAfterTick` carries the unsigned difference over the wrap |
| `CliAuthProof!ProvisioningIsAtomic` | `ProvisioningAtomic`, where reads of NVS succeed | `AtomicInv` on top of `StoreInv`: the verifier in flash is made under the salt beside it, unless the flag is unset; a provisioning starts from an unset flag only, because a boot that reads everything finds what is stored (`RestartReads`) |
| `CliAuthProof!StoredPinStays` | `PinNeverReplaced`, whether or not reads fail | `StoreInv`: wherever a command can run, a flag in flash that RAM lacks means a boot that did not find the PIN, and RAM copies agree with flash once provisioned. Without it the refusal on the RAM flag would not protect the flash. `OpenMeansUnread` is the first half at the steps that write, `PinKept` the result for one step |
| `CliAuthProof!BackoffsAreSpaced` | `BackoffInv`, `BackoffsNeverOverlap`, where counter writes reach the flash and reads succeed | `BackoffIInv` adds that a running back-off means a provisioned device: provisioning resets the counter a reboot would need |
| `CliReviewProof!ReviewInvariants` | the five invariants of `CliReview` | one inductive invariant; `StepShape` reduces every command to five cases (clears, keeps, draws, signs, tick); `DeadlineMoves` is the arithmetic of the wrapped deadline |
| `CliReviewProof!ReviewKeepsItsPromise` | `CliReview` implements `ReviewedSigning` | step simulation on the same five cases; that a signature comes before the window is over needs `ReviewAgeInv` |
| `CliReviewProof!LockingEmptiesTheDevice`, `AtMostOneReview` | `ClosedHoldsNothing`, `OneLiveReview` | conjuncts of that invariant, each a promise of its own |
| `CliReviewProof!NothingSignedUnseen` | `SignedAsShown` | no handler that signs reads the screen, so this rests on the invariant before the step: `ScreenShowsPending` puts the pending review on it, `OneLiveReview` makes it the request of the buffer that is signed, and the signer's own check makes the wallet that signs the one the review is for |
| `DeviceProof!SessionIsPinHolders` | `SignedByPinHolder` | `DeviceIInv`: RAM copy and flash agree once provisioned (`CopyIsStored`), a challenge needs a verifier, an open session was opened with the stored one (`OpenedWithStored`), and wallet, review and signature need an open session (`HeldByOpen`). The challenge is the step that would be lost without `CopyIsStored`: it lets `auth unlock` compare with RAM |
| `DeviceProof!MarkTellsTheTruth` | `MarkIsFresh`, `LockedMeansEmpty` | `MarkInv` of the same invariant: both copies of the mark agree always, and with the session when a round begins; `AskedInv`: a challenge asked for in a session stands only while one is open, since every way to end it drops the challenge. `SetupShape`, `PublicShape` and `WalletCommandShape` say what the steps of the two halves have in common |
| `AccountProof!NodesAreUsable` | `NodeOK` | inductive: `hd_private_derive` refuses the one offset and the one sum that would leave the range |
| `AccountProof!WatchersFollow` | `PublicFollowsPrivate` | from `NodeOK`: the multiple of a sum is the sum of the multiples, the point at infinity is the multiple of 0 alone, and both functions hash the same bytes below the hardened offset |
| `SerialLineProof!LineStaysInside` | `TypeOK`, `LineIsSolid` | inductive together: without `LineIsSolid` the string handed over need not end where the line does |
| `SerialLineProof!LinesAreReadAsTyped` | `SerialLine` implements `LineEditor` | step simulation under `Typed`; `StringOfLine` says where the C string ends |
| `BitcoinPsbtProof!TypeCorrect` | `TypeOK` | `PsbtInv`, one lemma per action; it ties every field of an input or output to the record that set it |
| `BitcoinPsbtProof!BoundToItsWallet` | `NoOtherWalletSigns` | `PsbtInv`: a closed input names a key of `master`, and a key names its wallet, whatever the fingerprints |
| `BitcoinPsbtProof!OwnOutputsAreOwn` | `ChangeIsOwn` | `PsbtInv`: an output is marked only by an accepted record, and later steps leave it alone |
| `BitcoinPsbtProof!InputsAreTheWallets` | the input part of `SignableByItsWallet` | `SpendInv` on top of `PsbtInv`: a map closes only over a witness or nested script of the key on its path, and nothing touches an input once its map is closed |
| `BitcoinPsbtProof!MoneyIsCounted` | `MoneyInv`: the two running totals | inductive on top of `PsbtInv`: `input_total` is the sum over the maps that are closed, `output_total` over all outputs, within the limits. A later record that changed a value already counted would break it; no record does, because a repeated one is refused |
| `BitcoinPsbtProof!ReviewTellsTheFee` | `ReviewIsTrue` | from `MoneyInv` when all maps are closed (`AllCounted`): the difference does not wrap, and is what the policy was held against |
| `BitcoinPsbtProof!FeeRateIsOfTheWholeSize` | `EstimateCovers` | `SpendInv` says which inputs are nested; the sizes the parser adds up bound those of the signed transaction input by input, with the parts of each sum compared by `SumBound` of `FoldFacts` |
| `BitcoinPsbtProof!AcceptedIsSignable` | `SignableByItsWallet` | the three invariants together: keys are found again (`SpendInv`), the second validation adds the same amounts (`MoneyInv`), and the buffer suffices for the largest mix (`BufferAssumption`) |
| `AccountProof!ReviewerSigns` | `SignedByReviewer` | `SignInv`: a held request is the parser's result on what was received, and what is signed is the serialization of the request still held; `ParsedNames` and `SignerIsReviewer` say what parser and signer leave in their results, for every layout and every stream of bytes |
| `AccountProof!FeeIsWhatItSays` | `FeeIsBounded` | `ParsedFee`: a price of at most `MaxFee` divided by the gas means that the product is exact, below the word and within the limit |
| `AccountProof!ReviewedCanBeSigned` | `ReviewerCanSign` | the second parse is of the same bytes; `SignedFieldsType`, `SignatureFieldsFit` and the length of a written list bound what is added, and `RoomAssumption` holds it |
| `AccountProof!ReviewedIsSigned` | `SignedIsReviewed` | that what is signed reads back, field by field, as what was reviewed. `PayloadReadBack` is the round trip of one item (prefix, length of the length, payload), `ReadsSpelled` of a sequence of them, `FieldsReadBack` of a transaction: both serializations are spelled by the same kept fields, followed by the chain or by the signature |
| `AccountProof!ReviewNamesTheBytes` | `ReviewDeterminesBytes` | that the review leaves no choice of the bytes. `AmountIsDenoted`: the decimal text, with its point set, its zeros cut and its leading zero added, denotes the amount it was made of; `PaddedIs`: an accepted word is its number padded; `CallIs`: so a transfer call is spelled by recipient and amount, and no byte follows; `TypedEncoding`, `LegacyEncoding`: the items the parser read, written again, are the bytes received, and `ParsedTransfer` puts the shown values in their places |
| `AccountProof!TransfersAreAccepted` | `AcceptsTransfers` | the opposite direction: nothing that keeps the policy is refused. `AnsweredInv` of `SignInv` says that `request` is the parser's answer to `received`, so a refusal would have to be the parser's; `FieldsRead` follows the reader through every item the writer makes, `PayloadFits` and `UnsignedFits` the sizes, `NumberAccepted` the padding, and `DueIsParsed` the parser's checks one by one, the last of them being that it writes the same bytes again (`SameWritten`) |
| `AccountProof!SignersAreRecovered` | `SignatureRecovers` | `NodeSigned`: what was signed was signed with the key of the node, which `NodeOK` bounds. `VerificationPointIs`: the verifier comes to the multiple of G by (z + r·d)/s; `FactorIsNonce`: that is the nonce or its opposite, as s was kept or negated, so the abscissa is the nonce's and verification passes; `RecoveryFactor`: the same point gives d back, and by `CurveAssumption` the published parity picks it. `TimesOfMultiple` is the one induction, on the number of additions |
| `DeviceProof!LockedDeviceIsEmpty` | `LockedMeansEmpty` | from `MarkInv`, `HeldByOpen` and `AskedInv`: the mark is the session's, and a closed session holds nothing and leaves no challenge |
| `BitcoinPsbtProof!WellFormedInputsPass` | `AcceptsWellFormedInputs` | `SeenInv` on top of `PsbtInv`: the records of the map being read were all accepted, no two have one type, and each has left in the input what it says, which no later one overwrote (`LeftKept`). So at the separator a well-formed map passes every check but the sum, and `TotalFits` from `MoneyInv` shows that the guard against overflow refuses nothing under the supply |
| `BitcoinPsbtProof!TransactionsAreCanonical` | `UnsignedIsCanonical` for every sequence of bytes, which `TransactionReadsBack` checks on samples and what is near them | `AcceptedTransactions`: an accepted transaction is within the limits, and each reader leaves what follows the bytes its writer would make of the value: `ReadingNumbers`, `ReadingLengths` (one lemma for the three long forms, each refused below the least number it is for), `ReadingInputs`, `ReadingOutputs`. `ItemsLaid` carries this from one item to a counted list, by induction on the number of items read |
| `BitcoinPsbtProof!TransactionsAreRead` | every member of `Transactions` is read from its bytes | the opposite direction, `NumbersReadBack`, `LengthsAreRead`, `InputsAreRead`, `OutputsAreRead` and `ItemsRead`, each for any bytes that follow |
| `BitcoinPsbtProof!LengthsAreCanonical` | `LengthIsCanonical` and `LengthReadsBack`, for all bytes and all lengths | `FormsFollow`: each form reaches where the next one begins, so exactly one is for a number |
| `DeviceProof!AuthenticationRuns`, `SigningRuns` | `Device` implements `CliAuth` and `CliReview` | step simulation: every action of the device is an action of the half, or a step that leaves its variables alone. All the theorems of `CliAuthProof` and `CliReviewProof` are therefore about the device too |
| `DeviceProof!StoredPinSurvives` | `PinNeverReplaced` of the device, whether or not reads fail | `CliAuthProof!StoredPinStays`, instantiated on the variables of the device, through `AuthenticationRuns`; `SameHalf` says that the half the device steps through and the half the theorem is about are one |

The provers have no induction over data of their own. What is proved about sums,
positional numbers and lists rests on well-founded sets instead: a recursive function
is shown to exist over the subsets of a finite set or the numbers below a bound
(`SumRecursion`, `NatRecursion`), the `CHOOSE` of a fold is then that function, and a
statement about all of its values follows from the least counterexample. `FoldFacts`
has these arguments once, and what follows for the digits of a number in a base
(`NumeralOfDigits`, `DigitsOfNumeral`), which are the bytes of RLP and the decimals of
an amount; `ValueByBytes` and `ReadItemsByStep` of `AccountProof`, `ItemsExist` of
`BitcoinPsbtProof` and `FlattenByPiece` apply them to what the readers and writers of RLP
and of Bitcoin compute with.

Only model-checked:

- the liveness properties of `device`: fairness is out of TLAPS's reach;
- of `wallet_data` everything but `PublicFollowsPrivate`, `SignatureRecovers` and the
  unsigned transactions and lengths of `TransactionReadsBack`: texts, tables and bit
  patterns, in modules of which several declare recursive operators or use `Bitwise`,
  out of the reach of the provers installed. The run takes a byte of 8 values, so the
  tags of its scripts are no bytes there; the theorems are about bytes of any size, the
  256 values of the firmware among them;
- the five statements of the documentation that the code does not keep.

## 5. Not modelled, and the plan

Not modelled:

- the libraries: SHA-2, HMAC, PBKDF2, the arithmetic of secp256k1 (its calls are used
  by their definition), the random source, the drawing of LVGL;
- the compression function of RIPEMD-160, straight-line bit arithmetic without a
  branch, which its published vectors cover;
- the wording of replies, the printed lists and the search of the catalogue, the
  export of keys as text, the rendering of a review on the panel;
- the vectors inside the self tests. That a failing self test keeps the device off is
  modelled (`BootFails`), and so are the self tests that walk through the tables.

A remark that is no finding, since no text of the repository says otherwise:
`bip39_validate_english` takes a mnemonic with one space after its last word, and
`bip39_seed_from_english` hashes the text as it was typed, so that the same words with
and without that space are two wallets. `MnemonicsAreChecked` states exactly which
spacings are taken.

Done, in this order: authentication and review (`CliAuth`, `CliReview`), the line
editor, the composite `Device`, the PSBT parser, the EVM parser, keys, codecs,
registries and hashes (`MCWalletData`), `DeviceProof`, the keys and
signatures in `AccountProof`, the totals, sizes, limits and accepted maps of a PSBT in
`BitcoinPsbtProof`, the RLP round trip, the decimal round trip and the accepted transfers
in `AccountProof`, the bytes of an unsigned Bitcoin transaction in `BitcoinPsbtProof`. Every safety property of the components that change state is thereby a
theorem.

What would come next: the signed bytes of a Bitcoin transaction, then the round trips of
the text codecs.
