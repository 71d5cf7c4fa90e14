----------------------------- MODULE CliReview ------------------------------
(***************************************************************************)
(* Wallet, transaction review and signature on the serial interface, with  *)
(* the screen the user reads.  The two inspect commands fill one of two    *)
(* static request buffers and draw a confirmation code; the two sign       *)
(* commands take the code back.  The wallet in RAM may be replaced at any  *)
(* moment in between.                                                      *)
(*                                                                         *)
(* A wallet is the seed it stands for.  Parsing a PSBT succeeds only for   *)
(* the wallet whose keys it names (PsbtOwner); an EVM transaction names    *)
(* none and is bound to the wallet at review.  How a session is opened is  *)
(* CliAuth's matter: here it may open at any prompt.                       *)
(***************************************************************************)
EXTENDS CliSession, TransportPolicy

CONSTANTS
    Wallets,          \* seeds a generate or an import may bring
    BitcoinTxs,       \* well-formed PSBTs within the limits
    EvmTxs,           \* well-formed unsigned EVM transactions, with network and index
    PsbtOwner,        \* the wallet that holds the keys of a PSBT's inputs
    Codes,            \* confirmation codes; 0 is one of them
    ApprovalWindow,   \* kTransactionApprovalMs
    None

Bitcoin == "Bitcoin"
Evm == "Evm"
NoKind == "None"      \* PendingTransactionKind::None
NotACode == -1        \* an argument that is not six digits

BitcoinRequests == [tx: BitcoinTxs, wallet: Wallets]
EvmRequests == [tx: EvmTxs, wallet: Wallets]
Reviews ==
    [kind: {Bitcoin}, request: BitcoinRequests, code: Codes] \cup
    [kind: {Evm}, request: EvmRequests, code: Codes]

ASSUME ReviewAssumption ==
    /\ PsbtOwner \in [BitcoinTxs -> Wallets]
    /\ Codes \subseteq Nat /\ 0 \in Codes
    /\ ApprovalWindow \in Nat \ {0}
    /\ 2 * (ApprovalWindow + MaxLag) < ClockMod
    /\ None \notin Wallets \cup BitcoinRequests \cup EvmRequests \cup Reviews

VARIABLES
    display_is_available,
    wallet,                     \* the mnemonic in RAM, or None when not loaded
    pending_transaction,        \* the Bitcoin request buffer, or None when cleared
    pending_evm_transaction,    \* the EVM request buffer, or None when cleared
    pending_transaction_kind,
    transaction_pending,
    transaction_approval,       \* the code drawn, 0 when cleared
    transaction_expires_at,
    screen,                     \* the review on the display, None for the catalog
    emitted,                    \* the signed transaction this step printed, or None
    reviewAge                   \* history: true age of the pending review, counted up to AgeCap

pendingVars == <<pending_transaction, pending_evm_transaction, pending_transaction_kind,
                 transaction_pending, transaction_approval, transaction_expires_at, reviewAge>>
reviewVars == <<display_is_available, wallet, pendingVars, screen, emitted>>
vars == <<sessionVars, reviewVars>>

\* Bound of the history: one more than the age of a review may reach.
AgeCap == ApprovalWindow + MaxLag
Older(age) == IF age < AgeCap THEN age + 1 ELSE age

TypeOK ==
    /\ SessionTypeOK
    /\ display_is_available \in BOOLEAN
    /\ wallet \in Wallets \cup {None}
    /\ pending_transaction \in BitcoinRequests \cup {None}
    /\ pending_evm_transaction \in EvmRequests \cup {None}
    /\ pending_transaction_kind \in {Bitcoin, Evm, NoKind}
    /\ transaction_pending \in BOOLEAN
    /\ transaction_approval \in Codes
    /\ transaction_expires_at \in Instant
    /\ screen \in Reviews \cup {None}
    /\ emitted \in Reviews \cup {None}
    /\ reviewAge \in 0 .. AgeCap

-----------------------------------------------------------------------------
clear_pending_transaction ==
    /\ pending_transaction' = None /\ pending_evm_transaction' = None
    /\ pending_transaction_kind' = NoKind
    /\ transaction_pending' = FALSE
    /\ transaction_approval' = 0 /\ transaction_expires_at' = 0
    /\ reviewAge' = 0

PendingKept == UNCHANGED pendingVars

\* Mutant: the wallet goes, the review of its transaction stays.
clear_wallet_only == PendingKept /\ wallet' = None

clear_wallet == clear_pending_transaction /\ wallet' = None

\* The display keeps its content unless a view replaces it.
ScreenKept == UNCHANGED <<display_is_available, screen>>
wallet_ui_show_catalog == screen' = None /\ UNCHANGED display_is_available

\* Mutant: a review does not replace the one already on the display.
wallet_ui_keep_first(review) ==
    /\ screen' = IF display_is_available /\ screen = None THEN review ELSE screen
    /\ UNCHANGED display_is_available

wallet_ui_show_transaction(review) ==
    /\ screen' = IF display_is_available THEN review ELSE None
    /\ UNCHANGED display_is_available

Silent == emitted' = None

\* The transport check of both inspect and both sign handlers.
SerialAllows(operation) ==
    wallet_transport_allows("SerialUsb", operation,
        [authenticated |-> TRUE, paired |-> FALSE, trusted_display |-> display_is_available])

\* The request the pending review is about.
PendingRequest ==
    IF pending_transaction_kind = Bitcoin THEN pending_transaction
                                          ELSE pending_evm_transaction
PendingReview ==
    IF transaction_pending
    THEN [kind |-> pending_transaction_kind, request |-> PendingRequest,
          code |-> transaction_approval]
    ELSE None

\* Mutant: only the deadline of a Bitcoin review is looked at.
ReviewOfBitcoinExpired ==
    pending_transaction_kind = Bitcoin /\ deadline_reached(clock, transaction_expires_at)

ReviewExpired == deadline_reached(clock, transaction_expires_at)

-----------------------------------------------------------------------------
ReviewInit ==
    /\ display_is_available \in BOOLEAN
    /\ wallet = None
    /\ pending_transaction = None /\ pending_evm_transaction = None
    /\ pending_transaction_kind = NoKind /\ transaction_pending = FALSE
    /\ transaction_approval = 0 /\ transaction_expires_at = 0 /\ reviewAge = 0
    /\ screen = None /\ emitted = None

Init == SessionInit /\ ReviewInit

\* setup(): RAM is gone, and the display may or may not come up this time.
Boot ==
    /\ SessionBoot
    /\ clear_wallet
    /\ display_is_available' \in BOOLEAN /\ screen' = None
    /\ Silent

\* setup() fails: a device that runs no command.
BootFails ==
    /\ SessionOff
    /\ clear_wallet
    /\ display_is_available' \in BOOLEAN /\ screen' = None
    /\ Silent

-----------------------------------------------------------------------------
(* The wallet in RAM *)

\* The old wallet is gone before the random source is asked, which may fail.
WalletGenerate ==
    /\ require_authentication
    /\ wallet' \in Wallets \cup {None}
    /\ PendingKept /\ ScreenKept /\ Silent

\* A mnemonic that does not validate leaves the old wallet in place.
WalletImport(w) ==
    /\ require_authentication
    /\ wallet' = w
    /\ PendingKept /\ ScreenKept /\ Silent

\* Authenticated commands that only print: addresses, token accounts, the
\* self-tests, a refused import, a wallet command that does not parse.
AuthenticatedQuery ==
    /\ require_authentication
    /\ UNCHANGED wallet
    /\ PendingKept /\ ScreenKept /\ Silent

-----------------------------------------------------------------------------
(* Review *)

\* The common end of both inspect handlers once the request has parsed.
Present(kind, request, code) ==
    /\ transaction_approval' = code
    /\ transaction_expires_at' = Later(clock, ApprovalWindow)
    /\ transaction_pending' = TRUE
    /\ pending_transaction_kind' = kind
    /\ reviewAge' = 0
    /\ wallet_ui_show_transaction([kind |-> kind, request |-> request, code |-> code])

CanInspect ==
    /\ require_authentication
    /\ SerialAllows("SigningRequest")
    /\ wallet # None
    /\ UNCHANGED wallet /\ Silent

inspect_transaction(tx, code) ==
    LET request == [tx |-> tx, wallet |-> wallet]
    IN  /\ CanInspect
        /\ wallet = PsbtOwner[tx]
        /\ pending_transaction' = request /\ pending_evm_transaction' = None
        /\ Present(Bitcoin, request, code)

\* Mutant: the request of an earlier Bitcoin review is not cleared first.
inspect_evm_over_bitcoin(tx, code) ==
    LET request == [tx |-> tx, wallet |-> wallet]
    IN  /\ CanInspect
        /\ pending_evm_transaction' = request /\ UNCHANGED pending_transaction
        /\ Present(Evm, request, code)

inspect_evm_transaction(tx, code) ==
    LET request == [tx |-> tx, wallet |-> wallet]
    IN  /\ CanInspect
        /\ pending_transaction' = None /\ pending_evm_transaction' = request
        /\ Present(Evm, request, code)

\* Decodable bytes that bitcoin_parse_psbt or evm_parse_transaction refuses:
\* the earlier review goes, its picture on the display stays.
InspectRefused == CanInspect /\ clear_pending_transaction /\ ScreenKept

\* Everything that fails before the earlier review is cleared: no display, no
\* wallet, bad hex, and for EVM an unknown network or a bad index.
InspectUnreadable == AuthenticatedQuery

-----------------------------------------------------------------------------
(* Signature *)

\* Mutant: the request is signed by whatever wallet is loaded.
AnyWalletSigns(request) == TRUE

\* bitcoin_sign_request derives the key of every input again, and
\* evm_sign_transaction parses the request again under the wallet: both fail
\* for another wallet than the reviewed one.
SameWallet(request) == request.wallet = wallet

\* The sign handler of one kind prints a signed transaction, with the keys of the
\* wallet that is loaded now.
Sign(kind, request, entered) ==
    /\ require_authentication
    /\ SerialAllows("ApprovalResponse")
    /\ transaction_pending /\ pending_transaction_kind = kind
    /\ ~ReviewExpired
    /\ entered = transaction_approval
    /\ wallet # None
    /\ SameWallet(request)
    /\ emitted' = [kind |-> kind, request |-> [tx |-> request.tx, wallet |-> wallet],
                   code |-> entered]
    /\ clear_pending_transaction
    /\ wallet_ui_show_catalog
    /\ UNCHANGED wallet

sign_transaction(entered) == Sign(Bitcoin, pending_transaction, entered)
sign_evm_transaction(entered) == Sign(Evm, pending_evm_transaction, entered)

\* A sign command of the pending kind that fails, at whichever check, or in the
\* signature itself, uses the review up.
SignRefused(kind) ==
    /\ require_authentication
    /\ ~SerialAllows("ApprovalResponse") \/ (transaction_pending /\ pending_transaction_kind = kind)
    /\ clear_pending_transaction
    /\ ScreenKept /\ Silent /\ UNCHANGED wallet

\* A sign command of the other kind, or with nothing pending, changes nothing.
SignNothing(kind) ==
    /\ require_authentication
    /\ SerialAllows("ApprovalResponse")
    /\ ~transaction_pending \/ pending_transaction_kind # kind
    /\ PendingKept /\ ScreenKept /\ Silent /\ UNCHANGED wallet

\* "tx reject" asks for no session and does not refresh one.
TxReject ==
    /\ PublicCommand
    /\ clear_pending_transaction
    /\ wallet_ui_show_catalog
    /\ Silent /\ UNCHANGED wallet

-----------------------------------------------------------------------------
(* Session and service loop *)

Unlock == SessionOpens /\ UNCHANGED wallet /\ PendingKept /\ ScreenKept /\ Silent

\* Public commands that touch neither wallet nor review: help, status, the
\* registries, auth begin, a wrong answer, provisioning.
PublicQuery == PublicCommand /\ UNCHANGED wallet /\ PendingKept /\ ScreenKept /\ Silent

Lock == SessionLocks /\ clear_wallet /\ ScreenKept /\ Silent

\* Both checks of wallet_cli_service, in their order.
Check ==
    /\ SessionCheck
    /\ IF SessionExpired THEN clear_wallet
       ELSE /\ UNCHANGED wallet
            /\ IF transaction_pending /\ ReviewExpired THEN clear_pending_transaction
                                                       ELSE PendingKept
    /\ ScreenKept /\ Silent

Drained == SessionDrained /\ UNCHANGED wallet /\ PendingKept /\ ScreenKept /\ Silent

Tick ==
    /\ SessionTick
    /\ reviewAge' = IF transaction_pending THEN Older(reviewAge) ELSE 0
    /\ UNCHANGED <<wallet, pending_transaction, pending_evm_transaction,
                   pending_transaction_kind, transaction_pending,
                   transaction_approval, transaction_expires_at>>
    /\ ScreenKept /\ Silent

Next ==
    \/ Tick \/ Check \/ Drained
    \/ Unlock \/ PublicQuery \/ Lock \/ Boot \/ BootFails
    \/ WalletGenerate
    \/ \E w \in Wallets : WalletImport(w)
    \/ AuthenticatedQuery
    \/ \E tx \in BitcoinTxs, code \in Codes : inspect_transaction(tx, code)
    \/ \E tx \in EvmTxs, code \in Codes : inspect_evm_transaction(tx, code)
    \/ InspectRefused \/ InspectUnreadable
    \/ \E entered \in Codes : sign_transaction(entered) \/ sign_evm_transaction(entered)
    \/ \E kind \in {Bitcoin, Evm} : SignRefused(kind) \/ SignNothing(kind)
    \/ TxReject

Spec == Init /\ [][Next]_vars

-----------------------------------------------------------------------------
(* Properties *)

\* While a review can be signed, the display shows that very request with that
\* very code: no command replaces the request under the picture or the picture
\* over the request.
ScreenShowsPending ==
    transaction_pending /\ display_is_available => screen = PendingReview

\* Nothing of the wallet survives the session: a closed session has no wallet,
\* no review and no signature of its own making, however it was closed.
ClosedHoldsNothing ==
    ~authenticated => /\ wallet = None
                      /\ ~transaction_pending
                      /\ pending_transaction = None /\ pending_evm_transaction = None
                      /\ transaction_approval = 0

\* The two buffers, the kind and the flag never disagree.
OneLiveReview ==
    /\ transaction_pending <=> pending_transaction_kind # NoKind
    /\ pending_transaction # None <=> pending_transaction_kind = Bitcoin
    /\ pending_evm_transaction # None <=> pending_transaction_kind = Evm

\* Strengthening: the deadline, in the clock's own width, is where the true age
\* of the review says it is, and the last check saw the review alive.
ReviewAgeInv ==
    transaction_pending =>
        /\ reviewAge <= ApprovalWindow =>
               Since(transaction_expires_at, clock) = ApprovalWindow - reviewAge
        /\ reviewAge > ApprovalWindow =>
               Since(clock, transaction_expires_at) = reviewAge - ApprovalWindow
        /\ reviewAge < ApprovalWindow + lag

\* What is signed is on the display when it is confirmed: this transaction, for the wallet
\* that signs it, with the code that was entered.  Only a build that gives the display up
\* signs otherwise, and only where there is none: the picture is drawn by inspect, and
\* nothing on the way to the signature, whose checks never look at it, may outdate it.
SignedAsShown ==
    [][emitted' # None => \/ screen = emitted'
                          \/ ~display_is_available /\ AllowHostOnlyConfirmation]_vars

\* The implementation of the promise: what can be taken up is the pending
\* review, and what was signed, by which wallet and on which code is what was
\* printed.
Promise == INSTANCE ReviewedSigning WITH
    Offers <- Reviews, Window <- ApprovalWindow,
    offer <- PendingReview, age <- reviewAge, signature <- emitted

SignsOnlyWhatWasReviewed == Promise!Spec
=============================================================================
