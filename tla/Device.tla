------------------------------- MODULE Device --------------------------------
(***************************************************************************)
(* The whole device: setup() and loop() around the serial interface, whose *)
(* authentication (CliAuth) and signing half (CliReview) share the session *)
(* and take every step together, and the mark LOCKED / UNLOCKED that       *)
(* loop() copies to the display.                                           *)
(***************************************************************************)
EXTENDS CliSession, TransportPolicy

CONSTANTS
    Pins, Salts, BackoffUnit, MaxExponent, MaxBackoff, MaxFailures, CounterWritesFail,
    ReadsFail,
    Wallets, BitcoinTxs, EvmTxs, PsbtOwner, Codes, ApprovalWindow,
    None

VARIABLES
    nvs, provisioned, salt, verifier, challenge_active, retry_after, cooldown, misread,
    display_is_available, wallet, pending_transaction, pending_evm_transaction,
    pending_transaction_kind, transaction_pending, transaction_approval,
    transaction_expires_at, screen, emitted, reviewAge,
    last_authenticated,      \* what loop() last told the UI
    session_authenticated,   \* the UI's copy: the mark reads UNLOCKED
    opener,                  \* history: the answer that opened the session, or None
    asked_inside             \* history: the standing challenge was asked for in an open session

Auth == INSTANCE CliAuth
Review == INSTANCE CliReview

ASSUME DeviceAssumption == Auth!AuthAssumption /\ Review!ReviewAssumption

authVars == <<nvs, provisioned, salt, verifier, misread, challenge_active, retry_after, cooldown>>
reviewVars == <<display_is_available, wallet, pending_transaction, pending_evm_transaction,
                pending_transaction_kind, transaction_pending, transaction_approval,
                transaction_expires_at, screen, emitted, reviewAge>>
markVars == <<last_authenticated, session_authenticated>>
historyVars == <<opener, asked_inside>>
vars == <<sessionVars, authVars, reviewVars, markVars, historyVars>>

-----------------------------------------------------------------------------
wallet_ui_set_authenticated(value) == session_authenticated' = value

\* wallet_ui_init and the statics of the sketch.
MarkReset == last_authenticated' = FALSE /\ wallet_ui_set_authenticated(FALSE)

\* Mutant: only an opened session is passed on.
MirrorOpening ==
    IF display_is_available /\ authenticated /\ ~last_authenticated
    THEN wallet_ui_set_authenticated(TRUE) /\ last_authenticated' = TRUE
    ELSE UNCHANGED markVars

\* After each service call, where there is a display.
Mirror ==
    IF display_is_available /\ authenticated # last_authenticated
    THEN wallet_ui_set_authenticated(authenticated) /\ last_authenticated' = authenticated
    ELSE UNCHANGED markVars

\* The histories where no session is opened and no challenge issued.
HistoryKept ==
    /\ opener' = IF authenticated' THEN opener ELSE None
    /\ asked_inside' = (asked_inside /\ challenge_active')

-----------------------------------------------------------------------------
Init ==
    /\ Auth!Init /\ Review!Init
    /\ last_authenticated = FALSE /\ session_authenticated = FALSE
    /\ opener = None /\ asked_inside = FALSE

\* setup() on the flash image that is left, whichever of its steps fails.
Setup(image) ==
    /\ \/ Auth!Boot(image) /\ Review!Boot
       \/ Auth!BootFails(image) /\ Review!BootFails
    /\ MarkReset
    /\ HistoryKept

PowerCycle == Setup(nvs)

ProvisionInterrupted(pin, s) ==
    /\ phase = "drain"
    /\ Auth!ProvisioningOpen
    /\ \E n \in 1 .. 4 : Setup(Auth!Written(pin, s, n))

\* The commands of provisioning, and wrong answers.
AuthCommand ==
    /\ \/ \E pin \in Pins, s \in Salts : Auth!ProvisionPin(pin, s) \/ Auth!ProvisionFails(pin, s)
       \/ \E answer \in Auth!Verifiers \cup {Auth!NoAnswer} : Auth!UnlockWrong(answer)
    /\ Review!PublicQuery
    /\ HistoryKept /\ UNCHANGED markVars

\* A challenge is issued whether or not a session is open.
Challenge ==
    /\ Auth!begin_challenge
    /\ Review!PublicQuery
    /\ opener' = opener /\ asked_inside' = authenticated
    /\ UNCHANGED markVars

Unlock(answer) ==
    /\ Auth!UnlockRight(answer)
    /\ Review!Unlock
    /\ opener' = answer /\ asked_inside' = FALSE
    /\ UNCHANGED markVars

\* The commands of the wallet, which ask for an open session.
WalletCommand ==
    /\ \/ Review!WalletGenerate
       \/ \E w \in Wallets : Review!WalletImport(w)
       \/ Review!AuthenticatedQuery
       \/ \E tx \in BitcoinTxs, code \in Codes : Review!inspect_transaction(tx, code)
       \/ \E tx \in EvmTxs, code \in Codes : Review!inspect_evm_transaction(tx, code)
       \/ Review!InspectRefused \/ Review!InspectUnreadable
       \/ \E entered \in Codes :
              Review!sign_transaction(entered) \/ Review!sign_evm_transaction(entered)
       \/ \E kind \in {"Bitcoin", "Evm"} : Review!SignRefused(kind) \/ Review!SignNothing(kind)
    /\ Auth!AuthenticatedCommand
    /\ HistoryKept /\ UNCHANGED markVars

\* The commands that ask for nothing: help, status, registries, tx reject.
OpenCommand ==
    /\ Review!PublicQuery \/ Review!TxReject
    /\ UNCHANGED authVars
    /\ HistoryKept /\ UNCHANGED markVars

Lock == Auth!Lock /\ Review!Lock /\ HistoryKept /\ UNCHANGED markVars
Check == Auth!Check /\ Review!Check /\ HistoryKept /\ UNCHANGED markVars
Drained == Auth!Drained /\ Review!Drained /\ Mirror /\ HistoryKept
Tick == Auth!Tick /\ Review!Tick /\ HistoryKept /\ UNCHANGED markVars

Next ==
    \/ Tick \/ Check \/ Drained
    \/ AuthCommand \/ Challenge
    \/ \E answer \in Auth!Verifiers : Unlock(answer)
    \/ WalletCommand \/ OpenCommand \/ Lock
    \/ PowerCycle
    \/ \E pin \in Pins, s \in Salts : ProvisionInterrupted(pin, s)

\* loop() is called for ever, time does not stop, and the host pauses long
\* enough for the receive buffer to run dry.  Nothing is asked of the user.
Fairness == WF_vars(Tick) /\ WF_vars(Check) /\ WF_vars(Drained)

Spec == Init /\ [][Next]_vars
FairSpec == Spec /\ Fairness

-----------------------------------------------------------------------------
(* Properties *)

\* Everything signed, and every wallet in RAM, belongs to a session that was
\* opened with the very PIN the flash holds at this moment: no order of
\* provisioning, unlocking, locking, expiry and power cycles carries a session
\* over to another PIN or to none.
SignedByPinHolder ==
    wallet # None \/ emitted # None => nvs.flag /\ opener = nvs.verifier

\* When a round of loop() begins, the display says LOCKED exactly when the session
\* is closed: no command, and no mix of commands and expiry within one service
\* call, leaves the mark behind.
MarkIsFresh ==
    phase = "check" /\ display_is_available => session_authenticated = authenticated

\* What the user may conclude from LOCKED at that moment: the wallet is out of
\* RAM, nothing can be signed, and a challenge that stands was asked for on the
\* locked device: one that was issued in a session ends with it, whether `lock`,
\* the timeout or a boot ends it, and is not left for someone to answer later.
LockedMeansEmpty ==
    phase = "check" /\ display_is_available /\ ~session_authenticated
    => /\ wallet = None /\ ~transaction_pending /\ emitted = None
       /\ challenge_active => ~asked_inside

\* The promise of CliAuth about the stored PIN, on the whole device.
PinNeverReplaced == Auth!PinNeverReplaced

\* An open session that is not used is closed in the end.
IdleSessionsEnd == authenticated ~> (~authenticated \/ idle = 0)

\* A review that is neither signed nor replaced is withdrawn in the end, even while
\* other commands keep the session open.
ReviewsEnd == transaction_pending ~> (~transaction_pending \/ reviewAge = 0)
=============================================================================
