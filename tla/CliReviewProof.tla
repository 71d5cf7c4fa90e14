--------------------------- MODULE CliReviewProof ---------------------------
(***************************************************************************)
(* Proofs about CliReview: its invariants, and that it implements          *)
(* ReviewedSigning, for every clock width, timeout, set of wallets,        *)
(* transactions and codes that meets the assumptions of the modules.       *)
(***************************************************************************)
EXTENDS CliReview, CliSessionProof

\* Every step of CliReview is, for the session, one of the session's own steps.
LEMMA NextIsSessionStep ==
    ASSUME [Next]_vars
    PROVE  SessionStep \/ UNCHANGED sessionVars
  <1>1. ASSUME NEW kind, NEW request, NEW entered, Sign(kind, request, entered)
        PROVE  require_authentication
    BY <1>1 DEF Sign
  <1>2. ASSUME NEW tx, NEW code, inspect_transaction(tx, code) \/ inspect_evm_transaction(tx, code)
        PROVE  require_authentication
    BY <1>2 DEF inspect_transaction, inspect_evm_transaction, CanInspect
  <1> QED
    BY <1>1, <1>2
       DEF Next, vars, SessionStep, Tick, Check, Drained, Unlock, PublicQuery, Lock, Boot, BootFails,
           WalletGenerate,
           WalletImport, AuthenticatedQuery, InspectRefused, InspectUnreadable, CanInspect,
           sign_transaction, sign_evm_transaction, SignRefused, SignNothing, TxReject

-----------------------------------------------------------------------------
(* Every step of CliReview does one of five things to the pending review; each *)
(* proof below follows these cases.                                            *)

Clears ==
    /\ clear_pending_transaction
    /\ emitted' = None
    /\ display_is_available' \in BOOLEAN /\ screen' \in {screen, None}
    /\ wallet' \in {wallet, None}
    /\ authenticated' = TRUE \/ wallet' = None \/ (authenticated' = authenticated /\ wallet' = wallet)

Keeps ==
    /\ PendingKept /\ ScreenKept
    /\ emitted' = None
    /\ clock' = clock
    /\ lag' = lag \/ (lag' = 0 /\ (transaction_pending => ~ReviewExpired))
    /\ wallet' \in Wallets \cup {wallet, None}
    /\ authenticated' = TRUE \/ (authenticated' = authenticated /\ wallet' = wallet)

Draws(kind, request, code) ==
    /\ Present(kind, request, code)
    /\ pending_transaction' = IF kind = Bitcoin THEN request ELSE None
    /\ pending_evm_transaction' = IF kind = Evm THEN request ELSE None
    /\ wallet' = wallet /\ authenticated' = TRUE
    /\ emitted' = None
    /\ clock' = clock /\ lag' = lag

Signs ==
    \/ \E entered \in Codes : sign_transaction(entered)
    \/ \E entered \in Codes : sign_evm_transaction(entered)

Draw == \E review \in Reviews : Draws(review.kind, review.request, review.code)

\* What a step can do to the reviews: clear them, keep them, draw one, sign one, or let time pass.
LEMMA StepShape ==
    ASSUME TypeOK, [Next]_vars
    PROVE  Clears \/ Keeps \/ Draw \/ Signs \/ Tick \/ UNCHANGED vars
  <1>1. CASE Drained \/ Unlock \/ PublicQuery
    BY <1>1 DEF Drained, Unlock, PublicQuery, PublicCommand, SessionDrained, SessionOpens,
                AtPrompt, Kept, Refreshed, Keeps, Silent
  <1>2. CASE Lock \/ Boot \/ BootFails
    BY <1>2 DEF Lock, Boot, BootFails, SessionLocks, SessionBoot, SessionOff, Closed, clear_wallet, Clears, Silent,
                ScreenKept, TypeOK
  <1>3. ASSUME WalletGenerate \/ (\E w \in Wallets : WalletImport(w)) \/ AuthenticatedQuery
               \/ InspectUnreadable \/ (\E kind \in {Bitcoin, Evm} : SignNothing(kind))
        PROVE  Keeps
    BY <1>3 DEF WalletGenerate, WalletImport, AuthenticatedQuery, InspectUnreadable,
                SignNothing, require_authentication, AtPrompt, Refreshed, Keeps, Silent
  <1>4. ASSUME InspectRefused \/ (\E kind \in {Bitcoin, Evm} : SignRefused(kind)) \/ TxReject
        PROVE  Clears
    BY <1>4 DEF InspectRefused, CanInspect, SignRefused, TxReject, PublicCommand, Kept,
                require_authentication, Refreshed, Clears, Silent, ScreenKept,
                wallet_ui_show_catalog, TypeOK
  <1>5. CASE Check
    <2>1. CASE SessionExpired \/ (transaction_pending /\ ReviewExpired)
      BY <1>5, <2>1 DEF Check, SessionCheck, Closed, Kept, clear_wallet, Clears, Silent,
                        ScreenKept, TypeOK
    <2>2. CASE ~(SessionExpired \/ (transaction_pending /\ ReviewExpired))
      BY <1>5, <2>2 DEF Check, SessionCheck, Kept, Keeps, Silent
    <2> QED
      BY <2>1, <2>2
  <1>6. ASSUME NEW tx \in BitcoinTxs, NEW code \in Codes, inspect_transaction(tx, code)
        PROVE  Draw
    <2> DEFINE request == [tx |-> tx, wallet |-> wallet]
               review  == [kind |-> Bitcoin, request |-> request, code |-> code]
    <2>1. wallet \in Wallets
      BY <1>6 DEF inspect_transaction, CanInspect, TypeOK
    <2>2. request \in BitcoinRequests
      BY <2>1 DEF BitcoinRequests
    <2>3. review \in Reviews
      BY <2>2 DEF Reviews
    <2>4. Draws(Bitcoin, request, code)
      BY <1>6 DEF inspect_transaction, CanInspect, require_authentication, AtPrompt,
                  Refreshed, Silent, Draws, Bitcoin, Evm
    <2> QED
      BY <2>3, <2>4 DEF Draw
  <1>7. ASSUME NEW tx \in EvmTxs, NEW code \in Codes, inspect_evm_transaction(tx, code)
        PROVE  Draw
    <2> DEFINE request == [tx |-> tx, wallet |-> wallet]
               review  == [kind |-> Evm, request |-> request, code |-> code]
    <2>1. wallet \in Wallets
      BY <1>7 DEF inspect_evm_transaction, CanInspect, TypeOK
    <2>2. request \in EvmRequests
      BY <2>1 DEF EvmRequests
    <2>3. review \in Reviews
      BY <2>2 DEF Reviews
    <2>4. Draws(Evm, request, code)
      BY <1>7 DEF inspect_evm_transaction, CanInspect, require_authentication, AtPrompt,
                  Refreshed, Silent, Draws, Bitcoin, Evm
    <2> QED
      BY <2>3, <2>4 DEF Draw
  <1> QED
    BY <1>1, <1>2, <1>3, <1>4, <1>5, <1>6, <1>7 DEF Next, Signs

\* What a signature does besides printing: it clears like any other command.
LEMMA SignShape ==
    ASSUME NEW kind, NEW request, NEW entered, Sign(kind, request, entered)
    PROVE  /\ transaction_pending /\ pending_transaction_kind = kind
           /\ ~ReviewExpired /\ entered = transaction_approval
           /\ wallet # None /\ request.wallet = wallet
           /\ emitted' = [kind |-> kind, request |-> [tx |-> request.tx, wallet |-> wallet],
                          code |-> entered]
           /\ clear_pending_transaction /\ screen' = None /\ wallet' = wallet
           /\ display_is_available' = display_is_available
           /\ display_is_available \/ AllowHostOnlyConfirmation
           /\ authenticated' = TRUE
  <1>1. SerialAllows("ApprovalResponse") => display_is_available \/ AllowHostOnlyConfirmation
    BY DEF SerialAllows, wallet_transport_allows, Lookups, Signing
  <1> QED
    BY <1>1 DEF Sign, wallet_ui_show_catalog, require_authentication, Refreshed, SameWallet

-----------------------------------------------------------------------------
(* The deadline and the clock *)

\* What the assumptions on the constants say together.
LEMMA ReviewConstants ==
    /\ ClockMod \in Nat /\ ApprovalWindow \in Nat \ {0} /\ MaxLag \in Nat
    /\ 2 * (ApprovalWindow + MaxLag) < ClockMod
  BY ClockAssumption, SessionAssumption, ReviewAssumption

\* Where a deadline stands, as the code computes it, when the review is a old.
DeadlineAt(e, t, a) ==
    /\ a <= ApprovalWindow => Since(e, t) = ApprovalWindow - a
    /\ a > ApprovalWindow => Since(t, e) = a - ApprovalWindow

\* The bound of the history is never the age of a review that is alive.
LEMMA AgeRange ==
    /\ AgeCap \in Nat /\ 0 \in 0 .. AgeCap
    /\ \A a \in 0 .. AgeCap : a \in Nat /\ Older(a) \in 0 .. AgeCap
    /\ \A a \in Nat : a < ApprovalWindow + MaxLag => Older(a) = a + 1
  BY ReviewConstants DEF AgeCap, Older

\* A tick brings the deadline one closer; the comparison on a wrapping clock is the one meant.
LEMMA DeadlineMoves ==
    ASSUME NEW e \in Instant, NEW t \in Instant, NEW a \in Nat,
           a < ApprovalWindow + MaxLag, DeadlineAt(e, t, a)
    PROVE  /\ DeadlineAt(e, Later(t, 1), a + 1)
           /\ ~deadline_reached(t, e) <=> a < ApprovalWindow
  <1>1. CASE a < ApprovalWindow
    BY <1>1, ReviewConstants DEF DeadlineAt, Later, Since, Instant, deadline_reached
  <1>2. CASE a = ApprovalWindow
    BY <1>2, ReviewConstants DEF DeadlineAt, Later, Since, Instant, deadline_reached
  <1>3. CASE a > ApprovalWindow
    BY <1>3, ReviewConstants DEF DeadlineAt, Later, Since, Instant, deadline_reached
  <1> QED
    BY <1>1, <1>2, <1>3, ReviewConstants

\* A new review has its whole window ahead.
LEMMA DeadlineStarts ==
    ASSUME NEW t \in Instant
    PROVE  Later(t, ApprovalWindow) \in Instant /\ DeadlineAt(Later(t, ApprovalWindow), t, 0)
  BY ReviewConstants DEF DeadlineAt, Later, Since, Instant

-----------------------------------------------------------------------------
(* Type correctness *)

\* What clearing the review leaves behind.
LEMMA Cleared ==
    ASSUME clear_pending_transaction
    PROVE  /\ pending_transaction' = None /\ pending_evm_transaction' = None
           /\ pending_transaction_kind' = NoKind /\ transaction_pending' = FALSE
           /\ transaction_approval' = 0 /\ transaction_expires_at' = 0 /\ reviewAge' = 0
           /\ PendingReview' = None
           /\ 0 \in Codes /\ 0 \in Instant /\ 0 \in 0 .. AgeCap
  BY ReviewAssumption, ClockAssumption, AgeRange DEF clear_pending_transaction, PendingReview, Instant

\* What drawing a code makes pending.
LEMMA Drawn ==
    ASSUME TypeOK, NEW review \in Reviews, Draws(review.kind, review.request, review.code)
    PROVE  /\ PendingReview' = review /\ transaction_pending' = TRUE
           /\ pending_transaction_kind' = review.kind
           /\ transaction_approval' = review.code /\ review.code \in Codes
           /\ transaction_expires_at' = Later(clock, ApprovalWindow)
           /\ reviewAge' = 0
           /\ screen' = IF display_is_available THEN review ELSE None
           /\ display_is_available' = display_is_available
           /\ \/ /\ review.kind = Bitcoin /\ pending_transaction' \in BitcoinRequests
                 /\ pending_evm_transaction' = None
              \/ /\ review.kind = Evm /\ pending_evm_transaction' \in EvmRequests
                 /\ pending_transaction' = None
  <1>1. /\ review = [kind |-> review.kind, request |-> review.request, code |-> review.code]
        /\ review.code \in Codes
        /\ \/ review.kind = Bitcoin /\ review.request \in BitcoinRequests
           \/ review.kind = Evm /\ review.request \in EvmRequests
    BY DEF Reviews
  <1>2. Bitcoin # Evm
    BY DEF Bitcoin, Evm
  <1>3. /\ transaction_pending' = TRUE /\ pending_transaction_kind' = review.kind
        /\ transaction_approval' = review.code
        /\ transaction_expires_at' = Later(clock, ApprovalWindow) /\ reviewAge' = 0
        /\ pending_transaction' = IF review.kind = Bitcoin THEN review.request ELSE None
        /\ pending_evm_transaction' = IF review.kind = Evm THEN review.request ELSE None
    BY DEF Draws, Present
  <1>4. /\ screen' = IF display_is_available THEN review ELSE None
        /\ display_is_available' = display_is_available
    BY <1>1 DEF Draws, Present, wallet_ui_show_transaction
  <1>5. PendingRequest' = review.request
    BY <1>1, <1>2, <1>3 DEF PendingRequest
  <1>6. PendingReview' = review
    BY <1>1, <1>3, <1>5 DEF PendingReview
  <1> QED
    BY <1>1, <1>2, <1>3, <1>4, <1>6

\* What is pending is a review, of the kind the buffers hold.
LEMMA PendingIsReview ==
    ASSUME TypeOK, OneLiveReview, transaction_pending
    PROVE  PendingReview \in Reviews
  <1>1. PendingReview = [kind |-> pending_transaction_kind, request |-> PendingRequest,
                         code |-> transaction_approval]
    BY DEF PendingReview
  <1>2. transaction_approval \in Codes /\ Bitcoin # Evm
    BY DEF TypeOK, Bitcoin, Evm
  <1>3. CASE pending_transaction_kind = Bitcoin
    BY <1>1, <1>2, <1>3 DEF OneLiveReview, TypeOK, PendingRequest, Reviews
  <1>4. CASE pending_transaction_kind = Evm
    BY <1>1, <1>2, <1>4 DEF OneLiveReview, TypeOK, PendingRequest, Reviews
  <1> QED
    BY <1>3, <1>4 DEF OneLiveReview, TypeOK

\* What a signature prints is a review: the one that was pending.
LEMMA Signed ==
    ASSUME TypeOK, OneLiveReview, Signs
    PROVE  /\ transaction_pending /\ ~ReviewExpired
           /\ PendingReview \in Reviews /\ emitted' = PendingReview
           /\ clear_pending_transaction /\ screen' = None /\ wallet' = wallet
           /\ display_is_available' = display_is_available
           /\ display_is_available \/ AllowHostOnlyConfirmation
           /\ authenticated' = TRUE
  <1>1. ASSUME NEW kind, NEW request, NEW entered, Sign(kind, request, entered),
               request \in [tx: BitcoinTxs \cup EvmTxs, wallet: Wallets],
               request = PendingRequest,
               [kind |-> kind, request |-> request, code |-> entered] \in Reviews
        PROVE  PendingReview \in Reviews /\ emitted' = PendingReview
    <2>1. [tx |-> request.tx, wallet |-> wallet] = request
      BY <1>1, SignShape
    <2>2. PendingReview = [kind |-> kind, request |-> request, code |-> entered]
      BY <1>1, SignShape DEF PendingReview
    <2> QED
      BY <1>1, <2>1, <2>2, SignShape
  <1>2. CASE \E entered \in Codes : sign_transaction(entered)
    <2>1. PICK entered \in Codes : Sign(Bitcoin, pending_transaction, entered)
      BY <1>2 DEF sign_transaction
    <2>2. pending_transaction_kind = Bitcoin
      BY <2>1, SignShape
    <2>3. pending_transaction \in BitcoinRequests /\ pending_transaction = PendingRequest
      BY <2>2 DEF OneLiveReview, TypeOK, PendingRequest
    <2>4. /\ pending_transaction \in [tx: BitcoinTxs \cup EvmTxs, wallet: Wallets]
          /\ [kind |-> Bitcoin, request |-> pending_transaction, code |-> entered] \in Reviews
      BY <2>3 DEF BitcoinRequests, Reviews
    <2> QED
      BY <1>1, <2>1, <2>3, <2>4, SignShape
  <1>3. CASE \E entered \in Codes : sign_evm_transaction(entered)
    <2>1. PICK entered \in Codes : Sign(Evm, pending_evm_transaction, entered)
      BY <1>3 DEF sign_evm_transaction
    <2>2. pending_transaction_kind = Evm
      BY <2>1, SignShape
    <2>3. pending_evm_transaction \in EvmRequests /\ pending_evm_transaction = PendingRequest
      BY <2>2 DEF OneLiveReview, TypeOK, PendingRequest, Bitcoin, Evm
    <2>4. /\ pending_evm_transaction \in [tx: BitcoinTxs \cup EvmTxs, wallet: Wallets]
          /\ [kind |-> Evm, request |-> pending_evm_transaction, code |-> entered] \in Reviews
      BY <2>3 DEF EvmRequests, Reviews
    <2> QED
      BY <1>1, <2>1, <2>3, <2>4, SignShape
  <1> QED
    BY <1>2, <1>3 DEF Signs

\* A signature is a review; so the type of emitted rests on OneLiveReview.
LEMMA TypesKept ==
    ASSUME TypeOK, OneLiveReview, [Next]_vars
    PROVE  TypeOK'
  <1>0. SessionTypeOK'
    BY NextIsSessionStep, SessionTypes DEF TypeOK
  <1>1. CASE Clears
    BY <1>0, <1>1, Cleared DEF Clears, TypeOK
  <1>2. CASE Keeps
    BY <1>0, <1>2 DEF Keeps, PendingKept, pendingVars, ScreenKept, TypeOK
  <1>3. CASE Draw
    <2>1. PICK review \in Reviews : Draws(review.kind, review.request, review.code)
      BY <1>3 DEF Draw
    <2>2. Later(clock, ApprovalWindow) \in Instant
      BY DeadlineStarts DEF TypeOK, SessionTypeOK
    <2>3. wallet' = wallet /\ emitted' = None
      BY <2>1 DEF Draws
    <2>4. /\ pending_transaction_kind' \in {Bitcoin, Evm, NoKind}
          /\ pending_transaction' \in BitcoinRequests \cup {None}
          /\ pending_evm_transaction' \in EvmRequests \cup {None}
          /\ screen' \in Reviews \cup {None}
      BY <2>1, Drawn
    <2>5. /\ transaction_pending' = TRUE /\ transaction_approval' \in Codes
          /\ transaction_expires_at' \in Instant
          /\ display_is_available' = display_is_available /\ reviewAge' \in 0 .. AgeCap
      BY <2>1, <2>2, Drawn, AgeRange
    <2> QED
      BY <1>0, <2>3, <2>4, <2>5 DEF TypeOK
  <1>4. CASE Signs
    <2>1. /\ clear_pending_transaction /\ screen' = None /\ wallet' = wallet
          /\ display_is_available' = display_is_available
          /\ emitted' \in Reviews
      BY <1>4, Signed
    <2> QED
      BY <1>0, <2>1, Cleared DEF TypeOK
  <1>5. CASE Tick
    <2>1. reviewAge' \in 0 .. AgeCap
      BY <1>5, AgeRange DEF Tick, TypeOK
    <2> QED
      BY <1>0, <1>5, <2>1 DEF Tick, ScreenKept, Silent, TypeOK
  <1>6. CASE UNCHANGED vars
    BY <1>0, <1>6 DEF vars, reviewVars, pendingVars, TypeOK
  <1> QED
    BY <1>1, <1>2, <1>3, <1>4, <1>5, <1>6, StepShape

-----------------------------------------------------------------------------
(* The invariants of the pending review *)

ReviewIInv ==
    /\ TypeOK
    /\ OneLiveReview
    /\ ClosedHoldsNothing
    /\ ScreenShowsPending
    /\ ReviewAgeInv

\* Nothing is under review at first.
LEMMA ReviewStart == Init => ReviewIInv
  <1> SUFFICES ASSUME Init PROVE ReviewIInv
    OBVIOUS
  <1>1. 0 \in Instant /\ 0 \in 0 .. MaxLag /\ 0 \in 0 .. IdleCap /\ 0 \in Codes
        /\ 0 \in 0 .. AgeCap
    BY ClockAssumption, SessionAssumption, ReviewAssumption, AgeRange DEF Instant, IdleCap
  <1>2. SessionTypeOK
    BY <1>1 DEF Init, SessionInit, SessionTypeOK
  <1>3. TypeOK
    BY <1>1, <1>2 DEF Init, ReviewInit, TypeOK
  <1>4. OneLiveReview
    BY DEF Init, ReviewInit, OneLiveReview, NoKind, Bitcoin, Evm
  <1>5. transaction_pending = FALSE /\ emitted = None /\ wallet = None
        /\ pending_transaction = None /\ pending_evm_transaction = None
        /\ transaction_approval = 0
    BY DEF Init, ReviewInit
  <1> QED
    BY <1>3, <1>4, <1>5 DEF ReviewIInv, ClosedHoldsNothing, ScreenShowsPending,
                            ReviewAgeInv

\* Where the buffers, the kind and the flag are cleared, every invariant of the
\* review holds but the one on closed sessions.
LEMMA ClearedInv ==
    ASSUME clear_pending_transaction
    PROVE  OneLiveReview' /\ ScreenShowsPending' /\ ReviewAgeInv'
  <1>1. OneLiveReview'
    BY Cleared DEF OneLiveReview, NoKind, Bitcoin, Evm
  <1> QED
    BY <1>1, Cleared DEF ScreenShowsPending, ReviewAgeInv

\* Every step keeps the inductive invariant of the reviews.
LEMMA ReviewStep ==
    ASSUME ReviewIInv, [Next]_vars
    PROVE  ReviewIInv'
  <1>0. TypeOK /\ TypeOK'
    BY TypesKept DEF ReviewIInv
  <1>1. CASE Clears
    <2>1. ClosedHoldsNothing'
      BY <1>1, Cleared DEF Clears, ReviewIInv, ClosedHoldsNothing
    <2> QED
      BY <1>0, <1>1, <2>1, ClearedInv DEF Clears, ReviewIInv
  <1>2. CASE Keeps
    <2>1. PendingReview' = PendingReview
      BY <1>2 DEF Keeps, PendingKept, pendingVars, PendingReview, PendingRequest
    <2>2. OneLiveReview' /\ ScreenShowsPending'
      BY <1>2, <2>1 DEF Keeps, PendingKept, pendingVars, ScreenKept, ReviewIInv,
                        OneLiveReview, ScreenShowsPending
    <2>3. ClosedHoldsNothing'
      BY <1>2 DEF Keeps, PendingKept, pendingVars, ReviewIInv, ClosedHoldsNothing
    <2>4. ReviewAgeInv'
      <3>1. SUFFICES ASSUME transaction_pending PROVE ReviewAgeInv'
        BY <1>2 DEF Keeps, PendingKept, pendingVars, ReviewAgeInv
      <3>2. /\ UNCHANGED <<clock, transaction_expires_at, reviewAge, transaction_pending>>
            /\ lag' = lag \/ (lag' = 0 /\ ~ReviewExpired)
        BY <1>2, <3>1 DEF Keeps, PendingKept, pendingVars
      <3>3. DeadlineAt(transaction_expires_at, clock, reviewAge) /\ reviewAge < ApprovalWindow + lag
        BY <3>1 DEF ReviewIInv, ReviewAgeInv, DeadlineAt
      <3>4. /\ clock \in Instant /\ transaction_expires_at \in Instant
            /\ reviewAge \in Nat /\ lag \in 0 .. MaxLag
        BY <1>0, AgeRange DEF TypeOK, SessionTypeOK
      <3>5. ~ReviewExpired => reviewAge < ApprovalWindow
        BY <3>3, <3>4, DeadlineMoves, ReviewConstants DEF ReviewExpired
      <3>6. reviewAge < ApprovalWindow + lag'
        BY <3>2, <3>3, <3>4, <3>5, ReviewConstants
      <3> QED
        BY <3>2, <3>3, <3>6 DEF ReviewAgeInv, DeadlineAt
    <2> QED
      BY <1>0, <2>2, <2>3, <2>4 DEF ReviewIInv
  <1>3. CASE Draw
    <2>1. PICK review \in Reviews : Draws(review.kind, review.request, review.code)
      BY <1>3 DEF Draw
    <2>2. OneLiveReview'
      <3>1. None \notin BitcoinRequests /\ None \notin EvmRequests
        BY ReviewAssumption
      <3>2. Bitcoin # Evm /\ Bitcoin # NoKind /\ Evm # NoKind
        BY DEF Bitcoin, Evm, NoKind
      <3>3. /\ transaction_pending' = TRUE /\ pending_transaction_kind' = review.kind
            /\ \/ /\ review.kind = Bitcoin /\ pending_transaction' \in BitcoinRequests
                  /\ pending_evm_transaction' = None
               \/ /\ review.kind = Evm /\ pending_evm_transaction' \in EvmRequests
                  /\ pending_transaction' = None
        BY <1>0, <2>1, Drawn
      <3> QED
        BY <3>1, <3>2, <3>3 DEF OneLiveReview
    <2>3. ScreenShowsPending'
      BY <1>0, <2>1, Drawn DEF ScreenShowsPending
    <2>4. ReviewAgeInv'
      <3>1. /\ transaction_expires_at' = Later(clock, ApprovalWindow) /\ reviewAge' = 0
            /\ clock' = clock /\ lag' = lag
        BY <1>0, <2>1, Drawn DEF Draws
      <3>2. clock \in Instant /\ lag \in 0 .. MaxLag
        BY <1>0 DEF TypeOK, SessionTypeOK
      <3> QED
        BY <3>1, <3>2, DeadlineStarts, ReviewConstants DEF ReviewAgeInv, DeadlineAt
    <2>5. ClosedHoldsNothing'
      BY <2>1 DEF Draws, ClosedHoldsNothing
    <2> QED
      BY <1>0, <2>2, <2>3, <2>4, <2>5 DEF ReviewIInv
  <1>4. CASE Signs
    <2>1. /\ clear_pending_transaction /\ authenticated' = TRUE
      BY <1>0, <1>4, Signed DEF ReviewIInv
    <2>2. ClosedHoldsNothing'
      BY <2>1 DEF ClosedHoldsNothing
    <2> QED
      BY <1>0, <2>1, <2>2, ClearedInv DEF ReviewIInv
  <1>5. CASE Tick
    <2>1. /\ UNCHANGED <<authenticated, wallet, pending_transaction, pending_evm_transaction,
                         pending_transaction_kind, transaction_pending, transaction_approval,
                         transaction_expires_at, screen, display_is_available>>
          /\ emitted' = None
          /\ clock' = Later(clock, 1) /\ lag' = lag + 1 /\ lag < MaxLag
      BY <1>5 DEF Tick, SessionTick, ScreenKept, Silent
    <2>2. OneLiveReview' /\ ClosedHoldsNothing'
      BY <2>1 DEF ReviewIInv, OneLiveReview, ClosedHoldsNothing
    <2>3. ScreenShowsPending'
      BY <2>1 DEF ReviewIInv, ScreenShowsPending, PendingReview, PendingRequest
    <2>4. ReviewAgeInv'
      <3>1. SUFFICES ASSUME transaction_pending PROVE ReviewAgeInv'
        BY <2>1 DEF ReviewAgeInv
      <3>3. DeadlineAt(transaction_expires_at, clock, reviewAge) /\ reviewAge < ApprovalWindow + lag
        BY <3>1 DEF ReviewIInv, ReviewAgeInv, DeadlineAt
      <3>4. /\ clock \in Instant /\ transaction_expires_at \in Instant
            /\ reviewAge \in Nat /\ lag \in 0 .. MaxLag
        BY <1>0, AgeRange DEF TypeOK, SessionTypeOK
      <3>5. DeadlineAt(transaction_expires_at, Later(clock, 1), reviewAge + 1)
        BY <3>3, <3>4, DeadlineMoves, ReviewConstants
      <3>6. reviewAge + 1 < ApprovalWindow + (lag + 1)
        BY <3>3, <3>4, ReviewConstants
      <3>7. reviewAge' = reviewAge + 1
        <4>1. reviewAge' = Older(reviewAge)
          BY <1>5, <3>1 DEF Tick
        <4>2. reviewAge < ApprovalWindow + MaxLag
          BY <3>3, <3>4, ReviewConstants
        <4> QED
          BY <3>4, <4>1, <4>2, AgeRange
      <3> QED
        BY <2>1, <3>5, <3>6, <3>7 DEF ReviewAgeInv, DeadlineAt
    <2> QED
      BY <1>0, <2>2, <2>3, <2>4 DEF ReviewIInv
  <1>6. CASE UNCHANGED vars
    BY <1>0, <1>6 DEF vars, sessionVars, reviewVars, pendingVars, ReviewIInv, OneLiveReview,
                      ClosedHoldsNothing, ScreenShowsPending, PendingReview, PendingRequest,
                      ReviewAgeInv
  <1> QED
    BY <1>0, <1>1, <1>2, <1>3, <1>4, <1>5, <1>6, StepShape

\* Every variable of CliReview keeps its type, and what is pending, what is
\* shown and what the session holds agree, for every value of the constants.
THEOREM ReviewInvariants ==
    Spec => []( /\ TypeOK
                /\ OneLiveReview
                /\ ClosedHoldsNothing
                /\ ScreenShowsPending
                /\ ReviewAgeInv )
  BY ReviewStart, ReviewStep, PTL DEF Spec, ReviewIInv

\* A closed session has no wallet in RAM, no review and no approval code, however
\* it was closed.
THEOREM LockingEmptiesTheDevice == Spec => []ClosedHoldsNothing
  <1>1. ReviewIInv => ClosedHoldsNothing
    BY DEF ReviewIInv
  <1> QED
    BY <1>1, ReviewStart, ReviewStep, PTL DEF Spec

\* One review at most is pending, and the two buffers, the kind and the flag agree on
\* which, whatever was inspected, refused, signed or rejected before.
THEOREM AtMostOneReview == Spec => []OneLiveReview
  <1>1. ReviewIInv => OneLiveReview
    BY DEF ReviewIInv
  <1> QED
    BY <1>1, ReviewStart, ReviewStep, PTL DEF Spec

\* In the default build what is signed stands on the display when it is confirmed: the same
\* transaction, wallet and code.  Only the step that signs is of interest, the others put
\* nothing out; it signs PendingReview, and ScreenShowsPending says where that is.
THEOREM NothingSignedUnseen == Spec => SignedAsShown
  <1> DEFINE AsShown == emitted' # None => \/ screen = emitted'
                                           \/ ~display_is_available /\ AllowHostOnlyConfirmation
  <1>1. ReviewIInv /\ [Next]_vars => [AsShown]_vars
    <2> SUFFICES ASSUME ReviewIInv, [Next]_vars, emitted' # None, ~UNCHANGED vars
                 PROVE  AsShown
      OBVIOUS
    <2>1. Signs
      <3>1. ~Draw
        BY DEF Draw, Draws
      <3>2. ~Clears
        BY DEF Clears
      <3>3. ~Keeps
        BY DEF Keeps
      <3>4. ~Tick
        BY DEF Tick, Silent
      <3> QED
        BY <3>1, <3>2, <3>3, <3>4, StepShape DEF ReviewIInv
    <2>2. /\ emitted' = PendingReview /\ transaction_pending
          /\ display_is_available \/ AllowHostOnlyConfirmation
      BY <2>1, Signed DEF ReviewIInv
    <2>3. display_is_available => screen = PendingReview
      BY <2>2 DEF ReviewIInv, ScreenShowsPending
    <2> QED
      BY <2>2, <2>3
  <1> QED
    BY <1>1, ReviewStart, ReviewStep, PTL DEF Spec, SignedAsShown

-----------------------------------------------------------------------------
(* The promise *)

\* The code implements ReviewedSigning: whatever is signed is the review last
\* presented, by the wallet it was presented for, on the code it was presented
\* with, before its window is over, and once.
THEOREM ReviewKeepsItsPromise == Spec => SignsOnlyWhatWasReviewed
  <1>1. Init => Promise!Init
    BY DEF Init, ReviewInit, Promise!Init, PendingReview
  <1>2. ReviewIInv /\ [Next]_vars => [Promise!Next]_(Promise!vars)
    <2> SUFFICES ASSUME ReviewIInv, [Next]_vars
                 PROVE  Promise!Next \/ UNCHANGED Promise!vars
      OBVIOUS
    <2>0. TypeOK /\ OneLiveReview
      BY DEF ReviewIInv
    <2>1. CASE Clears
      BY <2>1, Cleared DEF Clears, Promise!Next, Promise!Withdraw
    <2>2. CASE Keeps
      <3>1. PendingReview' = PendingReview /\ reviewAge' = reviewAge /\ emitted' = None
        BY <2>2 DEF Keeps, PendingKept, pendingVars, PendingReview, PendingRequest
      <3> QED
        BY <3>1 DEF Promise!Next, Promise!Quiet
    <2>3. CASE Draw
      <3>1. PICK review \in Reviews : Draws(review.kind, review.request, review.code)
        BY <2>3 DEF Draw
      <3>2. PendingReview' = review /\ reviewAge' = 0 /\ emitted' = None
        BY <2>0, <3>1, Drawn DEF Draws
      <3> QED
        BY <3>2 DEF Promise!Next, Promise!Present
    <2>4. CASE Signs
      <3>1. /\ PendingReview \in Reviews /\ emitted' = PendingReview
            /\ clear_pending_transaction /\ transaction_pending /\ ~ReviewExpired
        BY <2>0, <2>4, Signed
      <3>2. PendingReview # None
        BY <3>1, ReviewAssumption
      <3>3. reviewAge < ApprovalWindow
        <4>1. DeadlineAt(transaction_expires_at, clock, reviewAge)
              /\ reviewAge < ApprovalWindow + lag
          BY <3>1 DEF ReviewIInv, ReviewAgeInv, DeadlineAt
        <4>2. /\ clock \in Instant /\ transaction_expires_at \in Instant
              /\ reviewAge \in Nat /\ lag \in 0 .. MaxLag
          BY <2>0, AgeRange DEF TypeOK, SessionTypeOK
        <4> QED
          BY <3>1, <4>1, <4>2, DeadlineMoves, ReviewConstants DEF ReviewExpired
      <3> QED
        BY <3>1, <3>2, <3>3, Cleared DEF Promise!Next, Promise!Sign
    <2>5. CASE Tick
      <3>1. PendingReview' = PendingReview /\ emitted' = None
            /\ reviewAge' = IF transaction_pending THEN Older(reviewAge) ELSE 0
        BY <2>5 DEF Tick, Silent, PendingReview, PendingRequest
      <3>2. PendingReview = None <=> ~transaction_pending
        <4>1. transaction_pending => PendingReview # None
          BY <2>0, PendingIsReview, ReviewAssumption
        <4> QED
          BY <4>1 DEF PendingReview
      <3>3. transaction_pending => Older(reviewAge) = reviewAge + 1
        <4> SUFFICES ASSUME transaction_pending PROVE Older(reviewAge) = reviewAge + 1
          OBVIOUS
        <4>1. reviewAge \in Nat /\ lag \in 0 .. MaxLag /\ reviewAge < ApprovalWindow + lag
          BY <2>0, AgeRange DEF ReviewIInv, ReviewAgeInv, TypeOK, SessionTypeOK
        <4>2. reviewAge < ApprovalWindow + MaxLag
          BY <4>1, ReviewConstants
        <4> QED
          BY <4>1, <4>2, AgeRange
      <3> QED
        BY <3>1, <3>2, <3>3 DEF Promise!Next, Promise!Pass
    <2>6. CASE UNCHANGED vars
      BY <2>6 DEF vars, reviewVars, pendingVars, Promise!vars, PendingReview, PendingRequest
    <2> QED
      BY <2>0, <2>1, <2>2, <2>3, <2>4, <2>5, <2>6, StepShape
  <1> QED
    BY <1>1, <1>2, ReviewStart, ReviewStep, PTL
       DEF Spec, SignsOnlyWhatWasReviewed, Promise!Spec
=============================================================================
