----------------------------- MODULE DeviceProof ------------------------------
(***************************************************************************)
(* Proofs about the composed device: whose session it is, what a closed    *)
(* one holds, what the display says of it, and that both halves are inside *)
(* it what they are by themselves, for every value of the constants that   *)
(* meets the assumptions of the modules.                                   *)
(***************************************************************************)
EXTENDS Device, TLAPS

\* The RAM copy of the verifier is the one in the flash, and a challenge stands only
\* where there is one.
CopyIsStored ==
    /\ nvs \in Auth!Stores
    /\ provisioned => nvs.flag /\ verifier = nvs.verifier
    /\ challenge_active => provisioned

\* An open session was opened with the stored verifier.
OpenedWithStored == authenticated => provisioned /\ opener = nvs.verifier

\* The wallet, the review and the signature belong to the open session.
HeldByOpen == wallet # None \/ transaction_pending \/ emitted # None => authenticated

\* Both copies of the mark agree, and with the session when a round begins.
MarkInv ==
    /\ session_authenticated = last_authenticated
    /\ phase = "check" /\ display_is_available => last_authenticated = authenticated

\* A challenge that was asked for in a session does not outlive it.
AskedInv == asked_inside => authenticated

DeviceIInv == CopyIsStored /\ OpenedWithStored /\ HeldByOpen /\ MarkInv /\ AskedInv

-----------------------------------------------------------------------------
\* The history marks no challenge that was not marked before, and none that is gone.
LEMMA AskedShrinks ==
    ASSUME HistoryKept, asked_inside'
    PROVE  asked_inside /\ challenge_active'
  <1>1. asked_inside' = (asked_inside /\ challenge_active')
    BY DEF HistoryKept
  <1> QED
    BY <1>1

\* What each action of the signing half does to the session and to what it holds.

\* Handlers that refresh the session leave it open.
LEMMA WalletCommandShape ==
    ASSUME WalletCommand
    PROVE  /\ authenticated /\ authenticated' = TRUE
           /\ phase = "drain" /\ phase' = phase
           /\ UNCHANGED authVars /\ UNCHANGED markVars
           /\ opener' = opener /\ (asked_inside' => asked_inside)
  <1>1. Auth!AuthenticatedCommand /\ HistoryKept /\ UNCHANGED markVars
    BY DEF WalletCommand
  <1>2. authenticated /\ authenticated' = TRUE /\ phase = "drain" /\ phase' = phase /\ UNCHANGED authVars
    BY <1>1 DEF Auth!AuthenticatedCommand, Auth!require_authentication, Auth!AtPrompt,
                Auth!Refreshed, Auth!authVars, Auth!storeVars, authVars
  <1> QED
    BY <1>1, <1>2 DEF HistoryKept

\* A public command keeps the session and what it holds, or drops the review.
LEMMA PublicShape ==
    ASSUME Review!PublicQuery \/ Review!TxReject
    PROVE  /\ phase = "drain" /\ phase' = phase /\ authenticated' = authenticated
           /\ wallet' = wallet /\ emitted' = None
           /\ transaction_pending' = transaction_pending \/ transaction_pending' = FALSE
           /\ display_is_available' = display_is_available
  BY DEF Review!PublicQuery, Review!TxReject, Review!PublicCommand, Review!AtPrompt, Review!Kept,
         Review!PendingKept, Review!pendingVars, Review!clear_pending_transaction, Review!Silent,
         Review!ScreenKept, Review!wallet_ui_show_catalog

\* A restart, whether it succeeds or not, leaves a closed and empty device.
LEMMA SetupShape ==
    ASSUME NEW image \in Auth!Stores, Setup(image)
    PROVE  /\ authenticated' = FALSE
           /\ wallet' = None /\ emitted' = None /\ transaction_pending' = FALSE
           /\ nvs' = image /\ challenge_active' = FALSE
           /\ provisioned' => image.flag /\ verifier' = image.verifier
           /\ last_authenticated' = FALSE /\ session_authenticated' = FALSE
           /\ ~asked_inside'
  <1>1. CASE Auth!Boot(image) /\ Review!Boot
    <2>1. authenticated' = FALSE /\ nvs' = image /\ challenge_active' = FALSE
      BY <1>1 DEF Auth!Boot, Auth!SessionBoot, Auth!Closed
    <2>3. provisioned' => image.flag /\ verifier' = image.verifier
      <3>1. PICK n \in Auth!ValuesRead(image) :
                /\ verifier' = IF n = 2 THEN image.verifier ELSE None
                /\ provisioned' = (n = 2)
        BY <1>1 DEF Auth!Boot
      <3>2. n = 2 => image.flag
        BY <3>1 DEF Auth!ValuesRead, Auth!Complete
      <3>3. provisioned' => n = 2
        BY <3>1
      <3>4. n = 2 => verifier' = image.verifier
        BY <3>1
      <3> QED
        BY <3>2, <3>3, <3>4
    <2>2. wallet' = None /\ emitted' = None /\ transaction_pending' = FALSE
      BY <1>1 DEF Review!Boot, Review!clear_wallet, Review!clear_pending_transaction, Review!Silent
    <2> QED
      BY <2>1, <2>2, <2>3 DEF Setup, MarkReset, HistoryKept, wallet_ui_set_authenticated
  <1>2. CASE Auth!BootFails(image) /\ Review!BootFails
    <2>1. authenticated' = FALSE /\ nvs' = image /\ challenge_active' = FALSE /\ provisioned' = FALSE
      BY <1>2 DEF Auth!BootFails, Auth!SessionOff, Auth!Closed
    <2>2. wallet' = None /\ emitted' = None /\ transaction_pending' = FALSE
      BY <1>2 DEF Review!BootFails, Review!clear_wallet, Review!clear_pending_transaction, Review!Silent
    <2> QED
      BY <2>1, <2>2 DEF Setup, MarkReset, HistoryKept, wallet_ui_set_authenticated
  <1> QED
    BY <1>1, <1>2 DEF Setup

\* A boot keeps the device's invariant: the copies are read again, and nothing is open.
LEMMA SetupKeepsInv ==
    ASSUME NEW image \in Auth!Stores, Setup(image)
    PROVE  DeviceIInv'
  <1>1. CopyIsStored'
    BY SetupShape DEF CopyIsStored
  <1>2. OpenedWithStored' /\ HeldByOpen' /\ MarkInv' /\ AskedInv'
    BY SetupShape DEF OpenedWithStored, HeldByOpen, MarkInv, AskedInv
  <1> QED
    BY <1>1, <1>2 DEF DeviceIInv

\* Whatever part of a provisioning reached the flash, the image is one of the store's.
LEMMA WrittenIsStore ==
    ASSUME nvs \in Auth!Stores, NEW pin \in Pins, NEW s \in Salts, NEW n \in 0 .. 4
    PROVE  /\ Auth!Written(pin, s, n) \in Auth!Stores
           /\ n >= 3 => Auth!Written(pin, s, n).flag
           /\ n >= 2 => Auth!Written(pin, s, n).verifier = <<pin, s>>
  <1>1. <<pin, s>> \in Auth!Verifiers
    BY DEF Auth!Verifiers
  <1>2. 0 \in 0 .. MaxFailures
    BY DeviceAssumption DEF Auth!AuthAssumption
  <1> QED
    BY <1>1, <1>2 DEF Auth!Written, Auth!Stores, Auth!pbkdf2

\* Changing the counter changes nothing else of the store.
LEMMA CounterIsApart ==
    ASSUME nvs \in Auth!Stores, NEW f \in 0 .. MaxFailures, Auth!CounterBecomes(f)
    PROVE  nvs' \in Auth!Stores /\ nvs'.flag = nvs.flag /\ nvs'.verifier = nvs.verifier
  BY DEF Auth!CounterBecomes, Auth!Stores

-----------------------------------------------------------------------------
\* The device starts locked and empty.
LEMMA DeviceStart == Init => DeviceIInv
  <1> SUFFICES ASSUME Init PROVE DeviceIInv
    OBVIOUS
  <1>1. CopyIsStored
    <2>1. 0 \in 0 .. MaxFailures
      BY DeviceAssumption DEF Auth!AuthAssumption
    <2> QED
      BY <2>1 DEF Init, Auth!Init, CopyIsStored, Auth!Stores
  <1>2. OpenedWithStored /\ HeldByOpen /\ MarkInv /\ AskedInv
    BY DEF Init, Auth!Init, Auth!SessionInit, Review!Init, Review!ReviewInit,
           OpenedWithStored, HeldByOpen, MarkInv, AskedInv
  <1> QED
    BY <1>1, <1>2 DEF DeviceIInv

\* A command of the authentication keeps the device's invariant.
LEMMA AuthCommandKeepsInv ==
    ASSUME DeviceIInv, AuthCommand
    PROVE  DeviceIInv'
  <1>0. /\ CopyIsStored /\ OpenedWithStored /\ HeldByOpen /\ MarkInv /\ AskedInv
        /\ nvs \in Auth!Stores
    BY DEF DeviceIInv, CopyIsStored
  <1>1. /\ phase = "drain" /\ phase' = phase /\ authenticated' = authenticated
        /\ wallet' = wallet /\ emitted' = None
        /\ transaction_pending' = transaction_pending \/ transaction_pending' = FALSE
        /\ HistoryKept /\ UNCHANGED markVars
    BY PublicShape DEF AuthCommand
  <1>2. HeldByOpen' /\ MarkInv' /\ AskedInv'
    <2>1. HeldByOpen' /\ MarkInv'
      BY <1>0, <1>1 DEF HeldByOpen, MarkInv, markVars
    <2>2. AskedInv'
      BY <1>0, <1>1, AskedShrinks DEF AskedInv
    <2> QED
      BY <2>1, <2>2
  <1>3. authenticated' => opener' = opener
    BY <1>1 DEF HistoryKept
  <1>4. ASSUME NEW pin \in Pins, NEW s \in Salts, Auth!ProvisionPin(pin, s)
        PROVE  CopyIsStored' /\ OpenedWithStored'
    <2>1. PICK n \in {3, 4} : nvs' = Auth!Written(pin, s, n)
      BY <1>4 DEF Auth!ProvisionPin
    <2>2. nvs' \in Auth!Stores /\ nvs'.flag /\ nvs'.verifier = <<pin, s>>
      BY <1>0, <2>1, WrittenIsStore
    <2>3. verifier' = <<pin, s>> /\ provisioned' = TRUE /\ ~provisioned
      BY <1>4 DEF Auth!ProvisionPin, Auth!pbkdf2, Auth!ProvisioningOpen
    <2> QED
      BY <1>0, <1>1, <2>2, <2>3 DEF CopyIsStored, OpenedWithStored
  <1>5. ASSUME NEW pin \in Pins, NEW s \in Salts, Auth!ProvisionFails(pin, s)
        PROVE  CopyIsStored' /\ OpenedWithStored'
    <2>1. PICK n \in 0 .. 2 : nvs' = Auth!Written(pin, s, n)
      BY <1>5 DEF Auth!ProvisionFails
    <2>2. nvs' \in Auth!Stores
      BY <1>0, <2>1, WrittenIsStore
    <2>3. ~provisioned /\ ~provisioned' /\ challenge_active' = challenge_active
      BY <1>5 DEF Auth!ProvisionFails, Auth!ProvisioningOpen
    <2> QED
      BY <1>0, <1>1, <2>2, <2>3 DEF CopyIsStored, OpenedWithStored
  <1>6. ASSUME NEW answer, Auth!UnlockWrong(answer)
        PROVE  CopyIsStored' /\ OpenedWithStored'
    <2>1. PICK f \in 0 .. MaxFailures : Auth!CounterBecomes(f)
      <3>1. nvs.failures \in 0 .. MaxFailures /\ MaxFailures \in Nat
        BY <1>0, DeviceAssumption DEF Auth!Stores, Auth!AuthAssumption
      <3>2. PICK count \in Auth!CountRead(nvs.failures) : Auth!CounterBecomes(Auth!OneMore(count))
        BY <1>6 DEF Auth!UnlockWrong, Auth!record_failure
      <3>3. Auth!OneMore(count) \in 0 .. MaxFailures
        BY <3>1, DeviceAssumption DEF Auth!CountRead, Auth!OneMore, Auth!AuthAssumption
      <3> QED
        BY <3>2, <3>3
    <2>2. nvs' \in Auth!Stores /\ nvs'.flag = nvs.flag /\ nvs'.verifier = nvs.verifier
      BY <1>0, <2>1, CounterIsApart
    <2>3. challenge_active' = FALSE /\ provisioned' = provisioned /\ verifier' = verifier
      BY <1>6 DEF Auth!UnlockWrong
    <2> QED
      BY <1>0, <1>1, <1>3, <2>2, <2>3 DEF CopyIsStored, OpenedWithStored
  <1>7. CopyIsStored' /\ OpenedWithStored'
    BY <1>4, <1>5, <1>6 DEF AuthCommand
  <1> QED
    BY <1>2, <1>7 DEF DeviceIInv

\* And so does the issue of a challenge, which is remembered as the open session's own.
LEMMA ChallengeKeepsInv ==
    ASSUME DeviceIInv, Challenge
    PROVE  DeviceIInv'
  <1>1. /\ phase = "drain" /\ phase' = phase /\ authenticated' = authenticated
        /\ wallet' = wallet /\ emitted' = None
        /\ transaction_pending' = transaction_pending \/ transaction_pending' = FALSE
        /\ opener' = opener /\ asked_inside' = authenticated /\ UNCHANGED markVars
    BY PublicShape DEF Challenge
  <1>2. nvs' = nvs /\ provisioned /\ provisioned' = provisioned /\ verifier' = verifier
    BY DEF Challenge, Auth!begin_challenge, Auth!storeVars
  <1>3. CopyIsStored' /\ OpenedWithStored'
    BY <1>1, <1>2 DEF DeviceIInv, CopyIsStored, OpenedWithStored
  <1>4. HeldByOpen' /\ MarkInv' /\ AskedInv'
    BY <1>1 DEF DeviceIInv, HeldByOpen, MarkInv, markVars, AskedInv
  <1> QED
    BY <1>3, <1>4 DEF DeviceIInv

\* So does a right answer, which opens a session on the stored verifier.
LEMMA UnlockKeepsInv ==
    ASSUME DeviceIInv, NEW answer \in Auth!Verifiers, Unlock(answer)
    PROVE  DeviceIInv'
  <1>0. CopyIsStored /\ HeldByOpen /\ MarkInv /\ nvs \in Auth!Stores
    BY DEF DeviceIInv, CopyIsStored
  <1>1. /\ Auth!CounterBecomes(0) /\ challenge_active /\ challenge_active' = FALSE
        /\ answer = verifier /\ verifier' = verifier /\ provisioned' = provisioned
        /\ authenticated' = TRUE /\ phase = "drain" /\ phase' = phase
        /\ opener' = answer /\ ~asked_inside' /\ UNCHANGED markVars
    BY DEF Unlock, Auth!UnlockRight, Auth!SessionOpens, Auth!AtPrompt, Auth!Refreshed
  <1>2. 0 \in 0 .. MaxFailures
    BY DeviceAssumption DEF Auth!AuthAssumption
  <1>3. nvs' \in Auth!Stores /\ nvs'.flag = nvs.flag /\ nvs'.verifier = nvs.verifier
    BY <1>0, <1>1, <1>2, CounterIsApart
  <1>4. CopyIsStored' /\ OpenedWithStored'
    BY <1>0, <1>1, <1>3 DEF CopyIsStored, OpenedWithStored
  <1>5. HeldByOpen' /\ MarkInv' /\ AskedInv'
    BY <1>0, <1>1 DEF HeldByOpen, MarkInv, markVars, AskedInv
  <1> QED
    BY <1>4, <1>5 DEF DeviceIInv

\* What every step of the service loop and of time keeps: nothing of the store changes, a
\* session that stays open keeps its opener, one that closes takes everything with it.
LEMMA LoopKeepsInv ==
    ASSUME DeviceIInv, Lock \/ Check \/ Drained \/ Tick
    PROVE  DeviceIInv'
  <1>0. CopyIsStored /\ OpenedWithStored /\ HeldByOpen /\ MarkInv /\ AskedInv
    BY DEF DeviceIInv
  <1>1. /\ UNCHANGED <<nvs, provisioned, verifier>>
        /\ challenge_active' => challenge_active
        /\ HistoryKept
        /\ challenge_active' => authenticated' = authenticated
    <2>1. CASE Lock
      BY <2>1 DEF Lock, Auth!Lock, Auth!ChallengeDropped, Auth!storeVars
    <2>2. CASE Check
      <3>1. /\ UNCHANGED <<nvs, provisioned, verifier>> /\ HistoryKept
            /\ IF Auth!SessionExpired THEN challenge_active' = FALSE
                                      ELSE challenge_active' = challenge_active
            /\ Auth!SessionCheck
        BY <2>2 DEF Check, Auth!Check, Auth!ChallengeDropped, Auth!storeVars
      <3>2. ~Auth!SessionExpired => authenticated' = authenticated
        BY <3>1 DEF Auth!SessionCheck, Auth!Kept
      <3> QED
        BY <3>1, <3>2
    <2>3. CASE Drained
      BY <2>3 DEF Drained, Auth!Drained, Auth!authVars, Auth!storeVars, Auth!SessionDrained, Auth!Kept
    <2>4. CASE Tick
      BY <2>4 DEF Tick, Auth!Tick, Auth!storeVars, Auth!SessionTick
    <2> QED
      BY <2>1, <2>2, <2>3, <2>4
  <1>2. /\ emitted' = None /\ display_is_available' = display_is_available
        /\ \/ authenticated' = FALSE /\ wallet' = None /\ transaction_pending' = FALSE
           \/ /\ authenticated' = authenticated /\ wallet' = wallet
              /\ transaction_pending' = transaction_pending \/ transaction_pending' = FALSE
    <2>1. CASE Lock
      BY <2>1 DEF Lock, Review!Lock, Review!SessionLocks, Review!Closed, Review!clear_wallet,
                  Review!clear_pending_transaction, Review!ScreenKept, Review!Silent
    <2>2. CASE Check
      BY <2>2 DEF Check, Review!Check, Review!SessionCheck, Review!Closed, Review!Kept,
                  Review!clear_wallet, Review!clear_pending_transaction, Review!PendingKept,
                  Review!pendingVars, Review!ScreenKept, Review!Silent
    <2>3. CASE Drained
      BY <2>3 DEF Drained, Review!Drained, Review!SessionDrained, Review!Kept, Review!PendingKept,
                  Review!pendingVars, Review!ScreenKept, Review!Silent
    <2>4. CASE Tick
      BY <2>4 DEF Tick, Review!Tick, Review!SessionTick, Review!ScreenKept, Review!Silent
    <2> QED
      BY <2>1, <2>2, <2>3, <2>4
  <1>3. CopyIsStored'
    BY <1>0, <1>1 DEF CopyIsStored
  <1>4. OpenedWithStored' /\ HeldByOpen' /\ AskedInv'
    <2>1. OpenedWithStored' /\ HeldByOpen'
      BY <1>0, <1>1, <1>2 DEF OpenedWithStored, HeldByOpen, HistoryKept
    <2>2. AskedInv'
      BY <1>0, <1>1, AskedShrinks DEF AskedInv
    <2> QED
      BY <2>1, <2>2
  <1>5. MarkInv'
    <2>1. CASE Lock
      BY <1>0, <2>1 DEF Lock, Auth!Lock, Auth!SessionLocks, Auth!AtPrompt, MarkInv, markVars
    <2>2. CASE Check
      BY <1>0, <2>2 DEF Check, Auth!Check, Auth!SessionCheck, MarkInv, markVars
    <2>3. CASE Drained
      <3>1. Mirror /\ authenticated' = authenticated
        BY <2>3 DEF Drained, Auth!Drained, Auth!SessionDrained, Auth!Kept
      <3>2. CASE display_is_available /\ authenticated # last_authenticated
        BY <3>1, <3>2 DEF Mirror, wallet_ui_set_authenticated, MarkInv
      <3>3. CASE ~(display_is_available /\ authenticated # last_authenticated)
        BY <1>0, <1>2, <3>1, <3>3 DEF Mirror, markVars, MarkInv
      <3> QED
        BY <3>2, <3>3
    <2>4. CASE Tick
      BY <1>0, <1>2, <2>4 DEF Tick, Auth!Tick, Auth!SessionTick, MarkInv, markVars
    <2> QED
      BY <2>1, <2>2, <2>3, <2>4
  <1> QED
    BY <1>3, <1>4, <1>5 DEF DeviceIInv

\* Every step keeps the device's invariant.
LEMMA DeviceStep == DeviceIInv /\ [Next]_vars => DeviceIInv'
  <1> SUFFICES ASSUME DeviceIInv, [Next]_vars PROVE DeviceIInv'
    OBVIOUS
  <1>0. /\ CopyIsStored /\ OpenedWithStored /\ HeldByOpen /\ MarkInv /\ AskedInv
        /\ nvs \in Auth!Stores
    BY DEF DeviceIInv, CopyIsStored
  <1>1. CASE WalletCommand
    BY <1>0, <1>1, WalletCommandShape
       DEF DeviceIInv, CopyIsStored, OpenedWithStored, HeldByOpen, MarkInv, AskedInv, authVars,
           markVars
  <1>2. CASE OpenCommand
    <2>1. /\ phase = "drain" /\ phase' = phase /\ authenticated' = authenticated
          /\ wallet' = wallet /\ emitted' = None
          /\ transaction_pending' = transaction_pending \/ transaction_pending' = FALSE
      BY <1>2, PublicShape DEF OpenCommand
    <2>2. UNCHANGED authVars /\ UNCHANGED markVars /\ HistoryKept
      BY <1>2 DEF OpenCommand
    <2>3. CopyIsStored'
      BY <1>0, <2>2 DEF CopyIsStored, authVars
    <2>4. OpenedWithStored'
      <3>1. nvs' = nvs /\ provisioned' = provisioned
        BY <2>2 DEF authVars
      <3>2. authenticated' => opener' = opener
        BY <2>2 DEF HistoryKept
      <3> QED
        BY <1>0, <2>1, <3>1, <3>2 DEF OpenedWithStored
    <2>5. HeldByOpen' /\ MarkInv' /\ AskedInv'
      <3>1. HeldByOpen' /\ MarkInv'
        BY <1>0, <2>1, <2>2 DEF HeldByOpen, MarkInv, markVars
      <3>2. AskedInv'
        BY <1>0, <2>1, <2>2, AskedShrinks DEF AskedInv
      <3> QED
        BY <3>1, <3>2
    <2> QED
      BY <2>3, <2>4, <2>5 DEF DeviceIInv
  <1>3. CASE PowerCycle
    BY <1>0, <1>3, SetupKeepsInv DEF PowerCycle
  <1>4. ASSUME NEW pin \in Pins, NEW s \in Salts, ProvisionInterrupted(pin, s)
        PROVE  DeviceIInv'
    <2>1. PICK n \in 1 .. 4 : Setup(Auth!Written(pin, s, n))
      BY <1>4 DEF ProvisionInterrupted
    <2>2. Auth!Written(pin, s, n) \in Auth!Stores
      BY <1>0, WrittenIsStore
    <2> QED
      BY <2>1, <2>2, SetupKeepsInv
  <1>5. CASE UNCHANGED vars
    BY <1>0, <1>5 DEF vars, sessionVars, authVars, reviewVars, markVars, historyVars,
                      DeviceIInv, CopyIsStored, OpenedWithStored, HeldByOpen, MarkInv, AskedInv
  <1> QED
    BY <1>1, <1>2, <1>3, <1>4, <1>5, AuthCommandKeepsInv, ChallengeKeepsInv, UnlockKeepsInv,
       LoopKeepsInv DEF Next

-----------------------------------------------------------------------------
\* Every wallet in RAM and every signature belongs to a session that was opened with the PIN
\* whose verifier the flash holds, through provisioning, expiry and power cycles.
THEOREM SessionIsPinHolders == Spec => []SignedByPinHolder
  <1>1. DeviceIInv => SignedByPinHolder
    BY DEF DeviceIInv, CopyIsStored, OpenedWithStored, HeldByOpen, SignedByPinHolder
  <1> QED
    BY <1>1, DeviceStart, DeviceStep, PTL DEF Spec

\* At the beginning of every round the display says LOCKED exactly when the session is closed,
\* and then the device holds no wallet, no review, no signature and no challenge of a session.
THEOREM MarkTellsTheTruth == Spec => [](MarkIsFresh /\ LockedMeansEmpty)
  <1>1. DeviceIInv => MarkIsFresh /\ LockedMeansEmpty
    BY DEF DeviceIInv, HeldByOpen, MarkInv, AskedInv, MarkIsFresh, LockedMeansEmpty
  <1> QED
    BY <1>1, DeviceStart, DeviceStep, PTL DEF Spec

\* A device whose display says LOCKED when a round begins holds nothing of a session, and no
\* challenge that was issued in one: whichever way the session ended, its wallet, its review
\* and its challenge went with it before the mark was drawn.
THEOREM LockedDeviceIsEmpty == Spec => []LockedMeansEmpty
  <1>1. MarkIsFresh /\ LockedMeansEmpty => LockedMeansEmpty
    OBVIOUS
  <1> QED
    BY <1>1, MarkTellsTheTruth, PTL

-----------------------------------------------------------------------------
(* Both halves run inside the device *)

\* The device is the authentication of CliAuth: each of its steps is one of CliAuth,
\* or leaves everything alone that CliAuth looks at.
THEOREM AuthenticationRuns == Spec => Auth!Spec
  <1>1. Init => Auth!Init
    BY DEF Init
  <1>2. ASSUME [Next]_vars PROVE [Auth!Next]_(Auth!vars)
    <2>1. CASE Tick \/ Check \/ Drained \/ Lock
      BY <2>1, Zenon DEF Tick, Check, Drained, Lock, Auth!Next
    <2>2. CASE AuthCommand \/ Challenge
      BY <2>2, Zenon DEF AuthCommand, Challenge, Auth!Next
    <2>3. ASSUME NEW answer \in Auth!Verifiers, Unlock(answer) PROVE Auth!Next
      BY <2>3, Zenon DEF Unlock, Auth!Next
    <2>4. CASE WalletCommand
      BY <2>4, Zenon DEF WalletCommand, Auth!Next
    <2>5. CASE OpenCommand
      <3>1. Review!PublicCommand /\ UNCHANGED authVars
        BY <2>5 DEF OpenCommand, Review!PublicQuery, Review!TxReject
      <3>2. UNCHANGED Auth!vars
        BY <3>1 DEF Review!PublicCommand, Review!AtPrompt, Review!Kept, authVars,
                    Auth!vars, Auth!sessionVars, Auth!authVars, Auth!storeVars
      <3> QED  BY <3>2
    <2>6. ASSUME NEW image, Setup(image) PROVE Auth!Restart(image)
      BY <2>6, Zenon DEF Setup, Auth!Restart
    <2>7. CASE PowerCycle
      BY <2>6, <2>7, Zenon DEF PowerCycle, Auth!Next, Auth!PowerCycle
    <2>8. ASSUME NEW pin \in Pins, NEW s \in Salts, ProvisionInterrupted(pin, s) PROVE Auth!Next
      BY <2>6, <2>8, Zenon DEF ProvisionInterrupted, Auth!ProvisionInterrupted, Auth!Next
    <2>9. CASE UNCHANGED vars
      BY <2>9 DEF vars, sessionVars, authVars, Auth!vars, Auth!sessionVars, Auth!authVars,
                  Auth!storeVars
    <2> QED
      BY <1>2, <2>1, <2>2, <2>3, <2>4, <2>5, <2>7, <2>8, <2>9 DEF Next
  <1> QED
    BY <1>1, <1>2, PTL DEF Spec, Auth!Spec

\* And it is the wallet, review and signature of CliReview, in the same way.
THEOREM SigningRuns == Spec => Review!Spec
  <1>1. Init => Review!Init
    BY DEF Init
  <1>2. ASSUME [Next]_vars PROVE [Review!Next]_(Review!vars)
    <2>1. CASE Tick \/ Check \/ Drained \/ Lock
      BY <2>1, Zenon DEF Tick, Check, Drained, Lock, Review!Next
    <2>2. CASE AuthCommand \/ Challenge \/ OpenCommand
      BY <2>2, Zenon DEF AuthCommand, Challenge, OpenCommand, Review!Next
    <2>3. ASSUME NEW answer \in Auth!Verifiers, Unlock(answer) PROVE Review!Next
      BY <2>3, Zenon DEF Unlock, Review!Next
    <2>4. CASE WalletCommand
      BY <2>4, Zenon DEF WalletCommand, Review!Next, Review!Bitcoin, Review!Evm
    <2>5. ASSUME NEW image, Setup(image) PROVE Review!Next
      BY <2>5, Zenon DEF Setup, Review!Next
    <2>6. CASE PowerCycle
      BY <2>5, <2>6, Zenon DEF PowerCycle
    <2>7. ASSUME NEW pin \in Pins, NEW s \in Salts, ProvisionInterrupted(pin, s) PROVE Review!Next
      BY <2>5, <2>7, Zenon DEF ProvisionInterrupted
    <2>8. CASE UNCHANGED vars
      BY <2>8 DEF vars, sessionVars, reviewVars, Review!vars, Review!sessionVars,
                  Review!reviewVars, Review!pendingVars
    <2> QED
      BY <1>2, <2>1, <2>2, <2>3, <2>4, <2>6, <2>7, <2>8 DEF Next
  <1> QED
    BY <1>1, <1>2, PTL DEF Spec, Review!Spec
-----------------------------------------------------------------------------
(* What is proved of a half holds of the device *)

\* The theorems about CliAuth, on the variables of the device.
Alone == INSTANCE CliAuthProof

\* It is the same half, definition by definition.
LEMMA SameHalf == Auth!Spec => Alone!Spec
  <1>1. Auth!Init => Alone!Init
    BY DEF Auth!Init, Auth!SessionInit, Alone!Init, Alone!SessionInit
  <1>2. [Auth!Next]_(Auth!vars) => [Alone!Next]_(Alone!vars)
    BY Zenon
    DEF Auth!Later, Auth!Since, Auth!deadline_reached, Auth!sessionVars, Auth!IdleCap,
        Auth!Closed, Auth!Kept, Auth!Refreshed, Auth!SessionInit, Auth!SessionBoot,
        Auth!SessionOff, Auth!SessionTick, Auth!SessionExpired, Auth!SessionCheck,
        Auth!SessionDrained, Auth!AtPrompt, Auth!PublicCommand, Auth!require_authentication,
        Auth!SessionOpens, Auth!SessionLocks, Auth!NoAnswer, Auth!pbkdf2, Auth!Verifiers,
        Auth!Shift, Auth!Delay, Auth!storeVars, Auth!authVars, Auth!vars, Auth!RetryAfterBoot,
        Auth!Complete, Auth!ValuesRead, Auth!CountRead, Auth!Boot, Auth!BootFails, Auth!Restart,
        Auth!Init, Auth!PowerCycle, Auth!ProvisioningOpen, Auth!Written, Auth!ProvisionPin,
        Auth!ProvisionFails, Auth!ProvisionInterrupted, Auth!ChallengeDue, Auth!begin_challenge,
        Auth!CounterBecomes, Auth!OneMore, Auth!record_failure, Auth!UnlockWrong,
        Auth!UnlockRight, Auth!AuthenticatedCommand, Auth!ChallengeDropped, Auth!Lock,
        Auth!Check, Auth!Drained, Auth!Tick, Auth!Next, Alone!Later, Alone!Since,
        Alone!deadline_reached, Alone!sessionVars, Alone!IdleCap, Alone!Closed, Alone!Kept,
        Alone!Refreshed, Alone!SessionInit, Alone!SessionBoot, Alone!SessionOff,
        Alone!SessionTick, Alone!SessionExpired, Alone!SessionCheck, Alone!SessionDrained,
        Alone!AtPrompt, Alone!PublicCommand, Alone!require_authentication, Alone!SessionOpens,
        Alone!SessionLocks, Alone!NoAnswer, Alone!pbkdf2, Alone!Verifiers, Alone!Shift,
        Alone!Delay, Alone!storeVars, Alone!authVars, Alone!vars, Alone!RetryAfterBoot,
        Alone!Complete, Alone!ValuesRead, Alone!CountRead, Alone!Boot, Alone!BootFails,
        Alone!Restart, Alone!Init, Alone!PowerCycle, Alone!ProvisioningOpen, Alone!Written,
        Alone!ProvisionPin, Alone!ProvisionFails, Alone!ProvisionInterrupted,
        Alone!ChallengeDue, Alone!begin_challenge, Alone!CounterBecomes, Alone!OneMore,
        Alone!record_failure, Alone!UnlockWrong, Alone!UnlockRight, Alone!AuthenticatedCommand,
        Alone!ChallengeDropped, Alone!Lock, Alone!Check, Alone!Drained, Alone!Tick, Alone!Next
  <1> QED
    BY <1>1, <1>2, PTL DEF Auth!Spec, Alone!Spec

\* A stored PIN is replaced on the whole device only where the last boot did not find it:
\* no command of the wallet, no failed setup() and no power cycle opens another way.
THEOREM StoredPinSurvives == Spec => PinNeverReplaced
  <1>1. Auth!AuthAssumption
    BY DeviceAssumption
  <1>2. Alone!Spec => Alone!PinNeverReplaced
    BY <1>1, SessionAssumption, ClockAssumption, Alone!StoredPinStays
    DEF Auth!AuthAssumption, Auth!NoAnswer, Auth!Verifiers, Auth!Shift,
        Alone!NoAnswer, Alone!Verifiers, Alone!Shift
  <1> DEFINE Stays == nvs.flag /\ ~misread
                          => nvs'.flag /\ nvs'.salt = nvs.salt /\ nvs'.verifier = nvs.verifier
  <1>3. [Stays]_(Alone!vars) => [Stays]_(Auth!vars)
    BY DEF Auth!vars, Auth!sessionVars, Auth!authVars, Auth!storeVars,
           Alone!vars, Alone!sessionVars, Alone!authVars, Alone!storeVars
  <1> QED
    BY <1>2, <1>3, AuthenticationRuns, SameHalf, PTL
    DEF PinNeverReplaced, Auth!PinNeverReplaced, Alone!PinNeverReplaced
=============================================================================
