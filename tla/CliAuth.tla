------------------------------ MODULE CliAuth -------------------------------
(***************************************************************************)
(* Authentication of the serial interface: provisioning of the PIN         *)
(* verifier into non-volatile storage (NVS), the challenge and its answer, *)
(* the failure counter with its exponential back-off, and the power cycle. *)
(*                                                                         *)
(* A salt is a model value.  A verifier, the PBKDF2 of a PIN under a salt, *)
(* is the pair of both: two verifiers are equal exactly when both parts    *)
(* are.  An answer is the verifier the host computed it from, or NoAnswer  *)
(* for a proof that does not decode or was made for another challenge.     *)
(***************************************************************************)
EXTENDS CliSession

CONSTANTS
    Pins,               \* PINs that meet the length policy
    Salts,              \* values esp_fill_random(salt) may draw
    None,               \* nothing stored
    BackoffUnit,        \* 1000 ms
    MaxExponent,        \* 10
    MaxBackoff,         \* kMaximumBackoffMs
    MaxFailures,        \* UINT32_MAX, where the counter saturates
    CounterWritesFail,  \* whether a putUInt of the counter, never checked, may be lost
    ReadsFail           \* whether a read of NVS may fail on a device that runs on

NoAnswer == <<None, None>>
pbkdf2(pin, s) == <<pin, s>>
Verifiers == Pins \X Salts

Shift(e) == BackoffUnit * 2 ^ e

ASSUME AuthAssumption ==
    /\ None \notin Salts
    /\ NoAnswer \notin Verifiers
    /\ \A v \in Verifiers : v # None
    /\ MaxExponent \in Nat
    /\ \A e \in 0 .. MaxExponent : Shift(e) \in Nat \ {0}
    /\ MaxBackoff \in Nat \ {0}
    /\ 2 * MaxBackoff < ClockMod
    /\ MaxFailures \in Nat \ {0}
    /\ CounterWritesFail \in BOOLEAN /\ ReadsFail \in BOOLEAN

\* 1000UL << min(failures, 10), limited to kMaximumBackoffMs.
Delay(failures) ==
    LET exponent == IF failures > MaxExponent THEN MaxExponent ELSE failures
    IN  IF Shift(exponent) > MaxBackoff THEN MaxBackoff ELSE Shift(exponent)

VARIABLES
    nvs,                \* the four keys of the "hexwallet" namespace
    provisioned,        \* RAM copies of the first three
    salt,
    verifier,
    challenge_active,
    retry_after,        \* instant before which no challenge is issued
    cooldown,           \* history: true time left of the last failure's back-off,
                        \* counted on through power cycles
    misread             \* history: the last boot did not find the PIN that was stored,
                        \* and none was provisioned since

storeVars == <<nvs, provisioned, salt, verifier, misread>>
authVars == <<storeVars, challenge_active, retry_after, cooldown>>
vars == <<sessionVars, authVars>>

Stores == [flag: BOOLEAN, salt: Salts \cup {None}, verifier: Verifiers \cup {None},
           failures: 0 .. MaxFailures]

TypeOK ==
    /\ SessionTypeOK
    /\ nvs \in Stores
    /\ provisioned \in BOOLEAN
    /\ salt \in Salts \cup {None}
    /\ verifier \in Verifiers \cup {None}
    /\ challenge_active \in BOOLEAN
    /\ retry_after \in Instant
    /\ cooldown \in 0 .. MaxBackoff
    /\ misread \in BOOLEAN

-----------------------------------------------------------------------------
\* Mutant: a power cycle forgets the back-off.
RetryAtOnce(failures) == 0

\* A failure count that survived the power cycle re-arms the back-off.
RetryAfterBoot(failures) == IF failures # 0 THEN Delay(failures) ELSE 0

\* What the flag, both lengths and both values come to when they are all read.
Complete(image) == image.flag /\ image.salt # None /\ image.verifier # None

\* How many of the two values, salt and verifier in this order, the five reads joined by &&
\* bring to RAM: none when the flag or a length is missing or is not read.
ValuesRead(image) ==
    IF ~Complete(image) THEN {0} ELSE IF ReadsFail THEN 0 .. 2 ELSE {2}

\* The counter as a read sees it; one that fails is taken for 0.
CountRead(failures) == IF ReadsFail THEN {0, failures} ELSE {failures}

\* wallet_cli_init() on the stored image.  A read that fails ends in an unprovisioned
\* device that runs on, as if nothing was stored.
Boot(image) ==
    /\ SessionBoot
    /\ nvs' = image
    /\ \E n \in ValuesRead(image) :
           /\ salt' = IF n >= 1 THEN image.salt ELSE None
           /\ verifier' = IF n = 2 THEN image.verifier ELSE None
           /\ provisioned' = (n = 2)
           /\ misread' = (Complete(image) /\ n < 2)
    /\ challenge_active' = FALSE
    /\ \E failures \in CountRead(image.failures) : retry_after' = RetryAfterBoot(failures)
    /\ cooldown' = cooldown

\* setup() on the stored image fails before the RAM copies are filled.
BootFails(image) ==
    /\ SessionOff
    /\ nvs' = image
    /\ provisioned' = FALSE /\ salt' = None /\ verifier' = None /\ misread' = FALSE
    /\ challenge_active' = FALSE
    /\ retry_after' = 0
    /\ cooldown' = cooldown

Restart(image) == Boot(image) \/ BootFails(image)

Init ==
    /\ SessionInit
    /\ nvs = [flag |-> FALSE, salt |-> None, verifier |-> None, failures |-> 0]
    /\ provisioned = FALSE /\ salt = None /\ verifier = None /\ misread = FALSE
    /\ challenge_active = FALSE
    /\ retry_after = 0 /\ cooldown = 0

\* Power is lost between two steps.
PowerCycle == Restart(nvs)

-----------------------------------------------------------------------------
\* Mutant: a provisioned device can be provisioned again.
ProvisioningAlwaysOpen == TRUE

ProvisioningOpen == ~provisioned

\* Mutant: the flag is written before what it vouches for.
WrittenFlagFirst(pin, s, n) ==
    [flag     |-> n >= 1 \/ nvs.flag,
     salt     |-> IF n >= 2 THEN s ELSE nvs.salt,
     verifier |-> IF n >= 3 THEN pbkdf2(pin, s) ELSE nvs.verifier,
     failures |-> IF n >= 4 THEN 0 ELSE nvs.failures]

\* provision_pin writes salt, verifier, flag and counter, in this order; here
\* is the image once the first n of the four writes have reached the flash.
Written(pin, s, n) ==
    [salt     |-> IF n >= 1 THEN s ELSE nvs.salt,
     verifier |-> IF n >= 2 THEN pbkdf2(pin, s) ELSE nvs.verifier,
     flag     |-> n >= 3 \/ nvs.flag,
     failures |-> IF n >= 4 THEN 0 ELSE nvs.failures]

\* The counter's write is the last one and its result is ignored.
ProvisionPin(pin, s) ==
    /\ PublicCommand
    /\ ProvisioningOpen
    /\ \E n \in (IF CounterWritesFail THEN {3, 4} ELSE {4}) : nvs' = Written(pin, s, n)
    /\ salt' = s /\ verifier' = pbkdf2(pin, s) /\ provisioned' = TRUE /\ misread' = FALSE
    /\ UNCHANGED <<challenge_active, retry_after, cooldown>>

\* A checked write reports failure: the earlier ones stay in the flash and the
\* new salt stays in RAM, unprovisioned.
ProvisionFails(pin, s) ==
    /\ PublicCommand
    /\ ProvisioningOpen
    /\ \E n \in 0 .. 2 : nvs' = Written(pin, s, n)
    /\ salt' = s
    /\ UNCHANGED <<verifier, provisioned, misread, challenge_active, retry_after, cooldown>>

\* Power is lost while provision_pin runs.
ProvisionInterrupted(pin, s) ==
    /\ phase = "drain"
    /\ ProvisioningOpen
    /\ \E n \in 1 .. 4 : Restart(Written(pin, s, n))

-----------------------------------------------------------------------------

ChallengeDue == deadline_reached(clock, retry_after)

begin_challenge ==
    /\ PublicCommand
    /\ provisioned
    /\ ChallengeDue
    /\ challenge_active' = TRUE
    /\ UNCHANGED <<storeVars, retry_after, cooldown>>

\* What the counter's write leaves in the flash.
CounterBecomes(f) ==
    \/ nvs' = [nvs EXCEPT !.failures = f]
    \/ CounterWritesFail /\ nvs' = nvs

OneMore(count) == IF count = MaxFailures THEN count ELSE count + 1

record_failure ==
    \E count \in CountRead(nvs.failures) :
        /\ CounterBecomes(OneMore(count))
        /\ retry_after' = Later(clock, Delay(OneMore(count)))
        /\ cooldown' = Delay(OneMore(count))

\* The challenge is used up whatever the answer; a wrong one does not close a
\* session that is already open.
UnlockWrong(answer) ==
    /\ PublicCommand
    /\ challenge_active /\ challenge_active' = FALSE
    /\ answer # verifier
    /\ record_failure
    /\ UNCHANGED <<provisioned, salt, verifier, misread>>

UnlockRight(answer) ==
    /\ SessionOpens
    /\ challenge_active /\ challenge_active' = FALSE
    /\ answer = verifier
    /\ CounterBecomes(0)
    /\ retry_after' = 0
    /\ cooldown' = 0
    /\ UNCHANGED <<provisioned, salt, verifier, misread>>

-----------------------------------------------------------------------------
\* Any authenticated command.
AuthenticatedCommand == require_authentication /\ UNCHANGED authVars

\* Mutant: locking leaves the challenge standing.
ChallengeStays == UNCHANGED challenge_active

\* What wallet_cli_lock does beside closing the session and clearing the wallet.
ChallengeDropped == challenge_active' = FALSE

\* wallet_cli_lock as a command and from the timeout check.
Lock ==
    /\ SessionLocks
    /\ ChallengeDropped
    /\ UNCHANGED <<storeVars, retry_after, cooldown>>

Check ==
    /\ SessionCheck
    /\ IF SessionExpired THEN ChallengeDropped ELSE UNCHANGED challenge_active
    /\ UNCHANGED <<storeVars, retry_after, cooldown>>

Drained == SessionDrained /\ UNCHANGED authVars

Tick ==
    /\ SessionTick
    /\ cooldown' = IF cooldown > 0 THEN cooldown - 1 ELSE 0
    /\ UNCHANGED <<storeVars, challenge_active, retry_after>>

Next ==
    \/ Tick \/ Check \/ Drained
    \/ \E pin \in Pins, s \in Salts : ProvisionPin(pin, s)
    \/ \E pin \in Pins, s \in Salts : ProvisionFails(pin, s)
    \/ \E pin \in Pins, s \in Salts : ProvisionInterrupted(pin, s)
    \/ begin_challenge
    \/ \E answer \in Verifiers \cup {NoAnswer} : UnlockWrong(answer)
    \/ \E answer \in Verifiers : UnlockRight(answer)
    \/ AuthenticatedCommand
    \/ Lock
    \/ PowerCycle

Spec == Init /\ [][Next]_vars

-----------------------------------------------------------------------------
(* Properties *)

\* Whenever the device counts as provisioned, in RAM or in the image a power
\* cycle would load, the verifier was made under the very salt that
\* begin_challenge publishes: however provisioning was interrupted, and however
\* often a write of it failed, there is a PIN that opens the device.  Where
\* ReadsFail it need not hold: provisioning over a stored PIN that was not read
\* may be cut short after the new salt, and then no PIN opens the device.
ProvisioningAtomic ==
    /\ provisioned => verifier \in Pins \X {salt}
    /\ nvs.flag => nvs.verifier \in Pins \X {nvs.salt}

\* provision_pin refuses only on the RAM flag, which a failed setup(), a failed read of
\* NVS and a provisioning that broke off leave false.  A stored PIN is lost only where the
\* last boot did not find it: no failed write, failed setup(), challenge or power cycle
\* opens another way to a second provisioning, with readable storage or without.
PinNeverReplaced ==
    [][nvs.flag /\ ~misread
           => nvs'.flag /\ nvs'.salt = nvs.salt /\ nvs'.verifier = nvs.verifier]_vars

\* A back-off starts only when the one before it is over, in true time, with
\* the clock wrapping and power cycles in between: answers that are wrong are
\* spaced by the delay, and a power cycle does not buy another one.
BackoffsNeverOverlap == [][cooldown' > cooldown => cooldown = 0]_vars

\* Strengthening of the above: what the next begin_challenge will compute from
\* the wrapped clock covers the time that is really left, and so would what
\* wallet_cli_init computes from the stored counter.
BackoffInv ==
    /\ cooldown > 0 /\ phase # "off" => /\ cooldown <= Since(retry_after, clock)
                                        /\ Since(retry_after, clock) <= MaxBackoff
    /\ cooldown > 0 => nvs.failures # 0 /\ cooldown <= Delay(nvs.failures)
    /\ challenge_active => provisioned /\ cooldown = 0
=============================================================================
