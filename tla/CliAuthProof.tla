---------------------------- MODULE CliAuthProof ----------------------------
(***************************************************************************)
(* Proofs about CliAuth, for every clock width, timeout, back-off scale    *)
(* and set of PINs and salts that meets the assumptions of the modules.    *)
(***************************************************************************)
EXTENDS CliAuth, CliSessionProof

\* A back-off is at least one unit of time and never above its limit.
LEMMA DelayRange ==
    ASSUME NEW f \in Nat
    PROVE  Delay(f) \in 1 .. MaxBackoff
  <1> DEFINE e == IF f > MaxExponent THEN MaxExponent ELSE f
  <1>1. e \in 0 .. MaxExponent
    BY AuthAssumption
  <1>2. Shift(e) \in Nat \ {0}
    BY <1>1, AuthAssumption
  <1>3. Delay(f) = IF Shift(e) > MaxBackoff THEN MaxBackoff ELSE Shift(e)
    BY DEF Delay
  <1> QED
    BY <1>2, <1>3, AuthAssumption

-----------------------------------------------------------------------------
\* The types of the authentication half alone.
AuthTypeOK ==
    /\ nvs \in Stores
    /\ provisioned \in BOOLEAN
    /\ salt \in Salts \cup {None}
    /\ verifier \in Verifiers \cup {None}
    /\ challenge_active \in BOOLEAN
    /\ retry_after \in Instant
    /\ cooldown \in 0 .. MaxBackoff
    /\ misread \in BOOLEAN

\* Every image that provisioning can leave behind is a well-formed store.
LEMMA WrittenTypes ==
    ASSUME AuthTypeOK, NEW pin \in Pins, NEW s \in Salts, NEW n \in Nat
    PROVE  Written(pin, s, n) \in Stores
  <1>1. pbkdf2(pin, s) \in Verifiers
    BY DEF pbkdf2, Verifiers
  <1>2. nvs.salt \in Salts \cup {None} /\ nvs.verifier \in Verifiers \cup {None}
        /\ nvs.failures \in 0 .. MaxFailures /\ nvs.flag \in BOOLEAN
    BY DEF AuthTypeOK, Stores
  <1>3. 0 \in 0 .. MaxFailures
    BY AuthAssumption
  <1> QED
    BY <1>1, <1>2, <1>3 DEF Written, Stores

\* Booting from a well-formed store.
LEMMA BootTypes ==
    ASSUME AuthTypeOK, NEW image \in Stores, Restart(image)
    PROVE  AuthTypeOK'
  <1>1. image.failures \in Nat /\ image.salt \in Salts \cup {None}
        /\ image.verifier \in Verifiers \cup {None} /\ image.flag \in BOOLEAN
    BY AuthAssumption DEF Stores
  <1>2. 0 \in Instant
    BY ClockAssumption DEF Instant
  <1>3. ASSUME NEW count \in CountRead(image.failures) PROVE RetryAfterBoot(count) \in Instant
    <2>1. count \in Nat
      BY <1>1, <1>3 DEF CountRead
    <2> QED
      BY <1>2, <2>1, DelayRange, AuthAssumption, ClockAssumption DEF RetryAfterBoot, Instant
  <1>4. CASE Boot(image)
    <2>1. retry_after' \in Instant
      BY <1>3, <1>4 DEF Boot
    <2>2. PICK n \in ValuesRead(image) :
              /\ salt' = IF n >= 1 THEN image.salt ELSE None
              /\ verifier' = IF n = 2 THEN image.verifier ELSE None
              /\ provisioned' = (n = 2)
              /\ misread' = (Complete(image) /\ n < 2)
      BY <1>4 DEF Boot
    <2>3. nvs' = image /\ challenge_active' = FALSE /\ cooldown' = cooldown
      BY <1>4 DEF Boot
    <2>4. Complete(image) \in BOOLEAN
      BY DEF Complete
    <2> QED
      BY <1>1, <2>1, <2>2, <2>3, <2>4 DEF AuthTypeOK
  <1>5. CASE BootFails(image)
    BY <1>2, <1>5 DEF BootFails, AuthTypeOK
  <1> QED
    BY <1>4, <1>5 DEF Restart

\* The count one more wrong answer makes of the one that was read.
LEMMA CountTypes ==
    ASSUME nvs \in Stores, NEW count \in CountRead(nvs.failures)
    PROVE  OneMore(count) \in 1 .. MaxFailures
  <1>1. nvs.failures \in 0 .. MaxFailures /\ MaxFailures \in Nat \ {0}
    BY AuthAssumption DEF Stores
  <1>2. count \in 0 .. MaxFailures
    BY <1>1 DEF CountRead
  <1> QED
    BY <1>1, <1>2 DEF OneMore

\* What record_failure writes, in flash and in RAM, is in range.
LEMMA FailureTypes ==
    ASSUME AuthTypeOK, clock \in Instant, record_failure
    PROVE  /\ nvs' \in Stores
           /\ retry_after' \in Instant
           /\ cooldown' \in 0 .. MaxBackoff
  <1>1. PICK count \in CountRead(nvs.failures) :
            /\ CounterBecomes(OneMore(count))
            /\ retry_after' = Later(clock, Delay(OneMore(count)))
            /\ cooldown' = Delay(OneMore(count))
    BY DEF record_failure
  <1>2. OneMore(count) \in 0 .. MaxFailures /\ OneMore(count) \in Nat
    BY CountTypes, AuthAssumption DEF AuthTypeOK
  <1>3. Delay(OneMore(count)) \in 1 .. MaxBackoff
    BY <1>2, DelayRange
  <1>4. retry_after' \in Instant
    BY <1>1, <1>3, LaterIsInstant, AuthAssumption, ClockAssumption
  <1>5. nvs' \in Stores
    BY <1>1, <1>2 DEF CounterBecomes, AuthTypeOK, Stores
  <1> QED
    BY <1>1, <1>3, <1>4, <1>5, AuthAssumption

\* Every step of CliAuth is, for the session, one of the session's own steps.
LEMMA NextIsSessionStep ==
    ASSUME [Next]_vars
    PROVE  SessionStep \/ UNCHANGED sessionVars
  BY DEF Next, vars, SessionStep, Tick, Check, Drained, ProvisionPin, ProvisionFails,
         ProvisionInterrupted, begin_challenge, UnlockWrong, UnlockRight,
         AuthenticatedCommand, Lock, PowerCycle, Restart, Boot, BootFails

\* Every variable of CliAuth keeps its type, for every value of the constants.
THEOREM TypeCorrect == Spec => []TypeOK
  <1>1. Init => TypeOK
    <2> SUFFICES ASSUME Init PROVE TypeOK
      OBVIOUS
    <2>1. 0 \in Instant /\ 0 \in 0 .. MaxLag /\ 0 \in 0 .. IdleCap
          /\ 0 \in 0 .. MaxBackoff /\ 0 \in 0 .. MaxFailures
      BY ClockAssumption, SessionAssumption, AuthAssumption DEF Instant, IdleCap
    <2>2. SessionTypeOK
      BY <2>1 DEF Init, SessionInit, SessionTypeOK
    <2>3. nvs \in Stores
      BY <2>1 DEF Init, Stores
    <2> QED
      BY <2>1, <2>2, <2>3 DEF Init, TypeOK
  <1>2. TypeOK /\ [Next]_vars => TypeOK'
    <2> SUFFICES ASSUME TypeOK, [Next]_vars PROVE TypeOK'
      OBVIOUS
    <2>1. SessionTypeOK /\ AuthTypeOK
      BY DEF TypeOK, AuthTypeOK
    <2>2. SessionTypeOK' /\ AuthTypeOK' => TypeOK'
      BY DEF TypeOK, AuthTypeOK
    <2>3. SessionTypeOK'
      BY <2>1, NextIsSessionStep, SessionTypes
    <2>4. AuthTypeOK'
      <3>1. CASE Tick
        BY <2>1, <3>1, AuthAssumption DEF Tick, storeVars, AuthTypeOK
      <3>2. CASE Check \/ Lock
        BY <2>1, <3>2 DEF Check, Lock, ChallengeDropped, storeVars, AuthTypeOK
      <3>3. CASE Drained \/ AuthenticatedCommand
        BY <2>1, <3>3 DEF Drained, AuthenticatedCommand, AuthTypeOK, authVars, storeVars
      <3>4. ASSUME NEW pin \in Pins, NEW s \in Salts, ProvisionPin(pin, s)
            PROVE  AuthTypeOK'
        <4>1. pbkdf2(pin, s) \in Verifiers
          BY DEF pbkdf2, Verifiers
        <4>2. nvs' \in Stores
          BY <2>1, <3>4, WrittenTypes DEF ProvisionPin
        <4> QED
          BY <2>1, <3>4, <4>1, <4>2 DEF ProvisionPin, AuthTypeOK
      <3>5. ASSUME NEW pin \in Pins, NEW s \in Salts, ProvisionFails(pin, s)
            PROVE  AuthTypeOK'
        <4>1. nvs' \in Stores
          BY <2>1, <3>5, WrittenTypes DEF ProvisionFails
        <4> QED
          BY <2>1, <3>5, <4>1 DEF ProvisionFails, AuthTypeOK
      <3>6. ASSUME NEW pin \in Pins, NEW s \in Salts, ProvisionInterrupted(pin, s)
            PROVE  AuthTypeOK'
        <4>1. PICK n \in 1 .. 4 : Restart(Written(pin, s, n))
          BY <3>6 DEF ProvisionInterrupted
        <4>2. Written(pin, s, n) \in Stores
          BY <2>1, WrittenTypes
        <4> QED
          BY <2>1, <4>1, <4>2, BootTypes
      <3>7. CASE begin_challenge
        BY <2>1, <3>7 DEF begin_challenge, storeVars, AuthTypeOK
      <3>8. ASSUME NEW answer \in Verifiers \cup {NoAnswer}, UnlockWrong(answer)
            PROVE  AuthTypeOK'
        <4>1. record_failure /\ clock \in Instant
          BY <2>1, <3>8 DEF UnlockWrong, SessionTypeOK
        <4> QED
          BY <2>1, <3>8, <4>1, FailureTypes DEF UnlockWrong, AuthTypeOK
      <3>9. ASSUME NEW answer \in Verifiers, UnlockRight(answer)
            PROVE  AuthTypeOK'
        <4>1. 0 \in 0 .. MaxFailures /\ 0 \in Instant /\ 0 \in 0 .. MaxBackoff
          BY AuthAssumption, ClockAssumption DEF Instant
        <4>2. nvs' \in Stores
          BY <2>1, <3>9, <4>1 DEF UnlockRight, CounterBecomes, AuthTypeOK, Stores
        <4> QED
          BY <2>1, <3>9, <4>1, <4>2 DEF UnlockRight, AuthTypeOK
      <3>10. CASE PowerCycle
        BY <2>1, <3>10, BootTypes DEF PowerCycle, AuthTypeOK
      <3>11. CASE UNCHANGED vars
        BY <2>1, <3>11 DEF vars, authVars, storeVars, AuthTypeOK
      <3> QED
        BY <3>1, <3>2, <3>3, <3>4, <3>5, <3>6, <3>7, <3>8, <3>9, <3>10, <3>11 DEF Next
    <2> QED
      BY <2>2, <2>3, <2>4
  <1> QED
    BY <1>1, <1>2, PTL DEF Spec

-----------------------------------------------------------------------------
\* An open session has been used within the timeout and one lag, whatever the
\* clock does and however long one call of wallet_cli_service keeps reading.
THEOREM SessionsAreBounded == Spec => [](SessionInv /\ SessionBounded)
  <1>1. Init => SessionInv
    BY DEF Init, SessionInit, SessionInv
  <1>2. TypeOK /\ SessionInv /\ [Next]_vars => SessionInv'
    BY NextIsSessionStep, SessionKept DEF TypeOK
  <1>3. TypeOK /\ SessionInv => SessionBounded
    BY SessionBound DEF TypeOK
  <1> QED
    BY <1>1, <1>2, <1>3, TypeCorrect, PTL DEF Spec

-----------------------------------------------------------------------------
(* The stored PIN *)

\* PinNeverReplaced follows from what RAM and flash know of each other.  provision_pin is
\* refused only on the RAM flag: that is enough because wherever a command can run and the
\* last boot did not misread the flash, the RAM flag is set when the flash is provisioned.
\* That boot finds it so because the flag in the flash is never without its two values.
StoreInv ==
    /\ provisioned => nvs.flag /\ salt = nvs.salt /\ verifier = nvs.verifier
    /\ nvs.flag => Complete(nvs)
    /\ nvs.flag /\ ~misread /\ phase # "off" => provisioned

\* A wrong or a right answer changes nothing of the store but the counter.
LEMMA CounterOnly ==
    ASSUME TypeOK, NEW f, CounterBecomes(f)
    PROVE  nvs'.flag = nvs.flag /\ nvs'.salt = nvs.salt /\ nvs'.verifier = nvs.verifier
  BY DEF CounterBecomes, TypeOK, Stores

\* A boot reads at most what the image holds, and all of it when no read fails.
LEMMA BootReads ==
    ASSUME NEW image \in Stores, Boot(image)
    PROVE  /\ nvs' = image /\ provisioned' \in BOOLEAN
           /\ provisioned' => /\ Complete(image)
                              /\ salt' = image.salt /\ verifier' = image.verifier
           /\ Complete(image) /\ ~misread' => provisioned'
           /\ ~ReadsFail => ~misread'
  <1>1. PICK n \in ValuesRead(image) :
            /\ salt' = IF n >= 1 THEN image.salt ELSE None
            /\ verifier' = IF n = 2 THEN image.verifier ELSE None
            /\ provisioned' = (n = 2)
            /\ misread' = (Complete(image) /\ n < 2)
    BY DEF Boot
  <1>2. /\ n \in 0 .. 2
        /\ n = 2 => Complete(image)
        /\ Complete(image) /\ ~ReadsFail => n = 2
    BY <1>1 DEF ValuesRead
  <1>3. n < 2 \/ n = 2
    BY <1>2
  <1>4. Complete(image) \in BOOLEAN
    BY DEF Complete
  <1>5. nvs' = image
    BY DEF Boot
  <1>6. n = 2 => Complete(image) /\ salt' = image.salt /\ verifier' = image.verifier
    BY <1>1, <1>2
  <1>7. provisioned' \in BOOLEAN /\ (provisioned' <=> n = 2)
    BY <1>1
  <1>8. misread' <=> Complete(image) /\ n < 2
    BY <1>1
  <1> QED
    BY <1>2, <1>3, <1>5, <1>6, <1>7, <1>8

\* Booting from the image a step leaves behind, complete or not, read or not.
LEMMA BootStore ==
    ASSUME NEW image \in Stores, Restart(image), image.flag => Complete(image)
    PROVE  /\ StoreInv' /\ nvs' = image
           /\ ~ReadsFail => ~misread'
  <1>1. CASE Boot(image)
    <2>1. Complete(image) => image.flag
      BY DEF Complete
    <2> QED
      BY <1>1, <2>1, BootReads DEF StoreInv, Complete
  <1>2. CASE BootFails(image)
    BY <1>2 DEF BootFails, SessionOff, StoreInv, Complete
  <1> QED
    BY <1>1, <1>2 DEF Restart

\* Each of the images provisioning may leave: none has the flag without its two values.
LEMMA WrittenStore ==
    ASSUME nvs \in Stores, nvs.flag => Complete(nvs),
           NEW pin \in Pins, NEW s \in Salts, NEW n \in 0 .. 4
    PROVE  /\ Written(pin, s, n).flag => Complete(Written(pin, s, n))
           /\ n >= 3 => /\ Written(pin, s, n).flag
                        /\ Written(pin, s, n).salt = s
                        /\ Written(pin, s, n).verifier = pbkdf2(pin, s)
           /\ n < 3 /\ ~nvs.flag => ~Written(pin, s, n).flag
  <1>1. s # None
    BY AuthAssumption
  <1>2. pbkdf2(pin, s) # None
    <2>1. pbkdf2(pin, s) \in Verifiers
      BY DEF pbkdf2, Verifiers
    <2> QED
      BY <2>1, AuthAssumption
  <1>3. n >= 3 => /\ Written(pin, s, n).flag
                  /\ Written(pin, s, n).salt = s
                  /\ Written(pin, s, n).verifier = pbkdf2(pin, s)
    <2> SUFFICES ASSUME n >= 3 PROVE /\ Written(pin, s, n).flag
                                     /\ Written(pin, s, n).salt = s
                                     /\ Written(pin, s, n).verifier = pbkdf2(pin, s)
      OBVIOUS
    <2>1. Written(pin, s, n).flag
      BY DEF Written
    <2>2. Written(pin, s, n).salt = s
      BY DEF Written
    <2>3. Written(pin, s, n).verifier = pbkdf2(pin, s)
      BY DEF Written
    <2> QED
      BY <2>1, <2>2, <2>3
  <1>4. n < 3 => Written(pin, s, n).flag = nvs.flag
    BY DEF Written, Stores
  <1>5. nvs.flag => Written(pin, s, n).salt # None /\ Written(pin, s, n).verifier # None
    BY <1>1, <1>2 DEF Written, Complete
  <1>6. n < 3 \/ n >= 3
    OBVIOUS
  <1> QED
    BY <1>1, <1>2, <1>3, <1>4, <1>5, <1>6 DEF Complete

\* Where provisioning is open, a PIN is stored only if it was not read.
LEMMA OpenMeansUnread ==
    ASSUME StoreInv, ProvisioningOpen, phase = "drain", nvs.flag
    PROVE  misread
  BY DEF StoreInv, ProvisioningOpen

\* A stored PIN stays what it is through a step that does not start from a misread flash.
PinKept == nvs.flag /\ ~misread => nvs'.flag /\ nvs'.salt = nvs.salt /\ nvs'.verifier = nvs.verifier

\* Every step keeps the store whole, and a stored PIN that is known of.
LEMMA StoreStep ==
    ASSUME TypeOK, StoreInv, [Next]_vars
    PROVE  StoreInv' /\ PinKept
  <1>0. AuthTypeOK /\ nvs \in Stores /\ (nvs.flag => Complete(nvs))
    BY DEF TypeOK, AuthTypeOK, StoreInv
  <1>1. CASE /\ UNCHANGED <<nvs, provisioned, salt, verifier, misread>>
             /\ phase' = "off" <=> phase = "off"
    BY <1>1 DEF StoreInv, Complete, PinKept
  <1>2. ASSUME NEW pin \in Pins, NEW s \in Salts, ProvisionPin(pin, s)
        PROVE  StoreInv' /\ PinKept
    <2>1. PinKept
      BY <1>2, OpenMeansUnread DEF ProvisionPin, PublicCommand, AtPrompt, PinKept
    <2>2. PICK n \in {3, 4} : nvs' = Written(pin, s, n)
      BY <1>2 DEF ProvisionPin
    <2>3. n \in 0 .. 4 /\ n >= 3
      OBVIOUS
    <2>4. /\ nvs'.flag /\ Complete(nvs') /\ nvs'.salt = s /\ nvs'.verifier = pbkdf2(pin, s)
      BY <1>0, <2>2, <2>3, WrittenStore
    <2>5. provisioned' = TRUE /\ salt' = s /\ verifier' = pbkdf2(pin, s)
      BY <1>2 DEF ProvisionPin
    <2> QED
      BY <2>1, <2>4, <2>5 DEF StoreInv, Complete
  <1>3. ASSUME NEW pin \in Pins, NEW s \in Salts, ProvisionFails(pin, s)
        PROVE  StoreInv' /\ PinKept
    <2>1. PinKept
      BY <1>3, OpenMeansUnread DEF ProvisionFails, PublicCommand, AtPrompt, PinKept
    <2>2. PICK n \in 0 .. 2 : nvs' = Written(pin, s, n)
      BY <1>3 DEF ProvisionFails
    <2>3. n \in 0 .. 4 /\ n < 3
      OBVIOUS
    <2>4. (nvs'.flag => Complete(nvs')) /\ (~nvs.flag => ~nvs'.flag)
      BY <1>0, <2>2, <2>3, WrittenStore
    <2>5. ~provisioned /\ ~provisioned' /\ misread' = misread /\ phase = "drain"
      BY <1>3 DEF ProvisionFails, ProvisioningOpen, PublicCommand, AtPrompt
    <2>6. nvs.flag => misread
      BY <1>3, <2>5, OpenMeansUnread DEF ProvisionFails
    <2> QED
      BY <2>1, <2>4, <2>5, <2>6 DEF StoreInv, Complete
  <1>4. ASSUME NEW pin \in Pins, NEW s \in Salts, ProvisionInterrupted(pin, s)
        PROVE  StoreInv' /\ PinKept
    <2>1. PinKept
      BY <1>4, OpenMeansUnread DEF ProvisionInterrupted, PinKept
    <2>2. PICK n \in 1 .. 4 : Restart(Written(pin, s, n))
      BY <1>4 DEF ProvisionInterrupted
    <2>3. n \in 0 .. 4 /\ n \in Nat
      OBVIOUS
    <2>4. Written(pin, s, n) \in Stores
      BY <1>0, <2>3, WrittenTypes
    <2>5. Written(pin, s, n).flag => Complete(Written(pin, s, n))
      BY <1>0, <2>3, WrittenStore
    <2> QED
      BY <2>1, <2>2, <2>4, <2>5, BootStore
  <1>5. ASSUME NEW f, CounterBecomes(f), UNCHANGED <<phase, provisioned, salt, verifier, misread>>
        PROVE  StoreInv' /\ PinKept
    <2>1. nvs'.flag = nvs.flag /\ nvs'.salt = nvs.salt /\ nvs'.verifier = nvs.verifier
      BY <1>5, CounterOnly
    <2> QED
      BY <1>5, <2>1 DEF StoreInv, Complete, PinKept
  <1>6. CASE PowerCycle
    <2>1. Restart(nvs)
      BY <1>6 DEF PowerCycle
    <2> QED
      BY <1>0, <2>1, BootStore DEF PinKept
  <1>7. CASE Tick \/ Check \/ Drained \/ begin_challenge \/ AuthenticatedCommand \/ Lock
             \/ UNCHANGED vars
    <2>1. UNCHANGED <<nvs, provisioned, salt, verifier, misread>>
      BY <1>7 DEF Tick, Check, Drained, begin_challenge, AuthenticatedCommand, Lock,
                  vars, authVars, storeVars
    <2>2. phase' = "off" <=> phase = "off"
      BY <1>7, KeepsRunning DEF Tick, Check, Drained, begin_challenge, AuthenticatedCommand,
                                Lock, Prompted, vars
    <2> QED
      BY <1>1, <2>1, <2>2
  <1>8. CASE \E answer \in Verifiers \cup {NoAnswer} : UnlockWrong(answer)
    BY <1>5, <1>8 DEF UnlockWrong, PublicCommand, AtPrompt, record_failure
  <1>9. CASE \E answer \in Verifiers : UnlockRight(answer)
    BY <1>5, <1>9 DEF UnlockRight, SessionOpens, AtPrompt
  <1> QED
    BY <1>2, <1>3, <1>4, <1>6, <1>7, <1>8, <1>9 DEF Next

\* An empty store is whole.
LEMMA StoreStart == Init => StoreInv
  <1> SUFFICES ASSUME Init PROVE StoreInv
    OBVIOUS
  <1>1. nvs.flag = FALSE /\ provisioned = FALSE
    BY DEF Init
  <1> QED
    BY <1>1 DEF StoreInv

\* A PIN is never replaced, on storage that may fail in its writes and in its reads, unless
\* the boot before it did not find the PIN that was stored; from there on the new one stays.
THEOREM StoredPinStays == Spec => PinNeverReplaced
  <1>1. TypeOK /\ StoreInv /\ [Next]_vars
        => [nvs.flag /\ ~misread
                => nvs'.flag /\ nvs'.salt = nvs.salt /\ nvs'.verifier = nvs.verifier]_vars
    BY StoreStep DEF PinKept
  <1> QED
    BY <1>1, StoreStart, StoreStep, TypeCorrect, PTL DEF Spec, PinNeverReplaced

\* Where no read fails, nothing is ever misread, and then the verifier in the flash is made
\* under the salt beside it: salt and verifier are written only while the flag is not there.
AtomicInv ==
    /\ ~misread
    /\ nvs.flag => nvs.verifier \in Pins \X {nvs.salt}

\* A restart reads the flash as it is.
LEMMA RestartReads ==
    ASSUME ~ReadsFail, NEW image \in Stores, Restart(image),
           image.flag => image.verifier \in Pins \X {image.salt}
    PROVE  AtomicInv'
  <1>1. ~misread' /\ nvs' = image
    BY BootReads DEF Restart, BootFails
  <1> QED
    BY <1>1 DEF AtomicInv

\* Every step keeps verifier and salt together.
LEMMA AtomicStep ==
    ASSUME ~ReadsFail, TypeOK, StoreInv, AtomicInv, [Next]_vars
    PROVE  AtomicInv'
  <1>0. AuthTypeOK /\ nvs \in Stores /\ (nvs.flag => Complete(nvs))
        /\ (nvs.flag => nvs.verifier \in Pins \X {nvs.salt})
    BY DEF TypeOK, AuthTypeOK, StoreInv, AtomicInv
  <1>1. ASSUME ProvisioningOpen, phase = "drain", NEW pin \in Pins, NEW s \in Salts,
               NEW n \in 0 .. 4
        PROVE  /\ Written(pin, s, n) \in Stores
               /\ Written(pin, s, n).flag =>
                      Written(pin, s, n).verifier \in Pins \X {Written(pin, s, n).salt}
    <2>1. ~nvs.flag
      BY <1>1, OpenMeansUnread DEF AtomicInv
    <2>2. pbkdf2(pin, s) \in Pins \X {s}
      BY DEF pbkdf2
    <2>3. n \in Nat
      OBVIOUS
    <2>4. n < 3 \/ n >= 3
      OBVIOUS
    <2>5. Written(pin, s, n).flag => /\ Written(pin, s, n).salt = s
                                     /\ Written(pin, s, n).verifier = pbkdf2(pin, s)
      BY <1>0, <2>1, <2>4, WrittenStore
    <2>6. Written(pin, s, n) \in Stores
      BY <1>0, <2>3, WrittenTypes
    <2> QED
      BY <2>2, <2>5, <2>6
  <1>2. ASSUME NEW pin \in Pins, NEW s \in Salts, ProvisionPin(pin, s) \/ ProvisionFails(pin, s)
        PROVE  AtomicInv'
    <2>1. ProvisioningOpen /\ phase = "drain" /\ ~misread'
      BY <1>2 DEF ProvisionPin, ProvisionFails, PublicCommand, AtPrompt, AtomicInv
    <2>2. PICK n \in 0 .. 4 : nvs' = Written(pin, s, n)
      BY <1>2 DEF ProvisionPin, ProvisionFails
    <2> QED
      BY <1>1, <2>1, <2>2 DEF AtomicInv
  <1>3. ASSUME NEW pin \in Pins, NEW s \in Salts, ProvisionInterrupted(pin, s)
        PROVE  AtomicInv'
    <2>1. PICK n \in 0 .. 4 : Restart(Written(pin, s, n))
      BY <1>3 DEF ProvisionInterrupted
    <2> QED
      BY <1>1, <1>3, <2>1, RestartReads DEF ProvisionInterrupted
  <1>4. CASE PowerCycle
    BY <1>0, <1>4, RestartReads DEF PowerCycle
  <1>5. ASSUME NEW f, CounterBecomes(f), misread' = misread
        PROVE  AtomicInv'
    BY <1>5, CounterOnly DEF AtomicInv
  <1>6. CASE UNCHANGED <<nvs, misread>>
    BY <1>6 DEF AtomicInv
  <1>7. CASE Tick \/ Check \/ Drained \/ begin_challenge \/ AuthenticatedCommand \/ Lock
             \/ UNCHANGED vars
    <2>1. UNCHANGED <<nvs, misread>>
      BY <1>7 DEF Tick, Check, Drained, begin_challenge, AuthenticatedCommand, Lock,
                  vars, authVars, storeVars
    <2> QED
      BY <1>6, <2>1
  <1>8. CASE \E answer \in Verifiers \cup {NoAnswer} : UnlockWrong(answer)
    BY <1>5, <1>8 DEF UnlockWrong, record_failure
  <1>9. CASE \E answer \in Verifiers : UnlockRight(answer)
    BY <1>5, <1>9 DEF UnlockRight
  <1> QED
    BY <1>2, <1>3, <1>4, <1>7, <1>8, <1>9 DEF Next

\* Nothing is stored at first.
LEMMA AtomicStart == Init => AtomicInv
  <1> SUFFICES ASSUME Init PROVE AtomicInv
    OBVIOUS
  <1>1. nvs.flag = FALSE /\ misread = FALSE
    BY DEF Init
  <1> QED
    BY <1>1 DEF AtomicInv

\* However the writes of provisioning fail or are interrupted, what counts as provisioned
\* has a verifier made under the stored salt.
THEOREM ProvisioningIsAtomic ==
    ASSUME ~ReadsFail
    PROVE  Spec => []ProvisioningAtomic
  <1>1. TypeOK /\ StoreInv /\ AtomicInv /\ [Next]_vars => AtomicInv'
    BY AtomicStep
  <1>2. TypeOK /\ StoreInv /\ [Next]_vars => StoreInv'
    BY StoreStep
  <1>3. StoreInv /\ AtomicInv => ProvisioningAtomic
    BY DEF StoreInv, AtomicInv, ProvisioningAtomic
  <1> QED
    BY <1>1, <1>2, <1>3, StoreStart, AtomicStart, TypeCorrect, PTL DEF Spec

-----------------------------------------------------------------------------
(* The back-off *)

\* The clock's arithmetic on a deadline d ahead: one tick later it is d - 1
\* ahead, and a deadline less than half a turn ahead is not reached.
LEMMA DeadlineAhead ==
    ASSUME NEW now \in Instant, NEW dl \in Instant, Since(dl, now) >= 1
    PROVE  /\ Since(dl, Later(now, 1)) = Since(dl, now) - 1
           /\ 2 * Since(dl, now) < ClockMod => ~deadline_reached(now, dl)
  BY ClockAssumption DEF Instant, Since, Later, deadline_reached

\* A deadline set now is the delay away.
LEMMA DeadlineSet ==
    ASSUME NEW now \in Instant, NEW d \in 1 .. MaxBackoff
    PROVE  Since(Later(now, d), now) = d
  BY ClockAssumption, AuthAssumption DEF Instant, Since, Later

\* BackoffInv alone breaks where provisioning resets the counter: a back-off
\* that runs means that the store is provisioned, and then, read as it is, not reset.
BackoffIInv == BackoffInv /\ (cooldown > 0 => nvs.flag)

\* A boot sets the deadline of a back-off again from what it reads.
LEMMA BootBackoff ==
    ASSUME ~ReadsFail, TypeOK, BackoffIInv, NEW image \in Stores, Restart(image),
           cooldown > 0 => image.failures = nvs.failures /\ image.flag
    PROVE  BackoffIInv' /\ cooldown' = cooldown
  <1>1. /\ cooldown' = cooldown /\ nvs' = image /\ clock' = 0
        /\ challenge_active' = FALSE
        /\ phase' # "off" => retry_after' = RetryAfterBoot(image.failures)
    BY DEF Restart, Boot, BootFails, SessionBoot, SessionOff, CountRead
  <1>2. ASSUME cooldown > 0, phase' # "off"
        PROVE  /\ cooldown <= Since(retry_after', clock')
               /\ Since(retry_after', clock') <= MaxBackoff
               /\ image.failures # 0 /\ cooldown <= Delay(image.failures)
    <2>1. image.failures # 0 /\ image.failures \in Nat /\ cooldown <= Delay(image.failures)
      BY <1>2, AuthAssumption DEF BackoffIInv, BackoffInv, Stores
    <2>2. Delay(image.failures) \in 1 .. MaxBackoff
      BY <2>1, DelayRange
    <2>3. retry_after' = Delay(image.failures)
      BY <1>1, <1>2, <2>1 DEF RetryAfterBoot
    <2>4. Since(Delay(image.failures), 0) = Delay(image.failures)
      BY <2>2 DEF Since
    <2> QED
      BY <1>1, <2>1, <2>2, <2>3, <2>4, AuthAssumption DEF TypeOK
  <1>3. cooldown > 0 => image.failures # 0 /\ cooldown <= Delay(image.failures)
    BY DEF BackoffIInv, BackoffInv
  <1>4. cooldown' > 0 => nvs'.failures # 0 /\ cooldown' <= Delay(nvs'.failures) /\ nvs'.flag
    BY <1>1, <1>3
  <1>5. ~challenge_active'
    BY <1>1
  <1>6. cooldown' > 0 /\ phase' # "off"
        => /\ cooldown' <= Since(retry_after', clock')
           /\ Since(retry_after', clock') <= MaxBackoff
    BY <1>1, <1>2
  <1> QED
    BY <1>1, <1>4, <1>5, <1>6 DEF BackoffIInv, BackoffInv

\* Every step keeps the back-off, and none lengthens one that runs.
LEMMA BackoffStep ==
    ASSUME ~CounterWritesFail, ~ReadsFail, TypeOK, StoreInv, AtomicInv, BackoffIInv, [Next]_vars
    PROVE  BackoffIInv' /\ (cooldown' > cooldown => cooldown = 0)
  <1> DEFINE Goal == BackoffIInv' /\ (cooldown' > cooldown => cooldown = 0)
  <1>0. /\ cooldown \in 0 .. MaxBackoff /\ MaxBackoff \in Nat \ {0}
        /\ ClockMod \in Nat /\ 2 * MaxBackoff < ClockMod
        /\ retry_after \in Instant /\ clock \in Instant
        /\ Since(retry_after, clock) \in Nat
        /\ nvs \in Stores /\ AuthTypeOK /\ ~misread
    BY ClockAssumption, AuthAssumption
       DEF AtomicInv, TypeOK, SessionTypeOK, AuthTypeOK, Instant, Since
  <1>1. CASE /\ UNCHANGED <<clock, nvs, provisioned, challenge_active, retry_after, cooldown>>
             /\ phase' = "off" <=> phase = "off"
    BY <1>0, <1>1 DEF BackoffIInv, BackoffInv
  <1>2. CASE Tick
    <2>1. /\ clock' = Later(clock, 1)
          /\ cooldown' = IF cooldown > 0 THEN cooldown - 1 ELSE 0
          /\ UNCHANGED <<phase, nvs, provisioned, challenge_active, retry_after>>
      BY <1>2 DEF Tick, storeVars, SessionTick
    <2>2. CASE cooldown = 0
      BY <2>1, <2>2 DEF BackoffIInv, BackoffInv
    <2>3. CASE cooldown > 0
      <3>1. /\ phase # "off" => /\ cooldown <= Since(retry_after, clock)
                                /\ Since(retry_after, clock) <= MaxBackoff
            /\ nvs.failures # 0 /\ cooldown <= Delay(nvs.failures)
            /\ ~challenge_active /\ nvs.flag
        BY <1>0, <2>3 DEF BackoffIInv, BackoffInv
      <3>2. phase # "off" => Since(retry_after, Later(clock, 1)) = Since(retry_after, clock) - 1
        BY <1>0, <2>3, <3>1, DeadlineAhead
      <3>3. nvs.failures \in Nat /\ Delay(nvs.failures) \in Nat
        BY <1>0, DelayRange, AuthAssumption DEF Stores
      <3>4. cooldown' = cooldown - 1
        BY <2>1, <2>3
      <3>5. /\ phase' # "off" => /\ cooldown' <= Since(retry_after', clock')
                                 /\ Since(retry_after', clock') <= MaxBackoff
            /\ cooldown' <= Delay(nvs.failures)
            /\ ~(cooldown' > cooldown)
        BY <1>0, <2>1, <3>1, <3>2, <3>3, <3>4
      <3> QED
        BY <2>1, <3>1, <3>5 DEF BackoffIInv, BackoffInv
    <2> QED
      BY <1>0, <2>2, <2>3
  <1>3. CASE Check \/ Lock
    <2>1. /\ UNCHANGED <<clock, nvs, provisioned, retry_after, cooldown>>
          /\ challenge_active' => challenge_active
      BY <1>3 DEF Check, SessionCheck, Lock, SessionLocks, AtPrompt, ChallengeDropped, storeVars
    <2>2. phase' = "off" <=> phase = "off"
      BY <1>3, KeepsRunning DEF Check, Lock, Prompted
    <2> QED
      BY <1>0, <2>1, <2>2 DEF BackoffIInv, BackoffInv
  <1>4. CASE Drained \/ AuthenticatedCommand \/ UNCHANGED vars
    <2>1. UNCHANGED <<clock, nvs, provisioned, challenge_active, retry_after, cooldown>>
      BY <1>4 DEF Drained, SessionDrained, AuthenticatedCommand, require_authentication,
                  AtPrompt, vars, authVars, storeVars, sessionVars
    <2>2. phase' = "off" <=> phase = "off"
      BY <1>4, KeepsRunning DEF Drained, AuthenticatedCommand, Prompted, vars
    <2> QED
      BY <1>1, <2>1, <2>2
  <1>5. ASSUME NEW pin \in Pins, NEW s \in Salts,
               ProvisionPin(pin, s) \/ ProvisionFails(pin, s)
        PROVE  Goal
    <2>1. /\ ~provisioned /\ phase = "drain" /\ UNCHANGED <<challenge_active, cooldown>>
      BY <1>5 DEF ProvisionPin, ProvisionFails, ProvisioningOpen, PublicCommand, AtPrompt
    <2>2. cooldown = 0 /\ ~challenge_active
      BY <1>0, <2>1 DEF BackoffIInv, BackoffInv, StoreInv
    <2> QED
      BY <2>1, <2>2 DEF BackoffIInv, BackoffInv
  <1>6. ASSUME NEW pin \in Pins, NEW s \in Salts, ProvisionInterrupted(pin, s)
        PROVE  Goal
    <2>1. /\ ~provisioned /\ phase = "drain"
          /\ cooldown' = cooldown /\ challenge_active' = FALSE
      BY <1>6 DEF ProvisionInterrupted, ProvisioningOpen, Restart, Boot, BootFails
    <2>2. cooldown = 0
      BY <1>0, <2>1 DEF BackoffIInv, StoreInv
    <2> QED
      BY <2>1, <2>2 DEF BackoffIInv, BackoffInv
  <1>7. CASE begin_challenge
    <2>1. /\ provisioned /\ deadline_reached(clock, retry_after) /\ phase = "drain"
          /\ UNCHANGED <<clock, nvs, provisioned, retry_after, cooldown>>
      BY <1>7 DEF begin_challenge, ChallengeDue, PublicCommand, AtPrompt, storeVars
    <2>2. cooldown = 0
      <3>1. SUFFICES ASSUME cooldown > 0 PROVE FALSE
        BY <1>0
      <3>2. Since(retry_after, clock) >= 1 /\ 2 * Since(retry_after, clock) < ClockMod
        BY <1>0, <2>1, <3>1 DEF BackoffIInv, BackoffInv
      <3> QED
        BY <1>0, <2>1, <3>2, DeadlineAhead
    <2> QED
      BY <2>1, <2>2 DEF BackoffIInv, BackoffInv
  <1>8. ASSUME NEW answer \in Verifiers \cup {NoAnswer}, UnlockWrong(answer)
        PROVE  Goal
    <2>1. /\ challenge_active /\ challenge_active' = FALSE /\ UNCHANGED <<clock, provisioned>>
          /\ record_failure
      BY <1>8 DEF UnlockWrong, PublicCommand, AtPrompt
    <2>2. provisioned /\ nvs.flag /\ cooldown = 0
      BY <2>1 DEF BackoffIInv, BackoffInv, StoreInv
    <2> DEFINE next == OneMore(nvs.failures)
    <2>3. next \in 1 .. MaxFailures /\ next \in Nat
      <3>1. nvs.failures \in CountRead(nvs.failures)
        BY DEF CountRead
      <3>2. OneMore(nvs.failures) \in 1 .. MaxFailures
        BY <1>0, <3>1, CountTypes
      <3> QED
        BY <3>2, AuthAssumption
    <2>4. /\ CounterBecomes(next)
          /\ retry_after' = Later(clock, Delay(next))
          /\ cooldown' = Delay(next)
      BY <2>1 DEF record_failure, CountRead
    <2> HIDE DEF next
    <2>5. nvs'.failures = next /\ nvs'.flag = nvs.flag
      BY <1>0, <2>4 DEF CounterBecomes, Stores
    <2>6. Delay(next) \in 1 .. MaxBackoff
      BY <2>3, DelayRange
    <2>7. Since(retry_after', clock') = Delay(next)
      BY <1>0, <2>1, <2>4, <2>6, DeadlineSet
    <2>8. /\ cooldown' <= Since(retry_after', clock')
          /\ Since(retry_after', clock') <= MaxBackoff
          /\ nvs'.failures # 0 /\ cooldown' <= Delay(nvs'.failures)
      BY <1>0, <2>3, <2>4, <2>5, <2>6, <2>7
    <2> QED
      BY <2>1, <2>2, <2>5, <2>8 DEF BackoffIInv, BackoffInv
  <1>9. ASSUME NEW answer \in Verifiers, UnlockRight(answer)
        PROVE  Goal
    <2>1. challenge_active' = FALSE /\ cooldown' = 0
      BY <1>9 DEF UnlockRight
    <2> QED
      BY <1>0, <2>1 DEF BackoffIInv, BackoffInv
  <1>10. CASE PowerCycle
    <2>1. Restart(nvs)
      BY <1>10 DEF PowerCycle
    <2>2. cooldown > 0 => nvs.flag
      BY DEF BackoffIInv
    <2> QED
      BY <1>0, <2>1, <2>2, BootBackoff
  <1> QED
    BY <1>2, <1>3, <1>4, <1>5, <1>6, <1>7, <1>8, <1>9, <1>10 DEF Next

\* No back-off runs at first.
LEMMA BackoffStart == Init => BackoffIInv
  <1> SUFFICES ASSUME Init PROVE BackoffIInv
    OBVIOUS
  <1>1. cooldown = 0 /\ challenge_active = FALSE
    BY DEF Init
  <1> QED
    BY <1>1 DEF BackoffIInv, BackoffInv

\* Where the counter's writes reach the flash and its reads succeed, wrong answers are
\* spaced by the back-off in true time, across wraps of the clock and across power cycles.
THEOREM BackoffsAreSpaced ==
    ASSUME ~CounterWritesFail, ~ReadsFail
    PROVE  Spec => []BackoffInv /\ BackoffsNeverOverlap
  <1>1. TypeOK /\ StoreInv /\ AtomicInv /\ BackoffIInv /\ [Next]_vars
        => BackoffIInv' /\ [cooldown' > cooldown => cooldown = 0]_vars
    BY BackoffStep
  <1>2. TypeOK /\ StoreInv /\ [Next]_vars => StoreInv'
    BY StoreStep
  <1>3. TypeOK /\ StoreInv /\ AtomicInv /\ [Next]_vars => AtomicInv'
    BY AtomicStep
  <1>4. BackoffIInv => BackoffInv
    BY DEF BackoffIInv
  <1> QED
    BY <1>1, <1>2, <1>3, <1>4, StoreStart, AtomicStart, BackoffStart, TypeCorrect, PTL
       DEF Spec, BackoffsNeverOverlap
=============================================================================
