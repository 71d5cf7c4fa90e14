-------------------------- MODULE CliSessionProof ---------------------------
(***************************************************************************)
(* Proofs about the session steps that CliAuth and CliReview share, for    *)
(* every clock width, timeout and lag that meets the assumptions.          *)
(***************************************************************************)
EXTENDS CliSession, TLAPS

\* An instant plus at most one turn of the clock is an instant.
LEMMA LaterIsInstant ==
    ASSUME NEW t \in Instant, NEW d \in Nat, d <= ClockMod
    PROVE  Later(t, d) \in Instant
  BY ClockAssumption DEF Instant, Later

\* The clock's own arithmetic follows true time as long as less than one turn
\* has passed: one tick later, the computed difference is one more.
LEMMA SinceAfterTick ==
    ASSUME NEW t \in Instant, NEW then \in Instant, Since(t, then) + 1 < ClockMod
    PROVE  Since(Later(t, 1), then) = Since(t, then) + 1
  BY ClockAssumption DEF Instant, Later, Since

-----------------------------------------------------------------------------
\* One step of the session keeps the session's types.
SessionStep ==
    \/ SessionBoot \/ SessionOff \/ SessionTick \/ SessionCheck \/ SessionDrained
    \/ PublicCommand \/ require_authentication \/ SessionOpens \/ SessionLocks

\* A step of the session keeps its types.
LEMMA SessionTypes ==
    ASSUME SessionTypeOK, SessionStep \/ UNCHANGED sessionVars
    PROVE  SessionTypeOK'
  <1>0. 0 \in Instant /\ 0 \in 0 .. MaxLag /\ 0 \in 0 .. IdleCap
    BY ClockAssumption, SessionAssumption DEF Instant, IdleCap
  <1> USE <1>0 DEF SessionTypeOK
  <1>1. CASE SessionTick
    <2>1. Later(clock, 1) \in Instant
      BY LaterIsInstant, ClockAssumption
    <2>2. lag' \in 0 .. MaxLag /\ idle' \in 0 .. IdleCap
      BY <1>1, SessionAssumption DEF SessionTick, IdleCap
    <2> QED
      BY <1>1, <2>1, <2>2 DEF SessionTick
  <1>2. CASE SessionBoot \/ SessionOff
    BY <1>2 DEF SessionBoot, SessionOff, Closed
  <1>3. CASE SessionCheck
    BY <1>3 DEF SessionCheck, Closed, Kept
  <1>4. CASE SessionDrained
    BY <1>4 DEF SessionDrained, Kept
  <1>5. CASE PublicCommand \/ require_authentication \/ SessionOpens \/ SessionLocks
    BY <1>5 DEF PublicCommand, require_authentication, SessionOpens, SessionLocks,
                AtPrompt, Kept, Refreshed, Closed
  <1>6. CASE UNCHANGED sessionVars
    BY <1>6 DEF sessionVars
  <1> QED
    BY <1>1, <1>2, <1>3, <1>4, <1>5, <1>6 DEF SessionStep

\* Only a restart changes whether the device runs at all, and a command runs
\* only on a device that does.
Prompted == PublicCommand \/ require_authentication \/ SessionOpens \/ SessionLocks

\* Commands and ticks start and stop no device.
LEMMA KeepsRunning ==
    ASSUME SessionTick \/ SessionCheck \/ SessionDrained \/ Prompted \/ UNCHANGED sessionVars
    PROVE  /\ phase' = "off" <=> phase = "off"
           /\ Prompted => phase = "drain"
  BY DEF SessionTick, SessionCheck, SessionDrained, Prompted, PublicCommand,
         require_authentication, SessionOpens, SessionLocks, AtPrompt, sessionVars

\* One step of the session keeps its computed age equal to its true age, and
\* that age bounded.  SessionInv is inductive given the types: the conjunct on
\* lag is what a tick would otherwise break.
LEMMA SessionKept ==
    ASSUME SessionTypeOK, SessionInv, SessionStep \/ UNCHANGED sessionVars
    PROVE  SessionInv'
  <1>0. /\ SessionTimeout \in Nat \ {0} /\ MaxLag \in Nat /\ ClockMod \in Nat
        /\ SessionTimeout + MaxLag < ClockMod
        /\ lag \in 0 .. MaxLag /\ idle \in Nat
        /\ clock \in Instant /\ authenticated_at \in Instant
    BY ClockAssumption, SessionAssumption DEF SessionTypeOK, IdleCap
  <1>1. CASE SessionTick
    <2>1. SUFFICES ASSUME authenticated
                   PROVE  /\ idle' = Since(clock', authenticated_at')
                          /\ idle' < SessionTimeout + lag'
      BY <1>1 DEF SessionInv, SessionTick
    <2>2. idle = Since(clock, authenticated_at) /\ idle < SessionTimeout + lag
      BY <2>1 DEF SessionInv
    <2>3. lag < MaxLag /\ lag' = lag + 1 /\ idle' = idle + 1
          /\ clock' = Later(clock, 1) /\ authenticated_at' = authenticated_at
      BY <1>0, <1>1, <2>1, <2>2 DEF SessionTick, IdleCap
    <2>4. Since(clock, authenticated_at) + 1 < ClockMod
      BY <1>0, <2>2, <2>3
    <2>5. Since(Later(clock, 1), authenticated_at) = idle + 1
      BY <1>0, <2>2, <2>4, SinceAfterTick
    <2> QED
      BY <1>0, <2>2, <2>3, <2>5
  <1>2. CASE SessionCheck /\ ~SessionExpired
    <2>1. SUFFICES ASSUME authenticated
                   PROVE  /\ idle' = Since(clock', authenticated_at')
                          /\ idle' < SessionTimeout + lag'
      BY <1>2 DEF SessionInv, SessionCheck, Kept
    <2>2. Since(clock, authenticated_at) \in Int
      BY <1>0 DEF Since, Instant
    <2>3. Since(clock, authenticated_at) < SessionTimeout
      BY <1>0, <1>2, <2>1, <2>2 DEF SessionExpired
    <2>4. lag' = 0 /\ idle' = idle /\ clock' = clock /\ authenticated_at' = authenticated_at
      BY <1>2 DEF SessionCheck, Kept
    <2> QED
      BY <1>0, <2>1, <2>3, <2>4 DEF SessionInv
  <1>3. CASE SessionBoot \/ SessionOff \/ SessionLocks \/ (SessionCheck /\ SessionExpired)
    BY <1>3 DEF SessionBoot, SessionOff, SessionLocks, SessionCheck, Closed, SessionInv
  <1>4. CASE require_authentication \/ SessionOpens
    <2>1. clock' = clock /\ lag' = lag /\ authenticated_at' = clock /\ idle' = 0
      BY <1>4 DEF require_authentication, SessionOpens, AtPrompt, Refreshed
    <2>2. Since(clock, clock) = 0 /\ 0 < SessionTimeout + lag
      BY <1>0 DEF Since, Instant
    <2> QED
      BY <2>1, <2>2 DEF SessionInv
  <1>5. CASE SessionDrained \/ PublicCommand \/ UNCHANGED sessionVars
    BY <1>5 DEF SessionDrained, PublicCommand, AtPrompt, Kept, sessionVars, SessionInv
  <1> QED
    BY <1>1, <1>2, <1>3, <1>4, <1>5 DEF SessionStep

\* The bound a reader wants is a consequence of the inductive one.
LEMMA SessionBound ==
    ASSUME SessionTypeOK, SessionInv
    PROVE  SessionBounded
  <1>1. /\ SessionTimeout \in Nat /\ MaxLag \in Nat
        /\ lag \in 0 .. MaxLag /\ idle \in Nat
    BY SessionAssumption DEF SessionTypeOK, IdleCap
  <1> QED
    BY <1>1 DEF SessionInv, SessionBounded, IdleCap
=============================================================================
