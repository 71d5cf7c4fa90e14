----------------------------- MODULE CliSession -----------------------------
(***************************************************************************)
(* The service loop of the serial interface and the authenticated session  *)
(* it bounds in time.  loop() calls wallet_cli_service() over and over;    *)
(* each call first checks the deadlines and then drains every complete     *)
(* line the host has sent.  The chip runs one thread, so a command handler *)
(* is one step; time passes between steps.                                 *)
(*                                                                         *)
(* This module holds what the authentication and the signing half of the   *)
(* interface share.  CliAuth and CliReview extend it and conjoin their own *)
(* part to each of the steps below.                                        *)
(***************************************************************************)
EXTENDS CliClock

CONSTANTS
    SessionTimeout,   \* HEXWALLET_CLI_SESSION_TIMEOUT_MS
    MaxLag            \* bound: time from one run of the checks to the next

ASSUME SessionAssumption ==
    /\ SessionTimeout \in Nat \ {0}
    /\ MaxLag \in Nat
    /\ SessionTimeout + MaxLag < ClockMod

VARIABLES
    clock,              \* millis()
    phase,              \* "check": at the top of wallet_cli_service, "drain": in its
                        \* loop, "off": setup() failed and loop() does nothing
    authenticated,      \* the session is open
    authenticated_at,   \* instant of the last authenticated command
    lag,                \* history: time since the checks last ran
    idle                \* history: true time since the last authenticated command,
                        \* counted up to IdleCap

sessionVars == <<clock, phase, authenticated, authenticated_at, lag, idle>>

\* Bound of the history: one more than an idle time may reach.
IdleCap == SessionTimeout + MaxLag

SessionTypeOK ==
    /\ clock \in Instant
    /\ phase \in {"check", "drain", "off"}
    /\ authenticated \in BOOLEAN
    /\ authenticated_at \in Instant
    /\ lag \in 0 .. MaxLag
    /\ idle \in 0 .. IdleCap

-----------------------------------------------------------------------------
Closed == authenticated' = FALSE /\ authenticated_at' = 0 /\ idle' = 0
Kept == UNCHANGED <<authenticated, authenticated_at, idle>>

Refreshed == authenticated' = TRUE /\ authenticated_at' = clock /\ idle' = 0

SessionInit ==
    /\ clock = 0 /\ phase = "check" /\ lag = 0
    /\ authenticated = FALSE /\ authenticated_at = 0 /\ idle = 0

SessionBoot == clock' = 0 /\ phase' = "check" /\ lag' = 0 /\ Closed

\* Mutant: setup() goes on although a step of it has failed.
SessionStaysOn == SessionBoot

\* A self test fails or NVS does not open: security_ready stays false.
SessionOff == clock' = 0 /\ phase' = "off" /\ lag' = 0 /\ Closed

SessionTick ==
    /\ lag < MaxLag
    /\ clock' = Later(clock, 1)
    /\ lag' = lag + 1
    /\ idle' = IF authenticated /\ idle < IdleCap THEN idle + 1 ELSE idle
    /\ UNCHANGED <<phase, authenticated, authenticated_at>>

\* Mutant: the service loop never looks at the age of the session.
SessionNeverExpires == FALSE

\* Mutant: the session outlives the instant of its timeout.
SessionExpiredLate ==
    authenticated /\ Since(clock, authenticated_at) > SessionTimeout

SessionExpired ==
    authenticated /\ Since(clock, authenticated_at) >= SessionTimeout

SessionCheck ==
    /\ phase = "check" /\ phase' = "drain"
    /\ lag' = 0
    /\ clock' = clock
    /\ IF SessionExpired THEN Closed ELSE Kept

\* Serial.available() == 0: the call returns and loop() starts the next one.
SessionDrained ==
    /\ phase = "drain" /\ phase' = "check"
    /\ UNCHANGED <<clock, lag>> /\ Kept

-----------------------------------------------------------------------------
\* A command line is complete and its handler runs.
AtPrompt == phase = "drain" /\ UNCHANGED <<clock, phase, lag>>

\* A command that neither needs nor changes the session.
PublicCommand == AtPrompt /\ Kept

\* Every authenticated handler starts with this, whatever it does next; it
\* looks at the flag and not at the age of the session.
require_authentication == AtPrompt /\ authenticated /\ Refreshed

SessionOpens == AtPrompt /\ Refreshed

SessionLocks == AtPrompt /\ Closed

-----------------------------------------------------------------------------

\* The unsigned difference the code computes is the true idle time, and the
\* last check saw it below the timeout.
SessionInv ==
    authenticated => /\ idle = Since(clock, authenticated_at)
                     /\ idle < SessionTimeout + lag

\* However long the serial input keeps the loop busy and wherever the clock
\* wraps, an open session has been used within the timeout plus one lag.
SessionBounded == authenticated => idle < IdleCap
=============================================================================
