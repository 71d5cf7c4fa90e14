---------------------------- MODULE MCCliAuthDoc ----------------------------
(***************************************************************************)
(* What the guides say of authentication and timeout, put to CliAuth.      *)
(***************************************************************************)
EXTENDS MCCliAuth

VARIABLE waited   \* history: true time since the last boot or wrong answer,
                  \* counted up to MaxBackoff

docVars == <<vars, waited>>

BackoffRestarts ==
    \/ PowerCycle
    \/ \E pin \in Pins, s \in Salts : ProvisionInterrupted(pin, s)
    \/ \E answer \in Verifiers \cup {NoAnswer} : UnlockWrong(answer)

DocInit == Init /\ waited = 0
DocNext ==
    \/ Tick /\ waited' = IF waited < MaxBackoff THEN waited + 1 ELSE waited
    \/ BackoffRestarts /\ waited' = 0
    \/ Next /\ ~Tick /\ ~BackoffRestarts /\ UNCHANGED waited
DocSpec == DocInit /\ [][DocNext]_docVars

\* README-zh.md:391: the longest back-off is about ten minutes.  Once that time
\* has passed since the boot and since the last wrong answer, begin_challenge
\* issues a challenge.
NoLongerThanBackoff == provisioned /\ waited = MaxBackoff => ChallengeDue

\* README-zh.md:591 and 599: after the session timeout one has to authenticate
\* again; no authenticated command is carried out on the old session.
TimeoutStopsCommands == [][require_authentication => idle < SessionTimeout]_vars

\* README-zh.md:223: a device on which authentication is not configured, and on which
\* `auth provision` has to be run, is one whose NVS holds no valid PIN verifier.
UnprovisionedHasNoPin == phase = "drain" /\ ProvisioningOpen => ~Complete(nvs)
=============================================================================
