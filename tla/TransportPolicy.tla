-------------------------- MODULE TransportPolicy ---------------------------
(***************************************************************************)
(* Which operations each transport may carry, given what is known of the   *)
(* session: wallet_transport_allows.                                       *)
(***************************************************************************)
CONSTANTS
    AllowHostOnlyConfirmation,   \* HEXWALLET_ALLOW_HOST_ONLY_CONFIRMATION
    EnableSecretExport           \* HEXWALLET_ENABLE_SECRET_EXPORT

ASSUME BuildFlags ==
    AllowHostOnlyConfirmation \in BOOLEAN /\ EnableSecretExport \in BOOLEAN

Transports == {"Wifi", "BluetoothLowEnergy", "SerialUsb"}
Lookups == {"PublicPrice", "PublicBlockHeight"}
Signing == {"SigningRequest", "ApprovalResponse"}
Operations == Lookups \cup Signing \cup {"PublicCatalog", "SecretExport"}
TransportStates == [authenticated: BOOLEAN, paired: BOOLEAN, trusted_display: BOOLEAN]

wallet_transport_allows(transport, operation, state) ==
    \/ operation \in Lookups
    \/ operation = "PublicCatalog" /\ transport # "Wifi"
    \/ /\ operation \in Signing
       /\ transport = "BluetoothLowEnergy"
       /\ state.authenticated /\ state.paired /\ state.trusted_display
    \/ /\ operation \in Signing
       /\ transport = "SerialUsb"
       /\ state.authenticated
       /\ state.trusted_display \/ AllowHostOnlyConfirmation
    \/ /\ operation = "SecretExport"
       /\ transport = "SerialUsb"
       /\ state.authenticated /\ EnableSecretExport
=============================================================================
