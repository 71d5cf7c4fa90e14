--------------------------- MODULE MCCliReviewDoc ---------------------------
(***************************************************************************)
(* What the guide says of reviews, put to CliReview.                       *)
(***************************************************************************)
EXTENDS MCCliReview

VARIABLE evmFailed   \* history: the last step was an evm command that answered ERR

docVars == <<vars, evmFailed>>

DocInit == Init /\ evmFailed = FALSE
DocNext ==
    \/ (InspectUnreadable \/ InspectRefused \/ SignRefused(Evm)) /\ evmFailed' = TRUE
    \/ Next /\ evmFailed' = FALSE
DocSpec == DocInit /\ [][DocNext]_docVars

\* README-zh.md:581: any failure of the EVM workflow clears the transaction that
\* waits for its signature; a new evm inspect is needed.
EvmFailureClears == evmFailed => pending_transaction_kind # Evm
=============================================================================
