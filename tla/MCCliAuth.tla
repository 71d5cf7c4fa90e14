----------------------------- MODULE MCCliAuth ------------------------------
(***************************************************************************)
(* Bounded instance of CliAuth: a clock short enough to wrap many times in *)
(* one behaviour, back-offs of two to three instants.                      *)
(***************************************************************************)
EXTENDS CliAuth, TLC

CONSTANTS p1, p2, s1, s2

MCPins == {p1, p2}
MCSalts == {s1, s2}

\* PINs and salts are only compared; no property of the safety runs names one.
Symmetry == Permutations(MCPins) \cup Permutations(MCSalts)
=============================================================================
