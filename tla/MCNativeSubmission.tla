------------------------- MODULE MCNativeSubmission -------------------------
(* Two claims of one job, with two payloads that may be told apart.        *)
EXTENDS NativeSubmission, TLC

\* Payloads are only compared.
Symmetry == Permutations(Payload)
=============================================================================
