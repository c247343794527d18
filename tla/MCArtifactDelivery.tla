------------------------- MODULE MCArtifactDelivery -------------------------
(* Model-checking instances of ArtifactDelivery.                           *)
EXTENDS ArtifactDelivery, TLC

\* Each way to store the bundle, taken over by another and taking over.
MCForms ==
  {<<"plain", "streamed">>, <<"streamed", "multipart">>, <<"multipart", "plain">>}

\* Contents differ and that is all there is to them.
Symmetry == Permutations(Content)
=============================================================================
