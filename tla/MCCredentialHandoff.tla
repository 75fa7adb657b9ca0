------------------------ MODULE MCCredentialHandoff -------------------------
(* Values for TLC: overlapping submissions and continuations.              *)
EXTENDS CredentialHandoff

CONSTANTS s1, s2, e1, e2
=============================================================================
