------------------------- MODULE MCFailureDetector -------------------------
(***************************************************************************)
(* Small instances of FailureDetector for TLC.                             *)
(***************************************************************************)
EXTENDS FailureDetector

CONSTANTS v1, v2, l1

TwoVoters == {v1, v2}
OneLearner == {l1}
OneLeaver == {v1}
=============================================================================
