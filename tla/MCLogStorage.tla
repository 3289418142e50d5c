---------------------------- MODULE MCLogStorage ----------------------------
(***************************************************************************)
(* Small instances of LogStorage for TLC.                                  *)
(***************************************************************************)
EXTENDS LogStorage

MCTerms == 1..2
=============================================================================
