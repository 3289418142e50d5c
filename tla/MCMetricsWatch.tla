--------------------------- MODULE MCMetricsWatch ---------------------------
(***************************************************************************)
(* Small instances of MetricsWatch for TLC.                                *)
(***************************************************************************)
EXTENDS MetricsWatch

CONSTANTS m1, m2, r1

MCMemberships == {m1, m2}
MCReaders == {r1}
=============================================================================
