------------------------------ MODULE MCIngestion ------------------------------
(***************************************************************************)
(* Small instances of Ingestion: one provider that needs a key, preferred  *)
(* to the local encoder.                                                   *)
(***************************************************************************)
EXTENDS Ingestion

CONSTANTS d1, f1, t1, t2, hosted, local

MCRank == [p \in Providers |-> IF p = local THEN 1 ELSE 0]

=============================================================================
