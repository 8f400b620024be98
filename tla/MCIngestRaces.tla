--------------------------- MODULE MCIngestRaces ---------------------------
(* Instances of IngestRaces for TLC.                                        *)
EXTENDS IngestRaces, MCIngestStore
=============================================================================
