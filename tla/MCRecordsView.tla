--------------------------- MODULE MCRecordsView ---------------------------
(* Instances of RecordsView for TLC.                                        *)
EXTENDS RecordsView

CONSTANTS p, q, t

Payloads == {{p, q, t}}

\* One parameter is left to be enabled.
Whitelists == {{p, t}}
=============================================================================
