--------------------------- MODULE MCIngestStore ---------------------------
(* Instances of IngestStore for TLC.                                        *)
EXTENDS IngestStore, TLC

CONSTANTS d1, m1, m2, w1, w2, a1, a2

OneMessage  == m1 :> d1
OneDevice   == m1 :> d1 @@ m2 :> d1

\* Sessions are interchangeable, and so are messages of one device.
Sessions          == Permutations(Worker) \cup Permutations(Admin)
SessionsAndMsgs   == Sessions \cup Permutations(Msg)
=============================================================================
