---------------------------- MODULE MCCollector ----------------------------
(* Instances of Collector for TLC.                                          *)
EXTENDS Collector, TLC

CONSTANTS d1, m1, m2

\* All messages come from one device.
OneDevice == [m \in Msg |-> d1]
=============================================================================
