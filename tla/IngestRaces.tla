---------------------------- MODULE IngestRaces ----------------------------
(***************************************************************************)
(* IngestStore with clear_device_telemetry in use.  A delivery that commits *)
(* between the clear's DELETE of the records and its DELETE of the receipts *)
(* (app/api.py:272-274) keeps its record and loses its receipt, so a later  *)
(* delivery of the same message is stored a second time: the run            *)
(* ingest_clear_race shows it.  Here a history variable remembers which     *)
(* messages this ever happened to, and the properties say that it is the    *)
(* only damage: every other message is stored once and deleted whole.       *)
(***************************************************************************)
EXTENDS IngestStore

VARIABLE raced  \* messages that were committed in the middle of a clear

\* Messages the step commits while a clear of their device is between the starts of
\* its DELETE of the records and of its DELETE of the receipts: the first, however
\* long it waits, does not see them, and the second does.
Gapped ==
    {m \in receipts' \ receipts :
        \E a \in Admin : apc[a] = "records" /\ aop[a] = "clear" /\ adev[a] = DeviceOf[m]}

raceVars == <<vars, raced>>
RaceInit == Init /\ raced = {}
RaceNext == Next /\ raced' = raced \cup Gapped
RaceSpec == RaceInit /\ [][RaceNext]_raceVars

-----------------------------------------------------------------------------
\* "One registry entry per accepted device transmission" (models.py:52), with
\* any number of clears: two records of one message mean that a delivery of it
\* once committed between two statements of a clear.
OneRecordUnlessRaced == \A r, s \in records : r.msg = s.msg => r = s \/ r.msg \in raced

\* A record without a receipt is the remainder of such a race.
CoveredUnlessRaced == \A r \in records : r.msg \in receipts \cup raced

\* A clear misses no record but those of raced messages ...
Clears(a) == aop[a] = "clear"
NoneMissed ==
    \A a \in Admin : Clears(a) =>
        /\ apc[a] = "records" =>
              \A r \in RecordsOf(adev[a]) :
                  r \in todo[a].records \cup gone[a].records \/ r.msg \in raced
        /\ apc[a] = "receipts" =>
              \A r \in records : r.msg \in todo[a].receipts \cup gone[a].receipts =>
                  r \in gone[a].records \/ r.msg \in raced

\* ... and no delete takes a record whose receipt it leaves.
NoneLeft ==
    \A a \in Admin : apc[a] \in {"receipts", "devices"} =>
        \A r \in gone[a].records : r.msg \in todo[a].receipts \cup gone[a].receipts \cup raced

RaceInv ==
    /\ StoreInv /\ OneRecordUnlessRaced /\ CoveredUnlessRaced
    /\ NoneMissed /\ NoneLeft

\* The store without the messages that were ever raced.
Clearing == INSTANCE TelemetryRegistry WITH
    seen <- receipts \ raced,
    kept <- [m \in Msg |-> IF m \in raced THEN {} ELSE {x.param : x \in StoredOf(m)}]

\* "Acceptance is transactional and idempotent" (mqtt-contract.md:45-57), for every
\* message no clear has raced with, and for ever: it is accepted once, with all
\* that was approved, and deleted as a whole.
ImplementsUnlessRaced == Clearing!ClearingSpec
=============================================================================
