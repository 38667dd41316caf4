------------------------------ MODULE MCRecords ------------------------------
(* Two services whose records outlive a call, and which share no state: the   *)
(* finalization of operations, with two plan versions (the newer build        *)
(* registers a recovery runner for the older plan too, the older build does   *)
(* not know the newer plan), and the custody of the card.  A behaviour is     *)
(* about one of them.                                                         *)
EXTENDS Finalization, CardCustody

CONSTANTS v1, v2

MCLength == [v \in Versions |-> IF v = v1 THEN 1 ELSE 2]
MCRecoverable == [v \in Versions |-> Versions \cap (IF v = v1 THEN {v1} ELSE {v1, v2})]

VARIABLE part

recordVars == <<part, vars, custodyVars>>

RecordsInit ==
  /\ part \in {"finalization", "card"} /\ Init /\ CardInit
  /\ part = "card" => installed = v1
  /\ part = "finalization" => request = CHOOSE r \in Requests : ~r.given

RecordsNext ==
  /\ UNCHANGED part
  /\ \/ part = "finalization" /\ Next /\ UNCHANGED custodyVars
     \/ part = "card" /\ CardNext /\ UNCHANGED vars

\* Of the card only safety is checked: the behaviours about it are not fair to
\* the startup that they leave alone.
RecordsSpec == RecordsInit /\ [][RecordsNext]_recordVars /\ Fairness
=============================================================================
