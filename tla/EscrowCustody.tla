---------------------------- MODULE EscrowCustody ----------------------------
(***************************************************************************)
(* What a cash acceptance session promises about the notes of one deposit,  *)
(* without sessions, records, leases and faults.                            *)
(***************************************************************************)
EXTENDS Naturals

VARIABLES notes, place, approved

escrowVars == <<notes, place, approved>>

EscrowInit == notes = 0 /\ place = "nowhere" /\ approved = FALSE

\* Notes come in only before they are approved.
Insert ==
  /\ place \in {"nowhere", "escrow"} /\ ~approved
  /\ notes' = notes + 1 /\ place' = "escrow" /\ UNCHANGED approved

Approve ==
  /\ ~approved /\ approved' = TRUE /\ UNCHANGED <<notes, place>>

\* All notes go to the cash units.
Commit == place = "escrow" /\ approved /\ place' = "cash-unit" /\ UNCHANGED <<notes, approved>>

\* All notes are presented, and taken or retained.
Present == place = "escrow" /\ place' = "presented" /\ UNCHANGED <<notes, approved>>
Take == place = "presented" /\ place' = "customer" /\ UNCHANGED <<notes, approved>>
Retain ==
  place \in {"presented", "escrow"} /\ place' = "retract-unit" /\ UNCHANGED <<notes, approved>>

EscrowNext == Insert \/ Approve \/ Commit \/ Present \/ Take \/ Retain
EscrowSpec == EscrowInit /\ [][EscrowNext]_escrowVars
=============================================================================
