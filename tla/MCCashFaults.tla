---------------------------- MODULE MCCashFaults ----------------------------
(* Notes on their way out, with one operation and three faults, and notes *)
(* on their way in, with two batches, two faults and a crash.  Dispenser  *)
(* and acceptor share no state: a behaviour is about one of them.         *)
EXTENDS CashSystem, Deposit

VARIABLE part

cashVars == <<part, vars, allVars>>

\* The deposit that a behaviour is not about was refused.
CashInit ==
  /\ part \in {"dispenser", "acceptor"}
  /\ Init
  /\ DepositAt(IF part = "acceptor" THEN "barrier" ELSE "done")

CashNext ==
  /\ UNCHANGED part
  /\ \/ part = "dispenser" /\ Next /\ UNCHANGED allVars
     \/ part = "acceptor" /\ DepositNext /\ UNCHANGED vars

\* No fair step of a part that a behaviour is not about is enabled.
CashSpec == CashInit /\ [][CashNext]_cashVars /\ CashFairness /\ DepositFairness

\* Notes do not stay between two owners: an accepted transfer is settled or says
\* why not (cash-recovery-worker.ts), and every deposit ends (workflow.ts).
CashSettles == AcceptedTransferSettles /\ DepositEnds
=============================================================================
