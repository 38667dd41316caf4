----------------------------- MODULE CashState -----------------------------
(***************************************************************************)
(* The state that the cash-custody part of xfs-device-service shares: the  *)
(* durable recovery-lease table, the durable evidence, the device lock,    *)
(* and, outside the repository, the command-lease host (hostd) and the     *)
(* cash dispenser (CDM) behind it.  One logical cash service is modelled;  *)
(* Ops are the operations (withdrawals) that use it, one cash session and  *)
(* one recovery-lease row each.                                            *)
(*                                                                         *)
(* CashSession and CashRecovery extend this module with the steps of the   *)
(* foreground session and of the recovery side; CashSystem composes them.  *)
(***************************************************************************)
EXTENDS Integers, FiniteSets

CONSTANTS
  Ops,        \* operation ids
  NoOp,       \* no operation
  MaxFaults,  \* how many failures, lost replies, crashes and restarts may happen
  FloorStep,  \* distance between the wall-clock token floors of two operations
  Verdicts    \* the outcomes a maintenance operator may report

ASSUME OpsAssumption == IsFiniteSet(Ops) /\ NoOp \notin Ops
ASSUME VerdictsAssumption ==
  Verdicts \subseteq {"taken", "retracted", "notDispensed", "custodyUnknown"}
ASSUME BoundAssumption == MaxFaults \in Nat /\ FloorStep \in Nat \ {0}

VARIABLES
  lease,   \* xfs_cash_recovery_lease, one row per operation
  evid,    \* durable evidence kinds of each operation
  cash,    \* where the notes of each operation physically are
  dev,     \* the dispenser: its command in flight and its last present status
  host,    \* the command lease the host currently honours
  lock,    \* holder of the in-memory device lock
  held,    \* foregroundResourceReleases: leases whose lock recovery must free
  fg,      \* the foreground CashDeliverySession
  rec,     \* CashRecoveryWorker and the supervisor run in progress
  mt,      \* CashInterventionResolver.resolve in progress
  faults   \* failures still allowed

vars == <<lease, evid, cash, dev, host, lock, held, fg, rec, mt, faults>>

Phases == {"planning", "planned", "dispensing", "staged", "presenting",
           "awaitingTake", "retracting", "reconciling", "terminal"}
Outcomes == {"taken", "retracted", "notDispensed", "custodyUnknown"}
Authorities == {"transaction", "recovery", "maintenance"}
LeaseStates == {"absent", "transactionBound", "transferPending", "recoveryBound",
                "intervention", "maintenanceBound", "closed"}
Tokens == Nat

LeaseRecord == [state: LeaseStates, phase: Phases, token: Tokens, pending: Tokens,
                outcome: Outcomes \cup {"none"}, authority: Authorities, rev: Nat]

\* pending = 0 stands for pendingFencingToken being undefined.
NoLease == [state |-> "absent", phase |-> "planning", token |-> 0, pending |-> 0,
            outcome |-> "none", authority |-> "transaction", rev |-> 0]

Commands == {"dispense", "present", "retract"}
Places == {"vault", "stacker", "slot", "customer", "retracted"}
(* cash.before.persisted, cash.dispense.intent, cash.retract.intent, the   *)
(* after snapshot and cash.custody.terminal; no other kind is read back.   *)
Kinds == {"before", "intent", "retractIntent", "after", "terminal"}

-----------------------------------------------------------------------------
(* A step either goes as intended or spends one of the remaining faults.   *)
Smooth == UNCHANGED faults
Fault == faults > 0 /\ faults' = faults - 1

-----------------------------------------------------------------------------
(* SqliteCashRecoveryLeaseStore                                            *)

Unresolved(o) == lease[o].state \notin {"absent", "closed"}
listUnresolved == {o \in Ops : Unresolved(o)}

(* nextFencingToken: the least token above every stored token, and not below the wall      *)
(* clock floor (milliseconds times 1000), which each new operation finds   *)
(* FloorStep higher than the one before it.                                *)
fencingTokenFloor == FloorStep * (1 + Cardinality({o \in Ops : lease[o].state # "absent"}))
nextFencingToken ==
  {t \in {fencingTokenFloor} \cup {lease[o].token + 1 : o \in Ops} :
     t >= fencingTokenFloor /\ \A o \in Ops : lease[o].token < t}

create(o) ==
  /\ listUnresolved = {}
  /\ \E t \in nextFencingToken :
       lease' = [lease EXCEPT ![o] = [NoLease EXCEPT !.state = "transactionBound",
                                                     !.token = t, !.rev = 1]]

(* compareAndSwap: r is the row as its writer read it.  Owner ids change   *)
(* only together with the revision, so the revision alone decides.         *)
Current(o, r) == lease[o].rev = r.rev
compareAndSwap(o, r, patched) ==
  /\ Current(o, r)
  /\ lease' = [lease EXCEPT ![o] = [patched EXCEPT !.rev = r.rev + 1]]

-----------------------------------------------------------------------------
(* hostd (external): one command lease per logical service.  A lease that  *)
(* expired or belonged to an earlier epoch is gone.                        *)
NoHostLease == [op |-> NoOp, authority |-> "transaction", token |-> 0]
HostLease == [op: Ops \cup {NoOp}, authority: Authorities, token: Tokens]

hostFree == host.op = NoOp
hostHolds(o, a, t) == host = [op |-> o, authority |-> a, token |-> t]
hostGrant(o, a, t) == host' = [op |-> o, authority |-> a, token |-> t]

-----------------------------------------------------------------------------
(* CDM (external).  One command is in flight at a time; its caller may     *)
(* stop waiting (by = "nobody"), the command then still runs.              *)
Callers == {"session", "recovery", "nobody"}
Device == [cmd: Commands \cup {"none"}, op: Ops \cup {NoOp}, by: Callers,
           reply: {"none", "ok", "failed"}, shown: BOOLEAN]
NoCommand == [cmd |-> "none", op |-> NoOp, by |-> "nobody", reply |-> "none", shown |-> FALSE]

InTransport(o) == cash[o] \in {"stacker", "slot"}
stackerEmpty == \A o \in Ops : cash[o] # "stacker"
slotEmpty == \A o \in Ops : cash[o] # "slot"

deviceFree == dev.cmd = "none" /\ dev.reply = "none"
issue(c, o, who) ==
  /\ deviceFree
  /\ dev' = [dev EXCEPT !.cmd = c, !.op = o, !.by = who]

(* The answer that who is waiting for: the device's, or an error once the  *)
(* command was refused, timed out or lost.                                 *)
answered(who, r) ==
  \/ /\ dev.by = who /\ dev.cmd = "none" /\ dev.reply = r
     /\ dev' = [dev EXCEPT !.op = NoOp, !.by = "nobody", !.reply = "none"]
  \/ /\ dev.by # who /\ r = "error"
     /\ UNCHANGED dev
forgotten == [dev EXCEPT !.by = "nobody", !.reply = "none",
                         !.op = IF dev.cmd = "none" THEN NoOp ELSE dev.op]

(* What the mechanics can do when the command runs: a dispense needs an    *)
(* empty transport, a present needs notes on the stacker, a retract needs  *)
(* notes on the stacker or in the slot.                                    *)
Possible(c) ==
  CASE c = "dispense" -> stackerEmpty /\ slotEmpty
    [] c = "present"  -> ~stackerEmpty /\ slotEmpty
    [] c = "retract"  -> ~(stackerEmpty /\ slotEmpty)

Moved(c, o) ==
  CASE c = "dispense" -> [cash EXCEPT ![o] = "stacker"]
    [] c = "present"  -> [p \in Ops |-> IF cash[p] = "stacker" THEN "slot" ELSE cash[p]]
    [] c = "retract"  -> [p \in Ops |-> IF InTransport(p) THEN "retracted" ELSE cash[p]]

(* getPresentStatus reports the last dispense: a dispense clears the       *)
(* presented flag, a present sets it, and nothing else touches it.         *)
Shown(c) == CASE c = "dispense" -> FALSE [] c = "present" -> TRUE [] OTHER -> dev.shown

Answer(r) == IF dev.by = "nobody"
             THEN [dev EXCEPT !.cmd = "none", !.op = NoOp]
             ELSE [dev EXCEPT !.cmd = "none", !.reply = r]

DeviceExecutes ==
  /\ dev.cmd # "none"
  /\ Possible(dev.cmd)
  /\ cash' = Moved(dev.cmd, dev.op)
  /\ dev' = [Answer("ok") EXCEPT !.shown = Shown(dev.cmd)]
  /\ UNCHANGED <<lease, evid, host, lock, held, fg, rec, mt, faults>>

(* The command fails with an hResult and moves nothing: for want of what   *)
(* it needs, or because of a device fault.                                 *)
DeviceRejects ==
  /\ dev.cmd # "none"
  /\ IF Possible(dev.cmd) THEN Fault ELSE Smooth
  /\ dev' = Answer("failed")
  /\ UNCHANGED <<lease, evid, cash, host, lock, held, fg, rec, mt>>

CustomerTakes ==
  /\ ~slotEmpty
  /\ cash' = [o \in Ops |-> IF cash[o] = "slot" THEN "customer" ELSE cash[o]]
  /\ UNCHANGED <<lease, evid, dev, host, lock, held, fg, rec, mt, faults>>

(* A lease runs out.  Its time to live is at least twice the command       *)
(* timeout, so a command of its holder is over by then.                    *)
HostLeaseExpires ==
  /\ ~hostFree
  /\ dev.cmd = "none"
  /\ host' = NoHostLease
  /\ UNCHANGED <<lease, evid, cash, dev, lock, held, fg, rec, mt, faults>>

(* The caller's timeout, or the loss of the answer: the command itself    *)
(* goes on.                                                                *)
CommandTimesOut ==
  /\ dev.by # "nobody"
  /\ Fault
  /\ dev' = forgotten
  /\ UNCHANGED <<lease, evid, cash, host, lock, held, fg, rec, mt>>

(* hostd restarts: a new epoch forgets the lease, and a command that has   *)
(* not run yet is lost; its caller gets an error.                          *)
HostRestarts ==
  /\ Fault
  /\ host' = NoHostLease
  /\ dev' = [NoCommand EXCEPT !.shown = dev.shown]
  /\ UNCHANGED <<lease, evid, cash, lock, held, fg, rec, mt>>
=============================================================================
