----------------------------- MODULE CashSystem -----------------------------
(***************************************************************************)
(* Cash custody as a whole: the foreground session, the recovery worker    *)
(* and the maintenance operator working on the same lease table, host      *)
(* lease and dispenser, with crashes of the application, restarts of the   *)
(* host, expiry of leases and late commands.                               *)
(***************************************************************************)
EXTENDS CashRecovery

Init ==
  /\ lease = [o \in Ops |-> NoLease]
  /\ evid = [o \in Ops |-> {}]
  /\ cash = [o \in Ops |-> "vault"]
  /\ dev = NoCommand
  /\ host = NoHostLease
  /\ lock = NoOp
  /\ held = {}
  /\ fg = NoSession
  /\ rec = NoRun
  /\ mt = NoResolve
  /\ faults = MaxFaults

(* The application dies and starts again: everything in memory is lost,    *)
(* the tables, the host lease and the command in flight are not.  A start  *)
(* begins with a recovery run.                                             *)
Crash ==
  /\ Fault
  /\ fg' = NoSession /\ rec' = [NoRun EXCEPT !.queued = TRUE, !.boot = "starting"] /\ mt' = NoResolve
  /\ lock' = NoOp /\ held' = {}
  /\ dev' = forgotten
  /\ keepStore /\ keepHost /\ UNCHANGED cash

SessionStep ==
  \/ \E o \in Ops : Start(o)
  \/ CreateLease \/ AcquireHostLease \/ PersistBefore
  \/ Dispense \/ DispenseReturns \/ DispensePersisted
  \/ Present \/ PresentReturns \/ PresentPersisted
  \/ TakeConfirmed \/ TakeTimesOut
  \/ Abort \/ RetractReturns \/ Finish \/ CloseLease \/ ReleaseHostLease \/ ReleaseLock
  \/ Exit \/ AcceptTransfer \/ TransferTransition \/ TransferBind \/ Leave

RecoveryStep ==
  \/ RunStarts \/ Bind \/ BindSwap \/ Deadline \/ Observe \/ RecoveryRetract
  \/ RecoveryRetractReturns \/ CaptureAfterSnapshot \/ ReleaseResources
  \/ CloseRecovered \/ EnterIntervention

ResolverStep ==
  \/ \E o \in Ops, out \in Verdicts, back \in BOOLEAN : Resolve(o, out, back)
  \/ ResolverSwap \/ ResolverEvidence \/ ResolverRelease \/ ResolverClose

EnvironmentStep ==
  \/ DeviceExecutes \/ DeviceRejects \/ CustomerTakes \/ CommandTimesOut
  \/ HostLeaseExpires \/ HostRestarts \/ Crash

Next == SessionStep \/ RecoveryStep \/ ResolverStep \/ EnvironmentStep

Spec == Init /\ [][Next]_vars

(* Promises settle and queued runs are started; every native call is       *)
(* bounded by its timeout.  Nothing makes a customer, an operator or the   *)
(* caller of the session act.                                              *)
ReturnStep ==
  \/ DispenseReturns \/ DispensePersisted \/ PresentReturns \/ PresentPersisted
  \/ RetractReturns \/ Finish \/ CloseLease \/ ReleaseHostLease \/ ReleaseLock
  \/ AcceptTransfer \/ TransferTransition \/ TransferBind
CashFairness ==
  /\ WF_vars(RecoveryStep) /\ WF_vars(ReturnStep)
  /\ WF_vars(DeviceExecutes \/ DeviceRejects)
FairSpec == Spec /\ CashFairness

-----------------------------------------------------------------------------
(* Each actor at work is at work on an operation, and a run that comes to  *)
(* its snapshot has observed an outcome.                                   *)
SessionOK == fg \in Session /\ (fg.pc # "idle" => fg.op \in Ops)
WorkerOK ==
  /\ rec \in Worker /\ (rec.pc # "idle" => rec.op \in Ops)
  /\ rec.pc \in {"snapshot", "release", "close"} => rec.obs \in Outcomes
ResolverOK == mt \in Resolver /\ (mt.pc # "idle" => mt.op \in Ops)
DeviceOK == dev \in Device /\ (dev.cmd # "none" => dev.op \in Ops)

TypeOK ==
  /\ lease \in [Ops -> LeaseRecord]
  /\ evid \in [Ops -> SUBSET Kinds]
  /\ cash \in [Ops -> Places]
  /\ DeviceOK
  /\ host \in HostLease
  /\ lock \in Ops \cup {NoOp}
  /\ held \in SUBSET Ops
  /\ SessionOK
  /\ WorkerOK
  /\ ResolverOK
  /\ faults \in 0 .. MaxFaults

(* cash-delivery.ts 87-101 and 242: notes leave the vault only when the    *)
(* before snapshot and the dispense intent of that operation are durable,  *)
(* whatever crashes, timeouts and late commands come in between.           *)
EvidenceBeforeMovement ==
  \A o \in Ops : cash[o] # "vault" => {"before", "intent"} \subseteq evid[o]

(* The row of o was closed without knowing, or by an operator's word       *)
(* about, where its notes are.                                             *)
Disowned(o) ==
  /\ lease[o].state = "closed"
  /\ lease[o].outcome = "custodyUnknown" \/ lease[o].authority = "maintenance"

(* Recovery concluded from the dispenser's present status alone that the   *)
(* customer took the notes of o.                                           *)
InferredTaken(o) ==
  lease[o].state = "closed" /\ lease[o].outcome = "taken" /\ lease[o].authority = "recovery"

(* The notes of o went their own way: its row says nothing about them, or  *)
(* they were retracted after all, by the command of a later operation,     *)
(* when a late dispense had followed the inferred take.                    *)
Strayed(o) == Disowned(o) \/ (InferredTaken(o) /\ cash[o] = "retracted")

(* A closed row tells the truth about the notes, now and for good, as long *)
(* as no notes went astray: the session's notDispensed means that nothing  *)
(* moved, recovery's that nothing is outside the safe, and retracted that  *)
(* the notes were.  With notes astray it need not: a retract that finds    *)
(* only those of an earlier operation reports success as well.             *)
RecordedOutcomeIsTrue ==
  \A o \in Ops :
    lease[o].state = "closed" /\ (\A p \in Ops : ~Strayed(p)) =>
      /\ lease[o].outcome = "notDispensed" =>
           cash[o] \in IF lease[o].authority = "transaction" THEN {"vault"}
                                                            ELSE {"vault", "retracted"}
      /\ lease[o].outcome = "retracted" => cash[o] = "retracted"

(* While notes of an operation are in the transport, or a dispense for it  *)
(* may still run, its row is unresolved, was knowingly disowned, or was    *)
(* closed on an inferred take: no other crash, late command or lost answer *)
(* makes the system forget them.                                           *)
CustodyIsOwned ==
  \A o \in Ops :
    InTransport(o) \/ (dev.cmd = "dispense" /\ dev.op = o) =>
      Unresolved(o) \/ Disowned(o) \/ InferredTaken(o)

(* A session that ends without reconciliationRequired has closed its row   *)
(* with its outcome, left complete evidence, and the notes are where the   *)
(* outcome says, as long as no notes went astray.                          *)
CleanEndIsComplete ==
  at("left") /\ fg.phase = "terminal" /\ ~fg.recon /\ (\A o \in Ops : ~Strayed(o)) =>
    /\ lease[fg.op].state = "closed" /\ lease[fg.op].outcome = fg.out
    /\ {"before", "after", "terminal"} \subseteq evid[fg.op]
    /\ fg.out = "taken" => cash[fg.op] = "customer"
    /\ fg.out = "retracted" => cash[fg.op] = "retracted"
    /\ fg.out = "notDispensed" => cash[fg.op] = "vault"
    /\ lock # fg.op

(* Outside the session that took it, the device lock is only ever held for *)
(* an unresolved row: closing the row by whatever path frees the lock, so  *)
(* no operation is refused for a lock that recovery has forgotten.         *)
LockImpliesUnresolved ==
  lock # NoOp /\ fg.op # lock => Unresolved(lock)

(* The host lease and the row agree on the fencing token once the row says *)
(* recovery owns it, until the operator takes it.                          *)
FencingAgrees ==
  \A o \in Ops :
    lease[o].state = "recoveryBound" /\ host.op = o =>
      host.authority = "recovery" /\ host.token = lease[o].token

(* recovery-supervisor.ts, cash-recovery-worker.ts: an accepted transfer   *)
(* never stalls silently.  The row is eventually closed or in the hands of *)
(* an operator, or else the worker's last run failed or says recovering,   *)
(* which is what makes its dispose refuse a quiet shutdown.                *)
AcceptedTransferSettles ==
  \A o \in Ops :
    (o \in held /\ rec.queued) ~>
      \/ lease[o].state \in {"closed", "intervention", "maintenanceBound"}
      \/ rec.failed
      \/ rec.last = "recovering" /\ rec.pc = "idle" /\ ~rec.queued

-----------------------------------------------------------------------------
(* What the documents say and the code does not do.                        *)

(* docs/38-cash-recovery-supervisor-target.md:52: custodyUnknown keeps the *)
(* logical service unavailable until an operator resolves it, so a row     *)
(* closed as custodyUnknown was closed by maintenance.                     *)
UnknownCustodyStaysUnresolved ==
  \A o \in Ops :
    lease[o].state = "closed" /\ lease[o].outcome = "custodyUnknown" =>
      lease[o].authority = "maintenance"

(* The lease row, the host lease and the device lock tell one story: each  *)
(* has its type, the lock is held for an unresolved row, and the row and   *)
(* the host agree on who may fence whom (recovery-supervisor.ts 40-120).   *)
LeasesAgree == TypeOK /\ LockImpliesUnresolved /\ FencingAgrees
=============================================================================
