---------------------------- MODULE CashRecovery ----------------------------
(***************************************************************************)
(* The recovery side of cash custody: CashRecoverySupervisor behind its    *)
(* CashRecoveryWorker, the recovery view of the dispenser, and the         *)
(* maintenance operator's CashInterventionResolver.                        *)
(*                                                                         *)
(* acceptTransfer runs on the foreground's call (fg.pc); recover() runs    *)
(* one at a time on the worker's tail (rec.pc); resolve() is the           *)
(* operator's (mt.pc).  rec.row and mt.row are the row as last read or     *)
(* written by that call: compareAndSwap compares its revision.             *)
(***************************************************************************)
EXTENDS CashSession

Observations == {"staged", "presented", "taken", "retracted", "notDispensed", "unknown"}
RunSteps == {"idle", "bind", "swap", "deadline", "observe", "retract",
             "retracting", "snapshot", "release", "close", "intervene"}
Worker == [pc: RunSteps, op: Ops \cup {NoOp}, row: LeaseRecord,
           obs: Observations \cup {"none"}, retain: BOOLEAN, queued: BOOLEAN,
           last: {"none", "ready", "recovering", "intervention"}, failed: BOOLEAN,
           boot: {"starting", "ready", "blocked"}]
NoRun == [pc |-> "idle", op |-> NoOp, row |-> NoLease, obs |-> "none", retain |-> FALSE,
          queued |-> FALSE, last |-> "none", failed |-> FALSE, boot |-> "ready"]

Resolver == [pc: {"idle", "swap", "evidence", "release", "close"}, op: Ops \cup {NoOp},
             row: LeaseRecord, out: Outcomes \cup {"none"}, back: BOOLEAN]
NoResolve == [pc |-> "idle", op |-> NoOp, row |-> NoLease, out |-> "none", back |-> FALSE]

keepSession == UNCHANGED <<fg, evid>>

-----------------------------------------------------------------------------
(* acceptTransfer                                                          *)

(* requireLease, requireOwner, swap to transferPending, register the       *)
(* release of the device lock, append.  A stale owner, a conflict or a     *)
(* failed append makes exit throw; the row may already be transferPending. *)
AcceptTransfer ==
  /\ at("transfer")
  /\ LET row == lease[fg.op]
         pending == [row EXCEPT !.state = "transferPending", !.pending = row.token + 1,
                                !.phase = fg.phase]
     IN \/ /\ row.state = "transactionBound"
           /\ compareAndSwap(fg.op, row, pending)
           /\ held' = held \cup {fg.op}
           /\ \/ Smooth /\ fg' = [fg EXCEPT !.pc = "transition",
                                           !.row = [pending EXCEPT !.rev = row.rev + 1]]
              \/ Fault /\ goto("left")
        \/ /\ IF row.state = "transactionBound" THEN Fault ELSE Smooth
           /\ goto("left") /\ UNCHANGED <<lease, held>>
  /\ UNCHANGED <<evid, dev, lock>> /\ keepHost /\ keepWorld

(* The host moves the lease to recovery authority.  On any failure the     *)
(* receipt says transferPending; the transition may still have happened.   *)
schedule == rec' = [rec EXCEPT !.queued = TRUE]

TransferTransition ==
  /\ at("transition")
  /\ \/ /\ authorized /\ Smooth
        /\ hostGrant(fg.op, "recovery", fg.row.pending)
        /\ goto("bind") /\ UNCHANGED rec
     \/ /\ \/ authorized /\ Fault /\ hostGrant(fg.op, "recovery", fg.row.pending)
           \/ keepHost /\ IF authorized THEN Fault ELSE Smooth
        /\ goto("left") /\ schedule
  /\ keepStore /\ UNCHANGED <<cash, dev, lock, held, mt>>

\* Mutant: the row keeps the session's token when recovery takes it.
boundUnfenced(row, token) == [row EXCEPT !.state = "recoveryBound", !.authority = "recovery"]
bound(row, token) == [row EXCEPT !.state = "recoveryBound", !.token = token,
                                 !.authority = "recovery"]

(* The row follows; the worker schedules a run in either case.             *)
TransferBind ==
  /\ at("bind")
  /\ \/ Smooth /\ compareAndSwap(fg.op, fg.row, bound(fg.row, fg.row.pending))
     \/ UNCHANGED lease /\ IF Current(fg.op, fg.row) THEN Fault ELSE Smooth
  /\ goto("left") /\ schedule
  /\ UNCHANGED <<evid, cash, dev, lock, held, mt>> /\ keepHost

-----------------------------------------------------------------------------
(* recover: one run.  A run that throws leaves the worker failed; the      *)
(* unresolved rows stay as they are until somebody asks for another run.   *)

(* KioskRuntime.passRecoveryStartupBarrier: the run of a start decides     *)
(* whether this process may serve; nothing evaluates it again.             *)
barrier(result) == IF rec.boot # "starting" THEN rec.boot
                   ELSE IF result = "ready" THEN "ready" ELSE "blocked"

finished(result) ==
  rec' = [NoRun EXCEPT !.queued = rec.queued, !.last = result, !.failed = rec.failed,
                       !.boot = barrier(result)]
\* Mutant: the worker swallows the failure of a run.
threwSilently ==
  rec' = [NoRun EXCEPT !.queued = rec.queued, !.last = rec.last, !.failed = rec.failed,
                       !.boot = barrier("failed")]
threw ==
  rec' = [NoRun EXCEPT !.queued = rec.queued, !.last = rec.last, !.failed = TRUE,
                       !.boot = barrier("failed")]
stepTo(step, row) == rec' = [rec EXCEPT !.pc = step, !.row = row]

RunStarts ==
  /\ rec.pc = "idle" /\ rec.queued
  /\ \/ /\ listUnresolved = {}
        /\ rec' = [rec EXCEPT !.queued = FALSE, !.last = "ready", !.boot = barrier("ready")]
     \/ \E o \in listUnresolved :
          \/ /\ lease[o].state \in {"intervention", "maintenanceBound"}
             /\ rec' = [rec EXCEPT !.queued = FALSE, !.last = "intervention",
                                   !.boot = barrier("intervention")]
          \/ /\ lease[o].state \in {"transactionBound", "transferPending", "recoveryBound"}
             /\ rec' = [rec EXCEPT !.queued = FALSE, !.op = o, !.row = lease[o],
                          !.pc = IF lease[o].state = "recoveryBound" THEN "deadline" ELSE "bind"]
  /\ keepStore /\ keepHost /\ keepSession /\ Smooth /\ UNCHANGED <<cash, dev, lock, held, mt>>

nextToken(row) == IF row.pending # 0 THEN row.pending ELSE row.token + 1

(* bind: adopt a lease already moved to recovery, wait while another lease *)
(* is live, otherwise acquire one.  Asking for the host's epoch or for the *)
(* lease may fail and throws out of the run; a refused acquire does not.   *)
Bind ==
  /\ rec.pc = "bind"
  /\ \/ /\ hostHolds(rec.op, "recovery", nextToken(rec.row))
        /\ stepTo("swap", rec.row) /\ Smooth /\ keepHost
     \/ /\ ~hostFree /\ ~hostHolds(rec.op, "recovery", nextToken(rec.row))
        /\ finished("recovering") /\ Smooth /\ keepHost
     \/ /\ hostFree /\ hostGrant(rec.op, "recovery", nextToken(rec.row))
        /\ \/ Smooth /\ stepTo("swap", rec.row)
           \/ Fault /\ finished("recovering")
     \/ /\ hostFree /\ keepHost /\ Fault /\ finished("recovering")
     \/ keepHost /\ Fault /\ threw
  /\ keepStore /\ keepSession /\ UNCHANGED <<cash, dev, lock, held, mt>>

(* swap: a conflict throws out of the run.                                 *)
swapOr(row, step) ==
  \/ /\ Smooth /\ compareAndSwap(rec.op, rec.row, row)
     /\ stepTo(step, [row EXCEPT !.rev = rec.row.rev + 1])
  \/ /\ UNCHANGED lease /\ threw
     /\ IF Current(rec.op, rec.row) THEN Fault ELSE Smooth

BindSwap ==
  /\ rec.pc = "swap"
  /\ swapOr(bound(rec.row, nextToken(rec.row)), "deadline")
  /\ keepHost /\ keepSession /\ UNCHANGED <<cash, dev, lock, held, mt>>

(* Past the recovery deadline the row goes to intervention first, and the  *)
(* rest of the run only collects evidence.                                 *)
Deadline ==
  /\ rec.pc = "deadline"
  /\ \/ stepTo("observe", rec.row) /\ Smooth /\ UNCHANGED lease
     \/ LET row == [rec.row EXCEPT !.state = "intervention"] IN
        \/ /\ Smooth /\ compareAndSwap(rec.op, rec.row, row)
           /\ rec' = [rec EXCEPT !.pc = "observe", !.retain = TRUE,
                                 !.row = [row EXCEPT !.rev = rec.row.rev + 1]]
        \/ /\ Fault /\ compareAndSwap(rec.op, rec.row, row) /\ threw   \* append fails
        \/ /\ UNCHANGED lease /\ threw
           /\ IF Current(rec.op, rec.row) THEN Fault ELSE Smooth
  /\ keepHost /\ keepSession /\ UNCHANGED <<cash, dev, lock, held, mt>>

\* Mutant: the stacker is not read.
observeRowOnly(row) ==
  IF dev.shown THEN IF slotEmpty THEN "taken" ELSE "presented"
  ELSE IF row.phase = "staged" THEN "staged"
  ELSE IF row.phase = "planning" THEN "notDispensed"
  ELSE "unknown"

(* XfsCdmCashRecoveryDevice.observe: present status first, then stacker,   *)
(* then what phase the row last recorded.                                  *)
observe(row) ==
  IF dev.shown THEN IF slotEmpty THEN "taken" ELSE "presented"
  ELSE IF ~stackerEmpty \/ row.phase = "staged" THEN "staged"
  ELSE IF row.phase = "planning" THEN "notDispensed"
  ELSE "unknown"

(* The reads do not wait for a command in flight.  Notes still in the      *)
(* transport are to be retracted; only terminal observations go on to the  *)
(* after snapshot.                                                         *)
afterObserving(seen) ==
  CASE seen \in {"staged", "presented"} -> "retract"
    [] seen = "unknown" -> "intervene"
    [] OTHER -> "snapshot"

Observe ==
  /\ rec.pc = "observe"
  /\ LET seen == observe(rec.row) IN
     \/ Smooth /\ rec' = [rec EXCEPT !.pc = afterObserving(seen), !.obs = seen]
     \/ Fault /\ stepTo("intervene", rec.row)
  /\ keepStore /\ keepHost /\ keepSession /\ UNCHANGED <<cash, dev, lock, held, mt>>

(* The command needs a host lease of this operation under recovery.        *)
RecoveryRetract ==
  /\ rec.pc = "retract"
  /\ IF host.op = rec.op /\ host.authority = "recovery"
     THEN issue("retract", rec.op, "recovery") ELSE UNCHANGED dev
  /\ stepTo("retracting", rec.row)
  /\ keepStore /\ keepHost /\ keepSession /\ Smooth /\ UNCHANGED <<cash, lock, held, mt>>

RecoveryRetractReturns ==
  /\ rec.pc = "retracting"
  /\ \/ /\ answered("recovery", "ok")
        /\ \/ Smooth /\ rec' = [rec EXCEPT !.pc = "snapshot", !.obs = "retracted"]
           \/ Fault /\ stepTo("intervene", rec.row)          \* append fails
     \/ /\ \E r \in {"failed", "error"} : answered("recovery", r)
        /\ Smooth
        /\ stepTo("intervene", rec.row)
  /\ keepStore /\ keepHost /\ keepSession /\ UNCHANGED <<cash, lock, held, mt>>

CaptureAfterSnapshot ==
  /\ rec.pc = "snapshot"
  /\ \/ /\ Smooth
        /\ evid' = [evid EXCEPT ![rec.op] = @ \cup {"after"}]
        /\ IF rec.retain
           THEN \/ /\ compareAndSwap(rec.op, rec.row, [rec.row EXCEPT !.outcome = rec.obs])
                   /\ finished("intervention")
                \/ ~Current(rec.op, rec.row) /\ threw /\ UNCHANGED lease
           ELSE stepTo("release", rec.row) /\ UNCHANGED lease
     \/ Fault /\ stepTo("intervene", rec.row) /\ keepStore
  /\ keepHost /\ UNCHANGED <<fg, cash, dev, lock, held, mt>>

(* releaseForegroundResources, then the host lease: the host refuses a     *)
(* release of a lease it does not know.                                    *)
freeLock(o) == /\ lock' = IF o \in held /\ lock = o THEN NoOp ELSE lock
               /\ held' = held \ {o}

ReleaseResources ==
  /\ rec.pc = "release"
  /\ freeLock(rec.op)
  /\ \/ /\ hostHolds(rec.op, "recovery", rec.row.token)
        /\ host' = NoHostLease /\ Smooth /\ stepTo("close", rec.row)
     \/ /\ IF hostHolds(rec.op, "recovery", rec.row.token)
           THEN Fault /\ host' \in {host, NoHostLease}
           ELSE Smooth /\ UNCHANGED host
        /\ stepTo("intervene", rec.row)
  /\ keepStore /\ keepSession /\ UNCHANGED <<cash, dev, mt>>

CloseRecovered ==
  /\ rec.pc = "close"
  /\ \/ /\ Smooth
        /\ compareAndSwap(rec.op, rec.row,
             [rec.row EXCEPT !.state = "closed", !.outcome = rec.obs])
        /\ finished("ready")
     \/ /\ UNCHANGED lease /\ threw
        /\ IF Current(rec.op, rec.row) THEN Fault ELSE Smooth
  /\ keepHost /\ keepSession /\ UNCHANGED <<cash, dev, lock, held, mt>>

(* enterIntervention                                                       *)
EnterIntervention ==
  /\ rec.pc = "intervene"
  /\ \/ /\ rec.row.state = "intervention"
        /\ finished("intervention") /\ Smooth /\ UNCHANGED lease
     \/ /\ rec.row.state # "intervention"
        /\ compareAndSwap(rec.op, rec.row, [rec.row EXCEPT !.state = "intervention"])
        /\ \/ finished("intervention") /\ Smooth
           \/ threw /\ Fault
     \/ /\ rec.row.state # "intervention"
        /\ ~Current(rec.op, rec.row) /\ threw /\ Smooth /\ UNCHANGED lease
  /\ keepHost /\ keepSession /\ UNCHANGED <<cash, dev, lock, held, mt>>

-----------------------------------------------------------------------------
(* CashInterventionResolver.resolve, by an authenticated local operator    *)
(* whose request satisfies the resolution policy.  Every failure throws    *)
(* and leaves what was already done.                                       *)

resolverStops == mt' = NoResolve

Resolve(o, out, back) ==
  /\ mt.pc = "idle"
  /\ lease[o].state = "intervention"
  /\ hostHolds(o, "recovery", lease[o].token)
  /\ hostGrant(o, "maintenance", lease[o].token + 1)
  /\ \/ Smooth /\ mt' = [pc |-> "swap", op |-> o, row |-> lease[o], out |-> out, back |-> back]
     \/ Fault /\ UNCHANGED mt
  /\ keepStore /\ keepSession /\ UNCHANGED <<cash, dev, lock, held, rec>>

ResolverSwap ==
  /\ mt.pc = "swap"
  /\ LET row == [mt.row EXCEPT !.state = "maintenanceBound", !.authority = "maintenance",
                               !.token = mt.row.token + 1]
     IN \/ /\ compareAndSwap(mt.op, mt.row, row)
           /\ \/ /\ Smooth
                 /\ mt' = [mt EXCEPT !.pc = "evidence", !.row = [row EXCEPT !.rev = mt.row.rev + 1]]
              \/ Fault /\ resolverStops               \* append fails
        \/ ~Current(mt.op, mt.row) /\ Smooth /\ resolverStops /\ UNCHANGED lease
  /\ keepHost /\ keepSession /\ UNCHANGED <<cash, dev, lock, held, rec>>

ResolverEvidence ==
  /\ mt.pc = "evidence"
  /\ LET row == [mt.row EXCEPT !.outcome = mt.out] IN
     \/ /\ compareAndSwap(mt.op, mt.row, row) /\ Smooth
        /\ IF mt.back
           THEN mt' = [mt EXCEPT !.pc = "release", !.row = [row EXCEPT !.rev = mt.row.rev + 1]]
           ELSE resolverStops
     \/ ~Current(mt.op, mt.row) /\ Smooth /\ resolverStops /\ UNCHANGED lease
  /\ keepHost /\ keepSession /\ UNCHANGED <<cash, dev, lock, held, rec>>

ResolverRelease ==
  /\ mt.pc = "release"
  /\ freeLock(mt.op)
  /\ \/ /\ hostHolds(mt.op, "maintenance", mt.row.token) /\ host' = NoHostLease
        /\ \/ Smooth /\ mt' = [mt EXCEPT !.pc = "close"]
           \/ Fault /\ resolverStops
     \/ /\ ~hostHolds(mt.op, "maintenance", mt.row.token) /\ keepHost /\ Smooth
        /\ resolverStops
  /\ keepStore /\ keepSession /\ UNCHANGED <<cash, dev, rec>>

ResolverClose ==
  /\ mt.pc = "close"
  /\ \/ compareAndSwap(mt.op, mt.row, [mt.row EXCEPT !.state = "closed"])
     \/ ~Current(mt.op, mt.row) /\ UNCHANGED lease
  /\ resolverStops
  /\ keepHost /\ keepSession /\ Smooth /\ UNCHANGED <<cash, dev, lock, held, rec>>
=============================================================================
