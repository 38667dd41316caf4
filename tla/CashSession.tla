---------------------------- MODULE CashSession ----------------------------
(***************************************************************************)
(* XfsCashDeliveryPort.start and CashDeliverySession: the foreground owner *)
(* of one cash operation.  The withdrawal orchestrator calls its methods   *)
(* one after the other; fg.pc is the await the current call is at, "ready" *)
(* between two calls.  fg.phase, fg.moved, fg.retr, fg.recon and fg.out    *)
(* are the private fields currentPhase, movementPossible,                  *)
(* retractDispatched, reconciliationRequired and terminal.                 *)
(***************************************************************************)
EXTENDS CashState

SessionSteps == {"idle", "create", "acquire", "before", "ready", "dispense",
                 "dispensed", "present", "presented", "retract", "finish",
                 "close", "release", "unlock", "transfer", "transition", "bind",
                 "left"}
Session == [pc: SessionSteps, op: Ops \cup {NoOp}, phase: Phases, moved: BOOLEAN,
            retr: BOOLEAN, recon: BOOLEAN, out: Outcomes \cup {"none"}, token: Tokens,
            row: LeaseRecord]
NoSession == [pc |-> "idle", op |-> NoOp, phase |-> "planning", moved |-> FALSE,
              retr |-> FALSE, recon |-> FALSE, out |-> "none", token |-> 0,
              row |-> NoLease]

at(step) == fg.pc = step
goto(step) == fg' = [fg EXCEPT !.pc = step]
ready(phase) == at("ready") /\ fg.phase = phase /\ fg.out = "none"

(* recordSafely: a failed append goes to the emergency spool and leaves    *)
(* the session in need of reconciliation.                                  *)
recordSafely(recon) == \/ recon = fg.recon /\ Smooth
                       \/ recon = TRUE /\ Fault

keepStore == UNCHANGED <<lease, evid>>
keepHost == UNCHANGED host
keepWorld == UNCHANGED <<cash, rec, mt>>

-----------------------------------------------------------------------------
(* start                                                                   *)

Start(o) ==
  /\ at("idle")
  /\ rec.boot = "ready"                           \* the runtime's startup barrier
  /\ lease[o].state = "absent"
  /\ listUnresolved = {}                          \* hasUnresolved
  /\ lock = NoOp                                  \* deviceLocks.acquire
  /\ lock' = o
  /\ fg' = [NoSession EXCEPT !.pc = "create", !.op = o]
  /\ keepStore /\ keepHost /\ keepWorld /\ Smooth /\ UNCHANGED <<dev, held>>

(* recoveryLeases.acquire: a failure releases the device lock.             *)
CreateLease ==
  /\ at("create")
  /\ \/ /\ create(fg.op) /\ Smooth
        /\ fg' = [fg EXCEPT !.pc = "acquire", !.token = lease'[fg.op].token]
        /\ UNCHANGED lock
     \/ /\ Fault /\ fg' = NoSession /\ lock' = NoOp /\ UNCHANGED lease
  /\ UNCHANGED <<evid, dev, held>> /\ keepHost /\ keepWorld

(* commandLeases.acquire: on a failure only the device lock is released,   *)
(* the recovery lease stays; with a lost answer the host lease does too.   *)
AcquireHostLease ==
  /\ at("acquire")
  /\ \/ /\ hostFree /\ hostGrant(fg.op, "transaction", fg.token) /\ Smooth
        /\ goto("before") /\ UNCHANGED lock
     \/ /\ \/ hostFree /\ hostGrant(fg.op, "transaction", fg.token) /\ Fault
           \/ keepHost /\ IF hostFree THEN Fault ELSE Smooth
        /\ fg' = NoSession /\ lock' = NoOp
  /\ keepStore /\ keepWorld /\ UNCHANGED <<dev, held>>

(* observeInventory, recordBeforeMovement, denominate: any failure         *)
(* releases everything as notDispensed.                                    *)
PersistBefore ==
  /\ at("before")
  /\ \/ /\ Smooth
        /\ evid' = [evid EXCEPT ![fg.op] = @ \cup {"before"}]
        /\ fg' = [fg EXCEPT !.pc = "ready", !.phase = "planned"]
     \/ /\ Fault
        /\ \/ evid' = [evid EXCEPT ![fg.op] = @ \cup {"before"}]
           \/ UNCHANGED evid
        /\ fg' = [fg EXCEPT !.pc = "close", !.out = "notDispensed"]
  /\ UNCHANGED <<lease, dev, lock, held>> /\ keepHost /\ keepWorld

-----------------------------------------------------------------------------
(* dispense                                                                *)

(* A command needs the host lease that the session acquired.               *)
authorized == hostHolds(fg.op, "transaction", fg.token)
send(c) == IF authorized THEN issue(c, fg.op, "session") ELSE UNCHANGED dev

\* Mutant: the command goes out even if its intent could not be recorded.
DispenseWithoutIntent ==
  /\ ready("planned")
  /\ \/ Smooth /\ evid' = [evid EXCEPT ![fg.op] = @ \cup {"intent"}]
     \/ Fault /\ UNCHANGED evid
  /\ send("dispense")
  /\ fg' = [fg EXCEPT !.pc = "dispense", !.phase = "dispensing", !.moved = TRUE]
  /\ UNCHANGED <<lease, lock, held>> /\ keepHost /\ keepWorld

(* The intent is durable before the command; when it cannot be recorded    *)
(* dispense throws and nothing has moved.                                  *)
Dispense ==
  /\ ready("planned")
  /\ \/ /\ Smooth
        /\ evid' = [evid EXCEPT ![fg.op] = @ \cup {"intent"}]
        /\ send("dispense")
        /\ fg' = [fg EXCEPT !.pc = "dispense", !.phase = "dispensing", !.moved = TRUE]
     \/ /\ Fault
        /\ fg' = [fg EXCEPT !.phase = "dispensing"]
        /\ UNCHANGED <<evid, dev>>
  /\ UNCHANGED <<lease, lock, held>> /\ keepHost /\ keepWorld

\* Mutant: a dispense whose answer is lost counts as one that failed.
DispenseReturnsTrusting ==
  /\ at("dispense")
  /\ \/ /\ answered("session", "ok") /\ Smooth
        /\ fg' = [fg EXCEPT !.pc = "dispensed", !.phase = "staged"]
     \/ /\ \E r \in {"failed", "error"} : answered("session", r)
        /\ Smooth
        /\ fg' = [fg EXCEPT !.pc = "ready", !.phase = "reconciling", !.moved = FALSE]
  /\ keepStore /\ keepHost /\ keepWorld /\ UNCHANGED <<lock, held>>

DispenseReturns ==
  /\ at("dispense")
  /\ \/ /\ answered("session", "ok")
        /\ \E recon \in BOOLEAN :
             /\ recordSafely(recon)
             /\ fg' = [fg EXCEPT !.pc = "dispensed", !.phase = "staged", !.recon = recon]
     \/ /\ answered("session", "failed")
        /\ \E recon \in BOOLEAN :
             /\ recordSafely(recon)
             /\ fg' = [fg EXCEPT !.pc = "ready", !.phase = "reconciling",
                                 !.moved = FALSE, !.recon = recon]
     \/ /\ answered("session", "error") /\ Smooth
        /\ fg' = [fg EXCEPT !.pc = "ready", !.phase = "reconciling", !.recon = TRUE]
  /\ keepStore /\ keepHost /\ keepWorld /\ UNCHANGED <<lock, held>>

(* updateRecovery: DurableCashRecoveryLeaseAdapter.update re-reads the row *)
(* and patches whatever it finds there, so it conflicts with nobody.       *)
update(o, phase) ==
  compareAndSwap(o, lease[o], [lease[o] EXCEPT !.phase = phase])

UpdateAfter(step, done) ==
  /\ at(step)
  /\ \/ /\ update(fg.op, fg.phase) /\ Smooth /\ goto(done)
     \/ /\ Fault /\ UNCHANGED lease
        /\ fg' = [fg EXCEPT !.pc = "ready", !.phase = "reconciling", !.recon = TRUE]
  /\ UNCHANGED <<evid, dev, lock, held>> /\ keepHost /\ keepWorld

DispensePersisted == UpdateAfter("dispensed", "ready")

-----------------------------------------------------------------------------
(* present and waitForTake                                                 *)

(* present consumes a valid one-use presentation authorization.            *)
Present ==
  /\ ready("staged")
  /\ \E recon \in BOOLEAN :
       /\ recordSafely(recon)
       /\ fg' = [fg EXCEPT !.pc = "present", !.phase = "presenting", !.recon = recon]
  /\ send("present")
  /\ keepStore /\ keepHost /\ keepWorld /\ UNCHANGED <<lock, held>>

PresentReturns ==
  /\ at("present")
  /\ \/ /\ answered("session", "ok")
        /\ \E recon \in BOOLEAN :
             /\ recordSafely(recon)
             /\ fg' = [fg EXCEPT !.pc = "presented", !.phase = "awaitingTake", !.recon = recon]
     \/ /\ \E r \in {"failed", "error"} : answered("session", r)
        /\ Smooth
        /\ fg' = [fg EXCEPT !.pc = "ready", !.phase = "reconciling", !.recon = TRUE]
  /\ keepStore /\ keepHost /\ keepWorld /\ UNCHANGED <<lock, held>>

PresentPersisted == UpdateAfter("presented", "ready")

(* waitForTake sees the output position empty, or the itemsTaken event.    *)
TakeConfirmed ==
  /\ ready("awaitingTake")
  /\ slotEmpty
  /\ \E recon \in BOOLEAN :
       /\ recordSafely(recon)
       /\ fg' = [fg EXCEPT !.pc = "finish", !.out = "taken", !.recon = recon]
  /\ keepStore /\ keepHost /\ keepWorld /\ UNCHANGED <<dev, lock, held>>

-----------------------------------------------------------------------------
(* abort, retract and finish                                               *)

(* retract is dispatched at most once in the life of a session, after its  *)
(* intent is recorded.  The two recordSafely calls, of the trigger and of  *)
(* the intent, are one step here.                                          *)
retract(recon) ==
  IF fg.retr
  THEN /\ fg' = [fg EXCEPT !.pc = "finish", !.out = "custodyUnknown", !.recon = recon]
       /\ UNCHANGED <<dev, evid>>
  ELSE /\ fg' = [fg EXCEPT !.pc = "retract", !.phase = "retracting", !.retr = TRUE,
                           !.recon = recon]
       /\ evid' = [evid EXCEPT ![fg.op] = IF faults' = faults THEN @ \cup {"retractIntent"}
                                                              ELSE @]
       /\ send("retract")

(* waitForTake gives up after takeTimeoutMs.                               *)
TakeTimesOut ==
  /\ ready("awaitingTake")
  /\ \E recon \in BOOLEAN : recordSafely(recon) /\ retract(recon)
  /\ UNCHANGED <<lease, lock, held>> /\ keepHost /\ keepWorld

(* abort; exit calls it too as long as no movement is possible.            *)
Abort ==
  /\ at("ready") /\ fg.out = "none"
  /\ \/ /\ fg.moved
        /\ \E recon \in BOOLEAN : recordSafely(recon) /\ retract(recon)
     \/ /\ ~fg.moved
        /\ Smooth
        /\ fg' = [fg EXCEPT !.pc = "finish", !.out = "notDispensed"]
        /\ UNCHANGED <<dev, evid>>
     \/ /\ ~fg.moved                               \* record throws
        /\ Fault
        /\ \E step \in {"ready", "left"} : goto(step)
        /\ UNCHANGED <<dev, evid>>
  /\ UNCHANGED <<lease, lock, held>> /\ keepHost /\ keepWorld

RetractReturns ==
  /\ at("retract")
  /\ \/ /\ answered("session", "ok")
        /\ \E recon \in BOOLEAN :
             /\ recordSafely(recon)
             /\ fg' = [fg EXCEPT !.pc = "finish", !.out = "retracted", !.recon = recon]
     \/ /\ \E r \in {"failed", "error"} : answered("session", r)
        /\ Smooth
        /\ fg' = [fg EXCEPT !.pc = "finish", !.out = "custodyUnknown", !.recon = TRUE]
  /\ keepStore /\ keepHost /\ keepWorld /\ UNCHANGED <<lock, held>>

\* Mutant: a missing terminal record goes unreported.
FinishUnreported ==
  /\ at("finish")
  /\ \/ Smooth /\ evid' = [evid EXCEPT ![fg.op] = @ \cup {"after", "terminal"}]
     \/ Fault /\ evid' = [evid EXCEPT ![fg.op] = @ \cup {"after"}]
  /\ fg' = [fg EXCEPT !.pc = "close", !.phase = "terminal"]
  /\ UNCHANGED <<lease, dev, lock, held>> /\ keepHost /\ keepWorld

(* finish: the after snapshot, then the terminal evidence; either or both  *)
(* may fail, and the session goes on.                                      *)
Finish ==
  /\ at("finish")
  /\ \/ /\ Smooth
        /\ evid' = [evid EXCEPT ![fg.op] = @ \cup {"after", "terminal"}]
        /\ fg' = [fg EXCEPT !.pc = "close", !.phase = "terminal"]
     \/ /\ Fault
        /\ \E kept \in {{}, {"after"}, {"terminal"}} : evid' = [evid EXCEPT ![fg.op] = @ \cup kept]
        /\ fg' = [fg EXCEPT !.pc = "close", !.phase = "terminal", !.recon = TRUE]
  /\ UNCHANGED <<lease, dev, lock, held>> /\ keepHost /\ keepWorld

(* releaseCashProtection.  close, like update, patches the row it finds.   *)
CloseLease ==
  /\ at("close")
  /\ \/ /\ Smooth
        /\ compareAndSwap(fg.op, lease[fg.op],
             [lease[fg.op] EXCEPT !.state = "closed", !.outcome = fg.out])
        /\ goto("release")
     \/ /\ Fault /\ UNCHANGED lease
        /\ fg' = [fg EXCEPT !.pc = "unlock", !.recon = TRUE]
  /\ UNCHANGED <<evid, dev, lock, held>> /\ keepHost /\ keepWorld

(* transition to recovery with the next token, then release; a failure of  *)
(* either is reported, and the transition may have happened.               *)
ReleaseHostLease ==
  /\ at("release")
  /\ \/ /\ authorized /\ Smooth
        /\ host' = NoHostLease
        /\ goto("unlock")
     \/ /\ IF authorized
           THEN /\ Fault
                /\ \/ hostGrant(fg.op, "recovery", fg.token + 1)
                   \/ UNCHANGED host
           ELSE Smooth /\ UNCHANGED host
        /\ fg' = [fg EXCEPT !.pc = "unlock", !.recon = TRUE]
  /\ UNCHANGED <<lease, evid, dev, lock, held>> /\ keepWorld

(* protectionStatus and acknowledgeProtection, then the device lock.  A    *)
(* start that failed has no session to return.                             *)
ReleaseLock ==
  /\ at("unlock")
  /\ \E recon \in BOOLEAN :
       /\ recordSafely(recon)
       /\ fg' = [fg EXCEPT !.pc = "left", !.recon = recon]
  /\ lock' = IF lock = fg.op THEN NoOp ELSE lock
  /\ UNCHANGED <<lease, evid, dev, held>> /\ keepHost /\ keepWorld

-----------------------------------------------------------------------------
(* exit: hand the operation over to recovery.  The orchestrator calls      *)
(* nothing after a failed exit.                                            *)
Exit ==
  /\ at("ready") /\ fg.out = "none" /\ fg.moved
  /\ \/ /\ \E recon \in BOOLEAN :
             /\ recordSafely(recon)
             /\ fg' = [fg EXCEPT !.pc = "transfer", !.recon = recon]
        /\ update(fg.op, fg.phase)
     \/ Fault /\ goto("left") /\ UNCHANGED lease
  /\ UNCHANGED <<evid, dev, lock, held>> /\ keepHost /\ keepWorld

(* The caller drops the session: it is terminal, or its transfer failed.   *)
Leave ==
  /\ at("left")
  /\ fg' = NoSession
  /\ keepStore /\ keepHost /\ keepWorld /\ Smooth /\ UNCHANGED <<dev, lock, held>>
=============================================================================
