------------------------ MODULE ServiceAvailability ------------------------
(***************************************************************************)
(* ServiceAvailabilityCoordinator (kiosk-runtime): gates decide whether the *)
(* kiosk serves customers, operations hold leases, a suspension requested   *)
(* while operations run is pending until the last lease is released, and a  *)
(* closed gate is retried on a timer.  Reasons are abstracted to their      *)
(* origin: a gate or a requested suspension.                                *)
(***************************************************************************)
EXTENDS Naturals

CONSTANTS
  GateCount,       \* number of gates, evaluated in order
  MaxLeases,       \* bound: leases held at a time
  MaxSuspensions,  \* bound: suspensions requested
  MaxEvaluations   \* bound: gate evaluations

ASSUME AvailabilityAssumption == GateCount \in Nat /\ MaxLeases \in Nat

VARIABLES
  status,      \* the published status
  activeOperations,      \* activeOperationCount
  shown,       \* activeOperationCount of the published snapshot
  pendingWhy,  \* pendingReason: none or suspension
  gate,        \* gate being evaluated, 0 when no evaluation is under way
  timer,       \* a retry is scheduled
  begun,       \* initialize() was called
  over,        \* disposed
  unaudited,   \* history: the audit log refused the record of the last closed gate
  asked,       \* history: a suspension is asked for that no evaluation ended (see Asked)
  suspensions, evaluations

availVars == <<status, activeOperations, shown, pendingWhy, gate, timer, begun, over, unaudited, asked,
               suspensions, evaluations>>

\* The last request was made before an evaluation or during one, whose open gates
\* are older answers than the request; or such an evaluation has dropped it.
Asked == {"no", "before", "during", "overtaken"}
Statuses == {"starting", "available", "suspensionPending", "outOfService"}

AvailInit ==
  /\ status = "starting" /\ activeOperations = 0 /\ shown = 0 /\ pendingWhy = "none"
  /\ gate = 0 /\ timer = FALSE /\ begun = FALSE /\ over = FALSE /\ unaudited = FALSE
  /\ asked = "no"
  /\ suspensions = 0 /\ evaluations = 0

\* publish(): the snapshot carries the status and the operation count.
Publish(s, n) == status' = s /\ activeOperations' = n /\ shown' = n

\* evaluateGates(): one evaluation at a time, shared by its callers.
StartEvaluation ==
  /\ ~over /\ gate = 0 /\ evaluations < MaxEvaluations
  /\ gate' = 1 /\ evaluations' = evaluations + 1

\* initialize()
Initialize ==
  /\ ~begun /\ begun' = TRUE /\ StartEvaluation
  /\ UNCHANGED <<status, activeOperations, shown, pendingWhy, timer, over, unaudited, asked, suspensions>>

\* retryNow(): from the timer or from the operator; the timer is cleared.
RetryNow ==
  /\ begun /\ timer' = FALSE
  /\ IF gate = 0 THEN StartEvaluation ELSE UNCHANGED <<gate, evaluations>>
  /\ UNCHANGED <<status, activeOperations, shown, pendingWhy, begun, over, unaudited, asked, suspensions>>

\* A gate answers no or throws: out of service at once, also while operations
\* run; the evaluation ends.
Closes ==
  /\ gate # 0 /\ gate <= GateCount
  /\ Publish("outOfService", activeOperations) /\ gate' = 0
  /\ asked' = IF asked = "during" THEN "before" ELSE asked
  /\ UNCHANGED <<pendingWhy, begun, over, suspensions, evaluations>>

\* Mutant: a closed gate does not schedule the retry.
GateClosedForGood == Closes /\ unaudited' = FALSE /\ UNCHANGED timer

\* enterOutOfService() audits the closed gate and a retry is scheduled, ...
GateClosed == Closes /\ unaudited' = FALSE /\ timer' = ~over

\* ... or the audit log refuses the record, and the evaluation rejects before
\* scheduleRetry().
GateClosedUnaudited == Closes /\ unaudited' = TRUE /\ UNCHANGED timer

\* A gate answers yes.
GateOpen ==
  /\ gate # 0 /\ gate <= GateCount /\ gate' = gate + 1
  /\ UNCHANGED <<status, activeOperations, shown, pendingWhy, timer, begun, over, unaudited, asked,
                 suspensions, evaluations>>

\* All gates open: the pending suspension is dropped and the kiosk available,
\* also when the suspension was asked for while the gates were answering.
AllGatesOpen ==
  /\ gate = GateCount + 1
  /\ Publish("available", activeOperations) /\ pendingWhy' = "none" /\ gate' = 0
  /\ asked' = IF asked = "during" THEN "overtaken" ELSE "no"
  /\ unaudited' = FALSE
  /\ UNCHANGED <<timer, begun, over, suspensions, evaluations>>

\* beginOperation(): only while available.
BeginOperation ==
  /\ status = "available" /\ activeOperations < MaxLeases
  /\ Publish("available", activeOperations + 1)
  /\ UNCHANGED <<pendingWhy, gate, timer, begun, over, unaudited, asked, suspensions, evaluations>>

\* Mutant: the last release does not look at the pending suspension.
ReleaseOperationForgetful ==
  /\ activeOperations > 0 /\ Publish(status, activeOperations - 1)
  /\ UNCHANGED <<pendingWhy, gate, timer, begun, over, unaudited, asked, suspensions, evaluations>>

\* releaseOperation(): a lease is released once; the last one carries out the
\* pending suspension.
ReleaseOperation ==
  /\ activeOperations > 0
  /\ IF activeOperations = 1 /\ pendingWhy # "none"
     THEN pendingWhy' = "none" /\ Publish("outOfService", 0)
     ELSE UNCHANGED pendingWhy /\ Publish(status, activeOperations - 1)
  /\ UNCHANGED <<gate, timer, begun, over, unaudited, asked, suspensions, evaluations>>

\* requestSuspension(): pending while operations run, at once otherwise.
RequestSuspension ==
  /\ begun /\ suspensions < MaxSuspensions /\ suspensions' = suspensions + 1
  /\ asked' = IF gate # 0 THEN "during" ELSE "before"
  /\ IF activeOperations > 0 THEN pendingWhy' = "suspension" /\ Publish("suspensionPending", activeOperations)
     ELSE UNCHANGED pendingWhy /\ Publish("outOfService", activeOperations)
  /\ UNCHANGED <<gate, timer, begun, over, unaudited, evaluations>>

\* dispose(): the timer is cleared, an evaluation under way runs to its end.
DisposeAvailability ==
  /\ ~over /\ begun /\ over' = TRUE /\ timer' = FALSE
  /\ UNCHANGED <<status, activeOperations, shown, pendingWhy, gate, begun, unaudited, asked, suspensions, evaluations>>

AvailNext ==
  \/ Initialize \/ RetryNow \/ GateClosed \/ GateClosedUnaudited \/ GateOpen \/ AllGatesOpen
  \/ BeginOperation \/ ReleaseOperation \/ RequestSuspension \/ DisposeAvailability

\* Operations end; gates answer.
AvailFairness ==
  /\ WF_availVars(ReleaseOperation) /\ WF_availVars(GateClosed \/ GateClosedUnaudited \/ GateOpen)
  /\ WF_availVars(AllGatesOpen)

AvailSpec == AvailInit /\ [][AvailNext]_availVars /\ AvailFairness

-----------------------------------------------------------------------------
(* Properties *)

\* Status, counters, history and the published count have their values.
AvailTypeOK ==
  /\ status \in Statuses /\ activeOperations \in 0..MaxLeases /\ shown = activeOperations
  /\ pendingWhy \in {"none", "suspension"} /\ gate \in 0..GateCount + 1 /\ asked \in Asked

\* requestSuspension, releaseOperation: a suspension stays pending only while
\* an operation runs, and is carried out by the last release.
PendingOnlyWhileActive ==
  (status = "suspensionPending" \/ pendingWhy # "none") => activeOperations > 0

\* requestSuspension, runGateEvaluation: a suspension stands, through releases,
\* closed gates and retries, until an evaluation that began after it finds all
\* gates open.  The exception is "overtaken": an evaluation under way when it was
\* asked for ends available and drops it (service-availability.ts:190).
SuspensionStands ==
  asked \in {"before", "during"} => status \in {"suspensionPending", "outOfService"}

\* runGateEvaluation: after a closed gate the kiosk is never left without a
\* way back: a retry is scheduled or an evaluation is under way, or it was
\* suspended or disposed.  The exception is a closed gate whose record the audit
\* log refused: nothing but retryNow() follows (service-availability.ts:185-186).
ClosedGateIsRetried ==
  (status = "outOfService" /\ asked \in {"no", "overtaken"} /\ ~over /\ ~unaudited) =>
    (timer \/ gate # 0 \/ evaluations = MaxEvaluations)

\* A requested suspension takes effect: it is not pending forever.
SuspensionTakesEffect == <>[](status # "suspensionPending")

\* ServiceAvailabilityCoordinator: neither a suspension nor a closed gate is
\* forgotten by whatever is evaluated, released or published meanwhile, but for
\* the suspension an older evaluation overtakes and the gate that was not audited.
SuspensionIsHonoured ==
  AvailTypeOK /\ PendingOnlyWhileActive /\ SuspensionStands /\ ClosedGateIsRetried
=============================================================================
