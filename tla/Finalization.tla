---------------------------- MODULE Finalization ----------------------------
(***************************************************************************)
(* Durable operation finalization: OperationFinalizationRunner, its store  *)
(* and recovery registry, and the TransactionStartupCoordinator that       *)
(* resumes what a lost process left incomplete before it lets transactions *)
(* run (packages/kiosk-runtime).                                           *)
(*                                                                         *)
(* A finalizer is named by its position in the frozen plan.  The runner    *)
(* keeps its own copy of the record between awaits.  The store is reached   *)
(* over native calls: a save that rejects may have written the row or not.  *)
(***************************************************************************)
EXTENDS Integers, FiniteSets

CONSTANTS
  Ops,          \* operation ids
  NoOp,         \* no operation
  Versions,     \* plan versions (planVersion) a build may register
  NoPlan,       \* no plan version
  MaxPlan,      \* length of the longest plan
  Length,       \* number of finalizers of each plan version
  Recoverable,  \* plan versions for which a build registers a recovery runner
  MaxAttempts,  \* how often one finalizer may be attempted
  MaxCrashes    \* how often the process may be lost

ASSUME OpsAssumption == NoOp \notin Ops
ASSUME PlanAssumption ==
  /\ NoPlan \notin Versions
  /\ MaxPlan \in Nat \ {0}
  /\ Length \in [Versions -> 1..MaxPlan]
  /\ Recoverable \in [Versions -> SUBSET Versions]
  /\ \A v \in Versions : v \in Recoverable[v]
ASSUME BoundAssumption == MaxAttempts \in Nat /\ MaxCrashes \in Nat

VARIABLES
  installed,  \* planVersion of the running build
  store,      \* kiosk_operation_finalization, one row per operation
  run,        \* the runner call in progress for each operation
  boot,       \* TransactionStartupCoordinator
  calls,      \* how often each finalizer was really called
  effects,    \* finalizers whose call returned, so that their work is done
  crashes     \* process losses so far

vars == <<installed, store, run, boot, calls, effects, crashes>>

StepStatuses == {"pending", "running", "completed", "failed"}
Positions == 1..MaxPlan
Records == [plan: Versions, status: StepStatuses, context: BOOLEAN,
            steps: [Positions -> StepStatuses], attempts: [Positions -> Nat]]

fresh(v) == [plan |-> v, status |-> "pending", context |-> FALSE,
             steps |-> [i \in Positions |-> "pending"],
             attempts |-> [i \in Positions |-> 0]]
NoRecord == fresh(NoPlan)
newRecord == fresh(installed)

Saves == {"context", "start", "mark", "complete", "fail", "failSeal", "seal"}
Idle == [pc |-> "idle", rec |-> NoRecord, at |-> 0]

(***************************************************************************)
(* OperationFinalizationRunner.                                            *)
(***************************************************************************)
step(r, i, s) == [r EXCEPT !.steps[i] = s]
mark(r, i) == [step(r, i, "running") EXCEPT !.attempts = [r.attempts EXCEPT ![i] = r.attempts[i] + 1]]

\* Only the first Length[r.plan] positions of a record are steps of its plan.
planned(r) == 1..Length[r.plan]
incompleteSteps(r) == {i \in planned(r) : r.steps[i] # "completed"}

\* The loop over the plan: the first step that is not completed, or the end.
advance(r) ==
  IF incompleteSteps(r) = {}
  THEN [pc |-> "seal", rec |-> r, at |-> 0]
  ELSE [pc |-> "mark", rec |-> r,
        at |-> CHOOSE i \in incompleteSteps(r) : \A j \in incompleteSteps(r) : i <= j]

\* The row that the save at the runner's current await would write.
toSave(o) ==
  LET r == run[o].rec
      i == run[o].at
  IN CASE run[o].pc = "context"  -> [r EXCEPT !.context = TRUE]
       [] run[o].pc = "start"    -> [r EXCEPT !.status = "running"]
       [] run[o].pc = "mark"     -> mark(r, i)
       [] run[o].pc = "complete" -> step(r, i, "completed")
       [] run[o].pc = "fail"     -> step(r, i, "failed")
       [] run[o].pc = "failSeal" -> [r EXCEPT !.status = "failed"]
       [] run[o].pc = "seal"     -> [r EXCEPT !.status = "completed"]

\* Where the runner continues once the row is written.
afterSave(o) ==
  LET r == toSave(o)
      i == run[o].at
  IN CASE run[o].pc = "context"  -> [pc |-> "start", rec |-> r, at |-> 0]
       [] run[o].pc \in {"start", "complete"} -> advance(r)
       [] run[o].pc = "mark"     -> [pc |-> "execute", rec |-> r, at |-> i]
       [] run[o].pc = "fail"     -> [pc |-> "failSeal", rec |-> r, at |-> i]
       [] run[o].pc = "failSeal" -> [pc |-> "rejected", rec |-> r, at |-> 0]
       [] run[o].pc = "seal"     -> [pc |-> "resolved", rec |-> r, at |-> 0]

Writes(o) ==
  /\ run[o].pc = "mark" => run[o].rec.attempts[run[o].at] < MaxAttempts
  /\ store' = [store EXCEPT ![o] = toSave(o)]

Save(o) ==
  /\ run[o].pc \in Saves /\ Writes(o)
  /\ run' = [run EXCEPT ![o] = afterSave(o)]
  /\ UNCHANGED <<installed, boot, calls, effects, crashes>>

(* A save that rejects, durable or not, rejects the call, except after a    *)
(* successful finalizer: that save is inside the try block, and the catch   *)
(* block records the step as failed.                                        *)
SaveFails(o) ==
  /\ run[o].pc \in Saves
  /\ Writes(o) \/ UNCHANGED store
  /\ run' = [run EXCEPT ![o].pc = IF @ = "complete" THEN "fail" ELSE "rejected"]
  /\ UNCHANGED <<installed, boot, calls, effects, crashes>>

\* Mutant: a finalizer that throws counts as one that returned.
ExecuteFinalizerSwallowing(o) ==
  /\ run[o].pc = "execute"
  /\ calls' = [calls EXCEPT ![o][run[o].at] = @ + 1]
  /\ \/ effects' = [effects EXCEPT ![o] = @ \cup {run[o].at}]
     \/ UNCHANGED effects
  /\ run' = [run EXCEPT ![o].pc = "complete"]
  /\ UNCHANGED <<installed, store, boot, crashes>>

ExecuteFinalizer(o) ==
  /\ run[o].pc = "execute"
  /\ calls' = [calls EXCEPT ![o][run[o].at] = @ + 1]
  /\ \/ /\ effects' = [effects EXCEPT ![o] = @ \cup {run[o].at}]
        /\ run' = [run EXCEPT ![o].pc = "complete"]
     \/ /\ run' = [run EXCEPT ![o].pc = "fail"]
        /\ UNCHANGED effects
  /\ UNCHANGED <<installed, store, boot, crashes>>

running(o) == run[o].pc \in Saves \cup {"execute"}
\* Mutant: run ignores the stored record.
recordOfAnew(o) == newRecord
recordOf(o) == IF store[o].plan = NoPlan THEN newRecord ELSE store[o]

(* run(context), called when an admitted operation has its outcome; the    *)
(* caller may call it again for the same operation.  The composition       *)
(* configures a context projector.                                         *)
Run(o) ==
  /\ boot.status = "ready"
  /\ ~running(o)
  /\ run' = [run EXCEPT ![o] =
       IF recordOf(o).plan # installed
       THEN [pc |-> "rejected", rec |-> NoRecord, at |-> 0]
       ELSE [pc |-> IF recordOf(o).context THEN "start" ELSE "context",
             rec |-> recordOf(o), at |-> 0]]
  /\ UNCHANGED <<installed, store, boot, calls, effects, crashes>>

(***************************************************************************)
(* TransactionStartupCoordinator and OperationFinalizationRecoveryRegistry.*)
(***************************************************************************)
listIncomplete == {o \in Ops : store[o].plan # NoPlan /\ store[o].status # "completed"}

bootTo(status) == boot' = [status |-> status, queue |-> {}, current |-> NoOp]

Initialize ==
  /\ boot.status = "idle"
  /\ bootTo("migrating")
  /\ UNCHANGED <<installed, store, run, calls, effects, crashes>>

Migrate ==
  /\ boot.status = "migrating"
  /\ bootTo("recovering") \/ bootTo("failed")
  /\ UNCHANGED <<installed, store, run, calls, effects, crashes>>

\* protection.recover() and, when it is ready, listIncomplete().
RecoverProtection ==
  /\ boot.status = "recovering"
  /\ \/ boot' = [status |-> "finalizing", queue |-> listIncomplete, current |-> NoOp]
     \/ bootTo("intervention")
     \/ bootTo("failed")
  /\ UNCHANGED <<installed, store, run, calls, effects, crashes>>

(* The next listed record: intervention when no runner has its plan or its *)
(* context was never saved, otherwise the runner executes it.              *)
ResumeNext(o) ==
  /\ boot.status = "finalizing" /\ boot.current = NoOp /\ o \in boot.queue
  /\ IF store[o].plan \in Recoverable[installed] /\ store[o].context
     THEN /\ boot' = [boot EXCEPT !.queue = @ \ {o}, !.current = o]
          /\ run' = [run EXCEPT ![o] = [pc |-> "start", rec |-> store[o], at |-> 0]]
     ELSE bootTo("intervention") /\ UNCHANGED run
  /\ UNCHANGED <<installed, store, calls, effects, crashes>>

\* Mutant: a record that failed to resume is passed over.
ResumeReturnsRegardless ==
  /\ boot.status = "finalizing" /\ boot.current # NoOp
  /\ run[boot.current].pc \in {"resolved", "rejected"}
  /\ boot' = [boot EXCEPT !.current = NoOp]
  /\ UNCHANGED <<installed, store, run, calls, effects, crashes>>

\* Mutant: startup waits for a resolved record only.
ResumeReturnsResolved ==
  /\ boot.status = "finalizing" /\ boot.current # NoOp
  /\ run[boot.current].pc = "resolved"
  /\ boot' = [boot EXCEPT !.current = NoOp]
  /\ UNCHANGED <<installed, store, run, calls, effects, crashes>>

ResumeReturns ==
  /\ boot.status = "finalizing" /\ boot.current # NoOp
  /\ \/ /\ run[boot.current].pc = "resolved"
        /\ boot' = [boot EXCEPT !.current = NoOp]
     \/ /\ run[boot.current].pc = "rejected"
        /\ bootTo("intervention")
  /\ UNCHANGED <<installed, store, run, calls, effects, crashes>>

BecomeReady ==
  /\ boot.status = "finalizing" /\ boot.current = NoOp /\ boot.queue = {}
  /\ bootTo("ready")
  /\ UNCHANGED <<installed, store, run, calls, effects, crashes>>

(* The process is lost; the next one may be a build with another plan.     *)
Crash ==
  /\ boot.status # "idle" /\ crashes < MaxCrashes
  /\ crashes' = crashes + 1
  /\ installed' \in Versions
  /\ run' = [o \in Ops |-> Idle]
  /\ bootTo("idle")
  /\ UNCHANGED <<store, calls, effects>>

Init ==
  /\ installed \in Versions
  /\ store = [o \in Ops |-> NoRecord]
  /\ run = [o \in Ops |-> Idle]
  /\ boot = [status |-> "idle", queue |-> {}, current |-> NoOp]
  /\ calls = [o \in Ops |-> [i \in Positions |-> 0]]
  /\ effects = [o \in Ops |-> {}]
  /\ crashes = 0

Runner(o) == Save(o) \/ SaveFails(o) \/ ExecuteFinalizer(o)
Boot ==
  \/ Initialize \/ Migrate \/ RecoverProtection \/ ResumeReturns \/ BecomeReady
  \/ \E o \in Ops : ResumeNext(o)

Next ==
  \/ \E o \in Ops : Runner(o) \/ Run(o)
  \/ Boot
  \/ Crash

Spec == Init /\ [][Next]_vars

(* The coordinator and the runner await ports that settle, so a started    *)
(* call is not left for ever; nobody has to start a process or lose one.   *)
Fairness == WF_vars(Boot) /\ \A o \in Ops : WF_vars(Runner(o))
LiveSpec == Spec /\ Fairness
-----------------------------------------------------------------------------
RunnerOK == run \in [Ops -> [pc: Saves \cup {"idle", "execute", "resolved", "rejected"},
                             rec: Records \cup {NoRecord}, at: 0..MaxPlan]]
BootOK == boot \in [status: {"idle", "migrating", "recovering", "finalizing", "ready",
                             "intervention", "failed"},
                    queue: SUBSET Ops, current: Ops \cup {NoOp}]

\* Every part of the state has its type.
TypeOK ==
  /\ installed \in Versions
  /\ store \in [Ops -> Records \cup {NoRecord}]
  /\ RunnerOK
  /\ BootOK
  /\ calls \in [Ops -> [Positions -> Nat]]
  /\ effects \in [Ops -> SUBSET Positions]
  /\ crashes \in Nat

(* A finalizer is never called before every finalizer ahead of it in the   *)
(* plan has done its work: neither a failing finalizer, nor a refused      *)
(* save, nor a restart in the middle lets the host completion message go   *)
(* out while local cleanup is outstanding (#execute stops at the first     *)
(* failure and resume starts again at the first incomplete step).          *)
PlanOrder ==
  \A o \in Ops : \A i, j \in Positions : j < i /\ calls[o][i] > 0 => j \in effects[o]

(* A record closed as completed stands for work done: each finalizer of    *)
(* its frozen plan was called and returned, whatever failed in between.    *)
ClosedIsDone ==
  \A o \in Ops : store[o].plan # NoPlan /\ store[o].status = "completed" =>
    planned(store[o]) \subseteq effects[o]

(* The attempts counter on disk never falls behind the calls that were     *)
(* made, since it is saved before each call: after a restart the operator  *)
(* sees every attempt, the one that was cut off included.                  *)
AttemptsCoverCalls ==
  \A o \in Ops : \A i \in Positions : calls[o][i] <= store[o].attempts[i]

(* The exception: the save of this completion rejected, and the catch block *)
(* is about to record the step as failed.                                   *)
CompletionRefused(o, i) == run[o].pc = "fail" /\ run[o].at = i

(* What the store records as completed is never run again and never taken   *)
(* back, not by a later failure, a repeated run(), a crash or a recovery    *)
(* (resumed work skips completed steps): only the runner whose own save of  *)
(* the completion rejected may overwrite it.                                *)
RecordedStepsStay ==
  [][\A o \in Ops : \A i \in Positions :
       store[o].steps[i] = "completed" /\ ~CompletionRefused(o, i) =>
         store'[o].steps[i] = "completed" /\ calls'[o][i] = calls[o][i]]_vars

(* Transactions are admitted only when no record is left incomplete: a     *)
(* plan nobody can run, a lost context or a failing finalizer keeps the    *)
(* coordinator out of ready.                                               *)
ReadyIsClean ==
  [][boot.status # "ready" /\ boot'.status = "ready" => listIncomplete = {}]_vars

(* A startup that has begun ends in ready, intervention or failed, or its  *)
(* process is lost.                                                        *)
StartupSettles ==
  boot.status # "idle" ~> boot.status \in {"idle", "ready", "intervention", "failed"}

(* The record is a true account of the work: finalizers ran in the order   *)
(* of the plan, what is closed is done, and every call was counted.        *)
WorkIsAccountedFor == PlanOrder /\ ClosedIsDone /\ AttemptsCoverCalls
=============================================================================
