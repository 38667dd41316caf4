------------------------------- MODULE Deposit -------------------------------
(***************************************************************************)
(* DepositOrchestrator and DepositWorkflow (deposit-orchestration) over a   *)
(* CashAcceptanceSession: inventory, batches with review, refused notes,    *)
(* host authorization, physical commit, and the abort that returns the      *)
(* escrow; then the finalizers.  The process may crash at any await;        *)
(* recovery then looks at the record.                                       *)
(***************************************************************************)
EXTENDS CashAcceptance

CONSTANTS
  HostCompletes,   \* hostProtocol.mode is authorization-then-completion
  MaxCrashes       \* bound: crashes of the process (0 or 1)

VARIABLES
  dpc,        \* where the workflow is
  batch,      \* batchNumber
  escrow,     \* state.escrow: [notes, refused]
  depositHost,       \* state.host.status
  phys,       \* state.physical: [commit, committed, recon]
  portions,   \* custodies of state.portions
  after,      \* after-inventory: "open", "captured", "failed"
  wanted,     \* the status the workflow asks for
  status,     \* status of the outcome
  tx,         \* status of the stored transaction
  completion, \* Host Financial Completion was sent
  crashes

depositVars == <<dpc, batch, escrow, depositHost, phys, portions, after, wanted, status, tx,
                 completion, crashes>>

Statuses == {"none", "completed", "cancelled", "timedOut", "declined", "failed", "intervention"}
Idle == call.m = "idle"

DepositAt(pc) ==
  /\ AcceptInit
  /\ dpc = pc /\ batch = 0 /\ escrow = [notes |-> 0, refused |-> 0]
  /\ depositHost = "not-requested"
  /\ phys = [commit |-> "not-requested", committed |-> FALSE, recon |-> FALSE]
  /\ portions = {} /\ after = "open" /\ wanted = "none" /\ status = "none"
  /\ tx = "none" /\ completion = FALSE /\ crashes = 0
DepositInit == DepositAt("barrier")

\* The workflow calls a method of the session and waits for its answer.
Entry(m) == [NoCall EXCEPT !.m = m, !.at = "entry"]
Call(m, next) == call' = Entry(m) /\ dpc' = next
                 /\ UNCHANGED <<mem, cimRecord, snap, cim, cimLease, ret, aborted, commitSent, waited, auth, cimFaults>>
\* Abort the session, capture the inventory and end with the status s.
AbortFor(s) == Call("abort", "aborting") /\ wanted' = s
\* Capture the inventory and end with the status s.
EndWith(s) == dpc' = "capturing" /\ wanted' = s /\ UNCHANGED acceptVars

-----------------------------------------------------------------------------
(* Admission, inventory, start *)

\* execute(): a recovery that is not ready ends before anything is started.
Admission ==
  /\ dpc = "barrier"
  /\ \/ dpc' = "before" /\ tx' = "created" /\ UNCHANGED <<status, acceptVars>>
     \/ dpc' = "done" /\ status' = "intervention" /\ UNCHANGED <<tx, acceptVars>>
  /\ UNCHANGED <<batch, escrow, depositHost, phys, portions, after, wanted, completion, crashes>>

\* captureBefore(), the signal, and cash.start().
CaptureBefore ==
  /\ dpc = "before"
  /\ \/ CimFault /\ dpc' = "finalizing" /\ status' = "failed"
        /\ UNCHANGED <<wanted, mem, cimRecord, snap, cim, cimLease, call, ret, aborted, commitSent, waited, auth>>
     \/ aborted /\ UNCHANGED status /\ \E s \in {"cancelled", "timedOut"} : EndWith(s)
     \/ ~aborted /\ Call("start", "starting") /\ UNCHANGED <<status, wanted>>
  /\ UNCHANGED <<batch, escrow, depositHost, phys, portions, after, tx, completion, crashes>>

Started ==
  /\ dpc = "starting" /\ Idle
  /\ IF ret.ok THEN dpc' = "batch" /\ batch' = 1 /\ UNCHANGED <<wanted, acceptVars>>
     ELSE EndWith("failed") /\ UNCHANGED batch
  /\ UNCHANGED <<escrow, depositHost, phys, portions, after, status, tx, completion, crashes>>

-----------------------------------------------------------------------------
(* Batches and their review *)

\* collectAndReview(): the signal is looked at before every batch.
NextBatch ==
  /\ dpc = "batch"
  /\ IF aborted THEN \E s \in {"cancelled", "timedOut"} : AbortFor(s)
     ELSE Call("accept", "accepted") /\ UNCHANGED wanted
  /\ UNCHANGED <<batch, escrow, depositHost, phys, portions, after, status, tx, completion, crashes>>

\* observeEscrow(): notes refused by this batch.
NewRefused == IF snap.refused > escrow.refused THEN snap.refused - escrow.refused ELSE 0

\* persistEscrowAndResolveRefused(): the transaction is marked; new refused
\* notes are resolved before the review.
Accepted ==
  /\ dpc = "accepted" /\ Idle
  /\ \/ /\ ~ret.ok /\ AbortFor("failed") /\ UNCHANGED <<escrow, tx>>
     \/ /\ ret.ok /\ escrow' = snap /\ tx' = "started" /\ UNCHANGED wanted
        /\ IF NewRefused = 0 THEN dpc' = "review" /\ UNCHANGED acceptVars
           ELSE Call("refused", "refused")
     \/ /\ ret.ok /\ CimFault /\ escrow' = snap /\ UNCHANGED tx
        /\ dpc' = "aborting" /\ wanted' = "intervention"
        /\ call' = Entry("abort")
        /\ UNCHANGED <<mem, cimRecord, snap, cim, cimLease, ret, aborted, commitSent, waited, auth>>
  /\ UNCHANGED <<batch, depositHost, phys, portions, after, status, completion, crashes>>

\* recordRefusedResolution(): only taken or retracted notes let it go on.
RefusedResolved ==
  /\ dpc = "refused" /\ Idle
  /\ LET custody == IF ret.ok THEN ret.custody ELSE "unknown"
     IN /\ portions' = portions \cup {custody}
        /\ IF custody \in {"customer", "retract-unit"}
           THEN dpc' = "review" /\ UNCHANGED <<wanted, acceptVars>>
           ELSE AbortFor("intervention")
  /\ UNCHANGED <<batch, escrow, depositHost, phys, after, status, tx, completion, crashes>>

\* evaluateReview() and reviewFailure(): another batch while the limit allows.
Review ==
  /\ dpc = "review"
  /\ \/ Call("authorize", "authorizing") /\ UNCHANGED <<batch, wanted>>
     \/ /\ batch < MaxBatches /\ batch' = batch + 1 /\ dpc' = "batch"
        /\ UNCHANGED <<wanted, acceptVars>>
     \/ /\ UNCHANGED batch
        /\ \E s \in {"cancelled", "timedOut", "failed", "intervention"} : AbortFor(s)
  /\ UNCHANGED <<escrow, depositHost, phys, portions, after, status, tx, completion, crashes>>

-----------------------------------------------------------------------------
(* Authorization and commit *)

\* authorizeHost(): the host approves or declines a revision, or is not
\* reached, while the session is authorizing.
HostAnswers ==
  /\ dpc = "authorizing" /\ At("authorize", "host")
  /\ \/ \E ok \in BOOLEAN, r \in {mem.rev, mem.rev - 1} :
          /\ depositHost' = IF ok THEN "approved" ELSE "declined"
          /\ AuthorizeAnswer([rev |-> r, approved |-> ok])
     \/ /\ depositHost' = "unavailable" /\ Return(Error)
        /\ UNCHANGED <<mem, cimRecord, snap, cim, cimLease, aborted, commitSent, waited, auth, cimFaults>>
  /\ UNCHANGED <<dpc, batch, escrow, phys, portions, after, wanted, status, tx, completion, crashes>>

\* markAuthorized, the audit record and commit().
Authorized ==
  /\ dpc = "authorizing" /\ Idle
  /\ \/ /\ ret.ok /\ tx' = "authorized" /\ phys' = [phys EXCEPT !.commit = "dispatched"]
        /\ Call("commit", "committing") /\ UNCHANGED wanted
     \/ /\ ret.ok /\ CimFault /\ UNCHANGED <<tx, phys>>
        /\ dpc' = "aborting" /\ wanted' = "intervention"
        /\ call' = Entry("abort")
        /\ UNCHANGED <<mem, cimRecord, snap, cim, cimLease, ret, aborted, commitSent, waited, auth>>
     \/ /\ ~ret.ok /\ AbortFor(IF depositHost = "declined" THEN "declined" ELSE "failed")
        /\ UNCHANGED <<tx, phys>>
  /\ UNCHANGED <<batch, escrow, depositHost, portions, after, status, completion, crashes>>

\* A commit that rejects is execution-unknown, and the session aborted.
Committed ==
  /\ dpc = "committing" /\ Idle
  /\ IF ret.ok
     THEN /\ phys' = [commit |-> "completed", committed |-> TRUE, recon |-> FALSE]
          /\ portions' = portions \cup {ret.custody} /\ EndWith("completed")
     ELSE /\ phys' = [phys EXCEPT !.commit = "execution-unknown", !.recon = TRUE]
          /\ UNCHANGED portions /\ AbortFor("intervention")
  /\ UNCHANGED <<batch, escrow, depositHost, after, status, tx, completion, crashes>>

-----------------------------------------------------------------------------
(* Abort, outcome, finalizers *)

\* abort(): applyAcceptanceResult, or an unknown portion when it rejects.
Aborted ==
  /\ dpc = "aborting" /\ Idle /\ dpc' = "capturing"
  /\ portions' = portions \cup {IF ret.ok THEN ret.custody ELSE "unknown"}
  /\ phys' = IF ret.ok THEN [phys EXCEPT !.committed = FALSE, !.recon = ret.recon]
             ELSE [phys EXCEPT !.recon = TRUE]
  /\ UNCHANGED <<acceptVars, batch, escrow, depositHost, after, wanted, status, tx, completion, crashes>>

\* Mutant: the requested status stands.
SafetyStatusPlain(p, s) == s

\* safetyStatus(): unresolved custody, an unknown commit, reconciliation and a
\* missing inventory all make it an intervention.
SafetyStatus(p, s) ==
  IF \/ portions \cap {"presented", "unknown", "transport", "escrow"} # {}
     \/ p.commit = "execution-unknown" \/ p.recon
  THEN "intervention" ELSE s

\* captureAfter() and buildDepositOutcome().
CaptureAfter ==
  /\ dpc = "capturing"
  /\ \/ /\ after' = "captured" /\ status' = SafetyStatus(phys, wanted)
        /\ UNCHANGED <<phys, cimFaults>>
     \/ /\ CimFault /\ after' = "failed" /\ status' = "intervention"
        /\ phys' = [phys EXCEPT !.recon = TRUE]
  /\ dpc' = "finalizing"
  /\ UNCHANGED <<mem, cimRecord, snap, cim, cimLease, call, ret, aborted, commitSent, waited, auth,
                 batch, escrow, depositHost, portions, wanted, tx, completion, crashes>>

\* transactionStatus()
TransactionStatus == CASE status = "completed" -> "completed"
                       [] status \in {"cancelled", "timedOut"} -> "cancelled"
                       [] OTHER -> "failed"

\* The completion finalizer: approved, and physically committed.
Completes == HostCompletes /\ depositHost = "approved" /\ phys.committed /\ phys.commit = "completed"

\* The finalizers in their order: transaction, audit, scope, host completion.
Finalize ==
  /\ dpc = "finalizing" /\ dpc' = "done"
  /\ tx' = TransactionStatus /\ completion' = Completes
  /\ UNCHANGED <<acceptVars, batch, escrow, depositHost, phys, portions, after, wanted, status, crashes>>

\* The customer or a deadline aborts the request.
AbortRequest ==
  /\ ~aborted /\ dpc \notin {"done", "crashed"} /\ aborted' = TRUE
  /\ UNCHANGED <<mem, cimRecord, snap, cim, cimLease, call, ret, commitSent, waited, auth, cimFaults, depositVars>>

\* The process dies; the device, the record and the host's lease stay.
CrashDeposit ==
  /\ dpc \notin {"done", "crashed"} /\ crashes < MaxCrashes /\ crashes' = crashes + 1
  /\ dpc' = "crashed" /\ call' = NoCall
  /\ UNCHANGED <<mem, cimRecord, snap, cim, cimLease, ret, aborted, commitSent, waited, auth, cimFaults,
                 batch, escrow, depositHost, phys, portions, after, wanted, status, tx, completion>>

WorkflowStep ==
  \/ Admission \/ CaptureBefore \/ Started \/ NextBatch \/ Accepted \/ RefusedResolved
  \/ Review \/ HostAnswers \/ Authorized \/ Committed \/ Aborted \/ CaptureAfter \/ Finalize
  \/ (dpc # "crashed" /\ AcceptanceStep /\ UNCHANGED depositVars)

DepositNext ==
  \/ WorkflowStep \/ AbortRequest \/ CrashDeposit
  \/ ((CustomerTakesNotes \/ LeaseLapses) /\ UNCHANGED depositVars)
  \/ (dpc = "crashed" /\ ExecuteRollback /\ UNCHANGED depositVars)

allVars == <<acceptVars, depositVars>>

\* Devices, disks, hosts and review gates answer; each has a timeout.
DepositFairness == WF_allVars(WorkflowStep)
DepositSpec == DepositInit /\ [][DepositNext]_allVars /\ DepositFairness

-----------------------------------------------------------------------------
(* Properties *)

\* Record, escrow and outcome have their types; no more batches than the
\* policy allows are taken in.
DepositTypeOK ==
  /\ mem.phase \in SessionPhases /\ cimRecord.phase \in SessionPhases /\ mem.rev \in 0..MaxBatches
  /\ cim.place \in NotePlaces /\ cim.notes \in 0..MaxBatches
  /\ batch \in 0..MaxBatches /\ status \in Statuses
  /\ depositHost \in {"not-requested", "approved", "declined", "unavailable"}

\* The session keeps the promise of an escrow: notes are committed only under an
\* approval of all of them, otherwise returned or retained, and stay where they
\* went.
Escrow == INSTANCE EscrowCustody
            WITH notes <- cim.notes, place <- cim.place,
                 approved <- auth.approved /\ auth.rev = mem.rev
EscrowIsImplemented == Escrow!EscrowSpec

\* buildDepositOutcome: a deposit that ends without intervention has no note
\* in escrow or at the output, and completed means it is in the units.
DepositOutcomeIsTrue ==
  (status \notin {"none", "intervention"}) =>
    /\ ~Outlet /\ cim.place # "escrow"
    /\ (status = "completed" <=> phys.committed)
    /\ (phys.committed /\ cim.notes > 0) => cim.place = "cash-unit"
    /\ cim.place = "cash-unit" => status = "completed"

\* persistEscrowAndResolveRefused: refused notes are taken or retracted before
\* the physical commit is dispatched.
RefusedBeforeCommit == [][~commitSent /\ commitSent' => cim.refused = 0]_allVars

\* commit, abort, decide: once cashInEnd was dispatched nobody rolls the escrow
\* back, neither the session nor a recovery after a crash.
NoRollbackAfterCommit ==
  [][commitSent => ~(cim.place = "escrow" /\ cim'.place = "presented")]_allVars

\* release: a session never gives its lease back while its notes are in escrow
\* or at the output, also when the deposit ends in an intervention.  The host may
\* have let it lapse by then: the adapter's time to live is not renewed.
LeaseCoversNotes ==
  (dpc # "crashed" /\ cim.place \in {"escrow", "presented"}) => cimLease # "none"

\* createDepositHostFinancialCompletionFinalizer: the host is told of a
\* completed deposit only when the notes are in the cash units.
CompletionIsPhysical == completion => cim.place = "cash-unit" \/ cim.notes = 0

\* Every deposit ends, whatever fails.
DepositEnds == <>[](dpc \in {"done", "crashed"})

\* waitForCashTaken, retract: returned notes are retracted only after the take
\* timeout, or because the deposit's signal has fired; a second retract, a late
\* answer or a recovery never takes them from the customer earlier.
ReturnedNotesWait ==
  [][(cim.place = "presented" /\ cim'.place = "retract-unit") => waited \/ aborted]_allVars

\* runDeposit, buildDepositOutcome: what the deposit reports, what the host is
\* told and the lease it has not given back agree with where the notes are.
DepositIsSound ==
  DepositTypeOK /\ DepositOutcomeIsTrue /\ LeaseCoversNotes /\ CompletionIsPhysical

\* CashAcceptanceSession: notes move in the order the customer can rely on, through
\* lost answers, aborts, crashes and recovery: refused notes are resolved before
\* the commit, the commit is not undone, returned notes wait for the customer.
NotesMoveInOrder == RefusedBeforeCommit /\ NoRollbackAfterCommit /\ ReturnedNotesWait
=============================================================================
