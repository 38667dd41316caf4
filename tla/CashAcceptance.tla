--------------------------- MODULE CashAcceptance ---------------------------
(***************************************************************************)
(* The accepting side of cash custody (xfs-device-service): one            *)
(* CashAcceptanceSession over the CIM, its durable record, its lease and    *)
(* CashAcceptanceRecoverySupervisor.  A session method is a sequence of     *)
(* awaits; the caller (module Deposit) calls one method at a time.  A store *)
(* write may be refused before or after it is durable, and a device command *)
(* that rejects may have been carried out.                                  *)
(***************************************************************************)
EXTENDS Naturals, FiniteSets

CONSTANTS
  MaxBatches,      \* policy.maxBatches
  NotTakenActions, \* values of policy.notTakenAction: retract, presented (intervention)
  MaxCimFaults        \* bound: refused writes and rejected device commands

ASSUME AcceptanceAssumption ==
  MaxBatches \in Nat \ {0} /\ NotTakenActions \subseteq {"retract", "presented"}

VARIABLES
  mem,       \* #record of the live session: [phase, dispatched, rev]
  cimRecord,       \* the stored record
  snap,      \* #snapshot: [notes, refused]
  cim,       \* the device: [active, notes, place, refused]
  cimLease,     \* the command lease at the host: none, held, lapsed
  call,      \* the running method: [m, at, n, r]
  ret,       \* the answer of the last method: [ok, custody, committed, recon]
  aborted,   \* the request's abort signal
  commitSent,     \* history: cashInEnd was dispatched
  waited,    \* history: the take timeout of the notes at the output has passed
  auth,      \* the host's authorization: [rev, approved]
  cimFaults

acceptVars == <<mem, cimRecord, snap, cim, cimLease, call, ret, aborted, commitSent, waited, auth, cimFaults>>

SessionPhases == {"none", "starting", "accepting", "escrowed", "authorizing", "committing",
           "rolling-back", "retracting", "completed", "failed"}
\* Where the accepted notes are.
NotePlaces == {"nowhere", "escrow", "presented", "customer", "cash-unit", "retract-unit"}

NoCall == [m |-> "idle", at |-> "idle", n |-> 0, r |-> 0]
Error == [ok |-> FALSE, custody |-> "none", committed |-> FALSE, recon |-> FALSE]
Done(custody) == [ok |-> TRUE, custody |-> custody, committed |-> FALSE,
                  recon |-> custody \in {"presented", "unknown"}]

AcceptInit ==
  /\ mem = [phase |-> "none", dispatched |-> FALSE, rev |-> 0] /\ cimRecord = mem
  /\ snap = [notes |-> 0, refused |-> 0]
  /\ cim = [active |-> FALSE, notes |-> 0, place |-> "nowhere", refused |-> 0]
  /\ cimLease = "none" /\ call = NoCall /\ ret = Error
  /\ aborted = FALSE /\ commitSent = FALSE /\ waited = FALSE /\ auth = [rev |-> 0, approved |-> FALSE]
  /\ cimFaults = 0

At(m, l) == call.m = m /\ call.at = l
Goto(l) == call' = [call EXCEPT !.at = l] /\ UNCHANGED ret
Return(r) == call' = NoCall /\ ret' = r
CimFault == cimFaults < MaxCimFaults /\ cimFaults' = cimFaults + 1

\* Something lies at the output position.
Outlet == cim.refused > 0 \/ cim.place = "presented"

\* #update and evidence(): memory first, then the store, then the evidence; a
\* rejection leaves the stored record as it was or as it should be.
Persist(r) ==
  /\ mem' = r
  /\ \/ cimRecord' = r /\ UNCHANGED cimFaults
     \/ CimFault /\ cimRecord' \in {cimRecord, r}
Persisted == cimFaults' = cimFaults

\* release() after the last write: a lapsed lease, like a lost answer, may make
\* it reject.
Release(answer) ==
  \/ Persisted /\ cimLease' = "none" /\ Return(answer)
  \/ Persisted /\ cimLease = "lapsed" /\ UNCHANGED cimLease /\ Return(Error)
  \/ ~Persisted /\ Return(Error) /\ (UNCHANGED cimLease \/ (cimRecord' = mem' /\ cimLease' = "none"))

WithPhase(p) == [mem EXCEPT !.phase = p]

-----------------------------------------------------------------------------
(* start() *)

\* throwIfAborted, the lease, the entry gate (its refusal releases the lease),
\* and the record: a rejected create keeps the lease, as a lost answer may.
StartEntry ==
  /\ At("start", "entry")
  /\ \/ aborted /\ Return(Error) /\ UNCHANGED <<mem, cimRecord, cimLease, cimFaults>>
     \/ ~aborted /\ CimFault /\ cimLease' \in {"none", "held"} /\ Return(Error) /\ UNCHANGED <<mem, cimRecord>>
     \/ /\ ~aborted /\ cimLease' = "held"
        /\ Persist(WithPhase("starting"))
        /\ IF Persisted THEN Goto("device") ELSE Return(Error)
  /\ UNCHANGED <<snap, cim, aborted, commitSent, waited, auth>>

\* Capabilities, the inventory and cashInStart; an error releases the lease.
StartDevice ==
  /\ At("start", "device")
  /\ \/ /\ cim' = [cim EXCEPT !.active = TRUE] /\ Return(Done("none")) /\ UNCHANGED <<cimLease, cimFaults>>
     \/ /\ CimFault /\ cim' \in {cim, [cim EXCEPT !.active = TRUE]}
        /\ cimLease' \in {"none", cimLease} /\ Return(Error)
  /\ UNCHANGED <<mem, cimRecord, snap, aborted, commitSent, waited, auth>>

-----------------------------------------------------------------------------
(* acceptBatch() *)

AcceptEntry ==
  /\ At("accept", "entry")
  /\ IF aborted \/ mem.phase \notin {"starting", "accepting", "escrowed"}
     THEN Return(Error) /\ UNCHANGED <<mem, cimRecord, cimFaults>>
     ELSE /\ Persist(WithPhase("accepting"))
          /\ IF Persisted THEN Goto("cashIn") ELSE Return(Error)
  /\ UNCHANGED <<snap, cim, cimLease, aborted, commitSent, waited, auth>>

\* The notes a cashIn command takes in and refuses.
TakeIn(a, r) ==
  [cim EXCEPT !.notes = @ + a, !.refused = @ + r, !.place = IF a > 0 THEN "escrow" ELSE @]

\* The batch it counts.
Batch(a, r) == [call EXCEPT !.at = "snapshot", !.n = a, !.r = r]

\* openShutter, cashIn and closeShutter: the answer may be lost after notes
\* were taken in.
AcceptCashIn ==
  /\ At("accept", "cashIn")
  /\ \E a, r \in 0..1 :
       \/ /\ cim.active /\ cim' = TakeIn(a, r)
          /\ call' = Batch(a, r)
          /\ UNCHANGED <<ret, cimFaults>>
       \/ cim.active /\ CimFault /\ cim' = TakeIn(a, r) /\ Return(Error)
       \/ ~cim.active /\ Return(Error) /\ UNCHANGED <<cim, cimFaults>>
  /\ UNCHANGED <<mem, cimRecord, snap, cimLease, aborted, commitSent, waited, auth>>

\* createEscrowSnapshot and mergeNotes: the next revision counts every batch.
NextRevision == [mem EXCEPT !.phase = "escrowed", !.rev = @ + 1]
AcceptSnapshot ==
  /\ At("accept", "snapshot")
  /\ snap' = [notes |-> snap.notes + call.n, refused |-> snap.refused + call.r]
  /\ Persist(NextRevision)
  /\ Return(IF Persisted THEN Done("none") ELSE Error)
  /\ UNCHANGED <<cim, cimLease, aborted, commitSent, waited, auth>>

-----------------------------------------------------------------------------
(* Taking and retracting *)

\* The customer takes what lies at the output position.
CustomerTakesNotes ==
  /\ Outlet
  /\ cim' = [cim EXCEPT !.refused = 0, !.place = IF @ = "presented" THEN "customer" ELSE @]
  /\ UNCHANGED <<mem, cimRecord, snap, cimLease, call, ret, aborted, commitSent, waited, auth, cimFaults>>

\* The lease was taken for a time to live (cash-acceptance-lease-adapter.ts) and
\* nobody renews it: the host may let it lapse under the session.
LeaseLapses ==
  /\ cimLease = "held" /\ cimLease' = "lapsed"
  /\ UNCHANGED <<mem, cimRecord, snap, cim, call, ret, aborted, commitSent, waited, auth, cimFaults>>

\* The device retracts what lies at the output position, which ends the
\* cash-in; notes in escrow may go along.
Retracted ==
  {[cim EXCEPT !.active = FALSE, !.refused = 0,
      !.place = IF cim.place = "presented" THEN "retract-unit" ELSE cim.place],
   [cim EXCEPT !.active = FALSE, !.refused = 0,
      !.place = IF cim.place \in {"presented", "escrow"} THEN "retract-unit" ELSE cim.place]}

\* waitForCashTaken(): polls until nothing is left, the timeout passes or the
\* signal is aborted; a status request may reject.
WaitTaken(onTaken, onNot) ==
  \/ ~aborted /\ ~Outlet /\ onTaken /\ UNCHANGED <<waited, cimFaults>>
  \/ ~aborted /\ Outlet /\ waited' = TRUE /\ onNot /\ UNCHANGED cimFaults
  \/ aborted /\ waited' = FALSE /\ onNot /\ UNCHANGED cimFaults
  \/ ~aborted /\ CimFault /\ Return(Error) /\ UNCHANGED waited

\* resolveRefusedMedia() of the CIM device port, which the deposit uses.
RefusedWait ==
  /\ At("refused", "entry")
  /\ WaitTaken(Return(Done("customer")),
               IF aborted THEN Return(Done("unknown")) ELSE Goto("retract"))
  /\ UNCHANGED <<mem, cimRecord, snap, cim, cimLease, aborted, commitSent, auth>>

RefusedRetract ==
  /\ At("refused", "retract")
  /\ \/ cim' \in Retracted /\ Return(Done("retract-unit")) /\ UNCHANGED cimFaults
     \/ ~Outlet /\ Return(Error) /\ UNCHANGED <<cim, cimFaults>>
     \/ CimFault /\ cim' \in Retracted \cup {cim} /\ Return(Error)
  /\ UNCHANGED <<mem, cimRecord, snap, cimLease, aborted, commitSent, waited, auth>>

-----------------------------------------------------------------------------
(* authorize() and commit() *)

AuthorizeEntry ==
  /\ At("authorize", "entry")
  /\ IF mem.phase # "escrowed" THEN Return(Error) /\ UNCHANGED <<mem, cimRecord, cimFaults>>
     ELSE /\ Persist(WithPhase("authorizing"))
          /\ IF Persisted THEN Goto("host") ELSE Return(Error)
  /\ UNCHANGED <<snap, cim, cimLease, aborted, commitSent, waited, auth>>

\* Mutant: any revision will do.
ExactAny(a) == TRUE

\* assertExactAuthorization: the answer is about the snapshot in escrow.
Exact(a) == a.rev = mem.rev

\* The authorizer answered a = [rev, approved]: a stale answer throws in the
\* phase authorizing, a declined one back in escrowed.
AuthorizeAnswer(a) ==
  /\ auth' = a
  /\ IF Exact(a)
     THEN /\ Persist(WithPhase("escrowed"))
          /\ Return(IF a.approved /\ Persisted THEN Done("none") ELSE Error)
     ELSE Return(Error) /\ UNCHANGED <<mem, cimRecord, cimFaults>>
  /\ UNCHANGED <<snap, cim, cimLease, aborted, commitSent, waited>>

\* commit(): physicalCommitDispatched is durable before cashInEnd is called.
Dispatched == [WithPhase("committing") EXCEPT !.dispatched = TRUE]
CommitEntry ==
  /\ At("commit", "entry")
  /\ IF mem.phase # "escrowed" \/ ~Exact(auth) \/ ~auth.approved
     THEN Return(Error) /\ UNCHANGED <<mem, cimRecord, cimFaults>>
     ELSE /\ Persist(Dispatched)
          /\ IF Persisted THEN Goto("cashInEnd") ELSE Return(Error)
  /\ UNCHANGED <<snap, cim, cimLease, aborted, commitSent, waited, auth>>

\* cashInEnd: the escrow goes to the cash units; an answer may be lost; a
\* cash-in that is over rejects.
CashedIn == [cim EXCEPT !.active = FALSE, !.place = IF @ = "escrow" THEN "cash-unit" ELSE @]
CommitDevice ==
  /\ At("commit", "cashInEnd")
  /\ commitSent' = TRUE
  /\ \/ cim.active /\ cim' = CashedIn /\ Goto("units") /\ UNCHANGED cimFaults
     \/ cim.active /\ CimFault /\ cim' \in {cim, CashedIn} /\ Return(Error)
     \/ ~cim.active /\ Return(Error) /\ UNCHANGED <<cim, cimFaults>>
  /\ UNCHANGED <<mem, cimRecord, snap, cimLease, aborted, waited, auth>>

\* The cash units and the destination evidence are read, the record completed
\* and the lease released.
CommitDone ==
  /\ At("commit", "units")
  /\ \/ Persist(WithPhase("completed")) /\ Release([Done("cash-unit") EXCEPT !.committed = TRUE])
     \/ CimFault /\ Return(Error) /\ UNCHANGED <<mem, cimRecord, cimLease>>
  /\ UNCHANGED <<snap, cim, aborted, commitSent, waited, auth>>

-----------------------------------------------------------------------------
(* abort() *)

\* A dispatched commit is left to recovery: the record becomes failed.
AbortEntry ==
  /\ At("abort", "entry")
  /\ \/ /\ mem.dispatched
        /\ Persist(WithPhase("failed"))
        /\ Return(IF Persisted THEN Done("unknown") ELSE Error)
     \/ /\ ~mem.dispatched /\ mem.phase \in {"starting", "accepting", "escrowed", "authorizing"}
        /\ Persist(WithPhase("rolling-back"))
        /\ IF Persisted THEN Goto("rollback") ELSE Return(Error)
     \/ /\ ~mem.dispatched /\ mem.phase \notin {"starting", "accepting", "escrowed", "authorizing"}
        /\ Return(Error) /\ UNCHANGED <<mem, cimRecord, cimFaults>>
  /\ UNCHANGED <<snap, cim, cimLease, aborted, commitSent, waited, auth>>

\* cashInRollback: the escrow is presented.
RolledBack == [cim EXCEPT !.active = FALSE, !.place = IF @ = "escrow" THEN "presented" ELSE @]
AbortRollback ==
  /\ At("abort", "rollback")
  /\ \/ cim.active /\ cim' = RolledBack /\ Goto("wait") /\ UNCHANGED cimFaults
     \/ cim.active /\ CimFault /\ cim' \in {cim, RolledBack} /\ Return(Error)
     \/ ~cim.active /\ Return(Error) /\ UNCHANGED <<cim, cimFaults>>
  /\ waited' = FALSE
  /\ UNCHANGED <<mem, cimRecord, snap, cimLease, aborted, commitSent, auth>>

\* The customer has the take timeout, unless the signal is already aborted.
AbortWait ==
  /\ At("abort", "wait")
  /\ \E action \in NotTakenActions : WaitTaken(Goto("returned"), Goto(action))
  /\ UNCHANGED <<mem, cimRecord, snap, cim, cimLease, aborted, commitSent, auth>>

AbortRetract ==
  /\ At("abort", "retract")
  /\ Persist(WithPhase("retracting"))
  /\ IF Persisted THEN Goto("retracting") ELSE Return(Error)
  /\ UNCHANGED <<snap, cim, cimLease, aborted, commitSent, waited, auth>>

AbortRetracting ==
  /\ At("abort", "retracting")
  /\ \/ cim' \in Retracted /\ Goto("retracted") /\ UNCHANGED cimFaults
     \/ ~Outlet /\ Return(Error) /\ UNCHANGED <<cim, cimFaults>>
     \/ CimFault /\ cim' \in Retracted \cup {cim} /\ Return(Error)
  /\ UNCHANGED <<mem, cimRecord, snap, cimLease, aborted, commitSent, waited, auth>>

\* The terminal record; notes left at the output keep the lease.
AbortDone ==
  /\ call.m = "abort" /\ call.at \in {"returned", "retracted", "presented"}
  /\ Persist(WithPhase("failed"))
  /\ LET custody == CASE call.at = "returned" -> "customer"
                      [] call.at = "retracted" -> "retract-unit"
                      [] OTHER -> "presented"
     IN IF custody # "presented" THEN Release(Done(custody))
        ELSE Return(IF Persisted THEN Done(custody) ELSE Error) /\ UNCHANGED cimLease
  /\ UNCHANGED <<snap, cim, aborted, commitSent, waited, auth>>

AcceptanceStep ==
  \/ StartEntry \/ StartDevice \/ AcceptEntry \/ AcceptCashIn \/ AcceptSnapshot
  \/ RefusedWait \/ RefusedRetract \/ AuthorizeEntry
  \/ CommitEntry \/ CommitDevice \/ CommitDone
  \/ AbortEntry \/ AbortRollback \/ AbortWait \/ AbortRetract \/ AbortRetracting \/ AbortDone

-----------------------------------------------------------------------------
(* Recovery after a restart *)

\* listUnresolved()
DepositUnresolved == cimRecord.phase \notin {"none", "completed", "failed"}

\* Mutant: a dispatched commit does not keep recovery from rolling back.
DecideBold(r) == IF cim.active THEN "rollback" ELSE "intervention"

\* decide(): a dispatched commit is only observed; an active cash-in is rolled
\* back; anything else needs an operator.
Decide(r) == IF r.dispatched THEN "observe"
             ELSE IF cim.active THEN "rollback" ELSE "intervention"

\* executeRollback(), which leaves the record as it is.
ExecuteRollback ==
  /\ DepositUnresolved /\ Decide(cimRecord) = "rollback"
  /\ cim' \in {cim, RolledBack}
  /\ UNCHANGED <<mem, cimRecord, snap, cimLease, call, ret, aborted, commitSent, waited, auth, cimFaults>>
=============================================================================
