------------------------------ MODULE Withdrawal ------------------------------
(***************************************************************************)
(* WithdrawalOrchestrator.execute over the card custody service and a cash *)
(* delivery session (packages/withdrawal-orchestration).                   *)
(*                                                                         *)
(* The card side is CardCustody itself.  The cash side is the promise of a *)
(* CashDeliverySession, which CashSystem checks in detail: its terminal    *)
(* outcomes are true, and it does not end while notes may have moved,      *)
(* unless it says so.  w.pc is the await the orchestrator is at, the other *)
(* fields of w are its OperationState and the outcome it is heading for.   *)
(***************************************************************************)
EXTENDS CardCustody

VARIABLES
  config,  \* policy and entry mode of the request, and whether a card service exists
  notes,   \* where the notes of the operation are
  sess,    \* the cash delivery session
  w        \* the orchestrator

vars == <<custodyVars, config, notes, sess, w>>
cashWorld == <<notes, sess>>

Configs ==
  [cardOrder: {"return-before-cash-present", "return-after-cash-terminal",
               "managed-by-parent-session"},
   planFirst: BOOLEAN, entryMode: {"contact-card", "cardless-reservation"}, service: BOOLEAN]

contact == config.entryMode = "contact-card"
initialState ==
  [pc |-> "recover", host |-> "not-requested", custody |-> "not-started",
   dispense |-> "not-requested", present |-> "not-requested", reconcile |-> FALSE,
   card |-> IF ~contact THEN "not-applicable"
            ELSE IF config.cardOrder = "managed-by-parent-session" THEN "session-retained"
            ELSE "pending",
   cardReason |-> "none", then |-> "conclude", respect |-> FALSE, caught |-> FALSE,
   status |-> "none", reason |-> "none", admitted |-> FALSE]

(***************************************************************************)
(* Outcomes.                                                               *)
(***************************************************************************)
\* Mutant: the custody of the notes is not looked at.
safetyStatusOfCard(v) ==
  IF contact /\ v.card \in {"pending", "inside", "presented", "intervention"}
  THEN "intervention" ELSE v.status

safetyStatus(v) ==
  IF v.custody \in {"custodyUnknown", "recovery-transferred"} THEN "intervention"
  ELSE IF contact /\ v.card \in {"pending", "inside", "presented", "intervention"}
  THEN "intervention" ELSE v.status

\* safeOutcome: the operation has its outcome and goes on to finalization.
concluded(v) == [v EXCEPT !.pc = "finalize", !.status = safetyStatus(v)]

to(v, pc) == [v EXCEPT !.pc = pc]
heading(v, status, reason) == [v EXCEPT !.status = status, !.reason = reason, !.then = "conclude",
                                        !.respect = FALSE]
\* First the cash session is ended by abort or exit, then the card is resolved.
leave(v, way, status, reason) == to(heading(v, status, reason), way)

\* The catch block of runAdmitted: an unfinished session is handed to recovery.
caught(v) ==
  [leave(v, IF sess.phase \in {"none", "terminal"} THEN "card" ELSE "exit",
         "intervention", "unexpected-failure") EXCEPT !.caught = TRUE]

interrupted(v) ==
  IF request.reason = "operation-timeout" THEN leave(v, "card", "timedOut", "operation-timeout")
  ELSE leave(v, "card", "cancelled", "user-cancelled")

\* cardFailure, for a card that was not returned before the cash is presented.
cardFailure(v) ==
  IF v.cardReason \in {"take-timeout", "operation-timeout"}
  THEN leave(v, "abort", "timedOut", "card-take-timeout")
  ELSE IF v.cardReason = "user-cancelled" THEN leave(v, "abort", "cancelled", "card-cancelled")
  ELSE leave(v, "abort", "intervention", "card-custody-unresolved")

terminalOutcome(v) ==
  concluded(
    IF v.custody = "retracted" THEN heading(v, "timedOut", "cash-take-timeout")
    ELSE IF v.custody # "taken" THEN heading(v, "intervention", "cash-custody-unknown")
    ELSE IF contact /\ v.card \notin {"returned", "session-retained"}
    THEN heading(v, "intervention",
           IF v.cardReason = "take-timeout" THEN "card-take-timeout" ELSE "card-custody-unresolved")
    ELSE heading(v, "completed", "completed"))

\* Mutant: a presented card is good enough.
afterCardPresented(v) ==
  CASE v.then = "conclude"  -> concluded(v)
    [] v.then = "cardFirst" -> IF contact /\ v.card \notin {"returned", "presented"} THEN cardFailure(v)
                               ELSE to(v, "authorizePresent")
    [] v.then = "terminal"  -> terminalOutcome(v)

\* Where the orchestrator goes once the card has been dealt with.
afterCard(v) ==
  CASE v.then = "conclude"  -> concluded(v)
    [] v.then = "cardFirst" -> IF contact /\ v.card # "returned" THEN cardFailure(v)
                               ELSE to(v, "authorizePresent")
    [] v.then = "terminal"  -> terminalOutcome(v)

\* gateFailure, by the status of the gate.
gateFailure(v, status) ==
  CASE status = "cancelled" -> leave(v, "abort", "cancelled", "verification-cancelled")
    [] status = "timedOut"  -> leave(v, "abort", "timedOut", "verification-timeout")
    [] status = "rejected"  -> leave(v, "abort", "failed", "verification-rejected")

(***************************************************************************)
(* execute, up to the first cash or card step.                             *)
(***************************************************************************)
at(pc) == w.pc = pc
onlyOrchestrator == UNCHANGED <<reader, host, evid, svc, request, cards, config, notes, sess>>
rejected(v) == to(v, "rejected")
\* A port that fails: the awaiting call continues as v.
fails(v) == fault /\ w' = v
answers(v) == w' = v /\ UNCHANGED faults

blocked(v) == [v EXCEPT !.pc = "ended", !.status = "intervention", !.reason = "recovery-barrier-blocked"]

Recover ==
  /\ at("recover")
  /\ \/ answers(to(w, "start"))
     \/ answers(blocked(w))
     \/ fails(rejected(w))
  /\ onlyOrchestrator

started(v) == [v EXCEPT !.pc = "audit", !.admitted = TRUE]

StartTransaction ==
  /\ at("start")
  /\ \/ answers(started(w))
     \/ fails(rejected(w))
  /\ onlyOrchestrator

AuditStarted ==
  /\ at("audit")
  /\ \/ answers(IF request.aborted THEN interrupted(w)
                ELSE to(w, IF config.planFirst THEN "startCash" ELSE "authorize"))
     \/ fails(rejected(w))
  /\ onlyOrchestrator

hostSays(v, status) == [v EXCEPT !.host = status]

AuthorizeHost ==
  /\ at("authorize")
  /\ \E status \in {"approved", "declined", "unavailable"} :
       LET v == hostSays(w, status)
           way == IF sess.phase = "none" THEN "card" ELSE "abort"
       IN answers(CASE status = "approved" -> to(v, "mark")
                    [] status = "declined" -> leave(v, way, "declined", "host-declined")
                    [] status = "unavailable" -> leave(v, way, "failed", "host-unavailable"))
  /\ onlyOrchestrator

MarkAuthorized ==
  /\ at("mark")
  /\ answers(to(w, "auditAuthorized")) \/ fails(caught(w))
  /\ onlyOrchestrator

AuditAuthorized ==
  /\ at("auditAuthorized")
  /\ \/ answers(to(w, IF sess.phase = "none" THEN "startCash" ELSE "dispense"))
     \/ fails(caught(w))
  /\ onlyOrchestrator

\* The card is returned next, and the abort signal counts.
cardNext(v, then) == [v EXCEPT !.pc = "card", !.then = then, !.respect = TRUE]

EvaluateGates ==
  /\ at("gate")
  /\ \/ answers(IF config.cardOrder = "return-before-cash-present"
                THEN cardNext(w, "cardFirst")
                ELSE to(w, "authorizePresent"))
     \/ \E status \in {"cancelled", "timedOut", "rejected"} : answers(gateFailure(w, status))
     \/ fails(caught(w))
  /\ onlyOrchestrator

AuthorizePresentation ==
  /\ at("authorizePresent")
  /\ \/ answers(to(w, "present"))
     \/ fails(leave(w, "abort", "failed", "cash-presentation-not-authorized"))
  /\ onlyOrchestrator

Finalize ==
  /\ at("finalize")
  /\ \/ answers(to(w, "ended"))
     \/ fails(to(w, "rejected"))
  /\ onlyOrchestrator

(***************************************************************************)
(* The cash session.                                                       *)
(***************************************************************************)
onlyCash == UNCHANGED <<reader, host, evid, svc, request, cards, config>>
NoSession == [phase |-> "none", moved |-> FALSE]
inTransport == notes \in {"staged", "slot"}

applyCashTerminal(v, outcome, required) ==
  [v EXCEPT !.custody = outcome, !.reconcile = required]
ended == sess' = [sess EXCEPT !.phase = "terminal"]

planned(v) == [v EXCEPT !.custody = "pending"]

StartCash ==
  /\ at("startCash")
  /\ \/ /\ sess' = [sess EXCEPT !.phase = "planned"]
        /\ answers(to(planned(w), IF w.host = "approved" THEN "dispense" ELSE "authorize"))
     \/ fails(leave(w, "card", "failed", "cash-start-failed")) /\ UNCHANGED sess
  /\ UNCHANGED notes /\ onlyCash

dispensed(v) == [v EXCEPT !.pc = "gate", !.dispense = "completed"]
dispenseFailed(v) ==
  [leave(v, "exit", "failed", "cash-dispense-failed")
     EXCEPT !.dispense = "execution-unknown", !.reconcile = TRUE]

\* A definite failure moved nothing; any other may have moved the notes.
Dispense ==
  /\ at("dispense")
  /\ \/ /\ notes' = "staged" /\ sess' = [sess EXCEPT !.phase = "staged", !.moved = TRUE]
        /\ answers(dispensed(w))
     \/ /\ \/ UNCHANGED cashWorld
           \/ notes' \in {"vault", "staged"} /\ sess' = [sess EXCEPT !.moved = TRUE]
        /\ fails(dispenseFailed(w))
  /\ onlyCash

presented(v) == [v EXCEPT !.pc = "take", !.present = "completed"]
presentFailed(v) ==
  [leave(v, "exit", "intervention", "cash-present-failed")
     EXCEPT !.present = "execution-unknown", !.reconcile = TRUE]

Present ==
  /\ at("present")
  /\ \/ /\ notes' = "slot" /\ sess' = [sess EXCEPT !.phase = "awaitingTake"]
        /\ answers(presented(w))
     \/ /\ notes' \in {notes, "slot"} /\ UNCHANGED sess
        /\ fails(presentFailed(w))
  /\ onlyCash

toCard(v) == to(v, "card")
\* What follows the terminal result of waitForTake or abort.
afterTerminal(v) ==
  IF at("abort") THEN toCard(v)
  ELSE IF config.cardOrder = "return-after-cash-terminal"
  THEN cardNext(v, "terminal")
  ELSE terminalOutcome(v)

\* retract: what it cannot confirm is custodyUnknown.
Retract ==
  \/ /\ inTransport /\ notes' = "bin" /\ ended
     /\ \E r \in BOOLEAN : answers(afterTerminal(applyCashTerminal(w, "retracted", r)))
  \/ /\ notes' \in {notes} \cup (IF inTransport THEN {"bin"} ELSE {})
     /\ ended
     /\ IF inTransport THEN fault ELSE UNCHANGED faults
     /\ w' = afterTerminal(applyCashTerminal(w, "custodyUnknown", TRUE))

confirmTake ==
  /\ notes = "customer" /\ ended /\ UNCHANGED notes
  /\ \E r \in BOOLEAN : answers(afterTerminal(applyCashTerminal(w, "taken", r)))

\* Mutant: the wait has no deadline.
WaitForTakeForever ==
  /\ at("take")
  /\ \/ confirmTake
     \/ fails(caught(w)) /\ UNCHANGED cashWorld
  /\ onlyCash

WaitForTake ==
  /\ at("take")
  /\ \/ confirmTake
     \/ Retract
     \/ fails(caught(w)) /\ UNCHANGED cashWorld
  /\ onlyCash

cashFailed(v) == [v EXCEPT !.pc = "card", !.custody = "custodyUnknown", !.reconcile = TRUE]

(* session.abort: nothing moved ends as notDispensed, otherwise the notes  *)
(* are retracted.                                                          *)
AbortCash ==
  /\ at("abort")
  /\ \/ /\ ~sess.moved /\ ended /\ UNCHANGED notes
        /\ \E r \in BOOLEAN : answers(toCard(applyCashTerminal(w, "notDispensed", r)))
     \/ sess.moved /\ Retract
     \/ ~sess.moved /\ fails(cashFailed(w)) /\ UNCHANGED cashWorld
  /\ onlyCash

\* reconcileDispenseFailure, and the status that follows from it.
reconciled(v) ==
  IF v.reason # "cash-dispense-failed" THEN v
  ELSE [v EXCEPT !.dispense = IF v.custody = "notDispensed" THEN "failed" ELSE @,
                 !.status = IF v.reconcile THEN "intervention" ELSE "failed"]

handedOver(v) == [v EXCEPT !.custody = "recovery-transferred", !.reconcile = TRUE]

(* session.exit: terminal when nothing moved, otherwise recovery accepts   *)
(* the session or the call rejects.                                        *)
TransferCash ==
  /\ at("exit")
  /\ \/ /\ sess.phase # "transferred" /\ ~sess.moved /\ ended
        /\ \E r \in BOOLEAN : answers(reconciled(toCard(applyCashTerminal(w, "notDispensed", r))))
     \/ /\ sess.phase # "transferred" /\ sess.moved
        /\ sess' = [sess EXCEPT !.phase = "transferred"]
        /\ answers(reconciled(toCard(handedOver(w))))
     \/ /\ IF sess.phase = "transferred" THEN UNCHANGED faults ELSE fault
        /\ w' = reconciled(cashFailed(w)) /\ UNCHANGED sess
  /\ UNCHANGED notes /\ onlyCash

CustomerTakesCash ==
  /\ notes = "slot" /\ notes' = "customer"
  /\ UNCHANGED <<custodyVars, config, sess, w>>

notOurs == config.cardOrder = "managed-by-parent-session" \/ ~contact \/ w.card # "pending"

cardIs(v, status, reason) == [v EXCEPT !.card = status, !.cardReason = reason]

SkipCard ==
  /\ at("card")
  /\ \/ notOurs /\ answers(afterCard(w))
     \/ ~notOurs /\ ~config.service
        /\ answers(afterCard(cardIs(w, "intervention", "custody-unknown")))
  /\ onlyOrchestrator

ResolveCard ==
  /\ at("card") /\ ~notOurs /\ config.service
  /\ returnCard(w.respect)
  /\ w' = to(w, "awaitCard")
  /\ UNCHANGED <<config, notes, sess>>

CardReturns ==
  /\ at("awaitCard")
  /\ \/ /\ svc.pc = "done"
        /\ answers(afterCard(cardIs(w, svc.status, svc.reason)))
     \/ svc.pc = "rejected" /\ answers(IF w.caught THEN rejected(w) ELSE caught(w))
  /\ onlyOrchestrator

\* The custody policy and the authority of a request are read only by the card service.
relevant(r) ==
  \/ contact /\ config.service /\ config.cardOrder # "managed-by-parent-session"
  \/ r.takeTimeoutAction = "intervention" /\ r.interruptAction = "intervention" /\ ~r.given

Init ==
  /\ config \in Configs
  /\ card = IF contact THEN "inside" ELSE "none"
  /\ dev = "none" /\ event = FALSE /\ removed = 0 /\ baseline = 0
  /\ request \in {r \in Requests : relevant(r)}
  /\ lease = IF request.given THEN [authority |-> "transaction", of |-> "given"] ELSE NoLease
  /\ obj = newObjects
  /\ journal = IF contact THEN "open" ELSE "clear"
  /\ evid = {} /\ svc = NoCall /\ cards = 1 /\ faults = 0
  /\ notes = "vault" /\ sess = NoSession /\ w = initialState

Orchestrator ==
  \/ Recover \/ StartTransaction \/ AuditStarted \/ AuthorizeHost \/ MarkAuthorized
  \/ AuditAuthorized \/ EvaluateGates \/ AuthorizePresentation \/ Finalize
  \/ StartCash \/ Dispense \/ Present \/ WaitForTake \/ AbortCash \/ TransferCash
  \/ SkipCard \/ ResolveCard \/ CardReturns
Card == (Service \/ Outside) /\ UNCHANGED <<config, notes, sess, w>>

Next == Orchestrator \/ Card \/ CustomerTakesCash
Spec == Init /\ [][Next]_vars

(* Promises settle and every wait of the ports has a deadline; the reader  *)
(* and its events go on.  Nothing is assumed of the customer.              *)
here == UNCHANGED <<config, notes, sess, w>>
LiveSpec ==
  Spec /\ WF_vars(Orchestrator) /\ WF_vars(Service /\ here)
       /\ WF_vars(LateCommand /\ here) /\ WF_vars(MediaRemovedEvent /\ here)
-----------------------------------------------------------------------------
finished == w.pc \in {"ended", "rejected"}
hasOutcome == w.admitted /\ w.pc \in {"finalize", "ended"}
ownCard == contact /\ config.cardOrder # "managed-by-parent-session"

\* Every part of the state has its type.
TypeOK ==
  /\ CardTypeOK
  /\ notes \in {"vault", "staged", "slot", "customer", "bin"}
  /\ sess \in [phase: {"none", "planned", "staged", "awaitingTake", "terminal", "transferred"},
               moved: BOOLEAN]
  /\ w.custody \in {"not-started", "pending", "notDispensed", "taken", "retracted",
                    "custodyUnknown", "recovery-transferred"}
  /\ w.card \in Statuses \cup {"not-applicable", "pending", "session-retained"}
  /\ w.pc = "ended" => w.status # "none"

(* Under return-before-cash-present no note reaches the customer's side    *)
(* before the card is really in the customer's hands, whatever abort, late *)
(* event, failed write or second attempt the card service goes through.    *)
CardBeforeCash ==
  ownCard /\ config.cardOrder = "return-before-cash-present" /\ notes \in {"slot", "customer"}
    => card = "customer"

\* Notes leave the vault only for an approved withdrawal.
DispensedOnlyIfApproved == notes # "vault" => w.host = "approved"

(* The outcome states what happened: completed means that the customer has *)
(* the notes and the card, and the cash facts agree with the notes.        *)
OutcomeIsTrue ==
  hasOutcome =>
    /\ w.status = "completed" => notes = "customer" /\ (ownCard => card = "customer")
    /\ w.custody = "taken" => notes = "customer"
    /\ w.custody = "retracted" => notes = "bin"
    /\ w.custody = "notDispensed" => notes = "vault"
    /\ w.dispense = "completed" => notes # "vault"
    /\ w.dispense \in {"not-requested", "failed"} => notes = "vault"

(* Notes left in the transport are never reported as a clean end: the      *)
(* outcome is an intervention that requires reconciliation, and an execute *)
(* that rejects has at least tried to hand the session to recovery.        *)
UnresolvedCashIsEscalated ==
  /\ hasOutcome /\ inTransport => w.status = "intervention" /\ w.reconcile
  /\ finished /\ sess.phase \notin {"none", "terminal", "transferred"} =>
       w.custody = "custodyUnknown"

\* execute settles, whatever the ports, the customer and the reader do.
ExecuteSettles == <>[]finished

(* Interruption returns or retains the card, or enters intervention        *)
(* (docs/adr/0012-customer-media-custody-must-be-resolved.md).             *)
CardIsResolvedOrEscalated ==
  hasOutcome /\ ownCard /\ card = "inside" => w.status = "intervention"

(* runAdmitted, compensate: the outcome is true of notes, card and host,   *)
(* and where custody is open it says so.                                   *)
OutcomeIsHonest ==
  TypeOK /\ OutcomeIsTrue /\ DispensedOnlyIfApproved /\ UnresolvedCashIsEscalated
=============================================================================
