----------------------------- MODULE CardCustody -----------------------------
(***************************************************************************)
(* CardCustodyService: returning, retaining and observing the customer's   *)
(* card under a fenced command lease, with the card reader port and the    *)
(* lease adapter it uses (packages/xfs-device-service).                    *)
(*                                                                         *)
(* svc.pc is the await the current call is at.  The reader, hostd and the  *)
(* customer are outside the repository.  A command that its caller gave up *)
(* on stays in flight and may still be executed.  Service events and       *)
(* command answers come over one connection, in order.                     *)
(***************************************************************************)
EXTENDS Integers

CONSTANTS
  Reasons,    \* CardCustodyInterruptReason values a request may carry
  MaxCards,   \* how many customers insert a card
  MaxFaults   \* failed writes, failed or lost commands, lost leases

ASSUME CardBounds == MaxCards \in Nat /\ MaxFaults \in Nat

VARIABLES
  card,      \* where the card is
  dev,       \* the reader's command in flight
  event,     \* a mediaRemoved event is on its way
  removed,   \* mediaRemovedSequence
  baseline,  \* takeEvidenceBaseline
  lease,     \* the active host command lease: its authority and whose it is
  obj,       \* the CardCustodyLeaseSession given by the caller and the call's own
  journal,   \* hostd's protection journal for the card
  evid,      \* durable evidence actions of the operation
  svc,       \* the call in progress
  request,   \* policy, interrupt reason, abort signal, whether authority is given
  cards,     \* cards inserted so far
  faults     \* faults so far

reader == <<card, dev, event, removed, baseline>>
host == <<lease, obj, journal>>
custodyVars == <<reader, host, evid, svc, request, cards, faults>>

Resolutions == {"retain", "leave-presented", "intervention"}
Authorities == {"none", "transaction", "recovery", "observation"}
NoCall == [pc |-> "idle", kind |-> "none", signal |-> FALSE, status |-> "none",
           reason |-> "none", media |-> "unknown", released |-> FALSE, moved |-> FALSE]
NoLease == [authority |-> "none", of |-> "nobody"]
leaseObject(authority) == [authority |-> authority, released |-> FALSE, acknowledged |-> FALSE]
newObjects == [u \in {"given", "own"} |->
                 leaseObject(IF u = "given" THEN "transaction" ELSE "recovery")]

fault == faults < MaxFaults /\ faults' = faults + 1
over == svc.pc \in {"idle", "done", "rejected"}
signalled == svc.signal /\ request.aborted
mediaRemoved == removed > baseline
uses == IF request.given /\ svc.kind # "reconcile" THEN "given" ELSE "own"
mine == obj[uses]
holds == lease.of = uses

goto(pc) == svc' = [svc EXCEPT !.pc = pc]
\* The command is on its way to the reader.
sends(pc) == svc' = [svc EXCEPT !.pc = pc, !.moved = TRUE]
retainFor(reason) == svc' = [svc EXCEPT !.pc = "retainRecord", !.reason = reason]
\* operation.finish: its terminal evidence is best effort.
finish(status, reason) ==
  svc' = [svc EXCEPT !.pc = "release", !.status = status, !.reason = reason]
resolve(action, reason) ==
  CASE action = "retain"          -> retainFor(reason)
    [] action = "leave-presented" -> finish("presented", reason)
    [] action = "intervention"    -> finish("intervention", reason)

(* operation.record: the evidence is durable before the call goes on.  An  *)
(* execution that rejects ends in withAuthority's catch block.             *)
recordOr(action, ok, failed) ==
  \/ evid' = evid \cup {action} /\ ok /\ UNCHANGED faults
  \/ fault /\ failed /\ UNCHANGED evid
record(action, ok) == recordOr(action, ok, finish("intervention", "evidence-write-failed"))

(***************************************************************************)
(* withAuthority.                                                          *)
(***************************************************************************)
newCall(kind, signal) ==
  [NoCall EXCEPT !.kind = kind, !.signal = signal,
     !.pc = IF request.given /\ kind # "reconcile" THEN "transition" ELSE "acquire"]
call(kind, signal) ==
  /\ over /\ svc' = newCall(kind, signal)
  /\ UNCHANGED <<reader, host, evid, request, cards, faults>>

returnCard(signal) == call("return", signal)
retainCard == call("retain", FALSE)
reconcile == call("reconcile", FALSE)

(* transitionToRecovery: the object moves only with the answer, so a lost  *)
(* answer leaves the host ahead of it.                                     *)
TransitionToRecovery ==
  /\ svc.pc = "transition"
  /\ \/ mine.authority = "recovery" /\ goto("authority") /\ UNCHANGED <<lease, obj, faults>>
     \/ /\ mine.authority = "transaction" /\ lease = [authority |-> "transaction", of |-> uses]
        /\ lease' = [lease EXCEPT !.authority = "recovery"]
        /\ \/ obj' = [obj EXCEPT ![uses].authority = "recovery"] /\ goto("authority") /\ UNCHANGED faults
           \/ fault /\ goto("rejected") /\ UNCHANGED obj
     \/ /\ mine.authority = "transaction"
        /\ \/ lease # [authority |-> "transaction", of |-> uses] /\ UNCHANGED faults
           \/ fault
        /\ goto("rejected") /\ UNCHANGED <<lease, obj>>
  /\ UNCHANGED <<reader, journal, evid, request, cards>>

authorityRejected ==
  svc' = [svc EXCEPT !.pc = "done", !.status = "intervention", !.reason = "authority-rejected"]
authorityFor(kind) == IF kind = "reconcile" THEN "observation" ELSE "recovery"

\* A lost answer leaves a lease that nobody knows of.
Acquire ==
  /\ svc.pc = "acquire"
  /\ \/ /\ lease = NoLease
        /\ lease' = [authority |-> authorityFor(svc.kind), of |-> "own"]
        /\ obj' = [obj EXCEPT !["own"] = leaseObject(authorityFor(svc.kind))]
        /\ journal' = IF svc.kind = "reconcile" THEN journal ELSE "open"
        /\ goto("authority") /\ UNCHANGED faults
     \/ lease # NoLease /\ authorityRejected /\ UNCHANGED <<host, faults>>
     \/ /\ fault /\ authorityRejected
        /\ lease' \in {lease, IF lease = NoLease
                              THEN [authority |-> authorityFor(svc.kind), of |-> "nobody"] ELSE lease}
        /\ UNCHANGED <<obj, journal>>
  /\ UNCHANGED <<reader, evid, request, cards>>

\* The one record outside the try block, and what each call does first.
AuthorityAcquired ==
  /\ svc.pc = "authority"
  /\ recordOr("authority-acquired",
       CASE svc.kind = "return" /\ signalled -> finish("cancelled", request.reason)
         [] svc.kind = "return"              -> goto("ejectRecord")
         [] svc.kind = "retain"              -> retainFor("retained-by-policy")
         [] svc.kind = "reconcile"           -> goto("observe"),
       goto("rejected"))
  /\ UNCHANGED <<reader, host, request, cards>>

custodyResolved == svc.status \in {"returned", "retained"}

reported(released) == svc' = [svc EXCEPT !.pc = "done", !.released = released]

(* lease.release: the host's release once, then the acknowledgement of the *)
(* protection for a resolved card; a failure of either is reported.        *)
Release ==
  /\ svc.pc = "release"
  /\ \/ /\ lease' = IF holds /\ ~mine.released THEN NoLease ELSE lease
        /\ obj' = [obj EXCEPT ![uses].released = TRUE]
        /\ IF custodyResolved /\ ~mine.acknowledged THEN goto("acknowledge") ELSE reported(TRUE)
        /\ UNCHANGED faults
     \/ /\ ~mine.released /\ reported(FALSE) /\ UNCHANGED obj
        /\ \/ ~holds /\ UNCHANGED <<lease, faults>>
           \/ fault /\ lease' \in {lease, IF holds THEN NoLease ELSE lease}
  /\ UNCHANGED <<reader, journal, evid, request, cards>>

Acknowledge ==
  /\ svc.pc = "acknowledge"
  /\ \/ /\ journal' = "clear" /\ obj' = [obj EXCEPT ![uses].acknowledged = TRUE]
        /\ reported(TRUE) /\ UNCHANGED faults
     \/ fault /\ journal' \in {journal, "clear"} /\ reported(FALSE) /\ UNCHANGED obj
  /\ UNCHANGED <<reader, lease, evid, request, cards>>

EjectRequested ==
  /\ svc.pc = "ejectRecord"
  /\ record("eject-requested", goto("eject"))
  /\ UNCHANGED <<reader, host, request, cards>>

ejectFailed ==
  IF signalled THEN finish("cancelled", request.reason) ELSE finish("intervention", "eject-failed")

\* Mutant: events of earlier ejections count.
EjectCardNoBaseline ==
  /\ svc.pc = "eject" /\ dev = "none"
  /\ \/ ~signalled /\ dev' = "eject" /\ sends("ejecting") /\ UNCHANGED faults
     \/ signalled /\ ejectFailed /\ UNCHANGED <<dev, faults>>
     \/ fault /\ ejectFailed /\ UNCHANGED dev
  /\ UNCHANGED <<card, event, removed, baseline, host, evid, request, cards>>

\* The baseline is taken even when the command is then not sent.
EjectCard ==
  /\ svc.pc = "eject" /\ dev = "none"
  /\ baseline' = removed
  /\ \/ ~signalled /\ dev' = "eject" /\ sends("ejecting") /\ UNCHANGED faults
     \/ signalled /\ ejectFailed /\ UNCHANGED <<dev, faults>>
     \/ fault /\ ejectFailed /\ UNCHANGED dev
  /\ UNCHANGED <<card, event, removed, host, evid, request, cards>>

EjectReturns ==
  /\ svc.pc = "ejecting" /\ dev = "eject" /\ ~event
  /\ dev' = "none"
  /\ \/ card \in {"inside", "slot"} /\ card' = "slot" /\ goto("ejected") /\ UNCHANGED faults
     \/ card \notin {"inside", "slot"} /\ ejectFailed /\ UNCHANGED <<card, faults>>
     \/ fault /\ ejectFailed /\ card' \in {card} \cup (IF card = "inside" THEN {"slot", "jammed"} ELSE {})
  /\ UNCHANGED <<event, removed, baseline, host, evid, request, cards>>

\* The caller stops waiting; the reader may or may not have dropped the command.
EjectAbandoned ==
  /\ svc.pc = "ejecting"
  /\ \/ signalled /\ UNCHANGED faults
     \/ fault
  /\ ejectFailed
  /\ dev' \in {"none", "eject"}
  /\ UNCHANGED <<card, event, removed, baseline, host, evid, request, cards>>

EjectCompleted ==
  /\ svc.pc = "ejected"
  /\ record("eject-completed", goto("wait"))
  /\ UNCHANGED <<reader, host, request, cards>>

\* The catch block of awaitTake.
takeUncertain ==
  IF signalled THEN resolve(request.interruptAction, request.reason)
  ELSE finish("intervention", "custody-unknown")

WaitForTaken ==
  /\ svc.pc = "wait"
  /\ \/ mediaRemoved /\ goto("taken") /\ UNCHANGED faults
     \/ ~mediaRemoved /\ goto("timedOut") /\ UNCHANGED faults
     \/ signalled /\ takeUncertain /\ UNCHANGED faults
     \/ fault /\ takeUncertain
  /\ UNCHANGED <<reader, host, evid, request, cards>>

TakeObserved ==
  /\ svc.pc \in {"taken", "timedOut"}
  /\ recordOr("media-observed",
       IF svc.pc = "taken" THEN finish("returned", "taken")
       ELSE resolve(request.takeTimeoutAction, "take-timeout"),
       takeUncertain)
  /\ UNCHANGED <<reader, host, request, cards>>

(***************************************************************************)
(* retain and reconcile.                                                   *)
(***************************************************************************)
RetainRequested ==
  /\ svc.pc = "retainRecord"
  /\ record("retain-requested", goto("retain"))
  /\ UNCHANGED <<reader, host, request, cards>>

retainFailed == finish("intervention", "retain-failed")

RetainCard ==
  /\ svc.pc = "retain" /\ dev = "none"
  /\ \/ dev' = "retain" /\ sends("retaining") /\ UNCHANGED faults
     \/ fault /\ retainFailed /\ UNCHANGED dev
  /\ UNCHANGED <<card, event, removed, baseline, host, evid, request, cards>>

RetainReturns ==
  /\ svc.pc = "retaining" /\ dev = "retain" /\ ~event
  /\ dev' = "none"
  /\ \/ card \in {"inside", "slot"} /\ card' = "bin" /\ goto("retained") /\ UNCHANGED faults
     \/ card \notin {"inside", "slot"} /\ retainFailed /\ UNCHANGED <<card, faults>>
     \/ fault /\ retainFailed /\ card' \in {card} \cup
                                        (IF card \in {"inside", "slot"} THEN {"bin", "jammed"} ELSE {})
  /\ UNCHANGED <<event, removed, baseline, host, evid, request, cards>>

RetainAbandoned ==
  /\ svc.pc = "retaining" /\ fault /\ retainFailed
  /\ UNCHANGED <<reader, host, evid, request, cards>>

RetainCompleted ==
  /\ svc.pc = "retained"
  /\ recordOr("retain-completed", finish("retained", svc.reason), retainFailed)
  /\ UNCHANGED <<reader, host, request, cards>>

mediaState ==
  CASE card = "slot"   -> "presented"
    [] card = "inside" -> "inside"
    [] card = "jammed" -> "jammed"
    [] OTHER           -> "notPresent"

observed(state) ==
  CASE state = "presented" -> finish("presented", "recovery-presented")
    [] state = "inside"    -> finish("inside", "recovery-inside")
    [] state = "jammed"    -> finish("intervention", "media-jammed")
    [] OTHER               -> finish("intervention", "custody-unknown")

seen(state) == svc' = [svc EXCEPT !.pc = "observed", !.media = state]

\* safeMediaState answers unknown when the reader does not.
ObserveMedia ==
  /\ svc.pc = "observe"
  /\ \/ seen(mediaState) /\ UNCHANGED faults
     \/ fault /\ goto("observed")
  /\ UNCHANGED <<reader, host, evid, request, cards>>

Reconcile ==
  /\ svc.pc = "observed"
  /\ record("media-observed", observed(svc.media))
  /\ UNCHANGED <<reader, host, request, cards>>

(***************************************************************************)
(* Outside the service: the reader, hostd, the customer, the caller.       *)
(***************************************************************************)
waiting == svc.pc \in {"ejecting", "retaining"}

LateCommand ==
  /\ dev # "none" /\ ~waiting
  /\ dev' = "none"
  /\ card' \in {card} \cup (CASE dev = "eject"  /\ card = "inside" -> {"slot"}
                              [] dev = "retain" /\ card \in {"inside", "slot"} -> {"bin"}
                              [] OTHER -> {})
  /\ UNCHANGED <<event, removed, baseline, host, evid, svc, request, cards, faults>>

CustomerTakes ==
  /\ card = "slot"
  /\ card' = "customer" /\ event' = TRUE
  /\ UNCHANGED <<dev, removed, baseline, host, evid, svc, request, cards, faults>>

MediaRemovedEvent ==
  /\ event
  /\ event' = FALSE /\ removed' = removed + 1
  /\ UNCHANGED <<card, dev, baseline, host, evid, svc, request, cards, faults>>

LeaseExpires ==
  /\ lease # NoLease /\ fault
  /\ lease' = NoLease
  /\ UNCHANGED <<reader, obj, journal, evid, svc, request, cards>>

Abort ==
  /\ ~request.aborted
  /\ request' = [request EXCEPT !.aborted = TRUE]
  /\ UNCHANGED <<reader, host, evid, svc, cards, faults>>

Requests ==
  [takeTimeoutAction: Resolutions, interruptAction: Resolutions, reason: Reasons,
   given: BOOLEAN, aborted: {FALSE}]

(* The next customer's card is read under transaction authority, which the *)
(* operation may hand to the service.                                      *)
InsertCard ==
  /\ over /\ cards < MaxCards /\ card \in {"none", "customer", "bin"}
  /\ dev = "none" /\ ~event /\ lease = NoLease
  /\ card' = "inside" /\ journal' = "open" /\ evid' = {} /\ svc' = NoCall
  /\ request' \in Requests
  /\ lease' = IF request'.given THEN [authority |-> "transaction", of |-> "given"] ELSE NoLease
  /\ obj' = newObjects
  /\ cards' = cards + 1
  /\ UNCHANGED <<dev, event, removed, baseline, faults>>

CardInit ==
  /\ card = "none" /\ dev = "none" /\ event = FALSE /\ removed = 0 /\ baseline = 0
  /\ lease = NoLease /\ journal = "clear"
  /\ obj = newObjects
  /\ evid = {} /\ svc = NoCall
  /\ request \in {r \in Requests : ~r.given}
  /\ cards = 0 /\ faults = 0

Service ==
  \/ TransitionToRecovery \/ Acquire \/ AuthorityAcquired \/ Release \/ Acknowledge
  \/ EjectRequested \/ EjectCard \/ EjectReturns \/ EjectAbandoned \/ EjectCompleted
  \/ WaitForTaken \/ TakeObserved
  \/ RetainRequested \/ RetainCard \/ RetainReturns \/ RetainAbandoned \/ RetainCompleted
  \/ ObserveMedia \/ Reconcile
Outside == LateCommand \/ CustomerTakes \/ MediaRemovedEvent \/ LeaseExpires \/ Abort

Caller == returnCard(TRUE) \/ retainCard \/ reconcile

CardNext == Service \/ Outside \/ InsertCard \/ (card # "none" /\ Caller)
CardSpec == CardInit /\ [][CardNext]_custodyVars

(* Native calls have timeouts, promises settle and the wait for the        *)
(* customer has a deadline, so a call in progress goes on, and so does the *)
(* reader.  Nothing is assumed of the customer or the caller.              *)
CardLiveSpec ==
  CardSpec /\ WF_custodyVars(Service) /\ WF_custodyVars(LateCommand)
           /\ WF_custodyVars(MediaRemovedEvent)
-----------------------------------------------------------------------------
Awaits == {"idle", "transition", "acquire", "authority", "ejectRecord", "eject", "ejecting",
           "ejected", "wait", "taken", "timedOut", "retainRecord", "retain", "retaining",
           "retained", "observe", "observed", "release", "acknowledge", "done", "rejected"}
Statuses == {"none", "inside", "presented", "returned", "retained", "cancelled", "intervention"}

\* Every part of the state has its type.
CardTypeOK ==
  /\ card \in {"none", "inside", "slot", "customer", "bin", "jammed"}
  /\ dev \in {"none", "eject", "retain"} /\ event \in BOOLEAN
  /\ removed \in Nat /\ baseline \in 0..removed
  /\ lease \in [authority: Authorities, of: {"nobody", "given", "own"}]
  /\ journal \in {"open", "clear"}
  /\ obj \in [{"given", "own"} -> [authority: Authorities, released: BOOLEAN, acknowledged: BOOLEAN]]
  /\ svc.pc \in Awaits /\ svc.status \in Statuses
  /\ svc.pc = "release" => svc.status # "none"

(* The service never reports more than happened: a returned card is in the *)
(* customer's hands, a retained one in the bin, and hostd's protection is  *)
(* acknowledged only for such a card, whichever of a late command, a late  *)
(* event, an abort or a failed write comes in between.                     *)
CustodyIsTrue ==
  /\ svc.status = "returned" => card = "customer"
  /\ svc.status = "retained" => card = "bin"
  /\ journal = "clear" => card \in {"none", "customer", "bin"}

(* A card that left the reader's transport did so on a request that is on  *)
(* record, a late command of an abandoned call included.                   *)
MovementIsRecorded ==
  /\ dev = "eject" \/ card = "slot" => "eject-requested" \in evid
  /\ dev = "retain" \/ card = "bin" => "retain-requested" \in evid

(* A call that rejects has sent the reader no command: the caller may make *)
(* it again without moving the card twice.                                 *)
RejectedCallMovedNothing == svc.pc = "rejected" => ~svc.moved

(* A result that reports its authority as released is right: no host lease *)
(* of the call is left, and the protection of a resolved card is cleared.  *)
ReleasedIsReleased ==
  svc.pc = "done" /\ svc.released =>
    lease.of # uses /\ (custodyResolved => journal = "clear")

(* ejectCard, retainCard: the call's result, the evidence, the lease and   *)
(* hostd's protection are true of the card, through aborts, late commands, *)
(* late events and refused writes.                                         *)
CardIsAccountedFor ==
  /\ CardTypeOK /\ CustodyIsTrue /\ MovementIsRecorded
  /\ RejectedCallMovedNothing /\ ReleasedIsReleased
=============================================================================
