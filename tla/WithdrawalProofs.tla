-------------------------- MODULE WithdrawalProofs --------------------------
(***************************************************************************)
(* Proofs about the custody of the customer's card, for any number of       *)
(* cards, calls and faults and every policy and interrupt reason, and about *)
(* a withdrawal, for every policy and entry mode besides.                   *)
(*                                                                         *)
(* The invariant of the card says, for each await of the call in progress,  *)
(* where the card can be, what the reader may still execute, what is on     *)
(* record and whose the host's lease is.  It is kept through the            *)
(* withdrawal; to it comes, for each await of the orchestrator, what is     *)
(* then known of the notes, the cash session and the card.                  *)
(***************************************************************************)
EXTENDS Withdrawal, TLAPS

-----------------------------------------------------------------------------
(* The custody of the card.                                                *)

Kinds == {"none", "return", "retain", "reconcile"}
CallReasons ==
  Reasons \cup {"none", "evidence-write-failed", "authority-rejected", "retained-by-policy",
                "eject-failed", "custody-unknown", "taken", "take-timeout", "retain-failed",
                "recovery-presented", "recovery-inside", "media-jammed"}
MediaStates == {"unknown", "presented", "inside", "jammed", "notPresent"}
Calls == [pc : Awaits, kind : Kinds, signal : BOOLEAN, status : Statuses, reason : CallReasons,
          media : MediaStates, released : BOOLEAN, moved : BOOLEAN]
Leases == [authority : Authorities, of : {"nobody", "given", "own"}]
LeaseObjects == [authority : Authorities, released : BOOLEAN, acknowledged : BOOLEAN]

\* The reader.
ReaderTypes ==
  /\ card \in {"none", "inside", "slot", "customer", "bin", "jammed"}
  /\ dev \in {"none", "eject", "retain"} /\ event \in BOOLEAN
  /\ removed \in Nat /\ baseline \in 0..removed

\* The host's lease and the sessions that stand for it.
HostTypes ==
  /\ lease \in Leases /\ journal \in {"open", "clear"}
  /\ obj \in [{"given", "own"} -> LeaseObjects]

\* The call and its request.
CallTypes ==
  /\ svc \in Calls
  /\ request \in [takeTimeoutAction : Resolutions, interruptAction : Resolutions,
                  reason : Reasons, given : BOOLEAN, aborted : BOOLEAN]
  /\ cards \in Nat /\ faults \in Nat

\* A call has a status from its end on, and has moved nothing before it has
\* its authority.
CallInv ==
  /\ svc.kind = "none" => svc.pc = "idle"
  /\ svc.status # "none" => svc.pc \in {"release", "acknowledge", "done"}
  /\ svc.pc \in {"release", "acknowledge"} => svc.status # "none"
  /\ svc.pc \in {"transition", "acquire", "authority", "rejected"} => ~svc.moved
  /\ svc.released => svc.pc = "done"
  /\ svc.pc = "acquire" => svc.kind = "reconcile" \/ ~request.given
  /\ svc.pc = "acknowledge" => custodyResolved

\* The command a call waits for is in flight; an event counts from the baseline
\* on only for the card that this call ejected.
ReaderInv ==
  /\ event => card = "customer"
  /\ svc.pc = "ejecting" => dev = "eject"
  /\ svc.pc = "retaining" => dev = "retain"
  /\ svc.pc \in {"ejected", "wait", "taken", "timedOut"} =>
       dev = "none" /\ card \in {"slot", "customer"}
  /\ (svc.pc \in {"ejecting", "ejected", "wait"} /\ mediaRemoved) => card = "customer"
  /\ svc.pc = "taken" => card = "customer"
  /\ svc.pc = "retained" => card = "bin"

\* The request is on record before the reader has the command.
EvidenceInv ==
  /\ MovementIsRecorded
  /\ svc.pc = "eject" => "eject-requested" \in evid
  /\ svc.pc = "retain" => "retain-requested" \in evid

\* A session that released its lease does not hold the host's, and an
\* acknowledgement is the host's last word on the card.
LeaseInv ==
  /\ \A u \in {"given", "own"} :
       /\ obj[u].released => lease.of # u
       /\ obj[u].acknowledged => journal = "clear"
  /\ ~request.given => ~obj["given"].acknowledged
  /\ svc.pc = "acknowledge" => obj[uses].released
  /\ ReleasedIsReleased

CardInv ==
  /\ ReaderTypes /\ HostTypes /\ CallTypes
  /\ CallInv /\ ReaderInv /\ EvidenceInv /\ CustodyIsTrue /\ LeaseInv

-----------------------------------------------------------------------------
\* What is read of the call and its request.
LEMMA ReadFacts ==
  ASSUME CallTypes
  PROVE  /\ svc.pc \in Awaits /\ svc.kind \in Kinds /\ svc.status \in Statuses
         /\ svc.reason \in CallReasons /\ svc.media \in MediaStates
         /\ request.reason \in CallReasons
         /\ request.takeTimeoutAction \in Resolutions /\ request.interruptAction \in Resolutions
BY DEF CallTypes, Calls, CallReasons

\* A session object is marked.
LEMMA MarkedFacts ==
  ASSUME HostTypes, NEW u \in {"given", "own"}
  PROVE  /\ [obj EXCEPT ![u].released = TRUE] \in [{"given", "own"} -> LeaseObjects]
         /\ [obj EXCEPT ![u].acknowledged = TRUE] \in [{"given", "own"} -> LeaseObjects]
         /\ [obj EXCEPT ![u].authority = "recovery"] \in [{"given", "own"} -> LeaseObjects]
<1>1. obj[u] \in LeaseObjects
  BY DEF HostTypes
<1>2. /\ [obj[u] EXCEPT !.released = TRUE] \in LeaseObjects
      /\ [obj[u] EXCEPT !.acknowledged = TRUE] \in LeaseObjects
      /\ [obj[u] EXCEPT !.authority = "recovery"] \in LeaseObjects
  BY <1>1 DEF LeaseObjects, Authorities
<1> QED
  BY <1>2 DEF HostTypes

(* What the assignments to the call leave in its fields.                   *)

\* The fields no later assignment changes.
Same == svc'.kind = svc.kind /\ svc'.signal = svc.signal

\* goto moves the call and keeps everything else.
LEMMA GotoFacts ==
  ASSUME CallTypes, NEW pc \in Awaits, goto(pc)
  PROVE  /\ svc' \in Calls /\ Same /\ svc'.pc = pc /\ svc'.status = svc.status
         /\ svc'.released = svc.released /\ svc'.moved = svc.moved
<1>1. svc' \in Calls
  BY DEF goto, CallTypes, Calls
<1> QED
  BY <1>1 DEF goto, CallTypes, Calls, Same

\* sends moves the call to a command, which counts as movement.
LEMMA SendsFacts ==
  ASSUME CallTypes, NEW pc \in Awaits, sends(pc)
  PROVE  /\ svc' \in Calls /\ Same /\ svc'.pc = pc /\ svc'.status = svc.status
         /\ svc'.released = svc.released
<1>1. svc' \in Calls
  BY DEF sends, CallTypes, Calls
<1> QED
  BY <1>1 DEF sends, CallTypes, Calls, Same

\* retainFor goes on to the retention.
LEMMA RetainForFacts ==
  ASSUME CallTypes, NEW reason \in CallReasons, retainFor(reason)
  PROVE  /\ svc' \in Calls /\ Same /\ svc'.pc = "retainRecord" /\ svc'.status = svc.status
         /\ svc'.released = svc.released
<1>1. svc' \in Calls
  BY DEF retainFor, CallTypes, Calls, Awaits
<1> QED
  BY <1>1 DEF retainFor, CallTypes, Calls, Same

\* finish ends the call with a status.
LEMMA FinishFacts ==
  ASSUME CallTypes, NEW status \in Statuses, NEW reason \in CallReasons, finish(status, reason)
  PROVE  /\ svc' \in Calls /\ Same /\ svc'.pc = "release" /\ svc'.status = status
         /\ svc'.released = svc.released
<1>1. svc' \in Calls
  BY DEF finish, CallTypes, Calls, Awaits
<1> QED
  BY <1>1 DEF finish, CallTypes, Calls, Same

\* seen keeps what the reader showed.
LEMMA SeenFacts ==
  ASSUME CallTypes, NEW state \in MediaStates, seen(state)
  PROVE  /\ svc' \in Calls /\ Same /\ svc'.pc = "observed" /\ svc'.status = svc.status
         /\ svc'.released = svc.released
<1>1. svc' \in Calls
  BY DEF seen, CallTypes, Calls, Awaits
<1> QED
  BY <1>1 DEF seen, CallTypes, Calls, Same

\* reported tells the caller whether the authority is released.
LEMMA ReportedFacts ==
  ASSUME CallTypes, reported(TRUE) \/ reported(FALSE)
  PROVE  /\ svc' \in Calls /\ Same /\ svc'.pc = "done" /\ svc'.status = svc.status
         /\ reported(TRUE) => svc'.released
         /\ reported(FALSE) => ~svc'.released
<1>1. svc' \in Calls
  BY ZenonT(60) DEF reported, CallTypes, Calls, Awaits
<1> QED
  BY <1>1 DEF reported, CallTypes, Calls, Same

\* authorityRejected ends the call as an intervention.
LEMMA AuthorityRejectedFacts ==
  ASSUME CallTypes, authorityRejected
  PROVE  /\ svc' \in Calls /\ Same /\ svc'.pc = "done" /\ svc'.status = "intervention"
         /\ svc'.released = svc.released
<1>1. svc' \in Calls
  BY DEF authorityRejected, CallTypes, Calls, Awaits, Statuses, CallReasons
<1> QED
  BY <1>1 DEF authorityRejected, CallTypes, Calls, Same

\* There is no call.
LEMMA NoCallFacts ==
  /\ NoCall \in Calls /\ NoCall.pc = "idle" /\ NoCall.status = "none" /\ ~NoCall.released
  /\ ~NoCall.moved
BY DEF NoCall, Calls, Awaits, Kinds, Statuses, CallReasons, MediaStates

\* A new call has moved nothing.
LEMMA NewCallFacts ==
  ASSUME NEW kind \in Kinds, NEW signal \in BOOLEAN
  PROVE  LET c == newCall(kind, signal)
         IN /\ c \in Calls /\ c.kind = kind /\ c.status = "none" /\ ~c.released /\ ~c.moved
            /\ c.pc = IF request.given /\ kind # "reconcile" THEN "transition" ELSE "acquire"
<1> DEFINE p == IF request.given /\ kind # "reconcile" THEN "transition" ELSE "acquire"
<1>1. p \in Awaits
  BY DEF Awaits
<1>2. newCall(kind, signal) = [NoCall EXCEPT !.kind = kind, !.signal = signal, !.pc = p]
  BY DEF newCall
<1> HIDE DEF p
<1>3. newCall(kind, signal) \in Calls
  BY <1>1, <1>2, NoCallFacts DEF Calls
<1>4. newCall(kind, signal).pc = p /\ newCall(kind, signal).kind = kind
  BY <1>2, NoCallFacts DEF Calls
<1>5. /\ newCall(kind, signal).status = NoCall.status
      /\ newCall(kind, signal).released = NoCall.released
      /\ newCall(kind, signal).moved = NoCall.moved
  BY <1>2, NoCallFacts DEF Calls
<1> QED
  BY <1>3, <1>4, <1>5, NoCallFacts DEF p

\* A request is read, and its signal fires.
LEMMA AbortedFacts ==
  ASSUME CallTypes
  PROVE  LET r == [request EXCEPT !.aborted = TRUE]
         IN /\ r \in [takeTimeoutAction : Resolutions, interruptAction : Resolutions,
                      reason : Reasons, given : BOOLEAN, aborted : BOOLEAN]
            /\ r.given = request.given
BY DEF CallTypes

-----------------------------------------------------------------------------
(* Every step keeps the invariant.                                         *)

USE DEF CardInv, ReaderTypes, HostTypes, CallTypes, Leases, LeaseObjects, Same, Awaits, Statuses,
        CallReasons, Kinds, custodyVars, reader, host

\* The given lease moves to recovery authority, or the call rejects.
LEMMA TransitionToRecoveryInv == ASSUME CardInv, TransitionToRecovery PROVE CardInv'
<1> USE GotoFacts, ReadFacts DEF TransitionToRecovery, mine, uses, fault
<1>1. (ReaderTypes /\ HostTypes)'
  BY DEF Authorities
<1>2. CallTypes'
  OBVIOUS
<1>3. (CallInv /\ ReaderInv)'
  BY DEF CallInv, custodyResolved, ReaderInv, mediaRemoved
<1>4. (EvidenceInv /\ CustodyIsTrue)'
  BY DEF CallInv, custodyResolved, ReaderInv, mediaRemoved, EvidenceInv, MovementIsRecorded,
     CustodyIsTrue
<1>5. LeaseInv'
  BY DEF CallInv, custodyResolved, CustodyIsTrue, LeaseInv, ReleasedIsReleased
<1> QED
  BY <1>1, <1>2, <1>3, <1>4, <1>5

\* The call acquires a lease of its own; a lost answer leaves one of nobody.
LEMMA AcquireInv == ASSUME CardInv, Acquire PROVE CardInv'
<1> USE GotoFacts, AuthorityRejectedFacts, ReadFacts DEF Acquire, NoLease, authorityFor, fault,
      leaseObject
<1>1. ReaderTypes'
  OBVIOUS
<1>2. HostTypes'
  <2>1. leaseObject(authorityFor(svc.kind)) \in LeaseObjects
    BY DEF Authorities
  <2> HIDE DEF LeaseObjects, leaseObject
  <2> QED
    BY <2>1 DEF Authorities
<1>3. CallTypes'
  OBVIOUS
<1>4. (CallInv /\ ReaderInv)'
  BY DEF CallInv, custodyResolved, ReaderInv, mediaRemoved
<1>5. (EvidenceInv /\ CustodyIsTrue)'
  BY DEF CallInv, custodyResolved, ReaderInv, mediaRemoved, EvidenceInv, MovementIsRecorded,
     CustodyIsTrue
<1>6. LeaseInv'
  BY DEF CallInv, custodyResolved, CustodyIsTrue, LeaseInv, ReleasedIsReleased, uses
<1> QED
  BY <1>1, <1>2, <1>3, <1>4, <1>5, <1>6

\* The authority is on record and the call begins.
LEMMA AuthorityAcquiredInv == ASSUME CardInv, AuthorityAcquired PROVE CardInv'
<1> USE GotoFacts, FinishFacts, RetainForFacts, ReadFacts DEF AuthorityAcquired, recordOr,
      signalled, fault
<1>1. (ReaderTypes /\ HostTypes)'
  BY DEF Authorities
<1>2. CallTypes'
  <2>1. svc' \in Calls
    BY DEF CallInv
  <2>2. faults' \in {faults, faults + 1}
    OBVIOUS
  <2>3. request' = request /\ cards' = cards
    OBVIOUS
  <2> QED
    BY <2>1, <2>2, <2>3
<1>3. (CallInv /\ ReaderInv)'
  BY ZenonT(60) DEF CallInv, custodyResolved, ReaderInv, mediaRemoved
<1>4. (EvidenceInv /\ CustodyIsTrue)'
  BY DEF CallInv, custodyResolved, ReaderInv, mediaRemoved, EvidenceInv, MovementIsRecorded,
     CustodyIsTrue
<1>5. LeaseInv'
  BY DEF CallInv, custodyResolved, CustodyIsTrue, LeaseInv, ReleasedIsReleased, uses
<1> QED
  BY <1>1, <1>2, <1>3, <1>4, <1>5

\* The lease is released and the result reported.
LEMMA ReleaseInv == ASSUME CardInv, Release PROVE CardInv'
<1> USE GotoFacts, ReportedFacts, ReadFacts DEF Release, holds, mine, uses, custodyResolved,
      fault, NoLease
<1>1. ReaderTypes'
  OBVIOUS
<1>2. HostTypes'
  <2>1. uses \in {"given", "own"}
    OBVIOUS
  <2>2. lease' \in {lease, NoLease} /\ journal' = journal
    BY DEF reported
  <2> HIDE DEF LeaseObjects
  <2>3. obj' \in [{"given", "own"} -> LeaseObjects]
    BY <2>1, MarkedFacts
  <2> QED
    BY <2>2, <2>3 DEF Authorities
<1>3. CallTypes'
  <2>1. svc' \in Calls
    BY DEF CallInv
  <2>2. faults' \in {faults, faults + 1}
    OBVIOUS
  <2>3. request' = request /\ cards' = cards
    OBVIOUS
  <2> QED
    BY <2>1, <2>2, <2>3
<1>4. (CallInv /\ ReaderInv)'
  BY DEF CallInv, ReaderInv, mediaRemoved
<1>5. (EvidenceInv /\ CustodyIsTrue)'
  BY DEF CallInv, ReaderInv, mediaRemoved, EvidenceInv, MovementIsRecorded, CustodyIsTrue
<1>6. LeaseInv'
  <2>1. /\ uses' = uses /\ uses \in {"given", "own"}
        /\ svc'.pc \in {"done", "acknowledge"} /\ svc'.status = svc.status
    OBVIOUS
  <2>2. lease' \in {lease, NoLease} /\ NoLease.of = "nobody" /\ journal' = journal /\ request' = request
    BY DEF reported
  <2>3. CASE /\ lease' = IF holds /\ ~mine.released THEN NoLease ELSE lease
             /\ obj' = [obj EXCEPT ![uses].released = TRUE]
             /\ IF custodyResolved /\ ~mine.acknowledged THEN goto("acknowledge") ELSE reported(TRUE)
    <3>1. lease'.of # uses
      BY <2>1, <2>2, <2>3 DEF LeaseInv
    <3>2. \A u \in {"given", "own"} :
            /\ obj'[u].acknowledged = obj[u].acknowledged
            /\ obj'[u].released => u = uses \/ obj[u].released
      BY <2>1, <2>3
    <3>3. obj'[uses].released
      BY <2>1, <2>3
    <3>4. svc'.pc = "done" => (custodyResolved => journal = "clear")
      BY <2>1, <2>3 DEF LeaseInv
    <3> QED
      BY <2>1, <2>2, <3>1, <3>2, <3>3, <3>4 DEF LeaseInv, ReleasedIsReleased
  <2>4. CASE obj' = obj /\ reported(FALSE)
    BY <2>1, <2>2, <2>4 DEF LeaseInv, ReleasedIsReleased
  <2> QED
    BY <2>3, <2>4
<1> QED
  BY <1>1, <1>2, <1>3, <1>4, <1>5, <1>6

\* The protection of a resolved card is acknowledged.
LEMMA AcknowledgeInv == ASSUME CardInv, Acknowledge PROVE CardInv'
<1> USE ReportedFacts, ReadFacts DEF Acknowledge, uses, fault
<1>1. ReaderTypes'
  OBVIOUS
<1>2. HostTypes'
  <2>1. uses \in {"given", "own"}
    OBVIOUS
  <2> QED
    BY ZenonT(60), <2>1, MarkedFacts
<1>3. CallTypes'
  <2>1. svc' \in Calls
    BY DEF CallInv
  <2>2. faults' \in {faults, faults + 1}
    OBVIOUS
  <2>3. request' = request /\ cards' = cards
    OBVIOUS
  <2> QED
    BY <2>1, <2>2, <2>3
<1>4. (CallInv /\ ReaderInv)'
  BY DEF CallInv, custodyResolved, ReaderInv, mediaRemoved
<1>5. (EvidenceInv /\ CustodyIsTrue)'
  BY DEF CallInv, custodyResolved, ReaderInv, mediaRemoved, EvidenceInv, MovementIsRecorded,
     CustodyIsTrue
<1>6. LeaseInv'
  BY DEF CallInv, custodyResolved, CustodyIsTrue, LeaseInv, ReleasedIsReleased
<1> QED
  BY <1>1, <1>2, <1>3, <1>4, <1>5, <1>6

\* The eject request is on record.
LEMMA EjectRequestedInv == ASSUME CardInv, EjectRequested PROVE CardInv'
<1> USE GotoFacts, FinishFacts, ReadFacts DEF EjectRequested, record, recordOr, fault
<1>1. (ReaderTypes /\ HostTypes)'
  BY DEF Authorities
<1>2. CallTypes'
  OBVIOUS
<1>3. (CallInv /\ ReaderInv)'
  BY DEF CallInv, custodyResolved, ReaderInv, mediaRemoved
<1>4. (EvidenceInv /\ CustodyIsTrue)'
  BY DEF CallInv, custodyResolved, ReaderInv, mediaRemoved, EvidenceInv, MovementIsRecorded,
     CustodyIsTrue
<1>5. LeaseInv'
  BY DEF CallInv, custodyResolved, CustodyIsTrue, LeaseInv, ReleasedIsReleased, uses
<1> QED
  BY <1>1, <1>2, <1>3, <1>4, <1>5

\* The baseline is taken and the command sent, or the call gives up.
LEMMA EjectCardInv == ASSUME CardInv, EjectCard PROVE CardInv'
<1> USE SendsFacts, FinishFacts, ReadFacts DEF EjectCard, signalled, ejectFailed, fault
<1>1. (ReaderTypes /\ HostTypes)'
  BY DEF Authorities
<1>2. CallTypes'
  OBVIOUS
<1>3. (CallInv /\ ReaderInv)'
  BY DEF CallInv, custodyResolved, ReaderInv, mediaRemoved
<1>4. (EvidenceInv /\ CustodyIsTrue)'
  BY DEF CallInv, custodyResolved, ReaderInv, mediaRemoved, EvidenceInv, MovementIsRecorded,
     CustodyIsTrue
<1>5. LeaseInv'
  BY DEF CallInv, custodyResolved, CustodyIsTrue, LeaseInv, ReleasedIsReleased, uses
<1> QED
  BY <1>1, <1>2, <1>3, <1>4, <1>5

\* The reader answers the ejection.
LEMMA EjectReturnsInv == ASSUME CardInv, EjectReturns PROVE CardInv'
<1> USE GotoFacts, FinishFacts, ReadFacts DEF EjectReturns, signalled, ejectFailed, fault
<1>1. (ReaderTypes /\ HostTypes)'
  BY DEF Authorities
<1>2. CallTypes'
  OBVIOUS
<1>3. (CallInv /\ ReaderInv)'
  BY DEF CallInv, custodyResolved, ReaderInv, mediaRemoved
<1>4. (EvidenceInv /\ CustodyIsTrue)'
  BY DEF CallInv, custodyResolved, ReaderInv, mediaRemoved, EvidenceInv, MovementIsRecorded,
     CustodyIsTrue
<1>5. LeaseInv'
  BY DEF CallInv, custodyResolved, CustodyIsTrue, LeaseInv, ReleasedIsReleased, uses
<1> QED
  BY <1>1, <1>2, <1>3, <1>4, <1>5

\* The call gives up on the ejection, which may still happen.
LEMMA EjectAbandonedInv == ASSUME CardInv, EjectAbandoned PROVE CardInv'
<1> USE FinishFacts, ReadFacts DEF EjectAbandoned, signalled, ejectFailed, fault
<1>1. (ReaderTypes /\ HostTypes)'
  BY DEF Authorities
<1>2. CallTypes'
  OBVIOUS
<1>3. (CallInv /\ ReaderInv)'
  BY DEF CallInv, custodyResolved, ReaderInv, mediaRemoved
<1>4. (EvidenceInv /\ CustodyIsTrue)'
  BY DEF CallInv, custodyResolved, ReaderInv, mediaRemoved, EvidenceInv, MovementIsRecorded,
     CustodyIsTrue
<1>5. LeaseInv'
  BY DEF CallInv, custodyResolved, CustodyIsTrue, LeaseInv, ReleasedIsReleased, uses
<1> QED
  BY <1>1, <1>2, <1>3, <1>4, <1>5

\* The ejection is on record.
LEMMA EjectCompletedInv == ASSUME CardInv, EjectCompleted PROVE CardInv'
<1> USE GotoFacts, FinishFacts, ReadFacts DEF EjectCompleted, record, recordOr, fault
<1>1. (ReaderTypes /\ HostTypes)'
  BY DEF Authorities
<1>2. CallTypes'
  OBVIOUS
<1>3. (CallInv /\ ReaderInv)'
  BY DEF CallInv, custodyResolved, ReaderInv, mediaRemoved
<1>4. (EvidenceInv /\ CustodyIsTrue)'
  BY DEF CallInv, custodyResolved, ReaderInv, mediaRemoved, EvidenceInv, MovementIsRecorded,
     CustodyIsTrue
<1>5. LeaseInv'
  BY DEF CallInv, custodyResolved, CustodyIsTrue, LeaseInv, ReleasedIsReleased, uses
<1> QED
  BY <1>1, <1>2, <1>3, <1>4, <1>5

\* The customer takes the card, or the time is over, or the call is aborted.
LEMMA WaitForTakenInv == ASSUME CardInv, WaitForTaken PROVE CardInv'
<1> USE GotoFacts, FinishFacts, RetainForFacts, ReadFacts DEF WaitForTaken, mediaRemoved,
      signalled, takeUncertain, resolve, fault, Resolutions
<1>1. (ReaderTypes /\ HostTypes)'
  BY DEF Authorities
<1>2. CallTypes'
  <2>1. svc' \in Calls
    BY DEF CallInv
  <2>2. faults' \in {faults, faults + 1}
    OBVIOUS
  <2>3. request' = request /\ cards' = cards
    OBVIOUS
  <2> QED
    BY <2>1, <2>2, <2>3
<1>3. (CallInv /\ ReaderInv)'
  BY ZenonT(60) DEF CallInv, custodyResolved, ReaderInv
<1>4. (EvidenceInv /\ CustodyIsTrue)'
  BY DEF CallInv, custodyResolved, ReaderInv, EvidenceInv, MovementIsRecorded, CustodyIsTrue
<1>5. LeaseInv'
  BY DEF CallInv, custodyResolved, CustodyIsTrue, LeaseInv, ReleasedIsReleased, uses
<1> QED
  BY <1>1, <1>2, <1>3, <1>4, <1>5

\* What was seen is on record and the policy decides.
LEMMA TakeObservedInv == ASSUME CardInv, TakeObserved PROVE CardInv'
<1> USE FinishFacts, RetainForFacts, ReadFacts DEF TakeObserved, recordOr, signalled,
      takeUncertain, resolve, fault, Resolutions
<1>1. (ReaderTypes /\ HostTypes)'
  BY DEF Authorities
<1>2. CallTypes'
  <2>1. svc' \in Calls
    BY DEF CallInv
  <2>2. faults' \in {faults, faults + 1}
    OBVIOUS
  <2>3. request' = request /\ cards' = cards
    OBVIOUS
  <2> QED
    BY <2>1, <2>2, <2>3
<1>3. (CallInv /\ ReaderInv)'
  BY ZenonT(60) DEF CallInv, custodyResolved, ReaderInv, mediaRemoved
<1>4. (EvidenceInv /\ CustodyIsTrue)'
  BY DEF CallInv, custodyResolved, ReaderInv, mediaRemoved, EvidenceInv, MovementIsRecorded,
     CustodyIsTrue
<1>5. LeaseInv'
  BY DEF CallInv, custodyResolved, CustodyIsTrue, LeaseInv, ReleasedIsReleased, uses
<1> QED
  BY <1>1, <1>2, <1>3, <1>4, <1>5

\* The retain request is on record.
LEMMA RetainRequestedInv == ASSUME CardInv, RetainRequested PROVE CardInv'
<1> USE GotoFacts, FinishFacts, ReadFacts DEF RetainRequested, record, recordOr, fault
<1>1. (ReaderTypes /\ HostTypes)'
  BY DEF Authorities
<1>2. CallTypes'
  OBVIOUS
<1>3. (CallInv /\ ReaderInv)'
  BY DEF CallInv, custodyResolved, ReaderInv, mediaRemoved
<1>4. (EvidenceInv /\ CustodyIsTrue)'
  BY DEF CallInv, custodyResolved, ReaderInv, mediaRemoved, EvidenceInv, MovementIsRecorded,
     CustodyIsTrue
<1>5. LeaseInv'
  BY DEF CallInv, custodyResolved, CustodyIsTrue, LeaseInv, ReleasedIsReleased, uses
<1> QED
  BY <1>1, <1>2, <1>3, <1>4, <1>5

\* The retain command is sent.
LEMMA RetainCardInv == ASSUME CardInv, RetainCard PROVE CardInv'
<1> USE SendsFacts, FinishFacts, ReadFacts DEF RetainCard, retainFailed, fault
<1>1. (ReaderTypes /\ HostTypes)'
  BY DEF Authorities
<1>2. CallTypes'
  OBVIOUS
<1>3. (CallInv /\ ReaderInv)'
  BY DEF CallInv, custodyResolved, ReaderInv, mediaRemoved
<1>4. (EvidenceInv /\ CustodyIsTrue)'
  BY DEF CallInv, custodyResolved, ReaderInv, mediaRemoved, EvidenceInv, MovementIsRecorded,
     CustodyIsTrue
<1>5. LeaseInv'
  BY DEF CallInv, custodyResolved, CustodyIsTrue, LeaseInv, ReleasedIsReleased, uses
<1> QED
  BY <1>1, <1>2, <1>3, <1>4, <1>5

\* The reader answers the retain.
LEMMA RetainReturnsInv == ASSUME CardInv, RetainReturns PROVE CardInv'
<1> USE GotoFacts, FinishFacts, ReadFacts DEF RetainReturns, retainFailed, fault
<1>1. (ReaderTypes /\ HostTypes)'
  BY DEF Authorities
<1>2. CallTypes'
  OBVIOUS
<1>3. (CallInv /\ ReaderInv)'
  BY DEF CallInv, custodyResolved, ReaderInv, mediaRemoved
<1>4. (EvidenceInv /\ CustodyIsTrue)'
  BY DEF CallInv, custodyResolved, ReaderInv, mediaRemoved, EvidenceInv, MovementIsRecorded,
     CustodyIsTrue
<1>5. LeaseInv'
  BY DEF CallInv, custodyResolved, CustodyIsTrue, LeaseInv, ReleasedIsReleased, uses
<1> QED
  BY <1>1, <1>2, <1>3, <1>4, <1>5

\* The call gives up on the retain, which may still happen.
LEMMA RetainAbandonedInv == ASSUME CardInv, RetainAbandoned PROVE CardInv'
<1> USE FinishFacts, ReadFacts DEF RetainAbandoned, retainFailed, fault
<1>1. (ReaderTypes /\ HostTypes)'
  BY DEF Authorities
<1>2. CallTypes'
  OBVIOUS
<1>3. (CallInv /\ ReaderInv)'
  BY DEF CallInv, custodyResolved, ReaderInv, mediaRemoved
<1>4. (EvidenceInv /\ CustodyIsTrue)'
  BY DEF CallInv, custodyResolved, ReaderInv, mediaRemoved, EvidenceInv, MovementIsRecorded,
     CustodyIsTrue
<1>5. LeaseInv'
  BY DEF CallInv, custodyResolved, CustodyIsTrue, LeaseInv, ReleasedIsReleased, uses
<1> QED
  BY <1>1, <1>2, <1>3, <1>4, <1>5

\* The retain is on record.
LEMMA RetainCompletedInv == ASSUME CardInv, RetainCompleted PROVE CardInv'
<1> USE FinishFacts, ReadFacts DEF RetainCompleted, recordOr, retainFailed, fault
<1>1. (ReaderTypes /\ HostTypes)'
  BY DEF Authorities
<1>2. CallTypes'
  OBVIOUS
<1>3. (CallInv /\ ReaderInv)'
  BY DEF CallInv, custodyResolved, ReaderInv, mediaRemoved
<1>4. (EvidenceInv /\ CustodyIsTrue)'
  BY DEF CallInv, custodyResolved, ReaderInv, mediaRemoved, EvidenceInv, MovementIsRecorded,
     CustodyIsTrue
<1>5. LeaseInv'
  BY DEF CallInv, custodyResolved, CustodyIsTrue, LeaseInv, ReleasedIsReleased, uses
<1> QED
  BY <1>1, <1>2, <1>3, <1>4, <1>5

\* The reader is asked where the card is.
LEMMA ObserveMediaInv == ASSUME CardInv, ObserveMedia PROVE CardInv'
<1> USE GotoFacts, SeenFacts, ReadFacts DEF ObserveMedia, mediaState, fault, MediaStates
<1>1. (ReaderTypes /\ HostTypes)'
  BY DEF Authorities
<1>2. CallTypes'
  OBVIOUS
<1>3. (CallInv /\ ReaderInv)'
  BY DEF CallInv, custodyResolved, ReaderInv, mediaRemoved
<1>4. (EvidenceInv /\ CustodyIsTrue)'
  BY DEF CallInv, custodyResolved, ReaderInv, mediaRemoved, EvidenceInv, MovementIsRecorded,
     CustodyIsTrue
<1>5. LeaseInv'
  BY DEF CallInv, custodyResolved, CustodyIsTrue, LeaseInv, ReleasedIsReleased, uses
<1> QED
  BY <1>1, <1>2, <1>3, <1>4, <1>5

\* What was seen is on record.
LEMMA ReconcileInv == ASSUME CardInv, Reconcile PROVE CardInv'
<1> USE FinishFacts, ReadFacts DEF Reconcile, record, recordOr, observed, fault
<1>1. (ReaderTypes /\ HostTypes)'
  BY DEF Authorities
<1>2. CallTypes'
  OBVIOUS
<1>3. (CallInv /\ ReaderInv)'
  BY DEF CallInv, custodyResolved, ReaderInv, mediaRemoved
<1>4. (EvidenceInv /\ CustodyIsTrue)'
  BY DEF CallInv, custodyResolved, ReaderInv, mediaRemoved, EvidenceInv, MovementIsRecorded,
     CustodyIsTrue
<1>5. LeaseInv'
  BY DEF CallInv, custodyResolved, CustodyIsTrue, LeaseInv, ReleasedIsReleased, uses
<1> QED
  BY <1>1, <1>2, <1>3, <1>4, <1>5

\* A command nobody waits for is executed or dropped.
LEMMA LateCommandInv == ASSUME CardInv, LateCommand PROVE CardInv'
<1> USE DEF LateCommand, waiting
<1>1. (ReaderTypes /\ HostTypes)'
  BY DEF Authorities
<1>2. CallTypes'
  OBVIOUS
<1>3. (CallInv /\ ReaderInv)'
  BY DEF CallInv, custodyResolved, ReaderInv, mediaRemoved
<1>4. (EvidenceInv /\ CustodyIsTrue)'
  BY DEF CallInv, custodyResolved, ReaderInv, mediaRemoved, EvidenceInv, MovementIsRecorded,
     CustodyIsTrue
<1>5. LeaseInv'
  BY DEF CallInv, custodyResolved, CustodyIsTrue, LeaseInv, ReleasedIsReleased, uses
<1> QED
  BY <1>1, <1>2, <1>3, <1>4, <1>5

\* The customer takes the card.
LEMMA CustomerTakesInv == ASSUME CardInv, CustomerTakes PROVE CardInv'
<1> USE DEF CustomerTakes
<1>1. (ReaderTypes /\ HostTypes)'
  BY DEF Authorities
<1>2. CallTypes'
  OBVIOUS
<1>3. (CallInv /\ ReaderInv)'
  BY DEF CallInv, custodyResolved, ReaderInv, mediaRemoved
<1>4. (EvidenceInv /\ CustodyIsTrue)'
  BY DEF CallInv, custodyResolved, ReaderInv, mediaRemoved, EvidenceInv, MovementIsRecorded,
     CustodyIsTrue
<1>5. LeaseInv'
  BY DEF CallInv, custodyResolved, CustodyIsTrue, LeaseInv, ReleasedIsReleased, uses
<1> QED
  BY <1>1, <1>2, <1>3, <1>4, <1>5

\* The event arrives.
LEMMA MediaRemovedEventInv == ASSUME CardInv, MediaRemovedEvent PROVE CardInv'
<1> USE DEF MediaRemovedEvent
<1>1. ReaderTypes'
  <2>1. removed' \in Nat /\ baseline' \in 0..removed'
    OBVIOUS
  <2> QED
    BY <2>1
<1>2. HostTypes'
  BY DEF Authorities
<1>3. CallTypes'
  OBVIOUS
<1>4. (CallInv /\ ReaderInv)'
  BY DEF CallInv, custodyResolved, ReaderInv, mediaRemoved
<1>5. (EvidenceInv /\ CustodyIsTrue)'
  BY DEF CallInv, custodyResolved, ReaderInv, mediaRemoved, EvidenceInv, MovementIsRecorded,
     CustodyIsTrue
<1>6. LeaseInv'
  BY DEF CallInv, custodyResolved, CustodyIsTrue, LeaseInv, ReleasedIsReleased, uses
<1> QED
  BY <1>1, <1>2, <1>3, <1>4, <1>5, <1>6

\* The host's lease expires.
LEMMA LeaseExpiresInv == ASSUME CardInv, LeaseExpires PROVE CardInv'
<1> USE DEF LeaseExpires, fault, NoLease
<1>1. (ReaderTypes /\ HostTypes)'
  BY DEF Authorities
<1>2. CallTypes'
  OBVIOUS
<1>3. (CallInv /\ ReaderInv)'
  BY DEF CallInv, custodyResolved, ReaderInv, mediaRemoved
<1>4. (EvidenceInv /\ CustodyIsTrue)'
  BY DEF CallInv, custodyResolved, ReaderInv, mediaRemoved, EvidenceInv, MovementIsRecorded,
     CustodyIsTrue
<1>5. LeaseInv'
  BY DEF CallInv, custodyResolved, CustodyIsTrue, LeaseInv, ReleasedIsReleased, uses
<1> QED
  BY <1>1, <1>2, <1>3, <1>4, <1>5

\* The signal fires.
LEMMA AbortInv == ASSUME CardInv, Abort PROVE CardInv'
<1> USE AbortedFacts, ReadFacts DEF Abort
<1>1. (ReaderTypes /\ HostTypes)'
  BY DEF Authorities
<1>2. CallTypes'
  OBVIOUS
<1>3. (CallInv /\ ReaderInv)'
  BY DEF CallInv, custodyResolved, ReaderInv, mediaRemoved
<1>4. (EvidenceInv /\ CustodyIsTrue)'
  BY DEF CallInv, custodyResolved, ReaderInv, mediaRemoved, EvidenceInv, MovementIsRecorded,
     CustodyIsTrue
<1>5. LeaseInv'
  BY DEF CallInv, custodyResolved, CustodyIsTrue, LeaseInv, ReleasedIsReleased, uses
<1> QED
  BY <1>1, <1>2, <1>3, <1>4, <1>5

\* The next customer inserts a card.
LEMMA InsertCardInv == ASSUME CardInv, InsertCard PROVE CardInv'
<1> USE NoCallFacts, ReadFacts DEF InsertCard, over, NoLease, Requests, newObjects, leaseObject
<1>1. (ReaderTypes /\ HostTypes)'
  BY DEF Authorities
<1>2. CallTypes'
  <2>1. request' \in [takeTimeoutAction : Resolutions, interruptAction : Resolutions,
                     reason : Reasons, given : BOOLEAN, aborted : BOOLEAN]
    OBVIOUS
  <2> QED
    BY <2>1
<1>3. (CallInv /\ ReaderInv)'
  BY DEF CallInv, custodyResolved, ReaderInv, mediaRemoved
<1>4. (EvidenceInv /\ CustodyIsTrue)'
  BY DEF CallInv, custodyResolved, ReaderInv, mediaRemoved, EvidenceInv, MovementIsRecorded,
     CustodyIsTrue
<1>5. LeaseInv'
  BY DEF CallInv, custodyResolved, CustodyIsTrue, LeaseInv, ReleasedIsReleased, uses
<1> QED
  BY <1>1, <1>2, <1>3, <1>4, <1>5

\* A call begins.
LEMMA CallStepInv ==
  ASSUME CardInv, NEW kind \in Kinds \ {"none"}, NEW signal \in BOOLEAN, call(kind, signal)
  PROVE  CardInv'
<1> USE NewCallFacts, ReadFacts DEF call, over
<1>1. /\ svc' \in Calls /\ svc'.kind = kind /\ svc'.status = "none" /\ ~svc'.released /\ ~svc'.moved
      /\ svc'.pc = IF request.given /\ kind # "reconcile" THEN "transition" ELSE "acquire"
  OBVIOUS
<1> HIDE NewCallFacts
<1>2. (ReaderTypes /\ HostTypes)'
  BY DEF Authorities
<1>3. CallTypes'
  BY <1>1
<1>4. CallInv'
  BY <1>1 DEF CallInv, custodyResolved
<1>5. ReaderInv'
  <2>1. svc'.pc \in {"transition", "acquire"}
    BY <1>1
  <2>2. UNCHANGED <<card, event>>
    OBVIOUS
  <2> QED
    BY <2>1, <2>2 DEF ReaderInv
<1>6. (EvidenceInv /\ CustodyIsTrue)'
  BY <1>1 DEF EvidenceInv, MovementIsRecorded, CustodyIsTrue
<1>7. LeaseInv'
  BY <1>1 DEF LeaseInv, ReleasedIsReleased, uses
<1> QED
  BY <1>2, <1>3, <1>4, <1>5, <1>6, <1>7

\* The caller starts a call of any kind.
LEMMA CallerInv == ASSUME CardInv, Caller PROVE CardInv'
BY CallStepInv DEF Caller, returnCard, retainCard, reconcile

\* A step of the caller that leaves the card alone.
LEMMA QuietInv ==
  ASSUME CardInv, UNCHANGED <<card, dev, event, removed, baseline, lease, obj, journal>>,
         UNCHANGED <<evid, svc, request, cards>>, faults' \in Nat
  PROVE  CardInv'
BY DEF CallInv, ReaderInv, EvidenceInv, CustodyIsTrue, LeaseInv, MovementIsRecorded,
       ReleasedIsReleased, custodyResolved, mediaRemoved, uses

\* A service that has not been called.
LEMMA FreshInv ==
  ASSUME card \in {"none", "inside"}, dev = "none", event = FALSE, removed = 0, baseline = 0,
         lease \in Leases, journal \in {"open", "clear"}, card = "inside" => journal = "open",
         obj = newObjects, evid = {}, svc = NoCall, request \in Requests,
         cards \in Nat, faults = 0
  PROVE  CardInv
<1> USE NoCallFacts
<1>1. ReaderTypes
  <2>1. event \in BOOLEAN
    BY Zenon
  <2> QED
    BY <2>1
<1>2. HostTypes
  <2>1. \A a \in Authorities : leaseObject(a) \in LeaseObjects
    BY DEF leaseObject
  <2> HIDE DEF LeaseObjects, Leases
  <2>2. newObjects \in [{"given", "own"} -> LeaseObjects]
    BY <2>1 DEF newObjects, Authorities
  <2> QED
    BY <2>2
<1>3. CallTypes
  BY DEF Requests
<1>4. CallInv /\ ReaderInv
  BY DEF CallInv, ReaderInv, custodyResolved
<1>5. EvidenceInv /\ CustodyIsTrue
  BY DEF EvidenceInv, MovementIsRecorded, CustodyIsTrue
<1>6. LeaseInv
  BY DEF LeaseInv, ReleasedIsReleased, newObjects, leaseObject
<1> QED
  BY <1>1, <1>2, <1>3, <1>4, <1>5, <1>6

\* The reader with its first customer.
LEMMA CardInitInv == CardInit => CardInv
<1>1. NoLease \in Leases
  BY DEF NoLease, Authorities
<1> HIDE DEF CardInv, Leases
<1>2. CardInit => /\ card \in {"none", "inside"} /\ journal \in {"open", "clear"}
                  /\ card # "inside" /\ cards \in Nat /\ request \in Requests
  BY DEF CardInit
<1> QED
  BY <1>1, <1>2, FreshInv, Zenon DEF CardInit

\* Every step of the card service.
LEMMA ServiceInv == ASSUME CardInv, Service PROVE CardInv'
BY TransitionToRecoveryInv, AcquireInv, AuthorityAcquiredInv, ReleaseInv, AcknowledgeInv,
   EjectRequestedInv, EjectCardInv, EjectReturnsInv, EjectAbandonedInv, EjectCompletedInv,
   WaitForTakenInv, TakeObservedInv, RetainRequestedInv, RetainCardInv, RetainReturnsInv,
   RetainAbandonedInv, RetainCompletedInv, ObserveMediaInv, ReconcileInv DEF Service

\* Every step of the reader, the customer and the host.
LEMMA OutsideInv == ASSUME CardInv, Outside PROVE CardInv'
BY LateCommandInv, CustomerTakesInv, MediaRemovedEventInv, LeaseExpiresInv, AbortInv DEF Outside

\* Every step.
LEMMA CardStepInv == CardInv /\ [CardNext]_custodyVars => CardInv'
<1> SUFFICES ASSUME CardInv, [CardNext]_custodyVars PROVE CardInv'
  OBVIOUS
<1>1. CASE Service \/ Outside
  BY <1>1, ServiceInv, OutsideInv
<1>2. CASE UNCHANGED custodyVars
  BY <1>2, QuietInv
<1> QED
  BY <1>1, <1>2, InsertCardInv, CallerInv DEF CardNext

\* The invariant of every behaviour.
LEMMA CardInvariant == CardSpec => []CardInv
<1>1. CardInv /\ [CardNext]_custodyVars => CardInv'
  BY CardStepInv
<1> QED
  BY <1>1, CardInitInv, PTL DEF CardSpec

\* The invariant says what a caller relies on.
LEMMA CardInvSuffices == ASSUME CardInv PROVE CardIsAccountedFor
<1>1. CardTypeOK
  BY ReadFacts DEF CardTypeOK, CallInv
<1>2. CustodyIsTrue /\ MovementIsRecorded /\ ReleasedIsReleased
  BY DEF EvidenceInv, LeaseInv
<1>3. RejectedCallMovedNothing
  BY DEF RejectedCallMovedNothing, CallInv
<1> QED
  BY <1>1, <1>2, <1>3 DEF CardIsAccountedFor

(* The call's result, the evidence, the host's lease and its protection are *)
(* true of the card: nothing is reported returned, retained or released     *)
(* that is not, and no card moves without its request on record             *)
(* (card-custody.ts: ejectCard, retainCard, withAuthority, release).        *)
THEOREM CardsAreAccountedFor == CardSpec => []CardIsAccountedFor
<1>1. CardInv => CardIsAccountedFor
  BY CardInvSuffices
<1> QED
  BY <1>1, CardInvariant, PTL
-----------------------------------------------------------------------------
(* The withdrawal, for which the card's invariant is opaque.                *)

HIDE DEF CardInv, ReaderTypes, HostTypes, CallTypes, Leases, LeaseObjects, Same, Awaits, Statuses,
         CallReasons, Kinds, custodyVars, reader, host

Steps == {"recover", "start", "audit", "authorize", "mark", "auditAuthorized", "startCash",
          "dispense", "gate", "authorizePresent", "present", "take", "abort", "exit", "card",
          "awaitCard", "finalize", "ended", "rejected"}
CashFacts == {"not-started", "pending", "notDispensed", "taken", "retracted", "custodyUnknown",
              "recovery-transferred"}
CommandFacts == {"not-requested", "completed", "execution-unknown", "failed"}
Outcomes == {"none", "completed", "declined", "cancelled", "timedOut", "failed", "intervention"}
EndReasons ==
  {"none", "completed", "recovery-barrier-blocked", "unexpected-failure", "operation-timeout",
   "user-cancelled", "card-take-timeout", "card-cancelled", "card-custody-unresolved",
   "cash-take-timeout", "cash-custody-unknown", "verification-cancelled", "verification-timeout",
   "verification-rejected", "host-declined", "host-unavailable", "cash-start-failed",
   "cash-dispense-failed", "cash-present-failed", "cash-presentation-not-authorized"}
Operations ==
  [pc : Steps, host : {"not-requested", "approved", "declined", "unavailable"},
   custody : CashFacts, dispense : CommandFacts, present : CommandFacts, reconcile : BOOLEAN,
   card : Statuses \cup {"not-applicable", "pending", "session-retained"},
   cardReason : CallReasons, then : {"conclude", "cardFirst", "terminal"},
   respect : BOOLEAN, caught : BOOLEAN, status : Outcomes, reason : EndReasons, admitted : BOOLEAN]
Sessions ==
  [phase : {"none", "planned", "staged", "awaitingTake", "terminal", "transferred"}, moved : BOOLEAN]

WithdrawalTypes ==
  /\ w \in Operations /\ sess \in Sessions /\ config \in Configs
  /\ notes \in {"vault", "staged", "slot", "customer", "bin"}

\* The notes are dispensed and not yet asked for.
Staged == sess.phase = "staged" /\ sess.moved /\ notes = "staged" /\ w.dispense = "completed"
Resolving == w.pc \in {"card", "awaitCard"}
Escalated == w.custody \in {"custodyUnknown", "recovery-transferred"}

\* Where the notes are while the withdrawal goes forward.
ForwardInv ==
  /\ ~sess.moved => notes = "vault"
  /\ w.pc \in {"recover", "start", "audit", "startCash"} => sess.phase = "none" /\ w.custody = "not-started"
  /\ sess.phase \in {"none", "planned"} => w.dispense # "completed"
  /\ sess.phase = "none" => ~sess.moved /\ w.dispense = "not-requested"
  /\ w.pc \in {"authorize", "mark", "auditAuthorized", "dispense"} =>
       sess.phase \in {"none", "planned"} /\ ~sess.moved /\ w.dispense = "not-requested"
  /\ w.pc \in {"authorize", "mark", "auditAuthorized", "dispense"} /\ sess.phase = "planned" =>
       w.custody = "pending"
  /\ w.pc \in {"authorize", "mark", "auditAuthorized"} /\ sess.phase = "none" =>
       w.custody = "not-started"
  /\ w.pc = "dispense" => sess.phase = "planned"
  /\ w.pc \in {"mark", "auditAuthorized", "dispense"} => w.host = "approved"
  /\ w.pc \in {"gate", "authorizePresent", "present"} => Staged /\ w.custody = "pending"
  /\ Resolving /\ w.then = "cardFirst" => Staged /\ w.custody = "pending"
  /\ w.pc = "take" => sess.phase = "awaitingTake" /\ sess.moved /\ notes \in {"slot", "customer"}
  /\ w.pc = "abort" => /\ sess.phase \in {"planned", "staged"}
                       /\ sess.moved => notes = "staged"
  /\ w.pc = "exit" => sess.phase \notin {"none", "terminal"}

\* What the orchestrator says of the cash.
CashInv ==
  /\ w.custody = "not-started" => sess.phase = "none"
  /\ w.custody = "taken" => notes = "customer" /\ sess.phase = "terminal"
  /\ w.custody = "retracted" => notes = "bin" /\ sess.phase = "terminal"
  /\ w.custody = "notDispensed" => ~sess.moved /\ sess.phase = "terminal"
  /\ Escalated => w.reconcile
  /\ w.dispense = "completed" => notes # "vault"
  /\ w.dispense \in {"not-requested", "failed"} => notes = "vault"
  /\ notes # "vault" => w.host = "approved"

\* How an operation ends: its status is known before the card is resolved, and
\* open custody of the notes is known by then.
EndInv ==
  /\ w.caught => w.then = "conclude" /\ w.pc \in {"exit", "card", "awaitCard", "finalize", "ended", "rejected"}
  /\ w.then = "terminal" => sess.phase = "terminal"
  /\ w.pc \in {"abort", "exit"} => w.then = "conclude" /\ w.status # "none"
  /\ Resolving /\ w.then = "conclude" => w.status # "none"
  /\ (Resolving /\ w.then # "cardFirst") \/ w.pc = "finalize" \/ hasOutcome =>
       /\ sess.phase \notin {"none", "terminal", "transferred"} => w.custody = "custodyUnknown"
       /\ inTransport => Escalated
  /\ finished /\ sess.phase \notin {"none", "terminal", "transferred"} => w.custody = "custodyUnknown"
  /\ w.pc \in {"finalize", "ended"} => w.status # "none"
  /\ hasOutcome /\ Escalated => w.status = "intervention"
  /\ w.status = "completed" => notes = "customer" /\ (ownCard => card = "customer")
  /\ w.pc \notin {"recover", "start", "ended", "rejected"} => w.admitted

\* What the orchestrator says of the card.
CardSideInv ==
  /\ w.card = "returned" => card = "customer"
  /\ w.card = "session-retained" => config.cardOrder = "managed-by-parent-session"
  /\ (ownCard /\ config.cardOrder = "return-before-cash-present"
        /\ w.pc \in {"authorizePresent", "present", "take"}) => card = "customer"
  /\ CardBeforeCash

WithdrawalInv ==
  CardInv /\ WithdrawalTypes /\ ForwardInv /\ CashInv /\ EndInv /\ CardSideInv

-----------------------------------------------------------------------------
(* What the updates of the operation leave in its fields.                  *)

\* Every outcome and reason of the code is one.
LEMMA Named ==
  /\ {"completed", "declined", "cancelled", "timedOut", "failed", "intervention"} \subseteq Outcomes
  /\ "recovery-barrier-blocked" \in EndReasons /\ "unexpected-failure" \in EndReasons
  /\ "operation-timeout" \in EndReasons /\ "user-cancelled" \in EndReasons
  /\ "card-take-timeout" \in EndReasons /\ "card-cancelled" \in EndReasons
  /\ "card-custody-unresolved" \in EndReasons /\ "cash-take-timeout" \in EndReasons
  /\ "cash-custody-unknown" \in EndReasons /\ "verification-cancelled" \in EndReasons
  /\ "verification-timeout" \in EndReasons /\ "verification-rejected" \in EndReasons
  /\ "host-declined" \in EndReasons /\ "host-unavailable" \in EndReasons
  /\ "cash-start-failed" \in EndReasons /\ "cash-dispense-failed" \in EndReasons
  /\ "cash-present-failed" \in EndReasons /\ "cash-presentation-not-authorized" \in EndReasons
BY DEF Outcomes, EndReasons

SameFacts(u, v) ==
  /\ u.host = v.host /\ u.custody = v.custody /\ u.dispense = v.dispense
  /\ u.reconcile = v.reconcile /\ u.card = v.card /\ u.admitted = v.admitted

\* to moves the operation and keeps everything else.
LEMMA ToFacts ==
  ASSUME NEW v \in Operations, NEW pc \in Steps
  PROVE  LET u == to(v, pc)
         IN /\ u \in Operations /\ SameFacts(u, v) /\ u.pc = pc /\ u.then = v.then
            /\ u.caught = v.caught /\ u.status = v.status /\ u.reason = v.reason
<1>1. to(v, pc) \in Operations
  BY DEF to, Operations
<1> QED
  BY <1>1 DEF to, Operations, SameFacts

\* heading sets the outcome the operation is heading for.
LEMMA HeadingFacts ==
  ASSUME NEW v \in Operations, NEW status \in Outcomes, NEW reason \in EndReasons
  PROVE  LET u == heading(v, status, reason)
         IN /\ u \in Operations /\ SameFacts(u, v) /\ u.pc = v.pc /\ u.then = "conclude"
            /\ u.caught = v.caught /\ u.status = status /\ u.reason = reason
<1>1. heading(v, status, reason) \in Operations
  BY DEF heading, Operations
<1> QED
  BY <1>1 DEF heading, Operations, SameFacts

\* concluded: open custody makes the outcome an intervention.
LEMMA ConcludedFacts ==
  ASSUME NEW v \in Operations
  PROVE  LET u == concluded(v)
         IN /\ u \in Operations /\ SameFacts(u, v) /\ u.pc = "finalize" /\ u.then = v.then
            /\ u.caught = v.caught /\ u.status = safetyStatus(v)
<1>1. safetyStatus(v) \in Outcomes
  BY DEF safetyStatus, Operations, Outcomes
<1>2. concluded(v) \in Operations
  BY <1>1 DEF concluded, Operations, Steps
<1> QED
  BY <1>1, <1>2 DEF concluded, Operations, SameFacts

\* started admits the operation.
LEMMA StartedFacts ==
  ASSUME NEW v \in Operations
  PROVE  LET u == started(v)
         IN /\ u \in Operations /\ u.pc = "audit" /\ u.admitted /\ u.then = v.then /\ u.caught = v.caught
            /\ u.status = v.status /\ u.host = v.host /\ u.custody = v.custody
            /\ u.dispense = v.dispense /\ u.reconcile = v.reconcile /\ u.card = v.card
<1>1. started(v) \in Operations
  BY DEF started, Operations, Steps
<1> QED
  BY <1>1 DEF started, Operations, Steps, SameFacts

\* blocked ends an operation that was never admitted.
LEMMA BlockedFacts ==
  ASSUME NEW v \in Operations
  PROVE  LET u == blocked(v)
         IN /\ u \in Operations /\ SameFacts(u, v) /\ u.pc = "ended" /\ u.then = v.then
            /\ u.caught = v.caught /\ u.status = "intervention"
<1>1. blocked(v) \in Operations
  BY Named DEF blocked, Operations, Steps
<1> QED
  BY <1>1 DEF blocked, Operations, Steps, Outcomes, SameFacts

\* hostSays records the answer of the host.
LEMMA HostSaysFacts ==
  ASSUME NEW v \in Operations, NEW status \in {"approved", "declined", "unavailable"}
  PROVE  LET u == hostSays(v, status)
         IN /\ u \in Operations /\ u.pc = v.pc /\ u.admitted = v.admitted /\ u.then = v.then
            /\ u.caught = v.caught /\ u.status = v.status /\ u.host = status /\ u.custody = v.custody
            /\ u.dispense = v.dispense /\ u.reconcile = v.reconcile /\ u.card = v.card
<1>1. hostSays(v, status) \in Operations
  BY DEF hostSays, Operations
<1> QED
  BY <1>1 DEF hostSays, Operations, SameFacts

\* cardNext leaves for the card with a continuation.
LEMMA CardNextFacts ==
  ASSUME NEW v \in Operations, NEW then \in {"cardFirst", "terminal"}
  PROVE  LET u == cardNext(v, then)
         IN /\ u \in Operations /\ SameFacts(u, v) /\ u.pc = "card" /\ u.then = then
            /\ u.caught = v.caught /\ u.status = v.status
<1>1. cardNext(v, then) \in Operations
  BY DEF cardNext, Operations, Steps
<1> QED
  BY <1>1 DEF cardNext, Operations, Steps, SameFacts

\* planned records that there is a session.
LEMMA PlannedFacts ==
  ASSUME NEW v \in Operations
  PROVE  LET u == planned(v)
         IN /\ u \in Operations /\ u.host = v.host /\ u.card = v.card /\ u.admitted = v.admitted
            /\ u.caught = v.caught /\ u.pc = v.pc /\ u.then = v.then /\ u.status = v.status
            /\ u.custody = "pending" /\ u.dispense = v.dispense /\ u.reconcile = v.reconcile
<1>1. planned(v) \in Operations
  BY DEF planned, Operations, CashFacts
<1> QED
  BY <1>1 DEF planned, Operations, CashFacts, SameFacts

\* applyCashTerminal records the outcome of the session.
LEMMA CashTerminalFacts ==
  ASSUME NEW v \in Operations, NEW outcome \in CashFacts, NEW required \in BOOLEAN
  PROVE  LET u == applyCashTerminal(v, outcome, required)
         IN /\ u \in Operations /\ u.host = v.host /\ u.card = v.card /\ u.admitted = v.admitted
            /\ u.caught = v.caught /\ u.pc = v.pc /\ u.then = v.then /\ u.status = v.status /\ u.reason = v.reason
            /\ u.custody = outcome /\ u.dispense = v.dispense /\ u.reconcile = required
<1>1. applyCashTerminal(v, outcome, required) \in Operations
  BY DEF applyCashTerminal, Operations
<1> QED
  BY <1>1 DEF applyCashTerminal, Operations, SameFacts

\* dispensed records that the notes are staged.
LEMMA DispensedFacts ==
  ASSUME NEW v \in Operations
  PROVE  LET u == dispensed(v)
         IN /\ u \in Operations /\ u.host = v.host /\ u.card = v.card /\ u.admitted = v.admitted
            /\ u.caught = v.caught /\ u.pc = "gate" /\ u.then = v.then /\ u.status = v.status
            /\ u.custody = v.custody /\ u.dispense = "completed" /\ u.reconcile = v.reconcile
<1>1. dispensed(v) \in Operations
  BY ZenonT(60) DEF dispensed, Operations, Steps, CommandFacts
<1> QED
  BY <1>1 DEF dispensed, Operations, Steps, CommandFacts, SameFacts

\* presented records that the notes are in the slot.
LEMMA PresentedFacts ==
  ASSUME NEW v \in Operations
  PROVE  LET u == presented(v)
         IN /\ u \in Operations /\ u.host = v.host /\ u.card = v.card /\ u.admitted = v.admitted
            /\ u.caught = v.caught /\ u.pc = "take" /\ u.then = v.then /\ u.status = v.status
            /\ u.custody = v.custody /\ u.dispense = v.dispense /\ u.reconcile = v.reconcile
<1>1. presented(v) \in Operations
  BY ZenonT(60) DEF presented, Operations, Steps, CommandFacts
<1> QED
  BY <1>1 DEF presented, Operations, Steps, CommandFacts, SameFacts

\* handedOver records that recovery has the session.
LEMMA HandedOverFacts ==
  ASSUME NEW v \in Operations
  PROVE  LET u == handedOver(v)
         IN /\ u \in Operations /\ u.host = v.host /\ u.card = v.card /\ u.admitted = v.admitted
            /\ u.caught = v.caught /\ u.pc = v.pc /\ u.then = v.then /\ u.status = v.status /\ u.reason = v.reason
            /\ u.custody = "recovery-transferred" /\ u.dispense = v.dispense /\ u.reconcile
<1>1. handedOver(v) \in Operations
  BY DEF handedOver, Operations, CashFacts
<1> QED
  BY <1>1 DEF handedOver, Operations, CashFacts, SameFacts

\* cashFailed records that nobody knows where the notes are.
LEMMA CashFailedFacts ==
  ASSUME NEW v \in Operations
  PROVE  LET u == cashFailed(v)
         IN /\ u \in Operations /\ u.host = v.host /\ u.card = v.card /\ u.admitted = v.admitted
            /\ u.caught = v.caught /\ u.pc = "card" /\ u.then = v.then /\ u.status = v.status /\ u.reason = v.reason
            /\ u.custody = "custodyUnknown" /\ u.dispense = v.dispense /\ u.reconcile
<1>1. cashFailed(v) \in Operations
  BY ZenonT(60) DEF cashFailed, Operations, CashFacts, Steps
<1> QED
  BY <1>1 DEF cashFailed, Operations, CashFacts, Steps, SameFacts

\* cardIs records the result of the card service.
LEMMA CardIsFacts ==
  ASSUME NEW v \in Operations, NEW status \in Statuses, NEW reason \in CallReasons
  PROVE  LET u == cardIs(v, status, reason)
         IN /\ u \in Operations /\ u.pc = v.pc /\ u.admitted = v.admitted /\ u.then = v.then
            /\ u.caught = v.caught /\ u.status = v.status /\ u.host = v.host /\ u.custody = v.custody
            /\ u.dispense = v.dispense /\ u.reconcile = v.reconcile /\ u.card = status
<1>1. cardIs(v, status, reason) \in Operations
  BY DEF cardIs, Operations
<1> QED
  BY <1>1 DEF cardIs, Operations, SameFacts

\* leave goes to the abort, the exit or the card with an outcome.
LEMMA LeaveFacts ==
  ASSUME NEW v \in Operations, NEW way \in {"card", "abort", "exit"},
         NEW status \in Outcomes, NEW reason \in EndReasons
  PROVE  LET u == leave(v, way, status, reason)
         IN /\ u \in Operations /\ SameFacts(u, v) /\ u.pc = way /\ u.then = "conclude"
            /\ u.caught = v.caught /\ u.status = status /\ u.reason = reason
<1>1. way \in Steps
  BY DEF Steps
<1> QED
  BY <1>1, ToFacts, HeadingFacts DEF leave, SameFacts

\* An operation that has left for its end.
Left(u, v, way, status) ==
  /\ u \in Operations /\ SameFacts(u, v) /\ u.pc = way /\ u.then = "conclude"
  /\ u.caught = v.caught /\ u.status = status

\* The ways out that are taken with an outcome of their own.
LEMMA WaysOut ==
  ASSUME NEW v \in Operations
  PROVE  /\ \A way \in {"card", "abort"} :
              /\ Left(leave(v, way, "declined", "host-declined"), v, way, "declined")
              /\ Left(leave(v, way, "failed", "host-unavailable"), v, way, "failed")
         /\ Left(leave(v, "abort", "failed", "cash-presentation-not-authorized"), v, "abort", "failed")
         /\ Left(leave(v, "card", "failed", "cash-start-failed"), v, "card", "failed")
<1>1. "declined" \in Outcomes /\ "failed" \in Outcomes
  BY DEF Outcomes
<1>2. ASSUME NEW way \in {"card", "abort"}
      PROVE  Left(leave(v, way, "declined", "host-declined"), v, way, "declined")
  <2>1. way \in {"card", "abort", "exit"} /\ "host-declined" \in EndReasons
    BY Named
  <2> QED
    BY SMTT(40), <1>1, <2>1, LeaveFacts DEF Left
<1>3. ASSUME NEW way \in {"card", "abort"}
      PROVE  Left(leave(v, way, "failed", "host-unavailable"), v, way, "failed")
  <2>1. way \in {"card", "abort", "exit"} /\ "host-unavailable" \in EndReasons
    BY Named
  <2> QED
    BY SMTT(40), <1>1, <2>1, LeaveFacts DEF Left
<1>4. Left(leave(v, "abort", "failed", "cash-presentation-not-authorized"), v, "abort", "failed")
  BY <1>1, LeaveFacts, Named DEF Left
<1>5. Left(leave(v, "card", "failed", "cash-start-failed"), v, "card", "failed")
  BY <1>1, LeaveFacts, Named DEF Left
<1> QED
  BY <1>2, <1>3, <1>4, <1>5

\* caught leaves as an intervention, by the exit while a session is open.
LEMMA CaughtFacts ==
  ASSUME NEW v \in Operations
  PROVE  LET u == caught(v)
         IN /\ u \in Operations /\ SameFacts(u, v) /\ u.then = "conclude" /\ u.status = "intervention"
            /\ u.pc = IF sess.phase \in {"none", "terminal"} THEN "card" ELSE "exit"
<1>1. PICK p \in {"card", "exit"} :
        /\ caught(v) = [leave(v, p, "intervention", "unexpected-failure") EXCEPT !.caught = TRUE]
        /\ p = IF sess.phase \in {"none", "terminal"} THEN "card" ELSE "exit"
  BY DEF caught
<1> DEFINE l == leave(v, p, "intervention", "unexpected-failure")
<1>2. /\ l \in Operations /\ SameFacts(l, v) /\ l.pc = p /\ l.then = "conclude"
      /\ l.status = "intervention"
  <2>1. CASE p = "card"
    BY <2>1, LeaveFacts, Named
  <2>2. CASE p = "exit"
    BY <2>2, LeaveFacts, Named
  <2> QED
    BY <2>1, <2>2
<1>3. caught(v) = [l EXCEPT !.caught = TRUE]
  BY <1>1
<1> HIDE DEF l
<1>4. caught(v) \in Operations
  BY <1>2, <1>3 DEF Operations
<1>5. /\ SameFacts(caught(v), l) /\ caught(v).pc = l.pc /\ caught(v).then = l.then
      /\ caught(v).status = l.status
  BY <1>2, <1>3 DEF Operations, SameFacts
<1> QED
  BY <1>1, <1>2, <1>4, <1>5 DEF SameFacts

\* dispenseFailed leaves by the exit.
LEMMA DispenseFailedFacts ==
  ASSUME NEW v \in Operations
  PROVE  LET u == dispenseFailed(v)
         IN /\ u \in Operations /\ u.host = v.host /\ u.card = v.card /\ u.admitted = v.admitted
            /\ u.caught = v.caught /\ u.pc = "exit" /\ u.then = "conclude" /\ u.status = "failed"
            /\ u.custody = v.custody /\ u.dispense = "execution-unknown" /\ u.reconcile
<1> DEFINE l == leave(v, "exit", "failed", "cash-dispense-failed")
<1>1. /\ l \in Operations /\ SameFacts(l, v) /\ l.pc = "exit" /\ l.then = "conclude"
      /\ l.status = "failed" /\ l.caught = v.caught
  BY LeaveFacts, Named
<1>2. dispenseFailed(v) = [l EXCEPT !.dispense = "execution-unknown", !.reconcile = TRUE]
  BY DEF dispenseFailed
<1> HIDE DEF l
<1>3. dispenseFailed(v) \in Operations
  BY ZenonT(60), <1>1, <1>2 DEF Operations, CommandFacts
<1> QED
  BY <1>1, <1>2, <1>3 DEF Operations, SameFacts

\* presentFailed leaves by the exit as an intervention.
LEMMA PresentFailedFacts ==
  ASSUME NEW v \in Operations
  PROVE  LET u == presentFailed(v)
         IN /\ u \in Operations /\ u.host = v.host /\ u.card = v.card /\ u.admitted = v.admitted
            /\ u.caught = v.caught /\ u.pc = "exit" /\ u.then = "conclude"
            /\ u.status = "intervention" /\ u.custody = v.custody /\ u.dispense = v.dispense
            /\ u.reconcile
<1> DEFINE l == leave(v, "exit", "intervention", "cash-present-failed")
<1>1. /\ l \in Operations /\ SameFacts(l, v) /\ l.pc = "exit" /\ l.then = "conclude"
      /\ l.status = "intervention" /\ l.caught = v.caught
  BY LeaveFacts, Named
<1>2. presentFailed(v) = [l EXCEPT !.present = "execution-unknown", !.reconcile = TRUE]
  BY DEF presentFailed
<1> HIDE DEF l
<1>3. presentFailed(v) \in Operations
  BY <1>1, <1>2 DEF Operations, CommandFacts
<1> QED
  BY <1>1, <1>2, <1>3 DEF Operations, SameFacts

\* Every way to give up before the end goes through the abort or to the card.
LEMMA GivingUpFacts ==
  ASSUME NEW v \in Operations
  PROVE  /\ LET u == cardFailure(v)
            IN /\ u \in Operations /\ SameFacts(u, v) /\ u.pc = "abort" /\ u.then = "conclude"
               /\ u.caught = v.caught /\ u.status \notin {"none", "completed"}
         /\ LET u == interrupted(v)
            IN /\ u \in Operations /\ SameFacts(u, v) /\ u.pc = "card" /\ u.then = "conclude"
               /\ u.caught = v.caught /\ u.status \notin {"none", "completed"}
         /\ \A status \in {"cancelled", "timedOut", "rejected"} :
              LET u == gateFailure(v, status)
              IN /\ u \in Operations /\ SameFacts(u, v) /\ u.pc = "abort" /\ u.then = "conclude"
                 /\ u.caught = v.caught /\ u.status \notin {"none", "completed"}
<1>1. cardFailure(v) \in
        {leave(v, "abort", "timedOut", "card-take-timeout"),
         leave(v, "abort", "cancelled", "card-cancelled"),
         leave(v, "abort", "intervention", "card-custody-unresolved")}
  BY DEF cardFailure
<1>2. interrupted(v) \in
        {leave(v, "card", "timedOut", "operation-timeout"),
         leave(v, "card", "cancelled", "user-cancelled")}
  BY DEF interrupted
<1>3. ASSUME NEW status \in {"cancelled", "timedOut", "rejected"}
      PROVE  gateFailure(v, status) \in
               {leave(v, "abort", "cancelled", "verification-cancelled"),
                leave(v, "abort", "timedOut", "verification-timeout"),
                leave(v, "abort", "failed", "verification-rejected")}
  BY DEF gateFailure
<1>4. ASSUME NEW way \in {"card", "abort"}, NEW reason \in EndReasons,
             NEW status \in {"cancelled", "timedOut", "failed", "intervention"}
      PROVE  LET u == leave(v, way, status, reason)
             IN /\ u \in Operations /\ SameFacts(u, v) /\ u.pc = way /\ u.then = "conclude"
                /\ u.caught = v.caught /\ u.status \notin {"none", "completed"}
  <2>1. status \in Outcomes /\ status \notin {"none", "completed"}
    BY Named
  <2> QED
    BY <2>1, LeaveFacts
<1> QED
  BY <1>1, <1>2, <1>3, <1>4, Named

\* terminalOutcome: completed needs the notes taken and the card returned.
LEMMA TerminalOutcomeFacts ==
  ASSUME NEW v \in Operations
  PROVE  LET u == terminalOutcome(v)
         IN /\ u \in Operations /\ SameFacts(u, v) /\ u.pc = "finalize" /\ u.then = "conclude"
            /\ u.caught = v.caught /\ u.status # "none"
            /\ v.custody \in {"custodyUnknown", "recovery-transferred"} => u.status = "intervention"
            /\ u.status = "completed" =>
                 v.custody = "taken" /\ (contact => v.card \in {"returned", "session-retained"})
<1>1. PICK status \in Outcomes \ {"none"}, reason \in EndReasons :
        /\ terminalOutcome(v) = concluded(heading(v, status, reason))
        /\ status = "completed" =>
             v.custody = "taken" /\ (contact => v.card \in {"returned", "session-retained"})
  BY DEF terminalOutcome, Outcomes, EndReasons
<1> DEFINE h == heading(v, status, reason)
<1>2. /\ h \in Operations /\ SameFacts(h, v) /\ h.then = "conclude" /\ h.caught = v.caught
      /\ h.status = status
  BY HeadingFacts
<1>3. terminalOutcome(v) = concluded(h)
  BY <1>1
<1> HIDE DEF h
<1> QED
  BY <1>1, <1>2, <1>3, ConcludedFacts DEF SameFacts, safetyStatus

\* reconciled changes only what is said of a failed dispense.
LEMMA ReconciledFacts ==
  ASSUME NEW v \in Operations
  PROVE  LET u == reconciled(v)
         IN /\ u \in Operations /\ u.host = v.host /\ u.card = v.card /\ u.admitted = v.admitted
            /\ u.caught = v.caught /\ u.pc = v.pc /\ u.then = v.then
            /\ u.custody = v.custody /\ u.reconcile = v.reconcile
            /\ u.dispense \in {v.dispense, "failed"}
            /\ u.dispense # v.dispense => v.custody = "notDispensed"
            /\ u.status \in {v.status, "intervention", "failed"}
<1> DEFINE d == IF v.custody = "notDispensed" THEN "failed" ELSE v.dispense
           s == IF v.reconcile THEN "intervention" ELSE "failed"
<1>1. d \in CommandFacts /\ s \in Outcomes
  BY DEF Operations, CommandFacts, Outcomes
<1>2. reconciled(v) = v \/ reconciled(v) = [v EXCEPT !.dispense = d, !.status = s]
  BY DEF reconciled
<1>3. s \in {"intervention", "failed"} /\ (d = v.dispense \/ (d = "failed" /\ v.custody = "notDispensed"))
  OBVIOUS
<1> HIDE DEF d, s
<1>4. reconciled(v) \in Operations
  BY <1>1, <1>2 DEF Operations
<1> QED
  BY ZenonT(60), <1>1, <1>2, <1>3, <1>4 DEF Operations

\* afterTerminal goes on to the card or concludes.
LEMMA AfterTerminalFacts ==
  ASSUME NEW v \in Operations
  PROVE  LET u == afterTerminal(v)
         IN /\ u \in Operations /\ SameFacts(u, v) /\ u.caught = v.caught
            /\ \/ at("abort") /\ u.pc = "card" /\ u.then = v.then /\ u.status = v.status
               \/ ~at("abort") /\ u.pc = "card" /\ u.then = "terminal" /\ u.status = v.status
               \/ /\ ~at("abort") /\ u.pc = "finalize" /\ u.then = "conclude" /\ u.status # "none"
                  /\ v.custody \in {"custodyUnknown", "recovery-transferred"} => u.status = "intervention"
                  /\ u.status = "completed" =>
                       v.custody = "taken" /\ (contact => v.card \in {"returned", "session-retained"})
<1>1. CASE at("abort")
  BY <1>1, ToFacts DEF afterTerminal, toCard, Steps
<1>2. CASE ~at("abort") /\ config.cardOrder = "return-after-cash-terminal"
  BY <1>2, CardNextFacts DEF afterTerminal
<1>3. CASE ~at("abort") /\ config.cardOrder # "return-after-cash-terminal"
  BY <1>3, TerminalOutcomeFacts DEF afterTerminal
<1> QED
  BY <1>1, <1>2, <1>3

\* afterCard concludes, gives up, or goes on with a returned card.
LEMMA AfterCardFacts ==
  ASSUME NEW v \in Operations
  PROVE  LET u == afterCard(v)
         IN /\ u \in Operations /\ SameFacts(u, v) /\ u.caught = v.caught
            /\ \/ /\ v.then = "conclude" /\ u.pc = "finalize" /\ u.then = v.then
                  /\ u.status = safetyStatus(v)
               \/ /\ v.then = "cardFirst" /\ u.pc = "abort" /\ u.then = "conclude"
                  /\ u.status \notin {"none", "completed"}
               \/ /\ v.then = "cardFirst" /\ u.pc = "authorizePresent" /\ u.then = v.then
                  /\ u.status = v.status /\ (contact => v.card = "returned")
               \/ /\ v.then = "terminal" /\ u.pc = "finalize" /\ u.then = "conclude" /\ u.status # "none"
                  /\ v.custody \in {"custodyUnknown", "recovery-transferred"} => u.status = "intervention"
                  /\ u.status = "completed" =>
                       v.custody = "taken" /\ (contact => v.card \in {"returned", "session-retained"})
<1>1. CASE v.then = "conclude"
  BY <1>1, ConcludedFacts DEF afterCard
<1>2. CASE v.then = "cardFirst" /\ contact /\ v.card # "returned"
  BY <1>2, GivingUpFacts DEF afterCard
<1>3. CASE v.then = "cardFirst" /\ ~(contact /\ v.card # "returned")
  BY <1>3, ToFacts DEF afterCard, Steps
<1>4. CASE v.then = "terminal"
  BY <1>4, TerminalOutcomeFacts DEF afterCard
<1> QED
  BY <1>1, <1>2, <1>3, <1>4 DEF Operations

\* What the session's phases leave.
LEMMA PhaseFacts ==
  ASSUME NEW s \in Sessions,
         NEW phase \in {"none", "planned", "staged", "awaitingTake", "terminal", "transferred"}
  PROVE  /\ LET t == [s EXCEPT !.phase = phase]
            IN t \in Sessions /\ t.phase = phase /\ t.moved = s.moved
         /\ LET t == [s EXCEPT !.phase = phase, !.moved = TRUE]
            IN t \in Sessions /\ t.phase = phase /\ t.moved
         /\ LET t == [s EXCEPT !.moved = TRUE]
            IN t \in Sessions /\ t.phase = s.phase /\ t.moved
BY DEF Sessions

\* A card that the customer has is out of reach.
LEMMA CardStays == ASSUME Service \/ Outside, card = "customer" PROVE card' = "customer"
BY DEF Service, Outside, TransitionToRecovery, Acquire, AuthorityAcquired, Release, Acknowledge,
       EjectRequested, EjectCard, EjectReturns, EjectAbandoned, EjectCompleted, WaitForTaken,
       TakeObserved, RetainRequested, RetainCard, RetainReturns, RetainAbandoned, RetainCompleted,
       ObserveMedia, Reconcile, LateCommand, CustomerTakes, MediaRemovedEvent, LeaseExpires, Abort,
       reader

\* A port fails or answers.
LEMMA FaultFacts == ASSUME CardInv, fault \/ UNCHANGED faults PROVE faults' \in Nat
BY DEF CardInv, CallTypes, fault

\* The session has ended, and the operation goes on with its outcome.
Ended(outcome) ==
  /\ w' \in Operations /\ w'.host = w.host /\ w'.card = w.card /\ w'.admitted = w.admitted
  /\ w'.caught = w.caught /\ w'.dispense = w.dispense /\ w'.custody = outcome
  /\ sess' \in Sessions /\ sess'.phase = "terminal" /\ sess'.moved = sess.moved
  /\ \/ w.pc = "abort" /\ w'.pc = "card" /\ w'.then = w.then /\ w'.status = w.status
     \/ w.pc # "abort" /\ w'.pc = "card" /\ w'.then = "terminal" /\ w'.status = w.status
     \/ /\ w.pc # "abort" /\ w'.pc = "finalize" /\ w'.then = "conclude" /\ w'.status # "none"
        /\ outcome = "custodyUnknown" => w'.status = "intervention"
        /\ w'.status = "completed" =>
             outcome = "taken" /\ (contact => w.card \in {"returned", "session-retained"})

\* A terminal result of the session, applied.
LEMMA EndedFacts ==
  ASSUME w \in Operations, sess \in Sessions, NEW outcome \in CashFacts, NEW required \in BOOLEAN,
         ended, w' = afterTerminal(applyCashTerminal(w, outcome, required))
  PROVE  Ended(outcome) /\ w'.reconcile = required
<1> DEFINE v == applyCashTerminal(w, outcome, required)
<1>1. /\ v \in Operations /\ v.host = w.host /\ v.card = w.card /\ v.admitted = w.admitted
      /\ v.caught = w.caught /\ v.then = w.then /\ v.status = w.status
      /\ v.custody = outcome /\ v.dispense = w.dispense /\ v.reconcile = required
  BY SMTT(40), CashTerminalFacts
<1>2. sess' \in Sessions /\ sess'.phase = "terminal" /\ sess'.moved = sess.moved
  BY ZenonT(60), PhaseFacts DEF ended
<1>3. w' = afterTerminal(v)
  OBVIOUS
<1> HIDE DEF v
<1> QED
  BY <1>1, <1>2, <1>3, AfterTerminalFacts DEF Ended, SameFacts, at

\* retract: the notes are in the bin, or their custody is unknown.
LEMMA RetractFacts ==
  ASSUME w \in Operations, sess \in Sessions, Retract
  PROVE  \/ inTransport /\ notes' = "bin" /\ Ended("retracted")
         \/ /\ Ended("custodyUnknown") /\ w'.reconcile
            /\ notes' = notes \/ (inTransport /\ notes' = "bin")
<1>1. "retracted" \in CashFacts /\ "custodyUnknown" \in CashFacts
  BY DEF CashFacts
<1>2. CASE /\ inTransport /\ notes' = "bin" /\ ended
           /\ \E r \in BOOLEAN : answers(afterTerminal(applyCashTerminal(w, "retracted", r)))
  BY <1>1, <1>2, EndedFacts DEF answers
<1>3. CASE /\ notes' \in {notes} \cup (IF inTransport THEN {"bin"} ELSE {}) /\ ended
           /\ w' = afterTerminal(applyCashTerminal(w, "custodyUnknown", TRUE))
  <2>1. Ended("custodyUnknown") /\ w'.reconcile = TRUE
    BY <1>1, <1>3, EndedFacts
  <2> QED
    BY <1>3, <2>1
<1> QED
  BY <1>2, <1>3 DEF Retract

\* The card has been dealt with.
AfterTheCard ==
  /\ w' \in Operations /\ w'.host = w.host /\ w'.admitted = w.admitted /\ w'.caught = w.caught
  /\ w'.custody = w.custody /\ w'.dispense = w.dispense /\ w'.reconcile = w.reconcile
  /\ \/ /\ w.then = "conclude" /\ w'.pc = "finalize" /\ w'.then = w.then
        /\ w'.status = "intervention" \/ (w'.status = w.status /\ ~Escalated)
     \/ /\ w.then = "cardFirst" /\ w'.pc = "abort" /\ w'.then = "conclude"
        /\ w'.status \notin {"none", "completed"}
     \/ /\ w.then = "cardFirst" /\ w'.pc = "authorizePresent" /\ w'.then = w.then
        /\ w'.status = w.status /\ (contact => w'.card = "returned")
     \/ /\ w.then = "terminal" /\ w'.pc = "finalize" /\ w'.then = "conclude" /\ w'.status # "none"
        /\ Escalated => w'.status = "intervention"
        /\ w'.status = "completed" =>
             w.custody = "taken" /\ (contact => w'.card \in {"returned", "session-retained"})

\* The card's result, applied.
LEMMA AfterTheCardFacts ==
  ASSUME w \in Operations, NEW v \in Operations, w' = afterCard(v),
         v.host = w.host, v.admitted = w.admitted, v.caught = w.caught, v.custody = w.custody,
         v.dispense = w.dispense, v.reconcile = w.reconcile, v.then = w.then, v.status = w.status
  PROVE  AfterTheCard /\ w'.card = v.card
BY AfterCardFacts DEF AfterTheCard, SameFacts, safetyStatus, Escalated

-----------------------------------------------------------------------------
(* One lemma per action of the orchestrator: first what the action does to *)
(* the fields, then each part of the invariant.                            *)

USE DEF WithdrawalInv, Staged, Resolving, Escalated, inTransport, hasOutcome, finished, ownCard,
        contact, SameFacts, reader, at

\* Recover: nothing has been asked of the session or the card.
LEMMA RecoverKeeps == ASSUME WithdrawalInv, Recover PROVE WithdrawalInv'
<1> USE DEF Recover, onlyOrchestrator, rejected, answers, fails
<1>1. CardInv'
  BY QuietInv, FaultFacts DEF host
<1>2. WithdrawalTypes'
  BY ToFacts, BlockedFacts DEF host, Steps, WithdrawalTypes
<1>3. ForwardInv'
  BY ToFacts, BlockedFacts DEF host, Steps, WithdrawalTypes, ForwardInv, CashInv, EndInv
<1>4. CashInv'
  BY ToFacts, BlockedFacts DEF host, Steps, WithdrawalTypes, ForwardInv, CashInv, EndInv
<1>5. EndInv'
  BY ToFacts, BlockedFacts DEF host, Steps, WithdrawalTypes, ForwardInv, CashInv, EndInv,
     CardSideInv
<1>6. CardSideInv'
  BY ToFacts, BlockedFacts DEF host, Steps, WithdrawalTypes, ForwardInv, CashInv, EndInv,
     CardSideInv, CardBeforeCash
<1> QED
  BY <1>1, <1>2, <1>3, <1>4, <1>5, <1>6

\* StartTransaction admits the operation.
LEMMA StartTransactionKeeps == ASSUME WithdrawalInv, StartTransaction PROVE WithdrawalInv'
<1> USE DEF StartTransaction, onlyOrchestrator, rejected, answers, fails
<1>1. CardInv'
  BY QuietInv, FaultFacts DEF host
<1>2. WithdrawalTypes'
  BY ToFacts, StartedFacts DEF host, Steps, WithdrawalTypes
<1>3. ForwardInv'
  BY ToFacts, StartedFacts DEF host, Steps, WithdrawalTypes, ForwardInv, CashInv, EndInv
<1>4. CashInv'
  BY ToFacts, StartedFacts DEF host, Steps, WithdrawalTypes, ForwardInv, CashInv, EndInv
<1>5. EndInv'
  BY ToFacts, StartedFacts DEF host, Steps, WithdrawalTypes, ForwardInv, CashInv, EndInv,
     CardSideInv
<1>6. CardSideInv'
  BY ToFacts, StartedFacts DEF host, Steps, WithdrawalTypes, ForwardInv, CashInv, EndInv,
     CardSideInv, CardBeforeCash
<1> QED
  BY <1>1, <1>2, <1>3, <1>4, <1>5, <1>6

\* AuditStarted: an aborted request leaves for the card before any session exists.
LEMMA AuditStartedKeeps == ASSUME WithdrawalInv, AuditStarted PROVE WithdrawalInv'
<1> USE DEF AuditStarted, onlyOrchestrator, rejected, answers, fails
<1>1. CardInv'
  BY QuietInv, FaultFacts DEF host
<1>2. WithdrawalTypes'
  BY ToFacts, GivingUpFacts DEF host, Steps, WithdrawalTypes
<1>3. ForwardInv'
  BY ToFacts, GivingUpFacts DEF host, Steps, WithdrawalTypes, ForwardInv, CashInv, EndInv
<1>4. CashInv'
  BY ToFacts, GivingUpFacts DEF host, Steps, WithdrawalTypes, ForwardInv, CashInv, EndInv
<1>5. EndInv'
  BY ToFacts, GivingUpFacts DEF host, Steps, WithdrawalTypes, ForwardInv, CashInv, EndInv,
     CardSideInv
<1>6. CardSideInv'
  BY ToFacts, GivingUpFacts DEF host, Steps, WithdrawalTypes, ForwardInv, CashInv, EndInv,
     CardSideInv, CardBeforeCash
<1> QED
  BY <1>1, <1>2, <1>3, <1>4, <1>5, <1>6

\* AuthorizeHost: an answer that is not an approval leaves, by the abort when a session is planned.
LEMMA AuthorizeHostKeeps == ASSUME WithdrawalInv, AuthorizeHost PROVE WithdrawalInv'
<1>1. /\ UNCHANGED <<card, config, notes, sess>> /\ w.pc = "authorize" /\ w' \in Operations /\ w'.caught = w.caught
      /\ w'.custody = w.custody /\ w'.dispense = w.dispense /\ w'.reconcile = w.reconcile
      /\ w'.card = w.card /\ w'.admitted = w.admitted
      /\ \/ w'.pc = "mark" /\ w'.host = "approved" /\ w'.then = w.then /\ w'.status = w.status
         \/ /\ w'.pc = IF sess.phase = "none" THEN "card" ELSE "abort"
            /\ w'.then = "conclude" /\ w'.status \in {"declined", "failed"}
  <2>1. PICK status \in {"approved", "declined", "unavailable"} :
          LET v == hostSays(w, status)
              way == IF sess.phase = "none" THEN "card" ELSE "abort"
          IN w' = CASE status = "approved" -> to(v, "mark")
                    [] status = "declined" -> leave(v, way, "declined", "host-declined")
                    [] status = "unavailable" -> leave(v, way, "failed", "host-unavailable")
    BY DEF AuthorizeHost, answers
  <2> DEFINE v == hostSays(w, status)
             way == IF sess.phase = "none" THEN "card" ELSE "abort"
  <2>2. /\ v \in Operations /\ v.admitted = w.admitted /\ v.then = w.then /\ v.caught = w.caught
        /\ v.status = w.status /\ v.host = status /\ v.custody = w.custody
        /\ v.dispense = w.dispense /\ v.reconcile = w.reconcile /\ v.card = w.card
    BY HostSaysFacts DEF WithdrawalTypes
  <2>3. UNCHANGED <<card, config, notes, sess>> /\ w.pc = "authorize"
    BY DEF AuthorizeHost, onlyOrchestrator
  <2> HIDE DEF v
  <2>4. CASE status = "approved"
    <3>1. w' = to(v, "mark") /\ "mark" \in Steps
      BY <2>1, <2>4 DEF v, Steps
    <3> QED
      BY <2>2, <2>3, <2>4, <3>1, ToFacts
  <2>5. CASE status = "declined"
    <3>1. w' = leave(v, "card", "declined", "host-declined") \/ w' = leave(v, "abort", "declined", "host-declined")
      BY <2>1, <2>5 DEF v
    <3>2. /\ sess.phase = "none" => w' = leave(v, "card", "declined", "host-declined")
          /\ sess.phase # "none" => w' = leave(v, "abort", "declined", "host-declined")
      BY <2>1, <2>5 DEF v
    <3>3. PICK out \in {"card", "abort"} :
            /\ out = IF sess.phase = "none" THEN "card" ELSE "abort"
            /\ Left(w', v, out, "declined")
      BY <2>2, <3>2, WaysOut
    <3> QED
      BY <2>2, <2>3, <3>3 DEF Left
  <2>6. CASE status = "unavailable"
    <3>2. /\ sess.phase = "none" => w' = leave(v, "card", "failed", "host-unavailable")
          /\ sess.phase # "none" => w' = leave(v, "abort", "failed", "host-unavailable")
      BY <2>1, <2>6 DEF v
    <3>3. PICK out \in {"card", "abort"} :
            /\ out = IF sess.phase = "none" THEN "card" ELSE "abort"
            /\ Left(w', v, out, "failed")
      BY <2>2, <3>2, WaysOut
    <3> QED
      BY <2>2, <2>3, <3>3 DEF Left
  <2> QED
    BY <2>4, <2>5, <2>6
<1>2. CardInv'
  BY QuietInv, FaultFacts DEF host, onlyOrchestrator, answers, fails, AuthorizeHost
<1>3. WithdrawalTypes'
  BY <1>1 DEF WithdrawalTypes
<1>4. ForwardInv'
  BY <1>1 DEF WithdrawalTypes, ForwardInv, CashInv, EndInv
<1>5. CashInv'
  BY <1>1 DEF WithdrawalTypes, ForwardInv, CashInv
<1>6. EndInv'
  BY <1>1 DEF WithdrawalTypes, ForwardInv, CashInv, EndInv, CardSideInv
<1>7. CardSideInv'
  BY <1>1 DEF WithdrawalTypes, ForwardInv, CashInv, EndInv, CardSideInv, CardBeforeCash
<1> QED
  BY <1>2, <1>3, <1>4, <1>5, <1>6, <1>7

\* MarkAuthorized: a mark that fails hands an unfinished session to recovery.
LEMMA MarkAuthorizedKeeps == ASSUME WithdrawalInv, MarkAuthorized PROVE WithdrawalInv'
<1> USE DEF MarkAuthorized, onlyOrchestrator, answers, fails
<1>1. CardInv'
  BY QuietInv, FaultFacts DEF host
<1>2. WithdrawalTypes'
  BY ToFacts, CaughtFacts DEF host, Steps, WithdrawalTypes
<1>3. ForwardInv'
  BY ToFacts, CaughtFacts DEF host, Steps, WithdrawalTypes, ForwardInv, CashInv, EndInv
<1>4. CashInv'
  BY ToFacts, CaughtFacts DEF host, Steps, WithdrawalTypes, ForwardInv, CashInv, EndInv
<1>5. EndInv'
  BY ToFacts, CaughtFacts DEF host, Steps, WithdrawalTypes, ForwardInv, CashInv, EndInv,
     CardSideInv
<1>6. CardSideInv'
  BY ToFacts, CaughtFacts DEF host, Steps, WithdrawalTypes, ForwardInv, CashInv, EndInv,
     CardSideInv, CardBeforeCash
<1> QED
  BY <1>1, <1>2, <1>3, <1>4, <1>5, <1>6

\* AuditAuthorized: an approved withdrawal goes on to the session it has, or to a new one.
LEMMA AuditAuthorizedKeeps == ASSUME WithdrawalInv, AuditAuthorized PROVE WithdrawalInv'
<1>1. /\ UNCHANGED <<card, config, notes, sess>> /\ w.pc = "auditAuthorized" /\ w' \in Operations /\ SameFacts(w', w)
      /\ \/ /\ w'.pc = IF sess.phase = "none" THEN "startCash" ELSE "dispense"
            /\ w'.then = w.then /\ w'.status = w.status /\ w'.caught = w.caught
         \/ /\ w'.pc = IF sess.phase \in {"none", "terminal"} THEN "card" ELSE "exit"
            /\ w'.then = "conclude" /\ w'.status = "intervention"
  BY ToFacts, CaughtFacts DEF AuditAuthorized, WithdrawalTypes, answers, fails,
     onlyOrchestrator, Steps
<1>2. CardInv'
  BY QuietInv, FaultFacts DEF host, onlyOrchestrator, answers, fails, AuditAuthorized
<1>3. WithdrawalTypes'
  BY <1>1 DEF WithdrawalTypes
<1>4. ForwardInv'
  BY <1>1 DEF WithdrawalTypes, ForwardInv, CashInv, EndInv
<1>5. CashInv'
  BY <1>1 DEF WithdrawalTypes, ForwardInv, CashInv
<1>6. EndInv'
  BY <1>1 DEF WithdrawalTypes, ForwardInv, CashInv, EndInv, CardSideInv
<1>7. CardSideInv'
  BY <1>1 DEF WithdrawalTypes, ForwardInv, CashInv, EndInv, CardSideInv, CardBeforeCash
<1> QED
  BY <1>2, <1>3, <1>4, <1>5, <1>6, <1>7

\* EvaluateGates: the notes are staged on every way out of the gate.
LEMMA EvaluateGatesKeeps == ASSUME WithdrawalInv, EvaluateGates PROVE WithdrawalInv'
<1>1. /\ UNCHANGED <<card, config, notes, sess>> /\ w.pc = "gate" /\ w' \in Operations /\ SameFacts(w', w)
      /\ \/ w'.pc = "card" /\ w'.then = "cardFirst" /\ w'.status = w.status /\ w'.caught = w.caught
         \/ /\ config.cardOrder # "return-before-cash-present" /\ w'.pc = "authorizePresent"
            /\ w'.then = w.then /\ w'.status = w.status /\ w'.caught = w.caught
         \/ /\ w'.pc = "abort" /\ w'.then = "conclude" /\ w'.status \notin {"none", "completed"}
            /\ w'.caught = w.caught
         \/ /\ w'.pc = IF sess.phase \in {"none", "terminal"} THEN "card" ELSE "exit"
            /\ w'.then = "conclude" /\ w'.status = "intervention"
  BY ToFacts, CaughtFacts, CardNextFacts, GivingUpFacts DEF EvaluateGates, WithdrawalTypes,
     answers, fails, onlyOrchestrator, Steps
<1>2. CardInv'
  BY QuietInv, FaultFacts DEF host, onlyOrchestrator, answers, fails, EvaluateGates
<1>3. WithdrawalTypes'
  BY <1>1 DEF WithdrawalTypes
<1>4. ForwardInv'
  BY <1>1 DEF WithdrawalTypes, ForwardInv, CashInv, EndInv
<1>5. CashInv'
  BY <1>1 DEF WithdrawalTypes, ForwardInv, CashInv
<1>6. EndInv'
  BY <1>1 DEF WithdrawalTypes, ForwardInv, CashInv, EndInv, CardSideInv
<1>7. CardSideInv'
  BY <1>1 DEF WithdrawalTypes, ForwardInv, CashInv, EndInv, CardSideInv, CardBeforeCash
<1> QED
  BY <1>2, <1>3, <1>4, <1>5, <1>6, <1>7

\* AuthorizePresentation: the card is with the customer where the policy wants it first.
LEMMA AuthorizePresentationKeeps == ASSUME WithdrawalInv, AuthorizePresentation PROVE WithdrawalInv'
<1>1. /\ UNCHANGED <<card, config, notes, sess>> /\ w.pc = "authorizePresent" /\ SameFacts(w', w)
      /\ w' \in Operations /\ w'.caught = w.caught
      /\ \/ w'.pc = "present" /\ w'.then = w.then /\ w'.status = w.status
         \/ w'.pc = "abort" /\ w'.then = "conclude" /\ w'.status = "failed"
  <2>1. UNCHANGED <<card, config, notes, sess>> /\ w.pc = "authorizePresent" /\ w \in Operations
    BY DEF AuthorizePresentation, WithdrawalTypes, onlyOrchestrator
  <2>2. w' = to(w, "present") \/ w' = leave(w, "abort", "failed", "cash-presentation-not-authorized")
    BY DEF AuthorizePresentation, answers, fails
  <2>3. CASE w' = to(w, "present")
    BY <2>1, <2>3, ToFacts DEF Steps
  <2>4. CASE w' = leave(w, "abort", "failed", "cash-presentation-not-authorized")
    BY <2>1, <2>4, WaysOut DEF Left
  <2> QED
    BY <2>2, <2>3, <2>4
<1>2. CardInv'
  BY QuietInv, FaultFacts DEF host, onlyOrchestrator, answers, fails, AuthorizePresentation
<1>3. WithdrawalTypes'
  BY <1>1 DEF WithdrawalTypes
<1>4. ForwardInv'
  BY <1>1 DEF WithdrawalTypes, ForwardInv, CashInv, EndInv
<1>5. CashInv'
  BY <1>1 DEF WithdrawalTypes, ForwardInv, CashInv
<1>6. EndInv'
  BY <1>1 DEF WithdrawalTypes, ForwardInv, CashInv, EndInv, CardSideInv
<1>7. CardSideInv'
  BY <1>1 DEF WithdrawalTypes, ForwardInv, CashInv, EndInv, CardSideInv, CardBeforeCash
<1> QED
  BY <1>2, <1>3, <1>4, <1>5, <1>6, <1>7

\* Finalize keeps the outcome.
LEMMA FinalizeKeeps == ASSUME WithdrawalInv, Finalize PROVE WithdrawalInv'
<1> USE DEF Finalize, onlyOrchestrator, answers, fails
<1>1. CardInv'
  BY QuietInv, FaultFacts DEF host
<1>2. WithdrawalTypes'
  BY ToFacts DEF host, Steps, WithdrawalTypes
<1>3. ForwardInv'
  BY ToFacts DEF host, Steps, WithdrawalTypes, ForwardInv, CashInv, EndInv
<1>4. CashInv'
  BY ToFacts DEF host, Steps, WithdrawalTypes, ForwardInv, CashInv, EndInv
<1>5. EndInv'
  BY ToFacts DEF host, Steps, WithdrawalTypes, ForwardInv, CashInv, EndInv, CardSideInv
<1>6. CardSideInv'
  BY ToFacts DEF host, Steps, WithdrawalTypes, ForwardInv, CashInv, EndInv, CardSideInv,
     CardBeforeCash
<1> QED
  BY <1>1, <1>2, <1>3, <1>4, <1>5, <1>6

\* StartCash: a session that does not start leaves no session behind.
LEMMA StartCashKeeps == ASSUME WithdrawalInv, StartCash PROVE WithdrawalInv'
<1>1. /\ UNCHANGED <<card, config>> /\ w.pc = "startCash" /\ notes' = notes /\ sess' \in Sessions
      /\ w' \in Operations /\ w'.caught = w.caught /\ w'.host = w.host /\ w'.card = w.card /\ w'.admitted = w.admitted
      /\ w'.dispense = w.dispense /\ w'.reconcile = w.reconcile /\ sess'.moved = sess.moved
      /\ \/ /\ sess'.phase = "planned" /\ w'.custody = "pending" /\ w'.then = w.then /\ w'.status = w.status
            /\ w'.pc = IF w.host = "approved" THEN "dispense" ELSE "authorize"
         \/ /\ sess' = sess /\ w'.custody = w.custody /\ w'.pc = "card" /\ w'.then = "conclude"
            /\ w'.status = "failed"
  <2>1. UNCHANGED <<card, config>> /\ notes' = notes /\ w.pc = "startCash" /\ w \in Operations /\ sess \in Sessions
    BY DEF StartCash, WithdrawalTypes, onlyCash
  <2>2. CASE sess' = sess /\ w' = leave(w, "card", "failed", "cash-start-failed")
    BY <2>1, <2>2, WaysOut DEF Left
  <2>3. CASE /\ sess' = [sess EXCEPT !.phase = "planned"]
             /\ w' = to(planned(w), IF w.host = "approved" THEN "dispense" ELSE "authorize")
    <3>1. PICK pc \in Steps : /\ w' = to(planned(w), pc)
                             /\ pc = IF w.host = "approved" THEN "dispense" ELSE "authorize"
      BY SMTT(40), <2>3 DEF Steps
    <3>2. sess' \in Sessions /\ sess'.phase = "planned" /\ sess'.moved = sess.moved
      BY ZenonT(60), <2>1, <2>3, PhaseFacts
    <3> QED
      BY <2>1, <3>1, <3>2, ToFacts, PlannedFacts
  <2> QED
    BY <2>2, <2>3 DEF StartCash, answers, fails
<1>2. CardInv'
  BY QuietInv, FaultFacts DEF host, onlyCash, answers, fails, StartCash
<1>3. WithdrawalTypes'
  BY <1>1 DEF WithdrawalTypes
<1>4. ForwardInv'
  BY <1>1 DEF WithdrawalTypes, ForwardInv, CashInv, EndInv
<1>5. CashInv'
  BY <1>1 DEF WithdrawalTypes, ForwardInv, CashInv
<1>6. EndInv'
  BY <1>1 DEF WithdrawalTypes, ForwardInv, CashInv, EndInv, CardSideInv
<1>7. CardSideInv'
  BY <1>1 DEF WithdrawalTypes, ForwardInv, CashInv, EndInv, CardSideInv, CardBeforeCash
<1> QED
  BY <1>2, <1>3, <1>4, <1>5, <1>6, <1>7

\* Dispense: a failure leaves for the exit, and its notes may have moved.
LEMMA DispenseKeeps == ASSUME WithdrawalInv, Dispense PROVE WithdrawalInv'
<1>1. /\ UNCHANGED <<card, config>> /\ w.pc = "dispense" /\ sess' \in Sessions /\ w' \in Operations /\ w'.caught = w.caught
      /\ w'.host = w.host /\ w'.card = w.card /\ w'.admitted = w.admitted /\ w'.custody = w.custody
      /\ \/ /\ notes' = "staged" /\ sess'.phase = "staged" /\ sess'.moved /\ w'.pc = "gate"
            /\ w'.dispense = "completed" /\ w'.reconcile = w.reconcile /\ w'.then = w.then /\ w'.status = w.status
         \/ /\ \/ notes' = notes /\ sess' = sess
               \/ notes' \in {"vault", "staged"} /\ sess'.phase = sess.phase /\ sess'.moved
            /\ w'.pc = "exit" /\ w'.then = "conclude" /\ w'.status = "failed"
            /\ w'.dispense = "execution-unknown" /\ w'.reconcile
  <2>1. UNCHANGED <<card, config>> /\ w.pc = "dispense" /\ w \in Operations /\ sess \in Sessions
    BY DEF Dispense, WithdrawalTypes, onlyCash
  <2>2. CASE w' = dispensed(w) /\ notes' = "staged" /\ sess' = [sess EXCEPT !.phase = "staged", !.moved = TRUE]
    BY ZenonT(60), <2>1, <2>2, DispensedFacts, PhaseFacts
  <2>3. CASE w' = dispenseFailed(w) /\ UNCHANGED <<notes, sess>>
    BY <2>1, <2>3, DispenseFailedFacts
  <2>4. CASE w' = dispenseFailed(w) /\ notes' \in {"vault", "staged"} /\ sess' = [sess EXCEPT !.moved = TRUE]
    BY ZenonT(60), <2>1, <2>4, DispenseFailedFacts, PhaseFacts
  <2> QED
    BY <2>2, <2>3, <2>4 DEF Dispense, answers, fails, cashWorld
<1>2. CardInv'
  BY QuietInv, FaultFacts DEF host, onlyCash, answers, fails, Dispense
<1>3. WithdrawalTypes'
  BY <1>1 DEF WithdrawalTypes
<1>4. ForwardInv'
  BY <1>1 DEF WithdrawalTypes, ForwardInv, CashInv, EndInv
<1>5. CashInv'
  BY <1>1 DEF WithdrawalTypes, ForwardInv, CashInv
<1>6. EndInv'
  BY <1>1 DEF WithdrawalTypes, ForwardInv, CashInv, EndInv, CardSideInv
<1>7. CardSideInv'
  BY <1>1 DEF WithdrawalTypes, ForwardInv, CashInv, EndInv, CardSideInv, CardBeforeCash
<1> QED
  BY <1>2, <1>3, <1>4, <1>5, <1>6, <1>7

\* Present: the card was returned before the notes reach the slot.
LEMMA PresentKeeps == ASSUME WithdrawalInv, Present PROVE WithdrawalInv'
<1>1. /\ UNCHANGED <<card, config>> /\ w.pc = "present" /\ sess' \in Sessions /\ sess'.moved = sess.moved /\ w' \in Operations /\ w'.caught = w.caught
      /\ w'.host = w.host /\ w'.card = w.card /\ w'.admitted = w.admitted /\ w'.custody = w.custody /\ w'.dispense = w.dispense
      /\ \/ /\ notes' = "slot" /\ sess'.phase = "awaitingTake" /\ w'.pc = "take"
            /\ w'.reconcile = w.reconcile /\ w'.then = w.then /\ w'.status = w.status
         \/ /\ notes' \in {notes, "slot"} /\ sess' = sess /\ w'.pc = "exit" /\ w'.then = "conclude"
            /\ w'.status = "intervention" /\ w'.reconcile
  <2>1. UNCHANGED <<card, config>> /\ w.pc = "present" /\ w \in Operations /\ sess \in Sessions
    BY DEF Present, WithdrawalTypes, onlyCash
  <2>2. CASE w' = presented(w) /\ notes' = "slot" /\ sess' = [sess EXCEPT !.phase = "awaitingTake"]
    BY ZenonT(60), <2>1, <2>2, PresentedFacts, PhaseFacts
  <2>3. CASE w' = presentFailed(w) /\ notes' \in {notes, "slot"} /\ sess' = sess
    BY <2>1, <2>3, PresentFailedFacts
  <2> QED
    BY <2>2, <2>3 DEF Present, answers, fails
<1>2. CardInv'
  BY QuietInv, FaultFacts DEF host, onlyCash, answers, fails, Present
<1>3. WithdrawalTypes'
  BY <1>1 DEF WithdrawalTypes
<1>4. ForwardInv'
  BY <1>1 DEF WithdrawalTypes, ForwardInv, CashInv, EndInv
<1>5. CashInv'
  BY <1>1 DEF WithdrawalTypes, ForwardInv, CashInv
<1>6. EndInv'
  BY <1>1 DEF WithdrawalTypes, ForwardInv, CashInv, EndInv, CardSideInv
<1>7. CardSideInv'
  BY <1>1 DEF WithdrawalTypes, ForwardInv, CashInv, EndInv, CardSideInv, CardBeforeCash
<1> QED
  BY <1>2, <1>3, <1>4, <1>5, <1>6, <1>7

\* WaitForTake: the terminal result agrees with the notes, and an open one is escalated.
LEMMA WaitForTakeKeeps == ASSUME WithdrawalInv, WaitForTake PROVE WithdrawalInv'
<1>1. /\ UNCHANGED <<card, config>> /\ w.pc = "take"
      /\ \/ notes = "customer" /\ notes' = notes /\ Ended("taken")
         \/ inTransport /\ notes' = "bin" /\ Ended("retracted")
         \/ /\ Ended("custodyUnknown") /\ w'.reconcile
            /\ notes' = notes \/ (inTransport /\ notes' = "bin")
         \/ /\ UNCHANGED <<notes, sess>> /\ w' \in Operations /\ SameFacts(w', w) /\ w'.then = "conclude"
            /\ w'.status = "intervention"
            /\ w'.pc = IF sess.phase \in {"none", "terminal"} THEN "card" ELSE "exit"
  <2>1. UNCHANGED <<card, config>> /\ w.pc = "take" /\ w \in Operations /\ sess \in Sessions
    BY DEF WaitForTake, WithdrawalTypes, onlyCash
  <2>2. CASE confirmTake
    <3>1. "taken" \in CashFacts
      BY DEF CashFacts
    <3> QED
      BY <2>1, <2>2, <3>1, EndedFacts DEF confirmTake, answers
  <2>3. CASE Retract
    BY <2>1, <2>3, RetractFacts
  <2>4. CASE fails(caught(w)) /\ UNCHANGED cashWorld
    BY <2>1, <2>4, CaughtFacts DEF fails, cashWorld
  <2> QED
    BY <2>2, <2>3, <2>4 DEF WaitForTake
<1>2. CardInv'
  BY QuietInv, FaultFacts DEF host, onlyCash, confirmTake, Retract, answers, fails, WaitForTake
<1>3. WithdrawalTypes'
  BY <1>1 DEF WithdrawalTypes, Ended
<1>4. ForwardInv'
  BY <1>1 DEF WithdrawalTypes, ForwardInv, CashInv, EndInv, Ended
<1>5. CashInv'
  BY <1>1 DEF WithdrawalTypes, ForwardInv, CashInv, Ended
<1>6. EndInv'
  BY <1>1 DEF WithdrawalTypes, ForwardInv, CashInv, EndInv, CardSideInv, Ended
<1>7. CardSideInv'
  BY <1>1 DEF WithdrawalTypes, ForwardInv, CashInv, EndInv, CardSideInv, CardBeforeCash, Ended
<1> QED
  BY <1>2, <1>3, <1>4, <1>5, <1>6, <1>7

\* AbortCash: notes that did not move end in the vault, others in the bin or escalated.
LEMMA AbortCashKeeps == ASSUME WithdrawalInv, AbortCash PROVE WithdrawalInv'
<1>1. /\ UNCHANGED <<card, config>> /\ w.pc = "abort"
      /\ \/ /\ ~sess.moved /\ notes' = notes /\ w' \in Operations /\ w'.caught = w.caught /\ w'.host = w.host /\ w'.card = w.card /\ w'.admitted = w.admitted /\ w'.dispense = w.dispense
            /\ w'.pc = "card" /\ w'.then = w.then /\ w'.status = w.status
            /\ sess' \in Sessions /\ sess'.moved = sess.moved
            /\ \/ w'.custody = "notDispensed" /\ sess'.phase = "terminal"
               \/ w'.custody = "custodyUnknown" /\ sess' = sess /\ w'.reconcile
         \/ sess.moved /\ inTransport /\ notes' = "bin" /\ Ended("retracted")
         \/ /\ Ended("custodyUnknown") /\ w'.reconcile /\ sess.moved
            /\ notes' = notes \/ (inTransport /\ notes' = "bin")
  <2>1. UNCHANGED <<card, config>> /\ w.pc = "abort" /\ w \in Operations /\ sess \in Sessions
    BY DEF AbortCash, WithdrawalTypes, onlyCash
  <2>2. ASSUME ~sess.moved, ended, notes' = notes, NEW r \in BOOLEAN,
               w' = toCard(applyCashTerminal(w, "notDispensed", r))
        PROVE  /\ UNCHANGED <<card, config>> /\ w.pc = "abort"
               /\ \/ /\ ~sess.moved /\ notes' = notes /\ w' \in Operations /\ w'.caught = w.caught /\ w'.host = w.host /\ w'.card = w.card /\ w'.admitted = w.admitted /\ w'.dispense = w.dispense
                     /\ w'.pc = "card" /\ w'.then = w.then /\ w'.status = w.status
                     /\ sess' \in Sessions /\ sess'.moved = sess.moved
                     /\ \/ w'.custody = "notDispensed" /\ sess'.phase = "terminal"
                        \/ w'.custody = "custodyUnknown" /\ sess' = sess /\ w'.reconcile
                  \/ sess.moved /\ inTransport /\ notes' = "bin" /\ Ended("retracted")
                  \/ /\ Ended("custodyUnknown") /\ w'.reconcile /\ sess.moved
                     /\ notes' = notes \/ (inTransport /\ notes' = "bin")
    <3> DEFINE v == applyCashTerminal(w, "notDispensed", r)
    <3>1. "notDispensed" \in CashFacts /\ "card" \in Steps
      BY DEF CashFacts, Steps
    <3>2. /\ v \in Operations /\ v.host = w.host /\ v.card = w.card /\ v.admitted = w.admitted
          /\ v.caught = w.caught /\ v.then = w.then /\ v.status = w.status
          /\ v.custody = "notDispensed" /\ v.dispense = w.dispense
      BY <2>1, <3>1, CashTerminalFacts
    <3>3. w' = to(v, "card")
      BY <2>2 DEF toCard
    <3>4. sess' \in Sessions /\ sess'.phase = "terminal" /\ sess'.moved = sess.moved
      BY <2>1, <2>2, PhaseFacts DEF ended
    <3> HIDE DEF v
    <3> QED
      BY <2>1, <2>2, <3>1, <3>2, <3>3, <3>4, ToFacts
  <2>3. CASE sess.moved /\ Retract
    BY <2>1, <2>3, RetractFacts
  <2>4. CASE ~sess.moved /\ fails(cashFailed(w)) /\ UNCHANGED cashWorld
    BY <2>1, <2>4, CashFailedFacts DEF fails, cashWorld
  <2> QED
    BY <2>2, <2>3, <2>4 DEF AbortCash, answers
<1>2. CardInv'
  BY QuietInv, FaultFacts DEF host, onlyCash, Retract, answers, fails, AbortCash
<1>3. WithdrawalTypes'
  BY <1>1 DEF WithdrawalTypes, Ended
<1>4. ForwardInv'
  BY <1>1 DEF WithdrawalTypes, ForwardInv, CashInv, EndInv, Ended
<1>5. CashInv'
  BY <1>1 DEF WithdrawalTypes, ForwardInv, CashInv, Ended
<1>6. EndInv'
  BY <1>1 DEF WithdrawalTypes, ForwardInv, CashInv, EndInv, CardSideInv, Ended
<1>7. CardSideInv'
  BY <1>1 DEF WithdrawalTypes, ForwardInv, CashInv, EndInv, CardSideInv, CardBeforeCash, Ended
<1> QED
  BY <1>2, <1>3, <1>4, <1>5, <1>6, <1>7

\* TransferCash: a session that may hold notes is handed over or its custody is unknown.
LEMMA TransferCashKeeps == ASSUME WithdrawalInv, TransferCash PROVE WithdrawalInv'
<1>1. /\ UNCHANGED <<card, config>> /\ w.pc = "exit" /\ notes' = notes /\ w' \in Operations /\ w'.caught = w.caught /\ w'.host = w.host /\ w'.card = w.card /\ w'.admitted = w.admitted
      /\ w'.pc = "card" /\ w'.then = w.then
      /\ w'.status \in {w.status, "intervention", "failed"}
      /\ w'.dispense = w.dispense \/ (w'.dispense = "failed" /\ w'.custody = "notDispensed")
      /\ sess' \in Sessions /\ sess'.moved = sess.moved
      /\ \/ ~sess.moved /\ w'.custody = "notDispensed" /\ sess'.phase = "terminal"
         \/ w'.custody = "recovery-transferred" /\ w'.reconcile /\ sess'.phase = "transferred"
         \/ w'.custody = "custodyUnknown" /\ w'.reconcile /\ sess' = sess
  <2>1. UNCHANGED <<card, config>> /\ w.pc = "exit" /\ notes' = notes /\ w \in Operations /\ sess \in Sessions
    BY DEF TransferCash, WithdrawalTypes, onlyCash
  <2>2. ASSUME NEW v \in Operations, w' = reconciled(v), v.host = w.host /\ v.card = w.card /\ v.admitted = w.admitted,
               v.caught = w.caught, v.pc = "card", v.then = w.then, v.status = w.status,
               v.dispense = w.dispense
        PROVE  /\ w' \in Operations /\ w'.caught = w.caught /\ w'.host = w.host /\ w'.card = w.card /\ w'.admitted = w.admitted /\ w'.pc = "card" /\ w'.then = w.then
               /\ w'.status \in {w.status, "intervention", "failed"}
               /\ w'.dispense = w.dispense \/ (w'.dispense = "failed" /\ w'.custody = "notDispensed")
               /\ w'.custody = v.custody /\ w'.reconcile = v.reconcile
    BY <2>2, ReconciledFacts
  <2>3. "notDispensed" \in CashFacts /\ "card" \in Steps
    BY DEF CashFacts, Steps
  <2>4. ASSUME ~sess.moved, ended, NEW r \in BOOLEAN,
               w' = reconciled(toCard(applyCashTerminal(w, "notDispensed", r)))
        PROVE  /\ UNCHANGED <<card, config>> /\ w.pc = "exit" /\ notes' = notes /\ w' \in Operations /\ w'.caught = w.caught /\ w'.host = w.host /\ w'.card = w.card /\ w'.admitted = w.admitted
               /\ w'.pc = "card" /\ w'.then = w.then
               /\ w'.status \in {w.status, "intervention", "failed"}
               /\ w'.dispense = w.dispense \/ (w'.dispense = "failed" /\ w'.custody = "notDispensed")
               /\ sess' \in Sessions /\ sess'.moved = sess.moved
               /\ \/ ~sess.moved /\ w'.custody = "notDispensed" /\ sess'.phase = "terminal"
                  \/ w'.custody = "recovery-transferred" /\ w'.reconcile /\ sess'.phase = "transferred"
                  \/ w'.custody = "custodyUnknown" /\ w'.reconcile /\ sess' = sess
    <3> DEFINE t == applyCashTerminal(w, "notDispensed", r)
               v == toCard(t)
    <3>1. /\ t \in Operations /\ t.host = w.host /\ t.card = w.card /\ t.admitted = w.admitted
          /\ t.caught = w.caught /\ t.then = w.then /\ t.status = w.status
          /\ t.custody = "notDispensed" /\ t.dispense = w.dispense
      BY <2>1, <2>3, CashTerminalFacts
    <3> HIDE DEF t
    <3>2. /\ v \in Operations /\ v.host = w.host /\ v.card = w.card /\ v.admitted = w.admitted
          /\ v.caught = w.caught /\ v.then = w.then /\ v.status = w.status /\ v.pc = "card"
          /\ v.custody = "notDispensed" /\ v.dispense = w.dispense
      BY SMTT(40), <2>3, <3>1, ToFacts DEF toCard
    <3>3. sess' \in Sessions /\ sess'.phase = "terminal" /\ sess'.moved = sess.moved
      BY <2>1, <2>4, PhaseFacts DEF ended
    <3>4. w' = reconciled(v)
      BY <2>4 DEF t
    <3> HIDE DEF v
    <3> QED
      BY <2>1, <2>2, <2>4, <3>2, <3>3, <3>4
  <2>5. CASE /\ sess' = [sess EXCEPT !.phase = "transferred"]
             /\ w' = reconciled(toCard(handedOver(w)))
    <3> DEFINE t == handedOver(w)
               v == toCard(t)
    <3>1. /\ t \in Operations /\ t.host = w.host /\ t.card = w.card /\ t.admitted = w.admitted
          /\ t.caught = w.caught /\ t.then = w.then /\ t.status = w.status
          /\ t.custody = "recovery-transferred" /\ t.dispense = w.dispense /\ t.reconcile
      BY <2>1, HandedOverFacts
    <3> HIDE DEF t
    <3>2. /\ v \in Operations /\ v.host = w.host /\ v.card = w.card /\ v.admitted = w.admitted
          /\ v.caught = w.caught /\ v.then = w.then /\ v.status = w.status /\ v.pc = "card"
          /\ v.custody = "recovery-transferred" /\ v.dispense = w.dispense /\ v.reconcile
      BY SMTT(40), <2>3, <3>1, ToFacts DEF toCard
    <3>3. sess' \in Sessions /\ sess'.phase = "transferred" /\ sess'.moved = sess.moved
      BY <2>1, <2>5, PhaseFacts
    <3>4. w' = reconciled(v)
      BY <2>5 DEF t
    <3> HIDE DEF v
    <3> QED
      BY <2>1, <2>2, <3>2, <3>3, <3>4
  <2>6. CASE w' = reconciled(cashFailed(w)) /\ sess' = sess
    BY <2>1, <2>2, <2>6, CashFailedFacts
  <2> QED
    BY <2>4, <2>5, <2>6 DEF TransferCash, answers
<1>2. CardInv'
  BY QuietInv, FaultFacts DEF host, onlyCash, answers, fails, TransferCash
<1>3. WithdrawalTypes'
  BY <1>1 DEF WithdrawalTypes
<1>4. ForwardInv'
  BY <1>1 DEF WithdrawalTypes, ForwardInv, CashInv, EndInv
<1>5. CashInv'
  BY <1>1 DEF WithdrawalTypes, ForwardInv, CashInv
<1>6. EndInv'
  BY <1>1 DEF WithdrawalTypes, ForwardInv, CashInv, EndInv, CardSideInv
<1>7. CardSideInv'
  BY <1>1 DEF WithdrawalTypes, ForwardInv, CashInv, EndInv, CardSideInv, CardBeforeCash
<1> QED
  BY <1>2, <1>3, <1>4, <1>5, <1>6, <1>7

\* SkipCard: without a card service the card is an intervention.
LEMMA SkipCardKeeps == ASSUME WithdrawalInv, SkipCard PROVE WithdrawalInv'
<1>1. /\ UNCHANGED <<card, config, notes, sess>> /\ w.pc = "card" /\ w'.card \in {w.card, "intervention"} /\ AfterTheCard
  <2>1. UNCHANGED <<card, config, notes, sess>> /\ w.pc = "card" /\ w \in Operations
    BY DEF SkipCard, WithdrawalTypes, onlyOrchestrator
  <2>2. CASE w' = afterCard(w)
    BY <2>1, <2>2, AfterTheCardFacts
  <2>3. CASE w' = afterCard(cardIs(w, "intervention", "custody-unknown"))
    <3>1. "intervention" \in Statuses /\ "custody-unknown" \in CallReasons
      BY DEF Statuses, CallReasons
    <3> QED
      BY <2>1, <2>3, <3>1, CardIsFacts, AfterTheCardFacts
  <2> QED
    BY <2>1, <2>2, <2>3 DEF SkipCard, answers
<1>2. CardInv'
  BY QuietInv, FaultFacts DEF host, onlyOrchestrator, answers, fails, SkipCard
<1>3. WithdrawalTypes'
  BY <1>1 DEF WithdrawalTypes, AfterTheCard
<1>4. ForwardInv'
  BY <1>1 DEF WithdrawalTypes, ForwardInv, CashInv, EndInv, AfterTheCard
<1>5. CashInv'
  BY <1>1 DEF WithdrawalTypes, ForwardInv, CashInv, AfterTheCard
<1>6. EndInv'
  BY <1>1 DEF WithdrawalTypes, ForwardInv, CashInv, EndInv, CardSideInv, AfterTheCard
<1>7. CardSideInv'
  BY <1>1 DEF WithdrawalTypes, ForwardInv, CashInv, EndInv, CardSideInv, CardBeforeCash,
     AfterTheCard
<1> QED
  BY <1>2, <1>3, <1>4, <1>5, <1>6, <1>7

\* ResolveCard starts a call of the card service.
LEMMA ResolveCardKeeps == ASSUME WithdrawalInv, ResolveCard PROVE WithdrawalInv'
<1>1. /\ UNCHANGED <<card, config, notes, sess>> /\ w.pc = "card" /\ w' \in Operations /\ SameFacts(w', w)
      /\ w'.pc = "awaitCard" /\ w'.caught = w.caught /\ w'.then = w.then /\ w'.status = w.status
  BY ToFacts DEF ResolveCard, WithdrawalTypes, returnCard, call, Steps
<1>2. CardInv'
  BY CallStepInv DEF returnCard, Kinds, WithdrawalTypes, Operations, ResolveCard
<1>3. WithdrawalTypes'
  BY <1>1 DEF WithdrawalTypes
<1>4. ForwardInv'
  BY <1>1 DEF WithdrawalTypes, ForwardInv, CashInv, EndInv
<1>5. CashInv'
  BY <1>1 DEF WithdrawalTypes, ForwardInv, CashInv
<1>6. EndInv'
  BY <1>1 DEF WithdrawalTypes, ForwardInv, CashInv, EndInv, CardSideInv
<1>7. CardSideInv'
  BY <1>1 DEF WithdrawalTypes, ForwardInv, CashInv, EndInv, CardSideInv, CardBeforeCash
<1> QED
  BY <1>2, <1>3, <1>4, <1>5, <1>6, <1>7

\* CardReturns: the card service says returned only of a card that the customer has.
LEMMA CardReturnsKeeps == ASSUME WithdrawalInv, CardReturns PROVE WithdrawalInv'
<1>1. /\ UNCHANGED <<card, config, notes, sess>> /\ w.pc = "awaitCard"
      /\ \/ /\ svc.pc = "done" /\ svc.status \in Statuses /\ w'.card = svc.status /\ AfterTheCard
         \/ /\ w' \in Operations /\ SameFacts(w', w) /\ w'.pc = "rejected" /\ w.caught
            /\ w'.then = w.then /\ w'.status = w.status /\ w'.caught = w.caught
         \/ /\ w' \in Operations /\ SameFacts(w', w) /\ w'.then = "conclude" /\ w'.status = "intervention"
            /\ w'.pc = IF sess.phase \in {"none", "terminal"} THEN "card" ELSE "exit"
  <2>1. /\ UNCHANGED <<card, config, notes, sess>> /\ w.pc = "awaitCard" /\ w \in Operations
        /\ svc.status \in Statuses /\ svc.reason \in CallReasons
    BY ReadFacts DEF CardReturns, CardInv, WithdrawalTypes, onlyOrchestrator
  <2>2. CASE svc.pc = "done" /\ w' = afterCard(cardIs(w, svc.status, svc.reason))
    BY <2>1, <2>2, CardIsFacts, AfterTheCardFacts
  <2>3. CASE w' = rejected(w) /\ w.caught
    BY ZenonT(60), <2>1, <2>3, ToFacts DEF rejected, Steps
  <2>4. CASE w' = caught(w)
    BY <2>1, <2>4, CaughtFacts
  <2> QED
    BY <2>1, <2>2, <2>3, <2>4 DEF CardReturns, answers
<1>2. CardInv'
  BY QuietInv, FaultFacts DEF host, onlyOrchestrator, answers, fails, CardReturns
<1>3. WithdrawalTypes'
  BY <1>1 DEF WithdrawalTypes, AfterTheCard
<1>4. ForwardInv'
  BY <1>1 DEF WithdrawalTypes, ForwardInv, CashInv, EndInv, AfterTheCard, CardInv,
     CustodyIsTrue, Statuses
<1>5. CashInv'
  BY <1>1 DEF WithdrawalTypes, ForwardInv, CashInv, AfterTheCard, CardInv, CustodyIsTrue,
     Statuses
<1>6. EndInv'
  BY <1>1 DEF WithdrawalTypes, ForwardInv, CashInv, EndInv, CardSideInv, AfterTheCard, CardInv,
     CustodyIsTrue, Statuses
<1>7. CardSideInv'
  BY <1>1 DEF WithdrawalTypes, ForwardInv, CashInv, EndInv, CardSideInv, CardBeforeCash,
     AfterTheCard, CardInv, CustodyIsTrue, Statuses
<1> QED
  BY <1>2, <1>3, <1>4, <1>5, <1>6, <1>7

\* The card service and the reader do not touch the cash.
LEMMA CardKeeps == ASSUME WithdrawalInv, Card PROVE WithdrawalInv'
<1> USE DEF Card
<1>1. CardInv'
  BY ServiceInv, OutsideInv
<1>2. WithdrawalTypes'
  BY CardStays DEF host, custodyVars, Steps, WithdrawalTypes
<1>3. ForwardInv'
  BY CardStays DEF host, custodyVars, Steps, WithdrawalTypes, ForwardInv, CashInv, EndInv
<1>4. CashInv'
  BY CardStays DEF host, custodyVars, Steps, WithdrawalTypes, ForwardInv, CashInv, EndInv
<1>5. EndInv'
  BY CardStays DEF host, custodyVars, Steps, WithdrawalTypes, ForwardInv, CashInv, EndInv,
     CardSideInv
<1>6. CardSideInv'
  BY CardStays DEF host, custodyVars, Steps, WithdrawalTypes, ForwardInv, CashInv, EndInv,
     CardSideInv, CardBeforeCash
<1> QED
  BY <1>1, <1>2, <1>3, <1>4, <1>5, <1>6

\* CustomerTakesCash: notes in the slot become the customer's.
LEMMA CustomerTakesCashKeeps == ASSUME WithdrawalInv, CustomerTakesCash PROVE WithdrawalInv'
<1> USE DEF CustomerTakesCash
<1>1. CardInv'
  BY QuietInv, FaultFacts DEF custodyVars, host
<1>2. WithdrawalTypes'
  BY DEF host, custodyVars, Steps, WithdrawalTypes
<1>3. ForwardInv'
  BY DEF host, custodyVars, Steps, WithdrawalTypes, ForwardInv, CashInv, EndInv
<1>4. CashInv'
  BY DEF host, custodyVars, Steps, WithdrawalTypes, ForwardInv, CashInv, EndInv
<1>5. EndInv'
  BY DEF host, custodyVars, Steps, WithdrawalTypes, ForwardInv, CashInv, EndInv, CardSideInv
<1>6. CardSideInv'
  BY DEF host, custodyVars, Steps, WithdrawalTypes, ForwardInv, CashInv, EndInv, CardSideInv,
     CardBeforeCash
<1> QED
  BY <1>1, <1>2, <1>3, <1>4, <1>5, <1>6
-----------------------------------------------------------------------------
(* The invariant.                                                          *)

\* A new operation has touched neither notes nor card.
LEMMA InitInv == ASSUME Init PROVE WithdrawalInv
<1>1. CardInv
  <2>1. card \in {"none", "inside"} /\ journal \in {"open", "clear"}
    BY DEF Init
  <2>2. card = "inside" => journal = "open"
    BY DEF Init
  <2>3. lease \in Leases
    BY DEF Init, Leases, NoLease, Authorities
  <2>4. request \in Requests /\ cards \in Nat
    BY DEF Init
  <2> QED
    BY <2>1, <2>2, <2>3, <2>4, FreshInv DEF Init
<1>2. initialState \in Operations
  BY DEF initialState, Operations, Steps, CashFacts, CommandFacts, Outcomes, EndReasons, Statuses,
         CallReasons
<1>3. sess \in Sessions /\ sess.phase = "none" /\ ~sess.moved
  BY DEF Init, NoSession, Sessions
<1>4. /\ w \in Operations /\ w.pc = "recover" /\ w.custody = "not-started" /\ ~w.caught
      /\ w.dispense = "not-requested" /\ w.then = "conclude" /\ w.status = "none" /\ ~w.admitted
      /\ w.card # "returned"
      /\ w.card = "session-retained" => config.cardOrder = "managed-by-parent-session"
  BY <1>2 DEF Init, initialState
<1>5. config \in Configs /\ notes = "vault"
  BY DEF Init
<1>6. WithdrawalTypes
  BY <1>3, <1>4, <1>5 DEF WithdrawalTypes
<1>7. ForwardInv /\ CashInv
  BY <1>3, <1>4, <1>5 DEF ForwardInv, CashInv
<1>8. EndInv /\ CardSideInv
  BY <1>3, <1>4, <1>5 DEF EndInv, CardSideInv, CardBeforeCash
<1> QED
  BY <1>1, <1>6, <1>7, <1>8

\* Every step of the withdrawal, of the card service and of the customer.
LEMMA StepInv == ASSUME WithdrawalInv, [Next]_vars PROVE WithdrawalInv'
<1> USE DEF Next
<1>1. CASE Orchestrator
  BY <1>1, RecoverKeeps, StartTransactionKeeps, AuditStartedKeeps, AuthorizeHostKeeps,
     MarkAuthorizedKeeps, AuditAuthorizedKeeps, EvaluateGatesKeeps, AuthorizePresentationKeeps,
     FinalizeKeeps, StartCashKeeps, DispenseKeeps, PresentKeeps, WaitForTakeKeeps, AbortCashKeeps,
     TransferCashKeeps, SkipCardKeeps, ResolveCardKeeps, CardReturnsKeeps, Zenon
     DEF Orchestrator
<1>2. CASE Card
  BY <1>2, CardKeeps, Zenon
<1>3. CASE CustomerTakesCash
  BY <1>3, CustomerTakesCashKeeps, Zenon
<1>4. CASE UNCHANGED vars
  <2>1. UNCHANGED <<reader, host, evid, svc, request, cards, faults, config, notes, sess, w>>
    BY <1>4 DEF vars, custodyVars
  <2>2. CardInv'
    BY <2>1, QuietInv DEF host, CardInv, CallTypes
  <2>3. UNCHANGED <<card, config, notes, sess, w>>
    BY <2>1
  <2>4. WithdrawalTypes' /\ ForwardInv' /\ CashInv'
    BY <2>3 DEF WithdrawalTypes, ForwardInv, CashInv
  <2>5. EndInv' /\ CardSideInv'
    BY <2>3 DEF EndInv, CardSideInv, CardBeforeCash
  <2> QED
    BY <2>2, <2>4, <2>5
<1> QED
  BY <1>1, <1>2, <1>3, <1>4

\* The invariant of every withdrawal.
LEMMA WithdrawalInvariant == Spec => []WithdrawalInv
<1>1. Init => WithdrawalInv
  BY InitInv
<1>2. WithdrawalInv /\ [Next]_vars => WithdrawalInv'
  BY StepInv
<1> QED
  BY <1>1, <1>2, PTL DEF Spec

(* Under return-before-cash-present no note reaches the customer's side    *)
(* before the card is really in the customer's hands                       *)
(* (WithdrawalOrchestrator.returnCard, then presentCash), whatever the     *)
(* card service goes through.                                              *)
THEOREM CardComesBeforeCash == Spec => []CardBeforeCash
<1>1. WithdrawalInv => CardBeforeCash
  BY DEF CardSideInv
<1> QED
  BY <1>1, WithdrawalInvariant, PTL

(* The outcome of runAdmitted is true of the notes, the card and the host, *)
(* and where custody is open it is an intervention to be reconciled.       *)
THEOREM OutcomesAreHonest == Spec => []OutcomeIsHonest
<1>1. ASSUME WithdrawalInv PROVE OutcomeIsHonest
  <2>1. CardTypeOK
    BY <1>1, CardInvSuffices DEF CardIsAccountedFor
  <2>2. TypeOK
    BY <1>1, <2>1 DEF TypeOK, WithdrawalTypes, Operations, Sessions, CashFacts, EndInv
  <2>3. OutcomeIsTrue
    BY <1>1 DEF OutcomeIsTrue, WithdrawalTypes, ForwardInv, CashInv, EndInv
  <2>4. DispensedOnlyIfApproved
    BY <1>1 DEF DispensedOnlyIfApproved, CashInv
  <2>5. UnresolvedCashIsEscalated
    BY <1>1 DEF UnresolvedCashIsEscalated, CashInv, EndInv
  <2> QED
    BY <2>2, <2>3, <2>4, <2>5 DEF OutcomeIsHonest
<1> QED
  BY <1>1, WithdrawalInvariant, PTL
=============================================================================
