---------------------------- MODULE HostDelivery ----------------------------
(***************************************************************************)
(* Durable delivery of financial messages to the host: the outbox, the      *)
(* encrypted payloads, the worker that leases, sends and records, the       *)
(* inquiry and the operator that settle what is uncertain, and execute(),   *)
(* through which withdrawals and deposits use all of it.  Every transaction *)
(* of the store is one step; every await is a point where the others run.   *)
(***************************************************************************)
EXTENDS Naturals, FiniteSets

CONSTANTS
  Ids,          \* outbox ids, one per operation and binding
  MaxCalls,     \* bound: calls of execute(), runOnce() and reconcile()
  Scopes,       \* bounds: the [ids, calls, restarts, faults] a behaviour may have; a fault is a
                \* rejected database call or a reused response id
  PolicyTerms,  \* [strategy, notFound, maxAttempts] a project may register
  MaxManual     \* bound: decisions of the operator

ASSUME DeliveryAssumption == Ids # {} /\ MaxCalls \in Nat

VARIABLES
  rows,       \* kiosk_host_outbox
  vault,      \* ids whose request payload is stored
  responses,  \* kiosk_host_response: [rid, id]
  rvault,     \* response payloads: [rid, id], id the request the host answered
  received,   \* ids the host has received
  astray,     \* ids sent by an attempt that has given up, still on their way
  calls,
  scope, policy, version, restarts, manual, dfaults,
  doubtful,   \* history: <<id, attempt>> sent, and nobody knows whether it arrived
  overtaken,  \* history: a call sent or wrote a row that others had moved on
  clash,      \* history: ids of which the database rejected an enqueue
  reused      \* history: the host used a response id twice

terms == <<scope, policy, version, restarts>>
deliveryVars == <<rows, vault, responses, rvault, received, astray, calls, terms, manual,
                  dfaults, doubtful, overtaken, clash, reused>>

DeliveryStatus == {"none", "pending", "leased", "retryScheduled", "uncertain", "reconciled", "failed", "cancelled"}
Calls == 1..MaxCalls
NoCall == 0
NoRow == [status |-> "none", attempts |-> 0, due |-> FALSE, owner |-> NoCall, expired |-> FALSE, version |-> 0]
\* Response ids: an id's first is what its transport reports, its second what an inquiry may.
Rids == Ids \X {1, 2}

\* n: the attempt a call speaks of; mark: the status it is about to write.
IdleCall == [pc |-> "new", kind |-> "none", id |-> CHOOSE i \in Ids : TRUE, n |-> 0, sent |-> FALSE,
             rid |-> <<CHOOSE i \in Ids : TRUE, 1>>, mark |-> "none", due |-> FALSE, out |-> "none"]

DeliveryInit ==
  /\ rows = [i \in Ids |-> NoRow] /\ vault = {} /\ responses = {} /\ rvault = {}
  /\ received = {} /\ astray = {} /\ calls = [c \in Calls |-> IdleCall]
  /\ scope \in Scopes /\ policy \in PolicyTerms /\ version = 1 /\ restarts = 0 /\ manual = 0 /\ dfaults = 0
  /\ doubtful = {} /\ overtaken = FALSE /\ clash = {} /\ reused = FALSE

DFault == dfaults < scope.faults /\ dfaults' = dfaults + 1
At(c, l) == calls[c].pc = l
Row(c) == rows[calls[c].id]
Go(c, l) == calls' = [calls EXCEPT ![c].pc = l]
Over(c, out) == [IdleCall EXCEPT !.pc = "done", !.kind = calls[c].kind, !.id = calls[c].id, !.out = out]
Ends(c, out) == calls' = [calls EXCEPT ![c] = Over(c, out)]
\* dispatch() is over: execute() reads the row again, a poll ends.
Worked(c) == IF calls[c].kind = "execute" THEN Go(c, "reread") ELSE Ends(c, "worked")
Marks(c, status, due) == calls' = [calls EXCEPT ![c].pc = "mark", ![c].mark = status, ![c].due = due]
\* The row is as the call left it or read it: leased by it, or uncertain.
Own(c) ==
  /\ Row(c).attempts = calls[c].n
  /\ IF calls[c].kind = "reconcile" THEN Row(c).status = "uncertain"
     ELSE Row(c).status = "leased" /\ Row(c).owner = c
Doubts(i) == {d \in doubtful : d[1] = i}
history == <<doubtful, overtaken, clash, reused>>

-----------------------------------------------------------------------------
(* execute(): the request is stored once and dispatched.  *)

Begin(c, kind, i) ==
  /\ At(c, "new") /\ c <= scope.calls /\ i \in scope.ids
  /\ \A d \in 1..(c - 1) : ~At(d, "new")
  /\ calls' = [calls EXCEPT ![c] = [IdleCall EXCEPT !.kind = kind, !.id = i,
                 !.pc = IF kind = "poll" THEN "claim" ELSE "get"]]
  /\ UNCHANGED <<rows, vault, responses, rvault, received, astray, terms, manual, dfaults, history>>

ReadExisting(c) ==
  /\ At(c, "get") /\ calls[c].kind = "execute"
  /\ Go(c, CASE Row(c).status = "none" -> "put"
             [] Row(c).status = "reconciled" -> "reread"
             [] OTHER -> "claim")
  /\ UNCHANGED <<rows, vault, responses, rvault, received, astray, terms, manual, dfaults, history>>

\* queue.enqueue: the payload first.
PutPayload(c) ==
  /\ At(c, "put") /\ vault' = vault \cup {calls[c].id} /\ Go(c, "enqueue")
  /\ UNCHANGED <<rows, responses, rvault, received, astray, terms, manual, dfaults, history>>

\* store.enqueue: a row with this idempotency key is returned as it is.
Enqueue(c) ==
  /\ At(c, "enqueue")
  /\ rows' = IF Row(c).status # "none" THEN rows
             ELSE [rows EXCEPT ![calls[c].id] =
                     [NoRow EXCEPT !.status = "pending", !.due = TRUE, !.version = version]]
  /\ Go(c, "claim")
  /\ UNCHANGED <<vault, responses, rvault, received, astray, terms, manual, dfaults, history>>

EnqueueRejected(c) ==
  /\ At(c, "enqueue") /\ DFault /\ Go(c, "undo")
  /\ clash' = clash \cup {calls[c].id}
  /\ UNCHANGED <<rows, vault, responses, rvault, received, astray, terms, manual, doubtful, overtaken, reused>>

\* catch: the payload is deleted, also when another call's row refers to it.
UndoPayload(c) ==
  /\ At(c, "undo") /\ vault' = vault \ {calls[c].id} /\ Ends(c, "error")
  /\ UNCHANGED <<rows, responses, rvault, received, astray, terms, manual, dfaults, history>>

-----------------------------------------------------------------------------
(* worker.runOnce  *)

\* Mutant: an expired lease returns the row to the retry queue.
ExpireToRetry(i) ==
  IF rows[i].status = "leased" /\ rows[i].expired
  THEN [rows[i] EXCEPT !.status = "retryScheduled", !.due = TRUE, !.owner = NoCall, !.expired = FALSE]
  ELSE rows[i]

\* claim, claimNext: first every expired lease becomes uncertain.
Expire(i) ==
  IF rows[i].status = "leased" /\ rows[i].expired
  THEN [rows[i] EXCEPT !.status = "uncertain", !.owner = NoCall, !.expired = FALSE]
  ELSE rows[i]

Claimable(c) ==
  {i \in Ids : /\ rows[i].status \in {"pending", "retryScheduled"} /\ rows[i].due
               /\ calls[c].kind = "execute" => i = calls[c].id}

\* Then a due row is leased; one stored under another policy version becomes uncertain.
Claim(c) ==
  /\ At(c, "claim")
  /\ LET swept == [i \in Ids |-> Expire(i)]
     IN \/ Claimable(c) = {} /\ rows' = swept /\ Worked(c)
        \/ \E i \in Claimable(c) :
             IF rows[i].version # version
             THEN rows' = [swept EXCEPT ![i].status = "uncertain"] /\ Worked(c)
             ELSE /\ rows' = [swept EXCEPT ![i] = [@ EXCEPT !.status = "leased", !.attempts = rows[i].attempts + 1,
                                                             !.owner = c, !.expired = FALSE]]
                  /\ calls' = [calls EXCEPT ![c].pc = "payload", ![c].id = i, ![c].n = rows[i].attempts + 1]
  /\ UNCHANGED <<vault, responses, rvault, received, astray, terms, manual, dfaults, history>>

\* vault.get, and transport.send begins.
ReadPayload(c) ==
  /\ At(c, "payload") /\ overtaken' = (overtaken \/ ~Own(c))
  /\ IF calls[c].id \in vault
     THEN Go(c, "sending") /\ doubtful' = doubtful \cup {<<calls[c].id, calls[c].n>>}
     ELSE Marks(c, "failed", FALSE) /\ UNCHANGED doubtful
  /\ UNCHANGED <<rows, vault, responses, rvault, received, astray, terms, manual, dfaults, clash, reused>>

HostReceives(c) ==
  /\ At(c, "sending") /\ ~calls[c].sent
  /\ received' = received \cup {calls[c].id} /\ calls' = [calls EXCEPT ![c].sent = TRUE]
  /\ UNCHANGED <<rows, vault, responses, rvault, astray, terms, manual, dfaults, history>>

\* An answer's id, and whether the host used it before for another request.
Answered(c, rids) ==
  \E rid \in Rids :
    /\ \/ rid \in rids /\ UNCHANGED <<dfaults, reused>>
       \/ rid[1] # calls[c].id /\ DFault /\ reused' = TRUE
    /\ calls' = [calls EXCEPT ![c].pc = "putResponse", ![c].rid = rid]

SendAnswered(c) ==
  /\ At(c, "sending") /\ calls[c].sent /\ Answered(c, {<<calls[c].id, 1>>})
  /\ UNCHANGED <<rows, vault, responses, rvault, received, astray, terms, manual, doubtful, overtaken, clash>>

\* "unknown", or an exception: the request may still arrive.
SendUnknown(c) ==
  /\ At(c, "sending") /\ Marks(c, "uncertain", FALSE)
  /\ astray' = IF calls[c].sent THEN astray ELSE astray \cup {calls[c].id}
  /\ UNCHANGED <<rows, vault, responses, rvault, received, terms, manual, dfaults, history>>

SendNotSent(c) ==
  /\ At(c, "sending") /\ ~calls[c].sent
  /\ doubtful' = doubtful \ {<<calls[c].id, calls[c].n>>}
  /\ IF calls[c].n >= policy.maxAttempts THEN Marks(c, "failed", FALSE) ELSE Marks(c, "retryScheduled", FALSE)
  /\ UNCHANGED <<rows, vault, responses, rvault, received, astray, terms, manual, dfaults, overtaken, clash, reused>>

ArrivesLate(i) ==
  /\ i \in astray /\ astray' = astray \ {i} /\ received' = received \cup {i}
  /\ UNCHANGED <<rows, vault, responses, rvault, calls, terms, manual, dfaults, history>>

-----------------------------------------------------------------------------
(* What a call records.  Neither write looks at the row it changes.  *)

AfterMark(c) == IF calls[c].kind = "reconcile" THEN Ends(c, "retryScheduled") ELSE Worked(c)

\* updateState, for scheduleRetry, markUncertain and markFailed.
Mark(c) ==
  /\ At(c, "mark") /\ overtaken' = (overtaken \/ ~Own(c))
  /\ rows' = [rows EXCEPT ![calls[c].id] = [@ EXCEPT !.status = calls[c].mark, !.due = calls[c].due,
                                                     !.owner = NoCall, !.expired = FALSE]]
  /\ AfterMark(c)
  /\ UNCHANGED <<vault, responses, rvault, received, astray, terms, manual, dfaults, doubtful, clash, reused>>

\* responses.apply: the payload first, kept if one is there.
PutResponse(c) ==
  /\ At(c, "putResponse") /\ Go(c, "apply")
  /\ rvault' = IF \E p \in rvault : p.rid = calls[c].rid THEN rvault
               ELSE rvault \cup {[rid |-> calls[c].rid, id |-> calls[c].id]}
  /\ UNCHANGED <<rows, vault, responses, received, astray, terms, manual, dfaults, history>>

Projected(c) == [rows EXCEPT ![calls[c].id] = [@ EXCEPT !.status = "reconciled", !.owner = NoCall, !.expired = FALSE]]

Applied(c) == IF calls[c].kind = "reconcile" THEN Ends(c, "reconciled") ELSE Worked(c)

\* applyResponse: duplicate, conflict, or the one that counts.
ApplyResponse(c) ==
  /\ At(c, "apply")
  /\ LET same == {r \in responses : r.rid = calls[c].rid}
     IN CASE \E r \in same : r.id = calls[c].id -> Applied(c) /\ UNCHANGED <<rows, responses, doubtful, overtaken>>
          [] \E r \in same : r.id # calls[c].id ->
               /\ IF calls[c].kind = "reconcile" THEN Ends(c, "reconciled") ELSE Marks(c, "uncertain", FALSE)
               /\ UNCHANGED <<rows, responses, doubtful, overtaken>>
          [] OTHER ->
               /\ responses' = responses \cup {[rid |-> calls[c].rid, id |-> calls[c].id]}
               /\ rows' = Projected(c) /\ overtaken' = (overtaken \/ ~Own(c))
               /\ doubtful' = doubtful \ Doubts(calls[c].id) /\ Applied(c)
  /\ UNCHANGED <<vault, rvault, received, astray, terms, manual, dfaults, clash, reused>>

\* Any other call of the database or the vault rejects, and the call with it.
DatabaseRejects(c) ==
  /\ calls[c].pc \in {"get", "put", "claim", "payload", "mark", "putResponse", "apply", "reread", "read"}
  /\ DFault /\ Ends(c, "error")
  /\ UNCHANGED <<rows, vault, responses, rvault, received, astray, terms, manual, history>>

-----------------------------------------------------------------------------
(* execute() after the dispatch; reconcile(); the operator; time; a restart.  *)

ReadAgain(c) ==
  /\ At(c, "reread") /\ IF Row(c).status = "reconciled" THEN Go(c, "read") ELSE Ends(c, "error")
  /\ UNCHANGED <<rows, vault, responses, rvault, received, astray, terms, manual, dfaults, history>>

Stored(i) == {p \in rvault : \E r \in responses : r.id = i /\ r.rid = p.rid}

\* readResponse, decoded completely or not.
ReadResponse(c) ==
  /\ At(c, "read")
  /\ \/ Stored(calls[c].id) # {} /\ Ends(c, "answered")
     \/ Ends(c, "error")
  /\ UNCHANGED <<rows, vault, responses, rvault, received, astray, terms, manual, dfaults, history>>

Reconcile(c) ==
  /\ At(c, "get") /\ calls[c].kind = "reconcile"
  /\ IF Row(c).status = "uncertain" /\ Row(c).version = version /\ policy.strategy = "inquiry"
     THEN calls' = [calls EXCEPT ![c].pc = "inquire", ![c].n = Row(c).attempts]
     ELSE Ends(c, "refused")
  /\ UNCHANGED <<rows, vault, responses, rvault, received, astray, terms, manual, dfaults, history>>

InquiryNotFound(c) ==
  /\ At(c, "inquire") /\ calls[c].id \notin received
  /\ IF policy.notFound = "manual" THEN Ends(c, "manualRequired") /\ UNCHANGED doubtful
     ELSE Marks(c, "retryScheduled", TRUE) /\ doubtful' = doubtful \ Doubts(calls[c].id)
  /\ UNCHANGED <<rows, vault, responses, rvault, received, astray, terms, manual, dfaults, overtaken, clash, reused>>

InquiryFound(c) ==
  /\ At(c, "inquire") /\ calls[c].id \in received /\ Answered(c, {<<calls[c].id, 1>>, <<calls[c].id, 2>>})
  /\ UNCHANGED <<rows, vault, responses, rvault, received, astray, terms, manual, doubtful, overtaken, clash>>

InquiryUnavailable(c) ==
  /\ At(c, "inquire") /\ Ends(c, "unavailable")
  /\ UNCHANGED <<rows, vault, responses, rvault, received, astray, terms, manual, dfaults, history>>

Resolutions == {"reconciled", "retryScheduled", "cancelled"}

\* manual.resolve, by an operator with a reason.
Resolve(i, status) ==
  /\ manual < MaxManual /\ manual' = manual + 1 /\ rows[i].status \in {"uncertain", "failed"}
  /\ rows' = [rows EXCEPT ![i] = [@ EXCEPT !.status = status, !.due = status = "retryScheduled",
                                           !.owner = NoCall, !.expired = FALSE]]
  /\ doubtful' = doubtful \ Doubts(i)
  /\ UNCHANGED <<vault, responses, rvault, received, astray, calls, terms, dfaults, overtaken, clash, reused>>

TimePasses(i) ==
  /\ \/ /\ rows[i].status = "leased" /\ ~rows[i].expired /\ rows' = [rows EXCEPT ![i].expired = TRUE]
     \/ /\ rows[i].status = "retryScheduled" /\ ~rows[i].due /\ rows' = [rows EXCEPT ![i].due = TRUE]
  /\ UNCHANGED <<vault, responses, rvault, received, astray, calls, terms, manual, dfaults, history>>

\* The process dies; the next one may bring another policy version.
Restart ==
  /\ restarts < scope.restarts /\ restarts' = restarts + 1 /\ version' \in {version, version + 1}
  /\ calls' = [c \in Calls |-> IF calls[c].pc \in {"new", "done"} THEN calls[c] ELSE Over(c, "error")]
  /\ astray' = astray \cup {calls[c].id : c \in {d \in Calls : At(d, "sending") /\ ~calls[d].sent}}
  /\ UNCHANGED <<rows, vault, responses, rvault, received, scope, policy, manual, dfaults, history>>

CallStep(c) ==
  \/ ReadExisting(c) \/ PutPayload(c) \/ Enqueue(c) \/ EnqueueRejected(c) \/ UndoPayload(c)
  \/ Claim(c) \/ ReadPayload(c) \/ SendAnswered(c) \/ SendUnknown(c) \/ SendNotSent(c)
  \/ Mark(c) \/ PutResponse(c) \/ ApplyResponse(c) \/ DatabaseRejects(c)
  \/ ReadAgain(c) \/ ReadResponse(c) \/ Reconcile(c)
  \/ InquiryNotFound(c) \/ InquiryFound(c) \/ InquiryUnavailable(c)

DeliveryNext ==
  \/ \E c \in Calls : CallStep(c) \/ HostReceives(c)
  \/ \E c \in Calls, k \in {"execute", "poll", "reconcile"}, i \in Ids : Begin(c, k, i)
  \/ \E i \in Ids : ArrivesLate(i) \/ TimePasses(i) \/ \E s \in Resolutions : Resolve(i, s)
  \/ Restart

DeliverySpec == DeliveryInit /\ [][DeliveryNext]_deliveryVars

-----------------------------------------------------------------------------
(* Properties *)

\* Rows, payloads and calls have their types; a row has an owner exactly while
\* it is leased.
DeliveryTypeOK ==
  /\ \A i \in Ids : /\ rows[i].status \in DeliveryStatus
                    /\ (rows[i].owner # NoCall) <=> (rows[i].status = "leased")
                    /\ rows[i].expired => rows[i].status = "leased"
  /\ vault \subseteq Ids /\ received \subseteq Ids /\ \A p \in rvault : p.rid \in Rids

\* worker, claim, reconcile, resolve: a row waits for a retry only when every
\* attempt so far was not sent, or an inquiry or the operator has decided so.
NoBlindRetry == \A i \in Ids : rows[i].status = "retryScheduled" => Doubts(i) = {}

\* The same, while every call finishes before others move its row on.
NoBlindRetryInTime == ~overtaken => NoBlindRetry

\* applyResponse: one response per delivery, while calls finish in time and the
\* host's response ids are its own.
OneResponse ==
  (~overtaken /\ ~reused) => \A i \in Ids : Cardinality({r \in responses : r.id = i}) <= 1

\* execute: it answers only with what the host answered to this very request,
\* whoever reconciled the row (response ids reused by the host excepted).
AnswerIsOwn ==
  ~reused => \A c \in Calls :
    calls[c].out = "answered" =>
      calls[c].id \in received /\ \A p \in Stored(calls[c].id) : p.id = calls[c].id

\* enqueue: a delivery that is still to be sent keeps its payload, unless an
\* enqueue of the same id was rejected: its payload may be another call's too.
PayloadKept ==
  \A i \in Ids \ clash : rows[i].status \in {"pending", "leased", "retryScheduled"} => i \in vault

\* The outbox: a request whose outcome is unknown is not sent again, and it has one
\* response, its own, whoever finds it out (worker.ts, reconciliation.ts, queue.ts).
DeliveryIsSafe ==
  DeliveryTypeOK /\ NoBlindRetryInTime /\ OneResponse /\ AnswerIsOwn /\ PayloadKept
=============================================================================
