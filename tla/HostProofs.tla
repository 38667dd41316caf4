----------------------------- MODULE HostProofs -----------------------------
(***************************************************************************)
(* Proofs about the way to the host: the delivery of financial messages,    *)
(* for any number of outbox ids, calls, restarts, faults and decisions of   *)
(* the operator; the one-shot channels; the persistent session under its    *)
(* supervisor, for any requests, faults and reconnections; and the framing  *)
(* of the stream, for any frame options, payloads and chunks.               *)
(*                                                                         *)
(* Delivery: the invariant says what each call knows of the row it works    *)
(* on: that it exists, which attempt it is at, and, while the row is as the *)
(* call left it, which attempts on it are in doubt.  One-shot channels:     *)
(* exchanges have their turns, and who has not had it wrote nothing.        *)
(* Session: what the host has yet to answer on the connection there is now  *)
(* belongs to the exchange at the head of the queue, the last control       *)
(* operation in the queue is the one the supervisor waits for, and what the *)
(* supervisor does is about the connection there is now.  Framing: what a   *)
(* reader holds and what is on its way are the stream from the next frame.  *)
(***************************************************************************)
EXTENDS MCHost, FiniteSetTheorems, SequenceTheorems, WellFoundedInduction, TLAPS

Pcs == {"new", "get", "put", "enqueue", "undo", "claim", "payload", "sending", "mark",
        "putResponse", "apply", "reread", "read", "inquire", "done"}
Kinds == {"none", "execute", "poll", "reconcile"}
Outs == {"none", "worked", "error", "answered", "reconciled", "retryScheduled", "refused",
         "manualRequired", "unavailable"}
Rows == [status : DeliveryStatus, attempts : Nat, due : BOOLEAN, owner : Nat, expired : BOOLEAN,
         version : Nat]
CallRecords == [pc : Pcs, kind : Kinds, id : Ids, n : Nat, sent : BOOLEAN, rid : Rids,
                mark : DeliveryStatus, due : BOOLEAN, out : Outs]
Responses == [rid : Rids, id : Ids]

DeliveryTypes ==
  /\ rows \in [Ids -> Rows] /\ calls \in [Calls -> CallRecords]
  /\ vault \subseteq Ids /\ received \subseteq Ids /\ clash \subseteq Ids
  /\ responses \subseteq Responses /\ rvault \subseteq Responses
  /\ version \in Nat /\ overtaken \in BOOLEAN /\ reused \in BOOLEAN

\* A call that works on a row.
Working == {"payload", "sending", "mark", "putResponse", "apply", "inquire"}

\* Which steps belong to which call.
KindInv(c) ==
  /\ calls[c].pc \in {"put", "enqueue", "undo", "claim", "payload", "sending", "reread", "read"} =>
       calls[c].kind \in {"execute", "poll"}
  /\ At(c, "inquire") => calls[c].kind = "reconcile"
  /\ At(c, "mark") => calls[c].mark \in {"failed", "uncertain", "retryScheduled"}
  /\ calls[c].pc \in {"get", "put", "enqueue", "claim"} => ~calls[c].sent /\ calls[c].out # "answered"

\* The payload of an enqueue is stored, unless one was taken back.
EnqueueInv(c) ==
  /\ At(c, "enqueue") => calls[c].id \in vault \cup clash
  /\ At(c, "undo") => calls[c].id \in clash

\* A call that has a response has its request's.
AnswerInv(c) ==
  /\ calls[c].sent => calls[c].id \in received
  /\ calls[c].pc \in {"putResponse", "apply"} =>
       calls[c].id \in received /\ (~reused => calls[c].rid[1] = calls[c].id)
  /\ calls[c].out = "answered" => calls[c].id \in received

\* The row of a call was never ahead of what the call saw, and a row whose
\* uncertain attempt is inquired is not leased for that attempt.
AttemptInv(c) ==
  calls[c].pc \in Working =>
    /\ Row(c).status # "none" /\ calls[c].n <= Row(c).attempts
    /\ calls[c].kind = "reconcile" /\ calls[c].n = Row(c).attempts => Row(c).status # "leased"

\* While the row is as the call left it, no attempt is in doubt but its own, and
\* none before it is sent and after it was found not to be.
DoubtInv(c) ==
  ~overtaken /\ calls[c].pc \in Working /\ Own(c) =>
    /\ At(c, "payload") \/ (At(c, "mark") /\ calls[c].mark = "retryScheduled") =>
         Doubts(calls[c].id) = {}
    /\ At(c, "sending") => Doubts(calls[c].id) \subseteq {<<calls[c].id, calls[c].n>>}

CallInv(c) == KindInv(c) /\ EnqueueInv(c) /\ AnswerInv(c) /\ AttemptInv(c) /\ DoubtInv(c)

\* A row is owned while it is leased; a row has its payload; one that waits to be
\* sent is not in doubt.
RowInv(i) ==
  /\ (rows[i].owner # NoCall) <=> (rows[i].status = "leased")
  /\ rows[i].expired => rows[i].status = "leased"
  /\ rows[i].status = "none" => rows[i].attempts = 0
  /\ rows[i].status # "none" => i \in vault \cup clash
  /\ ~overtaken /\ rows[i].status \in {"none", "pending", "retryScheduled"} => Doubts(i) = {}

\* A recorded response answers a received request, and closes its row.
ResponseInv ==
  /\ \A r \in responses : r.id \in received
  /\ ~reused => /\ \A r \in responses : r.rid[1] = r.id
                /\ \A p \in rvault : p.rid[1] = p.id
  /\ ~overtaken => /\ \A r \in responses : rows[r.id].status = "reconciled"
                   /\ \A r, s \in responses : r.id = s.id => r = s

DeliveryInv ==
  /\ DeliveryTypes /\ ResponseInv
  /\ \A i \in Ids : RowInv(i)
  /\ \A c \in Calls : CallInv(c)

-----------------------------------------------------------------------------
(* What the updates of a call leave in its record.                         *)

\* Every call of Calls is one, and nobody is not.
LEMMA CallIds == Calls \subseteq Nat /\ NoCall \notin Calls
BY DeliveryAssumption DEF Calls, NoCall

\* The values that calls and rows start with.
LEMMA IdleFacts ==
  /\ IdleCall \in CallRecords /\ IdleCall.pc = "new" /\ IdleCall.n = 0 /\ ~IdleCall.sent
  /\ IdleCall.out = "none" /\ IdleCall.mark = "none"
<1> DEFINE i == CHOOSE j \in Ids : TRUE
<1>1. i \in Ids
  BY DeliveryAssumption
<1>2. <<i, 1>> \in Rids
  BY <1>1 DEF Rids
<1> HIDE DEF i
<1>3. IdleCall = [pc |-> "new", kind |-> "none", id |-> i, n |-> 0, sent |-> FALSE,
                  rid |-> <<i, 1>>, mark |-> "none", due |-> FALSE, out |-> "none"]
  BY DEF IdleCall, i
<1> QED
  BY <1>1, <1>2, <1>3 DEF CallRecords, Pcs, Kinds, Outs, DeliveryStatus

LEMMA NoRowFacts ==
  /\ NoRow \in Rows /\ NoRow.status = "none" /\ NoRow.owner = NoCall /\ ~NoRow.expired
  /\ NoRow.attempts = 0
BY DEF NoRow, Rows, DeliveryStatus, NoCall

OthersKeep(c) == \A d \in Calls \ {c} : calls'[d] = calls[d]
SameRequest(c) ==
  /\ calls'[c].kind = calls[c].kind /\ calls'[c].id = calls[c].id /\ calls'[c].n = calls[c].n
  /\ calls'[c].sent = calls[c].sent /\ calls'[c].out = calls[c].out

\* The call goes on to its next await.
LEMMA GoFacts ==
  ASSUME DeliveryTypes, NEW c \in Calls, NEW l \in Pcs, Go(c, l)
  PROVE  /\ calls' \in [Calls -> CallRecords] /\ OthersKeep(c) /\ SameRequest(c)
         /\ calls'[c].pc = l /\ calls'[c].rid = calls[c].rid /\ calls'[c].mark = calls[c].mark
<1> DEFINE r == [calls[c] EXCEPT !.pc = l]
<1>1. calls' = [calls EXCEPT ![c] = r] /\ calls[c] \in CallRecords
  BY DEF Go, DeliveryTypes
<1>2. /\ r \in CallRecords /\ r.pc = l /\ r.kind = calls[c].kind /\ r.id = calls[c].id
      /\ r.n = calls[c].n /\ r.sent = calls[c].sent /\ r.out = calls[c].out
      /\ r.rid = calls[c].rid /\ r.mark = calls[c].mark
  BY <1>1 DEF CallRecords
<1> HIDE DEF r
<1>3. calls' \in [Calls -> CallRecords] /\ calls'[c] = r /\ OthersKeep(c)
  BY <1>1, <1>2 DEF DeliveryTypes, OthersKeep
<1> QED
  BY <1>2, <1>3 DEF SameRequest

\* The call ends.
LEMMA OverFacts ==
  ASSUME DeliveryTypes, NEW c \in Calls, NEW o \in Outs
  PROVE  /\ Over(c, o) \in CallRecords /\ Over(c, o).pc = "done" /\ Over(c, o).id = calls[c].id
         /\ ~Over(c, o).sent /\ Over(c, o).out = o
<1>1. calls[c] \in CallRecords
  BY DEF DeliveryTypes
<1>2. calls[c].kind \in Kinds /\ calls[c].id \in Ids /\ "done" \in Pcs
  BY <1>1 DEF CallRecords, Pcs
<1> QED
  BY <1>2, IdleFacts DEF Over, CallRecords

LEMMA EndsFacts ==
  ASSUME DeliveryTypes, NEW c \in Calls, NEW o \in Outs, Ends(c, o)
  PROVE  /\ calls' \in [Calls -> CallRecords] /\ OthersKeep(c)
         /\ calls'[c].pc = "done" /\ ~calls'[c].sent /\ calls'[c].out = o
         /\ calls'[c].id = calls[c].id
<1> DEFINE r == Over(c, o)
<1>1. /\ r \in CallRecords /\ r.pc = "done" /\ ~r.sent /\ r.out = o /\ r.id = calls[c].id
  BY OverFacts
<1>2. calls' = [calls EXCEPT ![c] = r]
  BY DEF Ends
<1> HIDE DEF r
<1>3. calls' \in [Calls -> CallRecords] /\ calls'[c] = r /\ OthersKeep(c)
  BY <1>1, <1>2 DEF DeliveryTypes, OthersKeep
<1> QED
  BY <1>1, <1>3

\* The call is about to write a status.
LEMMA MarksFacts ==
  ASSUME DeliveryTypes, NEW c \in Calls, NEW m \in DeliveryStatus, NEW b \in BOOLEAN, Marks(c, m, b)
  PROVE  /\ calls' \in [Calls -> CallRecords] /\ OthersKeep(c) /\ SameRequest(c)
         /\ calls'[c].pc = "mark" /\ calls'[c].mark = m
<1> DEFINE r == [calls[c] EXCEPT !.pc = "mark", !.mark = m, !.due = b]
<1>1. calls' = [calls EXCEPT ![c] = r] /\ calls[c] \in CallRecords
  BY DEF Marks, DeliveryTypes
<1>2. /\ r \in CallRecords /\ r.pc = "mark" /\ r.kind = calls[c].kind /\ r.id = calls[c].id
      /\ r.n = calls[c].n /\ r.sent = calls[c].sent /\ r.out = calls[c].out /\ r.mark = m
  BY <1>1 DEF CallRecords, Pcs
<1> HIDE DEF r
<1>3. calls' \in [Calls -> CallRecords] /\ calls'[c] = r /\ OthersKeep(c)
  BY <1>1, <1>2 DEF DeliveryTypes, OthersKeep
<1> QED
  BY <1>2, <1>3 DEF SameRequest

\* A call that is over, or reads its row again, asks for little.
LEMMA RestInv ==
  ASSUME NEW c \in Calls, calls'[c].pc = "done", ~calls'[c].sent, calls'[c].out # "answered"
  PROVE  CallInv(c)'
BY DEF CallInv, KindInv, EnqueueInv, AnswerInv, AttemptInv, DoubtInv, At, Working

-----------------------------------------------------------------------------
(* What a step does to a row, seen from the calls that do not take it.     *)

Grows ==
  /\ vault' \subseteq Ids /\ clash' \subseteq Ids /\ received \subseteq received' /\ received' \subseteq Ids
  /\ \A i \in vault \cup clash : i \in vault' \cup clash'
  /\ clash \subseteq clash' /\ reused' \in BOOLEAN /\ (reused => reused')
  /\ overtaken' \in BOOLEAN /\ version' \in Nat

\* c: the call that takes the step.
RowMoves(i, c) ==
  /\ rows[i].status # "none" => rows'[i].status # "none"
  /\ rows[i].attempts <= rows'[i].attempts
  /\ rows'[i].status = "leased" =>
       \/ /\ rows'[i].attempts = rows[i].attempts /\ rows[i].status = "leased"
          /\ rows[i].owner = rows'[i].owner
       \/ rows'[i].attempts > rows[i].attempts /\ rows'[i].owner = c
  /\ rows'[i].status = "uncertain" /\ rows'[i].attempts = rows[i].attempts =>
       rows[i].status \in {"uncertain", "leased"} \/ (~overtaken' => Doubts(i)' = {})
  /\ ~overtaken' =>
       /\ ~overtaken
       /\ \/ Doubts(i)' \subseteq Doubts(i)
          \/ rows[i].status = "leased" /\ rows[i].owner = c /\ rows'[i] = rows[i]

\* The step leaves the knowledge of the other calls true.
LEMMA OtherCallInv ==
  ASSUME DeliveryInv, NEW c, NEW d \in Calls, d # c, calls'[d] = calls[d], rows' \in [Ids -> Rows],
         Grows, RowMoves(calls[d].id, c)
  PROVE  CallInv(d)'
<1> DEFINE i == calls[d].id
<1>1. /\ CallInv(d) /\ calls[d] \in CallRecords /\ rows \in [Ids -> Rows] /\ reused \in BOOLEAN
  BY DEF DeliveryInv, DeliveryTypes
<1>2. /\ i \in Ids /\ calls[d].n \in Nat /\ calls[d].pc \in Pcs /\ calls[d].kind \in Kinds
  BY <1>1 DEF CallRecords
<1>3. rows[i].attempts \in Nat /\ rows'[i].attempts \in Nat
  BY <1>1, <1>2 DEF Rows
<1>4. KindInv(d)' /\ EnqueueInv(d)' /\ AnswerInv(d)'
  BY <1>1, <1>2 DEF CallInv, KindInv, EnqueueInv, AnswerInv, At, Grows
<1>5. AttemptInv(d)'
  BY <1>1, <1>2, <1>3 DEF CallInv, AttemptInv, Row, RowMoves
<1>6. ASSUME ~overtaken', calls[d].pc \in Working, Own(d)'
      PROVE  \/ Own(d) /\ Doubts(i)' \subseteq Doubts(i)
             \/ Doubts(i)' = {}
  <2>1. rows'[i].attempts = calls[d].n
    BY <1>6 DEF Own, Row
  <2>2. CASE calls[d].kind = "reconcile"
    <3>1. rows'[i].status = "uncertain" /\ rows[i].attempts = calls[d].n /\ rows[i].status # "leased"
      BY <1>1, <1>2, <1>3, <1>6, <2>1, <2>2 DEF Own, Row, RowMoves, CallInv, AttemptInv
    <3> QED
      BY <1>6, <2>1, <2>2, <3>1 DEF Own, Row, RowMoves
  <2>3. CASE calls[d].kind # "reconcile"
    <3>1. rows'[i].status = "leased" /\ rows'[i].owner = d
      BY <1>6, <2>3 DEF Own, Row
    <3>2. rows[i].status = "leased" /\ rows[i].owner = d /\ rows[i].attempts = calls[d].n
      BY <2>1, <3>1 DEF RowMoves
    <3> QED
      BY <1>6, <2>3, <3>2 DEF Own, Row, RowMoves
  <2> QED
    BY <2>2, <2>3
<1>7. DoubtInv(d)'
  <2> SUFFICES ASSUME ~overtaken', calls[d].pc \in Working, Own(d)'
               PROVE  /\ At(d, "payload") \/ (At(d, "mark") /\ calls[d].mark = "retryScheduled") =>
                           Doubts(i)' = {}
                      /\ At(d, "sending") => Doubts(i)' \subseteq {<<i, calls[d].n>>}
    BY DEF DoubtInv, At
  <2>1. ~overtaken
    BY DEF RowMoves
  <2>2. CASE Own(d) /\ Doubts(i)' \subseteq Doubts(i)
    BY <1>1, <2>1, <2>2 DEF CallInv, DoubtInv
  <2> QED
    BY <1>6, <2>2
<1> QED
  BY <1>4, <1>5, <1>7 DEF CallInv

\* So a step of c is about c, its row and the responses.
LEMMA StepInv ==
  ASSUME DeliveryInv, NEW c, calls' \in [Calls -> CallRecords], OthersKeep(c), rows' \in [Ids -> Rows],
         Grows, responses' \subseteq Responses, rvault' \subseteq Responses,
         \A i \in Ids : RowMoves(i, c) /\ RowInv(i)', ResponseInv',
         c \in Calls => CallInv(c)'
  PROVE  DeliveryInv'
<1>1. ASSUME NEW d \in Calls PROVE CallInv(d)'
  <2>1. CASE d # c
    <3>1. calls'[d] = calls[d]
      BY <2>1 DEF OthersKeep
    <3>2. calls[d].id \in Ids
      BY DEF DeliveryInv, DeliveryTypes, CallRecords
    <3>3. RowMoves(calls[d].id, c)
      BY <3>2
    <3> QED
      BY <2>1, <3>1, <3>3, OtherCallInv
  <2> QED
    BY <2>1
<1>2. DeliveryTypes'
  BY DEF DeliveryTypes, Grows
<1> QED
  BY <1>1, <1>2 DEF DeliveryInv

\* A step that writes no row and adds no doubt: what is left is c.
LEMMA CallOnlyInv ==
  ASSUME DeliveryInv, NEW c, calls' \in [Calls -> CallRecords], OthersKeep(c), Grows,
         UNCHANGED <<rows, responses, overtaken>>, doubtful' \subseteq doubtful,
         rvault' \subseteq Responses, ~reused' => \A p \in rvault' : p.rid[1] = p.id,
         c \in Calls => CallInv(c)'
  PROVE  DeliveryInv'
<1>1. \A i \in Ids : Doubts(i)' \subseteq Doubts(i)
  BY DEF Doubts
<1>2. rows' \in [Ids -> Rows] /\ \A i \in Ids : rows[i].attempts \in Nat
  BY DEF DeliveryInv, DeliveryTypes, Rows
<1>3. ASSUME NEW i \in Ids PROVE RowMoves(i, c)
  BY <1>1, <1>2 DEF RowMoves
<1>4. ASSUME NEW i \in Ids PROVE RowInv(i)'
  <2>1. RowInv(i)
    BY DEF DeliveryInv
  <2> QED
    BY <1>1, <2>1 DEF RowInv, Grows
<1>5. ResponseInv'
  BY DEF DeliveryInv, DeliveryTypes, ResponseInv, Grows
<1>6. responses' \subseteq Responses
  BY DEF DeliveryInv, DeliveryTypes
<1> QED
  BY <1>2, <1>3, <1>4, <1>5, <1>6, StepInv

-----------------------------------------------------------------------------
(* Steps of a call that write no row.                                      *)

\* What is read of a call.
LEMMA ReadFacts ==
  ASSUME DeliveryInv, NEW c \in Calls
  PROVE  /\ DeliveryTypes /\ CallInv(c) /\ calls[c].id \in Ids /\ calls[c].n \in Nat
         /\ calls[c].kind \in Kinds /\ calls[c].rid \in Rids /\ calls[c].mark \in DeliveryStatus
         /\ rows[calls[c].id] \in Rows /\ Row(c) = rows[calls[c].id]
BY DEF DeliveryInv, DeliveryTypes, CallRecords, Row

\* Steps that leave all of this alone.
LEMMA SameFacts ==
  ASSUME DeliveryInv, UNCHANGED <<vault, clash, received, reused, overtaken, version>>
  PROVE  Grows
BY DEF DeliveryInv, DeliveryTypes, Grows

LEMMA SameResponses ==
  ASSUME DeliveryInv, rvault' = rvault, reused => reused'
  PROVE  rvault' \subseteq Responses /\ (~reused' => \A p \in rvault' : p.rid[1] = p.id)
BY DEF DeliveryInv, DeliveryTypes, ResponseInv

\* A call ends, whatever it has read.
LEMMA EndInv ==
  ASSUME DeliveryInv, NEW c \in Calls, NEW o \in Outs \ {"answered"}, Ends(c, o),
         UNCHANGED <<rows, vault, responses, rvault, received, version, doubtful, overtaken, clash, reused>>
  PROVE  DeliveryInv'
<1>1. CallInv(c)'
  BY ReadFacts, EndsFacts, RestInv
<1> QED
  BY <1>1, ReadFacts, EndsFacts, SameFacts, SameResponses, CallOnlyInv

\* A call goes on to an await that asks for little.
LEMMA WalkInv ==
  ASSUME DeliveryInv, NEW c \in Calls, NEW l \in {"get", "put", "claim", "reread", "read"}, Go(c, l),
         calls[c].kind \in {"execute", "poll"},
         l \in {"reread", "read"} \/ (~calls[c].sent /\ calls[c].out # "answered"),
         UNCHANGED <<rows, vault, responses, rvault, received, version, doubtful, overtaken, clash, reused>>
  PROVE  DeliveryInv'
<1>1. l \in Pcs
  BY DEF Pcs
<1>2. CallInv(c) /\ DeliveryTypes
  BY ReadFacts
<1>3. /\ calls' \in [Calls -> CallRecords] /\ OthersKeep(c) /\ SameRequest(c) /\ calls'[c].pc = l
  BY <1>1, <1>2, GoFacts
<1>4. CallInv(c)'
  BY <1>2, <1>3 DEF CallInv, KindInv, EnqueueInv, AnswerInv, AttemptInv, DoubtInv, At, Working, SameRequest
<1> QED
  BY <1>3, <1>4, SameFacts, SameResponses, CallOnlyInv

\* execute(), runOnce() or reconcile() begins.
LEMMA BeginInv ==
  ASSUME DeliveryInv, NEW c \in Calls, NEW k \in {"execute", "poll", "reconcile"}, NEW i \in Ids,
         Begin(c, k, i)
  PROVE  DeliveryInv'
<1> DEFINE l == IF k = "poll" THEN "claim" ELSE "get"
           r == [IdleCall EXCEPT !.kind = k, !.id = i, !.pc = l]
<1>1. /\ calls' = [calls EXCEPT ![c] = r]
      /\ UNCHANGED <<rows, vault, responses, rvault, received, version, doubtful, overtaken, clash, reused>>
  BY DEF Begin, terms, history
<1>2. k \in Kinds /\ l \in Pcs
  BY DEF Kinds, Pcs
<1>3. r \in CallRecords /\ r.pc = l /\ r.kind = k /\ ~r.sent /\ r.out = "none"
  BY <1>2, IdleFacts DEF CallRecords
<1> HIDE DEF r
<1>4. calls' \in [Calls -> CallRecords] /\ OthersKeep(c) /\ calls'[c] = r
  BY <1>1, <1>3 DEF OthersKeep, DeliveryInv, DeliveryTypes
<1>5. CallInv(c)'
  BY <1>3, <1>4 DEF CallInv, KindInv, EnqueueInv, AnswerInv, AttemptInv, DoubtInv, At, Working
<1> QED
  BY <1>1, <1>4, <1>5, SameFacts, SameResponses, CallOnlyInv

\* execute() reads whether its row exists.
LEMMA ReadExistingInv ==
  ASSUME DeliveryInv, NEW c \in Calls, ReadExisting(c) PROVE DeliveryInv'
<1>1. ~calls[c].sent /\ calls[c].out # "answered"
  BY ReadFacts DEF ReadExisting, CallInv, KindInv, At
<1> QED
  BY <1>1, WalkInv DEF ReadExisting, terms, history

\* The payload is stored before the row.
LEMMA PutPayloadInv ==
  ASSUME DeliveryInv, NEW c \in Calls, PutPayload(c) PROVE DeliveryInv'
<1>1. /\ At(c, "put") /\ vault' = vault \cup {calls[c].id} /\ Go(c, "enqueue") /\ "enqueue" \in Pcs
      /\ UNCHANGED <<rows, responses, rvault, received, version, doubtful, overtaken, clash, reused>>
  BY DEF PutPayload, terms, history, Pcs
<1>2. DeliveryTypes /\ CallInv(c) /\ calls[c].id \in Ids
  BY ReadFacts
<1>3. calls' \in [Calls -> CallRecords] /\ OthersKeep(c) /\ SameRequest(c) /\ calls'[c].pc = "enqueue"
  BY <1>1, <1>2, GoFacts
<1>4. CallInv(c)'
  BY <1>1, <1>2, <1>3
     DEF CallInv, KindInv, EnqueueInv, AnswerInv, AttemptInv, DoubtInv, At, Working, SameRequest
<1>5. Grows
  BY <1>1, <1>2 DEF Grows, DeliveryTypes
<1> QED
  BY <1>1, <1>3, <1>4, <1>5, SameResponses, CallOnlyInv

\* The database rejects an enqueue: its id is on record as clashing.
LEMMA EnqueueRejectedInv ==
  ASSUME DeliveryInv, NEW c \in Calls, EnqueueRejected(c) PROVE DeliveryInv'
<1>1. /\ At(c, "enqueue") /\ clash' = clash \cup {calls[c].id} /\ Go(c, "undo") /\ "undo" \in Pcs
      /\ UNCHANGED <<rows, vault, responses, rvault, received, version, doubtful, overtaken, reused>>
  BY DEF EnqueueRejected, terms, Pcs
<1>2. DeliveryTypes /\ CallInv(c) /\ calls[c].id \in Ids
  BY ReadFacts
<1>3. calls' \in [Calls -> CallRecords] /\ OthersKeep(c) /\ SameRequest(c) /\ calls'[c].pc = "undo"
  BY <1>1, <1>2, GoFacts
<1>4. CallInv(c)'
  BY <1>1, <1>2, <1>3
     DEF CallInv, KindInv, EnqueueInv, AnswerInv, AttemptInv, DoubtInv, At, Working, SameRequest
<1>5. Grows
  BY <1>1, <1>2 DEF Grows, DeliveryTypes
<1> QED
  BY <1>1, <1>3, <1>4, <1>5, SameResponses, CallOnlyInv

\* Its payload is deleted.
LEMMA UndoPayloadInv ==
  ASSUME DeliveryInv, NEW c \in Calls, UndoPayload(c) PROVE DeliveryInv'
<1>1. /\ At(c, "undo") /\ vault' = vault \ {calls[c].id} /\ Ends(c, "error") /\ "error" \in Outs
      /\ UNCHANGED <<rows, responses, rvault, received, version, doubtful, overtaken, clash, reused>>
  BY DEF UndoPayload, terms, history, Outs
<1>2. DeliveryTypes /\ CallInv(c) /\ calls[c].id \in clash
  BY <1>1, ReadFacts DEF CallInv, EnqueueInv
<1>3. CallInv(c)'
  BY <1>1, <1>2, EndsFacts, RestInv
<1>4. Grows
  BY <1>1, <1>2 DEF Grows, DeliveryTypes
<1> QED
  BY <1>1, <1>2, <1>3, <1>4, EndsFacts, SameResponses, CallOnlyInv

\* The host receives what a call sends.
LEMMA HostReceivesInv ==
  ASSUME DeliveryInv, NEW c \in Calls, HostReceives(c) PROVE DeliveryInv'
<1> DEFINE r == [calls[c] EXCEPT !.sent = TRUE]
<1>1. /\ At(c, "sending") /\ received' = received \cup {calls[c].id} /\ calls' = [calls EXCEPT ![c] = r]
      /\ UNCHANGED <<rows, vault, responses, rvault, version, doubtful, overtaken, clash, reused>>
  BY DEF HostReceives, terms, history
<1>2. DeliveryTypes /\ CallInv(c) /\ calls[c].id \in Ids /\ calls[c] \in CallRecords
  BY ReadFacts DEF DeliveryTypes
<1>3. /\ r \in CallRecords /\ r.pc = calls[c].pc /\ r.kind = calls[c].kind /\ r.id = calls[c].id
      /\ r.n = calls[c].n /\ r.out = calls[c].out /\ r.mark = calls[c].mark
  BY <1>2 DEF CallRecords
<1> HIDE DEF r
<1>4. calls' \in [Calls -> CallRecords] /\ OthersKeep(c) /\ calls'[c] = r
  BY <1>1, <1>2, <1>3 DEF OthersKeep, DeliveryTypes
<1>5. KindInv(c)' /\ EnqueueInv(c)' /\ AnswerInv(c)' /\ AttemptInv(c)'
  BY <1>1, <1>2, <1>3, <1>4 DEF CallInv, KindInv, EnqueueInv, AnswerInv, AttemptInv, At, Working, Row
<1>6. DoubtInv(c)'
  BY <1>1, <1>2, <1>3, <1>4 DEF CallInv, DoubtInv, At, Working, Row, Own, Doubts
<1>7. Grows
  BY <1>1, <1>2 DEF Grows, DeliveryTypes
<1> QED
  BY <1>1, <1>4, <1>5, <1>6, <1>7, SameResponses, CallOnlyInv DEF CallInv

\* A response, to what was sent or to an inquiry: its id is the request's own,
\* or the host's reuse is on record.
LEMMA AnsweredInv ==
  ASSUME DeliveryInv, NEW c \in Calls, NEW rids \in SUBSET Rids, Answered(c, rids),
         \A rid \in rids : rid[1] = calls[c].id,
         calls[c].pc \in {"sending", "inquire"}, calls[c].id \in received,
         UNCHANGED <<rows, vault, responses, rvault, received, version, doubtful, overtaken, clash>>
  PROVE  DeliveryInv'
<1>1. PICK rid \in Rids : /\ (rid \in rids /\ reused' = reused) \/ reused' = TRUE
                          /\ calls' = [calls EXCEPT ![c].pc = "putResponse", ![c].rid = rid]
  BY DEF Answered
<1> DEFINE r == [calls[c] EXCEPT !.pc = "putResponse", !.rid = rid]
<1>2. calls' = [calls EXCEPT ![c] = r] /\ DeliveryTypes /\ CallInv(c) /\ calls[c] \in CallRecords
  BY <1>1, ReadFacts DEF DeliveryTypes
<1>3. /\ r \in CallRecords /\ r.pc = "putResponse" /\ r.kind = calls[c].kind /\ r.id = calls[c].id
      /\ r.n = calls[c].n /\ r.out = calls[c].out /\ r.sent = calls[c].sent /\ r.rid = rid
  BY <1>2 DEF CallRecords, Pcs
<1> HIDE DEF r
<1>4. calls' \in [Calls -> CallRecords] /\ OthersKeep(c) /\ calls'[c] = r
  BY <1>2, <1>3 DEF OthersKeep, DeliveryTypes
<1>5. KindInv(c)' /\ EnqueueInv(c)' /\ AnswerInv(c)' /\ AttemptInv(c)' /\ DoubtInv(c)'
  BY <1>1, <1>2, <1>3, <1>4
     DEF CallInv, KindInv, EnqueueInv, AnswerInv, AttemptInv, DoubtInv, At, Working, Row
<1>6. Grows /\ (reused => reused')
  BY <1>1, <1>2 DEF Grows, DeliveryTypes
<1> QED
  BY <1>4, <1>5, <1>6, SameResponses, CallOnlyInv DEF CallInv

LEMMA SendAnsweredInv ==
  ASSUME DeliveryInv, NEW c \in Calls, SendAnswered(c) PROVE DeliveryInv'
<1>1. calls[c].id \in received /\ <<calls[c].id, 1>> \in Rids
  BY ReadFacts DEF SendAnswered, CallInv, AnswerInv, Rids
<1> QED
  BY <1>1, AnsweredInv DEF SendAnswered, At, terms

LEMMA InquiryFoundInv ==
  ASSUME DeliveryInv, NEW c \in Calls, InquiryFound(c) PROVE DeliveryInv'
<1>1. <<calls[c].id, 1>> \in Rids /\ <<calls[c].id, 2>> \in Rids
  BY ReadFacts DEF Rids
<1> QED
  BY <1>1, AnsweredInv DEF InquiryFound, At, terms

\* A call is about to write what it found: a retry only of what is not in doubt.
LEMMA MarkingInv ==
  ASSUME DeliveryInv, NEW c \in Calls, NEW m \in {"failed", "uncertain", "retryScheduled"},
         NEW b \in BOOLEAN, Marks(c, m, b), calls[c].pc \in Working,
         UNCHANGED <<rows, vault, responses, rvault, received, version, overtaken, clash, reused>>,
         doubtful' \subseteq doubtful,
         m = "retryScheduled" /\ ~overtaken /\ Own(c) => Doubts(calls[c].id)' = {}
  PROVE  DeliveryInv'
<1>1. m \in DeliveryStatus
  BY DEF DeliveryStatus
<1>2. DeliveryTypes /\ CallInv(c)
  BY ReadFacts
<1>3. /\ calls' \in [Calls -> CallRecords] /\ OthersKeep(c) /\ SameRequest(c)
      /\ calls'[c].pc = "mark" /\ calls'[c].mark = m
  BY <1>1, <1>2, MarksFacts
<1>4. KindInv(c)' /\ EnqueueInv(c)' /\ AnswerInv(c)' /\ AttemptInv(c)'
  BY <1>2, <1>3 DEF CallInv, KindInv, EnqueueInv, AnswerInv, AttemptInv, At, Working, Row, SameRequest
<1>5. Own(c)' => Own(c)
  BY <1>3 DEF Own, Row, SameRequest
<1>6. DoubtInv(c)'
  BY <1>3, <1>5 DEF DoubtInv, At, SameRequest
<1> QED
  BY <1>3, <1>4, <1>6, SameFacts, SameResponses, CallOnlyInv DEF CallInv

\* The transport does not know whether the request was sent.
LEMMA SendUnknownInv ==
  ASSUME DeliveryInv, NEW c \in Calls, SendUnknown(c) PROVE DeliveryInv'
BY MarkingInv DEF SendUnknown, At, Working, terms, history

\* The request was not sent: its attempt is no longer in doubt.
LEMMA SendNotSentInv ==
  ASSUME DeliveryInv, NEW c \in Calls, SendNotSent(c) PROVE DeliveryInv'
<1>1. /\ calls[c].pc = "sending" /\ doubtful' = doubtful \ {<<calls[c].id, calls[c].n>>}
      /\ UNCHANGED <<rows, vault, responses, rvault, received, version, overtaken, clash, reused>>
      /\ Marks(c, "failed", FALSE) \/ Marks(c, "retryScheduled", FALSE)
  BY DEF SendNotSent, At, terms
<1>2. ~overtaken /\ Own(c) => Doubts(calls[c].id) \subseteq {<<calls[c].id, calls[c].n>>}
  BY <1>1, ReadFacts DEF CallInv, DoubtInv, At, Working
<1>3. ~overtaken /\ Own(c) => Doubts(calls[c].id)' = {}
  <2> SUFFICES ASSUME ~overtaken, Own(c), NEW x \in Doubts(calls[c].id)' PROVE FALSE
    OBVIOUS
  <2>1. calls'[c].id = calls[c].id
    BY <1>1, ReadFacts, MarksFacts DEF DeliveryStatus, SameRequest
  <2> QED
    BY <1>1, <1>2, <2>1 DEF Doubts
<1> QED
  BY <1>1, <1>3, MarkingInv DEF Working

\* An inquiry did not find the request: the operator is asked, or the policy
\* settles the doubts.
LEMMA InquiryNotFoundInv ==
  ASSUME DeliveryInv, NEW c \in Calls, InquiryNotFound(c) PROVE DeliveryInv'
<1>1. /\ calls[c].pc = "inquire"
      /\ UNCHANGED <<rows, vault, responses, rvault, received, version, overtaken, clash, reused>>
  BY DEF InquiryNotFound, At, terms
<1>2. CASE Ends(c, "manualRequired") /\ UNCHANGED doubtful
  BY <1>1, <1>2, EndInv DEF Outs
<1>3. CASE Marks(c, "retryScheduled", TRUE) /\ doubtful' = doubtful \ Doubts(calls[c].id)
  <2>1. calls'[c].id = calls[c].id
    BY <1>3, ReadFacts, MarksFacts DEF DeliveryStatus, SameRequest
  <2>2. Doubts(calls[c].id)' = {}
    BY <1>3, <2>1 DEF Doubts
  <2> QED
    BY <1>1, <1>3, <2>2, MarkingInv DEF Working
<1> QED
  BY <1>2, <1>3 DEF InquiryNotFound

\* reconcile() begins with an uncertain row.
LEMMA ReconcileInv ==
  ASSUME DeliveryInv, NEW c \in Calls, Reconcile(c) PROVE DeliveryInv'
<1> DEFINE r == [calls[c] EXCEPT !.pc = "inquire", !.n = Row(c).attempts]
<1>1. /\ calls[c].kind = "reconcile"
      /\ UNCHANGED <<rows, vault, responses, rvault, received, version, doubtful, overtaken, clash, reused>>
  BY DEF Reconcile, At, terms, history
<1>2. CASE Ends(c, "refused")
  BY <1>1, <1>2, EndInv DEF Outs
<1>3. CASE Row(c).status = "uncertain" /\ calls' = [calls EXCEPT ![c] = r]
  <2>1. /\ DeliveryTypes /\ CallInv(c) /\ calls[c] \in CallRecords /\ Row(c).attempts \in Nat
    BY ReadFacts DEF DeliveryTypes, Rows
  <2>2. /\ r \in CallRecords /\ r.pc = "inquire" /\ r.kind = calls[c].kind /\ r.id = calls[c].id
        /\ r.n = Row(c).attempts /\ r.out = calls[c].out /\ r.sent = calls[c].sent
    BY <2>1 DEF CallRecords, Pcs
  <2> HIDE DEF r
  <2>3. calls' \in [Calls -> CallRecords] /\ OthersKeep(c) /\ calls'[c] = r
    BY <1>3, <2>1, <2>2 DEF OthersKeep, DeliveryTypes
  <2>4. KindInv(c)' /\ EnqueueInv(c)' /\ AnswerInv(c)' /\ AttemptInv(c)' /\ DoubtInv(c)'
    BY <1>1, <1>3, <2>1, <2>2, <2>3
       DEF CallInv, KindInv, EnqueueInv, AnswerInv, AttemptInv, DoubtInv, At, Working, Row
  <2> QED
    BY <1>1, <2>3, <2>4, SameFacts, SameResponses, CallOnlyInv DEF CallInv
<1> QED
  BY <1>2, <1>3 DEF Reconcile

\* The response's payload is stored, unless one is there.
LEMMA PutResponseInv ==
  ASSUME DeliveryInv, NEW c \in Calls, PutResponse(c) PROVE DeliveryInv'
<1>1. /\ At(c, "putResponse") /\ Go(c, "apply") /\ "apply" \in Pcs
      /\ rvault' = rvault \/ rvault' = rvault \cup {[rid |-> calls[c].rid, id |-> calls[c].id]}
      /\ UNCHANGED <<rows, vault, responses, received, version, doubtful, overtaken, clash, reused>>
  BY DEF PutResponse, terms, history, Pcs
<1>2. DeliveryTypes /\ CallInv(c) /\ calls[c].id \in Ids /\ calls[c].rid \in Rids
  BY ReadFacts
<1>3. /\ calls' \in [Calls -> CallRecords] /\ OthersKeep(c) /\ SameRequest(c) /\ calls'[c].pc = "apply"
      /\ calls'[c].rid = calls[c].rid
  BY <1>1, <1>2, GoFacts
<1>4. KindInv(c)' /\ EnqueueInv(c)' /\ AnswerInv(c)' /\ AttemptInv(c)' /\ DoubtInv(c)'
  BY <1>1, <1>2, <1>3
     DEF CallInv, KindInv, EnqueueInv, AnswerInv, AttemptInv, DoubtInv, At, Working, Row, SameRequest
<1> DEFINE p == [rid |-> calls[c].rid, id |-> calls[c].id]
<1>5. p \in Responses /\ (~reused => p.rid[1] = p.id)
  BY <1>1, <1>2 DEF Responses, CallInv, AnswerInv, At
<1> HIDE DEF p
<1>6. rvault' = rvault \/ rvault' = rvault \cup {p}
  BY <1>1 DEF p
<1>7. rvault' \subseteq Responses /\ (~reused' => \A q \in rvault' : q.rid[1] = q.id)
  BY <1>1, <1>2, <1>5, <1>6 DEF DeliveryTypes, DeliveryInv, ResponseInv
<1> QED
  BY <1>1, <1>3, <1>4, <1>7, SameFacts, CallOnlyInv DEF CallInv

\* The database rejects, or what was read ends the call.
LEMMA DatabaseRejectsInv ==
  ASSUME DeliveryInv, NEW c \in Calls, DatabaseRejects(c) \/ InquiryUnavailable(c) PROVE DeliveryInv'
BY EndInv DEF DatabaseRejects, InquiryUnavailable, Outs, terms, history

\* execute() reads its row again.
LEMMA ReadAgainInv ==
  ASSUME DeliveryInv, NEW c \in Calls, ReadAgain(c) PROVE DeliveryInv'
<1>1. calls[c].kind \in {"execute", "poll"}
  BY ReadFacts DEF ReadAgain, CallInv, KindInv, At
<1> QED
  BY <1>1, EndInv, WalkInv DEF ReadAgain, Outs, terms, history

\* execute() answers: there is a recorded response, and so a received request.
LEMMA ReadResponseInv ==
  ASSUME DeliveryInv, NEW c \in Calls, ReadResponse(c) PROVE DeliveryInv'
<1>1. UNCHANGED <<rows, vault, responses, rvault, received, version, doubtful, overtaken, clash, reused>>
  BY DEF ReadResponse, terms, history
<1>2. CASE Ends(c, "error")
  BY <1>1, <1>2, EndInv DEF Outs
<1>3. CASE Stored(calls[c].id) # {} /\ Ends(c, "answered")
  <2>1. calls[c].id \in received
    BY <1>3 DEF Stored, DeliveryInv, ResponseInv
  <2>2. /\ calls' \in [Calls -> CallRecords] /\ OthersKeep(c) /\ calls'[c].pc = "done"
        /\ ~calls'[c].sent /\ calls'[c].id = calls[c].id
    BY <1>3, ReadFacts, EndsFacts DEF Outs
  <2>3. CallInv(c)'
    BY <1>1, <2>1, <2>2 DEF CallInv, KindInv, EnqueueInv, AnswerInv, AttemptInv, DoubtInv, At, Working
  <2> QED
    BY <1>1, <2>2, <2>3, SameFacts, SameResponses, CallOnlyInv
<1> QED
  BY <1>2, <1>3 DEF ReadResponse

\* A request that was given up arrives.
LEMMA ArrivesLateInv ==
  ASSUME DeliveryInv, NEW i \in Ids, ArrivesLate(i) PROVE DeliveryInv'
<1>1. /\ received' = received \cup {i} /\ calls' = calls
      /\ UNCHANGED <<rows, vault, responses, rvault, version, doubtful, overtaken, clash, reused>>
  BY DEF ArrivesLate, terms, history
<1>2. calls' \in [Calls -> CallRecords] /\ OthersKeep(NoCall) /\ Grows
  BY <1>1 DEF DeliveryInv, DeliveryTypes, OthersKeep, Grows
<1> QED
  BY <1>1, <1>2, CallIds, SameResponses, CallOnlyInv

\* The process dies: its calls are over, the rows stay.
LEMMA RestartInv == ASSUME DeliveryInv, Restart PROVE DeliveryInv'
<1>1. /\ version' \in {version, version + 1}
      /\ calls' = [c \in Calls |-> IF calls[c].pc \in {"new", "done"} THEN calls[c] ELSE Over(c, "error")]
      /\ UNCHANGED <<rows, vault, responses, rvault, received, doubtful, overtaken, clash, reused>>
  BY DEF Restart, history
<1>2. DeliveryTypes /\ "error" \in Outs
  BY DEF DeliveryInv, Outs
<1>3. ASSUME NEW c \in Calls PROVE calls'[c] \in CallRecords /\ CallInv(c)'
  <2>1. CASE calls[c].pc \in {"new", "done"}
    <3>1. calls'[c] = calls[c] /\ calls[c] \in CallRecords /\ CallInv(c)
      BY <1>1, <1>2, <2>1, ReadFacts DEF DeliveryTypes
    <3> QED
      BY <1>1, <2>1, <3>1 DEF CallInv, KindInv, EnqueueInv, AnswerInv, AttemptInv, DoubtInv, At, Working
  <2>2. CASE calls[c].pc \notin {"new", "done"}
    <3>1. calls'[c] = Over(c, "error")
      BY <1>1, <2>2
    <3>2. /\ calls'[c] \in CallRecords /\ calls'[c].pc = "done" /\ ~calls'[c].sent
          /\ calls'[c].out = "error"
      BY <1>2, <3>1, OverFacts
    <3> QED
      BY <3>2, RestInv
  <2> QED
    BY <2>1, <2>2
<1>4. calls' \in [Calls -> CallRecords]
  BY <1>1, <1>3
<1>5. DeliveryTypes'
  BY <1>1, <1>2, <1>4 DEF DeliveryTypes
<1>6. ResponseInv' /\ \A i \in Ids : RowInv(i)'
  BY <1>1 DEF DeliveryInv, ResponseInv, RowInv, Doubts
<1> QED
  BY <1>3, <1>5, <1>6 DEF DeliveryInv

-----------------------------------------------------------------------------
(* Steps that write a row.                                                 *)

\* One row is written, and no doubt is added: what is left is c and the row.
LEMMA OneRowInv ==
  ASSUME DeliveryInv, NEW c, calls' \in [Calls -> CallRecords], OthersKeep(c), Grows,
         NEW i \in Ids, NEW r \in Rows, rows' = [rows EXCEPT ![i] = r],
         doubtful' \subseteq doubtful, ~overtaken' => ~overtaken,
         responses' \subseteq Responses, rvault' \subseteq Responses, ResponseInv',
         RowMoves(i, c), RowInv(i)', c \in Calls => CallInv(c)'
  PROVE  DeliveryInv'
<1>1. rows' \in [Ids -> Rows] /\ \A j \in Ids \ {i} : rows'[j] = rows[j]
  BY DEF DeliveryInv, DeliveryTypes
<1>2. \A j \in Ids : Doubts(j)' \subseteq Doubts(j) /\ rows[j].attempts \in Nat
  BY DEF Doubts, DeliveryInv, DeliveryTypes, Rows
<1>3. ASSUME NEW j \in Ids PROVE RowMoves(j, c) /\ RowInv(j)'
  <2>1. CASE j # i
    <3>1. RowMoves(j, c)
      BY <1>1, <1>2, <2>1 DEF RowMoves
    <3>2. RowInv(j)
      BY DEF DeliveryInv
    <3> QED
      BY <1>1, <1>2, <2>1, <3>1, <3>2 DEF RowInv, Grows
  <2> QED
    BY <2>1
<1> QED
  BY <1>1, <1>3, StepInv

\* A response closes its row as long as nobody writes over it.
LEMMA ClosedStays ==
  ASSUME DeliveryInv, UNCHANGED <<responses, rvault, reused, received>>, ~overtaken' => ~overtaken,
         \A i \in Ids : ~overtaken' /\ rows[i].status = "reconciled" => rows'[i].status = "reconciled"
  PROVE  ResponseInv' /\ responses' \subseteq Responses /\ rvault' \subseteq Responses
BY DEF DeliveryInv, DeliveryTypes, ResponseInv, Responses

\* The row is inserted, unless it exists.
LEMMA EnqueueInsertsInv ==
  ASSUME DeliveryInv, NEW c \in Calls, Enqueue(c) PROVE DeliveryInv'
<1>1. /\ At(c, "enqueue") /\ Go(c, "claim") /\ "claim" \in Pcs
      /\ UNCHANGED <<vault, responses, rvault, received, version, doubtful, overtaken, clash, reused>>
  BY DEF Enqueue, terms, history, Pcs
<1> PICK i \in Ids : i = calls[c].id
  BY ReadFacts
<1> DEFINE r == [NoRow EXCEPT !.status = "pending", !.due = TRUE, !.version = version]
<1>2. /\ DeliveryTypes /\ CallInv(c) /\ rows[i] \in Rows /\ version \in Nat
      /\ calls[c].kind \in {"execute", "poll"} /\ i \in vault \cup clash
  BY <1>1, ReadFacts DEF DeliveryTypes, CallInv, KindInv, EnqueueInv, At
<1>3. CASE rows' = rows
  <2>1. ~calls[c].sent /\ calls[c].out # "answered"
    BY <1>1, <1>2 DEF CallInv, KindInv, At
  <2> QED
    BY <1>1, <1>2, <1>3, <2>1, WalkInv
<1>4. CASE rows[i].status = "none" /\ rows' = [rows EXCEPT ![i] = r]
  <2>1. r \in Rows /\ r.status = "pending" /\ r.owner = NoCall /\ ~r.expired /\ r.attempts = 0
    BY <1>2, NoRowFacts DEF Rows, DeliveryStatus
  <2> HIDE DEF r
  <2>2. rows'[i] = r /\ \A j \in Ids \ {i} : rows'[j] = rows[j]
    BY <1>2, <1>4 DEF DeliveryTypes
  <2>3. calls' \in [Calls -> CallRecords] /\ OthersKeep(c) /\ SameRequest(c) /\ calls'[c].pc = "claim"
    BY <1>1, <1>2, GoFacts
  <2>4. CallInv(c)'
    BY <1>1, <1>2, <2>3
       DEF CallInv, KindInv, EnqueueInv, AnswerInv, AttemptInv, DoubtInv, At, Working, SameRequest
  <2>5. RowInv(i) /\ Doubts(i)' = Doubts(i)
    BY <1>1, <1>2 DEF DeliveryInv, Doubts
  <2>6. RowInv(i)'
    BY <1>1, <1>2, <1>4, <2>1, <2>2, <2>5 DEF RowInv
  <2>7. RowMoves(i, c)
    BY <1>1, <1>4, <2>1, <2>2, <2>5 DEF RowMoves, RowInv
  <2>8. ResponseInv' /\ responses' \subseteq Responses /\ rvault' \subseteq Responses
    BY <1>1, <1>4, <2>2, ClosedStays
  <2> QED
    BY <1>1, <1>4, <2>1, <2>3, <2>4, <2>6, <2>7, <2>8, SameFacts, OneRowInv
<1> QED
  BY <1>3, <1>4 DEF Enqueue, Row

\* The call is through with its row.
LEMMA WorkedFacts ==
  ASSUME DeliveryInv, NEW c \in Calls, Worked(c), calls[c].kind # "reconcile",
         calls[c].pc \in Working \cup {"claim"},
         received' = received
  PROVE  calls' \in [Calls -> CallRecords] /\ OthersKeep(c) /\ CallInv(c)'
<1>1. DeliveryTypes /\ CallInv(c) /\ "worked" \in Outs \ {"answered"} /\ "reread" \in Pcs
  BY ReadFacts DEF Outs, Pcs
<1>2. CASE Ends(c, "worked")
  BY <1>1, <1>2, EndsFacts, RestInv
<1>3. CASE calls[c].kind = "execute" /\ Go(c, "reread")
  <2>1. calls' \in [Calls -> CallRecords] /\ OthersKeep(c) /\ SameRequest(c) /\ calls'[c].pc = "reread"
    BY <1>1, <1>3, GoFacts
  <2> QED
    BY <1>1, <1>3, <2>1
       DEF CallInv, KindInv, EnqueueInv, AnswerInv, AttemptInv, DoubtInv, At, Working, SameRequest
<1> QED
  BY <1>2, <1>3 DEF Worked

\* updateState: a call writes what it found; one that is overtaken says so.
LEMMA MarkInv ==
  ASSUME DeliveryInv, NEW c \in Calls, Mark(c) PROVE DeliveryInv'
<1> PICK i \in Ids : i = calls[c].id
  BY ReadFacts
<1> DEFINE r == [rows[i] EXCEPT !.status = calls[c].mark, !.due = calls[c].due,
                                !.owner = NoCall, !.expired = FALSE]
<1>1. /\ calls[c].pc = "mark" /\ rows' = [rows EXCEPT ![i] = r] /\ overtaken' = (overtaken \/ ~Own(c))
      /\ AfterMark(c)
      /\ UNCHANGED <<vault, responses, rvault, received, version, doubtful, clash, reused>>
  BY DEF Mark, At, terms
<1>2. /\ DeliveryTypes /\ CallInv(c) /\ rows[i] \in Rows /\ RowInv(i) /\ calls[c].due \in BOOLEAN
      /\ calls[c].mark \in {"failed", "uncertain", "retryScheduled"} /\ rows[i].status # "none"
  BY <1>1, ReadFacts
     DEF DeliveryInv, DeliveryTypes, CallRecords, CallInv, KindInv, AttemptInv, At, Working, Row
<1>3. /\ r \in Rows /\ r.status = calls[c].mark /\ r.owner = NoCall /\ ~r.expired
      /\ r.attempts = rows[i].attempts /\ r.attempts \in Nat
  BY <1>2 DEF Rows, DeliveryStatus, NoCall
<1> HIDE DEF r
<1>4. rows'[i] = r /\ \A j \in Ids \ {i} : rows'[j] = rows[j]
  BY <1>1, <1>2 DEF DeliveryTypes
<1>5. ~overtaken' => /\ ~overtaken /\ Own(c) /\ rows[i].status \in {"leased", "uncertain"}
                     /\ calls[c].mark = "retryScheduled" => Doubts(i) = {}
  BY <1>1, <1>2 DEF Own, Row, CallInv, DoubtInv, At, Working, DeliveryTypes
<1>6. Doubts(i)' = Doubts(i)
  BY <1>1 DEF Doubts
<1>7. calls' \in [Calls -> CallRecords] /\ OthersKeep(c) /\ CallInv(c)'
  <2>1. CASE Ends(c, "retryScheduled")
    BY <1>2, <2>1, EndsFacts, RestInv DEF Outs
  <2>2. CASE calls[c].kind # "reconcile" /\ Worked(c)
    BY <1>1, <2>2, WorkedFacts DEF Working
  <2> QED
    BY <1>1, <2>1, <2>2 DEF AfterMark
<1>8. RowInv(i)'
  BY <1>1, <1>2, <1>3, <1>4, <1>5, <1>6 DEF RowInv
<1>9. RowMoves(i, c)
  BY <1>1, <1>2, <1>3, <1>4, <1>5, <1>6 DEF RowMoves
<1>10. ResponseInv' /\ responses' \subseteq Responses /\ rvault' \subseteq Responses
  BY <1>1, <1>4, <1>5, ClosedStays
<1>11. Grows
  BY <1>1, <1>2 DEF Grows, DeliveryTypes
<1> QED
  BY <1>1, <1>3, <1>5, <1>7, <1>8, <1>9, <1>10, <1>11, OneRowInv

\* The operator decides: nothing about the row is in doubt any more.
LEMMA ResolveInv ==
  ASSUME DeliveryInv, NEW i \in Ids, NEW m \in Resolutions, Resolve(i, m) PROVE DeliveryInv'
<1> DEFINE r == [rows[i] EXCEPT !.status = m, !.due = m = "retryScheduled",
                                !.owner = NoCall, !.expired = FALSE]
<1>1. /\ rows' = [rows EXCEPT ![i] = r] /\ doubtful' = doubtful \ Doubts(i)
      /\ rows[i].status \in {"uncertain", "failed"} /\ calls' = calls
      /\ UNCHANGED <<vault, responses, rvault, received, version, overtaken, clash, reused>>
  BY DEF Resolve, terms
<1>2. DeliveryTypes /\ rows[i] \in Rows /\ RowInv(i) /\ m \in {"reconciled", "retryScheduled", "cancelled"}
  BY DEF DeliveryInv, DeliveryTypes, Resolutions
<1>3. /\ r \in Rows /\ r.status = m /\ r.owner = NoCall /\ ~r.expired
      /\ r.attempts = rows[i].attempts /\ r.attempts \in Nat
  BY <1>2 DEF Rows, DeliveryStatus, NoCall
<1> HIDE DEF r
<1>4. rows'[i] = r /\ \A j \in Ids \ {i} : rows'[j] = rows[j]
  BY <1>1, <1>2 DEF DeliveryTypes
<1>5. Doubts(i)' = {}
  BY <1>1 DEF Doubts
<1>6. calls' \in [Calls -> CallRecords] /\ OthersKeep(NoCall)
  BY <1>1, <1>2 DEF DeliveryTypes, OthersKeep
<1>7. RowInv(i)' /\ RowMoves(i, NoCall)
  BY <1>1, <1>2, <1>3, <1>4, <1>5 DEF RowInv, RowMoves
<1>8. ResponseInv' /\ responses' \subseteq Responses /\ rvault' \subseteq Responses
  BY <1>1, <1>4, ClosedStays
<1> QED
  BY <1>1, <1>3, <1>6, <1>7, <1>8, CallIds, SameFacts, OneRowInv

\* A lease runs out, or a retry becomes due.
LEMMA TimePassesInv ==
  ASSUME DeliveryInv, NEW i \in Ids, TimePasses(i) PROVE DeliveryInv'
<1> DEFINE x == [rows[i] EXCEPT !.expired = TRUE]
           y == [rows[i] EXCEPT !.due = TRUE]
<1>1. /\ \/ rows[i].status = "leased" /\ rows' = [rows EXCEPT ![i] = x]
         \/ rows[i].status = "retryScheduled" /\ rows' = [rows EXCEPT ![i] = y]
      /\ calls' = calls
      /\ UNCHANGED <<vault, responses, rvault, received, version, doubtful, overtaken, clash, reused>>
  BY DEF TimePasses, terms, history
<1>2. DeliveryTypes /\ rows[i] \in Rows /\ RowInv(i) /\ rows[i].attempts \in Nat
  BY DEF DeliveryInv, DeliveryTypes, Rows
<1>3. /\ x \in Rows /\ y \in Rows
      /\ x.status = rows[i].status /\ x.owner = rows[i].owner /\ x.attempts = rows[i].attempts
      /\ y.status = rows[i].status /\ y.owner = rows[i].owner /\ y.attempts = rows[i].attempts
      /\ y.expired = rows[i].expired
  BY <1>2 DEF Rows
<1> HIDE DEF x, y
<1>4. PICK r \in {x, y} : /\ rows' = [rows EXCEPT ![i] = r] /\ (r.expired => rows[i].status = "leased")
  BY <1>1, <1>2, <1>3 DEF RowInv
<1>5. rows'[i] = r /\ r \in Rows /\ \A j \in Ids \ {i} : rows'[j] = rows[j]
  BY <1>2, <1>3, <1>4 DEF DeliveryTypes
<1>6. Doubts(i)' = Doubts(i)
  BY <1>1 DEF Doubts
<1>7. calls' \in [Calls -> CallRecords] /\ OthersKeep(NoCall)
  BY <1>1, <1>2 DEF DeliveryTypes, OthersKeep
<1>8. RowInv(i)' /\ RowMoves(i, NoCall)
  BY <1>1, <1>2, <1>3, <1>4, <1>5, <1>6 DEF RowInv, RowMoves
<1>9. ResponseInv' /\ responses' \subseteq Responses /\ rvault' \subseteq Responses
  BY <1>1, <1>3, <1>5, ClosedStays
<1> QED
  BY <1>1, <1>4, <1>5, <1>7, <1>8, <1>9, CallIds, SameFacts, OneRowInv

\* vault.get: the attempt of a call that owns its row is in doubt from now on.
LEMMA ReadPayloadInv ==
  ASSUME DeliveryInv, NEW c \in Calls, ReadPayload(c) PROVE DeliveryInv'
<1> PICK i \in Ids : i = calls[c].id
  BY ReadFacts
<1>1. /\ calls[c].pc = "payload" /\ overtaken' = (overtaken \/ ~Own(c))
      /\ UNCHANGED <<rows, vault, responses, rvault, received, version, clash, reused>>
      /\ \/ Go(c, "sending") /\ doubtful' = doubtful \cup {<<i, calls[c].n>>}
         \/ Marks(c, "failed", FALSE) /\ doubtful' = doubtful
  BY DEF ReadPayload, At, terms
<1>2. /\ DeliveryTypes /\ CallInv(c) /\ rows[i] \in Rows /\ rows[i].attempts \in Nat
      /\ rows' \in [Ids -> Rows] /\ calls[c].kind \in {"execute", "poll"}
      /\ "sending" \in Pcs /\ "failed" \in DeliveryStatus
  BY <1>1, ReadFacts DEF DeliveryInv, DeliveryTypes, Rows, CallInv, KindInv, Pcs, DeliveryStatus
<1>3. ~overtaken' => /\ ~overtaken /\ Own(c) /\ rows[i].status = "leased" /\ rows[i].owner = c
                     /\ Doubts(i) = {}
  BY <1>1, <1>2 DEF Own, Row, CallInv, DoubtInv, At, Working, DeliveryTypes
<1>4. ASSUME NEW j \in Ids \ {i} PROVE Doubts(j)' \subseteq Doubts(j)
  <2>1. <<i, calls[c].n>>[1] # j
    OBVIOUS
  <2>2. \A d \in doubtful' : d[1] = j => d \in doubtful
    BY <1>1, <2>1
  <2> QED
    BY <2>2 DEF Doubts
<1>5. ASSUME NEW j \in Ids PROVE RowMoves(j, c) /\ RowInv(j)'
  <2>1. RowInv(j) /\ rows[j].attempts \in Nat
    BY <1>2 DEF DeliveryInv, DeliveryTypes, Rows
  <2>2. CASE j # i
    BY <1>1, <1>3, <1>4, <2>1, <2>2 DEF RowMoves, RowInv
  <2>3. CASE j = i
    BY <1>1, <1>3, <2>1, <2>3 DEF RowMoves, RowInv
  <2> QED
    BY <2>2, <2>3
<1>6. calls' \in [Calls -> CallRecords] /\ OthersKeep(c) /\ CallInv(c)'
  <2>1. CASE Go(c, "sending") /\ doubtful' = doubtful \cup {<<i, calls[c].n>>}
    <3>1. calls' \in [Calls -> CallRecords] /\ OthersKeep(c) /\ SameRequest(c) /\ calls'[c].pc = "sending"
      BY <1>2, <2>1, GoFacts
    <3>2. KindInv(c)' /\ EnqueueInv(c)' /\ AnswerInv(c)' /\ AttemptInv(c)'
      BY <1>1, <1>2, <3>1
         DEF CallInv, KindInv, EnqueueInv, AnswerInv, AttemptInv, At, Working, Row, SameRequest
    <3>3. ~overtaken' => Doubts(i)' \subseteq {<<i, calls[c].n>>}
      BY <1>3, <2>1 DEF Doubts
    <3>4. DoubtInv(c)'
      BY <3>1, <3>3 DEF DoubtInv, At, SameRequest
    <3> QED
      BY <3>1, <3>2, <3>4 DEF CallInv
  <2>2. CASE Marks(c, "failed", FALSE)
    <3>1. /\ calls' \in [Calls -> CallRecords] /\ OthersKeep(c) /\ SameRequest(c)
          /\ calls'[c].pc = "mark" /\ calls'[c].mark = "failed"
      BY <1>2, <2>2, MarksFacts
    <3>2. KindInv(c)' /\ EnqueueInv(c)' /\ AnswerInv(c)' /\ AttemptInv(c)' /\ DoubtInv(c)'
      BY <1>1, <1>2, <3>1
         DEF CallInv, KindInv, EnqueueInv, AnswerInv, AttemptInv, DoubtInv, At, Working, Row, SameRequest
    <3> QED
      BY <3>1, <3>2 DEF CallInv
  <2> QED
    BY <1>1, <2>1, <2>2
<1>7. ResponseInv' /\ responses' \subseteq Responses /\ rvault' \subseteq Responses
  BY <1>1, <1>3, ClosedStays
<1>8. Grows
  BY <1>1, <1>2 DEF Grows, DeliveryTypes
<1> QED
  BY <1>2, <1>5, <1>6, <1>7, <1>8, StepInv

\* An expired lease becomes uncertain; nothing else about a row changes.
LEMMA ExpireFacts ==
  ASSUME DeliveryInv, NEW i \in Ids
  PROVE  /\ Expire(i) \in Rows /\ Expire(i).attempts = rows[i].attempts /\ rows[i].attempts \in Nat
         /\ \/ Expire(i) = rows[i]
            \/ /\ rows[i].status = "leased" /\ Expire(i).status = "uncertain"
               /\ Expire(i).owner = NoCall /\ ~Expire(i).expired
         /\ rows[i].status \in {"pending", "retryScheduled"} => Expire(i) = rows[i]
<1> DEFINE r == [rows[i] EXCEPT !.status = "uncertain", !.owner = NoCall, !.expired = FALSE]
<1>1. rows[i] \in Rows
  BY DEF DeliveryInv, DeliveryTypes
<1>2. /\ r \in Rows /\ r.attempts = rows[i].attempts /\ rows[i].attempts \in Nat
      /\ r.status = "uncertain" /\ r.owner = NoCall /\ ~r.expired
  BY <1>1 DEF Rows, DeliveryStatus, NoCall
<1>3. Expire(i) = IF rows[i].status = "leased" /\ rows[i].expired THEN r ELSE rows[i]
  BY DEF Expire
<1> HIDE DEF r
<1> QED
  BY <1>1, <1>2, <1>3

\* So the sweep leaves every row in order.
LEMMA SweptRow ==
  ASSUME DeliveryInv, NEW i \in Ids, NEW c, rows'[i] = Expire(i),
         UNCHANGED <<vault, clash, doubtful, overtaken>>
  PROVE  RowMoves(i, c) /\ RowInv(i)'
<1>1. RowInv(i) /\ Doubts(i)' = Doubts(i)
  BY DEF DeliveryInv, Doubts
<1> QED
  BY <1>1, ExpireFacts DEF RowMoves, RowInv

\* claim: expired leases are swept and a due row is leased to the call.
LEMMA ClaimInv ==
  ASSUME DeliveryInv, NEW c \in Calls, Claim(c) PROVE DeliveryInv'
<1> DEFINE swept == [j \in Ids |-> Expire(j)]
<1>1. /\ calls[c].pc = "claim"
      /\ UNCHANGED <<vault, responses, rvault, received, version, doubtful, overtaken, clash, reused>>
  BY DEF Claim, At, terms, history
<1>2. /\ DeliveryTypes /\ CallInv(c) /\ calls[c].kind \in {"execute", "poll"} /\ ~calls[c].sent
      /\ calls[c].out # "answered" /\ calls[c] \in CallRecords
  BY <1>1, ReadFacts DEF CallInv, KindInv, DeliveryTypes
<1>3. Grows
  BY <1>1, SameFacts
<1>4. CASE rows' = swept /\ Worked(c)
  <2>1. rows' \in [Ids -> Rows] /\ \A j \in Ids : rows'[j] = Expire(j)
    BY <1>4, ExpireFacts
  <2>2. \A j \in Ids : RowMoves(j, c) /\ RowInv(j)'
    BY <1>1, <2>1, SweptRow
  <2>3. ResponseInv' /\ responses' \subseteq Responses /\ rvault' \subseteq Responses
    BY <1>1, <2>1, ExpireFacts, ClosedStays
  <2> QED
    BY <1>1, <1>2, <1>3, <1>4, <2>1, <2>2, <2>3, WorkedFacts, StepInv
<1>5. ASSUME NEW i \in Claimable(c), rows' = [swept EXCEPT ![i].status = "uncertain"], Worked(c)
      PROVE  DeliveryInv'
  <2> DEFINE r == [rows[i] EXCEPT !.status = "uncertain"]
  <2>1. /\ i \in Ids /\ rows[i].status \in {"pending", "retryScheduled"} /\ rows[i] \in Rows
        /\ RowInv(i) /\ Expire(i) = rows[i] /\ rows[i].attempts \in Nat
    BY <1>5, ExpireFacts DEF Claimable, DeliveryInv, DeliveryTypes
  <2>2. /\ r \in Rows /\ r.status = "uncertain" /\ r.owner = rows[i].owner
        /\ r.expired = rows[i].expired /\ r.attempts = rows[i].attempts
    BY <2>1 DEF Rows, DeliveryStatus
  <2>3. rows' = [swept EXCEPT ![i] = r]
    BY <1>5, <2>1
  <2> HIDE DEF r
  <2>4. /\ rows' \in [Ids -> Rows] /\ rows'[i] = r /\ \A j \in Ids \ {i} : rows'[j] = Expire(j)
    BY <2>1, <2>2, <2>3, ExpireFacts
  <2>5. ASSUME NEW j \in Ids PROVE RowMoves(j, c) /\ RowInv(j)'
    <3>1. CASE j # i
      BY <1>1, <2>4, <3>1, SweptRow
    <3>2. Doubts(i)' = Doubts(i)
      BY <1>1 DEF Doubts
    <3>3. RowMoves(i, c) /\ RowInv(i)'
      BY <1>1, <2>1, <2>2, <2>4, <3>2 DEF RowMoves, RowInv
    <3> QED
      BY <3>1, <3>3
  <2>6. ResponseInv' /\ responses' \subseteq Responses /\ rvault' \subseteq Responses
    BY <1>1, <2>1, <2>4, ExpireFacts, ClosedStays
  <2> QED
    BY <1>1, <1>2, <1>3, <1>5, <2>4, <2>5, <2>6, WorkedFacts, StepInv
<1>6. ASSUME NEW i \in Claimable(c),
             rows' = [swept EXCEPT ![i] = [@ EXCEPT !.status = "leased", !.attempts = rows[i].attempts + 1,
                                                    !.owner = c, !.expired = FALSE]],
             calls' = [calls EXCEPT ![c].pc = "payload", ![c].id = i, ![c].n = rows[i].attempts + 1]
      PROVE  DeliveryInv'
  <2> DEFINE n == rows[i].attempts + 1
             r == [rows[i] EXCEPT !.status = "leased", !.attempts = n, !.owner = c, !.expired = FALSE]
             x == [calls[c] EXCEPT !.pc = "payload", !.id = i, !.n = n]
  <2>1. /\ i \in Ids /\ rows[i].status \in {"pending", "retryScheduled"} /\ rows[i] \in Rows
        /\ RowInv(i) /\ Expire(i) = rows[i] /\ rows[i].attempts \in Nat /\ c \in Nat /\ c # NoCall
    BY <1>6, ExpireFacts, CallIds DEF Claimable, DeliveryInv, DeliveryTypes
  <2>2. n \in Nat /\ n > rows[i].attempts
    BY <2>1
  <2>3. rows' = [swept EXCEPT ![i] = r] /\ calls' = [calls EXCEPT ![c] = x]
    BY <1>2, <1>6, <2>1 DEF DeliveryTypes
  <2> HIDE DEF n
  <2>4. /\ r \in Rows /\ r.status = "leased" /\ r.owner = c /\ ~r.expired /\ r.attempts = n
    BY <2>1, <2>2 DEF Rows, DeliveryStatus
  <2>5. /\ x \in CallRecords /\ x.pc = "payload" /\ x.id = i /\ x.n = n /\ x.kind = calls[c].kind
        /\ x.sent = calls[c].sent /\ x.out = calls[c].out
    BY <1>2, <2>1, <2>2 DEF CallRecords, Pcs
  <2> HIDE DEF r, x
  <2>6. /\ rows' \in [Ids -> Rows] /\ rows'[i] = r /\ \A j \in Ids \ {i} : rows'[j] = Expire(j)
    BY <2>1, <2>3, <2>4, ExpireFacts
  <2>7. calls' \in [Calls -> CallRecords] /\ OthersKeep(c) /\ calls'[c] = x
    BY <1>2, <2>3, <2>5 DEF DeliveryTypes, OthersKeep
  <2>8. Doubts(i)' = Doubts(i)
    BY <1>1 DEF Doubts
  <2>9. ASSUME NEW j \in Ids PROVE RowMoves(j, c) /\ RowInv(j)'
    <3>1. CASE j # i
      BY <1>1, <2>6, <3>1, SweptRow
    <3>2. RowMoves(i, c) /\ RowInv(i)'
      BY <1>1, <2>1, <2>2, <2>4, <2>6, <2>8 DEF RowMoves, RowInv
    <3> QED
      BY <3>1, <3>2
  <2>10. ~overtaken' => Doubts(i)' = {}
    BY <1>1, <2>1, <2>8 DEF RowInv
  <2>11. KindInv(c)' /\ EnqueueInv(c)' /\ AnswerInv(c)' /\ AttemptInv(c)'
    BY <1>2, <2>2, <2>4, <2>5, <2>6, <2>7
       DEF KindInv, EnqueueInv, AnswerInv, AttemptInv, At, Working, Row
  <2>12. DoubtInv(c)'
    BY <2>5, <2>7, <2>10 DEF DoubtInv, At
  <2>13. ResponseInv' /\ responses' \subseteq Responses /\ rvault' \subseteq Responses
    BY <1>1, <2>1, <2>6, ExpireFacts, ClosedStays
  <2> QED
    BY <1>3, <2>6, <2>7, <2>9, <2>11, <2>12, <2>13, StepInv DEF CallInv
<1> QED
  BY <1>4, <1>5, <1>6 DEF Claim

\* responses.apply: the first response of a call that owns its row closes it.
LEMMA ApplyResponseInv ==
  ASSUME DeliveryInv, NEW c \in Calls, ApplyResponse(c) PROVE DeliveryInv'
<1> PICK i \in Ids : i = calls[c].id
  BY ReadFacts
<1>1. /\ calls[c].pc = "apply" /\ UNCHANGED <<vault, rvault, received, version, clash, reused>>
  BY DEF ApplyResponse, At, terms
<1>2. /\ DeliveryTypes /\ CallInv(c) /\ RowInv(i) /\ rows[i] \in Rows /\ rows[i].attempts \in Nat
      /\ i \in received /\ (~reused => calls[c].rid[1] = i) /\ calls[c].rid \in Rids
      /\ rows[i].status # "none"
  BY <1>1, ReadFacts DEF DeliveryInv, CallInv, AnswerInv, AttemptInv, Working, Rows, Row
<1>3. Applied(c) => calls' \in [Calls -> CallRecords] /\ OthersKeep(c) /\ CallInv(c)'
  <2>1. CASE Ends(c, "reconciled")
    BY <1>2, <2>1, EndsFacts, RestInv DEF Outs
  <2>2. CASE calls[c].kind # "reconcile" /\ Worked(c)
    BY <1>1, <2>2, WorkedFacts DEF Working
  <2> QED
    BY <2>1, <2>2 DEF Applied
<1>4. CASE Applied(c) /\ UNCHANGED <<rows, responses, doubtful, overtaken>>
  BY <1>1, <1>3, <1>4, SameFacts, SameResponses, CallOnlyInv
<1>5. CASE /\ Ends(c, "reconciled") \/ Marks(c, "uncertain", FALSE)
           /\ UNCHANGED <<rows, responses, doubtful, overtaken>>
  <2>1. CASE Ends(c, "reconciled")
    BY <1>1, <1>5, <2>1, EndInv DEF Outs
  <2>2. CASE Marks(c, "uncertain", FALSE)
    BY <1>1, <1>5, <2>2, MarkingInv DEF Working
  <2> QED
    BY <1>5, <2>1, <2>2
<1>6. CASE /\ responses' = responses \cup {[rid |-> calls[c].rid, id |-> calls[c].id]}
           /\ rows' = Projected(c) /\ overtaken' = (overtaken \/ ~Own(c))
           /\ doubtful' = doubtful \ Doubts(calls[c].id) /\ Applied(c)
  <2> DEFINE r == [rows[i] EXCEPT !.status = "reconciled", !.owner = NoCall, !.expired = FALSE]
             p == [rid |-> calls[c].rid, id |-> i]
  <2>1. rows' = [rows EXCEPT ![i] = r] /\ responses' = responses \cup {p}
    BY <1>6 DEF Projected
  <2>2. /\ r \in Rows /\ r.status = "reconciled" /\ r.owner = NoCall /\ ~r.expired
        /\ r.attempts = rows[i].attempts
    BY <1>2 DEF Rows, DeliveryStatus, NoCall
  <2>3. p \in Responses /\ p.id = i /\ p.rid = calls[c].rid
    BY <1>2 DEF Responses
  <2> HIDE DEF r, p
  <2>4. rows'[i] = r /\ \A j \in Ids \ {i} : rows'[j] = rows[j]
    BY <1>2, <2>1 DEF DeliveryTypes
  <2>5. ~overtaken' => ~overtaken /\ rows[i].status \in {"leased", "uncertain"}
    BY <1>2, <1>6 DEF Own, Row, DeliveryTypes
  <2>6. Doubts(i)' \subseteq Doubts(i)
    BY <1>6 DEF Doubts
  <2>7. RowMoves(i, c) /\ RowInv(i)'
    BY <1>1, <1>2, <2>2, <2>4, <2>5, <2>6 DEF RowMoves, RowInv
  <2>8. ~overtaken' => \A s \in responses : s.id # i /\ s.id \in Ids
    BY <1>2, <2>5 DEF DeliveryInv, ResponseInv, DeliveryTypes, Responses
  <2>9. ResponseInv'
    <3>1. \A s \in responses' : s.id \in received'
      BY <1>1, <1>2, <2>1, <2>3 DEF DeliveryInv, ResponseInv
    <3>2. ~reused' => /\ \A s \in responses' : s.rid[1] = s.id
                      /\ \A q \in rvault' : q.rid[1] = q.id
      BY <1>1, <1>2, <2>1, <2>3 DEF DeliveryInv, ResponseInv
    <3>3. ~overtaken' => \A s \in responses' : rows'[s.id].status = "reconciled"
      BY <2>1, <2>2, <2>3, <2>4, <2>5, <2>8 DEF DeliveryInv, ResponseInv
    <3>4. ~overtaken' => \A s, t \in responses' : s.id = t.id => s = t
      BY <2>1, <2>3, <2>5, <2>8 DEF DeliveryInv, ResponseInv
    <3> QED
      BY <3>1, <3>2, <3>3, <3>4 DEF ResponseInv
  <2>10. Grows /\ responses' \subseteq Responses /\ rvault' \subseteq Responses
    BY <1>1, <1>2, <1>6, <2>1, <2>3 DEF Grows, DeliveryTypes
  <2> QED
    BY <1>3, <1>6, <2>1, <2>2, <2>5, <2>7, <2>9, <2>10, OneRowInv
<1> QED
  BY <1>4, <1>5, <1>6 DEF ApplyResponse

-----------------------------------------------------------------------------
(* The invariant and what it gives.                                        *)

\* Nothing is stored, sent or in doubt at the start.
LEMMA DeliveryInitInv == ASSUME DeliveryInit PROVE DeliveryInv
<1>1. DeliveryTypes
  BY IdleFacts, NoRowFacts DEF DeliveryInit, DeliveryTypes
<1>2. ResponseInv /\ \A i \in Ids : RowInv(i)
  BY NoRowFacts DEF DeliveryInit, ResponseInv, RowInv, Doubts
<1>3. ASSUME NEW c \in Calls PROVE CallInv(c)
  BY IdleFacts
     DEF DeliveryInit, CallInv, KindInv, EnqueueInv, AnswerInv, AttemptInv, DoubtInv, At, Working
<1> QED
  BY <1>1, <1>2, <1>3 DEF DeliveryInv

\* Every step of a call, of the host, the operator, time and a restart keeps it.
LEMMA DeliveryStepInv == ASSUME DeliveryInv, [DeliveryNext]_deliveryVars PROVE DeliveryInv'
<1>1. CASE UNCHANGED deliveryVars
  <2>1. /\ rows' = rows /\ calls' = calls /\ vault' = vault /\ received' = received /\ clash' = clash
        /\ responses' = responses /\ rvault' = rvault /\ version' = version
        /\ overtaken' = overtaken /\ reused' = reused /\ doubtful' = doubtful
    BY <1>1 DEF deliveryVars, terms
  <2>2. calls' \in [Calls -> CallRecords] /\ OthersKeep(NoCall)
    BY <2>1 DEF DeliveryInv, DeliveryTypes, OthersKeep
  <2> QED
    BY <2>1, <2>2, CallIds, SameFacts, SameResponses, CallOnlyInv
<1>2. ASSUME NEW c \in Calls, CallStep(c) PROVE DeliveryInv'
  <2>1. CASE ReadExisting(c) \/ PutPayload(c) \/ Enqueue(c) \/ EnqueueRejected(c) \/ UndoPayload(c)
    BY <2>1, ReadExistingInv, PutPayloadInv, EnqueueInsertsInv, EnqueueRejectedInv, UndoPayloadInv
  <2>2. CASE \/ Claim(c) \/ ReadPayload(c) \/ SendAnswered(c) \/ SendUnknown(c) \/ SendNotSent(c)
    BY <2>2, ClaimInv, ReadPayloadInv, SendAnsweredInv, SendUnknownInv, SendNotSentInv
  <2>3. CASE Mark(c) \/ PutResponse(c) \/ ApplyResponse(c) \/ DatabaseRejects(c) \/ InquiryUnavailable(c)
    BY <2>3, MarkInv, PutResponseInv, ApplyResponseInv, DatabaseRejectsInv
  <2>4. CASE ReadAgain(c) \/ ReadResponse(c) \/ Reconcile(c) \/ InquiryNotFound(c) \/ InquiryFound(c)
    BY <2>4, ReadAgainInv, ReadResponseInv, ReconcileInv, InquiryNotFoundInv, InquiryFoundInv
  <2> QED
    BY <1>2, <2>1, <2>2, <2>3, <2>4 DEF CallStep
<1>3. CASE DeliveryNext
  BY <1>2, <1>3, HostReceivesInv, BeginInv, ArrivesLateInv, TimePassesInv, ResolveInv, RestartInv
     DEF DeliveryNext
<1> QED
  BY <1>1, <1>3

\* The invariant says what the outbox promises.
LEMMA DeliveryInvSuffices == ASSUME DeliveryInv PROVE DeliveryIsSafe
<1>1. DeliveryTypeOK
  <2>1. \A i \in Ids : RowInv(i) /\ rows[i] \in Rows
    BY DEF DeliveryInv, DeliveryTypes
  <2> QED
    BY <2>1 DEF DeliveryTypeOK, DeliveryInv, DeliveryTypes, Rows, Responses, RowInv
<1>2. NoBlindRetryInTime
  BY DEF DeliveryInv, RowInv, NoBlindRetryInTime, NoBlindRetry
<1>3. OneResponse
  <2> SUFFICES ASSUME ~overtaken, NEW i \in Ids
               PROVE  Cardinality({r \in responses : r.id = i}) <= 1
    BY DEF OneResponse
  <2> DEFINE own == {r \in responses : r.id = i}
  <2>1. \A r, s \in own : r = s
    BY DEF DeliveryInv, ResponseInv
  <2> HIDE DEF own
  <2>2. CASE own = {}
    BY <2>2, FS_EmptySet DEF own
  <2>3. CASE own # {}
    <3>1. PICK r \in own : TRUE
      BY <2>3
    <3>2. own = {r}
      BY <2>1, <3>1
    <3>3. Cardinality({r}) = 1
      BY FS_Singleton, Zenon
    <3>4. Cardinality(own) <= 1
      BY <3>2, <3>3
    <3> QED
      BY <3>4 DEF own
  <2> QED
    BY <2>2, <2>3
<1>4. AnswerIsOwn
  <2> SUFFICES ASSUME ~reused, NEW c \in Calls, calls[c].out = "answered"
               PROVE  /\ calls[c].id \in received
                      /\ \A p \in Stored(calls[c].id) : p.id = calls[c].id
    BY DEF AnswerIsOwn
  <2>1. calls[c].id \in received
    BY ReadFacts DEF CallInv, AnswerInv
  <2>2. \A p \in Stored(calls[c].id) : p.id = calls[c].id
    BY DEF Stored, DeliveryInv, ResponseInv
  <2> QED
    BY <2>1, <2>2
<1>5. PayloadKept
  BY DEF DeliveryInv, RowInv, PayloadKept
<1> QED
  BY <1>1, <1>2, <1>3, <1>4, <1>5 DEF DeliveryIsSafe

\* The outbox (queue.ts, worker.ts, reconciliation.ts): for any calls, restarts,
\* rejected writes and decisions of the operator, a request is not scheduled again
\* while an attempt is in doubt, it gets one response, its own, and its payload is
\* kept, with the exceptions that the property names.
THEOREM DeliveriesAreSafe == DeliverySpec => []DeliveryIsSafe
<1>1. DeliveryInit => DeliveryInv
  BY DeliveryInitInv
<1>2. DeliveryInv /\ [DeliveryNext]_deliveryVars => DeliveryInv'
  BY DeliveryStepInv
<1>3. DeliveryInv => DeliveryIsSafe
  BY DeliveryInvSuffices
<1> QED
  BY <1>1, <1>2, <1>3, PTL DEF DeliverySpec

-----------------------------------------------------------------------------
(* One-shot channels.                                                      *)

ExchangePcs == {"new", "queued", "connecting", "writing", "waiting", "closing", "done"}
ExchangeOuts == {"none", "notSent", "unknown", "response"}
ExchangeRecords ==
  [pc : ExchangePcs, response : {"none", "response", "failed"}, out : ExchangeOuts]
HasSocket == {"writing", "waiting", "closing"}

\* What is known of an exchange that is where it is: what it wrote, whether its socket may
\* be open, and that every exchange before it is over once it has had its turn.
ExchangeInv(x) ==
  /\ xc[x].pc \notin {"closing", "done"} => xc[x].out = "none"
  /\ x \in written => xc[x].pc \in HasSocket \cup {"done"} /\ xc[x].out # "notSent"
  /\ x \in sockets => xc[x].pc \in HasSocket
  /\ xc[x].pc \in HasSocket \cup {"connecting"} =>
       \A y \in Exchanges : y < x => xc[y].pc = "done"

NativeInv ==
  /\ xc \in [Exchanges -> ExchangeRecords]
  /\ sockets \subseteq Exchanges
  /\ \A x \in Exchanges : ExchangeInv(x)

-----------------------------------------------------------------------------
\* The step moves exchange x alone.
Only(x) ==
  /\ xc' \in [Exchanges -> ExchangeRecords]
  /\ \A y \in Exchanges : y # x => xc'[y] = xc[y]

LEMMA ExchangeMoves ==
  ASSUME NativeInv, NEW x \in Exchanges
  PROVE  /\ \A l \in ExchangePcs : Moves(x, l) => Only(x) /\ xc'[x].pc = l /\ xc'[x].out = xc[x].out
         /\ \A out \in ExchangeOuts : Settles(x, out) => Only(x) /\ xc'[x].pc = "done" /\ xc'[x].out = out
         /\ \A out \in ExchangeOuts : Closes(x, out) => Only(x) /\ xc'[x].pc = "closing" /\ xc'[x].out = out
         /\ \A res \in {"response", "failed"} : Resolved(x, res) =>
              Only(x) /\ xc'[x].pc = xc[x].pc /\ xc'[x].out = xc[x].out
<1>1. xc \in [Exchanges -> ExchangeRecords] /\ xc[x] \in ExchangeRecords
  BY DEF NativeInv
<1>2. ASSUME NEW l \in ExchangePcs, Moves(x, l)
      PROVE  Only(x) /\ xc'[x].pc = l /\ xc'[x].out = xc[x].out
  <2>1. [xc[x] EXCEPT !.pc = l] \in ExchangeRecords
    BY <1>1 DEF ExchangeRecords
  <2>2. xc' = [xc EXCEPT ![x] = [xc[x] EXCEPT !.pc = l]]
    BY <1>1, <1>2 DEF Moves
  <2> QED
    BY <1>1, <2>1, <2>2 DEF Only, ExchangeRecords
<1>3. ASSUME NEW out \in ExchangeOuts, Settles(x, out)
      PROVE  Only(x) /\ xc'[x].pc = "done" /\ xc'[x].out = out
  BY <1>1, <1>3 DEF Settles, NewExchange, Only, ExchangeRecords, ExchangePcs
<1>4. ASSUME NEW out \in ExchangeOuts, Closes(x, out)
      PROVE  Only(x) /\ xc'[x].pc = "closing" /\ xc'[x].out = out
  <2>1. [xc[x] EXCEPT !.pc = "closing", !.out = out] \in ExchangeRecords
    BY <1>1 DEF ExchangeRecords, ExchangePcs
  <2>2. xc' = [xc EXCEPT ![x] = [xc[x] EXCEPT !.pc = "closing", !.out = out]]
    BY <1>1, <1>4 DEF Closes
  <2> QED
    BY <1>1, <2>1, <2>2 DEF Only, ExchangeRecords
<1>5. ASSUME NEW res \in {"response", "failed"}, Resolved(x, res)
      PROVE  Only(x) /\ xc'[x].pc = xc[x].pc /\ xc'[x].out = xc[x].out
  <2> DEFINE heard == IF xc[x].response = "none" THEN res ELSE xc[x].response
  <2>1. heard \in {"none", "response", "failed"}
    BY <1>1 DEF ExchangeRecords
  <2>2. xc' = [xc EXCEPT ![x] = [xc[x] EXCEPT !.response = heard]]
    BY <1>1, <1>5 DEF Resolved
  <2> HIDE DEF heard
  <2>3. [xc[x] EXCEPT !.response = heard] \in ExchangeRecords
    BY <1>1, <2>1 DEF ExchangeRecords
  <2> QED
    BY <1>1, <2>2, <2>3 DEF Only, ExchangeRecords
<1> QED
  BY <1>2, <1>3, <1>4, <1>5

\* A step of exchange x that has had its turn leaves the others alone: none of those
\* before it moves again, and none of those after it has had its turn.
LEMMA ExchangeStep ==
  ASSUME NativeInv, NEW x \in Exchanges, Only(x), xc[x].pc # "done",
         xc'[x].pc \in HasSocket \cup {"connecting"} => \A y \in Exchanges : y < x => xc[y].pc = "done",
         xc'[x].pc \notin {"closing", "done"} => xc'[x].out = "none",
         written' \subseteq written \cup {x}, sockets' \subseteq sockets \cup {x},
         x \in written' => xc'[x].pc \in HasSocket \cup {"done"} /\ xc'[x].out # "notSent",
         x \in sockets' => xc'[x].pc \in HasSocket
  PROVE  NativeInv'
<1>1. sockets' \subseteq Exchanges
  BY DEF NativeInv
<1>2. ASSUME NEW y \in Exchanges PROVE ExchangeInv(y)'
  <2>1. CASE y = x
    <3>1. x \in Nat
      BY ExchangesAssumption
    <3>2. \A z \in Exchanges : z < x => z # x
      BY <3>1
    <3> QED
      BY <2>1, <3>2 DEF ExchangeInv, Only
  <2>2. CASE y # x
    <3>1. ExchangeInv(y) /\ xc'[y] = xc[y]
      BY <2>2 DEF NativeInv, Only
    <3>2. \A z \in Exchanges : xc[z].pc = "done" => xc'[z].pc = "done"
      BY DEF Only
    <3> QED
      BY <2>2, <3>1, <3>2 DEF ExchangeInv
  <2> QED
    BY <2>1, <2>2
<1> QED
  BY <1>1, <1>2 DEF NativeInv, Only

LEMMA NativeInitInv == NativeInit => NativeInv
BY DEF NativeInit, NativeInv, ExchangeInv, NewExchange, ExchangeRecords, ExchangePcs, ExchangeOuts, HasSocket

\* The steps until the exchange is connected.
LEMMA ConnectStep ==
  ASSUME NativeInv, NEW x \in Exchanges,
         \/ Call(x) \/ TcpExchangeStarts(x) \/ WebSocketExchangeStarts(x)
         \/ TcpConnected(x) \/ WebSocketConnected(x) \/ ConnectRejected(x) \/ ConnectTimedOut(x)
  PROVE  NativeInv'
<1>1. ExchangeInv(x)
  BY DEF NativeInv
<1> USE DEF ExchangePcs, ExchangeOuts, HasSocket
<1>2. CASE Call(x)
  <2>1. Moves(x, "queued") /\ xc[x].pc = "new" /\ UNCHANGED <<written, sockets>>
    BY <1>2 DEF Call, OnLine
  <2>2. x \notin written /\ x \notin sockets /\ xc[x].out = "none"
    BY <1>1, <2>1 DEF ExchangeInv
  <2>3. Only(x) /\ xc'[x].pc = "queued" /\ xc'[x].out = "none"
    BY <2>1, <2>2, ExchangeMoves
  <2> QED
    BY <2>1, <2>2, <2>3, ExchangeStep
<1>3. CASE TcpExchangeStarts(x) \/ WebSocketExchangeStarts(x)
  <2>1. /\ xc[x].pc = "queued" /\ \A y \in Exchanges : y < x => xc[y].pc = "done"
        /\ Settles(x, "notSent") \/ Moves(x, "connecting")
        /\ UNCHANGED <<written, sockets>>
    BY <1>3 DEF TcpExchangeStarts, WebSocketExchangeStarts, PerformExchange, Turn, OnLine
  <2>2. x \notin written /\ x \notin sockets /\ xc[x].out = "none"
    BY <1>1, <2>1 DEF ExchangeInv
  <2>3. Only(x) /\ (xc'[x].pc = "done" \/ (xc'[x].pc = "connecting" /\ xc'[x].out = "none"))
    BY <2>1, <2>2, ExchangeMoves
  <2> QED
    BY <2>1, <2>2, <2>3, ExchangeStep
<1>4. CASE TcpConnected(x) \/ WebSocketConnected(x)
  <2>1. /\ xc[x].pc = "connecting" /\ sockets' = sockets \cup {x} /\ written' = written
        /\ Closes(x, "notSent") \/ Moves(x, "writing")
    BY <1>4 DEF TcpConnected, WebSocketConnected, Connected, AfterConnect, OnLine
  <2>2. /\ x \notin written /\ xc[x].out = "none" /\ \A y \in Exchanges : y < x => xc[y].pc = "done"
    BY <1>1, <2>1 DEF ExchangeInv
  <2>3. Only(x) /\ (xc'[x].pc = "closing" \/ (xc'[x].pc = "writing" /\ xc'[x].out = "none"))
    BY <2>1, <2>2, ExchangeMoves
  <2> QED
    BY <2>1, <2>2, <2>3, ExchangeStep
<1>5. CASE ConnectRejected(x) \/ ConnectTimedOut(x)
  <2>1. xc[x].pc = "connecting" /\ UNCHANGED <<written, sockets>> /\ Settles(x, "notSent")
    BY <1>5 DEF ConnectRejected, ConnectTimedOut, OnLine
  <2>2. Only(x) /\ xc'[x].pc = "done"
    BY <2>1, ExchangeMoves
  <2>3. x \notin written /\ x \notin sockets
    BY <1>1, <2>1 DEF ExchangeInv
  <2> QED
    BY <2>1, <2>2, <2>3, ExchangeStep
<1> QED
  BY <1>2, <1>3, <1>4, <1>5

\* The steps of a connected exchange.
LEMMA ConnectedStep ==
  ASSUME NativeInv, NEW x \in Exchanges,
         \/ WriteConfirmed(x) \/ WriteGivenUp(x) \/ TcpEvent(x) \/ WebSocketEvent(x)
         \/ ResponseRead(x) \/ ResponseTimedOut(x)
  PROVE  NativeInv'
<1>1. ExchangeInv(x)
  BY DEF NativeInv
<1> USE DEF ExchangePcs, ExchangeOuts, HasSocket
<1>2. /\ xc[x].pc \in {"writing", "waiting"} /\ UNCHANGED <<written, sockets>>
      /\ \/ Moves(x, "waiting") \/ Resolved(x, "response") \/ Resolved(x, "failed")
         \/ Closes(x, "unknown") \/ Closes(x, "response")
  BY DEF WriteConfirmed, WriteGivenUp, Unconfirmed, TcpEvent, WebSocketEvent, MayHear, ResponseRead,
         ResponseTimedOut, OnLine
<1>3. /\ xc[x].out = "none" /\ \A y \in Exchanges : y < x => xc[y].pc = "done"
  BY <1>1, <1>2 DEF ExchangeInv
<1>4. /\ Only(x)
      /\ \/ xc'[x].pc \in {"writing", "waiting"} /\ xc'[x].out = "none"
         \/ xc'[x].pc = "closing" /\ xc'[x].out # "notSent"
  BY <1>2, <1>3, ExchangeMoves
<1> QED
  BY <1>2, <1>3, <1>4, ExchangeStep

\* The bytes reach the host, and the socket is closed.
LEMMA SocketStep ==
  ASSUME NativeInv, NEW x \in Exchanges, BytesArrive(x) \/ SocketClosed(x) \/ LateConnect(x)
  PROVE  NativeInv'
<1>1. /\ xc \in [Exchanges -> ExchangeRecords] /\ xc[x] \in ExchangeRecords /\ ExchangeInv(x)
  BY DEF NativeInv
<1>2. CASE BytesArrive(x)
  <2>1. /\ xc[x].pc \in {"writing", "closing"} /\ xc[x].out # "notSent"
        /\ written' = written \cup {x} /\ UNCHANGED <<xc, sockets>>
    BY <1>1, <1>2 DEF BytesArrive, OnLine, ExchangeInv
  <2>2. \A y \in Exchanges : ExchangeInv(y)'
    BY <2>1 DEF NativeInv, ExchangeInv, HasSocket
  <2> QED
    BY <2>1, <2>2 DEF NativeInv
<1>3. CASE SocketClosed(x)
  <2>1. xc[x].pc = "closing" /\ sockets' = sockets \ {x} /\ written' = written /\ Settles(x, xc[x].out)
    BY <1>3 DEF SocketClosed, OnLine
  <2>2. xc[x].out \in ExchangeOuts
    BY <1>1 DEF ExchangeRecords
  <2>3. Only(x) /\ xc'[x].pc = "done" /\ xc'[x].out = xc[x].out
    BY <2>1, <2>2, ExchangeMoves
  <2>4. x \in written' => xc'[x].out # "notSent"
    BY <1>1, <2>1, <2>3 DEF ExchangeInv
  <2> QED
    BY <2>1, <2>3, <2>4, ExchangeStep DEF HasSocket
<1>4. CASE LateConnect(x)
  BY <1>4 DEF LateConnect, NativeInv, ExchangeInv
<1> QED
  BY <1>2, <1>3, <1>4

LEMMA ShutStep == ASSUME NativeInv, Shut PROVE NativeInv'
<1>1. xc' = [x \in Exchanges |-> CancelActive(x)] /\ UNCHANGED <<written, sockets>>
  BY DEF Shut
<1>2. \A x \in Exchanges :
        CancelActive(x) \in ExchangeRecords /\ CancelActive(x).pc = xc[x].pc /\ CancelActive(x).out = xc[x].out
  BY DEF NativeInv, CancelActive, ExchangeRecords
<1>3. \A x \in Exchanges :
        xc'[x] \in ExchangeRecords /\ xc'[x].pc = xc[x].pc /\ xc'[x].out = xc[x].out
  BY <1>1, <1>2
<1>4. \A x \in Exchanges : ExchangeInv(x)'
  BY <1>1, <1>3 DEF NativeInv, ExchangeInv
<1>5. xc' \in [Exchanges -> ExchangeRecords]
  BY <1>1, <1>2
<1> QED
  BY <1>1, <1>4, <1>5 DEF NativeInv

LEMMA NativeStepInv == NativeInv /\ [NativeNext]_nativeVars => NativeInv'
<1>1. NativeInv /\ UNCHANGED nativeVars => NativeInv'
  BY DEF nativeVars, NativeInv, ExchangeInv
<1> QED
  BY <1>1, ConnectStep, ConnectedStep, SocketStep, ShutStep DEF NativeNext, NativeProgress

LEMMA NativeIsHonest == NativeInv => NotSentMeansNothing /\ SocketsAreClosed
<1> SUFFICES ASSUME NativeInv PROVE NotSentMeansNothing /\ SocketsAreClosed
  OBVIOUS
<1>1. NotSentMeansNothing
  BY DEF NativeInv, ExchangeInv, NotSentMeansNothing
<1>2. \A x \in sockets : xc[x].pc \in HasSocket
  BY DEF NativeInv, ExchangeInv
<1>3. ASSUME NEW x \in sockets, NEW y \in sockets PROVE x = y
  <2>1. x \in Exchanges /\ y \in Exchanges /\ x \in Nat /\ y \in Nat
    BY ExchangesAssumption DEF NativeInv
  <2>2. ~(x < y) /\ ~(y < x)
    BY <1>2, <2>1 DEF NativeInv, ExchangeInv, HasSocket
  <2> QED
    BY <2>1, <2>2
<1>4. Cardinality(sockets) <= 1
  <2>1. CASE sockets = {}
    BY <2>1, FS_EmptySet
  <2>2. CASE sockets # {}
    <3>1. PICK x : sockets = {x}
      BY <1>3, <2>2
    <3> QED
      BY <3>1, FS_Singleton
  <2> QED
    BY <2>1, <2>2
<1> QED
  BY <1>1, <1>2, <1>4 DEF SocketsAreClosed, HasSocket

-----------------------------------------------------------------------------
(* The persistent session.                                                 *)

Whose == Requests \cup Controls
Outcomes == {"new", "queued", "notSent", "unknown"} \cup Whose
Supervisors ==
  [state : SupervisorStates, gen : Nat, failures : Nat, running : BOOLEAN, stopping : BOOLEAN,
   disposed : BOOLEAN, op : Controls \cup {""}, asked : BOOLEAN,
   result : {"none", "accepted", "failed"}, timer : {"none", "heartbeat", "retry"},
   activation : {"none", "clears", "stays"}, start : {"new", "waiting", "connected", "done"}]
Transports ==
  [state : {"idle", "connecting", "reconnecting", "connected", "disposed"}, gen : Nat, socket : Nat,
   timer : BOOLEAN, connecting : BOOLEAN, started : BOOLEAN, disposed : BOOLEAN]
Entries == [who : Whose, gen : Nat]
SessionExchanges ==
  [pc : {"idle", "connect", "ready", "write", "await"}, sock : Nat, gen : Nat,
   res : {"none", "unknown"} \cup Whose]

SessionTypes ==
  /\ sup \in Supervisors /\ tr \in Transports /\ nextSocket \in Nat \ {0}
  /\ queue \in Seq(Entries) /\ ex \in SessionExchanges /\ wire \subseteq [sock : Nat, who : Whose]
  /\ results \in [Requests -> Outcomes]

\* A transport is connected while it has a socket, and done with when it is disposed.
TransportOK(t) ==
  /\ (t.state = "connected") <=> (t.socket # 0)
  /\ t.connecting => t.socket = 0
  /\ t.disposed => t.socket = 0 /\ ~t.timer

\* One socket at a time, each with a number of its own.
SocketInv ==
  /\ TransportOK(tr) /\ tr.disposed = sup.disposed
  /\ open = {tr.socket} \ {0} /\ tr.socket < nextSocket
  /\ \A k \in retired : k \in Nat /\ k # 0 /\ k # tr.socket /\ k < nextSocket

\* Requests wait in the queue once; its head is being exchanged.
QueueInv ==
  /\ ex.pc # "idle" => queue # <<>>
  /\ \A k \in 1..Len(queue) :
       /\ queue[k].gen <= tr.gen
       /\ queue[k].who \in Requests =>
            /\ results[queue[k].who] = "queued"
            /\ \A j \in 1..Len(queue) : queue[j].who = queue[k].who => j = k

\* An exchange that has its connection: until that is lost it has no answer but its own.
ActiveInv ==
  /\ ex.pc \in {"idle", "connect", "ready"} => ex.res = "none"
  /\ ex.pc = "write" => ex.res \in {"none", "unknown"}
  /\ ex.pc = "await" => ex.res \in {"none", "unknown", Head(queue).who}
  /\ ex.pc \in {"write", "await"} =>
       /\ ex.sock # 0 /\ ex.sock < nextSocket /\ ex.gen <= tr.gen
       /\ Head(queue).gen <= ex.gen
       /\ ex.sock = tr.socket => ex.gen = tr.gen /\ ex.res # "unknown"

\* What the host has yet to answer on the connection there is now is the exchange's.
WireInv ==
  \A w \in wire :
    /\ w.sock # 0 /\ w.sock < nextSocket
    /\ w.sock = tr.socket =>
         ex.pc = "await" /\ ex.sock = tr.socket /\ ex.res = "none" /\ w.who = Head(queue).who

\* A request that was written is the one exchanged or is over, and not as one never sent.
ArrivedInv ==
  \A r \in Requests :
    /\ results[r] \in {"new", "queued", "notSent", "unknown", r}
    /\ r \in arrived =>
         /\ results[r] \notin {"new", "notSent"}
         /\ results[r] = "queued" => ex.pc = "await" /\ Head(queue).who = r

\* What the supervisor s does is about the connection there is now; a session that was
\* signed on, in one of the generations g, stays so for as long as that lasts.
SupervisorOK(s, t, g) ==
  /\ s.gen <= t.gen
  /\ ~s.running \/ s.disposed =>
       s.op = "" /\ ~s.asked /\ s.timer = "none" /\ s.state # "ready"
  /\ ~s.running /\ ~s.disposed => s.gen = 0
  /\ s.disposed => ~s.running
  /\ s.op = "shutdown" => s.stopping /\ s.timer = "none" /\ s.state # "ready"
  /\ s.op \in {"establish", "heartbeat"} \/ s.state = "ready" =>
       s.running /\ ~s.disposed /\ t.state = "connected" /\ s.gen = t.gen
  /\ s.timer = "heartbeat" \/ s.op = "heartbeat" \/ s.state = "ready" => s.gen \in g
  /\ s.op = "establish" /\ s.result = "accepted" => s.gen \in g
  /\ s.asked => s.op # ""

\* What a control operation waits for is the last one in the queue q.
AskedOK(s, q) ==
  s.asked /\ s.result = "none" =>
    \E k \in 1..Len(q) :
      /\ q[k].who = s.op /\ q[k].gen = s.gen
      /\ \A j \in 1..Len(q) : j > k => q[j].who \notin Controls

SupervisorInv == SupervisorOK(sup, tr, greeted) /\ AskedOK(sup, queue)

SessionInv ==
  /\ SessionTypes /\ SocketInv /\ QueueInv /\ ActiveInv /\ WireInv /\ ArrivedInv /\ SupervisorInv
  /\ ReplyOnOwnConnection

-----------------------------------------------------------------------------
(* The supervisor's reactions, as functions on its state.                  *)

\* What s and w have in common whatever the work at hand.
SameStanding(s, w) ==
  /\ w \in Supervisors /\ w.running = s.running /\ w.stopping = s.stopping /\ w.disposed = s.disposed
NoWork(w) == w.op = "" /\ ~w.asked /\ w.result = "none" /\ w.timer = "none"

LEMMA InvalidateFacts ==
  ASSUME NEW s \in Supervisors
  PROVE  /\ SameStanding(s, InvalidateWork(s)) /\ NoWork(InvalidateWork(s))
         /\ InvalidateWork(s).state = s.state /\ InvalidateWork(s).gen = s.gen
         /\ InvalidateWork(s).start = s.start
BY DEF InvalidateWork, Supervisors, SameStanding, NoWork

LEMMA RunFacts ==
  ASSUME NEW s \in Supervisors, NEW o \in Controls
  PROVE  /\ SameStanding(s, RunControl(s, o)) /\ RunControl(s, o).op = o
         /\ ~RunControl(s, o).asked /\ RunControl(s, o).result = "none"
         /\ RunControl(s, o).timer = s.timer /\ RunControl(s, o).state = s.state
         /\ RunControl(s, o).gen = s.gen /\ RunControl(s, o).start = s.start
BY DEF RunControl, Supervisors, SameStanding

LEMMA ActivateFacts ==
  ASSUME NEW s \in Supervisors, NEW g \in Nat
  PROVE  \/ ActivateGeneration(s, g) = s /\ (~s.running \/ g = 0 \/ s.gen = g)
         \/ /\ s.running /\ g # 0
            /\ SameStanding(s, ActivateGeneration(s, g)) /\ ActivateGeneration(s, g).op = "establish"
            /\ ~ActivateGeneration(s, g).asked /\ ActivateGeneration(s, g).result = "none"
            /\ ActivateGeneration(s, g).timer = "none" /\ ActivateGeneration(s, g).state = "establishing"
            /\ ActivateGeneration(s, g).gen = g /\ ActivateGeneration(s, g).start = s.start
<1> DEFINE w == [InvalidateWork(s) EXCEPT !.state = "establishing", !.gen = g, !.failures = 0,
                                          !.activation = "clears"]
<1>1. /\ SameStanding(s, w) /\ w.timer = "none" /\ w.state = "establishing"
      /\ w.gen = g /\ w.start = s.start
  <2> DEFINE v == InvalidateWork(s)
  <2>1. v \in Supervisors /\ SameStanding(s, v) /\ v.timer = "none" /\ v.start = s.start
    BY InvalidateFacts DEF SameStanding, NoWork
  <2> DEFINE st == "establishing"
             n == 0
             a == "clears"
  <2>2. w = [v EXCEPT !.state = st, !.gen = g, !.failures = n, !.activation = a]
    OBVIOUS
  <2>3. st \in SupervisorStates /\ n \in Nat /\ a \in {"none", "clears", "stays"}
    BY DEF SupervisorStates
  <2> HIDE DEF v, w, st, n, a
  <2>4. w \in Supervisors
    BY <2>1, <2>2, <2>3 DEF Supervisors
  <2>5. w.running = v.running /\ w.stopping = v.stopping /\ w.disposed = v.disposed
    BY <2>1, <2>2, <2>3 DEF Supervisors
  <2>6. w.timer = v.timer /\ w.start = v.start
    BY <2>1, <2>2, <2>3 DEF Supervisors
  <2>7. w.state = st /\ w.gen = g
    BY <2>1, <2>2, <2>3 DEF Supervisors
  <2> QED
    BY <2>1, <2>4, <2>5, <2>6, <2>7 DEF SameStanding, st
<1> HIDE DEF w
<1>2. w \in Supervisors
  BY <1>1 DEF SameStanding
<1>3. /\ SameStanding(w, RunControl(w, "establish")) /\ RunControl(w, "establish").op = "establish"
      /\ ~RunControl(w, "establish").asked /\ RunControl(w, "establish").result = "none"
      /\ RunControl(w, "establish").timer = w.timer /\ RunControl(w, "establish").state = w.state
      /\ RunControl(w, "establish").gen = w.gen /\ RunControl(w, "establish").start = w.start
  BY <1>2, RunFacts DEF Controls
<1>4. CASE ~s.running \/ g = 0 \/ (s.gen = g /\ s.activation # "none")
  BY <1>4 DEF ActivateGeneration
<1>5. CASE ~(~s.running \/ g = 0 \/ (s.gen = g /\ s.activation # "none"))
  <2>1. ActivateGeneration(s, g) = RunControl(w, "establish")
    BY <1>5 DEF ActivateGeneration, w
  <2>2. s.running /\ g # 0
    BY <1>5
  <2> QED
    BY <1>1, <1>3, <2>1, <2>2 DEF SameStanding
<1> QED
  BY <1>4, <1>5

\* The connection is lost: a supervisor that listens forgets what it was doing.
LEMMA DisconnectedFacts ==
  ASSUME NEW s \in Supervisors
  PROVE  \/ OnDisconnected(s) = s /\ ~Listening(s)
         \/ /\ Listening(s) /\ SameStanding(s, OnDisconnected(s)) /\ NoWork(OnDisconnected(s))
            /\ OnDisconnected(s).state = "disconnected" /\ OnDisconnected(s).gen = s.gen
            /\ OnDisconnected(s).start = s.start
<1> DEFINE v == InvalidateWork(s)
<1>1. SameStanding(s, v) /\ NoWork(v) /\ v.gen = s.gen /\ v.start = s.start /\ v \in Supervisors
  BY InvalidateFacts DEF SameStanding
<1> HIDE DEF v
<1>2. [v EXCEPT !.state = "disconnected"] \in Supervisors
  BY <1>1 DEF Supervisors, SupervisorStates
<1>3. CASE Listening(s)
  <2>1. OnDisconnected(s) = [v EXCEPT !.state = "disconnected"]
    BY <1>3 DEF OnDisconnected, v
  <2> QED
    BY <1>1, <1>2, <1>3, <2>1 DEF SameStanding, NoWork, Supervisors
<1> QED
  BY <1>3 DEF OnDisconnected

LEMMA ConnectingFacts ==
  ASSUME NEW s \in Supervisors
  PROVE  \/ OnConnecting(s) = s
         \/ OnConnecting(s) = [s EXCEPT !.state = "connecting"]
BY DEF OnConnecting

\* Only the state changes, and not to one that is available.
Demoted(s, w) ==
  /\ SameStanding(s, w) /\ w.gen = s.gen /\ w.op = s.op /\ w.asked = s.asked /\ w.result = s.result
  /\ w.timer = s.timer /\ (w.state = s.state \/ w.state # "ready")

LEMMA DemotedOK ==
  ASSUME NEW s, NEW w, NEW t, NEW g, NEW q, Demoted(s, w), SupervisorOK(s, t, g), AskedOK(s, q)
  PROVE  SupervisorOK(w, t, g) /\ AskedOK(w, q)
<1>1. SupervisorOK(w, t, g)
  BY DEF Demoted, SameStanding, SupervisorOK
<1>2. AskedOK(w, q)
  BY DEF Demoted, AskedOK
<1> QED
  BY <1>1, <1>2

LEMMA ConnectingDemotes ==
  ASSUME NEW s \in Supervisors
  PROVE  Demoted(s, OnConnecting(s))
<1>1. [s EXCEPT !.state = "connecting"] \in Supervisors
  BY DEF Supervisors, SupervisorStates
<1> QED
  BY ZenonT(60), <1>1, ConnectingFacts DEF Demoted, SameStanding, Supervisors

-----------------------------------------------------------------------------
(* Control operations and their results.                                   *)

\* A result reaches the supervisor, if it still waits for this one.
Heard(s, w, who, res) ==
  /\ SameStanding(s, w) /\ w.gen = s.gen /\ w.op = s.op /\ w.asked = s.asked /\ w.timer = s.timer
  /\ w.state = s.state /\ w.start = s.start
  /\ \/ w.result = s.result /\ ~(who \in Controls /\ IsAnswer /\ s.asked)
     \/ /\ who \in Controls /\ IsAnswer /\ s.asked /\ w.result \in {"accepted", "failed"}
        /\ w.result = "accepted" => res \in Controls

LEMMA ToldFacts ==
  ASSUME NEW s \in Supervisors, NEW who, NEW res
  PROVE  Heard(s, Told(s, who, res), who, res)
<1>1. CASE ~(who \in Controls /\ IsAnswer /\ s.asked)
  <2>1. Told(s, who, res) = s
    BY <1>1 DEF Told
  <2> QED
    BY <1>1, <2>1 DEF Heard, SameStanding
<1>2. CASE who \in Controls /\ IsAnswer /\ s.asked
  <2> DEFINE b == IF res = "refused" \/ res \notin Controls THEN "failed" ELSE "accepted"
  <2>1. Told(s, who, res) = [s EXCEPT !.result = b]
    BY <1>2 DEF Told
  <2>2. b \in {"accepted", "failed"} /\ (b = "accepted" => res \in Controls)
    OBVIOUS
  <2> HIDE DEF b
  <2> DEFINE w == [s EXCEPT !.result = b]
  <2>3. w \in Supervisors
    BY <2>2 DEF Supervisors
  <2>4. SameStanding(s, w)
    BY <2>3 DEF Supervisors, SameStanding
  <2>5. w.gen = s.gen /\ w.op = s.op /\ w.asked = s.asked /\ w.timer = s.timer /\ w.result = b
    BY DEF Supervisors
  <2>6. w.state = s.state /\ w.start = s.start
    BY DEF Supervisors
  <2> HIDE DEF w
  <2> QED
    BY <1>2, <2>1, <2>2, <2>4, <2>5, <2>6 DEF Heard, w
<1> QED
  BY <1>1, <1>2

LEMMA ToldOK ==
  ASSUME NEW s \in Supervisors, NEW who, NEW res, NEW t, NEW g, SupervisorOK(s, t, g),
         s.op = "establish" /\ IsAnswer /\ s.asked /\ who \in Controls /\ res \in Controls => s.gen \in g
  PROVE  SupervisorOK(Told(s, who, res), t, g)
<1> DEFINE w == Told(s, who, res)
<1>1. Heard(s, w, who, res)
  BY ToldFacts
<1> HIDE DEF w
<1>2. SupervisorOK(w, t, g)
  BY <1>1 DEF Heard, SameStanding, SupervisorOK
<1> QED
  BY <1>2 DEF w

\* The supervisor s is as it was, or waits for nothing.
AsksAsBefore(s) ==
  s.asked => /\ s.op = sup.op /\ s.gen = sup.gen /\ s.asked = sup.asked /\ s.result = sup.result
             /\ s.op \in Controls

LEMMA TailFacts ==
  ASSUME NEW q \in Seq(Entries), q # <<>>
  PROVE  /\ Tail(q) \in Seq(Entries) /\ Len(Tail(q)) = Len(q) - 1 /\ Head(q) = q[1] /\ Len(q) >= 1
         /\ Len(q) \in Nat /\ \A k \in 1..Len(Tail(q)) : Tail(q)[k] = q[k+1]
         /\ \A k \in 1..Len(q) : q[k] \in Entries
<1>1. Len(q) \in Nat /\ Len(q) >= 1
  BY EmptySeq, LenProperties
<1>2. Tail(q) \in Seq(Entries) /\ Len(Tail(q)) = Len(q) - 1 /\ Head(q) = q[1]
  BY HeadTailProperties
<1>3. \A k \in 1..Len(Tail(q)) : Tail(q)[k] = q[k+1]
  BY HeadTailProperties
<1> QED
  BY <1>1, <1>2, <1>3, ElementOfSeq

\* The head of the queue ends, and what a control operation waits for is still to come.
LEMMA ToldAsked ==
  ASSUME queue \in Seq(Entries), queue # <<>>, NEW s \in Supervisors, AskedOK(s, queue),
         AsksAsBefore(s), NEW res
  PROVE  AskedOK(Told(s, Head(queue).who, res), Tail(queue))
<1> DEFINE w == Told(s, Head(queue).who, res)
<1>1. Heard(s, w, Head(queue).who, res)
  BY ToldFacts
<1> HIDE DEF w
<1>2. SUFFICES ASSUME w.asked, w.result = "none"
               PROVE  \E k \in 1..Len(Tail(queue)) :
                        /\ Tail(queue)[k].who = w.op /\ Tail(queue)[k].gen = w.gen
                        /\ \A j \in 1..Len(Tail(queue)) : j > k => Tail(queue)[j].who \notin Controls
  BY DEF AskedOK, w
<1>3. /\ s.asked /\ s.result = "none" /\ w.op = s.op /\ w.gen = s.gen
      /\ ~(Head(queue).who \in Controls /\ IsAnswer)
  BY <1>1, <1>2 DEF Heard
<1>4. PICK k \in 1..Len(queue) :
        /\ queue[k].who = s.op /\ queue[k].gen = s.gen
        /\ \A j \in 1..Len(queue) : j > k => queue[j].who \notin Controls
  BY <1>3 DEF AskedOK
<1>5. k # 1
  <2>1. SUFFICES ASSUME k = 1 PROVE FALSE
    OBVIOUS
  <2>2. \A j \in 2..Len(queue) : queue[j].who \notin Controls
    BY <1>4, <2>1, TailFacts
  <2>3. sup.asked /\ sup.result = "none" /\ s.op \in Controls
    BY <1>3 DEF AsksAsBefore
  <2>4. Head(queue).who = s.op
    BY <1>4, <2>1, TailFacts
  <2> QED
    BY <1>3, <2>2, <2>3, <2>4 DEF IsAnswer
<1>6. k - 1 \in 1..Len(Tail(queue)) /\ Tail(queue)[k - 1] = queue[k]
  BY <1>4, <1>5, TailFacts
<1>7. \A j \in 1..Len(Tail(queue)) : j > k - 1 => Tail(queue)[j].who \notin Controls
  BY <1>4, TailFacts
<1> QED
  BY <1>3, <1>4, <1>6, <1>7

\* The control operation fails.
FailedFacts(s, w) ==
  /\ w \in Supervisors /\ w.disposed = s.disposed
  /\ \A t, g, q : /\ SupervisorOK(s, t, g) => SupervisorOK(w, t, g)
                  /\ AskedOK(s, q) => AskedOK(w, q)

LEMMA FailedResult ==
  ASSUME NEW s \in Supervisors
  PROVE  FailedFacts(s, [s EXCEPT !.result = "failed"])
<1> DEFINE w == [s EXCEPT !.result = "failed"]
<1>1. w \in Supervisors
  BY DEF Supervisors
<1>2. w.running = s.running /\ w.stopping = s.stopping /\ w.disposed = s.disposed
  BY DEF Supervisors
<1>3. /\ w.gen = s.gen /\ w.timer = s.timer /\ w.state = s.state /\ w.op = s.op
      /\ w.asked = s.asked /\ w.result = "failed"
  BY DEF Supervisors
<1> HIDE DEF w
<1>4. ASSUME NEW t, NEW g, SupervisorOK(s, t, g) PROVE SupervisorOK(w, t, g)
  BY <1>2, <1>3, <1>4 DEF SupervisorOK
<1>5. ASSUME NEW q PROVE AskedOK(w, q)
  BY <1>3 DEF AskedOK
<1>6. FailedFacts(s, w)
  BY <1>1, <1>2, <1>4, <1>5 DEF FailedFacts
<1> QED
  BY <1>6 DEF w

-----------------------------------------------------------------------------
(* The transport's reactions.                                              *)

SameConnection(t, w) ==
  /\ w \in Transports /\ TransportOK(w) /\ w.socket = t.socket /\ w.gen = t.gen
  /\ w.disposed = t.disposed /\ (w.state = "connected" <=> t.state = "connected")

LEMMA ConnectingTransport ==
  ASSUME NEW t \in Transports, TransportOK(t), ~t.disposed,
         NEW st \in {"connecting", "reconnecting"}
  PROVE  SameConnection(t, Connecting(t, st))
<1>1. CASE t.socket # 0 \/ t.connecting
  BY <1>1 DEF Connecting, SameConnection
<1>2. CASE ~(t.socket # 0 \/ t.connecting)
  <2>1. Connecting(t, st) = [t EXCEPT !.state = st, !.connecting = TRUE]
    BY <1>2 DEF Connecting
  <2>2. [t EXCEPT !.state = st, !.connecting = TRUE] \in Transports
    BY DEF Transports
  <2>3. SameConnection(t, [t EXCEPT !.state = st, !.connecting = TRUE])
    BY <1>2, <2>2 DEF SameConnection, TransportOK, Transports
  <2> QED
    BY <2>1, <2>3
<1> QED
  BY <1>1, <1>2

\* start() of the transport.
LEMMA StartedTransport ==
  ASSUME tr \in Transports, TransportOK(tr), ~tr.disposed
  PROVE  SameConnection(tr, Connecting([tr EXCEPT !.started = TRUE], "connecting"))
<1> DEFINE t == [tr EXCEPT !.started = TRUE]
<1>1. t \in Transports
  BY DEF Transports
<1>2. SameConnection(tr, t)
  BY <1>1 DEF SameConnection, TransportOK, Transports
<1> HIDE DEF t
<1>3. SameConnection(t, Connecting(t, "connecting"))
  BY <1>1, <1>2, ConnectingTransport DEF SameConnection
<1>4. SameConnection(tr, Connecting(t, "connecting"))
  BY <1>2, <1>3 DEF SameConnection
<1> QED
  BY <1>4 DEF t

LEMMA ReconnectsTransport ==
  ASSUME NEW t \in Transports, TransportOK(t)
  PROVE  SameConnection(t, Reconnects(t))
<1>1. CASE ~(t.started /\ ~t.disposed /\ t.socket = 0)
  BY <1>1 DEF Reconnects, SameConnection
<1>2. CASE t.started /\ ~t.disposed /\ t.socket = 0
  <2>1. Reconnects(t) = [t EXCEPT !.timer = TRUE]
    BY <1>2 DEF Reconnects
  <2>2. [t EXCEPT !.timer = TRUE] \in Transports
    BY DEF Transports
  <2>3. SameConnection(t, [t EXCEPT !.timer = TRUE])
    BY <1>2, <2>2 DEF SameConnection, TransportOK, Transports
  <2> QED
    BY <2>1, <2>3
<1> QED
  BY <1>1, <1>2

\* The connection is gone, if there was one.
LostConnection ==
  /\ tr' \in Transports /\ TransportOK(tr') /\ tr'.socket = 0 /\ tr'.gen = tr.gen
  /\ tr'.disposed = tr.disposed

LEMMA DropFacts ==
  ASSUME SessionTypes, SocketInv, Drop, nextSocket' = nextSocket, sup'.disposed = sup.disposed
  PROVE  LostConnection /\ SocketInv'
<1>1. tr \in Transports /\ TransportOK(tr)
  BY DEF SessionTypes, SocketInv
<1>2. CASE tr.socket = 0
  BY <1>1, <1>2 DEF Drop, LostConnection, SocketInv, TransportOK
<1>3. CASE tr.socket # 0
  <2> DEFINE t == [tr EXCEPT !.socket = 0, !.state = "idle"]
  <2>1. t \in Transports
    BY <1>1 DEF Transports
  <2>2. t.socket = 0 /\ t.gen = tr.gen /\ t.disposed = tr.disposed /\ t.timer = tr.timer /\ t.state = "idle"
    BY <1>1 DEF Transports
  <2>3. tr' = Reconnects(t) /\ retired' = retired \cup {tr.socket} /\ open' = open \ {tr.socket}
    BY <1>3 DEF Drop
  <2>4. TransportOK(t)
    BY <1>1, <2>2 DEF TransportOK
  <2> HIDE DEF t
  <2>5. SameConnection(t, tr')
    BY <2>1, <2>3, <2>4, ReconnectsTransport
  <2>6. LostConnection
    BY <2>2, <2>5 DEF SameConnection, LostConnection
  <2>7. open' = {tr'.socket} \ {0} /\ tr'.socket < nextSocket'
    BY <2>3, <2>6 DEF LostConnection, SocketInv, SessionTypes
  <2>8. \A k \in retired' : k \in Nat /\ k # 0 /\ k # tr'.socket /\ k < nextSocket'
    BY <1>1, <1>3, <2>3, <2>6 DEF LostConnection, SocketInv, Transports
  <2> QED
    BY <2>6, <2>7, <2>8 DEF LostConnection, SocketInv
<1> QED
  BY <1>2, <1>3

-----------------------------------------------------------------------------
(* What the supervisor does keeps its knowledge true.                      *)

LEMMA SameConnectionOK ==
  ASSUME NEW s \in Supervisors, NEW t, NEW u, NEW g, NEW h, SupervisorOK(s, t, g), g \subseteq h,
         u.gen = t.gen, u.state = "connected" <=> t.state = "connected"
  PROVE  SupervisorOK(s, u, h)
BY DEF SupervisorOK

LEMMA NoWorkOK ==
  ASSUME NEW s \in Supervisors, NEW t, NEW u, NEW g, NEW w, SupervisorOK(s, t, g),
         SameStanding(s, w), NoWork(w), w.gen = s.gen, w.state # "ready", u.gen = t.gen
  PROVE  SupervisorOK(w, u, g)
BY DEF SupervisorOK, SameStanding, NoWork

\* The connection is lost, while the supervisor is not about to end its disposal.
LEMMA LostOK ==
  ASSUME NEW s \in Supervisors, NEW t, NEW u, NEW g, SupervisorOK(s, t, g), u.gen = t.gen,
         s.stopping /\ ~s.disposed => s.op = "shutdown"
  PROVE  SupervisorOK(OnDisconnected(s), u, g)
<1>1. CASE OnDisconnected(s) = s /\ ~Listening(s)
  BY <1>1 DEF SupervisorOK, Listening
<1>2. CASE Listening(s) /\ OnDisconnected(s).state = "disconnected" /\ SameStanding(s, OnDisconnected(s))
           /\ NoWork(OnDisconnected(s)) /\ OnDisconnected(s).gen = s.gen
  <2> DEFINE w == OnDisconnected(s)
  <2>1. SameStanding(s, w) /\ NoWork(w) /\ w.gen = s.gen /\ w.state # "ready"
    BY <1>2
  <2> HIDE DEF w
  <2>2. SupervisorOK(w, u, g)
    BY <2>1, NoWorkOK
  <2> QED
    BY <2>2 DEF w
<1> QED
  BY <1>1, <1>2, DisconnectedFacts

\* It signs on over the connection t.
LEMMA ActivateOK ==
  ASSUME NEW s \in Supervisors, NEW t \in Transports, NEW u, NEW g, SupervisorOK(s, u, g),
         t.state = "connected", u.gen \in Nat, u.gen <= t.gen,
         u.gen = t.gen => u.state = "connected", s.running => ~s.disposed
  PROVE  \/ SupervisorOK(ActivateGeneration(s, t.gen), t, g)
         \/ ActivateGeneration(s, t.gen) = s
<1> DEFINE w == ActivateGeneration(s, t.gen)
<1>1. t.gen \in Nat
  BY DEF Transports
<1>2. CASE ActivateGeneration(s, t.gen) = s
  BY <1>2
<1>3. CASE /\ s.running /\ SameStanding(s, w) /\ w.op = "establish" /\ ~w.asked /\ w.result = "none"
           /\ w.timer = "none" /\ w.state = "establishing" /\ w.gen = t.gen
  <2> HIDE DEF w
  <2>1. w.gen <= t.gen /\ w.running /\ ~w.disposed
    BY <1>1, <1>3 DEF SameStanding
  <2>2. SupervisorOK(w, t, g)
    BY <1>3, <2>1, Zenon DEF SupervisorOK
  <2> QED
    BY <2>2 DEF w
<1> QED
  BY <1>1, <1>2, <1>3, ActivateFacts

\* A new connection.
LEMMA ConnectedOK ==
  ASSUME NEW s \in Supervisors, NEW t \in Transports, NEW u \in Transports, NEW g,
         SupervisorOK(s, u, g), u.state # "connected", t.state = "connected", t.gen = u.gen + 1
  PROVE  SupervisorOK(OnConnected(s, t.gen), t, g)
<1>1. t.gen \in Nat /\ u.gen \in Nat /\ s.gen \in Nat /\ s.gen <= u.gen
  BY DEF Transports, Supervisors, SupervisorOK
<1>2. SupervisorOK(s, t, g)
  <2>1. s.gen <= t.gen
    BY <1>1
  <2> QED
    BY <2>1, Zenon DEF SupervisorOK
<1>3. CASE Listening(s)
  <2>1. OnConnected(s, t.gen) = ActivateGeneration(s, t.gen)
    BY <1>3 DEF OnConnected
  <2>2. s.running => ~s.disposed
    BY <1>3 DEF Listening
  <2> QED
    BY <1>1, <1>2, <2>1, <2>2, ActivateOK
<1>4. CASE ~Listening(s)
  BY <1>2, <1>4 DEF OnConnected
<1> QED
  BY <1>3, <1>4

\* A control operation ends and the supervisor decides what is next.
Decided(s, w) ==
  /\ SameStanding(s, w) /\ w.gen = s.gen
  /\ \/ /\ w.state = "ready" /\ w.timer = "heartbeat"
        /\ s.op = "heartbeat" \/ (s.op = "establish" /\ s.result = "accepted")
     \/ w.state = "degraded" /\ w.timer = "retry" /\ s.op \in {"establish", "heartbeat"}
     \/ w.state = s.state /\ w.timer = s.timer /\ s.op \notin {"establish", "heartbeat"}

LEMMA DecisionFacts ==
  ASSUME NEW s \in Supervisors, NEW st, NEW n \in Nat, NEW ti, NEW a, NEW w,
         w = [s EXCEPT !.state = st, !.failures = n, !.timer = ti, !.activation = a],
         st \in SupervisorStates, ti \in {"none", "heartbeat", "retry"},
         a \in {"none", "clears", "stays"}
  PROVE  SameStanding(s, w) /\ w.gen = s.gen /\ w.state = st /\ w.timer = ti
<1>1. w \in Supervisors
  BY DEF Supervisors
<1>2. w.running = s.running /\ w.stopping = s.stopping /\ w.disposed = s.disposed
  BY DEF Supervisors
<1>3. w.gen = s.gen /\ w.state = st /\ w.timer = ti
  BY DEF Supervisors
<1> QED
  BY <1>1, <1>2, <1>3 DEF SameStanding

LEMMA EstablishDecides ==
  ASSUME NEW s \in Supervisors, s.op = "establish"
  PROVE  Decided(s, EstablishEnds(s))
<1> DEFINE a == IF s.activation = "clears" THEN "none" ELSE s.activation
           t == [s EXCEPT !.activation = a]
<1>1. a \in {"none", "clears", "stays"} /\ t \in Supervisors
  BY DEF Supervisors
<1>2. SameStanding(s, t) /\ t.gen = s.gen
  BY <1>1 DEF SameStanding, Supervisors
<1>3. EstablishEnds(s) = IF s.result = "accepted"
                         THEN [t EXCEPT !.state = "ready", !.failures = 0, !.timer = "heartbeat"]
                         ELSE [t EXCEPT !.state = "degraded", !.timer = "retry"]
  BY DEF EstablishEnds
<1> HIDE DEF a, t
<1>4. CASE s.result = "accepted"
  <2> DEFINE w == [t EXCEPT !.state = "ready", !.failures = 0, !.timer = "heartbeat"]
  <2>1. w \in Supervisors
    BY ZenonT(60), <1>1 DEF Supervisors, SupervisorStates
  <2>2. w.running = t.running /\ w.stopping = t.stopping /\ w.disposed = t.disposed
    BY <1>1 DEF Supervisors
  <2>3. w.gen = t.gen /\ w.state = "ready" /\ w.timer = "heartbeat"
    BY <1>1 DEF Supervisors
  <2> HIDE DEF w
  <2>4. Decided(s, w)
    BY <1>2, <1>4, <2>1, <2>2, <2>3 DEF Decided, SameStanding
  <2> QED
    BY <1>3, <1>4, <2>4 DEF w
<1>5. CASE s.result # "accepted"
  <2> DEFINE w == [t EXCEPT !.state = "degraded", !.timer = "retry"]
  <2>1. w \in Supervisors
    BY ZenonT(60), <1>1 DEF Supervisors, SupervisorStates
  <2>2. w.running = t.running /\ w.stopping = t.stopping /\ w.disposed = t.disposed
    BY <1>1 DEF Supervisors
  <2>3. w.gen = t.gen /\ w.state = "degraded" /\ w.timer = "retry"
    BY <1>1 DEF Supervisors
  <2> HIDE DEF w
  <2>4. Decided(s, w)
    BY <1>2, <1>5, <2>1, <2>2, <2>3 DEF Decided, SameStanding
  <2> QED
    BY <1>3, <1>5, <2>4 DEF w
<1> QED
  BY <1>4, <1>5

LEMMA HeartbeatDecides ==
  ASSUME NEW s \in Supervisors, s.op = "heartbeat"
  PROVE  Decided(s, HeartbeatEnds(s))
<1> DEFINE n == IF s.result = "accepted" THEN 0 ELSE s.failures + 1
           keeps == s.result = "accepted" \/ s.failures + 1 < FailureThreshold
           st == IF keeps THEN "ready" ELSE "degraded"
           ti == IF keeps THEN "heartbeat" ELSE "retry"
           w == [s EXCEPT !.state = st, !.failures = n, !.timer = ti]
<1>1. n \in Nat /\ st \in SupervisorStates /\ ti \in {"none", "heartbeat", "retry"}
  <2>1. s.failures \in Nat
    BY DEF Supervisors
  <2>2. n \in Nat
    BY <2>1
  <2>3. st \in SupervisorStates
    BY DEF SupervisorStates
  <2> QED
    BY <2>2, <2>3
<1>2. HeartbeatEnds(s) = w
  BY DEF HeartbeatEnds
<1>3. (st = "ready" /\ ti = "heartbeat") \/ (st = "degraded" /\ ti = "retry")
  OBVIOUS
<1> HIDE DEF n, st, ti
<1>4. w \in Supervisors
  BY <1>1 DEF Supervisors
<1>5. w.running = s.running /\ w.stopping = s.stopping /\ w.disposed = s.disposed
  BY DEF Supervisors
<1>6. w.gen = s.gen /\ w.state = st /\ w.timer = ti
  BY DEF Supervisors
<1> HIDE DEF w
<1> QED
  BY <1>2, <1>3, <1>4, <1>5, <1>6 DEF Decided, SameStanding

LEMMA ControlEndsFacts ==
  ASSUME NEW s \in Supervisors
  PROVE  /\ Decided(s, ControlEnds(s)) /\ ControlEnds(s).op = "" /\ ~ControlEnds(s).asked
         /\ ControlEnds(s).result = "none"
<1> DEFINE then == CASE s.op = "establish" -> EstablishEnds(s)
                     [] s.op = "heartbeat" -> HeartbeatEnds(s)
                     [] OTHER -> s
           over == [s EXCEPT !.op = "", !.asked = FALSE, !.result = "none"]
           w == [then EXCEPT !.op = "", !.asked = FALSE, !.result = "none"]
<1>1. ControlEnds(s) = w
  <2>1. over.op = "" /\ over.asked = FALSE /\ over.result = "none"
    BY DEF Supervisors
  <2> QED
    BY <2>1 DEF ControlEnds
<1>2. Decided(s, then)
  <2>1. CASE s.op = "establish"
    BY <2>1, EstablishDecides
  <2>2. CASE s.op = "heartbeat"
    BY <2>2, HeartbeatDecides
  <2>3. CASE s.op \notin {"establish", "heartbeat"}
    BY <2>3 DEF Decided, SameStanding
  <2> QED
    BY <2>1, <2>2, <2>3
<1> HIDE DEF then
<1>3. then \in Supervisors
  BY <1>2 DEF Decided, SameStanding
<1>4. w \in Supervisors
  BY <1>3 DEF Supervisors
<1>5. w.running = then.running /\ w.stopping = then.stopping /\ w.disposed = then.disposed
  BY <1>3 DEF Supervisors
<1>6. w.gen = then.gen /\ w.state = then.state /\ w.timer = then.timer
  BY <1>3 DEF Supervisors
<1>7. w.op = "" /\ ~w.asked /\ w.result = "none"
  BY <1>3 DEF Supervisors
<1> HIDE DEF w
<1> QED
  BY <1>1, <1>2, <1>4, <1>5, <1>6, <1>7 DEF Decided, SameStanding

LEMMA ControlEndsOK ==
  ASSUME NEW s \in Supervisors, NEW t, NEW g, SupervisorOK(s, t, g),
         s.running, ~s.disposed, s.gen = t.gen, t.state = "connected"
  PROVE  ControlEnds(s) \in Supervisors /\ SupervisorOK(ControlEnds(s), t, g) /\ ~ControlEnds(s).asked
<1> DEFINE w == ControlEnds(s)
<1>1. Decided(s, w) /\ w.op = "" /\ ~w.asked /\ w.result = "none"
  BY ControlEndsFacts
<1> HIDE DEF w
<1>2. SupervisorOK(w, t, g)
  BY <1>1 DEF Decided, SameStanding, SupervisorOK
<1> QED
  BY <1>1, <1>2 DEF w, Decided, SameStanding

\* A retry or a heartbeat begins.
LEMMA TaskRunsOK ==
  ASSUME NEW s \in Supervisors, NEW t, NEW g, SupervisorOK(s, t, g), s.timer # "none",
         s.running, ~s.disposed, s.gen = t.gen, t.state = "connected"
  PROVE  TaskRuns(s) \in Supervisors /\ SupervisorOK(TaskRuns(s), t, g) /\ ~TaskRuns(s).asked
         /\ TaskRuns(s).disposed = s.disposed
<1>1. CASE s.timer = "retry"
  <2> DEFINE v == [s EXCEPT !.timer = "none", !.state = "establishing", !.activation = "stays"]
             w == RunControl(v, "establish")
  <2>1. v \in Supervisors
    BY DEF Supervisors, SupervisorStates
  <2>2. v.running = s.running /\ v.stopping = s.stopping /\ v.disposed = s.disposed /\ v.gen = s.gen
    BY DEF Supervisors
  <2>3. v.timer = "none" /\ v.state = "establishing"
    BY DEF Supervisors
  <2> HIDE DEF v
  <2>4. /\ SameStanding(v, w) /\ w.op = "establish" /\ ~w.asked /\ w.result = "none" /\ w.timer = v.timer
        /\ w.state = v.state /\ w.gen = v.gen
    BY <2>1, RunFacts DEF Controls
  <2> HIDE DEF w
  <2>5. SupervisorOK(w, t, g)
    BY <2>2, <2>3, <2>4 DEF SupervisorOK, SameStanding
  <2>6. TaskRuns(s) = w
    BY <1>1 DEF TaskRuns, w, v
  <2> QED
    BY <2>2, <2>4, <2>5, <2>6 DEF SameStanding
<1>2. CASE s.timer = "heartbeat"
  <2> DEFINE v == [s EXCEPT !.timer = "none"]
             w == RunControl(v, "heartbeat")
  <2>1. v \in Supervisors
    BY DEF Supervisors
  <2>2. v.running = s.running /\ v.stopping = s.stopping /\ v.disposed = s.disposed /\ v.gen = s.gen
    BY DEF Supervisors
  <2>3. v.timer = "none" /\ v.state = s.state
    BY DEF Supervisors
  <2> HIDE DEF v
  <2>4. /\ SameStanding(v, w) /\ w.op = "heartbeat" /\ ~w.asked /\ w.result = "none" /\ w.timer = v.timer
        /\ w.state = v.state /\ w.gen = v.gen
    BY <2>1, RunFacts DEF Controls
  <2> HIDE DEF w
  <2>5. SupervisorOK(w, t, g)
    BY <1>2, <2>2, <2>3, <2>4 DEF SupervisorOK, SameStanding
  <2>6. TaskRuns(s) = w
    BY <1>2 DEF TaskRuns, w, v
  <2> QED
    BY <2>2, <2>4, <2>5, <2>6 DEF SameStanding
<1> QED
  BY <1>1, <1>2 DEF Supervisors

-----------------------------------------------------------------------------
(* Exchanges.                                                              *)

ExchangesOK == QueueInv /\ ActiveInv /\ WireInv /\ ArrivedInv

\* What exchanges are made of has its types after the step.
ExchangeTypes ==
  /\ queue \in Seq(Entries) /\ ex \in SessionExchanges /\ wire \subseteq [sock : Nat, who : Whose]
  /\ results \in [Requests -> Outcomes]

LEMMA NoExchangeFacts ==
  /\ NoExchange \in SessionExchanges /\ NoExchange.pc = "idle" /\ NoExchange.res = "none"
BY DEF NoExchange, SessionExchanges

\* No name of a request is that of an operation or an outcome.
LEMMA NamesDiffer ==
  \A r \in Requests : r \notin Controls /\ r \notin {"new", "queued", "notSent", "unknown", "none"}
BY SessionAssumption DEF Controls

\* The exchanges are left alone, and so is their connection.
LEMMA KeptExchanges ==
  ASSUME SessionTypes, ExchangesOK, UNCHANGED <<queue, ex, wire, results, arrived>>,
         nextSocket' = nextSocket, tr'.gen = tr.gen, tr'.socket = tr.socket
  PROVE  ExchangeTypes' /\ ExchangesOK'
<1>1. ExchangeTypes'
  BY DEF ExchangeTypes, SessionTypes
<1>2. QueueInv'
  BY DEF ExchangesOK, QueueInv
<1>3. ActiveInv'
  BY DEF ExchangesOK, ActiveInv
<1>4. WireInv'
  BY DEF ExchangesOK, WireInv
<1>5. ArrivedInv'
  BY DEF ExchangesOK, ArrivedInv
<1> QED
  BY <1>1, <1>2, <1>3, <1>4, <1>5 DEF ExchangesOK

\* The connection is lost under the exchange, which will end as unknown.
LEMMA LostExchanges ==
  ASSUME SessionTypes, ExchangesOK, UNCHANGED <<queue, wire, results, arrived>>,
         nextSocket' = nextSocket, tr'.gen = tr.gen, tr'.socket = 0,
         ex' = IF Pending THEN [ex EXCEPT !.res = "unknown"] ELSE ex
  PROVE  ExchangeTypes' /\ ExchangesOK'
<1>1. ex \in SessionExchanges
  BY DEF SessionTypes
<1>2. /\ ex' \in SessionExchanges /\ ex'.pc = ex.pc /\ ex'.sock = ex.sock /\ ex'.gen = ex.gen
      /\ ex'.res = ex.res \/ (ex.pc \in {"write", "await"} /\ ex'.res = "unknown")
  <2>1. CASE Pending
    <3> DEFINE e == [ex EXCEPT !.res = "unknown"]
    <3>1. e \in SessionExchanges
      BY <1>1 DEF SessionExchanges
    <3>2. e.pc = ex.pc /\ e.sock = ex.sock /\ e.gen = ex.gen /\ e.res = "unknown"
      BY <1>1 DEF SessionExchanges
    <3> QED
      BY <2>1, <3>1, <3>2 DEF Pending
  <2>2. CASE ~Pending
    BY <1>1, <2>2
  <2> QED
    BY <2>1, <2>2
<1>3. ExchangeTypes'
  BY <1>2 DEF ExchangeTypes, SessionTypes
<1>4. QueueInv'
  BY <1>2 DEF ExchangesOK, QueueInv
<1>5. ActiveInv'
  BY <1>1, <1>2 DEF ExchangesOK, ActiveInv, SessionExchanges
<1>6. WireInv'
  BY <1>2 DEF ExchangesOK, WireInv
<1>7. ArrivedInv'
  BY <1>2 DEF ExchangesOK, ArrivedInv
<1> QED
  BY <1>3, <1>4, <1>5, <1>6, <1>7 DEF ExchangesOK

\* A new connection: none of what was written before was written on it.
LEMMA NewConnectionExchanges ==
  ASSUME SessionTypes, ExchangesOK, UNCHANGED <<queue, wire, results, arrived>>,
         nextSocket' = nextSocket + 1, tr'.gen = tr.gen + 1, tr'.socket = nextSocket,
         ex' = IF ex.pc = "connect" THEN [ex EXCEPT !.pc = "ready"] ELSE ex
  PROVE  ExchangeTypes' /\ ExchangesOK'
<1>1. ex \in SessionExchanges /\ nextSocket \in Nat \ {0} /\ tr.gen \in Nat
  BY DEF SessionTypes, Transports
<1>2. /\ ex' \in SessionExchanges /\ ex'.sock = ex.sock /\ ex'.gen = ex.gen /\ ex'.res = ex.res
      /\ ex'.pc = ex.pc \/ (ex.pc = "connect" /\ ex'.pc = "ready")
  <2>1. CASE ex.pc = "connect"
    <3> DEFINE e == [ex EXCEPT !.pc = "ready"]
    <3>1. e \in SessionExchanges
      BY <1>1 DEF SessionExchanges
    <3>2. e.pc = "ready" /\ e.sock = ex.sock /\ e.gen = ex.gen /\ e.res = ex.res
      BY <1>1 DEF SessionExchanges
    <3> QED
      BY <2>1, <3>1, <3>2
  <2>2. CASE ex.pc # "connect"
    BY <1>1, <2>2
  <2> QED
    BY <2>1, <2>2
<1>3. ExchangeTypes'
  BY <1>2 DEF ExchangeTypes, SessionTypes
<1>4. QueueInv'
  <2>1. \A k \in 1..Len(queue) : queue[k] \in Entries /\ queue[k].gen \in Nat
    <3>1. queue \in Seq(Entries)
      BY DEF SessionTypes
    <3>2. \A k \in 1..Len(queue) : queue[k] \in Entries
      BY <3>1, ElementOfSeq
    <3> QED
      BY <3>2 DEF Entries
  <2> QED
    BY <1>1, <1>2, <2>1 DEF ExchangesOK, QueueInv
<1>5. ActiveInv'
  <2>1. ex.sock \in Nat /\ ex.gen \in Nat
    BY <1>1 DEF SessionExchanges
  <2> QED
    BY <1>1, <1>2, <2>1 DEF ExchangesOK, ActiveInv
<1>6. WireInv'
  <2>1. \A w \in wire : w.sock \in Nat
    BY DEF SessionTypes
  <2> QED
    BY <1>1, <1>2, <2>1 DEF ExchangesOK, WireInv
<1>7. ArrivedInv'
  BY <1>2 DEF ExchangesOK, ArrivedInv
<1> QED
  BY <1>3, <1>4, <1>5, <1>6, <1>7 DEF ExchangesOK

\* Before an exchange is written its request never was.
LEMMA HeadNotArrived ==
  ASSUME SessionTypes, ExchangesOK, queue # <<>>, ex.pc # "await", Head(queue).who \in Requests
  PROVE  Head(queue).who \notin arrived
<1>1. Head(queue) = queue[1] /\ 1 \in 1..Len(queue)
  BY TailFacts DEF SessionTypes
<1>2. results[Head(queue).who] = "queued"
  BY <1>1 DEF ExchangesOK, QueueInv
<1> QED
  BY <1>2 DEF ExchangesOK, ArrivedInv

\* The exchange at the head ends with the outcome res, and leaves nothing on the connection.
LEMMA FinishExchanges ==
  ASSUME SessionTypes, ExchangesOK, queue # <<>>, NEW res, Finish(res),
         res \in {"notSent", "unknown", Head(queue).who},
         tr'.gen = tr.gen, nextSocket' = nextSocket,
         wire' \subseteq [sock : Nat, who : Whose],
         \A w \in wire' : w.sock # 0 /\ w.sock < nextSocket /\ w.sock # tr'.socket,
         arrived' \subseteq arrived \cup {Head(queue).who},
         res = "notSent" /\ Head(queue).who \in Requests => Head(queue).who \notin arrived'
  PROVE  ExchangeTypes' /\ ExchangesOK'
<1> DEFINE h == Head(queue).who
<1>1. /\ queue \in Seq(Entries) /\ Tail(queue) \in Seq(Entries) /\ Len(queue) \in Nat /\ Len(queue) >= 1
      /\ Len(Tail(queue)) = Len(queue) - 1 /\ Head(queue) = queue[1]
      /\ \A k \in 1..Len(Tail(queue)) : Tail(queue)[k] = queue[k+1]
      /\ \A k \in 1..Len(queue) : queue[k] \in Entries
  BY TailFacts DEF SessionTypes
<1>2. queue' = Tail(queue) /\ ex' = NoExchange
  BY DEF Finish
<1>3. h \in Whose
  BY <1>1 DEF Entries
<1>4. /\ results' \in [Requests -> Outcomes]
      /\ \A r \in Requests : results'[r] = IF r = h THEN res ELSE results[r]
  <2>1. res \in Outcomes /\ results \in [Requests -> Outcomes]
    BY <1>3 DEF Outcomes, SessionTypes
  <2> QED
    BY <2>1 DEF Finish
<1>5. ExchangeTypes'
  BY <1>1, <1>2, <1>4, NoExchangeFacts DEF ExchangeTypes
<1>6. QueueInv'
  <2>1. ASSUME NEW k \in 1..Len(queue')
        PROVE  /\ queue'[k] = queue[k+1] /\ k + 1 \in 1..Len(queue) /\ queue'[k].gen <= tr'.gen
    BY <1>1, <1>2 DEF ExchangesOK, QueueInv
  <2>2. ASSUME NEW k \in 1..Len(queue'), queue'[k].who \in Requests
        PROVE  /\ results'[queue'[k].who] = "queued"
               /\ \A j \in 1..Len(queue') : queue'[j].who = queue'[k].who => j = k
    <3>1. queue'[k] = queue[k+1] /\ k + 1 \in 1..Len(queue) /\ 1 \in 1..Len(queue)
      BY <1>1, <2>1
    <3>2. queue[k+1].who # h
      BY <1>1, <2>2, <3>1 DEF ExchangesOK, QueueInv
    <3>3. results'[queue'[k].who] = "queued"
      BY <1>4, <2>2, <3>1, <3>2 DEF ExchangesOK, QueueInv
    <3>4. ASSUME NEW j \in 1..Len(queue'), queue'[j].who = queue'[k].who
          PROVE  j = k
      <4>1. queue'[j] = queue[j+1] /\ j + 1 \in 1..Len(queue)
        BY <2>1
      <4>2. j + 1 = k + 1
        BY <2>2, <3>1, <3>4, <4>1 DEF ExchangesOK, QueueInv
      <4> QED
        BY <4>2
    <3> QED
      BY <3>3, <3>4
  <2>3. ex'.pc = "idle"
    BY <1>2, NoExchangeFacts
  <2> QED
    BY <2>1, <2>2, <2>3 DEF QueueInv
<1>7. ActiveInv'
  BY <1>2, NoExchangeFacts DEF ActiveInv
<1>8. WireInv'
  BY DEF WireInv
<1>9. ArrivedInv'
  <2> SUFFICES ASSUME NEW r \in Requests
               PROVE  /\ results'[r] \in {"new", "queued", "notSent", "unknown", r}
                      /\ r \in arrived' =>
                           /\ results'[r] \notin {"new", "notSent"}
                           /\ results'[r] = "queued" => ex'.pc = "await" /\ Head(queue').who = r
    BY DEF ArrivedInv
  <2>1. CASE r = h
    BY <1>4, <2>1, NamesDiffer
  <2>2. CASE r # h
    BY <1>4, <2>2 DEF ExchangesOK, ArrivedInv
  <2> QED
    BY <2>1, <2>2
<1> QED
  BY <1>5, <1>6, <1>7, <1>8, <1>9 DEF ExchangesOK

\* An exchange joins the queue.
LEMMA AppendExchanges ==
  ASSUME SessionTypes, ExchangesOK, NEW e \in Entries, queue' = Append(queue, e), e.gen <= tr.gen,
         UNCHANGED <<ex, wire, arrived>>, nextSocket' = nextSocket, tr'.gen = tr.gen,
         tr'.socket = tr.socket,
         \/ e.who \in Controls /\ results' = results
         \/ /\ e.who \in Requests /\ results[e.who] = "new"
            /\ results' = [results EXCEPT ![e.who] = "queued"]
  PROVE  ExchangeTypes' /\ ExchangesOK'
<1>1. /\ queue \in Seq(Entries) /\ Len(queue) \in Nat /\ queue' \in Seq(Entries)
      /\ Len(queue') = Len(queue) + 1 /\ \A k \in 1..Len(queue) : queue'[k] = queue[k] /\ queue[k] \in Entries
      /\ queue'[Len(queue) + 1] = e
  BY AppendProperties, LenProperties, ElementOfSeq DEF SessionTypes
<1>2. queue # <<>> => Head(queue') = Head(queue)
  <2>1. ASSUME queue # <<>> PROVE Head(queue') = Head(queue)
    <3>1. Len(queue) >= 1 /\ queue' # <<>>
      BY <1>1, <2>1, EmptySeq
    <3> QED
      BY <1>1, <2>1, <3>1, HeadTailProperties
  <2> QED
    BY <2>1
<1>3. /\ results' \in [Requests -> Outcomes]
      /\ \A r \in Requests : results'[r] = IF e.who = r THEN "queued" ELSE results[r]
  <2>1. results \in [Requests -> Outcomes] /\ "queued" \in Outcomes
    BY DEF Outcomes, SessionTypes
  <2> QED
    BY <2>1, NamesDiffer
<1>4. ExchangeTypes'
  BY <1>1, <1>3 DEF ExchangeTypes, SessionTypes
<1>5. QueueInv'
  <2>1. ex'.pc # "idle" => queue' # <<>>
    BY <1>1, EmptySeq
  <2>2. \A k \in 1..Len(queue) : queue[k].who # e.who \/ e.who \in Controls
    BY <1>3, NamesDiffer DEF ExchangesOK, QueueInv
  <2>3. ASSUME NEW k \in 1..Len(queue')
        PROVE  queue'[k].gen <= tr'.gen
    BY <1>1 DEF ExchangesOK, QueueInv
  <2>4. ASSUME NEW k \in 1..Len(queue'), queue'[k].who \in Requests
        PROVE  /\ results'[queue'[k].who] = "queued"
               /\ \A j \in 1..Len(queue') : queue'[j].who = queue'[k].who => j = k
    <3>1. CASE k \in 1..Len(queue)
      <4>1. /\ queue'[k] = queue[k] /\ queue[k].who # e.who /\ results[queue[k].who] = "queued"
            /\ \A j \in 1..Len(queue) : queue[j].who = queue[k].who => j = k
        BY <1>1, <2>2, <2>4, <3>1, NamesDiffer DEF ExchangesOK, QueueInv
      <4> QED
        BY <1>1, <1>3, <2>4, <4>1
    <3>2. CASE k = Len(queue) + 1
      <4>1. queue'[k] = e /\ e.who \notin Controls
        BY <1>1, <2>4, <3>2, NamesDiffer
      <4> QED
        BY <1>1, <1>3, <2>2, <2>4, <3>2, <4>1
    <3> QED
      BY <1>1, <3>1, <3>2
  <2> QED
    BY <2>1, <2>3, <2>4 DEF QueueInv
<1>6. ActiveInv'
  <2>1. ex.pc # "idle" => Head(queue') = Head(queue)
    BY <1>2 DEF ExchangesOK, QueueInv
  <2> QED
    BY <2>1 DEF ExchangesOK, ActiveInv
<1>7. WireInv'
  <2>1. ex.pc = "await" => Head(queue') = Head(queue)
    BY <1>2 DEF ExchangesOK, QueueInv
  <2> QED
    BY <2>1 DEF ExchangesOK, WireInv
<1>8. ArrivedInv'
  <2>1. ex.pc = "await" => Head(queue') = Head(queue)
    BY <1>2 DEF ExchangesOK, QueueInv
  <2> QED
    BY <1>3, <2>1, NamesDiffer DEF ExchangesOK, ArrivedInv
<1> QED
  BY <1>4, <1>5, <1>6, <1>7, <1>8 DEF ExchangesOK

\* What the step does to the exchanges apart, the session keeps its invariant.
LEMMA SessionParts ==
  ASSUME ExchangeTypes', ExchangesOK', sup' \in Supervisors, tr' \in Transports,
         nextSocket' \in Nat \ {0}, SocketInv', SupervisorOK(sup', tr', greeted'), AskedOK(sup', queue'),
         ReplyOnOwnConnection'
  PROVE  SessionInv'
BY DEF SessionInv, SessionTypes, ExchangeTypes, ExchangesOK, SupervisorInv

LEMMA SameSockets ==
  ASSUME SocketInv, SameConnection(tr, tr'), UNCHANGED <<retired, open, nextSocket>>,
         sup'.disposed = sup.disposed
  PROVE  SocketInv'
BY DEF SocketInv, SameConnection

\* The supervisor when its connection may have been lost.
LEMMA LostSupervisor ==
  ASSUME SessionInv, NEW s, s = sup \/ s = OnDisconnected(sup)
  PROVE  s \in Supervisors /\ s.disposed = sup.disposed /\ AsksAsBefore(s) /\ AskedOK(s, queue)
<1>1. sup \in Supervisors /\ AskedOK(sup, queue) /\ (sup.asked => sup.op # "")
  BY DEF SessionInv, SessionTypes, SupervisorInv, SupervisorOK
<1>2. sup.op \in Controls \cup {""}
  BY <1>1 DEF Supervisors
<1>3. CASE s = sup
  BY <1>1, <1>2, <1>3 DEF AsksAsBefore
<1>4. CASE s = OnDisconnected(sup) /\ s # sup
  <2>1. SameStanding(sup, s) /\ NoWork(s)
    BY <1>1, <1>4, DisconnectedFacts
  <2> QED
    BY <2>1 DEF SameStanding, NoWork, AsksAsBefore, AskedOK
<1> QED
  BY <1>3, <1>4

\* The call of start() takes its next step.
LEMMA StartFacts ==
  ASSUME NEW s \in Supervisors
  PROVE  /\ Demoted(s, [s EXCEPT !.start = "connected"])
         /\ Demoted(s, [s EXCEPT !.start = "done"])
         /\ Demoted(s, [s EXCEPT !.start = "done", !.state = "disconnected"])
<1>1. Demoted(s, [s EXCEPT !.start = "connected"])
  <2>1. [s EXCEPT !.start = "connected"] \in Supervisors
    BY DEF Supervisors
  <2> QED
    BY <2>1 DEF Demoted, SameStanding, Supervisors
<1>2. Demoted(s, [s EXCEPT !.start = "done"])
  <2>1. [s EXCEPT !.start = "done"] \in Supervisors
    BY DEF Supervisors
  <2> QED
    BY <2>1 DEF Demoted, SameStanding, Supervisors
<1>3. Demoted(s, [s EXCEPT !.start = "done", !.state = "disconnected"])
  <2> DEFINE w == [s EXCEPT !.start = "done", !.state = "disconnected"]
  <2>1. w \in Supervisors
    BY DEF Supervisors, SupervisorStates
  <2>2. w.running = s.running /\ w.stopping = s.stopping /\ w.disposed = s.disposed
    BY DEF Supervisors
  <2>3. w.gen = s.gen /\ w.op = s.op /\ w.asked = s.asked /\ w.result = s.result /\ w.timer = s.timer
    BY DEF Supervisors
  <2>4. w.state = "disconnected"
    BY DEF Supervisors
  <2> HIDE DEF w
  <2>5. Demoted(s, w)
    BY <2>1, <2>2, <2>3, <2>4 DEF Demoted, SameStanding
  <2> QED
    BY <2>5 DEF w
<1> QED
  BY <1>1, <1>2, <1>3

-----------------------------------------------------------------------------
(* The steps of a connection.                                              *)

LEMMA ConnectSucceedsInv ==
  ASSUME SessionInv, ConnectSucceeds
  PROVE  SessionInv'
<1>1. /\ sup \in Supervisors /\ tr \in Transports /\ nextSocket \in Nat \ {0} /\ tr.gen \in Nat
      /\ SocketInv /\ SupervisorOK(sup, tr, greeted) /\ AskedOK(sup, queue) /\ SessionTypes /\ ExchangesOK
      /\ tr.socket = 0 /\ tr.state # "connected" /\ tr.disposed = FALSE
  BY DEF SessionInv, SessionTypes, SupervisorInv, ExchangesOK, SocketInv, TransportOK, Transports,
     ConnectSucceeds
<1>2. /\ tr' \in Transports /\ tr'.socket = nextSocket /\ tr'.gen = tr.gen + 1 /\ tr'.state = "connected"
      /\ ~tr'.connecting /\ tr'.disposed = FALSE
  <2> DEFINE g == tr.gen + 1
             t == [tr EXCEPT !.connecting = FALSE, !.socket = nextSocket, !.gen = g, !.state = "connected"]
  <2>1. tr' = t /\ g \in Nat
    BY <1>1 DEF ConnectSucceeds
  <2> HIDE DEF g
  <2>2. t \in Transports
    BY <1>1, <2>1 DEF Transports
  <2>3. t.socket = nextSocket /\ t.gen = g /\ t.state = "connected"
    BY <1>1 DEF Transports
  <2>4. ~t.connecting /\ t.disposed = tr.disposed
    BY <1>1 DEF Transports
  <2> QED
    BY <1>1, <2>1, <2>2, <2>3, <2>4 DEF g
<1>3. TransportOK(tr')
  BY <1>1, <1>2 DEF TransportOK
<1> DEFINE s == OnConnected(sup, tr.gen + 1)
<1>4. s \in Supervisors /\ s.disposed = sup.disposed /\ AskedOK(s, queue)
  <2>1. s = sup \/ (SameStanding(sup, s) /\ ~s.asked)
    BY <1>1, ActivateFacts DEF OnConnected
  <2> QED
    BY <1>1, <2>1 DEF SameStanding, AskedOK
<1>5. SupervisorOK(s, tr', greeted)
  BY <1>1, <1>2, ConnectedOK
<1>6. sup' = IF s.start = "waiting" THEN [s EXCEPT !.start = "connected"] ELSE s
  BY DEF ConnectSucceeds
<1> HIDE DEF s
<1>7. sup' \in Supervisors /\ sup'.disposed = sup.disposed /\ SupervisorOK(sup', tr', greeted) /\ AskedOK(sup', queue)
  <2>1. CASE s.start = "waiting"
    <3>1. Demoted(s, sup')
      BY <1>4, <1>6, <2>1, StartFacts
    <3> QED
      BY <1>4, <1>5, <3>1, DemotedOK DEF Demoted, SameStanding
  <2>2. CASE s.start # "waiting"
    BY <1>4, <1>5, <1>6, <2>2
  <2> QED
    BY <2>1, <2>2
<1>8. ExchangeTypes' /\ ExchangesOK'
  BY <1>1, <1>2, NewConnectionExchanges DEF ConnectSucceeds, sessionHistory
<1>9. SocketInv'
  <2>1. open' = {tr'.socket} \ {0} /\ tr'.socket < nextSocket' /\ nextSocket' = nextSocket + 1
    BY <1>1, <1>2 DEF ConnectSucceeds, SocketInv
  <2>2. \A k \in retired' : k \in Nat /\ k # 0 /\ k # tr'.socket /\ k < nextSocket'
    BY <1>1, <1>2 DEF ConnectSucceeds, SocketInv
  <2> QED
    BY <1>1, <1>2, <1>3, <1>7, <2>1, <2>2 DEF SocketInv
<1>10. nextSocket' \in Nat \ {0} /\ greeted' = greeted /\ queue' = queue /\ ReplyOnOwnConnection'
  BY <1>1 DEF ConnectSucceeds, sessionHistory, SessionInv, ReplyOnOwnConnection
<1> QED
  BY <1>2, <1>7, <1>8, <1>9, <1>10, SessionParts

LEMMA ConnectFailsInv ==
  ASSUME SessionInv, ConnectFails
  PROVE  SessionInv'
<1>1. /\ sup \in Supervisors /\ tr \in Transports /\ nextSocket \in Nat \ {0} /\ tr.gen \in Nat
      /\ SocketInv /\ SupervisorOK(sup, tr, greeted) /\ AskedOK(sup, queue) /\ SessionTypes /\ ExchangesOK
      /\ tr.socket = 0 /\ tr.state # "connected" /\ TransportOK(tr)
  BY DEF SessionInv, SessionTypes, SupervisorInv, ExchangesOK, SocketInv, TransportOK, Transports,
     ConnectFails
<1>2. SameConnection(tr, tr')
  <2> DEFINE t == [tr EXCEPT !.connecting = FALSE]
             u == [t EXCEPT !.state = "idle"]
  <2>1. t \in Transports /\ u \in Transports
    BY <1>1 DEF Transports
  <2>2. SameConnection(tr, t)
    BY <1>1, <2>1 DEF SameConnection, TransportOK, Transports
  <2>3. SameConnection(tr, u)
    BY <1>1, <2>1 DEF SameConnection, TransportOK, Transports
  <2>4. tr' = IF tr.disposed THEN t ELSE Reconnects(u)
    BY DEF ConnectFails
  <2> HIDE DEF t, u
  <2>5. SameConnection(u, Reconnects(u))
    BY <2>3, <2>1, ReconnectsTransport DEF SameConnection
  <2> QED
    BY <2>2, <2>3, <2>4, <2>5 DEF SameConnection
<1> DEFINE s == IF tr.disposed THEN sup ELSE OnDisconnected(sup)
           w == IF ex.pc = "connect" THEN Told(s, Head(queue).who, "notSent") ELSE s
<1>3. s \in Supervisors /\ s.disposed = sup.disposed /\ AsksAsBefore(s) /\ AskedOK(s, queue)
  BY LostSupervisor
<1>4. SupervisorOK(s, tr', greeted)
  <2>1. SupervisorOK(sup, tr', greeted)
    BY <1>1, <1>2, SameConnectionOK DEF SameConnection
  <2>2. OnDisconnected(sup) = sup \/ SupervisorOK(OnDisconnected(sup), tr', greeted)
    <3>1. CASE /\ SameStanding(sup, OnDisconnected(sup)) /\ NoWork(OnDisconnected(sup))
               /\ OnDisconnected(sup).state = "disconnected" /\ OnDisconnected(sup).gen = sup.gen
      <4>1. OnDisconnected(sup).state # "ready" /\ tr'.gen = tr.gen
        BY <1>2, <3>1 DEF SameConnection
      <4> QED
        BY <1>1, <3>1, <4>1, NoWorkOK
    <3> QED
      BY <1>1, <3>1, DisconnectedFacts
  <2> QED
    BY <2>1, <2>2
<1>5. sup' = IF w.start = "waiting" THEN [w EXCEPT !.start = "done", !.state = "disconnected"] ELSE w
  BY DEF ConnectFails
<1>6. queue' = IF ex.pc = "connect" THEN Tail(queue) ELSE queue
  BY DEF ConnectFails, Finish
<1>7. ex.pc = "connect" => queue # <<>>
  BY <1>1 DEF ExchangesOK, QueueInv
<1>8. w \in Supervisors /\ w.disposed = sup.disposed /\ SupervisorOK(w, tr', greeted) /\ AskedOK(w, queue')
  <2> HIDE DEF s
  <2>1. CASE ex.pc = "connect"
    <3>1. w = Told(s, Head(queue).who, "notSent") /\ queue' = Tail(queue)
      BY <1>6, <2>1
    <3>2. Heard(s, w, Head(queue).who, "notSent")
      BY <1>3, <3>1, ToldFacts
    <3>3. "notSent" \notin Controls
      BY DEF Controls
    <3>4. SupervisorOK(w, tr', greeted)
      BY <1>3, <1>4, <3>1, <3>3, ToldOK
    <3>5. AskedOK(w, queue')
      BY <1>1, <1>3, <1>7, <2>1, <3>1, ToldAsked DEF SessionTypes
    <3> QED
      BY <1>3, <3>2, <3>4, <3>5 DEF Heard, SameStanding
  <2>2. CASE ex.pc # "connect"
    BY <1>3, <1>4, <1>6, <2>2
  <2> QED
    BY <2>1, <2>2
<1> HIDE DEF w
<1>9. sup' \in Supervisors /\ sup'.disposed = sup.disposed /\ SupervisorOK(sup', tr', greeted) /\ AskedOK(sup', queue')
  <2>1. CASE w.start = "waiting"
    <3>1. Demoted(w, sup')
      BY <1>5, <1>8, <2>1, StartFacts
    <3> QED
      BY <1>8, <3>1, DemotedOK DEF Demoted, SameStanding
  <2>2. CASE w.start # "waiting"
    BY <1>5, <1>8, <2>2
  <2> QED
    BY <2>1, <2>2
<1>10. nextSocket' = nextSocket /\ UNCHANGED <<retired, open, wire, arrived, greeted, replies>>
  BY DEF ConnectFails, sessionHistory
<1>11. ExchangeTypes' /\ ExchangesOK'
  <2>1. tr'.gen = tr.gen /\ tr'.socket = tr.socket
    BY <1>2 DEF SameConnection
  <2>2. CASE ex.pc = "connect"
    <3>1. Finish("notSent")
      BY <2>2 DEF ConnectFails
    <3>2. \A v \in wire' : v.sock # 0 /\ v.sock < nextSocket /\ v.sock # tr'.socket
      BY <1>1, <1>10, <2>1 DEF ExchangesOK, WireInv
    <3>3. Head(queue).who \in Requests => Head(queue).who \notin arrived'
      BY <1>1, <1>7, <1>10, <2>2, HeadNotArrived
    <3> QED
      BY <1>1, <1>7, <1>10, <2>1, <2>2, <3>1, <3>2, <3>3, FinishExchanges DEF SessionTypes
  <2>3. CASE ex.pc # "connect"
    BY <1>1, <1>10, <2>1, <2>3, KeptExchanges DEF ConnectFails
  <2> QED
    BY <2>2, <2>3
<1>12. SocketInv'
  BY <1>1, <1>2, <1>9, <1>10, SameSockets
<1> QED
  BY <1>1, <1>2, <1>9, <1>10, <1>11, <1>12, SessionParts DEF SameConnection, SessionInv, ReplyOnOwnConnection

LEMMA ConnectionLostInv ==
  ASSUME SessionInv, ConnectionLost, ~Resuming
  PROVE  SessionInv'
<1>1. /\ sup \in Supervisors /\ tr \in Transports /\ nextSocket \in Nat \ {0}
      /\ SocketInv /\ SupervisorOK(sup, tr, greeted) /\ SessionTypes /\ ExchangesOK
  BY DEF SessionInv, SessionTypes, SupervisorInv, ExchangesOK
<1>2. sup' = OnDisconnected(sup) /\ UNCHANGED <<queue, wire, results, arrived, greeted, replies>> /\ Drop
      /\ nextSocket' = nextSocket /\ ex' = IF Pending THEN [ex EXCEPT !.res = "unknown"] ELSE ex
  BY DEF ConnectionLost, Dropped, sessionHistory
<1>3. sup' \in Supervisors /\ sup'.disposed = sup.disposed /\ AskedOK(sup', queue)
  BY <1>2, LostSupervisor
<1>4. LostConnection /\ SocketInv'
  BY <1>1, <1>2, <1>3, DropFacts
<1>5. SupervisorOK(sup', tr', greeted)
  <2>1. sup.stopping /\ ~sup.disposed => sup.op = "shutdown"
    BY DEF Resuming, DisposeDue
  <2> QED
    BY <1>1, <1>2, <1>4, <2>1, LostOK DEF LostConnection
<1>6. ExchangeTypes' /\ ExchangesOK'
  BY <1>1, <1>2, <1>4, LostExchanges DEF LostConnection
<1> QED
  BY <1>1, <1>2, <1>3, <1>4, <1>5, <1>6, SessionParts DEF LostConnection, SessionInv, ReplyOnOwnConnection

LEMMA ReconnectTimerInv ==
  ASSUME SessionInv, ReconnectTimer
  PROVE  SessionInv'
<1>1. /\ sup \in Supervisors /\ tr \in Transports /\ nextSocket \in Nat \ {0} /\ TransportOK(tr)
      /\ SocketInv /\ SupervisorOK(sup, tr, greeted) /\ AskedOK(sup, queue) /\ SessionTypes /\ ExchangesOK
  BY DEF SessionInv, SessionTypes, SupervisorInv, ExchangesOK, SocketInv
<1>2. SameConnection(tr, tr')
  <2> DEFINE t == [tr EXCEPT !.timer = FALSE]
  <2>1. t \in Transports
    BY <1>1 DEF Transports
  <2>2. SameConnection(tr, t)
    BY <1>1, <2>1 DEF SameConnection, TransportOK, Transports
  <2>3. tr' = Connecting(t, "reconnecting") /\ tr.timer
    BY DEF ReconnectTimer
  <2> HIDE DEF t
  <2>4. ~t.disposed /\ TransportOK(t)
    BY <1>1, <2>2, <2>3 DEF SameConnection, TransportOK
  <2>5. SameConnection(t, Connecting(t, "reconnecting"))
    BY <2>1, <2>4, ConnectingTransport
  <2> QED
    BY <2>2, <2>3, <2>5 DEF SameConnection
<1>3. sup' = sup \/ Demoted(sup, sup')
  BY <1>1, ConnectingDemotes DEF ReconnectTimer
<1>4. sup' \in Supervisors /\ sup'.disposed = sup.disposed /\ SupervisorOK(sup', tr, greeted) /\ AskedOK(sup', queue)
  BY <1>1, <1>3, DemotedOK DEF Demoted, SameStanding
<1>5. SupervisorOK(sup', tr', greeted)
  BY <1>2, <1>4, SameConnectionOK DEF SameConnection
<1>6. UNCHANGED <<retired, open, nextSocket, queue, ex, wire, results, arrived, greeted, replies>>
  BY DEF ReconnectTimer, sessionHistory
<1>7. ExchangeTypes' /\ ExchangesOK'
  BY <1>1, <1>2, <1>6, KeptExchanges DEF SameConnection
<1>8. SocketInv'
  BY <1>1, <1>2, <1>4, <1>6, SameSockets
<1> QED
  BY <1>1, <1>2, <1>4, <1>5, <1>6, <1>7, <1>8, SessionParts DEF SameConnection, SessionInv, ReplyOnOwnConnection

-----------------------------------------------------------------------------
(* The steps of an exchange.                                               *)

\* What the state is made of, as the lemmas take it.
LEMMA SessionFacts ==
  ASSUME SessionInv
  PROVE  /\ sup \in Supervisors /\ tr \in Transports /\ nextSocket \in Nat \ {0} /\ TransportOK(tr)
         /\ SocketInv /\ SupervisorOK(sup, tr, greeted) /\ AskedOK(sup, queue) /\ SessionTypes
         /\ ExchangesOK /\ ExchangeTypes /\ queue \in Seq(Entries) /\ ex \in SessionExchanges
BY DEF SessionInv, SessionTypes, SupervisorInv, ExchangesOK, SocketInv, ExchangeTypes

\* The connection and the supervisor's work are left alone.
LEMMA SameSession ==
  ASSUME SessionInv, ExchangeTypes', ExchangesOK', AskedOK(sup', queue'), ReplyOnOwnConnection',
         UNCHANGED <<tr, retired, open, nextSocket>>, sup' \in Supervisors,
         sup'.disposed = sup.disposed, SupervisorOK(sup', tr, greeted')
  PROVE  SessionInv'
<1>1. SocketInv' /\ tr' \in Transports /\ nextSocket' \in Nat \ {0}
  BY SessionFacts DEF SocketInv
<1> QED
  BY <1>1, SessionParts

\* An entry at the end of the queue is not waited for, or is what is waited for.
LEMMA AppendAsked ==
  ASSUME NEW s \in Supervisors, NEW q \in Seq(Entries), NEW e \in Entries,
         (e.who \notin Controls /\ AskedOK(s, q)) \/ (e.who = s.op /\ e.gen = s.gen)
  PROVE  AskedOK(s, Append(q, e))
<1> DEFINE p == Append(q, e)
<1>1. /\ Len(q) \in Nat /\ Len(p) = Len(q) + 1 /\ \A k \in 1..Len(q) : p[k] = q[k]
      /\ p[Len(q) + 1] = e
  BY AppendProperties, LenProperties
<1> HIDE DEF p
<1>2. CASE e.who = s.op /\ e.gen = s.gen
  <2>1. Len(q) + 1 \in 1..Len(p) /\ \A j \in 1..Len(p) : ~(j > Len(q) + 1)
    BY <1>1
  <2>2. AskedOK(s, p)
    BY <1>1, <1>2, <2>1 DEF AskedOK
  <2> QED
    BY <2>2 DEF p
<1>3. CASE e.who \notin Controls /\ AskedOK(s, q)
  <2>1. SUFFICES ASSUME s.asked, s.result = "none"
                 PROVE  \E k \in 1..Len(p) : /\ p[k].who = s.op /\ p[k].gen = s.gen
                                             /\ \A j \in 1..Len(p) : j > k => p[j].who \notin Controls
    BY DEF AskedOK, p
  <2>2. PICK k \in 1..Len(q) : /\ q[k].who = s.op /\ q[k].gen = s.gen
                               /\ \A j \in 1..Len(q) : j > k => q[j].who \notin Controls
    BY <1>3, <2>1 DEF AskedOK
  <2>3. k \in 1..Len(p) /\ p[k] = q[k]
    BY <1>1
  <2>4. \A j \in 1..Len(p) : j > k => p[j].who \notin Controls
    BY <1>1, <1>3, <2>2
  <2> QED
    BY <2>2, <2>3, <2>4
<1> QED
  BY <1>2, <1>3

LEMMA SubmitInv ==
  ASSUME SessionInv, NEW r \in Requests, Submit(r)
  PROVE  SessionInv'
<1> DEFINE e == [who |-> r, gen |-> 0]
<1>1. e \in Entries /\ e.who = r /\ e.gen = 0
  BY DEF Entries, Whose
<1>2. /\ results[r] = "new" /\ results' = [results EXCEPT ![r] = "queued"] /\ queue' = Append(queue, e)
      /\ UNCHANGED <<sup, tr, retired, open, nextSocket, ex, wire, arrived, greeted, replies>>
  BY DEF Submit, sessionHistory
<1> HIDE DEF e
<1>3. e.gen <= tr.gen
  <2>1. tr.gen \in Nat
    BY SessionFacts DEF Transports
  <2> QED
    BY <1>1, <2>1
<1>4. ExchangeTypes' /\ ExchangesOK'
  <2>1. e.who \in Requests /\ results[e.who] = "new" /\ results' = [results EXCEPT ![e.who] = "queued"]
    BY <1>1, <1>2
  <2> QED
    BY <1>1, <1>2, <1>3, <2>1, SessionFacts, AppendExchanges
<1>5. AskedOK(sup', queue')
  BY <1>1, <1>2, SessionFacts, NamesDiffer, AppendAsked
<1> QED
  BY <1>2, <1>4, <1>5, SessionFacts, SameSession DEF SessionInv, ReplyOnOwnConnection

\* The exchange goes on to the connection it needs.
LEMMA BegunExchanges ==
  ASSUME SessionTypes, ExchangesOK, UNCHANGED <<queue, wire, results, arrived>>, queue # <<>>,
         nextSocket' = nextSocket, tr'.gen = tr.gen, tr'.socket = tr.socket, ex.pc = "idle",
         NEW l \in {"connect", "ready"}, ex' = [ex EXCEPT !.pc = l]
  PROVE  ExchangeTypes' /\ ExchangesOK'
<1>1. ex \in SessionExchanges
  BY DEF SessionTypes
<1>2. ex' \in SessionExchanges /\ ex'.res = ex.res /\ ex'.pc = l
  BY <1>1 DEF SessionExchanges
<1>3. ExchangeTypes'
  BY <1>2 DEF ExchangeTypes, SessionTypes
<1>4. QueueInv'
  BY <1>2 DEF ExchangesOK, QueueInv
<1>5. ActiveInv'
  BY <1>2 DEF ExchangesOK, ActiveInv
<1>6. WireInv'
  BY <1>2 DEF ExchangesOK, WireInv
<1>7. ArrivedInv'
  BY <1>2 DEF ExchangesOK, ArrivedInv
<1> QED
  BY <1>3, <1>4, <1>5, <1>6, <1>7 DEF ExchangesOK

\* The exchange ends before it is sent.
LEMMA UnsentInv ==
  ASSUME SessionInv, queue # <<>>, ex.pc \in {"idle", "ready"}, Finish("notSent"),
         sup' = Told(sup, Head(queue).who, "notSent"),
         UNCHANGED <<tr, retired, open, nextSocket, wire, greeted, arrived, replies>>
  PROVE  SessionInv'
<1>1. Heard(sup, sup', Head(queue).who, "notSent")
  BY SessionFacts, ToldFacts
<1>2. "notSent" \notin Controls
  BY DEF Controls
<1>3. SupervisorOK(sup', tr, greeted')
  BY <1>2, SessionFacts, ToldOK
<1>4. AskedOK(sup', queue')
  BY LostSupervisor, SessionFacts, ToldAsked DEF Finish
<1>5. \A v \in wire' : v.sock # 0 /\ v.sock < nextSocket /\ v.sock # tr'.socket
  BY SessionFacts DEF ExchangesOK, WireInv
<1>6. ExchangeTypes' /\ ExchangesOK'
  BY <1>5, SessionFacts, HeadNotArrived, FinishExchanges DEF SessionTypes
<1> QED
  BY <1>1, <1>3, <1>4, <1>6, SameSession DEF Heard, SameStanding, SessionInv, ReplyOnOwnConnection

LEMMA DequeueInv ==
  ASSUME SessionInv, Dequeue
  PROVE  SessionInv'
<1>1. /\ queue # <<>> /\ ex.pc = "idle" /\ UNCHANGED <<retired, open, nextSocket, wire, greeted, arrived, replies>>
  BY DEF Dequeue, sessionHistory
<1>2. CASE tr.disposed
  BY <1>1, <1>2, UnsentInv DEF Dequeue
<1>3. CASE ~tr.disposed /\ tr.socket # 0
  <2>1. ex' = [ex EXCEPT !.pc = "ready"] /\ UNCHANGED <<sup, tr, queue, results>>
    BY <1>3 DEF Dequeue
  <2>2. ExchangeTypes' /\ ExchangesOK'
    BY <1>1, <2>1, SessionFacts, BegunExchanges
  <2> QED
    BY <1>1, <2>1, <2>2, SessionFacts, SameSession DEF SessionInv, ReplyOnOwnConnection
<1>4. CASE ~tr.disposed /\ tr.socket = 0
  <2>1. /\ ex' = [ex EXCEPT !.pc = "connect"] /\ UNCHANGED <<queue, results>>
        /\ tr' = Connecting([tr EXCEPT !.started = TRUE], "connecting")
        /\ sup' = IF tr.connecting THEN sup ELSE OnConnecting(sup)
    BY <1>4 DEF Dequeue
  <2>2. SameConnection(tr, tr')
    BY <1>4, <2>1, SessionFacts, StartedTransport
  <2>3. sup' = sup \/ Demoted(sup, sup')
    BY <2>1, SessionFacts, ConnectingDemotes
  <2>4. sup' \in Supervisors /\ sup'.disposed = sup.disposed /\ SupervisorOK(sup', tr, greeted) /\ AskedOK(sup', queue')
    BY <2>1, <2>3, SessionFacts, DemotedOK DEF Demoted, SameStanding
  <2>5. SupervisorOK(sup', tr', greeted)
    BY <2>2, <2>4, SameConnectionOK DEF SameConnection
  <2>6. ExchangeTypes' /\ ExchangesOK'
    BY <1>1, <2>1, <2>2, SessionFacts, BegunExchanges DEF SameConnection
  <2>7. SocketInv'
    BY <1>1, <2>2, <2>4, SessionFacts, SameSockets
  <2> QED
    BY <1>1, <2>2, <2>4, <2>5, <2>6, <2>7, SessionFacts, SessionParts
       DEF SameConnection, SessionInv, ReplyOnOwnConnection
<1> QED
  BY <1>2, <1>3, <1>4

LEMMA TakeConnectionInv ==
  ASSUME SessionInv, TakeConnection
  PROVE  SessionInv'
<1>1. ex.pc = "ready" /\ UNCHANGED <<tr, retired, open, nextSocket, wire, greeted, arrived, replies>>
  BY DEF TakeConnection, sessionHistory
<1>2. queue # <<>>
  BY <1>1, SessionFacts DEF ExchangesOK, QueueInv
<1>3. CASE tr.socket = 0
  BY <1>1, <1>2, <1>3, UnsentInv DEF TakeConnection
<1>4. CASE tr.socket # 0
  <2>1. /\ ex' = [pc |-> "write", sock |-> tr.socket, gen |-> tr.gen, res |-> "none"]
        /\ UNCHANGED <<queue, results, sup>>
    BY <1>4 DEF TakeConnection
  <2>2. tr.socket \in Nat /\ tr.gen \in Nat
    BY SessionFacts DEF Transports
  <2>3. /\ ex' \in SessionExchanges /\ ex'.pc = "write" /\ ex'.sock = tr.socket /\ ex'.gen = tr.gen
        /\ ex'.res = "none"
    BY <2>1, <2>2 DEF SessionExchanges
  <2>4. ExchangeTypes'
    BY <1>1, <2>1, <2>3, SessionFacts DEF ExchangeTypes
  <2>5. QueueInv'
    BY <1>1, <1>2, <2>1, <2>3, SessionFacts DEF ExchangesOK, QueueInv
  <2>6. ActiveInv'
    <3>1. tr.socket < nextSocket
      BY SessionFacts DEF SocketInv
    <3>2. Head(queue).gen <= tr.gen
      <4>1. Head(queue) = queue[1] /\ 1 \in 1..Len(queue)
        BY <1>2, SessionFacts, TailFacts
      <4> QED
        BY <4>1, SessionFacts DEF ExchangesOK, QueueInv
    <3> QED
      BY <1>1, <1>4, <2>1, <2>2, <2>3, <3>1, <3>2 DEF ActiveInv
  <2>7. WireInv'
    BY <1>1, <2>1, <2>3, SessionFacts DEF ExchangesOK, WireInv
  <2>8. ArrivedInv'
    BY <1>1, <2>1, <2>3, SessionFacts DEF ExchangesOK, ArrivedInv
  <2>9. ExchangesOK'
    BY <2>5, <2>6, <2>7, <2>8 DEF ExchangesOK
  <2> QED
    BY <1>1, <2>1, <2>4, <2>9, SessionFacts, SameSession DEF SessionInv, ReplyOnOwnConnection
<1> QED
  BY <1>3, <1>4

LEMMA WriteDoneInv ==
  ASSUME SessionInv, WriteDone
  PROVE  SessionInv'
<1> DEFINE h == Head(queue).who
           v == [sock |-> ex.sock, who |-> h]
<1>1. /\ ex.pc = "write" /\ wire' = wire \cup {v} /\ arrived' = arrived \cup {h}
      /\ ex' = [ex EXCEPT !.pc = "await"]
      /\ UNCHANGED <<sup, tr, retired, open, nextSocket, queue, results, greeted, replies>>
  BY DEF WriteDone, Written
<1>2. /\ ex' \in SessionExchanges /\ ex'.pc = "await" /\ ex'.sock = ex.sock /\ ex'.gen = ex.gen
      /\ ex'.res = ex.res
  BY <1>1, SessionFacts DEF SessionExchanges
<1>3. queue # <<>> /\ Head(queue) \in Entries /\ Head(queue) = queue[1] /\ 1 \in 1..Len(queue)
  <2>1. queue # <<>>
    BY <1>1, SessionFacts DEF ExchangesOK, QueueInv
  <2> QED
    BY <2>1, SessionFacts, TailFacts
<1>4. v \in [sock : Nat, who : Whose] /\ v.sock = ex.sock /\ v.who = h
  BY <1>3, SessionFacts DEF Entries, SessionExchanges
<1> HIDE DEF v
<1>5. ExchangeTypes'
  BY <1>1, <1>2, <1>4, SessionFacts DEF ExchangeTypes
<1>6. QueueInv'
  BY <1>1, <1>3, SessionFacts DEF ExchangesOK, QueueInv
<1>7. ex.sock # 0 /\ ex.sock < nextSocket /\ (ex.sock = tr.socket => ex.res = "none")
  BY <1>1, SessionFacts DEF ExchangesOK, ActiveInv
<1>8. ActiveInv'
  BY <1>1, <1>2, SessionFacts DEF ExchangesOK, ActiveInv
<1>9. WireInv'
  BY <1>1, <1>2, <1>4, <1>7, SessionFacts DEF ExchangesOK, WireInv
<1>10. ArrivedInv'
  <2>1. h \in Requests => results[h] = "queued"
    BY <1>3, SessionFacts DEF ExchangesOK, QueueInv
  <2> QED
    BY <1>1, <1>2, <2>1, SessionFacts DEF ExchangesOK, ArrivedInv
<1>11. ExchangesOK'
  BY <1>6, <1>8, <1>9, <1>10 DEF ExchangesOK
<1> QED
  BY <1>1, <1>5, <1>11, SessionFacts, SameSession DEF SessionInv, ReplyOnOwnConnection

\* The exchange is given up, and its connection with it.
LEMMA GivesUpInv ==
  ASSUME SessionInv, ex.pc \in {"write", "await"}, GivesUp("unknown"), ~Resuming,
         wire' \subseteq wire \cup {[sock |-> ex.sock, who |-> Head(queue).who]},
         arrived' \subseteq arrived \cup {Head(queue).who}
  PROVE  SessionInv'
<1> DEFINE v == [sock |-> ex.sock, who |-> Head(queue).who]
           s == IF ex.gen = tr.gen THEN Dropped(sup) ELSE sup
<1>1. /\ IF ex.gen = tr.gen THEN Drop ELSE UNCHANGED <<tr, retired, open>>
      /\ sup' = Told(s, Head(queue).who, "unknown") /\ Finish("unknown")
      /\ nextSocket' = nextSocket /\ greeted' = greeted /\ replies' = replies
  BY DEF GivesUp
<1>2. queue # <<>> /\ Head(queue) \in Entries
  <2>1. queue # <<>>
    BY SessionFacts DEF ExchangesOK, QueueInv
  <2> QED
    BY <2>1, SessionFacts, TailFacts
<1>3. v \in [sock : Nat, who : Whose] /\ v.sock = ex.sock
  BY <1>2, SessionFacts DEF Entries, SessionExchanges
<1>4. s = sup \/ s = OnDisconnected(sup)
  BY DEF Dropped
<1>5. s \in Supervisors /\ s.disposed = sup.disposed /\ AsksAsBefore(s) /\ AskedOK(s, queue)
  BY <1>4, LostSupervisor
<1>6. Heard(s, sup', Head(queue).who, "unknown") /\ "unknown" \notin Controls
  BY <1>1, <1>5, ToldFacts DEF Controls
<1>7. sup' \in Supervisors /\ sup'.disposed = sup.disposed
  BY <1>5, <1>6 DEF Heard, SameStanding
<1>8. /\ tr' \in Transports /\ tr'.gen = tr.gen /\ SocketInv' /\ SupervisorOK(s, tr', greeted)
      /\ (tr'.socket = 0 \/ (tr'.socket = tr.socket /\ ex.gen # tr.gen))
  <2>1. CASE ex.gen = tr.gen /\ tr.socket # 0
    <3>1. LostConnection /\ SocketInv'
      BY <1>1, <1>7, <2>1, SessionFacts, DropFacts
    <3>2. sup.stopping /\ ~sup.disposed => sup.op = "shutdown"
      BY DEF Resuming, DisposeDue
    <3>3. s = OnDisconnected(sup)
      BY <2>1 DEF Dropped
    <3> QED
      BY <3>1, <3>2, <3>3, SessionFacts, LostOK DEF LostConnection
  <2>2. CASE ~(ex.gen = tr.gen /\ tr.socket # 0)
    <3>1. s = sup /\ UNCHANGED <<tr, retired, open>>
      BY <1>1, <2>2 DEF Dropped, Drop
    <3>2. SocketInv'
      BY <1>1, <1>7, <3>1, SessionFacts DEF SocketInv
    <3> QED
      BY <2>2, <3>1, <3>2, SessionFacts
  <2> QED
    BY <2>1, <2>2
<1>9. SupervisorOK(sup', tr', greeted)
  BY <1>1, <1>5, <1>6, <1>8, ToldOK
<1>10. AskedOK(sup', queue')
  BY <1>1, <1>2, <1>5, SessionFacts, ToldAsked DEF Finish
<1>11. ASSUME NEW w \in wire'
       PROVE  w \in [sock : Nat, who : Whose] /\ w.sock # 0 /\ w.sock < nextSocket /\ w.sock # tr'.socket
  <2>1. /\ ex.sock # 0 /\ ex.sock < nextSocket /\ (ex.sock = tr.socket => ex.gen = tr.gen)
    BY SessionFacts DEF ExchangesOK, ActiveInv
  <2>2. CASE w = v
    BY <1>3, <1>8, <2>1, <2>2
  <2>3. CASE w \in wire
    <3>1. w \in [sock : Nat, who : Whose] /\ w.sock # 0 /\ w.sock < nextSocket
          /\ (w.sock = tr.socket => ex.sock = tr.socket)
      BY <2>3, SessionFacts DEF ExchangesOK, WireInv, SessionTypes
    <3> QED
      BY <1>8, <2>1, <3>1
  <2> QED
    BY <1>11, <2>2, <2>3
<1>12. ExchangeTypes' /\ ExchangesOK'
  BY <1>1, <1>2, <1>8, <1>11, SessionFacts, FinishExchanges
<1> QED
  BY <1>1, <1>7, <1>8, <1>9, <1>10, <1>12, SessionFacts, SessionParts DEF SessionInv, ReplyOnOwnConnection

LEMMA WriteFailsInv ==
  ASSUME SessionInv, WriteFails, ~Resuming
  PROVE  SessionInv'
BY GivesUpInv DEF WriteFails, Written, WriteOutcome

LEMMA ResponseTimeoutInv ==
  ASSUME SessionInv, ResponseTimeout, ~Resuming
  PROVE  SessionInv'
BY GivesUpInv DEF ResponseTimeout

LEMMA ResponseArrivesInv ==
  ASSUME SessionInv, NEW v \in wire, ResponseArrives(v)
  PROVE  SessionInv'
<1>1. /\ wire' = wire \ {v} /\ ex' = IF Routes(v) THEN [ex EXCEPT !.res = v.who] ELSE ex
      /\ UNCHANGED <<sup, tr, retired, open, nextSocket, queue, results, greeted, arrived, replies>>
  BY DEF ResponseArrives, sessionHistory
<1>2. v.who \in Whose /\ v.sock # 0 /\ wire \subseteq [sock : Nat, who : Whose]
  BY SessionFacts DEF SessionTypes, ExchangesOK, WireInv
<1>3. Routes(v) => /\ ex.pc = "await" /\ ex.sock = tr.socket /\ v.who = Head(queue).who
                   /\ v.sock = tr.socket /\ ex.gen = tr.gen
  BY SessionFacts DEF Routes, ExchangesOK, WireInv
<1>4. /\ ex' \in SessionExchanges /\ ex'.pc = ex.pc /\ ex'.sock = ex.sock /\ ex'.gen = ex.gen
      /\ ex'.res = IF Routes(v) THEN v.who ELSE ex.res
  <2>1. CASE Routes(v)
    <3> DEFINE e == [ex EXCEPT !.res = v.who]
    <3>1. e \in SessionExchanges
      BY <1>2, SessionFacts DEF SessionExchanges
    <3>2. e.pc = ex.pc /\ e.sock = ex.sock /\ e.gen = ex.gen /\ e.res = v.who
      BY SessionFacts DEF SessionExchanges
    <3> QED
      BY <1>1, <2>1, <3>1, <3>2
  <2>2. CASE ~Routes(v)
    BY <1>1, <2>2, SessionFacts
  <2> QED
    BY <2>1, <2>2
<1>5. ExchangeTypes'
  BY <1>1, <1>2, <1>4, SessionFacts DEF ExchangeTypes
<1>6. QueueInv'
  BY <1>1, <1>4, SessionFacts DEF ExchangesOK, QueueInv
<1>7. ActiveInv'
  <2>1. v.who # "unknown"
    BY <1>2, NamesDiffer DEF Whose, Controls
  <2> QED
    BY <1>1, <1>3, <1>4, <2>1, SessionFacts DEF ExchangesOK, ActiveInv
<1>8. WireInv'
  <2> SUFFICES ASSUME NEW w \in wire, w # v
               PROVE  /\ w.sock # 0 /\ w.sock < nextSocket
                      /\ w.sock = tr.socket =>
                           /\ ex.pc = "await" /\ ex.sock = tr.socket /\ ex'.res = "none"
                           /\ w.who = Head(queue).who
    BY <1>1, <1>4 DEF WireInv
  <2>1. w.sock = tr.socket => ~Routes(v)
    <3>1. SUFFICES ASSUME w.sock = tr.socket, Routes(v) PROVE FALSE
      OBVIOUS
    <3>2. w.who = v.who /\ w.sock = v.sock
      BY <1>3, <3>1, SessionFacts DEF ExchangesOK, WireInv
    <3>3. w \in [sock : Nat, who : Whose] /\ v \in [sock : Nat, who : Whose]
      BY <1>2
    <3> QED
      BY <3>2, <3>3
  <2> QED
    BY <1>4, <2>1, SessionFacts DEF ExchangesOK, WireInv
<1>9. ArrivedInv'
  BY <1>1, <1>4, SessionFacts DEF ExchangesOK, ArrivedInv
<1>10. ExchangesOK'
  BY <1>6, <1>7, <1>8, <1>9 DEF ExchangesOK
<1> QED
  BY <1>1, <1>5, <1>10, SessionFacts, SameSession DEF SessionInv, ReplyOnOwnConnection

\* The supervisor accepts a sign-on only if the host accepted it on this connection.
LEMMA ExchangeEndsInv ==
  ASSUME SessionInv, ExchangeEnds
  PROVE  SessionInv'
<1> DEFINE h == Head(queue)
<1>1. /\ ex.pc = "await" /\ ex.res # "none" /\ Finish(ex.res)
      /\ UNCHANGED <<tr, retired, open, nextSocket, wire, arrived, replies>>
  BY DEF ExchangeEnds
<1>2. queue # <<>>
  BY <1>1, SessionFacts DEF ExchangesOK, QueueInv
<1>3. /\ h = queue[1] /\ 1 \in 1..Len(queue) /\ Len(queue) \in Nat
      /\ \A k \in 1..Len(queue) : k = 1 \/ k \in 2..Len(queue)
  BY <1>2, SessionFacts, TailFacts
<1>4. ex.res \in {"unknown", h.who}
  BY <1>1, SessionFacts DEF ExchangesOK, ActiveInv
<1>5. ASSUME sup.op = "establish", IsAnswer, sup.asked, ex.res \in Controls
      PROVE  h.who = "establish" /\ ex.res = "establish" /\ sup.gen = ex.gen
  <2>1. PICK k \in 1..Len(queue) : queue[k].who = sup.op /\ queue[k].gen = sup.gen
    BY <1>5, SessionFacts DEF AskedOK, IsAnswer
  <2>2. k = 1
    BY <1>3, <1>5, <2>1 DEF IsAnswer, Controls
  <2>3. h.who = "establish" /\ h.gen = sup.gen
    BY <1>3, <1>5, <2>1, <2>2
  <2>4. ex.res = "establish"
    BY <1>4, <1>5, <2>3 DEF Controls
  <2>5. sup.gen = tr.gen
    BY <1>5, SessionFacts DEF SupervisorOK
  <2>6. ex.gen <= tr.gen /\ h.gen <= ex.gen
    BY <1>1, SessionFacts DEF ExchangesOK, ActiveInv
  <2>7. ex.gen \in Nat /\ tr.gen \in Nat
    BY SessionFacts DEF SessionExchanges, Transports
  <2> QED
    BY <2>3, <2>4, <2>5, <2>6, <2>7
<1>6. /\ sup' \in Supervisors /\ sup'.disposed = sup.disposed /\ SupervisorOK(sup', tr, greeted')
      /\ AskedOK(sup', queue')
  <2>1. AsksAsBefore(sup) /\ queue' = Tail(queue)
    BY <1>1, LostSupervisor DEF Finish
  <2>2. CASE /\ sup' = Told(sup, h.who, ex.res)
             /\ greeted' = IF h.who = "establish" /\ IsAnswer /\ ex.res = "establish"
                           THEN greeted \cup {ex.gen} ELSE greeted
    <3>1. SupervisorOK(sup, tr, greeted')
      BY <2>2, SessionFacts, SameConnectionOK
    <3>2. sup.op = "establish" /\ IsAnswer /\ sup.asked /\ h.who \in Controls /\ ex.res \in Controls =>
            sup.gen \in greeted'
      BY <1>5, <2>2
    <3>3. SupervisorOK(sup', tr, greeted')
      BY <2>2, <3>1, <3>2, SessionFacts, ToldOK
    <3>4. Heard(sup, sup', h.who, ex.res)
      BY <2>2, SessionFacts, ToldFacts
    <3>5. AskedOK(sup', queue')
      BY <1>2, <2>1, <2>2, SessionFacts, ToldAsked
    <3> QED
      BY <3>3, <3>4, <3>5 DEF Heard, SameStanding
  <2>3. CASE sup' = Told(sup, h.who, "refused") /\ greeted' = greeted
    <3>1. "refused" \notin Controls
      BY DEF Controls
    <3>2. SupervisorOK(sup', tr, greeted')
      BY <2>3, <3>1, SessionFacts, ToldOK
    <3>3. Heard(sup, sup', h.who, "refused")
      BY <2>3, SessionFacts, ToldFacts
    <3>4. AskedOK(sup', queue')
      BY <1>2, <2>1, <2>3, SessionFacts, ToldAsked
    <3> QED
      BY <3>2, <3>3, <3>4 DEF Heard, SameStanding
  <2> QED
    BY <2>2, <2>3 DEF ExchangeEnds
<1>7. \A w \in wire' : w.sock # 0 /\ w.sock < nextSocket /\ w.sock # tr'.socket
  BY <1>1, SessionFacts DEF ExchangesOK, WireInv
<1>8. ExchangeTypes' /\ ExchangesOK'
  <2>1. ex.res = "notSent" => h.who \notin Requests
    BY <1>4, NamesDiffer
  <2> QED
    BY <1>1, <1>2, <1>4, <1>7, <2>1, SessionFacts, FinishExchanges DEF SessionTypes
<1> QED
  BY <1>1, <1>6, <1>8, SameSession DEF SessionInv, ReplyOnOwnConnection

LEMMA InboundInv ==
  ASSUME SessionInv, InboundArrives \/ Respond
  PROVE  SessionInv'
<1>1. UNCHANGED <<sup, tr, retired, open, nextSocket, queue, ex, wire, results, greeted, arrived>>
  BY DEF InboundArrives, Respond, sessionHistory
<1>2. ReplyOnOwnConnection'
  BY DEF InboundArrives, Respond, MayRespond, sessionHistory, SessionInv, ReplyOnOwnConnection
<1>3. ExchangeTypes' /\ ExchangesOK'
  BY <1>1, SessionFacts, KeptExchanges
<1> QED
  BY <1>1, <1>2, <1>3, SessionFacts, SameSession

-----------------------------------------------------------------------------
(* The supervisor's own steps.                                             *)

LEMMA TransportStartInv ==
  ASSUME SessionInv, TransportStart
  PROVE  SessionInv'
<1>1. /\ tr' = Connecting([tr EXCEPT !.started = TRUE], "connecting") /\ ~tr.disposed
      /\ UNCHANGED <<sup, retired, open, nextSocket, queue, ex, wire, results, greeted, arrived, replies>>
  BY DEF TransportStart, SupervisorOnly, sessionHistory
<1>2. SameConnection(tr, tr')
  BY <1>1, SessionFacts, StartedTransport
<1>3. SupervisorOK(sup, tr', greeted)
  BY <1>2, SessionFacts, SameConnectionOK DEF SameConnection
<1>4. ExchangeTypes' /\ ExchangesOK'
  BY <1>1, <1>2, SessionFacts, KeptExchanges DEF SameConnection
<1>5. SocketInv'
  BY <1>1, <1>2, SessionFacts, SameSockets
<1> QED
  BY <1>1, <1>2, <1>3, <1>4, <1>5, SessionFacts, SessionParts
     DEF SameConnection, SessionInv, ReplyOnOwnConnection

LEMMA SupervisorStartInv ==
  ASSUME SessionInv, SupervisorStart
  PROVE  SessionInv'
<1>1. /\ tr' = Connecting([tr EXCEPT !.started = TRUE], "connecting") /\ ~sup.disposed
      /\ UNCHANGED <<retired, open, nextSocket, queue, ex, wire, results, greeted, arrived, replies>>
  BY DEF SupervisorStart, SupervisorOnly, sessionHistory
<1>2. SameConnection(tr, tr')
  BY <1>1, SessionFacts, StartedTransport DEF SocketInv
<1>3. /\ sup' \in Supervisors /\ sup'.disposed = sup.disposed /\ sup'.running /\ sup'.state = "connecting"
      /\ sup'.gen = sup.gen /\ sup'.op = sup.op /\ sup'.asked = sup.asked /\ sup'.result = sup.result
      /\ sup'.timer = sup.timer /\ sup'.stopping = sup.stopping
  <2> DEFINE n == IF tr.socket # 0 THEN "connected" ELSE "waiting"
             w == [sup EXCEPT !.running = TRUE, !.state = "connecting", !.start = n]
  <2>1. sup' = w /\ n \in {"connected", "waiting"}
    BY DEF SupervisorStart
  <2> HIDE DEF n
  <2>2. w \in Supervisors
    BY ZenonT(60), <2>1, SessionFacts DEF Supervisors, SupervisorStates
  <2>3. w.disposed = sup.disposed /\ w.running /\ w.state = "connecting" /\ w.stopping = sup.stopping
    BY SessionFacts DEF Supervisors
  <2>4. w.gen = sup.gen /\ w.op = sup.op /\ w.asked = sup.asked
    BY SessionFacts DEF Supervisors
  <2>5. w.result = sup.result /\ w.timer = sup.timer
    BY SessionFacts DEF Supervisors
  <2> QED
    BY <2>1, <2>2, <2>3, <2>4, <2>5
<1>4. SupervisorOK(sup', tr, greeted)
  BY <1>1, <1>3, SessionFacts DEF SupervisorOK
<1>5. AskedOK(sup', queue')
  BY <1>1, <1>3, SessionFacts DEF AskedOK
<1>6. SupervisorOK(sup', tr', greeted)
  BY <1>2, <1>3, <1>4, SameConnectionOK DEF SameConnection
<1>7. ExchangeTypes' /\ ExchangesOK'
  BY <1>1, <1>2, SessionFacts, KeptExchanges DEF SameConnection
<1>8. SocketInv'
  BY <1>1, <1>2, <1>3, SessionFacts, SameSockets
<1> QED
  BY <1>1, <1>2, <1>3, <1>5, <1>6, <1>7, <1>8, SessionFacts, SessionParts
     DEF SameConnection, SessionInv, ReplyOnOwnConnection

\* A step of the supervisor that leaves the queue alone.
LEMMA SupervisorOnlyInv ==
  ASSUME SessionInv, SupervisorOnly, UNCHANGED <<tr, queue>>, sup' \in Supervisors,
         sup'.disposed = sup.disposed, SupervisorOK(sup', tr, greeted), AskedOK(sup', queue)
  PROVE  SessionInv'
<1>1. UNCHANGED <<tr, retired, open, nextSocket, queue, ex, wire, results, greeted, arrived, replies>>
  BY DEF SupervisorOnly, sessionHistory
<1>2. ExchangeTypes' /\ ExchangesOK'
  BY <1>1, SessionFacts, KeptExchanges
<1> QED
  BY <1>1, <1>2, SameSession DEF SessionInv, ReplyOnOwnConnection

LEMMA StartResumesInv ==
  ASSUME SessionInv, StartResumes
  PROVE  SessionInv'
<1> DEFINE s == [sup EXCEPT !.start = "done"]
<1>1. /\ sup' = IF tr.state = "connected" THEN ActivateGeneration(s, tr.gen) ELSE s
      /\ SupervisorOnly /\ UNCHANGED <<tr, queue>>
  BY DEF StartResumes
<1>2. Demoted(sup, s)
  BY SessionFacts, StartFacts
<1> HIDE DEF s
<1>3. s \in Supervisors /\ s.disposed = sup.disposed /\ SupervisorOK(s, tr, greeted) /\ AskedOK(s, queue)
  BY <1>2, SessionFacts, DemotedOK DEF Demoted, SameStanding
<1>4. CASE sup' = s
  BY <1>1, <1>3, <1>4, SupervisorOnlyInv
<1>5. CASE sup' # s
  <2> DEFINE w == ActivateGeneration(s, tr.gen)
  <2>1. sup' = w /\ tr.state = "connected" /\ tr.gen \in Nat
    BY <1>1, <1>5, SessionFacts DEF Transports
  <2>2. SameStanding(s, w) /\ ~w.asked
    BY <1>3, <1>5, <2>1, ActivateFacts
  <2>3. s.running => ~s.disposed
    BY <1>3 DEF SupervisorOK
  <2>4. SupervisorOK(w, tr, greeted)
    BY <1>3, <1>5, <2>1, <2>3, SessionFacts, ActivateOK
  <2> HIDE DEF w
  <2>5. AskedOK(sup', queue)
    BY <2>1, <2>2 DEF AskedOK
  <2> QED
    BY <1>1, <1>3, <2>1, <2>2, <2>4, <2>5, SupervisorOnlyInv DEF SameStanding
<1> QED
  BY <1>4, <1>5

LEMMA ControlAsksInv ==
  ASSUME SessionInv, ControlAsks
  PROVE  SessionInv'
<1>1. /\ sup.op # "" /\ ~sup.asked /\ sup.result = "none" /\ UNCHANGED tr /\ SupervisorOnly
      /\ sup.op \in Controls
  BY SessionFacts DEF ControlAsks, Supervisors
<1>2. CASE ~IsCurrentGeneration
  <2>1. sup' = [sup EXCEPT !.result = "failed"] /\ queue' = queue
    BY <1>2 DEF ControlAsks
  <2>2. FailedFacts(sup, sup')
    BY <2>1, SessionFacts, FailedResult
  <2> QED
    BY <1>1, <2>1, <2>2, SessionFacts, SupervisorOnlyInv DEF FailedFacts
<1>3. CASE IsCurrentGeneration
  <2> DEFINE e == [who |-> sup.op, gen |-> sup.gen]
             w == [sup EXCEPT !.asked = TRUE]
  <2>1. sup' = w /\ queue' = Append(queue, e)
    BY <1>3 DEF ControlAsks
  <2>2. /\ w \in Supervisors /\ w.running = sup.running /\ w.stopping = sup.stopping
        /\ w.disposed = sup.disposed
    BY SessionFacts DEF Supervisors
  <2>3. w.gen = sup.gen /\ w.op = sup.op /\ w.result = sup.result /\ w.timer = sup.timer /\ w.state = sup.state
    BY SessionFacts DEF Supervisors
  <2>4. e \in Entries /\ e.who = sup.op /\ e.gen = sup.gen
    BY <1>1, SessionFacts DEF Entries, Whose, Supervisors
  <2> HIDE DEF w, e
  <2>5. sup.running /\ ~sup.disposed /\ sup.gen = tr.gen /\ tr.gen \in Nat
    BY <1>3, SessionFacts DEF IsCurrentGeneration, Transports
  <2>6. SupervisorOK(w, tr, greeted)
    BY <1>1, <2>2, <2>3, <2>5, SessionFacts DEF SupervisorOK
  <2>7. AskedOK(w, Append(queue, e))
    BY <2>2, <2>3, <2>4, SessionFacts, AppendAsked
  <2>8. UNCHANGED <<tr, retired, open, nextSocket, ex, wire, results, greeted, arrived, replies>>
    BY <1>1 DEF SupervisorOnly, sessionHistory
  <2>9. e.gen <= tr.gen
    BY <2>4, <2>5
  <2>10. ExchangeTypes' /\ ExchangesOK'
    BY <1>1, <2>1, <2>4, <2>8, <2>9, SessionFacts, AppendExchanges
  <2> QED
    BY <2>1, <2>2, <2>6, <2>7, <2>8, <2>10, SameSession DEF SessionInv, ReplyOnOwnConnection
<1> QED
  BY <1>2, <1>3

LEMMA ControlTimeoutInv ==
  ASSUME SessionInv, ControlTimeout
  PROVE  SessionInv'
<1>1. sup' = [sup EXCEPT !.result = "failed"] /\ UNCHANGED <<tr, queue>> /\ SupervisorOnly
  BY DEF ControlTimeout
<1>2. FailedFacts(sup, sup')
  BY <1>1, SessionFacts, FailedResult
<1> QED
  BY <1>1, <1>2, SessionFacts, SupervisorOnlyInv DEF FailedFacts

LEMMA ControlContinuesInv ==
  ASSUME SessionInv, ControlContinues
  PROVE  SessionInv'
<1>1. UNCHANGED <<tr, queue>> /\ SupervisorOnly
  BY DEF ControlContinues
<1>2. CASE IsCurrentGeneration
  <2>1. sup' = ControlEnds(sup)
    BY <1>2 DEF ControlContinues
  <2>2. sup' \in Supervisors /\ SupervisorOK(sup', tr, greeted) /\ ~sup'.asked
    BY <1>2, <2>1, SessionFacts, ControlEndsOK DEF IsCurrentGeneration
  <2>3. sup'.disposed = sup.disposed
    BY <2>1, SessionFacts, ControlEndsFacts DEF Decided, SameStanding
  <2>4. AskedOK(sup', queue)
    BY <2>2 DEF AskedOK
  <2> QED
    BY <1>1, <2>2, <2>3, <2>4, SupervisorOnlyInv
<1>3. CASE ~IsCurrentGeneration
  <2> DEFINE w == [sup EXCEPT !.op = "", !.asked = FALSE, !.result = "none"]
  <2>1. sup' = w
    BY <1>3 DEF ControlContinues
  <2>2. w \in Supervisors
    BY SessionFacts DEF Supervisors
  <2>3. w.running = sup.running /\ w.stopping = sup.stopping /\ w.disposed = sup.disposed
    BY SessionFacts DEF Supervisors
  <2>4. w.gen = sup.gen /\ w.timer = sup.timer /\ w.state = sup.state
    BY SessionFacts DEF Supervisors
  <2>5. w.op = "" /\ ~w.asked
    BY SessionFacts DEF Supervisors
  <2> HIDE DEF w
  <2>6. SupervisorOK(w, tr, greeted) /\ AskedOK(w, queue)
    BY <2>3, <2>4, <2>5, SessionFacts DEF SupervisorOK, AskedOK
  <2> QED
    BY <1>1, <2>1, <2>2, <2>3, <2>6, SupervisorOnlyInv
<1> QED
  BY <1>2, <1>3

LEMMA TaskFiresInv ==
  ASSUME SessionInv, TaskFires
  PROVE  SessionInv'
<1>1. UNCHANGED <<tr, queue>> /\ SupervisorOnly /\ sup.timer # "none"
  BY DEF TaskFires
<1>2. CASE IsCurrentGeneration
  <2>1. sup' = TaskRuns(sup)
    BY <1>2 DEF TaskFires
  <2>2. /\ sup' \in Supervisors /\ SupervisorOK(sup', tr, greeted) /\ ~sup'.asked
        /\ sup'.disposed = sup.disposed
    BY <1>1, <1>2, <2>1, SessionFacts, TaskRunsOK DEF IsCurrentGeneration
  <2>3. AskedOK(sup', queue)
    BY <2>2 DEF AskedOK
  <2> QED
    BY <1>1, <2>2, <2>3, SupervisorOnlyInv
<1>3. CASE ~IsCurrentGeneration
  <2> DEFINE w == [sup EXCEPT !.timer = "none"]
  <2>1. sup' = w
    BY <1>3 DEF TaskFires
  <2>2. w \in Supervisors
    BY SessionFacts DEF Supervisors
  <2>3. w.running = sup.running /\ w.stopping = sup.stopping /\ w.disposed = sup.disposed
    BY SessionFacts DEF Supervisors
  <2>4. /\ w.gen = sup.gen /\ w.timer = "none" /\ w.state = sup.state /\ w.op = sup.op
        /\ w.asked = sup.asked /\ w.result = sup.result
    BY SessionFacts DEF Supervisors
  <2> HIDE DEF w
  <2>5. SupervisorOK(w, tr, greeted)
    BY <2>3, <2>4, SessionFacts DEF SupervisorOK
  <2>6. AskedOK(w, queue)
    BY <2>4, SessionFacts DEF AskedOK
  <2> QED
    BY <1>1, <2>1, <2>2, <2>3, <2>5, <2>6, SupervisorOnlyInv
<1> QED
  BY <1>2, <1>3

LEMMA SupervisorDisposeInv ==
  ASSUME SessionInv, SupervisorDispose
  PROVE  SessionInv'
<1> DEFINE v == InvalidateWork(sup)
           s == [v EXCEPT !.stopping = TRUE, !.state = "stopping"]
<1>1. /\ sup' = IF sup.gen > 0 /\ tr.state = "connected" THEN RunControl(s, "shutdown") ELSE s
      /\ UNCHANGED <<tr, queue>> /\ SupervisorOnly /\ ~sup.disposed
  BY DEF SupervisorDispose
<1>2. SameStanding(sup, v) /\ NoWork(v) /\ v.gen = sup.gen /\ v \in Supervisors
  BY SessionFacts, InvalidateFacts DEF SameStanding
<1> HIDE DEF v
<1>3. /\ s \in Supervisors /\ s.running = v.running /\ s.stopping /\ s.disposed = v.disposed
      /\ s.state = "stopping"
  BY <1>2 DEF Supervisors, SupervisorStates
<1>4. s.gen = v.gen /\ s.op = v.op /\ s.asked = v.asked /\ s.timer = v.timer /\ s.result = v.result
  BY <1>2 DEF Supervisors
<1> HIDE DEF s
<1>5. /\ s.running = sup.running /\ s.disposed = sup.disposed /\ s.gen = sup.gen /\ s.op = ""
      /\ ~s.asked /\ s.timer = "none" /\ s.result = "none"
  BY <1>2, <1>3, <1>4 DEF SameStanding, NoWork
<1>6. SupervisorOK(s, tr, greeted)
  BY <1>3, <1>5, SessionFacts DEF SupervisorOK
<1>7. CASE sup' = s
  <2>1. AskedOK(s, queue)
    BY <1>5 DEF AskedOK
  <2> QED
    BY <1>1, <1>3, <1>5, <1>6, <1>7, <2>1, SupervisorOnlyInv
<1>8. CASE sup' # s
  <2> DEFINE w == RunControl(s, "shutdown")
  <2>1. sup' = w /\ sup.gen > 0
    BY <1>1, <1>8
  <2>2. /\ SameStanding(s, w) /\ w.op = "shutdown" /\ ~w.asked /\ w.result = "none" /\ w.timer = s.timer
        /\ w.state = s.state /\ w.gen = s.gen
    BY <1>3, RunFacts DEF Controls
  <2> HIDE DEF w
  <2>3. sup.running
    <3>1. sup.gen # 0
      BY <2>1
    <3> QED
      BY <1>1, <3>1, SessionFacts DEF SupervisorOK
  <2>4. SupervisorOK(w, tr, greeted)
    BY <1>1, <1>3, <1>5, <1>6, <2>2, <2>3 DEF SupervisorOK, SameStanding
  <2>5. AskedOK(w, queue)
    BY <2>2 DEF AskedOK
  <2> QED
    BY <1>1, <1>5, <2>1, <2>2, <2>4, <2>5, SupervisorOnlyInv DEF SameStanding
<1> QED
  BY <1>7, <1>8

LEMMA DisposeContinuesInv ==
  ASSUME SessionInv, DisposeContinues
  PROVE  SessionInv'
<1>1. /\ open' = open \ {tr.socket} /\ retired' = retired \cup ({tr.socket} \ {0})
      /\ ex' = IF Pending THEN [ex EXCEPT !.res = "unknown"] ELSE ex
      /\ UNCHANGED <<nextSocket, queue, wire, results, greeted, arrived, replies>>
  BY DEF DisposeContinues, sessionHistory
<1>2. /\ sup' \in Supervisors /\ ~sup'.running /\ sup'.disposed = TRUE /\ sup'.state = "stopped" /\ sup'.op = ""
      /\ ~sup'.asked /\ sup'.result = "none" /\ sup'.timer = "none" /\ sup'.gen = sup.gen
  <2> DEFINE v == InvalidateWork(sup)
             w == [v EXCEPT !.running = FALSE, !.disposed = TRUE, !.state = "stopped"]
  <2>1. v \in Supervisors /\ NoWork(v) /\ v.gen = sup.gen
    BY SessionFacts, InvalidateFacts DEF SameStanding
  <2>2. sup' = w
    BY DEF DisposeContinues
  <2> HIDE DEF v
  <2>3. w \in Supervisors
    BY <2>1 DEF Supervisors, SupervisorStates
  <2>4. ~w.running /\ w.disposed = TRUE /\ w.state = "stopped"
    BY <2>1 DEF Supervisors
  <2>5. w.op = v.op /\ w.asked = v.asked /\ w.result = v.result /\ w.timer = v.timer /\ w.gen = v.gen
    BY <2>1 DEF Supervisors
  <2> HIDE DEF w
  <2> QED
    BY <2>1, <2>2, <2>3, <2>4, <2>5 DEF NoWork
<1>3. /\ tr' \in Transports /\ tr'.disposed = TRUE /\ ~tr'.timer /\ tr'.state = "disposed" /\ tr'.socket = 0
      /\ tr'.gen = tr.gen
  <2> DEFINE t == [tr EXCEPT !.disposed = TRUE, !.started = FALSE, !.timer = FALSE, !.state = "disposed", !.socket = 0]
  <2>1. tr' = t
    BY DEF DisposeContinues
  <2>2. t \in Transports
    BY SessionFacts DEF Transports
  <2>3. t.disposed = TRUE /\ ~t.timer /\ t.state = "disposed" /\ t.socket = 0 /\ t.gen = tr.gen
    BY SessionFacts DEF Transports
  <2> QED
    BY <2>1, <2>2, <2>3
<1>4. SupervisorOK(sup', tr', greeted) /\ AskedOK(sup', queue)
  <2>1. sup'.gen <= tr'.gen
    BY <1>2, <1>3, SessionFacts DEF SupervisorOK
  <2> QED
    BY <1>2, <2>1 DEF SupervisorOK, AskedOK
<1>5. TransportOK(tr')
  BY <1>3 DEF TransportOK
<1>6. SocketInv'
  <2>1. open' = {tr'.socket} \ {0} /\ tr'.socket < nextSocket'
    BY <1>1, <1>3, SessionFacts DEF SocketInv
  <2>2. \A k \in retired' : k \in Nat /\ k # 0 /\ k # tr'.socket /\ k < nextSocket'
    BY <1>1, <1>3, SessionFacts DEF SocketInv, Transports
  <2> QED
    BY <1>2, <1>3, <1>5, <2>1, <2>2 DEF SocketInv
<1>7. ExchangeTypes' /\ ExchangesOK'
  BY <1>1, <1>3, SessionFacts, LostExchanges
<1> QED
  BY <1>1, <1>2, <1>3, <1>4, <1>6, <1>7, SessionFacts, SessionParts DEF SessionInv, ReplyOnOwnConnection

-----------------------------------------------------------------------------
LEMMA SessionInitInv == SessionInit => SessionInv
<1> SUFFICES ASSUME SessionInit PROVE SessionInv
  OBVIOUS
<1>1. /\ sup = NewSupervisor
      /\ tr = [state |-> "idle", gen |-> 0, socket |-> 0, timer |-> FALSE, connecting |-> FALSE,
               started |-> FALSE, disposed |-> FALSE]
  BY DEF SessionInit
<1>2. /\ nextSocket = 1 /\ queue = <<>> /\ ex = NoExchange /\ wire = {} /\ open = {}
      /\ retired = {} /\ results = [r \in Requests |-> "new"] /\ arrived = {} /\ replies = {}
  BY DEF SessionInit
<1>3. /\ sup \in Supervisors /\ ~sup.running /\ sup.disposed = FALSE /\ sup.op = "" /\ ~sup.asked
      /\ sup.timer = "none" /\ sup.state = "stopped" /\ sup.gen = 0 /\ sup.result = "none"
  BY <1>1 DEF NewSupervisor, Supervisors, SupervisorStates
<1>4. /\ tr \in Transports /\ tr.socket = 0 /\ tr.gen = 0 /\ tr.state = "idle" /\ ~tr.connecting
      /\ tr.disposed = FALSE
  BY <1>1 DEF Transports
<1>5. SessionTypes
  <2>1. queue \in Seq(Entries)
    BY <1>2
  <2>2. results \in [Requests -> Outcomes]
    BY <1>2 DEF Outcomes
  <2>3. ex \in SessionExchanges /\ wire \subseteq [sock : Nat, who : Whose] /\ nextSocket \in Nat \ {0}
    BY <1>2, NoExchangeFacts
  <2> QED
    BY <1>3, <1>4, <2>1, <2>2, <2>3 DEF SessionTypes
<1>6. SocketInv
  <2>1. TransportOK(tr)
    BY <1>4, Zenon DEF TransportOK
  <2>2. open = {tr.socket} \ {0}
    BY <1>2, <1>4
  <2>3. tr.socket < nextSocket
    BY <1>2, <1>4
  <2> QED
    BY <1>2, <1>3, <1>4, <2>1, <2>2, <2>3, Zenon DEF SocketInv
<1>7. QueueInv /\ ActiveInv /\ WireInv /\ ArrivedInv
  <2>1. Len(queue) = 0
    BY <1>2
  <2> QED
    BY <1>2, <2>1, NoExchangeFacts DEF QueueInv, ActiveInv, WireInv, ArrivedInv
<1>8. SupervisorInv
  <2>1. sup.gen <= tr.gen
    <3>1. sup.gen = 0 /\ tr.gen = 0
      BY <1>3, <1>4, Zenon
    <3> QED
      BY <3>1
  <2>2. SupervisorOK(sup, tr, greeted)
    BY <1>3, <2>1, Zenon DEF SupervisorOK
  <2>3. AskedOK(sup, queue)
    BY <1>3, Zenon DEF AskedOK
  <2> QED
    BY <2>2, <2>3 DEF SupervisorInv
<1> QED
  BY <1>2, <1>5, <1>6, <1>7, <1>8 DEF SessionInv, ReplyOnOwnConnection

LEMMA SessionStepInv ==
  ASSUME SessionInv, [SessionNext]_sessionVars
  PROVE  SessionInv'
<1>1. CASE UNCHANGED sessionVars
  BY <1>1 DEF sessionVars, SessionInv, SessionTypes, SocketInv, QueueInv, ActiveInv, WireInv,
     ArrivedInv, SupervisorInv, ReplyOnOwnConnection
<1>2. CASE PromiseStep
  BY <1>2, DequeueInv, TakeConnectionInv, ExchangeEndsInv, StartResumesInv, ControlAsksInv,
     ControlContinuesInv, DisposeContinuesInv DEF PromiseStep
<1>3. CASE NativeStep
  BY <1>3, ConnectSucceedsInv, ConnectFailsInv, ReconnectTimerInv, WriteDoneInv, WriteFailsInv,
     TaskFiresInv, ResponseArrivesInv DEF NativeStep
<1>4. CASE EnvironmentStep
  BY <1>4, SupervisorDisposeInv, ConnectionLostInv, ResponseTimeoutInv, ControlTimeoutInv,
     SupervisorStartInv, TransportStartInv, InboundInv, SubmitInv DEF EnvironmentStep
<1> QED
  BY <1>1, <1>2, <1>3, <1>4 DEF SessionNext, SessionStep

\* The parts of what the channels promise that are about the persistent session.
LEMMA SessionIsHonest ==
  ASSUME SessionInv
  PROVE  SessionTypeOK /\ ReadyIsSignedOn /\ ResponseIsOwn /\ NotSentIsTrue /\ ReplyOnOwnConnection
<1>1. SessionTypeOK
  BY SessionFacts DEF SessionTypeOK, SocketInv, TransportOK, Supervisors
<1>2. ReadyIsSignedOn
  BY SessionFacts DEF ReadyIsSignedOn, Available, SupervisorOK
<1>3. ResponseIsOwn /\ NotSentIsTrue
  BY SessionFacts DEF ResponseIsOwn, NotSentIsTrue, ExchangesOK, ArrivedInv
<1> QED
  BY <1>1, <1>2, <1>3 DEF SessionInv

-----------------------------------------------------------------------------
(* The framing of a stream.                                                *)

\* A set of natural numbers that is not empty has a least element.
LEMMA LeastNumber ==
  ASSUME NEW S \in SUBSET Nat, S # {}
  PROVE  \E i \in S : \A j \in S : i <= j
<1> DEFINE R == {ss \in Nat \X Nat : ss[1] < ss[2]}
<1>1. IsWellFoundedOn(R, Nat)
  BY NatLessThanWellFounded DEF OpToRel
<1>2. PICK i \in S : \A j \in S : ~(<<j, i>> \in R)
  <2> HIDE DEF R
  <2> QED BY <1>1, WFMin
<1>3. ASSUME NEW j \in S PROVE i <= j
  <2>1. i \in Nat /\ j \in Nat
    OBVIOUS
  <2>2. j < i => <<j, i>> \in R
    BY <2>1
  <2> QED
    BY <1>2, <2>1, <2>2
<1> QED
  BY <1>3

\* Induction up to N, over a set of numbers.
LEMMA UpTo ==
  ASSUME NEW N \in Nat, NEW P \in SUBSET (0..N), 0 \in P, \A n \in P : n < N => n + 1 \in P
  PROVE  P = 0..N
<1> SUFFICES ASSUME (0..N) \ P # {} PROVE FALSE
  OBVIOUS
<1>1. (0..N) \ P \in SUBSET Nat
  OBVIOUS
<1>2. PICK i \in (0..N) \ P : \A j \in (0..N) \ P : i <= j
  BY <1>1, LeastNumber
<1>3. i - 1 \in 0..N /\ i - 1 < i /\ i - 1 < N /\ (i - 1) + 1 = i
  BY <1>2
<1>4. i - 1 \in P
  BY <1>2, <1>3
<1> QED  BY <1>2, <1>3, <1>4

\* What holds at first and is kept by every step holds of every iterate.
LEMMA IteratesIn ==
  ASSUME NEW X, NEW N \in Nat, NEW g, g[0] \in X, \A n \in 1..N : g[n - 1] \in X => g[n] \in X
  PROVE  \A n \in 0..N : g[n] \in X
<1> DEFINE P == {n \in 0..N : g[n] \in X}
<1>1. 0 \in P
  OBVIOUS
<1>2. ASSUME NEW n \in P, n < N PROVE n + 1 \in P
  <2>1. n + 1 \in 1..N /\ n + 1 \in 0..N /\ (n + 1) - 1 = n
    BY <1>2
  <2> QED  BY <2>1
<1>3. P \in SUBSET (0..N)
  OBVIOUS
<1> HIDE DEF P
<1>4. P = 0..N
  BY <1>1, <1>2, <1>3, UpTo
<1> QED  BY <1>4 DEF P

\* A step can be iterated N times: the recursive functions of this module exist.
Iterates(g, X, b, N, F) == g \in [0..N -> X] /\ g[0] = b /\ \A n \in 1..N : g[n] = F[<<g[n - 1], n>>]

LEMMA IteratesExist ==
  ASSUME NEW X, NEW b \in X, NEW N \in Nat, NEW F \in [X \X Nat -> X]
  PROVE  \E g : Iterates(g, X, b, N, F)
<1> DEFINE ok(g, m) == g \in [0..m -> X] /\ g[0] = b /\ \A n \in 1..m : g[n] = F[<<g[n - 1], n>>]
           P == {m \in 0..N : \E g : ok(g, m)}
<1>1. 0 \in P
  <2>1. ok([n \in 0..0 |-> b], 0)
    OBVIOUS
  <2> HIDE DEF ok
  <2> QED  BY <2>1
<1>2. ASSUME NEW m \in P, m < N PROVE m + 1 \in P
  <2>1. PICK g : ok(g, m)
    OBVIOUS
  <2> DEFINE h == [n \in 0..(m + 1) |-> IF n = m + 1 THEN F[<<g[m], m + 1>>] ELSE g[n]]
  <2>2. m \in Nat /\ m + 1 \in 0..N /\ m \in 0..m
    BY <1>2
  <2>3. F[<<g[m], m + 1>>] \in X
    BY <2>1, <2>2
  <2>4. ASSUME NEW n \in 0..(m + 1) PROVE h[n] \in X /\ (n # m + 1 => n \in 0..m /\ h[n] = g[n])
    <3>1. n # m + 1 => n \in 0..m
      BY <2>2
    <3> QED  BY <2>1, <2>3, <3>1
  <2>5. h[0] = b
    BY <2>1, <2>2
  <2>6. ASSUME NEW n \in 1..(m + 1) PROVE h[n] = F[<<h[n - 1], n>>]
    <3>1. n \in 0..(m + 1) /\ n - 1 \in 0..(m + 1) /\ n - 1 # m + 1 /\ (n = m + 1 => n - 1 = m)
          /\ (n # m + 1 => n \in 1..m)
      BY <2>2
    <3>2. h[n - 1] = g[n - 1]
      BY <2>4, <3>1
    <3>3. CASE n = m + 1
      BY <3>1, <3>2, <3>3
    <3>4. CASE n # m + 1
      <4>1. h[n] = g[n]
        BY <2>4, <3>1, <3>4
      <4>2. g[n] = F[<<g[n - 1], n>>]
        BY <2>1, <3>1, <3>4
      <4> QED  BY <3>2, <4>1, <4>2
    <3> QED  BY <3>3, <3>4
  <2>7. h \in [0..(m + 1) -> X]
    BY <2>4
  <2> HIDE DEF h
  <2>8. ok(h, m + 1)
    BY <2>5, <2>6, <2>7
  <2> HIDE DEF ok
  <2> QED  BY <2>2, <2>8
<1>3. P \in SUBSET (0..N)
  OBVIOUS
<1> HIDE DEF P
<1>4. P = 0..N
  BY <1>1, <1>2, <1>3, UpTo
<1>5. N \in P
  BY <1>4
<1> QED  BY <1>5 DEF P, Iterates
\* The facts about frame options that proofs use.
LEMMA Options ==
  ASSUME NEW f \in FrameOptions
  PROVE  /\ f.header \in Seq(Bytes) /\ Len(f.header) \in Nat
         /\ f.encoding \in {"ascii", "bcd"} /\ Base(f.encoding) \in {10, 100}
         /\ f.lengthBytes \in Nat /\ f.lengthBytes >= 1
         /\ f.maxFrameBytes \in Nat /\ IncludedOverhead(f) \in Nat
<1>1. f.header \in Seq(Bytes) /\ f.encoding \in {"ascii", "bcd"} /\ f.maxFrameBytes \in Nat
  BY FrameAssumption
<1>2. f.lengthBytes \in 1..(IF f.encoding = "ascii" THEN 9 ELSE 6)
  BY FrameAssumption
<1>3. f.lengthBytes \in Nat /\ f.lengthBytes >= 1
  BY <1>1, <1>2
<1>4. Len(f.header) \in Nat
  BY <1>1, LenProperties
<1>5. Base(f.encoding) \in {10, 100}
  BY <1>1 DEF Base
<1>6. IncludedOverhead(f) \in Nat
  BY <1>3, <1>4 DEF IncludedOverhead
<1> QED  BY <1>1, <1>3, <1>4, <1>5, <1>6

LEMMA QuotientsAre ==
  ASSUME NEW f \in FrameOptions, NEW value \in Nat
  PROVE  /\ Quotients(value, f)[0] = value
         /\ \A k \in 0..f.lengthBytes : Quotients(value, f)[k] \in Nat
         /\ \A k \in 1..f.lengthBytes : Quotients(value, f)[k] = Quotients(value, f)[k - 1] \div Base(f.encoding)
<1> DEFINE N == f.lengthBytes
           B == Base(f.encoding)
           is(g) == g = [k \in 0..N |-> IF k = 0 THEN value ELSE g[k - 1] \div B]
           q == CHOOSE g : is(g)
<1>1. N \in Nat /\ B \in {10, 100} /\ 0 \in 0..N
  BY Options
<1> HIDE DEF N, B
<1>2. \A m \in Nat : m \div B \in Nat
  BY <1>1
<1>3. \E g : is(g)
  <2> DEFINE F == [x \in Nat \X Nat |-> x[1] \div B]
  <2>1. F \in [Nat \X Nat -> Nat]
    BY <1>2
  <2>2. \A m, n \in Nat : F[<<m, n>>] = m \div B
    OBVIOUS
  <2> HIDE DEF F
  <2>3. PICK g : Iterates(g, Nat, value, N, F)
    <3> DEFINE X == Nat
    <3>1. N \in Nat /\ value \in X
      BY <1>1
    <3>2. F \in [X \X Nat -> X]
      BY <2>1
    <3> HIDE DEF X
    <3>3. \E g : Iterates(g, X, value, N, F)
      BY <3>1, <3>2, IteratesExist
    <3> QED  BY <3>3 DEF X
  <2>30. g[0] = value /\ (\A n \in 0..N : g[n] \in Nat) /\ g = [n \in 0..N |-> g[n]]
         /\ \A n \in 1..N : g[n] = F[<<g[n - 1], n>>]
    BY <2>3 DEF Iterates
  <2>4. ASSUME NEW n \in 0..N PROVE g[n] = IF n = 0 THEN value ELSE g[n - 1] \div B
    <3>1. CASE n # 0
      <4>1. n \in 1..N /\ n - 1 \in 0..N /\ n \in Nat
        BY <1>1, <3>1
      <4> QED  BY <2>2, <2>30, <3>1, <4>1
    <3> QED  BY <2>30, <3>1
  <2>5. is(g)
    BY <2>4, <2>30
  <2> QED  BY <2>5
<1>4. is(q)
  BY <1>3
<1>5. Quotients(value, f) = q
  BY DEF Quotients, N, B
<1> HIDE DEF q
<1>6. q[0] = value /\ \A k \in 1..N : q[k] = q[k - 1] \div B
  <2>1. \A k \in 1..N : k \in 0..N /\ k # 0
    BY <1>1
  <2> QED  BY <1>1, <1>4, <2>1
<1>7. \A k \in 0..N : q[k] \in Nat
  <2>1. q[0] \in Nat
    BY <1>6
  <2>2. \A k \in 1..N : q[k - 1] \in Nat => q[k] \in Nat
    BY <1>2, <1>6
  <2>3. N \in Nat
    BY <1>1
  <2> QED  BY <2>1, <2>2, <2>3, IteratesIn, Zenon
<1> QED  BY <1>5, <1>6, <1>7 DEF N, B

\* The value that DecodeLength reads, figure by figure.
LEMMA ValueOf ==
  ASSUME NEW f \in FrameOptions, NEW bytes \in Seq(Bytes)
  PROVE  /\ DecodeLength(bytes, f.encoding) \in Int
         /\ (\E k \in 1..Len(bytes) : ~IsFigure(bytes[k], f.encoding)) => DecodeLength(bytes, f.encoding) = -1
         /\ (\A k \in 1..Len(bytes) : IsFigure(bytes[k], f.encoding)) =>
              \E v \in [0..Len(bytes) -> Int] :
                /\ v[0] = 0 /\ DecodeLength(bytes, f.encoding) = v[Len(bytes)]
                /\ \A k \in 1..Len(bytes) : v[k] = v[k - 1] * Base(f.encoding) + FigureOf(bytes[k], f.encoding)
<1> DEFINE N == Len(bytes)
           B == Base(f.encoding)
           fig(k) == FigureOf(bytes[k], f.encoding)
           is(g) == g = [k \in 0..N |-> IF k = 0 THEN 0 ELSE g[k - 1] * B + fig(k)]
           v == CHOOSE g : is(g)
<1>1. N \in Nat /\ B \in {10, 100} /\ 0 \in 0..N /\ N \in 0..N
  BY Options
<1>2. \A k \in 1..N : fig(k) \in Int
  <2>0. \A k \in 1..N : bytes[k] \in Bytes
    BY ElementOfSeq
  <2>01. \A x \in Bytes : x \in Nat
    BY DEF Bytes
  <2>1. \A k \in 1..N : bytes[k] \in Nat
    BY <2>0, <2>01
  <2> QED  BY <2>1 DEF FigureOf, Zero
<1> HIDE DEF N, B, fig
<1>3. \A x \in Int, k \in 1..N : x * B + fig(k) \in Int
  BY <1>1, <1>2
<1>4. \E g : is(g)
  <2> DEFINE F == [x \in Int \X Nat |-> IF x[2] \in 1..N THEN x[1] * B + fig(x[2]) ELSE 0]
  <2>1. F \in [Int \X Nat -> Int]
    BY <1>3
  <2>2. \A m \in Int, n \in 1..N : F[<<m, n>>] = m * B + fig(n)
    BY <1>1
  <2> HIDE DEF F
  <2>3. PICK g : Iterates(g, Int, 0, N, F)
    <3> DEFINE X == Int
    <3>1. N \in Nat /\ 0 \in X
      BY <1>1
    <3>2. F \in [X \X Nat -> X]
      BY <2>1
    <3> HIDE DEF X
    <3>3. \E g : Iterates(g, X, 0, N, F)
      BY <3>1, <3>2, IteratesExist
    <3> QED  BY <3>3 DEF X
  <2>30. g[0] = 0 /\ (\A n \in 0..N : g[n] \in Int) /\ g = [n \in 0..N |-> g[n]]
         /\ \A n \in 1..N : g[n] = F[<<g[n - 1], n>>]
    BY <2>3 DEF Iterates
  <2>4. ASSUME NEW n \in 0..N PROVE g[n] = IF n = 0 THEN 0 ELSE g[n - 1] * B + fig(n)
    <3>1. CASE n # 0
      <4>1. n \in 1..N /\ n - 1 \in 0..N
        BY <1>1, <3>1
      <4> QED  BY <2>2, <2>30, <3>1, <4>1
    <3> QED  BY <2>30, <3>1
  <2>5. is(g)
    BY <2>4, <2>30
  <2> QED  BY <2>5
<1>5. is(v)
  BY <1>4
<1>6. DecodeLength(bytes, f.encoding) = IF \A k \in 1..N : IsFigure(bytes[k], f.encoding) THEN v[N] ELSE -1
  BY DEF DecodeLength, N, B, fig
<1> HIDE DEF v
<1>7. v[0] = 0 /\ \A k \in 1..N : v[k] = v[k - 1] * B + fig(k)
  <2>1. \A k \in 1..N : k \in 0..N /\ k # 0
    BY <1>1
  <2> QED  BY <1>1, <1>5, <2>1
<1>8. \A k \in 0..N : v[k] \in Int
  <2>1. v[0] \in Int
    BY <1>7
  <2>2. ASSUME NEW n \in 1..N, v[n - 1] \in Int PROVE v[n] \in Int
    BY <1>3, <1>7, <2>2
  <2>3. N \in Nat
    BY <1>1
  <2> QED  BY <2>1, <2>2, <2>3, IteratesIn, Zenon
<1>9. v \in [0..N -> Int]
  BY <1>5, <1>8
<1>10. DecodeLength(bytes, f.encoding) \in Int
  BY <1>1, <1>6, <1>8
<1>11. (\E k \in 1..N : ~IsFigure(bytes[k], f.encoding)) => DecodeLength(bytes, f.encoding) = -1
  BY <1>6
<1>12. (\A k \in 1..N : IsFigure(bytes[k], f.encoding)) =>
         /\ v[0] = 0 /\ DecodeLength(bytes, f.encoding) = v[N]
         /\ \A k \in 1..N : v[k] = v[k - 1] * B + fig(k)
  BY <1>6, <1>7
<1> QED  BY <1>9, <1>10, <1>11, <1>12 DEF N, B, fig

\* A length that fits its digits is read as it was written.
LEMMA LengthSurvives ==
  ASSUME NEW f \in FrameOptions, NEW value \in Nat, Quotients(value, f)[f.lengthBytes] = 0
  PROVE  /\ EncodeLength(value, f) \in Seq(Bytes) /\ Len(EncodeLength(value, f)) = f.lengthBytes
         /\ DecodeLength(EncodeLength(value, f), f.encoding) = value
<1> DEFINE N == f.lengthBytes
           e == f.encoding
           B == Base(e)
           q == Quotients(value, f)
           bytes == EncodeLength(value, f)
<1>1. N \in Nat /\ N >= 1 /\ e \in {"ascii", "bcd"}
  BY Options
<1>2. q[0] = value /\ (\A k \in 0..N : q[k] \in Nat) /\ \A k \in 1..N : q[k] = q[k - 1] \div B
  BY QuotientsAre
<1>3. \A n \in 0..(B - 1) : ByteOf(n, e) \in Bytes /\ IsFigure(ByteOf(n, e), e) /\ FigureOf(ByteOf(n, e), e) = n
  <2>1. CASE e = "ascii"
    BY <2>1 DEF ByteOf, IsFigure, FigureOf, Base, Bytes, Zero
  <2>2. CASE e = "bcd"
    <3>1. ASSUME NEW n \in 0..99
          PROVE  LET b == (n \div 10) * 16 + (n % 10)
                 IN b \in 0..255 /\ b \div 16 = n \div 10 /\ b % 16 = n % 10 /\ n \div 10 <= 9 /\ n % 10 <= 9
                    /\ (n \div 10) * 10 + (n % 10) = n
      OBVIOUS
    <3> QED  BY <2>2, <3>1 DEF ByteOf, IsFigure, FigureOf, Base, Bytes
  <2> QED  BY <1>1, <2>1, <2>2
<1>4. B \in {10, 100}
  BY Options
<1>5. bytes = [k \in 1..N |-> ByteOf(q[N - k] % B, e)]
  BY DEF EncodeLength
<1> HIDE DEF N, e, B, q, bytes
<1>6. \A k \in 1..N : N - k \in 0..N /\ q[N - k] % B \in 0..(B - 1)
  BY <1>1, <1>2, <1>4
<1>7. \A k \in 1..N : bytes[k] \in Bytes /\ IsFigure(bytes[k], e) /\ FigureOf(bytes[k], e) = q[N - k] % B
  BY <1>3, <1>5, <1>6
<1>8. bytes \in Seq(Bytes) /\ Len(bytes) = N
  <2>1. bytes \in [1..N -> Bytes]
    BY <1>5, <1>7
  <2> QED  BY <1>1, <2>1, SeqDef
<1>9. PICK v \in [0..N -> Int] :
        /\ v[0] = 0 /\ DecodeLength(bytes, e) = v[N]
        /\ \A k \in 1..N : v[k] = v[k - 1] * B + FigureOf(bytes[k], e)
  <2>1. \A k \in 1..Len(bytes) : IsFigure(bytes[k], e)
    BY <1>7, <1>8
  <2> QED  BY <1>8, <2>1, ValueOf DEF e, B
<1>10. \A k \in 0..N : k \in 0..N /\ v[k] = q[N - k]
  <2> DEFINE P == {k \in 0..N : v[k] = q[N - k]}
  <2>1. 0 \in P
    BY <1>1, <1>9 DEF q, N
  <2>2. ASSUME NEW k \in P, k < N PROVE k + 1 \in P
    <3>1. k \in Nat /\ k + 1 \in 1..N /\ k + 1 \in 0..N /\ (k + 1) - 1 = k
          /\ N - k \in 1..N /\ (N - k) - 1 = N - (k + 1) /\ N - (k + 1) \in 0..N
      BY <1>1, <2>2
    <3>2. v[k + 1] = v[k] * B + (q[N - (k + 1)] % B)
      BY <1>7, <1>9, <3>1
    <3>3. v[k] = q[N - (k + 1)] \div B
      BY <1>2, <3>1
    <3>4. q[N - (k + 1)] \in Nat
      BY <1>2, <3>1
    <3>5. \A x \in Nat : (x \div B) * B + (x % B) = x
      BY <1>4
    <3> QED  BY <3>1, <3>2, <3>3, <3>4, <3>5
  <2>3. P \in SUBSET (0..N)
    OBVIOUS
  <2> HIDE DEF P
  <2>4. P = 0..N
    BY <1>1, <2>1, <2>2, <2>3, UpTo
  <2> QED  BY <2>4 DEF P
<1>11. DecodeLength(bytes, e) = value
  <2>1. N \in 0..N /\ N - N = 0
    BY <1>1
  <2> QED  BY <1>2, <1>9, <1>10, <2>1
<1> QED  BY <1>8, <1>11 DEF N, e, bytes

\* Two ways to cut the same bytes agree where both have them.
LEMMA SameCut ==
  ASSUME NEW a \in Seq(Bytes), NEW t \in Seq(Bytes), NEW b \in Seq(Bytes), NEW u \in Seq(Bytes), a \o t = b \o u
  PROVE  /\ Len(a) + Len(t) = Len(b) + Len(u)
         /\ \A k \in 1..Len(b) : k <= Len(a) => a[k] = b[k]
         /\ Len(b) <= Len(a) => SubSeq(a, Len(b) + 1, Len(a)) \o t = u
<1> DEFINE r == SubSeq(a, Len(b) + 1, Len(a))
           c == a \o t
           d == b \o u
<1>1. Len(a) \in Nat /\ Len(t) \in Nat /\ Len(b) \in Nat /\ Len(u) \in Nat
  BY LenProperties
<1>2. Len(c) = Len(a) + Len(t) /\ Len(d) = Len(b) + Len(u)
  BY ConcatProperties
<1>3. \A k \in 1..(Len(a) + Len(t)) : c[k] = IF k <= Len(a) THEN a[k] ELSE t[k - Len(a)]
  BY ConcatProperties
<1>4. \A k \in 1..(Len(b) + Len(u)) : d[k] = IF k <= Len(b) THEN b[k] ELSE u[k - Len(b)]
  BY ConcatProperties
<1>5. c = d
  OBVIOUS
<1> HIDE DEF c, d
<1>6. Len(a) + Len(t) = Len(b) + Len(u)
  BY <1>2, <1>5
<1>7. ASSUME NEW k \in 1..Len(b), k <= Len(a) PROVE a[k] = b[k]
  <2>1. k \in 1..(Len(a) + Len(t)) /\ k \in 1..(Len(b) + Len(u)) /\ k <= Len(b)
    BY <1>1, <1>7
  <2> QED  BY <1>3, <1>4, <1>5, <1>7, <2>1
<1>8. ASSUME Len(b) <= Len(a) PROVE r \o t = u
  <2>1. \A i \in (Len(b) + 1)..Len(a) : i \in 1..Len(a)
    BY <1>1
  <2>2. \A i \in (Len(b) + 1)..Len(a) : a[i] \in Bytes
    BY <2>1, ElementOfSeq
  <2>3. /\ r \in Seq(Bytes) /\ Len(r) = IF Len(b) + 1 <= Len(a) THEN Len(a) - (Len(b) + 1) + 1 ELSE 0
        /\ \A i \in 1..(Len(a) - (Len(b) + 1) + 1) : r[i] = a[(Len(b) + 1) + i - 1]
    BY <1>1, <2>2, SubSeqProperties
  <2> HIDE DEF r
  <2>4. Len(r) = Len(a) - Len(b)
    BY <1>1, <1>8, <2>3
  <2>5. \A i \in 1..Len(r) : r[i] = a[Len(b) + i]
    <3>1. \A i \in 1..Len(r) : i \in 1..(Len(a) - (Len(b) + 1) + 1) /\ (Len(b) + 1) + i - 1 = Len(b) + i
      BY <1>1, <2>4
    <3> QED  BY <2>3, <3>1
  <2>6. r \o t \in Seq(Bytes) /\ Len(r \o t) = Len(r) + Len(t)
        /\ \A i \in 1..(Len(r) + Len(t)) : (r \o t)[i] = IF i <= Len(r) THEN r[i] ELSE t[i - Len(r)]
    BY <2>3, ConcatProperties
  <2>7. Len(r \o t) = Len(u)
    BY <1>1, <1>6, <2>4, <2>6
  <2>8. ASSUME NEW i \in 1..Len(u) PROVE (r \o t)[i] = u[i]
    <3>1. /\ i \in 1..(Len(r) + Len(t)) /\ Len(b) + i \in 1..(Len(a) + Len(t)) /\ Len(b) + i \in 1..(Len(b) + Len(u))
          /\ ~(Len(b) + i <= Len(b)) /\ (Len(b) + i) - Len(b) = i
          /\ (i <= Len(r) <=> Len(b) + i <= Len(a)) /\ i - Len(r) = (Len(b) + i) - Len(a)
          /\ (i <= Len(r) => i \in 1..Len(r))
      BY <1>1, <1>6, <2>4
    <3>2. (r \o t)[i] = c[Len(b) + i]
      BY <1>3, <2>5, <2>6, <3>1
    <3>3. u[i] = d[Len(b) + i]
      BY <1>4, <3>1
    <3> QED  BY <1>5, <3>2, <3>3
  <2> QED  BY <2>6, <2>7, <2>8, SeqEqual
<1> QED  BY <1>6, <1>7, <1>8 DEF r

\* What the parts of a frame are.
LEMMA FrameIs ==
  ASSUME NEW f \in FrameOptions, NEW p \in Seq(Bytes), Encodable(p, f)
  PROVE  /\ EncodeFrame(p, f) \in Seq(Bytes)
         /\ Len(EncodeFrame(p, f)) = Len(f.header) + f.lengthBytes + Len(p)
         /\ Len(p) \in Nat /\ Len(EncodeFrame(p, f)) <= f.maxFrameBytes
         /\ \A k \in 1..Len(f.header) : EncodeFrame(p, f)[k] = f.header[k]
         /\ \E e \in Seq(Bytes) :
              /\ Len(e) = f.lengthBytes /\ DecodeLength(e, f.encoding) = Len(p) + IncludedOverhead(f)
              /\ \A k \in 1..f.lengthBytes : EncodeFrame(p, f)[Len(f.header) + k] = e[k]
         /\ \A k \in 1..Len(p) : EncodeFrame(p, f)[Len(f.header) + f.lengthBytes + k] = p[k]
<1> DEFINE h == f.header
           N == f.lengthBytes
           v == Len(p) + IncludedOverhead(f)
           e == EncodeLength(v, f)
           E == EncodeFrame(p, f)
<1>1. h \in Seq(Bytes) /\ Len(h) \in Nat /\ N \in Nat /\ IncludedOverhead(f) \in Nat
  BY Options
<1>2. Len(p) \in Nat
  BY LenProperties
<1>3. v \in Nat
  BY <1>1, <1>2
<1>4. e \in Seq(Bytes) /\ Len(e) = N /\ DecodeLength(e, f.encoding) = v
  <2>1. Quotients(v, f)[f.lengthBytes] = 0
    BY DEF Encodable
  <2> QED  BY <1>3, <2>1, LengthSurvives
<1>5. Len(h) + N + Len(p) <= f.maxFrameBytes
  BY DEF Encodable
<1>6. E = (h \o e) \o p
  BY DEF EncodeFrame
<1> HIDE DEF h, N, v, e, E
<1>7. /\ h \o e \in Seq(Bytes) /\ Len(h \o e) = Len(h) + Len(e)
      /\ \A i \in 1..(Len(h) + Len(e)) : (h \o e)[i] = IF i <= Len(h) THEN h[i] ELSE e[i - Len(h)]
  BY <1>1, <1>4, ConcatProperties
<1>8. /\ E \in Seq(Bytes) /\ Len(E) = Len(h \o e) + Len(p)
      /\ \A i \in 1..(Len(h \o e) + Len(p)) : E[i] = IF i <= Len(h \o e) THEN (h \o e)[i] ELSE p[i - Len(h \o e)]
  BY <1>6, <1>7, ConcatProperties
<1>9. Len(E) = Len(h) + N + Len(p) /\ Len(h \o e) = Len(h) + N
  BY <1>1, <1>2, <1>4, <1>7, <1>8
<1>10. ASSUME NEW k \in 1..Len(h) PROVE E[k] = h[k]
  <2>1. k \in 1..(Len(h) + Len(e)) /\ k <= Len(h) /\ k \in 1..(Len(h \o e) + Len(p)) /\ k <= Len(h \o e)
    BY <1>1, <1>2, <1>4, <1>9
  <2> QED  BY <1>7, <1>8, <2>1
<1>11. ASSUME NEW k \in 1..N PROVE E[Len(h) + k] = e[k]
  <2>1. /\ Len(h) + k \in 1..(Len(h) + Len(e)) /\ ~(Len(h) + k <= Len(h)) /\ (Len(h) + k) - Len(h) = k
        /\ Len(h) + k \in 1..(Len(h \o e) + Len(p)) /\ Len(h) + k <= Len(h \o e)
    BY <1>1, <1>2, <1>4, <1>9
  <2> QED  BY <1>7, <1>8, <2>1
<1>12. ASSUME NEW k \in 1..Len(p) PROVE E[Len(h) + N + k] = p[k]
  <2>1. /\ Len(h) + N + k \in 1..(Len(h \o e) + Len(p)) /\ ~(Len(h) + N + k <= Len(h \o e))
        /\ (Len(h) + N + k) - Len(h \o e) = k
    BY <1>1, <1>2, <1>4, <1>9
  <2> QED  BY <1>8, <2>1
<1>13. Len(E) <= f.maxFrameBytes
  BY <1>5, <1>9
<1> QED  BY <1>2, <1>4, <1>8, <1>9, <1>10, <1>11, <1>12, <1>13 DEF h, N, v, E

\* What the decoder returns.
LEMMA DecodedIs ==
  ASSUME NEW f \in FrameOptions, NEW bytes \in Seq(Bytes)
  PROVE  LET d == DecodeFrame(bytes, f)
         IN /\ d.status \in {"incomplete", "invalid", "complete"} /\ d.payload \in Seq(Bytes) /\ d.consumed \in Nat
            /\ d.status = "complete" => d.consumed \in 1..Len(bytes)
            /\ bytes = <<>> => d.status = "incomplete"
<1> DEFINE N == Len(f.header) + f.lengthBytes
           figures == SubSeq(bytes, Len(f.header) + 1, N)
           declared == DecodeLength(figures, f.encoding)
           size == declared - IncludedOverhead(f)
           total == N + size
           d == DecodeFrame(bytes, f)
           payload == SubSeq(bytes, N + 1, total)
<1>1. Len(f.header) \in Nat /\ N \in Nat /\ N >= 1 /\ IncludedOverhead(f) \in Nat /\ f.maxFrameBytes \in Nat
  BY Options
<1>2. Len(bytes) \in Nat /\ (bytes = <<>> => Len(bytes) = 0)
  BY LenProperties, EmptySeq
<1>3. d = CASE Len(bytes) < N -> Decoded("incomplete", <<>>, 0)
            [] Len(bytes) >= N /\ (~IsPrefix(f.header, bytes) \/ declared < 0) -> Decoded("invalid", <<>>, 0)
            [] OTHER -> CASE size < 0 \/ total > f.maxFrameBytes -> Decoded("invalid", <<>>, 0)
                          [] size >= 0 /\ total \in (Len(bytes) + 1)..f.maxFrameBytes -> Decoded("incomplete", <<>>, 0)
                          [] OTHER -> Decoded("complete", payload, total)
  BY DEF DecodeFrame
<1>4. Len(bytes) >= N => declared \in Int
  <2> SUFFICES ASSUME Len(bytes) >= N PROVE declared \in Int
    OBVIOUS
  <2>1. \A i \in (Len(f.header) + 1)..N : i \in 1..Len(bytes)
    BY <1>1, <1>2
  <2>2. \A i \in (Len(f.header) + 1)..N : bytes[i] \in Bytes
    BY <2>1, ElementOfSeq
  <2>3. figures \in Seq(Bytes)
    BY <1>1, <2>2, SubSeqProperties
  <2> QED  BY <2>3, ValueOf
<1>5. declared \in Int /\ Len(bytes) >= total /\ size >= 0 => payload \in Seq(Bytes) /\ total \in Nat
  <2> SUFFICES ASSUME declared \in Int, Len(bytes) >= total, size >= 0 PROVE payload \in Seq(Bytes) /\ total \in Nat
    OBVIOUS
  <2>1. total \in Nat
    BY <1>1
  <2>2. \A i \in (N + 1)..total : i \in 1..Len(bytes)
    BY <1>1, <1>2, <2>1
  <2>3. \A i \in (N + 1)..total : bytes[i] \in Bytes
    BY <2>2, ElementOfSeq
  <2>4. payload \in Seq(Bytes)
    BY <1>1, <2>1, <2>3, SubSeqProperties
  <2> QED  BY <2>1, <2>4
<1>6. declared \in Int => size \in Int /\ total = N + size
  BY <1>1
<1> HIDE DEF figures, declared, size, payload, d, N, total
<1>7. <<>> \in Seq(Bytes)
  BY EmptySeq
<1>8. \/ d = Decoded("incomplete", <<>>, 0)
      \/ d = Decoded("invalid", <<>>, 0) /\ Len(bytes) >= N
      \/ d = Decoded("complete", payload, total) /\ Len(bytes) >= N /\ size >= 0 /\ Len(bytes) >= total
  <2>1. CASE Len(bytes) < N
    BY <1>3, <2>1
  <2>2. CASE ~(Len(bytes) < N)
    <3>1. Len(bytes) >= N
      BY <1>1, <1>2, <2>2
    <3>2. declared \in Int /\ size \in Int /\ total \in Int
      BY <1>1, <1>4, <1>6, <3>1
    <3>3. CASE ~IsPrefix(f.header, bytes) \/ declared < 0
      BY <1>3, <2>2, <3>1, <3>3
    <3>4. CASE ~(~IsPrefix(f.header, bytes) \/ declared < 0)
      <4>1. d = CASE size < 0 \/ total > f.maxFrameBytes -> Decoded("invalid", <<>>, 0)
                  [] size >= 0 /\ total \in (Len(bytes) + 1)..f.maxFrameBytes -> Decoded("incomplete", <<>>, 0)
                  [] OTHER -> Decoded("complete", payload, total)
        BY <1>3, <2>2, <3>4
      <4>2. CASE size < 0 \/ total > f.maxFrameBytes
        <5>1. d = Decoded("invalid", <<>>, 0)
          BY <1>1, <1>2, <4>1, <4>2, <3>2
        <5> QED  BY <3>1, <5>1
      <4>3. CASE ~(size < 0 \/ total > f.maxFrameBytes)
        <5>1. size >= 0
          BY <4>3, <3>2
        <5>2. CASE Len(bytes) < total
          BY <1>1, <1>2, <3>2, <4>1, <4>3, <5>1, <5>2
        <5>3. CASE ~(Len(bytes) < total)
          <6>1. d = Decoded("complete", payload, total)
            BY <1>1, <1>2, <3>2, <4>1, <4>3, <5>3
          <6>2. Len(bytes) >= total
            BY <5>3, <3>2, <1>2
          <6> QED  BY <3>1, <5>1, <6>1, <6>2
        <5> QED  BY <5>2, <5>3
      <4> QED  BY <4>2, <4>3
    <3> QED  BY <3>3, <3>4
  <2> QED  BY <2>1, <2>2
<1>9. CASE d = Decoded("incomplete", <<>>, 0)
  BY <1>7, <1>9 DEF d, Decoded
<1>10. CASE d = Decoded("invalid", <<>>, 0) /\ Len(bytes) >= N
  <2>1. bytes # <<>>
    BY <1>1, <1>2, <1>10
  <2> QED  BY <1>7, <1>10, <2>1 DEF d, Decoded
<1>11. CASE d = Decoded("complete", payload, total) /\ Len(bytes) >= N /\ size >= 0 /\ Len(bytes) >= total
  <2>1. bytes # <<>>
    BY <1>1, <1>2, <1>11
  <2>2. declared \in Int
    BY <1>4, <1>11
  <2>3. payload \in Seq(Bytes) /\ total \in Nat /\ total >= 1 /\ total \in 1..Len(bytes)
    BY <1>1, <1>2, <1>5, <1>6, <1>11, <2>2
  <2> QED  BY <1>11, <2>1, <2>3 DEF d, Decoded
<1> QED  BY <1>8, <1>9, <1>10, <1>11

\* A slice of a sequence is what it is position by position.
LEMMA Slice ==
  ASSUME NEW s \in Seq(Bytes), NEW n \in Nat, NEW m \in Nat, n + m <= Len(s),
         NEW t \in Seq(Bytes), Len(t) = m, \A i \in 1..m : s[n + i] = t[i]
  PROVE  SubSeq(s, n + 1, n + m) = t
<1> DEFINE r == SubSeq(s, n + 1, n + m)
<1>1. Len(s) \in Nat
  BY LenProperties
<1>2. \A i \in (n + 1)..(n + m) : i \in 1..Len(s)
  BY <1>1
<1>3. \A i \in (n + 1)..(n + m) : s[i] \in Bytes
  BY <1>2, ElementOfSeq
<1>4. /\ r \in Seq(Bytes) /\ Len(r) = IF n + 1 <= n + m THEN (n + m) - (n + 1) + 1 ELSE 0
      /\ \A i \in 1..((n + m) - (n + 1) + 1) : r[i] = s[(n + 1) + i - 1]
  BY <1>3, SubSeqProperties
<1> HIDE DEF r
<1>5. Len(r) = m
  BY <1>4
<1>6. \A i \in 1..m : i \in 1..((n + m) - (n + 1) + 1) /\ (n + 1) + i - 1 = n + i
  OBVIOUS
<1>7. \A i \in 1..m : r[i] = t[i]
  BY <1>4, <1>6
<1>8. r = t
  BY <1>4, <1>5, <1>7, SeqEqual
<1> QED  BY <1>8 DEF r

\* One sequence begins as the other does, as far as both go.
Agree(a, b) == \A k \in 1..Len(b) : k <= Len(a) => a[k] = b[k]

\* A sequence that begins as a frame does decodes to that frame, once it is long enough.
LEMMA DecodeArrived ==
  ASSUME NEW f \in FrameOptions, NEW p \in Seq(Bytes), Encodable(p, f), NEW bytes \in Seq(Bytes),
         Agree(bytes, EncodeFrame(p, f))
  PROVE  LET d == DecodeFrame(bytes, f)
             n == Len(EncodeFrame(p, f))
         IN /\ Len(bytes) < n => d.status = "incomplete"
            /\ ~(Len(bytes) < n) => n <= Len(bytes) /\ n >= 1 /\ d.status = "complete" /\ d.payload = p /\ d.consumed = n
<1> DEFINE h == f.header
           N == Len(f.header) + f.lengthBytes
           figures == SubSeq(bytes, Len(f.header) + 1, N)
           declared == DecodeLength(figures, f.encoding)
           size == declared - IncludedOverhead(f)
           total == N + size
           d == DecodeFrame(bytes, f)
           payload == SubSeq(bytes, N + 1, total)
           E == EncodeFrame(p, f)
<1>1. /\ h \in Seq(Bytes) /\ Len(h) \in Nat /\ N \in Nat /\ N >= 1 /\ f.lengthBytes \in Nat
      /\ IncludedOverhead(f) \in Nat /\ f.maxFrameBytes \in Nat /\ N = Len(h) + f.lengthBytes
  BY Options
<1>2. Len(bytes) \in Nat /\ Len(p) \in Nat
  BY LenProperties
<1>3. /\ E \in Seq(Bytes) /\ Len(E) = N + Len(p) /\ Len(E) <= f.maxFrameBytes
      /\ \A k \in 1..Len(h) : E[k] = h[k]
      /\ \A k \in 1..Len(p) : E[N + k] = p[k]
  BY FrameIs
<1>4. PICK e \in Seq(Bytes) :
        /\ Len(e) = f.lengthBytes /\ DecodeLength(e, f.encoding) = Len(p) + IncludedOverhead(f)
        /\ \A k \in 1..f.lengthBytes : E[Len(h) + k] = e[k]
  BY FrameIs
<1>5. \A k \in 1..Len(E) : k <= Len(bytes) => bytes[k] = E[k]
  BY DEF Agree
<1>0. /\ Len(h) \in Nat /\ N \in Nat /\ N >= 1 /\ f.lengthBytes \in Nat /\ N = Len(h) + f.lengthBytes
      /\ IncludedOverhead(f) \in Nat /\ f.maxFrameBytes \in Nat
      /\ Len(bytes) \in Nat /\ Len(p) \in Nat
      /\ Len(E) \in Nat /\ Len(E) = N + Len(p) /\ Len(E) <= f.maxFrameBytes
  <2>1. Len(E) = N + Len(p) /\ Len(E) <= f.maxFrameBytes
    BY <1>3
  <2>2. N \in Nat /\ Len(p) \in Nat
    BY <1>1, <1>2
  <2> HIDE DEF E, N
  <2>3. Len(E) \in Nat
    BY <2>1, <2>2
  <2> QED  BY <1>1, <1>2, <2>1, <2>3 DEF N
<1>6. d = CASE Len(bytes) < N -> Decoded("incomplete", <<>>, 0)
            [] Len(bytes) >= N /\ (~IsPrefix(h, bytes) \/ declared < 0) -> Decoded("invalid", <<>>, 0)
            [] OTHER -> CASE size < 0 \/ total > f.maxFrameBytes -> Decoded("invalid", <<>>, 0)
                          [] size >= 0 /\ total \in (Len(bytes) + 1)..f.maxFrameBytes -> Decoded("incomplete", <<>>, 0)
                          [] OTHER -> Decoded("complete", payload, total)
  BY DEF DecodeFrame
<1>7. CASE Len(bytes) < N
  <2> HIDE DEF declared, size, total, payload, d, N, h
  <2>1. d.status = "incomplete"
    <3>1. d = Decoded("incomplete", <<>>, 0)
      BY <1>0, <1>6, <1>7
    <3> QED  BY <3>1 DEF Decoded
  <2>2. Len(bytes) < Len(E)
    BY <1>0, <1>7
  <2> QED  BY <2>1, <2>2 DEF d, E
<1>8. CASE ~(Len(bytes) < N)
  <2>1. Len(bytes) >= N /\ Len(h) <= Len(bytes)
    BY SMTT(40), <1>0, <1>8
  <2>2. IsPrefix(h, bytes)
    <3>1. \A i \in 1..Len(h) : bytes[i] = h[i] /\ bytes[i] \in Bytes
      <4>1. \A i \in 1..Len(h) : i \in 1..Len(E) /\ i <= Len(bytes) /\ i \in 1..Len(bytes)
        BY SMTT(40), <1>0, <2>1
      <4>2. \A i \in 1..Len(h) : bytes[i] = h[i]
        BY <1>3, <1>5, <4>1
      <4> QED  BY <4>1, <4>2, ElementOfSeq
    <3> DEFINE s == SubSeq(bytes, 1, Len(h))
    <3>2. /\ s \in Seq(Bytes) /\ Len(s) = IF 1 <= Len(h) THEN Len(h) - 1 + 1 ELSE 0
          /\ \A i \in 1..(Len(h) - 1 + 1) : s[i] = bytes[1 + i - 1]
      BY <1>1, <3>1, SubSeqProperties
    <3>3. SubSeq(h, 1, Len(h)) = h
      <4>1. h \in Seq(Bytes)
        BY <1>1
      <4> QED  BY <4>1, SubSeqFull
    <3> HIDE DEF s
    <3>4. Len(s) = Len(h) /\ \A i \in 1..Len(h) : s[i] = bytes[i]
      <4>1. Len(h) - 1 + 1 = Len(h) /\ \A i \in 1..Len(h) : 1 + i - 1 = i
        BY <1>1
      <4> QED  BY <1>1, <3>2, <4>1
    <3>5. \A i \in 1..Len(h) : s[i] = h[i]
      BY <3>1, <3>4
    <3>6. h = s
      BY <1>1, <3>2, <3>4, <3>5, SeqEqual
    <3> QED  BY <2>1, <3>3, <3>6 DEF IsPrefix, s
  <2>3. figures = e
    <3>1. ASSUME NEW i \in 1..f.lengthBytes PROVE bytes[Len(h) + i] = e[i]
      <4>1. Len(h) + i \in 1..Len(E) /\ Len(h) + i <= Len(bytes)
        BY SMTT(40), <1>0, <2>1
      <4> QED  BY <1>4, <1>5, <4>1
    <3>2. Len(h) + f.lengthBytes <= Len(bytes)
      BY <1>0, <2>1
    <3>3. Len(h) \in Nat /\ f.lengthBytes \in Nat /\ Len(e) = f.lengthBytes
      BY <1>0, <1>4
    <3> HIDE DEF h, E
    <3>4. SubSeq(bytes, Len(h) + 1, Len(h) + f.lengthBytes) = e
      BY <3>1, <3>2, <3>3, Slice
    <3> QED  BY <3>4 DEF h
  <2>4. declared = Len(p) + IncludedOverhead(f)
    BY <1>4, <2>3
  <2> HIDE DEF E, N, h, figures, declared
  <2>5. ~(declared < 0) /\ size = Len(p) /\ total = Len(E) /\ size >= 0 /\ ~(size < 0)
    BY SMTT(40), <1>0, <2>4
  <2>6. ~(total > f.maxFrameBytes)
    BY <1>0, <2>5
  <2> HIDE DEF declared, size, total, payload, d, E, N, h
  <2>7. d = CASE size < 0 \/ total > f.maxFrameBytes -> Decoded("invalid", <<>>, 0)
              [] size >= 0 /\ total \in (Len(bytes) + 1)..f.maxFrameBytes -> Decoded("incomplete", <<>>, 0)
              [] OTHER -> Decoded("complete", payload, total)
    BY <1>6, <1>8, <2>2, <2>5
  <2>8. CASE Len(bytes) < total
    <3>1. d.status = "incomplete"
      <4>1. total \in (Len(bytes) + 1)..f.maxFrameBytes
        BY SMTT(40), <1>0, <2>5, <2>6, <2>8
      <4>2. d = Decoded("incomplete", <<>>, 0)
        BY <2>5, <2>6, <2>7, <4>1
      <4> QED  BY <4>2 DEF Decoded
    <3> QED  BY <2>5, <2>8, <3>1 DEF d, E
  <2>9. CASE ~(Len(bytes) < total)
    <3>1. d = Decoded("complete", payload, total)
      BY <2>5, <2>6, <2>7, <2>9
    <3>2. Len(E) <= Len(bytes) /\ Len(E) \in Nat
      BY <1>0, <2>5, <2>9
    <3>3. payload = p
      <4>1. N \in Nat /\ Len(p) \in Nat /\ total = N + Len(p) /\ N + Len(p) <= Len(bytes) /\ Len(E) = N + Len(p)
        BY <1>0, <2>5, <3>2
      <4>2. ASSUME NEW i \in 1..Len(p) PROVE bytes[N + i] = p[i]
        <5>1. N + i \in 1..Len(E) /\ N + i <= Len(bytes)
          BY SMTT(40), <1>0, <4>1
        <5> QED  BY <1>3, <1>5, <5>1
      <4>3. SubSeq(bytes, N + 1, N + Len(p)) = p
        BY <4>1, <4>2, Slice
      <4> QED  BY <4>1, <4>3 DEF payload
    <3>4. d.status = "complete" /\ d.payload = p /\ d.consumed = Len(E)
      BY <2>5, <3>1, <3>3 DEF Decoded
    <3>5. Len(E) >= 1
      BY <1>0
    <3> QED  BY <2>5, <2>9, <3>2, <3>4, <3>5 DEF d, E
  <2> QED  BY <2>8, <2>9
<1> QED  BY <1>7, <1>8

Receives(bytes, more, rest, p, f) ==
  LET d == DecodeFrame(bytes, f)
  IN \/ d.status = "incomplete" /\ Len(bytes) < Len(EncodeFrame(p, f))
     \/ d.status = "complete" /\ d.payload = p /\ SubSeq(bytes, d.consumed + 1, Len(bytes)) \o more = rest

\* What has arrived of a stream that begins with a frame decodes to that frame, once it is all there.
LEMMA DecodeWhole ==
  ASSUME NEW f \in FrameOptions, NEW p \in Seq(Bytes), Encodable(p, f),
         NEW bytes \in Seq(Bytes), NEW more \in Seq(Bytes), NEW rest \in Seq(Bytes),
         bytes \o more = EncodeFrame(p, f) \o rest
  PROVE  Receives(bytes, more, rest, p, f)
<1> DEFINE E == EncodeFrame(p, f)
           d == DecodeFrame(bytes, f)
<1>1. E \in Seq(Bytes)
  BY FrameIs
<1>2. bytes \o more = E \o rest
  OBVIOUS
<1> HIDE DEF E
<1>3. /\ Len(bytes) + Len(more) = Len(E) + Len(rest)
      /\ \A k \in 1..Len(E) : k <= Len(bytes) => bytes[k] = E[k]
      /\ Len(E) <= Len(bytes) => SubSeq(bytes, Len(E) + 1, Len(bytes)) \o more = rest
  BY <1>1, <1>2, SameCut, Zenon
<1>4. /\ Len(bytes) < Len(E) => d.status = "incomplete"
      /\ ~(Len(bytes) < Len(E)) => Len(E) <= Len(bytes) /\ Len(E) >= 1 /\ d.status = "complete" /\ d.payload = p /\ d.consumed = Len(E)
  <2>1. Agree(bytes, E)
    BY <1>3 DEF Agree
  <2> QED  BY <2>1, DecodeArrived DEF E
<1> HIDE DEF d
<1>5. \/ d.status = "incomplete" /\ Len(bytes) < Len(E)
      \/ d.status = "complete" /\ d.payload = p /\ SubSeq(bytes, d.consumed + 1, Len(bytes)) \o more = rest
  <2>1. CASE Len(bytes) < Len(E)
    BY <1>4, <2>1
  <2>2. CASE ~(Len(bytes) < Len(E))
    <3>1. Len(E) <= Len(bytes) /\ d.status = "complete" /\ d.payload = p /\ d.consumed = Len(E)
      BY <1>4, <2>2
    <3>2. SubSeq(bytes, Len(E) + 1, Len(bytes)) \o more = rest
      BY <1>3, <3>1
    <3> QED  BY <3>1, <3>2
  <2> QED  BY <2>1, <2>2
<1> QED  BY <1>5 DEF d, E, Receives

\* What the host sends that is no frame.
JunkOf(f) == [k \in 1..(Len(f.header) + f.lengthBytes) |-> Nonsense]

\* It is never a frame, and is refused when it is all there.
LEMMA JunkArrived ==
  ASSUME NEW f \in FrameOptions, NEW bytes \in Seq(Bytes), Agree(bytes, JunkOf(f)), Len(bytes) <= Len(JunkOf(f))
  PROVE  /\ JunkOf(f) \in Seq(Bytes) /\ JunkOf(f) # <<>>
         /\ DecodeFrame(bytes, f).status = IF Len(bytes) < Len(JunkOf(f)) THEN "incomplete" ELSE "invalid"
<1> DEFINE J == JunkOf(f)
           h == f.header
           L == f.lengthBytes
           N == Len(f.header) + f.lengthBytes
           figures == SubSeq(bytes, Len(f.header) + 1, N)
           declared == DecodeLength(figures, f.encoding)
           size == declared - IncludedOverhead(f)
           total == N + size
           d == DecodeFrame(bytes, f)
           payload == SubSeq(bytes, N + 1, total)
           X == CASE size < 0 \/ total > f.maxFrameBytes -> Decoded("invalid", <<>>, 0)
                  [] size >= 0 /\ total \in (Len(bytes) + 1)..f.maxFrameBytes -> Decoded("incomplete", <<>>, 0)
                  [] OTHER -> Decoded("complete", payload, total)
<1>1. Len(h) \in Nat /\ L \in Nat /\ L >= 1 /\ f.encoding \in {"ascii", "bcd"}
  BY Options
<1>2. Len(bytes) \in Nat
  BY LenProperties
<1>3. N \in Nat /\ N >= 1 /\ N = Len(h) + L
  BY <1>1
<1>4. J \in Seq(Bytes) /\ Len(J) = N
  <2>1. J = [k \in 1..N |-> Nonsense]
    BY DEF JunkOf
  <2>2. Nonsense \in Bytes
    BY DEF Nonsense, Bytes
  <2> HIDE DEF J, N
  <2>3. J \in [1..N -> Bytes]
    BY <2>1, <2>2
  <2>4. J \in Seq(Bytes)
    BY <1>3, <2>3, SeqDef
  <2>5. DOMAIN J = 1..N
    BY <2>1
  <2> QED  BY <1>3, <2>4, <2>5, LenProperties
<1>5. \A k \in 1..N : J[k] = Nonsense
  BY DEF JunkOf
<1>6. J # <<>>
  BY <1>3, <1>4, EmptySeq
<1>7. \A k \in 1..N : k <= Len(bytes) => bytes[k] = Nonsense
  <2>1. \A k \in 1..Len(J) : k <= Len(bytes) => bytes[k] = J[k]
    BY DEF Agree
  <2> HIDE DEF J, N
  <2> QED  BY <1>4, <1>5, <2>1
<1>8. d = CASE Len(bytes) < N -> Decoded("incomplete", <<>>, 0)
            [] Len(bytes) >= N /\ (~IsPrefix(h, bytes) \/ declared < 0) -> Decoded("invalid", <<>>, 0)
            [] OTHER -> X
  BY DEF DecodeFrame
<1>9. CASE Len(bytes) < N
  <2> HIDE DEF J, N, X, d, h, declared
  <2>1. d = Decoded("incomplete", <<>>, 0)
    BY <1>2, <1>3, <1>8, <1>9
  <2>2. d.status = "incomplete"
    BY <2>1 DEF Decoded
  <2> QED  BY <1>4, <1>6, <1>9, <2>2 DEF J, d
<1>10. CASE ~(Len(bytes) < N)
  <2>1. Len(bytes) = N
    BY <1>2, <1>3, <1>4, <1>10
  <2> DEFINE s == [k \in 1..L |-> Nonsense]
  <2>2. s \in Seq(Bytes) /\ Len(s) = L
    <3>1. Nonsense \in Bytes
      BY DEF Nonsense, Bytes
    <3>2. s \in [1..L -> Bytes]
      BY <3>1
    <3>3. DOMAIN s = 1..L
      OBVIOUS
    <3> HIDE DEF s, L
    <3>4. s \in Seq(Bytes)
      BY <1>1, <3>2, SeqDef
    <3> QED  BY <1>1, <3>3, <3>4, LenProperties
  <2>3. \A i \in 1..L : s[i] = Nonsense
    OBVIOUS
  <2> HIDE DEF s
  <2>4. figures = s
    <3> HIDE DEF J, X, d
    <3>1. ASSUME NEW i \in 1..L PROVE bytes[Len(h) + i] = s[i]
      <4>1. Len(h) + i \in 1..N /\ Len(h) + i <= Len(bytes)
        <5> HIDE DEF N, L, h
        <5> QED  BY <1>1, <1>3, <2>1
      <4> QED  BY <1>7, <2>3, <4>1
    <3>2. Len(h) + L <= Len(bytes)
      BY <1>3, <2>1
    <3> HIDE DEF N, L, h
    <3>3. SubSeq(bytes, Len(h) + 1, Len(h) + L) = s
      BY <1>1, <2>2, <3>1, <3>2, Slice
    <3> QED  BY <3>3 DEF h, L, N
  <2>5. declared = -1
    <3>1. 1 \in 1..Len(s) /\ s[1] = Nonsense
      BY <1>1, <2>2, <2>3
    <3>2. ~IsFigure(Nonsense, f.encoding)
      <4>1. ~(Nonsense \in Zero..(Zero + 9)) /\ ~(Nonsense \div 16 <= 9)
        BY DEF Nonsense, Zero
      <4>2. CASE f.encoding = "ascii"
        BY <4>1, <4>2 DEF IsFigure
      <4>3. CASE f.encoding # "ascii"
        BY <4>1, <4>3 DEF IsFigure
      <4> QED  BY <4>2, <4>3
    <3>3. \E k \in 1..Len(s) : ~IsFigure(s[k], f.encoding)
      BY <3>1, <3>2
    <3> QED  BY <2>2, <2>4, <3>3, ValueOf
  <2> HIDE DEF J, N, X, d, h, declared
  <2>6. declared < 0 /\ Len(bytes) >= N
    BY <1>3, <2>1, <2>5
  <2>7. d = Decoded("invalid", <<>>, 0)
    BY <1>8, <1>10, <2>6
  <2>8. d.status = "invalid"
    BY <2>7 DEF Decoded
  <2>9. ~(Len(bytes) < Len(J))
    BY <1>4, <1>10
  <2> QED  BY <1>4, <1>6, <2>8, <2>9 DEF J, d
<1> QED  BY <1>9, <1>10

LEMMA DecodeJunk ==
  ASSUME NEW f \in FrameOptions, NEW bytes \in Seq(Bytes), NEW more \in Seq(Bytes), bytes \o more = JunkOf(f)
  PROVE  /\ DecodeFrame(bytes, f).status \in {"incomplete", "invalid"}
         /\ more = <<>> => DecodeFrame(bytes, f).status = "invalid"
<1> DEFINE J == JunkOf(f)
<1>1. J \in Seq(Bytes)
  <2>1. <<>> \in Seq(Bytes) /\ Len(<<>>) = 0
    BY EmptySeq
  <2> QED  BY ConcatProperties
<1>2. bytes \o more = J \o <<>>
  BY <1>1, ConcatEmptySeq
<1>3. <<>> \in Seq(Bytes) /\ Len(<<>>) = 0
  BY EmptySeq
<1> HIDE DEF J
<1>4. /\ Len(bytes) + Len(more) = Len(J) + Len(<<>>)
      /\ \A k \in 1..Len(J) : k <= Len(bytes) => bytes[k] = J[k]
      /\ Len(J) <= Len(bytes) => SubSeq(bytes, Len(J) + 1, Len(bytes)) \o more = <<>>
  BY <1>1, <1>2, <1>3, SameCut, Zenon
<1>5. Agree(bytes, J)
  BY <1>4 DEF Agree
<1>6. Len(bytes) \in Nat /\ Len(more) \in Nat /\ Len(J) \in Nat
  BY <1>1, LenProperties
<1>7. Len(bytes) <= Len(J) /\ (more = <<>> => ~(Len(bytes) < Len(J)))
  <2>1. Len(bytes) + Len(more) = Len(J)
    BY <1>3, <1>4, <1>6
  <2>2. more = <<>> => Len(more) = 0
    BY <1>3
  <2> QED  BY <1>6, <2>1, <2>2
<1>8. DecodeFrame(bytes, f).status = IF Len(bytes) < Len(J) THEN "incomplete" ELSE "invalid"
  BY <1>5, <1>7, JunkArrived DEF J
<1> QED  BY <1>7, <1>8

-----------------------------------------------------------------------------
\* The bytes of a stream from before each frame: those of the frame, then what follows.
Wire(w, fs, tail, f) ==
  /\ fs \in Seq(Seq(Bytes)) /\ tail \in Seq(Bytes)
  /\ w \in [0..Len(fs) -> Seq(Bytes)] /\ w[Len(fs)] = tail
  /\ \A k \in 1..Len(fs) : Encodable(fs[k], f) /\ w[k - 1] = EncodeFrame(fs[k], f) \o w[k]

\* What a decoder that stands before a frame, or after the last, can find.
Stands(bytes, more, i, fs, w, tail, f) ==
  LET d == DecodeFrame(bytes, f)
  IN /\ d.status = "complete" =>
          /\ i + 1 \in 1..Len(fs) /\ d.payload = fs[i + 1]
          /\ SubSeq(bytes, d.consumed + 1, Len(bytes)) \o more = w[i + 1]
     /\ more = <<>> /\ (bytes = <<>> \/ d.status = "incomplete") => i = Len(fs) /\ tail = <<>> /\ bytes = <<>>

LEMMA Position ==
  ASSUME NEW f \in FrameOptions, NEW fs, NEW tail \in {<<>>, JunkOf(f)}, NEW w, Wire(w, fs, tail, f),
         NEW i \in 0..Len(fs), NEW bytes \in Seq(Bytes), NEW more \in Seq(Bytes), bytes \o more = w[i]
  PROVE  Stands(bytes, more, i, fs, w, tail, f)
<1> DEFINE d == DecodeFrame(bytes, f)
<1>1. Len(fs) \in Nat /\ w[i] \in Seq(Bytes) /\ w[Len(fs)] = tail
  <2>1. Len(fs) \in Nat
    BY LenProperties DEF Wire
  <2> QED  BY <2>1 DEF Wire
<1>2. d.status \in {"incomplete", "invalid", "complete"} /\ (bytes = <<>> => d.status = "incomplete")
  BY DecodedIs
<1>3. more = <<>> => bytes = w[i]
  BY ConcatEmptySeq
<1>4. CASE i = Len(fs)
  <2>1. CASE tail = <<>>
    <3>1. bytes \o more = <<>>
      BY <1>1, <1>4, <2>1
    <3>2. bytes = <<>>
      BY <3>1, ConcatEqualIffEmpty
    <3> QED  BY <1>2, <1>4, <2>1, <3>2 DEF Stands
  <2>2. CASE tail = JunkOf(f)
    <3>1. bytes \o more = JunkOf(f)
      BY <1>1, <1>4, <2>2
    <3>2. d.status \in {"incomplete", "invalid"} /\ (more = <<>> => d.status = "invalid")
      BY <3>1, DecodeJunk
    <3> QED  BY <1>2, <3>2 DEF Stands
  <2> QED  BY <2>1, <2>2
<1>5. CASE i # Len(fs)
  <2>1. i + 1 \in 1..Len(fs) /\ (i + 1) - 1 = i /\ i + 1 \in 0..Len(fs)
    BY <1>1, <1>5
  <2> DEFINE p == fs[i + 1]
             r == w[i + 1]
             E == EncodeFrame(p, f)
  <2>2. p \in Seq(Bytes)
    BY <2>1, ElementOfSeq DEF Wire
  <2>3. Encodable(p, f) /\ w[i] = E \o r /\ r \in Seq(Bytes)
    BY <2>1 DEF Wire
  <2>4. bytes \o more = E \o r
    BY <2>3
  <2> HIDE DEF p, r
  <2>5. \/ d.status = "incomplete" /\ Len(bytes) < Len(E)
        \/ d.status = "complete" /\ d.payload = p /\ SubSeq(bytes, d.consumed + 1, Len(bytes)) \o more = r
    <3>1. Encodable(p, f) /\ r \in Seq(Bytes)
      BY <2>3
    <3>2. bytes \o more = EncodeFrame(p, f) \o r
      BY <2>4
    <3> HIDE DEF E
    <3>3. Receives(bytes, more, r, p, f)
      BY <2>2, <3>1, <3>2, DecodeWhole
    <3> QED  BY <3>3 DEF Receives, E
  <2>6. E \in Seq(Bytes)
    BY <2>2, <2>3, FrameIs
  <2>7. more = <<>> => ~(Len(bytes) < Len(E))
    <3> HIDE DEF E
    <3>1. Len(bytes) + Len(more) = Len(E) + Len(r)
      BY <2>3, <2>4, <2>6, SameCut
    <3>2. Len(bytes) \in Nat /\ Len(E) \in Nat /\ Len(r) \in Nat /\ Len(<<>>) = 0
      BY <2>3, <2>6, LenProperties, EmptySeq
    <3> SUFFICES ASSUME more = <<>> PROVE ~(Len(bytes) < Len(E))
      OBVIOUS
    <3>3. Len(more) = 0
      BY <3>2
    <3> HIDE DEF d
    <3> QED  BY <3>1, <3>2, <3>3
  <2> HIDE DEF d, E
  <2>8. d.status = "complete" =>
          i + 1 \in 1..Len(fs) /\ d.payload = fs[i + 1] /\ SubSeq(bytes, d.consumed + 1, Len(bytes)) \o more = w[i + 1]
    BY <2>1, <2>5 DEF p, r
  <2>9. ~(more = <<>> /\ (bytes = <<>> \/ d.status = "incomplete"))
    BY <1>2, <2>5, <2>7 DEF d
  <2> QED  BY <2>8, <2>9 DEF d, Stands
<1> QED  BY <1>4, <1>5

-----------------------------------------------------------------------------
\* Draining.
Drains == [bytes : Seq(Bytes), out : Seq(Seq(Bytes)), broken : BOOLEAN]

Settled(d, f) == d.broken \/ d.bytes = <<>> \/ DecodeFrame(d.bytes, f).status = "incomplete"

\* One turn of the loop.
LEMMA DrainTurn ==
  ASSUME NEW f \in FrameOptions, NEW d \in Drains
  PROVE  LET e == DrainFrame(d, f)
             c == DecodeFrame(d.bytes, f)
         IN /\ e \in Drains
            /\ Settled(d, f) => e = d
            /\ ~Settled(d, f) =>
                 \/ c.status = "invalid" /\ e.broken /\ e.out = d.out
                 \/ /\ c.status = "complete" /\ e.broken = d.broken /\ e.out = Append(d.out, c.payload)
                    /\ e.bytes = SubSeq(d.bytes, c.consumed + 1, Len(d.bytes)) /\ Len(e.bytes) < Len(d.bytes)
<1> DEFINE e == DrainFrame(d, f)
           c == DecodeFrame(d.bytes, f)
           left == SubSeq(d.bytes, c.consumed + 1, Len(d.bytes))
<1>1. d.bytes \in Seq(Bytes) /\ d.out \in Seq(Seq(Bytes)) /\ d.broken \in BOOLEAN /\ Len(d.bytes) \in Nat
  <2>1. d.bytes \in Seq(Bytes) /\ d.out \in Seq(Seq(Bytes)) /\ d.broken \in BOOLEAN
    BY DEF Drains
  <2> QED  BY <2>1, LenProperties
<1>2. /\ c.status \in {"incomplete", "invalid", "complete"} /\ c.payload \in Seq(Bytes) /\ c.consumed \in Nat
      /\ c.status = "complete" => c.consumed \in 1..Len(d.bytes)
      /\ d.bytes = <<>> => c.status = "incomplete"
  BY <1>1, DecodedIs
<1>3. e = CASE d.broken \/ d.bytes = <<>> \/ c.status = "incomplete" -> d
            [] ~d.broken /\ c.status = "invalid" -> [d EXCEPT !.broken = TRUE, !.bytes = <<>>]
            [] OTHER -> [d EXCEPT !.bytes = left, !.out = Append(@, c.payload)]
  BY <1>2 DEF DrainFrame
<1>4. Settled(d, f) <=> d.broken \/ d.bytes = <<>> \/ c.status = "incomplete"
  BY DEF Settled
<1>5. c.status = "complete" => left \in Seq(Bytes) /\ Len(left) < Len(d.bytes)
  <2> SUFFICES ASSUME c.status = "complete" PROVE left \in Seq(Bytes) /\ Len(left) < Len(d.bytes)
    OBVIOUS
  <2> DEFINE n == c.consumed
  <2>1. n \in Nat /\ n >= 1 /\ n <= Len(d.bytes)
    BY <1>1, <1>2
  <2> HIDE DEF n
  <2>2. \A i \in (n + 1)..Len(d.bytes) : i \in 1..Len(d.bytes)
    BY <1>1, <2>1
  <2>3. \A i \in (n + 1)..Len(d.bytes) : d.bytes[i] \in Bytes
    BY <1>1, <2>2, ElementOfSeq
  <2> DEFINE r == SubSeq(d.bytes, n + 1, Len(d.bytes))
  <2>4. r \in Seq(Bytes) /\ Len(r) = IF n + 1 <= Len(d.bytes) THEN Len(d.bytes) - (n + 1) + 1 ELSE 0
    BY <1>1, <2>1, <2>3, SubSeqProperties
  <2>5. left = r
    BY DEF n
  <2> HIDE DEF r, left
  <2>6. Len(r) < Len(d.bytes)
    BY <1>1, <2>1, <2>4
  <2> QED  BY <2>4, <2>5, <2>6
<1> HIDE DEF e, c, left
<1>6. CASE Settled(d, f)
  <2>1. e = d
    BY <1>2, <1>3, <1>4, <1>6
  <2> QED  BY <1>6, <2>1 DEF e
<1>7. CASE ~Settled(d, f) /\ c.status = "invalid"
  <2>1. e = [d EXCEPT !.broken = TRUE, !.bytes = <<>>]
    BY <1>3, <1>4, <1>7
  <2>2. <<>> \in Seq(Bytes)
    BY EmptySeq
  <2>3. e \in Drains /\ e.broken /\ e.out = d.out
    BY <2>1, <2>2 DEF Drains
  <2> QED  BY <1>7, <2>3 DEF e, c
<1>8. CASE ~Settled(d, f) /\ c.status # "invalid"
  <2>1. c.status = "complete"
    BY <1>2, <1>4, <1>8
  <2>2. e = [d EXCEPT !.bytes = left, !.out = Append(@, c.payload)]
    BY <1>3, <1>4, <1>8
  <2>3. Append(d.out, c.payload) \in Seq(Seq(Bytes))
    BY <1>1, <1>2, AppendProperties
  <2>4. left \in Seq(Bytes) /\ Len(left) < Len(d.bytes)
    BY <1>5, <2>1
  <2>5. e \in Drains /\ e.broken = d.broken /\ e.out = Append(d.out, c.payload) /\ e.bytes = left
    BY <2>2, <2>3, <2>4 DEF Drains
  <2>6. e.bytes = SubSeq(d.bytes, c.consumed + 1, Len(d.bytes)) /\ Len(e.bytes) < Len(d.bytes)
    BY <2>4, <2>5 DEF left
  <2> QED  BY <1>8, <2>1, <2>5, <2>6 DEF e, c
<1> QED  BY <1>6, <1>7, <1>8

\* All its turns.
LEMMA DrainsAre ==
  ASSUME NEW f \in FrameOptions, NEW bytes \in Seq(Bytes)
  PROVE  \E g \in [0..Len(bytes) -> Drains] :
           /\ g[0] = [bytes |-> bytes, out |-> <<>>, broken |-> FALSE]
           /\ \A n \in 1..Len(bytes) : g[n] = DrainFrame(g[n - 1], f)
           /\ DrainFrames(bytes, f) = g[Len(bytes)]
<1> DEFINE N == Len(bytes)
           b == [bytes |-> bytes, out |-> <<>>, broken |-> FALSE]
           is(g) == g = [n \in 0..N |-> IF n = 0 THEN b ELSE DrainFrame(g[n - 1], f)]
           q == CHOOSE g : is(g)
<1>1. N \in Nat /\ 0 \in 0..N /\ N \in 0..N
  BY LenProperties
<1>2. b \in Drains
  <2>1. <<>> \in Seq(Seq(Bytes))
    BY EmptySeq
  <2> QED  BY <2>1 DEF Drains
<1>3. \A d \in Drains : DrainFrame(d, f) \in Drains
  BY DrainTurn
<1> HIDE DEF b, N
<1>4. \E g : is(g)
  <2> DEFINE F == [x \in Drains \X Nat |-> DrainFrame(x[1], f)]
  <2>1. F \in [Drains \X Nat -> Drains]
    BY <1>3
  <2>2. \A d \in Drains, n \in Nat : F[<<d, n>>] = DrainFrame(d, f)
    OBVIOUS
  <2> HIDE DEF F
  <2>3. PICK g : Iterates(g, Drains, b, N, F)
    BY <1>1, <1>2, <2>1, IteratesExist
  <2>4. g[0] = b /\ (\A n \in 0..N : g[n] \in Drains) /\ g = [n \in 0..N |-> g[n]]
        /\ \A n \in 1..N : g[n] = F[<<g[n - 1], n>>]
    BY <2>3 DEF Iterates
  <2>5. ASSUME NEW n \in 0..N PROVE g[n] = IF n = 0 THEN b ELSE DrainFrame(g[n - 1], f)
    <3>1. CASE n # 0
      <4>1. n \in 1..N /\ n - 1 \in 0..N /\ n \in Nat
        BY <1>1, <3>1
      <4>2. g[n] = F[<<g[n - 1], n>>] /\ g[n - 1] \in Drains
        BY <2>4, <4>1
      <4> QED  BY <2>2, <3>1, <4>1, <4>2
    <3> QED  BY <2>4, <3>1
  <2>6. is(g)
    BY <2>4, <2>5
  <2> QED  BY <2>6
<1>5. is(q)
  BY <1>4
<1>6. DrainFrames(bytes, f) = q[N]
  BY DEF DrainFrames, b, N
<1> HIDE DEF q
<1>7. q[0] = b /\ \A k \in 1..N : q[k] = DrainFrame(q[k - 1], f)
  <2>1. \A k \in 1..N : k \in 0..N /\ k # 0
    BY <1>1
  <2> QED  BY <1>1, <1>5, <2>1
<1>8. \A k \in 0..N : q[k] \in Drains
  <2>1. q[0] \in Drains
    BY <1>2, <1>7
  <2>2. \A k \in 1..N : q[k - 1] \in Drains => q[k] \in Drains
    BY <1>3, <1>7
  <2> QED  BY <1>1, <2>1, <2>2, IteratesIn
<1>9. q \in [0..N -> Drains]
  BY <1>5, <1>8
<1> QED  BY <1>6, <1>7, <1>9 DEF N, b

\* What is true of a drain that began before frame n of a stream: what it has put out is what was sent, and what it
\* has left is the stream from there.
Kept(d, w, fs, n, more) ==
  /\ d \in Drains /\ n + Len(d.out) <= Len(fs)
  /\ \A k \in 1..Len(d.out) : d.out[k] = fs[n + k]
  /\ ~d.broken => d.bytes \o more = w[n + Len(d.out)]

LEMMA KeptTurn ==
  ASSUME NEW f \in FrameOptions, NEW fs, NEW tail \in {<<>>, JunkOf(f)}, NEW w, Wire(w, fs, tail, f),
         NEW n \in Nat, NEW more \in Seq(Bytes), NEW d, Kept(d, w, fs, n, more)
  PROVE  Kept(DrainFrame(d, f), w, fs, n, more)
<1> DEFINE e == DrainFrame(d, f)
           c == DecodeFrame(d.bytes, f)
<1>1. d \in Drains
  BY DEF Kept
<1>2. d.bytes \in Seq(Bytes) /\ d.out \in Seq(Seq(Bytes)) /\ d.broken \in BOOLEAN
  BY <1>1 DEF Drains
<1>3. Len(d.out) \in Nat /\ Len(fs) \in Nat
  BY <1>2, LenProperties DEF Wire
<1>4. /\ e \in Drains
      /\ Settled(d, f) => e = d
      /\ ~Settled(d, f) =>
           \/ c.status = "invalid" /\ e.broken /\ e.out = d.out
           \/ /\ c.status = "complete" /\ e.broken = d.broken /\ e.out = Append(d.out, c.payload)
              /\ e.bytes = SubSeq(d.bytes, c.consumed + 1, Len(d.bytes))
  BY <1>1, DrainTurn
<1> HIDE DEF e
<1>5. CASE Settled(d, f)
  BY <1>4, <1>5 DEF e
<1>6. CASE ~Settled(d, f) /\ c.status = "invalid"
  <2>1. e.broken /\ e.out = d.out
    BY <1>4, <1>6
  <2>2. Kept(e, w, fs, n, more)
    BY <1>4, <2>1 DEF Kept
  <2> QED  BY <2>2 DEF e
<1>7. CASE ~Settled(d, f) /\ c.status # "invalid"
  <2> DEFINE m == Len(d.out)
             i == n + m
  <2>1. /\ c.status = "complete" /\ e.broken = d.broken /\ e.out = Append(d.out, c.payload)
        /\ e.bytes = SubSeq(d.bytes, c.consumed + 1, Len(d.bytes))
    BY <1>4, <1>7
  <2>2. ~d.broken
    BY <1>7 DEF Settled
  <2>3. i \in 0..Len(fs)
    BY <1>3 DEF Kept
  <2>4. d.bytes \o more = w[i]
    BY <2>2 DEF Kept
  <2>5. /\ i + 1 \in 1..Len(fs) /\ c.payload = fs[i + 1]
        /\ SubSeq(d.bytes, c.consumed + 1, Len(d.bytes)) \o more = w[i + 1]
    <3> HIDE DEF i
    <3>1. Stands(d.bytes, more, i, fs, w, tail, f)
      BY <1>2, <2>3, <2>4, Position
    <3> QED  BY <2>1, <3>1 DEF Stands
  <2>6. c.payload \in Seq(Bytes)
    BY <1>2, DecodedIs
  <2>7. /\ Len(e.out) = m + 1
        /\ \A k \in 1..m : e.out[k] = d.out[k]
        /\ e.out[m + 1] = c.payload
    BY <1>2, <2>1, <2>6, AppendProperties
  <2> HIDE DEF c
  <2>8. n + Len(e.out) <= Len(fs) /\ n + Len(e.out) = i + 1
    <3>1. i + 1 \in 1..Len(fs) /\ m \in Nat
      BY <1>3, <2>5
    <3> HIDE DEF m
    <3> QED  BY <1>3, <2>7, <3>1
  <2>9. ASSUME NEW k \in 1..Len(e.out) PROVE e.out[k] = fs[n + k]
    <3>1. CASE k = m + 1
      <4>1. n + k = i + 1
        BY <1>3, <3>1
      <4> QED  BY <2>5, <2>7, <3>1, <4>1
    <3>2. CASE k # m + 1
      <4>1. k \in 1..m
        BY <1>3, <2>7, <3>2
      <4>2. d.out[k] = fs[n + k]
        BY <4>1 DEF Kept
      <4> QED  BY <2>7, <4>1, <4>2
    <3> QED  BY <3>1, <3>2
  <2>10. e.bytes \o more = w[n + Len(e.out)]
    BY <2>1, <2>5, <2>8
  <2>11. Kept(e, w, fs, n, more)
    BY <1>4, <2>8, <2>9, <2>10 DEF Kept
  <2> QED  BY <2>11 DEF e
<1> QED  BY <1>5, <1>6, <1>7

\* Draining what stands before frame n of a stream.
LEMMA DrainsKeep ==
  ASSUME NEW f \in FrameOptions, NEW fs, NEW tail \in {<<>>, JunkOf(f)}, NEW w, Wire(w, fs, tail, f),
         NEW n \in 0..Len(fs), NEW bytes \in Seq(Bytes), NEW more \in Seq(Bytes), bytes \o more = w[n]
  PROVE  Kept(DrainFrames(bytes, f), w, fs, n, more) /\ Settled(DrainFrames(bytes, f), f)
<1> DEFINE N == Len(bytes)
<1>1. PICK g \in [0..N -> Drains] :
        /\ g[0] = [bytes |-> bytes, out |-> <<>>, broken |-> FALSE]
        /\ \A k \in 1..N : g[k] = DrainFrame(g[k - 1], f)
        /\ DrainFrames(bytes, f) = g[N]
  BY DrainsAre
<1>2. N \in Nat /\ 0 \in 0..N /\ N \in 0..N /\ n \in Nat /\ Len(fs) \in Nat /\ n <= Len(fs)
  <2>1. Len(fs) \in Nat
    BY LenProperties DEF Wire
  <2> QED  BY <2>1, LenProperties
<1>3. Kept(g[0], w, fs, n, more)
  <2> DEFINE d == g[0]
  <2>1. d \in Drains /\ d.bytes = bytes /\ d.out = <<>> /\ Len(<<>>) = 0
    <3>1. d = [bytes |-> bytes, out |-> <<>>, broken |-> FALSE]
      BY <1>1
    <3>2. d \in Drains
      BY <1>2
    <3>3. Len(<<>>) = 0
      BY EmptySeq
    <3> HIDE DEF d
    <3> QED  BY <3>1, <3>2, <3>3
  <2> HIDE DEF d
  <2>2. Len(d.out) = 0
    BY <2>1
  <2>3. n + Len(d.out) = n /\ 1..Len(d.out) = {}
    BY <1>2, <2>2
  <2>4. n + Len(d.out) <= Len(fs)
    BY <1>2, <2>3
  <2>5. \A k \in 1..Len(d.out) : d.out[k] = fs[n + k]
    BY <2>3
  <2>6. d.bytes \o more = w[n + Len(d.out)]
    BY <2>1, <2>3
  <2>7. Kept(d, w, fs, n, more)
    BY <2>1, <2>4, <2>5, <2>6 DEF Kept
  <2> QED  BY <2>7 DEF d
<1> HIDE DEF N
<1>4. \A k \in 0..N : Kept(g[k], w, fs, n, more)
  <2> DEFINE X == {d \in Drains : Kept(d, w, fs, n, more)}
  <2>1. g[0] \in X
    BY <1>2, <1>3
  <2>2. ASSUME NEW k \in 1..N, g[k - 1] \in X PROVE g[k] \in X
    <3>1. Kept(g[k - 1], w, fs, n, more)
      BY <2>2
    <3>2. Kept(DrainFrame(g[k - 1], f), w, fs, n, more)
      BY <1>2, <3>1, KeptTurn
    <3>3. k \in 0..N
      BY <1>2
    <3> QED  BY <1>1, <3>2, <3>3
  <2> HIDE DEF X
  <2>3. \A k \in 0..N : g[k] \in X
    BY <1>2, <2>1, <2>2, IteratesIn
  <2> QED  BY <2>3 DEF X
<1>5. \A k \in 0..N : Settled(g[k], f) \/ Len(g[k].bytes) <= N - k
  <2> DEFINE P == {k \in 0..N : Settled(g[k], f) \/ Len(g[k].bytes) <= N - k}
  <2>1. 0 \in P
    <3>1. Len(g[0].bytes) = N
      BY <1>1 DEF N
    <3>2. Len(g[0].bytes) <= N - 0
      BY <1>2, <3>1
    <3> QED  BY <1>2, <3>2
  <2>2. ASSUME NEW k \in P, k < N PROVE k + 1 \in P
    <3> DEFINE d == g[k]
               e == g[k + 1]
    <3>1. k \in Nat /\ k \in 0..N /\ k + 1 \in 1..N /\ k + 1 \in 0..N /\ (k + 1) - 1 = k
      BY <1>2, <2>2
    <3>2. d \in Drains /\ e \in Drains /\ e = DrainFrame(d, f)
      BY <1>1, <3>1
    <3> HIDE DEF d, e
    <3>3. d.bytes \in Seq(Bytes) /\ e.bytes \in Seq(Bytes) /\ d.broken \in BOOLEAN /\ e.broken \in BOOLEAN
      BY <3>2 DEF Drains
    <3>4. Len(d.bytes) \in Nat /\ Len(e.bytes) \in Nat
      BY <3>3, LenProperties
    <3>5. /\ Settled(d, f) => e = d
          /\ ~Settled(d, f) => e.broken \/ Len(e.bytes) < Len(d.bytes)
      BY <3>2, DrainTurn
    <3>6. Settled(d, f) \/ Len(d.bytes) <= N - k
      BY DEF d
    <3>7. e.broken => Settled(e, f)
      BY DEF Settled
    <3>8. Settled(e, f) \/ Len(e.bytes) <= N - (k + 1)
      <4>1. CASE Settled(d, f)
        BY <3>5, <4>1
      <4>2. CASE ~Settled(d, f) /\ e.broken
        BY <3>7, <4>2
      <4>3. CASE ~Settled(d, f) /\ ~e.broken
        <5>1. Len(e.bytes) < Len(d.bytes) /\ Len(d.bytes) <= N - k
          BY <3>5, <3>6, <4>3
        <5>2. Len(e.bytes) <= N - (k + 1)
          BY <1>2, <3>1, <3>4, <5>1
        <5> QED  BY <5>2
      <4> QED  BY <4>1, <4>2, <4>3
    <3> QED  BY <3>1, <3>8 DEF e
  <2>3. P \in SUBSET (0..N)
    OBVIOUS
  <2> HIDE DEF P
  <2>4. P = 0..N
    BY <1>2, <2>1, <2>2, <2>3, UpTo
  <2> QED  BY <2>4 DEF P
<1>6. Settled(g[N], f)
  <2>1. Settled(g[N], f) \/ Len(g[N].bytes) <= N - N
    BY <1>2, <1>5
  <2>2. g[N].bytes \in Seq(Bytes)
    BY <1>2 DEF Drains
  <2>3. Len(g[N].bytes) \in Nat /\ (g[N].bytes # <<>> => Len(g[N].bytes) \in Nat \ {0})
    BY <2>2, LenProperties, EmptySeq
  <2>4. N - N = 0
    BY <1>2
  <2>5. Settled(g[N], f) \/ g[N].bytes = <<>>
    <3>1. \A l \in Nat \ {0} : ~(l <= 0)
      OBVIOUS
    <3> QED  BY <2>1, <2>3, <2>4, <3>1
  <2> QED  BY <2>5 DEF Settled
<1>7. Kept(g[N], w, fs, n, more)
  BY <1>2, <1>4
<1> QED  BY <1>1, <1>6, <1>7

-----------------------------------------------------------------------------
\* The stream and its two readers.
TailOf(j, f) == IF j THEN JunkOf(f) ELSE <<>>

LEMMA TailIs ==
  ASSUME NEW f \in FrameOptions, NEW j \in BOOLEAN
  PROVE  /\ TailOf(j, f) \in {<<>>, JunkOf(f)} /\ TailOf(j, f) \in Seq(Bytes)
         /\ TailOf(j, f) = <<>> => ~j
<1> DEFINE J == JunkOf(f)
<1>1. <<>> \in Seq(Bytes) /\ Len(<<>>) = 0
  BY EmptySeq
<1>2. Agree(<<>>, J) /\ Len(<<>>) <= Len(J) /\ J \in Seq(Bytes)
  <2> DEFINE N == Len(f.header) + f.lengthBytes
  <2>1. N \in Nat
    BY Options
  <2>2. Nonsense \in Bytes
    BY DEF Nonsense, Bytes
  <2>3. J = [k \in 1..N |-> Nonsense]
    BY DEF JunkOf
  <2> HIDE DEF J, N
  <2>4. J \in [1..N -> Bytes]
    BY <2>2, <2>3
  <2>5. J \in Seq(Bytes)
    BY <2>1, <2>4, SeqDef
  <2>6. Len(J) \in Nat
    BY <2>5, LenProperties
  <2>7. ASSUME NEW k \in 1..Len(J), k <= Len(<<>>) PROVE FALSE
    BY <1>1, <2>6, <2>7
  <2> QED  BY <1>1, <2>5, <2>6, <2>7 DEF Agree
<1>3. J # <<>>
  BY <1>1, <1>2, JunkArrived
<1> QED  BY <1>1, <1>2, <1>3 DEF TailOf

\* More is sent on a stream that is sound so far.
SentAfter(v, w, fs, x) == \A i \in 0..Len(fs) : v[i] = w[i] \o x

LEMMA WireGrows ==
  ASSUME NEW f \in FrameOptions, NEW fs, NEW w, Wire(w, fs, <<>>, f), NEW x \in Seq(Bytes)
  PROVE  \E v : Wire(v, fs, x, f) /\ SentAfter(v, w, fs, x)
<1> DEFINE v == [i \in 0..Len(fs) |-> w[i] \o x]
<1>1. fs \in Seq(Seq(Bytes)) /\ Len(fs) \in Nat
  BY LenProperties DEF Wire
<1>2. \A i \in 0..Len(fs) : w[i] \in Seq(Bytes)
  BY DEF Wire
<1>3. \A i \in 0..Len(fs) : v[i] \in Seq(Bytes)
  BY <1>2, ConcatProperties
<1>4. v[Len(fs)] = x
  <2>1. w[Len(fs)] = <<>>
    BY DEF Wire
  <2>2. <<>> \o x = x
    BY ConcatEmptySeq
  <2>3. Len(fs) \in 0..Len(fs)
    BY <1>1
  <2> QED  BY <2>1, <2>2, <2>3
<1>5. ASSUME NEW k \in 1..Len(fs) PROVE Encodable(fs[k], f) /\ v[k - 1] = EncodeFrame(fs[k], f) \o v[k]
  <2> DEFINE E == EncodeFrame(fs[k], f)
  <2>1. k \in 0..Len(fs) /\ k - 1 \in 0..Len(fs)
    BY <1>1
  <2>2. Encodable(fs[k], f) /\ w[k - 1] = E \o w[k]
    BY DEF Wire
  <2>3. E \in Seq(Bytes)
    <3>1. fs[k] \in Seq(Bytes)
      BY <1>1, ElementOfSeq
    <3> QED  BY <2>2, <3>1, FrameIs
  <2> HIDE DEF E
  <2>4. (E \o w[k]) \o x = E \o (w[k] \o x)
    <3> DEFINE y == w[k]
    <3>1. y \in Seq(Bytes)
      BY <1>2, <2>1
    <3> HIDE DEF y
    <3>2. (E \o y) \o x = E \o (y \o x)
      BY <2>3, <3>1, ConcatAssociative
    <3> QED  BY <3>2 DEF y
  <2> QED  BY <2>1, <2>2, <2>4 DEF E
<1>6. v \in [0..Len(fs) -> Seq(Bytes)]
  BY <1>3
<1> HIDE DEF v
<1>7. Wire(v, fs, x, f)
  BY <1>1, <1>4, <1>5, <1>6 DEF Wire
<1>8. SentAfter(v, w, fs, x)
  BY DEF v, SentAfter
<1> QED  BY <1>7, <1>8

\* A frame at the end of a stream is one more of its frames.
LEMMA WireAppends ==
  ASSUME NEW f \in FrameOptions, NEW fs, NEW p \in Seq(Bytes), Encodable(p, f),
         NEW w, Wire(w, fs, EncodeFrame(p, f), f)
  PROVE  \E v : Wire(v, Append(fs, p), <<>>, f) /\ \A i \in 0..Len(fs) : v[i] = w[i]
<1> DEFINE N == Len(fs)
           gs == Append(fs, p)
           v == [i \in 0..(N + 1) |-> IF i = N + 1 THEN <<>> ELSE w[i]]
<1>1. fs \in Seq(Seq(Bytes)) /\ N \in Nat
  BY LenProperties DEF Wire
<1>2. gs \in Seq(Seq(Bytes)) /\ Len(gs) = N + 1 /\ (\A i \in 1..N : gs[i] = fs[i]) /\ gs[N + 1] = p
  BY <1>1, AppendProperties
<1>3. w \in [0..N -> Seq(Bytes)] /\ w[N] = EncodeFrame(p, f)
      /\ \A k \in 1..N : Encodable(fs[k], f) /\ w[k - 1] = EncodeFrame(fs[k], f) \o w[k]
  BY DEF Wire
<1> HIDE DEF N, gs
<1>4. <<>> \in Seq(Bytes)
  BY EmptySeq
<1>5. \A i \in 0..N : i \in 0..(N + 1) /\ i # N + 1
  BY <1>1
<1>6. N + 1 \in 0..(N + 1) /\ N \in 0..N
  BY <1>1
<1>7. (\A i \in 0..N : v[i] = w[i]) /\ v[N + 1] = <<>>
  BY <1>5, <1>6
<1>8. v \in [0..(N + 1) -> Seq(Bytes)]
  <2>1. ASSUME NEW i \in 0..(N + 1) PROVE v[i] \in Seq(Bytes)
    <3>1. i = N + 1 \/ i \in 0..N
      BY <1>1
    <3> QED  BY <1>3, <1>4, <1>7, <3>1
  <2> QED  BY <2>1
<1> HIDE DEF v
<1>9. ASSUME NEW k \in 1..(N + 1) PROVE Encodable(gs[k], f) /\ v[k - 1] = EncodeFrame(gs[k], f) \o v[k]
  <2>1. CASE k = N + 1
    <3>1. k - 1 = N
      BY <1>1, <2>1
    <3>2. v[k - 1] = EncodeFrame(p, f)
      BY <1>3, <1>6, <1>7, <3>1
    <3>3. gs[k] = p /\ v[k] = <<>>
      BY <1>2, <1>7, <2>1
    <3>4. EncodeFrame(p, f) \o <<>> = EncodeFrame(p, f)
      <4>1. EncodeFrame(p, f) \in Seq(Bytes)
        BY FrameIs
      <4> QED  BY <4>1, ConcatEmptySeq
    <3> QED  BY <3>2, <3>3, <3>4
  <2>2. CASE k # N + 1
    <3>1. k \in 1..N /\ k \in 0..N /\ k - 1 \in 0..N
      BY <1>1, <2>2
    <3>2. gs[k] = fs[k] /\ v[k] = w[k] /\ v[k - 1] = w[k - 1]
      BY <1>2, <1>7, <3>1
    <3> QED  BY <1>3, <3>1, <3>2
  <2> QED  BY <2>1, <2>2
<1>10. Wire(v, gs, <<>>, f)
  BY <1>1, <1>2, <1>4, <1>7, <1>8, <1>9 DEF Wire
<1> QED  BY <1>7, <1>10 DEF N, gs

LEMMA PrefixIs ==
  ASSUME NEW a \in Seq(Seq(Bytes)), NEW b \in Seq(Seq(Bytes)), Len(a) <= Len(b), \A k \in 1..Len(a) : a[k] = b[k]
  PROVE  IsPrefix(a, b)
<1> DEFINE s == SubSeq(b, 1, Len(a))
<1>1. Len(a) \in Nat /\ Len(b) \in Nat
  BY LenProperties
<1>2. \A i \in 1..Len(a) : b[i] \in Seq(Bytes)
  BY ElementOfSeq
<1>3. /\ s \in Seq(Seq(Bytes)) /\ Len(s) = IF 1 <= Len(a) THEN Len(a) - 1 + 1 ELSE 0
      /\ \A i \in 1..(Len(a) - 1 + 1) : s[i] = b[1 + i - 1]
  BY <1>1, <1>2, SubSeqProperties
<1> HIDE DEF s
<1>4. Len(s) = Len(a)
  BY <1>1, <1>3
<1>5. \A i \in 1..Len(a) : i \in 1..(Len(a) - 1 + 1) /\ 1 + i - 1 = i
  BY <1>1
<1>6. \A i \in 1..Len(a) : s[i] = a[i]
  BY <1>3, <1>5
<1>7. s = a
  BY <1>3, <1>4, <1>6, SeqEqual
<1>8. SubSeq(a, 1, Len(a)) = a
  BY SubSeqFull
<1> QED  BY <1>7, <1>8 DEF s, IsPrefix

-----------------------------------------------------------------------------
FrameTypes ==
  /\ options \in FrameOptions /\ frames \in Seq(Seq(Bytes)) /\ delivered \in Seq(Seq(Bytes))
  /\ stream \in Seq(Bytes) /\ buffer \in Seq(Bytes) /\ taken \in Seq(Bytes)
  /\ junk \in BOOLEAN /\ broken \in BOOLEAN

\* What has been routed is what was sent first.
RoutedInv == Len(delivered) <= Len(frames) /\ \A k \in 1..Len(delivered) : delivered[k] = frames[k]

\* As long as the connection is there, what the session holds and what is on its way are the stream from the frame
\* that is next, and the one-shot adapter's bytes are the stream from its beginning.
StreamInv ==
  ~broken =>
    /\ buffer = <<>> \/ DecodeFrame(buffer, options).status = "incomplete"
    /\ \E w : /\ Wire(w, frames, TailOf(junk, options), options)
              /\ buffer \o stream = w[Len(delivered)] /\ taken \o stream = w[0]

\* The one-shot adapter's answer is the first frame.
FirstAnswerInv == answer.status = "response" => Len(frames) >= 1 /\ answer.payload = frames[1]

FrameInv == FrameTypes /\ RoutedInv /\ StreamInv /\ FirstAnswerInv

LEMMA FrameInitInv == FrameInit => FrameInv
<1> SUFFICES ASSUME FrameInit PROVE FrameInv
  OBVIOUS
<1>1. <<>> \in Seq(Bytes) /\ <<>> \in Seq(Seq(Bytes)) /\ Len(<<>>) = 0
  BY EmptySeq
<1>2. FrameTypes
  BY <1>1 DEF FrameInit, FrameTypes
<1>3. delivered = <<>> /\ frames = <<>> /\ buffer = <<>> /\ stream = <<>> /\ taken = <<>> /\ ~junk /\ answer.status = "none"
  BY DEF FrameInit
<1>4. RoutedInv
  BY <1>1, <1>3 DEF RoutedInv
<1>5. Wire([i \in 0..0 |-> <<>>], frames, TailOf(junk, options), options)
  BY <1>1, <1>3 DEF Wire, TailOf
<1>6. <<>> \o <<>> = <<>>
  BY <1>1, ConcatEmptySeq
<1>7. StreamInv
  <2> DEFINE w == [i \in 0..0 |-> <<>>]
  <2>1. Wire(w, frames, TailOf(junk, options), options)
    BY <1>5
  <2>2. w[0] = <<>> /\ Len(delivered) = 0
    BY <1>1, <1>3
  <2> HIDE DEF w
  <2> QED  BY <1>3, <1>6, <2>1, <2>2 DEF StreamInv
<1>8. FirstAnswerInv
  BY <1>3 DEF FirstAnswerInv
<1> QED  BY <1>2, <1>4, <1>7, <1>8 DEF FrameInv

\* More is sent: the stream grows at its end, whoever has read what of it.
LEMMA StreamGrows ==
  ASSUME FrameTypes, RoutedInv, ~junk, ~broken, StreamInv, NEW x \in Seq(Bytes)
  PROVE  \E v : /\ Wire(v, frames, x, options)
                /\ buffer \o (stream \o x) = v[Len(delivered)] /\ taken \o (stream \o x) = v[0]
<1>1. PICK w : /\ Wire(w, frames, <<>>, options)
               /\ buffer \o stream = w[Len(delivered)] /\ taken \o stream = w[0]
  BY DEF StreamInv, TailOf
<1>2. options \in FrameOptions /\ stream \in Seq(Bytes) /\ buffer \in Seq(Bytes) /\ taken \in Seq(Bytes)
  BY DEF FrameTypes
<1>3. PICK v : Wire(v, frames, x, options) /\ SentAfter(v, w, frames, x)
  BY <1>1, <1>2, WireGrows
<1>4. Len(frames) \in Nat /\ Len(delivered) \in Nat
  BY LenProperties DEF FrameTypes
<1>5. Len(delivered) \in 0..Len(frames) /\ 0 \in 0..Len(frames)
  BY <1>4 DEF RoutedInv
<1>6. (buffer \o stream) \o x = buffer \o (stream \o x) /\ (taken \o stream) \o x = taken \o (stream \o x)
  BY SMTT(40), <1>2, ConcatAssociative
<1> QED  BY <1>1, <1>3, <1>5, <1>6 DEF SentAfter

LEMMA SendFrameInv == ASSUME FrameInv, NEW p \in Payloads, SendFrame(p) PROVE FrameInv'
<1> USE DEF FrameInv
<1> DEFINE E == EncodeFrame(p, options)
<1>1. p \in Seq(Bytes)
  BY FrameAssumption
<1>2. Encodable(p, options) /\ ~junk /\ frames' = Append(frames, p) /\ stream' = stream \o E
  BY DEF SendFrame
<1>3. UNCHANGED <<options, buffer, delivered, junk, broken, taken, answer>>
  BY DEF SendFrame
<1>4. /\ options \in FrameOptions /\ frames \in Seq(Seq(Bytes)) /\ delivered \in Seq(Seq(Bytes)) /\ stream \in Seq(Bytes)
      /\ Len(frames) \in Nat /\ Len(delivered) \in Nat
  BY LenProperties DEF FrameTypes
<1>5. E \in Seq(Bytes)
  BY <1>1, <1>2, <1>4, FrameIs
<1>6. /\ frames' \in Seq(Seq(Bytes)) /\ Len(frames') = Len(frames) + 1
      /\ \A k \in 1..Len(frames) : frames'[k] = frames[k]
  BY <1>1, <1>2, <1>4, AppendProperties
<1> HIDE DEF E
<1>7. FrameTypes'
  <2>1. stream' \in Seq(Bytes)
    BY <1>2, <1>4, <1>5, ConcatProperties
  <2> QED  BY <1>3, <1>6, <2>1 DEF FrameTypes
<1>8. RoutedInv'
  <2>1. Len(delivered) <= Len(frames) /\ \A k \in 1..Len(delivered) : delivered[k] = frames[k]
    BY DEF RoutedInv
  <2>2. Len(delivered) <= Len(frames) + 1 /\ \A k \in 1..Len(delivered) : k \in 1..Len(frames)
    BY <1>4, <2>1
  <2>3. \A k \in 1..Len(delivered) : delivered[k] = frames'[k]
    BY <1>6, <2>1, <2>2
  <2> QED  BY <1>3, <1>6, <2>2, <2>3 DEF RoutedInv
<1>9. StreamInv'
  <2> SUFFICES ASSUME ~broken
               PROVE  /\ buffer = <<>> \/ DecodeFrame(buffer, options).status = "incomplete"
                      /\ \E v : /\ Wire(v, frames', <<>>, options)
                                /\ buffer \o stream' = v[Len(delivered)] /\ taken \o stream' = v[0]
    BY <1>2, <1>3 DEF StreamInv, TailOf
  <2>1. PICK w : /\ Wire(w, frames, E, options)
                 /\ buffer \o stream' = w[Len(delivered)] /\ taken \o stream' = w[0]
    BY <1>2, <1>5, StreamGrows
  <2>2. PICK v : Wire(v, frames', <<>>, options) /\ \A i \in 0..Len(frames) : v[i] = w[i]
    BY <1>1, <1>2, <1>4, <2>1, WireAppends DEF E
  <2>3. Len(delivered) \in 0..Len(frames) /\ 0 \in 0..Len(frames)
    BY <1>4 DEF RoutedInv
  <2> QED  BY <2>1, <2>2, <2>3 DEF StreamInv
<1>10. FirstAnswerInv'
  <2> SUFFICES ASSUME answer.status = "response" PROVE Len(frames') >= 1 /\ answer.payload = frames'[1]
    BY <1>3 DEF FirstAnswerInv
  <2>1. Len(frames) >= 1 /\ answer.payload = frames[1]
    BY DEF FirstAnswerInv
  <2>2. 1 \in 1..Len(frames) /\ Len(frames) + 1 >= 1
    BY <1>4, <2>1
  <2> QED  BY <1>6, <2>1, <2>2
<1> QED  BY <1>7, <1>8, <1>9, <1>10

LEMMA SendJunkInv == ASSUME FrameInv, SendJunk PROVE FrameInv'
<1> USE DEF FrameInv
<1> DEFINE J == JunkOf(options)
<1>1. ~junk /\ junk' = TRUE /\ stream' = stream \o J
  BY DEF SendJunk, JunkOf
<1>2. UNCHANGED <<options, frames, buffer, delivered, broken, taken, answer>>
  BY DEF SendJunk
<1>3. options \in FrameOptions /\ stream \in Seq(Bytes)
  BY DEF FrameTypes
<1>4. TailOf(TRUE, options) = J /\ J \in Seq(Bytes)
  BY <1>3, TailIs DEF TailOf
<1> HIDE DEF J
<1>5. FrameTypes'
  <2>1. stream' \in Seq(Bytes)
    BY <1>1, <1>3, <1>4, ConcatProperties
  <2> QED  BY <1>1, <1>2, <2>1 DEF FrameTypes
<1>6. RoutedInv' /\ FirstAnswerInv'
  BY <1>2 DEF RoutedInv, FirstAnswerInv
<1>7. StreamInv'
  <2> SUFFICES ASSUME ~broken
               PROVE  /\ buffer = <<>> \/ DecodeFrame(buffer, options).status = "incomplete"
                      /\ \E v : /\ Wire(v, frames, J, options)
                                /\ buffer \o stream' = v[Len(delivered)] /\ taken \o stream' = v[0]
    BY <1>1, <1>2, <1>4 DEF StreamInv
  <2>1. \E v : /\ Wire(v, frames, J, options)
               /\ buffer \o stream' = v[Len(delivered)] /\ taken \o stream' = v[0]
    BY <1>1, <1>4, StreamGrows
  <2> QED  BY <2>1 DEF StreamInv
<1> QED  BY <1>5, <1>6, <1>7

LEMMA ArriveInv == ASSUME FrameInv, NEW n \in 1..Len(stream), Arrive(n) PROVE FrameInv'
<1> USE DEF FrameInv
<1> DEFINE chunk == SubSeq(stream, 1, n)
           rest == SubSeq(stream, n + 1, Len(stream))
           b == buffer \o chunk
           t == taken \o chunk
           d == DrainFrames(b, options)
           T == TailOf(junk, options)
<1>1. /\ ~broken /\ buffer' = d.bytes /\ delivered' = delivered \o d.out /\ broken' = d.broken /\ taken' = t
      /\ answer' = (IF answer.status # "none" THEN answer ELSE ResolveDecoded(t, options))
      /\ stream' = rest /\ UNCHANGED <<options, frames, junk>>
  BY DEF Arrive
<1>2. /\ options \in FrameOptions /\ frames \in Seq(Seq(Bytes)) /\ delivered \in Seq(Seq(Bytes)) /\ stream \in Seq(Bytes)
      /\ buffer \in Seq(Bytes) /\ taken \in Seq(Bytes) /\ junk \in BOOLEAN
      /\ Len(frames) \in Nat /\ Len(delivered) \in Nat /\ Len(stream) \in Nat
  BY SMTT(40), LenProperties DEF FrameTypes
<1>3. chunk \in Seq(Bytes) /\ rest \in Seq(Bytes) /\ chunk \o rest = stream
  <2>1. \A i \in 1..Len(stream) : stream[i] \in Bytes
    BY <1>2, ElementOfSeq
  <2>2. n \in Nat /\ (\A i \in 1..n : i \in 1..Len(stream)) /\ \A i \in (n + 1)..Len(stream) : i \in 1..Len(stream)
    BY <1>2
  <2>3. chunk \in Seq(Bytes) /\ rest \in Seq(Bytes)
    BY <1>2, <2>1, <2>2, SubSeqProperties
  <2>4. 1 \in 1..(Len(stream) + 1) /\ n \in (1 - 1)..Len(stream) /\ Len(stream) \in n..Len(stream)
    BY <1>2, <2>2
  <2>5. SubSeq(stream, 1, n) \o SubSeq(stream, n + 1, Len(stream)) = SubSeq(stream, 1, Len(stream))
    BY <1>2, <2>4, ConcatAdjacentSubSeq
  <2>6. SubSeq(stream, 1, Len(stream)) = stream
    BY <1>2, SubSeqFull
  <2> QED  BY <2>3, <2>5, <2>6
<1>4. PICK w : Wire(w, frames, T, options) /\ buffer \o stream = w[Len(delivered)] /\ taken \o stream = w[0]
  BY <1>1 DEF StreamInv
<1> HIDE DEF chunk, rest
<1>5. b \in Seq(Bytes) /\ t \in Seq(Bytes) /\ b \o rest = w[Len(delivered)] /\ t \o rest = w[0]
  <2>1. b \in Seq(Bytes) /\ t \in Seq(Bytes)
    BY <1>2, <1>3, ConcatProperties
  <2>2. (buffer \o chunk) \o rest = buffer \o (chunk \o rest) /\ (taken \o chunk) \o rest = taken \o (chunk \o rest)
    <3>1. buffer \in Seq(Bytes) /\ taken \in Seq(Bytes) /\ chunk \in Seq(Bytes) /\ rest \in Seq(Bytes)
      BY <1>2, <1>3
    <3>2. \A x, y, z \in Seq(Bytes) : (x \o y) \o z = x \o (y \o z)
      BY SMTT(40), ConcatAssociative
    <3>3. (buffer \o chunk) \o rest = buffer \o (chunk \o rest) /\ (taken \o chunk) \o rest = taken \o (chunk \o rest)
      BY ZenonT(60), <3>1, <3>2, Zenon
    <3> QED  BY <3>3
  <2> QED  BY <1>3, <1>4, <2>1, <2>2
<1>6. T \in {<<>>, JunkOf(options)}
  BY <1>2, TailIs
<1>7. Len(delivered) \in 0..Len(frames) /\ 0 \in 0..Len(frames)
  BY <1>2 DEF RoutedInv
<1> HIDE DEF T, b, t
<1>8. Kept(d, w, frames, Len(delivered), rest) /\ Settled(d, options)
  <2> DEFINE m == Len(delivered)
  <2>1. m \in 0..Len(frames) /\ b \o rest = w[m]
    BY <1>5, <1>7
  <2> HIDE DEF m
  <2>2. Kept(d, w, frames, m, rest) /\ Settled(d, options)
    BY <1>2, <1>3, <1>4, <1>5, <1>6, <2>1, DrainsKeep
  <2> QED  BY <2>2 DEF m
<1> HIDE DEF d
<1>9. /\ d.bytes \in Seq(Bytes) /\ d.out \in Seq(Seq(Bytes)) /\ d.broken \in BOOLEAN /\ Len(d.out) \in Nat
      /\ Len(delivered) + Len(d.out) <= Len(frames)
      /\ \A k \in 1..Len(d.out) : d.out[k] = frames[Len(delivered) + k]
      /\ ~d.broken => d.bytes \o rest = w[Len(delivered) + Len(d.out)]
  <2>1. d.bytes \in Seq(Bytes) /\ d.out \in Seq(Seq(Bytes)) /\ d.broken \in BOOLEAN
    BY <1>8 DEF Kept, Drains
  <2>2. Len(d.out) \in Nat
    BY <2>1, LenProperties
  <2> QED  BY <1>8, <2>1, <2>2 DEF Kept
<1>10. /\ delivered' \in Seq(Seq(Bytes)) /\ Len(delivered') = Len(delivered) + Len(d.out)
       /\ \A i \in 1..(Len(delivered) + Len(d.out)) :
            delivered'[i] = IF i <= Len(delivered) THEN delivered[i] ELSE d.out[i - Len(delivered)]
  <2>1. delivered' = delivered \o d.out /\ d.out \in Seq(Seq(Bytes)) /\ delivered \in Seq(Seq(Bytes))
    BY <1>1, <1>2, <1>9
  <2> QED  BY <2>1, ConcatProperties
<1>11. FrameTypes'
  BY <1>1, <1>2, <1>3, <1>5, <1>9, <1>10 DEF FrameTypes
<1>12. RoutedInv'
  <2>1. Len(delivered') <= Len(frames)
    BY <1>9, <1>10
  <2>2. ASSUME NEW i \in 1..Len(delivered') PROVE delivered'[i] = frames[i]
    <3>1. i \in 1..(Len(delivered) + Len(d.out)) /\ i \in Nat
      BY <1>10
    <3>2. CASE i <= Len(delivered)
      <4>1. i \in 1..Len(delivered)
        BY <1>2, <3>1, <3>2
      <4>2. delivered[i] = frames[i]
        BY <4>1 DEF RoutedInv
      <4> QED  BY <1>10, <3>1, <3>2, <4>2
    <3>3. CASE ~(i <= Len(delivered))
      <4> DEFINE k == i - Len(delivered)
      <4>1. k \in 1..Len(d.out) /\ Len(delivered) + k = i
        <5>1. Len(delivered) \in Nat /\ Len(d.out) \in Nat
          BY <1>2, <1>9
        <5> QED  BY <3>1, <3>3, <5>1
      <4>2. delivered'[i] = d.out[k]
        BY <1>10, <3>1, <3>3
      <4> HIDE DEF k
      <4>3. d.out[k] = frames[Len(delivered) + k]
        BY <1>9, <4>1
      <4> QED  BY <4>1, <4>2, <4>3
    <3> QED  BY <3>2, <3>3
  <2> QED  BY <1>1, <2>1, <2>2 DEF RoutedInv
<1>13. StreamInv'
  <2> SUFFICES ASSUME ~d.broken
               PROVE  /\ d.bytes = <<>> \/ DecodeFrame(d.bytes, options).status = "incomplete"
                      /\ \E v : /\ Wire(v, frames, T, options)
                                /\ d.bytes \o rest = v[Len(delivered')] /\ t \o rest = v[0]
    BY <1>1 DEF StreamInv, T
  <2>1. d.bytes = <<>> \/ DecodeFrame(d.bytes, options).status = "incomplete"
    BY <1>8 DEF Settled
  <2>2. d.bytes \o rest = w[Len(delivered')]
    BY <1>9, <1>10
  <2> QED  BY <1>4, <1>5, <2>1, <2>2
<1>14. FirstAnswerInv'
  <2>1. CASE answer.status # "none"
    BY <1>1, <2>1 DEF FirstAnswerInv
  <2>2. CASE answer.status = "none"
    <3> DEFINE c == DecodeFrame(t, options)
    <3>1. answer' = ResolveDecoded(t, options)
      BY <1>1, <2>2
    <3>2. c.status \in {"incomplete", "invalid", "complete"}
      BY <1>2, <1>5, DecodedIs
    <3>3. answer'.status = "response" => c.status = "complete" /\ answer'.payload = c.payload
      BY <3>1, <3>2 DEF ResolveDecoded
    <3>4. Stands(t, rest, 0, frames, w, T, options)
      BY <1>2, <1>3, <1>4, <1>5, <1>6, <1>7, Position
    <3>5. c.status = "complete" => 0 + 1 \in 1..Len(frames) /\ c.payload = frames[0 + 1]
      BY <3>4 DEF Stands
    <3> HIDE DEF c
    <3>6. c.status = "complete" => Len(frames) >= 1 /\ c.payload = frames[1]
      BY <1>2, <3>5
    <3> QED  BY <1>1, <3>3, <3>6 DEF FirstAnswerInv
  <2> QED  BY <2>1, <2>2
<1> QED  BY <1>11, <1>12, <1>13, <1>14

LEMMA FrameStepInv == FrameInv /\ [FrameNext]_frameVars => FrameInv'
<1> SUFFICES ASSUME FrameInv, [FrameNext]_frameVars PROVE FrameInv'
  OBVIOUS
<1>1. CASE \E p \in Payloads : SendFrame(p)
  BY <1>1, SendFrameInv
<1>2. CASE SendJunk
  BY <1>2, SendJunkInv
<1>3. CASE \E n \in 1..Len(stream) : Arrive(n)
  BY <1>3, ArriveInv
<1>4. CASE UNCHANGED frameVars
  BY <1>4 DEF frameVars, FrameInv, FrameTypes, RoutedInv, StreamInv, FirstAnswerInv
<1> QED  BY <1>1, <1>2, <1>3, <1>4 DEF FrameNext

\* The invariant is enough.
LEMMA FramesAreHonest == FrameInv => FramesAreRouted
<1> SUFFICES ASSUME FrameInv PROVE FramesAreRouted
  OBVIOUS
<1> USE DEF FrameInv
<1>1. /\ options \in FrameOptions /\ frames \in Seq(Seq(Bytes)) /\ delivered \in Seq(Seq(Bytes)) /\ stream \in Seq(Bytes)
      /\ buffer \in Seq(Bytes) /\ junk \in BOOLEAN /\ Len(frames) \in Nat /\ Len(delivered) \in Nat
  BY LenProperties DEF FrameTypes
<1>2. Len(delivered) <= Len(frames) /\ \A k \in 1..Len(delivered) : delivered[k] = frames[k]
  BY DEF RoutedInv
<1>3. FramesInOrder
  BY <1>1, <1>2, PrefixIs DEF FramesInOrder
<1>4. EveryFrameIsRouted
  <2> SUFFICES ASSUME stream = <<>>, ~broken PROVE delivered = frames /\ buffer = <<>> /\ ~junk
    BY DEF EveryFrameIsRouted
  <2> DEFINE T == TailOf(junk, options)
             m == Len(delivered)
  <2>1. buffer = <<>> \/ DecodeFrame(buffer, options).status = "incomplete"
    BY DEF StreamInv
  <2>2. PICK w : Wire(w, frames, T, options) /\ buffer \o stream = w[m]
    BY DEF StreamInv
  <2>3. T \in {<<>>, JunkOf(options)} /\ (T = <<>> => ~junk)
    BY <1>1, TailIs
  <2>4. m \in 0..Len(frames)
    BY <1>1, <1>2
  <2> HIDE DEF T, m
  <2>5. Stands(buffer, stream, m, frames, w, T, options)
    BY <1>1, <2>2, <2>3, <2>4, Position
  <2>6. m = Len(frames) /\ T = <<>> /\ buffer = <<>>
    BY <2>1, <2>5 DEF Stands
  <2>7. delivered = frames
    BY <1>1, <1>2, <2>6, SeqEqual DEF m
  <2> QED  BY <2>3, <2>6, <2>7
<1>5. AnswerIsFirstFrame
  <2> SUFFICES ASSUME answer.status = "response" PROVE frames # <<>> /\ answer.payload = Head(frames)
    BY DEF AnswerIsFirstFrame
  <2>1. Len(frames) >= 1 /\ answer.payload = frames[1]
    BY DEF FirstAnswerInv
  <2>2. Len(<<>>) = 0
    BY EmptySeq
  <2>3. frames # <<>>
    BY <2>1, <2>2
  <2>4. Head(frames) = frames[1]
    BY <1>1, <2>3
  <2> QED  BY <2>1, <2>3, <2>4
<1> QED  BY <1>3, <1>4, <1>5 DEF FramesAreRouted

-----------------------------------------------------------------------------
\* The parts of a host's behaviour that its channels are about.
ChannelInv == SessionInv /\ NativeInv

LEMMA HostStepInv == ChannelInv /\ [HostNext]_hostVars => ChannelInv'
<1> SUFFICES ASSUME ChannelInv, [HostNext]_hostVars PROVE ChannelInv'
  OBVIOUS
<1>1. [SessionNext]_sessionVars /\ [NativeNext]_nativeVars
  BY DEF HostNext, hostVars
<1> QED
  BY <1>1, SessionStepInv, NativeStepInv DEF ChannelInv

\* In either channel and through every drop, timeout, reconnection and disposal, an
\* exchange that reports "notSent" wrote nothing, a response is the response to its
\* own request, the session is available only while it is signed on over the
\* connection there is now, a reply goes out on its message's connection, and no
\* socket is left behind (persistent-session.ts, supervisor.ts, native-tcp.ts).
THEOREM HostChannelsAreHonest == HostSpec => []ChannelsAreHonest
<1>1. HostInit => ChannelInv
  BY SessionInitInv, NativeInitInv DEF HostInit, ChannelInv
<1>2. ChannelInv /\ [HostNext]_hostVars => ChannelInv'
  BY HostStepInv
<1>3. ChannelInv => ChannelsAreHonest
  BY SessionIsHonest, NativeIsHonest DEF ChannelInv, ChannelsAreHonest
<1> QED
  BY <1>1, <1>2, <1>3, PTL DEF HostSpec

\* However the stream is cut into chunks and whatever the host sends after its last
\* frame, the session routes the payloads that were sent, whole and in order, all of
\* them once everything has arrived, drops the connection at what is no frame, and the
\* one-shot adapter answers with the first payload or fails (framing.ts, drainFrames of
\* persistent-session.ts, resolveDecoded of native-tcp.ts).
THEOREM StreamsAreFramed == HostSpec => []FramesAreRouted
<1>1. HostInit => FrameInv
  BY FrameInitInv DEF HostInit
<1>2. FrameInv /\ [HostNext]_hostVars => FrameInv'
  <2>1. [HostNext]_hostVars => [FrameNext]_frameVars
    BY DEF HostNext, hostVars
  <2> QED  BY <2>1, FrameStepInv
<1>3. FrameInv => FramesAreRouted
  BY FramesAreHonest
<1> QED
  BY <1>1, <1>2, <1>3, PTL DEF HostSpec
=============================================================================
