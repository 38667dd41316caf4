----------------------------- MODULE KioskProofs -----------------------------
(***************************************************************************)
(* Proofs about the kiosk runtime, for any number of intents, calls,        *)
(* challenges, refused writes and crashes; about service availability, for  *)
(* any number of gates, leases, suspensions and evaluations; and about the  *)
(* framework's services: the event bus and its requests, prompts and the    *)
(* storage, for any number of publishers, handlers, envelopes, responders,  *)
(* sessions, migrations and calls; about the configuration, for any values  *)
(* and overlapping calls; and about the plugins of an application.          *)
(***************************************************************************)
EXTENDS KioskRuntime, ServiceAvailability, PluginLifecycle, MCPlatform, Configuration,
        WellFoundedInduction, SequenceTheorems, TLAPS

-----------------------------------------------------------------------------
(* The customer operation.                                                 *)

Owners == Intents \cup {NoIntent}
CallPcs == {"idle", "checked", "executing", "done"}
Ops ==
  [intent : Owners, pc : OpPcs, aborted : BOOLEAN, path : {"try", "catch"}, plan : SUBSET Kinds,
   attempts : 0..Budget, res : Custodies, rejected : BOOLEAN]
LedgerRecords == [status : LedgerStatus, custody : Custodies]

KioskTypes ==
  /\ up \in {"down", "recovering", "ready"} /\ todo \subseteq Intents
  /\ startup \in {"ready", "recovering", "intervention"}
  /\ readiness \in [status : {"ready", "degraded", "failed", "recovering", "intervention"},
                    avail : SUBSET Intents]
  /\ caps \in {"available", "degraded", "unavailable"}
  /\ refresh \in {"idle", "evaluating", "waiting"} /\ polling \in BOOLEAN
  /\ call \in [Calls -> [pc : CallPcs, intent : Owners]]
  /\ op \in Ops /\ ledger \in [Intents -> LedgerRecords]
  /\ custody \in Custodies /\ intervention \in BOOLEAN
  /\ answered \subseteq Intents /\ unanswered \subseteq Intents /\ old \subseteq Intents /\ unseen \subseteq Intents
  /\ reader \in Owners
  /\ done \in [Intents -> Nat] /\ passed \in [Intents -> SUBSET Kinds]
  /\ slipped \subseteq Owners /\ kioskFaults \in Nat

Checked(c) == call[c].pc = "checked"

\* Calls and operations exist only in a process that is ready, whose published
\* readiness knows the startup barrier and, once a refresh is over, the lost
\* capability.
CallInv ==
  /\ Active \/ (\E c \in Calls : Checked(c)) => up = "ready" /\ startup = "ready"
  /\ up = "ready" /\ readiness.status \notin {"recovering", "intervention"} => startup = "ready"
  /\ \A c \in Calls : call[c].intent = NoIntent <=> call[c].pc = "idle"
  /\ ~Active => op.pc = "idle" /\ op.path = "try"
  /\ Active => op.pc # "idle"

LostInv ==
  up = "ready" /\ caps = "unavailable" /\ refresh # "evaluating" =>
    /\ readiness.avail \cap CardIntents = {}
    /\ \A c \in Calls : Checked(c) => call[c].intent \notin CardIntents \ slipped
    /\ op.intent \in CardIntents \ slipped => op.aborted

BeforeBusiness == {"acquiring", "cardIn", "assessed", "prepared", "authenticating", "processing"}
AfterBusiness == {"resolving", "applying", "recording", "auditing", "exiting"}

\* The intents that a process has not seen, or only checked, are untouched.
Untouched(i) == done[i] = 0 /\ ledger[i].status = "absent"
Known == {call[c].intent : c \in Calls} \ {NoIntent}

\* An operation and its business: where it is says what was done for its intent.
BusinessInv ==
  /\ answered \subseteq Known /\ op.intent \in Known \cup {NoIntent}
  /\ \A i \in Intents : /\ done[i] > 0 => Mandatory \subseteq passed[i]
                        /\ ledger[i].status = "completed" => done[i] > 0
  /\ op.pc = "authenticating" => Mandatory \subseteq op.plan \cup passed[op.intent]
  /\ op.pc = "processing" => Mandatory \subseteq passed[op.intent]
  /\ op.pc \in AfterBusiness /\ op.path = "try" => done[op.intent] > 0
  /\ op.path = "catch" => op.pc \in AfterBusiness

\* The business of an intent is done in its one run; while no write was refused,
\* the ledger tells the same.
NotYet == {"starting", "wedged"} \cup BeforeBusiness

OnceInv ==
  /\ \A c \in Calls : Checked(c) => call[c].intent \notin answered \cup old
  /\ \A i \in Intents \ unanswered :
       /\ i \notin answered \cup old \cup {op.intent} => done[i] = 0
       /\ done[i] <= 1
  /\ op.pc \in NotYet /\ op.intent \notin unanswered => done[op.intent] = 0
  /\ kioskFaults = 0 =>
    /\ ~op.rejected /\ op.pc # "wedged" /\ unanswered = {}
    /\ \A i \in Intents : /\ i \notin answered \cup old \cup {op.intent} => Untouched(i)
                          /\ ledger[i].status = "failed" => done[i] = 0
    /\ op.pc = "starting" => Untouched(op.intent)
    /\ op.pc \in BeforeBusiness => done[op.intent] = 0 /\ ledger[op.intent].status = "started"
    /\ op.path = "catch" => done[op.intent] = 0

\* The record of an intent that makes recovery look for its card.
Seen(i) ==
  ledger[i].status \in {"started", "intervention"} /\ ledger[i].custody \in {"acquired", "unknown"}

\* A card in the reader is the active operation's, which still has it in its
\* hands, or is on a record that recovery visits or that raised the intervention.
CardInv ==
  /\ reader \in CardIntents \cup {NoIntent}
  /\ (reader # NoIntent /\ reader \notin unseen) =>
       \/ op.intent = reader /\ op.pc = "cardIn"
       \/ /\ Seen(reader)
          /\ up = "recovering" => reader \in todo \/ intervention
          /\ up = "ready" => intervention \/ op.intent = reader
  /\ (Active /\ op.intent = reader /\ reader \notin unseen) =>
       \/ op.pc = "cardIn"
       \/ /\ op.pc \in {"assessed", "prepared", "authenticating", "processing"}
          /\ custody = "acquired"
       \/ op.pc \in {"resolving", "applying"} /\ custody \in {"acquired", "unknown"}
       \/ op.pc = "exiting" /\ intervention
  /\ (op.pc = "applying" /\ op.intent = reader /\ reader \notin unseen) => op.res = "unknown"
  /\ (op.pc \in {"acquiring", "cardIn"} /\ op.intent \notin unseen) =>
       ledger[op.intent].status = "started"

\* An intervention on record is known to the process, or waits for its recovery,
\* which visits unfinished records only.
InterventionInv ==
  /\ \A i \in Intents : ledger[i].status = "intervention" =>
       /\ up = "ready" => intervention
       /\ up = "recovering" => intervention \/ i \in todo
  /\ \A i \in todo : up = "recovering" /\ ledger[i].status \in {"started", "intervention"}

KioskInv ==
  /\ KioskTypes /\ CallInv /\ LostInv /\ BusinessInv /\ OnceInv /\ CardInv /\ InterventionInv

-----------------------------------------------------------------------------
(* What the pieces of an operation's steps do.                             *)

\* It stays the same operation.
SameOperation ==
  op' \in Ops /\ op'.intent = op.intent /\ (op.aborted => op'.aborted) /\ op'.pc # "idle"

LEMMA StageFacts ==
  ASSUME op \in Ops, NEW l \in OpPcs \ {"idle"}, Stage(l)
  PROVE  /\ SameOperation /\ op'.pc = l /\ op'.path = op.path /\ op'.plan = op.plan
         /\ op'.res = op.res /\ op'.rejected = op.rejected
BY DEF Stage, Ops, SameOperation

\* Thrown in the try block it reaches the catch block, else it rejects run().
LEMMA ThrowFacts ==
  ASSUME op \in Ops, Throw
  PROVE  /\ SameOperation /\ op'.path = "catch" /\ op'.plan = op.plan /\ op'.res = op.res
         /\ \/ op.path = "try" /\ op'.pc = "resolving" /\ op'.rejected = op.rejected
            \/ op.path = "catch" /\ op'.pc = "exiting"
<1>1. CASE op.path = "try"
  BY <1>1 DEF Throw, Ops, OpPcs, SameOperation
<1>2. CASE op.path = "catch"
  BY <1>2 DEF Throw, Ops, OpPcs, SameOperation
<1> QED
  BY <1>1, <1>2 DEF Ops

LEMMA NoOpFacts ==
  /\ NoOp \in Ops /\ NoOp.intent = NoIntent /\ NoOp.pc = "idle" /\ NoOp.path = "try"
  /\ NoOp.rejected = FALSE /\ NoOp.aborted = FALSE
<1>1. 0 \in 0..Budget
  BY KioskAssumption
<1> QED
  BY <1>1 DEF NoOp, Ops, OpPcs, Custodies, Owners

LEMMA WriteFacts ==
  ASSUME ledger \in [Intents -> LedgerRecords], op.intent \in Intents,
         NEW rec \in LedgerRecords, Write(rec)
  PROVE  /\ ledger' \in [Intents -> LedgerRecords]
         /\ \A i \in Intents : ledger'[i] = IF i = op.intent THEN rec ELSE ledger[i]
BY DEF Write

\* Only the custody of a record is written, or only its status.
LEMMA WriteCustodyFacts ==
  ASSUME ledger \in [Intents -> LedgerRecords], op.intent \in Intents,
         NEW k \in Custodies, Write([Record EXCEPT !.custody = k])
  PROVE  /\ ledger' \in [Intents -> LedgerRecords]
         /\ \A i \in Intents : /\ ledger'[i].status = ledger[i].status
                               /\ ledger'[i].custody = IF i = op.intent THEN k ELSE ledger[i].custody
<1>1. Record \in LedgerRecords
  BY DEF Record
<1>2. /\ [Record EXCEPT !.custody = k] \in LedgerRecords
      /\ [Record EXCEPT !.custody = k].status = Record.status
      /\ [Record EXCEPT !.custody = k].custody = k
  BY <1>1 DEF LedgerRecords
<1> QED
  BY <1>2, WriteFacts DEF Record

LEMMA WriteStatusFacts ==
  ASSUME ledger \in [Intents -> LedgerRecords], op.intent \in Intents,
         NEW s \in LedgerStatus, Write([Record EXCEPT !.status = s])
  PROVE  /\ ledger' \in [Intents -> LedgerRecords]
         /\ \A i \in Intents : /\ ledger'[i].custody = ledger[i].custody
                               /\ ledger'[i].status = IF i = op.intent THEN s ELSE ledger[i].status
<1>1. Record \in LedgerRecords
  BY DEF Record
<1>2. /\ [Record EXCEPT !.status = s] \in LedgerRecords
      /\ [Record EXCEPT !.status = s].status = s
      /\ [Record EXCEPT !.status = s].custody = Record.custody
  BY <1>1 DEF LedgerRecords
<1> QED
  BY <1>2, WriteFacts DEF Record

\* A card that is given back is no longer in the reader, unless that failed.
LEMMA ReturnCardFacts ==
  ASSUME reader \in Owners, NEW r \in ReturnCard
  PROVE  /\ r[1] \in {"returned", "retained", "unknown"} /\ r[2] \in {NoIntent, reader}
         /\ r[2] # NoIntent => r[1] = "unknown"
BY DEF ReturnCard

\* An active operation has an intent, and its process is ready.
LEMMA ActiveFacts ==
  ASSUME KioskInv, Active
  PROVE  /\ op \in Ops /\ op.intent \in Intents /\ op.intent # NoIntent
         /\ up = "ready" /\ ledger \in [Intents -> LedgerRecords]
BY KioskAssumption DEF KioskInv, KioskTypes, CallInv, Active, Ops, Owners

-----------------------------------------------------------------------------
(* The operation's steps.                                                  *)

\* A step of the operation leaves calls and capabilities as they are.
LEMMA OperationFrame ==
  ASSUME KioskInv, Active, SameOperation, UNCHANGED <<runVars, call, envVars>>
  PROVE  CallInv' /\ LostInv' /\ Active' /\ Known' = Known
<1>1. /\ UNCHANGED <<up, startup, readiness, caps, refresh, call, slipped>>
      /\ Active' /\ Known' = Known
  BY DEF runVars, envVars, Active, SameOperation, Known
<1>2. \A c \in Calls : Checked(c)' <=> Checked(c)
  BY <1>1 DEF Checked
<1> QED
  BY <1>1, <1>2 DEF KioskInv, CallInv, LostInv, SameOperation

\* A write is refused: from now on a fault has happened.
LEMMA RefusedFacts ==
  ASSUME KioskInv, Refused
  PROVE  kioskFaults' \in Nat /\ kioskFaults' # 0
BY DEF KioskInv, KioskTypes, Refused

LEMMA OperationTypes ==
  ASSUME KioskInv, op' \in Ops, ledger' \in [Intents -> LedgerRecords], custody' \in Custodies,
         intervention' \in BOOLEAN, reader' \in Owners, done' \in [Intents -> Nat],
         passed' \in [Intents -> SUBSET Kinds], unseen' \subseteq Intents, kioskFaults' \in Nat,
         UNCHANGED <<runVars, call, envVars>>
  PROVE  KioskTypes'
BY DEF KioskInv, KioskTypes, runVars, envVars

\* An error in a stage, or a refused record of the result.
LEMMA ThrowKeeps ==
  ASSUME KioskInv, Active, Throw,
         op.pc \in BeforeBusiness \ {"cardIn"} \/ op.pc \in {"recording", "auditing"},
         kioskFaults' \in Nat, kioskFaults' = 0 => kioskFaults = 0 /\ op.pc \in BeforeBusiness,
         UNCHANGED <<runVars, call, ledger, custody, intervention, reader, done, passed, unseen,
                     envVars>>
  PROVE  KioskInv'
<1>1. /\ SameOperation /\ op'.path = "catch"
      /\ \/ op.path = "try" /\ op'.pc = "resolving" /\ op'.rejected = op.rejected
         \/ op.path = "catch" /\ op'.pc = "exiting"
  BY ThrowFacts DEF KioskInv, KioskTypes
<1>2. KioskTypes'
  <2>1. /\ ledger \in [Intents -> LedgerRecords] /\ custody \in Custodies
        /\ intervention \in BOOLEAN /\ reader \in Owners /\ done \in [Intents -> Nat]
        /\ passed \in [Intents -> SUBSET Kinds] /\ unseen \subseteq Intents
    BY DEF KioskInv, KioskTypes
  <2> QED
    BY <1>1, <2>1, OperationTypes DEF SameOperation
<1>3. CallInv' /\ LostInv' /\ Active' /\ Known' = Known /\ op.intent \in Intents
  BY <1>1, OperationFrame, ActiveFacts
<1>4. UNCHANGED <<up, todo, call, answered, unanswered, old>>
  BY DEF runVars, envVars
<1>5. BusinessInv'
  BY <1>1, <1>3, <1>4 DEF KioskInv, BusinessInv, SameOperation, AfterBusiness
<1>6. OnceInv'
  BY <1>1, <1>3, <1>4 DEF KioskInv, BusinessInv, OnceInv, SameOperation, BeforeBusiness, NotYet,
     AfterBusiness, Checked, Untouched
<1>7. CardInv'
  BY <1>1, <1>3, <1>4, KioskAssumption
  DEF KioskInv, BusinessInv, CardInv, SameOperation, BeforeBusiness, AfterBusiness, Seen, Active
<1>8. InterventionInv'
  BY <1>4 DEF KioskInv, InterventionInv
<1> QED
  BY <1>2, <1>3, <1>5, <1>6, <1>7, <1>8 DEF KioskInv

\* A stage before the business is through.
LEMMA StageKeeps ==
  ASSUME KioskInv, Active, SameOperation, op'.path = op.path, op'.rejected = op.rejected,
         op.pc \in {"acquiring", "assessed", "prepared", "authenticating"},
         op'.pc \in {"assessed", "prepared", "authenticating", "processing"},
         passed' \in [Intents -> SUBSET Kinds], \A i \in Intents : passed[i] \subseteq passed'[i],
         op'.pc = "authenticating" => Mandatory \subseteq op'.plan \cup passed'[op.intent],
         op'.pc = "processing" => Mandatory \subseteq passed'[op.intent],
         UNCHANGED <<runVars, call, ledger, custody, intervention, reader, done, unseen,
                     kioskFaults, envVars>>
  PROVE  KioskInv'
<1>1. KioskTypes'
  <2>1. /\ ledger \in [Intents -> LedgerRecords] /\ custody \in Custodies
        /\ intervention \in BOOLEAN /\ reader \in Owners /\ done \in [Intents -> Nat]
        /\ unseen \subseteq Intents /\ kioskFaults \in Nat
    BY DEF KioskInv, KioskTypes
  <2> QED
    BY <2>1, OperationTypes DEF SameOperation
<1>2. CallInv' /\ LostInv' /\ Active' /\ Known' = Known /\ op.intent \in Intents
  BY OperationFrame, ActiveFacts
<1>3. UNCHANGED <<up, todo, call, answered, unanswered, old>>
  BY DEF runVars, envVars
<1>4. op.path = "try"
  BY DEF KioskInv, KioskTypes, Ops, BusinessInv, AfterBusiness
<1>5. BusinessInv'
  BY <1>2, <1>3, <1>4 DEF KioskInv, BusinessInv, SameOperation, AfterBusiness
<1>6. OnceInv'
  BY <1>2, <1>3, <1>4 DEF KioskInv, OnceInv, SameOperation, BeforeBusiness, NotYet, Checked, Untouched
<1>7. CardInv'
  BY <1>2, <1>3, KioskAssumption DEF KioskInv, CardInv, SameOperation, Seen, Active
<1>8. InterventionInv'
  BY <1>3 DEF KioskInv, InterventionInv
<1> QED
  BY <1>1, <1>2, <1>5, <1>6, <1>7, <1>8 DEF KioskInv

LEMMA InterruptKeeps ==
  ASSUME KioskInv, InterruptOperation
  PROVE  KioskInv'
<1>1. /\ Active /\ op.intent \in Intents
      /\ UNCHANGED <<runVars, call, ledger, custody, intervention, reader, done, passed, unseen,
                     kioskFaults, envVars>>
  BY ActiveFacts DEF InterruptOperation
<1>2. /\ SameOperation /\ op'.pc = op.pc /\ op'.path = op.path /\ op'.plan = op.plan
      /\ op'.res = op.res /\ op'.rejected = op.rejected
  BY <1>1 DEF InterruptOperation, KioskInv, KioskTypes, CallInv, Ops, SameOperation
<1>3. KioskTypes'
  <2>1. /\ ledger \in [Intents -> LedgerRecords] /\ custody \in Custodies
        /\ intervention \in BOOLEAN /\ reader \in Owners /\ done \in [Intents -> Nat]
        /\ passed \in [Intents -> SUBSET Kinds] /\ unseen \subseteq Intents /\ kioskFaults \in Nat
    BY DEF KioskInv, KioskTypes
  <2> QED
    BY <1>1, <1>2, <2>1, OperationTypes DEF SameOperation
<1>4. CallInv' /\ LostInv' /\ Active' /\ Known' = Known
  BY <1>1, <1>2, OperationFrame
<1>5. UNCHANGED <<up, todo, call, answered, unanswered, old>>
  BY <1>1 DEF runVars, envVars
<1>6. BusinessInv'
  BY <1>1, <1>2, <1>4, <1>5 DEF KioskInv, BusinessInv, SameOperation
<1>7. OnceInv'
  BY <1>1, <1>2, <1>5 DEF KioskInv, OnceInv, SameOperation, Checked, Untouched
<1>8. CardInv' /\ InterventionInv'
  BY <1>1, <1>2, <1>5 DEF KioskInv, CardInv, InterventionInv, SameOperation, Seen, Active
<1> QED
  BY <1>3, <1>4, <1>6, <1>7, <1>8 DEF KioskInv

\* The stages that ask the customer, and what ends them.
LEMMA InputStagesKeep ==
  ASSUME KioskInv, AmountEntered \/ AbortSeen \/ InputFails
  PROVE  KioskInv'
<1>1. /\ Active /\ op \in Ops /\ kioskFaults \in Nat /\ passed \in [Intents -> SUBSET Kinds]
  BY DEF AmountEntered, AbortSeen, InputFails, At, KioskInv, KioskTypes
<1>2. /\ op.pc \in {"acquiring", "assessed", "prepared", "authenticating"}
      /\ UNCHANGED <<runVars, call, ledger, custody, intervention, reader, done, passed, unseen,
                     kioskFaults, envVars>>
  BY DEF AmountEntered, AbortSeen, InputFails, At
<1>3. CASE Throw
  BY <1>1, <1>2, <1>3, ThrowKeeps DEF BeforeBusiness
<1>4. CASE Stage("prepared")
  <2>1. SameOperation /\ op'.pc = "prepared" /\ op'.path = op.path /\ op'.rejected = op.rejected
    BY <1>1, <1>4, StageFacts DEF OpPcs
  <2> QED
    BY <1>1, <1>2, <2>1, StageKeeps
<1>5. CASE op.pc = "assessed" /\ ~(op.attempts + 1 > Budget) /\ op' = [op EXCEPT !.attempts = @ + 1]
  <2>1. op.attempts + 1 \in 0..Budget
    BY <1>1, <1>5, KioskAssumption DEF Ops
  <2>2. SameOperation /\ op'.pc = op.pc /\ op'.path = op.path /\ op'.rejected = op.rejected
    BY <1>1, <1>5, <2>1 DEF SameOperation, Ops
  <2> QED
    BY <1>1, <1>2, <1>5, <2>2, StageKeeps
<1> QED
  BY <1>3, <1>4, <1>5 DEF AmountEntered, AbortSeen, InputFails, At

\* The mandatory challenges are in the plan until they are passed.
LEMMA AuthenticationKeeps ==
  ASSUME KioskInv,
         \/ \E a \in SUBSET Kinds : BuildPlan(a)
         \/ \E k \in op.plan : Challenge(k)
         \/ Authenticated
  PROVE  KioskInv'
<1>1. /\ Active /\ op \in Ops /\ kioskFaults \in Nat /\ passed \in [Intents -> SUBSET Kinds]
      /\ op.pc \in {"prepared", "authenticating"} /\ op.intent \in Intents
  BY ActiveFacts DEF BuildPlan, Challenge, Authenticated, At, KioskInv, KioskTypes
<1>2. UNCHANGED <<runVars, call, ledger, custody, intervention, reader, done, unseen, envVars>>
  BY DEF BuildPlan, Challenge, Authenticated
<1>3. CASE Throw /\ UNCHANGED passed
  <2>1. kioskFaults' \in Nat /\ (kioskFaults' = 0 => kioskFaults = 0)
    BY <1>1, RefusedFacts DEF BuildPlan, Challenge, Authenticated
  <2> QED
    BY <1>1, <1>2, <1>3, <2>1, ThrowKeeps DEF BeforeBusiness
<1>4. CASE \E a \in SUBSET Kinds :
             /\ op' = [op EXCEPT !.pc = "authenticating", !.plan = MergeRequirements(a)]
             /\ UNCHANGED <<passed, kioskFaults>>
  <2>1. PICK a \in SUBSET Kinds :
          op' = [op EXCEPT !.pc = "authenticating", !.plan = MergeRequirements(a)]
    BY <1>4
  <2>2. MergeRequirements(a) \in SUBSET Kinds /\ Mandatory \subseteq MergeRequirements(a)
    BY KioskAssumption DEF MergeRequirements
  <2>3. /\ SameOperation /\ op'.pc = "authenticating" /\ op'.path = op.path
        /\ op'.rejected = op.rejected /\ op'.plan = MergeRequirements(a)
    BY <1>1, <2>1, <2>2 DEF SameOperation, Ops, OpPcs
  <2> QED
    BY <1>1, <1>2, <1>4, <2>2, <2>3, StageKeeps
<1>5. CASE \E k \in op.plan :
             /\ op.pc = "authenticating" /\ op' = [op EXCEPT !.plan = @ \ {k}]
             /\ passed' = [passed EXCEPT ![op.intent] = @ \cup {k}] /\ UNCHANGED kioskFaults
  <2>1. PICK k \in op.plan :
             /\ op.pc = "authenticating" /\ op' = [op EXCEPT !.plan = @ \ {k}]
             /\ passed' = [passed EXCEPT ![op.intent] = @ \cup {k}] /\ UNCHANGED kioskFaults
    BY <1>5
  <2>2. /\ SameOperation /\ op'.pc = "authenticating" /\ op'.path = op.path
        /\ op'.rejected = op.rejected /\ op'.plan = op.plan \ {k}
    BY <1>1, <2>1 DEF SameOperation, Ops, OpPcs
  <2>3. k \in Kinds
    BY <1>1, <2>1 DEF Ops
  <2>4. /\ passed' \in [Intents -> SUBSET Kinds] /\ \A i \in Intents : passed[i] \subseteq passed'[i]
        /\ passed'[op.intent] = passed[op.intent] \cup {k}
    BY <1>1, <2>1, <2>3
  <2>5. Mandatory \subseteq op'.plan \cup passed'[op.intent]
    BY <2>1, <2>2, <2>4 DEF KioskInv, BusinessInv
  <2> QED
    BY <1>1, <1>2, <2>1, <2>2, <2>4, <2>5, StageKeeps
<1>6. CASE op.pc = "authenticating" /\ op.plan = {} /\ Stage("processing") /\ UNCHANGED <<passed, kioskFaults>>
  <2>1. SameOperation /\ op'.pc = "processing" /\ op'.path = op.path /\ op'.rejected = op.rejected
    BY <1>1, <1>6, StageFacts DEF OpPcs
  <2>2. Mandatory \subseteq passed[op.intent]
    BY <1>6 DEF KioskInv, BusinessInv
  <2> QED
    BY <1>1, <1>2, <1>6, <2>1, <2>2, StageKeeps
<1> QED
  BY <1>3, <1>4, <1>5, <1>6 DEF BuildPlan, Challenge, Authenticated, At

\* The customer inserts the card, or identifies without one.
LEMMA CustomerIdentifiesKeeps ==
  ASSUME KioskInv, CustomerIdentifies
  PROVE  KioskInv'
<1>1. /\ Active /\ op \in Ops /\ op.pc = "acquiring" /\ op.intent \in Intents
      /\ passed \in [Intents -> SUBSET Kinds]
      /\ UNCHANGED <<runVars, call, ledger, custody, intervention, done, passed, unseen,
                     kioskFaults, envVars>>
  BY ActiveFacts DEF CustomerIdentifies, At, KioskInv, KioskTypes
<1>2. CASE op.intent \notin CardIntents
  <2>1. Stage("assessed") /\ UNCHANGED reader
    BY <1>2 DEF CustomerIdentifies
  <2>2. SameOperation /\ op'.pc = "assessed" /\ op'.path = op.path /\ op'.rejected = op.rejected
    BY <1>1, <2>1, StageFacts DEF OpPcs
  <2> QED
    BY <1>1, <2>1, <2>2, StageKeeps
<1>3. CASE op.intent \in CardIntents
  <2>1. /\ reader = NoIntent /\ reader' = op.intent /\ Stage("cardIn")
    BY <1>3 DEF CustomerIdentifies
  <2>2. /\ SameOperation /\ op'.pc = "cardIn" /\ op'.path = op.path /\ op'.rejected = op.rejected
    BY <1>1, <2>1, StageFacts DEF OpPcs
  <2>3. KioskTypes'
    <3>1. /\ ledger \in [Intents -> LedgerRecords] /\ custody \in Custodies
          /\ intervention \in BOOLEAN /\ reader' \in Owners /\ done \in [Intents -> Nat]
          /\ unseen \subseteq Intents /\ kioskFaults \in Nat
      BY <1>1, <2>1 DEF KioskInv, KioskTypes, Owners
    <3> QED
      BY <1>1, <2>2, <3>1, OperationTypes DEF SameOperation
  <2>4. CallInv' /\ LostInv' /\ Active' /\ Known' = Known
    BY <1>1, <2>2, OperationFrame
  <2>5. UNCHANGED <<up, todo, call, answered, unanswered, old>>
    BY <1>1 DEF runVars, envVars
  <2>6. BusinessInv'
    BY <1>1, <2>2, <2>4, <2>5 DEF KioskInv, BusinessInv, SameOperation, AfterBusiness
  <2>7. OnceInv'
    BY <1>1, <2>2, <2>5 DEF KioskInv, OnceInv, SameOperation, BeforeBusiness, NotYet, Checked, Untouched
  <2>8. CardInv' /\ InterventionInv'
    BY <1>1, <1>3, <2>1, <2>2, <2>5 DEF KioskInv, CardInv, InterventionInv, SameOperation
  <2> QED
    BY <2>3, <2>4, <2>6, <2>7, <2>8 DEF KioskInv
<1> QED
  BY <1>2, <1>3

\* The custody is on record before the operation goes on; refused, recovery
\* cannot see the card.
LEMMA CardAcquiredKeeps ==
  ASSUME KioskInv, CardAcquired
  PROVE  KioskInv'
<1>1. /\ Active /\ op \in Ops /\ op.pc = "cardIn" /\ op.intent \in Intents /\ up = "ready"
      /\ ledger \in [Intents -> LedgerRecords]
      /\ UNCHANGED <<runVars, call, intervention, reader, done, passed, envVars>>
  BY ActiveFacts DEF CardAcquired, At
<1>2. /\ custody \in Custodies /\ intervention \in BOOLEAN /\ reader \in Owners
      /\ done \in [Intents -> Nat] /\ passed \in [Intents -> SUBSET Kinds]
      /\ unseen \subseteq Intents /\ kioskFaults \in Nat
  BY DEF KioskInv, KioskTypes
<1>3. UNCHANGED <<up, todo, call, answered, unanswered, old>>
  BY <1>1 DEF runVars, envVars
<1>4. op.path = "try"
  BY <1>1 DEF KioskInv, BusinessInv, AfterBusiness, Ops
<1>5. CASE /\ Write([Record EXCEPT !.custody = "acquired"]) /\ custody' = "acquired"
           /\ Stage("assessed") /\ UNCHANGED <<unseen, kioskFaults>>
  <2>1. SameOperation /\ op'.pc = "assessed" /\ op'.path = op.path /\ op'.rejected = op.rejected
    BY <1>1, <1>5, StageFacts DEF OpPcs
  <2>2. /\ ledger' \in [Intents -> LedgerRecords]
        /\ \A i \in Intents : /\ ledger'[i].status = ledger[i].status
                              /\ ledger'[i].custody = IF i = op.intent THEN "acquired" ELSE ledger[i].custody
    BY <1>1, <1>5, WriteCustodyFacts DEF Custodies
  <2>3. KioskTypes'
    BY <1>1, <1>2, <1>5, <2>1, <2>2, OperationTypes DEF SameOperation, Custodies
  <2>4. CallInv' /\ LostInv' /\ Active' /\ Known' = Known
    BY <1>1, <2>1, OperationFrame
  <2>5. BusinessInv'
    BY <1>1, <1>3, <2>1, <2>2, <2>4 DEF KioskInv, BusinessInv, SameOperation, AfterBusiness
  <2>6. OnceInv'
    BY <1>1, <1>3, <1>5, <2>1, <2>2 DEF KioskInv, OnceInv, SameOperation, BeforeBusiness, NotYet, Checked, Untouched
  <2>7. CardInv'
    BY <1>1, <1>2, <1>3, <1>5, <2>1, <2>2
    DEF KioskInv, CardInv, SameOperation, Seen, Owners
  <2>8. InterventionInv'
    BY <1>1, <1>3, <2>2 DEF KioskInv, InterventionInv
  <2> QED
    BY <2>3, <2>4, <2>5, <2>6, <2>7, <2>8 DEF KioskInv
<1>6. CASE /\ Refused /\ Throw /\ unseen' = unseen \cup {op.intent} /\ UNCHANGED <<ledger, custody>>
  <2>1. SameOperation /\ op'.path = "catch" /\ op'.pc = "resolving"
    BY <1>1, <1>4, <1>6, ThrowFacts
  <2>2. kioskFaults' \in Nat /\ kioskFaults' # 0
    BY <1>6, RefusedFacts
  <2>3. KioskTypes'
    BY <1>1, <1>2, <1>6, <2>1, <2>2, OperationTypes DEF SameOperation
  <2>4. CallInv' /\ LostInv' /\ Active' /\ Known' = Known
    BY <1>1, <2>1, OperationFrame
  <2>5. BusinessInv'
    BY <1>1, <1>3, <1>6, <2>1, <2>4 DEF KioskInv, BusinessInv, SameOperation, AfterBusiness
  <2>6. OnceInv'
    BY <1>1, <1>3, <1>6, <2>1, <2>2 DEF KioskInv, OnceInv, SameOperation, BeforeBusiness, NotYet, Checked
  <2>7. CardInv'
    BY <1>1, <1>2, <1>3, <1>6, <2>1 DEF KioskInv, CardInv, SameOperation, Seen
  <2>8. InterventionInv'
    BY <1>1, <1>3, <1>6 DEF KioskInv, InterventionInv
  <2> QED
    BY <2>3, <2>4, <2>5, <2>6, <2>7, <2>8 DEF KioskInv
<1> QED
  BY <1>5, <1>6 DEF CardAcquired

\* The business is done, and leaves the card to the operation or reports on it.
LEMMA BusinessKeeps ==
  ASSUME KioskInv, Business
  PROVE  KioskInv'
<1>1. /\ Active /\ op \in Ops /\ op.pc = "processing" /\ op.intent \in Intents /\ op.intent # NoIntent
      /\ up = "ready" /\ ledger \in [Intents -> LedgerRecords]
      /\ UNCHANGED <<runVars, call, intervention, passed, unseen, envVars>>
  BY ActiveFacts DEF Business, At
<1>2. /\ custody \in Custodies /\ intervention \in BOOLEAN /\ reader \in Owners
      /\ done \in [Intents -> Nat] /\ passed \in [Intents -> SUBSET Kinds]
      /\ unseen \subseteq Intents /\ kioskFaults \in Nat
  BY DEF KioskInv, KioskTypes
<1>3. UNCHANGED <<up, todo, call, answered, unanswered, old>>
  BY <1>1 DEF runVars, envVars
<1>4. op.path = "try" /\ Mandatory \subseteq passed[op.intent]
  BY <1>1 DEF KioskInv, BusinessInv, AfterBusiness, Ops
<1>5. CASE Throw /\ UNCHANGED <<done, reader, ledger, custody, kioskFaults>>
  BY <1>1, <1>2, <1>5, ThrowKeeps DEF BeforeBusiness
<1>6. CASE done' = [done EXCEPT ![op.intent] = @ + 1]
  <2>1. /\ done' \in [Intents -> Nat] /\ done'[op.intent] = done[op.intent] + 1
        /\ done'[op.intent] > 0
        /\ \A i \in Intents : i # op.intent => done'[i] = done[i]
    BY <1>1, <1>2, <1>6
  <2>2. CASE Stage("resolving") /\ UNCHANGED <<reader, ledger, custody, kioskFaults>>
    <3>1. SameOperation /\ op'.pc = "resolving" /\ op'.path = op.path /\ op'.rejected = op.rejected
      BY <1>1, <2>2, StageFacts DEF OpPcs
    <3>2. KioskTypes'
      BY <1>1, <1>2, <2>1, <2>2, <3>1, OperationTypes DEF SameOperation
    <3>3. CallInv' /\ LostInv' /\ Active' /\ Known' = Known
      BY <1>1, <3>1, OperationFrame
    <3>4. BusinessInv'
      BY <1>1, <1>3, <1>4, <2>1, <2>2, <3>1, <3>3 DEF KioskInv, BusinessInv, SameOperation, AfterBusiness
    <3>5. OnceInv'
      BY <1>1, <1>2, <1>3, <1>4, <2>1, <2>2, <3>1
      DEF KioskInv, OnceInv, SameOperation, BeforeBusiness, NotYet, Checked, Untouched
    <3>6. CardInv' /\ InterventionInv'
      BY <1>1, <1>3, <2>2, <3>1 DEF KioskInv, CardInv, InterventionInv, SameOperation, Seen
    <3> QED
      BY <3>2, <3>3, <3>4, <3>5, <3>6 DEF KioskInv
  <2>3. CASE \E r \in ReturnCard :
               /\ reader' = r[2] /\ Write([Record EXCEPT !.custody = r[1]]) /\ custody' = r[1]
               /\ Stage("resolving") /\ UNCHANGED kioskFaults
    <3>1. PICK r \in ReturnCard :
               /\ reader' = r[2] /\ Write([Record EXCEPT !.custody = r[1]]) /\ custody' = r[1]
               /\ Stage("resolving") /\ UNCHANGED kioskFaults
      BY <2>3
    <3>2. /\ r[1] \in {"returned", "retained", "unknown"} /\ r[2] \in {NoIntent, reader}
          /\ r[2] # NoIntent => r[1] = "unknown"
      BY <1>2, <3>1, ReturnCardFacts
    <3>3. SameOperation /\ op'.pc = "resolving" /\ op'.path = op.path /\ op'.rejected = op.rejected
      BY <1>1, <3>1, StageFacts DEF OpPcs
    <3>4. r[1] \in Custodies /\ r[2] \in Owners
      BY <1>2, <3>2 DEF Custodies, Owners
    <3>5. /\ ledger' \in [Intents -> LedgerRecords]
          /\ \A i \in Intents : /\ ledger'[i].status = ledger[i].status
                                /\ ledger'[i].custody = IF i = op.intent THEN r[1] ELSE ledger[i].custody
      BY <1>1, <3>1, <3>4, WriteCustodyFacts
    <3>6. KioskTypes'
      BY <1>1, <1>2, <2>1, <3>1, <3>3, <3>4, <3>5, OperationTypes DEF SameOperation
    <3>7. CallInv' /\ LostInv' /\ Active' /\ Known' = Known
      BY <1>1, <3>3, OperationFrame
    <3>8. BusinessInv'
      BY <1>1, <1>3, <1>4, <2>1, <3>1, <3>3, <3>5, <3>7 DEF KioskInv, BusinessInv, SameOperation, AfterBusiness
    <3>9. OnceInv'
      BY <1>1, <1>2, <1>3, <1>4, <2>1, <3>1, <3>3, <3>5
      DEF KioskInv, OnceInv, SameOperation, BeforeBusiness, NotYet, Checked, Untouched
    <3>10. CardInv'
      <4>1. CASE reader' = NoIntent
        BY <1>1, <3>3, <4>1 DEF KioskInv, CardInv, SameOperation
      <4>2. CASE reader' # NoIntent
        <5>1. reader' = reader /\ r[1] = "unknown" /\ reader \in Intents
          BY <1>2, <3>1, <3>2, <4>2 DEF Owners
        <5> QED
          BY <1>1, <1>3, <3>1, <3>3, <3>5, <5>1 DEF KioskInv, CardInv, SameOperation, Seen
      <4> QED
        BY <4>1, <4>2
    <3>11. InterventionInv'
      BY <1>1, <1>3, <3>5 DEF KioskInv, InterventionInv
    <3> QED
      BY <3>6, <3>7, <3>8, <3>9, <3>10, <3>11 DEF KioskInv
  <2>4. CASE \E r \in ReturnCard :
               reader' = r[2] /\ Refused /\ Throw /\ UNCHANGED <<ledger, custody>>
    <3>1. PICK r \in ReturnCard : reader' = r[2]
      BY <2>4
    <3>2. reader' \in {NoIntent, reader} /\ reader' \in Owners
      BY <1>2, <3>1, ReturnCardFacts DEF Owners
    <3>3. SameOperation /\ op'.path = "catch" /\ op'.pc = "resolving"
      BY <1>1, <1>4, <2>4, ThrowFacts
    <3>4. kioskFaults' \in Nat /\ kioskFaults' # 0
      BY <2>4, RefusedFacts
    <3>5. KioskTypes'
      BY <1>1, <1>2, <2>1, <2>4, <3>2, <3>3, <3>4, OperationTypes DEF SameOperation
    <3>6. CallInv' /\ LostInv' /\ Active' /\ Known' = Known
      BY <1>1, <3>3, OperationFrame
    <3>7. BusinessInv'
      BY <1>1, <1>3, <1>4, <2>1, <2>4, <3>3, <3>6 DEF KioskInv, BusinessInv, SameOperation, AfterBusiness
    <3>8. OnceInv'
      BY <1>1, <1>3, <2>1, <2>4, <3>3, <3>4 DEF KioskInv, OnceInv, SameOperation, BeforeBusiness, NotYet, Checked
    <3>9. CardInv' /\ InterventionInv'
      BY <1>1, <1>3, <2>4, <3>2, <3>3 DEF KioskInv, CardInv, InterventionInv, SameOperation, Seen
    <3> QED
      BY <3>5, <3>6, <3>7, <3>8, <3>9 DEF KioskInv
  <2> QED
    BY <1>6, <2>2, <2>3, <2>4, <1>5 DEF Business
<1> QED
  BY <1>5, <1>6 DEF Business

\* A card that is still in the reader afterwards has an unknown custody.
LEMMA ResolveCustodyKeeps ==
  ASSUME KioskInv, ResolveCustody
  PROVE  KioskInv'
<1>1. /\ Active /\ op \in Ops /\ op.pc = "resolving" /\ op.intent \in Intents /\ op.intent # NoIntent
      /\ up = "ready" /\ ledger \in [Intents -> LedgerRecords]
      /\ UNCHANGED <<runVars, call, ledger, custody, intervention, done, passed, unseen, kioskFaults, envVars>>
  BY ActiveFacts DEF ResolveCustody, At
<1>2. /\ custody \in Custodies /\ intervention \in BOOLEAN /\ reader \in Owners
      /\ done \in [Intents -> Nat] /\ passed \in [Intents -> SUBSET Kinds]
      /\ unseen \subseteq Intents /\ kioskFaults \in Nat
  BY DEF KioskInv, KioskTypes
<1>3. UNCHANGED <<up, todo, call, answered, unanswered, old>>
  BY <1>1 DEF runVars, envVars
<1>4. PICK r \in Resolution : reader' = r[2] /\ op' = [op EXCEPT !.pc = "applying", !.res = r[1]]
  BY DEF ResolveCustody
<1>5. /\ r[1] \in Custodies /\ r[2] \in {NoIntent, reader}
      /\ (op.intent \in CardIntents /\ custody \in {"acquired", "unknown"} /\ r[2] # NoIntent)
           => r[1] = "unknown"
  <2>1. CASE op.intent \notin CardIntents \/ custody = "none"
    BY <2>1 DEF Resolution, Custodies
  <2>2. CASE op.intent \in CardIntents /\ custody \in {"returned", "retained", "unknown"}
    BY <2>2 DEF Resolution, Custodies
  <2>3. CASE op.intent \in CardIntents /\ custody = "acquired"
    <3>1. r \in ReturnCard
      BY <2>3 DEF Resolution
    <3> QED
      BY <1>2, <3>1, ReturnCardFacts DEF Custodies
  <2> QED
    BY <1>2, <2>1, <2>2, <2>3 DEF Custodies
<1>6. /\ SameOperation /\ op'.pc = "applying" /\ op'.path = op.path /\ op'.rejected = op.rejected
      /\ op'.res = r[1]
  BY <1>1, <1>4, <1>5 DEF SameOperation, Ops, OpPcs
<1>7. reader' \in {NoIntent, reader} /\ reader' \in Owners
  BY <1>2, <1>4, <1>5 DEF Owners
<1>8. KioskTypes'
  BY <1>1, <1>2, <1>6, <1>7, OperationTypes DEF SameOperation
<1>9. CallInv' /\ LostInv' /\ Active' /\ Known' = Known
  BY <1>1, <1>6, OperationFrame
<1>10. BusinessInv'
  BY <1>1, <1>3, <1>6, <1>9 DEF KioskInv, BusinessInv, SameOperation, AfterBusiness
<1>11. OnceInv'
  BY <1>1, <1>3, <1>6 DEF KioskInv, OnceInv, SameOperation, BeforeBusiness, NotYet, Checked, Untouched
<1>12. CardInv'
  <2>1. CASE reader' = NoIntent
    BY <1>1, <1>6, <2>1 DEF KioskInv, CardInv, SameOperation
  <2>2. CASE reader' # NoIntent
    <3>1. reader' = reader /\ reader \in CardIntents
      BY <1>7, <2>2 DEF KioskInv, CardInv
    <3>2. (op.intent = reader /\ reader \notin unseen) => op'.res = "unknown"
      BY <1>1, <1>4, <1>5, <1>6, <2>2, <3>1 DEF KioskInv, CardInv
    <3> QED
      BY <1>1, <1>3, <1>6, <3>1, <3>2 DEF KioskInv, CardInv, SameOperation, Seen
  <2> QED
    BY <2>1, <2>2
<1>13. InterventionInv'
  BY <1>1, <1>3 DEF KioskInv, InterventionInv
<1> QED
  BY <1>8, <1>9, <1>10, <1>11, <1>12, <1>13 DEF KioskInv

\* An unknown custody raises the intervention, whether or not it can be written.
LEMMA ApplyCustodyKeeps ==
  ASSUME KioskInv, ApplyCustody
  PROVE  KioskInv'
<1>1. /\ Active /\ op \in Ops /\ op.pc = "applying" /\ op.intent \in Intents /\ op.intent # NoIntent
      /\ up = "ready" /\ ledger \in [Intents -> LedgerRecords]
      /\ UNCHANGED <<runVars, call, reader, done, passed, unseen, envVars>>
  BY ActiveFacts DEF ApplyCustody, At
<1>2. /\ custody \in Custodies /\ intervention \in BOOLEAN /\ reader \in Owners
      /\ done \in [Intents -> Nat] /\ passed \in [Intents -> SUBSET Kinds]
      /\ unseen \subseteq Intents /\ kioskFaults \in Nat
  BY DEF KioskInv, KioskTypes
<1>3. UNCHANGED <<up, todo, call, answered, unanswered, old>>
  BY <1>1 DEF runVars, envVars
<1>4. /\ intervention' \in BOOLEAN /\ (intervention => intervention')
      /\ (op.res = "unknown" => intervention') /\ op.res \in Custodies
  BY <1>1, <1>2 DEF ApplyCustody, Ops
<1>5. CASE /\ custody' = op.res /\ op.res = "unknown" /\ UNCHANGED kioskFaults
           /\ Write([status |-> "intervention", custody |-> "unknown"]) /\ Stage("exiting")
  <2>1. SameOperation /\ op'.pc = "exiting" /\ op'.path = op.path /\ op'.rejected = op.rejected
    BY <1>1, <1>5, StageFacts DEF OpPcs
  <2>2. /\ ledger' \in [Intents -> LedgerRecords]
        /\ \A i \in Intents : i # op.intent => ledger'[i] = ledger[i]
        /\ ledger'[op.intent].status = "intervention" /\ ledger'[op.intent].custody = "unknown"
    <3>1. [status |-> "intervention", custody |-> "unknown"] \in LedgerRecords
      BY DEF LedgerRecords, LedgerStatus, Custodies
    <3> QED
      BY <1>1, <1>5, <3>1, WriteFacts
  <2>3. KioskTypes'
    BY <1>1, <1>2, <1>4, <1>5, <2>1, <2>2, OperationTypes DEF SameOperation
  <2>4. CallInv' /\ LostInv' /\ Active' /\ Known' = Known
    BY <1>1, <2>1, OperationFrame
  <2>5. BusinessInv'
    BY <1>1, <1>3, <2>1, <2>2, <2>4 DEF KioskInv, BusinessInv, SameOperation, AfterBusiness
  <2>6. OnceInv'
    BY <1>1, <1>3, <1>5, <2>1, <2>2 DEF KioskInv, OnceInv, SameOperation, BeforeBusiness, NotYet, Checked, Untouched
  <2>7. CardInv'
    BY <1>1, <1>2, <1>3, <1>4, <1>5, <2>1, <2>2 DEF KioskInv, CardInv, SameOperation, Seen, Owners
  <2>8. InterventionInv'
    BY <1>1, <1>3, <1>4, <1>5, <2>2 DEF KioskInv, InterventionInv
  <2> QED
    BY <2>3, <2>4, <2>5, <2>6, <2>7, <2>8 DEF KioskInv
<1>6. CASE /\ custody' = op.res /\ op.res # "unknown" /\ UNCHANGED kioskFaults
           /\ Write([Record EXCEPT !.custody = op.res]) /\ Stage("recording")
  <2>1. SameOperation /\ op'.pc = "recording" /\ op'.path = op.path /\ op'.rejected = op.rejected
    BY <1>1, <1>6, StageFacts DEF OpPcs
  <2>2. /\ ledger' \in [Intents -> LedgerRecords]
        /\ \A i \in Intents : /\ ledger'[i].status = ledger[i].status
                              /\ ledger'[i].custody = IF i = op.intent THEN op.res ELSE ledger[i].custody
    BY <1>1, <1>4, <1>6, WriteCustodyFacts
  <2>3. KioskTypes'
    BY <1>1, <1>2, <1>4, <1>6, <2>1, <2>2, OperationTypes DEF SameOperation
  <2>4. CallInv' /\ LostInv' /\ Active' /\ Known' = Known
    BY <1>1, <2>1, OperationFrame
  <2>5. BusinessInv'
    BY <1>1, <1>3, <2>1, <2>2, <2>4 DEF KioskInv, BusinessInv, SameOperation, AfterBusiness
  <2>6. OnceInv'
    BY <1>1, <1>3, <1>6, <2>1, <2>2 DEF KioskInv, OnceInv, SameOperation, BeforeBusiness, NotYet, Checked, Untouched
  <2>7. CardInv'
    BY <1>1, <1>2, <1>3, <1>4, <1>6, <2>1, <2>2 DEF KioskInv, CardInv, SameOperation, Seen, Owners
  <2>8. InterventionInv'
    BY <1>1, <1>3, <1>4, <2>2 DEF KioskInv, InterventionInv
  <2> QED
    BY <2>3, <2>4, <2>5, <2>6, <2>7, <2>8 DEF KioskInv
<1>7. CASE Refused /\ Throw /\ UNCHANGED <<ledger, custody>>
  <2>1. /\ SameOperation /\ op'.path = "catch"
        /\ op'.pc = "resolving" \/ (op'.pc = "exiting" /\ op.path = "catch")
    BY <1>1, <1>7, ThrowFacts
  <2>2. kioskFaults' \in Nat /\ kioskFaults' # 0
    BY <1>7, RefusedFacts
  <2>3. KioskTypes'
    BY <1>1, <1>2, <1>4, <1>7, <2>1, <2>2, OperationTypes DEF SameOperation
  <2>4. CallInv' /\ LostInv' /\ Active' /\ Known' = Known
    BY <1>1, <2>1, OperationFrame
  <2>5. BusinessInv'
    BY <1>1, <1>3, <1>7, <2>1, <2>4 DEF KioskInv, BusinessInv, SameOperation, AfterBusiness
  <2>6. OnceInv'
    BY <1>1, <1>3, <1>7, <2>1, <2>2 DEF KioskInv, OnceInv, SameOperation, BeforeBusiness, NotYet, Checked
  <2>7. CardInv'
    BY <1>1, <1>2, <1>3, <1>4, <1>7, <2>1 DEF KioskInv, CardInv, SameOperation, Seen
  <2>8. InterventionInv'
    BY <1>1, <1>3, <1>4, <1>7 DEF KioskInv, InterventionInv
  <2> QED
    BY <2>3, <2>4, <2>5, <2>6, <2>7, <2>8 DEF KioskInv
<1> QED
  BY <1>5, <1>6, <1>7 DEF ApplyCustody

\* The ledger says what became of the business.
LEMMA RecordResultKeeps ==
  ASSUME KioskInv, RecordResult
  PROVE  KioskInv'
<1>1. /\ Active /\ op \in Ops /\ op.pc = "recording" /\ op.intent \in Intents /\ op.intent # NoIntent
      /\ up = "ready" /\ ledger \in [Intents -> LedgerRecords]
      /\ UNCHANGED <<runVars, call, custody, intervention, reader, done, passed, unseen, envVars>>
  BY ActiveFacts DEF RecordResult, At
<1>2. /\ custody \in Custodies /\ intervention \in BOOLEAN /\ reader \in Owners
      /\ done \in [Intents -> Nat] /\ passed \in [Intents -> SUBSET Kinds]
      /\ unseen \subseteq Intents /\ kioskFaults \in Nat
  BY DEF KioskInv, KioskTypes
<1>3. UNCHANGED <<up, todo, call, answered, unanswered, old>>
  BY <1>1 DEF runVars, envVars
<1>4. CASE Refused /\ Throw /\ UNCHANGED ledger
  BY <1>1, <1>4, RefusedFacts, ThrowKeeps
<1>5. CASE /\ Write([Record EXCEPT !.status = IF op.path = "try" THEN "completed" ELSE "failed"])
           /\ Stage("auditing") /\ UNCHANGED kioskFaults
  <2> DEFINE s == IF op.path = "try" THEN "completed" ELSE "failed"
  <2>1. SameOperation /\ op'.pc = "auditing" /\ op'.path = op.path /\ op'.rejected = op.rejected
    BY <1>1, <1>5, StageFacts DEF OpPcs
  <2>2. s \in LedgerStatus
    BY DEF LedgerStatus
  <2>3. /\ ledger' \in [Intents -> LedgerRecords]
        /\ \A i \in Intents : /\ ledger'[i].custody = ledger[i].custody
                              /\ ledger'[i].status = IF i = op.intent THEN s ELSE ledger[i].status
    BY <1>1, <1>5, <2>2, WriteStatusFacts
  <2>4. (s = "completed" /\ op.path = "try") \/ (s = "failed" /\ op.path = "catch")
    BY <1>1 DEF Ops
  <2> HIDE DEF s
  <2>5. KioskTypes'
    BY <1>1, <1>2, <1>5, <2>1, <2>3, OperationTypes DEF SameOperation
  <2>6. CallInv' /\ LostInv' /\ Active' /\ Known' = Known
    BY <1>1, <2>1, OperationFrame
  <2>7. BusinessInv'
    BY <1>1, <1>3, <2>1, <2>3, <2>4, <2>6 DEF KioskInv, BusinessInv, SameOperation, AfterBusiness
  <2>8. OnceInv'
    BY <1>1, <1>3, <1>5, <2>1, <2>3, <2>4
    DEF KioskInv, OnceInv, BusinessInv, SameOperation, BeforeBusiness, NotYet, AfterBusiness, Checked, Untouched
  <2>9. CardInv'
    BY <1>1, <1>2, <1>3, <2>1, <2>3 DEF KioskInv, CardInv, SameOperation, Seen, Owners
  <2>10. InterventionInv'
    BY <1>1, <1>3, <2>3, <2>4 DEF KioskInv, InterventionInv
  <2> QED
    BY <2>5, <2>6, <2>7, <2>8, <2>9, <2>10 DEF KioskInv
<1> QED
  BY <1>4, <1>5 DEF RecordResult

LEMMA AuditKeeps ==
  ASSUME KioskInv, Audit
  PROVE  KioskInv'
<1>1. /\ Active /\ op \in Ops /\ op.pc = "auditing" /\ op.intent \in Intents /\ op.intent # NoIntent
      /\ up = "ready" /\ ledger \in [Intents -> LedgerRecords]
      /\ UNCHANGED <<runVars, call, ledger, custody, intervention, reader, done, passed, unseen, envVars>>
  BY ActiveFacts DEF Audit, At
<1>2. /\ custody \in Custodies /\ intervention \in BOOLEAN /\ reader \in Owners
      /\ done \in [Intents -> Nat] /\ passed \in [Intents -> SUBSET Kinds]
      /\ unseen \subseteq Intents /\ kioskFaults \in Nat
  BY DEF KioskInv, KioskTypes
<1>3. UNCHANGED <<up, todo, call, answered, unanswered, old>>
  BY <1>1 DEF runVars, envVars
<1>4. CASE Refused /\ Throw
  BY <1>1, <1>4, RefusedFacts, ThrowKeeps
<1>5. CASE Stage("exiting") /\ UNCHANGED kioskFaults
  <2>1. SameOperation /\ op'.pc = "exiting" /\ op'.path = op.path /\ op'.rejected = op.rejected
    BY <1>1, <1>5, StageFacts DEF OpPcs
  <2>2. KioskTypes'
    BY <1>1, <1>2, <1>5, <2>1, OperationTypes DEF SameOperation
  <2>3. CallInv' /\ LostInv' /\ Active' /\ Known' = Known
    BY <1>1, <2>1, OperationFrame
  <2>4. BusinessInv'
    BY <1>1, <1>3, <2>1, <2>3 DEF KioskInv, BusinessInv, SameOperation, AfterBusiness
  <2>5. OnceInv'
    BY <1>1, <1>3, <1>5, <2>1 DEF KioskInv, OnceInv, SameOperation, BeforeBusiness, NotYet, Checked, Untouched
  <2>6. CardInv' /\ InterventionInv'
    BY <1>1, <1>3, <2>1 DEF KioskInv, CardInv, InterventionInv, SameOperation, Seen
  <2> QED
    BY <2>2, <2>3, <2>4, <2>5, <2>6 DEF KioskInv
<1> QED
  BY <1>4, <1>5 DEF Audit

\* The callers of an operation get its result; no other call moves.
LEMMA CallersFacts ==
  ASSUME call \in [Calls -> [pc : CallPcs, intent : Owners]],
         call' = [c \in Calls |-> IF call[c].pc = "executing"
                                  THEN [call[c] EXCEPT !.pc = "done"] ELSE call[c]]
  PROVE  /\ call' \in [Calls -> [pc : CallPcs, intent : Owners]] /\ Known' = Known
         /\ \A c \in Calls : /\ Checked(c)' <=> Checked(c)
                             /\ call'[c].intent = call[c].intent
                             /\ call'[c].pc = "idle" <=> call[c].pc = "idle"
<1>1. /\ call' \in [Calls -> [pc : CallPcs, intent : Owners]]
      /\ \A c \in Calls : /\ call'[c].pc = "checked" <=> call[c].pc = "checked"
                          /\ call'[c].intent = call[c].intent
                          /\ call'[c].pc = "idle" <=> call[c].pc = "idle"
  BY DEF CallPcs
<1> QED
  BY <1>1 DEF Checked, Known

\* The operation is over: its card is not in the reader, or is an intervention.
LEMMA ExitKeeps ==
  ASSUME KioskInv, Exit
  PROVE  KioskInv'
<1>1. /\ Active /\ op \in Ops /\ op.pc = "exiting" /\ op.intent \in Intents /\ op.intent # NoIntent
      /\ up = "ready" /\ op' = NoOp
      /\ UNCHANGED <<up, todo, startup, readiness, caps, polling, ledger, custody, intervention,
                     reader, done, passed, unseen, old, slipped>>
  BY ActiveFacts DEF Exit, At
<1>2. /\ op'.intent = NoIntent /\ op'.pc = "idle" /\ op'.path = "try" /\ ~op'.rejected
      /\ ~op'.aborted /\ op' \in Ops /\ ~Active'
  BY <1>1, NoOpFacts DEF Active
<1>3. /\ call' \in [Calls -> [pc : CallPcs, intent : Owners]] /\ Known' = Known
      /\ \A c \in Calls : /\ ~Checked(c)' /\ call'[c].intent = call[c].intent
                          /\ call'[c].pc = "idle" <=> call[c].pc = "idle"
  BY CallersFacts DEF KioskInv, KioskTypes, Exit, At, Settled, Checked
<1>4. /\ \/ answered' = answered \cup {op.intent} /\ unanswered' = unanswered
         \/ /\ answered' = answered /\ unanswered' = unanswered \cup {op.intent}
            /\ kioskFaults' = 0 => op.rejected
      /\ kioskFaults' \in Nat /\ (kioskFaults' = 0 => kioskFaults = 0)
      /\ refresh' \in {"idle", "evaluating", "waiting"}
      /\ refresh' # "evaluating" => refresh # "evaluating"
  BY RefusedFacts DEF Exit, Answer, KioskInv, KioskTypes
<1>5. KioskTypes'
  BY <1>1, <1>2, <1>3, <1>4 DEF KioskInv, KioskTypes
<1>6. CallInv' /\ LostInv'
  BY <1>1, <1>2, <1>3, <1>4, KioskAssumption DEF KioskInv, CallInv, LostInv
<1>7. BusinessInv'
  BY <1>1, <1>2, <1>3, <1>4 DEF KioskInv, BusinessInv, AfterBusiness
<1>8. OnceInv'
  BY <1>1, <1>2, <1>3, <1>4 DEF KioskInv, OnceInv, BeforeBusiness, NotYet, Untouched
<1>9. CardInv' /\ InterventionInv'
  BY <1>1, <1>2 DEF KioskInv, CardInv, InterventionInv, Seen
<1> QED
  BY <1>5, <1>6, <1>7, <1>8, <1>9 DEF KioskInv

\* A record that exists hides the operation from recovery; a refused one wedges it.
LEMMA OpStartKeeps ==
  ASSUME KioskInv, OpStart
  PROVE  KioskInv'
<1>1. /\ Active /\ op \in Ops /\ op.pc = "starting" /\ op.intent \in Intents /\ op.intent # NoIntent
      /\ up = "ready" /\ ledger \in [Intents -> LedgerRecords]
      /\ UNCHANGED <<runVars, intervention, reader, done, passed, envVars>>
  BY ActiveFacts DEF OpStart, At
<1>2. /\ custody \in Custodies /\ intervention \in BOOLEAN /\ reader \in Owners
      /\ done \in [Intents -> Nat] /\ passed \in [Intents -> SUBSET Kinds]
      /\ unseen \subseteq Intents /\ kioskFaults \in Nat
  BY DEF KioskInv, KioskTypes
<1>3. UNCHANGED <<up, todo, startup, readiness, caps, refresh, polling, answered, unanswered, old, slipped>>
  BY <1>1 DEF runVars, envVars
<1>4. CASE /\ Write(IF Record.status = "absent" THEN [status |-> "started", custody |-> "none"]
                     ELSE Record)
           /\ unseen' = IF Record.status \in {"absent", "started"} THEN unseen
                        ELSE unseen \cup {op.intent}
           /\ custody' = "none" /\ Stage("acquiring") /\ UNCHANGED <<call, kioskFaults>>
  <2> DEFINE rec == IF Record.status = "absent" THEN [status |-> "started", custody |-> "none"]
                    ELSE Record
  <2>1. /\ rec \in LedgerRecords
        /\ rec.status = IF ledger[op.intent].status = "absent" THEN "started" ELSE ledger[op.intent].status
    BY <1>1 DEF Record, LedgerRecords, LedgerStatus, Custodies
  <2>2. /\ ledger' \in [Intents -> LedgerRecords]
        /\ \A i \in Intents : ledger'[i] = IF i = op.intent THEN rec ELSE ledger[i]
    BY <1>1, <1>4, <2>1, WriteFacts
  <2> HIDE DEF rec
  <2>3. SameOperation /\ op'.pc = "acquiring" /\ op'.path = op.path /\ op'.rejected = op.rejected
    BY <1>1, <1>4, StageFacts DEF OpPcs
  <2>4. /\ unseen \subseteq unseen' /\ unseen' \subseteq Intents
        /\ op.intent \notin unseen' => ledger'[op.intent].status = "started"
        /\ unseen' \subseteq unseen \cup {op.intent}
    BY <1>1, <1>2, <1>4, <2>1, <2>2 DEF Record
  <2>5. KioskTypes'
    BY <1>1, <1>2, <1>4, <2>2, <2>3, <2>4, OperationTypes DEF SameOperation, Custodies
  <2>6. CallInv' /\ LostInv' /\ Active' /\ Known' = Known
    BY <1>1, <1>4, <2>3, OperationFrame
  <2>7. BusinessInv'
    BY <1>1, <1>3, <2>1, <2>2, <2>3, <2>6 DEF KioskInv, BusinessInv, SameOperation, AfterBusiness
  <2>8. OnceInv'
    BY <1>1, <1>3, <1>4, <2>1, <2>2, <2>3
    DEF KioskInv, OnceInv, BusinessInv, AfterBusiness, SameOperation, BeforeBusiness, NotYet, Checked, Untouched
  <2>9. CardInv'
    BY <1>1, <1>2, <1>3, <2>2, <2>3, <2>4 DEF KioskInv, CardInv, SameOperation, Seen, Owners
  <2>10. InterventionInv'
    BY <1>1, <1>3, <2>1, <2>2 DEF KioskInv, InterventionInv
  <2> QED
    BY <2>5, <2>6, <2>7, <2>8, <2>9, <2>10 DEF KioskInv
<1>5. CASE /\ Refused /\ Stage("wedged") /\ UNCHANGED <<ledger, custody, unseen>>
           /\ call' = [c \in Calls |-> IF call[c].pc = "executing"
                                       THEN [call[c] EXCEPT !.pc = "done"] ELSE call[c]]
  <2>1. SameOperation /\ op'.pc = "wedged" /\ op'.path = op.path
    BY <1>1, <1>5, StageFacts DEF OpPcs
  <2>2. /\ call' \in [Calls -> [pc : CallPcs, intent : Owners]] /\ Known' = Known
        /\ \A c \in Calls : /\ (Checked(c)' <=> Checked(c)) /\ call'[c].intent = call[c].intent
                            /\ call'[c].pc = "idle" <=> call[c].pc = "idle"
    BY <1>5, CallersFacts DEF KioskInv, KioskTypes
  <2>3. kioskFaults' \in Nat /\ kioskFaults' # 0
    BY <1>5, RefusedFacts
  <2>4. KioskTypes'
    BY <1>1, <1>2, <1>3, <1>5, <2>1, <2>2, <2>3 DEF KioskInv, KioskTypes, SameOperation
  <2>5. CallInv' /\ LostInv'
    <3>1. Active' /\ op'.intent = op.intent /\ (op.aborted => op'.aborted) /\ op'.pc # "idle"
      BY <1>1, <2>1 DEF SameOperation, Active
    <3>2. CallInv'
      BY <1>1, <1>3, <2>2, <3>1 DEF KioskInv, CallInv
    <3>3. LostInv'
      BY <1>3, <2>2, <3>1 DEF KioskInv, LostInv
    <3> QED
      BY <3>2, <3>3
  <2>6. BusinessInv'
    BY <1>1, <1>3, <1>5, <2>1, <2>2 DEF KioskInv, BusinessInv, SameOperation, AfterBusiness
  <2>7. OnceInv'
    BY <1>1, <1>3, <1>5, <2>1, <2>2, <2>3 DEF KioskInv, OnceInv, SameOperation, BeforeBusiness, NotYet, Checked
  <2>8. CardInv' /\ InterventionInv'
    BY <1>1, <1>3, <1>5, <2>1 DEF KioskInv, CardInv, InterventionInv, SameOperation, Seen
  <2> QED
    BY <2>4, <2>5, <2>6, <2>7, <2>8 DEF KioskInv
<1> QED
  BY <1>4, <1>5 DEF OpStart

-----------------------------------------------------------------------------
(* The runtime's steps: calls, capabilities, recovery and crashes.          *)

\* Calls and capabilities change; the operation and what is durable do not.
LEMMA RuntimeFrame ==
  ASSUME KioskInv,
         op' = op \/ (op.intent \in Intents /\ op' = [op EXCEPT !.aborted = TRUE]),
         Known \subseteq Known',
         \A c \in Calls : Checked(c)' => call'[c].intent \notin answered \cup old,
         UNCHANGED <<up, todo, ledger, custody, intervention, reader, done, passed, unseen,
                     kioskFaults, answered, unanswered, old>>
  PROVE  op' \in Ops /\ BusinessInv' /\ OnceInv' /\ CardInv' /\ InterventionInv'
<1>1. /\ op' \in Ops /\ op'.intent = op.intent /\ op'.pc = op.pc /\ op'.path = op.path
      /\ op'.plan = op.plan /\ op'.res = op.res /\ op'.rejected = op.rejected
  BY DEF KioskInv, KioskTypes, Ops
<1>2. BusinessInv'
  BY <1>1 DEF KioskInv, BusinessInv
<1>3. OnceInv'
  BY <1>1 DEF KioskInv, OnceInv, Untouched
<1>4. CardInv' /\ InterventionInv'
  BY <1>1 DEF KioskInv, CardInv, InterventionInv, Seen, Active
<1> QED
  BY <1>1, <1>2, <1>3, <1>4

\* The call is checked against the published readiness.
LEMMA ExecuteKeeps ==
  ASSUME KioskInv, NEW c \in Calls, NEW i \in Intents, Execute(c, i)
  PROVE  KioskInv'
<1>1. UNCHANGED <<runVars, op, ledger, custody, intervention, reader, done, passed, unseen,
                  kioskFaults, envVars>>
  BY DEF Execute
<1>2. UNCHANGED <<up, todo, startup, readiness, caps, refresh, polling, answered, unanswered, old, slipped>>
  BY <1>1 DEF runVars, envVars
<1>3. PICK p \in {"checked", "executing", "done"} :
        /\ call' = [call EXCEPT ![c] = [intent |-> i, pc |-> p]]
        /\ p = "checked" => /\ i \notin answered \cup old /\ i \in readiness.avail /\ ~Active
                            /\ readiness.status \notin {"recovering", "intervention"}
  <2>1. CASE i \in answered
    BY <2>1 DEF Execute
  <2>2. CASE i \notin answered /\ i \in Running
    BY <2>2 DEF Execute
  <2>3. CASE i \notin answered /\ i \notin Running
    BY <2>3 DEF Execute
  <2> QED
    BY <2>1, <2>2, <2>3
<1>4. up = "ready" /\ call[c].pc = "idle" /\ call[c].intent = NoIntent /\ i # NoIntent
  BY KioskAssumption DEF Execute, KioskInv, CallInv
<1>5. /\ call' \in [Calls -> [pc : CallPcs, intent : Owners]]
      /\ call'[c].intent = i /\ call'[c].pc = p /\ (Checked(c)' <=> p = "checked")
      /\ \A d \in Calls : d # c => call'[d] = call[d] /\ (Checked(d)' <=> Checked(d))
  BY <1>3 DEF KioskInv, KioskTypes, CallPcs, Owners, Checked
<1>6. Known \subseteq Known'
  BY <1>4, <1>5 DEF Known
<1>7. \A d \in Calls : Checked(d)' => call'[d].intent \notin answered \cup old
  BY <1>3, <1>5 DEF KioskInv, OnceInv
<1>8. op' \in Ops /\ BusinessInv' /\ OnceInv' /\ CardInv' /\ InterventionInv'
  BY <1>1, <1>2, <1>6, <1>7, RuntimeFrame
<1>9. KioskTypes'
  BY <1>1, <1>2, <1>5 DEF KioskInv, KioskTypes
<1>10. CallInv'
  <2>1. Active' <=> Active
    BY <1>1 DEF Active
  <2> QED
    BY <1>1, <1>2, <1>3, <1>4, <1>5, <2>1 DEF KioskInv, CallInv
<1>11. LostInv'
  BY <1>1, <1>2, <1>3, <1>4, <1>5 DEF KioskInv, LostInv
<1> QED
  BY <1>8, <1>9, <1>10, <1>11 DEF KioskInv

\* The coordinator starts the operation, or the call joins it or is refused.
LEMMA BeginKeeps ==
  ASSUME KioskInv, NEW c \in Calls, Begin(c)
  PROVE  KioskInv'
<1>1. UNCHANGED <<runVars, ledger, custody, intervention, reader, done, passed, unseen,
                  kioskFaults, envVars>>
  BY DEF Begin
<1>2. UNCHANGED <<up, todo, startup, readiness, caps, refresh, polling, answered, unanswered, old, slipped>>
  BY <1>1 DEF runVars, envVars
<1>3. /\ Checked(c) /\ up = "ready" /\ startup = "ready" /\ call[c].intent \in Intents
      /\ call[c].intent # NoIntent
  BY KioskAssumption DEF Begin, Checked, KioskInv, KioskTypes, CallInv, Owners
<1>4. PICK p \in {"executing", "done"} : call' = [call EXCEPT ![c].pc = p]
  BY DEF Begin
<1>5. /\ call' \in [Calls -> [pc : CallPcs, intent : Owners]]
      /\ ~Checked(c)' /\ call'[c].pc = p
      /\ \A d \in Calls : /\ call'[d].intent = call[d].intent
                          /\ d # c => call'[d] = call[d] /\ (Checked(d)' <=> Checked(d))
  BY <1>4 DEF KioskInv, KioskTypes, CallPcs, Checked
<1>6. Known' = Known
  BY <1>5 DEF Known
<1>7. CASE ~intervention /\ ~Active
  <2>1. op' = [NoOp EXCEPT !.intent = call[c].intent, !.pc = "starting"]
    BY <1>7 DEF Begin
  <2>2. /\ op' \in Ops /\ op'.intent = call[c].intent /\ op'.pc = "starting" /\ op'.path = "try"
        /\ ~op'.rejected /\ Active'
    BY <1>3, <2>1, NoOpFacts DEF Ops, OpPcs, Owners, Active
  <2>3. op.intent = NoIntent /\ op.pc = "idle"
    BY <1>7 DEF Active, KioskInv, CallInv
  <2>4. KioskTypes'
    BY <1>1, <1>2, <1>5, <2>2 DEF KioskInv, KioskTypes
  <2>5. CallInv'
    BY <1>2, <1>3, <1>5, <2>2 DEF KioskInv, CallInv
  <2>6. LostInv'
    BY <1>2, <1>3, <1>5, <2>2 DEF KioskInv, LostInv
  <2>7. call[c].intent \in Known
    BY <1>3 DEF Known
  <2>8. BusinessInv'
    BY <1>1, <1>2, <1>6, <2>2, <2>7 DEF KioskInv, BusinessInv, AfterBusiness
  <2>9. OnceInv'
    BY <1>1, <1>2, <1>3, <1>5, <2>2, <2>3, KioskAssumption
    DEF KioskInv, OnceInv, BeforeBusiness, NotYet, Untouched
  <2>10. CardInv' /\ InterventionInv'
    BY <1>1, <1>2, <1>3, <1>7, <2>2, <2>3 DEF KioskInv, CardInv, InterventionInv
  <2> QED
    BY <2>4, <2>5, <2>6, <2>8, <2>9, <2>10 DEF KioskInv
<1>8. CASE ~(~intervention /\ ~Active)
  <2>1. UNCHANGED op
    BY <1>8 DEF Begin
  <2>2. \A d \in Calls : Checked(d)' => call'[d].intent \notin answered \cup old
    BY <1>5 DEF KioskInv, OnceInv
  <2>3. op' \in Ops /\ BusinessInv' /\ OnceInv' /\ CardInv' /\ InterventionInv'
    BY <1>1, <1>2, <1>6, <2>1, <2>2, RuntimeFrame
  <2>4. KioskTypes'
    BY <1>1, <1>2, <1>5, <2>3 DEF KioskInv, KioskTypes
  <2>5. CallInv' /\ LostInv'
    <3>1. Active' <=> Active
      BY <2>1 DEF Active
    <3>2. CallInv'
      BY <1>2, <1>3, <1>5, <2>1, <3>1 DEF KioskInv, CallInv
    <3>3. LostInv'
      BY <1>2, <1>5, <2>1 DEF KioskInv, LostInv
    <3> QED
      BY <3>2, <3>3
  <2> QED
    BY <2>3, <2>4, <2>5 DEF KioskInv
<1> QED
  BY <1>7, <1>8

\* What an evaluation says of the startup barrier and of the lost capability.
LEMMA EvaluateFacts ==
  ASSUME KioskInv
  PROVE  /\ Evaluate \in [status : {"ready", "degraded", "failed", "recovering", "intervention"},
                          avail : SUBSET Intents]
         /\ Evaluate.status \notin {"recovering", "intervention"} => startup = "ready"
         /\ caps = "unavailable" => Evaluate.avail \cap CardIntents = {}
<1>1. CASE intervention
  BY <1>1 DEF Evaluate
<1>2. CASE ~intervention /\ startup # "ready"
  BY <1>2 DEF Evaluate, KioskInv, KioskTypes
<1>3. CASE ~intervention /\ startup = "ready"
  BY <1>3 DEF Evaluate
<1> QED
  BY <1>1, <1>2, <1>3

LEMMA RefreshBeginKeeps ==
  ASSUME KioskInv, NEW v \in {"available", "degraded", "unavailable"}, RefreshBegin(v)
  PROVE  KioskInv'
<1>1. /\ UNCHANGED <<up, todo, startup, readiness, call, op, ledger, custody, intervention,
                     reader, done, passed, unseen, kioskFaults, answered, unanswered, old, slipped>>
      /\ caps' = v /\ refresh' = "evaluating" /\ polling' \in BOOLEAN
  BY DEF RefreshBegin
<1>2. Known' = Known /\ (Active' <=> Active) /\ \A d \in Calls : Checked(d)' <=> Checked(d)
  BY <1>1 DEF Known, Active, Checked
<1>3. op' \in Ops /\ BusinessInv' /\ OnceInv' /\ CardInv' /\ InterventionInv'
  <2>1. \A d \in Calls : Checked(d)' => call'[d].intent \notin answered \cup old
    BY <1>1, <1>2 DEF KioskInv, OnceInv
  <2> QED
    BY <1>1, <1>2, <2>1, RuntimeFrame
<1>4. KioskTypes'
  BY <1>1 DEF KioskInv, KioskTypes
<1>5. CallInv' /\ LostInv'
  BY <1>1, <1>2 DEF KioskInv, CallInv, LostInv
<1> QED
  BY <1>3, <1>4, <1>5 DEF KioskInv

\* The new readiness is published, and who needs the lost capability interrupted.
LEMMA RefreshEndKeeps ==
  ASSUME KioskInv, RefreshEnd
  PROVE  KioskInv'
<1>1. /\ UNCHANGED <<up, todo, startup, caps, polling, call, ledger, custody, intervention,
                     reader, done, passed, unseen, kioskFaults, answered, unanswered, old>>
      /\ up = "ready" /\ readiness' = Evaluate /\ refresh' \in {"idle", "waiting"}
      /\ slipped' = slipped \cup {call[c].intent : c \in {d \in Calls : Checked(d)}}
  BY DEF RefreshEnd, Checked
<1>2. /\ op' = op \/ (op.intent \in Intents /\ op' = [op EXCEPT !.aborted = TRUE])
      /\ (caps = "unavailable" /\ op.intent \in CardIntents) => op' = [op EXCEPT !.aborted = TRUE]
  BY KioskAssumption DEF RefreshEnd
<1>3. Known' = Known /\ \A d \in Calls : Checked(d)' <=> Checked(d)
  BY <1>1 DEF Known, Checked
<1>4. op' \in Ops /\ BusinessInv' /\ OnceInv' /\ CardInv' /\ InterventionInv'
  <2>1. \A d \in Calls : Checked(d)' => call'[d].intent \notin answered \cup old
    BY <1>1, <1>3 DEF KioskInv, OnceInv
  <2> QED
    BY <1>1, <1>2, <1>3, <2>1, RuntimeFrame
<1>5. KioskTypes'
  BY <1>1, <1>4, EvaluateFacts DEF KioskInv, KioskTypes
<1>6. /\ op'.intent = op.intent /\ op'.pc = op.pc /\ op'.path = op.path /\ (Active' <=> Active)
      /\ (caps = "unavailable" /\ op.intent \in CardIntents) => op'.aborted
  BY <1>2 DEF KioskInv, KioskTypes, Ops, Active
<1>7. CallInv'
  BY <1>1, <1>3, <1>6, EvaluateFacts DEF KioskInv, CallInv
<1>8. LostInv'
  BY <1>1, <1>3, <1>6, EvaluateFacts DEF KioskInv, LostInv
<1> QED
  BY <1>4, <1>5, <1>7, <1>8 DEF KioskInv

\* A process that is not ready has neither an operation nor a checked call.
LEMMA NotReadyFacts ==
  ASSUME KioskInv, up # "ready"
  PROVE  /\ ~Active /\ op.intent = NoIntent /\ op.pc = "idle" /\ op.path = "try"
         /\ \A c \in Calls : ~Checked(c)
BY DEF KioskInv, CallInv, Active

\* Every record that needs it will be visited.
LEMMA BootKeeps ==
  ASSUME KioskInv, NEW s \in {"ready", "recovering", "intervention"}, Boot(s)
  PROVE  KioskInv'
<1>1. /\ up = "down" /\ up' = "recovering" /\ todo' = ListActive /\ startup' = s
      /\ UNCHANGED <<readiness, caps, refresh, polling, call, op, ledger, custody,
                     intervention, reader, done, passed, unseen, kioskFaults, envVars>>
  BY DEF Boot
<1>2. UNCHANGED <<answered, unanswered, old, slipped>>
  BY <1>1 DEF envVars
<1>3. /\ ~Active' /\ op.intent = NoIntent /\ op.pc = "idle" /\ op.path = "try" /\ Known' = Known
      /\ \A c \in Calls : ~Checked(c)'
  BY <1>1, NotReadyFacts DEF Active, Checked, Known
<1>4. KioskTypes'
  BY <1>1, <1>2 DEF KioskInv, KioskTypes, ListActive
<1>5. CallInv' /\ LostInv'
  BY <1>1, <1>3 DEF KioskInv, CallInv, LostInv
<1>6. BusinessInv' /\ OnceInv'
  BY <1>1, <1>2, <1>3 DEF KioskInv, BusinessInv, OnceInv, Untouched
<1>7. CardInv' /\ InterventionInv'
  BY <1>1, <1>3, KioskAssumption DEF KioskInv, KioskTypes, CardInv, InterventionInv, Seen, ListActive, Owners
<1> QED
  BY <1>4, <1>5, <1>6, <1>7 DEF KioskInv

\* A record is abandoned without a card, or after its card was looked for.
LEMMA RecoverRecordKeeps ==
  ASSUME KioskInv, NEW i \in todo, RecoverRecord(i)
  PROVE  KioskInv'
<1>1. /\ up = "recovering" /\ todo' = todo \ {i} /\ i \in Intents
      /\ UNCHANGED <<up, startup, readiness, caps, refresh, polling, call, op, custody,
                     done, passed, unseen, kioskFaults, envVars>>
  BY DEF RecoverRecord, KioskInv, KioskTypes
<1>2. UNCHANGED <<answered, unanswered, old, slipped>>
  BY <1>1 DEF envVars
<1>3. /\ ~Active' /\ op.intent = NoIntent /\ op.pc = "idle" /\ op.path = "try" /\ Known' = Known
      /\ \A c \in Calls : ~Checked(c)'
  BY <1>1, NotReadyFacts DEF Active, Checked, Known
<1>4. /\ ledger \in [Intents -> LedgerRecords] /\ reader \in Owners /\ intervention \in BOOLEAN
  BY DEF KioskInv, KioskTypes
<1>5. /\ ledger' \in [Intents -> LedgerRecords] /\ \A j \in Intents : j # i => ledger'[j] = ledger[j]
      /\ ledger'[i].status \in {"abandoned", "intervention"}
      /\ ledger'[i].status = "intervention" => intervention' /\ ledger'[i].custody = "unknown"
      /\ intervention' \in BOOLEAN /\ (intervention => intervention')
      /\ reader' \in {NoIntent, reader}
      /\ reader' = NoIntent \/ (intervention' /\ ledger'[i].status = "intervention")
           \/ (ledger[i].custody \notin {"acquired", "unknown"} /\ UNCHANGED intervention)
  <2>1. CASE /\ ledger[i].custody \in {"none", "returned", "retained"}
             /\ ledger' = [ledger EXCEPT ![i].status = "abandoned"]
             /\ UNCHANGED <<intervention, reader>>
    <3>1. /\ ledger' \in [Intents -> LedgerRecords] /\ ledger'[i].status = "abandoned"
          /\ \A j \in Intents : j # i => ledger'[j] = ledger[j]
      BY <1>1, <1>4, <2>1 DEF LedgerRecords, LedgerStatus
    <3> QED
      BY <1>4, <2>1, <3>1
  <2>2. CASE \E r \in IF i \in Reconciles THEN ReturnCard ELSE {<<"unknown", reader>>} :
               /\ reader' = r[2]
               /\ intervention' = (intervention \/ r[1] = "unknown")
               /\ ledger' = [ledger EXCEPT ![i] =
                    [status |-> IF r[1] = "unknown" THEN "intervention" ELSE "abandoned",
                     custody |-> r[1]]]
    <3>1. PICK r \in IF i \in Reconciles THEN ReturnCard ELSE {<<"unknown", reader>>} :
               /\ reader' = r[2]
               /\ intervention' = (intervention \/ r[1] = "unknown")
               /\ ledger' = [ledger EXCEPT ![i] =
                    [status |-> IF r[1] = "unknown" THEN "intervention" ELSE "abandoned",
                     custody |-> r[1]]]
      BY <2>2
    <3>2. /\ r[1] \in {"returned", "retained", "unknown"} /\ r[2] \in {NoIntent, reader}
          /\ r[2] # NoIntent => r[1] = "unknown"
      BY <1>4, <3>1, ReturnCardFacts
    <3>3. [status |-> IF r[1] = "unknown" THEN "intervention" ELSE "abandoned",
           custody |-> r[1]] \in LedgerRecords
      BY <3>2 DEF LedgerRecords, LedgerStatus, Custodies
    <3>4. /\ ledger' \in [Intents -> LedgerRecords]
          /\ \A j \in Intents : j # i => ledger'[j] = ledger[j]
          /\ ledger'[i].custody = r[1]
          /\ ledger'[i].status = IF r[1] = "unknown" THEN "intervention" ELSE "abandoned"
      BY <1>1, <1>4, <3>1, <3>3
    <3>5. CASE r[1] = "unknown"
      BY <1>4, <3>1, <3>2, <3>4, <3>5
    <3>6. CASE r[1] # "unknown"
      BY <1>4, <3>1, <3>2, <3>4, <3>6
    <3> QED
      BY <3>5, <3>6
  <2> QED
    BY <2>1, <2>2 DEF RecoverRecord
<1>6. KioskTypes'
  BY <1>1, <1>2, <1>4, <1>5 DEF KioskInv, KioskTypes, Owners
<1>7. CallInv' /\ LostInv'
  BY <1>1, <1>3 DEF KioskInv, CallInv, LostInv
<1>8. BusinessInv'
  BY <1>1, <1>2, <1>3, <1>5 DEF KioskInv, BusinessInv
<1>9. ledger[i].status # "absent"
  BY DEF KioskInv, InterventionInv
<1>10. OnceInv'
  BY <1>1, <1>2, <1>3, <1>5, <1>9 DEF KioskInv, OnceInv, Untouched, BeforeBusiness
<1>11. CardInv'
  BY <1>1, <1>3, <1>4, <1>5 DEF KioskInv, CardInv, Seen, Owners
<1>12. InterventionInv'
  BY <1>1, <1>5 DEF KioskInv, KioskTypes, InterventionInv
<1> QED
  BY <1>6, <1>7, <1>8, <1>10, <1>11, <1>12 DEF KioskInv

\* The recovery is cut short and starts again with the next boot.
LEMMA RecoverFailsKeeps ==
  ASSUME KioskInv, RecoverFails
  PROVE  KioskInv'
<1>1. /\ up = "recovering" /\ up' = "down" /\ todo' = {} /\ intervention' = FALSE
      /\ UNCHANGED <<startup, readiness, caps, refresh, polling, call, op, ledger,
                     custody, reader, done, passed, unseen, envVars>>
  BY DEF RecoverFails
<1>2. UNCHANGED <<answered, unanswered, old, slipped>> /\ kioskFaults' \in Nat /\ kioskFaults' # 0
  BY <1>1, RefusedFacts DEF RecoverFails, envVars
<1>3. /\ ~Active' /\ op.intent = NoIntent /\ op.pc = "idle" /\ op.path = "try" /\ Known' = Known
      /\ \A c \in Calls : ~Checked(c)'
  BY <1>1, NotReadyFacts DEF Active, Checked, Known
<1>4. KioskTypes'
  BY <1>1, <1>2 DEF KioskInv, KioskTypes
<1>5. CallInv' /\ LostInv'
  BY <1>1, <1>3 DEF KioskInv, CallInv, LostInv
<1>6. BusinessInv' /\ OnceInv'
  BY <1>1, <1>2, <1>3 DEF KioskInv, BusinessInv, OnceInv
<1>7. CardInv' /\ InterventionInv'
  BY <1>1, <1>3, KioskAssumption DEF KioskInv, CardInv, InterventionInv, Seen
<1> QED
  BY <1>4, <1>5, <1>6, <1>7 DEF KioskInv

\* Every record was visited: what is left of cards and interventions is flagged.
LEMMA InitializedKeeps ==
  ASSUME KioskInv, Initialized
  PROVE  KioskInv'
<1>1. /\ up = "recovering" /\ todo = {} /\ up' = "ready" /\ readiness' = Evaluate /\ polling' = TRUE
      /\ UNCHANGED <<todo, startup, caps, refresh, call, op, ledger, custody,
                     intervention, reader, done, passed, unseen, kioskFaults, envVars>>
  BY DEF Initialized
<1>2. UNCHANGED <<answered, unanswered, old, slipped>>
  BY <1>1 DEF envVars
<1>3. /\ ~Active' /\ op.intent = NoIntent /\ op.pc = "idle" /\ op.path = "try" /\ Known' = Known
      /\ \A c \in Calls : ~Checked(c)'
  BY <1>1, NotReadyFacts DEF Active, Checked, Known
<1>4. KioskTypes'
  BY <1>1, <1>2, EvaluateFacts DEF KioskInv, KioskTypes
<1>5. CallInv' /\ LostInv'
  BY <1>1, <1>3, EvaluateFacts, KioskAssumption DEF KioskInv, CallInv, LostInv
<1>6. BusinessInv'
  BY <1>1, <1>2, <1>3 DEF KioskInv, BusinessInv
<1>7. OnceInv'
  BY <1>1, <1>2, <1>3 DEF KioskInv, OnceInv, Untouched
<1>8. CardInv' /\ InterventionInv'
  BY <1>1, <1>3, KioskAssumption DEF KioskInv, CardInv, InterventionInv, Seen
<1> QED
  BY <1>4, <1>5, <1>6, <1>7, <1>8 DEF KioskInv

\* The process dies: its intents are never submitted again, and the ledger has
\* what the next recovery needs.
LEMMA CrashKeeps ==
  ASSUME KioskInv, Crash
  PROVE  KioskInv'
<1>1. /\ up' = "down" /\ todo' = {} /\ startup' = "ready" /\ refresh' = "idle" /\ polling' = FALSE
      /\ readiness' = [status |-> "failed", avail |-> {}]
      /\ op' = NoOp /\ custody' = "none" /\ intervention' = FALSE /\ answered' = {}
      /\ unseen' = IF op.pc = "cardIn" THEN unseen \cup {op.intent} ELSE unseen
      /\ UNCHANGED <<caps, ledger, reader, done, passed, unanswered, slipped, kioskFaults>>
  BY DEF Crash
<1>2. /\ op'.intent = NoIntent /\ op'.pc = "idle" /\ op'.path = "try" /\ ~op'.rejected
      /\ op' \in Ops /\ ~Active'
  BY <1>1, NoOpFacts DEF Active
<1>3. /\ call' \in [Calls -> [pc : CallPcs, intent : Owners]]
      /\ \A c \in Calls : /\ ~Checked(c)' /\ call'[c].intent = call[c].intent
                          /\ call'[c].pc = "idle" <=> call[c].pc = "idle"
  BY DEF Crash, KioskInv, KioskTypes, CallPcs, Checked
<1>4. old' = old \cup Known /\ old' \subseteq Intents
  BY KioskAssumption DEF Crash, Known, KioskInv, KioskTypes, Owners
<1>5. unseen' \subseteq Intents
  BY <1>1, KioskAssumption DEF KioskInv, KioskTypes, CallInv, Active, Ops, Owners
<1>6. KioskTypes'
  <2>1. [status |-> "failed", avail |-> {}] \in
          [status : {"ready", "degraded", "failed", "recovering", "intervention"}, avail : SUBSET Intents]
    OBVIOUS
  <2> QED
    BY <1>1, <1>2, <1>3, <1>4, <1>5, <2>1 DEF KioskInv, KioskTypes, Custodies
<1>7. CallInv' /\ LostInv'
  BY <1>1, <1>2, <1>3 DEF KioskInv, CallInv, LostInv
<1>8. BusinessInv'
  BY <1>1, <1>2 DEF KioskInv, BusinessInv, AfterBusiness
<1>9. OnceInv'
  BY <1>1, <1>2, <1>3, <1>4 DEF KioskInv, OnceInv, BusinessInv, Untouched, BeforeBusiness, NotYet
<1>10. CardInv' /\ InterventionInv'
  BY <1>1, <1>2 DEF KioskInv, CardInv, InterventionInv, Seen
<1> QED
  BY <1>6, <1>7, <1>8, <1>9, <1>10 DEF KioskInv

-----------------------------------------------------------------------------
(* The theorems.                                                           *)

LEMMA KioskStarts == KioskInit => KioskInv
<1> SUFFICES ASSUME KioskInit PROVE KioskInv
  OBVIOUS
<1>1. /\ op.intent = NoIntent /\ op.pc = "idle" /\ op.path = "try" /\ ~op.rejected /\ op \in Ops
      /\ ~Active
  BY NoOpFacts DEF KioskInit, Active
<1>2. KioskTypes
  <2>1. call \in [Calls -> [pc : CallPcs, intent : Owners]]
    BY DEF KioskInit, CallPcs, Owners
  <2>2. ledger \in [Intents -> LedgerRecords]
    BY DEF KioskInit, LedgerRecords, LedgerStatus, Custodies
  <2>3. /\ done \in [Intents -> Nat] /\ passed \in [Intents -> SUBSET Kinds]
        /\ readiness \in [status : {"ready", "degraded", "failed", "recovering", "intervention"},
                           avail : SUBSET Intents]
    BY DEF KioskInit
  <2> QED
    BY <1>1, <2>1, <2>2, <2>3 DEF KioskInit, KioskTypes, Custodies, Owners
<1>3. \A c \in Calls : call[c].pc = "idle" /\ call[c].intent = NoIntent /\ ~Checked(c)
  BY DEF KioskInit, Checked
<1>4. \A i \in Intents : done[i] = 0 /\ ledger[i].status = "absent"
  BY DEF KioskInit
<1>5. CallInv /\ LostInv
  BY <1>1, <1>3 DEF KioskInit, CallInv, LostInv
<1>6. BusinessInv /\ OnceInv
  BY <1>1, <1>3, <1>4 DEF KioskInit, BusinessInv, OnceInv, Untouched, BeforeBusiness, NotYet, AfterBusiness
<1>7. CardInv /\ InterventionInv
  BY <1>1, <1>4 DEF KioskInit, CardInv, InterventionInv
<1> QED
  BY <1>2, <1>5, <1>6, <1>7 DEF KioskInv

LEMMA KioskStutters == KioskInv /\ UNCHANGED kioskVars => KioskInv'
<1> SUFFICES ASSUME KioskInv, UNCHANGED kioskVars PROVE KioskInv'
  OBVIOUS
<1>1. UNCHANGED <<up, todo, startup, readiness, caps, refresh, polling, call, op, ledger, custody,
                  intervention, answered, unanswered, old, reader, done, passed, unseen, slipped, kioskFaults>>
  BY DEF kioskVars, runVars, envVars
<1>2. Known' = Known /\ (Active' <=> Active) /\ \A d \in Calls : Checked(d)' <=> Checked(d)
  BY <1>1 DEF Known, Active, Checked
<1>3. op' \in Ops /\ BusinessInv' /\ OnceInv' /\ CardInv' /\ InterventionInv'
  <2>1. \A d \in Calls : Checked(d)' => call'[d].intent \notin answered \cup old
    BY <1>1, <1>2 DEF KioskInv, OnceInv
  <2> QED
    BY <1>1, <1>2, <2>1, RuntimeFrame
<1>4. KioskTypes'
  BY <1>1 DEF KioskInv, KioskTypes
<1>5. CallInv' /\ LostInv'
  BY <1>1, <1>2 DEF KioskInv, CallInv, LostInv
<1> QED
  BY <1>3, <1>4, <1>5 DEF KioskInv

LEMMA KioskStays == KioskInv /\ [KioskNext]_kioskVars => KioskInv'
<1> SUFFICES ASSUME KioskInv, [KioskNext]_kioskVars PROVE KioskInv'
  OBVIOUS
<1>1. CASE OpStep
  BY <1>1, OpStartKeeps, CardAcquiredKeeps, AuthenticationKeeps, BusinessKeeps, InputStagesKeep,
     ResolveCustodyKeeps, ApplyCustodyKeeps, RecordResultKeeps, AuditKeeps, ExitKeeps
  DEF OpStep
<1>2. CASE \/ CustomerIdentifies \/ AmountEntered \/ (\E k \in op.plan : Challenge(k))
           \/ InputFails \/ InterruptOperation
  BY <1>2, CustomerIdentifiesKeeps, InputStagesKeep, AuthenticationKeeps, InterruptKeeps
<1>3. CASE \E c \in Calls : Begin(c) \/ \E i \in Intents : Execute(c, i)
  BY <1>3, BeginKeeps, ExecuteKeeps
<1>4. CASE \/ \E s \in {"ready", "recovering", "intervention"} : Boot(s)
           \/ \E i \in todo : RecoverRecord(i)
           \/ RecoverFails \/ Initialized \/ Crash
  BY <1>4, BootKeeps, RecoverRecordKeeps, RecoverFailsKeeps, InitializedKeeps, CrashKeeps
<1>5. CASE \/ \E v \in {"available", "degraded", "unavailable"} : RefreshBegin(v)
           \/ RefreshEnd
  BY <1>5, RefreshBeginKeeps, RefreshEndKeeps
<1>6. CASE UNCHANGED kioskVars
  BY <1>6, KioskStutters
<1> QED
  BY <1>1, <1>2, <1>3, <1>4, <1>5, <1>6 DEF KioskNext

(***************************************************************************)
(* CustomerOperationCoordinator, CommandRegistry, KioskRuntime: for any     *)
(* number of clicks, intents and crashes, the business of an intent is done *)
(* once unless a write was refused, only after every mandatory challenge,   *)
(* never behind a closed startup barrier, the ledger says whether it was    *)
(* done, and a lost capability interrupts who needs it.                     *)
(***************************************************************************)
THEOREM OperationsAreSound == KioskSpec => []OperationIsSound
<1>1. KioskInv => OperationIsSound
  <2> SUFFICES ASSUME KioskInv PROVE OperationIsSound
    OBVIOUS
  <2>1. BusinessOncePerIntent /\ LedgerTellsBusiness
    BY DEF KioskInv, OnceInv, BusinessInv, BusinessOncePerIntent, LedgerTellsBusiness
  <2>2. MandatoryBeforeBusiness
    BY DEF KioskInv, BusinessInv, MandatoryBeforeBusiness
  <2>3. BarrierBlocksOperations /\ LostCapabilityInterrupts
    BY DEF KioskInv, CallInv, LostInv, BarrierBlocksOperations, LostCapabilityInterrupts
  <2> QED
    BY <2>1, <2>2, <2>3 DEF OperationIsSound
<1> QED
  BY <1>1, KioskStarts, KioskStays, PTL DEF KioskSpec

(***************************************************************************)
(* resolveCustody, recover: for any number of refused writes, crashes and   *)
(* restarts, a kiosk that is ready without an operation and without an      *)
(* intervention has no card in its reader that a record names, a record     *)
(* that says returned or retained tells the truth, and an intervention is   *)
(* never forgotten.                                                         *)
(***************************************************************************)
THEOREM RecordedCardsAreKept == KioskSpec => []RecordedCardIsKept
<1>1. KioskInv => RecordedCardIsKept
  <2> SUFFICES ASSUME KioskInv PROVE RecordedCardIsKept
    OBVIOUS
  <2>1. KioskTypeOK
    BY DEF KioskInv, KioskTypes, KioskTypeOK, Ops, Owners, LedgerRecords
  <2>2. RecordedCardIsResolved
    BY DEF KioskInv, CardInv, RecordedCardIsResolved, Active
  <2>3. SettledCustodyIsTrue
    BY KioskAssumption DEF KioskInv, CardInv, SettledCustodyIsTrue, Seen
  <2>4. InterventionSurvives
    BY DEF KioskInv, InterventionInv, InterventionSurvives
  <2> QED
    BY <2>1, <2>2, <2>3, <2>4 DEF RecordedCardIsKept
<1> QED
  BY <1>1, KioskStarts, KioskStays, PTL DEF KioskSpec

-----------------------------------------------------------------------------
(* Service availability.                                                   *)

(* The published status follows the pending reason: a status of             *)
(* suspensionPending is backed by a reason, which is backed by a request no *)
(* evaluation has ended; only an evaluation under way can overtake one.     *)
PendingIsBacked ==
  /\ status = "suspensionPending" => pendingWhy # "none"
  /\ pendingWhy # "none" => asked \in {"before", "during"}
  /\ asked = "during" => gate # 0

AvailInv == SuspensionIsHonoured /\ PendingIsBacked

USE DEF AvailInv, SuspensionIsHonoured, AvailTypeOK, PendingOnlyWhileActive,
        SuspensionStands, ClosedGateIsRetried, PendingIsBacked, Asked

\* A coordinator that has not been initialized promises nothing yet.
LEMMA AvailInitInv == AvailInit => AvailInv
BY AvailabilityAssumption DEF AvailInit, Statuses

\* An evaluation starts, from initialize(), the timer or the operator: it takes
\* the place of the timer as the way back.
LEMMA EvaluationKeepsInv == AvailInv /\ (Initialize \/ RetryNow) => AvailInv'
<1> SUFFICES ASSUME AvailInv, Initialize \/ RetryNow PROVE AvailInv'
  OBVIOUS
<1>1. CASE Initialize
  BY <1>1, AvailabilityAssumption DEF Initialize, StartEvaluation
<1>2. CASE RetryNow /\ gate = 0
  BY <1>2, AvailabilityAssumption DEF RetryNow, StartEvaluation
<1>3. CASE RetryNow /\ gate # 0
  BY <1>3, AvailabilityAssumption DEF RetryNow
<1> QED
  BY <1>1, <1>2, <1>3

\* A gate answers: a closed one leaves the timer behind, or the mark of a record
\* that was refused; the last open one drops every suspension asked for before.
LEMMA GatesKeepInv ==
  AvailInv /\ (GateClosed \/ GateClosedUnaudited \/ GateOpen \/ AllGatesOpen) => AvailInv'
<1> SUFFICES ASSUME AvailInv, GateClosed \/ GateClosedUnaudited \/ GateOpen \/ AllGatesOpen
             PROVE  AvailInv'
  OBVIOUS
<1>1. CASE GateClosed \/ GateClosedUnaudited
  <2>1. over' \/ timer' \/ unaudited'
    <3>1. CASE GateClosed
      <4>1. UNCHANGED over /\ timer' = ~over
        BY <3>1 DEF GateClosed, Closes
      <4> QED  BY <4>1, Zenon
    <3>2. CASE GateClosedUnaudited
      <4>1. unaudited' = TRUE
        BY <3>2 DEF GateClosedUnaudited
      <4> QED  BY <4>1, Zenon
    <3> QED  BY <1>1, <3>1, <3>2
  <2>2. /\ Closes /\ pendingWhy' = pendingWhy
        /\ asked' = IF asked = "during" THEN "before" ELSE asked
    BY <1>1 DEF GateClosed, GateClosedUnaudited, Closes
  <2>3. /\ status' = "outOfService" /\ activeOperations' = activeOperations
        /\ shown' = activeOperations /\ gate' = 0
        /\ asked = "during" => asked' = "before"
        /\ asked # "during" => asked' = asked
    BY <2>2 DEF Closes, Publish
  <2>4. ClosedGateIsRetried'
    BY <2>1, Zenon
  <2>5. AvailTypeOK'
    BY <2>2, <2>3, AvailabilityAssumption DEF Statuses
  <2>6. PendingOnlyWhileActive' /\ SuspensionStands'
    BY <2>2, <2>3
  <2>7. PendingIsBacked'
    BY <2>2, <2>3
  <2> QED  BY <2>4, <2>5, <2>6, <2>7
<1>2. CASE GateOpen
  BY <1>2, AvailabilityAssumption DEF GateOpen
<1>3. CASE AllGatesOpen
  BY <1>3, AvailabilityAssumption DEF AllGatesOpen, Publish, Statuses
<1> QED
  BY <1>1, <1>2, <1>3

\* Operations begin and end: the last release carries out what is pending, and
\* what it makes unavailable was asked for.
LEMMA OperationsKeepInv == AvailInv /\ (BeginOperation \/ ReleaseOperation) => AvailInv'
<1> SUFFICES ASSUME AvailInv, BeginOperation \/ ReleaseOperation PROVE AvailInv'
  OBVIOUS
<1>1. CASE BeginOperation
  BY <1>1, AvailabilityAssumption DEF BeginOperation, Publish, Statuses
<1>2. CASE ReleaseOperation /\ activeOperations = 1 /\ pendingWhy # "none"
  BY <1>2, AvailabilityAssumption DEF ReleaseOperation, Publish, Statuses
<1>3. CASE ReleaseOperation /\ ~(activeOperations = 1 /\ pendingWhy # "none")
  BY <1>3, AvailabilityAssumption DEF ReleaseOperation, Publish
<1> QED
  BY <1>1, <1>2, <1>3

\* The operator suspends or the application shuts down.
LEMMA OperatorKeepsInv == AvailInv /\ (RequestSuspension \/ DisposeAvailability) => AvailInv'
<1> SUFFICES ASSUME AvailInv, RequestSuspension \/ DisposeAvailability PROVE AvailInv'
  OBVIOUS
<1>1. CASE RequestSuspension /\ activeOperations > 0
  BY <1>1, AvailabilityAssumption DEF RequestSuspension, Publish, Statuses
<1>2. CASE RequestSuspension /\ ~(activeOperations > 0)
  BY <1>2, AvailabilityAssumption DEF RequestSuspension, Publish, Statuses
<1>3. CASE DisposeAvailability
  BY <1>3 DEF DisposeAvailability
<1> QED
  BY <1>1, <1>2, <1>3

(* A suspension stands until an evaluation that began after it finds every  *)
(* gate open, and a closed gate has its retry, whatever is evaluated,       *)
(* released, retried or published meanwhile, for any number of gates and    *)
(* operations (service-availability.ts).  The history variables name the    *)
(* two exceptions: a suspension asked for while the gates were answering,   *)
(* and a closed gate whose record the audit log refused.                    *)
THEOREM SuspensionsAreHonoured == AvailSpec => []SuspensionIsHonoured
<1>1. AvailInv /\ [AvailNext]_availVars => AvailInv'
  <2>1. AvailInv /\ UNCHANGED availVars => AvailInv'
    BY DEF availVars
  <2> QED
    BY <2>1, EvaluationKeepsInv, GatesKeepInv, OperationsKeepInv, OperatorKeepsInv DEF AvailNext
<1> QED
  BY <1>1, AvailInitInv, PTL DEF AvailSpec

-----------------------------------------------------------------------------
(* The event bus: publishes, their handlers and their dead letters.        *)

EnvelopeStates == {"queued", "dispatching", "reporting", "resolved", "rejected"}
Results == {"none", "running", "completed", "failed", "timedOut", "filterThrew"}
Invocations == [result : Results, awaits : Nat]
Envelopes ==
  [key : Keys, cause : Nat, prev : Nat, epoch : 0..1, state : EnvelopeStates, dead : Nat,
   inv : [Handlers -> Invocations]]

HasSettled(r) == r.state \in {"resolved", "rejected"}
Failed(r) == {h \in Handlers : r.inv[h].result \in {"failed", "timedOut"}}
Works(r) == {h \in Handlers : r.inv[h].result = "running"}
Threw(r) == \E h \in Handlers : r.inv[h].result = "filterThrew"

\* One envelope: only a running handler awaits something, none runs before the
\* dispatch or after the end, and a failure is settled only with a dead letter;
\* but an envelope a filter threw on is rejected at once.
EnvelopeOK(r) ==
  /\ \A h \in Handlers : r.inv[h].awaits # 0 => r.inv[h].result = "running"
  /\ r.state = "queued" => \A h \in Handlers : r.inv[h].result = "none"
  /\ r.state \notin {"queued", "dispatching"} /\ ~Threw(r) => Works(r) = {}
  /\ Threw(r) => r.state = "rejected" /\ r.dead = 0
  /\ r.state = "reporting" => r.dead # 0
  /\ r.dead # 0 => r.state \notin {"queued", "dispatching"} /\ r.key[2] = Topic /\ Failed(r) # {}
  /\ HasSettled(r) /\ ~Threw(r) /\ Failed(r) # {} /\ r.key[2] = Topic => r.dead # 0

\* es: the envelopes, n: the highest number a dead letter may have.
EnvelopesOK(es, n) ==
  /\ es \in Seq(Envelopes)
  /\ \A e \in DOMAIN es :
       /\ EnvelopeOK(es[e]) /\ es[e].prev < e /\ es[e].dead <= n

SameQueue(es, e, f) == es[e].key = es[f].key /\ es[e].epoch = es[f].epoch

\* An envelope is chained behind the last one of its queue before it.
Chained(es) ==
  \A e, f \in DOMAIN es :
    e < f /\ SameQueue(es, e, f) => es[f].prev >= e /\ SameQueue(es, es[f].prev, f)

Ordered(es) ==
  \A e, f \in DOMAIN es :
    e < f /\ SameQueue(es, e, f) /\ ~HasSettled(es[e]) => es[f].state = "queued"

Delivered(es) ==
  \A e \in DOMAIN es : HasSettled(es[e]) /\ es[e].dead # 0
     => es[e].dead \in DOMAIN es /\ HasSettled(es[es[e].dead])

Letters(es) ==
  \A e \in DOMAIN es : es[e].key[2] = DeadLetter
    => es[e].cause \in DOMAIN es /\ es[es[e].cause].dead = e

\* queueTail is the last envelope of the queue since dispose(), if there is one.
TailsOK(es, qt, d) ==
  \A k \in Keys :
    /\ qt[k] \in 0..Len(es)
    /\ qt[k] # 0 => es[qt[k]].key = k /\ es[qt[k]].epoch = d
    /\ \A e \in DOMAIN es : es[e].key = k /\ es[e].epoch = d => e <= qt[k]

BusOK(es, n, qt, d) ==
  /\ EnvelopesOK(es, n) /\ \A e \in DOMAIN es : es[e].epoch <= d
  /\ Chained(es) /\ Ordered(es) /\ Delivered(es) /\ Letters(es) /\ TailsOK(es, qt, d)

BusInv ==
  /\ subscribed \in [Handlers -> {"none", Topic, DeadLetter, "removed"}]
  /\ disposals \in 0..1 /\ queueTail \in [Keys -> Nat]
  /\ BusOK(envelopes, Len(envelopes), queueTail, disposals)

-----------------------------------------------------------------------------
(* Requests.                                                               *)

RequestStates == {"idle", "walking", "asking", "answered", "noResponder", "filterThrew"}
RequestInv ==
  /\ responders \in Seq(Responders) /\ request.list \in Seq(Responders)
  /\ request \in [state : RequestStates, list : Seq(Responders), at : Nat, live : BOOLEAN,
                  asked : SUBSET Responders, stayed : SUBSET Responders]
  /\ request.at <= Len(request.list)
  /\ \A k \in 1..request.at : request.list[k] \in request.asked
  /\ \A r \in request.stayed : \E k \in 1..Len(request.list) : request.list[k] = r
  /\ request.live => request.state \in {"walking", "asking"}
  /\ request.state = "noResponder" => request.at = Len(request.list)

-----------------------------------------------------------------------------
(* Prompts.                                                                *)

PresenterInv ==
  /\ PresenterTypeOK /\ closing \in [state : {"no", "cancelling", "done", "failed"}, awaits : SUBSET Sessions]
  /\ unstarted \subseteq cancelled
  /\ \A s \in audible : phase[s] \in RunPhases
  /\ \A s \in unstarted : phase[s] \in Queueing \cup {"over", Abandoned}
  /\ CurrentIsRunning

-----------------------------------------------------------------------------
(* Lemmas about a bus whose envelopes are es: one of them changes, one is  *)
(* queued.                                                                 *)

\* What a step of the bus may do to an envelope r, which becomes w.
Advances(es, e, w) ==
  /\ w \in Envelopes /\ EnvelopeOK(w)
  /\ w.key = es[e].key /\ w.cause = es[e].cause /\ w.prev = es[e].prev /\ w.epoch = es[e].epoch
  /\ es[e].state # "queued" => w.state # "queued"
  /\ HasSettled(es[e]) => HasSettled(w)
  /\ es[e].dead # 0 => w.dead = es[e].dead
  /\ w.state # "queued" /\ es[e].state = "queued" /\ es[e].prev # 0 => HasSettled(es[es[e].prev])
  /\ HasSettled(w) /\ w.dead # 0 => w.dead \in DOMAIN es /\ HasSettled(es[w.dead])

LEMMA EnvelopeTypes ==
  ASSUME NEW es, NEW n \in Nat, EnvelopesOK(es, n)
  PROVE  /\ es \in Seq(Envelopes) /\ Len(es) \in Nat /\ DOMAIN es = 1..Len(es)
         /\ \A e \in DOMAIN es :
              /\ e \in Nat /\ e >= 1 /\ e <= Len(es) /\ es[e] \in Envelopes
              /\ es[e].prev \in Nat /\ es[e].dead \in Nat /\ es[e].cause \in Nat
              /\ es[e].key \in Keys /\ es[e].epoch \in 0..1
<1>1. es \in Seq(Envelopes)
  BY DEF EnvelopesOK
<1>2. Len(es) \in Nat /\ DOMAIN es = 1..Len(es)
  BY <1>1, LenProperties
<1>3. ASSUME NEW e \in DOMAIN es
      PROVE  e \in Nat /\ e >= 1 /\ e <= Len(es) /\ es[e] \in Envelopes
  <2>1. e \in 1..Len(es)
    BY <1>2
  <2>2. es[e] \in Envelopes
    BY <1>1, <2>1, ElementOfSeq
  <2> QED  BY <1>2, <2>1, <2>2
<1>4. \A r \in Envelopes : /\ r.prev \in Nat /\ r.dead \in Nat /\ r.cause \in Nat
                           /\ r.key \in Keys /\ r.epoch \in 0..1
  BY DEF Envelopes
<1> QED  BY <1>1, <1>2, <1>3, <1>4

\* An envelope that advances keeps the bus in order.
LEMMA EnvelopeAdvances ==
  ASSUME NEW es, NEW n \in Nat, NEW m \in Nat, NEW qt, NEW d, BusOK(es, n, qt, d), n <= m,
         NEW e \in DOMAIN es, NEW w, Advances(es, e, w), w.dead <= m
  PROVE  BusOK([es EXCEPT ![e] = w], m, qt, d)
<1> DEFINE now == [es EXCEPT ![e] = w]
<1>0. EnvelopesOK(es, n)
  BY DEF BusOK
<1>1. /\ es \in Seq(Envelopes) /\ Len(es) \in Nat /\ DOMAIN es = 1..Len(es)
      /\ \A x \in DOMAIN es :
              /\ x \in Nat /\ x >= 1 /\ x <= Len(es) /\ es[x] \in Envelopes
              /\ es[x].prev \in Nat /\ es[x].dead \in Nat /\ es[x].cause \in Nat
              /\ es[x].key \in Keys /\ es[x].epoch \in 0..1
  BY <1>0, EnvelopeTypes
<1>w. w \in Envelopes /\ w.dead \in Nat
  BY DEF Advances, Envelopes
<1>2. now \in Seq(Envelopes) /\ Len(now) = Len(es)
  BY <1>1, <1>w, ExceptSeq
<1>3. DOMAIN now = DOMAIN es
  BY <1>1
<1>4. \A x \in DOMAIN es : now[x] = IF x = e THEN w ELSE es[x]
  BY <1>1, <1>w, ExceptSeq
<1> HIDE DEF now
<1>5. \A x \in DOMAIN es : /\ now[x].key = es[x].key /\ now[x].epoch = es[x].epoch
                           /\ now[x].prev = es[x].prev /\ now[x].cause = es[x].cause
                           /\ es[x].state # "queued" => now[x].state # "queued"
                           /\ HasSettled(es[x]) => HasSettled(now[x])
                           /\ es[x].dead # 0 => now[x].dead = es[x].dead
  BY <1>4 DEF Advances
<1>6. EnvelopesOK(now, m)
  <2>1. ASSUME NEW x \in DOMAIN now
        PROVE  EnvelopeOK(now[x]) /\ now[x].prev < x /\ now[x].dead <= m
    <3>1. x \in DOMAIN es /\ EnvelopeOK(es[x]) /\ es[x].prev < x /\ es[x].dead <= n
      BY <1>0, <1>3 DEF EnvelopesOK
    <3>2. CASE x = e
      BY <3>1, <3>2, <1>4, <1>5 DEF Advances
    <3>3. CASE x # e
      BY <3>1, <3>3, <1>4, <1>1
    <3> QED  BY <3>2, <3>3
  <2> QED  BY <1>2, <2>1 DEF EnvelopesOK
<1>7. \A x, y \in DOMAIN es : SameQueue(now, x, y) <=> SameQueue(es, x, y)
  BY <1>5 DEF SameQueue
<1>8. Chained(now)
  <2>1. ASSUME NEW x \in DOMAIN es, NEW y \in DOMAIN es, x < y, SameQueue(es, x, y)
        PROVE  now[y].prev >= x /\ SameQueue(now, now[y].prev, y)
    <3>1. es[y].prev >= x /\ SameQueue(es, es[y].prev, y) /\ es[y].prev < y
      BY <1>0, <2>1 DEF BusOK, Chained, EnvelopesOK
    <3>2. es[y].prev \in DOMAIN es
      BY <3>1, <1>1, <2>1
    <3> QED  BY <3>1, <3>2, <1>5, <1>7
  <2> QED  BY <2>1, <1>3, <1>7 DEF Chained
<1>9. Ordered(now)
  <2>1. ASSUME NEW x \in DOMAIN es, NEW y \in DOMAIN es, x < y, SameQueue(es, x, y),
               ~HasSettled(now[x])
        PROVE  now[y].state = "queued"
    <3>1. ~HasSettled(es[x])
      BY <1>5, <2>1
    <3>2. es[y].state = "queued"
      BY <3>1, <2>1 DEF BusOK, Ordered
    <3>3. SUFFICES ASSUME y = e, now[y].state # "queued" PROVE FALSE
      BY <1>4, <3>2
    <3>4. w.state # "queued"
      BY <3>3, <1>4
    <3>5. es[y].prev >= x /\ SameQueue(es, es[y].prev, y) /\ es[y].prev < y
      BY <1>0, <2>1 DEF BusOK, Chained, EnvelopesOK
    <3>6. es[y].prev \in DOMAIN es /\ es[y].prev # 0
      BY <3>5, <1>1, <2>1
    <3>7. HasSettled(es[es[y].prev])
      BY <3>2, <3>3, <3>4, <3>6 DEF Advances
    <3>8. CASE es[y].prev = x
      BY <3>7, <3>8, <3>1
    <3>9. CASE es[y].prev # x
      <4>1. x < es[y].prev
        BY <3>5, <3>6, <3>9, <1>1
      <4>2. SameQueue(es, x, es[y].prev)
        BY <2>1, <3>5 DEF SameQueue
      <4>3. es[es[y].prev].state = "queued"
        BY <4>1, <4>2, <3>1, <3>6 DEF BusOK, Ordered
      <4> QED  BY <4>3, <3>7 DEF HasSettled
    <3> QED  BY <3>8, <3>9
  <2> QED  BY <2>1, <1>3, <1>7 DEF Ordered
<1>10. Delivered(now)
  <2>1. ASSUME NEW x \in DOMAIN es, HasSettled(now[x]), now[x].dead # 0
        PROVE  now[x].dead \in DOMAIN es /\ HasSettled(es[now[x].dead])
    <3>1. CASE x = e
      BY <3>1, <2>1, <1>4 DEF Advances
    <3>2. CASE x # e
      <4>1. now[x] = es[x]
        BY <3>2, <1>4
      <4> QED  BY <4>1, <2>1 DEF BusOK, Delivered
    <3> QED  BY <3>1, <3>2
  <2> QED  BY <2>1, <1>3, <1>5 DEF Delivered
<1>11. Letters(now)
  <2>1. ASSUME NEW x \in DOMAIN es, now[x].key[2] = DeadLetter
        PROVE  now[x].cause \in DOMAIN es /\ now[now[x].cause].dead = x
    <3>1. es[x].cause \in DOMAIN es /\ es[es[x].cause].dead = x
      BY <2>1, <1>5 DEF BusOK, Letters
    <3>2. x # 0
      BY <1>1, <2>1
    <3> QED  BY <3>1, <3>2, <1>5
  <2> QED  BY <2>1, <1>3 DEF Letters
<1>12. TailsOK(now, qt, d)
  <2>1. ASSUME NEW k \in Keys
        PROVE  /\ qt[k] \in 0..Len(now)
               /\ qt[k] # 0 => now[qt[k]].key = k /\ now[qt[k]].epoch = d
               /\ \A x \in DOMAIN now : now[x].key = k /\ now[x].epoch = d => x <= qt[k]
    <3>1. /\ qt[k] \in 0..Len(es)
          /\ qt[k] # 0 => es[qt[k]].key = k /\ es[qt[k]].epoch = d
          /\ \A x \in DOMAIN es : es[x].key = k /\ es[x].epoch = d => x <= qt[k]
      BY DEF BusOK, TailsOK
    <3>2. qt[k] # 0 => qt[k] \in DOMAIN es
      BY <3>1, <1>1
    <3> QED  BY <3>1, <3>2, <1>2, <1>3, <1>5
  <2> QED  BY <2>1 DEF TailsOK
<1>13. \A x \in DOMAIN now : now[x].epoch <= d
  BY <1>3, <1>5 DEF BusOK
<1>14. BusOK(now, m, qt, d)
  BY <1>6, <1>8, <1>9, <1>10, <1>11, <1>12, <1>13 DEF BusOK
<1> QED  BY <1>14 DEF now

\* An envelope of the key k joins the end of its queue.
LEMMA EnvelopeQueued ==
  ASSUME NEW es, NEW n \in Nat, BusOK(es, n, queueTail, disposals), n <= Len(es) + 1,
         disposals \in 0..1, queueTail \in [Keys -> Nat],
         NEW k \in Keys, NEW c \in Nat,
         k[2] = DeadLetter => c \in DOMAIN es /\ es[c].dead = Len(es) + 1
  PROVE  /\ BusOK(Append(es, createEnvelope(k, c)), Len(Append(es, createEnvelope(k, c))),
                  [queueTail EXCEPT ![k] = Len(es) + 1], disposals)
         /\ [queueTail EXCEPT ![k] = Len(es) + 1] \in [Keys -> Nat]
<1> DEFINE r == createEnvelope(k, c)
           now == Append(es, r)
           l == Len(es) + 1
           qt == [queueTail EXCEPT ![k] = l]
<1>0. EnvelopesOK(es, n)
  BY DEF BusOK
<1>1. /\ es \in Seq(Envelopes) /\ Len(es) \in Nat /\ DOMAIN es = 1..Len(es)
      /\ \A x \in DOMAIN es :
              /\ x \in Nat /\ x >= 1 /\ x <= Len(es) /\ es[x] \in Envelopes
              /\ es[x].prev \in Nat /\ es[x].dead \in Nat /\ es[x].cause \in Nat
              /\ es[x].key \in Keys /\ es[x].epoch \in 0..1
  BY <1>0, EnvelopeTypes
<1>2. queueTail[k] \in 0..Len(es)
      /\ (queueTail[k] # 0 => es[queueTail[k]].key = k /\ es[queueTail[k]].epoch = disposals)
      /\ \A x \in DOMAIN es : es[x].key = k /\ es[x].epoch = disposals => x <= queueTail[k]
  BY DEF BusOK, TailsOK
<1>3. /\ r.key = k /\ r.cause = c /\ r.prev = queueTail[k] /\ r.epoch = disposals
      /\ r.state = "queued" /\ r.dead = 0 /\ r.inv = [h \in Handlers |-> Invocation("none")]
  BY DEF createEnvelope
<1>4. r.inv \in [Handlers -> Invocations] /\ \A h \in Handlers : r.inv[h].awaits = 0 /\ r.inv[h].result = "none"
  BY <1>3 DEF Invocation, Invocations, Results
<1>5. r \in Envelopes
  BY <1>2, <1>1, <1>4 DEF createEnvelope, Envelopes, EnvelopeStates
<1>6. EnvelopeOK(r)
  BY <1>3, <1>4 DEF EnvelopeOK, HasSettled, Works, Threw
<1>7. /\ now \in Seq(Envelopes) /\ Len(now) = l
      /\ \A x \in 1..Len(es) : now[x] = es[x]
      /\ now[l] = r
  BY <1>1, <1>5, AppendProperties
<1>8. l \in Nat /\ DOMAIN now = 1..l
  BY <1>7, <1>1, LenProperties
<1>9. qt \in [Keys -> Nat] /\ qt[k] = l /\ \A j \in Keys : j # k => qt[j] = queueTail[j]
  BY <1>8
<1> HIDE DEF r, now, qt
<1>10. \A x \in DOMAIN now : x = l \/ (x \in DOMAIN es /\ now[x] = es[x] /\ x < l)
  BY <1>1, <1>7, <1>8
<1>11. \A x \in DOMAIN es : x \in DOMAIN now /\ now[x] = es[x]
  BY <1>1, <1>7, <1>8
<1>12. EnvelopesOK(now, l)
  <2>1. ASSUME NEW x \in DOMAIN now
        PROVE  EnvelopeOK(now[x]) /\ now[x].prev < x /\ now[x].dead <= l
    <3>1. CASE x = l
      BY <3>1, <1>1, <1>2, <1>3, <1>6, <1>7
    <3>2. CASE x # l
      <4>1. x \in DOMAIN es /\ now[x] = es[x]
        BY <3>2, <1>10, <2>1
      <4>2. EnvelopeOK(es[x]) /\ es[x].prev < x /\ es[x].dead <= n
        BY <4>1, <1>0 DEF EnvelopesOK
      <4> QED  BY <4>1, <4>2, <1>1
    <3> QED  BY <3>1, <3>2
  <2> QED  BY <2>1, <1>7 DEF EnvelopesOK
<1>13. Chained(now)
  <2>1. ASSUME NEW x \in DOMAIN now, NEW y \in DOMAIN now, x < y, SameQueue(now, x, y)
        PROVE  now[y].prev >= x /\ SameQueue(now, now[y].prev, y)
    <3>1. x \in DOMAIN es /\ now[x] = es[x]
      BY <2>1, <1>8, <1>10
    <3>2. CASE y = l
      <4>1. es[x].key = k /\ es[x].epoch = disposals
        BY <3>1, <3>2, <2>1, <1>3, <1>7 DEF SameQueue
      <4>2. x <= queueTail[k] /\ queueTail[k] # 0
        BY <4>1, <3>1, <1>2, <1>1
      <4>3. queueTail[k] \in DOMAIN es
        BY <4>2, <1>1, <1>2
      <4>4. now[queueTail[k]].key = k /\ now[queueTail[k]].epoch = disposals
        BY <4>2, <4>3, <1>2, <1>11
      <4> QED  BY <4>1, <4>2, <4>4, <3>1, <3>2, <1>1, <1>2, <1>3, <1>7 DEF SameQueue
    <3>3. CASE y # l
      <4>1. y \in DOMAIN es /\ now[y] = es[y]
        BY <3>3, <1>10, <2>1
      <4>2. SameQueue(es, x, y)
        BY <2>1, <3>1, <4>1 DEF SameQueue
      <4>3. es[y].prev >= x /\ SameQueue(es, es[y].prev, y) /\ es[y].prev < y
        BY <1>0, <2>1, <3>1, <4>1, <4>2 DEF BusOK, Chained, EnvelopesOK
      <4>4. es[y].prev \in DOMAIN es
        BY <4>3, <3>1, <4>1, <1>1
      <4> QED  BY <4>1, <4>3, <4>4, <1>11 DEF SameQueue
    <3> QED  BY <3>2, <3>3
  <2> QED  BY <2>1 DEF Chained
<1>14. Ordered(now)
  <2>1. ASSUME NEW x \in DOMAIN now, NEW y \in DOMAIN now, x < y, SameQueue(now, x, y),
               ~HasSettled(now[x])
        PROVE  now[y].state = "queued"
    <3>1. x \in DOMAIN es /\ now[x] = es[x]
      BY <2>1, <1>8, <1>10
    <3>2. CASE y = l
      BY <3>2, <1>3, <1>7
    <3>3. CASE y # l
      <4>1. y \in DOMAIN es /\ now[y] = es[y]
        BY <3>3, <1>10, <2>1
      <4> QED  BY <4>1, <3>1, <2>1 DEF BusOK, Ordered, SameQueue
    <3> QED  BY <3>2, <3>3
  <2> QED  BY <2>1 DEF Ordered
<1>15. Delivered(now)
  <2>1. ASSUME NEW x \in DOMAIN now, HasSettled(now[x]), now[x].dead # 0
        PROVE  now[x].dead \in DOMAIN now /\ HasSettled(now[now[x].dead])
    <3>1. x \in DOMAIN es /\ now[x] = es[x]
      BY <2>1, <1>3, <1>7, <1>10
    <3>2. es[x].dead \in DOMAIN es /\ HasSettled(es[es[x].dead])
      BY <3>1, <2>1 DEF BusOK, Delivered
    <3> QED  BY <3>1, <3>2, <1>11
  <2> QED  BY <2>1 DEF Delivered
<1>16. Letters(now)
  <2>1. ASSUME NEW x \in DOMAIN now, now[x].key[2] = DeadLetter
        PROVE  now[x].cause \in DOMAIN now /\ now[now[x].cause].dead = x
    <3>1. CASE x = l
      <4>1. c \in DOMAIN es /\ es[c].dead = l
        BY <2>1, <3>1, <1>3, <1>7
      <4> QED  BY <4>1, <3>1, <1>3, <1>7, <1>11
    <3>2. CASE x # l
      <4>1. x \in DOMAIN es /\ now[x] = es[x]
        BY <3>2, <1>10, <2>1
      <4>2. es[x].cause \in DOMAIN es /\ es[es[x].cause].dead = x
        BY <4>1, <2>1 DEF BusOK, Letters
      <4> QED  BY <4>1, <4>2, <1>11
    <3> QED  BY <3>1, <3>2
  <2> QED  BY <2>1 DEF Letters
<1>17. TailsOK(now, qt, disposals)
  <2>1. ASSUME NEW j \in Keys
        PROVE  /\ qt[j] \in 0..Len(now)
               /\ qt[j] # 0 => now[qt[j]].key = j /\ now[qt[j]].epoch = disposals
               /\ \A x \in DOMAIN now : now[x].key = j /\ now[x].epoch = disposals => x <= qt[j]
    <3>1. CASE j = k
      BY <3>1, <1>1, <1>3, <1>7, <1>8, <1>9
    <3>2. CASE j # k
      <4>1. /\ queueTail[j] \in 0..Len(es)
            /\ queueTail[j] # 0 => es[queueTail[j]].key = j /\ es[queueTail[j]].epoch = disposals
            /\ \A x \in DOMAIN es : es[x].key = j /\ es[x].epoch = disposals => x <= queueTail[j]
        BY DEF BusOK, TailsOK
      <4>2. qt[j] = queueTail[j]
        BY <3>2, <1>9
      <4>3. qt[j] # 0 => qt[j] \in DOMAIN es
        BY <4>1, <4>2, <1>1
      <4>4. \A x \in DOMAIN now : now[x].key = j => x \in DOMAIN es /\ now[x] = es[x]
        BY <3>2, <1>3, <1>7, <1>10
      <4>5. qt[j] \in 0..Len(now)
        BY <4>1, <4>2, <1>1, <1>7
      <4> QED  BY <4>1, <4>2, <4>3, <4>4, <4>5, <1>11
    <3> QED  BY <3>1, <3>2
  <2> QED  BY <2>1 DEF TailsOK
<1>18. \A x \in DOMAIN now : now[x].epoch <= disposals
  <2>1. \A x \in DOMAIN es : es[x].epoch <= disposals
    BY DEF BusOK
  <2> QED  BY <2>1, <1>3, <1>7, <1>10
<1>19. BusOK(now, l, qt, disposals)
  BY <1>12, <1>13, <1>14, <1>15, <1>16, <1>17, <1>18 DEF BusOK
<1> QED  BY <1>19, <1>7, <1>9 DEF r, now, qt

-----------------------------------------------------------------------------
(* The steps of the bus.                                                   *)

LEMMA BusInitInv == ASSUME BusInit PROVE BusInv
<1>1. envelopes \in Seq(Envelopes) /\ Len(envelopes) = 0 /\ DOMAIN envelopes = {}
  BY EmptySeq, LenProperties DEF BusInit
<1> QED
  BY <1>1 DEF BusInit, BusInv, BusOK, EnvelopesOK, Chained, Ordered, Delivered, Letters, TailsOK

LEMMA BusFacts ==
  ASSUME BusInv
  PROVE  /\ Len(envelopes) \in Nat /\ DOMAIN envelopes = 1..Len(envelopes)
         /\ envelopes \in Seq(Envelopes)
         /\ BusOK(envelopes, Len(envelopes), queueTail, disposals)
         /\ disposals \in 0..1 /\ queueTail \in [Keys -> Nat]
         /\ \A e \in DOMAIN envelopes :
              /\ e \in Nat /\ envelopes[e] \in Envelopes /\ EnvelopeOK(envelopes[e])
              /\ envelopes[e].dead <= Len(envelopes) /\ envelopes[e].key \in Keys
<1>1. EnvelopesOK(envelopes, Len(envelopes)) /\ envelopes \in Seq(Envelopes)
  BY DEF BusInv, BusOK, EnvelopesOK
<1>2. Len(envelopes) \in Nat
  BY <1>1, LenProperties
<1>3. /\ DOMAIN envelopes = 1..Len(envelopes)
      /\ \A e \in DOMAIN envelopes : e \in Nat /\ envelopes[e] \in Envelopes /\ envelopes[e].key \in Keys
  BY <1>1, <1>2, EnvelopeTypes
<1> QED  BY <1>1, <1>2, <1>3 DEF BusInv, EnvelopesOK

\* A step that only moves the envelope e on.
LEMMA Moved ==
  ASSUME BusInv, NEW e \in DOMAIN envelopes, NEW w, Advances(envelopes, e, w),
         w.dead = envelopes[e].dead, envelopes' = [envelopes EXCEPT ![e] = w],
         UNCHANGED <<subscribed, queueTail, disposals>>
  PROVE  BusInv'
<1>1. /\ BusOK(envelopes, Len(envelopes), queueTail, disposals) /\ Len(envelopes) \in Nat
      /\ w.dead <= Len(envelopes) /\ Len(envelopes) <= Len(envelopes)
  BY BusFacts
<1>2. BusOK([envelopes EXCEPT ![e] = w], Len(envelopes), queueTail, disposals)
  BY <1>1, EnvelopeAdvances, Zenon
<1>3. Len([envelopes EXCEPT ![e] = w]) = Len(envelopes)
  BY BusFacts, ExceptSeq DEF Advances
<1> QED  BY <1>2, <1>3 DEF BusInv

\* A step that moves the envelope e on and queues another one.
LEMMA MovedAndQueued ==
  ASSUME BusInv, NEW e \in DOMAIN envelopes, NEW w, Advances(envelopes, e, w),
         w.dead <= Len(envelopes) + 1, NEW k \in Keys, NEW c \in Nat,
         k[2] = DeadLetter => c = e /\ w.dead = Len(envelopes) + 1,
         Enqueue([envelopes EXCEPT ![e] = w], k, c), UNCHANGED <<subscribed, disposals>>
  PROVE  BusInv'
<1> DEFINE now == [envelopes EXCEPT ![e] = w]
<1>1. /\ BusOK(envelopes, Len(envelopes), queueTail, disposals) /\ Len(envelopes) \in Nat
      /\ disposals \in 0..1 /\ queueTail \in [Keys -> Nat]
      /\ DOMAIN envelopes = 1..Len(envelopes)
      /\ Len(envelopes) + 1 \in Nat /\ Len(envelopes) <= Len(envelopes) + 1
  BY BusFacts
<1>2. BusOK(now, Len(envelopes) + 1, queueTail, disposals)
  BY <1>1, EnvelopeAdvances, Zenon
<1>7. now \in Seq(Envelopes) /\ Len(now) = Len(envelopes) /\ now[e] = w
  BY <1>1, BusFacts, ExceptSeq DEF Advances
<1>3. DOMAIN now = DOMAIN envelopes
  OBVIOUS
<1>4. envelopes' = Append(now, createEnvelope(k, c)) /\ queueTail' = [queueTail EXCEPT ![k] = Len(now) + 1]
  BY DEF Enqueue
<1> HIDE DEF now
<1>5. k[2] = DeadLetter => c \in DOMAIN now /\ now[c].dead = Len(now) + 1
  BY <1>2, <1>3, <1>7
<1>e. Len(envelopes) + 1 <= Len(now) + 1
  BY <1>1, <1>7
<1>6. BusOK(envelopes', Len(envelopes'), queueTail', disposals) /\ queueTail' \in [Keys -> Nat]
  BY <1>1, <1>2, <1>4, <1>5, <1>e, EnvelopeQueued, Zenon
<1> QED  BY <1>6 DEF BusInv

LEMMA EnvelopeFields ==
  ASSUME NEW r \in Envelopes
  PROVE  /\ r = [key |-> r.key, cause |-> r.cause, prev |-> r.prev, epoch |-> r.epoch,
                 state |-> r.state, dead |-> r.dead, inv |-> r.inv]
         /\ r.key \in Keys /\ r.cause \in Nat /\ r.prev \in Nat /\ r.epoch \in 0..1
         /\ r.state \in EnvelopeStates /\ r.dead \in Nat /\ r.inv \in [Handlers -> Invocations]
         /\ \A h \in Handlers : r.inv[h].result \in Results /\ r.inv[h].awaits \in Nat
<1>1. r.inv \in [Handlers -> Invocations]
  BY DEF Envelopes
<1>2. \A v \in Invocations : v.result \in Results /\ v.awaits \in Nat
  BY DEF Invocations
<1> QED  BY <1>1, <1>2 DEF Envelopes

\* One handler's part changes; the envelope is being dispatched.
LEMMA HandlerMoves ==
  ASSUME BusInv, NEW e \in DOMAIN envelopes, NEW h \in Handlers, NEW v \in Invocations,
         envelopes[e].inv[h].result = "running", v.awaits # 0 => v.result = "running",
         v.result # "filterThrew"
  PROVE  /\ Advances(envelopes, e, [envelopes[e] EXCEPT !.inv[h] = v])
         /\ [envelopes[e] EXCEPT !.inv[h] = v].dead = envelopes[e].dead
<1> DEFINE r == envelopes[e]
           w == [r EXCEPT !.inv[h] = v]
<1>1. r \in Envelopes /\ EnvelopeOK(r)
  BY BusFacts
<1>2. /\ w \in Envelopes
      /\ w.key = r.key /\ w.cause = r.cause /\ w.prev = r.prev /\ w.epoch = r.epoch
      /\ w.state = r.state /\ w.dead = r.dead
  BY <1>1, EnvelopeFields DEF Envelopes
<1>3. w.inv = [r.inv EXCEPT ![h] = v] /\ r.inv \in [Handlers -> Invocations]
  BY <1>1, EnvelopeFields
<1>4. w.inv[h] = v /\ \A g \in Handlers : g # h => w.inv[g] = r.inv[g]
  BY <1>3
<1> HIDE DEF w, r
<1>5. h \in Works(r)
  BY DEF Works, r
<1>6. r.state = "dispatching" \/ Threw(r)
  <2>1. r.state \in {"queued", "dispatching"} \/ Threw(r)
    BY <1>1, <1>5 DEF EnvelopeOK
  <2>2. r.inv[h].result # "none"
    BY DEF r
  <2> QED  BY <1>1, <2>1, <2>2 DEF EnvelopeOK
<1>7. r.dead = 0 /\ r.state # "queued" /\ (Threw(r) => r.state = "rejected")
  BY <1>1, <1>6 DEF EnvelopeOK
<1>t. Threw(w) <=> Threw(r)
  <2>1. r.inv[h].result = "running"
    BY DEF r
  <2> QED  BY <1>4, <2>1 DEF Threw
<1>8. EnvelopeOK(w)
  BY <1>1, <1>2, <1>4, <1>6, <1>7, <1>t DEF EnvelopeOK, HasSettled
<1>9. w.state = r.state /\ w.dead = 0 /\ w.state # "queued"
  BY <1>2, <1>7
<1>10. Advances(envelopes, e, w)
  BY <1>2, <1>7, <1>8, <1>9 DEF Advances, HasSettled, r
<1> QED  BY <1>2, <1>10 DEF w, r

LEMMA DispatchInv ==
  ASSUME BusInv, NEW e \in DOMAIN envelopes, Dispatch(e)
  PROVE  BusInv'
<1> DEFINE r == envelopes[e]
<1>0. PICK called \in SUBSET subscribers(e) : \E threw \in SUBSET (subscribers(e) \ called) :
        envelopes' = [envelopes EXCEPT
          ![e].state = IF threw = {} THEN "dispatching" ELSE "rejected",
          ![e].inv = [h \in Handlers |-> Invocation(IF h \in called THEN "running"
                                           ELSE IF h \in threw THEN "filterThrew" ELSE "none")]]
  BY DEF Dispatch
<1>1. PICK threw \in SUBSET (subscribers(e) \ called) :
        envelopes' = [envelopes EXCEPT
          ![e].state = IF threw = {} THEN "dispatching" ELSE "rejected",
          ![e].inv = [h \in Handlers |-> Invocation(IF h \in called THEN "running"
                                           ELSE IF h \in threw THEN "filterThrew" ELSE "none")]]
  BY <1>0
<1> DEFINE i == [h \in Handlers |-> Invocation(IF h \in called THEN "running"
                                     ELSE IF h \in threw THEN "filterThrew" ELSE "none")]
           st == IF threw = {} THEN "dispatching" ELSE "rejected"
           w == [r EXCEPT !.state = st, !.inv = i]
<1>2. r \in Envelopes /\ EnvelopeOK(r)
  BY BusFacts
<1>3. i \in [Handlers -> Invocations] /\ \A h \in Handlers : i[h].awaits = 0
  BY DEF Invocation, Invocations, Results
<1>s. st \in {"dispatching", "rejected"}
  OBVIOUS
<1>t. (st = "rejected") <=> \E h \in Handlers : i[h].result = "filterThrew"
  <2>1. threw \subseteq Handlers /\ threw \cap called = {}
    BY DEF subscribers
  <2>2. \A h \in Handlers : i[h].result = "filterThrew" <=> h \in threw
    BY <2>1 DEF Invocation
  <2> QED  BY <2>1, <2>2
<1>5. envelopes' = [envelopes EXCEPT ![e] = w]
  BY <1>1
<1> HIDE DEF i, st
<1>4. /\ w \in Envelopes
      /\ w.key = r.key /\ w.cause = r.cause /\ w.prev = r.prev /\ w.epoch = r.epoch
      /\ w.state = st /\ w.dead = r.dead /\ w.inv = i
  BY <1>2, <1>3, <1>s, EnvelopeFields DEF Envelopes, EnvelopeStates
<1> HIDE DEF w
<1>6. r.state = "queued" /\ r.dead = 0
  BY <1>2 DEF Dispatch, EnvelopeOK
<1>u. Threw(w) <=> w.state = "rejected"
  BY <1>4, <1>t DEF Threw
<1>7. EnvelopeOK(w)
  BY <1>2, <1>3, <1>4, <1>6, <1>s, <1>u DEF EnvelopeOK, HasSettled
<1>8. r.prev # 0 => HasSettled(envelopes[r.prev])
  BY DEF Dispatch, previousDone, settled, HasSettled
<1>9. Advances(envelopes, e, w)
  BY <1>4, <1>6, <1>7, <1>8, <1>s DEF Advances, HasSettled
<1>10. UNCHANGED <<subscribed, queueTail, disposals>>
  BY DEF Dispatch
<1> QED  BY <1>4, <1>5, <1>9, <1>10, Moved

\* The step of the handler h that makes its part v.
HandlerStep(e, h, v) ==
  /\ envelopes[e].inv[h].result = "running"
  /\ (v.awaits # 0 => v.result = "running") /\ v.result # "filterThrew"
  /\ envelopes' = [envelopes EXCEPT ![e].inv[h] = v]

LEMMA NestedExcept ==
  ASSUME NEW f, NEW e, NEW h, NEW v
  PROVE  [f EXCEPT ![e].inv[h] = v] = [f EXCEPT ![e] = [f[e] EXCEPT !.inv[h] = v]]
OBVIOUS

LEMMA AwaitsExcept ==
  ASSUME NEW f, NEW e, NEW h, NEW n
  PROVE  [f EXCEPT ![e].inv[h].awaits = n] = [f EXCEPT ![e].inv[h] = [f[e].inv[h] EXCEPT !.awaits = n]]
OBVIOUS

LEMMA HandlerInv ==
  ASSUME BusInv, NEW e \in DOMAIN envelopes, NEW h \in Handlers,
         \/ HandlerTurn(e, h) \/ \E result \in {"completed", "failed"} : HandlerEnds(e, h, result)
  PROVE  BusInv'
<1>1. /\ envelopes[e] \in Envelopes /\ EnvelopeOK(envelopes[e])
      /\ \A g \in Handlers : envelopes[e].inv[g].result \in Results /\ envelopes[e].inv[g].awaits \in Nat
      /\ envelopes[e].inv \in [Handlers -> Invocations]
  BY BusFacts, EnvelopeFields
<1>2. envelopes[e].inv[h].awaits # 0 => envelopes[e].inv[h].result = "running"
  BY <1>1 DEF EnvelopeOK
<1>3. UNCHANGED <<subscribed, queueTail, disposals>>
  BY DEF HandlerTurn, withTimeout, HandlerResumes, HandlerEnds
<1>4. \E v \in Invocations : HandlerStep(e, h, v)
  <2>1. CASE withTimeout(e, h)
    <3>1. /\ Invocation("timedOut") \in Invocations /\ Invocation("timedOut").awaits = 0
          /\ Invocation("timedOut").result # "filterThrew"
      BY DEF Invocation, Invocations, Results
    <3> QED  BY <2>1, <3>1 DEF withTimeout, HandlerStep
  <2>2. CASE HandlerResumes(e, h)
    <3> DEFINE t == IF envelopes[envelopes[e].inv[h].awaits].state = "resolved" THEN "running" ELSE "failed"
    <3>1. Invocation(t) \in Invocations /\ Invocation(t).awaits = 0 /\ Invocation(t).result # "filterThrew"
      BY DEF Invocation, Invocations, Results
    <3>2. envelopes[e].inv[h].result = "running" /\ envelopes' = [envelopes EXCEPT ![e].inv[h] = Invocation(t)]
      BY <2>2, <1>2 DEF HandlerResumes
    <3> QED  BY <3>1, <3>2 DEF HandlerStep
  <2>3. ASSUME NEW result \in {"completed", "failed"}, HandlerEnds(e, h, result)
        PROVE  \E v \in Invocations : HandlerStep(e, h, v)
    <3> DEFINE v == [envelopes[e].inv[h] EXCEPT !.result = result]
    <3>1. envelopes[e].inv[h] = Invocation("running")
      BY <2>3 DEF HandlerEnds
    <3>2. v \in Invocations /\ v.awaits = 0 /\ v.result # "filterThrew"
      BY <3>1 DEF Invocation, Invocations, Results
    <3>3. envelopes' = [envelopes EXCEPT ![e].inv[h] = v]
      BY <2>3 DEF HandlerEnds
    <3> HIDE DEF v
    <3>4. envelopes[e].inv[h].result = "running"
      BY <3>1 DEF Invocation
    <3> QED  BY <3>2, <3>3, <3>4 DEF HandlerStep
  <2> QED  BY <2>1, <2>2, <2>3 DEF HandlerTurn
<1>5. PICK v \in Invocations : HandlerStep(e, h, v)
  BY <1>4
<1> DEFINE w == [envelopes[e] EXCEPT !.inv[h] = v]
<1>6. Advances(envelopes, e, w) /\ w.dead = envelopes[e].dead
  BY <1>5, HandlerMoves DEF HandlerStep
<1>7. envelopes' = [envelopes EXCEPT ![e] = w]
  BY <1>5, NestedExcept DEF HandlerStep
<1> QED  BY <1>3, <1>6, <1>7, Moved

LEMMA TopicKeys ==
  /\ \A s \in Sources : <<s, Topic>> \in Keys /\ <<s, Topic>>[2] # DeadLetter
  /\ <<"core", DeadLetter>> \in Keys /\ Topic # DeadLetter
  /\ \A k \in Keys : k[2] \in {Topic, DeadLetter}
BY DEF Keys, Topic, DeadLetter

LEMMA HandlerPublishesInv ==
  ASSUME BusInv, NEW e \in DOMAIN envelopes, NEW h \in Handlers, NEW s \in Sources,
         HandlerPublishes(e, h, s)
  PROVE  BusInv'
<1> DEFINE l == Len(envelopes) + 1
           v == [result |-> "running", awaits |-> l]
           w == [envelopes[e] EXCEPT !.inv[h] = v]
<1>1. /\ envelopes[e] \in Envelopes /\ envelopes[e].dead <= Len(envelopes) /\ Len(envelopes) \in Nat
      /\ envelopes[e].inv \in [Handlers -> Invocations] /\ envelopes[e].dead \in Nat
  BY BusFacts, EnvelopeFields
<1>2. l \in Nat /\ v \in Invocations
  BY <1>1 DEF Invocations, Results
<1>3. envelopes[e].inv[h] = [result |-> "running", awaits |-> 0]
  BY DEF HandlerPublishes, Invocation
<1>4. Advances(envelopes, e, w) /\ w.dead = envelopes[e].dead
  BY <1>2, <1>3, HandlerMoves
<1>5. w.dead <= Len(envelopes) + 1
  BY <1>1, <1>4
<1>6. [envelopes EXCEPT ![e].inv[h].awaits = l] = [envelopes EXCEPT ![e] = w]
  <2>1. [envelopes EXCEPT ![e].inv[h].awaits = l] = [envelopes EXCEPT ![e].inv[h] = v]
    <3>1. [envelopes[e].inv[h] EXCEPT !.awaits = l] = v
      BY <1>3
    <3> QED  BY <3>1, AwaitsExcept
  <2> QED  BY <2>1, NestedExcept
<1>7. Enqueue([envelopes EXCEPT ![e] = w], <<s, Topic>>, 0) /\ UNCHANGED <<subscribed, disposals>>
  BY <1>6 DEF HandlerPublishes
<1> HIDE DEF w
<1>8. 0 \in Nat
  OBVIOUS
<1> QED  BY <1>4, <1>5, <1>7, <1>8, TopicKeys, MovedAndQueued

LEMMA EmitDeadLetterInv ==
  ASSUME BusInv, NEW e \in DOMAIN envelopes, emitDeadLetter(e)
  PROVE  BusInv'
<1> DEFINE l == Len(envelopes) + 1
           r == envelopes[e]
           w == [r EXCEPT !.state = "reporting", !.dead = l]
<1>1. /\ r \in Envelopes /\ EnvelopeOK(r) /\ r.dead <= Len(envelopes) /\ Len(envelopes) \in Nat
      /\ e \in Nat /\ l \in Nat /\ l # 0
  BY BusFacts
<1> HIDE DEF l
<1>2. /\ w \in Envelopes
      /\ w.key = r.key /\ w.cause = r.cause /\ w.prev = r.prev /\ w.epoch = r.epoch
      /\ w.state = "reporting" /\ w.dead = l /\ w.inv = r.inv
  BY <1>1, EnvelopeFields DEF Envelopes, EnvelopeStates
<1>3. [envelopes EXCEPT ![e].state = "reporting", ![e].dead = l] = [envelopes EXCEPT ![e] = w]
  OBVIOUS
<1> HIDE DEF w
<1>4. r.state = "dispatching" /\ Works(r) = {} /\ Failed(r) # {} /\ r.key[2] # DeadLetter
  BY DEF emitDeadLetter, running, failed, Works, Failed
<1>5. r.key[2] = Topic
  BY <1>1, <1>4, EnvelopeFields, TopicKeys
<1>6. Works(w) = {} /\ Failed(w) # {} /\ r.dead = 0 /\ ~Threw(w)
  BY <1>1, <1>2, <1>4 DEF Works, Failed, EnvelopeOK, Threw
<1>7. EnvelopeOK(w)
  BY <1>1, <1>2, <1>4, <1>5, <1>6 DEF EnvelopeOK, HasSettled
<1>8. Advances(envelopes, e, w)
  BY <1>2, <1>4, <1>6, <1>7 DEF Advances, HasSettled
<1>9. Enqueue([envelopes EXCEPT ![e] = w], <<"core", DeadLetter>>, e) /\ UNCHANGED <<subscribed, disposals>>
  BY <1>3 DEF emitDeadLetter, l
<1>10. w.dead <= Len(envelopes) + 1 /\ w.dead = Len(envelopes) + 1
  BY <1>1, <1>2 DEF l
<1> QED  BY <1>1, <1>8, <1>9, <1>10, TopicKeys, MovedAndQueued

LEMMA SettleInv ==
  ASSUME BusInv, NEW e \in DOMAIN envelopes, Settle(e)
  PROVE  BusInv'
<1> DEFINE r == envelopes[e]
           st == IF r.dead # 0 /\ envelopes[r.dead].state = "rejected" THEN "rejected" ELSE outcome(e)
           w == [r EXCEPT !.state = st]
<1>1. r \in Envelopes /\ EnvelopeOK(r)
  BY BusFacts
<1>2. st \in {"resolved", "rejected"}
  BY DEF outcome
<1>3. envelopes' = [envelopes EXCEPT ![e] = w] /\ UNCHANGED <<subscribed, queueTail, disposals>>
  BY DEF Settle
<1> HIDE DEF st
<1>4. /\ w \in Envelopes
      /\ w.key = r.key /\ w.cause = r.cause /\ w.prev = r.prev /\ w.epoch = r.epoch
      /\ w.state = st /\ w.dead = r.dead /\ w.inv = r.inv
  BY <1>1, <1>2, EnvelopeFields DEF Envelopes, EnvelopeStates
<1> HIDE DEF w
<1>5. \/ /\ r.state = "dispatching" /\ Works(r) = {}
         /\ Failed(r) = {} \/ r.key[2] = DeadLetter
      \/ r.state = "reporting" /\ HasSettled(envelopes[r.dead])
  BY DEF Settle, running, failed, settled, Works, Failed, HasSettled
<1>t. ~Threw(r) /\ ~Threw(w)
  BY <1>1, <1>4, <1>5 DEF Threw, EnvelopeOK
<1>6. Works(w) = Works(r) /\ Failed(w) = Failed(r) /\ HasSettled(w)
  BY <1>2, <1>4 DEF Works, Failed, HasSettled
<1>7. CASE r.state = "dispatching" /\ Works(r) = {} /\ (Failed(r) = {} \/ r.key[2] = DeadLetter)
  <2>1. r.dead = 0
    BY <1>1, <1>7 DEF EnvelopeOK
  <2>2. EnvelopeOK(w)
    BY <1>1, <1>2, <1>4, <1>6, <1>7, <1>t, <2>1, TopicKeys DEF EnvelopeOK
  <2>3. Advances(envelopes, e, w)
    BY <1>2, <1>4, <1>6, <1>7, <2>1, <2>2 DEF Advances
  <2> QED  BY <1>3, <1>4, <2>3, Moved
<1>8. CASE r.state = "reporting" /\ HasSettled(envelopes[r.dead])
  <2>1. r.dead # 0 /\ Works(r) = {}
    BY <1>1, <1>8, <1>t DEF EnvelopeOK
  <2>2. EnvelopeOK(w)
    BY <1>1, <1>2, <1>4, <1>6, <1>8, <1>t, <2>1 DEF EnvelopeOK
  <2>3. r.dead \in DOMAIN envelopes
    <3>1. r.dead <= Len(envelopes) /\ r.dead \in Nat /\ DOMAIN envelopes = 1..Len(envelopes) /\ Len(envelopes) \in Nat
      BY BusFacts, EnvelopeFields
    <3> QED  BY <2>1, <3>1
  <2>4. Advances(envelopes, e, w)
    BY <1>2, <1>4, <1>6, <1>8, <2>1, <2>2, <2>3 DEF Advances
  <2> QED  BY <1>3, <1>4, <2>4, Moved
<1> QED  BY <1>5, <1>7, <1>8

LEMMA PublishInv ==
  ASSUME BusInv, NEW s \in Sources, publish(s)
  PROVE  BusInv'
<1>1. /\ BusOK(envelopes, Len(envelopes), queueTail, disposals) /\ Len(envelopes) \in Nat
      /\ disposals \in 0..1 /\ queueTail \in [Keys -> Nat] /\ Len(envelopes) <= Len(envelopes) + 1
  BY BusFacts
<1>2. /\ envelopes' = Append(envelopes, createEnvelope(<<s, Topic>>, 0))
      /\ queueTail' = [queueTail EXCEPT ![<<s, Topic>>] = Len(envelopes) + 1]
      /\ UNCHANGED <<subscribed, disposals>>
  BY DEF publish, Enqueue
<1>3. 0 \in Nat
  OBVIOUS
<1>4. BusOK(envelopes', Len(envelopes'), queueTail', disposals) /\ queueTail' \in [Keys -> Nat]
  BY <1>1, <1>2, <1>3, TopicKeys, EnvelopeQueued, Zenon
<1> QED  BY <1>2, <1>4 DEF BusInv

LEMMA DisposeInv == ASSUME BusInv, dispose PROVE BusInv'
<1>1. /\ BusOK(envelopes, Len(envelopes), queueTail, 0) /\ Len(envelopes) \in Nat
      /\ DOMAIN envelopes = 1..Len(envelopes)
  BY BusFacts DEF dispose
<1>2. /\ disposals' = 1 /\ queueTail' = [k \in Keys |-> 0] /\ envelopes' = envelopes
      /\ subscribed' \in [Handlers -> {"none", Topic, DeadLetter, "removed"}]
  BY DEF dispose
<1>3. \A e \in DOMAIN envelopes : envelopes[e].epoch <= 0 /\ envelopes[e].epoch \in 0..1
  <2>1. \A e \in DOMAIN envelopes : envelopes[e] \in Envelopes
    BY BusFacts
  <2> QED  BY <1>1, <2>1, EnvelopeFields DEF BusOK
<1>4. TailsOK(envelopes, queueTail', 1)
  BY <1>1, <1>2, <1>3 DEF TailsOK
<1>5. BusOK(envelopes, Len(envelopes), queueTail', 1)
  BY <1>1, <1>3, <1>4 DEF BusOK
<1> QED  BY <1>2, <1>5 DEF BusInv

LEMMA BusStepInv == ASSUME BusInv, BusNext PROVE BusInv'
<1>1. CASE \E s \in Sources : publish(s)
  BY <1>1, PublishInv
<1>2. CASE \E h \in Handlers, t \in {Topic, DeadLetter} : Subscribe(h, t)
  BY <1>2 DEF Subscribe, BusInv
<1>3. CASE \E h \in Handlers : Unsubscribe(h)
  BY <1>3 DEF Unsubscribe, BusInv
<1>4. CASE \E e \in DOMAIN envelopes : BusTurn(e)
  BY <1>4, DispatchInv, EmitDeadLetterInv, SettleInv DEF BusTurn
<1>5. CASE \E e \in DOMAIN envelopes, h \in Handlers :
             \/ HandlerTurn(e, h)
             \/ \E r \in {"completed", "failed"} : HandlerEnds(e, h, r)
             \/ \E s \in Sources : HandlerPublishes(e, h, s)
  BY <1>5, HandlerInv, HandlerPublishesInv
<1>6. CASE dispose
  BY <1>6, DisposeInv
<1> QED  BY <1>1, <1>2, <1>3, <1>4, <1>5, <1>6 DEF BusNext

LEMMA BusInvImplies == ASSUME BusInv PROVE BusTypeOK /\ PublishOrder /\ FailuresAreReported
<1>1. /\ BusOK(envelopes, Len(envelopes), queueTail, disposals) /\ Len(envelopes) \in Nat
      /\ disposals \in 0..1 /\ queueTail \in [Keys -> Nat]
      /\ \A e \in DOMAIN envelopes :
           /\ e \in Nat /\ e # 0 /\ envelopes[e] \in Envelopes /\ EnvelopeOK(envelopes[e])
           /\ envelopes[e].key \in Keys /\ envelopes[e].state \in EnvelopeStates
           /\ envelopes[e].key[2] \in {Topic, DeadLetter}
  BY BusFacts, EnvelopeFields, TopicKeys
<1>2. BusTypeOK
  <2>1. \A k \in Keys : queueTail[k] \in 0..Len(envelopes)
    BY <1>1 DEF BusOK, TailsOK
  <2>2. queueTail \in [Keys -> 0..Len(envelopes)]
    BY <1>1, <2>1
  <2> QED  BY <1>1, <2>2 DEF BusTypeOK, BusInv, EnvelopeStates
<1>3. PublishOrder
  BY <1>1 DEF BusOK, Ordered, SameQueue, PublishOrder, settled, HasSettled
<1>4. FailuresAreReported
  <2>1. ASSUME NEW e \in DOMAIN envelopes, settled(e), ~filterThrew(e), failed(e) # {},
               envelopes[e].key[2] = Topic
        PROVE  envelopes[e].dead # 0 /\ settled(envelopes[e].dead)
    <3>1. HasSettled(envelopes[e]) /\ Failed(envelopes[e]) # {} /\ ~Threw(envelopes[e])
      BY <2>1 DEF settled, failed, filterThrew, HasSettled, Failed, Threw
    <3>2. envelopes[e].dead # 0
      BY <3>1, <2>1, <1>1 DEF EnvelopeOK
    <3> QED  BY <3>1, <3>2, <1>1 DEF BusOK, Delivered, settled, HasSettled
  <2>2. ASSUME NEW e \in DOMAIN envelopes, envelopes[e].key[2] = DeadLetter
        PROVE  /\ envelopes[e].dead = 0 /\ envelopes[envelopes[e].cause].dead = e
               /\ failed(envelopes[e].cause) # {}
    <3>1. envelopes[e].dead = 0
      BY <2>2, <1>1, TopicKeys DEF EnvelopeOK
    <3>2. envelopes[e].cause \in DOMAIN envelopes /\ envelopes[envelopes[e].cause].dead = e
      BY <2>2, <1>1 DEF BusOK, Letters
    <3>3. Failed(envelopes[envelopes[e].cause]) # {}
      BY <3>2, <1>1 DEF EnvelopeOK
    <3> QED  BY <3>1, <3>2, <3>3 DEF failed, Failed
  <2> QED  BY <2>1, <2>2 DEF FailuresAreReported
<1> QED  BY <1>2, <1>3, <1>4

-----------------------------------------------------------------------------
(* The steps of a request.                                                 *)

LEMMA RequestInitInv == ASSUME RequestInit PROVE RequestInv
<1>1. <<>> \in Seq(Responders) /\ Len(<<>>) = 0
  BY EmptySeq
<1> QED  BY <1>1 DEF RequestInit, NoRequest, RequestInv, RequestStates

LEMMA RequestStepInv == ASSUME RequestInv, RequestNext PROVE RequestInv'
<1>0. /\ responders \in Seq(Responders) /\ request.list \in Seq(Responders)
      /\ Len(request.list) \in Nat /\ DOMAIN request.list = 1..Len(request.list)
      /\ Len(responders) \in Nat /\ DOMAIN responders = 1..Len(responders)
      /\ request.at \in Nat
  BY LenProperties DEF RequestInv
<1>1. ASSUME NEW r \in Responders, respond(r) PROVE RequestInv'
  <2>1. Append(responders, r) \in Seq(Responders)
    BY <1>0, AppendProperties
  <2>2. CASE request.live
    <3> DEFINE l == Append(request.list, r)
    <3>1. /\ l \in Seq(Responders) /\ Len(l) = Len(request.list) + 1
          /\ \A k \in 1..Len(request.list) : l[k] = request.list[k]
      BY <1>0, AppendProperties
    <3>2. request' = [request EXCEPT !.list = l] /\ responders' = Append(responders, r)
      BY <1>1, <2>2 DEF respond
    <3> HIDE DEF l
    <3>3. /\ request'.list = l /\ request'.at = request.at /\ request'.asked = request.asked
          /\ request'.stayed = request.stayed /\ request'.live = request.live
          /\ request'.state = request.state
      BY <3>2 DEF RequestInv
    <3>4. request' \in [state : RequestStates, list : Seq(Responders), at : Nat, live : BOOLEAN,
                  asked : SUBSET Responders, stayed : SUBSET Responders]
      BY <3>1, <3>2 DEF RequestInv
    <3>5. request.state # "noResponder"
      BY <2>2 DEF RequestInv
    <3>6. \A k \in 1..request'.at : request'.list[k] \in request'.asked
      BY <3>1, <3>3, <1>0 DEF RequestInv
    <3>7. \A q \in request'.stayed : \E k \in 1..Len(request'.list) : request'.list[k] = q
      BY <3>1, <3>3, <1>0 DEF RequestInv
    <3>8. request'.at <= Len(request'.list)
      BY <3>1, <3>3, <1>0 DEF RequestInv
    <3>9. request'.live => request'.state \in {"walking", "asking"}
      BY <3>3 DEF RequestInv
    <3> QED  BY <2>1, <3>1, <3>2, <3>3, <3>4, <3>5, <3>6, <3>7, <3>8, <3>9 DEF RequestInv
  <2>3. CASE ~request.live
    BY <1>1, <2>1, <2>3 DEF respond, RequestInv
  <2> QED  BY <2>2, <2>3
<1>2. ASSUME NEW r \in Responders, removeResponder(r) PROVE RequestInv'
  <2>1. responders' \in Seq(Responders)
    <3>1. PICK i \in DOMAIN responders : responders' = RemoveAt(responders, i)
      BY <1>2 DEF removeResponder
    <3>2. \A j \in 1..Len(responders) : responders[j] \in Responders
      BY <1>0, ElementOfSeq
    <3>3. /\ i \in Int /\ 1 \in Int /\ i - 1 \in Int /\ i + 1 \in Int /\ Len(responders) \in Int
          /\ \A j \in 1..(i - 1) : responders[j] \in Responders
          /\ \A j \in (i + 1)..Len(responders) : responders[j] \in Responders
      BY <1>0, <3>2
    <3>4. SubSeq(responders, 1, i - 1) \in Seq(Responders)
      BY <3>3, SubSeqProperties
    <3>5. SubSeq(responders, i + 1, Len(responders)) \in Seq(Responders)
      BY <3>3, SubSeqProperties
    <3> QED  BY <3>1, <3>4, <3>5, ConcatProperties DEF RemoveAt
  <2>2. request' = [request EXCEPT !.stayed = @ \ {r}, !.live = FALSE]
    BY <1>2 DEF removeResponder
  <2> QED  BY <2>1, <2>2 DEF RequestInv
<1>3. CASE StartRequest
  <2>1. /\ request' = [state |-> "walking", list |-> responders, at |-> 0, live |-> TRUE,
                       asked |-> {}, stayed |-> ToSet(responders)]
        /\ responders' = responders
    BY <1>3 DEF StartRequest
  <2>2. ToSet(responders) \in SUBSET Responders
    BY <1>0, ElementOfSeq DEF ToSet
  <2>3. \A q \in ToSet(responders) : \E k \in 1..Len(responders) : responders[k] = q
    BY <1>0 DEF ToSet
  <2> HIDE <1>3
  <2> QED  BY <1>0, <2>1, <2>2, <2>3 DEF RequestInv, RequestStates
<1>4. ASSUME NEW refuses \in BOOLEAN, Ask(refuses) PROVE RequestInv'
  <2> DEFINE st == IF refuses THEN "walking" ELSE "asking"
             n == request.at + 1
  <2>1. /\ request' = [request EXCEPT !.at = n, !.asked = @ \cup {request.list[n]}, !.state = st]
        /\ responders' = responders /\ request.state = "walking" /\ request.at < Len(request.list)
    BY <1>4 DEF Ask
  <2>2. n \in Nat /\ n \in 1..Len(request.list) /\ \A k \in 1..n : k = n \/ k \in 1..request.at
    BY <1>0, <2>1
  <2>3. request.list[n] \in Responders
    BY <1>0, <2>2, ElementOfSeq
  <2>4. st \in RequestStates /\ st \in {"walking", "asking"}
    BY DEF RequestStates
  <2> HIDE DEF st, n
  <2>5. /\ request'.list = request.list /\ request'.at = n /\ request'.state = st
        /\ request'.stayed = request.stayed /\ request'.live = request.live
        /\ request'.asked = request.asked \cup {request.list[n]}
    BY <2>1 DEF RequestInv
  <2>6. request' \in [state : RequestStates, list : Seq(Responders), at : Nat, live : BOOLEAN,
                  asked : SUBSET Responders, stayed : SUBSET Responders]
    BY <2>1, <2>2, <2>3, <2>4 DEF RequestInv
  <2>7. \A k \in 1..n : request.list[k] \in request'.asked
    BY <2>2, <2>5 DEF RequestInv
  <2>8. n <= Len(request.list)
    BY <1>0, <2>2
  <2> QED  BY <1>0, <2>1, <2>4, <2>5, <2>6, <2>7, <2>8 DEF RequestInv
<1>5. CASE ResponderAnswers
  BY <1>5 DEF ResponderAnswers, RequestInv, RequestStates
<1>6. CASE ResponderFails
  BY <1>6 DEF ResponderFails, RequestInv, RequestStates
<1>7. CASE NoResponder
  <2>1. request.at = Len(request.list)
    BY <1>0, <1>7 DEF NoResponder, RequestInv
  <2> QED  BY <1>7, <2>1 DEF NoResponder, RequestInv, RequestStates
<1>f. CASE FilterThrows
  BY <1>f DEF FilterThrows, RequestInv, RequestStates
<1>8. CASE onceStarts \/ onceDelivered \/ onceAborted \/ onceTimesOut
  BY <1>8 DEF onceStarts, onceDelivered, onceAborted, onceTimesOut, RequestInv
<1>9. CASE disposeWaits
  <2>1. responders' = <<>> /\ request' = [request EXCEPT !.stayed = {}, !.live = FALSE]
    BY <1>9 DEF disposeWaits
  <2>2. <<>> \in Seq(Responders)
    BY EmptySeq
  <2> QED  BY <2>1, <2>2 DEF RequestInv
<1> QED  BY <1>1, <1>2, <1>3, <1>4, <1>5, <1>6, <1>7, <1>f, <1>8, <1>9 DEF RequestNext

LEMMA RequestInvImplies == ASSUME RequestInv PROVE FailsOnlyWhenAllFailed
BY DEF RequestInv, FailsOnlyWhenAllFailed

-----------------------------------------------------------------------------
(* The steps of a prompt.                                                  *)

LEMMA PresenterInitInv == ASSUME PresenterInit PROVE PresenterInv
BY DEF PresenterInit, PresenterInv, PresenterTypeOK, CurrentIsRunning, Queueing, RunPhases, Abandoned, Sessions, None

LEMMA SessionsAreNumbers == \A s \in Sessions : s \in Nat /\ s # None
BY PresenterAssumption DEF Sessions, None

\* A session whose wait is over: it becomes current, or ends because it is cancelled.
LEMMA TakesPlaceInv ==
  ASSUME PresenterInv, NEW s \in Sessions, phase[s] \in {"new"} \cup Queueing, TakesPlace(s),
         waitsFor' = [waitsFor EXCEPT ![s] = None],
         UNCHANGED <<cancelled, stopping, completed, audible, unstarted, closing>>
  PROVE  PresenterInv'
<1>1. s \notin audible
  BY DEF PresenterInv, Queueing, RunPhases, Abandoned
<1>2. s \in unstarted => s \in cancelled
  BY DEF PresenterInv
<1> QED
  BY <1>1, <1>2, SessionsAreNumbers
  DEF PresenterInv, PresenterTypeOK, CurrentIsRunning, TakesPlace, Queueing, RunPhases, Abandoned

LEMMA RunInv ==
  ASSUME PresenterInv, NEW s \in Sessions, phase[s] \in {"new"} \cup Queueing, Run(s),
         UNCHANGED <<cancelled, stopping, completed, audible, unstarted, closing>>
  PROVE  PresenterInv'
<1>1. CASE current = None \/ s \in cancelled
  BY <1>1, TakesPlaceInv DEF Run
<1>2. CASE ~(current = None \/ s \in cancelled)
  BY <1>2, SessionsAreNumbers
  DEF Run, PresenterInv, PresenterTypeOK, CurrentIsRunning, Queueing, RunPhases, Abandoned
<1> QED  BY <1>1, <1>2

\* Sessions that are cancelled; the others and their phases stay.
LEMMA CancelledInv ==
  ASSUME PresenterInv, NEW S \in SUBSET Sessions, Cancelled(S), \A s \in S : phase[s] # "new",
         UNCHANGED <<phase, waitsFor, completed, current>>,
         closing' \in [state : {"no", "cancelling", "done", "failed"}, awaits : SUBSET Sessions]
  PROVE  PresenterInv'
BY DEF PresenterInv, PresenterTypeOK, CurrentIsRunning, Cancelled

LEMMA StepInv ==
  ASSUME PresenterInv, NEW s \in Sessions, NEW to \in RunPhases, NEW from \in RunPhases,
         NEW sounds \in SUBSET (audible \cup {s}), Step(s, from, to, sounds)
  PROVE  PresenterInv'
BY DEF PresenterInv, PresenterTypeOK, CurrentIsRunning, Step, Queueing, RunPhases, Abandoned

LEMMA PresenterStepInv == ASSUME PresenterInv, PresenterNext PROVE PresenterInv'
<1>0. active \subseteq Sessions /\ \A s \in active : phase[s] # "new"
  BY DEF active, Queueing, RunPhases, Abandoned
<1>1. ASSUME NEW s \in Sessions, Present(s) PROVE PresenterInv'
  <2>1. CASE current # None /\ priority[s] > priority[current] /\ current \notin cancelled
    <3>1. /\ Cancelled({current}) /\ phase' = [phase EXCEPT ![s] = "preempting"]
          /\ waitsFor' = [waitsFor EXCEPT ![s] = current]
          /\ UNCHANGED <<current, completed, closing>>
          /\ phase[s] = "new"
      BY <1>1, <2>1 DEF Present
    <3>2. current \in Sessions /\ phase[current] \in RunPhases /\ current # s
      BY <2>1, <3>1 DEF PresenterInv, PresenterTypeOK, CurrentIsRunning, RunPhases
    <3>3. unstarted' = unstarted /\ s \notin audible /\ s \notin unstarted
      BY <3>1, <3>2 DEF Cancelled, PresenterInv, Queueing, RunPhases, Abandoned
    <3> QED  BY <3>1, <3>2, <3>3
             DEF PresenterInv, PresenterTypeOK, CurrentIsRunning, Cancelled, Queueing, RunPhases, Abandoned
  <2>2. CASE ~(current # None /\ priority[s] > priority[current] /\ current \notin cancelled)
    BY <1>1, <2>2, RunInv DEF Present
  <2> QED  BY <2>1, <2>2
<1>2. ASSUME NEW s \in Sessions, Preempted(s) \/ Wake(s) PROVE PresenterInv'
  BY <1>2, RunInv, TakesPlaceInv DEF Preempted, Wake, Queueing
<1>3. ASSUME NEW s \in Sessions, CancelSession(s) PROVE PresenterInv'
  <2>1. {s} \in SUBSET Sessions /\ (\A t \in {s} : phase[t] # "new") /\ Cancelled({s})
        /\ UNCHANGED <<phase, waitsFor, completed, current, closing>>
    BY <1>0, <1>3 DEF CancelSession
  <2> QED  BY <2>1, CancelledInv DEF PresenterInv
<1>4. ASSUME NEW s \in Sessions, CancelEnds(s) PROVE PresenterInv'
  BY <1>4 DEF CancelEnds, PresenterInv, PresenterTypeOK, CurrentIsRunning
<1>c. ASSUME NEW s \in Sessions, CancelFails(s) PROVE PresenterInv'
  <2>1. PICK sounding \in SUBSET ({s} \cap {t \in Sessions : phase[t] = "playing"}) :
          audible' = audible \cup sounding
    BY <1>c DEF CancelFails
  <2>2. /\ phase' = [t \in Sessions |->
               IF phase[t] = "preempting" /\ waitsFor[t] = s THEN Abandoned ELSE phase[t]]
        /\ stopping' \subseteq stopping
        /\ closing' \in [state : {"no", "cancelling", "done", "failed"}, awaits : SUBSET Sessions]
        /\ UNCHANGED <<waitsFor, cancelled, completed, current, unstarted>>
    BY <1>c DEF CancelFails, PresenterInv
  <2>3. \A t \in Sessions : phase[t] \in RunPhases => phase'[t] = phase[t]
    BY <2>2 DEF RunPhases
  <2>4. \A t \in Sessions : phase'[t] = phase[t] \/ phase'[t] = Abandoned
    BY <2>2
  <2>5. PresenterTypeOK'
    BY <2>1, <2>2, <2>4 DEF PresenterInv, PresenterTypeOK
  <2>6. \A t \in audible' : phase'[t] \in RunPhases
    <3>1. \A t \in audible' : t \in Sessions /\ phase[t] \in RunPhases
      BY <2>1 DEF PresenterInv, PresenterTypeOK, RunPhases
    <3> QED  BY <3>1, <2>3
  <2>7. \A t \in unstarted' : phase'[t] \in Queueing \cup {"over", Abandoned}
    BY <2>2, <2>4 DEF PresenterInv, PresenterTypeOK
  <2>8. CurrentIsRunning'
    BY <2>2, <2>3 DEF PresenterInv, PresenterTypeOK, CurrentIsRunning
  <2> QED  BY <2>2, <2>5, <2>6, <2>7, <2>8 DEF PresenterInv
<1>5. ASSUME NEW s \in Sessions, Load(s) \/ PlaybackStarts(s) \/ FallBack(s) \/ Speak(s)
      PROVE  PresenterInv'
  <2>1. {"checking", "loading", "playing", "checkingTts", "speaking"} \subseteq RunPhases
    BY DEF RunPhases
  <2>2. /\ audible \in SUBSET (audible \cup {s}) /\ audible \ {s} \in SUBSET (audible \cup {s})
        /\ audible \cup {s} \in SUBSET (audible \cup {s})
        /\ {t \in audible : phase[t] # "speaking"} \cup {s} \in SUBSET (audible \cup {s})
    OBVIOUS
  <2>3. CASE Load(s)
    BY <2>1, <2>2, <2>3, StepInv DEF Load
  <2>4. CASE PlaybackStarts(s)
    BY <2>1, <2>2, <2>4, StepInv DEF PlaybackStarts
  <2>5. CASE FallBack(s)
    BY <2>1, <2>2, <2>5, StepInv DEF FallBack
  <2>6. CASE Speak(s)
    BY <2>1, <2>2, <2>6, StepInv DEF Speak
  <2> QED  BY <1>5, <2>3, <2>4, <2>5, <2>6
<1>6. ASSUME NEW s \in Sessions, RunEnds(s) PROVE PresenterInv'
  <2>1. s \notin unstarted
    BY <1>6 DEF RunEnds, PresenterInv, Queueing, RunPhases, Abandoned
  <2> QED  BY <1>6, <2>1, SessionsAreNumbers
           DEF RunEnds, PresenterInv, PresenterTypeOK, CurrentIsRunning, Queueing, RunPhases, Abandoned, None
<1>7. CASE CancelOperation
  BY <1>0, <1>7, CancelledInv DEF CancelOperation, PresenterInv
<1>8. CASE Dispose
  <2>1. closing' \in [state : {"no", "cancelling", "done", "failed"}, awaits : SUBSET Sessions]
    BY <1>0, <1>8 DEF Dispose
  <2> QED  BY <1>0, <1>8, <2>1, CancelledInv DEF Dispose
<1>9. CASE DisposeEnds
  BY <1>9 DEF DisposeEnds, PresenterInv, PresenterTypeOK, CurrentIsRunning
<1> QED  BY <1>1, <1>2, <1>3, <1>4, <1>c, <1>5, <1>6, <1>7, <1>8, <1>9 DEF PresenterNext

LEMMA PresenterInvImplies ==
  ASSUME PresenterInv PROVE PresenterTypeOK /\ CancelledInQueueIsSilent /\ CurrentIsRunning
BY DEF PresenterInv, CancelledInQueueIsSilent, Queueing, RunPhases, Abandoned

-----------------------------------------------------------------------------
(* The framework's services together.                                      *)

(* Nothing the framework announces misleads: the events of a publisher      *)
(* reach their handlers in order, a handler's failure is reported before    *)
(* its publish settles unless a filter threw on that publish, a request     *)
(* ends with noResponder only when everybody who stayed was asked, and a    *)
(* prompt cancelled in the queue is not heard (local-event-bus.ts,          *)
(* presenter.ts).                                                           *)
THEOREM AnnouncementsHold == PlatformSpec => []AnnouncementsAreHonest
<1> DEFINE Inv == BusInv /\ RequestInv /\ PresenterInv
<1>1. PlatformInit => Inv
  BY BusInitInv, RequestInitInv, PresenterInitInv DEF PlatformInit
<1>2. Inv /\ [PlatformNext]_platformVars => Inv'
  <2> SUFFICES ASSUME Inv, [PlatformNext]_platformVars PROVE Inv'
    OBVIOUS
  <2>1. BusInv /\ (BusNext \/ UNCHANGED busVars) => BusInv'
    BY BusStepInv DEF busVars, BusInv
  <2>2. RequestInv /\ (RequestNext \/ UNCHANGED requestVars) => RequestInv'
    BY RequestStepInv DEF requestVars, RequestInv
  <2>3. PresenterInv /\ (PresenterNext \/ UNCHANGED presenterVars) => PresenterInv'
    BY PresenterStepInv DEF presenterVars, PresenterInv, PresenterTypeOK, CurrentIsRunning
  <2>4. /\ BusNext \/ UNCHANGED busVars
        /\ RequestNext \/ UNCHANGED requestVars
        /\ PresenterNext \/ UNCHANGED presenterVars
    BY DEF PlatformNext, platformVars
  <2> QED  BY <2>1, <2>2, <2>3, <2>4
<1>3. Inv => AnnouncementsAreHonest
  BY BusInvImplies, RequestInvImplies, PresenterInvImplies DEF AnnouncementsAreHonest
<1> QED  BY <1>1, <1>2, <1>3, PTL DEF PlatformSpec

-----------------------------------------------------------------------------
(* Storage.                                                                *)

Databases == [counter : Int, seq : Nat, rows : SUBSET Plain]
InTransaction == {"first", "second", "commit"}
StorageCallRecords ==
  [op : StorageOps \cup {"none"}, step : InTransaction \cup {"new", "queued", "resolved", "rejected"},
   result : Int]

StorageTypes ==
  /\ schema \in [1..Migrations -> {"none", "partial", "full"}] /\ journal \subseteq 1..Migrations
  /\ boot \in [step : {"down", "up", "mark", "ready"}, at : Nat]
  /\ db \in Databases /\ saved \in Databases
  /\ holder \in 0..MaxCalls /\ queue \in Seq(StorageCalls)
  /\ calls \in [StorageCalls -> StorageCallRecords]
  /\ serial \in [counter : Int, seq : Nat] /\ durable \subseteq Plain

\* A migration in the journal is complete, and so is the one about to be marked; those
\* before the one under way are in the journal.
BootInv ==
  /\ \A m \in journal : schema[m] = "full"
  /\ boot.step \in {"up", "mark"} =>
       boot.at \in 1..Migrations /\ \A m \in 1..Migrations : m < boot.at => m \in journal
  /\ boot.step = "mark" => schema[boot.at] = "full"
  /\ boot.step = "ready" => 1..Migrations \subseteq journal

\* One transaction at a time, that of the head of the queue.
TurnInv ==
  /\ \A c \in StorageCalls : calls[c].step \in InTransaction <=> holder = c
  /\ holder # 0 => queue # <<>> /\ holder = Head(queue)
  /\ \A c \in StorageCalls : calls[c].step # "new" => calls[c].op \in StorageOps

\* What BEGIN found is what the committed calls left; plain writes only add to it.
Base == IF holder = 0 THEN db ELSE saved
CommittedInv ==
  /\ Base.counter = serial.counter /\ Base.seq = serial.seq
  /\ durable \subseteq Base.rows /\ Base.rows \subseteq db.rows

\* How far the open transaction has come from there.
ProgressInv ==
  \A c \in StorageCalls :
    /\ calls[c].step = "first" => db.counter = saved.counter
    /\ calls[c].step \in {"second", "commit"} => db.counter = Upsert(calls[c].op, saved.counter)
    /\ calls[c].step \in {"first", "second"} => db.seq = saved.seq
    /\ calls[c].step = "second" /\ calls[c].op = "append" => calls[c].result = saved.seq + 1
    /\ calls[c].step = "commit" => db.seq = IF calls[c].op = "append" THEN saved.seq + 1 ELSE saved.seq

RangeInv ==
  \A c \in StorageCalls : calls[c].step \in {"commit", "resolved"} /\ calls[c].op = "incrementWrapped"
    => calls[c].result <= Maximum \/ calls[c].result = 1

StorageInv == StorageTypes /\ BootInv /\ TurnInv /\ CommittedInv /\ ProgressInv /\ RangeInv

-----------------------------------------------------------------------------
\* A set of natural numbers that is not empty has a least element.
LEMMA LeastNumber ==
  ASSUME NEW S \in SUBSET Nat, S # {}
  PROVE  \E i \in S : \A j \in S : i <= j
<1> DEFINE R == {ss \in Nat \X Nat : ss[1] < ss[2]}
<1>1. IsWellFoundedOn(R, Nat)
  BY NatLessThanWellFounded DEF OpToRel
<1>2. PICK i \in S : \A j \in S : ~(<<j, i>> \in R)
  <2> HIDE DEF R
  <2> QED BY <1>1, WFMin
<1>3. ASSUME NEW j \in S PROVE i <= j
  <2>1. i \in Nat /\ j \in Nat
    OBVIOUS
  <2>2. j < i => <<j, i>> \in R
    BY <2>1
  <2> QED
    BY <1>2, <2>1, <2>2
<1> QED
  BY <1>3

\* The next migration is the first that the journal does not have.
LEMMA NextMigrationIsFirst ==
  ASSUME NEW from \in Nat \ {0}, StorageTypes
  PROVE  /\ NextMigration(from) \in [step : {"up", "ready"}, at : Nat]
         /\ NextMigration(from).step = "ready" => \A m \in 1..Migrations : from <= m => m \in journal
         /\ NextMigration(from).step = "up" =>
              /\ NextMigration(from).at \in 1..Migrations
              /\ \A m \in 1..Migrations : from <= m /\ m < NextMigration(from).at => m \in journal
<1>1. Migrations \in Nat
  BY StorageAssumption
<1>2. pending(from) \subseteq 1..Migrations
  BY <1>1 DEF pending
<1>3. CASE pending(from) = {}
  BY <1>1, <1>3 DEF NextMigration, BootAt, pending
<1>4. CASE pending(from) # {}
  <2> DEFINE least == CHOOSE m \in pending(from) : \A n \in pending(from) : m <= n
  <2>1. pending(from) \in SUBSET Nat
    BY <1>1, <1>2
  <2>2. \E m \in pending(from) : \A n \in pending(from) : m <= n
    BY <1>4, <2>1, LeastNumber
  <2>3. least \in pending(from) /\ \A n \in pending(from) : least <= n
    BY <2>2
  <2>4. NextMigration(from) = [step |-> "up", at |-> least]
    BY <1>4 DEF NextMigration, BootAt
  <2> HIDE DEF least
  <2>5. least \in 1..Migrations
    BY <1>2, <2>3
  <2>6. ASSUME NEW m \in 1..Migrations, from <= m, m < least PROVE m \in journal
    <3>1. m \notin pending(from)
      BY <1>1, <2>3, <2>5, <2>6
    <3> QED
      BY <1>1, <2>6, <3>1 DEF pending
  <2> QED
    BY <1>1, <2>4, <2>5, <2>6
<1> QED
  BY <1>3, <1>4

LEMMA UpsertType ==
  ASSUME NEW o, NEW v \in Int PROVE Upsert(o, v) \in Int
BY StorageAssumption DEF Upsert, Absent

-----------------------------------------------------------------------------
LEMMA StorageInitInv == StorageInit \/ StorageAtRest => StorageInv
<1> SUFFICES ASSUME NothingCalled, Migrations \in Nat, MaxCalls \in Nat,
                    StorageInit \/ StorageAtRest
             PROVE  StorageInv
  BY StorageAssumption DEF StorageInit, StorageAtRest
<1>1. StorageTypes
  BY DEF NothingCalled, StorageInit, StorageAtRest, StorageTypes, Databases, StorageCallRecords, Closed, BootAt, Absent
<1>2. BootInv
  BY DEF StorageInit, StorageAtRest, BootInv, BootAt
<1>3. TurnInv /\ CommittedInv /\ ProgressInv /\ RangeInv
  BY DEF NothingCalled, TurnInv, CommittedInv, ProgressInv, RangeInv, InTransaction, StorageCalls, Base, Closed
<1> QED
  BY <1>1, <1>2, <1>3 DEF StorageInv

\* A start touches only what the migrations are about.
LEMMA BootStep ==
  ASSUME StorageInv, RunPending \/ Up \/ MarkApplied \/ MigrationFails
  PROVE  StorageInv'
<1> USE DEF StorageInv
<1>0. Migrations \in Nat /\ UNCHANGED callVars
  BY StorageAssumption DEF RunPending, Up, MarkApplied, MigrationFails
<1>1. (TurnInv /\ CommittedInv /\ ProgressInv /\ RangeInv)'
  BY <1>0 DEF callVars, TurnInv, CommittedInv, ProgressInv, RangeInv, Base
<1>2. CASE RunPending
  <2>1. (boot' \in [step : {"up", "ready"}, at : Nat]) /\ UNCHANGED <<schema, journal>>
    BY <1>2, NextMigrationIsFirst DEF RunPending
  <2>2. BootInv'
    BY <1>0, <1>2, <2>1, NextMigrationIsFirst DEF RunPending, BootInv, StorageTypes
  <2>3. StorageTypes'
    BY <1>0, <2>1 DEF StorageTypes, callVars
  <2> QED
    BY <1>1, <2>2, <2>3
<1>3. CASE Up
  <2>1. StorageTypes'
    BY <1>0, <1>3 DEF Up, StorageTypes, BootInv, BootAt, callVars
  <2>2. BootInv'
    BY <1>0, <1>3 DEF Up, StorageTypes, BootInv, BootAt
  <2> QED
    BY <1>1, <2>1, <2>2
<1>4. CASE MarkApplied
  <2>1. boot.at \in 1..Migrations /\ boot.at + 1 \in Nat \ {0}
    BY <1>0, <1>4 DEF MarkApplied, BootInv
  <2>2. boot' = NextMigration(boot.at + 1) /\ journal' = journal \cup {boot.at} /\ schema' = schema
    BY <1>4 DEF MarkApplied
  <2>3. /\ boot' \in [step : {"up", "ready"}, at : Nat]
        /\ boot'.step = "ready" => \A m \in 1..Migrations : boot.at + 1 <= m => m \in journal
        /\ boot'.step = "up" =>
              /\ boot'.at \in 1..Migrations
              /\ \A m \in 1..Migrations : boot.at + 1 <= m /\ m < boot'.at => m \in journal
    BY <2>1, <2>2, NextMigrationIsFirst
  <2>4. StorageTypes'
    BY <1>0, <2>1, <2>2, <2>3 DEF StorageTypes, callVars
  <2>5. \A m \in 1..Migrations : m < boot.at => m \in journal
    BY <1>4 DEF MarkApplied, BootInv
  <2>6. (1..Migrations \subseteq journal')  \/ boot'.step # "ready"
    BY <1>0, <2>1, <2>2, <2>3, <2>5
  <2>7. boot'.step = "up" => \A m \in 1..Migrations : m < boot'.at => m \in journal'
    BY <1>0, <2>1, <2>2, <2>3, <2>5
  <2>8. \A m \in journal' : schema'[m] = "full"
    BY <1>4, <2>2 DEF MarkApplied, BootInv
  <2>9. boot'.step \in {"up", "ready"}
    BY <2>3
  <2>10. BootInv'
    BY <2>3, <2>6, <2>7, <2>8, <2>9 DEF BootInv
  <2> QED
    BY <1>1, <2>4, <2>10
<1>5. CASE MigrationFails
  BY <1>0, <1>1, <1>5 DEF MigrationFails, StorageTypes, BootInv, BootAt, callVars
<1> QED
  BY <1>2, <1>3, <1>4, <1>5

LEMMA CallStep ==
  ASSUME StorageInv, NEW c \in StorageCalls, NEW kind \in StorageOps, Call(c, kind)
  PROVE  StorageInv'
<1> USE DEF StorageInv
<1>1. /\ calls[c].step = "new" /\ queue' = Append(queue, c)
      /\ calls' = [calls EXCEPT ![c] = [op |-> kind, step |-> "queued", result |-> Absent]]
      /\ UNCHANGED <<bootVars, db, saved, holder, serial, durable>>
  BY DEF Call
<1>2. queue' \in Seq(StorageCalls) /\ queue' # <<>> /\ (queue # <<>> => Head(queue') = Head(queue))
  BY <1>1, AppendProperties, HeadTailAppend DEF StorageTypes
<1>3. StorageTypes'
  BY <1>1, <1>2 DEF StorageTypes, StorageCallRecords, Absent, bootVars
<1>4. BootInv' /\ CommittedInv'
  BY <1>1 DEF bootVars, BootInv, CommittedInv, Base
<1>5. TurnInv'
  BY <1>1, <1>2 DEF StorageTypes, TurnInv, InTransaction
<1>6. ProgressInv' /\ RangeInv'
  BY <1>1 DEF StorageTypes, ProgressInv, RangeInv
<1> QED
  BY <1>3, <1>4, <1>5, <1>6

LEMMA BeginStep ==
  ASSUME StorageInv, NEW c \in StorageCalls, BeginTransaction(c)
  PROVE  StorageInv'
<1> USE DEF StorageInv
<1>1. /\ queue # <<>> /\ Head(queue) = c /\ calls[c].step = "queued" /\ saved' = db /\ holder' = c
      /\ calls' = [calls EXCEPT ![c].step = "first"]
      /\ UNCHANGED <<bootVars, db, queue, serial, durable>>
  BY DEF BeginTransaction
<1>2. holder = 0 /\ c \in 0..MaxCalls /\ c # 0
  BY <1>1, StorageAssumption DEF TurnInv, InTransaction, StorageCalls
<1>3. StorageTypes'
  BY ZenonT(60), <1>1, <1>2 DEF StorageTypes, StorageCallRecords, InTransaction, bootVars
<1>4. BootInv' /\ CommittedInv'
  BY <1>1, <1>2 DEF bootVars, BootInv, CommittedInv, Base
<1>5. /\ calls'[c].op = calls[c].op /\ calls'[c].step = "first"
      /\ \A d \in StorageCalls : d # c => calls'[d] = calls[d] /\ calls[d].step \notin InTransaction
  BY <1>1, <1>2 DEF StorageTypes, StorageCallRecords, TurnInv, StorageCalls
<1>6. TurnInv'
  BY <1>1, <1>2, <1>5 DEF TurnInv, InTransaction
<1>7. ProgressInv' /\ RangeInv'
  BY <1>1, <1>5 DEF ProgressInv, RangeInv, InTransaction
<1> QED
  BY <1>3, <1>4, <1>6, <1>7

\* The transaction that is open is this call's.
LEMMA HolderFacts ==
  ASSUME StorageInv, NEW c \in StorageCalls, calls[c].step \in InTransaction
  PROVE  /\ holder = c /\ holder # 0 /\ queue # <<>> /\ c \in Int /\ Base = saved
         /\ calls[c].op \in StorageOps
         /\ \A d \in StorageCalls : d # c => calls[d].step \notin InTransaction
BY StorageAssumption DEF StorageInv, TurnInv, InTransaction, StorageCalls, Base

LEMMA FirstStep ==
  ASSUME StorageInv, NEW c \in StorageCalls, FirstStatement(c)
  PROVE  StorageInv'
<1> USE DEF StorageInv
<1>1. /\ calls[c].step = "first"
      /\ db' = [db EXCEPT !.counter = Upsert(calls[c].op, db.counter)]
      /\ calls' = [calls EXCEPT ![c].step = "second",
                                ![c].result = IF calls[c].op = "append" THEN db.seq + 1 ELSE Absent]
      /\ UNCHANGED <<bootVars, saved, holder, queue, serial, durable>>
  BY DEF FirstStatement
<1>2. /\ holder = c /\ holder # 0 /\ Base = saved /\ Base' = saved
      /\ \A d \in StorageCalls : d # c => calls[d].step \notin InTransaction
  BY <1>1, HolderFacts DEF InTransaction, Base
<1>3. db' \in Databases /\ db'.seq = db.seq /\ db'.rows = db.rows
      /\ db'.counter = Upsert(calls[c].op, db.counter)
  BY <1>1, UpsertType DEF StorageTypes, Databases
<1>4. /\ calls' \in [StorageCalls -> StorageCallRecords]
      /\ calls'[c].op = calls[c].op /\ calls'[c].step = "second"
      /\ calls[c].op = "append" => calls'[c].result = db.seq + 1
      /\ \A d \in StorageCalls : d # c => calls'[d] = calls[d]
  <2> DEFINE res == IF calls[c].op = "append" THEN db.seq + 1 ELSE Absent
  <2>1. res \in Int
    BY DEF StorageTypes, Databases, Absent
  <2>2. calls[c] \in StorageCallRecords /\ calls \in [StorageCalls -> StorageCallRecords]
    BY DEF StorageTypes
  <2>3. calls' = [calls EXCEPT ![c] = [calls[c] EXCEPT !.step = "second", !.result = res]]
    BY <1>1, <2>2
  <2>4. [calls[c] EXCEPT !.step = "second", !.result = res] \in StorageCallRecords
    <3> HIDE DEF res
    <3> QED BY <2>1, <2>2 DEF StorageCallRecords, InTransaction
  <2> QED
    BY <2>2, <2>3, <2>4 DEF StorageCallRecords
<1>5. StorageTypes'
  BY <1>1, <1>3, <1>4 DEF StorageTypes, bootVars
<1>6. BootInv' /\ CommittedInv'
  BY <1>1, <1>2, <1>3 DEF bootVars, BootInv, CommittedInv
<1>7. TurnInv'
  BY <1>1, <1>2, <1>4 DEF TurnInv, InTransaction
<1>8. ProgressInv'
  BY <1>1, <1>2, <1>3, <1>4 DEF ProgressInv, InTransaction
<1>9. RangeInv'
  BY <1>4 DEF RangeInv
<1> QED
  BY <1>5, <1>6, <1>7, <1>8, <1>9

LEMMA SecondStep ==
  ASSUME StorageInv, NEW c \in StorageCalls, SecondStatement(c)
  PROVE  StorageInv'
<1> USE DEF StorageInv
<1>1. /\ calls[c].step = "second"
      /\ UNCHANGED <<bootVars, saved, holder, queue, serial, durable>>
      /\ calls[c].op = "append" =>
           db' = [db EXCEPT !.seq = calls[c].result] /\ calls' = [calls EXCEPT ![c].step = "commit"]
      /\ calls[c].op # "append" =>
           db' = db /\ calls' = [calls EXCEPT ![c].step = "commit", ![c].result = db.counter]
  BY DEF SecondStatement
<1>2. /\ holder = c /\ holder # 0 /\ Base = saved /\ Base' = saved
      /\ \A d \in StorageCalls : d # c => calls[d].step \notin InTransaction
  BY <1>1, HolderFacts DEF InTransaction, Base
<1>3. /\ calls[c].op = "append" => calls[c].result = saved.seq + 1
      /\ saved.seq + 1 \in Nat
      /\ db.counter = Upsert(calls[c].op, saved.counter) /\ db.seq = saved.seq
      /\ db.counter \in Int
  BY <1>1 DEF ProgressInv, StorageTypes, Databases
<1>4. /\ db' \in Databases /\ db'.counter = db.counter /\ db'.rows = db.rows
      /\ db'.seq = IF calls[c].op = "append" THEN saved.seq + 1 ELSE saved.seq
  BY <1>1, <1>3 DEF StorageTypes, Databases
<1>5. /\ calls' \in [StorageCalls -> StorageCallRecords]
      /\ calls'[c].op = calls[c].op /\ calls'[c].step = "commit"
      /\ calls[c].op # "append" => calls'[c].result = db.counter
      /\ \A d \in StorageCalls : d # c => calls'[d] = calls[d]
  <2>1. calls[c] \in StorageCallRecords /\ calls \in [StorageCalls -> StorageCallRecords]
    BY DEF StorageTypes
  <2>2. CASE calls[c].op = "append"
    BY <1>1, <2>1, <2>2 DEF StorageCallRecords, InTransaction
  <2>3. CASE calls[c].op # "append"
    <3>1. [calls[c] EXCEPT !.step = "commit", !.result = db.counter] \in StorageCallRecords
      BY <1>3, <2>1 DEF StorageCallRecords, InTransaction
    <3>2. calls' = [calls EXCEPT ![c] = [calls[c] EXCEPT !.step = "commit", !.result = db.counter]]
      BY <1>1, <2>1, <2>3
    <3> QED
      BY <2>1, <3>1, <3>2 DEF StorageCallRecords
  <2> QED
    BY <2>2, <2>3
<1>6. StorageTypes'
  BY <1>1, <1>4, <1>5 DEF StorageTypes, bootVars
<1>7. BootInv' /\ CommittedInv'
  BY <1>1, <1>2, <1>4 DEF bootVars, BootInv, CommittedInv
<1>8. TurnInv'
  BY <1>1, <1>2, <1>5 DEF TurnInv, InTransaction
<1>9. ProgressInv'
  BY <1>1, <1>2, <1>3, <1>4, <1>5 DEF ProgressInv, InTransaction
<1>10. calls[c].op = "incrementWrapped" => db.counter <= Maximum \/ db.counter = 1
  <2>1. saved.counter \in Int /\ Maximum \in Nat
    BY StorageAssumption DEF StorageTypes, Databases
  <2> QED
    BY <1>3, <2>1 DEF Upsert
<1>11. RangeInv'
  BY <1>5, <1>10 DEF RangeInv
<1> QED
  BY <1>6, <1>7, <1>8, <1>9, <1>11

\* A call that ends gives its place in the queue to the next.
LEMMA EndedFacts ==
  ASSUME StorageInv, NEW c \in StorageCalls, calls[c].step \in InTransaction,
         NEW step \in {"resolved", "rejected"}, Ended(c, step)
  PROVE  /\ holder' = 0 /\ queue' \in Seq(StorageCalls) /\ saved' \in Databases
         /\ calls' \in [StorageCalls -> StorageCallRecords]
         /\ calls'[c].op = calls[c].op /\ calls'[c].step = step /\ calls'[c].result = calls[c].result
         /\ \A d \in StorageCalls : d # c => calls'[d] = calls[d]
         /\ TurnInv' /\ ProgressInv'
<1> USE DEF StorageInv
<1>1. /\ calls' = [calls EXCEPT ![c].step = step] /\ queue' = Tail(queue)
      /\ holder' = 0 /\ saved' = Closed
  BY DEF Ended
<1>2. /\ queue # <<>> /\ calls[c].op \in StorageOps
      /\ \A d \in StorageCalls : d # c => calls[d].step \notin InTransaction
  BY HolderFacts
<1>3. queue' \in Seq(StorageCalls)
  BY <1>1, <1>2, HeadTailProperties DEF StorageTypes
<1>4. saved' \in Databases
  BY <1>1 DEF Closed, Databases, Absent
<1>5. /\ calls' \in [StorageCalls -> StorageCallRecords]
      /\ calls'[c].op = calls[c].op /\ calls'[c].step = step /\ calls'[c].result = calls[c].result
      /\ \A d \in StorageCalls : d # c => calls'[d] = calls[d]
  BY <1>1 DEF StorageTypes, StorageCallRecords
<1>6. \A d \in StorageCalls : calls'[d].step \notin InTransaction /\ d # 0
  BY <1>2, <1>5, StorageAssumption DEF InTransaction, StorageCalls
<1>7. TurnInv'
  BY <1>1, <1>2, <1>5, <1>6 DEF TurnInv
<1>8. ProgressInv'
  BY <1>6 DEF ProgressInv, InTransaction
<1> QED
  BY <1>1, <1>3, <1>4, <1>5, <1>7, <1>8

LEMMA CommitStep ==
  ASSUME StorageInv, NEW c \in StorageCalls, Commit(c)
  PROVE  StorageInv'
<1> USE DEF StorageInv
<1>1. /\ calls[c].step = "commit" /\ Ended(c, "resolved") /\ durable' = db.rows /\ UNCHANGED <<bootVars, db>>
      /\ serial' = [counter |-> Upsert(calls[c].op, serial.counter),
                    seq |-> IF calls[c].op = "append" THEN serial.seq + 1 ELSE serial.seq]
  BY DEF Commit
<1>2. calls[c].step \in InTransaction
  BY <1>1 DEF InTransaction
<1>3. /\ holder' = 0 /\ queue' \in Seq(StorageCalls) /\ saved' \in Databases
      /\ calls' \in [StorageCalls -> StorageCallRecords]
      /\ calls'[c].op = calls[c].op /\ calls'[c].result = calls[c].result
      /\ \A d \in StorageCalls : d # c => calls'[d] = calls[d]
      /\ TurnInv' /\ ProgressInv'
  BY <1>1, <1>2, EndedFacts
<1>4. serial.counter \in Int /\ serial.seq \in Nat
  BY DEF StorageTypes
<1>5. serial' \in [counter : Int, seq : Nat]
  BY <1>1, <1>4, UpsertType
<1>6. StorageTypes'
  BY SMTT(40), <1>1, <1>3, <1>5, StorageAssumption DEF StorageTypes, bootVars, Databases
<1>7. saved.counter = serial.counter /\ saved.seq = serial.seq
  BY <1>2, HolderFacts DEF CommittedInv
<1>8. db.counter = serial'.counter /\ db.seq = serial'.seq
  BY <1>1, <1>7 DEF ProgressInv
<1>9. BootInv' /\ CommittedInv'
  BY <1>1, <1>3, <1>8 DEF bootVars, BootInv, CommittedInv, Base
<1>10. RangeInv'
  BY <1>1, <1>3 DEF RangeInv
<1> QED
  BY <1>3, <1>6, <1>9, <1>10

LEMMA RollbackStep ==
  ASSUME StorageInv, NEW c \in StorageCalls, Rollback(c)
  PROVE  StorageInv'
<1> USE DEF StorageInv
<1>1. /\ calls[c].step \in InTransaction /\ db' = saved /\ Ended(c, "rejected")
      /\ UNCHANGED <<bootVars, serial, durable>>
  BY DEF Rollback, InTransaction
<1>2. /\ holder' = 0 /\ queue' \in Seq(StorageCalls) /\ saved' \in Databases
      /\ calls' \in [StorageCalls -> StorageCallRecords] /\ calls'[c].step = "rejected"
      /\ \A d \in StorageCalls : d # c => calls'[d] = calls[d]
      /\ TurnInv' /\ ProgressInv'
  BY <1>1, EndedFacts
<1>3. StorageTypes'
  BY <1>1, <1>2, StorageAssumption DEF StorageTypes, bootVars
<1>4. BootInv' /\ CommittedInv'
  BY <1>1, <1>2, HolderFacts DEF bootVars, BootInv, CommittedInv, Base
<1>5. RangeInv'
  BY <1>2 DEF RangeInv
<1> QED
  BY <1>2, <1>3, <1>4, <1>5

\* A plain write goes into the open transaction, if there is one, and is durable only without.
LEMMA PlainStep ==
  ASSUME StorageInv, NEW w \in Plain, RunPlain(w)
  PROVE  StorageInv'
<1> USE DEF StorageInv
<1>1. /\ db' = [db EXCEPT !.rows = db.rows \cup {w}]
      /\ durable' = IF holder = 0 THEN durable \cup {w} ELSE durable
      /\ UNCHANGED <<bootVars, saved, holder, queue, calls, serial>>
  BY DEF RunPlain
<1>2. /\ db' \in Databases /\ db'.counter = db.counter /\ db'.seq = db.seq
      /\ db'.rows = db.rows \cup {w}
  BY <1>1 DEF StorageTypes, Databases
<1>3. StorageTypes'
  BY <1>1, <1>2 DEF StorageTypes, bootVars
<1>4. BootInv' /\ CommittedInv' /\ TurnInv'
  BY <1>1, <1>2 DEF bootVars, BootInv, CommittedInv, TurnInv, Base
<1>5. ProgressInv' /\ RangeInv'
  BY <1>1, <1>2 DEF ProgressInv, RangeInv
<1> QED
  BY <1>3, <1>4, <1>5

LEMMA CrashStep ==
  ASSUME StorageInv, StorageCrash
  PROVE  StorageInv'
<1> USE DEF StorageInv
<1>1. /\ boot' = BootAt("down", 0) /\ queue' = <<>> /\ holder' = 0 /\ saved' = Closed
      /\ db' = IF holder = 0 THEN db ELSE saved
      /\ calls' = [c \in StorageCalls |->
                     IF calls[c].step \in {"new", "resolved", "rejected"} THEN calls[c]
                     ELSE [calls[c] EXCEPT !.step = "rejected"]]
      /\ UNCHANGED <<schema, journal, serial, durable>>
  BY DEF StorageCrash
<1>2. saved' \in Databases /\ db' \in Databases
  BY <1>1 DEF StorageTypes, Closed, Databases, Absent
<1>3. \A c \in StorageCalls :
        /\ calls'[c] \in StorageCallRecords /\ calls'[c].op = calls[c].op
        /\ calls'[c].step \in {"new", "resolved", "rejected"}
        /\ calls'[c].step # "rejected" => calls'[c] = calls[c]
        /\ calls'[c].step = "new" <=> calls[c].step = "new"
  BY ZenonT(60), <1>1 DEF StorageTypes, StorageCallRecords
<1>4. calls' \in [StorageCalls -> StorageCallRecords]
  BY <1>1, <1>3
<1>5. StorageTypes'
  BY <1>1, <1>2, <1>4, StorageAssumption DEF StorageTypes, BootAt
<1>6. BootInv' /\ CommittedInv'
  BY <1>1 DEF BootInv, CommittedInv, BootAt, Base
<1>7. \A c \in StorageCalls : c # 0
  BY StorageAssumption DEF StorageCalls
<1>8. TurnInv' /\ ProgressInv' /\ RangeInv'
  BY <1>1, <1>3, <1>7 DEF TurnInv, ProgressInv, RangeInv, InTransaction
<1> QED
  BY <1>5, <1>6, <1>8

LEMMA StorageStepInv == StorageInv /\ [StorageNext]_storageVars => StorageInv'
<1>1. StorageInv /\ UNCHANGED storageVars => StorageInv'
  BY DEF storageVars, StorageInv, StorageTypes, BootInv, TurnInv, CommittedInv, ProgressInv, RangeInv, Base
<1> QED
  BY <1>1, BootStep, CallStep, BeginStep, FirstStep, SecondStep, CommitStep, RollbackStep, PlainStep,
     CrashStep DEF StorageNext, CallTurn

(* Whatever dies or is refused in between, calls take effect one after the  *)
(* other or not at all, nothing durable is rolled back and nothing runs on  *)
(* a schema that is not complete (sqlite storage, migrations, counters).    *)
THEOREM StoragesAreSerial == PlatformSpec => []StorageIsSerial
<1>1. PlatformInit => StorageInv
  BY StorageInitInv DEF PlatformInit
<1>2. StorageInv /\ [PlatformNext]_platformVars => StorageInv'
  BY StorageStepInv DEF PlatformNext, platformVars
<1>3. StorageInv => StorageIsSerial
  <2> SUFFICES ASSUME StorageInv PROVE StorageIsSerial
    OBVIOUS
  <2> USE DEF StorageInv
  <2>1. StorageTypeOK
    BY DEF StorageTypes, StorageTypeOK, TurnInv, Databases, StorageCallRecords
  <2>2. ReadyIsMigrated
    BY DEF BootInv, ReadyIsMigrated
  <2>3. CallsAreSerial /\ DurableRowsStay
    BY DEF CommittedInv, CallsAreSerial, DurableRowsStay, Base
  <2>4. WrappedStaysInRange
    BY DEF RangeInv, WrappedStaysInRange
  <2> QED
    BY <2>1, <2>2, <2>3, <2>4 DEF StorageIsSerial
<1> QED
  BY <1>1, <1>2, <1>3, PTL DEF PlatformSpec

-----------------------------------------------------------------------------
(* The configuration.                                                      *)

ConfigSteps == {"idle", "checked", "saving", "loading", "resolved", "rejected"}
ConfigRecords ==
  [op : {"none", "set", "remove", "reload"}, step : ConfigSteps, path : Paths,
   value : Values \cup {0}, provider : Providers, loaded : [Providers -> Trees],
   unread : SUBSET Providers, overlapped : BOOLEAN]

ConfigTypes ==
  /\ fixed \in Trees /\ memory \in Trees /\ view \in Trees
  /\ rows \in [Paths -> Values \cup {0}] /\ untold \subseteq Paths
  /\ config \in [ConfigCalls -> ConfigRecords]
  /\ told \in [Paths -> Trees \cup {Scalar(0)}]
  /\ \A c \in ConfigCalls :
       config[c].step \in {"checked", "saving"} =>
         /\ config[c].op \in {"set", "remove"}
         /\ config[c].op = "set" => config[c].value \in Values

Saving(c) == config[c].step = "saving"

\* Everything that is served, loaded or about to be served has been held by a provider.
HeldInv ==
  /\ leaves(fixed) \cup leaves(memory) \cup leaves(view) \subseteq everHeld
  /\ \A p \in Paths : rows[p] # 0 => <<p, rows[p]>> \in everHeld
  /\ \A c \in ConfigCalls :
       /\ \A q \in Providers : leaves(config[c].loaded[q]) \subseteq everHeld
       /\ Saving(c) /\ config[c].op = "set" => <<config[c].path, config[c].value>> \in everHeld

\* Of two writes under way at most one is not overlapped.
OverlapInv ==
  \A c, d \in ConfigCalls :
    c # d /\ Saving(c) /\ Saving(d) => config[c].overlapped \/ config[d].overlapped

\* A provider still says what a write that nothing overlapped has left in it.
Left(w) ==
  /\ w.provider # "fixed"
  /\ w.op = "set" /\ w.provider = "memory" => memory = setAtPath(memory, w.path, w.value)
  /\ w.op = "set" /\ w.provider = "sqlite" => rows[w.path] = w.value
  /\ w.op = "remove" /\ w.path = "a.b" /\ w.provider = "memory" => removeAtPath(memory, "a.b") = memory
  /\ w.op = "remove" /\ w.path = "a.b" /\ w.provider = "sqlite" => rows["a.b"] = 0
LeftInv == \A c \in ConfigCalls : Saving(c) /\ ~config[c].overlapped => Left(config[c])

\* What a reload that nothing overlapped has read is what the providers say.
ReadInv ==
  \A c \in ConfigCalls : config[c].step = "loading" /\ ~config[c].overlapped =>
    \A q \in Providers \ config[c].unread : config[c].loaded[q] \in Loadable[q]

AgreesWith(tree, f, m, loadable) ==
  \E s \in loadable : leaves(tree) = leaves(Precedence([fixed |-> f, memory |-> m, sqlite |-> s]))
Agrees(tree) == AgreesWith(tree, fixed, memory, LoadedRows)

\* Nothing else has the key that a write is about.
Alone(w) ==
  /\ \A q \in Providers \ {w.provider} : Loadable[q] = {Missing}
  /\ w.provider = "sqlite" => \A p \in Paths \ {w.path} : rows[p] = 0

\* The view agrees when no write is under way, and will when the last one is a removal
\* that nothing disturbed.
ViewInv ==
  /\ diverged = {} /\ (\A c \in ConfigCalls : ~Saving(c)) => Agrees(view)
  /\ \A c \in ConfigCalls :
       /\ diverged = {} /\ Saving(c) /\ ~config[c].overlapped
       /\ \A d \in ConfigCalls \ {c} : ~Saving(d)
       /\ config[c].op = "remove" /\ config[c].path = "a.b" /\ Alone(config[c])
       => Agrees(removeAtPath(view, "a.b"))

ConfigInv ==
  ConfigTypes /\ HeldInv /\ OverlapInv /\ LeftInv /\ ReadInv /\ ViewInv /\ WatchersAreTold

LEMMA TreeFacts ==
  /\ Missing \in Trees /\ Object(0) \in Trees
  /\ \A v \in Values : Scalar(v) \in Trees /\ Object(v) \in Trees
  /\ \A v : /\ Scalar(v).kind = "scalar" /\ Scalar(v).v = v
            /\ Object(v).kind = "object" /\ Object(v).v = v
  /\ Missing.kind = "missing" /\ Missing.v = 0
  /\ \A t \in Trees : /\ t.kind \in {"missing", "scalar", "object"} /\ t.v \in Values \cup {0}
                      /\ t.kind = "missing" => t = Missing
                      /\ t.kind = "scalar" => t = Scalar(t.v) /\ t.v \in Values
                      /\ t.kind = "object" => t = Object(t.v)
  /\ \A v \in Values : v \in Nat /\ v # 0
<1>1. \A v : /\ Scalar(v).kind = "scalar" /\ Scalar(v).v = v
            /\ Object(v).kind = "object" /\ Object(v).v = v
  BY DEF Scalar, Object
<1>2. Missing.kind = "missing" /\ Missing.v = 0
  BY DEF Missing
<1>3. /\ Missing \in Trees /\ Object(0) \in Trees
      /\ \A v \in Values : Scalar(v) \in Trees /\ Object(v) \in Trees
      /\ \A t \in Trees : \/ t = Missing \/ t = Object(0)
                          \/ \E v \in Values : t = Scalar(v) \/ t = Object(v)
  BY DEF Trees
<1>4. \A v \in Values : v \in Nat /\ v # 0
  BY ConfigAssumption
<1>5. ASSUME NEW t \in Trees
      PROVE  /\ t.kind \in {"missing", "scalar", "object"} /\ t.v \in Values \cup {0}
             /\ t.kind = "missing" => t = Missing
             /\ t.kind = "scalar" => t = Scalar(t.v) /\ t.v \in Values
             /\ t.kind = "object" => t = Object(t.v)
  <2>1. CASE t = Missing \/ t = Object(0)
    BY <2>1, <1>1, <1>2
  <2>2. ASSUME NEW v \in Values, t = Scalar(v) \/ t = Object(v)
        PROVE  /\ t.kind \in {"missing", "scalar", "object"} /\ t.v \in Values \cup {0}
               /\ t.kind = "missing" => t = Missing
               /\ t.kind = "scalar" => t = Scalar(t.v) /\ t.v \in Values
               /\ t.kind = "object" => t = Object(t.v)
    BY <2>2, <1>1
  <2> QED  BY <2>1, <2>2, <1>3
<1> QED  BY <1>1, <1>2, <1>3, <1>4, <1>5

\* What a tree says.
LEMMA LeavesAre ==
  ASSUME NEW t \in Trees
  PROVE  /\ t.kind = "scalar" => leaves(t) = {<<"a", t.v>>}
         /\ t.kind = "object" /\ t.v # 0 => leaves(t) = {<<"a.b", t.v>>}
         /\ t.kind # "scalar" /\ t.v = 0 => leaves(t) = {}
         /\ t.kind = "missing" => t.v = 0
BY TreeFacts DEF leaves

LEMMA SameLeaves ==
  ASSUME NEW t \in Trees, NEW u \in Trees, leaves(t) = leaves(u)
  PROVE  \/ t = u
         \/ t.kind # "scalar" /\ t.v = 0 /\ u.kind # "scalar" /\ u.v = 0
<1>1. "a" # "a.b"
  OBVIOUS
<1>2. CASE t.kind = "scalar"
  <2>1. <<"a", t.v>> \in leaves(u)
    BY <1>2, LeavesAre
  <2>2. u.kind = "scalar" /\ u.v = t.v
    BY <2>1, LeavesAre, TreeFacts
  <2> QED  BY <1>2, <2>2, TreeFacts
<1>3. CASE t.kind = "object" /\ t.v # 0
  <2>1. <<"a.b", t.v>> \in leaves(u)
    BY <1>3, LeavesAre
  <2>2. u.kind = "object" /\ u.v = t.v
    BY <2>1, LeavesAre, TreeFacts
  <2> QED  BY <1>3, <2>2, TreeFacts
<1>4. CASE t.kind # "scalar" /\ t.v = 0
  <2>1. leaves(u) = {}
    BY <1>4, LeavesAre
  <2>2. u.kind # "scalar" /\ u.v = 0
    BY <2>1, LeavesAre, TreeFacts
  <2> QED  BY <1>4, <2>2
<1> QED  BY <1>2, <1>3, <1>4, TreeFacts

LEMMA MergeTypes ==
  ASSUME NEW t \in Trees, NEW u \in Trees
  PROVE  deepMerge(t, u) \in Trees /\ leaves(deepMerge(t, u)) \subseteq leaves(t) \cup leaves(u)
<1>1. CASE u = Missing \/ ~(t.kind = "object" /\ u.kind = "object")
  BY <1>1 DEF deepMerge
<1>2. CASE u # Missing /\ t.kind = "object" /\ u.kind = "object"
  <2>1. CASE u.v = 0
    BY <1>2, <2>1, TreeFacts DEF deepMerge
  <2>2. CASE u.v # 0
    BY <1>2, <2>2, TreeFacts DEF deepMerge
  <2> QED  BY <2>1, <2>2
<1> QED  BY <1>1, <1>2

\* Precedence without its auxiliary operator.
LEMMA PrecedenceIs ==
  ASSUME NEW f, NEW m, NEW s
  PROVE  Precedence([fixed |-> f, memory |-> m, sqlite |-> s]) =
           LET top == IF f # Missing THEN f ELSE IF m # Missing THEN m ELSE s
               leaf == IF f.kind = "scalar" \/ f.v # 0 THEN f
                       ELSE IF m.kind = "scalar" \/ m.v # 0 THEN m ELSE s
           IN IF top.kind = "object" THEN (IF leaf.kind = "object" THEN leaf ELSE top) ELSE top
BY DEF Precedence, firstOf

LEMMA MergeIsPrecedence ==
  ASSUME NEW f \in Trees, NEW m \in Trees, NEW s \in Trees
  PROVE  leaves(deepMerge(deepMerge(s, m), f)) =
           leaves(Precedence([fixed |-> f, memory |-> m, sqlite |-> s]))
<1> DEFINE p == Precedence([fixed |-> f, memory |-> m, sqlite |-> s])
           w == deepMerge(s, m)
           r == deepMerge(w, f)
<1>1. w \in Trees /\ r \in Trees
  BY MergeTypes
<1>2. p \in Trees
  BY PrecedenceIs
<1>3. /\ m = Missing => w = s
      /\ m # Missing /\ ~(s.kind = "object" /\ m.kind = "object") => w = m
      /\ m # Missing /\ s.kind = "object" /\ m.kind = "object" =>
           w.kind = "object" /\ w.v = IF m.v = 0 THEN s.v ELSE m.v
  BY TreeFacts DEF deepMerge
<1>4. /\ f = Missing => r = w
      /\ f # Missing /\ ~(w.kind = "object" /\ f.kind = "object") => r = f
      /\ f # Missing /\ w.kind = "object" /\ f.kind = "object" =>
           r.kind = "object" /\ r.v = IF f.v = 0 THEN w.v ELSE f.v
  BY TreeFacts DEF deepMerge
<1> HIDE DEF w, r
<1>5. \/ r.kind = p.kind /\ r.v = p.v
      \/ r.kind # "scalar" /\ r.v = 0 /\ p.kind # "scalar" /\ p.v = 0
  BY <1>1, <1>2, <1>3, <1>4, TreeFacts, PrecedenceIs
<1> HIDE DEF p
<1>6. leaves(r) = leaves(p)
  BY <1>1, <1>2, <1>5 DEF leaves
<1> QED  BY <1>6 DEF w, r, p

LEMMA ConfigFacts ==
  ASSUME ConfigTypes
  PROVE  \A c \in ConfigCalls :
           /\ config[c] \in ConfigRecords /\ config[c].step \in ConfigSteps
           /\ config[c].path \in Paths /\ config[c].value \in Values \cup {0}
           /\ config[c].provider \in Providers /\ config[c].loaded \in [Providers -> Trees]
           /\ config[c].unread \in SUBSET Providers /\ config[c].overlapped \in BOOLEAN
           /\ config[c].op \in {"none", "set", "remove", "reload"}
BY DEF ConfigTypes, ConfigRecords

LEMMA IdleFacts ==
  /\ Idle \in ConfigRecords /\ NoLoads \in [Providers -> Trees]
  /\ Idle.loaded = NoLoads /\ \A q \in Providers : NoLoads[q] = Missing /\ leaves(NoLoads[q]) = {}
<1>1. NoLoads \in [Providers -> Trees] /\ \A q \in Providers : NoLoads[q] = Missing
  BY TreeFacts DEF NoLoads
<1>2. leaves(Missing) = {}
  BY TreeFacts DEF leaves
<1>3. Idle.loaded = NoLoads
  BY DEF Idle
<1>4. Idle \in ConfigRecords
  BY <1>1 DEF Idle, ConfigRecords, ConfigSteps, Paths, Providers
<1> QED  BY <1>1, <1>2, <1>3, <1>4

\* The providers and what agrees with them, while no provider changes.
LEMMA SameProviders ==
  ASSUME UNCHANGED <<fixed, memory, rows>>
  PROVE  LoadedRows' = LoadedRows /\ Loadable' = Loadable
BY DEF LoadedRows, Loadable

\* A step of one call that neither writes nor settles a write: the others, the
\* providers and the view stay.
LEMMA ConfigOnly ==
  ASSUME ConfigInv, NEW c \in ConfigCalls, NEW w \in ConfigRecords, config' = [config EXCEPT ![c] = w],
         UNCHANGED <<fixed, memory, rows, view, told, untold, everHeld, diverged>>,
         config[c].step # "saving", w.step # "saving",
         w.step = "checked" => w.op \in {"set", "remove"} /\ (w.op = "set" => w.value \in Values),
         \A q \in Providers : leaves(w.loaded[q]) \subseteq everHeld,
         w.step = "loading" /\ ~w.overlapped =>
           \A q \in Providers \ w.unread : w.loaded[q] \in Loadable[q]
  PROVE  ConfigInv'
<1>1. /\ config'[c] = w /\ \A d \in ConfigCalls : d # c => config'[d] = config[d]
      /\ config' \in [ConfigCalls -> ConfigRecords]
  BY DEF ConfigInv, ConfigTypes
<1>2. \A d \in ConfigCalls : /\ config'[d].step = "saving" <=> Saving(d)
                             /\ Saving(d) => config'[d] = config[d]
  BY <1>1 DEF Saving
<1>3. ConfigTypes'
  BY <1>1 DEF ConfigInv, ConfigTypes
<1>4. HeldInv'
  BY <1>1, <1>2 DEF ConfigInv, HeldInv, Saving
<1>5. OverlapInv'
  BY <1>1, <1>2 DEF ConfigInv, OverlapInv, Saving
<1>6. LeftInv'
  BY <1>1, <1>2 DEF ConfigInv, LeftInv, Left, Saving
<1>7. ReadInv'
  BY <1>1, SameProviders DEF ConfigInv, ReadInv
<1>8. ViewInv'
  <2>1. diverged' = {} /\ (\A d \in ConfigCalls : ~Saving(d)') => Agrees(view)'
    BY <1>2, SameProviders DEF ConfigInv, ViewInv, Saving, Agrees
  <2>2. ASSUME NEW d \in ConfigCalls, diverged' = {}, Saving(d)', ~config'[d].overlapped,
               \A e \in ConfigCalls \ {d} : ~Saving(e)',
               config'[d].op = "remove", config'[d].path = "a.b", Alone(config[d])'
        PROVE  Agrees(removeAtPath(view, "a.b"))'
    <3>1. Saving(d) /\ config'[d] = config[d] /\ \A e \in ConfigCalls \ {d} : ~Saving(e)
      BY <1>2, <2>2 DEF Saving
    <3>2. Alone(config[d])
      BY <2>2, <3>1, SameProviders DEF Alone
    <3>3. Agrees(removeAtPath(view, "a.b"))
      BY <2>2, <3>1, <3>2 DEF ConfigInv, ViewInv
    <3>4. removeAtPath(view, "a.b")' = removeAtPath(view, "a.b")
      OBVIOUS
    <3> QED  BY <3>3, <3>4, SameProviders DEF Agrees
  <2> QED  BY <2>1, <2>2 DEF ViewInv
<1>9. WatchersAreTold'
  BY DEF ConfigInv, WatchersAreTold
<1> QED  BY <1>3, <1>4, <1>5, <1>6, <1>7, <1>8, <1>9 DEF ConfigInv

LEMMA SettledRecord ==
  ASSUME NEW step \in {"resolved", "rejected"}
  PROVE  /\ [Idle EXCEPT !.step = step] \in ConfigRecords
         /\ [Idle EXCEPT !.step = step].step = step
         /\ [Idle EXCEPT !.step = step].loaded = NoLoads
BY IdleFacts DEF ConfigRecords, ConfigSteps, Idle

LEMMA QuietStepInv ==
  ASSUME ConfigInv, NEW c \in ConfigCalls,
         \/ \E p \in Paths, v \in Values, q \in Providers : StartWrite(c, "set", p, v, q)
         \/ \E p \in Paths, q \in Providers : StartWrite(c, "remove", p, 0, q)
         \/ WriteRefused(c) \/ StartReload(c) \/ ReloadFails(c)
         \/ \E q \in Providers : LoadProvider(c, q)
  PROVE  ConfigInv'
<1>0. config[c] \in ConfigRecords /\ config[c].loaded \in [Providers -> Trees]
      /\ config[c].unread \in SUBSET Providers /\ \A q \in Providers : leaves(config[c].loaded[q]) \subseteq everHeld
  BY ConfigFacts DEF ConfigInv, HeldInv
<1>1. ASSUME NEW o \in {"set", "remove"}, NEW p \in Paths, NEW v \in Values \cup {0}, NEW q \in Providers,
             o = "set" => v \in Values, StartWrite(c, o, p, v, q)
      PROVE  ConfigInv'
  <2> DEFINE w == [Idle EXCEPT !.op = o, !.step = "checked", !.path = p, !.value = v, !.provider = q]
  <2>1. w \in ConfigRecords
    BY IdleFacts DEF ConfigRecords, ConfigSteps, Idle
  <2>2. w.op = o /\ w.step = "checked" /\ w.value = v /\ w.loaded = NoLoads
    BY DEF Idle
  <2>3. /\ config' = [config EXCEPT ![c] = w] /\ config[c].step # "saving"
        /\ UNCHANGED <<fixed, memory, rows, view, told, untold, everHeld, diverged>>
    BY <1>1 DEF StartWrite, inOrder
  <2>4. \A x \in Providers : leaves(w.loaded[x]) \subseteq everHeld
    BY <2>2, IdleFacts
  <2> HIDE DEF w
  <2> QED  BY <1>1, <2>1, <2>2, <2>3, <2>4, ConfigOnly
<1>2. CASE WriteRefused(c) \/ ReloadFails(c)
  <2> DEFINE w == [Idle EXCEPT !.step = "rejected"]
  <2>1. w \in ConfigRecords /\ w.step = "rejected" /\ w.loaded = NoLoads
    BY SettledRecord
  <2>2. /\ config' = [config EXCEPT ![c] = w] /\ config[c].step # "saving"
        /\ UNCHANGED <<fixed, memory, rows, view, told, untold, everHeld, diverged>>
    BY <1>2 DEF WriteRefused, ReloadFails, Settles
  <2>3. \A x \in Providers : leaves(w.loaded[x]) \subseteq everHeld
    BY <2>1, IdleFacts
  <2> HIDE DEF w
  <2> QED  BY <2>1, <2>2, <2>3, ConfigOnly
<1>3. CASE StartReload(c)
  <2> DEFINE w == [Idle EXCEPT !.op = "reload", !.step = "loading", !.unread = Providers]
  <2>1. w \in ConfigRecords
    BY IdleFacts DEF ConfigRecords, ConfigSteps, Idle
  <2>2. w.step = "loading" /\ w.unread = Providers /\ w.loaded = NoLoads
    BY DEF Idle
  <2>3. /\ config' = [config EXCEPT ![c] = w] /\ config[c].step # "saving"
        /\ UNCHANGED <<fixed, memory, rows, view, told, untold, everHeld, diverged>>
    BY <1>3 DEF StartReload, inOrder
  <2>4. \A x \in Providers : leaves(w.loaded[x]) \subseteq everHeld
    BY <2>2, IdleFacts
  <2> HIDE DEF w
  <2> QED  BY <2>1, <2>2, <2>3, <2>4, ConfigOnly
<1>4. ASSUME NEW q \in Providers, LoadProvider(c, q) PROVE ConfigInv'
  <2>1. PICK tree \in Loadable[q] : config' = [config EXCEPT ![c].unread = @ \ {q}, ![c].loaded[q] = tree]
    BY <1>4 DEF LoadProvider
  <2> DEFINE u == config[c].unread \ {q}
             l == [config[c].loaded EXCEPT ![q] = tree]
             w == [config[c] EXCEPT !.unread = u, !.loaded = l]
  <2>2. config' = [config EXCEPT ![c] = w]
    BY <2>1
  <2>3. tree \in Trees /\ leaves(tree) \subseteq everHeld
    <3>1. CASE q = "sqlite"
      <4>1. tree \in LoadedRows
        BY <2>1, <3>1 DEF Loadable
      <4>2. tree \in Trees
        BY <4>1 DEF LoadedRows
      <4>4. \/ tree = Missing
            \/ tree = Scalar(rows["a"]) /\ rows["a"] # 0
            \/ tree = Object(rows["a.b"]) /\ rows["a.b"] # 0
        BY <4>1 DEF LoadedRows
      <4>3. \A p \in Paths : rows[p] # 0 => <<p, rows[p]>> \in everHeld
        BY DEF ConfigInv, HeldInv
      <4>5. "a" \in Paths /\ "a.b" \in Paths
        BY DEF Paths
      <4> QED  BY <4>2, <4>3, <4>4, <4>5, TreeFacts DEF leaves
    <3>2. CASE q # "sqlite"
      <4>1. tree \in {fixed, memory}
        BY <2>1, <3>2 DEF Loadable, Providers
      <4> QED  BY <4>1 DEF ConfigInv, ConfigTypes, HeldInv
    <3> QED  BY <3>1, <3>2
  <2>4. l \in [Providers -> Trees] /\ l[q] = tree /\ \A x \in Providers : x # q => l[x] = config[c].loaded[x]
    BY <1>0, <2>3
  <2> HIDE DEF l, u
  <2>5. /\ w \in ConfigRecords /\ w.unread = u /\ w.loaded = l /\ w.step = config[c].step
        /\ w.overlapped = config[c].overlapped
    BY <1>0, <2>4 DEF ConfigRecords, u
  <2> HIDE DEF w
  <2>6. /\ config[c].step = "loading"
        /\ UNCHANGED <<fixed, memory, rows, view, told, untold, everHeld, diverged>>
    BY <1>4 DEF LoadProvider
  <2>7. \A x \in Providers : leaves(w.loaded[x]) \subseteq everHeld
    BY <1>0, <2>3, <2>4, <2>5
  <2>8. ~w.overlapped => \A x \in Providers \ w.unread : w.loaded[x] \in Loadable[x]
    BY <2>1, <2>4, <2>5, <2>6 DEF ConfigInv, ReadInv, u
  <2> QED  BY <2>2, <2>5, <2>6, <2>7, <2>8, ConfigOnly
<1>5. ASSUME NEW p \in Paths, NEW v \in Values, NEW q \in Providers, StartWrite(c, "set", p, v, q) PROVE ConfigInv'
  BY <1>1, <1>5
<1>6. ASSUME NEW p \in Paths, NEW q \in Providers, StartWrite(c, "remove", p, 0, q) PROVE ConfigInv'
  BY <1>1, <1>6
<1> QED  BY <1>2, <1>3, <1>4, <1>5, <1>6

\* A tree that one provider alone decides.
LEMMA AgreesAlone ==
  ASSUME NEW m \in Trees, NEW tree
  PROVE  /\ AgreesWith(tree, Missing, m, {Missing}) <=> leaves(tree) = leaves(m)
         /\ \A L \in SUBSET Trees :
              AgreesWith(tree, Missing, Missing, L) <=> \E s \in L : leaves(tree) = leaves(s)
<1>1. Precedence([fixed |-> Missing, memory |-> m, sqlite |-> Missing]) = m
  BY PrecedenceIs, TreeFacts
<1>2. \A s \in Trees : Precedence([fixed |-> Missing, memory |-> Missing, sqlite |-> s]) = s
  BY PrecedenceIs, TreeFacts
<1> QED  BY <1>1, <1>2 DEF AgreesWith

LEMMA RemoveFacts ==
  ASSUME NEW t \in Trees
  PROVE  /\ removeAtPath(t, "a.b") \in Trees /\ leaves(removeAtPath(t, "a.b")) \subseteq leaves(t)
         /\ removeAtPath(removeAtPath(t, "a.b"), "a.b") = removeAtPath(t, "a.b")
         /\ t.kind # "scalar" => leaves(removeAtPath(t, "a.b")) = {}
         /\ t.kind = "scalar" => removeAtPath(t, "a.b") = t
<1>1. removeAtPath(t, "a.b") = IF t.kind = "object" THEN Object(0) ELSE t
  BY DEF removeAtPath
<1>2. leaves(Object(0)) = {} /\ leaves(Missing) = {}
  BY TreeFacts, LeavesAre
<1>3. removeAtPath(Object(0), "a.b") = Object(0)
  BY TreeFacts DEF removeAtPath
<1> QED  BY <1>1, <1>2, <1>3, TreeFacts

LEMMA RemoveSame ==
  ASSUME NEW t \in Trees, NEW u \in Trees, leaves(t) = leaves(u)
  PROVE  leaves(removeAtPath(t, "a.b")) = leaves(removeAtPath(u, "a.b"))
<1>1. CASE t = u
  BY <1>1
<1>2. CASE t.kind # "scalar" /\ u.kind # "scalar"
  BY <1>2, RemoveFacts
<1> QED  BY <1>1, <1>2, SameLeaves

LEMMA SetFacts ==
  ASSUME NEW t, NEW p \in Paths, NEW v \in Values
  PROVE  /\ setAtPath(t, p, v) = IF p = "a" THEN Scalar(v) ELSE Object(v)
         /\ setAtPath(t, p, v) \in Trees /\ leaves(setAtPath(t, p, v)) = {<<p, v>>}
<1>1. setAtPath(t, p, v) = IF p = "a" THEN Scalar(v) ELSE Object(v)
  BY DEF setAtPath
<1>2. p \in {"a", "a.b"}
  BY DEF Paths
<1> QED  BY <1>1, <1>2, TreeFacts, LeavesAre

\* The rows, as a tree.
LEMMA LoadedRowsAre ==
  ASSUME ConfigTypes
  PROVE  /\ LoadedRows \in SUBSET Trees
         /\ rows["a"] # 0 => Scalar(rows["a"]) \in LoadedRows
         /\ rows["a.b"] # 0 => Object(rows["a.b"]) \in LoadedRows
         /\ rows["a"] = 0 /\ rows["a.b"] = 0 => Missing \in LoadedRows
         /\ rows["a"] = 0 => \A s \in LoadedRows : s.kind # "scalar"
         /\ rows["a"] = 0 /\ rows["a.b"] = 0 => \A s \in LoadedRows : leaves(s) = {}
<1>1. "a" \in Paths /\ "a.b" \in Paths /\ \A p \in Paths : p = "a" \/ p = "a.b"
  BY DEF Paths
<1>2. rows["a"] \in Values \cup {0} /\ rows["a.b"] \in Values \cup {0} /\ rows \in [Paths -> Values \cup {0}]
  BY <1>1 DEF ConfigTypes
<1>3. LoadedRows \in SUBSET Trees
  BY DEF LoadedRows
<1>4. rows["a"] # 0 => Scalar(rows["a"]) \in LoadedRows
  BY <1>2, TreeFacts DEF LoadedRows
<1>5. rows["a.b"] # 0 => Object(rows["a.b"]) \in LoadedRows
  BY <1>2, TreeFacts DEF LoadedRows
<1>6. rows["a"] = 0 /\ rows["a.b"] = 0 => Missing \in LoadedRows
  <2>1. rows["a"] = 0 /\ rows["a.b"] = 0 => rows = [p \in Paths |-> 0]
    BY <1>1, <1>2
  <2> QED  BY <2>1, TreeFacts DEF LoadedRows
<1>7. ASSUME NEW s \in LoadedRows
      PROVE  /\ rows["a"] = 0 => s.kind # "scalar"
             /\ rows["a"] = 0 /\ rows["a.b"] = 0 => leaves(s) = {}
  <2>1. \/ s = Missing
        \/ s = Scalar(rows["a"]) /\ rows["a"] # 0
        \/ s = Object(rows["a.b"]) /\ rows["a.b"] # 0
    BY DEF LoadedRows
  <2> QED  BY <2>1, TreeFacts, LeavesAre
<1> QED  BY <1>3, <1>4, <1>5, <1>6, <1>7

LEMMA SettlesFacts ==
  ASSUME ConfigTypes, NEW c \in ConfigCalls, NEW step \in {"resolved", "rejected"}, Settles(c, step)
  PROVE  /\ config' \in [ConfigCalls -> ConfigRecords] /\ config'[c].step = step
         /\ config'[c].loaded = NoLoads
         /\ \A d \in ConfigCalls : d # c => config'[d] = config[d]
<1> DEFINE w == [Idle EXCEPT !.step = step]
<1>1. w \in ConfigRecords /\ w.step = step /\ w.loaded = NoLoads
  BY SettledRecord
<1>2. config' = [config EXCEPT ![c] = w]
  BY DEF Settles
<1> HIDE DEF w
<1> QED  BY <1>1, <1>2 DEF ConfigTypes

\* A write or a reload ends: what it was about is over.
LEMMA CallEnds ==
  ASSUME ConfigInv, NEW c \in ConfigCalls, NEW step \in {"resolved", "rejected"}, Settles(c, step),
         UNCHANGED <<fixed, memory, rows, everHeld>>
  PROVE  /\ \A d \in ConfigCalls : /\ Saving(d)' <=> d # c /\ Saving(d)
                                   /\ d # c => config'[d] = config[d]
         /\ OverlapInv' /\ LeftInv' /\ ReadInv'
         /\ leaves(view') \subseteq everHeld => HeldInv'
         /\ view' \in Trees /\ untold' \subseteq Paths /\ told' \in [Paths -> Trees \cup {Scalar(0)}] => ConfigTypes'
<1>0. ConfigTypes
  BY DEF ConfigInv
<1>1. /\ config' \in [ConfigCalls -> ConfigRecords] /\ config'[c].step = step
      /\ config'[c].loaded = NoLoads
      /\ \A d \in ConfigCalls : d # c => config'[d] = config[d]
  BY <1>0, SettlesFacts
<1>2. \A d \in ConfigCalls : /\ config'[d].step = "saving" <=> d # c /\ Saving(d)
                             /\ d # c => config'[d] = config[d]
  BY <1>1 DEF Saving
<1>3. OverlapInv'
  BY <1>1, <1>2 DEF ConfigInv, OverlapInv, Saving
<1>4. LeftInv'
  BY <1>1, <1>2 DEF ConfigInv, LeftInv, Left, Saving
<1>5. ReadInv'
  BY <1>1, SameProviders DEF ConfigInv, ReadInv
<1>6. leaves(view') \subseteq everHeld => HeldInv'
  BY <1>1, <1>2, IdleFacts DEF ConfigInv, HeldInv, Saving
<1>7. view' \in Trees /\ untold' \subseteq Paths /\ told' \in [Paths -> Trees \cup {Scalar(0)}] => ConfigTypes'
  BY <1>1 DEF ConfigInv, ConfigTypes
<1> QED  BY <1>2, <1>3, <1>4, <1>5, <1>6, <1>7 DEF Saving

LEMMA WriteFailsInv ==
  ASSUME ConfigInv, NEW c \in ConfigCalls, SaveFails(c) \/ TopLevelRemoveThrows(c)
  PROVE  ConfigInv'
<1>1. /\ Settles(c, "rejected") /\ diverged' # {}
      /\ UNCHANGED <<fixed, memory, rows, view, told, untold, everHeld>>
  BY DEF SaveFails, TopLevelRemoveThrows
<1>2. OverlapInv' /\ LeftInv' /\ ReadInv' /\ HeldInv' /\ ConfigTypes'
  BY <1>1, CallEnds DEF ConfigInv, ConfigTypes, HeldInv
<1>3. ViewInv' /\ WatchersAreTold'
  BY <1>1 DEF ConfigInv, ViewInv, WatchersAreTold
<1> QED  BY <1>2, <1>3 DEF ConfigInv

LEMMA ApplyWriteInv ==
  ASSUME ConfigInv, NEW c \in ConfigCalls, ApplyWrite(c)
  PROVE  ConfigInv'
<1> DEFINE w == config[c]
<1>0. /\ ConfigTypes /\ view \in Trees /\ fixed \in Trees /\ memory \in Trees
      /\ w.path \in Paths /\ w.provider \in Providers
  BY ConfigFacts DEF ConfigInv, ConfigTypes
<1>a. PICK reached \in SUBSET Paths :
        /\ Settles(c, "resolved") \/ Settles(c, "rejected")
        /\ told' = [p \in Paths |-> IF p \in reached THEN getAtPath(view', p) ELSE told[p]]
        /\ untold' = Paths \ reached
  BY DEF ApplyWrite
<1>1. /\ w.step = "saving" /\ Saving(c) /\ ~(w.op = "remove" /\ w.path = "a")
      /\ view' = IF w.op = "set" THEN setAtPath(view, w.path, w.value) ELSE removeAtPath(view, w.path)
      /\ UNCHANGED <<fixed, memory, rows, everHeld>>
  BY DEF ApplyWrite, Saving
<1>2. diverged' = {} => /\ diverged = {} /\ ~w.overlapped
                        /\ \A q \in Providers \ {w.provider} : Loadable[q] = {Missing}
                        /\ w.provider = "sqlite" => \A p \in Paths \ {w.path} : rows[p] = 0
  BY DEF ApplyWrite
<1>3. \/ w.op = "set" /\ w.value \in Values
      \/ w.op = "remove" /\ w.path = "a.b"
  BY <1>0, <1>1 DEF ConfigTypes, Paths
<1> HIDE DEF w
<1>4. view' \in Trees /\ leaves(view') \subseteq everHeld
  <2>1. CASE w.op = "set" /\ w.value \in Values
    <3>1. <<w.path, w.value>> \in everHeld
      BY <1>1, <2>1 DEF ConfigInv, HeldInv, w
    <3>2. view' = setAtPath(view, w.path, w.value)
      BY <1>1, <2>1
    <3> QED  BY <1>0, <2>1, <3>1, <3>2, SetFacts
  <2>2. CASE w.op = "remove" /\ w.path = "a.b"
    <3>1. view' = removeAtPath(view, "a.b")
      BY <1>1, <2>2
    <3> QED  BY <1>0, <3>1, RemoveFacts DEF ConfigInv, HeldInv
  <2> QED  BY <1>3, <2>1, <2>2
<1>5. \A tree \in Trees, p \in Paths : getAtPath(tree, p) \in Trees \cup {Scalar(0)}
  BY TreeFacts DEF getAtPath
<1>6. untold' \subseteq Paths /\ told' \in [Paths -> Trees \cup {Scalar(0)}]
  BY <1>0, <1>a, <1>4, <1>5 DEF ConfigTypes
<1>7. /\ \A d \in ConfigCalls : /\ Saving(d)' <=> d # c /\ Saving(d)
                                /\ d # c => config'[d] = config[d]
      /\ OverlapInv' /\ LeftInv' /\ ReadInv' /\ HeldInv' /\ ConfigTypes'
  BY <1>a, <1>1, <1>4, <1>6, CallEnds
<1>8. ASSUME diverged' = {}, \A d \in ConfigCalls : d # c => ~Saving(d)
      PROVE  AgreesWith(view', fixed, memory, LoadedRows)
  <2>1. Left(w) /\ Alone(w)
    BY <1>1, <1>2, <1>8 DEF ConfigInv, LeftInv, Alone, w
  <2>2. CASE w.op = "remove" /\ w.path = "a.b"
    <3>1. view' = removeAtPath(view, "a.b")
      BY <1>1, <2>2
    <3>2. Agrees(removeAtPath(view, "a.b"))
      BY <1>1, <1>2, <1>8, <2>1, <2>2 DEF ConfigInv, ViewInv, w
    <3> QED  BY <3>1, <3>2 DEF Agrees
  <2>3. CASE w.op = "set" /\ w.value \in Values
    <3>1. view' = setAtPath(view, w.path, w.value) /\ w.value # 0
      BY <1>1, <2>3, TreeFacts
    <3>2. \A t : setAtPath(t, w.path, w.value) = IF w.path = "a" THEN Scalar(w.value) ELSE Object(w.value)
      BY <1>0, <2>3, SetFacts
    <3>3. CASE w.provider = "memory"
      <4>1. fixed = Missing /\ LoadedRows = {Missing}
        <5>1. Loadable["fixed"] = {Missing} /\ Loadable["sqlite"] = {Missing}
          BY <2>1, <3>3 DEF Alone, Providers
        <5>2. Loadable["fixed"] = {fixed} /\ Loadable["sqlite"] = LoadedRows
          BY DEF Loadable
        <5> QED  BY <5>1, <5>2
      <4>2. view' = memory
        BY <2>1, <2>3, <3>1, <3>2, <3>3 DEF Left
      <4> QED  BY <1>0, <4>1, <4>2, AgreesAlone
    <3>4. CASE w.provider = "sqlite"
      <4>1. fixed = Missing /\ memory = Missing
        <5>1. Loadable["fixed"] = {Missing} /\ Loadable["memory"] = {Missing}
          BY <2>1, <3>4 DEF Alone, Providers
        <5>2. Loadable["fixed"] = {fixed} /\ Loadable["memory"] = {memory}
          BY DEF Loadable
        <5> QED  BY <5>1, <5>2
      <4>2. rows[w.path] = w.value
        BY <2>1, <2>3, <3>4 DEF Left
      <4>3. w.path = "a" \/ w.path = "a.b"
        BY <1>0 DEF Paths
      <4>4. view' \in LoadedRows
        BY <1>0, <3>1, <3>2, <4>2, <4>3, LoadedRowsAre
      <4> QED  BY <1>0, <4>1, <4>4, AgreesAlone, LoadedRowsAre
    <3> QED  BY <1>0, <2>1, <3>3, <3>4 DEF Left, Providers
  <2> QED  BY <1>3, <2>2, <2>3
<1>9. ViewInv'
  <2>1. diverged' = {} /\ (\A d \in ConfigCalls : ~Saving(d)') => Agrees(view)'
    BY <1>1, <1>7, <1>8, SameProviders DEF Agrees
  <2>2. ASSUME NEW d \in ConfigCalls, diverged' = {}, Saving(d)', ~config'[d].overlapped PROVE FALSE
    <3>1. d # c /\ Saving(d) /\ ~config[d].overlapped
      BY <1>7, <2>2
    <3> QED  BY <1>1, <1>2, <2>2, <3>1 DEF ConfigInv, OverlapInv, w
  <2> QED  BY <2>1, <2>2 DEF ViewInv
<1>10. WatchersAreTold'
  BY <1>a DEF WatchersAreTold
<1> QED  BY <1>7, <1>9, <1>10 DEF ConfigInv

LEMMA ReplaceViewInv ==
  ASSUME ConfigInv, NEW c \in ConfigCalls, ReplaceView(c)
  PROVE  ConfigInv'
<1> DEFINE l == config[c].loaded
<1>0. /\ ConfigTypes /\ fixed \in Trees /\ memory \in Trees /\ l \in [Providers -> Trees]
      /\ told \in [Paths -> Trees \cup {Scalar(0)}]
  BY ConfigFacts DEF ConfigInv, ConfigTypes
<1>1. /\ config[c].step = "loading" /\ config[c].unread = {} /\ Settles(c, "resolved")
      /\ view' = deepMerge(deepMerge(l["sqlite"], l["memory"]), l["fixed"])
      /\ untold' = Paths /\ UNCHANGED <<fixed, memory, rows, told, everHeld>>
      /\ diverged' = {} => ~config[c].overlapped
  BY DEF ReplaceView, loadMergedProviders
<1>2. /\ l["sqlite"] \in Trees /\ l["memory"] \in Trees /\ l["fixed"] \in Trees
      /\ leaves(l["sqlite"]) \subseteq everHeld /\ leaves(l["memory"]) \subseteq everHeld
      /\ leaves(l["fixed"]) \subseteq everHeld
  BY <1>0 DEF ConfigInv, HeldInv, Providers
<1>3. diverged' = {} => l["fixed"] = fixed /\ l["memory"] = memory /\ l["sqlite"] \in LoadedRows
  <2>1. diverged' = {} => \A q \in Providers : l[q] \in Loadable[q]
    BY <1>1 DEF ConfigInv, ReadInv
  <2>2. Loadable["fixed"] = {fixed} /\ Loadable["memory"] = {memory} /\ Loadable["sqlite"] = LoadedRows
    BY DEF Loadable
  <2>3. "fixed" \in Providers /\ "memory" \in Providers /\ "sqlite" \in Providers
    BY DEF Providers
  <2> QED  BY <2>1, <2>2, <2>3
<1> HIDE DEF l
<1>4. view' \in Trees /\ leaves(view') \subseteq everHeld
  BY <1>1, <1>2, MergeTypes
<1>5. /\ \A d \in ConfigCalls : /\ Saving(d)' <=> d # c /\ Saving(d)
                                /\ d # c => config'[d] = config[d]
      /\ OverlapInv' /\ LeftInv' /\ ReadInv' /\ HeldInv' /\ ConfigTypes'
  BY <1>0, <1>1, <1>4, CallEnds
<1>6. diverged' = {} => AgreesWith(view', fixed, memory, LoadedRows)
  BY <1>1, <1>2, <1>3, MergeIsPrecedence DEF AgreesWith
<1>7. ASSUME NEW d \in ConfigCalls, diverged' = {}, Saving(d), ~config[d].overlapped,
             config[d].op = "remove", config[d].path = "a.b", Alone(config[d])
      PROVE  AgreesWith(removeAtPath(view', "a.b"), fixed, memory, LoadedRows)
  <2>1. Left(config[d]) /\ config[d].provider \in Providers
    BY <1>0, <1>7, ConfigFacts DEF ConfigInv, LeftInv
  <2>2. CASE config[d].provider = "memory"
    <3>1. fixed = Missing /\ LoadedRows = {Missing}
      <4>1. Loadable["fixed"] = {Missing} /\ Loadable["sqlite"] = {Missing}
        BY <1>7, <2>2 DEF Alone, Providers
      <4>2. Loadable["fixed"] = {fixed} /\ Loadable["sqlite"] = LoadedRows
        BY DEF Loadable
      <4> QED  BY <4>1, <4>2
    <3>2. leaves(view') = leaves(memory)
      BY <1>0, <1>6, <1>7, <3>1, AgreesAlone
    <3>3. removeAtPath(memory, "a.b") = memory
      BY <1>7, <2>1, <2>2 DEF Left
    <3>4. leaves(removeAtPath(view', "a.b")) = leaves(memory)
      BY <1>0, <1>4, <3>2, <3>3, RemoveSame
    <3> QED  BY <1>0, <3>1, <3>4, AgreesAlone
  <2>3. CASE config[d].provider = "sqlite"
    <3>1. fixed = Missing /\ memory = Missing
      <4>1. Loadable["fixed"] = {Missing} /\ Loadable["memory"] = {Missing}
        BY <1>7, <2>3 DEF Alone, Providers
      <4>2. Loadable["fixed"] = {fixed} /\ Loadable["memory"] = {memory}
        BY DEF Loadable
      <4> QED  BY <4>1, <4>2
    <3>2. rows["a"] = 0 /\ rows["a.b"] = 0
      BY <1>7, <2>1, <2>3 DEF Left, Alone, Paths
    <3>3. LoadedRows \in SUBSET Trees /\ Missing \in LoadedRows /\ \A s \in LoadedRows : leaves(s) = {}
      BY <1>0, <3>2, LoadedRowsAre
    <3>4. leaves(view') = {}
      BY <1>0, <1>6, <1>7, <3>1, <3>3, AgreesAlone
    <3>5. leaves(removeAtPath(view', "a.b")) = {}
      BY <1>4, <3>4, RemoveFacts
    <3> QED  BY <1>0, <3>1, <3>3, <3>5, AgreesAlone
  <2> QED  BY <2>1, <2>2, <2>3 DEF Left, Providers
<1>8. ViewInv'
  <2>1. diverged' = {} /\ (\A d \in ConfigCalls : ~Saving(d)') => Agrees(view)'
    BY <1>1, <1>6, SameProviders DEF Agrees
  <2>2. ASSUME NEW d \in ConfigCalls, diverged' = {}, Saving(d)', ~config'[d].overlapped,
               config'[d].op = "remove", config'[d].path = "a.b", Alone(config[d])'
        PROVE  Agrees(removeAtPath(view, "a.b"))'
    <3>1. d # c /\ Saving(d) /\ config'[d] = config[d]
      BY <1>5, <2>2
    <3>2. Alone(config[d])
      BY <1>1, <2>2, <3>1, SameProviders DEF Alone
    <3>3. AgreesWith(removeAtPath(view', "a.b"), fixed, memory, LoadedRows)
      BY <1>7, <2>2, <3>1, <3>2
    <3> QED  BY <1>1, <3>3, SameProviders DEF Agrees
  <2> QED  BY <2>1, <2>2 DEF ViewInv
<1>9. WatchersAreTold'
  BY <1>1 DEF WatchersAreTold
<1> QED  BY <1>5, <1>8, <1>9 DEF ConfigInv

LEMMA ProviderWritesInv ==
  ASSUME ConfigInv, NEW c \in ConfigCalls, ProviderWrites(c)
  PROVE  ConfigInv'
<1> DEFINE w == config[c]
<1>0. /\ ConfigTypes /\ view \in Trees /\ fixed \in Trees /\ memory \in Trees
      /\ w \in ConfigRecords /\ w.path \in Paths /\ w.provider \in Providers
      /\ rows \in [Paths -> Values \cup {0}] /\ w.value \in Values \cup {0}
      /\ config \in [ConfigCalls -> ConfigRecords]
  BY ConfigFacts DEF ConfigInv, ConfigTypes
<1>1. /\ w.step = "checked" /\ w.provider # "fixed"
      /\ ~(w.op = "remove" /\ w.path = "a" /\ w.provider = "memory")
      /\ memory' = IF w.provider # "memory" THEN memory
                   ELSE IF w.op = "set" THEN setAtPath(memory, w.path, w.value)
                   ELSE removeAtPath(memory, w.path)
      /\ rows' = IF w.provider # "sqlite" THEN rows
                 ELSE [rows EXCEPT ![w.path] = IF w.op = "set" THEN w.value ELSE 0]
      /\ everHeld' = everHeld \cup (IF w.op = "set" THEN {<<w.path, w.value>>} ELSE {})
      /\ config' = [d \in ConfigCalls |->
           IF d = c THEN [w EXCEPT !.step = "saving"]
           ELSE IF config[d].step \in {"saving", "loading"} THEN [config[d] EXCEPT !.overlapped = TRUE]
           ELSE config[d]]
      /\ UNCHANGED <<fixed, view, told, untold, diverged>>
  BY DEF ProviderWrites
<1>2. /\ w.op \in {"set", "remove"} /\ (w.op = "set" => w.value \in Values)
      /\ w.path = "a" \/ w.path = "a.b"
  BY <1>0, <1>1 DEF ConfigTypes, Paths
<1>3. /\ config'[c] = [w EXCEPT !.step = "saving"] /\ config'[c] \in ConfigRecords
      /\ config'[c].step = "saving" /\ config'[c].op = w.op /\ config'[c].path = w.path
      /\ config'[c].value = w.value /\ config'[c].provider = w.provider
      /\ config'[c].loaded = w.loaded /\ config'[c].overlapped = w.overlapped
  BY <1>0, <1>1 DEF ConfigRecords, ConfigSteps
<1>4. \A d \in ConfigCalls : d # c =>
        /\ config'[d] \in ConfigRecords /\ config'[d].step = config[d].step /\ config'[d].op = config[d].op
        /\ config'[d].path = config[d].path /\ config'[d].value = config[d].value
        /\ config'[d].loaded = config[d].loaded
        /\ config[d].step \in {"saving", "loading"} => config'[d].overlapped = TRUE
  <2>1. ASSUME NEW d \in ConfigCalls, d # c, config[d].step \in {"saving", "loading"}
        PROVE  /\ config'[d] \in ConfigRecords /\ config'[d].step = config[d].step /\ config'[d].op = config[d].op
               /\ config'[d].path = config[d].path /\ config'[d].value = config[d].value
               /\ config'[d].loaded = config[d].loaded /\ config'[d].overlapped = TRUE
    <3>1. config'[d] = [config[d] EXCEPT !.overlapped = TRUE] /\ config[d] \in ConfigRecords
      BY <1>0, <1>1, <2>1
    <3> QED  BY <3>1 DEF ConfigRecords
  <2>2. ASSUME NEW d \in ConfigCalls, d # c, config[d].step \notin {"saving", "loading"}
        PROVE  config'[d] = config[d] /\ config[d] \in ConfigRecords
    BY <1>0, <1>1, <2>2
  <2> QED  BY <2>1, <2>2
<1>5. config' \in [ConfigCalls -> ConfigRecords]
  <2>1. DOMAIN config' = ConfigCalls /\ config' = [d \in ConfigCalls |-> config'[d]]
    BY <1>1
  <2> QED  BY <1>3, <1>4, <2>1
<1>6. memory' \in Trees /\ leaves(memory') \subseteq everHeld'
  <2>1. leaves(memory) \subseteq everHeld
    BY DEF ConfigInv, HeldInv
  <2>2. CASE w.provider # "memory"
    BY <1>0, <1>1, <2>1, <2>2
  <2>3. CASE w.provider = "memory" /\ w.op = "set"
    <3>1. memory' = setAtPath(memory, w.path, w.value) /\ <<w.path, w.value>> \in everHeld'
      BY <1>1, <2>3
    <3>2. w.path \in Paths /\ w.value \in Values
      BY <1>0, <1>2, <2>3
    <3> QED  BY <3>1, <3>2, SetFacts
  <2>4. CASE w.provider = "memory" /\ w.op = "remove"
    BY <1>0, <1>1, <1>2, <2>1, <2>4, RemoveFacts
  <2> QED  BY <1>2, <2>2, <2>3, <2>4
<1>7. /\ rows' \in [Paths -> Values \cup {0}]
      /\ \A p \in Paths : rows'[p] # 0 => <<p, rows'[p]>> \in everHeld'
      /\ w.provider = "sqlite" => /\ rows'[w.path] = IF w.op = "set" THEN w.value ELSE 0
                                  /\ \A p \in Paths : p # w.path => rows'[p] = rows[p]
      /\ w.provider # "sqlite" => rows' = rows
  <2>1. \A p \in Paths : rows[p] # 0 => <<p, rows[p]>> \in everHeld
    BY DEF ConfigInv, HeldInv
  <2>2. CASE w.provider # "sqlite"
    BY <1>0, <1>1, <2>1, <2>2
  <2>3. CASE w.provider = "sqlite"
    <3>1. /\ rows' \in [Paths -> Values \cup {0}]
          /\ rows'[w.path] = IF w.op = "set" THEN w.value ELSE 0
          /\ \A p \in Paths : p # w.path => rows'[p] = rows[p]
      BY <1>0, <1>1, <1>2, <2>3
    <3> QED  BY <1>1, <2>1, <2>3, <3>1
  <2> QED  BY <2>2, <2>3
<1> HIDE DEF w
<1>8. ConfigTypes'
  <2>1. ASSUME NEW d \in ConfigCalls, config'[d].step \in {"checked", "saving"}
        PROVE  /\ config'[d].op \in {"set", "remove"}
               /\ config'[d].op = "set" => config'[d].value \in Values
    <3>1. CASE d = c
      BY <1>2, <1>3, <3>1
    <3>2. CASE d # c
      BY <1>0, <1>4, <2>1, <3>2 DEF ConfigTypes
    <3> QED  BY <3>1, <3>2
  <2> QED  BY <1>0, <1>1, <1>5, <1>6, <1>7, <2>1 DEF ConfigTypes
<1>9. HeldInv'
  <2>1. leaves(fixed') \cup leaves(view') \subseteq everHeld'
    BY <1>1 DEF ConfigInv, HeldInv
  <2>2. ASSUME NEW d \in ConfigCalls
        PROVE  /\ \A q \in Providers : leaves(config'[d].loaded[q]) \subseteq everHeld'
               /\ config'[d].step = "saving" /\ config'[d].op = "set" =>
                    <<config'[d].path, config'[d].value>> \in everHeld'
    <3>1. CASE d = c
      BY <1>1, <1>3, <3>1 DEF ConfigInv, HeldInv, w
    <3>2. CASE d # c
      BY <1>1, <1>4, <3>2 DEF ConfigInv, HeldInv, Saving
    <3> QED  BY <3>1, <3>2
  <2> QED  BY <1>6, <1>7, <2>1, <2>2 DEF HeldInv, Saving
<1>10. \A d \in ConfigCalls : d # c /\ config'[d].step \in {"saving", "loading"} => config'[d].overlapped
  BY <1>4
<1>11. OverlapInv'
  BY <1>10 DEF OverlapInv, Saving
<1>12. Left(config[c])'
  <2>1. CASE w.op = "set"
    <3>1. \A t : setAtPath(t, w.path, w.value) = IF w.path = "a" THEN Scalar(w.value) ELSE Object(w.value)
      BY <1>0, <1>2, <2>1, SetFacts
    <3> QED  BY <1>0, <1>1, <1>3, <1>7, <2>1, <3>1 DEF Left
  <2>2. CASE w.op = "remove"
    BY <1>0, <1>1, <1>2, <1>3, <1>7, <2>2, RemoveFacts DEF Left
  <2> QED  BY <1>2, <2>1, <2>2
<1>13. LeftInv'
  BY <1>10, <1>12 DEF LeftInv, Saving
<1>14. ReadInv'
  BY <1>3, <1>10 DEF ReadInv
<1>15. ViewInv'
  <2>1. Saving(c)'
    BY <1>3 DEF Saving
  <2>2. ASSUME NEW d \in ConfigCalls, diverged' = {}, Saving(d)', ~config'[d].overlapped,
               \A e \in ConfigCalls \ {d} : ~Saving(e)',
               config'[d].op = "remove", config'[d].path = "a.b", Alone(config[d])'
        PROVE  Agrees(removeAtPath(view, "a.b"))'
    <3>1. d = c /\ w.op = "remove" /\ w.path = "a.b"
      BY <1>3, <1>10, <2>2 DEF Saving
    <3>2. \A e \in ConfigCalls : ~Saving(e)
      BY <1>1, <1>4, <2>2, <3>1 DEF Saving, w
    <3>3. AgreesWith(view, fixed, memory, LoadedRows)
      BY <1>1, <2>2, <3>2 DEF ConfigInv, ViewInv, Agrees
    <3>4. /\ \A q \in Providers \ {w.provider} : Loadable'[q] = {Missing}
          /\ w.provider = "sqlite" => \A p \in Paths \ {w.path} : rows'[p] = 0
      BY <1>3, <2>2, <3>1 DEF Alone
    <3>5. AgreesWith(removeAtPath(view, "a.b"), fixed', memory', LoadedRows')
      <4>1. CASE w.provider = "memory"
        <5>1. fixed = Missing /\ LoadedRows' = {Missing}
          <6>1. Loadable'["fixed"] = {Missing} /\ Loadable'["sqlite"] = {Missing}
            BY <3>4, <4>1 DEF Providers
          <6>2. Loadable'["fixed"] = {fixed'} /\ Loadable'["sqlite"] = LoadedRows'
            BY DEF Loadable
          <6> QED  BY <1>1, <6>1, <6>2
        <5>2. LoadedRows' = LoadedRows /\ memory' = removeAtPath(memory, "a.b")
          BY <1>1, <1>7, <3>1, <4>1 DEF LoadedRows
        <5>3. leaves(view) = leaves(memory)
          <6>1. AgreesWith(view, Missing, memory, {Missing})
            BY <3>3, <5>1, <5>2
          <6> QED  BY <1>0, <6>1, AgreesAlone
        <5>4. leaves(removeAtPath(view, "a.b")) = leaves(memory')
          BY <1>0, <5>2, <5>3, RemoveSame
        <5> QED  BY <1>1, <1>6, <5>1, <5>4, AgreesAlone
      <4>2. CASE w.provider = "sqlite"
        <5>1. fixed = Missing /\ memory = Missing /\ fixed' = Missing /\ memory' = Missing
          <6>1. Loadable'["fixed"] = {Missing} /\ Loadable'["memory"] = {Missing}
            BY <3>4, <4>2 DEF Providers
          <6>2. Loadable'["fixed"] = {fixed'} /\ Loadable'["memory"] = {memory'}
            BY DEF Loadable
          <6> QED  BY <1>1, <4>2, <6>1, <6>2
        <5>2. rows["a"] = 0 /\ rows'["a"] = 0 /\ rows'["a.b"] = 0
          BY <1>7, <3>1, <3>4, <4>2 DEF Paths
        <5>3. LoadedRows \in SUBSET Trees /\ \A s \in LoadedRows : s.kind # "scalar"
          BY <1>0, <5>2, LoadedRowsAre
        <5>4. PICK s \in LoadedRows : leaves(view) = leaves(s)
          BY <1>0, <3>3, <5>1, <5>3, AgreesAlone
        <5>5. leaves(removeAtPath(view, "a.b")) = {}
          BY <1>0, <5>3, <5>4, RemoveSame, RemoveFacts
        <5>6. rows' = [p \in Paths |-> 0]
          BY <1>7, <5>2 DEF Paths
        <5>7. Missing \in LoadedRows' /\ leaves(Missing) = {} /\ LoadedRows' \in SUBSET Trees
          BY <5>6, TreeFacts, LeavesAre DEF LoadedRows
        <5> QED  BY <1>0, <5>1, <5>5, <5>7, AgreesAlone
      <4> QED  BY <1>0, <1>1, <4>1, <4>2 DEF Providers
    <3> QED  BY <1>1, <3>5 DEF Agrees
  <2> QED  BY <2>1, <2>2 DEF ViewInv
<1>16. WatchersAreTold'
  BY <1>1 DEF ConfigInv, WatchersAreTold
<1> QED  BY <1>8, <1>9, <1>11, <1>13, <1>14, <1>15, <1>16 DEF ConfigInv

LEMMA ConfigInitInv == ASSUME ConfigInit PROVE ConfigInv
<1>0. /\ fixed \in Trees /\ memory \in Trees /\ rows \in [Paths -> Values \cup {0}] /\ rows \in [Paths -> {0, 1}]
  BY ConfigAssumption, TreeFacts DEF ConfigInit
<1>1. \A c \in ConfigCalls : config[c] = Idle /\ ~Saving(c) /\ config[c].step = "idle"
  BY DEF ConfigInit, Saving, Idle
<1>2. LoadedRows \in SUBSET Trees
  BY DEF LoadedRows
<1>3. \A s \in LoadedRows : \A l \in leaves(s) : l \in {<<p, rows[p]>> : p \in Paths}
  <2>1. ASSUME NEW s \in LoadedRows, NEW l \in leaves(s) PROVE l \in {<<p, rows[p]>> : p \in Paths}
    <3>1. \/ s = Missing
          \/ s = Scalar(rows["a"]) /\ rows["a"] # 0
          \/ s = Object(rows["a.b"]) /\ rows["a.b"] # 0
      BY DEF LoadedRows
    <3>2. "a" \in Paths /\ "a.b" \in Paths
      BY DEF Paths
    <3> QED  BY <2>1, <3>1, <3>2, TreeFacts DEF leaves
  <2> QED  BY <2>1
<1>4. /\ view \in Trees /\ leaves(view) \subseteq everHeld /\ untold \subseteq Paths
      /\ diverged = {} => Agrees(view)
      /\ WatchersAreTold
  <2>1. CASE view = Missing /\ untold = {} /\ diverged = {"unloaded"}
    <3>1. leaves(Missing) = {} /\ Missing \in Trees
      BY TreeFacts, LeavesAre
    <3>2. WatchersAreTold
      BY <2>1 DEF ConfigInit, WatchersAreTold
    <3> QED  BY <2>1, <3>1, <3>2
  <2>2. CASE /\ \E tree \in LoadedRows :
                  view = loadMergedProviders([fixed |-> fixed, memory |-> memory, sqlite |-> tree])
             /\ untold = Paths /\ diverged = {}
    <3>1. PICK tree \in LoadedRows : view = deepMerge(deepMerge(tree, memory), fixed)
      BY <2>2 DEF loadMergedProviders
    <3>2. view \in Trees /\ leaves(view) \subseteq leaves(tree) \cup leaves(memory) \cup leaves(fixed)
      BY <1>0, <1>2, <3>1, MergeTypes
    <3>3. leaves(view) \subseteq everHeld
      BY <1>3, <3>2 DEF ConfigInit
    <3>4. Agrees(view)
      BY <1>0, <1>2, <3>1, MergeIsPrecedence DEF Agrees, AgreesWith
    <3> QED  BY <2>2, <3>2, <3>3, <3>4 DEF WatchersAreTold
  <2> QED  BY <2>1, <2>2 DEF ConfigInit
<1>5. ConfigTypes
  <2>1. told \in [Paths -> Trees \cup {Scalar(0)}]
    BY TreeFacts DEF ConfigInit, getAtPath
  <2>2. config \in [ConfigCalls -> ConfigRecords]
    BY IdleFacts DEF ConfigInit
  <2> QED  BY <1>0, <1>1, <1>4, <2>1, <2>2 DEF ConfigTypes
<1>6. HeldInv
  <2>1. \A c \in ConfigCalls, q \in Providers : leaves(config[c].loaded[q]) = {}
    BY <1>1, IdleFacts
  <2>2. leaves(fixed) \cup leaves(memory) \subseteq everHeld
        /\ \A p \in Paths : <<p, rows[p]>> \in everHeld
    BY DEF ConfigInit
  <2> QED  BY <1>1, <1>4, <2>1, <2>2 DEF HeldInv
<1>7. OverlapInv /\ LeftInv /\ ReadInv /\ ViewInv
  BY <1>1, <1>4 DEF OverlapInv, LeftInv, ReadInv, ViewInv
<1> QED  BY <1>4, <1>5, <1>6, <1>7 DEF ConfigInv

LEMMA ConfigStepInv == ASSUME ConfigInv, ConfigNext PROVE ConfigInv'
BY QuietStepInv, ProviderWritesInv, WriteFailsInv, ApplyWriteInv, ReplaceViewInv DEF ConfigNext

LEMMA ConfigStutterInv == ASSUME ConfigInv, UNCHANGED configVars PROVE ConfigInv'
<1>1. LoadedRows' = LoadedRows /\ Loadable' = Loadable
  BY SameProviders DEF configVars
<1> QED
  BY <1>1 DEF configVars, ConfigInv, ConfigTypes, HeldInv, OverlapInv, LeftInv, Left, ReadInv, ViewInv,
              Agrees, Alone, Saving, WatchersAreTold

(* Whatever calls overlap and fail on their way: with no call under way and *)
(* none of the known ways to part, get() returns what the providers say in  *)
(* their precedence; it never returns what no provider has held; and a      *)
(* watcher was called with what get() returns, unless a reload, a write to  *)
(* an ancestor or a watcher that threw before its turn came in between      *)
(* (configuration/src/index.ts).                                            *)
THEOREM ConfigurationHolds == ConfigSpec => []ConfigurationIsHonest
<1>1. ConfigInit => ConfigInv
  BY ConfigInitInv
<1>2. ConfigInv /\ [ConfigNext]_configVars => ConfigInv'
  BY ConfigStepInv, ConfigStutterInv
<1>3. ConfigInv => ConfigurationIsHonest
  <2> SUFFICES ASSUME ConfigInv PROVE ConfigurationIsHonest
    OBVIOUS
  <2>1. ConfigTypeOK
    BY ConfigFacts DEF ConfigInv, ConfigTypes, ConfigTypeOK, ConfigSteps
  <2>2. NoPhantomValue /\ WatchersAreTold
    BY DEF ConfigInv, HeldInv, NoPhantomValue
  <2>3. quiet => \A c \in ConfigCalls : ~Saving(c)
    BY DEF quiet, Saving
  <2>4. ViewAgreesWithProviders
    BY <2>3 DEF ConfigInv, ViewInv, Agrees, AgreesWith, ViewAgreesWithProviders
  <2> QED  BY <2>1, <2>2, <2>4 DEF ConfigurationIsHonest
<1> QED  BY <1>1, <1>2, <1>3, PTL DEF ConfigSpec

-----------------------------------------------------------------------------
(* The plugins of an application.                                          *)

Positions == 1..Len(Order)
Sorted(s) == \A j, k \in 1..Len(s) : j <= k => s[j].prio >= s[k].prio

PluginTypes ==
  /\ manifest \in [Plugins -> [ids : SUBSET ContributionIds, hook : Hooks, depsOk : BOOLEAN]]
  /\ pstate \in [Plugins -> PluginStates]
  /\ reg \in [ContributionIds -> Seq(Registrations)]
  /\ app \in AppPhases /\ at \in 0..Len(Order)
  /\ bound \subseteq Plugins /\ busOpen \in BOOLEAN /\ rejects \in Nat

\* The registrations in s, their owners and the states of these.
Owner(p, s) == \E k \in 1..Len(s) : s[k].owner = p
Owns(p) == \E i \in ContributionIds : Owner(p, reg[i])

\* Where the plugins before the one at work, that one and the later ones are.
StartupInv ==
  /\ app \in {"installing", "registering", "activating"} => at > 0
  /\ app \in {"created", "installing"} => \A p \in Plugins : ~Owns(p)
  /\ app = "created" => \A k \in Positions : pstate[Order[k]] = "absent"
  /\ app = "installing" =>
       \A k \in Positions : pstate[Order[k]] = IF k < at THEN "installed" ELSE "absent"
  /\ app = "registering" =>
       \A k \in Positions :
         /\ pstate[Order[k]] = IF k < at THEN "registered" ELSE "installed"
         /\ k >= at => ~Owns(Order[k])
  /\ app = "activating" =>
       \A k \in Positions :
         IF k < at THEN pstate[Order[k]] \in {"activated", "deactivated"}
         ELSE pstate[Order[k]] = "registered"
  /\ app = "binding" => \A k \in Positions : pstate[Order[k]] \in {"activated", "deactivated"}
  /\ app \in {"activating", "binding"} => \A p \in Plugins : pstate[p] = "deactivated" => ~Owns(p)

\* The plugins behind the position are disposed, those before it are not yet.
DisposalInv ==
  /\ app \in {"failing", "disposing"} =>
       \A k \in Positions :
         IF k > at THEN pstate[Order[k]] \in {"absent", "disposed"} ELSE pstate[Order[k]] # "disposed"
  /\ app \in {"failed", "disposed"} => ~busOpen /\ \A p \in Plugins : pstate[p] \in {"absent", "disposed"}
  /\ app \notin {"failing", "disposing", "failed", "disposed"} =>
       \A p \in Plugins : pstate[p] # "disposed"

\* Nobody who is gone owns anything, as long as no dispose rejected.
OwnedInv ==
  rejects = 0 => \A p \in Plugins : pstate[p] \in {"absent", "disposed"} => ~Owns(p)

PluginInv ==
  /\ PluginTypes /\ StartupInv /\ DisposalInv /\ OwnedInv
  /\ \A i \in ContributionIds : Sorted(reg[i])
  /\ BoundAreActivated /\ ReverseDisposal

\* Induction up to N, over a set of numbers.
LEMMA UpTo ==
  ASSUME NEW N \in Nat, NEW P \in SUBSET (0..N), 0 \in P, \A n \in P : n < N => n + 1 \in P
  PROVE  P = 0..N
<1> SUFFICES ASSUME (0..N) \ P # {} PROVE FALSE
  OBVIOUS
<1>1. (0..N) \ P \in SUBSET Nat
  OBVIOUS
<1>2. PICK i \in (0..N) \ P : \A j \in (0..N) \ P : i <= j
  BY <1>1, LeastNumber
<1>3. i - 1 \in 0..N /\ i - 1 < i /\ i - 1 < N /\ (i - 1) + 1 = i
  BY <1>2
<1>4. i - 1 \in P
  BY <1>2, <1>3
<1> QED  BY <1>2, <1>3, <1>4

\* What the filter keeps of the first n registrations, for every n up to m.
Filters(g, m, s, T) ==
  g = [n \in 0..m |-> IF n = 0 THEN <<>> ELSE IF s[n] \in T THEN Append(g[n - 1], s[n]) ELSE g[n - 1]]

LEMMA FilterExists ==
  ASSUME NEW S, NEW s \in Seq(S), NEW T
  PROVE  \E g : Filters(g, Len(s), s, T)
<1> DEFINE P == {m \in 0..Len(s) : \E g : Filters(g, m, s, T)}
<1>1. 0 \in P
  <2>1. Filters([n \in 0..0 |-> <<>>], 0, s, T)
    BY DEF Filters
  <2> QED  BY <2>1
<1>2. ASSUME NEW m \in P, m < Len(s) PROVE m + 1 \in P
  <2>1. PICK g : Filters(g, m, s, T)
    OBVIOUS
  <2> DEFINE last == IF s[m + 1] \in T THEN Append(g[m], s[m + 1]) ELSE g[m]
             h == [n \in 0..(m + 1) |-> IF n = m + 1 THEN last ELSE g[n]]
  <2>2. m \in Nat /\ m + 1 \in 0..Len(s)
    BY <1>2
  <2>3. \A n \in 0..m : g[n] = IF n = 0 THEN <<>>
                               ELSE IF s[n] \in T THEN Append(g[n - 1], s[n]) ELSE g[n - 1]
    BY <2>1 DEF Filters
  <2>4. ASSUME NEW n \in 0..(m + 1)
        PROVE  h[n] = IF n = 0 THEN <<>>
                      ELSE IF s[n] \in T THEN Append(h[n - 1], s[n]) ELSE h[n - 1]
    <3>1. CASE n = m + 1
      <4>1. n # 0 /\ n - 1 = m /\ n - 1 \in 0..(m + 1) /\ n - 1 # m + 1
        BY <2>2, <3>1
      <4> QED  BY <3>1, <4>1
    <3>2. CASE n # m + 1
      <4>1. n \in 0..m /\ (n # 0 => n - 1 \in 0..m /\ n - 1 # m + 1 /\ n - 1 \in 0..(m + 1))
        BY <2>2, <3>2
      <4> QED  BY <2>3, <3>2, <4>1
    <3> QED  BY <3>1, <3>2
  <2>5. Filters(h, m + 1, s, T)
    <3> DEFINE H == [n \in 0..(m + 1) |-> IF n = 0 THEN <<>>
                      ELSE IF s[n] \in T THEN Append(h[n - 1], s[n]) ELSE h[n - 1]]
    <3>1. \A n \in 0..(m + 1) : h[n] = H[n]
      <4> HIDE DEF h
      <4> QED  BY <2>4
    <3>2. h = H
      BY <3>1
    <3> HIDE DEF h
    <3> QED  BY <3>2 DEF Filters
  <2> QED  BY <2>2, <2>5
<1>3. P = 0..Len(s)
  <2> HIDE DEF P
  <2>1. P \in SUBSET (0..Len(s))
    BY DEF P
  <2> QED  BY <1>1, <1>2, <2>1, UpTo, LenProperties
<1>4. Len(s) \in 0..Len(s)
  BY LenProperties
<1> QED  BY <1>3, <1>4

\* A filtered sequence has members of the sequence that are in T, in their order.
LEMMA OnlyKeeps ==
  ASSUME NEW S, NEW s \in Seq(S), NEW T, NEW f \in [S -> Nat],
         \A j, k \in 1..Len(s) : j <= k => f[s[j]] >= f[s[k]]
  PROVE  /\ Only(s, T) \in Seq(S)
         /\ \A k \in 1..Len(Only(s, T)) : Only(s, T)[k] \in T /\ \E j \in 1..Len(s) : Only(s, T)[k] = s[j]
         /\ \A j, k \in 1..Len(Only(s, T)) : j <= k => f[Only(s, T)[j]] >= f[Only(s, T)[k]]
<1> DEFINE g == CHOOSE g : Filters(g, Len(s), s, T)
           ok(t, n) == /\ t \in Seq(S)
                       /\ \A k \in 1..Len(t) : t[k] \in T /\ \E j \in 1..n : t[k] = s[j]
                       /\ \A j, k \in 1..Len(t) : j <= k => f[t[j]] >= f[t[k]]
           P == {n \in 0..Len(s) : ok(g[n], n)}
<1>1. Filters(g, Len(s), s, T)
  BY FilterExists
<1>2. Only(s, T) = g[Len(s)]
  BY DEF Only, Filters
<1> HIDE DEF g
<1>3. \A n \in 0..Len(s) : g[n] = IF n = 0 THEN <<>>
                                  ELSE IF s[n] \in T THEN Append(g[n - 1], s[n]) ELSE g[n - 1]
  BY <1>1 DEF Filters
<1>4. Len(s) \in Nat /\ Len(s) \in 0..Len(s) /\ 0 \in 0..Len(s)
  BY LenProperties
<1>5. 0 \in P
  <2>1. g[0] = <<>>
    BY <1>3, <1>4
  <2>2. <<>> \in Seq(S) /\ Len(<<>>) = 0
    BY EmptySeq
  <2>3. ok(<<>>, 0)
    BY <2>2
  <2> QED  BY <1>4, <2>1, <2>3
<1>6. ASSUME NEW n \in P, n < Len(s) PROVE n + 1 \in P
  <2>1. n \in Nat /\ n + 1 \in 0..Len(s) /\ n + 1 \in 1..Len(s) /\ (n + 1) - 1 = n /\ n + 1 # 0
    BY <1>4, <1>6
  <2>2. g[n + 1] = IF s[n + 1] \in T THEN Append(g[n], s[n + 1]) ELSE g[n]
    BY <1>3, <2>1
  <2>3. ok(g[n], n)
    OBVIOUS
  <2>4. s[n + 1] \in S
    BY <2>1, ElementOfSeq
  <2>5. CASE s[n + 1] \notin T
    <3>1. ok(g[n], n + 1)
      BY <2>1, <2>3
    <3> QED  BY <2>1, <2>2, <2>5, <3>1
  <2>6. CASE s[n + 1] \in T
    <3> DEFINE t == g[n]
               u == Append(g[n], s[n + 1])
    <3>1. /\ u \in Seq(S) /\ Len(u) = Len(t) + 1 /\ Len(t) \in Nat
          /\ \A k \in 1..Len(t) : u[k] = t[k]
          /\ u[Len(t) + 1] = s[n + 1]
      BY <2>3, <2>4, AppendProperties, LenProperties
    <3>2. \A k \in 1..Len(t) : t[k] \in T /\ \E j \in 1..n : t[k] = s[j]
      BY <2>3
    <3>3. \A k \in 1..Len(t) : f[t[k]] >= f[s[n + 1]]
      <4>1. \A j \in 1..n : j \in 1..Len(s) /\ j <= n + 1
        BY <2>1
      <4>2. \A j \in 1..n : f[s[j]] >= f[s[n + 1]]
        BY <2>1, <4>1
      <4> QED  BY <3>2, <4>2
    <3>4. \A k \in 1..Len(t) : t[k] \in S /\ f[t[k]] \in Nat
      BY <2>3, ElementOfSeq
    <3>5. \A j, k \in 1..Len(t) : j <= k => f[t[j]] >= f[t[k]]
      BY <2>3
    <3> HIDE DEF t, u
    <3>6. \A k \in 1..Len(u) : k \in 1..Len(t) \/ k = Len(t) + 1
      BY <3>1
    <3>7. \A k \in 1..Len(u) : u[k] \in T /\ \E j \in 1..(n + 1) : u[k] = s[j]
      <4>1. \A j \in 1..n : j \in 1..(n + 1)
        BY <2>1
      <4>2. n + 1 \in 1..(n + 1)
        BY <2>1
      <4> QED  BY <2>6, <3>1, <3>2, <3>6, <4>1, <4>2
    <3>8. ASSUME NEW j \in 1..Len(u), NEW k \in 1..Len(u), j <= k PROVE f[u[j]] >= f[u[k]]
      <4>1. CASE k \in 1..Len(t)
        <5>1. j \in 1..Len(t)
          BY <3>1, <3>8, <4>1
        <5> QED  BY <3>1, <3>5, <3>8, <4>1, <5>1
      <4>2. CASE k = Len(t) + 1 /\ j \in 1..Len(t)
        BY <3>1, <3>3, <4>2
      <4>3. CASE k = Len(t) + 1 /\ j = Len(t) + 1
        <5>1. f[s[n + 1]] \in Nat
          BY <2>4
        <5> QED  BY <3>1, <4>3, <5>1
      <4> QED  BY <3>6, <4>1, <4>2, <4>3
    <3>9. ok(u, n + 1)
      BY <3>1, <3>7, <3>8
    <3>10. g[n + 1] = u
      BY <2>2, <2>6 DEF u
    <3> QED  BY <2>1, <3>9, <3>10
  <2> QED  BY <2>5, <2>6
<1>7. P = 0..Len(s)
  <2> HIDE DEF P
  <2>1. P \in SUBSET (0..Len(s))
    BY DEF P
  <2> QED  BY <1>4, <1>5, <1>6, <2>1, UpTo
<1>8. ok(g[Len(s)], Len(s))
  BY <1>4, <1>7
<1> QED  BY <1>2, <1>8

-----------------------------------------------------------------------------
\* The priorities of a sequence of registrations.
LEMMA OnlySorted ==
  ASSUME NEW s \in Seq(Registrations), Sorted(s), NEW T
  PROVE  /\ Only(s, T) \in Seq(Registrations) /\ Sorted(Only(s, T))
         /\ \A k \in 1..Len(Only(s, T)) : Only(s, T)[k] \in T /\ \E j \in 1..Len(s) : Only(s, T)[k] = s[j]
<1> DEFINE f == [r \in Registrations |-> r.prio]
           o == Only(s, T)
<1>1. f \in [Registrations -> Nat]
  BY DEF Registrations
<1>2. \A t \in Seq(Registrations) : \A k \in 1..Len(t) : f[t[k]] = t[k].prio
  BY ElementOfSeq
<1>3. \A j, k \in 1..Len(s) : j <= k => f[s[j]] >= f[s[k]]
  BY <1>2 DEF Sorted
<1> HIDE DEF f, o
<1>4. /\ o \in Seq(Registrations)
      /\ \A k \in 1..Len(o) : o[k] \in T /\ \E j \in 1..Len(s) : o[k] = s[j]
      /\ \A j, k \in 1..Len(o) : j <= k => f[o[j]] >= f[o[k]]
  BY <1>1, <1>3, OnlyKeeps DEF o
<1>5. Sorted(o)
  BY <1>2, <1>4 DEF Sorted
<1> QED  BY <1>4, <1>5 DEF o

\* disposeOwner leaves the registrations of the others, in their order.
LEMMA WithoutOwner ==
  ASSUME NEW s \in Seq(Registrations), Sorted(s), NEW p
  PROVE  LET t == Only(s, {x \in Registrations : x.owner # p})
         IN /\ t \in Seq(Registrations) /\ Sorted(t) /\ ~Owner(p, t)
            /\ \A q \in Plugins : Owner(q, t) => Owner(q, s)
<1> DEFINE others == {x \in Registrations : x.owner # p}
           t == Only(s, others)
<1> HIDE DEF others
<1>1. /\ t \in Seq(Registrations) /\ Sorted(t)
      /\ \A k \in 1..Len(t) : t[k] \in others /\ \E j \in 1..Len(s) : t[k] = s[j]
  BY OnlySorted
<1>2. \A x \in others : x.owner # p
  BY DEF others
<1> HIDE DEF t
<1>3. ~Owner(p, t) /\ \A q \in Plugins : Owner(q, t) => Owner(q, s)
  BY <1>1, <1>2 DEF Owner
<1> QED  BY <1>1, <1>3 DEF t, others

\* register() keeps the registrations sorted; only the one who registers comes to them.
LEMMA RegisteredSorted ==
  ASSUME NEW s \in Seq(Registrations), Sorted(s), NEW r \in Registrations, NEW policy
  PROVE  /\ RegisterInto(s, r, policy) \in Seq(Registrations) /\ Sorted(RegisterInto(s, r, policy))
         /\ \A q \in Plugins : Owner(q, RegisterInto(s, r, policy)) => Owner(q, s) \/ q = r.owner
<1> DEFINE t == RegisterInto(s, r, policy)
<1>1. ASSUME t = <<r>> PROVE t \in Seq(Registrations) /\ Sorted(t) /\ \A q \in Plugins : Owner(q, t) => q = r.owner
  <2>1. <<r>> \in Seq(Registrations) /\ Len(<<r>>) = 1 /\ <<r>>[1] = r /\ r.prio \in Nat
    BY DEF Registrations
  <2>2. \A k \in 1..1 : k = 1
    OBVIOUS
  <2>3. r.prio >= r.prio
    BY <2>1
  <2> HIDE DEF t
  <2> QED  BY <1>1, <2>1, <2>2, <2>3 DEF Sorted, Owner
<1>2. CASE s = <<>> \/ policy = "replace"
  BY <1>1, <1>2 DEF RegisterInto
<1>3. CASE s # <<>> /\ policy # "replace" /\ policy # "chain"
  BY <1>3 DEF RegisterInto
<1>4. CASE s # <<>> /\ policy = "chain"
  <2> DEFINE high == {x \in Registrations : x.prio >= r.prio}
             low == {x \in Registrations : x.prio < r.prio}
             a == Only(s, high)
             b == Only(s, low)
             n == Len(a)
  <2>3. t = a \o <<r>> \o b
    BY <1>4 DEF RegisterInto
  <2>0. (\A x \in high : x.prio >= r.prio) /\ \A x \in low : x.prio < r.prio
    OBVIOUS
  <2> HIDE DEF high, low, t
  <2>1. /\ a \in Seq(Registrations) /\ Sorted(a)
        /\ \A k \in 1..Len(a) : a[k].prio >= r.prio /\ \E j \in 1..Len(s) : a[k] = s[j]
    <3>1. /\ a \in Seq(Registrations) /\ Sorted(a)
          /\ \A k \in 1..Len(a) : a[k] \in high /\ \E j \in 1..Len(s) : a[k] = s[j]
      BY OnlySorted
    <3> QED  BY <2>0, <3>1
  <2>2. /\ b \in Seq(Registrations) /\ Sorted(b)
        /\ \A k \in 1..Len(b) : b[k].prio < r.prio /\ \E j \in 1..Len(s) : b[k] = s[j]
    <3>1. /\ b \in Seq(Registrations) /\ Sorted(b)
          /\ \A k \in 1..Len(b) : b[k] \in low /\ \E j \in 1..Len(s) : b[k] = s[j]
      BY OnlySorted
    <3> QED  BY <2>0, <3>1
  <2> HIDE DEF a, b
  <2>4. n \in Nat /\ Len(b) \in Nat
    BY <2>1, <2>2, LenProperties
  <2>5. /\ t \in Seq(Registrations) /\ Len(t) = n + 1 + Len(b)
        /\ \A k \in 1..n : t[k] = a[k]
        /\ t[n + 1] = r
        /\ \A k \in 1..Len(b) : t[n + 1 + k] = b[k]
    BY <2>1, <2>2, <2>3, <2>4
  <2>6. ASSUME NEW k \in 1..Len(t)
        PROVE  k \in 1..n \/ k = n + 1 \/ (k - (n + 1) \in 1..Len(b) /\ n + 1 + (k - (n + 1)) = k)
    BY <2>4, <2>5
  <2>7. ASSUME NEW k \in 1..Len(t)
        PROVE  \/ k \in 1..n /\ t[k] = a[k]
               \/ k = n + 1 /\ t[k] = r
               \/ k - (n + 1) \in 1..Len(b) /\ t[k] = b[k - (n + 1)]
    BY <2>5, <2>6
  <2>8. ASSUME NEW q \in Plugins, Owner(q, t) PROVE Owner(q, s) \/ q = r.owner
    <3>1. PICK k \in 1..Len(t) : t[k].owner = q
      BY <2>8 DEF Owner
    <3>2. CASE k \in 1..n /\ t[k] = a[k]
      BY <2>1, <3>1, <3>2 DEF Owner
    <3>3. CASE k - (n + 1) \in 1..Len(b) /\ t[k] = b[k - (n + 1)]
      BY <2>2, <3>1, <3>3 DEF Owner
    <3> QED  BY <2>7, <3>1, <3>2, <3>3
  <2>9. r.prio \in Nat /\ (\A k \in 1..n : a[k].prio \in Nat) /\ \A k \in 1..Len(b) : b[k].prio \in Nat
    <3>1. \A x \in Registrations : x.prio \in Nat
      BY DEF Registrations
    <3>2. (\A k \in 1..n : a[k] \in Registrations) /\ \A k \in 1..Len(b) : b[k] \in Registrations
      BY <2>1, <2>2, ElementOfSeq
    <3> QED  BY <3>1, <3>2
  <2>10. ASSUME NEW j \in 1..Len(t), NEW k \in 1..Len(t), j <= k PROVE t[j].prio >= t[k].prio
    <3>1. CASE j \in 1..n /\ k \in 1..n
      BY <2>1, <2>5, <2>10, <3>1 DEF Sorted
    <3>2. CASE j \in 1..n /\ k = n + 1
      BY <2>1, <2>5, <3>2
    <3>3. CASE j \in 1..n /\ k - (n + 1) \in 1..Len(b)
      <4>1. t[j] = a[j] /\ t[k] = b[k - (n + 1)]
        BY SMTT(40), <2>5, <2>6, <3>3
      <4>2. a[j].prio >= r.prio /\ b[k - (n + 1)].prio < r.prio
        BY <2>1, <2>2, <3>3
      <4>3. a[j].prio \in Nat /\ b[k - (n + 1)].prio \in Nat
        BY <2>9, <3>3
      <4> QED  BY <2>9, <4>1, <4>2, <4>3
    <3>4. CASE j = n + 1 /\ k = n + 1
      BY <2>5, <2>9, <3>4
    <3>5. CASE j = n + 1 /\ k - (n + 1) \in 1..Len(b)
      <4>1. t[j] = r /\ t[k] = b[k - (n + 1)]
        BY SMTT(40), <2>5, <2>6, <3>5
      <4>2. b[k - (n + 1)].prio < r.prio /\ b[k - (n + 1)].prio \in Nat
        BY <2>2, <2>9, <3>5
      <4> QED  BY <2>9, <4>1, <4>2
    <3>6. CASE j - (n + 1) \in 1..Len(b) /\ k - (n + 1) \in 1..Len(b)
      <4>1. t[j] = b[j - (n + 1)] /\ t[k] = b[k - (n + 1)] /\ j - (n + 1) <= k - (n + 1)
        BY SMTT(40), <2>4, <2>5, <2>6, <2>10, <3>6
      <4> QED  BY <2>2, <3>6, <4>1 DEF Sorted
    <3> QED  BY <2>4, <2>6, <2>10, <3>1, <3>2, <3>3, <3>4, <3>5, <3>6
  <2> QED  BY <2>5, <2>8, <2>10 DEF Sorted, t
<1> QED  BY <1>2, <1>3, <1>4

-----------------------------------------------------------------------------
\* Plugins and positions are the same, one by one.
LEMMA OnePosition ==
  /\ Len(Order) \in Nat \ {0}
  /\ \A k \in Positions : Order[k] \in Plugins
  /\ \A p \in Plugins : \E k \in Positions : p = Order[k]
  /\ \A j, k \in Positions : Order[j] = Order[k] => j = k
  /\ \A k \in Positions : k \in Nat /\ 1 <= k /\ k <= Len(Order)
BY PluginAssumption DEF Plugins, Positions

LEMMA PluginInitInv == ASSUME PluginInit PROVE PluginInv
<1>1. ContributionIds \in {ContributionIds} /\ <<>> \in Seq(Registrations) /\ Len(<<>>) = 0
  BY EmptySeq
<1>2. \A i \in ContributionIds : reg[i] = <<>>
  BY DEF PluginInit
<1>3. (\A i \in ContributionIds : Sorted(reg[i])) /\ \A p \in Plugins : ~Owns(p)
  BY <1>1, <1>2 DEF Sorted, Owns, Owner
<1>4. reg \in [ContributionIds -> Seq(Registrations)]
  BY <1>1 DEF PluginInit
<1>5. 1 \in 0..Len(Order)
  BY OnePosition
<1>6. \A p \in Plugins : pstate[p] = "absent"
  BY DEF PluginInit
<1>7. pstate \in [Plugins -> PluginStates]
  BY DEF PluginInit, PluginStates
<1>8. PluginTypes
  BY <1>4, <1>5, <1>7 DEF PluginInit, PluginTypes, AppPhases
<1>9. app = "created" /\ rejects = 0
  BY DEF PluginInit
<1>10. StartupInv /\ DisposalInv /\ OwnedInv
  BY <1>3, <1>6, <1>9, OnePosition DEF StartupInv, DisposalInv, OwnedInv
<1>11. BoundAreActivated /\ ReverseDisposal
  BY <1>6, <1>9, OnePosition DEF BoundAreActivated, ReverseDisposal, Positions
<1> QED  BY <1>3, <1>8, <1>10, <1>11 DEF PluginInv

\* An error before anybody was disposed: the disposal starts from the end.
LEMMA FailInv ==
  ASSUME Fail, PluginTypes', OwnedInv', \A i \in ContributionIds : Sorted(reg'[i]),
         \A p \in Plugins : pstate'[p] # "disposed"
  PROVE  PluginInv'
<1>1. app' = "failing" /\ at' = Len(Order)
  BY DEF Fail
<1>2. ASSUME NEW k \in Positions PROVE ~(k > Len(Order))
  <2>1. k \in Nat /\ k <= Len(Order) /\ Len(Order) \in Nat
    BY OnePosition
  <2> QED  BY <2>1
<1>3. StartupInv' /\ DisposalInv'
  BY <1>1, <1>2, OnePosition DEF StartupInv, DisposalInv
<1>4. BoundAreActivated' /\ ReverseDisposal'
  BY <1>1, OnePosition DEF BoundAreActivated, ReverseDisposal, Positions
<1> QED  BY <1>3, <1>4 DEF PluginInv

\* No phase of the startup has a disposed plugin.
LEMMA EarlyInv ==
  ASSUME PluginTypes', OwnedInv', StartupInv', \A i \in ContributionIds : Sorted(reg'[i]),
         \A p \in Plugins : pstate'[p] # "disposed",
         app' \in {"created", "installing", "registering", "activating", "binding"}
  PROVE  PluginInv'
<1>1. DisposalInv'
  BY DEF DisposalInv
<1>2. BoundAreActivated' /\ ReverseDisposal'
  BY OnePosition DEF BoundAreActivated, ReverseDisposal, Positions
<1> QED  BY <1>1, <1>2 DEF PluginInv

\* A phase of the startup goes on with the next plugin or to the next phase.
LEMMA AdvanceTo ==
  ASSUME PluginTypes, at > 0, NEW here, NEW next, Advance(here, next)
  PROVE  /\ at \in Positions /\ Order[at] \in Plugins /\ at' \in 0..Len(Order) /\ at' > 0
         /\ \/ app' = next /\ at' = 1 /\ \A k \in Positions : k < at \/ k = at
            \/ app' = here /\ at' = at + 1
BY OnePosition DEF PluginTypes, Advance, Positions

LEMMA CreateInv == ASSUME PluginInv, Create PROVE PluginInv'
<1>1. PluginTypes /\ StartupInv /\ OwnedInv /\ DisposalInv /\ app = "created"
  BY DEF PluginInv, Create
<1>2. UNCHANGED <<manifest, pstate, reg, bound, busOpen, rejects>>
  BY DEF Create
<1>3. at' \in 0..Len(Order) /\ app' \in AppPhases
  BY OnePosition DEF Create, Fail, AppPhases
<1>4. PluginTypes'
  BY <1>1, <1>2, <1>3 DEF PluginTypes
<1>5. /\ OwnedInv' /\ \A i \in ContributionIds : Sorted(reg'[i])
      /\ \A p \in Plugins : pstate'[p] # "disposed"
  BY <1>1, <1>2 DEF PluginInv, OwnedInv, Owns, DisposalInv
<1>6. CASE Fail
  BY <1>4, <1>5, <1>6, FailInv
<1>7. CASE app' = "installing" /\ at' = 1
  <2>1. ASSUME NEW k \in Positions PROVE ~(k < 1)
    <3>1. k \in Nat /\ 1 <= k
      BY OnePosition
    <3> QED  BY <3>1
  <2>2. StartupInv'
    BY <1>1, <1>2, <1>7, <2>1 DEF StartupInv, Owns
  <2> QED  BY <1>4, <1>5, <1>7, <2>2, EarlyInv
<1> QED  BY <1>6, <1>7 DEF Create

LEMMA InstallInv == ASSUME PluginInv, Install PROVE PluginInv'
<1>1. PluginTypes /\ StartupInv /\ OwnedInv /\ DisposalInv /\ app = "installing" /\ at > 0
  BY DEF PluginInv, Install, StartupInv
<1>2. UNCHANGED <<manifest, reg, bound, busOpen, rejects>> /\ pstate' = [pstate EXCEPT ![Order[at]] = "installed"]
  BY DEF Install
<1>3. at \in Positions /\ Order[at] \in Plugins
  BY <1>1, OnePosition DEF PluginTypes, Positions
<1>4. at' \in 0..Len(Order) /\ app' \in AppPhases
  BY <1>1, AdvanceTo, OnePosition DEF Install, Fail, AppPhases
<1>5. PluginTypes'
  BY <1>1, <1>2, <1>3, <1>4 DEF PluginTypes, PluginStates
<1>6. \A p \in Plugins : ~Owns(p)' /\ pstate'[p] # "disposed"
  BY <1>1, <1>2, <1>3 DEF StartupInv, Owns, DisposalInv, PluginTypes
<1>7. OwnedInv' /\ \A i \in ContributionIds : Sorted(reg'[i])
  BY <1>2, <1>6 DEF PluginInv, OwnedInv
<1>8. CASE Fail
  BY <1>5, <1>6, <1>7, <1>8, FailInv
<1>9. CASE Advance("installing", "registering")
  <2>1. \A k \in Positions : pstate'[Order[k]] = IF k <= at THEN "installed" ELSE "absent"
    <3>1. \A k \in Positions : pstate[Order[k]] = IF k < at THEN "installed" ELSE "absent"
      BY <1>1 DEF StartupInv
    <3>2. \A k \in Positions : k # at => Order[k] # Order[at]
      BY <1>3, OnePosition
    <3> QED  BY <1>1, <1>2, <1>3, <3>1, <3>2, OnePosition DEF PluginTypes, Positions
  <2>2. CASE app' = "registering" /\ at' = 1 /\ \A k \in Positions : k < at \/ k = at
    <3>1. \A k \in Positions : ~(k < 1) /\ k <= at
      BY <1>3, <2>2, OnePosition DEF Positions
    <3>2. \A k \in Positions : pstate'[Order[k]] = "installed" /\ ~Owns(Order[k])'
      BY <1>6, <2>1, <3>1, OnePosition
    <3> QED  BY <1>5, <1>6, <1>7, <2>2, <3>1, <3>2, EarlyInv DEF StartupInv
  <2>3. CASE app' = "installing" /\ at' = at + 1
    <3>1. \A k \in Positions : (k <= at) = (k < at')
      BY <1>3, <2>3, OnePosition DEF Positions
    <3>2. at' > 0
      BY <1>3, <2>3, OnePosition DEF Positions
    <3> QED  BY <1>5, <1>6, <1>7, <2>1, <2>3, <3>1, <3>2, EarlyInv DEF StartupInv
  <2> QED  BY <1>1, <1>9, <2>2, <2>3, AdvanceTo
<1> QED  BY <1>8, <1>9 DEF Install

\* After the registrations of a plugin the others own what they owned.
LEMMA ManifestRegistered ==
  ASSUME PluginTypes, NEW p \in Plugins, NEW ids \in SUBSET ContributionIds,
         \A i \in ContributionIds : Sorted(reg[i])
  PROVE  LET m == AfterManifest(p, ids)
         IN /\ m \in [ContributionIds -> Seq(Registrations)]
            /\ \A i \in ContributionIds :
                 Sorted(m[i]) /\ \A q \in Plugins : Owner(q, m[i]) => Owner(q, reg[i]) \/ q = p
<1> DEFINE r == [owner |-> p, prio |-> 0]
<1>1. r \in Registrations /\ r.owner = p
  BY DEF Registrations
<1>2. \A i \in ContributionIds : reg[i] \in Seq(Registrations)
  BY DEF PluginTypes
<1> HIDE DEF r
<1>3. \A i \in ContributionIds :
        /\ RegisterInto(reg[i], r, "reject") \in Seq(Registrations)
        /\ Sorted(RegisterInto(reg[i], r, "reject"))
        /\ \A q \in Plugins : Owner(q, RegisterInto(reg[i], r, "reject")) => Owner(q, reg[i]) \/ q = p
  BY <1>1, <1>2, RegisteredSorted
<1>4. AfterManifest(p, ids) =
        [i \in ContributionIds |-> IF i \in ids THEN RegisterInto(reg[i], r, "reject") ELSE reg[i]]
  BY DEF AfterManifest, r
<1> QED  BY <1>2, <1>3, <1>4

\* What disposeOwner leaves: nothing of the plugin, unless a dispose rejected.
LEMMA DisposedOwner ==
  ASSUME PluginTypes, NEW p, NEW keep, \A i \in ContributionIds : Sorted(reg[i])
  PROVE  LET m == Without(p, keep)
         IN /\ m \in [ContributionIds -> Seq(Registrations)]
            /\ \A i \in ContributionIds :
                 /\ Sorted(m[i])
                 /\ \A q \in Plugins : Owner(q, m[i]) => Owner(q, reg[i])
                 /\ i \notin keep => ~Owner(p, m[i])
<1> DEFINE others(s) == Only(s, {x \in Registrations : x.owner # p})
<1>1. \A i \in ContributionIds : reg[i] \in Seq(Registrations)
  BY DEF PluginTypes
<1>2. \A s \in Seq(Registrations) : Sorted(s) =>
        /\ others(s) \in Seq(Registrations) /\ Sorted(others(s)) /\ ~Owner(p, others(s))
        /\ \A q \in Plugins : Owner(q, others(s)) => Owner(q, s)
  BY WithoutOwner
<1>3. Without(p, keep) = [i \in ContributionIds |-> IF i \in keep THEN reg[i] ELSE others(reg[i])]
  BY DEF Without
<1> HIDE DEF others
<1> QED  BY <1>1, <1>2, <1>3

LEMMA RegisterInv == ASSUME PluginInv, RegisterPlugin PROVE PluginInv'
<1> DEFINE p == Order[at]
           h == manifest[p].hook
           m == AfterManifest(p, manifest[p].ids)
<1>1. /\ PluginTypes /\ StartupInv /\ OwnedInv /\ DisposalInv /\ app = "registering" /\ at > 0
      /\ \A i \in ContributionIds : Sorted(reg[i])
  BY DEF PluginInv, RegisterPlugin, StartupInv
<1>2. at \in Positions /\ p \in Plugins
  BY <1>1, OnePosition DEF PluginTypes, Positions
<1>3. UNCHANGED <<manifest, bound, busOpen, rejects>>
  BY DEF RegisterPlugin
<1>4. manifest[p].ids \in SUBSET ContributionIds /\ h \in Hooks
  BY <1>1, <1>2 DEF PluginTypes
<1>5. \A q \in Plugins : pstate[q] \notin {"absent", "disposed"}
  BY <1>1, OnePosition DEF StartupInv
<1>6. /\ m \in [ContributionIds -> Seq(Registrations)]
      /\ \A i \in ContributionIds :
           Sorted(m[i]) /\ \A q \in Plugins : Owner(q, m[i]) => Owner(q, reg[i]) \/ q = p
  BY <1>1, <1>2, <1>4, ManifestRegistered
<1> DEFINE good(g) ==
             /\ g \in [ContributionIds -> Seq(Registrations)]
             /\ \A i \in ContributionIds :
                  Sorted(g[i]) /\ \A q \in Plugins : Owner(q, g[i]) => Owner(q, reg[i]) \/ q = p
<1>7. good(reg)
  BY <1>1 DEF PluginTypes
<1>8. ASSUME good(reg'), Fail, UNCHANGED pstate PROVE PluginInv'
  <2>1. app' \in AppPhases /\ at' \in 0..Len(Order)
    BY <1>8, OnePosition DEF Fail, AppPhases
  <2>2. PluginTypes'
    BY <1>1, <1>3, <1>8, <2>1 DEF PluginTypes
  <2>3. OwnedInv' /\ \A q \in Plugins : pstate'[q] # "disposed"
    BY <1>5, <1>8 DEF OwnedInv
  <2> QED  BY <1>8, <2>2, <2>3, FailInv
<1>9. ASSUME good(reg'), pstate' = [pstate EXCEPT ![p] = "registered"], Advance("registering", "activating")
      PROVE  PluginInv'
  <2>1. app' \in AppPhases /\ at' \in 0..Len(Order) /\ at' > 0
    BY <1>1, <1>9, AdvanceTo DEF AppPhases
  <2>2. PluginTypes'
    BY <1>1, <1>2, <1>3, <1>9, <2>1 DEF PluginTypes, PluginStates
  <2>3. \A k \in Positions :
          /\ pstate'[Order[k]] = IF k <= at THEN "registered" ELSE "installed"
          /\ k > at => ~Owns(Order[k])'
    <3>1. \A k \in Positions :
            /\ pstate[Order[k]] = IF k < at THEN "registered" ELSE "installed"
            /\ k >= at => ~Owns(Order[k])
      BY <1>1 DEF StartupInv
    <3>2. \A k \in Positions : (k # at => Order[k] # p) /\ Order[k] \in Plugins
      BY <1>2, OnePosition
    <3>3. \A k \in Positions : pstate'[Order[k]] = IF k = at THEN "registered" ELSE pstate[Order[k]]
      BY <1>1, <1>9, <3>2 DEF PluginTypes
    <3>4. \A k \in Positions : k # at /\ Owns(Order[k])' => Owns(Order[k])
      BY <1>9, <3>2 DEF Owns
    <3>5. ASSUME NEW k \in Positions
          PROVE  (k <= at <=> k < at \/ k = at) /\ (k > at => k >= at /\ k # at)
      <4>1. k \in Nat /\ at \in Nat
        BY <1>2, OnePosition
      <4> QED  BY <4>1
    <3> QED  BY <3>1, <3>3, <3>4, <3>5
  <2>4. OwnedInv' /\ \A q \in Plugins : pstate'[q] # "disposed"
    BY <1>1, <1>2, <1>5, <1>9 DEF OwnedInv, PluginTypes
  <2>5. CASE app' = "activating" /\ at' = 1 /\ \A k \in Positions : k < at \/ k = at
    <3>1. \A k \in Positions : ~(k < 1) /\ k <= at
      BY <1>2, <2>5, OnePosition
    <3>2. \A q \in Plugins : pstate'[q] = "registered"
      BY <2>3, <3>1, OnePosition
    <3> QED  BY <1>9, <2>2, <2>4, <2>5, <3>1, <3>2, OnePosition, EarlyInv DEF StartupInv
  <2>6. CASE app' = "registering" /\ at' = at + 1
    <3>1. \A k \in Positions : (k <= at) = (k < at') /\ (k >= at' => k > at)
      BY <1>2, <2>6, OnePosition
    <3> QED  BY <1>9, <2>1, <2>2, <2>3, <2>4, <2>6, <3>1, EarlyInv DEF StartupInv
  <2> QED  BY <1>1, <1>9, <2>5, <2>6, AdvanceTo
<1>10. CASE ~manifest[p].depsOk /\ Fail /\ UNCHANGED <<reg, pstate>>
  BY <1>7, <1>8, <1>10
<1>11. CASE /\ \E accepted \in SUBSET {i \in manifest[p].ids : reg[i] = <<>>} : reg' = AfterManifest(p, accepted)
            /\ Fail /\ UNCHANGED pstate
  <2>1. PICK accepted \in SUBSET {i \in manifest[p].ids : reg[i] = <<>>} : reg' = AfterManifest(p, accepted)
    BY <1>11
  <2>2. accepted \in SUBSET ContributionIds
    BY <1>4
  <2>3. good(reg')
    BY <1>1, <1>2, <2>1, <2>2, ManifestRegistered
  <2> QED  BY <1>8, <1>11, <2>3
<1>12. CASE /\ IF h.id \in ContributionIds
               THEN /\ reg' = [m EXCEPT ![h.id] = RegisterInto(@, [owner |-> p, prio |-> h.prio], h.policy)]
                    /\ IF h.policy = "reject" /\ m[h.id] # <<>> THEN Fail /\ UNCHANGED pstate
                       ELSE /\ pstate' = [pstate EXCEPT ![p] = "registered"]
                            /\ Advance("registering", "activating")
               ELSE /\ reg' = m /\ pstate' = [pstate EXCEPT ![p] = "registered"]
                    /\ Advance("registering", "activating")
  <2>1. good(m)
    BY <1>6
  <2>2. good(reg')
    <3>1. CASE h.id \in ContributionIds
      <4> DEFINE r == [owner |-> p, prio |-> h.prio]
                 t == RegisterInto(m[h.id], r, h.policy)
      <4>1. r \in Registrations /\ r.owner = p
        BY <1>2, <1>4 DEF Registrations, Hooks, NoHook
      <4>2. reg' = [m EXCEPT ![h.id] = t]
        BY <1>12, <3>1
      <4>3. m[h.id] \in Seq(Registrations) /\ Sorted(m[h.id])
        BY <2>1, <3>1
      <4> HIDE DEF r, m, h, p
      <4>4. /\ t \in Seq(Registrations) /\ Sorted(t)
            /\ \A q \in Plugins : Owner(q, t) => Owner(q, m[h.id]) \/ q = p
        BY <4>1, <4>3, RegisteredSorted
      <4> HIDE DEF t
      <4> QED  BY <2>1, <3>1, <4>2, <4>4
    <3>2. CASE h.id \notin ContributionIds
      BY <1>12, <2>1, <3>2
    <3> QED  BY <3>1, <3>2
  <2> HIDE DEF good
  <2> QED  BY <1>8, <1>9, <1>12, <2>2
<1> QED  BY <1>10, <1>11, <1>12 DEF RegisterPlugin

LEMMA ActivateInv == ASSUME PluginInv, Activate PROVE PluginInv'
<1>1. /\ PluginTypes /\ StartupInv /\ OwnedInv /\ DisposalInv /\ app = "activating" /\ at > 0
      /\ \A i \in ContributionIds : Sorted(reg[i])
  BY DEF PluginInv, Activate, StartupInv
<1>2. PICK p \in Plugins : at \in Positions /\ p = Order[at]
  BY <1>1, OnePosition DEF PluginTypes, Positions
<1>3. UNCHANGED <<manifest, bound, busOpen>>
  BY DEF Activate
<1>4. \A k \in Positions :
        IF k < at THEN pstate[Order[k]] \in {"activated", "deactivated"} ELSE pstate[Order[k]] = "registered"
  BY <1>1 DEF StartupInv
<1>5. \A q \in Plugins : pstate[q] \notin {"absent", "disposed"}
  BY <1>4, OnePosition
<1>6. \A q \in Plugins : pstate[q] = "deactivated" => ~Owns(q)
  BY <1>1 DEF StartupInv
<1>7. ASSUME reg' \in [ContributionIds -> Seq(Registrations)], \A i \in ContributionIds : Sorted(reg'[i]),
             Fail, rejects' \in Nat, \/ UNCHANGED pstate
                                     \/ pstate' = [pstate EXCEPT ![p] = "deactivated"]
      PROVE  PluginInv'
  <2>1. app' \in AppPhases /\ at' \in 0..Len(Order)
    BY <1>7, OnePosition DEF Fail, AppPhases
  <2>2. \A q \in Plugins : pstate'[q] \notin {"absent", "disposed"}
    BY <1>1, <1>2, <1>5, <1>7 DEF PluginTypes
  <2>3. PluginTypes'
    BY <1>1, <1>2, <1>3, <1>7, <2>1 DEF PluginTypes, PluginStates
  <2> QED  BY <1>7, <2>2, <2>3, FailInv DEF OwnedInv
<1>8. ASSUME reg' \in [ContributionIds -> Seq(Registrations)], \A i \in ContributionIds : Sorted(reg'[i]),
             \A q \in Plugins : Owns(q)' => Owns(q),
             NEW state \in {"activated", "deactivated"}, pstate' = [pstate EXCEPT ![p] = state],
             state = "deactivated" => ~Owns(p)',
             Advance("activating", "binding"), UNCHANGED rejects
      PROVE  PluginInv'
  <2>1. app' \in AppPhases /\ at' \in 0..Len(Order) /\ at' > 0
    BY <1>1, <1>8, AdvanceTo DEF AppPhases
  <2>2. PluginTypes'
    BY <1>1, <1>2, <1>3, <1>8, <2>1 DEF PluginTypes, PluginStates
  <2>3. \A q \in Plugins : pstate'[q] = IF q = p THEN state ELSE pstate[q]
    BY <1>1, <1>2, <1>8 DEF PluginTypes
  <2>4. \A q \in Plugins : pstate'[q] \notin {"absent", "disposed"}
    BY <1>5, <2>3
  <2>5. \A q \in Plugins : pstate'[q] = "deactivated" => ~Owns(q)'
    BY <1>6, <1>8, <2>3
  <2>6. \A k \in Positions : IF k < at \/ k = at THEN pstate'[Order[k]] \in {"activated", "deactivated"}
                             ELSE pstate'[Order[k]] = "registered"
    <3>1. \A k \in Positions : (k # at => Order[k] # p) /\ Order[k] \in Plugins
      BY <1>2, OnePosition
    <3> QED  BY <1>2, <1>4, <1>8, <2>3, <3>1
  <2>7. OwnedInv'
    BY <2>4 DEF OwnedInv
  <2>8. CASE app' = "binding" /\ \A k \in Positions : k < at \/ k = at
    BY <1>8, <2>2, <2>4, <2>5, <2>6, <2>7, <2>8, EarlyInv DEF StartupInv
  <2>9. CASE app' = "activating" /\ at' = at + 1
    <3>1. ASSUME NEW k \in Positions PROVE (k < at \/ k = at) <=> k < at'
      <4>1. k \in Nat /\ at \in Nat
        BY <1>2, OnePosition
      <4> QED  BY <2>9, <4>1
    <3> QED  BY <1>8, <2>1, <2>2, <2>4, <2>5, <2>6, <2>7, <2>9, <3>1, EarlyInv DEF StartupInv
  <2> QED  BY <1>1, <1>8, <2>8, <2>9, AdvanceTo
<1>9. CASE /\ pstate' = [pstate EXCEPT ![p] = "activated"] /\ Advance("activating", "binding")
           /\ UNCHANGED <<reg, rejects>>
  <2>1. reg' \in [ContributionIds -> Seq(Registrations)] /\ \A i \in ContributionIds : Sorted(reg'[i])
    BY <1>1, <1>9 DEF PluginTypes
  <2>2. \A q \in Plugins : Owns(q)' => Owns(q)
    BY <1>9 DEF Owns
  <2> QED  BY <1>8, <1>9, <2>1, <2>2
<1>10. CASE /\ pstate' = [pstate EXCEPT ![p] = "deactivated"]
            /\ reg' = Without(p, {}) /\ Advance("activating", "binding") /\ UNCHANGED rejects
  <2>1. /\ reg' \in [ContributionIds -> Seq(Registrations)]
        /\ \A i \in ContributionIds :
             /\ Sorted(reg'[i])
             /\ \A q \in Plugins : Owner(q, reg'[i]) => Owner(q, reg[i])
             /\ ~Owner(p, reg'[i])
    BY <1>1, <1>10, DisposedOwner
  <2>2. (\A q \in Plugins : Owns(q)' => Owns(q)) /\ ~Owns(p)'
    BY <2>1 DEF Owns
  <2> QED  BY <1>8, <1>10, <2>1, <2>2
<1>11. CASE /\ pstate' = [pstate EXCEPT ![p] = "deactivated"] /\ rejects' = rejects + 1
            /\ \E keep \in SUBSET Owned(p) : reg' = Without(p, keep)
            /\ Fail
  <2>1. PICK keep \in SUBSET Owned(p) : reg' = Without(p, keep)
    BY <1>11
  <2>2. reg' \in [ContributionIds -> Seq(Registrations)] /\ \A i \in ContributionIds : Sorted(reg'[i])
    BY <1>1, <2>1, DisposedOwner
  <2>3. rejects' \in Nat
    BY <1>1, <1>11 DEF PluginTypes
  <2> QED  BY <1>7, <1>11, <2>2, <2>3
<1>12. CASE Fail /\ UNCHANGED <<reg, pstate, rejects>>
  <2>1. reg' \in [ContributionIds -> Seq(Registrations)] /\ \A i \in ContributionIds : Sorted(reg'[i])
    BY <1>1, <1>12 DEF PluginTypes
  <2>2. rejects' \in Nat
    BY <1>1, <1>12 DEF PluginTypes
  <2> QED  BY <1>7, <1>12, <2>1, <2>2
<1> QED  BY <1>2, <1>9, <1>10, <1>11, <1>12 DEF Activate

LEMMA BindInv == ASSUME PluginInv, Bind PROVE PluginInv'
<1>1. /\ PluginTypes /\ StartupInv /\ OwnedInv /\ DisposalInv /\ app = "binding"
      /\ \A i \in ContributionIds : Sorted(reg[i])
  BY DEF PluginInv, Bind
<1>2. UNCHANGED <<manifest, pstate, reg, busOpen, rejects>>
  BY DEF Bind
<1>3. bound' = {q \in Plugins : Owns(q)}
  <2>1. ASSUME NEW i \in ContributionIds, NEW k \in 1..Len(reg[i]) PROVE reg[i][k].owner \in Plugins
    <3>1. reg[i] \in Seq(Registrations)
      BY <1>1 DEF PluginTypes
    <3>2. reg[i][k] \in Registrations
      BY <3>1, ElementOfSeq
    <3> QED  BY <3>2 DEF Registrations
  <2> QED  BY <2>1 DEF Bind, Owns, Owner
<1>4. \A q \in Plugins : Owns(q) => pstate[q] = "activated"
  BY <1>1, OnePosition DEF StartupInv
<1>5. \A q \in Plugins : pstate[q] \notin {"absent", "disposed"}
  BY <1>1, OnePosition DEF StartupInv
<1>6. at' \in 0..Len(Order) /\ app' \in AppPhases
  BY OnePosition DEF Bind, Fail, AppPhases
<1>7. PluginTypes'
  BY <1>1, <1>2, <1>3, <1>6 DEF PluginTypes
<1>8. OwnedInv' /\ \A i \in ContributionIds : Sorted(reg'[i])
  BY <1>1, <1>2, <1>5 DEF OwnedInv
<1>9. CASE Fail
  BY <1>2, <1>5, <1>7, <1>8, <1>9, FailInv
<1>10. CASE app' = "ready"
  <2>1. StartupInv' /\ DisposalInv'
    BY <1>2, <1>5, <1>10 DEF StartupInv, DisposalInv
  <2>2. BoundAreActivated' /\ ReverseDisposal'
    BY <1>2, <1>3, <1>4, <1>5, OnePosition DEF BoundAreActivated, ReverseDisposal, Positions
  <2> QED  BY <1>7, <1>8, <2>1, <2>2 DEF PluginInv
<1> QED  BY <1>9, <1>10 DEF Bind

LEMMA DisposeAppInv == ASSUME PluginInv, DisposeApp PROVE PluginInv'
<1>1. /\ PluginTypes /\ OwnedInv /\ DisposalInv /\ app = "ready"
      /\ \A i \in ContributionIds : Sorted(reg[i])
  BY DEF PluginInv, DisposeApp
<1>2. UNCHANGED <<manifest, pstate, reg, bound, busOpen, rejects>> /\ app' = "disposing" /\ at' = Len(Order)
  BY DEF DisposeApp
<1>3. PluginTypes'
  BY <1>1, <1>2, OnePosition DEF PluginTypes, AppPhases
<1>4. OwnedInv' /\ (\A i \in ContributionIds : Sorted(reg'[i])) /\ \A q \in Plugins : pstate'[q] # "disposed"
  BY <1>1, <1>2 DEF OwnedInv, Owns, DisposalInv
<1>5. ASSUME NEW k \in Positions PROVE ~(k > Len(Order))
  <2>1. k \in Nat /\ k <= Len(Order) /\ Len(Order) \in Nat
    BY OnePosition
  <2> QED  BY <2>1
<1>6. StartupInv' /\ DisposalInv'
  BY <1>2, <1>4, <1>5, OnePosition DEF StartupInv, DisposalInv
<1>7. BoundAreActivated' /\ ReverseDisposal'
  BY <1>2, <1>4, OnePosition DEF BoundAreActivated, ReverseDisposal, Positions
<1> QED  BY <1>3, <1>4, <1>6, <1>7 DEF PluginInv

LEMMA DisposePluginInv == ASSUME PluginInv, DisposePlugin PROVE PluginInv'
<1>1. /\ PluginTypes /\ OwnedInv /\ DisposalInv /\ app \in {"failing", "disposing"} /\ at > 0
      /\ \A i \in ContributionIds : Sorted(reg[i])
  BY DEF PluginInv, DisposePlugin
<1>2. PICK p \in Plugins : at \in Positions /\ p = Order[at]
  BY <1>1, OnePosition DEF PluginTypes, Positions
<1>3. UNCHANGED <<manifest, app, bound, busOpen>> /\ at' = at - 1
  BY DEF DisposePlugin
<1>4. at' \in 0..Len(Order)
  BY <1>1, <1>3 DEF PluginTypes
<1>5. \A k \in Positions :
        IF k > at THEN pstate[Order[k]] \in {"absent", "disposed"} ELSE pstate[Order[k]] # "disposed"
  BY <1>1 DEF DisposalInv
<1>6. ASSUME NEW k \in Positions PROVE (k > at' <=> k > at \/ k = at) /\ ~(k > at /\ k = at)
  <2>1. k \in Nat /\ at \in Nat
    BY <1>2, OnePosition
  <2> QED  BY <1>3, <2>1
<1>7. \A k \in Positions : (k # at => Order[k] # p) /\ Order[k] \in Plugins
  BY <1>2, OnePosition
<1>8. ASSUME reg' \in [ContributionIds -> Seq(Registrations)], \A i \in ContributionIds : Sorted(reg'[i]),
             rejects' \in Nat, rejects' = 0 => rejects = 0,
             \A q \in Plugins : Owns(q)' => Owns(q), rejects' = 0 => ~Owns(p)',
             pstate' \in [Plugins -> PluginStates], \A q \in Plugins : q # p => pstate'[q] = pstate[q],
             pstate'[p] \in {"absent", "disposed"}
      PROVE  PluginInv'
  <2>1. PluginTypes'
    BY <1>1, <1>3, <1>4, <1>8 DEF PluginTypes
  <2>2. StartupInv'
    BY <1>1, <1>3 DEF StartupInv
  <2>3. DisposalInv'
    <3>1. \A k \in Positions :
            IF k > at' THEN pstate'[Order[k]] \in {"absent", "disposed"} ELSE pstate'[Order[k]] # "disposed"
      BY <1>2, <1>5, <1>6, <1>7, <1>8
    <3> QED  BY <1>1, <1>3, <3>1 DEF DisposalInv
  <2>4. OwnedInv'
    BY <1>1, <1>8 DEF OwnedInv
  <2>5. ReverseDisposal'
    <3>1. ASSUME NEW j \in Positions, NEW k \in Positions, j < k, pstate'[Order[j]] = "disposed"
          PROVE  pstate'[Order[k]] \in {"absent", "disposed"}
      <4>1. j > at \/ j = at
        BY <1>5, <1>7, <1>8, <3>1
      <4>2. j \in Nat /\ k \in Nat /\ at \in Nat
        BY <1>2, OnePosition
      <4>3. k > at /\ k # at
        BY <3>1, <4>1, <4>2
      <4> QED  BY <1>5, <1>7, <1>8, <4>3
    <3> QED  BY <3>1 DEF ReverseDisposal, Positions
  <2>6. BoundAreActivated'
    BY <1>1, <1>3 DEF BoundAreActivated
  <2> QED  BY <1>8, <2>1, <2>2, <2>3, <2>4, <2>5, <2>6 DEF PluginInv
<1>9. CASE pstate[p] = "absent" /\ UNCHANGED <<pstate, reg, rejects>>
  <2>1. (\A q \in Plugins : Owns(q)' => Owns(q)) /\ (rejects' = 0 => ~Owns(p)')
    BY <1>1, <1>9 DEF Owns, OwnedInv
  <2>2. /\ reg' \in [ContributionIds -> Seq(Registrations)] /\ \A i \in ContributionIds : Sorted(reg'[i])
        /\ rejects' \in Nat /\ pstate' \in [Plugins -> PluginStates]
    BY <1>1, <1>9 DEF PluginTypes
  <2> QED  BY <1>8, <1>9, <2>1, <2>2
<1>10. CASE /\ pstate' = [pstate EXCEPT ![p] = "disposed"]
            /\ \/ reg' = Without(p, {}) /\ UNCHANGED rejects
               \/ /\ rejects' = rejects + 1
                  /\ \E keep \in SUBSET Owned(p) : reg' = Without(p, keep)
  <2>1. /\ pstate' \in [Plugins -> PluginStates] /\ pstate'[p] = "disposed"
        /\ \A q \in Plugins : q # p => pstate'[q] = pstate[q]
    BY <1>1, <1>10 DEF PluginTypes, PluginStates
  <2>2. PICK keep : /\ reg' = Without(p, keep)
                    /\ (keep = {} /\ rejects' = rejects) \/ rejects' = rejects + 1
    BY <1>10
  <2>3. /\ reg' \in [ContributionIds -> Seq(Registrations)]
        /\ \A i \in ContributionIds :
             /\ Sorted(reg'[i])
             /\ \A q \in Plugins : Owner(q, reg'[i]) => Owner(q, reg[i])
             /\ i \notin keep => ~Owner(p, reg'[i])
    BY <1>1, <2>2, DisposedOwner
  <2>4. rejects' \in Nat /\ (rejects' = 0 => rejects = 0 /\ keep = {})
    BY <1>1, <2>2 DEF PluginTypes
  <2>5. (\A q \in Plugins : Owns(q)' => Owns(q)) /\ (rejects' = 0 => ~Owns(p)')
    BY <2>3, <2>4 DEF Owns
  <2> QED  BY <1>8, <2>1, <2>3, <2>4, <2>5
<1> QED  BY <1>2, <1>9, <1>10 DEF DisposePlugin

LEMMA CloseInv == ASSUME PluginInv, CloseRuntime PROVE PluginInv'
<1>1. /\ PluginTypes /\ OwnedInv /\ DisposalInv /\ app \in {"failing", "disposing"} /\ at = 0
      /\ ReverseDisposal /\ \A i \in ContributionIds : Sorted(reg[i])
  BY DEF PluginInv, CloseRuntime
<1>2. UNCHANGED <<manifest, pstate, reg, at, bound, rejects>> /\ busOpen' = FALSE /\ app' \in {"failed", "disposed"}
  BY DEF CloseRuntime
<1>3. \A k \in Positions : pstate[Order[k]] \in {"absent", "disposed"}
  <2>1. ASSUME NEW k \in Positions PROVE k > at
    <3>1. k \in Nat /\ 1 <= k
      BY OnePosition
    <3> QED  BY <1>1, <3>1
  <2> QED  BY <1>1, <2>1 DEF DisposalInv
<1>4. \A q \in Plugins : pstate'[q] \in {"absent", "disposed"}
  BY <1>2, <1>3, OnePosition
<1>5. PluginTypes'
  BY <1>1, <1>2 DEF PluginTypes, AppPhases
<1>6. StartupInv' /\ DisposalInv'
  BY <1>2, <1>4 DEF StartupInv, DisposalInv
<1>7. OwnedInv' /\ ReverseDisposal' /\ BoundAreActivated' /\ \A i \in ContributionIds : Sorted(reg'[i])
  BY <1>1, <1>2 DEF OwnedInv, Owns, ReverseDisposal, BoundAreActivated
<1> QED  BY <1>5, <1>6, <1>7 DEF PluginInv

LEMMA PluginStutters == ASSUME PluginInv, UNCHANGED pluginVars PROVE PluginInv'
BY DEF PluginInv, PluginTypes, StartupInv, DisposalInv, OwnedInv, Owns, BoundAreActivated, ReverseDisposal,
       pluginVars

LEMMA PluginInvImplies == ASSUME PluginInv PROVE PluginsEndClean
<1>1. PluginTypes /\ DisposalInv /\ OwnedInv /\ \A i \in ContributionIds : Sorted(reg[i])
  BY DEF PluginInv
<1>2. ASSUME NEW i \in ContributionIds PROVE reg[i] \in Seq(Registrations) /\ Len(reg[i]) \in Nat
  BY <1>1 DEF PluginTypes
<1>3. ASSUME NEW i \in ContributionIds, NEW k \in 1..Len(reg[i])
      PROVE  reg[i][k].owner \in Plugins /\ reg[i][1].prio >= reg[i][k].prio
  <2>1. reg[i][k] \in Registrations
    BY <1>2, ElementOfSeq
  <2>2. 1 \in 1..Len(reg[i]) /\ 1 <= k
    BY <1>2
  <2> QED  BY <1>1, <2>1, <2>2 DEF Sorted, Registrations
<1>4. PluginTypeOK /\ HighestPriorityFirst
  BY <1>1, <1>3 DEF PluginTypes, PluginTypeOK, HighestPriorityFirst
<1>5. ASSUME \A p \in Plugins : ~Owns(p), NEW i \in ContributionIds PROVE reg[i] = <<>>
  <2>1. SUFFICES ASSUME Len(reg[i]) # 0 PROVE FALSE
    BY <1>2, EmptySeq
  <2>2. 1 \in 1..Len(reg[i])
    BY <1>2, <2>1
  <2> QED  BY <1>3, <1>5, <2>2 DEF Owns, Owner
<1>6. EndIsClean
  BY <1>1, <1>5 DEF EndIsClean, DisposalInv, OwnedInv
<1> QED  BY <1>4, <1>6 DEF PluginInv, PluginsEndClean

(* Wherever the startup of an application fails, the plugins installed are  *)
(* disposed in reverse order and nothing they contributed stays or is used: *)
(* PluginManager, GenericExtensionRegistry and the catch block of           *)
(* createKioskApplicationRuntime.                                           *)
THEOREM PluginsAreTakenDown == PluginSpec => []PluginsEndClean
<1>1. PluginInit => PluginInv
  BY PluginInitInv
<1>2. PluginInv /\ [PluginNext]_pluginVars => PluginInv'
  BY CreateInv, InstallInv, RegisterInv, ActivateInv, BindInv, DisposeAppInv, DisposePluginInv, CloseInv,
     PluginStutters DEF PluginNext, PluginStep
<1>3. PluginInv => PluginsEndClean
  BY PluginInvImplies
<1> QED
  BY <1>1, <1>2, <1>3, PTL DEF PluginSpec
=============================================================================
