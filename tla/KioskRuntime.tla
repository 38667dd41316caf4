---------------------------- MODULE KioskRuntime ----------------------------
(***************************************************************************)
(* The customer operation of a kiosk: CustomerOperationCoordinator and      *)
(* KioskRuntime (kiosk-runtime), the command registry that calls them, the  *)
(* durable operation ledger (kiosk-base) and the contact card contribution  *)
(* of the example application.  Ledger and audit writes may be refused and  *)
(* the process may crash at any await.  The UI makes a new intent id for    *)
(* every click, so an intent is submitted again only in the process that    *)
(* made it.                                                                 *)
(***************************************************************************)
EXTENDS Naturals, FiniteSets

CONSTANTS
  Intents,       \* intent ids, also the idempotency keys of the ledger
  NoIntent,      \* no intent
  CardIntents,   \* intents that use the contact card entry (physical custody)
  Reconciles,    \* intents whose entry has a reconcile() function
  Calls,         \* calls of the command withdrawal.start
  Kinds,         \* authentication challenges
  Mandatory,     \* kinds options.mandatoryAuthentication asks for
  Budget,        \* attempt budget of an input stage
  MaxRefreshes,  \* bound: health polls that change the capabilities
  MaxKioskFaults,     \* bound: ledger or audit writes that are refused, exits that throw
  MaxCrashes     \* bound: crashes of the process

ASSUME KioskAssumption ==
  /\ NoIntent \notin Intents /\ CardIntents \subseteq Intents
  /\ Mandatory \subseteq Kinds /\ Budget \in Nat

VARIABLES
  up,            \* the runtime: down, recovering, evaluating, ready
  todo,          \* records recover() has still to visit
  startup,       \* startupRecoveryStatus
  readiness,     \* [status, avail]: the last readiness evaluation
  caps,          \* status of the device capability
  refresh,       \* refreshCapabilities(): idle, evaluating, waiting
  polling,       \* the health timer is armed
  call,          \* [Calls -> [pc, intent]]
  op,            \* the active operation
  ledger,        \* [Intents -> [status, custody]], durable
  custody,       \* mediaCustody of the operation view
  intervention,  \* the coordinator's intervention flag
  answered,      \* intents with a stored command result
  unanswered,    \* history: intents with a run() that rejected, which stores none
  old,           \* intents of earlier processes
  reader,        \* intent whose card is in the reader or at its exit
  done,          \* history: business completions per intent
  passed,        \* history: challenges passed per intent
  unseen,        \* history: operations whose card is not on a record (cardIn cut
                 \* short or refused) or on one recovery does not visit
  slipped,       \* history: intents whose call was checked before a refresh ended
  refreshes, kioskFaults, crashes

runVars == <<up, todo, startup, readiness, caps, refresh, polling>>
envVars == <<answered, unanswered, old, slipped, refreshes, crashes>>
kioskVars == <<runVars, call, op, ledger, custody, intervention, reader, done,
               passed, unseen, kioskFaults, envVars>>

LedgerStatus == {"absent", "started", "completed", "failed", "abandoned", "intervention"}
Custodies == {"none", "acquired", "returned", "retained", "unknown"}
OpPcs == {"idle", "starting", "acquiring", "cardIn", "assessed", "prepared",
          "authenticating", "processing", "resolving", "applying", "recording",
          "auditing", "exiting", "wedged"}

NoOp == [intent |-> NoIntent, pc |-> "idle", aborted |-> FALSE, path |-> "try",
         plan |-> {}, attempts |-> 0, res |-> "none", rejected |-> FALSE]
Active == op.intent # NoIntent

KioskInit ==
  /\ up = "down" /\ todo = {} /\ startup = "ready"
  /\ readiness = [status |-> "failed", avail |-> {}]
  /\ caps = "available" /\ refresh = "idle" /\ polling = FALSE
  /\ call = [c \in Calls |-> [pc |-> "idle", intent |-> NoIntent]]
  /\ op = NoOp
  /\ ledger = [i \in Intents |-> [status |-> "absent", custody |-> "none"]]
  /\ custody = "none" /\ intervention = FALSE
  /\ answered = {} /\ unanswered = {} /\ old = {}
  /\ reader = NoIntent
  /\ done = [i \in Intents |-> 0] /\ passed = [i \in Intents |-> {}]
  /\ unseen = {} /\ slipped = {}
  /\ refreshes = 0 /\ kioskFaults = 0 /\ crashes = 0

\* A ledger or audit write is refused.
Refused == kioskFaults < MaxKioskFaults /\ kioskFaults' = kioskFaults + 1

-----------------------------------------------------------------------------
(* Startup: barrier, recovery of unfinished operations, readiness *)

\* listActive(): unfinished records and unresolved interventions.
ListActive == {i \in Intents : ledger[i].status \in {"started", "intervention"}}

\* passRecoveryStartupBarrier(): the launcher and the cash recovery say whether
\* customers may be served; their answer is kept until the next start.
Boot(s) ==
  /\ up = "down"
  /\ up' = "recovering" /\ todo' = ListActive /\ startup' = s
  /\ UNCHANGED <<readiness, caps, refresh, polling, call, op, ledger, custody,
                 intervention, reader, done, passed, unseen, kioskFaults, envVars>>

\* Mutant: the wait for the customer is taken for the customer.
ReturnCardHopeful ==
  IF reader = NoIntent THEN {<<"returned", NoIntent>>}
  ELSE {<<"returned", NoIntent>>, <<"returned", reader>>}

\* returnHostdCard(): the media status, eject, the wait for the customer and
\* retention; a command that fails leaves the custody unknown.
ReturnCard ==
  IF reader = NoIntent THEN {<<"returned", NoIntent>>}
  ELSE {<<"returned", NoIntent>>, <<"retained", NoIntent>>,
        <<"unknown", NoIntent>>, <<"unknown", reader>>}

\* recover(): a record without media in custody is abandoned; otherwise the
\* entry's reconcile() decides, and no answer marks an intervention.  A refused
\* write rejects initialize().
RecoverRecord(i) ==
  /\ up = "recovering" /\ i \in todo
  /\ \/ /\ ledger[i].custody \in {"none", "returned", "retained"}
        /\ ledger' = [ledger EXCEPT ![i].status = "abandoned"]
        /\ UNCHANGED <<intervention, reader>>
     \/ /\ ledger[i].custody \notin {"none", "returned", "retained"}
        /\ \E r \in IF i \in Reconciles THEN ReturnCard ELSE {<<"unknown", reader>>} :
             /\ reader' = r[2]
             /\ intervention' = (intervention \/ r[1] = "unknown")
             /\ ledger' = [ledger EXCEPT ![i] =
                  [status |-> IF r[1] = "unknown" THEN "intervention" ELSE "abandoned",
                   custody |-> r[1]]]
  /\ todo' = todo \ {i}
  /\ UNCHANGED <<up, startup, readiness, caps, refresh, polling, call, op, custody,
                 done, passed, unseen, kioskFaults, envVars>>

RecoverFails ==
  /\ up = "recovering" /\ todo # {} /\ Refused
  /\ up' = "down" /\ todo' = {} /\ intervention' = FALSE
  /\ UNCHANGED <<startup, readiness, caps, refresh, polling, call, op, ledger,
                 custody, reader, done, passed, unseen, envVars>>

\* evaluateReadiness(): entries whose capabilities are available, and the
\* status: intervention before the startup barrier before the capabilities.
Evaluate ==
  LET avail == IF caps = "available" THEN Intents ELSE Intents \ CardIntents
  IN [avail |-> avail,
      status |-> CASE intervention -> "intervention"
                   [] ~intervention /\ startup # "ready" -> startup
                   [] OTHER -> IF avail = {} THEN "failed"
                               ELSE IF avail = Intents THEN "ready" ELSE "degraded"]

\* initialize() ends: readiness is published and the health timer is armed.
Initialized ==
  /\ up = "recovering" /\ todo = {}
  /\ up' = "ready" /\ readiness' = Evaluate /\ polling' = TRUE
  /\ UNCHANGED <<todo, startup, caps, refresh, call, op, ledger, custody,
                 intervention, reader, done, passed, unseen, kioskFaults, envVars>>

-----------------------------------------------------------------------------
(* Capabilities *)

\* refreshCapabilities(): the snapshot is replaced before readiness is known.
RefreshBegin(v) ==
  /\ up = "ready" /\ polling /\ refresh = "idle" /\ refreshes < MaxRefreshes
  /\ v # caps
  /\ caps' = v /\ refresh' = "evaluating" /\ refreshes' = refreshes + 1
  /\ polling' = (v # "unavailable")
  /\ UNCHANGED <<up, todo, startup, readiness, call, op, ledger, custody, intervention,
                 reader, done, passed, unseen, kioskFaults, answered, unanswered, old, slipped, crashes>>

\* Readiness is published and an active operation that needs a lost capability
\* is interrupted; the refresh then waits for its end.
RefreshEnd ==
  /\ up = "ready" /\ refresh = "evaluating"
  /\ readiness' = Evaluate
  /\ IF caps = "unavailable" /\ op.intent \in CardIntents
     THEN op' = [op EXCEPT !.aborted = TRUE] /\ refresh' = "waiting"
     ELSE UNCHANGED op /\ refresh' = "idle"
  /\ slipped' = slipped \cup {call[c].intent : c \in {d \in Calls : call[d].pc = "checked"}}
  /\ UNCHANGED <<up, todo, startup, caps, polling, call, ledger, custody, intervention,
                 reader, done, passed, unseen, kioskFaults, answered, unanswered, old, refreshes, crashes>>

-----------------------------------------------------------------------------
(* The command withdrawal.start *)

Running == {call[c].intent : c \in {d \in Calls : call[d].pc = "executing"}}

\* Mutant: a stored result is not looked up.
ExecuteAgain(c, i) ==
  /\ up = "ready" /\ call[c].pc = "idle" /\ i \notin old
  /\ call' = [call EXCEPT ![c] = [intent |-> i, pc |->
       CASE i \in Running -> "executing"
         [] OTHER -> IF i \in readiness.avail /\ ~Active THEN "checked" ELSE "done"]]
  /\ UNCHANGED <<runVars, op, ledger, custody, intervention, reader, done, passed,
                 unseen, kioskFaults, envVars>>

\* CommandRegistry.execute(): a stored result or a running execution of the
\* same key answers the call; otherwise canExecute() looks at the published
\* readiness and at the coordinator.
Execute(c, i) ==
  /\ up = "ready" /\ call[c].pc = "idle" /\ i \notin old
  /\ call' = [call EXCEPT ![c] = [intent |-> i, pc |->
       CASE i \in answered -> "done"
         [] i \notin answered /\ i \in Running -> "executing"
         [] OTHER -> IF /\ readiness.status \notin {"recovering", "intervention"}
                        /\ i \in readiness.avail /\ ~Active
                     THEN "checked" ELSE "done"]]
  /\ UNCHANGED <<runVars, op, ledger, custody, intervention, reader, done, passed,
                 unseen, kioskFaults, envVars>>

\* CustomerOperationCoordinator.start(): an intervention or another operation
\* refuses the call, the same intent joins the active one.
Begin(c) ==
  /\ call[c].pc = "checked"
  /\ IF ~intervention /\ ~Active
     THEN /\ op' = [NoOp EXCEPT !.intent = call[c].intent, !.pc = "starting"]
          /\ call' = [call EXCEPT ![c].pc = "executing"]
     ELSE /\ UNCHANGED op
          /\ call' = [call EXCEPT ![c].pc =
               IF ~intervention /\ op.intent = call[c].intent THEN "executing" ELSE "done"]
  /\ UNCHANGED <<runVars, ledger, custody, intervention, reader, done, passed,
                 unseen, kioskFaults, envVars>>

-----------------------------------------------------------------------------
(* run(): the operation *)

\* A checked call reaches start() within the same burst of microtasks; the
\* operation waits for a customer, a device or a disk.
Settled == \A c \in Calls : call[c].pc # "checked"
At(l) == Active /\ op.pc = l /\ Settled
Stage(l) == op' = [op EXCEPT !.pc = l]
\* An error inside the try block; one inside the catch block rejects run().
Throw == op' = IF op.path = "try" THEN [op EXCEPT !.pc = "resolving", !.path = "catch"]
               ELSE [op EXCEPT !.pc = "exiting", !.rejected = TRUE]
Write(rec) == ledger' = [ledger EXCEPT ![op.intent] = rec]
Record == ledger[op.intent]

\* ledger.start() and the first audit record, before the try block: a refusal
\* rejects run() and leaves the coordinator's active operation set.  A record
\* that exists (the intent's first run was rejected) stays as it is, so that
\* recovery does not see the second run.
OpStart ==
  /\ At("starting")
  /\ \/ /\ Write(IF Record.status = "absent" THEN [status |-> "started", custody |-> "none"]
                 ELSE Record)
        /\ unseen' = IF Record.status \in {"absent", "started"} THEN unseen
                     ELSE unseen \cup {op.intent}
        /\ custody' = "none" /\ Stage("acquiring")
        /\ UNCHANGED <<call, kioskFaults>>
     \/ /\ Refused /\ Stage("wedged")
        /\ call' = [c \in Calls |-> IF call[c].pc = "executing"
                                    THEN [call[c] EXCEPT !.pc = "done"] ELSE call[c]]
        /\ UNCHANGED <<ledger, custody, unseen>>
  /\ UNCHANGED <<runVars, intervention, reader, done, passed, envVars>>

\* acquire(): the customer inserts the card, or identifies without one.
CustomerIdentifies ==
  /\ At("acquiring") /\ ~op.aborted
  /\ IF op.intent \in CardIntents
     THEN reader = NoIntent /\ reader' = op.intent /\ Stage("cardIn")
     ELSE UNCHANGED reader /\ Stage("assessed")
  /\ UNCHANGED <<runVars, call, ledger, custody, intervention, done, passed, unseen,
                 kioskFaults, envVars>>

\* setMediaCustody("acquired"): the ledger first, then the view.
CardAcquired ==
  /\ At("cardIn")
  /\ \/ /\ Write([Record EXCEPT !.custody = "acquired"])
        /\ custody' = "acquired" /\ Stage("assessed") /\ UNCHANGED <<unseen, kioskFaults>>
     \/ /\ Refused /\ Throw
        /\ unseen' = unseen \cup {op.intent} /\ UNCHANGED <<ledger, custody>>
  /\ UNCHANGED <<runVars, call, intervention, reader, done, passed, envVars>>

\* prepareOperation(): the amount is entered; an invalid entry consumes an
\* attempt, and the budget ends the stage.
AmountEntered ==
  /\ At("assessed") /\ ~op.aborted
  /\ \/ Stage("prepared")
     \/ IF op.attempts + 1 > Budget THEN Throw
        ELSE op' = [op EXCEPT !.attempts = @ + 1]
  /\ UNCHANGED <<runVars, call, ledger, custody, intervention, reader, done, passed,
                 unseen, kioskFaults, envVars>>

\* mergeRequirements(): the mandatory kinds are part of every plan.
MergeRequirements(assessed) == assessed \cup Mandatory

\* build(): the plan is frozen, unless a challenge's capability is missing.
BuildPlan(assessed) ==
  /\ At("prepared") /\ ~op.aborted
  /\ \/ /\ caps # "available" /\ MergeRequirements(assessed) # {} /\ Throw
        /\ UNCHANGED kioskFaults
     \/ /\ caps = "available" \/ MergeRequirements(assessed) = {}
        /\ op' = [op EXCEPT !.pc = "authenticating", !.plan = MergeRequirements(assessed)]
        /\ UNCHANGED kioskFaults
     \/ Refused /\ Throw
  /\ UNCHANGED <<runVars, call, ledger, custody, intervention, reader, done, passed,
                 unseen, envVars>>

\* challenge.execute(): passed, or rejected.
Challenge(k) ==
  /\ At("authenticating") /\ k \in op.plan /\ ~op.aborted
  /\ \/ /\ op' = [op EXCEPT !.plan = @ \ {k}]
        /\ passed' = [passed EXCEPT ![op.intent] = @ \cup {k}]
     \/ Throw /\ UNCHANGED passed
  /\ UNCHANGED <<runVars, call, ledger, custody, intervention, reader, done,
                 unseen, kioskFaults, envVars>>

\* The plan is done; the abort signal is not looked at again before the
\* business, which receives it.
Authenticated ==
  /\ At("authenticating") /\ op.plan = {}
  /\ \/ Stage("processing") /\ UNCHANGED kioskFaults
     \/ Refused /\ Throw
  /\ UNCHANGED <<runVars, call, ledger, custody, intervention, reader, done, passed,
                 unseen, envVars>>

\* executeBusiness(): it completes and leaves the card alone, completes and
\* reports the card's custody, or fails.
Business ==
  /\ At("processing")
  /\ \/ /\ done' = [done EXCEPT ![op.intent] = @ + 1] /\ Stage("resolving")
        /\ UNCHANGED <<reader, ledger, custody, kioskFaults>>
     \/ /\ op.intent \in CardIntents
        /\ done' = [done EXCEPT ![op.intent] = @ + 1]
        /\ \E r \in ReturnCard :
             /\ reader' = r[2]
             /\ \/ /\ Write([Record EXCEPT !.custody = r[1]]) /\ custody' = r[1]
                   /\ Stage("resolving") /\ UNCHANGED kioskFaults
                \/ Refused /\ Throw /\ UNCHANGED <<ledger, custody>>
     \/ Throw /\ UNCHANGED <<done, reader, ledger, custody, kioskFaults>>
  /\ UNCHANGED <<runVars, call, intervention, passed, unseen, envVars>>

\* An abort is seen by the input stages and by ensureNotAborted().
AbortSeen ==
  /\ Active /\ Settled /\ op.aborted
  /\ op.pc \in {"acquiring", "assessed", "prepared"}
     \/ (op.pc = "authenticating" /\ op.plan # {})
  /\ Throw
  /\ UNCHANGED <<runVars, call, ledger, custody, intervention, reader, done, passed,
                 unseen, kioskFaults, envVars>>

\* The customer's time is up or an input stage fails.
InputFails ==
  /\ Active /\ Settled /\ op.pc \in {"acquiring", "assessed"} /\ ~op.aborted /\ Throw
  /\ UNCHANGED <<runVars, call, ledger, custody, intervention, reader, done, passed,
                 unseen, kioskFaults, envVars>>

\* resolveCustody(): a settled custody stands, one in hand is returned.
Resolution ==
  IF op.intent \notin CardIntents \/ custody = "none" THEN {<<"none", reader>>}
  ELSE IF custody \in {"returned", "retained", "unknown"} THEN {<<custody, reader>>}
  ELSE ReturnCard

ResolveCustody ==
  /\ At("resolving")
  /\ \E r \in Resolution : reader' = r[2] /\ op' = [op EXCEPT !.pc = "applying", !.res = r[1]]
  /\ UNCHANGED <<runVars, call, ledger, custody, intervention, done, passed, unseen,
                 kioskFaults, envVars>>

\* applyCustodyResolution() and markIntervention(): the flag is set before the
\* write; an unknown custody ends the operation as an intervention.
ApplyCustody ==
  /\ At("applying")
  /\ intervention' = (intervention \/ op.res = "unknown")
  /\ \/ /\ custody' = op.res
        /\ IF op.res = "unknown"
           THEN Write([status |-> "intervention", custody |-> "unknown"]) /\ Stage("exiting")
           ELSE Write([Record EXCEPT !.custody = op.res]) /\ Stage("recording")
        /\ UNCHANGED kioskFaults
     \/ Refused /\ Throw /\ UNCHANGED <<ledger, custody>>
  /\ UNCHANGED <<runVars, call, reader, done, passed, unseen, envVars>>

\* ledger.complete() or, in the catch block, ledger.fail().
RecordResult ==
  /\ At("recording")
  /\ \/ /\ Write([Record EXCEPT !.status = IF op.path = "try" THEN "completed" ELSE "failed"])
        /\ Stage("auditing") /\ UNCHANGED kioskFaults
     \/ Refused /\ Throw /\ UNCHANGED ledger
  /\ UNCHANGED <<runVars, call, custody, intervention, reader, done, passed, unseen,
                 envVars>>

\* The audit record: refused in the try block it sends a completed operation
\* through the catch block.
Audit ==
  /\ At("auditing")
  /\ \/ Stage("exiting") /\ UNCHANGED kioskFaults
     \/ Refused /\ Throw
  /\ UNCHANGED <<runVars, call, ledger, custody, intervention, reader, done, passed,
                 unseen, envVars>>

\* The registry stores the result of a run() that resolves.
Answer(rejected) ==
  IF rejected THEN unanswered' = unanswered \cup {op.intent} /\ UNCHANGED answered
  ELSE answered' = answered \cup {op.intent} /\ UNCHANGED unanswered

\* The finally block: prompts cancelled, exit hook, scoped data reset, active
\* cleared, the last also when one of the others throws, which rejects run().  The
\* command's callers get the result, which is stored unless run() rejects.
Exit ==
  /\ At("exiting")
  /\ op' = NoOp
  /\ \/ UNCHANGED kioskFaults /\ Answer(op.rejected)
     \/ Refused /\ Answer(TRUE)
  /\ call' = [c \in Calls |-> IF call[c].pc = "executing"
                              THEN [call[c] EXCEPT !.pc = "done"] ELSE call[c]]
  /\ refresh' = IF refresh = "waiting" THEN "idle" ELSE refresh
  /\ UNCHANGED <<up, todo, startup, readiness, caps, polling, ledger, custody, intervention,
                 reader, done, passed, unseen, old, slipped, refreshes, crashes>>

\* interrupt(): the customer cancels, the deadline passes, the runtime is
\* disposed or rebooted.
InterruptOperation ==
  /\ Active /\ ~op.aborted /\ op' = [op EXCEPT !.aborted = TRUE]
  /\ UNCHANGED <<runVars, call, ledger, custody, intervention, reader, done, passed,
                 unseen, kioskFaults, envVars>>

\* The process dies; the ledger and the card stay.
Crash ==
  /\ up # "down" /\ crashes < MaxCrashes /\ crashes' = crashes + 1
  /\ up' = "down" /\ todo' = {} /\ startup' = "ready" /\ refresh' = "idle" /\ polling' = FALSE
  /\ readiness' = [status |-> "failed", avail |-> {}]
  /\ op' = NoOp /\ custody' = "none" /\ intervention' = FALSE /\ answered' = {}
  /\ old' = (old \cup {call[c].intent : c \in Calls}) \ {NoIntent}
  /\ call' = [c \in Calls |-> IF call[c].pc = "idle" THEN call[c]
                              ELSE [call[c] EXCEPT !.pc = "done"]]
  /\ unseen' = IF op.pc = "cardIn" THEN unseen \cup {op.intent} ELSE unseen
  /\ UNCHANGED <<caps, ledger, reader, done, passed, unanswered, slipped, refreshes, kioskFaults>>

OpStep ==
  \/ OpStart \/ CardAcquired \/ (\E a \in SUBSET Kinds : BuildPlan(a))
  \/ Authenticated \/ Business \/ AbortSeen \/ ResolveCustody \/ ApplyCustody
  \/ RecordResult \/ Audit \/ Exit

KioskNext ==
  \/ \E s \in {"ready", "recovering", "intervention"} : Boot(s)
  \/ \E i \in todo : RecoverRecord(i)
  \/ RecoverFails \/ Initialized
  \/ \E v \in {"available", "degraded", "unavailable"} : RefreshBegin(v)
  \/ RefreshEnd
  \/ \E c \in Calls : Begin(c) \/ \E i \in Intents : Execute(c, i)
  \/ OpStep \/ CustomerIdentifies \/ AmountEntered \/ (\E k \in op.plan : Challenge(k))
  \/ InputFails \/ InterruptOperation \/ Crash

\* Timers, devices and disks answer; customers need not.
KioskFairness ==
  /\ WF_kioskVars(OpStep) /\ WF_kioskVars(\E c \in Calls : Begin(c))
  /\ WF_kioskVars(RefreshEnd)

KioskSpec == KioskInit /\ [][KioskNext]_kioskVars /\ KioskFairness

-----------------------------------------------------------------------------
(* Properties *)

\* The runtime, the operation and the ledger have their types; the attempts of
\* an input stage stay within its budget.
KioskTypeOK ==
  /\ up \in {"down", "recovering", "ready"} /\ todo \subseteq Intents
  /\ readiness.avail \subseteq Intents
  /\ op.intent \in Intents \cup {NoIntent} /\ op.pc \in OpPcs /\ op.attempts \in 0..Budget
  /\ \A i \in Intents : ledger[i].status \in LedgerStatus /\ ledger[i].custody \in Custodies
  /\ custody \in Custodies /\ reader \in Intents \cup {NoIntent}

\* CommandRegistry and coordinator: a click that is repeated, or that races
\* another one, runs the business once, whatever is refused.  The exception is an
\* intent with a run() that rejected, from its catch block (a second refusal) or
\* from its finally block: no result is stored, and the repeated click runs again.
BusinessOncePerIntent == \A i \in Intents \ unanswered : done[i] <= 1

\* resolveCustody, recover: with no operation active and no intervention, no
\* card whose custody is on a live record is left in the reader.  A card that is
\* not on one is: CardIsResolvedOrIntervention says what the records miss.
RecordedCardIsResolved ==
  (up = "ready" /\ ~Active /\ ~intervention /\ reader # NoIntent) => reader \in unseen

\* A record that says returned or retained has no card in the reader (unless
\* its intent is run a second time and the new custody is not yet written).
SettledCustodyIsTrue ==
  \A i \in Intents \ unseen :
    ledger[i].custody \in {"returned", "retained"} =>
      (reader # i \/ (op.intent = i /\ op.pc = "cardIn"))

\* LocalAuthenticationPlanPolicy: the business runs only after every mandatory
\* challenge was passed in this operation.
MandatoryBeforeBusiness ==
  \A i \in Intents : done[i] > 0 => Mandatory \subseteq passed[i]

\* markIntervention, recover: an unresolved intervention blocks the terminal
\* also after a restart.
InterventionSurvives ==
  (up = "ready" /\ \E i \in Intents : ledger[i].status = "intervention") => intervention

\* run(): without refused writes the ledger's verdict is the business's: a
\* completed record had its business done, a failed one did not.
LedgerTellsBusiness ==
  \A i \in Intents :
    /\ ledger[i].status = "completed" => done[i] > 0
    /\ (kioskFaults = 0 /\ ledger[i].status = "failed") => done[i] = 0

\* passRecoveryStartupBarrier: no operation runs in a process whose cash
\* recovery did not report ready.
BarrierBlocksOperations == Active => startup = "ready"

\* refreshCapabilities: once a refresh is over, an operation that needs a lost
\* capability has been interrupted.  The exception is the operation of a call that
\* had passed canExecute() when the readiness was published: start() does not look
\* at the capabilities again, so that operation runs without the device.
LostCapabilityInterrupts ==
  (/\ up = "ready" /\ caps = "unavailable" /\ refresh # "evaluating"
   /\ op.intent \in CardIntents \ slipped) => op.aborted

\* interrupt: an interrupted operation ends (unless its start was refused by
\* the ledger, which leaves it active for the life of the process).
InterruptedOperationEnds == <>[](op.aborted => op.pc = "wedged")

\* ADR 0012: once a card is inside the reader, every end of the operation returns
\* it, retains it or enters the intervention.  What the code does is in unseen.
CardIsResolvedOrIntervention == (up = "ready" /\ ~Active /\ ~intervention) => reader = NoIntent

\* CustomerOperationCoordinator.run: the business is done once, for an operation
\* that was entitled to it, and the ledger says whether it was (each conjunct
\* names its exception).
OperationIsSound ==
  /\ BusinessOncePerIntent /\ MandatoryBeforeBusiness /\ LedgerTellsBusiness
  /\ BarrierBlocksOperations /\ LostCapabilityInterrupts

\* resolveCustody, recover: the card that a live record tells of is resolved, or its
\* intervention is known, after every failure and every restart.
RecordedCardIsKept ==
  KioskTypeOK /\ RecordedCardIsResolved /\ SettledCustodyIsTrue /\ InterventionSurvives
=============================================================================
