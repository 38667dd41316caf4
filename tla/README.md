# A TLA+ verification of tripley-acctron

tripley-acctron is a TypeScript framework for kiosks and ATMs: a flow engine
runs customer journeys, device ports drive XFS hardware, orchestrators order
the card, host and cash steps of a transaction, an outbox delivers financial
messages to the host, and durable leases, records and ledgers let a restarted
process find out what an earlier one left behind. This directory models the
parts of it that can lose money, forget a card, repeat a message or get stuck,
checks them with TLC on small instances and proves the central facts with TLAPS
for every instance.

## 1. Inventory

| Component (under `src/packages/`) | State it keeps | Operations | What is hard |
|---|---|---|---|
| `xfs-device-service` cash delivery | session phase, movement flags, held lock and leases | start, dispense, present, waitForTake, abort, exit | every await may fail or time out while the device goes on |
| `xfs-device-service` cash recovery | lease rows, evidence, worker queue, release callbacks | acceptTransfer, recover, resolve | several writers of one row, crash between host and row |
| `xfs-device-service` cash acceptance | acceptance record, escrow snapshot, lease | start, acceptBatch, authorize, commit, abort, recover | an answer for an older escrow, a lost answer of the commit |
| `xfs-device-service` card custody | custody lease, take counters | returnCard, retainCard, reconcile | take event against timeout, late commands |
| `xfs-device-service` protection recovery | cases, imported records, projections | recover at startup | two journals that disagree after a crash |
| `xfs-device-service` command leases, device service, PIN pad | promise chains, session maps, the active input | run, connect, dispose, input, complete, cancel | rejected steps in the middle, cancellation that hits the wrong command |
| `withdrawal-orchestration`, `deposit-orchestration` | the transaction's steps and outcome | execute | compensation of each failing step |
| `kiosk-runtime` finalization, startup | finalization records, startup verdict | run, resume, initialize | crash between a finalizer and its record |
| `kiosk-runtime` coordinator, availability | active operation, readiness, suspension | run, refreshCapabilities, interrupt, requestSuspension | repeated clicks, refused writes, a crash with the card inside |
| `flow-engine`, `device-core` | instances, gates, node races, device locks, input brokers | start, pause, resume, cancel, submit | late results, cancellation against pause, stale submissions |
| `plugin-system`, `kiosk-runtime` application | plugin states, registrations | install, activate, dispose | failure at any step, reverse disposal |
| `kiosk-host-delivery`, `kiosk-host-integration` | outbox rows, payloads, responses | execute, runOnce, reconcile | lost and late answers, expired leases |
| `kiosk-host-session`, `kiosk-host-native-channel` | connection, sign-on, the exchange under way | exchange, respond, dispose | uncorrelated responses, reconnection, frames cut anywhere |
| `event-bus`, `prompt-presentation`, `storage-*` | queues, the current prompt, transactions | publish, request, present, transaction | a handler that waits for itself, a failing COMMIT |
| `configuration`, `host-message` | the merged view; none | set, reload; pack, unpack | overlapping calls; odd digits, bitmaps, cut messages |

The remaining packages (logging, errors, types, utils, UI adapters, TTS, test
support, scaffolding) hold no state a property could be about.
`PROJECT.json` lists every component with its status, and under `hazards` the
places of the code where a property bites and a test would hardly reach.

### How the parts interact

A click starts a command; `CustomerOperationCoordinator` runs it as one
operation with a ledger record, a plan of authentication challenges and the
card's custody, and the operation's flow runs in the flow engine, whose input
nodes race the screen and the PIN pad under a device lock. A withdrawal or a
deposit is executed by its orchestrator.

The withdrawal orchestrator calls a `CashDeliverySession`. A session holds
three things: the in-memory device lock, a row of `xfs_cash_recovery_lease`
and a command lease of the native host (hostd), without which hostd executes
no cash command. When it cannot finish, `exit` hands the row to the
`CashRecoverySupervisor`, which moves the host lease to recovery authority with
the next fencing token and reconciles what the device shows. What recovery
cannot decide waits in intervention for `CashInterventionResolver`. After a
crash the runtime's startup barrier runs recovery before anything else. The
deposit orchestrator does the same with a `CashAcceptanceSession`, whose escrow
is committed only for the revision the host approved.

The orchestrator also asks `CardCustodyService` to return the customer's card,
before the notes are presented or after they are gone, as the policy says. It
asks the host through the outbox: `execute` enqueues, the worker leases, sends
and records, and what remains uncertain is settled by an inquiry or by an
operator, never by sending again. When the orchestrator has an outcome it runs
the operation's finalization plan, a list of finalizers whose progress is a
durable record. `TransactionStartupCoordinator` resumes the incomplete records
of earlier processes, after the protection recovery, before it admits a
transaction.

## 2. Modules

| Module | Models | State and actions |
|---|---|---|
| `CashState` | the store, the device lock, hostd and the dispenser | `lease` is the table, `evid` the durable evidence kinds, `cash` where the notes of each operation are, `dev` the command in flight and the sticky present status, `host` the command lease hostd honours, `lock` and `held` the device lock and its registered releases |
| `CashSession` | `cash-delivery.ts`, `cash-protection-release.ts` | `fg`: `fg.pc` is the await the current call is at, the other fields are the session's private fields; one action for each call up to its next await and one for what follows its answer |
| `CashRecovery` | `recovery-supervisor.ts`, `cash-recovery-worker.ts`, `cash-recovery-device.ts`, `intervention.ts` | `rec` is the worker and its run, `mt` the operator's resolution; `row` in each is the row as that call last read or wrote it |
| `CashSystem` | their composition, crashes, and the properties | `Init`, `Next`, `Spec`, `FairSpec` |
| `CashAcceptance` | `cash-acceptance.ts`, its policy and recovery, the CIM commands of `cim-adapter.ts` | `mem` and `cimRecord` are the live and the stored record, `cim` the device, `call` the method and its await |
| `Deposit` | `deposit-orchestration` over `CashAcceptance` | `dpc` is the await of the workflow, `auth` what the host approved, `phys` and `status` the outcome |
| `EscrowCustody` | what a cash acceptance session promises | notes come in, are approved, go to the units, back or to the retract unit; the abstract specification that `Deposit` implements |
| `CardCustody` | `card-custody.ts`, `card-custody-lease-adapter.ts`, the card commands of `ports.ts`, `abortable-command.ts` | `svc.pc` is the await of the current call, `card` where the card is, `removed` and `baseline` the port's counters, `lease` what hostd honours, `obj` what the lease objects believe, `journal` hostd's protection |
| `Withdrawal` | `withdrawal-orchestration/src/orchestrator.ts` over `CardCustody` | `w.pc` is the await of `execute`, the other fields of `w` its `OperationState`; `sess` and `notes` are the promise of a cash session |
| `Finalization` | `finalization-runner.ts`, its store and recovery registry, `transaction-startup.ts` | `store` is the table, each runner has its own copy of the record, its await and its plan version, `boot` is the startup coordinator; a crash may bring another build with another plan |
| `FinalizerOrder` | `OperationFinalizerRegistry` and `topologicalSort` | registrations in any order, then freeze |
| `FlowEngine` | `engine.ts`, `instance-runtime.ts`, `node-runtime.ts`, `builtin-nodes.ts` | `inst[i]` is an instance with its await, status, gate, requests and child; a step is the code between two awaits |
| `UserInput` | `user-input.ts`, the device locks and brokers of `device-core`, the PIN pad port as they use it | `ex[e]` is one execution of an input node, `held` the lock, `pending` and `tombs` the correlated broker |
| `KioskRuntime` | `coordinator.ts`, `runtime.ts`, `authentication.ts`, the command registry, the operation ledger, the contact card entry of the example | `op` is the operation under way, `ledger` the durable records, `reader` the card inside, `readiness` and `caps` what the runtime believes |
| `ServiceAvailability` | `service-availability.ts` | status, leases, the pending suspension, the gate under evaluation, the retry timer |
| `PluginLifecycle` | `plugin-manager.ts`, `extension-registry.ts`, the application runtime | `pstate`, `reg` and the phase of the application |
| `ProtectionRecovery` | `protection-recovery-barrier.ts` and its store | `prot` and `journal` are hostd's, `cases`, `imported`, `projected` the store's, `run` the walk over the groups |
| `CommandLease` | `command-lease-executor.ts` | the chain of each service, the call's await and token, the host's lease |
| `DeviceService` | `service.ts` | `connect` and `dispose` step by step, the maps, the native sessions |
| `PinPad` | `pinpad-device-port.ts`, `pinpad-input-control.ts` | the inputs, the control's digits, the device's command; finer than the port that `UserInput` uses |
| `HostDelivery` | `queue.ts`, `worker.ts`, `reconciliation.ts`, the SQLite stores, `exchange.ts` of the integration | `rows`, `vault`, `responses` are the tables; every store transaction is one step |
| `PersistentSession` | `supervisor.ts`, `persistent-session.ts`, `persistent-inbound.ts` | `sup` is the supervisor, a record changed by functions because the transport calls it synchronously; `tr`, `queue`, `ex`, `wire` the transport |
| `NativeExchange` | `native-tcp.ts`, `native-websocket.ts`, `async-tools.ts` | the exchanges of a one-shot channel, the sockets, the connects given up |
| `HostFraming` | `framing.ts` and the draining of the stream | `stream` and `buffer` are bytes, `delivered` what was routed |
| `EventBus` | `local-event-bus.ts` | every envelope with its dispatch; one request and one `once` among changing responders |
| `PromptPresenter` | `presenter.ts` | the phase of each session, who waits for whom, the current one |
| `SqliteStorage` | `migrations.ts`, the native connection's queue, counters, message log | the schema, its journal, the open transaction and what it would roll back to |
| `Configuration` | `configuration/src/index.ts` | the providers, the merged `view`, the calls under way, what each watcher last heard |
| `HostMessage` | the two codecs of `host-message` | a message of two fields, packed, cut and unpacked |
| `CashSystemProofs`, `DepositProofs`, `WithdrawalProofs`, `FinalizationProofs`, `KioskProofs`, `FlowProofs`, `XfsProofs`, `HostProofs` | the TLAPS proofs | `WithdrawalProofs` has the card's custody too, `KioskProofs` the service availability, the event bus, prompts, storage, configuration and plugins, `FlowProofs` the flow engine and its user input nodes, `XfsProofs` the four device components, `HostProofs` the outbox, the channels and the framing |
| `MC...` | the instances for TLC | constants, symmetry, and the sums described below |

hostd, the devices, the customer, the host and the native layer are not in the
repository; they are modelled from how the code uses them and marked external
in the map. A command that the caller stopped waiting for stays in flight and
may still execute. Amounts, denominations, ids, snapshots and texts are
abstracted: no property tells them apart. Each definition called a mutant in a
comment is a plausible slip in the code; it is used only to show that a
property would notice it.

`Withdrawal` extends `CardCustody` and `Deposit` extends `CashAcceptance`, so
every step of the service interleaves with its orchestrator, the customer and
the abort signal. Of the cash session `Withdrawal` takes only the promise:
`Retract`, `AbortCash`, `TransferCash` and `WaitForTake` may answer whatever
`cash-delivery.ts` may, and an answer of taken, retracted or notDispensed is
true. That the session keeps this promise is what the runs over `CashSystem`
check.

The other components share no state. A run that checks several of them is a
sum: a variable `part` chooses at the start which component the behaviour is
about, the others stay as they started. That shows of each component what a run
of its own would show, and no more.

Assumptions about the outside: service events and command answers of a device
come over one connection, in order; the continuations of a settled promise run
before the next native event; native calls settle. The finalization store, the
acceptance store, the protection store and the outbox may reject a write before
or after it is durable. The kiosk's
ledger is the durable `SqliteOperationLedger`; an intent id is made at each
click (`kiosk-screen.tsx`), so it is submitted again only by the process that
made it. A rejected ROLLBACK is not modelled.

## 3. What TLC checks

Forty properties, each with a mutant of the code that breaks it. A property
whose name is in brackets below is the conjunction of the named parts that
follow it; the parts are in the component's module, each with its comment.

| Run | Question | Bounds |
|---|---|---|
| `core` | Can two operations after each other, with one failure anywhere, lose track of notes, of the lock or of a token? Does the configuration view follow its providers, does a message survive packing and cutting, is a frozen finalizer order correct exactly when there is one? | 2 cash operations, 1 fault; 2 configuration calls, 2 values; messages of 2 fields over 14 field definitions; 3 finalizers, at most 2 dependencies each |
| `cash_faults` | Can failures during the recovery from failures lose notes? Does an accepted transfer settle? Is a deposit's escrow what `EscrowCustody` promises, and does every deposit end? | 1 cash operation, 3 faults; 1 deposit, 2 batches, 2 faults, 1 crash |
| `records` | Through failing finalizers, refused saves, crashes and a change of build: is the record of an operation a true account, is startup ready only over a clean store, and does it reach a verdict? Do the card service's results, the protection and the authority agree with where the card is? | 2 operations, 2 builds (plans of 1 and 2 steps), 2 attempts, 1 crash; 2 customers, any calls, 1 fault |
| `withdrawal` | Is the outcome true of cash and card, is what is unresolved escalated, and does `execute` settle? | 1 withdrawal, every policy and entry mode, an abort at any moment, 2 faults |
| `flow` | Do parent and child flows, the engine's tables and the waiting promises agree under pause, cancel, timeouts and rejecting handlers? Does an input node have its entry to itself, and do both end? | 2 instances, 2 visits, 1 retry, 2 throws; 2 executions, the second with or without a device name for its PIN pad, 1 key, 1 confirmation, 1 fault |
| `kiosk` | Is the business done once and the card on a record never forgotten? Is a suspension honoured, and does an application that fails anywhere take its plugins down? | 2 intents, 2 calls, 1 fault, 1 crash; 2 gates, 2 leases, 2 suspensions, 3 evaluations; 2 plugins, 2 contribution ids |
| `xfs` | Is what hostd protects imported before it is forgotten? Are commands serial and leases given back, sessions closed, PIN entries owned, and does all of it settle? | 2 groups, 2 operations, 2 host epochs, 2 runs, 1 fault; 3 commands on 2 services, 2 faults; 2 devices, 2 connects, 2 faults; 2 inputs, 2 faults |
| `host` | Is an uncertain request never sent again and each response its own? Are the channels honest, the frames whole, and is the session back after failures? | 1 or 2 deliveries with up to 3 calls, a restart, a fault; 2 requests and 2 faults, with and without supervisor; 3 one-shot exchanges, 3 faults; 2 frames in any chunks over 16 framings |
| `platform` | Are events, requests and prompts delivered, ordered and reported, is storage serial under crashes, and does everything end? | 2 handlers, 2 sources, 2 publishes; 3 responders; 3 prompts; 2 migrations, 3 calls, 2 crashes |
| `cash_unknown`, `withdrawal_card_left`, `kiosk_card_left` | expected violations, see below | 2 operations, 1 fault; 1 withdrawal, 1 fault; 2 intents, 1 fault |

Two cash operations are needed because the present status and notes left in the
transport carry over from one to the next; since the unique index admits one
unresolved row at a time, a third adds little, and what it adds the proofs of
section 4 cover, which are for any number of operations and faults. One fault reaches
every error path once; three reach a crash inside the recovery of a crash.
`FloorStep` keeps the wall-clock token floors of two operations apart, as
milliseconds times 1000 do. For finalization two builds are enough because a
record is resumed by exactly one of them: the newer knows the older plan, the
older does not know the newer one. Two customers are needed for the card because
the event of one may arrive during the ejection for the next; one fault reaches
each of the card service's error paths, `CardsAreAccountedFor` is proved for any
number, and the withdrawal's two reach a failure during the compensation of a
failure. The two parts of `records` share no state and a behaviour is about one
of them; of the card only safety is checked there. A parent and a
child, synchronous or left behind by an asynchronous subflow node, show every
step of the flow engine; that an abort passes through any depth of subflows is
proved (`FlowsAreAccounted`). Three calls on one outbox row let a worker, an inquiry and a second
worker overlap. Three prompts are the first number where two wait for the same
one. Two fields are the first number where one field can take a byte of its
neighbour. Deadlock is not checked: when all operations are over the system
rests.

What the properties say:

- Cash out. Notes move only after their evidence is durable
  (`EvidenceBeforeMovement`); as long as no notes went astray (`Strayed`), a
  closed row tells the truth (`RecordedOutcomeIsTrue`); notes in the transport have an owner
  (`CustodyIsOwned`); lock, row and host lease agree (`LeasesAgree`: `TypeOK`,
  `LockImpliesUnresolved`, `FencingAgrees`); an end reported as clean is
  complete (`CleanEndIsComplete`, with the same exception).
- Cash in. `DepositIsSound` (`DepositOutcomeIsTrue`, `LeaseCoversNotes`,
  `CompletionIsPhysical`); `NotesMoveInOrder` (`RefusedBeforeCommit`,
  `NoRollbackAfterCommit`, `ReturnedNotesWait`); `EscrowIsImplemented`, the
  refinement: under the mapping at the end of `Deposit` every step of the
  deposit, its session, a crash and the recovery is a step of `EscrowCustody`
  or leaves the notes alone, so notes reach the units only as a whole and only
  after the host approved exactly them. `CashSettles` is the liveness of both
  sides (`AcceptedTransferSettles`, `DepositEnds`).
- Finalization. `WorkIsAccountedFor` (`PlanOrder`, `ClosedIsDone`,
  `AttemptsCoverCalls`), `RecordedStepsStay`, `ReadyIsClean`, `StartupSettles`;
  `PlanIsSound` for the order. A finalizer whose "completed" save is lost is run
  again: the code promises at-least-once, and the model shows no more.
- Card. `CardIsAccountedFor`: a reported custody is true whatever event or
  command comes late (`CustodyIsTrue`), a movement is on record before it can
  happen (`MovementIsRecorded`), a call that rejects has moved nothing
  (`RejectedCallMovedNothing`), a release reported is a release
  (`ReleasedIsReleased`).
- Withdrawal. Under return-before-cash-present no note is within reach before
  the card is really gone (`CardBeforeCash`); `OutcomeIsHonest`
  (`OutcomeIsTrue`, `DispensedOnlyIfApproved`, `UnresolvedCashIsEscalated`);
  `ExecuteSettles`.
- Flows. `FlowsAreAccountedFor` (`TablesAgree`, `SettledIsFinished`,
  `RetryBudget`, `CancelReachesChildren`, `FailedChildIsNotAccepted`),
  `EntryIsOwn` (`OwnSubmissionOnly`, `EntryUnderLock`, `CleanExit`,
  `CancelHitsOwnEntry`), `FlowSettles`.
- Kiosk. `OperationIsSound` (`BusinessOncePerIntent`,
  `MandatoryBeforeBusiness`, `LedgerTellsBusiness`, `BarrierBlocksOperations`,
  `LostCapabilityInterrupts`), `RecordedCardIsKept` (`RecordedCardIsResolved`,
  `SettledCustodyIsTrue`, `InterventionSurvives`), `SuspensionIsHonoured`
  (`PendingOnlyWhileActive`, `SuspensionStands`, `ClosedGateIsRetried`),
  `PluginsEndClean`, `KioskSettles`.
- Devices. `ProtectionIsImported`, `LeaseIsSerial`, `SessionsAreOwned`,
  `PinEntryIsOwn`, `XfsSettles`.
- Host. `DeliveryIsSafe` (`NoBlindRetryInTime`, `OneResponse`, `AnswerIsOwn`,
  `PayloadKept`), `ChannelsAreHonest` (`ReadyIsSignedOn`, `ResponseIsOwn`,
  `NotSentIsTrue`, `ReplyOnOwnConnection`, `NotSentMeansNothing`,
  `SocketsAreClosed`), `FramesAreRouted`, `MessageSurvives`, `HostSettles`.
- Framework. `AnnouncementsAreHonest` (events, requests and prompts: a prompt
  cancelled in the queue is not heard, an envelope fails with a report, a request
  is answered that nobody responds only when everybody was asked),
  `StorageIsSerial`, `ConfigurationIsHonest` (`ViewAgreesWithProviders`,
  `NoPhantomValue`, `WatchersAreTold`), `PlatformSettles`.

Fairness. Promises settle and native calls are bounded by their timeouts, so
the steps that follow an answer go on, and devices and readers finish commands
and deliver events; timers fire. Nothing is assumed of the customer, the
operator, the screen, other processes or callers. Handlers on the event bus need
not return: each has a timeout, 5000 ms by default. Executors and hooks of the
flow engine are assumed to settle once their signal is aborted. The host session
is assumed to connect once its faults are spent. The finalization store, the
ledger and SQLite answer, with an error or not.

### Where code and documents disagree

Three runs expect a violation; `findings` in `PROJECT.json` quotes the sentence.
`cash_unknown`: a custodyUnknown end closes the row although
`docs/38-cash-recovery-supervisor-target.md` keeps it for the operator.
`withdrawal_card_left`: an abort between the dispense and the ejection makes the
card service answer `cancelled` with the card inside, and the outcome is an
ordinary `cancelled`
(`docs/adr/0012-customer-media-custody-must-be-resolved.md`).
`kiosk_card_left`: the card is read before its custody is written
(`contributions.ts:58` of the example); when the ledger refuses that write,
`resolveCustody` finds no custody to resolve and the operation ends as failed
with the card inside and no intervention (the same ADR). `RecordedCardIsKept`,
the property of `kiosk`, therefore speaks of cards on a record only.

Modelling showed others; the properties are stated so that they hold in spite of
them, and the excepted case has a name in the module.

- `cash-recovery-device.ts:111`: the sticky present status of an earlier
  operation reads as taken (`InferredTaken`; docs/38:88). `:123`: the row's phase
  decides notDispensed although a dispense intent is durable (docs/38:49).
  `recovery-supervisor.ts:115`: a bound row is reconciled without a live host
  lease (docs/38:92).
- `orchestrator.ts:43` of the withdrawal: a write refused after the transaction
  was started leaves an admitted operation without finalization (docs/45:56).
  After a transfer to recovery a rejecting `returnCard` makes the catch block
  call `exit` again, which rejects: the outcome says `custodyUnknown` instead of
  `recovery-transferred`.
- `cash-acceptance.ts:225`: `abort` waits for the customer with the signal that
  has just been aborted, so returned notes are retracted at once (`aborted` in
  `ReturnedNotesWait`; docs/39:92). `:219`: a record that needs recovery becomes
  `failed` and drops out of `listUnresolved` (docs/46).
  `cash-acceptance-lease-adapter.ts:34` and `:60`: the lease is taken for 30
  seconds that nobody renews, and the commands of the cash-in carry no token, so
  hostd may let it lapse with notes in escrow (docs/39:114 and 216).
  `LeaseCoversNotes` says that the session itself does not give it up early
  (`LeaseLapses` is the step it excepts).
- `finalization-runner.ts:81`: the save of a completed step is inside the try
  block. When it is durable and its answer is lost, the catch block records the
  step as failed, over completed, and the next run calls the finalizer again
  (`CompletionRefused` in `RecordedStepsStay`; docs/39:231, docs/49:52).
- `user-input.ts:43`: only sources with a device id are locked. A `pinpad.pin`
  source without one, as in the examples of docs/23 (82, 100, 118), opens the PIN
  pad under no lock, and the cleanup of an earlier node may cancel it
  (`named` in `EntryUnderLock` and `CancelHitsOwnEntry`).
- `coordinator.ts:310`: a rejecting `cancelOperation` or exit hook in the finally
  block rejects `run()` although the business is done. The command registry
  stores no result, and the repeated click runs the intent again
  (`unanswered` in `BusinessOncePerIntent`). `runtime.ts:80`: capabilities are
  replaced before the readiness that `canExecute` reads; an operation whose call
  had passed that check starts without its device and is not interrupted
  (`slipped` in `LostCapabilityInterrupts`).
- `service-availability.ts:190`: an evaluation that was under way when a
  suspension was requested drops it when its gates are open (`overtaken` in
  `SuspensionStands`). `:185`: when the audit log refuses the record of a closed
  gate, `scheduleRetry` is not reached, and only `retryNow` looks at the gates
  again (`unaudited` in `ClosedGateIsRetried`).
- `local-event-bus.ts:108`: a filter that throws rejects `request()` with its own
  error before the responders behind it are asked; `:231`: in `publish` it
  rejects the dispatch without a dead letter (`filterThrew` in
  `FailuresAreReported`).
- `sqlite-store.ts:191` and `worker.ts:35` of the outbox: an attempt that
  outlives its lease writes its verdict over what others recorded, which may
  make an uncertain request retryable (`overtaken`; docs/50:23 and 51).
  `reconciliation.ts:72`: a reused response id is reported as reconciled.
  `queue.ts:22`: the catch of `enqueue` may delete the payload of another row
  (`clash`).
- `supervisor.ts:212`: the generation of a control message is compared when it
  is queued, not when it is written (docs/54:40). `:61`: a `start` that rejects
  after `dispose` sets the state from stopped to disconnected.
- A child flow cancelled while paused settles as paused, and its parent accepts
  it (docs/65). A session cancellation that rejects skips the release of the
  device lock (docs/23:196).
- `presenter.ts`: a cancelled prompt's promise resolves while its playback still
  unwinds, so two prompts may sound together (docs/35:162), and a prompt cancelled
  while it loads is played all the same (`:146`). When the cancellation of the
  current prompt rejects (`:46`, `:172`), the preempting `present` rejects before
  `run`: its session stays in the table and completes only when it is cancelled
  itself (`Abandoned` in `PromptsComplete`).
- Storage: a single statement lands in whatever transaction is open and is
  rolled back with it; the Node connection of the tests does not queue
  transactions at all; `incrementWrapped` with maximum 0 hands out 1.
- Configuration: removing a top-level key deletes the SQLite row and then
  throws; a reload calls no watcher and undoes a set that overlaps it. A watcher
  that throws rejects the call after provider and view were changed, and the
  watchers behind it are not called (`untold` in `WatchersAreTold`). A set that
  fails in `save` leaves the provider changed, which the next reload shows.
- Codecs: an absent optional fixed field is skipped silently; `ascii-hex` with a
  length in digits, and a value of pad characters only, cannot be unpacked; the
  length in digits of a `utf8` value counts characters where its bytes may be
  more, which leaves the rest to its neighbour (`Miscounted` in `RoundTrip`); a
  field with padding and without `stripOnDecode` comes back padded (`Sent`); the padding of
  groups is not validated (docs/36:175).

## 4. What is proved

`CashSystemProofs` proves, for every finite set of operations and every number
of faults (assumptions `OpsAssumption`, `VerdictsAssumption`,
`BoundAssumption` of `CashState`):

- `TypeCorrect`: `Spec => []TypeOK`. One lemma per action. The type invariant
  carries two facts that are needed to make it inductive: an actor at work has
  an operation, and a run at its snapshot has observed an outcome.
- `MovementHasEvidence`: `Spec => []EvidenceBeforeMovement`. The property is
  not inductive: a dispense in flight may execute at any later time. The
  invariant `EvidenceInv` adds that a dispense in flight has its evidence
  (`DispenseBacked`) and that a session past its preparation has its before
  snapshot (`SessionBacked`); evidence only grows (`EvidenceGrows`).

The other invariants of the cash rest on four inductive invariants, each the one
before it and one concern more:

- `OwnershipInv`, who writes a row. At most one row is unresolved
  (`OneUnresolved`); at each await the session, the recovery run and the operator
  each know what their row holds, and none works on the row of another
  (`SessionOwns`, `SessionAlone`, `RunOwns` and their neighbours). Every other
  layer needs this: `compareAndSwap` protects a row from a stale write, and only
  the owners' agreement says that the write that gets through was not decided on
  a stale copy.
- `LeasesInv`, the host's lease and the device lock. It gives
  `LeasesAreConsistent`, `Spec => []LeasesAgree`.
- `NotesInv`, where notes can be in each phase of a row, what a pending answer
  has behind it, and that nothing moves for an operation without a row
  (`Untouched`, `Phased`, `Unmoved`). It gives `CustodyIsAlwaysOwned`,
  `Spec => []CustodyIsOwned`.
- `RecordsInv`, that an observation nobody has written down yet is true
  (`RetractsTrue`, `DispensesOnce`, `TakenWereShown`). It gives `RecordsAreTrue`,
  `Spec => []RecordedOutcomeIsTrue`.

With `EvidenceInv` and what a session past its last write knows (`EndKnown`) the
last gives `CleanEndsAreComplete`, `Spec => []CleanEndIsComplete`. The proof of
`RecordsAreTrue` first failed, and rightly: with three operations and two faults,
more than a run explores, the notes of the second can stay behind a take that
recovery inferred, and the retract for the third, whose own dispense was lost,
finds those and succeeds. The row of the third then says retracted with its notes
in the vault. TLC confirms the history; `Strayed` is the case the properties now
leave out, and the proof shows that there is no other.

`FinalizationProofs` proves every safety property of `Finalization`, for any
finite set of operations, any builds and plan lengths and any bounds
(`OpsAssumption`, `PlanAssumption`, `BoundAssumption`): `FinalizationTypes`,
`FinalizersInOrder`, `ClosedRecordsAreDone`, `AttemptsAreCounted`, together
`WorkAccountedFor`, and `CompletedStepsStay`, `ReadyOnlyWhenClean`. The
inductive invariant is `FinalizationInv`: besides the types it says, for each
operation, that the runner's copy agrees with the stored row except for the
write it is about to make (`RunnerInv`), also after refused saves, that the
runner stands at the first open step of its plan, that a record ahead of its
copy has a completion whose save rejected (`Unacknowledged`), and that a step
recorded as completed has done its work and no call exceeds the attempts on disk
(`RecordInv`). The runner's copy is what makes the properties not inductive: a
stale copy would overwrite a good row. `ReadyOnlyWhenClean` adds `StartupInv`:
the records the coordinator has passed are closed, and no operation runs before
it is ready.

`KioskProofs` proves `OperationsAreSound` and `RecordedCardsAreKept`, that is
`KioskSpec => []OperationIsSound` and `[]RecordedCardIsKept`, for any intents and
any number of calls, crashes, refused writes and polls (`KioskAssumption`). Both
rest on `KioskInv`, because both can fail at the same places: between a change
of the world and the write that records it. `CallInv` says that calls and
operations exist only behind the startup barrier, `LostInv` that once a refresh
is over no call that needs a lost capability is admitted or runs on; `BusinessInv`
says what each await of `run()` has behind it (the mandatory authentications, the
business done), `OnceInv` that an intent none of whose runs rejected and that is
not answered has not been done (and, while nothing was refused, is untouched in
the ledger), so that a repeated click and a restart find the first execution; `CardInv` that a card in the reader is in the hands of
the active operation or on a record that recovery visits, `InterventionInv` that
an intervention on record is known to the process or waits for its recovery.

`FlowProofs` proves `EntriesAreOwn`, that is `InputSpec => []EntryIsOwn`, for any
number of executions, keys, confirmations and refused cancellations, with PIN
sources that name their device and others (`InputAssumption`). `InputInv` adds who holds the device lock at each await and
after a refused cleanup (`LockInv`, `CleanupInv`), and from where to where an
execution's two sessions live at the broker and at the port (`UiInv`, `PinInv`):
a cancellation that is still travelling is what may meet a later entry.

It then proves `FlowsAreAccounted`, that is `FlowSpec => []FlowsAreAccountedFor`,
for any flows, any number of instances and rejecting handlers and any depth of
subflows (`FlowAssumption`). `FlowInv` is an invariant of each instance
(`InstanceOK`: its status at each await, the node it is at, its retries), one that
relates a parent and its children (`CancelInv`) and one of the tables
(`TableInv`: ids are handed out in order and one is kept for every subflow node
that was entered). A step of an instance is seen from the others as `Follows`; an
abort is dispatched through all live descendants (`Reached`, the least set closed
under their children), and `AbortFacts` shows that this is enough: a cancelled
instance whose child started late, or whose grandchild runs, leaves none behind.

`KioskProofs` also proves `SuspensionsAreHonoured`, that is
`AvailSpec => []SuspensionIsHonoured`, for any number of gates, leases,
suspensions and evaluations (`AvailabilityAssumption`). A suspension is asked
for in one step, published in another and answered in a third, so the property
alone is not inductive: `AvailInv` adds `PendingIsBacked`, that a published
suspensionPending has a pending reason, a pending reason has a request that
stands, and a request made during an evaluation has that evaluation still under
way. One lemma per group of actions (evaluations, gates,
leases, suspensions); that a suspension takes effect is liveness and stays
with TLC.

`DepositProofs` proves everything safe about a deposit, for any number of
batches, faults and crashes and every policy for notes not taken
(`AcceptanceAssumption`): `DepositsAreSound` (`[]DepositIsSound`),
`NotesStayInOrder` (the three action properties of `NotesMoveInOrder`) and
`EscrowIsRefined`, that `DepositSpec` implements `EscrowCustody`. All rest on
`DepositInv`, one conjunct per concern: which method the workflow waits for
(`ControlInv`), where notes may be in each phase (`NotesInv`, `CountInv`), that a
dispatched commit is on disk before the device is told (`DispatchInv`), that an
approval is for the revision at the device and is not added to (`ApprovalInv`),
what an answer that has not been read yet says of the notes (`RefusedInv`,
`AbortInv`, `CommitInv`), and what the outcome will say (`OutcomeInv`). None of
the three could do without the unread answers: between the device's step and the
workflow's the record is behind the notes. The refinement goes device step by
device step (`DeviceStepIsEscrowStep`); every other step leaves notes and
approval alone, except the host's answer and a new revision
(`OnlyApprovalSteps`).

`WithdrawalProofs` first proves `CardsAreAccountedFor`, that is
`CardSpec => []CardIsAccountedFor`, for any number of cards, calls and faults,
every policy and every interrupt reason (`CardBounds`). `CardInv` adds, for each
await, where the card can be: a take event counts from the baseline on only for
the card this call ejected (`ReaderInv`), a request is on record before the
reader has the command (`EvidenceInv`), a call before its authority has moved
nothing (`CallInv`), and a session that released its lease does not hold the
host's (`LeaseInv`).

It then proves `CardComesBeforeCash` and `OutcomesAreHonest` for every policy, entry mode and interrupt reason and any number of faults. The
orchestrator keeps `CardInv`, which is thereby reused and not proved again; to
it come the notes at each await (`ForwardInv`), what the orchestrator says of
them (`CashInv`) and of the card (`CardSideInv`), and that an open custody is
known by the time the card is resolved (`EndInv`). The last is what makes
`UnresolvedCashIsEscalated` inductive: the outcome is computed several awaits
after the notes were lost sight of.

`XfsProofs` proves the safety of the four device components, for any groups,
operations, inputs, devices, commands and services and any number of faults:

- `ProtectionsAreImported` (`ProtectionAssumption`: there is a group and an
  epoch). `ProtInv`: the run's copy of the journal is complete when the outcome
  it read is retracted, its case is the only open one of its group, what it has
  passed is imported, projected and reconciled (`RunInv`); what the host has
  forgotten was complete (`AckInv`), without which a record added later would
  break the property; groups left behind as ready are closed (`ReadyInv`).
- `PinEntriesAreOwn` (`PinAssumption`). `PinInv`: one input has a command at the
  device and is the active one while the port is subscribed (`OneInput`), the
  digits and the confirmation are that input's (`DigitsInv`, `ProofInv`).
- `ServiceSessionsAreOwned` (`DeviceAssumption`: the configured devices are
  distinct and there is one, as `validateConfig` demands). `ServiceInv`: a
  session in the map is open and belongs to one device (`MapInv`), how far
  `connect` has come (`ConnectInv`), and that after one `connect` the map holds
  every open session (`CleanInv`), so that walking the map closes them all.
- `CommandsAreSerial` (no assumption). `LeaseInv`: the chain of a service is the
  unsettled rest of its calls and only its head has begun (`ChainOK`), the
  commands that began did so in the order of the calls (`OrderOK`), a lease of
  the executor carries the running command's token or was lost with an answer
  (`TokenInv`).

`HostProofs` proves `DeliveriesAreSafe`, that is
`DeliverySpec => []DeliveryIsSafe`, for any number of outbox ids, calls, restarts,
faults and operator decisions (`DeliveryAssumption`: there is an id). Neither
write of a call looks at the row it changes, so `DeliveryInv` says what a call
knows of its row: it exists and its attempt count is not behind the call's
(`AttemptInv`); as long as the row is as the call left it, no attempt but its own
is in doubt, and none once it was found not to be sent (`DoubtInv`). A row that
waits to be sent is not in doubt and has its payload (`RowInv`), a response
closes its row (`ResponseInv`). `Moves` is what any step may do to a row, seen
from the calls that do not take it (`OtherCallInv`); a row that became uncertain
a second time for the same attempt, because of another policy version, is the
case that makes an inquiry's verdict hard to trust.

`HostProofs` then proves `HostChannelsAreHonest`, that is
`HostSpec => []ChannelsAreHonest`, for any exchanges, requests, drops and
timeouts (`SessionAssumption`, `ExchangesAssumption`). The two channels share no
state, so `ChannelInv` is one invariant of each. `NativeInv` says what a one-shot
exchange has done at each await, and who may hold a socket. `SessionInv` says at
which socket each transport state is (`SocketInv`), that the head of the queue
is the exchange under way (`QueueInv`, `ActiveInv`), for whom an answer on the
wire or in the inbox is (`WireInv`, `ArrivedInv`), and what the supervisor may
believe (`SupervisorInv`): it is called back by the transport between any two of
its awaits, so its reactions are functions on its state and each has a lemma.

`StreamsAreFramed`, that is `HostSpec => []FramesAreRouted`, is about the framing
algorithm itself, for every header, every number of length digits in either
encoding, any payloads and any way to cut the stream (`FrameAssumption`: what
`normalizeOptions` accepts). `FrameInv`: until the connection breaks, what the
session holds and what is on its way are together the stream from the frame that
is next, and what it holds is no whole frame (`StreamInv`). The lemmas are the
correctness of the code: a length that fits its digits is read as it was written
(`LengthSurvives`), a frame decodes whole and nothing shorter does
(`DecodeWhole`), what is not a frame is refused as soon as its prefix is there
(`DecodeJunk`, `JunkArrived`), and draining keeps the stream (`DrainsKeep`).
`HostFraming` writes the loops as recursive functions; that such a function
exists and what it computes is derived from least elements of sets of numbers
(`LeastNumber`, `UpTo`, `IteratesExist`), because the library's induction rule
cannot be instantiated.

The rest of `KioskProofs` is about the platform below the application:

- `AnnouncementsHold`, `PlatformSpec => []AnnouncementsAreHonest`
  (`PresenterAssumption`). `BusInv`: an envelope waits for the last one queued
  under its key before it, and a dead letter is traced to its cause; `queueTail`
  is that last envelope since `dispose()`. `RequestInv`: a responder the walk has
  passed was asked or had left. `PresenterInv`: who may be heard, and that a
  session nobody started stays silent.
- `StoragesAreSerial`, `PlatformSpec => []StorageIsSerial` (`StorageAssumption`).
  `StorageInv`: only the head of the queue has a transaction (`TurnInv`), what
  `BEGIN` found is what the committed calls left, save for plain writes, which go
  on meanwhile (`CommittedInv`), how far the open transaction has come
  (`ProgressInv`), and a migration in the journal is complete (`BootInv`).
- `ConfigurationHolds`, `ConfigSpec => []ConfigurationIsHonest`
  (`ConfigAssumption`). `ConfigInv`: everything loaded, served or about to be was
  held by a provider (`HeldInv`); a provider still holds what a write that nothing
  overlapped left there (`LeftInv`), and a reload that nothing overlapped has
  read what the providers say (`ReadInv`); a removal has a half-way state of its
  own, in which the view agrees only after it is applied (`ViewInv`).
- `PluginsAreTakenDown`, `PluginSpec => []PluginsEndClean` (`PluginAssumption`:
  the preset names no plugin twice). `PluginInv`: where the plugins before and
  behind the one at work are in each phase (`StartupInv`, `DisposalInv`), that
  who is gone owns nothing unless a dispose rejected (`OwnedInv`), and that each
  registry entry stays sorted through insertions and removals.

Every invariant named here was checked with TLC before it was proved.

Every safety property the runs check is thereby a theorem, but for two, which are
computations over data. `PlanIsSound`, the finalizers' topological sort, is a
recursive walk of a graph; `MessageSurvives`, the message codecs, packs and
unpacks values whose widths differ by field. Both stay with TLC, over every
input within their bounds. So does all liveness, which is out of the prover's
reach, as is `ENABLED`.

## 5. Plan

Done: the models and runs of every component in section 2, and the proofs of
section 4. Left, in this order:

1. An abstract specification of the cash session that `CashSession` implements
   and `Withdrawal` uses.
2. `FinalizerOrder` with its walk as a recursive function, and `PlanIsSound` for
   every set of finalizers.
3. `MessageSurvives`, by the way `LengthSurvives` went.

## 6. Not modelled

See the components with status `not_modelled` or `partly` in `PROJECT.json`.
Timing is abstracted to order: a timeout may happen whenever the code waits.
Hostd's protection journal is taken to agree with the cash session unless a
fault is spent. A process lost in the middle of `execute` is not part of
`Withdrawal`: what a restart then does with the notes is `CashSystem`, with the
record `Finalization`. The finalizers' bodies, the investigation projection, the
registries that are frozen at startup, the Node test adapters, middleware and
throttling of commands, repeating groups and MACs of host messages, rendering,
speech and logging are left out: they hold no state the properties relate, or
only translate requests.
