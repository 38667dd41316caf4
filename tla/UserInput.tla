----------------------------- MODULE UserInput -----------------------------
(***************************************************************************)
(* User input nodes at work: UserInputNodeExecutor (flow-engine), the       *)
(* device lock manager and the input brokers (device-core) and the XFS PIN  *)
(* pad port with its input control (xfs-device-service).  An execution is   *)
(* one run of a user input node; a re-entered node, or the node entered     *)
(* after a node timeout while the old executor still cleans up, is another. *)
(* Every execution races one UI source (the correlated broker) and one PIN  *)
(* source (the PIN pad).  Timers, aborts and interrupts may fire whenever   *)
(* their race is open; progress events only reset the idle timer and are    *)
(* visible as the digit count.                                              *)
(***************************************************************************)
EXTENDS Naturals, Sequences, FiniteSets

CONSTANTS
  Execs,        \* executions of user input nodes; also their interaction ids
  NoExec,       \* no execution
  MinLength,    \* options.minLength of the PIN source
  MaxLength,    \* options.maxLength of the PIN source
  MaxKeys,      \* bound: key presses
  MaxConfirms,  \* bound: confirmations sent by the UI
  MaxFaults,    \* bound: cancel or confirm calls the native layer rejects
  Tombstones    \* completedInteractionRetention

ASSUME InputAssumption ==
  /\ NoExec \notin Execs
  /\ MinLength \in Nat /\ MaxLength \in Nat /\ MinLength <= MaxLength
  /\ Tombstones \in Nat

VARIABLES
  ex,        \* [Execs -> [pc, aborted, failed, named]]: the executor of a node;
             \* named: its PIN source has a deviceId
  ui, pinS,  \* [Execs -> session state]: the session of the UI / PIN source
  settled,   \* [Execs -> SUBSET {"ui", "pin"}]: settledSessionIds
  held,      \* holder of the PIN pad's device lock
  pending,   \* execution pending on the broker's channel
  tombs,     \* completed interactions of the broker, oldest first
  pin,       \* the PIN pad port's active input
  cancels,   \* session cancellations on their way to the native layer
  by,        \* history: [Execs -> identity of the submission that resolved it]
  foreign,   \* history: <<d, e>> once the cleanup of d cancelled the PIN entry of e
  keys, confirms, faults

inputVars == <<ex, ui, pinS, settled, held, pending, tombs, pin, cancels, by,
               foreign, keys, confirms, faults>>

SessionStates == {"none", "active", "resolved", "rejected"}
InputPcs == {"idle", "locking", "startPin", "startUi", "waiting", "validating",
        "cleanup", "release", "done"}

NoPin == [owner |-> NoExec, phase |-> "entry", digits |-> 0, completing |-> FALSE]

InputInit ==
  /\ ex \in [Execs -> [pc : {"idle"}, aborted : {FALSE}, failed : {FALSE}, named : BOOLEAN]]
  /\ ui = [e \in Execs |-> "none"]
  /\ pinS = [e \in Execs |-> "none"]
  /\ settled = [e \in Execs |-> {}]
  /\ held = NoExec
  /\ pending = NoExec
  /\ tombs = <<>>
  /\ pin = NoPin
  /\ cancels = {}
  /\ by = [e \in Execs |-> NoExec]
  /\ foreign = {}
  /\ keys = 0 /\ confirms = 0 /\ faults = 0

Goto(e, at) == ex' = [ex EXCEPT ![e].pc = at]
Bounds == <<keys, confirms, faults>>

-----------------------------------------------------------------------------
(* The executor: resolve, lock, start, race, validate, clean up *)

\* execute(): profile, validation, sources and conditions are resolved.
Enter(e) ==
  /\ ex[e].pc = "idle"
  /\ Goto(e, "locking")
  /\ UNCHANGED <<ui, pinS, settled, held, pending, tombs, pin, cancels, by, foreign, Bounds>>

\* DeviceLockManager.acquire() of the devices the sources name: all of them or
\* an error, which leaves the node before any session exists.  A PIN source
\* without a deviceId names none, and the lease is empty.
Acquire(e) ==
  /\ ex[e].pc = "locking"
  /\ \/ /\ ex[e].named /\ held = NoExec
        /\ held' = e /\ Goto(e, "startPin")
     \/ /\ ex[e].named /\ held # NoExec
        /\ UNCHANGED held /\ Goto(e, "done")
     \/ /\ ~ex[e].named
        /\ UNCHANGED held /\ Goto(e, "startPin")
  /\ UNCHANGED <<ui, pinS, settled, pending, tombs, pin, cancels, by, foreign, Bounds>>

\* beginInput(): one input at a time per port.
BeginInput == pin.owner = NoExec

\* The PIN adapter starts its session: getPin() registers the input control,
\* or rejects at once while another input is active; a PIN pad that is not
\* registered is skipped by canStart().
StartPin(e) ==
  /\ ex[e].pc = "startPin"
  /\ \/ /\ BeginInput
        /\ pin' = [NoPin EXCEPT !.owner = e]
        /\ pinS' = [pinS EXCEPT ![e] = "active"]
     \/ /\ ~BeginInput
        /\ pinS' = [pinS EXCEPT ![e] = "rejected"]
        /\ UNCHANGED pin
     \/ UNCHANGED <<pin, pinS>>
  /\ Goto(e, "startUi")
  /\ UNCHANGED <<ui, settled, held, pending, tombs, cancels, by, foreign, Bounds>>

\* The broker starts the UI session unless its channel is busy or the identity
\* has a tombstone, which throws and leaves through the finally block.
StartUi(e) ==
  /\ ex[e].pc = "startUi"
  /\ IF pending = NoExec /\ \A k \in 1..Len(tombs) : tombs[k] # e
     THEN /\ pending' = e /\ ui' = [ui EXCEPT ![e] = "active"]
          /\ Goto(e, "waiting")
     ELSE UNCHANGED <<pending, ui>> /\ Goto(e, "cleanup")
  /\ UNCHANGED <<pinS, settled, held, tombs, pin, cancels, by, foreign, Bounds>>

\* waitForInput(): a session of e settles first; a result is remembered in
\* settledSessionIds, a rejection leaves the node with the session unsettled.
RaceSession(e) ==
  /\ ex[e].pc = "waiting"
  /\ \/ /\ ui[e] = "resolved" /\ settled' = [settled EXCEPT ![e] = @ \cup {"ui"}]
        /\ Goto(e, "validating")
     \/ /\ pinS[e] = "resolved" /\ settled' = [settled EXCEPT ![e] = @ \cup {"pin"}]
        /\ Goto(e, "validating")
     \/ /\ "rejected" \in {ui[e], pinS[e]}
        /\ Goto(e, "cleanup") /\ UNCHANGED settled
  /\ UNCHANGED <<ui, pinS, held, pending, tombs, pin, cancels, by, foreign, Bounds>>

\* Hard timeout, idle timeout or interrupt wins the race.
RaceTimeout(e) ==
  /\ ex[e].pc = "waiting"
  /\ Goto(e, "cleanup")
  /\ UNCHANGED <<ui, pinS, settled, held, pending, tombs, pin, cancels, by, foreign, Bounds>>

\* The flow or the node timer aborts the node's signal: seen by the race only.
Abort(e) ==
  /\ ex[e].pc \notin {"idle", "done"} /\ ~ex[e].aborted
  /\ ex' = [ex EXCEPT ![e].aborted = TRUE]
  /\ UNCHANGED <<ui, pinS, settled, held, pending, tombs, pin, cancels, by, foreign, Bounds>>

\* The race listens to the signal, also when it was aborted before the race.
RaceAbort(e) ==
  /\ ex[e].pc = "waiting" /\ ex[e].aborted
  /\ Goto(e, "cleanup")
  /\ UNCHANGED <<ui, pinS, settled, held, pending, tombs, pin, cancels, by, foreign, Bounds>>

\* Constraints, local and business validation chose stay, reenter, next or end
\* (or threw): every one of them leaves through the finally block.
Validate(e) ==
  /\ ex[e].pc = "validating"
  /\ Goto(e, "cleanup")
  /\ UNCHANGED <<ui, pinS, settled, held, pending, tombs, pin, cancels, by, foreign, Bounds>>

\* remember(): bounded tombstones.
Remember(t, e) ==
  IF Tombstones = 0 THEN <<>>
  ELSE IF Len(t) = Tombstones THEN Append(Tail(t), e) ELSE Append(t, e)

\* Mutant: sessions that lost the race are not cancelled.
CancelSessionsNone(e) ==
  /\ ex[e].pc = "cleanup"
  /\ Goto(e, "release")
  /\ UNCHANGED <<ui, pinS, settled, held, pending, tombs, pin, cancels, by, foreign, Bounds>>

\* cancelActiveSessions(): every session that did not deliver the result is
\* cancelled; the broker answers at once, the PIN pad's cancellation travels.
CancelSessions(e) ==
  /\ ex[e].pc = "cleanup"
  /\ IF ui[e] \in {"active", "resolved"} /\ "ui" \notin settled[e] /\ pending = e
     THEN /\ pending' = NoExec
          /\ tombs' = Remember(tombs, e)
          /\ ui' = [ui EXCEPT ![e] = "rejected"]
     ELSE UNCHANGED <<pending, tombs, ui>>
  /\ cancels' = IF pinS[e] # "none" /\ "pin" \notin settled[e]
                THEN cancels \cup {<<"exit", e>>} ELSE cancels
  /\ Goto(e, "release")
  /\ UNCHANGED <<pinS, settled, held, pin, by, foreign, Bounds>>

\* lease.release(), once the cancellations have answered; a rejected one skips
\* the release.
Release(e) ==
  /\ ex[e].pc = "release" /\ <<"exit", e>> \notin cancels
  /\ held' = IF held = e /\ ~ex[e].failed THEN NoExec ELSE held
  /\ Goto(e, "done")
  /\ UNCHANGED <<ui, pinS, settled, pending, tombs, pin, cancels, by, foreign, Bounds>>

-----------------------------------------------------------------------------
(* The correlated brokers *)

\* submit(): the screen of execution e, possibly a stale one, submits; only the
\* interaction that is pending is resolved, any other submission throws.
Submit(e) ==
  /\ ex[e].pc # "idle" /\ pending = e
  /\ ui' = [ui EXCEPT ![e] = "resolved"]
  /\ by' = [by EXCEPT ![e] = e]
  /\ tombs' = Remember(tombs, e)
  /\ pending' = NoExec
  /\ UNCHANGED <<ex, pinS, settled, held, pin, cancels, foreign, Bounds>>

\* The completion broker lists a session until its result settles.
Registered(e) == pinS[e] = "active" /\ pin.owner = e

\* beginCompletion(): still in the entry phase and long enough.
BeginCompletion == pin.phase = "entry" /\ pin.digits >= MinLength

\* CorrelatedInputCompletionBroker.complete() and the port's complete(): the
\* session is still registered (its result has not settled), no confirmation
\* is under way, the entry is long enough and still in its entry phase; the
\* native entry command is then cancelled.
Confirm(e) ==
  /\ confirms < MaxConfirms /\ confirms' = confirms + 1
  /\ Registered(e) /\ ~pin.completing /\ BeginCompletion
  /\ pin' = [pin EXCEPT !.completing = TRUE]
  /\ cancels' = cancels \cup {<<"confirm", e>>}
  /\ UNCHANGED <<ex, ui, pinS, settled, held, pending, tombs, by, foreign, keys, faults>>

-----------------------------------------------------------------------------
(* The PIN pad port and its native command *)

\* PinpadInputControl.handle(): digits, backspace and clear; the control counts
\* only while its input is active.
Key(k) ==
  /\ keys < MaxKeys /\ keys' = keys + 1
  /\ pin.owner # NoExec /\ pin.phase = "entry"
  /\ pin' = [pin EXCEPT !.digits =
       CASE k = "digit" -> IF @ < MaxLength THEN @ + 1 ELSE MaxLength
         [] k = "backspace" -> IF @ > 0 THEN @ - 1 ELSE 0
         [] k = "clear" -> 0]
  /\ UNCHANGED <<ex, ui, pinS, settled, held, pending, tombs, cancels, by, foreign, confirms, faults>>

\* The entry command returns 0: the control turns to the result phase and the
\* PIN block is requested.
PinEntered ==
  /\ pin.owner # NoExec /\ pin.phase = "entry" /\ pin.digits >= MinLength
  /\ pin' = [pin EXCEPT !.phase = "result"]
  /\ UNCHANGED <<ex, ui, pinS, settled, held, pending, tombs, cancels, by, foreign, Bounds>>

\* The entry or the PIN block command fails: the session is cancelled and the
\* device reset under a recovery lease before getPin() rejects.
PinFails ==
  /\ pin.owner # NoExec /\ pin.phase \in {"entry", "result"}
  /\ pin' = [pin EXCEPT !.phase = "recover"]
  /\ UNCHANGED <<ex, ui, pinS, settled, held, pending, tombs, cancels, by, foreign, Bounds>>

\* getPin() ends: endInput() in its finally block, then the promise settles.
PinEnds ==
  /\ pin.owner # NoExec /\ pin.phase \in {"result", "recover"}
  /\ pinS' = [pinS EXCEPT ![pin.owner] =
                IF pin.phase = "result" THEN "resolved" ELSE "rejected"]
  /\ pin' = NoPin
  /\ UNCHANGED <<ex, ui, settled, held, pending, tombs, cancels, by, foreign, Bounds>>

\* A session cancellation reaches the native layer, which cancels whatever
\* command is active on the session: the entry command of a confirmed input
\* counts as entered, any other command fails into recovery.  The operation id
\* passed to cancel() is not looked at.
CancelLands(c) ==
  /\ c \in cancels
  /\ cancels' = cancels \ {c}
  /\ foreign' = IF /\ c[1] = "exit" /\ pin.phase = "entry"
                   /\ pin.owner \notin {NoExec, c[2]}
                THEN foreign \cup {<<c[2], pin.owner>>} ELSE foreign
  /\ pin' = CASE pin.owner = NoExec -> pin
              [] pin.owner # NoExec /\ pin.phase = "entry" /\ pin.completing ->
                   [pin EXCEPT !.phase = "result"]
              [] OTHER -> [pin EXCEPT !.phase = "recover"]
  /\ UNCHANGED <<ex, ui, pinS, settled, held, pending, tombs, by, Bounds>>

\* The native layer rejects a cancellation: a confirmation is rolled back, the
\* cleanup of a node fails.
CancelRejected(c) ==
  /\ c \in cancels /\ faults < MaxFaults /\ faults' = faults + 1
  /\ cancels' = cancels \ {c}
  /\ IF c[1] = "confirm"
     THEN /\ pin' = IF pin.owner = c[2] THEN [pin EXCEPT !.completing = FALSE] ELSE pin
          /\ UNCHANGED ex
     ELSE /\ ex' = [ex EXCEPT ![c[2]].failed = TRUE]
          /\ UNCHANGED pin
  /\ UNCHANGED <<ui, pinS, settled, held, pending, tombs, by, foreign, keys, confirms>>

ExecStep(e) ==
  \/ Acquire(e) \/ StartPin(e) \/ StartUi(e) \/ RaceSession(e) \/ RaceAbort(e)
  \/ Validate(e) \/ CancelSessions(e) \/ Release(e)

InputNext ==
  \/ \E e \in Execs : \/ Enter(e) \/ ExecStep(e) \/ RaceTimeout(e) \/ Abort(e)
                      \/ Submit(e) \/ Confirm(e)
  \/ \E k \in {"digit", "backspace", "clear"} : Key(k)
  \/ PinEntered \/ PinFails \/ PinEnds
  \/ \E c \in cancels : CancelLands(c) \/ CancelRejected(c)

InputFairness ==
  /\ \A e \in Execs : WF_inputVars(ExecStep(e))
  /\ WF_inputVars(\E c \in cancels : CancelLands(c))
  /\ WF_inputVars(PinEnds)

InputSpec == InputInit /\ [][InputNext]_inputVars /\ InputFairness

-----------------------------------------------------------------------------
(* Properties *)

\* Executions, sessions, locks and the port have their types.
InputTypeOK ==
  /\ \A e \in Execs : /\ ex[e].pc \in InputPcs /\ settled[e] \subseteq {"ui", "pin"}
                      /\ ui[e] \in SessionStates /\ pinS[e] \in SessionStates
  /\ held \in Execs \cup {NoExec} /\ pending \in Execs \cup {NoExec}
  /\ pin.owner \in Execs \cup {NoExec} /\ pin.digits \in 0..MaxLength
  /\ pin.phase \in {"entry", "result", "recover"}
  /\ cancels \subseteq ({"exit", "confirm"} \X Execs) /\ foreign \subseteq (Execs \X Execs)
  /\ Len(tombs) <= Tombstones

\* CorrelatedInputSourceBroker: an interaction is resolved only by a submission
\* of its own screen, never by a stale one of an earlier execution.
OwnSubmissionOnly == \A e \in Execs : by[e] \in {NoExec, e}

\* A PIN entry whose source names its device is open for customer input only
\* under the device lock of the execution it belongs to (while no cleanup has
\* failed).  An entry whose source names none runs under no lock.
EntryUnderLock ==
  (/\ pin.owner # NoExec /\ ex[pin.owner].named /\ pin.phase = "entry"
   /\ \A e \in Execs : ~ex[e].failed) => held = pin.owner

\* Node exit leaves no interaction pending and no PIN entry open: what was
\* started is settled or cancelled before the executor returns.
CleanExit ==
  \A e \in Execs : (ex[e].pc = "done" /\ ~ex[e].failed) =>
    /\ pending # e /\ held # e
    /\ ~(pin.owner = e /\ pin.phase = "entry")

\* The PIN pad port cancels the session whatever the operation id says; the
\* device lock keeps a node's cleanup off a later execution's entry, when the
\* sources of both name the device.
CancelHitsOwnEntry ==
  faults = 0 => \A p \in foreign : ~(ex[p[1]].named /\ ex[p[2]].named)

\* An aborted node execution ends and gives its device back (or its cleanup was
\* refused by the native layer).
AbortedExecutionEnds ==
  <>[](\A e \in Execs : ex[e].aborted =>
         ex[e].pc = "done" /\ (held # e \/ ex[e].failed))

\* UserInputNodeExecutor: an execution has the submission to itself from its start
\* to its exit, whoever is late, and so has it the entry and the lock when its PIN
\* source names the device (the two conjuncts that need it say so).
EntryIsOwn ==
  InputTypeOK /\ OwnSubmissionOnly /\ EntryUnderLock /\ CleanExit /\ CancelHitsOwnEntry
=============================================================================
