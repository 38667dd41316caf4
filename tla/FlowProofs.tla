----------------------------- MODULE FlowProofs -----------------------------
(***************************************************************************)
(* Proofs about the flow engine.  First its user input nodes, for any       *)
(* number of executions, key presses, confirmations and refused             *)
(* cancellations; then the engine and its instances, for any flows, any     *)
(* number of instances, any depth of subflows and any rejecting handlers.   *)
(***************************************************************************)
EXTENDS FlowEngine, UserInput, FiniteSetTheorems, TLAPS

-----------------------------------------------------------------------------
(* The user input nodes *)

Executions == [pc : InputPcs, aborted : BOOLEAN, failed : BOOLEAN, named : BOOLEAN]
Owners == Execs \cup {NoExec}
PinInputs ==
  [owner : Owners, phase : {"entry", "result", "recover"}, digits : 0..MaxLength,
   completing : BOOLEAN]

InputTypes ==
  /\ ex \in [Execs -> Executions]
  /\ ui \in [Execs -> SessionStates] /\ pinS \in [Execs -> SessionStates]
  /\ settled \in [Execs -> SUBSET {"ui", "pin"}]
  /\ held \in Owners /\ pending \in Owners /\ pin \in PinInputs
  /\ tombs \in Seq(Execs) /\ Len(tombs) <= Tombstones
  /\ cancels \subseteq ({"exit", "confirm"} \X Execs)
  /\ by \in [Execs -> Owners] /\ foreign \subseteq (Execs \X Execs)
  /\ faults \in Nat

\* From the lock to its release an execution is between these two steps.
Holding == {"startPin", "startUi", "waiting", "validating", "cleanup", "release"}

\* The lock is held by the execution that is between the two, if its source names
\* the device, and kept by one whose cleanup was refused.
LockInv ==
  \A e \in Execs :
    /\ ex[e].named /\ ex[e].pc \in Holding => held = e
    /\ held = e => /\ ex[e].named
                   /\ ex[e].pc \in Holding \/ (ex[e].pc = "done" /\ ex[e].failed)

\* Only an execution that waits to release the lock has its cancellation under
\* way, and only a refused one has failed.
Exiting(e) == <<"exit", e>> \in cancels

CleanupInv ==
  \A e \in Execs :
    /\ Exiting(e) => ex[e].pc = "release"
    /\ ex[e].failed => faults > 0

\* The UI session: it waits on the broker from its start to the cleanup.
UiInv ==
  \A e \in Execs :
    /\ ex[e].pc \in {"idle", "locking", "startPin", "startUi"} => ui[e] = "none"
    /\ "ui" \in settled[e] => ui[e] = "resolved"
    /\ pending = e => ui[e] = "active" /\ ex[e].pc \in {"waiting", "validating", "cleanup"}

\* The PIN session: it is the port's input from its start to its end, and takes
\* digits until the cleanup, or until the cancellation of the cleanup lands.
PinInv ==
  \A e \in Execs :
    /\ ex[e].pc \in {"idle", "locking", "startPin"} => pinS[e] = "none"
    /\ "pin" \in settled[e] => pinS[e] = "resolved"
    /\ pin.owner = e => pinS[e] = "active"
    /\ (pin.owner = e /\ pin.phase = "entry") =>
         \/ ex[e].pc \in {"startUi", "waiting", "validating", "cleanup"}
         \/ ex[e].pc = "release" /\ Exiting(e)
         \/ ex[e].failed

InputInv ==
  /\ InputTypes /\ LockInv /\ CleanupInv /\ UiInv /\ PinInv
  /\ OwnSubmissionOnly /\ CancelHitsOwnEntry

\* Tombstones stay within their retention.
LEMMA RememberFacts ==
  ASSUME NEW t \in Seq(Execs), NEW e \in Execs, Len(t) <= Tombstones
  PROVE  Remember(t, e) \in Seq(Execs) /\ Len(Remember(t, e)) <= Tombstones
<1>1. CASE Tombstones = 0
  BY <1>1 DEF Remember
<1>2. CASE Tombstones # 0 /\ Len(t) = Tombstones
  <2>1. t # <<>> /\ Tail(t) \in Seq(Execs) /\ Len(Tail(t)) = Len(t) - 1
    BY <1>2, InputAssumption
  <2> QED
    BY <1>2, <2>1, InputAssumption DEF Remember
<1>3. CASE Tombstones # 0 /\ Len(t) # Tombstones
  BY <1>3, InputAssumption DEF Remember
<1> QED
  BY <1>1, <1>2, <1>3

\* A step of the executor changes nothing but the step it is at.
LEMMA GotoFacts ==
  ASSUME ex \in [Execs -> Executions], NEW e \in Execs, NEW at \in InputPcs, Goto(e, at)
  PROVE  /\ ex' \in [Execs -> Executions]
         /\ \A d \in Execs : /\ ex'[d].pc = IF d = e THEN at ELSE ex[d].pc
                             /\ ex'[d].failed = ex[d].failed /\ ex'[d].named = ex[d].named
BY DEF Goto, Executions

\* What a cleanup has hit is judged by the definitions of the sources.
LEMMA SameForeign ==
  ASSUME foreign \subseteq (Execs \X Execs), CancelHitsOwnEntry,
         \A d \in Execs : ex'[d].named = ex[d].named, UNCHANGED <<foreign, faults>>
  PROVE  CancelHitsOwnEntry'
BY DEF CancelHitsOwnEntry

\* No input on the port.
LEMMA NoPinFacts == NoPin \in PinInputs /\ NoPin.owner = NoExec
<1>1. 0 \in 0..MaxLength
  BY InputAssumption
<1> QED
  BY <1>1 DEF NoPin, PinInputs, Owners

\* A step inside the wait, or into the lock, that keeps the sessions and settles
\* only what was resolved.
LEMMA MoveKeeps ==
  ASSUME InputInv, NEW e \in Execs, NEW at \in InputPcs, Goto(e, at),
         \/ ex[e].pc = "idle" /\ at = "locking"
         \/ ex[e].pc \in {"waiting", "validating"} /\ at \in {"validating", "cleanup"},
         settled' \in [Execs -> SUBSET {"ui", "pin"}],
         \A d \in Execs : /\ "ui" \in settled'[d] => ui[d] = "resolved"
                          /\ "pin" \in settled'[d] => pinS[d] = "resolved",
         UNCHANGED <<ui, pinS, held, pending, tombs, pin, cancels, by, foreign, faults>>
  PROVE  InputInv'
<1>1. /\ ex' \in [Execs -> Executions]
      /\ \A d \in Execs : /\ ex'[d].pc = IF d = e THEN at ELSE ex[d].pc
                          /\ ex'[d].failed = ex[d].failed /\ ex'[d].named = ex[d].named
  BY GotoFacts DEF InputInv, InputTypes
<1>2. \A d \in Execs : Exiting(d)' <=> Exiting(d)
  BY DEF Exiting
<1>3. InputTypes'
  BY <1>1 DEF InputInv, InputTypes
<1>4. LockInv'
  BY <1>1 DEF InputInv, LockInv, Holding
<1>5. CleanupInv'
  BY <1>1, <1>2 DEF InputInv, CleanupInv
<1>6. UiInv'
  BY <1>1 DEF InputInv, UiInv
<1>7. PinInv'
  BY <1>1, <1>2 DEF InputInv, PinInv
<1>8. OwnSubmissionOnly' /\ CancelHitsOwnEntry'
  BY <1>1, SameForeign DEF InputInv, InputTypes, OwnSubmissionOnly
<1> QED
  BY <1>3, <1>4, <1>5, <1>6, <1>7, <1>8 DEF InputInv

LEMMA RaceKeeps ==
  ASSUME InputInv, NEW e \in Execs,
         \/ Enter(e) \/ RaceSession(e) \/ RaceTimeout(e) \/ RaceAbort(e) \/ Validate(e)
  PROVE  InputInv'
<1>1. settled \in [Execs -> SUBSET {"ui", "pin"}]
  BY DEF InputInv, InputTypes
<1>2. \A d \in Execs : /\ "ui" \in settled[d] => ui[d] = "resolved"
                       /\ "pin" \in settled[d] => pinS[d] = "resolved"
  BY DEF InputInv, UiInv, PinInv
<1>3. \A p \in {"locking", "validating", "cleanup"} : p \in InputPcs
  BY DEF InputPcs
<1>4. CASE Enter(e)
  BY <1>1, <1>2, <1>3, <1>4, MoveKeeps DEF Enter, Bounds
<1>5. CASE RaceSession(e)
  <2>1. \E at \in {"validating", "cleanup"} : Goto(e, at)
    BY <1>5 DEF RaceSession
  <2>2. /\ ex[e].pc = "waiting"
        /\ UNCHANGED <<ui, pinS, held, pending, tombs, pin, cancels, by, foreign, faults>>
    BY <1>5 DEF RaceSession, Bounds
  <2>3. /\ settled' \in [Execs -> SUBSET {"ui", "pin"}]
        /\ \A d \in Execs : /\ "ui" \in settled'[d] => ui[d] = "resolved"
                            /\ "pin" \in settled'[d] => pinS[d] = "resolved"
    <3>1. CASE UNCHANGED settled
      BY <1>1, <1>2, <3>1
    <3>2. CASE ui[e] = "resolved" /\ settled' = [settled EXCEPT ![e] = @ \cup {"ui"}]
      BY <1>1, <1>2, <3>2
    <3>3. CASE pinS[e] = "resolved" /\ settled' = [settled EXCEPT ![e] = @ \cup {"pin"}]
      BY <1>1, <1>2, <3>3
    <3> QED
      BY <1>5, <3>1, <3>2, <3>3 DEF RaceSession
  <2> QED
    BY <1>3, <2>1, <2>2, <2>3, MoveKeeps
<1>6. CASE RaceTimeout(e)
  BY <1>1, <1>2, <1>3, <1>6, MoveKeeps DEF RaceTimeout, Bounds
<1>7. CASE RaceAbort(e)
  BY <1>1, <1>2, <1>3, <1>7, MoveKeeps DEF RaceAbort, Bounds
<1>8. CASE Validate(e)
  BY <1>1, <1>2, <1>3, <1>8, MoveKeeps DEF Validate, Bounds
<1> QED
  BY <1>4, <1>5, <1>6, <1>7, <1>8

LEMMA AbortKeeps ==
  ASSUME InputInv, NEW e \in Execs, Abort(e)
  PROVE  InputInv'
<1>1. /\ ex' \in [Execs -> Executions]
      /\ \A d \in Execs : ex'[d].pc = ex[d].pc /\ ex'[d].failed = ex[d].failed /\ ex'[d].named = ex[d].named /\ ex'[d].named = ex[d].named
  BY DEF InputInv, InputTypes, Abort, Executions
<1>2. UNCHANGED <<ui, pinS, settled, held, pending, tombs, pin, cancels, by, foreign, faults>>
  BY DEF Abort, Bounds
<1>3. \A d \in Execs : Exiting(d)' <=> Exiting(d)
  BY <1>2 DEF Exiting
<1>4. InputTypes'
  BY <1>1, <1>2 DEF InputInv, InputTypes
<1>5. LockInv' /\ UiInv'
  BY <1>1, <1>2 DEF InputInv, LockInv, UiInv
<1>6. CleanupInv' /\ PinInv'
  BY <1>1, <1>2, <1>3 DEF InputInv, CleanupInv, PinInv
<1>7. OwnSubmissionOnly' /\ CancelHitsOwnEntry'
  BY <1>1, <1>2, SameForeign DEF InputInv, InputTypes, OwnSubmissionOnly
<1> QED
  BY <1>4, <1>5, <1>6, <1>7 DEF InputInv

LEMMA AcquireKeeps ==
  ASSUME InputInv, NEW e \in Execs, Acquire(e)
  PROVE  InputInv'
<1>1. PICK at \in {"startPin", "done"} :
        /\ Goto(e, at) /\ ex[e].pc = "locking"
        /\ \/ ex[e].named /\ at = "startPin" /\ held = NoExec /\ held' = e
           \/ held' = held /\ (ex[e].named => at = "done")
  BY DEF Acquire
<1>2. /\ ex' \in [Execs -> Executions]
      /\ \A d \in Execs : /\ ex'[d].pc = IF d = e THEN at ELSE ex[d].pc
                          /\ ex'[d].failed = ex[d].failed /\ ex'[d].named = ex[d].named
  BY <1>1, GotoFacts DEF InputInv, InputTypes, InputPcs
<1>3. UNCHANGED <<ui, pinS, settled, pending, tombs, pin, cancels, by, foreign, faults>>
  BY DEF Acquire, Bounds
<1>4. \A d \in Execs : Exiting(d)' <=> Exiting(d)
  BY <1>3 DEF Exiting
<1>5. InputTypes'
  BY <1>1, <1>2, <1>3 DEF InputInv, InputTypes, Owners
<1>6. LockInv'
  BY <1>1, <1>2, InputAssumption DEF InputInv, LockInv, Holding
<1>7. UiInv'
  BY <1>1, <1>2, <1>3 DEF InputInv, UiInv
<1>8. CleanupInv' /\ PinInv'
  BY <1>1, <1>2, <1>3, <1>4 DEF InputInv, CleanupInv, PinInv
<1>9. OwnSubmissionOnly' /\ CancelHitsOwnEntry'
  BY <1>2, <1>3, SameForeign DEF InputInv, InputTypes, OwnSubmissionOnly
<1> QED
  BY <1>5, <1>6, <1>7, <1>8, <1>9 DEF InputInv

LEMMA StartPinKeeps ==
  ASSUME InputInv, NEW e \in Execs, StartPin(e)
  PROVE  InputInv'
<1>1. /\ ex[e].pc = "startPin" /\ ex' \in [Execs -> Executions]
      /\ \A d \in Execs : /\ ex'[d].pc = IF d = e THEN "startUi" ELSE ex[d].pc
                          /\ ex'[d].failed = ex[d].failed /\ ex'[d].named = ex[d].named
  BY GotoFacts DEF InputInv, InputTypes, InputPcs, StartPin
<1>2. UNCHANGED <<ui, settled, held, pending, tombs, cancels, by, foreign, faults>>
  BY DEF StartPin, Bounds
<1>3. /\ pin' \in PinInputs /\ pinS' \in [Execs -> SessionStates]
      /\ \A d \in Execs : d # e => pinS'[d] = pinS[d]
      /\ \/ pin.owner = NoExec /\ pin'.owner = e /\ pinS'[e] = "active"
         \/ pin' = pin
  <2>1. pin \in PinInputs /\ pinS \in [Execs -> SessionStates] /\ "active" \in SessionStates
        /\ "rejected" \in SessionStates
    BY DEF InputInv, InputTypes, SessionStates
  <2>2. [NoPin EXCEPT !.owner = e] \in PinInputs /\ [NoPin EXCEPT !.owner = e].owner = e
    BY NoPinFacts DEF PinInputs, Owners
  <2> QED
    BY <2>1, <2>2 DEF StartPin, BeginInput
<1>4. \A d \in Execs : Exiting(d)' <=> Exiting(d)
  BY <1>2 DEF Exiting
<1>5. pinS[e] = "none" /\ pin.owner # e /\ "pin" \notin settled[e]
  BY <1>1 DEF InputInv, PinInv
<1>6. InputTypes'
  BY <1>1, <1>2, <1>3 DEF InputInv, InputTypes
<1>7. LockInv' /\ UiInv'
  BY <1>1, <1>2 DEF InputInv, LockInv, UiInv, Holding
<1>8. CleanupInv'
  BY <1>1, <1>2, <1>4 DEF InputInv, CleanupInv
<1>9. PinInv'
  BY <1>1, <1>2, <1>3, <1>4, <1>5, InputAssumption DEF InputInv, PinInv
<1>10. OwnSubmissionOnly' /\ CancelHitsOwnEntry'
  BY <1>1, <1>2, SameForeign DEF InputInv, InputTypes, OwnSubmissionOnly
<1> QED
  BY <1>6, <1>7, <1>8, <1>9, <1>10 DEF InputInv

LEMMA StartUiKeeps ==
  ASSUME InputInv, NEW e \in Execs, StartUi(e)
  PROVE  InputInv'
<1>1. PICK at \in {"waiting", "cleanup"} :
        /\ Goto(e, at) /\ ex[e].pc = "startUi"
        /\ \/ /\ at = "waiting" /\ pending = NoExec /\ pending' = e
              /\ ui' = [ui EXCEPT ![e] = "active"]
           \/ at = "cleanup" /\ pending' = pending /\ ui' = ui
  BY DEF StartUi
<1>2. /\ ex' \in [Execs -> Executions]
      /\ \A d \in Execs : /\ ex'[d].pc = IF d = e THEN at ELSE ex[d].pc
                          /\ ex'[d].failed = ex[d].failed /\ ex'[d].named = ex[d].named
  BY <1>1, GotoFacts DEF InputInv, InputTypes, InputPcs
<1>3. UNCHANGED <<pinS, settled, held, tombs, pin, cancels, by, foreign, faults>>
  BY DEF StartUi, Bounds
<1>4. \A d \in Execs : Exiting(d)' <=> Exiting(d)
  BY <1>3 DEF Exiting
<1>5. ui \in [Execs -> SessionStates] /\ ui[e] = "none" /\ "ui" \notin settled[e] /\ pending # e
  BY <1>1 DEF InputInv, InputTypes, UiInv
<1>6. InputTypes'
  BY <1>1, <1>2, <1>3 DEF InputInv, InputTypes, Owners, SessionStates
<1>7. LockInv'
  BY <1>1, <1>2, <1>3 DEF InputInv, LockInv, Holding
<1>8. UiInv'
  BY <1>1, <1>2, <1>3, <1>5, InputAssumption DEF InputInv, UiInv
<1>9. CleanupInv' /\ PinInv'
  BY <1>1, <1>2, <1>3, <1>4 DEF InputInv, CleanupInv, PinInv
<1>10. OwnSubmissionOnly' /\ CancelHitsOwnEntry'
  BY <1>2, <1>3, SameForeign DEF InputInv, InputTypes, OwnSubmissionOnly
<1> QED
  BY <1>6, <1>7, <1>8, <1>9, <1>10 DEF InputInv

\* The cleanup leaves nothing on the broker, and an entry that is still open has
\* its cancellation under way.
LEMMA CancelSessionsKeeps ==
  ASSUME InputInv, NEW e \in Execs, CancelSessions(e)
  PROVE  InputInv'
<1>1. /\ ex[e].pc = "cleanup" /\ ex' \in [Execs -> Executions]
      /\ \A d \in Execs : /\ ex'[d].pc = IF d = e THEN "release" ELSE ex[d].pc
                          /\ ex'[d].failed = ex[d].failed /\ ex'[d].named = ex[d].named
  BY GotoFacts DEF InputInv, InputTypes, InputPcs, CancelSessions
<1>2. UNCHANGED <<pinS, settled, held, pin, by, foreign, faults>>
  BY DEF CancelSessions, Bounds
<1>3. /\ ui' \in [Execs -> SessionStates] /\ \A d \in Execs : d # e => ui'[d] = ui[d]
      /\ "ui" \in settled[e] => ui'[e] = "resolved"
      /\ pending' \in Owners /\ pending' # e
      /\ \A d \in Execs : pending' = d => pending = d
      /\ tombs' \in Seq(Execs) /\ Len(tombs') <= Tombstones
  <2>1. /\ ui \in [Execs -> SessionStates] /\ pending \in Owners
        /\ tombs \in Seq(Execs) /\ Len(tombs) <= Tombstones
    BY DEF InputInv, InputTypes
  <2>2. CASE ui[e] \in {"active", "resolved"} /\ "ui" \notin settled[e] /\ pending = e
    <3>1. pending' = NoExec /\ tombs' = Remember(tombs, e) /\ ui' = [ui EXCEPT ![e] = "rejected"]
      BY <2>2 DEF CancelSessions
    <3>2. tombs' \in Seq(Execs) /\ Len(tombs') <= Tombstones
      BY <2>1, <3>1, RememberFacts
    <3> QED
      BY <2>1, <2>2, <3>1, <3>2, InputAssumption DEF Owners, SessionStates
  <2>3. CASE ~(ui[e] \in {"active", "resolved"} /\ "ui" \notin settled[e] /\ pending = e)
    <3>1. UNCHANGED <<pending, tombs, ui>>
      BY <2>3 DEF CancelSessions
    <3>2. /\ "ui" \in settled[e] => ui[e] = "resolved"
          /\ pending = e => ui[e] = "active"
      BY DEF InputInv, UiInv
    <3> QED
      BY <2>1, <2>3, <3>1, <3>2
  <2> QED
    BY <2>2, <2>3
<1>4. /\ cancels' \subseteq ({"exit", "confirm"} \X Execs)
      /\ \A d \in Execs : d # e => (Exiting(d)' <=> Exiting(d))
      /\ pinS[e] # "none" /\ "pin" \notin settled[e] => Exiting(e)'
  BY DEF InputInv, InputTypes, CancelSessions, Exiting
<1>5. InputTypes'
  BY <1>1, <1>2, <1>3, <1>4 DEF InputInv, InputTypes
<1>6. LockInv'
  BY <1>1, <1>2 DEF InputInv, LockInv, Holding
<1>7. CleanupInv'
  BY <1>1, <1>2, <1>4 DEF InputInv, CleanupInv
<1>8. UiInv'
  BY <1>1, <1>2, <1>3 DEF InputInv, UiInv
<1>9. PinInv'
  BY <1>1, <1>2, <1>4 DEF InputInv, PinInv
<1>10. OwnSubmissionOnly' /\ CancelHitsOwnEntry'
  BY <1>1, <1>2, SameForeign DEF InputInv, InputTypes, OwnSubmissionOnly
<1> QED
  BY <1>5, <1>6, <1>7, <1>8, <1>9, <1>10 DEF InputInv

LEMMA ReleaseKeeps ==
  ASSUME InputInv, NEW e \in Execs, Release(e)
  PROVE  InputInv'
<1>1. /\ ex[e].pc = "release" /\ ~Exiting(e) /\ ex' \in [Execs -> Executions]
      /\ \A d \in Execs : /\ ex'[d].pc = IF d = e THEN "done" ELSE ex[d].pc
                          /\ ex'[d].failed = ex[d].failed /\ ex'[d].named = ex[d].named
  BY GotoFacts DEF InputInv, InputTypes, InputPcs, Release, Exiting
<1>2. UNCHANGED <<ui, pinS, settled, pending, tombs, pin, cancels, by, foreign, faults>>
  BY DEF Release, Bounds
<1>3. /\ ex[e].named => held = e /\ held' = IF ex[e].failed THEN e ELSE NoExec
      /\ ~ex[e].named => held # e /\ held' = held
  BY <1>1 DEF InputInv, LockInv, Holding, Release
<1>4. \A d \in Execs : Exiting(d)' <=> Exiting(d)
  BY <1>2 DEF Exiting
<1>5. InputTypes'
  BY <1>1, <1>2, <1>3 DEF InputInv, InputTypes, Owners
<1>6. LockInv'
  BY <1>1, <1>3, InputAssumption DEF InputInv, LockInv, Holding
<1>7. CleanupInv'
  BY <1>1, <1>2, <1>4 DEF InputInv, CleanupInv
<1>8. UiInv'
  BY <1>1, <1>2 DEF InputInv, UiInv
<1>9. PinInv'
  BY <1>1, <1>2, <1>4 DEF InputInv, PinInv
<1>10. OwnSubmissionOnly' /\ CancelHitsOwnEntry'
  BY <1>1, <1>2, SameForeign DEF InputInv, InputTypes, OwnSubmissionOnly
<1> QED
  BY <1>5, <1>6, <1>7, <1>8, <1>9, <1>10 DEF InputInv

LEMMA SubmitKeeps ==
  ASSUME InputInv, NEW e \in Execs, Submit(e)
  PROVE  InputInv'
<1>1. /\ pending = e /\ pending' = NoExec /\ ui' = [ui EXCEPT ![e] = "resolved"]
      /\ by' = [by EXCEPT ![e] = e] /\ tombs' = Remember(tombs, e)
      /\ UNCHANGED <<ex, pinS, settled, held, pin, cancels, foreign, faults>>
  BY DEF Submit, Bounds
<1>2. \A d \in Execs : Exiting(d)' <=> Exiting(d)
  BY <1>1 DEF Exiting
<1>3. InputTypes'
  <2>1. tombs' \in Seq(Execs) /\ Len(tombs') <= Tombstones
    BY <1>1, RememberFacts DEF InputInv, InputTypes
  <2> QED
    BY <1>1, <2>1 DEF InputInv, InputTypes, Owners, SessionStates
<1>4. UiInv'
  BY <1>1, InputAssumption DEF InputInv, InputTypes, UiInv
<1>5. LockInv'
  BY <1>1 DEF InputInv, LockInv
<1>6. CleanupInv' /\ PinInv'
  BY <1>1, <1>2 DEF InputInv, CleanupInv, PinInv
<1>7. OwnSubmissionOnly' /\ CancelHitsOwnEntry'
  BY <1>1 DEF InputInv, InputTypes, OwnSubmissionOnly, CancelHitsOwnEntry
<1> QED
  BY <1>3, <1>4, <1>5, <1>6, <1>7 DEF InputInv

\* A step of the port that keeps its input and never goes back to the entry phase.
LEMMA PortKeeps ==
  ASSUME InputInv, pin' \in PinInputs, pin'.owner = pin.owner,
         pin'.phase = "entry" => pin.phase = "entry",
         cancels' \subseteq ({"exit", "confirm"} \X Execs),
         \A d \in Execs : Exiting(d)' <=> Exiting(d),
         UNCHANGED <<ex, ui, pinS, settled, held, pending, tombs, by, foreign, faults>>
  PROVE  InputInv'
<1>1. InputTypes'
  BY DEF InputInv, InputTypes
<1>2. LockInv' /\ UiInv'
  BY DEF InputInv, LockInv, UiInv
<1>3. CleanupInv'
  BY DEF InputInv, CleanupInv
<1>4. PinInv'
  BY DEF InputInv, PinInv
<1>5. OwnSubmissionOnly' /\ CancelHitsOwnEntry'
  BY DEF InputInv, OwnSubmissionOnly, CancelHitsOwnEntry
<1> QED
  BY <1>1, <1>2, <1>3, <1>4, <1>5 DEF InputInv

LEMMA ConfirmKeeps ==
  ASSUME InputInv, NEW e \in Execs, Confirm(e)
  PROVE  InputInv'
<1>1. pin \in PinInputs /\ cancels \subseteq ({"exit", "confirm"} \X Execs)
  BY DEF InputInv, InputTypes
<1>2. pin' = [pin EXCEPT !.completing = TRUE] /\ cancels' = cancels \cup {<<"confirm", e>>}
  BY DEF Confirm
<1>3. pin' \in PinInputs /\ pin'.owner = pin.owner /\ pin'.phase = pin.phase
  BY <1>1, <1>2 DEF PinInputs
<1>4. /\ cancels' \subseteq ({"exit", "confirm"} \X Execs)
      /\ \A d \in Execs : Exiting(d)' <=> Exiting(d)
  BY <1>1, <1>2 DEF Exiting
<1>5. UNCHANGED <<ex, ui, pinS, settled, held, pending, tombs, by, foreign, faults>>
  BY DEF Confirm
<1> QED
  BY <1>3, <1>4, <1>5, PortKeeps

LEMMA KeyKeeps ==
  ASSUME InputInv, NEW k \in {"digit", "backspace", "clear"}, Key(k)
  PROVE  InputInv'
<1>1. pin \in PinInputs /\ cancels \subseteq ({"exit", "confirm"} \X Execs)
  BY DEF InputInv, InputTypes
<1>2. UNCHANGED <<ex, ui, pinS, settled, held, pending, tombs, cancels, by, foreign, faults>>
  BY DEF Key
<1>3. PICK n \in 0..MaxLength : pin' = [pin EXCEPT !.digits = n]
  <2>1. pin.digits \in 0..MaxLength
    BY <1>1 DEF PinInputs
  <2>2. CASE k = "digit"
    BY <2>1, <2>2, InputAssumption DEF Key
  <2>3. CASE k = "backspace"
    BY <2>1, <2>3, InputAssumption DEF Key
  <2>4. CASE k = "clear"
    BY <2>1, <2>4, InputAssumption DEF Key
  <2> QED
    BY <2>2, <2>3, <2>4
<1>4. pin' \in PinInputs /\ pin'.owner = pin.owner /\ pin'.phase = pin.phase
  BY <1>1, <1>3 DEF PinInputs
<1>5. \A d \in Execs : Exiting(d)' <=> Exiting(d)
  BY <1>2 DEF Exiting
<1> QED
  BY <1>1, <1>2, <1>4, <1>5, PortKeeps

LEMMA PinPhaseKeeps ==
  ASSUME InputInv, PinEntered \/ PinFails
  PROVE  InputInv'
<1>1. pin \in PinInputs /\ cancels \subseteq ({"exit", "confirm"} \X Execs)
  BY DEF InputInv, InputTypes
<1>2. PICK p \in {"result", "recover"} : pin' = [pin EXCEPT !.phase = p]
  BY DEF PinEntered, PinFails
<1>3. UNCHANGED <<ex, ui, pinS, settled, held, pending, tombs, cancels, by, foreign, faults>>
  BY DEF PinEntered, PinFails, Bounds
<1>4. pin' \in PinInputs /\ pin'.owner = pin.owner /\ pin'.phase # "entry"
  BY <1>1, <1>2 DEF PinInputs
<1>5. \A d \in Execs : Exiting(d)' <=> Exiting(d)
  BY <1>3 DEF Exiting
<1> QED
  BY <1>1, <1>3, <1>4, <1>5, PortKeeps

LEMMA PinEndsKeeps ==
  ASSUME InputInv, PinEnds
  PROVE  InputInv'
<1>1. PICK o \in Execs : o = pin.owner
  BY DEF InputInv, InputTypes, PinInputs, Owners, PinEnds
<1>2. PICK s \in {"resolved", "rejected"} : pinS' = [pinS EXCEPT ![o] = s]
  BY <1>1 DEF PinEnds
<1>3. pin' = NoPin /\ UNCHANGED <<ex, ui, settled, held, pending, tombs, cancels, by, foreign, faults>>
  BY DEF PinEnds, Bounds
<1>4. pin' \in PinInputs /\ pin'.owner = NoExec
  BY <1>3, NoPinFacts
<1>5. \A d \in Execs : Exiting(d)' <=> Exiting(d)
  BY <1>3 DEF Exiting
<1>6. /\ pinS' \in [Execs -> SessionStates] /\ pinS[o] = "active" /\ pinS'[o] = s
      /\ \A d \in Execs : d # o => pinS'[d] = pinS[d]
  BY <1>1, <1>2 DEF InputInv, InputTypes, PinInv, SessionStates
<1>7. InputTypes'
  BY <1>3, <1>4, <1>6 DEF InputInv, InputTypes
<1>8. LockInv' /\ UiInv'
  BY <1>3 DEF InputInv, LockInv, UiInv
<1>9. CleanupInv'
  BY <1>3, <1>5 DEF InputInv, CleanupInv
<1>10. PinInv'
  BY <1>3, <1>4, <1>6, InputAssumption DEF InputInv, PinInv
<1>11. OwnSubmissionOnly' /\ CancelHitsOwnEntry'
  BY <1>3 DEF InputInv, OwnSubmissionOnly, CancelHitsOwnEntry
<1> QED
  BY <1>7, <1>8, <1>9, <1>10, <1>11 DEF InputInv

\* A cancellation that lands ends the entry phase, whosever it is; the lock says
\* that an exit meets no entry but its own.
LEMMA CancelLandsKeeps ==
  ASSUME InputInv, NEW c \in cancels, CancelLands(c)
  PROVE  InputInv'
<1>1. UNCHANGED <<ex, ui, pinS, settled, held, pending, tombs, by, faults>>
  BY DEF CancelLands, Bounds
<1>2. PICK x \in Execs : c = <<"exit", x>> \/ c = <<"confirm", x>>
  BY DEF InputInv, InputTypes
<1>3. /\ cancels' \subseteq ({"exit", "confirm"} \X Execs)
      /\ \A d \in Execs : Exiting(d)' => Exiting(d)
  BY DEF InputInv, InputTypes, CancelLands, Exiting
<1>4. /\ pin' \in PinInputs /\ pin'.owner = pin.owner
      /\ pin.owner = NoExec \/ pin'.phase # "entry"
  BY DEF InputInv, InputTypes, PinInputs, CancelLands
<1>5. ASSUME faults = 0, c[1] = "exit", pin.phase = "entry", pin.owner \notin {NoExec, c[2]}
      PROVE  ~(ex[c[2]].named /\ ex[pin.owner].named)
  <2>1. c = <<"exit", x>> /\ c[2] = x
    BY <1>2, <1>5
  <2>2. Exiting(x)
    BY <2>1 DEF Exiting
  <2>3. ex[x].named => held = x
    BY <2>2 DEF InputInv, CleanupInv, LockInv, Holding
  <2>4. pin.owner \in Execs /\ pin.owner # x
    BY <1>5, <2>1 DEF InputInv, InputTypes, PinInputs, Owners
  <2>5. ex[pin.owner].pc \in Holding
    BY <1>5, <2>4 DEF InputInv, PinInv, CleanupInv, Holding
  <2> QED
    BY <2>1, <2>3, <2>4, <2>5 DEF InputInv, LockInv
<1>6. /\ foreign' \subseteq (Execs \X Execs)
      /\ \A p \in foreign' :
           \/ p \in foreign
           \/ /\ p[1] = c[2] /\ p[2] = pin.owner
              /\ c[1] = "exit" /\ pin.phase = "entry" /\ pin.owner \notin {NoExec, c[2]}
  BY <1>2 DEF InputInv, InputTypes, PinInputs, Owners, CancelLands
<1>7. InputTypes'
  BY <1>1, <1>3, <1>4, <1>6 DEF InputInv, InputTypes
<1>8. LockInv' /\ UiInv'
  BY <1>1 DEF InputInv, LockInv, UiInv
<1>9. CleanupInv'
  BY <1>1, <1>3 DEF InputInv, CleanupInv
<1>10. PinInv'
  BY <1>1, <1>4, InputAssumption DEF InputInv, PinInv
<1>11. OwnSubmissionOnly' /\ CancelHitsOwnEntry'
  BY <1>1, <1>5, <1>6 DEF InputInv, OwnSubmissionOnly, CancelHitsOwnEntry
<1> QED
  BY <1>7, <1>8, <1>9, <1>10, <1>11 DEF InputInv

LEMMA CancelRejectedKeeps ==
  ASSUME InputInv, NEW c \in cancels, CancelRejected(c)
  PROVE  InputInv'
<1>1. UNCHANGED <<ui, pinS, settled, held, pending, tombs, by, foreign>>
  BY DEF CancelRejected
<1>2. faults' \in Nat /\ faults' > 0
  BY DEF InputInv, InputTypes, CancelRejected
<1>3. PICK x \in Execs : c = <<"exit", x>> \/ c = <<"confirm", x>>
  BY DEF InputInv, InputTypes
<1>4. cancels' = cancels \ {c} /\ cancels' \subseteq ({"exit", "confirm"} \X Execs)
  BY DEF InputInv, InputTypes, CancelRejected
<1>5. /\ pin' \in PinInputs /\ pin'.owner = pin.owner /\ pin'.phase = pin.phase
      /\ ex' \in [Execs -> Executions]
      /\ \A d \in Execs : /\ ex'[d].pc = ex[d].pc /\ ex'[d].named = ex[d].named
                          /\ ex[d].failed => ex'[d].failed
      /\ \A d \in Execs : Exiting(d)' => Exiting(d)
      /\ \A d \in Execs : Exiting(d) => Exiting(d)' \/ ex'[d].failed
  <2>1. CASE c = <<"confirm", x>>
    <3>1. c[1] = "confirm" /\ UNCHANGED ex
      BY <2>1 DEF CancelRejected
    <3>2. \A d \in Execs : Exiting(d)' <=> Exiting(d)
      BY <1>4, <2>1 DEF Exiting
    <3>3. pin' \in PinInputs /\ pin'.owner = pin.owner /\ pin'.phase = pin.phase
      BY <3>1 DEF InputInv, InputTypes, PinInputs, CancelRejected
    <3> QED
      BY <3>1, <3>2, <3>3 DEF InputInv, InputTypes
  <2>2. CASE c = <<"exit", x>>
    <3>1. c[1] = "exit" /\ c[2] = x
      BY <2>2
    <3>2. UNCHANGED pin /\ ex' = [ex EXCEPT ![x].failed = TRUE]
      BY <3>1 DEF CancelRejected
    <3>3. /\ ex' \in [Execs -> Executions] /\ ex'[x].failed
          /\ \A d \in Execs : /\ ex'[d].pc = ex[d].pc /\ ex'[d].named = ex[d].named
                              /\ ex[d].failed => ex'[d].failed
      <4>1. ex \in [Execs -> Executions]
        BY DEF InputInv, InputTypes
      <4>2. /\ ex' \in [Execs -> Executions] /\ ex'[x] = [ex[x] EXCEPT !.failed = TRUE]
            /\ \A d \in Execs : d # x => ex'[d] = ex[d]
        BY <3>2, <4>1 DEF Executions
      <4> QED
        BY <4>1, <4>2 DEF Executions
    <3>4. \A d \in Execs : /\ Exiting(d)' => Exiting(d)
                           /\ d # x /\ Exiting(d) => Exiting(d)'
      BY <1>4, <2>2 DEF Exiting
    <3> QED
      BY <3>2, <3>3, <3>4 DEF InputInv, InputTypes
  <2> QED
    BY <1>3, <2>1, <2>2
<1>6. InputTypes'
  BY <1>1, <1>2, <1>4, <1>5 DEF InputInv, InputTypes
<1>7. LockInv' /\ UiInv'
  BY <1>1, <1>5 DEF InputInv, LockInv, UiInv
<1>8. CleanupInv'
  BY <1>2, <1>5 DEF InputInv, CleanupInv
<1>9. PinInv'
  BY <1>1, <1>5 DEF InputInv, PinInv
<1>10. OwnSubmissionOnly' /\ CancelHitsOwnEntry'
  BY <1>1, <1>2 DEF InputInv, OwnSubmissionOnly, CancelHitsOwnEntry
<1> QED
  BY <1>6, <1>7, <1>8, <1>9, <1>10 DEF InputInv

LEMMA InputStarts == InputInit => InputInv
<1> SUFFICES ASSUME InputInit PROVE InputInv
  OBVIOUS
<1>1. InputTypes
  <2>1. ex \in [Execs -> Executions]
    BY DEF InputInit, Executions, InputPcs
  <2>2. /\ ui \in [Execs -> SessionStates] /\ pinS \in [Execs -> SessionStates]
        /\ settled \in [Execs -> SUBSET {"ui", "pin"}] /\ by \in [Execs -> Owners]
    BY DEF InputInit, SessionStates, Owners
  <2>3. tombs \in Seq(Execs) /\ Len(tombs) <= Tombstones /\ faults \in Nat
    BY InputAssumption DEF InputInit
  <2>4. held \in Owners /\ pending \in Owners /\ pin \in PinInputs /\ foreign \subseteq (Execs \X Execs)
    BY NoPinFacts DEF InputInit, Owners
  <2>5. cancels \subseteq ({"exit", "confirm"} \X Execs)
    BY DEF InputInit
  <2> QED
    BY <2>1, <2>2, <2>3, <2>4, <2>5 DEF InputTypes
<1>2. pin.owner = NoExec
  BY NoPinFacts DEF InputInit
<1>3. LockInv /\ UiInv
  BY InputAssumption DEF InputInit, LockInv, UiInv, Holding
<1>4. CleanupInv /\ PinInv
  BY <1>2, InputAssumption DEF InputInit, CleanupInv, PinInv, Exiting
<1>5. OwnSubmissionOnly /\ CancelHitsOwnEntry
  BY DEF InputInit, OwnSubmissionOnly, CancelHitsOwnEntry
<1> QED
  BY <1>1, <1>3, <1>4, <1>5 DEF InputInv

LEMMA InputStays == InputInv /\ [InputNext]_inputVars => InputInv'
<1> SUFFICES ASSUME InputInv, [InputNext]_inputVars PROVE InputInv'
  OBVIOUS
<1>1. CASE \E e \in Execs : \/ Enter(e) \/ ExecStep(e) \/ RaceTimeout(e) \/ Abort(e)
                            \/ Submit(e) \/ Confirm(e)
  BY <1>1, RaceKeeps, AbortKeeps, AcquireKeeps, StartPinKeeps, StartUiKeeps, CancelSessionsKeeps,
     ReleaseKeeps, SubmitKeeps, ConfirmKeeps
  DEF ExecStep
<1>2. CASE \E k \in {"digit", "backspace", "clear"} : Key(k)
  BY <1>2, KeyKeeps
<1>3. CASE PinEntered \/ PinFails \/ PinEnds
  BY <1>3, PinPhaseKeeps, PinEndsKeeps
<1>4. CASE \E c \in cancels : CancelLands(c) \/ CancelRejected(c)
  BY <1>4, CancelLandsKeeps, CancelRejectedKeeps
<1>5. CASE UNCHANGED inputVars
  <2>1. \A d \in Execs : Exiting(d)' <=> Exiting(d)
    BY <1>5 DEF inputVars, Exiting
  <2> QED
    BY <1>5, <2>1, PortKeeps DEF InputInv, InputTypes, inputVars
<1> QED
  BY <1>1, <1>2, <1>3, <1>4, <1>5 DEF InputNext

\* What the invariant says of the entry, the lock and the submission.
LEMMA InputMeansOwn == InputInv => EntryIsOwn
<1> SUFFICES ASSUME InputInv PROVE EntryIsOwn
  OBVIOUS
<1>1. InputTypeOK
  BY DEF InputInv, InputTypes, InputTypeOK, Executions, PinInputs, Owners
<1>2. \A e \in Execs : (pin.owner = e /\ pin.phase = "entry") => ex[e].pc \in Holding \/ ex[e].failed
  BY DEF InputInv, PinInv, Holding
<1>3. EntryUnderLock
  <2>1. pin.owner \in Execs \/ pin.owner = NoExec
    BY DEF InputInv, InputTypes, PinInputs, Owners
  <2> QED
    BY <1>2, <2>1 DEF InputInv, LockInv, EntryUnderLock
<1>4. CleanExit
  BY <1>2 DEF InputInv, LockInv, UiInv, CleanExit, Holding
<1> QED
  BY <1>1, <1>3, <1>4 DEF InputInv, EntryIsOwn

(***************************************************************************)
(* UserInputNodeExecutor: whatever the number of executions that overlap,   *)
(* and whoever is late (a stale screen, a cancellation that travels, a      *)
(* refused one), a submission resolves only its own interaction, a PIN is   *)
(* entered only under the lock of the execution it belongs to, an exit      *)
(* leaves neither an interaction nor an entry behind, and its cancellation  *)
(* meets no entry of another execution unless the native layer refused one. *)
(***************************************************************************)
THEOREM EntriesAreOwn == InputSpec => []EntryIsOwn
<1>1. InputInit => InputInv
  BY InputStarts
<1>2. InputInv /\ [InputNext]_inputVars => InputInv'
  BY InputStays
<1>3. InputInv => EntryIsOwn
  BY InputMeansOwn
<1> QED
  BY <1>1, <1>2, <1>3, PTL DEF InputSpec

-----------------------------------------------------------------------------
(* The engine and its instances *)

Statuses == Live \cup Terminal

Instances ==
  [pc : FlowPcs, flow : Flows \cup {"none"}, parent : Nat, status : Statuses,
   node : Nodes \cup {NoNode}, cancel : BOOLEAN, pauseReq : BOOLEAN,
   gate : {"none", "closed", "open"}, why : {"none", "api", "wait", "pause"},
   intr : BOOLEAN, tries : [Nodes -> Nat], visits : Nat, child : {0} \cup Ids,
   stop : BOOLEAN, hooks : SUBSET Terminal, took : Statuses \cup {"none"}]

\* Out of its attempts for node n.
Exhausted(r, n) == r.tries[n] > 1 /\ r.tries[n] > MaxAttempts

\* One instance: what its status can be at each await, and that it is at a node
\* when it executes or leaves one.
InstanceOK(r) ==
  /\ r \in Instances
  /\ r.pc \in {"absent", "starting", "node", "backoff", "validating"} => r.status = "running"
  /\ r.pc = "suspended" => r.status = "paused"
  /\ r.pc \in {"loop", "resumed"} => r.status = "running" \/ (r.status = "paused" /\ r.cancel)
  /\ r.pc \in {"completing", "failing", "finallyFailing", "lost"} => r.status \in Terminal
  /\ r.pc \in {"finally", "closing", "settled"} =>
       (r.status = "paused" => r.cancel) /\ (r.status = "running" => r.stop)
  /\ r.status \in Terminal => r.status \in r.hooks
  /\ r.pc = "node" \/ r.why = "wait" => r.node \in Nodes
  /\ r.pc \in {"absent", "starting", "loop", "node", "backoff", "validating"} => r.why = "none"
  /\ \A n \in Nodes : Exhausted(r, n) => r.status \in Terminal
  /\ r.took \notin {"failed", "cancelled"}

Unsettled(r) == r.pc \notin {"absent", "settled", "lost"} /\ r.status \in Live

\* An unsettled child of a cancelled parent is cancelled.
CancelInv(f) ==
  \A c, p \in Ids : (f[c].parent = p /\ f[p].cancel /\ Unsettled(f[c])) => f[c].cancel

InstancesInv(f) ==
  /\ DOMAIN f = Ids /\ f = [i \in Ids |-> f[i]]
  /\ \A i \in Ids : InstanceOK(f[i])
  /\ CancelInv(f)

\* The tables: ids are handed out in order, and there is one for every subflow
\* node that was entered.
TableInv ==
  /\ started \in 0..MaxInstances /\ throws \in 0..MaxThrows
  /\ active \subseteq Ids /\ waitedBy \subseteq Ids /\ orphans \subseteq 1..started
  /\ completed \in Seq(Ids)
  /\ \A i \in Ids : (inst[i].pc = "absent" <=> i > started) /\ inst[i].parent <= started
  /\ Reserved <= MaxInstances
  /\ TablesAgree

FlowInv == InstancesInv(inst) /\ TableInv

\* What a step of an instance may do to it, seen from the others.
Follows(r, s) ==
  /\ r.pc \notin {"absent", "settled"} /\ s.pc \notin {"absent", "settled"}
  /\ r.pc = "lost" => s.pc = "lost"
  /\ s.parent = r.parent /\ s.cancel = r.cancel
  /\ s.status \in Live => r.status \in Live

\* complete() ends an instance.
LEMMA CompleteFacts ==
  ASSUME NEW r, InstanceOK(r), NEW s \in Terminal,
         NEW at \in {"completing", "failing", "finallyFailing"}
  PROVE  /\ InstanceOK(Complete(r, s, at))
         /\ Complete(r, s, at).pc = at /\ Complete(r, s, at).status = s
         /\ Complete(r, s, at).parent = r.parent /\ Complete(r, s, at).cancel = r.cancel
<1> DEFINE c == Complete(r, s, at)
<1>1. c \in Instances
  <2>1. at \in FlowPcs /\ s \in Statuses /\ r \in Instances
    BY DEF FlowPcs, Statuses, InstanceOK
  <2> QED
    BY <2>1 DEF Complete, Instances
<1>2. /\ c.pc = at /\ c.status = s /\ s \in c.hooks /\ c.why = r.why /\ c.node = r.node
      /\ c.tries = r.tries /\ c.took = r.took /\ c.parent = r.parent /\ c.cancel = r.cancel
  BY DEF Complete, InstanceOK, Instances
<1> HIDE DEF c
<1>3. InstanceOK(c)
  BY <1>1, <1>2 DEF InstanceOK, Exhausted, Live, Terminal
<1> QED
  BY <1>2, <1>3 DEF c

LEMMA SuspendFacts ==
  ASSUME NEW r, InstanceOK(r), NEW why \in {"api", "wait", "pause"}, r.status = "running",
         why = "wait" => r.node \in Nodes
  PROVE  /\ InstanceOK(Suspend(r, why))
         /\ Suspend(r, why).pc = "suspended" /\ Suspend(r, why).status = "paused"
         /\ Suspend(r, why).parent = r.parent /\ Suspend(r, why).cancel = r.cancel
<1> DEFINE c == Suspend(r, why)
<1>1. c \in Instances
  <2>1. "suspended" \in FlowPcs /\ "paused" \in Statuses /\ r \in Instances
    BY DEF FlowPcs, Statuses, Live, InstanceOK
  <2> QED
    BY <2>1 DEF Suspend, Instances
<1>2. /\ c.pc = "suspended" /\ c.status = "paused" /\ c.why = why /\ c.node = r.node
      /\ c.tries = r.tries /\ c.took = r.took /\ c.parent = r.parent /\ c.cancel = r.cancel
  BY DEF Suspend, InstanceOK, Instances
<1> HIDE DEF c
<1>3. InstanceOK(c)
  BY <1>1, <1>2 DEF InstanceOK, Exhausted, Live, Terminal
<1> QED
  BY <1>2, <1>3 DEF c

LEMMA RetryFacts ==
  ASSUME NEW r, InstanceOK(r), r.pc = "node"
  PROVE  /\ InstanceOK(Retry(r)) /\ Follows(r, Retry(r)) /\ Retry(r).pc # "node"
<1> DEFINE n == r.node
           q == [r EXCEPT !.tries[n] = @ + 1]
<1>1. r \in Instances /\ n \in Nodes /\ r.status = "running" /\ r.tries \in [Nodes -> Nat]
  BY DEF InstanceOK, Instances
<1>2. q \in Instances
  BY <1>1 DEF Instances
<1>3. /\ q.pc = r.pc /\ q.status = r.status /\ q.why = r.why /\ q.node = r.node
      /\ q.took = r.took /\ q.parent = r.parent /\ q.cancel = r.cancel /\ q.hooks = r.hooks
      /\ q.stop = r.stop
  BY <1>1 DEF Instances
<1>4. \A m \in Nodes : q.tries[m] = IF m = n THEN r.tries[n] + 1 ELSE r.tries[m]
  BY <1>1 DEF Instances
<1>5. CASE r.tries[n] + 1 > MaxAttempts
  <2> DEFINE c == Complete(q, "failed", "completing")
  <2>1. Retry(r) = c
    BY <1>5 DEF Retry
  <2>2. c \in Instances
    <3>1. "completing" \in FlowPcs /\ "failed" \in Statuses /\ "failed" \in Terminal
      BY DEF FlowPcs, Statuses, Terminal
    <3> QED
      BY <1>2, <3>1 DEF Complete, Instances
  <2>3. /\ c.pc = "completing" /\ c.status = "failed" /\ "failed" \in c.hooks
        /\ c.why = q.why /\ c.node = q.node
        /\ c.tries = q.tries /\ c.took = q.took /\ c.parent = q.parent /\ c.cancel = q.cancel
    BY <1>2 DEF Complete, Instances
  <2> HIDE DEF c, q
  <2>4. InstanceOK(c)
    BY <1>1, <1>3, <2>2, <2>3 DEF InstanceOK, Exhausted, Live, Terminal
  <2> QED
    BY <1>1, <1>3, <2>1, <2>3, <2>4 DEF Follows, Live
<1>6. CASE ~(r.tries[n] + 1 > MaxAttempts)
  <2> DEFINE c == [r EXCEPT !.tries[n] = @ + 1, !.pc = "backoff"]
  <2>1. Retry(r) = c
    BY <1>6 DEF Retry
  <2>2. c = [q EXCEPT !.pc = "backoff"] /\ c \in Instances
    BY <1>1, <1>2 DEF Instances, FlowPcs
  <2>3. /\ c.pc = "backoff" /\ c.status = r.status /\ c.hooks = r.hooks
        /\ c.why = r.why /\ c.node = r.node /\ c.tries = q.tries
        /\ c.took = r.took /\ c.parent = r.parent /\ c.cancel = r.cancel
    BY <1>1 DEF Instances
  <2>4. \A m \in Nodes : ~Exhausted(c, m)
    <3> SUFFICES ASSUME NEW m \in Nodes PROVE ~Exhausted(c, m)
      OBVIOUS
    <3>1. ~Exhausted(r, m)
      BY <1>1 DEF InstanceOK, Terminal
    <3>2. c.tries[m] = IF m = n THEN r.tries[n] + 1 ELSE r.tries[m]
      BY <1>4, <2>3
    <3> HIDE DEF c, q, n
    <3>3. r.tries[n] \in Nat /\ r.tries[m] \in Nat
      BY <1>1
    <3> QED
      BY <1>6, <3>1, <3>2, <3>3, FlowAssumption DEF Exhausted
  <2> HIDE DEF c, q
  <2>5. InstanceOK(c)
    BY <1>1, <2>2, <2>3, <2>4 DEF InstanceOK, Live, Terminal
  <2> QED
    BY <1>1, <2>1, <2>3, <2>5 DEF Follows, Live
<1> QED
  BY <1>5, <1>6

ResultTypes ==
  {"next", "branch", "stay", "retry", "wait", "pause", "end", "cancel", "fail",
   "throw"}

\* transition() leaves the node, whatever its result.
LEMMA TransitionFacts ==
  ASSUME NEW r, InstanceOK(r), r.pc = "node", NEW type \in ResultTypes,
         NEW target \in Nodes \cup {NoNode}
  PROVE  /\ InstanceOK(Transition(r, type, target))
         /\ Follows(r, Transition(r, type, target))
         /\ Transition(r, type, target).pc # "node"
<1> DEFINE t == Transition(r, type, target)
<1>0. r \in Instances /\ r.status = "running" /\ r.node \in Nodes /\ r.why = "none"
  BY DEF InstanceOK
<1>1. CASE type \in {"next", "branch"} /\ ~(type = "branch" /\ target \notin Edges[r.node])
  <2>1. t = [r EXCEPT !.node = target, !.pc = "loop"]
    BY <1>1 DEF Transition
  <2>2. t \in Instances
    BY ZenonT(60), <1>0, <2>1 DEF Instances, FlowPcs
  <2>3. /\ t.pc = "loop" /\ t.node = target /\ t.status = r.status /\ t.why = r.why
        /\ t.tries = r.tries /\ t.took = r.took /\ t.parent = r.parent /\ t.cancel = r.cancel
    BY <1>0, <2>1 DEF Instances
  <2> HIDE DEF t
  <2> QED
    BY <1>0, <2>2, <2>3 DEF InstanceOK, Exhausted, Follows, Live, Terminal, t
<1>2. CASE \/ type = "branch" /\ target \notin Edges[r.node]
           \/ type = "throw"
  <2>1. t = Complete(r, "failed", "failing")
    BY <1>2 DEF Transition
  <2> QED
    BY <1>0, <2>1, CompleteFacts DEF Follows, Live, Terminal
<1>3. CASE type = "stay"
  <2> DEFINE at == IF r.stop THEN "finally" ELSE "loop"
  <2>1. t = [r EXCEPT !.pc = at]
    BY <1>3 DEF Transition
  <2>2. t \in Instances
    BY <1>0, <2>1 DEF Instances, FlowPcs
  <2>3. /\ t.pc = at /\ t.node = r.node /\ t.status = r.status /\ t.why = r.why /\ t.stop = r.stop
        /\ t.tries = r.tries /\ t.took = r.took /\ t.parent = r.parent /\ t.cancel = r.cancel
    BY <1>0, <2>1 DEF Instances
  <2> HIDE DEF t
  <2> QED
    BY <1>0, <2>2, <2>3 DEF InstanceOK, Exhausted, Follows, Live, Terminal, t
<1>4. CASE type = "retry"
  BY <1>4, RetryFacts DEF Transition
<1>5. CASE type \in {"wait", "pause"}
  <2>1. t = Suspend(r, type)
    BY <1>5 DEF Transition
  <2> QED
    BY <1>0, <1>5, <2>1, SuspendFacts DEF Follows, Live
<1>6. CASE type = "end"
  <2>1. t = [r EXCEPT !.pc = "validating"]
    BY <1>6 DEF Transition
  <2>2. t \in Instances
    BY <1>0, <2>1 DEF Instances, FlowPcs
  <2>3. /\ t.pc = "validating" /\ t.node = r.node /\ t.status = r.status /\ t.why = r.why
        /\ t.tries = r.tries /\ t.took = r.took /\ t.parent = r.parent /\ t.cancel = r.cancel
    BY <1>0, <2>1 DEF Instances
  <2> HIDE DEF t
  <2> QED
    BY <1>0, <2>2, <2>3 DEF InstanceOK, Exhausted, Follows, Live, Terminal, t
<1>7. CASE type \in {"cancel", "fail"}
  <2>1. t = Complete(r, IF type = "cancel" THEN "cancelled" ELSE "failed", "completing")
    BY <1>7 DEF Transition
  <2> QED
    BY <1>0, <2>1, CompleteFacts DEF Follows, Live, Terminal
<1> QED
  BY <1>1, <1>2, <1>3, <1>4, <1>5, <1>6, <1>7 DEF ResultTypes

\* A cancellation request keeps everything but the request and the gate.
LEMMA RequestFacts ==
  ASSUME NEW r, InstanceOK(r)
  PROVE  LET q == RequestCancellation(r) IN
         /\ InstanceOK(q)
         /\ q.pc = r.pc /\ q.status = r.status /\ q.parent = r.parent /\ q.node = r.node
         /\ q.child = r.child
         /\ q.cancel <=> (r.cancel \/ (r.pc # "absent" /\ r.status \in Live))
<1> DEFINE q == RequestCancellation(r)
<1>0. r \in Instances
  BY DEF InstanceOK
<1>1. CASE r.pc # "absent" /\ r.status \in Live
  <2>1. q = [r EXCEPT !.cancel = TRUE, !.gate = IF @ = "closed" THEN "open" ELSE @]
    BY <1>1 DEF RequestCancellation
  <2>2. q \in Instances
    BY <1>0, <2>1 DEF Instances
  <2>3. /\ q.pc = r.pc /\ q.node = r.node /\ q.status = r.status /\ q.why = r.why /\ q.cancel = TRUE
        /\ q.stop = r.stop /\ q.hooks = r.hooks /\ q.child = r.child
        /\ q.tries = r.tries /\ q.took = r.took /\ q.parent = r.parent
    BY <1>0, <2>1 DEF Instances
  <2> HIDE DEF q
  <2>4. InstanceOK(q)
    BY <2>2, <2>3 DEF InstanceOK, Exhausted
  <2> QED
    BY <1>1, <2>3, <2>4 DEF q
<1>2. CASE ~(r.pc # "absent" /\ r.status \in Live)
  BY <1>2 DEF RequestCancellation
<1> QED
  BY <1>1, <1>2

\* What an abort reaches: the instances it is dispatched to and, from a live one
\* on, its children.
LEMMA ReachedFacts ==
  ASSUME NEW f, NEW S \in SUBSET Ids
  PROVE  /\ S \subseteq Reached(f, S) /\ Reached(f, S) \subseteq Ids
         /\ \A p \in Reached(f, S) : f[p].status \in Live => Under(f, p) \subseteq Reached(f, S)
<1> DEFINE Closed(R) == S \subseteq R /\ \A p \in R : f[p].status \in Live => Under(f, p) \subseteq R
           D == {c \in Ids : \A R \in SUBSET Ids : Closed(R) => c \in R}
<1>1. Reached(f, S) = D
  BY DEF Reached
<1>2. S \subseteq D /\ D \subseteq Ids
  OBVIOUS
<1>3. ASSUME NEW p \in D, f[p].status \in Live, NEW c \in Under(f, p) PROVE c \in D
  <2>1. c \in Ids
    BY DEF Under
  <2>2. ASSUME NEW R \in SUBSET Ids, Closed(R) PROVE c \in R
    <3>1. p \in R
      BY <2>2
    <3> QED
      BY <2>2, <3>1, <1>3
  <2> QED
    BY <2>1, <2>2
<1> HIDE DEF D
<1> QED
  BY <1>1, <1>2, <1>3

\* An abort keeps the invariant of the instances, wherever it is dispatched to.
LEMMA AbortFacts ==
  ASSUME NEW f, InstancesInv(f), NEW S \in SUBSET Ids
  PROVE  LET g == AbortFlows(f, S) IN
         /\ InstancesInv(g)
         /\ \A i \in Ids : /\ g[i].pc = f[i].pc /\ g[i].status = f[i].status
                           /\ g[i].parent = f[i].parent /\ g[i].node = f[i].node
                           /\ g[i].child = f[i].child
<1> DEFINE g == AbortFlows(f, S)
           D == Reached(f, S)
<1>1. g = [c \in Ids |-> IF c \in D THEN RequestCancellation(f[c]) ELSE f[c]]
  BY DEF AbortFlows
<1>2. \A i \in Ids : InstanceOK(f[i])
  BY DEF InstancesInv
<1>3. \A i \in Ids : /\ InstanceOK(g[i])
                     /\ g[i].pc = f[i].pc /\ g[i].status = f[i].status
                     /\ g[i].parent = f[i].parent /\ g[i].node = f[i].node
                     /\ g[i].child = f[i].child
                     /\ g[i].cancel <=> f[i].cancel \/ (i \in D /\ f[i].pc # "absent" /\ f[i].status \in Live)
  <2> SUFFICES ASSUME NEW i \in Ids
               PROVE  /\ InstanceOK(g[i])
                      /\ g[i].pc = f[i].pc /\ g[i].status = f[i].status
                      /\ g[i].parent = f[i].parent /\ g[i].node = f[i].node
                      /\ g[i].child = f[i].child
                      /\ g[i].cancel <=> f[i].cancel \/ (i \in D /\ f[i].pc # "absent" /\ f[i].status \in Live)
    OBVIOUS
  <2>1. g[i] = IF i \in D THEN RequestCancellation(f[i]) ELSE f[i]
    BY <1>1
  <2> HIDE DEF g, D
  <2> QED
    BY <1>2, <2>1, RequestFacts
<1>4. /\ D \subseteq Ids
      /\ \A p \in D : f[p].status \in Live => Under(f, p) \subseteq D
  BY ReachedFacts
<1>5. g = [i \in Ids |-> g[i]] /\ DOMAIN g = Ids
  BY <1>1
<1> HIDE DEF g, D
<1>6. CancelInv(g)
  <2> SUFFICES ASSUME NEW c \in Ids, NEW p \in Ids, g[c].parent = p, g[p].cancel, Unsettled(g[c])
               PROVE  g[c].cancel
    BY DEF CancelInv
  <2>1. f[c].parent = p /\ Unsettled(f[c]) /\ c \in Under(f, p)
    BY <1>3 DEF Unsettled, Under
  <2>2. CASE f[p].cancel
    BY <1>3, <2>1, <2>2 DEF InstancesInv, CancelInv
  <2>3. CASE p \in D /\ f[p].status \in Live
    BY <1>3, <1>4, <2>1, <2>3 DEF Unsettled
  <2> QED
    BY <1>3, <2>2, <2>3
<1> QED
  BY <1>3, <1>5, <1>6 DEF InstancesInv, g

\* A step of one instance keeps it too.
LEMMA StepFacts ==
  ASSUME NEW f, InstancesInv(f), NEW i \in Ids, NEW s, InstanceOK(s), Follows(f[i], s)
  PROVE  InstancesInv([f EXCEPT ![i] = s])
<1> DEFINE g == [f EXCEPT ![i] = s]
<1>1. g = [j \in Ids |-> g[j]] /\ DOMAIN g = Ids /\ \A j \in Ids : g[j] = IF j = i THEN s ELSE f[j]
  BY DEF InstancesInv
<1> HIDE DEF g
<1>2. CancelInv(g)
  <2> SUFFICES ASSUME NEW c \in Ids, NEW p \in Ids, g[c].parent = p, g[p].cancel, Unsettled(g[c])
               PROVE  g[c].cancel
    BY DEF CancelInv
  <2>1. f[c].parent = p /\ f[p].cancel /\ Unsettled(f[c])
    BY <1>1 DEF Follows, Unsettled
  <2> QED
    BY <1>1, <2>1 DEF InstancesInv, CancelInv, Follows
<1> QED
  BY <1>1, <1>2 DEF InstancesInv, g

\* The ids that subflow nodes are about to need can be counted.
LEMMA StartingFacts ==
  /\ IsFiniteSet(Ids)
  /\ Starting \in SUBSET Ids /\ IsFiniteSet(Starting) /\ Cardinality(Starting) \in Nat
<1>1. IsFiniteSet(Ids)
  BY FS_Interval, FlowAssumption DEF Ids
<1>2. Starting \in SUBSET Ids
  BY DEF Starting
<1>3. IsFiniteSet(Starting)
  BY <1>1, <1>2, FS_Subset
<1> QED
  BY <1>1, <1>2, <1>3, FS_CardinalityType

\* The tables stay as long as no instance appears or settles.
LEMMA TablesStay ==
  ASSUME TableInv, UNCHANGED <<started, active, completed, orphans>>,
         waitedBy' \subseteq Ids, throws' \in 0..MaxThrows, Starting' \subseteq Starting,
         \A i \in Ids : /\ inst'[i].pc = "absent" <=> inst[i].pc = "absent"
                        /\ inst'[i].pc = "settled" <=> inst[i].pc = "settled"
                        /\ inst'[i].parent = inst[i].parent
  PROVE  TableInv'
<1>1. Cardinality(Starting') \in Nat /\ Cardinality(Starting') <= Cardinality(Starting)
  BY StartingFacts, FS_Subset, FS_CardinalityType
<1>2. Reserved' <= MaxInstances
  BY <1>1, StartingFacts, FlowAssumption DEF TableInv, Reserved
<1>3. TablesAgree'
  <2>1. {i \in Ids : inst'[i].pc \notin {"absent", "settled"}} =
          {i \in Ids : inst[i].pc \notin {"absent", "settled"}}
    OBVIOUS
  <2>2. \A k \in 1..Len(completed) : completed[k] \in Ids
    BY DEF TableInv
  <2> QED
    BY <2>1, <2>2 DEF TableInv, TablesAgree
<1> QED
  BY <1>2, <1>3 DEF TableInv

\* A step of one instance, perhaps after an abort, that does not settle it.
LEMMA StepKeeps ==
  ASSUME FlowInv, NEW f, InstancesInv(f),
         \A j \in Ids : /\ f[j].pc = inst[j].pc /\ f[j].parent = inst[j].parent
                        /\ f[j].node = inst[j].node /\ f[j].child = inst[j].child,
         NEW i \in Ids, NEW s, InstanceOK(s), Follows(f[i], s),
         s.pc = "node" => s.pc = f[i].pc /\ s.node = f[i].node /\ s.child = f[i].child,
         inst' = [f EXCEPT ![i] = s],
         UNCHANGED <<started, active, completed, waitedBy, orphans>>,
         throws' \in 0..MaxThrows
  PROVE  FlowInv'
<1>1. InstancesInv(inst')
  BY StepFacts
<1>2. \A j \in Ids : inst'[j] = IF j = i THEN s ELSE f[j]
  BY DEF InstancesInv
<1>3. \A j \in Ids : /\ inst'[j].pc = "absent" <=> inst[j].pc = "absent"
                     /\ inst'[j].pc = "settled" <=> inst[j].pc = "settled"
                     /\ inst'[j].parent = inst[j].parent
  BY <1>2 DEF Follows
<1>4. Starting' \subseteq Starting
  BY <1>2 DEF Starting
<1>5. TableInv'
  BY <1>3, <1>4, TablesStay DEF FlowInv, TableInv
<1> QED
  BY <1>1, <1>5 DEF FlowInv

\* The same without an abort: most of the actions.
LEMMA OwnStepKeeps ==
  ASSUME FlowInv, NEW i \in Ids, NEW s, InstanceOK(s), Follows(inst[i], s), s.pc # "node",
         inst' = [inst EXCEPT ![i] = s], Idle
  PROVE  FlowInv'
BY StepKeeps DEF FlowInv, Idle, TableInv

\* A change of one await only.
LEMMA GoFacts ==
  ASSUME NEW r, InstanceOK(r), NEW at \in FlowPcs
  PROVE  LET s == [r EXCEPT !.pc = at] IN
         /\ s \in Instances /\ s.pc = at /\ s.node = r.node /\ s.status = r.status
         /\ s.why = r.why /\ s.stop = r.stop /\ s.tries = r.tries /\ s.took = r.took
         /\ s.parent = r.parent /\ s.cancel = r.cancel /\ s.hooks = r.hooks
         /\ s.child = r.child
BY DEF InstanceOK, Instances

LEMMA GoKeeps ==
  ASSUME FlowInv, NEW i \in Ids,
         NEW at \in {"loop", "finally"}, inst' = [inst EXCEPT ![i].pc = at], Idle,
         \/ inst[i].pc \in {"starting", "backoff"} /\ at = "loop"
         \/ inst[i].pc \in {"completing", "failing"} /\ at = "finally"
  PROVE  FlowInv'
<1> DEFINE s == [inst[i] EXCEPT !.pc = at]
<1>1. inst' = [inst EXCEPT ![i] = s]
  OBVIOUS
<1>2. InstanceOK(inst[i]) /\ at \in FlowPcs
  BY DEF FlowInv, InstancesInv, FlowPcs
<1>3. /\ s \in Instances /\ s.pc = at /\ s.node = inst[i].node /\ s.status = inst[i].status
      /\ s.why = inst[i].why /\ s.stop = inst[i].stop /\ s.tries = inst[i].tries
      /\ s.took = inst[i].took /\ s.parent = inst[i].parent /\ s.cancel = inst[i].cancel
      /\ s.hooks = inst[i].hooks
  BY <1>2, GoFacts
<1> HIDE DEF s
<1>4. InstanceOK(s) /\ Follows(inst[i], s) /\ s.pc # "node"
  BY <1>2, <1>3 DEF InstanceOK, Exhausted, Follows, Live, Terminal
<1> QED
  BY <1>1, <1>4, OwnStepKeeps

LEMMA PauseKeeps ==
  ASSUME FlowInv, NEW i \in Ids, Pause(i) \/ Resume(i)
  PROVE  FlowInv'
<1>1. i \in active /\ inst[i].pc \notin {"absent", "settled"} /\ InstanceOK(inst[i])
  BY DEF Pause, Resume, FlowInv, InstancesInv, TableInv, TablesAgree
<1>2. PICK s : /\ inst' = [inst EXCEPT ![i] = s]
               /\ \/ s = [inst[i] EXCEPT !.pauseReq = TRUE]
                  \/ s = [inst[i] EXCEPT !.gate = "open"]
  BY DEF Pause, Resume
<1>3. /\ s \in Instances /\ s.pc = inst[i].pc /\ s.node = inst[i].node /\ s.status = inst[i].status
      /\ s.why = inst[i].why /\ s.stop = inst[i].stop /\ s.tries = inst[i].tries
      /\ s.took = inst[i].took /\ s.parent = inst[i].parent /\ s.cancel = inst[i].cancel
      /\ s.hooks = inst[i].hooks /\ s.child = inst[i].child
  <2>1. inst[i] \in Instances
    BY <1>1 DEF InstanceOK
  <2>2. CASE s = [inst[i] EXCEPT !.pauseReq = TRUE]
    BY <2>1, <2>2 DEF Instances
  <2>3. CASE s = [inst[i] EXCEPT !.gate = "open"]
    BY <2>1, <2>3 DEF Instances
  <2> QED
    BY <1>2, <2>2, <2>3
<1>4. InstanceOK(s)
  BY <1>1, <1>3 DEF InstanceOK, Exhausted
<1>5. Follows(inst[i], s)
  BY <1>1, <1>3 DEF Follows
<1> QED
  BY <1>2, <1>3, <1>4, <1>5, StepKeeps DEF FlowInv, TableInv, Pause, Resume

LEMMA CancelKeeps ==
  ASSUME FlowInv, (\E i \in Ids : Cancel(i)) \/ Dispose
  PROVE  FlowInv'
<1>1. PICK S \in SUBSET Ids : inst' = AbortFlows(inst, S)
  BY DEF Cancel, Dispose, FlowInv, TableInv
<1>2. /\ InstancesInv(inst')
      /\ \A j \in Ids : /\ inst'[j].pc = inst[j].pc /\ inst'[j].parent = inst[j].parent
                        /\ inst'[j].node = inst[j].node /\ inst'[j].child = inst[j].child
  BY <1>1, AbortFacts DEF FlowInv
<1>3. Starting' \subseteq Starting
  BY <1>2 DEF Starting
<1>4. TableInv'
  BY <1>2, <1>3, TablesStay DEF Cancel, Dispose, FlowInv, TableInv
<1> QED
  BY <1>2, <1>4 DEF FlowInv

LEMMA DisposeDoneKeeps ==
  ASSUME FlowInv, DisposeDone
  PROVE  FlowInv'
<1>1. InstancesInv(inst')
  BY DEF FlowInv, DisposeDone
<1>2. Starting' = Starting
  BY DEF Starting, DisposeDone
<1>3. active \subseteq 1..started
  BY FlowAssumption DEF FlowInv, TableInv, TablesAgree, Ids
<1>4. TablesAgree'
  <2>1. Len(completed') = 0 /\ completed' \in Seq(Ids)
    BY DEF DisposeDone
  <2> QED
    BY <2>1, FlowAssumption DEF FlowInv, TableInv, TablesAgree, DisposeDone
<1>5. Reserved' <= MaxInstances
  BY <1>2 DEF FlowInv, TableInv, Reserved, DisposeDone
<1>6. orphans' \subseteq 1..started' /\ active' \subseteq Ids /\ waitedBy' \subseteq Ids
  BY <1>3 DEF FlowInv, TableInv, DisposeDone
<1>7. completed' \in Seq(Ids)
  BY DEF DisposeDone
<1> QED
  BY <1>1, <1>4, <1>5, <1>6, <1>7 DEF FlowInv, TableInv, DisposeDone

LEMMA NewInstanceFacts ==
  ASSUME NEW f \in Flows, NEW parent \in Nat, NEW aborted \in BOOLEAN, NEW stop \in BOOLEAN
  PROVE  /\ InstanceOK(NewInstance(f, parent, aborted, stop))
         /\ NewInstance(f, parent, aborted, stop).pc = "starting"
         /\ NewInstance(f, parent, aborted, stop).parent = parent
         /\ NewInstance(f, parent, aborted, stop).cancel = aborted
<1> DEFINE s == NewInstance(f, parent, aborted, stop)
<1>1. s \in Instances
  BY FlowAssumption DEF NewInstance, Absent, Instances, Statuses, Live, FlowPcs
<1>2. /\ s.pc = "starting" /\ s.status = "running" /\ s.parent = parent /\ s.why = "none"
      /\ s.cancel = aborted /\ s.took = "none" /\ s.tries = [n \in Nodes |-> 1]
  BY DEF NewInstance, Absent
<1> HIDE DEF s
<1>3. InstanceOK(s)
  BY <1>1, <1>2 DEF InstanceOK, Exhausted, Terminal
<1> QED
  BY <1>2, <1>3 DEF s

\* Handing out the next id, to an application or to a subflow node.
LEMMA StartingKeeps ==
  ASSUME FlowInv, NEW g, InstancesInv(g), NEW s, InstanceOK(s),
         s.pc = "starting", s.parent \in 0..started,
         \A p \in Ids : (s.parent = p /\ g[p].cancel) => s.cancel,
         started + 1 \in Ids,
         \A j \in Ids : g[j].pc = inst[j].pc /\ g[j].parent = inst[j].parent,
         started' = started + 1, inst' = [g EXCEPT ![started + 1] = s],
         active' = active \cup {started + 1},
         Reserved' <= MaxInstances,
         UNCHANGED <<completed, waitedBy, orphans, throws>>
  PROVE  FlowInv'
<1> DEFINE n == started + 1
<1>1. \A j \in Ids : inst'[j] = IF j = n THEN s ELSE g[j]
  BY DEF InstancesInv
<1>2. started \in Nat /\ inst[n].pc = "absent" /\ \A j \in Ids : g[j].parent <= started
  <2>1. started \in Nat /\ started + 1 > started
    BY FlowAssumption DEF FlowInv, TableInv
  <2> QED
    BY <2>1 DEF FlowInv, TableInv
<1>3. CancelInv(inst')
  <2> SUFFICES ASSUME NEW c \in Ids, NEW p \in Ids, inst'[c].parent = p, inst'[p].cancel,
                      Unsettled(inst'[c])
               PROVE  inst'[c].cancel
    BY DEF CancelInv
  <2>1. p <= started /\ p # n
    BY <1>1, <1>2
  <2>2. CASE c = n
    BY <1>1, <2>1, <2>2
  <2>3. CASE c # n
    BY <1>1, <2>1, <2>3 DEF InstancesInv, CancelInv
  <2> QED
    BY <2>2, <2>3
<1>4. InstancesInv(inst')
  BY <1>1, <1>3 DEF InstancesInv
<1>5. \A j \in Ids : inst'[j].pc = "absent" <=> j > started'
  BY <1>1, <1>2 DEF FlowInv, TableInv, Ids
<1>6. TablesAgree'
  <2>1. n \notin orphans
    BY <1>2 DEF FlowInv, TableInv
  <2>2. \A k \in 1..Len(completed) : completed[k] \in Ids /\ completed[k] # n
    BY <1>2 DEF FlowInv, TableInv, TablesAgree
  <2>3. active' = {j \in Ids : inst'[j].pc \notin {"absent", "settled"}} \ orphans'
    BY <1>1, <1>2, <2>1 DEF FlowInv, TableInv, TablesAgree
  <2> QED
    BY <1>1, <2>2, <2>3 DEF FlowInv, TableInv, TablesAgree
<1>7. \A j \in Ids : inst'[j].parent <= started'
  <2>1. \A j \in Ids : g[j].parent \in Nat
    BY DEF InstancesInv, InstanceOK, Instances
  <2> QED
    BY <1>1, <1>2, <2>1
<1>8. started' \in 0..MaxInstances /\ orphans' \subseteq 1..started' /\ active' \subseteq Ids
  BY <1>2, FlowAssumption DEF FlowInv, TableInv, Ids
<1> QED
  BY <1>4, <1>5, <1>6, <1>7, <1>8 DEF FlowInv, TableInv

LEMMA StartKeeps ==
  ASSUME FlowInv, NEW f \in TopFlows, NEW stop \in BOOLEAN, Start(f, stop)
  PROVE  FlowInv'
<1> DEFINE s == NewInstance(f, 0, FALSE, stop)
<1>1. InstanceOK(s) /\ s.pc = "starting" /\ s.parent = 0
  <2>1. f \in Flows /\ 0 \in Nat /\ FALSE \in BOOLEAN
    BY FlowAssumption
  <2> QED
    BY ONLY ZenonT(60), <2>1, NewInstanceFacts, stop \in BOOLEAN
<1>2. started \in Nat /\ started + 1 \in Ids /\ started + 1 + Cardinality(Starting) <= MaxInstances
  <2>1. started \in 0..MaxInstances /\ Reserved < MaxInstances
    BY DEF Start, FlowInv, TableInv
  <2> QED
    BY <2>1, StartingFacts, FlowAssumption DEF Reserved, Ids
<1>3. inst' = [inst EXCEPT ![started + 1] = s] /\ started' = started + 1
  BY DEF Start
<1> HIDE DEF s
<1>4. Starting' \subseteq Starting
  BY <1>1, <1>3 DEF Starting, FlowInv, InstancesInv
<1>5. Cardinality(Starting') \in Nat /\ Cardinality(Starting') <= Cardinality(Starting)
  BY <1>4, StartingFacts, FS_Subset, FS_CardinalityType
<1>6. Reserved' <= MaxInstances
  BY <1>2, <1>3, <1>5, StartingFacts, FlowAssumption DEF Reserved
<1>7. 0 \notin Ids
  BY DEF Ids
<1>8. s.parent \in 0..started /\ \A q \in Ids : (s.parent = q /\ inst[q].cancel) => s.cancel
  BY <1>1, <1>2, <1>7
<1> QED
  BY <1>1, <1>2, <1>3, <1>6, <1>8, StartingKeeps DEF Start, FlowInv

LEMMA SubflowStartKeeps ==
  ASSUME FlowInv, NEW i \in Ids, SubflowStart(i)
  PROVE  FlowInv'
<1> DEFINE n == started + 1
           p == [inst[i] EXCEPT !.child = n]
           g == [inst EXCEPT ![i] = p]
           s == NewInstance(ChildFlow[inst[i].node], i, inst[i].cancel, FALSE)
<1>1. InstanceOK(inst[i]) /\ inst[i].pc = "node" /\ inst[i].node \in Nodes /\ inst[i] \in Instances
  BY DEF FlowInv, InstancesInv, InstanceOK, SubflowStart
<1>2. i \in Starting /\ i \in 1..started /\ started \in Nat
  <2>1. i \in Starting
    BY DEF Starting, SubflowStart
  <2>2. started \in Nat /\ (inst[i].pc = "absent" <=> i > started)
    BY FlowAssumption DEF FlowInv, TableInv
  <2> QED
    BY <1>1, <2>1, <2>2 DEF Ids
<1>3. Cardinality(Starting) >= 1 /\ Cardinality(Starting \ {i}) = Cardinality(Starting) - 1
      /\ Cardinality(Starting \ {i}) \in Nat
  <2>1. IsFiniteSet(Starting \ {i}) /\ Cardinality(Starting \ {i}) = Cardinality(Starting) - 1
    BY <1>2, StartingFacts, FS_RemoveElement
  <2>2. Cardinality(Starting \ {i}) \in Nat
    BY <2>1, FS_CardinalityType
  <2> QED
    BY <2>1, <2>2, StartingFacts
<1>4. n \in Ids /\ n # i
  <2>1. started \in 0..MaxInstances /\ Reserved <= MaxInstances
    BY DEF FlowInv, TableInv
  <2> QED
    BY <1>2, <1>3, <2>1, StartingFacts, FlowAssumption DEF Reserved, Ids
<1>5. InstanceOK(s) /\ s.pc = "starting" /\ s.parent = i /\ s.cancel = inst[i].cancel
  <2>1. ChildFlow[inst[i].node] \in Flows /\ inst[i].cancel \in BOOLEAN /\ i \in Nat
    BY <1>1, <1>2, FlowAssumption DEF Instances
  <2> QED
    BY ZenonT(60), <2>1, NewInstanceFacts
<1>6. /\ p \in Instances /\ p.pc = "node" /\ p.node = inst[i].node /\ p.status = inst[i].status
      /\ p.why = inst[i].why /\ p.stop = inst[i].stop /\ p.tries = inst[i].tries
      /\ p.took = inst[i].took /\ p.parent = inst[i].parent /\ p.cancel = inst[i].cancel
      /\ p.hooks = inst[i].hooks /\ p.child = n
  BY <1>1, <1>2, <1>4 DEF Instances
<1>7. started' = n /\ inst' = [g EXCEPT ![n] = s]
  BY <1>4 DEF SubflowStart
<1> HIDE DEF p, s
<1>8. InstanceOK(p) /\ Follows(inst[i], p)
  BY <1>1, <1>6 DEF InstanceOK, Exhausted, Follows
<1>9. InstancesInv(g)
  BY <1>8, StepFacts DEF FlowInv
<1>10. \A j \in Ids : g[j] = IF j = i THEN p ELSE inst[j]
  BY DEF FlowInv, InstancesInv
<1> HIDE DEF g
<1>11. \A j \in Ids : inst'[j] = IF j = n THEN s ELSE g[j]
  BY <1>7, <1>9 DEF InstancesInv
<1>12. Starting' \subseteq Starting \ {i}
  <2>1. \A j \in Starting' : j \in Ids /\ inst'[j].pc = "node" /\ inst'[j].child = 0
                             /\ Kind[inst'[j].node] = "subflow"
    BY DEF Starting
  <2>2. \A j \in Starting' : j # n /\ j # i
    BY <1>2, <1>4, <1>5, <1>6, <1>10, <1>11, <2>1
  <2> QED
    BY <1>10, <1>11, <2>1, <2>2 DEF Starting
<1>13. Reserved' <= MaxInstances
  <2>1. Cardinality(Starting') \in Nat /\ Cardinality(Starting') <= Cardinality(Starting \ {i})
    BY <1>12, StartingFacts, FS_RemoveElement, FS_Subset, FS_CardinalityType
  <2> QED
    <3>1. started \in 0..MaxInstances /\ started + Cardinality(Starting) <= MaxInstances
      BY DEF Reserved, FlowInv, TableInv
    <3>2. started' = started + 1
      BY <1>7
    <3> QED
      BY <1>3, <2>1, <3>1, <3>2, StartingFacts, FlowAssumption DEF Reserved
<1>14. \A j \in Ids : g[j].pc = inst[j].pc /\ g[j].parent = inst[j].parent
  BY <1>1, <1>6, <1>10
<1>15. s.parent \in 0..started /\ \A q \in Ids : (s.parent = q /\ g[q].cancel) => s.cancel
  BY <1>2, <1>5, <1>6, <1>10
<1>16. active' = active \cup {started + 1} /\ UNCHANGED <<completed, waitedBy, orphans, throws>>
  BY DEF SubflowStart
<1> QED
  BY <1>4, <1>5, <1>7, <1>9, <1>13, <1>14, <1>15, <1>16, StartingKeeps

LEMMA LoopKeeps ==
  ASSUME FlowInv, NEW i \in Ids, Loop(i)
  PROVE  FlowInv'
<1> DEFINE r == inst[i]
<1>0. /\ InstanceOK(r) /\ r \in Instances /\ r.pc = "loop" /\ r.why = "none" /\ r.visits \in Nat
      /\ r.status \in {"running", "paused"} /\ (r.status = "paused" => r.cancel)
  BY DEF FlowInv, InstancesInv, InstanceOK, Instances, Loop
<1>1. CASE r.status # "running"
  <2> DEFINE s == [r EXCEPT !.pc = "finally"]
  <2>1. inst' = [inst EXCEPT ![i] = s] /\ Idle
    BY <1>1 DEF Loop
  <2>2. /\ s \in Instances /\ s.pc = "finally" /\ s.node = r.node /\ s.status = r.status
        /\ s.why = r.why /\ s.tries = r.tries /\ s.took = r.took
        /\ s.parent = r.parent /\ s.cancel = r.cancel
    <3>1. "finally" \in FlowPcs
      BY DEF FlowPcs
    <3> QED
      BY <1>0, <3>1 DEF Instances
  <2> HIDE DEF s
  <2>3. InstanceOK(s) /\ Follows(r, s) /\ s.pc # "node"
    BY <1>0, <1>1, <2>2 DEF InstanceOK, Exhausted, Follows, Live, Terminal
  <2> QED
    BY <2>1, <2>3, OwnStepKeeps
<1>2. CASE r.status = "running" /\ r.cancel
  <2> DEFINE s == Complete(r, "cancelled", "completing")
  <2>1. inst' = [inst EXCEPT ![i] = s] /\ Idle
    BY <1>2 DEF Loop
  <2>2. InstanceOK(s) /\ Follows(r, s) /\ s.pc # "node"
    BY <1>0, CompleteFacts DEF Follows, Live, Terminal
  <2> QED
    BY <2>1, <2>2, OwnStepKeeps
<1>3. CASE r.status = "running" /\ ~r.cancel /\ r.pauseReq
  <2> DEFINE s == Suspend(r, "api")
  <2>1. inst' = [inst EXCEPT ![i] = s] /\ Idle
    BY <1>3 DEF Loop
  <2>2. InstanceOK(s) /\ Follows(r, s) /\ s.pc # "node"
    BY <1>0, <1>3, SuspendFacts DEF Follows, Live
  <2> QED
    BY <2>1, <2>2, OwnStepKeeps
<1>4. CASE r.status = "running" /\ ~r.cancel /\ ~r.pauseReq /\ r.node = NoNode
  <2> DEFINE s == Complete(r, "failed", "failing")
  <2>1. inst' = [inst EXCEPT ![i] = s] /\ Idle
    BY <1>4 DEF Loop
  <2>2. InstanceOK(s) /\ Follows(r, s) /\ s.pc # "node"
    BY <1>0, CompleteFacts DEF Follows, Live, Terminal
  <2> QED
    BY <2>1, <2>2, OwnStepKeeps
<1>5. CASE r.status = "running" /\ ~r.cancel /\ ~r.pauseReq /\ r.node # NoNode
  <2> DEFINE s == [r EXCEPT !.pc = "node", !.visits = @ + 1, !.child = 0]
  <2>1. inst' = [inst EXCEPT ![i] = s] /\ Idle
    BY <1>5 DEF Loop
  <2>2. /\ s \in Instances /\ s.pc = "node" /\ s.node = r.node /\ s.status = r.status
        /\ s.why = r.why /\ s.tries = r.tries /\ s.took = r.took /\ s.child = 0
        /\ s.parent = r.parent /\ s.cancel = r.cancel
    <3>1. "node" \in FlowPcs /\ r.visits + 1 \in Nat
      BY <1>0 DEF FlowPcs
    <3>2. s \in Instances
      BY <1>0, <3>1 DEF Instances
    <3> HIDE DEF r
    <3> QED
      BY <1>0, <3>2 DEF Instances
  <2>3. r.node \in Nodes
    BY <1>0, <1>5 DEF Instances
  <2> HIDE DEF s
  <2>4. InstanceOK(s) /\ Follows(r, s)
    BY <1>0, <1>5, <2>2, <2>3 DEF InstanceOK, Exhausted, Follows, Live, Terminal
  <2>5. InstancesInv(inst')
    BY <2>1, <2>4, StepFacts DEF FlowInv
  <2>6. \A j \in Ids : inst'[j] = IF j = i THEN s ELSE inst[j]
    BY <2>1 DEF FlowInv, InstancesInv
  <2>7. Kind[r.node] = "subflow" => Reserved < MaxInstances
    BY <2>2, <2>6 DEF Loop
  <2>8. i \notin Starting /\ Starting' \subseteq Starting \cup {i}
    BY <1>0, <2>6 DEF Starting
  <2>9. Kind[r.node] # "subflow" => Starting' \subseteq Starting
    BY <2>2, <2>6 DEF Starting
  <2>10. Reserved' <= MaxInstances
    <3>1. /\ IsFiniteSet(Starting \cup {i})
          /\ Cardinality(Starting \cup {i}) = Cardinality(Starting) + 1
      BY <2>8, StartingFacts, FS_AddElement
    <3>2. CASE Kind[r.node] = "subflow"
      <4>1. Cardinality(Starting') \in Nat /\ Cardinality(Starting') <= Cardinality(Starting) + 1
        BY <2>8, <3>1, FS_Subset, FS_CardinalityType
      <4> QED
        BY <2>1, <2>7, <3>2, <4>1, StartingFacts, FlowAssumption DEF Idle, Reserved, FlowInv, TableInv
    <3>3. CASE Kind[r.node] # "subflow"
      <4>1. Cardinality(Starting') \in Nat /\ Cardinality(Starting') <= Cardinality(Starting)
        BY <2>9, <3>3, StartingFacts, FS_Subset, FS_CardinalityType
      <4> QED
        BY <2>1, <4>1, StartingFacts, FlowAssumption DEF Idle, Reserved, FlowInv, TableInv
    <3> QED
      BY <3>2, <3>3
  <2>11. \A j \in Ids : /\ inst'[j].pc = "absent" <=> inst[j].pc = "absent"
                        /\ inst'[j].pc = "settled" <=> inst[j].pc = "settled"
                        /\ inst'[j].parent = inst[j].parent
    BY <1>0, <2>2, <2>6
  <2>12. TablesAgree'
    <3>1. \A k \in 1..Len(completed) : completed[k] \in Ids
      BY DEF FlowInv, TableInv
    <3>2. {j \in Ids : inst'[j].pc \notin {"absent", "settled"}} =
            {j \in Ids : inst[j].pc \notin {"absent", "settled"}}
      BY <2>11
    <3> QED
      BY <2>1, <2>11, <3>1, <3>2 DEF FlowInv, TableInv, TablesAgree, Idle
  <2> QED
    BY <2>1, <2>5, <2>10, <2>11, <2>12 DEF FlowInv, TableInv, Idle
<1> QED
  BY <1>0, <1>1, <1>2, <1>3, <1>4, <1>5

\* What an executor returns is one of the results, with a target that is a node
\* or none.
LEMMA ResultFacts ==
  ASSUME NEW n \in Nodes
  PROVE  /\ \A res \in Results(n) : res[1] \in ResultTypes /\ res[2] \in Nodes \cup {NoNode}
         /\ NextOrEnd(n)[1] \in {"next", "end"} /\ NextOrEnd(n)[2] \in Nodes \cup {NoNode}
<1>1. NextOf[n] \in Nodes \cup {NoNode} /\ Edges[n] \subseteq Nodes
  BY FlowAssumption
<1>2. NextOrEnd(n)[1] \in {"next", "end"} /\ NextOrEnd(n)[2] \in Nodes \cup {NoNode}
  BY <1>1 DEF NextOrEnd
<1>3. ASSUME NEW res \in Results(n)
      PROVE  res[1] \in ResultTypes /\ res[2] \in Nodes \cup {NoNode}
  <2>1. CASE Kind[n] = "action"
    BY <1>1, <1>3, <2>1 DEF Results, ResultTypes
  <2>2. CASE Kind[n] = "decision"
    BY <1>1, <1>3, <2>2 DEF Results, ResultTypes
  <2>3. CASE Kind[n] = "waitEvent"
    BY <1>3, <2>3 DEF Results, ResultTypes
  <2>4. CASE Kind[n] = "terminal"
    BY <1>3, <2>4 DEF Results, ResultTypes
  <2>5. CASE Kind[n] \notin {"action", "decision", "waitEvent", "terminal"}
    BY <1>3, <2>5 DEF Results
  <2> QED
    BY <2>1, <2>2, <2>3, <2>4, <2>5
<1> QED
  BY <1>2, <1>3

LEMMA NodeResultKeeps ==
  ASSUME FlowInv, NEW i \in Ids, NodeResult(i) \/ SubflowLeft(i)
  PROVE  FlowInv'
<1> DEFINE r == inst[i]
<1>1. InstanceOK(r) /\ r.pc = "node" /\ r.node \in Nodes
  BY DEF FlowInv, InstancesInv, InstanceOK, NodeResult, SubflowLeft
<1>2. PICK type \in ResultTypes, target \in Nodes \cup {NoNode} :
        inst' = [inst EXCEPT ![i] = Transition(r, type, target)]
  <2>1. CASE NodeResult(i)
    <3>1. PICK res \in Results(r.node) :
            inst' = [inst EXCEPT ![i] = IF r.cancel THEN Transition(r, "cancel", r.node)
                                        ELSE Transition(r, res[1], res[2])]
      BY <2>1 DEF NodeResult
    <3> QED
      BY <1>1, <3>1, ResultFacts DEF ResultTypes
  <2>2. CASE SubflowLeft(i)
    <3>1. inst' = [inst EXCEPT ![i] = IF r.cancel THEN Transition(r, "cancel", r.node)
                                      ELSE Transition(r, NextOrEnd(r.node)[1], NextOrEnd(r.node)[2])]
      BY <2>2 DEF SubflowLeft
    <3>2. NextOrEnd(r.node)[1] \in ResultTypes /\ NextOrEnd(r.node)[2] \in Nodes \cup {NoNode}
      BY <1>1, ResultFacts DEF ResultTypes
    <3> QED
      BY <1>1, <3>1, <3>2 DEF ResultTypes
  <2> QED
    BY <2>1, <2>2
<1> DEFINE s == Transition(r, type, target)
<1>3. InstanceOK(s) /\ Follows(r, s) /\ s.pc # "node"
  BY <1>1, TransitionFacts
<1> HIDE DEF s
<1> QED
  BY <1>2, <1>3, OwnStepKeeps DEF NodeResult, SubflowLeft, s

\* The abort of a node's signal reaches the child of the node.
LEMMA NodeAbortFacts ==
  ASSUME FlowInv, NEW i \in Ids
  PROVE  LET f == AbortNode(inst, i) IN
         /\ InstancesInv(f)
         /\ \A j \in Ids : /\ f[j].pc = inst[j].pc /\ f[j].parent = inst[j].parent
                           /\ f[j].node = inst[j].node /\ f[j].child = inst[j].child
<1> DEFINE S == {inst[i].child} \ {0}
<1>1. AbortNode(inst, i) = AbortFlows(inst, S) /\ S \in SUBSET Ids
  BY DEF AbortNode, FlowInv, InstancesInv, InstanceOK, Instances
<1> QED
  BY <1>1, AbortFacts DEF FlowInv

\* The abort of a node's signal, if there is one, and what comes after it.
LEMMA AbortStepKeeps ==
  ASSUME FlowInv, NEW i \in Ids, inst[i].pc = "node", NEW f, NEW s, InstanceOK(s),
         f = inst \/ f = AbortNode(inst, i),
         Follows(f[i], s), s.pc # "node", inst' = [f EXCEPT ![i] = s], Idle
  PROVE  FlowInv'
<1>1. CASE f = inst
  BY <1>1, OwnStepKeeps
<1>2. CASE f = AbortNode(inst, i)
  BY <1>2, NodeAbortFacts, StepKeeps DEF FlowInv, TableInv, Idle
<1> QED
  BY <1>1, <1>2

LEMMA NodeThrowsKeeps ==
  ASSUME FlowInv, NEW i \in Ids, NodeThrows(i)
  PROVE  FlowInv'
<1>1. inst[i].pc = "node" /\ Idle
  BY DEF NodeThrows
<1>2. PICK timeout \in BOOLEAN, res \in {"fail", "end", "retry", "throw"} :
        inst' = [(IF timeout THEN AbortNode(inst, i) ELSE inst)
                 EXCEPT ![i] = Transition(@, res, @.node)]
  BY DEF NodeThrows
<1> DEFINE f == IF timeout THEN AbortNode(inst, i) ELSE inst
           s == Transition(f[i], res, f[i].node)
<1>f. f = inst \/ f = AbortNode(inst, i)
  OBVIOUS
<1>s. inst' = [f EXCEPT ![i] = s]
  BY <1>2
<1> HIDE DEF f
<1>3. InstanceOK(f[i]) /\ f[i].pc = "node" /\ f[i].node \in Nodes
  <2>1. InstancesInv(f) /\ f[i].pc = "node"
    BY <1>1, <1>f, NodeAbortFacts DEF FlowInv
  <2> QED
    BY <2>1 DEF InstancesInv, InstanceOK
<1>4. InstanceOK(s) /\ Follows(f[i], s) /\ s.pc # "node"
  BY <1>3, TransitionFacts DEF ResultTypes
<1> HIDE DEF s
<1> QED
  BY <1>1, <1>f, <1>s, <1>4, AbortStepKeeps

LEMMA InterruptKeeps ==
  ASSUME FlowInv, NEW i \in Ids, Interrupt(i)
  PROVE  FlowInv'
<1> DEFINE f == AbortNode(inst, i)
           r == [f[i] EXCEPT !.intr = TRUE]
<1>1. inst[i].pc = "node" /\ Idle
  BY DEF Interrupt
<1>2. PICK type \in ResultTypes, target \in Nodes \cup {NoNode} :
        inst' = [f EXCEPT ![i] = Transition(r, type, target)]
  <2>1. PICK type \in {"next", "pause", "cancel"} :
          inst' = [f EXCEPT ![i] = IF r.cancel THEN Transition(r, "cancel", r.node)
                                   ELSE Transition(r, type, InterruptNode)]
    BY DEF Interrupt
  <2>2. r.node \in Nodes \cup {NoNode}
    BY <1>1, NodeAbortFacts DEF InstancesInv, InstanceOK, Instances
  <2> QED
    BY <2>1, <2>2, FlowAssumption DEF ResultTypes
<1>3. InstanceOK(f[i]) /\ f[i] \in Instances /\ f[i].pc = "node"
  BY <1>1, NodeAbortFacts DEF InstancesInv, InstanceOK
<1>4. /\ r \in Instances /\ r.pc = f[i].pc /\ r.node = f[i].node /\ r.status = f[i].status
      /\ r.why = f[i].why /\ r.stop = f[i].stop /\ r.tries = f[i].tries
      /\ r.took = f[i].took /\ r.parent = f[i].parent /\ r.cancel = f[i].cancel
      /\ r.hooks = f[i].hooks
  BY <1>3 DEF Instances
<1> DEFINE s == Transition(r, type, target)
<1> HIDE DEF f, r
<1>5. InstanceOK(r)
  BY <1>3, <1>4 DEF InstanceOK, Exhausted
<1>6. InstanceOK(s) /\ Follows(r, s) /\ s.pc # "node"
  BY <1>3, <1>4, <1>5, TransitionFacts
<1> HIDE DEF s
<1>7. Follows(f[i], s)
  BY SMTT(40), <1>4, <1>6 DEF Follows
<1> QED
  BY <1>1, <1>2, <1>6, <1>7, AbortStepKeeps DEF f, s

\* A finished child's status is the parent's result, unless it was cancelled itself.
LEMMA SubflowDoneKeeps ==
  ASSUME FlowInv, NEW i \in Ids, SubflowDone(i)
  PROVE  FlowInv'
<1> DEFINE r == inst[i]
           c == inst[r.child]
           res == IF r.cancel THEN <<"cancel", r.node>> ELSE SubflowResult(c, r.node)
           q == Transition(r, res[1], res[2])
           s == [q EXCEPT !.took = IF res[1] \in {"next", "end"} THEN c.status ELSE r.took]
<1>1. InstanceOK(r) /\ r.pc = "node" /\ r.node \in Nodes /\ r.child \in Ids /\ InstanceOK(c)
  BY ZenonT(60) DEF FlowInv, InstancesInv, InstanceOK, Instances, SubflowDone
<1>2. inst' = [inst EXCEPT ![i] = s] /\ Idle
  BY DEF SubflowDone
<1>3. /\ res[1] \in ResultTypes /\ res[2] \in Nodes \cup {NoNode}
      /\ res[1] \in {"next", "end"} => c.status \notin {"failed", "cancelled"}
  <2>1. CASE r.cancel
    BY <1>1, <2>1 DEF ResultTypes
  <2>2. CASE ~r.cancel /\ c.status \in {"failed", "cancelled"}
    BY <1>1, <2>2 DEF ResultTypes, SubflowResult
  <2>3. CASE ~r.cancel /\ c.status \notin {"failed", "cancelled"}
    <3>1. res = NextOrEnd(r.node)
      BY <2>3 DEF SubflowResult
    <3> QED
      BY <1>1, <2>3, <3>1, ResultFacts DEF ResultTypes
  <2> QED
    BY <2>1, <2>2, <2>3
<1> HIDE DEF res
<1>4. InstanceOK(q) /\ Follows(r, q) /\ q.pc # "node"
  BY <1>1, <1>3, TransitionFacts
<1>5. c.status \in Statuses /\ r.took \in Statuses \cup {"none"} /\ r.took \notin {"failed", "cancelled"}
  BY <1>1 DEF InstanceOK, Instances
<1> HIDE DEF q, c
<1>6. q \in Instances
  BY <1>4 DEF InstanceOK
<1>7. /\ s \in Instances /\ s.pc = q.pc /\ s.node = q.node /\ s.status = q.status
      /\ s.why = q.why /\ s.stop = q.stop /\ s.tries = q.tries
      /\ s.parent = q.parent /\ s.cancel = q.cancel /\ s.hooks = q.hooks
      /\ s.took = IF res[1] \in {"next", "end"} THEN c.status ELSE r.took
  BY <1>5, <1>6 DEF Instances
<1> HIDE DEF s
<1>8. InstanceOK(s) /\ Follows(r, s) /\ s.pc # "node"
  BY <1>3, <1>4, <1>5, <1>7 DEF InstanceOK, Exhausted, Follows
<1> QED
  BY <1>2, <1>8, OwnStepKeeps

LEMMA WakeKeeps ==
  ASSUME FlowInv, NEW i \in Ids, Wake(i)
  PROVE  FlowInv'
<1> DEFINE r == inst[i]
           st == IF r.cancel THEN r.status ELSE "running"
           s == [r EXCEPT !.gate = "none", !.status = st, !.pc = "resumed"]
<1>1. InstanceOK(r) /\ r \in Instances /\ r.pc = "suspended" /\ r.status = "paused"
  BY DEF FlowInv, InstancesInv, InstanceOK, Wake
<1>s. st \in {"running", "paused"} /\ st \in Statuses /\ (st = "paused" => r.cancel) /\ "resumed" \in FlowPcs
  BY <1>1 DEF FlowPcs, Statuses, Live
<1>2. /\ s \in Instances /\ s.pc = "resumed" /\ s.status = st /\ s.node = r.node /\ s.why = r.why
      /\ s.tries = r.tries /\ s.took = r.took /\ s.parent = r.parent /\ s.cancel = r.cancel
      /\ s.hooks = r.hooks
  <2> HIDE DEF st
  <2>1. s \in Instances
    BY <1>1, <1>s DEF Instances
  <2> QED
    BY <1>1, <1>s, <2>1 DEF Instances
<1>3. inst' = [inst EXCEPT ![i] = s] /\ Idle
  <2>1. CASE r.cancel
    <3>1. s = [r EXCEPT !.gate = "none", !.pc = "resumed"]
      BY <1>1, <2>1 DEF Instances
    <3> QED
      BY <2>1, <3>1 DEF Wake
  <2>2. CASE ~r.cancel
    BY <2>2 DEF Wake
  <2> QED
    BY <2>1, <2>2
<1> HIDE DEF s
<1>4. InstanceOK(s) /\ Follows(r, s) /\ s.pc # "node"
  BY <1>1, <1>s, <1>2 DEF InstanceOK, Exhausted, Follows, Live, Terminal
<1> QED
  BY <1>3, <1>4, OwnStepKeeps

LEMMA ResumedKeeps ==
  ASSUME FlowInv, NEW i \in Ids, Resumed(i)
  PROVE  FlowInv'
<1> DEFINE r == inst[i]
           asked == IF r.why = "api" THEN FALSE ELSE r.pauseReq
           next == IF r.why = "wait" /\ NextOf[r.node] # NoNode THEN NextOf[r.node] ELSE r.node
           s == [r EXCEPT !.pc = "loop", !.why = "none", !.pauseReq = asked, !.node = next]
<1>1. InstanceOK(r) /\ r \in Instances /\ r.pc = "resumed"
  BY DEF FlowInv, InstancesInv, InstanceOK, Resumed
<1>2. asked \in BOOLEAN /\ next \in Nodes \cup {NoNode}
  BY <1>1, FlowAssumption DEF InstanceOK, Instances
<1>3. inst' = [inst EXCEPT ![i] = s] /\ Idle
  BY DEF Resumed
<1> HIDE DEF asked, next
<1>4. /\ s \in Instances /\ s.pc = "loop" /\ s.status = r.status /\ s.node = next /\ s.why = "none"
      /\ s.tries = r.tries /\ s.took = r.took /\ s.parent = r.parent /\ s.cancel = r.cancel
      /\ s.hooks = r.hooks
  <2>1. "loop" \in FlowPcs
    BY DEF FlowPcs
  <2>2. s \in Instances
    BY <1>1, <1>2, <2>1 DEF Instances
  <2>3. /\ s.pc = "loop" /\ s.status = r.status /\ s.node = next /\ s.why = "none"
        /\ s.tries = r.tries /\ s.took = r.took /\ s.parent = r.parent /\ s.cancel = r.cancel
        /\ s.hooks = r.hooks
    BY <1>1 DEF Instances
  <2> QED
    BY <2>2, <2>3
<1> HIDE DEF s
<1>5. InstanceOK(s) /\ Follows(r, s) /\ s.pc # "node"
  BY <1>1, <1>4 DEF InstanceOK, Exhausted, Follows, Live, Terminal
<1> QED
  BY <1>3, <1>5, OwnStepKeeps

LEMMA ValidatedKeeps ==
  ASSUME FlowInv, NEW i \in Ids, Validated(i)
  PROVE  FlowInv'
<1> DEFINE s == Complete(inst[i], "completed", "completing")
<1>1. InstanceOK(inst[i]) /\ inst[i].pc = "validating" /\ inst[i].status = "running"
  BY DEF FlowInv, InstancesInv, InstanceOK, Validated
<1>2. InstanceOK(s) /\ Follows(inst[i], s) /\ s.pc # "node"
  BY <1>1, CompleteFacts DEF Follows, Live, Terminal
<1>3. inst' = [inst EXCEPT ![i] = s] /\ Idle
  BY DEF Validated
<1> QED
  BY <1>2, <1>3, OwnStepKeeps

LEMMA HandlerThrowsKeeps ==
  ASSUME FlowInv, NEW i \in Ids, HandlerThrows(i)
  PROVE  FlowInv'
<1> DEFINE r == inst[i]
<1>1. /\ InstanceOK(r) /\ r \in Instances
      /\ r.pc \in {"starting", "loop", "suspended", "resumed", "validating",
                   "completing", "failing", "finally", "finallyFailing"}
      /\ r.status \in Statuses
  BY DEF FlowInv, InstancesInv, InstanceOK, Instances, HandlerThrows
<1>2. throws' \in 0..MaxThrows /\ UNCHANGED <<started, active, completed, waitedBy, orphans>>
  BY FlowAssumption DEF HandlerThrows, FlowInv, TableInv
<1>3. ASSUME NEW s, InstanceOK(s), Follows(r, s), s.pc # "node", inst' = [inst EXCEPT ![i] = s]
      PROVE  FlowInv'
  BY <1>2, <1>3, StepKeeps DEF FlowInv
<1>4. ASSUME NEW at \in {"finally", "closing", "lost"}, inst' = [inst EXCEPT ![i].pc = at],
             at = "finally" => r.pc = "failing",
             at = "closing" => r.pc = "finally" /\ r.status \notin Live,
             at = "lost" => r.pc = "finallyFailing"
      PROVE  FlowInv'
  <2> DEFINE s == [r EXCEPT !.pc = at]
  <2>1. at \in FlowPcs
    BY DEF FlowPcs
  <2>2. /\ s \in Instances /\ s.pc = at /\ s.status = r.status /\ s.node = r.node /\ s.why = r.why
        /\ s.tries = r.tries /\ s.took = r.took /\ s.parent = r.parent /\ s.cancel = r.cancel
        /\ s.hooks = r.hooks /\ s.stop = r.stop
    BY <1>1, <2>1 DEF Instances
  <2>3. inst' = [inst EXCEPT ![i] = s]
    BY <1>4
  <2> HIDE DEF s
  <2>4. InstanceOK(s) /\ Follows(r, s) /\ s.pc # "node"
    BY <1>1, <1>4, <2>2 DEF InstanceOK, Exhausted, Follows, Live, Terminal, Statuses
  <2> QED
    BY <1>3, <2>3, <2>4
<1>5. ASSUME NEW at \in {"failing", "finallyFailing"},
             inst' = [inst EXCEPT ![i] = Complete(r, "failed", at)]
      PROVE  FlowInv'
  <2> DEFINE s == Complete(r, "failed", at)
  <2>1. InstanceOK(s) /\ Follows(r, s) /\ s.pc # "node"
    BY <1>1, CompleteFacts DEF Follows, Live, Terminal
  <2> HIDE DEF s
  <2> QED
    BY <1>3, <1>5, <2>1 DEF s
<1>6. CASE r.pc = "failing"
  BY <1>4, <1>6 DEF HandlerThrows
<1>7. CASE r.pc = "finally" /\ r.status \in Live
  BY <1>5, <1>7 DEF HandlerThrows
<1>8. CASE r.pc = "finally" /\ r.status \notin Live
  BY <1>4, <1>8 DEF HandlerThrows
<1>9. CASE r.pc = "finallyFailing"
  BY <1>4, <1>9 DEF HandlerThrows
<1>10. CASE r.pc \in {"starting", "loop", "suspended", "resumed", "validating", "completing"}
  BY <1>5, <1>10 DEF HandlerThrows
<1> QED
  BY <1>1, <1>6, <1>7, <1>8, <1>9, <1>10

\* The completed table holds no more than it may.
LEMMA TrimFacts ==
  ASSUME NEW i \in Ids, NEW q \in Seq(Ids), Len(q) <= Retention
  PROVE  LET t == TrimCompleted(Append(q, i)) IN
         /\ t \in Seq(Ids) /\ Len(t) <= Retention
         /\ \A k \in 1..Len(t) : t[k] = i \/ \E m \in 1..Len(q) : t[k] = q[m]
<1> DEFINE a == Append(q, i)
<1>1. a \in Seq(Ids) /\ Len(a) = Len(q) + 1 /\ Len(q) \in Nat /\ Retention \in Nat
  BY FlowAssumption
<1>2. \A k \in 1..Len(a) : a[k] = i \/ \E m \in 1..Len(q) : a[k] = q[m]
  <2> SUFFICES ASSUME NEW k \in 1..Len(a), k # Len(q) + 1 PROVE a[k] = q[k] /\ k \in 1..Len(q)
    BY <1>1
  <2> QED
    BY <1>1
<1>3. CASE Len(a) > Retention
  <2>1. /\ Tail(a) \in Seq(Ids) /\ Len(Tail(a)) = Len(q)
        /\ \A k \in 1..Len(q) : Tail(a)[k] = a[k + 1]
    <3> HIDE DEF a
    <3>1. a # <<>> /\ Tail(a) \in Seq(Ids) /\ Len(Tail(a)) = Len(q)
      BY <1>1
    <3> QED
      BY <1>1, <3>1
  <2>2. \A k \in 1..Len(q) : k + 1 \in 1..Len(a)
    BY <1>1
  <2>3. TrimCompleted(a) = Tail(a)
    BY <1>3 DEF TrimCompleted
  <2> HIDE DEF a
  <2>4. \A k \in 1..Len(Tail(a)) : Tail(a)[k] = i \/ \E m \in 1..Len(q) : Tail(a)[k] = q[m]
    BY <1>2, <2>1, <2>2
  <2> QED
    BY <2>1, <2>3, <2>4 DEF a
<1>4. CASE ~(Len(a) > Retention)
  <2>1. TrimCompleted(a) = a
    BY <1>4 DEF TrimCompleted
  <2>2. Len(a) <= Retention
    BY <1>1, <1>4
  <2> QED
    BY <1>1, <1>2, <2>1, <2>2
<1> QED
  BY <1>3, <1>4

LEMMA SettleKeeps ==
  ASSUME FlowInv, NEW i \in Ids, Settle(i)
  PROVE  FlowInv'
<1> DEFINE r == inst[i]
           s == [r EXCEPT !.pc = "settled"]
<1>1. InstanceOK(r) /\ r.pc \in {"finally", "finallyFailing", "closing"}
  BY DEF FlowInv, InstancesInv, Settle
<1>2. "settled" \in FlowPcs
  BY DEF FlowPcs
<1>3. /\ s \in Instances /\ s.pc = "settled" /\ s.status = r.status /\ s.node = r.node
      /\ s.why = r.why /\ s.tries = r.tries /\ s.took = r.took /\ s.parent = r.parent
      /\ s.cancel = r.cancel /\ s.hooks = r.hooks /\ s.stop = r.stop
  BY <1>1, <1>2 DEF InstanceOK, Instances
<1>4. inst' = [inst EXCEPT ![i] = s]
  BY DEF Settle
<1> HIDE DEF s
<1>5. InstanceOK(s)
  BY <1>1, <1>3 DEF InstanceOK, Exhausted, Live, Terminal
<1>6. \A j \in Ids : inst'[j] = IF j = i THEN s ELSE inst[j]
  BY <1>4 DEF FlowInv, InstancesInv
<1>7. CancelInv(inst')
  <2> SUFFICES ASSUME NEW c \in Ids, NEW p \in Ids, inst'[c].parent = p, inst'[p].cancel,
                      Unsettled(inst'[c])
               PROVE  inst'[c].cancel
    BY DEF CancelInv
  <2>1. c # i /\ inst[c].parent = p /\ inst[p].cancel /\ Unsettled(inst[c])
    BY <1>3, <1>6 DEF Unsettled
  <2> QED
    BY <1>6, <2>1 DEF FlowInv, InstancesInv, CancelInv
<1>8. InstancesInv(inst')
  BY <1>4, <1>5, <1>6, <1>7 DEF FlowInv, InstancesInv
<1>9. Starting' \subseteq Starting
  BY <1>3, <1>6 DEF Starting
<1>10. Cardinality(Starting') \in Nat /\ Cardinality(Starting') <= Cardinality(Starting)
  BY <1>9, StartingFacts, FS_Subset, FS_CardinalityType
<1>11. Reserved' <= MaxInstances
  BY <1>10, StartingFacts, FlowAssumption DEF Settle, FlowInv, TableInv, Reserved
<1>12. completed' \in Seq(Ids) /\ TablesAgree'
  <2>1. /\ completed' \in Seq(Ids) /\ Len(completed') <= Retention
        /\ \A k \in 1..Len(completed') :
             completed'[k] = i \/ \E m \in 1..Len(completed) : completed'[k] = completed[m]
    BY TrimFacts DEF Settle, FlowInv, TableInv, TablesAgree
  <2>2. \A m \in 1..Len(completed) : completed[m] \in Ids /\ inst[completed[m]].pc = "settled"
    BY DEF FlowInv, TableInv, TablesAgree
  <2>3. \A k \in 1..Len(completed') : inst'[completed'[k]].pc = "settled"
    BY <1>3, <1>6, <2>1, <2>2
  <2>4. active' = {j \in Ids : inst'[j].pc \notin {"absent", "settled"}} \ orphans'
    BY <1>3, <1>6 DEF Settle, FlowInv, TableInv, TablesAgree
  <2> QED
    BY <2>1, <2>3, <2>4 DEF TablesAgree
<1>13. \A j \in Ids : (inst'[j].pc = "absent" <=> j > started') /\ inst'[j].parent <= started'
  BY <1>1, <1>3, <1>6 DEF Settle, FlowInv, TableInv
<1> QED
  BY <1>8, <1>11, <1>12, <1>13 DEF Settle, FlowInv, TableInv

LEMMA FlowStarts == FlowInit => FlowInv
<1> SUFFICES ASSUME FlowInit PROVE FlowInv
  OBVIOUS
<1>1. Absent \in Instances
  BY FlowAssumption DEF Absent, Instances, Statuses, Live, FlowPcs
<1>2. /\ Absent.pc = "absent" /\ Absent.status = "running" /\ Absent.why = "none"
      /\ Absent.took = "none" /\ Absent.tries = [n \in Nodes |-> 1] /\ Absent.parent = 0
  BY DEF Absent
<1>3. \A i \in Ids : inst[i] = Absent
  BY DEF FlowInit
<1>4. InstanceOK(Absent)
  BY <1>1, <1>2 DEF InstanceOK, Exhausted, Terminal
<1>5. InstancesInv(inst)
  BY <1>2, <1>3, <1>4 DEF FlowInit, InstancesInv, CancelInv, Unsettled
<1>6. Starting = {}
  BY <1>2, <1>3 DEF Starting
<1>7. Reserved <= MaxInstances
  BY <1>6, FS_EmptySet, FlowAssumption DEF FlowInit, Reserved
<1>8. completed \in Seq(Ids) /\ Len(completed) = 0
  BY DEF FlowInit
<1>9. TablesAgree
  BY <1>2, <1>3, <1>8, FlowAssumption DEF FlowInit, TablesAgree
<1>10. \A i \in Ids : (inst[i].pc = "absent" <=> i > started) /\ inst[i].parent <= started
  BY <1>2, <1>3 DEF FlowInit, Ids
<1> QED
  BY <1>5, <1>7, <1>8, <1>9, <1>10, FlowAssumption DEF FlowInit, FlowInv, TableInv

LEMMA FlowStays == FlowInv /\ [FlowNext]_flowVars => FlowInv'
<1> SUFFICES ASSUME FlowInv, [FlowNext]_flowVars PROVE FlowInv'
  OBVIOUS
<1>1. CASE \E f \in TopFlows, stop \in BOOLEAN : Start(f, stop)
  BY <1>1, StartKeeps
<1>2. CASE (\E i \in Ids : Cancel(i)) \/ Dispose
  BY <1>2, CancelKeeps
<1>3. CASE DisposeDone
  BY <1>3, DisposeDoneKeeps
<1>4. ASSUME NEW i \in Ids, Booted(i) \/ Backoff(i) \/ Completed(i) PROVE FlowInv'
  <2>1. CASE Booted(i) \/ Backoff(i)
    BY <2>1, GoKeeps DEF Booted, Backoff
  <2>2. CASE Completed(i)
    BY <2>2, GoKeeps DEF Completed
  <2> QED
    BY <1>4, <2>1, <2>2
<1>5. ASSUME NEW i \in Ids, Pause(i) \/ Resume(i) \/ NodeThrows(i) \/ Interrupt(i) \/ HandlerThrows(i)
      PROVE  FlowInv'
  BY <1>5, PauseKeeps, NodeThrowsKeeps, InterruptKeeps, HandlerThrowsKeeps
<1>6. ASSUME NEW i \in Ids, InstanceStep(i) PROVE FlowInv'
  BY <1>4, <1>6, LoopKeeps, NodeResultKeeps, SubflowStartKeeps, SubflowDoneKeeps, WakeKeeps,
     ResumedKeeps, ValidatedKeeps, SettleKeeps DEF InstanceStep
<1>7. CASE UNCHANGED flowVars
  <2>1. Starting' = Starting
    BY <1>7 DEF flowVars, Starting
  <2> QED
    BY <1>7, <2>1 DEF flowVars, FlowInv, TableInv, TablesAgree, Reserved
<1> QED
  BY <1>1, <1>2, <1>3, <1>5, <1>6, <1>7 DEF FlowNext

\* What the invariant says of the flows.
LEMMA FlowMeansAccounted == FlowInv => FlowsAreAccountedFor
<1> SUFFICES ASSUME FlowInv PROVE FlowsAreAccountedFor
  OBVIOUS
<1>0. \A i \in Ids : InstanceOK(inst[i]) /\ inst[i] \in Instances
  BY DEF FlowInv, InstancesInv, InstanceOK
<1>1. FlowTypeOK
  <2>1. 1..started \subseteq Ids
    BY FlowAssumption DEF FlowInv, TableInv, Ids
  <2> QED
    BY <1>0, <2>1 DEF FlowInv, TableInv, FlowTypeOK, Instances, Statuses
<1>2. SettledIsFinished
  BY <1>0 DEF SettledIsFinished, InstanceOK
<1>3. RetryBudget
  BY <1>0 DEF RetryBudget, InstanceOK, Exhausted, Terminal
<1>4. CancelReachesChildren
  <2> SUFFICES ASSUME NEW c \in Ids, Unsettled(inst[c]), inst[c].parent # 0,
                      inst[inst[c].parent].cancel
               PROVE  inst[c].cancel
    BY DEF CancelReachesChildren, Unsettled
  <2>1. inst[c].parent \in Ids
    <3>1. started \in 0..MaxInstances /\ inst[c].parent <= started
      BY DEF FlowInv, TableInv
    <3>2. inst[c].parent \in Nat
      BY <1>0 DEF Instances
    <3> QED
      BY <3>1, <3>2, FlowAssumption DEF Ids
  <2> QED
    BY <2>1 DEF FlowInv, InstancesInv, CancelInv
<1>5. FailedChildIsNotAccepted
  BY <1>0 DEF FailedChildIsNotAccepted, InstanceOK
<1> QED
  BY <1>1, <1>2, <1>3, <1>4, <1>5 DEF FlowInv, TableInv, FlowsAreAccountedFor

(***************************************************************************)
(* ExecutableFlowEngine and FlowInstanceRuntime: for any flows, any number  *)
(* of instances and any depth of subflows, the engine's tables list exactly *)
(* the instances that have not settled, an instance settles finished (or    *)
(* cancelled while paused), a node is not executed beyond its retries, a    *)
(* cancellation reaches every unsettled descendant however late it started, *)
(* and a parent never goes on over a failed or cancelled child.             *)
(***************************************************************************)
THEOREM FlowsAreAccounted == FlowSpec => []FlowsAreAccountedFor
<1>1. FlowInit => FlowInv
  BY FlowStarts
<1>2. FlowInv /\ [FlowNext]_flowVars => FlowInv'
  BY FlowStays
<1>3. FlowInv => FlowsAreAccountedFor
  BY FlowMeansAccounted
<1> QED
  BY <1>1, <1>2, <1>3, PTL DEF FlowSpec
=============================================================================
