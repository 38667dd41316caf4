--------------------------- MODULE DepositProofs ---------------------------
(***************************************************************************)
(* Proofs about a deposit and its cash acceptance session, for any number   *)
(* of batches, faults and crashes and every policy for notes not taken.     *)
(*                                                                         *)
(* The invariant says, for each place in the workflow and in the method it  *)
(* waits for, what is then known of the notes, the record, the lease and    *)
(* the answers.                                                             *)
(***************************************************************************)
EXTENDS Deposit, Integers, TLAPS

Methods == {"idle", "start", "accept", "refused", "authorize", "commit", "abort"}
MethodLabels == {"idle", "entry", "device", "cashIn", "snapshot", "retract", "host", "cashInEnd",
                 "units", "rollback", "wait", "retracting", "returned", "retracted", "presented"}
Custodies == {"none", "customer", "retract-unit", "cash-unit", "presented", "unknown"}
WorkflowPcs == {"barrier", "before", "starting", "batch", "accepted", "refused", "review",
                "authorizing", "committing", "aborting", "capturing", "finalizing", "done", "crashed"}
SessionRecords == [phase : SessionPhases, dispatched : BOOLEAN, rev : Nat]
NoteCounts == [notes : Nat, refused : Nat]
Devices == [active : BOOLEAN, notes : Nat, place : NotePlaces, refused : Nat]
CallRecords == [m : Methods, at : MethodLabels, n : 0..1, r : 0..1]
Answers == [ok : BOOLEAN, custody : Custodies, committed : BOOLEAN, recon : BOOLEAN]
\* Before the first batch, and after the last.
Unopened == {"barrier", "before", "starting"}
Collecting == {"batch", "accepted", "refused", "review"}
Ending == {"capturing", "finalizing", "done", "crashed"}

\* The session and its record.
RecordTypes ==
  /\ mem \in SessionRecords /\ cimRecord \in SessionRecords
  /\ snap \in NoteCounts /\ cimFaults \in Nat

\* The device and the host's lease and answer.
DeviceTypes ==
  /\ cim \in Devices
  /\ cimLease \in {"none", "held", "lapsed"} /\ aborted \in BOOLEAN /\ commitSent \in BOOLEAN /\ waited \in BOOLEAN
  /\ auth \in [rev : Int, approved : BOOLEAN]

\* The running method and the last answer.
CallTypes == call \in CallRecords /\ ret \in Answers

\* The workflow.
WorkflowTypes ==
  /\ dpc \in WorkflowPcs /\ batch \in 0..MaxBatches /\ escrow \in NoteCounts
  /\ depositHost \in {"not-requested", "approved", "declined", "unavailable"}
  /\ phys \in [commit : {"not-requested", "dispatched", "completed", "execution-unknown"},
               committed : BOOLEAN, recon : BOOLEAN]
  /\ wanted \in Statuses /\ status \in Statuses
  /\ completion \in BOOLEAN

\* The workflow waits for the method it called, and a method for its awaits.
ControlInv ==
  /\ call.m = "start" => dpc = "starting" /\ call.at \in {"entry", "device"}
  /\ call.m = "accept" => dpc = "accepted" /\ call.at \in {"entry", "cashIn", "snapshot"}
  /\ call.m = "refused" => dpc = "refused" /\ call.at \in {"entry", "retract"}
  /\ call.m = "authorize" => dpc = "authorizing" /\ call.at \in {"entry", "host"}
  /\ call.m = "commit" => dpc = "committing" /\ call.at \in {"entry", "cashInEnd", "units"}
  /\ call.m = "abort" => dpc = "aborting"

\* A cash-in that is active holds its notes in escrow; nothing is presented
\* before an abort and nothing in the units before the commit is dispatched.
NotesInv ==
  /\ cim.active => cim.place \in {"nowhere", "escrow"}
  /\ cim.place = "nowhere" => cim.notes = 0
  /\ cim.place \in {"presented", "customer"} => dpc \in {"aborting"} \cup Ending
  /\ cim.place = "cash-unit" => commitSent

\* Every batch counts once.
CountInv ==
  /\ dpc \in Unopened => batch = 0
  /\ dpc \notin Unopened \cup Ending => batch > 0
  /\ batch = 0 => cim.place = "nowhere" /\ cim.refused = 0 /\ snap.refused = 0 /\ escrow.refused = 0
  /\ mem.rev <= batch /\ cim.notes <= batch
  /\ dpc = "batch" \/ call.m = "accept" => mem.rev < batch
  /\ dpc = "batch" \/ (call.m = "accept" /\ call.at # "snapshot") => cim.notes < batch

\* The lease is not given back from start() on.
LeaseInv ==
  /\ dpc \in Collecting => cimLease # "none"
  /\ At("start", "device") => cimLease # "none"
  /\ dpc = "starting" /\ Idle /\ ret.ok => cimLease # "none"

\* What the host approved is not added to, and nothing else is committed.
ApprovalInv ==
  /\ auth.approved => /\ dpc \in {"authorizing", "committing", "aborting"} \cup Ending
                      /\ call.m # "authorize"
  /\ call.m = "commit" /\ call.at # "entry" => auth.approved /\ auth.rev = mem.rev

\* A dispatched commit is on disk before the device is told, and known to
\* everyone who could roll back.
DispatchInv ==
  /\ commitSent => mem.dispatched /\ cimRecord.dispatched
  /\ mem.dispatched => dpc \in {"committing", "aborting"} \cup Ending
  /\ call.m = "commit" /\ call.at # "entry" => mem.dispatched /\ cimRecord.dispatched
  /\ call.m = "abort" /\ call.at # "entry" => ~mem.dispatched
  /\ mem.dispatched /\ dpc = "aborting" => phys.commit = "execution-unknown"

\* Refused notes of a batch are known to the workflow until they are resolved.
RefusedInv ==
  /\ dpc \in {"batch", "review", "authorizing", "committing"} => cim.refused = 0
  /\ dpc \in {"batch", "refused", "review"} \/ call.m = "accept" => snap.refused = escrow.refused
  /\ call.m = "accept" /\ call.at # "snapshot" => cim.refused = 0
  /\ At("accept", "snapshot") /\ cim.refused > 0 => call.r > 0
  /\ dpc = "accepted" /\ Idle /\ ret.ok =>
       snap.refused >= escrow.refused /\ (cim.refused > 0 => snap.refused > escrow.refused)
  /\ dpc = "refused" /\ Idle /\ ret.ok /\ ret.custody \in {"customer", "retract-unit"} =>
       cim.refused = 0

\* Nothing is left in escrow or at the output.
Cleared == ~Outlet /\ cim.place # "escrow"

\* abort() returns the escrow, and answers with what became of it.
AbortInv ==
  /\ call.m = "abort" /\ call.at \notin {"entry", "rollback"} => cim.place # "escrow" /\ ~cim.active
  /\ call.m = "abort" /\ call.at \in {"returned", "retracted"} => Cleared
  /\ call.m = "abort" /\ call.at \in {"retract", "retracting"} => waited \/ aborted
  /\ dpc = "aborting" /\ Idle /\ ret.ok =>
       /\ ret.custody \in {"customer", "retract-unit", "presented", "unknown"}
       /\ ret.custody \in {"customer", "retract-unit"} => Cleared /\ cim.place # "cash-unit"

\* The notes of a committed deposit are in the units.
InUnits == Cleared /\ (cim.notes > 0 => cim.place = "cash-unit")
CommitInv ==
  /\ At("commit", "units") => InUnits
  /\ dpc = "committing" /\ Idle /\ ret.ok => InUnits /\ ret.custody = "cash-unit"
  /\ phys.committed => dpc \in Ending /\ InUnits
  /\ completion => phys.committed

\* What the outcome will say when nothing asks for an intervention.
TrueOf(s) ==
  /\ Cleared /\ (s = "completed" <=> phys.committed)
  /\ cim.place = "cash-unit" => s = "completed"
Unclear ==
  \/ portions \cap {"presented", "unknown", "transport", "escrow"} # {}
  \/ phys.commit = "execution-unknown" \/ phys.recon
OutcomeInv ==
  /\ dpc = "aborting" => wanted \notin {"none", "completed"}
  /\ dpc = "capturing" /\ wanted # "intervention" /\ ~Unclear => TrueOf(wanted)
  /\ status # "none" => dpc \in {"finalizing", "done", "crashed"}
  /\ status \notin {"none", "intervention"} => TrueOf(status)

DepositInv ==
  /\ RecordTypes /\ DeviceTypes /\ CallTypes /\ WorkflowTypes /\ ControlInv /\ NotesInv
  /\ CountInv /\ LeaseInv /\ LeaseCoversNotes /\ ApprovalInv /\ DispatchInv /\ RefusedInv /\ AbortInv /\ CommitInv
  /\ OutcomeInv

USE AcceptanceAssumption
USE DEF Methods, MethodLabels, Custodies, WorkflowPcs, Unopened, Collecting, Ending,
        SessionPhases, NotePlaces, Statuses
-----------------------------------------------------------------------------
(* The steps the actions are made of, field by field *)

\* No method is running.
LEMMA NoCallFacts == NoCall \in CallRecords /\ NoCall.m = "idle" /\ NoCall.at = "idle"
BY DEF NoCall, CallRecords

\* A method that throws.
LEMMA ErrorFacts == Error \in Answers /\ Error.ok = FALSE
BY DEF Error, Answers

\* A method that answers.
LEMMA DoneFacts ==
  \A c \in Custodies : Done(c) \in Answers /\ Done(c).ok = TRUE /\ Done(c).custody = c
<1> TAKE c \in Custodies
<1>1. CASE c \in {"presented", "unknown"}
  BY <1>1 DEF Done, Answers
<1>2. CASE c \notin {"presented", "unknown"}
  BY <1>2 DEF Done, Answers
<1> QED
  BY <1>1, <1>2

\* A method goes on to its next await.
LEMMA GotoFacts ==
  ASSUME call \in CallRecords
  PROVE  \A l \in MethodLabels : Goto(l) =>
           /\ call' \in CallRecords /\ call'.m = call.m /\ call'.at = l /\ call'.n = call.n /\ call'.r = call.r
           /\ ret' = ret
BY DEF Goto, CallRecords

\* The workflow calls a method.
LEMMA EntryFacts ==
  \A m \in Methods : Entry(m) \in CallRecords /\ Entry(m).m = m /\ Entry(m).at = "entry"
BY NoCallFacts DEF Entry, CallRecords

\* A record in another phase.
LEMMA PhaseFacts ==
  ASSUME mem \in SessionRecords
  PROVE  \A p \in SessionPhases :
           /\ WithPhase(p) \in SessionRecords /\ WithPhase(p).phase = p
           /\ WithPhase(p).dispatched = mem.dispatched /\ WithPhase(p).rev = mem.rev
BY DEF WithPhase, SessionRecords

\* Notes come in.
LEMMA TakeInFacts ==
  ASSUME cim \in Devices
  PROVE  \A a, r \in 0..1 :
           /\ TakeIn(a, r) \in Devices /\ TakeIn(a, r).active = cim.active
           /\ TakeIn(a, r).notes = cim.notes + a /\ TakeIn(a, r).refused = cim.refused + r
           /\ TakeIn(a, r).place = IF a > 0 THEN "escrow" ELSE cim.place
<1> TAKE a, r \in 0..1
<1> DEFINE p == IF a > 0 THEN "escrow" ELSE cim.place
<1>1. p \in NotePlaces
  BY DEF Devices
<1>2. TakeIn(a, r) = [cim EXCEPT !.notes = cim.notes + a, !.refused = cim.refused + r, !.place = p]
  BY DEF TakeIn, Devices
<1> HIDE DEF p
<1>3. [cim EXCEPT !.notes = cim.notes + a, !.refused = cim.refused + r, !.place = p] \in Devices
  <2>1. cim.notes + a \in Nat /\ cim.refused + r \in Nat
    BY DEF Devices
  <2>2. \A x, y \in Nat : [cim EXCEPT !.notes = x, !.refused = y, !.place = p] \in Devices
    BY <1>1 DEF Devices
  <2> QED
    BY <2>1, <2>2
<1>4. TakeIn(a, r).active = cim.active /\ TakeIn(a, r).place = p
  BY <1>2 DEF Devices
<1>5. TakeIn(a, r).notes = cim.notes + a /\ TakeIn(a, r).refused = cim.refused + r
  BY <1>2 DEF Devices
<1> QED
  BY <1>2, <1>3, <1>4, <1>5 DEF p

\* The escrow is presented.
LEMMA RolledBackFacts ==
  ASSUME cim \in Devices
  PROVE  /\ RolledBack \in Devices /\ RolledBack.active = FALSE
         /\ RolledBack.notes = cim.notes /\ RolledBack.refused = cim.refused
         /\ RolledBack.place = IF cim.place = "escrow" THEN "presented" ELSE cim.place
BY DEF RolledBack, Devices

\* The output position is emptied, and the escrow may go along.
LEMMA RetractedFacts ==
  ASSUME cim \in Devices
  PROVE  \A d \in Retracted :
           /\ d \in Devices /\ d.active = FALSE /\ d.notes = cim.notes /\ d.refused = 0
           /\ d.place \in {cim.place, "retract-unit"} /\ d.place # "presented"
           /\ cim.place \notin {"presented", "escrow"} => d.place = cim.place
<1> TAKE d \in Retracted
<1>1. PICK p \in {cim.place, "retract-unit"} :
        /\ d = [active |-> FALSE, notes |-> cim.notes, place |-> p, refused |-> 0]
        /\ p # "presented" /\ (cim.place \notin {"presented", "escrow"} => p = cim.place)
  BY DEF Retracted, Devices
<1> QED
  BY <1>1 DEF Devices

\* A batch goes on to its snapshot.
LEMMA BatchFacts ==
  ASSUME call \in CallRecords
  PROVE  \A a, r \in 0..1 :
           /\ Batch(a, r) \in CallRecords /\ Batch(a, r).m = call.m
           /\ Batch(a, r).at = "snapshot" /\ Batch(a, r).n = a /\ Batch(a, r).r = r
BY DEF Batch, CallRecords

\* The record of the next revision, and the one of a dispatched commit.
LEMMA RecordFacts ==
  ASSUME mem \in SessionRecords
  PROVE  /\ NextRevision \in SessionRecords /\ NextRevision.rev = mem.rev + 1
         /\ NextRevision.dispatched = mem.dispatched
         /\ Dispatched \in SessionRecords /\ Dispatched.rev = mem.rev /\ Dispatched.dispatched = TRUE
<1>1. NextRevision \in SessionRecords
  <2>1. mem.rev + 1 \in Nat
    BY DEF SessionRecords
  <2>2. \A n \in Nat : [mem EXCEPT !.phase = "escrowed", !.rev = n] \in SessionRecords
    BY DEF SessionRecords
  <2> QED
    BY <2>1, <2>2 DEF NextRevision
<1>2. NextRevision.rev = mem.rev + 1 /\ NextRevision.dispatched = mem.dispatched
  BY DEF SessionRecords, NextRevision
<1>3. WithPhase("committing") \in SessionRecords /\ WithPhase("committing").rev = mem.rev
  BY PhaseFacts
<1>4. Dispatched \in SessionRecords /\ Dispatched.rev = mem.rev /\ Dispatched.dispatched = TRUE
  BY <1>3 DEF SessionRecords, Dispatched
<1> QED
  BY <1>1, <1>2, <1>4

\* The device begins a cash-in, and ends it with the notes in the units.
LEMMA CashInFacts ==
  ASSUME cim \in Devices
  PROVE  /\ [cim EXCEPT !.active = TRUE] \in Devices
         /\ [cim EXCEPT !.active = TRUE].place = cim.place
         /\ [cim EXCEPT !.active = TRUE].notes = cim.notes
         /\ [cim EXCEPT !.active = TRUE].refused = cim.refused
         /\ CashedIn \in Devices /\ CashedIn.active = FALSE
         /\ CashedIn.notes = cim.notes /\ CashedIn.refused = cim.refused
         /\ CashedIn.place = IF cim.place = "escrow" THEN "cash-unit" ELSE cim.place
BY DEF Devices, CashedIn

\* The answer of a commit.
LEMMA CommittedFacts ==
  /\ [Done("cash-unit") EXCEPT !.committed = TRUE] \in Answers
  /\ [Done("cash-unit") EXCEPT !.committed = TRUE].ok = TRUE
  /\ [Done("cash-unit") EXCEPT !.committed = TRUE].custody = "cash-unit"
BY DoneFacts DEF Answers

-----------------------------------------------------------------------------
(* Every step keeps the invariant *)

USE DEF DepositInv, RecordTypes, DeviceTypes, CallTypes, WorkflowTypes, At, Idle, Outlet,
        depositVars, acceptVars

\* start() takes the lease and writes the record.
LEMMA StartEntryInv == ASSUME DepositInv, StartEntry, UNCHANGED depositVars PROVE DepositInv'
<1> USE PhaseFacts, GotoFacts, NoCallFacts, ErrorFacts DEF StartEntry, CimFault, Return,
      Persist, Persisted
<1>1. RecordTypes'
  OBVIOUS
<1>2. (DeviceTypes /\ CallTypes)'
  OBVIOUS
<1>3. WorkflowTypes'
  OBVIOUS
<1>4. (ControlInv /\ NotesInv /\ LeaseInv /\ LeaseCoversNotes /\ ApprovalInv /\ DispatchInv)'
  BY DEF ControlInv, NotesInv, CountInv, LeaseInv, LeaseCoversNotes, ApprovalInv, DispatchInv,
     AbortInv, CommitInv, Cleared, InUnits
<1>5. CountInv'
  BY DEF ControlInv, NotesInv, CountInv, Devices, NoteCounts, SessionRecords
<1>6. (RefusedInv /\ AbortInv)'
  BY DEF ControlInv, NotesInv, CountInv, DispatchInv, RefusedInv, AbortInv, Devices, NoteCounts,
     SessionRecords, Cleared
<1>7. (CommitInv /\ OutcomeInv)'
  BY DEF ControlInv, NotesInv, CountInv, DispatchInv, RefusedInv, AbortInv, CommitInv,
     OutcomeInv, Devices, NoteCounts, SessionRecords, Cleared, InUnits, TrueOf, Unclear
<1> QED
  BY <1>1, <1>2, <1>3, <1>4, <1>5, <1>6, <1>7

\* start() opens the cash-in, or gives the lease back.
LEMMA StartDeviceInv == ASSUME DepositInv, StartDevice, UNCHANGED depositVars PROVE DepositInv'
<1> USE NoCallFacts, ErrorFacts, DoneFacts, CashInFacts DEF StartDevice, CimFault, Return
<1>1. RecordTypes'
  OBVIOUS
<1>2. (DeviceTypes /\ CallTypes)'
  OBVIOUS
<1>3. WorkflowTypes'
  OBVIOUS
<1>4. (ControlInv /\ NotesInv /\ LeaseInv /\ LeaseCoversNotes /\ ApprovalInv /\ DispatchInv)'
  BY DEF ControlInv, NotesInv, CountInv, LeaseInv, LeaseCoversNotes, ApprovalInv, DispatchInv,
     AbortInv, CommitInv, Cleared, InUnits
<1>5. CountInv'
  BY DEF ControlInv, NotesInv, CountInv, Devices, NoteCounts, SessionRecords
<1>6. (RefusedInv /\ AbortInv)'
  BY DEF ControlInv, NotesInv, CountInv, DispatchInv, RefusedInv, AbortInv, Devices, NoteCounts,
     SessionRecords, Cleared
<1>7. (CommitInv /\ OutcomeInv)'
  BY DEF ControlInv, NotesInv, CountInv, DispatchInv, RefusedInv, AbortInv, CommitInv,
     OutcomeInv, Devices, NoteCounts, SessionRecords, Cleared, InUnits, TrueOf, Unclear
<1> QED
  BY <1>1, <1>2, <1>3, <1>4, <1>5, <1>6, <1>7

\* acceptBatch() begins.
LEMMA AcceptEntryInv == ASSUME DepositInv, AcceptEntry, UNCHANGED depositVars PROVE DepositInv'
<1> USE PhaseFacts, GotoFacts, NoCallFacts, ErrorFacts DEF AcceptEntry, Return, Persist,
      Persisted, CimFault
<1>1. (RecordTypes /\ DeviceTypes /\ CallTypes)'
  OBVIOUS
<1>2. WorkflowTypes'
  OBVIOUS
<1>3. (ControlInv /\ NotesInv /\ LeaseInv /\ LeaseCoversNotes /\ ApprovalInv /\ DispatchInv)'
  BY DEF ControlInv, NotesInv, CountInv, LeaseInv, LeaseCoversNotes, ApprovalInv, DispatchInv,
     AbortInv, CommitInv, Cleared, InUnits
<1>4. CountInv'
  BY DEF ControlInv, NotesInv, CountInv, Devices, NoteCounts, SessionRecords
<1>5. (RefusedInv /\ AbortInv)'
  BY DEF ControlInv, NotesInv, CountInv, DispatchInv, RefusedInv, AbortInv, Devices, NoteCounts,
     SessionRecords, Cleared
<1>6. (CommitInv /\ OutcomeInv)'
  BY DEF ControlInv, NotesInv, CountInv, DispatchInv, RefusedInv, AbortInv, CommitInv,
     OutcomeInv, Devices, NoteCounts, SessionRecords, Cleared, InUnits, TrueOf, Unclear
<1> QED
  BY <1>1, <1>2, <1>3, <1>4, <1>5, <1>6

\* Notes come in or are refused, and the answer may be lost.
LEMMA AcceptCashInInv == ASSUME DepositInv, AcceptCashIn, UNCHANGED depositVars PROVE DepositInv'
<1> USE NoCallFacts, ErrorFacts, TakeInFacts, BatchFacts DEF AcceptCashIn, CimFault, Return
<1>1. (RecordTypes /\ DeviceTypes /\ CallTypes)'
  OBVIOUS
<1>2. WorkflowTypes'
  OBVIOUS
<1>3. (ControlInv /\ NotesInv /\ LeaseInv /\ LeaseCoversNotes /\ ApprovalInv /\ DispatchInv)'
  BY DEF ControlInv, NotesInv, CountInv, LeaseInv, LeaseCoversNotes, ApprovalInv, DispatchInv,
     AbortInv, CommitInv, Cleared, InUnits
<1>4. CountInv'
  BY DEF ControlInv, NotesInv, CountInv, Devices, NoteCounts, SessionRecords
<1>5. (RefusedInv /\ AbortInv)'
  BY SMTT(40) DEF ControlInv, NotesInv, CountInv, DispatchInv, RefusedInv, AbortInv, Devices, NoteCounts,
     SessionRecords, Cleared
<1>6. (CommitInv /\ OutcomeInv)'
  BY SMTT(40) DEF ControlInv, NotesInv, CountInv, DispatchInv, RefusedInv, AbortInv, CommitInv,
     OutcomeInv, Devices, NoteCounts, SessionRecords, Cleared, InUnits, TrueOf, Unclear
<1> QED
  BY <1>1, <1>2, <1>3, <1>4, <1>5, <1>6

\* The batch is counted in the next revision.
LEMMA AcceptSnapshotInv == ASSUME DepositInv, AcceptSnapshot, UNCHANGED depositVars PROVE DepositInv'
<1> USE PhaseFacts, RecordFacts, NoCallFacts, ErrorFacts, DoneFacts DEF AcceptSnapshot, Return,
      Persist, Persisted, CimFault
<1>1. (RecordTypes /\ DeviceTypes /\ CallTypes)'
  BY DEF CallRecords, NoteCounts
<1>2. WorkflowTypes'
  BY DEF CallRecords, NoteCounts
<1>3. (ControlInv /\ NotesInv /\ LeaseInv /\ LeaseCoversNotes /\ ApprovalInv /\ DispatchInv)'
  BY DEF ControlInv, NotesInv, CountInv, LeaseInv, LeaseCoversNotes, ApprovalInv, DispatchInv,
     AbortInv, CommitInv, CallRecords, NoteCounts, Cleared, InUnits
<1>4. CountInv'
  <2>1. mem' = NextRevision /\ call' = NoCall /\ UNCHANGED cim
    OBVIOUS
  <2>2. mem'.rev = mem.rev + 1 /\ call'.m = "idle"
    BY <2>1
  <2>3. dpc = "accepted" /\ call.m = "accept" /\ batch > 0
    BY DEF ControlInv, CountInv, Unopened, Ending
  <2> QED
    BY <2>1, <2>2, <2>3 DEF ControlInv, CountInv, SessionRecords, NoteCounts, Devices
<1>5. (RefusedInv /\ AbortInv)'
  BY DEF ControlInv, NotesInv, CountInv, DispatchInv, RefusedInv, AbortInv, CallRecords,
     NoteCounts, Devices, SessionRecords, Cleared
<1>6. (CommitInv /\ OutcomeInv)'
  BY DEF ControlInv, NotesInv, CountInv, DispatchInv, RefusedInv, AbortInv, CommitInv,
     OutcomeInv, CallRecords, NoteCounts, Devices, SessionRecords, Cleared, InUnits, TrueOf,
     Unclear
<1> QED
  BY <1>1, <1>2, <1>3, <1>4, <1>5, <1>6

\* The customer is given time to take refused notes.
LEMMA RefusedWaitInv == ASSUME DepositInv, RefusedWait, UNCHANGED depositVars PROVE DepositInv'
<1> USE GotoFacts, NoCallFacts, ErrorFacts, DoneFacts DEF RefusedWait, CimFault, Return,
      WaitTaken
<1>1. RecordTypes'
  OBVIOUS
<1>2. (DeviceTypes /\ CallTypes)'
  OBVIOUS
<1>3. WorkflowTypes'
  OBVIOUS
<1>4. (ControlInv /\ NotesInv /\ LeaseInv /\ LeaseCoversNotes /\ ApprovalInv /\ DispatchInv)'
  BY DEF ControlInv, NotesInv, CountInv, LeaseInv, LeaseCoversNotes, ApprovalInv, DispatchInv,
     AbortInv, CommitInv, Cleared, InUnits
<1>5. CountInv'
  BY DEF ControlInv, NotesInv, CountInv, Devices, NoteCounts, SessionRecords
<1>6. (RefusedInv /\ AbortInv)'
  BY DEF ControlInv, NotesInv, CountInv, DispatchInv, RefusedInv, AbortInv, Devices, NoteCounts,
     SessionRecords, Cleared
<1>7. (CommitInv /\ OutcomeInv)'
  BY DEF ControlInv, NotesInv, CountInv, DispatchInv, RefusedInv, AbortInv, CommitInv,
     OutcomeInv, Devices, NoteCounts, SessionRecords, Cleared, InUnits, TrueOf, Unclear
<1> QED
  BY <1>1, <1>2, <1>3, <1>4, <1>5, <1>6, <1>7

\* Refused notes are retracted.
LEMMA RefusedRetractInv == ASSUME DepositInv, RefusedRetract, UNCHANGED depositVars PROVE DepositInv'
<1> USE NoCallFacts, ErrorFacts, DoneFacts, RetractedFacts DEF RefusedRetract, CimFault, Return
<1>1. RecordTypes'
  OBVIOUS
<1>2. (DeviceTypes /\ CallTypes)'
  OBVIOUS
<1>3. WorkflowTypes'
  OBVIOUS
<1>4. (ControlInv /\ NotesInv /\ LeaseInv /\ LeaseCoversNotes /\ ApprovalInv /\ DispatchInv)'
  BY ZenonT(60) DEF ControlInv, NotesInv, CountInv, LeaseInv, LeaseCoversNotes, ApprovalInv, DispatchInv,
     AbortInv, CommitInv, Cleared, InUnits
<1>5. CountInv'
  BY ZenonT(60) DEF ControlInv, NotesInv, CountInv, Devices, NoteCounts, SessionRecords
<1>6. (RefusedInv /\ AbortInv)'
  BY ZenonT(60) DEF ControlInv, NotesInv, CountInv, DispatchInv, RefusedInv, AbortInv, Devices, NoteCounts,
     SessionRecords, Cleared
<1>7. (CommitInv /\ OutcomeInv)'
  BY DEF ControlInv, NotesInv, CountInv, DispatchInv, RefusedInv, AbortInv, CommitInv,
     OutcomeInv, Devices, NoteCounts, SessionRecords, Cleared, InUnits, TrueOf, Unclear
<1> QED
  BY <1>1, <1>2, <1>3, <1>4, <1>5, <1>6, <1>7

\* authorize() begins.
LEMMA AuthorizeEntryInv == ASSUME DepositInv, AuthorizeEntry, UNCHANGED depositVars PROVE DepositInv'
<1> USE PhaseFacts, GotoFacts, NoCallFacts, ErrorFacts DEF AuthorizeEntry, Return, Persist,
      Persisted, CimFault
<1>1. (RecordTypes /\ DeviceTypes /\ CallTypes)'
  OBVIOUS
<1>2. WorkflowTypes'
  OBVIOUS
<1>3. (ControlInv /\ NotesInv /\ LeaseInv /\ LeaseCoversNotes /\ ApprovalInv /\ DispatchInv)'
  BY DEF ControlInv, NotesInv, CountInv, LeaseInv, LeaseCoversNotes, ApprovalInv, DispatchInv,
     AbortInv, CommitInv, Cleared, InUnits
<1>4. CountInv'
  BY DEF ControlInv, NotesInv, CountInv, Devices, NoteCounts, SessionRecords
<1>5. (RefusedInv /\ AbortInv)'
  BY DEF ControlInv, NotesInv, CountInv, DispatchInv, RefusedInv, AbortInv, Devices, NoteCounts,
     SessionRecords, Cleared
<1>6. (CommitInv /\ OutcomeInv)'
  BY DEF ControlInv, NotesInv, CountInv, DispatchInv, RefusedInv, AbortInv, CommitInv,
     OutcomeInv, Devices, NoteCounts, SessionRecords, Cleared, InUnits, TrueOf, Unclear
<1> QED
  BY <1>1, <1>2, <1>3, <1>4, <1>5, <1>6

\* commit() writes the dispatch, which is known to everybody before the device is told.
LEMMA CommitEntryInv == ASSUME DepositInv, CommitEntry, UNCHANGED depositVars PROVE DepositInv'
<1> USE PhaseFacts, RecordFacts, GotoFacts, NoCallFacts, ErrorFacts DEF CommitEntry, Return,
      Exact, Persist, Persisted, CimFault
<1>1. (RecordTypes /\ DeviceTypes /\ CallTypes)'
  OBVIOUS
<1>2. WorkflowTypes'
  OBVIOUS
<1>3. (ControlInv /\ NotesInv /\ LeaseInv)'
  BY DEF ControlInv, NotesInv, CountInv, LeaseInv, DispatchInv
<1>4. LeaseCoversNotes'
  BY DEF ControlInv, NotesInv, CountInv, LeaseInv, LeaseCoversNotes, DispatchInv, AbortInv,
     CommitInv, Cleared, InUnits
<1>5. ApprovalInv'
  BY DEF ControlInv, ApprovalInv
<1>6. DispatchInv'
  <2>1. CASE mem' = mem /\ cimRecord' = cimRecord /\ call' = NoCall
    BY <2>1 DEF DispatchInv, ControlInv
  <2>2. CASE mem' = Dispatched /\ call' = NoCall /\ cimRecord' \in {cimRecord, Dispatched}
    BY <2>2 DEF DispatchInv, ControlInv
  <2>3. CASE mem' = Dispatched /\ cimRecord' = Dispatched /\ Goto("cashInEnd")
    BY <2>3 DEF DispatchInv, ControlInv
  <2> QED
    BY <2>1, <2>2, <2>3
<1>7. CountInv'
  <2>1. mem'.rev = mem.rev
    OBVIOUS
  <2>2. call'.m # "accept"
    OBVIOUS
  <2> QED
    BY <2>1, <2>2 DEF CountInv
<1>8. (RefusedInv /\ AbortInv)'
  BY DEF ControlInv, NotesInv, CountInv, DispatchInv, RefusedInv, AbortInv, Devices, NoteCounts,
     SessionRecords, Cleared
<1>9. (CommitInv /\ OutcomeInv)'
  BY DEF ControlInv, NotesInv, CountInv, DispatchInv, RefusedInv, AbortInv, CommitInv,
     OutcomeInv, Devices, NoteCounts, SessionRecords, Cleared, InUnits, TrueOf, Unclear
<1> QED
  BY <1>1, <1>2, <1>3, <1>4, <1>5, <1>6, <1>7, <1>8, <1>9

\* cashInEnd() moves what was approved.
LEMMA CommitDeviceInv == ASSUME DepositInv, CommitDevice, UNCHANGED depositVars PROVE DepositInv'
<1> USE GotoFacts, NoCallFacts, ErrorFacts, CashInFacts DEF CommitDevice, CimFault, Return
<1>1. (RecordTypes /\ DeviceTypes /\ CallTypes)'
  OBVIOUS
<1>2. WorkflowTypes'
  OBVIOUS
<1>3. (ControlInv /\ NotesInv /\ LeaseInv /\ LeaseCoversNotes /\ ApprovalInv /\ DispatchInv)'
  BY ZenonT(60) DEF ControlInv, NotesInv, CountInv, LeaseInv, LeaseCoversNotes, ApprovalInv, DispatchInv,
     AbortInv, CommitInv, Cleared, InUnits
<1>4. CountInv'
  BY ZenonT(60) DEF ControlInv, NotesInv, CountInv, Devices, NoteCounts, SessionRecords
<1>5. (RefusedInv /\ AbortInv)'
  BY ZenonT(60) DEF ControlInv, NotesInv, CountInv, DispatchInv, RefusedInv, AbortInv, Devices, NoteCounts,
     SessionRecords, Cleared
<1>6. CommitInv'
  BY DEF ControlInv, NotesInv, CountInv, DispatchInv, RefusedInv, CommitInv, Cleared, InUnits
<1>7. OutcomeInv'
  BY DEF ControlInv, NotesInv, CountInv, DispatchInv, RefusedInv, AbortInv, CommitInv,
     OutcomeInv, Devices, NoteCounts, SessionRecords, Cleared, InUnits, TrueOf, Unclear
<1> QED
  BY <1>1, <1>2, <1>3, <1>4, <1>5, <1>6, <1>7

\* commit() completes the record and gives the lease back.
LEMMA CommitDoneInv == ASSUME DepositInv, CommitDone, UNCHANGED depositVars PROVE DepositInv'
<1> USE PhaseFacts, NoCallFacts, ErrorFacts, CommittedFacts DEF CommitDone, CimFault, Return,
      Release, Persist, Persisted
<1>1. RecordTypes'
  OBVIOUS
<1>2. (DeviceTypes /\ CallTypes)'
  BY ZenonT(60)
<1>3. WorkflowTypes'
  OBVIOUS
<1>4. (ControlInv /\ NotesInv /\ LeaseInv /\ LeaseCoversNotes /\ ApprovalInv /\ DispatchInv)'
  BY DEF ControlInv, NotesInv, CountInv, LeaseInv, LeaseCoversNotes, ApprovalInv, DispatchInv,
     AbortInv, CommitInv, Cleared, InUnits
<1>5. CountInv'
  BY DEF ControlInv, NotesInv, CountInv, Devices, NoteCounts, SessionRecords
<1>6. (RefusedInv /\ AbortInv)'
  BY DEF ControlInv, NotesInv, CountInv, DispatchInv, RefusedInv, AbortInv, Devices, NoteCounts,
     SessionRecords, Cleared
<1>7. (CommitInv /\ OutcomeInv)'
  BY ZenonT(60) DEF ControlInv, NotesInv, CountInv, DispatchInv, RefusedInv, AbortInv, CommitInv,
     OutcomeInv, Devices, NoteCounts, SessionRecords, Cleared, InUnits, TrueOf, Unclear
<1> QED
  BY <1>1, <1>2, <1>3, <1>4, <1>5, <1>6, <1>7

\* abort() leaves a dispatched commit alone.
LEMMA AbortEntryInv == ASSUME DepositInv, AbortEntry, UNCHANGED depositVars PROVE DepositInv'
<1> USE PhaseFacts, GotoFacts, NoCallFacts, ErrorFacts, DoneFacts DEF AbortEntry, Return,
      Persist, Persisted, CimFault
<1>1. (RecordTypes /\ DeviceTypes /\ CallTypes)'
  OBVIOUS
<1>2. WorkflowTypes'
  OBVIOUS
<1>3. (ControlInv /\ NotesInv /\ LeaseInv /\ LeaseCoversNotes /\ ApprovalInv /\ DispatchInv)'
  BY DEF ControlInv, NotesInv, CountInv, LeaseInv, LeaseCoversNotes, ApprovalInv, DispatchInv,
     AbortInv, CommitInv, Cleared, InUnits
<1>4. CountInv'
  BY DEF ControlInv, NotesInv, CountInv, Devices, NoteCounts, SessionRecords
<1>5. (RefusedInv /\ AbortInv)'
  BY DEF ControlInv, NotesInv, CountInv, DispatchInv, RefusedInv, AbortInv, Devices, NoteCounts,
     SessionRecords, Cleared
<1>6. (CommitInv /\ OutcomeInv)'
  BY DEF ControlInv, NotesInv, CountInv, DispatchInv, RefusedInv, AbortInv, CommitInv,
     OutcomeInv, Devices, NoteCounts, SessionRecords, Cleared, InUnits, TrueOf, Unclear
<1> QED
  BY <1>1, <1>2, <1>3, <1>4, <1>5, <1>6

\* abort() rolls back.
LEMMA AbortRollbackInv == ASSUME DepositInv, AbortRollback, UNCHANGED depositVars PROVE DepositInv'
<1> USE GotoFacts, NoCallFacts, ErrorFacts, RolledBackFacts DEF AbortRollback, CimFault, Return
<1>1. RecordTypes'
  OBVIOUS
<1>2. (DeviceTypes /\ CallTypes)'
  OBVIOUS
<1>3. WorkflowTypes'
  OBVIOUS
<1>4. (ControlInv /\ NotesInv /\ LeaseInv /\ LeaseCoversNotes /\ ApprovalInv /\ DispatchInv)'
  BY DEF ControlInv, NotesInv, CountInv, LeaseInv, LeaseCoversNotes, ApprovalInv, DispatchInv,
     AbortInv, CommitInv, Cleared, InUnits
<1>5. CountInv'
  BY ZenonT(60) DEF ControlInv, NotesInv, CountInv, Devices, NoteCounts, SessionRecords
<1>6. (RefusedInv /\ AbortInv)'
  BY ZenonT(60) DEF ControlInv, NotesInv, CountInv, DispatchInv, RefusedInv, AbortInv, Devices, NoteCounts,
     SessionRecords, Cleared
<1>7. (CommitInv /\ OutcomeInv)'
  BY DEF ControlInv, NotesInv, CountInv, DispatchInv, RefusedInv, AbortInv, CommitInv,
     OutcomeInv, Devices, NoteCounts, SessionRecords, Cleared, InUnits, TrueOf, Unclear
<1> QED
  BY <1>1, <1>2, <1>3, <1>4, <1>5, <1>6, <1>7

\* abort() waits for the customer.
LEMMA AbortWaitInv == ASSUME DepositInv, AbortWait, UNCHANGED depositVars PROVE DepositInv'
<1> USE GotoFacts, NoCallFacts, ErrorFacts DEF AbortWait, CimFault, Return, WaitTaken
<1>1. RecordTypes'
  OBVIOUS
<1>2. (DeviceTypes /\ CallTypes)'
  OBVIOUS
<1>3. WorkflowTypes'
  OBVIOUS
<1>4. (ControlInv /\ NotesInv /\ LeaseInv /\ LeaseCoversNotes /\ ApprovalInv /\ DispatchInv)'
  BY DEF ControlInv, NotesInv, CountInv, LeaseInv, LeaseCoversNotes, ApprovalInv, DispatchInv,
     AbortInv, CommitInv, Cleared, InUnits
<1>5. CountInv'
  BY DEF ControlInv, NotesInv, CountInv, Devices, NoteCounts, SessionRecords
<1>6. (RefusedInv /\ AbortInv)'
  BY DEF ControlInv, NotesInv, CountInv, DispatchInv, RefusedInv, AbortInv, Devices, NoteCounts,
     SessionRecords, Cleared
<1>7. (CommitInv /\ OutcomeInv)'
  BY DEF ControlInv, NotesInv, CountInv, DispatchInv, RefusedInv, AbortInv, CommitInv,
     OutcomeInv, Devices, NoteCounts, SessionRecords, Cleared, InUnits, TrueOf, Unclear
<1> QED
  BY <1>1, <1>2, <1>3, <1>4, <1>5, <1>6, <1>7

\* abort() records that it retracts.
LEMMA AbortRetractInv == ASSUME DepositInv, AbortRetract, UNCHANGED depositVars PROVE DepositInv'
<1> USE PhaseFacts, GotoFacts, NoCallFacts, ErrorFacts DEF AbortRetract, Return, Persist,
      Persisted, CimFault
<1>1. (RecordTypes /\ DeviceTypes /\ CallTypes)'
  OBVIOUS
<1>2. WorkflowTypes'
  OBVIOUS
<1>3. (ControlInv /\ NotesInv /\ LeaseInv /\ LeaseCoversNotes /\ ApprovalInv /\ DispatchInv)'
  BY DEF ControlInv, NotesInv, CountInv, LeaseInv, LeaseCoversNotes, ApprovalInv, DispatchInv,
     AbortInv, CommitInv, Cleared, InUnits
<1>4. CountInv'
  BY DEF ControlInv, NotesInv, CountInv, Devices, NoteCounts, SessionRecords
<1>5. (RefusedInv /\ AbortInv)'
  BY DEF ControlInv, NotesInv, CountInv, DispatchInv, RefusedInv, AbortInv, Devices, NoteCounts,
     SessionRecords, Cleared
<1>6. (CommitInv /\ OutcomeInv)'
  BY DEF ControlInv, NotesInv, CountInv, DispatchInv, RefusedInv, AbortInv, CommitInv,
     OutcomeInv, Devices, NoteCounts, SessionRecords, Cleared, InUnits, TrueOf, Unclear
<1> QED
  BY <1>1, <1>2, <1>3, <1>4, <1>5, <1>6

\* abort() retracts.
LEMMA AbortRetractingInv == ASSUME DepositInv, AbortRetracting, UNCHANGED depositVars PROVE DepositInv'
<1> USE GotoFacts, NoCallFacts, ErrorFacts, RetractedFacts DEF AbortRetracting, CimFault, Return
<1>1. RecordTypes'
  OBVIOUS
<1>2. (DeviceTypes /\ CallTypes)'
  OBVIOUS
<1>3. WorkflowTypes'
  OBVIOUS
<1>4. (ControlInv /\ NotesInv /\ LeaseInv /\ LeaseCoversNotes /\ ApprovalInv /\ DispatchInv)'
  BY DEF ControlInv, NotesInv, CountInv, LeaseInv, LeaseCoversNotes, ApprovalInv, DispatchInv,
     AbortInv, CommitInv, Cleared, InUnits
<1>5. CountInv'
  BY DEF ControlInv, NotesInv, CountInv, Devices, NoteCounts, SessionRecords
<1>6. RefusedInv'
  BY DEF ControlInv, NotesInv, CountInv, RefusedInv, Devices, NoteCounts, SessionRecords
<1>7. AbortInv'
  <2>1. CASE call' = NoCall /\ ret' = Error
    BY <2>1 DEF AbortInv
  <2>2. CASE cim' \in Retracted /\ Goto("retracted")
    <3>1. /\ cim'.active = FALSE /\ cim'.refused = 0
          /\ cim'.place \in {cim.place, "retract-unit"} /\ cim'.place # "presented"
      BY <2>2
    <3>2. call'.m = "abort" /\ call'.at = "retracted"
      BY <2>2
    <3> QED
      BY <3>1, <3>2 DEF AbortInv, Cleared
  <2> QED
    BY <2>1, <2>2
<1>8. (CommitInv /\ OutcomeInv)'
  BY DEF ControlInv, NotesInv, CountInv, DispatchInv, RefusedInv, AbortInv, CommitInv,
     OutcomeInv, Devices, NoteCounts, SessionRecords, Cleared, InUnits, TrueOf, Unclear
<1> QED
  BY <1>1, <1>2, <1>3, <1>4, <1>5, <1>6, <1>7, <1>8

\* abort() ends, and gives the lease back when nothing is left.
LEMMA AbortDoneInv == ASSUME DepositInv, AbortDone, UNCHANGED depositVars PROVE DepositInv'
<1> USE PhaseFacts, NoCallFacts, ErrorFacts, DoneFacts DEF AbortDone, Release, Return, Persist,
      Persisted, CimFault
<1>1. RecordTypes'
  OBVIOUS
<1>2. (DeviceTypes /\ CallTypes)'
  BY ZenonT(60)
<1>3. WorkflowTypes'
  OBVIOUS
<1>4. (ControlInv /\ NotesInv /\ LeaseInv /\ LeaseCoversNotes /\ ApprovalInv /\ DispatchInv)'
  BY DEF ControlInv, NotesInv, CountInv, LeaseInv, LeaseCoversNotes, ApprovalInv, DispatchInv,
     AbortInv, CommitInv, Cleared, InUnits
<1>5. CountInv'
  BY DEF ControlInv, NotesInv, CountInv, Devices, NoteCounts, SessionRecords
<1>6. (RefusedInv /\ AbortInv)'
  BY DEF ControlInv, NotesInv, CountInv, DispatchInv, RefusedInv, AbortInv, Devices, NoteCounts,
     SessionRecords, Cleared
<1>7. (CommitInv /\ OutcomeInv)'
  BY DEF ControlInv, NotesInv, CountInv, DispatchInv, RefusedInv, AbortInv, CommitInv,
     OutcomeInv, Devices, NoteCounts, SessionRecords, Cleared, InUnits, TrueOf, Unclear
<1> QED
  BY <1>1, <1>2, <1>3, <1>4, <1>5, <1>6, <1>7

\* The customer takes what is presented.
LEMMA CustomerTakesNotesInv == ASSUME DepositInv, CustomerTakesNotes, UNCHANGED depositVars PROVE DepositInv'
<1> USE DEF CustomerTakesNotes
<1>1. (RecordTypes /\ DeviceTypes /\ CallTypes)'
  BY DEF Devices
<1>2. WorkflowTypes'
  BY DEF Devices
<1>3. (ControlInv /\ NotesInv /\ LeaseInv /\ LeaseCoversNotes /\ ApprovalInv /\ DispatchInv)'
  BY DEF ControlInv, NotesInv, CountInv, LeaseInv, LeaseCoversNotes, ApprovalInv, DispatchInv,
     AbortInv, CommitInv, Devices, Cleared, InUnits
<1>4. CountInv'
  BY DEF ControlInv, NotesInv, CountInv, Devices, NoteCounts, SessionRecords
<1>5. (RefusedInv /\ AbortInv)'
  BY DEF ControlInv, NotesInv, CountInv, DispatchInv, RefusedInv, AbortInv, Devices, NoteCounts,
     SessionRecords, Cleared
<1>6. (CommitInv /\ OutcomeInv)'
  BY DEF ControlInv, NotesInv, CountInv, DispatchInv, RefusedInv, AbortInv, CommitInv,
     OutcomeInv, Devices, NoteCounts, SessionRecords, Cleared, InUnits, TrueOf, Unclear
<1> QED
  BY <1>1, <1>2, <1>3, <1>4, <1>5, <1>6

\* The host lets the lease lapse.
LEMMA LeaseLapsesInv == ASSUME DepositInv, LeaseLapses, UNCHANGED depositVars PROVE DepositInv'
<1> USE DEF LeaseLapses
<1>1. (RecordTypes /\ DeviceTypes /\ CallTypes /\ WorkflowTypes)'
  OBVIOUS
<1>2. (LeaseInv /\ LeaseCoversNotes)'
  BY DEF LeaseInv, LeaseCoversNotes
<1>3. (ControlInv /\ NotesInv /\ CountInv /\ ApprovalInv /\ DispatchInv)'
  BY DEF ControlInv, NotesInv, CountInv, ApprovalInv, DispatchInv
<1>4. (RefusedInv /\ AbortInv /\ CommitInv /\ OutcomeInv)'
  BY DEF RefusedInv, AbortInv, CommitInv, OutcomeInv, Cleared, InUnits, TrueOf, Unclear
<1> QED
  BY <1>1, <1>2, <1>3, <1>4

\* Recovery rolls back a session that died before its commit.
LEMMA ExecuteRollbackInv == ASSUME DepositInv, ExecuteRollback, UNCHANGED depositVars, dpc = "crashed" PROVE DepositInv'
<1> USE RolledBackFacts DEF ExecuteRollback, DepositUnresolved, Decide
<1>1. (RecordTypes /\ DeviceTypes /\ CallTypes)'
  OBVIOUS
<1>2. WorkflowTypes'
  OBVIOUS
<1>3. (ControlInv /\ NotesInv /\ LeaseInv /\ LeaseCoversNotes /\ ApprovalInv /\ DispatchInv)'
  BY DEF ControlInv, NotesInv, CountInv, LeaseInv, LeaseCoversNotes, ApprovalInv, DispatchInv,
     AbortInv, CommitInv, Cleared, InUnits
<1>4. CountInv'
  BY DEF ControlInv, NotesInv, CountInv, Devices, NoteCounts, SessionRecords
<1>5. (RefusedInv /\ AbortInv)'
  BY DEF ControlInv, NotesInv, CountInv, DispatchInv, RefusedInv, AbortInv, Devices, NoteCounts,
     SessionRecords, Cleared
<1>6. (CommitInv /\ OutcomeInv)'
  BY DEF ControlInv, NotesInv, CountInv, DispatchInv, RefusedInv, AbortInv, CommitInv,
     OutcomeInv, Devices, NoteCounts, SessionRecords, Cleared, InUnits, TrueOf, Unclear
<1> QED
  BY <1>1, <1>2, <1>3, <1>4, <1>5, <1>6

\* The workflow is admitted.
LEMMA AdmissionInv == ASSUME DepositInv, Admission PROVE DepositInv'
<1> USE DEF Admission
<1>1. (RecordTypes /\ DeviceTypes /\ CallTypes)'
  OBVIOUS
<1>2. WorkflowTypes'
  OBVIOUS
<1>3. (ControlInv /\ NotesInv /\ LeaseInv /\ LeaseCoversNotes /\ ApprovalInv /\ DispatchInv)'
  BY DEF ControlInv, NotesInv, CountInv, LeaseInv, LeaseCoversNotes, ApprovalInv, DispatchInv,
     AbortInv, CommitInv, Cleared, InUnits
<1>4. CountInv'
  BY DEF ControlInv, NotesInv, CountInv, Devices, NoteCounts, SessionRecords
<1>5. (RefusedInv /\ AbortInv)'
  BY DEF ControlInv, NotesInv, CountInv, DispatchInv, RefusedInv, AbortInv, Devices, NoteCounts,
     SessionRecords, Cleared
<1>6. (CommitInv /\ OutcomeInv)'
  BY DEF ControlInv, NotesInv, CountInv, DispatchInv, RefusedInv, AbortInv, CommitInv,
     OutcomeInv, Devices, NoteCounts, SessionRecords, Cleared, InUnits, TrueOf, Unclear
<1> QED
  BY <1>1, <1>2, <1>3, <1>4, <1>5, <1>6

\* The inventory is captured and the session started.
LEMMA CaptureBeforeInv == ASSUME DepositInv, CaptureBefore PROVE DepositInv'
<1> USE EntryFacts DEF CaptureBefore, CimFault, Call, EndWith
<1>1. (RecordTypes /\ DeviceTypes /\ CallTypes)'
  OBVIOUS
<1>2. WorkflowTypes'
  OBVIOUS
<1>3. (ControlInv /\ NotesInv /\ LeaseInv /\ LeaseCoversNotes /\ ApprovalInv /\ DispatchInv)'
  BY DEF ControlInv, NotesInv, CountInv, LeaseInv, LeaseCoversNotes, ApprovalInv, DispatchInv,
     AbortInv, CommitInv, Cleared, InUnits
<1>4. CountInv'
  BY DEF ControlInv, NotesInv, CountInv, Devices, NoteCounts, SessionRecords
<1>5. (RefusedInv /\ AbortInv)'
  BY DEF ControlInv, NotesInv, CountInv, DispatchInv, RefusedInv, AbortInv, Devices, NoteCounts,
     SessionRecords, Cleared
<1>6. (CommitInv /\ OutcomeInv)'
  BY DEF ControlInv, NotesInv, CountInv, DispatchInv, RefusedInv, AbortInv, CommitInv,
     OutcomeInv, Devices, NoteCounts, SessionRecords, Cleared, InUnits, TrueOf, Unclear
<1> QED
  BY <1>1, <1>2, <1>3, <1>4, <1>5, <1>6

\* The session has started or not.
LEMMA StartedInv == ASSUME DepositInv, Started PROVE DepositInv'
<1> USE DEF Started, EndWith
<1>1. (RecordTypes /\ DeviceTypes /\ CallTypes)'
  BY DEF SessionRecords, Devices
<1>2. WorkflowTypes'
  BY DEF SessionRecords, Devices
<1>3. (ControlInv /\ NotesInv /\ LeaseInv /\ LeaseCoversNotes /\ ApprovalInv /\ DispatchInv)'
  BY DEF ControlInv, NotesInv, CountInv, LeaseInv, LeaseCoversNotes, ApprovalInv, DispatchInv,
     AbortInv, CommitInv, SessionRecords, Devices, Cleared, InUnits
<1>4. CountInv'
  BY DEF ControlInv, NotesInv, CountInv, SessionRecords, Devices, NoteCounts
<1>5. (RefusedInv /\ AbortInv)'
  BY DEF ControlInv, NotesInv, CountInv, DispatchInv, RefusedInv, AbortInv, SessionRecords,
     Devices, NoteCounts, Cleared
<1>6. (CommitInv /\ OutcomeInv)'
  BY DEF ControlInv, NotesInv, CountInv, DispatchInv, RefusedInv, AbortInv, CommitInv,
     OutcomeInv, SessionRecords, Devices, NoteCounts, Cleared, InUnits, TrueOf, Unclear
<1> QED
  BY <1>1, <1>2, <1>3, <1>4, <1>5, <1>6

\* The next batch is asked for, or the session aborted.
LEMMA NextBatchInv == ASSUME DepositInv, NextBatch PROVE DepositInv'
<1> USE EntryFacts DEF NextBatch, Call, AbortFor
<1>1. (RecordTypes /\ DeviceTypes /\ CallTypes)'
  OBVIOUS
<1>2. WorkflowTypes'
  OBVIOUS
<1>3. (ControlInv /\ NotesInv /\ LeaseInv /\ LeaseCoversNotes /\ ApprovalInv /\ DispatchInv)'
  BY ZenonT(60) DEF ControlInv, NotesInv, CountInv, LeaseInv, LeaseCoversNotes, ApprovalInv, DispatchInv,
     AbortInv, CommitInv, Cleared, InUnits
<1>4. CountInv'
  BY DEF ControlInv, NotesInv, CountInv, Devices, NoteCounts, SessionRecords
<1>5. (RefusedInv /\ AbortInv)'
  BY DEF ControlInv, NotesInv, CountInv, DispatchInv, RefusedInv, AbortInv, Devices, NoteCounts,
     SessionRecords, Cleared
<1>6. (CommitInv /\ OutcomeInv)'
  BY DEF ControlInv, NotesInv, CountInv, DispatchInv, RefusedInv, AbortInv, CommitInv,
     OutcomeInv, Devices, NoteCounts, SessionRecords, Cleared, InUnits, TrueOf, Unclear
<1> QED
  BY <1>1, <1>2, <1>3, <1>4, <1>5, <1>6

\* A batch is in: refused notes are resolved first.
LEMMA AcceptedInv == ASSUME DepositInv, Accepted PROVE DepositInv'
<1> USE EntryFacts DEF Accepted, CimFault, Call, AbortFor, NewRefused
<1>1. (RecordTypes /\ DeviceTypes /\ CallTypes)'
  BY DEF NoteCounts
<1>2. WorkflowTypes'
  BY DEF NoteCounts
<1>3. (ControlInv /\ NotesInv /\ LeaseInv)'
  BY ZenonT(60) DEF ControlInv, NotesInv, CountInv, LeaseInv, DispatchInv, NoteCounts
<1>4. LeaseCoversNotes'
  BY DEF ControlInv, NotesInv, CountInv, LeaseInv, LeaseCoversNotes, DispatchInv, AbortInv,
     CommitInv, NoteCounts, Cleared, InUnits
<1>5. (ApprovalInv /\ DispatchInv)'
  BY DEF ControlInv, ApprovalInv, DispatchInv, NoteCounts
<1>6. CountInv'
  BY DEF ControlInv, NotesInv, CountInv, NoteCounts, Devices, SessionRecords
<1>7. (RefusedInv /\ AbortInv)'
  BY DEF ControlInv, NotesInv, CountInv, DispatchInv, RefusedInv, AbortInv, NoteCounts, Devices,
     SessionRecords, Cleared
<1>8. (CommitInv /\ OutcomeInv)'
  BY DEF ControlInv, NotesInv, CountInv, DispatchInv, RefusedInv, AbortInv, CommitInv,
     OutcomeInv, NoteCounts, Devices, SessionRecords, Cleared, InUnits, TrueOf, Unclear
<1> QED
  BY <1>1, <1>2, <1>3, <1>4, <1>5, <1>6, <1>7, <1>8

\* Refused notes are resolved, or the deposit aborted.
LEMMA RefusedResolvedInv == ASSUME DepositInv, RefusedResolved PROVE DepositInv'
<1> USE EntryFacts DEF RefusedResolved, Call, AbortFor
<1>1. (RecordTypes /\ DeviceTypes /\ CallTypes)'
  OBVIOUS
<1>2. WorkflowTypes'
  OBVIOUS
<1>3. (ControlInv /\ NotesInv /\ LeaseInv /\ LeaseCoversNotes /\ ApprovalInv /\ DispatchInv)'
  BY ZenonT(60) DEF ControlInv, NotesInv, CountInv, LeaseInv, LeaseCoversNotes, ApprovalInv, DispatchInv,
     AbortInv, CommitInv, Cleared, InUnits
<1>4. CountInv'
  BY DEF ControlInv, NotesInv, CountInv, Devices, NoteCounts, SessionRecords
<1>5. (RefusedInv /\ AbortInv)'
  BY DEF ControlInv, NotesInv, CountInv, DispatchInv, RefusedInv, AbortInv, Devices, NoteCounts,
     SessionRecords, Cleared
<1>6. (CommitInv /\ OutcomeInv)'
  BY DEF ControlInv, NotesInv, CountInv, DispatchInv, RefusedInv, AbortInv, CommitInv,
     OutcomeInv, Devices, NoteCounts, SessionRecords, Cleared, InUnits, TrueOf, Unclear
<1> QED
  BY <1>1, <1>2, <1>3, <1>4, <1>5, <1>6

\* The customer reviews.
LEMMA ReviewInv == ASSUME DepositInv, Review PROVE DepositInv'
<1> USE EntryFacts DEF Review, Call, AbortFor
<1>1. (RecordTypes /\ DeviceTypes /\ CallTypes)'
  OBVIOUS
<1>2. WorkflowTypes'
  OBVIOUS
<1>3. (ControlInv /\ NotesInv /\ LeaseInv)'
  BY DEF ControlInv, NotesInv, CountInv, LeaseInv, DispatchInv
<1>4. LeaseCoversNotes'
  BY DEF ControlInv, NotesInv, CountInv, LeaseInv, LeaseCoversNotes, DispatchInv, AbortInv,
     CommitInv, Cleared, InUnits
<1>5. (ApprovalInv /\ DispatchInv)'
  BY DEF ControlInv, ApprovalInv, DispatchInv
<1>6. CountInv'
  BY DEF ControlInv, NotesInv, CountInv, Devices, NoteCounts, SessionRecords
<1>7. (RefusedInv /\ AbortInv)'
  BY DEF ControlInv, NotesInv, CountInv, DispatchInv, RefusedInv, AbortInv, Devices, NoteCounts,
     SessionRecords, Cleared
<1>8. (CommitInv /\ OutcomeInv)'
  BY DEF ControlInv, NotesInv, CountInv, DispatchInv, RefusedInv, AbortInv, CommitInv,
     OutcomeInv, Devices, NoteCounts, SessionRecords, Cleared, InUnits, TrueOf, Unclear
<1> QED
  BY <1>1, <1>2, <1>3, <1>4, <1>5, <1>6, <1>7, <1>8

\* The host answers about a revision.
LEMMA HostAnswersInv == ASSUME DepositInv, HostAnswers PROVE DepositInv'
<1> USE PhaseFacts, NoCallFacts, ErrorFacts, DoneFacts DEF HostAnswers, Return, AuthorizeAnswer,
      Exact, Persist, Persisted, CimFault
<1>1. (RecordTypes /\ DeviceTypes /\ CallTypes)'
  BY DEF SessionRecords
<1>2. WorkflowTypes'
  BY DEF SessionRecords
<1>3. (ControlInv /\ NotesInv /\ LeaseInv /\ LeaseCoversNotes /\ ApprovalInv /\ DispatchInv)'
  BY DEF ControlInv, NotesInv, CountInv, LeaseInv, LeaseCoversNotes, ApprovalInv, DispatchInv,
     AbortInv, CommitInv, SessionRecords, Cleared, InUnits
<1>4. CountInv'
  BY DEF ControlInv, NotesInv, CountInv, SessionRecords, Devices, NoteCounts
<1>5. (RefusedInv /\ AbortInv)'
  BY DEF ControlInv, NotesInv, CountInv, DispatchInv, RefusedInv, AbortInv, SessionRecords,
     Devices, NoteCounts, Cleared
<1>6. (CommitInv /\ OutcomeInv)'
  BY DEF ControlInv, NotesInv, CountInv, DispatchInv, RefusedInv, AbortInv, CommitInv,
     OutcomeInv, SessionRecords, Devices, NoteCounts, Cleared, InUnits, TrueOf, Unclear
<1> QED
  BY <1>1, <1>2, <1>3, <1>4, <1>5, <1>6

\* The workflow commits what was approved.
LEMMA AuthorizedInv == ASSUME DepositInv, Authorized PROVE DepositInv'
<1> USE EntryFacts DEF Authorized, CimFault, Call, AbortFor
<1>1. (RecordTypes /\ DeviceTypes /\ CallTypes)'
  OBVIOUS
<1>2. WorkflowTypes'
  OBVIOUS
<1>3. (ControlInv /\ NotesInv /\ LeaseInv /\ LeaseCoversNotes /\ ApprovalInv /\ DispatchInv)'
  BY DEF ControlInv, NotesInv, CountInv, LeaseInv, LeaseCoversNotes, ApprovalInv, DispatchInv,
     AbortInv, CommitInv, Cleared, InUnits
<1>4. CountInv'
  BY DEF ControlInv, NotesInv, CountInv, Devices, NoteCounts, SessionRecords
<1>5. (RefusedInv /\ AbortInv)'
  BY DEF ControlInv, NotesInv, CountInv, DispatchInv, RefusedInv, AbortInv, Devices, NoteCounts,
     SessionRecords, Cleared
<1>6. (CommitInv /\ OutcomeInv)'
  BY DEF ControlInv, NotesInv, CountInv, DispatchInv, RefusedInv, AbortInv, CommitInv,
     OutcomeInv, Devices, NoteCounts, SessionRecords, Cleared, InUnits, TrueOf, Unclear
<1> QED
  BY <1>1, <1>2, <1>3, <1>4, <1>5, <1>6

\* The commit has answered.
LEMMA CommittedInv == ASSUME DepositInv, Committed PROVE DepositInv'
<1> USE EntryFacts DEF Committed, Call, AbortFor, EndWith
<1>1. (RecordTypes /\ DeviceTypes /\ CallTypes)'
  OBVIOUS
<1>2. WorkflowTypes'
  <2>1. [phys EXCEPT !.commit = "execution-unknown", !.recon = TRUE]
          \in [commit : {"not-requested", "dispatched", "completed", "execution-unknown"},
               committed : BOOLEAN, recon : BOOLEAN]
    OBVIOUS
  <2>2. CASE ret.ok
    <3>1. phys' = [commit |-> "completed", committed |-> TRUE, recon |-> FALSE]
      BY <2>2
    <3>2. wanted' = "completed" /\ dpc' = "capturing"
      BY <2>2
    <3> QED
      BY <3>1, <3>2
  <2>3. CASE ~ret.ok
    BY <2>1, <2>3
  <2> QED
    BY <2>2, <2>3
<1>3. (ControlInv /\ NotesInv /\ LeaseInv /\ LeaseCoversNotes /\ ApprovalInv /\ DispatchInv)'
  BY ZenonT(60) DEF ControlInv, NotesInv, CountInv, LeaseInv, LeaseCoversNotes, ApprovalInv, DispatchInv,
     AbortInv, CommitInv, Cleared, InUnits
<1>4. CountInv'
  BY DEF ControlInv, NotesInv, CountInv, Devices, NoteCounts, SessionRecords
<1>5. (RefusedInv /\ AbortInv)'
  BY DEF ControlInv, NotesInv, CountInv, DispatchInv, RefusedInv, AbortInv, Devices, NoteCounts,
     SessionRecords, Cleared
<1>6. CommitInv'
  BY ZenonT(60) DEF ControlInv, NotesInv, CountInv, DispatchInv, RefusedInv, CommitInv, Cleared, InUnits
<1>7. OutcomeInv'
  BY DEF ControlInv, NotesInv, CountInv, DispatchInv, RefusedInv, AbortInv, CommitInv,
     OutcomeInv, Devices, NoteCounts, SessionRecords, Cleared, InUnits, TrueOf, Unclear
<1> QED
  BY <1>1, <1>2, <1>3, <1>4, <1>5, <1>6, <1>7

\* The abort has answered.
LEMMA AbortedInv == ASSUME DepositInv, Aborted PROVE DepositInv'
<1> USE DEF Aborted
<1>1. (RecordTypes /\ DeviceTypes /\ CallTypes)'
  BY DEF Answers
<1>2. WorkflowTypes'
  BY ZenonT(60) DEF Answers
<1>3. (ControlInv /\ NotesInv /\ LeaseInv /\ LeaseCoversNotes /\ ApprovalInv /\ DispatchInv)'
  BY DEF ControlInv, NotesInv, CountInv, LeaseInv, LeaseCoversNotes, ApprovalInv, DispatchInv,
     AbortInv, CommitInv, Answers, Cleared, InUnits
<1>4. CountInv'
  BY DEF ControlInv, NotesInv, CountInv, Answers, Devices, NoteCounts, SessionRecords
<1>5. (RefusedInv /\ AbortInv)'
  BY DEF ControlInv, NotesInv, CountInv, DispatchInv, RefusedInv, AbortInv, Answers, Devices,
     NoteCounts, SessionRecords, Cleared
<1>6. (CommitInv /\ OutcomeInv)'
  BY DEF ControlInv, NotesInv, CountInv, DispatchInv, RefusedInv, AbortInv, CommitInv,
     OutcomeInv, Answers, Devices, NoteCounts, SessionRecords, Cleared, InUnits, TrueOf, Unclear
<1> QED
  BY <1>1, <1>2, <1>3, <1>4, <1>5, <1>6

\* The inventory is captured and the outcome built.
LEMMA CaptureAfterInv == ASSUME DepositInv, CaptureAfter PROVE DepositInv'
<1> USE DEF CaptureAfter, CimFault, SafetyStatus
<1>1. (RecordTypes /\ DeviceTypes /\ CallTypes)'
  OBVIOUS
<1>2. WorkflowTypes'
  OBVIOUS
<1>3. (ControlInv /\ NotesInv /\ LeaseInv /\ LeaseCoversNotes /\ ApprovalInv /\ DispatchInv)'
  BY DEF ControlInv, NotesInv, CountInv, LeaseInv, LeaseCoversNotes, ApprovalInv, DispatchInv,
     AbortInv, CommitInv, Cleared, InUnits
<1>4. CountInv'
  BY DEF ControlInv, NotesInv, CountInv, Devices, NoteCounts, SessionRecords
<1>5. (RefusedInv /\ AbortInv)'
  BY DEF ControlInv, NotesInv, CountInv, DispatchInv, RefusedInv, AbortInv, Devices, NoteCounts,
     SessionRecords, Cleared
<1>6. (CommitInv /\ OutcomeInv)'
  BY DEF ControlInv, NotesInv, CountInv, DispatchInv, RefusedInv, AbortInv, CommitInv,
     OutcomeInv, Devices, NoteCounts, SessionRecords, Cleared, InUnits, TrueOf, Unclear
<1> QED
  BY <1>1, <1>2, <1>3, <1>4, <1>5, <1>6

\* The finalizers run.
LEMMA FinalizeInv == ASSUME DepositInv, Finalize PROVE DepositInv'
<1> USE DEF Finalize, TransactionStatus, Completes
<1>1. (RecordTypes /\ DeviceTypes /\ CallTypes)'
  OBVIOUS
<1>2. WorkflowTypes'
  OBVIOUS
<1>3. (ControlInv /\ NotesInv /\ LeaseInv /\ LeaseCoversNotes /\ ApprovalInv /\ DispatchInv)'
  BY DEF ControlInv, NotesInv, CountInv, LeaseInv, LeaseCoversNotes, ApprovalInv, DispatchInv,
     AbortInv, CommitInv, Cleared, InUnits
<1>4. CountInv'
  BY DEF ControlInv, NotesInv, CountInv, Devices, NoteCounts, SessionRecords
<1>5. (RefusedInv /\ AbortInv)'
  BY DEF ControlInv, NotesInv, CountInv, DispatchInv, RefusedInv, AbortInv, Devices, NoteCounts,
     SessionRecords, Cleared
<1>6. (CommitInv /\ OutcomeInv)'
  BY DEF ControlInv, NotesInv, CountInv, DispatchInv, RefusedInv, AbortInv, CommitInv,
     OutcomeInv, Devices, NoteCounts, SessionRecords, Cleared, InUnits, TrueOf, Unclear
<1> QED
  BY <1>1, <1>2, <1>3, <1>4, <1>5, <1>6

\* The signal fires.
LEMMA AbortRequestInv == ASSUME DepositInv, AbortRequest PROVE DepositInv'
<1> USE DEF AbortRequest
<1>1. (RecordTypes /\ DeviceTypes /\ CallTypes)'
  OBVIOUS
<1>2. WorkflowTypes'
  OBVIOUS
<1>3. (ControlInv /\ NotesInv /\ LeaseInv /\ LeaseCoversNotes /\ ApprovalInv /\ DispatchInv)'
  BY DEF ControlInv, NotesInv, CountInv, LeaseInv, LeaseCoversNotes, ApprovalInv, DispatchInv,
     AbortInv, CommitInv, Cleared, InUnits
<1>4. CountInv'
  BY DEF ControlInv, NotesInv, CountInv, Devices, NoteCounts, SessionRecords
<1>5. (RefusedInv /\ AbortInv)'
  BY DEF ControlInv, NotesInv, CountInv, DispatchInv, RefusedInv, AbortInv, Devices, NoteCounts,
     SessionRecords, Cleared
<1>6. (CommitInv /\ OutcomeInv)'
  BY DEF ControlInv, NotesInv, CountInv, DispatchInv, RefusedInv, AbortInv, CommitInv,
     OutcomeInv, Devices, NoteCounts, SessionRecords, Cleared, InUnits, TrueOf, Unclear
<1> QED
  BY <1>1, <1>2, <1>3, <1>4, <1>5, <1>6

\* The process dies; what the device and the store hold stays.
LEMMA CrashDepositInv == ASSUME DepositInv, CrashDeposit PROVE DepositInv'
<1> USE NoCallFacts DEF CrashDeposit
<1>1. (RecordTypes /\ DeviceTypes /\ CallTypes)'
  OBVIOUS
<1>2. WorkflowTypes'
  OBVIOUS
<1>3. (ControlInv /\ NotesInv /\ LeaseInv /\ LeaseCoversNotes /\ ApprovalInv /\ DispatchInv)'
  BY DEF ControlInv, NotesInv, CountInv, LeaseInv, LeaseCoversNotes, ApprovalInv, DispatchInv,
     AbortInv, CommitInv, Cleared, InUnits
<1>4. CountInv'
  BY DEF ControlInv, NotesInv, CountInv, Devices, NoteCounts, SessionRecords
<1>5. (RefusedInv /\ AbortInv)'
  BY DEF ControlInv, NotesInv, CountInv, DispatchInv, RefusedInv, AbortInv, Devices, NoteCounts,
     SessionRecords, Cleared
<1>6. (CommitInv /\ OutcomeInv)'
  BY DEF ControlInv, NotesInv, CountInv, DispatchInv, RefusedInv, AbortInv, CommitInv,
     OutcomeInv, Devices, NoteCounts, SessionRecords, Cleared, InUnits, TrueOf, Unclear
<1> QED
  BY <1>1, <1>2, <1>3, <1>4, <1>5, <1>6

\* Nothing has been called and nothing moved.
LEMMA DepositInitInv == DepositInit => DepositInv
<1> SUFFICES ASSUME DepositInit PROVE DepositInv
  OBVIOUS
<1> USE NoCallFacts, ErrorFacts DEF DepositInit, DepositAt, AcceptInit
<1>1. RecordTypes /\ CallTypes
  BY DEF SessionRecords, NoteCounts
<1>4. DeviceTypes
  <2>1. cim \in Devices
    BY DEF Devices
  <2>2. auth \in [rev : Int, approved : BOOLEAN]
    OBVIOUS
  <2> QED
    BY <2>1, <2>2
<1>5. WorkflowTypes
  <2>1. phys \in [commit : {"not-requested", "dispatched", "completed", "execution-unknown"},
                 committed : BOOLEAN, recon : BOOLEAN]
    OBVIOUS
  <2>2. escrow \in NoteCounts /\ batch \in 0..MaxBatches
    BY DEF NoteCounts
  <2> QED
    BY <2>1, <2>2
<1>2. ControlInv /\ NotesInv /\ CountInv /\ LeaseInv /\ LeaseCoversNotes
  BY DEF ControlInv, NotesInv, CountInv, LeaseInv, LeaseCoversNotes
<1>3. ApprovalInv /\ DispatchInv /\ RefusedInv /\ AbortInv /\ CommitInv /\ OutcomeInv
  BY DEF ApprovalInv, DispatchInv, RefusedInv, AbortInv, CommitInv, OutcomeInv
<1> QED
  BY <1>1, <1>2, <1>3, <1>4, <1>5

\* A step of the session keeps the invariant.
LEMMA AcceptanceInv == ASSUME DepositInv, AcceptanceStep, UNCHANGED depositVars PROVE DepositInv'
BY StartEntryInv, StartDeviceInv, AcceptEntryInv, AcceptCashInInv, AcceptSnapshotInv, RefusedWaitInv,
   RefusedRetractInv, AuthorizeEntryInv, CommitEntryInv, CommitDeviceInv, CommitDoneInv, AbortEntryInv,
   AbortRollbackInv, AbortWaitInv, AbortRetractInv, AbortRetractingInv, AbortDoneInv
   DEF AcceptanceStep

\* A step of anyone keeps the invariant.
LEMMA DepositStepInv == DepositInv /\ [DepositNext]_allVars => DepositInv'
<1> SUFFICES ASSUME DepositInv, [DepositNext]_allVars PROVE DepositInv'
  OBVIOUS
<1>1. CASE WorkflowStep
  BY <1>1, AcceptanceInv, AdmissionInv, CaptureBeforeInv, StartedInv, NextBatchInv, AcceptedInv,
     RefusedResolvedInv, ReviewInv, HostAnswersInv, AuthorizedInv, CommittedInv, AbortedInv,
     CaptureAfterInv, FinalizeInv DEF WorkflowStep
<1>2. CASE UNCHANGED allVars
  BY <1>2 DEF allVars, ControlInv, NotesInv, CountInv, LeaseInv, LeaseCoversNotes, ApprovalInv,
     DispatchInv, RefusedInv, AbortInv, CommitInv, OutcomeInv, Cleared, InUnits, TrueOf, Unclear
<1> QED
  BY <1>1, <1>2, AbortRequestInv, CrashDepositInv, CustomerTakesNotesInv, LeaseLapsesInv, ExecuteRollbackInv
     DEF DepositNext

\* The invariant holds of every reachable state.
LEMMA DepositInvariant == DepositSpec => []DepositInv
BY DepositInitInv, DepositStepInv, PTL DEF DepositSpec

-----------------------------------------------------------------------------
(* What follows *)

(* A deposit ends with what it says: without an intervention nothing is left *)
(* in escrow or at the output and completed means in the units; the lease    *)
(* covers the notes, and the host is told of a completion only when they are *)
(* in the units (workflow.ts, outcome.ts, cash-acceptance.ts).               *)
THEOREM DepositsAreSound == DepositSpec => []DepositIsSound
<1>1. DepositInv => DepositIsSound
  <2> SUFFICES ASSUME DepositInv PROVE DepositIsSound
    OBVIOUS
  <2>1. DepositTypeOK
    BY DEF DepositTypeOK, CountInv, SessionRecords, Devices
  <2>2. DepositOutcomeIsTrue
    BY DEF DepositOutcomeIsTrue, OutcomeInv, CommitInv, TrueOf, InUnits, Cleared
  <2>3. LeaseCoversNotes /\ CompletionIsPhysical
    BY DEF CompletionIsPhysical, CommitInv, InUnits, Devices
  <2> QED
    BY <2>1, <2>2, <2>3 DEF DepositIsSound
<1> QED
  BY <1>1, DepositInvariant, PTL

\* The steps that change anything at the device.
DeviceStep ==
  \/ StartDevice \/ AcceptCashIn \/ CustomerTakesNotes \/ RefusedRetract \/ CommitDevice
  \/ AbortRollback \/ AbortRetracting \/ (dpc = "crashed" /\ ExecuteRollback)

\* Every other step leaves the device alone, and no commit dispatched.
LEMMA OnlyDeviceSteps ==
  ASSUME [DepositNext]_allVars PROVE DeviceStep \/ UNCHANGED <<cim, commitSent>>
BY DEF DeviceStep, DepositNext, WorkflowStep, AcceptanceStep, allVars, StartEntry, AcceptEntry,
     AcceptSnapshot, RefusedWait, AuthorizeEntry, CommitEntry, CommitDone, AbortEntry, AbortWait,
     AbortRetract, AbortDone, Admission, CaptureBefore, Started, NextBatch, Accepted,
     RefusedResolved, Review, HostAnswers, Authorized, Committed, Aborted, CaptureAfter, Finalize,
     AbortRequest, CrashDeposit, LeaseLapses, Release, Call, AbortFor, EndWith, AuthorizeAnswer

(* Notes move in the order the customer can rely on: refused notes are       *)
(* resolved before the commit, a dispatched commit is rolled back by nobody, *)
(* and presented notes are retracted only after the take timeout or the      *)
(* signal (cash-acceptance.ts, cash-acceptance-recovery.ts).                 *)
THEOREM NotesStayInOrder == DepositSpec => NotesMoveInOrder
<1>1. ASSUME DepositInv, [DepositNext]_allVars
      PROVE  /\ ~commitSent /\ commitSent' => cim.refused = 0
             /\ commitSent => ~(cim.place = "escrow" /\ cim'.place = "presented")
             /\ (cim.place = "presented" /\ cim'.place = "retract-unit") => waited \/ aborted
  <2>1. CASE UNCHANGED <<cim, commitSent>>
    BY <2>1
  <2>2. CASE StartDevice
    BY <1>1, <2>2, CashInFacts DEF StartDevice
  <2>8. CASE AcceptCashIn
    <3>1. cim'.place \in {cim.place, "escrow"} /\ commitSent' = commitSent
      BY <1>1, <2>8, TakeInFacts DEF AcceptCashIn
    <3> QED
      BY <3>1
  <2>3. CASE CustomerTakesNotes
    BY <1>1, <2>3 DEF CustomerTakesNotes, Devices
  <2>4. CASE RefusedRetract
    BY <1>1, <2>4, RetractedFacts DEF RefusedRetract, NotesInv, ControlInv
  <2>5. CASE CommitDevice
    BY <1>1, <2>5, CashInFacts DEF CommitDevice, RefusedInv, ControlInv
  <2>6. CASE AbortRollback \/ AbortRetracting
    BY <1>1, <2>6, RolledBackFacts, RetractedFacts DEF AbortRollback, AbortRetracting, DispatchInv, AbortInv
  <2>7. CASE dpc = "crashed" /\ ExecuteRollback
    BY <1>1, <2>7, RolledBackFacts DEF ExecuteRollback, Decide, DispatchInv
  <2> QED
    BY <1>1, <2>1, <2>2, <2>3, <2>4, <2>5, <2>6, <2>7, <2>8, OnlyDeviceSteps DEF DeviceStep
<1>2. [DepositNext]_allVars /\ DepositInv => [~commitSent /\ commitSent' => cim.refused = 0]_allVars
  BY <1>1
<1>3. [DepositNext]_allVars /\ DepositInv =>
        [commitSent => ~(cim.place = "escrow" /\ cim'.place = "presented")]_allVars
  BY <1>1
<1>4. [DepositNext]_allVars /\ DepositInv =>
        [(cim.place = "presented" /\ cim'.place = "retract-unit") => waited \/ aborted]_allVars
  BY <1>1
<1> QED
  BY <1>2, <1>3, <1>4, DepositInvariant, PTL
     DEF DepositSpec, NotesMoveInOrder, RefusedBeforeCommit, NoRollbackAfterCommit, ReturnedNotesWait

\* Only the host's answer and the next revision change what is approved.
LEMMA OnlyApprovalSteps ==
  ASSUME DepositInv, [DepositNext]_allVars
  PROVE  HostAnswers \/ AcceptSnapshot \/ (auth' = auth /\ mem'.rev = mem.rev)
BY PhaseFacts, RecordFacts
   DEF DepositNext, WorkflowStep, AcceptanceStep, allVars, Persist, StartEntry, StartDevice,
     AcceptEntry, AcceptCashIn, RefusedWait, RefusedRetract, AuthorizeEntry, CommitEntry,
     CommitDevice, CommitDone, AbortEntry, AbortRollback, AbortWait, AbortRetract, AbortRetracting,
     AbortDone, Release, LeaseLapses, CustomerTakesNotes, ExecuteRollback, Admission, CaptureBefore, Started, NextBatch,
     Accepted, RefusedResolved, Review, Authorized, Committed, Aborted, CaptureAfter,
     Finalize, AbortRequest, CrashDeposit, Call, AbortFor, EndWith

Approved == auth.approved /\ auth.rev = mem.rev

\* A step of the device is a step of the escrow, or does not touch the notes.
LEMMA DeviceStepIsEscrowStep ==
  ASSUME DepositInv, DeviceStep, Approved' <=> Approved
  PROVE  \/ cim'.notes = cim.notes /\ cim'.place = cim.place
         \/ /\ cim.place \in {"nowhere", "escrow"} /\ ~Approved
            /\ cim'.notes = cim.notes + 1 /\ cim'.place = "escrow"
         \/ /\ cim'.notes = cim.notes
            /\ \/ cim.place = "escrow" /\ Approved /\ cim'.place = "cash-unit"
               \/ cim.place = "escrow" /\ cim'.place = "presented"
               \/ cim.place = "presented" /\ cim'.place = "customer"
               \/ cim.place \in {"presented", "escrow"} /\ cim'.place = "retract-unit"
<1>1. CASE StartDevice
  BY <1>1, CashInFacts DEF StartDevice
<1>2. CASE AcceptCashIn
  <2>1. PICK a, r \in 0..1 : cim' = cim \/ (cim' = TakeIn(a, r) /\ cim.active)
    BY <1>2 DEF AcceptCashIn
  <2>2. ~Approved
    BY <1>2 DEF AcceptCashIn, ApprovalInv, ControlInv, Approved
  <2>3. cim.active => cim.place \in {"nowhere", "escrow"}
    BY DEF NotesInv
  <2>4. CASE cim' = TakeIn(a, r) /\ a = 0
    BY <2>4, TakeInFacts DEF Devices
  <2>5. CASE cim' = TakeIn(a, r) /\ cim.active /\ a = 1
    BY <2>2, <2>3, <2>5, TakeInFacts
  <2> QED
    BY <2>1, <2>4, <2>5
<1>3. CASE CustomerTakesNotes
  BY <1>3 DEF CustomerTakesNotes, Devices
<1>4. CASE RefusedRetract \/ AbortRetracting
  BY <1>4, RetractedFacts DEF RefusedRetract, AbortRetracting
<1>5. CASE CommitDevice
  BY <1>5, CashInFacts DEF CommitDevice, ApprovalInv, Approved
<1>6. CASE AbortRollback \/ (dpc = "crashed" /\ ExecuteRollback)
  BY <1>6, RolledBackFacts DEF AbortRollback, ExecuteRollback
<1> QED
  BY <1>1, <1>2, <1>3, <1>4, <1>5, <1>6 DEF DeviceStep

(* A cash acceptance session, with its lost answers, refused writes, aborts, *)
(* crashes and recovery, implements the escrow: notes are committed only     *)
(* under an approval of all of them, otherwise returned or retained.         *)
THEOREM EscrowIsRefined == DepositSpec => EscrowIsImplemented
<1> USE DEF Approved
<1>1. DepositInit => Escrow!EscrowInit
  BY DEF DepositInit, DepositAt, AcceptInit, Escrow!EscrowInit
<1>2. DepositInv /\ [DepositNext]_allVars => [Escrow!EscrowNext]_(Escrow!escrowVars)
  <2> SUFFICES ASSUME DepositInv, [DepositNext]_allVars
               PROVE  Escrow!EscrowNext \/ UNCHANGED Escrow!escrowVars
    OBVIOUS
  <2> USE DEF Escrow!EscrowNext, Escrow!escrowVars
  <2>1. CASE HostAnswers
    <3>1. UNCHANGED cim /\ ~Approved
      BY <2>1 DEF HostAnswers, AuthorizeAnswer, ApprovalInv
    <3>2. CASE Approved'
      BY <3>1, <3>2 DEF Escrow!Approve
    <3>3. CASE ~Approved'
      BY <3>1, <3>3
    <3> QED
      BY <3>2, <3>3
  <2>2. CASE AcceptSnapshot
    BY <2>2 DEF AcceptSnapshot, ApprovalInv, ControlInv
  <2>3. CASE auth' = auth /\ mem'.rev = mem.rev /\ UNCHANGED cim
    BY <2>3
  <2>4. CASE auth' = auth /\ mem'.rev = mem.rev /\ DeviceStep
    <3>1. Approved' <=> Approved
      BY <2>4
    <3> QED
      BY <3>1, <2>4, DeviceStepIsEscrowStep
         DEF Escrow!Insert, Escrow!Commit, Escrow!Present, Escrow!Take, Escrow!Retain
  <2> QED
    BY <2>1, <2>2, <2>3, <2>4, OnlyDeviceSteps, OnlyApprovalSteps
<1> QED
  BY <1>1, <1>2, DepositInvariant, PTL DEF DepositSpec, EscrowIsImplemented, Escrow!EscrowSpec
=============================================================================
