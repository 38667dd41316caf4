------------------------- MODULE FinalizationProofs -------------------------
(***************************************************************************)
(* Proofs about Finalization, for every set of operations, every choice of *)
(* plan versions and plan lengths, and any number of attempts and crashes. *)
(*                                                                         *)
(* The argument rests on one fact that is easy to miss in the code: while   *)
(* a runner is at work, the steps and attempts in its private copy of the   *)
(* record are those of the stored row, but for the step whose completion    *)
(* was written by a save that rejected.                                     *)
(***************************************************************************)
EXTENDS Finalization, WellFoundedInduction, TLAPS

AtStep == {"mark", "execute", "complete", "fail", "failSeal"}

(* The row has a completion of which the runner's copy knows nothing.       *)
Unacknowledged(o) ==
  /\ run[o].pc = "fail"
  /\ store[o].steps = [run[o].rec.steps EXCEPT ![run[o].at] = "completed"]

(* While the runner works, its copy agrees with the store and belongs to   *)
(* the same plan.                                                          *)
CopyAgrees(o) ==
  running(o) =>
    /\ run[o].rec \in Records
    /\ run[o].rec.steps = store[o].steps \/ Unacknowledged(o)
    /\ run[o].rec.attempts = store[o].attempts
    /\ store[o].plan \in {NoPlan, run[o].rec.plan}

(* The runner stands at the first step that is not completed.              *)
FirstOpenStep(o) ==
  run[o].pc \in AtStep =>
    /\ run[o].at \in planned(run[o].rec)
    /\ run[o].rec.steps[run[o].at] # "completed"
    /\ \A j \in Positions : j < run[o].at => run[o].rec.steps[j] = "completed"

\* A row, or a copy, closed as completed has no open step.
Closed(r) == r.plan # NoPlan /\ r.status = "completed" => incompleteSteps(r) = {}

RunnerInv(o) ==
  /\ CopyAgrees(o)
  /\ FirstOpenStep(o)
  /\ run[o].pc = "complete" => run[o].at \in effects[o]
  /\ run[o].pc = "seal" => incompleteSteps(run[o].rec) = {}
  /\ running(o) => Closed(run[o].rec)
  /\ Closed(store[o])

(* Every step recorded as completed has done its work, and no call is      *)
(* missing from the attempts; one attempt is in hand at each call.         *)
RecordInv(o) ==
  /\ \A i \in Positions : store[o].steps[i] = "completed" => i \in effects[o]
  /\ \A i \in Positions : calls[o][i] <= store[o].attempts[i]
  /\ run[o].pc = "execute" => calls[o][run[o].at] < store[o].attempts[run[o].at]
  /\ \A i, j \in Positions : j < i /\ calls[o][i] > 0 => j \in effects[o]

FinalizationInv == TypeOK /\ \A o \in Ops : RunnerInv(o) /\ RecordInv(o)

USE DEF Positions, Saves, StepStatuses
-----------------------------------------------------------------------------
\* Before any save there is nothing in the store.
LEMMA NoRecordType ==
  /\ NoRecord.plan = NoPlan /\ NoRecord.status = "pending" /\ NoRecord.context = FALSE
  /\ NoRecord.steps = [i \in Positions |-> "pending"]
  /\ NoRecord.attempts = [i \in Positions |-> 0]
  /\ NoRecord \notin Records
BY PlanAssumption DEF NoRecord, fresh, Records

\* The invariant holds before anything is stored.
LEMMA InitInv == Init => FinalizationInv
<1> SUFFICES ASSUME Init PROVE FinalizationInv
  OBVIOUS
<1>1. TypeOK
  BY PlanAssumption DEF Init, TypeOK, RunnerOK, BootOK, Idle
<1>2. ASSUME NEW o \in Ops PROVE RunnerInv(o) /\ RecordInv(o)
  BY NoRecordType, PlanAssumption
  DEF Init, RunnerInv, RecordInv, CopyAgrees, FirstOpenStep, Closed, running, Idle, AtStep
<1> QED
  BY <1>1, <1>2 DEF FinalizationInv
-----------------------------------------------------------------------------
\* A nonempty set of natural numbers has a least element.
LEMMA LeastElement ==
  ASSUME NEW S, S \subseteq Nat, S # {}
  PROVE  \E i \in S : \A j \in S : i <= j
<1> DEFINE R == {ss \in Nat \X Nat : ss[1] < ss[2]}
<1>1. IsWellFoundedOn(R, Nat)
  BY NatLessThanWellFounded DEF OpToRel
<1>2. PICK i \in S : \A j \in S : ~(<<j, i>> \in R)
  <2> HIDE DEF R
  <2> QED BY <1>1, WFMin
<1>3. ASSUME NEW j \in S, j < i PROVE FALSE
  <2>1. i \in Nat /\ j \in Nat
    OBVIOUS
  <2>2. <<j, i>> \in R
    BY <1>3, <2>1
  <2> QED
    BY <1>2, <2>2
<1>4. ASSUME NEW j \in S PROVE i <= j
  <2>1. i \in Nat /\ j \in Nat /\ ~(j < i)
    BY <1>3
  <2> QED
    BY <2>1
<1> QED
  BY <1>4

(* advance looks for the first open step of a record.                      *)
LEMMA AdvanceFindsFirst ==
  ASSUME NEW r \in Records
  PROVE  /\ advance(r).rec = r
         /\ \/ advance(r).pc = "seal" /\ advance(r).at = 0 /\ incompleteSteps(r) = {}
            \/ /\ advance(r).pc = "mark"
               /\ advance(r).at \in planned(r)
               /\ r.steps[advance(r).at] # "completed"
               /\ \A j \in Positions : j < advance(r).at => r.steps[j] = "completed"
         /\ advance(r) \in [pc: {"seal", "mark"}, rec: Records, at: 0..MaxPlan]
<1> DEFINE S == incompleteSteps(r)
           n == CHOOSE i \in S : \A j \in S : i <= j
<1>0. r.plan \in Versions /\ Length[r.plan] \in 1..MaxPlan /\ MaxPlan \in Nat \ {0}
  BY PlanAssumption DEF Records
<1>1. CASE S = {}
  BY <1>0, <1>1 DEF advance
<1>2. CASE S # {}
  <2>1. S \subseteq Nat
    BY <1>0 DEF incompleteSteps, planned
  <2>2. \E i \in S : \A j \in S : i <= j
    BY <1>2, <2>1, LeastElement
  <2>3. n \in S /\ \A j \in S : n <= j
    BY <2>2
  <2>4. advance(r) = [pc |-> "mark", rec |-> r, at |-> n]
    BY <1>2 DEF advance
  <2>5. n \in planned(r) /\ n \in Positions /\ r.steps[n] # "completed"
    BY <1>0, <2>3 DEF incompleteSteps, planned
  <2>6. ASSUME NEW j \in Positions, j < n PROVE r.steps[j] = "completed"
    <3>1. j \notin S /\ j \in planned(r)
      BY <1>0, <2>3, <2>5, <2>6 DEF planned
    <3> QED
      BY <3>1 DEF incompleteSteps
  <2> HIDE DEF n
  <2> QED
    BY <1>0, <2>4, <2>5, <2>6
<1> QED
  BY <1>1, <1>2
-----------------------------------------------------------------------------
\* Marking a step as running counts one more attempt of it.
LEMMA MarkedRow ==
  ASSUME NEW r \in Records, NEW i \in Positions
  PROVE  /\ mark(r, i) \in Records
         /\ mark(r, i).plan = r.plan /\ mark(r, i).status = r.status
         /\ mark(r, i).steps = [r.steps EXCEPT ![i] = "running"]
         /\ mark(r, i).attempts = [r.attempts EXCEPT ![i] = r.attempts[i] + 1]
<1> DEFINE s == [r.steps EXCEPT ![i] = "running"]
           a == [r.attempts EXCEPT ![i] = r.attempts[i] + 1]
<1>1. mark(r, i) = [step(r, i, "running") EXCEPT !.attempts = a]
  BY DEF mark
<1>2. r.attempts \in [Positions -> Nat] /\ r.steps \in [Positions -> StepStatuses]
  BY DEF Records
<1>3. a \in [Positions -> Nat]
  <2>0. r.attempts[i] \in Nat
    BY <1>2
  <2>1. r.attempts[i] + 1 \in Nat
    BY <2>0
  <2> SUFFICES ASSUME NEW n \in Nat PROVE [r.attempts EXCEPT ![i] = n] \in [Positions -> Nat]
    BY <2>1
  <2> QED
    BY <1>2
<1>4. s \in [Positions -> StepStatuses]
  BY <1>2
<1>5. step(r, i, "running") = [r EXCEPT !.steps = s]
  BY DEF step, Records
<1> HIDE DEF s, a
<1>6. /\ mark(r, i) \in Records
      /\ mark(r, i).plan = r.plan /\ mark(r, i).status = r.status
      /\ mark(r, i).steps = s /\ mark(r, i).attempts = a
  BY <1>1, <1>3, <1>4, <1>5 DEF Records
<1> QED
  BY <1>6 DEF s, a

(* The row each save writes: the plan stays, and only the step the runner  *)
(* stands at changes.                                                      *)
LEMMA SavedRow ==
  ASSUME TypeOK, NEW o \in Ops, RunnerInv(o), run[o].pc \in Saves
  PROVE  /\ run[o].rec \in Records /\ toSave(o) \in Records
         /\ toSave(o).plan = run[o].rec.plan
         /\ run[o].pc \in {"context", "start", "failSeal", "seal"} =>
              toSave(o).steps = run[o].rec.steps
         /\ run[o].pc # "mark" => toSave(o).attempts = run[o].rec.attempts
         /\ run[o].pc = "mark" =>
              /\ toSave(o).steps = [run[o].rec.steps EXCEPT ![run[o].at] = "running"]
              /\ toSave(o).attempts = [run[o].rec.attempts EXCEPT ![run[o].at] = @ + 1]
         /\ run[o].pc = "complete" =>
              toSave(o).steps = [run[o].rec.steps EXCEPT ![run[o].at] = "completed"]
         /\ run[o].pc = "fail" =>
              toSave(o).steps = [run[o].rec.steps EXCEPT ![run[o].at] = "failed"]
         /\ run[o].pc = "start" => toSave(o).status = "running"
         /\ run[o].pc = "failSeal" => toSave(o).status = "failed"
         /\ run[o].pc \notin {"start", "failSeal", "seal"} =>
              toSave(o).status = run[o].rec.status
<1>1. run[o].rec \in Records
  BY DEF RunnerInv, CopyAgrees, running
<1>2. run[o].pc \in AtStep => run[o].at \in Positions
  BY <1>1, PlanAssumption DEF RunnerInv, FirstOpenStep, planned, Records
<1> DEFINE r == run[o].rec
           i == run[o].at
<1> SUFFICES ASSUME NEW x, x = toSave(o) PROVE
         /\ x \in Records
         /\ x.plan = r.plan
         /\ run[o].pc \in {"context", "start", "failSeal", "seal"} => x.steps = r.steps
         /\ run[o].pc # "mark" => x.attempts = r.attempts
         /\ run[o].pc = "mark" =>
              /\ x.steps = [r.steps EXCEPT ![i] = "running"]
              /\ x.attempts = [r.attempts EXCEPT ![i] = @ + 1]
         /\ run[o].pc = "complete" => x.steps = [r.steps EXCEPT ![i] = "completed"]
         /\ run[o].pc = "fail" => x.steps = [r.steps EXCEPT ![i] = "failed"]
         /\ run[o].pc = "start" => x.status = "running"
         /\ run[o].pc = "failSeal" => x.status = "failed"
         /\ run[o].pc \notin {"start", "failSeal", "seal"} => x.status = r.status
  BY <1>1
<1>3. CASE run[o].pc = "context"
  BY <1>1, <1>3 DEF toSave, Records
<1>4. CASE run[o].pc = "start"
  BY <1>1, <1>4 DEF toSave, Records
<1>5. CASE run[o].pc = "mark"
  BY <1>1, <1>2, <1>5, MarkedRow DEF toSave, AtStep
<1>6. CASE run[o].pc = "complete"
  BY <1>1, <1>2, <1>6 DEF toSave, Records, step, AtStep
<1>7. CASE run[o].pc = "fail"
  BY <1>1, <1>2, <1>7 DEF toSave, Records, step, AtStep
<1>8. CASE run[o].pc = "failSeal"
  BY <1>1, <1>8 DEF toSave, Records
<1>9. CASE run[o].pc = "seal"
  BY <1>1, <1>9 DEF toSave, Records
<1> QED
  BY <1>3, <1>4, <1>5, <1>6, <1>7, <1>8, <1>9

\* An operation whose runner and row a step leaves alone keeps its invariant.
LEMMA Untouched ==
  ASSUME NEW o \in Ops, RunnerInv(o), RecordInv(o),
         run'[o] = run[o], store'[o] = store[o],
         calls'[o] = calls[o], effects'[o] = effects[o]
  PROVE  RunnerInv(o)' /\ RecordInv(o)'
BY DEF RunnerInv, RecordInv, CopyAgrees, FirstOpenStep, Closed, running,
       incompleteSteps, planned, Unacknowledged

\* Each save keeps the types.
LEMMA SaveType ==
  ASSUME TypeOK, NEW o \in Ops, RunnerInv(o), Save(o)
  PROVE  TypeOK'
<1>1. run[o].pc \in Saves
  BY DEF Save, Writes
<1>2. toSave(o) \in Records
  BY <1>1, SavedRow
<1>3. run[o].at \in 0..MaxPlan
  BY DEF TypeOK, RunnerOK
<1>4. afterSave(o) \in [pc: Saves \cup {"idle", "execute", "resolved", "rejected"},
                        rec: Records \cup {NoRecord}, at: 0..MaxPlan]
  <2>1. CASE run[o].pc \in {"start", "complete"}
    <3>1. afterSave(o) = advance(toSave(o))
      BY <2>1 DEF afterSave
    <3>2. advance(toSave(o)) \in [pc: {"seal", "mark"}, rec: Records, at: 0..MaxPlan]
      BY <1>2, AdvanceFindsFirst
    <3> QED
      BY <3>1, <3>2
  <2>2. CASE run[o].pc \notin {"start", "complete"}
    <3>1. 0 \in 0..MaxPlan
      BY PlanAssumption
    <3> QED
      BY <1>1, <1>2, <1>3, <2>2, <3>1 DEF afterSave
  <2> QED
    BY <2>1, <2>2
<1>5. run' = [run EXCEPT ![o] = afterSave(o)] /\ store' = [store EXCEPT ![o] = toSave(o)]
      /\ UNCHANGED <<installed, boot, calls, effects, crashes>>
  BY DEF Save, Writes
<1> QED
  BY <1>2, <1>4, <1>5 DEF TypeOK, RunnerOK, BootOK

(* The row a save writes, acknowledged or not: what it calls completed has   *)
(* done its work, no call is missing, and a closed row has no open step.     *)
LEMMA WrittenRow ==
  ASSUME FinalizationInv, NEW o \in Ops, run[o].pc \in Saves
  PROVE  /\ toSave(o) \in Records /\ toSave(o).plan = run[o].rec.plan
         /\ toSave(o).attempts \in [Positions -> Nat]
         /\ \A j \in Positions : toSave(o).steps[j] = "completed" => j \in effects[o]
         /\ Closed(toSave(o))
         /\ \A j \in Positions : calls[o][j] <= toSave(o).attempts[j]
<1> DEFINE r == run[o].rec
           i == run[o].at
           t == toSave(o)
<1>1. TypeOK /\ RunnerInv(o) /\ RecordInv(o)
  BY DEF FinalizationInv
<1>2. /\ r \in Records /\ t \in Records /\ t.plan = r.plan /\ r.attempts = store[o].attempts
      /\ r.steps = store[o].steps \/ Unacknowledged(o)
  BY <1>1, SavedRow DEF RunnerInv, CopyAgrees, running
<1>3. \A j \in Positions : r.steps[j] = "completed" => store[o].steps[j] = "completed"
  BY <1>2 DEF Unacknowledged, Records
<1>4. r.plan \in Versions /\ r.plan # NoPlan /\ planned(r) \subseteq Positions
      /\ planned(t) = planned(r)
  BY <1>2, PlanAssumption DEF Records, planned
<1>5. run[o].pc \in AtStep => /\ i \in Positions
                              /\ i \in planned(r) /\ r.steps[i] # "completed"
                              /\ \A j \in Positions : j < i => r.steps[j] = "completed"
  BY <1>1, <1>4 DEF RunnerInv, FirstOpenStep
<1>6. r.steps \in [Positions -> StepStatuses] /\ r.attempts \in [Positions -> Nat]
  BY <1>2 DEF Records
<1>7. \A j \in Positions : t.steps[j] = "completed" => j \in effects[o]
  <2>1. \A j \in Positions : r.steps[j] = "completed" => j \in effects[o]
    BY <1>1, <1>3 DEF RecordInv
  <2>2. CASE run[o].pc = "complete"
    <3>1. i \in effects[o] /\ t.steps = [r.steps EXCEPT ![i] = "completed"]
      BY <1>1, <2>2, SavedRow DEF RunnerInv
    <3> QED
      BY <1>6, <2>1, <3>1
  <2>3. CASE run[o].pc # "complete"
    BY ZenonT(60), <1>1, <1>5, <1>6, <2>1, <2>3, SavedRow DEF AtStep
  <2> QED
    BY <2>2, <2>3
<1>8. Closed(r)
  BY <1>1 DEF RunnerInv, running
<1>9. Closed(t)
  <2>1. CASE run[o].pc \in {"start", "failSeal"}
    BY <1>1, <2>1, SavedRow DEF Closed
  <2>2. CASE run[o].pc = "seal"
    <3>1. incompleteSteps(r) = {} /\ t.steps = r.steps
      BY <1>1, <2>2, SavedRow DEF RunnerInv
    <3> QED
      BY <1>4, <3>1 DEF Closed, incompleteSteps
  <2>3. CASE run[o].pc = "context"
    <3>1. t.steps = r.steps /\ t.status = r.status
      BY <1>1, <2>3, SavedRow
    <3>2. incompleteSteps(t) = incompleteSteps(r)
      BY <1>4, <3>1 DEF incompleteSteps
    <3> QED
      BY <1>2, <1>8, <3>1, <3>2 DEF Closed
  <2>4. CASE run[o].pc \in {"mark", "complete", "fail"}
    <3>1. r.status # "completed"
      BY <1>4, <1>5, <1>8, <2>4 DEF Closed, incompleteSteps, AtStep
    <3> QED
      BY <1>1, <2>4, <3>1, SavedRow DEF Closed
  <2> QED
    BY <1>1, <2>1, <2>2, <2>3, <2>4
<1>10. \A j \in Positions : calls[o][j] <= t.attempts[j]
  <2>1. calls[o] \in [Positions -> Nat]
    BY <1>1 DEF TypeOK
  <2>2. \A j \in Positions : calls[o][j] <= r.attempts[j]
    BY <1>1, <1>2 DEF RecordInv
  <2>3. CASE run[o].pc = "mark"
    <3>1. t.attempts = [r.attempts EXCEPT ![i] = r.attempts[i] + 1]
      BY <1>1, <2>3, SavedRow
    <3> QED
      BY <1>6, <2>1, <2>2, <3>1
  <2>4. CASE run[o].pc # "mark"
    BY <1>1, <2>2, <2>4, SavedRow
  <2> QED
    BY <2>3, <2>4
<1> QED
  BY <1>2, <1>7, <1>9, <1>10 DEF Records

(* Each save leaves the copy and the row in agreement, and the runner at   *)
(* the first open step.                                                    *)
LEMMA SaveInv ==
  ASSUME FinalizationInv, NEW o \in Ops, Save(o)
  PROVE  RunnerInv(o)' /\ RecordInv(o)'
<1> DEFINE r == run[o].rec
           i == run[o].at
           t == toSave(o)
           after == afterSave(o)
<1>1. TypeOK /\ RunnerInv(o) /\ RecordInv(o) /\ run[o].pc \in Saves
  BY DEF FinalizationInv, Save, Writes
<1>2. /\ run'[o] = after /\ store'[o] = t
      /\ calls'[o] = calls[o] /\ effects'[o] = effects[o]
  BY <1>1 DEF Save, Writes, TypeOK, RunnerOK
<1>3. /\ r \in Records /\ t \in Records /\ t.plan = r.plan
      /\ r.attempts = store[o].attempts
  BY <1>1, SavedRow DEF RunnerInv, CopyAgrees, running
<1>4. r.plan \in Versions /\ r.plan # NoPlan /\ planned(r) \subseteq Positions
      /\ planned(t) = planned(r)
  BY <1>3, PlanAssumption DEF Records, planned
<1>5. /\ after.rec = t
      /\ after.pc \in {"start", "mark", "seal", "execute", "failSeal", "rejected", "resolved"}
      /\ after.pc = "seal" => incompleteSteps(t) = {}
      /\ after.pc = "execute" => run[o].pc = "mark" /\ after.at = i
      /\ after.pc = "failSeal" => run[o].pc = "fail" /\ after.at = i
      /\ after.pc = "mark" => /\ after.at \in planned(t)
                              /\ t.steps[after.at] # "completed"
                              /\ \A j \in Positions : j < after.at => t.steps[j] = "completed"
  <2>1. CASE run[o].pc \in {"start", "complete"}
    <3>1. after = advance(t)
      BY <2>1 DEF afterSave
    <3> HIDE DEF after, t
    <3> QED
      BY <1>3, <3>1, AdvanceFindsFirst
  <2>2. CASE run[o].pc \notin {"start", "complete"}
    BY <1>1, <2>2 DEF afterSave
  <2> QED
    BY <2>1, <2>2
<1>6. run[o].pc \in AtStep => /\ i \in Positions
                              /\ i \in planned(r) /\ r.steps[i] # "completed"
                              /\ \A j \in Positions : j < i => r.steps[j] = "completed"
  BY <1>1, <1>4 DEF RunnerInv, FirstOpenStep
<1>7. r.steps \in [Positions -> StepStatuses] /\ r.attempts \in [Positions -> Nat]
  BY <1>3 DEF Records
<1>8. run[o].pc \in {"mark", "fail"} =>
        /\ t.steps[i] # "completed"
        /\ \A j \in Positions : j # i => t.steps[j] = r.steps[j]
  BY ZenonT(60), <1>1, <1>6, <1>7, SavedRow DEF AtStep
<1>9. /\ \A j \in Positions : t.steps[j] = "completed" => j \in effects[o]
      /\ Closed(t)
      /\ \A j \in Positions : calls[o][j] <= t.attempts[j]
  BY <1>1, WrittenRow
<1>13. run[o].pc = "mark" => calls[o][i] < t.attempts[i]
  <2> SUFFICES ASSUME run[o].pc = "mark" PROVE calls[o][i] < t.attempts[i]
    OBVIOUS
  <2>1. i \in Positions /\ t.attempts = [r.attempts EXCEPT ![i] = r.attempts[i] + 1]
    BY <1>1, <1>6, SavedRow DEF AtStep
  <2>2. calls[o][i] \in Nat /\ calls[o][i] <= r.attempts[i] /\ r.attempts[i] \in Nat
    <3>1. calls[o] \in [Positions -> Nat]
      BY <1>1 DEF TypeOK
    <3>2. calls[o][i] <= r.attempts[i]
      BY <1>1, <1>3, <2>1 DEF RecordInv
    <3> QED
      BY <1>7, <2>1, <3>1, <3>2
  <2>3. t.attempts[i] = r.attempts[i] + 1
    BY <1>7, <2>1
  <2> QED
    BY <2>2, <2>3
<1>14. \A j, k \in Positions : k < j /\ calls[o][j] > 0 => k \in effects[o]
  BY <1>1 DEF RecordInv
<1> HIDE DEF r, i, t, after
<1>15. RunnerInv(o)'
  <2>1. CopyAgrees(o)'
    BY <1>2, <1>3, <1>5 DEF CopyAgrees
  <2>2. FirstOpenStep(o)'
    <3>1. CASE after.pc = "mark"
      BY <1>2, <1>5, <3>1 DEF FirstOpenStep, planned
    <3>2. CASE after.pc \in {"execute", "failSeal"}
      <4>1. run[o].pc \in {"mark", "fail"} /\ after.at = i
        BY <1>5, <3>2
      <4>2. i \in planned(t) /\ t.steps[i] # "completed"
            /\ \A j \in Positions : j < i => t.steps[j] = "completed"
        BY <1>4, <1>6, <1>8, <4>1, PlanAssumption DEF AtStep
      <4> QED
        BY <1>2, <1>5, <4>1, <4>2 DEF FirstOpenStep, planned
    <3>3. CASE after.pc \notin {"mark", "execute", "failSeal"}
      BY <1>2, <1>5, <3>3 DEF FirstOpenStep, AtStep
    <3> QED
      BY <3>1, <3>2, <3>3
  <2>3. incompleteSteps(after.rec) = incompleteSteps(t)
    BY <1>5
  <2> QED
    BY <1>2, <1>5, <1>9, <2>1, <2>2, <2>3 DEF RunnerInv, Closed, incompleteSteps, planned
<1>16. RecordInv(o)'
  BY <1>2, <1>5, <1>9, <1>13, <1>14 DEF RecordInv
<1> QED
  BY <1>15, <1>16

\* A save that rejects moves the runner, and may have written its row.
LEMMA SaveFailsInv ==
  ASSUME FinalizationInv, NEW o \in Ops, SaveFails(o)
  PROVE  TypeOK' /\ RunnerInv(o)' /\ RecordInv(o)'
<1>1. TypeOK /\ RunnerInv(o) /\ RecordInv(o) /\ run[o].pc \in Saves
  BY DEF FinalizationInv, SaveFails
<1>2. /\ run'[o].pc = IF run[o].pc = "complete" THEN "fail" ELSE "rejected"
      /\ run'[o].rec = run[o].rec /\ run'[o].at = run[o].at
      /\ UNCHANGED <<installed, boot, calls, effects, crashes>>
  BY <1>1 DEF SaveFails, TypeOK, RunnerOK
<1>3. store' = store \/ store' = [store EXCEPT ![o] = toSave(o)]
  BY DEF SaveFails, Writes
<1>4. toSave(o) \in Records
  BY <1>1, WrittenRow
<1>5. TypeOK'
  BY ZenonT(60), <1>1, <1>2, <1>3, <1>4 DEF SaveFails, TypeOK, RunnerOK, BootOK
<1>6. store'[o] = store[o] \/ store'[o] = toSave(o)
  BY <1>1, <1>3 DEF TypeOK
<1>7. CopyAgrees(o)'
  <2>1. CASE run[o].pc = "complete"
    <3>1. /\ run[o].rec \in Records /\ run[o].rec.steps = store[o].steps
          /\ run[o].rec.attempts = store[o].attempts /\ store[o].plan \in {NoPlan, run[o].rec.plan}
      BY <1>1, <2>1 DEF RunnerInv, CopyAgrees, running, Unacknowledged
    <3>2. CASE store'[o] = store[o]
      BY <1>2, <2>1, <3>1, <3>2 DEF CopyAgrees
    <3>3. CASE store'[o] = toSave(o)
      <4>1. /\ toSave(o).steps = [run[o].rec.steps EXCEPT ![run[o].at] = "completed"]
            /\ toSave(o).attempts = run[o].rec.attempts /\ toSave(o).plan = run[o].rec.plan
        BY <1>1, <2>1, SavedRow
      <4>2. Unacknowledged(o)'
        BY <1>2, <2>1, <3>3, <4>1 DEF Unacknowledged
      <4> QED
        BY <1>2, <3>1, <3>3, <4>1, <4>2 DEF CopyAgrees
    <3> QED
      BY <1>6, <3>2, <3>3
  <2>2. CASE run[o].pc # "complete"
    BY <1>2, <2>2 DEF CopyAgrees, running
  <2> QED
    BY <2>1, <2>2
<1>8. FirstOpenStep(o)'
  BY <1>1, <1>2 DEF RunnerInv, FirstOpenStep, planned, AtStep
<1>9. Closed(store[o])'
  <2>1. Closed(store[o]) /\ Closed(toSave(o))
    BY <1>1, WrittenRow DEF RunnerInv
  <2> QED
    BY <1>6, <2>1 DEF Closed, incompleteSteps, planned
<1>10. running(o)' => Closed(run[o].rec)'
  BY <1>1, <1>2 DEF RunnerInv, running, Closed, incompleteSteps, planned
<1>11. RunnerInv(o)'
  BY <1>2, <1>7, <1>8, <1>9, <1>10 DEF RunnerInv
<1>12. RecordInv(o)'
  <2>1. /\ \A j \in Positions : toSave(o).steps[j] = "completed" => j \in effects[o]
        /\ \A j \in Positions : calls[o][j] <= toSave(o).attempts[j]
    BY <1>1, WrittenRow
  <2> QED
    BY <1>1, <1>2, <1>6, <2>1 DEF RecordInv
<1> QED
  BY <1>5, <1>11, <1>12

\* A finalizer is called at the first open step only.
LEMMA ExecuteInv ==
  ASSUME FinalizationInv, NEW o \in Ops, ExecuteFinalizer(o)
  PROVE  TypeOK' /\ RunnerInv(o)' /\ RecordInv(o)'
<1> DEFINE i == run[o].at
<1>1. TypeOK /\ RunnerInv(o) /\ RecordInv(o) /\ run[o].pc = "execute"
  BY DEF FinalizationInv, ExecuteFinalizer
<1>2. /\ run[o].rec \in Records /\ run[o].rec.steps = store[o].steps
      /\ i \in planned(run[o].rec)
      /\ \A j \in Positions : j < i => store[o].steps[j] = "completed"
  BY <1>1 DEF RunnerInv, CopyAgrees, FirstOpenStep, running, AtStep, Unacknowledged
<1>3. i \in Positions
  BY <1>2, PlanAssumption DEF planned, Records
<1>4. calls[o] \in [Positions -> Nat] /\ effects[o] \subseteq Positions
  BY <1>1 DEF TypeOK
<1>5. /\ calls'[o] = [calls[o] EXCEPT ![i] = calls[o][i] + 1]
      /\ \A p \in Ops : p # o => calls'[p] = calls[p]
      /\ calls' \in [Ops -> [Positions -> Nat]]
  <2>1. calls[o][i] + 1 \in Nat
    <3>1. calls[o][i] \in Nat
      BY <1>3, <1>4
    <3> QED
      BY <3>1
  <2>2. [calls[o] EXCEPT ![i] = calls[o][i] + 1] \in [Positions -> Nat]
    <3> SUFFICES ASSUME NEW n \in Nat PROVE [calls[o] EXCEPT ![i] = n] \in [Positions -> Nat]
      BY <2>1
    <3> QED
      BY <1>4
  <2>3. calls' = [calls EXCEPT ![o] = [calls[o] EXCEPT ![i] = calls[o][i] + 1]]
    BY DEF ExecuteFinalizer
  <2> QED
    BY <1>1, <2>2, <2>3 DEF TypeOK
<1>6. /\ run'[o].pc \in {"complete", "fail"}
      /\ run'[o].pc = "complete" => i \in effects'[o]
      /\ run'[o].rec = run[o].rec /\ run'[o].at = i
      /\ effects[o] \subseteq effects'[o]
      /\ UNCHANGED <<installed, store, boot, crashes>>
  BY <1>1 DEF ExecuteFinalizer, TypeOK, RunnerOK
<1>7. TypeOK'
  <2>1. RunnerOK'
    <3>1. PICK s \in {"complete", "fail"} : run' = [run EXCEPT ![o].pc = s]
      BY DEF ExecuteFinalizer
    <3> QED
      BY ZenonT(60), <1>1, <3>1 DEF TypeOK, RunnerOK
  <2>2. effects' \in [Ops -> SUBSET Positions]
    BY SMTT(40), <1>1, <1>3 DEF ExecuteFinalizer, TypeOK
  <2> QED
    BY <1>1, <1>5, <1>6, <2>1, <2>2 DEF TypeOK, BootOK
<1>8. RunnerInv(o)'
  <2>1. CopyAgrees(o)' /\ FirstOpenStep(o)'
    BY <1>1, <1>6 DEF RunnerInv, CopyAgrees, FirstOpenStep, running, planned, AtStep, Unacknowledged
  <2>2. Closed(run[o].rec) /\ Closed(store[o])
    BY <1>1 DEF RunnerInv, running
  <2>3. Closed(run[o].rec)' /\ Closed(store[o])'
    BY <1>6, <2>2 DEF Closed, incompleteSteps, planned
  <2> QED
    BY <1>6, <2>1, <2>3 DEF RunnerInv
<1>9. RecordInv(o)'
  <2>1. \A j \in Positions : store[o].steps[j] = "completed" => j \in effects[o]
    BY <1>1 DEF RecordInv
  <2>2. \A j \in Positions : calls'[o][j] <= store[o].attempts[j]
    <3> SUFFICES ASSUME NEW j \in Positions PROVE calls'[o][j] <= store[o].attempts[j]
      OBVIOUS
    <3>1. calls[o][j] <= store[o].attempts[j] /\ calls[o][i] < store[o].attempts[i]
      BY <1>1 DEF RecordInv
    <3>2. store[o].attempts[j] \in Nat /\ calls[o][j] \in Nat
      <4>1. store[o] \in Records \cup {NoRecord}
        BY <1>1 DEF TypeOK
      <4>2. store[o].attempts \in [Positions -> Nat]
        BY <4>1, NoRecordType DEF Records
      <4> QED
        BY <1>4, <4>2
    <3>3. calls'[o][j] = IF j = i THEN calls[o][j] + 1 ELSE calls[o][j]
      BY <1>3, <1>4, <1>5
    <3> QED
      BY <3>1, <3>2, <3>3
  <2>3. ASSUME NEW j \in Positions, NEW k \in Positions, k < j, calls'[o][j] > 0
        PROVE  k \in effects'[o]
    <3>1. CASE j = i
      BY <1>2, <1>6, <2>1, <2>3, <3>1
    <3>2. CASE j # i
      BY <1>1, <1>3, <1>4, <1>5, <1>6, <2>3, <3>2 DEF RecordInv
    <3> QED
      BY <3>1, <3>2
  <2> QED
    BY <1>6, <2>1, <2>2, <2>3 DEF RecordInv
<1> QED
  BY <1>7, <1>8, <1>9
-----------------------------------------------------------------------------
(* What the coordinator may start: a fresh record, or the stored row.      *)
LEMMA RunInv ==
  ASSUME FinalizationInv, NEW o \in Ops, Run(o)
  PROVE  TypeOK' /\ RunnerInv(o)' /\ RecordInv(o)'
<1> DEFINE r == recordOf(o)
<1>1. TypeOK /\ RunnerInv(o) /\ RecordInv(o)
  BY DEF FinalizationInv
<1>2. store[o] \in Records \cup {NoRecord} /\ installed \in Versions
  BY <1>1 DEF TypeOK
<1>3. /\ r \in Records
      /\ r.steps = store[o].steps /\ r.attempts = store[o].attempts
      /\ store[o].plan \in {NoPlan, r.plan}
      /\ Closed(r)
  <2>1. CASE store[o].plan = NoPlan
    <3>1. store[o] = NoRecord
      BY <1>2, <2>1, PlanAssumption DEF Records
    <3>2. r = fresh(installed)
      BY <2>1 DEF recordOf, newRecord
    <3> QED
      BY <1>2, <3>1, <3>2, NoRecordType, PlanAssumption DEF fresh, Records, Closed
  <2>2. CASE store[o].plan # NoPlan
    BY <1>1, <1>2, <2>2, NoRecordType DEF recordOf, RunnerInv
  <2> QED
    BY <2>1, <2>2
<1>4. /\ run'[o] = [pc |-> run'[o].pc, rec |-> run'[o].rec, at |-> 0]
      /\ \/ run'[o].pc = "rejected" /\ run'[o].rec = NoRecord
         \/ run'[o].pc \in {"start", "context"} /\ run'[o].rec = r
      /\ UNCHANGED <<installed, store, boot, calls, effects, crashes>>
  BY <1>1 DEF Run, TypeOK, RunnerOK
<1> HIDE DEF r
<1>5. TypeOK'
  <2>1. run'[o] \in [pc: Saves \cup {"idle", "execute", "resolved", "rejected"},
                     rec: Records \cup {NoRecord}, at: 0..MaxPlan]
    BY <1>3, <1>4, PlanAssumption
  <2>2. RunnerOK'
    BY <1>1, <2>1 DEF Run, TypeOK, RunnerOK
  <2> QED
    BY <1>1, <1>4, <2>2 DEF TypeOK, BootOK
<1>6. RunnerInv(o)'
  <2>1. CopyAgrees(o)' /\ FirstOpenStep(o)'
    BY <1>3, <1>4 DEF CopyAgrees, FirstOpenStep, running, AtStep
  <2>2. Closed(store[o])' /\ (run'[o].rec = r => Closed(run[o].rec)')
    BY <1>1, <1>3, <1>4 DEF RunnerInv, Closed, incompleteSteps, planned
  <2> QED
    BY <1>4, <2>1, <2>2 DEF RunnerInv, running
<1>7. RecordInv(o)'
  BY <1>1, <1>4 DEF RecordInv
<1> QED
  BY <1>5, <1>6, <1>7

\* A recovery starts from the stored row.
LEMMA ResumeInv ==
  ASSUME FinalizationInv, NEW o \in Ops, ResumeNext(o)
  PROVE  TypeOK' /\ RunnerInv(o)' /\ RecordInv(o)'
<1>1. TypeOK /\ RunnerInv(o) /\ RecordInv(o)
  BY DEF FinalizationInv
<1> DEFINE C == store[o].plan \in Recoverable[installed] /\ store[o].context
<1>2. CASE ~C
  <2>1. TypeOK'
    <3>1. BootOK'
      BY <1>1, <1>2 DEF ResumeNext, bootTo, TypeOK, BootOK
    <3> QED
      BY <1>1, <1>2, <3>1 DEF ResumeNext, TypeOK, RunnerOK
  <2> QED
    BY <1>1, <1>2, <2>1, Untouched DEF ResumeNext
<1>3. CASE C
  <2>1. /\ store[o].plan \in Recoverable[installed]
        /\ boot' = [boot EXCEPT !.queue = @ \ {o}, !.current = o]
        /\ run' = [run EXCEPT ![o] = [pc |-> "start", rec |-> store[o], at |-> 0]]
        /\ UNCHANGED <<installed, store, calls, effects, crashes>>
    BY <1>3 DEF ResumeNext
  <2>2. store[o] \in Records
    BY <1>1, <2>1, NoRecordType, PlanAssumption DEF TypeOK
  <2>3. run'[o] = [pc |-> "start", rec |-> store[o], at |-> 0]
    BY <1>1, <2>1 DEF TypeOK, RunnerOK
  <2>4. TypeOK'
    <3>1. BootOK'
      BY <1>1, <2>1 DEF TypeOK, BootOK
    <3>2. run'[o] \in [pc: Saves, rec: Records, at: 0..MaxPlan]
      BY <2>2, <2>3, PlanAssumption
    <3>3. RunnerOK'
      BY <1>1, <2>1, <3>2, PlanAssumption DEF TypeOK, RunnerOK
    <3> QED
      BY <1>1, <2>1, <3>1, <3>3 DEF TypeOK
  <2>5. CopyAgrees(o)' /\ FirstOpenStep(o)'
    BY <2>1, <2>2, <2>3 DEF CopyAgrees, FirstOpenStep, running, AtStep
  <2>6. Closed(store[o])' /\ Closed(run[o].rec)'
    BY <1>1, <2>1, <2>3 DEF RunnerInv, Closed, incompleteSteps, planned
  <2>7. RunnerInv(o)'
    BY <2>3, <2>5, <2>6 DEF RunnerInv
  <2>8. RecordInv(o)'
    BY <1>1, <2>1, <2>3 DEF RecordInv
  <2> QED
    BY <2>4, <2>7, <2>8
<1> QED
  BY <1>2, <1>3

\* A new process knows nothing but the store.
LEMMA CrashInv ==
  ASSUME FinalizationInv, Crash
  PROVE  FinalizationInv'
<1>1. TypeOK /\ \A o \in Ops : RunnerInv(o) /\ RecordInv(o)
  BY DEF FinalizationInv
<1>2. run' = [o \in Ops |-> Idle] /\ UNCHANGED <<store, calls, effects>>
  BY DEF Crash
<1>3. TypeOK'
  <2>1. BootOK' /\ RunnerOK'
    BY <1>2, PlanAssumption DEF Crash, bootTo, BootOK, RunnerOK, Idle
  <2>2. crashes' \in Nat /\ installed' \in Versions
    BY <1>1 DEF Crash, TypeOK
  <2> QED
    BY <1>1, <1>2, <2>1, <2>2 DEF TypeOK
<1>4. ASSUME NEW o \in Ops PROVE RunnerInv(o)' /\ RecordInv(o)'
  <2>1. run'[o].pc = "idle"
    BY <1>2 DEF Idle
  <2>2. Closed(store[o])'
    BY <1>1, <1>2 DEF RunnerInv, Closed, incompleteSteps, planned
  <2>3. RunnerInv(o)'
    BY <2>1, <2>2 DEF RunnerInv, CopyAgrees, FirstOpenStep, running, AtStep
  <2>4. RecordInv(o)'
    BY <1>1, <1>2, <2>1 DEF RecordInv
  <2> QED
    BY <2>3, <2>4
<1> QED
  BY <1>3, <1>4 DEF FinalizationInv

\* The coordinator's own steps touch no runner and no row.
LEMMA CoordinatorInv ==
  ASSUME FinalizationInv,
         Initialize \/ Migrate \/ RecoverProtection \/ ResumeReturns \/ BecomeReady
  PROVE  FinalizationInv'
<1>1. TypeOK /\ \A o \in Ops : RunnerInv(o) /\ RecordInv(o)
  BY DEF FinalizationInv
<1>2. UNCHANGED <<installed, store, run, calls, effects, crashes>>
  BY DEF Initialize, Migrate, RecoverProtection, ResumeReturns, BecomeReady
<1>3. BootOK'
  <2>1. listIncomplete \subseteq Ops
    BY DEF listIncomplete
  <2> HIDE DEF listIncomplete
  <2>2. CASE Initialize \/ Migrate \/ BecomeReady
    BY <2>2 DEF Initialize, Migrate, BecomeReady, bootTo, BootOK
  <2>3. CASE RecoverProtection
    BY <2>1, <2>3 DEF RecoverProtection, bootTo, BootOK
  <2>4. CASE ResumeReturns
    BY <1>1, <2>4 DEF ResumeReturns, bootTo, TypeOK, BootOK
  <2> QED
    BY <2>2, <2>3, <2>4
<1>4. TypeOK'
  BY <1>1, <1>2, <1>3 DEF TypeOK, RunnerOK
<1>5. ASSUME NEW o \in Ops PROVE RunnerInv(o)' /\ RecordInv(o)'
  BY <1>1, <1>2, Untouched
<1> QED
  BY <1>4, <1>5 DEF FinalizationInv

\* Every step of the system keeps the invariant.
LEMMA NextInv == FinalizationInv /\ [Next]_vars => FinalizationInv'
<1> SUFFICES ASSUME FinalizationInv, [Next]_vars PROVE FinalizationInv'
  OBVIOUS
<1>0. TypeOK /\ \A o \in Ops : RunnerInv(o) /\ RecordInv(o)
  BY DEF FinalizationInv
<1>1. ASSUME NEW o \in Ops, Save(o) \/ SaveFails(o) \/ ExecuteFinalizer(o) \/ Run(o) \/ ResumeNext(o)
      PROVE  FinalizationInv'
  <2>1. TypeOK' /\ RunnerInv(o)' /\ RecordInv(o)'
    BY <1>0, <1>1, SaveType, SaveInv, SaveFailsInv, ExecuteInv, RunInv, ResumeInv
  <2>2. ASSUME NEW p \in Ops, p # o PROVE RunnerInv(p)' /\ RecordInv(p)'
    <3>1. /\ run'[p] = run[p] /\ store'[p] = store[p]
          /\ calls'[p] = calls[p] /\ effects'[p] = effects[p]
      BY <1>0, <1>1, <2>2
      DEF TypeOK, RunnerOK, Save, Writes, SaveFails, ExecuteFinalizer, Run, ResumeNext
    <3> QED
      BY <1>0, <3>1, Untouched
  <2> QED
    BY <2>1, <2>2 DEF FinalizationInv
<1>2. CASE UNCHANGED vars
  <2>1. ASSUME NEW o \in Ops PROVE RunnerInv(o)' /\ RecordInv(o)'
    BY <1>0, <1>2, Untouched DEF vars
  <2>2. TypeOK'
    BY <1>0, <1>2 DEF vars, TypeOK, RunnerOK, BootOK
  <2> QED
    BY <2>1, <2>2 DEF FinalizationInv
<1> QED
  BY <1>1, <1>2, CrashInv, CoordinatorInv DEF Next, Runner, Boot

\* The invariant holds in every reachable state.
LEMMA Invariance == Spec => []FinalizationInv
BY InitInv, NextInv, PTL DEF Spec
-----------------------------------------------------------------------------
\* The types hold in every reachable state.
THEOREM FinalizationTypes == Spec => []TypeOK
<1>1. FinalizationInv => TypeOK
  BY DEF FinalizationInv
<1> QED
  BY <1>1, Invariance, PTL

(* The finalizers of an operation run in plan order, the host completion   *)
(* message after all local ones, over any failures and restarts.           *)
THEOREM FinalizersInOrder == Spec => []PlanOrder
<1>1. FinalizationInv => PlanOrder
  BY DEF FinalizationInv, RecordInv, PlanOrder
<1> QED
  BY <1>1, Invariance, PTL

(* A record closed as completed has had each of its finalizers return.     *)
THEOREM ClosedRecordsAreDone == Spec => []ClosedIsDone
<1>1. FinalizationInv => ClosedIsDone
  <2> SUFFICES ASSUME FinalizationInv, NEW o \in Ops, store[o].plan # NoPlan,
                      store[o].status = "completed", NEW i \in planned(store[o])
               PROVE  i \in effects[o]
    BY DEF ClosedIsDone
  <2>1. store[o].steps[i] = "completed"
    BY DEF FinalizationInv, RunnerInv, Closed, incompleteSteps
  <2>2. store[o] \in Records
    BY NoRecordType DEF FinalizationInv, TypeOK
  <2>3. i \in Positions
    BY <2>2, PlanAssumption DEF planned, Records
  <2> QED
    BY <2>1, <2>3 DEF FinalizationInv, RecordInv
<1> QED
  BY <1>1, Invariance, PTL

(* No call of a finalizer is missing from the attempts on disk.            *)
THEOREM AttemptsAreCounted == Spec => []AttemptsCoverCalls
<1>1. FinalizationInv => AttemptsCoverCalls
  BY DEF FinalizationInv, RecordInv, AttemptsCoverCalls
<1> QED
  BY <1>1, Invariance, PTL

(* The record is a true account of the work, for any operations, plans,     *)
(* builds, attempts and crashes (#execute saves before and after each call). *)
THEOREM WorkAccountedFor == Spec => []WorkIsAccountedFor
<1>1. PlanOrder /\ ClosedIsDone /\ AttemptsCoverCalls => WorkIsAccountedFor
  BY DEF WorkIsAccountedFor
<1> QED
  BY <1>1, FinalizersInOrder, ClosedRecordsAreDone, AttemptsAreCounted, PTL

(* A step recorded as completed is neither run again nor taken back, unless  *)
(* the save of the completion rejected (#execute's catch block).             *)
THEOREM CompletedStepsStay == Spec => RecordedStepsStay
<1> DEFINE Kept(o) == \A i \in Positions :
             store[o].steps[i] = "completed" /\ ~CompletionRefused(o, i) =>
               store'[o].steps[i] = "completed" /\ calls'[o][i] = calls[o][i]
<1>1. ASSUME FinalizationInv, [Next]_vars, NEW o \in Ops PROVE Kept(o)
  <2>0. TypeOK /\ RunnerInv(o)
    BY <1>1 DEF FinalizationInv
  <2>1. CASE run[o].pc \in Saves /\ store'[o] = toSave(o) /\ calls' = calls
    <3>1. /\ run[o].rec \in Records
          /\ run[o].rec.steps = store[o].steps \/ Unacknowledged(o)
      BY <2>0, <2>1 DEF RunnerInv, CopyAgrees, running
    <3>2. run[o].rec.steps \in [Positions -> StepStatuses]
      BY <3>1 DEF Records
    <3>3. run[o].pc \in AtStep => run[o].rec.steps[run[o].at] # "completed"
      BY <2>0 DEF RunnerInv, FirstOpenStep
    <3>4. \A i \in Positions : run[o].rec.steps[i] = "completed" => toSave(o).steps[i] = "completed"
      <4>1. CASE run[o].pc \in {"context", "start", "failSeal", "seal"}
        BY <2>0, <2>1, <4>1, SavedRow
      <4>2. CASE run[o].pc \in {"mark", "complete", "fail"}
        <5>1. PICK s : toSave(o).steps = [run[o].rec.steps EXCEPT ![run[o].at] = s]
          BY <2>0, <2>1, <4>2, SavedRow
        <5> QED
          BY <3>2, <3>3, <4>2, <5>1 DEF AtStep
      <4> QED
        BY <2>1, <4>1, <4>2
    <3>5. \A i \in Positions : store[o].steps[i] = "completed" /\ ~CompletionRefused(o, i) =>
            run[o].rec.steps[i] = "completed"
      BY <3>1, <3>2 DEF Unacknowledged, CompletionRefused
    <3> QED
      BY <2>1, <3>4, <3>5
  <2>2. CASE ExecuteFinalizer(o)
    <3>1. /\ store' = store /\ store[o].steps[run[o].at] # "completed"
          /\ calls' = [calls EXCEPT ![o][run[o].at] = @ + 1]
          /\ calls[o] \in [Positions -> Nat] /\ calls \in [Ops -> [Positions -> Nat]]
      BY <2>0, <2>2
      DEF ExecuteFinalizer, TypeOK, RunnerInv, CopyAgrees, FirstOpenStep, running, AtStep, Unacknowledged
    <3>2. calls'[o] = [calls[o] EXCEPT ![run[o].at] = calls[o][run[o].at] + 1]
      BY <3>1
    <3>3. \A i \in Positions : i # run[o].at => calls'[o][i] = calls[o][i]
      BY <3>1, <3>2
    <3> QED
      BY <3>1, <3>3
  <2>3. CASE store'[o] = store[o] /\ calls'[o] = calls[o]
    BY SMTT(40), <2>3
  <2>4. ASSUME NEW p \in Ops, Save(p) \/ SaveFails(p)
        PROVE  \/ run[o].pc \in Saves /\ store'[o] = toSave(o) /\ calls' = calls
               \/ store'[o] = store[o] /\ calls'[o] = calls[o]
    BY <2>0, <2>4 DEF Save, SaveFails, Writes, TypeOK
  <2>5. ASSUME NEW p \in Ops, ExecuteFinalizer(p), p # o
        PROVE  store'[o] = store[o] /\ calls'[o] = calls[o]
    BY <2>0, <2>5 DEF ExecuteFinalizer, TypeOK
  <2>6. \/ \E p \in Ops : Save(p) \/ SaveFails(p) \/ ExecuteFinalizer(p)
        \/ UNCHANGED <<store, calls>>
    BY <1>1 DEF Next, Runner, Boot, vars, Run, ResumeNext, Initialize, Migrate, RecoverProtection,
                ResumeReturns, BecomeReady, Crash
  <2> QED
    BY <2>1, <2>2, <2>3, <2>4, <2>5, <2>6
<1>2. FinalizationInv /\ [Next]_vars => [\A o \in Ops : Kept(o)]_vars
  BY <1>1
<1> QED
  BY <1>2, Invariance, PTL DEF Spec, RecordedStepsStay
-----------------------------------------------------------------------------
(* While the coordinator is not ready, nobody but the operation it resumes *)
(* has a runner at work, and it has still to deal with every incomplete    *)
(* record.                                                                 *)
StartupInv ==
  /\ boot.status # "ready" =>
       \A o \in Ops : running(o) => boot.status = "finalizing" /\ o = boot.current
  /\ boot.status = "finalizing" =>
       \A o \in listIncomplete : o \in boot.queue \/ (o = boot.current /\ run[o].pc # "resolved")

\* Nothing is listed before a startup begins.
LEMMA InitStartup == Init => StartupInv
BY DEF Init, StartupInv, running, Idle

\* A runner's step leaves its own operation covered by the startup in progress.
LEMMA RunnerKeepsStartup ==
  ASSUME FinalizationInv, StartupInv, NEW o \in Ops, Runner(o)
  PROVE  StartupInv'
<1>1. /\ running(o) /\ boot' = boot
      /\ \A p \in Ops : p # o => run'[p] = run[p] /\ store'[p] = store[p]
  BY DEF Runner, Save, Writes, SaveFails, ExecuteFinalizer, running, FinalizationInv, TypeOK, RunnerOK
<1>2. CASE boot.status = "ready"
  BY <1>1, <1>2 DEF StartupInv
<1>3. CASE boot.status # "ready"
  <2>1. boot.status = "finalizing" /\ o = boot.current
    BY <1>1, <1>3 DEF StartupInv
  <2>2. \A p \in Ops : running(p)' => p = o
    BY <1>1, <1>3, <2>1 DEF StartupInv, running
  <2>3. run'[o].pc = "resolved" => o \notin listIncomplete'
    <3>1. CASE Save(o)
      <4>1. /\ run'[o] = afterSave(o) /\ store'[o] = toSave(o) /\ run[o].pc \in Saves
            /\ TypeOK /\ RunnerInv(o)
        BY <3>1 DEF Save, Writes, FinalizationInv, TypeOK, RunnerOK
      <4>2. CASE run[o].pc = "seal"
        <5>1. toSave(o) = [run[o].rec EXCEPT !.status = "completed"] /\ run[o].rec \in Records
          BY <4>1, <4>2, SavedRow DEF toSave
        <5>2. store'[o].status = "completed"
          BY <4>1, <5>1 DEF Records
        <5> QED
          BY SMTT(40), <5>2 DEF listIncomplete
      <4>3. CASE run[o].pc \in {"start", "complete"}
        <5>1. run'[o] = advance(toSave(o)) /\ toSave(o) \in Records
          BY <4>1, <4>3, SavedRow DEF afterSave
        <5> QED
          BY <5>1, AdvanceFindsFirst
      <4>4. CASE run[o].pc \notin {"seal", "start", "complete"}
        BY <4>1, <4>4 DEF afterSave
      <4> QED
        BY <4>2, <4>3, <4>4
    <3>2. CASE SaveFails(o) \/ ExecuteFinalizer(o)
      BY <3>2 DEF SaveFails, ExecuteFinalizer, FinalizationInv, TypeOK, RunnerOK
    <3> QED
      BY <3>1, <3>2 DEF Runner
  <2>4. \A p \in listIncomplete' : p # o => p \in listIncomplete
    BY <1>1 DEF listIncomplete
  <2>5. \A p \in listIncomplete' : p \in boot.queue \/ (p = boot.current /\ run'[p].pc # "resolved")
    <3> SUFFICES ASSUME NEW p \in listIncomplete'
                 PROVE  p \in boot.queue \/ (p = boot.current /\ run'[p].pc # "resolved")
      OBVIOUS
    <3>1. CASE p = o
      BY <2>1, <2>3, <3>1
    <3>2. CASE p # o
      BY <2>1, <2>4, <3>2 DEF StartupInv
    <3> QED
      BY <3>1, <3>2
  <2> QED
    BY <1>1, <2>1, <2>2, <2>5 DEF StartupInv
<1> QED
  BY <1>2, <1>3

\* Every step keeps each incomplete record covered by the startup in progress.
LEMMA NextStartup == FinalizationInv /\ StartupInv /\ [Next]_vars => StartupInv'
<1> SUFFICES ASSUME FinalizationInv, StartupInv, [Next]_vars PROVE StartupInv'
  OBVIOUS
<1>0. run \in [Ops -> [pc: Saves \cup {"idle", "execute", "resolved", "rejected"},
                       rec: Records \cup {NoRecord}, at: 0..MaxPlan]]
      /\ boot.current \in Ops \cup {NoOp} /\ listIncomplete \subseteq Ops
  BY DEF FinalizationInv, TypeOK, RunnerOK, BootOK, listIncomplete
<1>1. ASSUME NEW o \in Ops, Run(o) PROVE StartupInv'
  BY <1>1 DEF Run, StartupInv
<1>2. CASE Initialize \/ Migrate
  BY <1>2 DEF Initialize, Migrate, bootTo, StartupInv, running
<1>3. CASE RecoverProtection
  BY <1>3 DEF RecoverProtection, bootTo, StartupInv, running, listIncomplete
<1>4. ASSUME NEW o \in Ops, ResumeNext(o) PROVE StartupInv'
  <2>1. /\ boot.status = "finalizing" /\ boot.current = NoOp
        /\ store' = store /\ \A p \in Ops : ~running(p)
    BY <1>4, OpsAssumption DEF ResumeNext, StartupInv
  <2>2. CASE store[o].plan \in Recoverable[installed] /\ store[o].context
    <3>1. /\ boot' = [boot EXCEPT !.queue = @ \ {o}, !.current = o]
          /\ run' = [run EXCEPT ![o] = [pc |-> "start", rec |-> store[o], at |-> 0]]
      BY <1>4, <2>2 DEF ResumeNext
    <3>2. boot'.status = "finalizing" /\ boot'.queue = boot.queue \ {o} /\ boot'.current = o
      BY <2>1, <3>1 DEF FinalizationInv, TypeOK, BootOK
    <3>3. run'[o].pc = "start" /\ \A p \in Ops : p # o => run'[p] = run[p]
      BY <1>0, <3>1
    <3>4. listIncomplete' = listIncomplete
      BY <2>1 DEF listIncomplete
    <3>5. \A p \in listIncomplete : p \in boot.queue
      BY <1>0, <2>1, OpsAssumption DEF StartupInv
    <3>6. \A p \in Ops : running(p)' => p = o
      BY <2>1, <3>3 DEF running
    <3> QED
      BY <3>2, <3>3, <3>4, <3>5, <3>6 DEF StartupInv
  <2>3. CASE ~(store[o].plan \in Recoverable[installed] /\ store[o].context)
    BY <1>4, <2>1, <2>3 DEF ResumeNext, bootTo, StartupInv, running
  <2> QED
    BY <2>2, <2>3
<1>5. CASE ResumeReturns
  <2>1. CASE boot' = [boot EXCEPT !.current = NoOp] /\ run[boot.current].pc = "resolved"
    <3>1. /\ boot.status = "finalizing" /\ store' = store /\ run' = run
          /\ boot'.status = "finalizing" /\ boot'.queue = boot.queue /\ boot'.current = NoOp
      BY <1>5, <2>1 DEF ResumeReturns, FinalizationInv, TypeOK, BootOK
    <3>2. \A p \in Ops : ~running(p)
      BY <2>1, <3>1 DEF StartupInv, running
    <3>3. \A p \in listIncomplete : p \in boot.queue
      BY <2>1, <3>1 DEF StartupInv
    <3> QED
      BY <3>1, <3>2, <3>3 DEF StartupInv, running, listIncomplete
  <2>2. CASE bootTo("intervention") /\ run[boot.current].pc = "rejected"
    <3>1. \A p \in Ops : ~running(p)
      BY <1>5, <2>2 DEF ResumeReturns, StartupInv, running
    <3> QED
      BY <1>5, <2>2, <3>1 DEF ResumeReturns, bootTo, StartupInv, running
  <2> QED
    BY <1>5, <2>1, <2>2 DEF ResumeReturns
<1>6. CASE BecomeReady
  BY <1>6 DEF BecomeReady, bootTo, StartupInv
<1>7. CASE Crash
  BY <1>7 DEF Crash, bootTo, StartupInv, running, Idle
<1>8. CASE UNCHANGED vars
  BY <1>8 DEF vars, StartupInv, running, listIncomplete
<1> QED
  BY <1>1, <1>2, <1>3, <1>4, <1>5, <1>6, <1>7, <1>8, RunnerKeepsStartup DEF Next, Boot

(* The coordinator becomes ready only when no record is incomplete.        *)
THEOREM ReadyOnlyWhenClean == Spec => ReadyIsClean
<1> DEFINE Clean == boot.status # "ready" /\ boot'.status = "ready" => listIncomplete = {}
<1>1. ASSUME FinalizationInv, StartupInv, [Next]_vars PROVE Clean
  <2> SUFFICES ASSUME boot.status # "ready", boot'.status = "ready" PROVE listIncomplete = {}
    OBVIOUS
  <2>1. BecomeReady
    <3>1. boot' # boot /\ BootOK
      BY <1>1 DEF FinalizationInv, TypeOK
    <3>2. \/ BecomeReady \/ Initialize \/ Migrate \/ RecoverProtection \/ ResumeReturns \/ Crash
          \/ \E o \in Ops : ResumeNext(o)
      BY <1>1, <3>1
      DEF Next, Runner, Boot, vars, Save, Writes, SaveFails, ExecuteFinalizer, Run
    <3>3. ~Initialize /\ ~Migrate /\ ~RecoverProtection /\ ~Crash
      BY DEF Initialize, Migrate, RecoverProtection, Crash, bootTo
    <3>4. ~ResumeReturns
      BY <3>1 DEF ResumeReturns, bootTo, BootOK
    <3>5. ASSUME NEW o \in Ops, ResumeNext(o) PROVE FALSE
      <4>1. CASE store[o].plan \in Recoverable[installed] /\ store[o].context
        <5>1. boot' = [boot EXCEPT !.queue = @ \ {o}, !.current = o] /\ boot.status = "finalizing"
          BY <3>5, <4>1 DEF ResumeNext
        <5>2. boot'.status = "finalizing"
          BY <3>1, <5>1 DEF BootOK
        <5> QED
          BY <5>2
      <4>2. CASE ~(store[o].plan \in Recoverable[installed] /\ store[o].context)
        BY <3>5, <4>2 DEF ResumeNext, bootTo
      <4> QED
        BY <4>1, <4>2
    <3> QED
      BY <3>2, <3>3, <3>4, <3>5
  <2> QED
    BY <1>1, <2>1, OpsAssumption DEF BecomeReady, StartupInv, listIncomplete
<1>2. FinalizationInv /\ StartupInv /\ [Next]_vars => [Clean]_vars
  BY <1>1
<1>3. Spec => []StartupInv
  BY InitStartup, NextStartup, Invariance, PTL DEF Spec
<1> QED
  BY <1>2, <1>3, Invariance, PTL DEF Spec, ReadyIsClean
=============================================================================
